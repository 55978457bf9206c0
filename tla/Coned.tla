------------------------------- MODULE Coned -------------------------------
(***************************************************************************)
(* The daemon: its start-up sequence (coned/src/main.rs), and the two      *)
(* servers it runs on threads of their own, the IPC server                 *)
(* (coned/src/ipc.rs) and the SSH agent (coned/src/ssh_agent.rs), which    *)
(* share one Arc<Mutex<Store>> (cone-store/src/store.rs).                  *)
(*                                                                         *)
(* A connection is used once and stands for its client too.  Which bytes a *)
(* request, a certificate or a signature is made of is left out; what is   *)
(* kept is who holds the store, whether it is unlocked, where a decrypted  *)
(* key is in memory, and what each connection has asked and been told.     *)
(***************************************************************************)
EXTENDS Naturals, Sequences

CONSTANTS
  IpcConns,     \* connections to the IPC socket
  SshConns,     \* connections to the SSH agent socket
  Registered,   \* IPC connections whose peer first runs a program with a known exe and hash
  Faults,       \* what may fail: start-up steps, "bind", "peercred", "panic"
  Backlog,      \* length of a listener's queue (listen(fd, 128))
  MaxRestarts   \* times systemd starts the daemon again

Conns   == IpcConns \cup SshConns
Threads == {"ipc", "ssh"}

Checks == {"env", "root", "harden", "unlock", "integrity", "hashes"}

ASSUME ConnsAssumption == /\ IpcConns \cap SshConns = {}
                          /\ Registered \subseteq IpcConns
                          /\ "none" \notin Conns
ASSUME BoundsAssumption == Backlog \in Nat /\ MaxRestarts \in Nat

IpcRequests == {"ping", "status", "lock", "list", "sign", "bad"}
SshRequests == {"identities", "sign", "unknown", "bad"}

Answers == {"pong", "unlocked", "locked", "ok", "certs", "signature",
            "identities", "empty", "error", "failure", "rejected"}

VARIABLES
  main,      \* the step main() is at
  passed,    \* start-up steps that have succeeded
  exit,      \* how the process ended: main() returned Ok, Err or exit(1), a signal
  restarts,  \* restarts so far
  unlocked,  \* StoreState::Unlocked
  mutex,     \* who holds the guard of the store, or "free"
  poisoned,  \* a thread panicked while it held the guard
  pc,        \* where each server thread is
  client,    \* the connection each server thread is serving, or "none"
  reply,     \* the response a thread has built and not sent, or "none"
  key,       \* does the thread have a decrypted private key in memory
  backlog,   \* connections made and not accepted yet, per listener
  conn,      \* each connection: new, open, shut (by its client), closed (by coned)
  ask,       \* the request a client has sent and coned not answered, or "none"
  ans,       \* the answer a client has not read yet, or "none"
  late,      \* ghost: was the request in ask sent when the store was locked
  ran        \* programs the peer of an IPC connection has run so far

mainVars   == <<main, passed, exit, restarts>>
storeVars  == <<unlocked, mutex, poisoned>>
threadVars == <<pc, client, reply, key>>
connVars   == <<backlog, conn, ask, ans, late, ran>>
vars == <<mainVars, storeVars, threadVars, connVars>>

Server(c) == IF c \in IpcConns THEN "ipc" ELSE "ssh"
Requests(c) == IF c \in IpcConns THEN IpcRequests ELSE SshRequests

Programs == {"registered", "other"}

Down == {"off", "bind", "done"}               \* no listener
InStore == {"held", "signing", "release"}     \* holding the guard
Busy == {"want", "reply"} \cup InStore        \* with a request read

TypeOK ==
  /\ main \in Checks \cup {"spawn", "join", "exited"}
  /\ passed \in SUBSET Checks
  /\ exit \in {"none", "clean", "failure", "signal"}
  /\ restarts \in 0..MaxRestarts
  /\ unlocked \in BOOLEAN
  /\ mutex \in Threads \cup {"free"}
  /\ poisoned \in BOOLEAN
  /\ pc \in [Threads -> Down \cup Busy \cup {"accept", "verify", "read"}]
  /\ client \in [Threads -> Conns \cup {"none"}]
  /\ reply \in [Threads -> Answers \cup {"none"}]
  /\ key \in [Threads -> BOOLEAN]
  /\ backlog \in [Threads -> Seq(Conns)]
  /\ conn \in [Conns -> {"new", "open", "shut", "closed"}]
  /\ ask \in [Conns -> IpcRequests \cup SshRequests \cup {"none"}]
  /\ ans \in [Conns -> Answers \cup {"none"}]
  /\ late \in [Conns -> BOOLEAN]
  /\ ran \in [IpcConns -> SUBSET Programs]

Init ==
  /\ main = "env" /\ passed = {} /\ exit = "none" /\ restarts = 0
  /\ unlocked = FALSE /\ mutex = "free" /\ poisoned = FALSE
  /\ pc = [t \in Threads |-> "off"]
  /\ client = [t \in Threads |-> "none"]
  /\ reply = [t \in Threads |-> "none"]
  /\ key = [t \in Threads |-> FALSE]
  /\ backlog = [t \in Threads |-> <<>>]
  /\ conn = [c \in Conns |-> "new"]
  /\ ask = [c \in Conns |-> "none"]
  /\ ans = [c \in Conns |-> "none"]
  /\ late = [c \in Conns |-> FALSE]
  /\ ran = [c \in IpcConns |-> IF c \in Registered THEN {"registered"} ELSE {"other"}]

-----------------------------------------------------------------------------
(* The process as a whole *)

\* The process is gone with its memory, and the kernel closes its sockets.
ProcessEnds(how) ==
  /\ main' = "exited" /\ exit' = how
  /\ unlocked' = FALSE /\ mutex' = "free" /\ poisoned' = FALSE
  /\ pc' = [t \in Threads |-> "off"]
  /\ client' = [t \in Threads |-> "none"]
  /\ reply' = [t \in Threads |-> "none"]
  /\ key' = [t \in Threads |-> FALSE]
  /\ backlog' = [t \in Threads |-> <<>>]
  /\ conn' = [c \in Conns |-> IF conn[c] = "open" THEN "closed" ELSE conn[c]]
  /\ ask' = [c \in Conns |-> "none"]
  /\ late' = [c \in Conns |-> FALSE]
  /\ UNCHANGED <<passed, restarts, ans, ran>>

After(step) ==
  CASE step = "env"       -> "root"
    [] step = "root"      -> "harden"
    [] step = "harden"    -> "unlock"
    [] step = "unlock"    -> "integrity"
    [] step = "integrity" -> "hashes"
    [] step = "hashes"    -> "spawn"

\* Steps 1 to 6 of main(): each goes on to the next.  Step 4 unlocks the store.
StartupStep ==
  /\ main \in Checks
  /\ main' = After(main)
  /\ passed' = passed \cup {main}
  /\ unlocked' = (unlocked \/ main = "unlock")
  /\ UNCHANGED <<exit, restarts, mutex, poisoned, threadVars, connVars>>

\* Mutant: a failed integrity check is logged, and the start-up goes on.
StartupFailsLogged ==
  \/ /\ main = "integrity" /\ "integrity" \in Faults
     /\ main' = "hashes"
     /\ UNCHANGED <<passed, exit, restarts, storeVars, threadVars, connVars>>
  \/ main \in (Checks \cap Faults) \ {"integrity"} /\ ProcessEnds("failure")

\* A step that fails ends the process: `?` out of main(), or exit(1) in step 5.
StartupFails ==
  /\ main \in Checks \cap Faults
  /\ ProcessEnds("failure")

\* Step 7.
Spawn ==
  /\ main = "spawn"
  /\ main' = "join"
  /\ pc' = [t \in Threads |-> "bind"]
  /\ UNCHANGED <<passed, exit, restarts, storeVars, client, reply, key, connVars>>

\* Both join()s have returned: main() returns Ok(()).
MainReturns ==
  /\ main = "join"
  /\ \A t \in Threads : pc[t] = "done"
  /\ ProcessEnds("clean")

Kill ==
  /\ main # "exited" /\ restarts < MaxRestarts
  /\ ProcessEnds("signal")

\* Mutant: no limit on restarts.
SystemdRestartsForEver ==
  /\ main = "exited" /\ exit \in {"failure", "signal"}
  /\ restarts' = restarts + 1
  /\ main' = "env" /\ passed' = {} /\ exit' = "none"
  /\ UNCHANGED <<storeVars, threadVars, connVars>>

\* Restart=on-failure: a main() that returned Ok is not started again.
SystemdRestarts ==
  /\ main = "exited" /\ exit \in {"failure", "signal"}
  /\ restarts < MaxRestarts
  /\ restarts' = restarts + 1
  /\ main' = "env" /\ passed' = {} /\ exit' = "none"
  /\ UNCHANGED <<storeVars, threadVars, connVars>>

-----------------------------------------------------------------------------
(* Clients *)

Connect(c) ==
  /\ conn[c] = "new"
  /\ pc[Server(c)] \notin Down
  /\ Len(backlog[Server(c)]) < Backlog
  /\ conn' = [conn EXCEPT ![c] = "open"]
  /\ backlog' = [backlog EXCEPT ![Server(c)] = Append(@, c)]
  /\ UNCHANGED <<mainVars, storeVars, threadVars, ask, ans, late, ran>>

Send(c, r) ==
  /\ conn[c] = "open" /\ ask[c] = "none" /\ ans[c] = "none"
  /\ ask' = [ask EXCEPT ![c] = r]
  /\ late' = [late EXCEPT ![c] = ~unlocked]
  /\ UNCHANGED <<mainVars, storeVars, threadVars, backlog, conn, ans, ran>>

Receive(c) ==
  /\ ans[c] # "none"
  /\ ans' = [ans EXCEPT ![c] = "none"]
  /\ UNCHANGED <<mainVars, storeVars, threadVars, backlog, conn, ask, late, ran>>

HangUp(c) ==
  /\ conn[c] = "open"
  /\ conn' = [conn EXCEPT ![c] = "shut"]
  /\ UNCHANGED <<mainVars, storeVars, threadVars, backlog, ask, ans, late, ran>>

\* The peer of a connection execs, or exits and leaves its PID to another process; or
\* an upgrade replaces the file it runs, which from then on is none that is known.
PeerChanges(c, program) ==
  /\ c \in IpcConns /\ conn[c] = "open"
  /\ program \notin ran[c]
  /\ ran' = [ran EXCEPT ![c] = @ \cup {program}]
  /\ UNCHANGED <<mainVars, storeVars, threadVars, backlog, conn, ask, ans, late>>

-----------------------------------------------------------------------------
(* What both servers do alike *)

\* The stream goes out of scope: coned closes its end, and reads no more of it.
DropConn(c) ==
  /\ conn' = [conn EXCEPT ![c] = IF @ = "open" THEN "closed" ELSE @]
  /\ ask' = [ask EXCEPT ![c] = "none"]

NextConn(t) ==
  /\ pc' = [pc EXCEPT ![t] = "accept"]
  /\ client' = [client EXCEPT ![t] = "none"]
  /\ reply' = [reply EXCEPT ![t] = "none"]

\* The thread ends and its listener with it: what is queued there is reset.
ThreadEnds(t, c) ==
  LET gone == {c} \cup {backlog[t][i] : i \in DOMAIN backlog[t]}
  IN  /\ pc' = [pc EXCEPT ![t] = "done"]
      /\ client' = [client EXCEPT ![t] = "none"]
      /\ reply' = [reply EXCEPT ![t] = "none"]
      /\ key' = [key EXCEPT ![t] = FALSE]
      /\ backlog' = [backlog EXCEPT ![t] = <<>>]
      /\ conn' = [d \in Conns |-> IF d \in gone /\ conn[d] = "open"
                                  THEN "closed" ELSE conn[d]]
      /\ ask' = [d \in Conns |-> IF d \in gone THEN "none" ELSE ask[d]]
      /\ UNCHANGED <<mainVars, unlocked, ans, late, ran>>

\* bind_abstract_socket fails when the name is taken, and run() returns Err.
Bind(t) ==
  /\ pc[t] = "bind"
  /\ pc' = [pc EXCEPT ![t] = "accept"]
  /\ UNCHANGED <<mainVars, storeVars, client, reply, key, connVars>>

BindFails(t) ==
  /\ pc[t] = "bind" /\ "bind" \in Faults
  /\ ThreadEnds(t, "none")
  /\ UNCHANGED <<mutex, poisoned>>

Accept(t) ==
  /\ pc[t] = "accept" /\ backlog[t] # <<>>
  /\ client' = [client EXCEPT ![t] = Head(backlog[t])]
  /\ backlog' = [backlog EXCEPT ![t] = Tail(@)]
  /\ pc' = [pc EXCEPT ![t] = IF t = "ipc" THEN "verify" ELSE "read"]
  /\ UNCHANGED <<mainVars, storeVars, reply, key, conn, ask, ans, late, ran>>

\* store.lock().unwrap(): waits for the guard, and panics if it is poisoned.
TakeStore(t) ==
  /\ pc[t] = "want" /\ mutex = "free" /\ ~poisoned
  /\ mutex' = t
  /\ pc' = [pc EXCEPT ![t] = "held"]
  /\ UNCHANGED <<mainVars, unlocked, poisoned, client, reply, key, connVars>>

TakePoisonedStore(t) ==
  /\ pc[t] = "want" /\ mutex = "free" /\ poisoned
  /\ ThreadEnds(t, client[t])
  /\ UNCHANGED <<mutex, poisoned>>

Answer(t, r) ==
  /\ reply' = [reply EXCEPT ![t] = r]
  /\ pc' = [pc EXCEPT ![t] = "release"]
  /\ UNCHANGED client

\* Mutant: the guard lives as long as handle_connection.
ReleaseForgotten(t) ==
  /\ pc[t] = "release"
  /\ pc' = [pc EXCEPT ![t] = "reply"]
  /\ UNCHANGED <<mainVars, storeVars, client, reply, key, connVars>>

\* The handler's last use of the store is behind it: the guard is dropped.
Release(t) ==
  /\ pc[t] = "release"
  /\ mutex' = "free"
  /\ pc' = [pc EXCEPT ![t] = "reply"]
  /\ UNCHANGED <<mainVars, unlocked, poisoned, client, reply, key, connVars>>

\* Mutant: a handler that kept the connection and passphrase it had before a Lock.
LoadKeyFromCopy(t) ==
  /\ key' = [key EXCEPT ![t] = TRUE]
  /\ pc' = [pc EXCEPT ![t] = "signing"]
  /\ UNCHANGED <<mainVars, storeVars, client, reply, connVars>>

\* The key is decrypted into the thread's memory; IpcSign and SshSign drop it.
LoadKey(t) ==
  /\ unlocked
  /\ key' = [key EXCEPT ![t] = TRUE]
  /\ pc' = [pc EXCEPT ![t] = "signing"]
  /\ UNCHANGED <<mainVars, storeVars, client, reply, connVars>>

-----------------------------------------------------------------------------
(* The IPC server: ipc.rs *)

\* getsockopt(SO_PEERCRED) failing leaves run() by its `?`.
PeerCredFails ==
  /\ pc["ipc"] = "verify" /\ "peercred" \in Faults
  /\ ThreadEnds("ipc", client["ipc"])
  /\ UNCHANGED <<mutex, poisoned>>

\* Mutant: the store is locked before the request is read.
VerifiedTakesStore ==
  /\ pc["ipc"] = "verify" /\ "registered" \in ran[client["ipc"]] /\ mutex = "free"
  /\ mutex' = "ipc"
  /\ pc' = [pc EXCEPT !["ipc"] = "read"]
  /\ UNCHANGED <<mainVars, unlocked, poisoned, client, reply, key, connVars>>

\* verify_peer finds the program that the peer runs, or that it ran when its PID was
\* cached.
Verified ==
  /\ pc["ipc"] = "verify" /\ "registered" \in ran[client["ipc"]]
  /\ pc' = [pc EXCEPT !["ipc"] = "read"]
  /\ UNCHANGED <<mainVars, storeVars, client, reply, key, connVars>>

\* Mutant: the rejection is logged and the request read all the same.
RejectedGoesOn ==
  /\ pc["ipc"] = "verify" /\ "other" \in ran[client["ipc"]]
  /\ pc' = [pc EXCEPT !["ipc"] = "read"]
  /\ UNCHANGED <<mainVars, storeVars, client, reply, key, connVars>>

\* No registered binary, or a process that is gone from /proc by now.
Rejected ==
  /\ pc["ipc"] = "verify"
  /\ "other" \in ran[client["ipc"]] \/ conn[client["ipc"]] = "shut"
  /\ reply' = [reply EXCEPT !["ipc"] = "rejected"]
  /\ pc' = [pc EXCEPT !["ipc"] = "reply"]
  /\ UNCHANGED <<mainVars, storeVars, client, key, connVars>>

\* Mutant: Lock does not wait for the guard.
IpcReadLocks ==
  LET c == client["ipc"]
  IN  /\ pc["ipc"] = "read" /\ ask[c] # "none"
      /\ IF ask[c] = "lock"
         THEN /\ unlocked' = FALSE
              /\ reply' = [reply EXCEPT !["ipc"] = "ok"]
              /\ pc' = [pc EXCEPT !["ipc"] = "reply"]
         ELSE /\ pc' = [pc EXCEPT !["ipc"] = "want"]
              /\ UNCHANGED <<unlocked, reply>>
      /\ UNCHANGED <<mainVars, mutex, poisoned, client, key, connVars>>

\* read_request, and the part of handle_connection before the store is locked.
IpcRead ==
  LET c == client["ipc"]
      early == [r \in {"ping", "bad", "none"} |-> IF r = "ping" THEN "pong" ELSE "error"]
  IN  /\ pc["ipc"] = "read"
      /\ ask[c] # "none" \/ conn[c] = "shut"
      /\ IF ask[c] \in DOMAIN early
         THEN /\ reply' = [reply EXCEPT !["ipc"] = early[ask[c]]]
              /\ pc' = [pc EXCEPT !["ipc"] = "reply"]
         ELSE /\ pc' = [pc EXCEPT !["ipc"] = "want"]
              /\ UNCHANGED reply
      /\ UNCHANGED <<mainVars, storeVars, client, key, connVars>>

IpcHolds(r) == pc["ipc"] = "held" /\ ask[client["ipc"]] = r

IpcStatus ==
  /\ IpcHolds("status")
  /\ Answer("ipc", IF unlocked THEN "unlocked" ELSE "locked")
  /\ UNCHANGED <<mainVars, storeVars, key, connVars>>

\* Mutant: Lock is acknowledged and nothing done.
IpcLockIgnored ==
  /\ IpcHolds("lock")
  /\ Answer("ipc", "ok")
  /\ UNCHANGED <<mainVars, storeVars, key, connVars>>

IpcLock ==
  /\ IpcHolds("lock")
  /\ unlocked' = FALSE
  /\ Answer("ipc", "ok")
  /\ UNCHANGED <<mainVars, mutex, poisoned, key, connVars>>

IpcList ==
  /\ IpcHolds("list")
  /\ \E r \in {"certs", "error"} : (r = "certs" => unlocked) /\ Answer("ipc", r)
  /\ UNCHANGED <<mainVars, storeVars, key, connVars>>

\* resolve_for_pid picks the certificate and get_plaintext_key decrypts its key.
IpcLoadKey == IpcHolds("sign") /\ LoadKey("ipc")

\* The store is locked, no route matches, or there is no key to decrypt.
IpcCannotSign ==
  /\ IpcHolds("sign")
  /\ Answer("ipc", "error")
  /\ UNCHANGED <<mainVars, storeVars, key, connVars>>

\* sign_data's key_bytes is dropped when it returns, with a signature or not.
IpcSign ==
  /\ pc["ipc"] = "signing"
  /\ \E r \in {"signature", "error"} : Answer("ipc", r)
  /\ key' = [key EXCEPT !["ipc"] = FALSE]
  /\ UNCHANGED <<mainVars, storeVars, connVars>>

\* Signer::sign panics where try_sign returns an error: an RSA key too short for
\* the digest.  Unwinding drops the key, then the guard, which poisons the mutex.
IpcSignPanics ==
  /\ pc["ipc"] = "signing" /\ "panic" \in Faults
  /\ ThreadEnds("ipc", client["ipc"])
  /\ mutex' = "free" /\ poisoned' = TRUE

\* One request per connection; an answer to a client that hung up is lost.
IpcReply ==
  LET c == client["ipc"]
  IN  /\ pc["ipc"] = "reply"
      /\ ans' = [ans EXCEPT ![c] = IF conn[c] = "open" THEN reply["ipc"] ELSE @]
      /\ DropConn(c)
      /\ NextConn("ipc")
      /\ UNCHANGED <<mainVars, storeVars, key, backlog, late, ran>>

-----------------------------------------------------------------------------
(* The SSH agent: ssh_agent.rs *)

\* "unknown" is any message that is refused unread or whose payload is short.
SshRead ==
  /\ pc["ssh"] = "read"
  /\ ask[client["ssh"]] \in {"identities", "sign", "unknown"}
  /\ IF ask[client["ssh"]] = "unknown"
     THEN /\ reply' = [reply EXCEPT !["ssh"] = "failure"]
          /\ pc' = [pc EXCEPT !["ssh"] = "reply"]
     ELSE /\ pc' = [pc EXCEPT !["ssh"] = "want"]
          /\ UNCHANGED reply
  /\ UNCHANGED <<mainVars, storeVars, client, key, connVars>>

\* End of file, or a length of 0 or above 256K.
SshDrop ==
  LET c == client["ssh"]
  IN  /\ pc["ssh"] = "read"
      /\ ask[c] = "bad" \/ (ask[c] = "none" /\ conn[c] = "shut")
      /\ DropConn(c)
      /\ NextConn("ssh")
      /\ UNCHANGED <<mainVars, storeVars, key, backlog, ans, late, ran>>

SshHolds(r) == pc["ssh"] = "held" /\ ask[client["ssh"]] = r

\* list_ssh_keys().unwrap_or_default(): an error is an empty list.
SshIdentities ==
  /\ SshHolds("identities")
  /\ \E r \in {"identities", "empty"} : (r = "identities" => unlocked) /\ Answer("ssh", r)
  /\ UNCHANGED <<mainVars, storeVars, key, connVars>>

SshLoadKey == SshHolds("sign") /\ LoadKey("ssh")

\* Mutant: a locked store is unlocked on demand.
SshCannotSignUnlocks ==
  /\ SshHolds("sign")
  /\ unlocked' = TRUE
  /\ Answer("ssh", "failure")
  /\ UNCHANGED <<mainVars, mutex, poisoned, key, connVars>>

SshCannotSign ==
  /\ SshHolds("sign")
  /\ Answer("ssh", "failure")
  /\ UNCHANGED <<mainVars, storeVars, key, connVars>>

\* plaintext is declared after the guard, so it is dropped before it.
SshSign ==
  /\ pc["ssh"] = "signing"
  /\ \E r \in {"signature", "failure"} : Answer("ssh", r)
  /\ key' = [key EXCEPT !["ssh"] = FALSE]
  /\ UNCHANGED <<mainVars, storeVars, connVars>>

\* The connection stays open for the next message, unless the write fails.
SshReply ==
  LET c == client["ssh"]
  IN  /\ pc["ssh"] = "reply"
      /\ IF conn[c] = "open"
         THEN /\ ans' = [ans EXCEPT ![c] = reply["ssh"]]
              /\ ask' = [ask EXCEPT ![c] = "none"]
              /\ reply' = [reply EXCEPT !["ssh"] = "none"]
              /\ pc' = [pc EXCEPT !["ssh"] = "read"]
              /\ UNCHANGED <<client, conn>>
         ELSE DropConn(c) /\ NextConn("ssh") /\ UNCHANGED ans
      /\ UNCHANGED <<mainVars, storeVars, key, backlog, late, ran>>

-----------------------------------------------------------------------------
MainNext == StartupStep \/ StartupFails \/ Spawn \/ MainReturns

CommonNext(t) ==
  Bind(t) \/ BindFails(t) \/ Accept(t) \/ TakeStore(t) \/ TakePoisonedStore(t) \/ Release(t)

IpcNext ==
  \/ CommonNext("ipc") \/ PeerCredFails \/ Verified \/ Rejected \/ IpcRead
  \/ IpcStatus \/ IpcLock \/ IpcList \/ IpcLoadKey \/ IpcCannotSign
  \/ IpcSign \/ IpcSignPanics \/ IpcReply

SshNext ==
  \/ CommonNext("ssh") \/ SshRead \/ SshDrop \/ SshIdentities
  \/ SshLoadKey \/ SshCannotSign \/ SshSign \/ SshReply

ClientNext(c) ==
  \/ Connect(c) \/ Receive(c) \/ HangUp(c)
  \/ \E r \in Requests(c) : Send(c, r)
  \/ \E program \in Programs : PeerChanges(c, program)

Next == \/ MainNext \/ IpcNext \/ SshNext \/ Kill \/ SystemdRestarts
        \/ \E c \in Conns : ClientNext(c)

Spec == Init /\ [][Next]_vars

\* The kernel schedules the threads, and a Mutex that is free wakes a thread that waits,
\* whichever it is.  Nothing is assumed of any client, nor of whose turn it is.
FairSpec == Spec /\ WF_vars(MainNext) /\ WF_vars(IpcNext) /\ WF_vars(SshNext)

\* Polite clients do not keep a connection for ever: each hangs up at last, though it
\* sends as many requests as it likes before and waits for an answer as long as it takes.
Polite(C) == \A c \in C : SF_vars(ask[c] = "none" /\ HangUp(c))

\* A thread waits for ever for a guard that is free again and again: the other thread
\* always takes it first.
Starved(t) == <>[](pc[t] = "want") /\ []<>(mutex = "free")

-----------------------------------------------------------------------------
(* Properties *)

\* The passphrase is in memory only after the environment, root and ptrace
\* checks, and a socket is bound only after the integrity check and the load of
\* the known hashes (main.rs steps 1-7), in every start and restart.
SecretsOnlyAfterChecks ==
  /\ unlocked => {"env", "root", "harden"} \subseteq passed
  /\ (\E t \in Threads : pc[t] \notin {"off"}) => passed = Checks

\* A decrypted key is in a thread's memory only while that thread holds the
\* guard of an unlocked store: so a Lock request, which takes the guard, never
\* finds a key in use, and after it none is in memory (ipc.rs:198, 265).
KeyOnlyUnderGuard ==
  \A t \in Threads : key[t] => mutex = t /\ unlocked

\* A thread that waits for a client or for a connection does not hold the store:
\* a client that never sends cannot stop the other server (ipc.rs:182-252).
BlockedThreadHoldsNothing ==
  \A t \in Threads : mutex = t => pc[t] \in InStore

WaitsForClient(t) ==
  \/ pc[t] = "accept" /\ backlog[t] = <<>>
  \/ pc[t] = "read" /\ ask[client[t]] = "none" /\ conn[client[t]] = "open"

Handled(t) ==
  IF t = "ipc" THEN {"status", "lock", "list", "sign"} ELSE {"identities", "sign"}

\* The next statement of the thread does not block.
CanGoOn(t) ==
  /\ pc[t] \notin {"off", "done"}
  /\ pc[t] = "accept" => backlog[t] # <<>>
  /\ pc[t] = "read" => ask[client[t]] # "none" \/ conn[client[t]] = "shut"
  /\ pc[t] = "want" => mutex = "free"
  /\ pc[t] = "held" => ask[client[t]] \in Handled(t)

\* The servers never wait for each other in vain: one that cannot go on is waiting
\* for a client that has nothing to be served, or for the guard of the other, which
\* is not waiting for anything (ipc.rs:186-222, ssh_agent.rs:140, 174).
OnlyClientsKeepServersWaiting ==
  main = "join" =>
    \A t \in Threads :
      \/ pc[t] = "done" \/ WaitsForClient(t) \/ CanGoOn(t)
      \/ pc[t] = "want" /\ \E u \in Threads \ {t} : mutex = u /\ CanGoOn(u)

\* A request sent after the store was locked is never answered with a signature,
\* by either server, whatever was under way when it was locked (ipc.rs:198,
\* ssh_agent.rs:174).
NoSignatureAfterLock ==
  \A c \in Conns : ans[c] = "signature" => ~late[c]

\* "Send error and close - don't process any request data" (ipc.rs:155): of a peer that
\* has run no registered binary, whenever it changed its program before or after it was
\* looked at, nothing is read, and it is told only that.
StrangersAreNotHeard ==
  \A c \in IpcConns : "registered" \notin ran[c] =>
    /\ ans[c] \in {"none", "rejected"}
    /\ client["ipc"] = c => \/ pc["ipc"] = "verify"
                            \/ pc["ipc"] = "reply" /\ reply["ipc"] = "rejected"

\* Lock is one way: only the unlock of a start-up opens the store (no IPC request
\* unlocks it, store.rs:61), so a lock lasts until the process is started again.
OnlyStartupUnlocks == [][~unlocked /\ unlocked' => main = "unlock"]_vars

\* The answer a server has built for a connection and not sent.
Due == [c \in Conns |-> IF client[Server(c)] = c THEN reply[Server(c)] ELSE "none"]

Service == INSTANCE SigningService WITH
             open <- unlocked, due <- Due, serving <- main = "join"

\* The two servers together answer as one that handles a request at a time: what a
\* client is told was so at an instant between its request and its answer, however
\* the threads take turns at the store (ipc.rs:186-222, ssh_agent.rs:140, 174).
ImplementsService == Service!Spec

Settled(c) == ask[c] = "none" \/ conn[c] # "open"

\* If the SSH clients are polite, every request on the SSH socket is answered or its
\* connection closed, even if an IPC client connects and never sends, unless the IPC
\* thread takes the store before the SSH thread again and again (ssh_agent.rs:50, 174).
SshRequestsSettle ==
  Polite(SshConns) => Starved("ssh") \/ \A c \in SshConns : (ask[c] # "none" ~> Settled(c))

\* If the IPC clients are polite, every request on the IPC socket is answered or its
\* connection closed, whatever SSH clients do with theirs, unless the SSH thread takes
\* the store before the IPC thread again and again (ipc.rs:117, 186).
IpcRequestsSettle ==
  Polite(IpcConns) => Starved("ipc") \/ \A c \in IpcConns : (ask[c] # "none" ~> Settled(c))

\* A Lock request of a registered client locks the store unless the client gives up
\* first, is no longer what is registered, or the IPC thread dies.  Only one thing can
\* put it off: an SSH stream without end that takes the store before it every time
\* (ipc.rs:198, ssh_agent.rs:140, 174).
LockTakesEffect ==
  Polite(IpcConns) =>
    \/ Starved("ipc")
    \/ \A c \in Registered :
         (ask[c] = "lock" /\ conn[c] = "open"
            ~> ~unlocked \/ conn[c] = "shut" \/ "other" \in ran[c] \/ pc["ipc"] \in Down)

(* What the documents say and the code does not do *)

\* "Traffic Cone responds exactly as ssh-agent would" (ssh_agent.rs:5), which serves
\* its clients side by side: a request of a client that is polite is settled,
\* whatever other clients do.
EachSshClientIsServed ==
  \A c \in SshConns : Polite({c}) => (ask[c] # "none" ~> Settled(c))
=============================================================================
