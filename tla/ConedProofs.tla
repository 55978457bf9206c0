---------------------------- MODULE ConedProofs ----------------------------
(***************************************************************************)
(* Proofs about Coned, for any connections, faults and bounds.             *)
(*                                                                         *)
(* The safety properties follow from IndInv.  Its parts say how the two    *)
(* threads share the store (GuardInv, KeyInv), that each serves only       *)
(* connections of its own socket (OwnInv), what holds before the servers   *)
(* run (QuietInv), and what a signature under way owes to the moment its   *)
(* request was sent (LateInv).                                             *)
(***************************************************************************)
EXTENDS Coned, TLAPS

OwnConns(t) == IF t = "ipc" THEN IpcConns ELSE SshConns

OwnInv == \A t \in Threads : /\ client[t] \in OwnConns(t) \cup {"none"}
                             /\ backlog[t] \in Seq(OwnConns(t))

ServesInv == \A t \in Threads : client[t] = "none" <=> pc[t] \in Down \cup {"accept"}

GuardInv == \A t \in Threads : mutex = t <=> pc[t] \in InStore

KeyInv == \A t \in Threads : /\ key[t] <=> pc[t] = "signing"
                             /\ pc[t] = "signing" => unlocked

QuietInv == main # "join" => /\ \A t \in Threads : pc[t] = "off"
                             /\ \A c \in Conns : conn[c] # "open" /\ ~late[c]

LateInv ==
  /\ \A c \in Conns : late[c] => ~unlocked
  /\ \A c \in Conns : ans[c] = "signature" => ~late[c]
  /\ \A t \in Threads : pc[t] = "signing" => ask[client[t]] = "sign"
  /\ \A t \in Threads :
       reply[t] = "signature" => /\ client[t] # "none"
                                 /\ ask[client[t]] = "sign" /\ ~late[client[t]]

SafeInv == OwnInv /\ ServesInv /\ GuardInv /\ KeyInv /\ QuietInv /\ LateInv

IndInv == TypeOK /\ SafeInv

-----------------------------------------------------------------------------
(* Type correctness *)

\* What ProcessEnds and ThreadEnds leave behind is of the right type, whichever
\* action calls them.
LEMMA ProcessEndsTypeOK ==
  ASSUME TypeOK, NEW how \in {"clean", "failure", "signal"}, ProcessEnds(how)
  PROVE  TypeOK'
<1>1. backlog' \in [Threads -> Seq(Conns)]
  <2>1. <<>> \in Seq(Conns)
    OBVIOUS
  <2> QED
    BY <2>1 DEF ProcessEnds
<1> QED
  BY <1>1 DEF TypeOK, ProcessEnds, Threads, Down, Busy, InStore

LEMMA ThreadEndsTypeOK ==
  ASSUME TypeOK, NEW t \in Threads, NEW c, ThreadEnds(t, c),
         mutex' \in Threads \cup {"free"}, poisoned' \in BOOLEAN
  PROVE  TypeOK'
BY DEF TypeOK, ThreadEnds, mainVars, Threads, Down, Busy, InStore

LEMMA MainTypeOK ==
  ASSUME TypeOK, MainNext \/ Kill \/ SystemdRestarts
  PROVE  TypeOK'
<1>1. CASE StartupStep
  BY <1>1 DEF TypeOK, StartupStep, After, Checks, threadVars, connVars
<1>2. CASE StartupFails
  BY <1>2, ProcessEndsTypeOK DEF StartupFails
<1>3. CASE Spawn
  BY <1>3 DEF TypeOK, Spawn, storeVars, connVars, Threads, Down
<1>4. CASE MainReturns
  BY <1>4, ProcessEndsTypeOK DEF MainReturns
<1>5. CASE Kill
  BY <1>5, ProcessEndsTypeOK DEF Kill
<1>6. CASE SystemdRestarts
  BY <1>6, BoundsAssumption
  DEF TypeOK, SystemdRestarts, storeVars, threadVars, connVars, Checks
<1> QED
  BY <1>1, <1>2, <1>3, <1>4, <1>5, <1>6 DEF MainNext

LEMMA ClientTypeOK ==
  ASSUME TypeOK, NEW c \in Conns, ClientNext(c)
  PROVE  TypeOK'
<1> USE DEF TypeOK, mainVars, storeVars, threadVars
<1>1. CASE Connect(c)
  BY <1>1 DEF Connect, Server, Threads
<1>2. CASE Receive(c)
  BY <1>2 DEF Receive
<1>3. CASE HangUp(c)
  BY <1>3 DEF HangUp
<1>4. CASE \E r \in Requests(c) : Send(c, r)
  BY <1>4 DEF Send, Requests
<1>5. CASE \E program \in Programs : PeerChanges(c, program)
  BY <1>5 DEF PeerChanges
<1> QED
  BY <1>1, <1>2, <1>3, <1>4, <1>5 DEF ClientNext

LEMMA CommonTypeOK ==
  ASSUME TypeOK, NEW t \in Threads, CommonNext(t)
  PROVE  TypeOK'
<1> USE DEF Threads, Down, Busy, InStore
<1>1. CASE Bind(t)
  BY <1>1 DEF TypeOK, Bind, mainVars, storeVars, connVars
<1>2. CASE BindFails(t)
  BY <1>2, ThreadEndsTypeOK DEF BindFails, TypeOK
<1>3. CASE Accept(t)
  BY <1>3 DEF TypeOK, Accept, mainVars, storeVars
<1>4. CASE TakeStore(t)
  BY <1>4 DEF TypeOK, TakeStore, mainVars, connVars
<1>5. CASE TakePoisonedStore(t)
  BY <1>5, ThreadEndsTypeOK DEF TakePoisonedStore, TypeOK
<1>6. CASE Release(t)
  BY <1>6 DEF TypeOK, Release, mainVars, connVars
<1> QED
  BY <1>1, <1>2, <1>3, <1>4, <1>5, <1>6 DEF CommonNext

LEMMA IpcTypeOK ==
  ASSUME TypeOK, IpcNext
  PROVE  TypeOK'
<1> USE DEF Threads, Down, Busy, InStore, Answers, mainVars, storeVars, connVars
<1>1. CASE CommonNext("ipc")
  BY <1>1, CommonTypeOK
<1>2. CASE PeerCredFails
  BY <1>2, ThreadEndsTypeOK DEF PeerCredFails, TypeOK
<1>3. CASE Verified \/ Rejected
  BY <1>3 DEF TypeOK, Verified, Rejected
<1>4. CASE IpcRead
  BY <1>4 DEF TypeOK, IpcRead
<1>5. CASE IpcStatus \/ IpcLock \/ IpcList \/ IpcCannotSign
  <2>1. CASE IpcStatus
    <3>1. PICK r \in {"unlocked", "locked"} : Answer("ipc", r)
      BY <2>1 DEF IpcStatus
    <3> QED
      BY <2>1, <3>1 DEF TypeOK, IpcStatus, Answer
  <2>2. CASE IpcLock
    BY <2>2 DEF TypeOK, IpcLock, Answer
  <2>3. CASE IpcList
    <3>1. PICK r \in {"certs", "error"} : Answer("ipc", r)
      BY <2>3 DEF IpcList
    <3> QED
      BY <2>3, <3>1 DEF TypeOK, IpcList, Answer
  <2>4. CASE IpcCannotSign
    BY <2>4 DEF TypeOK, IpcCannotSign, Answer
  <2> QED
    BY <1>5, <2>1, <2>2, <2>3, <2>4
<1>6. CASE IpcLoadKey
  BY <1>6 DEF TypeOK, IpcLoadKey, LoadKey
<1>7. CASE IpcSign
  BY <1>7 DEF TypeOK, IpcSign, Answer
<1>8. CASE IpcSignPanics
  BY <1>8, ThreadEndsTypeOK DEF IpcSignPanics
<1>9. CASE IpcReply
  BY <1>9 DEF TypeOK, IpcReply, DropConn, NextConn
<1> QED
  BY <1>1, <1>2, <1>3, <1>4, <1>5, <1>6, <1>7, <1>8, <1>9 DEF IpcNext

LEMMA SshTypeOK ==
  ASSUME TypeOK, SshNext
  PROVE  TypeOK'
<1> USE DEF Threads, Down, Busy, InStore, Answers, mainVars, storeVars, connVars
<1>1. CASE CommonNext("ssh")
  BY <1>1, CommonTypeOK
<1>2. CASE SshRead
  BY <1>2 DEF TypeOK, SshRead
<1>3. CASE SshDrop
  BY <1>3 DEF TypeOK, SshDrop, DropConn, NextConn
<1>4. CASE SshIdentities \/ SshCannotSign
  BY <1>4 DEF TypeOK, SshIdentities, SshCannotSign, Answer
<1>5. CASE SshLoadKey
  BY <1>5 DEF TypeOK, SshLoadKey, LoadKey
<1>6. CASE SshSign
  BY <1>6 DEF TypeOK, SshSign, Answer
<1>7. CASE SshReply
  <2>1. CASE conn[client["ssh"]] = "open"
    <3>1. /\ ans' = [ans EXCEPT ![client["ssh"]] = reply["ssh"]]
          /\ ask' = [ask EXCEPT ![client["ssh"]] = "none"]
          /\ reply' = [reply EXCEPT !["ssh"] = "none"]
          /\ pc' = [pc EXCEPT !["ssh"] = "read"]
          /\ UNCHANGED <<client, conn>>
      BY <1>7, <2>1 DEF SshReply
    <3> QED
      BY <1>7, <3>1 DEF TypeOK, SshReply
  <2>2. CASE conn[client["ssh"]] # "open"
    <3>1. DropConn(client["ssh"]) /\ NextConn("ssh") /\ UNCHANGED ans
      BY <1>7, <2>2 DEF SshReply
    <3> QED
      BY <1>7, <3>1 DEF TypeOK, SshReply, DropConn, NextConn
  <2> QED
    BY <2>1, <2>2
<1> QED
  BY <1>1, <1>2, <1>3, <1>4, <1>5, <1>6, <1>7 DEF SshNext

\* Every variable of the daemon keeps its type in every behaviour.
THEOREM TypeCorrect == Spec => []TypeOK
<1>1. Init => TypeOK
  <2>1. <<>> \in Seq(Conns)
    OBVIOUS
  <2>2. ASSUME Init PROVE backlog \in [Threads -> Seq(Conns)]
    BY <2>1, <2>2 DEF Init
  <2>3. ASSUME Init PROVE restarts \in 0..MaxRestarts /\ ran \in [IpcConns -> SUBSET Programs]
    BY <2>3, BoundsAssumption DEF Init, Programs
  <2>4. ASSUME Init PROVE main \in Checks /\ passed \in SUBSET Checks
    BY <2>4 DEF Init, Checks
  <2>5. ASSUME Init
        PROVE  pc \in [Threads -> Down \cup Busy \cup {"accept", "verify", "read"}]
    BY <2>5 DEF Init, Down
  <2>6. ASSUME Init
        PROVE  /\ client \in [Threads -> Conns \cup {"none"}]
               /\ reply \in [Threads -> Answers \cup {"none"}]
               /\ key \in [Threads -> BOOLEAN]
               /\ conn \in [Conns -> {"new", "open", "shut", "closed"}]
    BY <2>6 DEF Init
  <2>7. ASSUME Init
        PROVE  /\ ask \in [Conns -> IpcRequests \cup SshRequests \cup {"none"}]
               /\ ans \in [Conns -> Answers \cup {"none"}]
               /\ late \in [Conns -> BOOLEAN]
    BY <2>7 DEF Init
  <2>8. ASSUME Init
        PROVE  /\ exit \in {"none", "clean", "failure", "signal"}
               /\ unlocked \in BOOLEAN /\ poisoned \in BOOLEAN
               /\ mutex \in Threads \cup {"free"}
    BY <2>8 DEF Init
  <2> QED
    BY <2>2, <2>3, <2>4, <2>5, <2>6, <2>7, <2>8 DEF TypeOK
<1>2. TypeOK /\ [Next]_vars => TypeOK'
  <2> SUFFICES ASSUME TypeOK, [Next]_vars PROVE TypeOK'
    OBVIOUS
  <2>1. CASE UNCHANGED vars
    BY <2>1 DEF TypeOK, vars, mainVars, storeVars, threadVars, connVars
  <2> QED
    BY <2>1, MainTypeOK, ClientTypeOK, IpcTypeOK, SshTypeOK DEF Next
<1> QED
  BY <1>1, <1>2, PTL DEF Spec

-----------------------------------------------------------------------------
(* The inductive invariant *)

\* The two servers never touch each other's connections.
LEMMA OwnConnsApart ==
  /\ OwnConns("ipc") = IpcConns /\ OwnConns("ssh") = SshConns
  /\ \A t \in Threads : OwnConns(t) \subseteq Conns /\ "none" \notin OwnConns(t)
  /\ \A t, u \in Threads : t # u => OwnConns(t) \cap OwnConns(u) = {}
BY ConnsAssumption DEF OwnConns, Threads, Conns

LEMMA ProcessEndsInv ==
  ASSUME IndInv, NEW how, ProcessEnds(how)
  PROVE  SafeInv'
<1>1. OwnInv'
  <2>1. \A t \in Threads : <<>> \in Seq(OwnConns(t))
    OBVIOUS
  <2> QED
    BY <2>1 DEF ProcessEnds, OwnInv
<1>2. ServesInv' /\ GuardInv' /\ KeyInv' /\ QuietInv'
  BY DEF ProcessEnds, IndInv, TypeOK, ServesInv, GuardInv, KeyInv, QuietInv, Threads,
         Busy, Down, InStore
<1>3. LateInv'
  BY DEF ProcessEnds, LateInv
<1> QED
  BY <1>1, <1>2, <1>3 DEF SafeInv

LEMMA ThreadEndsInv ==
  ASSUME IndInv, NEW t \in Threads, NEW c \in OwnConns(t) \cup {"none"},
         pc[t] # "off", ThreadEnds(t, c),
         mutex' = IF mutex = t THEN "free" ELSE mutex
  PROVE  SafeInv'
<1>1. OwnInv'
  <2>1. <<>> \in Seq(OwnConns(t))
    OBVIOUS
  <2> QED
    BY <2>1 DEF ThreadEnds, OwnInv, IndInv, SafeInv, TypeOK
<1>2. ServesInv' /\ GuardInv' /\ KeyInv'
  BY DEF ThreadEnds, IndInv, SafeInv, TypeOK, ServesInv, GuardInv, KeyInv, Threads, Busy,
         Down, InStore
<1>3. QuietInv'
  BY DEF ThreadEnds, mainVars, IndInv, SafeInv, TypeOK, QuietInv, Threads
<1>4. LateInv'
  <2>1. \A u \in Threads \ {t} : client[u] # "none" => ask'[client[u]] = ask[client[u]]
    <3> SUFFICES ASSUME NEW u \in Threads \ {t}, client[u] # "none"
                 PROVE  ask'[client[u]] = ask[client[u]]
      OBVIOUS
    <3>1. client[u] \in OwnConns(u) /\ backlog[t] \in Seq(OwnConns(t))
      BY DEF IndInv, SafeInv, OwnInv
    <3>2. client[u] \in Conns /\ client[u] # c
          /\ \A i \in DOMAIN backlog[t] : client[u] # backlog[t][i]
      BY <3>1, OwnConnsApart
    <3> QED
      BY <3>2 DEF ThreadEnds
  <2>2. /\ reply' = [reply EXCEPT ![t] = "none"] /\ client' = [client EXCEPT ![t] = "none"]
        /\ pc' = [pc EXCEPT ![t] = "done"]
        /\ UNCHANGED <<unlocked, ans, late>>
    BY DEF ThreadEnds
  <2>3. ServesInv
    BY DEF IndInv, SafeInv
  <2> QED
    BY <2>1, <2>2, <2>3 DEF IndInv, SafeInv, TypeOK, LateInv, ServesInv, Busy, Down, InStore
<1> QED
  BY <1>1, <1>2, <1>3, <1>4 DEF SafeInv

LEMMA MainInv ==
  ASSUME IndInv, MainNext \/ Kill \/ SystemdRestarts
  PROVE  SafeInv'
<1>1. CASE StartupStep
  BY <1>1 DEF StartupStep, threadVars, connVars, IndInv, SafeInv, TypeOK, OwnInv, ServesInv,
              GuardInv, KeyInv, QuietInv, LateInv, After, Checks
<1>2. CASE StartupFails \/ MainReturns \/ Kill
  BY <1>2, ProcessEndsInv DEF StartupFails, MainReturns, Kill
<1>3. CASE Spawn
  <2>1. \A t \in Threads : pc[t] = "off" /\ pc'[t] = "bind"
    BY <1>3 DEF Spawn, IndInv, SafeInv, QuietInv, TypeOK
  <2> QED
    BY <1>3, <2>1 DEF Spawn, storeVars, connVars, IndInv, SafeInv, TypeOK, OwnInv, ServesInv,
                      GuardInv, KeyInv, QuietInv, LateInv, Busy, Down, InStore
<1>4. CASE SystemdRestarts
  BY <1>4 DEF SystemdRestarts, storeVars, threadVars, connVars, IndInv, SafeInv, OwnInv,
              ServesInv, GuardInv, KeyInv, QuietInv, LateInv
<1> QED
  BY <1>1, <1>2, <1>3, <1>4 DEF MainNext

LEMMA ClientInv ==
  ASSUME IndInv, NEW c \in Conns, ClientNext(c)
  PROVE  SafeInv'
<1> USE DEF IndInv, SafeInv, mainVars, storeVars, threadVars
<1>1. CASE Connect(c)
  <2>1. /\ Server(c) \in Threads /\ c \in OwnConns(Server(c))
    BY DEF Server, Threads, OwnConns, Conns
  <2>2. OwnInv'
    BY <1>1, <2>1 DEF Connect, OwnInv, TypeOK
  <2>3. main = "join"
    BY <1>1, <2>1 DEF Connect, QuietInv, Down
  <2> QED
    BY <1>1, <2>2, <2>3 DEF Connect, ServesInv, GuardInv, KeyInv, QuietInv, LateInv
<1>2. CASE Receive(c)
  BY <1>2 DEF Receive, TypeOK, OwnInv, ServesInv, GuardInv, KeyInv, QuietInv, LateInv
<1>3. CASE HangUp(c)
  BY <1>3 DEF HangUp, TypeOK, OwnInv, ServesInv, GuardInv, KeyInv, QuietInv, LateInv
<1>4. ASSUME NEW r \in Requests(c), Send(c, r) PROVE SafeInv'
  <2>1. OwnInv' /\ ServesInv' /\ GuardInv' /\ KeyInv'
    BY <1>4 DEF Send, OwnInv, ServesInv, GuardInv, KeyInv
  <2>2. QuietInv'
    BY <1>4 DEF Send, QuietInv, TypeOK
  <2>3. LateInv'
    <3>1. /\ ask' = [ask EXCEPT ![c] = r] /\ late' = [late EXCEPT ![c] = ~unlocked]
          /\ ask[c] = "none" /\ ans[c] = "none"
          /\ UNCHANGED <<unlocked, ans, pc, client, reply>>
      BY <1>4 DEF Send
    <3>2. \A t \in Threads : pc[t] = "signing" \/ reply[t] = "signature" => client[t] # c
      BY <3>1 DEF LateInv
    <3> QED
      BY <3>1, <3>2 DEF LateInv, TypeOK
  <2> QED
    BY <2>1, <2>2, <2>3
<1>5. CASE \E program \in Programs : PeerChanges(c, program)
  BY <1>5 DEF PeerChanges, OwnInv, ServesInv, GuardInv, KeyInv, QuietInv, LateInv
<1> QED
  BY <1>1, <1>2, <1>3, <1>4, <1>5 DEF ClientNext

LEMMA CommonInv ==
  ASSUME IndInv, NEW t \in Threads, CommonNext(t)
  PROVE  SafeInv'
<1> USE DEF IndInv, SafeInv, mainVars, storeVars, connVars
<1>1. CASE Bind(t)
  BY <1>1 DEF Bind, TypeOK, OwnInv, ServesInv, GuardInv, KeyInv, QuietInv, LateInv, Busy, Down, InStore
<1>2. CASE BindFails(t)
  BY <1>2, ThreadEndsInv DEF BindFails, GuardInv, InStore
<1>3. CASE Accept(t)
  <2>1. Head(backlog[t]) \in OwnConns(t) /\ Tail(backlog[t]) \in Seq(OwnConns(t))
    BY <1>3 DEF Accept, OwnInv
  <2>2. OwnInv'
    BY <1>3, <2>1 DEF Accept, OwnInv, TypeOK
  <2>3. Head(backlog[t]) # "none"
    BY <2>1, OwnConnsApart
  <2>4. ServesInv' /\ GuardInv' /\ KeyInv' /\ QuietInv'
    BY <1>3, <2>3 DEF Accept, TypeOK, ServesInv, GuardInv, KeyInv, QuietInv, Busy, Down, InStore
  <2>5. reply[t] # "signature"
    BY <1>3 DEF Accept, ServesInv, LateInv
  <2> QED
    BY <1>3, <2>2, <2>4, <2>5 DEF Accept, TypeOK, LateInv
<1>4. CASE TakeStore(t)
  BY <1>4 DEF TakeStore, TypeOK, OwnInv, ServesInv, GuardInv, KeyInv, QuietInv, LateInv, Busy,
              Down, InStore, Threads
<1>5. CASE TakePoisonedStore(t)
  BY <1>5, ThreadEndsInv DEF TakePoisonedStore, OwnInv, GuardInv
<1>6. CASE Release(t)
  BY <1>6 DEF Release, TypeOK, OwnInv, ServesInv, GuardInv, KeyInv, QuietInv, LateInv, Busy,
              Down, InStore, Threads
<1> QED
  BY <1>1, <1>2, <1>3, <1>4, <1>5, <1>6 DEF CommonNext

LEMMA LoadKeyInv ==
  ASSUME IndInv, NEW t \in Threads, pc[t] = "held", ask[client[t]] = "sign", LoadKey(t)
  PROVE  SafeInv'
BY DEF LoadKey, mainVars, storeVars, connVars, IndInv, SafeInv, TypeOK, OwnInv, ServesInv,
       GuardInv, KeyInv, QuietInv, LateInv, Down, InStore, Threads

\* Giving up the key with an answer: a signature is owed to a request sent before
\* the store was locked, for the store is still unlocked here.
LEMMA SignInv ==
  ASSUME IndInv, NEW t \in Threads, NEW r, pc[t] = "signing", Answer(t, r),
         key' = [key EXCEPT ![t] = FALSE],
         UNCHANGED <<mainVars, storeVars, connVars>>
  PROVE  SafeInv'
<1>1. client[t] \in Conns /\ client[t] # "none"
  BY OwnConnsApart DEF IndInv, SafeInv, OwnInv, ServesInv, Down
<1>2. ask[client[t]] = "sign" /\ ~late[client[t]]
  BY <1>1 DEF IndInv, SafeInv, KeyInv, LateInv
<1>3. OwnInv' /\ ServesInv' /\ GuardInv' /\ KeyInv' /\ QuietInv'
  BY DEF Answer, mainVars, storeVars, connVars, IndInv, SafeInv, TypeOK, OwnInv, ServesInv,
         GuardInv, KeyInv, QuietInv, Down, InStore, Threads
<1>4. LateInv'
  BY <1>1, <1>2 DEF Answer, storeVars, connVars, IndInv, SafeInv, TypeOK, LateInv
<1> QED
  BY <1>3, <1>4 DEF SafeInv

\* An answer that is no signature, from under the guard.
LEMMA AnswerInv ==
  ASSUME IndInv, NEW t \in Threads, NEW r, r # "signature", pc[t] = "held", Answer(t, r),
         unlocked' = unlocked \/ unlocked' = FALSE,
         UNCHANGED <<mainVars, mutex, poisoned, key, connVars>>
  PROVE  SafeInv'
<1>1. \A u \in Threads : pc[u] # "signing"
  BY DEF IndInv, SafeInv, TypeOK, GuardInv, InStore, Threads
<1> QED
  BY <1>1 DEF Answer, mainVars, connVars, IndInv, SafeInv, TypeOK, OwnInv, ServesInv, GuardInv,
              KeyInv, QuietInv, LateInv, Down, InStore, Threads

\* Dropping the connection and going on to the next one.
LEMMA DropInv ==
  ASSUME IndInv, NEW t \in Threads, pc[t] \in {"read", "reply"},
         DropConn(client[t]), NextConn(t),
         ans' = ans \/ ans' = [ans EXCEPT ![client[t]] = reply[t]],
         UNCHANGED <<mainVars, storeVars, key, backlog, late, ran>>
  PROVE  SafeInv'
<1>1. client[t] \in OwnConns(t) /\ client[t] \in Conns
  BY OwnConnsApart DEF IndInv, SafeInv, OwnInv, ServesInv, Down
<1>2. OwnInv' /\ ServesInv' /\ GuardInv' /\ KeyInv' /\ QuietInv'
  BY <1>1 DEF DropConn, NextConn, mainVars, storeVars, IndInv, SafeInv, TypeOK, OwnInv, ServesInv,
              GuardInv, KeyInv, QuietInv, Down, InStore, Threads
<1>3. LateInv'
  <2>1. \A u \in Threads \ {t} : client[u] # client[t] \/ client[u] = "none"
    BY <1>1, OwnConnsApart DEF IndInv, SafeInv, OwnInv
  <2>2. \A u \in Threads \ {t} : client[u] # "none" => ask'[client[u]] = ask[client[u]]
    BY <2>1, <1>1, OwnConnsApart DEF DropConn, IndInv, SafeInv, TypeOK, OwnInv
  <2>3. \A u \in Threads : pc[u] = "signing" => client[u] # "none"
    BY DEF IndInv, SafeInv, ServesInv, Down
  <2>4. \A d \in Conns : ans'[d] = "signature" => ~late[d]
    BY <1>1 DEF IndInv, SafeInv, TypeOK, LateInv
  <2> QED
    BY <2>2, <2>3, <2>4 DEF NextConn, storeVars, IndInv, SafeInv, TypeOK, LateInv
<1> QED
  BY <1>2, <1>3 DEF SafeInv

LEMMA IpcInv ==
  ASSUME IndInv, IpcNext
  PROVE  SafeInv'
<1>0. "ipc" \in Threads
  BY DEF Threads
<1>1. CASE CommonNext("ipc")
  BY <1>0, <1>1, CommonInv
<1>2. CASE PeerCredFails
  BY <1>0, <1>2, ThreadEndsInv DEF PeerCredFails, IndInv, SafeInv, OwnInv, GuardInv, InStore
<1>3. CASE Verified \/ Rejected
  <2>1. /\ pc["ipc"] = "verify"
        /\ \E p \in {"reply", "read"} : pc' = [pc EXCEPT !["ipc"] = p]
        /\ reply' = reply \/ reply' = [reply EXCEPT !["ipc"] = "rejected"]
        /\ UNCHANGED <<mainVars, storeVars, client, key, connVars>>
    BY <1>3 DEF Verified, Rejected
  <2> QED
    BY <1>0, <2>1 DEF mainVars, storeVars, connVars, IndInv, SafeInv, TypeOK, OwnInv, ServesInv,
         GuardInv, KeyInv, QuietInv, LateInv, Down, InStore
<1>4. CASE IpcRead
  <2>1. /\ pc["ipc"] = "read"
        /\ \E p \in {"reply", "want"} : pc' = [pc EXCEPT !["ipc"] = p]
        /\ \/ reply' = reply
           \/ \E r \in {"pong", "error"} : reply' = [reply EXCEPT !["ipc"] = r]
        /\ UNCHANGED <<mainVars, storeVars, client, key, connVars>>
    BY <1>4 DEF IpcRead
  <2> QED
    BY <1>0, <2>1 DEF mainVars, storeVars, connVars, IndInv, SafeInv, TypeOK, OwnInv, ServesInv,
         GuardInv, KeyInv, QuietInv, LateInv, Down, InStore
<1>5. CASE IpcStatus \/ IpcLock \/ IpcList \/ IpcCannotSign
  <2>1. /\ pc["ipc"] = "held"
        /\ \E r \in Answers \ {"signature"} : Answer("ipc", r)
        /\ unlocked' = unlocked \/ unlocked' = FALSE
        /\ UNCHANGED <<mainVars, mutex, poisoned, key, connVars>>
    BY <1>5 DEF IpcStatus, IpcLock, IpcList, IpcCannotSign, IpcHolds, Answers, storeVars
  <2> QED
    BY <1>0, <2>1, AnswerInv
<1>6. CASE IpcLoadKey
  BY <1>0, <1>6, LoadKeyInv DEF IpcLoadKey, IpcHolds
<1>7. CASE IpcSign
  BY <1>0, <1>7, SignInv DEF IpcSign
<1>8. CASE IpcSignPanics
  BY <1>0, <1>8, ThreadEndsInv DEF IpcSignPanics, IndInv, SafeInv, OwnInv, GuardInv, InStore
<1>9. CASE IpcReply
  BY <1>0, <1>9, DropInv DEF IpcReply, IndInv, TypeOK
<1> QED
  BY <1>1, <1>2, <1>3, <1>4, <1>5, <1>6, <1>7, <1>8, <1>9 DEF IpcNext

LEMMA SshInv ==
  ASSUME IndInv, SshNext
  PROVE  SafeInv'
<1>0. "ssh" \in Threads
  BY DEF Threads
<1>1. CASE CommonNext("ssh")
  BY <1>0, <1>1, CommonInv
<1>2. CASE SshRead
  <2>1. /\ pc["ssh"] = "read"
        /\ \E p \in {"reply", "want"} : pc' = [pc EXCEPT !["ssh"] = p]
        /\ reply' = reply \/ reply' = [reply EXCEPT !["ssh"] = "failure"]
        /\ UNCHANGED <<mainVars, storeVars, client, key, connVars>>
    BY <1>2 DEF SshRead
  <2> QED
    BY <1>0, <2>1 DEF mainVars, storeVars, connVars, IndInv, SafeInv, TypeOK, OwnInv, ServesInv,
         GuardInv, KeyInv, QuietInv, LateInv, Down, InStore
<1>3. CASE SshDrop
  BY <1>0, <1>3, DropInv DEF SshDrop
<1>4. CASE SshIdentities \/ SshCannotSign
  <2>1. /\ pc["ssh"] = "held"
        /\ \E r \in Answers \ {"signature"} : Answer("ssh", r)
        /\ UNCHANGED <<mainVars, unlocked, mutex, poisoned, key, connVars>>
    BY <1>4 DEF SshIdentities, SshCannotSign, SshHolds, Answers, storeVars
  <2> QED
    BY <1>0, <2>1, AnswerInv
<1>5. CASE SshLoadKey
  BY <1>0, <1>5, LoadKeyInv DEF SshLoadKey, SshHolds
<1>6. CASE SshSign
  BY <1>0, <1>6, SignInv DEF SshSign
<1>7. CASE SshReply
  <2>1. CASE conn[client["ssh"]] = "open"
    <3>1. /\ pc["ssh"] = "reply"
          /\ ans' = [ans EXCEPT ![client["ssh"]] = reply["ssh"]]
          /\ ask' = [ask EXCEPT ![client["ssh"]] = "none"]
          /\ reply' = [reply EXCEPT !["ssh"] = "none"]
          /\ pc' = [pc EXCEPT !["ssh"] = "read"]
          /\ UNCHANGED <<mainVars, storeVars, client, key, backlog, conn, late, ran>>
      BY <1>7, <2>1 DEF SshReply
    <3>2. client["ssh"] \in SshConns /\ client["ipc"] # client["ssh"]
      BY <1>0, <3>1, OwnConnsApart DEF IndInv, SafeInv, OwnInv, ServesInv, Down, Threads
    <3>3. OwnInv' /\ ServesInv' /\ GuardInv' /\ KeyInv' /\ QuietInv'
      BY <1>0, <3>1 DEF mainVars, storeVars, IndInv, SafeInv, TypeOK, OwnInv, ServesInv,
           GuardInv, KeyInv, QuietInv, Down, InStore
    <3>4. LateInv'
      BY <3>1, <3>2 DEF storeVars, IndInv, SafeInv, TypeOK, LateInv, Threads, Conns
    <3> QED
      BY <3>3, <3>4 DEF SafeInv
  <2>2. CASE conn[client["ssh"]] # "open"
    BY <1>0, <1>7, <2>2, DropInv DEF SshReply
  <2> QED
    BY <2>1, <2>2
<1> QED
  BY <1>1, <1>2, <1>3, <1>4, <1>5, <1>6, <1>7 DEF SshNext

THEOREM IndInvHolds == Spec => []IndInv
<1>1. Init => SafeInv
  <2>1. \A t \in Threads : <<>> \in Seq(OwnConns(t))
    OBVIOUS
  <2> QED
    BY <2>1 DEF Init, SafeInv, OwnInv, ServesInv, GuardInv, KeyInv, QuietInv, LateInv, Down,
                InStore, Threads
<1>2. TypeOK /\ SafeInv /\ [Next]_vars => SafeInv'
  <2> SUFFICES ASSUME IndInv, [Next]_vars PROVE SafeInv'
    BY DEF IndInv
  <2>1. CASE UNCHANGED vars
    BY <2>1 DEF vars, mainVars, storeVars, threadVars, connVars, IndInv, SafeInv, OwnInv,
                ServesInv, GuardInv, KeyInv, QuietInv, LateInv
  <2> QED
    BY <2>1, MainInv, ClientInv, IpcInv, SshInv DEF Next
<1> QED
  BY <1>1, <1>2, TypeCorrect, PTL DEF Spec, IndInv

-----------------------------------------------------------------------------
(* What follows *)

\* A decrypted key is in memory only under the guard of an unlocked store: the
\* handler of a Lock request, which holds the guard, never finds one.
THEOREM KeyIsUnderGuard == Spec => []KeyOnlyUnderGuard
<1>1. IndInv => KeyOnlyUnderGuard
  BY DEF IndInv, SafeInv, GuardInv, KeyInv, KeyOnlyUnderGuard, InStore
<1> QED
  BY <1>1, IndInvHolds, PTL

\* No thread waits for a client with the store in its hands.
THEOREM BlockedThreadsHoldNothing == Spec => []BlockedThreadHoldsNothing
<1>1. IndInv => BlockedThreadHoldsNothing
  BY DEF IndInv, SafeInv, GuardInv, BlockedThreadHoldsNothing
<1> QED
  BY <1>1, IndInvHolds, PTL

\* What is asked after the store was locked is never signed, by either server.
THEOREM NothingSignedAfterLock == Spec => []NoSignatureAfterLock
<1>1. IndInv => NoSignatureAfterLock
  BY DEF IndInv, SafeInv, LateInv, NoSignatureAfterLock
<1> QED
  BY <1>1, IndInvHolds, PTL

\* Nothing but the unlock of a start-up ever opens the store.
THEOREM LockLasts == Spec => OnlyStartupUnlocks
<1>1. [Next]_vars => [~unlocked /\ unlocked' => main = "unlock"]_vars
  <2> SUFFICES ASSUME Next, ~unlocked, unlocked' PROVE main = "unlock"
    OBVIOUS
  <2>1. CASE MainNext \/ Kill \/ SystemdRestarts
    BY <2>1 DEF MainNext, StartupStep, StartupFails, Spawn, MainReturns, Kill, SystemdRestarts,
                ProcessEnds, storeVars
  <2>2. ASSUME NEW c \in Conns, ClientNext(c) PROVE FALSE
    BY <2>2 DEF ClientNext, Connect, Send, Receive, HangUp, PeerChanges, storeVars
  <2>3. ASSUME NEW t \in Threads, CommonNext(t) PROVE FALSE
    BY <2>3 DEF CommonNext, Bind, BindFails, Accept, TakeStore, TakePoisonedStore, Release,
                ThreadEnds, storeVars
  <2>4. CASE IpcNext
    BY <2>3, <2>4 DEF IpcNext, PeerCredFails, Verified, Rejected, IpcRead, IpcStatus, IpcLock,
         IpcList, IpcLoadKey, LoadKey, IpcCannotSign, IpcSign, IpcSignPanics, IpcReply, ThreadEnds,
         storeVars, Threads
  <2>5. CASE SshNext
    BY <2>3, <2>5 DEF SshNext, SshRead, SshDrop, SshIdentities, SshLoadKey, LoadKey, SshCannotSign,
         SshSign, SshReply, storeVars, Threads
  <2> QED
    BY <2>1, <2>2, <2>4, <2>5 DEF Next
<1> QED
  BY <1>1, PTL DEF Spec, OnlyStartupUnlocks

-----------------------------------------------------------------------------
(* The order of the start-up *)

\* The checks that main() has behind it at each of its steps.
Before(step) ==
  CASE step = "env"       -> {}
    [] step = "root"      -> {"env"}
    [] step = "harden"    -> {"env", "root"}
    [] step = "unlock"    -> {"env", "root", "harden"}
    [] step = "integrity" -> {"env", "root", "harden", "unlock"}
    [] step = "hashes"    -> Checks \ {"hashes"}
    [] OTHER              -> Checks

StartInv ==
  /\ main # "exited" => passed = Before(main)
  /\ unlocked => main \in {"integrity", "hashes", "spawn", "join"}

\* No server and no client has a hand in the start-up, or unlocks.
LEMMA ServersLeaveMain ==
  ASSUME IpcNext \/ SshNext \/ \E c \in Conns : ClientNext(c)
  PROVE  UNCHANGED mainVars /\ (unlocked' => unlocked)
<1>1. ASSUME NEW c \in Conns, ClientNext(c) PROVE UNCHANGED mainVars /\ (unlocked' => unlocked)
  BY <1>1 DEF ClientNext, Connect, Send, Receive, HangUp, PeerChanges, storeVars
<1>2. ASSUME NEW t, CommonNext(t) PROVE UNCHANGED mainVars /\ (unlocked' => unlocked)
  BY <1>2 DEF CommonNext, Bind, BindFails, Accept, TakeStore, TakePoisonedStore, Release,
              ThreadEnds, storeVars
<1>3. CASE IpcNext
  BY <1>2, <1>3 DEF IpcNext, PeerCredFails, Verified, Rejected, IpcRead, IpcStatus, IpcLock,
       IpcList, IpcLoadKey, LoadKey, IpcCannotSign, IpcSign, IpcSignPanics, IpcReply, ThreadEnds,
       storeVars
<1>4. CASE SshNext
  BY <1>2, <1>4 DEF SshNext, SshRead, SshDrop, SshIdentities, SshLoadKey, LoadKey, SshCannotSign,
       SshSign, SshReply, storeVars
<1> QED
  BY <1>1, <1>3, <1>4

LEMMA StartStep == StartInv /\ [Next]_vars => StartInv'
<1> SUFFICES ASSUME StartInv, [Next]_vars PROVE StartInv'
  OBVIOUS
<1>1. CASE StartupStep
  BY <1>1 DEF StartupStep, After, Before, StartInv, Checks
<1>2. CASE StartupFails \/ MainReturns \/ Kill
  BY <1>2 DEF StartupFails, MainReturns, Kill, ProcessEnds, StartInv
<1>3. CASE Spawn
  BY <1>3 DEF Spawn, storeVars, StartInv, Before
<1>4. CASE SystemdRestarts
  BY <1>4 DEF SystemdRestarts, storeVars, StartInv, Before
<1>5. CASE IpcNext \/ SshNext \/ \E c \in Conns : ClientNext(c)
  BY <1>5, ServersLeaveMain DEF mainVars, StartInv
<1>6. CASE UNCHANGED vars
  BY <1>6 DEF vars, mainVars, storeVars, StartInv
<1> QED
  BY <1>1, <1>2, <1>3, <1>4, <1>5, <1>6 DEF Next, MainNext

\* In every start and restart, the store is opened only after the first three checks,
\* and no server runs before all of them have passed.
THEOREM SecretsWaitForChecks == Spec => []SecretsOnlyAfterChecks
<1>1. Init => StartInv
  BY DEF Init, StartInv, Before
<1>2. IndInv /\ StartInv => SecretsOnlyAfterChecks
  <2> SUFFICES ASSUME IndInv, StartInv PROVE SecretsOnlyAfterChecks
    OBVIOUS
  <2>1. unlocked => {"env", "root", "harden"} \subseteq passed
    BY DEF StartInv, Before, Checks
  <2>2. (\E t \in Threads : pc[t] \notin {"off"}) => passed = Checks
    BY DEF IndInv, SafeInv, QuietInv, StartInv, Before
  <2> QED
    BY <2>1, <2>2 DEF SecretsOnlyAfterChecks
<1> QED
  BY <1>1, <1>2, StartStep, IndInvHolds, PTL DEF Spec

-----------------------------------------------------------------------------
(* Strangers *)

\* What a stranger has been told, and where the server is with it.
NotHeard(c) ==
  /\ ans[c] \in {"none", "rejected"}
  /\ client["ipc"] = c => \/ pc["ipc"] = "verify"
                          \/ pc["ipc"] = "reply" /\ reply["ipc"] = "rejected"

\* A step that does not touch the IPC server's locals and at most reads an answer.
LEMMA NotHeardStays ==
  ASSUME TypeOK, NEW c \in Conns, NotHeard(c), ans'[c] \in {ans[c], "none"},
         client'["ipc"] \in {client["ipc"], "none"}, pc'["ipc"] = pc["ipc"],
         reply'["ipc"] = reply["ipc"], "none" \notin Conns
  PROVE  NotHeard(c)'
BY DEF NotHeard

LEMMA StrangerIpc ==
  ASSUME IndInv, NEW c \in IpcConns, "registered" \notin ran[c], NotHeard(c), IpcNext
  PROVE  NotHeard(c)'
<1>1. /\ TypeOK /\ c \in Conns /\ c # "none" /\ "ipc" \in Threads
      /\ client["ipc"] = "none" <=> pc["ipc"] \in Down \cup {"accept"}
  BY ConnsAssumption DEF IndInv, SafeInv, ServesInv, Conns, Threads
<1>2. ASSUME ThreadEnds("ipc", client["ipc"]) \/ ThreadEnds("ipc", "none") PROVE NotHeard(c)'
  BY <1>1, <1>2 DEF ThreadEnds, NotHeard, TypeOK
<1>3. CASE CommonNext("ipc")
  <2>1. CASE Bind("ipc")
    BY <1>1, <2>1 DEF Bind, connVars, NotHeard, TypeOK, Down
  <2>2. CASE BindFails("ipc") \/ TakePoisonedStore("ipc")
    BY <1>2, <2>2 DEF BindFails, TakePoisonedStore
  <2>3. CASE Accept("ipc")
    BY <1>1, <2>3 DEF Accept, NotHeard, TypeOK
  <2>4. CASE TakeStore("ipc") \/ Release("ipc")
    BY <1>1, <2>4 DEF TakeStore, Release, connVars, NotHeard, TypeOK
  <2> QED
    BY <1>3, <2>1, <2>2, <2>3, <2>4 DEF CommonNext
<1>4. CASE PeerCredFails \/ IpcSignPanics
  BY <1>2, <1>4 DEF PeerCredFails, IpcSignPanics
<1>5. CASE Verified
  BY <1>1, <1>5 DEF Verified, connVars, NotHeard, TypeOK
<1>6. CASE Rejected
  BY <1>1, <1>6 DEF Rejected, connVars, NotHeard, TypeOK
<1>7. CASE IpcRead
  BY <1>1, <1>7 DEF IpcRead, connVars, NotHeard
<1>8. CASE IpcStatus \/ IpcLock \/ IpcList \/ IpcCannotSign \/ IpcLoadKey \/ IpcSign
  <2>1. pc["ipc"] \in {"held", "signing"} /\ client' = client /\ ans' = ans
    BY <1>8 DEF IpcStatus, IpcLock, IpcList, IpcCannotSign, IpcLoadKey, IpcSign, IpcHolds, LoadKey,
                Answer, connVars
  <2> QED
    BY <2>1 DEF NotHeard
<1>9. CASE IpcReply
  BY <1>1, <1>9 DEF IpcReply, NextConn, NotHeard, TypeOK
<1> QED
  BY <1>3, <1>4, <1>5, <1>6, <1>7, <1>8, <1>9 DEF IpcNext

LEMMA StrangerSsh ==
  ASSUME IndInv, NEW c \in IpcConns, NotHeard(c), SshNext
  PROVE  NotHeard(c)'
<1>1. /\ TypeOK /\ c \in Conns /\ client["ssh"] # c /\ "none" \notin Conns
  BY ConnsAssumption, OwnConnsApart DEF IndInv, SafeInv, OwnInv, OwnConns, Conns, Threads
<1>2. /\ ans'[c] = ans[c] /\ client'["ipc"] = client["ipc"]
      /\ pc'["ipc"] = pc["ipc"] /\ reply'["ipc"] = reply["ipc"]
  <2> USE <1>1 DEF TypeOK, Threads
  <2>1. CASE CommonNext("ssh")
    BY <2>1 DEF CommonNext, Bind, BindFails, Accept, TakeStore, TakePoisonedStore, Release,
                ThreadEnds, connVars
  <2>2. CASE SshRead \/ SshIdentities \/ SshLoadKey \/ SshCannotSign \/ SshSign
    BY <2>2 DEF SshRead, SshIdentities, SshLoadKey, LoadKey, SshCannotSign, SshSign, Answer, connVars
  <2>3. CASE SshDrop \/ SshReply
    BY <2>3 DEF SshDrop, SshReply, NextConn
  <2> QED
    BY <2>1, <2>2, <2>3 DEF SshNext
<1> QED
  BY <1>1, <1>2, NotHeardStays

\* A peer that has run a registered binary once does not lose that past.
LEMMA RanGrows ==
  ASSUME TypeOK, [Next]_vars, NEW c \in IpcConns
  PROVE  ran[c] \subseteq ran'[c]
<1>1. CASE MainNext \/ Kill \/ SystemdRestarts
  BY <1>1 DEF MainNext, StartupStep, StartupFails, Spawn, MainReturns, Kill, SystemdRestarts,
              ProcessEnds, connVars
<1>2. ASSUME NEW d \in Conns, ClientNext(d) PROVE ran[c] \subseteq ran'[c]
  BY <1>2 DEF ClientNext, Connect, Send, Receive, HangUp, PeerChanges, TypeOK
<1>3. ASSUME NEW t, CommonNext(t) PROVE ran' = ran
  BY <1>3 DEF CommonNext, Bind, BindFails, Accept, TakeStore, TakePoisonedStore, Release,
              ThreadEnds, connVars
<1>4. CASE IpcNext
  BY <1>3, <1>4 DEF IpcNext, PeerCredFails, Verified, Rejected, IpcRead, IpcStatus, IpcLock,
       IpcList, IpcLoadKey, LoadKey, IpcCannotSign, IpcSign, IpcSignPanics, IpcReply, ThreadEnds,
       connVars
<1>5. CASE SshNext
  BY <1>3, <1>5 DEF SshNext, SshRead, SshDrop, SshIdentities, SshLoadKey, LoadKey, SshCannotSign,
       SshSign, SshReply, connVars
<1>6. CASE UNCHANGED vars
  BY <1>6 DEF vars, connVars
<1> QED
  BY <1>1, <1>2, <1>4, <1>5, <1>6 DEF Next

\* A peer that has run no registered binary so far is told nothing but that it is
\* rejected, and nothing it sends is read.
THEOREM StrangersStayUnheard == Spec => []StrangersAreNotHeard
<1>1. Init => StrangersAreNotHeard
  BY ConnsAssumption DEF Init, StrangersAreNotHeard, Conns, Threads
<1>2. IndInv /\ StrangersAreNotHeard /\ [Next]_vars => StrangersAreNotHeard'
  <2> SUFFICES ASSUME IndInv, StrangersAreNotHeard, [Next]_vars,
                      NEW c \in IpcConns, "registered" \notin ran'[c]
               PROVE  NotHeard(c)'
    BY DEF StrangersAreNotHeard, NotHeard
  <2>0. "registered" \notin ran[c]
    BY RanGrows DEF IndInv
  <2>1. TypeOK /\ NotHeard(c) /\ c \in Conns /\ "none" \notin Conns /\ "ipc" \in Threads
    BY <2>0, ConnsAssumption DEF IndInv, StrangersAreNotHeard, NotHeard, Conns, Threads
  <2>2. CASE StartupStep \/ SystemdRestarts
    BY <2>1, <2>2 DEF StartupStep, SystemdRestarts, threadVars, connVars, NotHeard
  <2>3. CASE StartupFails \/ MainReturns \/ Kill
    BY <2>1, <2>3 DEF StartupFails, MainReturns, Kill, ProcessEnds, NotHeard
  <2>4. CASE Spawn
    <3>1. client["ipc"] = "none" /\ client' = client /\ ans' = ans
      BY <2>1, <2>4 DEF Spawn, connVars, IndInv, SafeInv, QuietInv, ServesInv, Down
    <3> QED
      BY <2>1, <3>1 DEF NotHeard
  <2>5. ASSUME NEW d \in Conns, ClientNext(d) PROVE NotHeard(c)'
    BY <2>1, <2>5, NotHeardStays
    DEF ClientNext, Connect, Send, Receive, HangUp, PeerChanges, threadVars, TypeOK
  <2>6. CASE UNCHANGED vars
    BY <2>1, <2>6 DEF vars, threadVars, connVars, NotHeard
  <2> QED
    BY <2>0, <2>1, <2>2, <2>3, <2>4, <2>5, <2>6, StrangerIpc, StrangerSsh DEF Next, MainNext
<1> QED
  BY <1>1, <1>2, IndInvHolds, PTL DEF Spec

-----------------------------------------------------------------------------
(* The servers as one service *)

\* A thread has an answer exactly between building and sending it (OwedInv), an
\* answer other than a rejection is owed to a request, unless its client is gone
\* (AskedInv), and no client has more than one answer in front of it (TurnInv).
OwedInv == \A t \in Threads : reply[t] # "none" <=> pc[t] \in {"release", "reply"}

AskedInv ==
  /\ \A t \in Threads : reply[t] \notin {"none", "rejected"} =>
       ask[client[t]] # "none" \/ conn[client[t]] = "shut"
  /\ reply["ssh"] # "none" => ask[client["ssh"]] # "none"
  /\ pc["ssh"] \in {"want", "held", "signing"} => ask[client["ssh"]] # "none"

TurnInv ==
  /\ \A c \in Conns : ask[c] # "none" => ans[c] = "none"
  /\ \A c \in IpcConns : conn[c] \in {"new", "open"} => ans[c] = "none"
  /\ \A c \in Conns : ask[c] \in Requests(c) \cup {"none"}
  /\ main # "join" => \A c \in Conns : ask[c] = "none"

ServiceInv == OwedInv /\ AskedInv /\ TurnInv

LEMMA ProcessEndsService ==
  ASSUME IndInv, ServiceInv, NEW how, ProcessEnds(how)
  PROVE  ServiceInv'
BY DEF ProcessEnds, IndInv, TypeOK, ServiceInv, OwedInv, AskedInv, TurnInv, Threads, Conns

LEMMA ThreadEndsService ==
  ASSUME IndInv, ServiceInv, NEW t \in Threads, NEW c \in OwnConns(t) \cup {"none"},
         ThreadEnds(t, c)
  PROVE  ServiceInv'
<1>1. \A u \in Threads \ {t} : client[u] # "none" => ask'[client[u]] = ask[client[u]]
  <2> SUFFICES ASSUME NEW u \in Threads \ {t}, client[u] # "none"
               PROVE  ask'[client[u]] = ask[client[u]]
    OBVIOUS
  <2>1. client[u] \in OwnConns(u) /\ backlog[t] \in Seq(OwnConns(t))
    BY DEF IndInv, SafeInv, OwnInv
  <2>2. client[u] \in Conns /\ client[u] # c
        /\ \A i \in DOMAIN backlog[t] : client[u] # backlog[t][i]
    BY <2>1, OwnConnsApart
  <2> QED
    BY <2>2 DEF ThreadEnds
<1>2. \A u \in Threads \ {t} : pc[u] \in InStore \cup {"want", "reply"} => client[u] \in Conns
  BY OwnConnsApart DEF IndInv, SafeInv, OwnInv, ServesInv, InStore, Down
<1>3. /\ reply' = [reply EXCEPT ![t] = "none"] /\ client' = [client EXCEPT ![t] = "none"]
      /\ pc' = [pc EXCEPT ![t] = "done"]
      /\ UNCHANGED <<main, ans>>
      /\ \A d \in Conns : ask'[d] \in {ask[d], "none"}
      /\ \A d \in Conns : conn'[d] \in {"new", "open"} => conn[d] = conn'[d]
      /\ \A d \in Conns : conn[d] = "shut" => conn'[d] = "shut"
  BY DEF ThreadEnds, mainVars, IndInv, TypeOK
<1>4. OwedInv'
  BY <1>3 DEF IndInv, TypeOK, ServiceInv, OwedInv
<1>5. AskedInv'
  <2>1. \A u \in Threads \ {t} : pc[u] \in {"want", "held", "signing", "release", "reply"} =>
          /\ ask'[client'[u]] = ask[client[u]]
          /\ conn[client[u]] = "shut" => conn'[client'[u]] = "shut"
    BY <1>1, <1>2, <1>3, ConnsAssumption DEF IndInv, TypeOK, InStore
  <2>2. \A u \in Threads \ {t} : pc'[u] = pc[u] /\ reply'[u] = reply[u]
    BY <1>3
  <2>3. reply'[t] = "none" /\ pc'[t] = "done"
    BY <1>3 DEF IndInv, TypeOK
  <2>4. \A u \in Threads : reply[u] # "none" => pc[u] \in {"release", "reply"}
    BY DEF ServiceInv, OwedInv
  <2> QED
    BY <2>1, <2>2, <2>3, <2>4 DEF ServiceInv, AskedInv, Threads
<1>6. TurnInv'
  BY <1>3 DEF IndInv, TypeOK, ServiceInv, TurnInv, Conns
<1> QED
  BY <1>4, <1>5, <1>6 DEF ServiceInv

LEMMA MainService ==
  ASSUME IndInv, ServiceInv, MainNext \/ Kill \/ SystemdRestarts
  PROVE  ServiceInv'
<1>1. CASE StartupStep
  <2>1. main # "join"
    BY <1>1 DEF StartupStep, Checks
  <2> QED
    BY <1>1, <2>1 DEF StartupStep, threadVars, connVars, ServiceInv, OwedInv, AskedInv, TurnInv
<1>2. CASE StartupFails \/ MainReturns \/ Kill
  BY <1>2, ProcessEndsService DEF StartupFails, MainReturns, Kill
<1>3. CASE Spawn
  <2>1. \A t \in Threads : pc[t] = "off" /\ pc'[t] = "bind"
    BY <1>3 DEF Spawn, IndInv, SafeInv, QuietInv, TypeOK
  <2> QED
    BY <1>3, <2>1 DEF Spawn, connVars, ServiceInv, OwedInv, AskedInv, TurnInv, Threads
<1>4. CASE SystemdRestarts
  BY <1>4 DEF SystemdRestarts, threadVars, connVars, ServiceInv, OwedInv, AskedInv, TurnInv
<1> QED
  BY <1>1, <1>2, <1>3, <1>4 DEF MainNext

LEMMA ClientService ==
  ASSUME IndInv, ServiceInv, NEW c \in Conns, ClientNext(c)
  PROVE  ServiceInv'
<1> USE DEF ServiceInv, mainVars, threadVars
<1>1. CASE Connect(c)
  <2>1. \A t \in Threads : reply[t] # "none" => client[t] \in Conns
    BY OwnConnsApart DEF IndInv, SafeInv, OwnInv, ServesInv, OwedInv, Down
  <2> QED
    BY <1>1, <2>1 DEF Connect, IndInv, TypeOK, OwedInv, AskedInv, TurnInv, Conns
<1>2. CASE Receive(c)
  BY <1>2 DEF Receive, IndInv, TypeOK, OwedInv, AskedInv, TurnInv, Conns
<1>3. CASE HangUp(c)
  BY <1>3 DEF HangUp, IndInv, TypeOK, OwedInv, AskedInv, TurnInv, Conns
<1>4. ASSUME NEW r \in Requests(c), Send(c, r) PROVE ServiceInv'
  <2>1. r # "none" /\ main = "join"
    BY <1>4 DEF Send, Requests, IpcRequests, SshRequests, IndInv, SafeInv, QuietInv
  <2> QED
    BY <1>4, <2>1 DEF Send, IndInv, TypeOK, OwedInv, AskedInv, TurnInv
<1>5. CASE \E program \in Programs : PeerChanges(c, program)
  BY <1>5 DEF PeerChanges, OwedInv, AskedInv, TurnInv
<1> QED
  BY <1>1, <1>2, <1>3, <1>4, <1>5 DEF ClientNext

LEMMA CommonService ==
  ASSUME IndInv, ServiceInv, NEW t \in Threads, CommonNext(t)
  PROVE  ServiceInv'
<1>1. CASE BindFails(t) \/ TakePoisonedStore(t)
  BY <1>1, ThreadEndsService DEF BindFails, TakePoisonedStore, IndInv, SafeInv, OwnInv
<1>2. CASE Bind(t) \/ TakeStore(t) \/ Release(t)
  <2>1. OwedInv'
    <3>1. CASE Bind(t)
      BY <3>1 DEF Bind, IndInv, TypeOK, ServiceInv, OwedInv
    <3>2. CASE TakeStore(t)
      BY <3>2 DEF TakeStore, IndInv, TypeOK, ServiceInv, OwedInv
    <3>3. CASE Release(t)
      BY <3>3 DEF Release, IndInv, TypeOK, ServiceInv, OwedInv
    <3> QED
      BY <1>2, <3>1, <3>2, <3>3
  <2>2. AskedInv'
    BY <1>2 DEF Bind, TakeStore, Release, connVars, IndInv, TypeOK, ServiceInv, AskedInv, Threads
  <2>3. TurnInv'
    BY <1>2 DEF Bind, TakeStore, Release, mainVars, connVars, ServiceInv, TurnInv
  <2> QED
    BY <2>1, <2>2, <2>3 DEF ServiceInv
<1>3. CASE Accept(t)
  <2>1. reply[t] = "none"
    BY <1>3 DEF Accept, ServiceInv, OwedInv
  <2>2. OwedInv'
    BY <1>3 DEF Accept, IndInv, TypeOK, ServiceInv, OwedInv
  <2>3. AskedInv'
    BY <1>3, <2>1 DEF Accept, IndInv, TypeOK, ServiceInv, AskedInv, Threads
  <2>4. TurnInv'
    BY <1>3 DEF Accept, mainVars, ServiceInv, TurnInv
  <2> QED
    BY <2>2, <2>3, <2>4 DEF ServiceInv
<1> QED
  BY <1>1, <1>2, <1>3 DEF CommonNext

\* A thread that builds an answer, to a request unless it rejects or its client left.
LEMMA AnsweredService ==
  ASSUME IndInv, ServiceInv, NEW t \in Threads, NEW r \in Answers,
         pc[t] \in {"verify", "read", "held", "signing"},
         \/ ask[client[t]] # "none"
         \/ t = "ipc" /\ (r = "rejected" \/ conn[client[t]] = "shut"),
         reply' = [reply EXCEPT ![t] = r],
         \E p \in {"release", "reply"} : pc' = [pc EXCEPT ![t] = p],
         UNCHANGED <<mainVars, client, connVars>>
  PROVE  ServiceInv'
<1>1. r # "none"
  BY DEF Answers
<1>2. OwedInv'
  BY <1>1 DEF IndInv, TypeOK, ServiceInv, OwedInv
<1>3. AskedInv'
  BY DEF connVars, IndInv, TypeOK, ServiceInv, AskedInv
<1>4. TurnInv'
  BY DEF mainVars, connVars, ServiceInv, TurnInv
<1> QED
  BY <1>2, <1>3, <1>4 DEF ServiceInv

\* A thread that goes on with a request it has read, and has no answer yet.
LEMMA GoesOnService ==
  ASSUME IndInv, ServiceInv, NEW t \in Threads, pc[t] \in {"verify", "read", "held"},
         \E p \in {"read", "want", "signing"} : pc' = [pc EXCEPT ![t] = p],
         t = "ssh" => ask[client[t]] # "none",
         UNCHANGED <<mainVars, client, reply, connVars>>
  PROVE  ServiceInv'
BY DEF mainVars, connVars, IndInv, TypeOK, ServiceInv, OwedInv, AskedInv, TurnInv

\* Dropping the connection, with the answer delivered first or lost.
LEMMA DropService ==
  ASSUME IndInv, ServiceInv, NEW t \in Threads, pc[t] \in {"read", "reply"},
         DropConn(client[t]), NextConn(t),
         \/ ans' = ans
         \/ t = "ipc" /\ conn[client[t]] = "open" /\ ans' = [ans EXCEPT ![client[t]] = reply[t]],
         UNCHANGED <<mainVars, storeVars, key, backlog, late, ran>>
  PROVE  ServiceInv'
<1>1. client[t] \in OwnConns(t) /\ client[t] \in Conns
  BY OwnConnsApart DEF IndInv, SafeInv, OwnInv, ServesInv, Down
<1>2. \A u \in Threads \ {t} : client[u] # client[t]
  BY <1>1, OwnConnsApart DEF IndInv, SafeInv, OwnInv
<1>3. \A u \in Threads \ {t} : pc[u] \in InStore \cup {"want", "reply"} => client[u] \in Conns
  BY OwnConnsApart DEF IndInv, SafeInv, OwnInv, ServesInv, InStore, Down
<1>4. OwedInv'
  BY DEF NextConn, IndInv, TypeOK, ServiceInv, OwedInv
<1>5. AskedInv'
  BY <1>1, <1>2, <1>3, <1>4
  DEF NextConn, DropConn, IndInv, TypeOK, ServiceInv, OwedInv, AskedInv, InStore, Threads
<1>6. TurnInv'
  BY <1>1 DEF DropConn, mainVars, IndInv, TypeOK, ServiceInv, TurnInv, Conns
<1> QED
  BY <1>4, <1>5, <1>6 DEF ServiceInv

LEMMA IpcService ==
  ASSUME IndInv, ServiceInv, IpcNext
  PROVE  ServiceInv'
<1>0. "ipc" \in Threads
  BY DEF Threads
<1>1. CASE CommonNext("ipc")
  BY <1>0, <1>1, CommonService
<1>2. CASE PeerCredFails \/ IpcSignPanics
  BY <1>0, <1>2, ThreadEndsService DEF PeerCredFails, IpcSignPanics, IndInv, SafeInv, OwnInv
<1>3. CASE Verified
  BY <1>0, <1>3, GoesOnService DEF Verified
<1>4. CASE Rejected
  BY <1>0, <1>4, AnsweredService DEF Rejected, Answers
<1>5. CASE IpcRead
  <2>1. \/ pc' = [pc EXCEPT !["ipc"] = "want"] /\ reply' = reply
        \/ /\ pc' = [pc EXCEPT !["ipc"] = "reply"]
           /\ \E r \in Answers : reply' = [reply EXCEPT !["ipc"] = r]
    BY <1>5 DEF IpcRead, Answers
  <2>2. /\ ask[client["ipc"]] # "none" \/ conn[client["ipc"]] = "shut"
        /\ pc["ipc"] = "read"
        /\ UNCHANGED <<mainVars, client, connVars>>
    BY <1>5 DEF IpcRead
  <2> QED
    BY <1>0, <2>1, <2>2, GoesOnService, AnsweredService
<1>6. CASE IpcStatus \/ IpcLock \/ IpcList \/ IpcCannotSign
  <2>1. /\ pc["ipc"] = "held" /\ ask[client["ipc"]] # "none"
        /\ \E r \in Answers : Answer("ipc", r)
        /\ UNCHANGED <<mainVars, connVars>>
    BY <1>6 DEF IpcStatus, IpcLock, IpcList, IpcCannotSign, IpcHolds, Answers
  <2> QED
    BY <1>0, <2>1, AnsweredService DEF Answer
<1>7. CASE IpcLoadKey
  BY <1>0, <1>7, GoesOnService DEF IpcLoadKey, IpcHolds, LoadKey
<1>8. CASE IpcSign
  <2>1. pc["ipc"] = "signing" /\ ask[client["ipc"]] # "none"
    BY <1>0, <1>8 DEF IpcSign, IndInv, SafeInv, LateInv
  <2> QED
    BY <1>0, <1>8, <2>1, AnsweredService DEF IpcSign, Answer, Answers
<1>9. CASE IpcReply
  BY <1>0, <1>9, DropService DEF IpcReply, IndInv, TypeOK
<1> QED
  BY <1>1, <1>2, <1>3, <1>4, <1>5, <1>6, <1>7, <1>8, <1>9 DEF IpcNext

LEMMA SshService ==
  ASSUME IndInv, ServiceInv, SshNext
  PROVE  ServiceInv'
<1>0. "ssh" \in Threads
  BY DEF Threads
<1>1. CASE CommonNext("ssh")
  BY <1>0, <1>1, CommonService
<1>2. CASE SshRead
  <2>1. \/ pc' = [pc EXCEPT !["ssh"] = "want"] /\ reply' = reply
        \/ /\ pc' = [pc EXCEPT !["ssh"] = "reply"]
           /\ reply' = [reply EXCEPT !["ssh"] = "failure"]
    BY <1>2 DEF SshRead
  <2>2. /\ ask[client["ssh"]] # "none" /\ pc["ssh"] = "read" /\ "failure" \in Answers
        /\ UNCHANGED <<mainVars, client, connVars>>
    BY <1>2 DEF SshRead, Answers
  <2> QED
    BY <1>0, <2>1, <2>2, GoesOnService, AnsweredService
<1>3. CASE SshDrop
  BY <1>0, <1>3, DropService DEF SshDrop
<1>4. CASE SshIdentities \/ SshCannotSign
  <2>1. /\ pc["ssh"] = "held" /\ ask[client["ssh"]] # "none"
        /\ \E r \in Answers : Answer("ssh", r)
        /\ UNCHANGED <<mainVars, connVars>>
    BY <1>4 DEF SshIdentities, SshCannotSign, SshHolds, Answers
  <2> QED
    BY <1>0, <2>1, AnsweredService DEF Answer
<1>5. CASE SshLoadKey
  BY <1>0, <1>5, GoesOnService DEF SshLoadKey, SshHolds, LoadKey
<1>6. CASE SshSign
  <2>1. pc["ssh"] = "signing" /\ ask[client["ssh"]] # "none"
    BY <1>0, <1>6 DEF SshSign, IndInv, SafeInv, LateInv
  <2> QED
    BY <1>0, <1>6, <2>1, AnsweredService DEF SshSign, Answer, Answers
<1>7. CASE SshReply
  <2>1. CASE conn[client["ssh"]] = "open"
    <3>1. /\ pc["ssh"] = "reply"
          /\ ans' = [ans EXCEPT ![client["ssh"]] = reply["ssh"]]
          /\ ask' = [ask EXCEPT ![client["ssh"]] = "none"]
          /\ reply' = [reply EXCEPT !["ssh"] = "none"]
          /\ pc' = [pc EXCEPT !["ssh"] = "read"]
          /\ UNCHANGED <<main, client, conn>>
      BY <1>7, <2>1 DEF SshReply, mainVars
    <3>2. client["ssh"] \in SshConns /\ client["ipc"] # client["ssh"]
      BY <1>0, <3>1, OwnConnsApart DEF IndInv, SafeInv, OwnInv, ServesInv, Down, Threads
    <3>3. OwedInv'
      BY <3>1 DEF IndInv, TypeOK, ServiceInv, OwedInv
    <3>4. AskedInv'
      BY <3>1, <3>2 DEF IndInv, TypeOK, ServiceInv, AskedInv, Threads
    <3>5. TurnInv'
      BY <3>1, <3>2, ConnsAssumption DEF IndInv, TypeOK, ServiceInv, TurnInv, Conns
    <3> QED
      BY <3>3, <3>4, <3>5 DEF ServiceInv
  <2>2. CASE conn[client["ssh"]] # "open"
    BY <1>0, <1>7, <2>2, DropService DEF SshReply
  <2> QED
    BY <2>1, <2>2
<1> QED
  BY <1>1, <1>2, <1>3, <1>4, <1>5, <1>6, <1>7 DEF SshNext

THEOREM ServiceInvHolds == Spec => []ServiceInv
<1>1. Init => ServiceInv
  BY DEF Init, ServiceInv, OwedInv, AskedInv, TurnInv, Threads, Conns
<1>2. IndInv /\ ServiceInv /\ [Next]_vars => ServiceInv'
  <2> SUFFICES ASSUME IndInv, ServiceInv, [Next]_vars PROVE ServiceInv'
    OBVIOUS
  <2>1. CASE UNCHANGED vars
    BY <2>1 DEF vars, mainVars, threadVars, connVars, ServiceInv, OwedInv, AskedInv, TurnInv
  <2> QED
    BY <2>1, MainService, ClientService, IpcService, SshService DEF Next
<1> QED
  BY <1>1, <1>2, IndInvHolds, PTL DEF Spec

\* A thread's client is the connection it owes its answer to.
LEMMA DueOfClient ==
  ASSUME IndInv, NEW t \in Threads, pc[t] \notin Down \cup {"accept"}
  PROVE  /\ client[t] \in Conns /\ Server(client[t]) = t
         /\ Due[client[t]] = reply[t]
<1>1. client[t] \in OwnConns(t) /\ client[t] \in Conns
  BY OwnConnsApart DEF IndInv, SafeInv, OwnInv, ServesInv
<1>2. Server(client[t]) = t
  BY <1>1, ConnsAssumption DEF OwnConns, Server, Threads
<1> QED
  BY <1>1, <1>2 DEF Due

\* What becomes of the answer of one thread is the business of its client alone.
LEMMA DueChanges ==
  ASSUME IndInv, NEW t \in Threads, client[t] \in Conns, NEW r,
         reply' = [reply EXCEPT ![t] = r],
         \/ client' = client
         \/ r = "none" /\ client' = [client EXCEPT ![t] = "none"]
  PROVE  Due' = [Due EXCEPT ![client[t]] = r]
<1> DEFINE c == client[t]
<1>1. c \in OwnConns(t) /\ c # "none" /\ c \in Conns
  BY ConnsAssumption DEF IndInv, SafeInv, OwnInv
<1>2. Server(c) = t
  BY <1>1, ConnsAssumption DEF OwnConns, Server, Threads
<1>3. ASSUME NEW d \in Conns
      PROVE  Due'[d] = IF d = c THEN r ELSE Due[d]
  <2>1. Server(d) \in Threads
    BY DEF Server, Threads
  <2>2. CASE d = c
    BY <1>1, <1>2, <2>1, <2>2 DEF Due, IndInv, TypeOK
  <2>3. CASE d # c /\ Server(d) = t
    BY <1>1, <2>1, <2>3, ConnsAssumption DEF Due, IndInv, TypeOK
  <2>4. CASE Server(d) # t
    BY <1>2, <2>1, <2>4 DEF Due, IndInv, TypeOK
  <2> QED
    BY <2>2, <2>3, <2>4
<1>4. [Due EXCEPT ![c] = r] = [d \in Conns |-> IF d = c THEN r ELSE Due[d]]
  BY DEF Due
<1>5. Due' = [d \in Conns |-> Due'[d]]
  BY DEF Due
<1> HIDE DEF c
<1>6. Due' = [d \in Conns |-> IF d = c THEN r ELSE Due[d]]
  BY <1>3, <1>5
<1> QED
  BY <1>4, <1>6 DEF c

LEMMA DueStays ==
  ASSUME UNCHANGED <<client, reply>>
  PROVE  Due' = Due
BY DEF Due

\* The servers run only while main() waits for them.
LEMMA ServersServe ==
  ASSUME IndInv, NEW t \in Threads, pc[t] # "off"
  PROVE  main = "join"
BY DEF IndInv, SafeInv, QuietInv

\* From the unlock of a start-up to its end the store is open: no server runs yet.
OpenInv == main \in {"integrity", "hashes", "spawn"} => unlocked

THEOREM OpenInvHolds == Spec => []OpenInv
<1>1. Init => OpenInv
  BY DEF Init, OpenInv
<1>2. IndInv /\ OpenInv /\ [Next]_vars => OpenInv'
  <2> SUFFICES ASSUME IndInv, OpenInv, [Next]_vars PROVE OpenInv'
    OBVIOUS
  <2>1. CASE StartupStep
    BY <2>1 DEF StartupStep, After, Checks, OpenInv
  <2>2. CASE StartupFails \/ MainReturns \/ Kill
    BY <2>2 DEF StartupFails, MainReturns, Kill, ProcessEnds, OpenInv
  <2>3. CASE Spawn \/ SystemdRestarts
    BY <2>3 DEF Spawn, SystemdRestarts, OpenInv
  <2>4. ASSUME NEW c \in Conns, ClientNext(c) PROVE OpenInv'
    BY <2>4 DEF ClientNext, Connect, Send, Receive, HangUp, PeerChanges, mainVars, storeVars, OpenInv
  <2>5. CASE IpcNext \/ SshNext
    <3>1. \E t \in Threads : pc[t] # "off"
      <4>1. ASSUME NEW t, CommonNext(t) PROVE pc[t] # "off"
        BY <4>1 DEF CommonNext, Bind, BindFails, Accept, TakeStore, TakePoisonedStore, Release
      <4> QED
        BY <2>5, <4>1 DEF Threads, IpcNext, PeerCredFails, Verified, Rejected, IpcRead, IpcHolds,
             IpcStatus, IpcLock, IpcList, IpcLoadKey, IpcCannotSign, IpcSign, IpcSignPanics,
             IpcReply, SshNext, SshRead, SshDrop, SshHolds, SshIdentities, SshLoadKey,
             SshCannotSign, SshSign, SshReply
    <3>2. main' = main
      BY <2>5, ServersLeaveMain DEF mainVars
    <3> QED
      BY <3>1, <3>2, ServersServe DEF OpenInv
  <2>6. CASE UNCHANGED vars
    BY <2>6 DEF vars, mainVars, storeVars, OpenInv
  <2> QED
    BY <2>1, <2>2, <2>3, <2>4, <2>5, <2>6 DEF Next, MainNext
<1> QED
  BY <1>1, <1>2, IndInvHolds, PTL DEF Spec

\* Every way in which a server settles an answer.
LEMMA Handles ==
  ASSUME IndInv, NEW t \in Threads, pc[t] \notin Down \cup {"accept"}, reply[t] = "none",
         NEW r \in Service!Outcomes(ask[client[t]], unlocked),
         reply' = [reply EXCEPT ![t] = r],
         unlocked' = (unlocked /\ ask[client[t]] # "lock"),
         UNCHANGED <<mainVars, client, ask, ans>>
  PROVE  Service!Next
<1>1. client[t] \in Conns /\ Due[client[t]] = "none" /\ main = "join" /\ main' = main
  BY DueOfClient, ServersServe DEF Down, mainVars
<1>2. Due' = [Due EXCEPT ![client[t]] = r]
  BY <1>1, DueChanges
<1>3. Service!Handle(client[t])
  BY <1>1, <1>2 DEF Service!Handle
<1> QED
  BY <1>1, <1>3 DEF Service!Next

\* Every way in which a server sends one.
LEMMA Delivers ==
  ASSUME IndInv, ServiceInv, NEW t \in Threads, pc[t] = "reply", conn[client[t]] = "open",
         ans' = [ans EXCEPT ![client[t]] = reply[t]],
         ask' = [ask EXCEPT ![client[t]] = "none"],
         reply' = [reply EXCEPT ![t] = "none"],
         client' = client \/ client' = [client EXCEPT ![t] = "none"],
         UNCHANGED <<mainVars, unlocked>>
  PROVE  Service!Next
<1>0. main = "join" /\ main' = main
  BY ServersServe DEF mainVars
<1>1. client[t] \in Conns /\ Due[client[t]] = reply[t] /\ Server(client[t]) = t
  BY DueOfClient DEF Down
<1>2. Due' = [Due EXCEPT ![client[t]] = "none"]
  BY <1>1, DueChanges
<1>3. reply[t] # "none"
  BY DEF ServiceInv, OwedInv
<1>4. ans[client[t]] = "none"
  <2>1. CASE t = "ipc"
    BY <1>1, <2>1 DEF Server, ServiceInv, TurnInv
  <2>2. CASE t = "ssh"
    BY <1>1, <1>3, <2>2 DEF ServiceInv, AskedInv, TurnInv
  <2> QED
    BY <2>1, <2>2 DEF Threads
<1>5. Service!Deliver(client[t])
  BY <1>0, <1>1, <1>2, <1>3, <1>4 DEF Service!Deliver
<1> QED
  BY <1>1, <1>5 DEF Service!Next

\* Every way in which a server gives a connection up.
LEMMA Drops ==
  ASSUME IndInv, NEW t \in Threads, pc[t] \in {"read", "reply"},
         DropConn(client[t]), NextConn(t), UNCHANGED <<mainVars, unlocked, ans>>
  PROVE  Service!Next
<1>1. client[t] \in Conns /\ Due[client[t]] = reply[t]
  BY DueOfClient DEF Down
<1>2. Due' = [Due EXCEPT ![client[t]] = "none"]
  BY <1>1, DueChanges DEF NextConn
<1>3. /\ ask' = [c \in Conns |-> IF c \in {client[t]} THEN "none" ELSE ask[c]]
      /\ Due' = [c \in Conns |-> IF c \in {client[t]} THEN "none" ELSE Due[c]]
  BY <1>1, <1>2 DEF DropConn, Due, IndInv, TypeOK
<1>4. Service!Lose({client[t]})
  BY <1>3 DEF mainVars, Service!Lose
<1> QED
  BY <1>1, <1>4 DEF Service!Next

LEMMA ThreadEndsLoses ==
  ASSUME IndInv, NEW t \in Threads, NEW c \in {client[t], "none"}, ThreadEnds(t, c),
         c = "none" => client[t] = "none"
  PROVE  Service!Next
<1> DEFINE gone == {c} \cup {backlog[t][i] : i \in DOMAIN backlog[t]}
           C    == gone \cap Conns
<1>1. ask' = [d \in Conns |-> IF d \in C THEN "none" ELSE ask[d]]
  BY DEF ThreadEnds
<1>2. \A d \in gone : d \in OwnConns(t) \cup {"none"}
  BY DEF IndInv, SafeInv, OwnInv
<1>3. ASSUME NEW d \in Conns
      PROVE  Due'[d] = IF d \in C THEN "none" ELSE Due[d]
  <2>1. /\ client' = [client EXCEPT ![t] = "none"] /\ reply' = [reply EXCEPT ![t] = "none"]
        /\ Server(d) \in Threads /\ d # "none"
    BY ConnsAssumption DEF ThreadEnds, Server, Threads
  <2>2. CASE Server(d) # t
    <3>1. d \notin C
      BY <1>2, <2>1, <2>2, ConnsAssumption DEF OwnConns, Server, Threads
    <3> QED
      BY <2>1, <2>2, <3>1 DEF Due, IndInv, TypeOK
  <2>3. CASE Server(d) = t
    <3>1. Due'[d] = "none"
      BY <2>1, <2>3 DEF Due, IndInv, TypeOK
    <3>2. d \notin C => Due[d] = "none"
      BY <2>1, <2>3 DEF Due
    <3> QED
      BY <3>1, <3>2
  <2> QED
    BY <2>2, <2>3
<1>4. Due' = [d \in Conns |-> IF d \in C THEN "none" ELSE Due[d]]
  BY <1>3 DEF Due
<1>5. UNCHANGED <<main, unlocked, ans>>
  BY DEF ThreadEnds, mainVars
<1>6. Service!Lose(C)
  BY <1>1, <1>4, <1>5 DEF Service!Lose
<1> QED
  BY <1>6 DEF Service!Next

\* The variables of the service, as Coned maps them.
serviceVars == <<main = "join", unlocked, ask, Due, ans>>

LEMMA CommonMaps ==
  ASSUME IndInv, ServiceInv, NEW t \in Threads, CommonNext(t)
  PROVE  Service!Next \/ UNCHANGED serviceVars
<1>1. CASE BindFails(t) \/ TakePoisonedStore(t)
  <2>1. BindFails(t) => client[t] = "none"
    BY DEF BindFails, IndInv, SafeInv, ServesInv, Down
  <2> QED
    BY <1>1, <2>1, ThreadEndsLoses DEF BindFails, TakePoisonedStore
<1>2. CASE Bind(t) \/ TakeStore(t) \/ Release(t)
  BY <1>2, DueStays DEF Bind, TakeStore, Release, mainVars, storeVars, connVars, serviceVars
<1>3. CASE Accept(t)
  <2>1. reply[t] = "none" /\ client[t] = "none"
    BY <1>3 DEF Accept, ServiceInv, OwedInv, IndInv, SafeInv, ServesInv
  <2>2. ASSUME NEW d \in Conns PROVE Due'[d] = Due[d]
    <3>1. Server(d) \in Threads /\ d # "none"
      BY ConnsAssumption DEF Server, Threads
    <3> QED
      BY <1>3, <2>1, <3>1 DEF Accept, Due, IndInv, TypeOK
  <2>3. Due' = Due
    BY <2>2 DEF Due
  <2> QED
    BY <1>3, <2>3 DEF Accept, mainVars, storeVars, serviceVars
<1> QED
  BY <1>1, <1>2, <1>3 DEF CommonNext

LEMMA IpcMaps ==
  ASSUME IndInv, ServiceInv, IpcNext
  PROVE  Service!Next \/ UNCHANGED serviceVars
<1>0. "ipc" \in Threads /\ client["ipc"] \in {client["ipc"], "none"}
  BY DEF Threads
<1>1. CASE CommonNext("ipc")
  BY <1>0, <1>1, CommonMaps
<1>2. CASE PeerCredFails \/ IpcSignPanics
  <2>1. pc["ipc"] \in {"verify", "signing"}
    BY <1>2 DEF PeerCredFails, IpcSignPanics
  <2>2. client["ipc"] # "none"
    BY <1>0, <2>1 DEF IndInv, SafeInv, ServesInv, Down
  <2> QED
    BY <1>0, <1>2, <2>2, ThreadEndsLoses DEF PeerCredFails, IpcSignPanics
<1>3. CASE Verified \/ IpcLoadKey
  BY <1>3, DueStays
  DEF Verified, IpcLoadKey, LoadKey, mainVars, storeVars, connVars, serviceVars
<1>4. CASE Rejected
  <2>1. pc["ipc"] \notin Down \cup {"accept"} /\ reply["ipc"] = "none"
    BY <1>0, <1>4 DEF Rejected, Down, ServiceInv, OwedInv
  <2>2. client["ipc"] \in Conns /\ Due[client["ipc"]] = "none"
    BY <1>0, <2>1, DueOfClient
  <2>3. Due' = [Due EXCEPT ![client["ipc"]] = "rejected"]
    BY <1>0, <1>4, <2>2, DueChanges DEF Rejected
  <2>4. main = "join"
    BY <1>0, <2>1, ServersServe DEF Down
  <2>5. Service!Reject(client["ipc"])
    BY <1>4, <2>2, <2>3, <2>4 DEF Rejected, mainVars, storeVars, connVars, Service!Reject
  <2> QED
    BY <2>2, <2>5 DEF Service!Next
<1>5. CASE IpcRead
  <2>1. CASE ask[client["ipc"]] \in {"ping", "bad", "none"}
    <3>1. PICK r \in {"pong", "error"} :
            /\ r = "pong" <=> ask[client["ipc"]] = "ping"
            /\ reply' = [reply EXCEPT !["ipc"] = r]
      BY <1>5, <2>1 DEF IpcRead
    <3>2. /\ pc["ipc"] \notin Down \cup {"accept"} /\ reply["ipc"] = "none"
          /\ UNCHANGED <<mainVars, unlocked, client, ask, ans>>
      BY <1>0, <1>5 DEF IpcRead, Down, ServiceInv, OwedInv, storeVars, connVars
    <3>3. r \in Service!Outcomes(ask[client["ipc"]], unlocked)
      BY <2>1, <3>1 DEF Service!Outcomes, Service!Refusals
    <3>4. unlocked' = (unlocked /\ ask[client["ipc"]] # "lock")
      BY <2>1, <3>2 DEF IndInv, TypeOK
    <3> QED
      BY <1>0, <3>1, <3>2, <3>3, <3>4, Handles
  <2>2. CASE ask[client["ipc"]] \notin {"ping", "bad", "none"}
    BY <1>5, <2>2, DueStays DEF IpcRead, mainVars, storeVars, connVars, serviceVars
  <2> QED
    BY <2>1, <2>2
<1>6. CASE IpcStatus \/ IpcLock \/ IpcList \/ IpcCannotSign \/ IpcSign
  <2>1. /\ pc["ipc"] \notin Down \cup {"accept"} /\ reply["ipc"] = "none"
        /\ UNCHANGED <<mainVars, client, ask, ans>>
    BY <1>0, <1>6 DEF IpcStatus, IpcLock, IpcList, IpcCannotSign, IpcSign, IpcHolds, Answer, Down,
                ServiceInv, OwedInv, connVars
  <2>2. unlocked' = (unlocked /\ ask[client["ipc"]] # "lock")
    <3>1. IpcSign => ask[client["ipc"]] = "sign"
      BY <1>0 DEF IpcSign, IndInv, SafeInv, LateInv
    <3> QED
      BY <1>6, <3>1 DEF IpcStatus, IpcLock, IpcList, IpcCannotSign, IpcSign, IpcHolds, storeVars,
                        IndInv, TypeOK
  <2>3. \E r \in Service!Outcomes(ask[client["ipc"]], unlocked) :
          reply' = [reply EXCEPT !["ipc"] = r]
    <3>1. CASE IpcStatus
      BY <3>1 DEF IpcStatus, IpcHolds, Answer, Service!Outcomes
    <3>2. CASE IpcLock
      BY <3>2 DEF IpcLock, IpcHolds, Answer, Service!Outcomes
    <3>3. CASE IpcList
      BY <3>3 DEF IpcList, IpcHolds, Answer, Service!Outcomes
    <3>4. CASE IpcCannotSign
      BY <3>4 DEF IpcCannotSign, IpcHolds, Answer, Service!Outcomes, Service!Refusals
    <3>5. CASE IpcSign
      <4>1. unlocked /\ ask[client["ipc"]] = "sign"
        BY <1>0, <3>5 DEF IpcSign, IndInv, SafeInv, KeyInv, LateInv
      <4> QED
        BY <3>5, <4>1 DEF IpcSign, Answer, Service!Outcomes, Service!Refusals
    <3> QED
      BY <1>6, <3>1, <3>2, <3>3, <3>4, <3>5
  <2> QED
    BY <1>0, <2>1, <2>2, <2>3, Handles
<1>7. CASE IpcReply
  <2>1. /\ pc["ipc"] = "reply" /\ client["ipc"] \in Conns
        /\ DropConn(client["ipc"]) /\ NextConn("ipc") /\ UNCHANGED <<mainVars, unlocked>>
    BY <1>0, <1>7, DueOfClient DEF IpcReply, storeVars, Down
  <2>2. CASE conn[client["ipc"]] = "open"
    BY <1>0, <1>7, <2>1, <2>2, Delivers DEF IpcReply, DropConn, NextConn
  <2>3. CASE conn[client["ipc"]] # "open"
    BY <1>0, <1>7, <2>1, <2>3, Drops DEF IpcReply, IndInv, TypeOK
  <2> QED
    BY <2>2, <2>3
<1> QED
  BY <1>1, <1>2, <1>3, <1>4, <1>5, <1>6, <1>7 DEF IpcNext

LEMMA SshMaps ==
  ASSUME IndInv, ServiceInv, SshNext
  PROVE  Service!Next \/ UNCHANGED serviceVars
<1>0. "ssh" \in Threads
  BY DEF Threads
<1>1. CASE CommonNext("ssh")
  BY <1>0, <1>1, CommonMaps
<1>2. CASE SshRead
  <2>1. CASE ask[client["ssh"]] = "unknown"
    <3>1. /\ pc["ssh"] \notin Down \cup {"accept"} /\ reply["ssh"] = "none"
          /\ UNCHANGED <<mainVars, unlocked, client, ask, ans>>
          /\ reply' = [reply EXCEPT !["ssh"] = "failure"]
      BY <1>0, <1>2, <2>1 DEF SshRead, Down, ServiceInv, OwedInv, storeVars, connVars
    <3>2. "failure" \in Service!Outcomes(ask[client["ssh"]], unlocked)
      BY <2>1 DEF Service!Outcomes, Service!Refusals
    <3>3. unlocked' = (unlocked /\ ask[client["ssh"]] # "lock")
      BY <2>1, <3>1 DEF IndInv, TypeOK
    <3> QED
      BY <1>0, <3>1, <3>2, <3>3, Handles
  <2>2. CASE ask[client["ssh"]] # "unknown"
    BY <1>2, <2>2, DueStays DEF SshRead, mainVars, storeVars, connVars, serviceVars
  <2> QED
    BY <2>1, <2>2
<1>3. CASE SshDrop
  BY <1>0, <1>3, Drops DEF SshDrop, storeVars
<1>4. CASE SshIdentities \/ SshCannotSign \/ SshSign
  <2>1. /\ pc["ssh"] \notin Down \cup {"accept"} /\ reply["ssh"] = "none"
        /\ UNCHANGED <<mainVars, unlocked, client, ask, ans>>
    BY <1>0, <1>4 DEF SshIdentities, SshCannotSign, SshSign, SshHolds, Answer, Down, ServiceInv,
                OwedInv, storeVars, connVars
  <2>2. SshSign => unlocked /\ ask[client["ssh"]] = "sign"
    BY <1>0 DEF SshSign, IndInv, SafeInv, KeyInv, LateInv
  <2>3. unlocked' = (unlocked /\ ask[client["ssh"]] # "lock")
    BY <1>4, <2>1, <2>2 DEF SshIdentities, SshCannotSign, SshHolds, IndInv, TypeOK
  <2>4. \E r \in Service!Outcomes(ask[client["ssh"]], unlocked) :
          reply' = [reply EXCEPT !["ssh"] = r]
    <3>1. CASE SshIdentities
      BY <3>1 DEF SshIdentities, SshHolds, Answer, Service!Outcomes
    <3>2. CASE SshCannotSign
      BY <3>2 DEF SshCannotSign, SshHolds, Answer, Service!Outcomes, Service!Refusals
    <3>3. CASE SshSign
      BY <2>2, <3>3 DEF SshSign, Answer, Service!Outcomes, Service!Refusals
    <3> QED
      BY <1>4, <3>1, <3>2, <3>3
  <2> QED
    BY <1>0, <2>1, <2>3, <2>4, Handles
<1>5. CASE SshLoadKey
  BY <1>5, DueStays DEF SshLoadKey, LoadKey, mainVars, storeVars, connVars, serviceVars
<1>6. CASE SshReply
  <2>1. CASE conn[client["ssh"]] = "open"
    BY <1>0, <1>6, <2>1, Delivers DEF SshReply, storeVars
  <2>2. CASE conn[client["ssh"]] # "open"
    BY <1>0, <1>6, <2>2, Drops DEF SshReply, storeVars
  <2> QED
    BY <2>1, <2>2
<1> QED
  BY <1>1, <1>2, <1>3, <1>4, <1>5, <1>6 DEF SshNext

LEMMA MainMaps ==
  ASSUME IndInv, ServiceInv, OpenInv, MainNext \/ Kill \/ SystemdRestarts
  PROVE  Service!Next \/ UNCHANGED serviceVars
<1>1. CASE StartupStep
  <2>1. main # "join" /\ main' # "join" /\ Due' = Due
    BY <1>1, DueStays DEF StartupStep, After, Checks, threadVars
  <2>2. CASE main # "unlock"
    BY <1>1, <2>1, <2>2 DEF StartupStep, connVars, serviceVars, IndInv, TypeOK
  <2>3. CASE main = "unlock"
    <3>1. Service!Open
      BY <1>1, <2>1, <2>3 DEF StartupStep, connVars, Service!Open
    <3> QED
      BY <3>1 DEF Service!Next
  <2> QED
    BY <2>2, <2>3
<1>2. CASE StartupFails \/ MainReturns \/ Kill
  <2>1. PICK how : ProcessEnds(how)
    BY <1>2 DEF StartupFails, MainReturns, Kill
  <2>2. ASSUME NEW c \in Conns PROVE Due'[c] = "none"
    <3>1. Server(c) \in Threads /\ c # "none"
      BY ConnsAssumption DEF Server, Threads
    <3> QED
      BY <2>1, <3>1 DEF ProcessEnds, Due
  <2>3. Due' = Service!Nothing
    BY <2>2 DEF Due, Service!Nothing
  <2>4. Service!Stop
    BY <2>1, <2>3 DEF ProcessEnds, Service!Stop, Service!Nothing
  <2> QED
    BY <2>4 DEF Service!Next
<1>3. CASE Spawn
  <2>1. Service!Serve
    BY <1>3, DueStays DEF Spawn, OpenInv, storeVars, connVars, Service!Serve
  <2> QED
    BY <2>1 DEF Service!Next
<1>4. CASE SystemdRestarts
  BY <1>4, DueStays DEF SystemdRestarts, storeVars, threadVars, connVars, serviceVars
<1> QED
  BY <1>1, <1>2, <1>3, <1>4 DEF MainNext

LEMMA ClientMaps ==
  ASSUME IndInv, ServiceInv, NEW c \in Conns, ClientNext(c)
  PROVE  Service!Next \/ UNCHANGED serviceVars
<1>1. CASE Connect(c) \/ HangUp(c) \/ \E program \in Programs : PeerChanges(c, program)
  BY <1>1, DueStays
  DEF Connect, HangUp, PeerChanges, mainVars, storeVars, threadVars, serviceVars
<1>2. CASE Receive(c)
  <2>1. Service!Receive(c)
    BY <1>2, DueStays DEF Receive, mainVars, storeVars, threadVars, Service!Receive
  <2> QED
    BY <2>1 DEF Service!Next
<1>3. ASSUME NEW r \in Requests(c), Send(c, r) PROVE Service!Next
  <2>1. r \in Service!Requests
    BY DEF Requests, IpcRequests, SshRequests, Service!Requests
  <2>2. Due[c] \in {"none", "rejected"}
    <3>1. Server(c) \in Threads
      BY DEF Server, Threads
    <3> QED
      BY <1>3, <3>1 DEF Send, Due, ServiceInv, AskedInv
  <2>3. main = "join"
    BY <1>3 DEF Send, IndInv, SafeInv, QuietInv
  <2>4. Service!Ask(c)
    BY <1>3, <2>1, <2>2, <2>3, DueStays DEF Send, mainVars, storeVars, threadVars, Service!Ask
  <2> QED
    BY <2>4 DEF Service!Next
<1> QED
  BY <1>1, <1>2, <1>3 DEF ClientNext

\* Two threads, a mutex and any number of clients are one service that handles a
\* request at a time: every step of the daemon is a step of it, or none.
THEOREM ServersAreOneService == Spec => ImplementsService
<1>1. Init => Service!Init
  BY DEF Init, Service!Init, Service!Nothing, Due, Server, Threads
<1>2. IndInv /\ ServiceInv /\ OpenInv /\ [Next]_vars => [Service!Next]_serviceVars
  <2> SUFFICES ASSUME IndInv, ServiceInv, OpenInv, [Next]_vars
               PROVE  Service!Next \/ UNCHANGED serviceVars
    OBVIOUS
  <2>1. CASE UNCHANGED vars
    BY <2>1, DueStays DEF vars, mainVars, storeVars, threadVars, connVars, serviceVars
  <2> QED
    BY <2>1, MainMaps, ClientMaps, IpcMaps, SshMaps DEF Next
<1> QED
  BY <1>1, <1>2, IndInvHolds, ServiceInvHolds, OpenInvHolds, PTL
  DEF Spec, ImplementsService, Service!Spec, Service!vars, serviceVars

-----------------------------------------------------------------------------
(* Who waits for whom *)

\* A connection is in at most one place of the server, once (QueueInv), a request is
\* still what it was when the store is asked for (HandledInv), and main() waits only
\* for threads that it has started (JoinInv).
QueueInv ==
  \A t \in Threads :
    /\ client[t] # "none" => conn[client[t]] \in {"open", "shut"}
    /\ \A i \in DOMAIN backlog[t] :
         /\ conn[backlog[t][i]] \in {"open", "shut"}
         /\ backlog[t][i] # client[t]
         /\ \A j \in DOMAIN backlog[t] : backlog[t][i] = backlog[t][j] => i = j

HandledInv == \A t \in Threads : pc[t] \in {"want", "held"} => ask[client[t]] \in Handled(t)

JoinInv == main = "join" => \A t \in Threads : pc[t] # "off"

WaitInv == QueueInv /\ HandledInv /\ JoinInv

LEMMA ProcessEndsWait ==
  ASSUME IndInv, NEW how, ProcessEnds(how)
  PROVE  WaitInv'
BY DEF ProcessEnds, WaitInv, QueueInv, HandledInv, JoinInv

LEMMA ThreadEndsWait ==
  ASSUME IndInv, WaitInv, NEW t \in Threads, NEW c \in OwnConns(t) \cup {"none"},
         ThreadEnds(t, c)
  PROVE  WaitInv'
<1>1. \A u \in Threads \ {t} : \A d \in OwnConns(u) : ask'[d] = ask[d] /\ conn'[d] = conn[d]
  <2> SUFFICES ASSUME NEW u \in Threads \ {t}, NEW d \in OwnConns(u)
               PROVE  ask'[d] = ask[d] /\ conn'[d] = conn[d]
    OBVIOUS
  <2>1. backlog[t] \in Seq(OwnConns(t))
    BY DEF IndInv, SafeInv, OwnInv
  <2>2. d \in Conns /\ d # c /\ \A i \in DOMAIN backlog[t] : d # backlog[t][i]
    BY <2>1, OwnConnsApart
  <2> QED
    BY <2>2 DEF ThreadEnds
<1>2. /\ \A u \in Threads \ {t} : UNCHANGED <<pc[u], client[u], backlog[u]>>
      /\ client'[t] = "none" /\ backlog'[t] = <<>> /\ pc'[t] = "done"
      /\ main' = main
  BY DEF ThreadEnds, mainVars, IndInv, TypeOK
<1>3. \A u \in Threads : /\ client[u] # "none" => client[u] \in OwnConns(u)
                         /\ \A i \in DOMAIN backlog[u] : backlog[u][i] \in OwnConns(u)
  BY DEF IndInv, SafeInv, OwnInv
<1>4. QueueInv'
  BY <1>1, <1>2, <1>3 DEF WaitInv, QueueInv
<1>5. HandledInv'
  BY <1>1, <1>2, <1>3 DEF WaitInv, HandledInv, Handled, IndInv, SafeInv, ServesInv, Down
<1>6. JoinInv'
  BY <1>2 DEF WaitInv, JoinInv
<1> QED
  BY <1>4, <1>5, <1>6 DEF WaitInv

LEMMA MainWait ==
  ASSUME IndInv, WaitInv, MainNext \/ Kill \/ SystemdRestarts
  PROVE  WaitInv'
<1>1. CASE StartupStep
  BY <1>1 DEF StartupStep, After, Checks, threadVars, connVars, WaitInv, QueueInv, HandledInv,
              JoinInv, Handled
<1>2. CASE StartupFails \/ MainReturns \/ Kill
  BY <1>2, ProcessEndsWait DEF StartupFails, MainReturns, Kill
<1>3. CASE Spawn
  BY <1>3 DEF Spawn, connVars, IndInv, TypeOK, WaitInv, QueueInv, HandledInv, JoinInv
<1>4. CASE SystemdRestarts
  BY <1>4 DEF SystemdRestarts, threadVars, connVars, WaitInv, QueueInv, HandledInv, JoinInv, Handled
<1> QED
  BY <1>1, <1>2, <1>3, <1>4 DEF MainNext

LEMMA ClientWait ==
  ASSUME IndInv, WaitInv, NEW c \in Conns, ClientNext(c)
  PROVE  WaitInv'
<1>0. \A t \in Threads : /\ client[t] \in Conns \cup {"none"}
                         /\ \A i \in DOMAIN backlog[t] : backlog[t][i] \in Conns
  BY OwnConnsApart DEF IndInv, SafeInv, OwnInv
<1> USE DEF mainVars, threadVars
<1>1. CASE Connect(c)
  <2>1. /\ Server(c) \in Threads /\ conn[c] = "new"
        /\ \A t \in Threads : client[t] # c /\ \A i \in DOMAIN backlog[t] : backlog[t][i] # c
    BY <1>1, ConnsAssumption DEF Connect, Server, Threads, WaitInv, QueueInv
  <2>2. /\ \A t \in Threads \ {Server(c)} : backlog'[t] = backlog[t]
        /\ backlog'[Server(c)] = Append(backlog[Server(c)], c)
        /\ conn' = [conn EXCEPT ![c] = "open"]
        /\ UNCHANGED <<main, pc, client, ask>>
    BY <1>1, <2>1 DEF Connect, IndInv, TypeOK
  <2>3. backlog[Server(c)] \in Seq(Conns)
    BY <2>1 DEF IndInv, TypeOK
  <2>4. ASSUME NEW t \in Threads, NEW i \in DOMAIN backlog'[t]
        PROVE  \/ i \in DOMAIN backlog[t] /\ backlog'[t][i] = backlog[t][i]
               \/ /\ t = Server(c) /\ i \notin DOMAIN backlog[t] /\ i = Len(backlog[t]) + 1
                  /\ backlog'[t][i] = c
    BY <2>1, <2>2, <2>3
  <2>5. QueueInv'
    <3> SUFFICES ASSUME NEW t \in Threads
                 PROVE  /\ client'[t] # "none" => conn'[client'[t]] \in {"open", "shut"}
                        /\ \A i \in DOMAIN backlog'[t] :
                             /\ conn'[backlog'[t][i]] \in {"open", "shut"}
                             /\ backlog'[t][i] # client'[t]
                             /\ \A j \in DOMAIN backlog'[t] :
                                  backlog'[t][i] = backlog'[t][j] => i = j
      BY DEF QueueInv
    <3>1. /\ conn'[c] = "open" /\ \A d \in Conns \ {c} : conn'[d] = conn[d]
      BY <2>2 DEF IndInv, TypeOK
    <3>2. client'[t] # "none" => conn'[client'[t]] \in {"open", "shut"}
      BY <1>0, <2>1, <2>2, <3>1 DEF WaitInv, QueueInv
    <3>3. ASSUME NEW i \in DOMAIN backlog'[t]
          PROVE  conn'[backlog'[t][i]] \in {"open", "shut"} /\ backlog'[t][i] # client'[t]
      BY <1>0, <2>1, <2>2, <2>4, <3>1 DEF WaitInv, QueueInv
    <3>4. ASSUME NEW i \in DOMAIN backlog'[t], NEW j \in DOMAIN backlog'[t],
                 backlog'[t][i] = backlog'[t][j]
          PROVE  i = j
      <4>1. CASE i \in DOMAIN backlog[t] /\ j \in DOMAIN backlog[t]
        <5>1. backlog[t][i] = backlog[t][j]
          BY <2>4, <3>4, <4>1
        <5> QED
          BY <4>1, <5>1 DEF WaitInv, QueueInv
      <4>2. CASE i \notin DOMAIN backlog[t] \/ j \notin DOMAIN backlog[t]
        BY <2>1, <2>4, <3>4, <4>2
      <4> QED
        BY <4>1, <4>2
    <3> QED
      BY <3>2, <3>3, <3>4
  <2> QED
    BY <2>2, <2>5 DEF WaitInv, HandledInv, JoinInv, Handled
<1>2. CASE Receive(c)
  BY <1>2 DEF Receive, WaitInv, QueueInv, HandledInv, JoinInv, Handled
<1>3. CASE HangUp(c)
  <2>1. QueueInv'
    BY <1>0, <1>3 DEF HangUp, IndInv, TypeOK, WaitInv, QueueInv
  <2> QED
    BY <1>3, <2>1 DEF HangUp, WaitInv, HandledInv, JoinInv, Handled
<1>4. ASSUME NEW r \in Requests(c), Send(c, r) PROVE WaitInv'
  <2>1. \A t \in Threads : pc[t] \in {"want", "held"} => client[t] # c
    BY <1>4 DEF Send, WaitInv, HandledInv, Handled
  <2> QED
    BY <1>0, <1>4, <2>1 DEF Send, IndInv, TypeOK, WaitInv, QueueInv, HandledInv, JoinInv, Handled
<1>5. CASE \E program \in Programs : PeerChanges(c, program)
  BY <1>5 DEF PeerChanges, WaitInv, QueueInv, HandledInv, JoinInv, Handled
<1> QED
  BY <1>1, <1>2, <1>3, <1>4, <1>5 DEF ClientNext

\* A step of a thread between its requests, or within one, that leaves the
\* connections alone.
LEMMA InnerWait ==
  ASSUME IndInv, WaitInv, NEW t \in Threads, NEW p, pc' = [pc EXCEPT ![t] = p],
         p # "off", p \in {"want", "held"} => ask[client[t]] \in Handled(t),
         UNCHANGED <<mainVars, client, backlog, conn, ask>>
  PROVE  WaitInv'
<1>1. QueueInv'
  BY DEF WaitInv, QueueInv
<1>2. \A u \in Threads : pc'[u] = IF u = t THEN p ELSE pc[u]
  BY DEF IndInv, TypeOK
<1>3. HandledInv'
  BY <1>2 DEF WaitInv, HandledInv, Handled
<1>4. JoinInv'
  BY <1>2 DEF mainVars, WaitInv, JoinInv
<1> QED
  BY <1>1, <1>3, <1>4 DEF WaitInv

LEMMA CommonWait ==
  ASSUME IndInv, WaitInv, NEW t \in Threads, CommonNext(t)
  PROVE  WaitInv'
<1>1. CASE BindFails(t) \/ TakePoisonedStore(t)
  BY <1>1, ThreadEndsWait DEF BindFails, TakePoisonedStore, IndInv, SafeInv, OwnInv
<1>2. CASE Bind(t) \/ TakeStore(t) \/ Release(t)
  <2>1. /\ \E p \in {"accept", "held", "reply"} :
             pc' = [pc EXCEPT ![t] = p] /\ (p = "held" => pc[t] = "want")
        /\ UNCHANGED <<mainVars, client, backlog, conn, ask>>
    BY <1>2 DEF Bind, TakeStore, Release, connVars
  <2> QED
    BY <2>1, InnerWait DEF WaitInv, HandledInv
<1>3. CASE Accept(t)
  <2> DEFINE q == backlog[t]
  <2>1. /\ q \in Seq(Conns) /\ q # <<>>
        /\ client' = [client EXCEPT ![t] = Head(q)]
        /\ backlog' = [backlog EXCEPT ![t] = Tail(q)]
        /\ UNCHANGED <<main, conn, ask>>
        /\ \E p \in {"verify", "read"} : pc' = [pc EXCEPT ![t] = p]
    BY <1>3 DEF Accept, mainVars, IndInv, TypeOK
  <2>2. /\ Head(q) = q[1] /\ 1 \in DOMAIN q
        /\ \A i \in DOMAIN Tail(q) : i + 1 \in DOMAIN q /\ i \in Nat /\ i + 1 # 1
                                     /\ Tail(q)[i] = q[i + 1]
    BY <2>1
  <2>3. client'[t] = q[1] /\ backlog'[t] = Tail(q)
    BY <2>1, <2>2 DEF IndInv, TypeOK
  <2>4. \A i \in DOMAIN q : /\ conn[q[i]] \in {"open", "shut"}
                            /\ \A j \in DOMAIN q : q[i] = q[j] => i = j
    BY DEF WaitInv, QueueInv
  <2>5. conn'[client'[t]] \in {"open", "shut"}
    BY <2>1, <2>2, <2>3, <2>4
  <2>6. ASSUME NEW i \in DOMAIN backlog'[t]
        PROVE  /\ conn'[backlog'[t][i]] \in {"open", "shut"}
               /\ backlog'[t][i] # client'[t]
               /\ \A j \in DOMAIN backlog'[t] : backlog'[t][i] = backlog'[t][j] => i = j
    <3>1. i + 1 \in DOMAIN q /\ backlog'[t][i] = q[i + 1] /\ i \in Nat /\ i + 1 # 1
      BY <2>2, <2>3, <2>6
    <3>2. conn'[backlog'[t][i]] \in {"open", "shut"} /\ backlog'[t][i] # client'[t]
      BY <2>1, <2>2, <2>3, <2>4, <3>1
    <3>3. ASSUME NEW j \in DOMAIN backlog'[t], backlog'[t][i] = backlog'[t][j] PROVE i = j
      <4>1. j + 1 \in DOMAIN q /\ q[j + 1] = q[i + 1] /\ j \in Nat
        BY <2>2, <2>3, <3>1, <3>3
      <4>2. i + 1 = j + 1
        BY <2>4, <3>1, <4>1
      <4> QED
        BY <3>1, <4>1, <4>2
    <3> QED
      BY <3>2, <3>3
  <2>7. QueueInv'
    BY <2>1, <2>5, <2>6 DEF IndInv, TypeOK, WaitInv, QueueInv
  <2> QED
    BY <2>1, <2>7 DEF IndInv, TypeOK, WaitInv, HandledInv, JoinInv, Handled
<1> QED
  BY <1>1, <1>2, <1>3 DEF CommonNext

LEMMA DropWait ==
  ASSUME IndInv, WaitInv, NEW t \in Threads, pc[t] \in {"read", "reply"},
         DropConn(client[t]), NextConn(t), UNCHANGED <<mainVars, backlog>>
  PROVE  WaitInv'
<1>1. client[t] \in OwnConns(t) /\ client[t] \in Conns
  BY OwnConnsApart DEF IndInv, SafeInv, OwnInv, ServesInv, Down
<1>2. \A d \in Conns \ {client[t]} : ask'[d] = ask[d] /\ conn'[d] = conn[d]
  BY DEF DropConn, IndInv, TypeOK
<1>3. \A u \in Threads : /\ client[u] # "none" => client[u] \in Conns
                         /\ \A i \in DOMAIN backlog[u] : /\ backlog[u][i] \in Conns
                                                         /\ backlog[u][i] # client[t]
  BY <1>1, OwnConnsApart DEF IndInv, SafeInv, OwnInv, WaitInv, QueueInv
<1>4. /\ \A u \in Threads \ {t} : /\ UNCHANGED <<pc[u], client[u]>>
                                  /\ client[u] # client[t]
      /\ client'[t] = "none" /\ pc'[t] = "accept" /\ UNCHANGED <<main, backlog>>
  BY <1>1, OwnConnsApart DEF NextConn, mainVars, IndInv, SafeInv, OwnInv, TypeOK
<1>5. QueueInv'
  <2> SUFFICES ASSUME NEW u \in Threads
               PROVE  /\ client'[u] # "none" => conn'[client'[u]] \in {"open", "shut"}
                      /\ \A i \in DOMAIN backlog'[u] :
                           /\ conn'[backlog'[u][i]] \in {"open", "shut"}
                           /\ backlog'[u][i] # client'[u]
                           /\ \A j \in DOMAIN backlog'[u] :
                                backlog'[u][i] = backlog'[u][j] => i = j
    BY DEF QueueInv
  <2>1. client'[u] # "none" => client'[u] = client[u] /\ client[u] \in Conns \ {client[t]}
    BY <1>3, <1>4
  <2>2. client'[u] # "none" => conn'[client'[u]] \in {"open", "shut"}
    BY <1>2, <2>1 DEF WaitInv, QueueInv
  <2>3. ASSUME NEW i \in DOMAIN backlog[u]
        PROVE  /\ conn'[backlog[u][i]] \in {"open", "shut"}
               /\ backlog[u][i] # client'[u]
               /\ \A j \in DOMAIN backlog[u] : backlog[u][i] = backlog[u][j] => i = j
    BY <1>2, <1>3, <2>1, ConnsAssumption DEF WaitInv, QueueInv
  <2> QED
    BY <1>4, <2>2, <2>3
<1>6. HandledInv'
  BY <1>2, <1>3, <1>4 DEF WaitInv, HandledInv, Handled, IndInv, SafeInv, ServesInv, Down
<1> QED
  BY <1>4, <1>5, <1>6 DEF WaitInv, JoinInv

LEMMA IpcWait ==
  ASSUME IndInv, ServiceInv, WaitInv, IpcNext
  PROVE  WaitInv'
<1>0. "ipc" \in Threads
  BY DEF Threads
<1>1. CASE CommonNext("ipc")
  BY <1>0, <1>1, CommonWait
<1>2. CASE PeerCredFails \/ IpcSignPanics
  BY <1>0, <1>2, ThreadEndsWait DEF PeerCredFails, IpcSignPanics, IndInv, SafeInv, OwnInv
<1>3. CASE Verified \/ Rejected \/ IpcLoadKey
  <2>1. /\ \E p \in {"read", "reply", "signing"} : pc' = [pc EXCEPT !["ipc"] = p]
        /\ UNCHANGED <<mainVars, client, backlog, conn, ask>>
    BY <1>3 DEF Verified, Rejected, IpcLoadKey, LoadKey, connVars
  <2> QED
    BY <1>0, <2>1, InnerWait
<1>4. CASE IpcRead
  <2>1. client["ipc"] \in IpcConns
    BY <1>0, <1>4, OwnConnsApart DEF IpcRead, IndInv, SafeInv, OwnInv, ServesInv, Down
  <2>2. ask[client["ipc"]] \in IpcRequests \cup {"none"}
    BY <2>1 DEF ServiceInv, TurnInv, Requests, Conns
  <2>3. /\ \E p \in {"want", "reply"} :
             /\ pc' = [pc EXCEPT !["ipc"] = p]
             /\ p = "want" => ask[client["ipc"]] \notin {"ping", "bad", "none"}
        /\ UNCHANGED <<mainVars, client, backlog, conn, ask>>
    BY <1>4 DEF IpcRead, connVars
  <2> QED
    BY <1>0, <2>2, <2>3, InnerWait DEF IpcRequests, Handled
<1>5. CASE IpcStatus \/ IpcLock \/ IpcList \/ IpcCannotSign \/ IpcSign
  <2>1. /\ pc' = [pc EXCEPT !["ipc"] = "release"]
        /\ UNCHANGED <<mainVars, client, backlog, conn, ask>>
    BY <1>5 DEF IpcStatus, IpcLock, IpcList, IpcCannotSign, IpcSign, Answer, connVars
  <2> QED
    BY <1>0, <2>1, InnerWait
<1>6. CASE IpcReply
  BY <1>0, <1>6, DropWait DEF IpcReply
<1> QED
  BY <1>1, <1>2, <1>3, <1>4, <1>5, <1>6 DEF IpcNext

LEMMA SshWait ==
  ASSUME IndInv, WaitInv, SshNext
  PROVE  WaitInv'
<1>0. "ssh" \in Threads
  BY DEF Threads
<1>1. CASE CommonNext("ssh")
  BY <1>0, <1>1, CommonWait
<1>2. CASE SshRead
  <2>1. /\ \E p \in {"want", "reply"} :
             /\ pc' = [pc EXCEPT !["ssh"] = p]
             /\ p = "want" => ask[client["ssh"]] \in {"identities", "sign"}
        /\ UNCHANGED <<mainVars, client, backlog, conn, ask>>
    BY <1>2 DEF SshRead, connVars
  <2> QED
    BY <1>0, <2>1, InnerWait DEF Handled
<1>3. CASE SshDrop
  BY <1>0, <1>3, DropWait DEF SshDrop
<1>4. CASE SshIdentities \/ SshLoadKey \/ SshCannotSign \/ SshSign
  <2>1. /\ \E p \in {"signing", "release"} : pc' = [pc EXCEPT !["ssh"] = p]
        /\ UNCHANGED <<mainVars, client, backlog, conn, ask>>
    BY <1>4 DEF SshIdentities, SshLoadKey, LoadKey, SshCannotSign, SshSign, Answer, connVars
  <2> QED
    BY <1>0, <2>1, InnerWait
<1>5. CASE SshReply
  <2>1. CASE conn[client["ssh"]] = "open"
    <3>1. /\ pc["ssh"] = "reply"
          /\ ask' = [ask EXCEPT ![client["ssh"]] = "none"]
          /\ pc' = [pc EXCEPT !["ssh"] = "read"]
          /\ UNCHANGED <<main, client, backlog, conn>>
      BY <1>5, <2>1 DEF SshReply, mainVars
    <3>2. client["ipc"] # client["ssh"] \/ client["ipc"] = "none"
      BY <1>0, OwnConnsApart DEF IndInv, SafeInv, OwnInv, Threads
    <3>3. HandledInv'
      BY <3>1, <3>2 DEF WaitInv, HandledInv, Handled, IndInv, SafeInv, ServesInv, TypeOK, Threads, Down
    <3> QED
      BY <3>1, <3>3 DEF IndInv, TypeOK, WaitInv, QueueInv, JoinInv
  <2>2. CASE conn[client["ssh"]] # "open"
    BY <1>0, <1>5, <2>2, DropWait DEF SshReply
  <2> QED
    BY <2>1, <2>2
<1> QED
  BY <1>1, <1>2, <1>3, <1>4, <1>5 DEF SshNext

THEOREM WaitInvHolds == Spec => []WaitInv
<1>1. Init => WaitInv
  BY DEF Init, WaitInv, QueueInv, HandledInv, JoinInv
<1>2. IndInv /\ ServiceInv /\ WaitInv /\ [Next]_vars => WaitInv'
  <2> SUFFICES ASSUME IndInv, ServiceInv, WaitInv, [Next]_vars PROVE WaitInv'
    OBVIOUS
  <2>1. CASE UNCHANGED vars
    BY <2>1 DEF vars, mainVars, threadVars, connVars, WaitInv, QueueInv, HandledInv, JoinInv, Handled
  <2> QED
    BY <2>1, MainWait, ClientWait, IpcWait, SshWait DEF Next
<1> QED
  BY <1>1, <1>2, IndInvHolds, ServiceInvHolds, PTL DEF Spec

\* The only thing the servers ever wait for is a client, whatever the clients do:
\* there is no deadlock between them, and a lost connection leaves none behind.
THEOREM ServersDoNotBlockEachOther == Spec => []OnlyClientsKeepServersWaiting
<1>1. IndInv /\ ServiceInv /\ WaitInv => OnlyClientsKeepServersWaiting
  <2> SUFFICES ASSUME IndInv, ServiceInv, WaitInv, main = "join", NEW t \in Threads,
                      pc[t] # "done", ~WaitsForClient(t), ~CanGoOn(t)
               PROVE  pc[t] = "want" /\ \E u \in Threads \ {t} : mutex = u /\ CanGoOn(u)
    BY DEF OnlyClientsKeepServersWaiting
  <2>1. pc[t] = "read" => conn[client[t]] \in {"open", "shut"}
    BY DEF WaitInv, QueueInv, IndInv, SafeInv, ServesInv, Down
  <2>2. pc[t] = "want" /\ mutex # "free"
    BY <2>1 DEF CanGoOn, WaitsForClient, WaitInv, HandledInv, JoinInv
  <2>3. PICK u \in Threads : mutex = u
    BY <2>2 DEF IndInv, TypeOK
  <2>4. pc[u] \in InStore /\ u # t
    BY <2>2, <2>3 DEF IndInv, SafeInv, GuardInv, InStore
  <2>5. CanGoOn(u)
    BY <2>4 DEF CanGoOn, InStore, WaitInv, HandledInv
  <2> QED
    BY <2>2, <2>3, <2>4, <2>5
<1> QED
  BY <1>1, IndInvHolds, ServiceInvHolds, WaitInvHolds, PTL
=============================================================================
