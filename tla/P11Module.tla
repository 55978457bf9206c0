----------------------------- MODULE P11Module -----------------------------
(***************************************************************************)
(* cone-p11, the PKCS#11 module: what its C_* functions do with the state  *)
(* that all threads of the host program share, and with the one cached     *)
(* connection to coned.                                                    *)
(*                                                                         *)
(* STATE is held over a whole list request, CONNECTION while an answer is  *)
(* read but not between a request and its answer; FIND_POSITION is never   *)
(* held over a wait.  The daemon is external: it may refuse a connection,  *)
(* answers at most once on each, with any answer, and closes it at any     *)
(* time.  A certificate is its place in the list; it has two objects.      *)
(* ModuleState.initialised is never read and is left out.                  *)
(***************************************************************************)
EXTENDS Integers, Sequences

CONSTANTS
  Threads,    \* threads of the host program
  Data,       \* what it has signed
  MaxCerts,   \* certificates a list may have
  MaxBatch    \* objects a C_FindObjects may ask for

ASSUME MaxCertsAssumption == MaxCerts \in Nat
ASSUME MaxBatchAssumption == MaxBatch \in Nat \ {0}

None == "none"
List == "list"
ASSUME DataAssumption == List \notin Data
ASSUME ThreadsAssumption == None \notin Threads

Requests == {List} \cup Data
Handles == 0..(2 * MaxCerts - 1)

\* A Response: what it answers, whether it is the success cone-p11 can decode, its list.
Answers == [to : Requests, ok : BOOLEAN, certs : 0..MaxCerts]
Failed == [to |-> List, ok |-> FALSE, certs |-> 0]

\* A stream: the requests coned has not read, its answer if the module has not read it,
\* whether it has answered, whether its end is open.
Streams == [unread : Seq(Requests), answer : {<<>>} \cup {<<a>> : a \in Answers},
            answered : BOOLEAN, up : BOOLEAN]
Fresh == [unread |-> <<>>, answer |-> <<>>, answered |-> FALSE, up |-> TRUE]
NoStream == [Fresh EXCEPT !.up = FALSE]

VARIABLES
  certs,       \* STATE: length of its list
  signHandle,  \* STATE: has a C_SignInit set it?  Which one it is goes nowhere.
  stateBy,     \* who holds STATE over a request, or none
  position,    \* FIND_POSITION
  cached,      \* is there a connection in CONNECTION?
  conn,        \* that connection
  lineBy,      \* who holds CONNECTION while it reads, or none
  pc, call,    \* per thread: its next step, the function it is in
  asked,       \* its request
  mixed,       \* ghost: has another thread's request overlapped with it?
  disorder,    \* ghost: has the host called C_Finalize while another call was going on?
  search,      \* ghost: has it a search going on that no other disturbed: off, on, end
  found        \* ghost: the handles that search has found

state == <<certs, signHandle, stateBy, position>>
line == <<cached, conn, lineBy>>
thread == <<pc, call, asked, mixed>>
ghosts == <<search, found>>
vars == <<state, line, thread, disorder, ghosts>>

\* The other functions of the list only read the state, or none of it.
Functions == {"C_Initialize", "C_FindObjectsInit", "C_FindObjects", "C_SignInit", "C_Sign",
              "C_Finalize"}
Listing(t) == call[t] \in {"C_Initialize", "C_FindObjectsInit"}

\* In send_request or recv_response.
Exchanging(t) == pc[t] \in {"connect", "send", "recv", "read"}

TypeOK ==
  /\ certs \in 0..MaxCerts /\ signHandle \in BOOLEAN
  /\ stateBy \in Threads \cup {None} /\ lineBy \in Threads \cup {None}
  /\ position \in 0..(2 * MaxCerts)
  /\ cached \in BOOLEAN /\ conn \in Streams
  /\ pc \in [Threads -> {"idle", "enter", "connect", "send", "recv", "read", "rewind",
                         "hangup", "clear"}]
  /\ call \in [Threads -> Functions \cup {None}]
  /\ asked \in [Threads -> Requests]
  /\ mixed \in [Threads -> BOOLEAN] /\ disorder \in BOOLEAN
  /\ search \in [Threads -> {"off", "on", "end"}]
  /\ found \in [Threads -> SUBSET Handles]

Init ==
  /\ certs = 0 /\ signHandle = FALSE /\ stateBy = None /\ position = 0
  /\ cached = FALSE /\ conn = NoStream /\ lineBy = None
  /\ pc = [t \in Threads |-> "idle"] /\ call = [t \in Threads |-> None]
  /\ asked = [t \in Threads |-> List]
  /\ mixed = [t \in Threads |-> FALSE] /\ disorder = FALSE
  /\ search = [t \in Threads |-> "off"] /\ found = [t \in Threads |-> {}]

Goes(t, to) == pc' = [pc EXCEPT ![t] = to]

\* The function returns.
Returns(t) ==
  /\ Goes(t, "idle")
  /\ call' = [call EXCEPT ![t] = None]
  /\ asked' = [asked EXCEPT ![t] = List]
  /\ mixed' = [mixed EXCEPT ![t] = FALSE]

\* What t does to the list or the position disturbs every search but its own.
SearchBecomes(t, how, handles) ==
  /\ search' = [u \in Threads |-> IF u = t THEN how ELSE "off"]
  /\ found' = [u \in Threads |-> IF u = t THEN handles ELSE {}]

-----------------------------------------------------------------------------
(* The host calls a function; each but C_Finalize begins at STATE. *)

Call(t, f, d) ==
  /\ pc[t] = "idle"
  /\ disorder' = (disorder \/ \E u \in Threads : /\ pc[u] # "idle"
                                                /\ "C_Finalize" \in {f, call[u]})
  /\ call' = [call EXCEPT ![t] = f]
  /\ asked' = [asked EXCEPT ![t] = IF f = "C_Sign" THEN d ELSE List]
  /\ Goes(t, IF f = "C_Finalize" THEN "hangup" ELSE "enter")
  /\ UNCHANGED <<state, line, mixed, ghosts>>

Enters(t, f) == pc[t] = "enter" /\ call[t] = f /\ stateBy = None

StartsExchange(t) ==
  /\ Goes(t, "connect")
  /\ mixed' = [u \in Threads |->
       IF u = t THEN \E v \in Threads \ {t} : Exchanging(v)
       ELSE mixed[u] \/ Exchanging(u)]

\* C_Initialize and C_FindObjectsInit keep STATE and call list_certs.
LockState(t) ==
  /\ \E f \in {"C_Initialize", "C_FindObjectsInit"} : Enters(t, f)
  /\ stateBy' = t
  /\ StartsExchange(t)
  /\ UNCHANGED <<certs, signHandle, position, line, call, asked, ghosts>>

\* Mutant: off by one, the loop goes one past the last object.
FindObjectsPast(t, max) ==
  /\ Enters(t, "C_FindObjects")
  /\ LET end == IF position + max <= 2 * certs THEN position + max ELSE 2 * certs + 1
         batch == position..(end - 1)
     IN /\ position' = IF end > position THEN end ELSE position
        /\ IF search[t] = "on"
           THEN SearchBecomes(t, IF end - position < max THEN "end" ELSE "on",
                              found[t] \cup batch)
           ELSE SearchBecomes(t, "off", {})
  /\ Returns(t)
  /\ UNCHANGED <<certs, signHandle, stateBy, line>>

\* The next handles, up to max and to the end of the list.
FindObjects(t, max) ==
  /\ Enters(t, "C_FindObjects")
  /\ LET end == IF position + max < 2 * certs THEN position + max ELSE 2 * certs
         batch == position..(end - 1)
     IN /\ position' = IF end > position THEN end ELSE position
        /\ IF search[t] = "on"
           THEN SearchBecomes(t, IF end - position < max THEN "end" ELSE "on",
                              found[t] \cup batch)
           ELSE SearchBecomes(t, "off", {})
  /\ Returns(t)
  /\ UNCHANGED <<certs, signHandle, stateBy, line>>

SignInit(t, h) ==
  /\ Enters(t, "C_SignInit")
  /\ signHandle' = (signHandle \/ h < 2 * certs)
  /\ Returns(t)
  /\ UNCHANGED <<certs, stateBy, position, line, ghosts>>

\* C_Sign lets go of STATE before it asks coned.
Sign(t) ==
  /\ Enters(t, "C_Sign")
  /\ \/ ~signHandle /\ Returns(t) /\ UNCHANGED ghosts
     \/ signHandle /\ StartsExchange(t) /\ UNCHANGED <<call, asked, ghosts>>
  /\ UNCHANGED <<state, line>>

-----------------------------------------------------------------------------
(* ipc.rs *)

\* send_request or recv_response returns; a lister keeps the list, or none, and lets
\* go of STATE.
Finish(t, answer) ==
  /\ UNCHANGED <<signHandle, position>>
  /\ \/ /\ Listing(t)
        /\ certs' = IF answer.ok THEN answer.certs ELSE 0
        /\ stateBy' = None
        /\ SearchBecomes(t, "off", {})
        /\ IF call[t] = "C_FindObjectsInit"
           THEN Goes(t, "rewind") /\ UNCHANGED <<call, asked, mixed>>
           ELSE Returns(t)
     \/ ~Listing(t) /\ Returns(t) /\ UNCHANGED <<certs, stateBy, ghosts>>

GoesOn(t, to) == Goes(t, to) /\ UNCHANGED <<state, call, asked, mixed, ghosts>>

\* get_connection
Connect(t) ==
  /\ pc[t] = "connect" /\ lineBy = None
  /\ \/ cached /\ GoesOn(t, "send") /\ UNCHANGED line
     \/ ~cached /\ cached' = TRUE /\ conn' = Fresh /\ GoesOn(t, "send") /\ UNCHANGED lineBy
     \/ ~cached /\ Finish(t, Failed) /\ UNCHANGED line

\* Mutant: send_request keeps the guard of CONNECTION for recv_response.
SendKeepsLine(t) ==
  /\ pc[t] = "send" /\ lineBy = None
  /\ \/ /\ cached /\ conn.up
        /\ conn' = [conn EXCEPT !.unread = Append(@, asked[t])]
        /\ lineBy' = t
        /\ GoesOn(t, "recv")
     \/ ~(cached /\ conn.up) /\ Finish(t, Failed) /\ UNCHANGED <<conn, lineBy>>
  /\ UNCHANGED cached

\* A write to a connection that coned has closed fails, and the connection stays.
Send(t) ==
  /\ pc[t] = "send" /\ lineBy = None
  /\ \/ /\ cached /\ conn.up
        /\ conn' = [conn EXCEPT !.unread = Append(@, asked[t])]
        /\ GoesOn(t, "recv")
     \/ ~(cached /\ conn.up) /\ Finish(t, Failed) /\ UNCHANGED conn
  /\ UNCHANGED <<cached, lineBy>>

Receive(t) ==
  /\ pc[t] = "recv" /\ lineBy = None
  /\ \/ cached /\ lineBy' = t /\ GoesOn(t, "read")
     \/ ~cached /\ Finish(t, Failed) /\ UNCHANGED lineBy
  /\ UNCHANGED <<cached, conn>>

\* An answer of the wrong kind is a protocol error.
Decoded(t, answer) ==
  IF answer.ok /\ (answer.to = List) = Listing(t) THEN answer ELSE Failed

\* Mutant: a read that would block fails.
ReadOrGiveUp(t) ==
  /\ pc[t] = "read" /\ lineBy' = None
  /\ \/ /\ conn.answer # <<>>
        /\ conn' = [conn EXCEPT !.answer = <<>>]
        /\ Finish(t, Decoded(t, Head(conn.answer)))
     \/ conn.answer = <<>> /\ Finish(t, Failed) /\ UNCHANGED conn
  /\ UNCHANGED cached

\* Mutant: the end of the stream is read again and again.
ReadPastEnd(t) ==
  /\ pc[t] = "read"
  /\ \/ /\ conn.answer # <<>>
        /\ lineBy' = None /\ conn' = [conn EXCEPT !.answer = <<>>]
        /\ Finish(t, Decoded(t, Head(conn.answer)))
     \/ conn.answer = <<>> /\ ~conn.up /\ UNCHANGED <<state, line, thread, ghosts>>
  /\ UNCHANGED cached

\* read_exact waits for the answer or the end of the stream.
Read(t) ==
  /\ pc[t] = "read" /\ lineBy' = None
  /\ \/ /\ conn.answer # <<>>
        /\ conn' = [conn EXCEPT !.answer = <<>>]
        /\ Finish(t, Decoded(t, Head(conn.answer)))
     \/ conn.answer = <<>> /\ ~conn.up /\ Finish(t, Failed) /\ UNCHANGED conn
  /\ UNCHANGED cached

-----------------------------------------------------------------------------

\* Mutant: the position is not reset.
RewindForgotten(t) ==
  /\ pc[t] = "rewind"
  /\ SearchBecomes(t, "on", {})
  /\ Returns(t)
  /\ UNCHANGED <<state, line>>

\* The end of C_FindObjectsInit.
Rewind(t) ==
  /\ pc[t] = "rewind"
  /\ position' = 0
  /\ SearchBecomes(t, "on", {})
  /\ Returns(t)
  /\ UNCHANGED <<certs, signHandle, stateBy, line>>

\* C_Finalize: disconnect, then STATE; the key of C_SignInit stays.
HangUp(t) ==
  /\ pc[t] = "hangup" /\ lineBy = None
  /\ cached' = FALSE /\ conn' = NoStream
  /\ GoesOn(t, "clear")
  /\ UNCHANGED lineBy

Clear(t) ==
  /\ pc[t] = "clear" /\ stateBy = None
  /\ certs' = 0
  /\ SearchBecomes(t, "off", {})
  /\ Returns(t)
  /\ UNCHANGED <<signHandle, stateBy, position, line>>

-----------------------------------------------------------------------------
(* coned, at the other end of the cached connection *)

\* It answers the first request, or refuses before it has read one.
DaemonAnswers ==
  /\ cached /\ conn.up /\ ~conn.answered
  /\ \/ \E n \in 0..MaxCerts :
          /\ conn.unread # <<>>
          /\ Head(conn.unread) # List => n = 0
          /\ conn' = [conn EXCEPT !.answered = TRUE, !.unread = Tail(@),
                        !.answer = <<[to |-> Head(conn.unread), ok |-> TRUE, certs |-> n]>>]
     \/ conn' = [conn EXCEPT !.answered = TRUE, !.answer = <<Failed>>]
  /\ UNCHANGED <<cached, lineBy, state, thread, disorder, ghosts>>

DaemonCloses ==
  /\ cached /\ conn.up
  /\ conn' = [conn EXCEPT !.up = FALSE, !.unread = <<>>]
  /\ UNCHANGED <<cached, lineBy, state, thread, disorder, ghosts>>

Exchange(t) == Connect(t) \/ Send(t) \/ Receive(t) \/ Read(t)
Step(t) ==
  /\ UNCHANGED disorder
  /\ \/ LockState(t) \/ Sign(t) \/ Exchange(t) \/ Rewind(t) \/ HangUp(t) \/ Clear(t)
     \/ \E max \in 1..MaxBatch : FindObjects(t, max)
     \/ \E h \in Handles : SignInit(t, h)

Next ==
  \/ \E t \in Threads : Step(t) \/ \E f \in Functions, d \in Data : Call(t, f, d)
  \/ DaemonAnswers \/ DaemonCloses

Spec == Init /\ [][Next]_vars

\* The kernel schedules the threads of the host.  A mutex is given to any thread that
\* asks, and nothing is assumed of coned, whose server may be with another client.
FairSpec == Spec /\ \A t \in Threads : WF_vars(Step(t))

-----------------------------------------------------------------------------
(* Properties *)

\* The answer a thread reads is to its own request if no other one overlapped with it:
\* the cached connection never holds what was left of an earlier call (ipc.rs:15, 109-138).
OwnAnswer ==
  \A t \in Threads :
    pc[t] = "read" /\ ~mixed[t] /\ conn.answer # <<>> /\ Head(conn.answer).ok
      => Head(conn.answer).to = asked[t]

\* A search that no other thread disturbed ends with every object of the list, however
\* it is cut into batches (pkcs11_impl.rs:393-415).
SearchIsComplete ==
  [][\A t \in Threads : search[t] = "on" /\ search'[t] = "end"
                          => found'[t] = 0..(2 * certs - 1)]_vars

WaitsForState(t) == pc[t] \in {"enter", "clear"} /\ stateBy # None
WaitsForLine(t)  == pc[t] \in {"connect", "send", "recv", "hangup"} /\ lineBy # None
WaitsForAnswer(t) == pc[t] = "read" /\ conn.answer = <<>> /\ conn.up

\* STATE is kept over the wait for CONNECTION, and CONNECTION over the wait for coned,
\* never the other way round: who holds STATE is asking coned, who holds CONNECTION is
\* reading from it, and a reader has a request there, or an answer that was its last, if
\* C_Finalize was called only when no other call was going on (ipc.rs:109-138,
\* pkcs11_impl.rs:246-251).
WaitsEndAtDaemon ==
  \A t \in Threads :
    /\ WaitsForState(t) => Exchanging(stateBy)
    /\ WaitsForLine(t) => pc[lineBy] = "read"
    /\ WaitsForAnswer(t) /\ ~disorder => conn.unread # <<>> \/ conn.answered

\* coned leaves a request unread, or a connection it has answered open, for ever.
Abandoned == <>[](conn.up /\ conn.answer = <<>> /\ (conn.unread # <<>> \/ conn.answered))

\* A thread waits for ever for a mutex that is free again and again: others always take
\* it first.
Starved(t) ==
  \/ <>[](pc[t] \in {"enter", "clear"}) /\ []<>(stateBy = None)
  \/ <>[](pc[t] \in {"connect", "send", "recv", "hangup"}) /\ []<>(lineBy = None)

\* A call that never returns is coned's doing or the scheduler's, never that of STATE
\* held over a request and CONNECTION over the wait for its answer, of a connection that
\* coned closed or of what an earlier call left in it (pkcs11_impl.rs:246-251,
\* ipc.rs:109-138), if the host calls C_Finalize only when no other call is going on, as
\* PKCS#11 has it do.
CallsReturn ==
  \A t \in Threads : []<>(pc[t] = "idle") \/ <>disorder \/ Abandoned \/ Starved(t)
=============================================================================
