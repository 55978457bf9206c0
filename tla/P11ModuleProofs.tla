-------------------------- MODULE P11ModuleProofs --------------------------
(***************************************************************************)
(* The PKCS#11 module, for any number of threads, certificates and batch   *)
(* sizes: a call that overlaps with no other reads the answer to its own   *)
(* request, and an undisturbed search finds the whole list.                *)
(*                                                                         *)
(* The argument for the first: a thread leaves an exchange only when the   *)
(* connection can give no further answer, so that a request or an answer   *)
(* still in it always has a thread waiting for it, and the next call to    *)
(* start alone finds neither.                                              *)
(***************************************************************************)
EXTENDS P11Module, TLAPS

Waiting(t) == pc[t] \in {"recv", "read"}
Live == conn.up /\ ~conn.answered
Succeeds == conn.answer # <<>> /\ Head(conn.answer).ok

\* The cached connection, and who reads from it.
Held ==
  /\ ~cached => conn = NoStream
  /\ conn.answer # <<>> => conn.answered
  /\ \A t \in Threads : pc[t] = "read" => cached /\ lineBy = t
  /\ \A t \in Threads : lineBy = t => pc[t] = "read"

\* What is in the connection is being waited for.
Awaited == (Live /\ conn.unread # <<>>) \/ Succeeds => \E t \in Threads : Waiting(t)

\* A call no other has overlapped with is alone, and what is in the connection is its own.
Alone(t) ==
  Exchanging(t) /\ ~mixed[t] =>
    /\ \A u \in Threads \ {t} : ~Exchanging(u)
    /\ Live => \A i \in DOMAIN conn.unread : conn.unread[i] = asked[t]
    /\ Succeeds => Head(conn.answer).to = asked[t]

\* An undisturbed search has found what lies before the position.
Searched(t) ==
  search[t] = "on" => position <= 2 * certs /\ found[t] = 0..(position - 1)

Inv ==
  /\ TypeOK
  /\ Held /\ Awaited
  /\ \A t \in Threads : Alone(t) /\ Searched(t)

USE MaxCertsAssumption, MaxBatchAssumption, DataAssumption, ThreadsAssumption

LEMMA Constants ==
  /\ Fresh \in Streams /\ NoStream \in Streams
  /\ Failed \in Answers /\ List \in Requests /\ ~Failed.ok
  /\ 0 \in 0..MaxCerts /\ 0 \in 0..(2 * MaxCerts)
<1>1. Failed \in Answers /\ List \in Requests /\ ~Failed.ok
  BY DEF Failed, Answers, Requests
<1>2. <<>> \in Seq(Requests) /\ <<>> \in {<<>>} \cup {<<a>> : a \in Answers}
  OBVIOUS
<1>3. Fresh \in Streams
  BY <1>2 DEF Fresh, Streams
<1>4. NoStream \in Streams
  BY <1>2 DEF NoStream, Fresh, Streams
<1> QED
  BY <1>1, <1>3, <1>4

LEMMA InitInv == Init => Inv
<1> SUFFICES ASSUME Init PROVE Inv
  OBVIOUS
<1>1. TypeOK
  BY Constants DEF Init, TypeOK, Functions
<1>2. ~Live /\ ~Succeeds /\ conn.answer = <<>>
  BY DEF Init, NoStream, Fresh, Live, Succeeds
<1>3. Held /\ Awaited
  BY <1>2 DEF Init, Held, Awaited
<1>4. ASSUME NEW t \in Threads PROVE Alone(t) /\ Searched(t)
  BY DEF Init, Alone, Searched, Exchanging
<1> QED
  BY <1>1, <1>3, <1>4 DEF Inv

-----------------------------------------------------------------------------
(* Types *)

Pcs == {"idle", "enter", "connect", "send", "recv", "read", "rewind", "hangup", "clear"}

StateType ==
  certs \in 0..MaxCerts /\ signHandle \in BOOLEAN /\ stateBy \in Threads \cup {None}
    /\ position \in 0..(2 * MaxCerts)
LineType == cached \in BOOLEAN /\ conn \in Streams /\ lineBy \in Threads \cup {None}
ThreadType ==
  /\ pc \in [Threads -> Pcs]
  /\ call \in [Threads -> Functions \cup {None}]
  /\ asked \in [Threads -> Requests] /\ mixed \in [Threads -> BOOLEAN]
GhostType ==
  search \in [Threads -> {"off", "on", "end"}] /\ found \in [Threads -> SUBSET Handles]

LEMMA TypeParts ==
  StateType' /\ LineType' /\ ThreadType' /\ GhostType' /\ (disorder' \in BOOLEAN) => TypeOK'
BY DEF TypeOK, StateType, LineType, ThreadType, GhostType, Pcs

LEMMA ReturnsType ==
  ASSUME TypeOK, NEW t \in Threads, Returns(t)
  PROVE  ThreadType'
BY Constants DEF Returns, Goes, TypeOK, ThreadType, Pcs

LEMMA SearchType ==
  ASSUME TypeOK, NEW t \in Threads, NEW how \in {"off", "on", "end"},
         NEW handles \in SUBSET Handles, SearchBecomes(t, how, handles)
  PROVE  GhostType'
BY DEF SearchBecomes, TypeOK, GhostType

LEMMA StartsType ==
  ASSUME TypeOK, NEW t \in Threads, StartsExchange(t), UNCHANGED <<call, asked>>
  PROVE  ThreadType'
<1>1. pc' \in [Threads -> Pcs]
  BY DEF StartsExchange, Goes, TypeOK, Pcs
<1>2. mixed' \in [Threads -> BOOLEAN]
  <2>1. \A u \in Threads : (mixed[u] \/ Exchanging(u)) \in BOOLEAN
    BY DEF TypeOK, Exchanging
  <2>2. (\E v \in Threads \ {t} : Exchanging(v)) \in BOOLEAN
    OBVIOUS
  <2> QED
    BY <2>1, <2>2, Zenon DEF StartsExchange
<1> QED
  BY <1>1, <1>2 DEF TypeOK, ThreadType

LEMMA FinishType ==
  ASSUME TypeOK, NEW t \in Threads, NEW answer \in Answers, Finish(t, answer)
  PROVE  StateType' /\ ThreadType' /\ GhostType'
<1>1. CASE Listing(t)
  <2>1. certs' \in 0..MaxCerts /\ stateBy' = None /\ UNCHANGED <<signHandle, position>>
    BY <1>1, Constants DEF Finish, Answers
  <2>2. GhostType'
    <3>1. SearchBecomes(t, "off", {})
      BY <1>1 DEF Finish
    <3> QED
      BY <3>1, SearchType
  <2>3. Returns(t) \/ (Goes(t, "rewind") /\ UNCHANGED <<call, asked, mixed>>)
    BY <1>1 DEF Finish
  <2>4. ThreadType'
    BY <2>3, ReturnsType DEF Goes, TypeOK, ThreadType, Pcs
  <2> QED
    BY <2>1, <2>2, <2>4 DEF TypeOK, StateType
<1>2. CASE ~Listing(t)
  <2>1. Returns(t) /\ UNCHANGED <<certs, stateBy, ghosts, signHandle, position>>
    BY <1>2 DEF Finish
  <2> QED
    BY <2>1, ReturnsType DEF ghosts, TypeOK, StateType, GhostType
<1> QED
  BY <1>1, <1>2

LEMMA GoesOnType ==
  ASSUME TypeOK, NEW t \in Threads, NEW to \in Pcs, GoesOn(t, to)
  PROVE  StateType' /\ ThreadType' /\ GhostType'
BY DEF GoesOn, Goes, state, ghosts, TypeOK, StateType, ThreadType, GhostType, Pcs

\* Writing a request, reading an answer, answering and closing keep a stream a stream.
LEMMA StreamType ==
  ASSUME NEW s \in Streams
  PROVE  /\ \A r \in Requests : [s EXCEPT !.unread = Append(@, r)] \in Streams
         /\ [s EXCEPT !.answer = <<>>] \in Streams
         /\ \A a \in Answers : [s EXCEPT !.answered = TRUE, !.answer = <<a>>] \in Streams
         /\ \A a \in Answers :
              s.unread # <<>> => [s EXCEPT !.answered = TRUE, !.unread = Tail(@),
                                           !.answer = <<a>>] \in Streams
         /\ [s EXCEPT !.up = FALSE, !.unread = <<>>] \in Streams
         /\ s.answer # <<>> => Head(s.answer) \in Answers /\ s.answer = <<Head(s.answer)>>
<1>1. /\ s.unread \in Seq(Requests)
      /\ s.answer \in {<<>>} \cup {<<a>> : a \in Answers}
      /\ s.answered \in BOOLEAN /\ s.up \in BOOLEAN
  BY DEF Streams
<1>2. <<>> \in Seq(Requests) /\ <<>> \in {<<>>} \cup {<<a>> : a \in Answers}
  OBVIOUS
<1>3. \A a \in Answers : <<a>> \in {<<>>} \cup {<<b>> : b \in Answers}
  OBVIOUS
<1>4. \A r \in Requests : Append(s.unread, r) \in Seq(Requests)
  BY <1>1
<1>5. s.unread # <<>> => Tail(s.unread) \in Seq(Requests)
  BY <1>1
<1>6. s.answer # <<>> => Head(s.answer) \in Answers /\ s.answer = <<Head(s.answer)>>
  BY <1>1
<1>7. \A r \in Requests : [s EXCEPT !.unread = Append(@, r)] \in Streams
  BY <1>1, <1>4 DEF Streams
<1>8. /\ [s EXCEPT !.answer = <<>>] \in Streams
      /\ [s EXCEPT !.up = FALSE, !.unread = <<>>] \in Streams
  BY <1>1, <1>2 DEF Streams
<1>9. ASSUME NEW a \in Answers
      PROVE  [s EXCEPT !.answered = TRUE, !.answer = <<a>>] \in Streams
  BY <1>1, <1>3 DEF Streams
<1>10. ASSUME NEW a \in Answers, s.unread # <<>>
       PROVE  [s EXCEPT !.answered = TRUE, !.unread = Tail(@), !.answer = <<a>>] \in Streams
  BY <1>1, <1>3, <1>5, <1>10 DEF Streams
<1> QED
  BY <1>6, <1>7, <1>8, <1>9, <1>10

LEMMA ExchangeType ==
  ASSUME TypeOK, NEW t \in Threads, Exchange(t)
  PROVE  StateType' /\ LineType' /\ ThreadType' /\ GhostType'
<1>0. conn \in Streams /\ asked[t] \in Requests
  BY DEF TypeOK
<1>1. (\E to \in Pcs : GoesOn(t, to)) \/ Finish(t, Failed)
        => StateType' /\ ThreadType' /\ GhostType'
  BY GoesOnType, FinishType, Constants
<1>2. {"send", "recv", "read"} \subseteq Pcs
  BY DEF Pcs
<1>3. CASE Connect(t)
  <2>1. LineType'
    BY <1>3, Constants DEF Connect, line, TypeOK, LineType
  <2>2. GoesOn(t, "send") \/ Finish(t, Failed)
    BY <1>3 DEF Connect
  <2> QED
    BY <1>1, <1>2, <2>1, <2>2
<1>4. CASE Send(t)
  <2>1. LineType'
    <3>1. conn' = [conn EXCEPT !.unread = Append(@, asked[t])] \/ UNCHANGED conn
      BY <1>4 DEF Send
    <3>2. conn' \in Streams
      BY <1>0, <3>1, StreamType
    <3> QED
      BY <1>4, <3>2 DEF Send, TypeOK, LineType
  <2>2. GoesOn(t, "recv") \/ Finish(t, Failed)
    BY <1>4 DEF Send
  <2> QED
    BY <1>1, <1>2, <2>1, <2>2
<1>5. CASE Receive(t)
  <2>1. LineType'
    BY <1>5 DEF Receive, TypeOK, LineType
  <2>2. GoesOn(t, "read") \/ Finish(t, Failed)
    BY <1>5 DEF Receive
  <2> QED
    BY <1>1, <1>2, <2>1, <2>2
<1>6. CASE Read(t)
  <2>1. LineType'
    <3>1. conn' = [conn EXCEPT !.answer = <<>>] \/ UNCHANGED conn
      BY <1>6 DEF Read
    <3>2. conn' \in Streams
      BY <1>0, <3>1, StreamType
    <3> QED
      BY <1>6, <3>2 DEF Read, TypeOK, LineType
  <2>2. conn.answer # <<>> => Decoded(t, Head(conn.answer)) \in Answers
    BY <1>0, StreamType, Constants DEF Decoded
  <2>3. (conn.answer # <<>> /\ Finish(t, Decoded(t, Head(conn.answer)))) \/ Finish(t, Failed)
    BY <1>6 DEF Read
  <2> QED
    BY <1>1, <2>1, <2>2, <2>3, FinishType
<1> QED
  BY <1>3, <1>4, <1>5, <1>6 DEF Exchange

\* The handles a C_FindObjects returns, and where it leaves the position.
LEMMA BatchFacts ==
  ASSUME TypeOK, NEW max \in 1..MaxBatch,
         NEW end, end = IF position + max < 2 * certs THEN position + max ELSE 2 * certs
  PROVE  /\ end \in 0..(2 * MaxCerts) /\ end <= 2 * certs
         /\ position..(end - 1) \in SUBSET Handles
         /\ end - position < max => end = 2 * certs
         /\ position <= 2 * certs => position <= end
<1>1. position \in 0..(2 * MaxCerts) /\ certs \in 0..MaxCerts /\ max \in Nat
  BY DEF TypeOK
<1>2. end \in 0..(2 * MaxCerts) /\ end <= 2 * certs
  BY <1>1
<1>3. position..(end - 1) \in SUBSET Handles
  BY <1>1, <1>2 DEF Handles
<1> QED
  BY <1>1, <1>2, <1>3

LEMMA FindObjectsType ==
  ASSUME TypeOK, NEW t \in Threads, NEW max \in 1..MaxBatch, FindObjects(t, max),
         UNCHANGED disorder
  PROVE  TypeOK'
<1> DEFINE end == IF position + max < 2 * certs THEN position + max ELSE 2 * certs
<1> DEFINE batch == position..(end - 1)
<1>1. end \in 0..(2 * MaxCerts) /\ batch \in SUBSET Handles
  BY BatchFacts
<1>2. position' \in 0..(2 * MaxCerts)
  BY <1>1 DEF FindObjects, TypeOK
<1>3. GhostType'
  <2>1. found[t] \cup batch \in SUBSET Handles
    BY <1>1 DEF TypeOK
  <2>2. \E how \in {"off", "on", "end"}, handles \in SUBSET Handles :
          SearchBecomes(t, how, handles)
    BY <2>1 DEF FindObjects
  <2> QED
    BY <2>2, SearchType
<1>4. ThreadType'
  BY ReturnsType DEF FindObjects
<1>5. StateType' /\ LineType' /\ (disorder' \in BOOLEAN)
  BY <1>2 DEF FindObjects, line, TypeOK, StateType, LineType
<1> QED
  BY <1>3, <1>4, <1>5, TypeParts

LEMMA CallType ==
  ASSUME TypeOK, NEW t \in Threads, NEW f \in Functions, NEW d \in Data, Call(t, f, d)
  PROVE  TypeOK'
<1>1. ThreadType'
  BY Constants DEF Call, Goes, TypeOK, ThreadType, Pcs, Requests
<1>2. disorder' \in BOOLEAN
  <2>1. (\E u \in Threads : pc[u] # "idle" /\ "C_Finalize" \in {f, call[u]}) \in BOOLEAN
    OBVIOUS
  <2> QED
    BY <2>1, Zenon DEF Call, TypeOK
<1>3. StateType' /\ LineType' /\ GhostType'
  BY DEF Call, state, line, ghosts, TypeOK, StateType, LineType, GhostType
<1> QED
  BY <1>1, <1>2, <1>3, TypeParts

LEMMA DaemonType ==
  ASSUME TypeOK, DaemonAnswers \/ DaemonCloses
  PROVE  TypeOK'
<1>0. conn \in Streams
  BY DEF TypeOK
<1>1. conn' \in Streams
  <2>1. CASE DaemonAnswers
    <3>1. CASE conn' = [conn EXCEPT !.answered = TRUE, !.answer = <<Failed>>]
      BY <1>0, <3>1, StreamType, Constants
    <3>2. ASSUME NEW n \in 0..MaxCerts, conn.unread # <<>>,
                 conn' = [conn EXCEPT !.answered = TRUE, !.unread = Tail(@),
                            !.answer = <<[to |-> Head(conn.unread), ok |-> TRUE, certs |-> n]>>]
          PROVE  conn' \in Streams
      <4>1. conn.unread \in Seq(Requests)
        BY <1>0 DEF Streams
      <4>2. [to |-> Head(conn.unread), ok |-> TRUE, certs |-> n] \in Answers
        BY <3>2, <4>1 DEF Answers
      <4> QED
        BY <1>0, <3>2, <4>2, StreamType
    <3> QED
      BY <2>1, <3>1, <3>2 DEF DaemonAnswers
  <2>2. CASE DaemonCloses
    BY <1>0, <2>2, StreamType DEF DaemonCloses
  <2> QED
    BY <2>1, <2>2
<1>2. UNCHANGED <<cached, lineBy, state, thread, disorder, ghosts>>
  BY DEF DaemonAnswers, DaemonCloses
<1> QED
  BY <1>1, <1>2 DEF TypeOK, state, thread, ghosts

LEMMA StepType == ASSUME TypeOK, NEW t \in Threads, Step(t) PROVE TypeOK'
<1>0. UNCHANGED disorder /\ (disorder' \in BOOLEAN)
  BY DEF Step, TypeOK
<1>1. CASE LockState(t)
  <2>1. ThreadType'
    BY <1>1, StartsType DEF LockState
  <2> QED
    BY <1>0, <1>1, <2>1, TypeParts
       DEF LockState, line, ghosts, TypeOK, StateType, LineType, GhostType
<1>2. CASE Sign(t)
  <2>1. ThreadType'
    BY <1>2, StartsType, ReturnsType DEF Sign
  <2>2. GhostType'
    BY <1>2 DEF Sign, ghosts, TypeOK, GhostType
  <2> QED
    BY <1>0, <1>2, <2>1, <2>2, TypeParts DEF Sign, line, state, TypeOK, StateType, LineType
<1>3. CASE Exchange(t)
  BY <1>0, <1>3, ExchangeType, TypeParts
<1>4. CASE Rewind(t)
  <2>1. ThreadType' /\ GhostType'
    BY <1>4, ReturnsType, SearchType DEF Rewind
  <2> QED
    BY <1>0, <1>4, <2>1, TypeParts, Constants DEF Rewind, line, TypeOK, StateType, LineType
<1>5. CASE HangUp(t)
  <2>1. StateType' /\ ThreadType' /\ GhostType'
    BY <1>5, GoesOnType DEF HangUp, Pcs
  <2>2. LineType'
    BY <1>5, Constants DEF HangUp, TypeOK, LineType
  <2> QED
    BY <1>0, <2>1, <2>2, TypeParts
<1>6. CASE Clear(t)
  <2>1. ThreadType' /\ GhostType'
    BY <1>6, ReturnsType, SearchType DEF Clear
  <2> QED
    BY <1>0, <1>6, <2>1, TypeParts, Constants DEF Clear, line, TypeOK, StateType, LineType
<1>7. ASSUME NEW max \in 1..MaxBatch, FindObjects(t, max) PROVE TypeOK'
  BY <1>0, <1>7, FindObjectsType
<1>8. ASSUME NEW h \in Handles, SignInit(t, h) PROVE TypeOK'
  <2>1. ThreadType'
    BY <1>8, ReturnsType DEF SignInit
  <2>2. signHandle' \in BOOLEAN
    BY <1>8, Zenon DEF SignInit, TypeOK
  <2> QED
    BY <1>0, <1>8, <2>1, <2>2, TypeParts
       DEF SignInit, line, ghosts, TypeOK, StateType, LineType, GhostType
<1> QED
  BY <1>1, <1>2, <1>3, <1>4, <1>5, <1>6, <1>7, <1>8 DEF Step

LEMMA NextType == ASSUME TypeOK, [Next]_vars PROVE TypeOK'
<1>1. CASE UNCHANGED vars
  BY <1>1 DEF vars, state, line, thread, ghosts, TypeOK
<1> QED
  BY <1>1, StepType, CallType, DaemonType DEF Next

-----------------------------------------------------------------------------
(* Who waits for what *)

LEMMA StaysOthers ==
  ASSUME TypeOK, NEW t \in Threads
  PROVE  \A u \in Threads \ {t} :
           (Step(t) \/ \E f \in Functions, d \in Data : Call(t, f, d)) =>
             /\ pc'[u] = pc[u] /\ call'[u] = call[u] /\ asked'[u] = asked[u]
             /\ ~mixed'[u] => ~mixed[u]
<1>0. /\ pc \in [Threads -> Pcs] /\ call \in [Threads -> Functions \cup {None}]
      /\ asked \in [Threads -> Requests] /\ mixed \in [Threads -> BOOLEAN]
  BY DEF TypeOK, Pcs
<1> DEFINE Kept(u) == /\ pc'[u] = pc[u] /\ call'[u] = call[u] /\ asked'[u] = asked[u]
                      /\ ~mixed'[u] => ~mixed[u]
<1> SUFFICES ASSUME NEW u \in Threads \ {t},
                    Step(t) \/ \E f \in Functions, d \in Data : Call(t, f, d)
             PROVE  Kept(u)
  OBVIOUS
<1>1. Returns(t) => Kept(u)
  BY <1>0 DEF Returns, Goes
<1>2. (\E to \in Pcs : Goes(t, to)) /\ UNCHANGED <<call, asked, mixed>> => Kept(u)
  BY <1>0 DEF Goes
<1>3. StartsExchange(t) /\ UNCHANGED <<call, asked>> => Kept(u)
  BY <1>0 DEF StartsExchange, Goes
<1>4. ASSUME NEW f \in Functions, NEW d \in Data, Call(t, f, d) PROVE Kept(u)
  BY <1>0, <1>4 DEF Call, Goes
<1>5. ASSUME NEW answer, Finish(t, answer) PROVE Kept(u)
  BY <1>1, <1>2, <1>5 DEF Finish, Pcs
<1>6. Exchange(t) => Kept(u)
  BY <1>2, <1>5 DEF Exchange, Connect, Send, Receive, Read, GoesOn, Pcs
<1>7. Step(t) => Kept(u)
  BY <1>1, <1>2, <1>3, <1>6
     DEF Step, LockState, Sign, Rewind, HangUp, Clear, GoesOn, FindObjects, SignInit, Pcs
<1> QED
  BY <1>4, <1>7

\* What a step of t is to the exchanges: it stays out of them, or ...
StaysOut(t) == ~Exchanging(t) /\ ~Exchanging(t)' /\ UNCHANGED line
HangsUp(t) ==
  /\ pc[t] = "hangup" /\ ~Exchanging(t) /\ ~Exchanging(t)'
  /\ lineBy = None /\ UNCHANGED lineBy /\ cached' = FALSE /\ conn' = NoStream
Starts(t) ==
  ~Exchanging(t) /\ StartsExchange(t) /\ UNCHANGED <<line, call, asked>>
Connects(t) ==
  /\ pc[t] = "connect" /\ GoesOn(t, "send")
  /\ UNCHANGED line \/ (~cached /\ cached' = TRUE /\ conn' = Fresh /\ UNCHANGED lineBy)
Sends(t) ==
  /\ pc[t] = "send" /\ GoesOn(t, "recv")
  /\ cached /\ conn' = [conn EXCEPT !.unread = Append(@, asked[t])]
  /\ UNCHANGED <<cached, lineBy>>
Receives(t) ==
  /\ pc[t] = "recv" /\ lineBy = None /\ GoesOn(t, "read")
  /\ cached /\ lineBy' = t /\ UNCHANGED <<cached, conn>>
\* ... leaves one, when the connection can give no further answer.
Leaves(t) ==
  /\ Exchanging(t) /\ ~Exchanging(t)' /\ UNCHANGED cached
  /\ \/ /\ pc[t] # "read" /\ UNCHANGED <<conn, lineBy>>
        /\ cached => pc[t] = "send" /\ ~conn.up
     \/ /\ pc[t] = "read" /\ lineBy' = None
        /\ \/ conn.answer # <<>> /\ conn' = [conn EXCEPT !.answer = <<>>]
           \/ conn.answer = <<>> /\ ~conn.up /\ UNCHANGED conn

LEMMA StepIs ==
  ASSUME TypeOK, NEW t \in Threads,
         Step(t) \/ \E f \in Functions, d \in Data : Call(t, f, d)
  PROVE  \/ StaysOut(t) \/ HangsUp(t) \/ Starts(t) \/ Connects(t) \/ Sends(t)
         \/ Receives(t) \/ Leaves(t)
<1>0. pc \in [Threads -> Pcs]
  BY DEF TypeOK, Pcs
<1>1. \A to : Goes(t, to) => pc'[t] = to
  BY <1>0 DEF Goes
<1>2. \A answer : Finish(t, answer) => ~Exchanging(t)'
  BY <1>1 DEF Finish, Returns, Exchanging
<1>3. ASSUME NEW f \in Functions, NEW d \in Data, Call(t, f, d) PROVE StaysOut(t)
  BY <1>1, <1>3 DEF Call, StaysOut, Exchanging
<1>4. CASE Exchange(t)
  <2>1. Connect(t) => Connects(t) \/ Leaves(t)
    BY <1>2 DEF Connect, Connects, Leaves, line, Exchanging
  <2>2. Send(t) => Sends(t) \/ Leaves(t)
    BY <1>2 DEF Send, Sends, Leaves, Exchanging
  <2>3. Receive(t) => Receives(t) \/ Leaves(t)
    BY <1>2 DEF Receive, Receives, Leaves, Exchanging
  <2>4. Read(t) => Leaves(t)
    BY <1>2 DEF Read, Leaves, Exchanging
  <2> QED
    BY <1>4, <2>1, <2>2, <2>3, <2>4 DEF Exchange
<1>5. LockState(t) \/ Sign(t) => StaysOut(t) \/ Starts(t)
  BY <1>1 DEF LockState, Sign, Enters, Returns, StaysOut, Starts, Exchanging
<1>6. Rewind(t) \/ Clear(t) => StaysOut(t)
  BY <1>1 DEF Rewind, Clear, Returns, StaysOut, Exchanging
<1>7. HangUp(t) => HangsUp(t)
  BY <1>1 DEF HangUp, GoesOn, HangsUp, Exchanging
<1>8. ASSUME NEW max \in 1..MaxBatch, FindObjects(t, max) PROVE StaysOut(t)
  BY <1>1, <1>8 DEF FindObjects, Enters, Returns, StaysOut, Exchanging
<1>9. ASSUME NEW h \in Handles, SignInit(t, h) PROVE StaysOut(t)
  BY <1>1, <1>9 DEF SignInit, Enters, Returns, StaysOut, Exchanging
<1> QED
  BY <1>3, <1>4, <1>5, <1>6, <1>7, <1>8, <1>9 DEF Step

ThreadStep(t) == Step(t) \/ \E f \in Functions, d \in Data : Call(t, f, d)

LEMMA StepHeld ==
  ASSUME TypeOK, Held, NEW t \in Threads, ThreadStep(t)
  PROVE  Held'
<1>0. conn \in Streams /\ pc \in [Threads -> Pcs] /\ None \notin Threads
  BY DEF TypeOK, Pcs
<1>1. \A u \in Threads \ {t} : pc'[u] = pc[u]
  BY StaysOthers DEF ThreadStep
<1>2. NoStream.answer = <<>> /\ Fresh.answer = <<>>
  BY DEF NoStream, Fresh
<1>3. CASE StaysOut(t) \/ Starts(t)
  <2>1. pc[t] # "read" /\ pc'[t] # "read" /\ UNCHANGED <<cached, conn, lineBy>>
    BY <1>0, <1>3 DEF StaysOut, Starts, StartsExchange, Goes, Exchanging, line
  <2> QED
    BY <1>1, <2>1 DEF Held
<1>4. CASE HangsUp(t)
  BY <1>0, <1>1, <1>2, <1>4 DEF HangsUp, Held, Exchanging
<1>5. CASE Connects(t)
  <2>1. pc[t] # "read" /\ pc'[t] # "read"
    BY <1>0, <1>5 DEF Connects, GoesOn, Goes
  <2> QED
    BY <1>1, <1>2, <1>5, <2>1 DEF Connects, Held, line
<1>6. CASE Sends(t)
  <2>1. pc[t] # "read" /\ pc'[t] # "read"
    BY <1>0, <1>6 DEF Sends, GoesOn, Goes
  <2>2. conn'.answer = conn.answer /\ conn'.answered = conn.answered
    BY <1>0, <1>6 DEF Sends, Streams
  <2> QED
    BY <1>1, <1>6, <2>1, <2>2 DEF Sends, Held
<1>7. CASE Receives(t)
  BY <1>0, <1>1, <1>7 DEF Receives, GoesOn, Goes, Held
<1>8. CASE Leaves(t)
  <2>1. pc'[t] # "read"
    BY <1>8 DEF Leaves, Exchanging
  <2>2. CASE pc[t] # "read" /\ UNCHANGED <<conn, lineBy, cached>>
    BY <1>1, <2>1, <2>2 DEF Held
  <2>3. CASE pc[t] = "read" /\ lineBy' = None
    <3>1. \A u \in Threads \ {t} : pc[u] # "read"
      BY <2>3 DEF Held
    <3>2. cached' = cached /\ cached /\ lineBy' = None
      BY <1>8, <2>3 DEF Leaves, Held
    <3>3. conn' = conn \/ conn'.answer = <<>>
      BY <1>0, <1>8, <2>3 DEF Leaves, Streams
    <3> QED
      BY <1>0, <1>1, <2>1, <3>1, <3>2, <3>3 DEF Held
  <2> QED
    BY <1>8, <2>2, <2>3 DEF Leaves
<1> QED
  BY <1>3, <1>4, <1>5, <1>6, <1>7, <1>8, StepIs DEF ThreadStep

LEMMA StepAwaited ==
  ASSUME TypeOK, Held, Awaited, NEW t \in Threads, ThreadStep(t)
  PROVE  Awaited'
<1>0. conn \in Streams /\ pc \in [Threads -> Pcs]
  BY DEF TypeOK, Pcs
<1>1. \A u \in Threads \ {t} : Waiting(u)' <=> Waiting(u)
  BY StaysOthers DEF ThreadStep, Waiting
<1>2. /\ ~NoStream.up /\ NoStream.answer = <<>>
      /\ Fresh.unread = <<>> /\ Fresh.answer = <<>>
  BY DEF NoStream, Fresh
<1>3. ASSUME UNCHANGED conn, ~Waiting(t) PROVE Awaited'
  BY <1>1, <1>3 DEF Awaited, Live, Succeeds
<1>4. CASE StaysOut(t) \/ Starts(t)
  BY <1>3, <1>4 DEF StaysOut, Starts, line, Exchanging, Waiting
<1>5. CASE HangsUp(t)
  BY <1>2, <1>5 DEF HangsUp, Awaited, Live, Succeeds
<1>6. CASE Connects(t)
  <2>1. UNCHANGED conn \/ conn' = Fresh
    BY <1>6 DEF Connects, line
  <2>2. ~Waiting(t)
    BY <1>6 DEF Connects, Waiting
  <2> QED
    BY <1>2, <1>3, <2>1, <2>2 DEF Awaited, Succeeds
<1>7. CASE Sends(t) \/ Receives(t)
  <2>1. Waiting(t)'
    BY <1>0, <1>7 DEF Sends, Receives, GoesOn, Goes, Waiting
  <2> QED
    BY <2>1 DEF Awaited
<1>8. CASE Leaves(t)
  <2>1. CASE pc[t] # "read"
    <3>1. CASE cached
      BY <1>3, <1>8, <2>1, <3>1 DEF Leaves, Waiting
    <3>2. CASE ~cached
      BY <1>2, <1>8, <2>1, <3>2 DEF Leaves, Held, Awaited, Live, Succeeds
    <3> QED
      BY <3>1, <3>2
  <2>2. ASSUME pc[t] = "read", conn.answer # <<>>, conn' = [conn EXCEPT !.answer = <<>>]
        PROVE  Awaited'
    <3>1. conn'.answer = <<>> /\ conn'.answered = conn.answered
      BY <1>0, <2>2 DEF Streams
    <3> QED
      BY <2>2, <3>1 DEF Held, Awaited, Live, Succeeds
  <2>3. ASSUME conn.answer = <<>>, ~conn.up, UNCHANGED conn PROVE Awaited'
    BY <2>3 DEF Awaited, Live, Succeeds
  <2> QED
    BY <1>8, <2>1, <2>2, <2>3 DEF Leaves
<1> QED
  BY <1>4, <1>5, <1>6, <1>7, <1>8, StepIs DEF ThreadStep

LEMMA StepAlone ==
  ASSUME TypeOK, Held, Awaited, NEW t \in Threads, ThreadStep(t),
         \A u \in Threads : Alone(u)
  PROVE  \A u \in Threads : Alone(u)'
<1>0. /\ conn \in Streams /\ pc \in [Threads -> Pcs] /\ mixed \in [Threads -> BOOLEAN]
      /\ asked[t] \in Requests
  BY DEF TypeOK, Pcs
<1>1. \A u \in Threads \ {t} : /\ Exchanging(u)' <=> Exchanging(u)
                               /\ asked'[u] = asked[u] /\ (~mixed'[u] => ~mixed[u])
  BY StaysOthers DEF ThreadStep, Exchanging
<1>2. /\ ~NoStream.up /\ NoStream.answer = <<>>
      /\ Fresh.unread = <<>> /\ Fresh.answer = <<>>
  BY DEF NoStream, Fresh
<1>3. ASSUME NEW u \in Threads \ {t}, Exchanging(u)', ~mixed'[u] PROVE Alone(u)'
  <2>1. Exchanging(u) /\ ~mixed[u] /\ asked'[u] = asked[u]
    BY <1>1, <1>3
  <2>2. ~Exchanging(t)
    BY <2>1 DEF Alone
  <2>3. StaysOut(t) \/ HangsUp(t) \/ Starts(t)
    BY <2>2, StepIs DEF ThreadStep, Connects, Sends, Receives, Leaves, Exchanging
  <2>4. ~Starts(t)
    BY <1>0, <1>3, <2>1 DEF Starts, StartsExchange
  <2>5. ~Exchanging(t)'
    BY <2>3, <2>4 DEF StaysOut, HangsUp
  <2>6. \A v \in Threads \ {u} : ~Exchanging(v)'
    BY <1>1, <2>1, <2>5 DEF Alone
  <2>7. CASE StaysOut(t)
    <3>1. UNCHANGED conn
      BY <2>7 DEF StaysOut, line
    <3> QED
      BY <2>1, <2>6, <3>1 DEF Alone, Live, Succeeds
  <2>8. CASE HangsUp(t)
    BY <1>2, <2>6, <2>8 DEF HangsUp, Alone, Live, Succeeds
  <2> QED
    BY <2>3, <2>4, <2>7, <2>8
<1>4. ASSUME Exchanging(t)', ~mixed'[t] PROVE Alone(t)'
  <2>1. CASE Starts(t)
    <3>1. \A v \in Threads \ {t} : ~Exchanging(v)
      BY <1>0, <1>4, <2>1 DEF Starts, StartsExchange
    <3>2. \A v \in Threads : ~Waiting(v)
      BY <2>1, <3>1 DEF Starts, Exchanging, Waiting
    <3>3. UNCHANGED conn /\ ~Succeeds /\ (Live => conn.unread = <<>>)
      BY <2>1, <3>2 DEF Starts, line, Awaited
    <3> QED
      BY <1>1, <3>1, <3>3 DEF Alone, Live, Succeeds
  <2>2. ASSUME Exchanging(t), UNCHANGED <<asked, mixed>>
        PROVE  /\ \A v \in Threads \ {t} : ~Exchanging(v)'
               /\ Live => \A i \in DOMAIN conn.unread : conn.unread[i] = asked'[t]
               /\ Succeeds => Head(conn.answer).to = asked'[t]
    BY <1>1, <1>4, <2>2 DEF Alone
  <2>3. CASE Connects(t)
    <3>1. UNCHANGED conn \/ conn' = Fresh
      BY <2>3 DEF Connects, line
    <3> QED
      BY <1>2, <2>2, <2>3, <3>1 DEF Connects, GoesOn, Exchanging, Alone, Live, Succeeds
  <2>4. CASE Sends(t)
    <3>1. /\ conn'.answer = conn.answer /\ conn'.answered = conn.answered
          /\ conn'.up = conn.up /\ conn'.unread = Append(conn.unread, asked[t])
          /\ conn.unread \in Seq(Requests)
      BY <1>0, <2>4 DEF Sends, Streams
    <3>2. asked' = asked
      BY <2>4 DEF Sends, GoesOn
    <3>3. Live' => \A i \in DOMAIN conn'.unread : conn'.unread[i] = asked'[t]
      BY <1>0, <2>2, <2>4, <3>1, <3>2 DEF Sends, GoesOn, Exchanging, Live
    <3> QED
      BY <2>2, <2>4, <3>1, <3>3 DEF Sends, GoesOn, Exchanging, Alone, Live, Succeeds
  <2>5. CASE Receives(t)
    BY <2>2, <2>5 DEF Receives, GoesOn, Exchanging, Alone, Live, Succeeds
  <2> QED
    BY <1>4, <2>1, <2>3, <2>4, <2>5, StepIs DEF ThreadStep, StaysOut, HangsUp, Leaves
<1> QED
  BY <1>3, <1>4 DEF Alone

LEMMA DaemonStep ==
  ASSUME Inv, DaemonAnswers \/ DaemonCloses
  PROVE  Held' /\ Awaited' /\ \A t \in Threads : Alone(t)'
<1>0. /\ conn \in Streams /\ cached /\ conn.up
      /\ UNCHANGED <<cached, lineBy, pc, asked, mixed>>
      /\ \A t \in Threads : (Waiting(t)' <=> Waiting(t)) /\ (Exchanging(t)' <=> Exchanging(t))
  BY DEF Inv, TypeOK, DaemonAnswers, DaemonCloses, thread, Waiting, Exchanging
<1>1. ASSUME Live, conn.unread # <<>>, NEW n \in 0..MaxCerts,
             conn' = [conn EXCEPT !.answered = TRUE, !.unread = Tail(@),
                        !.answer = <<[to |-> Head(conn.unread), ok |-> TRUE, certs |-> n]>>]
      PROVE  Held' /\ Awaited' /\ \A t \in Threads : Alone(t)'
  <2>1. /\ conn'.answered = TRUE
        /\ conn'.answer = <<[to |-> Head(conn.unread), ok |-> TRUE, certs |-> n]>>
        /\ conn.unread \in Seq(Requests)
    BY <1>0, <1>1 DEF Streams
  <2>2. Head(conn'.answer).to = conn.unread[1] /\ 1 \in DOMAIN conn.unread
    BY <1>1, <2>1
  <2>3. Held'
    BY <1>0, <2>1 DEF Inv, Held
  <2>4. Awaited'
    BY <1>0, <1>1 DEF Inv, Awaited
  <2>5. ASSUME NEW t \in Threads PROVE Alone(t)'
    BY <1>0, <1>1, <2>1, <2>2 DEF Inv, Alone, Live
  <2> QED
    BY <2>3, <2>4, <2>5
<1>2. ASSUME \/ conn' = [conn EXCEPT !.answered = TRUE, !.answer = <<Failed>>]
             \/ conn' = [conn EXCEPT !.up = FALSE, !.unread = <<>>]
      PROVE  Held' /\ Awaited' /\ \A t \in Threads : Alone(t)'
  <2>1. /\ ~Live'
        /\ conn'.answer = conn.answer \/ conn'.answer = <<Failed>>
        /\ conn'.answered = conn.answered \/ conn'.answered = TRUE
    BY <1>0, <1>2 DEF Streams, Live
  <2>2. Succeeds' => Succeeds /\ conn'.answer = conn.answer
    BY <2>1, Constants DEF Succeeds
  <2>3. Held'
    BY <1>0, <1>2, <2>1 DEF Inv, Held, Streams
  <2>4. Awaited'
    BY <1>0, <2>1, <2>2 DEF Inv, Awaited
  <2>5. ASSUME NEW t \in Threads PROVE Alone(t)'
    BY <1>0, <2>1, <2>2 DEF Inv, Alone
  <2> QED
    BY <2>3, <2>4, <2>5
<1> QED
  BY <1>0, <1>1, <1>2 DEF DaemonAnswers, DaemonCloses, Live

-----------------------------------------------------------------------------
(* Searches *)

\* The list and the position change only where every other search is cut off.
LEMMA StepSearched ==
  ASSUME TypeOK, [Next]_vars, NEW u \in Threads, Searched(u)
  PROVE  /\ Searched(u)'
         /\ search[u] = "on" /\ search'[u] = "end" => found'[u] = 0..(2 * certs - 1)
<1>0. /\ search \in [Threads -> {"off", "on", "end"}]
      /\ certs \in 0..MaxCerts /\ position \in 0..(2 * MaxCerts)
      /\ found \in [Threads -> SUBSET Handles]
  BY DEF TypeOK
<1> DEFINE Good == /\ Searched(u)'
                   /\ search[u] = "on" /\ search'[u] = "end" => found'[u] = 0..(2 * certs - 1)
<1>1. UNCHANGED <<certs, position, ghosts>> => Good
  BY DEF ghosts, Searched
<1>2. ASSUME NEW t \in Threads, NEW handles, SearchBecomes(t, "off", handles) PROVE Good
  BY <1>2 DEF SearchBecomes, Searched
<1>3. ASSUME NEW t \in Threads, Rewind(t) PROVE Good
  BY <1>0, <1>3 DEF Rewind, SearchBecomes, Searched
<1>4. ASSUME NEW t \in Threads, NEW max \in 1..MaxBatch, FindObjects(t, max) PROVE Good
  <2> DEFINE end == IF position + max < 2 * certs THEN position + max ELSE 2 * certs
  <2> DEFINE batch == position..(end - 1)
  <2>1. /\ end \in 0..(2 * MaxCerts) /\ end <= 2 * certs
        /\ end - position < max => end = 2 * certs
        /\ position <= 2 * certs => position <= end
    BY BatchFacts
  <2>2. \/ SearchBecomes(t, "off", {})
        \/ /\ search[t] = "on"
           /\ SearchBecomes(t, IF end - position < max THEN "end" ELSE "on", found[t] \cup batch)
    BY <1>4 DEF FindObjects
  <2>3. /\ certs' = certs
        /\ position' = IF end > position THEN end ELSE position
    BY <1>4 DEF FindObjects
  <2>4. ASSUME search[u] = "on", u = t,
               SearchBecomes(t, IF end - position < max THEN "end" ELSE "on", found[t] \cup batch)
        PROVE  Good
    <3>1. position <= end /\ found[u] = 0..(position - 1)
      BY <2>1, <2>4 DEF Searched
    <3>2. found'[u] = 0..(end - 1)
      <4>1. found'[u] = (0..(position - 1)) \cup (position..(end - 1))
        BY <2>4, <3>1 DEF SearchBecomes
      <4> HIDE DEF end
      <4> QED
        BY <1>0, <2>1, <3>1, <4>1
    <3>3. position' = end
      BY <1>0, <2>1, <2>3, <3>1
    <3>4. search'[u] = "end" => end = 2 * certs
      BY <2>1, <2>4 DEF SearchBecomes
    <3> QED
      BY <2>1, <2>3, <3>2, <3>3, <3>4 DEF Searched
  <2>5. ASSUME u # t,
               SearchBecomes(t, IF end - position < max THEN "end" ELSE "on", found[t] \cup batch)
        PROVE  Good
    BY <2>5 DEF SearchBecomes, Searched
  <2> QED
    BY <1>2, <2>2, <2>4, <2>5
<1>5. ASSUME NEW t \in Threads, NEW answer, Finish(t, answer) PROVE Good
  <2>1. SearchBecomes(t, "off", {}) \/ UNCHANGED <<certs, position, ghosts>>
    BY <1>5 DEF Finish
  <2> QED
    BY <1>1, <1>2, <2>1
<1>6. ASSUME NEW t \in Threads, NEW to, GoesOn(t, to) PROVE Good
  BY <1>1, <1>6 DEF GoesOn, state
<1>7. ASSUME NEW t \in Threads, Exchange(t) PROVE Good
  BY <1>5, <1>6, <1>7 DEF Exchange, Connect, Send, Receive, Read
<1>8. ASSUME NEW t \in Threads, Sign(t) \/ LockState(t) \/ HangUp(t) PROVE Good
  BY <1>1, <1>6, <1>8 DEF Sign, LockState, HangUp, state
<1>9. ASSUME NEW t \in Threads, Clear(t) PROVE Good
  BY <1>2, <1>9 DEF Clear
<1>10. ASSUME NEW t \in Threads, NEW h \in Handles, SignInit(t, h) PROVE Good
  BY <1>1, <1>10 DEF SignInit
<1>11. ASSUME NEW t \in Threads, NEW f \in Functions, NEW d \in Data, Call(t, f, d)
       PROVE  Good
  BY <1>1, <1>11 DEF Call, state
<1>12. DaemonAnswers \/ DaemonCloses \/ UNCHANGED vars => Good
  BY <1>1 DEF DaemonAnswers, DaemonCloses, vars, state
<1> QED
  BY <1>3, <1>4, <1>7, <1>8, <1>9, <1>10, <1>11, <1>12 DEF Next, Step

-----------------------------------------------------------------------------

LEMMA StepInv == ASSUME Inv, [Next]_vars PROVE Inv'
<1>1. TypeOK'
  BY NextType DEF Inv
<1>2. \A t \in Threads : Searched(t)'
  BY StepSearched DEF Inv
<1>3. ASSUME NEW t \in Threads, ThreadStep(t)
      PROVE  Held' /\ Awaited' /\ \A u \in Threads : Alone(u)'
  BY <1>3, StepHeld, StepAwaited, StepAlone DEF Inv
<1>4. ASSUME UNCHANGED vars
      PROVE  Held' /\ Awaited' /\ \A u \in Threads : Alone(u)'
  BY <1>4 DEF vars, line, thread, Inv, Held, Awaited, Alone, Waiting, Exchanging, Live, Succeeds
<1>5. Held' /\ Awaited' /\ \A u \in Threads : Alone(u)'
  BY <1>3, <1>4, DaemonStep DEF Next, ThreadStep
<1> QED
  BY <1>1, <1>2, <1>5 DEF Inv

LEMMA SpecInv == Spec => []Inv
<1>1. Inv /\ [Next]_vars => Inv'
  BY StepInv
<1> QED
  BY InitInv, <1>1, PTL DEF Spec

\* Every variable keeps its type.
THEOREM TypeCorrect == Spec => []TypeOK
BY SpecInv, PTL DEF Inv

\* A call that overlaps with no other never reads an answer left for an earlier one
\* (ipc.rs:28-45, 109-138).
THEOREM AnswersAreOwn == Spec => []OwnAnswer
<1>1. Inv => OwnAnswer
  BY DEF Inv, OwnAnswer, Alone, Exchanging, Succeeds
<1> QED
  BY SpecInv, <1>1, PTL

\* A search no other thread disturbed ends with the whole list, in batches of any size
\* (pkcs11_impl.rs:393-415).
THEOREM SearchesAreComplete == Spec => SearchIsComplete
<1>1. Inv /\ [Next]_vars =>
        \A t \in Threads : search[t] = "on" /\ search'[t] = "end"
                             => found'[t] = 0..(2 * certs - 1)
  BY StepSearched DEF Inv
<1> QED
  BY <1>1, SpecInv, PTL DEF Spec, SearchIsComplete

-----------------------------------------------------------------------------
(* Where the waits end *)

Asks(t) == Exchanging(t) /\ Listing(t)

\* STATE is held over the list requests and nothing else (StateHeld), C_Finalize runs
\* alone (FinalizesAlone), and who waits for an answer is owed one (Owed), the last two
\* if the host keeps to the order of PKCS#11.
StateHeld == \A t \in Threads : stateBy = t <=> Asks(t)

FinalizesAlone ==
  /\ \A t \in Threads : pc[t] \in {"hangup", "clear"} => call[t] = "C_Finalize"
  /\ ~disorder => \A t \in Threads : pc[t] \in {"hangup", "clear"} =>
                    \A u \in Threads \ {t} : pc[u] = "idle"

Owed ==
  ~disorder => \A t \in Threads : Waiting(t) =>
    cached /\ (conn.up => conn.unread # <<>> \/ conn.answered)

WaitsInv == StateHeld /\ FinalizesAlone /\ Owed

LEMMA StepState ==
  ASSUME TypeOK, NEW t \in Threads, ThreadStep(t)
  PROVE  \/ stateBy = None /\ stateBy' = t /\ Asks(t)'
         \/ Asks(t) /\ stateBy' = None /\ ~Exchanging(t)'
         \/ stateBy' = stateBy /\ (Asks(t)' <=> Asks(t))
<1>0. pc \in [Threads -> Pcs] /\ call \in [Threads -> Functions \cup {None}]
  BY DEF TypeOK, Pcs
<1>1. \A to : Goes(t, to) => pc'[t] = to
  BY <1>0 DEF Goes
<1> DEFINE Good == \/ stateBy = None /\ stateBy' = t /\ Asks(t)'
                   \/ Asks(t) /\ stateBy' = None /\ ~Exchanging(t)'
                   \/ stateBy' = stateBy /\ (Asks(t)' <=> Asks(t))
<1>2. ASSUME ~Exchanging(t), ~Exchanging(t)', stateBy' = stateBy PROVE Good
  BY <1>2 DEF Asks
<1>3. ASSUME Exchanging(t), NEW answer, Finish(t, answer) PROVE Good
  <2>1. ~Exchanging(t)'
    BY <1>1, <1>3 DEF Finish, Returns, Exchanging
  <2> QED
    BY <1>3, <2>1 DEF Finish, Asks
<1>4. ASSUME Exchanging(t), NEW to \in {"send", "recv", "read"}, GoesOn(t, to) PROVE Good
  BY <1>1, <1>4 DEF GoesOn, state, Asks, Exchanging, Listing
<1>5. CASE Exchange(t)
  <2>1. Exchanging(t)
    BY <1>5 DEF Exchange, Connect, Send, Receive, Read, Exchanging
  <2>2. \/ \E to \in {"send", "recv", "read"} : GoesOn(t, to)
        \/ \E answer : Finish(t, answer)
    BY <1>5 DEF Exchange, Connect, Send, Receive, Read
  <2> QED
    BY <1>3, <1>4, <2>1, <2>2
<1>6. CASE LockState(t)
  BY <1>1, <1>6 DEF LockState, Enters, StartsExchange, Asks, Exchanging, Listing
<1>7. CASE Sign(t)
  <2>1. pc[t] = "enter" /\ call[t] = "C_Sign" /\ stateBy' = stateBy
    BY <1>7 DEF Sign, Enters, state
  <2>2. ~Exchanging(t)' \/ ~Listing(t)'
    BY <1>1, <1>7, <2>1 DEF Sign, Returns, Exchanging, Listing
  <2> QED
    BY <2>1, <2>2 DEF Asks, Exchanging
<1>8. CASE Rewind(t) \/ HangUp(t) \/ Clear(t)
  BY <1>1, <1>2, <1>8 DEF Rewind, HangUp, Clear, GoesOn, Returns, state, Exchanging
<1>9. ASSUME NEW max \in 1..MaxBatch, FindObjects(t, max) PROVE Good
  BY <1>1, <1>2, <1>9 DEF FindObjects, Enters, Returns, Exchanging
<1>10. ASSUME NEW h \in Handles, SignInit(t, h) PROVE Good
  BY <1>1, <1>2, <1>10 DEF SignInit, Enters, Returns, Exchanging
<1>11. ASSUME NEW f \in Functions, NEW d \in Data, Call(t, f, d) PROVE Good
  BY <1>1, <1>2, <1>11 DEF Call, state, Exchanging
<1> QED
  BY <1>5, <1>6, <1>7, <1>8, <1>9, <1>10, <1>11 DEF ThreadStep, Step

\* Only a call that is going on takes a step, and only C_Finalize hangs up.
LEMMA StepFinalizes ==
  ASSUME TypeOK, NEW t \in Threads, Step(t)
  PROVE  /\ pc[t] # "idle" /\ UNCHANGED disorder
         /\ pc'[t] \in {"hangup", "clear"} => pc[t] = "hangup" /\ call'[t] = call[t]
<1>0. pc \in [Threads -> Pcs]
  BY DEF TypeOK, Pcs
<1>1. \A to : Goes(t, to) => pc'[t] = to
  BY <1>0 DEF Goes
<1>2. ASSUME NEW answer, Finish(t, answer) PROVE pc'[t] \notin {"hangup", "clear"}
  BY <1>1, <1>2 DEF Finish, Returns
<1>3. CASE Exchange(t)
  BY <1>1, <1>2, <1>3 DEF Exchange, Connect, Send, Receive, Read, GoesOn, Step
<1>4. CASE LockState(t) \/ Sign(t) \/ Rewind(t) \/ HangUp(t) \/ Clear(t)
  BY <1>1, <1>4 DEF LockState, Sign, Rewind, HangUp, Clear, Enters, StartsExchange, GoesOn, Returns,
                    Step
<1>5. ASSUME NEW max \in 1..MaxBatch, FindObjects(t, max)
      PROVE  pc[t] # "idle" /\ pc'[t] = "idle"
  BY <1>1, <1>5 DEF FindObjects, Enters, Returns
<1>6. ASSUME NEW h \in Handles, SignInit(t, h) PROVE pc[t] # "idle" /\ pc'[t] = "idle"
  BY <1>1, <1>6 DEF SignInit, Enters, Returns
<1> QED
  BY <1>3, <1>4, <1>5, <1>6 DEF Step

LEMMA StepWaits ==
  ASSUME TypeOK, Held, WaitsInv, NEW t \in Threads, ThreadStep(t)
  PROVE  WaitsInv'
<1>0. conn \in Streams /\ pc \in [Threads -> Pcs] /\ call \in [Threads -> Functions \cup {None}]
  BY DEF TypeOK, Pcs
<1>1. \A u \in Threads \ {t} : /\ pc'[u] = pc[u] /\ call'[u] = call[u]
                               /\ Asks(u)' <=> Asks(u)
                               /\ Waiting(u)' <=> Waiting(u)
  BY StaysOthers DEF ThreadStep, Asks, Exchanging, Listing, Waiting
<1>2. StateHeld'
  <2>1. None \notin Threads
    OBVIOUS
  <2>2. CASE stateBy = None /\ stateBy' = t /\ Asks(t)'
    BY <1>1, <2>1, <2>2 DEF WaitsInv, StateHeld
  <2>3. CASE Asks(t) /\ stateBy' = None /\ ~Exchanging(t)'
    BY <1>1, <2>1, <2>3 DEF WaitsInv, StateHeld, Asks
  <2>4. CASE stateBy' = stateBy /\ (Asks(t)' <=> Asks(t))
    BY <1>1, <2>4 DEF WaitsInv, StateHeld
  <2> QED
    BY <2>2, <2>3, <2>4, StepState
<1>3. ~disorder' => ~disorder
  BY StepFinalizes DEF ThreadStep, Call
<1>4. FinalizesAlone'
  <2>1. CASE Step(t)
    <3>1. /\ pc[t] # "idle" /\ UNCHANGED disorder
          /\ pc'[t] \in {"hangup", "clear"} => pc[t] = "hangup" /\ call'[t] = call[t]
      BY <2>1, StepFinalizes
    <3> QED
      BY <1>1, <3>1 DEF WaitsInv, FinalizesAlone
  <2>2. ASSUME NEW f \in Functions, NEW d \in Data, Call(t, f, d) PROVE FinalizesAlone'
    <3>1. /\ pc[t] = "idle" /\ call'[t] = f
          /\ pc'[t] = IF f = "C_Finalize" THEN "hangup" ELSE "enter"
          /\ disorder' = (disorder \/ \E u \in Threads : /\ pc[u] # "idle"
                                                        /\ "C_Finalize" \in {f, call[u]})
      BY <1>0, <2>2 DEF Call, Goes
    <3>2. \A u \in Threads : pc'[u] \in {"hangup", "clear"} => call'[u] = "C_Finalize"
      BY <1>1, <3>1 DEF WaitsInv, FinalizesAlone
    <3>3. ASSUME ~disorder', NEW u \in Threads, pc'[u] \in {"hangup", "clear"},
                 NEW v \in Threads \ {u}
          PROVE  pc'[v] = "idle"
      <4>1. \A w \in Threads : pc[w] # "idle" => f # "C_Finalize" /\ call[w] # "C_Finalize"
        BY <3>1, <3>3
      <4>2. u = t
        BY <1>1, <3>3, <4>1 DEF WaitsInv, FinalizesAlone
      <4>3. f = "C_Finalize"
        BY <3>1, <3>3, <4>2
      <4> QED
        BY <1>1, <3>3, <4>1, <4>2, <4>3
    <3> QED
      BY <3>2, <3>3 DEF FinalizesAlone
  <2> QED
    BY <2>1, <2>2 DEF ThreadStep
<1>5. Owed'
  <2> SUFFICES ASSUME ~disorder', NEW u \in Threads, Waiting(u)'
               PROVE  cached' /\ (conn'.up => conn'.unread # <<>> \/ conn'.answered)
    BY DEF Owed
  <2>1. \A v \in Threads : Waiting(v) =>
          cached /\ (conn.up => conn.unread # <<>> \/ conn.answered)
    BY <1>3 DEF WaitsInv, Owed
  <2>2. CASE StaysOut(t) \/ Starts(t)
    <3>1. ~Waiting(t)' /\ UNCHANGED line
      BY <1>0, <2>2 DEF StaysOut, Starts, StartsExchange, Goes, Exchanging, Waiting
    <3>2. u # t /\ Waiting(u)
      BY <1>1, <3>1
    <3> QED
      BY <2>1, <3>1, <3>2 DEF line
  <2>3. CASE HangsUp(t)
    <3>1. ~Waiting(t)'
      BY <2>3 DEF HangsUp, Exchanging, Waiting
    <3>2. u # t /\ Waiting(u)
      BY <1>1, <3>1
    <3> QED
      BY <1>3, <2>3, <3>2 DEF HangsUp, WaitsInv, FinalizesAlone, Waiting
  <2>4. CASE Connects(t)
    <3>1. ~Waiting(t)'
      BY <1>0, <2>4 DEF Connects, GoesOn, Goes, Waiting
    <3>2. u # t /\ Waiting(u)
      BY <1>1, <3>1
    <3> QED
      BY <2>1, <2>4, <3>2 DEF Connects, line
  <2>5. CASE Sends(t)
    <3>1. /\ cached' = cached /\ cached
          /\ conn'.unread = Append(conn.unread, asked[t]) /\ conn.unread \in Seq(Requests)
      BY <1>0, <2>5 DEF Sends, Streams
    <3>2. conn'.unread # <<>>
      BY <3>1
    <3> QED
      BY <3>1, <3>2
  <2>6. CASE Receives(t)
    <3>1. Waiting(t) /\ UNCHANGED <<cached, conn>>
      BY <2>6 DEF Receives, Waiting
    <3> QED
      BY <2>1, <3>1
  <2>7. CASE Leaves(t)
    <3>1. ~Waiting(t)' /\ cached' = cached
      BY <2>7 DEF Leaves, Exchanging, Waiting
    <3>2. u # t /\ Waiting(u)
      BY <1>1, <3>1
    <3>3. conn' = conn \/ (conn.answer # <<>> /\ conn' = [conn EXCEPT !.answer = <<>>])
      BY <2>7 DEF Leaves
    <3>4. conn'.up = conn.up /\ conn'.unread = conn.unread /\ conn'.answered = conn.answered
      BY <1>0, <3>3 DEF Streams
    <3> QED
      BY <2>1, <3>1, <3>2, <3>4
  <2> QED
    BY <2>2, <2>3, <2>4, <2>5, <2>6, <2>7, StepIs DEF ThreadStep
<1> QED
  BY <1>2, <1>4, <1>5 DEF WaitsInv

LEMMA DaemonWaits ==
  ASSUME TypeOK, WaitsInv, DaemonAnswers \/ DaemonCloses
  PROVE  WaitsInv'
<1>0. conn \in Streams /\ UNCHANGED <<cached, state, thread, disorder>>
  BY DEF TypeOK, DaemonAnswers, DaemonCloses
<1>1. StateHeld' /\ FinalizesAlone'
  BY <1>0 DEF state, thread, WaitsInv, StateHeld, FinalizesAlone, Asks, Exchanging, Listing
<1>2. DaemonAnswers => conn'.answered
  BY <1>0 DEF DaemonAnswers, Streams
<1>3. DaemonCloses => ~conn'.up
  BY <1>0 DEF DaemonCloses, Streams
<1>4. Owed'
  BY <1>0, <1>2, <1>3 DEF thread, WaitsInv, Owed, Waiting
<1> QED
  BY <1>1, <1>4 DEF WaitsInv

\* Whoever waits in the module waits, in the end, for coned, which owes an answer or has
\* given its last: no two calls wait for each other.
THEOREM NoCallsWaitForEachOther == Spec => []WaitsEndAtDaemon
<1>1. Init => WaitsInv
  BY DEF Init, WaitsInv, StateHeld, FinalizesAlone, Owed, Asks, Exchanging, Waiting
<1>2. Inv /\ WaitsInv /\ [Next]_vars => WaitsInv'
  <2> SUFFICES ASSUME Inv, WaitsInv, [Next]_vars PROVE WaitsInv'
    OBVIOUS
  <2>1. CASE UNCHANGED vars
    BY <2>1 DEF vars, state, line, thread, WaitsInv, StateHeld, FinalizesAlone, Owed, Asks,
                Exchanging, Listing, Waiting
  <2>2. ASSUME NEW t \in Threads, ThreadStep(t) PROVE WaitsInv'
    BY <2>2, StepWaits DEF Inv
  <2> QED
    BY <2>1, <2>2, DaemonWaits DEF Next, ThreadStep, Inv
<1>3. Inv /\ WaitsInv => WaitsEndAtDaemon
  BY DEF Inv, TypeOK, Held, WaitsInv, StateHeld, Asks, Owed, Waiting, WaitsEndAtDaemon,
         WaitsForState, WaitsForLine, WaitsForAnswer
<1> QED
  BY <1>1, <1>2, <1>3, SpecInv, PTL DEF Spec
=============================================================================
