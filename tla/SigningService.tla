--------------------------- MODULE SigningService ---------------------------
(***************************************************************************)
(* What the daemon promises its clients: it answers as if it handled the   *)
(* requests one at a time, each at an instant between the request and its  *)
(* answer, against a single store that is open or not.  An answer tells    *)
(* what the store was at that instant, and a Lock acknowledged was done.   *)
(***************************************************************************)
CONSTANT Conns    \* connections, a client each

VARIABLES
  serving,  \* the start-up is over
  open,     \* the store is open
  ask,      \* per connection: the request not answered yet, or "none"
  due,      \* per connection: the answer decided and not delivered yet, or "none"
  ans       \* per connection: the answer delivered and not read yet, or "none"

vars == <<serving, open, ask, due, ans>>

Requests == {"ping", "status", "lock", "list", "sign", "identities", "unknown", "bad"}
Refusals == {"error", "failure"}

Nothing == [c \in Conns |-> "none"]

\* What may be answered to a request handled while the store is open, or is not.
Outcomes(r, isOpen) ==
  CASE r = "ping"       -> {"pong"}
    [] r = "status"     -> {IF isOpen THEN "unlocked" ELSE "locked"}
    [] r = "lock"       -> {"ok"}
    [] r = "list"       -> {"error"} \cup IF isOpen THEN {"certs"} ELSE {}
    [] r = "sign"       -> Refusals \cup IF isOpen THEN {"signature"} ELSE {}
    [] r = "identities" -> {"empty"} \cup IF isOpen THEN {"identities"} ELSE {}
    [] OTHER            -> Refusals

Init ==
  /\ serving = FALSE /\ open = FALSE
  /\ ask = Nothing /\ due = Nothing /\ ans = Nothing

\* The store is opened before any client is served, and only then.
Open ==
  /\ ~serving
  /\ open' = TRUE
  /\ UNCHANGED <<serving, ask, due, ans>>

Serve ==
  /\ ~serving /\ open
  /\ serving' = TRUE
  /\ UNCHANGED <<open, ask, due, ans>>

\* A client may be rejected before it has asked.
Ask(c) ==
  /\ serving
  /\ ask[c] = "none" /\ ans[c] = "none" /\ due[c] \in {"none", "rejected"}
  /\ \E r \in Requests : ask' = [ask EXCEPT ![c] = r]
  /\ UNCHANGED <<serving, open, due, ans>>

\* The instant at which the request takes effect and its answer is settled.  Closing
\* the connection counts as a request that is refused.
Handle(c) ==
  /\ serving
  /\ due[c] = "none"
  /\ \E a \in Outcomes(ask[c], open) : due' = [due EXCEPT ![c] = a]
  /\ open' = (open /\ ask[c] # "lock")
  /\ UNCHANGED <<serving, ask, ans>>

\* A peer that is rejected has no effect on the store.
Reject(c) ==
  /\ serving
  /\ due[c] = "none"
  /\ due' = [due EXCEPT ![c] = "rejected"]
  /\ UNCHANGED <<serving, open, ask, ans>>

\* No answer is put in front of one that was not read.
Deliver(c) ==
  /\ serving
  /\ due[c] # "none" /\ ans[c] = "none"
  /\ ans' = [ans EXCEPT ![c] = due[c]]
  /\ ask' = [ask EXCEPT ![c] = "none"]
  /\ due' = [due EXCEPT ![c] = "none"]
  /\ UNCHANGED <<serving, open>>

Receive(c) ==
  /\ ans[c] # "none"
  /\ ans' = [ans EXCEPT ![c] = "none"]
  /\ UNCHANGED <<serving, open, ask, due>>

\* Connections are closed with what was asked or decided on them.
Lose(C) ==
  /\ ask' = [c \in Conns |-> IF c \in C THEN "none" ELSE ask[c]]
  /\ due' = [c \in Conns |-> IF c \in C THEN "none" ELSE due[c]]
  /\ UNCHANGED <<serving, open, ans>>

\* The process ends: the store is closed and every connection with it.
Stop ==
  /\ serving' = FALSE /\ open' = FALSE
  /\ ask' = Nothing /\ due' = Nothing
  /\ UNCHANGED ans

Next ==
  \/ Open \/ Serve \/ Stop
  \/ \E C \in SUBSET Conns : Lose(C)
  \/ \E c \in Conns : Ask(c) \/ Handle(c) \/ Reject(c) \/ Deliver(c) \/ Receive(c)

Spec == Init /\ [][Next]_vars
=============================================================================
