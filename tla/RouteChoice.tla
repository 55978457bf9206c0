---------------------------- MODULE RouteChoice ----------------------------
(***************************************************************************)
(* What a look-up in the route table promises: a question - the table as   *)
(* one query listed it, an app and a connection - is answered in one step  *)
(* with the best of all its routes, or with none if none is a candidate.   *)
(***************************************************************************)
EXTENDS RouteMatching

VARIABLES question, choice

NoQuestion == [list |-> <<>>, app |-> None, ip |-> None, open |-> FALSE]
Questions == [list : Seq(Routes), app : AppIds \cup {None}, ip : Ips \cup {None}, open : {TRUE}]

Init == question = NoQuestion /\ choice = NoRoute

Ask == /\ question = NoQuestion /\ question' \in Questions
       /\ UNCHANGED choice

Decide ==
  LET q == question
  IN  /\ q.open
      /\ \E b \in 0..Len(q.list) :
           /\ IsFirstBest(b, q.list, Len(q.list), q.app, q.ip)
           /\ choice' = IF b = 0 THEN NoRoute ELSE q.list[b]
      /\ question' = NoQuestion

Forget == question = NoQuestion /\ choice' = NoRoute /\ UNCHANGED question

Spec == Init /\ [][Ask \/ Decide \/ Forget]_<<question, choice>>
=============================================================================
