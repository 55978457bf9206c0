----------------------- MODULE RouteResolutionProofs -----------------------
(***************************************************************************)
(* Proofs about RouteResolution, for any table, any number of connections  *)
(* and any changes: the loop over routes finds the first of the best       *)
(* candidates (BestSoFar), the loop implements RouteChoice, no answer is   *)
(* of a route removed before (NoRouteOfThePast), the two queries of a      *)
(* look-up act as one (TwoQueriesActAsOne), and no route is overlooked if  *)
(* the tables stand still (AnswerIsWholeTable).                            *)
(*                                                                         *)
(* The induction is over the turns of the loop, and its step is the lemma  *)
(* FirstBestStep about the order on candidates; RInv adds what the actions *)
(* around the loop leave behind for it, PastInv, OneInv and StillInv what  *)
(* a list has to do with the tables.                                       *)
(***************************************************************************)
EXTENDS RouteResolution, FiniteSetTheorems, TLAPS

RInv ==
  /\ TypeOK
  /\ BestSoFar
  /\ pc = "apps" => k = 1 /\ best = 0
  /\ pc \in {"routes", "apps", "scan"} => chosen = NoRoute
  /\ outcome = "cert" => pc = "done"

-----------------------------------------------------------------------------
(* The order on candidates *)

\* Priority and specificity are compared as a pair of integers, so what beats a
\* route that c does not beat is not beaten by c.
LEMMA BetterIsAnOrder ==
  ASSUME NEW r \in Routes, NEW s \in Routes, NEW t \in Routes, NEW a, NEW ip,
         Better(t, s, a, ip), ~Better(r, s, a, ip)
  PROVE  Better(t, r, a, ip) /\ ~Better(r, t, a, ip)
<1>1. r.prio \in Int /\ s.prio \in Int /\ t.prio \in Int
  BY RoutesAssumption
<1>2. \A q : Specificity(q, a, ip) \in Int
  BY DEF Specificity
<1> QED
  BY <1>1, <1>2 DEF Better

\* One more route: it is taken if it is a candidate and better than the best.
LEMMA FirstBestStep ==
  ASSUME NEW list \in Seq(Routes), NEW n \in Nat, n < Len(list), NEW a, NEW ip,
         NEW b \in 0..n, IsFirstBest(b, list, n, a, ip)
  PROVE  IsFirstBest(IF /\ Candidate(list[n + 1], a, ip)
                        /\ b = 0 \/ Better(list[n + 1], list[b], a, ip)
                     THEN n + 1 ELSE b, list, n + 1, a, ip)
<1> DEFINE Cand(j) == Candidate(list[j], a, ip)
           Beats(j, i) == Better(list[j], list[i], a, ip)
<1>1. \A j \in 1..(n + 1) : list[j] \in Routes
  OBVIOUS
<1>2. \A j \in 1..(n + 1) : j \in 1..n \/ j = n + 1
  OBVIOUS
<1>3. CASE ~Cand(n + 1)
  BY <1>2, <1>3 DEF IsFirstBest
<1>4. CASE Cand(n + 1) /\ b = 0
  <2>1. \A j \in 1..n : ~Cand(j)
    BY <1>4 DEF IsFirstBest
  <2>2. ~Beats(n + 1, n + 1)
    <3>1. list[n + 1].prio \in Int
      BY <1>1, RoutesAssumption
    <3> QED
      BY <3>1 DEF Better, Specificity
  <2> QED
    BY <1>2, <1>4, <2>1, <2>2 DEF IsFirstBest
<1>5. CASE Cand(n + 1) /\ b # 0 /\ Beats(n + 1, b)
  <2>1. b \in 1..n /\ \A j \in 1..n : Cand(j) => ~Beats(j, b)
    BY <1>5 DEF IsFirstBest
  <2>2. \A j \in 1..n : Cand(j) => Beats(n + 1, j) /\ ~Beats(j, n + 1)
    BY <1>1, <1>5, <2>1, BetterIsAnOrder
  <2>3. ~Beats(n + 1, n + 1)
    <3>1. list[n + 1].prio \in Int
      BY <1>1, RoutesAssumption
    <3> QED
      BY <3>1 DEF Better, Specificity
  <2> QED
    BY <1>2, <1>5, <2>2, <2>3 DEF IsFirstBest
<1>6. CASE Cand(n + 1) /\ b # 0 /\ ~Beats(n + 1, b)
  <2>1. b \in 1..n /\ Cand(b)
        /\ \A j \in 1..n : Cand(j) => ~Beats(j, b) /\ (j < b => Beats(b, j))
    BY <1>6 DEF IsFirstBest
  <2> QED
    BY <1>2, <1>6, <2>1 DEF IsFirstBest
<1> QED
  BY <1>3, <1>4, <1>5, <1>6

-----------------------------------------------------------------------------
(* The invariant *)

LEMMA ListsAreSequences ==
  ASSUME NEW R \in SUBSET Routes, IsFiniteSet(R), NEW s \in ListsOf(R)
  PROVE  s \in Seq(Routes)
<1>1. Cardinality(R) \in Nat
  BY FS_CardinalityType
<1>2. s \in [1..Cardinality(R) -> Routes]
  BY DEF ListsOf
<1> QED
  BY <1>1, <1>2

LEMMA IpType == ASSUME TypeOK PROVE Ip \in Ips \cup {None}
BY DEF TypeOK, Ip

LEMMA ChangeInv ==
  ASSUME RInv, RouteAdd \/ RouteRemove \/ AppAdd
  PROVE  RInv'
<1>1. PICK R \in SUBSET Routes, A \in SUBSET AppRows : IsFiniteSet(R) /\ Change(R, A)
  <2>1. CASE RouteAdd
    BY <2>1, FS_AddElement DEF RouteAdd, RInv, TypeOK
  <2>2. CASE RouteRemove
    BY <2>2, FS_Subset DEF RouteRemove, RInv, TypeOK
  <2>3. CASE AppAdd
    BY <2>3 DEF AppAdd, RInv, TypeOK
  <2> QED
    BY <2>1, <2>2, <2>3
<1>2. TypeOK'
  BY <1>1, BoundsAssumption DEF RInv, TypeOK, Change, request, scan
<1> QED
  BY <1>1, <1>2 DEF RInv, Change, request, scan, BestSoFar, Ip

LEMMA StartInv ==
  ASSUME RInv, NEW p \in Procs, NEW cs \in ConnLists, Start(p, cs)
  PROVE  RInv'
<1>1. cs \in Seq(Ips) /\ Len(cs) <= MaxConns
  BY BoundsAssumption DEF ConnLists
<1>2. pc' \in {"done", "routes"} /\ outcome' \in {"none", "error"}
  BY DEF Start
<1>3. TypeOK'
  BY <1>1, <1>2 DEF Start, RInv, TypeOK, tables, scan
<1> QED
  BY <1>2, <1>3 DEF Start, RInv, BestSoFar

LEMMA QueryInv ==
  ASSUME RInv, ListRoutes \/ ListApps \/ QueryFails
  PROVE  RInv'
<1>1. CASE ListRoutes
  <2>1. listed' \in Seq(Routes)
    BY <1>1, ListsAreSequences DEF ListRoutes, RInv, TypeOK
  <2>2. then' \in AppIds \cup {None}
    BY <1>1, RowsAssumption DEF ListRoutes, AppFor, RInv, TypeOK
  <2>3. TypeOK'
    BY <1>1, <2>1, <2>2 DEF ListRoutes, RInv, TypeOK, tables, request
  <2> QED
    BY <1>1, <2>3 DEF ListRoutes, RInv, BestSoFar
<1>2. CASE ListApps
  <2>1. app' \in AppIds \cup {None}
    BY <1>2, RowsAssumption DEF ListApps, AppFor, RInv, TypeOK
  <2>2. TypeOK'
    BY <1>2, <2>1 DEF ListApps, RInv, TypeOK, tables, request, ghosts
  <2>3. BestSoFar'
    BY <1>2 DEF ListApps, RInv, TypeOK, BestSoFar, IsFirstBest
  <2> QED
    BY <1>2, <2>2, <2>3 DEF ListApps, RInv
<1>3. CASE QueryFails
  BY <1>3 DEF QueryFails, Ends, RInv, TypeOK, tables, request, scan, ghosts, BestSoFar
<1> QED
  BY <1>1, <1>2, <1>3

LEMMA LoopInv ==
  ASSUME RInv, Scan \/ Found \/ NextConn \/ Refused
  PROVE  RInv'
<1>1. CASE Scan
  <2>1. /\ listed \in Seq(Routes) /\ k - 1 \in Nat /\ k - 1 < Len(listed)
        /\ best \in 0..(k - 1) /\ IsFirstBest(best, listed, k - 1, app, Ip)
    BY <1>1 DEF Scan, RInv, TypeOK, BestSoFar, IsFirstBest
  <2>2. IsFirstBest(best', listed, (k - 1) + 1, app, Ip)
    BY <1>1, <2>1, FirstBestStep, (k - 1) + 1 = k DEF Scan, RInv, TypeOK
  <2>3. BestSoFar'
    BY <1>1, <2>2, (k - 1) + 1 = k' - 1 DEF Scan, RInv, TypeOK, BestSoFar, Ip, tables, request
  <2>4. TypeOK'
    BY <1>1 DEF Scan, RInv, TypeOK, tables, request, ghosts
  <2> QED
    BY <1>1, <2>3, <2>4 DEF Scan, RInv
<1>2. CASE Found
  <2>1. best \in 1..Len(listed) /\ Candidate(listed[best], app, Ip)
    BY <1>2 DEF Found, RInv, TypeOK, BestSoFar, IsFirstBest
  <2>2. chosen' = listed[best] /\ UNCHANGED <<app, at, conns>>
    BY <1>2 DEF Found, Ends, request, scan
  <2>3. TypeOK'
    BY <1>2, <2>1, <2>2 DEF Found, Ends, RInv, TypeOK, tables, request, scan, ghosts
  <2> QED
    BY <1>2, <2>3 DEF Found, Ends, RInv, BestSoFar
<1>3. CASE NextConn
  BY <1>3 DEF NextConn, RInv, TypeOK, tables, request, scan, ghosts, BestSoFar
<1>4. CASE Refused
  BY <1>4 DEF Refused, Ends, RInv, TypeOK, tables, request, scan, ghosts, BestSoFar
<1> QED
  BY <1>1, <1>2, <1>3, <1>4

THEOREM RInvHolds == Spec => []RInv
<1>1. Init => RInv
  <2> SUFFICES ASSUME Init PROVE RInv
    OBVIOUS
  <2>1. TypeOK
    BY BoundsAssumption DEF Init, TypeOK
  <2> QED
    BY <2>1 DEF Init, RInv, BestSoFar
<1>2. RInv /\ [Next]_vars => RInv'
  <2> SUFFICES ASSUME RInv, [Next]_vars PROVE RInv'
    OBVIOUS
  <2>1. CASE UNCHANGED vars
    BY <2>1 DEF vars, tables, request, scan, ghosts, RInv, TypeOK, BestSoFar, Ip
  <2> QED
    BY <2>1, ChangeInv, StartInv, QueryInv, LoopInv DEF Next
<1> QED
  BY <1>1, <1>2, PTL DEF Spec

\* Every variable keeps its type: best and k stay inside the list they index.
THEOREM RouteTypeCorrect == Spec => []TypeOK
<1>1. RInv => TypeOK
  BY DEF RInv
<1> QED
  BY <1>1, RInvHolds, PTL

\* At every turn of the loop over routes best is the first of the best so far.
THEOREM LoopKeepsTheBest == Spec => []BestSoFar
<1>1. RInv => BestSoFar
  BY DEF RInv
<1> QED
  BY <1>1, RInvHolds, PTL

-----------------------------------------------------------------------------
(* The loop implements RouteChoice *)

\* RouteChoice has the same matching rules.
LEMMA SameRules ==
  /\ Choice!None = None /\ Choice!NoRoute = NoRoute
  /\ \A b, list, n, a, ip :
       Choice!IsFirstBest(b, list, n, a, ip) <=> IsFirstBest(b, list, n, a, ip)
<1>1. Choice!None = None /\ Choice!NoRoute = NoRoute
  BY DEF Choice!None, None, Choice!NoRoute, NoRoute
<1>2. \A r, a, ip : Choice!Candidate(r, a, ip) <=> Candidate(r, a, ip)
  BY DEF Choice!Candidate, Candidate, Choice!AppMatches, AppMatches, Choice!HostMatches,
         HostMatches, Choice!None, None
<1>3. \A r, a, ip : Choice!Specificity(r, a, ip) = Specificity(r, a, ip)
  BY DEF Choice!Specificity, Specificity, Choice!AppMatches, AppMatches, Choice!HostMatches,
         HostMatches, Choice!None, None
<1>4. \A r, s, a, ip : Choice!Better(r, s, a, ip) <=> Better(r, s, a, ip)
  BY <1>3 DEF Choice!Better, Better
<1> QED
  BY <1>1, <1>2, <1>4 DEF Choice!IsFirstBest, IsFirstBest

LEMMA StepImplements ==
  ASSUME RInv, RInv', [Next]_vars
  PROVE  [Choice!Ask \/ Choice!Decide \/ Choice!Forget]_<<Question, chosen>>
<1> USE DEF Question, Choice!NoQuestion
<1>1. CASE UNCHANGED vars
  BY <1>1 DEF vars, tables, request, scan, ghosts, Ip
<1>2. CASE RouteAdd \/ RouteRemove \/ AppAdd
  BY <1>2 DEF RouteAdd, RouteRemove, AppAdd, Change, request, scan, Ip
<1>3. ASSUME NEW p \in Procs, NEW cs \in ConnLists, Start(p, cs) PROVE Choice!Forget
  BY <1>3, SameRules DEF Start, Choice!Forget
<1>4. CASE ListRoutes \/ QueryFails
  BY <1>4 DEF ListRoutes, QueryFails, Ends
<1>5. CASE ListApps
  <2>0. TypeOK'
    BY DEF RInv
  <2>1. /\ listed' \in Seq(Routes) /\ app' \in AppIds \cup {None}
        /\ Ip' \in Ips \cup {None}
    <3>1. listed' \in Seq(Routes) /\ app' \in AppIds \cup {None}
      BY <2>0 DEF TypeOK
    <3>2. conns' \in Seq(Ips) /\ at' \in 1..(Len(conns') + 1)
      BY <2>0 DEF TypeOK
    <3>3. CASE at' <= Len(conns')
      BY <3>1, <3>2, <3>3 DEF Ip
    <3>4. CASE ~(at' <= Len(conns'))
      BY <3>1, <3>4 DEF Ip
    <3> QED
      BY <3>3, <3>4
  <2> QED
    BY <1>5, <2>1, SameRules DEF ListApps, Choice!Ask, Choice!Questions, Ip
<1>6. CASE Scan
  BY <1>6 DEF Scan, tables, request, Ip
<1>7. CASE Found \/ NextConn \/ Refused
  <2>a. pc = "scan" /\ k > Len(listed)
    BY <1>7 DEF Found, NextConn, Refused
  <2>b. best \in 0..Len(listed) /\ k \in 1..(Len(listed) + 1) /\ Len(listed) \in Nat
    BY DEF RInv, TypeOK
  <2>c. chosen' = IF best = 0 THEN NoRoute ELSE listed[best]
    <3>1. pc = "scan" => chosen = NoRoute
      BY DEF RInv
    <3>2. CASE Found
      BY <3>2 DEF Found
    <3>3. CASE NextConn
      BY <2>a, <3>1, <3>3 DEF NextConn
    <3>4. CASE Refused
      BY <2>a, <3>1, <3>4 DEF Refused
    <3> QED
      BY <1>7, <3>2, <3>3, <3>4
  <2>d. pc' # "scan"
    BY <1>7 DEF Found, NextConn, Refused, Ends
  <2>1. /\ pc = "scan" /\ pc' # "scan"
        /\ best \in 0..Len(listed)
        /\ chosen' = IF best = 0 THEN NoRoute ELSE listed[best]
    BY <2>a, <2>b, <2>c, <2>d
  <2>2. IsFirstBest(best, listed, Len(listed), app, Ip)
    <3>1. k - 1 = Len(listed)
      BY <2>a, <2>b
    <3> QED
      BY <2>1, <3>1 DEF RInv, BestSoFar
  <2> QED
    BY <2>1, <2>2, SameRules DEF Choice!Decide
<1> QED
  BY <1>1, <1>2, <1>3, <1>4, <1>5, <1>6, <1>7 DEF Next

\* For every table and request, the loop's answer is one that RouteChoice allows
\* for the list and the app the look-up read.
THEOREM LoopImplementsChoice == Spec => ImplementsChoice
<1>1. Init => Choice!Init
  BY SameRules DEF Init, Choice!Init, Question, Choice!NoQuestion
<1> QED
  BY <1>1, StepImplements, RInvHolds, PTL DEF Spec, ImplementsChoice, Choice!Spec

-----------------------------------------------------------------------------
(* Every look-up sees the table of its own request *)

PastInv ==
  /\ pc \in {"routes", "apps", "scan"} => routes \subseteq seen
  /\ pc \in {"apps", "scan"} => \A j \in 1..Len(listed) : listed[j] \in seen
  /\ NoRouteOfThePast

LEMMA PastStep ==
  ASSUME RInv, PastInv, [Next]_vars
  PROVE  PastInv'
<1> USE DEF PastInv, NoRouteOfThePast
<1>1. CASE UNCHANGED vars
  BY <1>1 DEF vars, tables, request, scan, ghosts
<1>2. CASE RouteAdd \/ RouteRemove \/ AppAdd
  BY <1>2 DEF RouteAdd, RouteRemove, AppAdd, Change, request, scan
<1>3. ASSUME NEW p \in Procs, NEW cs \in ConnLists, Start(p, cs) PROVE PastInv'
  BY <1>3 DEF Start, tables, scan
<1>4. CASE ListRoutes
  <2>1. PICK s \in ListsOf(routes) : listed' = s
    BY <1>4 DEF ListRoutes
  <2>2. /\ s \in Seq(Routes)
        /\ \A j \in DOMAIN s : s[j] \in routes
    BY <2>1, ListsAreSequences DEF ListsOf, RInv, TypeOK
  <2>3. \A j \in 1..Len(listed') : listed'[j] \in seen
    BY <1>4, <2>1, <2>2 DEF ListRoutes
  <2> QED
    BY <1>4, <2>3 DEF ListRoutes, tables, request, RInv
<1>5. CASE ListApps \/ QueryFails \/ Scan \/ NextConn \/ Refused
  BY <1>5 DEF ListApps, QueryFails, Scan, NextConn, Refused, Ends, tables, request, scan, ghosts, RInv
<1>6. CASE Found
  <2>1. best \in 1..Len(listed)
    BY <1>6 DEF Found, RInv, TypeOK
  <2> QED
    BY <1>6, <2>1 DEF Found, Ends, tables, request, scan, ghosts
<1> QED
  BY <1>1, <1>2, <1>3, <1>4, <1>5, <1>6 DEF Next

\* A route removed before the request came does not answer it, whatever else the CLI
\* changes and however many look-ups the request takes (list.rs:315).
THEOREM ThePastIsForgotten == Spec => []NoRouteOfThePast
<1>1. Init => PastInv
  BY DEF Init, PastInv, NoRouteOfThePast
<1>2. PastInv => NoRouteOfThePast
  BY DEF PastInv
<1> QED
  BY <1>1, <1>2, PastStep, RInvHolds, PTL DEF Spec

-----------------------------------------------------------------------------
(* The two queries of a look-up act as one *)

\* Apps are only added, and no route refers to an app that is not there.
KeysInv == ValidApps(apps) /\ \A r \in routes : ValidRoute(r, apps)

\* For the routes listed, an app is as good as the one there was when they were.
Agrees(a) ==
  \/ a = then
  \/ then = None /\ \A j \in 1..Len(listed) : listed[j].app = None \/ listed[j].app # a

OneInv ==
  /\ KeysInv
  /\ pc = "apps" => /\ \A j \in 1..Len(listed) : ValidRoute(listed[j], apps)
                    /\ \A a \in AppFor(proc.exe) : Agrees(a)
  /\ pc = "scan" => Agrees(app)
  /\ TwoQueriesActAsOne

\* Apps that agree make the same candidates, in the same order.
LEMMA AgreeingApps ==
  ASSUME NEW a, Agrees(a), NEW n \in 0..Len(listed), NEW b \in 0..Len(listed), NEW ip,
         IsFirstBest(b, listed, n, a, ip)
  PROVE  IsFirstBest(b, listed, n, then, ip)
<1>1. \A j \in 1..Len(listed) :
        /\ AppMatches(listed[j], a) <=> AppMatches(listed[j], then)
        /\ Specificity(listed[j], a, ip) = Specificity(listed[j], then, ip)
  BY DEF Agrees, AppMatches, Specificity
<1>2. \A j \in 1..Len(listed) : Candidate(listed[j], a, ip) <=> Candidate(listed[j], then, ip)
  BY <1>1 DEF Candidate
<1>3. \A i, j \in 1..Len(listed) :
        Better(listed[i], listed[j], a, ip) <=> Better(listed[i], listed[j], then, ip)
  BY <1>1 DEF Better
<1>4. 1..n \subseteq 1..Len(listed) /\ (b # 0 => b \in 1..Len(listed))
  OBVIOUS
<1> QED
  BY <1>2, <1>3, <1>4 DEF IsFirstBest

\* One row at most has the exe, so a query has no choice of app.
LEMMA OneAppEach ==
  ASSUME ValidApps(apps), NEW i \in AppFor(proc.exe), NEW j \in AppFor(proc.exe)
  PROVE  i = j
BY DEF ValidApps, AppFor

LEMMA OneChange ==
  ASSUME RInv, OneInv, RouteAdd \/ RouteRemove \/ AppAdd
  PROVE  OneInv'
<1>1. UNCHANGED <<proc, conns, at, pc, listed, app, k, best, chosen, outcome, then>>
  BY DEF RouteAdd, RouteRemove, AppAdd, Change, request, scan
<1>2. TwoQueriesActAsOne' /\ (pc' = "scan" => Agrees(app)')
  BY <1>1 DEF OneInv, TwoQueriesActAsOne, Agrees, Ip
<1>3. CASE RouteAdd \/ RouteRemove
  <2>1. apps' = apps /\ \A r \in routes' : ValidRoute(r, apps)
    BY <1>3 DEF RouteAdd, RouteRemove, Change, OneInv, KeysInv
  <2> QED
    BY <1>1, <1>2, <2>1 DEF OneInv, KeysInv, AppFor, Agrees
<1>4. CASE AppAdd
  <2>1. PICK b \in AppRows \ apps :
          ValidApps(apps \cup {b}) /\ routes' = routes /\ apps' = apps \cup {b}
    BY <1>4 DEF AppAdd, Change
  <2>2. \A r : ValidRoute(r, apps) => ValidRoute(r, apps')
    BY <2>1 DEF ValidRoute
  <2>3. ASSUME pc = "apps", NEW a \in AppFor(proc.exe)'
        PROVE  Agrees(a)'
    <3>1. CASE a \in AppFor(proc.exe)
      BY <1>1, <2>3, <3>1 DEF OneInv, Agrees
    <3>2. CASE a \notin AppFor(proc.exe)
      <4>1. a = b.id /\ b.exe = proc.exe
        BY <1>1, <2>1, <2>3, <3>2 DEF AppFor
      <4>2. AppFor(proc.exe) = {None}
        BY <2>1, <4>1 DEF AppFor, ValidApps
      <4>3. then = None
        BY <2>3, <4>2 DEF OneInv, Agrees
      <4>4. b.id \notin {c.id : c \in apps}
        BY <2>1 DEF ValidApps
      <4>5. \A j \in 1..Len(listed) : listed[j].app = None \/ listed[j].app # b.id
        BY <2>3, <4>4 DEF OneInv, ValidRoute
      <4> QED
        BY <1>1, <4>1, <4>3, <4>5 DEF Agrees
    <3> QED
      BY <3>1, <3>2
  <2> QED
    BY <1>1, <1>2, <2>1, <2>2, <2>3 DEF OneInv, KeysInv
<1> QED
  BY <1>3, <1>4

LEMMA OneStep ==
  ASSUME RInv, OneInv, [Next]_vars
  PROVE  OneInv'
<1>1. CASE UNCHANGED vars
  BY <1>1 DEF vars, tables, request, scan, ghosts, OneInv, KeysInv, AppFor, Agrees,
              TwoQueriesActAsOne, Ip
<1>2. ASSUME NEW p \in Procs, NEW cs \in ConnLists, Start(p, cs) PROVE OneInv'
  BY <1>2 DEF Start, tables, OneInv, KeysInv, TwoQueriesActAsOne
<1>3. CASE ListRoutes
  <2>1. PICK s \in ListsOf(routes) : listed' = s
    BY <1>3 DEF ListRoutes
  <2>2. s \in Seq(Routes) /\ \A j \in DOMAIN s : s[j] \in routes
    BY <2>1, ListsAreSequences DEF ListsOf, RInv, TypeOK
  <2>3. \A j \in 1..Len(listed') : ValidRoute(listed'[j], apps)
    BY <2>1, <2>2 DEF OneInv, KeysInv
  <2>4. \A a \in AppFor(proc.exe) : a = then'
    BY <1>3, OneAppEach DEF ListRoutes, OneInv, KeysInv
  <2>5. pc' = "apps" /\ outcome' = outcome /\ UNCHANGED <<routes, apps, proc>>
    BY <1>3 DEF ListRoutes, tables, request
  <2>6. ASSUME NEW b \in AppFor(proc.exe)' PROVE Agrees(b)'
    <3>1. AppFor(proc.exe)' = AppFor(proc.exe)
      BY <2>5 DEF AppFor
    <3>2. b = then'
      BY <2>4, <2>6, <3>1
    <3> QED
      BY <3>2 DEF Agrees
  <2>7. KeysInv' /\ TwoQueriesActAsOne'
    BY <2>5 DEF OneInv, KeysInv, TwoQueriesActAsOne
  <2> QED
    BY <2>3, <2>5, <2>6, <2>7 DEF OneInv
<1>4. CASE ListApps
  <2>1. Agrees(app)'
    BY <1>4 DEF ListApps, OneInv, Agrees, ghosts
  <2>2. IsFirstBest(best, listed, k - 1, then, Ip)'
    BY <1>4 DEF ListApps, RInv, TypeOK, IsFirstBest
  <2> QED
    BY <1>4, <2>1, <2>2 DEF ListApps, tables, OneInv, KeysInv, TwoQueriesActAsOne
<1>5. CASE Scan
  <2>1. BestSoFar' /\ TypeOK'
    BY <1>5, LoopInv DEF RInv
  <2>2. /\ pc = "scan" /\ pc' = "scan" /\ Agrees(app)' /\ UNCHANGED <<tables, ghosts>>
    BY <1>5 DEF Scan, OneInv, Agrees, ghosts
  <2>3. IsFirstBest(best', listed', k' - 1, app', Ip')
    BY <2>1, <2>2 DEF BestSoFar
  <2>4. /\ listed' = listed /\ then' = then /\ app' = app /\ Agrees(app)
        /\ k' - 1 \in 0..Len(listed) /\ best' \in 0..Len(listed)
    BY <1>5, <2>1 DEF Scan, OneInv, TypeOK, ghosts
  <2>5. IsFirstBest(best', listed, k' - 1, then, Ip')
    BY <2>3, <2>4, AgreeingApps
  <2> QED
    BY <2>2, <2>4, <2>5 DEF tables, OneInv, KeysInv, TwoQueriesActAsOne
<1>6. CASE Found \/ Refused
  <2>1. /\ pc = "scan" /\ pc' = "done" /\ k - 1 = Len(listed)
        /\ UNCHANGED <<tables, request, at, scan, ghosts>>
        /\ chosen' = IF best = 0 THEN NoRoute ELSE listed[best]
    BY <1>6 DEF Found, Refused, Ends, RInv, TypeOK
  <2>2. IsFirstBest(best, listed, Len(listed), then, Ip)
    BY <2>1 DEF OneInv, TwoQueriesActAsOne
  <2>3. TwoQueriesActAsOne'
    BY <2>1, <2>2 DEF request, scan, ghosts, TwoQueriesActAsOne, Ip
  <2> QED
    BY <2>1, <2>3 DEF tables, OneInv, KeysInv
<1>7. CASE NextConn \/ QueryFails
  BY <1>7 DEF NextConn, QueryFails, Ends, tables, request, scan, ghosts, OneInv, KeysInv,
              TwoQueriesActAsOne, RInv
<1> QED
  BY <1>1, <1>2, <1>3, <1>4, <1>5, <1>6, <1>7, OneChange DEF Next

\* Every look-up answers as the tables did when it listed the routes, whatever the CLI
\* adds or removes between that query and the one for the apps (list.rs:315-316).
THEOREM LookUpsAreAtomic == Spec => []TwoQueriesActAsOne
<1>1. Init => OneInv
  BY DEF Init, OneInv, KeysInv, TwoQueriesActAsOne
<1>2. OneInv => TwoQueriesActAsOne
  BY DEF OneInv
<1> QED
  BY <1>1, <1>2, OneStep, RInvHolds, PTL DEF Spec

-----------------------------------------------------------------------------
(* If the tables stand still, the answer is that of the whole table *)

TheApp == CHOOSE i \in AppFor(proc.exe) : TRUE
IpOf(n) == IF n <= Len(conns) THEN conns[n] ELSE None
NoneOpen(n) == \A r \in routes : ~Candidate(r, TheApp, IpOf(n))

StillInv ==
  changes = 0 =>
    /\ ValidApps(apps)
    /\ pc \in {"routes", "apps", "scan"} => \A n \in 1..(at - 1) : NoneOpen(n)
    /\ pc \in {"apps", "scan"} => routes = {listed[j] : j \in 1..Len(listed)}
    /\ pc = "scan" => app = TheApp
    /\ AnswerIsWholeTable

\* A list of R without repetition, as long as R is large, has every element of R.
LEMMA ListsAreComplete ==
  ASSUME NEW R \in SUBSET Routes, IsFiniteSet(R), NEW s \in ListsOf(R)
  PROVE  R = {s[j] : j \in 1..Len(s)}
<1> DEFINE n == Cardinality(R)
<1>1. n \in Nat
  BY FS_CardinalityType
<1>2. s \in Injection(1..n, R)
  BY DEF ListsOf, Injection, IsInjective
<1>3. Cardinality(1..n) = n
  BY <1>1, FS_Interval
<1>4. s \in Surjection(1..n, R)
  BY <1>2, <1>3, FS_Injection
<1>5. Len(s) = n
  BY <1>1, <1>2 DEF Injection
<1> QED
  BY <1>4, <1>5 DEF Surjection

\* The app a look-up may read is the one of the process.
LEMMA AppIsTheApp ==
  ASSUME ValidApps(apps), NEW i \in AppFor(proc.exe)
  PROVE  i = TheApp
BY OneAppEach DEF TheApp

\* With no candidate in the list, no route of the table is one.
LEMMA NoneIsOpen ==
  ASSUME RInv, StillInv, changes = 0, pc = "scan", k > Len(listed), best = 0
  PROVE  NoneOpen(at)
<1>1. \A j \in 1..Len(listed) : ~Candidate(listed[j], app, Ip)
  BY DEF RInv, TypeOK, BestSoFar, IsFirstBest
<1>2. app = TheApp /\ Ip = IpOf(at)
  BY DEF StillInv, Ip, IpOf
<1> QED
  BY <1>1, <1>2 DEF StillInv, NoneOpen

LEMMA StillChange ==
  ASSUME RInv, RouteAdd \/ RouteRemove \/ AppAdd
  PROVE  StillInv'
<1>1. changes' = changes + 1
  BY DEF RouteAdd, RouteRemove, AppAdd, Change
<1>2. changes' # 0
  BY <1>1 DEF RInv, TypeOK
<1> QED
  BY <1>2 DEF StillInv

LEMMA StillQuery ==
  ASSUME RInv, StillInv, ListRoutes \/ ListApps \/ QueryFails
  PROVE  StillInv'
<1>1. CASE ListRoutes
  <2>1. routes = {listed'[j] : j \in 1..Len(listed')}
    BY <1>1, ListsAreComplete DEF ListRoutes, RInv, TypeOK
  <2>2. pc = "routes" /\ pc' = "apps" /\ UNCHANGED <<tables, request, at>>
    BY <1>1 DEF ListRoutes
  <2>3. changes = 0 => \A n \in 1..(at - 1) : NoneOpen(n)
    BY <2>2 DEF StillInv
  <2>4. changes = 0 => \A n \in 1..(at' - 1) : NoneOpen(n)'
    BY <2>2, <2>3 DEF tables, request, NoneOpen, TheApp, IpOf, AppFor
  <2> QED
    BY <2>1, <2>2, <2>4 DEF StillInv, tables, AnswerIsWholeTable
<1>2. CASE ListApps
  <2>1. changes = 0 => app' = TheApp
    BY <1>2, AppIsTheApp DEF ListApps, StillInv
  <2>2. pc' = "scan" /\ UNCHANGED <<tables, request, at, listed>> /\ pc = "apps"
    BY <1>2 DEF ListApps
  <2>3. TheApp' = TheApp /\ \A n \in 1..(at - 1) : NoneOpen(n)' <=> NoneOpen(n)
    BY <2>2 DEF tables, request, NoneOpen, TheApp, IpOf, AppFor
  <2>4. AnswerIsWholeTable'
    BY <2>2 DEF AnswerIsWholeTable
  <2> QED
    BY <2>1, <2>2, <2>3, <2>4 DEF StillInv, tables
<1>3. CASE QueryFails
  BY <1>3 DEF QueryFails, Ends, StillInv, tables, request, scan, ghosts, AnswerIsWholeTable
<1> QED
  BY <1>1, <1>2, <1>3

LEMMA StillFound ==
  ASSUME RInv, StillInv, Found
  PROVE  StillInv'
<1> SUFFICES ASSUME changes = 0 PROVE StillInv'
  BY DEF Found, Ends, StillInv, tables
<1>1. /\ best \in 1..Len(listed)
      /\ Candidate(listed[best], app, Ip)
      /\ \A j \in 1..Len(listed) :
           Candidate(listed[j], app, Ip) => ~Better(listed[j], listed[best], app, Ip)
  BY DEF Found, RInv, TypeOK, BestSoFar, IsFirstBest
<1>2. app = TheApp /\ Ip = IpOf(at) /\ routes = {listed[j] : j \in 1..Len(listed)}
  BY DEF Found, StillInv, Ip, IpOf
<1>3. /\ chosen' \in routes /\ Candidate(chosen', TheApp, IpOf(at))
      /\ \A r \in routes : Candidate(r, TheApp, IpOf(at)) => ~Better(r, chosen', TheApp, IpOf(at))
  BY <1>1, <1>2 DEF Found
<1>4. UNCHANGED <<routes, apps, proc, conns, at>> /\ pc' = "done" /\ outcome' = "cert"
  BY DEF Found, Ends, tables, request
<1>5. \A n \in 1..(at - 1) : NoneOpen(n)
  BY DEF Found, StillInv
<1>6. AnswerIsWholeTable'
  BY <1>3, <1>4, <1>5 DEF AnswerIsWholeTable, NoneOpen, TheApp, IpOf, AppFor
<1> QED
  BY <1>4, <1>6 DEF StillInv

LEMMA StillRefused ==
  ASSUME RInv, StillInv, Refused
  PROVE  StillInv'
<1> SUFFICES ASSUME changes = 0 PROVE StillInv'
  BY DEF Refused, Ends, StillInv, tables
<1>1. NoneOpen(at) /\ \A n \in 1..(at - 1) : NoneOpen(n)
  BY NoneIsOpen DEF Refused, StillInv
<1>2. at = Len(conns) + 1
  BY DEF Refused, RInv, TypeOK
<1>3. UNCHANGED <<routes, apps, proc, conns, at>> /\ pc' = "done" /\ outcome' = "noroute"
  BY DEF Refused, Ends, tables, request
<1>4. AnswerIsWholeTable'
  BY <1>1, <1>2, <1>3 DEF AnswerIsWholeTable, NoneOpen, TheApp, IpOf, AppFor
<1> QED
  BY <1>3, <1>4 DEF StillInv

LEMMA StillNextConn ==
  ASSUME RInv, StillInv, NextConn
  PROVE  StillInv'
<1> SUFFICES ASSUME changes = 0 PROVE StillInv'
  BY DEF NextConn, StillInv, tables
<1>1. NoneOpen(at) /\ \A n \in 1..(at - 1) : NoneOpen(n)
  BY NoneIsOpen DEF NextConn, StillInv
<1>2. \A n \in 1..(at' - 1) : NoneOpen(n)
  BY <1>1 DEF NextConn, RInv, TypeOK
<1>3. UNCHANGED <<routes, apps, proc, conns>> /\ pc' = "routes"
  BY DEF NextConn, tables, request
<1>4. \A n \in 1..(at' - 1) : NoneOpen(n)'
  BY <1>2, <1>3 DEF NoneOpen, TheApp, IpOf, AppFor
<1> QED
  BY <1>3, <1>4 DEF StillInv, AnswerIsWholeTable

LEMMA StillStep ==
  ASSUME RInv, StillInv, [Next]_vars
  PROVE  StillInv'
<1>1. CASE UNCHANGED vars
  <2>1. AnswerIsWholeTable' <=> AnswerIsWholeTable
    BY <1>1 DEF vars, tables, request, AnswerIsWholeTable, AppFor
  <2>2. TheApp' = TheApp /\ \A n \in 1..(at - 1) : NoneOpen(n)' <=> NoneOpen(n)
    BY <1>1 DEF vars, tables, request, NoneOpen, TheApp, IpOf, AppFor
  <2> QED
    BY <1>1, <2>1, <2>2 DEF vars, tables, request, scan, ghosts, StillInv
<1>2. ASSUME NEW p \in Procs, NEW cs \in ConnLists, Start(p, cs) PROVE StillInv'
  BY <1>2 DEF Start, StillInv, tables, scan, AnswerIsWholeTable
<1>3. CASE Scan
  <2>1. pc = "scan" /\ pc' = "scan" /\ UNCHANGED <<tables, request, at, listed, app>>
    BY <1>3 DEF Scan
  <2>2. TheApp' = TheApp /\ \A n \in 1..(at - 1) : NoneOpen(n)' <=> NoneOpen(n)
    BY <2>1 DEF tables, request, NoneOpen, TheApp, IpOf, AppFor
  <2>3. AnswerIsWholeTable'
    BY <2>1 DEF AnswerIsWholeTable
  <2> QED
    BY <2>1, <2>2, <2>3 DEF StillInv, tables
<1> QED
  BY <1>1, <1>2, <1>3, StillChange, StillQuery, StillFound, StillRefused, StillNextConn DEF Next

\* For every table, and requests with any connections, the answer is a best route
\* of the whole table for the first connection that has one, and a request is refused
\* only if no route of the table is for any of them (routing.rs:67-125).
THEOREM NoRouteIsOverlooked == Spec => []AnswerIsWholeTable
<1>1. Init => StillInv
  BY DEF Init, StillInv, AnswerIsWholeTable
<1>2. RInv /\ StillInv => AnswerIsWholeTable
  <2> SUFFICES ASSUME StillInv PROVE AnswerIsWholeTable
    OBVIOUS
  <2>1. CASE changes = 0
    BY <2>1 DEF StillInv
  <2>2. CASE changes # 0
    BY <2>2 DEF AnswerIsWholeTable
  <2> QED
    BY <2>1, <2>2
<1> QED
  BY <1>1, <1>2, StillStep, RInvHolds, PTL DEF Spec

-----------------------------------------------------------------------------
(* The claim of the comment, where it is true *)

\* The app an answer was found for is that of the process.
AppIsTheirs == changes = 0 /\ outcome = "cert" => app = TheApp

LEMMA AppIsTheirsStep ==
  ASSUME RInv, StillInv, AppIsTheirs, [Next]_vars
  PROVE  AppIsTheirs'
<1> USE DEF AppIsTheirs, TheApp, AppFor
<1>1. CASE UNCHANGED vars
  BY <1>1 DEF vars, tables, request, scan, ghosts
<1>2. CASE RouteAdd \/ RouteRemove \/ AppAdd
  <2>1. changes' = changes + 1
    BY <1>2 DEF RouteAdd, RouteRemove, AppAdd, Change
  <2>2. changes' # 0
    BY <2>1 DEF RInv, TypeOK
  <2> QED
    BY <2>2
<1>3. ASSUME NEW p \in Procs, NEW cs \in ConnLists, Start(p, cs) PROVE AppIsTheirs'
  BY <1>3 DEF Start
<1>4. CASE Found
  BY <1>4 DEF Found, Ends, StillInv, tables, request, scan, ghosts
<1>5. CASE QueryFails \/ Refused
  BY <1>5 DEF QueryFails, Refused, Ends
<1>6. CASE ListRoutes \/ ListApps \/ Scan \/ NextConn
  <2>1. pc # "done" /\ outcome' = outcome
    BY <1>6 DEF ListRoutes, ListApps, Scan, NextConn
  <2> QED
    BY <2>1 DEF RInv
<1> QED
  BY <1>1, <1>2, <1>3, <1>4, <1>5, <1>6 DEF Next

\* The documented claim holds of a process that has one connection at most: with the
\* tables standing still, no candidate for it has a higher priority than the route
\* taken.  With two, it does not (routing.rs:68).
THEOREM HighestOnOneConnection == Spec => [](Len(conns) <= 1 => HighestPriorityMatch)
<1>1. Init => StillInv /\ AppIsTheirs
  BY DEF Init, StillInv, AnswerIsWholeTable, AppIsTheirs
<1>2. ASSUME RInv, StillInv, AppIsTheirs, Len(conns) <= 1
      PROVE  HighestPriorityMatch
  <2> SUFFICES ASSUME changes = 0, outcome = "cert", NEW n \in 1..Len(conns), NEW r \in routes,
                      Candidate(r, app, conns[n])
               PROVE  r.prio <= chosen.prio
    BY DEF HighestPriorityMatch
  <2>1. n = 1 /\ IpOf(1) = conns[1] /\ app = TheApp
    <3>1. Len(conns) \in Nat
      BY <1>2 DEF RInv, TypeOK
    <3> QED
      BY <1>2, <3>1 DEF IpOf, AppIsTheirs
  <2>2. /\ \A m \in 1..(at - 1) : NoneOpen(m)
        /\ chosen \in routes
        /\ \A s \in routes : Candidate(s, TheApp, IpOf(at)) => ~Better(s, chosen, TheApp, IpOf(at))
    BY <1>2 DEF StillInv, RInv, AnswerIsWholeTable, NoneOpen, TheApp, IpOf
  <2>3. at \in Nat /\ at >= 1
    BY <1>2 DEF RInv, TypeOK
  <2>4. at = 1
    <3> SUFFICES ASSUME at > 1 PROVE FALSE
      BY <2>3
    <3>1. NoneOpen(1)
      BY <2>2, <2>3
    <3> QED
      BY <2>1, <3>1 DEF NoneOpen
  <2>5. r.prio \in Int /\ chosen.prio \in Int
    BY <1>2, <2>2, RoutesAssumption DEF RInv, TypeOK
  <2> QED
    BY <2>1, <2>2, <2>4, <2>5 DEF Better
<1> QED
  BY <1>1, <1>2, StillStep, AppIsTheirsStep, RInvHolds, PTL DEF Spec
=============================================================================
