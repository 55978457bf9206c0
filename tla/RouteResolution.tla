-------------------------- MODULE RouteResolution --------------------------
(***************************************************************************)
(* How coned finds the certificate for a signing request: resolve_for_pid  *)
(* (coned/src/routing.rs) and resolve_route (cone-store/src/list.rs), step *)
(* by step, while the CLI (cone-cli/src/main.rs) writes the same tables    *)
(* from a process of its own.                                              *)
(*                                                                         *)
(* Each query is a step, for SQLite isolates one statement and coned uses  *)
(* no transaction; so is each turn of the loop over routes.  A hash is a   *)
(* value; the one a row of apps holds is left out, for no look-up reads it.*)
(***************************************************************************)
EXTENDS RouteMatching, FiniteSets

CONSTANTS
  AppRows,     \* rows of the apps table: id and exe
  Exes,        \* paths of binaries
  Hashes,      \* SHA-256 values
  Known,       \* known_hashes: Traffic Cone's own binaries, [exe -> hash]
  MaxConns,    \* connections get_connections returns
  MaxRows,     \* rows of the routes table
  MaxChanges   \* changes the CLI makes

ASSUME RowsAssumption == \A a \in AppRows : a.id \in AppIds
ASSUME BoundsAssumption == MaxConns \in Nat /\ MaxRows \in Nat /\ MaxChanges \in Nat

VARIABLES
  routes, apps,   \* the tables
  proc,           \* the process entry of the request: exe and hash
  conns,          \* its connections, as get_connections listed them
  at,             \* which of them is being tried; one past the end is step 5
  pc,             \* idle, routes, apps, scan, done
  listed,         \* what list_routes returned
  app,            \* the id list_apps has for the exe
  k,              \* the route the loop is at
  best,           \* place in listed of the best route so far, 0 for None
  chosen,         \* the route the look-up ended with, NoRoute for none
  outcome,        \* of the last request: none, cert, noroute, error
  seen,           \* ghost: routes in the table at some time since the request began
  then,           \* ghost: what list_apps would have said when list_routes was asked
  changes         \* changes made to the tables

tables == <<routes, apps, changes>>
request == <<proc, conns>>
scan == <<listed, app, k, best>>
ghosts == <<seen, then>>
vars == <<tables, request, at, pc, scan, chosen, outcome, ghosts>>

\* An app's id and exe_path are UNIQUE, and a route's app_id REFERENCES apps(id).
ValidApps(A) == \A a, b \in A : a.exe = b.exe \/ a.id = b.id => a = b
ValidRoute(r, A) == r.app \in {a.id : a \in A} \cup {None}

Procs == [exe : Exes, hash : Hashes]
ConnLists == UNION {[1..n -> Ips] : n \in 0..MaxConns}

TypeOK ==
  /\ routes \subseteq Routes /\ IsFiniteSet(routes)
  /\ apps \subseteq AppRows
  /\ proc \in Procs
  /\ conns \in Seq(Ips) /\ Len(conns) <= MaxConns
  /\ at \in 1..(Len(conns) + 1)
  /\ pc \in {"idle", "routes", "apps", "scan", "done"}
  /\ listed \in Seq(Routes)
  /\ app \in AppIds \cup {None}
  /\ k \in 1..(Len(listed) + 1)
  /\ best \in 0..Len(listed)
  /\ chosen \in Routes \cup {NoRoute}
  /\ outcome \in {"none", "cert", "noroute", "error"}
  /\ seen \subseteq Routes
  /\ then \in AppIds \cup {None}
  /\ changes \in 0..MaxChanges

Init ==
  /\ apps \in SUBSET AppRows /\ ValidApps(apps)
  /\ routes \in SUBSET {r \in Routes : ValidRoute(r, apps)}
  /\ IsFiniteSet(routes) /\ Cardinality(routes) <= MaxRows
  /\ proc \in Procs /\ conns = <<>> /\ at = 1 /\ pc = "idle"
  /\ listed = <<>> /\ app = None /\ k = 1 /\ best = 0
  /\ chosen = NoRoute /\ outcome = "none" /\ changes = 0
  /\ seen = {} /\ then = None

\* The address of the connection being tried; None in step 5.
Ip == IF at <= Len(conns) THEN conns[at] ELSE None

-----------------------------------------------------------------------------
(* The CLI *)

Change(R, A) ==
  /\ changes < MaxChanges
  /\ changes' = changes + 1
  /\ routes' = R /\ apps' = A
  /\ seen' = seen \cup R
  /\ UNCHANGED <<request, at, pc, scan, chosen, outcome, then>>

RouteAdd ==
  /\ Cardinality(routes) < MaxRows
  /\ \E r \in Routes \ routes : ValidRoute(r, apps) /\ Change(routes \cup {r}, apps)

\* `id LIKE prefix%` may take several routes, and so does deleting a certificate
\* (ON DELETE CASCADE).
RouteRemove == \E R \in SUBSET routes : R # {} /\ Change(routes \ R, apps)

\* Mutant: INSERT OR REPLACE gives a registered exe a new id, and the routes of the
\* old one go with it.
AppAddReplaces ==
  \E a \in AppRows \ apps :
    LET old == {b \in apps : b.exe = a.exe \/ b.id = a.id}
    IN  Change({r \in routes : r.app \notin {b.id : b \in old}}, (apps \ old) \cup {a})

\* An exe that is registered is refused: exe_path is UNIQUE.
AppAdd == \E a \in AppRows \ apps : ValidApps(apps \cup {a}) /\ Change(routes, apps \cup {a})

-----------------------------------------------------------------------------
(* resolve_for_pid *)

Ends(how) ==
  /\ pc' = "done" /\ outcome' = how
  /\ UNCHANGED <<tables, request, at, scan, ghosts>>

\* Steps 1 to 3.  The process is resolved and its connections are read; a Traffic
\* Cone binary must have its known hash.
Start(p, cs) ==
  /\ pc \in {"idle", "done"}
  /\ proc' = p /\ conns' = cs
  /\ at' = 1 /\ chosen' = NoRoute /\ seen' = routes
  /\ IF p.exe \in DOMAIN Known /\ Known[p.exe] # p.hash
     THEN pc' = "done" /\ outcome' = "error"
     ELSE pc' = "routes" /\ outcome' = "none"
  /\ UNCHANGED <<tables, scan, then>>

\* The id of the row of apps for an exe, in a set; None if there is no such row.
AppFor(exe) ==
  LET ids == {a.id : a \in {b \in apps : b.exe = exe}}
  IN  IF ids = {} THEN {None} ELSE ids

\* A list of R in an order that ORDER BY priority DESC, created_at ASC allows.
ListsOf(R) ==
  {s \in [1..Cardinality(R) -> R] :
     /\ \A i, j \in DOMAIN s : s[i] = s[j] => i = j
     /\ \A i, j \in DOMAIN s :
          i < j => \/ s[i].prio > s[j].prio
                   \/ s[i].prio = s[j].prio /\ s[i].created <= s[j].created}

\* Mutant: the list of the last request is used again.
ListRoutesCached ==
  /\ pc = "routes"
  /\ listed' \in IF listed # <<>> THEN {listed} ELSE ListsOf(routes)
  /\ pc' = "apps" /\ k' = 1 /\ best' = 0
  /\ then' \in AppFor(proc.exe)
  /\ UNCHANGED <<tables, request, at, app, chosen, outcome, seen>>

\* Mutant: the loop's state is that of the last look-up.
ListRoutesKeepsLoop ==
  /\ pc = "routes"
  /\ listed' \in ListsOf(routes)
  /\ pc' = "apps"
  /\ then' \in AppFor(proc.exe)
  /\ UNCHANGED <<tables, request, at, app, k, best, chosen, outcome, seen>>

ListRoutes ==
  /\ pc = "routes"
  /\ listed' \in ListsOf(routes)
  /\ pc' = "apps" /\ k' = 1 /\ best' = 0
  /\ then' \in AppFor(proc.exe)
  /\ UNCHANGED <<tables, request, at, app, chosen, outcome, seen>>

ListApps ==
  /\ pc = "apps"
  /\ app' \in AppFor(proc.exe)
  /\ pc' = "scan"
  /\ UNCHANGED <<tables, request, at, listed, k, best, chosen, outcome, ghosts>>

\* A query fails when the CLI is writing (SQLITE_BUSY), and `?` gives up.
QueryFails == pc \in {"routes", "apps"} /\ Ends("error") /\ UNCHANGED chosen

\* Mutant: `>=` in is_better.
ScanLatest ==
  /\ pc = "scan" /\ k <= Len(listed)
  /\ k' = k + 1
  /\ best' = IF /\ Candidate(listed[k], app, Ip)
                /\ best = 0 \/ ~Better(listed[best], listed[k], app, Ip)
             THEN k ELSE best
  /\ UNCHANGED <<tables, request, at, pc, listed, app, chosen, outcome, ghosts>>

\* One turn of the loop over routes.
Scan ==
  /\ pc = "scan" /\ k <= Len(listed)
  /\ k' = k + 1
  /\ best' = IF /\ Candidate(listed[k], app, Ip)
                /\ best = 0 \/ Better(listed[k], listed[best], app, Ip)
             THEN k ELSE best
  /\ UNCHANGED <<tables, request, at, pc, listed, app, chosen, outcome, ghosts>>

\* resolve_route returns Some: the request is answered.
Found ==
  /\ pc = "scan" /\ k > Len(listed) /\ best # 0
  /\ chosen' = listed[best]
  /\ Ends("cert")

\* Mutant: without a match for the first connection, step 5 is next.
NextConnSkips ==
  /\ pc = "scan" /\ k > Len(listed) /\ best = 0
  /\ at <= Len(conns)
  /\ at' = Len(conns) + 1 /\ pc' = "routes"
  /\ UNCHANGED <<tables, request, scan, chosen, outcome, ghosts>>

\* It returns None: the next connection is tried, or after the last one step 5.
NextConn ==
  /\ pc = "scan" /\ k > Len(listed) /\ best = 0
  /\ at <= Len(conns)
  /\ at' = at + 1 /\ pc' = "routes"
  /\ UNCHANGED <<tables, request, scan, chosen, outcome, ghosts>>

Refused ==
  /\ pc = "scan" /\ k > Len(listed) /\ best = 0
  /\ at > Len(conns)
  /\ Ends("noroute") /\ UNCHANGED chosen

Next ==
  \/ RouteAdd \/ RouteRemove \/ AppAdd
  \/ \E p \in Procs, cs \in ConnLists : Start(p, cs)
  \/ ListRoutes \/ ListApps \/ QueryFails \/ Scan \/ Found \/ NextConn \/ Refused

Spec == Init /\ [][Next]_vars

-----------------------------------------------------------------------------
(* Properties *)

\* At every turn of the loop best is the first of the best candidates looked at so
\* far: a later route replaces it only if it is strictly better (list.rs:363).
BestSoFar == pc = "scan" => IsFirstBest(best, listed, k - 1, app, Ip)

\* A route that the CLI had removed before the request came is not used for it:
\* every look-up lists the table anew (list.rs:315).
NoRouteOfThePast == outcome = "cert" => chosen \in seen

\* A look-up answers as the tables did at one instant, that of list_routes, although
\* list_apps is another query and the CLI writes in between (list.rs:315-316): an app
\* added since has an id that no route listed can refer to.
TwoQueriesActAsOne ==
  /\ pc = "scan" => IsFirstBest(best, listed, k - 1, then, Ip)
  /\ pc = "done" /\ outcome \in {"cert", "noroute"} =>
       /\ IsFirstBest(best, listed, Len(listed), then, Ip)
       /\ chosen = IF best = 0 THEN NoRoute ELSE listed[best]

\* If the tables stand still, a request is answered from the first connection
\* that any route of the table is a candidate for, step 5 coming after all of them,
\* and by a route of it that none beats; it is refused only if there is none.
AnswerIsWholeTable ==
  LET a == CHOOSE i \in AppFor(proc.exe) : TRUE
      ip(n) == IF n <= Len(conns) THEN conns[n] ELSE None
      open(n) == {r \in routes : Candidate(r, a, ip(n))}
  IN  changes = 0 /\ pc = "done" /\ outcome \in {"cert", "noroute"} =>
        /\ \A n \in 1..(at - 1) : open(n) = {}
        /\ outcome = "noroute" => at = Len(conns) + 1 /\ open(at) = {}
        /\ outcome = "cert" => /\ chosen \in open(at)
                               /\ \A r \in open(at) : ~Better(r, chosen, a, ip(at))

\* Every look-up does what RouteChoice promises for the list and app it read.
Question ==
  IF pc = "scan" THEN [list |-> listed, app |-> app, ip |-> Ip, open |-> TRUE]
  ELSE [list |-> <<>>, app |-> None, ip |-> None, open |-> FALSE]

Choice == INSTANCE RouteChoice WITH question <- Question, choice <- chosen

\* The loop over routes implements the one-step choice of RouteChoice
\* (list.rs:309-377).
ImplementsChoice == Choice!Spec

(* What the documents say and the code does not do *)

\* "We try each established connection against the route table and take the first
\* (highest priority) match" (routing.rs:68): the first is not the highest.
HighestPriorityMatch ==
  changes = 0 /\ outcome = "cert" =>
    \A n \in 1..Len(conns) : \A r \in routes :
      Candidate(r, app, conns[n]) => r.prio <= chosen.prio
=============================================================================
