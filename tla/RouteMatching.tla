--------------------------- MODULE RouteMatching ---------------------------
(***************************************************************************)
(* The route table's matching rules: what makes a route a candidate for a  *)
(* connection, and which candidate is better (resolve_route in             *)
(* cone-store/src/list.rs).  Names, addresses and patterns are values;     *)
(* Covers is the string test that resolve_route applies to an ip_cidr      *)
(* pattern.                                                                *)
(***************************************************************************)
EXTENDS Integers, Sequences

CONSTANTS
  Routes,   \* rows of the routes table that the CLI may write
  AppIds,   \* ids of rows of the apps table
  Ips,      \* remote addresses
  Covers    \* pairs <<pattern, ip>> of ip_cidr patterns and addresses they match

None == "none"   \* SQL NULL, Option::None

\* resolve_route's None.
NoRoute == [app |-> None, type |-> None, pattern |-> None, both |-> FALSE,
            prio |-> 0, created |-> 0]

\* app and pattern are columns that may be NULL; both is require_both.
ASSUME RoutesAssumption ==
  \A r \in Routes : /\ r.app \in AppIds \cup {None}
                    /\ r.type \in {"hostname", "ip", "ip_cidr"}
                    /\ r.both \in BOOLEAN
                    /\ r.prio \in Int
                    /\ r.created \in Int

\* a: the id of the app registered for the process's exe; ip: the connection.
\* resolve_for_pid never has a host name (remote_host is None).
AppMatches(r, a)   == r.app = None \/ r.app = a
HostMatches(r, ip) ==
  \/ r.pattern = None
  \/ ip # None /\ r.type = "ip" /\ r.pattern = ip
  \/ ip # None /\ r.type = "ip_cidr" /\ <<r.pattern, ip>> \in Covers

Candidate(r, a, ip) ==
  /\ AppMatches(r, a) \/ HostMatches(r, ip)
  /\ r.both => AppMatches(r, a) /\ HostMatches(r, ip)

Specificity(r, a, ip) ==
  IF /\ AppMatches(r, a) /\ r.app # None
     /\ HostMatches(r, ip) /\ r.pattern # None
  THEN 2 ELSE 1

Better(r, s, a, ip) ==
  \/ r.prio > s.prio
  \/ r.prio = s.prio /\ Specificity(r, a, ip) > Specificity(s, a, ip)

\* b is the place in list of the best candidate among the first n, the first of
\* those that none beats; 0 stands for no candidate.
IsFirstBest(b, list, n, a, ip) ==
  LET Cand(j) == Candidate(list[j], a, ip)
      Beats(j, i) == Better(list[j], list[i], a, ip)
  IN  IF b = 0 THEN \A j \in 1..n : ~Cand(j)
      ELSE /\ b \in 1..n /\ Cand(b)
           /\ \A j \in 1..n : Cand(j) => ~Beats(j, b) /\ (j < b => Beats(b, j))
=============================================================================
