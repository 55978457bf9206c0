-------------------------- MODULE IntegrityProofs --------------------------
(***************************************************************************)
(* The integrity check, for any number of components, builds and records:  *)
(* coned accepts only hashes that were on disk in the course of its check, *)
(* and a record is stamped only by a check that passed.                    *)
(*                                                                         *)
(* The invariant says what a check has established half-way: each row it   *)
(* no longer has to compare, late ones included, and each record under way *)
(* had its build on disk since the rows were listed, unless that record    *)
(* was already under way then.                                             *)
(***************************************************************************)
EXTENDS Integrity, TLAPS

\* Row i is one that p's check stands for.
Stood(p, i) == Stands(p, rows[i])

\* had is up to date while p checks.
Watched(p) ==
  Checking(p) => \A c \in Components : disk[c] # None => disk[c] \in had[p][c]

Compared(p) ==
  Checking(p) => \A i \in DOMAIN rows \ todo[p] : Stood(p, i)

\* A record that is hashed during the check has read a build of that time.
Recorded(p) == Checking(p) => \A row \in recorder : Stands(p, row)

InRange(p) ==
  /\ todo[p] \subseteq DOMAIN rows
  /\ pc[p] = "load" => p = "coned" /\ todo[p] = {}
  /\ pc[p] = "serve" => p = "coned"

IInv ==
  /\ TypeOK
  /\ \A p \in Checkers : InRange(p) /\ Watched(p) /\ Compared(p) /\ Recorded(p)
  /\ KnownWasOnDisk

USE LastAssumption, MaxRowsAssumption, BuildsAssumption

LEMMA InitIInv == Init => IInv
<1> SUFFICES ASSUME Init PROVE IInv
  OBVIOUS
<1>1. TypeOK
  BY DEF Init, TypeOK, Unloaded, NoBuilds
<1>2. ASSUME NEW p \in Checkers PROVE InRange(p) /\ Watched(p) /\ Compared(p) /\ Recorded(p)
  BY DEF Init, InRange, Watched, Compared, Recorded, Checking
<1>3. KnownWasOnDisk
  BY DEF Init, KnownWasOnDisk, Checkers
<1> QED
  BY <1>1, <1>2, <1>3 DEF IInv

-----------------------------------------------------------------------------
(* What a step does to the rows *)

\* A row keeps its component and hash, and its id.
LEMMA RowsStay ==
  ASSUME TypeOK, [Next]_vars
  PROVE  /\ DOMAIN rows \subseteq DOMAIN rows'
         /\ \A i \in DOMAIN rows : /\ rows[i] \in Rows
                                   /\ rows'[i].component = rows[i].component
                                   /\ rows'[i].sha256 = rows[i].sha256
<1>0. rows \in Seq(Rows) /\ recorder \subseteq Rows
  BY DEF TypeOK
<1>1. \A i \in DOMAIN rows : rows[i] \in Rows
  BY <1>0
<1>2. CASE UNCHANGED rows
  BY <1>1, <1>2
<1>3. CASE Insert
  <2>1. PICK row \in recorder : rows' = Append(rows, row)
    BY <1>3 DEF Insert
  <2> QED
    BY <1>0, <1>1, <2>1
<1>4. ASSUME NEW p \in Checkers, Stamp(p)
      PROVE  /\ DOMAIN rows \subseteq DOMAIN rows'
             /\ \A i \in DOMAIN rows : rows'[i] = [rows[i] EXCEPT !.verified = TRUE]
  BY <1>4 DEF Stamp
<1>5. UNCHANGED rows \/ Insert \/ \E p \in Checkers : Stamp(p)
  BY DEF Next, vars, table, Hash, Replace, List, Compare, Ends, Load
<1>6. ASSUME NEW p \in Checkers, Stamp(p)
      PROVE  \A i \in DOMAIN rows : /\ rows'[i].component = rows[i].component
                                    /\ rows'[i].sha256 = rows[i].sha256
  <2> SUFFICES ASSUME NEW i \in DOMAIN rows
               PROVE  rows'[i].component = rows[i].component /\ rows'[i].sha256 = rows[i].sha256
    OBVIOUS
  <2>1. rows'[i] = [rows[i] EXCEPT !.verified = TRUE] /\ rows[i] \in Rows
    BY <1>1, <1>4, <1>6
  <2> QED
    BY <2>1 DEF Rows
<1> QED
  BY <1>1, <1>2, <1>3, <1>4, <1>5, <1>6

-----------------------------------------------------------------------------
(* Types *)

LEMMA EndsType ==
  ASSUME TypeOK, NEW p \in Checkers, Ends(p)
  PROVE  /\ pc' \in [Checkers -> {"off", "compare", "load", "serve"}]
         /\ todo' \in [Checkers -> SUBSET (1..MaxRows)]
         /\ known' \in [Components -> Builds \cup {None}]
         /\ had' \in [Checkers -> [Components -> SUBSET Builds]]
         /\ pending' \in [Checkers -> SUBSET Rows]
<1>1. Unloaded \in [Components -> Builds \cup {None}]
  BY DEF Unloaded
<1>2. NoBuilds \in [Components -> SUBSET Builds]
  BY DEF NoBuilds
<1> QED
  BY <1>1, <1>2 DEF Ends, TypeOK

LEMMA StepType == ASSUME TypeOK, [Next]_vars PROVE TypeOK'
<1>0. DOMAIN rows \subseteq 1..MaxRows
  BY DEF TypeOK
<1>1. ASSUME NEW c \in Components, NEW b \in Builds \cup {None}, Replace(c, b) PROVE TypeOK'
  <2>1. {b} \ {None} \subseteq Builds
    OBVIOUS
  <2>2. disk' \in [Components -> Builds \cup {None}]
    BY <1>1 DEF Replace, TypeOK
  <2>3. had' \in [Checkers -> [Components -> SUBSET Builds]]
    <3>1. ASSUME NEW p \in Checkers
          PROVE  (IF Checking(p) THEN [had[p] EXCEPT ![c] = @ \cup ({b} \ {None})] ELSE had[p])
                   \in [Components -> SUBSET Builds]
      <4>1. had[p] \in [Components -> SUBSET Builds]
        BY DEF TypeOK
      <4> QED
        BY <2>1, <4>1
    <3> QED
      BY <1>1, <3>1 DEF Replace
  <2> QED
    BY <1>1, <2>2, <2>3 DEF Replace, check, TypeOK
<1>2. ASSUME NEW c \in Components, Hash(c) PROVE TypeOK'
  <2>1. [component |-> c, sha256 |-> disk[c], verified |-> FALSE] \in Rows
    BY <1>2 DEF Hash, Rows, TypeOK
  <2> QED
    BY <1>2, <2>1 DEF Hash, check, ghosts, TypeOK
<1>3. CASE Insert
  <2>1. PICK row \in recorder : rows' = Append(rows, row)
    BY <1>3 DEF Insert
  <2>2. rows \in Seq(Rows) /\ row \in Rows /\ Len(rows) \in Nat /\ Len(rows) < MaxRows
    BY <1>3 DEF Insert, TypeOK
  <2>3. rows' \in Seq(Rows) /\ Len(rows') <= MaxRows /\ Len(rows) + 1 \in 1..MaxRows
    BY <2>1, <2>2
  <2> QED
    BY <1>3, <2>3 DEF Insert, check, ghosts, TypeOK
<1>4. ASSUME NEW p \in Checkers, List(p) PROVE TypeOK'
  <2>1. todo' \in [Checkers -> SUBSET (1..MaxRows)]
    BY <1>0, <1>4 DEF List, TypeOK
  <2>2. [c \in Components |-> {disk[c]} \ {None}] \in [Components -> SUBSET Builds]
    BY DEF TypeOK
  <2> QED
    BY <1>4, <2>1, <2>2 DEF List, table, TypeOK
<1>5. ASSUME NEW p \in Checkers, NEW i \in 1..MaxRows, Compare(p, i) PROVE TypeOK'
  <2>1. CASE Ends(p) /\ UNCHANGED table
    BY <2>1, EndsType DEF table, TypeOK
  <2>2. CASE todo' = [todo EXCEPT ![p] = @ \ {i}] /\ UNCHANGED <<table, pc, known, ghosts>>
    BY <2>2 DEF table, ghosts, TypeOK
  <2> QED
    BY <1>5, <2>1, <2>2 DEF Compare
<1>6. ASSUME NEW p \in Checkers, Stamp(p) PROVE TypeOK'
  <2>1. rows \in Seq(Rows) /\ Len(rows) <= MaxRows
    BY DEF TypeOK
  <2>2. ASSUME NEW i \in DOMAIN rows PROVE [rows[i] EXCEPT !.verified = TRUE] \in Rows
    <3>1. rows[i] \in Rows
      BY <2>1
    <3> QED
      BY <3>1 DEF Rows
  <2>3. rows' \in Seq(Rows) /\ Len(rows') <= MaxRows
    BY <1>6, <2>1, <2>2 DEF Stamp
  <2>4. CASE pc' = [pc EXCEPT ![p] = "load"] /\ UNCHANGED <<todo, known, ghosts>>
    BY <1>6, <2>3, <2>4 DEF Stamp, ghosts, TypeOK
  <2>5. CASE Ends(p)
    BY <1>6, <2>3, <2>5, EndsType DEF Stamp, TypeOK
  <2> QED
    BY <1>6, <2>4, <2>5 DEF Stamp
<1>7. ASSUME NEW p \in Checkers, Ends(p), UNCHANGED table PROVE TypeOK'
  BY <1>7, EndsType DEF table, TypeOK
<1>8. CASE Load
  BY <1>8 DEF Load, table, ghosts, TypeOK
<1>9. CASE UNCHANGED vars
  BY <1>9 DEF vars, table, check, ghosts, TypeOK
<1> QED
  BY <1>1, <1>2, <1>3, <1>4, <1>5, <1>6, <1>7, <1>8, <1>9 DEF Next

-----------------------------------------------------------------------------
(* What a check has established *)

\* What p's check stands for, it goes on to stand for, until it ends.
LEMMA StoodStays ==
  ASSUME TypeOK, [Next]_vars, NEW p \in Checkers, NEW i \in DOMAIN rows, Stood(p, i),
         \A c \in Components : had[p][c] \subseteq had'[p][c],
         pending[p] \subseteq pending'[p]
  PROVE  Stood(p, i)'
<1>1. rows[i].component \in Components
  BY RowsStay DEF Rows
<1> QED
  BY <1>1, RowsStay DEF Stood, Stands

\* A checker that another process or the installation runs beside.
LEMMA OthersGrow ==
  ASSUME TypeOK, [Next]_vars, NEW p \in Checkers, pc'[p] = pc[p]
  PROVE  /\ \A c \in Components : had[p][c] \subseteq had'[p][c]
         /\ pending[p] \subseteq pending'[p]
<1>0. /\ had \in [Checkers -> [Components -> SUBSET Builds]]
      /\ pending \in [Checkers -> SUBSET Rows]
      /\ pc \in [Checkers -> {"off", "compare", "load", "serve"}]
  BY DEF TypeOK
<1>1. ASSUME NEW c \in Components, NEW b \in Builds \cup {None}, Replace(c, b)
      PROVE  /\ \A d \in Components : had[p][d] \subseteq had'[p][d]
             /\ pending[p] \subseteq pending'[p]
  <2>1. had'[p] = IF Checking(p) THEN [had[p] EXCEPT ![c] = @ \cup ({b} \ {None})] ELSE had[p]
    BY <1>1 DEF Replace
  <2>2. had[p] \in [Components -> SUBSET Builds]
    BY <1>0
  <2>3. pending' = pending
    BY <1>1 DEF Replace
  <2> QED
    BY <2>1, <2>2, <2>3
<1>2. Insert => UNCHANGED ghosts
  BY DEF Insert
<1>3. ASSUME NEW q \in Checkers, Ends(q), pc[q] # "off" PROVE q # p
  BY <1>0, <1>3 DEF Ends
<1>4. ASSUME NEW q \in Checkers, Ends(q), pc[q] # "off"
      PROVE  /\ \A c \in Components : had[p][c] \subseteq had'[p][c]
             /\ pending[p] \subseteq pending'[p]
  BY <1>0, <1>3, <1>4 DEF Ends
<1>5. ASSUME NEW q \in Checkers, List(q)
      PROVE  /\ \A c \in Components : had[p][c] \subseteq had'[p][c]
             /\ pending[p] \subseteq pending'[p]
  <2>1. q # p
    BY <1>0, <1>5 DEF List
  <2> QED
    BY <1>0, <1>5, <2>1 DEF List
<1>6. ASSUME NEW q \in Checkers, NEW i \in 1..MaxRows, Compare(q, i)
      PROVE  UNCHANGED ghosts \/ (Ends(q) /\ pc[q] # "off")
  BY <1>6 DEF Compare
<1>7. ASSUME NEW q \in Checkers, Stamp(q)
      PROVE  UNCHANGED ghosts \/ (Ends(q) /\ pc[q] # "off")
  BY <1>7 DEF Stamp
<1>8. CASE UNCHANGED ghosts
  BY <1>8 DEF ghosts
<1>9. ASSUME NEW c \in Components, Hash(c) PROVE UNCHANGED ghosts
  BY <1>9 DEF Hash
<1>10. Load => UNCHANGED ghosts
  BY DEF Load
<1>11. UNCHANGED vars => UNCHANGED ghosts
  BY DEF vars
<1> QED
  BY <1>1, <1>2, <1>4, <1>5, <1>6, <1>7, <1>8, <1>9, <1>10, <1>11 DEF Next

\* What the step of one checker is to another.
LEMMA StepOf ==
  ASSUME TypeOK, [Next]_vars, NEW p \in Checkers
  PROVE  \/ pc'[p] = pc[p] /\ todo'[p] = todo[p]
         \/ Ends(p)
         \/ List(p)
         \/ pc'[p] = pc[p] /\ \E i \in 1..MaxRows : Compare(p, i)
         \/ p = "coned" /\ Stamp(p) /\ pc'[p] = "load" /\ todo'[p] = todo[p]
         \/ p = "coned" /\ Load
<1>0. /\ pc \in [Checkers -> {"off", "compare", "load", "serve"}]
      /\ todo \in [Checkers -> SUBSET (1..MaxRows)]
  BY DEF TypeOK
<1>1. (UNCHANGED check \/ UNCHANGED vars) => pc'[p] = pc[p] /\ todo'[p] = todo[p]
  BY DEF check, vars
<1>2. ASSUME NEW c \in Components, NEW b \in Builds \cup {None}, Replace(c, b) \/ Hash(c)
      PROVE  UNCHANGED check
  BY <1>2 DEF Replace, Hash
<1>3. Insert => UNCHANGED check
  BY DEF Insert
<1>4. ASSUME NEW q \in Checkers \ {p},
             \/ List(q) \/ Ends(q) \/ Stamp(q) \/ \E i \in 1..MaxRows : Compare(q, i)
      PROVE  pc'[p] = pc[p] /\ todo'[p] = todo[p]
  <2>1. \/ List(q) \/ Ends(q)
        \/ \E i \in 1..MaxRows : /\ todo' = [todo EXCEPT ![q] = @ \ {i}]
                                 /\ UNCHANGED pc
        \/ pc' = [pc EXCEPT ![q] = "load"] /\ UNCHANGED todo
    BY <1>4 DEF Compare, Stamp
  <2> QED
    BY <1>0, <2>1 DEF List, Ends
<1>5. ASSUME NEW i \in 1..MaxRows, Compare(p, i) PROVE Ends(p) \/ UNCHANGED pc
  BY <1>5 DEF Compare
<1>6. ASSUME Stamp(p)
      PROVE  Ends(p) \/ (p = "coned" /\ pc'[p] = "load" /\ todo'[p] = todo[p])
  BY <1>0, <1>6 DEF Stamp, ghosts
<1>7. ASSUME Load, p = "cone" PROVE pc'[p] = pc[p] /\ todo'[p] = todo[p]
  BY <1>0, <1>7 DEF Load, Checkers
<1>8. p = "coned" \/ p = "cone"
  BY DEF Checkers
<1> QED
  BY <1>1, <1>2, <1>3, <1>4, <1>5, <1>6, <1>7, <1>8 DEF Next

LEMMA NewRow ==
  ASSUME TypeOK, [Next]_vars
  PROVE  \/ DOMAIN rows' = DOMAIN rows
         \/ /\ Insert
            /\ DOMAIN rows' = DOMAIN rows \cup {Len(rows) + 1}
<1>0. rows \in Seq(Rows) /\ recorder \subseteq Rows
  BY DEF TypeOK
<1>1. CASE Insert
  <2>1. PICK row \in recorder : rows' = Append(rows, row)
    BY <1>1 DEF Insert
  <2>2. DOMAIN rows' = DOMAIN rows \cup {Len(rows) + 1}
    BY <1>0, <2>1
  <2> QED
    BY <1>1, <2>2
<1>2. ASSUME NEW p \in Checkers, Stamp(p) PROVE DOMAIN rows' = DOMAIN rows
  BY <1>2 DEF Stamp
<1>3. UNCHANGED rows \/ Insert \/ \E p \in Checkers : Stamp(p)
  BY DEF Next, vars, table, Hash, Replace, List, Compare, Ends, Load
<1> QED
  BY <1>1, <1>2, <1>3

LEMMA StepRange ==
  ASSUME TypeOK, [Next]_vars, NEW p \in Checkers, InRange(p)
  PROVE  InRange(p)'
<1>0. /\ pc \in [Checkers -> {"off", "compare", "load", "serve"}]
      /\ todo \in [Checkers -> SUBSET (1..MaxRows)]
  BY DEF TypeOK
<1>1. DOMAIN rows \subseteq DOMAIN rows'
  BY RowsStay
<1>2. CASE pc'[p] = pc[p] /\ todo'[p] = todo[p]
  BY <1>1, <1>2 DEF InRange
<1>3. CASE Ends(p)
  BY <1>0, <1>3 DEF Ends, InRange
<1>4. CASE List(p)
  <2>1. todo'[p] = DOMAIN rows /\ pc'[p] = "compare"
    BY <1>0, <1>4 DEF List
  <2> QED
    BY <1>1, <2>1 DEF InRange
<1>5. ASSUME pc'[p] = pc[p], NEW i \in 1..MaxRows, Compare(p, i) PROVE InRange(p)'
  <2>1. pc[p] = "compare" /\ todo'[p] \subseteq todo[p]
    BY <1>0, <1>5 DEF Compare, Ends
  <2> QED
    BY <1>1, <1>5, <2>1 DEF InRange
<1>6. CASE p = "coned" /\ Stamp(p) /\ pc'[p] = "load" /\ todo'[p] = todo[p]
  BY <1>1, <1>6 DEF InRange, Stamp
<1>7. CASE p = "coned" /\ Load
  <2>1. pc'[p] = "serve" /\ todo'[p] = todo[p]
    BY <1>0, <1>7 DEF Load
  <2> QED
    BY <1>1, <1>7, <2>1 DEF InRange
<1> QED
  BY StepOf, <1>2, <1>3, <1>4, <1>5, <1>6, <1>7

LEMMA StepWatched ==
  ASSUME TypeOK, [Next]_vars, NEW p \in Checkers, InRange(p), Watched(p)
  PROVE  Watched(p)'
<1>0. /\ pc \in [Checkers -> {"off", "compare", "load", "serve"}]
      /\ had \in [Checkers -> [Components -> SUBSET Builds]]
      /\ disk \in [Components -> Builds \cup {None}]
  BY DEF TypeOK
<1> SUFFICES ASSUME Checking(p)', NEW c \in Components, disk'[c] # None
             PROVE  disk'[c] \in had'[p][c]
  BY DEF Watched
<1>1. CASE List(p)
  BY <1>0, <1>1 DEF List, table
<1>2. CASE p = "coned" /\ Stamp(p) /\ pc'[p] = "load"
  <2>1. UNCHANGED <<disk, had>>
    BY <1>0, <1>2 DEF Stamp, Ends, ghosts
  <2>2. Checking(p)
    BY <1>2 DEF Stamp, Checking
  <2> QED
    BY <2>1, <2>2 DEF Watched
<1>3. CASE pc'[p] = pc[p]
  <2>1. Checking(p)
    BY <1>3 DEF Checking
  <2>2. ASSUME NEW d \in Components, NEW b \in Builds \cup {None}, Replace(d, b), d = c
        PROVE  disk'[c] \in had'[p][c]
    <3>1. disk'[c] = b /\ had'[p][c] = had[p][c] \cup ({b} \ {None})
      BY <1>0, <2>1, <2>2 DEF Replace
    <3> QED
      BY <3>1
  <2>3. disk'[c] = disk[c] \/ \E b \in Builds \cup {None} : Replace(c, b)
    <3>1. ASSUME NEW d \in Components, NEW b \in Builds \cup {None}, Replace(d, b), d # c
          PROVE  disk'[c] = disk[c]
      BY <1>0, <3>1 DEF Replace
    <3>2. UNCHANGED disk \/ \E d \in Components, b \in Builds \cup {None} : Replace(d, b)
      BY DEF Next, vars, table, Hash, Insert, List, Compare, Stamp, Ends, Load
    <3> QED
      BY <3>1, <3>2
  <2>4. had[p][c] \subseteq had'[p][c]
    BY <1>3, OthersGrow
  <2> QED
    BY <2>1, <2>2, <2>3, <2>4 DEF Watched
<1>4. CASE Ends(p) \/ (p = "coned" /\ Load)
  BY <1>0, <1>4 DEF Ends, Load, Checking
<1> QED
  BY StepOf, <1>1, <1>2, <1>3, <1>4

LEMMA StepCompared ==
  ASSUME TypeOK, [Next]_vars, NEW p \in Checkers, InRange(p), Watched(p), Compared(p),
         Recorded(p)
  PROVE  Compared(p)'
<1>0. /\ pc \in [Checkers -> {"off", "compare", "load", "serve"}]
      /\ todo \in [Checkers -> SUBSET (1..MaxRows)]
  BY DEF TypeOK
<1> SUFFICES ASSUME Checking(p)', NEW i \in DOMAIN rows', i \notin todo'[p]
             PROVE  Stood(p, i)'
  BY DEF Compared
<1>1. CASE List(p)
  <2>1. todo'[p] = DOMAIN rows /\ rows' = rows
    BY <1>0, <1>1 DEF List, table
  <2> QED
    BY <2>1
<1>2. ASSUME Checking(p), i \notin DOMAIN rows PROVE Stood(p, i)'
  <2>1. Insert /\ i = Len(rows) + 1
    BY <1>2, NewRow
  <2>2. PICK row \in recorder : rows' = Append(rows, row)
    BY <2>1 DEF Insert
  <2>3. rows'[i] = row
    BY <2>1, <2>2 DEF TypeOK
  <2>4. Stands(p, row) /\ UNCHANGED <<had, pending>>
    BY <1>2, <2>1 DEF Recorded, Insert, ghosts
  <2> QED
    BY <2>3, <2>4 DEF Stood, Stands
<1>3. ASSUME pc'[p] = pc[p], i \in DOMAIN rows, Stood(p, i) PROVE Stood(p, i)'
  BY <1>3, OthersGrow, StoodStays
<1>4. CASE pc'[p] = pc[p] /\ todo'[p] = todo[p]
  <2>1. Checking(p)
    BY <1>4 DEF Checking
  <2>2. i \in DOMAIN rows => Stood(p, i)
    BY <1>4, <2>1 DEF Compared
  <2> QED
    BY <1>2, <1>3, <1>4, <2>1, <2>2
<1>5. ASSUME pc'[p] = pc[p], NEW j \in 1..MaxRows, Compare(p, j) PROVE Stood(p, i)'
  <2>1. Checking(p) /\ pc'[p] # "off"
    BY <1>5 DEF Checking, Compare
  <2>2. /\ disk[rows[j].component] = rows[j].sha256
        /\ todo'[p] = todo[p] \ {j} /\ j \in todo[p] /\ j \in DOMAIN rows
    BY <1>0, <1>5, <2>1 DEF Compare, Ends, InRange
  <2>3. Stood(p, j)
    <3>1. rows[j] \in Rows
      BY <2>2, RowsStay
    <3>2. rows[j].component \in Components /\ rows[j].sha256 # None
      BY <3>1 DEF Rows
    <3> QED
      BY <2>1, <2>2, <3>2 DEF Watched, Stood, Stands
  <2>4. i \in DOMAIN rows => Stood(p, i)
    BY <2>1, <2>2, <2>3 DEF Compared
  <2> QED
    BY <1>2, <1>3, <1>5, <2>1, <2>4
<1>6. CASE p = "coned" /\ Stamp(p) /\ pc'[p] = "load" /\ todo'[p] = todo[p]
  <2>1. Checking(p) /\ UNCHANGED <<had, pending>> /\ DOMAIN rows' = DOMAIN rows
    BY <1>0, <1>6 DEF Stamp, Ends, ghosts, Checking
  <2>2. Stood(p, i)
    BY <1>6, <2>1 DEF Compared
  <2> QED
    BY <2>1, <2>2, StoodStays
<1>7. CASE Ends(p) \/ (p = "coned" /\ Load)
  BY <1>0, <1>7 DEF Ends, Load, Checking
<1> QED
  BY StepOf, <1>1, <1>4, <1>5, <1>6, <1>7

LEMMA StepRecorded ==
  ASSUME TypeOK, [Next]_vars, NEW p \in Checkers, Watched(p), Recorded(p)
  PROVE  Recorded(p)'
<1>0. /\ pc \in [Checkers -> {"off", "compare", "load", "serve"}]
      /\ pending \in [Checkers -> SUBSET Rows]
      /\ disk \in [Components -> Builds \cup {None}]
      /\ recorder \subseteq Rows
  BY DEF TypeOK
<1> SUFFICES ASSUME Checking(p)', NEW row \in recorder'
             PROVE  Stands(p, row)'
  BY DEF Recorded
<1>1. CASE List(p)
  <2>1. pending'[p] = recorder /\ recorder' = recorder
    BY <1>0, <1>1 DEF List, table
  <2> QED
    BY <2>1 DEF Stands
<1>2. ASSUME row \in recorder, Stands(p, row), pc'[p] = pc[p] PROVE Stands(p, row)'
  <2>1. row.component \in Components
    BY <1>0, <1>2 DEF Rows
  <2> QED
    BY <1>2, <2>1, OthersGrow DEF Stands
<1>3. CASE p = "coned" /\ Stamp(p) /\ pc'[p] = "load"
  <2>1. Checking(p) /\ UNCHANGED <<recorder, had, pending>>
    BY <1>0, <1>3 DEF Stamp, Ends, ghosts, Checking
  <2> QED
    BY <2>1 DEF Recorded, Stands
<1>4. CASE pc'[p] = pc[p]
  <2>1. Checking(p)
    BY <1>4 DEF Checking
  <2>2. ASSUME NEW c \in Components, Hash(c) PROVE Stands(p, row)'
    <3>1. row = [component |-> c, sha256 |-> disk[c], verified |-> FALSE]
      BY <2>2 DEF Hash
    <3>2. disk[c] \in had[p][c] /\ UNCHANGED <<had, pending>>
      BY <2>1, <2>2 DEF Hash, Watched, ghosts
    <3> QED
      BY <3>1, <3>2 DEF Stands
  <2>3. recorder' \subseteq recorder \/ \E c \in Components : Hash(c)
    BY DEF Next, vars, table, Insert, Replace, List, Compare, Stamp, Ends, Load
  <2> QED
    BY <1>2, <1>4, <2>1, <2>2, <2>3 DEF Recorded
<1>5. CASE Ends(p) \/ (p = "coned" /\ Load)
  BY <1>0, <1>5 DEF Ends, Load, Checking
<1> QED
  BY StepOf, <1>1, <1>3, <1>4, <1>5

LEMMA StepKnown == ASSUME IInv, [Next]_vars PROVE KnownWasOnDisk'
<1>0. /\ pc \in [Checkers -> {"off", "compare", "load", "serve"}]
      /\ TypeOK /\ TypeOK' /\ "coned" \in Checkers
  BY StepType DEF IInv, TypeOK, Checkers
<1> SUFFICES ASSUME pc'["coned"] = "serve", NEW c \in Components, known'[c] # None
             PROVE  \/ known'[c] \in had'["coned"][c]
                    \/ \E q \in pending'["coned"] : q.component = c /\ q.sha256 = known'[c]
  BY DEF KnownWasOnDisk, Stands
<1>1. CASE Load
  <2>1. PICK i \in DOMAIN rows : rows[i].component = c /\ rows[i].sha256 = known'[c]
    BY <1>1 DEF Load
  <2>2. pc["coned"] = "load" /\ UNCHANGED <<rows, had, pending>>
    BY <1>1 DEF Load, table, ghosts
  <2>3. Stood("coned", i)
    BY <1>0, <2>2 DEF IInv, InRange, Compared, Checking
  <2> QED
    BY <2>1, <2>2, <2>3 DEF Stood, Stands
<1>2. CASE pc["coned"] = "serve"
  <2>1. known' = known
    <3>1. ~Load
      BY <1>2 DEF Load
    <3>2. ~Ends("coned")
      BY <1>0 DEF Ends
    <3>3. ASSUME NEW p \in Checkers, Ends(p) PROVE known' = known
      BY <3>2, <3>3 DEF Ends
    <3>4. UNCHANGED known \/ Load \/ \E p \in Checkers : Ends(p)
      BY DEF Next, vars, check, Hash, Replace, Insert, List, Compare, Stamp
    <3> QED
      BY <3>1, <3>3, <3>4
  <2>2. had["coned"][c] \subseteq had'["coned"][c] /\ pending["coned"] \subseteq pending'["coned"]
    BY <1>0, <1>2, OthersGrow
  <2>3. \/ known[c] \in had["coned"][c]
        \/ \E q \in pending["coned"] : q.component = c /\ q.sha256 = known[c]
    BY <1>2, <2>1 DEF IInv, KnownWasOnDisk, Stands
  <2> QED
    BY <2>1, <2>2, <2>3
<1>3. pc'["coned"] = pc["coned"] \/ Load
  BY <1>0, StepOf DEF Ends, List
<1> QED
  BY <1>1, <1>2, <1>3

-----------------------------------------------------------------------------

LEMMA StepIInv == IInv /\ [Next]_vars => IInv'
BY StepType, StepRange, StepWatched, StepCompared, StepRecorded, StepKnown DEF IInv

LEMMA SpecIInv == Spec => []IInv
<1> QED
  BY InitIInv, StepIInv, PTL DEF Spec

\* Every variable keeps its type.
THEOREM TypeCorrect == Spec => []TypeOK
BY SpecIInv, PTL DEF IInv

\* coned accepts of its peers only hashes that their binaries had in the course of its
\* check, rows inserted too late to be compared included; one exception is a record
\* hashed and not inserted when the check began (coned main.rs:80-111).
THEOREM KnownHashesStood == Spec => []KnownWasOnDisk
BY SpecIInv, PTL DEF IInv

LEMMA StepStamps ==
  ASSUME IInv, [Next]_vars, NEW i \in DOMAIN rows, ~rows[i].verified, rows'[i].verified
  PROVE  \E p \in Checkers :
           /\ pc[p] = "compare" /\ todo[p] = {}
           /\ Stands(p, rows[i])
<1>1. ~UNCHANGED rows
  OBVIOUS
<1>2. ~Insert
  <2>1. rows \in Seq(Rows)
    BY DEF IInv, TypeOK
  <2> QED
    BY <2>1 DEF Insert
<1>3. PICK p \in Checkers : Stamp(p)
  BY <1>1, <1>2 DEF Next, vars, table, Hash, Replace, List, Compare, Ends, Load
<1>4. pc[p] = "compare" /\ todo[p] = {}
  BY <1>3 DEF Stamp
<1>5. Stood(p, i)
  BY <1>4 DEF IInv, Compared, Checking
<1> QED
  BY <1>4, <1>5 DEF Stood

\* A record is stamped only by a check that passed, on a binary that had its hash in
\* the course of it, also if it was recorded too late to be compared, unless the record
\* was under way when the check began (integrity.rs:40-53).
THEOREM StampsByChecks == Spec => StampsAreEarned
<1>1. IInv /\ [Next]_vars => Earned
  BY StepStamps DEF Earned
<1> QED
  BY <1>1, SpecIInv, PTL DEF Spec, StampsAreEarned
=============================================================================
