----------------------------- MODULE Integrity -----------------------------
(***************************************************************************)
(* Binary integrity (cone-store integrity.rs): the records of what was     *)
(* installed, and the checks that coned's start-up and `cone verify` run   *)
(* over them, while binaries are replaced and recorded at any time.        *)
(*                                                                         *)
(* record() is called by a package scriptlet, not by src/.  A file is      *)
(* replaced by rename, so hash_file reads one build of it.  A build stands *)
(* for its hash, a component for its path; verified_at is whether it is    *)
(* set.  The unlocking of the store before a check is in StoreUnlock, what *)
(* coned does with the hashes it has loaded is in Coned.                   *)
(***************************************************************************)
EXTENDS Integers, Sequences

CONSTANTS
  Last,      \* the components, in the order of their names, are 1..Last
  Builds,    \* builds a binary may be of
  MaxRows    \* rows of the table

ASSUME LastAssumption == Last \in Nat
ASSUME MaxRowsAssumption == MaxRows \in Nat

None == "none"
ASSUME BuildsAssumption == None \notin Builds

Components == 1..Last
Checkers == {"coned", "cone"}
Rows == [component : Components, sha256 : Builds, verified : BOOLEAN]

VARIABLES
  disk,      \* build of the file at each component's path, or none
  rows,      \* table integrity; a row's id is its place
  recorder,  \* rows whose file record() has hashed and which it has not inserted
  pc,        \* per checker: its next step
  todo,      \* ids it has listed and not yet compared
  known,     \* coned's map from path to hash, while it serves
  had,       \* ghost: builds each file has had in the course of a checker's check
  pending    \* ghost: what was hashed and not inserted when that check listed the rows

table == <<disk, rows, recorder>>
check == <<pc, todo, known>>
ghosts == <<had, pending>>
vars == <<table, check, ghosts>>

Unloaded == [c \in Components |-> None]
NoBuilds == [c \in Components |-> {}]
Checking(p) == pc[p] \in {"compare", "load"}

TypeOK ==
  /\ disk \in [Components -> Builds \cup {None}]
  /\ rows \in Seq(Rows) /\ Len(rows) <= MaxRows
  /\ recorder \subseteq Rows
  /\ pc \in [Checkers -> {"off", "compare", "load", "serve"}]
  /\ todo \in [Checkers -> SUBSET (1..MaxRows)]
  /\ known \in [Components -> Builds \cup {None}]
  /\ had \in [Checkers -> [Components -> SUBSET Builds]]
  /\ pending \in [Checkers -> SUBSET Rows]

Init ==
  /\ disk \in [Components -> Builds \cup {None}]
  /\ rows = <<>> /\ recorder = {}
  /\ pc = [p \in Checkers |-> "off"] /\ todo = [p \in Checkers |-> {}]
  /\ known = Unloaded
  /\ had = [p \in Checkers |-> NoBuilds]
  /\ pending = [p \in Checkers |-> {}]

-----------------------------------------------------------------------------
(* Installation *)

\* A package manager, or anything else, replaces or removes a binary.
Replace(c, b) ==
  /\ disk' = [disk EXCEPT ![c] = b]
  /\ had' = [p \in Checkers |-> IF Checking(p) THEN [had[p] EXCEPT ![c] = @ \cup ({b} \ {None})]
                                ELSE had[p]]
  /\ UNCHANGED <<rows, recorder, check, pending>>

\* Mutant: a binary that cannot be read is recorded.
HashUnread(c) ==
  /\ recorder = {}
  /\ recorder' = {[component |-> c, sha256 |-> disk[c], verified |-> FALSE]}
  /\ UNCHANGED <<disk, rows, check, ghosts>>

\* record: it hashes the file ...
Hash(c) ==
  /\ recorder = {} /\ disk[c] # None
  /\ recorder' = {[component |-> c, sha256 |-> disk[c], verified |-> FALSE]}
  /\ UNCHANGED <<disk, rows, check, ghosts>>

\* ... and inserts a row; its fresh id conflicts with no other, so it replaces none.
Insert ==
  /\ Len(rows) < MaxRows
  /\ \E row \in recorder : rows' = Append(rows, row)
  /\ recorder' = {}
  /\ UNCHANGED <<disk, check, ghosts>>

-----------------------------------------------------------------------------
(* verify_all *)

\* Mutant: the rows are stamped before they are compared.
ListAndStamp(p) ==
  /\ pc[p] = "off"
  /\ todo' = [todo EXCEPT ![p] = DOMAIN rows]
  /\ pc' = [pc EXCEPT ![p] = "compare"]
  /\ had' = [had EXCEPT ![p] = [c \in Components |-> {disk[c]} \ {None}]]
  /\ pending' = [pending EXCEPT ![p] = recorder]
  /\ rows' = [i \in DOMAIN rows |-> [rows[i] EXCEPT !.verified = TRUE]]
  /\ UNCHANGED <<disk, recorder, known>>

List(p) ==
  /\ pc[p] = "off"
  /\ todo' = [todo EXCEPT ![p] = DOMAIN rows]
  /\ pc' = [pc EXCEPT ![p] = "compare"]
  /\ had' = [had EXCEPT ![p] = [c \in Components |-> {disk[c]} \ {None}]]
  /\ pending' = [pending EXCEPT ![p] = recorder]
  /\ UNCHANGED <<table, known>>

\* The process ends: it is done, its check failed, it was stopped or killed.
Ends(p) ==
  /\ pc' = [pc EXCEPT ![p] = "off"]
  /\ todo' = [todo EXCEPT ![p] = {}]
  /\ known' = IF p = "coned" THEN Unloaded ELSE known
  /\ had' = [had EXCEPT ![p] = NoBuilds] /\ pending' = [pending EXCEPT ![p] = {}]

\* Mutant: one row of a component vouches for its others.
CompareOne(p, i) ==
  /\ pc[p] = "compare" /\ i \in todo[p]
  /\ \A j \in todo[p] : rows[i].component <= rows[j].component
  /\ \/ /\ disk[rows[i].component] = rows[i].sha256
        /\ todo' = [todo EXCEPT ![p] = {j \in @ : rows[j].component # rows[i].component}]
        /\ UNCHANGED <<table, pc, known, ghosts>>
     \/ disk[rows[i].component] # rows[i].sha256 /\ Ends(p) /\ UNCHANGED table

\* verify_record, in the order of ORDER BY component; the first that differs ends it.
Compare(p, i) ==
  /\ pc[p] = "compare" /\ i \in todo[p]
  /\ \A j \in todo[p] : rows[i].component <= rows[j].component
  /\ \/ /\ disk[rows[i].component] = rows[i].sha256
        /\ todo' = [todo EXCEPT ![p] = @ \ {i}]
        /\ UNCHANGED <<table, pc, known, ghosts>>
     \/ disk[rows[i].component] # rows[i].sha256 /\ Ends(p) /\ UNCHANGED table

\* The UPDATE has no WHERE: it stamps every row there is by then.
Stamp(p) ==
  /\ pc[p] = "compare" /\ todo[p] = {}
  /\ rows' = [i \in DOMAIN rows |-> [rows[i] EXCEPT !.verified = TRUE]]
  /\ \/ /\ p = "coned" /\ pc' = [pc EXCEPT ![p] = "load"]
        /\ UNCHANGED <<todo, known, ghosts>>
     \/ p = "cone" /\ Ends(p)
  /\ UNCHANGED <<disk, recorder>>

\* load_known_hashes lists the rows anew; of the rows of one path the last one listed
\* stays, and ORDER BY component leaves open which that is.
Load ==
  /\ pc["coned"] = "load"
  /\ known' \in [Components -> Builds \cup {None}]
  /\ \A c \in Components :
       LET hashes == {rows[i].sha256 : i \in {j \in DOMAIN rows : rows[j].component = c}}
       IN known'[c] \in IF hashes = {} THEN {None} ELSE hashes
  /\ pc' = [pc EXCEPT !["coned"] = "serve"]
  /\ UNCHANGED <<table, todo, ghosts>>

Next ==
  \/ \E c \in Components : Hash(c) \/ \E b \in Builds \cup {None} : Replace(c, b)
  \/ Insert
  \/ \E p \in Checkers : \/ List(p)
                         \/ \E i \in 1..MaxRows : Compare(p, i)
                         \/ Stamp(p)
                         \/ pc[p] # "off" /\ Ends(p) /\ UNCHANGED table
  \/ Load

Spec == Init /\ [][Next]_vars

-----------------------------------------------------------------------------
(* Properties *)

\* The binary of record r was a build of that hash in the course of p's check, or a
\* record() that was under way when the check began had read it just before.
Stands(p, r) ==
  \/ r.sha256 \in had[p][r.component]
  \/ \E q \in pending[p] : q.component = r.component /\ q.sha256 = r.sha256

\* A hash coned accepts of its peers is one the binary at that path has had since
\* coned's check read the records, though the records are read a second time for it,
\* and binaries are replaced and recorded meanwhile: a hash recorded too late to be
\* compared was read from the disk by then.  The one exception is a record that had
\* been hashed and not inserted when the check began (coned main.rs:80-111, "called at
\* startup after integrity verification passes").
KnownWasOnDisk ==
  pc["coned"] = "serve" =>
    \A c \in Components :
      known[c] # None => Stands("coned", [component |-> c, sha256 |-> known[c]])

\* A stamp is of a check that passed, on a row it stands for.
Earned ==
  \A i \in DOMAIN rows :
    ~rows[i].verified /\ rows'[i].verified =>
      \E p \in Checkers : pc[p] = "compare" /\ todo[p] = {} /\ Stands(p, rows[i])

\* verified_at is only set on a row by a check that passed, and its binary had the hash
\* in the course of it, also if the row came too late to be compared (integrity.rs:47-50
\* says "for all passing records"; the late row is stamped unchecked).
StampsAreEarned == [][Earned]_vars
=============================================================================
