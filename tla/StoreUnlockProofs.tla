-------------------------- MODULE StoreUnlockProofs --------------------------
(***************************************************************************)
(* Unlocking, for any number of processes, passphrases, tables and faults: *)
(* an unlocked store has its schema, a database keeps its salt unless two  *)
(* first runs overlapped, and the store belongs to its first passphrase.   *)
(*                                                                         *)
(* The invariant says what each step of unlock has established before it:  *)
(* the key the database has, the rows and tables that are there, and,      *)
(* while no two first runs overlap, how far the salt file has come.        *)
(***************************************************************************)
EXTENDS StoreUnlock, TLAPS

InDb == {"versions", "row", "version", "table", "update", "unlocked"}

\* What p has in hand.
Hand(p) ==
  /\ pc[p] # "idle" => word[p] \in Words
  /\ pc[p] \in {"create", "write", "open", "wal"} \cup InDb => mine[p] \in Salts
  /\ pc[p] \in InDb => dbKey = Key(p)

\* How far the migration has come before p's next statement.
Migrated(p) ==
  /\ pc[p] \in {"row", "version", "table", "update", "unlocked"} => schema # "absent"
  /\ pc[p] \in {"version", "table", "update", "unlocked"} => schema # "norow"
  /\ pc[p] = "table" => \A i \in 1..Tables : i < table[p] => i \in tables
  /\ pc[p] = "update" => tables = 1..Tables
  /\ pc[p] = "unlocked" => schema = "current"

\* How far the salt file has come, if first runs never overlap.
Salted(p) ==
  /\ pc[p] = "read" => salt # None
  /\ pc[p] = "create" => salt = None
  /\ pc[p] = "write" => salt = Short
  /\ pc[p] \in {"open", "wal"} \cup InDb => salt = mine[p]
  /\ Creating(p) => \A q \in Procs \ {p} : ~Creating(q)

Schema == schema = "current" => tables = 1..Tables

\* A database keeps its salt: unless two first runs overlapped, the file has the salt
\* its key was derived from.
SaltIsKept == ~raced /\ dbKey # NoKey => salt = dbKey.salt

\* Whose passphrase was refused.
Blamed(p) == outcome[p] = "wrongkey" => dbKey # NoKey /\ word[p] # dbKey.word

UInv ==
  /\ TypeOK
  /\ Schema
  /\ SaltIsKept
  /\ \A p \in Procs : Hand(p) /\ Migrated(p)
  /\ ~raced => \A p \in Procs : Salted(p) /\ Blamed(p)

USE WordsAssumption, SaltsAssumption, TablesAssumption, MaxFaultsAssumption

LEMMA InitUInv == Init => UInv
<1> SUFFICES ASSUME Init PROVE UInv
  OBVIOUS
<1>1. TypeOK
  <2>1. 1 \in 1..Tables /\ 0 \in 0..MaxFaults
    OBVIOUS
  <2>2. /\ salt = None /\ dbKey = NoKey /\ schema = "absent" /\ tables = {}
        /\ raced = FALSE /\ faults = 0
    BY DEF Init
  <2>3. /\ pc \in [Procs -> {"idle"}] /\ word \in [Procs -> {NoWord}]
        /\ mine \in [Procs -> {None}] /\ table \in [Procs -> {1}]
        /\ outcome \in [Procs -> {"none"}]
    BY DEF Init
  <2> QED
    BY <2>1, <2>2, <2>3 DEF TypeOK
<1>2. Schema /\ SaltIsKept
  BY DEF Init, Schema, SaltIsKept
<1>3. ASSUME NEW p \in Procs PROVE Hand(p) /\ Migrated(p) /\ Salted(p) /\ Blamed(p)
  <2>1. pc[p] = "idle" /\ outcome[p] = "none"
    BY DEF Init
  <2> QED
    BY <2>1 DEF Hand, Migrated, Salted, Blamed, Creating, InDb
<1> QED
  BY <1>1, <1>2, <1>3 DEF UInv

-----------------------------------------------------------------------------
(* Types *)

LEMMA SaltStepType ==
  ASSUME TypeOK, NEW p \in Procs, Hand(p), SaltStep(p)
  PROVE  TypeOK'
<1>1. CASE SaltExists(p)
  <2>1. CASE salt # None /\ Goes(p, "read") /\ UNCHANGED <<mine, raced>>
    BY <1>1, <2>1 DEF SaltExists, Goes, files, TypeOK
  <2>2. ASSUME NEW s \in Salts, mine' = [mine EXCEPT ![p] = s], raced' \in BOOLEAN,
               Goes(p, "create")
        PROVE  TypeOK'
    BY <1>1, <2>2 DEF SaltExists, Goes, files, TypeOK
  <2> QED
    BY <1>1, <2>1, <2>2 DEF SaltExists, TypeOK
<1>2. CASE ReadSalt(p)
  <2>1. CASE Returns(p, "idle", "shortsalt") /\ UNCHANGED mine
    BY <1>2, <2>1 DEF ReadSalt, Returns, files, TypeOK
  <2>2. CASE salt \in Salts /\ mine' = [mine EXCEPT ![p] = salt] /\ Goes(p, "open")
    BY <1>2, <2>2 DEF ReadSalt, Goes, files, TypeOK
  <2> QED
    BY <1>2, <2>1, <2>2 DEF ReadSalt
<1>3. CASE CreateSalt(p)
  BY <1>3 DEF CreateSalt, Goes, TypeOK
<1>4. CASE WriteSalt(p)
  <2>1. mine[p] \in Salts
    BY <1>4 DEF WriteSalt, Hand
  <2> QED
    BY <1>4, <2>1 DEF WriteSalt, Goes, TypeOK
<1> QED
  BY <1>1, <1>2, <1>3, <1>4 DEF SaltStep

LEMMA KeyType ==
  ASSUME TypeOK, NEW p \in Procs, Hand(p), pc[p] = "wal"
  PROVE  Key(p) \in Keys
BY DEF Hand, Key, Keys

LEMMA DbStepType ==
  ASSUME TypeOK, NEW p \in Procs, Hand(p), DbStep(p)
  PROVE  TypeOK'
<1>1. CASE OpenDb(p)
  <2>1. CASE Goes(p, "wal")
    BY <1>1, <2>1 DEF OpenDb, Goes, files, TypeOK
  <2>2. CASE Returns(p, "idle", "wrongkey")
    BY <1>1, <2>2 DEF OpenDb, Returns, files, TypeOK
  <2> QED
    BY <1>1, <2>1, <2>2 DEF OpenDb
<1>2. CASE Wal(p)
  <2>1. CASE dbKey' = Key(p) /\ Goes(p, "versions")
    BY <1>2, <2>1, KeyType DEF Wal, Goes, TypeOK
  <2>2. CASE Returns(p, "idle", "wrongkey") /\ UNCHANGED dbKey
    BY <1>2, <2>2 DEF Wal, Returns, TypeOK
  <2> QED
    BY <1>2, <2>1, <2>2 DEF Wal
<1>3. CASE VersionTable(p)
  BY <1>3 DEF VersionTable, Goes, TypeOK
<1>4. CASE VersionRow(p)
  BY <1>4 DEF VersionRow, Goes, TypeOK
<1>5. CASE ReadVersion(p)
  <2>0. table' \in [Procs -> 1..Tables]
    BY <1>5 DEF ReadVersion, TypeOK
  <2>1. CASE Goes(p, "table")
    BY <1>5, <2>0, <2>1 DEF ReadVersion, Goes, files, TypeOK
  <2>2. CASE Returns(p, "unlocked", "ok")
    BY <1>5, <2>0, <2>2 DEF ReadVersion, Returns, files, TypeOK
  <2> QED
    BY <1>5, <2>1, <2>2 DEF ReadVersion
<1>6. CASE CreateTable(p)
  <2>0. table[p] \in 1..Tables /\ tables' \subseteq 1..Tables
    BY <1>6 DEF CreateTable, TypeOK
  <2>1. CASE table[p] = Tables
    <3>1. UNCHANGED <<salt, dbKey, schema, word, mine, table, outcome, raced, faults>>
      BY <1>6, <2>1 DEF CreateTable, Goes
    <3>2. pc' = [pc EXCEPT ![p] = "update"]
      BY <1>6, <2>1 DEF CreateTable, Goes
    <3> QED
      BY <2>0, <3>1, <3>2 DEF TypeOK
  <2>2. CASE table[p] # Tables
    <3>1. table' \in [Procs -> 1..Tables]
      BY <1>6, <2>0, <2>2 DEF CreateTable, TypeOK
    <3> QED
      BY <1>6, <2>0, <2>2, <3>1 DEF CreateTable, TypeOK
  <2> QED
    BY <2>1, <2>2
<1>7. CASE SetVersion(p)
  BY <1>7 DEF SetVersion, Returns, TypeOK
<1> QED
  BY <1>1, <1>2, <1>3, <1>4, <1>5, <1>6, <1>7 DEF DbStep

LEMMA UserStepType ==
  ASSUME TypeOK, NEW p \in Procs,
         (\E w \in Words : Unlock(p, w)) \/ Lock(p) \/ CutOff(p)
  PROVE  TypeOK'
<1>1. ASSUME NEW w \in Words, Unlock(p, w) PROVE TypeOK'
  BY <1>1 DEF Unlock, Returns, files, TypeOK
<1>2. CASE Lock(p)
  BY <1>2 DEF Lock, Goes, files, TypeOK
<1>3. CASE CutOff(p)
  BY <1>3 DEF CutOff, Returns, files, TypeOK
<1> QED
  BY <1>1, <1>2, <1>3

-----------------------------------------------------------------------------
(* A step of p leaves the others where they are, and the database only grows *)

StepOf(p) == (\E w \in Words : Unlock(p, w)) \/ Step(p) \/ Lock(p) \/ CutOff(p)

Frame(p) ==
  \A q \in Procs \ {p} : pc'[q] = pc[q] /\ word'[q] = word[q]
                          /\ mine'[q] = mine[q] /\ table'[q] = table[q]

LEMMA FrameStep ==
  ASSUME TypeOK, NEW p \in Procs, StepOf(p)
  PROVE  Frame(p)
<1>1. CASE \E w \in Words : Unlock(p, w)
  BY <1>1 DEF Unlock, Returns, Frame, TypeOK
<1>2. CASE SaltExists(p)
  <2>1. /\ \A q \in Procs \ {p} : mine'[q] = mine[q]
        /\ \A q \in Procs \ {p} : pc'[q] = pc[q]
    BY <1>2 DEF SaltExists, Goes, TypeOK
  <2> QED
    BY <1>2, <2>1 DEF SaltExists, Frame
<1>3. CASE ReadSalt(p)
  BY <1>3 DEF ReadSalt, Goes, Returns, Frame, TypeOK
<1>4. CASE CreateSalt(p) \/ WriteSalt(p)
  BY <1>4 DEF CreateSalt, WriteSalt, Goes, Frame, TypeOK
<1>5. CASE OpenDb(p) \/ Wal(p)
  BY <1>5 DEF OpenDb, Wal, Goes, Returns, Frame, TypeOK
<1>6. CASE VersionTable(p) \/ VersionRow(p) \/ SetVersion(p)
  BY <1>6 DEF VersionTable, VersionRow, SetVersion, Goes, Returns, Frame, TypeOK
<1>7. CASE ReadVersion(p)
  BY <1>7 DEF ReadVersion, Goes, Returns, Frame, TypeOK
<1>8. CASE CreateTable(p)
  BY <1>8 DEF CreateTable, Goes, Frame, TypeOK
<1>9. CASE Lock(p) \/ CutOff(p)
  BY <1>9 DEF Lock, CutOff, Goes, Returns, Frame, TypeOK
<1> QED
  BY <1>1, <1>2, <1>3, <1>4, <1>5, <1>6, <1>7, <1>8, <1>9
     DEF StepOf, Step, SaltStep, DbStep

\* A key stays once the database has one, and so do its tables and version.
Grows ==
  /\ dbKey' = dbKey \/ dbKey = NoKey
  /\ tables \subseteq tables'
  /\ schema # "absent" => schema' # "absent"
  /\ schema \notin {"absent", "norow"} => schema' \notin {"absent", "norow"}
  /\ schema = "current" => schema' = "current"

LEMMA GrowsStep ==
  ASSUME TypeOK, NEW p \in Procs, StepOf(p)
  PROVE  Grows
<1>1. CASE UNCHANGED files
  BY <1>1 DEF Grows, files
<1>2. CASE CreateSalt(p) \/ WriteSalt(p)
  BY <1>2 DEF CreateSalt, WriteSalt, Grows
<1>3. CASE Wal(p)
  BY <1>3 DEF Wal, Grows
<1>4. CASE VersionTable(p)
  BY <1>4 DEF VersionTable, Grows
<1>5. CASE VersionRow(p)
  BY <1>5 DEF VersionRow, Grows
<1>6. CASE CreateTable(p)
  BY <1>6 DEF CreateTable, Grows
<1>7. CASE SetVersion(p)
  BY <1>7 DEF SetVersion, Grows
<1> QED
  BY <1>1, <1>2, <1>3, <1>4, <1>5, <1>6, <1>7
     DEF StepOf, Step, SaltStep, DbStep, Unlock, SaltExists, ReadSalt, OpenDb, ReadVersion,
         Lock, CutOff

\* A key that p has in hand is a key.
LEMMA KeyIsNotNoKey ==
  ASSUME NEW p \in Procs, word[p] \in Words
  PROVE  Key(p) # NoKey
BY DEF Key, NoKey

-----------------------------------------------------------------------------
(* The database *)

LEMMA OthersStep ==
  ASSUME TypeOK, NEW p \in Procs, StepOf(p), NEW q \in Procs \ {p}, Hand(q), Migrated(q)
  PROVE  Hand(q)' /\ Migrated(q)'
<1>1. /\ pc'[q] = pc[q] /\ word'[q] = word[q] /\ mine'[q] = mine[q] /\ table'[q] = table[q]
      /\ Key(q)' = Key(q)
  BY FrameStep DEF Frame, Key
<1>2. pc[q] \in InDb => dbKey = Key(q) /\ Key(q) # NoKey
  <2>1. pc[q] \in InDb => pc[q] # "idle"
    BY DEF InDb
  <2> QED
    BY <2>1, KeyIsNotNoKey DEF Hand
<1>3. Hand(q)'
  BY <1>1, <1>2, GrowsStep DEF Hand, Grows
<1>4. tables \subseteq tables' /\ tables' \subseteq 1..Tables
  <2>1. tables' \subseteq 1..Tables
    <3>1. CASE CreateTable(p)
      <4>1. table[p] \in 1..Tables /\ tables \subseteq 1..Tables
        BY DEF TypeOK
      <4>2. tables' = tables \cup {table[p]}
        BY <3>1 DEF CreateTable
      <4> QED
        BY <4>1, <4>2
    <3>2. CASE tables' = tables
      BY <3>2 DEF TypeOK
    <3> QED
      BY <3>1, <3>2 DEF StepOf, Step, SaltStep, DbStep, Unlock, SaltExists, ReadSalt, OpenDb,
         ReadVersion, Lock, CutOff, files, CreateSalt, WriteSalt, Wal, VersionTable, VersionRow,
         SetVersion
  <2> QED
    BY <2>1, GrowsStep DEF Grows
<1>5. Migrated(q)'
  <2>1. pc[q] = "table" => \A i \in 1..Tables : i < table[q] => i \in tables'
    BY <1>4 DEF Migrated
  <2>2. pc[q] = "update" => tables' = 1..Tables
    BY <1>4 DEF Migrated
  <2>3. pc[q] \in {"row", "version", "table", "update", "unlocked"} => schema' # "absent"
    BY GrowsStep DEF Migrated, Grows
  <2>4. pc[q] \in {"version", "table", "update", "unlocked"} => schema' # "norow"
    BY GrowsStep DEF Migrated, Grows
  <2>5. pc[q] = "unlocked" => schema' = "current"
    BY GrowsStep DEF Migrated, Grows
  <2> QED
    BY <1>1, <2>1, <2>2, <2>3, <2>4, <2>5 DEF Migrated
<1> QED
  BY <1>3, <1>5

LEMMA OwnHand ==
  ASSUME TypeOK, NEW p \in Procs, Hand(p), StepOf(p)
  PROVE  Hand(p)'
<1> USE DEF Hand, Key, InDb, TypeOK
<1>1. ASSUME NEW w \in Words, Unlock(p, w) PROVE Hand(p)'
  BY <1>1 DEF Unlock, Returns
<1>2. CASE SaltExists(p)
  <2>1. CASE Goes(p, "read")
    BY <1>2, <2>1 DEF SaltExists, Goes, files
  <2>2. ASSUME NEW s \in Salts, mine' = [mine EXCEPT ![p] = s], Goes(p, "create")
        PROVE  Hand(p)'
    BY <1>2, <2>2 DEF SaltExists, Goes, files
  <2> QED
    BY <1>2, <2>1, <2>2 DEF SaltExists
<1>3. CASE ReadSalt(p)
  BY <1>3 DEF ReadSalt, Goes, Returns, files
<1>4. CASE CreateSalt(p) \/ WriteSalt(p)
  BY <1>4 DEF CreateSalt, WriteSalt, Goes
<1>5. CASE OpenDb(p)
  BY <1>5 DEF OpenDb, Goes, Returns, files
<1>6. CASE Wal(p)
  BY <1>6 DEF Wal, Goes, Returns
<1>7. CASE VersionTable(p) \/ VersionRow(p)
  BY <1>7 DEF VersionTable, VersionRow, Goes
<1>8. CASE ReadVersion(p)
  BY <1>8 DEF ReadVersion, Goes, Returns, files
<1>9. CASE CreateTable(p)
  BY <1>9 DEF CreateTable, Goes
<1>10. CASE SetVersion(p)
  BY <1>10 DEF SetVersion, Returns
<1>11. CASE Lock(p) \/ CutOff(p)
  BY <1>11 DEF Lock, CutOff, Goes, Returns, files
<1> QED
  BY <1>1, <1>2, <1>3, <1>4, <1>5, <1>6, <1>7, <1>8, <1>9, <1>10, <1>11
     DEF StepOf, Step, SaltStep, DbStep

\* p's next statement finds what it needs.
LEMMA OwnMigrated ==
  ASSUME TypeOK, Schema, NEW p \in Procs, Migrated(p), StepOf(p)
  PROVE  Migrated(p)'
<1>0. pc \in [Procs -> {"idle", "exists", "read", "create", "write", "open", "wal",
                         "versions", "row", "version", "table", "update", "unlocked"}]
  BY DEF TypeOK
<1>1. CASE pc'[p] \in {"idle", "exists", "read", "create", "write", "open", "wal", "versions"}
  BY <1>1 DEF Migrated
<1>2. CASE VersionTable(p)
  BY <1>0, <1>2 DEF VersionTable, Goes, Migrated
<1>3. CASE VersionRow(p)
  BY <1>0, <1>3 DEF VersionRow, Goes, Migrated, TypeOK
<1>4. CASE ReadVersion(p)
  <2>1. UNCHANGED <<schema, tables>> /\ schema \in {"old", "current"}
    BY <1>4 DEF ReadVersion, files, Migrated, TypeOK
  <2>2. table'[p] = 1
    BY <1>4 DEF ReadVersion, TypeOK
  <2>3. IF schema = "old" THEN pc'[p] = "table" ELSE pc'[p] = "unlocked"
    BY <1>0, <1>4 DEF ReadVersion, Goes, Returns
  <2> QED
    BY <2>1, <2>2, <2>3 DEF Migrated
<1>5. CASE CreateTable(p)
  <2>0. /\ table[p] \in 1..Tables /\ tables \subseteq 1..Tables
        /\ tables' = tables \cup {table[p]} /\ schema' = schema
        /\ schema \notin {"absent", "norow"}
        /\ \A i \in 1..Tables : i < table[p] => i \in tables
    BY <1>5 DEF CreateTable, TypeOK, Migrated
  <2>1. CASE table[p] = Tables
    <3>1. tables' = 1..Tables
      <4>1. ASSUME NEW i \in 1..Tables PROVE i \in tables'
        <5>1. i < Tables \/ i = Tables
          BY <4>1
        <5> QED
          BY <5>1, <2>0, <2>1
      <4>2. tables' \subseteq 1..Tables
        BY <2>0
      <4> QED
        BY <4>1, <4>2
    <3>2. pc'[p] = "update"
      BY <1>0, <1>5, <2>1 DEF CreateTable, Goes
    <3> QED
      BY <2>0, <3>1, <3>2 DEF Migrated
  <2>2. CASE table[p] # Tables
    <3>1. table'[p] = table[p] + 1 /\ pc'[p] = "table"
      BY <1>0, <1>5, <2>2 DEF CreateTable, TypeOK
    <3>2. \A i \in 1..Tables : i < table'[p] => i \in tables'
      BY <2>0, <3>1
    <3> QED
      BY <2>0, <3>1, <3>2 DEF Migrated
  <2> QED
    BY <2>1, <2>2
<1>6. CASE SetVersion(p)
  BY <1>0, <1>6 DEF SetVersion, Returns, Migrated
<1>7. StepOf(p) => \/ VersionTable(p) \/ VersionRow(p) \/ ReadVersion(p) \/ CreateTable(p)
                   \/ SetVersion(p)
                   \/ pc'[p] \in {"idle", "exists", "read", "create", "write", "open", "wal",
                                  "versions"}
  <2>1. CASE \E w \in Words : Unlock(p, w)
    BY <1>0, <2>1 DEF Unlock, Returns
  <2>2. CASE SaltStep(p)
    BY <1>0, <2>2 DEF SaltStep, SaltExists, ReadSalt, CreateSalt, WriteSalt, Goes, Returns
  <2>3. CASE OpenDb(p) \/ Wal(p)
    BY <1>0, <2>3 DEF OpenDb, Wal, Goes, Returns
  <2>4. CASE Lock(p) \/ CutOff(p)
    BY <1>0, <2>4 DEF Lock, CutOff, Goes, Returns
  <2> QED
    BY <2>1, <2>2, <2>3, <2>4 DEF StepOf, Step, DbStep
<1> QED
  BY <1>1, <1>2, <1>3, <1>4, <1>5, <1>6, <1>7

LEMMA SchemaStep ==
  ASSUME TypeOK, TypeOK', Schema, NEW p \in Procs, Migrated(p), StepOf(p)
  PROVE  Schema'
<1>1. CASE SetVersion(p)
  BY <1>1 DEF SetVersion, Migrated, Schema
<1>2. CASE schema' = schema
  BY <1>2, GrowsStep DEF Schema, Grows, TypeOK
<1>3. CASE VersionTable(p) \/ VersionRow(p)
  BY <1>3 DEF VersionTable, VersionRow, Schema
<1> QED
  BY <1>1, <1>2, <1>3 DEF StepOf, Step, SaltStep, DbStep, Unlock, SaltExists, ReadSalt,
     OpenDb, ReadVersion, Lock, CutOff, files, CreateSalt, WriteSalt, Wal, CreateTable

-----------------------------------------------------------------------------
(* The salt *)

\* If p does not touch the file and comes to create it only when no other does, the
\* others keep what they rely on.
LEMMA OthersSalted ==
  ASSUME NEW p \in Procs, Frame(p), salt' = salt,
         Creating(p)' => Creating(p) \/ \A r \in Procs \ {p} : ~Creating(r),
         NEW q \in Procs \ {p}, Salted(q)
  PROVE  Salted(q)'
<1>1. pc'[q] = pc[q] /\ mine'[q] = mine[q] /\ \A r \in Procs \ {p} : pc'[r] = pc[r]
  BY DEF Frame
<1>2. Creating(q)' => \A r \in Procs \ {q} : ~Creating(r)'
  <2> SUFFICES ASSUME Creating(q)', NEW r \in Procs \ {q} PROVE ~Creating(r)'
    OBVIOUS
  <2>1. Creating(q)
    BY <1>1 DEF Creating
  <2>2. ~Creating(r) /\ (\A x \in Procs \ {q} : ~Creating(x))
    BY <2>1 DEF Salted
  <2>3. CASE r = p
    BY <2>1, <2>2, <2>3
  <2>4. CASE r # p
    <3>1. pc'[r] = pc[r]
      BY <1>1, <2>4
    <3> QED
      BY <2>2, <3>1 DEF Creating
  <2> QED
    BY <2>3, <2>4
<1> QED
  BY <1>1, <1>2 DEF Salted

\* A key the database has is a key: its salt is one of Salts.
LEMMA KeysSalt ==
  ASSUME TypeOK, dbKey # NoKey
  PROVE  dbKey.salt \in Salts
BY DEF TypeOK, Keys

\* Before the salt file has a salt nobody is past it, and there is no database.
LEMMA NobodyPast ==
  ASSUME TypeOK, SaltIsKept, ~raced, salt \in {None, Short},
         \A q \in Procs : Hand(q) /\ Salted(q)
  PROVE  /\ dbKey = NoKey
         /\ \A q \in Procs : pc[q] \notin {"open", "wal"} \cup InDb
<1>1. dbKey = NoKey
  BY KeysSalt DEF SaltIsKept
<1>2. ASSUME NEW q \in Procs, pc[q] \in {"open", "wal"} \cup InDb PROVE FALSE
  <2>1. salt = mine[q]
    BY <1>2 DEF Salted
  <2>2. mine[q] \in Salts
    BY <1>2 DEF Hand
  <2> QED
    BY <2>1, <2>2
<1> QED
  BY <1>1, <1>2

LEMMA SaltFileStep ==
  ASSUME TypeOK, SaltIsKept, ~raced, NEW p \in Procs, Frame(p),
         \A q \in Procs : Hand(q) /\ Salted(q),
         CreateSalt(p) \/ WriteSalt(p)
  PROVE  SaltIsKept' /\ \A q \in Procs : Salted(q)'
<1>1. /\ pc \in [Procs -> {"idle", "exists", "read", "create", "write", "open", "wal",
                           "versions", "row", "version", "table", "update", "unlocked"}]
      /\ mine \in [Procs -> Salts \cup {None}]
  BY DEF TypeOK
<1>2. Creating(p) /\ salt \in {None, Short} /\ UNCHANGED <<dbKey, mine>>
  BY DEF CreateSalt, WriteSalt, Creating, Salted
<1>3. /\ dbKey = NoKey
      /\ \A q \in Procs : pc[q] \notin {"open", "wal"} \cup InDb
  BY <1>2, NobodyPast
<1>4. SaltIsKept'
  BY <1>2, <1>3 DEF SaltIsKept
<1>5. \A q \in Procs \ {p} : ~Creating(q)
  BY <1>2 DEF Salted
<1>6. salt' # None
  <2>1. CASE CreateSalt(p)
    BY <2>1 DEF CreateSalt, Short, None
  <2>2. CASE WriteSalt(p)
    <3>1. mine[p] \in Salts
      BY <2>2 DEF WriteSalt, Hand
    <3> QED
      BY <2>2, <3>1 DEF WriteSalt
  <2> QED
    BY <2>1, <2>2
<1>7. \A q \in Procs \ {p} : pc'[q] = pc[q]
  BY DEF Frame
<1>8. ASSUME NEW q \in Procs \ {p} PROVE Salted(q)'
  <2>1. pc'[q] \notin {"create", "write", "open", "wal"} \cup InDb
    BY <1>3, <1>5, <1>7 DEF Creating
  <2> QED
    BY <2>1, <1>6 DEF Salted, Creating
<1>9. Salted(p)'
  <2>1. \A q \in Procs \ {p} : ~Creating(q)'
    BY <1>5, <1>7 DEF Creating
  <2>2. CASE CreateSalt(p)
    <3>1. pc'[p] = "write" /\ salt' = Short
      BY <1>1, <2>2 DEF CreateSalt, Goes
    <3> QED
      BY <2>1, <3>1 DEF Salted, InDb
  <2>3. CASE WriteSalt(p)
    <3>1. pc'[p] = "open" /\ salt' = mine'[p]
      BY <1>1, <1>2, <2>3 DEF WriteSalt, Goes
    <3> QED
      BY <3>1 DEF Salted, Creating
  <2> QED
    BY <2>2, <2>3
<1> QED
  BY <1>4, <1>8, <1>9

LEMMA SaltExistsStep ==
  ASSUME TypeOK, SaltIsKept, ~raced, ~raced', NEW p \in Procs, Frame(p),
         \A q \in Procs : Salted(q), SaltExists(p)
  PROVE  SaltIsKept' /\ \A q \in Procs : Salted(q)'
<1>1. UNCHANGED <<salt, dbKey>> /\ pc[p] = "exists"
  BY DEF SaltExists, files
<1>2. SaltIsKept'
  BY <1>1 DEF SaltIsKept
<1>3. pc \in [Procs -> {"idle", "exists", "read", "create", "write", "open", "wal",
                         "versions", "row", "version", "table", "update", "unlocked"}]
  BY DEF TypeOK
<1>4. CASE salt # None /\ Goes(p, "read")
  <2>1. pc'[p] = "read"
    BY <1>3, <1>4 DEF Goes
  <2>2. Salted(p)'
    BY <1>1, <1>4, <2>1 DEF Salted, Creating, InDb
  <2> QED
    BY <1>1, <1>2, <2>1, <2>2, OthersSalted DEF Creating
<1>5. CASE salt = None /\ Goes(p, "create")
                       /\ raced' = (raced \/ \E q \in Procs \ {p} : Creating(q))
  <2>1. pc'[p] = "create"
    BY <1>3, <1>5 DEF Goes
  <2>2. \A q \in Procs \ {p} : ~Creating(q)
    BY <1>5
  <2>3. \A q \in Procs \ {p} : ~Creating(q)'
    BY <2>2 DEF Frame, Creating
  <2>4. Salted(p)'
    BY <1>1, <1>5, <2>1, <2>3 DEF Salted, InDb
  <2> QED
    BY <1>1, <1>2, <2>2, <2>4, OthersSalted
<1> QED
  BY <1>4, <1>5 DEF SaltExists

\* The steps that leave the file alone and create nothing.
LEMMA SaltRestStep ==
  ASSUME TypeOK, SaltIsKept, NEW p \in Procs, Frame(p), ~raced,
         \A q \in Procs : Salted(q),
         StepOf(p), ~SaltExists(p), ~CreateSalt(p), ~WriteSalt(p)
  PROVE  SaltIsKept' /\ \A q \in Procs : Salted(q)'
<1>0. /\ pc \in [Procs -> {"idle", "exists", "read", "create", "write", "open", "wal",
                           "versions", "row", "version", "table", "update", "unlocked"}]
      /\ mine \in [Procs -> Salts \cup {None}]
  BY DEF TypeOK
<1>1. salt' = salt
  BY DEF StepOf, Step, SaltStep, DbStep, Unlock, ReadSalt, OpenDb, Wal, VersionTable,
         VersionRow, ReadVersion, CreateTable, SetVersion, Lock, CutOff, files
<1>2. /\ pc'[p] \notin {"read", "create", "write"}
      /\ pc'[p] \in {"open", "wal"} \cup InDb => salt = mine'[p]
  <2>1. CASE \E w \in Words : Unlock(p, w)
    BY <1>0, <2>1 DEF Unlock, Returns, InDb
  <2>2. CASE ReadSalt(p)
    BY <1>0, <2>2 DEF ReadSalt, Goes, Returns, InDb
  <2>3. CASE OpenDb(p) \/ Wal(p)
    BY <1>0, <2>3 DEF OpenDb, Wal, Goes, Returns, InDb, Salted
  <2>4. CASE VersionTable(p) \/ VersionRow(p) \/ SetVersion(p)
    BY <1>0, <2>4 DEF VersionTable, VersionRow, SetVersion, Goes, Returns, InDb, Salted
  <2>5. CASE ReadVersion(p)
    BY <1>0, <2>5 DEF ReadVersion, Goes, Returns, InDb, Salted
  <2>6. CASE CreateTable(p)
    BY <1>0, <2>6 DEF CreateTable, Goes, InDb, Salted
  <2>7. CASE Lock(p) \/ CutOff(p)
    BY <1>0, <2>7 DEF Lock, CutOff, Goes, Returns, InDb
  <2> QED
    BY <2>1, <2>2, <2>3, <2>4, <2>5, <2>6, <2>7 DEF StepOf, Step, SaltStep, DbStep
<1>3. Salted(p)'
  BY <1>1, <1>2 DEF Salted, Creating
<1>4. ASSUME NEW q \in Procs \ {p} PROVE Salted(q)'
  BY <1>1, <1>2, OthersSalted DEF Creating
<1>5. SaltIsKept'
  <2>1. CASE dbKey' = dbKey
    BY <1>1, <2>1 DEF SaltIsKept
  <2>2. CASE Wal(p) /\ dbKey' = Key(p)
    <3>1. salt = mine[p]
      BY <2>2 DEF Wal, Salted
    <3> QED
      BY <1>1, <2>2, <3>1 DEF SaltIsKept, Key
  <2> QED
    BY <2>1, <2>2 DEF StepOf, Step, SaltStep, DbStep, Unlock, ReadSalt, OpenDb, Wal,
       VersionTable, VersionRow, ReadVersion, CreateTable, SetVersion, Lock, CutOff, files
<1> QED
  BY <1>3, <1>4, <1>5

\* The ghost never comes down.
LEMMA RacedStays ==
  ASSUME TypeOK, NEW p \in Procs, StepOf(p), raced
  PROVE  raced'
<1>1. CASE SaltExists(p)
  <2>1. UNCHANGED <<mine, raced>> \/ raced' = (raced \/ \E q \in Procs \ {p} : Creating(q))
    BY <1>1 DEF SaltExists
  <2> QED
    BY <2>1
<1>2. CASE raced' = raced
  BY <1>2
<1> QED
  BY <1>1, <1>2 DEF StepOf, Step, SaltStep, DbStep, Unlock, ReadSalt, CreateSalt, WriteSalt,
     OpenDb, Wal, VersionTable, VersionRow, ReadVersion, CreateTable, SetVersion, Lock, CutOff

\* A key that is refused has the database's salt, so that its passphrase is another.
LEMMA Refused ==
  ASSUME TypeOK, SaltIsKept, ~raced, NEW p \in Procs, Salted(p),
         pc[p] \in {"open", "wal"}, dbKey \notin {NoKey, Key(p)}
  PROVE  dbKey # NoKey /\ word[p] # dbKey.word
<1>1. salt = mine[p] /\ salt = dbKey.salt
  BY DEF Salted, SaltIsKept
<1>2. dbKey = [word |-> dbKey.word, salt |-> dbKey.salt]
  BY DEF TypeOK, Keys
<1> QED
  BY <1>1, <1>2 DEF Key

LEMMA BlamedStep ==
  ASSUME TypeOK, SaltIsKept, ~raced, NEW p \in Procs, StepOf(p),
         \A q \in Procs : Salted(q) /\ Blamed(q)
  PROVE  \A q \in Procs : Blamed(q)'
<1>1. Frame(p) /\ (dbKey' = dbKey \/ dbKey = NoKey)
  BY FrameStep, GrowsStep DEF Grows
<1>2. outcome \in [Procs -> {"none", "ok", "cutoff", "shortsalt", "wrongkey"}]
  BY DEF TypeOK
<1>3. CASE ~UNCHANGED outcome
  <2>1. PICK how : /\ outcome' = [outcome EXCEPT ![p] = how]
                   /\ how = "wrongkey" => /\ pc[p] \in {"open", "wal"} /\ UNCHANGED <<dbKey, word>>
                                          /\ dbKey \notin {NoKey, Key(p)}
    <3>1. CASE \E w \in Words : Unlock(p, w)
      BY <3>1 DEF Unlock, Returns
    <3>2. CASE SaltStep(p)
      BY <1>3, <3>2 DEF SaltStep, SaltExists, ReadSalt, CreateSalt, WriteSalt, Goes, Returns
    <3>3. CASE OpenDb(p)
      BY <1>3, <3>3 DEF OpenDb, Goes, Returns, files
    <3>4. CASE Wal(p)
      BY <1>3, <3>4 DEF Wal, Goes, Returns
    <3>5. CASE VersionTable(p) \/ VersionRow(p) \/ ReadVersion(p)
      BY <1>3, <3>5 DEF VersionTable, VersionRow, ReadVersion, Goes, Returns
    <3>6. CASE CreateTable(p) \/ SetVersion(p)
      BY <1>3, <3>6 DEF CreateTable, SetVersion, Goes, Returns
    <3>7. CASE Lock(p) \/ CutOff(p)
      BY <1>3, <3>7 DEF Lock, CutOff, Goes, Returns
    <3> QED
      BY <3>1, <3>2, <3>3, <3>4, <3>5, <3>6, <3>7 DEF StepOf, Step, DbStep
  <2>2. Blamed(p)'
    <3>1. CASE how = "wrongkey"
      BY <2>1, <3>1, Refused DEF Blamed
    <3>2. CASE how # "wrongkey"
      BY <1>2, <2>1, <3>2 DEF Blamed
    <3> QED
      BY <3>1, <3>2
  <2>3. ASSUME NEW q \in Procs \ {p} PROVE Blamed(q)'
    <3>1. outcome'[q] = outcome[q] /\ word'[q] = word[q]
      BY <1>1, <1>2, <2>1 DEF Frame
    <3> QED
      BY <1>1, <3>1 DEF Blamed
  <2> QED
    BY <2>2, <2>3
<1>4. CASE UNCHANGED outcome
  <2>1. CASE \E w \in Words : Unlock(p, w)
    <3>1. outcome'[p] = "none"
      BY <1>2, <2>1 DEF Unlock, Returns
    <3>2. Blamed(p)'
      BY <3>1 DEF Blamed
    <3>3. ASSUME NEW q \in Procs \ {p} PROVE Blamed(q)'
      BY <1>1, <1>4 DEF Blamed, Frame
    <3> QED
      BY <3>2, <3>3
  <2>2. CASE word' = word
    BY <1>1, <1>4, <2>2 DEF Blamed
  <2> QED
    BY <2>1, <2>2 DEF StepOf, Step, SaltStep, DbStep, SaltExists, ReadSalt, CreateSalt,
       WriteSalt, OpenDb, Wal, VersionTable, VersionRow, ReadVersion, CreateTable, SetVersion,
       Lock, CutOff
<1> QED
  BY <1>3, <1>4

LEMMA SaltStepInv ==
  ASSUME UInv, NEW p \in Procs, StepOf(p)
  PROVE  SaltIsKept' /\ (~raced' => \A q \in Procs : Salted(q)' /\ Blamed(q)')
<1> SUFFICES ASSUME ~raced' PROVE SaltIsKept' /\ \A q \in Procs : Salted(q)' /\ Blamed(q)'
  BY DEF SaltIsKept
<1>1. /\ TypeOK /\ SaltIsKept /\ ~raced /\ Frame(p)
      /\ \A q \in Procs : Hand(q) /\ Salted(q) /\ Blamed(q)
  BY RacedStays, FrameStep DEF UInv
<1>5. \A q \in Procs : Blamed(q)'
  BY <1>1, BlamedStep
<1>2. CASE SaltExists(p)
  BY <1>1, <1>5, <1>2, SaltExistsStep
<1>3. CASE CreateSalt(p) \/ WriteSalt(p)
  BY <1>1, <1>5, <1>3, SaltFileStep
<1>4. CASE ~SaltExists(p) /\ ~CreateSalt(p) /\ ~WriteSalt(p)
  BY <1>1, <1>5, <1>4, SaltRestStep
<1> QED
  BY <1>2, <1>3, <1>4, <1>5

-----------------------------------------------------------------------------
(* The theorems *)

LEMMA NextIsStepOf ==
  ASSUME Next
  PROVE  \E p \in Procs : StepOf(p)
BY DEF Next, StepOf

LEMMA NextUInv == UInv /\ [Next]_vars => UInv'
<1> SUFFICES ASSUME UInv, [Next]_vars PROVE UInv'
  OBVIOUS
<1>1. CASE UNCHANGED vars
  <2>1. UNCHANGED <<salt, dbKey, schema, tables, pc, word, mine, table, outcome, raced, faults>>
    BY <1>1 DEF vars, files
  <2>2. TypeOK' /\ Schema' /\ SaltIsKept'
    BY <2>1 DEF UInv, TypeOK, Schema, SaltIsKept
  <2>3. ASSUME NEW p \in Procs PROVE Hand(p)' /\ Migrated(p)'
    BY <2>1 DEF UInv, Hand, Migrated, Key
  <2>4. ASSUME NEW p \in Procs, ~raced' PROVE Salted(p)' /\ Blamed(p)'
    BY <2>1, <2>4 DEF UInv, Salted, Blamed, Creating
  <2> QED
    BY <2>2, <2>3, <2>4 DEF UInv
<1>2. ASSUME NEW p \in Procs, StepOf(p) PROVE UInv'
  <2>1. TypeOK /\ Schema /\ \A q \in Procs : Hand(q) /\ Migrated(q)
    BY DEF UInv
  <2>2. TypeOK'
    BY <1>2, <2>1, SaltStepType, DbStepType, UserStepType DEF StepOf, Step
  <2>3. Schema'
    BY <1>2, <2>1, <2>2, SchemaStep
  <2>4. Hand(p)' /\ Migrated(p)'
    BY <1>2, <2>1, OwnHand, OwnMigrated
  <2>5. ASSUME NEW q \in Procs \ {p} PROVE Hand(q)' /\ Migrated(q)'
    BY <1>2, <2>1, <2>5, OthersStep
  <2>6. SaltIsKept' /\ (~raced' => \A q \in Procs : Salted(q)' /\ Blamed(q)')
    BY <1>2, SaltStepInv
  <2>7. \A q \in Procs : Hand(q)' /\ Migrated(q)'
    BY <2>4, <2>5
  <2> QED
    BY <2>2, <2>3, <2>6, <2>7 DEF UInv
<1> QED
  BY <1>1, <1>2, NextIsStepOf

\* Every value stays in its type, for any number of processes.
THEOREM TypeCorrect == Spec => []TypeOK
<1>1. UInv => TypeOK
  BY DEF UInv
<1> QED
  BY InitUInv, NextUInv, <1>1, PTL DEF Spec

\* Whoever was cut off and whoever went on: an unlocked store has every table of the
\* migration and its version (db.rs:33-57).
THEOREM UnlockedHasSchema == Spec => []UnlockedSeesSchema
<1>1. UInv => UnlockedSeesSchema
  BY DEF UInv, Schema, Migrated, UnlockedSeesSchema
<1> QED
  BY InitUInv, NextUInv, <1>1, PTL DEF Spec

\* Unless two first runs overlapped, only a passphrase that is not the store's is refused
\* (store.rs:43): the salt in the file is the database's.
THEOREM OnlyWrongPassphrases == Spec => []OnlyWrongPassphraseFails
<1>1. UInv => OnlyWrongPassphraseFails
  BY DEF UInv, Blamed, OnlyWrongPassphraseFails
<1> QED
  BY InitUInv, NextUInv, <1>1, PTL DEF Spec

-----------------------------------------------------------------------------
(* The store is a vault *)

\* What the vault shows of the processes.
Open == [p \in Procs |-> IF pc[p] = "unlocked" THEN word[p] ELSE NoWord]

LEMMA SameOpen ==
  ASSUME NEW p \in Procs, Frame(p), (pc'[p] = "unlocked") <=> (pc[p] = "unlocked"),
         pc[p] = "unlocked" => word'[p] = word[p]
  PROVE  Open' = Open
<1>1. \A q \in Procs : (IF pc'[q] = "unlocked" THEN word'[q] ELSE NoWord)
                         = (IF pc[q] = "unlocked" THEN word[q] ELSE NoWord)
  BY DEF Frame
<1> QED
  BY <1>1 DEF Open

LEMMA ChangedOpen ==
  ASSUME NEW p \in Procs, Frame(p)
  PROVE  Open' = [Open EXCEPT ![p] = IF pc'[p] = "unlocked" THEN word'[p] ELSE NoWord]
<1>1. \A q \in Procs : Open'[q] = [Open EXCEPT ![p] =
                         IF pc'[p] = "unlocked" THEN word'[p] ELSE NoWord][q]
  BY DEF Open, Frame
<1> QED
  BY <1>1 DEF Open

LEMMA VaultStep ==
  ASSUME UInv, NEW p \in Procs, StepOf(p)
  PROVE  \/ UNCHANGED <<dbKey.word, Open>>
         \/ \E w \in Words : dbKey.word = NoWord /\ dbKey'.word = w /\ UNCHANGED Open
         \/ /\ dbKey.word \in Words /\ Open[p] = NoWord
            /\ Open' = [Open EXCEPT ![p] = dbKey.word] /\ UNCHANGED dbKey.word
         \/ /\ Open[p] # NoWord
            /\ Open' = [Open EXCEPT ![p] = NoWord] /\ UNCHANGED dbKey.word
<1>0. /\ pc \in [Procs -> {"idle", "exists", "read", "create", "write", "open", "wal",
                           "versions", "row", "version", "table", "update", "unlocked"}]
      /\ word \in [Procs -> Words \cup {NoWord}]
      /\ Frame(p) /\ Hand(p)
  BY FrameStep DEF UInv, TypeOK
<1>1. CASE Wal(p)
  <2>1. pc[p] = "wal" /\ pc'[p] # "unlocked"
    BY <1>0, <1>1 DEF Wal, Goes, Returns
  <2>2. UNCHANGED Open
    BY <1>0, <2>1, SameOpen
  <2>3. CASE dbKey' = dbKey
    BY <2>2, <2>3
  <2>4. CASE dbKey = NoKey /\ dbKey' = Key(p)
    <3>1. word[p] \in Words /\ dbKey.word = NoWord /\ dbKey'.word = word[p]
      BY <1>0, <2>1, <2>4 DEF Hand, Key, NoKey
    <3> QED
      BY <2>2, <3>1
  <2> QED
    BY <1>1, <2>3, <2>4 DEF Wal
<1>2. CASE (ReadVersion(p) \/ SetVersion(p)) /\ pc'[p] = "unlocked"
  <2>1. pc[p] \in {"version", "update"} /\ UNCHANGED <<dbKey, word>>
    BY <1>2 DEF ReadVersion, SetVersion, files
  <2>2. dbKey.word = word[p] /\ word[p] \in Words
    BY <1>0, <2>1 DEF Hand, InDb, Key
  <2>3. Open[p] = NoWord
    BY <2>1 DEF Open
  <2>4. Open' = [Open EXCEPT ![p] = dbKey.word]
    BY <1>0, <1>2, <2>1, <2>2, ChangedOpen
  <2> QED
    BY <2>1, <2>2, <2>3, <2>4
<1>3. CASE (Lock(p) \/ CutOff(p)) /\ pc[p] = "unlocked"
  <2>1. pc'[p] = "idle" /\ UNCHANGED dbKey
    BY <1>0, <1>3 DEF Lock, CutOff, Goes, Returns, files
  <2>2. word[p] \in Words
    BY <1>0, <1>3 DEF Hand
  <2>3. Open[p] # NoWord
    BY <1>3, <2>2 DEF Open
  <2>4. Open' = [Open EXCEPT ![p] = NoWord]
    BY <1>0, <2>1, ChangedOpen
  <2> QED
    BY <2>1, <2>3, <2>4
<1>4. CASE /\ ~Wal(p)
           /\ ~((ReadVersion(p) \/ SetVersion(p)) /\ pc'[p] = "unlocked")
           /\ ~((Lock(p) \/ CutOff(p)) /\ pc[p] = "unlocked")
  <2>1. dbKey' = dbKey
    BY <1>4 DEF StepOf, Step, SaltStep, DbStep, Unlock, SaltExists, ReadSalt, CreateSalt,
       WriteSalt, OpenDb, VersionTable, VersionRow, ReadVersion, CreateTable, SetVersion, Lock,
       CutOff, files
  <2>2. pc[p] # "unlocked" /\ pc'[p] # "unlocked"
    <3>1. CASE \E w \in Words : Unlock(p, w)
      BY <1>0, <3>1 DEF Unlock, Returns
    <3>2. CASE SaltStep(p)
      BY <1>0, <3>2 DEF SaltStep, SaltExists, ReadSalt, CreateSalt, WriteSalt, Goes, Returns
    <3>3. CASE OpenDb(p) \/ VersionTable(p) \/ VersionRow(p) \/ CreateTable(p)
      BY <1>0, <3>3 DEF OpenDb, VersionTable, VersionRow, CreateTable, Goes, Returns
    <3>4. CASE ReadVersion(p) \/ SetVersion(p)
      BY <1>0, <1>4, <3>4 DEF ReadVersion, SetVersion
    <3>5. CASE Lock(p) \/ CutOff(p)
      BY <1>0, <1>4, <3>5 DEF Lock, CutOff, Goes, Returns
    <3> QED
      BY <1>4, <3>1, <3>2, <3>3, <3>4, <3>5 DEF StepOf, Step, DbStep
  <2> QED
    BY <1>0, <2>1, <2>2, SameOpen
<1> QED
  BY <1>1, <1>2, <1>3, <1>4

LEMMA NextImplementsVault ==
  ASSUME UInv, [Next]_vars
  PROVE  [TheVault!Next]_<<dbKey.word, Open>>
<1>1. TheVault!NoWord = NoWord
  BY DEF TheVault!NoWord, NoWord
<1>2. CASE UNCHANGED vars
  BY <1>2 DEF vars, files, Open
<1>3. ASSUME NEW p \in Procs, StepOf(p) PROVE [TheVault!Next]_<<dbKey.word, Open>>
  <2>1. CASE \E w \in Words : dbKey.word = NoWord /\ dbKey'.word = w /\ UNCHANGED Open
    BY <1>1, <2>1 DEF TheVault!Next, TheVault!Make, Open
  <2>2. CASE /\ dbKey.word \in Words /\ Open[p] = NoWord
             /\ Open' = [Open EXCEPT ![p] = dbKey.word] /\ UNCHANGED dbKey.word
    BY <1>1, <2>2 DEF TheVault!Next, TheVault!Unlock, Open
  <2>3. CASE /\ Open[p] # NoWord
             /\ Open' = [Open EXCEPT ![p] = NoWord] /\ UNCHANGED dbKey.word
    BY <1>1, <2>3 DEF TheVault!Next, TheVault!Lock, Open
  <2> QED
    BY <1>3, <2>1, <2>2, <2>3, VaultStep
<1> QED
  BY <1>2, <1>3, NextIsStepOf

\* For any number of processes and faults, the store belongs to the passphrase it was
\* made with and is open only to those who give it (store.rs:43-60, db.rs:17).
THEOREM UnlockImplementsVault == Spec => ImplementsVault
<1>1. Init => TheVault!Init
  <2> SUFFICES ASSUME Init PROVE TheVault!Init
    OBVIOUS
  <2>1. dbKey.word = NoWord
    BY DEF Init, NoKey
  <2>2. \A p \in Procs : pc[p] # "unlocked"
    BY DEF Init
  <2> QED
    BY <2>1, <2>2 DEF TheVault!Init, TheVault!NoWord, NoWord
<1>2. UInv /\ [Next]_vars => [TheVault!Next]_<<dbKey.word, Open>>
  BY NextImplementsVault
<1> QED
  BY <1>1, <1>2, InitUInv, NextUInv, PTL DEF Spec, ImplementsVault, TheVault!Spec, Open
=============================================================================
