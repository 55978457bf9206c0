---------------------------- MODULE StoreUnlock ----------------------------
(***************************************************************************)
(* Store::unlock: the salt file, the key derived from it, the SQLCipher    *)
(* database and its migration, one file operation or SQL statement at a    *)
(* time.  coned and every command of the cone CLI that works on the store  *)
(* run it, so any two of them may be in it at once, and each may be killed *)
(* or fail anywhere.                                                       *)
(*                                                                         *)
(* A random salt is new; two keys are equal if passphrase and salt are.    *)
(* SQLite runs the statements of two processes one after the other.        *)
(***************************************************************************)
EXTENDS Integers

CONSTANTS
  Procs,      \* processes that open the store
  Words,      \* passphrases they are given
  Salts,      \* what random_salt returns
  Tables,     \* number of tables migration_001 creates
  MaxFaults   \* processes that are killed or fail

None == "none"     \* no such file
Short == "short"   \* the file is created and still empty
NoWord == "no word"

ASSUME WordsAssumption == NoWord \notin Words
ASSUME SaltsAssumption == None \notin Salts /\ Short \notin Salts
ASSUME TablesAssumption == Tables \in Nat \ {0}
ASSUME MaxFaultsAssumption == MaxFaults \in Nat

VARIABLES
  salt,      \* the file store.db.salt
  dbKey,     \* the passphrase and salt of the key store.db is encrypted with
  schema,    \* the table schema_version: absent, norow, old (0) or current (1)
  tables,    \* tables of migration_001 that exist
  pc,        \* per process: the next step of unlock; unlocked; idle
  word,      \* the passphrase it was given
  mine,      \* the salt it has in hand
  table,     \* the table it creates next
  outcome,   \* of its last unlock: none, ok, cutoff, shortsalt, wrongkey
  raced,     \* ghost: have two processes been creating the salt at once?
  faults     \* processes cut off so far

files == <<salt, dbKey, schema, tables>>
vars == <<files, pc, word, mine, table, outcome, raced, faults>>

NoKey == [word |-> NoWord, salt |-> None]
Keys == [word : Words, salt : Salts]

\* Between exists() and the end of write().
Creating(p) == pc[p] \in {"create", "write"}

TypeOK ==
  /\ salt \in Salts \cup {None, Short}
  /\ dbKey \in Keys \cup {NoKey}
  /\ schema \in {"absent", "norow", "old", "current"}
  /\ tables \subseteq 1..Tables
  /\ pc \in [Procs -> {"idle", "exists", "read", "create", "write", "open", "wal",
                       "versions", "row", "version", "table", "update", "unlocked"}]
  /\ word \in [Procs -> Words \cup {NoWord}]
  /\ mine \in [Procs -> Salts \cup {None}]
  /\ table \in [Procs -> 1..Tables]
  /\ outcome \in [Procs -> {"none", "ok", "cutoff", "shortsalt", "wrongkey"}]
  /\ raced \in BOOLEAN
  /\ faults \in 0..MaxFaults

Init ==
  /\ salt = None /\ dbKey = NoKey /\ schema = "absent" /\ tables = {}
  /\ pc = [p \in Procs |-> "idle"]
  /\ word = [p \in Procs |-> NoWord]
  /\ mine = [p \in Procs |-> None]
  /\ table = [p \in Procs |-> 1]
  /\ outcome = [p \in Procs |-> "none"]
  /\ raced = FALSE /\ faults = 0

Goes(p, to) == pc' = [pc EXCEPT ![p] = to] /\ UNCHANGED outcome

\* unlock returns: Ok, or the error of the step it was at.
Returns(p, to, how) ==
  /\ pc' = [pc EXCEPT ![p] = to]
  /\ outcome' = [outcome EXCEPT ![p] = how]

-----------------------------------------------------------------------------
(* load_or_create_db_salt and derive_key *)

Unlock(p, w) ==
  /\ pc[p] = "idle"
  /\ word' = [word EXCEPT ![p] = w]
  /\ mine' = [mine EXCEPT ![p] = None]
  /\ Returns(p, "exists", "none")
  /\ UNCHANGED <<files, table, raced, faults>>

\* Mutant: the salt is made when there is no database yet.
SaltExistsByDb(p) ==
  /\ pc[p] = "exists"
  /\ \/ dbKey # NoKey /\ Goes(p, "read") /\ UNCHANGED <<mine, raced>>
     \/ /\ dbKey = NoKey
        /\ \E s \in Salts \ ({mine[q] : q \in Procs} \cup {salt}) :
             mine' = [mine EXCEPT ![p] = s]
        /\ raced' = (raced \/ \E q \in Procs \ {p} : Creating(q))
        /\ Goes(p, "create")
  /\ UNCHANGED <<files, word, table, faults>>

\* exists(), and random_salt() if there is no file.
SaltExists(p) ==
  /\ pc[p] = "exists"
  /\ \/ salt # None /\ Goes(p, "read") /\ UNCHANGED <<mine, raced>>
     \/ /\ salt = None
        /\ \E s \in Salts \ {mine[q] : q \in Procs} : mine' = [mine EXCEPT ![p] = s]
        /\ raced' = (raced \/ \E q \in Procs \ {p} : Creating(q))
        /\ Goes(p, "create")
  /\ UNCHANGED <<files, word, table, faults>>

\* read(); Argon2 refuses an empty salt.
ReadSalt(p) ==
  /\ pc[p] = "read"
  /\ \/ salt = Short /\ Returns(p, "idle", "shortsalt") /\ UNCHANGED mine
     \/ salt \in Salts /\ mine' = [mine EXCEPT ![p] = salt] /\ Goes(p, "open")
  /\ UNCHANGED <<files, word, table, raced, faults>>

\* write() creates the file or cuts it to nothing ...
CreateSalt(p) ==
  /\ pc[p] = "create"
  /\ salt' = Short
  /\ Goes(p, "write")
  /\ UNCHANGED <<dbKey, schema, tables, word, mine, table, raced, faults>>

\* ... and then writes the salt.
WriteSalt(p) ==
  /\ pc[p] = "write"
  /\ salt' = mine[p]
  /\ Goes(p, "open")
  /\ UNCHANGED <<dbKey, schema, tables, word, mine, table, raced, faults>>

-----------------------------------------------------------------------------
(* db::open *)

Key(p) == [word |-> word[p], salt |-> mine[p]]

\* PRAGMA key and schema_version: an empty database takes any key.
OpenDb(p) ==
  /\ pc[p] = "open"
  /\ \/ dbKey \in {NoKey, Key(p)} /\ Goes(p, "wal")
     \/ dbKey \notin {NoKey, Key(p)} /\ Returns(p, "idle", "wrongkey")
  /\ UNCHANGED <<files, word, mine, table, raced, faults>>

\* Mutant: whatever the key check found, the database is opened for writing.
WalAnyKey(p) ==
  /\ pc[p] = "wal"
  /\ dbKey' = Key(p)
  /\ Goes(p, "versions")
  /\ UNCHANGED <<salt, schema, tables, word, mine, table, raced, faults>>

\* PRAGMA journal_mode = WAL writes the first page of an empty database, with the
\* key of who runs it; by now another process may have done so.
Wal(p) ==
  /\ pc[p] = "wal"
  /\ \/ dbKey \in {NoKey, Key(p)} /\ dbKey' = Key(p) /\ Goes(p, "versions")
     \/ dbKey \notin {NoKey, Key(p)} /\ Returns(p, "idle", "wrongkey") /\ UNCHANGED dbKey
  /\ UNCHANGED <<salt, schema, tables, word, mine, table, raced, faults>>

-----------------------------------------------------------------------------
(* migrate *)

\* CREATE TABLE IF NOT EXISTS schema_version
VersionTable(p) ==
  /\ pc[p] = "versions"
  /\ schema' = IF schema = "absent" THEN "norow" ELSE schema
  /\ Goes(p, "row")
  /\ UNCHANGED <<salt, dbKey, tables, word, mine, table, raced, faults>>

\* INSERT ... SELECT 0 WHERE NOT EXISTS
VersionRow(p) ==
  /\ pc[p] = "row"
  /\ schema' = IF schema = "norow" THEN "old" ELSE schema
  /\ Goes(p, "version")
  /\ UNCHANGED <<salt, dbKey, tables, word, mine, table, raced, faults>>

\* Mutant: the tables are taken to be there once the version has a row.
ReadVersionRow(p) ==
  /\ pc[p] = "version"
  /\ table' = [table EXCEPT ![p] = 1]
  /\ IF schema = "old" /\ tables = {} THEN Goes(p, "table") ELSE Returns(p, "unlocked", "ok")
  /\ UNCHANGED <<files, word, mine, raced, faults>>

ReadVersion(p) ==
  /\ pc[p] = "version"
  /\ table' = [table EXCEPT ![p] = 1]
  /\ IF schema = "old" THEN Goes(p, "table") ELSE Returns(p, "unlocked", "ok")
  /\ UNCHANGED <<files, word, mine, raced, faults>>

\* Mutant: CREATE TABLE without IF NOT EXISTS.
CreateTableOnce(p) ==
  /\ pc[p] = "table"
  /\ \/ /\ table[p] \notin tables
        /\ tables' = tables \cup {table[p]}
        /\ IF table[p] = Tables
           THEN Goes(p, "update") /\ UNCHANGED table
           ELSE table' = [table EXCEPT ![p] = @ + 1] /\ UNCHANGED <<pc, outcome>>
     \/ /\ table[p] \in tables
        /\ Returns(p, "idle", "cutoff")
        /\ UNCHANGED <<tables, table>>
  /\ UNCHANGED <<salt, dbKey, schema, word, mine, raced, faults>>

\* Mutant: off by one, the loop over the tables goes one past the last.
CreateTablePast(p) ==
  /\ pc[p] = "table"
  /\ tables' = tables \cup {table[p]}
  /\ IF table[p] > Tables
     THEN Goes(p, "update") /\ UNCHANGED table
     ELSE table' = [table EXCEPT ![p] = @ + 1] /\ UNCHANGED <<pc, outcome>>
  /\ UNCHANGED <<salt, dbKey, schema, word, mine, raced, faults>>

\* migration_001: CREATE TABLE IF NOT EXISTS, one statement per table.
CreateTable(p) ==
  /\ pc[p] = "table"
  /\ tables' = tables \cup {table[p]}
  /\ IF table[p] = Tables
     THEN Goes(p, "update") /\ UNCHANGED table
     ELSE table' = [table EXCEPT ![p] = @ + 1] /\ UNCHANGED <<pc, outcome>>
  /\ UNCHANGED <<salt, dbKey, schema, word, mine, raced, faults>>

\* UPDATE schema_version SET version = 1; the store is Unlocked.
SetVersion(p) ==
  /\ pc[p] = "update"
  /\ schema' = "current"
  /\ Returns(p, "unlocked", "ok")
  /\ UNCHANGED <<salt, dbKey, tables, word, mine, table, raced, faults>>

-----------------------------------------------------------------------------

\* lock(), or the process ends and drops the store.
Lock(p) ==
  /\ pc[p] = "unlocked"
  /\ Goes(p, "idle")
  /\ UNCHANGED <<files, word, mine, table, raced, faults>>

\* A step fails (the disk is full, SQLITE_BUSY) and `?` returns, or the process dies.
CutOff(p) ==
  /\ pc[p] # "idle" /\ faults < MaxFaults
  /\ faults' = faults + 1
  /\ Returns(p, "idle", "cutoff")
  /\ UNCHANGED <<files, word, mine, table, raced>>

SaltStep(p) == SaltExists(p) \/ ReadSalt(p) \/ CreateSalt(p) \/ WriteSalt(p)
DbStep(p) == \/ OpenDb(p) \/ Wal(p) \/ VersionTable(p) \/ VersionRow(p)
             \/ ReadVersion(p) \/ CreateTable(p) \/ SetVersion(p)
Step(p) == SaltStep(p) \/ DbStep(p)

Next == \E p \in Procs : \/ \E w \in Words : Unlock(p, w)
                         \/ Step(p) \/ Lock(p) \/ CutOff(p)

Spec == Init /\ [][Next]_vars

\* A process goes on until unlock returns and does not keep the store for ever,
\* and the user gives every passphrase again and again.
FairSpec ==
  /\ Spec
  /\ \A p \in Procs : WF_vars(Step(p)) /\ WF_vars(Lock(p))
  /\ \A p \in Procs : \A w \in Words : SF_vars(Unlock(p, w))

-----------------------------------------------------------------------------
(* Properties *)

\* Whoever else is in unlock, the store belongs to the passphrase it was made with:
\* no other one opens it, and nothing changes which it is (store.rs:43, db.rs:17).
TheVault == INSTANCE Vault
  WITH owner <- dbKey.word,
       open <- [p \in Procs |-> IF pc[p] = "unlocked" THEN word[p] ELSE NoWord]
ImplementsVault == TheVault!Spec

\* However often the migration was cut off, and whoever went on with it, an unlocked
\* store has every table and its version (db.rs:33-57).
UnlockedSeesSchema ==
  \A p \in Procs : pc[p] = "unlocked" => schema = "current" /\ tables = 1..Tables

\* "Returns an error if the passphrase is wrong" (store.rs:43), and "wrong passphrase?"
\* is what the CLI then asks (main.rs:592).  Unless two first runs overlapped, it was:
\* the salt that was read is the one the database was made with, whatever was cut off.
OnlyWrongPassphraseFails ==
  ~raced => \A p \in Procs : outcome[p] = "wrongkey" => word[p] # dbKey.word

\* A database that was made can be opened again by a user who keeps trying, also when
\* the run that made it, or its migration, was cut off (db.rs:34).
OpensAgain ==
  \A w \in Words :
    dbKey.word = w /\ salt = dbKey.salt
      ~> raced \/ \E p \in Procs : pc[p] = "unlocked" /\ word[p] = w
=============================================================================
