--------------------------- MODULE StoreAloneProofs ---------------------------
(***************************************************************************)
(* What holds of the store when one command runs at a time, failures and   *)
(* kills included, for any certificates, applications and ids: at most one *)
(* key for a certificate, a backup that refers to nothing outside of it, a *)
(* restore that meets no constraint but after a look-up of its own failed  *)
(* or at the route of a row that has another id by now, and a restore that *)
(* reports success and has brought everything.                             *)
(*                                                                         *)
(* The invariant follows the rows: from the tables into the backup as it   *)
(* reads them, and from the file into the tables as a restore inserts      *)
(* them.  That needs fingerprints to be unique at both ends, and an id to  *)
(* stand for one row (IdsInv).                                             *)
(***************************************************************************)
EXTENDS ConeStoreProofs

USE MaxIdAssumption, FaultsAssumption DEF Ids, tables, locals

OneAtATime == \A t, u \in Clients : t = u

UniqueCerts(S) == \A c, d \in S : c.id = d.id \/ c.fp = d.fp => c = d
UniqueApps(S) == \A a, b \in S : a.id = b.id \/ a.exe = b.exe => a = b

\* What a backup that was taken by itself holds.
Sound(f) ==
  /\ UniqueCerts(f.certs) /\ UniqueApps(f.apps)
  /\ \A r \in f.routes : (CertIn(r, f) \/ r.cert \in torn) /\ AppIn(r, f)

\* A certificate that waits for its key is there and has none.
Waits(t) == pc[t] \in {"key", "newKey"} => cert[t].id \in CertIds /\ keys[cert[t].id] = 0

WithKeys == {c \in certs : keys[c.id] > 0}

\* What a backup has read so far.
Reads(t) ==
  /\ pc[t] = "listApps" => load[t].certs = WithKeys
  /\ pc[t] = "listRoutes" => load[t].certs = WithKeys /\ load[t].apps = apps
  /\ op[t] = "backup" /\ pc[t] \in {"audit", "write", "fill"} => Sound(load[t])

InRestore(t) == pc[t] \in {"restore", "newCert", "newKey", "newApp"}

HasCert(row) == \E c \in certs : c.fp = row.fp
HasApp(row) == \E a \in apps : a.exe = row.exe

\* What a restore has brought so far ...
Brings(t) ==
  InRestore(t) =>
    /\ load[t].certs \subseteq file.certs /\ load[t].apps \subseteq file.apps
    /\ load[t].routes \subseteq file.routes
    /\ \A row \in file.certs \ load[t].certs :
         (pc[t] = "newCert" /\ cert[t] = row) \/ HasCert(row)
    /\ \A row \in file.apps \ load[t].apps :
         (pc[t] = "newApp" /\ app[t] = row) \/ HasApp(row)
    /\ file.routes \ load[t].routes \subseteq routes

\* ... and in the end.
Brought(t) ==
  op[t] = "restore" /\ (pc[t] = "audit" \/ outcome[t] = "ok") =>
    /\ \A row \in file.certs : HasCert(row)
    /\ \A row \in file.apps : HasApp(row)
    /\ file.routes \subseteq routes

\* A restore that started on an empty store finds only rows in it that it brought.
Fresh(t) ==
  op[t] = "restore" /\ onEmpty[t] =>
    /\ InRestore(t) => /\ certs \subseteq file.certs \ load[t].certs
                       /\ apps \subseteq file.apps \ load[t].apps
    /\ pc[t] = "newCert" => cert[t] \in file.certs \ (certs \cup load[t].certs)
    /\ pc[t] = "newApp" => app[t] \in file.apps \ (apps \cup load[t].apps)
    /\ Closed(file) => outcome[t] \notin {"unique", "foreign"}

Running(t) == pc[t] # "idle" => outcome[t] = "none"

Own(t) ==
  /\ Waits(t) /\ Reads(t)
  /\ Brings(t) /\ Brought(t) /\ Fresh(t) /\ Running(t)

AloneInv ==
  /\ SInv /\ IdsInv
  /\ UniqueCerts(certs) /\ UniqueApps(apps) /\ Sound(file)
  /\ AtMostOneKey
  /\ \A t \in Clients : Own(t)

LEMMA InitAlone == Init => AloneInv
<1> SUFFICES ASSUME Init PROVE AloneInv
  OBVIOUS
<1>1. SInv /\ IdsInv
  BY InitInv, InitIds
<1>2. UniqueCerts(certs) /\ UniqueApps(apps) /\ Sound(file) /\ AtMostOneKey
  BY DEF Init, UniqueCerts, UniqueApps, Sound, Nothing, AtMostOneKey
<1>3. ASSUME NEW t \in Clients PROVE Own(t)
  BY DEF Init, Own, Waits, Reads, Brings, InRestore, Brought, Fresh, Running
<1> QED
  BY <1>1, <1>2, <1>3 DEF AloneInv

-----------------------------------------------------------------------------
(* What a step of t does to its own locals *)

\* The only command at a time is t's.
LEMMA NoOther == ASSUME OneAtATime, NEW t \in Clients, NEW u \in Clients PROVE u = t
BY DEF OneAtATime

LEMMA RunningStep ==
  ASSUME TypeOK, NEW t \in Clients, StepOf(t), Running(t)
  PROVE  Running(t)'
<1> USE Control DEF Running, InsertKey
<1>1. CASE ImportNext(t)
  BY <1>1 DEF ImportNext, Import, ImportKey, Audit
<1>2. CASE RemoveNext(t)
  BY <1>2 DEF RemoveNext, Remove, Delete
<1>3. CASE RouteNext(t)
  BY <1>3 DEF RouteNext, AppAdd, RouteAdd, RouteApp, RouteInsert, RouteRemove
<1>4. CASE BackupNext(t)
  BY <1>4 DEF BackupNext, Backup, BackupApps, BackupRoutes, EmptyFile,
     WriteFile
<1>5. CASE RestoreNext(t)
  BY <1>5 DEF RestoreNext, Restore, CheckCert, LookUp, RestoreCert, RestoreKey, CheckApp,
              RestoreApp, RestoreRoute, RestoreEnds
<1>6. CASE Fail(t)
  BY <1>6 DEF Fail
<1> QED
  BY <1>1, <1>2, <1>3, <1>4, <1>5, <1>6 DEF StepOf

-----------------------------------------------------------------------------
(* Rows and keys *)

\* INSERT meets the UNIQUE constraints.
LEMMA UniqueStep ==
  ASSUME UniqueCerts(certs), UniqueApps(apps), [Next]_vars
  PROVE  UniqueCerts(certs') /\ UniqueApps(apps')
<1> USE DEF UniqueCerts, UniqueApps, InsertKey, CertConflict, AppConflict
<1>1. ASSUME NEW t \in Clients, ImportNext(t)
      PROVE  UniqueCerts(certs') /\ UniqueApps(apps')
  BY <1>1 DEF ImportNext, Import, ImportKey, Audit
<1>2. ASSUME NEW t \in Clients, RemoveNext(t)
      PROVE  UniqueCerts(certs') /\ UniqueApps(apps')
  BY <1>2 DEF RemoveNext, Remove, Delete
<1>3. ASSUME NEW t \in Clients, RouteNext(t)
      PROVE  UniqueCerts(certs') /\ UniqueApps(apps')
  BY <1>3 DEF RouteNext, AppAdd, RouteAdd, RouteApp, RouteInsert, RouteRemove
<1>4. ASSUME NEW t \in Clients, BackupNext(t)
      PROVE  UniqueCerts(certs') /\ UniqueApps(apps')
  BY <1>4 DEF BackupNext, Backup, BackupApps, BackupRoutes, EmptyFile,
     WriteFile
<1>5. ASSUME NEW t \in Clients, RestoreNext(t)
      PROVE  UniqueCerts(certs') /\ UniqueApps(apps')
  BY <1>5 DEF RestoreNext, Restore, CheckCert, LookUp, RestoreCert, RestoreKey, CheckApp,
              RestoreApp, RestoreRoute, RestoreEnds
<1>6. ASSUME NEW t \in Clients, Fail(t)
      PROVE  UniqueCerts(certs') /\ UniqueApps(apps')
  BY <1>6 DEF Fail
<1>7. CASE Wipe
  BY <1>7 DEF Wipe
<1>8. CASE UNCHANGED vars
  BY <1>8 DEF vars
<1> QED
  BY <1>1, <1>2, <1>3, <1>4, <1>5, <1>6, <1>7, <1>8 DEF Next

\* A row that comes in by its id has no key yet.
LEMMA NewRowHasNoKey ==
  ASSUME TypeOK, NothingDangles, NEW row \in CertRows, ~CertConflict(row)
  PROVE  keys[row.id] = 0
<1>1. row.id \in Ids
  BY DEF CertRows
<1>2. row.id \notin CertIds
  BY DEF CertConflict, CertIds
<1>3. keys[row.id] \in Nat
  BY <1>1 DEF TypeOK
<1> QED
  BY <1>1, <1>2, <1>3 DEF NothingDangles

\* How a step of t treats keys: one more for the certificate that waits for it, or
\* none more.
LEMMA KeysGrow ==
  ASSUME TypeOK, NEW t \in Clients, StepOf(t), NEW i \in Ids
  PROVE  \/ keys'[i] = keys[i] \/ keys'[i] = 0
         \/ /\ pc[t] \in {"key", "newKey"} /\ i = cert[t].id
            /\ keys'[i] = keys[i] + 1
<1>1. keys \in [Ids -> Nat]
  BY DEF TypeOK
<1>2. CASE ImportNext(t)
  BY <1>1, <1>2 DEF ImportNext, Import, ImportKey, Audit, InsertKey
<1>3. CASE RemoveNext(t)
  BY <1>1, <1>3 DEF RemoveNext, Remove, Delete
<1>4. CASE RouteNext(t)
  BY <1>1, <1>4 DEF RouteNext, AppAdd, RouteAdd, RouteApp, RouteInsert, RouteRemove
<1>5. CASE BackupNext(t)
  BY <1>1, <1>5 DEF BackupNext, Backup, BackupApps, BackupRoutes, EmptyFile,
     WriteFile
<1>6. CASE RestoreNext(t)
  BY <1>1, <1>6 DEF RestoreNext, Restore, CheckCert, LookUp, RestoreCert, RestoreKey, CheckApp,
                    RestoreApp, RestoreRoute, RestoreEnds, InsertKey
<1>7. CASE Fail(t)
  BY <1>1, <1>7 DEF Fail
<1> QED
  BY <1>2, <1>3, <1>4, <1>5, <1>6, <1>7 DEF StepOf

LEMMA WaitsStep ==
  ASSUME SInv, NEW t \in Clients, StepOf(t)
  PROVE  Waits(t)'
<1>1. TypeOK /\ At(t)
  BY DEF SInv, StepOfOp
<1> USE Control DEF Waits, InsertKey
<1>2. CASE ImportNext(t)
  <2>1. ASSUME NEW f \in Fps, Import(t, f) PROVE Waits(t)'
    <3>1. PICK id \in Ids :
            LET row == [id |-> id, fp |-> f]
            IN  /\ cert' = [cert EXCEPT ![t] = row] /\ keys' = keys
                /\ \/ ~CertConflict(row) /\ certs' = certs \cup {row} /\ Goes(t, "key")
                   \/ CertConflict(row) /\ UNCHANGED certs /\ Ends(t, "unique")
      BY <2>1 DEF Import
    <3>2. cert'[t] = [id |-> id, fp |-> f] /\ [id |-> id, fp |-> f] \in CertRows
      BY <1>1, <3>1 DEF TypeOK, CertRows
    <3>3. CASE ~CertConflict([id |-> id, fp |-> f])
      <4>1. keys[id] = 0
        BY <1>1, <3>2, <3>3, NewRowHasNoKey DEF SInv
      <4>2. certs' = certs \cup {[id |-> id, fp |-> f]}
        BY <3>1, <3>3
      <4> QED
        BY <3>1, <3>2, <4>1, <4>2 DEF CertIds
    <3>4. CASE CertConflict([id |-> id, fp |-> f])
      BY <1>1, <3>1, <3>4
    <3> QED
      BY <3>3, <3>4
  <2>2. CASE ImportKey(t) \/ Audit(t)
    BY <1>1, <2>2 DEF ImportKey, Audit
  <2> QED
    BY <1>2, <2>1, <2>2 DEF ImportNext
<1>3. CASE RemoveNext(t)
  BY <1>1, <1>3 DEF RemoveNext, Remove, Delete
<1>4. CASE RouteNext(t)
  <2>1. ASSUME NEW e \in Exes, AppAdd(t, e) PROVE Waits(t)'
    BY <1>1, <2>1 DEF AppAdd
  <2>2. CASE RouteAdd(t) \/ RouteApp(t)
    BY <1>1, <2>2 DEF RouteAdd, RouteApp
  <2>3. CASE RouteInsert(t) \/ RouteRemove(t)
    BY <1>1, <2>3 DEF RouteInsert, RouteRemove
  <2> QED
    BY <1>4, <2>1, <2>2, <2>3 DEF RouteNext
<1>5. CASE BackupNext(t)
  BY <1>1, <1>5 DEF BackupNext, Backup, BackupApps, BackupRoutes, EmptyFile,
     WriteFile
<1>6. CASE RestoreNext(t)
  <2>1. CASE RestoreCert(t)
    <3>1. cert[t] \in CertRows
      BY <1>1, <2>1 DEF RestoreCert, At
    <3> QED
      BY <1>1, <2>1, <3>1, NewRowHasNoKey DEF RestoreCert, CertIds, SInv
  <2> QED
    BY <1>1, <1>6, <2>1 DEF RestoreNext, Restore, CheckCert, LookUp, RestoreKey, CheckApp,
                            RestoreApp, RestoreRoute, RestoreEnds
<1>7. CASE Fail(t)
  BY <1>1, <1>7 DEF Fail
<1> QED
  BY <1>2, <1>3, <1>4, <1>5, <1>6, <1>7 DEF StepOf

LEMMA OneKeyStep ==
  ASSUME TypeOK, AtMostOneKey, NEW t \in Clients, Waits(t), StepOf(t)
  PROVE  AtMostOneKey'
<1> SUFFICES ASSUME NEW i \in Ids PROVE keys'[i] <= 1
  BY DEF AtMostOneKey
<1>1. keys[i] \in Nat /\ keys[i] <= 1
  BY DEF TypeOK, AtMostOneKey
<1> QED
  BY <1>1, KeysGrow DEF Waits

-----------------------------------------------------------------------------
(* Backups *)

\* What a backup that has come this far holds, if it is the only command.
LEMMA BackupRead ==
  ASSUME SInv, UniqueCerts(certs), UniqueApps(apps), OneAtATime, NEW t \in Clients,
         pc[t] = "listRoutes", load[t].certs = WithKeys, load[t].apps = apps,
         NEW f, f.certs = load[t].certs, f.apps = load[t].apps, f.routes = routes
  PROVE  Sound(f)
<1>1. UniqueCerts(f.certs) /\ UniqueApps(f.apps)
  BY DEF UniqueCerts, UniqueApps, WithKeys
<1>2. ASSUME NEW r \in routes PROVE (CertIn(r, f) \/ r.cert \in torn) /\ AppIn(r, f)
  <2>1. RouteHolds(r)
    BY DEF SInv, NothingDangles
  <2>2. PICK c \in certs : c.id = r.cert
    BY <2>1 DEF RouteHolds, CertIds
  <2>3. keys[c.id] > 0 \/ c.id \in torn
    <3>1. \A u \in Clients : pc[u] \notin {"key", "newKey"}
      BY NoOther
    <3> QED
      BY <3>1 DEF SInv, CertsHaveKeys
  <2>4. CertIn(r, f) \/ r.cert \in torn
    BY <2>2, <2>3 DEF CertIn, WithKeys
  <2>5. AppIn(r, f)
    BY <2>1 DEF AppIn, RouteHolds, AppIds
  <2> QED
    BY <2>4, <2>5
<1> QED
  BY <1>1, <1>2 DEF Sound

LEMMA SoundStays ==
  ASSUME NEW f, Sound(f), torn \subseteq torn'
  PROVE  Sound(f)'
BY DEF Sound

\* The file changes only when a backup is written, torn only grows.
LEMMA FileStays ==
  ASSUME TypeOK, NEW t \in Clients, StepOf(t), ~EmptyFile(t), ~WriteFile(t)
  PROVE  file' = file \/ file' = Nothing
<1> USE DEF InsertKey
<1>1. CASE ImportNext(t)
  BY <1>1 DEF ImportNext, Import, ImportKey, Audit
<1>2. CASE RemoveNext(t)
  BY <1>2 DEF RemoveNext, Remove, Delete
<1>3. CASE RouteNext(t)
  BY <1>3 DEF RouteNext, AppAdd, RouteAdd, RouteApp, RouteInsert, RouteRemove
<1>4. CASE BackupNext(t)
  BY <1>4 DEF BackupNext, Backup, BackupApps, BackupRoutes
<1>5. CASE RestoreNext(t)
  BY <1>5 DEF RestoreNext, Restore, CheckCert, LookUp, RestoreCert, RestoreKey, CheckApp,
              RestoreApp, RestoreRoute, RestoreEnds
<1>6. CASE Fail(t)
  BY <1>6 DEF Fail
<1> QED
  BY <1>1, <1>2, <1>3, <1>4, <1>5, <1>6 DEF StepOf

LEMMA ReadsStep ==
  ASSUME SInv, UniqueCerts(certs), UniqueApps(apps), OneAtATime,
         NEW t \in Clients, Reads(t), StepOf(t)
  PROVE  Reads(t)'
<1>1. TypeOK /\ At(t) /\ torn \subseteq torn'
  BY FrameStep DEF SInv, StepOfOp, Frame
<1>2. CASE ImportNext(t)
  <2>1. ASSUME NEW f \in Fps, Import(t, f) PROVE Reads(t)'
    BY <1>1, <2>1, Control DEF Import, Reads
  <2>2. CASE ImportKey(t)
    BY <1>1, <2>2, Control DEF ImportKey, InsertKey, Reads, At
  <2>3. CASE Audit(t)
    <3>1. load'[t] = load[t] /\ op'[t] = op[t] /\ pc'[t] \in {"write", "idle"}
          /\ pc[t] = "audit" /\ (pc'[t] = "write" => op[t] = "backup")
      BY <1>1, <2>3, Control DEF Audit
    <3> QED
      BY <1>1, <3>1, SoundStays DEF Reads
  <2> QED
    BY <1>2, <2>1, <2>2, <2>3 DEF ImportNext
<1>3. CASE RemoveNext(t)
  BY <1>1, <1>3, Control DEF RemoveNext, Remove, Delete, Reads, At
<1>4. CASE RouteNext(t)
  <2>1. ASSUME NEW e \in Exes, AppAdd(t, e) PROVE Reads(t)'
    BY <1>1, <2>1, Control DEF AppAdd, Reads
  <2>2. CASE RouteAdd(t) \/ RouteApp(t)
    BY <1>1, <2>2, Control DEF RouteAdd, RouteApp, Reads, At
  <2>3. CASE RouteInsert(t) \/ RouteRemove(t)
    BY <1>1, <2>3, Control DEF RouteInsert, RouteRemove, Reads, At
  <2> QED
    BY <1>4, <2>1, <2>2, <2>3 DEF RouteNext
<1>5. CASE BackupNext(t)
  <2>1. CASE Backup(t)
    BY <1>1, <2>1, Control DEF Backup, Nothing, Reads, WithKeys, TypeOK
  <2>2. CASE BackupApps(t)
    <3>1. load'[t].certs = load[t].certs /\ load'[t].apps = apps
      BY <1>1, <2>2 DEF BackupApps, TypeOK, Payloads
    <3> QED
      BY <1>1, <2>2, <3>1, Control DEF BackupApps, Reads, WithKeys
  <2>3. CASE BackupRoutes(t)
    <3>1. /\ load'[t].certs = load[t].certs /\ load'[t].apps = load[t].apps
          /\ load'[t].routes = routes
      BY <1>1, <2>3 DEF BackupRoutes, TypeOK, Payloads
    <3>2. pc[t] = "listRoutes" /\ load[t].certs = WithKeys /\ load[t].apps = apps
      BY <2>3 DEF BackupRoutes, Reads
    <3>3. \A f : f.certs = load[t].certs /\ f.apps = load[t].apps /\ f.routes = routes
                => Sound(f)
      BY <3>2, BackupRead
    <3>4. Sound(load[t])'
      BY <1>1, <3>1, <3>3 DEF Sound
    <3> QED
      BY <1>1, <2>3, <3>4, Control DEF BackupRoutes, Reads
  <2>4. CASE EmptyFile(t)
    <3>1. pc'[t] = "fill" /\ op' = op /\ load' = load /\ pc[t] = "write"
      BY <1>1, <2>4, Control DEF EmptyFile
    <3> QED
      BY <1>1, <3>1, SoundStays DEF Reads
  <2>5. CASE WriteFile(t)
    BY <1>1, <2>5, Control DEF WriteFile, Reads
  <2> QED
    BY <1>5, <2>1, <2>2, <2>3, <2>4, <2>5 DEF BackupNext
<1>6. CASE RestoreNext(t)
  <2>1. op'[t] = "restore" /\ pc'[t] \notin {"listApps", "listRoutes"}
    BY <1>1, <1>6, Control DEF RestoreNext, Restore, CheckCert, LookUp, RestoreCert, RestoreKey,
         InsertKey, CheckApp, RestoreApp, RestoreRoute, RestoreEnds, At
  <2> QED
    BY <2>1 DEF Reads
<1>7. CASE Fail(t)
  BY <1>1, <1>7, Control DEF Fail, Reads
<1> QED
  BY <1>2, <1>3, <1>4, <1>5, <1>6, <1>7 DEF StepOf

LEMMA FileStep ==
  ASSUME SInv, NEW t \in Clients, Reads(t), Sound(file), StepOf(t)
  PROVE  Sound(file)'
<1>1. TypeOK /\ At(t) /\ torn \subseteq torn'
  BY FrameStep DEF SInv, StepOfOp, Frame
<1>2. Sound(Nothing)'
  BY DEF Sound, Nothing, UniqueCerts, UniqueApps
<1>3. CASE EmptyFile(t)
  BY <1>2, <1>3 DEF EmptyFile, Sound
<1>4. CASE WriteFile(t)
  <2>1. file' \in {load[t], Nothing} /\ Sound(load[t])
    BY <1>1, <1>4 DEF WriteFile, Reads, At
  <2> QED
    BY <1>1, <1>2, <2>1 DEF Sound
<1>5. CASE ~EmptyFile(t) /\ ~WriteFile(t)
  BY <1>1, <1>2, <1>5, FileStays DEF Sound
<1> QED
  BY <1>3, <1>4, <1>5

-----------------------------------------------------------------------------
(* Restores *)

\* Only a restore goes to the statements of one, and what is not one says so.
LEMMA NotRestoring ==
  ASSUME TypeOK, NEW t \in Clients, At(t), StepOf(t), ~RestoreNext(t), ~Audit(t), ~Fail(t)
  PROVE  op'[t] # "restore" /\ ~InRestore(t)'
<1> USE DEF InRestore, At
<1>1. CASE ImportNext(t)
  <2>1. ASSUME NEW f \in Fps, Import(t, f) PROVE op'[t] # "restore" /\ ~InRestore(t)'
    BY <2>1, Control DEF Import
  <2>2. CASE ImportKey(t)
    BY <2>2, Control DEF ImportKey, InsertKey
  <2> QED
    BY <1>1, <2>1, <2>2 DEF ImportNext
<1>2. CASE RemoveNext(t)
  BY <1>2, Control DEF RemoveNext, Remove, Delete
<1>3. CASE RouteNext(t)
  <2>1. ASSUME NEW e \in Exes, AppAdd(t, e) PROVE op'[t] # "restore" /\ ~InRestore(t)'
    BY <2>1, Control DEF AppAdd
  <2>2. CASE RouteAdd(t) \/ RouteApp(t)
    BY <2>2, Control DEF RouteAdd, RouteApp
  <2>3. CASE RouteInsert(t) \/ RouteRemove(t)
    BY <2>3, Control DEF RouteInsert, RouteRemove
  <2> QED
    BY <1>3, <2>1, <2>2, <2>3 DEF RouteNext
<1>4. CASE BackupNext(t)
  BY <1>4, Control DEF BackupNext, Backup, BackupApps, BackupRoutes, EmptyFile,
     WriteFile
<1> QED
  BY <1>1, <1>2, <1>3, <1>4 DEF StepOf

\* Rows that have come in stay while a restore runs.
LEMMA HasStays ==
  ASSUME certs \subseteq certs', apps \subseteq apps', NEW row
  PROVE  (HasCert(row) => HasCert(row)') /\ (HasApp(row) => HasApp(row)')
BY DEF HasCert, HasApp

LEMMA BringsStep ==
  ASSUME TypeOK, IdsAreForGood, NEW t \in Clients, Brings(t), RestoreNext(t)
  PROVE  Brings(t)'
<1>1. file' = file /\ certs \subseteq certs' /\ apps \subseteq apps' /\ routes \subseteq routes'
  BY DEF RestoreNext, Restore, CheckCert, LookUp, RestoreCert, RestoreKey, InsertKey, CheckApp,
         RestoreApp, RestoreRoute, RestoreEnds
<1>2. load \in [Clients -> Payloads]
  BY DEF TypeOK
<1> USE Control DEF InRestore
<1>3. CASE Restore(t)
  BY <1>1, <1>2, <1>3 DEF Restore, Brings
<1>4. CASE CheckCert(t)
  <2>1. PICK row \in load[t].certs :
          /\ load'[t].certs = load[t].certs \ {row}
          /\ load'[t].apps = load[t].apps /\ load'[t].routes = load[t].routes
          /\ cert'[t] = row
          /\ \/ Goes(t, "restore") /\ HasCert(row)
             \/ Goes(t, "newCert")
    BY <1>2, <1>4 DEF CheckCert, LookUp, HasCert, TypeOK, Payloads
  <2>2. pc[t] = "restore" /\ certs' = certs /\ apps' = apps /\ routes' = routes
    BY <1>4 DEF CheckCert, LookUp
  <2> QED
    BY <1>1, <2>1, <2>2 DEF Brings, HasCert, HasApp
<1>5. CASE RestoreCert(t)
  <2>1. /\ pc[t] = "newCert" /\ load' = load /\ cert' = cert /\ apps' = apps /\ routes' = routes
        /\ \/ cert[t] \in certs' /\ pc'[t] = "newKey"
           \/ pc'[t] = "idle"
    BY <1>5 DEF RestoreCert
  <2>2. cert[t] \in certs' => HasCert(cert[t])'
    BY <2>1 DEF HasCert
  <2> QED
    BY <1>1, <2>1, <2>2, HasStays DEF Brings
<1>6. CASE RestoreKey(t) \/ RestoreEnds(t)
  BY <1>1, <1>6 DEF RestoreKey, InsertKey, RestoreEnds, Brings, HasCert, HasApp
<1>7. CASE CheckApp(t)
  <2>1. PICK row \in load[t].apps :
          /\ load'[t].apps = load[t].apps \ {row}
          /\ load'[t].certs = load[t].certs /\ load'[t].routes = load[t].routes
          /\ app'[t] = row
          /\ \/ Goes(t, "restore") /\ HasApp(row)
             \/ Goes(t, "newApp")
    BY <1>2, <1>7 DEF CheckApp, LookUp, HasApp, TypeOK, Payloads
  <2>2. pc[t] = "restore" /\ certs' = certs /\ apps' = apps /\ routes' = routes
    BY <1>7 DEF CheckApp, LookUp
  <2> QED
    BY <1>1, <2>1, <2>2 DEF Brings, HasCert, HasApp
<1>8. CASE RestoreApp(t)
  <2>1. /\ pc[t] = "newApp" /\ load' = load /\ app' = app /\ certs' = certs /\ routes' = routes
        /\ \/ app[t] \in apps' /\ pc'[t] = "restore"
           \/ pc'[t] = "idle"
    BY <1>8 DEF RestoreApp
  <2>2. app[t] \in apps' => HasApp(app[t])'
    BY <2>1 DEF HasApp
  <2> QED
    BY <1>1, <2>1, <2>2, HasStays DEF Brings
<1>9. CASE RestoreRoute(t)
  <2>1. PICK row \in load[t].routes :
          /\ load'[t].routes = load[t].routes \ {row}
          /\ load'[t].certs = load[t].certs /\ load'[t].apps = load[t].apps
          /\ \/ row.id \in RouteIds /\ UNCHANGED routes /\ Goes(t, "restore")
             \/ routes' = routes \cup {row} /\ Goes(t, "restore")
             \/ UNCHANGED routes /\ Ends(t, "foreign")
    BY <1>2, <1>9 DEF RestoreRoute, Payloads
  <2>2. pc[t] = "restore" /\ certs' = certs /\ apps' = apps
    BY <1>9 DEF RestoreRoute
  <2>3. row.id \in RouteIds => row \in routes
    BY <2>1, <2>2 DEF RouteIds, IdsAreForGood, Brings
  <2> QED
    BY <1>1, <2>1, <2>2, <2>3 DEF Brings, HasCert, HasApp
<1> QED
  BY <1>3, <1>4, <1>5, <1>6, <1>7, <1>8, <1>9 DEF RestoreNext

LEMMA BroughtStep ==
  ASSUME TypeOK, NEW t \in Clients, At(t), Brings(t), Brought(t), StepOf(t)
  PROVE  Brought(t)'
<1>1. CASE Audit(t)
  <2>1. /\ op'[t] = op[t] /\ pc[t] = "audit"
        /\ file' = file /\ certs' = certs /\ apps' = apps /\ routes' = routes
    BY <1>1 DEF Audit
  <2> QED
    BY <2>1 DEF Brought, HasCert, HasApp
<1>2. CASE Fail(t)
  BY <1>2, Control DEF Fail, Brought
<1>3. CASE RestoreEnds(t)
  <2>1. /\ pc[t] = "restore"
        /\ load[t].certs = {} /\ load[t].apps = {} /\ load[t].routes = {}
        /\ file' = file /\ certs' = certs /\ apps' = apps /\ routes' = routes
    BY <1>3 DEF RestoreEnds
  <2> QED
    BY <2>1 DEF Brings, InRestore, Brought, HasCert, HasApp
<1>4. CASE RestoreNext(t) /\ ~RestoreEnds(t)
  <2>1. pc'[t] # "audit" /\ outcome'[t] # "ok"
    BY <1>4, Control DEF RestoreNext, Restore, CheckCert, LookUp, RestoreCert, RestoreKey, InsertKey,
                         CheckApp, RestoreApp, RestoreRoute
  <2> QED
    BY <2>1 DEF Brought
<1> QED
  BY <1>1, <1>2, <1>3, <1>4, NotRestoring DEF Brought

\* With the certificates and applications of the file in place, so are those its
\* routes refer to.
LEMMA RouteFits ==
  ASSUME NEW t \in Clients, Brings(t), pc[t] = "restore",
         load[t].certs = {}, load[t].apps = {},
         certs \subseteq file.certs, apps \subseteq file.apps, Sound(file), Closed(file),
         NEW row \in load[t].routes
  PROVE  RouteHolds(row)
<1>1. row \in file.routes
  BY DEF Brings, InRestore
<1>2. row.cert \in CertIds
  <2>1. PICK c \in file.certs : c.id = row.cert
    BY <1>1 DEF Closed, CertIn
  <2>2. HasCert(c)
    BY DEF Brings, InRestore
  <2>3. c \in certs
    BY <2>2 DEF HasCert, Sound, UniqueCerts
  <2> QED
    BY <2>1, <2>3 DEF CertIds
<1>3. row.app \in AppIds \cup {0}
  <2>1. SUFFICES ASSUME row.app # 0 PROVE row.app \in AppIds
    OBVIOUS
  <2>2. PICK a \in file.apps : a.id = row.app
    BY <1>1, <2>1 DEF Closed, AppIn
  <2>3. HasApp(a)
    BY DEF Brings, InRestore
  <2>4. a \in apps
    BY <2>3 DEF HasApp, Sound, UniqueApps
  <2> QED
    BY <2>2, <2>4 DEF AppIds
<1> QED
  BY <1>2, <1>3 DEF RouteHolds

LEMMA FreshStep ==
  ASSUME TypeOK, Sound(file), NEW t \in Clients, At(t), Waits(t), Brings(t), Fresh(t),
         Running(t), StepOf(t)
  PROVE  Fresh(t)'
<1>1. load \in [Clients -> Payloads] /\ onEmpty \in [Clients -> BOOLEAN]
  BY DEF TypeOK
<1>2. CASE ~RestoreNext(t) /\ ~Audit(t) /\ ~Fail(t)
  BY <1>2, NotRestoring DEF Fresh
<1>3. CASE Audit(t) \/ Fail(t)
  <2>1. pc'[t] \in {"idle", "write"} /\ outcome'[t] \notin {"unique", "foreign"}
    BY <1>3, Control DEF Audit, Fail
  <2> QED
    BY <2>1 DEF Fresh, InRestore
<1>4. CASE Restore(t)
  <2>1. /\ pc'[t] = "restore" /\ outcome'[t] = "none"
        /\ onEmpty'[t] = (certs = {} /\ apps = {} /\ routes = {})
        /\ certs' = certs /\ apps' = apps
    BY <1>1, <1>4, Control DEF Restore
  <2> QED
    BY <2>1 DEF Fresh
<1> SUFFICES ASSUME RestoreNext(t), ~Restore(t), onEmpty[t] PROVE Fresh(t)'
  <2>1. CASE RestoreNext(t) /\ ~Restore(t) /\ ~onEmpty[t]
    <3>1. onEmpty' = onEmpty
      BY <2>1 DEF RestoreNext, CheckCert, LookUp, RestoreCert, RestoreKey, InsertKey, CheckApp,
                  RestoreApp, RestoreRoute, RestoreEnds
    <3> QED
      BY <2>1, <3>1 DEF Fresh
  <2> QED
    BY <1>2, <1>3, <1>4, <2>1
<1>5. InRestore(t) /\ op[t] = "restore" /\ file' = file /\ op' = op /\ onEmpty' = onEmpty
  BY DEF RestoreNext, CheckCert, LookUp, RestoreCert, RestoreKey, InsertKey, CheckApp,
         RestoreApp, RestoreRoute, RestoreEnds, InRestore, At
<1>6. certs \subseteq file.certs \ load[t].certs /\ apps \subseteq file.apps \ load[t].apps
  BY <1>5 DEF Fresh
<1>7. CASE CheckCert(t)
  <2>1. PICK row \in load[t].certs :
          /\ cert'[t] = row
          /\ load'[t].certs = load[t].certs \ {row} /\ load'[t].apps = load[t].apps
          /\ Goes(t, "restore") \/ Goes(t, "newCert")
    BY <1>1, <1>7 DEF CheckCert, LookUp, TypeOK, Payloads
  <2>2. row \in file.certs /\ certs' = certs /\ apps' = apps
    BY <1>5, <1>7 DEF CheckCert, LookUp, Brings
  <2> QED
    BY <1>5, <1>6, <2>1, <2>2, Control DEF Fresh
<1>8. CASE RestoreCert(t)
  <2>1. cert[t] \in file.certs \ (certs \cup load[t].certs) /\ load' = load
    BY <1>5, <1>8 DEF RestoreCert, Fresh
  <2>2. ~CertConflict(cert[t])
    BY <1>6, <2>1 DEF CertConflict, Sound, UniqueCerts
  <2>3. certs' = certs \cup {cert[t]} /\ apps' = apps /\ pc'[t] = "newKey" /\ outcome'[t] = "none"
    BY <1>8, <2>2, Control DEF RestoreCert
  <2> QED
    BY <1>5, <1>6, <2>1, <2>3 DEF Fresh
<1>9. CASE RestoreKey(t)
  <2>1. pc'[t] = "restore" /\ outcome'[t] = "none" /\ certs' = certs /\ apps' = apps /\ load' = load
    BY <1>9, Control DEF RestoreKey, InsertKey, Waits
  <2> QED
    BY <1>5, <1>6, <2>1 DEF Fresh
<1>10. CASE CheckApp(t)
  <2>1. PICK row \in load[t].apps :
          /\ app'[t] = row
          /\ load'[t].apps = load[t].apps \ {row} /\ load'[t].certs = load[t].certs
          /\ Goes(t, "restore") \/ Goes(t, "newApp")
    BY <1>1, <1>10 DEF CheckApp, LookUp, TypeOK, Payloads
  <2>2. row \in file.apps /\ certs' = certs /\ apps' = apps
    BY <1>5, <1>10 DEF CheckApp, LookUp, Brings
  <2> QED
    BY <1>5, <1>6, <2>1, <2>2, Control DEF Fresh
<1>11. CASE RestoreApp(t)
  <2>1. app[t] \in file.apps \ (apps \cup load[t].apps) /\ load' = load
    BY <1>5, <1>11 DEF RestoreApp, Fresh
  <2>2. ~AppConflict(app[t])
    BY <1>6, <2>1 DEF AppConflict, Sound, UniqueApps
  <2>3. apps' = apps \cup {app[t]} /\ certs' = certs /\ pc'[t] = "restore" /\ outcome'[t] = "none"
    BY <1>11, <2>2, Control DEF RestoreApp
  <2> QED
    BY <1>5, <1>6, <2>1, <2>3 DEF Fresh
<1>12. CASE RestoreRoute(t)
  <2>1. /\ certs' = certs /\ apps' = apps /\ pc'[t] \in {"restore", "idle"}
        /\ load'[t].certs = load[t].certs /\ load'[t].apps = load[t].apps
    BY <1>1, <1>12, Control DEF RestoreRoute, Payloads
  <2>2. Closed(file) => outcome'[t] = "none"
    <3> SUFFICES ASSUME Closed(file) PROVE outcome'[t] = "none"
      OBVIOUS
    <3>1. \A row \in load[t].routes : RouteHolds(row)
      BY <1>6, <1>12, RouteFits DEF RestoreRoute
    <3> QED
      BY <1>12, <3>1, Control DEF RestoreRoute
  <2>3. Closed(file)' <=> Closed(file)
    BY <1>5 DEF Closed, CertIn, AppIn
  <2> QED
    BY <1>5, <1>6, <2>1, <2>2, <2>3 DEF Fresh
<1>13. CASE RestoreEnds(t)
  <2>1. certs' = certs /\ apps' = apps /\ pc'[t] = "audit" /\ outcome'[t] = "none" /\ load' = load
    BY <1>13, Control DEF RestoreEnds
  <2> QED
    BY <1>5, <1>6, <2>1 DEF Fresh
<1> QED
  BY <1>7, <1>8, <1>9, <1>10, <1>11, <1>12, <1>13 DEF RestoreNext

-----------------------------------------------------------------------------
(* The theorems *)

LEMMA NextAlone == OneAtATime /\ AloneInv /\ [Next]_vars => AloneInv'
<1> SUFFICES ASSUME OneAtATime, AloneInv, [Next]_vars PROVE AloneInv'
  OBVIOUS
<1>1. SInv' /\ IdsInv' /\ UniqueCerts(certs)' /\ UniqueApps(apps)'
  BY NextInv, IdsStep, UniqueStep DEF AloneInv, UniqueCerts, UniqueApps
<1>2. TypeOK /\ \A t \in Clients : At(t)
  BY DEF AloneInv, SInv, StepOfOp
<1>3. ASSUME NEW t \in Clients, StepOf(t)
      PROVE  Sound(file)' /\ AtMostOneKey' /\ \A u \in Clients : Own(u)'
  <2>1. SInv /\ Sound(file) /\ AtMostOneKey /\ IdsAreForGood /\ Own(t)
        /\ UniqueCerts(certs) /\ UniqueApps(apps)
    BY IdsInvGood DEF AloneInv
  <2>2. Sound(file)' /\ AtMostOneKey'
    BY <1>2, <1>3, <2>1, FileStep, OneKeyStep DEF Own
  <2>3. Waits(t)' /\ Reads(t)'
    BY <1>2, <1>3, <2>1, WaitsStep, ReadsStep DEF Own
  <2>4. Brings(t)'
    <3>1. CASE RestoreNext(t)
      BY <1>2, <2>1, <3>1, BringsStep DEF Own
    <3>2. CASE Audit(t) \/ Fail(t)
      BY <1>2, <3>2, Control DEF Audit, Fail, Brings, InRestore
    <3> QED
      BY <1>2, <1>3, <3>1, <3>2, NotRestoring DEF Brings
  <2>5. Brought(t)' /\ Fresh(t)' /\ Running(t)'
    BY <1>2, <1>3, <2>1, BroughtStep, FreshStep, RunningStep DEF Own
  <2> QED
    BY <2>2, <2>3, <2>4, <2>5, NoOther DEF Own
<1>4. CASE Wipe
  <2>1. /\ \A t \in Clients : pc[t] = "idle" /\ pc' = pc
        /\ certs' = {} /\ apps' = {} /\ routes' = {}
        /\ keys' = [i \in Ids |-> 0] /\ outcome' = [t \in Clients |-> "none"]
        /\ file' = file /\ torn' = torn /\ next' = next
    BY <1>4 DEF Wipe
  <2>2. Sound(file)' /\ AtMostOneKey'
    BY <2>1 DEF AloneInv, Sound, AtMostOneKey
  <2>3. ASSUME NEW t \in Clients PROVE Own(t)'
    <3>1. pc'[t] = "idle" /\ outcome'[t] = "none"
      BY <2>1
    <3> QED
      BY <3>1 DEF Own, Waits, Reads, Brings, InRestore, Brought, Fresh, Running
  <2> QED
    BY <1>1, <2>2, <2>3 DEF AloneInv
<1>5. CASE UNCHANGED vars
  <2>1. Sound(file)' /\ AtMostOneKey'
    BY <1>5 DEF vars, AloneInv, Sound, AtMostOneKey
  <2>2. ASSUME NEW t \in Clients PROVE Own(t)'
    <3>1. Own(t)
      BY DEF AloneInv
    <3>2. Waits(t)' /\ Reads(t)'
      BY <1>5, <3>1 DEF vars, Own, Waits, CertIds, Reads, WithKeys, Sound
    <3>3. Brings(t)' /\ Brought(t)'
      BY <1>5, <3>1 DEF vars, Own, Brings, Brought, InRestore, HasCert, HasApp
    <3>4. Fresh(t)' /\ Running(t)'
      BY <1>5, <3>1 DEF vars, Own, Fresh, InRestore, HasCert, HasApp, Running
    <3> QED
      BY <3>2, <3>3, <3>4 DEF Own
  <2> QED
    BY <1>1, <2>1, <2>2 DEF AloneInv
<1>6. (\E t \in Clients : StepOf(t)) \/ Wipe \/ UNCHANGED vars
  BY DEF Next, StepOf
<1> QED
  BY <1>1, <1>3, <1>4, <1>5, <1>6 DEF AloneInv

LEMMA AloneHolds == ASSUME OneAtATime PROVE Spec => []AloneInv
<1>1. AloneInv /\ [Next]_vars => AloneInv'
  BY NextAlone
<1> QED
  BY <1>1, InitAlone, PTL DEF Spec

\* With one command at a time, no certificate ever has two keys, however many commands
\* are cut off between its row and its key, or restore it again.
THEOREM OneKeyEach == ASSUME OneAtATime PROVE Spec => []AtMostOneKey
<1>1. AloneInv => AtMostOneKey
  BY DEF AloneInv
<1> QED
  BY <1>1, AloneHolds, PTL

\* With one command at a time, a backup's routes refer to what is in the backup, but
\* for certificates that were cut off before their key.
THEOREM BackupsAreClosed == ASSUME OneAtATime PROVE Spec => []BackupIsClosed
<1>1. AloneInv => BackupIsClosed
  BY DEF AloneInv, Sound, BackupIsClosed
<1> QED
  BY <1>1, AloneHolds, PTL

\* With one command at a time, a restore of a closed backup on an empty store meets no
\* constraint, whichever of its look-ups fail.
THEOREM FreshRestoresSucceed == ASSUME OneAtATime PROVE Spec => []FreshRestoreSucceeds
<1>1. AloneInv => FreshRestoreSucceeds
  BY DEF AloneInv, Own, Fresh, FreshRestoreSucceeds
<1> QED
  BY <1>1, AloneHolds, PTL

\* With one command at a time, a restore that reports success has brought every row of
\* the backup, and keys for all certificates but those cut off before theirs.
THEOREM RestoresAreComplete == ASSUME OneAtATime PROVE Spec => []RestoreIsComplete
<1>1. ASSUME OneAtATime, AloneInv PROVE RestoreIsComplete
  <2> SUFFICES ASSUME NEW t \in Clients, op[t] = "restore", outcome[t] = "ok"
               PROVE  /\ \A row \in file.certs :
                           \E c \in certs : c.fp = row.fp /\ (keys[c.id] > 0 \/ c.id \in torn)
                      /\ \A row \in file.apps : \E a \in apps : a.exe = row.exe
                      /\ file.routes \subseteq routes
    BY DEF RestoreIsComplete
  <2>1. Brought(t) /\ Running(t)
    BY <1>1 DEF AloneInv, Own
  <2>2. \A u \in Clients : pc[u] \notin {"key", "newKey"}
    BY <1>1, <2>1, NoOther DEF Running
  <2>3. \A c \in certs : keys[c.id] > 0 \/ c.id \in torn
    BY <1>1, <2>2 DEF AloneInv, SInv, CertsHaveKeys
  <2> QED
    BY <2>1, <2>3 DEF Brought, HasCert, HasApp
<1>2. AloneInv => RestoreIsComplete
  BY <1>1
<1> QED
  BY <1>2, AloneHolds, PTL
-----------------------------------------------------------------------------
(* What ends a restore *)

\* A row that a restore is about to insert was looked for and not found, or a look-up
\* failed.
Missing(t) ==
  /\ pc[t] = "newCert" => cert[t] \in file.certs /\ (misread[t] \/ ~HasCert(cert[t]))
  /\ pc[t] = "newApp" => app[t] \in file.apps /\ (misread[t] \/ ~HasApp(app[t]))

EndsWell(t) ==
  op[t] = "restore" =>
    /\ outcome[t] = "unique" => misread[t]
    /\ outcome[t] = "foreign" /\ Closed(file) => Renumbered

KeptInv == \A t \in Clients : Missing(t) /\ EndsWell(t)

\* Only the look-ups of a restore lead to its inserts of certificates and applications.
LEMMA MissingStep ==
  ASSUME TypeOK, NEW t \in Clients, At(t), Brings(t), StepOf(t)
  PROVE  Missing(t)'
<1> USE Control DEF Missing
<1>1. CASE CheckCert(t)
  <2>1. PICK row \in load[t].certs :
          /\ cert'[t] = row
          /\ \/ Goes(t, "restore")
             \/ Goes(t, "newCert") /\ (misread'[t] \/ ~HasCert(row))
    BY <1>1 DEF CheckCert, LookUp, TypeOK, HasCert
  <2>2. row \in file.certs /\ file' = file /\ certs' = certs
    BY <1>1 DEF CheckCert, LookUp, Brings, InRestore
  <2> QED
    BY <2>1, <2>2 DEF HasCert
<1>2. CASE CheckApp(t)
  <2>1. PICK row \in load[t].apps :
          /\ app'[t] = row
          /\ \/ Goes(t, "restore")
             \/ Goes(t, "newApp") /\ (misread'[t] \/ ~HasApp(row))
    BY <1>2 DEF CheckApp, LookUp, TypeOK, HasApp
  <2>2. row \in file.apps /\ file' = file /\ apps' = apps
    BY <1>2 DEF CheckApp, LookUp, Brings, InRestore
  <2> QED
    BY <2>1, <2>2 DEF HasApp
<1>3. CASE RestoreNext(t) /\ ~CheckCert(t) /\ ~CheckApp(t)
  BY <1>3 DEF RestoreNext, Restore, RestoreCert, RestoreKey, InsertKey, RestoreApp,
              RestoreRoute, RestoreEnds
<1>4. CASE Audit(t) \/ Fail(t)
  BY <1>4 DEF Audit, Fail
<1> QED
  BY <1>1, <1>2, <1>3, <1>4, NotRestoring DEF InRestore

\* With every certificate and application of the backup in place, a route fits unless
\* the row it refers to has another id.
LEMMA RouteFitsOrRenumbered ==
  ASSUME NEW t \in Clients, Brings(t), pc[t] = "restore",
         load[t].certs = {}, load[t].apps = {}, Closed(file), ~Renumbered,
         NEW row \in load[t].routes
  PROVE  RouteHolds(row)
<1>1. row \in file.routes
  BY DEF Brings, InRestore
<1>2. row.cert \in CertIds
  <2>1. PICK c \in file.certs : c.id = row.cert
    BY <1>1 DEF Closed, CertIn
  <2>2. PICK d \in certs : d.fp = c.fp
    BY DEF Brings, InRestore, HasCert
  <2> QED
    BY <2>1, <2>2 DEF Renumbered, CertIds
<1>3. row.app \in AppIds \cup {0}
  <2>1. SUFFICES ASSUME row.app # 0 PROVE row.app \in AppIds
    OBVIOUS
  <2>2. PICK a \in file.apps : a.id = row.app
    BY <1>1, <2>1 DEF Closed, AppIn
  <2>3. PICK b \in apps : b.exe = a.exe
    BY DEF Brings, InRestore, HasApp
  <2> QED
    BY <2>2, <2>3 DEF Renumbered, AppIds
<1> QED
  BY <1>2, <1>3 DEF RouteHolds

LEMMA EndsWellStep ==
  ASSUME TypeOK, IdsAreForGood, NEW t \in Clients, At(t), Waits(t), Brings(t), Running(t),
         Missing(t), EndsWell(t), StepOf(t)
  PROVE  EndsWell(t)'
<1> USE Control DEF EndsWell
<1>1. CASE RestoreCert(t)
  <2>1. misread[t] \/ ~CertConflict(cert[t])
    <3> SUFFICES ASSUME ~misread[t], NEW c \in certs, c.id = cert[t].id PROVE FALSE
      BY <1>1 DEF RestoreCert, Missing, CertConflict, HasCert
    <3> QED
      BY <1>1 DEF RestoreCert, Missing, IdsAreForGood, HasCert
  <2> QED
    BY <1>1, <2>1 DEF RestoreCert
<1>2. CASE RestoreApp(t)
  <2>1. misread[t] \/ ~AppConflict(app[t])
    <3> SUFFICES ASSUME ~misread[t], NEW a \in apps, a.id = app[t].id PROVE FALSE
      BY <1>2 DEF RestoreApp, Missing, AppConflict, HasApp
    <3> QED
      BY <1>2 DEF RestoreApp, Missing, IdsAreForGood, HasApp
  <2> QED
    BY <1>2, <2>1 DEF RestoreApp
<1>3. CASE RestoreKey(t)
  BY <1>3 DEF RestoreKey, InsertKey, Waits
<1>4. CASE RestoreRoute(t)
  <2>1. file' = file /\ certs' = certs /\ apps' = apps
    BY <1>4 DEF RestoreRoute
  <2>2. (Closed(file)' <=> Closed(file)) /\ (Renumbered' <=> Renumbered)
    BY <2>1 DEF Closed, CertIn, AppIn, Renumbered
  <2>3. Closed(file) /\ ~Renumbered => outcome'[t] = "none"
    BY <1>4, RouteFitsOrRenumbered DEF RestoreRoute
  <2>4. outcome'[t] # "unique"
    BY <1>4 DEF RestoreRoute
  <2> QED
    BY <2>2, <2>3, <2>4
<1>5. CASE Restore(t) \/ CheckCert(t) \/ CheckApp(t) \/ RestoreEnds(t)
  BY <1>5 DEF Restore, CheckCert, LookUp, CheckApp, RestoreEnds
<1>6. CASE Audit(t) \/ Fail(t)
  BY <1>6 DEF Audit, Fail
<1> QED
  BY <1>1, <1>2, <1>3, <1>4, <1>5, <1>6, NotRestoring DEF RestoreNext

LEMMA NextKept ==
  ASSUME OneAtATime, AloneInv, KeptInv, [Next]_vars
  PROVE  KeptInv'
<1>1. TypeOK /\ IdsAreForGood /\ \A t \in Clients : At(t) /\ Own(t)
  BY IdsInvGood DEF AloneInv, SInv, StepOfOp
<1>2. ASSUME NEW t \in Clients, StepOf(t) PROVE KeptInv'
  <2>1. Missing(t)'
    BY <1>1, <1>2, MissingStep DEF Own
  <2>2. EndsWell(t)'
    BY <1>1, <1>2, EndsWellStep DEF KeptInv, Own
  <2> QED
    BY <2>1, <2>2, NoOther DEF KeptInv
<1>3. CASE Wipe
  <2>1. /\ \A t \in Clients : pc[t] = "idle" /\ pc' = pc
        /\ certs' = {} /\ apps' = {} /\ outcome' = [t \in Clients |-> "none"]
        /\ file' = file
    BY <1>3 DEF Wipe
  <2> QED
    BY <2>1 DEF KeptInv, Missing, EndsWell
<1>4. CASE UNCHANGED vars
  BY <1>4 DEF vars, KeptInv, Missing, HasCert, HasApp,
              EndsWell, Closed, CertIn, AppIn, Renumbered
<1> QED
  BY <1>2, <1>3, <1>4 DEF Next, StepOf

\* With one command at a time, a restore meets a UNIQUE constraint only after one of its
\* look-ups failed, and nothing that was done to the store since the backup can end it
\* at a foreign key but a row that got another id, and then only at a route.
THEOREM RestoresFailOnlyIfRenumbered ==
  ASSUME OneAtATime PROVE Spec => []RestoreFailsOnlyIfRenumbered
<1>1. Init => KeptInv
  BY DEF Init, KeptInv, Missing, EndsWell
<1>2. AloneInv /\ KeptInv /\ [Next]_vars => KeptInv'
  BY NextKept
<1>3. KeptInv => RestoreFailsOnlyIfRenumbered
  BY DEF KeptInv, EndsWell, RestoreFailsOnlyIfRenumbered
<1> QED
  BY <1>1, <1>2, <1>3, AloneHolds, PTL DEF Spec
==============================================================================
