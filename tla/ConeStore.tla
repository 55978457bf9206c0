------------------------------ MODULE ConeStore ------------------------------
(***************************************************************************)
(* cone-store: what the commands of the cone CLI do to the database, one   *)
(* SQL statement at a time.  No command opens a transaction, so another    *)
(* command may run, and the process may fail or be killed, between any two *)
(* statements.  The schema (db.rs) keeps fingerprints and exe paths unique *)
(* and enforces the foreign keys of keys and routes.                       *)
(*                                                                         *)
(* The tables ca_certs, ssh_keys and ssh_routes are left out: every        *)
(* command that would write to them is a TODO, so they are empty here and  *)
(* in every backup.  Labels are left out too: they are not unique, and a   *)
(* look-up by label returns any row that has it.                           *)
(***************************************************************************)
EXTENDS Naturals

CONSTANTS
  Clients,   \* processes of the cone CLI
  Fps,       \* certificates, by fingerprint
  Exes,      \* applications, by exe_path
  MaxId,     \* ids handed out
  Faults     \* may statements fail and processes be killed?

ASSUME MaxIdAssumption == MaxId \in Nat
ASSUME FaultsAssumption == Faults \in BOOLEAN

VARIABLES
  certs,     \* rows [id, fp]
  keys,      \* number of key rows of each cert id
  apps,      \* rows [id, exe]
  routes,    \* rows [id, cert, app]; app 0 for NULL
  next,      \* the next id
  file,      \* the backup file: sets of rows, made or not
  pc,        \* per client: the statement that comes next
  op,        \* the command it runs or ran last
  cert,      \* the cert id, or row to restore, it has in hand
  app,       \* the app id, or row to restore, it has in hand
  newId,     \* the id of the route it will add
  load,      \* rows collected for a backup, or still to be restored
  outcome,   \* of its last command: ok, unique, foreign, killed; none while it runs
  onEmpty,   \* ghost: did its last restore start on an empty store?
  misread,   \* ghost: did a look-up of its last restore fail?
  gone,      \* ghost: ids of certificates removed or lost with the machine
  torn       \* ghost: ids of certificates whose command was cut off before their key

tables == <<certs, keys, apps, routes>>
locals == <<op, cert, app, newId, load, outcome, onEmpty, misread>>
vars == <<tables, next, file, pc, locals, gone, torn>>

Ids == 1..MaxId
CertRows == [id : Ids, fp : Fps]
AppRows == [id : Ids, exe : Exes]
RouteRows == [id : Ids, cert : Ids, app : 0..MaxId]
Payloads == [made : BOOLEAN, certs : SUBSET CertRows, apps : SUBSET AppRows,
             routes : SUBSET RouteRows]
Nothing == [made |-> FALSE, certs |-> {}, apps |-> {}, routes |-> {}]

CertIds == {c.id : c \in certs}
AppIds == {a.id : a \in apps}
RouteIds == {r.id : r \in routes}

TypeOK ==
  /\ certs \subseteq CertRows /\ apps \subseteq AppRows /\ routes \subseteq RouteRows
  /\ keys \in [Ids -> Nat]
  /\ next \in 1..(MaxId + 1)
  /\ file \in Payloads
  /\ pc \in [Clients -> {"idle", "key", "delete", "app", "route", "listApps", "listRoutes",
                         "restore", "newCert", "newKey", "newApp", "audit", "write", "fill"}]
  /\ op \in [Clients -> {"import", "remove", "app", "route", "backup", "restore"}]
  /\ cert \in [Clients -> CertRows \cup {[id |-> 0, fp |-> f] : f \in Fps}]
  /\ app \in [Clients -> AppRows \cup {[id |-> 0, exe |-> e] : e \in Exes}]
  /\ newId \in [Clients -> 0..MaxId]
  /\ load \in [Clients -> Payloads]
  /\ outcome \in [Clients -> {"none", "ok", "unique", "foreign", "killed"}]
  /\ onEmpty \in [Clients -> BOOLEAN] /\ misread \in [Clients -> BOOLEAN]
  /\ gone \subseteq Ids /\ torn \subseteq Ids

Init ==
  /\ certs = {} /\ apps = {} /\ routes = {}
  /\ keys = [i \in Ids |-> 0]
  /\ next = 1 /\ gone = {} /\ torn = {}
  /\ file = Nothing
  /\ pc = [t \in Clients |-> "idle"]
  /\ op = [t \in Clients |-> "import"]
  /\ \E f \in Fps : cert = [t \in Clients |-> [id |-> 0, fp |-> f]]
  /\ \E e \in Exes : app = [t \in Clients |-> [id |-> 0, exe |-> e]]
  /\ newId = [t \in Clients |-> 0]
  /\ load = [t \in Clients |-> Nothing]
  /\ outcome = [t \in Clients |-> "none"]
  /\ onEmpty = [t \in Clients |-> FALSE] /\ misread = [t \in Clients |-> FALSE]

-----------------------------------------------------------------------------
(* How a command starts, goes on and ends *)

Starts(t, o) ==
  /\ pc[t] = "idle"
  /\ op' = [op EXCEPT ![t] = o]
  /\ misread' = [misread EXCEPT ![t] = FALSE]

Goes(t, to) == pc' = [pc EXCEPT ![t] = to] /\ outcome' = [outcome EXCEPT ![t] = "none"]

\* `?` on the result of a statement, or Ok.
Ends(t, how) == pc' = [pc EXCEPT ![t] = "idle"] /\ outcome' = [outcome EXCEPT ![t] = how]

\* Mutant: the id of a row that is gone is given to the next one.
TakesFree(id) == next <= MaxId /\ next' = next + 1 /\ id \notin CertIds \cup AppIds \cup RouteIds

Takes(id) == next = id /\ next <= MaxId /\ next' = next + 1

CertConflict(row) == \E c \in certs : c.id = row.id \/ c.fp = row.fp
AppConflict(row) == \E a \in apps : a.id = row.id \/ a.exe = row.exe
RouteHolds(row) == row.cert \in CertIds /\ row.app \in AppIds \cup {0}

\* INSERT INTO keys
InsertKey(t, to) ==
  /\ \/ /\ cert[t].id \in CertIds
        /\ keys' = [keys EXCEPT ![cert[t].id] = @ + 1]
        /\ Goes(t, to)
     \/ /\ cert[t].id \notin CertIds
        /\ Ends(t, "foreign")
        /\ UNCHANGED keys
  /\ UNCHANGED <<certs, apps, routes, next, file, op, cert, app, newId, load, onEmpty, misread, gone, torn>>

-----------------------------------------------------------------------------
(* cone import: store_cert_and_key *)

\* Mutant: INSERT OR REPLACE, so that a renewed import wins.
ImportOrReplace(t, f) ==
  /\ Starts(t, "import")
  /\ \E id \in Ids :
       LET old == {c \in certs : c.fp = f}
       IN  /\ Takes(id)
           /\ cert' = [cert EXCEPT ![t] = [id |-> id, fp |-> f]]
           /\ certs' = (certs \ old) \cup {[id |-> id, fp |-> f]}
           /\ keys' = [i \in Ids |-> IF \E c \in old : c.id = i THEN 0 ELSE keys[i]]
           /\ routes' = {r \in routes : \A c \in old : c.id # r.cert}
           /\ Goes(t, "key")
  /\ UNCHANGED <<apps, file, app, newId, load, onEmpty, gone, torn>>

Import(t, f) ==
  /\ Starts(t, "import")
  /\ \E id \in Ids :
       LET row == [id |-> id, fp |-> f]
       IN  /\ Takes(id)
           /\ cert' = [cert EXCEPT ![t] = row]
           /\ \/ ~CertConflict(row) /\ certs' = certs \cup {row} /\ Goes(t, "key")
              \/ CertConflict(row) /\ UNCHANGED certs /\ Ends(t, "unique")
  /\ UNCHANGED <<keys, apps, routes, file, app, newId, load, onEmpty, gone, torn>>

ImportKey(t) == pc[t] = "key" /\ InsertKey(t, "audit")

-----------------------------------------------------------------------------
(* cone remove: delete_cert; without such a label it ends and changes nothing *)

Remove(t) ==
  /\ Starts(t, "remove")
  /\ \E c \in certs : cert' = [cert EXCEPT ![t] = c]
  /\ Goes(t, "delete")
  /\ UNCHANGED <<tables, next, file, app, newId, load, onEmpty, gone, torn>>

\* Mutant: a connection without PRAGMA foreign_keys.
DeleteAlone(t) ==
  /\ pc[t] = "delete"
  /\ certs' = {c \in certs : c.id # cert[t].id}
  /\ gone' = gone \cup {cert[t].id}
  /\ Goes(t, "audit")
  /\ UNCHANGED <<keys, apps, routes, next, file, op, cert, app, newId, load, onEmpty, misread, torn>>

\* Mutant: the cascade takes one key row, whether there is one or not.
DeleteOneKey(t) ==
  /\ pc[t] = "delete"
  /\ certs' = {c \in certs : c.id # cert[t].id}
  /\ keys' = [keys EXCEPT ![cert[t].id] = @ - 1]
  /\ routes' = {r \in routes : r.cert # cert[t].id}
  /\ gone' = gone \cup {cert[t].id}
  /\ Goes(t, "audit")
  /\ UNCHANGED <<apps, next, file, op, cert, app, newId, load, onEmpty, misread, torn>>

\* ON DELETE CASCADE takes the keys and routes along.
Delete(t) ==
  /\ pc[t] = "delete"
  /\ certs' = {c \in certs : c.id # cert[t].id}
  /\ keys' = [keys EXCEPT ![cert[t].id] = 0]
  /\ routes' = {r \in routes : r.cert # cert[t].id}
  /\ gone' = gone \cup {cert[t].id}
  /\ Goes(t, "audit")
  /\ UNCHANGED <<apps, next, file, op, cert, app, newId, load, onEmpty, misread, torn>>

-----------------------------------------------------------------------------
(* cone app add, cone route add, cone route remove *)

AppAdd(t, e) ==
  /\ Starts(t, "app")
  /\ \E id \in Ids :
       LET row == [id |-> id, exe |-> e]
       IN  /\ Takes(id)
           /\ \/ ~AppConflict(row) /\ apps' = apps \cup {row} /\ Ends(t, "ok")
              \/ AppConflict(row) /\ UNCHANGED apps /\ Ends(t, "unique")
  /\ UNCHANGED <<certs, keys, routes, file, cert, app, newId, load, onEmpty, gone, torn>>

RouteAdd(t) ==
  /\ Starts(t, "route")
  /\ \E c \in certs : cert' = [cert EXCEPT ![t] = c]
  /\ \E id \in Ids : Takes(id) /\ newId' = [newId EXCEPT ![t] = id]
  /\ Goes(t, "app")
  /\ UNCHANGED <<tables, file, app, load, onEmpty, gone, torn>>

\* --app names an application, or there is none.
RouteApp(t) ==
  /\ pc[t] = "app"
  /\ \/ \E a \in apps : app' = [app EXCEPT ![t] = a]
     \/ app' = [app EXCEPT ![t].id = 0]
  /\ Goes(t, "route")
  /\ UNCHANGED <<tables, next, file, op, cert, newId, load, onEmpty, misread, gone, torn>>

\* INSERT INTO routes
RouteInsert(t) ==
  LET row == [id |-> newId[t], cert |-> cert[t].id, app |-> app[t].id]
  IN  /\ pc[t] = "route"
      /\ \/ RouteHolds(row) /\ routes' = routes \cup {row} /\ Ends(t, "ok")
         \/ ~RouteHolds(row) /\ UNCHANGED routes /\ Ends(t, "foreign")
      /\ UNCHANGED <<certs, keys, apps, next, file, op, cert, app, newId, load, onEmpty, misread, gone, torn>>

\* DELETE ... WHERE id LIKE prefix%: any number of rows may have the prefix.
RouteRemove(t) ==
  /\ Starts(t, "route")
  /\ routes' \in SUBSET routes
  /\ Ends(t, "ok")
  /\ UNCHANGED <<certs, keys, apps, next, file, cert, app, newId, load, onEmpty, gone, torn>>

-----------------------------------------------------------------------------
(* cone backup: create_backup, one SELECT per table *)

\* SELECT ... FROM certs JOIN keys: a certificate without a key is not in it.
Backup(t) ==
  /\ Starts(t, "backup")
  /\ load' = [load EXCEPT ![t] = [Nothing EXCEPT !.made = TRUE,
                                                 !.certs = {c \in certs : keys[c.id] > 0}]]
  /\ Goes(t, "listApps")
  /\ UNCHANGED <<tables, next, file, cert, app, newId, onEmpty, gone, torn>>

BackupApps(t) ==
  /\ pc[t] = "listApps"
  /\ load' = [load EXCEPT ![t].apps = apps]
  /\ Goes(t, "listRoutes")
  /\ UNCHANGED <<tables, next, file, op, cert, app, newId, onEmpty, misread, gone, torn>>

BackupRoutes(t) ==
  /\ pc[t] = "listRoutes"
  /\ load' = [load EXCEPT ![t].routes = routes]
  /\ Goes(t, "audit")
  /\ UNCHANGED <<tables, next, file, op, cert, app, newId, onEmpty, misread, gone, torn>>

\* fs::write empties the file, whatever backup was in it ...
EmptyFile(t) ==
  /\ pc[t] = "write"
  /\ file' = Nothing
  /\ Goes(t, "fill")
  /\ UNCHANGED <<tables, next, op, cert, app, newId, load, onEmpty, misread, gone, torn>>

\* ... and writes from its start.  Over a longer backup that another command has
\* written by now, that leaves a file nobody can decrypt.
WriteFile(t) ==
  /\ pc[t] = "fill"
  /\ file' \in {load[t]} \cup (IF file.made THEN {Nothing} ELSE {})
  /\ load' = [load EXCEPT ![t] = Nothing]
  /\ Ends(t, "ok")
  /\ UNCHANGED <<tables, next, op, cert, app, newId, onEmpty, misread, gone, torn>>

\* The last statement of import, remove, backup and restore: INSERT INTO audit_log.
Audit(t) ==
  /\ pc[t] = "audit"
  /\ \/ op[t] = "backup" /\ Goes(t, "write")
     \/ op[t] # "backup" /\ Ends(t, "ok")
  /\ UNCHANGED <<tables, next, file, op, cert, app, newId, load, onEmpty, misread, gone, torn>>

-----------------------------------------------------------------------------
(* cone restore: restore_backup, certificates, then applications, then routes *)

Restore(t) ==
  /\ Starts(t, "restore")
  /\ file.made
  /\ load' = [load EXCEPT ![t] = file]
  /\ onEmpty' = [onEmpty EXCEPT ![t] = certs = {} /\ apps = {} /\ routes = {}]
  /\ Goes(t, "restore")
  /\ UNCHANGED <<tables, next, file, cert, app, newId, gone, torn>>

\* `unwrap_or(false)`: a SELECT that fails counts as "not there".
LookUp(t, there, insert) ==
  \/ /\ IF there THEN Goes(t, "restore") ELSE Goes(t, insert)
     /\ UNCHANGED misread
  \/ /\ Faults
     /\ Goes(t, insert)
     /\ misread' = [misread EXCEPT ![t] = TRUE]

\* Mutant: of a certificate that is there, the key is restored all the same.
CheckCertNotKey(t) ==
  /\ pc[t] = "restore"
  /\ \E row \in load[t].certs :
       /\ load' = [load EXCEPT ![t].certs = @ \ {row}]
       /\ cert' = [cert EXCEPT ![t] = row]
       /\ IF \E c \in certs : c.fp = row.fp THEN Goes(t, "newKey") ELSE Goes(t, "newCert")
  /\ UNCHANGED <<tables, next, file, op, app, newId, onEmpty, misread, gone, torn>>

\* SELECT COUNT(*) FROM certs WHERE fingerprint: a row that is there is skipped.
CheckCert(t) ==
  /\ pc[t] = "restore"
  /\ \E row \in load[t].certs :
       /\ load' = [load EXCEPT ![t].certs = @ \ {row}]
       /\ cert' = [cert EXCEPT ![t] = row]
       /\ LookUp(t, \E c \in certs : c.fp = row.fp, "newCert")
  /\ UNCHANGED <<tables, next, file, op, app, newId, onEmpty, gone, torn>>

\* Mutant: INSERT OR REPLACE, which deletes the row it conflicts with.
ReplaceCert(t) ==
  LET row == cert[t]
      old == {c \in certs : c.id = row.id \/ c.fp = row.fp}
  IN  /\ pc[t] = "newCert"
      /\ certs' = (certs \ old) \cup {row}
      /\ keys' = [i \in Ids |-> IF \E c \in old : c.id = i THEN 0 ELSE keys[i]]
      /\ routes' = {r \in routes : \A c \in old : c.id # r.cert}
      /\ Goes(t, "newKey")
      /\ UNCHANGED <<apps, next, file, op, cert, app, newId, load, onEmpty, misread, gone, torn>>

\* Mutant: the key is left for later.
RestoreCertOnly(t) ==
  /\ pc[t] = "newCert"
  /\ \/ ~CertConflict(cert[t]) /\ certs' = certs \cup {cert[t]} /\ Goes(t, "restore")
     \/ CertConflict(cert[t]) /\ UNCHANGED certs /\ Ends(t, "unique")
  /\ UNCHANGED <<keys, apps, routes, next, file, op, cert, app, newId, load, onEmpty, misread, gone, torn>>

RestoreCert(t) ==
  /\ pc[t] = "newCert"
  /\ \/ ~CertConflict(cert[t]) /\ certs' = certs \cup {cert[t]} /\ Goes(t, "newKey")
     \/ CertConflict(cert[t]) /\ UNCHANGED certs /\ Ends(t, "unique")
  /\ UNCHANGED <<keys, apps, routes, next, file, op, cert, app, newId, load, onEmpty, misread, gone, torn>>

RestoreKey(t) == pc[t] = "newKey" /\ InsertKey(t, "restore")

CheckApp(t) ==
  /\ pc[t] = "restore" /\ load[t].certs = {}
  /\ \E row \in load[t].apps :
       /\ load' = [load EXCEPT ![t].apps = @ \ {row}]
       /\ app' = [app EXCEPT ![t] = row]
       /\ LookUp(t, \E a \in apps : a.exe = row.exe, "newApp")
  /\ UNCHANGED <<tables, next, file, op, cert, newId, onEmpty, gone, torn>>

RestoreApp(t) ==
  /\ pc[t] = "newApp"
  /\ \/ ~AppConflict(app[t]) /\ apps' = apps \cup {app[t]} /\ Goes(t, "restore")
     \/ AppConflict(app[t]) /\ UNCHANGED apps /\ Ends(t, "unique")
  /\ UNCHANGED <<certs, keys, routes, next, file, op, cert, app, newId, load, onEmpty, misread, gone, torn>>

\* Mutant: the routes are not kept for last.
RestoreRouteAnyTime(t) ==
  /\ pc[t] = "restore"
  /\ \E row \in load[t].routes :
       /\ load' = [load EXCEPT ![t].routes = @ \ {row}]
       /\ \/ row.id \in RouteIds /\ UNCHANGED routes /\ Goes(t, "restore")
          \/ /\ row.id \notin RouteIds /\ RouteHolds(row)
             /\ routes' = routes \cup {row} /\ Goes(t, "restore")
          \/ row.id \notin RouteIds /\ ~RouteHolds(row) /\ UNCHANGED routes /\ Ends(t, "foreign")
  /\ UNCHANGED <<certs, keys, apps, next, file, op, cert, app, newId, onEmpty, misread, gone, torn>>

\* INSERT OR IGNORE INTO routes ignores an id that is there, not a foreign key.
RestoreRoute(t) ==
  /\ pc[t] = "restore" /\ load[t].certs = {} /\ load[t].apps = {}
  /\ \E row \in load[t].routes :
       /\ load' = [load EXCEPT ![t].routes = @ \ {row}]
       /\ \/ row.id \in RouteIds /\ UNCHANGED routes /\ Goes(t, "restore")
          \/ /\ row.id \notin RouteIds /\ RouteHolds(row)
             /\ routes' = routes \cup {row} /\ Goes(t, "restore")
          \/ row.id \notin RouteIds /\ ~RouteHolds(row) /\ UNCHANGED routes /\ Ends(t, "foreign")
  /\ UNCHANGED <<certs, keys, apps, next, file, op, cert, app, newId, onEmpty, misread, gone, torn>>

RestoreEnds(t) ==
  /\ pc[t] = "restore"
  /\ load[t].certs = {} /\ load[t].apps = {} /\ load[t].routes = {}
  /\ Goes(t, "audit")
  /\ UNCHANGED <<tables, next, file, op, cert, app, newId, load, onEmpty, misread, gone, torn>>

-----------------------------------------------------------------------------
(* The world *)

\* The next statement fails (a full disk, a busy database) or the process is
\* killed: what its earlier statements did stays, half a backup is none.
Fail(t) ==
  /\ Faults /\ pc[t] # "idle"
  /\ Ends(t, "killed")
  /\ torn' = IF pc[t] \in {"key", "newKey"} THEN torn \cup {cert[t].id} ELSE torn
  /\ file' \in {file} \cup (IF pc[t] = "fill" THEN {Nothing} ELSE {})
  /\ load' = [load EXCEPT ![t] = Nothing]
  /\ UNCHANGED <<tables, next, op, cert, app, newId, onEmpty, misread, gone>>

\* "After a machine wipe, everything must be rebuilt from scratch": the backup is kept.
Wipe ==
  /\ \A t \in Clients : pc[t] = "idle"
  /\ certs' = {} /\ apps' = {} /\ routes' = {}
  /\ keys' = [i \in Ids |-> 0]
  /\ gone' = gone \cup CertIds
  /\ outcome' = [t \in Clients |-> "none"]
  /\ UNCHANGED <<next, file, pc, op, cert, app, newId, load, onEmpty, misread, torn>>

ImportNext(t) == (\E f \in Fps : Import(t, f)) \/ ImportKey(t) \/ Audit(t)
RemoveNext(t) == Remove(t) \/ Delete(t)
RouteNext(t) == \/ \E e \in Exes : AppAdd(t, e)
                \/ RouteAdd(t) \/ RouteApp(t) \/ RouteInsert(t) \/ RouteRemove(t)
BackupNext(t) == Backup(t) \/ BackupApps(t) \/ BackupRoutes(t)
                 \/ EmptyFile(t) \/ WriteFile(t)
RestoreNext(t) == \/ Restore(t) \/ CheckCert(t) \/ RestoreCert(t) \/ RestoreKey(t)
                  \/ CheckApp(t) \/ RestoreApp(t) \/ RestoreRoute(t) \/ RestoreEnds(t)

Next == \/ \E t \in Clients : \/ ImportNext(t) \/ RemoveNext(t) \/ RouteNext(t)
                              \/ BackupNext(t) \/ RestoreNext(t) \/ Fail(t)
        \/ Wipe

Spec == Init /\ [][Next]_vars

-----------------------------------------------------------------------------
(* Properties *)

\* Whatever commands interleave and wherever they are cut off, no key and no route
\* is left of a certificate that was removed, and no route of an application that
\* is not there (db.rs:84,121,122).
NothingDangles ==
  /\ \A r \in routes : RouteHolds(r)
  /\ \A i \in Ids : keys[i] > 0 => i \in CertIds

\* A certificate is without its key only while the command that brings it is between
\* the two INSERTs (import.rs:288-305), or if that command was cut off there.
CertsHaveKeys ==
  \A c \in certs : \/ keys[c.id] > 0 \/ c.id \in torn
                   \/ \E t \in Clients : pc[t] \in {"key", "newKey"} /\ cert[t].id = c.id

\* A restore adds rows and does nothing else: what is in the store stays, also rows
\* that the backup has a different version of (export.rs:241-361).
RestoreOnlyAdds ==
  [][\A t \in Clients :
       op[t] = "restore" /\ pc[t] # "idle" /\ <<pc[t], load[t]>> # <<pc'[t], load'[t]>> =>
         /\ certs \subseteq certs' /\ apps \subseteq apps' /\ routes \subseteq routes'
         /\ \A i \in Ids : keys[i] <= keys'[i]]_vars

\* An import that reported success is in the store, key and all, until the
\* certificate is removed, whatever is imported or restored over it.
ImportedStays ==
  \A t \in Clients :
    op[t] = "import" /\ outcome[t] = "ok" => keys[cert[t].id] > 0 \/ cert[t].id \in gone

\* An id stands for one row for good, in the store and in the backup, so that what is
\* tied to it by its id is what was meant: a route that is restored goes to the
\* certificate and application it was made for, one that INSERT OR IGNORE passes over
\* is the one there (export.rs:351), and no key goes to another certificate.
IdsAreForGood ==
  /\ \A c, d \in certs \cup file.certs : c.id = d.id => c = d
  /\ \A a, b \in apps \cup file.apps : a.id = b.id => a = b
  /\ \A q, r \in routes \cup file.routes : q.id = r.id => q = r
  /\ \A t \in Clients :
       pc[t] \in {"key", "newKey"} => \A c \in certs : c.id = cert[t].id => c = cert[t]

\* With one command at a time, no failure gives a certificate two keys, of which
\* get_plaintext_key would take either (list.rs:105).
AtMostOneKey == \A i \in Ids : keys[i] <= 1

CertIn(r, f) == \E c \in f.certs : c.id = r.cert
AppIn(r, f) == r.app = 0 \/ \E a \in f.apps : a.id = r.app
Closed(f) == \A r \in f.routes : CertIn(r, f) /\ AppIn(r, f)

\* With one command at a time, what a backup holds is closed under its references,
\* but for the routes of a certificate that lost its key to a command cut off: the
\* JOIN leaves that certificate out, and not its routes (export.rs:405-455).
BackupIsClosed ==
  \A r \in file.routes : (CertIn(r, file) \/ r.cert \in torn) /\ AppIn(r, file)

\* With one command at a time, a restore that starts on an empty store from a backup
\* that is closed is not ended by a constraint, whichever of its look-ups fail: the
\* tables are filled in the order of their references.
FreshRestoreSucceeds ==
  \A t \in Clients :
    op[t] = "restore" /\ onEmpty[t] /\ Closed(file) => outcome[t] \notin {"unique", "foreign"}

\* A row of the backup is in the store under another id: it was removed, or lost with
\* the machine, and added again.
Renumbered ==
  \/ \E row \in file.certs, c \in certs : c.fp = row.fp /\ c.id # row.id
  \/ \E row \in file.apps, a \in apps : a.exe = row.exe /\ a.id # row.id

\* With one command at a time, a restore meets a UNIQUE constraint, into however full a
\* store, only if one of its own look-ups failed (export.rs:248, 334), and of a backup
\* that is closed it meets a foreign key only for the route of a row that has another
\* id by now (export.rs:266, 351): nothing else that was done to the store since the
\* backup can end it.
RestoreFailsOnlyIfRenumbered ==
  \A t \in Clients :
    op[t] = "restore" =>
      /\ outcome[t] = "unique" => misread[t]
      /\ outcome[t] = "foreign" /\ Closed(file) => Renumbered

\* With one command at a time, a restore that reports success has brought every
\* certificate of the backup, every application and every route, and every key but
\* that of a certificate some command was cut off at.
RestoreIsComplete ==
  \A t \in Clients :
    op[t] = "restore" /\ outcome[t] = "ok" =>
      /\ \A row \in file.certs :
           \E c \in certs : c.fp = row.fp /\ (keys[c.id] > 0 \/ c.id \in torn)
      /\ \A row \in file.apps : \E a \in apps : a.exe = row.exe
      /\ file.routes \subseteq routes

(* What the documents say and the code does not do *)

\* "Existing entries with matching fingerprints are skipped" (export.rs:222): the
\* certificate is, its routes fail on the foreign key and end the restore.
RestoreSkipsExisting ==
  \A t \in Clients : op[t] = "restore" => outcome[t] \notin {"unique", "foreign"}
==============================================================================
