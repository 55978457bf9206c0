--------------------------- MODULE ConeStoreProofs ---------------------------
(***************************************************************************)
(* What holds of the store for any number of commands, cut off or not: no  *)
(* key or route is left behind, no certificate without its key but where a *)
(* command was cut off, an import that succeeded stays, a restore only     *)
(* adds, and an id never stands for two rows.                              *)
(*                                                                         *)
(* The foreign keys make NothingDangles inductive by itself.  The others   *)
(* need what StepOfOp adds: which command is at which statement, and that  *)
(* an import past its second INSERT has its key in the store.  That ids    *)
(* are for good needs IdsInv: it holds of the rows that commands have in   *)
(* hand, too.                                                              *)
(***************************************************************************)
EXTENDS ConeStore, TLAPS

At(t) ==
  /\ op[t] = "import" /\ (pc[t] = "audit" \/ outcome[t] = "ok") =>
       cert[t].id \in Ids /\ (keys[cert[t].id] > 0 \/ cert[t].id \in gone)
  /\ pc[t] = "key" => op[t] = "import"
  /\ pc[t] = "delete" => op[t] = "remove"
  /\ pc[t] \in {"app", "route"} => op[t] = "route" /\ newId[t] \in Ids
  /\ pc[t] \in {"listApps", "listRoutes", "write", "fill"} => op[t] = "backup"
  /\ pc[t] \in {"restore", "newCert", "newKey", "newApp"} => op[t] = "restore"
  /\ pc[t] \in {"key", "newKey", "delete", "app", "route"} => cert[t].id \in Ids
  /\ pc[t] = "newCert" => cert[t] \in CertRows
  /\ pc[t] = "newApp" => app[t] \in AppRows

StepOfOp == \A t \in Clients : At(t)

SInv == TypeOK /\ StepOfOp /\ NothingDangles /\ CertsHaveKeys

USE MaxIdAssumption, FaultsAssumption DEF Ids, tables, locals

-----------------------------------------------------------------------------
(* The data *)

\* A row taken from certs or apps has the type of rows in hand.
HandCert == CertRows \cup {[id |-> 0, fp |-> f] : f \in Fps}
HandApp == AppRows \cup {[id |-> 0, exe |-> e] : e \in Exes}

LEMMA NothingType == Nothing \in Payloads
BY DEF Nothing, Payloads

LEMMA InitInv == Init => SInv
<1> SUFFICES ASSUME Init PROVE SInv
  OBVIOUS
<1>1. TypeOK
  BY NothingType DEF Init, TypeOK
<1>2. StepOfOp
  BY DEF Init, StepOfOp, At
<1>3. NothingDangles /\ CertsHaveKeys
  BY DEF Init, NothingDangles, CertsHaveKeys
<1> QED
  BY <1>1, <1>2, <1>3 DEF SInv

-----------------------------------------------------------------------------
(* Types *)

LEMMA InsertKeyType ==
  ASSUME TypeOK, NEW t \in Clients, cert[t].id \in Ids,
         NEW to \in {"audit", "restore"}, InsertKey(t, to)
  PROVE  TypeOK'
<1>1. keys' \in [Ids -> Nat]
  <2>1. keys \in [Ids -> Nat]
    BY DEF TypeOK
  <2> QED
    BY <2>1 DEF InsertKey
<1>2. \/ pc' = [pc EXCEPT ![t] = to] /\ outcome' = [outcome EXCEPT ![t] = "none"]
      \/ pc' = [pc EXCEPT ![t] = "idle"] /\ outcome' = [outcome EXCEPT ![t] = "foreign"]
  BY DEF InsertKey, Goes, Ends
<1>3. UNCHANGED <<certs, apps, routes, next, file, op, cert, app, newId, load, onEmpty, misread, gone, torn>>
  BY DEF InsertKey
<1>4. CASE pc' = [pc EXCEPT ![t] = to] /\ outcome' = [outcome EXCEPT ![t] = "none"]
  BY <1>1, <1>3, <1>4 DEF TypeOK
<1>5. CASE pc' = [pc EXCEPT ![t] = "idle"] /\ outcome' = [outcome EXCEPT ![t] = "foreign"]
  BY <1>1, <1>3, <1>5 DEF TypeOK
<1> QED
  BY <1>2, <1>4, <1>5

LEMMA ImportType ==
  ASSUME TypeOK, StepOfOp, NEW t \in Clients, ImportNext(t)
  PROVE  TypeOK'
<1>1. ASSUME NEW f \in Fps, Import(t, f) PROVE TypeOK'
  <2>1. PICK id \in Ids :
          /\ next = id /\ next' = id + 1
          /\ cert' = [cert EXCEPT ![t] = [id |-> id, fp |-> f]]
          /\ certs' \in {certs, certs \cup {[id |-> id, fp |-> f]}}
          /\ pc' \in {[pc EXCEPT ![t] = "key"], [pc EXCEPT ![t] = "idle"]}
          /\ outcome' \in {[outcome EXCEPT ![t] = "none"], [outcome EXCEPT ![t] = "unique"]}
    <3>1. PICK id \in Ids :
            LET row == [id |-> id, fp |-> f]
            IN  /\ Takes(id)
                /\ cert' = [cert EXCEPT ![t] = row]
                /\ \/ ~CertConflict(row) /\ certs' = certs \cup {row} /\ Goes(t, "key")
                   \/ CertConflict(row) /\ UNCHANGED certs /\ Ends(t, "unique")
      BY <1>1 DEF Import
    <3> QED
      BY <3>1 DEF Takes, Goes, Ends
  <2>2. [id |-> id, fp |-> f] \in CertRows
    BY DEF CertRows
  <2> QED
    <3>1. next' \in 1..(MaxId + 1) /\ certs' \subseteq CertRows
      BY <2>1, <2>2 DEF TypeOK
    <3>2. cert' \in [Clients -> HandCert]
      BY <2>1, <2>2 DEF TypeOK, HandCert
    <3>3. op' = [op EXCEPT ![t] = "import"] /\ misread' = [misread EXCEPT ![t] = FALSE]
          /\ UNCHANGED <<keys, apps, routes, file, app, newId, load, onEmpty, gone, torn>>
      BY <1>1 DEF Import, Starts
    <3> QED
      BY <2>1, <3>1, <3>2, <3>3 DEF TypeOK, HandCert
<1>2. CASE ImportKey(t)
  BY <1>2, InsertKeyType DEF ImportKey, StepOfOp, At
<1>3. CASE Audit(t)
  BY <1>3 DEF Audit, Goes, Ends, TypeOK
<1> QED
  BY <1>1, <1>2, <1>3 DEF ImportNext

LEMMA RemoveType ==
  ASSUME TypeOK, StepOfOp, NEW t \in Clients, RemoveNext(t)
  PROVE  TypeOK'
<1>1. CASE Remove(t)
  BY <1>1 DEF Remove, Starts, Goes, TypeOK
<1>2. CASE Delete(t)
  <2>1. cert[t].id \in Ids
    BY <1>2 DEF Delete, StepOfOp, At
  <2>2. certs' \subseteq CertRows /\ routes' \subseteq RouteRows /\ gone' \subseteq Ids
    BY <1>2, <2>1 DEF Delete, TypeOK
  <2>3. keys' \in [Ids -> Nat]
    BY <1>2, <2>1 DEF Delete, TypeOK
  <2>4. /\ pc' = [pc EXCEPT ![t] = "audit"] /\ outcome' = [outcome EXCEPT ![t] = "none"]
        /\ UNCHANGED <<apps, next, file, op, cert, app, newId, load, onEmpty, misread, torn>>
    BY <1>2 DEF Delete, Goes
  <2> QED
    BY <2>2, <2>3, <2>4 DEF TypeOK
<1> QED
  BY <1>1, <1>2 DEF RemoveNext

LEMMA RouteType ==
  ASSUME TypeOK, StepOfOp, NEW t \in Clients, RouteNext(t)
  PROVE  TypeOK'
<1>1. ASSUME NEW e \in Exes, AppAdd(t, e) PROVE TypeOK'
  <2>1. PICK id \in Ids :
          /\ next = id /\ next' = id + 1
          /\ apps' \in {apps, apps \cup {[id |-> id, exe |-> e]}}
          /\ pc' = [pc EXCEPT ![t] = "idle"]
          /\ outcome' \in {[outcome EXCEPT ![t] = "ok"], [outcome EXCEPT ![t] = "unique"]}
    <3>1. PICK id \in Ids :
            LET row == [id |-> id, exe |-> e]
            IN  /\ Takes(id)
                /\ \/ ~AppConflict(row) /\ apps' = apps \cup {row} /\ Ends(t, "ok")
                   \/ AppConflict(row) /\ UNCHANGED apps /\ Ends(t, "unique")
      BY <1>1 DEF AppAdd
    <3> QED
      BY <3>1 DEF Takes, Ends
  <2>2. [id |-> id, exe |-> e] \in AppRows
    BY DEF AppRows
  <2> QED
    <3>1. next' \in 1..(MaxId + 1) /\ apps' \subseteq AppRows
      BY <2>1, <2>2 DEF TypeOK
    <3>2. op' = [op EXCEPT ![t] = "app"] /\ misread' = [misread EXCEPT ![t] = FALSE]
          /\ UNCHANGED <<certs, keys, routes, file, cert, app, newId, load, onEmpty, gone, torn>>
      BY <1>1 DEF AppAdd, Starts
    <3> QED
      BY <2>1, <3>1, <3>2 DEF TypeOK
<1>2. CASE RouteAdd(t)
  BY <1>2 DEF RouteAdd, Starts, Takes, Goes, TypeOK
<1>3. CASE RouteApp(t)
  <2>1. app' \in [Clients -> HandApp]
    <3>1. CASE \E a \in apps : app' = [app EXCEPT ![t] = a]
      BY <3>1 DEF TypeOK, HandApp
    <3>2. CASE app' = [app EXCEPT ![t].id = 0]
      <4>1. app[t] \in HandApp
        BY DEF TypeOK, HandApp
      <4>2. PICK e \in Exes, i \in 0..MaxId : app[t] = [id |-> i, exe |-> e]
        BY <4>1 DEF HandApp, AppRows
      <4>3. [app[t] EXCEPT !.id = 0] = [id |-> 0, exe |-> e]
        BY <4>2
      <4> QED
        BY <3>2, <4>3 DEF TypeOK, HandApp
    <3> QED
      BY <1>3, <3>1, <3>2 DEF RouteApp
  <2> QED
    BY <1>3, <2>1 DEF RouteApp, Goes, HandApp, TypeOK
<1>4. CASE RouteInsert(t)
  <2> DEFINE row == [id |-> newId[t], cert |-> cert[t].id, app |-> app[t].id]
  <2>1. row \in RouteRows
    BY <1>4 DEF RouteInsert, StepOfOp, At, TypeOK, RouteRows, AppRows
  <2>2. routes' \in {routes, routes \cup {row}}
    BY <1>4 DEF RouteInsert
  <2>3. routes' \subseteq RouteRows
    BY <2>1, <2>2 DEF TypeOK
  <2>4. /\ pc' = [pc EXCEPT ![t] = "idle"]
        /\ outcome' \in {[outcome EXCEPT ![t] = "ok"], [outcome EXCEPT ![t] = "foreign"]}
    BY <1>4 DEF RouteInsert, Ends
  <2> QED
    BY <1>4, <2>3, <2>4 DEF RouteInsert, TypeOK
<1>5. CASE RouteRemove(t)
  BY <1>5 DEF RouteRemove, Starts, Ends, TypeOK
<1> QED
  BY <1>1, <1>2, <1>3, <1>4, <1>5 DEF RouteNext

LEMMA BackupType ==
  ASSUME TypeOK, NEW t \in Clients, BackupNext(t)
  PROVE  TypeOK'
<1>1. CASE Backup(t)
  <2>1. [Nothing EXCEPT !.made = TRUE, !.certs = {c \in certs : keys[c.id] > 0}] \in Payloads
    BY DEF Nothing, Payloads, TypeOK
  <2> QED
    BY <1>1, <2>1 DEF Backup, Starts, Goes, TypeOK
<1>2. CASE BackupApps(t)
  <2>1. [load[t] EXCEPT !.apps = apps] \in Payloads
    BY DEF Payloads, TypeOK
  <2> QED
    BY <1>2, <2>1 DEF BackupApps, Goes, TypeOK
<1>3. CASE BackupRoutes(t)
  <2>1. [load[t] EXCEPT !.routes = routes] \in Payloads
    BY DEF Payloads, TypeOK
  <2> QED
    BY <1>3, <2>1 DEF BackupRoutes, Goes, TypeOK
<1>4. CASE EmptyFile(t)
  BY <1>4, NothingType DEF EmptyFile, Goes, TypeOK
<1>5. CASE WriteFile(t)
  <2>1. file' \in Payloads /\ load' \in [Clients -> Payloads]
    BY <1>5, NothingType DEF WriteFile, TypeOK
  <2> QED
    BY <1>5, <2>1 DEF WriteFile, Ends, TypeOK
<1> QED
  BY <1>1, <1>2, <1>3, <1>4, <1>5 DEF BackupNext

LEMMA RestoreType ==
  ASSUME TypeOK, StepOfOp, NEW t \in Clients, RestoreNext(t)
  PROVE  TypeOK'
<1>0. load[t] \in Payloads
  BY DEF TypeOK
<1>1. CASE Restore(t)
  BY <1>1 DEF Restore, Starts, Goes, TypeOK
<1>2. CASE CheckCert(t)
  <2>1. PICK row \in load[t].certs :
          /\ load' = [load EXCEPT ![t].certs = @ \ {row}]
          /\ cert' = [cert EXCEPT ![t] = row]
          /\ Goes(t, "restore") \/ Goes(t, "newCert")
          /\ misread' \in {misread, [misread EXCEPT ![t] = TRUE]}
    BY <1>2 DEF CheckCert, LookUp
  <2>2. [load[t] EXCEPT !.certs = @ \ {row}] \in Payloads /\ row \in CertRows
    BY <1>0 DEF Payloads
  <2> QED
    BY <1>2, <2>1, <2>2 DEF CheckCert, LookUp, Goes, TypeOK
<1>3. CASE RestoreCert(t)
  BY <1>3 DEF RestoreCert, Goes, Ends, StepOfOp, At, TypeOK
<1>4. CASE RestoreKey(t)
  BY <1>4, InsertKeyType DEF RestoreKey, StepOfOp, At
<1>5. CASE CheckApp(t)
  <2>1. PICK row \in load[t].apps :
          /\ load' = [load EXCEPT ![t].apps = @ \ {row}]
          /\ app' = [app EXCEPT ![t] = row]
          /\ Goes(t, "restore") \/ Goes(t, "newApp")
          /\ misread' \in {misread, [misread EXCEPT ![t] = TRUE]}
    BY <1>5 DEF CheckApp, LookUp
  <2>2. [load[t] EXCEPT !.apps = @ \ {row}] \in Payloads /\ row \in AppRows
    BY <1>0 DEF Payloads
  <2>3. /\ load' \in [Clients -> Payloads]
        /\ app' \in [Clients -> HandApp]
        /\ misread' \in [Clients -> BOOLEAN]
    BY <2>1, <2>2 DEF TypeOK, HandApp
  <2>4. /\ \/ pc' = [pc EXCEPT ![t] = "restore"]
           \/ pc' = [pc EXCEPT ![t] = "newApp"]
        /\ outcome' = [outcome EXCEPT ![t] = "none"]
        /\ UNCHANGED <<tables, next, file, op, cert, newId, onEmpty, gone, torn>>
    BY <1>5, <2>1 DEF CheckApp, LookUp, Goes
  <2>5. CASE pc' = [pc EXCEPT ![t] = "restore"]
    BY <2>3, <2>4, <2>5 DEF TypeOK, HandApp
  <2>6. CASE pc' = [pc EXCEPT ![t] = "newApp"]
    BY <2>3, <2>4, <2>6 DEF TypeOK, HandApp
  <2> QED
    BY <2>4, <2>5, <2>6
<1>6. CASE RestoreApp(t)
  <2>1. app[t] \in AppRows
    BY <1>6 DEF RestoreApp, StepOfOp, At
  <2>2. apps' \subseteq AppRows
    BY <1>6, <2>1 DEF RestoreApp, TypeOK
  <2>3. UNCHANGED <<certs, keys, routes, next, file, op, cert, app, newId, load, onEmpty, misread, gone, torn>>
    BY <1>6 DEF RestoreApp
  <2>4. CASE Goes(t, "restore")
    BY <2>2, <2>3, <2>4 DEF Goes, TypeOK
  <2>5. CASE Ends(t, "unique")
    BY <2>2, <2>3, <2>5 DEF Ends, TypeOK
  <2> QED
    BY <1>6, <2>4, <2>5 DEF RestoreApp
<1>7. CASE RestoreRoute(t)
  <2>1. PICK row \in load[t].routes :
          /\ load' = [load EXCEPT ![t].routes = @ \ {row}]
          /\ routes' \in {routes, routes \cup {row}}
          /\ Goes(t, "restore") \/ Ends(t, "foreign")
    BY <1>7 DEF RestoreRoute
  <2>2. [load[t] EXCEPT !.routes = @ \ {row}] \in Payloads /\ row \in RouteRows
    BY <1>0 DEF Payloads
  <2> QED
    BY <1>7, <2>1, <2>2 DEF RestoreRoute, Goes, Ends, TypeOK
<1>8. CASE RestoreEnds(t)
  BY <1>8 DEF RestoreEnds, Goes, TypeOK
<1> QED
  BY <1>1, <1>2, <1>3, <1>4, <1>5, <1>6, <1>7, <1>8 DEF RestoreNext

LEMMA TypeStep == TypeOK /\ StepOfOp /\ [Next]_vars => TypeOK'
<1> SUFFICES ASSUME TypeOK, StepOfOp, [Next]_vars PROVE TypeOK'
  OBVIOUS
<1>1. ASSUME NEW t \in Clients, Fail(t) PROVE TypeOK'
  <2>1. torn' \subseteq Ids
    BY <1>1 DEF Fail, StepOfOp, At, TypeOK
  <2>2. file' \in Payloads /\ load' \in [Clients -> Payloads]
    BY <1>1, NothingType DEF Fail, TypeOK
  <2> QED
    BY <1>1, <2>1, <2>2 DEF Fail, Ends, TypeOK
<1>2. CASE Wipe
  <2>1. CertIds \subseteq Ids
    BY DEF CertIds, CertRows, TypeOK
  <2> QED
    BY <1>2, <2>1 DEF Wipe, TypeOK
<1>3. CASE UNCHANGED vars
  BY <1>3 DEF vars, TypeOK
<1> QED
  BY <1>1, <1>2, <1>3, ImportType, RemoveType, RouteType, BackupType, RestoreType DEF Next

-----------------------------------------------------------------------------
(* References between the tables *)

\* Rows are added, each with what it refers to.
LEMMA GrowStep ==
  ASSUME TypeOK, NothingDangles, certs \subseteq certs', apps \subseteq apps',
         \A r \in routes' : r \in routes \/ RouteHolds(r),
         \A i \in Ids : keys'[i] = keys[i] \/ i \in CertIds
  PROVE  NothingDangles'
<1>1. CertIds \subseteq CertIds' /\ AppIds \subseteq AppIds'
  BY DEF CertIds, AppIds
<1>2. ASSUME NEW r \in routes' PROVE RouteHolds(r)'
  <2>1. RouteHolds(r)
    BY DEF NothingDangles
  <2> QED
    BY <1>1, <2>1 DEF RouteHolds
<1>3. ASSUME NEW i \in Ids, keys'[i] > 0 PROVE i \in CertIds'
  BY <1>1, <1>3 DEF NothingDangles
<1> QED
  BY <1>2, <1>3 DEF NothingDangles

LEMMA InsertKeyDangles ==
  ASSUME TypeOK, NothingDangles, NEW t \in Clients, NEW to, InsertKey(t, to)
  PROVE  NothingDangles'
<1>1. \A i \in Ids : keys'[i] = keys[i] \/ i \in CertIds
  BY DEF InsertKey, TypeOK
<1> QED
  BY <1>1, GrowStep DEF InsertKey

LEMMA DeleteDangles ==
  ASSUME TypeOK, NothingDangles, NEW t \in Clients, Delete(t)
  PROVE  NothingDangles'
<1>1. CertIds' = CertIds \ {cert[t].id}
  BY DEF Delete, CertIds
<1>2. AppIds' = AppIds /\ routes' = {r \in routes : r.cert # cert[t].id}
  BY DEF Delete, AppIds
<1>3. \A i \in Ids : keys'[i] = IF i = cert[t].id THEN 0 ELSE keys[i]
  BY DEF Delete, TypeOK
<1> QED
  BY <1>1, <1>2, <1>3 DEF NothingDangles, RouteHolds

LEMMA DanglesStep == TypeOK /\ NothingDangles /\ [Next]_vars => NothingDangles'
<1> SUFFICES ASSUME TypeOK, NothingDangles, [Next]_vars PROVE NothingDangles'
  OBVIOUS
<1>1. ASSUME NEW t \in Clients, ImportNext(t) PROVE NothingDangles'
  <2>1. ASSUME NEW f \in Fps, Import(t, f) PROVE NothingDangles'
    BY <2>1, GrowStep DEF Import
  <2>2. CASE ImportKey(t)
    BY <2>2, InsertKeyDangles DEF ImportKey
  <2>3. CASE Audit(t)
    BY <2>3, GrowStep DEF Audit
  <2> QED
    BY <1>1, <2>1, <2>2, <2>3 DEF ImportNext
<1>2. ASSUME NEW t \in Clients, RemoveNext(t) PROVE NothingDangles'
  <2>1. CASE Remove(t)
    BY <2>1, GrowStep DEF Remove
  <2> QED
    BY <1>2, <2>1, DeleteDangles DEF RemoveNext
<1>3. ASSUME NEW t \in Clients, RouteNext(t) PROVE NothingDangles'
  <2>1. ASSUME NEW e \in Exes, AppAdd(t, e) PROVE NothingDangles'
    BY <2>1, GrowStep DEF AppAdd
  <2>2. CASE RouteAdd(t) \/ RouteApp(t)
    BY <2>2, GrowStep DEF RouteAdd, RouteApp
  <2>3. CASE RouteInsert(t)
    BY <2>3, GrowStep DEF RouteInsert
  <2>4. CASE RouteRemove(t)
    BY <2>4, GrowStep DEF RouteRemove
  <2> QED
    BY <1>3, <2>1, <2>2, <2>3, <2>4 DEF RouteNext
<1>4. ASSUME NEW t \in Clients, BackupNext(t) PROVE NothingDangles'
  BY <1>4, GrowStep DEF BackupNext, Backup, BackupApps, BackupRoutes, EmptyFile, WriteFile
<1>5. ASSUME NEW t \in Clients, RestoreNext(t) PROVE NothingDangles'
  <2>1. CASE Restore(t) \/ CheckCert(t) \/ CheckApp(t) \/ RestoreEnds(t)
    BY <2>1, GrowStep DEF Restore, CheckCert, LookUp, CheckApp, RestoreEnds
  <2>2. CASE RestoreCert(t) \/ RestoreApp(t)
    BY <2>2, GrowStep DEF RestoreCert, RestoreApp
  <2>3. CASE RestoreKey(t)
    BY <2>3, InsertKeyDangles DEF RestoreKey
  <2>4. CASE RestoreRoute(t)
    BY <2>4, GrowStep DEF RestoreRoute
  <2> QED
    BY <1>5, <2>1, <2>2, <2>3, <2>4 DEF RestoreNext
<1>6. ASSUME NEW t \in Clients, Fail(t) PROVE NothingDangles'
  BY <1>6, GrowStep DEF Fail
<1>7. CASE Wipe
  BY <1>7 DEF Wipe, NothingDangles
<1>8. CASE UNCHANGED vars
  BY <1>8, GrowStep DEF vars
<1> QED
  BY <1>1, <1>2, <1>3, <1>4, <1>5, <1>6, <1>7, <1>8 DEF Next

-----------------------------------------------------------------------------
(* The commands, statement by statement *)

\* Only t's own locals change, and torn grows.
Frame(t) ==
  /\ torn \subseteq torn'
  /\ \A u \in Clients \ {t} :
       /\ pc'[u] = pc[u] /\ op'[u] = op[u] /\ cert'[u] = cert[u] /\ app'[u] = app[u]
       /\ newId'[u] = newId[u] /\ load'[u] = load[u] /\ outcome'[u] = outcome[u]

StepOf(t) == \/ ImportNext(t) \/ RemoveNext(t) \/ RouteNext(t)
             \/ BackupNext(t) \/ RestoreNext(t) \/ Fail(t)

LEMMA FrameStep ==
  ASSUME TypeOK, NEW t \in Clients, StepOf(t)
  PROVE  Frame(t)
<1> USE DEF TypeOK, Frame, Starts, Goes, Ends, InsertKey
<1>1. CASE ImportNext(t)
  BY <1>1 DEF ImportNext, Import, ImportKey, Audit
<1>2. CASE RemoveNext(t)
  BY <1>2 DEF RemoveNext, Remove, Delete
<1>3. CASE RouteNext(t)
  <2>1. CASE \E e \in Exes : AppAdd(t, e)
    BY <2>1 DEF AppAdd
  <2>2. CASE RouteAdd(t) \/ RouteApp(t)
    BY <2>2 DEF RouteAdd, RouteApp
  <2>3. CASE RouteInsert(t) \/ RouteRemove(t)
    BY <2>3 DEF RouteInsert, RouteRemove
  <2> QED
    BY <1>3, <2>1, <2>2, <2>3 DEF RouteNext
<1>4. CASE BackupNext(t)
  BY <1>4 DEF BackupNext, Backup, BackupApps, BackupRoutes, EmptyFile, WriteFile
<1>5. CASE RestoreNext(t)
  <2>1. CASE Restore(t) \/ RestoreCert(t) \/ RestoreKey(t) \/ RestoreApp(t) \/ RestoreEnds(t)
    BY <2>1 DEF Restore, RestoreCert, RestoreKey, RestoreApp, RestoreEnds
  <2>2. CASE CheckCert(t)
    BY <2>2 DEF CheckCert, LookUp
  <2>3. CASE CheckApp(t)
    BY <2>3 DEF CheckApp, LookUp
  <2>4. CASE RestoreRoute(t)
    BY <2>4 DEF RestoreRoute
  <2> QED
    BY <1>5, <2>1, <2>2, <2>3, <2>4 DEF RestoreNext
<1>6. CASE Fail(t)
  BY <1>6 DEF Fail
<1> QED
  BY <1>1, <1>2, <1>3, <1>4, <1>5, <1>6 DEF StepOf

\* A key that is in the store stays, or its certificate is gone.
LEMMA KeysStay ==
  ASSUME TypeOK, NothingDangles, [Next]_vars, NEW i \in Ids, keys[i] > 0 \/ i \in gone
  PROVE  keys'[i] > 0 \/ i \in gone'
<1>1. keys[i] \in Nat /\ gone \subseteq Ids
  BY DEF TypeOK
<1>2. ASSUME NEW t \in Clients, NEW to, InsertKey(t, to) PROVE keys'[i] > 0 \/ i \in gone'
  <2>1. keys' = keys \/ keys' = [keys EXCEPT ![cert[t].id] = @ + 1]
    BY <1>2 DEF InsertKey
  <2>2. keys \in [Ids -> Nat] /\ gone' = gone
    BY <1>2 DEF InsertKey, TypeOK
  <2> QED
    BY <1>1, <2>1, <2>2
<1>3. ASSUME NEW t \in Clients, ImportNext(t) PROVE keys'[i] > 0 \/ i \in gone'
  BY <1>2, <1>3 DEF ImportNext, Import, ImportKey, Audit
<1>4. ASSUME NEW t \in Clients, RemoveNext(t) PROVE keys'[i] > 0 \/ i \in gone'
  BY <1>4 DEF RemoveNext, Remove, Delete, TypeOK
<1>5. ASSUME NEW t \in Clients, RouteNext(t) PROVE keys'[i] > 0 \/ i \in gone'
  BY <1>5 DEF RouteNext, AppAdd, RouteAdd, RouteApp, RouteInsert, RouteRemove
<1>6. ASSUME NEW t \in Clients, BackupNext(t) PROVE keys'[i] > 0 \/ i \in gone'
  BY <1>6 DEF BackupNext, Backup, BackupApps, BackupRoutes, EmptyFile, WriteFile
<1>7. ASSUME NEW t \in Clients, RestoreNext(t) PROVE keys'[i] > 0 \/ i \in gone'
  BY <1>2, <1>7 DEF RestoreNext, Restore, CheckCert, LookUp, RestoreCert, RestoreKey,
                    CheckApp, RestoreApp, RestoreRoute, RestoreEnds
<1>8. ASSUME NEW t \in Clients, Fail(t) PROVE keys'[i] > 0 \/ i \in gone'
  BY <1>8 DEF Fail
<1>9. CASE Wipe
  BY <1>9 DEF Wipe, NothingDangles
<1>10. CASE UNCHANGED vars
  BY <1>10 DEF vars
<1> QED
  BY <1>3, <1>4, <1>5, <1>6, <1>7, <1>8, <1>9, <1>10 DEF Next

\* Where the acting client is after its step.
LEMMA AtOwn ==
  ASSUME TypeOK, NothingDangles, NEW t \in Clients, At(t), StepOf(t)
  PROVE  At(t)'
<1>0. [Next]_vars
  BY DEF StepOf, Next
<1>1. \A i \in Ids : keys[i] > 0 \/ i \in gone => keys'[i] > 0 \/ i \in gone'
  BY <1>0, KeysStay
<1> USE DEF TypeOK, At, Starts, Goes, Ends
<1>2. CASE ImportNext(t)
  <2>1. ASSUME NEW f \in Fps, Import(t, f) PROVE At(t)'
    BY <2>1 DEF Import
  <2>2. CASE ImportKey(t)
    BY <2>2 DEF ImportKey, InsertKey
  <2>3. CASE Audit(t)
    BY <2>3, <1>1 DEF Audit
  <2> QED
    BY <1>2, <2>1, <2>2, <2>3 DEF ImportNext
<1>3. CASE RemoveNext(t)
  <2>1. CASE Remove(t)
    BY <2>1 DEF Remove, CertRows
  <2>2. CASE Delete(t)
    BY <2>2 DEF Delete
  <2> QED
    BY <1>3, <2>1, <2>2 DEF RemoveNext
<1>4. CASE RouteNext(t)
  <2>1. ASSUME NEW e \in Exes, AppAdd(t, e) PROVE At(t)'
    BY <2>1 DEF AppAdd
  <2>2. CASE RouteAdd(t)
    BY <2>2 DEF RouteAdd, CertRows
  <2>3. CASE RouteApp(t)
    BY <2>3 DEF RouteApp
  <2>4. CASE RouteInsert(t) \/ RouteRemove(t)
    BY <2>4 DEF RouteInsert, RouteRemove
  <2> QED
    BY <1>4, <2>1, <2>2, <2>3, <2>4 DEF RouteNext
<1>5. CASE BackupNext(t)
  BY <1>5 DEF BackupNext, Backup, BackupApps, BackupRoutes, EmptyFile, WriteFile
<1>6. CASE RestoreNext(t)
  <2>1. CASE Restore(t) \/ RestoreEnds(t)
    BY <2>1 DEF Restore, RestoreEnds
  <2>2. CASE CheckCert(t)
    <3>1. load[t].certs \subseteq CertRows
      BY DEF Payloads
    <3> QED
      BY <2>2, <3>1 DEF CheckCert, LookUp, CertRows
  <2>3. CASE RestoreCert(t)
    BY <2>3 DEF RestoreCert, CertRows
  <2>4. CASE RestoreKey(t)
    BY <2>4 DEF RestoreKey, InsertKey
  <2>5. CASE CheckApp(t)
    <3>1. load[t].apps \subseteq AppRows
      BY DEF Payloads
    <3> QED
      BY <2>5, <3>1 DEF CheckApp, LookUp
  <2>6. CASE RestoreApp(t)
    BY <2>6 DEF RestoreApp
  <2>7. CASE RestoreRoute(t)
    BY <2>7 DEF RestoreRoute
  <2> QED
    BY <1>6, <2>1, <2>2, <2>3, <2>4, <2>5, <2>6, <2>7 DEF RestoreNext
<1>7. CASE Fail(t)
  BY <1>7 DEF Fail
<1> QED
  BY <1>2, <1>3, <1>4, <1>5, <1>6, <1>7 DEF StepOf

LEMMA StepOfOpStep == TypeOK /\ StepOfOp /\ NothingDangles /\ [Next]_vars => StepOfOp'
<1> SUFFICES ASSUME TypeOK, StepOfOp, NothingDangles, [Next]_vars, NEW u \in Clients
             PROVE  At(u)'
  BY DEF StepOfOp
<1>1. \A i \in Ids : keys[i] > 0 \/ i \in gone => keys'[i] > 0 \/ i \in gone'
  BY KeysStay
<1>2. At(u)
  BY DEF StepOfOp
<1>3. ASSUME NEW t \in Clients, StepOf(t) PROVE At(u)'
  <2>1. CASE u = t
    BY <1>2, <1>3, <2>1, AtOwn
  <2>2. CASE u # t
    BY <1>1, <1>2, <1>3, <2>2, FrameStep DEF Frame, At
  <2> QED
    BY <2>1, <2>2
<1>4. CASE Wipe
  BY <1>1, <1>2, <1>4 DEF Wipe, At
<1>5. CASE UNCHANGED vars
  BY <1>2, <1>5 DEF vars, At
<1> QED
  BY <1>3, <1>4, <1>5 DEF Next, StepOf

-----------------------------------------------------------------------------
(* Certificates and their keys *)

Keyed(i) == \/ keys[i] > 0 \/ i \in torn
            \/ \E t \in Clients : pc[t] \in {"key", "newKey"} /\ cert[t].id = i

\* A certificate stays keyed by a step of t that is not t's failure to bring the key.
LEMMA KeyedStays ==
  ASSUME NEW t \in Clients, Frame(t), NEW i \in Ids, Keyed(i), keys'[i] = keys[i],
         pc[t] \in {"key", "newKey"} => cert[t].id # i
  PROVE  Keyed(i)'
BY DEF Frame, Keyed

LEMMA InsertKeyKeyed ==
  ASSUME TypeOK, NEW t \in Clients, Frame(t), NEW to, InsertKey(t, to),
         NEW c \in certs, Keyed(c.id)
  PROVE  Keyed(c.id)'
<1>1. c.id \in Ids /\ c.id \in CertIds
  BY DEF TypeOK, CertRows, CertIds
<1>2. CASE c.id = cert[t].id
  BY <1>1, <1>2 DEF InsertKey, TypeOK, Keyed
<1>3. CASE c.id # cert[t].id
  <2>1. keys'[c.id] = keys[c.id]
    BY <1>1, <1>3 DEF InsertKey, TypeOK
  <2> QED
    BY <1>1, <1>3, <2>1, KeyedStays
<1> QED
  BY <1>2, <1>3

LEMMA KeyedStep == TypeOK /\ CertsHaveKeys /\ [Next]_vars => CertsHaveKeys'
<1> SUFFICES ASSUME TypeOK, CertsHaveKeys, [Next]_vars, NEW c \in certs'
             PROVE  Keyed(c.id)'
  BY DEF CertsHaveKeys, Keyed
<1>1. \A d \in certs : Keyed(d.id) /\ d.id \in Ids
  BY DEF CertsHaveKeys, Keyed, TypeOK, CertRows
<1>2. ASSUME NEW t \in Clients, StepOf(t), c \in certs, UNCHANGED keys,
             pc[t] \notin {"key", "newKey"}
      PROVE  Keyed(c.id)'
  BY <1>1, <1>2, FrameStep, KeyedStays
<1>3. ASSUME NEW t \in Clients, ImportNext(t) PROVE Keyed(c.id)'
  <2>1. ASSUME NEW f \in Fps, Import(t, f) PROVE Keyed(c.id)'
    <3>1. CASE c \in certs
      BY <1>2, <1>3, <2>1, <3>1 DEF Import, Starts, StepOf
    <3>2. CASE c \notin certs
      <4>1. cert'[t] = c /\ pc'[t] = "key"
        BY <2>1, <3>2 DEF Import, Goes, TypeOK
      <4> QED
        BY <4>1 DEF Keyed
    <3> QED
      BY <3>1, <3>2
  <2>2. CASE ImportKey(t)
    BY <1>1, <1>3, <2>2, FrameStep, InsertKeyKeyed DEF ImportKey, InsertKey, StepOf
  <2>3. CASE Audit(t)
    BY <1>2, <1>3, <2>3 DEF Audit, StepOf
  <2> QED
    BY <1>3, <2>1, <2>2, <2>3 DEF ImportNext
<1>4. ASSUME NEW t \in Clients, RemoveNext(t) PROVE Keyed(c.id)'
  <2>1. CASE Remove(t)
    BY <1>2, <1>4, <2>1 DEF Remove, Starts, StepOf
  <2>2. CASE Delete(t)
    <3>1. c \in certs /\ c.id # cert[t].id /\ keys'[c.id] = keys[c.id]
      BY <1>1, <2>2 DEF Delete, TypeOK
    <3> QED
      BY <1>1, <1>4, <3>1, FrameStep, KeyedStays DEF StepOf
  <2> QED
    BY <1>4, <2>1, <2>2 DEF RemoveNext
<1>5. ASSUME NEW t \in Clients, RouteNext(t) PROVE Keyed(c.id)'
  BY <1>2, <1>5 DEF RouteNext, AppAdd, RouteAdd, RouteApp, RouteInsert, RouteRemove,
                    Starts, StepOf
<1>6. ASSUME NEW t \in Clients, BackupNext(t) PROVE Keyed(c.id)'
  BY <1>2, <1>6 DEF BackupNext, Backup, BackupApps, BackupRoutes, EmptyFile, WriteFile, Starts, StepOf
<1>7. ASSUME NEW t \in Clients, RestoreNext(t) PROVE Keyed(c.id)'
  <2>1. CASE Restore(t) \/ CheckCert(t) \/ CheckApp(t) \/ RestoreApp(t)
             \/ RestoreRoute(t) \/ RestoreEnds(t)
    BY <1>2, <1>7, <2>1 DEF Restore, CheckCert, LookUp, CheckApp, RestoreApp, RestoreRoute,
                            RestoreEnds, Starts, StepOf
  <2>2. CASE RestoreCert(t)
    <3>1. CASE c \in certs
      BY <1>2, <1>7, <2>2, <3>1 DEF RestoreCert, StepOf
    <3>2. CASE c \notin certs
      <4>1. cert'[t] = c /\ pc'[t] = "newKey"
        BY <2>2, <3>2 DEF RestoreCert, Goes, TypeOK
      <4> QED
        BY <4>1 DEF Keyed
    <3> QED
      BY <3>1, <3>2
  <2>3. CASE RestoreKey(t)
    BY <1>1, <1>7, <2>3, FrameStep, InsertKeyKeyed DEF RestoreKey, InsertKey, StepOf
  <2> QED
    BY <1>7, <2>1, <2>2, <2>3 DEF RestoreNext
<1>8. ASSUME NEW t \in Clients, Fail(t) PROVE Keyed(c.id)'
  <2>1. CASE pc[t] \in {"key", "newKey"} /\ cert[t].id = c.id
    BY <1>8, <2>1 DEF Fail, Keyed
  <2>2. CASE ~(pc[t] \in {"key", "newKey"} /\ cert[t].id = c.id)
    BY <1>1, <1>8, <2>2, FrameStep, KeyedStays DEF Fail, StepOf
  <2> QED
    BY <2>1, <2>2
<1>9. CASE Wipe
  BY <1>9 DEF Wipe
<1>10. CASE UNCHANGED vars
  BY <1>1, <1>10 DEF vars, Keyed
<1> QED
  BY <1>3, <1>4, <1>5, <1>6, <1>7, <1>8, <1>9, <1>10 DEF Next

-----------------------------------------------------------------------------
(* The theorems *)

LEMMA NextInv == SInv /\ [Next]_vars => SInv'
BY TypeStep, StepOfOpStep, DanglesStep, KeyedStep DEF SInv

\* SInv holds of every reachable state of the store and the commands.
THEOREM StoreInvHolds == Spec => []SInv
BY InitInv, NextInv, PTL DEF Spec

\* Every table, the backup file and every local of a command stays in its set.
THEOREM StoreTypeCorrect == Spec => []TypeOK
<1>1. SInv => TypeOK
  BY DEF SInv
<1> QED
  BY <1>1, StoreInvHolds, PTL

\* No command, and no failure of one, leaves a key or a route that refers to nothing.
THEOREM NothingEverDangles == Spec => []NothingDangles
<1>1. SInv => NothingDangles
  BY DEF SInv
<1> QED
  BY <1>1, StoreInvHolds, PTL

\* A certificate lacks its key only while a command brings it or if one was cut off
\* at it.
THEOREM CertsGetTheirKeys == Spec => []CertsHaveKeys
<1>1. SInv => CertsHaveKeys
  BY DEF SInv
<1> QED
  BY <1>1, StoreInvHolds, PTL

\* An import that succeeded stays with its key until the certificate is removed.
THEOREM ImportsStay == Spec => []ImportedStays
<1>1. SInv => ImportedStays
  BY DEF SInv, StepOfOp, At, ImportedStays
<1> QED
  BY <1>1, StoreInvHolds, PTL

LEMMA RestoreStepAdds ==
  ASSUME SInv, [Next]_vars, NEW t \in Clients, op[t] = "restore", pc[t] # "idle",
         <<pc[t], load[t]>> # <<pc'[t], load'[t]>>
  PROVE  /\ certs \subseteq certs' /\ apps \subseteq apps' /\ routes \subseteq routes'
         /\ \A i \in Ids : keys[i] <= keys'[i]
<1>1. TypeOK /\ At(t)
  BY DEF SInv, StepOfOp
<1>2. \A i \in Ids : keys[i] \in Nat
  BY <1>1 DEF TypeOK
<1>3. StepOf(t)
  <2>1. ASSUME NEW u \in Clients, StepOf(u) PROVE StepOf(t)
    <3>1. CASE u = t
      BY <2>1, <3>1
    <3>2. CASE u # t
      BY <1>1, <2>1, <3>2, FrameStep DEF Frame
    <3> QED
      BY <3>1, <3>2
  <2>2. CASE Wipe
    BY <2>2 DEF Wipe
  <2>3. CASE UNCHANGED vars
    BY <2>3 DEF vars
  <2> QED
    <3>1. (\E u \in Clients : StepOf(u)) \/ Wipe \/ UNCHANGED vars
      BY DEF Next, StepOf
    <3> QED
      BY <2>1, <2>2, <2>3, <3>1
<1>4. CASE ImportNext(t)
  BY <1>1, <1>2, <1>4 DEF ImportNext, Import, ImportKey, Audit, Starts, At
<1>5. CASE RemoveNext(t)
  BY <1>1, <1>5 DEF RemoveNext, Remove, Delete, Starts, At
<1>6. CASE RouteNext(t)
  BY <1>1, <1>6 DEF RouteNext, AppAdd, RouteAdd, RouteApp, RouteInsert, RouteRemove, Starts, At
<1>7. CASE BackupNext(t)
  BY <1>1, <1>2, <1>7 DEF BackupNext, Backup, BackupApps, BackupRoutes, EmptyFile, WriteFile, Starts, At
<1>8. CASE RestoreNext(t)
  <2>1. CASE RestoreKey(t)
    <3>1. keys' = keys \/ keys' = [keys EXCEPT ![cert[t].id] = @ + 1]
      BY <2>1 DEF RestoreKey, InsertKey
    <3>2. \A i \in Ids : keys[i] <= keys'[i]
      <4>1. keys \in [Ids -> Nat]
        BY <1>1 DEF TypeOK
      <4>2. CASE keys' = keys
        BY <1>2, <4>2
      <4>3. ASSUME NEW i \in Ids, keys' = [keys EXCEPT ![cert[t].id] = @ + 1]
            PROVE  keys[i] <= keys'[i]
        <5>1. keys'[i] = IF i = cert[t].id THEN keys[i] + 1 ELSE keys[i]
          BY <4>1, <4>3
        <5> QED
          BY <1>2, <5>1
      <4> QED
        BY <3>1, <4>2, <4>3
    <3> QED
      BY <2>1, <3>2 DEF RestoreKey, InsertKey
  <2> QED
    BY <1>2, <1>8, <2>1 DEF RestoreNext, Restore, CheckCert, LookUp, RestoreCert, CheckApp,
                            RestoreApp, RestoreRoute, RestoreEnds
<1>9. CASE Fail(t)
  BY <1>2, <1>9 DEF Fail
<1> QED
  BY <1>3, <1>4, <1>5, <1>6, <1>7, <1>8, <1>9 DEF StepOf

\* No step of a restore removes or changes a row, whatever runs beside it.
THEOREM RestoresOnlyAdd == Spec => RestoreOnlyAdds
<1>1. SInv /\ [Next]_vars =>
        [\A t \in Clients :
           op[t] = "restore" /\ pc[t] # "idle" /\ <<pc[t], load[t]>> # <<pc'[t], load'[t]>> =>
             /\ certs \subseteq certs' /\ apps \subseteq apps' /\ routes \subseteq routes'
             /\ \A i \in Ids : keys[i] <= keys'[i]]_vars
  BY RestoreStepAdds
<1> QED
  BY <1>1, StoreInvHolds, PTL DEF Spec, RestoreOnlyAdds

-----------------------------------------------------------------------------
(* Ids.  A row is known as long as the store, the backup or a command holds it; *)
(* a route that is being added has drawn its id some statements before.         *)

CertsOf(t) == load[t].certs \cup {c \in {cert[t]} : pc[t] \in {"key", "newKey", "newCert"}}
AppsOf(t) == load[t].apps \cup {a \in {app[t]} : pc[t] = "newApp"}

KnownCerts == certs \cup file.certs \cup UNION {CertsOf(t) : t \in Clients}
KnownApps == apps \cup file.apps \cup UNION {AppsOf(t) : t \in Clients}
KnownRoutes == routes \cup file.routes \cup UNION {load[t].routes : t \in Clients}

OneRowEach(S) == \A q, r \in S : q.id = r.id => q = r
Given(S) == \A r \in S : r.id < next

Draws(t) == pc[t] \in {"app", "route"}
DrawnFor(t) == Draws(t) => newId[t] < next /\ \A r \in KnownRoutes : r.id # newId[t]

IdsInv ==
  /\ OneRowEach(KnownCerts) /\ Given(KnownCerts)
  /\ OneRowEach(KnownApps) /\ Given(KnownApps)
  /\ OneRowEach(KnownRoutes) /\ Given(KnownRoutes)
  /\ \A t \in Clients : DrawnFor(t)
  /\ \A t, u \in Clients : Draws(t) /\ Draws(u) /\ newId[t] = newId[u] => t = u

LEMMA Control ==
  ASSUME TypeOK, NEW t \in Clients, NEW x
  PROVE  /\ Goes(t, x) => pc'[t] = x /\ outcome'[t] = "none"
         /\ Ends(t, x) => pc'[t] = "idle" /\ outcome'[t] = x
         /\ Starts(t, x) => pc[t] = "idle" /\ op'[t] = x
BY DEF TypeOK, Goes, Ends, Starts

LEMMA NextGrows ==
  ASSUME TypeOK, [Next]_vars
  PROVE  next \in Nat /\ next' \in Nat /\ next <= next'
<1>1. next \in Nat
  BY DEF TypeOK
<1> USE DEF InsertKey, Takes
<1>2. ASSUME NEW t \in Clients, ImportNext(t) PROVE next' \in {next, next + 1}
  BY <1>2 DEF ImportNext, Import, ImportKey, Audit
<1>3. ASSUME NEW t \in Clients, RemoveNext(t) PROVE next' \in {next, next + 1}
  BY <1>3 DEF RemoveNext, Remove, Delete
<1>4. ASSUME NEW t \in Clients, RouteNext(t) PROVE next' \in {next, next + 1}
  BY <1>4 DEF RouteNext, AppAdd, RouteAdd, RouteApp, RouteInsert, RouteRemove
<1>5. ASSUME NEW t \in Clients, BackupNext(t) PROVE next' \in {next, next + 1}
  BY <1>5 DEF BackupNext, Backup, BackupApps, BackupRoutes, EmptyFile, WriteFile
<1>6. ASSUME NEW t \in Clients, RestoreNext(t) PROVE next' \in {next, next + 1}
  BY <1>6 DEF RestoreNext, Restore, CheckCert, LookUp, RestoreCert, RestoreKey, CheckApp,
              RestoreApp, RestoreRoute, RestoreEnds
<1>7. ASSUME NEW t \in Clients, Fail(t) PROVE next' \in {next, next + 1}
  BY <1>7 DEF Fail
<1>8. CASE Wipe
  BY <1>1, <1>8 DEF Wipe
<1>9. CASE UNCHANGED vars
  BY <1>1, <1>9 DEF vars
<1> QED
  BY <1>1, <1>2, <1>3, <1>4, <1>5, <1>6, <1>7, <1>8, <1>9 DEF Next

\* No table, file or command gets a row from anywhere else.
LEMMA KnownStep ==
  ASSUME NEW t \in Clients, Frame(t), NEW S
  PROVE  /\ certs' \cup file'.certs \cup CertsOf(t)' \subseteq KnownCerts \cup S =>
              KnownCerts' \subseteq KnownCerts \cup S
         /\ apps' \cup file'.apps \cup AppsOf(t)' \subseteq KnownApps \cup S =>
              KnownApps' \subseteq KnownApps \cup S
         /\ routes' \cup file'.routes \cup load'[t].routes \subseteq KnownRoutes \cup S =>
              KnownRoutes' \subseteq KnownRoutes \cup S
<1>1. \A u \in Clients \ {t} :
        /\ CertsOf(u)' = CertsOf(u) /\ AppsOf(u)' = AppsOf(u)
        /\ load'[u].routes = load[u].routes
  BY DEF Frame, CertsOf, AppsOf
<1>2. \A u \in Clients : /\ CertsOf(u) \subseteq KnownCerts /\ AppsOf(u) \subseteq KnownApps
                         /\ load[u].routes \subseteq KnownRoutes
  BY DEF KnownCerts, KnownApps, KnownRoutes
<1>3. ASSUME certs' \cup file'.certs \cup CertsOf(t)' \subseteq KnownCerts \cup S
      PROVE  KnownCerts' \subseteq KnownCerts \cup S
  <2>1. \A u \in Clients : CertsOf(u)' \subseteq KnownCerts \cup S
    BY <1>1, <1>2, <1>3
  <2>2. KnownCerts' = certs' \cup file'.certs \cup UNION {CertsOf(u)' : u \in Clients}
    BY DEF KnownCerts
  <2> QED
    BY <1>3, <2>1, <2>2
<1>4. ASSUME apps' \cup file'.apps \cup AppsOf(t)' \subseteq KnownApps \cup S
      PROVE  KnownApps' \subseteq KnownApps \cup S
  <2>1. \A u \in Clients : AppsOf(u)' \subseteq KnownApps \cup S
    BY <1>1, <1>2, <1>4
  <2>2. KnownApps' = apps' \cup file'.apps \cup UNION {AppsOf(u)' : u \in Clients}
    BY DEF KnownApps
  <2> QED
    BY <1>4, <2>1, <2>2
<1>5. ASSUME routes' \cup file'.routes \cup load'[t].routes \subseteq KnownRoutes \cup S
      PROVE  KnownRoutes' \subseteq KnownRoutes \cup S
  <2>1. \A u \in Clients : load'[u].routes \subseteq KnownRoutes \cup S
    BY <1>1, <1>2, <1>5
  <2>2. KnownRoutes' = routes' \cup file'.routes \cup UNION {load'[u].routes : u \in Clients}
    BY DEF KnownRoutes
  <2> QED
    BY <1>5, <2>1, <2>2
<1> QED
  BY <1>3, <1>4, <1>5

\* What t takes in hand or puts in the store are rows that were known, or one new row
\* with the next id or, for a route, with the id drawn for it.
LEMMA CertsKnown ==
  ASSUME TypeOK, NEW t \in Clients, StepOf(t)
  PROVE  \/ certs' \cup file'.certs \cup CertsOf(t)' \subseteq KnownCerts
         \/ \E row : /\ row.id = next /\ next' = next + 1
                     /\ certs' \cup file'.certs \cup CertsOf(t)' \subseteq KnownCerts \cup {row}
<1>1. /\ certs \cup file.certs \cup load[t].certs \subseteq KnownCerts
      /\ pc[t] \in {"key", "newKey", "newCert"} => cert[t] \in KnownCerts
  BY DEF KnownCerts, CertsOf
<1>2. load[t] \in Payloads /\ file \in Payloads
  BY DEF TypeOK
<1> DEFINE Same == certs' \cup file'.certs \cup CertsOf(t)' \subseteq KnownCerts
<1> USE DEF InsertKey
<1>3. ASSUME NEW f \in Fps, Import(t, f)
      PROVE  \E row : /\ row.id = next /\ next' = next + 1
                      /\ certs' \cup file'.certs \cup CertsOf(t)' \subseteq KnownCerts \cup {row}
  <2>1. PICK id \in Ids : /\ next = id /\ next' = next + 1
                          /\ cert' = [cert EXCEPT ![t] = [id |-> id, fp |-> f]]
                          /\ certs' \subseteq certs \cup {[id |-> id, fp |-> f]}
    BY <1>3 DEF Import, Takes
  <2>2. cert'[t] = [id |-> id, fp |-> f] /\ file' = file /\ load' = load
    BY <1>3, <2>1 DEF Import, TypeOK
  <2> QED
    BY <1>1, <2>1, <2>2 DEF CertsOf
<1>4. CASE ImportKey(t) \/ Audit(t)
  BY <1>1, <1>4, Control DEF ImportKey, Audit, CertsOf
<1>5. CASE RemoveNext(t)
  BY <1>1, <1>5, Control DEF RemoveNext, Remove, Delete, CertsOf
<1>6. CASE RouteNext(t)
  <2>1. ASSUME NEW e \in Exes, AppAdd(t, e) PROVE Same
    BY <1>1, <2>1, Control DEF AppAdd, CertsOf
  <2>2. CASE RouteAdd(t) \/ RouteApp(t) \/ RouteInsert(t) \/ RouteRemove(t)
    BY <1>1, <2>2, Control DEF RouteAdd, RouteApp, RouteInsert, RouteRemove, CertsOf
  <2> QED
    BY <1>6, <2>1, <2>2 DEF RouteNext
<1>7. CASE BackupNext(t)
  <2>1. CASE Backup(t)
    <3>1. load'[t].certs \subseteq certs
      BY <2>1 DEF Backup, Nothing, TypeOK
    <3> QED
      BY <1>1, <2>1, <3>1, Control DEF Backup, CertsOf
  <2>2. CASE BackupApps(t) \/ BackupRoutes(t)
    <3>1. load'[t].certs = load[t].certs
      BY <1>2, <2>2 DEF BackupApps, BackupRoutes, TypeOK, Payloads
    <3> QED
      BY <1>1, <2>2, <3>1, Control DEF BackupApps, BackupRoutes, CertsOf
  <2>3. CASE EmptyFile(t) \/ WriteFile(t)
    <3>1. file'.certs \subseteq load[t].certs /\ load'[t].certs \subseteq load[t].certs
      BY <1>2, <2>3 DEF EmptyFile, WriteFile, Nothing, TypeOK
    <3> QED
      BY <1>1, <2>3, <3>1, Control DEF EmptyFile, WriteFile, CertsOf
  <2> QED
    BY <1>7, <2>1, <2>2, <2>3 DEF BackupNext
<1>8. CASE RestoreNext(t)
  <2>1. CASE Restore(t)
    BY <1>1, <2>1, Control DEF Restore, CertsOf, TypeOK
  <2>2. CASE CheckCert(t)
    <3>1. PICK row \in load[t].certs : /\ load' = [load EXCEPT ![t].certs = @ \ {row}]
                                       /\ cert' = [cert EXCEPT ![t] = row]
      BY <2>2 DEF CheckCert, LookUp
    <3>2. load'[t].certs \subseteq load[t].certs /\ cert'[t] = row
      BY <1>2, <3>1 DEF TypeOK, Payloads
    <3> QED
      BY <1>1, <2>2, <3>2 DEF CheckCert, LookUp, CertsOf
  <2>3. CASE RestoreCert(t)
    BY <1>1, <2>3, Control DEF RestoreCert, CertsOf
  <2>4. CASE CheckApp(t) \/ RestoreRoute(t)
    <3>1. load'[t].certs = load[t].certs
      BY <1>2, <2>4 DEF CheckApp, LookUp, RestoreRoute, TypeOK, Payloads
    <3> QED
      BY <1>1, <2>4, <3>1, Control DEF CheckApp, LookUp, RestoreRoute, CertsOf
  <2>5. CASE RestoreKey(t) \/ RestoreApp(t) \/ RestoreEnds(t)
    BY <1>1, <2>5, Control DEF RestoreKey, RestoreApp, RestoreEnds, CertsOf
  <2> QED
    BY <1>8, <2>1, <2>2, <2>3, <2>4, <2>5 DEF RestoreNext
<1>9. CASE Fail(t)
  <2>1. file'.certs \subseteq file.certs /\ load'[t].certs = {}
    BY <1>2, <1>9 DEF Fail, Nothing, TypeOK
  <2> QED
    BY <1>1, <1>9, <2>1, Control DEF Fail, CertsOf
<1> QED
  BY <1>3, <1>4, <1>5, <1>6, <1>7, <1>8, <1>9 DEF StepOf, ImportNext

LEMMA AppsKnown ==
  ASSUME TypeOK, NEW t \in Clients, StepOf(t)
  PROVE  \/ apps' \cup file'.apps \cup AppsOf(t)' \subseteq KnownApps
         \/ \E row : /\ row.id = next /\ next' = next + 1
                     /\ apps' \cup file'.apps \cup AppsOf(t)' \subseteq KnownApps \cup {row}
<1>1. /\ apps \cup file.apps \cup load[t].apps \subseteq KnownApps
      /\ pc[t] = "newApp" => app[t] \in KnownApps
  BY DEF KnownApps, AppsOf
<1>2. load[t] \in Payloads /\ file \in Payloads
  BY DEF TypeOK
<1> DEFINE Same == apps' \cup file'.apps \cup AppsOf(t)' \subseteq KnownApps
<1> USE DEF InsertKey
<1>3. CASE ImportNext(t)
  <2>1. ASSUME NEW f \in Fps, Import(t, f) PROVE Same
    BY <1>1, <2>1, Control DEF Import, AppsOf
  <2>2. CASE ImportKey(t) \/ Audit(t)
    BY <1>1, <2>2, Control DEF ImportKey, Audit, AppsOf
  <2> QED
    BY <1>3, <2>1, <2>2 DEF ImportNext
<1>4. CASE RemoveNext(t)
  BY <1>1, <1>4, Control DEF RemoveNext, Remove, Delete, AppsOf
<1>5. ASSUME NEW e \in Exes, AppAdd(t, e)
      PROVE  \E row : /\ row.id = next /\ next' = next + 1
                      /\ apps' \cup file'.apps \cup AppsOf(t)' \subseteq KnownApps \cup {row}
  <2>1. PICK id \in Ids : /\ next = id /\ next' = next + 1
                          /\ apps' \subseteq apps \cup {[id |-> id, exe |-> e]}
                          /\ pc'[t] = "idle" /\ file' = file /\ load' = load
    BY <1>5, Control DEF AppAdd, Takes
  <2>2. AppsOf(t)' \subseteq KnownApps
    BY <1>1, <2>1 DEF AppsOf
  <2>3. apps' \cup file'.apps \cup AppsOf(t)' \subseteq KnownApps \cup {[id |-> id, exe |-> e]}
    BY <1>1, <2>1, <2>2
  <2> QED
    BY <2>1, <2>3
<1>6. CASE RouteAdd(t) \/ RouteApp(t) \/ RouteInsert(t) \/ RouteRemove(t)
  BY <1>1, <1>6, Control DEF RouteAdd, RouteApp, RouteInsert, RouteRemove, AppsOf
<1>7. CASE BackupNext(t)
  <2>1. CASE Backup(t)
    <3>1. load'[t].apps = {}
      BY <2>1 DEF Backup, Nothing, TypeOK
    <3> QED
      BY <1>1, <2>1, <3>1, Control DEF Backup, AppsOf
  <2>2. CASE BackupApps(t)
    <3>1. load'[t].apps = apps
      BY <1>2, <2>2 DEF BackupApps, TypeOK, Payloads
    <3> QED
      BY <1>1, <2>2, <3>1, Control DEF BackupApps, AppsOf
  <2>3. CASE BackupRoutes(t)
    <3>1. load'[t].apps = load[t].apps
      BY <1>2, <2>3 DEF BackupRoutes, TypeOK, Payloads
    <3> QED
      BY <1>1, <2>3, <3>1, Control DEF BackupRoutes, AppsOf
  <2>4. CASE EmptyFile(t) \/ WriteFile(t)
    <3>1. file'.apps \subseteq load[t].apps /\ load'[t].apps \subseteq load[t].apps
      BY <1>2, <2>4 DEF EmptyFile, WriteFile, Nothing, TypeOK
    <3> QED
      BY <1>1, <2>4, <3>1, Control DEF EmptyFile, WriteFile, AppsOf
  <2> QED
    BY <1>7, <2>1, <2>2, <2>3, <2>4 DEF BackupNext
<1>8. CASE RestoreNext(t)
  <2>1. CASE Restore(t)
    BY <1>1, <2>1, Control DEF Restore, AppsOf, TypeOK
  <2>2. CASE CheckApp(t)
    <3>1. PICK row \in load[t].apps : /\ load' = [load EXCEPT ![t].apps = @ \ {row}]
                                      /\ app' = [app EXCEPT ![t] = row]
      BY <2>2 DEF CheckApp, LookUp
    <3>2. load'[t].apps \subseteq load[t].apps /\ app'[t] = row
      BY <1>2, <3>1 DEF TypeOK, Payloads
    <3> QED
      BY <1>1, <2>2, <3>2 DEF CheckApp, LookUp, AppsOf
  <2>3. CASE RestoreApp(t)
    BY <1>1, <2>3, Control DEF RestoreApp, AppsOf
  <2>4. CASE CheckCert(t) \/ RestoreRoute(t)
    <3>1. load'[t].apps = load[t].apps
      BY <1>2, <2>4 DEF CheckCert, LookUp, RestoreRoute, TypeOK, Payloads
    <3> QED
      BY <1>1, <2>4, <3>1, Control DEF CheckCert, LookUp, RestoreRoute, AppsOf
  <2>5. CASE RestoreKey(t) \/ RestoreCert(t) \/ RestoreEnds(t)
    BY <1>1, <2>5, Control DEF RestoreKey, RestoreCert, RestoreEnds, AppsOf
  <2> QED
    BY <1>8, <2>1, <2>2, <2>3, <2>4, <2>5 DEF RestoreNext
<1>9. CASE Fail(t)
  <2>1. file'.apps \subseteq file.apps /\ load'[t].apps = {}
    BY <1>2, <1>9 DEF Fail, Nothing, TypeOK
  <2> QED
    BY <1>1, <1>9, <2>1, Control DEF Fail, AppsOf
<1> QED
  BY <1>3, <1>4, <1>5, <1>6, <1>7, <1>8, <1>9 DEF StepOf, RouteNext

LEMMA RoutesKnown ==
  ASSUME TypeOK, NEW t \in Clients, StepOf(t)
  PROVE  \/ routes' \cup file'.routes \cup load'[t].routes \subseteq KnownRoutes
         \/ /\ pc[t] = "route" /\ pc'[t] = "idle"
            /\ \E row : /\ row.id = newId[t]
                        /\ routes' \cup file'.routes \cup load'[t].routes
                             \subseteq KnownRoutes \cup {row}
<1>1. routes \cup file.routes \cup load[t].routes \subseteq KnownRoutes
  BY DEF KnownRoutes
<1>2. load[t] \in Payloads /\ file \in Payloads
  BY DEF TypeOK
<1> USE DEF InsertKey
<1>3. CASE ImportNext(t)
  BY <1>1, <1>3 DEF ImportNext, Import, ImportKey, Audit
<1>4. CASE RemoveNext(t)
  BY <1>1, <1>4 DEF RemoveNext, Remove, Delete
<1>5. CASE RouteInsert(t)
  <2>1. \E row : row.id = newId[t] /\ routes' \subseteq routes \cup {row}
    BY <1>5 DEF RouteInsert
  <2>2. pc[t] = "route" /\ pc'[t] = "idle" /\ file' = file /\ load' = load
    BY <1>5, Control DEF RouteInsert
  <2> QED
    BY <1>1, <2>1, <2>2
<1>6. CASE RouteNext(t) /\ ~RouteInsert(t)
  BY <1>1, <1>6 DEF RouteNext, AppAdd, RouteAdd, RouteApp, RouteRemove
<1>7. CASE BackupNext(t)
  <2>1. load'[t].routes \in {{}, routes, load[t].routes}
    <3>1. CASE Backup(t)
      BY <3>1 DEF Backup, Nothing, TypeOK
    <3>2. CASE BackupApps(t)
      BY <1>2, <3>2 DEF BackupApps, TypeOK, Payloads
    <3>3. CASE BackupRoutes(t)
      BY <1>2, <3>3 DEF BackupRoutes, TypeOK, Payloads
    <3>4. CASE EmptyFile(t) \/ WriteFile(t)
      BY <3>4 DEF EmptyFile, WriteFile, Nothing, TypeOK
    <3> QED
      BY <1>7, <3>1, <3>2, <3>3, <3>4 DEF BackupNext
  <2>2. routes' = routes /\ (file' = file \/ file' = load[t] \/ file'.routes = {})
    BY <1>7 DEF Nothing, BackupNext, Backup, BackupApps, BackupRoutes, EmptyFile, WriteFile
  <2> QED
    BY <1>1, <2>1, <2>2
<1>8. CASE RestoreNext(t)
  <2>1. CASE RestoreRoute(t)
    <3>1. PICK row \in load[t].routes : /\ load' = [load EXCEPT ![t].routes = @ \ {row}]
                                        /\ routes' \subseteq routes \cup {row}
                                        /\ file' = file
      BY <2>1 DEF RestoreRoute
    <3>2. load'[t].routes \subseteq load[t].routes
      BY <1>2, <3>1 DEF TypeOK, Payloads
    <3> QED
      BY <1>1, <3>1, <3>2
  <2>2. CASE CheckCert(t) \/ CheckApp(t)
    <3>1. load'[t].routes = load[t].routes
      BY <1>2, <2>2 DEF CheckCert, LookUp, CheckApp, TypeOK, Payloads
    <3> QED
      BY <1>1, <2>2, <3>1 DEF CheckCert, LookUp, CheckApp
  <2>3. CASE Restore(t)
    BY <1>1, <2>3 DEF Restore, TypeOK
  <2>4. CASE RestoreCert(t) \/ RestoreKey(t) \/ RestoreApp(t) \/ RestoreEnds(t)
    BY <1>1, <2>4 DEF RestoreCert, RestoreKey, RestoreApp, RestoreEnds
  <2> QED
    BY <1>8, <2>1, <2>2, <2>3, <2>4 DEF RestoreNext
<1>9. CASE Fail(t)
  <2>1. file'.routes \subseteq file.routes /\ load'[t].routes = {}
    BY <1>9 DEF Fail, Nothing, TypeOK
  <2> QED
    BY <1>1, <1>9, <2>1 DEF Fail
<1> QED
  BY <1>3, <1>4, <1>5, <1>6, <1>7, <1>8, <1>9 DEF StepOf

\* A route's id is drawn once, when its command starts.
LEMMA Drawing ==
  ASSUME TypeOK, NEW t \in Clients, At(t), StepOf(t), Draws(t)'
  PROVE  \/ Draws(t) /\ newId'[t] = newId[t] /\ pc'[t] = "route"
         \/ newId'[t] = next /\ next' = next + 1
<1>1. CASE RouteAdd(t)
  BY <1>1 DEF RouteAdd, Takes, TypeOK
<1>2. CASE RouteApp(t)
  BY <1>2, Control DEF RouteApp, Draws
<1>3. CASE ~RouteAdd(t) /\ ~RouteApp(t)
  <2>1. pc'[t] \notin {"app", "route"}
    <3> USE <1>3, Control DEF InsertKey, At
    <3>1. CASE ImportNext(t)
      <4>1. ASSUME NEW f \in Fps, Import(t, f) PROVE pc'[t] \in {"key", "idle"}
        BY <4>1 DEF Import
      <4>2. CASE ImportKey(t) \/ Audit(t)
        BY <4>2 DEF ImportKey, Audit
      <4> QED
        BY <3>1, <4>1, <4>2 DEF ImportNext
    <3>2. CASE RemoveNext(t)
      BY <3>2 DEF RemoveNext, Remove, Delete
    <3>3. CASE RouteNext(t)
      <4>1. ASSUME NEW e \in Exes, AppAdd(t, e) PROVE pc'[t] = "idle"
        BY <4>1 DEF AppAdd
      <4>2. CASE RouteInsert(t) \/ RouteRemove(t)
        BY <4>2 DEF RouteInsert, RouteRemove
      <4> QED
        BY <3>3, <4>1, <4>2 DEF RouteNext
    <3>4. CASE BackupNext(t)
      BY <3>4 DEF BackupNext, Backup, BackupApps, BackupRoutes, EmptyFile, WriteFile
    <3>5. CASE RestoreNext(t)
      BY <3>5 DEF RestoreNext, Restore, CheckCert, LookUp, RestoreCert, RestoreKey, CheckApp,
                  RestoreApp, RestoreRoute, RestoreEnds
    <3>6. CASE Fail(t)
      BY <3>6 DEF Fail
    <3> QED
      BY <3>1, <3>2, <3>3, <3>4, <3>5, <3>6 DEF StepOf
  <2> QED
    BY <2>1 DEF Draws
<1> QED
  BY <1>1, <1>2, <1>3

LEMMA KnownIds ==
  ASSUME TypeOK
  PROVE  /\ \A c \in KnownCerts : c.id \in Nat
         /\ \A a \in KnownApps : a.id \in Nat
         /\ \A r \in KnownRoutes : r.id \in Nat
<1>1. certs \cup file.certs \subseteq CertRows /\ \A t \in Clients : load[t].certs \subseteq CertRows
  BY DEF TypeOK, Payloads
<1>2. apps \cup file.apps \subseteq AppRows /\ \A t \in Clients : load[t].apps \subseteq AppRows
  BY DEF TypeOK, Payloads
<1>3. /\ routes \cup file.routes \subseteq RouteRows
      /\ \A t \in Clients : load[t].routes \subseteq RouteRows
  BY DEF TypeOK, Payloads
<1>4. \A c \in CertRows : c.id \in Nat
  BY DEF CertRows
<1>5. \A a \in AppRows : a.id \in Nat
  BY DEF AppRows
<1>6. \A r \in RouteRows : r.id \in Nat
  BY DEF RouteRows
<1>7. \A t \in Clients : cert[t].id \in Nat /\ app[t].id \in Nat
  BY <1>4, <1>5 DEF TypeOK
<1> QED
  BY <1>1, <1>2, <1>3, <1>4, <1>5, <1>6, <1>7
  DEF KnownCerts, KnownApps, KnownRoutes, CertsOf, AppsOf

\* A set of rows with distinct ids, one more row with an id of its own.
LEMMA OneMore ==
  ASSUME NEW S, NEW T, NEW row, OneRowEach(S), T \subseteq S \cup {row},
         row.id \in {r.id : r \in S} => row \in S
  PROVE  OneRowEach(T)
BY DEF OneRowEach

\* Certificates and applications: the new row has an id that no row had.
LEMMA RowsStep ==
  ASSUME TypeOK, IdsInv, NEW t \in Clients, StepOf(t)
  PROVE  /\ OneRowEach(KnownCerts') /\ Given(KnownCerts)'
         /\ OneRowEach(KnownApps') /\ Given(KnownApps)'
<1>1. next \in Nat /\ next' \in Nat /\ next <= next'
  BY NextGrows DEF StepOf, Next
<1>2. Frame(t)
  BY FrameStep
<1>3. /\ \A c \in KnownCerts : c.id \in Nat /\ c.id < next /\ c.id < next'
      /\ \A a \in KnownApps : a.id \in Nat /\ a.id < next /\ a.id < next'
  BY <1>1, KnownIds DEF IdsInv, Given
<1>4. OneRowEach(KnownCerts') /\ Given(KnownCerts)'
  <2>1. CASE KnownCerts' \subseteq KnownCerts
    BY <1>3, <2>1 DEF IdsInv, OneRowEach, Given
  <2>2. ASSUME NEW row, row.id = next, next' = next + 1, KnownCerts' \subseteq KnownCerts \cup {row}
        PROVE  OneRowEach(KnownCerts') /\ Given(KnownCerts)'
    <3>1. OneRowEach(KnownCerts')
      BY <1>1, <1>3, <2>2, OneMore DEF IdsInv
    <3>2. row.id < next'
      BY <1>1, <2>2
    <3> QED
      BY <1>3, <2>2, <3>1, <3>2 DEF Given
  <2>3. KnownCerts' \subseteq KnownCerts \/
        \E row : row.id = next /\ next' = next + 1 /\ KnownCerts' \subseteq KnownCerts \cup {row}
    <3>1. CASE certs' \cup file'.certs \cup CertsOf(t)' \subseteq KnownCerts \cup {}
      BY <1>2, <3>1, KnownStep
    <3>2. ASSUME NEW row, certs' \cup file'.certs \cup CertsOf(t)' \subseteq KnownCerts \cup {row}
          PROVE  KnownCerts' \subseteq KnownCerts \cup {row}
      BY <1>2, <3>2, KnownStep
    <3> QED
      BY <3>1, <3>2, CertsKnown
  <2> QED
    BY <2>1, <2>2, <2>3
<1>5. OneRowEach(KnownApps') /\ Given(KnownApps)'
  <2>1. CASE KnownApps' \subseteq KnownApps
    BY <1>3, <2>1 DEF IdsInv, OneRowEach, Given
  <2>2. ASSUME NEW row, row.id = next, next' = next + 1, KnownApps' \subseteq KnownApps \cup {row}
        PROVE  OneRowEach(KnownApps') /\ Given(KnownApps)'
    <3>1. OneRowEach(KnownApps')
      BY <1>1, <1>3, <2>2, OneMore DEF IdsInv
    <3>2. row.id < next'
      BY <1>1, <2>2
    <3> QED
      BY <1>3, <2>2, <3>1, <3>2 DEF Given
  <2>3. KnownApps' \subseteq KnownApps \/
        \E row : row.id = next /\ next' = next + 1 /\ KnownApps' \subseteq KnownApps \cup {row}
    <3>1. CASE apps' \cup file'.apps \cup AppsOf(t)' \subseteq KnownApps \cup {}
      BY <1>2, <3>1, KnownStep
    <3>2. ASSUME NEW row, apps' \cup file'.apps \cup AppsOf(t)' \subseteq KnownApps \cup {row}
          PROVE  KnownApps' \subseteq KnownApps \cup {row}
      BY <1>2, <3>2, KnownStep
    <3> QED
      BY <3>1, <3>2, AppsKnown
  <2> QED
    BY <2>1, <2>2, <2>3
<1> QED
  BY <1>4, <1>5

\* Routes: the new row has the id that only its command had drawn.
LEMMA RoutesStep ==
  ASSUME TypeOK, StepOfOp, IdsInv, NEW t \in Clients, StepOf(t)
  PROVE  /\ OneRowEach(KnownRoutes') /\ Given(KnownRoutes)'
         /\ \A u \in Clients : DrawnFor(u)'
         /\ \A u, v \in Clients : Draws(u)' /\ Draws(v)' /\ newId'[u] = newId'[v] => u = v
<1>1. next \in Nat /\ next' \in Nat /\ next <= next'
  BY NextGrows DEF StepOf, Next
<1>2. Frame(t) /\ At(t)
  BY FrameStep DEF StepOfOp
<1>3. \A r \in KnownRoutes : r.id \in Nat /\ r.id < next /\ r.id < next'
  BY <1>1, KnownIds DEF IdsInv, Given
<1>4. \A u \in Clients : newId[u] \in Nat /\ DrawnFor(u)
  BY DEF IdsInv, TypeOK
<1>5. \/ KnownRoutes' \subseteq KnownRoutes
      \/ /\ pc[t] = "route" /\ pc'[t] = "idle"
         /\ \E row : row.id = newId[t] /\ KnownRoutes' \subseteq KnownRoutes \cup {row}
  <2>1. CASE routes' \cup file'.routes \cup load'[t].routes \subseteq KnownRoutes \cup {}
    BY <1>2, <2>1, KnownStep
  <2>2. ASSUME NEW row, routes' \cup file'.routes \cup load'[t].routes \subseteq KnownRoutes \cup {row}
        PROVE  KnownRoutes' \subseteq KnownRoutes \cup {row}
    BY <1>2, <2>2, KnownStep
  <2> QED
    BY <2>1, <2>2, RoutesKnown
<1>6. OneRowEach(KnownRoutes') /\ Given(KnownRoutes)'
  <2>1. CASE KnownRoutes' \subseteq KnownRoutes
    BY <1>3, <2>1 DEF IdsInv, OneRowEach, Given
  <2>2. ASSUME NEW row, pc[t] = "route", row.id = newId[t],
               KnownRoutes' \subseteq KnownRoutes \cup {row}
        PROVE  OneRowEach(KnownRoutes') /\ Given(KnownRoutes)'
    <3>1. newId[t] < next /\ \A r \in KnownRoutes : r.id # newId[t]
      BY <1>4, <2>2 DEF DrawnFor, Draws
    <3>2. OneRowEach(KnownRoutes')
      BY <2>2, <3>1, OneMore DEF IdsInv
    <3>3. row.id < next'
      BY <1>1, <1>4, <2>2, <3>1
    <3> QED
      BY <1>3, <2>2, <3>2, <3>3 DEF Given
  <2> QED
    BY <1>5, <2>1, <2>2
<1>7. ASSUME NEW u \in Clients, Draws(u)'
      PROVE  \/ Draws(u) /\ newId'[u] = newId[u] /\ (pc[t] = "route" /\ pc'[t] = "idle" => u # t)
             \/ u = t /\ newId'[u] = next /\ next' = next + 1 /\ pc'[t] # "idle"
  <2>1. CASE u = t
    BY <1>2, <1>7, <2>1, Drawing DEF Draws
  <2>2. CASE u # t
    BY <1>2, <1>7, <2>2 DEF Frame, Draws
  <2> QED
    BY <2>1, <2>2
<1>8. ASSUME NEW u \in Clients, Draws(u)'
      PROVE  newId'[u] < next' /\ \A r \in KnownRoutes' : r.id # newId'[u]
  <2>1. CASE Draws(u) /\ newId'[u] = newId[u] /\ (pc[t] = "route" /\ pc'[t] = "idle" => u # t)
    <3>1. newId[u] < next /\ \A r \in KnownRoutes : r.id # newId[u]
      BY <1>4, <2>1 DEF DrawnFor
    <3>2. newId'[u] < next'
      BY <1>1, <1>4, <2>1, <3>1
    <3>3. ASSUME NEW row, pc[t] = "route", pc'[t] = "idle", row.id = newId[t] PROVE row.id # newId[u]
      BY <2>1, <3>3 DEF IdsInv, Draws
    <3> QED
      BY <1>5, <2>1, <3>1, <3>2, <3>3
  <2>2. CASE u = t /\ newId'[u] = next /\ next' = next + 1 /\ pc'[t] # "idle"
    <3>1. \A r \in KnownRoutes' : r.id < next
      BY <1>3, <1>5, <2>2
    <3>2. \A r \in KnownRoutes' : r.id \in Nat
      BY <1>3, <1>5, <2>2
    <3> QED
      BY <1>1, <2>2, <3>1, <3>2
  <2> QED
    BY <1>7, <1>8, <2>1, <2>2
<1>9. ASSUME NEW u \in Clients, NEW v \in Clients, Draws(u)', Draws(v)', newId'[u] = newId'[v]
      PROVE  u = v
  <2>1. \A w \in Clients : Draws(w) => newId[w] # next
    BY <1>1, <1>4 DEF DrawnFor
  <2> QED
    BY <1>7, <1>9, <2>1 DEF IdsInv
<1> QED
  BY <1>6, <1>8, <1>9 DEF DrawnFor

LEMMA IdsStep == SInv /\ IdsInv /\ [Next]_vars => IdsInv'
<1> SUFFICES ASSUME TypeOK, StepOfOp, IdsInv, [Next]_vars PROVE IdsInv'
  BY DEF SInv
<1>1. ASSUME NEW t \in Clients, StepOf(t) PROVE IdsInv'
  <2>1. /\ OneRowEach(KnownCerts') /\ Given(KnownCerts)'
        /\ OneRowEach(KnownApps') /\ Given(KnownApps)'
    BY <1>1, RowsStep
  <2>2. /\ OneRowEach(KnownRoutes') /\ Given(KnownRoutes)'
        /\ \A u \in Clients : DrawnFor(u)'
        /\ \A u, v \in Clients : Draws(u)' /\ Draws(v)' /\ newId'[u] = newId'[v] => u = v
    BY <1>1, RoutesStep
  <2> QED
    BY <2>1, <2>2 DEF IdsInv, OneRowEach
<1>2. CASE Wipe
  <2>1. /\ KnownCerts' \subseteq KnownCerts /\ KnownApps' \subseteq KnownApps
        /\ KnownRoutes' \subseteq KnownRoutes /\ next' = next /\ pc' = pc /\ newId' = newId
    BY <1>2 DEF Wipe, KnownCerts, KnownApps, KnownRoutes, CertsOf, AppsOf
  <2> QED
    BY <2>1 DEF IdsInv, OneRowEach, Given, DrawnFor, Draws
<1>3. CASE UNCHANGED vars
  <2>1. /\ KnownCerts' = KnownCerts /\ KnownApps' = KnownApps
        /\ KnownRoutes' = KnownRoutes /\ next' = next /\ pc' = pc /\ newId' = newId
    BY <1>3 DEF vars, KnownCerts, KnownApps, KnownRoutes, CertsOf, AppsOf
  <2> QED
    BY <2>1 DEF IdsInv, OneRowEach, Given, DrawnFor, Draws
<1> QED
  BY <1>1, <1>2, <1>3 DEF Next, StepOf

LEMMA InitIds == Init => IdsInv
<1> SUFFICES ASSUME Init PROVE IdsInv
  OBVIOUS
<1>1. KnownCerts = {} /\ KnownApps = {} /\ KnownRoutes = {}
  BY DEF Init, Nothing, KnownCerts, KnownApps, KnownRoutes, CertsOf, AppsOf
<1>2. \A t \in Clients : ~Draws(t)
  BY DEF Init, Draws
<1> QED
  BY <1>1, <1>2 DEF IdsInv, OneRowEach, Given, DrawnFor

LEMMA IdsInvGood == IdsInv => IdsAreForGood
<1> SUFFICES ASSUME IdsInv PROVE IdsAreForGood
  OBVIOUS
<1>1. /\ \A c, d \in KnownCerts : c.id = d.id => c = d
      /\ \A a, b \in KnownApps : a.id = b.id => a = b
      /\ \A q, r \in KnownRoutes : q.id = r.id => q = r
  BY DEF IdsInv, OneRowEach
<1>2. /\ certs \cup file.certs \subseteq KnownCerts
      /\ apps \cup file.apps \subseteq KnownApps
      /\ routes \cup file.routes \subseteq KnownRoutes
      /\ \A t \in Clients : pc[t] \in {"key", "newKey"} => cert[t] \in KnownCerts
  BY DEF KnownCerts, KnownApps, KnownRoutes, CertsOf
<1> QED
  BY <1>1, <1>2 DEF IdsAreForGood

\* Every row that the store, the backup or a command holds has an id of its own, of
\* those handed out, and so will every route that is being added.
THEOREM IdsInvHolds == Spec => [](SInv /\ IdsInv)
BY InitInv, InitIds, NextInv, IdsStep, PTL DEF Spec

\* An id stands for one row for good, whatever commands add, remove, back up and
\* restore at once: what refers to a row by its id never gets another one.
THEOREM IdsStand == Spec => []IdsAreForGood
BY IdsInvGood, IdsInvHolds, PTL
==============================================================================
