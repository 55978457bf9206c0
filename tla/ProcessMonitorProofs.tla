------------------------ MODULE ProcessMonitorProofs ------------------------
(***************************************************************************)
(* That the cache of process identities never mixes up two processes that  *)
(* had one PID, for any number of threads, PIDs, binaries and clock ticks. *)
(*                                                                         *)
(* The inductive invariant says what the order of the reads buys: a start  *)
(* time that a resolver or an entry holds is never later than that of the  *)
(* process the PID has now, and where it is the same, and the process is   *)
(* alive, the binary that goes with it is one that this process ran, in no *)
(* older version than it ran: versions on disk only go up.                 *)
(***************************************************************************)
EXTENDS ProcessMonitor, TLAPS

StartsArePast ==
  \A p \in Pids :
    /\ proc[p].start <= clock
    /\ proc[p].alive => 1 <= proc[p].start /\ <<p, proc[p].start, proc[p].exe, proc[p].image>> \in ran

CacheIsPast == \A p \in Pids : cache[p].start <= proc[p].start

\* Resolvers whose start belongs to their pid, and those whose exe does too.
Timed(t) == pc[t] \in {"look", "exe", "hash", "insert"} \/ result[t] \in {"hit", "fresh"}
Named(t) == pc[t] \in {"hash", "insert"} \/ result[t] \in {"hit", "fresh"}

\* The version a resolver has hashed, or the one it would now.
HashedAs(t) == IF pc[t] = "hash" THEN disk[exe[t]] ELSE hash[t]

ResolverIsPast ==
  \A t \in Resolvers :
    /\ pc[t] # "idle" => result[t] = "none"
    /\ Timed(t) => start[t] <= proc[pid[t]].start
    /\ Named(t) /\ proc[pid[t]].alive /\ start[t] = proc[pid[t]].start =>
         Ran(pid[t], start[t], exe[t], HashedAs(t))

MInv == /\ TypeOK /\ StartsArePast /\ CacheIsPast
        /\ CacheIsOfLiveProcess /\ ResolverIsPast

USE BoundsAssumption DEF Times, Versions, NoEntry, Entries

-----------------------------------------------------------------------------
(* Initially *)

LEMMA InitInv == Init => MInv
<1> SUFFICES ASSUME Init PROVE MInv
  OBVIOUS
<1>1. TypeOK
  BY DEF Init, TypeOK
<1>2. StartsArePast /\ CacheIsPast /\ CacheIsOfLiveProcess
  BY DEF Init, StartsArePast, CacheIsPast, CacheIsOfLiveProcess
<1>3. ResolverIsPast
  BY DEF Init, ResolverIsPast, Timed, Named
<1> QED
  BY <1>1, <1>2, <1>3 DEF MInv

-----------------------------------------------------------------------------
(* Types *)

LEMMA OsType == TypeOK /\ OsNext => TypeOK'
<1> SUFFICES ASSUME TypeOK, OsNext PROVE TypeOK'
  OBVIOUS
<1>1. ASSUME NEW p \in Pids, NEW e \in Exes, Spawn(p, e) PROVE TypeOK'
  BY <1>1 DEF Spawn, TypeOK, locals
<1>2. ASSUME NEW p \in Pids, NEW e \in Exes, Exec(p, e) PROVE TypeOK'
  BY <1>2 DEF Exec, TypeOK, locals
<1>3. ASSUME NEW p \in Pids, NEW i \in Ips, Dial(p, i) PROVE TypeOK'
  BY <1>3 DEF Dial, TypeOK, locals
<1>4. ASSUME NEW p \in Pids, Exit(p) PROVE TypeOK'
  BY <1>4 DEF Exit, TypeOK, locals
<1> QED
  BY <1>1, <1>2, <1>3, <1>4 DEF OsNext

LEMMA ReplaceType == \A e \in Exes : TypeOK /\ Replace(e) => TypeOK'
BY DEF Replace, TypeOK, locals

LEMMA ResolverType ==
  ASSUME TypeOK, NEW t \in Resolvers, ResolverNext(t)
  PROVE  TypeOK'
<1>1. ASSUME NEW p \in Pids, Call(t, p) PROVE TypeOK'
  BY <1>1 DEF Call, TypeOK, os
<1>2. ASSUME NEW p \in Pids, GetConnections(t, p) PROVE TypeOK'
  BY <1>2 DEF GetConnections, TypeOK, os
<1>3. CASE ReadStat(t)
  BY <1>3 DEF ReadStat, TypeOK, os
<1>4. CASE CacheHit(t)
  <2>1. cache[pid[t]].exe \in Exes /\ cache[pid[t]].hash \in Versions
    BY <1>4 DEF CacheHit, TypeOK
  <2> QED
    BY <1>4, <2>1 DEF CacheHit, Returns, TypeOK, os
<1>5. CASE CacheMiss(t)
  BY <1>5 DEF CacheMiss, TypeOK, os, locals
<1>6. CASE ReadExe(t)
  BY <1>6 DEF ReadExe, TypeOK, os
<1>7. CASE HashFile(t)
  BY <1>7 DEF HashFile, TypeOK, os
<1>8. CASE Insert(t)
  BY <1>8 DEF Insert, Returns, TypeOK, os, locals
<1>9. CASE ReadFails(t)
  BY <1>9 DEF ReadFails, Returns, TypeOK, os, locals
<1> QED
  BY <1>1, <1>2, <1>3, <1>4, <1>5, <1>6, <1>7, <1>8, <1>9 DEF ResolverNext

-----------------------------------------------------------------------------
(* The operating system's steps: time only goes forward *)

\* A new process is later than every time anyone holds.
LEMMA SpawnStep ==
  ASSUME MInv, NEW p \in Pids, NEW e \in Exes, Spawn(p, e)
  PROVE  StartsArePast' /\ CacheIsPast' /\ CacheIsOfLiveProcess' /\ ResolverIsPast'
<1> USE DEF MInv, Spawn, locals
<1>1. clock' = clock + 1 /\ clock \in Nat
  BY DEF TypeOK
<1>2. /\ proc' \in [Pids -> [alive : BOOLEAN, start : Times, exe : Exes, image : Versions]]
      /\ proc'[p].start = clock' /\ proc'[p].exe = e /\ proc'[p].image = disk[e]
      /\ \A q \in Pids \ {p} : proc'[q] = proc[q]
  BY OsType DEF TypeOK, OsNext
<1>3. StartsArePast'
  BY <1>1, <1>2 DEF StartsArePast, TypeOK
<1>4. \A q \in Pids : cache[q].start \in Nat /\ proc[q].start \in Nat
  BY DEF TypeOK
<1>5. \A q \in Pids : proc[q].start < clock'
  <2>1. \A q \in Pids : proc[q].start <= clock
    BY DEF StartsArePast
  <2> QED
    BY <1>1, <1>4, <2>1
<1>6. CacheIsPast' /\ cache[p].start < clock'
  BY <1>1, <1>2, <1>4, <1>5 DEF CacheIsPast
<1>7. CacheIsOfLiveProcess'
  <2>1. ran \subseteq ran' /\ cache' = cache /\ cache[p].start # clock'
    BY <1>1, <1>4, <1>6
  <2> QED
    BY <1>2, <2>1 DEF CacheIsOfLiveProcess, Ran
<1>8. \A t \in Resolvers : pid[t] \in Pids /\ start[t] \in Nat
  BY DEF TypeOK
<1>9. ResolverIsPast'
  <2>1. \A t \in Resolvers : Timed(t) => start[t] < clock'
    <3>1. ASSUME NEW t \in Resolvers, Timed(t) PROVE start[t] < clock'
      <4>1. start[t] <= proc[pid[t]].start
        BY <3>1 DEF ResolverIsPast
      <4>2. proc[pid[t]].start < clock' /\ proc[pid[t]].start \in Nat
        BY <1>4, <1>5, <1>8
      <4> QED
        BY <1>1, <1>8, <4>1, <4>2
    <3> QED
      BY <3>1
  <2>2. \A t \in Resolvers : (Timed(t)' <=> Timed(t)) /\ (Named(t)' <=> Named(t))
    BY DEF Timed, Named
  <2>3. \A t \in Resolvers : Named(t) => Timed(t)
    BY DEF Timed, Named
  <2>4. ASSUME NEW t \in Resolvers, pid[t] = p
        PROVE  /\ Timed(t) => start[t] < proc'[pid[t]].start
               /\ Named(t) => start[t] # proc'[pid[t]].start
    BY <1>1, <1>2, <1>8, <2>1, <2>3, <2>4
  <2>5. ran \subseteq ran' /\ UNCHANGED <<disk, pid, start, exe, hash, pc, result>>
    OBVIOUS
  <2>6. \A t \in Resolvers :
          Ran(pid[t], start[t], exe[t], HashedAs(t)) => Ran(pid[t], start[t], exe[t], HashedAs(t))'
    BY <2>5 DEF Ran, HashedAs
  <2>7. ASSUME NEW t \in Resolvers
        PROVE  /\ pc'[t] # "idle" => result'[t] = "none"
               /\ Timed(t)' => start'[t] <= proc'[pid'[t]].start
               /\ Named(t)' /\ proc'[pid'[t]].alive /\ start'[t] = proc'[pid'[t]].start =>
                    Ran(pid[t], start[t], exe[t], HashedAs(t))'
    <3>1. CASE pid[t] = p
      BY <1>1, <1>2, <1>8, <2>2, <2>4, <2>5, <3>1 DEF ResolverIsPast
    <3>2. CASE pid[t] # p
      <4>1. proc'[pid'[t]] = proc[pid[t]]
        BY <1>2, <1>8, <2>5, <3>2
      <4> QED
        BY <2>2, <2>5, <2>6, <4>1 DEF ResolverIsPast
    <3> QED
      BY <3>1, <3>2
  <2> QED
    BY <2>7 DEF ResolverIsPast
<1> QED
  BY <1>3, <1>6, <1>7, <1>9

\* The other steps leave every start time as it is and forget nothing that ran.
LEMMA SameStartsStep ==
  ASSUME MInv, clock' = clock, ran \subseteq ran',
         UNCHANGED <<cache, pc, locals, result>>,
         \A p \in Pids : proc'[p].start = proc[p].start /\ (proc'[p].alive => proc[p].alive),
         \A p \in Pids : proc'[p].alive =>
           <<p, proc'[p].start, proc'[p].exe, proc'[p].image>> \in ran',
         disk' \in [Exes -> Versions], \A e \in Exes : disk[e] <= disk'[e]
  PROVE  StartsArePast' /\ CacheIsPast' /\ CacheIsOfLiveProcess' /\ ResolverIsPast'
<1> USE DEF MInv, locals
<1>1. StartsArePast'
  BY DEF StartsArePast
<1>2. CacheIsPast' /\ CacheIsOfLiveProcess'
  BY DEF CacheIsPast, CacheIsOfLiveProcess, Ran
<1>3. \A t \in Resolvers : pid[t] \in Pids /\ exe[t] \in Exes
  BY DEF TypeOK
<1>4. ASSUME NEW t \in Resolvers, Ran(pid[t], start[t], exe[t], HashedAs(t))
      PROVE  Ran(pid[t], start[t], exe[t], HashedAs(t))'
  <2>1. /\ HashedAs(t) \in Nat /\ HashedAs(t)' \in Nat /\ HashedAs(t) <= HashedAs(t)'
    BY <1>3 DEF HashedAs, TypeOK
  <2>2. \A w \in 0..HashedAs(t) : w \in 0..(HashedAs(t)')
    BY <2>1
  <2> QED
    BY <1>4, <2>2 DEF Ran
<1>5. ResolverIsPast'
  BY <1>3, <1>4 DEF ResolverIsPast, Timed, Named
<1> QED
  BY <1>1, <1>2, <1>5

LEMMA OsStep == MInv /\ OsNext => MInv'
<1> SUFFICES ASSUME MInv, OsNext PROVE MInv'
  OBVIOUS
<1>1. TypeOK /\ TypeOK'
  BY OsType DEF MInv
<1>0. disk' \in [Exes -> Versions] /\ \A e \in Exes : disk[e] <= disk'[e]
  <2>1. disk' = disk
    BY DEF OsNext, Spawn, Exec, Dial, Exit
  <2> QED
    BY <1>1, <2>1 DEF TypeOK
<1>2. ASSUME NEW p \in Pids, NEW e \in Exes, Spawn(p, e) PROVE MInv'
  BY <1>1, <1>2, SpawnStep DEF MInv
<1>3. ASSUME NEW p \in Pids, NEW e \in Exes, Exec(p, e) PROVE MInv'
  <2>1. /\ proc'[p].start = proc[p].start /\ proc'[p].exe = e /\ proc[p].alive
        /\ \A q \in Pids \ {p} : proc'[q] = proc[q]
        /\ proc'[p].image = disk[e]
        /\ ran' = ran \cup {<<p, proc[p].start, e, disk[e]>>}
    BY <1>1, <1>3 DEF Exec, TypeOK
  <2>2. \A q \in Pids :
          proc'[q].alive => <<q, proc'[q].start, proc'[q].exe, proc'[q].image>> \in ran'
    BY <2>1 DEF MInv, StartsArePast
  <2> QED
    BY <1>0, <1>1, <1>3, <2>1, <2>2, SameStartsStep DEF MInv, Exec
<1>4. ASSUME NEW p \in Pids, NEW i \in Ips, Dial(p, i) PROVE MInv'
  <2>1. \A q \in Pids : proc[q].alive => <<q, proc[q].start, proc[q].exe, proc[q].image>> \in ran
    BY DEF MInv, StartsArePast
  <2> QED
    BY <1>0, <1>1, <1>4, <2>1, SameStartsStep DEF MInv, Dial
<1>5. ASSUME NEW p \in Pids, Exit(p) PROVE MInv'
  <2>1. /\ proc'[p].start = proc[p].start /\ ~proc'[p].alive
        /\ \A q \in Pids \ {p} : proc'[q] = proc[q]
    BY <1>1, <1>5 DEF Exit, TypeOK
  <2>2. \A q \in Pids :
          proc'[q].alive => <<q, proc'[q].start, proc'[q].exe, proc'[q].image>> \in ran
    BY <2>1 DEF MInv, StartsArePast
  <2> QED
    BY <1>0, <1>1, <1>5, <2>1, <2>2, SameStartsStep DEF MInv, Exit
<1> QED
  BY <1>2, <1>3, <1>4, <1>5 DEF OsNext

LEMMA ReplaceStep == \A e \in Exes : MInv /\ Replace(e) => MInv'
<1> SUFFICES ASSUME MInv, NEW e \in Exes, Replace(e) PROVE MInv'
  OBVIOUS
<1>1. \A p \in Pids : proc[p].alive => <<p, proc[p].start, proc[p].exe, proc[p].image>> \in ran
  BY DEF MInv, StartsArePast
<1>2. disk' \in [Exes -> Versions] /\ \A f \in Exes : disk[f] <= disk'[f]
  BY DEF MInv, TypeOK, Replace
<1> QED
  BY <1>1, <1>2, ReplaceType, SameStartsStep DEF MInv, Replace

-----------------------------------------------------------------------------
(* The resolvers' steps *)

\* A step of one resolver that leaves the cache alone has to be looked at for that
\* resolver only.
LEMMA OwnStep ==
  ASSUME MInv, NEW t \in Resolvers, ResolverNext(t), UNCHANGED <<os, cache>>,
         \A u \in Resolvers \ {t} :
           pc'[u] = pc[u] /\ pid'[u] = pid[u] /\ start'[u] = start[u] /\ exe'[u] = exe[u]
           /\ hash'[u] = hash[u] /\ result'[u] = result[u],
         pc'[t] # "idle" => result'[t] = "none",
         Timed(t)' => start'[t] <= proc[pid'[t]].start,
         Named(t)' /\ proc[pid'[t]].alive /\ start'[t] = proc[pid'[t]].start =>
           Ran(pid'[t], start'[t], exe'[t], HashedAs(t)')
  PROVE  MInv'
<1>1. TypeOK'
  BY ResolverType DEF MInv
<1>2. StartsArePast' /\ CacheIsPast' /\ CacheIsOfLiveProcess'
  BY DEF MInv, os, StartsArePast, CacheIsPast, CacheIsOfLiveProcess, Ran
<1>3. ASSUME NEW u \in Resolvers
      PROVE  /\ pc'[u] # "idle" => result'[u] = "none"
             /\ Timed(u)' => start'[u] <= proc'[pid'[u]].start
             /\ Named(u)' /\ proc'[pid'[u]].alive /\ start'[u] = proc'[pid'[u]].start =>
                  Ran(pid[u], start[u], exe[u], HashedAs(u))'
  <2>1. CASE u = t
    BY <2>1 DEF os, Ran
  <2>2. CASE u # t
    BY <2>2 DEF MInv, os, ResolverIsPast, Timed, Named, HashedAs, Ran
  <2> QED
    BY <2>1, <2>2
<1> QED
  BY <1>1, <1>2, <1>3 DEF MInv, ResolverIsPast

LEMMA ResolverStep ==
  ASSUME MInv, NEW t \in Resolvers, ResolverNext(t)
  PROVE  MInv'
<1>1. TypeOK
  BY DEF MInv
<1>2. pid[t] \in Pids
  BY <1>1 DEF TypeOK
<1>3. /\ pc[t] # "idle" => result[t] = "none"
      /\ Timed(t) => start[t] <= proc[pid[t]].start
      /\ Named(t) /\ proc[pid[t]].alive /\ start[t] = proc[pid[t]].start =>
           Ran(pid[t], start[t], exe[t], HashedAs(t))
  BY DEF MInv, ResolverIsPast
<1>4. ASSUME NEW p \in Pids, Call(t, p) PROVE MInv'
  BY <1>1, <1>4, OwnStep DEF Call, TypeOK, Timed, Named
<1>5. ASSUME NEW p \in Pids, GetConnections(t, p) PROVE MInv'
  BY <1>1, <1>5, OwnStep DEF GetConnections, TypeOK, Timed, Named
<1>6. CASE ReadStat(t)
  <2>1. /\ pc[t] = "stat" /\ pc'[t] = "look" /\ start'[t] = proc[pid[t]].start
        /\ UNCHANGED <<os, cache, pid, exe, hash, result>>
        /\ \A u \in Resolvers \ {t} : pc'[u] = pc[u] /\ start'[u] = start[u]
    BY <1>1, <1>6 DEF ReadStat, TypeOK
  <2>2. start'[t] <= proc[pid[t]].start
    <3>1. proc[pid[t]].start \in Nat
      BY <1>1, <1>2 DEF TypeOK
    <3> QED
      BY <2>1, <3>1
  <2>3. result'[t] = "none"
    BY <1>3, <2>1
  <2> QED
    BY <2>1, <2>2, <2>3, OwnStep DEF Named
<1>7. CASE CacheHit(t)
  <2>1. /\ pc'[t] = "idle" /\ exe'[t] = cache[pid[t]].exe /\ hash'[t] = cache[pid[t]].hash
        /\ cache[pid[t]].start = start[t] /\ pc[t] = "look"
        /\ UNCHANGED <<os, cache, pid, start>>
        /\ \A u \in Resolvers \ {t} :
             /\ pc'[u] = pc[u] /\ exe'[u] = exe[u] /\ hash'[u] = hash[u]
             /\ result'[u] = result[u]
    BY <1>1, <1>7 DEF CacheHit, Returns, TypeOK
  <2>2. proc[pid[t]].alive /\ start[t] = proc[pid[t]].start =>
          Ran(pid[t], start[t], exe'[t], hash'[t])
    BY <1>2, <2>1 DEF MInv, CacheIsOfLiveProcess
  <2>3. start[t] <= proc[pid[t]].start
    BY <1>3, <2>1 DEF Timed
  <2> QED
    BY <2>1, <2>2, <2>3, OwnStep DEF HashedAs
<1>8. CASE CacheMiss(t)
  BY <1>1, <1>3, <1>8, OwnStep DEF CacheMiss, TypeOK, Timed, Named, locals
<1>9. CASE ReadExe(t)
  <2>1. /\ pc[t] = "exe" /\ pc'[t] = "hash" /\ exe'[t] = proc[pid[t]].exe
        /\ proc[pid[t]].alive /\ proc[pid[t]].image = disk'[exe'[t]]
        /\ UNCHANGED <<os, cache, pid, start, hash, result>>
        /\ \A u \in Resolvers \ {t} : pc'[u] = pc[u] /\ exe'[u] = exe[u]
    BY <1>1, <1>9 DEF ReadExe, TypeOK, os
  <2>2. start[t] = proc[pid[t]].start => Ran(pid[t], start[t], exe'[t], HashedAs(t)')
    <3>1. HashedAs(t)' = proc[pid[t]].image /\ proc[pid[t]].image \in Nat
      BY <1>1, <1>2, <2>1 DEF HashedAs, TypeOK
    <3>2. <<pid[t], proc[pid[t]].start, exe'[t], proc[pid[t]].image>> \in ran
      BY <1>2, <2>1 DEF MInv, StartsArePast
    <3>3. proc[pid[t]].image \in 0..(HashedAs(t)')
      BY <3>1
    <3> QED
      BY <3>2, <3>3 DEF Ran
  <2>3. start[t] <= proc[pid[t]].start /\ result[t] = "none"
    BY <1>3, <2>1 DEF Timed
  <2> QED
    BY <2>1, <2>2, <2>3, OwnStep
<1>10. CASE HashFile(t)
  <2>1. HashedAs(t)' = HashedAs(t)
    BY <1>1, <1>10 DEF HashFile, HashedAs, TypeOK
  <2> QED
    BY <1>1, <1>3, <1>10, <2>1, OwnStep DEF HashFile, TypeOK, Timed, Named
<1>11. CASE Insert(t)
  <2>1. /\ pc[t] = "insert" /\ cache'[pid[t]].start = start[t] /\ cache'[pid[t]].exe = exe[t]
        /\ cache'[pid[t]].hash = hash[t]
        /\ \A p \in Pids \ {pid[t]} : cache'[p] = cache[p]
        /\ pc'[t] = "idle" /\ UNCHANGED <<os, locals>>
        /\ \A u \in Resolvers \ {t} : pc'[u] = pc[u] /\ result'[u] = result[u]
    BY <1>1, <1>2, <1>11 DEF Insert, Returns, TypeOK
  <2>2. Timed(t) /\ Named(t)
    BY <2>1 DEF Timed, Named
  <2>3. CacheIsPast' /\ CacheIsOfLiveProcess'
    BY <1>2, <1>3, <2>1, <2>2 DEF MInv, os, CacheIsPast, CacheIsOfLiveProcess, HashedAs, Ran
  <2>4. StartsArePast'
    BY <2>1 DEF MInv, os, StartsArePast
  <2>5. ASSUME NEW u \in Resolvers
        PROVE  /\ pc'[u] # "idle" => result'[u] = "none"
               /\ Timed(u)' => start'[u] <= proc'[pid'[u]].start
               /\ Named(u)' /\ proc'[pid'[u]].alive /\ start'[u] = proc'[pid'[u]].start =>
                    Ran(pid[u], start[u], exe[u], HashedAs(u))'
    <3>1. CASE u = t
      BY <1>3, <2>1, <2>2, <3>1 DEF os, locals, HashedAs, Ran
    <3>2. CASE u # t
      BY <2>1, <3>2 DEF MInv, os, locals, ResolverIsPast, Timed, Named, HashedAs, Ran
    <3> QED
      BY <3>1, <3>2
  <2>6. TypeOK'
    BY <1>1, ResolverType
  <2> QED
    BY <2>3, <2>4, <2>5, <2>6 DEF MInv, ResolverIsPast
<1>12. CASE ReadFails(t)
  BY <1>1, <1>12, OwnStep DEF ReadFails, Returns, TypeOK, Timed, Named, locals
<1> QED
  BY <1>4, <1>5, <1>6, <1>7, <1>8, <1>9, <1>10, <1>11, <1>12 DEF ResolverNext

\* Entries may go at any time.
LEMMA ForgetStep ==
  ASSUME MInv, UNCHANGED <<os, pc, locals, result, conns>>, cache' \in [Pids -> Entries],
         \A p \in Pids : cache'[p] \in {cache[p], NoEntry}
  PROVE  MInv'
<1>1. TypeOK' /\ StartsArePast' /\ ResolverIsPast'
  BY DEF MInv, os, locals, TypeOK, StartsArePast, ResolverIsPast, Timed, Named, HashedAs, Ran
<1>2. \A p \in Pids : proc[p].start \in Nat /\ (proc[p].alive => 1 <= proc[p].start)
  <2>1. \A p \in Pids : proc[p].start \in Nat
    BY DEF MInv, TypeOK
  <2> QED
    BY <2>1 DEF MInv, StartsArePast
<1>3. CacheIsPast' /\ CacheIsOfLiveProcess'
  BY <1>2 DEF MInv, os, CacheIsPast, CacheIsOfLiveProcess, Ran
<1> QED
  BY <1>1, <1>3 DEF MInv

-----------------------------------------------------------------------------
(* The theorems *)

LEMMA NextInv == MInv /\ [Next]_vars => MInv'
<1> SUFFICES ASSUME MInv, [Next]_vars PROVE MInv'
  OBVIOUS
<1>1. CASE OsNext
  BY <1>1, OsStep
<1>2. ASSUME NEW e \in Exes, Replace(e) PROVE MInv'
  BY <1>2, ReplaceStep
<1>3. ASSUME NEW t \in Resolvers, ResolverNext(t) PROVE MInv'
  BY <1>3, ResolverStep
<1>4. ASSUME NEW p \in Pids, Invalidate(p) PROVE MInv'
  BY <1>4, ForgetStep DEF Invalidate, MInv, TypeOK
<1>5. CASE CleanupStale
  BY <1>5, ForgetStep DEF CleanupStale, MInv, TypeOK
<1>6. CASE UNCHANGED vars
  BY <1>6, ForgetStep DEF vars, MInv, TypeOK
<1> QED
  BY <1>1, <1>2, <1>3, <1>4, <1>5, <1>6 DEF Next

\* MInv holds of every reachable state of resolve, cache and operating system.
THEOREM MonitorInvHolds == Spec => []MInv
BY InitInv, NextInv, PTL DEF Spec

\* Every variable of the monitor stays in its set.
THEOREM MonitorTypeCorrect == Spec => []TypeOK
<1>1. MInv => TypeOK
  BY DEF MInv
<1> QED
  BY <1>1, MonitorInvHolds, PTL

\* The entry a live process would be given from the cache names a binary it ran.
THEOREM CacheIsNeverMixed == Spec => []CacheIsOfLiveProcess
<1>1. MInv => CacheIsOfLiveProcess
  BY DEF MInv
<1> QED
  BY <1>1, MonitorInvHolds, PTL

\* So does every answer of resolve about a process that is still there.
THEOREM AnswersAreNeverMixed == Spec => []AnswerIsOfThisProcess
<1>1. MInv => AnswerIsOfThisProcess
  BY DEF MInv, ResolverIsPast, Named, HashedAs, AnswerIsOfThisProcess
<1> QED
  BY <1>1, MonitorInvHolds, PTL
=============================================================================
