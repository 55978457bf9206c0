--------------------------- MODULE ProcessMonitor ---------------------------
(***************************************************************************)
(* coned/src/process_monitor.rs: how coned tells which binary a PID runs,  *)
(* and the cache it keeps of the answers, against an operating system      *)
(* whose processes start, exec, exit and reuse PIDs, and whose binaries    *)
(* are replaced, between any two of its reads of /proc.                    *)
(*                                                                         *)
(* A hash is the number of the version of the file it was taken of.  The   *)
(* cache is guarded by a mutex of its own, taken for one look or one       *)
(* insertion, so several threads may resolve at a time; in coned only the  *)
(* IPC thread does, so it is the instance with one resolver.               *)
(***************************************************************************)
EXTENDS Naturals

CONSTANTS
  Resolvers,    \* threads that call resolve
  Pids,
  Exes,         \* paths of binaries
  Ips,          \* remote addresses
  MaxTime,      \* ticks of the clock
  MaxVersion    \* versions of a binary

ASSUME BoundsAssumption == MaxTime \in Nat /\ MaxVersion \in Nat

VARIABLES
  clock,     \* start times handed out so far
  proc,      \* the process with a PID: alive, start, exe, image (version it runs)
  disk,      \* the version of each binary that is on disk
  net,       \* established connections: pairs <<pid, ip>>
  ran,       \* ghost: <<pid, start, exe, image>> of everything that ever ran
  cache,     \* entries by PID: start, exe, hash; start 0 for no entry
  pc,        \* per resolver: idle, stat, look, exe, hash, insert
  pid,       \* its argument
  start,     \* its start_time
  exe,       \* its exe_path
  hash,      \* its exe_hash
  result,    \* what its last resolve returned: hit, fresh, error, or none
  conns      \* what its last get_connections returned

os == <<clock, proc, disk, net, ran>>
locals == <<pid, start, exe, hash>>
vars == <<os, cache, pc, locals, result, conns>>

Times == 0..MaxTime
Versions == 0..MaxVersion
NoEntry == [start |-> 0, exe |-> "none", hash |-> 0]
Entries == {NoEntry} \cup [start : Times, exe : Exes, hash : Versions]

TypeOK ==
  /\ clock \in Times
  /\ proc \in [Pids -> [alive : BOOLEAN, start : Times, exe : Exes, image : Versions]]
  /\ disk \in [Exes -> Versions]
  /\ net \subseteq Pids \X Ips
  /\ ran \subseteq Pids \X Times \X Exes \X Versions
  /\ cache \in [Pids -> Entries]
  /\ pc \in [Resolvers -> {"idle", "stat", "look", "exe", "hash", "insert"}]
  /\ pid \in [Resolvers -> Pids]
  /\ start \in [Resolvers -> Times]
  /\ exe \in [Resolvers -> Exes]
  /\ hash \in [Resolvers -> Versions]
  /\ result \in [Resolvers -> {"hit", "fresh", "error", "none"}]
  /\ conns \in [Resolvers -> SUBSET Ips]

Init ==
  /\ clock = 0
  /\ \E e \in Exes :
       proc = [p \in Pids |-> [alive |-> FALSE, start |-> 0, exe |-> e, image |-> 0]]
  /\ disk = [e \in Exes |-> 0]
  /\ net = {} /\ ran = {}
  /\ cache = [p \in Pids |-> NoEntry]
  /\ pc = [t \in Resolvers |-> "idle"]
  /\ pid \in [Resolvers -> Pids] /\ exe \in [Resolvers -> Exes]
  /\ start = [t \in Resolvers |-> 0] /\ hash = [t \in Resolvers |-> 0]
  /\ result = [t \in Resolvers |-> "none"]
  /\ conns = [t \in Resolvers |-> {}]

-----------------------------------------------------------------------------
(* The operating system *)

\* "if a PID is reused, the start time will be different" (process_monitor.rs:185):
\* a PID does not come round twice in a clock tick.
Spawn(p, e) ==
  /\ ~proc[p].alive /\ clock < MaxTime
  /\ clock' = clock + 1
  /\ proc' = [proc EXCEPT ![p] = [alive |-> TRUE, start |-> clock', exe |-> e, image |-> disk[e]]]
  /\ ran' = ran \cup {<<p, clock', e, disk[e]>>}
  /\ UNCHANGED <<disk, net, cache, pc, locals, result, conns>>

Exit(p) ==
  /\ proc[p].alive
  /\ proc' = [proc EXCEPT ![p] = [alive |-> FALSE, start |-> proc[p].start,
                                    exe |-> proc[p].exe, image |-> proc[p].image]]
  /\ net' = {c \in net : c[1] # p}
  /\ UNCHANGED <<clock, disk, ran, cache, pc, locals, result, conns>>

\* The same process, with the same start time, runs another binary.
Exec(p, e) ==
  /\ proc[p].alive
  /\ proc' = [proc EXCEPT ![p] = [alive |-> TRUE, start |-> proc[p].start,
                                    exe |-> e, image |-> disk[e]]]
  /\ ran' = ran \cup {<<p, proc[p].start, e, disk[e]>>}
  /\ UNCHANGED <<clock, disk, net, cache, pc, locals, result, conns>>

\* An upgrade renames a new file into place.
Replace(e) ==
  /\ disk[e] < MaxVersion
  /\ disk' = [disk EXCEPT ![e] = @ + 1]
  /\ UNCHANGED <<clock, proc, net, ran, cache, pc, locals, result, conns>>

Dial(p, i) ==
  /\ proc[p].alive
  /\ net' = net \cup {<<p, i>>}
  /\ UNCHANGED <<clock, proc, disk, ran, cache, pc, locals, result, conns>>

-----------------------------------------------------------------------------
(* resolve *)

Call(t, p) ==
  /\ pc[t] = "idle"
  /\ pc' = [pc EXCEPT ![t] = "stat"]
  /\ pid' = [pid EXCEPT ![t] = p]
  /\ result' = [result EXCEPT ![t] = "none"]
  /\ conns' = [conns EXCEPT ![t] = {}]
  /\ UNCHANGED <<os, cache, start, exe, hash>>

Returns(t, r) ==
  /\ pc' = [pc EXCEPT ![t] = "idle"]
  /\ result' = [result EXCEPT ![t] = r]

\* read_process_start_time
ReadStat(t) ==
  /\ pc[t] = "stat" /\ proc[pid[t]].alive
  /\ start' = [start EXCEPT ![t] = proc[pid[t]].start]
  /\ pc' = [pc EXCEPT ![t] = "look"]
  /\ UNCHANGED <<os, cache, pid, exe, hash, result, conns>>

\* The entry has the start time read: it is cloned and returned.
CacheHit(t) ==
  LET entry == cache[pid[t]]
  IN  /\ pc[t] = "look" /\ entry # NoEntry /\ entry.start = start[t]
      /\ exe' = [exe EXCEPT ![t] = entry.exe]
      /\ hash' = [hash EXCEPT ![t] = entry.hash]
      /\ Returns(t, "hit")
      /\ UNCHANGED <<os, cache, pid, start, conns>>

CacheMiss(t) ==
  LET entry == cache[pid[t]]
  IN  /\ pc[t] = "look" /\ (entry = NoEntry \/ entry.start # start[t])
      /\ pc' = [pc EXCEPT ![t] = "exe"]
      /\ UNCHANGED <<os, cache, locals, result, conns>>

\* Mutant: the link of a process whose file was replaced is taken as it reads.
ReadExeDeleted(t) ==
  LET p == proc[pid[t]]
  IN  /\ pc[t] = "exe" /\ p.alive
      /\ exe' = [exe EXCEPT ![t] = IF p.image = disk[p.exe] THEN p.exe ELSE "deleted"]
      /\ pc' = [pc EXCEPT ![t] = "hash"]
      /\ UNCHANGED <<os, cache, pid, start, hash, result, conns>>

\* read_exe_path: of a process whose file was replaced it is "<path> (deleted)",
\* and there is no such file to hash.
ReadExe(t) ==
  LET p == proc[pid[t]]
  IN  /\ pc[t] = "exe" /\ p.alive /\ p.image = disk[p.exe]
      /\ exe' = [exe EXCEPT ![t] = p.exe]
      /\ pc' = [pc EXCEPT ![t] = "hash"]
      /\ UNCHANGED <<os, cache, pid, start, hash, result, conns>>

\* hash_file opens the path anew.
HashFile(t) ==
  /\ pc[t] = "hash"
  /\ hash' = [hash EXCEPT ![t] = disk[exe[t]]]
  /\ pc' = [pc EXCEPT ![t] = "insert"]
  /\ UNCHANGED <<os, cache, pid, start, exe, result, conns>>

\* Mutant: the entry is stamped with the start time at the time of insertion.
InsertStamped(t) ==
  /\ pc[t] = "insert"
  /\ cache' = [cache EXCEPT ![pid[t]] =
                 [start |-> proc[pid[t]].start, exe |-> exe[t], hash |-> hash[t]]]
  /\ Returns(t, "fresh")
  /\ UNCHANGED <<os, locals, conns>>

Insert(t) ==
  /\ pc[t] = "insert"
  /\ cache' = [cache EXCEPT ![pid[t]] = [start |-> start[t], exe |-> exe[t], hash |-> hash[t]]]
  /\ Returns(t, "fresh")
  /\ UNCHANGED <<os, locals, conns>>

\* A read of /proc fails when the process is gone, hash_file when the file is, or
\* cannot be read.
ReadFails(t) ==
  LET p == proc[pid[t]]
  IN  /\ \/ pc[t] \in {"stat", "exe"} /\ ~p.alive
         \/ pc[t] = "exe" /\ p.image # disk[p.exe]
         \/ pc[t] = "hash"
      /\ Returns(t, "error")
      /\ UNCHANGED <<os, cache, locals, conns>>

-----------------------------------------------------------------------------
(* The other operations; nothing in the source calls Invalidate or Cleanup. *)

\* /proc/PID/net/tcp lists the sockets of the network namespace of the process; of a
\* process that is gone it cannot be read, and that counts as no connection.
GetConnections(t, p) ==
  /\ pc[t] = "idle"
  /\ pid' = [pid EXCEPT ![t] = p]
  /\ conns' = [conns EXCEPT ![t] = {c[2] : c \in {d \in net : proc[p].alive}}]
  /\ result' = [result EXCEPT ![t] = "none"]
  /\ UNCHANGED <<os, cache, pc, start, exe, hash>>

Invalidate(p) ==
  /\ cache' = [cache EXCEPT ![p] = NoEntry]
  /\ UNCHANGED <<os, pc, locals, result, conns>>

CleanupStale ==
  /\ cache' = [p \in Pids |-> IF proc[p].alive /\ proc[p].start = cache[p].start
                              THEN cache[p] ELSE NoEntry]
  /\ UNCHANGED <<os, pc, locals, result, conns>>

OsNext == \E p \in Pids : \/ \E e \in Exes : Spawn(p, e) \/ Exec(p, e)
                          \/ \E i \in Ips : Dial(p, i)
                          \/ Exit(p)

ResolverNext(t) ==
  \/ \E p \in Pids : Call(t, p) \/ GetConnections(t, p)
  \/ ReadStat(t) \/ CacheHit(t) \/ CacheMiss(t)
  \/ ReadExe(t) \/ HashFile(t) \/ Insert(t) \/ ReadFails(t)

Next == \/ OsNext \/ \E e \in Exes : Replace(e)
        \/ \E t \in Resolvers : ResolverNext(t)
        \/ \E p \in Pids : Invalidate(p)
        \/ CleanupStale

Spec == Init /\ [][Next]_vars

-----------------------------------------------------------------------------
(* Properties *)

\* The process that had PID p since s ran binary e, in version v or in one that e has
\* had before v.
Ran(p, s, e, v) == \E w \in 0..v : <<p, s, e, w>> \in ran

\* An entry that live process p would be given from the cache names a binary that
\* this very process ran, not one that another process with its PID did, and no older
\* version of it than it ran, however PIDs are reused and binaries replaced between
\* the reads of /proc and whatever threads insert: because resolve reads the start
\* time first (process_monitor.rs:49).
CacheIsOfLiveProcess ==
  \A p \in Pids :
    proc[p].alive /\ cache[p].start = proc[p].start
      => Ran(p, proc[p].start, cache[p].exe, cache[p].hash)

\* What resolve returns of a process that is still there when it returns, from the
\* cache or not, is a binary that this process ran, in no older version.
AnswerIsOfThisProcess ==
  \A t \in Resolvers :
    LET p == proc[pid[t]]
    IN  result[t] \in {"hit", "fresh"} /\ p.alive /\ p.start = start[t] =>
          Ran(pid[t], start[t], exe[t], hash[t])
=============================================================================
