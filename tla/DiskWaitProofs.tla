--------------------------- MODULE DiskWaitProofs ---------------------------
(***************************************************************************)
(* Theorems about DiskWait for every set of filesystems, any number of     *)
(* events and every size of the thread pool.                               *)
(***************************************************************************)
EXTENDS DiskWait, TLAPS

-----------------------------------------------------------------------------
(* Type correctness. *)

LEMMA NoEvents == <<>> \in Seq(Event)
  OBVIOUS

LEMMA InitTypes == Init => TypeOK
<1> SUFFICES ASSUME Init PROVE TypeOK
  OBVIOUS
<1>1. WorldTypeOK
  BY DEF Init, WorldTypeOK
<1>2. ThreadTypeOK
  BY NoEvents DEF Init, ThreadTypeOK, Actions
<1>3. JobTypeOK
  BY DEF Init, JobTypeOK
<1>4. QueueTypeOK
  BY DEF Init, QueueTypeOK
<1>5. QED
  BY <1>1, <1>2, <1>3, <1>4 DEF TypeOK

LEMMA DiskThreadTypes ==
  ASSUME TypeOK, DiskThread
  PROVE  TypeOK'
<1> USE DEF TypeOK
<1>1. WorldTypeOK'
  BY DEF DiskThread, Boot, SyncRefresh, NextDisk, EnableMonitor, Receive, Bump, Claim, Resolve,
         Examine, Autostart, Enqueue, Remount, Looked, envVars, configVars, WorldTypeOK
<1>2. ThreadTypeOK'
  <2>1. CASE Receive
    <3>1. Head(events) \in Event /\ Tail(events) \in Seq(Event)
      BY <2>1 DEF Receive, ThreadTypeOK
    <3>2. Head(events).uuid \in UUIDs /\ Head(events).action \in Actions
      BY <3>1 DEF Event
    <3>3. QED
      BY <2>1, <3>1, <3>2 DEF Receive, ThreadTypeOK
  <2>2. CASE ~Receive
    BY <2>2 DEF DiskThread, Boot, SyncRefresh, NextDisk, EnableMonitor, Bump, Claim, Resolve,
       Examine, Autostart, Enqueue, Remount, Done, udevVars, threadVars, ThreadTypeOK,
       WorldTypeOK, Actions
  <2>3. QED
    BY <2>1, <2>2
<1>3. JobTypeOK'
  <2>1. CASE Claim
    BY <2>1 DEF Claim, Submit, JobTypeOK
  <2>2. CASE ~Claim
    BY <2>2 DEF DiskThread, Boot, SyncRefresh, NextDisk, EnableMonitor, Receive, Bump, Resolve,
       Examine, Autostart, Enqueue, Remount, jobVars, JobTypeOK
  <2>3. QED
    BY <2>1, <2>2
<1>4. QueueTypeOK'
  BY DEF DiskThread, Boot, SyncRefresh, NextDisk, EnableMonitor, Receive, Bump, Claim, Resolve,
         Examine, Autostart, Enqueue, Remount, autoVars, workerVars, QueueTypeOK, ThreadTypeOK
<1>5. QED
  BY <1>1, <1>2, <1>3, <1>4

LEMMA PoolTypes ==
  ASSUME TypeOK, (\E j \in Jobs : RefreshJob(j)) \/ QueueWorker
  PROVE  TypeOK'
<1> USE DEF TypeOK
<1>1. UNCHANGED <<envVars, udevVars, threadVars>>
  BY DEF RefreshJob, RunJob, LoadGeneration, Refresh, CheckGeneration, Release, QueueWorker, Wake,
         LookAt, Drop
<1>2. WorldTypeOK' /\ ThreadTypeOK'
  BY <1>1 DEF WorldTypeOK, ThreadTypeOK, envVars, configVars, udevVars, threadVars
<1>3. JobTypeOK'
  <2>1. ASSUME NEW j \in Jobs, RunJob(j) \/ CheckGeneration(j)
        PROVE  JobTypeOK'
    <3>1. UNCHANGED <<generation, running, seen, covered>>
      BY <2>1 DEF RunJob, CheckGeneration
    <3>2. PICK l \in {"load", "release"} : job' = [job EXCEPT ![j] = l]
      BY <2>1 DEF RunJob, CheckGeneration
    <3>3. QED
      BY <3>1, <3>2 DEF JobTypeOK
  <2>2. ASSUME NEW j \in Jobs, LoadGeneration(j) \/ Refresh(j) \/ Release(j)
        PROVE  JobTypeOK'
    <3>1. CASE LoadGeneration(j)
      BY <3>1 DEF LoadGeneration, JobTypeOK
    <3>2. CASE Refresh(j)
      BY <3>2 DEF Refresh, JobTypeOK
    <3>3. CASE Release(j)
      BY <3>3 DEF Release, JobTypeOK
    <3>4. QED
      BY <2>2, <3>1, <3>2, <3>3
  <2>3. CASE QueueWorker
    BY <2>3 DEF QueueWorker, Wake, LookAt, Drop, jobVars, JobTypeOK
  <2>4. QED
    BY <2>1, <2>2, <2>3 DEF RefreshJob
<1>4. QueueTypeOK'
  BY DEF RefreshJob, RunJob, LoadGeneration, Refresh, CheckGeneration, Release, QueueWorker, Wake,
         LookAt, Drop, autoVars, workerVars, QueueTypeOK
<1>5. QED
  BY <1>2, <1>3, <1>4

LEMMA WorldTypes ==
  ASSUME TypeOK, World \/ Clause \/ Restart
  PROVE  TypeOK'
<1> USE DEF TypeOK
<1>1. WorldTypeOK'
  <2>1. CASE \E f \in Files : Truncate(f)
    BY <2>1 DEF Truncate, WorldTypeOK
  <2>2. CASE Clause
    <3>1. PICK f \in Files : WriteBack(f)
      BY <2>2 DEF Clause
    <3>2. autostart' \subseteq UUIDs /\ tc' \subseteq UUIDs
      BY <3>1 DEF WriteBack, WorldTypeOK
    <3>3. UNCHANGED <<plugged, mounted, compressed>> /\ rewriting' \subseteq Files
      BY <3>1 DEF WriteBack, WorldTypeOK
    <3>4. QED
      BY <3>2, <3>3 DEF WorldTypeOK
  <2>3. CASE Crash
    BY <2>3 DEF Crash, Enabled, WorldTypeOK
  <2>4. CASE ~Clause /\ ~Crash /\ ~(\E f \in Files : Truncate(f))
    BY <2>4 DEF World, Plug, Unplug, Change, Mount, Unmount, Restart, envVars, configVars,
                WorldTypeOK
  <2>5. QED
    BY <2>1, <2>2, <2>3, <2>4
<1>2. ThreadTypeOK'
  <2>1. ASSUME NEW u \in UUIDs, NEW a \in Actions, Tell(a, u)
        PROVE  events' \in Seq(Event) /\ monitor' \in BOOLEAN
    <3>1. [action |-> a, uuid |-> u] \in Event
      BY DEF Event
    <3>2. Append(events, [action |-> a, uuid |-> u]) \in Seq(Event)
      BY <3>1 DEF ThreadTypeOK
    <3>3. QED
      BY <2>1, <3>2 DEF Tell, ThreadTypeOK
  <2>2. CASE \E u \in UUIDs : Plug(u) \/ Unplug(u) \/ Change(u)
    BY <2>1, <2>2 DEF Plug, Unplug, Change, Actions, threadVars, ThreadTypeOK
  <2>3. CASE (\E u \in UUIDs : Mount(u) \/ Unmount(u)) \/ (\E f \in Files : Truncate(f)) \/ Clause
    BY <2>3 DEF Mount, Unmount, Truncate, Clause, WriteBack, udevVars, threadVars, ThreadTypeOK
  <2>4. CASE Crash \/ Restart
    BY <2>4, NoEvents DEF Crash, Restart, udevVars, ThreadTypeOK, Actions
  <2>5. QED
    BY <2>2, <2>3, <2>4 DEF World
<1>3. JobTypeOK'
  <2>1. CASE Crash
    BY <2>1 DEF Crash, JobTypeOK
  <2>2. CASE ~Crash
    BY <2>2 DEF World, Plug, Unplug, Change, Mount, Unmount, Truncate, Clause, WriteBack, Restart,
                jobVars, JobTypeOK
  <2>3. QED
    BY <2>1, <2>2
<1>4. QueueTypeOK'
  BY DEF World, Plug, Unplug, Change, Mount, Unmount, Truncate, Clause, WriteBack, Crash, Restart,
         autoVars, workerVars, QueueTypeOK
<1>5. QED
  BY <1>1, <1>2, <1>3, <1>4

\* The invariant TypeOK: among others, only mounted filesystems are taken to be
\* compressed, and the thread has a filesystem in hand where it deals with one.
THEOREM TypeCorrect == Spec => []TypeOK
<1>1. TypeOK /\ [Next]_vars => TypeOK'
  <2>1. TypeOK /\ UNCHANGED vars => TypeOK'
    BY DEF vars, envVars, configVars, udevVars, threadVars, autoVars, jobVars, workerVars, TypeOK,
           WorldTypeOK, ThreadTypeOK, JobTypeOK, QueueTypeOK
  <2>2. QED
    BY <2>1, DiskThreadTypes, PoolTypes, WorldTypes DEF Next, Helper
<1>2. QED
  BY InitTypes, <1>1, PTL DEF Spec

-----------------------------------------------------------------------------
(* The refresh jobs. *)

\* refresh_worker_running is held by the one job there is, and there is none
\* before the thread listens to udev.
JobInv ==
  /\ \A j \in Jobs : job[j] # "none" => running /\ monitor
  /\ \A i, j \in Jobs : job[i] # "none" /\ job[j] # "none" => i = j
  /\ dpc \in {"boot", "sync", "next", "monitor", "down"} => ~monitor
  /\ dpc \in {"loop", "bump", "claim"} => monitor

LEMMA JobStep ==
  ASSUME TypeOK, JobInv, [Next]_vars
  PROVE  JobInv'
<1> USE DEF TypeOK, JobTypeOK, ThreadTypeOK, JobInv
<1>1. CASE DiskThread
  <2>1. CASE Claim
    <3>1. CASE running
      BY <2>1, <3>1 DEF Claim, Submit, udevVars
    <3>2. CASE ~running
      <4>1. \A j \in Jobs : job[j] = "none"
        BY <3>2
      <4>2. PICK j0 \in Jobs : job' = [job EXCEPT ![j0] = "queued"]
        BY <2>1, <3>2 DEF Claim, Submit
      <4>3. \A j \in Jobs : job'[j] # "none" => j = j0
        BY <4>1, <4>2
      <4>4. running' /\ monitor' /\ dpc' = "resolve"
        BY <2>1 DEF Claim, udevVars
      <4>5. QED
        BY <4>3, <4>4
    <3>3. QED
      BY <3>1, <3>2
  <2>2. CASE ~Claim
    <3>1. job' = job /\ running' = running
      BY <1>1, <2>2 DEF DiskThread, Boot, SyncRefresh, NextDisk, EnableMonitor, Receive, Bump,
         Resolve, Examine, Autostart, Enqueue, Remount, jobVars
    <3>2. monitor' = monitor \/ (monitor' /\ dpc' = "loop")
      BY <1>1, <2>2 DEF DiskThread, Boot, SyncRefresh, NextDisk, EnableMonitor, Receive, Bump,
         Resolve, Examine, Autostart, Enqueue, Remount, udevVars
    <3>3. /\ dpc' \in {"boot", "sync", "next", "monitor", "down"} => ~monitor'
          /\ dpc' \in {"loop", "bump", "claim"} => monitor'
      BY <1>1, <2>2 DEF DiskThread, Boot, SyncRefresh, NextDisk, EnableMonitor, Receive, Bump,
         Resolve, Examine, Autostart, Enqueue, Remount, Done, udevVars
    <3>4. QED
      BY <3>1, <3>2, <3>3
  <2>3. QED
    BY <2>1, <2>2
<1>2. CASE \E j \in Jobs : RefreshJob(j)
  <2>1. PICK j \in Jobs : RefreshJob(j)
    BY <1>2
  <2>2. monitor' = monitor /\ dpc' = dpc
    BY <2>1 DEF RefreshJob, RunJob, LoadGeneration, Refresh, CheckGeneration, Release, udevVars,
                threadVars
  <2>3. job[j] # "none" /\ \A i \in Jobs : i # j => job'[i] = job[i]
    BY <2>1 DEF RefreshJob, RunJob, LoadGeneration, Refresh, CheckGeneration, Release
  <2>4. running' \/ job'[j] = "none"
    BY <2>1 DEF RefreshJob, RunJob, LoadGeneration, Refresh, CheckGeneration, Release
  <2>5. QED
    BY <2>2, <2>3, <2>4
<1>3. CASE Crash
  <2>1. \A j \in Jobs : job'[j] = "none"
    BY <1>3 DEF Crash
  <2>2. QED
    BY <1>3, <2>1 DEF Crash
<1>4. CASE Restart
  BY <1>4 DEF Restart, udevVars, jobVars
<1>5. CASE UNCHANGED <<monitor, dpc, job, running>>
  BY <1>5
<1>6. CASE QueueWorker \/ Clause \/ (World /\ ~Crash) \/ UNCHANGED vars
  <2>1. UNCHANGED <<monitor, dpc, job, running>>
    BY <1>6 DEF QueueWorker, Wake, LookAt, Drop, World, Plug, Unplug, Change, Tell, Mount, Unmount,
       Truncate, Clause, WriteBack, vars, udevVars, threadVars, jobVars
  <2>2. QED
    BY <1>5, <2>1
<1>7. QED
  BY <1>1, <1>2, <1>3, <1>4, <1>6 DEF Next, Helper, World

\* At most one refresh of the cache runs at a time, whatever the disks do and
\* however often the helper is restarted.
THEOREM RefreshesExclude == Spec => []OneRefresh
<1>1. Init => JobInv
  BY DEF Init, JobInv
<1>2. JobInv => OneRefresh
  BY DEF JobInv, OneRefresh
<1>3. QED
  BY <1>1, <1>2, JobStep, TypeCorrect, PTL DEF Spec

-----------------------------------------------------------------------------
(* Autostart. *)

\* autostart_started holds the filesystems beesstart was called for.
StartedInv == \A u \in UUIDs : calls[u] = IF u \in started THEN 1 ELSE 0

LEMMA StartedStep ==
  ASSUME TypeOK, StartedInv, [Next]_vars
  PROVE  StartedInv'
<1>1. CASE Autostart
  BY <1>1 DEF Autostart, StartedInv, autoVars, TypeOK, QueueTypeOK
<1>2. CASE Crash
  BY <1>2 DEF Crash, StartedInv
<1>3. CASE UNCHANGED autoVars
  BY <1>3 DEF autoVars, StartedInv
<1>4. QED
  BY <1>1, <1>2, <1>3
  DEF Next, Helper, World, DiskThread, Boot, SyncRefresh, NextDisk, EnableMonitor, Receive, Bump,
      Claim, Resolve, Examine, Enqueue, Remount, RefreshJob, RunJob, LoadGeneration, Refresh,
      CheckGeneration, Release, QueueWorker, Wake, LookAt, Drop, Restart, Plug, Unplug, Change,
      Mount, Unmount, Truncate, Clause, WriteBack, vars

\* One helper never calls beesstart twice for the same filesystem.
THEOREM StartedOnce == Spec => []AutostartOnce
<1>1. Init => StartedInv
  BY DEF Init, StartedInv
<1>2. StartedInv => AutostartOnce
  BY DEF StartedInv, AutostartOnce
<1>3. QED
  BY <1>1, <1>2, StartedStep, TypeCorrect, PTL DEF Spec
=============================================================================
