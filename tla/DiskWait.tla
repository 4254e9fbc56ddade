------------------------------ MODULE DiskWait ------------------------------
(***************************************************************************)
(* The disk watcher of the privileged helper (src/polkit/diskwait.cpp):    *)
(*                                                                         *)
(*   - the diskwait thread examines the filesystems that are there when    *)
(*     the helper starts, then listens to udev; a filesystem that is       *)
(*     mounted gets its bees autostart (once) and, when it is enabled, its *)
(*     transparent compression;                                            *)
(*   - each disk that comes or goes asks for a refresh of the libblkid     *)
(*     cache; requests that meet a refresh in progress are coalesced       *)
(*     into it by a generation counter;                                    *)
(*   - a background worker removes unmounted filesystems from the queue of *)
(*     filesystems with transparent compression.                           *)
(*                                                                         *)
(* The refresh job and the worker share Qt's global thread pool; the three *)
(* share atomics and a queue under a mutex.  Disks and mounts change under *)
(* them, clauses in other threads of the helper truncate and rewrite the   *)
(* two configuration files, one edit of a file at a time (ConfigFile has   *)
(* edits that overlap), and systemd restarts a helper that has died        *)
(* (beekeeper-qt.service.in:12).                                           *)
(***************************************************************************)
EXTENDS Integers, FiniteSets, Sequences

CONSTANTS
  UUIDs,        \* the btrfs filesystems
  Jobs,         \* the refresh jobs the thread pool can hold
  InDevice,     \* <<u, v>>: the device name of u is a part of that of v
  PoolThreads,  \* QThreadPool::globalInstance()'s threads: one for each CPU
  Generations,  \* bound: the requests the liveness properties speak of
  None          \* no filesystem

ASSUME ConstantsAssumption ==
  /\ InDevice \subseteq UUIDs \X UUIDs
  /\ \A u \in UUIDs : <<u, u>> \in InDevice
  /\ PoolThreads \in Nat \ {0}
  /\ Generations \subseteq Nat
  /\ None \notin UUIDs

Files == {"autostart", "tc"}
Actions == {"add", "remove", "change"}
Event == [action : Actions, uuid : UUIDs]

VARIABLES
  plugged,     \* filesystems whose device is there (/dev/disk/by-uuid)
  mounted,     \* filesystems with a line in /proc/mounts
  compressed,  \* mounted filesystems that have the compress option
  autostart,   \* filesystems in the autostart file when it was last whole
  tc,          \* filesystems in the transparent compression file, likewise
  rewriting,   \* the files that are truncated and not yet written
  monitor,     \* whether udev events are being received
  events,      \* the udev events that wait in the socket
  dpc,         \* where the diskwait thread is
  cur,         \* the filesystem it deals with
  act,         \* the action of the event it deals with
  scan,        \* the directory entries the initial scan has still to visit
  queue,       \* transparentcompression_queue
  started,     \* autostart_started
  generation,  \* refresh_generation
  running,     \* refresh_worker_running
  job,         \* [Jobs -> where each refresh job is]
  seen,        \* observed_generation of each job
  wpc,         \* where the queue worker is
  wtodo,       \* what is left of its snapshot
  wcur,        \* the filesystem it is about to remove
  calls,       \* history: how often this helper has called beesstart(uuid)
  covered      \* history: the generation the last complete refresh observed

configVars == <<autostart, tc, rewriting>>
envVars    == <<plugged, mounted, compressed, configVars>>
udevVars   == <<monitor, events>>
threadVars == <<dpc, cur, act, scan>>
autoVars   == <<started, calls>>
jobVars    == <<generation, running, job, seen, covered>>
workerVars == <<wpc, wtodo, wcur>>
vars == <<envVars, udevVars, threadVars, queue, autoVars, jobVars, workerVars>>

-----------------------------------------------------------------------------
\* The mounted filesystems in whose lines of /proc/mounts the device name of u
\* occurs: /dev/sda1 occurs in the line of /dev/sda10.
Looked(u) == {v \in mounted : <<u, v>> \in InDevice}

\* get_mount_paths(uuid) is not empty: the device is resolved through
\* /dev/disk/by-uuid, the mount paths through /proc/mounts.
HasMountPaths(u) == u \in plugged /\ Looked(u) # {}

\* What a reader finds in a file: nothing while it is being rewritten.
Enabled(f) ==
  IF f \in rewriting THEN {} ELSE IF f = "autostart" THEN autostart ELSE tc

\* The thread has dealt with a filesystem or an event.
Done ==
  /\ dpc' = IF monitor THEN "loop" ELSE "next"
  /\ cur' = None
  /\ act' = "add"

\* The jobs that hold a thread of the pool; the queue worker holds another for
\* as long as the helper lives.
Executing == {j \in Jobs : job[j] \notin {"none", "queued"}}

Init ==
  /\ plugged \in SUBSET UUIDs
  /\ mounted \in SUBSET plugged
  /\ compressed = {}
  /\ autostart \in SUBSET UUIDs
  /\ tc \in SUBSET UUIDs
  /\ rewriting = {}
  /\ dpc = "boot"
  /\ monitor = FALSE
  /\ events = <<>>
  /\ cur = None
  /\ act = "add"
  /\ scan = {}
  /\ queue = {}
  /\ started = {}
  /\ generation = 0
  /\ running = FALSE
  /\ job = [j \in Jobs |-> "none"]
  /\ seen = [j \in Jobs |-> 0]
  /\ wpc = "off"
  /\ wtodo = {}
  /\ wcur = None
  /\ calls = [u \in UUIDs |-> 0]
  /\ covered = 0

-----------------------------------------------------------------------------
(* The diskwait thread: the initial scan. *)

\* run() starts the queue worker, the first to get a thread of the pool.
Boot ==
  /\ dpc = "boot"
  /\ dpc' = "sync"
  /\ wpc' = "sleep"
  /\ UNCHANGED <<envVars, udevVars, cur, act, scan, queue, autoVars, jobVars, wtodo, wcur>>

\* process_existing_mounts refreshes the cache synchronously and then opens the
\* directory.
SyncRefresh ==
  /\ dpc = "sync"
  /\ dpc' = "next"
  /\ scan' = plugged
  /\ UNCHANGED <<envVars, udevVars, cur, act, queue, autoVars, jobVars, workerVars>>

NextDisk ==
  /\ dpc = "next"
  /\ \/ /\ scan = {}
        /\ dpc' = "monitor"
        /\ UNCHANGED <<cur, scan>>
     \/ \E u \in scan :
          /\ cur' = u
          /\ scan' = scan \ {u}
          /\ dpc' = "examine"
  /\ UNCHANGED <<envVars, udevVars, act, queue, autoVars, jobVars, workerVars>>

\* udev_monitor_enable_receiving: what udev told before is lost.  Without udev
\* the thread ends.
EnableMonitor ==
  /\ dpc = "monitor"
  /\ \/ dpc' = "loop" /\ monitor' = TRUE
     \/ dpc' = "ended" /\ UNCHANGED monitor
  /\ UNCHANGED <<envVars, events, cur, act, scan, queue, autoVars, jobVars, workerVars>>

-----------------------------------------------------------------------------
(* The diskwait thread: the event loop. *)

\* QtConcurrent::run queues a job.
Submit ==
  /\ \E j \in Jobs : job[j] = "none"
  /\ job' = [job EXCEPT ![CHOOSE j \in Jobs : job[j] = "none"] = "queued"]

Receive ==
  /\ dpc = "loop"
  /\ events # <<>>
  /\ cur' = Head(events).uuid
  /\ act' = Head(events).action
  /\ events' = Tail(events)
  /\ dpc' = IF Head(events).action = "change" THEN "resolve" ELSE "bump"
  /\ UNCHANGED <<envVars, monitor, scan, queue, autoVars, jobVars, workerVars>>

\* async_refresh_libblkid_cache announces the request ...
Bump ==
  /\ dpc = "bump"
  /\ generation' = generation + 1
  /\ dpc' = "claim"
  /\ UNCHANGED <<envVars, udevVars, cur, act, scan, queue, autoVars, running, job, seen,
                 covered, workerVars>>

\* Defect: the flag is not looked at.
ClaimAlways ==
  /\ dpc = "claim"
  /\ dpc' = "resolve"
  /\ running' = TRUE
  /\ Submit
  /\ UNCHANGED <<envVars, udevVars, cur, act, scan, queue, autoVars, generation, seen,
                 covered, workerVars>>

\* ... and submits a job unless refresh_worker_running was set already.
Claim ==
  /\ dpc = "claim"
  /\ dpc' = "resolve"
  /\ running' = TRUE
  /\ \/ running /\ UNCHANGED job
     \/ /\ ~running
        /\ Submit
  /\ UNCHANGED <<envVars, udevVars, cur, act, scan, queue, autoVars, generation, seen,
                 covered, workerVars>>

\* uuid_from_devnode may find nothing in the cache it reads: the event is
\* dropped.  A disk that has gone leaves the queue.
Resolve ==
  /\ dpc = "resolve"
  /\ \/ Done /\ UNCHANGED queue
     \/ act = "remove" /\ Done /\ queue' = queue \ {cur}
     \/ act # "remove" /\ dpc' = "examine" /\ UNCHANGED <<cur, act, queue>>
  /\ UNCHANGED <<envVars, udevVars, scan, autoVars, jobVars, workerVars>>

-----------------------------------------------------------------------------
(* The diskwait thread: one filesystem, found by the scan or by an event. *)

\* Defect: the scan returns where it should continue.
ExamineReturns ==
  /\ dpc = "examine"
  /\ IF HasMountPaths(cur)
     THEN dpc' = "autostart" /\ UNCHANGED <<cur, act>>
     ELSE dpc' = (IF monitor THEN "loop" ELSE "monitor") /\ cur' = None /\ act' = "add"
  /\ UNCHANGED <<envVars, udevVars, scan, queue, autoVars, jobVars, workerVars>>

Examine ==
  /\ dpc = "examine"
  /\ IF HasMountPaths(cur) THEN dpc' = "autostart" /\ UNCHANGED <<cur, act>> ELSE Done
  /\ UNCHANGED <<envVars, udevVars, scan, queue, autoVars, jobVars, workerVars>>

\* Defect: a filesystem found by the scan is not remembered.
AutostartForgets ==
  /\ dpc = "autostart"
  /\ dpc' = "queue"
  /\ IF cur \in Enabled("autostart") \ started
     THEN /\ calls' = [calls EXCEPT ![cur] = @ + 1]
          /\ started' = IF monitor THEN started \cup {cur} ELSE started
     ELSE UNCHANGED autoVars
  /\ UNCHANGED <<envVars, udevVars, cur, act, scan, queue, jobVars, workerVars>>

\* Under autostart_mutex: beesstart is called once, whatever it answers.
Autostart ==
  /\ dpc = "autostart"
  /\ dpc' = "queue"
  /\ IF cur \in Enabled("autostart") \ started
     THEN /\ calls' = [calls EXCEPT ![cur] = @ + 1]
          /\ started' = started \cup {cur}
     ELSE UNCHANGED autoVars
  /\ UNCHANGED <<envVars, udevVars, cur, act, scan, queue, jobVars, workerVars>>

\* tc::is_enabled_for and push_uuid_to_queue.
Enqueue ==
  /\ dpc = "queue"
  /\ IF cur \in Enabled("tc")
     THEN queue' = queue \cup {cur} /\ dpc' = "remount" /\ UNCHANGED <<cur, act>>
     ELSE Done /\ UNCHANGED queue
  /\ UNCHANGED <<envVars, udevVars, scan, autoVars, jobVars, workerVars>>

\* Defect: the mount paths of the examination are used again.
RemountStale ==
  /\ dpc = "remount"
  /\ Done
  /\ compressed' = compressed \cup {cur}
  /\ UNCHANGED <<plugged, mounted, configVars, udevVars, scan, queue, autoVars, jobVars,
                 workerVars>>

\* tc::start resolves the mount paths again and remounts what it finds, also of
\* filesystems whose device name is longer; each mount may fail.
Remount ==
  /\ dpc = "remount"
  /\ Done
  /\ \E S \in SUBSET (IF HasMountPaths(cur) THEN Looked(cur) ELSE {}) :
       compressed' = compressed \cup S
  /\ UNCHANGED <<plugged, mounted, configVars, udevVars, scan, queue, autoVars, jobVars,
                 workerVars>>

-----------------------------------------------------------------------------
(* The refresh job. *)

RunJob(j) ==
  /\ job[j] = "queued"
  /\ Cardinality(Executing) + 1 < PoolThreads
  /\ job' = [job EXCEPT ![j] = "load"]
  /\ UNCHANGED <<envVars, udevVars, threadVars, queue, autoVars, generation, running, seen,
                 covered, workerVars>>

LoadGeneration(j) ==
  /\ job[j] = "load"
  /\ job' = [job EXCEPT ![j] = "refresh"]
  /\ seen' = [seen EXCEPT ![j] = generation]
  /\ UNCHANGED <<envVars, udevVars, threadVars, queue, autoVars, generation, running, covered,
                 workerVars>>

\* fully_refresh_libblkid_cache.
Refresh(j) ==
  /\ job[j] = "refresh"
  /\ job' = [job EXCEPT ![j] = "check"]
  /\ covered' = seen[j]
  /\ UNCHANGED <<envVars, udevVars, threadVars, queue, autoVars, generation, running, seen,
                 workerVars>>

\* Defect: one refresh and no second look.
CheckNothing(j) ==
  /\ job[j] = "check"
  /\ job' = [job EXCEPT ![j] = "release"]
  /\ UNCHANGED <<envVars, udevVars, threadVars, queue, autoVars, generation, running, seen,
                 covered, workerVars>>

\* Another refresh if a request has come since the generation was loaded.
CheckGeneration(j) ==
  /\ job[j] = "check"
  /\ job' = [job EXCEPT ![j] = IF generation = seen[j] THEN "release" ELSE "load"]
  /\ UNCHANGED <<envVars, udevVars, threadVars, queue, autoVars, generation, running, seen,
                 covered, workerVars>>

Release(j) ==
  /\ job[j] = "release"
  /\ job' = [job EXCEPT ![j] = "none"]
  /\ seen' = [seen EXCEPT ![j] = 0]
  /\ running' = FALSE
  /\ UNCHANGED <<envVars, udevVars, threadVars, queue, autoVars, generation, covered,
                 workerVars>>

-----------------------------------------------------------------------------
(* The queue worker. *)

\* Every 30 seconds: snapshot_queue.
Wake ==
  /\ wpc = "sleep"
  /\ wpc' = "look"
  /\ wtodo' = queue
  /\ UNCHANGED <<envVars, udevVars, threadVars, queue, autoVars, jobVars, wcur>>

\* Defect: a filesystem that is still mounted ends the round.
LookAtReturns ==
  /\ wpc = "look"
  /\ \/ wtodo = {} /\ wpc' = "sleep" /\ UNCHANGED <<wtodo, wcur>>
     \/ \E u \in wtodo :
          /\ wtodo' = wtodo \ {u}
          /\ wcur' = u
          /\ wpc' = IF HasMountPaths(u) THEN "sleep" ELSE "drop"
  /\ UNCHANGED <<envVars, udevVars, threadVars, queue, autoVars, jobVars>>

\* The next filesystem of the snapshot; nothing is done about one that is still
\* mounted.
LookAt ==
  /\ wpc = "look"
  /\ \/ wtodo = {} /\ wpc' = "sleep" /\ UNCHANGED <<wtodo, wcur>>
     \/ \E u \in wtodo :
          /\ wtodo' = wtodo \ {u}
          /\ IF HasMountPaths(u)
             THEN UNCHANGED <<wpc, wcur>>
             ELSE wpc' = "drop" /\ wcur' = u
  /\ UNCHANGED <<envVars, udevVars, threadVars, queue, autoVars, jobVars>>

\* remove_uuid_from_queue, of what had no mount path a moment ago.
Drop ==
  /\ wpc = "drop"
  /\ queue' = queue \ {wcur}
  /\ wpc' = "look"
  /\ wcur' = None
  /\ UNCHANGED <<envVars, udevVars, threadVars, autoVars, jobVars, wtodo>>

-----------------------------------------------------------------------------
(* The world around the helper. *)

\* udev tells of a disk; nobody is told when nobody listens.
Tell(action, u) ==
  /\ events' = IF monitor THEN Append(events, [action |-> action, uuid |-> u]) ELSE events
  /\ UNCHANGED monitor

Plug(u) ==
  /\ u \notin plugged
  /\ plugged' = plugged \cup {u}
  /\ Tell("add", u)
  /\ UNCHANGED <<mounted, compressed, configVars, threadVars, queue, autoVars, jobVars,
                 workerVars>>

\* A disk may go while it is mounted; the mount stays.
Unplug(u) ==
  /\ u \in plugged
  /\ plugged' = plugged \ {u}
  /\ Tell("remove", u)
  /\ UNCHANGED <<mounted, compressed, configVars, threadVars, queue, autoVars, jobVars,
                 workerVars>>

Change(u) ==
  /\ u \in plugged
  /\ monitor
  /\ Tell("change", u)
  /\ UNCHANGED <<envVars, threadVars, queue, autoVars, jobVars, workerVars>>

\* udev has no event for a mount.
Mount(u) ==
  /\ u \in plugged \ mounted
  /\ mounted' = mounted \cup {u}
  /\ UNCHANGED <<plugged, compressed, configVars, udevVars, threadVars, queue, autoVars,
                 jobVars, workerVars>>

Unmount(u) ==
  /\ u \in mounted
  /\ mounted' = mounted \ {u}
  /\ compressed' = compressed \ {u}
  /\ UNCHANGED <<plugged, configVars, udevVars, threadVars, queue, autoVars, jobVars,
                 workerVars>>

\* The autostartctl and compressctl clauses, in other threads of the helper,
\* truncate the file they have read ...
Truncate(f) ==
  /\ dpc # "down"
  /\ f \notin rewriting
  /\ rewriting' = rewriting \cup {f}
  /\ UNCHANGED <<plugged, mounted, compressed, autostart, tc, udevVars, threadVars, queue,
                 autoVars, jobVars, workerVars>>

\* ... and write it again.  A removal finds no line of the compression file: it
\* looks for one that is the UUID and nothing else (configfile.cpp:56), and every
\* line names an algorithm.
WriteBack(f) ==
  /\ f \in rewriting
  /\ rewriting' = rewriting \ {f}
  /\ \E u \in UUIDs :
       \/ f = "autostart" /\ autostart' \in {autostart \cup {u}, autostart \ {u}} /\ UNCHANGED tc
       \/ f = "tc" /\ tc' \in {tc \cup {u}, tc} /\ UNCHANGED autostart
  /\ UNCHANGED <<plugged, mounted, compressed, udevVars, threadVars, queue, autoVars, jobVars,
                 workerVars>>

\* The helper dies with all it remembered; a file that it was rewriting stays
\* empty ...
Crash ==
  /\ dpc # "down"
  /\ dpc' = "down"
  /\ monitor' = FALSE
  /\ events' = <<>>
  /\ cur' = None
  /\ act' = "add"
  /\ scan' = {}
  /\ queue' = {}
  /\ started' = {}
  /\ generation' = 0
  /\ running' = FALSE
  /\ job' = [j \in Jobs |-> "none"]
  /\ seen' = [j \in Jobs |-> 0]
  /\ wpc' = "off"
  /\ wtodo' = {}
  /\ wcur' = None
  /\ calls' = [u \in UUIDs |-> 0]
  /\ covered' = 0
  /\ autostart' = Enabled("autostart")
  /\ tc' = Enabled("tc")
  /\ rewriting' = {}
  /\ UNCHANGED <<plugged, mounted, compressed>>

\* ... and systemd starts it again.
Restart ==
  /\ dpc = "down"
  /\ dpc' = "boot"
  /\ UNCHANGED <<envVars, udevVars, cur, act, scan, queue, autoVars, jobVars, workerVars>>

-----------------------------------------------------------------------------
DiskThread ==
  \/ Boot
  \/ SyncRefresh
  \/ NextDisk
  \/ EnableMonitor
  \/ Receive
  \/ Bump
  \/ Claim
  \/ Resolve
  \/ Examine
  \/ Autostart
  \/ Enqueue
  \/ Remount

RefreshJob(j) ==
  \/ RunJob(j)
  \/ LoadGeneration(j)
  \/ Refresh(j)
  \/ CheckGeneration(j)
  \/ Release(j)

QueueWorker ==
  \/ Wake
  \/ LookAt
  \/ Drop

Clause == \E f \in Files : WriteBack(f)

Helper == DiskThread \/ (\E j \in Jobs : RefreshJob(j)) \/ QueueWorker \/ Clause \/ Restart

World ==
  \/ \E u \in UUIDs : Plug(u)
  \/ \E u \in UUIDs : Unplug(u)
  \/ \E u \in UUIDs : Change(u)
  \/ \E u \in UUIDs : Mount(u)
  \/ \E u \in UUIDs : Unmount(u)
  \/ \E f \in Files : Truncate(f)
  \/ Crash

Next == Helper \/ World

Spec == Init /\ [][Next]_vars

\* The threads of a live helper run, and systemd restarts a dead one.  Nothing
\* is assumed of disks, mounts and users.
Fairness ==
  /\ WF_vars(DiskThread)
  /\ \A j \in Jobs : WF_vars(RefreshJob(j))
  /\ WF_vars(QueueWorker)
  /\ WF_vars(Clause)
  /\ WF_vars(Restart)

FairSpec == Spec /\ Fairness

-----------------------------------------------------------------------------
(* Properties. *)

WorldTypeOK ==
  /\ plugged \subseteq UUIDs
  /\ mounted \subseteq UUIDs
  /\ compressed \subseteq mounted
  /\ autostart \subseteq UUIDs
  /\ tc \subseteq UUIDs
  /\ rewriting \subseteq Files

ThreadTypeOK ==
  /\ monitor \in BOOLEAN
  /\ events \in Seq(Event)
  /\ dpc \in {"boot", "sync", "next", "monitor", "loop", "bump", "claim", "resolve", "examine",
              "autostart", "queue", "remount", "ended", "down"}
  /\ cur \in UUIDs \cup {None}
  /\ dpc \in {"bump", "claim", "resolve", "examine", "autostart", "queue", "remount"} => cur \in UUIDs
  /\ act \in Actions
  /\ scan \subseteq UUIDs

JobTypeOK ==
  /\ generation \in Nat
  /\ running \in BOOLEAN
  /\ job \in [Jobs -> {"none", "queued", "load", "refresh", "check", "release"}]
  /\ seen \in [Jobs -> Nat]
  /\ covered \in Nat

QueueTypeOK ==
  /\ queue \subseteq UUIDs
  /\ started \subseteq UUIDs
  /\ calls \in [UUIDs -> Nat]
  /\ wpc \in {"off", "sleep", "look", "drop"}
  /\ wtodo \subseteq UUIDs
  /\ wcur \in UUIDs \cup {None}

\* The types of the variables; beyond them, only what is mounted is taken to be
\* compressed, and the thread has a filesystem where it deals with one.
TypeOK == WorldTypeOK /\ ThreadTypeOK /\ JobTypeOK /\ QueueTypeOK

\* At most one refresh of the cache at a time, the synchronous one included
\* (diskwait.cpp:94): the flag is given back only by the job that holds it.
OneRefresh ==
  /\ \A i, j \in Jobs : job[i] = "refresh" /\ job[j] = "refresh" => i = j
  /\ dpc = "sync" => \A j \in Jobs : job[j] # "refresh"

\* One helper calls beesstart at most once for a filesystem, however often the
\* scan and the events come upon it (diskwait.cpp:36, 382).
AutostartOnce == \A u \in UUIDs : calls[u] <= 1

Refreshing == \E j \in Jobs : job[j] \in {"load", "refresh", "check"}

\* A request that meets a job before its last look at the counter is served: a
\* refresh starts after the request and completes (diskwait.cpp:112).
CoalescedServed ==
  \A g \in Generations :
    (generation = g /\ Refreshing) ~> (covered >= g \/ dpc = "down")

\* Every request is served ("marks that there's something new",
\* diskwait.cpp:91).
RequestsServed ==
  \A g \in Generations : generation = g ~> (covered >= g \/ dpc = "down")

\* A filesystem that is mounted and enabled when the initial scan begins is
\* started, unless it is unmounted or disabled before its turn comes.  The comment
\* at diskwait.cpp:150-155 has no other exception; the code has one: whoever
\* edits the autostart file, for whatever filesystem, empties it for a moment,
\* and a filesystem whose turn it is then is passed over for good (line 186).
PresentStarted ==
  \A u \in UUIDs :
    (dpc = "sync" /\ HasMountPaths(u) /\ u \in autostart)
      ~> \/ calls[u] > 0
         \/ ~HasMountPaths(u)
         \/ u \notin autostart
         \/ dpc = "autostart" /\ cur = u /\ "autostart" \in rewriting
         \/ dpc = "down"

\* What has no mount path any more leaves the queue, also when udev says
\* nothing.  The note at diskwait.cpp:388 speaks of UUIDs that become unmounted;
\* what the code finds is a mount path of any filesystem whose device name
\* contains theirs: as long as /dev/sda10 is mounted, /dev/sda1 stays queued.
UnmountedLeavesQueue ==
  \A u \in UUIDs :
    (u \in queue /\ ~HasMountPaths(u)) ~> (u \notin queue \/ HasMountPaths(u))
=============================================================================
