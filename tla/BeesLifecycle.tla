---------------------------- MODULE BeesLifecycle ----------------------------
(***************************************************************************)
(* The life cycle of the bees deduplication daemon as beekeeper-qt drives  *)
(* it (src/core/management/beesdmgmt.cpp, pidfilemgmt.cpp, logging.cpp):   *)
(* beesstart, beesstop, beesrestart, beesstatus and beescleanlogfiles run  *)
(* by callers that share the process table, the PID files in /run/bees and *)
(* the configuration in /etc/bees, and hold no lock of any kind.           *)
(*                                                                         *)
(* A caller is a thread of the privileged helper's pool, the udev thread   *)
(* of diskwait, or a command-line process.  Between two system calls of    *)
(* one caller any other caller, and any process, may take a step.          *)
(*                                                                         *)
(* beesd, the external launcher, is one process whose command line holds   *)
(* the UUID; some time later it starts one bees worker, whose command line *)
(* holds the UUID and the mount path.  Either may exit at any time, and    *)
(* the PID of a process that is gone may be given to an unrelated one.     *)
(* Filesystems are found by texts in the lines of ps and /proc/mounts:     *)
(* PathIn and InDevice say which of these texts are parts of others.  Both *)
(* files can be read and ps can be run at any time.                        *)
(***************************************************************************)
EXTENDS Integers, FiniteSets

CONSTANTS
  UUIDs,        \* the btrfs filesystems
  Callers,      \* the threads and processes that run the operations
  RootMounted,  \* the filesystems whose first mount path is "/"
  PathIn,       \* <<u, v>>: the first mount path of u is a part of that of v
  InDevice,     \* <<u, v>>: the device name of u is a part of that of v
  MaxPid,       \* bound: how many processes are ever started
  MaxRetries,   \* wait_for_bees_worker's max_retries (3 in the code)
  Requests,     \* bound: the operations the callers are asked for
  Reused,       \* bound: the PIDs the kernel may give out a second time
  Volatile,     \* bound: the filesystems whose mounts and configuration change
  None          \* no filesystem, no caller

Pids == 1..MaxPid
NoPid == 0

Kinds    == {"unborn", "launcher", "parent", "worker", "gone", "foreign"}
Ops      == {"start", "stop", "restart", "status", "clean"}
Labels   == {"idle", "config", "readpid", "probe", "scan", "adopt", "judge",
             "grab", "killrest", "fork", "wait", "rescan", "writepid",
             "baseline", "ps", "term", "await", "cleanpid"}
Statuses == {"running", "stopped", "unconfigured"}
Results  == {"none", "true", "false", "done"} \cup Statuses

ASSUME ConstantsAssumption ==
  /\ RootMounted \subseteq UUIDs
  /\ PathIn \subseteq UUIDs \X UUIDs
  /\ InDevice \subseteq UUIDs \X UUIDs
  /\ \A u \in UUIDs : <<u, u>> \in PathIn /\ <<u, u>> \in InDevice
  /\ MaxPid \in Nat
  /\ MaxRetries \in Nat \ {0}
  /\ Requests \subseteq Ops
  /\ Reused \subseteq Pids
  /\ Volatile \subseteq UUIDs
  /\ None \notin UUIDs \cup Callers

VARIABLES
  kind,      \* [Pids -> Kinds]: what runs under each PID now
  birth,     \* whom each PID was last given to: the filesystem and the caller
  doomed,    \* live processes that have been sent SIGKILL
  mounted,   \* filesystems with a line in /proc/mounts
  config,    \* filesystems with a .conf file in /etc/bees
  pidfile,   \* the PID in /run/bees/beesd-<uuid>.pid, NoPid when there is none
  baseline,  \* the content of startingfreespace
  pc,        \* where each caller is
  op,        \* the operation it runs
  routine,   \* the function it is in: beesrestart calls beesstop and beesstart
  target,    \* its uuid argument
  held,      \* the PID it has read and not yet used
  todo,      \* the ps lines its loop has still to treat, in PID order
  snap,      \* the ps lines beesstop set out to terminate
  polls,     \* how often wait_for_bees_worker has looked
  ret        \* what its last operation has returned

procVars == <<kind, birth, doomed>>
envVars  == <<mounted, config>>
fileVars == <<pidfile, baseline>>
callVars == <<op, routine, target, ret>>
locals   == <<held, todo, snap, polls>>
vars == <<procVars, envVars, fileVars, pc, callVars, locals>>

-----------------------------------------------------------------------------
(* What ps and kill(pid, 0) tell. *)

\* check_if_pid_process_is_running: kill(pid, 0) tells that some process has
\* the PID, not which one.
Alive(p) == kind[p] \in {"launcher", "parent", "worker", "foreign"}

\* A beesd launcher or a bees worker.
IsBees(p) == kind[p] \in {"launcher", "parent", "worker"}

\* Defect: the listing forgets the UUID.
ProcessLinesOfAny(u) == {p \in Pids : IsBees(p)}

\* get_process_lines("bees", uuid).
ProcessLines(u) == {p \in Pids : IsBees(p) /\ birth[p].uuid = u}

\* The PID has gone to a program that has nothing to do with bees.
Reborn(p) == kind[p] # "unborn" /\ birth[p].uuid = None

\* get_mount_paths: the filesystems in whose lines of /proc/mounts the device of
\* u occurs.
Looked(u) == {v \in mounted : <<u, v>> \in InDevice}

\* Defect: the listing forgets the mount path.
AnyWorkers(v) == {p \in Pids : kind[p] = "worker"}

\* The ps lines that hold "bees" and the mount path of v; "/" is a part of the
\* launchers' lines too.
WorkersAt(v) ==
  {p \in Pids : \/ v \in RootMounted /\ IsBees(p)
                \/ kind[p] = "worker" /\ <<v, birth[p].uuid>> \in PathIn}

\* find_beesd_processes(uuid, true): what it may list.  It searches for the first
\* mount path it has been given, of whichever filesystem was mounted first.
WorkerListings(u) ==
  IF Looked(u) = {} THEN {{}} ELSE {WorkersAt(v) : v \in Looked(u)}

\* The first line of a ps listing: the lowest PID.
IsFirst(p, S) == p \in S /\ \A q \in S : p <= q

\* The kernel gives PIDs in ascending order.
IsFresh(p) == IsFirst(p, {q \in Pids : kind[q] = "unborn"})

-----------------------------------------------------------------------------
(* Control. *)

Goto(c, label) == pc' = [pc EXCEPT ![c] = label]

Set(var, c, value) == [var EXCEPT ![c] = value]

Idle(c, r) ==
  /\ Goto(c, "idle")
  /\ op' = Set(op, c, None)
  /\ routine' = Set(routine, c, None)
  /\ target' = Set(target, c, None)
  /\ ret' = Set(ret, c, r)

\* A function returns r.  beesrestart goes on from beesstop to beesstart; every
\* other return ends the operation.
Return(c, r) ==
  /\ IF op[c] = "restart" /\ routine[c] = "stop"
     THEN /\ Goto(c, "config")
          /\ routine' = Set(routine, c, "start")
          /\ UNCHANGED <<op, target, ret>>
     ELSE Idle(c, r)
  /\ held' = Set(held, c, NoPid)
  /\ todo' = Set(todo, c, {})
  /\ snap' = Set(snap, c, {})
  /\ polls' = Set(polls, c, 0)

\* The caller goes on to label with pid in hand.
Hold(c, pid, label) ==
  /\ Goto(c, label)
  /\ held' = Set(held, c, pid)
  /\ UNCHANGED <<callVars, todo, snap, polls>>

\* beesstatus has answered st: what each function that asked does next.
StatusIs(c, st) ==
  \/ routine[c] = "status" /\ Return(c, st)
  \/ routine[c] = "clean" /\ st = "running" /\ Return(c, "done")
  \/ routine[c] = "clean" /\ st # "running" /\ Hold(c, NoPid, "cleanpid")
  \/ routine[c] = "stop" /\ st # "running" /\ Return(c, "true")
  \/ routine[c] = "stop" /\ st = "running" /\ Hold(c, NoPid, "ps")
  \/ routine[c] = "start" /\ st = "running" /\ Hold(c, NoPid, "baseline")
  \/ routine[c] = "start" /\ st # "running" /\ Hold(c, NoPid, "grab")
  \/ /\ routine[c] = "restart"
     /\ Goto(c, IF st = "running" THEN "readpid" ELSE "config")
     /\ routine' = Set(routine, c, IF st = "running" THEN "stop" ELSE "start")
     /\ held' = Set(held, c, NoPid)
     /\ UNCHANGED <<op, target, ret, todo, snap, polls>>

\* create_started_with_n_gb_file: written once and never replaced.  Without a
\* mount get_space::free returns (unsigned long long) -1, which is > 0.
CreateBaseline(u) ==
  \/ baseline[u] # "none" /\ UNCHANGED baseline
  \/ /\ baseline[u] = "none"
     /\ \E b \in IF Looked(u) # {} THEN {"none", "bytes"} ELSE {"unknown"} :
          baseline' = Set(baseline, u, b)

-----------------------------------------------------------------------------
Init ==
  /\ kind = [p \in Pids |-> "unborn"]
  /\ birth = [p \in Pids |-> [uuid |-> None, by |-> None]]
  /\ doomed = {}
  /\ mounted \in SUBSET UUIDs
  /\ config \in SUBSET UUIDs
  /\ pidfile = [u \in UUIDs |-> NoPid]
  /\ baseline = [u \in UUIDs |-> "none"]
  /\ pc = [c \in Callers |-> "idle"]
  /\ op = [c \in Callers |-> None]
  /\ routine = [c \in Callers |-> None]
  /\ target = [c \in Callers |-> None]
  /\ held = [c \in Callers |-> NoPid]
  /\ todo = [c \in Callers |-> {}]
  /\ snap = [c \in Callers |-> {}]
  /\ polls = [c \in Callers |-> 0]
  /\ ret = [c \in Callers |-> "none"]

\* A caller is asked for an operation.
Begin(c, o, u) ==
  /\ pc[c] = "idle"
  /\ Goto(c, IF o = "start" THEN "config" ELSE "readpid")
  /\ op' = Set(op, c, o)
  /\ routine' = Set(routine, c, o)
  /\ target' = Set(target, c, u)
  /\ ret' = Set(ret, c, "none")
  /\ UNCHANGED <<procVars, envVars, fileVars, locals>>

\* beesstart 1): without a configuration file it refuses.
CheckConfig(c) ==
  /\ pc[c] = "config"
  /\ IF target[c] \in config
     THEN Hold(c, NoPid, "readpid")
     ELSE Return(c, "false")
  /\ UNCHANGED <<procVars, envVars, fileVars>>

-----------------------------------------------------------------------------
(* beesstatus. *)

\* check_if_pidfile_process_is_running reads the file ...
ReadPidfile(c) ==
  /\ pc[c] = "readpid"
  /\ LET pid == pidfile[target[c]]
     IN  Hold(c, pid, IF pid = NoPid THEN "scan" ELSE "probe")
  /\ UNCHANGED <<procVars, envVars, fileVars>>

\* Defect: the file is removed whether or not the process lives.
ProbePidDropsFile(c) ==
  /\ pc[c] = "probe"
  /\ pidfile' = Set(pidfile, target[c], NoPid)
  /\ IF Alive(held[c]) THEN StatusIs(c, "running") ELSE Hold(c, NoPid, "scan")
  /\ UNCHANGED <<procVars, envVars, baseline>>

\* ... and probes the PID it read; when nothing has it the file goes, whatever
\* it names by now.
ProbePid(c) ==
  /\ pc[c] = "probe"
  /\ \/ /\ Alive(held[c])
        /\ StatusIs(c, "running")
        /\ UNCHANGED fileVars
     \/ /\ ~Alive(held[c])
        /\ pidfile' = Set(pidfile, target[c], NoPid)
        /\ Hold(c, NoPid, "scan")
        /\ UNCHANGED baseline
  /\ UNCHANGED <<procVars, envVars>>

\* The search for a worker by mount path.
ScanWorkers(c) ==
  /\ pc[c] = "scan"
  /\ \E found \in WorkerListings(target[c]) :
         \/ found = {} /\ Hold(c, NoPid, "judge")
         \/ \E p \in found : IsFirst(p, found) /\ Hold(c, p, "adopt")
  /\ UNCHANGED <<procVars, envVars, fileVars>>

\* A worker without a PID file gets one.
Adopt(c) ==
  /\ pc[c] = "adopt"
  /\ pidfile' = Set(pidfile, target[c], held[c])
  /\ StatusIs(c, "running")
  /\ UNCHANGED <<procVars, envVars, baseline>>

\* No process: configured or not.
Judge(c) ==
  /\ pc[c] = "judge"
  /\ StatusIs(c, IF target[c] \in config THEN "stopped" ELSE "unconfigured")
  /\ UNCHANGED <<procVars, envVars, fileVars>>

-----------------------------------------------------------------------------
(* beesstart. *)

\* Defect: what runs already is not looked for.
GrabNothing(c) ==
  /\ pc[c] = "grab"
  /\ Hold(c, NoPid, "fork")
  /\ UNCHANGED <<procVars, envVars, fileVars>>

\* Defect: workers are looked for, a launcher that has none yet is overlooked.
GrabWorkers(c) ==
  /\ pc[c] = "grab"
  /\ \E lines \in WorkerListings(target[c]) :
         \/ lines = {} /\ Hold(c, NoPid, "fork")
         \/ \E p \in lines : IsFirst(p, lines) /\ Hold(c, p, "writepid")
  /\ UNCHANGED <<procVars, envVars, fileVars>>

\* grab_one_beesd_process_and_kill_the_rest lists the processes that hold the
\* UUID: the first is kept, and without any beesstart launches one.
Grab(c) ==
  /\ pc[c] = "grab"
  /\ LET lines == ProcessLines(target[c])
     IN  \/ lines = {} /\ Hold(c, NoPid, "fork")
         \/ \E p \in lines :
              /\ IsFirst(p, lines)
              /\ Goto(c, "killrest")
              /\ held' = Set(held, c, p)
              /\ todo' = Set(todo, c, lines \ {p})
              /\ UNCHANGED <<callVars, snap, polls>>
  /\ UNCHANGED <<procVars, envVars, fileVars>>

\* One turn of its loop: SIGTERM and, when the process outlives 50 ms, SIGKILL.
KillRest(c) ==
  /\ pc[c] = "killrest"
  /\ \E p \in todo[c] :
       /\ IsFirst(p, todo[c])
       /\ doomed' = IF Alive(p) THEN doomed \cup {p} ELSE doomed
       /\ todo' = Set(todo, c, todo[c] \ {p})
  /\ UNCHANGED <<kind, birth, envVars, fileVars, pc, callVars, held, snap, polls>>

\* The loop is over: the one kept goes into the PID file.
KeepFirst(c) ==
  /\ pc[c] = "killrest"
  /\ todo[c] = {}
  /\ CreateBaseline(target[c])
  /\ Goto(c, "writepid")
  /\ UNCHANGED <<procVars, envVars, pidfile, callVars, locals>>

WritePid(c) ==
  /\ pc[c] = "writepid"
  /\ pidfile' = Set(pidfile, target[c], held[c])
  /\ Hold(c, NoPid, "baseline")
  /\ UNCHANGED <<procVars, envVars, baseline>>

\* The double fork and the exec of beesd.
Launch(c) ==
  /\ pc[c] = "fork"
  /\ \E p \in Pids :
       /\ IsFresh(p)
       /\ kind' = Set(kind, p, "launcher")
       /\ birth' = Set(birth, p, [uuid |-> target[c], by |-> c])
  /\ Goto(c, "wait")
  /\ UNCHANGED <<doomed, envVars, fileVars, callVars, locals>>

\* fork fails, or beesd cannot be found or executed: only the first is told.
LaunchFails(c) ==
  /\ pc[c] = "fork"
  /\ \/ Return(c, "false")
     \/ Hold(c, NoPid, "wait")
  /\ UNCHANGED <<procVars, envVars, fileVars>>

\* Defect: the retries are not counted against the limit.
PollWorkerForever(c) ==
  /\ pc[c] = "wait"
  /\ \E found \in WorkerListings(target[c]) :
       IF found # {}
       THEN Hold(c, NoPid, "rescan")
       ELSE polls' = Set(polls, c, polls[c] + 1) /\ UNCHANGED <<pc, callVars, held, todo, snap>>
  /\ UNCHANGED <<procVars, envVars, fileVars>>

\* wait_for_bees_worker looks, then sleeps; the last sleep ends in no look.
PollWorker(c) ==
  /\ pc[c] = "wait"
  /\ \E found \in WorkerListings(target[c]) :
       \/ found # {} /\ Hold(c, NoPid, "rescan")
       \/ /\ found = {}
          /\ polls[c] + 1 < MaxRetries
          /\ polls' = Set(polls, c, polls[c] + 1)
          /\ UNCHANGED <<pc, callVars, held, todo, snap>>
       \/ /\ found = {}
          /\ polls[c] + 1 >= MaxRetries
          /\ Return(c, "false")
  /\ UNCHANGED <<procVars, envVars, fileVars>>

\* A second search decides what goes into the PID file.
Rescan(c) ==
  /\ pc[c] = "rescan"
  /\ \E found \in WorkerListings(target[c]) :
         \/ found = {} /\ Hold(c, NoPid, "baseline")
         \/ \E p \in found : IsFirst(p, found) /\ Hold(c, p, "writepid")
  /\ UNCHANGED <<procVars, envVars, fileVars>>

Baseline(c) ==
  /\ pc[c] = "baseline"
  /\ CreateBaseline(target[c])
  /\ Return(c, "true")
  /\ UNCHANGED <<procVars, envVars, pidfile>>

-----------------------------------------------------------------------------
(* beesstop and beescleanlogfiles. *)

\* The listing that decides which processes are terminated.
ListProcesses(c) ==
  /\ pc[c] = "ps"
  /\ LET lines == ProcessLines(target[c])
     IN  /\ Goto(c, IF lines = {} THEN "cleanpid" ELSE "term")
         /\ todo' = Set(todo, c, lines)
         /\ snap' = Set(snap, c, lines)
  /\ UNCHANGED <<procVars, envVars, fileVars, callVars, held, polls>>

\* SIGTERM to the next line's PID, or the end of the loop.  Processes may exit
\* at any time, so that the signal needs no effect of its own.
Terminate(c) ==
  /\ pc[c] = "term"
  /\ \/ todo[c] = {} /\ Hold(c, NoPid, "cleanpid")
     \/ \E p \in todo[c] : IsFirst(p, todo[c]) /\ Hold(c, p, "await")
  /\ UNCHANGED <<procVars, envVars, fileVars>>

\* Defect: no SIGKILL when the time is over.
AwaitExitNoKill(c) ==
  /\ pc[c] = "await"
  /\ Goto(c, "term")
  /\ todo' = Set(todo, c, todo[c] \ {held[c]})
  /\ held' = Set(held, c, NoPid)
  /\ UNCHANGED <<procVars, envVars, fileVars, callVars, snap, polls>>

\* Defect: the wait has no limit.
AwaitExitForever(c) == pc[c] = "await" /\ ~Alive(held[c]) /\ AwaitExitNoKill(c)

\* The process has gone, or has had its 15 seconds and gets SIGKILL.
AwaitExit(c) ==
  /\ pc[c] = "await"
  /\ doomed' = IF Alive(held[c]) THEN doomed \cup {held[c]} ELSE doomed
  /\ Goto(c, "term")
  /\ todo' = Set(todo, c, todo[c] \ {held[c]})
  /\ held' = Set(held, c, NoPid)
  /\ UNCHANGED <<kind, birth, envVars, fileVars, callVars, snap, polls>>

\* clean_pid_file_for_uuid removes the file, whatever it names.
CleanPidfile(c) ==
  /\ pc[c] = "cleanpid"
  /\ pidfile' = Set(pidfile, target[c], NoPid)
  /\ Return(c, IF routine[c] = "stop" THEN "true" ELSE "done")
  /\ UNCHANGED <<procVars, envVars, baseline>>

-----------------------------------------------------------------------------
(* What happens around the callers. *)

\* The caller's process dies; what it had written and launched stays.
Crash(c) ==
  /\ pc[c] # "idle"
  /\ Idle(c, "none")
  /\ held' = Set(held, c, NoPid)
  /\ todo' = Set(todo, c, {})
  /\ snap' = Set(snap, c, {})
  /\ polls' = Set(polls, c, 0)
  /\ UNCHANGED <<procVars, envVars, fileVars>>

\* beesd starts the worker (external).
SpawnWorker(l, p) ==
  /\ kind[l] = "launcher"
  /\ IsFresh(p)
  /\ kind' = [kind EXCEPT ![l] = "parent", ![p] = "worker"]
  /\ birth' = Set(birth, p, birth[l])
  /\ UNCHANGED <<doomed, envVars, fileVars, pc, callVars, locals>>

\* A process exits: of itself, after SIGTERM or after SIGKILL.
Exit(p) ==
  /\ Alive(p)
  /\ kind' = Set(kind, p, "gone")
  /\ doomed' = doomed \ {p}
  /\ UNCHANGED <<birth, envVars, fileVars, pc, callVars, locals>>

\* The kernel gives a PID out again, to an unrelated program.
Recycle(p) ==
  /\ p \in Reused
  /\ kind[p] = "gone"
  /\ kind' = Set(kind, p, "foreign")
  /\ birth' = Set(birth, p, [uuid |-> None, by |-> None])
  /\ UNCHANGED <<doomed, envVars, fileVars, pc, callVars, locals>>

Mount(u) ==
  /\ u \in Volatile
  /\ u \notin mounted
  /\ mounted' = mounted \cup {u}
  /\ UNCHANGED <<procVars, config, fileVars, pc, callVars, locals>>

Unmount(u) ==
  /\ u \in Volatile
  /\ u \in mounted
  /\ mounted' = mounted \ {u}
  /\ UNCHANGED <<procVars, config, fileVars, pc, callVars, locals>>

\* The setup clause writes the configuration file, or removes it ("remove"),
\* asking nobody whether bees is running.
Setup(u) ==
  /\ u \in Volatile
  /\ u \notin config
  /\ config' = config \cup {u}
  /\ UNCHANGED <<procVars, mounted, fileVars, pc, callVars, locals>>

RemoveConfig(u) ==
  /\ u \in Volatile
  /\ u \in config
  /\ config' = config \ {u}
  /\ UNCHANGED <<procVars, mounted, fileVars, pc, callVars, locals>>

-----------------------------------------------------------------------------
Step(c) ==
  \/ CheckConfig(c)
  \/ ReadPidfile(c)
  \/ ProbePid(c)
  \/ ScanWorkers(c)
  \/ Adopt(c)
  \/ Judge(c)
  \/ Grab(c)
  \/ KillRest(c)
  \/ KeepFirst(c)
  \/ WritePid(c)
  \/ Launch(c)
  \/ LaunchFails(c)
  \/ PollWorker(c)
  \/ Rescan(c)
  \/ Baseline(c)
  \/ ListProcesses(c)
  \/ Terminate(c)
  \/ AwaitExit(c)
  \/ CleanPidfile(c)

Next ==
  \/ \E c \in Callers, o \in Requests, u \in UUIDs : Begin(c, o, u)
  \/ \E c \in Callers : Step(c)
  \/ \E c \in Callers : Crash(c)
  \/ \E l, p \in Pids : SpawnWorker(l, p)
  \/ \E p \in Pids : Exit(p)
  \/ \E p \in Pids : Recycle(p)
  \/ \E u \in UUIDs : Mount(u)
  \/ \E u \in UUIDs : Unmount(u)
  \/ \E u \in UUIDs : Setup(u)
  \/ \E u \in UUIDs : RemoveConfig(u)

Spec == Init /\ [][Next]_vars

\* A caller that is inside an operation is a running thread: it takes its next
\* step in the end.  Nothing is assumed of beesd, bees or the user.
Fairness == \A c \in Callers : WF_vars(Step(c))

FairSpec == Spec /\ Fairness

-----------------------------------------------------------------------------
(* Properties. *)

ProcTypeOK ==
  /\ kind \in [Pids -> Kinds]
  /\ birth \in [Pids -> [uuid : UUIDs \cup {None}, by : Callers \cup {None}]]
  /\ doomed \subseteq Pids

FileTypeOK ==
  /\ mounted \subseteq UUIDs
  /\ config \subseteq UUIDs
  /\ pidfile \in [UUIDs -> Pids \cup {NoPid}]
  /\ baseline \in [UUIDs -> {"none", "bytes", "unknown"}]

CallTypeOK ==
  /\ pc \in [Callers -> Labels]
  /\ op \in [Callers -> Ops \cup {None}]
  /\ routine \in [Callers -> Ops \cup {None}]
  /\ target \in [Callers -> UUIDs \cup {None}]
  /\ held \in [Callers -> Pids \cup {NoPid}]
  /\ todo \in [Callers -> SUBSET Pids]
  /\ snap \in [Callers -> SUBSET Pids]
  /\ polls \in [Callers -> 0..MaxRetries]
  /\ ret \in [Callers -> Results]

\* A caller inside an operation has a filesystem, and a PID in hand where it
\* uses one; it stops looking for a worker in time.
BusyTypeOK ==
  \A c \in Callers :
    /\ pc[c] # "idle" => target[c] \in UUIDs
    /\ pc[c] \in {"probe", "adopt", "killrest", "writepid", "await"} => held[c] \in Pids
    /\ polls[c] < MaxRetries

TypeOK == ProcTypeOK /\ FileTypeOK /\ CallTypeOK /\ BusyTypeOK

\* A caller that launches has seen no process of that filesystem, so that among
\* the processes one caller has launched at most one worker of a filesystem
\* lives, however often it starts, stops, times out or dies in between.  With a
\* single caller this is the promise of pidfilemgmt.cpp:320-323, one worker for
\* a UUID; callers that overlap have one each.
WorkersPerCaller ==
  \A p, q \in Pids :
    /\ kind[p] = "worker" /\ kind[q] = "worker"
    /\ birth[p].uuid = birth[q].uuid
    /\ birth[p].by = birth[q].by
    => p = q

\* The kinds of the bees processes a caller has launched for a filesystem.
SlotOf(s) == {kind[p] : p \in {q \in ProcessLines(s[1]) : birth[q].by = s[2]}}

SlotMap == [s \in UUIDs \X Callers |-> SlotOf(s)]

Slots == INSTANCE BeesSlots WITH slot <- SlotMap

\* The process table refines the slots: a caller launches only into an empty
\* slot, and a launcher starts its one worker beside no other process
\* (beesdmgmt.cpp:311, "Ensure only one bees worker exists").
ImplementsSlots == Slots!Spec

\* A PID file names a process that was started for its own filesystem
\* (beesdmgmt.cpp:118, "more precise to avoid matching wrong processes").  The
\* search by parts of paths breaks it.
PidfileOwn ==
  \A u \in UUIDs : pidfile[u] # NoPid => birth[pidfile[u]].uuid = u

\* The texts make a process of v pass for the worker of u: a mount path that is
\* found for the device of u is a part of its command line.
Confusable(u, v) ==
  \E w \in UUIDs : <<u, w>> \in InDevice /\ (w \in RootMounted \/ <<w, v>> \in PathIn)

\* What is true of PID files instead of PidfileOwn: the one of u names a process
\* of u, or of a filesystem whose texts contain those of u, or a PID that a
\* stranger has got since, for which kill(pid, 0) answers as for the daemon
\* (pidfilemgmt.cpp:103).  The last two are wrong, and all that is.
PidfileMatched ==
  \A u \in UUIDs : LET p == pidfile[u] IN
    p # NoPid => birth[p].uuid = u \/ Confusable(u, birth[p].uuid) \/ Reborn(p)

\* SIGKILL never reaches the daemon of another filesystem than the caller's
\* (beesdmgmt.cpp:450-470).  It does reach a stranger that has got the PID of a
\* listed process: the loop asks kill(pid, 0) alone.
KillsOwn ==
  [][\A p \in doomed' \ doomed :
       Reborn(p) \/ \E c \in Callers : birth[p].uuid = target[c]]_vars

\* When beesstop comes to its cleanup, each process it listed is gone or has
\* SIGKILL pending (beesdmgmt.cpp:449-474).
StopKillsListed ==
  \A c \in Callers :
    pc[c] = "cleanpid" => \A p \in snap[c] : IsBees(p) => p \in doomed

\* While callers do not overlap, only beesstop removes the PID file of a live
\* process (beesdmgmt.cpp:545, "Only clean PID file if beesd is not running").
OnlyStopDropsLivePidfile ==
  [][\A u \in UUIDs :
       /\ pidfile[u] # NoPid
       /\ Alive(pidfile[u])
       /\ pidfile'[u] = NoPid
       => \E c \in Callers : routine[c] = "stop" /\ target[c] = u]_vars

\* Every operation comes to an end, whatever beesd and bees do: the wait for a
\* worker and the wait for a process to exit are bounded.
OperationsEnd == \A c \in Callers : pc[c] # "idle" ~> pc[c] = "idle"

\* At most one worker of a filesystem that is not about to be killed
\* (pidfilemgmt.cpp:320-323).  Two callers break it.
AtMostOneWorker ==
  \A p, q \in Pids :
    /\ kind[p] = "worker" /\ kind[q] = "worker"
    /\ birth[p].uuid = birth[q].uuid
    /\ p \notin doomed /\ q \notin doomed
    => p = q

\* beesstop has reported success and nothing of the filesystem goes on running
\* (beesdmgmt.cpp:415).
StopEndsDaemon ==
  [][\A c \in Callers :
       /\ Step(c)
       /\ routine[c] = "stop"
       /\ routine'[c] # "stop"
       => ProcessLines(target[c]) \subseteq doomed]_vars
=============================================================================
