-------------------------- MODULE BeesFilesProofs --------------------------
(***************************************************************************)
(* Theorems about what the life-cycle operations do with the PIDs they     *)
(* have read: which PID file they write them to, which processes they      *)
(* kill, and what beesstop leaves behind.                                  *)
(***************************************************************************)
EXTENDS BeesLifecycleProofs

-----------------------------------------------------------------------------
(* The callers' local variables. *)

\* A step of one caller leaves the others where they are.
LEMMA OthersStay ==
  ASSUME TypeOK, NEW c \in Callers, Step(c), NEW d \in Callers, d # c
  PROVE  /\ pc'[d] = pc[d] /\ target'[d] = target[d] /\ held'[d] = held[d]
         /\ todo'[d] = todo[d] /\ snap'[d] = snap[d]
  BY DEF Step, CheckConfig, ReadPidfile, ProbePid, ScanWorkers, Adopt, Judge, Grab, KillRest,
         KeepFirst, WritePid, Launch, LaunchFails, PollWorker, Rescan, Baseline, ListProcesses,
         Terminate, AwaitExit, CleanPidfile, StatusIs, Return, Idle, Hold, Goto, Set,
         callVars, locals, TypeOK, CallTypeOK

\* Outside the callers' steps a caller stays where it is, or is idle, or has
\* just been asked for an operation.
LEMMA AroundStays ==
  ASSUME TypeOK, [Next]_vars, ~(\E c \in Callers : Step(c)), NEW d \in Callers
  PROVE  \/ /\ pc'[d] = pc[d] /\ target'[d] = target[d] /\ held'[d] = held[d]
            /\ todo'[d] = todo[d] /\ snap'[d] = snap[d]
         \/ /\ pc'[d] = "idle" /\ todo'[d] = {} /\ snap'[d] = {}
         \/ /\ pc[d] = "idle" /\ pc'[d] \in {"config", "readpid"}
            /\ todo'[d] = todo[d] /\ snap'[d] = snap[d]
  BY DEF Next, Begin, Crash, SpawnWorker, Exit, Recycle, Mount, Unmount, Setup, RemoveConfig,
         Idle, Goto, Set, vars, callVars, locals, TypeOK, CallTypeOK

-----------------------------------------------------------------------------
(* The listings a caller works through are of its own filesystem. *)

Looping == {"killrest", "term", "await"}

\* What is in todo was listed for the caller's filesystem, or has gone to a
\* stranger since; todo is empty outside the two loops that use it.
ListInv ==
  \A c \in Callers :
    /\ \A p \in todo[c] : Reborn(p) \/ birth[p].uuid = target[c]
    /\ pc[c] \notin Looping => todo[c] = {}
    /\ pc[c] = "await" => held[c] \in todo[c]

\* A caller's own step keeps its listing its own.
LEMMA StepLists ==
  ASSUME TypeOK, ListInv, NEW c \in Callers, Step(c), ~Launch(c)
  PROVE  /\ \A p \in todo'[c] : Reborn(p) \/ birth[p].uuid = target'[c]
         /\ pc'[c] \notin Looping => todo'[c] = {}
         /\ pc'[c] = "await" => held'[c] \in todo'[c]
<1>1. CASE Grab(c)
  <2>1. pc[c] \notin Looping /\ todo[c] = {} /\ target' = target
    BY <1>1 DEF Grab, Hold, callVars, Looping, ListInv
  <2>2. CASE Hold(c, NoPid, "fork")
    BY <2>1, <2>2 DEF Hold, Goto, TypeOK, CallTypeOK
  <2>3. CASE \E p \in Pids : Goto(c, "killrest") /\ todo' = Set(todo, c, ProcessLines(target[c]) \ {p})
    BY <2>1, <2>3 DEF ProcessLines, Goto, Set, Looping, TypeOK, CallTypeOK
  <2>4. QED
    BY <1>1, <2>2, <2>3 DEF Grab, IsFirst, ProcessLines
<1>2. CASE KillRest(c)
  BY <1>2 DEF KillRest, Goto, Set, callVars, Looping, ListInv, TypeOK, CallTypeOK
<1>3. CASE KeepFirst(c)
  BY <1>3 DEF KeepFirst, Goto, Set, callVars, locals, Looping, ListInv, TypeOK, CallTypeOK
<1>4. CASE ListProcesses(c)
  BY <1>4 DEF ListProcesses, Goto, Set, callVars, ProcessLines, Looping, ListInv, TypeOK, CallTypeOK
<1>5. CASE Terminate(c)
  <2>1. todo' = todo /\ target' = target
    BY <1>5 DEF Terminate, Hold, callVars
  <2>2. CASE todo[c] = {} /\ Hold(c, NoPid, "cleanpid")
    BY <2>1, <2>2 DEF Hold, Goto, TypeOK, CallTypeOK
  <2>3. CASE \E p \in todo[c] : Hold(c, p, "await")
    BY <2>1, <2>3 DEF Hold, Goto, Set, Looping, ListInv, TypeOK, CallTypeOK
  <2>4. QED
    BY <1>5, <2>2, <2>3 DEF Terminate
<1>6. CASE AwaitExit(c)
  BY <1>6 DEF AwaitExit, Goto, Set, callVars, Looping, ListInv, TypeOK, CallTypeOK
<1>7. CASE ~(Grab(c) \/ KillRest(c) \/ KeepFirst(c) \/ ListProcesses(c) \/ Terminate(c) \/ AwaitExit(c))
  <2>1. pc[c] \notin Looping
    BY <1>7 DEF Step, CheckConfig, ReadPidfile, ProbePid, ScanWorkers, Adopt, Judge, WritePid,
       Launch, LaunchFails, PollWorker, Rescan, Baseline, CleanPidfile, Looping
  <2>2. todo[c] = {}
    BY <2>1 DEF ListInv
  <2>3. todo'[c] = {} /\ pc'[c] \notin Looping
    BY <1>7, <2>2 DEF Step, CheckConfig, ReadPidfile, ProbePid, ScanWorkers, Adopt, Judge,
       WritePid, LaunchFails, PollWorker, Rescan, Baseline, CleanPidfile, StatusIs, Return,
       Idle, Hold, Goto, Set, Looping, callVars, TypeOK, CallTypeOK
  <2>4. QED
    BY <2>3 DEF Looping
<1>8. QED
  BY <1>1, <1>2, <1>3, <1>4, <1>5, <1>6, <1>7

LEMMA ListStep ==
  ASSUME TypeOK, TypeOK', BirthInv, ListInv, [Next]_vars
  PROVE  ListInv'
<1>1. ASSUME NEW d \in Callers, NEW p \in todo[d]
      PROVE  Reborn(p)' \/ birth'[p].uuid = target[d]
  <2>1. (Reborn(p) \/ birth[p].uuid = target[d]) /\ pc[d] \in Looping /\ p \in Pids
    BY <1>1 DEF ListInv, TypeOK, CallTypeOK
  <2>2. Reborn(p) \/ birth[p].uuid \in UUIDs
    BY <2>1 DEF TypeOK, BusyTypeOK, Looping
  <2>3. QED
    BY <2>1, <2>2, BirthLasts
<1>2. CASE \E c \in Callers : Step(c)
  <2>1. PICK c \in Callers : Step(c)
    BY <1>2
  <2>2. ASSUME NEW d \in Callers, d # c
        PROVE  /\ \A p \in todo'[d] : Reborn(p)' \/ birth'[p].uuid = target'[d]
               /\ pc'[d] \notin Looping => todo'[d] = {}
               /\ pc'[d] = "await" => held'[d] \in todo'[d]
    BY <1>1, <2>1, <2>2, OthersStay DEF ListInv
  <2>3. CASE Launch(c)
    <3>1. todo' = todo /\ target' = target /\ pc'[c] = "wait" /\ todo[c] = {}
      BY <2>3 DEF Launch, locals, callVars, Goto, ListInv, Looping, TypeOK, CallTypeOK
    <3>2. QED
      BY <2>2, <3>1 DEF ListInv, Looping
  <2>4. CASE ~Launch(c)
    <3>1. birth' = birth /\ kind' = kind
      BY <2>1, <2>4
      DEF Step, CheckConfig, ReadPidfile, ProbePid, ScanWorkers, Adopt, Judge, Grab, KillRest,
          KeepFirst, WritePid, LaunchFails, PollWorker, Rescan, Baseline, ListProcesses,
          Terminate, AwaitExit, CleanPidfile, procVars
    <3>2. QED
      BY <2>1, <2>2, <2>4, <3>1, StepLists DEF ListInv, Reborn
  <2>5. QED
    BY <2>3, <2>4
<1>3. CASE ~(\E c \in Callers : Step(c))
  BY <1>1, <1>3, AroundStays DEF ListInv, Looping
<1>4. QED
  BY <1>2, <1>3

LEMMA ListInvariant == Spec => []ListInv
<1>1. Init => ListInv
  BY DEF Init, ListInv, Looping
<1>2. QED
  BY <1>1, ListStep, TypeCorrect, BirthInvariant, PTL DEF Spec

\* SIGKILL never reaches the daemon of another filesystem than the one whose
\* operation the caller runs, even when it acts on an old listing: only a PID that
\* a stranger has got since is killed wrongly.
THEOREM OnlyOwnKilled == Spec => KillsOwn
<1>1. TypeOK /\ ListInv /\ [Next]_vars
        => [\A p \in doomed' \ doomed :
              Reborn(p) \/ \E c \in Callers : birth[p].uuid = target[c]]_vars
  <2> SUFFICES ASSUME TypeOK, ListInv, Next, NEW p \in doomed', p \notin doomed
               PROVE  Reborn(p) \/ \E c \in Callers : birth[p].uuid = target[c]
    BY DEF vars, procVars
  <2>1. PICK c \in Callers : KillRest(c) \/ AwaitExit(c)
    BY DEF Next, Step, Begin, Crash, SpawnWorker, Exit, Recycle, Mount, Unmount, Setup,
           RemoveConfig, CheckConfig, ReadPidfile, ProbePid, ScanWorkers, Adopt, Judge, Grab,
           KeepFirst, WritePid, Launch, LaunchFails, PollWorker, Rescan, Baseline,
           ListProcesses, Terminate, CleanPidfile, procVars
  <2>2. p \in todo[c]
    BY <2>1 DEF KillRest, AwaitExit, ListInv, IsFirst
  <2>3. QED
    BY <2>2 DEF ListInv
<1>2. QED
  BY <1>1, ListInvariant, TypeCorrect, PTL DEF Spec, KillsOwn

-----------------------------------------------------------------------------
(* PID files. *)

\* p may be taken for a process of u.
Matched(p, u) ==
  birth[p].uuid = u \/ (birth[p].uuid \in UUIDs /\ Confusable(u, birth[p].uuid)) \/ Reborn(p)

\* A PID file, and a PID that is on its way into one, is one that the searches
\* take for a process of that filesystem.
HeldInv ==
  /\ \A u \in UUIDs : pidfile[u] # NoPid => Matched(pidfile[u], u)
  /\ \A c \in Callers :
       pc[c] \in {"adopt", "killrest", "writepid"} => Matched(held[c], target[c])

\* The search for workers lists what the texts allow.
LEMMA ListedMatch ==
  ASSUME BirthInv, NEW u \in UUIDs, mounted \subseteq UUIDs,
         NEW S \in WorkerListings(u), NEW p \in S
  PROVE  p \in Pids /\ Matched(p, u)
<1>1. PICK v \in UUIDs : <<u, v>> \in InDevice /\ p \in WorkersAt(v)
  BY DEF WorkerListings, Looked
<1>2. p \in Pids /\ IsBees(p) /\ (v \in RootMounted \/ <<v, birth[p].uuid>> \in PathIn)
  BY <1>1 DEF WorkersAt, IsBees
<1>3. birth[p].uuid \in UUIDs
  BY <1>2 DEF BirthInv
<1>4. QED
  BY <1>1, <1>2, <1>3 DEF Matched, Confusable

\* What may be taken for a process of u may be so after any step.
LEMMA MatchLasts ==
  ASSUME TypeOK, BirthInv, [Next]_vars,
         NEW u \in UUIDs, NEW p \in Pids, Matched(p, u)
  PROVE  Matched(p, u)'
<1>1. birth'[p] = birth[p] \/ Reborn(p)'
  BY BirthLasts DEF Matched
<1>2. Reborn(p) => Reborn(p)'
  BY BirthLasts
<1>3. QED
  BY <1>1, <1>2 DEF Matched, Confusable

\* A caller's own step, while the PIDs keep their owners.
LEMMA StepHolds ==
  ASSUME TypeOK, BirthInv, HeldInv, NEW c \in Callers, Step(c), ~Launch(c)
  PROVE  pc'[c] \in {"adopt", "killrest", "writepid"} => Matched(held'[c], target'[c])
<1>0. ASSUME NEW S \in WorkerListings(target[c]), NEW p \in S, NEW l, pc[c] # "idle",
             Hold(c, p, l)
      PROVE  Matched(held'[c], target'[c])
  <2>1. target[c] \in UUIDs /\ held'[c] = p /\ target'[c] = target[c]
    BY <1>0 DEF Hold, Goto, Set, callVars, TypeOK, CallTypeOK, BusyTypeOK
  <2>2. QED
    BY <1>0, <2>1, ListedMatch DEF TypeOK, FileTypeOK
<1>1. CASE ScanWorkers(c)
  <2>1. CASE Hold(c, NoPid, "judge")
    BY <2>1 DEF Hold, Goto, TypeOK, CallTypeOK
  <2>2. CASE \E S \in WorkerListings(target[c]) : \E p \in S : Hold(c, p, "adopt")
    BY <1>0, <1>1, <2>2 DEF ScanWorkers
  <2>3. QED
    BY <1>1, <2>1, <2>2 DEF ScanWorkers
<1>2. CASE Grab(c)
  <2>1. CASE Hold(c, NoPid, "fork")
    BY <2>1 DEF Hold, Goto, TypeOK, CallTypeOK
  <2>2. CASE \E p \in ProcessLines(target[c]) : held' = Set(held, c, p) /\ target' = target
    BY <2>2 DEF ProcessLines, Matched, Set, TypeOK, CallTypeOK
  <2>3. QED
    BY <1>2, <2>1, <2>2 DEF Grab, IsFirst, callVars, ProcessLines
<1>3. CASE KillRest(c) \/ KeepFirst(c)
  BY <1>3 DEF KillRest, KeepFirst, Goto, callVars, locals, HeldInv, TypeOK, CallTypeOK
<1>4. CASE Rescan(c)
  <2>1. CASE Hold(c, NoPid, "baseline")
    BY <2>1 DEF Hold, Goto, TypeOK, CallTypeOK
  <2>2. CASE \E S \in WorkerListings(target[c]) : \E p \in S : Hold(c, p, "writepid")
    BY <1>0, <1>4, <2>2 DEF Rescan
  <2>3. QED
    BY <1>4, <2>1, <2>2 DEF Rescan
<1>5. CASE ~(ScanWorkers(c) \/ Grab(c) \/ KillRest(c) \/ KeepFirst(c) \/ Rescan(c))
  BY <1>5
  DEF Step, CheckConfig, ReadPidfile, ProbePid, Adopt, Judge, WritePid, LaunchFails,
      PollWorker, Baseline, ListProcesses, Terminate, AwaitExit, CleanPidfile, StatusIs, Return,
      Idle, Hold, Goto, Set, callVars, locals, TypeOK, CallTypeOK
<1>6. QED
  BY <1>1, <1>2, <1>3, <1>4, <1>5

\* What a step does to the PID files: it removes one, or writes what its caller
\* has in hand.
LEMMA StepWrites ==
  ASSUME TypeOK, NEW c \in Callers, Step(c), NEW u \in UUIDs
  PROVE  \/ pidfile'[u] \in {pidfile[u], NoPid}
         \/ pc[c] \in {"adopt", "writepid"} /\ u = target[c] /\ pidfile'[u] = held[c]
  BY DEF Step, CheckConfig, ReadPidfile, ProbePid, ScanWorkers, Adopt, Judge, Grab, KillRest,
         KeepFirst, WritePid, Launch, LaunchFails, PollWorker, Rescan, Baseline, ListProcesses,
         Terminate, AwaitExit, CleanPidfile, CreateBaseline, Set, fileVars, TypeOK, FileTypeOK

LEMMA HeldStep ==
  ASSUME TypeOK, TypeOK', BirthInv, HeldInv, [Next]_vars
  PROVE  HeldInv'
<1> DEFINE Writing == {"adopt", "killrest", "writepid"}
<1>1. ASSUME NEW p \in Pids, NEW u \in UUIDs, Matched(p, u)
      PROVE  Matched(p, u)'
  BY <1>1, MatchLasts
<1>2. ASSUME NEW u \in UUIDs, NEW p, p = pidfile[u], p # NoPid
      PROVE  Matched(p, u)'
  <2>1. p \in Pids /\ Matched(p, u)
    BY <1>2 DEF HeldInv, TypeOK, FileTypeOK
  <2>2. QED
    BY <1>1, <2>1
<1>3. ASSUME NEW d \in Callers, pc[d] \in Writing, NEW p, NEW u, p = held[d], u = target[d]
      PROVE  Matched(p, u)'
  <2>1. p \in Pids /\ u \in UUIDs /\ Matched(p, u)
    BY <1>3 DEF HeldInv, TypeOK, BusyTypeOK
  <2>2. QED
    BY <1>1, <2>1
<1>4. CASE \E c \in Callers : Step(c)
  <2>1. PICK c \in Callers : Step(c)
    BY <1>4
  <2>2. ASSUME NEW u \in UUIDs, NEW p, p = pidfile'[u], p # NoPid
        PROVE  Matched(p, u)'
    BY <1>2, <1>3, <2>1, <2>2, StepWrites
  <2>3. ASSUME NEW d \in Callers, d # c, pc'[d] \in Writing,
               NEW p, NEW u, p = held'[d], u = target'[d]
        PROVE  Matched(p, u)'
    BY <1>3, <2>1, <2>3, OthersStay
  <2>4. ASSUME pc'[c] \in Writing, NEW p, NEW u, p = held'[c], u = target'[c]
        PROVE  Matched(p, u)'
    <3>1. ~Launch(c)
      BY <2>4 DEF Launch, Goto, TypeOK, CallTypeOK
    <3>2. Matched(p, u)
      BY <2>1, <2>4, <3>1, StepHolds
    <3>3. p \in Pids /\ u \in UUIDs
      BY <2>4 DEF TypeOK, BusyTypeOK
    <3>4. QED
      BY <1>1, <3>2, <3>3
  <2>5. QED
    BY <2>2, <2>3, <2>4 DEF HeldInv
<1>5. CASE ~(\E c \in Callers : Step(c))
  <2>1. pidfile' = pidfile
    BY <1>5 DEF Next, Begin, Crash, SpawnWorker, Exit, Recycle, Mount, Unmount, Setup,
               RemoveConfig, fileVars, vars
  <2>2. ASSUME NEW d \in Callers, pc'[d] \in Writing,
               NEW p, NEW u, p = held'[d], u = target'[d]
        PROVE  Matched(p, u)'
    BY <1>3, <1>5, <2>2, AroundStays
  <2>3. QED
    BY <1>2, <2>1, <2>2 DEF HeldInv
<1>6. QED
  BY <1>4, <1>5

LEMMA HeldInvariant == Spec => []HeldInv
<1>1. Init => HeldInv
  BY DEF Init, HeldInv
<1>2. QED
  BY <1>1, HeldStep, TypeCorrect, BirthInvariant, PTL DEF Spec

\* A PID file never names a process that is neither of its own filesystem, nor
\* of one whose texts contain those of its own, nor a stranger with the old PID.
THEOREM PidfilesMatched == Spec => []PidfileMatched
<1>1. HeldInv => PidfileMatched
  BY DEF HeldInv, Matched, PidfileMatched
<1>2. QED
  BY <1>1, HeldInvariant, PTL

\* No mount path is a part of the command line of another filesystem's process,
\* and no device name a part of another.
TextsApart ==
  /\ RootMounted = {}
  /\ \A u, v \in UUIDs : <<u, v>> \in PathIn \/ <<u, v>> \in InDevice => u = v

\* What the comment at beesdmgmt.cpp:118 says holds where no text is a part of
\* another and no PID is given out twice; the run root_mount drops the first.
THEOREM PidfilesOwn ==
  ASSUME TextsApart, Reused = {}
  PROVE  Spec => []PidfileOwn
<1> DEFINE NoStranger == \A p \in Pids : ~Reborn(p)
<1>1. Init => NoStranger
  BY DEF Init, Reborn
<1>2. TypeOK /\ BirthInv /\ NoStranger /\ [Next]_vars => NoStranger'
  <2> SUFFICES ASSUME TypeOK, BirthInv, NoStranger, [Next]_vars, NEW p \in Pids, Reborn(p)'
               PROVE  FALSE
    OBVIOUS
  <2>1. CASE Starts
    BY <2>1, ConstantsAssumption
    DEF Starts, Launch, SpawnWorker, IsFresh, IsFirst, IsBees, Reborn, BirthInv, Set, TypeOK,
        ProcTypeOK, BusyTypeOK
  <2>2. CASE ~Starts
    <3>1. birth' = birth
      BY <2>2
      DEF Next, Starts, Step, Begin, Crash, Exit, Recycle, Mount, Unmount, Setup, RemoveConfig,
          CheckConfig, ReadPidfile, ProbePid, ScanWorkers, Adopt, Judge, Grab, KillRest,
          KeepFirst, WritePid, LaunchFails, PollWorker, Rescan, Baseline, ListProcesses,
          Terminate, AwaitExit, CleanPidfile, procVars, vars
    <3>2. QED
      BY <2>2, <3>1, OtherStepsKeepBirth DEF Reborn
  <2>3. QED
    BY <2>1, <2>2
<1>3. TypeOK /\ HeldInv /\ NoStranger => PidfileOwn
  BY DEF HeldInv, Matched, Confusable, TextsApart, PidfileOwn, TypeOK, FileTypeOK
<1>4. QED
  BY <1>1, <1>2, <1>3, HeldInvariant, TypeCorrect, BirthInvariant, PTL DEF Spec

-----------------------------------------------------------------------------
(* What beesstop leaves behind. *)

\* Each process that beesstop listed is gone, or doomed, or still to be treated.
\* A listed PID was in use, and so no fork can bring it back as a bees process.
SnapInv ==
  \A c \in Callers :
    /\ \A p \in snap[c] : kind[p] # "unborn" /\ (IsBees(p) => p \in doomed \/ p \in todo[c])
    /\ pc[c] \notin {"term", "await", "cleanpid"} => snap[c] = {}
    /\ pc[c] = "cleanpid" => todo[c] = {}

\* A process that is listed and not doomed stays so until the caller kills it:
\* a PID in use is no fresh one, and a doomed process is doomed until it exits.
LEMMA ListedStays ==
  ASSUME TypeOK, [Next]_vars, NEW p \in Pids, kind[p] # "unborn"
  PROVE  /\ kind'[p] # "unborn"
         /\ IsBees(p)' => IsBees(p) /\ (p \in doomed => p \in doomed')
<1>1. CASE \E c \in Callers : Step(c)
  BY <1>1
  DEF Step, CheckConfig, ReadPidfile, ProbePid, ScanWorkers, Adopt, Judge, Grab, KillRest,
      KeepFirst, WritePid, Launch, LaunchFails, PollWorker, Rescan, Baseline, ListProcesses,
      Terminate, AwaitExit, CleanPidfile, procVars, IsBees, IsFresh, IsFirst, Set, TypeOK, ProcTypeOK
<1>2. CASE ~(\E c \in Callers : Step(c))
  BY <1>2
  DEF Next, Begin, Crash, SpawnWorker, Exit, Recycle, Mount, Unmount, Setup, RemoveConfig, vars,
      procVars, IsBees, IsFresh, IsFirst, Set, TypeOK, ProcTypeOK
<1>3. QED
  BY <1>1, <1>2

\* A caller's own step: it leaves a listed process out of todo only when that
\* is no longer alive or has just been sent SIGKILL.
LEMMA StepSnap ==
  ASSUME TypeOK, TypeOK', ListInv, SnapInv, [Next]_vars, NEW c \in Callers, Step(c)
  PROVE  /\ \A p \in snap'[c] : kind'[p] # "unborn" /\ (IsBees(p)' => p \in doomed' \/ p \in todo'[c])
         /\ pc'[c] \notin {"term", "await", "cleanpid"} => snap'[c] = {}
         /\ pc'[c] = "cleanpid" => todo'[c] = {}
<1>1. CASE ListProcesses(c)
  BY <1>1 DEF ListProcesses, Goto, Set, procVars, ProcessLines, IsBees, TypeOK, CallTypeOK
<1>2. CASE Terminate(c)
  <2>1. UNCHANGED <<kind, doomed, todo, snap>>
    BY <1>2 DEF Terminate, Hold, procVars
  <2>2. pc'[c] = "await" \/ (pc'[c] = "cleanpid" /\ todo[c] = {})
    BY <1>2 DEF Terminate, Hold, Goto, TypeOK, CallTypeOK
  <2>3. QED
    BY <2>1, <2>2 DEF SnapInv, IsBees
<1>3. CASE AwaitExit(c)
  <2>1. /\ kind' = kind /\ snap' = snap /\ pc'[c] = "term"
        /\ todo'[c] = todo[c] \ {held[c]}
        /\ doomed \subseteq doomed'
        /\ Alive(held[c]) => held[c] \in doomed'
    BY <1>3 DEF AwaitExit, Goto, Set, TypeOK, CallTypeOK
  <2>2. QED
    BY <2>1 DEF SnapInv, IsBees, Alive
<1>4. CASE ~(ListProcesses(c) \/ Terminate(c) \/ AwaitExit(c))
  <2>1. CASE pc[c] = "cleanpid"
    <3>1. snap'[c] = {} /\ pc'[c] # "cleanpid"
      BY <2>1 DEF Step, CheckConfig, ReadPidfile, ProbePid, ScanWorkers, Adopt, Judge, Grab,
         KillRest, KeepFirst, WritePid, Launch, LaunchFails, PollWorker, Rescan, Baseline,
         ListProcesses, Terminate, AwaitExit, CleanPidfile, Return, Idle, Goto, Set, TypeOK, CallTypeOK
    <3>2. QED
      BY <3>1
  <2>2. CASE pc[c] # "cleanpid"
    <3>1. pc[c] \notin {"term", "await", "cleanpid"} /\ snap[c] = {}
      BY <1>4, <2>2 DEF Step, CheckConfig, ReadPidfile, ProbePid, ScanWorkers, Adopt, Judge, Grab,
         KillRest, KeepFirst, WritePid, Launch, LaunchFails, PollWorker, Rescan, Baseline,
         CleanPidfile, SnapInv
    <3>2. snap'[c] = {}
      BY <1>4, <3>1 DEF Step, CheckConfig, ReadPidfile, ProbePid, ScanWorkers, Adopt, Judge, Grab,
         KillRest, KeepFirst, WritePid, Launch, LaunchFails, PollWorker, Rescan, Baseline,
         CleanPidfile, StatusIs, Return, Hold, Set, callVars, locals, TypeOK, CallTypeOK
    <3>3. pc'[c] = "cleanpid" => pc[c] \notin Looping /\ todo'[c] = todo[c]
      BY <1>4, <3>1 DEF Step, CheckConfig, ReadPidfile, ProbePid, ScanWorkers, Adopt, Judge, Grab,
         KillRest, KeepFirst, WritePid, Launch, LaunchFails, PollWorker, Rescan, Baseline,
         CleanPidfile, StatusIs, Return, Idle, Hold, Goto, Set, callVars, locals, Looping, TypeOK, CallTypeOK
    <3>4. QED
      BY <3>2, <3>3 DEF ListInv
  <2>3. QED
    BY <2>1, <2>2
<1>5. QED
  BY <1>1, <1>2, <1>3, <1>4

LEMMA SnapStep ==
  ASSUME TypeOK, TypeOK', ListInv, SnapInv, [Next]_vars
  PROVE  SnapInv'
<1>1. ASSUME NEW d \in Callers, NEW p \in snap[d]
      PROVE  kind'[p] # "unborn" /\ (IsBees(p)' => p \in doomed' \/ p \in todo[d])
  <2>1. p \in Pids
    BY <1>1 DEF TypeOK, CallTypeOK
  <2>2. QED
    BY <1>1, <2>1, ListedStays DEF SnapInv
<1>2. CASE \E c \in Callers : Step(c)
  <2>1. PICK c \in Callers : Step(c)
    BY <1>2
  <2>2. ASSUME NEW d \in Callers, d # c
        PROVE  /\ \A p \in snap'[d] : kind'[p] # "unborn" /\ (IsBees(p)' => p \in doomed' \/ p \in todo'[d])
               /\ pc'[d] \notin {"term", "await", "cleanpid"} => snap'[d] = {}
               /\ pc'[d] = "cleanpid" => todo'[d] = {}
    BY <1>1, <2>1, <2>2, OthersStay DEF SnapInv
  <2>3. QED
    BY <2>1, <2>2, StepSnap DEF SnapInv
<1>3. CASE ~(\E c \in Callers : Step(c))
  BY <1>1, <1>3, AroundStays DEF SnapInv
<1>4. QED
  BY <1>2, <1>3

\* When beesstop comes to its cleanup no process it listed is left that has not
\* at least SIGKILL pending, whatever other callers and the processes did
\* meanwhile.
THEOREM StopKillsAllListed == Spec => []StopKillsListed
<1>1. Init => SnapInv
  BY DEF Init, SnapInv
<1>2. TypeOK /\ TypeOK' /\ ListInv /\ SnapInv /\ [Next]_vars => SnapInv'
  BY SnapStep
<1>3. SnapInv => StopKillsListed
  BY DEF SnapInv, StopKillsListed
<1>4. QED
  BY <1>1, <1>2, <1>3, TypeCorrect, ListInvariant, PTL DEF Spec

-----------------------------------------------------------------------------
(* Which step removes the PID file of a live process. *)

\* What a caller has read of the PID file still holds when it is alone with its
\* target: the file names the PID it probes, and is gone once it has found it
\* dead.  A removal that is not beesstop's comes after that.
ReadInv ==
  \A c \in Callers :
    /\ pc[c] = "probe" => pidfile[target[c]] = held[c]
    /\ pc[c] \in {"scan", "judge"} => pidfile[target[c]] = NoPid
    /\ pc[c] \in {"ps", "term", "await"} => routine[c] = "stop"
    /\ pc[c] = "cleanpid" => routine[c] = "stop" \/ pidfile[target[c]] = NoPid

\* Operations on the same filesystem do not overlap; there may be any number of
\* callers, at work on different filesystems.
OperationsApart ==
  \A c, d \in Callers :
    pc[c] # "idle" /\ pc[d] # "idle" /\ target[c] = target[d] => c = d

\* The caller's own step.
LEMMA StepReads ==
  ASSUME TypeOK, ReadInv, NEW c \in Callers, Step(c)
  PROVE  /\ pc'[c] = "probe" => pidfile'[target'[c]] = held'[c]
         /\ pc'[c] \in {"scan", "judge"} => pidfile'[target'[c]] = NoPid
         /\ pc'[c] \in {"ps", "term", "await"} => routine'[c] = "stop"
         /\ pc'[c] = "cleanpid" => routine'[c] = "stop" \/ pidfile'[target'[c]] = NoPid
<1> USE DEF TypeOK, CallTypeOK, FileTypeOK, BusyTypeOK
<1>1. CASE ReadPidfile(c)
  BY <1>1 DEF ReadPidfile, Hold, Goto, Set, callVars, fileVars
<1>2. CASE ProbePid(c)
  <2>1. CASE Alive(held[c])
    BY <1>2, <2>1 DEF ProbePid, StatusIs, Return, Idle, Hold, Goto, Set, callVars, fileVars
  <2>2. CASE ~Alive(held[c])
    BY <1>2, <2>2 DEF ProbePid, Hold, Goto, Set, callVars
  <2>3. QED
    BY <2>1, <2>2
<1>3. CASE ScanWorkers(c)
  <2>1. pc'[c] \in {"judge", "adopt"} /\ UNCHANGED <<pidfile, target>> /\ pc[c] = "scan"
    BY <1>3 DEF ScanWorkers, Hold, Goto, callVars, fileVars
  <2>2. QED
    BY <2>1 DEF ReadInv
<1>4. CASE Judge(c)
  BY <1>4 DEF Judge, ReadInv, StatusIs, Return, Idle, Hold, Goto, Set, callVars, fileVars
<1>5. CASE Adopt(c)
  BY <1>5 DEF Adopt, StatusIs, Return, Idle, Hold, Goto, Set, callVars
<1>6. CASE ListProcesses(c) \/ Terminate(c) \/ AwaitExit(c)
  <2>1. pc'[c] \in {"term", "await", "cleanpid"} /\ routine' = routine /\ routine[c] = "stop"
    BY <1>6 DEF ListProcesses, Terminate, AwaitExit, ReadInv, Hold, Goto, callVars
  <2>2. QED
    BY <2>1
<1>7. CASE ~(\/ ReadPidfile(c) \/ ProbePid(c) \/ ScanWorkers(c) \/ Judge(c) \/ Adopt(c)
             \/ ListProcesses(c) \/ Terminate(c) \/ AwaitExit(c))
  <2>1. pc'[c] \notin {"probe", "scan", "judge", "ps", "term", "await", "cleanpid"}
    BY <1>7 DEF Step, CheckConfig, Grab, KillRest, KeepFirst, WritePid, Launch, LaunchFails,
       PollWorker, Rescan, Baseline, CleanPidfile, Return, Idle, Hold, Goto, locals
  <2>2. QED
    BY <2>1
<1>8. QED
  BY <1>1, <1>2, <1>3, <1>4, <1>5, <1>6, <1>7

LEMMA ReadStep ==
  ASSUME OperationsApart, TypeOK, ReadInv, [Next]_vars
  PROVE  ReadInv'
<1>1. CASE \E c \in Callers : Step(c)
  <2>1. PICK c \in Callers : Step(c)
    BY <1>1
  <2>2. pc[c] # "idle" /\ target[c] \in UUIDs
    BY <2>1 DEF Step, CheckConfig, ReadPidfile, ProbePid, ScanWorkers, Adopt, Judge, Grab,
       KillRest, KeepFirst, WritePid, Launch, LaunchFails, PollWorker, Rescan, Baseline,
       ListProcesses, Terminate, AwaitExit, CleanPidfile, TypeOK, BusyTypeOK
  <2>3. \A v \in UUIDs \ {target[c]} : pidfile'[v] = pidfile[v]
    BY <2>1, <2>2 DEF Step, CheckConfig, ReadPidfile, ProbePid, ScanWorkers, Adopt, Judge,
       Grab, KillRest, KeepFirst, WritePid, Launch, LaunchFails, PollWorker, Rescan, Baseline,
       ListProcesses, Terminate, AwaitExit, CleanPidfile, Set, fileVars, TypeOK, FileTypeOK
  <2>4. ASSUME NEW d \in Callers \ {c}
        PROVE  /\ pc'[d] = pc[d] /\ routine'[d] = routine[d] /\ target'[d] = target[d]
               /\ held'[d] = held[d]
    <3>1. routine'[d] = routine[d]
      BY <2>1
      DEF Step, CheckConfig, ReadPidfile, ProbePid, ScanWorkers, Adopt, Judge, Grab, KillRest,
          KeepFirst, WritePid, Launch, LaunchFails, PollWorker, Rescan, Baseline, ListProcesses,
          Terminate, AwaitExit, CleanPidfile, StatusIs, Return, Idle, Hold, Goto, Set,
          callVars, locals, TypeOK, CallTypeOK
    <3>2. QED
      BY <2>1, <3>1, OthersStay
  <2>5. ASSUME NEW d \in Callers \ {c}, pc[d] # "idle"
        PROVE  pidfile'[target[d]] = pidfile[target[d]]
    BY <2>2, <2>3, <2>5 DEF OperationsApart, TypeOK, BusyTypeOK
  <2>6. QED
    BY <2>1, <2>4, <2>5, StepReads DEF ReadInv
<1>2. CASE ~(\E c \in Callers : Step(c))
  <2>1. \A c \in Callers : pc'[c] \notin {"idle", "config", "readpid"} => routine'[c] = routine[c]
    BY <1>2 DEF Next, Begin, Crash, SpawnWorker, Exit, Recycle, Mount, Unmount, Setup,
               RemoveConfig, Idle, Goto, Set, vars, callVars, TypeOK, CallTypeOK
  <2>2. pidfile' = pidfile
    BY <1>2 DEF Next, Begin, Crash, SpawnWorker, Exit, Recycle, Mount, Unmount, Setup,
               RemoveConfig, fileVars, vars
  <2>3. QED
    BY <1>2, <2>1, <2>2, AroundStays DEF ReadInv
<1>3. QED
  BY <1>1, <1>2

\* While operations on the same filesystem do not overlap, a PID file that names
\* a live process is removed by beesstop for its filesystem and by nothing else.
THEOREM OnlyStopDrops == Spec /\ []OperationsApart => OnlyStopDropsLivePidfile
<1>1. Init => ReadInv
  BY DEF Init, ReadInv
<1>2. OperationsApart /\ TypeOK /\ ReadInv /\ [Next]_vars => ReadInv'
  BY ReadStep
<1>3. TypeOK /\ ReadInv /\ [Next]_vars
        => [\A u \in UUIDs :
              /\ pidfile[u] # NoPid
              /\ Alive(pidfile[u])
              /\ pidfile'[u] = NoPid
              => \E c \in Callers : routine[c] = "stop" /\ target[c] = u]_vars
  <2> SUFFICES ASSUME TypeOK, ReadInv, Next, NEW u \in UUIDs,
                      pidfile[u] # NoPid, Alive(pidfile[u]), pidfile'[u] = NoPid
               PROVE  \E c \in Callers : routine[c] = "stop" /\ target[c] = u
    BY DEF vars, fileVars
  <2>1. PICK c \in Callers : ProbePid(c) \/ Adopt(c) \/ WritePid(c) \/ CleanPidfile(c)
    BY DEF Next, Step, Begin, Crash, SpawnWorker, Exit, Recycle, Mount, Unmount, Setup,
           RemoveConfig, CheckConfig, ReadPidfile, ScanWorkers, Judge, Grab, KillRest,
           KeepFirst, Launch, LaunchFails, PollWorker, Rescan, Baseline,
           ListProcesses, Terminate, AwaitExit, fileVars
  <2>2. target[c] = u
    BY <2>1 DEF ProbePid, Adopt, WritePid, CleanPidfile, Set, fileVars, TypeOK, FileTypeOK
  <2>3. ~ProbePid(c)
    BY <2>2 DEF ProbePid, Alive, ReadInv, fileVars
  <2>4. ~Adopt(c) /\ ~WritePid(c)
    BY <2>2 DEF Adopt, WritePid, Set, Pids, NoPid, TypeOK, FileTypeOK, BusyTypeOK
  <2>5. routine[c] = "stop"
    BY <2>1, <2>2, <2>3, <2>4 DEF CleanPidfile, ReadInv
  <2>6. QED
    BY <2>2, <2>5
<1>4. QED
  BY <1>1, <1>2, <1>3, TypeCorrect, PTL DEF Spec, OnlyStopDropsLivePidfile
=============================================================================
