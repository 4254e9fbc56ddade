------------------------ MODULE BeesLifecycleProofs ------------------------
(***************************************************************************)
(* Theorems about BeesLifecycle for every set of filesystems and callers,  *)
(* every number of processes and every limit on the retries.               *)
(***************************************************************************)
EXTENDS BeesLifecycle, TLAPS

-----------------------------------------------------------------------------
(* Type correctness. *)

\* A caller's record stays well typed when a function returns.
LEMMA ReturnTypes ==
  ASSUME CallTypeOK, BusyTypeOK,
         NEW c \in Callers, NEW r \in Results, pc[c] # "idle", Return(c, r)
  PROVE  CallTypeOK' /\ BusyTypeOK'
<1> USE ConstantsAssumption
<1>1. CallTypeOK'
  BY DEF CallTypeOK, Return, Idle, Goto, Set, Labels, Ops, Pids, NoPid
<1>2. BusyTypeOK'
  BY DEF CallTypeOK, BusyTypeOK, Return, Idle, Goto, Set, Labels, Ops, Pids, NoPid
<1>3. QED
  BY <1>1, <1>2

\* ... and when it goes on with a PID in hand.
LEMMA HoldTypes ==
  ASSUME CallTypeOK, BusyTypeOK,
         NEW c \in Callers, NEW p \in Pids \cup {NoPid}, NEW l \in Labels,
         pc[c] # "idle", Hold(c, p, l),
         l \in {"probe", "adopt", "killrest", "writepid", "await"} => p \in Pids
  PROVE  CallTypeOK' /\ BusyTypeOK'
  BY DEF CallTypeOK, BusyTypeOK, Hold, Goto, Set, callVars

\* ... and when beesstatus has answered.
LEMMA StatusTypes ==
  ASSUME CallTypeOK, BusyTypeOK,
         NEW c \in Callers, NEW st \in Statuses, pc[c] # "idle", StatusIs(c, st)
  PROVE  CallTypeOK' /\ BusyTypeOK'
<1>1. CASE \E r \in Results : Return(c, r)
  BY <1>1, ReturnTypes
<1>2. CASE \E l \in {"cleanpid", "ps", "baseline", "grab"} : Hold(c, NoPid, l)
  BY <1>2, HoldTypes DEF Labels
<1>3. CASE /\ Goto(c, IF st = "running" THEN "readpid" ELSE "config")
           /\ routine' = Set(routine, c, IF st = "running" THEN "stop" ELSE "start")
           /\ held' = Set(held, c, NoPid)
           /\ UNCHANGED <<op, target, ret, todo, snap, polls>>
  BY <1>3 DEF CallTypeOK, BusyTypeOK, Goto, Set, Labels, Ops
<1>4. QED
  BY <1>1, <1>2, <1>3 DEF StatusIs, Results, Statuses

LEMMA InitTypes == Init => TypeOK
  BY ConstantsAssumption
  DEF Init, TypeOK, ProcTypeOK, FileTypeOK, CallTypeOK, BusyTypeOK,
      Kinds, Labels, Ops, Results, Pids, NoPid

\* A search for workers lists processes.
LEMMA ListingTypes == \A u : \A S \in WorkerListings(u) : S \subseteq Pids
BY DEF WorkerListings, WorkersAt

LEMMA StepTypes ==
  ASSUME TypeOK, NEW c \in Callers, Step(c)
  PROVE  TypeOK'
<1> USE DEF TypeOK
<1> pc[c] # "idle" /\ target[c] \in UUIDs
  BY DEF Step, CheckConfig, ReadPidfile, ProbePid, ScanWorkers, Adopt, Judge,
         Grab, KillRest, KeepFirst, WritePid, Launch, LaunchFails, PollWorker,
         Rescan, Baseline, ListProcesses, Terminate, AwaitExit, CleanPidfile,
         BusyTypeOK
<1>1. CASE CheckConfig(c)
  <2>1. CallTypeOK' /\ BusyTypeOK'
    BY <1>1, HoldTypes, ReturnTypes DEF CheckConfig, Labels, Results
  <2>2. QED
    BY <1>1, <2>1 DEF CheckConfig, procVars, envVars, fileVars, ProcTypeOK, FileTypeOK
<1>2. CASE ReadPidfile(c)
  <2>1. CallTypeOK' /\ BusyTypeOK'
    BY <1>2, HoldTypes DEF ReadPidfile, FileTypeOK, Labels
  <2>2. QED
    BY <1>2, <2>1 DEF ReadPidfile, procVars, envVars, fileVars, ProcTypeOK, FileTypeOK
<1>3. CASE ProbePid(c)
  <2>1. CallTypeOK' /\ BusyTypeOK'
    BY <1>3, HoldTypes, StatusTypes DEF ProbePid, Labels, Statuses
  <2>2. QED
    BY <1>3, <2>1 DEF ProbePid, procVars, envVars, fileVars, ProcTypeOK, FileTypeOK, Set
<1>4. CASE ScanWorkers(c)
  <2>1. CallTypeOK' /\ BusyTypeOK'
    BY <1>4, HoldTypes, ListingTypes DEF ScanWorkers, IsFirst, Labels
  <2>2. QED
    BY <1>4, <2>1 DEF ScanWorkers, procVars, envVars, fileVars, ProcTypeOK, FileTypeOK
<1>5. CASE Adopt(c)
  <2>1. CallTypeOK' /\ BusyTypeOK'
    BY <1>5, StatusTypes DEF Adopt, Statuses
  <2>2. QED
    BY <1>5, <2>1 DEF Adopt, procVars, envVars, ProcTypeOK, FileTypeOK, Set,
                      CallTypeOK
<1>6. CASE Judge(c)
  <2>1. CallTypeOK' /\ BusyTypeOK'
    BY <1>6, StatusTypes DEF Judge, Statuses
  <2>2. QED
    BY <1>6, <2>1 DEF Judge, procVars, envVars, fileVars, ProcTypeOK, FileTypeOK
<1>7. CASE Grab(c)
  <2>1. CASE Hold(c, NoPid, "fork")
    BY <1>7, <2>1, HoldTypes
    DEF Grab, Labels, procVars, envVars, fileVars, ProcTypeOK, FileTypeOK
  <2>2. CASE ~Hold(c, NoPid, "fork")
    <3>1. PICK p \in Pids :
            /\ Goto(c, "killrest")
            /\ held' = Set(held, c, p)
            /\ todo' = Set(todo, c, ProcessLines(target[c]) \ {p})
            /\ UNCHANGED <<callVars, snap, polls>>
      BY <1>7, <2>2 DEF Grab, ProcessLines, IsFirst
    <3>2. ProcessLines(target[c]) \ {p} \subseteq Pids
      BY DEF ProcessLines
    <3>3. CallTypeOK' /\ BusyTypeOK'
      BY <3>1, <3>2 DEF CallTypeOK, BusyTypeOK, Goto, Set, callVars, Labels
    <3>4. QED
      BY <1>7, <3>3 DEF Grab, procVars, envVars, fileVars, ProcTypeOK, FileTypeOK
  <2>3. QED
    BY <2>1, <2>2
<1>8. CASE KillRest(c)
  BY <1>8 DEF KillRest, procVars, envVars, fileVars, callVars, ProcTypeOK, FileTypeOK,
              CallTypeOK, BusyTypeOK, Set
<1>9. CASE KeepFirst(c)
  BY <1>9 DEF KeepFirst, CreateBaseline, procVars, envVars, callVars, locals, ProcTypeOK,
              FileTypeOK, CallTypeOK, BusyTypeOK, Goto, Set, Labels
<1>10. CASE WritePid(c)
  <2>1. CallTypeOK' /\ BusyTypeOK'
    BY <1>10, HoldTypes DEF WritePid, Labels
  <2>2. QED
    BY <1>10, <2>1 DEF WritePid, procVars, envVars, ProcTypeOK, FileTypeOK, Set, CallTypeOK
<1>11. CASE Launch(c)
  <2>1. ProcTypeOK'
    BY <1>11 DEF Launch, ProcTypeOK, Set, Kinds
  <2>2. QED
    BY <1>11, <2>1 DEF Launch, envVars, fileVars, callVars, locals, FileTypeOK,
                       CallTypeOK, BusyTypeOK, Goto, Set, Labels
<1>12. CASE LaunchFails(c)
  <2>1. CallTypeOK' /\ BusyTypeOK'
    BY <1>12, HoldTypes, ReturnTypes DEF LaunchFails, Labels, Results
  <2>2. QED
    BY <1>12, <2>1 DEF LaunchFails, procVars, envVars, fileVars, ProcTypeOK, FileTypeOK
<1>13. CASE PollWorker(c)
  <2>1. CASE Hold(c, NoPid, "rescan") \/ Return(c, "false")
    BY <1>13, <2>1, HoldTypes, ReturnTypes
    DEF PollWorker, Labels, Results, procVars, envVars, fileVars, ProcTypeOK, FileTypeOK
  <2>2. CASE /\ polls[c] + 1 < MaxRetries
             /\ polls' = Set(polls, c, polls[c] + 1)
             /\ UNCHANGED <<pc, callVars, held, todo, snap>>
    BY <1>13, <2>2, ConstantsAssumption
    DEF PollWorker, procVars, envVars, fileVars, callVars, ProcTypeOK, FileTypeOK,
        CallTypeOK, BusyTypeOK, Set
  <2>3. QED
    BY <1>13, <2>1, <2>2 DEF PollWorker
<1>14. CASE Rescan(c)
  <2>1. CallTypeOK' /\ BusyTypeOK'
    BY <1>14, HoldTypes, ListingTypes DEF Rescan, IsFirst, Labels
  <2>2. QED
    BY <1>14, <2>1 DEF Rescan, procVars, envVars, fileVars, ProcTypeOK, FileTypeOK
<1>15. CASE Baseline(c)
  <2>1. CallTypeOK' /\ BusyTypeOK'
    BY <1>15, ReturnTypes DEF Baseline, Results
  <2>2. QED
    BY <1>15, <2>1 DEF Baseline, CreateBaseline, procVars, envVars, ProcTypeOK,
                       FileTypeOK, Set
<1>16. CASE ListProcesses(c)
  <2>1. ProcessLines(target[c]) \subseteq Pids
    BY DEF ProcessLines
  <2>2. QED
    BY <1>16, <2>1 DEF ListProcesses, procVars, envVars, fileVars, callVars, ProcTypeOK,
                       FileTypeOK, CallTypeOK, BusyTypeOK, Goto, Set, Labels
<1>17. CASE Terminate(c)
  <2>1. CallTypeOK' /\ BusyTypeOK'
    BY <1>17, HoldTypes DEF Terminate, IsFirst, Labels, CallTypeOK
  <2>2. QED
    BY <1>17, <2>1 DEF Terminate, procVars, envVars, fileVars, ProcTypeOK, FileTypeOK
<1>18. CASE AwaitExit(c)
  BY <1>18 DEF AwaitExit, envVars, fileVars, callVars, ProcTypeOK, FileTypeOK,
               CallTypeOK, BusyTypeOK, Goto, Set, Labels
<1>19. CASE CleanPidfile(c)
  <2>1. CallTypeOK' /\ BusyTypeOK'
    BY <1>19, ReturnTypes DEF CleanPidfile, Results
  <2>2. QED
    BY <1>19, <2>1 DEF CleanPidfile, procVars, envVars, ProcTypeOK, FileTypeOK, Set
<1>20. QED
  BY <1>1, <1>2, <1>3, <1>4, <1>5, <1>6, <1>7, <1>8, <1>9, <1>10, <1>11, <1>12, <1>13,
     <1>14, <1>15, <1>16, <1>17, <1>18, <1>19 DEF Step

\* What runs around the callers leaves them as they are.
LEMMA AroundTypes ==
  ASSUME TypeOK, Next, ~(\E c \in Callers : Step(c))
  PROVE  TypeOK'
<1> USE DEF TypeOK
<1>1. CASE \E c \in Callers, o \in Requests, u \in UUIDs : Begin(c, o, u)
  BY <1>1, ConstantsAssumption
  DEF Begin, Goto, Set, procVars, envVars, fileVars, locals, ProcTypeOK, FileTypeOK,
      CallTypeOK, BusyTypeOK, Labels, Ops, Results
<1>2. CASE \E c \in Callers : Crash(c)
  BY <1>2, ConstantsAssumption
  DEF Crash, Idle, Goto, Set, procVars, envVars, fileVars, ProcTypeOK, FileTypeOK,
      CallTypeOK, BusyTypeOK, Labels, Results, NoPid
<1>3. CASE \E l, p \in Pids : SpawnWorker(l, p)
  BY <1>3 DEF SpawnWorker, Set, envVars, fileVars, callVars, locals, ProcTypeOK,
              FileTypeOK, CallTypeOK, BusyTypeOK, Kinds
<1>4. CASE \E p \in Pids : Exit(p) \/ Recycle(p)
  <2>1. PICK p \in Pids : Exit(p) \/ Recycle(p)
    BY <1>4
  <2>2. ProcTypeOK'
    BY <2>1 DEF Exit, Recycle, Set, ProcTypeOK, Kinds
  <2>3. QED
    BY <2>1, <2>2 DEF Exit, Recycle, envVars, fileVars, callVars, locals, FileTypeOK,
                      CallTypeOK, BusyTypeOK
<1>5. CASE \E u \in UUIDs : Mount(u) \/ Unmount(u) \/ Setup(u) \/ RemoveConfig(u)
  BY <1>5 DEF Mount, Unmount, Setup, RemoveConfig, procVars, fileVars, callVars, locals,
              ProcTypeOK, FileTypeOK, CallTypeOK, BusyTypeOK
<1>6. QED
  BY <1>1, <1>2, <1>3, <1>4, <1>5 DEF Next

\* The invariant TypeOK: every variable keeps its type, and a caller that is
\* inside an operation has the filesystem and the PID the next step uses.
THEOREM TypeCorrect == Spec => []TypeOK
<1>1. TypeOK /\ [Next]_vars => TypeOK'
  <2> SUFFICES ASSUME TypeOK, [Next]_vars PROVE TypeOK'
    OBVIOUS
  <2>1. CASE \E c \in Callers : Step(c)
    BY <2>1, StepTypes
  <2>2. CASE Next /\ ~(\E c \in Callers : Step(c))
    BY <2>2, AroundTypes
  <2>3. CASE UNCHANGED vars
    BY <2>3 DEF vars, procVars, envVars, fileVars, callVars, locals, TypeOK, ProcTypeOK,
                FileTypeOK, CallTypeOK, BusyTypeOK
  <2>4. QED
    BY <2>1, <2>2, <2>3
<1>2. QED
  BY InitTypes, <1>1, PTL DEF Spec

-----------------------------------------------------------------------------
(* Whose process a PID was. *)

\* A PID that has been given out was given to a caller's launch for a
\* filesystem, or later to a stranger; one that has not belongs to nobody.
BirthInv ==
  \A p \in Pids :
    /\ kind[p] = "unborn" => birth[p].uuid = None
    /\ IsBees(p) => birth[p].uuid \in UUIDs
    /\ birth[p].uuid = None \/ (birth[p].uuid \in UUIDs /\ birth[p].by \in Callers)

\* The two kinds of step that start a process.
Starts ==
  \/ \E c \in Callers : Launch(c)
  \/ \E l, p \in Pids : SpawnWorker(l, p)

\* Every other step leaves each PID with whom it was given to, or gives it to a
\* stranger, and gives no fresh one out.
LEMMA OtherStepsKeepBirth ==
  ASSUME TypeOK, [Next]_vars, ~Starts, NEW p \in Pids
  PROVE  /\ birth'[p] = birth[p] \/ (Reborn(p)' /\ ~IsBees(p)')
         /\ (kind'[p] = "unborn") = (kind[p] = "unborn")
         /\ IsBees(p)' => IsBees(p) /\ kind'[p] = kind[p]
<1>1. CASE \E c \in Callers : Step(c)
  BY <1>1
  DEF Step, Starts, CheckConfig, ReadPidfile, ProbePid, ScanWorkers, Adopt, Judge, Grab,
      KillRest, KeepFirst, WritePid, LaunchFails, PollWorker, Rescan, Baseline,
      ListProcesses, Terminate, AwaitExit, CleanPidfile, procVars, IsBees
<1>2. CASE \E q \in Pids : Exit(q) \/ Recycle(q)
  BY <1>2 DEF Exit, Recycle, Alive, Reborn, IsBees, Set, TypeOK, ProcTypeOK
<1>3. CASE UNCHANGED procVars
  BY <1>3 DEF procVars, IsBees
<1>4. QED
  BY <1>1, <1>2, <1>3
  DEF Next, Starts, Begin, Crash, Mount, Unmount, Setup, RemoveConfig, vars

LEMMA BirthStep ==
  ASSUME TypeOK, BirthInv, [Next]_vars
  PROVE  BirthInv'
<1>1. CASE \E c \in Callers : Launch(c)
  <2>1. PICK c \in Callers, p \in Pids :
          /\ kind[p] = "unborn"
          /\ kind' = [kind EXCEPT ![p] = "launcher"]
          /\ birth' = [birth EXCEPT ![p] = [uuid |-> target[c], by |-> c]]
          /\ target[c] \in UUIDs
    BY <1>1 DEF Launch, IsFresh, IsFirst, Set, TypeOK, BusyTypeOK
  <2>2. QED
    BY <2>1 DEF BirthInv, IsBees, TypeOK, ProcTypeOK
<1>2. CASE \E l, p \in Pids : SpawnWorker(l, p)
  <2>1. PICK l \in Pids, p \in Pids :
          /\ kind[l] = "launcher" /\ kind[p] = "unborn"
          /\ kind' = [kind EXCEPT ![l] = "parent", ![p] = "worker"]
          /\ birth' = [birth EXCEPT ![p] = birth[l]]
    BY <1>2 DEF SpawnWorker, IsFresh, IsFirst, Set
  <2>2. QED
    BY <2>1 DEF BirthInv, IsBees, TypeOK, ProcTypeOK
<1>3. CASE ~Starts
  BY <1>3, OtherStepsKeepBirth DEF BirthInv, Reborn
<1>4. QED
  BY <1>1, <1>2, <1>3 DEF Starts

LEMMA BirthInvariant == Spec => []BirthInv
<1>1. Init => BirthInv
  BY DEF Init, BirthInv, IsBees
<1>2. QED
  BY <1>1, BirthStep, TypeCorrect, PTL DEF Spec

\* A PID that has been given out stays with whom it was given to, unless a
\* stranger gets it; with the stranger it stays.
LEMMA BirthLasts ==
  ASSUME TypeOK, BirthInv, [Next]_vars,
         NEW p \in Pids, birth[p].uuid \in UUIDs \/ Reborn(p)
  PROVE  /\ birth'[p] = birth[p] \/ Reborn(p)'
         /\ Reborn(p) => Reborn(p)'
<1>1. kind[p] # "unborn"
  BY ConstantsAssumption DEF BirthInv, Reborn
<1>2. CASE Starts
  BY <1>1, <1>2 DEF Starts, Launch, SpawnWorker, IsFresh, IsFirst, Reborn, Set, TypeOK, ProcTypeOK
<1>3. CASE ~Starts
  BY <1>1, <1>3, OtherStepsKeepBirth DEF Reborn
<1>4. QED
  BY <1>2, <1>3

-----------------------------------------------------------------------------
(* One slot per caller and filesystem. *)

\* The argument is the same for one caller and for callers that keep apart, so
\* it is made once, for callers in groups: G[c] is the group of c.

\* Two processes that were launched for the same filesystem within a group.
SameSlot(G, p, q) ==
  birth[p].uuid = birth[q].uuid /\ G[birth[p].by] = G[birth[q].by]

\* A slot holds one process, or a launcher that has started its worker and that
\* worker.
SlotInv(G) ==
  \A p, q \in Pids :
    IsBees(p) /\ IsBees(q) /\ SameSlot(G, p, q) /\ p # q
      => {kind[p], kind[q]} = {"parent", "worker"}

\* Between the listing that found nothing and the fork, the slot of the caller
\* stays empty: only its group could fill it.
ForkInv(G) ==
  \A c \in Callers : pc[c] = "fork" =>
    \A p \in Pids : IsBees(p) => ~(birth[p].uuid = target[c] /\ G[birth[p].by] = G[c])

\* In a group one caller at a time stands between its listing and its fork for
\* a filesystem.
ForksApartIn(G) ==
  \A c, d \in Callers :
    /\ pc[c] = "fork" /\ pc[d] = "fork"
    /\ target[c] = target[d] /\ G[c] = G[d]
    => c = d

GroupInv(G) == TypeOK /\ SlotInv(G) /\ ForkInv(G)

\* A step that starts no process and lets no caller go to the fork.
LEMMA QuietKeepsSlots ==
  ASSUME NEW G, SlotInv(G), ForkInv(G),
         \A p \in Pids : IsBees(p)' => kind'[p] = kind[p] /\ birth'[p] = birth[p],
         \A c \in Callers : pc'[c] = "fork" => pc[c] = "fork" /\ target'[c] = target[c]
  PROVE  SlotInv(G)' /\ ForkInv(G)'
  BY DEF SlotInv, ForkInv, SameSlot, IsBees

LEMMA StepKeepsSlots ==
  ASSUME NEW G, ForksApartIn(G), GroupInv(G), NEW c \in Callers, Step(c)
  PROVE  SlotInv(G)' /\ ForkInv(G)'
<1> USE DEF GroupInv
<1>1. CASE Launch(c)
  <2>1. PICK p \in Pids :
          /\ kind[p] = "unborn"
          /\ kind' = [kind EXCEPT ![p] = "launcher"]
          /\ birth' = [birth EXCEPT ![p] = [uuid |-> target[c], by |-> c]]
    BY <1>1 DEF Launch, IsFresh, IsFirst, Set
  <2>2. /\ \A q \in Pids : q # p => kind'[q] = kind[q] /\ birth'[q] = birth[q]
        /\ kind'[p] = "launcher"
        /\ birth'[p] = [uuid |-> target[c], by |-> c]
    BY <2>1 DEF TypeOK, ProcTypeOK
  <2>3. \A q \in Pids : IsBees(q) => ~(birth[q].uuid = target[c] /\ G[birth[q].by] = G[c])
    BY <1>1 DEF ForkInv, Launch
  <2>4. SlotInv(G)'
    BY <2>2, <2>3 DEF SlotInv, SameSlot, IsBees
  <2>5. /\ pc' = [pc EXCEPT ![c] = "wait"]
        /\ target' = target
    BY <1>1 DEF Launch, Goto, callVars
  <2>6. ForkInv(G)'
    BY <1>1, <2>2, <2>5 DEF ForkInv, ForksApartIn, Launch, IsBees, TypeOK, CallTypeOK
  <2>7. QED
    BY <2>4, <2>6
<1>2. CASE Grab(c)
  <2>1. kind' = kind /\ birth' = birth /\ target' = target
    BY <1>2 DEF Grab, Hold, procVars, callVars
  <2>2. \A d \in Callers : d # c => pc'[d] = pc[d]
    BY <1>2 DEF Grab, Hold, Goto, Set, TypeOK, CallTypeOK
  <2>3. pc'[c] = "fork" => ProcessLines(target[c]) = {}
    BY <1>2 DEF Grab, Hold, Goto, TypeOK, CallTypeOK
  <2>4. SlotInv(G)'
    BY <2>1 DEF SlotInv, SameSlot, IsBees
  <2>5. ForkInv(G)'
    BY <2>1, <2>2, <2>3 DEF ForkInv, IsBees, ProcessLines
  <2>6. QED
    BY <2>4, <2>5
<1>3. CASE ~Launch(c) /\ ~Grab(c)
  <2>1. kind' = kind /\ birth' = birth
    BY <1>3 DEF Step, CheckConfig, ReadPidfile, ProbePid, ScanWorkers, Adopt, Judge,
       KillRest, KeepFirst, WritePid, LaunchFails, PollWorker, Rescan, Baseline,
       ListProcesses, Terminate, AwaitExit, CleanPidfile, procVars
  <2>2. \A d \in Callers : d # c => pc'[d] = pc[d] /\ target'[d] = target[d]
    BY <1>3 DEF Step, CheckConfig, ReadPidfile, ProbePid, ScanWorkers, Adopt, Judge,
       KillRest, KeepFirst, WritePid, LaunchFails, PollWorker, Rescan, Baseline,
       ListProcesses, Terminate, AwaitExit, CleanPidfile, StatusIs, Return, Idle, Hold,
       Goto, Set, callVars, locals, TypeOK, CallTypeOK
  <2>3. pc'[c] # "fork"
    BY <1>3 DEF Step, CheckConfig, ReadPidfile, ProbePid, ScanWorkers, Adopt, Judge,
       KillRest, KeepFirst, WritePid, LaunchFails, PollWorker, Rescan, Baseline,
       ListProcesses, Terminate, AwaitExit, CleanPidfile, StatusIs, Return, Idle, Hold,
       Goto, Set, callVars, locals, TypeOK, CallTypeOK
  <2>4. \A d \in Callers : pc'[d] = "fork" => pc[d] = "fork" /\ target'[d] = target[d]
    BY <2>2, <2>3
  <2>5. QED
    BY <2>1, <2>4, QuietKeepsSlots DEF IsBees
<1>4. QED
  BY <1>1, <1>2, <1>3

LEMMA AroundKeepsSlots ==
  ASSUME NEW G, GroupInv(G), Next, ~(\E c \in Callers : Step(c))
  PROVE  SlotInv(G)' /\ ForkInv(G)'
<1> USE DEF GroupInv
<1>1. CASE \E c \in Callers, o \in Requests, u \in UUIDs : Begin(c, o, u)
  <2>1. PICK c \in Callers, o \in Requests, u \in UUIDs : Begin(c, o, u)
    BY <1>1
  <2>2. kind' = kind /\ birth' = birth
    BY <2>1 DEF Begin, procVars
  <2>3. \A d \in Callers : pc'[d] = "fork" => pc[d] = "fork" /\ target'[d] = target[d]
    BY <2>1 DEF Begin, Goto, Set, TypeOK, CallTypeOK
  <2>4. QED
    BY <2>2, <2>3, QuietKeepsSlots DEF IsBees
<1>2. CASE \E c \in Callers : Crash(c)
  <2>1. PICK c \in Callers : Crash(c)
    BY <1>2
  <2>2. kind' = kind /\ birth' = birth
    BY <2>1 DEF Crash, procVars
  <2>3. \A d \in Callers : pc'[d] = "fork" => pc[d] = "fork" /\ target'[d] = target[d]
    BY <2>1 DEF Crash, Idle, Goto, Set, TypeOK, CallTypeOK
  <2>4. QED
    BY <2>2, <2>3, QuietKeepsSlots DEF IsBees
<1>3. CASE \E l, p \in Pids : SpawnWorker(l, p)
  <2>1. PICK l \in Pids, p \in Pids : SpawnWorker(l, p)
    BY <1>3
  <2>2. /\ kind[l] = "launcher" /\ kind[p] = "unborn" /\ l # p
        /\ kind'[l] = "parent" /\ kind'[p] = "worker"
        /\ birth'[l] = birth[l] /\ birth'[p] = birth[l]
        /\ \A q \in Pids : q \notin {l, p} => kind'[q] = kind[q] /\ birth'[q] = birth[q]
    BY <2>1 DEF SpawnWorker, IsFresh, IsFirst, Set, TypeOK, ProcTypeOK
  <2>3. \A q \in Pids : IsBees(q) /\ SameSlot(G, l, q) => q = l
    BY <2>2 DEF SlotInv, IsBees
  <2>4. SlotInv(G)'
    BY <2>2, <2>3 DEF SlotInv, SameSlot, IsBees
  <2>5. pc' = pc /\ target' = target
    BY <2>1 DEF SpawnWorker, callVars
  <2>6. ForkInv(G)'
    BY <2>2, <2>5 DEF ForkInv, IsBees
  <2>7. QED
    BY <2>4, <2>6
<1>4. CASE \E p \in Pids : Exit(p) \/ Recycle(p)
  <2>1. PICK p \in Pids : Exit(p) \/ Recycle(p)
    BY <1>4
  <2>2. pc' = pc /\ target' = target
    BY <2>1 DEF Exit, Recycle, callVars
  <2>3. \A q \in Pids : IsBees(q)' => kind'[q] = kind[q] /\ birth'[q] = birth[q]
    BY <2>1 DEF Exit, Recycle, Set, IsBees, TypeOK, ProcTypeOK
  <2>4. QED
    BY <2>2, <2>3, QuietKeepsSlots
<1>5. CASE \E u \in UUIDs : Mount(u) \/ Unmount(u) \/ Setup(u) \/ RemoveConfig(u)
  <2>1. UNCHANGED <<kind, birth, pc, target>>
    BY <1>5 DEF Mount, Unmount, Setup, RemoveConfig, procVars, callVars
  <2>2. QED
    BY <2>1, QuietKeepsSlots DEF IsBees
<1>6. QED
  BY <1>1, <1>2, <1>3, <1>4, <1>5 DEF Next

LEMMA GroupInit == \A G : Init => SlotInv(G) /\ ForkInv(G)
BY DEF Init, SlotInv, ForkInv, IsBees

LEMMA GroupStep ==
  ASSUME NEW G, ForksApartIn(G), GroupInv(G), [Next]_vars
  PROVE  SlotInv(G)' /\ ForkInv(G)'
<1>1. CASE \E c \in Callers : Step(c)
  BY <1>1, StepKeepsSlots
<1>2. CASE Next /\ ~(\E c \in Callers : Step(c))
  BY <1>2, AroundKeepsSlots
<1>3. CASE UNCHANGED vars
  BY <1>3, QuietKeepsSlots DEF vars, procVars, callVars, GroupInv, IsBees
<1>4. QED
  BY <1>1, <1>2, <1>3

\* Each caller a group of its own: nothing need be assumed.
Own == [c \in Callers |-> c]

\* The slot of a caller and what it launched there.
LaunchInv ==
  /\ TypeOK
  /\ \A p, q \in Pids :
       /\ IsBees(p) /\ IsBees(q) /\ p # q
       /\ birth[p].uuid = birth[q].uuid /\ birth[p].by = birth[q].by
       => {kind[p], kind[q]} = {"parent", "worker"}
  /\ \A c \in Callers : pc[c] = "fork" =>
       \A p \in Pids : IsBees(p) => ~(birth[p].uuid = target[c] /\ birth[p].by = c)

LEMMA LaunchInvariant == Spec => []LaunchInv
<1>1. ForksApartIn(Own)
  BY DEF ForksApartIn, Own
<1>2. GroupInv(Own) /\ BirthInv => LaunchInv
  <2> SUFFICES ASSUME GroupInv(Own), BirthInv  PROVE LaunchInv
    OBVIOUS
  <2>1. \A p \in Pids : IsBees(p) => Own[birth[p].by] = birth[p].by
    BY ConstantsAssumption DEF BirthInv, IsBees, Own
  <2>2. QED
    BY <2>1 DEF GroupInv, SlotInv, ForkInv, SameSlot, LaunchInv, Own
<1>3. Init => SlotInv(Own) /\ ForkInv(Own)
  BY GroupInit
<1>4. GroupInv(Own) /\ [Next]_vars => SlotInv(Own)' /\ ForkInv(Own)'
  BY <1>1, GroupStep
<1>5. GroupInv(Own) <=> TypeOK /\ SlotInv(Own) /\ ForkInv(Own)
  BY DEF GroupInv
<1>6. QED
  BY <1>2, <1>3, <1>4, <1>5, TypeCorrect, BirthInvariant, PTL DEF Spec

\* However often a caller starts, stops, times out or dies, at most one worker
\* of a filesystem that it launched is alive.
THEOREM OneWorkerPerCaller == Spec => []WorkersPerCaller
<1>1. LaunchInv => WorkersPerCaller
  BY DEF LaunchInv, IsBees, WorkersPerCaller
<1>2. QED
  BY <1>1, LaunchInvariant, PTL

\* All callers one group.
Together == [c \in Callers |-> None]

\* No two callers stand between the listing and the fork for one filesystem.
ForksApart ==
  \A c, d \in Callers :
    pc[c] = "fork" /\ pc[d] = "fork" /\ target[c] = target[d] => c = d

\* The guarantee of pidfilemgmt.cpp:320-323 for any number of callers, however
\* their operations overlap, as long as no two of them are between their
\* listing and their fork for the same filesystem: that window, and no other,
\* lets a second worker come up.
THEOREM OneWorkerOutsideWindow == Spec /\ []ForksApart => []AtMostOneWorker
<1>1. ForksApart => ForksApartIn(Together)
  BY DEF ForksApart, ForksApartIn
<1>2. GroupInv(Together) /\ BirthInv => AtMostOneWorker
  <2> SUFFICES ASSUME GroupInv(Together), BirthInv,
                      NEW p \in Pids, NEW q \in Pids,
                      kind[p] = "worker", kind[q] = "worker",
                      birth[p].uuid = birth[q].uuid
               PROVE  p = q
    BY DEF AtMostOneWorker
  <2>1. Together[birth[p].by] = Together[birth[q].by]
    BY ConstantsAssumption DEF BirthInv, IsBees, Together
  <2>2. QED
    BY <2>1 DEF GroupInv, SlotInv, SameSlot, IsBees
<1>3. Init => SlotInv(Together) /\ ForkInv(Together)
  BY GroupInit
<1>4. ForksApart /\ GroupInv(Together) /\ [Next]_vars
        => SlotInv(Together)' /\ ForkInv(Together)'
  BY <1>1, GroupStep
<1>5. GroupInv(Together) <=> TypeOK /\ SlotInv(Together) /\ ForkInv(Together)
  BY DEF GroupInv
<1>6. QED
  BY <1>2, <1>3, <1>4, <1>5, TypeCorrect, BirthInvariant, PTL DEF Spec

-----------------------------------------------------------------------------
(* The process table implements the slots. *)

\* What a slot holds, without the set of sets of its definition.
LEMMA SlotMembers ==
  ASSUME NEW u \in UUIDs, NEW c \in Callers, NEW k
  PROVE  k \in SlotOf(<<u, c>>)
           <=> \E p \in Pids : IsBees(p) /\ birth[p].uuid = u /\ birth[p].by = c /\ kind[p] = k
  BY DEF SlotOf, ProcessLines

LEMMA SlotMembersNext ==
  ASSUME NEW u \in UUIDs, NEW c \in Callers, NEW k
  PROVE  k \in SlotOf(<<u, c>>)'
           <=> \E p \in Pids : IsBees(p)' /\ birth'[p].uuid = u /\ birth'[p].by = c /\ kind'[p] = k
  BY DEF SlotOf, ProcessLines

\* A slot changes and the others do not.
LEMMA OneSlotChanges ==
  ASSUME NEW u \in UUIDs, NEW c \in Callers, NEW S,
         SlotOf(<<u, c>>)' = S,
         \A v \in UUIDs, d \in Callers :
           ~(v = u /\ d = c) => SlotOf(<<v, d>>)' = SlotOf(<<v, d>>)
  PROVE  SlotMap' = [SlotMap EXCEPT ![<<u, c>>] = S]
<1>1. SlotMap' = [s \in UUIDs \X Callers |-> SlotOf(s)']
  BY DEF SlotMap
<1>2. \A s \in UUIDs \X Callers : s # <<u, c>> => SlotOf(s)' = SlotOf(s)
  OBVIOUS
<1>3. QED
  BY <1>1, <1>2 DEF SlotMap

\* A step that starts no process and ends none changes no slot.
LEMMA SlotMapStays ==
  ASSUME \A p \in Pids : /\ IsBees(p)' = IsBees(p)
                         /\ IsBees(p) => kind'[p] = kind[p] /\ birth'[p] = birth[p]
  PROVE  SlotMap' = SlotMap
<1>1. ASSUME NEW u \in UUIDs, NEW c \in Callers
      PROVE  SlotOf(<<u, c>>)' = SlotOf(<<u, c>>)
  <2>1. \A k : k \in SlotOf(<<u, c>>)' <=> k \in SlotOf(<<u, c>>)
    BY SlotMembers, SlotMembersNext
  <2>2. QED
    BY <2>1
<1>2. \A s \in UUIDs \X Callers : SlotOf(s)' = SlotOf(s)
  BY <1>1
<1>3. QED
  BY <1>2 DEF SlotMap

LEMMA LaunchFillsSlot ==
  ASSUME LaunchInv, NEW c \in Callers, Launch(c)
  PROVE  Slots!Next
<1>1. PICK p \in Pids :
        /\ kind[p] = "unborn"
        /\ kind' = [kind EXCEPT ![p] = "launcher"]
        /\ birth' = [birth EXCEPT ![p] = [uuid |-> target[c], by |-> c]]
  BY DEF Launch, IsFresh, IsFirst, Set
<1>2. PICK u \in UUIDs : u = target[c]
  BY DEF Launch, LaunchInv, TypeOK, BusyTypeOK
<1>3. /\ \A q \in Pids : q # p => kind'[q] = kind[q] /\ birth'[q] = birth[q]
      /\ kind'[p] = "launcher"
      /\ birth'[p] = [uuid |-> u, by |-> c]
  BY <1>1, <1>2 DEF LaunchInv, TypeOK, ProcTypeOK
<1>4. \A q \in Pids : IsBees(q) => ~(birth[q].uuid = u /\ birth[q].by = c)
  BY <1>2 DEF LaunchInv, Launch
<1>5. SlotOf(<<u, c>>) = {}
  BY <1>2, <1>4, SlotMembers
<1>6. SlotOf(<<u, c>>)' = {"launcher"}
  <2>1. \A k : k \in SlotOf(<<u, c>>)' <=> k = "launcher"
    BY <1>2, <1>3, <1>4, SlotMembersNext DEF IsBees
  <2>2. QED
    BY <2>1
<1>7. ASSUME NEW v \in UUIDs, NEW d \in Callers, ~(v = u /\ d = c)
      PROVE  SlotOf(<<v, d>>)' = SlotOf(<<v, d>>)
  <2>1. \A k : k \in SlotOf(<<v, d>>)' <=> k \in SlotOf(<<v, d>>)
    BY <1>1, <1>3, <1>7, SlotMembers, SlotMembersNext DEF IsBees
  <2>2. QED
    BY <2>1
<1>8. SlotMap' = [SlotMap EXCEPT ![<<u, c>>] = {"launcher"}]
  BY <1>2, <1>6, <1>7, OneSlotChanges
<1>9. QED
  BY <1>2, <1>5, <1>8 DEF Slots!Next, Slots!Launch, SlotMap

LEMMA WorkerJoinsSlot ==
  ASSUME LaunchInv, BirthInv, NEW l \in Pids, NEW p \in Pids, SpawnWorker(l, p)
  PROVE  Slots!Next
<1>1. /\ kind[l] = "launcher" /\ kind[p] = "unborn" /\ l # p
      /\ kind'[l] = "parent" /\ kind'[p] = "worker"
      /\ birth'[l] = birth[l] /\ birth'[p] = birth[l]
      /\ \A q \in Pids : q \notin {l, p} => kind'[q] = kind[q] /\ birth'[q] = birth[q]
  BY DEF SpawnWorker, IsFresh, IsFirst, Set, LaunchInv, TypeOK, ProcTypeOK
<1>2. PICK u \in UUIDs, c \in Callers : u = birth[l].uuid /\ c = birth[l].by
  BY <1>1, ConstantsAssumption DEF BirthInv, IsBees
<1>3. \A q \in Pids : IsBees(q) /\ birth[q].uuid = u /\ birth[q].by = c => q = l
  BY <1>1, <1>2 DEF LaunchInv, IsBees
<1>4. SlotOf(<<u, c>>) = {"launcher"}
  <2>1. \A k : k \in SlotOf(<<u, c>>) <=> k = "launcher"
    BY <1>1, <1>2, <1>3, SlotMembers DEF IsBees
  <2>2. QED
    BY <2>1
<1>5. SlotOf(<<u, c>>)' = {"parent", "worker"}
  <2>1. \A k : k \in SlotOf(<<u, c>>)' <=> k \in {"parent", "worker"}
    BY <1>1, <1>2, <1>3, SlotMembersNext DEF IsBees
  <2>2. QED
    BY <2>1
<1>6. ASSUME NEW v \in UUIDs, NEW d \in Callers, ~(v = u /\ d = c)
      PROVE  SlotOf(<<v, d>>)' = SlotOf(<<v, d>>)
  <2>1. \A k : k \in SlotOf(<<v, d>>)' <=> k \in SlotOf(<<v, d>>)
    BY <1>1, <1>2, <1>6, SlotMembers, SlotMembersNext DEF IsBees
  <2>2. QED
    BY <2>1
<1>7. SlotMap' = [SlotMap EXCEPT ![<<u, c>>] = {"parent", "worker"}]
  BY <1>2, <1>5, <1>6, OneSlotChanges
<1>8. QED
  BY <1>2, <1>4, <1>7 DEF Slots!Next, Slots!Spawn, SlotMap

LEMMA ExitLeavesSlot ==
  ASSUME LaunchInv, BirthInv, NEW p \in Pids, Exit(p)
  PROVE  Slots!Next \/ SlotMap' = SlotMap
<1>1. /\ birth' = birth
      /\ kind'[p] = "gone"
      /\ \A q \in Pids : q # p => kind'[q] = kind[q]
  BY DEF Exit, Set, LaunchInv, TypeOK, ProcTypeOK
<1>2. CASE ~IsBees(p)
  BY <1>1, <1>2, SlotMapStays DEF IsBees
<1>3. CASE IsBees(p)
  <2>0. PICK k0 : k0 = kind[p]
    OBVIOUS
  <2>1. PICK u \in UUIDs, c \in Callers : u = birth[p].uuid /\ c = birth[p].by
    BY <1>3, ConstantsAssumption DEF BirthInv
  <2>2. kind[p] \in SlotOf(<<u, c>>)
    BY <1>3, <2>1, SlotMembers
  <2>3. \A q \in Pids : q # p /\ IsBees(q) /\ birth[q].uuid = u /\ birth[q].by = c
                           => kind[q] # kind[p]
    BY <1>3, <2>1 DEF LaunchInv
  <2>4. SlotOf(<<u, c>>)' = SlotOf(<<u, c>>) \ {k0}
    <3>1. \A k : k \in SlotOf(<<u, c>>)' <=> k \in SlotOf(<<u, c>>) /\ k # k0
      BY <1>1, <2>1, <2>3, <2>0, SlotMembers, SlotMembersNext DEF IsBees
    <3>2. QED
      BY <3>1
  <2>5. ASSUME NEW v \in UUIDs, NEW d \in Callers, ~(v = u /\ d = c)
        PROVE  SlotOf(<<v, d>>)' = SlotOf(<<v, d>>)
    <3>1. \A k : k \in SlotOf(<<v, d>>)' <=> k \in SlotOf(<<v, d>>)
      BY <1>1, <2>1, <2>5, SlotMembers, SlotMembersNext DEF IsBees
    <3>2. QED
      BY <3>1
  <2>6. SlotMap' = [SlotMap EXCEPT ![<<u, c>>] = SlotOf(<<u, c>>) \ {k0}]
    BY <2>1, <2>4, <2>5, OneSlotChanges
  <2>7. SlotMap[<<u, c>>] = SlotOf(<<u, c>>) /\ k0 \in SlotMap[<<u, c>>]
    BY <2>1, <2>2, <2>0 DEF SlotMap
  <2>8. Slots!End(<<u, c>>, k0)
    BY <2>6, <2>7 DEF Slots!End
  <2>9. <<u, c>> \in UUIDs \X Callers
    BY <2>1
  <2>10. QED
    BY <2>7, <2>8, <2>9 DEF Slots!Next
<1>4. QED
  BY <1>2, <1>3

\* The detailed life cycle implements the slots of BeesSlots: every step of it
\* is a step of the slots or leaves them alone.
THEOREM SlotsImplemented == Spec => ImplementsSlots
<1>1. Init => Slots!Init
  <2> SUFFICES ASSUME Init PROVE SlotMap = [s \in UUIDs \X Callers |-> {}]
    BY DEF Slots!Init
  <2>1. ASSUME NEW u \in UUIDs, NEW c \in Callers PROVE SlotOf(<<u, c>>) = {}
    BY SlotMembers DEF Init, IsBees
  <2>2. \A s \in UUIDs \X Callers : SlotOf(s) = {}
    BY <2>1
  <2>3. QED
    BY <2>2 DEF SlotMap
<1>2. LaunchInv /\ BirthInv /\ [Next]_vars => [Slots!Next]_SlotMap
  <2> SUFFICES ASSUME LaunchInv, BirthInv, [Next]_vars
               PROVE  Slots!Next \/ SlotMap' = SlotMap
    OBVIOUS
  <2>1. CASE \E c \in Callers : Launch(c)
    BY <2>1, LaunchFillsSlot
  <2>2. CASE \E l, p \in Pids : SpawnWorker(l, p)
    BY <2>2, WorkerJoinsSlot
  <2>3. CASE \E p \in Pids : Exit(p)
    BY <2>3, ExitLeavesSlot
  <2>4. CASE ~Starts /\ ~(\E p \in Pids : Exit(p))
    <3>1. \A p \in Pids : IsBees(p)' => birth'[p] = birth[p]
      BY <2>4, OtherStepsKeepBirth DEF LaunchInv
    <3>2. \A p \in Pids : IsBees(p)' = IsBees(p) /\ (IsBees(p) => kind'[p] = kind[p])
      <4>1. CASE \E p \in Pids : Recycle(p)
        BY <4>1 DEF Recycle, Set, IsBees, LaunchInv, TypeOK, ProcTypeOK
      <4>2. CASE \E c \in Callers : Step(c)
        BY <2>4, <4>2
        DEF Step, Starts, CheckConfig, ReadPidfile, ProbePid, ScanWorkers, Adopt, Judge,
            Grab, KillRest, KeepFirst, WritePid, LaunchFails, PollWorker, Rescan, Baseline,
            ListProcesses, Terminate, AwaitExit, CleanPidfile, procVars, IsBees
      <4>3. CASE UNCHANGED procVars
        BY <4>3 DEF procVars, IsBees
      <4>4. QED
        BY <2>4, <4>1, <4>2, <4>3
        DEF Next, Starts, Begin, Crash, Mount, Unmount, Setup, RemoveConfig, vars
    <3>3. QED
      BY <3>1, <3>2, SlotMapStays
  <2>5. QED
    BY <2>1, <2>2, <2>3, <2>4 DEF Starts
<1>3. QED
  BY <1>1, <1>2, LaunchInvariant, BirthInvariant, PTL DEF Spec, ImplementsSlots, Slots!Spec
=============================================================================
