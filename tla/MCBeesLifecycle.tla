-------------------------- MODULE MCBeesLifecycle --------------------------
(***************************************************************************)
(* BeesLifecycle for TLC: a machine on which every filesystem is mounted   *)
(* and configured to begin with, and a bound on the requests the callers   *)
(* make in all.                                                            *)
(***************************************************************************)
EXTENDS BeesLifecycle, TLC

CONSTANTS
  MaxRequests,  \* bound: operations asked for in one behaviour
  Short         \* whose mount path and device name are parts of all the others'

\* /data and /data2, /dev/sda1 and /dev/sda10.
MCContained == {s \in UUIDs \X UUIDs : s[1] = s[2] \/ s[1] \in Short}

VARIABLE asked        \* how many have been

MCvars == <<vars, asked>>

CallerSymmetry == Permutations(Callers)

MCInit ==
  /\ Init
  /\ mounted = UUIDs
  /\ config = UUIDs
  /\ asked = 0

Ask ==
  /\ asked < MaxRequests
  /\ asked' = asked + 1
  /\ \E c \in Callers, o \in Requests, u \in UUIDs : Begin(c, o, u)

MCNext ==
  \/ Ask
  \/ UNCHANGED asked /\ \E c \in Callers : Step(c)
  \/ UNCHANGED asked /\ \E c \in Callers : Crash(c)
  \/ UNCHANGED asked /\ \E l, p \in Pids : SpawnWorker(l, p)
  \/ UNCHANGED asked /\ \E p \in Pids : Exit(p)
  \/ UNCHANGED asked /\ \E p \in Pids : Recycle(p)
  \/ UNCHANGED asked /\ \E u \in UUIDs : Mount(u)
  \/ UNCHANGED asked /\ \E u \in UUIDs : Unmount(u)
  \/ UNCHANGED asked /\ \E u \in UUIDs : Setup(u)
  \/ UNCHANGED asked /\ \E u \in UUIDs : RemoveConfig(u)

MCSpec == MCInit /\ [][MCNext]_MCvars

MCFairSpec == MCSpec /\ \A c \in Callers : WF_MCvars(Step(c) /\ UNCHANGED asked)
=============================================================================
