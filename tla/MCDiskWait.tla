----------------------------- MODULE MCDiskWait -----------------------------
(***************************************************************************)
(* DiskWait for TLC: to begin with every filesystem is enabled for         *)
(* autostart and transparent compression; a bound on what the world does   *)
(* to the helper.                                                          *)
(***************************************************************************)
EXTENDS DiskWait, TLC

CONSTANTS
  MaxChanges,  \* bound: the steps of the world in one behaviour
  Short        \* whose device names are parts of all the others'

\* /dev/sda1 and /dev/sda10.
MCContained == {s \in UUIDs \X UUIDs : s[1] = s[2] \/ s[1] \in Short}

VARIABLE changes     \* how many there have been

MCvars == <<vars, changes>>

MCInit ==
  /\ Init
  /\ autostart = UUIDs
  /\ tc = UUIDs
  /\ changes = 0

MCNext ==
  \/ UNCHANGED changes /\ DiskThread
  \/ UNCHANGED changes /\ \E j \in Jobs : RefreshJob(j)
  \/ UNCHANGED changes /\ QueueWorker
  \/ UNCHANGED changes /\ Clause
  \/ UNCHANGED changes /\ Restart
  \/ changes < MaxChanges /\ changes' = changes + 1 /\ World

MCSpec == MCInit /\ [][MCNext]_MCvars

MCFairSpec ==
  /\ MCSpec
  /\ WF_MCvars(DiskThread /\ UNCHANGED changes)
  /\ \A j \in Jobs : WF_MCvars(RefreshJob(j) /\ UNCHANGED changes)
  /\ WF_MCvars(QueueWorker /\ UNCHANGED changes)
  /\ WF_MCvars(Clause /\ UNCHANGED changes)
  /\ WF_MCvars(Restart /\ UNCHANGED changes)
=============================================================================
