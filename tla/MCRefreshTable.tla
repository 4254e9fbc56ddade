--------------------------- MODULE MCRefreshTable ---------------------------
(* RefreshTable for TLC: filesystems of which some are configured, and a    *)
(* budget for the clicks and for what happens outside the window.           *)
EXTENDS RefreshTable, TLC

CONSTANTS
  SetUp,      \* the filesystems that are configured at first
  MaxEvents   \* bound: clicks and events outside the window

VARIABLE events

MCvars == <<vars, events>>

MCInit ==
  /\ present = UUIDs
  /\ world = [u \in UUIDs |-> [running |-> FALSE, configured |-> u \in SetUp,
                              compressing |-> FALSE, autostart |-> u = 1]]
  /\ Init
  /\ events = 0

MCNext ==
  \/ (System \/ Replies) /\ UNCHANGED events
  \/ events < MaxEvents /\ (User \/ Outside) /\ events' = events + 1

MCSpec == MCInit /\ [][MCNext]_MCvars /\ Fairness

=============================================================================
