---------------------------- MODULE MCRootShell ----------------------------
(* RootShell for TLC: a helper that dies a bounded number of times.          *)
EXTENDS RootShell, TLC

CONSTANTS
  Readers,    \* the calls whose wrapper reads the answer
  MaxDeaths   \* bound: deaths and failed starts of the helper

\* The wrapper of the other calls says true.
MCWrapper == [c \in Calls |-> IF c \in Readers THEN "reads" ELSE "true"]

VARIABLE deaths

MCvars == <<vars, deaths>>

MCInit == Init /\ deaths = 0

Fault == Die \/ LaunchFails

MCNext ==
  \/ Next /\ ~Fault /\ UNCHANGED deaths
  \/ deaths < MaxDeaths /\ Fault /\ deaths' = deaths + 1

MCSpec == MCInit /\ [][MCNext]_MCvars /\ Fairness

=============================================================================
