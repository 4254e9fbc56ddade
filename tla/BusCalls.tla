------------------------------ MODULE BusCalls ------------------------------
(* What the callers of the helper may rely on: a call takes effect at most   *)
(* once and is answered exactly once.  For an informed caller "true" comes    *)
(* after the effect; otherwise the answer says nothing about the effect,     *)
(* which may have come, may still come or may never come.                    *)
EXTENDS Naturals

CONSTANTS Calls, Informed

VARIABLES asked, effects

TypeOK == /\ asked \in [Calls -> {"idle", "pending", "true", "false"}]
          /\ effects \in [Calls -> 0 .. 1]

Init == asked = [c \in Calls |-> "idle"] /\ effects = [c \in Calls |-> 0]

Ask(c) ==
  /\ asked[c] = "idle"
  /\ asked' = [asked EXCEPT ![c] = "pending"]
  /\ UNCHANGED effects

Do(c) ==
  /\ asked[c] # "idle" /\ effects[c] = 0
  /\ effects' = [effects EXCEPT ![c] = 1]
  /\ UNCHANGED asked

Answer(c, outcome) ==
  /\ asked[c] = "pending"
  /\ c \in Informed /\ outcome = "true" => effects[c] = 1
  /\ asked' = [asked EXCEPT ![c] = outcome]
  /\ UNCHANGED effects

Next == \E c \in Calls : Ask(c) \/ Do(c) \/ \E outcome \in {"true", "false"} : Answer(c, outcome)

Spec == Init /\ [][Next]_<<asked, effects>>

=============================================================================
