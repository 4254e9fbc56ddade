------------------------------ MODULE BeesSlots ------------------------------
(***************************************************************************)
(* What the life-cycle operations promise about bees processes, without    *)
(* PID files, listings or steps: every caller has one slot per filesystem. *)
(* It launches only into its empty slot; a launcher starts one worker, and *)
(* the two may end in either order.  Two callers have two slots: nothing   *)
(* makes them agree.                                                       *)
(***************************************************************************)
CONSTANTS UUIDs, Callers

VARIABLE slot  \* [UUIDs \X Callers -> the kinds of process that live in the slot]

Init == slot = [s \in UUIDs \X Callers |-> {}]

Launch(s) ==
  /\ slot[s] = {}
  /\ slot' = [slot EXCEPT ![s] = {"launcher"}]

Spawn(s) ==
  /\ slot[s] = {"launcher"}
  /\ slot' = [slot EXCEPT ![s] = {"parent", "worker"}]

End(s, k) ==
  /\ k \in slot[s]
  /\ slot' = [slot EXCEPT ![s] = slot[s] \ {k}]

Next ==
  \E s \in UUIDs \X Callers :
    \/ Launch(s)
    \/ Spawn(s)
    \/ \E k \in slot[s] : End(s, k)

Spec == Init /\ [][Next]_slot
=============================================================================
