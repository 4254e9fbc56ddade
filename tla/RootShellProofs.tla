-------------------------- MODULE RootShellProofs --------------------------
(* For any calls with any wrappers and any pool: the types, that success is  *)
(* real where the wrapper reads the answer, that no call is lost, and that   *)
(* RootShell implements BusCalls.                                            *)
EXTENDS RootShell, TLAPS

\* How far a call has come in the window, in the helper and on the way back
\* belongs together.
CallInv(c) ==
  /\ client[c] \in {"idle", "posted"} => server[c] = "none" /\ reply[c] = "none" /\ effects[c] = 0
  /\ server[c] \in {"sent", "pooled", "running"} => effects[c] = 0
  /\ server[c] = "ran" => effects[c] = 1
  /\ client[c] = "done" => reply[c] # "none"
  /\ client[c] = "waiting" /\ reply[c] = "none" => server[c] # "none"
  /\ reply[c] = "ok" => effects[c] = 1
  /\ told[c] # "none" <=> client[c] = "done"
  /\ Wrapper[c] = "reads" /\ told[c] = "true" => reply[c] = "ok"

Inv == TypeOK /\ \A c \in Calls : CallInv(c)

USE NoneAssumption

\* A caller that has been answered has been told something, and nothing but an
\* answer of success makes a wrapper that reads it say "true".
LEMMA ToldSomething ==
  ASSUME NEW c \in Calls, NEW r \in {"ok", "error"}
  PROVE  /\ Told(c, r) \in {"true", "false"}
         /\ Wrapper[c] = "reads" /\ Told(c, r) = "true" => r = "ok"
BY WrapperAssumption DEF Told

LEMMA InitInv == Init => Inv
<1> SUFFICES ASSUME Init PROVE Inv
  OBVIOUS
<1>1. pc \in [Threads -> {"lock", "check", "wait", "loop"}]
  BY DEF Init
<1>2. \A t \in Threads : mtx = t <=> pc[t] \in {"check", "wait"}
  BY DEF Init
<1>3. /\ alive \in BOOLEAN /\ announced \in BOOLEAN /\ started \in BOOLEAN
      /\ iface \in BOOLEAN /\ starting \in BOOLEAN
  BY DEF Init
<1>4. TypeOK
  BY <1>1, <1>2, <1>3 DEF Init, TypeOK
<1>5. \A c \in Calls : CallInv(c)
  BY DEF Init, CallInv
<1> QED
  BY <1>4, <1>5 DEF Inv

\* What an end of the helper, or a failed start, leaves of the calls.
LEMMA AllLost ==
  ASSUME Inv, reply' = Answered(Outstanding, "error"),
         server' = [c \in Calls |-> "none"], UNCHANGED <<client, told, effects>>
  PROVE  /\ reply' \in [Calls -> {"none", "ok", "error"}]
         /\ server' \in [Calls -> {"none", "sent", "pooled", "running", "ran"}]
         /\ \A c \in Calls : CallInv(c)'
BY DEF Inv, TypeOK, CallInv, Answered, Outstanding

\* start_root_shell does not touch the calls.
LEMMA StartInv == ASSUME Inv, NEW t \in Threads, StartStep(t) PROVE Inv'
<1> USE DEF Inv, TypeOK, startVars, helperVars, callVars
<1>1. \A c \in Calls : CallInv(c)'
  BY DEF StartStep, Lock, Check, SeeName, GiveUp, Return, CallInv
<1>2. CASE Lock(t)
  BY <1>1, <1>2 DEF Lock
<1>3. CASE Check(t)
  <2>1. UNCHANGED <<alive, started, iface, helper, callVars>> /\ mtx = t
    BY <1>3 DEF Check
  <2>2. \/ mtx' = None /\ pc' = [pc EXCEPT ![t] = "loop"]
        \/ mtx' = mtx /\ pc' = [pc EXCEPT ![t] = "wait"]
    BY <1>3 DEF Check, Return
  <2>3. /\ pc' \in [Threads -> {"lock", "check", "wait", "loop"}]
        /\ mtx' \in Threads \cup {None}
        /\ \A s \in Threads : mtx' = s <=> pc'[s] \in {"check", "wait"}
    BY <2>1, <2>2
  <2>4. announced' \in BOOLEAN /\ starting' \in BOOLEAN
    BY <1>3 DEF Check, Return
  <2> QED
    BY <1>1, <2>1, <2>3, <2>4
<1>4. CASE SeeName(t)
  BY <1>1, <1>4 DEF SeeName, Return
<1>5. CASE GiveUp(t)
  BY <1>1, <1>5 DEF GiveUp, Return
<1> QED
  BY <1>2, <1>3, <1>4, <1>5 DEF StartStep

\* Neither do the steps of one call touch another.
LEMMA CallStepInv ==
  ASSUME Inv, NEW c \in Calls,
         Post(c) \/ SendStep(c) \/ Timeout(c) \/ Finish(c) \/ HelperStep(c)
  PROVE  Inv'
<1> USE DEF Inv, TypeOK, CallInv, startVars, helperVars, callVars
<1>1. CASE Post(c)
  BY <1>1 DEF Post
<1>2. CASE Refuse(c)
  <2>1. starting' \in BOOLEAN
    BY <1>2 DEF Refuse
  <2> QED
    BY <1>2, <2>1, ToldSomething DEF Refuse, Takes
<1>3. CASE SendCall(c)
  <2>1. starting' \in BOOLEAN
    BY <1>3 DEF SendCall
  <2> QED
    BY <1>3, <2>1 DEF SendCall, Takes
<1>4. CASE Timeout(c)
  BY <1>4 DEF Timeout
<1>5. CASE Finish(c)
  <2>1. reply[c] \in {"ok", "error"}
    BY <1>5 DEF Finish
  <2> QED
    BY <1>5, <2>1, ToldSomething DEF Finish
<1>6. CASE Dispatch(c)
  BY <1>6 DEF Dispatch, At, Answered
<1>7. CASE RunClause(c)
  BY <1>7 DEF RunClause, At
<1>8. CASE Effect(c)
  BY <1>8 DEF Effect, At
<1>9. CASE Reply(c)
  BY <1>9 DEF Reply, At, Answered
<1> QED
  BY <1>1, <1>2, <1>3, <1>4, <1>5, <1>6, <1>7, <1>8, <1>9 DEF SendStep, HelperStep

LEMMA StepInv == Inv /\ [Next]_vars => Inv'
<1> SUFFICES ASSUME Inv, [Next]_vars PROVE Inv'
  OBVIOUS
<1> USE DEF startVars, helperVars, callVars
<1>1. CASE \E t \in Threads : StartStep(t)
  BY <1>1, StartInv
<1>2. CASE GuiInit
  BY <1>2 DEF GuiInit, Inv, TypeOK, CallInv, Threads
<1>3. CASE OwnerLost
  BY <1>3 DEF OwnerLost, Inv, TypeOK, CallInv
<1>4. CASE \E c \in Calls : Post(c) \/ SendStep(c) \/ Timeout(c) \/ Finish(c) \/ HelperStep(c)
  BY <1>4, CallStepInv
<1>5. CASE Launch
  BY <1>5 DEF Launch, Inv, TypeOK, CallInv
<1>6. CASE LaunchFails
  BY <1>6, AllLost DEF LaunchFails, Inv, TypeOK
<1>7. CASE Export
  BY <1>7 DEF Export, Inv, TypeOK, CallInv
<1>8. CASE Die
  BY <1>8, AllLost DEF Die, Inv, TypeOK
<1>9. CASE UNCHANGED vars
  BY <1>9 DEF vars, Inv, TypeOK, CallInv
<1> QED
  BY <1>1, <1>2, <1>3, <1>4, <1>5, <1>6, <1>7, <1>8, <1>9 DEF Next

LEMMA AlwaysInv == Spec => []Inv
BY InitInv, StepInv, PTL DEF Spec

\* Types; in particular mtx_ is held by exactly the thread that is inside
\* start_root_shell_unlocked, and no clause is run twice.
THEOREM TypeCorrect == Spec => []TypeOK
<1>1. Inv => TypeOK
  BY DEF Inv
<1> QED
  BY <1>1, AlwaysInv, PTL

\* Whoever is told of success by a wrapper that reads the answer is told after
\* the clause has run; of the other wrappers the theorem says nothing.
THEOREM SuccessAlwaysReal == Spec => []SuccessIsReal
<1>1. Inv => SuccessIsReal
  BY DEF Inv, CallInv, SuccessIsReal
<1> QED
  BY <1>1, AlwaysInv, PTL

\* A call the window waits for is with the bus or the helper, or answered.
THEOREM NeverLost == Spec => []NotLost
<1>1. Inv => NotLost
  BY DEF Inv, CallInv, NotLost
<1> QED
  BY <1>1, AlwaysInv, PTL

-----------------------------------------------------------------------------
(* The refinement. *)

Asked == [c \in Calls |-> Outcome(c)]

LEMMA SameCalls ==
  ASSUME Inv, UNCHANGED <<client, told, effects>>
  PROVE  UNCHANGED <<Asked, effects>>
BY DEF Asked, Outcome, Inv, TypeOK, CallInv

LEMMA StepImplements == Inv /\ [Next]_vars => [B!Next]_<<Asked, effects>>
<1> SUFFICES ASSUME Inv, [Next]_vars PROVE B!Next \/ UNCHANGED <<Asked, effects>>
  BY DEF Asked
<1> USE DEF startVars, helperVars, callVars
<1>1. CASE \/ \E t \in Threads : StartStep(t)
           \/ GuiInit \/ OwnerLost \/ Launch \/ LaunchFails \/ Export \/ Die
           \/ UNCHANGED vars
  <2>1. UNCHANGED <<client, told, effects>>
    BY <1>1 DEF StartStep, Lock, Check, SeeName, GiveUp, Return, GuiInit, OwnerLost,
                Launch, LaunchFails, Export, Die, vars
  <2> QED
    BY <2>1, SameCalls
<1>2. ASSUME NEW c \in Calls, Timeout(c) \/ HelperStep(c), ~Effect(c)
      PROVE  UNCHANGED <<Asked, effects>>
  <2>1. UNCHANGED <<client, told, effects>>
    BY <1>2 DEF Timeout, HelperStep, Dispatch, RunClause, Reply
  <2> QED
    BY <2>1, SameCalls
<1>3. ASSUME NEW c \in Calls, Post(c) PROVE B!Ask(c)
  BY <1>3 DEF Post, B!Ask, Outcome, Inv, TypeOK
<1>4. ASSUME NEW c \in Calls, Refuse(c) 
      PROVE  \E outcome \in {"true", "false"} : B!Answer(c, outcome)
  <2>1. /\ Told(c, "error") \in {"true", "false"}
        /\ c \in Informed => Told(c, "error") # "true"
    BY ToldSomething DEF Informed
  <2>2. B!Answer(c, Told(c, "error"))
    BY <1>4, <2>1 DEF Refuse, Takes, B!Answer, Outcome, Inv, TypeOK
  <2> QED
    BY <2>1, <2>2
<1>5. ASSUME NEW c \in Calls, SendCall(c) PROVE UNCHANGED <<Asked, effects>>
  BY <1>5 DEF SendCall, Takes, Asked, Outcome, Inv, TypeOK
<1>6. ASSUME NEW c \in Calls, Finish(c)
      PROVE  \E outcome \in {"true", "false"} : B!Answer(c, outcome)
  <2>1. reply[c] \in {"ok", "error"}
    BY <1>6 DEF Finish, Inv, TypeOK
  <2>2. /\ Told(c, reply[c]) \in {"true", "false"}
        /\ c \in Informed /\ Told(c, reply[c]) = "true" => reply[c] = "ok"
    BY <2>1, ToldSomething DEF Informed
  <2>3. c \in Informed /\ Told(c, reply[c]) = "true" => effects[c] = 1
    BY <2>2 DEF Inv, CallInv
  <2>4. B!Answer(c, Told(c, reply[c]))
    BY <1>6, <2>2, <2>3 DEF Finish, B!Answer, Outcome, Inv, TypeOK
  <2> QED
    BY <2>2, <2>4
<1>7. ASSUME NEW c \in Calls, Effect(c) PROVE B!Do(c)
  <2>1. effects[c] = 0 /\ client[c] \notin {"idle", "posted"}
    BY <1>7 DEF Effect, At, Inv, CallInv
  <2> QED
    BY <1>7, <2>1 DEF Effect, B!Do, Outcome, Inv, TypeOK, CallInv
<1> QED
  BY <1>1, <1>2, <1>3, <1>4, <1>5, <1>6, <1>7 DEF Next, SendStep, B!Next

\* Every behaviour of the window, the bus and the helper is one of BusCalls: at
\* most one effect and exactly one answer per call, through deaths and timeouts,
\* and an answer of success that means something to an informed caller.
THEOREM Implements == Spec => ImplementsBusCalls
<1>1. Init => B!Init
  BY DEF Init, B!Init, Outcome
<1>2. Inv /\ [Next]_vars => [B!Next]_<<[c \in Calls |-> Outcome(c)], effects>>
  BY StepImplements DEF Asked
<1> QED
  BY <1>1, <1>2, AlwaysInv, PTL DEF Spec, ImplementsBusCalls, B!Spec

=============================================================================
