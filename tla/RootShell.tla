----------------------------- MODULE RootShell -----------------------------
(***************************************************************************)
(* How the window reaches the privileged helper (src/polkit/superlaunch.cpp,*)
(* supercommander.cpp, masterservice.cpp, src/gui/rootshellthread.cpp).    *)
(*                                                                         *)
(* root_shell_thread::run brings the helper up in a thread of its own; the *)
(* signal "started" may make the GUI thread do the same.  Both take mtx_.  *)
(* A call is posted to the GUI thread, whose event loop sends it over the  *)
(* bus; the helper runs it in a thread of its pool and answers late.  The  *)
(* helper may die at any step, and the bus starts it again for the next    *)
(* message.  A call that is not answered within 120 s fails in the window  *)
(* and goes on in the helper.  What the caller is told is up to a wrapper, *)
(* and most wrappers say "true" to every answer.                           *)
(*                                                                         *)
(* The end of start_root_shell_unlocked after StartUnit is not modelled:   *)
(* it starts a unit that is not installed, so that StartUnit always fails. *)
(***************************************************************************)
EXTENDS Naturals, FiniteSets

CONSTANTS
  Calls,        \* the calls of the window
  Wrapper,      \* [Calls -> what the wrapper of the call makes of the answer]
  PoolThreads,  \* worker_pool.maxThreadCount()
  None          \* nobody holds mtx_

ASSUME PoolAssumption == PoolThreads \in Nat \ {0}

Threads == {"root", "gui"}

ASSUME NoneAssumption == None \notin Threads

\* btrfsls, beesstatus, beessetup, btrfstat and the other wrappers that return
\* text read the answer; beesremoveconfig looks at an empty answer of its own
\* and always says false; the rest say true.
ASSUME WrapperAssumption == Wrapper \in [Calls -> {"reads", "true", "false"}]

VARIABLES
  pc,        \* [Threads -> where start_root_shell is; "loop" in the event loop]
  mtx,       \* superlaunch::mtx_
  alive,     \* launcher->root_alive
  announced, \* root_shell_ready has been emitted
  started,   \* the "started" signal is queued for the GUI thread
  iface,     \* the_iface exists and knows an owner of the name
  helper,    \* "down", "named" (it owns the name) or "ready" (and its object is there)
  starting,  \* the bus is starting the helper
  client,    \* [Calls -> where the call is in the window]
  server,    \* [Calls -> where it is in the helper]
  reply,     \* [Calls -> the answer that is on its way or has arrived]
  told,      \* [Calls -> what the caller was told]
  effects    \* [Calls -> how many times the clause was run]

startVars  == <<pc, mtx, alive, announced>>
helperVars == <<helper, starting>>
callVars   == <<client, server, reply, told, effects>>
vars == <<startVars, started, iface, helperVars, callVars>>

At(c, place) == server[c] = place
Outstanding  == {c \in Calls : server[c] # "none"}

\* The threads of the pool that are taken: run() ends with the reply.
Occupied == {c \in Calls : server[c] \in {"running", "ran"}}

\* What the .then of the wrapper makes of an answer: a refusal, a timeout, a
\* helper that has died and a clause that has failed are all errors.
Told(c, r) ==
  IF Wrapper[c] = "reads" THEN (IF r = "ok" THEN "true" ELSE "false") ELSE Wrapper[c]

\* The first answer counts: what comes after a timeout is dropped.
Answered(lost, r) ==
  [c \in Calls |-> IF c \in lost /\ reply[c] = "none" THEN r ELSE reply[c]]

-----------------------------------------------------------------------------
(* start_root_shell, in either thread. *)

Lock(t) ==
  /\ pc[t] = "lock" /\ mtx = None
  /\ mtx' = t
  /\ pc' = [pc EXCEPT ![t] = "check"]
  /\ UNCHANGED <<alive, announced, started, iface, helperVars, callVars>>

\* The function returns ok; init_root_shell announces success.
Return(t, ok) ==
  /\ mtx' = None
  /\ pc' = [pc EXCEPT ![t] = "loop"]
  /\ announced' = (announced \/ ok)

\* Already alive, or no bus, or StartServiceByName.
Check(t) ==
  /\ pc[t] = "check"
  /\ \/ alive /\ Return(t, TRUE) /\ UNCHANGED starting
     \/ ~alive /\ Return(t, FALSE) /\ UNCHANGED starting
     \/ /\ ~alive
        /\ starting' = (starting \/ helper = "down")
        /\ pc' = [pc EXCEPT ![t] = "wait"]
        /\ UNCHANGED <<mtx, announced>>
  /\ UNCHANGED <<alive, started, iface, helper, callVars>>

\* Defect: the mutex is not given back when the name is there.
SeeNameKeepsLock(t) ==
  /\ pc[t] = "wait" /\ helper # "down"
  /\ alive' = TRUE
  /\ announced' = TRUE
  /\ pc' = [pc EXCEPT ![t] = "loop"]
  /\ UNCHANGED <<mtx, started, iface, helperVars, callVars>>

\* The name is registered within 10 s ...
SeeName(t) ==
  /\ pc[t] = "wait" /\ helper # "down"
  /\ alive' = TRUE
  /\ Return(t, TRUE)
  /\ UNCHANGED <<started, iface, helperVars, callVars>>

\* ... or it is not, and StartUnit fails.
GiveUp(t) ==
  /\ pc[t] = "wait" /\ helper = "down"
  /\ Return(t, FALSE)
  /\ UNCHANGED <<alive, started, iface, helperVars, callVars>>

-----------------------------------------------------------------------------
(* The window. *)

\* call_bk_future
Post(c) ==
  /\ client[c] = "idle"
  /\ client' = [client EXCEPT ![c] = "posted"]
  /\ UNCHANGED <<startVars, started, iface, helperVars, server, reply, told, effects>>

\* The "started" signal arrives: init_root_shell in the GUI thread.
GuiInit ==
  /\ pc["gui"] = "loop" /\ started
  /\ started' = FALSE
  /\ pc' = [pc EXCEPT !["gui"] = "lock"]
  /\ UNCHANGED <<mtx, alive, announced, iface, helperVars, callVars>>

\* The GUI thread takes a posted call when it is back in its event loop.
Takes(c) == pc["gui"] = "loop" /\ client[c] = "posted"

\* ensure_iface fails: the helper has never been seen, or the new interface
\* finds no owner.  Looking for one may make the bus start the helper.
Refuse(c) ==
  /\ Takes(c)
  /\ ~alive \/ (~iface /\ helper = "down")
  /\ client' = [client EXCEPT ![c] = "done"]
  /\ reply' = [reply EXCEPT ![c] = "error"]
  /\ told' = [told EXCEPT ![c] = Told(c, "error")]
  /\ starting' \in IF alive THEN {starting, TRUE} ELSE {starting}
  /\ UNCHANGED <<startVars, started, iface, helper, server, effects>>

\* asyncCall.  An interface that has not heard of the helper's end sends to
\* nobody, and the bus starts the helper for the message.
SendCall(c) ==
  /\ Takes(c)
  /\ alive /\ (iface \/ helper # "down")
  /\ iface' = TRUE
  /\ client' = [client EXCEPT ![c] = "waiting"]
  /\ server' = [server EXCEPT ![c] = "sent"]
  /\ starting' = (starting \/ helper = "down")
  /\ UNCHANGED <<startVars, started, helper, reply, told, effects>>

OwnerLost ==
  /\ iface /\ helper = "down"
  /\ iface' = FALSE
  /\ UNCHANGED <<startVars, started, helperVars, callVars>>

\* Defect: a call that timed out is sent once more.
TimeoutRetries(c) ==
  /\ client[c] = "waiting" /\ reply[c] = "none"
  /\ server' = [server EXCEPT ![c] = "sent"]
  /\ starting' = (starting \/ helper = "down")
  /\ UNCHANGED <<startVars, started, iface, helper, client, reply, told, effects>>

Timeout(c) ==
  /\ client[c] = "waiting" /\ reply[c] = "none"
  /\ reply' = [reply EXCEPT ![c] = "error"]
  /\ UNCHANGED <<startVars, started, iface, helperVars, client, server, told, effects>>

\* Defect: the wrapper that should read the answer says true as the others do.
FinishUnread(c) ==
  /\ client[c] = "waiting" /\ reply[c] # "none" /\ pc["gui"] = "loop"
  /\ client' = [client EXCEPT ![c] = "done"]
  /\ told' = [told EXCEPT ![c] = "true"]
  /\ UNCHANGED <<startVars, started, iface, helperVars, server, reply, effects>>

\* The watcher finishes in the GUI thread and resolves the promise, and the
\* wrapper tells the caller what it makes of the answer.
Finish(c) ==
  /\ client[c] = "waiting" /\ reply[c] # "none" /\ pc["gui"] = "loop"
  /\ client' = [client EXCEPT ![c] = "done"]
  /\ told' = [told EXCEPT ![c] = Told(c, reply[c])]
  /\ UNCHANGED <<startVars, started, iface, helperVars, server, reply, effects>>

-----------------------------------------------------------------------------
(* The helper and the bus. *)

\* main claims the name before it exports the object.
Launch ==
  /\ starting /\ helper = "down"
  /\ helper' = "named" /\ starting' = FALSE
  /\ UNCHANGED <<startVars, started, iface, callVars>>

\* The bus gives up on the helper and on the messages kept for it.
LaunchFails ==
  /\ starting /\ helper = "down"
  /\ starting' = FALSE
  /\ reply' = Answered(Outstanding, "error")
  /\ server' = [c \in Calls |-> "none"]
  /\ UNCHANGED <<startVars, started, iface, helper, client, told, effects>>

Export ==
  /\ helper = "named"
  /\ helper' = "ready"
  /\ UNCHANGED <<startVars, started, iface, starting, callVars>>

\* Defect: the reply is sent from execute_clause, before the clause has run.
DispatchReplies(c) ==
  /\ At(c, "sent") /\ helper = "ready"
  /\ server' = [server EXCEPT ![c] = "pooled"]
  /\ reply' = Answered({c}, "ok")
  /\ UNCHANGED <<startVars, started, iface, helperVars, client, told, effects>>

\* Defect: the pool is asked to try, and its refusal is not looked at.
DispatchTries(c) ==
  /\ At(c, "sent") /\ helper = "ready"
  /\ server' = [server EXCEPT
                   ![c] = IF Cardinality(Occupied) < PoolThreads THEN "pooled" ELSE "none"]
  /\ UNCHANGED <<startVars, started, iface, helperVars, client, reply, told, effects>>

\* A message reaches the helper: no such object yet, or execute_clause, which
\* hands it to the pool and replies later.
Dispatch(c) ==
  /\ At(c, "sent")
  /\ \/ /\ helper = "named"
        /\ server' = [server EXCEPT ![c] = "none"]
        /\ reply' = Answered({c}, "error")
     \/ /\ helper = "ready"
        /\ server' = [server EXCEPT ![c] = "pooled"]
        /\ UNCHANGED reply
  /\ UNCHANGED <<startVars, started, iface, helperVars, client, told, effects>>

\* clause_runnable::run begins in a free thread of the pool.
RunClause(c) ==
  /\ At(c, "pooled")
  /\ Cardinality(Occupied) < PoolThreads
  /\ server' = [server EXCEPT ![c] = "running"]
  /\ UNCHANGED <<startVars, started, iface, helperVars, client, reply, told, effects>>

\* The handler has done its work.
Effect(c) ==
  /\ At(c, "running")
  /\ server' = [server EXCEPT ![c] = "ran"]
  /\ effects' = [effects EXCEPT ![c] = @ + 1]
  /\ UNCHANGED <<startVars, started, iface, helperVars, client, reply, told>>

\* Defect: a worker that has replied never gives its thread back.
ReplyKeepsThread(c) ==
  /\ At(c, "ran")
  /\ \E r \in {"ok", "error"} : reply' = Answered({c}, r)
  /\ UNCHANGED <<startVars, started, iface, helperVars, client, server, told, effects>>

\* The reply is sent, with the errcode of the handler, and run() returns.
Reply(c) ==
  /\ At(c, "ran")
  /\ server' = [server EXCEPT ![c] = "none"]
  /\ \E r \in {"ok", "error"} : reply' = Answered({c}, r)
  /\ UNCHANGED <<startVars, started, iface, helperVars, client, told, effects>>

\* The helper dies; the bus answers for it.
Die ==
  /\ helper # "down"
  /\ helper' = "down"
  /\ reply' = Answered(Outstanding, "error")
  /\ server' = [c \in Calls |-> "none"]
  /\ UNCHANGED <<startVars, started, iface, starting, client, told, effects>>

-----------------------------------------------------------------------------

\* The root thread starts in run(); "started" reaches the GUI thread unless it
\* is emitted before it is connected.
Init ==
  /\ pc = [t \in Threads |-> IF t = "root" THEN "lock" ELSE "loop"]
  /\ mtx = None
  /\ alive = FALSE /\ announced = FALSE
  /\ started \in BOOLEAN
  /\ iface = FALSE
  /\ helper \in {"down", "ready"} /\ starting = FALSE
  /\ client = [c \in Calls |-> "idle"]
  /\ server = [c \in Calls |-> "none"]
  /\ reply = [c \in Calls |-> "none"]
  /\ told = [c \in Calls |-> "none"]
  /\ effects = [c \in Calls |-> 0]

StartStep(t) == Lock(t) \/ Check(t) \/ SeeName(t) \/ GiveUp(t)
SendStep(c)  == Refuse(c) \/ SendCall(c)
HelperStep(c) == Dispatch(c) \/ RunClause(c) \/ Effect(c) \/ Reply(c)

Next ==
  \/ \E t \in Threads : StartStep(t)
  \/ GuiInit \/ OwnerLost
  \/ \E c \in Calls : Post(c) \/ SendStep(c) \/ Timeout(c) \/ Finish(c) \/ HelperStep(c)
  \/ Launch \/ LaunchFails \/ Export \/ Die

Spec == Init /\ [][Next]_vars

\* The threads run, the waits of start_root_shell and of a call are bounded by
\* their timeouts, the bus starts or gives up, and the clauses return.  Nobody
\* has to call, and the helper does not have to die.
Fairness ==
  /\ \A t \in Threads : WF_vars(StartStep(t))
  /\ WF_vars(GuiInit)
  /\ \A c \in Calls : /\ WF_vars(SendStep(c)) /\ WF_vars(Timeout(c))
                      /\ SF_vars(Finish(c)) /\ WF_vars(HelperStep(c))
  /\ WF_vars(Launch \/ LaunchFails) /\ WF_vars(Export)

-----------------------------------------------------------------------------
(* Properties. *)

TypeOK ==
  /\ pc \in [Threads -> {"lock", "check", "wait", "loop"}]
  /\ mtx \in Threads \cup {None}
  /\ \A t \in Threads : mtx = t <=> pc[t] \in {"check", "wait"}
  /\ alive \in BOOLEAN /\ announced \in BOOLEAN /\ started \in BOOLEAN
  /\ iface \in BOOLEAN /\ starting \in BOOLEAN
  /\ helper \in {"down", "named", "ready"}
  /\ client \in [Calls -> {"idle", "posted", "waiting", "done"}]
  /\ server \in [Calls -> {"none", "sent", "pooled", "running", "ran"}]
  /\ reply \in [Calls -> {"none", "ok", "error"}]
  /\ told \in [Calls -> {"none", "true", "false"}]
  /\ effects \in [Calls -> 0 .. 1]

\* A caller whose wrapper reads the answer is told of success only when the
\* clause has run: not by a delayed reply that comes too early, one that crosses
\* a timeout or the helper's end, nor by an error.  Callers of the other
\* wrappers (supercommander.cpp:136-165, 257-317) are told nothing: "true" is all
\* they ever hear, whether the clause ran, failed or was never sent.
SuccessIsReal ==
  \A c \in Calls : Wrapper[c] = "reads" /\ told[c] = "true" => effects[c] = 1

\* A clause that the window still waits for is not lost in the helper: the bus
\* or the helper has it or has answered, also when the pool is full.  (That a
\* helper which dies is answered for is the bus daemon's part.)
NotLost ==
  \A c \in Calls : client[c] = "waiting" /\ reply[c] = "none" => server[c] # "none"

\* What a caller may rely on: at most one effect, exactly one answer, which
\* means something if the wrapper has read it.
Outcome(c) == CASE client[c] = "idle" -> "idle"
                [] client[c] = "done" -> told[c]
                [] OTHER              -> "pending"
Informed == {c \in Calls : Wrapper[c] = "reads"}
B == INSTANCE BusCalls WITH asked <- [c \in Calls |-> Outcome(c)], effects <- effects
ImplementsBusCalls == B!Spec

\* Every posted call is answered, although the GUI thread itself may be held up
\* by mtx_ and by the wait for the name.
CallsEnd == \A c \in Calls : client[c] = "posted" ~> client[c] = "done"

\* Whatever the pool has accepted gets a thread, however many clauses came
\* before it (or dies with the helper): threads are given back after the reply.
PoolDrains == \A c \in Calls : At(c, "pooled") ~> ~At(c, "pooled")

\* Both threads come back from start_root_shell.
StartEnds == \A t \in Threads : pc[t] = "lock" ~> pc[t] = "loop"

=============================================================================
