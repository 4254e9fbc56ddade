---------------------------- MODULE RefreshTable ----------------------------
(***************************************************************************)
(* The filesystem table of the window (src/gui/refreshtable.cpp,           *)
(* buttonhandlers.cpp, mainwindow.cpp, autostartio.cpp, setupdialog.cpp).  *)
(*                                                                         *)
(*   - a refresh takes a snapshot of what the table shows, asks the helper *)
(*     for the list (a full refresh) or not (a soft one), compares the     *)
(*     snapshot with fs_view_state in a thread of the pool and changes the *)
(*     rows back in the GUI thread; is_being_refreshed admits one at a     *)
(*     time and discards the rest;                                         *)
(*   - a button sends calls to the helper and writes the hoped-for outcome *)
(*     into fs_view_state and the table at once ("optimistically"); when   *)
(*     the last call of the batch has been answered, a soft refresh runs.  *)
(*                                                                         *)
(* One action is one event of the GUI thread, one step of the pool thread, *)
(* or one call carried out by the helper.                                  *)
(***************************************************************************)
EXTENDS Integers, FiniteSets, Sequences, Subsequences

CONSTANTS
  UUIDs,       \* the filesystems, numbered in the order of their text
  Refreshes,   \* the refreshes there may be at once, were it not for the flag
  Batches,     \* bound: the batches of calls that may be under way at once
  SortColumn,  \* the column the user sorts by; 0 until a header is clicked
  MaxRows      \* bound: no row without a UUID is added beyond this number of rows

ASSUME ConstantsAssumption ==
  /\ UUIDs \subseteq Nat \ {0}
  /\ Refreshes \subseteq Nat /\ Refreshes # {}
  /\ Batches \subseteq Nat
  /\ SortColumn \in {0, 2}
  /\ MaxRows \in Nat

NoUuid   == 0       \* the empty string where a UUID is expected
NoCell   == "none"  \* a row without an item in its status column
Keys     == UUIDs \cup {NoUuid}
Statuses == {"", "running", "stopped", "unconfigured"}

\* fs_info, without the texts.  configured: the path in config is not empty.
Info == [status : Statuses, configured : BOOLEAN, compressing : BOOLEAN, autostart : BOOLEAN]
EmptyInfo == [status |-> "", configured |-> FALSE, compressing |-> FALSE, autostart |-> FALSE]

Ops == {"start", "stop", "setup", "remove", "compress", "pause",
        "autostart_add", "autostart_remove", "none"}

VARIABLES
  present,    \* filesystems whose disk is plugged in
  world,      \* what is true of each filesystem
  reachable,  \* whether the helper answers
  rootAlive,  \* launcher->root_alive
  view,       \* fs_view_state
  table,      \* the rows, each with its UUID and its status cell
  flag,       \* is_being_refreshed
  refresh,    \* [Refreshes -> where each refresh is]
  selected,   \* the UUIDs of the selected rows
  buttons,    \* what update_button_states left
  dialog,     \* the modal dialog that is open
  batch       \* [Batches -> calls to be carried out, calls whose answer is on its way]

worldVars == <<present, world, reachable>>
guiVars   == <<rootAlive, view, table, selected, buttons>>
vars == <<worldVars, guiVars, flag, refresh, dialog, batch>>

-----------------------------------------------------------------------------
(* What the rows and the predicates on them say. *)

Row == [uuid : Keys, status : Statuses \cup {NoCell}]
Uuids(t) == {t[r].uuid : r \in DOMAIN t}
RowOf(t, u) == CHOOSE r \in DOMAIN t : t[r].uuid = u /\ \A q \in 1 .. r - 1 : t[q].uuid # u

\* get_baseline: what the user sees; rows with an empty UUID do not count.
Shown(t) ==
  [u \in Uuids(t) \ {NoUuid} |->
     IF t[RowOf(t, u)].status = NoCell THEN "" ELSE t[RowOf(t, u)].status]

InfoOf(v, u) == IF u \in DOMAIN v /\ u # NoUuid THEN v[u] ELSE EmptyInfo
Running(v, u)    == InfoOf(v, u).status = "running"
Stopped(v, u)    == InfoOf(v, u).status = "stopped"
Configured(v, u) == InfoOf(v, u).configured

\* list_of_selected_rows with check_the_whole_table_if_none_selected
Scope(t, sel) == IF sel = {} THEN Uuids(t) ELSE sel

\* update_button_states
ButtonsFor(v, t, sel) ==
  [start  |-> \E u \in Scope(t, sel) : Stopped(v, u),
   stop   |-> \E u \in Scope(t, sel) : Running(v, u),
   setup  |-> \E u \in sel : ~Configured(v, u),
   add    |-> /\ \E u \in Scope(t, sel) : Configured(v, u)
              /\ \E u \in sel : ~InfoOf(v, u).autostart,
   unadd  |-> /\ \E u \in sel : Configured(v, u)
              /\ \E u \in sel : InfoOf(v, u).autostart,
   remove |-> /\ Cardinality(sel) = 1
              /\ \E u \in sel : Configured(v, u) /\ Stopped(v, u),
   paused |-> \E u \in Scope(t, sel) : ~InfoOf(v, u).compressing]

-----------------------------------------------------------------------------
(* What a refresh does to the rows. *)

\* apply_removed: the first row of each filesystem that is gone.
RemoveRows(t, gone) ==
  Pick(t, {r \in DOMAIN t : t[r].uuid \in gone => r # RowOf(t, t[r].uuid)})

\* apply_added for one filesystem.  The new row is the last; its cells are set
\* one by one, by row number.  The table is sorted while this happens, so that
\* the UUID cell moves the row to its place in descending order when column 0
\* is the sort column, and the status cell is set in whichever row is last now.
AddRow(t, u, status) ==
  LET place == 1 + Cardinality({r \in DOMAIN t : t[r].uuid > u})
      last  == Len(t) + 1
      rows  == [r \in 1 .. last |-> CASE r < place -> t[r]
                                      [] r = place -> [uuid |-> u, status |-> NoCell]
                                      [] r > place -> t[r - 1]]
  IN CASE u = NoUuid /\ Len(t) >= MaxRows -> t
       [] SortColumn = 0                    -> [rows EXCEPT ![last].status = status]
       [] OTHER                             -> Append(t, [uuid |-> u, status |-> status])

\* The rows are added in the order of an unordered_map.
AddRows(t, v, order) ==
  LET rows[n \in 0 .. Len(order)] ==
        IF n = 0 THEN t ELSE AddRow(rows[n - 1], order[n], v[order[n]].status)
  IN rows[Len(order)]

Orders(S) == {f \in [1 .. Cardinality(S) -> S] : \A u \in S : \E n \in DOMAIN f : f[n] = u}

\* Defect: the row is found and left as it is.
ChangeNothing(t, v, changed) == t

\* apply_changed: the first row of each filesystem; a cell that is not there
\* is not made.
ChangeRows(t, v, changed) ==
  [r \in DOMAIN t |->
     IF t[r].uuid \in changed /\ r = RowOf(t, t[r].uuid) /\ t[r].status # NoCell
     THEN [t[r] EXCEPT !.status = v[t[r].uuid].status]
     ELSE t[r]]

\* The comparison in the pool thread: only the status counts as a change.
Removed(baseline, v) == DOMAIN baseline \ DOMAIN v
Added(baseline, v)   == DOMAIN v \ DOMAIN baseline
Changed(baseline, v) == {u \in DOMAIN baseline \cap DOMAIN v : baseline[u] # v[u].status}

-----------------------------------------------------------------------------
(* A refresh. *)

Idle == [stage |-> "idle", baseline |-> <<>>, data |-> <<>>, left |-> {}]

IsIdle(i) == refresh[i].stage = "idle"
IdleRefresh(i) == IsIdle(i) /\ \A j \in Refreshes : IsIdle(j) => i <= j

\* Defect: the flag is not consulted.
RefreshTableUnguarded(full) ==
  /\ flag' = TRUE
  /\ buttons' = ButtonsFor(view, table, selected)
  /\ \E i \in Refreshes :
       /\ IdleRefresh(i)
       /\ refresh' = [refresh EXCEPT
                        ![i] = [Idle EXCEPT !.stage = IF full THEN "list" ELSE "ask",
                                            !.baseline = Shown(table)]]

\* refresh_table(fetch_data_from_daemon)
RefreshTable(full) ==
  IF flag
  THEN UNCHANGED <<flag, refresh, buttons>>
  ELSE /\ flag' = TRUE
       /\ buttons' = ButtonsFor(view, table, selected)
       /\ \E i \in Refreshes :
            /\ IdleRefresh(i)
            /\ refresh' = [refresh EXCEPT
                             ![i] = [Idle EXCEPT !.stage = IF full THEN "list" ELSE "ask",
                                                 !.baseline = Shown(table)]]

\* The soft timer.  A tick during a refresh is discarded.
SoftRefresh ==
  /\ RefreshTable(FALSE)
  /\ UNCHANGED <<worldVars, rootAlive, view, table, selected, dialog, batch>>

\* The full timer, the refresh button, the first refresh and the root shell.
FullRefresh ==
  /\ RefreshTable(TRUE)
  /\ UNCHANGED <<worldVars, rootAlive, view, table, selected, dialog, batch>>

\* start_root_shell has succeeded.  on_root_shell_ready then refreshes in full,
\* unless its signal was emitted before set_root_thread had connected it; that
\* refresh is a FullRefresh like the others.
RootShellReady ==
  /\ ~rootAlive
  /\ rootAlive' = TRUE
  /\ UNCHANGED <<worldVars, view, table, selected, buttons, flag, refresh, dialog, batch>>

\* The clause list, as btrfsls of the helper fills it in.
Listing == [u \in present |->
              [status |-> IF world[u].running THEN "running"
                          ELSE IF world[u].configured THEN "stopped" ELSE "unconfigured",
               configured |-> world[u].configured,
               compressing |-> world[u].compressing,
               autostart |-> world[u].autostart]]

Answers == rootAlive /\ reachable

\* The helper lists, or the call fails and its output is empty.
List(i) ==
  /\ refresh[i].stage = "list"
  /\ refresh' = [refresh EXCEPT ![i].stage = "listed",
                                ![i].data = IF Answers THEN Listing ELSE <<>>]
  /\ UNCHANGED <<worldVars, guiVars, flag, dialog, batch>>

\* Defect: the list itself is what is compared.
FetchedKeepsList(i) ==
  /\ refresh[i].stage = "listed"
  /\ view' = refresh[i].data
  /\ refresh' = [refresh EXCEPT ![i].stage = "ask"]
  /\ UNCHANGED <<worldVars, rootAlive, table, selected, buttons, flag, dialog, batch>>

\* Defect: an empty list is asked for again.
FetchedAsksAgain(i) ==
  /\ refresh[i].stage = "listed"
  /\ IF DOMAIN refresh[i].data = {}
     THEN UNCHANGED view /\ refresh' = [refresh EXCEPT ![i].stage = "list"]
     ELSE /\ view' = refresh[i].data
          /\ refresh' = [refresh EXCEPT ![i].stage = "ask", ![i].data = <<>>]
  /\ UNCHANGED <<worldVars, rootAlive, table, selected, buttons, flag, dialog, batch>>

\* Defect: what is known already is kept (insert instead of an assignment).
FetchedInserts(i) ==
  /\ refresh[i].stage = "listed"
  /\ LET data == refresh[i].data
     IN view' = [u \in DOMAIN view \cup DOMAIN data |->
                   IF u \in DOMAIN view THEN view[u] ELSE data[u]]
  /\ refresh' = [refresh EXCEPT ![i].stage = "ask", ![i].data = <<>>]
  /\ UNCHANGED <<worldVars, rootAlive, table, selected, buttons, flag, dialog, batch>>

\* The continuation of btrfsls(): fs_view_state is replaced.
Fetched(i) ==
  /\ refresh[i].stage = "listed"
  /\ view' = refresh[i].data
  /\ refresh' = [refresh EXCEPT ![i].stage = "ask", ![i].data = <<>>]
  /\ UNCHANGED <<worldVars, rootAlive, table, selected, buttons, flag, dialog, batch>>

\* The slot quick_refresh.
QuickRefresh(i) ==
  /\ refresh[i].stage = "ask"
  /\ refresh' = [refresh EXCEPT ![i] =
                   IF flag THEN [@ EXCEPT !.stage = "copy", !.left = UUIDs \cup DOMAIN view]
                           ELSE Idle]
  /\ UNCHANGED <<worldVars, guiVars, flag, dialog, batch>>

\* The pool thread copies fs_view_state entry by entry while the GUI thread
\* may write it: there is no lock.
CopyEntry(i) ==
  /\ refresh[i].stage = "copy"
  /\ LET u == CHOOSE k \in refresh[i].left : \A l \in refresh[i].left : k <= l
         data == refresh[i].data
     IN refresh' = [refresh EXCEPT
          ![i].left = @ \ {u},
          ![i].stage = IF refresh[i].left = {u} THEN "apply" ELSE "copy",
          ![i].data = IF u \in DOMAIN view
                      THEN [k \in DOMAIN data \cup {u} |-> IF k = u THEN view[u] ELSE data[k]]
                      ELSE data]
  /\ UNCHANGED <<worldVars, guiVars, flag, dialog, batch>>

\* Defect: rows that have gone are kept.
ApplyKeepsRemoved(i) ==
  /\ refresh[i].stage = "apply"
  /\ LET base == refresh[i].baseline
         data == refresh[i].data
     IN \E order \in Orders(Added(base, data)) :
          table' = ChangeRows(AddRows(table, data, order), data, Changed(base, data))
  /\ selected' = selected \cap Uuids(table')
  /\ flag' = FALSE
  /\ buttons' = ButtonsFor(view, table', selected')
  /\ refresh' = [refresh EXCEPT ![i] = Idle]
  /\ UNCHANGED <<worldVars, rootAlive, view, dialog, batch>>

\* Back in the GUI thread: rows are removed, added and changed.
Apply(i) ==
  /\ refresh[i].stage = "apply"
  /\ LET base == refresh[i].baseline
         data == refresh[i].data
     IN \E order \in Orders(Added(base, data)) :
          table' = IF flag
                   THEN ChangeRows(AddRows(RemoveRows(table, Removed(base, data)), data, order),
                                   data, Changed(base, data))
                   ELSE table
  /\ selected' = selected \cap Uuids(table')
  /\ flag' = FALSE
  /\ buttons' = ButtonsFor(view, table', selected')
  /\ refresh' = [refresh EXCEPT ![i] = Idle]
  /\ UNCHANGED <<worldVars, rootAlive, view, dialog, batch>>

-----------------------------------------------------------------------------
(* Calls to the helper and the optimistic update. *)

NoBatch == [todo |-> {}, back |-> {}]
BatchIdle(b) == batch[b] = NoBatch
NextBatch(b) == BatchIdle(b) /\ \A c \in Batches : BatchIdle(c) => b <= c

\* futuristically_process_indices_with_predicate: no call, no batch.
Send(calls) ==
  IF calls = {} THEN UNCHANGED batch
  ELSE \E b \in Batches : /\ NextBatch(b)
                          /\ batch' = [batch EXCEPT ![b].todo = calls]

\* Defect: the table is changed under a refresh as well.
ChangedAtOnceAlways(items) == table' = ChangeRows(table, view', items)

ChangedAtOnce(items) == table' = IF flag THEN table ELSE ChangeRows(table, view', items)

\* The entry of fs_view_state, made if it is not there.
Entry(u) == IF u \in DOMAIN view THEN view[u] ELSE EmptyInfo

\* optimistically_update: hoped gives the new entries; the table is left alone
\* while a refresh is under way.
Optimistic(hoped) ==
  /\ view' = [u \in DOMAIN view \cup DOMAIN hoped |->
                IF u \in DOMAIN hoped THEN hoped[u] ELSE view[u]]
  /\ ChangedAtOnce(DOMAIN hoped)
  /\ buttons' = ButtonsFor(view', table', selected)
  /\ UNCHANGED <<flag, refresh>>

Clicks == dialog.kind = "none" /\ rootAlive

HandleStart ==
  /\ Clicks /\ buttons.start
  /\ Send({<<"start", u>> : u \in {v \in Scope(table, selected) :
                                     ~Running(view, v) /\ Configured(view, v)}})
  /\ Optimistic([u \in Scope(table, selected) |-> [Entry(u) EXCEPT !.status = "running"]])
  /\ UNCHANGED <<worldVars, rootAlive, selected, dialog>>

HandleStop ==
  /\ Clicks /\ buttons.stop
  /\ Send({<<"stop", u>> : u \in {v \in Scope(table, selected) :
                                    Running(view, v) /\ Configured(view, v)}})
  /\ Optimistic([u \in Scope(table, selected) |-> [Entry(u) EXCEPT !.status = "stopped"]])
  /\ UNCHANGED <<worldVars, rootAlive, selected, dialog>>

\* tc::is_running, asked by the GUI process itself
Compressing(u) == u \in present /\ world[u].compressing

\* A toggle of the switch: pause is the state it takes.  Futures that are ready
\* from the start count as well.
HandleCompressionSwitch ==
  /\ Clicks
  /\ LET pause == ~buttons.paused
     IN Send({<<IF Compressing(u) # pause THEN "none" ELSE IF pause THEN "pause" ELSE "compress",
                u>> : u \in Scope(table, selected)})
  /\ Optimistic([u \in Scope(table, selected) |->
                   [Entry(u) EXCEPT !.compressing = ~Compressing(u)]])
  /\ UNCHANGED <<worldVars, rootAlive, selected, dialog>>

\* handle_add_to_autostart and handle_remove_from_autostart: the file is read
\* in the GUI process, the table and the buttons are left alone.
HandleAutostart(add) ==
  /\ dialog.kind = "none"
  /\ IF add THEN buttons.add ELSE buttons.unadd
  /\ LET items == {u \in selected \ {NoUuid} :
                     Configured(view, u) /\ world[u].autostart # add}
     IN /\ Send({<<IF add THEN "autostart_add" ELSE "autostart_remove", u>> : u \in items})
        /\ view' = [u \in DOMAIN view |->
                      IF u \in items THEN [view[u] EXCEPT !.autostart = add] ELSE view[u]]
  /\ UNCHANGED <<worldVars, rootAlive, table, selected, buttons, flag, refresh, dialog>>

\* handle_remove_button takes the selected rows, then asks; the window goes on
\* working while it waits for the answer.
NoDialog == [kind |-> "none", rows |-> {}, meant |-> {}]

AskRemove ==
  /\ Clicks /\ buttons.remove /\ selected # {}
  /\ dialog' = [kind |-> "remove",
                rows |-> {r \in DOMAIN table : table[r].uuid \in selected},
                meant |-> selected]
  /\ UNCHANGED <<worldVars, guiVars, flag, refresh, batch>>

\* What the row numbers taken before the question stand for now.
UuidsAt(rows) == {IF r \in DOMAIN table THEN table[r].uuid ELSE NoUuid : r \in rows}

RemovalCalls(items) ==
  {<<"remove", u>> : u \in {v \in items : ~Running(view, v) /\ Configured(view, v)}}

ConfirmRemove ==
  /\ dialog.kind = "remove"
  /\ Send(RemovalCalls(UuidsAt(dialog.rows)))
  /\ Optimistic([u \in UuidsAt(dialog.rows) |->
                   [Entry(u) EXCEPT !.status = "unconfigured", !.configured = FALSE]])
  /\ dialog' = NoDialog
  /\ UNCHANGED <<worldVars, rootAlive, selected>>

\* handle_setup opens the dialog, which takes the selection when it is accepted.
OpenSetup ==
  /\ Clicks /\ buttons.setup /\ Scope(table, selected) # {}
  /\ dialog' = [NoDialog EXCEPT !.kind = "setup"]
  /\ UNCHANGED <<worldVars, guiVars, flag, refresh, batch>>

\* SetupDialog::accept: two batches, the second for compression.  Asking for
\* the status of a selected filesystem makes its entry.
AcceptSetup(compress) ==
  /\ dialog.kind = "setup" /\ rootAlive
  /\ LET items == {u \in selected \cap DOMAIN view : view[u].status = "unconfigured"}
     IN /\ view' = [u \in DOMAIN view \cup selected |->
                      IF u \in items
                      THEN [view[u] EXCEPT !.status = "stopped", !.configured = TRUE,
                                           !.compressing = compress \/ @]
                      ELSE Entry(u)]
        /\ IF items = {} THEN UNCHANGED batch
           ELSE \E b, c \in Batches :
                  /\ NextBatch(b) /\ BatchIdle(c) /\ b # c
                  /\ batch' = [batch EXCEPT
                       ![b].todo = {<<"setup", u>> : u \in items},
                       ![c].todo = IF compress THEN {<<"compress", u>> : u \in items} ELSE {}]
  /\ dialog' = NoDialog
  /\ UNCHANGED <<worldVars, rootAlive, table, selected, buttons, flag, refresh>>

CancelDialog ==
  /\ dialog.kind # "none"
  /\ dialog' = NoDialog
  /\ UNCHANGED <<worldVars, guiVars, flag, refresh, batch>>

\* The selection changes and update_button_states follows.
Select(S) ==
  /\ dialog.kind = "none"
  /\ S # selected
  /\ selected' = S
  /\ buttons' = ButtonsFor(view, table, S)
  /\ UNCHANGED <<worldVars, rootAlive, view, table, flag, refresh, dialog, batch>>

-----------------------------------------------------------------------------
(* The helper and the answers. *)

\* What a clause does to a filesystem.
After(op, w) ==
  CASE op = "start"            -> IF w.configured THEN [w EXCEPT !.running = TRUE] ELSE w
    [] op = "stop"             -> [w EXCEPT !.running = FALSE]
    [] op = "setup"            -> [w EXCEPT !.configured = TRUE]
    [] op = "remove"           -> [w EXCEPT !.configured = FALSE]
    [] op = "compress"         -> [w EXCEPT !.compressing = TRUE]
    [] op = "pause"            -> [w EXCEPT !.compressing = FALSE]
    [] op = "autostart_add"    -> [w EXCEPT !.autostart = TRUE]
    [] op = "autostart_remove" -> [w EXCEPT !.autostart = FALSE]
    [] op = "none"             -> w

\* One call is carried out, or fails; nobody looks at the outcome.
Execute(b) ==
  \E call \in batch[b].todo, ok \in BOOLEAN :
    /\ ok => Answers /\ call[2] \in present
    /\ world' = IF ok THEN [world EXCEPT ![call[2]] = After(call[1], @)] ELSE world
    /\ batch' = [batch EXCEPT ![b].todo = @ \ {call}, ![b].back = @ \cup {call}]
    /\ UNCHANGED <<present, reachable, guiVars, flag, refresh, dialog>>

\* refresh_after_these_futures_finish: the last answer emits ui_on_command_done.
Answer(b) ==
  /\ \E call \in batch[b].back :
       /\ batch' = [batch EXCEPT ![b].back = @ \ {call}]
       /\ IF batch'[b] = NoBatch THEN RefreshTable(FALSE)
          ELSE UNCHANGED <<flag, refresh, buttons>>
  /\ UNCHANGED <<worldVars, rootAlive, view, table, selected, dialog>>

\* Outside the window: disks come and go, the helper dies and comes back, and
\* other programs start and stop bees.
Plug(u) ==
  /\ present' = IF u \in present THEN present \ {u} ELSE present \cup {u}
  /\ world' = [world EXCEPT ![u].running = FALSE, ![u].compressing = FALSE]
  /\ UNCHANGED <<reachable, guiVars, flag, refresh, dialog, batch>>

HelperChanges ==
  /\ reachable' = ~reachable
  /\ UNCHANGED <<present, world, guiVars, flag, refresh, dialog, batch>>

OtherClient(u, op) ==
  /\ u \in present
  /\ world' = [world EXCEPT ![u] = After(op, @)]
  /\ world' # world
  /\ UNCHANGED <<present, reachable, guiVars, flag, refresh, dialog, batch>>

-----------------------------------------------------------------------------

Init ==
  /\ present \in SUBSET UUIDs
  /\ world \in [UUIDs -> [running : BOOLEAN, configured : BOOLEAN,
                          compressing : BOOLEAN, autostart : BOOLEAN]]
  /\ \A u \in UUIDs : world[u].running => world[u].configured /\ u \in present
  /\ reachable = TRUE
  /\ rootAlive = FALSE
  /\ view = <<>>
  /\ table = <<>>
  /\ flag = FALSE
  /\ refresh = [i \in Refreshes |-> Idle]
  /\ selected = {}
  /\ buttons = ButtonsFor(view, table, selected)
  /\ dialog = NoDialog
  /\ batch = [b \in Batches |-> NoBatch]

RefreshStep(i) == List(i) \/ Fetched(i) \/ QuickRefresh(i) \/ CopyEntry(i) \/ Apply(i)
CallStep(b)    == Execute(b) \/ Answer(b)
Timers         == SoftRefresh \/ FullRefresh

System == \/ Timers \/ RootShellReady
          \/ \E i \in Refreshes : RefreshStep(i)
          \/ \E b \in Batches : CallStep(b)

User == \/ HandleStart \/ HandleStop \/ HandleCompressionSwitch
        \/ \E add \in BOOLEAN : HandleAutostart(add)
        \/ AskRemove \/ OpenSetup
        \/ \E S \in SUBSET (Uuids(table) \ {NoUuid}) : Select(S)

Replies == \/ ConfirmRemove \/ CancelDialog
           \/ \E compress \in BOOLEAN : AcceptSetup(compress)

Outside == \/ \E u \in UUIDs : Plug(u)
           \/ HelperChanges
           \/ \E u \in UUIDs, op \in {"start", "remove"} : OtherClient(u, op)

Next == System \/ User \/ Replies \/ Outside

Spec == Init /\ [][Next]_vars

\* The event loop, the pool and the bus do their work; the timers tick for as
\* long as the window is open.  A tick that finds a refresh under way is lost,
\* and every full tick comes when a soft one is due (mainwindow.cpp:417, 434):
\* nothing says that a full refresh is ever let in.
Fairness ==
  /\ \A i \in Refreshes : WF_vars(RefreshStep(i))
  /\ \A b \in Batches : WF_vars(CallStep(b))
  /\ WF_vars(RootShellReady)
  /\ WF_vars(SoftRefresh)
  /\ WF_vars(FullRefresh)

-----------------------------------------------------------------------------
(* Properties. *)

Stages == {"idle", "list", "listed", "ask", "copy", "apply"}

\* Every variable keeps its shape: in particular no status that the program
\* does not know gets into fs_view_state, and a refresh compares no entry twice.
TypeOK ==
  /\ present \subseteq UUIDs
  /\ reachable \in BOOLEAN /\ rootAlive \in BOOLEAN /\ flag \in BOOLEAN
  /\ DOMAIN view \subseteq Keys /\ \A u \in DOMAIN view : view[u] \in Info
  /\ \A r \in DOMAIN table : table[r] \in Row
  /\ \A i \in Refreshes :
       /\ refresh[i].stage \in Stages
       /\ DOMAIN refresh[i].data \subseteq Keys \ refresh[i].left
       /\ refresh[i].stage \in {"idle", "list", "ask"} => refresh[i].data = <<>>
  /\ selected \subseteq Uuids(table) \ {NoUuid}
  /\ dialog.rows \subseteq Nat /\ dialog.meant \subseteq UUIDs
  /\ \A b \in Batches : /\ batch[b].todo \cup batch[b].back \subseteq Ops \X Keys
                         /\ batch[b].todo \cap batch[b].back = {}

\* One refresh at a time: is_being_refreshed is set exactly while a refresh is
\* somewhere between its snapshot and its last row, and never for two.  The
\* flag is tested and set in two steps, and reset in a queued call.
OneRefresh ==
  /\ flag <=> \E i \in Refreshes : ~IsIdle(i)
  /\ \A i, j \in Refreshes : ~IsIdle(i) /\ ~IsIdle(j) => i = j

\* The snapshot a refresh compares with is still what the table shows when the
\* rows are changed, whatever the user clicked in between: this is what the
\* exchange in optimistically_update is for.
BaselineTrue ==
  \A i \in Refreshes : ~IsIdle(i) => refresh[i].baseline = Shown(table)

\* No filesystem has two rows.  apply_added does not look for a row that is
\* already there; it relies on the snapshot.
NoDuplicateRows ==
  \A r, q \in DOMAIN table :
    table[r].uuid = table[q].uuid /\ table[r].uuid # NoUuid => r = q

\* When a refresh has changed the rows, they are those of the entries it copied
\* from fs_view_state: none is missing, none is left over.
RefreshLeavesSnapshot ==
  [][\A i \in Refreshes :
       refresh[i].stage = "apply" /\ refresh'[i].stage = "idle"
         => Uuids(table') \ {NoUuid} = DOMAIN refresh[i].data \ {NoUuid}]_vars

\* A refresh ends and gives the flag back, also when the helper fails or dies:
\* otherwise the table would stand still for ever.
RefreshEnds == flag ~> ~flag

\* What the table shows follows fs_view_state, although clicks write the one
\* and a refresh under way the other: when fs_view_state has come to rest, the
\* table gets its rows and every status cell that exists shows its status.
StatusCatchesUp ==
  <>[][UNCHANGED view]_vars
    => <>[](/\ Uuids(table) \ {NoUuid} = DOMAIN view \ {NoUuid}
            /\ \A r \in DOMAIN table :
                 table[r].uuid # NoUuid /\ table[r].status # NoCell
                   => table[r].status = view[table[r].uuid].status)

\* The promise of the optimistic update ("the refresh cycle will fix this"), as
\* far as the code keeps it: whatever the clicks hoped for and however their
\* calls ended, once the filesystems and the helper come to rest, fs_view_state
\* is again and again what the helper says, if full refreshes are again and
\* again let in.  That they are is not promised: see Fairness.
FullRefreshRepairs ==
  /\ <>[]Answers
  /\ <>[][UNCHANGED <<present, world>>]_vars
  /\ []<>(\E i \in Refreshes : refresh[i].stage = "list")
  => []<>(view = Listing)

\* buttonhandlers.cpp:349, what the user agrees to: "You are about to remove the
\* file deduplication engine configuration for the selected filesystem(s)."
\* A confirmed removal is sent for filesystems that were selected when the
\* question was asked, and for no other.
RemovesOnlySelected ==
  [][dialog.kind = "remove" /\ dialog'.kind = "none" =>
       \A b \in Batches : \A call \in batch'[b].todo \ batch[b].todo :
         call[1] = "remove" => call[2] \in dialog.meant]_vars

=============================================================================
