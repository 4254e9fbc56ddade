------------------------ MODULE RefreshTableProofs ------------------------
(* For any filesystems, any number of refreshes and any sorting: refreshes   *)
(* exclude each other, the snapshot each compares with stays true, no        *)
(* filesystem has two rows, and a refresh leaves the rows of its entries.    *)
EXTENDS RefreshTable, SubsequenceProofs

\* The fields a refresh has; what they hold does not matter here.
Shape ==
  /\ flag \in BOOLEAN
  /\ DOMAIN refresh = Refreshes
  /\ \A i \in Refreshes : DOMAIN refresh[i] = {"stage", "baseline", "data", "left"}

\* Inductive: a refresh may change the rows without looking at the flag of the
\* others because there are none, and there are none because the flag is set
\* exactly while there is one.
IInv == Shape /\ OneRefresh /\ BaselineTrue

LEMMA IdleShape == DOMAIN Idle = {"stage", "baseline", "data", "left"} /\ Idle.stage = "idle"
BY DEF Idle

\* An action that leaves the refreshes, the flag and the rows alone.
LEMMA Elsewhere == IInv /\ UNCHANGED <<table, flag, refresh>> => IInv'
BY DEF IInv, Shape, OneRefresh, BaselineTrue, IsIdle

\* refresh_table, whoever calls it.
LEMMA Begins ==
  ASSUME IInv, NEW full \in BOOLEAN, RefreshTable(full), UNCHANGED table
  PROVE  IInv'
<1>1. CASE flag
  BY <1>1, Elsewhere DEF RefreshTable
<1>2. CASE ~flag
  <2>1. PICK i \in Refreshes :
          /\ IsIdle(i)
          /\ refresh' = [refresh EXCEPT ![i] =
               [Idle EXCEPT !.stage = IF full THEN "list" ELSE "ask", !.baseline = Shown(table)]]
    BY <1>2 DEF RefreshTable, IdleRefresh
  <2>2. flag' = TRUE
    BY <1>2 DEF RefreshTable
  <2>3. /\ DOMAIN refresh' = Refreshes
        /\ DOMAIN refresh'[i] = {"stage", "baseline", "data", "left"}
        /\ refresh'[i].stage # "idle"
        /\ refresh'[i].baseline = Shown(table)
        /\ \A j \in Refreshes \ {i} : refresh'[j] = refresh[j]
    BY <2>1, IdleShape DEF IInv, Shape, Idle
  <2>4. \A j \in Refreshes : IsIdle(j)
    BY <1>2 DEF IInv, OneRefresh
  <2> QED
    BY <2>2, <2>3, <2>4 DEF IInv, Shape, OneRefresh, BaselineTrue, IsIdle
<1> QED
  BY <1>1, <1>2 DEF IInv, Shape

\* A step of a refresh that neither ends it nor touches its snapshot.
LEMMA Advances ==
  ASSUME IInv, NEW i \in Refreshes, ~IsIdle(i), UNCHANGED <<table, flag>>,
         DOMAIN refresh' = Refreshes,
         DOMAIN refresh'[i] = {"stage", "baseline", "data", "left"},
         refresh'[i].stage # "idle", refresh'[i].baseline = refresh[i].baseline,
         \A j \in Refreshes \ {i} : refresh'[j] = refresh[j]
  PROVE  IInv'
BY DEF IInv, Shape, OneRefresh, BaselineTrue, IsIdle

LEMMA RefreshSteps ==
  ASSUME IInv, NEW i \in Refreshes, RefreshStep(i)
  PROVE  IInv'
<1>1. CASE List(i)
  BY <1>1, Advances DEF List, IInv, Shape, IsIdle, guiVars
<1>2. CASE Fetched(i)
  BY <1>2, Advances DEF Fetched, IInv, Shape, IsIdle
<1>3. CASE QuickRefresh(i)
  <2>1. flag /\ ~IsIdle(i)
    BY <1>3 DEF QuickRefresh, IInv, OneRefresh, IsIdle
  <2> QED
    BY <1>3, <2>1, Advances DEF QuickRefresh, IInv, Shape, IsIdle, guiVars
<1>4. CASE CopyEntry(i)
  BY <1>4, Advances DEF CopyEntry, IInv, Shape, IsIdle, guiVars
<1>5. CASE Apply(i)
  <2>1. flag' = FALSE /\ refresh' = [refresh EXCEPT ![i] = Idle]
    BY <1>5 DEF Apply
  <2>2. \A j \in Refreshes \ {i} : IsIdle(j)
    BY <1>5 DEF Apply, IInv, OneRefresh, IsIdle
  <2>3. \A j \in Refreshes : refresh'[j].stage = "idle"
    BY <2>1, <2>2, IdleShape DEF IInv, Shape, IsIdle
  <2>4. Shape'
    BY <2>1, IdleShape DEF IInv, Shape
  <2> QED
    BY <2>1, <2>3, <2>4 DEF IInv, OneRefresh, BaselineTrue, IsIdle
<1> QED
  BY <1>1, <1>2, <1>3, <1>4, <1>5 DEF RefreshStep

\* The heart of the matter: a click leaves the rows alone while a refresh is
\* under way.
LEMMA Clicked ==
  ASSUME IInv, NEW items, ChangedAtOnce(items), UNCHANGED <<flag, refresh>>
  PROVE  IInv'
<1>1. CASE flag
  BY <1>1, Elsewhere DEF ChangedAtOnce
<1>2. CASE ~flag
  BY <1>2 DEF IInv, Shape, OneRefresh, BaselineTrue, IsIdle
<1> QED
  BY <1>1, <1>2 DEF IInv, Shape

LEMMA InitIInv == Init => IInv
BY IdleShape DEF Init, IInv, Shape, OneRefresh, BaselineTrue, IsIdle

LEMMA StepIInv == IInv /\ [Next]_vars => IInv'
<1> SUFFICES ASSUME IInv, [Next]_vars PROVE IInv'
  OBVIOUS
<1>1. CASE System
  <2>1. CASE Timers
    BY <2>1, Begins DEF Timers, SoftRefresh, FullRefresh
  <2>2. CASE RootShellReady
    BY <2>2, Elsewhere DEF RootShellReady
  <2>3. CASE \E i \in Refreshes : RefreshStep(i)
    BY <2>3, RefreshSteps
  <2>4. ASSUME NEW b \in Batches, Execute(b) PROVE IInv'
    BY <2>4, Elsewhere DEF Execute, guiVars
  <2>5. ASSUME NEW b \in Batches, Answer(b) PROVE IInv'
    BY <2>5, Elsewhere, Begins DEF Answer
  <2> QED
    BY <1>1, <2>1, <2>2, <2>3, <2>4, <2>5 DEF System, CallStep
<1>2. CASE User
  <2>1. CASE HandleStart
    BY <2>1, Clicked DEF HandleStart, Optimistic
  <2>2. CASE HandleStop
    BY <2>2, Clicked DEF HandleStop, Optimistic
  <2>3. CASE HandleCompressionSwitch
    BY <2>3, Clicked DEF HandleCompressionSwitch, Optimistic
  <2>4. CASE \E add \in BOOLEAN : HandleAutostart(add)
    BY <2>4, Elsewhere DEF HandleAutostart
  <2>5. CASE AskRemove \/ OpenSetup
    BY <2>5, Elsewhere DEF AskRemove, OpenSetup, guiVars
  <2>6. CASE \E S \in SUBSET (Uuids(table) \ {NoUuid}) : Select(S)
    BY <2>6, Elsewhere DEF Select
  <2> QED
    BY <1>2, <2>1, <2>2, <2>3, <2>4, <2>5, <2>6 DEF User
<1>3. CASE Replies
  <2>1. CASE ConfirmRemove
    BY <2>1, Clicked DEF ConfirmRemove, Optimistic
  <2>2. CASE CancelDialog
    BY <2>2, Elsewhere DEF CancelDialog, guiVars
  <2>3. CASE \E compress \in BOOLEAN : AcceptSetup(compress)
    BY <2>3, Elsewhere DEF AcceptSetup
  <2> QED
    BY <1>3, <2>1, <2>2, <2>3 DEF Replies
<1>4. CASE Outside
  BY <1>4, Elsewhere DEF Outside, Plug, HelperChanges, OtherClient, guiVars
<1>5. CASE UNCHANGED vars
  BY <1>5, Elsewhere DEF vars, guiVars
<1> QED
  BY <1>1, <1>2, <1>3, <1>4, <1>5 DEF Next

\* is_being_refreshed is set exactly while a refresh is under way, and never two
\* refreshes are.
THEOREM OneRefreshAlways == Spec => []OneRefresh
<1>1. IInv => OneRefresh
  BY DEF IInv
<1> QED
  BY <1>1, InitIInv, StepIInv, PTL DEF Spec

\* The snapshot a refresh compares with is what the table shows until the rows
\* are changed.
THEOREM BaselineAlwaysTrue == Spec => []BaselineTrue
<1>1. IInv => BaselineTrue
  BY DEF IInv
<1> QED
  BY <1>1, InitIInv, StepIInv, PTL DEF Spec

-----------------------------------------------------------------------------
(* What is done to the rows. *)

\* The tables that come about while rows are added.
IsRun(g, n, t, v, order) ==
  /\ g = [k \in 0 .. n |-> g[k]]
  /\ g[0] = t
  /\ \A k \in 1 .. n : g[k] = AddRow(g[k - 1], order[k], v[order[k]].status)

LEMMA RunExists ==
  ASSUME NEW t, NEW v, NEW order
  PROVE  \A n \in Nat : \E g : IsRun(g, n, t, v, order)
<1> DEFINE T == {n \in Nat : \E g : IsRun(g, n, t, v, order)}
<1>1. 0 \in T
  <2>1. IsRun([k \in 0 .. 0 |-> t], 0, t, v, order)
    BY DEF IsRun
  <2> QED
    BY <2>1
<1>2. ASSUME NEW n \in T  PROVE n + 1 \in T
  <2>1. PICK g : IsRun(g, n, t, v, order)
    OBVIOUS
  <2> DEFINE h == [k \in 0 .. n + 1 |->
                     IF k = n + 1 THEN AddRow(g[n], order[n + 1], v[order[n + 1]].status) ELSE g[k]]
  <2>2. /\ h = [k \in 0 .. n + 1 |-> h[k]] /\ h[0] = g[0]
        /\ \A k \in 1 .. n : h[k] = g[k] /\ h[k - 1] = g[k - 1]
        /\ h[n] = g[n] /\ h[n + 1] = AddRow(g[n], order[n + 1], v[order[n + 1]].status)
    OBVIOUS
  <2> HIDE DEF h
  <2>3. \A k \in 1 .. n + 1 : k \in 1 .. n \/ (k = n + 1 /\ k - 1 = n)
    OBVIOUS
  <2>4. IsRun(h, n + 1, t, v, order)
    BY <2>1, <2>2, <2>3 DEF IsRun
  <2> QED
    BY <2>4
<1> HIDE DEF T
<1>3. T = Nat
  BY <1>1, <1>2, SetInduction DEF T
<1> QED
  BY <1>3 DEF T

LEMMA AddRowsRun ==
  ASSUME NEW t, NEW v, NEW order, Len(order) \in Nat
  PROVE  \E g : IsRun(g, Len(order), t, v, order) /\ AddRows(t, v, order) = g[Len(order)]
<1> DEFINE N == Len(order)
           rows[n \in 0 .. N] ==
             IF n = 0 THEN t ELSE AddRow(rows[n - 1], order[n], v[order[n]].status)
<1>1. AddRows(t, v, order) = rows[N]
  BY DEF AddRows
<1>2. PICK g : IsRun(g, N, t, v, order)
  BY RunExists
<1>3. g = [n \in 0 .. N |->
             IF n = 0 THEN t ELSE AddRow(g[n - 1], order[n], v[order[n]].status)]
  <2>1. \A n \in 0 .. N :
          g[n] = IF n = 0 THEN t ELSE AddRow(g[n - 1], order[n], v[order[n]].status)
    BY <1>2 DEF IsRun
  <2>2. g = [n \in 0 .. N |-> g[n]]
    BY <1>2 DEF IsRun
  <2> QED
    BY <2>1, <2>2
<1>4. rows = [n \in 0 .. N |->
             IF n = 0 THEN t ELSE AddRow(rows[n - 1], order[n], v[order[n]].status)]
  BY <1>3
<1> HIDE DEF rows
<1>5. IsRun(rows, N, t, v, order)
  BY <1>4 DEF IsRun
<1> QED
  BY <1>1, <1>5

\* The UUIDs that the table shows, and that none has two rows.
Named(t) == Uuids(t) \ {NoUuid}

OneRowEach(t) ==
  \A r, q \in DOMAIN t : t[r].uuid = t[q].uuid /\ t[r].uuid # NoUuid => r = q

LEMMA RowFacts ==
  ASSUME NEW t \in Seq(Row)
  PROVE  /\ Len(t) \in Nat /\ DOMAIN t = 1 .. Len(t)
         /\ \A r \in 1 .. Len(t) : t[r] \in Row /\ t[r].uuid \in Keys
         /\ Uuids(t) \subseteq Keys
<1>1. Len(t) \in Nat /\ DOMAIN t = 1 .. Len(t) /\ t \in [1 .. Len(t) -> Row]
  BY LenProperties
<1>2. \A r \in 1 .. Len(t) : t[r] \in Row /\ t[r].uuid \in Keys
  BY <1>1 DEF Row
<1> QED
  BY <1>1, <1>2 DEF Uuids

\* Where the row of u gets to.
PutAt(s, t, u, place) ==
  /\ Len(s) = Len(t) + 1
  /\ \A r \in 1 .. Len(t) + 1 :
       s[r].uuid = IF r < place THEN t[r].uuid ELSE IF r = place THEN u ELSE t[r - 1].uuid

LEMMA AddRowPuts ==
  ASSUME NEW t \in Seq(Row), NEW u \in Keys, NEW status \in Statuses
  PROVE  /\ AddRow(t, u, status) \in Seq(Row)
         /\ \/ AddRow(t, u, status) = t /\ u = NoUuid
            \/ \E place \in 1 .. Len(t) + 1 : PutAt(AddRow(t, u, status), t, u, place)
<1> DEFINE above == {r \in DOMAIN t : t[r].uuid > u}
           place == 1 + Cardinality(above)
           last  == Len(t) + 1
           rows  == [r \in 1 .. last |-> CASE r < place -> t[r]
                                           [] r = place -> [uuid |-> u, status |-> NoCell]
                                           [] r > place -> t[r - 1]]
           s == AddRow(t, u, status)
<1>1. /\ Len(t) \in Nat /\ DOMAIN t = 1 .. Len(t)
      /\ \A r \in 1 .. Len(t) : t[r] \in Row
  BY RowFacts
<1>2. s = CASE u = NoUuid /\ Len(t) >= MaxRows -> t
            [] SortColumn = 0                    -> [rows EXCEPT ![last].status = status]
            [] OTHER                             -> Append(t, [uuid |-> u, status |-> status])
  BY DEF AddRow
<1>3. CASE u = NoUuid /\ Len(t) >= MaxRows /\ s = t
  BY <1>3
<1>4. CASE s = [rows EXCEPT ![last].status = status]
  <2>1. place \in 1 .. Len(t) + 1
    <3>1. IsFiniteSet(1 .. Len(t)) /\ Cardinality(1 .. Len(t)) = Len(t)
      <4> DEFINE L == Len(t)
      <4>1. L \in Nat
        BY <1>1
      <4> HIDE DEF L
      <4>2. IsFiniteSet(1 .. L) /\ Cardinality(1 .. L) = L
        <5>1. 1 \in Int /\ L \in Int
          BY <4>1
        <5> QED
          BY <4>1, <5>1, FS_Interval
      <4> QED
        BY <4>2 DEF L
    <3>2. above \in SUBSET (1 .. Len(t))
      BY <1>1
    <3>3. IsFiniteSet(above) /\ Cardinality(above) <= Len(t)
      BY <3>1, <3>2, FS_Subset
    <3>4. Cardinality(above) \in Nat
      BY <3>3, FS_CardinalityType
    <3> QED
      BY <1>1, <3>3, <3>4
  <2>2. [uuid |-> u, status |-> NoCell] \in Row
    BY DEF Row
  <2> HIDE DEF place, above
  <2>3. \A r \in 1 .. last :
          /\ rows[r] \in Row
          /\ rows[r].uuid = IF r < place THEN t[r].uuid
                            ELSE IF r = place THEN u ELSE t[r - 1].uuid
    <3>1. ASSUME NEW r \in 1 .. last, r < place
          PROVE  rows[r] = t[r] /\ r \in 1 .. Len(t)
      BY <1>1, <2>1, <3>1
    <3>2. ASSUME NEW r \in 1 .. last, r = place
          PROVE  rows[r] = [uuid |-> u, status |-> NoCell]
      BY <1>1, <2>1, <3>2
    <3>3. ASSUME NEW r \in 1 .. last, r > place
          PROVE  rows[r] = t[r - 1] /\ r - 1 \in 1 .. Len(t)
      BY <1>1, <2>1, <3>3
    <3>4. \A r \in 1 .. last : r < place \/ r = place \/ r > place
      BY <1>1, <2>1
    <3>5. \A r \in 1 .. last : (r > place => ~(r < place) /\ r # place) /\ (r = place => ~(r < place))
      BY <1>1, <2>1
    <3> HIDE DEF rows
    <3> QED
      BY <1>1, <2>2, <3>1, <3>2, <3>3, <3>4, <3>5
  <2>4. DOMAIN rows = 1 .. last /\ last \in 1 .. last
    BY <1>1
  <2> HIDE DEF rows
  <2>5. \A r \in 1 .. last :
          s[r] = IF r = last THEN [rows[r] EXCEPT !.status = status] ELSE rows[r]
    BY <1>4, <2>4
  <2>6. \A r \in 1 .. last : s[r] \in Row /\ s[r].uuid = rows[r].uuid
    BY <2>3, <2>5 DEF Row
  <2>7. s = [r \in 1 .. last |-> s[r]]
    BY <1>4, <2>4
  <2>8. last \in Nat
    BY <1>1
  <2> HIDE DEF s, last
  <2>9. s \in Seq(Row)
    BY <2>6, <2>7, <2>8
  <2>10. Len(s) = last
    BY <2>7, <2>8, <2>9, LenProperties
  <2> QED
    BY <2>1, <2>3, <2>6, <2>9, <2>10 DEF PutAt, s, last
<1>5. CASE s = Append(t, [uuid |-> u, status |-> status])
  <2> DEFINE e == [uuid |-> u, status |-> status]
  <2>1. e \in Row /\ e.uuid = u
    BY DEF Row
  <2> HIDE DEF e, s
  <2>2. /\ s \in Seq(Row) /\ Len(s) = Len(t) + 1
        /\ \A r \in 1 .. Len(t) : s[r] = t[r]
        /\ s[Len(t) + 1] = e
    BY <1>5, <2>1, AppendProperties DEF e
  <2>3. \A r \in 1 .. Len(t) + 1 : IF r < Len(t) + 1 THEN r \in 1 .. Len(t) ELSE r = Len(t) + 1
    BY <1>1
  <2>4. PutAt(s, t, u, Len(t) + 1)
    BY <2>1, <2>2, <2>3 DEF PutAt
  <2>5. Len(t) + 1 \in 1 .. Len(t) + 1
    BY <1>1
  <2> QED
    BY <2>2, <2>4, <2>5 DEF s
<1>6. \/ u = NoUuid /\ Len(t) >= MaxRows /\ s = t
      \/ s = [rows EXCEPT ![last].status = status]
      \/ s = Append(t, [uuid |-> u, status |-> status])
  <2>1. CASE u = NoUuid /\ Len(t) >= MaxRows /\ SortColumn = 0
    BY <1>2, <2>1
  <2>2. CASE ~(u = NoUuid /\ Len(t) >= MaxRows) /\ SortColumn = 0
    BY <1>2, <2>2
  <2>3. CASE SortColumn # 0
    BY <1>2, <2>3
  <2> QED
    BY <2>1, <2>2, <2>3
<1> QED
  BY <1>3, <1>4, <1>5, <1>6

LEMMA AddRowFacts ==
  ASSUME NEW t \in Seq(Row), NEW u \in Keys, NEW status \in Statuses
  PROVE  /\ AddRow(t, u, status) \in Seq(Row)
         /\ Named(AddRow(t, u, status)) = (Named(t) \cup {u}) \ {NoUuid}
         /\ OneRowEach(t) /\ u \notin Named(t) => OneRowEach(AddRow(t, u, status))
<1> DEFINE s == AddRow(t, u, status)
           L == Len(t)
<1>1. s \in Seq(Row)
  BY AddRowPuts
<1>2. CASE s = t /\ u = NoUuid
  BY <1>1, <1>2 DEF Named
<1>3. CASE \E place \in 1 .. L + 1 : PutAt(s, t, u, place)
  <2>1. PICK place \in 1 .. L + 1 : PutAt(s, t, u, place)
    BY <1>3
  <2>2. L \in Nat /\ DOMAIN t = 1 .. L
    BY RowFacts
  <2> HIDE DEF s, L
  <2>3. /\ DOMAIN s = 1 .. L + 1
        /\ \A r \in 1 .. L + 1 :
             s[r].uuid = IF r < place THEN t[r].uuid ELSE IF r = place THEN u ELSE t[r - 1].uuid
    <3>1. DOMAIN s = 1 .. Len(s)
      BY <1>1, LenProperties
    <3> QED
      BY <2>1, <3>1 DEF PutAt, L
  <2>4. \A r \in 1 .. L + 1 : /\ r < place => r \in 1 .. L
                              /\ ~(r < place) /\ r # place => r - 1 \in 1 .. L
    BY <2>2
  <2>5. ASSUME NEW x \in Uuids(s)  PROVE x \in Uuids(t) \cup {u}
    <3>1. PICK r \in 1 .. L + 1 : x = s[r].uuid
      BY <2>3 DEF Uuids
    <3> QED
      BY <2>2, <2>3, <2>4, <3>1 DEF Uuids
  <2>6. ASSUME NEW x \in Uuids(t)  PROVE x \in Uuids(s)
    <3>1. PICK r \in 1 .. L : x = t[r].uuid
      BY <2>2 DEF Uuids
    <3>2. CASE r < place
      <4>1. r \in 1 .. L + 1
        BY <2>2
      <4> QED
        BY <2>3, <3>1, <3>2, <4>1 DEF Uuids
    <3>3. CASE ~(r < place)
      <4>1. r + 1 \in 1 .. L + 1 /\ ~(r + 1 < place) /\ r + 1 # place /\ (r + 1) - 1 = r
        BY <2>2, <3>3
      <4>2. s[r + 1].uuid = t[r].uuid
        BY <2>3, <4>1
      <4> QED
        BY <2>3, <3>1, <4>1, <4>2 DEF Uuids
    <3> QED
      BY <3>2, <3>3
  <2>7. u \in Uuids(s)
    <3>1. s[place].uuid = u
      BY <2>2, <2>3
    <3> QED
      BY <2>3, <3>1 DEF Uuids
  <2>8. Named(s) = (Named(t) \cup {u}) \ {NoUuid}
    BY <2>5, <2>6, <2>7 DEF Named
  <2>9. ASSUME OneRowEach(t), u \notin Named(t),
               NEW r \in 1 .. L + 1, NEW q \in 1 .. L + 1,
               s[r].uuid = s[q].uuid, s[r].uuid # NoUuid
        PROVE  r = q
    <3>1. \A k \in 1 .. L : t[k].uuid # NoUuid => t[k].uuid # u
      BY <2>2, <2>9 DEF Named, Uuids
    <3>2. \A k, l \in 1 .. L : t[k].uuid = t[l].uuid /\ t[k].uuid # NoUuid => k = l
      BY <2>2, <2>9 DEF OneRowEach
    <3> DEFINE old(k) == IF k < place THEN k ELSE k - 1
    <3>3. \A k \in 1 .. L + 1 : k # place => old(k) \in 1 .. L /\ s[k].uuid = t[old(k)].uuid
      BY <2>3, <2>4
    <3>4. s[place].uuid = u
      BY <2>2, <2>3
    <3>5. \A k, l \in 1 .. L + 1 : k # place /\ l # place /\ old(k) = old(l) => k = l
      BY <2>2
    <3> HIDE DEF old
    <3>6. CASE r = place \/ q = place
      BY <2>9, <3>1, <3>3, <3>4, <3>6
    <3>7. CASE r # place /\ q # place
      BY <2>9, <3>2, <3>3, <3>5, <3>7
    <3> QED
      BY <3>6, <3>7
  <2>10. OneRowEach(t) /\ u \notin Named(t) => OneRowEach(s)
    BY <2>3, <2>9 DEF OneRowEach
  <2> QED
    BY <1>1, <2>8, <2>10 DEF s
<1> QED
  BY <1>2, <1>3, AddRowPuts

\* An order in which the entries of a finite set can be added.
LEMMA OrderFacts ==
  ASSUME NEW S, IsFiniteSet(S), NEW order \in Orders(S)
  PROVE  /\ Len(order) \in Nat
         /\ \A k \in 1 .. Len(order) : order[k] \in S
         /\ \A k, l \in 1 .. Len(order) : order[k] = order[l] => k = l
         /\ \A u \in S : \E k \in 1 .. Len(order) : order[k] = u
<1> DEFINE C == Cardinality(S)
<1>1. C \in Nat
  BY FS_CardinalityType
<1>2. /\ order \in [1 .. C -> S]
      /\ \A u \in S : \E n \in 1 .. C : order[n] = u
  BY DEF Orders
<1> HIDE DEF C
<1>3. order \in Surjection(1 .. C, S)
  BY <1>2, Fun_IsSurj
<1>4. IsFiniteSet(1 .. C) /\ Cardinality(1 .. C) = C
  <2>1. 1 \in Int /\ C \in Int
    BY <1>1
  <2> QED
    BY <1>1, <2>1, FS_Interval
<1>5. order \in Injection(1 .. C, S)
  BY <1>3, <1>4, FS_Surjection DEF C
<1>6. \A k, l \in 1 .. C : order[k] = order[l] => k = l
  BY <1>5, Fun_InjectionProperties
<1>7. order \in Seq(S)
  BY <1>1, <1>2
<1>8. Len(order) = C
  BY <1>1, <1>2, <1>7, LenProperties
<1> QED
  BY <1>1, <1>2, <1>6, <1>8

LEMMA AddRowsFacts ==
  ASSUME NEW t \in Seq(Row), NEW S \in SUBSET Keys, IsFiniteSet(S), NEW order \in Orders(S),
         NEW v, \A u \in S : v[u].status \in Statuses
  PROVE  /\ AddRows(t, v, order) \in Seq(Row)
         /\ Named(AddRows(t, v, order)) = (Named(t) \cup S) \ {NoUuid}
         /\ OneRowEach(t) /\ S \cap Named(t) = {} => OneRowEach(AddRows(t, v, order))
<1> DEFINE N == Len(order)
<1>1. /\ N \in Nat
      /\ \A k \in 1 .. N : order[k] \in S
      /\ \A k, l \in 1 .. N : order[k] = order[l] => k = l
      /\ \A u \in S : \E k \in 1 .. N : order[k] = u
  BY OrderFacts
<1>2. PICK g : IsRun(g, N, t, v, order) /\ AddRows(t, v, order) = g[N]
  BY <1>1, AddRowsRun
<1> DEFINE P(n) == /\ g[n] \in Seq(Row)
                   /\ Named(g[n]) = (Named(t) \cup {order[k] : k \in 1 .. n}) \ {NoUuid}
                   /\ OneRowEach(t) /\ S \cap Named(t) = {} => OneRowEach(g[n])
           T == {n \in Nat : n <= N => P(n)}
<1> HIDE DEF N
<1>3. 0 \in T
  <2>1. g[0] = t /\ {order[k] : k \in 1 .. 0} = {}
    BY <1>2 DEF IsRun
  <2>2. Named(t) = Named(t) \ {NoUuid}
    BY DEF Named
  <2> QED
    BY <2>1, <2>2
<1>4. ASSUME NEW n \in T  PROVE n + 1 \in T
  <2> SUFFICES ASSUME n + 1 <= N  PROVE P(n + 1)
    OBVIOUS
  <2>1. n \in Nat /\ P(n) /\ n + 1 \in 1 .. N
    BY <1>1
  <2> DEFINE u == order[n + 1]
  <2>2. u \in S /\ u \in Keys /\ v[u].status \in Statuses
    BY <1>1, <2>1
  <2>3. g[n + 1] = AddRow(g[n], u, v[u].status)
    <3>1. (n + 1) - 1 = n
      BY <2>1
    <3>2. \A k \in 1 .. N : g[k] = AddRow(g[k - 1], order[k], v[order[k]].status)
      BY <1>2 DEF IsRun
    <3>3. g[n + 1] = AddRow(g[(n + 1) - 1], u, v[u].status)
      BY <2>1, <3>2
    <3> QED
      BY <3>1, <3>3
  <2>4. /\ g[n + 1] \in Seq(Row)
        /\ Named(g[n + 1]) = (Named(g[n]) \cup {u}) \ {NoUuid}
        /\ OneRowEach(g[n]) /\ u \notin Named(g[n]) => OneRowEach(g[n + 1])
    <3>1. g[n] \in Seq(Row)
      BY <2>1
    <3> HIDE DEF u, P
    <3> QED
      BY <2>2, <2>3, <3>1, AddRowFacts
  <2>5. {order[k] : k \in 1 .. n + 1} = {order[k] : k \in 1 .. n} \cup {u}
    <3>1. \A k \in 1 .. n + 1 : k \in 1 .. n \/ k = n + 1
      BY <2>1
    <3>2. \A k \in 1 .. n : k \in 1 .. n + 1
      BY <2>1
    <3>3. n + 1 \in 1 .. n + 1
      BY <2>1
    <3> QED
      BY <3>1, <3>2, <3>3
  <2>6. u \notin {order[k] : k \in 1 .. n}
    <3>1. \A k \in 1 .. n : k \in 1 .. N /\ k # n + 1
      BY <1>1, <2>1
    <3> QED
      BY <1>1, <2>1, <3>1
  <2>7. Named(g[n + 1]) = (Named(t) \cup {order[k] : k \in 1 .. n + 1}) \ {NoUuid}
    BY <2>1, <2>4, <2>5
  <2>8. ASSUME OneRowEach(t), S \cap Named(t) = {}  PROVE OneRowEach(g[n + 1])
    <3>1. u \notin Named(g[n])
      BY <2>1, <2>2, <2>6, <2>8
    <3> QED
      BY <2>1, <2>4, <2>8, <3>1
  <2> QED
    BY <2>4, <2>7, <2>8
<1> HIDE DEF T, P
<1>5. T = Nat
  BY <1>3, <1>4, SetInduction DEF T
<1>6. P(N)
  BY <1>1, <1>5 DEF T
<1>7. {order[k] : k \in 1 .. N} = S
  BY <1>1
<1> QED
  BY <1>2, <1>6, <1>7 DEF P

\* When no filesystem has two rows, its row is its first one.
LEMMA OwnRow ==
  ASSUME NEW t \in Seq(Row), OneRowEach(t), NEW r \in DOMAIN t, t[r].uuid # NoUuid
  PROVE  RowOf(t, t[r].uuid) = r
<1> DEFINE u == t[r].uuid
<1>1. Len(t) \in Nat /\ DOMAIN t = 1 .. Len(t)
  BY RowFacts
<1>2. \A q \in DOMAIN t : t[q].uuid = u => q = r
  BY DEF OneRowEach
<1>3. \A q \in 1 .. r - 1 : q \in DOMAIN t /\ q # r
  BY <1>1
<1>4. \A q \in 1 .. r - 1 : t[q].uuid # u
  BY <1>2, <1>3
<1> HIDE DEF u
<1>5. (CHOOSE q \in DOMAIN t : t[q].uuid = u /\ \A p \in 1 .. q - 1 : t[p].uuid # u) = r
  BY <1>2, <1>4 DEF u
<1> QED
  BY <1>5 DEF RowOf, u

LEMMA RemoveRowsFacts ==
  ASSUME NEW t \in Seq(Row), NEW gone
  PROVE  /\ RemoveRows(t, gone) \in Seq(Row)
         /\ OneRowEach(t) => /\ OneRowEach(RemoveRows(t, gone))
                             /\ Named(RemoveRows(t, gone)) = Named(t) \ gone
<1> DEFINE I == {r \in DOMAIN t : t[r].uuid \in gone => r # RowOf(t, t[r].uuid)}
           s == RemoveRows(t, gone)
           C == Cardinality(I)
<1>1. /\ Len(t) \in Nat /\ DOMAIN t = 1 .. Len(t)
      /\ I \in SUBSET (1 .. Len(t)) /\ I \in SUBSET (DOMAIN t)
  BY RowFacts
<1>2. s = Pick(t, I)
  BY DEF RemoveRows
<1> HIDE DEF I, s
<1>3. /\ s \in Seq(Row) /\ DOMAIN s = 1 .. C /\ C \in Nat
      /\ \A k \in 1 .. C : s[k] = t[Places(I)[k]]
  BY <1>1, <1>2, PickFacts
<1>4. /\ \A k \in 1 .. C : Places(I)[k] \in I
      /\ \A k, l \in 1 .. C : k < l => Places(I)[k] < Places(I)[l]
      /\ \A r \in I : \E k \in 1 .. C : Places(I)[k] = r
  BY <1>1, PlacesFacts
<1>5. ASSUME OneRowEach(t)
      PROVE  OneRowEach(s) /\ Named(s) = Named(t) \ gone
  <2>1. ASSUME NEW k \in 1 .. C, NEW l \in 1 .. C, s[k].uuid = s[l].uuid, s[k].uuid # NoUuid
        PROVE  k = l
    <3>1. Places(I)[k] = Places(I)[l]
      BY <1>1, <1>3, <1>4, <1>5, <2>1 DEF OneRowEach
    <3>2. Places(I)[k] \in Int
      BY <1>1, <1>4
    <3>3. ~(k < l) /\ ~(l < k)
      BY <1>4, <3>1, <3>2
    <3> QED
      BY <1>3, <3>3
  <2>2. Uuids(s) = {t[r].uuid : r \in I}
    <3>1. Uuids(s) = {t[Places(I)[k]].uuid : k \in 1 .. C}
      BY <1>3 DEF Uuids
    <3> QED
      BY <1>4, <3>1
  <2>3. \A r \in DOMAIN t : t[r].uuid # NoUuid => (r \in I <=> t[r].uuid \notin gone)
    BY <1>5, OwnRow DEF I
  <2>4. Named(s) = Named(t) \ gone
    BY <1>1, <2>2, <2>3 DEF Named, Uuids
  <2> QED
    BY <1>3, <2>1, <2>4 DEF OneRowEach
<1> QED
  BY <1>3, <1>5 DEF s

LEMMA ChangeRowsFacts ==
  ASSUME NEW t \in Seq(Row), NEW v, NEW changed, \A u \in changed : v[u].status \in Statuses
  PROVE  /\ ChangeRows(t, v, changed) \in Seq(Row)
         /\ Uuids(ChangeRows(t, v, changed)) = Uuids(t)
         /\ OneRowEach(t) => OneRowEach(ChangeRows(t, v, changed))
<1> DEFINE s == ChangeRows(t, v, changed)
<1>1. /\ Len(t) \in Nat /\ DOMAIN t = 1 .. Len(t)
      /\ \A r \in 1 .. Len(t) : t[r] \in Row
  BY RowFacts
<1>2. s = [r \in 1 .. Len(t) |->
             IF t[r].uuid \in changed /\ r = RowOf(t, t[r].uuid) /\ t[r].status # NoCell
             THEN [t[r] EXCEPT !.status = v[t[r].uuid].status]
             ELSE t[r]]
  BY <1>1 DEF ChangeRows
<1> HIDE DEF s
<1>3. \A r \in 1 .. Len(t) : s[r] \in Row /\ s[r].uuid = t[r].uuid
  BY <1>1, <1>2 DEF Row
<1>4. DOMAIN s = 1 .. Len(t) /\ s = [r \in 1 .. Len(t) |-> s[r]]
  BY <1>2
<1>5. s \in Seq(Row)
  BY <1>1, <1>3, <1>4
<1>6. Uuids(s) = Uuids(t)
  BY <1>1, <1>3, <1>4 DEF Uuids
<1>7. OneRowEach(t) => OneRowEach(s)
  BY <1>1, <1>3, <1>4 DEF OneRowEach
<1> QED
  BY <1>5, <1>6, <1>7 DEF s

-----------------------------------------------------------------------------
(* The rows, the entries and the refreshes. *)

\* The entries of fs_view_state and of the copy of a refresh.
EntriesOK(v) == DOMAIN v \subseteq Keys /\ \A u \in DOMAIN v : v[u] \in Info

\* The copy grows by entries that are not left; it is finite, so that they can
\* be added one after the other.
RefreshOK(i) ==
  /\ refresh[i].stage \in Stages
  /\ refresh[i].left \subseteq Keys
  /\ refresh[i].stage # "copy" => refresh[i].left = {}
  /\ EntriesOK(refresh[i].data)
  /\ DOMAIN refresh[i].data \cap refresh[i].left = {}
  /\ refresh[i].stage \in {"idle", "list", "ask"} => refresh[i].data = <<>>
  /\ refresh[i].stage \in {"copy", "apply"} => IsFiniteSet(DOMAIN refresh[i].data)

RowsInv ==
  /\ EntriesOK(view)
  /\ table \in Seq(Row) /\ OneRowEach(table)
  /\ selected \subseteq Named(table)
  /\ \A i \in Refreshes : RefreshOK(i)

World == [running : BOOLEAN, configured : BOOLEAN, compressing : BOOLEAN, autostart : BOOLEAN]

WorldInv == present \subseteq UUIDs /\ world \in [UUIDs -> World]

LEMMA RowsSame == RowsInv /\ UNCHANGED <<view, table, selected, refresh>> => RowsInv'
BY DEF RowsInv, RefreshOK

LEMMA IdleFacts ==
  /\ Idle.stage = "idle" /\ Idle.data = <<>> /\ Idle.left = {}
  /\ DOMAIN <<>> = {} /\ EntriesOK(<<>>) /\ IsFiniteSet(DOMAIN <<>>)
BY FS_EmptySet DEF Idle, EntriesOK

LEMMA BeginsRows ==
  ASSUME IInv, RowsInv, NEW full \in BOOLEAN, RefreshTable(full),
         UNCHANGED <<view, table, selected>>
  PROVE  RowsInv'
<1>1. CASE flag
  BY <1>1, RowsSame DEF RefreshTable
<1>2. CASE ~flag
  <2>1. PICK i \in Refreshes :
          refresh' = [refresh EXCEPT ![i] =
            [Idle EXCEPT !.stage = IF full THEN "list" ELSE "ask", !.baseline = Shown(table)]]
    BY <1>2 DEF RefreshTable
  <2>2. /\ refresh'[i].stage \in {"list", "ask"}
        /\ refresh'[i].data = <<>> /\ refresh'[i].left = {}
        /\ \A j \in Refreshes \ {i} : refresh'[j] = refresh[j]
    BY <2>1 DEF Idle, IInv, Shape
  <2>3. RefreshOK(i)'
    BY <2>2, IdleFacts DEF RefreshOK, Stages
  <2> QED
    BY <2>2, <2>3 DEF RowsInv, RefreshOK
<1> QED
  BY <1>1, <1>2 DEF IInv, Shape

LEMMA ListingOK == WorldInv => EntriesOK(Listing)
<1> SUFFICES ASSUME WorldInv, NEW u \in present  PROVE u \in Keys /\ Listing[u] \in Info
  BY DEF EntriesOK, Listing
<1>1. u \in UUIDs /\ world[u] \in World
  BY DEF WorldInv
<1> QED
  BY <1>1 DEF Listing, Info, World, Statuses, Keys

\* A step of a refresh that leaves the rows and the selection alone.
LEMMA OneRefreshRows ==
  ASSUME RowsInv, NEW i \in Refreshes, UNCHANGED <<table, selected>>, EntriesOK(view'),
         RefreshOK(i)', \A j \in Refreshes \ {i} : refresh'[j] = refresh[j]
  PROVE  RowsInv'
BY DEF RowsInv, RefreshOK

LEMMA CopyRows ==
  ASSUME IInv, RowsInv, NEW i \in Refreshes, CopyEntry(i)
  PROVE  RowsInv'
<1> DEFINE u == CHOOSE k \in refresh[i].left : \A l \in refresh[i].left : k <= l
           data == refresh[i].data
           more == IF u \in DOMAIN view
                   THEN [k \in DOMAIN data \cup {u} |-> IF k = u THEN view[u] ELSE data[k]]
                   ELSE data
<1>1. /\ refresh' = [refresh EXCEPT ![i].left = @ \ {u},
                       ![i].stage = IF refresh[i].left = {u} THEN "apply" ELSE "copy",
                       ![i].data = more]
      /\ UNCHANGED <<view, table, selected>> /\ refresh[i].stage = "copy"
  BY DEF CopyEntry, guiVars
<1>2. RefreshOK(i) /\ EntriesOK(view)
  BY DEF RowsInv
<1> HIDE DEF u
<1>3. /\ EntriesOK(data) /\ IsFiniteSet(DOMAIN data)
      /\ DOMAIN data \cap refresh[i].left = {} /\ refresh[i].left \subseteq Keys
  BY <1>1, <1>2 DEF RefreshOK
<1>4. /\ EntriesOK(more) /\ IsFiniteSet(DOMAIN more)
      /\ DOMAIN more \subseteq DOMAIN data \cup {u}
  <2>1. CASE u \in DOMAIN view
    <3>1. DOMAIN more = DOMAIN data \cup {u}
      BY <2>1
    <3>2. IsFiniteSet(DOMAIN data \cup {u})
      BY <1>3, FS_AddElement
    <3>3. \A k \in DOMAIN more : more[k] = IF k = u THEN view[u] ELSE data[k]
      BY <2>1
    <3> HIDE DEF more
    <3> QED
      BY <1>2, <1>3, <2>1, <3>1, <3>2, <3>3 DEF EntriesOK
  <2>2. CASE u \notin DOMAIN view
    BY <1>3, <2>2
  <2> QED
    BY <2>1, <2>2
<1> HIDE DEF more
<1>5. /\ refresh'[i].left = refresh[i].left \ {u} /\ refresh'[i].data = more
      /\ refresh'[i].stage = IF refresh[i].left = {u} THEN "apply" ELSE "copy"
      /\ \A j \in Refreshes \ {i} : refresh'[j] = refresh[j]
  BY <1>1 DEF IInv, Shape
<1>6. RefreshOK(i)'
  BY <1>3, <1>4, <1>5 DEF RefreshOK, Stages
<1> QED
  BY <1>1, <1>2, <1>5, <1>6, OneRefreshRows

LEMMA ShownDomain == \A t : DOMAIN Shown(t) = Named(t)
BY DEF Shown, Named

\* The rows a refresh leaves.
LEMMA ApplyFacts ==
  ASSUME IInv, RowsInv, NEW i \in Refreshes, Apply(i)
  PROVE  /\ table' \in Seq(Row) /\ OneRowEach(table')
         /\ Named(table') = DOMAIN refresh[i].data \ {NoUuid}
<1> DEFINE base == refresh[i].baseline
           data == refresh[i].data
           S == Added(base, data)
           kept == RemoveRows(table, Removed(base, data))
<1>1. flag /\ DOMAIN base = Named(table)
  BY ShownDomain DEF Apply, IInv, OneRefresh, BaselineTrue, IsIdle
<1>2. PICK order \in Orders(S) :
        table' = ChangeRows(AddRows(kept, data, order), data, Changed(base, data))
  BY <1>1 DEF Apply
<1>3. /\ EntriesOK(data) /\ IsFiniteSet(DOMAIN data)
      /\ table \in Seq(Row) /\ OneRowEach(table)
  BY DEF RowsInv, RefreshOK, Apply
<1>4. /\ kept \in Seq(Row) /\ OneRowEach(kept)
      /\ Named(kept) = Named(table) \ Removed(base, data)
  BY <1>3, RemoveRowsFacts
<1>5. S \in SUBSET (DOMAIN data) /\ S \cap Named(kept) = {}
  BY <1>1, <1>4 DEF Added
<1>6. IsFiniteSet(S)
  BY <1>3, <1>5, FS_Subset
<1>7. \A u \in DOMAIN data : data[u].status \in Statuses
  BY <1>3 DEF EntriesOK, Info
<1>8. S \in SUBSET Keys /\ \A u \in S : data[u].status \in Statuses
  BY <1>3, <1>5, <1>7 DEF EntriesOK
<1> DEFINE more == AddRows(kept, data, order)
<1> HIDE DEF S, kept
<1>9. /\ more \in Seq(Row) /\ OneRowEach(more)
      /\ Named(more) = (Named(kept) \cup S) \ {NoUuid}
  BY <1>4, <1>5, <1>6, <1>8, AddRowsFacts
<1>10. \A u \in Changed(base, data) : data[u].status \in Statuses
  BY <1>7 DEF Changed
<1> HIDE DEF more
<1>11. /\ table' \in Seq(Row) /\ OneRowEach(table') /\ Uuids(table') = Uuids(more)
  BY <1>2, <1>9, <1>10, ChangeRowsFacts DEF more
<1>12. Named(table') = (Named(kept) \cup S) \ {NoUuid}
  BY <1>9, <1>11 DEF Named
<1>13. (Named(kept) \cup S) \ {NoUuid} = DOMAIN data \ {NoUuid}
  BY <1>1, <1>4 DEF S, Added, Removed, Named
<1> QED
  BY <1>11, <1>12, <1>13

LEMMA RefreshStepRows ==
  ASSUME IInv, RowsInv, WorldInv, NEW i \in Refreshes, RefreshStep(i)
  PROVE  RowsInv'
<1>0. RefreshOK(i) /\ EntriesOK(view)
  BY DEF RowsInv
<1>1. CASE List(i)
  <2>1. /\ refresh'[i].stage = "listed" /\ refresh'[i].left = refresh[i].left
        /\ refresh'[i].data = IF Answers THEN Listing ELSE <<>>
        /\ UNCHANGED <<view, table, selected>> /\ refresh[i].stage = "list"
        /\ \A j \in Refreshes \ {i} : refresh'[j] = refresh[j]
    BY <1>1 DEF List, guiVars, IInv, Shape
  <2>2. EntriesOK(refresh'[i].data)
    BY <2>1, ListingOK, IdleFacts
  <2>3. RefreshOK(i)'
    BY <1>0, <2>1, <2>2 DEF RefreshOK, Stages
  <2> QED
    BY <1>0, <2>1, <2>3, OneRefreshRows
<1>2. CASE Fetched(i)
  <2>1. /\ refresh'[i].stage = "ask" /\ refresh'[i].left = refresh[i].left
        /\ refresh'[i].data = <<>> /\ refresh[i].stage = "listed"
        /\ view' = refresh[i].data /\ UNCHANGED <<table, selected>>
        /\ \A j \in Refreshes \ {i} : refresh'[j] = refresh[j]
    BY <1>2 DEF Fetched, IInv, Shape
  <2>2. RefreshOK(i)' /\ EntriesOK(view')
    BY <1>0, <2>1, IdleFacts DEF RefreshOK, Stages
  <2> QED
    BY <2>1, <2>2, OneRefreshRows
<1>3. CASE QuickRefresh(i)
  <2>1. flag
    BY <1>3 DEF QuickRefresh, IInv, OneRefresh, IsIdle
  <2>2. /\ refresh'[i].stage = "copy" /\ refresh'[i].left = UUIDs \cup DOMAIN view
        /\ refresh'[i].data = refresh[i].data /\ refresh[i].stage = "ask"
        /\ UNCHANGED <<view, table, selected>>
        /\ \A j \in Refreshes \ {i} : refresh'[j] = refresh[j]
    BY <1>3, <2>1 DEF QuickRefresh, guiVars, IInv, Shape
  <2>3. refresh'[i].left \subseteq Keys
    BY <1>0, <2>2 DEF EntriesOK, Keys
  <2>4. refresh'[i].data = <<>>
    BY <1>0, <2>2 DEF RefreshOK
  <2>5. RefreshOK(i)'
    BY <2>2, <2>3, <2>4, IdleFacts DEF RefreshOK, Stages
  <2> QED
    BY <1>0, <2>2, <2>5, OneRefreshRows
<1>4. CASE CopyEntry(i)
  BY <1>4, CopyRows
<1>5. CASE Apply(i)
  <2>1. /\ refresh'[i] = Idle /\ view' = view /\ selected' = selected \cap Uuids(table')
        /\ \A j \in Refreshes \ {i} : refresh'[j] = refresh[j]
    BY <1>5 DEF Apply, IInv, Shape
  <2>2. RefreshOK(i)'
    BY <2>1, IdleFacts DEF RefreshOK, Stages
  <2>3. selected' \subseteq Named(table')
    BY <2>1 DEF RowsInv, Named
  <2>4. table' \in Seq(Row) /\ OneRowEach(table')
    BY <1>5, ApplyFacts
  <2> QED
    BY <1>0, <2>1, <2>2, <2>3, <2>4 DEF RowsInv, RefreshOK
<1> QED
  BY <1>1, <1>2, <1>3, <1>4, <1>5 DEF RefreshStep

\* What a button hopes for.
LEMMA OptimisticRows ==
  ASSUME RowsInv, NEW hoped, EntriesOK(hoped), Optimistic(hoped), UNCHANGED selected
  PROVE  RowsInv'
<1>1. EntriesOK(view')
  BY DEF Optimistic, RowsInv, EntriesOK
<1>2. \A u \in DOMAIN hoped : u \in DOMAIN view' /\ view'[u].status \in Statuses
  BY <1>1 DEF Optimistic, EntriesOK, Info
<1>3. table' \in Seq(Row) /\ OneRowEach(table') /\ Uuids(table') = Uuids(table)
  BY <1>2, ChangeRowsFacts DEF Optimistic, ChangedAtOnce, RowsInv
<1>4. refresh' = refresh
  BY DEF Optimistic
<1> QED
  BY <1>1, <1>3, <1>4 DEF RowsInv, RefreshOK, Named

LEMMA EntryFacts ==
  ASSUME RowsInv, NEW u
  PROVE  Entry(u) \in Info
BY DEF RowsInv, EntriesOK, Entry, EmptyInfo, Info, Statuses

LEMMA ScopeFacts == RowsInv => Scope(table, selected) \subseteq Keys /\ selected \subseteq UUIDs
<1> SUFFICES ASSUME RowsInv  PROVE Scope(table, selected) \subseteq Keys /\ selected \subseteq UUIDs
  OBVIOUS
<1>1. Uuids(table) \subseteq Keys
  BY RowFacts DEF RowsInv
<1> QED
  BY <1>1 DEF RowsInv, Scope, Named, Keys

LEMMA UuidsAtFacts == RowsInv => \A rows : UuidsAt(rows) \subseteq Keys
BY RowFacts DEF RowsInv, UuidsAt, Keys

LEMMA UserRows ==
  ASSUME RowsInv, WorldInv, User
  PROVE  RowsInv'
<1>1. CASE HandleStart
  <2>1. EntriesOK([u \in Scope(table, selected) |-> [Entry(u) EXCEPT !.status = "running"]])
    BY EntryFacts, ScopeFacts DEF EntriesOK, Info, Statuses
  <2> QED
    BY <1>1, <2>1, OptimisticRows DEF HandleStart
<1>2. CASE HandleStop
  <2>1. EntriesOK([u \in Scope(table, selected) |-> [Entry(u) EXCEPT !.status = "stopped"]])
    BY EntryFacts, ScopeFacts DEF EntriesOK, Info, Statuses
  <2> QED
    BY <1>2, <2>1, OptimisticRows DEF HandleStop
<1>3. CASE HandleCompressionSwitch
  <2>1. EntriesOK([u \in Scope(table, selected) |->
                     [Entry(u) EXCEPT !.compressing = ~Compressing(u)]])
    <3>1. \A u : (~Compressing(u)) \in BOOLEAN
      OBVIOUS
    <3> QED
      BY <3>1, EntryFacts, ScopeFacts DEF EntriesOK, Info
  <2> QED
    BY <1>3, <2>1, OptimisticRows DEF HandleCompressionSwitch
<1>4. ASSUME NEW add \in BOOLEAN, HandleAutostart(add)
      PROVE  RowsInv'
  <2>1. EntriesOK(view')
    BY <1>4 DEF HandleAutostart, RowsInv, EntriesOK, Info
  <2>2. UNCHANGED <<table, selected, refresh>>
    BY <1>4 DEF HandleAutostart
  <2> QED
    BY <2>1, <2>2 DEF RowsInv, RefreshOK
<1>5. CASE AskRemove \/ OpenSetup
  BY <1>5, RowsSame DEF AskRemove, OpenSetup, guiVars
<1>6. ASSUME NEW S \in SUBSET (Uuids(table) \ {NoUuid}), Select(S)
      PROVE  RowsInv'
  BY <1>6 DEF Select, RowsInv, RefreshOK, Named
<1> QED
  BY <1>1, <1>2, <1>3, <1>4, <1>5, <1>6 DEF User

LEMMA RepliesRows ==
  ASSUME RowsInv, Replies
  PROVE  RowsInv'
<1>1. CASE ConfirmRemove
  <2>1. EntriesOK([u \in UuidsAt(dialog.rows) |->
                     [Entry(u) EXCEPT !.status = "unconfigured", !.configured = FALSE]])
    BY EntryFacts, UuidsAtFacts DEF EntriesOK, Info, Statuses
  <2> QED
    BY <1>1, <2>1, OptimisticRows DEF ConfirmRemove
<1>2. CASE CancelDialog
  BY <1>2, RowsSame DEF CancelDialog, guiVars
<1>3. ASSUME NEW compress \in BOOLEAN, AcceptSetup(compress)
      PROVE  RowsInv'
  <2> DEFINE items == {u \in selected \cap DOMAIN view : view[u].status = "unconfigured"}
  <2>1. view' = [u \in DOMAIN view \cup selected |->
                   IF u \in items
                   THEN [view[u] EXCEPT !.status = "stopped", !.configured = TRUE,
                                        !.compressing = compress \/ @]
                   ELSE Entry(u)]
    BY <1>3 DEF AcceptSetup
  <2>2. \A u \in items : view[u] \in Info
    BY DEF RowsInv, EntriesOK
  <2>3. \A u \in items : [view[u] EXCEPT !.status = "stopped", !.configured = TRUE,
                                         !.compressing = compress \/ @] \in Info
    BY <2>2 DEF Info, Statuses
  <2>4. DOMAIN view \cup selected \subseteq Keys
    BY ScopeFacts DEF RowsInv, EntriesOK, Keys
  <2> HIDE DEF items
  <2>5. EntriesOK(view')
    BY <2>1, <2>3, <2>4, EntryFacts DEF EntriesOK
  <2>6. UNCHANGED <<table, selected, refresh>>
    BY <1>3 DEF AcceptSetup
  <2> QED
    BY <2>5, <2>6 DEF RowsInv, RefreshOK
<1> QED
  BY <1>1, <1>2, <1>3 DEF Replies

LEMMA StepRows == IInv /\ RowsInv /\ WorldInv /\ [Next]_vars => RowsInv'
<1> SUFFICES ASSUME IInv, RowsInv, WorldInv, [Next]_vars  PROVE RowsInv'
  OBVIOUS
<1>1. CASE System
  <2>1. CASE Timers
    BY <2>1, BeginsRows DEF Timers, SoftRefresh, FullRefresh
  <2>2. CASE RootShellReady
    BY <2>2, RowsSame DEF RootShellReady
  <2>3. CASE \E i \in Refreshes : RefreshStep(i)
    BY <2>3, RefreshStepRows
  <2>4. ASSUME NEW b \in Batches, Execute(b) PROVE RowsInv'
    BY <2>4, RowsSame DEF Execute, guiVars
  <2>5. ASSUME NEW b \in Batches, Answer(b) PROVE RowsInv'
    BY <2>5, RowsSame, BeginsRows DEF Answer
  <2> QED
    BY <1>1, <2>1, <2>2, <2>3, <2>4, <2>5 DEF System, CallStep
<1>2. CASE User
  BY <1>2, UserRows
<1>3. CASE Replies
  BY <1>3, RepliesRows
<1>4. CASE Outside
  BY <1>4, RowsSame DEF Outside, Plug, HelperChanges, OtherClient, guiVars
<1>5. CASE UNCHANGED vars
  BY <1>5, RowsSame DEF vars, guiVars
<1> QED
  BY <1>1, <1>2, <1>3, <1>4, <1>5 DEF Next

-----------------------------------------------------------------------------
(* The filesystems, the calls and the dialogs. *)

\* A batch is calls that are still to be carried out and others whose answer is
\* on its way.
BatchInv ==
  /\ batch \in [Batches -> [todo : SUBSET (Ops \X Keys), back : SUBSET (Ops \X Keys)]]
  /\ \A b \in Batches : batch[b].todo \cap batch[b].back = {}

RestInv ==
  /\ reachable \in BOOLEAN /\ rootAlive \in BOOLEAN
  /\ dialog.rows \subseteq Nat /\ dialog.meant \subseteq UUIDs
  /\ DOMAIN dialog = {"kind", "rows", "meant"}

LEMMA AfterFacts ==
  ASSUME NEW op \in Ops, NEW w \in World
  PROVE  After(op, w) \in World
<1>1. /\ [w EXCEPT !.running = TRUE] \in World /\ [w EXCEPT !.running = FALSE] \in World
      /\ [w EXCEPT !.configured = TRUE] \in World /\ [w EXCEPT !.configured = FALSE] \in World
      /\ [w EXCEPT !.compressing = TRUE] \in World /\ [w EXCEPT !.compressing = FALSE] \in World
      /\ [w EXCEPT !.autostart = TRUE] \in World /\ [w EXCEPT !.autostart = FALSE] \in World
  BY DEF World
<1> HIDE DEF World
<1> QED
  BY <1>1 DEF After, Ops

\* What the helper or another program does to a filesystem that is there.
LEMMA WorldChanges ==
  ASSUME WorldInv, UNCHANGED present, NEW u \in present, NEW op \in Ops,
         world' = [world EXCEPT ![u] = After(op, @)]
  PROVE  WorldInv'
<1>1. u \in UUIDs /\ After(op, world[u]) \in World
  BY AfterFacts DEF WorldInv
<1> QED
  BY <1>1 DEF WorldInv

LEMMA ExecuteFacts ==
  ASSUME WorldInv, BatchInv, NEW b \in Batches, Execute(b)
  PROVE  WorldInv' /\ BatchInv'
<1>1. PICK call \in batch[b].todo, ok \in BOOLEAN :
        /\ ok => Answers /\ call[2] \in present
        /\ world' = IF ok THEN [world EXCEPT ![call[2]] = After(call[1], @)] ELSE world
        /\ batch' = [batch EXCEPT ![b].todo = @ \ {call}, ![b].back = @ \cup {call}]
        /\ present' = present
  BY DEF Execute
<1>2. call \in Ops \X Keys /\ call[1] \in Ops
  BY DEF BatchInv
<1>3. WorldInv'
  <2>1. CASE ok
    BY <1>1, <1>2, <2>1, WorldChanges
  <2>2. CASE ~ok
    BY <1>1, <2>2 DEF WorldInv
  <2> QED
    BY <2>1, <2>2
<1>4. /\ batch'[b] = [todo |-> batch[b].todo \ {call}, back |-> batch[b].back \cup {call}]
      /\ DOMAIN batch' = Batches
      /\ \A c \in Batches \ {b} : batch'[c] = batch[c]
  BY <1>1 DEF BatchInv
<1>5. BatchInv'
  BY <1>1, <1>2, <1>4 DEF BatchInv
<1> QED
  BY <1>3, <1>5

LEMMA SendFacts ==
  ASSUME BatchInv, NEW calls \in SUBSET (Ops \X Keys), Send(calls)
  PROVE  BatchInv'
<1>1. CASE UNCHANGED batch
  BY <1>1 DEF BatchInv
<1>2. ASSUME NEW b \in Batches, NextBatch(b), batch' = [batch EXCEPT ![b].todo = calls]
      PROVE  BatchInv'
  BY <1>2 DEF BatchInv, NextBatch, BatchIdle, NoBatch
<1> QED
  BY <1>1, <1>2 DEF Send

LEMMA UserBatch ==
  ASSUME BatchInv, RowsInv, User
  PROVE  BatchInv'
<1>0. Scope(table, selected) \subseteq Keys /\ selected \subseteq Keys
  BY ScopeFacts DEF Keys
<1>1. CASE HandleStart
  <2>1. {<<"start", u>> : u \in {v \in Scope(table, selected) :
            ~Running(view, v) /\ Configured(view, v)}} \in SUBSET (Ops \X Keys)
    BY <1>0 DEF Ops
  <2> QED
    BY <1>1, <2>1, SendFacts DEF HandleStart
<1>2. CASE HandleStop
  <2>1. {<<"stop", u>> : u \in {v \in Scope(table, selected) :
            Running(view, v) /\ Configured(view, v)}} \in SUBSET (Ops \X Keys)
    BY <1>0 DEF Ops
  <2> QED
    BY <1>2, <2>1, SendFacts DEF HandleStop
<1>3. CASE HandleCompressionSwitch
  <2> DEFINE pause == ~buttons.paused
             calls == {<<IF Compressing(u) # pause THEN "none"
                         ELSE IF pause THEN "pause" ELSE "compress", u>> :
                         u \in Scope(table, selected)}
  <2>1. calls \in SUBSET (Ops \X Keys)
    BY <1>0 DEF Ops
  <2>2. Send(calls)
    BY <1>3 DEF HandleCompressionSwitch
  <2> QED
    BY <2>1, <2>2, SendFacts
<1>4. ASSUME NEW add \in BOOLEAN, HandleAutostart(add)
      PROVE  BatchInv'
  <2> DEFINE items == {u \in selected \ {NoUuid} :
                         Configured(view, u) /\ world[u].autostart # add}
             calls == {<<IF add THEN "autostart_add" ELSE "autostart_remove", u>> : u \in items}
  <2>1. calls \in SUBSET (Ops \X Keys)
    BY <1>0 DEF Ops
  <2>2. Send(calls)
    BY <1>4 DEF HandleAutostart
  <2> QED
    BY <2>1, <2>2, SendFacts
<1>5. CASE \/ AskRemove \/ OpenSetup
           \/ \E S \in SUBSET (Uuids(table) \ {NoUuid}) : Select(S)
  BY <1>5 DEF AskRemove, OpenSetup, Select, BatchInv
<1> QED
  BY <1>1, <1>2, <1>3, <1>4, <1>5 DEF User

LEMMA RepliesBatch ==
  ASSUME BatchInv, RowsInv, Replies
  PROVE  BatchInv'
<1>1. CASE ConfirmRemove
  <2>1. RemovalCalls(UuidsAt(dialog.rows)) \in SUBSET (Ops \X Keys)
    BY UuidsAtFacts DEF RemovalCalls, Ops
  <2> QED
    BY <1>1, <2>1, SendFacts DEF ConfirmRemove
<1>2. CASE CancelDialog
  BY <1>2 DEF CancelDialog, BatchInv
<1>3. ASSUME NEW compress \in BOOLEAN, AcceptSetup(compress)
      PROVE  BatchInv'
  <2> DEFINE items == {u \in selected \cap DOMAIN view : view[u].status = "unconfigured"}
             calls == {<<"setup", u>> : u \in items}
             more  == IF compress THEN {<<"compress", u>> : u \in items} ELSE {}
  <2>1. items \subseteq Keys
    BY ScopeFacts DEF Keys
  <2>2. calls \in SUBSET (Ops \X Keys) /\ more \in SUBSET (Ops \X Keys)
    BY <2>1 DEF Ops
  <2>3. \/ UNCHANGED batch
        \/ \E b, c \in Batches :
             /\ NextBatch(b) /\ BatchIdle(c) /\ b # c
             /\ batch' = [batch EXCEPT ![b].todo = calls, ![c].todo = more]
    BY <1>3 DEF AcceptSetup
  <2> HIDE DEF calls, more
  <2>4. ASSUME NEW b \in Batches, NEW c \in Batches,
               NextBatch(b), BatchIdle(c), b # c,
               batch' = [batch EXCEPT ![b].todo = calls, ![c].todo = more]
        PROVE  BatchInv'
    <3>1. batch[b].back = {} /\ batch[c].back = {}
      BY <2>4 DEF NextBatch, BatchIdle, NoBatch
    <3>2. batch' \in [Batches -> [todo : SUBSET (Ops \X Keys),
                                 back : SUBSET (Ops \X Keys)]]
      BY <2>2, <2>4 DEF BatchInv
    <3>3. ASSUME NEW d \in Batches
          PROVE  batch'[d].todo \cap batch'[d].back = {}
      <4>1. batch'[d].back = batch[d].back
        BY <2>4 DEF BatchInv
      <4>2. CASE d = b \/ d = c
        BY <3>1, <4>1, <4>2
      <4>3. CASE d # b /\ d # c
        BY <2>4, <4>3 DEF BatchInv
      <4> QED
        BY <4>2, <4>3
    <3> QED
      BY <3>2, <3>3 DEF BatchInv
  <2> QED
    BY <2>3, <2>4 DEF BatchInv
<1> QED
  BY <1>1, <1>2, <1>3 DEF Replies

LEMMA StepRest ==
  IInv /\ RowsInv /\ WorldInv /\ BatchInv /\ RestInv /\ [Next]_vars
    => WorldInv' /\ BatchInv' /\ RestInv'
<1> SUFFICES ASSUME IInv, RowsInv, WorldInv, BatchInv, RestInv, [Next]_vars
             PROVE  WorldInv' /\ BatchInv' /\ RestInv'
  OBVIOUS
<1>0. /\ UNCHANGED <<present, world>> => WorldInv'
      /\ UNCHANGED batch => BatchInv'
      /\ UNCHANGED <<reachable, rootAlive, dialog>> => RestInv'
      /\ UNCHANGED <<reachable, rootAlive>> /\ dialog' = NoDialog => RestInv'
  BY DEF WorldInv, BatchInv, RestInv, NoDialog
<1>1. CASE System
  <2>1. CASE Timers \/ RootShellReady
    BY <1>0, <2>1 DEF Timers, SoftRefresh, FullRefresh, RootShellReady, worldVars, RestInv
  <2>2. ASSUME NEW i \in Refreshes, RefreshStep(i)
        PROVE  WorldInv' /\ BatchInv' /\ RestInv'
    BY <1>0, <2>2 DEF RefreshStep, List, Fetched, QuickRefresh, CopyEntry, Apply, worldVars, guiVars
  <2>3. ASSUME NEW b \in Batches, Execute(b)
        PROVE  WorldInv' /\ BatchInv' /\ RestInv'
    <3>1. UNCHANGED <<reachable, rootAlive, dialog>>
      BY <2>3 DEF Execute, guiVars
    <3> QED
      BY <1>0, <2>3, <3>1, ExecuteFacts
  <2>4. ASSUME NEW b \in Batches, Answer(b)
        PROVE  WorldInv' /\ BatchInv' /\ RestInv'
    <3>1. UNCHANGED <<present, world, reachable, rootAlive, dialog>>
      BY <2>4 DEF Answer, worldVars
    <3>2. PICK call \in batch[b].back : batch' = [batch EXCEPT ![b].back = @ \ {call}]
      BY <2>4 DEF Answer
    <3>3. BatchInv'
      BY <3>2 DEF BatchInv
    <3> QED
      BY <1>0, <3>1, <3>3
  <2> QED
    BY <1>1, <2>1, <2>2, <2>3, <2>4 DEF System, CallStep
<1>2. CASE User
  <2>1. UNCHANGED <<present, world, reachable, rootAlive>>
    BY <1>2 DEF User, HandleStart, HandleStop, HandleCompressionSwitch, HandleAutostart,
                AskRemove, OpenSetup, Select, worldVars, guiVars
  <2>2. CASE AskRemove
    <3>1. /\ dialog'.rows \subseteq DOMAIN table /\ dialog'.meant = selected
          /\ DOMAIN dialog' = {"kind", "rows", "meant"}
      BY <2>2 DEF AskRemove
    <3>2. DOMAIN table \subseteq Nat
      BY RowFacts DEF RowsInv
    <3>3. RestInv'
      BY <2>1, <3>1, <3>2, ScopeFacts DEF RestInv
    <3> QED
      BY <1>0, <1>2, <2>1, <3>3, UserBatch
  <2>3. CASE OpenSetup
    <3>1. RestInv'
      BY <2>1, <2>3 DEF OpenSetup, RestInv, NoDialog
    <3> QED
      BY <1>0, <1>2, <2>1, <3>1, UserBatch
  <2>4. CASE ~AskRemove /\ ~OpenSetup
    <3>1. dialog' = dialog
      BY <1>2, <2>4 DEF User, HandleStart, HandleStop, HandleCompressionSwitch, HandleAutostart,
                        Select
    <3> QED
      BY <1>0, <1>2, <2>1, <3>1, UserBatch
  <2> QED
    BY <2>2, <2>3, <2>4
<1>3. CASE Replies
  <2>1. UNCHANGED <<present, world, reachable, rootAlive>> /\ dialog' = NoDialog
    BY <1>3 DEF Replies, ConfirmRemove, CancelDialog, AcceptSetup, worldVars, guiVars
  <2> QED
    BY <1>0, <1>3, <2>1, RepliesBatch
<1>4. CASE Outside
  <2>1. ASSUME NEW u \in UUIDs, Plug(u)
        PROVE  WorldInv' /\ BatchInv' /\ RestInv'
    <3>1. /\ present' \subseteq UUIDs
          /\ world' = [world EXCEPT ![u].running = FALSE, ![u].compressing = FALSE]
      BY <2>1 DEF Plug, WorldInv
    <3>2. WorldInv'
      BY <3>1 DEF WorldInv, World
    <3> QED
      BY <1>0, <2>1, <3>2 DEF Plug, guiVars
  <2>2. CASE HelperChanges
    BY <1>0, <2>2 DEF HelperChanges, guiVars, RestInv
  <2>3. ASSUME NEW u \in UUIDs, NEW op \in {"start", "remove"}, OtherClient(u, op)
        PROVE  WorldInv' /\ BatchInv' /\ RestInv'
    <3>1. WorldInv'
      BY <2>3, WorldChanges DEF OtherClient, Ops
    <3> QED
      BY <1>0, <2>3, <3>1 DEF OtherClient, guiVars
  <2> QED
    BY <1>4, <2>1, <2>2, <2>3 DEF Outside
<1>5. CASE UNCHANGED vars
  BY <1>0, <1>5 DEF vars, worldVars, guiVars
<1> QED
  BY <1>1, <1>2, <1>3, <1>4, <1>5 DEF Next

-----------------------------------------------------------------------------

\* The whole invariant.
TableInv == IInv /\ RowsInv /\ WorldInv /\ BatchInv /\ RestInv

LEMMA InitTableInv == Init => TableInv
<1> SUFFICES ASSUME Init  PROVE TableInv
  OBVIOUS
<1>1. <<>> \in Seq(Row) /\ DOMAIN <<>> = {}
  BY EmptySeq
<1>2. RowsInv
  <2>1. \A i \in Refreshes : RefreshOK(i)
    BY IdleFacts DEF Init, RefreshOK, Stages
  <2> QED
    BY <1>1, <2>1, IdleFacts DEF Init, RowsInv, OneRowEach, Named
<1>3. WorldInv
  BY DEF Init, WorldInv, World
<1>4. BatchInv /\ RestInv
  BY DEF Init, BatchInv, RestInv, NoBatch, NoDialog
<1> QED
  BY <1>2, <1>3, <1>4, InitIInv DEF TableInv

LEMMA StepTableInv == TableInv /\ [Next]_vars => TableInv'
BY StepIInv, StepRows, StepRest DEF TableInv

LEMMA TypeFromInv == TableInv => TypeOK
<1> SUFFICES ASSUME TableInv  PROVE TypeOK
  OBVIOUS
<1>1. DOMAIN view \subseteq Keys /\ \A u \in DOMAIN view : view[u] \in Info
  BY DEF TableInv, RowsInv, EntriesOK
<1>2. \A r \in DOMAIN table : table[r] \in Row
  BY RowFacts DEF TableInv, RowsInv
<1>3. \A i \in Refreshes :
        /\ refresh[i].stage \in Stages
        /\ DOMAIN refresh[i].data \subseteq Keys \ refresh[i].left
        /\ refresh[i].stage \in {"idle", "list", "ask"} => refresh[i].data = <<>>
  BY DEF TableInv, RowsInv, RefreshOK, EntriesOK
<1>4. \A b \in Batches : /\ batch[b].todo \cup batch[b].back \subseteq Ops \X Keys
                         /\ batch[b].todo \cap batch[b].back = {}
  BY DEF TableInv, BatchInv
<1> QED
  BY <1>1, <1>2, <1>3, <1>4 DEF TypeOK, TableInv, IInv, Shape, RowsInv, WorldInv, RestInv, Named

\* Every variable keeps its shape, whatever filesystems there are and however
\* many refreshes and batches are under way.
THEOREM TypeCorrect == Spec => []TypeOK
BY InitTableInv, StepTableInv, TypeFromInv, PTL DEF Spec

\* No filesystem ever has two rows, in whatever order a refresh adds them and
\* whatever column the table is sorted by.
THEOREM NoDuplicateRowsEver == Spec => []NoDuplicateRows
<1>1. TableInv => NoDuplicateRows
  BY DEF TableInv, RowsInv, OneRowEach, NoDuplicateRows
<1> QED
  BY <1>1, InitTableInv, StepTableInv, PTL DEF Spec

\* A refresh is over when it has changed the rows, and by no other step.
LEMMA OnlyApplyEnds ==
  ASSUME TableInv, [Next]_vars, NEW i \in Refreshes,
         refresh[i].stage = "apply", refresh'[i].stage = "idle"
  PROVE  Apply(i)
<1>1. refresh' # refresh
  OBVIOUS
<1>2. Shape /\ flag
  BY DEF TableInv, IInv, OneRefresh, IsIdle
<1>3. \A full \in BOOLEAN : RefreshTable(full) => refresh' = refresh
  BY <1>2 DEF RefreshTable
<1>4. ~Timers /\ ~RootShellReady
  BY <1>1, <1>3 DEF Timers, SoftRefresh, FullRefresh, RootShellReady
<1>5. \A b \in Batches : ~CallStep(b)
  BY <1>1, <1>3 DEF CallStep, Execute, Answer
<1>6. ~User /\ ~Replies
  BY <1>1 DEF User, Replies, HandleStart, HandleStop, HandleCompressionSwitch, HandleAutostart,
              AskRemove, OpenSetup, Select, ConfirmRemove, CancelDialog, AcceptSetup, Optimistic
<1>7. ~Outside /\ ~UNCHANGED vars
  BY <1>1 DEF Outside, Plug, HelperChanges, OtherClient, vars
<1>8. PICK j \in Refreshes : RefreshStep(j)
  BY <1>4, <1>5, <1>6, <1>7 DEF Next, System
<1>9. j = i
  <2>1. CASE j # i
    <3>1. refresh'[i] = refresh[i]
      BY <1>2, <1>8, <2>1 DEF RefreshStep, List, Fetched, QuickRefresh, CopyEntry, Apply, Shape
    <3> QED
      BY <3>1
  <2> QED
    BY <2>1
<1> QED
  BY <1>8, <1>9 DEF RefreshStep, List, Fetched, QuickRefresh, CopyEntry

\* When a refresh has changed the rows, the table has a row for each entry it
\* copied, and no other.
THEOREM RefreshAlwaysLeavesSnapshot == Spec => RefreshLeavesSnapshot
<1>1. TableInv /\ [Next]_vars
        => [\A i \in Refreshes :
              refresh[i].stage = "apply" /\ refresh'[i].stage = "idle"
                => Uuids(table') \ {NoUuid} = DOMAIN refresh[i].data \ {NoUuid}]_vars
  BY OnlyApplyEnds, ApplyFacts DEF TableInv, Named
<1> QED
  BY <1>1, InitTableInv, StepTableInv, PTL DEF Spec, RefreshLeavesSnapshot

-----------------------------------------------------------------------------
(* The question of the Remove button. *)

\* No refresh changes the rows while the question waits for its answer.
RefreshesWait == [][\A i \in Refreshes : Apply(i) => dialog.kind # "remove"]_vars

\* The rows still stand for what was selected.
MeantInv == dialog.kind = "remove" => UuidsAt(dialog.rows) \subseteq dialog.meant

\* Who has to do with the question.
LEMMA SystemLeavesQuestion == System \/ Outside => dialog' = dialog
<1>1. Timers \/ RootShellReady => dialog' = dialog
  BY DEF Timers, SoftRefresh, FullRefresh, RootShellReady
<1>2. \A i \in Refreshes : RefreshStep(i) => dialog' = dialog
  BY DEF RefreshStep, List, Fetched, QuickRefresh, CopyEntry, Apply
<1>3. \A b \in Batches : CallStep(b) => dialog' = dialog
  BY DEF CallStep, Execute, Answer
<1>4. Outside => dialog' = dialog
  BY DEF Outside, Plug, HelperChanges, OtherClient
<1> QED
  BY <1>1, <1>2, <1>3, <1>4 DEF System

LEMMA OnlyApplyChangesRows ==
  ASSUME System \/ Outside, \A i \in Refreshes : ~Apply(i)
  PROVE  table' = table
<1>1. Timers \/ RootShellReady => table' = table
  BY DEF Timers, SoftRefresh, FullRefresh, RootShellReady
<1>2. \A i \in Refreshes : RefreshStep(i) => table' = table
  BY DEF RefreshStep, List, Fetched, QuickRefresh, CopyEntry, guiVars
<1>3. \A b \in Batches : CallStep(b) => table' = table
  BY DEF CallStep, Execute, Answer, guiVars
<1>4. Outside => table' = table
  BY DEF Outside, Plug, HelperChanges, OtherClient, guiVars
<1> QED
  BY <1>1, <1>2, <1>3, <1>4 DEF System

\* The window is modal: nothing can be clicked during the question.
LEMMA ClicksBeforeQuestion ==
  User => /\ dialog.kind = "none"
          /\ dialog' = dialog \/ AskRemove \/ dialog'.kind = "setup"
<1>1. HandleStart \/ HandleStop \/ HandleCompressionSwitch
        => dialog.kind = "none" /\ dialog' = dialog
  BY DEF HandleStart, HandleStop, HandleCompressionSwitch, Clicks
<1>2. \A add \in BOOLEAN : HandleAutostart(add) => dialog.kind = "none" /\ dialog' = dialog
  BY DEF HandleAutostart
<1>3. AskRemove => dialog.kind = "none"
  BY DEF AskRemove, Clicks
<1>4. OpenSetup => dialog.kind = "none" /\ dialog'.kind = "setup"
  BY DEF OpenSetup, Clicks, NoDialog
<1>5. \A S : Select(S) => dialog.kind = "none" /\ dialog' = dialog
  BY DEF Select
<1> QED
  BY <1>1, <1>2, <1>3, <1>4, <1>5 DEF User

LEMMA RepliesEndQuestion == Replies => dialog' = NoDialog
BY DEF Replies, ConfirmRemove, CancelDialog, AcceptSetup

LEMMA QuestionStep ==
  ASSUME MeantInv, Next, \A i \in Refreshes : Apply(i) => dialog.kind # "remove"
  PROVE  MeantInv'
<1>1. CASE AskRemove
  <2>1. /\ dialog'.meant = selected /\ table' = table
        /\ dialog'.rows = {r \in DOMAIN table : table[r].uuid \in selected}
    BY <1>1 DEF AskRemove, guiVars
  <2> QED
    BY <2>1 DEF MeantInv, UuidsAt
<1>2. CASE System \/ Outside
  <2>1. dialog' = dialog
    BY <1>2, SystemLeavesQuestion
  <2>2. dialog.kind = "remove" => table' = table
    BY <1>2, OnlyApplyChangesRows
  <2> QED
    BY <2>1, <2>2 DEF MeantInv, UuidsAt
<1>3. CASE User /\ ~AskRemove
  BY <1>3, ClicksBeforeQuestion DEF MeantInv
<1>4. CASE Replies
  BY <1>4, RepliesEndQuestion DEF MeantInv, NoDialog
<1> QED
  BY <1>1, <1>2, <1>3, <1>4 DEF Next

\* A confirmed removal is sent for filesystems that were selected when the
\* question was asked, as long as no refresh changes the rows meanwhile: clicks,
\* calls under way and events outside the window do not disturb it.
THEOREM RemovalMeansSelected == Spec /\ RefreshesWait => RemovesOnlySelected
<1>1. Init => MeantInv
  BY DEF Init, NoDialog, MeantInv
<1>2. MeantInv /\ [Next]_vars
        /\ [\A i \in Refreshes : Apply(i) => dialog.kind # "remove"]_vars => MeantInv'
  BY QuestionStep DEF vars, guiVars, MeantInv, UuidsAt
<1>3. TableInv /\ MeantInv /\ [Next]_vars
        => [dialog.kind = "remove" /\ dialog'.kind = "none" =>
              \A b \in Batches : \A call \in batch'[b].todo \ batch[b].todo :
                call[1] = "remove" => call[2] \in dialog.meant]_vars
  <2> SUFFICES ASSUME TableInv, MeantInv, Next, dialog.kind = "remove", dialog'.kind = "none",
                      NEW b \in Batches, NEW call \in batch'[b].todo \ batch[b].todo
               PROVE  call[2] \in dialog.meant
    OBVIOUS
  <2>1. Replies /\ ~AcceptSetup(TRUE) /\ ~AcceptSetup(FALSE)
    BY SystemLeavesQuestion, ClicksBeforeQuestion DEF Next, AcceptSetup
  <2>2. ~CancelDialog
    BY DEF CancelDialog
  <2>3. ConfirmRemove
    BY <2>1, <2>2 DEF Replies
  <2> DEFINE calls == RemovalCalls(UuidsAt(dialog.rows))
  <2>4. batch' = batch \/ \E c \in Batches : batch' = [batch EXCEPT ![c].todo = calls]
    BY <2>3 DEF ConfirmRemove, Send
  <2> HIDE DEF calls
  <2>5. call \in calls
    BY <2>4 DEF TableInv, BatchInv
  <2>6. call[2] \in UuidsAt(dialog.rows)
    BY <2>5 DEF calls, RemovalCalls
  <2> QED
    BY <2>6 DEF MeantInv
<1> QED
  BY <1>1, <1>2, <1>3, InitTableInv, StepTableInv, PTL
  DEF Spec, RefreshesWait, RemovesOnlySelected

=============================================================================
