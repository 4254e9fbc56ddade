-------------------------- MODULE CompressionProofs --------------------------
(* Transparent compression, for any filesystems, mount points, settings and    *)
(* names contained in one another: the types, the bounds of the settings and   *)
(* the truth of is_running for any callers; what a start that ends well has    *)
(* done as long as tasks do not overlap, and the promise of the files as long  *)
(* as the edits of a file do not.                                              *)
EXTENDS TransparentCompression, ConfigFileProofs

Mount == [path : Paths \cup {PseudoAt}, fs : UUIDs \cup {NoFs}]

\* Every mount point has one line, and only the first, without a UUID, is not
\* one of a filesystem.
TableInv ==
  /\ table \in Seq(Mount)
  /\ \A e \in Range(table) : e.path = PseudoAt <=> e.fs = NoFs
  /\ \A i, j \in DOMAIN table : table[i].path = table[j].path => i = j

-----------------------------------------------------------------------------
(* Lookups in /proc/mounts. *)

LEMMA TableFacts ==
  ASSUME TableInv
  PROVE  /\ Len(table) \in Nat /\ DOMAIN table = 1 .. Len(table)
         /\ \A i \in DOMAIN table : table[i] \in Mount /\ table[i] \in Range(table)
         /\ \A e \in Range(table) : e \in Mount /\ \E i \in DOMAIN table : e = table[i]
<1>1. table \in Seq(Mount)
  BY DEF TableInv
<1>2. Len(table) \in Nat /\ DOMAIN table = 1 .. Len(table) /\ table \in [1 .. Len(table) -> Mount]
  BY <1>1, LenProperties
<1> QED
  BY <1>2 DEF Range

\* A mount point tells the filesystem.
LEMMA FsAtTrue == TableInv => \A e \in Range(table) : FsAt(e.path) = e.fs
<1> SUFFICES ASSUME TableInv, NEW e \in Range(table)  PROVE FsAt(e.path) = e.fs
  OBVIOUS
<1>1. \A d \in Range(table) : d.path = e.path => d = e
  BY TableFacts DEF TableInv
<1>2. (CHOOSE d \in Range(table) : d.path = e.path) = e
  BY <1>1
<1> QED
  BY <1>2 DEF FsAt

\* The same after a step.
LEMMA FsAtTrueNext == TableInv' => \A e \in Range(table') : FsAt(e.path)' = e.fs
<1> DEFINE Fact == TableInv => \A e \in Range(table) : FsAt(e.path) = e.fs
<1>1. Fact
  BY FsAtTrue
<1>2. Fact'
  BY <1>1, PTL
<1> QED
  BY <1>2

LEMMA MountPathsFacts ==
  ASSUME TableInv, NEW n \in Names
  PROVE  /\ MountPaths(n) \in Seq(Paths)
         /\ Range(MountPaths(n)) =
              {table[i].path : i \in {j \in DOMAIN table :
                                 n[2] = "lower" /\ <<n[1], table[j].fs>> \in InDevice}}
         /\ \A p \in Range(MountPaths(n)) : \E e \in Range(table) : e.path = p /\ e.fs \in UUIDs
<1> DEFINE I == {i \in DOMAIN table : n[2] = "lower" /\ <<n[1], table[i].fs>> \in InDevice}
           mine == Pick(table, I)
<1>1. \A i \in I : table[i].fs \in UUIDs /\ table[i].path \in Paths
  <2>1. \A i \in I : <<n[1], table[i].fs>> \in UUIDs \X UUIDs
    BY TextAssumption
  <2>2. \A i \in I : table[i].fs \in UUIDs
    BY <2>1
  <2>3. \A i \in I : table[i].fs # NoFs /\ table[i] \in Mount /\ table[i] \in Range(table)
    BY <2>2, TableFacts, TextAssumption
  <2>4. \A i \in I : table[i].path # PseudoAt
    BY <2>3, Zenon DEF TableInv
  <2>5. \A i \in I : table[i].path \in Paths \cup {PseudoAt}
    BY <2>3 DEF Mount
  <2> QED
    BY <2>2, <2>4, <2>5
<1>2. table \in Seq(Mount) /\ I \in SUBSET (DOMAIN table)
  BY DEF TableInv
<1> HIDE DEF I
<1>3. mine \in Seq(Mount) /\ Range(mine) = {table[i] : i \in I}
  BY <1>2, PickFacts, PickRange
<1>4. Len(mine) \in Nat /\ DOMAIN mine = 1 .. Len(mine)
  BY <1>3, LenProperties
<1>5. MountPaths(n) = [i \in 1 .. Len(mine) |-> mine[i].path]
  BY <1>4 DEF MountPaths, I
<1> HIDE DEF mine
<1>6. \A i \in 1 .. Len(mine) : mine[i] \in Range(mine)
  BY <1>4 DEF Range
<1>7. \A i \in 1 .. Len(mine) : mine[i].path \in Paths
  BY <1>1, <1>3, <1>6
<1>8. MountPaths(n) \in Seq(Paths)
  BY <1>4, <1>5, <1>7
<1>9. Range(MountPaths(n)) = {e.path : e \in Range(mine)}
  BY <1>4, <1>5 DEF Range
<1>10. Range(MountPaths(n)) = {table[i].path : i \in I}
  BY <1>3, <1>9
<1>11. \A p \in Range(MountPaths(n)) : \E e \in Range(table) : e.path = p /\ e.fs \in UUIDs
  BY <1>1, <1>10, TableFacts DEF I
<1> QED
  BY <1>8, <1>10, <1>11 DEF I

-----------------------------------------------------------------------------
(* Mounts and unmounts. *)

LEMMA MountTable ==
  ASSUME TableInv, NEW u \in UUIDs, NEW p \in Paths, MountFs(u, p)
  PROVE  TableInv' /\ Range(table') = Range(table) \cup {[path |-> p, fs |-> u]}
<1> DEFINE e == [path |-> p, fs |-> u]
           L == Len(table)
<1>1. e \in Mount /\ p # PseudoAt /\ u # NoFs
  BY TextAssumption DEF Mount
<1>2. table \in Seq(Mount) /\ L \in Nat /\ DOMAIN table = 1 .. L
  BY TableFacts DEF TableInv
<1>3. /\ table' = Append(table, e)
      /\ \A i \in 1 .. L : table[i].path # p
  BY <1>2, TableFacts DEF MountFs, MountedAt
<1> HIDE DEF e, L
<1>4. /\ table' \in Seq(Mount) /\ Len(table') = L + 1
      /\ \A i \in 1 .. L : table'[i] = table[i]
      /\ table'[L + 1] = e
  BY <1>1, <1>2, <1>3, AppendProperties DEF L
<1>5. DOMAIN table' = 1 .. L + 1
  BY <1>4, LenProperties
<1>6. \A i \in 1 .. L + 1 : i \in 1 .. L \/ i = L + 1
  BY <1>2
<1>7. Range(table') = Range(table) \cup {e}
  BY <1>2, <1>4, <1>5, <1>6 DEF Range
<1>8. e.path = p /\ e.fs = u
  BY DEF e
<1>9. \A i, j \in DOMAIN table' : table'[i].path = table'[j].path => i = j
  BY <1>2, <1>3, <1>4, <1>5, <1>6, <1>8 DEF TableInv
<1>10. \A d \in Range(table') : d.path = PseudoAt <=> d.fs = NoFs
  BY <1>1, <1>7, <1>8 DEF TableInv
<1> QED
  BY <1>4, <1>7, <1>9, <1>10 DEF TableInv, e

LEMMA UnmountTable ==
  ASSUME TableInv, NEW p \in Paths, Unmount(p)
  PROVE  TableInv' /\ Range(table') = {e \in Range(table) : e.path # p}
<1> DEFINE I == {i \in DOMAIN table : table[i].path # p}
           C == Cardinality(I)
<1>1. table \in Seq(Mount) /\ Len(table) \in Nat /\ I \in SUBSET (1 .. Len(table))
  BY TableFacts DEF TableInv
<1>2. table' = Pick(table, I)
  BY DEF Unmount
<1>3. /\ table' \in Seq(Mount) /\ DOMAIN table' = 1 .. C /\ C \in Nat
      /\ \A k \in 1 .. C : table'[k] = table[Places(I)[k]]
  BY <1>1, <1>2, PickFacts
<1>4. /\ \A k \in 1 .. C : Places(I)[k] \in I
      /\ \A k, l \in 1 .. C : k < l => Places(I)[k] < Places(I)[l]
  BY <1>1, PlacesFacts
<1>5. Range(table') = {table[i] : i \in I}
  BY <1>1, <1>2, PickRange
<1>6. Range(table') = {e \in Range(table) : e.path # p}
  BY <1>5 DEF Range
<1>7. ASSUME NEW k \in 1 .. C, NEW l \in 1 .. C, table'[k].path = table'[l].path
      PROVE  k = l
  <2>1. Places(I)[k] = Places(I)[l]
    BY <1>3, <1>4, <1>7 DEF TableInv
  <2>2. Places(I)[k] \in Int
    BY <1>1, <1>4
  <2>3. ~(k < l) /\ ~(l < k)
    BY <1>4, <2>1, <2>2
  <2> QED
    BY <1>3, <2>3
<1>8. \A i, j \in DOMAIN table' : table'[i].path = table'[j].path => i = j
  BY <1>3, <1>7
<1>9. \A e \in Range(table') : e.path = PseudoAt <=> e.fs = NoFs
  BY <1>6 DEF TableInv
<1> QED
  BY <1>3, <1>6, <1>8, <1>9 DEF TableInv

LEMMA TableSame == TableInv /\ UNCHANGED table => TableInv'
BY DEF TableInv

\* A step of the two files and the mounts, whatever else it does.
MountStep ==
  \/ UNCHANGED table
  \/ \E u \in UUIDs, p \in Paths : MountFs(u, p)
  \/ \E p \in Paths : Unmount(p)

LEMMA TableStep == TableInv /\ MountStep => TableInv'
BY TableSame, MountTable, UnmountTable DEF MountStep

-----------------------------------------------------------------------------
(* The types. *)

\* compressctl adds no bare line: it has an algorithm.
LEMMA SettingLine ==
  ASSUME NEW n \in Names, NEW r \in Requests, Requested(r).algo \in Accepted
  PROVE  [name |-> n, tail |-> Clamp(Requested(r))] \in LinesOf("compression")
<1>1. Clamp(Requested(r)) \in Tails
  BY SettingsAssumption
<1>2. Clamp(Requested(r)).algo = Requested(r).algo
  BY DEF Clamp, Requested
<1>3. Clamp(Requested(r)) # Bare
  <2>1. Clamp(Requested(r)).algo # Bare.algo
    BY <1>2 DEF Accepted, Bare
  <2> QED
    BY <2>1
<1> QED
  BY <1>1, <1>3 DEF LinesOf, Whole

\* What a step does to the files and to the mounts.
LEMMA PartsStep == [Next]_vars => ConfigStep /\ MountStep
<1> SUFFICES ASSUME [Next]_vars  PROVE ConfigStep /\ MountStep
  OBVIOUS
<1>1. ASSUME NEW c \in Callers, NEW n \in Subjects, CompressCtl(c, n)
      PROVE  ConfigStep /\ MountStep
  <2>1. n \in Names
    BY TextAssumption
  <2>2. CASE Start(c, n) \/ Pause(c, n)
    BY <2>2 DEF Start, Pause, Begin, ConfigStep, MountStep, configVars
  <2>3. ASSUME NEW r \in Requests, AddSetting(c, n, r)
        PROVE  ConfigStep /\ MountStep
    <3>1. [name |-> n, tail |-> Clamp(Requested(r))] \in LinesOf("compression")
      BY <2>1, <2>3, SettingLine DEF AddSetting
    <3> QED
      BY <2>3, <3>1 DEF AddSetting, ConfigStep, MountStep, Files
  <2>4. CASE RemoveSetting(c, n)
    BY <2>1, <2>4 DEF RemoveSetting, ConfigStep, MountStep, Files
  <2> QED
    BY <1>1, <2>2, <2>3, <2>4 DEF CompressCtl
<1>2. ASSUME NEW c \in Callers, NEW n \in Subjects, AutostartCtl(c, n)
      PROVE  ConfigStep /\ MountStep
  <2>1. n \in Names
    BY TextAssumption
  <2>2. [name |-> n, tail |-> Bare] \in LinesOf("autostart")
    BY <2>1 DEF LinesOf, Whole, Tails
  <2> QED
    BY <1>2, <2>1, <2>2 DEF AutostartCtl, Autostart, ConfigStep, MountStep, Files
<1>3. ASSUME NEW c \in Callers, TaskStep(c)
      PROVE  ConfigStep /\ MountStep
  BY <1>3 DEF TaskStep, FetchSetting, Remount, Finish, ConfigStep, MountStep, configVars
<1>4. ASSUME NEW c \in Callers, Edit(c)
      PROVE  ConfigStep /\ MountStep
  BY <1>4 DEF Edit, ConfigStep, MountStep
<1>5. ASSUME NEW u \in UUIDs, NEW p \in Paths, MountFs(u, p)
      PROVE  ConfigStep /\ MountStep
  <2>1. UNCHANGED configVars
    BY <1>5 DEF MountFs, configVars
  <2> QED
    BY <1>5, <2>1 DEF ConfigStep, MountStep
<1>6. ASSUME NEW p \in Paths, Unmount(p)
      PROVE  ConfigStep /\ MountStep
  <2>1. UNCHANGED configVars
    BY <1>6 DEF Unmount, configVars
  <2> QED
    BY <1>6, <2>1 DEF ConfigStep, MountStep
<1>7. CASE Crash
  BY <1>7 DEF Crash, ConfigStep, MountStep
<1>8. CASE UNCHANGED vars
  BY <1>8 DEF vars, ConfigStep, MountStep, configVars
<1> QED
  BY <1>1, <1>2, <1>3, <1>4, <1>5, <1>6, <1>7, <1>8 DEF Next

LEMMA TailsFacts == Off \in Tails /\ Bare \in Tails
BY DEF Off, Tails

LEMMA NoTaskType == NoTask \in Tasks
<1>1. Names # {}
  <2>1. PICK u \in UUIDs : TRUE
    BY TextAssumption
  <2>2. <<u, "lower">> \in Names
    BY <2>1 DEF Names, Cases
  <2> QED
    BY <2>2
<1>2. (CHOOSE n \in Names : TRUE) \in Names
  BY <1>1
<1> QED
  BY <1>2, TailsFacts, EmptySeq DEF NoTask, Tasks

LEMMA WantedType ==
  ASSUME NEW lines, lines # <<>> => lines[1] \in Lines
  PROVE  Wanted(lines) \in Tails
BY SettingsAssumption DEF Wanted, Lines, Whole, Torn, Tails

TypeInv == TypeOK /\ TableInv

\* The task of a caller moves on.
LEMMA OneTaskType ==
  ASSUME TypeInv, NEW c \in Callers, NEW t \in Tasks, task' = [task EXCEPT ![c] = t]
  PROVE  task' \in [Callers -> Tasks]
BY DEF TypeInv, TypeOK

LEMMA BeginType ==
  ASSUME TypeInv, NEW c \in Callers, NEW n \in Names, NEW what \in {"fetch", "remount"},
         Begin(c, n, what)
  PROVE  task' \in [Callers -> Tasks]
<1> DEFINE t == [at |-> what, uuid |-> n, todo |-> MountPaths(n), want |-> Off,
                 good |-> TRUE, stayed |-> Range(MountPaths(n))]
<1>1. MountPaths(n) \in Seq(Paths)
  BY MountPathsFacts DEF TypeInv
<1>2. Range(MountPaths(n)) \in SUBSET Paths
  BY <1>1, RangeOfSeq
<1>3. t \in Tasks
  BY <1>1, <1>2, TailsFacts DEF Tasks
<1> QED
  BY <1>3, OneTaskType DEF Begin

LEMMA RemountFacts ==
  ASSUME TypeInv, NEW c \in Callers, Remount(c)
  PROVE  /\ Head(task[c].todo) \in Paths
         /\ \/ /\ MountedAt(Head(task[c].todo)) /\ FsAt(Head(task[c].todo)) \in UUIDs
               /\ option' = [option EXCEPT ![FsAt(Head(task[c].todo))] = Shown(task[c].want)]
               /\ \E good \in {task[c].good, FALSE} : task' = [task EXCEPT ![c] =
                     [task[c] EXCEPT !.todo = Tail(task[c].todo), !.good = good]]
            \/ /\ option' = option
               /\ task' = [task EXCEPT ![c] =
                     [task[c] EXCEPT !.todo = Tail(task[c].todo), !.good = FALSE]]
            \/ /\ option' = option
               /\ task' = [task EXCEPT ![c] =
                     [task[c] EXCEPT !.todo = Tail(task[c].todo),
                                     !.stayed = task[c].stayed \ {Head(task[c].todo)}]]
         /\ Tail(task[c].todo) \in Seq(Paths)
<1> DEFINE p == Head(task[c].todo)
<1>1. task[c] \in Tasks /\ task[c].todo \in Seq(Paths) /\ task[c].todo # <<>>
  BY DEF TypeInv, TypeOK, Tasks, Remount
<1>2. p \in Paths /\ Tail(task[c].todo) \in Seq(Paths)
  BY <1>1, HeadTailProperties
<1>3. MountedAt(p) /\ FsAt(p) # NoFs => FsAt(p) \in UUIDs
  <2>1. \A e \in Range(table) : e.path = p => FsAt(p) = e.fs /\ e.fs \in UUIDs \cup {NoFs}
    BY FsAtTrue, TableFacts DEF TypeInv, Mount
  <2> QED
    BY <2>1 DEF MountedAt
<1>4. \A silent \in BOOLEAN : (task[c].good /\ silent) \in {task[c].good, FALSE}
  BY <1>1 DEF Tasks
<1> QED
  BY <1>1, <1>2, <1>3, <1>4 DEF Remount, TypeInv, TypeOK

LEMMA RemountType ==
  ASSUME TypeInv, NEW c \in Callers, Remount(c)
  PROVE  task' \in [Callers -> Tasks] /\ option' \in [UUIDs -> Tails]
<1>1. /\ task[c] \in Tasks /\ Shown(task[c].want) \in Tails
      /\ option \in [UUIDs -> Tails]
  BY SettingsAssumption DEF TypeInv, TypeOK, Tasks
<1>2. /\ \A good \in {task[c].good, FALSE} :
           [task[c] EXCEPT !.todo = Tail(task[c].todo), !.good = good] \in Tasks
      /\ [task[c] EXCEPT !.todo = Tail(task[c].todo),
                         !.stayed = task[c].stayed \ {Head(task[c].todo)}] \in Tasks
  BY <1>1, RemountFacts DEF Tasks
<1>3. option' \in [UUIDs -> Tails]
  BY <1>1, RemountFacts
<1> QED
  BY <1>2, <1>3, RemountFacts, OneTaskType

LEMMA StepType == TypeInv /\ [Next]_vars => TypeInv'
<1> SUFFICES ASSUME TypeInv, [Next]_vars  PROVE TypeInv'
  OBVIOUS
<1>1. ConfigTypeOK' /\ TableInv'
  BY PartsStep, ConfigType, TableStep DEF TypeInv, TypeOK
<1> USE DEF TypeInv
<1>2. ASSUME NEW c \in Callers, NEW n \in Subjects, CompressCtl(c, n) \/ AutostartCtl(c, n)
      PROVE  option' \in [UUIDs -> Tails] /\ task' \in [Callers -> Tasks]
  <2>1. n \in Names
    BY TextAssumption
  <2>2. CASE Start(c, n) \/ Pause(c, n)
    BY <2>1, <2>2, BeginType DEF Start, Pause, Begin, TypeOK
  <2>3. CASE \/ AutostartCtl(c, n) \/ RemoveSetting(c, n)
             \/ \E r \in Requests : AddSetting(c, n, r)
    BY <2>3 DEF AutostartCtl, RemoveSetting, AddSetting, TypeOK
  <2> QED
    BY <1>2, <2>2, <2>3 DEF CompressCtl
<1>3. ASSUME NEW c \in Callers, TaskStep(c)
      PROVE  option' \in [UUIDs -> Tails] /\ task' \in [Callers -> Tasks]
  <2>1. CASE FetchSetting(c)
    <3> DEFINE lines == FirstLines("compression", task[c].uuid)
               t == [task[c] EXCEPT !.at = "remount", !.want = Wanted(lines)]
    <3>1. Wanted(lines) \in Tails
      BY FirstLinesType, WantedType DEF TypeOK, Files
    <3>2. t \in Tasks
      BY <3>1 DEF TypeOK, Tasks
    <3>3. task' = [task EXCEPT ![c] = t]
      BY <2>1 DEF FetchSetting, TypeOK
    <3> QED
      BY <2>1, <3>2, <3>3, OneTaskType DEF FetchSetting, TypeOK
  <2>2. CASE Remount(c)
    BY <2>2, RemountType
  <2>3. CASE Finish(c)
    BY <2>3, NoTaskType, OneTaskType DEF Finish, TypeOK
  <2> QED
    BY <1>3, <2>1, <2>2, <2>3 DEF TaskStep
<1>4. ASSUME NEW c \in Callers, Edit(c)
      PROVE  option' \in [UUIDs -> Tails] /\ task' \in [Callers -> Tasks]
  BY <1>4 DEF Edit, TypeOK
<1>5. ASSUME NEW u \in UUIDs, NEW p \in Paths, MountFs(u, p)
      PROVE  option' \in [UUIDs -> Tails] /\ task' \in [Callers -> Tasks]
  BY <1>5 DEF MountFs, TypeOK
<1>6. ASSUME NEW p \in Paths, Unmount(p)
      PROVE  option' \in [UUIDs -> Tails] /\ task' \in [Callers -> Tasks]
  <2>1. \A c \in Callers : [task[c] EXCEPT !.stayed = @ \ {p}] \in Tasks
    BY DEF TypeOK, Tasks
  <2> QED
    BY <1>6, <2>1, TailsFacts DEF Unmount, TypeOK
<1>7. ASSUME Crash
      PROVE  option' \in [UUIDs -> Tails] /\ task' \in [Callers -> Tasks]
  BY <1>7, NoTaskType DEF Crash, TypeOK
<1>8. ASSUME UNCHANGED vars
      PROVE  option' \in [UUIDs -> Tails] /\ task' \in [Callers -> Tasks]
  BY <1>8 DEF vars, TypeOK
<1>9. option' \in [UUIDs -> Tails] /\ task' \in [Callers -> Tasks]
  BY <1>2, <1>3, <1>4, <1>5, <1>6, <1>7, <1>8 DEF Next
<1> QED
  BY <1>1, <1>9 DEF TypeOK, TableInv, Mount

LEMMA InitType == Init => TypeInv
<1> SUFFICES ASSUME Init  PROVE TypeInv
  OBVIOUS
<1> DEFINE e == [path |-> PseudoAt, fs |-> NoFs]
<1>1. table = <<e>> /\ e \in Mount
  BY DEF Init, Mount
<1>2. table \in Seq(Mount) /\ Range(table) = {e} /\ DOMAIN table = {1}
  BY <1>1 DEF Range
<1>3. TableInv
  BY <1>2 DEF TableInv
<1> QED
  BY <1>2, <1>3, ConfigInitType, TailsFacts, NoTaskType DEF TypeInv, TypeOK, Init, Mount

\* Every variable keeps its type, for any number of callers; in particular only
\* mount points of filesystems are remounted.
THEOREM TypeCorrect == Spec => []TypeOK
<1>1. TypeInv => TypeOK
  BY DEF TypeInv
<1> QED
  BY <1>1, InitType, StepType, PTL DEF Spec

-----------------------------------------------------------------------------
(* The settings, for any callers. *)

InBounds(t) ==
  \/ t.algo = "zlib" /\ t.level \in 1 .. 9
  \/ t.algo = "zstd" /\ t.level \in -15 .. 15
  \/ t.algo = "lzo"  /\ t.level = 0

LineInBounds(l) == l.name # NoName => InBounds(l.tail)

\* What is about to be written is in bounds as well.
BoundsInv ==
  /\ \A l \in Range(file["compression"]) : LineInBounds(l)
  /\ \A c \in Callers : edit[c].file = "compression" =>
       \A l \in Range(edit[c].lines) : LineInBounds(l)

LEMMA RequestedLevel ==
  ASSUME NEW r \in Requests
  PROVE  Requested(r).level \in Int
<1>1. PresetOf(r).level \in Int
  <2>1. CASE r.preset \cap DOMAIN Presets # {}
    <3> DEFINE p == CHOOSE q \in r.preset \cap DOMAIN Presets : TRUE
    <3>1. p \in DOMAIN Presets
      BY <2>1
    <3>2. \A q \in DOMAIN Presets : Presets[q].level \in Int
      BY DEF Presets
    <3>3. "<default>" \notin DOMAIN Presets
      BY DEF Presets
    <3>4. ~(r.preset \subseteq {"<default>"})
      BY <2>1, <3>3
    <3>5. PresetOf(r) = Presets[p]
      BY <2>1, <3>4 DEF PresetOf
    <3> QED
      BY <3>1, <3>2, <3>5
  <2>2. CASE r.preset \cap DOMAIN Presets = {}
    BY <2>2 DEF PresetOf, Bare
  <2> QED
    BY <2>1, <2>2
<1>2. r.level # {} => (CHOOSE x \in r.level : TRUE) \in Int
  BY RequestAssumption
<1>3. Requested(r).level = Given(r.level, PresetOf(r).level)
  BY DEF Requested
<1> QED
  BY <1>1, <1>2, <1>3 DEF Given

LEMMA ClampInBounds ==
  ASSUME NEW r \in Requests, Requested(r).algo \in Accepted
  PROVE  InBounds(Clamp(Requested(r)))
<1> DEFINE t == Requested(r)
<1>1. t.level \in Int /\ t.algo \in {"zlib", "lzo", "zstd"}
  BY RequestedLevel DEF Accepted
<1>2. DOMAIN t = {"algo", "level"}
  BY DEF Requested
<1> HIDE DEF t
<1>3. /\ Between(1, t.level, 9) \in 1 .. 9
      /\ Between(-15, t.level, 15) \in -15 .. 15
  BY <1>1 DEF Between
<1>4. /\ Clamp(t).algo = t.algo
      /\ Clamp(t).level = CASE t.algo = "zlib" -> Between(1, t.level, 9)
                            [] t.algo = "zstd" -> Between(-15, t.level, 15)
                            [] OTHER           -> 0
  BY <1>2 DEF Clamp
<1>5. InBounds(Clamp(t))
  BY <1>1, <1>3, <1>4 DEF InBounds
<1> QED
  BY <1>5 DEF t

LEMMA ReadBounds ==
  ASSUME TypeInv, BoundsInv, NEW c \in Callers, NEW f \in Files, NEW lines, Read(c, f, lines),
         f = "compression" => \A l \in Range(lines) : LineInBounds(l)
  PROVE  BoundsInv'
<1>1. /\ edit'[c].file = f /\ edit'[c].lines = lines /\ file' = file
      /\ \A d \in Callers \ {c} : edit'[d] = edit[d]
  BY DEF Read, TypeInv, TypeOK, ConfigTypeOK
<1> QED
  BY <1>1 DEF BoundsInv

LEMMA EditBounds ==
  ASSUME TypeInv, BoundsInv, NEW c \in Callers, EditStep(c)
  PROVE  BoundsInv'
<1> DEFINE g == edit[c].file
<1>1. /\ edit[c] \in Edits /\ g \in Files /\ edit[c].lines \in Seq(Lines)
      /\ file \in [Files -> Seq(Lines)] /\ edit \in [Callers -> Edits]
  BY DEF TypeInv, TypeOK, ConfigTypeOK, Edits
<1>2. CASE OpenFails(c)
  BY <1>1, <1>2 DEF OpenFails, BoundsInv, Idle
<1>3. CASE Truncate(c)
  <2>1. /\ edit'[c] = [edit[c] EXCEPT !.at = "truncated"]
        /\ file' = [file EXCEPT ![g] = <<>>]
        /\ \A d \in Callers \ {c} : edit'[d] = edit[d]
    BY <1>1, <1>3 DEF Truncate
  <2>2. edit'[c].file = g /\ edit'[c].lines = edit[c].lines
    BY <1>1, <2>1 DEF Edits
  <2>3. Range(<<>>) = {}
    BY DEF Range
  <2>4. Range(file'["compression"]) \subseteq Range(file["compression"])
    BY <1>1, <2>1, <2>3 DEF Files
  <2> QED
    BY <2>1, <2>2, <2>4 DEF BoundsInv
<1>4. CASE Write(c)
  <2>1. /\ edit'[c].file = "autostart"
        /\ \A d \in Callers \ {c} : edit'[d] = edit[d]
    BY <1>1, <1>4 DEF Write, Idle
  <2> DEFINE new == edit[c].lines
             old == file[g]
  <2>2. PICK lines \in Overlay(g, new, old) : file' = [file EXCEPT ![g] = lines]
    BY <1>4 DEF Write
  <2>3. new \in Seq(Lines) /\ old \in Seq(Lines)
    BY <1>1
  <2>4. Range(lines) \subseteq Range(new) \cup Range(old) \cup {Torn}
    <3> HIDE DEF new, old
    <3> QED
      BY <2>3, OverlayFacts
  <2>5. LineInBounds(Torn)
    BY DEF LineInBounds, Torn
  <2>6. \A l \in Range(file'["compression"]) : LineInBounds(l)
    BY <1>1, <2>2, <2>4, <2>5 DEF BoundsInv, Files
  <2> QED
    BY <2>1, <2>6 DEF BoundsInv
<1> QED
  BY <1>2, <1>3, <1>4 DEF EditStep

LEMMA BoundsSame == BoundsInv /\ UNCHANGED <<file, edit>> => BoundsInv'
BY DEF BoundsInv

LEMMA StepBounds == TypeInv /\ BoundsInv /\ [Next]_vars => BoundsInv'
<1> SUFFICES ASSUME TypeInv, BoundsInv, [Next]_vars  PROVE BoundsInv'
  OBVIOUS
<1>0. file["compression"] \in Seq(Lines) /\ "compression" \in Files /\ "autostart" \in Files
  BY DEF TypeInv, TypeOK, ConfigTypeOK, Files
<1>1. ASSUME NEW c \in Callers, NEW n \in Subjects, CompressCtl(c, n)
      PROVE  BoundsInv'
  <2>1. n \in Names
    BY TextAssumption
  <2>2. CASE Start(c, n) \/ Pause(c, n)
    BY <2>2, BoundsSame DEF Start, Pause, Begin
  <2>3. ASSUME NEW r \in Requests, AddSetting(c, n, r)
        PROVE  BoundsInv'
    <3> DEFINE line == [name |-> n, tail |-> Clamp(Requested(r))]
    <3>1. line \in Lines /\ LineInBounds(line)
      BY <2>1, <2>3, ClampInBounds, SettingsAssumption DEF AddSetting, Lines, Whole, LineInBounds
    <3> HIDE DEF line
    <3>2. \A l \in Range(Added(file["compression"], line)) : LineInBounds(l)
      BY <1>0, <3>1, AddedFacts DEF BoundsInv
    <3>3. Read(c, "compression", Added(file["compression"], line))
      BY <2>3 DEF AddSetting, ReadForAdd, line
    <3> QED
      BY <1>0, <3>2, <3>3, ReadBounds
  <2>4. CASE RemoveSetting(c, n)
    <3>1. \A l \in Range(Removed(file["compression"], n)) : LineInBounds(l)
      BY <1>0, <2>1, RemovedFacts DEF BoundsInv
    <3> QED
      BY <1>0, <2>4, <3>1, ReadBounds DEF RemoveSetting, ReadForRemove
  <2> QED
    BY <1>1, <2>2, <2>3, <2>4 DEF CompressCtl
<1>2. ASSUME NEW c \in Callers, NEW n \in Subjects, AutostartCtl(c, n)
      PROVE  BoundsInv'
  <2>1. PICK lines : Read(c, "autostart", lines)
    BY <1>2 DEF AutostartCtl, Autostart, ReadForAdd, ReadForRemove
  <2> QED
    BY <1>0, <2>1, ReadBounds
<1>3. ASSUME NEW c \in Callers, TaskStep(c)
      PROVE  BoundsInv'
  BY <1>3, BoundsSame DEF TaskStep, FetchSetting, Remount, Finish
<1>4. ASSUME NEW c \in Callers, Edit(c)
      PROVE  BoundsInv'
  BY <1>4, EditBounds DEF Edit
<1>5. ASSUME \/ \E u \in UUIDs, p \in Paths : MountFs(u, p)
             \/ \E p \in Paths : Unmount(p)
             \/ UNCHANGED vars
      PROVE  BoundsInv'
  BY <1>5, BoundsSame DEF MountFs, Unmount, vars
<1>6. CASE Crash
  BY <1>6 DEF Crash, ConfigCrash, BoundsInv, Idle
<1> QED
  BY <1>1, <1>2, <1>3, <1>4, <1>5, <1>6 DEF Next

\* Whatever is asked for, by however many callers, and whatever of two texts is
\* left where edits overlap, the lines of the settings that name a filesystem
\* hold algorithms the kernel knows and levels within their bounds.
THEOREM SettingsAlwaysInBounds == Spec => []SettingsInBounds
<1>1. Init => BoundsInv
  BY DEF Init, ConfigInit, BoundsInv, Idle, Range, Files
<1>2. BoundsInv => SettingsInBounds
  BY DEF BoundsInv, SettingsInBounds, InBounds, LineInBounds
<1> QED
  BY <1>1, <1>2, InitType, StepType, StepBounds, PTL DEF Spec

-----------------------------------------------------------------------------
(* is_running, for any callers. *)

\* Only what is mounted has options: the last unmount drops them.
OptionInv == \A u \in UUIDs : option[u] # Off => Mounted(u)

LEMMA StepOption == TypeInv /\ OptionInv /\ [Next]_vars => OptionInv'
<1> SUFFICES ASSUME TypeInv, OptionInv, [Next]_vars  PROVE OptionInv'
  OBVIOUS
<1>0. OptionInv /\ UNCHANGED <<table, option>> => OptionInv'
  BY DEF OptionInv, Mounted
<1>1. ASSUME NEW c \in Callers, NEW n \in Subjects, CompressCtl(c, n) \/ AutostartCtl(c, n)
      PROVE  OptionInv'
  BY <1>0, <1>1 DEF CompressCtl, AutostartCtl, Start, Pause, Begin, AddSetting, RemoveSetting
<1>2. ASSUME NEW c \in Callers, TaskStep(c)
      PROVE  OptionInv'
  <2>1. CASE FetchSetting(c) \/ Finish(c)
    BY <1>0, <2>1 DEF FetchSetting, Finish
  <2>2. CASE Remount(c)
    <3> DEFINE p == Head(task[c].todo)
    <3>1. table' = table
      BY <2>2 DEF Remount
    <3>2. CASE option' = option
      BY <1>0, <3>1, <3>2
    <3>3. CASE /\ MountedAt(p) /\ FsAt(p) \in UUIDs
               /\ option' = [option EXCEPT ![FsAt(p)] = Shown(task[c].want)]
      <4>1. Mounted(FsAt(p))
        BY <3>3, FsAtTrue DEF MountedAt, Mounted, TypeInv
      <4>2. \A u \in UUIDs : u # FsAt(p) => option'[u] = option[u]
        BY <3>3 DEF TypeInv, TypeOK
      <4> QED
        BY <3>1, <4>1, <4>2 DEF OptionInv, Mounted
    <3> QED
      BY <2>2, <3>2, <3>3, RemountFacts
  <2> QED
    BY <1>2, <2>1, <2>2 DEF TaskStep
<1>3. ASSUME NEW c \in Callers, Edit(c)
      PROVE  OptionInv'
  BY <1>0, <1>3 DEF Edit
<1>4. ASSUME NEW u \in UUIDs, NEW p \in Paths, MountFs(u, p)
      PROVE  OptionInv'
  <2>1. Range(table) \subseteq Range(table')
    BY <1>4, MountTable DEF TypeInv
  <2>2. option' = option
    BY <1>4 DEF MountFs
  <2> QED
    BY <2>1, <2>2 DEF OptionInv, Mounted
<1>5. ASSUME NEW p \in Paths, Unmount(p)
      PROVE  OptionInv'
  <2>1. Range(table') = {e \in Range(table) : e.path # p}
    BY <1>5, UnmountTable DEF TypeInv
  <2>2. \A u \in UUIDs : option'[u] # Off => \E e \in Range(table) : e.fs = u /\ e.path # p
    BY <1>5 DEF Unmount
  <2> QED
    BY <2>1, <2>2 DEF OptionInv, Mounted
<1>6. CASE Crash
  BY <1>0, <1>6 DEF Crash
<1>7. CASE UNCHANGED vars
  BY <1>0, <1>7 DEF vars
<1> QED
  BY <1>1, <1>2, <1>3, <1>4, <1>5, <1>6, <1>7 DEF Next

\* In plain texts the first line that contains a mount point is its own.
LEMMA FirstLineOwn ==
  ASSUME TypeInv, NEW u \in UUIDs, PlainTexts(u),
         NEW i \in DOMAIN table, <<u, table[i].fs>> \in InDevice
  PROVE  table[i].fs = u /\ (CompressedAt(table[i].path) <=> option[u] # Off)
<1> DEFINE p == table[i].path
<1>1. /\ table[i].fs = u
      /\ \A j \in 1 .. i - 1 : <<p, table[j].path>> \notin InText
  BY DEF PlainTexts
<1>2. u # NoFs /\ table[i] \in Mount /\ table[i] \in Range(table)
  BY TextAssumption, TableFacts DEF TypeInv
<1>3. p # PseudoAt
  BY <1>1, <1>2, Zenon DEF TypeInv, TableInv
<1>4. <<p, p>> \in InText
  BY <1>2, <1>3, TextAssumption DEF Mount
<1>5. DOMAIN table = 1 .. Len(table) /\ Len(table) \in Nat
  BY TableFacts DEF TypeInv
<1>6. \A j \in DOMAIN table : <<p, table[j].path>> \in InText => i <= j
  <2>1. \A j \in DOMAIN table : ~(i <= j) => j \in 1 .. i - 1
    BY <1>5
  <2> QED
    BY <1>1, <2>1
<1>7. \A j \in DOMAIN table :
        /\ <<p, table[j].path>> \in InText
        /\ \A k \in DOMAIN table : <<p, table[k].path>> \in InText => j <= k
        => j = i
  <2>1. \A j \in DOMAIN table : j <= i /\ i <= j => j = i
    BY <1>5
  <2> QED
    BY <1>4, <1>6, <2>1
<1>8. FirstLine(p) = i
  BY <1>4, <1>6, <1>7 DEF FirstLine
<1> QED
  BY <1>1, <1>2, <1>4, <1>8 DEF CompressedAt

LEMMA RunningFromInv == TypeInv /\ OptionInv => RunningIsTrue
<1> SUFFICES ASSUME TypeInv, OptionInv, NEW u \in UUIDs, PlainTexts(u)
             PROVE  IsRunning(<<u, "lower">>) <=> option[u] # Off
  BY DEF RunningIsTrue
<1> DEFINE n == <<u, "lower">>
           I == {i \in DOMAIN table : <<u, table[i].fs>> \in InDevice}
<1>1. n \in Names /\ n[1] = u /\ n[2] = "lower"
  BY DEF Names, Cases
<1>2. Range(MountPaths(n)) = {table[i].path : i \in I}
  BY <1>1, MountPathsFacts DEF TypeInv
<1>3. IsRunning(n) <=> \E p \in Range(MountPaths(n)) : CompressedAt(p)
  BY DEF IsRunning, Range
<1>4. IsRunning(n) <=> \E i \in I : CompressedAt(table[i].path)
  BY <1>2, <1>3
<1>5. ASSUME option[u] # Off  PROVE IsRunning(n)
  <2>1. PICK e \in Range(table) : e.fs = u
    BY <1>5 DEF OptionInv, Mounted
  <2>2. PICK i \in DOMAIN table : table[i].fs = u
    BY <2>1, TableFacts DEF TypeInv
  <2>3. <<u, table[i].fs>> \in InDevice
    BY <2>2, TextAssumption
  <2> QED
    BY <1>4, <1>5, <2>3, FirstLineOwn
<1>6. ASSUME IsRunning(n)  PROVE option[u] # Off
  BY <1>4, <1>6, FirstLineOwn
<1> QED
  BY <1>5, <1>6

\* is_running is true exactly while the filesystem compresses, for any callers
\* and any mounts, wherever no text that is looked up is a part of another line.
THEOREM RunningAlwaysTrue == Spec => []RunningIsTrue
<1>1. Init => OptionInv
  BY DEF Init, OptionInv
<1> QED
  BY <1>1, InitType, StepType, StepOption, RunningFromInv, PTL DEF Spec

-----------------------------------------------------------------------------
(* Tasks that do not overlap: what a start that ends well has done. *)

\* One start or pause at a time, of whatever filesystem.  That tasks are of
\* different filesystems is not enough: a mount point that has been given to
\* another filesystem is remounted with the options meant for the first.
TasksApart == \A c, d \in Callers : task[c].at # "idle" /\ task[d].at # "idle" => c = d

\* What stayed mounted waits to be remounted, or has the option already.
StayInv(c) ==
  /\ task[c].at = "idle" => task[c].stayed = {}
  /\ \A p \in task[c].stayed :
       \E e \in Range(table) :
         /\ e.path = p /\ e.fs \in UUIDs
         /\ p \notin Range(task[c].todo) =>
              /\ task[c].at = "remount"
              /\ task[c].good => option[e.fs] = Shown(task[c].want)

EffectInv == \A c \in Callers : StayInv(c)

LEMMA RangeHeadTail ==
  ASSUME NEW S, NEW s \in Seq(S), s # <<>>
  PROVE  Range(s) = {Head(s)} \cup Range(Tail(s))
<1>1. /\ Len(s) \in Nat \ {0} /\ s \in [1 .. Len(s) -> S]
      /\ Head(s) = s[1]
  BY LenProperties, EmptySeq
<1>2. /\ Tail(s) \in Seq(S) /\ Len(Tail(s)) = Len(s) - 1
      /\ \A i \in 1 .. Len(s) - 1 : Tail(s)[i] = s[i + 1]
  BY HeadTailProperties
<1>3. DOMAIN Tail(s) = 1 .. Len(s) - 1
  BY <1>2, LenProperties
<1>4. \A i \in 1 .. Len(s) : i = 1 \/ (i - 1 \in 1 .. Len(s) - 1 /\ s[i] = Tail(s)[i - 1])
  BY <1>1, <1>2
<1>5. \A i \in 1 .. Len(s) - 1 : i + 1 \in 1 .. Len(s) /\ Tail(s)[i] = s[i + 1]
  BY <1>1, <1>2
<1>6. 1 \in 1 .. Len(s) /\ DOMAIN s = 1 .. Len(s)
  BY <1>1
<1>7. ASSUME NEW x \in Range(s)  PROVE x = Head(s) \/ x \in Range(Tail(s))
  <2>1. PICK i \in 1 .. Len(s) : x = s[i]
    BY <1>6 DEF Range
  <2> QED
    BY <1>1, <1>3, <1>4, <2>1 DEF Range
<1>8. ASSUME NEW x \in Range(Tail(s))  PROVE x \in Range(s)
  <2>1. PICK i \in 1 .. Len(s) - 1 : x = Tail(s)[i]
    BY <1>3 DEF Range
  <2> QED
    BY <1>5, <1>6, <2>1 DEF Range
<1>9. Head(s) \in Range(s)
  BY <1>1, <1>6 DEF Range
<1> QED
  BY <1>7, <1>8, <1>9

\* A step that changes neither the task nor the mounts nor the options.
LEMMA EffectSame == EffectInv /\ UNCHANGED <<table, option, task>> => EffectInv'
BY DEF EffectInv, StayInv

\* A step of c that changes no mount and no option.
LEMMA OthersEffect ==
  ASSUME EffectInv, NEW c \in Callers, table' = table, option' = option,
         \A d \in Callers \ {c} : task'[d] = task[d]
  PROVE  \A d \in Callers \ {c} : StayInv(d)'
BY DEF EffectInv, StayInv

LEMMA BeginEffect ==
  ASSUME TypeInv, EffectInv, NEW c \in Callers, NEW n \in Names,
         NEW what \in {"fetch", "remount"}, Begin(c, n, what)
  PROVE  EffectInv'
<1>1. /\ task'[c].todo = MountPaths(n) /\ task'[c].stayed = Range(MountPaths(n))
      /\ task'[c].at = what /\ table' = table /\ option' = option
      /\ \A d \in Callers \ {c} : task'[d] = task[d]
  BY DEF Begin, TypeInv, TypeOK
<1>2. \A p \in Range(MountPaths(n)) : \E e \in Range(table) : e.path = p /\ e.fs \in UUIDs
  BY MountPathsFacts DEF TypeInv
<1>3. StayInv(c)'
  BY <1>1, <1>2 DEF StayInv
<1>4. \A d \in Callers \ {c} : StayInv(d)'
  BY <1>1, OthersEffect
<1> QED
  BY <1>3, <1>4 DEF EffectInv

LEMMA RemountEffect ==
  ASSUME TasksApart, TypeInv, EffectInv, NEW c \in Callers, Remount(c)
  PROVE  EffectInv'
<1> DEFINE t == task[c]
           p == Head(t.todo)
<1>1. /\ t \in Tasks /\ t.todo \in Seq(Paths) /\ t.todo # <<>> /\ t.at = "remount"
      /\ table' = table /\ StayInv(c)
  BY DEF TypeInv, TypeOK, Tasks, Remount, EffectInv
<1>2. Range(t.todo) = {p} \cup Range(Tail(t.todo))
  BY <1>1, RangeHeadTail
<1>5. \A d \in Callers \ {c} : StayInv(d)'
  <2>1. \A d \in Callers \ {c} : task[d].at = "idle" /\ task'[d] = task[d]
    BY <1>1 DEF TasksApart, Remount, TypeInv, TypeOK
  <2> QED
    BY <2>1 DEF EffectInv, StayInv
<1>3. CASE /\ MountedAt(p) /\ FsAt(p) \in UUIDs
           /\ option' = [option EXCEPT ![FsAt(p)] = Shown(t.want)]
           /\ \E good \in {t.good, FALSE} :
                task' = [task EXCEPT ![c] = [t EXCEPT !.todo = Tail(t.todo), !.good = good]]
  <2>0. PICK good \in {t.good, FALSE} :
          task' = [task EXCEPT ![c] = [t EXCEPT !.todo = Tail(t.todo), !.good = good]]
    BY <1>3
  <2>1. /\ task'[c].todo = Tail(t.todo) /\ task'[c].stayed = t.stayed
        /\ task'[c].at = "remount" /\ task'[c].good = good
        /\ task'[c].want = t.want
    BY <1>1, <2>0 DEF Tasks, TypeInv, TypeOK
  <2>2. /\ option'[FsAt(p)] = Shown(t.want)
        /\ \A u \in UUIDs : option[u] = Shown(t.want) => option'[u] = Shown(t.want)
    BY <1>3 DEF TypeInv, TypeOK
  <2>3. ASSUME NEW q \in t.stayed
        PROVE  \E e \in Range(table) :
                 /\ e.path = q /\ e.fs \in UUIDs
                 /\ q \notin Range(Tail(t.todo)) /\ t.good => option'[e.fs] = Shown(t.want)
    <3>1. PICK e \in Range(table) :
            /\ e.path = q /\ e.fs \in UUIDs
            /\ q \notin Range(t.todo) /\ t.good => option[e.fs] = Shown(t.want)
      BY <1>1 DEF StayInv
    <3>2. q = p => e.fs = FsAt(p)
      BY <3>1, FsAtTrue DEF TypeInv
    <3> QED
      BY <1>2, <2>2, <3>1, <3>2
  <2>4. StayInv(c)'
    <3>1. good => t.good
      BY <2>0
    <3> QED
      BY <1>1, <2>1, <2>3, <3>1 DEF StayInv
  <2> QED
    BY <1>5, <2>4 DEF EffectInv
<1>4. CASE task' = [task EXCEPT ![c] = [t EXCEPT !.todo = Tail(t.todo), !.good = FALSE]]
  <2>1. /\ task'[c].stayed = t.stayed /\ task'[c].at = "remount" /\ task'[c].good = FALSE
    BY <1>1, <1>4 DEF Tasks, TypeInv, TypeOK
  <2>2. StayInv(c)'
    BY <1>1, <2>1 DEF StayInv
  <2> QED
    BY <1>5, <2>2 DEF EffectInv
<1>6. CASE /\ option' = option
           /\ task' = [task EXCEPT ![c] = [t EXCEPT !.todo = Tail(t.todo),
                                                    !.stayed = t.stayed \ {p}]]
  <2>1. /\ task'[c].todo = Tail(t.todo) /\ task'[c].stayed = t.stayed \ {p}
        /\ task'[c].at = "remount" /\ task'[c].good = t.good /\ task'[c].want = t.want
    BY <1>1, <1>6 DEF Tasks, TypeInv, TypeOK
  <2>2. StayInv(c)'
    BY <1>1, <1>2, <1>6, <2>1 DEF StayInv
  <2> QED
    BY <1>5, <2>2 DEF EffectInv
<1> QED
  BY <1>3, <1>4, <1>6, RemountFacts

LEMMA StepEffect == TasksApart /\ TypeInv /\ EffectInv /\ [Next]_vars => EffectInv'
<1> SUFFICES ASSUME TasksApart, TypeInv, EffectInv, [Next]_vars  PROVE EffectInv'
  OBVIOUS
<1>0. NoTask.stayed = {}
  BY DEF NoTask
<1>1. ASSUME NEW c \in Callers, NEW n \in Subjects, CompressCtl(c, n) \/ AutostartCtl(c, n)
      PROVE  EffectInv'
  <2>1. n \in Names
    BY TextAssumption
  <2>2. CASE Start(c, n) \/ Pause(c, n)
    BY <2>1, <2>2, BeginEffect DEF Start, Pause
  <2>3. CASE \/ AutostartCtl(c, n) \/ RemoveSetting(c, n)
             \/ \E r \in Requests : AddSetting(c, n, r)
    BY <2>3, EffectSame DEF AutostartCtl, RemoveSetting, AddSetting
  <2> QED
    BY <1>1, <2>2, <2>3 DEF CompressCtl
<1>2. ASSUME NEW c \in Callers, TaskStep(c)
      PROVE  EffectInv'
  <2>1. CASE FetchSetting(c)
    <3>1. /\ task'[c].stayed = task[c].stayed /\ task'[c].todo = task[c].todo
          /\ task'[c].at = "remount" /\ task[c].at = "fetch"
          /\ table' = table /\ option' = option
          /\ \A d \in Callers \ {c} : task'[d] = task[d]
      BY <2>1 DEF FetchSetting, TypeInv, TypeOK, Tasks
    <3>2. StayInv(c)'
      BY <3>1 DEF EffectInv, StayInv
    <3> QED
      BY <3>1, <3>2, OthersEffect DEF EffectInv
  <2>2. CASE Remount(c)
    BY <2>2, RemountEffect
  <2>3. CASE Finish(c)
    <3>1. /\ task'[c] = NoTask /\ table' = table /\ option' = option
          /\ \A d \in Callers \ {c} : task'[d] = task[d]
      BY <2>3 DEF Finish, TypeInv, TypeOK
    <3>2. StayInv(c)'
      BY <1>0, <3>1 DEF StayInv
    <3> QED
      BY <3>1, <3>2, OthersEffect DEF EffectInv
  <2> QED
    BY <1>2, <2>1, <2>2, <2>3 DEF TaskStep
<1>3. ASSUME NEW c \in Callers, Edit(c)
      PROVE  EffectInv'
  BY <1>3, EffectSame DEF Edit
<1>4. ASSUME NEW u \in UUIDs, NEW p \in Paths, MountFs(u, p)
      PROVE  EffectInv'
  <2>1. Range(table) \subseteq Range(table')
    BY <1>4, MountTable DEF TypeInv
  <2>2. option' = option /\ task' = task
    BY <1>4 DEF MountFs
  <2> QED
    BY <2>1, <2>2 DEF EffectInv, StayInv
<1>5. ASSUME NEW p \in Paths, Unmount(p)
      PROVE  EffectInv'
  <2>1. Range(table') = {e \in Range(table) : e.path # p}
    BY <1>5, UnmountTable DEF TypeInv
  <2>2. \A u \in UUIDs : (\E e \in Range(table) : e.fs = u /\ e.path # p) => option'[u] = option[u]
    BY <1>5 DEF Unmount
  <2>3. ASSUME NEW c \in Callers
        PROVE  StayInv(c)'
    <3>1. /\ task'[c].stayed = task[c].stayed \ {p} /\ task'[c].todo = task[c].todo
          /\ task'[c].at = task[c].at /\ task'[c].good = task[c].good
          /\ task'[c].want = task[c].want
      BY <1>5 DEF Unmount, TypeInv, TypeOK, Tasks
    <3>2. StayInv(c)
      BY DEF EffectInv
    <3> QED
      BY <2>1, <2>2, <3>1, <3>2 DEF StayInv
  <2> QED
    BY <2>3 DEF EffectInv
<1>6. CASE Crash
  BY <1>0, <1>6 DEF Crash, EffectInv, StayInv
<1>7. CASE UNCHANGED vars
  BY <1>7, EffectSame DEF vars
<1> QED
  BY <1>1, <1>2, <1>3, <1>4, <1>5, <1>6, <1>7 DEF Next

LEMMA EffectFromInv == TypeInv /\ EffectInv => GoodTakesEffect
<1> SUFFICES ASSUME TypeInv, EffectInv, NEW c \in Callers,
                    task[c].at = "remount", task[c].todo = <<>>, task[c].good,
                    NEW p \in task[c].stayed
             PROVE  option[FsAt(p)] = Shown(task[c].want)
  BY DEF GoodTakesEffect
<1>1. p \notin Range(task[c].todo)
  BY DEF Range
<1>2. PICK e \in Range(table) : e.path = p /\ option[e.fs] = Shown(task[c].want)
  BY <1>1 DEF EffectInv, StayInv
<1> QED
  BY <1>2, FsAtTrue DEF TypeInv

\* While tasks do not overlap, a start or a pause that ends well has put its
\* option into effect wherever the filesystem stayed mounted and mount could be
\* run.  The files may be edited meanwhile.
THEOREM GoodAlwaysTakesEffect == Spec /\ []TasksApart => []GoodTakesEffect
<1>1. Init => EffectInv
  BY DEF Init, EffectInv, StayInv, NoTask
<1> QED
  BY <1>1, InitType, StepType, StepEffect, EffectFromInv, PTL DEF Spec

-----------------------------------------------------------------------------
(* Edits that do not overlap: the files. *)

\* While the edits of a file do not overlap no name, spelt as it is, has two
\* lines in it, and no line is torn.
THEOREM OneLineAlways == Spec /\ []EditsApart => []OneLinePerName
<1>1. Init => ConfigInv
  BY ConfigInitInv DEF Init
<1>2. EditsApart /\ ConfigInv /\ [Next]_vars => ConfigInv'
  BY ConfigStepInv, PartsStep
<1> QED
  BY <1>1, <1>2, ConfigInvOneLine, PTL DEF Spec

\* While the edits of a file do not overlap each of them is one operation on a
\* set of lines, a removal of settings is none, and a crash loses the files that
\* were being written and no other.
THEOREM FilesImplementSets == Spec /\ []EditsApart => ImplementsConfigSet
<1>1. Init => ConfigInv /\ Abstract!Init
  BY ConfigInitInv, ConfigInitRefines DEF Init
<1>2. EditsApart /\ ConfigInv /\ [Next]_vars => ConfigInv' /\ [Abstract!Next]_Entries
  BY ConfigStepInv, ConfigStepRefines, PartsStep
<1> QED
  BY <1>1, <1>2, PTL DEF Spec, ImplementsConfigSet, Abstract!Spec

=============================================================================
