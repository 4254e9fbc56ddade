----------------------- MODULE TransparentCompression -----------------------
(***************************************************************************)
(* Transparent compression (src/core/management/transparentcompression.cpp,*)
(* remount_in_place of filesystems.cpp, the clause compressctl): settings  *)
(* kept in a configuration file, put into effect by remounting every mount *)
(* point of a filesystem, and read back from /proc/mounts.                 *)
(*                                                                         *)
(* Mount points and devices are looked up as texts contained in lines of   *)
(* /proc/mounts.  InText and InDevice say which texts are parts of others: *)
(* "/" is a part of every line, /dev/sda1 of the lines of /dev/sda10.      *)
(***************************************************************************)
EXTENDS ConfigFile

CONSTANTS
  Paths,    \* mount points
  InText,   \* <<p, q>>: the text p occurs in the line of the mount point q
  InDevice, \* <<u, v>>: the device name of u occurs in that of v
  PseudoAt, \* where a filesystem without UUID is mounted before all others
  NoFs,     \* the UUID of such a filesystem
  Requests, \* what compressctl --add is called with
  Subjects  \* the names the clauses are called for

ASSUME TextAssumption ==
  /\ UUIDs # {}
  /\ InText \subseteq (Paths \cup {PseudoAt}) \X (Paths \cup {PseudoAt})
  /\ \A p \in Paths : <<p, p>> \in InText
  /\ InDevice \subseteq UUIDs \X UUIDs
  /\ \A u \in UUIDs : <<u, u>> \in InDevice
  /\ NoFs \notin UUIDs /\ PseudoAt \notin Paths
  /\ Subjects \subseteq Names

\* The options --compression-level, --algorithm and --level; a set is empty
\* when the option is not given.
ASSUME RequestAssumption ==
  \A r \in Requests : /\ Cardinality(r.preset) <= 1
                      /\ Cardinality(r.algo) <= 1
                      /\ Cardinality(r.level) <= 1 /\ r.level \subseteq Int

VARIABLES
  table,   \* /proc/mounts, in its order
  option,  \* [UUIDs -> the compress option of the mounted filesystem]
  task     \* [Callers -> the start or the pause the caller is in]

vars == <<file, edit, table, option, task>>

MountedAt(p) == \E e \in Range(table) : e.path = p
FsAt(p)      == (CHOOSE e \in Range(table) : e.path = p).fs
Mounted(u)   == \E e \in Range(table) : e.fs = u

-----------------------------------------------------------------------------
(* The settings. *)

Presets == [feather  |-> [algo |-> "lzo",  level |-> 0],
            light    |-> [algo |-> "zstd", level |-> 1],
            balanced |-> [algo |-> "zstd", level |-> 3],
            high     |-> [algo |-> "zstd", level |-> 6],
            harder   |-> [algo |-> "zstd", level |-> 10],
            maximum  |-> [algo |-> "zstd", level |-> 15]]

\* An unknown preset means lzo, "<default>" that nothing is said.
PresetOf(r) ==
  CASE r.preset \cap DOMAIN Presets # {} -> Presets[CHOOSE p \in r.preset \cap DOMAIN Presets : TRUE]
    [] r.preset \subseteq {"<default>"}  -> Bare
    [] OTHER                             -> [algo |-> "lzo", level |-> 0]

Given(options, otherwise) ==
  IF options = {} THEN otherwise ELSE CHOOSE x \in options : TRUE

\* compressctl: a preset, overridden by the algorithm and the level.
Requested(r) ==
  LET algo == Given(r.algo, PresetOf(r).algo)
  IN  [algo  |-> IF algo \in {"", "<default>"} THEN "lzo" ELSE algo,
       level |-> Given(r.level, PresetOf(r).level)]

Accepted == {"zlib", "lzo", "zstd"}

Between(lo, level, hi) == IF level < lo THEN lo ELSE IF level > hi THEN hi ELSE level

\* A defect, for a mutant: only the upper bounds are looked at.
ClampAbove(t) ==
  [t EXCEPT !.level = CASE t.algo = "zlib" /\ @ > 9  -> 9
                        [] t.algo = "zstd" /\ @ > 15 -> 15
                        [] t.algo = "lzo"            -> 0
                        [] OTHER                     -> @]

\* tc::add_uuid normalises the level.
Clamp(t) ==
  [t EXCEPT !.level = CASE t.algo = "zlib" -> Between(1, @, 9)
                        [] t.algo = "zstd" -> Between(-15, @, 15)
                        [] OTHER           -> 0]

\* What tc::start makes of a line: lzo when nothing is said.
Wanted(lines) ==
  IF lines = <<>> \/ lines[1].tail = Bare
  THEN [algo |-> "lzo", level |-> 0]
  ELSE lines[1].tail

\* What the kernel shows of a compress option; compress=none is shown as none.
Off == Bare
Shown(t) ==
  IF t.algo \in {"zlib", "zstd"} /\ t.level = 0 THEN [t EXCEPT !.level = 3] ELSE t

\* Algorithms and Levels have what the clause writes and what the kernel shows.
ASSUME SettingsAssumption ==
  /\ [algo |-> "lzo", level |-> 0] \in Tails
  /\ \A r \in Requests : Requested(r).algo \in Accepted => Clamp(Requested(r)) \in Tails
  /\ \A t \in Tails : Shown(t) \in Tails

-----------------------------------------------------------------------------
(* Lookups in /proc/mounts. *)

\* Another defect: the mount points of all filesystems.
AllMountPaths(n) == [i \in DOMAIN table |-> table[i].path]

\* get_mount_paths: the UUID as it is typed must exist in /dev/disk/by-uuid,
\* and every line that contains its device counts.
MountPaths(n) ==
  LET mine == Pick(table, {i \in DOMAIN table :
                             n[2] = "lower" /\ <<n[1], table[i].fs>> \in InDevice})
  IN  [i \in DOMAIN mine |-> mine[i].path]

\* Another defect: only the last line that contains the mount point is read.
LastLine(p) == CHOOSE i \in DOMAIN table :
  /\ <<p, table[i].path>> \in InText
  /\ \A j \in DOMAIN table : <<p, table[j].path>> \in InText => j <= i

\* The first line that contains the mount point; the second text that is
\* looked for, "compress=", is found in no line, for it is compared with
\* whole names of options and the options of a mount are one token.
FirstLine(p) == CHOOSE i \in DOMAIN table :
  /\ <<p, table[i].path>> \in InText
  /\ \A j \in DOMAIN table : <<p, table[j].path>> \in InText => i <= j

\* get_current_compression_level of a mount point has an algorithm.
CompressedAt(p) ==
  /\ \E i \in DOMAIN table : <<p, table[i].path>> \in InText
  /\ LET u == table[FirstLine(p)].fs IN u # NoFs /\ option[u] # Off

IsRunning(n) == \E i \in DOMAIN MountPaths(n) : CompressedAt(MountPaths(n)[i])

-----------------------------------------------------------------------------
(* Tasks: start and pause of one filesystem. *)

NoTask == [at |-> "idle", uuid |-> CHOOSE n \in Names : TRUE, todo |-> <<>>,
           want |-> Off, good |-> TRUE, stayed |-> {}]

Free(c) == edit[c] = Idle /\ task[c].at = "idle"

\* The mount points are resolved; without any, start fails and pause succeeds.
\* stayed is the history of this task: the mount points of the filesystem that
\* have been mounted since it resolved them, but for those for which mount could
\* not be run.
Begin(c, n, what) ==
  /\ Free(c)
  /\ MountPaths(n) # <<>>
  /\ task' = [task EXCEPT ![c] =
       [at |-> what, uuid |-> n, todo |-> MountPaths(n), want |-> Off,
        good |-> TRUE, stayed |-> Range(MountPaths(n))]]
  /\ UNCHANGED <<file, edit, table, option>>

Start(c, n) == Begin(c, n, "fetch")
Pause(c, n) == Begin(c, n, "remount")

\* tc::start reads the settings.
FetchSetting(c) ==
  /\ task[c].at = "fetch"
  /\ task' = [task EXCEPT ![c].at = "remount",
       ![c].want = Wanted(FirstLines("compression", task[c].uuid))]
  /\ UNCHANGED <<file, edit, table, option>>

\* A defect: the first mount point is done again and again.
RemountFirst(c) ==
  /\ task[c].at = "remount" /\ task[c].todo # <<>>
  /\ MountedAt(Head(task[c].todo))
  /\ option' = [option EXCEPT ![FsAt(Head(task[c].todo))] = Shown(task[c].want)]
  /\ UNCHANGED <<file, edit, table, task>>

\* Another: what mount says on stderr is not counted.
RemountIgnoresErrors(c) ==
  /\ task[c].at = "remount" /\ task[c].todo # <<>>
  /\ task' = [task EXCEPT ![c].todo = Tail(@)]
  /\ LET p == Head(task[c].todo)
     IN  \/ /\ MountedAt(p) /\ FsAt(p) # NoFs
            /\ option' = [option EXCEPT ![FsAt(p)] = Shown(task[c].want)]
         \/ UNCHANGED option
  /\ UNCHANGED <<file, edit, table>>

\* remount_in_place, one mount point: mount -o remount,compress=... on what is
\* mounted there now.  A text on stderr is a failure, a warning too.  The
\* predicate that may skip it never does: what it reads back carries the options
\* that follow.  Without a pipe, a fork or an exec nothing is run and nothing is
\* on stderr.
Remount(c) ==
  /\ task[c].at = "remount" /\ task[c].todo # <<>>
  /\ LET p == Head(task[c].todo)
     IN  \/ /\ MountedAt(p) /\ FsAt(p) # NoFs
            /\ option' = [option EXCEPT ![FsAt(p)] = Shown(task[c].want)]
            /\ \E silent \in BOOLEAN :
                 task' = [task EXCEPT ![c].todo = Tail(@), ![c].good = @ /\ silent]
         \/ /\ task' = [task EXCEPT ![c].todo = Tail(@), ![c].good = FALSE]
            /\ UNCHANGED option
         \/ /\ task' = [task EXCEPT ![c].todo = Tail(@), ![c].stayed = @ \ {p}]
            /\ UNCHANGED option
  /\ UNCHANGED <<file, edit, table>>

\* The task is over; good is what remount_in_place has returned.
Finish(c) ==
  /\ task[c].at = "remount" /\ task[c].todo = <<>>
  /\ task' = [task EXCEPT ![c] = NoTask]
  /\ UNCHANGED <<file, edit, table, option>>

TaskStep(c) == FetchSetting(c) \/ Remount(c) \/ Finish(c)

-----------------------------------------------------------------------------
(* compressctl, for one of its subjects. *)

AddSetting(c, n, r) ==
  /\ Free(c)
  /\ Requested(r).algo \in Accepted
  /\ ReadForAdd(c, "compression", [name |-> n, tail |-> Clamp(Requested(r))])
  /\ UNCHANGED <<table, option, task>>

RemoveSetting(c, n) ==
  /\ Free(c)
  /\ ReadForRemove(c, "compression", n)
  /\ UNCHANGED <<table, option, task>>

CompressCtl(c, n) ==
  \/ Start(c, n)
  \/ Pause(c, n)
  \/ \E r \in Requests : AddSetting(c, n, r)
  \/ RemoveSetting(c, n)

AutostartCtl(c, n) ==
  /\ Free(c)
  /\ Autostart(c, n)
  /\ UNCHANGED <<table, option, task>>

Edit(c) == EditStep(c) /\ UNCHANGED <<table, option, task>>

-----------------------------------------------------------------------------
(* The environment. *)

MountFs(u, p) ==
  /\ ~MountedAt(p)
  /\ table' = Append(table, [path |-> p, fs |-> u])
  /\ UNCHANGED <<file, edit, option, task>>

\* With its last mount a filesystem loses its options.
Unmount(p) ==
  /\ MountedAt(p) /\ FsAt(p) # NoFs
  /\ table' = Pick(table, {i \in DOMAIN table : table[i].path # p})
  /\ option' = [u \in UUIDs |->
       IF \E e \in Range(table) : e.fs = u /\ e.path # p THEN option[u] ELSE Off]
  /\ task' = [c \in Callers |-> [task[c] EXCEPT !.stayed = @ \ {p}]]
  /\ UNCHANGED <<file, edit>>

Crash ==
  /\ ConfigCrash
  /\ task' = [c \in Callers |-> NoTask]
  /\ UNCHANGED <<table, option>>

Init ==
  /\ ConfigInit
  /\ table = <<[path |-> PseudoAt, fs |-> NoFs]>>
  /\ option = [u \in UUIDs |-> Off]
  /\ task = [c \in Callers |-> NoTask]

Next ==
  \/ \E c \in Callers :
       \/ \E n \in Subjects : CompressCtl(c, n) \/ AutostartCtl(c, n)
       \/ TaskStep(c)
       \/ Edit(c)
  \/ \E u \in UUIDs, p \in Paths : MountFs(u, p)
  \/ \E p \in Paths : Unmount(p)
  \/ Crash

\* A thread goes on with what it has begun.
Fairness == \A c \in Callers : WF_vars(TaskStep(c)) /\ WF_vars(Edit(c))

Spec == Init /\ [][Next]_vars /\ Fairness

-----------------------------------------------------------------------------
Tasks == [at : {"idle", "fetch", "remount"}, uuid : Names, todo : Seq(Paths),
          want : Tails, good : BOOLEAN, stayed : SUBSET Paths]

(* The types of the variables; what is to be remounted is a real mount point.*)
TypeOK ==
  /\ ConfigTypeOK
  /\ table \in Seq([path : Paths \cup {PseudoAt}, fs : UUIDs \cup {NoFs}])
  /\ option \in [UUIDs -> Tails]
  /\ task \in [Callers -> Tasks]

(* transparentcompression.cpp:27-36: a line of the settings that names a     *)
(* filesystem has an algorithm the kernel knows and a level within its       *)
(* bounds, whatever was asked for and however edits overlap.                 *)
SettingsInBounds ==
  \A l \in {l \in Range(file["compression"]) : l.name # NoName} :
    \/ l.tail.algo = "zlib" /\ l.tail.level \in 1 .. 9
    \/ l.tail.algo = "zstd" /\ l.tail.level \in -15 .. 15
    \/ l.tail.algo = "lzo"  /\ l.tail.level = 0

\* No line before its own contains a mount point of u, no other device its device.
PlainTexts(u) ==
  \A i \in DOMAIN table : <<u, table[i].fs>> \in InDevice =>
    /\ table[i].fs = u
    /\ \A j \in 1 .. i - 1 : <<table[i].path, table[j].path>> \notin InText

(* is_running (transparentcompression.cpp:215-227) is true if and only if    *)
(* the filesystem compresses, as long as no text that is looked up for it    *)
(* is a part of another line.                                                *)
RunningIsTrue ==
  \A u \in UUIDs : PlainTexts(u) => (IsRunning(<<u, "lower">>) <=> option[u] # Off)

(* A start or a pause that ends well has put the option it wanted into       *)
(* effect at every mount point that stayed mounted meanwhile and that mount  *)
(* could be run for.  filesystems.cpp:178-179 promises it without the last   *)
(* condition, but a mount that never ran has left stderr empty, and that is  *)
(* all line 273 looks at.                                                    *)
GoodTakesEffect ==
  \A c \in Callers :
    task[c].at = "remount" /\ task[c].todo = <<>> /\ task[c].good =>
      \A p \in task[c].stayed : option[FsAt(p)] = Shown(task[c].want)

(* Every edit, every start and every pause ends.                             *)
OperationsEnd == \A c \in Callers : ~Free(c) ~> Free(c)

=============================================================================
