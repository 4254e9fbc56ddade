# A verification development for beekeeper-qt

beekeeper-qt manages the bees deduplication daemon on btrfs filesystems. A
privileged helper, activated over D-Bus, starts and stops the daemon, mounts
with transparent compression and watches the disks; a Qt application and a
command-line client ask it to. This directory holds TLA+ modules of the parts
of it that run concurrently, the TLC configurations that check them on small
instances, and proofs, checked by TLAPS, of what holds for every size.

To repeat a run: `tlc -config MCDiskWait.cfg MCDiskWait` (the module of each
configuration is in `PROJECT.json`). To repeat the proofs:
`tlapm BeesLifecycleProofs.tla`, `tlapm BeesFilesProofs.tla`,
`tlapm DiskWaitProofs.tla`, `tlapm SubsequenceProofs.tla`,
`tlapm ConfigFileProofs.tla`, `tlapm CompressionProofs.tla`,
`tlapm RefreshTableProofs.tla`, `tlapm RootShellProofs.tla`.

## 1. The system

File names are relative to the repository; `core/` stands for `src/core/`.

| part | state it keeps | operations | who else touches it |
|---|---|---|---|
| bees life cycle: `core/management/beesdmgmt.cpp`, `pidfilemgmt.cpp`, `logging.cpp` | processes, `/run/bees/beesd-<uuid>.pid`, `startingfreespace`; no lock | `beesstart`, `beesstop`, `beesrestart`, `beesstatus`, `beescleanlogfiles` | every thread of the helper's pool, the udev thread, every command-line process |
| filesystem lookup: `core/management/filesystems.cpp` | none: `/dev/disk/by-uuid`, `/proc/mounts` | `get_real_device`, `get_mount_paths`, `get_space`, `remount_in_place` | the kernel changes what it reads |
| filesystem configuration: `core/management/btrfsetup.cpp` | `/etc/bees/*.conf` | `beessetup`, `btrfstat`, removal by `setup --remove` | administrators, pool threads |
| configuration files: `core/management/configfile.cpp`, `include/beekeeper/beesdmgmt.hpp` | the autostart and the transparent compression file | `add`, `remove_line_matching_substring`, `is_present`, `fetch` | pool threads, udev thread, command line; no lock |
| transparent compression: `core/management/transparentcompression.cpp` | mount options | `start`, `pause`, `add_uuid`, `remove_uuid`, `is_running` | udev thread, pool threads |
| disk watcher: `src/polkit/diskwait.cpp` | queue (mutex), set of started filesystems (mutex), two atomics | initial scan, udev loop, coalesced refresh of the libblkid cache, queue worker | three threads share it |
| clauses: `core/clauses/` | none | `start`, `stop`, `restart`, `status`, `clean`, `setup`, `list`, `stat`, `autostartctl`, `compressctl` | helper and command line |
| helper: `src/polkit/masterservice.cpp` | worker pool, delayed replies | `execute_clause`, `whoami` | systemd restarts it on failure |
| command execution: `core/utils/commands.cpp` | pipes, child processes | `exec_command_shell`, `exec_commandv` | other threads open descriptors meanwhile |
| root shell: `src/polkit/superlaunch.cpp`, `src/gui/rootshellthread.cpp` | `root_alive`, a mutex, the D-Bus interface | `start_root_shell`, `ping_helper`, `call_bk_future` | GUI thread and root thread |
| supercommander: `src/polkit/supercommander.cpp` | none | typed futures over `call_bk_future` | GUI |
| GUI table: `src/gui/refreshtable.cpp`, `mainwindow.cpp`, `buttonhandlers.cpp` | the table, `fs_view_state`, `is_being_refreshed` | full and soft refresh, optimistic update, handlers | GUI thread, pool thread, futures |
| the rest: strings, files, metrics, delegates, help, keyboard, translations, packaging | no shared state | | |

The calls go from the GUI through the supercommander and the root thread over
D-Bus to the helper, which runs each clause in a thread of its pool; the
clauses call the management functions. The disk watcher is a thread of the same
helper and calls `beesstart` and `tc::start` itself. Everything these callers
share on the machine, that is processes, PID files, configuration files and
mounts, is read and changed by separate system calls without a lock.

What makes each part correct:

* life cycle: at most one worker of bees for a filesystem; a stop that reports
  success leaves nothing running and leaves the processes of other filesystems
  alone; PID files name processes of their own filesystem, except where texts or
  PIDs are taken for each other; every operation ends;
* disk watcher: one refresh of the cache at a time, no request for one lost;
  one autostart for a filesystem; filesystems that are there at the start are
  served; what is unmounted leaves the queue;
* configuration files: an edit changes the lines it is about and no others, and
  is not undone by a concurrent one; settings are such as the kernel accepts;
* compression: a start that reports success has taken effect at every mount
  point, and the answer of `is_running` is true;
* commands: each descriptor is closed once, each child reaped, every call ends;
* root shell and helper: a call takes effect at most once and is answered exactly
  once; a caller that reads the answer hears of success only after the effect;
  no accepted clause is dropped and nobody waits for ever;
* GUI: the table comes to show what the helper reported last, and an
  optimistic update is confirmed or corrected.

What is hard here is concurrency without locks (life cycle, configuration
files), checks that are stale when used (status, PID, mount paths), hand-over
between threads (refresh flag, queue, table), crash and restart of the helper,
and the bounded waits. `PROJECT.json` lists each hazard at its line.

## 2. Modules

| module | what it is |
|---|---|
| `BeesLifecycle` | the five operations, step by step, for any set of callers and filesystems |
| `BeesSlots` | abstract specification: what the operations promise about processes |
| `MCBeesLifecycle` | `BeesLifecycle` with a bound on the requests, for TLC |
| `BeesLifecycleProofs` | types, one worker for each caller and for callers that do not collide, refinement of `BeesSlots` |
| `BeesFilesProofs` | what PID files can name, what is killed, what a stop kills, what drops a live PID file |
| `DiskWait` | the disk watcher: its thread, the refresh jobs, the queue worker, the world |
| `MCDiskWait` | `DiskWait` with a bound on what the world does, for TLC |
| `DiskWaitProofs` | types, exclusion of refreshes, one autostart |
| `ConfigFile` | the two configuration files and their edits: read, truncate, write |
| `ConfigSet` | abstract specification: files as sets of lines that change at once |
| `ConfigFileProofs` | what an edit makes of a file, one line for a name, refinement of `ConfigSet`: lemmas |
| `TransparentCompression` | extends `ConfigFile`: settings, remounting, `/proc/mounts`, `compressctl` |
| `MCTransparentCompression` | an instance with names and paths that are parts of each other; histories of what was added |
| `CompressionProofs` | types, settings, `is_running`, starts that took effect, and the theorems about the files |
| `RootShell` | window, root thread, bus, helper and its pool, the wrappers of the supercommander: what becomes of a call |
| `BusCalls` | abstract specification: at most one effect, exactly one answer |
| `MCRootShell` | `RootShell` with a bound on the deaths of the helper |
| `RootShellProofs` | types, real success, no lost call, refinement of `BusCalls` |
| `RefreshTable` | the table of the window: refreshes, clicks, dialogs, batches of calls |
| `MCRefreshTable` | `RefreshTable` with a budget of clicks and outside events |
| `RefreshTableProofs` | exclusion of refreshes, truth of the snapshot, types, rows, the question of the Remove button |
| `Subsequences` | `Pick`, the part of a sequence at some places: `SelectSeq` without recursion |
| `SubsequenceProofs` | what `Pick` returns, and induction over numbers as a statement about sets: lemmas |

`MCTransparentCompression` composes the settings, the files and the mounts.
`RefreshTable` takes a call as carried out in one step or failed, at any time;
`RootShell` is what stands behind that step, and `BeesLifecycle` and
`TransparentCompression` what stands behind its effect. They are checked apart,
because what one shows the other is small: an outcome the window does not look at.

Some definitions carry a comment that begins with "Defect". They are
plausible mistakes in the definition that follows them, used to test that a
property notices; no specification uses them.

### BeesLifecycle

A *caller* is whoever runs an operation: a pool thread, the udev thread or a
command-line process. `pc[c]` is the place it has reached, `op[c]` the
operation it was asked for and `routine[c]` the function it is in (`beesrestart`
calls `beesstop` and then `beesstart`; each of them, and
`beescleanlogfiles`, calls `beesstatus`, whose steps are shared and whose answer
`StatusIs` hands to the function that asked). `held`, `todo`, `snap` and `polls`
are the local variables of the functions. One action is one system call, or one
turn of a loop, that reads or writes what callers share:

| code | actions |
|---|---|
| `beesstatus` | `ReadPidfile`, `ProbePid` (`kill(pid, 0)`, removes a dead file), `ScanWorkers`, `Adopt`, `Judge` |
| `beesstart` | `CheckConfig`, status, `Grab` and `KillRest`/`KeepFirst` (`grab_one_beesd_process_and_kill_the_rest`), `Launch` or `LaunchFails`, `PollWorker` (`wait_for_bees_worker`), `Rescan`, `WritePid`, `Baseline` |
| `beesstop` | status, `ListProcesses`, `Terminate`/`AwaitExit` for each process, `CleanPidfile` |
| `beescleanlogfiles` | status, `CleanPidfile` |
| outside `src/` | `SpawnWorker`, `Exit`, `Recycle` (a PID is given out again), `Mount`, `Unmount`; `Crash` of a caller |
| setup clause | `Setup`, `RemoveConfig` |

`kind[p]` says what runs under a PID (`launcher` is beesd before its worker
appears, `parent` beesd afterwards), `birth[p]` for which filesystem and by which
caller it was launched (nobody, once `Recycle` has given the PID to a stranger:
`Reborn`), `doomed` which processes have SIGKILL pending. A `ps` listing is a set
treated in the order of PIDs.

The code finds a worker by texts: the device of the UUID as a part of the lines of
`/proc/mounts`, and then the first of the mount paths as a part of the lines of
`ps`. `InDevice` and `PathIn` say which devices and paths are parts of which
others (`/dev/sda1` of `/dev/sda10`, `/data` of `/data2`), `RootMounted` who is
mounted at `/`, which is a part of every line. `Looked(u)` are the filesystems whose
mount lines are found for `u`, `WorkersAt(v)` the processes found for the path of
`v`, `WorkerListings(u)` the listings that are possible, one for each filesystem
whose line may come first.

What is abstracted, and why that is sound for the properties:

* callers are root, as the helper is: the refusal at the top of `beesstop` is out;
* the 50 ms, 200 ms, 5 s and 15 s of the waits are no times: a wait ends by the
  event or by its limit, whichever the interleaving brings first;
* SIGTERM has no effect of its own, since a process may exit at any moment;
  SIGKILL marks the process until it exits;
* the double fork and the `exec` of beesd are one step: between them the child
  does not show in the listing, so the code's race is, if anything, wider;
* a PID file is written in one step. The code truncates and then writes; a
  reader in between takes the file for stale and removes it, which in the model
  another caller's `CleanPidfile` does;
* zombies are not modelled (launches are double-forked, so init reaps them);
* the log file is never filled by the code, so its removal is left out;
* the rewriting of a configuration file by `setup` is `RemoveConfig` then `Setup`;
* a listing by UUID (`ProcessLines`) finds beesd by its argument and the worker too,
  because the UUID and the mount path are in the worker's command line (external);
* `ps` succeeds and `/proc/mounts` can be read. With an empty or failed `ps` the code
  takes the filesystem for stopped, as it does in the window of finding 2;
* a PID comes back for a program that has nothing to do with bees; that it comes
  back for another beesd is left out. Unrelated programs with `bees` and a mount
  path in their command line are left out too;
* the order of the mount lines is left open, and may be another at each lookup.

### DiskWait

`dpc` is the place of the diskwait thread, in the initial scan
(`boot`, `sync`, `next`, ...), at the monitor, or in the event loop; the steps on one
filesystem (`Examine`, `Autostart`, `Enqueue`, `Remount`) are written once for
`process_existing_mounts` and for the loop, which have them twice, and `Done`
goes back to the one that is active. `job[j]` is the place of each refresh job
submitted by `QtConcurrent::run`: `queued` until the pool has a thread, then
`load`, `refresh`, `check`, `release`. `wpc`, `wtodo`, `wcur` are the queue worker.
`Bump` and `Claim` are the two atomic operations of
`async_refresh_libblkid_cache`; `LoadGeneration`, `CheckGeneration` and `Release`
those of the job. `calls` and `covered` are history variables: they are written
and never read by the actions.

The world plugs, unplugs, mounts and unmounts disks, begins edits of the two files,
and kills the helper, which systemd restarts. udev tells of disks and not of
mounts, and nobody is told while the monitor is off. An edit is a `Truncate` and,
later, a `WriteBack` by a thread of the helper (`Clause`); in between a reader
finds nothing (`Enabled`), and a crash leaves the file empty. Devices are looked up
as parts of mount lines (`InDevice`, `Looked`): as long as `/dev/sda10` is mounted,
`/dev/sda1` has mount paths, and its turn remounts those of the other. What is
abstracted: the directory listing of the scan is taken at once; `beesstart` is
one call whose outcome is ignored, as the code ignores it; the order within the
queue; edits of one file that overlap, which are in `ConfigFile`; a refresh that
cannot get at the libblkid cache, which counts as one, since the code does not
tell it apart either; the relaxed memory order of the counter, which on one atomic loses
nothing the model has; `worker_stop` and `~diskwait`, because `main` never
destroys the object (`masterservice.cpp:193`).

### ConfigFile and TransparentCompression

`file[f]` is the sequence of lines of a file and `edit[c]` the edit a caller is
in: what it has read and what it will write. An edit is `ReadForAdd`
(`configfile::add`) or `ReadForRemove` (`remove_line_matching_substring`), then
`Truncate` and `Write`, or `OpenFails`; the same three steps in both functions.
`Replaces` and `Matches` keep the comparisons as the code has them: an addition
compares the first token as it is spelled, a removal the whole line in lower
case, so that a line with settings is never removed (both against their comments,
see section 5). A name is a UUID with a spelling, lower or upper case.

Two texts may be written at offset 0 of one file. `Overlay` is the set of what may
come of it: the new lines, and behind them what the old text has more, whose first
line may have lost its beginning (`Torn`; no reader finds a UUID in it). The lines of
the autostart file are of one length, and nothing is torn there.

`table` is `/proc/mounts` in its order, `option[u]` the compress option of a mounted
filesystem, `task[c]` the start or pause a caller is in.

| code | actions and operators |
|---|---|
| clause `compressctl` | `CompressCtl`: `AddSetting`, `RemoveSetting`, `Start`, `Pause`; `PresetOf`, `Requested` |
| clause `autostartctl` | `AutostartCtl` |
| `tc::add_uuid` | `Clamp`, then the edit |
| `tc::start`, `tc::pause` | `FetchSetting`, `Remount` for each mount point, `Finish` |
| `remount_in_place` | `Remount` |
| `get_mount_paths`, `get_current_compression_level`, `is_running` | `MountPaths`, `FirstLine`, `CompressedAt`, `IsRunning` |
| outside `src/` | `MountFs`, `Unmount`, `Shown` (what the kernel reports), `Crash` |

The code looks paths and devices up as texts that are parts of lines of
`/proc/mounts`. Texts are model values here, and `InText` and `InDevice` say which
of them are parts of which. What is abstracted:

* the lengths of lines: any number of old lines may stay behind a new text;
* the callers are threads of the helper, and a crash ends all of them; the files
  that were truncated then stay empty, which is `Lose` in `ConfigSet`;
* the compress option belongs to the filesystem and is lost with its last mount;
  nothing is mounted over a mount point; a remount may at any time take effect
  silently or with a warning, fail with a message, or not be run at all (no pipe, no
  fork, no exec), which leaves stderr empty and passes for a success;
* the kernel shows level 3 for zlib and zstd without a level;
* the predicate that may skip a remount is left out, because it never does: what
  it reads back carries the options that follow the level;
* the search for `compress=` beside the path finds nothing and is left out of
  `FirstLine`, which is therefore the first line that contains the path. For the
  root filesystem that is a line of a pseudo filesystem (`PseudoAt`), and the
  answer is always "not running";
* `stayed` is a history variable.

### RootShell

`pc[t]`, `mtx`, `alive` are `start_root_shell` in the root thread and in the GUI
thread, which the signal `started` may bring there (`GuiInit`). `client[c]`,
`server[c]` and `reply[c]` say where a call is in the window, on the bus or in the
helper, and on its way back; `effects[c]` counts how often its clause has run.
`told[c]` is what the caller hears: `Wrapper[c]` says whether the wrapper of the
supercommander reads the answer (`btrfsls`, `btrfstat`, `beessetup`, ...), says `true`
to every answer (`beesstart`, `beesstop`, the autostart and compression calls) or
`false` (`beesremoveconfig`, which looks at a fresh, empty answer). A clause that has
run and not yet replied still holds its thread (`Occupied`), because the reply is
sent inside `run()`.

| code | actions |
|---|---|
| `superlaunch::start_root_shell` | `Lock`, `Check`, `SeeName`, `GiveUp` |
| `call_bk_future`, `ensure_iface` | `Post`, `Refuse`, `SendCall`, `OwnerLost` |
| watcher of the pending call, the `.then` of the wrapper | `Timeout`, `Finish`; `Told` |
| `masterservice.cpp`, `main` | `Launch`, `Export` |
| `execute_clause`, `clause_runnable::run` | `Dispatch`, `RunClause`, `Effect`, `Reply` |
| bus and system | `LaunchFails`, `Die`, and the start of the helper for a message |

A helper may die at any step; the bus answers for it with an error (the bus
daemon's part, taken as given) and starts it again for the next message. Not kept: the order of the events in the queue of
the GUI thread (any call that is posted may be sent next). Not modelled: the code
after `StartUnit` in `start_root_shell`, with `ping_helper`, which only it calls. The
unit it names, `org.beekeeper.helper.service`, is not installed by the build, so
`StartUnit` fails and the code is not reached.

### RefreshTable

`view` is `fs_view_state`, `table` the rows with their UUID and status cells,
`flag` is `is_being_refreshed`, `refresh[i]` a refresh with its snapshot and data,
`batch[b]` the calls of one click, `dialog` the modal question that is open.

| code | actions |
|---|---|
| `refresh_table` | `RefreshTable(full)`, reached by `SoftRefresh`, `FullRefresh` and `Answer` |
| its continuation, `quick_refresh`, the pool thread | `List`, `Fetched`, `QuickRefresh`, `CopyEntry` (one entry of the map a step), `Apply` |
| `apply_removed`, `apply_added`, `apply_changed` | `RemoveRows`, `AddRows`, `ChangeRows` |
| `optimistically_update` | `Optimistic`, `ChangedAtOnce` |
| handlers of the buttons | `HandleStart`, `HandleStop`, `HandleCompressionSwitch`, `HandleAutostart`, `AskRemove`/`ConfirmRemove`, `OpenSetup`/`AcceptSetup` |
| `update_button_states` | `ButtonsFor` |
| `futuristically_process_indices_with_predicate`, `refresh_after_these_futures_finish` | `Send`, `Execute`, `Answer` |
| outside | `Plug`, `HelperChanges`, `OtherClient` |

A row is added cell by cell while the table is sorted: when column 0 is the sort
column, the new row moves once its UUID is set and its status goes into whatever
row is last then. `AddRow` keeps that. What is abstracted: labels, sizes, tool tips
and the status bar; `tc::is_running`, which the window asks itself, is taken as the
true state; the addition of settings and the start of compression, which the
setup dialog sends together, are one call; a concurrent rehash of
`fs_view_state`, which the copy in the pool thread could meet, has no outcome
other than the entries it finds.

## 3. Runs

| run | instance | what it shows |
|---|---|---|
| `bees_concurrent` | 2 callers, 1 filesystem, 4 processes, 3 requests | every interleaving of two operations, with crashes: each caller is guilty of at most one worker (`WorkersPerCaller`), `BeesSlots` is implemented, a stop kills what it listed |
| `bees_sequential` | 1 caller, 2 filesystems, 3 processes, 3 requests, a PID that goes to a stranger, the device and path of one filesystem parts of the other's, its mounts and configuration change | what a PID file can name (`PidfileMatched`) and whom SIGKILL can reach (`KillsOwn`), with texts and PIDs that are taken for each other; only a stop removes the file of a live process; every operation ends (`OperationsEnd`) |
| `two_starts` | violation | two overlapping starts launch two workers |
| `stop_window` | violation | a stop in the window before the worker appears reports success and stops nothing |
| `root_mount` | violation | the filesystem on `/` adopts the worker of another one |
| `diskwait` | 2 filesystems, one device a part of the other's, 2 jobs, 3 pool threads, 2 steps of the world | exclusion of refreshes, one autostart, and three liveness properties: coalesced requests are served, disks present at the start are started unless their turn meets an empty file, those no mount line names leave the queue |
| `lost_request` | violation, 1 filesystem, 3 steps of the world | a request between the last check of a job and the release of its flag is never served |
| `config_files` | 1 caller, 2 filesystems, 2 mount points, 3 requests, crashes at any step | an edit is atomic (`ImplementsConfigSet`), a start reads the setting added last (`LastSettingRead`), settings are in bounds, a successful start has taken effect where `mount` was run, `is_running` tells the truth, operations end |
| `lost_autostart` | violation, 2 callers | two concurrent additions to autostart, one is lost |
| `root_shell` | 2 calls, one whose wrapper reads the answer and one whose wrapper says true, 1 pool thread, 2 deaths or failed starts of the helper | `BusCalls` is implemented, success that is read is real, no clause is lost, all calls and `start_root_shell` come to an end, what the pool has accepted gets a thread |
| `refresh_table` | 2 filesystems, 2 refreshes, 2 batches, 2 clicks or outside events | refreshes exclude each other, the snapshot stays true, no row is doubled, and three liveness properties: a refresh ends, the table follows `fs_view_state`, full refreshes that are let in make `fs_view_state` what the helper says |
| `remove_wrong_filesystem` | violation, sorted by status, 3 events | a refresh during the question of the Remove button makes it remove another filesystem |

Bounds. Four processes are two launches with their workers, which is what two
callers need to collide and to find what the other left; three requests are
enough for a start, a second operation that overlaps it, and a third that meets
what they left. `MaxRetries` is 2 where the code has 3: one look that fails
and goes on and one that fails and gives up are all there is to tell apart.
In `DiskWait` two changes of the world are an unplug and a plug, a mount after
an unmount, a crash and a change, and so on; two jobs are one more than ever
runs (that is `OneRefresh`), three threads are the queue worker's and one for each
job. `Generations` are the requests the liveness properties speak of. The runs
with a bound on requests switch the deadlock check off: when the callers have
made all their requests and the processes have ended, the system rests. So does `root_shell`, when all calls are answered and nobody
dies. The disk watcher, the table and the callers that edit files never rest,
and there the check is on.

In `config_files` the device name of the first filesystem is a part of the second's
(`/dev/sda1`, `/dev/sda10`) and the first mount point a part of the second's (`/data`,
`/data2`); the first filesystem is named in lower and in upper case. The requests
are a level that is too low, an unknown preset with a level, and an algorithm
that is refused; `Levels` are the one that is too low, what becomes
of them, and the 3 that the kernel shows for none. A second caller is left to
`lost_autostart`: with two, the refinement and `LastSettingRead` do not hold, which is
finding 6. `added` and `latest` are histories, of what has been added and what was
added last for each name.

`Short` in the configurations of `BeesLifecycle` and `DiskWait` names the filesystem whose
path and device are parts of all the others'. `bees_sequential` has it and a PID that
comes back, so that `PidfileMatched` meets both of its exceptions; the other runs of
`BeesLifecycle` ask about one filesystem, or about `/` alone.

In `root_shell` one pool thread for two calls is a pool at its limit, one of the calls
has a wrapper that reads, the other one that does not, and two
deaths let the helper die once for a call that is being made and once for its
restart. In `refresh_table` `Refreshes` has one more than the flag lets run, which
makes `OneRefresh` say something; two batches are what one accepted setup dialog
sends, and what two clicks send; two events are two clicks, a click and a disk
that goes, or a helper that fails and comes back; `MaxRows` is a row more than
there are filesystems. One of the two filesystems is configured at first. With two filesystems a refresh can
remove one row and keep or add another. The runs take from half a minute to two minutes.

Symmetry of the callers is used in `bees_concurrent` only, which has no liveness
property and where no action distinguishes callers.

## 4. Fairness

`BeesLifecycle`: weak fairness of each caller's next step. A caller inside an
operation is a running thread and none of its steps waits for another caller.
Nothing is assumed of beesd, bees, mounts, or requests: `OperationsEnd` holds
because the code's waits are bounded, and fails (mutant) when they are not.

`TransparentCompression`: weak fairness of a caller in a task or an edit. No call
is assumed, nor that a remount succeeds.

`RootShell`: weak fairness of both threads in `start_root_shell`, whose wait for the
name ends after 10 s; of sending, of the 120 s timeout, of the steps of the helper
for each call (clauses return, by `OperationsEnd` of the other modules), and
of the bus, which starts the helper or gives up. `Finish` has strong fairness: the
event loop of the GUI thread is interrupted by `start_root_shell` and
takes up a finished watcher when it is back. Nobody has to call, and the helper
does not have to die.

`RefreshTable`: weak fairness of each refresh, each batch, the soft timer and the
readiness of the root shell, and of the full timer, which says little: a tick that
meets a refresh under way is discarded (`refreshtable.cpp:43`), and every tick of the
30 s timer falls on one of the 10 s timer, which was started first. Nothing in the
code lets a full refresh in, so nothing is assumed that does. `FullRefreshRepairs` has it
as a condition: if full refreshes are let in again and again, the window comes to
show what the helper says, again and again.

`DiskWait`: weak fairness of the diskwait thread, of each refresh job, of the
queue worker, of the clause that has a file truncated, and of the restart by systemd
(`Restart=on-failure`). Weak fairness
of `RefreshJob(j)` on a queued job means the pool runs it when it has a free
thread, so `PoolThreads` must leave one beside the queue worker; the code does not
make sure of it (see the hazard at `diskwait.cpp:236`). Nothing is assumed of
disks, mounts and users. `RequestsServed` is refuted under this fairness: the
counterexample is a run in which all threads have done all they can.

## 5. Findings

1. `AtMostOneWorker`. `pidfilemgmt.cpp:320-323` guarantees at most one worker for a
   UUID. Listing and launching are separate steps without a lock; a start from a
   clause and the autostart of the udev thread can both see nothing and both
   launch.
2. `StopEndsDaemon`. `beesstatus` sees PID files and workers and not a beesd without
   a worker. After a start that timed out, or while one waits, `beesstop` takes
   the filesystem for stopped, reports success, and the worker appears later.
3. `PidfileOwn` with a filesystem mounted on `/`. The search for the worker matches
   the mount path as a substring; `/` matches the worker of every filesystem,
   whose PID goes into the wrong PID file. So does any path that is a part of
   another's, and any device name that is.
4. `RequestsServed`. Between the check at `diskwait.cpp:113` and the store at 119 a
   request is counted, finds the flag set and returns; nobody serves it until
   another event comes.
5. `RemovesOnlySelected`. `handle_remove_button` takes the selected rows
   (`buttonhandlers.cpp:336`), which are row numbers, and asks. The question runs
   an event loop; a refresh in it may remove a row or sort the table. After Yes the
   rows stand for other filesystems, whose configuration is removed.
6. `AddedStays`. `beesdmgmt.hpp:86` says that `add` appends. It reads, truncates and
   writes without a lock; the window adds each selected filesystem by a call of
   its own, the helper runs them in parallel, and one addition is lost.

Disagreements that no run shows as a violation. The passing properties say what the
code does in these places, and the condition under which the words are kept:

* `beesdmgmt.hpp:86` says that `add` looks for a line "(case-insensitive)". Line 114
  compares as it is spelled, and a filesystem that is added in two spellings has two
  lines, of which every reader takes the one that was added longer ago.
  `LastSettingRead` has the condition that one spelling was used.
* `configfile.cpp:37` says "Remove all occurrences (case-insensitive) of s". Line 56
  compares with the whole line, and no line of the compression file is one. `Removable`
  in `ConfigSet` leaves that file out, and `LastSettingRead` goes on to see the setting.
* `diskwait.cpp:150-155` says that every mounted filesystem that is enabled is started
  at boot. A filesystem whose turn comes while a clause has the autostart file
  truncated is passed over: the escape in `PresentStarted`.
* `diskwait.cpp:388` says that the worker removes UUIDs that become unmounted. What is
  looked up is a part of a mount line, and `/dev/sda1` stays while `/dev/sda10` is
  mounted: `UnmountedLeavesQueue` is about filesystems for which nothing is found.
* `filesystems.cpp:178-179` says that the result is true if all remounts succeeded.
  A `mount` that could not be run has said nothing on stderr, which is all line 273
  looks at: `GoodTakesEffect` is about the mount points `mount` was run for.
* The wrappers of the supercommander are typed `QFuture<bool>` and say `true` after a
  refusal, a timeout, a dead helper and a failed clause (`supercommander.cpp:136-165`,
  257-317). `SuccessIsReal` is about the wrappers that read the answer; what the others
  leave on the screen is repaired by refreshes (`StatusCatchesUp`, `FullRefreshRepairs`).
* `kill(pid, 0)` is taken for "the daemon runs" (`pidfilemgmt.cpp:103`). A stranger that
  has got the PID makes `beesstatus` answer "running" and gets the SIGKILL of a
  stop: the exceptions in `PidfileMatched` and `KillsOwn`.

## 6. Proofs

The theorems are for any sets of filesystems, callers, refreshes, batches, calls
and jobs and any number of processes. They rest on the named assumptions about
the constants, which TLC evaluates in every run of the module:
`ConstantsAssumption` in `BeesLifecycle`, `DiskWait` and `RefreshTable`;
`PoolAssumption`, `NoneAssumption` and `WrapperAssumption` in `RootShell`;
`NameAssumption` in `ConfigFile`; and in
`TransparentCompression` `TextAssumption` (a text is a part of itself),
`RequestAssumption` (an option is given once or not) and `SettingsAssumption`
(`Algorithms` and `Levels` have the settings that requests come to).

Seven theorems have a hypothesis. All but one of the hypotheses say that operations
do not meet in one particular way, the other that nothing is mistaken for something
else. Four name the cause of a finding: the run of the finding shows what
goes wrong where the hypothesis is false, and the theorem that it does not
where it is true.

| theorem | hypothesis | finding |
|---|---|---|
| `OneWorkerOutsideWindow` | `ForksApart`: no two callers are between listing and fork for one filesystem | 1 |
| `PidfilesOwn` | `TextsApart`: no mount path or device name is a part of another, nothing is on `/`; and no PID goes to a stranger (`Reused = {}`) | 3 |
| `RemovalMeansSelected` | `RefreshesWait`: no refresh changes the rows during the question | 5 |
| `OneLineAlways`, `FilesImplementSets` | `EditsApart`: edits of one file do not overlap | 6 (an edit is not undone) |
| `OnlyStopDrops` | `OperationsApart`: operations on one filesystem do not overlap | |
| `GoodAlwaysTakesEffect` | `TasksApart`: starts and pauses do not overlap | |

A single caller meets `ForksApart`, `OperationsApart`, `EditsApart` and `TasksApart`
by itself, as in the instances `bees_sequential` and `config_files`.

`BeesLifecycleProofs`:

* `TypeCorrect`: `TypeOK` is inductive. Beyond types it says that a caller inside an
  operation has a filesystem, that where it uses a PID it has one, and that it
  has not used up its looks (`BusyTypeOK`), without which the other proofs could
  not index the functions.
* `OneWorkerPerCaller` and `OneWorkerOutsideWindow` are two instances of one
  argument. Put the callers into groups (`G`): a caller of its own in the first,
  all together in the second. `AtMostOneWorker` for a group is not inductive, since
  nothing in it keeps the group from launching beside its own worker. The
  inductive invariant is `GroupInv(G)`: any two live bees processes of one group and
  one filesystem are a `parent` and its `worker` (`SlotInv`), and a caller that is
  about to fork has no process of its group for its target (`ForkInv`). `ForkInv`
  becomes true at `Grab`, the listing that found nothing, and survives until the
  fork as long as nobody else of the group is about to fork for the same
  filesystem (`ForksApartIn`). A caller alone never disturbs itself; for all
  callers together it is the hypothesis `ForksApart`. The second theorem is the
  guarantee of `pidfilemgmt.cpp:320-323`, for overlapping callers too; it needs
  `BirthInv` besides, that live bees processes were launched by somebody.
* `SlotsImplemented`: `Spec => Slots!Spec` under the mapping `SlotMap`. `Launch`,
  `SpawnWorker` and `Exit` map to the steps of `BeesSlots`, each other action to a
  stutter.

`BeesFilesProofs`:

* `OnlyOwnKilled` (`KillsOwn`) from `ListInv`: what a caller's loop has still to treat
  was listed for its target, or has gone to a stranger since.
* `PidfilesMatched` (`PidfileMatched`), without a hypothesis, from `HeldInv`: the PID a
  caller is about to write is of its target, of a filesystem whose texts contain the
  target's, or a stranger's.
* `PidfilesOwn` follows: when no text is a part of another and no PID goes to a
  stranger, the exceptions are empty. Both parts of the hypothesis are needed: finding
  3, and any PID that comes back.
* `StopKillsAllListed` from `SnapInv`: each process of the listing is gone, doomed, or
  still to be treated.
* `OnlyStopDrops` (`OnlyStopDropsLivePidfile`) from `ReadInv`: what a caller has read
  of a PID file and of its process is still so when it removes the file. Another
  caller at the same filesystem may replace the file in between, hence the hypothesis.

`DiskWaitProofs`:

* `TypeCorrect`; `RefreshesExclude` from `JobInv` (a job that is anywhere means the flag
  is set, and there is only one; none before the scan has ended); `StartedOnce`
  from `StartedInv` (`calls` counts what `started` remembers).

`RefreshTableProofs`, for any filesystems, refreshes, batches and either sort column:

* `OneRefreshAlways` and `BaselineAlwaysTrue` from one invariant, `IInv`: the shape of the
  refresh records, `OneRefresh` and `BaselineTrue`. Neither is inductive alone: the
  snapshot stays true because rows change only in `Apply` of the one refresh
  there is and in an optimistic update that found the flag down, that is, no
  refresh; and `Apply` may put the flag down without looking because there is no
  second refresh.
* `TypeCorrect`, `NoDuplicateRowsEver` and `RefreshAlwaysLeavesSnapshot` from
  `TableInv`, which adds to `IInv` what the rows, the entries, the filesystems, the
  batches and the dialog are. The work is in `AddRowPuts`, `AddRowFacts` and
  `AddRowsFacts`: a row that is added moves between its cells, so that a status may
  land in another row, but each addition leaves one more row with its
  UUID and the UUIDs of the others where they were relative to each other. A refresh
  adds only what its snapshot lacks and the snapshot is true (`BaselineTrue`),
  therefore no row is doubled. `AddRows` is a recursive function; that there is
  one (`AddRowsRun`) is proved first, since the provers know nothing of a
  `CHOOSE` without it.
* `RemovalMeansSelected` from `MeantInv`: while the question is open the rows stand for
  what was selected. Only `Apply` changes the rows under an open question, which is
  modal for clicks, but not for a refresh.

`SubsequenceProofs` and `ConfigFileProofs` hold lemmas. `PickFacts` says that `Pick` has
the chosen elements, each once and in their order; `SetInduction` is induction over
the numbers of a set, derived from `WFMin`, whose parameters are sets.
`ConfigFileProofs` says what an addition and a removal make of the lines
(`AddedFacts`, `RemovedFacts`) and that each step of an edit is a step of `ConfigSet` or
none (`ConfigStepRefines`).

`CompressionProofs`, for any mount points and any texts that are parts of others:

* `TypeCorrect` from `TypeInv`, which adds that each mount point has one line of
  `/proc/mounts` (`TableInv`).
* `SettingsAlwaysInBounds` from `BoundsInv`: the lines of the file that name a
  filesystem, and those that a caller has read or is going to write, are in bounds. It
  holds however edits overlap, cut each other's lines and die, for it speaks of each
  line alone, and a line without its beginning names nothing.
* `RunningAlwaysTrue` from `OptionInv` (a filesystem that is not mounted has no
  option). That no text is a part of another is in the property.
* `GoodAlwaysTakesEffect` from `EffectInv`: a mount point of a task that stayed mounted,
  and for which `mount` was run if its turn has come, is still to be remounted or has
  the option. That tasks on one filesystem do not
  overlap would not be enough: a mount point that is in the list of one
  task may be given to another filesystem, and is then remounted all the same.
* `OneLineAlways` and `FilesImplementSets` from `ConfigInv`: what a caller has read is
  still in the file (`EditInv`), a name, spelled as it is, has one line, and no line is
  torn. A crash loses the files that were being written and no other.

`RootShellProofs`, for any calls and any pool:

* `TypeCorrect`, `SuccessAlwaysReal` and `NeverLost` from `CallInv`, which ties the
  places of a call together: before it is sent it is nowhere in the helper, its
  clause has run when the helper has it at `ran` or success is on its way, and
  what a wrapper that reads has told is the answer. An error says nothing, since
  the effect may still come, and neither does `true` from a wrapper that does not read.
* `Implements`: `Spec => B!Spec`. `Post` maps to `Ask`, `Effect` to `Do`, `Refuse` and
  `Finish` to `Answer`, each other action to a stutter.

Model-checked only:

* the liveness properties: `OperationsEnd` of both modules, `CoalescedServed`,
  `PresentStarted`, `UnmountedLeavesQueue`, `RefreshEnds`, `StatusCatchesUp`,
  `FullRefreshRepairs`, `CallsEnd`, `PoolDrains`, `StartEnds`. Temporal reasoning under
  fairness and `ENABLED` are out of the prover's reach;
* that the hypotheses of the table above are what can fail: the violations are
  found by TLC and not proved.

* `LastSettingRead`, which relates the files to a history.

All the other properties of the passing runs are theorems.

The library's induction theorems take an operator as a parameter, which the
installed provers cannot instantiate; `SetInduction` does without one and is used
for `AddRows`. `SelectSeq` is recursive, hence `Subsequences`.

## 7. Not modelled

* Command execution (`core/utils/commands.cpp`). `drain_pipes_and_reap` works between
  one thread, its descriptors, a child and the kernel, and nearly all of a
  model of it would be of the kernel. The other modules take a command to end.
  Its two hazards, a descriptor that is closed twice and a grandchild that
  keeps a pipe open, are listed with the other hazards and have no property. A
  module of it is what would be added next.
* The end of `start_root_shell` after `StartUnit`, as said above.
* `beeslog`, `verify_beesd_process`, `find_valid_pidfile`,
  `is_not_running_for_at_least_one_mountpoint_of` and `vectors.cpp`: they only read,
  or nothing calls them.
* The composition of the setup dialog's two calls with the files: the start
  may read the settings before they are written. Both are in the modules; they
  are checked apart.
* Text handling (`core/utils/strings.cpp`, `files.cpp`, `metrics.cpp`), the option parser
  of the clauses, painting, help, keyboard navigation, the command-line client
  (one more caller of `BeesLifecycle`), translations, packaging and the manual test
  programs: sequential, without state that others use.
