# A TLA+ model of crashlogd and its companions

`src/crashlog` is crashlogd, the daemon that collects crashes on an Android
device. It watches directories for crash files, listens to the modem, the kernel
and client processes, copies logs into numbered crash folders, records each event
in a history file, tells the CrashReport application about it and, at boot, works
out why the device went down. `src/log-watch` watches a log for patterns and
`src/logcatext` merges and rotates logs. The modules here model their control: what
they keep, in which order they change it, and what happens when a call fails, a
process is killed or two activities meet.

`PROJECT.json` lists the runs, the mutant that each property catches, the source
lines behind every definition, the finding, the hazards and the theorems.

## 1. Inventory

| component | state | operations | hard behaviour | module |
|---|---|---|---|---|
| history (`history.c`, `del_hist.sh`) | file `history_event`, circular `historycache`, `nextline`, `fileentries` | `update_history_file`, load, reset, uptime line, CMDDELETE | file and cache change separately; rewrite in place; kills and failed writes | `History` |
| crash folders (`fsutils.c`) | `CRASH_CURRENT_LOG`, folders | `generate_crashlog_dir`, SD card clean-up | numbers reused in a ring, folder and line not tied | `History` |
| notification (`crashutils.c`) | `thread_count`, `last_chance`, `last_notify` | `raise_event`, `notify_crashreport_thread` | threads that give up because another one will speak for them | `Notify` |
| watchdog (`watchdog.c`, `do_monitor`) | `pulse`, timer | kick, signal handler | a handler that races with the kick, suspends | `Watchdog` |
| file monitor (`inotify_handler.c`) | `wd_array`, buffer | `receive_inotify_events`, `init_inotify_handler` | several events per read, removed directories, shared watches | `Inotify` |
| crash handlers (`usercrash.c`, `trigger.c`, `dropbox.c`, copies of `fsutils.c`) | files of other processes, log files of logcat | one callback per kind of file | renames and removals while events wait, batches cut by a failure, rotation under a copy | `CrashFiles` |
| dumpstate (`dropbox.c`, `anruiwdt.c`, `dumpstate_dropbox.sh`) | key ring, indices, one property, one service | `start_dumpstate_srv`, `finalize_dropbox_pending_event` | check-then-start, ring overwritten, threads without a lock | `Dropbox` |
| boot checks (`main.c`, `panic.c`, `startupreason.c`, `fabric.c`, `modem.c`, `recovery.c`) | evidence of the last run, token | `read_startupreason`, `early_check`, `early_check_nomain`, `check_crashlog_died` | checks that clear what they find, kills in the middle, several causes | `Boot` |
| VMM traps (`vmmtrap.c`) | marks on the SD card, memorised trap event | `crashlog_check_vmmtrap` and its thread | a card that comes late or is full, marks around an event | `VmmDumps` |
| device checks (`fw_update.c`, `checksum.c`, `check_partition.c`, `intel_ecc_handler.c`) | status, checksum file, counters and their backup | a check each, at the start and in the loop | told and saved are two steps | `DeviceChecks` |
| ingredients and iptrak (`ingredients.c`, `config.c`, `getbulkprops.c`, `iptrak.c`) | `old_values`, two files | `check_ingredients_file`, `check_iptrak_file` | several threads, no lock, retries | `Ingredients` |
| modem manager source (`mmgr_source.c`, `tcs_wrapper.c`) | pipes, markers, version monitors | callbacks, `mmgr_handle`, `monitor_modem_version` | callbacks of other threads, marker and event in two steps | `Sources` |
| kernel and client crash tool (`kct_netlink.c`, `lct_link.c`, `ct_*.c`, `lct/`) | sockets | receive, filter, write files, raise | out of memory in the middle, kills, clients that overflow a socket | `Sources` |
| log-watch | mailbox, records, times of events, child process | feed, watcher thread, flush, attachments | one mutex, one semaphore, reads outside them | `EventWatch` |
| logcatext | three flags, output files, messages in hand | read, merge, rotate; unblocker thread | flags unlocked by either thread, kills between renames | `Logcat` |
| `config_handler.c`, log_library, log_service, intel_prop, backtrace tools, scripts | | | none | no |

**How they interact.** One main loop (`do_monitor`) selects on the descriptors of
the sources and calls a handler; the handler makes a crash folder, copies logs and
calls `raise_event`, which updates the history and starts a notification thread.
Crash handlers, and the thread of an ANR, also start the dumpstate service, whose
result returns as an inotify event to the same loop. The modem manager's library
calls back in threads of its own, which write to a pipe the loop reads; some
callbacks start a thread that waits for the modem's version and then refreshes
ingredients.txt beside the main thread. The watchdog's timer interrupts the loop. At
start, before the loop, `update_history` and the boot checks run. init starts the
daemon again when it dies; `vendor.crashlogd.token` tells that start from the first
one of a boot. logcatext writes and rotates the logs the crash handlers copy;
log-watch is a process of its own.

**What makes it correct.** The history is bounded, in order and agrees with its
cache; logs kept are those of the latest crashes; every event is eventually
announced; only a stuck loop is killed, and it always is; entries of the monitor have
the live watch of their directory and events are handled once, in order; a crash file
is reported, once, with logs that have no gap; CrashReport is told the right event,
once; a watchdog reset is reported, on one cause, and no evidence is cleared
unreported; what arrives at a source is dealt with once, in order, and no source
starves; what a check found is told before it is forgotten; files about the device
settle on what the device is; a watcher stops when it must and a merged log loses
nothing.

## 2. Modules

A component is a module; an `MC` module is the instance for TLC of one or two.
Definitions whose name has a suffix (`AppendLine_Uncounted`) are mutants: what a
plausible bug would make of the definition below them. They take no part in `Spec`.
Variables marked *history* record the past for a property and are read by no guard.

**History.** A line keeps what the code reads back: keyword, event id, whether a
path follows. An id stands for the event, its date order and its folder. `pending`
holds the events the running handler has still to raise, so that a kill can fall
between a folder and its event. `update_history_file` is one action per outcome:
append, append failed, rewrite, rewrite stopped after n lines, open failed, create
failed, load failed, `strdup` failed. A missing file empties the buffer only when
`history.c:172` finds it in use (`Emptied`): after a failed `strdup` in slot 0 of a full
buffer the older lines stay behind it. The rewrite is also cut by a kill
(`KillInTrim`). From outside the file may be removed or cut to one line
(`del_hist.sh`). `sdcard` says where the folders are, for a whole behaviour.
`CacheIsTailOfFile` compares slot by slot: the slot filled j lines ago holds the j-th
line from the end. `CleanKeepsRecent`, the part of `LatestLogsKept` about the clean-up
of the SD card, is about more than one folder number: with one the new folder and
the cleaned one are the same.

**Notify.** One action per critical section of `notify_crashreport_thread`; time is
counted down in timers. `RaiseUnnoticed` is an event that reaches the history and gets no
thread: its crash file or the thread could not be made, or CrashReport is not there.

**Watchdog.** Expirations, the two steps of the kick, the handler in the main thread
or (read and write of `pulse` apart) in another one, suspends, kill and restart.

**Inotify.** The kernel's queue, the buffer of one read, the stale `event` pointer of
the truncation test (`prev`), removal and recreation of directories by the daemon and
by others, failures of `mkdir`, of `inotify_add_watch` and of callbacks, restart.

**CrashFiles.** What the callbacks do with the events of `Inotify`. Writers make,
close, rename, move out and delete files at any time; the daemon reads a batch and
works through it; a callback that fails drops the rest. A file is the same through
its renames (`disk[f]` is the number of its name), which is what the cookies of
`manage_duplicate_dropbox_events` are about. logcat rotates, one rename at a time
and as often as it likes, while `do_copy_circular` copies one log after another: the
next log copied is the next older one, the same or a newer one. Both files of a
tombstone are told twice, when they are made and when they are closed, as their mask
says. Folders and copies may fail: `do_copy_circular` then ends, or goes on after a log
copied in part, and `process_log_event` goes on without the log. The daemon may be
killed. `given_up` (*history*) names the events dropped.

**Dropbox.** Each step of `start_dumpstate_srv` that touches shared state is an
action, taken by the main loop or by threads; init and the script are the
environment. A crash, its folder and its key are one number. `missed` records that a
key has or will have no event of its own.

**Boot.** `read_startupreason` is a set of operators over the numbers and names the
boot loader may leave, per platform. One action per outcome of each check, in the
order of `early_check` (nominal) and `early_check_nomain` (minimal). Evidence is
chosen when the device is switched on; what lives in files stays until a check
removes it.

**VmmDumps.** `crashlog_check_vmmtrap` by its steps on files: the trap's event, the
walk over the dumps of the card by the main thread or by the thread that waited for it
(which looks at the mounts, opens `/proc/mounts` and selects in three steps, and
misses a card mounted between the first two until the next change: `missed`), `.tmp`,
event and `.inf` (sofia) or `.info` and event (sofia_legacy), the announcement of the
trap's data, the removal of `.istp` files.

**DeviceChecks.** Each check is read, event and save, a step each, and each file may
fail to open at each use. Memory errors are counted by the environment at any time.
`known` (*history*) is the set of checksums the user was told of or first saw: over
several boots a partition may return to an earlier one.

**Ingredients.** `check_ingredients_file` in its steps per thread, with `old_values`
shared and freed as the code does it: a list may be freed under a thread that
compares with it, and freed twice, which ends the daemon. The file may fail to be read
or opened, and `dump_config`, which looks at no result, may leave keys out of it on a
full partition. `lost` (*history*) says how names may have left the file.

**Sources** and **EventFlow.** `EventFlow` is what the main loop promises to those
that send it events: per source, what arrived is dealt with once, in order, and
reported if and only if it must be; only a kill loses it, and no source starves.
`Sources` is the code: connection with its retries, callbacks that write one or
several parts to a pipe, select and the turn over the ready descriptors, the filters,
the folders and files of an event, integrity check, markers of modem dumps, the
version monitors. `ImplementsFlow` is the refinement: `pending` is the
messages in pipe or socket and the one in hand, `done` the history of what was
handled, and `Duty` says, from the message alone, what must be reported.

**EventWatch.** main, the reader, the watcher's thread and its command are
interleaved at the mutex, the semaphore and the two reads outside the mutex (`feed`).
A watcher's parameters come from the configuration as `LwConfig` and the constructor
read it, defaults and disabled limits included. The removal of output directories and
the making of a new one may fail at each flush (`stuck` names what a failed removal
left), and so may the creation of the thread, on whose start main then waits for ever.

**Logcat.** The two threads at their locks, unlocks and blocking calls; the three
mutexes are flags because either thread unlocks them; rotation one rename at a time.

## 3. Runs

| run | bounds | states | shows |
|---|---|---|---|
| `history` | 2 records, 5 entries, 2 folders, 5 ids, device and SD card | 1.6 M | `TrimReadsNoHole`, `CounterCoversFile`, `Chronological`, `CacheIsTailOfFile`, `GrowthBounded`, `LatestLogsKept` |
| `notify` | 4 threads, limit 3, wait 3, command 2 | 70 k | `NoEventForgotten`, `LimitMeansLastChance`, `EventuallyNotified` |
| `watchdog` | granularity 3, period 3, 3 suspends; 2 rotated files, 1 message each, 3 messages, a kill, all options | 557 k | `KilledIsStuck`, `StuckIsKilled`, `StuckForeverDies`, `FilesHoldTail`, `MergedInOrder`, `KernelIsRead` |
| `inotify` | 3 entries on 2 directories, 2 name lengths, buffer of 5 units, 5 events | 184 k | `LiveWatchKnown`, `HandledInOrder`, `WatchedWhenQuiet` |
| `crashfiles` | 2 files of 12 kinds, 3 log files of which 2 are copied, 3 cookies, no rotation, 2 faults, a kill | 3.8 M | `ReportedOnce`, `NotLost` |
| `logcopies` | 1 file of 12 kinds, 4 log files, 4 rotations, a fault, a kill | 573 k | `LogsWhole` |
| `dropbox` | ring of 2, 4 crashes, 2 of them in threads | 450 k | `ToldOnce`, `RightKey` |
| `boot` | 3 platforms, 2 boots, 2 kinds of evidence, 2 ends of the daemon per boot; 2 counters, 2 files of the partition, an end, a reboot, a fault | 4.8 M | `ResetExplained`, `EventsAccounted`, `ClearedIsReported`, `MemoryErrorsTold`, `FactoryChangeTold` |
| `upkeep` | 2 threads, a modem, a property; 2 dumps, 2 boots, a kill each, a fault each | 0.75 M | `NamesKept`, `FilesSettle`, `VmmDumpsTold`, `TrapDataReady` |
| `sources` | 2 modems, pipes of 2, the budgets of `MCSystems` | 240 k | `ImplementsFlow`, `DumpNotLost`, `MonitorsEnd` |
| `eventwatch` | 4 watchers, mailbox of 2, 4 items, 3 times, 2 runs | 799 k | `MailboxSound`, `OutputInOrder`, `NoisyIsKilled`, `SuspendSound`, `AllStop` |
| `history_delete` | as `history`, file of 3 | | a violation, section 5 |

`boot`, `upkeep` and `watchdog` hold two modules each that share no state (the last
one `Watchdog` and `Logcat`): a behaviour is one of either, and `which` says of which.

*Why the bounds are enough.* History: the buffer wraps, the file outgrows the buffer
by enough for a restarted daemon to load its end only and to append once without a
rewrite, and a rewrite follows. Notify: more threads than the limit, and room for two
commands within one wait. Watchdog: the report and the kill are both several periods
away. Inotify: two entries share a path, a buffer holds two or three events and a
short one follows a long one. CrashFiles: two files rename into one another's batch,
a file twice, both events of a tombstone, two failures in one behaviour, and a copy ends
at the limit (`crashfiles`, where logcat stands still: no property of that run is about
the order of logs); a copy meets each step of several rotations and ends at the oldest
log or at one that cannot be copied (`logcopies`). Dropbox: more crashes than
slots, twice. Boot: any two sources of evidence together, a kill in each of two
starts, the token's three states, and a second boot that finds what the first one
left. DeviceChecks: a counter grows before, between and after the steps of a check,
and a backup meets another boot. Upkeep: two threads overlap anywhere in the check; a
dump of the trap and one without an owner, marked in one boot and met again in the
next; the card comes before, between and after the look at the mounts and the watch on
them. Sources: each pair of sources has something ready at once, a pipe is full, each
message is met by a failure, a kill and a reboot. EventWatch: the mailbox overflows,
the rate limit and the suspension are both reached, also across runs. Logcat: a full
set of files rotates, with each source ahead of the other. Bounds are the constants
named `Max...` and the sets of threads, files and budgets; runs say
`CHECK_DEADLOCK FALSE` where a bound ends behaviours.

`CrashFiles` is checked up to the symmetry of its files (they are never compared or
chosen among, and no property is temporal).

*Fairness.* `Notify`: threads are scheduled, sleeps and commands end (run_command
kills its child after its timeout). `Watchdog`: time passes, a pending signal is
handled, the second half of a kick follows the first; no handler of the main loop is
assumed to end. `EventWatch`: main and the watcher are scheduled; a command is not
assumed to end, which is why it is killed. `Sources`: the main loop and the threads
of the version monitors are scheduled; neither senders nor failures are. `Ingredients`:
threads are scheduled, and the main loop's tick that raises an event comes again and
again (strong fairness: the tick competes with the others for the main thread).
`VmmDumps`: the thread that works on dumps is scheduled; the card need not come.
`Logcat`: both threads are scheduled. The other modules state safety only.

Properties read with these exceptions, each a history variable: `KilledIsStuck`
excepts a kick overwritten by a handler in another thread (`undone`); the properties
of `Notify` are about events that got a thread (`unnoticed` are the others, section
5); `RightKey` a key whose dumpstate was not made or not reported (`sure`, `missed`);
`FilesSettle` a behaviour in which two threads were in the check together (`overlap`:
see below) and a file cut short by a full partition (`Short`), `NamesKept` also a kill
within `dump_config` and a file that was not read at the first check (`lost`);
`MemoryErrorsTold` counts hidden by a backup of another boot (`excused`); `CacheIsTailOfFile`
the time from a failed call, or a reset that left lines behind, to the next load or
rewrite (`synced`); `NotLost`
files whose event was dropped behind a failed callback (`given_up`); `ReportedOnce` a
second report of a tombstone; `LogsWhole` a copy that met the index being moved or
could not copy a log (`cut`); `OutputInOrder` directories whose removal failed
(`stuck`); `KernelIsRead` a kernel message read while logd was waited for (`held`);
`TrapDataReady` a directory that is missing or fails (`blind`), a mount that was not
seen (`missed`), and the end of the daemon, with which `vmm_key` goes.

## 4. Proofs

TLAPS proves, for every value of the constants under the assumptions named in each
module:

- `HistoryProofs`: `TypeCorrect`, `TrimSafe`, `CounterSafe`, `GrowthSafe`,
  `OrderKept`, `CacheFollows`, `LatestKept`. Assumptions: `RecordsAssumption` (the
  file limit exceeds the buffer, as 6000 does 5000), `FoldersAssumption`,
  `BoundAssumption`. The inductive invariant `IInv` adds to the types: no line equals
  the mark of an empty slot; slots are filled from 0 on and all but the next one are
  full once `fileentries >= MaxRecords`, below which `nextline = fileentries` (without
  this a rewrite could meet a hole); and the file has at most `fileentries + 3` lines,
  one less when it has no readable first line, because the uptime line may then add
  one that is not counted. On top of it, `KeysInv` (the order): the buffer read from
  `nextline` on is in order too, and what the handler has still to raise is later
  than all that is in the file or the buffer. `TailInv` (the cache) says slot by slot
  that the buffer is the end of the file as long as no call failed since the last
  load or rewrite. `FolderInv` (the folders): numbers are used in the order of the
  ring, and every line with the id of a folder names its path, whether it is in the
  file, in the buffer or still to be raised; so the clean-up finds it.
- `NotifyProofs`: `TypeCorrect`, `NothingForgotten`, `LimitSafe`, for any number of
  threads. The invariant ties `thread_count` to the active threads,
  `last_chance` to the one that sleeps, and a running first command to the
  time still quiet: two such commands would need two waits, so at most one runs
  beside the last chance thread and its command, which is what the limit of three
  means.
- `InotifyProofs`, about `Inotify`: `TypeCorrect`, `WatchSafe`, `OrderSafe`,
  `QuietSafe`, for every table of entries, buffer and mix of names. `WatchSafe` needs
  that entries of one path hold one watch and entries of two paths never the same
  (`SharedWatch`, `OwnWatch`); `OrderSafe` that the buffer and the queue are sorted by
  id, the buffer before the queue and what was handled before both (`OrderInv`);
  `QuietSafe` that, while nothing failed, a directory that is there is watched and the
  removal of one that is not is still in the buffer or the queue (`QuietInv`).
  About `CrashFiles`: `FilesReportedOnce`, `FilesNotLost`, `LogsAreWhole`, for any
  files, number of renames, failures, kills, log files, limit and rotations. The first
  two follow the `Stream`, the batch and the events behind it, which steps of the daemon
  shorten at its head and writers lengthen at its end. `OnceInv` says that cookies are
  not used twice, that the second half of a rename comes right behind the first (or
  first in the stream, when the first is in `previous`), that a file has one event by
  which it appears, and that this event is gone when the file is reported. `Coming`
  says that a file still owed a report is open or has that event in the stream,
  `CoresKept` that a core is on the disk or saved. `TombsInv` is for the files told twice:
  each of the two events comes once, and what is still to come and what was reported
  are two together at most. `LogsInv` gives the number of the
  log at each index in the middle of a rotation, and how far the copy is: its last log
  is never older than the rotation allows at the next index.
- `WatchdogProofs`, about `Watchdog`: `KillJustified`, `KillInTime`, for every period
  and granularity.
  The invariant bounds the time awake since the last kick from both sides by the
  expirations counted or pending (`Late`, `Early`), apart from one that came between the
  steps of a kick. `GranularityAssumption` asks for 2 at least (the code has 8): with 1
  the one expiration a kick can leave behind is enough to kill a daemon that is not
  stuck.
  About `Logcat`: `LogFilesKept`, `LogsMerged`, for any number of files, messages and
  kills. A rename carries the file's interval of the output to the next index and leaves
  an empty one, which loses nothing because the file it replaces is the oldest or has
  just moved (`Opened`); that also holds for a rotation a kill has cut short. The merge
  needs that both logs are sorted by time and disjoint (`InOrder`) and that a message in
  hand is the last one read of its log, with none in hand when logd is read (`InHand`).
- `DropboxProofs`: `TellsOnce`, `TellsRight`, for every ring and number of crashes and
  threads. Told once is about keys (`Once`): a key is stored or told, never both. The
  right key needs `Matched`: while nothing was missed, the keys from the consumer's
  slot on are those of the finished dumpstates in the order of their events, then that
  of the one under way, of which there is one at most (`Alone`).
- `SourcesProofs`: `DumpsKept` and `MessagesFlow`, the safety part of the refinement:
  initial states of `Sources` are those of `EventFlow` and each step is a step of it
  or a stutter, for any number of modems, messages and threads (`FlowInv`: what is in a
  queue is a message some source sent; a source found ready still has one; the one
  in hand has to be reported). `InputsAssumption` gives messages the fields the code
  reads and bounds each system's number of messages.
- `BootProofs`: about `Boot` `ResetsExplained`, `EventsCounted`, `ClearedReported`, for
  every platform, evidence and number of boots and kills (`BootInv`: per place in the
  pass, where the token can be, how often a kind of event was raised, what the locals
  know of the cause, and that what is about to be cleared was reported); about
  `DeviceChecks` `FactoryChangesTold`, `MemoryErrorsAreTold` (`SumInv`, `EccInv`); about
  `VmmDumps` `VmmDumpsAreTold` (`VInv`); about `Ingredients` `NamesAreKept` (`IInv`;
  names of modems differ from the markers the code writes in their place,
  `IngredientsAssumption`).
- `EventWatchProofs`: `MailboxFits`, `OutputKept`, `NoiseEnds`, `SuspensionKept`, for
  every watcher that can be written in the configuration file (`ConfigsAssumption`) and
  every limit. `BoxInv` relates mailbox, semaphore, `accept_data` and the thread's step;
  `QueueInv` follows items from the reader to the thread; `OrderInv`, `SuspendInv` and
  `LogInv` are about the records and times the thread keeps.

Types (`TypeOK`) are proved, as a part of each invariant, and checked in no run. An
inductive invariant that TLC can evaluate was checked on the run of its module first.

*What the proofs changed.* Three properties held in the runs only because of a bound,
and were restated when their proof failed. `FactoryChangeTold` compared with the one
checksum told last: with three boots a partition that returns to an earlier state
broke it. `LogsWhole` let the next log be one older or the same: with two rotations
during one copy it is a newer one. `CleanKeepsRecent` was wrong for one folder number.
And `KilledIsStuck` needs the granularity above.

*Only model-checked.* Liveness, and with it ENABLED, is out of the prover's reach:
`EventuallyNotified`, `StuckForeverDies`, `FilesSettle`, `TrapDataReady`, `MonitorsEnd`,
`AllStop`, `KernelIsRead` and the fairness of `ImplementsFlow`. So is what a recursive
definition computes for every input: the two properties of `Logcat` are therefore stated
over intervals and sets and not as a concatenation. Every safety invariant the passing
runs check has its theorem.

## 5. Disagreements

Where a comment, a message or a help text says one thing and the code does another.
The first is the run `history_delete`; the other properties stand at the end of their
modules, and TLC finds each violated when it is put into the module's cfg.

- `DeletedStaysDeleted` (History): "The CRASH keyword is replaced by DELETE keyword"
  (`history.c:495`). Only in the file: the cache keeps CRASH and the next rewrite
  brings it back, with the folder gone.
- `NoDanglingPath` (History): "Check if directory is already in history, and delete
  path" (`fsutils.c:703`). The path looked for ends in the new event's id and
  `rmfr_match` has just removed its match, so that the line of the removed folder
  keeps its path.
- `DroppedStaysOut` (History): "Cannot update the history file (%s), drop the event"
  (`crashutils.c:585`). The line is cached before the append and not taken back: the
  next rewrite writes it.
- `TruncatedIsTruncated` (Inotify): "The event was truncated"
  (`inotify_handler.c:385`). The test at 382 uses the length of the event before: a
  whole event, last in the buffer and shorter than its predecessor, is taken for a
  truncated one, and the read that should complete it blocks or takes a later event.
- `WatchReinstalled` (Inotify): "Recreate the dir and reinstall the watch"
  (`inotify_handler.c:447`). When somebody else has made the directory again `mkdir`
  fails and the function returns before the watch is made.
- `NothingPending` (Dropbox): "Received a dropbox event but no key is pending, drop
  it..." (`dropbox.c:126`). After the ring has overrun, the consumer looks at an empty
  slot while the key is in the other one.
- `EveryEventNotified` (Notify): "Notify CrashReport except for UIWDT events"
  (`crashutils.c:620`). The event is in the history before its crash file is written (606),
  CrashReport is looked for (1016) and the thread is made (1021); when one of these
  fails nobody is told of it until another event comes.
- `ThreadAlreadyStarted` (Sources): "thread already started. Counter reloaded!"
  (`mmgr_source.c:182`). The thread that started may have taken its `break`: it resets
  `running` without the mutex, between the test and the reload of the other one, and
  ends. `running` stays 1 with no thread behind it, and no later mdm_UP starts one.
- `SuspendedAfterEvent` (EventWatch): "the watcher should "ignore" new records after the
  generation of an event" (`log-watch/README.md:130`). The period starts at the time of
  the event's first record (`EventWatch.cpp:231`, 239): an event flushed by its timeout
  after the interval is over suspends nothing. `SuspendSound` is about the period as it
  is implemented.
- `FabricFileCurrent` (Sources, with `MaxModems = 1`): "If DW0 from attachment and
  form file match, we're good", "Else, we don't keep the file"
  (`ct_eventintegrity.c:88`). The path at line 68 lacks its separator, so the copy is
  never opened and always kept.
- `DumpComplete` (Logcat): "-d dump the log and then exit (don't block)"
  (`logcat.cpp:283`). A sync message of an earlier run counts as no message, and the
  loop ends with the rest of logd unread (949).

Met while modelling, not stated as a property:

- *crashlogd's core.* A kill between `reset_file(HISTORY_FILE)` and
  `reset_uptime_history` (`main.c:270`) leaves a file that only restarts repair. A
  broadcast that fails is not tried again (`crashutils.c:996`); events wait for the
  next one. `WDT_COUNTER_EXCEEDED` of fdk passes the first test of
  `crashlog_check_startupreason` and never the last: no crash is raised for it. On
  efilinux a wake source hides a watchdog's reset source. A failed `strdup` in slot 0
  of a full buffer, followed by the loss of the file, leaves the older lines in the
  other slots while `nextline` and `fileentries` start again from 0 (`history.c:172`).
  Without `vmmtrap.c` in the build a panic and an unhandled hardware watchdog are both
  raised for one reset.
- *Crash files.* A trigger that is written and closed has two events and is reported
  twice if both are read; an aplog trigger that meets the rotation with no log 0
  raises nothing; info, stat and heap dump files are removed whatever became of the
  copy, so that a heap dump is gone when its copy failed; a short `sendfile` counts as
  copied. A tombstone is reported when it is made and again when it is closed
  (`inotify_handler.h:42`). A log that cannot be copied ends `do_copy_circular`, and the
  older ones are left out.
- *Sources.* Callbacks that come before the pipe exists are lost. `mmgr_handle`
  without a folder raises an INFO event as CRASH and `cd_info_path` may be
  uninitialised. A modem's marker is removed before its event (`mmgr_source.c:590`,
  `modem.c:115`); MPANIC data that are incomplete keep theirs. The version monitor's
  `break` unlocks a mutex that another thread may hold (`mmgr_source.c:215`).
- *Device and files.* `fw_update.c:191` clears the status before the event.
  `check_partition.c:100` inverts its result, `fetch_dmi`'s is inverted too. A
  backup of another boot hides memory errors. `old_values` is freed while another thread
  compares with it, and may be freed twice (`ingredients.c:346`). An ingredients.txt that
  cannot be read at the first check counts as none: the names of modems that are down
  are lost. One cut short by a full partition (`config.c:333`) is taken for complete until
  something changes or the daemon starts again. Lines past 124
  characters break into pieces; `config_trim` returns a pointer that may mislead
  (`config.c:53`); iptrak's `"%s=%s"` never reads a previous value; `checksum.c:102`
  leaks a descriptor.
- *VMM dumps.* `get_value_in_file` fails when there is no "Owner:", so that the branch
  that raises VMM_UNHANDLED for such a dump is never taken, and the dump is marked as
  processed. A card mounted between the first look at the mounts and the opening of
  `/proc/mounts` (`vmmtrap.c:518`, 523) is not seen until the next change. The
  memorised trap event ends with the daemon. A full card ends the walk, and the
  `.istp` files of dumps nobody has looked at are cleaned all the same. On
  sofia_legacy the mark comes before the event. Without a Coredump directory the
  trap's event stays not ready.
- *log-watch.* A directory whose removal fails stays (`EventWatch.cpp:341`); main waits for
  ever for a thread that could not be created (487).
- *logcatext.* Sync messages may storm while a kernel line waits; a message's device
  may be stale (`logcat.cpp:1016`); `klogger_read` compares a `size_t` with negative
  results.

## 6. What is assumed or left out

- History: a write of one line is atomic; a log in `LOGINFO_DIR` counts as no folder;
  CMDDELETE takes one id per step; a kill inside `reset_after_swupdate` is not
  modelled; events are raised by one thread at a time. Notify: crashlogd runs with
  notifications (CRASHLOG_MODE_NOTIFS_ENABLED).
- Inotify: the kernel returns whole events, names padded to 16 bytes;
  IN_DELETE_SELF of a directory carries IN_ISDIR; a directory moved away is handled as
  a removed one. CrashFiles: the two events of a rename are contiguous, as dropbox.c
  assumes; the callback of an ANR is that of a crash with other extra files; the logs
  are those of CONFIG_APLOG.
- Dropbox: CrashReport is installed and the script's five seconds outlast its
  caller; the file and the end of the service are one step.
- Boot: the platforms fdk, efilinux and sofia_legacy without SSRAM_CRASHLOG,
  RAMDUMP_CRASHLOG and EARLY_LOGS. VmmDumps: an event without a folder is History's;
  `crash_generated` starts as any panic check may have left it.
- DeviceChecks: checksums do not collide; the firmware status is fdk's. Ingredients:
  the configuration file exists and the modems' section does not change; its
  keys and lists find their memory, or it counts as not read.
- Sources: a message is its number and what its handling depends on; parts of a
  callback are one write. EventWatch: an item is its time, priority and the pattern it
  matches; CLOCK_REALTIME, which stamps uevents and logd's lines, is not set back.
  Logcat: messages of the kernel are well formed, every message passes the filter,
  time normalisation is left out; a rename of `rotateLogs` fails with ENOENT only
  (after another error it goes on and the next rename overwrites the file that stayed,
  `logcat.cpp:126`).
- A message sent by an event's submitter, a path or a text is data throughout.

**Not modelled.** The backtrace tools (`backtrace`, `libbtdump`, `debug_anr`,
`parse_stack`) walk the memory of a process and print: no state survives a call. The
log library and service and `intel_prop` format one message or property. Scripts that
pack files run once. `config_handler.c`, `spid.c` and the check of mounted partitions
(`check_partition.c`, which only writes to the log) fill tables or print.
`fwcrash.c` and `intelfwcrash.c` run a decoder and copy its output. Copies of logs
other than those of `CrashFiles`, permissions, message texts and the event ids are
data.

## 7. Plan

1. *Composition.* `CrashFiles` on top of `Inotify` (a batch as the buffer of one read);
   raises of two threads on the history cache.
2. *Abstraction.* A history that only promises an ordered, bounded suffix of the
   events, implemented by `History`; a notification that promises one broadcast
   after every event, implemented by `Notify`.
