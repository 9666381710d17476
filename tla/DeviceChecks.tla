---------------------------- MODULE DeviceChecks ----------------------------
(***************************************************************************)
(* The checks of the device crashlogd makes on its way to the main loop and *)
(* in it: the status the firmware left of its last update                  *)
(* (crashlog/intel_specific/fw_update.c, an FDK build), the checksum of    *)
(* the factory partition (check_partition.c, checksum.c) and the counters  *)
(* of memory errors (intel_ecc_handler.c), which are read at the start and *)
(* at every turn of the loop, or once in a ramdump boot.  Each check raises *)
(* an event and keeps in a file what it has told.  The daemon may be killed *)
(* between any two steps and is started again; the device may reboot.      *)
(*                                                                         *)
(* A fault is a file that cannot be opened at one of its uses.  Checksums  *)
(* do not collide.  Raising an event is one step: History has its detail.  *)
(***************************************************************************)
EXTENDS Integers, FiniteSets, FiniteSetsExt

CONSTANTS
    Counters,   \* dimm_ce_count and dimm_ue_count of the DIMMs
    Paths,      \* regular files of the factory partition
    Exempt,     \* checksum_ex_paths
    MaxCount,   \* bound: errors of the memory in one boot
    MaxEnds,    \* bound: ends of the daemon
    MaxReboots, \* bound: reboots
    MaxFaults   \* bound: faults

ASSUME DeviceAssumption ==
    /\ Exempt \subseteq Paths /\ IsFiniteSet(Counters) /\ IsFiniteSet(Paths)
    /\ {MaxCount, MaxEnds, MaxReboots, MaxFaults} \subseteq Nat

VARIABLES
    at,        \* the step of the main thread; down: no daemon, off: no device
    ran,       \* the token is set: early_check has run in this boot
    fwstatus,  \* FW_UPDATE_STATUS_PATH is not zero
    tree,      \* what the files of the factory partition hold
    sumfile,   \* FACTORY_SUM_FILE
    checksum,  \* the checksum of this start, or NoFile
    edac,      \* the counters of sysfs
    list,      \* ecc_list: data.count of each counter
    backup,    \* COUNT_BACKUP_FILE, by counter; 0: no line for it
    left,      \* the counters a walk of ecc_list has not reached
    stream,    \* the counts gathered for set_backup_count, Absent: none
    update,    \* of ecc_count_handle
    ends, reboots, faults,
    fwdue,     \* history: a failed update of which no event was raised
    known,     \* history: the checksums told, and the first recorded
    fresh,     \* history: counters that grew since the daemon last read them
    reported,  \* history: highest count told in this boot
    excused,   \* history: count not told because of another boot's backup
    foreign,   \* history: the backup was written in another boot
    repeated,  \* history: a count was told twice in this boot
    exposed    \* history: the daemon ended with a told count not in the backup

start   == <<ran, fwstatus, fwdue>>
factory == <<tree, sumfile, checksum, known>>
ecc     == <<edac, list, backup, left, stream, update,
             fresh, reported, excused, foreign, repeated, exposed>>
bounds  == <<ends, reboots, faults>>
dvars   == <<at, start, factory, ecc, bounds>>

NoFile == [p \in Paths |-> "none"]
Torn   == [p \in Paths |-> "torn"]  \* opened for writing, not yet written
Contents == {"a", "b"}              \* of a file of the factory partition
Absent == -2
Running == {"fw", "fwclear", "fwraise", "token", "sum", "sumraise", "sumopen",
            "sumwrite", "eccinit", "restore", "open", "save", "select", "handle",
            "fatalinit", "fatal", "reset"}

\* A file that cannot be opened this time.
Fault == faults < MaxFaults /\ faults' = faults + 1

----------------------------------------------------------------------------
(* The status of the firmware update. *)

\* Where crashlog_check_fw_update_status goes with what it read.
AfterStatus == IF fwstatus THEN "fwclear" ELSE "token"

\* crashlog_check_fw_update_status, up to the status: without it, no event.
CheckFwUpdate ==
    /\ at = "fw"
    /\ \/ at' = AfterStatus /\ UNCHANGED bounds
       \/ at' = "token" /\ Fault /\ UNCHANGED <<ends, reboots>>
    /\ UNCHANGED <<start, factory, ecc>>

\* fdk_clear_fw_update_status: the event says whether it worked.
ClearFwUpdate ==
    /\ at = "fwclear" /\ at' = "fwraise"
    /\ \/ fwstatus' = FALSE /\ UNCHANGED bounds
       \/ Fault /\ UNCHANGED <<fwstatus, ends, reboots>>
    /\ UNCHANGED <<ran, fwdue, factory, ecc>>

RaiseFwUpdate ==
    /\ at = "fwraise" /\ at' = "token"
    /\ fwdue' = FALSE
    /\ UNCHANGED <<ran, fwstatus, factory, ecc, bounds>>

\* check_crashlog_died ends what is done once per boot.
SetToken ==
    /\ at = "token" /\ at' = "sum"
    /\ ran' = TRUE
    /\ UNCHANGED <<fwstatus, fwdue, factory, ecc, bounds>>

----------------------------------------------------------------------------
(* The checksum of the factory partition. *)

\* calculate_checksum_path: every path is fed, the content of those not exempt.
Fed(p) == IF p \in Exempt THEN "path" ELSE tree[p]
calculate_checksum == [p \in Paths |-> Fed(p)]

\* memcmp with what the file holds; an empty file leaves the buffer as it was.
Differs(sum) == sumfile # sum

\* Where a new checksum leads: the event, then the file.
SumSteps_SaveFirst == [changed |-> "sumopen", raised |-> "eccinit", written |-> "sumraise"]
SumSteps == [changed |-> "sumraise", raised |-> "sumopen", written |-> "eccinit"]

CheckFactory ==
    /\ at = "sum"
    /\ \/ /\ checksum' = calculate_checksum
          /\ at' = IF sumfile = NoFile THEN "sumopen"
                   ELSE IF Differs(checksum') THEN SumSteps.changed ELSE "eccinit"
          /\ known' = IF sumfile = NoFile THEN known \cup {checksum'} ELSE known
          /\ UNCHANGED bounds
       \/ \* the partition cannot be walked
          /\ checksum' = NoFile /\ at' = "eccinit" /\ Fault
          /\ UNCHANGED <<known, ends, reboots>>
    /\ UNCHANGED <<start, tree, sumfile, ecc>>

RaiseFactory ==
    /\ at = "sumraise" /\ at' = SumSteps.raised
    /\ known' = known \cup {checksum}
    /\ UNCHANGED <<start, tree, sumfile, checksum, ecc, bounds>>

\* write_binary_file.
OpenSumFile ==
    /\ at = "sumopen"
    /\ \/ sumfile' = Torn /\ at' = "sumwrite" /\ UNCHANGED bounds
       \/ at' = "eccinit" /\ Fault /\ UNCHANGED <<sumfile, ends, reboots>>
    /\ UNCHANGED <<start, tree, checksum, known, ecc>>

WriteSumFile ==
    /\ at = "sumwrite" /\ at' = SumSteps.written
    /\ sumfile' = checksum
    /\ UNCHANGED <<start, tree, checksum, known, ecc, bounds>>

----------------------------------------------------------------------------
(* The memory errors. *)

\* ecc_event_handle for the counter c that stands at n.
ecc_event_handle(c, n) ==
    /\ repeated' = (repeated \/ n <= reported[c])
    /\ reported' = [reported EXCEPT ![c] = IF n > @ THEN n ELSE @]

\* A counter, or -1 when its file does not open.
check_ecc_error(c, opens) == IF opens THEN edac[c] ELSE -1

\* get_ecc_path walks sysfs and makes an entry of each counter.
get_ecc_path(unreadable) ==
    /\ list' = [c \in Counters |-> check_ecc_error(c, c \notin unreadable)]
    /\ fresh' = fresh \cap unreadable

\* init_ecc_handler: the file exists from here on, the list is read once.
InitEcc ==
    /\ \/ at = "eccinit" /\ at' = "restore"
       \/ at = "fatalinit" /\ at' = "fatal"
    /\ \/ get_ecc_path({}) /\ UNCHANGED bounds
       \/ \E c \in Counters : get_ecc_path({c}) /\ Fault /\ UNCHANGED <<ends, reboots>>
    /\ left' = Counters /\ stream' = [c \in Counters |-> Absent]
    /\ UNCHANGED <<start, factory, edac, backup, update, reported, excused, foreign,
                   repeated, exposed>>

\* restore_count for one entry: what the daemon missed while it was not there.
Missed_Never(c) == FALSE
Missed(c) == backup[c] < list[c]

RestoreCount(c) ==
    /\ at = "restore" /\ c \in left
    /\ left' = left \ {c}
    /\ IF list[c] > 0 \/ backup[c] > 0
       THEN /\ stream' = [stream EXCEPT ![c] = list[c]]
            /\ IF Missed(c) THEN ecc_event_handle(c, list[c])
               ELSE UNCHANGED <<repeated, reported>>
            /\ excused' = IF foreign /\ backup[c] >= list[c]
                          THEN [excused EXCEPT ![c] = list[c]] ELSE excused
       ELSE UNCHANGED <<stream, repeated, reported, excused>>
    /\ UNCHANGED <<at, start, factory, edac, list, backup, update, fresh, foreign,
                   exposed, bounds>>

Gathered == \E c \in Counters : stream[c] # Absent

RestoreEnd ==
    /\ at = "restore" /\ left = {}
    /\ at' = IF Gathered THEN "open" ELSE "select"
    /\ UNCHANGED <<start, factory, ecc, bounds>>

\* get_backup_count: a line without digits counts as none.
get_backup_count(n) == IF n > 0 THEN n ELSE 0

\* set_backup_count: the file is emptied, then written.
OpenBackup ==
    /\ at = "open"
    /\ \/ /\ backup' = [c \in Counters |-> 0] /\ at' = "save"
          /\ UNCHANGED bounds
       \/ at' = "select" /\ Fault /\ UNCHANGED <<backup, ends, reboots>>
    /\ UNCHANGED <<start, factory, edac, list, left, stream, update, fresh, reported,
                   excused, foreign, repeated, exposed>>

SaveBackup ==
    /\ at = "save" /\ at' = "select"
    /\ backup' = [c \in Counters |-> get_backup_count(stream[c])]
    /\ foreign' = FALSE
    /\ UNCHANGED <<start, factory, edac, list, left, stream, update, fresh, reported,
                   excused, repeated, exposed, bounds>>

\* The next turn of the loop of do_monitor.
NextTurn ==
    /\ at = "select" /\ at' = "handle"
    /\ left' = Counters /\ stream' = [c \in Counters |-> Absent]
    /\ update' = FALSE
    /\ UNCHANGED <<start, factory, edac, list, backup, fresh, reported, excused, foreign,
                   repeated, exposed, bounds>>

\* ecc_count_handle for one entry whose file shows n.
Handle(c, n) ==
    IF n > 0
    THEN /\ stream' = [stream EXCEPT ![c] = n]
         /\ IF n > list[c]
            THEN /\ list' = [list EXCEPT ![c] = n]
                 /\ ecc_event_handle(c, n)
                 /\ update' = TRUE
            ELSE UNCHANGED <<list, repeated, reported, update>>
    ELSE UNCHANGED <<stream, list, repeated, reported, update>>

EccCountHandle(c) ==
    /\ at = "handle" /\ c \in left
    /\ left' = left \ {c}
    /\ \/ Handle(c, check_ecc_error(c, TRUE)) /\ fresh' = fresh \ {c} /\ UNCHANGED bounds
       \/ Handle(c, check_ecc_error(c, FALSE)) /\ Fault /\ UNCHANGED <<fresh, ends, reboots>>
    /\ UNCHANGED <<at, start, factory, edac, backup, excused, foreign, exposed>>

\* The counts are saved when one of them was told.
EccCountEnd ==
    /\ at = "handle" /\ left = {}
    /\ at' = IF update THEN "open" ELSE "select"
    /\ UNCHANGED <<start, factory, ecc, bounds>>

\* fatal_ecc_err_check: the command that should remove the backup names no
\* program, "/vendor/bin/rm" and the path being one word, and the file stays.
FatalEccCheck(c) ==
    /\ at = "fatal" /\ c \in left
    /\ left' = left \ {c}
    /\ IF list[c] > 0 /\ Missed(c) THEN ecc_event_handle(c, list[c])
       ELSE UNCHANGED <<repeated, reported>>
    /\ UNCHANGED <<at, start, factory, edac, list, backup, stream, update, fresh,
                   excused, foreign, exposed, bounds>>

\* do_ramdump_checks goes on to other checks and resets the device.
FatalEccEnd ==
    /\ at = "fatal" /\ left = {} /\ at' = "reset"
    /\ UNCHANGED <<start, factory, ecc, bounds>>

----------------------------------------------------------------------------
(* The daemon and the device. *)

\* main: early_check and what it does once per boot, or only do_monitor.
StartDaemon ==
    /\ at = "down" /\ at' = IF ran THEN "sum" ELSE "fw"
    /\ UNCHANGED <<start, factory, ecc, bounds>>

\* The daemon ends; a failed update it has cleared and not told is lost.
EndDaemon ==
    /\ at \in Running \ {"fatalinit", "fatal", "reset"} /\ ends < MaxEnds
    /\ at' = "down" /\ ends' = ends + 1
    /\ exposed' = (exposed \/ \E c \in Counters : reported[c] > backup[c])
    /\ fwdue' = (fwdue /\ ~(at = "fwraise" /\ ~fwstatus))
    /\ fresh' = {c \in Counters : edac[c] > 0}
    /\ UNCHANGED <<ran, fwstatus, factory, edac, list, backup, left, stream, update,
                   reported, excused, foreign, repeated, reboots, faults>>

\* The kernel counts an error of the memory.
Errors == MapThenSumSet(LAMBDA d : edac[d], Counters)
CountError(c) ==
    /\ at # "off" /\ Errors < MaxCount
    /\ edac' = [edac EXCEPT ![c] = @ + 1]
    /\ fresh' = fresh \cup {c}
    /\ UNCHANGED <<at, start, factory, list, backup, left, stream, update, reported,
                   excused, foreign, repeated, exposed, bounds>>

\* The device goes down with the daemon.
ShutDown ==
    /\ at # "off" /\ reboots < MaxReboots
    /\ at' = "off" /\ reboots' = reboots + 1
    /\ fwdue' = (fwdue /\ ~(at = "fwraise" /\ ~fwstatus))
    /\ UNCHANGED <<ran, fwstatus, factory, ecc, ends, faults>>

\* It comes back, perhaps with another factory partition or after an update of
\* the firmware, to the system or to the ramdump, which another boot follows.
SwitchOn ==
    /\ at = "off"
    /\ at' = "down" \/ (at' = "fatalinit" /\ reboots < MaxReboots)
    /\ ran' = FALSE
    /\ \/ fwstatus' = TRUE /\ fwdue' = TRUE /\ UNCHANGED tree
       \/ tree' \in [Paths -> Contents] /\ UNCHANGED <<fwstatus, fwdue>>
    /\ edac' = [c \in Counters |-> 0]
    /\ fresh' = {} /\ repeated' = FALSE /\ exposed' = FALSE /\ foreign' = TRUE
    /\ reported' = [c \in Counters |-> 0] /\ excused' = [c \in Counters |-> 0]
    /\ UNCHANGED <<sumfile, checksum, known, list, backup, left, stream, update, bounds>>

DInit ==
    /\ at = "off" /\ ran = FALSE /\ fwstatus = FALSE /\ fwdue = FALSE
    /\ tree = [p \in Paths |-> "a"] /\ sumfile = NoFile /\ checksum = NoFile
    /\ known = {}
    /\ edac = [c \in Counters |-> 0] /\ list = edac /\ backup = edac
    /\ left = {} /\ stream = [c \in Counters |-> Absent] /\ update = FALSE
    /\ fresh = {} /\ reported = edac /\ excused = edac
    /\ foreign = FALSE /\ repeated = FALSE /\ exposed = FALSE
    /\ ends = 0 /\ reboots = 0 /\ faults = 0

DNext ==
    \/ CheckFwUpdate \/ ClearFwUpdate \/ RaiseFwUpdate \/ SetToken
    \/ CheckFactory \/ RaiseFactory \/ OpenSumFile \/ WriteSumFile
    \/ InitEcc \/ RestoreEnd \/ OpenBackup \/ SaveBackup \/ NextTurn
    \/ EccCountEnd \/ FatalEccEnd
    \/ \E c \in Counters : \/ RestoreCount(c) \/ EccCountHandle(c)
                           \/ FatalEccCheck(c) \/ CountError(c)
    \/ StartDaemon \/ EndDaemon \/ ShutDown \/ SwitchOn

DSpec == DInit /\ [][DNext]_dvars

----------------------------------------------------------------------------
(* Properties. *)

\* Every memory error the kernel has counted when a turn of the main loop reads
\* the counters has been told by the end of the turn, through any number of ends
\* of the daemon, except one that restore_count finds below the count another
\* boot left in the backup.  And none is told again but what the last daemon told
\* and did not get into its backup, or what it could not read.
MemoryErrorsTold ==
    /\ at = "select" =>
          \A c \in Counters : edac[c] > 0 /\ c \notin fresh =>
              edac[c] \in {reported[c], excused[c]}
    /\ repeated => exposed \/ faults > 0

\* Once check_factory_partition_checksum is through, the content it has seen is
\* told, or was the first; a kill on the way delays the event to the next start.
\* Told once, that is: when the file could not be replaced after the event and
\* the partition is then put back, the return is not told.
FactoryChangeTold ==
    at \in {"eccinit", "restore", "open", "save", "select", "handle"} =>
        checksum = NoFile \/ checksum \in known
=============================================================================
