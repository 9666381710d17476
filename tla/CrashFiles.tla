---------------------------- MODULE CrashFiles ----------------------------
(***************************************************************************)
(* From a file in a watched directory to the event that reports it: the    *)
(* callbacks of the file monitor (crashlog/usercrash.c, dropbox.c,         *)
(* trigger.c, process_info_and_error of crashutils.c), run by              *)
(* receive_inotify_events while the writers of the files go on and         *)
(* logcat rotates the logs the callbacks copy.                             *)
(*                                                                         *)
(* A file is the same file through its renames: disk[f] is the number of   *)
(* its present name.  Type "crash" stands for every dropbox file that may  *)
(* be renamed (the ANR callback differs in the extra files it copies),     *)
(* "pb" for the second file of a tombstone.  TOMBSTONE_DIR_MASK has        *)
(* IN_CREATE besides the IN_CLOSE_WRITE of BASE_DIR_MASK: both files of a  *)
(* tombstone are told twice, when made and when closed.  The logs are      *)
(* CONFIG_APLOG's: written by logcat, never flushed or removed by the      *)
(* daemon.  The two inotify events of a rename are contiguous, as          *)
(* dropbox.c assumes.                                                      *)
(***************************************************************************)
EXTENDS Integers, Sequences, FiniteSets

CONSTANTS
    Files,        \* the files other processes write
    FileKinds,        \* what they may be: [type, depth, bplog]; depth is the
                  \* value of APLOG= in a trigger, -1 when it has none
    LogFiles,     \* log files logcat keeps: aplog, aplog.1, ...
    LogLimit,     \* MAXFILESIZE, in full log files
    PropDepth, PropPackets,   \* PROP_APLOG_DEPTH, PROP_APLOG_NB_PACKET
    MaxCookie, MaxRotate, MaxFaults, MaxKills   \* bounds of a behaviour

Renamed  == {"crash"}
Dropbox  == {"crash", "lost"}
Cores    == {"hprof", "core"}
Notes    == {"info", "stat"}
Triggers == {"bz", "aplog"}
Tombs    == {"tombstone", "pb"}
Types    == Tombs \cup Dropbox \cup Cores \cup Notes \cup Triggers

ASSUME CrashFilesAssumption ==
    /\ FileKinds \subseteq [type : Types, depth : -1 .. LogFiles, bplog : BOOLEAN]
    /\ LogFiles \in Nat \ {0, 1} /\ LogLimit \in Nat \ {0}
    /\ {PropDepth, PropPackets, MaxCookie, MaxRotate, MaxFaults, MaxKills} \subseteq Nat

VARIABLES
    kind,      \* file -> its kind
    disk,      \* file -> the number of its name, 0: not in the directory
    open,      \* the triggers and tombstones their writer has not closed
    cookie,    \* the last cookie the kernel gave to a rename
    events,    \* inotify events not read
    aplogs,    \* log index -> which log is there, 0: no file
    hole,      \* the index logcat moved away and not filled yet, or -1
    batch,     \* events read; the head is the one being handled
    at,        \* where its callback is
    previous,  \* previous_event_cookie, previous_filename
    log,       \* the log copy of the callback
    coredump,  \* PROP_COREDUMP is "1"
    reported,  \* file -> events raised for it
    infos,     \* INFO events of renames: the two names
    saved,     \* files copied to the folder of an event
    given_up,  \* <<file, mask>> of the events dropped, or without effect
    faults, kills

writers == <<kind, disk, open, cookie, events>>
logcat  == <<aplogs, hole>>
daemon  == <<batch, at, previous, log>>
results == <<reported, infos, saved, given_up>>
cvars    == <<writers, logcat, daemon, coredump, results, faults, kills>>

NoKind  == [type |-> "none", depth |-> -1, bplog |-> FALSE]
NoMove  == [cookie |-> 0, file |-> "none", name |-> 0]
NoLog   == [packet |-> 0, index |-> 0, depth |-> 0, packets |-> 0,
            dir |-> FALSE, got |-> <<>>, cut |-> FALSE, res |-> 0]
FileEvent(mask, f, name, c) == [mask |-> mask, file |-> f, name |-> name, cookie |-> c]

CInit ==
    /\ kind = [f \in Files |-> NoKind] /\ disk = [f \in Files |-> 0]
    /\ open = {} /\ cookie = 0 /\ events = <<>>
    /\ aplogs = [i \in 0 .. LogFiles - 1 |-> LogFiles - i] /\ hole = -1
    /\ batch = <<>> /\ at = "start" /\ previous = NoMove /\ log = NoLog
    /\ coredump \in BOOLEAN
    /\ reported = [f \in Files |-> 0]
    /\ infos = {} /\ saved = {} /\ given_up = {}
    /\ faults = 0 /\ kills = 0
-----------------------------------------------------------------------------
(* The writers of the files. *)

\* the mask a new file is watched with, when its event comes
MaskOf(type) == CASE type \in Renamed -> "moved_to"
                  [] type \in Tombs -> "create"
                  [] type \in Triggers -> "modify"
                  [] OTHER -> "close_write"

Appear(f, k) ==
    /\ kind[f] = NoKind /\ kind' = [kind EXCEPT ![f] = k]
    /\ disk' = [disk EXCEPT ![f] = 1]
    /\ k.type \in Renamed => cookie < MaxCookie
    /\ cookie' = IF k.type \in Renamed THEN cookie + 1 ELSE cookie
    /\ open' = IF k.type \in Triggers \cup Tombs THEN open \cup {f} ELSE open
    /\ events' = Append(events, FileEvent(MaskOf(k.type), f, 1,
                                    IF k.type \in Renamed THEN cookie' ELSE 0))
    /\ UNCHANGED <<logcat, daemon, coredump, results, faults, kills>>

\* also of a file already removed: the watch has no IN_EXCL_UNLINK
Close(f) ==
    /\ f \in open /\ open' = open \ {f}
    /\ events' = Append(events, FileEvent("close_write", f, 1, 0))
    /\ UNCHANGED <<kind, disk, cookie, logcat, daemon, coredump, results, faults, kills>>

Rename(f) ==
    /\ kind[f].type \in Renamed /\ disk[f] > 0 /\ cookie < MaxCookie
    /\ cookie' = cookie + 1 /\ disk' = [disk EXCEPT ![f] = @ + 1]
    /\ events' = events \o <<FileEvent("moved_from", f, disk[f], cookie'),
                           FileEvent("moved_to", f, disk'[f], cookie')>>
    /\ UNCHANGED <<kind, open, logcat, daemon, coredump, results, faults, kills>>

\* deleted (not watched), or moved to a directory that is not watched
Leave(f) ==
    /\ kind[f].type \in Renamed \cup {"tombstone"} /\ disk[f] > 0
    /\ disk' = [disk EXCEPT ![f] = 0]
    /\ \/ UNCHANGED <<cookie, events>>
       \/ /\ kind[f].type \in Renamed /\ cookie < MaxCookie /\ cookie' = cookie + 1
          /\ events' = Append(events, FileEvent("moved_from", f, disk[f], cookie'))
    /\ UNCHANGED <<kind, open, logcat, daemon, coredump, results, faults, kills>>

\* logcat renames the log files, the oldest first, and opens a new one
Rotate ==
    /\ LET n == aplogs[0] IN
       \/ /\ hole = -1 /\ n < LogFiles + MaxRotate /\ hole' = LogFiles - 2
          /\ aplogs' = [aplogs EXCEPT ![hole' + 1] = aplogs[hole'], ![hole'] = 0]
       \/ /\ hole > 0 /\ hole' = hole - 1
          /\ aplogs' = [aplogs EXCEPT ![hole] = aplogs[hole'], ![hole'] = 0]
       \/ /\ hole = 0 /\ hole' = -1
          /\ aplogs' = [aplogs EXCEPT ![0] = aplogs[1] + 1]
    /\ UNCHANGED <<writers, daemon, coredump, results, faults, kills>>
-----------------------------------------------------------------------------
(* The event loop. *)

Read ==
    /\ batch = <<>> /\ events # <<>>
    /\ \E n \in 1 .. Len(events) :
          batch' = SubSeq(events, 1, n) /\ events' = SubSeq(events, n + 1, Len(events))
    /\ UNCHANGED <<kind, disk, open, cookie, logcat, at, previous, log, coredump,
                   results, faults, kills>>

event       == Head(batch)
type        == kind[event.file].type
Handling(types, step) == batch # <<>> /\ type \in types /\ at = step
file_exists == disk[event.file] = event.name
Go(step)    == at' = step /\ UNCHANGED batch
\* the callback returned 0 or more
Done        == batch' = Tail(batch) /\ at' = "start" /\ log' = NoLog
Dropped(s)  == {<<s[i].file, s[i].mask>> : i \in DOMAIN s}
\* the callback returned a negative value: the rest of the batch is dropped
Failed(told) ==
    /\ batch' = <<>> /\ at' = "start" /\ log' = NoLog
    /\ given_up' = given_up \cup Dropped(IF told THEN Tail(batch) ELSE batch)

raise_event == reported' = [reported EXCEPT ![event.file] = @ + 1]
remove      == disk' = [disk EXCEPT ![event.file] = IF file_exists THEN 0 ELSE @]
Fault(ok)   == faults' = (IF ok THEN faults ELSE faults + 1) /\ faults' <= MaxFaults
\* the two outcomes of generate_crashlog_dir
generate_crashlog_dir(ok) == Fault(ok)

create_infoevent(from, to) == infos' = infos \cup {<<from, to>>}

IsDuplicate_NoCookie(e) ==
    \/ e.mask = "moved_from"
    \/ e.mask = "moved_to" /\ previous.cookie # 0

IsDuplicate(e) ==
    \/ e.mask = "moved_from"
    \/ e.mask = "moved_to" /\ previous.cookie # 0 /\ previous.cookie = e.cookie

manage_duplicate_dropbox_events_Unsaved ==
    /\ Handling(Dropbox, "start") /\ event.mask = "moved_from"
    /\ Done
    /\ UNCHANGED <<writers, logcat, previous, coredump, results, faults, kills>>

(* The first half of a rename is remembered, the second one that follows    *)
(* becomes an INFO event instead of a crash.                                *)
manage_duplicate_dropbox_events ==
    /\ Handling(Dropbox, "start") /\ IsDuplicate(event)
    /\ \/ /\ event.mask = "moved_from"
          /\ previous' = [cookie |-> event.cookie, file |-> event.file, name |-> event.name]
          /\ UNCHANGED infos
       \/ /\ event.mask = "moved_to" /\ previous' = NoMove
          /\ create_infoevent(<<previous.file, previous.name>>, <<event.file, event.name>>)
    /\ Done
    /\ UNCHANGED <<writers, logcat, coredump, reported, saved, given_up, faults, kills>>

-----------------------------------------------------------------------------
(* The callbacks up to the copy: with a folder and, but for lost files and  *)
(* triggers, with the file still there; otherwise they raise an event       *)
(* without a folder and fail.                                               *)
Begin(needed) ==
    /\ \E ok \in BOOLEAN :
          /\ generate_crashlog_dir(ok)
          /\ IF ok /\ (needed => file_exists)
                THEN Go("copy") /\ UNCHANGED <<log, reported, given_up>>
                ELSE raise_event /\ Failed(TRUE)
    /\ UNCHANGED <<writers, logcat, previous, coredump, infos, saved, kills>>

process_usercrash_event ==
    /\ Handling({"crash", "tombstone"}, "start")
    /\ type \in Dropbox => ~IsDuplicate(event)
    /\ Begin(TRUE)

ignore_pb_file ==
    /\ Handling({"pb"}, "start") /\ Done
    /\ UNCHANGED <<writers, logcat, previous, coredump, results, faults, kills>>

process_hprof_event ==
    /\ Handling({"hprof"}, "start") /\ coredump
    /\ Begin(TRUE)

process_apcore_event ==
    /\ Handling({"core"}, "start") /\ coredump
    /\ Begin(TRUE)

core_dump_disabled ==
    /\ Handling(Cores, "start") /\ ~coredump
    /\ Failed(FALSE)
    /\ UNCHANGED <<writers, logcat, previous, coredump, reported, infos, saved, faults, kills>>

process_lost_event ==
    /\ Handling({"lost"}, "start") /\ ~IsDuplicate(event)
    /\ Begin(FALSE)

process_info_and_error ==
    /\ Handling({"info"}, "start")
    /\ Begin(FALSE)

process_stat_event ==
    /\ Handling({"stat"}, "start")
    /\ Begin(FALSE)
-----------------------------------------------------------------------------
(* The copy of the file. *)

Copied(ok) == saved' = IF ok /\ file_exists THEN saved \cup {event.file} ELSE saved
MayCopy    == \E ok \in BOOLEAN : Fault(ok) /\ Copied(ok)

\* the callbacks do not look at what do_copy_tail returns: a heap dump is removed
\* though its copy failed
do_copy_tail ==
    /\ Handling({"crash", "tombstone", "hprof"}, "copy")
    /\ MayCopy
    /\ IF type = "hprof" THEN remove /\ Go("raise") ELSE UNCHANGED disk /\ Go("logs")
    /\ UNCHANGED <<kind, open, cookie, events, logcat, previous, log, coredump,
                   reported, infos, given_up, kills>>

do_copy ==
    /\ Handling({"lost"}, "copy")
    /\ MayCopy /\ Go("logs")
    /\ UNCHANGED <<writers, logcat, previous, log, coredump, reported, infos,
                   given_up, kills>>

\* the file and the data that goes with it, removed whatever was copied
copy_and_remove ==
    /\ Handling(Notes, "copy")
    /\ MayCopy /\ remove
    /\ \/ Go("raise")
       \/ type = "stat" /\ Go("logs")     \* USBBOGUS
    /\ UNCHANGED <<kind, open, cookie, events, logcat, previous, log, coredump,
                   reported, infos, given_up, kills>>

backup_apcoredump ==
    /\ Handling({"core"}, "copy")
    /\ \E ok \in BOOLEAN :
          /\ Fault(ok)
          /\ IF ok /\ file_exists THEN Copied(ok) /\ remove ELSE UNCHANGED <<saved, disk>>
    /\ Go("logs")
    /\ UNCHANGED <<kind, open, cookie, events, logcat, previous, log, coredump,
                   reported, infos, given_up, kills>>

-----------------------------------------------------------------------------
(* The copy of the logs, one file at a time, the newest first. *)

LogAt(i) == IF i \in DOMAIN aplogs THEN aplogs[i] ELSE 0
\* copy log i if it is there; cut: it is not because logcat is moving it
TakeLog(i)  == [log EXCEPT !.got = IF LogAt(i) = 0 THEN @ ELSE Append(@, LogAt(i)),
                        !.cut = @ \/ i = hole]
\* its copy failed, at once or before its end
MissLog     == [log EXCEPT !.cut = TRUE]

\* from the oldest file to the newest
do_copy_circular_Oldest ==
    /\ at = "logs"
    /\ LET i == LogFiles - 1 - log.index IN
       log' = [TakeLog(i) EXCEPT !.index = @ + 1]
    /\ IF log'.index = LogFiles THEN Go("raise") ELSE UNCHANGED <<at, batch>>
    /\ UNCHANGED <<writers, logcat, previous, coredump, results, faults, kills>>

\* ends with the first log that is not there or cannot be copied, or at the limit;
\* after one that was copied in part it goes on
do_copy_circular ==
    /\ at = "logs"
    /\ \/ /\ log' = [TakeLog(log.index) EXCEPT !.index = @ + 1]
          /\ IF LogAt(log.index) = 0 \/ Len(log'.got) = LogLimit
                THEN Go("raise") ELSE UNCHANGED <<at, batch>>
          /\ UNCHANGED faults
       \/ /\ LogAt(log.index) # 0 /\ Fault(FALSE)
          /\ log' = [MissLog EXCEPT !.index = @ + 1]
          /\ Go("raise") \/ UNCHANGED <<at, batch>>
    /\ UNCHANGED <<writers, logcat, previous, coredump, results, kills>>

Raise ==
    /\ at = "raise"
    /\ raise_event /\ Done
    /\ UNCHANGED <<writers, logcat, previous, coredump, infos, saved, given_up, faults, kills>>
-----------------------------------------------------------------------------
(* A trigger file asks for logs (process_log_event): with type "bz" one     *)
(* event with all of them, with "aplog" one event for each packet.          *)

get_value_in_file(value) == IF file_exists THEN value ELSE -1

read_trigger ==
    /\ Handling(Triggers, "start") /\ Go("packet")
    /\ LET depth == get_value_in_file(kind[event.file].depth) IN
       log' = [NoLog EXCEPT
                 !.depth   = IF depth >= 0 THEN depth ELSE PropDepth,
                 !.packets = IF depth >= 0 THEN 1 ELSE PropPackets,
                 !.res     = IF file_exists /\ ~kind[event.file].bplog THEN -1 ELSE 0]
    /\ UNCHANGED <<writers, logcat, previous, coredump, results, faults, kills>>

NextPacket(l) == [l EXCEPT !.packet = @ + 1, !.index = 0]
InPacket      == at = "packet" /\ log.packet < log.packets /\ log.index < log.depth
LogIndex      == log.packet * log.depth + log.index

\* one turn of the inner loop; the folder is made for the first log
copy_packet ==
    /\ InPacket
    /\ IF LogAt(LogIndex) = 0
          THEN /\ log' = [TakeLog(LogIndex) EXCEPT !.index = log.depth]    \* break
               /\ UNCHANGED <<at, batch, given_up, faults>>
          ELSE \E ok \in BOOLEAN :
                  /\ log.dir => ok
                  /\ generate_crashlog_dir(ok)
                  /\ IF ok THEN /\ log' = [TakeLog(LogIndex) EXCEPT !.index = @ + 1, !.dir = TRUE]
                                /\ UNCHANGED <<at, batch, given_up>>
                           ELSE Failed(reported[event.file] > 0)
    /\ UNCHANGED <<writers, logcat, previous, coredump, reported, infos, saved, kills>>

\* the result of its do_copy_tail is not looked at: the packet goes on without it
copy_packet_fails ==
    /\ InPacket /\ LogAt(LogIndex) # 0 /\ Fault(FALSE)
    /\ log' = [MissLog EXCEPT !.index = @ + 1, !.dir = TRUE]
    /\ UNCHANGED <<writers, logcat, batch, at, previous, coredump, results, kills>>

end_packet ==
    /\ at = "packet" /\ log.packet < log.packets /\ log.index >= log.depth
    /\ IF type = "aplog" /\ log.dir
          THEN raise_event /\ log' = [NextPacket(log) EXCEPT !.dir = FALSE]
          ELSE log' = NextPacket(log) /\ UNCHANGED reported
    /\ UNCHANGED <<writers, logcat, batch, at, previous, coredump, infos, saved,
                   given_up, faults, kills>>

\* after the last packet: the event of a bz, then the trigger is removed
end_trigger ==
    /\ at = "packet" /\ log.packet = log.packets
    /\ \E ok \in BOOLEAN :
          /\ (type = "aplog" \/ log.dir) => ok
          /\ generate_crashlog_dir(ok)
          /\ IF ~ok THEN Failed(FALSE) /\ UNCHANGED <<disk, reported, saved>>
             ELSE /\ remove /\ Copied(TRUE)
                  /\ IF type = "bz" THEN raise_event ELSE UNCHANGED reported
                  /\ IF log.res < 0 THEN Failed(reported'[event.file] > 0)
                     ELSE /\ Done
                          /\ given_up' = IF reported'[event.file] > 0 THEN given_up
                                         ELSE given_up \cup {<<event.file, "no log">>}
    /\ UNCHANGED <<kind, open, cookie, events, logcat, previous, coredump, infos, kills>>
-----------------------------------------------------------------------------
(* The daemon is killed: what is queued for it is gone, and the new one     *)
(* does not look at the files already there.                                *)
Kill ==
    /\ kills < MaxKills /\ kills' = kills + 1
    /\ events' = <<>> /\ batch' = <<>> /\ at' = "start"
    /\ previous' = NoMove /\ log' = NoLog
    /\ given_up' = given_up \cup Dropped(batch \o events)
    /\ UNCHANGED <<kind, disk, open, cookie, logcat, coredump, reported, infos, saved, faults>>

Stop ==
    /\ events = <<>> /\ batch = <<>> /\ open = {}
    /\ \A f \in Files : kind[f] # NoKind
    /\ UNCHANGED cvars

CNext ==
    \/ \E f \in Files : \/ \E k \in FileKinds : Appear(f, k)
                        \/ Close(f) \/ Rename(f) \/ Leave(f)
    \/ Rotate \/ Read
    \/ manage_duplicate_dropbox_events
    \/ process_usercrash_event \/ ignore_pb_file
    \/ process_hprof_event \/ process_apcore_event \/ core_dump_disabled
    \/ process_lost_event \/ process_info_and_error \/ process_stat_event
    \/ do_copy_tail \/ do_copy \/ copy_and_remove \/ backup_apcoredump
    \/ do_copy_circular \/ Raise
    \/ read_trigger \/ copy_packet \/ copy_packet_fails
    \/ end_packet \/ end_trigger
    \/ Kill \/ Stop

CSpec == CInit /\ [][CNext]_cvars
-----------------------------------------------------------------------------
(* A crash file is reported as a crash once, whatever it is renamed to, and *)
(* every INFO event of a rename names the old and the new name of one file: *)
(* manage_duplicate_dropbox_events keeps the two halves of a rename         *)
(* together over reads, other events and failed callbacks.  Only when the   *)
(* first half was dropped, behind a failed callback or by a kill, may the   *)
(* second one be taken for a new crash.  A tombstone may be reported a      *)
(* second time, no more: priv_process_usercrash_event does not know that    *)
(* the file it is told closed is the one it was told created.               *)
Announced(f) == IF kind[f].type \in Tombs THEN 2 ELSE 1
ReportedOnce ==
    /\ \A f \in Files : kind[f].type \notin Triggers =>
          reported[f] <= Announced(f) \/ <<f, "moved_from">> \in given_up
    /\ \A i \in infos : i[1][1] = i[2][1] /\ i[2][2] = i[1][2] + 1

(* When nothing is left to handle, every file was reported, even one that   *)
(* was renamed or deleted before its callback ran, or whose folder could    *)
(* not be made.  The exceptions are the second file of a tombstone, cores   *)
(* while PROP_COREDUMP is off, and what receive_inotify_events drops with   *)
(* the rest of a batch or a kill loses.  At every moment a core dump is in  *)
(* its directory or in the folder of an event, whatever copy failed.        *)
NotLost ==
    /\ events = <<>> /\ batch = <<>> /\ open = {} =>
          \A f \in Files : \/ kind[f].type \in {"none", "pb"}
                           \/ kind[f].type \in Cores /\ ~coredump
                           \/ reported[f] > 0
                           \/ \E why \in given_up : why[1] = f
    /\ \A f \in Files : kind[f].type = "core" => disk[f] > 0 \/ f \in saved

(* The logs of an event have no gap although logcat renames them, once or   *)
(* several times, while they are copied: after a log comes the next older   *)
(* one, or the same or a newer one if logcat rotated meanwhile, and         *)
(* do_copy_circular ends with the oldest one there is or at its limit;      *)
(* unless the copy came upon the very index logcat is moving, or a log      *)
(* could not be copied: do_copy_circular then ends, and process_log_event   *)
(* goes on without that log.                                                *)
LogsWhole ==
    ~log.cut =>
        /\ \A i \in 2 .. Len(log.got) : log.got[i] >= log.got[i-1] - 1
        /\ at = "raise" /\ log.index > 0 /\ Len(log.got) < LogLimit =>
              \A i \in DOMAIN aplogs : aplogs[i] # 0 => log.got[Len(log.got)] <= aplogs[i]
=============================================================================
