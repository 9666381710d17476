------------------------------ MODULE History ------------------------------
(***************************************************************************)
(* The history of crashlogd: the file history_event, its image in memory   *)
(* (crashlog/history.c) and the crash folders its lines refer to           *)
(* (generate_crashlog_dir of crashlog/fsutils.c).                          *)
(*                                                                         *)
(* The daemon is single threaded here: a handler of the main loop, or one  *)
(* of the checks made at startup, creates a crash folder if it needs one   *)
(* and raises its events one after the other (pending holds the events the *)
(* running handler has still to raise).  The daemon can be killed between  *)
(* any two steps and in the middle of the rewrite of the file, the file    *)
(* can be removed or cut by hand, and each system call of the update can   *)
(* fail.  A write of one line is all or nothing.                           *)
(***************************************************************************)
EXTENDS Integers, Sequences, FiniteSets

CONSTANTS
    MaxRecords,   \* MAX_RECORDS, the slots of historycache
    MaxHistFile,  \* MAX_RECORDS_HIST_FILE, the entries that trigger a trim
    MaxDirs,      \* gmaxfiles, the crash folder numbers in use
    CleanMax,     \* folders removed by one clean_crashlog_in_sd
    MaxKeys       \* bound: number of event ids generated in a behaviour

ASSUME RecordsAssumption ==
    /\ MaxRecords \in Nat \ {0}
    /\ MaxHistFile \in Nat /\ MaxHistFile > MaxRecords

ASSUME FoldersAssumption ==
    MaxDirs \in Nat \ {0} /\ CleanMax \in Nat \ {0}

ASSUME BoundAssumption == MaxKeys \in Nat

VARIABLES
    running,        \* the daemon process is up
    exists,         \* HISTORY_FILE exists
    history,        \* its lines, header included
    historycache,   \* the circular buffer, a line or Empty (NULL) per slot
    nextline,       \* next slot to fill, -1 before the file is cached
    fileentries,    \* what the daemon believes is in the file
    gabortcleansd,  \* no legacy folder left on the SD card
    pending,        \* events the running handler has still to raise
    folder,         \* folder number -> key of the folder there, 0 if none
    current,        \* CRASH_CURRENT_LOG, the next folder number
    lastkey,        \* number of event ids generated so far
    sdcard,         \* crash folders are created on the SD card
    synced,         \* history: no failure separates the cache and the file
    dropped         \* history: the event last reported as dropped, 0: none

fileVars   == <<exists, history>>
cacheVars  == <<historycache, nextline, fileentries>>
folderVars == <<folder, current>>
ghostVars  == <<synced, dropped>>
vars == <<running, fileVars, cacheVars, gabortcleansd, pending, folderVars,
          lastkey, sdcard, ghostVars>>
-----------------------------------------------------------------------------
(* Lines.  A line keeps what the code reads back from it: the event         *)
(* keyword, the event id (keys grow with the date in the line) and whether  *)
(* a log path follows.  The path contains the key, so a line and the folder *)
(* it refers to share it.                                                   *)

Events == {"CRASH", "DELETE", "EVENT"}
Marks  == {"NULL", "UPTIME", "SQUEEZED", "COLUMNS", "JUNK"}
Line   == [ev : Events \cup Marks, key : Nat, log : BOOLEAN]
Mark(m) == [ev |-> m, key |-> 0, log |-> FALSE]

Empty    == Mark("NULL")      \* a NULL slot of historycache
Uptime   == Mark("UPTIME")    \* the first line, 47 bytes
Squeezed == Mark("SQUEEZED")  \* the first line without its padding
Columns  == Mark("COLUMNS")   \* the second line
Junk     == Mark("JUNK")      \* what is left of a line written over

HeaderSize == 2               \* HIST_FILE_HEADER_SIZE
Header     == <<Uptime, Columns>>
Slots      == 0 .. MaxRecords - 1
Numbers    == 0 .. MaxDirs - 1
NoCache    == [i \in Slots |-> Empty]
NoFolders  == [n \in Numbers |-> 0]

(* The uptime line written over the start of the file.  It is longer than  *)
(* the squeezed line, which makes it run into the line that follows, and   *)
(* shorter than an event line, of which it leaves the end.                 *)
OverwriteFirst(h) ==
    CASE h = <<>>            -> <<Uptime>>
      [] h # <<>> /\ Head(h) = Uptime -> h
      [] h # <<>> /\ Head(h) = Squeezed ->
            IF Len(h) = 1 THEN <<Uptime>>
                          ELSE <<Uptime, Junk>> \o Tail(Tail(h))
      [] OTHER -> <<Uptime, Junk>> \o Tail(h)

(* cache_history_file on an existing file: the last MaxRecords lines after *)
(* the header are cached from slot 0 on.                                   *)
TailOffset(h) == IF Len(h) > HeaderSize + MaxRecords THEN Len(h) - MaxRecords
                                                     ELSE HeaderSize
Cached(h) == IF Len(h) > HeaderSize THEN Len(h) - TailOffset(h) ELSE 0

LoadedCache(h) ==
    IF Len(h) > HeaderSize
    THEN [i \in Slots |-> IF i < Cached(h) THEN h[TailOffset(h) + i + 1]
                                           ELSE Empty]
    ELSE historycache
LoadedNext_PastEnd(h) == (Cached(h) + 1) % MaxRecords  \* mutant
LoadedNext(h)    == Cached(h) % MaxRecords
LoadedEntries(h) == IF Len(h) > HeaderSize THEN Len(h) - HeaderSize ELSE 0

HeaderIntact(h) ==
    Len(h) >= HeaderSize /\ \A i \in 1 .. HeaderSize : h[i].key = 0

(* The file that update_history_file rewrites: header, then the circular   *)
(* buffer from nextline round to nextline - 1.                             *)
RingOrder_FromZero(c, n) == [j \in 1 .. MaxRecords |-> c[j - 1]]  \* mutant
RingOrder(c, n) == [j \in 1 .. MaxRecords |-> c[(n + j - 1) % MaxRecords]]
Trimmed(c, n)   == Header \o RingOrder(c, n)
-----------------------------------------------------------------------------
(* The opening of update_history_file: a missing file resets the cache and *)
(* is created with its header, a cache never loaded is loaded.             *)
FileNow    == IF exists THEN history ELSE Header

(* reset_history_cache looks at nextline and at slot 0 to tell whether      *)
(* there is anything to free: a full buffer whose slot 0 lost its line to a *)
(* failed strdup passes for an empty one and keeps its other lines.         *)
Emptied    == IF nextline > 0 \/ historycache[0] # Empty THEN NoCache
                                                         ELSE historycache
CacheNow   == IF ~exists THEN Emptied
              ELSE IF nextline < 0 THEN LoadedCache(history) ELSE historycache
NextNow    == IF ~exists THEN 0
              ELSE IF nextline < 0 THEN LoadedNext(history) ELSE nextline
EntriesNow_KeptOverReset ==   \* mutant: reset_history_cache keeps fileentries
              IF nextline < 0 THEN LoadedEntries(history) ELSE fileentries
EntriesNow == IF ~exists THEN 0
              ELSE IF nextline < 0 THEN LoadedEntries(history) ELSE fileentries
SyncedNow  == IF ~exists THEN Emptied = NoCache
              ELSE IF nextline < 0 THEN HeaderIntact(history) ELSE synced

Idle    == running /\ pending = <<>>
Raising == running /\ pending # <<>>
FreshKey == lastkey + 1

(* The new line goes into slot nextline, the oldest of a full buffer.       *)
StoredCache == [CacheNow EXCEPT ![NextNow] = Head(pending)]
StoredNext  == (NextNow + 1) % MaxRecords
StoreLine ==
    /\ Raising
    /\ historycache' = StoredCache
    /\ nextline' = StoredNext
    /\ pending' = Tail(pending)
    /\ UNCHANGED <<running, gabortcleansd, folderVars, lastkey>>

Drop == dropped' = Head(pending).key

(* Mutant of AppendLine: the counter is not moved.                          *)
AppendLine_Uncounted ==
    /\ StoreLine
    /\ EntriesNow + 1 < MaxHistFile
    /\ fileentries' = EntriesNow
    /\ exists' = TRUE
    /\ history' = Append(FileNow, Head(pending))
    /\ synced' = SyncedNow
    /\ UNCHANGED dropped

(* priv_raise_event with an update that only appends.                       *)
AppendLine ==
    /\ StoreLine
    /\ EntriesNow + 1 < MaxHistFile
    /\ fileentries' = EntriesNow + 1
    /\ exists' = TRUE
    /\ history' = Append(FileNow, Head(pending))
    /\ synced' = SyncedNow
    /\ UNCHANGED dropped

(* The append fails (append_file): the cache and the counter have already   *)
(* moved, the event is reported as dropped.                                 *)
AppendFails ==
    /\ StoreLine
    /\ EntriesNow + 1 < MaxHistFile
    /\ fileentries' = EntriesNow + 1
    /\ exists' = TRUE
    /\ history' = FileNow
    /\ synced' = FALSE
    /\ Drop

TrimFile_NotTruncated ==   \* mutant: opened for appending
    /\ StoreLine
    /\ EntriesNow + 1 >= MaxHistFile
    /\ fileentries' = MaxRecords
    /\ exists' = TRUE
    /\ history' = FileNow \o Trimmed(StoredCache, StoredNext)
    /\ synced' = TRUE
    /\ UNCHANGED dropped

(* The file reached MaxHistFile entries: it is rewritten from the buffer.   *)
TrimFile ==
    /\ StoreLine
    /\ EntriesNow + 1 >= MaxHistFile
    /\ fileentries' = MaxRecords
    /\ exists' = TRUE
    /\ history' = Trimmed(StoredCache, StoredNext)
    /\ synced' = TRUE
    /\ UNCHANGED dropped

(* The rewrite stops after n lines: a write failed.  fileentries keeps its  *)
(* incremented value.                                                       *)
TrimFails(n) ==
    /\ StoreLine
    /\ EntriesNow + 1 >= MaxHistFile
    /\ fileentries' = EntriesNow + 1
    /\ exists' = TRUE
    /\ history' = SubSeq(Trimmed(StoredCache, StoredNext), 1, n)
    /\ synced' = FALSE
    /\ Drop

(* The file cannot be opened for the rewrite and keeps its lines.           *)
TrimOpenFails ==
    /\ StoreLine
    /\ EntriesNow + 1 >= MaxHistFile
    /\ fileentries' = EntriesNow + 1
    /\ exists' = TRUE
    /\ history' = FileNow
    /\ synced' = FALSE
    /\ Drop

(* After reset_history_cache the file cannot be created: nextline and       *)
(* fileentries keep their old values.                                       *)
CreateFails ==
    /\ Raising
    /\ ~exists
    /\ historycache' = Emptied
    /\ pending' = Tail(pending)
    /\ Drop
    /\ UNCHANGED <<running, fileVars, nextline, fileentries, gabortcleansd,
                   folderVars, lastkey, synced>>

(* cache_file cannot read the file: the buffer is freed, nextline stays -1. *)
LoadFails ==
    /\ Raising
    /\ exists /\ nextline < 0 /\ Len(history) > HeaderSize
    /\ historycache' = NoCache
    /\ fileentries' = LoadedEntries(history)
    /\ pending' = Tail(pending)
    /\ Drop
    /\ UNCHANGED <<running, fileVars, nextline, gabortcleansd, folderVars,
                   lastkey, synced>>

(* strdup fails: the oldest line is gone and its slot is NULL.              *)
StrdupFails ==
    /\ Raising
    /\ historycache' = [CacheNow EXCEPT ![NextNow] = Empty]
    /\ nextline' = NextNow
    /\ fileentries' = EntriesNow
    /\ exists' = TRUE
    /\ history' = FileNow
    /\ synced' = FALSE
    /\ pending' = Tail(pending)
    /\ Drop
    /\ UNCHANGED <<running, gabortcleansd, folderVars, lastkey>>

UpdateHistoryFile ==
    \/ AppendLine \/ AppendFails
    \/ TrimFile \/ TrimOpenFails
    \/ \E n \in 0 .. HeaderSize + MaxRecords - 1 : TrimFails(n)
    \/ CreateFails \/ LoadFails \/ StrdupFails
-----------------------------------------------------------------------------
(* Handlers of the main loop.                                               *)

EventLine(e, l) == [ev |-> e, key |-> FreshKey, log |-> l]
NewKey == lastkey < MaxKeys /\ lastkey' = FreshKey

(* A handler that only raises an event.                                     *)
HandleEvent ==
    /\ Idle /\ NewKey
    /\ pending' = <<EventLine("EVENT", FALSE)>>
    /\ UNCHANGED <<running, fileVars, cacheVars, gabortcleansd, folderVars,
                   ghostVars>>

(* generate_crashlog_dir: the number is taken and the next one written, the *)
(* folders of that number are removed, the new one is created.  The history *)
(* is only looked up for the new path, which does not exist at that point.  *)
GenerateCrashlogDir(k) ==
    /\ folder' = [folder EXCEPT ![current] = k]
    /\ current' = (current + 1) % MaxDirs

(* A handler of a crash: the folder first, the event is raised once the     *)
(* logs are copied.                                                         *)
HandleCrash ==
    /\ Idle /\ NewKey
    /\ GenerateCrashlogDir(FreshKey)
    /\ pending' = <<EventLine("CRASH", TRUE)>>
    /\ UNCHANGED <<running, fileVars, cacheVars, gabortcleansd, ghostVars>>

(* No space left for logs: the event is raised without a folder.            *)
HandleCrashNoSpace ==
    /\ Idle /\ NewKey
    /\ pending' = <<EventLine("CRASH", FALSE)>>
    /\ UNCHANGED <<running, fileVars, cacheVars, gabortcleansd, folderVars,
                   ghostVars>>

(* mkdir fails: the number is used up and its old folder removed; an error  *)
(* event (its log is LOGINFO_DIR, not a crash folder) comes before the      *)
(* event itself.                                                            *)
HandleCrashMkdirFails ==
    /\ Idle /\ lastkey + 2 <= MaxKeys /\ lastkey' = lastkey + 2
    /\ GenerateCrashlogDir(0)
    /\ pending' = <<EventLine("EVENT", FALSE),
                    [ev |-> "CRASH", key |-> lastkey + 2, log |-> FALSE]>>
    /\ UNCHANGED <<running, fileVars, cacheVars, gabortcleansd, ghostVars>>

(* update_history_on_cmd_delete for one event id of the command: the        *)
(* keyword is replaced in the file and the folder removed.                  *)
CmdDelete(k) ==
    /\ Idle /\ exists
    /\ \E i \in 1 .. Len(history) :
          /\ history[i] = [ev |-> "CRASH", key |-> k, log |-> TRUE]
          /\ history' = [history EXCEPT ![i] =
                            [ev |-> "DELETE", key |-> k, log |-> TRUE]]
    /\ folder' = [n \in Numbers |-> IF folder[n] = k THEN 0 ELSE folder[n]]
    /\ UNCHANGED <<running, exists, cacheVars, gabortcleansd, pending,
                   current, lastkey, ghostVars>>

(* history_has_event over the buffer that clean_crashlog_in_sd consults.    *)
HasEvent_LastSlotMissed(c, k) ==  \* mutant
    \E i \in Slots \ {MaxRecords - 1} : c[i].key = k /\ c[i].log
HasEvent(c, k) == \E i \in Slots : c[i].key = k /\ c[i].log
Legacy(c) == {n \in Numbers : folder[n] # 0 /\ ~HasEvent(c, folder[n])}
CleaningSd == sdcard /\ ~gabortcleansd

(* add_uptime_event: remove up to CleanMax legacy folders of the SD card,   *)
(* write the uptime line over the first one, raise an uptime event when one *)
(* is due.                                                                  *)
AddUptimeEvent ==
    /\ Idle /\ exists
    /\ IF CleaningSd /\ folder # NoFolders
       THEN /\ historycache' = CacheNow /\ nextline' = NextNow
            /\ fileentries' = EntriesNow
            /\ \E gone \in SUBSET Legacy(CacheNow) :
                  /\ Cardinality(gone) <= CleanMax
                  /\ Cardinality(gone) < CleanMax => gone = Legacy(CacheNow)
                  /\ folder' = [n \in Numbers |->
                                   IF n \in gone THEN 0 ELSE folder[n]]
                  /\ gabortcleansd' = (Cardinality(gone) < CleanMax)
       ELSE /\ UNCHANGED <<cacheVars, folder>>
            /\ gabortcleansd' = TRUE
    /\ history' = OverwriteFirst(history)
    /\ synced' = (SyncedNow /\ history' = history)
    /\ \/ /\ NewKey /\ pending' = <<EventLine("EVENT", FALSE)>>
       \/ UNCHANGED <<lastkey, pending>>
    /\ UNCHANGED <<running, exists, current, dropped>>
-----------------------------------------------------------------------------
(* Start and end of the process.                                            *)

(* uptime_history: a readable first line is reset and a line with the       *)
(* uptime of the last boot appended, without touching the cache.            *)
UptimeHistory ==
    IF /\ exists /\ history # <<>>
       /\ Head(history) \in {Uptime, Squeezed}
    THEN /\ NewKey
         /\ history' = Append(OverwriteFirst(history), EventLine("EVENT", FALSE))
    ELSE UNCHANGED <<history, lastkey>>

StartVolatile ==
    /\ ~running /\ running' = TRUE
    /\ historycache' = NoCache
    /\ gabortcleansd' = FALSE

(* main in nominal mode, same build as before.                              *)
Start ==
    /\ StartVolatile
    /\ nextline' = -1 /\ fileentries' = 0
    /\ UptimeHistory
    /\ synced' = FALSE
    /\ UNCHANGED <<exists, pending, folderVars, dropped>>

(* main in minimal mode: update_history is not called.                      *)
StartMinimal ==
    /\ StartVolatile
    /\ nextline' = -1 /\ fileentries' = 0
    /\ synced' = FALSE
    /\ UNCHANGED <<fileVars, pending, folderVars, lastkey, dropped>>

(* main in nominal mode after a software update (reset_after_swupdate): the *)
(* one-line file left by reset_file is cached as empty, then the header is  *)
(* written and the folders of LOGS_DIR removed.                             *)
StartSwUpdate ==
    /\ StartVolatile /\ NewKey
    /\ nextline' = 0 /\ fileentries' = 0
    /\ exists' = TRUE /\ history' = Header
    /\ current' = 0
    /\ folder' = IF sdcard THEN folder ELSE NoFolders
    /\ pending' = <<EventLine("EVENT", FALSE)>>
    /\ synced' = TRUE
    /\ UNCHANGED dropped

Die ==
    /\ running' = FALSE
    /\ historycache' = NoCache /\ nextline' = -1 /\ fileentries' = 0
    /\ gabortcleansd' = FALSE
    /\ pending' = <<>>
    /\ synced' = FALSE /\ dropped' = 0

(* The daemon is killed between two steps: crash, watchdog or power loss.   *)
Kill ==
    /\ running /\ Die
    /\ UNCHANGED <<fileVars, folderVars, lastkey>>

(* It is killed while it rewrites the file, n lines are written.            *)
KillInTrim(n) ==
    /\ Raising /\ Die
    /\ EntriesNow + 1 >= MaxHistFile
    /\ exists' = TRUE
    /\ history' = SubSeq(Trimmed(StoredCache, StoredNext), 1, n)
    /\ UNCHANGED <<folderVars, lastkey>>
-----------------------------------------------------------------------------
(* What happens to the file from outside.                                   *)

(* The file is removed.                                                     *)
RemoveHistory ==
    /\ exists
    /\ exists' = FALSE /\ history' = <<>>
    /\ UNCHANGED <<running, cacheVars, gabortcleansd, pending, folderVars,
                   lastkey, ghostVars>>

(* del_hist.sh: only the first line stays, without its padding.             *)
DelHist ==
    /\ exists /\ history # <<>>
    /\ history' = <<IF Head(history) \in {Uptime, Squeezed} THEN Squeezed
                                                            ELSE Junk>>
    /\ synced' = FALSE
    /\ UNCHANGED <<running, exists, cacheVars, gabortcleansd, pending,
                   folderVars, lastkey, dropped>>
-----------------------------------------------------------------------------
Init ==
    /\ running = FALSE
    /\ exists = FALSE /\ history = <<>>
    /\ historycache = NoCache /\ nextline = -1 /\ fileentries = 0
    /\ gabortcleansd = FALSE
    /\ pending = <<>>
    /\ folder = NoFolders /\ current = 0
    /\ lastkey = 0 /\ sdcard \in BOOLEAN
    /\ synced = FALSE /\ dropped = 0

Step ==
    \/ Start \/ StartMinimal \/ StartSwUpdate
    \/ HandleEvent \/ HandleCrash \/ HandleCrashNoSpace \/ HandleCrashMkdirFails
    \/ UpdateHistoryFile
    \/ \E k \in 1 .. MaxKeys : CmdDelete(k)
    \/ AddUptimeEvent
    \/ Kill \/ \E n \in 0 .. HeaderSize + MaxRecords - 1 : KillInTrim(n)
    \/ RemoveHistory \/ DelHist

(* The place of the folders does not change during a behaviour.             *)
Next == Step /\ UNCHANGED sdcard

Spec == Init /\ [][Next]_vars
-----------------------------------------------------------------------------
(* Properties.                                                              *)

Loaded == running /\ exists /\ nextline >= 0

DataOK ==
    /\ running \in BOOLEAN /\ exists \in BOOLEAN
    /\ history \in Seq(Line)
    /\ historycache \in [Slots -> Line]
    /\ nextline \in -1 .. MaxRecords - 1
    /\ fileentries \in Nat
    /\ gabortcleansd \in BOOLEAN
    /\ pending \in Seq(Line)
    /\ folder \in [Numbers -> Nat] /\ current \in Numbers
    /\ lastkey \in Nat
    /\ synced \in BOOLEAN /\ dropped \in Nat
(* Type correctness of the file, the cache and the folders.                 *)
TypeOK == DataOK /\ sdcard \in BOOLEAN

(* The rewrite of the file calls strlen on every slot (history.c:299-313).  *)
(* Whenever the next event makes the file reach MaxHistFile entries, every  *)
(* slot but the one that event fills holds a line: after a load, a reset of *)
(* the cache, failed updates and failed allocations alike.                  *)
TrimReadsNoHole ==
    running /\ EntriesNow + 1 >= MaxHistFile =>
        \A i \in Slots \ {NextNow} : CacheNow[i] # Empty

(* fileentries, kept by hand, falls at most one line behind the file (the   *)
(* uptime line put in front of a file that lost its header in a rewrite cut *)
(* short): a file that grew without being counted would not be trimmed.     *)
CounterCoversFile == Loaded => Len(history) <= fileentries + HeaderSize + 1

(* A daemon that has cached the file never lets a step make the file grow   *)
(* past MaxHistFile lines after the header, whatever failed before.         *)
GrowthOK ==
    nextline' >= 0 /\ Len(history') > Len(history) =>
        Len(history') <= HeaderSize + MaxHistFile
GrowthBounded == [][GrowthOK]_vars

(* Event lines stay in the order the events were raised, without            *)
(* duplicates: over appends, rotations of the buffer, failed rewrites,      *)
(* reloads after a restart and lines overwritten by the uptime.             *)
Ordered(h) ==
    \A i, j \in 1 .. Len(h) :
        i < j /\ h[i].key # 0 /\ h[j].key # 0 => h[i].key < h[j].key
Chronological == Ordered(history)

(* "A circular buffer [...] has its content synchronized on the history     *)
(* file content" (history.c:23): read back from nextline the buffer holds   *)
(* the same events as the file read back from its end, as many as both can  *)
(* hold, and its other slots are NULL, since it was loaded or the file last *)
(* rewritten, as long as no system call failed.  A failed strdup can leave  *)
(* lines behind in a reset (Emptied); they are not in the new file, and the *)
(* two match again at the latest when the file is rewritten.                *)
TailOf(c, n, h) ==
    \A j \in 1 .. MaxRecords :
        LET slot == c[(n + MaxRecords - j) % MaxRecords]
        IN  IF j <= Len(h) - HeaderSize
            THEN slot # Empty /\ slot.key = h[Len(h) + 1 - j].key
            ELSE slot = Empty
CacheIsTailOfFile == Loaded /\ synced => TailOf(historycache, nextline, history)

(* The inductive invariant behind TrimReadsNoHole, CounterCoversFile and    *)
(* GrowthBounded.  No line is the NULL mark; slots are filled from 0 on and *)
(* all but the next one once the counter reached MaxRecords; the counter is *)
(* nextline before that.                                                    *)
NoNullLine ==
    /\ \A i \in 1 .. Len(history) : history[i] # Empty
    /\ \A i \in 1 .. Len(pending) : pending[i] # Empty
CacheFilled ==
    exists /\ nextline >= 0 =>
        /\ \A i \in Slots : i < nextline => historycache[i] # Empty
        /\ fileentries >= MaxRecords =>
              \A i \in Slots \ {nextline} : historycache[i] # Empty
        /\ fileentries < MaxRecords => nextline = fileentries
Headless(h) == h = <<>> \/ Head(h) \notin {Uptime, Squeezed}
LinesCounted ==
    /\ exists /\ nextline >= 0 =>
          /\ Len(history) <= fileentries + HeaderSize + 1
          /\ Headless(history) => Len(history) <= fileentries + HeaderSize
    /\ Headless(history) => Len(history) <= MaxHistFile + 1
IInv == DataOK /\ NoNullLine /\ CacheFilled /\ LinesCounted

(* A folder number is taken again only when its folder is the oldest one.   *)
(* Not on the SD card, where a software update keeps the folders and starts *)
(* again at number 0.                                                       *)
RecycleOldest ==
    \A n, m \in Numbers :
        /\ folder[n] # 0 /\ folder'[n] # folder[n]
        /\ current' # current \/ MaxDirs = 1
        /\ running /\ ~sdcard
        /\ folder[m] # 0
        => folder[n] <= folder[m]

(* clean_crashlog_in_sd only removes legacy folders: not the folder of an   *)
(* event that is one of the last MaxRecords lines of an intact history.     *)
CleanKeepsRecent ==
    \A n \in Numbers, i \in 1 .. Len(history) :
        /\ running /\ running' /\ synced' /\ nextline' >= 0
        /\ current' = current /\ MaxDirs > 1 /\ pending = <<>>
        /\ folder[n] # 0 /\ folder'[n] = 0
        /\ i > Len(history) - MaxRecords
        => history[i].key # folder[n] \/ history'[i].ev = "DELETE"

(* The logs kept are those of the latest crashes: neither the ring of       *)
(* folder numbers nor the clean-up of the SD card takes a folder that is    *)
(* wanted more than another.                                                *)
LatestLogsKept == [][RecycleOldest /\ CleanKeepsRecent]_vars

(* update_history_on_cmd_delete: "The CRASH keyword is replaced by DELETE   *)
(* keyword" (history.c:495).  A line once marked DELETE keeps the mark as   *)
(* long as the event is in the file.                                        *)
Has(h, k, e) == \E i \in 1 .. Len(h) : h[i].key = k /\ h[i].ev = e
DeletedStaysDeleted ==
    [][\A k \in 1 .. MaxKeys :
          Has(history, k, "DELETE") => ~Has(history', k, "CRASH")]_vars

-----------------------------------------------------------------------------
(* What comments of the code promise and the code does not keep: TLC finds  *)
(* each of these violated.  README, "Disagreements", tells how.             *)

(* generate_crashlog_dir: "Check if directory is already in history, and    *)
(* delete path" (fsutils.c:703).  A crash line with a path names a folder   *)
(* that is there.                                                           *)
NoDanglingPath ==
    \A i \in 1 .. Len(history) :
        history[i].ev = "CRASH" /\ history[i].log =>
            \E n \in Numbers : folder[n] = history[i].key

(* priv_raise_event: "Cannot update the history file (%s), drop the event"  *)
(* (crashutils.c:585).  The event last dropped by the running daemon does   *)
(* not show up in the file.                                                 *)
DroppedStaysOut ==
    \A i \in 1 .. Len(history) : history[i].key # 0 => history[i].key # dropped
=============================================================================
