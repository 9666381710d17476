----------------------------- MODULE EventWatch -----------------------------
(* log-watch (src/log-watch): a reader feeds log items to a watcher, which  *)
(* runs in a thread of its own, collects items into records and reports     *)
(* events.  main (logwatch.cpp) waits for the thread when the source ends.  *)
(*                                                                          *)
(* An item is its number, time stamp, priority and the pattern its text     *)
(* matches.  The thread's private state is one record w; what it shares     *)
(* with main (mailbox, semaphore, accept_data) changes under the mutex.     *)
EXTENDS Integers, Sequences, FiniteSets

CONSTANTS
    Configs,          \* watchers as written in the configuration file
    MailboxLimit,     \* MAILBOX_MAX_LIMIT
    SuspendLimit,     \* SUSPEND_RECORDS_MAX_LIMIT
    DefaultCount,     \* DEFAULT_MAX_COUNT
    DefaultInterval,  \* DEFAULT_MAX_INTERVAL
    MaxPolls,         \* max_wait * 4: looks at a command before it is killed
    MaxItems,         \* bound: items read in a behaviour
    MaxTime,          \* bound: the time of the last item
    MaxRuns           \* bound: times log-watch is started

ASSUME LimitsAssumption ==
    {MailboxLimit, SuspendLimit, DefaultCount, DefaultInterval, MaxPolls}
        \subseteq Nat \ {0}
(* What the configuration file may give, Absent (-1) or any other number.   *)
RawConfigs ==
    [source : {"kmsg", "uevent", "logd"}, prios : SUBSET Nat, nonblock : BOOLEAN,
     root : BOOLEAN, start : BOOLEAN, end : BOOLEAN, validation : BOOLEAN,
     body : BOOLEAN, min_level : Int, max_level : Int, max_items : Int,
     max_records : Int,
     flush_timeout : Int, mailbox_max : Int, max_suspend_records : Int,
     max_event_count : Int, max_event_interval : Int,
     event_suspend_interval : Int, keep_last : Int,
     attachment : [src : BOOLEAN, dst : BOOLEAN, exec : BOOLEAN]]
ASSUME ConfigsAssumption == Configs \subseteq RawConfigs
ASSUME EWBoundAssumption == {MaxItems, MaxTime, MaxRuns} \subseteq Nat

VARIABLES
    cfg,           \* the watcher's parameters, after LwConfig::load
    main,          \* main: "first", "loop", "feed", "start", "push", "join", "over"
    item, ending,  \* the item main holds; it came after the first and is the end
    last,          \* KmsgReader: last_prio, last_timestamp
    clock, lastid, runs,
    mailbox, items_available, accept_data, thread_state, kill_reason,
    pc,            \* the thread: "none", "entry", "wait", "process", "attach",
                   \* "exec", "log", "exit"
    li,            \* the item the thread took
    w,             \* EventWatch's execution state used by the thread only
    child, polls,  \* the command of an attachment: "none", "runs" or "ended"
    dirs,          \* output directories: run and number
    told, times,   \* history: items of the reported records, times of the events
    reported,      \* history: time of the item the last event was reported at
    stuck          \* history: directories whose removal failed

mainVars   == <<main, item, ending, last, clock, lastid, runs>>
sharedVars == <<mailbox, items_available, accept_data, kill_reason>>
childVars  == <<child, polls>>
threadVars == <<thread_state, pc, li, w, childVars>>
historyVars == <<told, times, reported, stuck>>
vars == <<cfg, mainVars, sharedVars, threadVars, dirs, historyVars>>

(* What the text matches, as far as the watcher's patterns tell, and the    *)
(* priorities that the source's messages have.                              *)
Texts ==
    [kind : {"start", "other"} \cup (IF cfg.end THEN {"end"} ELSE {})
                \cup (IF cfg.validation THEN {"valid"} ELSE {})
                \cup (IF cfg.body THEN {"body"} ELSE {}),
     prio : cfg.prios]
Eof   == [id |-> 0, ts |-> 0, prio |-> 0, kind |-> "eof"]
Blank == [id |-> 0, ts |-> 0, prio |-> 0, kind |-> "empty"]
Absent == -1
-----------------------------------------------------------------------------
(* LwConfig::load and the setters of EventWatch: what a written parameter   *)
(* becomes.  Absent is a parameter that the file does not give.             *)

Positive(v, default) == IF v > 0 THEN v ELSE default
Level(v, default)    == IF v > 0 THEN v % 256 ELSE default  \* unsigned char

(* setMaxEvents: a rate above the default one is replaced by it.            *)
TooMany(count, interval) ==
    interval # 0 /\ (count * 100) \div interval
                        > (DefaultCount * 100) \div DefaultInterval
MaxEvents(raw) ==
    LET count    == Positive(raw.max_event_count, DefaultCount)
        interval == IF raw.max_event_interval >= 0 THEN raw.max_event_interval
                                                   ELSE DefaultInterval
    IN  IF TooMany(count, interval)
        THEN [count |-> DefaultCount, interval |-> DefaultInterval]
        ELSE [count |-> count, interval |-> interval]

(* setMailboxMax caps the size.  setMaxSuspendRecords, above its limit,     *)
(* assigns the limit to mailbox_max and leaves max_suspend_records at 0.    *)
Mailbox(raw) ==
    IF raw.mailbox_max > 0
    THEN IF raw.mailbox_max > MailboxLimit THEN MailboxLimit ELSE raw.mailbox_max
    ELSE IF raw.max_suspend_records > SuspendLimit THEN SuspendLimit
                                                   ELSE MailboxLimit
SuspendRecords(raw) ==
    IF raw.max_suspend_records \in 1 .. SuspendLimit THEN raw.max_suspend_records
                                                     ELSE 0

Watcher(raw) ==
    [source |-> raw.source, prios |-> raw.prios, nonblock |-> raw.nonblock,
     end |-> raw.end, validation |-> raw.validation, body |-> raw.body,
     min_level |-> Level(raw.min_level, 0),
     max_level |-> Level(raw.max_level, 7),
     max_items |-> Positive(raw.max_items, 1),
     max_records |-> Positive(raw.max_records, 10),
     flush_timeout |-> Positive(raw.flush_timeout, 120),
     mailbox_max |-> Mailbox(raw),
     max_suspend_records |-> SuspendRecords(raw),
     events |-> MaxEvents(raw),
     suspend_interval |-> Positive(raw.event_suspend_interval, 0),
     keep_last |-> Positive(raw.keep_last, 3), attachment |-> raw.attachment]

(* The file is refused when its root is not usable, the watcher when it has *)
(* no start pattern that compiles: log-watch then ends at once.             *)
Loadable(raw) == raw.root /\ raw.start
-----------------------------------------------------------------------------
(* Readers.  A read gives an item, nothing, or the end of the source.  The  *)
(* times of kmsg come from the kernel and do not go back.  Those of uevents *)
(* and of logd are CLOCK_REALTIME, which the model takes not to be set back *)
(* while log-watch runs.                                                    *)

NewItem(x, t) == [id |-> lastid + 1, ts |-> t, prio |-> x.prio, kind |-> x.kind]
Produce(i) == item' = i /\ lastid' = (IF i.id = 0 THEN lastid ELSE i.id)

(* KmsgReader::get: a line without a header takes the last one's time.      *)
KmsgGet ==
    \/ \E x \in Texts, t \in clock .. MaxTime :
           /\ lastid < MaxItems
           /\ Produce(NewItem(x, t))
           /\ clock' = t /\ last' = [prio |-> x.prio, ts |-> t]
    \/ \E x \in Texts :
           /\ lastid < MaxItems
           /\ Produce(NewItem([x EXCEPT !.prio = last.prio], last.ts))
           /\ UNCHANGED <<clock, last>>
    \/ /\ \/ item' = (IF cfg.nonblock THEN Eof ELSE Blank)  \* len = 0
          \/ item' = Blank     \* EPIPE, EINVAL, EFAULT, EINTR
          \/ item' = Eof       \* other errors
       /\ UNCHANGED <<lastid, clock, last>>

(* UeventReader::get: the priority is the origin, every failure the end.    *)
UeventGet ==
    /\ \/ \E x \in Texts, t \in clock .. MaxTime :
              lastid < MaxItems /\ Produce(NewItem(x, t)) /\ clock' = t
       \/ item' = Eof /\ UNCHANGED <<lastid, clock>>
    /\ UNCHANGED last

(* LogdReader::get.                                                         *)
LogdGet ==
    /\ \/ \E x \in Texts, t \in clock .. MaxTime :
              lastid < MaxItems /\ Produce(NewItem(x, t)) /\ clock' = t
       \/ item' \in {Eof, Blank} /\ UNCHANGED <<lastid, clock>>
    /\ UNCHANGED last

ReaderGet ==
    \/ cfg.source = "kmsg" /\ KmsgGet
    \/ cfg.source = "uevent" /\ UeventGet
    \/ cfg.source = "logd" /\ LogdGet
-----------------------------------------------------------------------------
(* main and EventWatch::feed.                                               *)

Back == IF ending THEN "join" ELSE "loop"

Get ==
    /\ main \in {"first", "loop"}
    /\ ReaderGet
    /\ main' = IF item' = Blank THEN "loop" ELSE "feed"
    /\ ending' = (main = "loop" /\ item' = Eof)
    /\ UNCHANGED <<cfg, runs, sharedVars, threadVars, dirs, historyVars>>

Filtered(i) == i # Eof /\ (i.prio > cfg.max_level \/ i.prio < cfg.min_level)

(* The part of feed before the mutex: accept_data and thread_state are read *)
(* without it.  Whether pthread_create started the thread is not looked at: *)
(* without one main waits for it for ever.                                  *)
FeedCheck ==
    /\ main = "feed"
    /\ main' = IF Filtered(item) \/ ~accept_data \/ thread_state = "STOPPED"
               THEN Back
               ELSE IF thread_state = "READY" THEN "start" ELSE "push"
    /\ pc' \in IF main' = "start" THEN {"entry", pc} ELSE {pc}
    /\ item' = IF main' = Back THEN Blank ELSE item
    /\ UNCHANGED <<cfg, ending, last, clock, lastid, runs, sharedVars,
                   thread_state, li, w, childVars, dirs, historyVars>>

(* threadLoop says it runs; threadStart waits for that.                     *)
ThreadEntry ==
    /\ pc = "entry" /\ pc' = "wait"
    /\ thread_state' = "RUNNING"
    /\ main' = "push"
    /\ UNCHANGED <<cfg, item, ending, last, clock, lastid, runs, sharedVars, li,
                   w, childVars, dirs, historyVars>>

(* The part of feed under the mutex: a full mailbox is replaced by an end.  *)
FeedPush ==
    /\ main = "push" /\ main' = Back
    /\ \/ /\ Len(mailbox) > cfg.mailbox_max
          /\ mailbox' = <<Eof>> /\ accept_data' = FALSE /\ kill_reason' = "LAZY"
          /\ items_available' = items_available + 1
       \/ /\ Len(mailbox) <= cfg.mailbox_max /\ accept_data
          /\ mailbox' = Append(mailbox, item)
          /\ items_available' = items_available + 1
          /\ UNCHANGED <<accept_data, kill_reason>>
       \/ /\ Len(mailbox) <= cfg.mailbox_max /\ ~accept_data
          /\ UNCHANGED sharedVars
    /\ item' = Blank
    /\ UNCHANGED <<cfg, ending, last, clock, lastid, runs, threadVars, dirs,
                   historyVars>>

(* waitThreadStop, then the process ends.                                   *)
WaitThreadStop ==
    /\ main = "join" /\ thread_state = "STOPPED"
    /\ main' = "over"
    /\ UNCHANGED <<cfg, item, ending, last, clock, lastid, runs, sharedVars,
                   threadVars, dirs, historyVars>>
-----------------------------------------------------------------------------
(* EventWatch::process, on the thread's own state.                          *)

NoRecord == [items |-> <<>>, valid |-> FALSE]
Start(r) == Head(r.items).ts
FreshWatch == [record |-> NoRecord, records |-> <<>>, suspended |-> <<>>,
               count |-> 0, until |-> -1, flush_count |-> 0, event_log |-> <<>>]

(* addRecord: a record that began while the watcher is suspended is counted *)
(* and, up to max_suspend_records, kept apart.                              *)
Suspend(x, r) ==
    LET n == x.count + 1
        s == Append(x.suspended, r)
    IN  [x EXCEPT !.count = n,
                  !.suspended = IF cfg.max_suspend_records = 0 THEN @
                                ELSE IF n > cfg.max_suspend_records THEN Tail(s)
                                ELSE s]
AddRecord_SuspendForgotten(x, r) ==   \* mutant
    IF r.valid THEN [x EXCEPT !.records = Append(@, r)] ELSE x
AddRecord(x, r) ==
    IF ~r.valid THEN x
    ELSE IF cfg.suspend_interval # 0 /\ Start(r) <= x.until THEN Suspend(x, r)
    ELSE [x EXCEPT !.records = Append(@, r)]
Close_Kept(x) == AddRecord(x, x.record)   \* mutant: record not reset
Close(x) == [AddRecord(x, x.record) EXCEPT !.record = NoRecord]

Take(x, i, valid) ==
    [x EXCEPT !.record = [items |-> Append(@.items, i), valid |-> @.valid \/ valid]]

(* Which pattern takes the item, in the order the patterns are tried.       *)
Match(x, i) ==
    IF i.kind = "start"
    THEN [(IF x.record # NoRecord THEN Close(x) ELSE x)
             EXCEPT !.record = [items |-> <<i>>, valid |-> ~cfg.validation]]
    ELSE IF x.record = NoRecord THEN x
    ELSE IF i.kind = "end" /\ cfg.end THEN Close(Take(x, i, FALSE))
    ELSE IF i.kind = "valid" /\ cfg.validation THEN Take(x, i, TRUE)
    ELSE IF ~cfg.body \/ i.kind = "body" THEN Take(x, i, FALSE)
    ELSE x
Collect(x, i) ==
    IF i = Eof THEN IF x.record # NoRecord THEN Close(x) ELSE x
    ELSE LET y == Match(x, i)
         IN  IF y.record # NoRecord /\ Len(y.record.items) >= cfg.max_items
             THEN Close(y) ELSE y
CloseOld(x, i) ==
    IF x.record # NoRecord /\ i.ts - Start(x.record) >= cfg.flush_timeout
    THEN Close(x) ELSE x
Collected(x, i) == CloseOld(Collect(x, i), i)

Waited(x, i) ==
    \/ Len(x.records) >= cfg.max_records
    \/ x.records # <<>> /\ i.ts - Start(Head(x.records)) >= cfg.flush_timeout
MustFlush(x, i) == Waited(x, i) \/ (i = Eof /\ x.records # <<>>)

(* flush up to the mutex: suspend.txt takes the suspended records.          *)
Flushed(x, i) ==
    [x EXCEPT
        !.until = IF cfg.suspend_interval # 0 /\ Waited(x, i)
                  THEN Start(Head(x.records)) + cfg.suspend_interval ELSE @,
        !.suspended = IF x.count # 0 /\ cfg.max_suspend_records # 0 THEN <<>>
                                                                    ELSE @,
        !.count = 0,
        !.flush_count = @ + 1]

(* Output directories, whose path is their number.  flush removes the one   *)
(* keep_last flushes back, setupOutputDir those of an earlier run before    *)
(* the first flush; both may fail and leave some (kept).  setupOutputDir    *)
(* gives up then; else it makes the directory of the event, if it can, or   *)
(* takes over one of that number.                                           *)
Doomed(n) == IF n = 0 THEN dirs ELSE {d \in dirs : d.n = n - cfg.keep_last}
SetupDirs(n, kept) ==
    LET rest  == (dirs \ Doomed(n)) \cup kept
        taken == {d \in rest : d.n = n}
        mine  == {[run |-> runs, n |-> n]}
    IN  /\ dirs' \in {(rest \ taken) \cup made : made \in {{}, mine}}
        /\ taken # {} => mine \subseteq dirs'
        /\ n = 0 /\ kept # {} /\ taken = {} => dirs' = rest
        /\ stuck' = (stuck \cup kept) \cap dirs'

IdsOf(r) == [k \in 1 .. Len(r.items) |-> r.items[k].id]
AllIds(rs) == [k \in 1 .. Len(rs) |-> IdsOf(rs[k])]
-----------------------------------------------------------------------------
(* The thread.                                                              *)

(* threadLoop takes an item, or wakes up for nothing.                       *)
TakeItem ==
    /\ pc = "wait" /\ items_available > 0
    /\ items_available' = items_available - 1
    /\ IF mailbox = <<>> THEN UNCHANGED <<mailbox, li, pc>>
       ELSE li' = Head(mailbox) /\ mailbox' = Tail(mailbox) /\ pc' = "process"
    /\ UNCHANGED <<cfg, mainVars, accept_data, kill_reason, thread_state, w,
                   childVars, dirs, historyVars>>

Leave(i) == IF i = Eof THEN "exit" ELSE "wait"

(* process when no event is due.                                            *)
Process ==
    /\ pc = "process"
    /\ ~MustFlush(Collected(w, li), li)
    /\ w' = IF li = Eof THEN [Collected(w, li) EXCEPT !.suspended = <<>>]
                        ELSE Collected(w, li)
    /\ pc' = Leave(li) /\ li' = Blank
    /\ UNCHANGED <<cfg, mainVars, sharedVars, thread_state, childVars, dirs,
                   historyVars>>

(* process with a flush, as far as the mutex.  Without its directory the    *)
(* event is reported all the same.                                          *)
Flush ==
    /\ pc = "process"
    /\ LET x == Collected(w, li) IN
       /\ MustFlush(x, li)
       /\ w' = Flushed(x, li)
       /\ \E kept \in SUBSET Doomed(x.flush_count) : SetupDirs(x.flush_count, kept)
       /\ told' = told \o AllIds(x.records)
       /\ times' = Append(times, Start(Head(x.records)))
       /\ reported' = li.ts
    /\ pc' = "attach"
    /\ UNCHANGED <<cfg, mainVars, sharedVars, thread_state, li, childVars>>

(* The attachments of the event, one here.  A file is passed on or copied   *)
(* at once, whether it exists or not; a command is run.                     *)
AttachmentType(a) ==
    IF ~a.src \/ (a.exec /\ ~a.dst) THEN "INVALID"
    ELSE IF a.exec THEN "EXEC" ELSE IF a.dst THEN "COPY" ELSE "PASS_ON"
Attach ==
    /\ pc = "attach"
    /\ \/ pc' = "log" /\ UNCHANGED childVars   \* copied, missing, or no fork
       \/ /\ AttachmentType(cfg.attachment) = "EXEC"
          /\ pc' = "exec" /\ child' = "runs" /\ polls' = 0
    /\ UNCHANGED <<cfg, mainVars, sharedVars, thread_state, li, w, dirs,
                   historyVars>>
ChildEnds ==
    /\ child = "runs" /\ child' = "ended"
    /\ UNCHANGED <<cfg, mainVars, sharedVars, thread_state, pc, li, w, polls,
                   dirs, historyVars>>

(* exec looks at the command MaxPolls times, then kills it and waits until  *)
(* it is gone.                                                              *)
Exec_NotKilled ==   \* mutant: looks again for ever
    /\ pc = "exec"
    /\ IF child = "ended" THEN pc' = "log" /\ child' = "none" /\ polls' = 0
       ELSE UNCHANGED <<pc, childVars>>
    /\ UNCHANGED <<cfg, mainVars, sharedVars, thread_state, li, w, dirs,
                   historyVars>>
Exec ==
    /\ pc = "exec"
    /\ IF child = "ended" \/ polls = MaxPolls
       THEN pc' = "log" /\ child' = "none" /\ polls' = 0
       ELSE polls' = polls + 1 /\ UNCHANGED <<pc, child>>
    /\ UNCHANGED <<cfg, mainVars, sharedVars, thread_state, li, w, dirs,
                   historyVars>>

(* logEvent keeps the times of the last max_event_count + 1 events, newest  *)
(* first; logContinue compares the ends of a full list.                     *)
Logged(x) ==
    IF cfg.events.interval = 0 THEN x.event_log
    ELSE LET l == <<Start(Head(x.records))>> \o x.event_log
         IN  IF Len(l) > cfg.events.count + 1 THEN SubSeq(l, 1, Len(l) - 1) ELSE l
LogContinue_OneLate(x) ==   \* mutant: starts to compare one event late
    LET l == Logged(x) IN
    IF cfg.events.interval = 0 THEN x.flush_count <= cfg.events.count + 1
    ELSE \/ x.flush_count <= cfg.events.count + 2
         \/ l[1] - l[Len(l)] >= cfg.events.interval
LogContinue(x) ==
    LET l == Logged(x) IN
    IF cfg.events.interval = 0 THEN x.flush_count < cfg.events.count
    ELSE \/ x.flush_count <= cfg.events.count
         \/ l[1] - l[Len(l)] >= cfg.events.interval

(* flush under the mutex: a noisy watcher replaces its mailbox by an end.   *)
LogEvent_NoEnd ==   \* mutant: the mailbox is only cleared
    /\ pc = "log"
    /\ w' = [w EXCEPT !.event_log = Logged(w), !.records = <<>>]
    /\ IF accept_data /\ ~LogContinue(w)
       THEN /\ accept_data' = FALSE /\ mailbox' = <<>>
            /\ UNCHANGED <<kill_reason, items_available>>
       ELSE UNCHANGED sharedVars
    /\ pc' = Leave(li) /\ li' = Blank
    /\ UNCHANGED <<cfg, mainVars, thread_state, childVars, dirs, historyVars>>
LogEvent ==
    /\ pc = "log"
    /\ w' = [w EXCEPT !.event_log = Logged(w), !.records = <<>>]
    /\ IF accept_data /\ ~LogContinue(w)
       THEN /\ accept_data' = FALSE
            /\ kill_reason' = IF cfg.events.interval # 0 THEN "NOISY" ELSE "MAX_EVENTS"
            /\ mailbox' = <<Eof>>
            /\ items_available' = items_available + 1
       ELSE UNCHANGED sharedVars
    /\ pc' = Leave(li) /\ li' = Blank
    /\ UNCHANGED <<cfg, mainVars, thread_state, childVars, dirs, historyVars>>

(* The end of threadLoop, with the report of notifyKill.                    *)
ThreadExit ==
    /\ pc = "exit" /\ pc' = "none"
    /\ thread_state' = "STOPPED"
    /\ UNCHANGED <<cfg, mainVars, sharedVars, li, w, childVars, dirs,
                   historyVars>>
-----------------------------------------------------------------------------
Fresh ==
    /\ main' = "first" /\ item' = Blank /\ ending' = FALSE
    /\ last' = [prio |-> 0, ts |-> 0]
    /\ mailbox' = <<>> /\ items_available' = 0 /\ accept_data' = TRUE
    /\ kill_reason' = "UNKNOWN" /\ thread_state' = "READY"
    /\ pc' = "none" /\ li' = Blank /\ w' = FreshWatch
    /\ told' = <<>> /\ times' = <<>> /\ reported' = -1

(* log-watch is started again, with what the first run left on the disk.    *)
Restart ==
    /\ main = "over" /\ runs < MaxRuns
    /\ runs' = runs + 1
    /\ Fresh
    /\ UNCHANGED <<cfg, clock, lastid, childVars, dirs, stuck>>

Init ==
    /\ \E raw \in {r \in Configs : Loadable(r)} : cfg = Watcher(raw)
    /\ main = "first" /\ item = Blank /\ ending = FALSE
    /\ last = [prio |-> 0, ts |-> 0]
    /\ clock = 0 /\ lastid = 0 /\ runs = 1
    /\ mailbox = <<>> /\ items_available = 0 /\ accept_data = TRUE
    /\ kill_reason = "UNKNOWN" /\ thread_state = "READY"
    /\ pc = "none" /\ li = Blank /\ w = FreshWatch
    /\ child = "none" /\ polls = 0 /\ dirs = {} /\ told = <<>> /\ times = <<>>
    /\ reported = -1 /\ stuck = {}

Main   == FeedCheck \/ FeedPush \/ WaitThreadStop
Thread == ThreadEntry \/ TakeItem \/ Process \/ Flush \/ Attach \/ Exec
              \/ LogEvent \/ ThreadExit
Next   == Get \/ Main \/ Thread \/ ChildEnds \/ Restart

(* main and the thread are scheduled; a command run for an attachment is    *)
(* killed after max_run, but need not end.  Nor need the source.            *)
Fairness == WF_vars(Main) /\ WF_vars(Thread)
Spec == Init /\ [][Next]_vars /\ Fairness
-----------------------------------------------------------------------------
(* Properties.                                                              *)

RecordOK(r) == r.valid \in BOOLEAN /\ Len(r.items) <= MaxItems
(* Types of the shared and of the thread's state.                           *)
TypeOK ==
    /\ main \in {"first", "loop", "feed", "start", "push", "join", "over"}
    /\ pc \in {"none", "entry", "wait", "process", "attach", "exec", "log", "exit"}
    /\ child \in {"none", "runs", "ended"} /\ polls \in 0 .. MaxPolls
    /\ thread_state \in {"READY", "RUNNING", "STOPPED"}
    /\ accept_data \in BOOLEAN /\ ending \in BOOLEAN
    /\ items_available \in Nat /\ Len(mailbox) <= cfg.mailbox_max + 1
    /\ RecordOK(w.record) /\ w.flush_count \in Nat /\ w.count \in Nat
    /\ \A k \in 1 .. Len(w.records) : RecordOK(w.records[k])

(* "Wake up with no data" (EventWatch.cpp:508) is never logged: the         *)
(* semaphore counts the mailbox, and when it is cleared the end left in it  *)
(* is taken before the count runs out.                                      *)
WokenForData == pc = "wait" /\ items_available > 0 => mailbox # <<>>

(* The end of a killed watcher closes its mailbox: behind it nothing is     *)
(* queued that nobody would read.                                           *)
EndIsLast ==
    ~accept_data => \/ mailbox = <<Eof>>
                    \/ mailbox = <<>> /\ (li = Eof \/ pc \in {"exit", "none"})

(* The mailbox and its semaphore fit together, whatever feed and a thread   *)
(* that declares itself noisy do in between.                                *)
MailboxSound == WokenForData /\ EndIsLast

(* An item is in one record only and the items of an event keep the order   *)
(* in which they were read, over closed, flushed and restarted records.     *)
InOrder(rs) ==
    \A a, b \in 1 .. Len(rs) : \A i \in 1 .. Len(rs[a]), j \in 1 .. Len(rs[b]) :
        a < b \/ (a = b /\ i < j) => rs[a][i] < rs[b][j]
ItemsOnceInOrder ==
    pc \notin {"attach", "exec", "log"} =>
        InOrder(told \o AllIds(w.records) \o <<IdsOf(w.record)>>)

(* Of the output directories only those of the last keep_last events of     *)
(* this run remain, over restarts that number them from 0 again; an older   *)
(* one is there only because its removal failed, whose result flush ignores *)
(* (EventWatch.cpp:341).                                                    *)
KeptDirectories ==
    w.flush_count > 0 =>
        \A d \in dirs \ stuck :
            d.run = runs /\ d.n > w.flush_count - 1 - cfg.keep_last

(* What flush leaves: every item once, in order, in the last directories.   *)
OutputInOrder == ItemsOnceInOrder /\ KeptDirectories

(* "The maximum number of events that should be generated in the number of  *)
(* seconds specified by @max_event_interval or overall" (README.md): the    *)
(* event that exceeds the count is the last but one, the other being what   *)
(* the kill itself forces out.  The time of an event is that of its first   *)
(* record, and does not go back.                                            *)
NoisyIsKilled ==
    IF cfg.events.interval = 0 THEN Len(times) <= cfg.events.count + 1
    ELSE \A k \in 1 .. Len(times) - (cfg.events.count + 2) :
             times[k + cfg.events.count + 2] - times[k] >= cfg.events.interval

(* The suspension as process implements it: the period starts at the time   *)
(* of the event's first record, not when the event is generated             *)
(* (EventWatch.cpp:231, 239).  Whatever closed and flushed the records in   *)
(* between, the next event begins with a record that started after it.      *)
SuspendHolds ==
    cfg.suspend_interval # 0 =>
        \A k \in 1 .. Len(times) - 1 : times[k + 1] > times[k] + cfg.suspend_interval

(* suspend.txt holds the newest max_suspend_records of the records counted  *)
(* since the last event, so that "records dropped" is the rest of them.     *)
SuspendedCounted ==
    (pc \in {"wait", "process"} /\ cfg.max_suspend_records # 0) =>
        /\ Len(w.suspended) <= cfg.max_suspend_records
        /\ w.count > cfg.max_suspend_records =>
               Len(w.suspended) = cfg.max_suspend_records
        /\ w.count <= cfg.max_suspend_records => Len(w.suspended) = w.count

(* A suspended watcher raises nothing and accounts for what it ignored.     *)
SuspendSound == SuspendHolds /\ SuspendedCounted

(* A main that waits for its watchers at the end of the source ends:        *)
(* whatever made the watcher stop accepting items, its thread finds an end  *)
(* in the mailbox.  A main whose thread could not be created does not get   *)
(* that far: it waits in threadStart (EventWatch.cpp:488).                  *)
SourceEndStops == main = "join" ~> main = "over"

(* A watcher killed as lazy or noisy stops, even if its source goes on.     *)
KilledStops == ~accept_data ~> thread_state = "STOPPED"

(* Neither a main at its end nor a killed watcher waits for ever.           *)
AllStop == SourceEndStops /\ KilledStops
-----------------------------------------------------------------------------
(* What the documentation promises and the code does not keep: TLC finds it *)
(* violated.  README, "Disagreements", tells how.                           *)

(* "Defines a period (in second) in which the watcher should "ignore" new   *)
(* records after the generation of an event" (README.md:130): the next      *)
(* event does not begin with a record of that period.                       *)
SuspendedAfterEvent ==
    [][ (Len(times') = Len(times) + 1 /\ times # <<>>) =>
           times'[Len(times')] - reported \notin 1 .. cfg.suspend_interval ]_vars
=============================================================================
