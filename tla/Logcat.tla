------------------------------- MODULE Logcat -------------------------------
(***************************************************************************)
(* logcatext, the logcat that merges the kernel log into the log of Android *)
(* and writes both to rotated files (logcatext/logcat.cpp).  It blocks in  *)
(* logd only; a second thread (unblocker.cpp) watches /dev/kmsg            *)
(* (klogger.cpp) and, when the kernel has something, writes a sync message *)
(* to logd to wake the first.  The two agree by three mutexes that either  *)
(* may unlock, whoever locked them: they are flags.                        *)
(*                                                                         *)
(* A message is its time; logd and the kernel return theirs in order.      *)
(* Lines of the kernel are well formed.  Every message is one unit of the  *)
(* file, the line "beginning of" none; logd is one buffer of text (which   *)
(* device a message is taken for is left out), every message passes the    *)
(* filter and a sync message, of no priority, does not.                    *)
(***************************************************************************)
EXTENDS Integers, Sequences, FiniteSets

CONSTANTS
    Rotated,     \* g_maxRotatedLogs
    RotateSize,  \* g_logRotateSizeKBytes
    MaxTime,     \* bound: messages
    MaxStops     \* bound: ends of the program by a signal

ASSUME LogcatAssumption ==
    /\ {Rotated, RotateSize, MaxTime, MaxStops} \subseteq Nat /\ RotateSize > 0

VARIABLES
    opt,              \* the options: the arguments of -b, -d, -f with -r, -c
    pc,               \* where the main thread is
    kernel,           \* use_klogger, once /dev/kmsg is open
    log_msg, klog_msg,  \* the message read of either source, or None
    proc, kav, run,   \* mtx_msg_proc, mtx_kmsg_available, mtx_unblock_run
    upc, polled, got, \* the unblocker: where it is, what poll and trylock said
    logd, pos,        \* the log of Android and how far it was read
    kmsg, kpos,       \* the log of the kernel and how far it was read
    files,            \* the output file, 0, and the rotated ones
    count,            \* g_outByteCount
    turn,             \* i of rotateLogs
    time, stops,
    out,              \* history: what this run of the program wrote
    total,            \* history: what all runs wrote
    owed,             \* history: what logd held when the program started
    held              \* history: logd was read with a kernel message in hand

flags   == <<proc, kav, run>>
thread  == <<upc, polled, got>>
sources == <<logd, kmsg, time>>
output  == <<files, count, turn, out, total>>
lvars == <<opt, pc, kernel, log_msg, klog_msg, flags, thread, sources, pos, kpos, output,
          stops, owed, held>>

None == 0
Sync == -1    \* a message of the tag lcx_sync, of this program or of another run
NoFile == <<Sync>>

----------------------------------------------------------------------------
(* The start of the program. *)

\* -b kernel and -b all bring the kernel, any other buffer, or no -b, logd.
UsesKernel  == opt.buffers \cap {"kernel", "all"} # {}
UsesDevices == opt.buffers \cap {"main", "all"} # {} \/ ~UsesKernel

\* setupOutput: the output goes on where the file ends.
Setup ==
    /\ pc = "off" /\ pc' = IF opt.clear THEN "clear" ELSE "init"
    /\ files' = IF files[0] = NoFile THEN [files EXCEPT ![0] = <<>>] ELSE files
    /\ count' = Len(files'[0])
    /\ owed' = logd
    /\ UNCHANGED <<opt, kernel, log_msg, klog_msg, flags, thread, sources, pos, kpos,
                   turn, out, total, stops, held>>

\* -c: the buffers are cleared and the program ends.
Clear ==
    /\ pc = "clear" /\ pc' = "end"
    /\ logd' = IF UsesDevices THEN <<>> ELSE logd
    /\ UNCHANGED <<opt, kernel, log_msg, klog_msg, flags, thread, kmsg, time, pos, kpos,
                   output, stops, owed, held>>

\* klogger_init may fail; unblock_start.
OpenKernel ==
    /\ pc = "init" /\ pc' = "loop"
    /\ kernel' \in IF UsesKernel THEN BOOLEAN ELSE {FALSE}
    /\ IF UsesDevices /\ kernel' THEN run' = TRUE /\ upc' = "lock"
       ELSE UNCHANGED <<run, upc>>
    /\ UNCHANGED <<opt, log_msg, klog_msg, proc, kav, polled, got, sources, pos,
                   kpos, output, stops, owed, held>>

----------------------------------------------------------------------------
(* The main loop. *)

main_rest == <<opt, kernel, thread, sources, stops, owed>>

\* logd is read when its last message has gone out, waiting kernel message or not.
Turn ==
    /\ pc = "loop"
    /\ pc' = IF UsesDevices /\ log_msg = None
             THEN (IF kernel THEN "resume" ELSE "read") ELSE "kread"
    /\ held' = (held \/ (pc' = "resume" /\ klog_msg # None))
    /\ UNCHANGED <<main_rest, log_msg, klog_msg, flags, pos, kpos, output>>

\* unblock_resume: a flag after the other.
Resume ==
    /\ \/ pc = "resume"  /\ pc' = "resume2" /\ run' = FALSE /\ UNCHANGED proc
       \/ pc = "resume2" /\ pc' = "resume3" /\ proc' = TRUE /\ UNCHANGED run
       \/ pc = "resume3" /\ pc' = "read"    /\ proc' = FALSE /\ UNCHANGED run
    /\ UNCHANGED <<main_rest, log_msg, klog_msg, kav, pos, kpos, output, held>>

\* unblock_is_sync; without the kernel, log_id is not the one of the sync messages.
unblock_is_sync(m) == m = Sync /\ kernel

\* android_logger_list_read blocks, with -d it returns -EAGAIN; a sync message
\* counts as nothing read.
Read ==
    /\ pc = "read" /\ pc' = IF kernel THEN "ack" ELSE "kread"
    /\ \/ /\ pos < Len(logd) /\ pos' = pos + 1
          /\ log_msg' = IF unblock_is_sync(logd[pos']) THEN None ELSE logd[pos']
       \/ pos = Len(logd) /\ opt.nodelay /\ UNCHANGED <<pos, log_msg>>
    /\ UNCHANGED <<main_rest, klog_msg, flags, kpos, output, held>>

Ack ==
    /\ pc = "ack" /\ pc' = "kread"
    /\ proc' = TRUE
    /\ UNCHANGED <<main_rest, log_msg, klog_msg, kav, run, pos, kpos, output, held>>

\* klogger_read does not block; with nothing to read the unsigned result of read is
\* taken for a length, the last line is formatted again and -1 is returned.
ReadKernel ==
    /\ pc = "kread"
    /\ IF kernel /\ klog_msg = None
       THEN /\ pc' = "consumed"
            /\ IF kpos < Len(kmsg) THEN kpos' = kpos + 1 /\ klog_msg' = kmsg[kpos']
               ELSE UNCHANGED <<kpos, klog_msg>>
       ELSE pc' = "select" /\ UNCHANGED <<kpos, klog_msg>>
    /\ UNCHANGED <<main_rest, log_msg, flags, pos, output, held>>

\* unblock_kmsg_consumed.
Consumed ==
    /\ \/ pc = "consumed"  /\ pc' = "consumed2" /\ kav' = TRUE
       \/ pc = "consumed2" /\ pc' = "select"    /\ kav' = FALSE
    /\ UNCHANGED <<main_rest, log_msg, klog_msg, proc, run, pos, kpos, output, held>>

\* The oldest of two, else the one there is.
Selected == IF klog_msg = None \/ (log_msg # None /\ log_msg < klog_msg)
            THEN "log" ELSE "klog"

\* processBuffer: the line goes to the file, a sync message does not; either way
\* the file may be full then.
processBuffer(m) ==
    LET line == IF m = Sync THEN <<>> ELSE <<m>>
    IN /\ files' = [files EXCEPT ![0] = @ \o line]
       /\ out' = out \o line /\ total' = total \o line
       /\ count' = count + Len(line)
       /\ IF opt.rotate /\ count' >= RotateSize
          THEN pc' = "rotate" /\ turn' = Rotated ELSE pc' = "loop" /\ UNCHANGED turn

\* What stays in hand once the message of the source was taken.
Taken_Kept(source, m) == IF source = "klog" THEN m ELSE None
Taken(source, m) == None

Select ==
    /\ pc = "select"
    /\ IF log_msg = None /\ klog_msg = None
       THEN /\ pc' = IF opt.nodelay THEN "end" ELSE "loop"
            /\ UNCHANGED <<log_msg, klog_msg, output>>
       ELSE IF Selected = "log"
       THEN processBuffer(log_msg) /\ log_msg' = Taken("log", log_msg) /\ UNCHANGED klog_msg
       ELSE processBuffer(klog_msg) /\ klog_msg' = Taken("klog", klog_msg) /\ UNCHANGED log_msg
    /\ UNCHANGED <<main_rest, flags, pos, kpos, held>>

\* rotateLogs renames the files from the last; one that is not there stays away.
\* A rename is assumed to fail for no other reason than ENOENT: after another one
\* rotateLogs goes on, and the next rename overwrites the file that stayed.
Step_Up(i) == Rotated + 1 - i
Step(i) == i

Rotate ==
    /\ pc = "rotate" /\ turn > 0
    /\ LET i == Step(turn)
       IN files' = IF files[i - 1] = NoFile THEN files
                   ELSE [files EXCEPT ![i] = files[i - 1], ![i - 1] = NoFile]
    /\ turn' = turn - 1
    /\ UNCHANGED <<main_rest, pc, log_msg, klog_msg, flags, pos, kpos, count, out, total,
                   held>>

Reopen ==
    /\ pc = "rotate" /\ turn = 0 /\ pc' = "loop"
    /\ files' = IF files[0] = NoFile THEN [files EXCEPT ![0] = <<>>] ELSE files
    /\ count' = 0
    /\ UNCHANGED <<main_rest, log_msg, klog_msg, flags, pos, kpos, turn, out, total, held>>

----------------------------------------------------------------------------
(* The unblocker. *)

thread_rest == <<opt, pc, kernel, log_msg, klog_msg, pos, kmsg, kpos, output, stops, owed,
                 held>>

LockRun ==
    /\ upc = "lock" /\ ~run /\ run' = TRUE /\ upc' = "poll"
    /\ UNCHANGED <<thread_rest, proc, kav, polled, got, logd, time>>

\* klogger_wait: a message, or a hundred seconds.
Poll ==
    /\ upc = "poll" /\ upc' = "try"
    /\ polled' = (kpos < Len(kmsg))
    /\ UNCHANGED <<thread_rest, flags, got, logd, time>>

TryProc ==
    /\ upc = "try" /\ upc' = "sync"
    /\ got' = ~proc /\ proc' = TRUE
    /\ UNCHANGED <<thread_rest, kav, run, polled, logd, time>>

\* The kernel has something new since the main thread last read it.
News_Seen == kav
News == ~kav

WriteSync ==
    /\ upc = "sync" /\ upc' = "unlock"
    /\ IF polled /\ got
       THEN /\ kav' = TRUE /\ UNCHANGED run
            /\ IF News THEN logd' = Append(logd, Sync) ELSE UNCHANGED logd
       ELSE run' = FALSE /\ UNCHANGED <<kav, logd>>
    /\ UNCHANGED <<thread_rest, proc, polled, got, time>>

UnlockProc ==
    /\ upc = "unlock" /\ upc' = "lock"
    /\ proc' = FALSE
    /\ UNCHANGED <<thread_rest, kav, run, polled, got, logd, time>>

----------------------------------------------------------------------------
(* The system around. *)

LogdGets ==
    /\ time < MaxTime /\ time' = time + 1
    /\ logd' = Append(logd, time')
    /\ UNCHANGED <<opt, pc, kernel, log_msg, klog_msg, flags, thread, pos, kmsg, kpos,
                   output, stops, owed, held>>

KernelLogs ==
    /\ time < MaxTime /\ time' = time + 1
    /\ kmsg' = Append(kmsg, time')
    /\ UNCHANGED <<opt, pc, kernel, log_msg, klog_msg, flags, thread, logd, pos, kpos,
                   output, stops, owed, held>>

\* The program is killed and started again: it reads both logs from the start.
\* Bound: what a run that merges the kernel leaves for the next, sync messages in
\* logd, is in LInit, so only the others are started again.
Stop ==
    /\ pc \notin {"off", "end"} /\ ~UsesKernel /\ stops < MaxStops /\ stops' = stops + 1
    /\ pc' = "off" /\ kernel' = FALSE /\ log_msg' = None /\ klog_msg' = None
    /\ proc' = FALSE /\ kav' = FALSE /\ run' = FALSE
    /\ upc' = "none" /\ polled' = FALSE /\ got' = FALSE
    /\ pos' = 0 /\ kpos' = 0 /\ turn' = 0 /\ out' = <<>> /\ held' = FALSE
    /\ UNCHANGED <<opt, sources, files, count, total, owed>>

Options == [buffers: SUBSET {"main", "kernel"}, nodelay: BOOLEAN, rotate: {FALSE},
            clear: {FALSE}]
           \cup [buffers: {{"all"}}, nodelay: {TRUE}, rotate: {FALSE}, clear: BOOLEAN]
           \cup [buffers: {{"main"}}, nodelay: {FALSE}, rotate: {TRUE}, clear: {FALSE}]

\* The log of Android may hold sync messages of earlier runs.
LInit ==
    /\ opt \in Options /\ pc = "off" /\ kernel = FALSE
    /\ log_msg = None /\ klog_msg = None
    /\ proc = FALSE /\ kav = FALSE /\ run = FALSE
    /\ upc = "none" /\ polled = FALSE /\ got = FALSE
    /\ logd \in {<<>>, <<Sync, 1>>} /\ pos = 0 /\ kmsg = <<>> /\ kpos = 0
    /\ files = [i \in 0..Rotated |-> NoFile] /\ count = 0 /\ turn = 0
    /\ time = (IF logd = <<>> THEN 0 ELSE 1) /\ stops = 0
    /\ out = <<>> /\ total = <<>> /\ owed = <<>> /\ held = FALSE

MainStep == \/ Setup \/ Clear \/ OpenKernel \/ Turn \/ Resume \/ Read \/ Ack \/ ReadKernel
            \/ Consumed \/ Select \/ Rotate \/ Reopen
ThreadStep == LockRun \/ Poll \/ TryProc \/ WriteSync \/ UnlockProc

LNext == MainStep \/ ThreadStep \/ LogdGets \/ KernelLogs \/ Stop

\* Both threads run; a message of logd is not owed.
LSpec == LInit /\ [][LNext]_lvars /\ WF_lvars(MainStep) /\ WF_lvars(ThreadStep)

----------------------------------------------------------------------------
(* Properties. *)

\* The rotated files, oldest first, followed by the current one hold the last
\* part of what was written, without a gap, a repetition or an exchange, also
\* when the program was killed between two renames of rotateLogs.
Kept(i) == IF files[i] = NoFile THEN <<>> ELSE files[i]
\* File i holds total from start(i) to the start of the next newer file.
Interval(start, i) ==
    LET end == IF i = 0 THEN Len(total) ELSE start[i - 1]
    IN /\ start[i] <= end
       /\ Kept(i) = SubSeq(total, start[i] + 1, end)
FilesHoldTail ==
    \E start \in [0..Rotated -> 0..Len(total)] :
        \A i \in 0..Rotated : Interval(start, i)

\* Of each log, the lines written are the messages read, once and in order, but
\* for the one in hand.
KernelRead == {kmsg[n] : n \in 1..kpos}
LogdRead   == {logd[n] : n \in 1..pos} \ {Sync}
MergedInOrder ==
    /\ {out[i] : i \in DOMAIN out} = (KernelRead \cup LogdRead) \ {log_msg, klog_msg}
    /\ \A i, j \in DOMAIN out :
          i < j /\ (out[i] \in KernelRead <=> out[j] \in KernelRead) => out[i] < out[j]

\* A line of the kernel wakes the main thread and is read, by the flags the two
\* threads pass, unless the main thread went to logd with a kernel message in
\* hand: then both wait for logd.
KernelIsRead ==
    kernel /\ kpos < Len(kmsg) ~> kpos = Len(kmsg) \/ held \/ pc \in {"off", "end"}

-----------------------------------------------------------------------------
(* What a line of the code promises and the code does not keep: TLC finds   *)
(* it violated.  README, "Disagreements", tells how.                        *)

(* The help of the program: "-d dump the log and then exit (don't block)":  *)
(* what logd held when the program started is written when it has ended.    *)
DumpComplete ==
    pc = "end" /\ ~opt.clear /\ UsesDevices =>
        \A i \in DOMAIN owed : owed[i] # Sync => \E j \in DOMAIN out : out[j] = owed[i]
=============================================================================
