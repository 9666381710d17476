------------------------------- MODULE Notify -------------------------------
(***************************************************************************)
(* The notification of CrashReport (crashlog/crashutils.c): an event put   *)
(* in the history starts a thread that runs "am broadcast", at most one    *)
(* per MIN_WAIT seconds, plus one thread that waits and notifies for the   *)
(* events that came too early, and never more than MAX_THREAD threads.     *)
(* Some events never get their thread (RaiseUnnoticed).  The mode of       *)
(* crashlogd is one with notifications (CRASHLOG_MODE_NOTIFS_ENABLED).     *)
(*                                                                         *)
(* The sections under the static mutex do not block: each is one step.     *)
(* Time is kept in timers that count down, so that no clock grows.         *)
(***************************************************************************)
EXTENDS Integers, FiniteSets

CONSTANTS
    Threads,    \* bound: threads alive at the same time, refused ones too
    MaxThread,  \* MAX_THREAD
    MinWait,    \* MIN_WAIT
    RunMax      \* the longest run_command takes, its kill included

ASSUME ThreadsAssumption == IsFiniteSet(Threads)
ASSUME LimitAssumption   == MaxThread \in Nat /\ MaxThread >= 3
ASSUME TimeAssumption    ==
    /\ MinWait \in Nat /\ RunMax \in Nat \ {0} /\ RunMax < MinWait

VARIABLES
    booted,        \* PROP_BOOT_STATUS is "1"
    quiet,         \* last_notify + MIN_WAIT - now, 0 when it is past
    thread_count,
    last_chance,
    pc,            \* thread -> where it is
    left,          \* thread -> time left in its sleep or its command
    told,          \* thread -> its command has ended
    owed,          \* history: an event that started a thread is not
                   \* followed by a broadcast yet
    unnoticed,     \* history: nor is one that started none
    lost           \* history: a broadcast failed since the last good one

timers == <<quiet, left>>
ghosts == <<owed, unnoticed, lost>>
vars == <<booted, quiet, thread_count, last_chance, pc, left, told, ghosts>>

\* idle: not created; new: before the first lock; sleep: the last chance
\* thread waiting; first, last: running the command, at once or after the wait
Places  == {"idle", "new", "sleep", "first", "last"}
Waiting == {"sleep", "first", "last"}
At(p)   == {t \in Threads : pc[t] = p}
Active  == {t \in Threads : pc[t] \in Waiting}
-----------------------------------------------------------------------------
(* priv_raise_event, once the history is updated, and notify_crashreport.   *)
RaiseEvent(t) ==
    /\ pc[t] = "idle"
    /\ pc' = [pc EXCEPT ![t] = "new"]
    /\ owed' = (owed \/ booted)
    /\ UNCHANGED <<booted, timers, thread_count, last_chance, told, unnoticed,
                   lost>>

(* The ways out of both that leave the event in the history without a       *)
(* thread: no minimal crashfile, no CrashReport, no thread.  An event of a  *)
(* SYSSERVER watchdog is left without one on purpose and does not count.    *)
RaiseUnnoticed ==
    /\ unnoticed' = (unnoticed \/ booted)
    /\ UNCHANGED <<booted, timers, thread_count, last_chance, pc, told, owed,
                   lost>>

BootCompletes ==
    /\ ~booted /\ booted' = TRUE
    /\ UNCHANGED <<timers, thread_count, last_chance, pc, told, ghosts>>

(* notify_crashreport_thread before its first lock: nothing is notified     *)
(* before the end of the boot.                                              *)
NotBooted(t) ==
    /\ pc[t] = "new" /\ ~booted
    /\ pc' = [pc EXCEPT ![t] = "idle"]
    /\ UNCHANGED <<booted, timers, thread_count, last_chance, told, ghosts>>

Locked(t)  == pc[t] = "new" /\ booted
TooMany    == thread_count >= MaxThread
Recent     == quiet > 0

(* "Too many threads" and "Already notified".                               *)
Refused(t) ==
    /\ Locked(t)
    /\ TooMany \/ (Recent /\ last_chance)
    /\ pc' = [pc EXCEPT ![t] = "idle"]
    /\ UNCHANGED <<booted, timers, thread_count, last_chance, told, ghosts>>

Spawn(t, p, d) ==
    /\ Locked(t) /\ ~TooMany
    /\ thread_count' = thread_count + 1
    /\ pc' = [pc EXCEPT ![t] = p]
    /\ left' = [left EXCEPT ![t] = d]
    /\ told' = [told EXCEPT ![t] = FALSE]
    /\ UNCHANGED <<booted, ghosts>>

(* Mutant: last_notify is not set.                                          *)
NotifyNow_Unstamped(t) ==
    /\ ~Recent
    /\ Spawn(t, "first", RunMax)
    /\ UNCHANGED <<quiet, last_chance>>

NotifyNow(t) ==
    /\ ~Recent
    /\ Spawn(t, "first", RunMax)
    /\ quiet' = MinWait
    /\ UNCHANGED last_chance

NotifyLater(t) ==
    /\ Recent /\ ~last_chance
    /\ Spawn(t, "sleep", MinWait)
    /\ last_chance' = TRUE
    /\ UNCHANGED quiet

(* Mutant: last_chance is not cleared.                                      *)
Wake_ChanceKept(t) ==
    /\ pc[t] = "sleep" /\ left[t] = 0
    /\ pc' = [pc EXCEPT ![t] = "last"]
    /\ left' = [left EXCEPT ![t] = RunMax]
    /\ UNCHANGED <<booted, quiet, thread_count, last_chance, told, ghosts>>

Wake(t) ==
    /\ pc[t] = "sleep" /\ left[t] = 0
    /\ pc' = [pc EXCEPT ![t] = "last"]
    /\ left' = [left EXCEPT ![t] = RunMax]
    /\ last_chance' = FALSE
    /\ UNCHANGED <<booted, quiet, thread_count, told, ghosts>>

(* run_command: the broadcast reaches CrashReport, or the fork, the command *)
(* or its 30 seconds fail it.                                               *)
RunCommand(t, ok) ==
    /\ pc[t] \in {"first", "last"} /\ ~told[t]
    /\ told' = [told EXCEPT ![t] = TRUE]
    /\ owed' = (owed /\ ~ok) /\ unnoticed' = (unnoticed /\ ~ok)
    /\ lost' = ~ok
    /\ UNCHANGED <<booted, timers, thread_count, last_chance, pc>>

Exit(t) ==
    /\ told[t] /\ pc[t] \in {"first", "last"}
    /\ pc' = [pc EXCEPT ![t] = "idle"]
    /\ left' = [left EXCEPT ![t] = 0] /\ told' = [told EXCEPT ![t] = FALSE]
    /\ UNCHANGED <<booted, quiet, last_chance, ghosts>>

(* Mutant: thread_count is not decremented.                                 *)
Finish_CountLeaks(t) == Exit(t) /\ UNCHANGED thread_count

Finish(t) == Exit(t) /\ thread_count' = thread_count - 1

(* A second passes.  A sleep ends on time and a command within RunMax.      *)
Tick ==
    /\ \A t \in Active : left[t] > 0
    /\ quiet > 0 \/ Active # {}
    /\ quiet' = IF quiet > 0 THEN quiet - 1 ELSE 0
    /\ left' = [t \in Threads |-> IF t \in Active THEN left[t] - 1 ELSE left[t]]
    /\ UNCHANGED <<booted, thread_count, last_chance, pc, told, ghosts>>
-----------------------------------------------------------------------------
Init ==
    /\ booted \in BOOLEAN
    /\ quiet = 0 /\ thread_count = 0 /\ last_chance = FALSE
    /\ pc = [t \in Threads |-> "idle"]
    /\ left = [t \in Threads |-> 0]
    /\ told = [t \in Threads |-> FALSE]
    /\ owed = FALSE /\ unnoticed = FALSE /\ lost = FALSE

Step(t) ==
    \/ NotBooted(t) \/ Refused(t) \/ NotifyNow(t) \/ NotifyLater(t)
    \/ Wake(t) \/ Finish(t)
    \/ \E ok \in BOOLEAN : RunCommand(t, ok)

Next ==
    \/ BootCompletes \/ Tick \/ RaiseUnnoticed
    \/ \E t \in Threads : RaiseEvent(t) \/ Step(t)

(* Threads are scheduled and time passes; nothing makes events happen.      *)
Fairness == WF_vars(Tick) /\ \A t \in Threads : WF_vars(Step(t))
Spec == Init /\ [][Next]_vars /\ Fairness
-----------------------------------------------------------------------------
(* Type correctness of the counters, the timers and the threads.            *)
TypeOK ==
    /\ booted \in BOOLEAN /\ quiet \in 0 .. MinWait
    /\ thread_count \in Int /\ last_chance \in BOOLEAN
    /\ pc \in [Threads -> Places]
    /\ left \in [Threads -> 0 .. MinWait]
    /\ told \in [Threads -> BOOLEAN]
    /\ owed \in BOOLEAN /\ unnoticed \in BOOLEAN /\ lost \in BOOLEAN

(* A thread that returns without notifying ("Too many threads", "Already    *)
(* notified") leaves its event to another one: as long as an event that     *)
(* started a thread is not followed by a broadcast some thread is still to  *)
(* send one, unless the command itself failed.                              *)
NoEventForgotten ==
    owed /\ ~lost =>
        \E t \in Threads : \/ pc[t] \in {"new", "sleep"}
                           \/ pc[t] \in {"first", "last"} /\ ~told[t]

(* MAX_THREAD is reached only while the last chance thread sleeps: two      *)
(* commands at most run at the same time.                                   *)
LimitMeansLastChance == thread_count >= MaxThread => last_chance

(* The inductive invariant behind both: the counter counts the threads, no  *)
(* two threads are at the same place, and the timers keep a command of one  *)
(* kind from starting before the previous one has ended.                    *)
CountExact  == thread_count = Cardinality(Active)
ChanceExact == last_chance <=> At("sleep") # {}
OneEach     == \A s, t \in Threads : pc[s] = pc[t] /\ pc[s] \in Waiting => s = t
Timing ==
    /\ \A t \in Threads : pc[t] \in {"first", "last"} => left[t] <= RunMax
    /\ \A t \in Threads :
          pc[t] = "first" => quiet >= MinWait - RunMax + left[t]
    /\ \A s, t \in Threads :
          pc[s] = "sleep" /\ pc[t] = "last" =>
              left[s] >= MinWait - RunMax + left[t]
Ghosts ==
    /\ owed => booted
    /\ \A t \in Threads : pc[t] = "sleep" => ~told[t]
IInv == /\ TypeOK /\ CountExact /\ ChanceExact /\ OneEach /\ Timing /\ Ghosts
        /\ NoEventForgotten

(* "if we increment thread_count, it means system command will be executed  *)
(* sooner or later" (crashutils.c:978): an event that started a thread      *)
(* after the boot is in the end followed by a broadcast, sent by that       *)
(* thread or by the one it left the event to, or by a command that failed.  *)
EventuallyNotified == owed ~> (~owed \/ lost)
-----------------------------------------------------------------------------
(* What a comment of the code promises and the code does not keep: TLC      *)
(* finds it violated.  README, "Disagreements", tells how.                  *)

(* "Notify CrashReport except for UIWDT events" (crashutils.c:620): every   *)
(* other event put in the history after the boot is in the end followed by  *)
(* a broadcast or by a command that failed, also when its crashfile could   *)
(* not be written, CrashReport was not there yet or no thread was to be had *)
(* (crashutils.c:606, 1016, 1021).                                          *)
EveryEventNotified == unnoticed ~> (~unnoticed \/ lost)
=============================================================================
