------------------------------ MODULE Watchdog ------------------------------
(***************************************************************************)
(* The watchdog of crashlogd (crashlog/watchdog.c) and the main loop that  *)
(* kicks it (do_monitor of crashlog/main.c): a periodic timer whose signal *)
(* handler counts its expirations since the last kick, reports the daemon  *)
(* after CRASHLOG_WD_GRANULARITY of them and kills it after twice as many. *)
(*                                                                         *)
(* The signal is sent to the process: the kernel runs the handler in the   *)
(* main thread, or in any other one when AnyThread holds, and then its     *)
(* ++pulse, a read and a write, races with the kick of the main thread.    *)
(* The timer runs on CLOCK_REALTIME and goes on while the system is        *)
(* suspended; at resume it has at most one signal pending.                 *)
(***************************************************************************)
EXTENDS Integers

CONSTANTS
    Granularity,    \* CRASHLOG_WD_GRANULARITY
    Period,         \* crashlog_wd_timeout, seconds between expirations
    SelectTimeout,  \* CRASHLOG_SELECT_TIMEOUT
    AnyThread,      \* the handler may run in another thread than the main one
    MaxSuspends     \* bound: suspends since the last kick

\* With 1 the report may come in the middle of a kick, before the timer is set.
ASSUME GranularityAssumption == Granularity \in Nat \ {0, 1}
ASSUME PeriodAssumption ==
    /\ Period \in Nat /\ SelectTimeout \in Nat \ {0} /\ SelectTimeout < Period
ASSUME ModeAssumption == AnyThread \in BOOLEAN /\ MaxSuspends \in Nat

VARIABLES
    main,      \* busy: in a handler; kick: between the two steps of
               \* kick_watchdog; select: waiting; dead
    pulse,
    timer,     \* time to the next expiration
    signal,    \* the signal of the timer is pending
    seen,      \* what a handler in another thread read of pulse, -1 if none
    wait,      \* time left of the select
    busy,      \* history: time awake since the timer was last set, no further
               \* than one second past Longest
    suspends,  \* history: suspends since the timer was last set
    reports,   \* history: reports started since the timer was last set
    undone     \* history: a handler in another thread wrote over the last kick

Longest == 2 * Granularity * Period

vars == <<main, pulse, timer, signal, seen, wait, busy, suspends, reports,
          undone>>
-----------------------------------------------------------------------------
(* Mutant: the expirations are not reset.                                   *)
KickPulse_Kept ==
    /\ main = "busy"
    /\ main' = "kick"
    /\ UNCHANGED <<pulse, timer, signal, seen, wait, busy, suspends, reports,
                   undone>>

(* kick_watchdog, at the top of the loop: pulse first, then the timer.      *)
(* Whether a pending signal survives timer_settime is unspecified.          *)
KickPulse ==
    /\ main = "busy"
    /\ main' = "kick" /\ pulse' = 0
    /\ undone' = (seen # -1)
    /\ UNCHANGED <<timer, signal, seen, wait, busy, suspends, reports>>

KickTimer ==
    /\ main = "kick"
    /\ main' = "select"
    /\ timer' = Period /\ signal' \in {signal, FALSE}
    /\ wait' = SelectTimeout
    /\ busy' = 0 /\ suspends' = 0 /\ reports' = 0
    /\ UNCHANGED <<pulse, seen, undone>>

(* select returns: data, its timeout, or EINTR after a signal handler (then *)
(* the loop starts again at once, which busy covers).                       *)
SelectReturns ==
    /\ main = "select"
    /\ main' = "busy"
    /\ UNCHANGED <<pulse, timer, signal, seen, wait, busy, suspends, reports,
                   undone>>

(* crashlog_wd_handler, once it knows its stage: start the thread that      *)
(* reports the daemon, kill the daemon, or nothing.                         *)
Act(stage) ==
    /\ reports' = IF stage = Granularity THEN reports + 1 ELSE reports
    /\ main' = IF stage >= 2 * Granularity THEN "dead" ELSE main

(* Mutant: the handler does not count.                                      *)
HandleSignal_Uncounted ==
    /\ signal /\ main # "dead"
    /\ signal' = FALSE
    /\ Act(pulse)
    /\ UNCHANGED <<pulse, timer, seen, wait, busy, suspends, undone>>

(* The handler interrupts the main thread.                                  *)
HandleSignal ==
    /\ signal /\ main # "dead"
    /\ signal' = FALSE /\ pulse' = pulse + 1
    /\ Act(pulse + 1)
    /\ UNCHANGED <<timer, seen, wait, busy, suspends, undone>>

(* The handler runs beside the main thread.                                 *)
ReadPulse ==
    /\ AnyThread /\ signal /\ seen = -1 /\ main # "dead"
    /\ signal' = FALSE /\ seen' = pulse
    /\ UNCHANGED <<main, pulse, timer, wait, busy, suspends, reports,
                   undone>>

WritePulse ==
    /\ seen # -1 /\ main # "dead"
    /\ pulse' = seen + 1 /\ seen' = -1
    /\ Act(seen + 1)
    /\ UNCHANGED <<timer, signal, wait, busy, suspends, undone>>

(* A second passes with the system awake: signals are handled within it,    *)
(* select ends on time and the loop reaches its kick.                       *)
Tick ==
    /\ main \in {"busy", "select"} /\ ~signal /\ seen = -1
    /\ main = "select" => wait > 0
    /\ IF timer = 1 THEN timer' = Period /\ signal' = TRUE
                    ELSE timer' = timer - 1 /\ signal' = FALSE
    /\ wait' = IF main = "select" THEN wait - 1 ELSE wait
    /\ busy' = IF busy > Longest THEN busy ELSE busy + 1
    /\ UNCHANGED <<main, pulse, seen, suspends, reports, undone>>

(* The system is suspended for so long that the timer expires.              *)
Suspend ==
    /\ main \in {"busy", "select"} /\ ~signal /\ seen = -1
    /\ suspends < MaxSuspends
    /\ signal' = TRUE
    /\ timer' \in 1 .. Period
    /\ suspends' = suspends + 1
    /\ UNCHANGED <<main, pulse, seen, wait, busy, reports, undone>>

(* enable_watchdog in the daemon started anew by init.                      *)
EnableWatchdog ==
    /\ main = "dead"
    /\ main' = "busy"
    /\ pulse' = 0 /\ timer' = Period /\ signal' = FALSE /\ seen' = -1
    /\ wait' = 0
    /\ busy' = 0 /\ suspends' = 0 /\ reports' = 0 /\ undone' = FALSE
-----------------------------------------------------------------------------
Init ==
    /\ main = "busy" /\ pulse = 0 /\ timer = Period /\ signal = FALSE
    /\ seen = -1 /\ wait = 0
    /\ busy = 0 /\ suspends = 0 /\ reports = 0 /\ undone = FALSE

Handler == HandleSignal \/ ReadPulse \/ WritePulse
Next ==
    \/ KickPulse \/ KickTimer \/ SelectReturns
    \/ Handler \/ Tick \/ Suspend \/ EnableWatchdog

(* Time passes and pending signals are delivered.  No handler of the main   *)
(* loop is sure to end.                                                     *)
Fairness == WF_vars(Tick) /\ WF_vars(Handler) /\ WF_vars(KickTimer)
Spec == Init /\ [][Next]_vars /\ Fairness
-----------------------------------------------------------------------------
(* Type correctness; the counts of expirations and of time are bounded      *)
(* because the daemon is killed.                                            *)
TypeOK ==
    /\ main \in {"busy", "kick", "select", "dead"}
    /\ pulse \in 0 .. 2 * Granularity
    /\ timer \in 1 .. Period /\ signal \in BOOLEAN
    /\ seen \in -1 .. 2 * Granularity
    /\ wait \in 0 .. SelectTimeout
    /\ busy \in Nat /\ suspends \in 0 .. MaxSuspends /\ reports \in Nat
    /\ undone \in BOOLEAN

(* The daemon is killed only when its main loop has not come round for all  *)
(* but one of the expirations (one may slip in between the two steps of the *)
(* kick); a suspend, however long, stands for two expirations at most.  The *)
(* exception is a kick undone by a handler that runs in another thread.     *)
(* And it has been reported before, once.                                   *)
KilledIsStuck ==
    main = "dead" /\ ~undone =>
        /\ busy + 2 * suspends * Period >= (2 * Granularity - 1) * Period
        /\ reports = 1

(* A handler that never ends does not hold the main loop forever: the       *)
(* daemon is killed after twice the timeout at the latest.                  *)
StuckIsKilled == busy <= Longest

(* A main loop that stays in a handler ends up killed.                      *)
StuckForeverDies == main = "busy" ~> main # "busy"
=============================================================================
