----------------------------- MODULE MCWatchdog -----------------------------
(***************************************************************************)
(* Instance of Watchdog and of Logcat.  The two share no state, so that a  *)
(* behaviour is one of either: which says of which, and the other rests.   *)
(***************************************************************************)
EXTENDS Watchdog, Logcat

VARIABLE which
wlvars == <<which, vars, lvars>>

Dog(A)  == which = "watchdog" /\ A /\ UNCHANGED <<which, lvars>>
Log(A)  == which = "logcat" /\ A /\ UNCHANGED <<which, vars>>

\* Where it rests, the loop of crashlogd waits after its first kick.
Kicked ==
    /\ main = "select" /\ pulse = 0 /\ timer = Period /\ signal = FALSE
    /\ seen = -1 /\ wait = SelectTimeout
    /\ busy = 0 /\ suspends = 0 /\ reports = 0 /\ undone = FALSE

\* The options of logcatext are chosen where it is the one that moves.
WLInit ==
    /\ LInit
    /\ \/ which = "logcat" /\ Kicked
       \/ /\ which = "watchdog" /\ Init
          /\ logd = <<>> /\ opt.buffers = {"all"} /\ opt.clear

WLNext ==
    \/ Dog(KickPulse) \/ Dog(KickTimer) \/ Dog(SelectReturns) \/ Dog(Handler)
    \/ Dog(Tick) \/ Dog(Suspend) \/ Dog(EnableWatchdog)
    \/ Log(MainStep) \/ Log(ThreadStep) \/ Log(LogdGets) \/ Log(KernelLogs) \/ Log(Stop)

\* The fairness of Watchdog and Logcat, where they are the ones that move.
WLFairness ==
    /\ WF_wlvars(Dog(Tick)) /\ WF_wlvars(Dog(Handler)) /\ WF_wlvars(Dog(KickTimer))
    /\ WF_wlvars(Log(MainStep)) /\ WF_wlvars(Log(ThreadStep))

WLSpec == WLInit /\ [][WLNext]_wlvars /\ WLFairness
=============================================================================
