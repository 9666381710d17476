--------------------------- MODULE WatchdogProofs ---------------------------
(***************************************************************************)
(* The watchdog kills a stuck daemon, and only a stuck one, for every      *)
(* period, granularity and number of suspends.                             *)
(* And of logcatext: its files hold an unbroken tail of its output, and    *)
(* both logs are merged whole and in order, for every number of files, of  *)
(* messages and of kills.                                                  *)
(***************************************************************************)
EXTENDS Watchdog, Logcat, SequenceTheorems, TLAPS

(* The expirations the handler knows or is about to know of: what another   *)
(* thread will write, or what is counted and the signal pending.            *)
Expired == IF seen # -1 THEN seen + 1 ELSE pulse + (IF signal THEN 1 ELSE 0)

(* The timer signals nothing before the last signal is handled, the handler *)
(* that counts to the end kills.                                            *)
Counting ==
    /\ seen # -1 => ~signal
    /\ main # "dead" => pulse < 2 * Granularity /\ seen + 1 <= 2 * Granularity

(* No expiration is forgotten: the time awake is at most what they cover.   *)
Late == main \in {"busy", "select"} => busy <= Expired * Period + Period - timer

(* And none is invented, but for one that came between the steps of a kick: *)
(* all others took a period, or a suspend.                                  *)
Early ==
    main \in {"busy", "select"} /\ ~undone =>
        /\ (Expired - 1) * Period + Period - timer <= busy + 2 * suspends * Period
        /\ seen # -1 => seen = pulse
        /\ reports = IF pulse >= Granularity THEN 1 ELSE 0
Kicking ==
    main = "kick" /\ ~undone => Expired <= 1 /\ (seen # -1 => seen = pulse)

IInv == TypeOK /\ Counting /\ Late /\ Early /\ Kicking /\ KilledIsStuck /\ StuckIsKilled
-----------------------------------------------------------------------------
LEMMA Times ==
    ASSUME NEW a \in Int, NEW b \in Int, NEW p \in Nat, a <= b
    PROVE  a * p <= b * p
OBVIOUS

LEMMA Constants ==
    /\ Granularity \in Nat /\ Granularity >= 2 /\ Period \in Nat /\ Period >= 2
    /\ Granularity * Period \in Nat /\ Longest = 2 * (Granularity * Period)
    /\ Longest \in Nat
<1>1. /\ Granularity \in Nat /\ Granularity >= 2 /\ Period \in Nat /\ Period >= 2
  BY GranularityAssumption, PeriodAssumption
<1> QED BY <1>1 DEF Longest

LEMMA IInvInit == Init => IInv
<1> SUFFICES ASSUME Init PROVE IInv
  OBVIOUS
<1> USE Constants, PeriodAssumption, ModeAssumption
<1>1. TypeOK
  <2>1. signal \in BOOLEAN /\ undone \in BOOLEAN
    BY DEF Init
  <2>2. /\ main = "busy" /\ pulse = 0 /\ timer = Period /\ seen = -1 /\ wait = 0
        /\ busy = 0 /\ suspends = 0 /\ reports = 0
    BY DEF Init
  <2> QED BY <2>1, <2>2 DEF TypeOK
<1>2. Expired = 0
  BY DEF Init, Expired
<1>3. Counting /\ Late /\ Kicking /\ KilledIsStuck /\ StuckIsKilled
  BY <1>2 DEF Init, Counting, Late, Kicking, KilledIsStuck, StuckIsKilled
<1>4. Early
  BY <1>2 DEF Init, Early
<1> QED BY <1>1, <1>3, <1>4 DEF IInv
-----------------------------------------------------------------------------
(* What the count of expirations is, as a number.                           *)
Number ==
    /\ Expired \in Nat
    /\ seen # -1 => Expired = seen + 1
    /\ seen = -1 /\ signal => Expired = pulse + 1
    /\ seen = -1 /\ ~signal => Expired = pulse

LEMMA ExpiredIs == TypeOK => Number
<1> SUFFICES ASSUME TypeOK PROVE Number
  OBVIOUS
<1>1. pulse \in Nat /\ seen \in Int /\ seen >= -1
  BY Constants DEF TypeOK
<1>2. CASE seen # -1
  BY <1>1, <1>2 DEF Expired, Number
<1>3. CASE seen = -1 /\ signal
  BY <1>1, <1>3 DEF Expired, Number
<1>4. CASE seen = -1 /\ ~signal
  BY <1>1, <1>4 DEF Expired, Number
<1> QED BY <1>2, <1>3, <1>4

LEMMA ExpiredIsNext == TypeOK' => Number'
BY ExpiredIs, PTL

(* A step of the main thread that only moves it within its loop.            *)
LEMMA KickPulseStep == ASSUME IInv, KickPulse PROVE IInv'
<1>1. TypeOK'
  <2>1. undone' \in BOOLEAN
    BY DEF KickPulse
  <2>2. pulse' = 0 /\ main' = "kick"
    BY DEF KickPulse
  <2> QED BY <2>1, <2>2, Constants DEF IInv, TypeOK, KickPulse
<1>2. Counting'
  BY Constants DEF IInv, TypeOK, Counting, KickPulse
<1>3. Kicking'
  <2> SUFFICES ASSUME ~undone' PROVE Expired' <= 1 /\ seen' = -1
    BY DEF Kicking
  <2>1. seen' = -1 /\ pulse' = 0
    BY DEF KickPulse
  <2> QED BY <2>1, <1>1, ExpiredIsNext DEF Number
<1>4. Late' /\ Early' /\ KilledIsStuck' /\ StuckIsKilled'
  BY DEF IInv, KickPulse, Late, Early, KilledIsStuck, StuckIsKilled
<1> QED BY <1>1, <1>2, <1>3, <1>4 DEF IInv

LEMMA KickTimerStep == ASSUME IInv, KickTimer PROVE IInv'
<1>0. TypeOK /\ Kicking /\ Counting
  BY DEF IInv
<1>1. TypeOK'
  <2>1. signal' \in BOOLEAN
    BY <1>0 DEF KickTimer, TypeOK
  <2>2. /\ timer' = Period /\ wait' = SelectTimeout /\ busy' = 0 /\ suspends' = 0
        /\ reports' = 0 /\ main' = "select"
        /\ UNCHANGED <<pulse, seen, undone>>
    BY DEF KickTimer
  <2> QED BY <1>0, <2>1, <2>2, Constants, PeriodAssumption, ModeAssumption DEF TypeOK
<1>2. Counting'
  <2>1. signal' => signal
    BY DEF KickTimer
  <2> QED BY <1>0, <2>1 DEF Counting, KickTimer
<1>3. Late'
  BY <1>1, ExpiredIsNext, Constants DEF Number, Late, KickTimer
<1>4. Early'
  <2>0. Expired' \in Nat /\ Expired \in Nat /\ pulse \in Nat
    BY <1>0, <1>1, ExpiredIs, ExpiredIsNext, Constants DEF Number, TypeOK
  <2>1. Expired' <= Expired
    <3>1. CASE seen # -1
      BY <1>0, <1>1, <2>0, <3>1, ExpiredIs, ExpiredIsNext DEF Number, KickTimer
    <3>2. CASE seen = -1
      <4>1. signal' => signal
        BY DEF KickTimer
      <4>2. pulse' = pulse /\ seen' = -1
        BY <3>2 DEF KickTimer
      <4> QED BY <1>0, <1>1, <2>0, <3>2, <4>1, <4>2, ExpiredIs, ExpiredIsNext DEF Number
    <3> QED BY <3>1, <3>2
  <2>2. ASSUME ~undone
        PROVE  Expired' <= 1 /\ pulse <= 1 /\ (seen # -1 => seen = pulse)
    <3>1. Expired <= 1 /\ (seen # -1 => seen = pulse)
      BY <1>0, <2>2 DEF Kicking, KickTimer
    <3>2. pulse <= Expired
      BY <1>0, <2>0, <3>1, ExpiredIs DEF Number
    <3>3. Expired' <= 1
      BY <2>0, <2>1, <3>1
    <3>4. pulse <= 1
      BY <2>0, <3>1, <3>2
    <3> QED BY <3>1, <3>3, <3>4
  <2>3. ASSUME ~undone PROVE (Expired' - 1) * Period + Period - Period <= 0
    <3>1. Expired' = 0 \/ Expired' = 1
      BY <2>0, <2>2, <2>3
    <3> QED BY <3>1, Constants
  <2>4. ~undone => ~(pulse >= Granularity) /\ (seen # -1 => seen = pulse)
    BY <2>0, <2>2, Constants
  <2> QED BY <2>3, <2>4, Constants DEF Early, KickTimer
<1>5. Kicking' /\ KilledIsStuck' /\ StuckIsKilled'
  BY Constants DEF KickTimer, Kicking, KilledIsStuck, StuckIsKilled
<1> QED BY <1>1, <1>2, <1>3, <1>4, <1>5 DEF IInv

LEMMA SelectReturnsStep == ASSUME IInv, SelectReturns PROVE IInv'
<1>1. TypeOK'
  BY DEF IInv, TypeOK, SelectReturns
<1>2. Expired' = Expired
  BY DEF Expired, SelectReturns
<1> QED BY <1>1, <1>2 DEF IInv, SelectReturns, Counting, Late, Early, Kicking,
           KilledIsStuck, StuckIsKilled

(* The handler once it has counted: what was pending is now in pulse.       *)
LEMMA Counted ==
    ASSUME IInv, TypeOK', main # "dead", pulse' = Expired, seen' = -1, ~signal',
           Act(Expired), Expired >= 1, Expired <= 2 * Granularity,
           ~undone /\ main # "kick" => pulse = Expired - 1,
           UNCHANGED <<timer, busy, suspends, undone>>
    PROVE  IInv'
<1>0. TypeOK /\ Late /\ Early /\ Kicking /\ StuckIsKilled
  BY DEF IInv
<1>1. Expired' = Expired /\ Expired \in Nat
  BY <1>0, ExpiredIs, ExpiredIsNext DEF Number
<1>2. Counting'
  BY <1>1, Constants DEF Counting, Act
<1>3. Late' /\ StuckIsKilled'
  BY <1>0, <1>1 DEF Late, StuckIsKilled, Act
<1>4. Kicking'
  BY <1>0, <1>1 DEF Kicking, Act
<1>5. Early'
  <2> SUFFICES ASSUME main' \in {"busy", "select"}, ~undone
               PROVE  reports' = IF Expired >= Granularity THEN 1 ELSE 0
    BY <1>0, <1>1 DEF Early, Act
  <2>1. main' = main /\ pulse = Expired - 1
    BY DEF Act
  <2>2. reports = IF Expired - 1 >= Granularity THEN 1 ELSE 0
    BY <1>0, <2>1 DEF Early
  <2> QED BY <1>1, <2>2, Constants DEF Act
<1>6. KilledIsStuck'
  <2> SUFFICES ASSUME main' = "dead", ~undone
               PROVE  /\ busy + 2 * suspends * Period >= (2 * Granularity - 1) * Period
                      /\ reports' = 1
    BY DEF KilledIsStuck
  <2>1. Expired = 2 * Granularity
    BY <1>1, Constants DEF Act
  <2>2. main # "kick"
    BY <1>0, <2>1, Constants DEF Kicking
  <2>3. pulse = 2 * Granularity - 1 /\ main \in {"busy", "select"}
    BY <1>0, <2>1, <2>2 DEF TypeOK
  <2>4. /\ (2 * Granularity - 1) * Period + Period - timer <= busy + 2 * suspends * Period
        /\ reports = 1
    BY <1>0, <2>1, <2>3, Constants DEF Early
  <2>5. Period - timer >= 0 /\ timer \in Nat /\ busy \in Nat /\ suspends \in Nat
    BY <1>0, Constants, ModeAssumption DEF TypeOK
  <2>6. reports' = 1
    BY <2>1, <2>4, Constants DEF Act
  <2>7. (2 * Granularity - 1) * Period \in Int /\ 2 * suspends * Period \in Int
    BY <2>5, Constants
  <2> QED BY <2>4, <2>5, <2>6, <2>7, Constants
<1> QED BY <1>2, <1>3, <1>4, <1>5, <1>6 DEF IInv

LEMMA HandleSignalStep == ASSUME IInv, HandleSignal PROVE IInv'
<1>0. TypeOK /\ Counting
  BY DEF IInv
<1>1. seen = -1 /\ signal /\ main # "dead" /\ pulse < 2 * Granularity
  BY <1>0 DEF HandleSignal, Counting
<1>2. Expired = pulse + 1 /\ pulse \in Nat
  BY <1>0, <1>1, ExpiredIs, Constants DEF Number, TypeOK
<1>3. TypeOK'
  <2>1. ~signal' /\ signal' \in BOOLEAN
    BY DEF HandleSignal
  <2>2. main' \in {"busy", "kick", "select", "dead"} /\ reports' \in Nat
    BY <1>0 DEF HandleSignal, Act, TypeOK
  <2>3. pulse' \in 0 .. 2 * Granularity
    BY <1>1, <1>2, Constants DEF HandleSignal
  <2> QED BY <1>0, <2>1, <2>2, <2>3 DEF HandleSignal, TypeOK
<1> QED BY <1>0, <1>1, <1>2, <1>3, Counted, Constants DEF HandleSignal

LEMMA ReadPulseStep == ASSUME IInv, ReadPulse PROVE IInv'
<1>0. TypeOK /\ Counting /\ signal /\ seen = -1 /\ main # "dead"
  BY DEF IInv, ReadPulse
<1>1. TypeOK'
  <2>1. ~signal' /\ signal' \in BOOLEAN
    BY DEF ReadPulse
  <2>2. seen' = pulse
    BY DEF ReadPulse
  <2> QED BY <1>0, <2>1, <2>2, Constants DEF ReadPulse, TypeOK
<1>2. Expired' = Expired
  <2>1. Expired = pulse + 1
    BY <1>0, ExpiredIs DEF Number
  <2>2. seen' # -1 /\ seen' = pulse
    BY <1>0, Constants DEF ReadPulse, TypeOK
  <2> QED BY <1>1, <2>1, <2>2, ExpiredIsNext DEF Number
<1>3. Counting'
  BY <1>0, Constants DEF Counting, ReadPulse, TypeOK
<1>4. Late' /\ Early' /\ Kicking' /\ KilledIsStuck' /\ StuckIsKilled'
  BY <1>2 DEF IInv, ReadPulse, Late, Early, Kicking, KilledIsStuck, StuckIsKilled
<1> QED BY <1>1, <1>3, <1>4 DEF IInv

LEMMA WritePulseStep == ASSUME IInv, WritePulse PROVE IInv'
<1>0. TypeOK /\ Counting /\ Early
  BY DEF IInv
<1>1. seen # -1 /\ ~signal /\ main # "dead" /\ seen + 1 <= 2 * Granularity
  BY <1>0 DEF WritePulse, Counting
<1>2. Expired = seen + 1 /\ seen \in Nat
  BY <1>0, <1>1, ExpiredIs, Constants DEF Number, TypeOK
<1>3. TypeOK'
  <2>1. main' \in {"busy", "kick", "select", "dead"} /\ reports' \in Nat
    BY <1>0 DEF WritePulse, Act, TypeOK
  <2>2. pulse' \in 0 .. 2 * Granularity /\ seen' \in -1 .. 2 * Granularity
    BY <1>1, <1>2, Constants DEF WritePulse
  <2> QED BY <1>0, <2>1, <2>2 DEF WritePulse, TypeOK
<1>4. ~undone /\ main # "kick" => pulse = seen
  BY <1>0, <1>1 DEF Early, TypeOK
<1> QED BY <1>1, <1>2, <1>3, <1>4, Counted, Constants DEF WritePulse

LEMMA TickStep == ASSUME IInv, Tick PROVE IInv'
<1>0. TypeOK /\ Counting /\ Late /\ Early /\ StuckIsKilled
  BY DEF IInv
<1>1. /\ main \in {"busy", "select"} /\ main' = main /\ ~signal /\ seen = -1
      /\ seen' = -1 /\ pulse' = pulse /\ suspends' = suspends /\ reports' = reports
      /\ undone' = undone
  BY DEF Tick
<1>2. /\ timer \in 1 .. Period /\ busy \in Nat /\ pulse \in Nat /\ suspends \in Nat
      /\ pulse <= 2 * Granularity - 1
  BY <1>0, <1>1, Constants, ModeAssumption DEF TypeOK, Counting
<1>3. Expired = pulse
  BY <1>0, <1>1, ExpiredIs DEF Number
<1>4. busy' = busy + 1
  BY <1>0, <1>2, Constants DEF StuckIsKilled, Tick
<1>5. TypeOK'
  <2>1. signal' \in BOOLEAN
    BY DEF Tick
  <2>2. timer' \in 1 .. Period
    BY <1>2, Constants DEF Tick
  <2>3. wait' \in 0 .. SelectTimeout
    BY <1>0, PeriodAssumption DEF Tick, TypeOK
  <2> QED BY <1>0, <1>1, <1>2, <1>4, <2>1, <2>2, <2>3 DEF TypeOK
<1>6. Counting'
  BY <1>0, <1>1 DEF Counting
<1>7. \/ timer = 1 /\ timer' = Period /\ Expired' = pulse + 1
      \/ timer' = timer - 1 /\ Expired' = pulse
  BY <1>1, <1>5, ExpiredIsNext DEF Number, Tick
<1>8. Expired' * Period + Period - timer' = pulse * Period + Period - timer + 1
  <2>1. (pulse + 1) * Period = pulse * Period + Period /\ pulse * Period \in Nat
    BY <1>2, Constants
  <2> QED BY <1>2, <1>7, <2>1, Constants
<1>9. Late'
  BY <1>0, <1>1, <1>2, <1>3, <1>4, <1>5, <1>8, Constants DEF Late
<1>10. Early'
  <2>1. (Expired' - 1) * Period + Period - timer' = (pulse - 1) * Period + Period - timer + 1
    <3>1. (pulse - 1) * Period = pulse * Period - Period /\ pulse * Period \in Nat
      BY <1>2, Constants
    <3>2. (Expired' - 1) * Period = Expired' * Period - Period /\ Expired' * Period \in Nat
      BY <1>5, ExpiredIsNext, Constants DEF Number
    <3>3. timer' \in Nat
      BY <1>5, Constants DEF TypeOK
    <3> QED BY <1>2, <1>8, <3>1, <3>2, <3>3, Constants
  <2>2. (pulse - 1) * Period \in Int /\ 2 * suspends * Period \in Int
    BY <1>2, Constants
  <2> QED BY <1>0, <1>1, <1>2, <1>3, <1>4, <2>1, <2>2, Constants DEF Early
<1>11. StuckIsKilled'
  <2>1. pulse * Period <= (2 * Granularity - 1) * Period
    BY <1>2, Constants, Times
  <2>2. (2 * Granularity - 1) * Period = Longest - Period
    BY Constants
  <2>3. busy <= pulse * Period + Period - timer /\ pulse * Period \in Nat
    BY <1>0, <1>1, <1>2, <1>3, Constants DEF Late
  <2> QED BY <1>2, <1>4, <2>1, <2>2, <2>3, Constants DEF StuckIsKilled
<1>12. Kicking' /\ KilledIsStuck'
  BY <1>1 DEF Kicking, KilledIsStuck
<1> QED BY <1>5, <1>6, <1>9, <1>10, <1>11, <1>12 DEF IInv

LEMMA SuspendStep == ASSUME IInv, Suspend PROVE IInv'
<1>0. TypeOK /\ Counting /\ Late /\ Early /\ StuckIsKilled
  BY DEF IInv
<1>1. /\ main \in {"busy", "select"} /\ main' = main /\ ~signal /\ seen = -1 /\ signal'
      /\ seen' = -1 /\ pulse' = pulse /\ suspends' = suspends + 1 /\ reports' = reports
      /\ undone' = undone /\ busy' = busy /\ wait' = wait
  BY DEF Suspend
<1>2. /\ timer \in 1 .. Period /\ timer' \in 1 .. Period /\ busy \in Nat
      /\ pulse \in Nat /\ suspends \in Nat
  BY <1>0, Constants, ModeAssumption DEF TypeOK, Suspend
<1>3. Expired = pulse
  BY <1>0, <1>1, ExpiredIs DEF Number
<1>4. TypeOK'
  <2>1. signal' \in BOOLEAN
    BY DEF Suspend
  <2>2. suspends' \in 0 .. MaxSuspends
    BY <1>0, <1>1, <1>2, ModeAssumption DEF TypeOK, Suspend
  <2> QED BY <1>0, <1>1, <1>2, <2>1, <2>2 DEF TypeOK
<1>5. Counting'
  BY <1>0, <1>1 DEF Counting
<1>6. Expired' = pulse + 1
  BY <1>1, <1>4, ExpiredIsNext DEF Number
<1>7. (pulse + 1) * Period = pulse * Period + Period /\ pulse * Period \in Nat
  BY <1>2, Constants
<1>8. Late'
  <2>1. Expired' * Period = pulse * Period + Period
    BY <1>6, <1>7
  <2>2. busy <= pulse * Period + Period - timer
    BY <1>0, <1>1, <1>3 DEF Late
  <2> QED BY <1>1, <1>2, <1>7, <2>1, <2>2, Constants DEF Late
<1>9. Early'
  <2>1. (pulse - 1) * Period = pulse * Period - Period
    BY <1>2, Constants
  <2>2. /\ 2 * (suspends + 1) * Period = 2 * suspends * Period + 2 * Period
        /\ 2 * suspends * Period \in Int
    BY <1>2, Constants
  <2>3. (Expired' - 1) * Period = pulse * Period
    BY <1>2, <1>6, Constants
  <2> QED BY <1>0, <1>1, <1>2, <1>3, <1>7, <2>1, <2>2, <2>3, Constants DEF Early
<1>10. Kicking' /\ KilledIsStuck' /\ StuckIsKilled'
  BY <1>0, <1>1 DEF Kicking, KilledIsStuck, StuckIsKilled
<1> QED BY <1>4, <1>5, <1>8, <1>9, <1>10 DEF IInv

LEMMA EnableStep == ASSUME IInv, EnableWatchdog PROVE IInv'
<1>1. TypeOK'
  <2>1. signal' \in BOOLEAN /\ undone' \in BOOLEAN
    BY DEF EnableWatchdog
  <2>2. /\ main' = "busy" /\ pulse' = 0 /\ timer' = Period /\ seen' = -1 /\ wait' = 0
        /\ busy' = 0 /\ suspends' = 0 /\ reports' = 0
    BY DEF EnableWatchdog
  <2> QED BY <2>1, <2>2, Constants, PeriodAssumption, ModeAssumption DEF TypeOK
<1>2. Expired' = 0
  BY <1>1, ExpiredIsNext DEF Number, EnableWatchdog
<1>3. Counting' /\ Late' /\ Kicking' /\ KilledIsStuck' /\ StuckIsKilled'
  BY <1>2, Constants DEF EnableWatchdog, Counting, Late, Kicking, KilledIsStuck,
     StuckIsKilled
<1>4. Early'
  BY <1>2, Constants DEF EnableWatchdog, Early
<1> QED BY <1>1, <1>3, <1>4 DEF IInv

LEMMA IInvNext == IInv /\ [Next]_vars => IInv'
<1> SUFFICES ASSUME IInv, [Next]_vars PROVE IInv'
  OBVIOUS
<1>1. CASE UNCHANGED vars
  <2>1. Expired' = Expired
    BY <1>1 DEF vars, Expired
  <2> QED BY <1>1, <2>1 DEF vars, IInv, TypeOK, Counting, Late, Early, Kicking,
             KilledIsStuck, StuckIsKilled
<1> QED BY <1>1, KickPulseStep, KickTimerStep, SelectReturnsStep, HandleSignalStep,
           ReadPulseStep, WritePulseStep, TickStep, SuspendStep, EnableStep
        DEF Next, Handler
-----------------------------------------------------------------------------
(* Type correctness: the counter of expirations never passes the kill.      *)
THEOREM TypeCorrect == Spec => []TypeOK
<1>1. IInv => TypeOK
  BY DEF IInv
<1> QED BY <1>1, IInvInit, IInvNext, PTL DEF Spec

(* crashlog_wd_handler kills the daemon only when the main loop has not     *)
(* come round for all but one of the expirations, and has reported it once, *)
(* unless a handler in another thread undid a kick.                         *)
THEOREM KillJustified == Spec => []KilledIsStuck
<1>1. IInv => KilledIsStuck
  BY DEF IInv
<1> QED BY <1>1, IInvInit, IInvNext, PTL DEF Spec

(* No handler holds the main loop, awake, for longer than twice the timeout *)
(* of the watchdog, whichever thread its signals are handled in.            *)
THEOREM KillInTime == Spec => []StuckIsKilled
<1>1. IInv => StuckIsKilled
  BY DEF IInv
<1> QED BY <1>1, IInvInit, IInvNext, PTL DEF Spec
-----------------------------------------------------------------------------
(* logcatext: types, and what its invariant is made of.                     *)
LTypes ==
    /\ logd \in Seq(Nat \cup {Sync}) /\ kmsg \in Seq(Nat) /\ time \in Nat
    /\ pos \in 0..Len(logd) /\ kpos \in 0..Len(kmsg)
    /\ log_msg \in Nat \cup {Sync} /\ klog_msg \in Nat
    /\ out \in Seq(Nat) /\ total \in Seq(Nat)
    /\ files \in [0..Rotated -> Seq(Nat) \cup {NoFile}] /\ turn \in 0..Rotated

(* Both sources hold the messages of different times, in order.             *)
InOrder ==
    /\ \A i \in DOMAIN kmsg : kmsg[i] \in 1..time
    /\ \A i \in DOMAIN logd : logd[i] \in 1..time \cup {Sync}
    /\ \A i, j \in DOMAIN kmsg : i < j => kmsg[i] < kmsg[j]
    /\ \A i, j \in DOMAIN logd : i < j /\ Sync \notin {logd[i], logd[j]} => logd[i] < logd[j]
    /\ \A i \in DOMAIN kmsg, j \in DOMAIN logd : kmsg[i] # logd[j]

(* A message in hand is the last that was read; logd is read with none.     *)
InHand ==
    /\ log_msg # None => pos > 0 /\ log_msg = logd[pos]
    /\ klog_msg # None => kpos > 0 /\ klog_msg = kmsg[kpos]
    /\ pc \in {"resume", "resume2", "resume3", "read"} => log_msg = None
    /\ pc \in {"off", "clear"} => pos = 0 /\ log_msg = None

(* The current file is open but between two runs and in a rotation, which   *)
(* has moved the file it has come to.                                       *)
Opened ==
    /\ pc \notin {"off", "rotate"} => files[0] # NoFile
    /\ pc = "rotate" /\ turn < Rotated => files[turn] = NoFile

LInv == LTypes /\ InOrder /\ InHand /\ Opened /\ FilesHoldTail /\ MergedInOrder
-----------------------------------------------------------------------------
LEMMA RotationBounds == Rotated \in Nat
BY LogcatAssumption

LEMMA NoFileApart == \A s \in Seq(Nat) : s # NoFile
<1> SUFFICES ASSUME NEW s \in Seq(Nat), s = NoFile PROVE FALSE
  OBVIOUS
<1>1. s[1] = -1 /\ Len(s) = 1
  BY DEF NoFile, Sync
<1> QED BY <1>1

(* A line at the end of the output.                                         *)
LEMMA OneMore ==
    ASSUME NEW s \in Seq(Nat), NEW m \in Nat
    PROVE  /\ s \o <<m>> \in Seq(Nat) /\ Len(s \o <<m>>) = Len(s) + 1
           /\ (s \o <<m>>)[Len(s) + 1] = m
           /\ \A i \in 1..Len(s) : (s \o <<m>>)[i] = s[i]
OBVIOUS

LEMMA LTypesInit == LInit => LTypes
<1> SUFFICES ASSUME LInit PROVE LTypes
  OBVIOUS
<1>1. <<>> \in Seq(Nat) /\ <<>> \in Seq(Nat \cup {Sync}) /\ <<Sync, 1>> \in Seq(Nat \cup {Sync})
  OBVIOUS
<1>2. files \in [0..Rotated -> Seq(Nat) \cup {NoFile}]
  BY DEF LInit
<1> QED BY <1>1, <1>2, RotationBounds DEF LInit, LTypes, None

LEMMA LTypesStep == LTypes /\ InHand /\ Opened /\ [LNext]_lvars => LTypes'
<1> SUFFICES ASSUME LTypes, InHand, Opened, [LNext]_lvars PROVE LTypes'
  OBVIOUS
<1> USE RotationBounds
<1>f. \A i \in 0..Rotated, s \in Seq(Nat) \cup {NoFile} :
         [files EXCEPT ![i] = s] \in [0..Rotated -> Seq(Nat) \cup {NoFile}]
  BY DEF LTypes
<1>e. <<>> \in Seq(Nat) /\ 0 \in 0..Rotated
  OBVIOUS
<1>1. CASE Setup
  BY <1>1, <1>f, <1>e DEF Setup, LTypes, thread, flags, sources
<1>2. CASE Clear
  <2>1. UNCHANGED <<kmsg, time, pos, kpos, log_msg, klog_msg, out, total, files, turn>>
    BY <1>2 DEF Clear, output
  <2>2. (logd' = <<>> \/ logd' = logd) /\ pos = 0
    BY <1>2 DEF Clear, InHand
  <2>3. <<>> \in Seq(Nat \cup {Sync})
    OBVIOUS
  <2>4. logd' \in Seq(Nat \cup {Sync})
    BY <2>2, <2>3 DEF LTypes
  <2>5. pos \in 0..Len(logd')
    BY <2>2, <2>4
  <2> QED BY <2>1, <2>4, <2>5 DEF LTypes
<1>3. CASE OpenKernel
  BY <1>3 DEF OpenKernel, LTypes, thread, sources, output
<1>4. CASE Turn
  BY <1>4 DEF Turn, LTypes, main_rest, thread, sources, output
<1>5. CASE Resume
  BY <1>5 DEF Resume, LTypes, main_rest, thread, sources, output
<1>6. CASE Read
  <2>1. UNCHANGED <<logd, kmsg, time, kpos, klog_msg, out, total, files, turn>>
    BY <1>6 DEF Read, main_rest, sources, output
  <2>2. \/ UNCHANGED <<pos, log_msg>>
        \/ pos < Len(logd) /\ pos' = pos + 1 /\ log_msg' \in {None, logd[pos + 1]}
    BY <1>6 DEF Read
  <2>3. pos' \in 0..Len(logd)
    BY <2>2 DEF LTypes
  <2>4. log_msg' \in Nat \cup {Sync}
    BY <2>2 DEF LTypes, None
  <2> QED BY <2>1, <2>3, <2>4 DEF LTypes
<1>7. CASE Ack
  BY <1>7 DEF Ack, LTypes, main_rest, thread, sources, output
<1>8. CASE ReadKernel
  <2>1. UNCHANGED <<logd, kmsg, time, pos, log_msg, out, total, files, turn>>
    BY <1>8 DEF ReadKernel, main_rest, sources, output
  <2>2. \/ UNCHANGED <<kpos, klog_msg>>
        \/ kpos < Len(kmsg) /\ kpos' = kpos + 1 /\ klog_msg' = kmsg[kpos + 1]
    BY <1>8 DEF ReadKernel
  <2>3. kpos' \in 0..Len(kmsg)
    BY <2>2 DEF LTypes
  <2>4. klog_msg' \in Nat
    BY <2>2 DEF LTypes
  <2> QED BY <2>1, <2>3, <2>4 DEF LTypes
<1>9. CASE Consumed
  BY <1>9 DEF Consumed, LTypes, main_rest, thread, sources, output
<1>10. CASE Select
  <2>0. UNCHANGED <<sources, pos, kpos>>
    BY <1>10 DEF Select, main_rest
  <2>1. CASE log_msg = None /\ klog_msg = None
    BY <1>10, <2>0, <2>1 DEF Select, LTypes, sources, output
  <2>2. ASSUME NEW m \in Nat \cup {Sync}, processBuffer(m), pc = "select" PROVE
          /\ files' \in [0..Rotated -> Seq(Nat) \cup {NoFile}] /\ turn' \in 0..Rotated
          /\ out' \in Seq(Nat) /\ total' \in Seq(Nat)
    <3> DEFINE line == IF m = Sync THEN <<>> ELSE <<m>>
    <3>1. line \in Seq(Nat)
      BY DEF Sync
    <3> HIDE DEF line
    <3>2. files[0] \in Seq(Nat)
      BY <2>2 DEF LTypes, Opened
    <3>3. files[0] \o line \in Seq(Nat) /\ out \o line \in Seq(Nat) /\ total \o line \in Seq(Nat)
      BY <3>1, <3>2 DEF LTypes
    <3>4. /\ files' = [files EXCEPT ![0] = files[0] \o line] /\ out' = out \o line
          /\ total' = total \o line /\ (turn' = Rotated \/ turn' = turn)
      BY <2>2 DEF processBuffer, line
    <3> QED BY <3>3, <3>4, <1>f, <1>e DEF LTypes
  <2>3. pc = "select"
    BY <1>10 DEF Select
  <2>4. CASE processBuffer(log_msg) /\ log_msg' = None /\ UNCHANGED klog_msg
    BY <2>4, <2>2, <2>0, <2>3 DEF LTypes, sources, None
  <2>5. CASE processBuffer(klog_msg) /\ klog_msg' = None /\ UNCHANGED log_msg
    BY <2>5, <2>2, <2>0, <2>3 DEF LTypes, sources, None
  <2> QED BY <1>10, <2>1, <2>4, <2>5 DEF Select, Taken
<1>11. CASE Rotate
  <2>1. files' \in [0..Rotated -> Seq(Nat) \cup {NoFile}] /\ turn' \in 0..Rotated
    <3>1. turn - 1 \in 0..Rotated /\ files[turn - 1] \in Seq(Nat) \cup {NoFile}
      BY <1>11 DEF Rotate, LTypes
    <3>2. [files EXCEPT ![turn] = files[turn - 1], ![turn - 1] = NoFile]
             \in [0..Rotated -> Seq(Nat) \cup {NoFile}]
      BY <3>1 DEF LTypes
    <3> QED BY <1>11, <3>1, <3>2 DEF Rotate, Step, LTypes
  <2> QED BY <1>11, <2>1 DEF Rotate, LTypes, main_rest, thread, sources
<1>12. CASE Reopen
  BY <1>12, <1>f, <1>e DEF Reopen, LTypes, main_rest, thread, sources
<1>13. CASE LockRun \/ Poll \/ TryProc \/ UnlockProc
  BY <1>13 DEF LockRun, Poll, TryProc, UnlockProc, LTypes, thread_rest, output, flags
<1>14. CASE WriteSync
  <2>1. UNCHANGED <<kmsg, time, pos, kpos, log_msg, klog_msg, out, total, files, turn>>
    BY <1>14 DEF WriteSync, thread_rest, output
  <2>2. logd' = logd \/ logd' = Append(logd, Sync)
    BY <1>14 DEF WriteSync
  <2>3. \A s \in Seq(Nat \cup {Sync}) : /\ Append(s, Sync) \in Seq(Nat \cup {Sync})
                                         /\ Len(Append(s, Sync)) = Len(s) + 1
    OBVIOUS
  <2>4. logd \in Seq(Nat \cup {Sync}) /\ pos \in 0..Len(logd) /\ Len(logd) \in Nat
    BY DEF LTypes
  <2>5. logd' \in Seq(Nat \cup {Sync})
    BY <2>2, <2>3, <2>4
  <2>6. Len(logd') = Len(logd) \/ Len(logd') = Len(logd) + 1
    BY <2>2, <2>3, <2>4
  <2>7. pos \in 0..Len(logd')
    BY <2>4, <2>6
  <2> QED BY <2>1, <2>5, <2>7 DEF LTypes
<1>15. CASE LogdGets
  BY <1>15 DEF LogdGets, LTypes, output
<1>16. CASE KernelLogs
  BY <1>16 DEF KernelLogs, LTypes, output
<1>17. CASE Stop
  BY <1>17, <1>e DEF Stop, LTypes, sources, None
<1>18. CASE UNCHANGED lvars
  BY <1>18 DEF lvars, LTypes, sources, output
<1> QED
  BY <1>1, <1>2, <1>3, <1>4, <1>5, <1>6, <1>7, <1>8, <1>9, <1>10, <1>11, <1>12, <1>13,
     <1>14, <1>15, <1>16, <1>17, <1>18 DEF LNext, MainStep, ThreadStep

LEMMA InOrderStep == LTypes /\ InOrder /\ [LNext]_lvars => InOrder'
<1> SUFFICES ASSUME LTypes, InOrder, [LNext]_lvars PROVE InOrder'
  OBVIOUS
<1>1. ASSUME UNCHANGED kmsg, UNCHANGED time, logd' \in {<<>>, logd} PROVE InOrder'
  BY <1>1 DEF InOrder
<1>2. ASSUME UNCHANGED kmsg, UNCHANGED time, logd' = Append(logd, Sync) PROVE InOrder'
  <2>1. /\ DOMAIN logd = 1..Len(logd) /\ DOMAIN logd' = 1..(Len(logd) + 1)
        /\ \A i \in 1..Len(logd) : logd'[i] = logd[i]
        /\ logd'[Len(logd) + 1] = Sync /\ Len(logd) \in Nat
    BY <1>2 DEF LTypes
  <2>2. \A i \in DOMAIN kmsg : kmsg[i] # Sync
    BY DEF InOrder, Sync, LTypes
  <2> QED BY <1>2, <2>1, <2>2 DEF InOrder
<1>3. ASSUME UNCHANGED kmsg, time' = time + 1, logd' = Append(logd, time') PROVE InOrder'
  <2>1. /\ DOMAIN logd = 1..Len(logd) /\ DOMAIN logd' = 1..(Len(logd) + 1)
        /\ \A i \in 1..Len(logd) : logd'[i] = logd[i]
        /\ logd'[Len(logd) + 1] = time + 1 /\ Len(logd) \in Nat /\ time \in Nat
    BY <1>3 DEF LTypes
  <2>2. \A m : m \in 1..time => m \in 1..(time + 1) /\ m < time + 1
    BY <2>1
  <2>3. \A i \in DOMAIN kmsg : kmsg[i] \in 1..time' /\ kmsg[i] # time + 1
    BY <1>3, <2>2, <2>1 DEF InOrder
  <2>4. \A i \in DOMAIN logd' : logd'[i] \in 1..time' \cup {Sync}
    BY <1>3, <2>1, <2>2 DEF InOrder
  <2>5. \A i, j \in DOMAIN logd' : i < j /\ Sync \notin {logd'[i], logd'[j]} => logd'[i] < logd'[j]
    <3> SUFFICES ASSUME NEW i \in DOMAIN logd', NEW j \in DOMAIN logd', i < j,
                        Sync \notin {logd'[i], logd'[j]}
                 PROVE  logd'[i] < logd'[j]
      OBVIOUS
    <3>1. i \in 1..Len(logd)
      BY <2>1
    <3>2. logd'[i] \in 1..time
      BY <2>1, <3>1 DEF InOrder
    <3> QED BY <2>1, <2>2, <3>1, <3>2 DEF InOrder
  <2>6. \A i \in DOMAIN kmsg, j \in DOMAIN logd' : kmsg[i] # logd'[j]
    BY <2>1, <2>3 DEF InOrder
  <2> QED BY <1>3, <2>3, <2>4, <2>5, <2>6 DEF InOrder
<1>4. ASSUME UNCHANGED logd, time' = time + 1, kmsg' = Append(kmsg, time') PROVE InOrder'
  <2>1. /\ DOMAIN kmsg = 1..Len(kmsg) /\ DOMAIN kmsg' = 1..(Len(kmsg) + 1)
        /\ \A i \in 1..Len(kmsg) : kmsg'[i] = kmsg[i]
        /\ kmsg'[Len(kmsg) + 1] = time + 1 /\ Len(kmsg) \in Nat /\ time \in Nat
    BY <1>4 DEF LTypes
  <2>2. \A m : m \in 1..time => m \in 1..(time + 1) /\ m < time + 1
    BY <2>1
  <2>3. \A i \in DOMAIN kmsg' : kmsg'[i] \in 1..time'
    BY <1>4, <2>2, <2>1 DEF InOrder
  <2>4. \A i \in DOMAIN logd : logd[i] \in 1..time' \cup {Sync} /\ logd[i] # time + 1
    BY <1>4, <2>1, <2>2 DEF InOrder, Sync
  <2>5. \A i, j \in DOMAIN kmsg' : i < j => kmsg'[i] < kmsg'[j]
    <3> SUFFICES ASSUME NEW i \in DOMAIN kmsg', NEW j \in DOMAIN kmsg', i < j
                 PROVE  kmsg'[i] < kmsg'[j]
      OBVIOUS
    <3>1. i \in 1..Len(kmsg)
      BY <2>1
    <3>2. kmsg'[i] \in 1..time
      BY <2>1, <3>1 DEF InOrder
    <3> QED BY <2>1, <2>2, <3>1, <3>2 DEF InOrder
  <2>6. \A i \in DOMAIN kmsg', j \in DOMAIN logd : kmsg'[i] # logd[j]
    BY <2>1, <2>4 DEF InOrder
  <2> QED BY <1>4, <2>3, <2>4, <2>5, <2>6 DEF InOrder
<1>5. CASE UNCHANGED <<kmsg, time, logd>>
  BY <1>1, <1>5
<1>6. CASE MainStep
  <2>1. UNCHANGED <<kmsg, time>> /\ logd' \in {<<>>, logd}
    BY <1>6 DEF MainStep, Setup, Clear, OpenKernel, Turn, Resume, Read, Ack, ReadKernel,
       Consumed, Select, Rotate, Reopen, main_rest, sources
  <2> QED BY <1>1, <2>1
<1>7. CASE ThreadStep
  <2>1. UNCHANGED <<kmsg, time>> /\ (logd' = logd \/ logd' = Append(logd, Sync))
    BY <1>7 DEF ThreadStep, LockRun, Poll, TryProc, WriteSync, UnlockProc, thread_rest
  <2> QED BY <1>1, <1>2, <2>1
<1>8. CASE LogdGets
  BY <1>8, <1>3 DEF LogdGets
<1>9. CASE KernelLogs
  BY <1>9, <1>4 DEF KernelLogs
<1>10. CASE Stop \/ UNCHANGED lvars
  BY <1>10, <1>5 DEF Stop, lvars, sources
<1> QED
  BY <1>6, <1>7, <1>8, <1>9, <1>10 DEF LNext

LEMMA InHandStep == LTypes /\ InHand /\ [LNext]_lvars => InHand'
<1> SUFFICES ASSUME LTypes, InHand, [LNext]_lvars PROVE InHand'
  OBVIOUS
<1>1. CASE Setup \/ Clear \/ OpenKernel \/ Turn \/ Resume \/ Ack \/ Consumed
  BY <1>1 DEF InHand, Setup, Clear, OpenKernel, Turn, Resume, Ack, Consumed, flags, sources,
     main_rest
<1>2. CASE Read
  <2>1. CASE pos' = pos + 1
    BY <1>2, <2>1 DEF Read, main_rest, sources, InHand, LTypes, None
  <2>2. CASE UNCHANGED <<pos, log_msg>>
    BY <1>2, <2>2 DEF Read, main_rest, sources, InHand
  <2> QED BY <1>2, <2>1, <2>2 DEF Read
<1>3. CASE ReadKernel
  <2>1. /\ UNCHANGED <<logd, kmsg, pos, log_msg>> /\ pc = "kread"
        /\ pc' \in {"consumed", "select"}
    BY <1>3 DEF ReadKernel, main_rest, sources
  <2>2. \/ UNCHANGED <<kpos, klog_msg>>
        \/ kpos' = kpos + 1 /\ klog_msg' = kmsg[kpos']
    BY <1>3 DEF ReadKernel
  <2>3. kpos \in Nat
    BY DEF LTypes
  <2> QED BY <2>1, <2>2, <2>3 DEF InHand
<1>4. CASE Select
  BY <1>4 DEF Select, main_rest, sources, InHand, processBuffer, Taken
<1>5. CASE Rotate \/ Reopen
  BY <1>5 DEF Rotate, Reopen, main_rest, sources, InHand
<1>6. ASSUME UNCHANGED <<pc, pos, kpos, log_msg, klog_msg>>,
             \A i \in DOMAIN logd : logd'[i] = logd[i],
             \A i \in DOMAIN kmsg : kmsg'[i] = kmsg[i]
      PROVE  InHand'
  <2>1. /\ pos > 0 => pos \in DOMAIN logd
        /\ kpos > 0 => kpos \in DOMAIN kmsg
    BY DEF LTypes
  <2> QED BY <1>6, <2>1 DEF InHand
<1>7. CASE ThreadStep
  <2>1. UNCHANGED <<kmsg, pc, pos, kpos, log_msg, klog_msg>>
    BY <1>7 DEF ThreadStep, LockRun, Poll, TryProc, WriteSync, UnlockProc, thread_rest
  <2>2. logd' = logd \/ logd' = Append(logd, Sync)
    BY <1>7 DEF ThreadStep, LockRun, Poll, TryProc, WriteSync, UnlockProc
  <2>3. \A i \in DOMAIN logd : Append(logd, Sync)[i] = logd[i]
    BY DEF LTypes
  <2>4. \A i \in DOMAIN logd : logd'[i] = logd[i]
    BY <2>2, <2>3
  <2> QED BY <1>6, <2>1, <2>4
<1>8. CASE LogdGets
  <2>1. \A i \in DOMAIN logd : logd'[i] = logd[i]
    BY <1>8 DEF LogdGets, LTypes
  <2> QED BY <1>6, <1>8, <2>1 DEF LogdGets
<1>9. CASE KernelLogs
  <2>1. \A i \in DOMAIN kmsg : kmsg'[i] = kmsg[i]
    BY <1>9 DEF KernelLogs, LTypes
  <2> QED BY <1>6, <1>9, <2>1 DEF KernelLogs
<1>10. CASE Stop
  BY <1>10 DEF Stop, InHand, None
<1>11. CASE UNCHANGED lvars
  BY <1>11, <1>6 DEF lvars, sources
<1> QED
  BY <1>1, <1>2, <1>3, <1>4, <1>5, <1>7, <1>8, <1>9, <1>10, <1>11 DEF LNext, MainStep

LEMMA OpenedStep == LTypes /\ Opened /\ [LNext]_lvars => Opened'
<1> SUFFICES ASSUME LTypes, Opened, [LNext]_lvars PROVE Opened'
  OBVIOUS
<1> USE RotationBounds
<1>0. <<>> # NoFile /\ 0 \in 0..Rotated
  <2>1. <<>> \in Seq(Nat)
    OBVIOUS
  <2>2. <<>> # NoFile
    BY <2>1, NoFileApart
  <2>3. 0 \in 0..Rotated
    OBVIOUS
  <2> QED BY <2>2, <2>3
<1>1. CASE Setup \/ Reopen
  BY <1>1, <1>0 DEF Setup, Reopen, Opened, LTypes
<1>2. ASSUME UNCHANGED <<files, turn>>, pc \notin {"off", "rotate"}, pc' # "rotate"
      PROVE  Opened'
  BY <1>2 DEF Opened
<1>3. CASE Clear \/ OpenKernel \/ Turn \/ Resume \/ Read \/ Ack \/ ReadKernel \/ Consumed
  <2>1. UNCHANGED <<files, turn>> /\ pc \notin {"off", "rotate"} /\ pc' # "rotate"
    BY <1>3 DEF Clear, OpenKernel, Turn, Resume, Read, Ack, ReadKernel, Consumed, output
  <2> QED BY <1>2, <2>1
<1>4. CASE Select
  <2>1. files[0] \in Seq(Nat)
    BY <1>4 DEF Select, Opened, LTypes
  <2>2. ASSUME NEW m \in Nat \cup {Sync}, processBuffer(m) PROVE Opened'
    <3>1. files'[0] \in Seq(Nat)
      <4>1. CASE m = Sync
        BY <2>1, <2>2, <4>1, <1>0 DEF processBuffer, LTypes
      <4>2. CASE m # Sync
        BY <2>1, <2>2, <4>2, <1>0, OneMore DEF processBuffer, LTypes
      <4> QED BY <4>1, <4>2
    <3>2. files'[0] # NoFile /\ (pc' = "rotate" => turn' = Rotated)
      BY <3>1, <2>2, NoFileApart DEF processBuffer
    <3> QED BY <3>2 DEF Opened
  <2>3. CASE log_msg = None /\ klog_msg = None
    BY <1>4, <2>3, <1>2 DEF Select, output
  <2> QED BY <1>4, <2>2, <2>3 DEF Select, LTypes
<1>5. CASE Rotate
  <2>1. turn - 1 \in 0..Rotated /\ turn - 1 # turn /\ pc' = "rotate" /\ turn' = turn - 1
    BY <1>5 DEF Rotate, LTypes
  <2>2. files'[turn - 1] = NoFile
    BY <1>5, <2>1 DEF Rotate, Step, LTypes
  <2> QED BY <2>1, <2>2 DEF Opened
<1>6. CASE ThreadStep \/ LogdGets \/ KernelLogs \/ UNCHANGED lvars
  BY <1>6 DEF ThreadStep, LockRun, Poll, TryProc, WriteSync, UnlockProc, thread_rest, LogdGets,
     KernelLogs, lvars, output, Opened
<1>7. CASE Stop
  BY <1>7 DEF Stop, Opened
<1> QED
  BY <1>1, <1>3, <1>4, <1>5, <1>6, <1>7 DEF LNext, MainStep

(* What files hold depends on files and total only.                         *)
LEMMA SameFiles ==
    ASSUME FilesHoldTail, UNCHANGED total, \A i \in 0..Rotated : Kept(i)' = Kept(i)
    PROVE  FilesHoldTail'
BY DEF FilesHoldTail, Interval

LEMMA Cut ==
    ASSUME NEW s \in Seq(Nat), NEW a \in 0..Len(s), NEW b \in 0..Len(s), a <= b
    PROVE  /\ SubSeq(s, a + 1, b) \in Seq(Nat) /\ Len(SubSeq(s, a + 1, b)) = b - a
           /\ \A i \in 1..(b - a) : SubSeq(s, a + 1, b)[i] = s[a + i]
<1>1. \A i \in (a + 1)..b : s[i] \in Nat
  OBVIOUS
<1>2. a + 1 \in Int /\ b \in Int /\ a \in Int
  OBVIOUS
<1> DEFINE u == SubSeq(s, a + 1, b)
<1>3. /\ u \in Seq(Nat)
      /\ Len(u) = (IF a + 1 <= b THEN b - (a + 1) + 1 ELSE 0)
      /\ \A i \in 1..(b - (a + 1) + 1) : u[i] = s[(a + 1) + i - 1]
  BY <1>1, <1>2, SubSeqProperties
<1> HIDE DEF u
<1>4. Len(u) = b - a
  BY <1>2, <1>3
<1>5. ASSUME NEW i \in 1..(b - a) PROVE u[i] = s[a + i]
  <2>1. i \in 1..(b - (a + 1) + 1) /\ (a + 1) + i - 1 = a + i
    BY <1>2
  <2> QED BY <2>1, <1>3
<1> QED BY <1>3, <1>4, <1>5 DEF u

(* A line more changes no part of what was there before.                    *)
LEMMA CutBefore ==
    ASSUME NEW s \in Seq(Nat), NEW m \in Nat, NEW a \in 0..Len(s), NEW b \in 0..Len(s), a <= b
    PROVE  SubSeq(s \o <<m>>, a + 1, b) = SubSeq(s, a + 1, b)
<1> DEFINE t == s \o <<m>>
           u == SubSeq(s, a + 1, b)
           v == SubSeq(t, a + 1, b)
<1>1. /\ t \in Seq(Nat) /\ Len(t) = Len(s) + 1 /\ \A i \in 1..Len(s) : t[i] = s[i]
  BY OneMore
<1>2. u \in Seq(Nat) /\ Len(u) = b - a /\ \A i \in 1..(b - a) : u[i] = s[a + i]
  BY Cut
<1> HIDE DEF t
<1>3. a \in 0..Len(t) /\ b \in 0..Len(t)
  BY <1>1
<1>4. v \in Seq(Nat) /\ Len(v) = b - a /\ \A i \in 1..(b - a) : v[i] = t[a + i]
  BY <1>1, <1>3, Cut
<1> HIDE DEF u, v
<1>5. ASSUME NEW i \in 1..(b - a) PROVE v[i] = u[i]
  <2>1. a + i \in 1..Len(s)
    OBVIOUS
  <2> QED BY <2>1, <1>1, <1>2, <1>4
<1>6. v = u
  BY <1>2, <1>4, <1>5, SeqEqual
<1> QED BY <1>6 DEF t, u, v

LEMMA CutAndOneMore ==
    ASSUME NEW s \in Seq(Nat), NEW m \in Nat, NEW a \in 0..Len(s)
    PROVE  SubSeq(s \o <<m>>, a + 1, Len(s) + 1) = SubSeq(s, a + 1, Len(s)) \o <<m>>
<1> DEFINE t == s \o <<m>>
           u == SubSeq(s, a + 1, Len(s))
           w == u \o <<m>>
           v == SubSeq(t, a + 1, Len(s) + 1)
           n == Len(s)
<1>1. /\ t \in Seq(Nat) /\ Len(t) = n + 1 /\ t[n + 1] = m /\ \A i \in 1..n : t[i] = s[i]
  BY OneMore
<1>2. n \in Nat /\ a \in Nat /\ a <= n /\ n \in 0..Len(s)
  OBVIOUS
<1>3. u \in Seq(Nat) /\ Len(u) = n - a /\ \A i \in 1..(n - a) : u[i] = s[a + i]
  BY <1>2, Cut
<1> HIDE DEF t, u
<1>4. /\ w \in Seq(Nat) /\ Len(w) = Len(u) + 1
      /\ w[Len(u) + 1] = m /\ \A i \in 1..Len(u) : w[i] = u[i]
  BY <1>3, OneMore
<1>5. a \in 0..Len(t) /\ n + 1 \in 0..Len(t) /\ a <= n + 1
  BY <1>1, <1>2
<1>6. v \in Seq(Nat) /\ Len(v) = n + 1 - a /\ \A i \in 1..(n + 1 - a) : v[i] = t[a + i]
  BY <1>1, <1>5, Cut
<1> HIDE DEF v, w, n
<1>7. Len(v) = Len(w) /\ Len(v) = n + 1 - a
  BY <1>2, <1>3, <1>4, <1>6
<1>8. ASSUME NEW i \in 1..Len(v) PROVE v[i] = w[i]
  <2>1. i \in Nat /\ i <= n + 1 - a /\ i >= 1
    BY <1>2, <1>7
  <2>2. CASE i = n - a + 1
    <3>1. a + i = n + 1 /\ i = Len(u) + 1 /\ i \in 1..(n + 1 - a)
      BY <2>1, <2>2, <1>2, <1>3
    <3> QED BY <3>1, <1>1, <1>4, <1>6
  <2>3. CASE i # n - a + 1
    <3>1. i \in 1..(n - a) /\ a + i \in 1..n /\ i \in 1..(n + 1 - a)
      BY <2>1, <2>3, <1>2
    <3> QED BY <3>1, <1>1, <1>3, <1>4, <1>6
  <2> QED BY <2>2, <2>3
<1>9. v = w
  BY <1>4, <1>6, <1>7, <1>8, SeqEqual
<1> QED BY <1>9 DEF t, u, v, w, n

LEMMA CutNone ==
    ASSUME NEW s \in Seq(Nat), NEW a \in 0..Len(s), NEW b \in 0..Len(s), a <= b
    PROVE  /\ SubSeq(s, a + 1, a) = <<>>
           /\ SubSeq(s, a + 1, b) = <<>> => a = b
<1>1. Len(SubSeq(s, a + 1, a)) = a - a /\ SubSeq(s, a + 1, a) \in Seq(Nat)
  BY Cut
<1>2. Len(SubSeq(s, a + 1, b)) = b - a
  BY Cut
<1>3. \A t \in Seq(Nat) : t = <<>> <=> Len(t) = 0
  BY EmptySeq
<1> QED BY <1>1, <1>2, <1>3

-----------------------------------------------------------------------------
LEMMA FilesInit == LInit => FilesHoldTail
<1> SUFFICES ASSUME LInit PROVE FilesHoldTail
  OBVIOUS
<1>1. total = <<>> /\ <<>> \in Seq(Nat) /\ Len(<<>>) = 0
  BY DEF LInit
<1>2. SubSeq(<<>>, 0 + 1, 0) = <<>>
  BY <1>1, CutNone
<1>3. \A i \in 0..Rotated : Kept(i) = <<>>
  BY DEF LInit, Kept
<1> DEFINE start == [i \in 0..Rotated |-> 0]
<1>4. start \in [0..Rotated -> 0..Len(total)]
  BY <1>1
<1>5. ASSUME NEW i \in 0..Rotated PROVE Interval(start, i)
  <2>1. start[i] = 0 /\ (i # 0 => start[i - 1] = 0)
    BY RotationBounds
  <2> DEFINE end == IF i = 0 THEN Len(total) ELSE start[i - 1]
  <2>2. end = 0
    BY <2>1, <1>1
  <2> HIDE DEF start
  <2>3. start[i] <= end
    BY <2>1, <2>2
  <2>4. Kept(i) = SubSeq(total, start[i] + 1, end)
    BY <2>1, <2>2, <1>1, <1>2, <1>3
  <2> QED BY <2>3, <2>4 DEF Interval
<1> QED BY <1>4, <1>5 DEF FilesHoldTail

(* A line goes to the current file and to the end of total.                 *)
LEMMA FilesLine ==
    ASSUME LTypes, Opened, FilesHoldTail, pc = "select", LTypes',
           NEW m \in Nat \cup {Sync}, processBuffer(m)
    PROVE  FilesHoldTail'
<1> USE RotationBounds
<1>0. 0 \in 0..Rotated /\ files[0] \in Seq(Nat) /\ total \in Seq(Nat) /\ Len(total) \in Nat
  <2>1. 0 \in 0..Rotated
    OBVIOUS
  <2>2. files[0] # NoFile
    BY DEF Opened
  <2>3. files[0] \in Seq(Nat)
    BY <2>1, <2>2 DEF LTypes
  <2>4. total \in Seq(Nat)
    BY DEF LTypes
  <2>5. Len(total) \in Nat
    BY <2>4
  <2> QED BY <2>1, <2>3, <2>4, <2>5
<1>1. CASE m = Sync
  <2>1. files[0] \o <<>> = files[0] /\ total \o <<>> = total
    BY <1>0
  <2>2. UNCHANGED <<files, total>>
    BY <1>1, <2>1 DEF processBuffer, LTypes
  <2> QED BY <2>2 DEF FilesHoldTail, Interval, Kept
<1>2. CASE m # Sync
  <2>1. m \in Nat /\ total' = total \o <<m>> /\ files' = [files EXCEPT ![0] = files[0] \o <<m>>]
    BY <1>2 DEF processBuffer
  <2>2. PICK start \in [0..Rotated -> 0..Len(total)] : \A i \in 0..Rotated : Interval(start, i)
    BY DEF FilesHoldTail
  <2>3. Len(total') = Len(total) + 1
    BY <2>1, <1>0, OneMore
  <2>4. start \in [0..Rotated -> 0..Len(total')]
    BY <2>3, <1>0
  <2>5. Interval(start, 0)'
    <3>1. start[0] \in 0..Len(total) /\ start[0] <= Len(total)
          /\ files[0] = SubSeq(total, start[0] + 1, Len(total))
      BY <2>2, <1>0, NoFileApart DEF Interval, Kept
    <3>2. files'[0] = files[0] \o <<m>> /\ files'[0] \in Seq(Nat)
      BY <2>1, <1>0, OneMore DEF LTypes
    <3>3. files'[0] = SubSeq(total', start[0] + 1, Len(total) + 1)
      BY <3>1, <3>2, <2>1, <1>0, CutAndOneMore
    <3>4. Kept(0)' = files'[0]
      BY <3>2, NoFileApart DEF Kept
    <3>5. start[0] <= Len(total) + 1
      BY <3>1, <1>0
    <3> QED BY <3>3, <3>4, <3>5, <2>3 DEF Interval
  <2>6. ASSUME NEW i \in 1..Rotated PROVE Interval(start, i)'
    <3>1. i \in 0..Rotated /\ i - 1 \in 0..Rotated /\ i # 0
      OBVIOUS
    <3>2. /\ start[i] \in 0..Len(total) /\ start[i - 1] \in 0..Len(total)
          /\ start[i] <= start[i - 1] /\ Kept(i) = SubSeq(total, start[i] + 1, start[i - 1])
      BY <3>1, <2>2 DEF Interval
    <3>3. Kept(i)' = Kept(i)
      BY <2>1, <3>1 DEF Kept, LTypes
    <3>4. SubSeq(total', start[i] + 1, start[i - 1]) = SubSeq(total, start[i] + 1, start[i - 1])
      BY <3>2, <2>1, <1>0, CutBefore
    <3> QED BY <3>1, <3>2, <3>3, <3>4 DEF Interval
  <2>7. \A i \in 0..Rotated : Interval(start, i)'
    BY <2>5, <2>6
  <2> QED BY <2>4, <2>7 DEF FilesHoldTail
<1> QED BY <1>1, <1>2

(* A file moved: its interval goes with it, an empty one stays behind.  The *)
(* one it replaces was the last, or moved before.                           *)
LEMMA FilesMove ==
    ASSUME LTypes, Opened, FilesHoldTail, Rotate, files[turn - 1] # NoFile
    PROVE  FilesHoldTail'
<1>0. PICK k \in 1..Rotated : turn = k
  BY RotationBounds DEF Rotate, LTypes
<1>1. /\ k \in 1..Rotated /\ k - 1 \in 0..Rotated /\ k \in 0..Rotated /\ pc = "rotate"
      /\ total \in Seq(Nat) /\ Len(total) \in Nat /\ Rotated \in Nat /\ k - 1 # k
  BY RotationBounds DEF Rotate, LTypes
<1>2. files' = [files EXCEPT ![k] = files[k - 1], ![k - 1] = NoFile] /\ total' = total
  BY <1>0 DEF Rotate, Step
<1>3. /\ Kept(k)' = Kept(k - 1) /\ Kept(k - 1)' = <<>>
      /\ \A i \in 0..Rotated \ {k, k - 1} : Kept(i)' = Kept(i)
  <2>1. /\ files'[k] = files[k - 1] /\ files'[k - 1] = NoFile
        /\ \A i \in 0..Rotated \ {k, k - 1} : files'[i] = files[i]
    BY <1>1, <1>2 DEF LTypes
  <2> QED BY <2>1 DEF Kept
<1>4. k < Rotated => Kept(k) = <<>>
  BY <1>0, <1>1 DEF Opened, Kept
<1>5. PICK start \in [0..Rotated -> 0..Len(total)] : \A i \in 0..Rotated : Interval(start, i)
  BY DEF FilesHoldTail
<1>6. PICK end \in 0..Len(total) : end = (IF k - 1 = 0 THEN Len(total) ELSE start[k - 2])
  <2>1. CASE k - 1 = 0
    BY <2>1, <1>1
  <2>2. CASE k - 1 # 0
    <3>1. k - 2 \in 0..Rotated
      BY <1>1, <2>2
    <3> QED BY <3>1, <2>2
  <2> QED BY <2>1, <2>2
<1>7. start[k - 1] <= end /\ Kept(k - 1) = SubSeq(total, start[k - 1] + 1, end)
  <2>1. (k - 1) - 1 = k - 2
    BY <1>1
  <2>2. Interval(start, k - 1)
    BY <1>1, <1>5
  <2> QED BY <2>1, <2>2, <1>6 DEF Interval
<1>8. k < Rotated => start[k] = start[k - 1]
  <2> SUFFICES ASSUME k < Rotated PROVE start[k] = start[k - 1]
    OBVIOUS
  <2>0. Interval(start, k) /\ k # 0
    BY <1>1, <1>5
  <2>1. start[k] <= start[k - 1] /\ Kept(k) = SubSeq(total, start[k] + 1, start[k - 1])
    BY <2>0 DEF Interval
  <2>2. start[k] \in 0..Len(total) /\ start[k - 1] \in 0..Len(total)
    BY <1>1
  <2>3. SubSeq(total, start[k] + 1, start[k - 1]) = <<>>
    BY <2>1, <1>4
  <2> QED BY <2>1, <2>2, <2>3, <1>1, CutNone
<1>9. PICK next \in [0..Rotated -> 0..Len(total)] :
        /\ next[k] = start[k - 1] /\ next[k - 1] = end
        /\ \A i \in 0..Rotated \ {k, k - 1} : next[i] = start[i]
  <2> DEFINE n == [start EXCEPT ![k] = start[k - 1], ![k - 1] = end]
  <2>1. start[k - 1] \in 0..Len(total) /\ DOMAIN start = 0..Rotated
    BY <1>1
  <2>2. n \in [0..Rotated -> 0..Len(total)]
    BY <2>1, <1>1, <1>6
  <2>3. /\ n[k] = start[k - 1] /\ n[k - 1] = end
        /\ \A i \in 0..Rotated \ {k, k - 1} : n[i] = start[i]
    BY <2>1, <1>1, <1>6
  <2> HIDE DEF n
  <2> QED BY <2>2, <2>3
<1>10. ASSUME NEW i \in 0..Rotated PROVE Interval(next, i)'
  <2> DEFINE till == IF i = 0 THEN Len(total) ELSE next[i - 1]
  <2>1. SUFFICES next[i] <= till /\ Kept(i)' = SubSeq(total, next[i] + 1, till)
    BY <1>2 DEF Interval
  <2>2. CASE i = k
    <3>1. till = next[k - 1]
      BY <2>2, <1>1
    <3> QED BY <3>1, <2>2, <1>3, <1>7, <1>9
  <2>3. CASE i = k - 1
    <3>1. till = end
      <4>1. CASE i = 0
        BY <4>1, <2>3, <1>6
      <4>2. CASE i # 0
        <5>1. i - 1 = k - 2 /\ i - 1 \in 0..Rotated \ {k, k - 1}
          BY <4>2, <2>3, <1>1
        <5>2. next[i - 1] = start[k - 2]
          BY <5>1, <1>9
        <5> QED BY <4>2, <2>3, <5>2, <1>6
      <4> QED BY <4>1, <4>2
    <3>2. SubSeq(total, end + 1, end) = <<>> /\ end <= end
      <4>1. end \in 0..Len(total) /\ end <= end /\ total \in Seq(Nat)
        BY <1>1, <1>6
      <4> QED BY <4>1, CutNone
    <3>3. next[i] = end /\ Kept(i)' = <<>>
      BY <2>3, <1>3, <1>9
    <3> HIDE DEF till
    <3> QED BY <3>1, <3>2, <3>3
  <2>4. CASE i \notin {k, k - 1}
    <3>1. Interval(start, i) /\ next[i] = start[i] /\ Kept(i)' = Kept(i)
      BY <2>4, <1>5, <1>3, <1>9
    <3>2. i # 0 => next[i - 1] = start[i - 1]
      <4> SUFFICES ASSUME i # 0 PROVE next[i - 1] = start[i - 1]
        OBVIOUS
      <4>1. CASE i - 1 = k
        <5>1. k < Rotated
          BY <4>1, <1>1
        <5> QED BY <4>1, <5>1, <1>8, <1>9
      <4>2. CASE i - 1 # k
        <5>1. i - 1 \in 0..Rotated \ {k, k - 1}
          BY <4>2, <2>4, <1>1
        <5> QED BY <5>1, <1>9
      <4> QED BY <4>1, <4>2
    <3> QED BY <3>1, <3>2 DEF Interval
  <2> QED BY <2>2, <2>3, <2>4
<1> QED
  <2>1. next \in [0..Rotated -> 0..Len(total')]
    BY <1>2, <1>9
  <2>2. \A i \in 0..Rotated : Interval(next, i)'
    BY <1>10
  <2> QED BY <2>1, <2>2 DEF FilesHoldTail

LEMMA FilesStep ==
    LTypes /\ Opened /\ FilesHoldTail /\ [LNext]_lvars /\ LTypes' => FilesHoldTail'
<1> SUFFICES ASSUME LTypes, Opened, FilesHoldTail, [LNext]_lvars, LTypes' PROVE FilesHoldTail'
  OBVIOUS
<1>1. ASSUME UNCHANGED <<files, total>> PROVE FilesHoldTail'
  BY <1>1 DEF FilesHoldTail, Interval, Kept
<1>2. CASE Setup \/ Reopen
  <2>1. files' = files \/ (files' = [files EXCEPT ![0] = <<>>] /\ files[0] = NoFile)
    <3>1. CASE files[0] = NoFile
      BY <1>2, <3>1 DEF Setup, Reopen
    <3>2. CASE files[0] # NoFile
      BY <1>2, <3>2 DEF Setup, Reopen
    <3> QED BY <3>1, <3>2
  <2>2. \A i \in 0..Rotated : files'[i] = files[i] \/ (files'[i] = <<>> /\ files[i] = NoFile)
    BY <2>1 DEF LTypes
  <2>3. \A i \in 0..Rotated : Kept(i)' = Kept(i)
    <3>1. <<>> # NoFile
      <4>1. <<>> \in Seq(Nat)
        OBVIOUS
      <4> QED BY <4>1, NoFileApart
    <3> QED BY <3>1, <2>2 DEF Kept
  <2> QED BY <1>2, <2>3, SameFiles DEF Setup, Reopen
<1>3. CASE Select
  <2>1. pc = "select"
    BY <1>3 DEF Select
  <2>2. UNCHANGED output \/ (\E m \in Nat \cup {Sync} : processBuffer(m))
    BY <1>3 DEF Select, LTypes
  <2> QED BY <1>1, <2>1, <2>2, FilesLine DEF output
<1>4. CASE Rotate
  <2>1. CASE files[turn - 1] = NoFile
    BY <1>1, <1>4, <2>1 DEF Rotate, Step
  <2> QED BY <1>4, <2>1, FilesMove
<1>5. CASE Clear \/ OpenKernel \/ Turn \/ Resume \/ Read \/ Ack \/ ReadKernel \/ Consumed
           \/ ThreadStep
  <2>1. UNCHANGED output
    BY <1>5 DEF Clear, OpenKernel, Turn, Resume, Read, Ack, ReadKernel, Consumed, ThreadStep,
       LockRun, Poll, TryProc, WriteSync, UnlockProc, thread_rest
  <2> QED BY <1>1, <2>1 DEF output
<1>6. CASE LogdGets \/ KernelLogs \/ Stop \/ UNCHANGED lvars
  BY <1>1, <1>6 DEF LogdGets, KernelLogs, Stop, lvars, output
<1> QED
  BY <1>2, <1>3, <1>4, <1>5, <1>6 DEF LNext, MainStep

-----------------------------------------------------------------------------
Written == {out[i] : i \in DOMAIN out}

LEMMA Positions ==
    ASSUME LTypes
    PROVE  /\ pos \in Nat /\ kpos \in Nat /\ Len(logd) \in Nat /\ Len(kmsg) \in Nat
           /\ DOMAIN logd = 1..Len(logd) /\ DOMAIN kmsg = 1..Len(kmsg)
           /\ 1..pos \subseteq DOMAIN logd /\ 1..kpos \subseteq DOMAIN kmsg
<1>1. Len(logd) \in Nat /\ DOMAIN logd = 1..Len(logd) /\ pos \in 0..Len(logd)
  BY DEF LTypes
<1>2. Len(kmsg) \in Nat /\ DOMAIN kmsg = 1..Len(kmsg) /\ kpos \in 0..Len(kmsg)
  BY DEF LTypes
<1> QED BY <1>1, <1>2

(* What was read of the two sources has nothing in common, and a message in *)
(* hand is the last that was read of its own.                               *)
LEMMA ReadApart ==
    ASSUME LTypes, InOrder, InHand
    PROVE  /\ KernelRead \subseteq 1..time /\ LogdRead \subseteq 1..time
           /\ KernelRead \cap LogdRead = {}
           /\ klog_msg # None => /\ klog_msg \in KernelRead
                                 /\ \A k \in KernelRead \ {klog_msg} : k < klog_msg
           /\ log_msg \notin {None, Sync} => /\ log_msg \in LogdRead
                                             /\ \A l \in LogdRead \ {log_msg} : l < log_msg
<1>1. /\ DOMAIN kmsg = 1..Len(kmsg) /\ DOMAIN logd = 1..Len(logd)
      /\ 1..kpos \subseteq 1..Len(kmsg) /\ 1..pos \subseteq 1..Len(logd)
      /\ kpos \in Nat /\ pos \in Nat
  BY Positions
<1>2. KernelRead \subseteq 1..time
  BY <1>1 DEF InOrder, KernelRead
<1>3. LogdRead \subseteq 1..time
  BY <1>1 DEF InOrder, LogdRead
<1>4. KernelRead \cap LogdRead = {}
  BY <1>1 DEF InOrder, KernelRead, LogdRead
<1>5. ASSUME klog_msg # None
      PROVE  klog_msg \in KernelRead /\ \A k \in KernelRead \ {klog_msg} : k < klog_msg
  <2>1. kpos \in 1..kpos /\ klog_msg = kmsg[kpos]
    BY <1>1, <1>5 DEF InHand
  <2>2. ASSUME NEW n \in 1..kpos, kmsg[n] # klog_msg PROVE kmsg[n] < klog_msg
    <3>1. n < kpos /\ n \in DOMAIN kmsg /\ kpos \in DOMAIN kmsg
      BY <1>1, <2>1, <2>2
    <3> QED BY <2>1, <3>1 DEF InOrder
  <2> QED BY <2>1, <2>2 DEF KernelRead
<1>6. ASSUME log_msg \notin {None, Sync}
      PROVE  log_msg \in LogdRead /\ \A l \in LogdRead \ {log_msg} : l < log_msg
  <2>1. pos \in 1..pos /\ log_msg = logd[pos] /\ log_msg # Sync
    BY <1>1, <1>6 DEF InHand
  <2>2. ASSUME NEW n \in 1..pos, logd[n] # log_msg, logd[n] # Sync PROVE logd[n] < log_msg
    <3>1. n < pos /\ n \in DOMAIN logd /\ pos \in DOMAIN logd
      BY <1>1, <2>1, <2>2
    <3>2. Sync \notin {logd[n], logd[pos]}
      BY <2>1, <2>2
    <3> QED BY <2>1, <3>1, <3>2 DEF InOrder
  <2> QED BY <2>1, <2>2 DEF LogdRead
<1> QED BY <1>2, <1>3, <1>4, <1>5, <1>6

LEMMA MergedInit == LInit => MergedInOrder
<1> SUFFICES ASSUME LInit PROVE MergedInOrder
  OBVIOUS
<1>1. out = <<>> /\ pos = 0 /\ kpos = 0
  BY DEF LInit
<1>2. DOMAIN out = {} /\ KernelRead = {} /\ LogdRead = {}
  BY <1>1 DEF KernelRead, LogdRead
<1> QED BY <1>2 DEF MergedInOrder

(* A step that neither reads nor writes a message.                          *)
LEMMA MergedFrame ==
    ASSUME MergedInOrder, UNCHANGED <<pos, kpos, log_msg, klog_msg, out>>,
           \A n \in 1..kpos : kmsg'[n] = kmsg[n], \A n \in 1..pos : logd'[n] = logd[n]
    PROVE  MergedInOrder'
<1>1. KernelRead' = KernelRead /\ LogdRead' = LogdRead
  BY DEF KernelRead, LogdRead
<1> QED BY <1>1 DEF MergedInOrder

LEMMA MergedRead ==
    ASSUME LTypes, InOrder, InHand, MergedInOrder, Read
    PROVE  MergedInOrder'
<1>1. log_msg = None /\ UNCHANGED <<kmsg, logd, kpos, klog_msg, out>>
  BY DEF Read, InHand, main_rest, sources, output
<1>2. CASE UNCHANGED <<pos, log_msg>>
  BY <1>1, <1>2, MergedFrame
<1>3. CASE pos < Len(logd) /\ pos' = pos + 1
           /\ log_msg' = (IF unblock_is_sync(logd[pos']) THEN None ELSE logd[pos'])
  <2>1. PICK m : m = logd[pos + 1]
    OBVIOUS
  <2>2. /\ pos \in Nat /\ pos + 1 \in DOMAIN logd /\ 1..(pos + 1) = 1..pos \cup {pos + 1}
        /\ 1..pos \subseteq DOMAIN logd /\ 1..kpos \subseteq DOMAIN kmsg
    BY <1>3, Positions
  <2>3. KernelRead' = KernelRead /\ LogdRead' = LogdRead \cup ({m} \ {Sync})
    <3>1. KernelRead' = KernelRead
      BY <1>1 DEF KernelRead
    <3>2. {logd[n] : n \in 1..(pos + 1)} = {logd[n] : n \in 1..pos} \cup {m}
      BY <2>1, <2>2
    <3>3. LogdRead' = {logd[n] : n \in 1..(pos + 1)} \ {Sync}
      BY <1>1, <1>3 DEF LogdRead
    <3> QED BY <3>1, <3>2, <3>3 DEF LogdRead
  <2>4. m # Sync => m \notin KernelRead \cup LogdRead
    <3> SUFFICES ASSUME m # Sync PROVE m \notin KernelRead \cup LogdRead
      OBVIOUS
    <3>1. m \notin KernelRead
      BY <2>1, <2>2 DEF InOrder, KernelRead
    <3>2. ASSUME NEW n \in 1..pos, logd[n] = m PROVE FALSE
      <4>1. n < pos + 1 /\ n \in DOMAIN logd /\ Sync \notin {logd[n], logd[pos + 1]}
        BY <2>1, <2>2, <3>2
      <4>2. logd[n] < logd[pos + 1]
        BY <4>1, <2>2 DEF InOrder
      <4>3. m < m /\ m \in 1..time
        BY <4>2, <3>2, <2>1, <2>2 DEF InOrder
      <4> QED BY <4>3
    <3> QED BY <3>1, <3>2 DEF LogdRead
  <2>5. None \notin KernelRead \cup LogdRead /\ Sync \notin KernelRead \cup LogdRead
    BY ReadApart DEF None, Sync
  <2>6. log_msg' = m \/ (log_msg' = None /\ m = Sync)
    BY <1>3, <2>1 DEF unblock_is_sync
  <2>7. (KernelRead \cup LogdRead)' \ {log_msg', klog_msg'}
          = (KernelRead \cup LogdRead) \ {log_msg, klog_msg}
    BY <1>1, <2>3, <2>4, <2>5, <2>6
  <2> QED BY <1>1, <2>3, <2>7 DEF MergedInOrder
<1> QED BY <1>2, <1>3 DEF Read

LEMMA MergedReadKernel ==
    ASSUME LTypes, InOrder, InHand, MergedInOrder, ReadKernel
    PROVE  MergedInOrder'
<1>1. UNCHANGED <<kmsg, logd, pos, log_msg, out>>
  BY DEF ReadKernel, main_rest, sources, output
<1>2. CASE UNCHANGED <<kpos, klog_msg>>
  BY <1>1, <1>2, MergedFrame
<1>3. CASE kpos < Len(kmsg) /\ kpos' = kpos + 1 /\ klog_msg' = kmsg[kpos'] /\ klog_msg = None
  <2>1. PICK m : m = kmsg[kpos + 1]
    OBVIOUS
  <2>2. /\ kpos \in Nat /\ kpos + 1 \in DOMAIN kmsg /\ 1..(kpos + 1) = 1..kpos \cup {kpos + 1}
        /\ 1..pos \subseteq DOMAIN logd /\ 1..kpos \subseteq DOMAIN kmsg
    BY <1>3, Positions
  <2>3. KernelRead' = KernelRead \cup {m} /\ LogdRead' = LogdRead
    <3>1. LogdRead' = LogdRead
      BY <1>1 DEF LogdRead
    <3>2. KernelRead' = {kmsg[n] : n \in 1..(kpos + 1)}
      BY <1>1, <1>3 DEF KernelRead
    <3> QED BY <3>1, <3>2, <2>1, <2>2 DEF KernelRead
  <2>4. m \notin KernelRead \cup LogdRead
    <3>1. m \notin LogdRead
      BY <2>1, <2>2 DEF InOrder, LogdRead
    <3>2. ASSUME NEW n \in 1..kpos, kmsg[n] = m PROVE FALSE
      <4>1. n < kpos + 1 /\ n \in DOMAIN kmsg
        BY <2>2, <3>2
      <4>2. kmsg[n] < kmsg[kpos + 1]
        BY <4>1, <2>2 DEF InOrder
      <4>3. m < m /\ m \in 1..time
        BY <4>2, <3>2, <2>1, <2>2 DEF InOrder
      <4> QED BY <4>3
    <3> QED BY <3>1, <3>2 DEF KernelRead
  <2>5. None \notin KernelRead \cup LogdRead
    BY ReadApart DEF None
  <2>6. klog_msg' = m
    BY <1>3, <2>1
  <2>7. (KernelRead \cup LogdRead)' \ {log_msg', klog_msg'}
          = (KernelRead \cup LogdRead) \ {log_msg, klog_msg}
    BY <1>1, <1>3, <2>3, <2>4, <2>5, <2>6
  <2>8. \A i \in DOMAIN out : out[i] \in KernelRead' <=> out[i] \in KernelRead
    <3>1. \A i \in DOMAIN out : out[i] \in KernelRead \cup LogdRead
      BY DEF MergedInOrder
    <3> QED BY <3>1, <2>3, <2>4
  <2> QED BY <1>1, <2>7, <2>8 DEF MergedInOrder
<1> QED BY <1>2, <1>3 DEF ReadKernel

(* A line written, of either source.                                        *)
LEMMA MergedLine ==
    ASSUME LTypes, InOrder, InHand, MergedInOrder, UNCHANGED <<pos, kpos, logd, kmsg>>,
           NEW m \in Nat, out' = out \o <<m>>, m # None,
           \/ m = log_msg /\ log_msg' = None /\ klog_msg' = klog_msg
           \/ m = klog_msg /\ klog_msg' = None /\ log_msg' = log_msg
    PROVE  MergedInOrder'
<1>1. KernelRead' = KernelRead /\ LogdRead' = LogdRead
  BY DEF KernelRead, LogdRead
<1>2. /\ DOMAIN out = 1..Len(out) /\ DOMAIN out' = 1..(Len(out) + 1) /\ Len(out) \in Nat
      /\ \A i \in 1..Len(out) : out'[i] = out[i]
      /\ out'[Len(out) + 1] = m
  BY OneMore DEF LTypes
<1>3. {out'[i] : i \in DOMAIN out'} = {out[i] : i \in DOMAIN out} \cup {m}
  <2>1. DOMAIN out' = DOMAIN out \cup {Len(out) + 1}
    BY <1>2
  <2> QED BY <2>1, <1>2
<1>4. m # Sync
  BY DEF Sync
<1>5. /\ None \notin KernelRead \cup LogdRead
      /\ KernelRead \cap LogdRead = {}
  BY ReadApart DEF None
<1>6. /\ m = log_msg => m \in LogdRead /\ \A l \in LogdRead \ {m} : l < m
      /\ m = klog_msg => m \in KernelRead /\ \A k \in KernelRead \ {m} : k < m
      /\ klog_msg # None => klog_msg \in KernelRead
      /\ log_msg \notin {None, Sync} => log_msg \in LogdRead
  BY <1>4, ReadApart
<1>7. Written = (KernelRead \cup LogdRead) \ {log_msg, klog_msg}
  BY DEF MergedInOrder, Written
<1>8. m \notin Written /\ Written \subseteq KernelRead \cup LogdRead
  BY <1>7
<1>9. (KernelRead \cup LogdRead) \ {log_msg', klog_msg'} = Written \cup {m}
  <2>1. CASE m = log_msg /\ log_msg' = None /\ klog_msg' = klog_msg
    <3>1. m # klog_msg /\ m \in LogdRead
      BY <2>1, <1>5, <1>6
    <3> QED BY <3>1, <2>1, <1>5, <1>7
  <2>2. CASE m = klog_msg /\ klog_msg' = None /\ log_msg' = log_msg
    <3>1. m # log_msg /\ m \in KernelRead
      BY <2>2, <1>4, <1>5, <1>6
    <3> QED BY <3>1, <2>2, <1>5, <1>7
  <2> QED BY <2>1, <2>2
<1>10. ASSUME NEW i \in DOMAIN out', NEW j \in DOMAIN out', i < j,
              out'[i] \in KernelRead <=> out'[j] \in KernelRead
       PROVE  out'[i] < out'[j]
  <2>1. i \in 1..Len(out) /\ out'[i] = out[i] /\ out[i] \in Written
    BY <1>2, <1>10 DEF Written
  <2>2. CASE j = Len(out) + 1
    <3>1. out'[j] = m /\ out[i] # m
      BY <2>1, <2>2, <1>2, <1>8
    <3>2. m \in KernelRead \/ m \in LogdRead
      BY <1>6
    <3>3. CASE m \in KernelRead
      <4>1. m = klog_msg /\ out[i] \in KernelRead
        BY <3>1, <3>3, <2>1, <1>5, <1>6, <1>10
      <4> QED BY <4>1, <3>1, <2>1, <1>6
    <3>4. CASE m \in LogdRead
      <4>1. m = log_msg /\ out[i] \in LogdRead
        BY <3>1, <3>4, <2>1, <1>5, <1>6, <1>8, <1>10
      <4> QED BY <4>1, <3>1, <2>1, <1>6
    <3> QED BY <3>2, <3>3, <3>4
  <2>3. CASE j # Len(out) + 1
    <3>1. j \in 1..Len(out) /\ out'[j] = out[j]
      BY <2>3, <1>2
    <3> QED BY <3>1, <2>1, <1>2, <1>10 DEF MergedInOrder
  <2> QED BY <2>2, <2>3
<1> QED BY <1>1, <1>3, <1>9, <1>10 DEF MergedInOrder, Written

LEMMA MergedSelect ==
    ASSUME LTypes, InOrder, InHand, MergedInOrder, Select
    PROVE  MergedInOrder'
<1>1. UNCHANGED <<pos, kpos, logd, kmsg>>
  BY DEF Select, main_rest, sources
<1>2. CASE log_msg = None /\ klog_msg = None
  BY <1>1, <1>2, MergedFrame DEF Select, output
<1>3. CASE processBuffer(log_msg) /\ log_msg' = None /\ klog_msg' = klog_msg /\ log_msg # None
  <2>1. CASE log_msg = Sync
    <3>1. out' = out
      BY <1>3, <2>1 DEF processBuffer, LTypes
    <3>2. KernelRead' = KernelRead /\ LogdRead' = LogdRead
      BY <1>1 DEF KernelRead, LogdRead
    <3>3. None \notin KernelRead \cup LogdRead /\ Sync \notin KernelRead \cup LogdRead
      BY ReadApart DEF None, Sync
    <3>4. (KernelRead \cup LogdRead) \ {log_msg', klog_msg'}
            = (KernelRead \cup LogdRead) \ {log_msg, klog_msg}
      BY <1>3, <2>1, <3>3
    <3> QED BY <3>1, <3>2, <3>4 DEF MergedInOrder
  <2>2. CASE log_msg # Sync
    <3>1. out' = out \o <<log_msg>> /\ log_msg \in Nat
      BY <1>3, <2>2 DEF processBuffer, LTypes
    <3> QED BY <1>1, <1>3, <3>1, MergedLine
  <2> QED BY <2>1, <2>2
<1>4. CASE processBuffer(klog_msg) /\ klog_msg' = None /\ log_msg' = log_msg /\ klog_msg # None
  <2>1. klog_msg \in Nat /\ klog_msg # Sync
    BY DEF LTypes, Sync
  <2>2. out' = out \o <<klog_msg>>
    BY <1>4, <2>1 DEF processBuffer
  <2> QED BY <1>1, <1>4, <2>1, <2>2, MergedLine
<1> QED
  BY <1>2, <1>3, <1>4 DEF Select, Selected, Taken

LEMMA MergedStep ==
    LTypes /\ InOrder /\ InHand /\ MergedInOrder /\ [LNext]_lvars => MergedInOrder'
<1> SUFFICES ASSUME LTypes, InOrder, InHand, MergedInOrder, [LNext]_lvars PROVE MergedInOrder'
  OBVIOUS
<1>1. ASSUME UNCHANGED <<pos, kpos, log_msg, klog_msg, out>>,
             kmsg' = kmsg \/ (\E m \in Nat : kmsg' = Append(kmsg, m)),
             logd' = logd \/ (\E m \in Nat \cup {Sync} : logd' = Append(logd, m))
      PROVE  MergedInOrder'
  <2>1. /\ 1..kpos \subseteq 1..Len(kmsg) /\ 1..pos \subseteq 1..Len(logd)
        /\ kmsg \in Seq(Nat) /\ logd \in Seq(Nat \cup {Sync})
    BY DEF LTypes
  <2>2. \A m \in Nat : \A n \in 1..Len(kmsg) : Append(kmsg, m)[n] = kmsg[n]
    BY <2>1
  <2>3. \A m \in Nat \cup {Sync} : \A n \in 1..Len(logd) : Append(logd, m)[n] = logd[n]
    BY <2>1
  <2>4. /\ \A n \in 1..kpos : kmsg'[n] = kmsg[n]
        /\ \A n \in 1..pos : logd'[n] = logd[n]
    BY <1>1, <2>1, <2>2, <2>3
  <2> QED BY <1>1, <2>4, MergedFrame
<1>2. CASE Setup \/ OpenKernel \/ Turn \/ Resume \/ Ack \/ Consumed \/ Rotate \/ Reopen
           \/ UNCHANGED lvars
  <2>1. UNCHANGED <<pos, kpos, log_msg, klog_msg, out, kmsg, logd>>
    BY <1>2 DEF Setup, OpenKernel, Turn, Resume, Ack, Consumed, Rotate, Reopen, main_rest,
       sources, output, lvars
  <2> QED BY <2>1, <1>1
<1>3. CASE Clear
  <2>1. UNCHANGED <<pos, kpos, log_msg, klog_msg, out, kmsg>> /\ pos = 0
    BY <1>3 DEF Clear, output, InHand
  <2>2. \A n \in 1..pos : logd'[n] = logd[n]
    BY <2>1
  <2> QED BY <2>1, <2>2, MergedFrame
<1>4. CASE ThreadStep
  <2>1. UNCHANGED <<pos, kpos, log_msg, klog_msg, out, kmsg>>
    BY <1>4 DEF ThreadStep, LockRun, Poll, TryProc, WriteSync, UnlockProc, thread_rest, output
  <2>2. logd' = logd \/ logd' = Append(logd, Sync)
    BY <1>4 DEF ThreadStep, LockRun, Poll, TryProc, WriteSync, UnlockProc
  <2> QED BY <2>1, <2>2, <1>1
<1>5. CASE LogdGets
  <2>1. UNCHANGED <<pos, kpos, log_msg, klog_msg, out, kmsg>> /\ logd' = Append(logd, time')
        /\ time' \in Nat
    BY <1>5 DEF LogdGets, output, LTypes
  <2> QED BY <2>1, <1>1
<1>6. CASE KernelLogs
  <2>1. UNCHANGED <<pos, kpos, log_msg, klog_msg, out, logd>> /\ kmsg' = Append(kmsg, time')
        /\ time' \in Nat
    BY <1>6 DEF KernelLogs, output, LTypes
  <2> QED BY <2>1, <1>1
<1>7. CASE Stop
  <2>1. out' = <<>> /\ pos' = 0 /\ kpos' = 0
    BY <1>7 DEF Stop
  <2>2. DOMAIN out' = {} /\ KernelRead' = {} /\ LogdRead' = {}
    BY <2>1 DEF KernelRead, LogdRead
  <2> QED BY <2>2 DEF MergedInOrder
<1> QED
  BY <1>2, <1>3, <1>4, <1>5, <1>6, <1>7, MergedRead, MergedReadKernel, MergedSelect
  DEF LNext, MainStep

-----------------------------------------------------------------------------
LEMMA LInvInit == LInit => LInv
<1> SUFFICES ASSUME LInit PROVE LInv
  OBVIOUS
<1>1. InOrder
  <2>1. /\ kmsg = <<>> /\ logd \in {<<>>, <<Sync, 1>>}
        /\ time = (IF logd = <<>> THEN 0 ELSE 1)
    BY DEF LInit
  <2>2. CASE logd = <<>>
    BY <2>1, <2>2 DEF InOrder
  <2>3. CASE logd = <<Sync, 1>>
    <3>1. <<Sync, 1>> # <<>> /\ DOMAIN <<Sync, 1>> = {1, 2} /\ DOMAIN <<>> = {}
      OBVIOUS
    <3> QED BY <2>1, <2>3, <3>1 DEF InOrder, Sync
  <2> QED BY <2>1, <2>2, <2>3
<1>2. InHand /\ Opened
  BY DEF LInit, InHand, Opened
<1> QED BY <1>1, <1>2, LTypesInit, FilesInit, MergedInit DEF LInv

LEMMA LInvStep == LInv /\ [LNext]_lvars => LInv'
BY LTypesStep, InOrderStep, InHandStep, OpenedStep, FilesStep, MergedStep DEF LInv

LEMMA LogcatCorrect == LSpec => []LInv
BY LInvInit, LInvStep, PTL DEF LSpec

(* For any number of rotated files and of kills, wherever in a rotation: the *)
(* files hold an unbroken tail of what was written (rotateLogs).             *)
THEOREM LogFilesKept == LSpec => []FilesHoldTail
<1>1. LInv => FilesHoldTail
  BY DEF LInv
<1> QED BY <1>1, LogcatCorrect, PTL

(* Whatever the order in which the two sources and the unblocker's sync      *)
(* messages come: each log is written complete and in order, but for the     *)
(* message in hand (main of logcat.cpp).                                     *)
THEOREM LogsMerged == LSpec => []MergedInOrder
<1>1. LInv => MergedInOrder
  BY DEF LInv
<1> QED BY <1>1, LogcatCorrect, PTL
=============================================================================
