---------------------------- MODULE NotifyProofs ----------------------------
(***************************************************************************)
(* No event is forgotten by the threads that notify CrashReport, for any   *)
(* number of threads and any MIN_WAIT longer than a command.               *)
(***************************************************************************)
EXTENDS Notify, FiniteSetTheorems, TLAPS

LEMMA ActiveFinite == IsFiniteSet(Active) /\ Cardinality(Active) \in Nat
<1>1. Active \in SUBSET Threads
  BY DEF Active
<1>2. IsFiniteSet(Active)
  BY <1>1, ThreadsAssumption, FS_Subset
<1> QED BY <1>2, FS_CardinalityType

LEMMA ActiveFinite2 == IsFiniteSet(Active')
<1>1. Active' \in SUBSET Threads
  BY DEF Active
<1> QED BY <1>1, ThreadsAssumption, FS_Subset

(* Without a sleeper one command of each kind may run, two in all.          *)
LEMMA TwoCommands ==
    ASSUME CountExact, OneEach, At("sleep") = {}
    PROVE  thread_count <= 2
<1>1. ASSUME NEW f \in Threads, NEW l \in Threads, Active \subseteq {f, l}
      PROVE  Cardinality(Active) <= 2
  <2>1. IsFiniteSet({f}) /\ Cardinality({f}) = 1
    BY FS_Singleton
  <2>2. {f, l} = {f} \cup {l}
    OBVIOUS
  <2>3. IsFiniteSet({f, l}) /\ Cardinality({f, l}) <= 2
    BY <2>1, <2>2, FS_AddElement
  <2>4. Cardinality({f, l}) \in Nat
    BY <2>3, FS_CardinalityType
  <2>5. Cardinality(Active) <= Cardinality({f, l})
    BY <1>1, <2>3, FS_Subset
  <2> QED BY <2>3, <2>4, <2>5, ActiveFinite
<1>2. CASE Active = {}
  BY <1>2, FS_EmptySet DEF CountExact
<1>3. CASE Active # {}
  <2>1. PICK a \in Threads : a \in Active
    BY <1>3 DEF Active
  <2> DEFINE f == CHOOSE t \in Threads : pc[t] = "first"
             l == CHOOSE t \in Threads : pc[t] = "last"
             x == IF \E t \in Threads : pc[t] = "first" THEN f ELSE a
             y == IF \E t \in Threads : pc[t] = "last" THEN l ELSE a
  <2>2. x \in Threads /\ y \in Threads
    OBVIOUS
  <2>3. ASSUME NEW t \in Active PROVE t \in {x, y}
    <3>1. t \in Threads /\ pc[t] \in {"first", "last"}
      BY <2>3 DEF Active, Waiting, At
    <3>2. CASE pc[t] = "first"
      <4>1. f \in Threads /\ pc[f] = "first" /\ x = f
        BY <3>1, <3>2
      <4> QED BY <3>1, <3>2, <4>1 DEF OneEach, Waiting
    <3>3. CASE pc[t] = "last"
      <4>1. l \in Threads /\ pc[l] = "last" /\ y = l
        BY <3>1, <3>3
      <4> QED BY <3>1, <3>3, <4>1 DEF OneEach, Waiting
    <3> QED BY <3>1, <3>2, <3>3
  <2> QED BY <1>1, <2>2, <2>3 DEF CountExact
<1> QED BY <1>2, <1>3

LEMMA LimitLemma == IInv => LimitMeansLastChance
<1> SUFFICES ASSUME IInv, thread_count >= MaxThread PROVE last_chance
  BY DEF LimitMeansLastChance
<1>1. thread_count \in Nat
  BY ActiveFinite DEF IInv, CountExact
<1>2. ~(thread_count <= 2)
  BY <1>1, LimitAssumption
<1> QED BY <1>2, TwoCommands DEF IInv, ChanceExact
-----------------------------------------------------------------------------
LEMMA IInvInit == Init => IInv
<1> SUFFICES ASSUME Init PROVE IInv
  OBVIOUS
<1>1. TypeOK
  <2>1. 0 \in 0 .. MinWait
    BY TimeAssumption
  <2>2. pc \in [Threads -> Places] /\ left \in [Threads -> 0 .. MinWait]
    BY <2>1 DEF Init, Places
  <2>3. told \in [Threads -> BOOLEAN]
    BY DEF Init
  <2>4. /\ booted \in BOOLEAN /\ last_chance \in BOOLEAN
        /\ owed \in BOOLEAN /\ unnoticed \in BOOLEAN /\ lost \in BOOLEAN
    BY DEF Init
  <2>5. quiet = 0 /\ thread_count = 0
    BY DEF Init
  <2>6. quiet \in 0 .. MinWait /\ thread_count \in Int
    BY <2>1, <2>5
  <2> QED BY <2>2, <2>3, <2>4, <2>6 DEF TypeOK
<1>2. Active = {} /\ At("sleep") = {}
  BY DEF Init, Active, Waiting, At
<1>3. CountExact /\ ChanceExact
  BY <1>2, FS_EmptySet DEF Init, CountExact, ChanceExact
<1>4. OneEach /\ Timing /\ Ghosts /\ NoEventForgotten
  BY DEF Init, OneEach, Timing, Ghosts, NoEventForgotten, Waiting
<1> QED BY <1>1, <1>3, <1>4 DEF IInv

(* A thread that starts or stops waiting moves the counter with it.         *)
LEMMA CountUp ==
    ASSUME TypeOK, CountExact, NEW t \in Threads, NEW p \in Waiting,
           pc[t] \notin Waiting, pc' = [pc EXCEPT ![t] = p],
           thread_count' = thread_count + 1
    PROVE  CountExact'
<1>1. Active' = Active \cup {t} /\ t \notin Active
  BY DEF TypeOK, Active
<1> QED BY <1>1, ActiveFinite, FS_AddElement DEF CountExact

LEMMA CountDown ==
    ASSUME TypeOK, CountExact, NEW t \in Threads, pc[t] \in Waiting,
           pc' = [pc EXCEPT ![t] = "idle"], thread_count' = thread_count - 1
    PROVE  CountExact'
<1>1. Active' = Active \ {t} /\ t \in Active
  BY DEF TypeOK, Active, Waiting
<1> QED BY <1>1, ActiveFinite, FS_RemoveElement DEF CountExact

LEMMA CountSame ==
    ASSUME TypeOK, CountExact, thread_count' = thread_count,
           \A t \in Threads : pc'[t] \in Waiting <=> pc[t] \in Waiting
    PROVE  CountExact'
<1>1. Active' = Active
  BY DEF Active
<1> QED BY <1>1 DEF CountExact

LEMMA IdleStep ==
    ASSUME IInv, NEW t \in Threads, pc[t] = "new",
           pc' = [pc EXCEPT ![t] = "idle"],
           UNCHANGED <<booted, quiet, left, thread_count, last_chance, told,
                       owed, unnoticed, lost>>,
           ~owed \/ last_chance
    PROVE  IInv'
<1>1. TypeOK'
  BY DEF IInv, TypeOK, Places
<1>2. CountExact'
  BY CountSame DEF IInv, TypeOK, Waiting
<1>3. At("sleep")' = At("sleep")
  BY DEF IInv, TypeOK, At
<1>4. ChanceExact' /\ OneEach' /\ Ghosts'
  BY <1>3 DEF IInv, TypeOK, ChanceExact, OneEach, Ghosts, Waiting
<1>5. Timing'
  BY DEF IInv, TypeOK, Timing
<1>6. NoEventForgotten'
  <2>1. CASE ~owed
    BY <2>1 DEF NoEventForgotten
  <2>2. CASE last_chance
    <3>1. PICK s \in Threads : pc'[s] = "sleep"
      BY <1>3, <2>2 DEF IInv, ChanceExact, At
    <3> QED BY <3>1 DEF NoEventForgotten
  <2> QED BY <2>1, <2>2
<1> QED BY <1>1, <1>2, <1>4, <1>5, <1>6 DEF IInv

LEMMA RaiseStep == ASSUME IInv, NEW t \in Threads, RaiseEvent(t) PROVE IInv'
<1>0. /\ pc[t] = "idle" /\ pc' = [pc EXCEPT ![t] = "new"]
      /\ owed' = (owed \/ booted) /\ booted' = booted /\ quiet' = quiet
      /\ left' = left /\ thread_count' = thread_count
      /\ last_chance' = last_chance /\ told' = told /\ lost' = lost
      /\ unnoticed' = unnoticed
  BY DEF RaiseEvent, timers, ghosts
<1>a. pc \in [Threads -> Places]
  BY DEF IInv, TypeOK
<1>1. TypeOK'
  <2>1. pc' \in [Threads -> Places]
    BY <1>0, <1>a DEF Places
  <2>2. owed' \in BOOLEAN
    BY <1>0
  <2> QED BY <1>0, <2>1, <2>2 DEF IInv, TypeOK
<1>2. CountExact'
  BY <1>0, <1>a, CountSame DEF IInv, Waiting
<1>3. At("sleep")' = At("sleep")
  BY <1>0, <1>a DEF At
<1>4. ChanceExact' /\ OneEach' /\ Ghosts'
  BY <1>0, <1>a, <1>3 DEF IInv, ChanceExact, OneEach, Ghosts, Waiting
<1>5. Timing'
  BY <1>0, <1>a DEF IInv, Timing
<1>6. NoEventForgotten'
  BY <1>0, <1>a DEF NoEventForgotten
<1> QED BY <1>1, <1>2, <1>4, <1>5, <1>6 DEF IInv

LEMMA UnnoticedStep == ASSUME IInv, RaiseUnnoticed PROVE IInv'
<1>0. /\ unnoticed' = (unnoticed \/ booted) /\ booted' = booted /\ pc' = pc
      /\ owed' = owed /\ quiet' = quiet /\ left' = left
      /\ thread_count' = thread_count /\ last_chance' = last_chance
      /\ told' = told /\ lost' = lost
  BY DEF RaiseUnnoticed, timers
<1>1. unnoticed' \in BOOLEAN
  BY <1>0
<1>2. TypeOK' /\ Timing'
  BY <1>0, <1>1 DEF IInv, TypeOK, Timing
<1>3. CountExact' /\ ChanceExact' /\ OneEach' /\ Ghosts' /\ NoEventForgotten'
  BY <1>0 DEF IInv, CountExact, Active, ChanceExact, At, OneEach, Ghosts,
     NoEventForgotten
<1> QED BY <1>2, <1>3 DEF IInv

LEMMA BootStep == ASSUME IInv, BootCompletes PROVE IInv'
<1>0. /\ booted' = TRUE /\ pc' = pc /\ owed' = owed /\ quiet' = quiet
      /\ left' = left /\ thread_count' = thread_count
      /\ last_chance' = last_chance /\ told' = told /\ lost' = lost
      /\ unnoticed' = unnoticed
  BY DEF BootCompletes, timers, ghosts
<1>1. TypeOK' /\ Timing'
  BY <1>0 DEF IInv, TypeOK, Timing
<1>2. CountExact' /\ ChanceExact' /\ OneEach' /\ Ghosts' /\ NoEventForgotten'
  BY <1>0 DEF IInv, CountExact, Active, ChanceExact, At, OneEach, Ghosts,
     NoEventForgotten
<1> QED BY <1>1, <1>2 DEF IInv

(* The facts of a thread that starts waiting.                               *)
LEMMA SpawnFacts ==
    ASSUME IInv, NEW t \in Threads, NEW p \in Waiting, NEW d \in 0 .. MinWait,
           Spawn(t, p, d), quiet' \in 0 .. MinWait, last_chance' \in BOOLEAN
    PROVE  /\ TypeOK' /\ CountExact' /\ Ghosts' /\ NoEventForgotten'
           /\ \A s \in Threads : /\ pc'[s] = IF s = t THEN p ELSE pc[s]
                                 /\ left'[s] = IF s = t THEN d ELSE left[s]
           /\ pc[t] = "new"
<1>0. /\ pc[t] = "new" /\ thread_count' = thread_count + 1
      /\ pc' = [pc EXCEPT ![t] = p] /\ left' = [left EXCEPT ![t] = d]
      /\ told' = [told EXCEPT ![t] = FALSE]
      /\ booted' = booted /\ owed' = owed /\ lost' = lost
      /\ unnoticed' = unnoticed
  BY DEF Spawn, Locked, ghosts
<1>a. /\ pc \in [Threads -> Places] /\ left \in [Threads -> 0 .. MinWait]
      /\ told \in [Threads -> BOOLEAN] /\ thread_count \in Int
      /\ p \in Places
  BY DEF IInv, TypeOK, Waiting, Places
<1>1. TypeOK'
  <2>1. pc' \in [Threads -> Places] /\ left' \in [Threads -> 0 .. MinWait]
    BY <1>0, <1>a
  <2>2. told' \in [Threads -> BOOLEAN]
    BY <1>0, <1>a
  <2>3. thread_count' \in Int
    BY <1>0, <1>a
  <2> QED BY <1>0, <2>1, <2>2, <2>3 DEF IInv, TypeOK
<1>2. CountExact'
  BY <1>0, CountUp DEF IInv, Waiting
<1>3. \A s \in Threads : /\ pc'[s] = IF s = t THEN p ELSE pc[s]
                         /\ left'[s] = IF s = t THEN d ELSE left[s]
                         /\ told'[s] = IF s = t THEN FALSE ELSE told[s]
  BY <1>0, <1>a
<1>4. Ghosts'
  <2>1. ASSUME NEW s \in Threads, pc'[s] = "sleep" PROVE ~told'[s]
    <3>1. CASE s = t
      BY <1>0, <1>a, <3>1
    <3>2. CASE s # t
      <4>1. pc[s] = "sleep" /\ told'[s] = told[s]
        BY <1>0, <1>a, <2>1, <3>2
      <4>2. ~told[s]
        BY <4>1 DEF IInv, Ghosts
      <4> QED BY <4>1, <4>2
    <3> QED BY <3>1, <3>2
  <2>2. owed' => booted'
    BY <1>0 DEF IInv, Ghosts
  <2> QED BY <2>1, <2>2 DEF Ghosts
<1>5. NoEventForgotten'
  BY <1>0, <1>3 DEF NoEventForgotten, Waiting
<1> QED BY <1>0, <1>1, <1>2, <1>3, <1>4, <1>5

LEMMA NotifyNowStep == ASSUME IInv, NEW t \in Threads, NotifyNow(t) PROVE IInv'
<1> USE TimeAssumption
<1>0. /\ Spawn(t, "first", RunMax) /\ ~(quiet > 0) /\ quiet' = MinWait
      /\ last_chance' = last_chance
  BY DEF NotifyNow, Recent
<1>b. last_chance' \in BOOLEAN
  BY <1>0 DEF IInv, TypeOK
<1>c. quiet \in 0 .. MinWait /\ left \in [Threads -> 0 .. MinWait]
  BY DEF IInv, TypeOK
<1>a. /\ RunMax \in 0 .. MinWait /\ quiet' \in 0 .. MinWait
      /\ last_chance' \in BOOLEAN /\ "first" \in Waiting
      /\ quiet \in 0 .. MinWait /\ left \in [Threads -> 0 .. MinWait]
  BY <1>0, <1>b, <1>c DEF Waiting
<1>1. /\ TypeOK' /\ CountExact' /\ Ghosts' /\ NoEventForgotten'
      /\ \A s \in Threads : /\ pc'[s] = IF s = t THEN "first" ELSE pc[s]
                            /\ left'[s] = IF s = t THEN RunMax ELSE left[s]
      /\ pc[t] = "new"
  BY <1>0, <1>a, SpawnFacts
<1>2. \A s \in Threads : pc[s] # "first"
  <2>1. ASSUME NEW s \in Threads, pc[s] = "first" PROVE FALSE
    <3>1. left[s] \in Nat /\ quiet >= MinWait - RunMax + left[s]
      BY <1>a, <2>1 DEF IInv, Timing
    <3> QED BY <1>0, <1>a, <3>1
  <2> QED BY <2>1
<1>3. At("sleep")' = At("sleep")
  BY <1>1 DEF At
<1>4. ChanceExact'
  BY <1>0, <1>3 DEF IInv, ChanceExact
<1>5. OneEach'
  BY <1>1, <1>2 DEF IInv, OneEach, Waiting
<1>6. Timing'
  BY <1>0, <1>1, <1>2, <1>a DEF IInv, Timing
<1> QED BY <1>1, <1>4, <1>5, <1>6 DEF IInv

LEMMA NotifyLaterStep == ASSUME IInv, NEW t \in Threads, NotifyLater(t) PROVE IInv'
<1> USE TimeAssumption
<1>0. /\ Spawn(t, "sleep", MinWait) /\ ~last_chance /\ last_chance' = TRUE
      /\ quiet' = quiet
  BY DEF NotifyLater
<1>a. /\ MinWait \in 0 .. MinWait /\ quiet' \in 0 .. MinWait
      /\ last_chance' \in BOOLEAN /\ "sleep" \in Waiting
      /\ left \in [Threads -> 0 .. MinWait]
  BY <1>0 DEF IInv, TypeOK, Waiting
<1>1. /\ TypeOK' /\ CountExact' /\ Ghosts' /\ NoEventForgotten'
      /\ \A s \in Threads : /\ pc'[s] = IF s = t THEN "sleep" ELSE pc[s]
                            /\ left'[s] = IF s = t THEN MinWait ELSE left[s]
      /\ pc[t] = "new"
  BY <1>0, <1>a, SpawnFacts
<1>2. \A s \in Threads : pc[s] # "sleep"
  BY <1>0 DEF IInv, ChanceExact, At
<1>3. t \in At("sleep")'
  BY <1>1 DEF At
<1>4. ChanceExact'
  BY <1>0, <1>3 DEF ChanceExact
<1>5. OneEach'
  BY <1>1, <1>2 DEF IInv, OneEach, Waiting
<1>6. Timing'
  <2>1. ASSUME NEW s \in Threads, pc'[s] \in {"first", "last"}
        PROVE  pc[s] = pc'[s] /\ left'[s] = left[s] /\ left[s] \in Nat
    BY <1>1, <1>a, <2>1
  <2>2. \A s \in Threads : pc'[s] \in {"first", "last"} => left'[s] <= RunMax
    BY <2>1 DEF IInv, Timing
  <2>3. \A s \in Threads :
           pc'[s] = "first" => quiet' >= MinWait - RunMax + left'[s]
    BY <1>0, <2>1 DEF IInv, Timing
  <2>4. ASSUME NEW r \in Threads, NEW s \in Threads, pc'[r] = "sleep", pc'[s] = "last"
        PROVE  left'[r] >= MinWait - RunMax + left'[s]
    <3>1. left'[r] = MinWait /\ left'[s] <= RunMax /\ left'[s] \in Nat
      BY <1>1, <1>2, <2>1, <2>2, <2>4
    <3> QED BY <3>1
  <2> QED BY <2>2, <2>3, <2>4 DEF Timing
<1> QED BY <1>1, <1>4, <1>5, <1>6 DEF IInv

LEMMA WakeStep == ASSUME IInv, NEW t \in Threads, Wake(t) PROVE IInv'
<1> USE TimeAssumption
<1>0. /\ pc[t] = "sleep" /\ left[t] = 0 /\ pc' = [pc EXCEPT ![t] = "last"]
      /\ left' = [left EXCEPT ![t] = RunMax] /\ last_chance' = FALSE
      /\ booted' = booted /\ quiet' = quiet /\ thread_count' = thread_count
      /\ told' = told /\ owed' = owed /\ lost' = lost
      /\ unnoticed' = unnoticed
  BY DEF Wake, ghosts
<1>a. /\ pc \in [Threads -> Places] /\ left \in [Threads -> 0 .. MinWait]
      /\ RunMax \in 0 .. MinWait /\ quiet \in 0 .. MinWait
  BY DEF IInv, TypeOK
<1>b. \A s \in Threads : /\ pc'[s] = IF s = t THEN "last" ELSE pc[s]
                         /\ left'[s] = IF s = t THEN RunMax ELSE left[s]
  BY <1>0, <1>a
<1>1. TypeOK'
  <2>1. pc' \in [Threads -> Places] /\ left' \in [Threads -> 0 .. MinWait]
    BY <1>0, <1>a DEF Places
  <2>2. last_chance' \in BOOLEAN
    BY <1>0
  <2> QED BY <1>0, <2>1, <2>2 DEF IInv, TypeOK
<1>2. CountExact'
  BY <1>0, <1>b, CountSame DEF IInv, Waiting
<1>3. \A s \in Threads : pc[s] = "sleep" => s = t
  BY <1>0 DEF IInv, OneEach, Waiting
<1>4. \A s \in Threads : pc[s] # "last"
  <2>1. ASSUME NEW s \in Threads, pc[s] = "last" PROVE FALSE
    <3>1. left[s] \in Nat /\ left[t] >= MinWait - RunMax + left[s]
      BY <1>0, <1>a, <2>1 DEF IInv, Timing
    <3> QED BY <1>0, <3>1
  <2> QED BY <2>1
<1>5. At("sleep")' = {}
  BY <1>b, <1>3 DEF At
<1>6. ChanceExact' /\ OneEach'
  BY <1>0, <1>b, <1>4, <1>5 DEF IInv, ChanceExact, OneEach, Waiting
<1>7. Timing'
  <2>1. \A s \in Threads : pc'[s] # "sleep"
    BY <1>b, <1>3
  <2>2. \A s \in Threads : pc'[s] \in {"first", "last"} => left'[s] <= RunMax
    BY <1>a, <1>b DEF IInv, Timing
  <2>3. \A s \in Threads :
           pc'[s] = "first" => quiet' >= MinWait - RunMax + left'[s]
    BY <1>0, <1>b DEF IInv, Timing
  <2> QED BY <2>1, <2>2, <2>3 DEF Timing
<1>8. Ghosts' /\ NoEventForgotten'
  BY <1>0, <1>b, <1>3 DEF IInv, Ghosts, NoEventForgotten
<1> QED BY <1>1, <1>2, <1>6, <1>7, <1>8 DEF IInv

LEMMA CommandStep ==
    ASSUME IInv, NEW t \in Threads, NEW ok \in BOOLEAN, RunCommand(t, ok)
    PROVE  IInv'
<1>0. /\ pc[t] \in {"first", "last"} /\ told' = [told EXCEPT ![t] = TRUE]
      /\ owed' = (owed /\ ~ok) /\ unnoticed' = (unnoticed /\ ~ok) /\ lost' = ~ok
      /\ booted' = booted /\ quiet' = quiet /\ left' = left
      /\ thread_count' = thread_count /\ last_chance' = last_chance /\ pc' = pc
  BY DEF RunCommand, timers
<1>1. TypeOK'
  <2>1. told' \in [Threads -> BOOLEAN]
    BY <1>0 DEF IInv, TypeOK
  <2>2. owed' \in BOOLEAN /\ unnoticed' \in BOOLEAN /\ lost' \in BOOLEAN
    BY <1>0
  <2> QED BY <1>0, <2>1, <2>2 DEF IInv, TypeOK
<1>2. Timing'
  BY <1>0 DEF IInv, Timing
<1>3. CountExact' /\ ChanceExact' /\ OneEach'
  BY <1>0 DEF IInv, CountExact, Active, ChanceExact, At, OneEach
<1>4. Ghosts'
  BY <1>0 DEF IInv, TypeOK, Ghosts
<1>5. NoEventForgotten'
  BY <1>0 DEF NoEventForgotten
<1> QED BY <1>1, <1>2, <1>3, <1>4, <1>5 DEF IInv

LEMMA FinishStep == ASSUME IInv, NEW t \in Threads, Finish(t) PROVE IInv'
<1> USE TimeAssumption
<1>0. /\ told[t] /\ pc[t] \in {"first", "last"}
      /\ thread_count' = thread_count - 1 /\ pc' = [pc EXCEPT ![t] = "idle"]
      /\ left' = [left EXCEPT ![t] = 0] /\ told' = [told EXCEPT ![t] = FALSE]
      /\ booted' = booted /\ quiet' = quiet /\ last_chance' = last_chance
      /\ owed' = owed /\ lost' = lost /\ unnoticed' = unnoticed
  BY DEF Finish, Exit, ghosts
<1>a. /\ pc \in [Threads -> Places] /\ thread_count \in Int
      /\ left \in [Threads -> 0 .. MinWait]
  BY DEF IInv, TypeOK
<1>b. told \in [Threads -> BOOLEAN]
  BY DEF IInv, TypeOK
<1>c. \A s \in Threads : /\ pc'[s] = IF s = t THEN "idle" ELSE pc[s]
                         /\ left'[s] = IF s = t THEN 0 ELSE left[s]
  BY <1>0, <1>a
<1>d. \A s \in Threads : s # t => told'[s] = told[s]
  BY <1>0, <1>b
<1>1. TypeOK'
  <2>1. pc' \in [Threads -> Places] /\ thread_count' \in Int
        /\ left' \in [Threads -> 0 .. MinWait]
    BY <1>0, <1>a DEF Places
  <2>2. told' \in [Threads -> BOOLEAN]
    BY <1>0, <1>b
  <2> QED BY <1>0, <2>1, <2>2 DEF IInv, TypeOK
<1>2. CountExact'
  BY <1>0, CountDown DEF IInv, Waiting
<1>3. At("sleep")' = At("sleep")
  BY <1>0, <1>c DEF At
<1>4. ChanceExact' /\ OneEach'
  BY <1>0, <1>c, <1>3 DEF IInv, ChanceExact, OneEach, Waiting
<1>5. Ghosts'
  BY <1>0, <1>c, <1>d DEF IInv, Ghosts
<1>6. Timing'
  BY <1>0, <1>c DEF IInv, Timing
<1>7. NoEventForgotten'
  BY <1>0, <1>c, <1>d DEF IInv, NoEventForgotten
<1> QED BY <1>1, <1>2, <1>4, <1>5, <1>6, <1>7 DEF IInv

LEMMA TickStep == ASSUME IInv, Tick PROVE IInv'
<1> USE TimeAssumption
<1>0. /\ \A t \in Active : left[t] > 0
      /\ quiet' = (IF quiet > 0 THEN quiet - 1 ELSE 0)
      /\ left' = [t \in Threads |-> IF t \in Active THEN left[t] - 1 ELSE left[t]]
      /\ booted' = booted /\ thread_count' = thread_count
      /\ last_chance' = last_chance /\ pc' = pc
      /\ told' = told /\ owed' = owed /\ lost' = lost
      /\ unnoticed' = unnoticed
  BY DEF Tick, ghosts
<1>a. quiet \in 0 .. MinWait /\ left \in [Threads -> 0 .. MinWait]
  BY DEF IInv, TypeOK
<1>b. \A t \in Threads : pc[t] \in Waiting =>
         left'[t] = left[t] - 1 /\ left[t] > 0
  BY <1>0 DEF Active
<1>1. TypeOK'
  <2>1. quiet' \in 0 .. MinWait
    BY <1>0, <1>a
  <2>2. \A t \in Threads : left'[t] \in 0 .. MinWait
    <3>1. ASSUME NEW t \in Threads PROVE left'[t] \in 0 .. MinWait
      <4>1. left[t] \in 0 .. MinWait
        BY <1>a
      <4>2. CASE t \in Active
        BY <1>0, <4>1, <4>2
      <4>3. CASE t \notin Active
        BY <1>0, <4>1, <4>3
      <4> QED BY <4>2, <4>3
    <3> QED BY <3>1
  <2>3. left' \in [Threads -> 0 .. MinWait]
    BY <1>0, <2>2
  <2> QED BY <1>0, <2>1, <2>3 DEF IInv, TypeOK
<1>2. CountExact' /\ ChanceExact' /\ OneEach' /\ Ghosts' /\ NoEventForgotten'
  BY <1>0 DEF IInv, CountExact, Active, ChanceExact, At, OneEach, Ghosts,
     NoEventForgotten
<1>3. Timing'
  <2>1. \A t \in Threads : pc[t] \in {"first", "last"} => left'[t] <= RunMax
    BY <1>a, <1>b DEF IInv, Timing, Waiting
  <2>2. ASSUME NEW t \in Threads, pc[t] = "first"
        PROVE  quiet' >= MinWait - RunMax + left'[t]
    <3>1. quiet >= MinWait - RunMax + left[t] /\ left[t] \in 0 .. MinWait
          /\ left'[t] = left[t] - 1 /\ left[t] > 0
      BY <1>a, <1>b, <2>2 DEF IInv, Timing, Waiting
    <3> QED BY <1>0, <1>a, <3>1
  <2>3. ASSUME NEW s \in Threads, NEW t \in Threads, pc[s] = "sleep", pc[t] = "last"
        PROVE  left'[s] >= MinWait - RunMax + left'[t]
    <3>1. /\ left[s] >= MinWait - RunMax + left[t]
          /\ left[s] \in 0 .. MinWait /\ left[t] \in 0 .. MinWait
          /\ left'[s] = left[s] - 1 /\ left'[t] = left[t] - 1
      BY <1>a, <1>b, <2>3 DEF IInv, Timing, Waiting
    <3> QED BY <3>1
  <2> QED BY <1>0, <2>1, <2>2, <2>3 DEF Timing
<1> QED BY <1>1, <1>2, <1>3 DEF IInv

LEMMA ReturnStep ==
    ASSUME IInv, NEW t \in Threads, NotBooted(t) \/ Refused(t) PROVE IInv'
<1>1. /\ pc[t] = "new" /\ pc' = [pc EXCEPT ![t] = "idle"]
      /\ UNCHANGED <<booted, quiet, left, thread_count, last_chance, told,
                     owed, unnoticed, lost>>
  BY DEF NotBooted, Refused, Locked, timers, ghosts
<1>2. ~owed \/ last_chance
  BY LimitLemma DEF NotBooted, Refused, TooMany, LimitMeansLastChance, IInv, Ghosts
<1> QED BY <1>1, <1>2, IdleStep

LEMMA IInvNext == IInv /\ [Next]_vars => IInv'
<1> SUFFICES ASSUME IInv, [Next]_vars PROVE IInv'
  OBVIOUS
<1>1. CASE UNCHANGED vars
  <2>1. /\ booted' = booted /\ quiet' = quiet /\ thread_count' = thread_count
        /\ last_chance' = last_chance /\ pc' = pc /\ left' = left
        /\ told' = told /\ owed' = owed /\ lost' = lost
        /\ unnoticed' = unnoticed
    BY <1>1 DEF vars, ghosts
  <2>2. TypeOK' /\ Timing'
    BY <2>1 DEF IInv, TypeOK, Timing
  <2>3. CountExact' /\ ChanceExact' /\ OneEach' /\ Ghosts' /\ NoEventForgotten'
    BY <2>1 DEF IInv, CountExact, Active, ChanceExact, At, OneEach, Ghosts,
       NoEventForgotten
  <2> QED BY <2>2, <2>3 DEF IInv
<1>2. ASSUME NEW t \in Threads, Step(t) PROVE IInv'
  BY <1>2, ReturnStep, NotifyNowStep, NotifyLaterStep, WakeStep, CommandStep,
     FinishStep DEF Step
<1> QED BY <1>1, <1>2, RaiseStep, UnnoticedStep, BootStep, TickStep DEF Next

(* Type correctness of the counters, the timers and the threads.            *)
THEOREM TypeCorrect == Spec => []TypeOK
<1>1. IInv => TypeOK
  BY DEF IInv
<1> QED BY <1>1, IInvInit, IInvNext, PTL DEF Spec

(* An event whose thread returns without notifying is always left to a      *)
(* thread that is still to send a broadcast.                                *)
THEOREM NothingForgotten == Spec => []NoEventForgotten
<1>1. IInv => NoEventForgotten
  BY DEF IInv
<1> QED BY <1>1, IInvInit, IInvNext, PTL DEF Spec

(* MAX_THREAD is reached only while the last chance thread sleeps, as long  *)
(* as a command ends before MIN_WAIT seconds.                               *)
THEOREM LimitSafe == Spec => []LimitMeansLastChance
<1> QED BY LimitLemma, IInvInit, IInvNext, PTL DEF Spec
=============================================================================
