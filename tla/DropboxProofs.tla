---------------------------- MODULE DropboxProofs ----------------------------
(***************************************************************************)
(* CrashReport is told of an event once, and of the event whose dumpstate  *)
(* was completed, for every size of the ring and any number of crashes and *)
(* of threads that handle them.                                            *)
(***************************************************************************)
EXTENDS Dropbox, SequenceTheorems, TLAPS

Ring == 0 .. Slots - 1

(* A crash is handled once: its key is stored or told at the end of the     *)
(* call, and a crash the daemon has not seen yet has no trace.              *)
Handled ==
    /\ \A i \in 1 .. Len(events) : events[i].type = "crash" => events[i].id <= lastcrash
    /\ \A c \in Crashes : c > lastcrash => pc[c] = "none"
    /\ \A c \in Crashes : pc[c] # "done" =>
          /\ \A s \in Ring : keys[s] # c
          /\ \A i \in 1 .. Len(told) : told[i].key # c
KeysOnce ==
    /\ \A s, t \in Ring : s # t /\ keys[s] # 0 => keys[s] # keys[t]
    /\ \A s \in Ring : keys[s] # 0 => \A i \in 1 .. Len(told) : told[i].key # keys[s]

Once == Handled /\ KeysOnce /\ ToldOnce

(* A folder is watched from the call on; the event of a finished dumpstate  *)
(* comes when the call is over.                                             *)
Started  == {"advance", "store", "done"}
InFlight == requested \/ svc = "running"
Watched ==
    /\ svc = "stopped" => job = 0
    /\ \A c \in watches : pc[c] \in Started
    /\ \A i \in 1 .. Len(events) : events[i].type = "dropbox" => pc[events[i].id] = "done"

(* As long as nothing was missed one dumpstate is under way at most: that   *)
(* of the call in progress, of the folder in the property.                  *)
Alone ==
    /\ \A c \in Crashes : pc[c] \in {"watch", "advance", "store"} =>
          /\ storage = c /\ InFlight /\ job \in {0, c}
          /\ pc[c] # "watch" => c \in watches
    /\ job # 0 /\ (job \in watches \/ storage \in watches) => job = storage
    /\ InFlight /\ (storage \in watches \/ \E c \in Crashes : pc[c] = "watch") =>
          ~(requested /\ svc = "running") /\ (requested => job = 0)

(* The k-th slot from the one the consumer looks at.                        *)
Slot(k) == IF index_cons + k < Slots THEN index_cons + k ELSE index_cons + k - Slots

(* The producer's index was advanced and the key is not stored yet.         *)
Storing == \E c \in Crashes : pc[c] = "store"

(* The key of the dumpstate under way is in the ring.                       *)
Held == InFlight /\ storage \in watches /\ pc[storage] = "done"

(* n keys are in the ring, from the consumer's slot to the producer's;      *)
(* rank[i] counts the finished dumpstates before the i-th event.  The keys  *)
(* are those of the finished dumpstates in order, then that of the one      *)
(* under way.                                                               *)
Ranks(rank) ==
    /\ rank[1] = 0
    /\ \A i, j \in 1 .. Len(events) + 1 : i <= j => rank[i] <= rank[j]
    /\ \A i \in 1 .. Len(events) :
          rank[i + 1] = IF events[i].type = "dropbox" THEN rank[i] + 1 ELSE rank[i]
Filled(n) ==
    /\ \A k \in 0 .. n - 1 : keys[Slot(k)] # 0
    /\ \A k \in n .. Slots - 1 : keys[Slot(k)] = 0
    /\ Slot(n) = IF Storing THEN index_prod
                 ELSE IF index_prod = Slots - 1 THEN 0 ELSE index_prod + 1
Paired(n, rank) ==
    /\ \A i \in 1 .. Len(events) :
          events[i].type = "dropbox" => rank[i] < n /\ keys[Slot(rank[i])] = events[i].id
    /\ n = IF Held THEN rank[Len(events) + 1] + 1 ELSE rank[Len(events) + 1]
    /\ Held => keys[Slot(n - 1)] = storage
Matched ==
    \E n \in 0 .. Slots : \E rank \in [1 .. Len(events) + 1 -> 0 .. Slots] :
        Ranks(rank) /\ Filled(n) /\ Paired(n, rank)

RingInv == TypeOK /\ Once /\ Watched /\ (~missed => Alone /\ Matched) /\ RightKey
-----------------------------------------------------------------------------
LEMMA Appended ==
    ASSUME NEW S, NEW s \in Seq(S), NEW x \in S
    PROVE  /\ Append(s, x) \in Seq(S) /\ Len(Append(s, x)) = Len(s) + 1
           /\ \A i \in 1 .. Len(s) : Append(s, x)[i] = s[i]
           /\ Append(s, x)[Len(s) + 1] = x
  OBVIOUS

LEMMA Taken ==
    ASSUME NEW S, NEW s \in Seq(S), s # <<>>
    PROVE  /\ Tail(s) \in Seq(S) /\ Len(Tail(s)) = Len(s) - 1 /\ Len(s) \in Nat \ {0}
           /\ \A i \in 1 .. Len(s) - 1 : Tail(s)[i] = s[i + 1]
           /\ Head(s) = s[1] /\ Head(s) \in S
  OBVIOUS

(* The index of the ring without the remainder. *)
LEMMA NextSlot ==
    ASSUME NEW a \in Ring
    PROVE  (a + 1) % Slots = IF a = Slots - 1 THEN 0 ELSE a + 1
<1>1. Slots \in Nat \ {0}
  BY DropboxAssumption
<1>2. CASE a = Slots - 1
  BY <1>1, <1>2
<1>3. CASE a # Slots - 1
  BY <1>1, <1>3 DEF Ring
<1> QED BY <1>2, <1>3

LEMMA NextSlotType ==
    ASSUME NEW a \in Ring
    PROVE  (a + 1) % Slots \in Ring
  BY NextSlot, DropboxAssumption DEF Ring

Event == [type : {"crash", "dropbox"}, id : Crashes]
Note  == [key : Crashes, dir : Crashes, sure : BOOLEAN]
-----------------------------------------------------------------------------
LEMMA InitTyped == Init => TypeOK
<1> SUFFICES ASSUME Init PROVE TypeOK
  OBVIOUS
<1>1. /\ events \in Seq([type : {"crash", "dropbox"}, id : Crashes])
      /\ told \in Seq([key : Crashes, dir : Crashes, sure : BOOLEAN])
  BY DEF Init
<1>2. /\ lastcrash \in 0 .. MaxCrash /\ pc \in [Crashes -> Steps]
      /\ keys \in [0 .. Slots - 1 -> 0 .. MaxCrash]
      /\ index_prod \in 0 .. Slots - 1 /\ index_cons \in 0 .. Slots - 1
      /\ storage \in 0 .. MaxCrash /\ job \in 0 .. MaxCrash
      /\ svc \in {"stopped", "running"} /\ watches \subseteq Crashes
  BY DropboxAssumption DEF Init, Crashes, Steps
<1>3. requested \in BOOLEAN /\ booted \in BOOLEAN /\ missed \in BOOLEAN
  BY DEF Init
<1> QED BY <1>1, <1>2, <1>3 DEF TypeOK

LEMMA EventTyped == TypeOK /\ [Next]_vars => events' \in Seq(Event)
<1> SUFFICES ASSUME TypeOK, [Next]_vars PROVE events' \in Seq(Event)
  OBVIOUS
<1>0. events \in Seq(Event)
  BY DEF TypeOK, Event
<1>1. CASE Crash
  <2>1. [type |-> "crash", id |-> lastcrash + 1] \in Event
    BY <1>1, DropboxAssumption DEF Crash, Event, Crashes, TypeOK
  <2> QED BY <1>0, <1>1, <2>1, Appended DEF Crash
<1>2. ASSUME NEW type, TakeEvent(type) PROVE events' \in Seq(Event)
  BY <1>0, <1>2, Taken DEF TakeEvent
<1>3. CASE WriteDropbox
  <2>1. [type |-> "dropbox", id |-> job] \in Event
    BY <1>3, DropboxAssumption DEF WriteDropbox, Event, Crashes, TypeOK
  <2> QED BY <1>0, <1>3, <2>1, Appended DEF WriteDropbox
<1>4. CASE Restart
  BY <1>4 DEF Restart
<1>5. CASE UNCHANGED events
  BY <1>0, <1>5
<1> QED
  BY <1>1, <1>2, <1>3, <1>4, <1>5
  DEF Next, BootCompletes, HandleCrash, AlreadyRunning, CheckRunning, Request,
      AddWatch, AddWatchFails, Advance, StoreKey, NoKeyPending, NotBooted, Finalize,
      SrvStart, ReadPath, Leave, vars

LEMMA ToldTyped == TypeOK /\ [Next]_vars => told' \in Seq(Note)
<1> SUFFICES ASSUME TypeOK, [Next]_vars PROVE told' \in Seq(Note)
  OBVIOUS
<1>0. told \in Seq(Note)
  BY DEF TypeOK, Note
<1>1. ASSUME NEW key \in Crashes, NEW dir \in Crashes, Tell(key, dir)
      PROVE  told' \in Seq(Note)
  <2>1. (~missed) \in BOOLEAN
    OBVIOUS
  <2>2. [key |-> key, dir |-> dir, sure |-> ~missed] \in Note
    BY <2>1 DEF Note
  <2> QED BY <1>0, <1>1, <2>2, Appended DEF Tell
<1>2. ASSUME NEW c \in Crashes, TellSelf(c) PROVE told' \in Seq(Note)
  BY <1>0, <1>1, <1>2 DEF TellSelf
<1>3. CASE Finalize
  <2>1. keys[index_cons] \in Crashes
    BY <1>3, DropboxAssumption DEF Finalize, TypeOK, Crashes
  <2>2. Dropbox \in Crashes
    <3>1. events \in Seq(Event) /\ events # <<>>
      BY <1>3 DEF Finalize, TakeEvent, TypeOK, Event
    <3>2. Head(events) \in Event
      BY <3>1, Taken
    <3> QED BY <3>2 DEF Dropbox, Event
  <2> QED BY <1>1, <1>3, <2>1, <2>2 DEF Finalize
<1>4. CASE UNCHANGED told
  BY <1>0, <1>4
<1> QED
  BY <1>2, <1>3, <1>4
  DEF Next, Crash, BootCompletes, HandleCrash, AlreadyRunning, CheckRunning, Request,
      AddWatch, AddWatchFails, Advance, StoreKey, NoKeyPending, NotBooted, Restart,
      SrvStart, ReadPath, Leave, WriteDropbox, vars

LEMMA DaemonTyped ==
    TypeOK /\ [Next]_vars =>
       /\ pc' \in [Crashes -> Steps]
       /\ keys' \in [0 .. Slots - 1 -> 0 .. MaxCrash]
       /\ index_prod' \in 0 .. Slots - 1 /\ index_cons' \in 0 .. Slots - 1
       /\ watches' \subseteq Crashes
<1> SUFFICES ASSUME TypeOK, [Next]_vars
             PROVE  /\ pc' \in [Crashes -> Steps]
                    /\ keys' \in [0 .. Slots - 1 -> 0 .. MaxCrash]
                    /\ index_prod' \in 0 .. Slots - 1 /\ index_cons' \in 0 .. Slots - 1
                    /\ watches' \subseteq Crashes
  OBVIOUS
<1>1. CASE Restart
  BY <1>1, DropboxAssumption DEF Restart, TypeOK, Steps
<1>2. pc' \in [Crashes -> Steps]
  <2>1. ASSUME NEW c, NEW from, NEW to \in Steps, At(c, from, to)
        PROVE  pc' \in [Crashes -> Steps]
    BY <2>1 DEF At, TypeOK
  <2>2. /\ "check" \in Steps /\ "request" \in Steps /\ "watch" \in Steps
        /\ "advance" \in Steps /\ "store" \in Steps /\ "done" \in Steps
    BY DEF Steps
  <2> QED
    BY <1>1, <2>1, <2>2
    DEF Next, Crash, BootCompletes, HandleCrash, AlreadyRunning, CheckRunning,
        Request, AddWatch, AddWatchFails, Advance, StoreKey, NoKeyPending, NotBooted,
        Finalize, SrvStart, ReadPath, Leave, WriteDropbox, daemon, vars, TypeOK
<1>3. keys' \in [0 .. Slots - 1 -> 0 .. MaxCrash]
  <2>1. CASE Finalize
    BY <2>1, DropboxAssumption DEF Finalize, TypeOK
  <2>2. ASSUME NEW c \in Crashes, StoreKey(c)
        PROVE  keys' \in [0 .. Slots - 1 -> 0 .. MaxCrash]
    BY <2>2, DropboxAssumption DEF StoreKey, TypeOK, Crashes
  <2>3. CASE UNCHANGED keys
    BY <2>3 DEF TypeOK
  <2> QED
    BY <1>1, <2>1, <2>2, <2>3
    DEF Next, Crash, BootCompletes, HandleCrash, AlreadyRunning, CheckRunning,
        Request, AddWatch, AddWatchFails, Advance, NoKeyPending, NotBooted,
        SrvStart, ReadPath, Leave, WriteDropbox, daemon, vars
<1>4. index_prod' \in 0 .. Slots - 1 /\ index_cons' \in 0 .. Slots - 1
  BY <1>1, NextSlotType
  DEF Next, Crash, BootCompletes, HandleCrash, AlreadyRunning, CheckRunning,
      Request, AddWatch, AddWatchFails, Advance, StoreKey, NoKeyPending, NotBooted,
      Finalize, SrvStart, ReadPath, Leave, WriteDropbox, daemon, vars, TypeOK, Ring
<1>5. watches' \subseteq Crashes
  BY <1>1
  DEF Next, Crash, BootCompletes, HandleCrash, AlreadyRunning, CheckRunning,
      Request, AddWatch, AddWatchFails, Advance, StoreKey, NoKeyPending, NotBooted,
      Finalize, SrvStart, ReadPath, Leave, WriteDropbox, daemon, vars, TypeOK
<1> QED BY <1>2, <1>3, <1>4, <1>5

LEMMA ServiceTyped ==
    TypeOK /\ [Next]_vars =>
       /\ lastcrash' \in 0 .. MaxCrash
       /\ storage' \in 0 .. MaxCrash /\ job' \in 0 .. MaxCrash
       /\ svc' \in {"stopped", "running"}
<1> SUFFICES ASSUME TypeOK, [Next]_vars
             PROVE  /\ lastcrash' \in 0 .. MaxCrash
                    /\ storage' \in 0 .. MaxCrash /\ job' \in 0 .. MaxCrash
                    /\ svc' \in {"stopped", "running"}
  OBVIOUS
<1>1. Crash \/ UNCHANGED lastcrash
  BY DEF Next, Crash, BootCompletes, HandleCrash, AlreadyRunning, CheckRunning,
      Request, AddWatch, AddWatchFails, Advance, StoreKey, NoKeyPending, NotBooted,
      Finalize, Restart, SrvStart, ReadPath, Leave, WriteDropbox, service, daemon, vars
<1>2. (\E c \in Crashes : storage' = c) \/ UNCHANGED storage
  BY DEF Next, Crash, BootCompletes, HandleCrash, AlreadyRunning, CheckRunning,
      Request, AddWatch, AddWatchFails, Advance, StoreKey, NoKeyPending, NotBooted,
      Finalize, Restart, SrvStart, ReadPath, Leave, WriteDropbox, service, daemon, vars
<1>3. job' = storage \/ job' = 0 \/ UNCHANGED job
  BY DEF Next, Crash, BootCompletes, HandleCrash, AlreadyRunning, CheckRunning,
      Request, AddWatch, AddWatchFails, Advance, StoreKey, NoKeyPending, NotBooted,
      Finalize, Restart, SrvStart, ReadPath, Leave, WriteDropbox, service, daemon, vars
<1>4. svc' = "running" \/ svc' = "stopped" \/ UNCHANGED svc
  BY DEF Next, Crash, BootCompletes, HandleCrash, AlreadyRunning, CheckRunning,
      Request, AddWatch, AddWatchFails, Advance, StoreKey, NoKeyPending, NotBooted,
      Finalize, Restart, SrvStart, ReadPath, Leave, WriteDropbox, service, daemon, vars
<1>5. lastcrash' \in 0 .. MaxCrash
  BY <1>1, DropboxAssumption DEF Crash, TypeOK
<1> QED BY <1>2, <1>3, <1>4, <1>5, DropboxAssumption DEF TypeOK, Crashes

LEMMA FlagsTyped ==
    TypeOK /\ [Next]_vars =>
       /\ requested' \in BOOLEAN /\ booted' \in BOOLEAN /\ missed' \in BOOLEAN
<1> SUFFICES ASSUME TypeOK, [Next]_vars
             PROVE  requested' \in BOOLEAN /\ booted' \in BOOLEAN /\ missed' \in BOOLEAN
  OBVIOUS
<1>1. requested' \in BOOLEAN
  BY DEF Next, Crash, BootCompletes, HandleCrash, AlreadyRunning, CheckRunning,
      Request, AddWatch, AddWatchFails, Advance, StoreKey, NoKeyPending, NotBooted,
      Finalize, SrvStart, ReadPath, Leave, WriteDropbox, service, vars, TypeOK, Restart
<1>2. booted' \in BOOLEAN
  BY DEF Next, Crash, BootCompletes, HandleCrash, AlreadyRunning, CheckRunning,
      Request, AddWatch, AddWatchFails, Advance, StoreKey, NoKeyPending, NotBooted,
      Finalize, SrvStart, ReadPath, Leave, WriteDropbox, vars, TypeOK, Restart
<1>3. missed' \in BOOLEAN
  BY DEF Next, Crash, BootCompletes, HandleCrash, AlreadyRunning, CheckRunning,
      Request, AddWatch, AddWatchFails, Advance, StoreKey, NoKeyPending, NotBooted,
      Finalize, SrvStart, ReadPath, Leave, WriteDropbox, vars, TypeOK, Restart
<1> QED BY <1>1, <1>2, <1>3

LEMMA StepTyped == TypeOK /\ [Next]_vars => TypeOK'
  BY EventTyped, ToldTyped, DaemonTyped, ServiceTyped, FlagsTyped
  DEF TypeOK, Event, Note

(* The indices of the ring stay within it and every value has its type. *)
THEOREM TypeCorrect == Spec => []TypeOK
  BY InitTyped, StepTyped, PTL DEF Spec
-----------------------------------------------------------------------------
LEMMA EventFacts ==
    ASSUME TypeOK
    PROVE  /\ events \in Seq(Event) /\ Len(events) \in Nat
           /\ \A i \in 1 .. Len(events) :
                 events[i].id \in Crashes /\ events[i].type \in {"crash", "dropbox"}
<1>1. events \in Seq(Event)
  BY DEF TypeOK, Event
<1>2. \A i \in 1 .. Len(events) : events[i] \in Event
  BY <1>1
<1> QED BY <1>1, <1>2 DEF Event

(* What a step that appends a note to told, for the crash key, needs.       *)
LEMMA TellKeeps ==
    ASSUME TypeOK, Once, NEW key \in Crashes, NEW dir, Tell(key, dir),
           \A i \in 1 .. Len(told) : told[i].key # key
    PROVE  /\ Len(told') = Len(told) + 1 /\ told'[Len(told) + 1].key = key
           /\ \A i \in 1 .. Len(told) : told'[i] = told[i]
           /\ ToldOnce'
<1> DEFINE x == [key |-> key, dir |-> dir, sure |-> ~missed]
<1>0. Len(told) \in Nat
  BY DEF TypeOK
<1>1. /\ Len(told') = Len(told) + 1 /\ told'[Len(told) + 1] = x
      /\ \A i \in 1 .. Len(told) : told'[i] = told[i]
  BY DEF TypeOK, Tell
<1>2. x.key = key
  OBVIOUS
<1>3. ToldOnce'
  BY <1>0, <1>1, <1>2 DEF ToldOnce, Once
<1> QED BY <1>1, <1>2, <1>3

LEMMA InitOnce == Init => Once
  BY DropboxAssumption DEF Init, Once, Handled, KeysOnce, ToldOnce, Crashes, Ring

LEMMA CrashOnce == ASSUME TypeOK, Once, Crash PROVE Once'
<1>1. KeysOnce' /\ ToldOnce'
  BY DEF Once, KeysOnce, ToldOnce, Crash, daemon
<1>2. /\ Len(events') = Len(events) + 1 /\ Len(events) \in Nat
      /\ \A i \in 1 .. Len(events) : events'[i] = events[i]
      /\ events'[Len(events) + 1] = [type |-> "crash", id |-> lastcrash + 1]
      /\ \A i \in 1 .. Len(events) : events[i].id \in Crashes
  BY EventFacts DEF Crash
<1>3. lastcrash' = lastcrash + 1 /\ lastcrash \in Nat /\ UNCHANGED <<pc, keys, told>>
  BY DEF Crash, daemon, TypeOK
<1>4. \A i \in 1 .. Len(events') :
         events'[i].type = "crash" => events'[i].id <= lastcrash'
  <2> TAKE i \in 1 .. Len(events')
  <2>1. CASE i = Len(events) + 1
    BY <1>2, <1>3, <2>1
  <2>2. CASE i \in 1 .. Len(events)
    BY <1>2, <1>3, <2>2, DropboxAssumption DEF Once, Handled, Crashes
  <2> QED BY <1>2, <2>1, <2>2
<1>5. \A c \in Crashes : c > lastcrash' => pc'[c] = "none"
  BY <1>3, DropboxAssumption DEF Once, Handled, Crashes
<1> QED BY <1>1, <1>3, <1>4, <1>5 DEF Once, Handled

(* An event is taken; the rest of the daemon's history stays. *)
LEMMA TakeSeen ==
    ASSUME TypeOK, Once, NEW type, TakeEvent(type)
    PROVE  \A i \in 1 .. Len(events') : events'[i].type = "crash" => events'[i].id <= lastcrash
<1>1. /\ Len(events') = Len(events) - 1 /\ Len(events) \in Nat \ {0}
      /\ \A i \in 1 .. Len(events) - 1 : events'[i] = events[i + 1]
  BY Taken DEF TakeEvent, TypeOK
<1> QED BY <1>1 DEF Once, Handled

LEMMA HandleOnce == ASSUME TypeOK, Once, HandleCrash PROVE Once'
<1> DEFINE h == Head(events).id
<1>1. h \in Crashes /\ h <= lastcrash
  <2>1. Len(events) \in Nat \ {0} /\ Head(events) = events[1] /\ Head(events).type = "crash"
    BY Taken DEF HandleCrash, TakeEvent, TypeOK
  <2>2. events[1].id \in Crashes
    BY <2>1, EventFacts
  <2> QED BY <2>1, <2>2 DEF Once, Handled
<1>2. pc[h] = "none" /\ pc' = [pc EXCEPT ![h] = "check"] /\ UNCHANGED <<lastcrash, keys, told>>
  BY DEF HandleCrash, At
<1>3. \A i \in 1 .. Len(events') : events'[i].type = "crash" => events'[i].id <= lastcrash'
  BY <1>2, TakeSeen DEF HandleCrash
<1>4. \A c \in Crashes : c > lastcrash => pc'[c] = "none"
  <2>1. \A c \in Crashes : c # h => pc'[c] = pc[c]
    BY <1>2 DEF TypeOK
  <2>2. lastcrash \in Nat /\ \A c \in Crashes : c \in Nat
    BY DropboxAssumption DEF Crashes, TypeOK
  <2> QED BY <1>1, <2>1, <2>2 DEF Once, Handled
<1>5. \A c \in Crashes : pc'[c] # "done" => pc[c] # "done"
  BY <1>1, <1>2 DEF TypeOK
<1> QED BY <1>2, <1>3, <1>4, <1>5 DEF Once, Handled, KeysOnce, ToldOnce

(* The call of start_dumpstate_srv goes on without storing or telling. *)
LEMMA CallOnce ==
    ASSUME TypeOK, Once, NEW c \in Crashes, NEW from \in Calling, NEW to, At(c, from, to),
           UNCHANGED <<events, lastcrash, keys, told>>
    PROVE  Once'
<1>1. pc[c] = from /\ pc' = [pc EXCEPT ![c] = to] /\ from # "none" /\ from # "done"
  BY DEF At, Calling
<1>2. \A d \in Crashes : d > lastcrash => pc'[d] = "none"
  BY <1>1 DEF Once, Handled, TypeOK
<1>3. \A d \in Crashes : pc'[d] # "done" => pc[d] # "done"
  BY <1>1 DEF TypeOK
<1> QED BY <1>2, <1>3 DEF Once, Handled, KeysOnce, ToldOnce

(* The call ends and the thread tells by itself. *)
LEMMA SelfOnce ==
    ASSUME TypeOK, Once, NEW c \in Crashes, NEW from \in Calling, At(c, from, "done"),
           TellSelf(c), UNCHANGED <<events, lastcrash, keys>>
    PROVE  Once'
<1>1. pc[c] = from /\ pc' = [pc EXCEPT ![c] = "done"] /\ from # "none" /\ from # "done"
  BY DEF At, Calling
<1>2. CASE UNCHANGED told
  BY <1>2, CallOnce
<1>3. CASE Tell(c, c)
  <2>0. \A i \in 1 .. Len(told) : told[i].key # c
    BY <1>1 DEF Once, Handled
  <2>1. /\ Len(told') = Len(told) + 1 /\ told'[Len(told) + 1].key = c
        /\ \A i \in 1 .. Len(told) : told'[i] = told[i]
        /\ ToldOnce' /\ Len(told) \in Nat
    BY <1>3, <2>0, TellKeeps DEF TypeOK
  <2>2. \A d \in Crashes : d > lastcrash => pc'[d] = "none"
    BY <1>1 DEF Once, Handled, TypeOK
  <2>3. \A d \in Crashes : pc'[d] # "done" => pc[d] # "done" /\ d # c
    BY <1>1 DEF TypeOK
  <2>4. \A s \in Ring : keys[s] # c
    BY <1>1 DEF Once, Handled
  <2>5. Handled'
    BY <2>1, <2>2, <2>3 DEF Once, Handled
  <2>6. KeysOnce'
    BY <2>1, <2>4 DEF Once, KeysOnce
  <2> QED BY <2>1, <2>5, <2>6 DEF Once
<1> QED BY <1>2, <1>3 DEF TellSelf

LEMMA StoreOnce == ASSUME TypeOK, Once, NEW c \in Crashes, StoreKey(c) PROVE Once'
<1>1. /\ pc[c] = "store" /\ pc' = [pc EXCEPT ![c] = "done"]
      /\ keys' = [keys EXCEPT ![index_prod] = c] /\ UNCHANGED <<events, lastcrash, told>>
  BY DEF StoreKey, At
<1>2. /\ index_prod \in Ring /\ c # 0
      /\ \A s \in Ring : keys'[s] = IF s = index_prod THEN c ELSE keys[s]
  BY <1>1, DropboxAssumption DEF TypeOK, Ring, Crashes
<1>3. \A d \in Crashes : pc'[d] # "done" => pc[d] # "done" /\ d # c
  BY <1>1 DEF TypeOK
<1>4. \A d \in Crashes : d > lastcrash => pc'[d] = "none"
  BY <1>1 DEF Once, Handled, TypeOK
<1>5. /\ \A s \in Ring : keys[s] # c
      /\ \A i \in 1 .. Len(told) : told[i].key # c
  BY <1>1 DEF Once, Handled
<1>6. Handled'
  BY <1>1, <1>2, <1>3, <1>4 DEF Once, Handled
<1>7. KeysOnce' /\ ToldOnce'
  BY <1>1, <1>2, <1>5 DEF Once, KeysOnce, ToldOnce
<1> QED BY <1>6, <1>7 DEF Once

(* An event of a dumpstate is dropped. *)
LEMMA DropOnce ==
    ASSUME TypeOK, Once, TakeEvent("dropbox"), UNCHANGED <<lastcrash, pc, keys, told>>
    PROVE  Once'
<1>1. \A i \in 1 .. Len(events') : events'[i].type = "crash" => events'[i].id <= lastcrash'
  BY TakeSeen
<1> QED BY <1>1 DEF Once, Handled, KeysOnce, ToldOnce

(* The key leaves the ring and is told: pc of its crash is done. *)
LEMMA FinalizeOnce == ASSUME TypeOK, Once, Finalize PROVE Once'
<1> DEFINE k == keys[index_cons]
<1>1. /\ k \in Crashes /\ index_cons \in Ring
      /\ \A s \in Ring : keys'[s] = IF s = index_cons THEN 0 ELSE keys[s]
      /\ UNCHANGED <<lastcrash, pc>> /\ Tell(k, Dropbox) /\ k # 0
  BY DropboxAssumption DEF Finalize, TypeOK, Ring, Crashes
<1>2. \A i \in 1 .. Len(told) : told[i].key # k
  BY <1>1 DEF Once, KeysOnce
<1>3. /\ Len(told') = Len(told) + 1 /\ told'[Len(told) + 1].key = k
      /\ \A i \in 1 .. Len(told) : told'[i] = told[i]
      /\ ToldOnce' /\ Len(told) \in Nat
  <2>1. Len(told) \in Nat
    BY DEF TypeOK
  <2> QED BY <1>1, <1>2, <2>1, TellKeeps
<1>4. \A i \in 1 .. Len(events') : events'[i].type = "crash" => events'[i].id <= lastcrash'
  BY <1>1, TakeSeen DEF Finalize
<1>5. pc[k] = "done"
  BY <1>1 DEF Once, Handled
<1>6. \A d \in Crashes : pc'[d] # "done" =>
         /\ \A s \in Ring : keys'[s] # d
         /\ \A i \in 1 .. Len(told') : told'[i].key # d
  BY <1>1, <1>3, <1>5, DropboxAssumption DEF Once, Handled, Crashes
<1>7. Handled'
  BY <1>1, <1>4, <1>6 DEF Once, Handled
<1>8. \A s \in Ring : keys'[s] # 0 => keys[s] = keys'[s] /\ keys'[s] # k
  BY <1>1 DEF Once, KeysOnce
<1>9. KeysOnce'
  BY <1>1, <1>3, <1>8 DEF Once, KeysOnce
<1> QED BY <1>3, <1>7, <1>9 DEF Once

LEMMA RestartOnce == ASSUME TypeOK, Once, Restart PROVE Once'
<1>1. /\ events' = <<>> /\ UNCHANGED <<lastcrash, told>>
      /\ \A s \in Ring : keys'[s] = 0
      /\ \A c \in Crashes : pc'[c] = IF c <= lastcrash THEN "done" ELSE "none"
  BY DEF Restart, Ring
<1>2. \A c \in Crashes : pc'[c] # "done" => c > lastcrash /\ pc'[c] = "none"
  BY <1>1, DropboxAssumption DEF Crashes, TypeOK
<1>3. \A c \in Crashes : c > lastcrash => pc'[c] = "none"
  BY <1>1, DropboxAssumption DEF Crashes, TypeOK
<1>4. \A c \in Crashes : pc'[c] # "done" => pc[c] # "done"
  BY <1>2 DEF Once, Handled
<1>5. Handled'
  BY <1>1, <1>3, <1>4, DropboxAssumption DEF Once, Handled, Crashes
<1> QED BY <1>1, <1>5 DEF Once, KeysOnce, ToldOnce

LEMMA WriteOnce == ASSUME TypeOK, Once, WriteDropbox PROVE Once'
<1>1. UNCHANGED <<lastcrash, pc, keys, told>>
  BY DEF WriteDropbox, daemon
<1>2. \A i \in 1 .. Len(events') : events'[i].type = "crash" => events'[i].id <= lastcrash
  <2> DEFINE x == [type |-> "dropbox", id |-> job]
  <2>1. CASE events' = Append(events, x)
    <3>1. /\ Len(events') = Len(events) + 1 /\ Len(events) \in Nat
          /\ \A i \in 1 .. Len(events) : events'[i] = events[i]
          /\ events'[Len(events) + 1] = x
      BY <2>1 DEF TypeOK
    <3>2. x.type # "crash"
      OBVIOUS
    <3> QED BY <3>1, <3>2 DEF Once, Handled
  <2>2. CASE events' = events
    BY <2>2 DEF Once, Handled
  <2> QED BY <2>1, <2>2 DEF WriteDropbox
<1> QED BY <1>1, <1>2 DEF Once, Handled, KeysOnce, ToldOnce

LEMMA IdleOnce ==
    ASSUME Once, UNCHANGED <<events, lastcrash, pc, keys, told>> PROVE Once'
  BY DEF Once, Handled, KeysOnce, ToldOnce

LEMMA StepOnce == ASSUME TypeOK, Once, [Next]_vars PROVE Once'
<1>1. \A p \in {"check", "request", "watch", "advance", "store"} : p \in Calling
  BY DEF Calling
<1>2. ASSUME NEW c \in Crashes, AlreadyRunning(c) \/ AddWatchFails(c) PROVE Once'
  BY <1>1, <1>2, SelfOnce DEF AlreadyRunning, AddWatchFails
<1>3. ASSUME NEW c \in Crashes,
             CheckRunning(c) \/ Request(c) \/ AddWatch(c) \/ Advance(c)
      PROVE  Once'
  BY <1>1, <1>3, CallOnce DEF CheckRunning, Request, AddWatch, Advance
<1>4. ASSUME NoKeyPending \/ NotBooted PROVE Once'
  BY <1>4, DropOnce DEF NoKeyPending, NotBooted
<1>5. ASSUME BootCompletes \/ SrvStart \/ ReadPath \/ Leave \/ UNCHANGED vars PROVE Once'
  BY <1>5, IdleOnce DEF BootCompletes, SrvStart, ReadPath, Leave, vars, daemon
<1> QED
  BY <1>2, <1>3, <1>4, <1>5, CrashOnce, HandleOnce, StoreOnce, FinalizeOnce,
     RestartOnce, WriteOnce DEF Next

LEMMA Telling == Spec => [](TypeOK /\ Once)
<1>1. Init => TypeOK /\ Once
  BY InitTyped, InitOnce
<1>2. TypeOK /\ Once /\ [Next]_vars => (TypeOK /\ Once)'
  BY StepTyped, StepOnce
<1> QED BY <1>1, <1>2, PTL DEF Spec

(* CrashReport is told of an event once at most, whatever the size of the   *)
(* ring, the races of the handlers and the restarts of the daemon.          *)
THEOREM TellsOnce == Spec => []ToldOnce
<1>1. TypeOK /\ Once => ToldOnce
  BY DEF Once
<1> QED BY <1>1, Telling, PTL
-----------------------------------------------------------------------------
LEMMA AtFacts ==
    ASSUME TypeOK, NEW c \in Crashes, NEW from, NEW to, At(c, from, to)
    PROVE  /\ pc[c] = from
           /\ \A d \in Crashes : pc'[d] = IF d = c THEN to ELSE pc[d]
  BY DEF At, TypeOK

LEMMA InitWatched == Init => Watched
  BY DEF Init, Watched

(* The head of the events is the event of a crash. *)
LEMMA HeadFacts ==
    ASSUME TypeOK, NEW type, TakeEvent(type)
    PROVE  /\ Len(events) \in Nat \ {0} /\ Head(events) = events[1]
           /\ events[1].type = type /\ events[1].id \in Crashes
           /\ Len(events') = Len(events) - 1
           /\ \A i \in 1 .. Len(events) - 1 : events'[i] = events[i + 1]
  BY EventFacts, Taken DEF TakeEvent

LEMMA StepJob ==
    ASSUME TypeOK, Watched, [Next]_vars PROVE svc' = "stopped" => job' = 0
<1>1. CASE ReadPath
  BY <1>1 DEF ReadPath
<1>2. CASE SrvStart
  BY <1>2 DEF SrvStart
<1>3. CASE Leave \/ WriteDropbox
  BY <1>3 DEF Leave, WriteDropbox
<1>4. CASE UNCHANGED <<svc, job>>
  BY <1>4 DEF Watched
<1> QED
  BY <1>1, <1>2, <1>3, <1>4
  DEF Next, Crash, BootCompletes, HandleCrash, AlreadyRunning, CheckRunning, Request,
      AddWatch, AddWatchFails, Advance, StoreKey, NoKeyPending, NotBooted, Finalize,
      Restart, service, vars

(* A step of the call keeps a watched folder's call started, a finished     *)
(* call finished.                                                           *)
LEMMA CallWatched ==
    ASSUME TypeOK, Watched, NEW c \in Crashes, NEW from, NEW to, At(c, from, to),
           from # "done", from \in Started => to \in Started,
           watches' \subseteq watches \cup {d \in Crashes : d = c /\ to \in Started},
           \A i \in 1 .. Len(events') : events'[i].type = "dropbox" =>
              \E j \in 1 .. Len(events) : events'[i] = events[j]
    PROVE  /\ \A d \in watches' : pc'[d] \in Started
           /\ \A i \in 1 .. Len(events') :
                 events'[i].type = "dropbox" => pc'[events'[i].id] = "done"
<1>1. pc[c] = from /\ \A d \in Crashes : pc'[d] = IF d = c THEN to ELSE pc[d]
  BY AtFacts
<1>2. watches \subseteq Crashes
  BY DEF TypeOK
<1>3. ASSUME NEW d \in watches' PROVE pc'[d] \in Started
  BY <1>1, <1>2, <1>3 DEF Watched
<1>4. ASSUME NEW i \in 1 .. Len(events'), events'[i].type = "dropbox"
      PROVE  pc'[events'[i].id] = "done"
  <2>1. PICK j \in 1 .. Len(events) : events'[i] = events[j]
    BY <1>4
  <2>2. events[j].id \in Crashes /\ pc[events[j].id] = "done"
    BY <1>4, <2>1, EventFacts DEF Watched
  <2> QED BY <1>1, <2>1, <2>2
<1> QED BY <1>3, <1>4

LEMMA TakeWatched ==
    ASSUME TypeOK, Watched, TakeEvent("dropbox"), pc' = pc, watches' \subseteq watches
    PROVE  /\ \A d \in watches' : pc'[d] \in Started
           /\ \A i \in 1 .. Len(events') :
                 events'[i].type = "dropbox" => pc'[events'[i].id] = "done"
<1>1. ASSUME NEW i \in 1 .. Len(events'), events'[i].type = "dropbox"
      PROVE  pc[events'[i].id] = "done"
  <2>1. i + 1 \in 1 .. Len(events) /\ events'[i] = events[i + 1]
    BY HeadFacts
  <2> QED BY <1>1, <2>1 DEF Watched
<1> QED BY <1>1 DEF Watched

LEMMA StepWatched == ASSUME TypeOK, Watched, [Next]_vars PROVE Watched'
<1> DEFINE Goal == /\ \A c \in watches' : pc'[c] \in Started
                   /\ \A i \in 1 .. Len(events') :
                         events'[i].type = "dropbox" => pc'[events'[i].id] = "done"
<1> SUFFICES Goal
  BY StepJob DEF Watched
<1>1. CASE UNCHANGED <<events, pc, watches>>
  BY <1>1 DEF Watched
<1>2. CASE Crash
  <2>1. /\ Len(events') = Len(events) + 1 /\ Len(events) \in Nat
        /\ \A i \in 1 .. Len(events) : events'[i] = events[i]
        /\ events'[Len(events) + 1] = [type |-> "crash", id |-> lastcrash + 1]
        /\ UNCHANGED <<pc, watches>>
    BY <1>2, EventFacts DEF Crash, daemon
  <2>2. events'[Len(events) + 1].type # "dropbox"
    BY <2>1
  <2> QED BY <2>1, <2>2 DEF Watched
<1>3. CASE HandleCrash
  <2>1. Head(events).id \in Crashes /\ At(Head(events).id, "none", "check") /\ watches' = watches
    BY <1>3, HeadFacts DEF HandleCrash
  <2>2. \A i \in 1 .. Len(events') : \E j \in 1 .. Len(events) : events'[i] = events[j]
    <3>1. ASSUME NEW i \in 1 .. Len(events')
          PROVE  i + 1 \in 1 .. Len(events) /\ events'[i] = events[i + 1]
      BY <1>3, HeadFacts DEF HandleCrash
    <3> QED BY <3>1
  <2> QED BY <2>1, <2>2, CallWatched DEF Started
<1>4. CASE Restart
  BY <1>4 DEF Restart
<1>5. ASSUME NEW c \in Crashes, AlreadyRunning(c) \/ CheckRunning(c) \/ Request(c) PROVE Goal
  BY <1>5, CallWatched DEF AlreadyRunning, CheckRunning, Request, Started
<1>6. ASSUME NEW c \in Crashes,
             AddWatch(c) \/ AddWatchFails(c) \/ Advance(c) \/ StoreKey(c)
      PROVE  Goal
  BY <1>6, CallWatched DEF AddWatch, AddWatchFails, Advance, StoreKey, Started
<1>7. CASE NoKeyPending \/ NotBooted \/ Finalize
  BY <1>7, TakeWatched DEF NoKeyPending, NotBooted, Finalize
<1>8. CASE WriteDropbox /\ events' # events
  <2> DEFINE x == [type |-> "dropbox", id |-> job]
  <2>1. /\ job \in watches /\ UNCHANGED <<pc, watches>> /\ events' = Append(events, x)
        /\ pc[job] \notin Calling
    BY <1>8 DEF WriteDropbox, daemon
  <2>2. /\ Len(events') = Len(events) + 1 /\ Len(events) \in Nat
        /\ \A i \in 1 .. Len(events) : events'[i] = events[i]
        /\ events'[Len(events) + 1] = x
    BY <2>1, EventFacts
  <2>3. pc[job] = "done"
    BY <2>1 DEF Watched, Started, Calling
  <2>4. x.id = job
    OBVIOUS
  <2> QED BY <2>1, <2>2, <2>3, <2>4 DEF Watched
<1> QED
  BY <1>1, <1>2, <1>3, <1>4, <1>5, <1>6, <1>7, <1>8
  DEF Next, BootCompletes, SrvStart, ReadPath, Leave, WriteDropbox, daemon, vars
-----------------------------------------------------------------------------
LEMMA RestartAlone == ASSUME TypeOK, Restart PROVE Alone'
<1>1. watches' = {} /\ \A c \in Crashes : pc'[c] \in {"done", "none"}
  BY DEF Restart
<1> QED BY <1>1 DEF Alone

(* A call enters or leaves start_dumpstate_srv outside of the part after    *)
(* the request.                                                             *)
LEMMA EnterAlone ==
    ASSUME TypeOK, Alone, NEW c \in Crashes, NEW from, NEW to, At(c, from, to),
           to \notin {"watch", "advance", "store"},
           UNCHANGED <<watches, service>>
    PROVE  Alone'
<1>1. \A d \in Crashes : pc'[d] \in {"watch", "advance", "store"} =>
         pc'[d] = pc[d]
  BY AtFacts
<1> QED BY <1>1 DEF Alone, InFlight, service

LEMMA RequestAlone ==
    ASSUME TypeOK, Watched, Alone, NEW c \in Crashes, Request(c), ~missed'
    PROVE  Alone'
<1>1. /\ ~requested /\ svc = "stopped" /\ job = 0 /\ job' = 0 /\ requested' /\ svc' = "stopped"
      /\ storage' = c /\ watches' = watches
  BY DEF Request, TypeOK, Watched
<1>2. \A d \in Crashes : pc[d] \notin {"watch", "advance", "store"}
  BY <1>1 DEF Alone, InFlight
<1>3. \A d \in Crashes : pc'[d] = IF d = c THEN "watch" ELSE pc[d]
  BY AtFacts DEF Request
<1>4. \A d \in Crashes : pc'[d] \in {"watch", "advance", "store"} => d = c /\ pc'[d] = "watch"
  BY <1>2, <1>3
<1> QED BY <1>1, <1>4 DEF Alone, InFlight

LEMMA CallAlone ==
    ASSUME TypeOK, Watched, Alone, NEW c \in Crashes, AddWatch(c) \/ Advance(c)
    PROVE  Alone'
<1>1. /\ pc[c] \in {"watch", "advance"} /\ UNCHANGED service
      /\ \A d \in Crashes : d # c => pc'[d] = pc[d]
      /\ pc'[c] \in {"advance", "store"} /\ watches' = watches \cup {c}
  <2>1. CASE AddWatch(c)
    BY <2>1, AtFacts DEF AddWatch
  <2>2. CASE Advance(c)
    <3>1. pc[c] = "advance" /\ watches' = watches
      BY <2>2, AtFacts DEF Advance
    <3>2. c \in watches
      BY <3>1 DEF Alone
    <3> QED BY <2>2, <3>1, <3>2, AtFacts DEF Advance
  <2> QED BY <2>1, <2>2
<1>2. /\ storage = c /\ InFlight /\ job \in {0, c} /\ InFlight'
      /\ storage' = storage /\ job' = job /\ requested' = requested /\ svc' = svc
  BY <1>1 DEF Alone, InFlight, service
<1>3. \A d \in Crashes \ {c} : pc'[d] \notin {"watch", "advance", "store"}
  BY <1>1, <1>2 DEF Alone
<1>4. pc[c] = "watch" \/ storage \in watches
  BY <1>1, <1>2 DEF Alone
<1>5. ~(requested /\ svc = "running") /\ (requested => job = 0)
  BY <1>2, <1>4 DEF Alone
<1>6. \A d \in Crashes : pc'[d] \in {"watch", "advance", "store"} =>
         /\ storage' = d /\ InFlight' /\ job' \in {0, d}
         /\ pc'[d] # "watch" => d \in watches'
  BY <1>1, <1>2, <1>3
<1>7. job' # 0 => job' = storage'
  BY <1>2
<1> QED BY <1>2, <1>5, <1>6, <1>7 DEF Alone

LEMMA DropAlone ==
    ASSUME TypeOK, Watched, Alone, TakeEvent("dropbox"), watches' = watches \ {Dropbox},
           UNCHANGED <<pc, service>>
    PROVE  Alone'
<1>1. pc[Dropbox] = "done"
  BY HeadFacts DEF Watched, Dropbox
<1>2. \A d \in Crashes : pc[d] \in {"advance", "store"} /\ d \in watches => d \in watches'
  BY <1>1
<1> QED BY <1>2 DEF Alone, InFlight, service

LEMMA StoreAlone ==
    ASSUME TypeOK, Alone, NEW c \in Crashes, StoreKey(c) PROVE Alone'
  BY EnterAlone DEF StoreKey

LEMMA SrvStartAlone == ASSUME TypeOK, Alone, SrvStart PROVE Alone'
<1>1. /\ InFlight /\ InFlight' /\ ~requested'
      /\ UNCHANGED <<pc, storage, job, watches>>
  BY DEF SrvStart, InFlight, daemon
<1> QED BY <1>1 DEF Alone

LEMMA ReadPathAlone == ASSUME TypeOK, Alone, ReadPath PROVE Alone'
<1>1. /\ InFlight /\ InFlight' /\ requested' = requested /\ svc = "running" /\ svc' = svc
      /\ UNCHANGED <<pc, storage, watches>> /\ job' = storage
  BY DEF ReadPath, InFlight, daemon
<1> QED BY <1>1 DEF Alone

LEMMA WriteAlone == ASSUME TypeOK, Alone, WriteDropbox PROVE Alone'
<1>1. /\ job # 0 /\ pc[job] \notin Calling /\ job' = 0 /\ svc' = "stopped"
      /\ UNCHANGED <<pc, storage, watches, requested>>
  BY DEF WriteDropbox, daemon
<1>2. \A d \in Crashes : pc[d] \notin {"watch", "advance", "store"}
  BY <1>1 DEF Alone, Calling
<1> QED BY <1>1, <1>2 DEF Alone

LEMMA StepAlone ==
    ASSUME TypeOK, Watched, [Next]_vars, ~missed => Alone
    PROVE  ~missed' => Alone'
<1> SUFFICES ASSUME ~missed' PROVE Alone'
  OBVIOUS
<1>1. CASE Restart
  BY <1>1, RestartAlone
<1>2. CASE ~Restart
  <2>1. ~missed
    BY <1>2
    DEF Next, Crash, BootCompletes, HandleCrash, AlreadyRunning, CheckRunning, Request,
        AddWatch, AddWatchFails, Advance, StoreKey, NoKeyPending, NotBooted, Finalize,
        SrvStart, ReadPath, Leave, WriteDropbox, vars
  <2>2. Alone
    BY <2>1
  <2>3. CASE UNCHANGED <<pc, watches, service>>
    BY <2>2, <2>3 DEF Alone, InFlight, service
  <2>4. CASE HandleCrash
    BY <2>2, <2>4, EnterAlone, HeadFacts DEF HandleCrash
  <2>5. ASSUME NEW c \in Crashes, AlreadyRunning(c) \/ CheckRunning(c) \/ AddWatchFails(c)
        PROVE  Alone'
    BY <2>2, <2>5, EnterAlone DEF AlreadyRunning, CheckRunning, AddWatchFails
  <2>6. CASE NoKeyPending \/ NotBooted \/ Finalize
    BY <2>2, <2>6, DropAlone DEF NoKeyPending, NotBooted, Finalize
  <2>7. CASE Leave
    BY <2>7 DEF Leave
  <2> QED
    BY <1>2, <2>2, <2>3, <2>4, <2>5, <2>6, <2>7, RequestAlone, CallAlone, StoreAlone,
       SrvStartAlone, ReadPathAlone, WriteAlone
    DEF Next, Crash, BootCompletes, daemon, vars
<1> QED BY <1>1, <1>2
-----------------------------------------------------------------------------
(* The slots counted from the consumer's. *)
LEMMA SlotFacts ==
    ASSUME index_cons \in Ring
    PROVE  /\ \A k \in 0 .. Slots : Slot(k) \in Ring
           /\ \A k, l \in 0 .. Slots - 1 : Slot(k) = Slot(l) => k = l
           /\ Slot(0) = index_cons /\ Slot(Slots) = index_cons
           /\ \A k \in 0 .. Slots - 1 :
                 Slot(k + 1) = IF Slot(k) = Slots - 1 THEN 0 ELSE Slot(k) + 1
  BY DropboxAssumption DEF Slot, Ring

LEMMA SlotShift ==
    ASSUME index_cons \in Ring, index_cons' = (index_cons + 1) % Slots
    PROVE  \A k \in 0 .. Slots - 1 : Slot(k)' = Slot(k + 1)
<1>1. index_cons' = IF index_cons = Slots - 1 THEN 0 ELSE index_cons + 1
  BY NextSlot
<1> QED BY <1>1, DropboxAssumption DEF Slot, Ring

LEMMA SlotSame ==
    ASSUME index_cons' = index_cons PROVE \A k : Slot(k)' = Slot(k)
  BY DEF Slot

(* When nothing was missed the event of a dumpstate finds its key. *)
LEMMA HeadKey ==
    ASSUME TypeOK, Matched, events # <<>>, Head(events).type = "dropbox"
    PROVE  keys[index_cons] = Head(events).id
<1>1. PICK n \in 0 .. Slots, rank \in [1 .. Len(events) + 1 -> 0 .. Slots] :
         Ranks(rank) /\ Filled(n) /\ Paired(n, rank)
  BY DEF Matched
<1>2. 1 \in 1 .. Len(events) /\ Head(events) = events[1]
  BY EventFacts, Taken
<1>3. keys[Slot(rank[1])] = events[1].id
  BY <1>1, <1>2 DEF Paired
<1>4. rank[1] = 0 /\ Slot(0) = index_cons
  BY <1>1, SlotFacts DEF Ranks, TypeOK, Ring
<1> QED BY <1>2, <1>3, <1>4

LEMMA InitMatched == ASSUME Init PROVE Alone /\ Matched
<1>1. Alone
  BY DropboxAssumption DEF Init, Alone, InFlight
<1> DEFINE r == [i \in 1 .. 1 |-> 0]
<1>2. Len(events) = 0 /\ ~Held /\ ~Storing
  BY DEF Init, Held, Storing, InFlight
<1>3. r \in [1 .. Len(events) + 1 -> 0 .. Slots] /\ r[1] = 0
  BY <1>2, DropboxAssumption
<1>4. Ranks(r)
  BY <1>2, <1>3 DEF Ranks
<1>5. index_cons = 0 /\ index_prod = Slots - 1 /\ \A s \in Ring : keys[s] = 0
  BY DEF Init, Ring
<1>6. Filled(0)
  <2>1. \A k \in 0 .. Slots - 1 : Slot(k) = k
    BY <1>5, DropboxAssumption DEF Slot
  <2> QED BY <1>2, <1>5, <2>1, DropboxAssumption DEF Filled, Ring
<1>7. Paired(0, r)
  BY <1>2, <1>3 DEF Paired
<1>8. 0 \in 0 .. Slots
  BY DropboxAssumption
<1> QED BY <1>1, <1>3, <1>4, <1>6, <1>7, <1>8 DEF Matched

(* The ring is empty again. *)
LEMMA RestartMatched == ASSUME TypeOK, Restart PROVE Matched'
<1> DEFINE r == [i \in 1 .. 1 |-> 0]
<1>1. /\ index_cons' = 0 /\ index_prod' = Slots - 1 /\ \A s \in Ring : keys'[s] = 0
      /\ events' = <<>> /\ watches' = {} /\ \A c \in Crashes : pc'[c] # "store"
  BY DEF Restart, Ring
<1>2. Len(events') = 0 /\ ~Held' /\ ~Storing'
  BY <1>1 DEF Held, Storing
<1>3. r \in [1 .. Len(events') + 1 -> 0 .. Slots] /\ r[1] = 0
  BY <1>2, DropboxAssumption
<1>4. Ranks(r)'
  BY <1>2, <1>3 DEF Ranks
<1>5. \A k \in 0 .. Slots - 1 : Slot(k)' = k
  BY <1>1, DropboxAssumption DEF Slot
<1>6. Filled(0)'
  BY <1>1, <1>2, <1>5, DropboxAssumption DEF Filled, Ring
<1>7. Paired(0, r)'
  BY <1>2, <1>3 DEF Paired
<1>8. 0 \in 0 .. Slots
  BY DropboxAssumption
<1> QED BY <1>3, <1>4, <1>6, <1>7, <1>8 DEF Matched

(* The ring stays, and so do the events of the dumpstates.                  *)
LEMMA SameMatched ==
    ASSUME TypeOK, Matched, UNCHANGED <<events, keys, index_prod, index_cons>>,
           Storing' <=> Storing, Held' <=> Held, Held => storage' = storage
    PROVE  Matched'
<1>1. PICK n \in 0 .. Slots, rank \in [1 .. Len(events) + 1 -> 0 .. Slots] :
         Ranks(rank) /\ Filled(n) /\ Paired(n, rank)
  BY DEF Matched
<1>2. \A k : Slot(k)' = Slot(k)
  BY SlotSame
<1>3. Ranks(rank)'
  BY <1>1 DEF Ranks
<1>4. Filled(n)'
  BY <1>1, <1>2 DEF Filled
<1>5. Paired(n, rank)'
  BY <1>1, <1>2 DEF Paired
<1> QED BY <1>1, <1>3, <1>4, <1>5 DEF Matched

LEMMA CrashMatched == ASSUME TypeOK, Matched, Crash PROVE Matched'
<1>1. PICK n \in 0 .. Slots, rank \in [1 .. Len(events) + 1 -> 0 .. Slots] :
         Ranks(rank) /\ Filled(n) /\ Paired(n, rank)
  BY DEF Matched
<1>2. \A k : Slot(k)' = Slot(k)
  BY SlotSame DEF Crash, daemon
<1> DEFINE L == Len(events)
<1>3. /\ Len(events') = L + 1 /\ L \in Nat
      /\ \A i \in 1 .. L : events'[i] = events[i]
      /\ events'[L + 1] = [type |-> "crash", id |-> lastcrash + 1]
      /\ UNCHANGED <<pc, keys, index_prod, index_cons, storage, requested, svc, watches>>
  BY EventFacts DEF Crash, daemon, service
<1>4. events'[L + 1].type = "crash"
  BY <1>3
<1>5. PICK r \in [1 .. Len(events') + 1 -> 0 .. Slots] :
         r[L + 2] = rank[L + 1] /\ \A i \in 1 .. L + 1 : r[i] = rank[i]
  <2> DEFINE q == [i \in 1 .. L + 2 |-> IF i = L + 2 THEN rank[L + 1] ELSE rank[i]]
  <2>1. /\ q \in [1 .. Len(events') + 1 -> 0 .. Slots]
        /\ q[L + 2] = rank[L + 1] /\ \A i \in 1 .. L + 1 : q[i] = rank[i]
    BY <1>3
  <2> QED BY <2>1
<1>6. \A i \in 1 .. L + 1 : rank[i] \in 0 .. Slots
  OBVIOUS
<1>7. Ranks(r)'
  <2>1. r[1] = 0
    BY <1>1, <1>3, <1>5, <1>6 DEF Ranks
  <2>2. \A i, j \in 1 .. L + 2 : i <= j => r[i] <= r[j]
    <3>1. \A i \in 1 .. L + 1 : rank[i] <= rank[L + 1]
      BY <1>1, <1>3 DEF Ranks
    <3> QED BY <1>1, <1>3, <1>5, <1>6, <3>1 DEF Ranks
  <2>3. \A i \in 1 .. L + 1 :
           r[i + 1] = IF events'[i].type = "dropbox" THEN r[i] + 1 ELSE r[i]
    <3> TAKE i \in 1 .. L + 1
    <3>1. CASE i \in 1 .. L
      <4>1. events'[i].type = events[i].type /\ r[i] = rank[i] /\ r[i + 1] = rank[i + 1]
        BY <1>3, <1>5, <3>1
      <4> QED BY <1>1, <3>1, <4>1 DEF Ranks
    <3>2. CASE i = L + 1
      BY <1>3, <1>4, <1>5, <3>2
    <3> QED BY <1>3, <3>1, <3>2
  <2> QED BY <1>3, <2>1, <2>2, <2>3 DEF Ranks
<1>8. Filled(n)'
  BY <1>1, <1>2, <1>3 DEF Filled, Storing
<1>9. Paired(n, r)'
  <2>1. Held' <=> Held
    BY <1>3 DEF Held, InFlight
  <2>2. \A i \in 1 .. L + 1 : events'[i].type = "dropbox" =>
           r[i] < n /\ keys[Slot(r[i])] = events'[i].id
    <3> TAKE i \in 1 .. L + 1
    <3>1. CASE i \in 1 .. L
      <4>1. events'[i] = events[i] /\ r[i] = rank[i]
        BY <1>3, <1>5, <3>1
      <4> QED BY <1>1, <3>1, <4>1 DEF Paired
    <3>2. CASE i = L + 1
      BY <1>4, <3>2
    <3> QED BY <1>3, <3>1, <3>2
  <2>3. r[Len(events') + 1] = rank[L + 1]
    BY <1>3, <1>5, <1>6
  <2> QED BY <1>1, <1>2, <1>3, <2>1, <2>2, <2>3 DEF Paired
<1> QED BY <1>1, <1>5, <1>7, <1>8, <1>9 DEF Matched

LEMMA HandleMatched == ASSUME TypeOK, Matched, HandleCrash PROVE Matched'
<1>1. PICK n \in 0 .. Slots, rank \in [1 .. Len(events) + 1 -> 0 .. Slots] :
         Ranks(rank) /\ Filled(n) /\ Paired(n, rank)
  BY DEF Matched
<1>2. \A k : Slot(k)' = Slot(k)
  BY SlotSame DEF HandleCrash
<1> DEFINE L == Len(events)
<1>3. /\ L \in Nat \ {0} /\ Len(events') = L - 1 /\ events[1].type = "crash"
      /\ \A i \in 1 .. L - 1 : events'[i] = events[i + 1]
      /\ Head(events).id \in Crashes
      /\ UNCHANGED <<keys, index_prod, index_cons, storage, requested, svc, watches>>
  BY HeadFacts DEF HandleCrash, service
<1>4. PICK r \in [1 .. Len(events') + 1 -> 0 .. Slots] : \A i \in 1 .. L : r[i] = rank[i + 1]
  <2> DEFINE q == [i \in 1 .. L |-> rank[i + 1]]
  <2>1. q \in [1 .. Len(events') + 1 -> 0 .. Slots] /\ \A i \in 1 .. L : q[i] = rank[i + 1]
    BY <1>3
  <2> QED BY <2>1
<1>5. \A i \in 1 .. L + 1 : rank[i] \in 0 .. Slots
  OBVIOUS
<1>6. Ranks(r)'
  <2>1. r[1] = 0
    BY <1>1, <1>3, <1>4 DEF Ranks
  <2>2. \A i, j \in 1 .. L : i <= j => r[i] <= r[j]
    BY <1>1, <1>3, <1>4 DEF Ranks
  <2>3. \A i \in 1 .. L - 1 :
           r[i + 1] = IF events'[i].type = "dropbox" THEN r[i] + 1 ELSE r[i]
    <3> TAKE i \in 1 .. L - 1
    <3>1. i + 1 \in 1 .. L /\ i \in 1 .. L /\ events'[i] = events[i + 1]
      BY <1>3
    <3>2. r[i] = rank[i + 1] /\ r[i + 1] = rank[(i + 1) + 1]
      BY <1>4, <3>1
    <3> QED BY <1>1, <3>1, <3>2 DEF Ranks
  <2> QED BY <1>3, <2>1, <2>2, <2>3 DEF Ranks
<1>7. \A d \in Crashes :
         (pc'[d] = "store" <=> pc[d] = "store") /\ (pc'[d] = "done" <=> pc[d] = "done")
  <2>1. At(Head(events).id, "none", "check")
    BY DEF HandleCrash
  <2> QED BY <1>3, <2>1, AtFacts
<1>8. Filled(n)'
  <2>1. Storing' <=> Storing
    BY <1>7 DEF Storing
  <2> QED BY <1>1, <1>2, <1>3, <2>1 DEF Filled
<1>9. Paired(n, r)'
  <2>1. Held' <=> Held
    BY <1>3, <1>7 DEF Held, InFlight, TypeOK
  <2>2. \A i \in 1 .. L - 1 : events'[i].type = "dropbox" =>
           r[i] < n /\ keys[Slot(r[i])] = events'[i].id
    <3> TAKE i \in 1 .. L - 1
    <3>1. i + 1 \in 1 .. L /\ events'[i] = events[i + 1] /\ r[i] = rank[i + 1]
      BY <1>3, <1>4
    <3> QED BY <1>1, <3>1 DEF Paired
  <2>3. r[Len(events') + 1] = rank[L + 1]
    BY <1>3, <1>4
  <2> QED BY <1>1, <1>2, <1>3, <2>1, <2>2, <2>3 DEF Paired
<1> QED BY <1>1, <1>4, <1>6, <1>8, <1>9 DEF Matched

(* The part of the call before the request: its folder is not watched.      *)
LEMMA EnterMatched ==
    ASSUME TypeOK, Watched, Matched, NEW c \in Crashes,
           AlreadyRunning(c) \/ CheckRunning(c)
    PROVE  Matched'
<1>1. pc[c] = "check" /\ \A d \in Crashes : d # c => pc'[d] = pc[d]
  BY AtFacts DEF AlreadyRunning, CheckRunning
<1>2. pc'[c] # "store" /\ c \notin watches
  BY <1>1, AtFacts DEF AlreadyRunning, CheckRunning, Watched, Started
<1>3. UNCHANGED <<events, keys, index_prod, index_cons, watches, storage, requested, svc>>
  BY DEF AlreadyRunning, CheckRunning, service
<1>4. Storing' <=> Storing
  BY <1>1, <1>2 DEF Storing
<1>5. Held' <=> Held
  BY <1>1, <1>2, <1>3 DEF Held, InFlight, TypeOK
<1> QED BY <1>3, <1>4, <1>5, SameMatched

(* No dumpstate is under way before the request; the one asked for has no   *)
(* key in the ring before the call stores it.                               *)
LEMMA RequestMatched ==
    ASSUME TypeOK, Watched, Matched, NEW c \in Crashes, Request(c), ~missed'
    PROVE  Matched'
<1>1. ~InFlight /\ storage' = c
      /\ UNCHANGED <<events, keys, index_prod, index_cons>>
  BY DEF Request, InFlight
<1>2. pc[c] = "request" /\ \A d \in Crashes : pc'[d] = IF d = c THEN "watch" ELSE pc[d]
  BY AtFacts DEF Request
<1>3. Storing' <=> Storing
  BY <1>2 DEF Storing
<1>4. ~Held /\ ~Held'
  BY <1>1, <1>2 DEF Held
<1> QED BY <1>1, <1>3, <1>4, SameMatched

LEMMA WatchMatched ==
    ASSUME TypeOK, Watched, Alone, Matched, NEW c \in Crashes,
           AddWatch(c) \/ AddWatchFails(c)
    PROVE  Matched'
<1>1. pc[c] = "watch" /\ \A d \in Crashes : d # c => pc'[d] = pc[d]
  BY AtFacts DEF AddWatch, AddWatchFails
<1>2. storage = c
  BY <1>1 DEF Alone
<1>3. UNCHANGED <<events, keys, index_prod, index_cons, storage>>
  BY DEF AddWatch, AddWatchFails, service
<1>4. pc'[c] # "store"
  BY AtFacts DEF AddWatch, AddWatchFails
<1>5. Storing' <=> Storing
  BY <1>1, <1>4 DEF Storing
<1>6. ~Held
  BY <1>1, <1>2 DEF Held
<1>7. ~Held'
  <2>1. CASE AddWatch(c)
    BY <1>2, <1>3, <2>1, AtFacts DEF AddWatch, Held
  <2>2. CASE AddWatchFails(c)
    BY <1>1, <1>2, <1>3, <2>2 DEF AddWatchFails, Held, Watched, Started
  <2> QED BY <2>1, <2>2
<1> QED BY <1>3, <1>5, <1>6, <1>7, SameMatched

LEMMA AdvanceMatched ==
    ASSUME TypeOK, Alone, Matched, NEW c \in Crashes, Advance(c)
    PROVE  Matched'
<1>1. PICK n \in 0 .. Slots, rank \in [1 .. Len(events) + 1 -> 0 .. Slots] :
         Ranks(rank) /\ Filled(n) /\ Paired(n, rank)
  BY DEF Matched
<1>2. \A k : Slot(k)' = Slot(k)
  BY SlotSame DEF Advance
<1>3. pc[c] = "advance" /\ \A d \in Crashes : pc'[d] = IF d = c THEN "store" ELSE pc[d]
  BY AtFacts DEF Advance
<1>4. storage = c
  BY <1>3 DEF Alone
<1>5. ~Storing /\ Storing'
  BY <1>3, <1>4 DEF Storing, Alone
<1>6. UNCHANGED <<events, keys, index_cons, storage>>
      /\ index_prod' = IF index_prod = Slots - 1 THEN 0 ELSE index_prod + 1
  BY NextSlot DEF Advance, service, TypeOK, Ring
<1>7. ~Held /\ ~Held'
  BY <1>3, <1>4, <1>6 DEF Held
<1>8. Ranks(rank)'
  BY <1>1, <1>6 DEF Ranks
<1>9. Filled(n)'
  BY <1>1, <1>2, <1>5, <1>6 DEF Filled
<1>10. Paired(n, rank)'
  BY <1>1, <1>2, <1>6, <1>7 DEF Paired
<1> QED BY <1>1, <1>6, <1>8, <1>9, <1>10 DEF Matched

LEMMA StoreMatched ==
    ASSUME TypeOK, Alone, Matched, NEW c \in Crashes, StoreKey(c), ~missed'
    PROVE  Matched'
<1>1. PICK n \in 0 .. Slots, rank \in [1 .. Len(events) + 1 -> 0 .. Slots] :
         Ranks(rank) /\ Filled(n) /\ Paired(n, rank)
  BY DEF Matched
<1>2. \A k : Slot(k)' = Slot(k)
  BY SlotSame DEF StoreKey
<1>3. pc[c] = "store" /\ \A d \in Crashes : pc'[d] = IF d = c THEN "done" ELSE pc[d]
  BY AtFacts DEF StoreKey
<1>4. storage = c /\ c \in watches /\ InFlight
  BY <1>3 DEF Alone
<1>5. Storing /\ ~Storing'
  BY <1>3, <1>4 DEF Storing, Alone
<1>6. /\ UNCHANGED <<events, index_prod, index_cons, storage, watches, requested, svc>>
      /\ keys[index_prod] = 0 /\ c # 0
      /\ \A s \in Ring : keys'[s] = IF s = index_prod THEN c ELSE keys[s]
  <2>1. keys[index_prod] = 0 /\ c # 0
    <3>1. missed' = (missed \/ keys[index_prod] # 0)
      BY DEF StoreKey
    <3>2. keys[index_prod] = 0
      BY <3>1
    <3> QED BY <3>2, DropboxAssumption DEF Crashes
  <2>2. /\ UNCHANGED <<events, index_prod, index_cons, storage, watches, requested, svc>>
        /\ keys' = [keys EXCEPT ![index_prod] = c]
    BY DEF StoreKey, service
  <2> QED BY <2>1, <2>2 DEF TypeOK, Ring
<1>7. ~Held /\ Held'
  BY <1>3, <1>4, <1>6 DEF Held, InFlight
<1>8. Slot(n) = index_prod
  BY <1>1, <1>5 DEF Filled
<1>9. /\ \A k \in 0 .. Slots : Slot(k) \in Ring
      /\ \A k, l \in 0 .. Slots - 1 : Slot(k) = Slot(l) => k = l
      /\ Slot(0) = index_cons /\ Slot(Slots) = index_cons
      /\ \A k \in 0 .. Slots - 1 :
            Slot(k + 1) = IF Slot(k) = Slots - 1 THEN 0 ELSE Slot(k) + 1
      /\ Slots \in Nat \ {0}
  BY SlotFacts, DropboxAssumption DEF TypeOK, Ring
<1>10. n \in 0 .. Slots - 1
  <2>1. SUFFICES ASSUME n = Slots PROVE FALSE
    BY <1>9
  <2>2. keys[Slot(0)] # 0
    BY <1>1, <1>9, <2>1 DEF Filled
  <2> QED BY <1>6, <1>8, <1>9, <2>1, <2>2
<1>11. \A k \in 0 .. Slots - 1 : keys'[Slot(k)] = IF k = n THEN c ELSE keys[Slot(k)]
  BY <1>6, <1>8, <1>9, <1>10
<1>12. Ranks(rank)'
  BY <1>1, <1>6 DEF Ranks
<1>13. Filled(n + 1)'
  <2>1. \A k \in 0 .. n : keys'[Slot(k)] # 0
    <3>1. \A k \in 0 .. n : k = n \/ k \in 0 .. n - 1
      BY <1>10
    <3>2. \A k \in 0 .. n : k \in 0 .. Slots - 1
      BY <1>9, <1>10
    <3> QED BY <1>1, <1>6, <1>11, <3>1, <3>2 DEF Filled
  <2>2. \A k \in n + 1 .. Slots - 1 : keys'[Slot(k)] = 0
    BY <1>1, <1>10, <1>11 DEF Filled
  <2>3. Slot(n + 1) = IF index_prod = Slots - 1 THEN 0 ELSE index_prod + 1
    BY <1>8, <1>9, <1>10
  <2>4. \A k \in 0 .. (n + 1) - 1 : k \in 0 .. n
    BY <1>10
  <2> QED BY <1>2, <1>5, <1>6, <2>1, <2>2, <2>3, <2>4 DEF Filled
<1>14. Paired(n + 1, rank)'
  <2>1. \A i \in 1 .. Len(events) : events[i].type = "dropbox" =>
           rank[i] < n + 1 /\ keys'[Slot(rank[i])] = events[i].id
    <3> SUFFICES ASSUME NEW i \in 1 .. Len(events), events[i].type = "dropbox"
                 PROVE  rank[i] < n + 1 /\ keys'[Slot(rank[i])] = events[i].id
      OBVIOUS
    <3>1. rank[i] < n /\ keys[Slot(rank[i])] = events[i].id
      BY <1>1 DEF Paired
    <3>2. rank[i] \in 0 .. Slots
      BY EventFacts
    <3>3. rank[i] \in 0 .. Slots - 1 /\ rank[i] # n
      BY <1>9, <1>10, <3>1, <3>2
    <3> QED BY <1>10, <1>11, <3>1, <3>3
  <2>2. n = rank[Len(events) + 1]
    BY <1>1, <1>7 DEF Paired
  <2>3. keys'[Slot((n + 1) - 1)] = c
    <3>1. (n + 1) - 1 = n
      BY <1>10
    <3> QED BY <1>10, <1>11, <3>1
  <2> QED BY <1>2, <1>4, <1>6, <1>7, <2>1, <2>2, <2>3 DEF Paired
<1>15. n + 1 \in 0 .. Slots
  BY <1>9, <1>10
<1> QED BY <1>6, <1>12, <1>13, <1>14, <1>15 DEF Matched

LEMMA FinalizeMatched ==
    ASSUME TypeOK, Once, Watched, Matched, Finalize
    PROVE  Matched'
<1>1. PICK n \in 0 .. Slots, rank \in [1 .. Len(events) + 1 -> 0 .. Slots] :
         Ranks(rank) /\ Filled(n) /\ Paired(n, rank)
  BY DEF Matched
<1> DEFINE L == Len(events)
<1>2. /\ L \in Nat \ {0} /\ Len(events') = L - 1 /\ events[1].type = "dropbox"
      /\ \A i \in 1 .. L - 1 : events'[i] = events[i + 1]
      /\ Dropbox = events[1].id
  BY HeadFacts DEF Finalize, Dropbox
<1>3. /\ UNCHANGED <<pc, index_prod, storage, requested, svc>>
      /\ index_cons' = (index_cons + 1) % Slots /\ watches' = watches \ {Dropbox}
      /\ \A s \in Ring : keys'[s] = IF s = index_cons THEN 0 ELSE keys[s]
  BY DEF Finalize, service, TypeOK, Ring
<1>4. \A k \in 0 .. Slots - 1 : Slot(k)' = Slot(k + 1)
  BY <1>3, SlotShift DEF TypeOK, Ring
<1>5. /\ \A k \in 0 .. Slots : Slot(k) \in Ring
      /\ \A k, l \in 0 .. Slots - 1 : Slot(k) = Slot(l) => k = l
      /\ Slot(0) = index_cons /\ Slot(Slots) = index_cons
      /\ Slots \in Nat \ {0}
  BY SlotFacts, DropboxAssumption DEF TypeOK, Ring
<1>6. \A i \in 1 .. L + 1 : rank[i] \in 0 .. Slots
  OBVIOUS
<1>7. rank[1] = 0 /\ rank[2] = 1 /\ \A i \in 2 .. L + 1 : rank[i] >= 1
  <2>1. rank[1] = 0 /\ rank[2] = 1
    BY <1>1, <1>2 DEF Ranks
  <2>2. \A i \in 2 .. L + 1 : rank[2] <= rank[i]
    BY <1>1, <1>2 DEF Ranks
  <2> QED BY <1>2, <1>6, <2>1, <2>2
<1>8. n >= 1 /\ keys[Slot(0)] = Dropbox /\ Dropbox \in Crashes
  <2>1. rank[1] < n /\ keys[Slot(rank[1])] = events[1].id
    BY <1>1, <1>2 DEF Paired
  <2> QED BY <1>2, <1>7, <2>1, EventFacts
<1>9. \A k \in 1 .. Slots - 1 : keys'[Slot(k)] = keys[Slot(k)]
  <2> TAKE k \in 1 .. Slots - 1
  <2>1. Slot(k) # Slot(0) /\ Slot(k) \in Ring
    BY <1>5
  <2> QED BY <1>3, <1>5, <2>1
<1>10. keys'[index_cons] = 0
  BY <1>3, <1>5
<1>11. Held' <=> Held
  <2>1. ASSUME Held PROVE storage # Dropbox
    <3>1. n = rank[L + 1] + 1 /\ keys[Slot(n - 1)] = storage
      BY <1>1, <2>1 DEF Paired
    <3>2. n - 1 \in 1 .. Slots - 1
      BY <1>2, <1>5, <1>6, <1>7, <3>1
    <3>3. Slot(n - 1) # Slot(0) /\ Slot(n - 1) \in Ring /\ Slot(0) \in Ring
      BY <1>5, <3>2
    <3>4. Dropbox # 0
      BY <1>8, DropboxAssumption DEF Crashes
    <3> QED BY <1>8, <3>1, <3>3, <3>4 DEF Once, KeysOnce
  <2> QED BY <1>3, <2>1 DEF Held, InFlight
<1>12. PICK r \in [1 .. Len(events') + 1 -> 0 .. Slots] : \A i \in 1 .. L : r[i] = rank[i + 1] - 1
  <2> DEFINE q == [i \in 1 .. L |-> rank[i + 1] - 1]
  <2>1. \A i \in 1 .. L : rank[i + 1] - 1 \in 0 .. Slots
    <3> TAKE i \in 1 .. L
    <3>1. i + 1 \in 2 .. L + 1 /\ i + 1 \in 1 .. L + 1
      BY <1>2
    <3>2. rank[i + 1] \in 0 .. Slots /\ rank[i + 1] >= 1
      BY <1>6, <1>7, <3>1
    <3> QED BY <1>5, <3>2
  <2>2. q \in [1 .. Len(events') + 1 -> 0 .. Slots] /\ \A i \in 1 .. L : q[i] = rank[i + 1] - 1
    BY <1>2, <2>1
  <2> QED BY <2>2
<1>13. Ranks(r)'
  <2>1. r[1] = 0
    BY <1>2, <1>7, <1>12
  <2>2. \A i, j \in 1 .. L : i <= j => r[i] <= r[j]
    <3>1. \A i, j \in 1 .. L : i <= j => rank[i + 1] <= rank[j + 1]
      BY <1>1, <1>2 DEF Ranks
    <3>2. \A i \in 1 .. L : rank[i + 1] \in Int
      BY <1>2, <1>5, <1>6
    <3> QED BY <1>12, <3>1, <3>2
  <2>3. \A i \in 1 .. L - 1 :
           r[i + 1] = IF events'[i].type = "dropbox" THEN r[i] + 1 ELSE r[i]
    <3> TAKE i \in 1 .. L - 1
    <3>1. i + 1 \in 1 .. L /\ i \in 1 .. L /\ events'[i] = events[i + 1]
      BY <1>2
    <3>2. rank[(i + 1) + 1] = IF events[i + 1].type = "dropbox"
                              THEN rank[i + 1] + 1 ELSE rank[i + 1]
      BY <1>1, <3>1 DEF Ranks
    <3>3. r[i + 1] = rank[(i + 1) + 1] - 1 /\ r[i] = rank[i + 1] - 1
      BY <1>12, <3>1
    <3>4. rank[i + 1] \in Int
      BY <1>2, <1>5, <1>6, <3>1
    <3> QED BY <3>1, <3>2, <3>3, <3>4
  <2> QED BY <1>2, <2>1, <2>2, <2>3 DEF Ranks
<1>14. Filled(n - 1)'
  <2>1. \A k \in 0 .. (n - 1) - 1 : keys'[Slot(k)'] # 0
    <3> TAKE k \in 0 .. (n - 1) - 1
    <3>1. k + 1 \in 0 .. n - 1 /\ k + 1 \in 1 .. Slots - 1 /\ k \in 0 .. Slots - 1
      BY <1>5
    <3> QED BY <1>1, <1>4, <1>9, <3>1 DEF Filled
  <2>2. \A k \in n - 1 .. Slots - 1 : keys'[Slot(k)'] = 0
    <3> TAKE k \in n - 1 .. Slots - 1
    <3>1. k \in 0 .. Slots - 1
      BY <1>5, <1>8
    <3>2. CASE k = Slots - 1
      BY <1>4, <1>5, <1>10, <3>1, <3>2
    <3>3. CASE k # Slots - 1
      <4>1. k + 1 \in n .. Slots - 1 /\ k + 1 \in 1 .. Slots - 1
        BY <1>5, <1>8, <3>1, <3>3
      <4> QED BY <1>1, <1>4, <1>9, <3>1, <4>1 DEF Filled
    <3> QED BY <3>2, <3>3
  <2>3. Slot(n - 1)' = Slot(n)
    <3>1. n - 1 \in 0 .. Slots - 1 /\ (n - 1) + 1 = n
      BY <1>5, <1>8
    <3> QED BY <1>4, <3>1
  <2>4. Storing' <=> Storing
    BY <1>3 DEF Storing
  <2> QED BY <1>1, <1>3, <2>1, <2>2, <2>3, <2>4 DEF Filled
<1>15. Paired(n - 1, r)'
  <2>1. \A i \in 1 .. L - 1 : events'[i].type = "dropbox" =>
           r[i] < n - 1 /\ keys'[Slot(r[i])'] = events'[i].id
    <3> SUFFICES ASSUME NEW i \in 1 .. L - 1, events'[i].type = "dropbox"
                 PROVE  r[i] < n - 1 /\ keys'[Slot(r[i])'] = events'[i].id
      OBVIOUS
    <3>1. i + 1 \in 1 .. L /\ i + 1 \in 2 .. L + 1 /\ i \in 1 .. L /\ events'[i] = events[i + 1]
      BY <1>2
    <3>2. rank[i + 1] < n /\ keys[Slot(rank[i + 1])] = events[i + 1].id
      BY <1>1, <3>1 DEF Paired
    <3>3. rank[i + 1] \in 0 .. Slots /\ rank[i + 1] >= 1 /\ r[i] = rank[i + 1] - 1
      BY <1>2, <1>6, <1>7, <1>12, <3>1
    <3>4. /\ rank[i + 1] \in 1 .. Slots - 1 /\ r[i] \in 0 .. Slots - 1
          /\ r[i] + 1 = rank[i + 1] /\ r[i] < n - 1
      BY <1>5, <3>2, <3>3
    <3> QED BY <1>4, <1>9, <3>1, <3>2, <3>4
  <2>2. r[Len(events') + 1] = rank[L + 1] - 1 /\ rank[L + 1] \in Int
    <3>1. Len(events') + 1 = L /\ L \in 1 .. L /\ L + 1 \in 1 .. L + 1
      BY <1>2
    <3> QED BY <1>5, <1>6, <1>12, <3>1
  <2>3. n - 1 = IF Held' THEN r[Len(events') + 1] + 1 ELSE r[Len(events') + 1]
    <3>1. n = IF Held THEN rank[L + 1] + 1 ELSE rank[L + 1]
      BY <1>1 DEF Paired
    <3> QED BY <1>11, <2>2, <3>1
  <2>4. Held' => keys'[Slot((n - 1) - 1)'] = storage'
    <3> SUFFICES ASSUME Held PROVE keys'[Slot((n - 1) - 1)'] = storage
      BY <1>3, <1>11
    <3>1. n = rank[L + 1] + 1 /\ keys[Slot(n - 1)] = storage
      BY <1>1 DEF Paired
    <3>2. /\ n - 1 \in 1 .. Slots - 1 /\ (n - 1) - 1 \in 0 .. Slots - 1
          /\ ((n - 1) - 1) + 1 = n - 1
      <4>1. rank[L + 1] \in 0 .. Slots /\ rank[L + 1] >= 1
        BY <1>2, <1>6, <1>7
      <4> QED BY <1>5, <3>1, <4>1
    <3> QED BY <1>4, <1>9, <3>1, <3>2
  <2> QED BY <1>2, <2>1, <2>3, <2>4 DEF Paired
<1>16. n - 1 \in 0 .. Slots
  BY <1>5, <1>8
<1> QED BY <1>12, <1>13, <1>14, <1>15, <1>16 DEF Matched

(* The dumpstate under way ends: its key stays the last of the ring.        *)
LEMMA WriteMatched ==
    ASSUME TypeOK, Watched, Alone, Matched, WriteDropbox
    PROVE  Matched'
<1>0. /\ UNCHANGED <<pc, keys, index_prod, index_cons, storage, requested, watches>>
      /\ svc = "running" /\ svc' = "stopped" /\ job # 0 /\ pc[job] \notin Calling
      /\ events' = IF job \in watches
                   THEN Append(events, [type |-> "dropbox", id |-> job]) ELSE events
  BY DEF WriteDropbox, daemon
<1>a. Storing' <=> Storing
  BY <1>0 DEF Storing
<1>b. CASE job \notin watches
  <2>1. storage \notin watches
    BY <1>0, <1>b DEF Alone
  <2>2. ~Held /\ ~Held'
    BY <1>0, <2>1 DEF Held
  <2> QED BY <1>0, <1>a, <1>b, <2>2, SameMatched
<1>c. CASE job \in watches
  <2>1. PICK n \in 0 .. Slots, rank \in [1 .. Len(events) + 1 -> 0 .. Slots] :
           Ranks(rank) /\ Filled(n) /\ Paired(n, rank)
    BY DEF Matched
  <2>2. \A k : Slot(k)' = Slot(k)
    BY <1>0, SlotSame
  <2>3. job = storage /\ pc[job] = "done" /\ InFlight /\ ~requested
    <3>1. job = storage /\ InFlight
      BY <1>0, <1>c DEF Alone, InFlight
    <3>2. pc[job] = "done"
      BY <1>0, <1>c DEF Watched, Started, Calling
    <3>3. ~requested
      BY <1>0, <1>c, <3>1 DEF Alone
    <3> QED BY <3>1, <3>2, <3>3
  <2>4. Held /\ ~Held'
    BY <1>0, <1>c, <2>3 DEF Held, InFlight
  <2> DEFINE L == Len(events)
             x == [type |-> "dropbox", id |-> job]
  <2>5. /\ Len(events') = L + 1 /\ L \in Nat
        /\ \A i \in 1 .. L : events'[i] = events[i]
        /\ events'[L + 1] = x
    BY <1>0, <1>c, EventFacts
  <2>6. x.type = "dropbox" /\ x.id = storage
    BY <2>3
  <2>7. /\ n = rank[L + 1] + 1 /\ keys[Slot(n - 1)] = storage
        /\ rank[L + 1] \in 0 .. Slots /\ n - 1 = rank[L + 1]
    <3>1. n = rank[L + 1] + 1 /\ keys[Slot(n - 1)] = storage
      BY <2>1, <2>4 DEF Paired
    <3>2. rank[L + 1] \in 0 .. Slots
      BY <2>5
    <3> QED BY <3>1, <3>2, DropboxAssumption
  <2> HIDE DEF x
  <2>8. PICK r \in [1 .. Len(events') + 1 -> 0 .. Slots] :
           r[L + 2] = n /\ \A i \in 1 .. L + 1 : r[i] = rank[i]
    <3> DEFINE q == [i \in 1 .. L + 2 |-> IF i = L + 2 THEN n ELSE rank[i]]
    <3>1. /\ q \in [1 .. Len(events') + 1 -> 0 .. Slots]
          /\ q[L + 2] = n /\ \A i \in 1 .. L + 1 : q[i] = rank[i]
      BY <2>5
    <3> QED BY <3>1
  <2>9. \A i \in 1 .. L + 1 : rank[i] \in 0 .. Slots /\ rank[i] <= rank[L + 1]
    BY <2>1, <2>5 DEF Ranks
  <2>10. Ranks(r)'
    <3>1. r[1] = 0
      BY <2>1, <2>5, <2>8 DEF Ranks
    <3>2. \A i, j \in 1 .. L + 2 : i <= j => r[i] <= r[j]
      <4>1. \A i \in 1 .. L + 1 : r[i] <= n
        BY <2>7, <2>8, <2>9, DropboxAssumption
      <4>2. \A i, j \in 1 .. L + 1 : i <= j => r[i] <= r[j]
        BY <2>1, <2>8 DEF Ranks
      <4> QED BY <2>5, <2>8, <4>1, <4>2
    <3>3. \A i \in 1 .. L : events'[i].type = events[i].type /\ r[i] = rank[i] /\ r[i + 1] = rank[i + 1]
      BY <2>5, <2>8
    <3>4. \A i \in 1 .. L :
             r[i + 1] = IF events'[i].type = "dropbox" THEN r[i] + 1 ELSE r[i]
      BY <2>1, <3>3 DEF Ranks
    <3>5. events'[L + 1].type = "dropbox" /\ r[(L + 1) + 1] = r[L + 1] + 1
      <4>1. r[L + 1] = rank[L + 1] /\ (L + 1) + 1 = L + 2
        BY <2>5, <2>8
      <4>2. r[L + 2] = r[L + 1] + 1
        BY <2>7, <2>8, <4>1
      <4> QED BY <2>5, <2>6, <4>1, <4>2
    <3>6. \A i \in 1 .. L + 1 : i = L + 1 \/ i \in 1 .. L
      BY <2>5
    <3>7. \A i \in 1 .. L + 1 :
             r[i + 1] = IF events'[i].type = "dropbox" THEN r[i] + 1 ELSE r[i]
      BY <3>4, <3>5, <3>6
    <3> QED BY <2>5, <3>1, <3>2, <3>7 DEF Ranks
  <2>11. Filled(n)'
    BY <1>0, <1>a, <2>1, <2>2 DEF Filled
  <2>12. Paired(n, r)'
    <3>1. \A i \in 1 .. L : events'[i].type = "dropbox" =>
             r[i] < n /\ keys[Slot(r[i])] = events'[i].id
      BY <2>1, <2>5, <2>8 DEF Paired
    <3>2. r[L + 1] < n /\ keys[Slot(r[L + 1])] = events'[L + 1].id
      <4>1. r[L + 1] = rank[L + 1]
        BY <2>5, <2>8
      <4>2. r[L + 1] < n
        BY <2>7, <4>1, DropboxAssumption
      <4> QED BY <2>5, <2>6, <2>7, <4>1, <4>2
    <3>3. \A i \in 1 .. L + 1 : i = L + 1 \/ i \in 1 .. L
      BY <2>5
    <3>4. n = r[Len(events') + 1]
      BY <2>5, <2>8
    <3> QED BY <1>0, <2>2, <2>4, <2>5, <3>1, <3>2, <3>3, <3>4 DEF Paired
  <2> QED BY <2>1, <2>8, <2>10, <2>11, <2>12 DEF Matched
<1> QED BY <1>b, <1>c

LEMMA StepMatched ==
    ASSUME TypeOK, Once, Watched, [Next]_vars, ~missed => Alone /\ Matched
    PROVE  ~missed' => Matched'
<1> SUFFICES ASSUME ~missed' PROVE Matched'
  OBVIOUS
<1>1. CASE Restart
  BY <1>1, RestartMatched
<1>2. CASE ~Restart
  <2>1. ~missed
    BY <1>2
    DEF Next, Crash, BootCompletes, HandleCrash, AlreadyRunning, CheckRunning, Request,
        AddWatch, AddWatchFails, Advance, StoreKey, NoKeyPending, NotBooted, Finalize,
        SrvStart, ReadPath, Leave, WriteDropbox, vars
  <2>2. Alone /\ Matched
    BY <2>1
  <2>3. CASE BootCompletes \/ ReadPath \/ UNCHANGED vars
    <3>1. UNCHANGED <<events, pc, keys, index_prod, index_cons, storage, requested, svc, watches>>
      BY <2>3 DEF BootCompletes, ReadPath, vars, daemon, service
    <3>2. (Storing' <=> Storing) /\ (Held' <=> Held)
      BY <3>1 DEF Storing, Held, InFlight
    <3> QED BY <2>2, <3>1, <3>2, SameMatched
  <2>4. CASE SrvStart
    <3>1. /\ UNCHANGED <<events, pc, keys, index_prod, index_cons, storage, watches>>
          /\ InFlight /\ InFlight'
      BY <2>4 DEF SrvStart, daemon, InFlight
    <3>2. (Storing' <=> Storing) /\ (Held' <=> Held)
      BY <3>1 DEF Storing, Held
    <3> QED BY <2>2, <3>1, <3>2, SameMatched
  <2>5. CASE NoKeyPending
    <3>1. keys[index_cons] = Head(events).id
      BY <2>2, <2>5, HeadKey DEF NoKeyPending, TakeEvent
    <3>2. Head(events).id \in Crashes
      BY <2>5, HeadFacts DEF NoKeyPending
    <3> QED BY <2>5, <3>1, <3>2, DropboxAssumption DEF NoKeyPending, KeyMissing, Crashes
  <2>6. CASE NotBooted \/ Leave
    BY <2>6 DEF NotBooted, Leave
  <2> QED
    BY <1>2, <2>2, <2>3, <2>4, <2>5, <2>6, CrashMatched, HandleMatched, EnterMatched,
       RequestMatched, WatchMatched, AdvanceMatched, StoreMatched, FinalizeMatched, WriteMatched
    DEF Next
<1> QED BY <1>1, <1>2
-----------------------------------------------------------------------------
Sure == \A i \in 1 .. Len(told) : told[i].sure => told[i].key = told[i].dir

LEMMA TellSure ==
    ASSUME TypeOK, Sure, NEW key, NEW dir, Tell(key, dir), ~missed => key = dir
    PROVE  Sure'
<1> DEFINE x == [key |-> key, dir |-> dir, sure |-> ~missed]
<1>1. /\ Len(told') = Len(told) + 1 /\ Len(told) \in Nat /\ told'[Len(told) + 1] = x
      /\ \A i \in 1 .. Len(told) : told'[i] = told[i]
  BY DEF TypeOK, Tell
<1>2. x.sure => x.key = x.dir
  OBVIOUS
<1> QED BY <1>1, <1>2 DEF Sure

LEMMA StepSure ==
    ASSUME TypeOK, Sure, ~missed => Matched, [Next]_vars PROVE Sure'
<1>1. CASE UNCHANGED told
  BY <1>1 DEF Sure
<1>2. ASSUME NEW c, TellSelf(c) PROVE Sure'
  BY <1>1, <1>2, TellSure DEF TellSelf
<1>3. CASE Finalize
  BY <1>3, HeadKey, TellSure DEF Finalize, TakeEvent, Dropbox
<1> QED
  BY <1>1, <1>2, <1>3
  DEF Next, Crash, BootCompletes, HandleCrash, AlreadyRunning, CheckRunning, Request,
      AddWatch, AddWatchFails, Advance, StoreKey, NoKeyPending, NotBooted, Restart,
      SrvStart, ReadPath, Leave, WriteDropbox, vars

LEMMA KeyFound == TypeOK /\ (~missed => Matched) => (KeyMissing => missed)
<1> SUFFICES ASSUME TypeOK, ~missed => Matched, KeyMissing, ~missed PROVE FALSE
  OBVIOUS
<1>1. keys[index_cons] = Head(events).id
  BY HeadKey DEF KeyMissing
<1>2. Head(events).id \in Crashes
  BY EventFacts, Taken DEF KeyMissing
<1> QED BY <1>1, <1>2, DropboxAssumption DEF KeyMissing, Crashes

LEMMA KeyFoundNext == (TypeOK /\ (~missed => Matched) => (KeyMissing => missed))'
  BY KeyFound, PTL

LEMMA RingInvariant == Spec => []RingInv
<1>1. Init => RingInv
  <2> SUFFICES ASSUME Init PROVE RingInv
    OBVIOUS
  <2>1. Sure
    BY DEF Init, Sure
  <2>2. TypeOK /\ Once /\ Watched /\ Alone /\ Matched
    BY InitTyped, InitOnce, InitWatched, InitMatched
  <2> QED BY <2>1, <2>2, KeyFound DEF RingInv, RightKey, Sure
<1>2. ASSUME RingInv, [Next]_vars PROVE RingInv'
  <2>1. TypeOK /\ Once /\ Watched /\ (~missed => Alone /\ Matched) /\ Sure
    BY <1>2 DEF RingInv, RightKey, Sure
  <2>2. TypeOK' /\ Once' /\ Watched' /\ Sure'
    BY <1>2, <2>1, StepTyped, StepOnce, StepWatched, StepSure
  <2>3. (~missed' => Alone') /\ (~missed' => Matched')
    BY <1>2, <2>1, StepAlone, StepMatched
  <2>4. (KeyMissing => missed)'
    BY <2>2, <2>3, KeyFoundNext
  <2> QED BY <2>2, <2>3, <2>4 DEF RingInv, RightKey, Sure
<1> QED BY <1>1, <1>2, PTL DEF Spec

(* As long as no key of the ring has lost its dumpstate, CrashReport is     *)
(* told the event whose folder was completed, and the event of a finished   *)
(* dumpstate finds its key.                                                 *)
THEOREM TellsRight == Spec => []RightKey
<1>1. RingInv => RightKey
  BY DEF RingInv
<1> QED BY <1>1, RingInvariant, PTL
=============================================================================
