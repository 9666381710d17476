-------------------------- MODULE EventWatchProofs --------------------------
(***************************************************************************)
(* Proofs about EventWatch, for every watcher that can be written in the   *)
(* configuration file and every limit.                                     *)
(*                                                                         *)
(* BoxInv relates the mailbox, its semaphore, accept_data and the step of  *)
(* the thread.  QueueInv follows the items from the reader over the        *)
(* mailbox to the thread: each is later than all that came before it.      *)
(* OrderInv and SuspendInv are about the records the thread keeps: in       *)
(* order, after all that was reported, and after the suspension; LogInv is *)
(* about the list of times by which a noisy watcher is known.              *)
(***************************************************************************)
EXTENDS EventWatch, TLAPS
-----------------------------------------------------------------------------
(* Types. *)
ItemKinds == {"start", "other", "end", "valid", "body", "eof", "empty"}
Items == [id : Nat, ts : Nat, prio : Nat, kind : ItemKinds]
Recs  == [items : Seq(Items) \ {<<>>}, valid : BOOLEAN]
Watches ==
    [record : Recs \cup {NoRecord}, records : Seq(Recs), suspended : Seq(Recs),
     count : Nat, until : Int, flush_count : Nat, event_log : Seq(Nat)]

CfgOK ==
    /\ cfg.prios \subseteq Nat
    /\ cfg.validation \in BOOLEAN /\ cfg.body \in BOOLEAN /\ cfg.end \in BOOLEAN
    /\ cfg.mailbox_max \in Nat \ {0} /\ cfg.max_records \in Nat \ {0}
    /\ cfg.max_items \in Nat \ {0} /\ cfg.flush_timeout \in Nat \ {0}
    /\ cfg.keep_last \in Nat \ {0} /\ cfg.max_suspend_records \in Nat
    /\ cfg.suspend_interval \in Nat
    /\ cfg.events.count \in Nat \ {0} /\ cfg.events.interval \in Nat

StateOK ==
    /\ CfgOK
    /\ main \in {"first", "loop", "feed", "start", "push", "join", "over"}
    /\ pc \in {"none", "entry", "wait", "process", "attach", "exec", "log", "exit"}
    /\ thread_state \in {"READY", "RUNNING", "STOPPED"}
    /\ accept_data \in BOOLEAN
    /\ item \in Items /\ li \in Items /\ mailbox \in Seq(Items)
    /\ items_available \in Nat
    /\ clock \in Nat /\ lastid \in Nat /\ last \in [prio : Nat, ts : Nat]
    /\ w \in Watches
    /\ told \in Seq(Seq(Nat)) /\ times \in Seq(Nat)
    /\ runs \in Nat /\ dirs \subseteq [run : Nat, n : Int]

Reporting == {"attach", "exec", "log"}
-----------------------------------------------------------------------------
(* The mailbox. *)
BoxInv ==
    /\ accept_data => items_available = Len(mailbox)
    /\ EndIsLast
    /\ pc \in {"entry", "wait", "exit", "none"} => li = Blank
    /\ thread_state = "READY" => pc \in {"none", "entry"}
    /\ thread_state = "STOPPED" => pc = "none"
    /\ pc = "entry" => main = "start" /\ accept_data
-----------------------------------------------------------------------------
(* The order of the items. *)

\* An item that was read, not an end or the lack of one.
Real(i) == i.id > 0
Sent(i) == Real(i) \/ i = Eof
Earlier(i, j) == i.id < j.id /\ i.ts <= j.ts

\* All that the next item of the reader is later than.
Now == IF cfg.source = "kmsg" THEN last.ts ELSE clock
Coming == [id |-> lastid + 1, ts |-> Now, prio |-> 0, kind |-> "other"]

QueueInv ==
    /\ last.ts <= clock
    /\ main \in {"feed", "start", "push"} => Sent(item)
    /\ main \in {"first", "loop", "join"} => item = Blank
    /\ pc \in {"process"} \cup Reporting => Sent(li)
    /\ \A k \in 1 .. Len(mailbox) : Sent(mailbox[k])
    /\ Real(li) => Earlier(li, Coming) /\ (Real(item) => Earlier(li, item))
    /\ Real(item) => Earlier(item, Coming)
    /\ \A k \in 1 .. Len(mailbox) : Real(mailbox[k]) =>
          /\ Earlier(mailbox[k], Coming)
          /\ Real(item) => Earlier(mailbox[k], item)
          /\ Real(li) => Earlier(li, mailbox[k])
          /\ \A j \in 1 .. k - 1 : Real(mailbox[j]) => Earlier(mailbox[j], mailbox[k])

\* The item i is later than all items of the record r.
AfterRecord(r, i) == \A k \in 1 .. Len(r.items) : Earlier(r.items[k], i)

\* The record s is later than the record r.
AfterAll(r, s) == \A k \in 1 .. Len(s.items) : AfterRecord(r, s.items[k])

Sorted(r) == \A k \in 1 .. Len(r.items) : \A j \in 1 .. k - 1 : Earlier(r.items[j], r.items[k])
OrderedWatch(x) ==
    /\ Sorted(x.record)
    /\ \A k \in 1 .. Len(x.records) :
          /\ Sorted(x.records[k])
          /\ AfterAll(x.records[k], x.record)
          /\ \A j \in 1 .. k - 1 : AfterAll(x.records[j], x.records[k])

\* i is later than what the watch x holds.
AfterWatch(x, i) ==
    /\ AfterRecord(x.record, i)
    /\ \A k \in 1 .. Len(x.records) : AfterRecord(x.records[k], i)

\* i is later than what was reported.
AfterTold(i) ==
    /\ \A a \in 1 .. Len(told) : \A b \in 1 .. Len(told[a]) : told[a][b] < i.id
    /\ \A k \in 1 .. Len(times) : times[k] <= i.ts
RecordAfterTold(r) == \A k \in 1 .. Len(r.items) : AfterTold(r.items[k])

Later(i) == AfterWatch(w, i) /\ AfterTold(i)

OrderInv ==
    /\ Later(Coming)
    /\ Real(item) => Later(item)
    /\ pc = "process" /\ Real(li) => Later(li)
    /\ \A k \in 1 .. Len(mailbox) : Real(mailbox[k]) => Later(mailbox[k])
    /\ OrderedWatch(w)
    /\ InOrder(told) /\ \A k \in 1 .. Len(times) : \A j \in 1 .. k - 1 : times[j] <= times[k]
    /\ RecordAfterTold(w.record)
    /\ pc \notin Reporting =>
          \A k \in 1 .. Len(w.records) : RecordAfterTold(w.records[k])
-----------------------------------------------------------------------------
(* Suspension. *)
SuspendedOK(x) ==
    cfg.max_suspend_records # 0 =>
        Len(x.suspended) = IF x.count > cfg.max_suspend_records
                           THEN cfg.max_suspend_records ELSE x.count
Unsuspended(x) ==
    cfg.suspend_interval # 0 =>
        \A k \in 1 .. Len(x.records) : Start(x.records[k]) > x.until

\* The thread has seen its end.
Over == li = Eof \/ pc \in {"exit", "none"}

SuspendInv ==
    /\ pc # "exit" /\ thread_state # "STOPPED" => SuspendedOK(w)
    /\ pc \notin Reporting => Unsuspended(w)
    /\ cfg.suspend_interval # 0 /\ times # <<>> /\ ~Over =>
          w.until = times[Len(times)] + cfg.suspend_interval
    /\ cfg.suspend_interval # 0 /\ times # <<>> /\ pc = "process" =>
          w.until = times[Len(times)] + cfg.suspend_interval
    /\ SuspendHolds
-----------------------------------------------------------------------------
(* Noisy watchers. *)
Events == Len(times)
LoggedEvents == IF pc \in Reporting THEN Events - 1 ELSE Events

\* The watcher was not noisy at event m.
Calm(m) ==
    IF cfg.events.interval = 0 THEN m < cfg.events.count
    ELSE m <= cfg.events.count
         \/ times[m] - times[m - cfg.events.count] >= cfg.events.interval

\* How many of the last events the test has not passed.
Untested ==
    IF pc \in Reporting THEN IF accept_data \/ li # Eof THEN 1 ELSE 2
    ELSE IF pc \in {"exit", "none"} THEN 2
    ELSE IF accept_data \/ (pc = "process" /\ li # Eof) THEN 0 ELSE 1

Shorter(a, b) == IF a < b THEN a ELSE b
LogInv ==
    /\ w.flush_count = Events
    /\ thread_state = "READY" => times = <<>>
    /\ pc \in Reporting =>
          /\ w.records # <<>> /\ times # <<>>
          /\ times[Events] = Start(Head(w.records))
    /\ cfg.events.interval # 0 =>
          /\ Len(w.event_log) = Shorter(LoggedEvents, cfg.events.count + 1)
          /\ \A j \in 1 .. Len(w.event_log) :
                w.event_log[j] = times[LoggedEvents + 1 - j]
    /\ \A m \in 1 .. Events - Untested : Calm(m)

EWInv == StateOK /\ BoxInv /\ QueueInv /\ OrderInv /\ SuspendInv /\ LogInv /\ KeptDirectories
-----------------------------------------------------------------------------
(* The parameters of a watcher. *)

LEMMA WatcherOK ==
    ASSUME NEW raw \in RawConfigs, cfg = Watcher(raw)
    PROVE  CfgOK
<1>. USE LimitsAssumption DEF RawConfigs, Watcher, Positive
<1>1. cfg.mailbox_max \in Nat \ {0} BY DEF Mailbox
<1>2. cfg.max_suspend_records \in Nat BY DEF SuspendRecords
<1>3. cfg.events.count \in Nat \ {0} /\ cfg.events.interval \in Nat
  <2>1. cfg.events = MaxEvents(raw) OBVIOUS
  <2>2. raw.max_event_count \in Int /\ raw.max_event_interval \in Int OBVIOUS
  <2>3. MaxEvents(raw).count \in Nat \ {0} /\ MaxEvents(raw).interval \in Nat
    BY <2>2 DEF MaxEvents
  <2>. QED BY <2>1, <2>3
<1>4. cfg.max_records \in Nat \ {0} /\ cfg.max_items \in Nat \ {0} OBVIOUS
<1>5. cfg.flush_timeout \in Nat \ {0} /\ cfg.keep_last \in Nat \ {0} OBVIOUS
<1>6. cfg.suspend_interval \in Nat /\ cfg.prios \subseteq Nat OBVIOUS
<1>7. cfg.validation \in BOOLEAN /\ cfg.body \in BOOLEAN /\ cfg.end \in BOOLEAN
  OBVIOUS
<1>. QED BY <1>1, <1>2, <1>3, <1>4, <1>5, <1>6, <1>7 DEF CfgOK
-----------------------------------------------------------------------------
(* What the operations of process do to the records. *)

\* The parts of a watch that process leaves alone before a flush.
SameLog(x, y) ==
    y.until = x.until /\ y.flush_count = x.flush_count /\ y.event_log = x.event_log

Good(x) ==
    /\ x \in Watches /\ SuspendedOK(x) /\ Unsuspended(x) /\ OrderedWatch(x)
    /\ RecordAfterTold(x.record)
    /\ \A k \in 1 .. Len(x.records) : RecordAfterTold(x.records[k])

\* Where a record goes.
Dropped(x, r, y) == y.records = x.records /\ y.suspended = x.suspended /\ y.count = x.count
Kept(x, r, y) ==
    /\ y.records = Append(x.records, r) /\ y.suspended = x.suspended /\ y.count = x.count
    /\ cfg.suspend_interval # 0 => Start(r) > x.until
Ignored(x, r, y) ==
    /\ y.records = x.records /\ y.count = x.count + 1 /\ y.suspended \in Seq(Recs)
    /\ cfg.max_suspend_records # 0 =>
          Len(y.suspended) = IF y.count > cfg.max_suspend_records
                             THEN Len(x.suspended) ELSE Len(x.suspended) + 1

LEMMA StartInNat ==
    ASSUME NEW r \in Recs PROVE Start(r) \in Nat /\ Start(r) = r.items[1].ts /\ 1 \in 1 .. Len(r.items)
<1>1. r.items \in Seq(Items) /\ r.items # <<>> BY DEF Recs
<1>2. Len(r.items) >= 1 /\ r.items[1] \in Items BY <1>1
<1>3. Head(r.items) = r.items[1] BY <1>1
<1>. QED BY <1>2, <1>3 DEF Start, Items

LEMMA CloseEffect ==
    ASSUME CfgOK, NEW x \in Watches, x.record \in Recs, NEW y, y = Close(x)
    PROVE  /\ y \in Watches /\ SameLog(x, y) /\ y.record = NoRecord
           /\ Dropped(x, x.record, y) \/ Kept(x, x.record, y) \/ Ignored(x, x.record, y)
<1>. PICK r \in Recs : r = x.record OBVIOUS
<1>1. /\ x.records \in Seq(Recs) /\ x.suspended \in Seq(Recs) /\ x.count \in Nat
      /\ x.until \in Int
  BY DEF Watches
<1>2. CASE ~r.valid
  BY <1>2 DEF Close, AddRecord, Watches, SameLog, Dropped
<1>3. CASE r.valid /\ cfg.suspend_interval # 0 /\ Start(r) <= x.until
  <2>1. PICK s : s = Append(x.suspended, r) OBVIOUS
  <2>2. s \in Seq(Recs) /\ Len(s) = Len(x.suspended) + 1 BY <1>1, <2>1
  <2>3. Tail(s) \in Seq(Recs) /\ Len(Tail(s)) = Len(x.suspended) BY <1>1, <2>2
  <2>4. PICK z : z = IF cfg.max_suspend_records = 0 THEN x.suspended
                     ELSE IF x.count + 1 > cfg.max_suspend_records THEN Tail(s) ELSE s
    OBVIOUS
  <2>5. y = [[x EXCEPT !.count = x.count + 1, !.suspended = z] EXCEPT !.record = NoRecord]
    BY <1>3, <2>1, <2>4 DEF Close, AddRecord, Suspend
  <2>6. /\ z \in Seq(Recs)
        /\ cfg.max_suspend_records # 0 =>
              Len(z) = IF x.count + 1 > cfg.max_suspend_records
                       THEN Len(x.suspended) ELSE Len(x.suspended) + 1
    BY <1>1, <2>2, <2>3, <2>4
  <2>7. y \in Watches /\ SameLog(x, y) /\ y.record = NoRecord
    <3>1. PICK n \in Nat : n = x.count + 1 BY <1>1
    <3>2. y = [[x EXCEPT !.count = n, !.suspended = z] EXCEPT !.record = NoRecord]
      BY <2>5, <3>1
    <3>3. y \in Watches BY <2>6, <3>2 DEF Watches
    <3>4. SameLog(x, y) /\ y.record = NoRecord BY <3>2 DEF Watches, SameLog
    <3>. QED BY <3>3, <3>4
  <2>8. y.records = x.records /\ y.count = x.count + 1 /\ y.suspended = z
    BY <2>5 DEF Watches
  <2>9. Ignored(x, r, y) BY <2>6, <2>8 DEF Ignored
  <2>. QED BY <2>7, <2>9
<1>4. CASE r.valid /\ ~(cfg.suspend_interval # 0 /\ Start(r) <= x.until)
  <2>1. PICK z : z = Append(x.records, r) OBVIOUS
  <2>2. y = [[x EXCEPT !.records = z] EXCEPT !.record = NoRecord]
    BY <1>4, <2>1 DEF Close, AddRecord
  <2>3. z \in Seq(Recs) BY <1>1, <2>1
  <2>4. y \in Watches /\ SameLog(x, y) /\ y.record = NoRecord
    BY <1>1, <2>2, <2>3 DEF Watches, SameLog
  <2>5. y.records = z /\ y.suspended = x.suspended /\ y.count = x.count
    BY <2>2 DEF Watches
  <2>6. Start(r) \in Nat BY StartInNat
  <2>7. Kept(x, r, y) BY <1>1, <1>4, <2>1, <2>5, <2>6 DEF Kept
  <2>. QED BY <2>4, <2>7
<1>. QED BY <1>2, <1>3, <1>4

\* y is x with no item more, or only i.
Carries(x, y, i) ==
    \A j \in Items : AfterWatch(x, j) /\ (i # Eof => Earlier(i, j)) => AfterWatch(y, j)

LEMMA CloseGood ==
    ASSUME CfgOK, NEW x, Good(x), x.record \in Recs, NEW y, y = Close(x)
    PROVE  /\ Good(y) /\ SameLog(x, y) /\ y.record = NoRecord
           /\ \A j : AfterWatch(x, j) => AfterWatch(y, j)
<1>. PICK r \in Recs : r = x.record OBVIOUS
<1>1. x \in Watches BY DEF Good
<1>2. /\ y \in Watches /\ SameLog(x, y) /\ y.record = NoRecord
      /\ Dropped(x, r, y) \/ Kept(x, r, y) \/ Ignored(x, r, y)
  BY <1>1, CloseEffect
<1>3. x.records \in Seq(Recs) /\ y.records \in Seq(Recs) /\ x.count \in Nat BY <1>1, <1>2 DEF Watches
<1>4. y.records = x.records \/ y.records = Append(x.records, r)
  BY <1>2 DEF Dropped, Kept, Ignored
<1>5. \A k \in 1 .. Len(y.records) :
        \/ k \in 1 .. Len(x.records) /\ y.records[k] = x.records[k]
        \/ k = Len(x.records) + 1 /\ y.records[k] = r
  BY <1>3, <1>4
<1>6. Len(y.record.items) = 0 BY <1>2 DEF NoRecord
<1>7. SuspendedOK(y)
  <2>1. CASE Dropped(x, r, y) \/ Kept(x, r, y)
    BY <2>1 DEF Dropped, Kept, SuspendedOK, Good
  <2>2. CASE Ignored(x, r, y)
    BY <1>3, <2>2 DEF Ignored, SuspendedOK, Good, CfgOK
  <2>. QED BY <1>2, <2>1, <2>2
<1>8. Unsuspended(y)
  <2>1. Unsuspended(x) BY DEF Good
  <2>2. y.until = x.until BY <1>2 DEF SameLog
  <2>3. CASE y.records = x.records BY <2>1, <2>2, <2>3 DEF Unsuspended
  <2>4. CASE y.records = Append(x.records, r) /\ (cfg.suspend_interval # 0 => Start(r) > x.until)
    BY <1>5, <2>1, <2>2, <2>4 DEF Unsuspended
  <2>. QED BY <1>2, <2>3, <2>4 DEF Dropped, Kept, Ignored
<1>9. OrderedWatch(y)
  <2>1. OrderedWatch(x) BY DEF Good
  <2>2. Sorted(y.record) BY <1>6 DEF Sorted
  <2>3. ASSUME NEW k \in 1 .. Len(y.records)
        PROVE  /\ Sorted(y.records[k]) /\ AfterAll(y.records[k], y.record)
               /\ \A j \in 1 .. k - 1 : AfterAll(y.records[j], y.records[k])
    <3>1. Sorted(y.records[k]) BY <1>5, <2>1 DEF OrderedWatch
    <3>2. AfterAll(y.records[k], y.record) BY <1>6 DEF AfterAll
    <3>3. ASSUME NEW j \in 1 .. k - 1 PROVE AfterAll(y.records[j], y.records[k])
      <4>1. j \in 1 .. Len(x.records) /\ y.records[j] = x.records[j] BY <1>3, <1>4
      <4>. QED BY <1>3, <1>5, <2>1, <4>1 DEF OrderedWatch
    <3>. QED BY <3>1, <3>2, <3>3
  <2>. QED BY <2>2, <2>3 DEF OrderedWatch
<1>10. RecordAfterTold(y.record) BY <1>6 DEF RecordAfterTold
<1>11. \A k \in 1 .. Len(y.records) : RecordAfterTold(y.records[k])
  BY <1>5 DEF Good
<1>12. ASSUME NEW j, AfterWatch(x, j) PROVE AfterWatch(y, j)
  <2>1. AfterRecord(y.record, j) BY <1>6 DEF AfterRecord
  <2>. QED BY <1>5, <1>12, <2>1 DEF AfterWatch
<1>. QED BY <1>2, <1>7, <1>8, <1>9, <1>10, <1>11, <1>12 DEF Good

LEMMA SetRecordGood ==
    ASSUME NEW x, Good(x), NEW r \in Recs, NEW y, y = [x EXCEPT !.record = r],
           Sorted(r), RecordAfterTold(r),
           \A k \in 1 .. Len(x.records) : AfterAll(x.records[k], r)
    PROVE  /\ Good(y) /\ SameLog(x, y) /\ y.record = r
           /\ \A j : AfterRecord(r, j) /\ AfterWatch(x, j) => AfterWatch(y, j)
<1>1. x \in Watches BY DEF Good
<1>2. y \in Watches BY <1>1 DEF Watches
<1>3. /\ SameLog(x, y) /\ y.record = r /\ y.records = x.records
      /\ y.suspended = x.suspended /\ y.count = x.count
  BY <1>1 DEF Watches, SameLog
<1>4. SuspendedOK(y) BY <1>3 DEF Good, SuspendedOK
<1>5. Unsuspended(y) BY <1>3 DEF Good, Unsuspended, SameLog
<1>6. OrderedWatch(y) BY <1>3 DEF Good, OrderedWatch
<1>7. RecordAfterTold(y.record) /\ \A k \in 1 .. Len(y.records) : RecordAfterTold(y.records[k])
  BY <1>3 DEF Good
<1>8. \A j : AfterRecord(r, j) /\ AfterWatch(x, j) => AfterWatch(y, j)
  BY <1>3 DEF AfterWatch
<1>. QED BY <1>2, <1>3, <1>4, <1>5, <1>6, <1>7, <1>8 DEF Good

LEMMA EarlierTrans ==
    ASSUME NEW a \in Items, NEW b \in Items, NEW c \in Items, Earlier(a, b), Earlier(b, c)
    PROVE  Earlier(a, c)
BY DEF Earlier, Items

LEMMA TakeGood ==
    ASSUME NEW x, Good(x), x.record \in Recs, NEW i \in Items,
           AfterWatch(x, i), AfterTold(i), NEW v \in BOOLEAN, NEW y,
           y = [x EXCEPT !.record = [items |-> Append(x.record.items, i), valid |-> v]]
    PROVE  Good(y) /\ SameLog(x, y) /\ y.record \in Recs /\ Carries(x, y, i)
<1>. PICK q \in Recs : q = x.record OBVIOUS
<1>1. PICK s : s = Append(q.items, i) OBVIOUS
<1>2. q.items \in Seq(Items) BY DEF Recs
<1>3. s \in Seq(Items) /\ s # <<>> /\ Len(s) = Len(q.items) + 1 BY <1>1, <1>2
<1>4. \A k \in 1 .. Len(s) : \/ k \in 1 .. Len(q.items) /\ s[k] = q.items[k]
                             \/ k = Len(q.items) + 1 /\ s[k] = i
  BY <1>1, <1>2
<1>5. PICK r : r = [items |-> s, valid |-> v] OBVIOUS
<1>6. r \in Recs /\ r.items = s BY <1>3, <1>5 DEF Recs
<1>7. y = [x EXCEPT !.record = r] BY <1>1, <1>5
<1>8. Sorted(q) /\ AfterRecord(q, i) /\ RecordAfterTold(q) BY DEF Good, OrderedWatch, AfterWatch
<1>9. Sorted(r)
  <2>1. ASSUME NEW k \in 1 .. Len(s), NEW j \in 1 .. k - 1 PROVE Earlier(s[j], s[k])
    <3>1. j \in 1 .. Len(q.items) /\ s[j] = q.items[j] BY <1>2, <1>3, <1>4
    <3>. QED BY <1>4, <1>8, <3>1 DEF Sorted, AfterRecord
  <2>. QED BY <1>6, <2>1 DEF Sorted
<1>10. RecordAfterTold(r) BY <1>4, <1>6, <1>8 DEF RecordAfterTold
<1>11. \A k \in 1 .. Len(x.records) : AfterAll(x.records[k], r)
  BY <1>4, <1>6 DEF AfterAll, AfterWatch, Good, OrderedWatch
<1>12. Good(y) /\ SameLog(x, y) /\ y.record = r /\ \A j : AfterRecord(r, j) /\ AfterWatch(x, j) => AfterWatch(y, j)
  BY <1>6, <1>7, <1>9, <1>10, <1>11, SetRecordGood
<1>13. \A j : AfterWatch(x, j) /\ Earlier(i, j) => AfterRecord(r, j)
  BY <1>4, <1>6 DEF AfterRecord, AfterWatch
<1>14. CASE i = Eof
  <2>1. AfterTold(i) /\ \A k \in 1 .. Len(q.items) : Earlier(q.items[k], i) BY <1>8 DEF AfterRecord
  <2>2. 1 \in 1 .. Len(q.items) /\ q.items[1] \in Items BY StartInNat, <1>2
  <2>. QED BY <1>14, <2>1, <2>2 DEF Earlier, Eof, Items
<1>. QED BY <1>6, <1>12, <1>13, <1>14 DEF Carries

LEMMA OpenGood ==
    ASSUME NEW x, Good(x), NEW i \in Items, i # Eof,
           AfterWatch(x, i), AfterTold(i), NEW v \in BOOLEAN, NEW y,
           y = [x EXCEPT !.record = [items |-> <<i>>, valid |-> v]]
    PROVE  Good(y) /\ SameLog(x, y) /\ y.record \in Recs /\ Carries(x, y, i)
<1>1. PICK s : s = <<i>> OBVIOUS
<1>2. s \in Seq(Items) /\ s # <<>> /\ Len(s) = 1 /\ s[1] = i BY <1>1
<1>3. PICK r : r = [items |-> s, valid |-> v] OBVIOUS
<1>4. r \in Recs /\ r.items = s BY <1>2, <1>3 DEF Recs
<1>10. Len(r.items) = 1 /\ r.items[1] = i BY <1>2, <1>4
<1>11. \A k \in 1 .. Len(r.items) : k = 1 /\ r.items[k] = i BY <1>10
<1>5. Sorted(r) BY <1>11 DEF Sorted
<1>6. RecordAfterTold(r) BY <1>11 DEF RecordAfterTold
<1>7. \A k \in 1 .. Len(x.records) : AfterAll(x.records[k], r)
  BY <1>11 DEF AfterAll, AfterWatch
<1>8. Good(y) /\ SameLog(x, y) /\ y.record = r /\ \A j : AfterRecord(r, j) /\ AfterWatch(x, j) => AfterWatch(y, j)
  BY <1>1, <1>3, <1>4, <1>5, <1>6, <1>7, SetRecordGood
<1>9. \A j : Earlier(i, j) => AfterRecord(r, j) BY <1>11 DEF AfterRecord
<1>. QED BY <1>4, <1>8, <1>9 DEF Carries

LEMMA RecordCases ==
    ASSUME NEW x, Good(x) PROVE x.record \in Recs \/ x.record = NoRecord
BY DEF Good, Watches

LEMMA MatchGood ==
    ASSUME CfgOK, NEW x, Good(x), NEW i \in Items, i # Eof,
           AfterWatch(x, i), AfterTold(i), NEW y, y = Match(x, i)
    PROVE  Good(y) /\ SameLog(x, y) /\ Carries(x, y, i)
<1>1. CASE i.kind = "start"
  <2>1. PICK z : z = IF x.record # NoRecord THEN Close(x) ELSE x OBVIOUS
  <2>2. Good(z) /\ SameLog(x, z) /\ \A j : AfterWatch(x, j) => AfterWatch(z, j)
    <3>1. CASE x.record # NoRecord
      <4>1. x.record \in Recs BY <3>1, RecordCases
      <4>. QED BY <2>1, <3>1, <4>1, CloseGood
    <3>2. CASE x.record = NoRecord BY <2>1, <3>2 DEF SameLog
    <3>. QED BY <3>1, <3>2
  <2>3. PICK v \in BOOLEAN : v = ~cfg.validation BY DEF CfgOK
  <2>4. y = [z EXCEPT !.record = [items |-> <<i>>, valid |-> ~cfg.validation]]
    BY <1>1, <2>1 DEF Match
  <2>5. y = [z EXCEPT !.record = [items |-> <<i>>, valid |-> v]] BY <2>3, <2>4
  <2>6. AfterWatch(z, i) BY <2>2
  <2>7. Good(y) /\ SameLog(z, y) /\ Carries(z, y, i) BY <2>2, <2>5, <2>6, OpenGood
  <2>. QED BY <2>2, <2>7 DEF SameLog, Carries
<1>2. CASE i.kind # "start" /\ x.record = NoRecord
  BY <1>2 DEF Match, SameLog, Carries
<1>3. CASE i.kind # "start" /\ x.record # NoRecord
  <2>1. x.record \in Recs BY <1>3, RecordCases
  <2>2. x \in Watches /\ x.record.valid \in BOOLEAN BY <2>1 DEF Good, Recs
  <2>3. ASSUME NEW z, z = Take(x, i, FALSE)
        PROVE  Good(z) /\ SameLog(x, z) /\ z.record \in Recs /\ Carries(x, z, i)
    <3>1. PICK v \in BOOLEAN : v = (x.record.valid \/ FALSE) BY <2>2
    <3>2. z = [x EXCEPT !.record = [items |-> Append(x.record.items, i),
                                    valid |-> x.record.valid \/ FALSE]]
      BY <2>2, <2>3 DEF Take, Watches
    <3>3. z = [x EXCEPT !.record = [items |-> Append(x.record.items, i), valid |-> v]]
      BY <3>1, <3>2
    <3>. QED BY <2>1, <3>3, TakeGood
  <2>4. ASSUME NEW z, z = Take(x, i, TRUE)
        PROVE  Good(z) /\ SameLog(x, z) /\ z.record \in Recs /\ Carries(x, z, i)
    <3>1. PICK v \in BOOLEAN : v = (x.record.valid \/ TRUE) BY <2>2
    <3>2. z = [x EXCEPT !.record = [items |-> Append(x.record.items, i),
                                    valid |-> x.record.valid \/ TRUE]]
      BY <2>2, <2>4 DEF Take, Watches
    <3>3. z = [x EXCEPT !.record = [items |-> Append(x.record.items, i), valid |-> v]]
      BY <3>1, <3>2
    <3>. QED BY <2>1, <3>3, TakeGood
  <2>5. \/ y = Close(Take(x, i, FALSE)) \/ y = Take(x, i, TRUE)
        \/ y = Take(x, i, FALSE) \/ y = x
    BY <1>3, Zenon DEF Match
  <2>6. CASE y = Close(Take(x, i, FALSE))
    <3>1. PICK z : z = Take(x, i, FALSE) OBVIOUS
    <3>2. y = Close(z) BY <2>6, <3>1, Zenon
    <3>3. Good(z) /\ SameLog(x, z) /\ z.record \in Recs /\ Carries(x, z, i) BY <2>3, <3>1
    <3>4. Good(y) /\ SameLog(z, y) /\ \A j : AfterWatch(z, j) => AfterWatch(y, j)
      BY <3>2, <3>3, CloseGood
    <3>. QED BY <3>3, <3>4 DEF SameLog, Carries
  <2>7. CASE y = Take(x, i, TRUE) BY <2>4, <2>7
  <2>8. CASE y = Take(x, i, FALSE) BY <2>3, <2>8
  <2>9. CASE y = x BY <2>9 DEF SameLog, Carries
  <2>. QED BY <2>5, <2>6, <2>7, <2>8, <2>9
<1>. QED BY <1>1, <1>2, <1>3

\* Closing a record, when there is one and the condition holds, keeps a watch good.
LEMMA MayClose ==
    ASSUME CfgOK, NEW x, NEW z, Good(z), SameLog(x, z), NEW i, Carries(x, z, i), NEW y,
           y = z \/ (z.record # NoRecord /\ y = Close(z))
    PROVE  Good(y) /\ SameLog(x, y) /\ Carries(x, y, i)
<1>1. CASE y = z BY <1>1
<1>2. CASE z.record # NoRecord /\ y = Close(z)
  <2>1. z.record \in Recs BY <1>2, RecordCases
  <2>2. Good(y) /\ SameLog(z, y) /\ \A j : AfterWatch(z, j) => AfterWatch(y, j)
    BY <1>2, <2>1, CloseGood
  <2>. QED BY <2>2 DEF SameLog, Carries
<1>. QED BY <1>1, <1>2

\* process keeps the records in order, unsuspended and after what was told.
LEMMA CollectedGood ==
    ASSUME CfgOK, NEW x, Good(x), NEW i \in Items,
           i = Eof \/ (AfterWatch(x, i) /\ AfterTold(i)), NEW y, y = Collected(x, i)
    PROVE  Good(y) /\ SameLog(x, y) /\ Carries(x, y, i)
<1>1. PICK z : z = Collect(x, i) OBVIOUS
<1>2. Good(z) /\ SameLog(x, z) /\ Carries(x, z, i)
  <2>1. CASE i = Eof
    <3>1. SameLog(x, x) /\ Carries(x, x, i) BY DEF SameLog, Carries
    <3>2. z = x \/ (x.record # NoRecord /\ z = Close(x)) BY <1>1, <2>1 DEF Collect
    <3>. QED BY <3>1, <3>2, MayClose
  <2>2. CASE i # Eof
    <3>1. PICK u : u = Match(x, i) OBVIOUS
    <3>2. Good(u) /\ SameLog(x, u) /\ Carries(x, u, i) BY <2>2, <3>1, MatchGood
    <3>3. z = u \/ (u.record # NoRecord /\ z = Close(u)) BY <1>1, <2>2, <3>1 DEF Collect
    <3>. QED BY <3>2, <3>3, MayClose
  <2>. QED BY <2>1, <2>2
<1>3. y = z \/ (z.record # NoRecord /\ y = Close(z)) BY <1>1 DEF Collected, CloseOld
<1>. QED BY <1>2, <1>3, MayClose
-----------------------------------------------------------------------------
(* What the actions do to the state, and its types. *)

LEMMA Constants == Eof \in Items /\ Blank \in Items /\ NoRecord.items = <<>> /\ FreshWatch \in Watches
<1>1. Eof \in Items /\ Blank \in Items BY DEF Eof, Blank, Items, ItemKinds
<1>2. NoRecord.items = <<>> BY DEF NoRecord
<1>3. FreshWatch \in Watches BY DEF FreshWatch, Watches
<1>. QED BY <1>1, <1>2, <1>3

\* i is a new item: the next one, not before the last.
Fetched(i) ==
    /\ i.id = lastid + 1 /\ lastid' = lastid + 1
    /\ i.ts >= Now /\ Now' = i.ts
Quiet(i) == i \in {Eof, Blank} /\ lastid' = lastid /\ Now' = Now

LEMMA GetEffect ==
    ASSUME StateOK, last.ts <= clock, Get
    PROVE  /\ item' \in Items /\ lastid' \in Nat /\ clock' \in Nat
           /\ last' \in [prio : Nat, ts : Nat] /\ last'.ts <= clock'
           /\ Fetched(item') \/ Quiet(item')
<1>. USE EWBoundAssumption, Constants
<1>0. /\ cfg' = cfg /\ cfg.prios \subseteq Nat /\ clock \in Nat /\ lastid \in Nat
      /\ last \in [prio : Nat, ts : Nat]
  BY DEF Get, StateOK, CfgOK
<1>1. ASSUME NEW p \in Nat, NEW x \in Texts, NEW t \in Nat, NEW i,
             i = [id |-> lastid + 1, ts |-> t, prio |-> p, kind |-> x.kind]
      PROVE  i \in Items /\ i.id = lastid + 1 /\ i.ts = t
  <2>1. x.kind \in ItemKinds BY DEF Texts, ItemKinds
  <2>2. PICK n \in Nat : n = lastid + 1 BY <1>0
  <2>. QED BY <1>1, <2>1, <2>2 DEF Items
<1>2. \A x \in Texts : x.prio \in Nat BY <1>0 DEF Texts
<1>3. ASSUME NEW x \in Texts, NEW t \in clock .. MaxTime, Produce(NewItem(x, t))
      PROVE  /\ t \in Nat /\ t >= clock /\ item' \in Items
             /\ item'.id = lastid + 1 /\ item'.ts = t /\ lastid' = lastid + 1
  <2>1. t \in Nat /\ t >= clock BY <1>0
  <2>2. item' = [id |-> lastid + 1, ts |-> t, prio |-> x.prio, kind |-> x.kind]
    BY <1>3 DEF Produce, NewItem
  <2>3. item' \in Items /\ item'.id = lastid + 1 /\ item'.ts = t BY <1>1, <1>2, <2>1, <2>2
  <2>4. lastid' = lastid + 1 BY <1>0, <1>3, <2>2, <2>3 DEF Produce, NewItem
  <2>. QED BY <2>1, <2>3, <2>4
<1>4. CASE cfg.source = "kmsg" /\ KmsgGet
  <2>1. CASE \E x \in Texts, t \in clock .. MaxTime :
               /\ lastid < MaxItems /\ Produce(NewItem(x, t))
               /\ clock' = t /\ last' = [prio |-> x.prio, ts |-> t]
    <3>1. PICK x \in Texts, t \in clock .. MaxTime :
            Produce(NewItem(x, t)) /\ clock' = t /\ last' = [prio |-> x.prio, ts |-> t]
      BY <2>1
    <3>. QED BY <1>0, <1>2, <1>3, <1>4, <3>1 DEF Fetched, Now
  <2>2. CASE \E x \in Texts :
               /\ lastid < MaxItems
               /\ Produce(NewItem([x EXCEPT !.prio = last.prio], last.ts))
               /\ UNCHANGED <<clock, last>>
    <3>1. PICK x \in Texts : /\ Produce(NewItem([x EXCEPT !.prio = last.prio], last.ts))
                             /\ UNCHANGED <<clock, last>>
      BY <2>2
    <3>2. item' = [id |-> lastid + 1, ts |-> last.ts, prio |-> last.prio, kind |-> x.kind]
      BY <3>1 DEF Produce, NewItem, Texts
    <3>3. item' \in Items /\ item'.id = lastid + 1 /\ item'.ts = last.ts
      BY <1>0, <1>1, <3>2
    <3>4. lastid' = lastid + 1 BY <1>0, <3>1, <3>2, <3>3 DEF Produce, NewItem
    <3>. QED BY <1>0, <1>4, <3>1, <3>3, <3>4 DEF Fetched, Now
  <2>3. CASE item' \in {Eof, Blank} /\ UNCHANGED <<lastid, clock, last>>
    BY <1>0, <2>3 DEF Quiet, Now
  <2>. QED BY <1>4, <2>1, <2>2, <2>3 DEF KmsgGet
<1>5. CASE cfg.source # "kmsg" /\ (UeventGet \/ LogdGet)
  <2>1. CASE \E x \in Texts, t \in clock .. MaxTime :
               Produce(NewItem(x, t)) /\ clock' = t /\ UNCHANGED last
    <3>1. PICK x \in Texts, t \in clock .. MaxTime :
            Produce(NewItem(x, t)) /\ clock' = t /\ UNCHANGED last
      BY <2>1
    <3>. QED BY <1>0, <1>3, <1>5, <3>1 DEF Fetched, Now
  <2>2. CASE item' \in {Eof, Blank} /\ UNCHANGED <<lastid, clock, last>>
    BY <1>0, <2>2 DEF Quiet, Now
  <2>. QED BY <1>5, <2>1, <2>2 DEF UeventGet, LogdGet
<1>. QED BY <1>4, <1>5 DEF Get, ReaderGet

LEMMA ProcessEffect ==
    ASSUME EWInv, pc = "process", NEW y, y = Collected(w, li)
    PROVE  Good(y) /\ SameLog(w, y) /\ Carries(w, y, li)
<1>1. CfgOK /\ li \in Items BY DEF EWInv, StateOK
<1>2. Good(w)
  <2>1. w \in Watches /\ thread_state # "STOPPED" BY DEF EWInv, StateOK, BoxInv
  <2>2. SuspendedOK(w) /\ Unsuspended(w) BY <2>1 DEF EWInv, SuspendInv, Reporting
  <2>3. /\ OrderedWatch(w) /\ RecordAfterTold(w.record)
        /\ \A k \in 1 .. Len(w.records) : RecordAfterTold(w.records[k])
    BY DEF EWInv, OrderInv, Reporting
  <2>. QED BY <2>1, <2>2, <2>3 DEF Good
<1>3. li = Eof \/ (AfterWatch(w, li) /\ AfterTold(li))
  BY DEF EWInv, QueueInv, OrderInv, Sent, Later
<1>. QED BY <1>1, <1>2, <1>3, CollectedGood

LEMMA IdsInSeq ==
    ASSUME NEW rs \in Seq(Recs)
    PROVE  /\ AllIds(rs) \in Seq(Seq(Nat)) /\ Len(AllIds(rs)) = Len(rs)
           /\ \A k \in 1 .. Len(rs) : AllIds(rs)[k] = IdsOf(rs[k]) /\ IdsOf(rs[k]) \in Seq(Nat)
<1>1. ASSUME NEW r \in Recs PROVE IdsOf(r) \in Seq(Nat)
  <2>1. r.items \in Seq(Items) BY DEF Recs
  <2>3. \A k \in 1 .. Len(r.items) : r.items[k] \in Items BY <2>1
  <2>2. \A k \in 1 .. Len(r.items) : r.items[k].id \in Nat BY <2>3 DEF Items
  <2>. QED BY <2>1, <2>2 DEF IdsOf
<1>2. \A k \in 1 .. Len(rs) : rs[k] \in Recs OBVIOUS
<1>. QED BY <1>1, <1>2 DEF AllIds

\* The flush takes place with at least one record, and writes what there is.
LEMMA FlushEffect ==
    ASSUME EWInv, Flush, NEW x, x = Collected(w, li)
    PROVE  /\ pc = "process" /\ pc' = "attach" /\ x.records # <<>>
           /\ x.records \in Seq(Recs) /\ Head(x.records) = x.records[1]
           /\ Start(x.records[1]) \in Nat /\ x.records[1] \in Recs
           /\ w' \in Watches /\ w'.record = x.record /\ w'.records = x.records
           /\ w'.count = 0 /\ w'.flush_count = w.flush_count + 1
           /\ w'.event_log = w.event_log
           /\ cfg.max_suspend_records # 0 /\ x.count # 0 => w'.suspended = <<>>
           /\ ~(cfg.max_suspend_records # 0 /\ x.count # 0) => w'.suspended = x.suspended
           /\ cfg.suspend_interval # 0 /\ Waited(x, li) =>
                 w'.until = Start(x.records[1]) + cfg.suspend_interval
           /\ Waited(x, li) \/ li = Eof
           /\ told' = told \o AllIds(x.records)
           /\ times' = Append(times, Start(x.records[1]))
<1>. USE DEF SameLog
<1>1. Good(x) /\ SameLog(w, x) BY ProcessEffect DEF Flush
<1>2. CfgOK /\ x \in Watches /\ li \in Items BY <1>1 DEF Good, EWInv, StateOK
<1>3. MustFlush(x, li) /\ w' = Flushed(x, li) BY DEF Flush
<1>4. /\ x.records \in Seq(Recs) /\ x.suspended \in Seq(Recs) /\ x.flush_count \in Nat
      /\ x.until \in Int
  BY <1>2 DEF Watches
<1>5. x.records # <<>> BY <1>2, <1>3, <1>4 DEF MustFlush, Waited, CfgOK
<1>6. Head(x.records) = x.records[1] /\ x.records[1] \in Recs BY <1>4, <1>5
<1>7. Start(x.records[1]) \in Nat BY <1>6, StartInNat
<1>8. PICK s : s = Start(x.records[1]) OBVIOUS
<1>9. PICK u : u = IF cfg.suspend_interval # 0 /\ Waited(x, li)
                   THEN s + cfg.suspend_interval ELSE x.until
  OBVIOUS
<1>10. u \in Int BY <1>2, <1>4, <1>7, <1>8, <1>9 DEF CfgOK
<1>11. PICK z : z = IF x.count # 0 /\ cfg.max_suspend_records # 0 THEN <<>> ELSE x.suspended
  OBVIOUS
<1>12. z \in Seq(Recs) BY <1>4, <1>11
<1>13. PICK n \in Nat : n = x.flush_count + 1 BY <1>4
<1>14. w' = [x EXCEPT !.until = u, !.suspended = z, !.count = 0, !.flush_count = n]
  BY <1>2, <1>3, <1>6, <1>8, <1>9, <1>11, <1>13 DEF Flushed, Watches
<1>15. w' \in Watches BY <1>2, <1>10, <1>12, <1>14 DEF Watches
<1>16. /\ w'.record = x.record /\ w'.records = x.records /\ w'.count = 0 /\ w'.flush_count = n
       /\ w'.event_log = x.event_log /\ w'.suspended = z /\ w'.until = u
  BY <1>2, <1>14 DEF Watches
<1>17. w'.flush_count = w.flush_count + 1 BY <1>1, <1>13, <1>16
<1>18. Waited(x, li) \/ li = Eof BY <1>3 DEF MustFlush
<1>19. told' = told \o AllIds(x.records) /\ times' = Append(times, Start(x.records[1]))
  BY <1>6 DEF Flush
<1>20. pc = "process" /\ pc' = "attach" BY DEF Flush
<1>21. cfg.suspend_interval # 0 /\ Waited(x, li) =>
          w'.until = Start(x.records[1]) + cfg.suspend_interval
  BY <1>8, <1>9, <1>16
<1>22. /\ cfg.max_suspend_records # 0 /\ x.count # 0 => w'.suspended = <<>>
       /\ ~(cfg.max_suspend_records # 0 /\ x.count # 0) => w'.suspended = x.suspended
  BY <1>11, <1>16
<1>. QED BY <1>1, <1>4, <1>5, <1>6, <1>7, <1>15, <1>16, <1>17, <1>18, <1>19, <1>20, <1>21, <1>22

LEMMA EmptyRecords == <<>> \in Seq(Recs)
OBVIOUS

LEMMA ProcessDone ==
    ASSUME EWInv, Process, NEW x, x = Collected(w, li)
    PROVE  /\ Good(x) /\ SameLog(w, x) /\ Carries(w, x, li)
           /\ w' \in Watches /\ w'.record = x.record /\ w'.records = x.records
           /\ SameLog(w, w') /\ (li # Eof => w' = x)
<1>1. Good(x) /\ SameLog(w, x) /\ Carries(w, x, li) BY ProcessEffect DEF Process
<1>2. x \in Watches BY <1>1 DEF Good
<1>3. CASE li = Eof
  <2>0. PICK z : z = <<>> /\ z \in Seq(Recs) BY EmptyRecords
  <2>1. w' = [x EXCEPT !.suspended = z] BY <1>3, <2>0 DEF Process
  <2>2. w' \in Watches BY <1>2, <2>0, <2>1 DEF Watches
  <2>3. /\ w'.record = x.record /\ w'.records = x.records /\ w'.until = x.until
        /\ w'.flush_count = x.flush_count /\ w'.event_log = x.event_log
    BY <1>2, <2>1 DEF Watches
  <2>. QED BY <1>1, <1>3, <2>2, <2>3 DEF SameLog
<1>4. CASE li # Eof
  <2>1. w' = x BY <1>4 DEF Process
  <2>. QED BY <1>1, <1>2, <2>1
<1>. QED BY <1>3, <1>4

LEMMA LoggedEffect ==
    ASSUME EWInv, pc = "log", NEW l, l = Logged(w)
    PROVE  /\ l \in Seq(Nat)
           /\ cfg.events.interval # 0 =>
                 /\ Len(l) = Shorter(Events, cfg.events.count + 1) /\ Len(l) > 0
                 /\ \A j \in 1 .. Len(l) : l[j] = times[Events + 1 - j]
<1>1. /\ w.event_log \in Seq(Nat) /\ w.records \in Seq(Recs) /\ times \in Seq(Nat)
      /\ cfg.events.count \in Nat \ {0} /\ cfg.events.interval \in Nat
  BY DEF EWInv, StateOK, CfgOK, Watches
<1>2. w.records # <<>> /\ times # <<>> /\ times[Events] = Start(Head(w.records))
  BY DEF EWInv, LogInv, Reporting
<1>3. CASE cfg.events.interval = 0 BY <1>1, <1>3 DEF Logged
<1>4. CASE cfg.events.interval # 0
  <2>1. PICK n \in Nat : n = Events BY <1>1 DEF Events
  <2>2. n >= 1 BY <1>1, <1>2, <2>1 DEF Events
  <2>3. PICK c \in Nat : c = cfg.events.count BY <1>1
  <2>4. /\ Len(w.event_log) = Shorter(n - 1, c + 1)
        /\ \A j \in 1 .. Len(w.event_log) : w.event_log[j] = times[n - j]
    BY <1>1, <1>4, <2>1, <2>3 DEF EWInv, LogInv, LoggedEvents, Reporting
  <2>5. PICK s \in Nat : s = Start(Head(w.records))
    <3>1. Head(w.records) \in Recs BY <1>1, <1>2
    <3>. QED BY <3>1, StartInNat
  <2>6. PICK e \in Seq(Nat) : e = w.event_log BY <1>1
  <2>7. PICK z : z = <<s>> \o e OBVIOUS
  <2>8. /\ z \in Seq(Nat) /\ Len(z) = Len(e) + 1 /\ z[1] = s
        /\ \A j \in 2 .. Len(z) : z[j] = e[j - 1]
    BY <2>7
  <2>9. \A j \in 1 .. Len(z) : z[j] = times[n + 1 - j]
    <3>1. z[1] = times[n] BY <1>2, <2>1, <2>5, <2>8
    <3>2. ASSUME NEW j \in 2 .. Len(z) PROVE z[j] = times[n + 1 - j]
      <4>1. PICK k \in 1 .. Len(e) : k = j - 1 BY <2>8
      <4>2. e[k] = times[n - k] BY <2>4, <2>6
      <4>3. n - k = n + 1 - j BY <4>1
      <4>. QED BY <2>8, <4>1, <4>2, <4>3
    <3>3. n + 1 - 1 = n OBVIOUS
    <3>4. \A j \in 1 .. Len(z) : j = 1 \/ j \in 2 .. Len(z) OBVIOUS
    <3>. QED BY <3>1, <3>2, <3>3, <3>4
  <2>10. l = IF Len(z) > c + 1 THEN SubSeq(z, 1, Len(z) - 1) ELSE z
    BY <1>4, <2>3, <2>5, <2>6, <2>7 DEF Logged
  <2>11. l \in Seq(Nat) /\ Len(l) = Shorter(n, c + 1) /\ Len(l) > 0
         /\ \A j \in 1 .. Len(l) : l[j] = z[j] /\ j \in 1 .. Len(z)
    <3>1. CASE Len(z) > c + 1
      <4>1. l = SubSeq(z, 1, Len(z) - 1) BY <2>10, <3>1
      <4>2. Len(z) - 1 \in 0 .. Len(z) BY <2>8
      <4>3. l \in Seq(Nat) /\ Len(l) = Len(z) - 1 /\ \A j \in 1 .. Len(l) : l[j] = z[j]
        BY <2>8, <4>1, <4>2
      <4>. QED BY <2>2, <2>4, <2>6, <2>8, <3>1, <4>3 DEF Shorter
    <3>2. CASE ~(Len(z) > c + 1)
      BY <2>2, <2>4, <2>6, <2>8, <2>10, <3>2 DEF Shorter
    <3>. QED BY <3>1, <3>2
  <2>. QED BY <2>1, <2>3, <2>9, <2>11
<1>. QED BY <1>1, <1>3, <1>4

LEMMA LogEffect ==
    ASSUME EWInv, LogEvent
    PROVE  /\ pc = "log" /\ w' \in Watches /\ w'.record = w.record /\ w'.records = <<>>
           /\ w'.suspended = w.suspended /\ w'.count = w.count /\ w'.until = w.until
           /\ w'.flush_count = w.flush_count /\ w'.event_log = Logged(w)
<1>1. pc = "log" /\ w \in Watches BY DEF LogEvent, EWInv, StateOK
<1>2. PICK l \in Seq(Nat) : l = Logged(w) BY <1>1, LoggedEffect
<1>5. PICK z : z = <<>> /\ z \in Seq(Recs) BY EmptyRecords
<1>3. w' = [w EXCEPT !.event_log = l, !.records = z] BY <1>2, <1>5 DEF LogEvent
<1>4. w' \in Watches BY <1>1, <1>2, <1>3, <1>5 DEF Watches
<1>. QED BY <1>1, <1>2, <1>3, <1>4, <1>5 DEF Watches

LEMMA StateStep ==
    ASSUME EWInv, [Next]_vars
    PROVE  StateOK'
<1>. USE Constants DEF mainVars, sharedVars, threadVars, childVars, historyVars
<1>0. StateOK /\ CfgOK /\ last.ts <= clock BY DEF EWInv, StateOK, QueueInv
<1>16. mailbox \in Seq(Items) /\ items_available \in Nat /\ item \in Items /\ li \in Items
  BY <1>0 DEF StateOK
<1>1. cfg' = cfg /\ CfgOK'
  <2>1. cfg' = cfg
    BY DEF Next, Main, Thread, Get, FeedCheck, FeedPush, WaitThreadStop, ThreadEntry,
       TakeItem, Process, Flush, Attach, Exec, LogEvent, ThreadExit, ChildEnds, Restart, vars
  <2>. QED BY <1>0, <2>1 DEF CfgOK
<1>2. CASE Get
  <2>1. /\ item' \in Items /\ lastid' \in Nat /\ clock' \in Nat
        /\ last' \in [prio : Nat, ts : Nat]
    BY <1>0, <1>2, GetEffect
  <2>. QED BY <1>0, <1>1, <1>2, <2>1 DEF Get, StateOK
<1>3. CASE FeedCheck BY <1>0, <1>1, <1>3 DEF FeedCheck, StateOK, Back
<1>4. CASE FeedPush
  <2>1. mailbox' \in Seq(Items) /\ items_available' \in Nat
    <3>1. \/ mailbox' = <<Eof>> /\ items_available' = items_available + 1
          \/ mailbox' = Append(mailbox, item) /\ items_available' = items_available + 1
          \/ mailbox' = mailbox /\ items_available' = items_available
      BY <1>4, Zenon DEF FeedPush
    <3>2. <<Eof>> \in Seq(Items) /\ Append(mailbox, item) \in Seq(Items) BY <1>16
    <3>3. mailbox' \in Seq(Items) BY <1>16, <3>1, <3>2
    <3>4. items_available' \in Nat BY <1>16, <3>1
    <3>. QED BY <3>3, <3>4
  <2>2. accept_data' \in BOOLEAN BY <1>0, <1>4, Zenon DEF FeedPush, StateOK
  <2>. QED BY <1>0, <1>1, <1>4, <2>1, <2>2 DEF FeedPush, StateOK, Back
<1>5. CASE ThreadEntry BY <1>0, <1>1, <1>5 DEF ThreadEntry, StateOK
<1>6. CASE TakeItem
  <2>1. mailbox' \in Seq(Items) /\ li' \in Items /\ items_available' \in Nat
    BY <1>6, <1>16 DEF TakeItem
  <2>2. pc' \in {"wait", "process"} BY <1>6 DEF TakeItem
  <2>. QED BY <1>0, <1>1, <1>6, <2>1, <2>2 DEF TakeItem, StateOK
<1>7. CASE Process
  <2>1. w' \in Watches BY <1>7, ProcessDone DEF EWInv
  <2>. QED BY <1>0, <1>1, <1>7, <2>1 DEF Process, StateOK, Leave
<1>8. CASE Flush
  <2>1. PICK x : x = Collected(w, li) OBVIOUS
  <2>2. /\ w' \in Watches /\ x.records \in Seq(Recs) /\ told' = told \o AllIds(x.records)
        /\ times' = Append(times, Start(x.records[1])) /\ Start(x.records[1]) \in Nat
    BY <1>8, <2>1, FlushEffect
  <2>3. told' \in Seq(Seq(Nat))
    <3>1. told \in Seq(Seq(Nat)) /\ AllIds(x.records) \in Seq(Seq(Nat)) BY <1>0, <2>2, IdsInSeq DEF StateOK
    <3>. QED BY <2>2, <3>1
  <2>4. times' \in Seq(Nat) BY <1>0, <2>2 DEF StateOK
  <2>5. dirs' \subseteq [run : Nat, n : Int]
    <3>1. x \in Watches BY <1>8, <2>1, ProcessEffect DEF Flush, Good
    <3>2. x.flush_count \in Nat /\ cfg.keep_last \in Nat /\ runs \in Nat /\ dirs \subseteq [run : Nat, n : Int]
      BY <1>0, <3>1 DEF Watches, CfgOK, StateOK
    <3>3. PICK kept \in SUBSET Doomed(x.flush_count) : SetupDirs(x.flush_count, kept)
      BY <1>8, <2>1 DEF Flush
    <3>4. dirs' \subseteq dirs \cup kept \cup {[run |-> runs, n |-> x.flush_count]}
      BY <3>3 DEF SetupDirs
    <3>5. kept \subseteq dirs BY <3>3 DEF Doomed
    <3>. QED BY <3>2, <3>4, <3>5
  <2>. QED BY <1>0, <1>1, <1>8, <2>2, <2>3, <2>4, <2>5 DEF Flush, StateOK
<1>9. CASE Attach BY <1>0, <1>1, <1>9 DEF Attach, StateOK
<1>10. CASE Exec BY <1>0, <1>1, <1>10 DEF Exec, StateOK
<1>11. CASE LogEvent
  <2>1. w' \in Watches BY <1>11, LogEffect
  <2>2. mailbox' \in Seq(Items) /\ items_available' \in Nat
    <3>1. \/ mailbox' = <<Eof>> /\ items_available' = items_available + 1
          \/ mailbox' = mailbox /\ items_available' = items_available
      BY <1>11 DEF LogEvent
    <3>2. <<Eof>> \in Seq(Items) BY Constants
    <3>3. mailbox' \in Seq(Items) BY <1>16, <3>1, <3>2, Zenon
    <3>4. items_available' \in Nat BY <1>16, <3>1
    <3>. QED BY <3>3, <3>4
  <2>3. accept_data' \in BOOLEAN BY <1>0, <1>11, Zenon DEF LogEvent, StateOK
  <2>. QED BY <1>0, <1>1, <1>11, <2>1, <2>2, <2>3 DEF LogEvent, StateOK, Leave
<1>12. CASE ThreadExit BY <1>0, <1>1, <1>12 DEF ThreadExit, StateOK
<1>13. CASE ChildEnds \/ WaitThreadStop BY <1>0, <1>1, <1>13 DEF ChildEnds, WaitThreadStop, StateOK
<1>14. CASE Restart BY <1>0, <1>1, <1>14 DEF Restart, Fresh, StateOK
<1>15. CASE UNCHANGED vars BY <1>0, <1>1, <1>15 DEF vars, StateOK
<1>. QED BY <1>2, <1>3, <1>4, <1>5, <1>6, <1>7, <1>8, <1>9, <1>10, <1>11, <1>12, <1>13, <1>14, <1>15
     DEF Next, Main, Thread
-----------------------------------------------------------------------------
(* The mailbox: an end in it, or taken from it, whenever it is closed. *)

LEMMA EndIsNotBlank == Eof # Blank /\ ~Real(Eof) /\ ~Real(Blank)
BY DEF Eof, Blank, Real

LEMMA BoxIsSound == StateOK /\ BoxInv => MailboxSound
<1>. SUFFICES ASSUME StateOK, BoxInv PROVE WokenForData
  BY DEF MailboxSound, BoxInv
<1>. SUFFICES ASSUME pc = "wait", items_available > 0 PROVE mailbox # <<>>
  BY DEF WokenForData
<1>1. CASE accept_data
  <2>1. items_available = Len(mailbox) BY <1>1 DEF BoxInv
  <2>2. Len(<<>>) = 0 OBVIOUS
  <2>. QED BY <2>1, <2>2
<1>2. CASE ~accept_data
  <2>1. li # Eof BY EndIsNotBlank DEF BoxInv
  <2>2. mailbox = <<Eof>> BY <1>2, <2>1 DEF BoxInv, EndIsLast
  <2>. QED BY <2>2
<1>. QED BY <1>1, <1>2

LEMMA BoxStep ==
    ASSUME StateOK, BoxInv, [Next]_vars
    PROVE  BoxInv'
<1>. USE EndIsNotBlank DEF mainVars, sharedVars, threadVars, childVars, historyVars
<1>1. mailbox \in Seq(Items) /\ items_available \in Nat BY DEF StateOK
<1>2. CASE Get BY <1>2 DEF Get, BoxInv, EndIsLast
<1>3. CASE FeedCheck BY <1>3 DEF FeedCheck, BoxInv, EndIsLast, Back
<1>4. CASE FeedPush
  <2>1. pc' = pc /\ pc # "entry" /\ li' = li /\ thread_state' = thread_state
    BY <1>4 DEF FeedPush, BoxInv
  <2>2. \/ mailbox' = <<Eof>> /\ accept_data' = FALSE
        \/ /\ accept_data /\ accept_data' = accept_data /\ mailbox' = Append(mailbox, item)
           /\ items_available' = items_available + 1
        \/ UNCHANGED <<mailbox, accept_data, items_available>>
    BY <1>4 DEF FeedPush
  <2>3. accept_data' => items_available' = Len(mailbox')
    <3>1. accept_data => items_available = Len(mailbox) BY DEF BoxInv
    <3>2. Len(Append(mailbox, item)) = Len(mailbox) + 1 BY <1>1
    <3>. QED BY <2>2, <3>1, <3>2
  <2>4. EndIsLast' BY <2>1, <2>2 DEF BoxInv, EndIsLast
  <2>. QED BY <2>1, <2>3, <2>4 DEF BoxInv
<1>5. CASE ThreadEntry BY <1>5 DEF ThreadEntry, BoxInv, EndIsLast
<1>6. CASE TakeItem
  <2>1. accept_data' = accept_data /\ pc = "wait" /\ li = Blank /\ thread_state' = thread_state
    BY <1>6 DEF TakeItem, BoxInv
  <2>2. mailbox # <<>> /\ thread_state = "RUNNING"
    <3>1. items_available > 0 BY <1>6 DEF TakeItem
    <3>2. WokenForData BY BoxIsSound DEF MailboxSound
    <3>. QED BY <2>1, <3>1, <3>2 DEF WokenForData, BoxInv, StateOK
  <2>3. /\ li' = Head(mailbox) /\ mailbox' = Tail(mailbox) /\ pc' = "process"
        /\ items_available' = items_available - 1
    BY <1>6, <2>2 DEF TakeItem
  <2>4. accept_data' => items_available' = Len(mailbox')
    BY <1>1, <2>1, <2>2, <2>3 DEF BoxInv
  <2>5. EndIsLast'
    <3>1. CASE ~accept_data
      <4>1. mailbox = <<Eof>> BY <2>2, <3>1 DEF BoxInv, EndIsLast
      <4>2. li' = Eof /\ mailbox' = <<>> BY <2>3, <4>1
      <4>. QED BY <4>2 DEF EndIsLast
    <3>2. CASE accept_data BY <2>1, <3>2 DEF EndIsLast
    <3>. QED BY <3>1, <3>2
  <2>. QED BY <2>1, <2>2, <2>3, <2>4, <2>5 DEF BoxInv
<1>7. CASE Process BY <1>7 DEF Process, BoxInv, EndIsLast, Leave
<1>8. CASE Flush BY <1>8 DEF Flush, BoxInv, EndIsLast
<1>9. CASE Attach BY <1>9 DEF Attach, BoxInv, EndIsLast
<1>10. CASE Exec BY <1>10 DEF Exec, BoxInv, EndIsLast
<1>11. CASE LogEvent BY <1>11 DEF LogEvent, BoxInv, EndIsLast, Leave
<1>12. CASE ThreadExit BY <1>12 DEF ThreadExit, BoxInv, EndIsLast
<1>13. CASE ChildEnds \/ WaitThreadStop
  BY <1>13 DEF ChildEnds, WaitThreadStop, BoxInv, EndIsLast
<1>14. CASE Restart BY <1>14 DEF Restart, Fresh, BoxInv, EndIsLast
<1>15. CASE UNCHANGED vars BY <1>15 DEF vars, BoxInv, EndIsLast
<1>. QED BY <1>2, <1>3, <1>4, <1>5, <1>6, <1>7, <1>8, <1>9, <1>10, <1>11, <1>12, <1>13, <1>14, <1>15
     DEF Next, Main, Thread
-----------------------------------------------------------------------------
(* The items on their way from the reader to the thread. *)

NotBefore(i, j) == i.id <= j.id /\ i.ts <= j.ts

LEMMA ComingType == StateOK => Coming \in Items /\ Coming.id = lastid + 1 /\ Coming.ts = Now
<1>. SUFFICES ASSUME StateOK PROVE Coming \in Items /\ Coming.id = lastid + 1 /\ Coming.ts = Now
  OBVIOUS
<1>1. PICK n \in Nat : n = lastid + 1 BY DEF StateOK
<1>2. PICK t \in Nat : t = Now BY DEF StateOK, Now
<1>. QED BY <1>1, <1>2 DEF Coming, Items, ItemKinds

LEMMA ComingTypePrimed == (StateOK => Coming \in Items /\ Coming.id = lastid + 1 /\ Coming.ts = Now)'
BY ComingType, PTL

LEMMA GetOrder ==
    ASSUME StateOK, StateOK', last.ts <= clock, Get
    PROVE  /\ NotBefore(Coming, Coming')
           /\ Real(item') => NotBefore(Coming, item') /\ Earlier(item', Coming')
           /\ Real(item') \/ item' \in {Eof, Blank}
<1>1. Fetched(item') \/ Quiet(item') BY GetEffect
<1>2. Coming \in Items /\ Coming.id = lastid + 1 /\ Coming.ts = Now BY ComingType
<1>3. Coming' \in Items /\ Coming'.id = lastid' + 1 /\ Coming'.ts = Now' BY ComingTypePrimed
<1>4. lastid \in Nat /\ item' \in Items BY DEF StateOK
<1>5. Now \in Nat /\ Now' \in Nat BY <1>2, <1>3 DEF Items
<1>6. CASE Fetched(item')
  BY <1>2, <1>3, <1>4, <1>5, <1>6 DEF Fetched, NotBefore, Earlier, Real, Items
<1>7. CASE Quiet(item')
  BY <1>2, <1>3, <1>4, <1>5, <1>7, EndIsNotBlank DEF Quiet, NotBefore
<1>. QED BY <1>1, <1>6, <1>7

LEMMA EarlierThan ==
    ASSUME NEW i \in Items, NEW j \in Items, NEW k \in Items, Earlier(i, j), NotBefore(j, k)
    PROVE  Earlier(i, k)
BY DEF Earlier, NotBefore, Items

LEMMA QueueStep ==
    ASSUME StateOK, StateOK', BoxInv, QueueInv, [Next]_vars
    PROVE  QueueInv'
<1>. USE EndIsNotBlank DEF mainVars, sharedVars, threadVars, childVars, historyVars, Reporting
<1>1. mailbox \in Seq(Items) /\ item \in Items /\ li \in Items
  BY DEF StateOK
<1>2. CASE Get
  <2>1. /\ NotBefore(Coming, Coming')
        /\ Real(item') => NotBefore(Coming, item') /\ Earlier(item', Coming')
        /\ Real(item') \/ item' \in {Eof, Blank}
        /\ last'.ts <= clock'
    BY <1>2, GetOrder, GetEffect DEF QueueInv
  <2>2. Coming \in Items /\ Coming' \in Items /\ item' \in Items
    BY ComingType, ComingTypePrimed DEF StateOK
  <2>3. \A j \in Items : Earlier(j, Coming) => Earlier(j, Coming') /\ (Real(item') => Earlier(j, item'))
    BY <2>1, <2>2, EarlierThan
  <2>4. /\ mailbox' = mailbox /\ li' = li /\ pc' = pc
        /\ main' = IF item' = Blank THEN "loop" ELSE "feed"
    BY <1>2 DEF Get
  <2>5. \A k \in 1 .. Len(mailbox) : mailbox[k] \in Items
    <3>1. mailbox \in Seq(Items) BY DEF StateOK
    <3>. QED BY <3>1
  <2>6. li \in Items BY DEF StateOK
  <2>7. main' \in {"feed", "start", "push"} => Sent(item') BY <2>1, <2>4 DEF Sent
  <2>8. main' \in {"first", "loop", "join"} => item' = Blank BY <2>4
  <2>9. Real(li) => Earlier(li, Coming') /\ (Real(item') => Earlier(li, item'))
    BY <2>3, <2>6 DEF QueueInv
  <2>10. \A k \in 1 .. Len(mailbox) : Real(mailbox[k]) =>
          /\ Earlier(mailbox[k], Coming')
          /\ Real(item') => Earlier(mailbox[k], item')
          /\ Real(li) => Earlier(li, mailbox[k])
          /\ \A j \in 1 .. k - 1 : Real(mailbox[j]) => Earlier(mailbox[j], mailbox[k])
    BY <2>3, <2>5 DEF QueueInv
  <2>. QED BY <2>1, <2>4, <2>7, <2>8, <2>9, <2>10 DEF QueueInv
<1>3. ASSUME UNCHANGED <<cfg, last, clock, lastid>> PROVE Coming' = Coming
  BY <1>3 DEF Coming, Now
<1>4. CASE FeedCheck
  <2>1. Coming' = Coming BY <1>3, <1>4 DEF FeedCheck
  <2>2. item' = item \/ item' = Blank BY <1>4 DEF FeedCheck
  <2>3. mailbox' = mailbox /\ li' = li /\ last' = last /\ clock' = clock BY <1>4 DEF FeedCheck
  <2>4. pc' \in {"process"} \cup Reporting => pc' = pc BY <1>4 DEF FeedCheck
  <2>5. main' \in {"start", "push", "loop", "join"} /\ main = "feed" BY <1>4 DEF FeedCheck, Back
  <2>6. main' \in {"loop", "join"} => item' = Blank BY <1>4 DEF FeedCheck, Back
  <2>7. main' \in {"start", "push"} => item' = item BY <1>4 DEF FeedCheck, Back
  <2>. QED BY <2>1, <2>2, <2>3, <2>4, <2>5, <2>6, <2>7 DEF QueueInv
<1>5. CASE FeedPush
  <2>1. Coming' = Coming /\ last' = last /\ clock' = clock /\ li' = li /\ pc' = pc /\ item' = Blank
    BY <1>3, <1>5 DEF FeedPush
  <2>2. main = "push" /\ main' \in {"join", "loop"} BY <1>5 DEF FeedPush, Back
  <2>3. \/ mailbox' = <<Eof>> \/ mailbox' = Append(mailbox, item) \/ mailbox' = mailbox
    BY <1>5 DEF FeedPush
  <2>4. CASE mailbox' = mailbox BY <2>1, <2>2, <2>4 DEF QueueInv
  <2>5. CASE mailbox' = <<Eof>>
    <3>1. \A k \in 1 .. Len(mailbox') : mailbox'[k] = Eof BY <2>5
    <3>. QED BY <2>1, <2>2, <3>1 DEF QueueInv, Sent
  <2>6. CASE mailbox' = Append(mailbox, item)
    <3>1. \A k \in 1 .. Len(mailbox') : \/ k \in 1 .. Len(mailbox) /\ mailbox'[k] = mailbox[k]
                                        \/ k = Len(mailbox) + 1 /\ mailbox'[k] = item
      BY <1>1, <2>6
    <3>2. \A k \in 1 .. Len(mailbox') : \A j \in 1 .. k - 1 :
             j \in 1 .. Len(mailbox) /\ mailbox'[j] = mailbox[j]
      BY <1>1, <2>6
    <3>3. Sent(item) BY <2>2 DEF QueueInv
    <3>4. \A k \in 1 .. Len(mailbox') : Sent(mailbox'[k]) BY <3>1, <3>3 DEF QueueInv
    <3>5. ASSUME NEW k \in 1 .. Len(mailbox'), Real(mailbox'[k])
          PROVE  /\ Earlier(mailbox'[k], Coming)
                 /\ Real(li) => Earlier(li, mailbox'[k])
                 /\ \A j \in 1 .. k - 1 : Real(mailbox'[j]) => Earlier(mailbox'[j], mailbox'[k])
      BY <3>1, <3>2, <3>5 DEF QueueInv
    <3>. QED BY <2>1, <2>2, <3>4, <3>5 DEF QueueInv
  <2>. QED BY <2>3, <2>4, <2>5, <2>6
<1>6. CASE ThreadEntry
  <2>1. /\ Coming' = Coming /\ last' = last /\ clock' = clock /\ li' = li /\ pc' = "wait"
        /\ item' = item /\ mailbox' = mailbox /\ pc = "entry" /\ main' = "push"
    BY <1>3, <1>6 DEF ThreadEntry
  <2>2. main = "start" BY <2>1 DEF BoxInv
  <2>. QED BY <2>1, <2>2 DEF QueueInv
<1>7. CASE TakeItem
  <2>1. /\ Coming' = Coming /\ last' = last /\ clock' = clock /\ item' = item /\ main' = main
        /\ pc = "wait"
    BY <1>3, <1>7 DEF TakeItem
  <2>2. CASE mailbox = <<>>
    <3>1. mailbox' = mailbox /\ li' = li /\ pc' = pc BY <1>7, <2>2 DEF TakeItem
    <3>. QED BY <2>1, <3>1 DEF QueueInv
  <2>3. CASE mailbox # <<>>
    <3>1. li' = Head(mailbox) /\ mailbox' = Tail(mailbox) BY <1>7, <2>3 DEF TakeItem
    <3>2. mailbox \in Seq(Items) BY DEF StateOK
    <3>3. 1 \in 1 .. Len(mailbox) /\ li' = mailbox[1] BY <2>3, <3>1, <3>2
    <3>4. \A k \in 1 .. Len(mailbox') :
            k + 1 \in 1 .. Len(mailbox) /\ mailbox'[k] = mailbox[k + 1] /\ 1 \in 1 .. (k + 1) - 1
      BY <2>3, <3>1, <3>2
    <3>5. \A k \in 1 .. Len(mailbox) :
             /\ Sent(mailbox[k])
             /\ Real(mailbox[k]) =>
                   /\ Earlier(mailbox[k], Coming) /\ (Real(item) => Earlier(mailbox[k], item))
                   /\ \A j \in 1 .. k - 1 : Real(mailbox[j]) => Earlier(mailbox[j], mailbox[k])
      BY DEF QueueInv
    <3>6. \A k \in 1 .. Len(mailbox') : \A j \in 1 .. k - 1 :
             j \in 1 .. Len(mailbox') /\ j + 1 \in 1 .. (k + 1) - 1
      BY <2>3, <3>1, <3>2
    <3>7. ASSUME NEW k \in 1 .. Len(mailbox'), Real(mailbox'[k])
          PROVE  /\ Earlier(mailbox'[k], Coming) /\ (Real(item) => Earlier(mailbox'[k], item))
                 /\ Real(li') => Earlier(li', mailbox'[k])
                 /\ \A j \in 1 .. k - 1 : Real(mailbox'[j]) => Earlier(mailbox'[j], mailbox'[k])
      BY <3>3, <3>4, <3>5, <3>6, <3>7
    <3>8. \A k \in 1 .. Len(mailbox') : Sent(mailbox'[k]) BY <3>4, <3>5
    <3>9. Sent(li') /\ (Real(li') => Earlier(li', Coming) /\ (Real(item) => Earlier(li', item)))
      BY <3>3, <3>5
    <3>. QED BY <2>1, <3>7, <3>8, <3>9 DEF QueueInv
  <2>. QED BY <2>2, <2>3
<1>8. CASE Process \/ LogEvent
  <2>1. /\ Coming' = Coming /\ last' = last /\ clock' = clock /\ li' = Blank /\ item' = item
        /\ main' = main /\ pc' \in {"wait", "exit"}
    BY <1>3, <1>8 DEF Process, LogEvent, Leave
  <2>2. mailbox' = mailbox \/ mailbox' = <<Eof>> BY <1>8 DEF Process, LogEvent
  <2>3. CASE mailbox' = mailbox BY <2>1, <2>3 DEF QueueInv
  <2>4. CASE mailbox' = <<Eof>>
    <3>1. \A k \in 1 .. Len(mailbox') : mailbox'[k] = Eof BY <2>4
    <3>. QED BY <2>1, <3>1 DEF QueueInv, Sent
  <2>. QED BY <2>2, <2>3, <2>4
<1>9. CASE Flush \/ Attach \/ Exec \/ ThreadExit \/ ChildEnds \/ WaitThreadStop
  <2>1. Coming' = Coming BY <1>3, <1>9 DEF Flush, Attach, Exec, ThreadExit, ChildEnds, WaitThreadStop
  <2>2. /\ last' = last /\ clock' = clock /\ li' = li /\ item' = item /\ mailbox' = mailbox
        /\ main' = main \/ main' = "over"
    BY <1>9 DEF Flush, Attach, Exec, ThreadExit, ChildEnds, WaitThreadStop
  <2>3. pc' \in {"process"} \cup Reporting => pc \in {"process"} \cup Reporting
    BY <1>9 DEF Flush, Attach, Exec, ThreadExit, ChildEnds, WaitThreadStop
  <2>. QED BY <2>1, <2>2, <2>3 DEF QueueInv
<1>10. CASE Restart
  <2>1. /\ main' = "first" /\ item' = Blank /\ li' = Blank /\ mailbox' = <<>> /\ pc' = "none"
        /\ last'.ts = 0 /\ clock' = clock
    BY <1>10 DEF Restart, Fresh
  <2>2. \A k \in 1 .. Len(mailbox') : FALSE BY <2>1
  <2>. QED BY <2>1, <2>2 DEF QueueInv, StateOK
<1>11. CASE UNCHANGED vars
  <2>1. Coming' = Coming BY <1>3, <1>11 DEF vars
  <2>. QED BY <1>11, <2>1 DEF vars, QueueInv
<1>. QED BY <1>2, <1>4, <1>5, <1>6, <1>7, <1>8, <1>9, <1>10, <1>11 DEF Next, Main, Thread
-----------------------------------------------------------------------------
(* The order of the records. *)

\* The items that the thread will take, and the next one to be read.
Queued(i) ==
    \/ i = Coming
    \/ Real(i) /\ (i = item \/ \E k \in 1 .. Len(mailbox) : i = mailbox[k])

LEMMA QueuedLater ==
    OrderInv => \A i : Queued(i) => Later(i)
BY DEF OrderInv, Queued

LEMMA QueuedIsAfter ==
    ASSUME StateOK, QueueInv, NEW i, Queued(i)
    PROVE  i \in Items /\ (Real(li) => Earlier(li, i))
<1>1. Coming \in Items BY ComingType
<1>2. item \in Items /\ \A k \in 1 .. Len(mailbox) : mailbox[k] \in Items BY DEF StateOK
<1>. QED BY <1>1, <1>2 DEF Queued, QueueInv

LEMMA QueuedStep ==
    ASSUME StateOK, [Next]_vars, ~Get, ~Restart, NEW i, Queued(i)'
    PROVE  Queued(i)
<1>. USE EndIsNotBlank DEF mainVars, sharedVars, threadVars, childVars, historyVars
<1>1. Coming' = Coming
  BY DEF Coming, Now, Next, Main, Thread, FeedCheck, FeedPush, WaitThreadStop, ThreadEntry,
     TakeItem, Process, Flush, Attach, Exec, LogEvent, ThreadExit, ChildEnds, vars
<1>2. item' = item \/ item' = Blank
  BY DEF Next, Main, Thread, FeedCheck, FeedPush, WaitThreadStop, ThreadEntry,
     TakeItem, Process, Flush, Attach, Exec, LogEvent, ThreadExit, ChildEnds, vars
<1>3. \/ mailbox' = mailbox \/ mailbox' = <<Eof>> \/ mailbox' = Append(mailbox, item)
      \/ mailbox # <<>> /\ mailbox' = Tail(mailbox)
  BY DEF Next, Main, Thread, FeedCheck, FeedPush, WaitThreadStop, ThreadEntry,
     TakeItem, Process, Flush, Attach, Exec, LogEvent, ThreadExit, ChildEnds, vars
<1>4. mailbox \in Seq(Items) BY DEF StateOK
<1>5. ASSUME NEW k \in 1 .. Len(mailbox'), Real(mailbox'[k])
      PROVE  mailbox'[k] = item \/ \E j \in 1 .. Len(mailbox) : mailbox'[k] = mailbox[j]
  <2>1. CASE mailbox' = mailbox BY <2>1
  <2>2. CASE mailbox' = <<Eof>>
    <3>1. mailbox'[k] = Eof BY <2>2
    <3>. QED BY <1>5, <3>1
  <2>3. CASE mailbox' = Append(mailbox, item)
    <3>1. (k \in 1 .. Len(mailbox) /\ mailbox'[k] = mailbox[k]) \/ mailbox'[k] = item BY <1>4, <2>3
    <3>. QED BY <3>1
  <2>4. CASE mailbox # <<>> /\ mailbox' = Tail(mailbox)
    <3>1. k + 1 \in 1 .. Len(mailbox) /\ mailbox'[k] = mailbox[k + 1] BY <1>4, <2>4
    <3>. QED BY <3>1
  <2>. QED BY <1>3, <2>1, <2>2, <2>3, <2>4
<1>. QED BY <1>1, <1>2, <1>5 DEF Queued

LEMMA LaterMono ==
    ASSUME StateOK, NEW i \in Items, NEW j \in Items, Later(i), NotBefore(i, j)
    PROVE  Later(j)
<1>1. ASSUME NEW r \in Recs \cup {NoRecord}, AfterRecord(r, i) PROVE AfterRecord(r, j)
  <2>0. <<>> \in Seq(Items) OBVIOUS
  <2>1. r.items \in Seq(Items)
    <3>1. CASE r \in Recs BY <3>1 DEF Recs
    <3>2. CASE r = NoRecord BY <2>0, <3>2 DEF NoRecord
    <3>. QED BY <3>1, <3>2
  <2>2. \A k \in 1 .. Len(r.items) : r.items[k] \in Items BY <2>1
  <2>. QED BY <1>1, <2>2, EarlierThan DEF AfterRecord
<1>2. w.record \in Recs \cup {NoRecord} /\ w.records \in Seq(Recs) BY DEF StateOK, Watches
<1>3. \A k \in 1 .. Len(w.records) : w.records[k] \in Recs BY <1>2
<1>4. AfterWatch(w, j) BY <1>1, <1>2, <1>3 DEF Later, AfterWatch
<1>5. AfterTold(j)
  <2>1. told \in Seq(Seq(Nat)) /\ times \in Seq(Nat) BY DEF StateOK
  <2>2. \A a \in 1 .. Len(told) : told[a] \in Seq(Nat) BY <2>1
  <2>3. \A a \in 1 .. Len(told) : \A b \in 1 .. Len(told[a]) : told[a][b] \in Nat BY <2>2
  <2>4. \A k \in 1 .. Len(times) : times[k] \in Nat BY <2>1
  <2>5. i.id \in Nat /\ i.ts \in Nat /\ j.id \in Nat /\ j.ts \in Nat BY DEF Items
  <2>6. AfterTold(i) BY DEF Later
  <2>7. \A a \in 1 .. Len(told) : \A b \in 1 .. Len(told[a]) : told[a][b] < j.id
    BY <2>3, <2>5, <2>6 DEF AfterTold, NotBefore
  <2>8. \A k \in 1 .. Len(times) : times[k] <= j.ts BY <2>4, <2>5, <2>6 DEF AfterTold, NotBefore
  <2>. QED BY <2>7, <2>8 DEF AfterTold
<1>. QED BY <1>4, <1>5 DEF Later

LEMMA ConcatLength ==
    ASSUME NEW S, NEW s \in Seq(S), NEW t \in Seq(S)
    PROVE  Len(s \o t) = Len(s) + Len(t) /\ Len(s) \in Nat /\ Len(t) \in Nat
OBVIOUS

LEMMA AppendCases ==
    ASSUME NEW S, NEW s \in Seq(S), NEW e \in S, NEW n, n = Append(s, e)
    PROVE  /\ Len(n) = Len(s) + 1 /\ n \in Seq(S)
           /\ \A k \in 1 .. Len(n) : \/ k \in 1 .. Len(s) /\ n[k] = s[k]
                                     \/ k = Len(s) + 1 /\ n[k] = e
OBVIOUS

\* nt is told with the items of the records rs, ns is times with an event of x.
AppendedIds(rs, nt) ==
    \A a \in 1 .. Len(nt) :
        \/ a \in 1 .. Len(told) /\ nt[a] = told[a]
        \/ \E c \in 1 .. Len(rs) :
              /\ a = Len(told) + c /\ Len(nt[a]) = Len(rs[c].items)
              /\ \A b \in 1 .. Len(nt[a]) : nt[a][b] = rs[c].items[b].id
AppendedTime(x, ns) ==
    \A k \in 1 .. Len(ns) : \/ k \in 1 .. Len(times) /\ ns[k] = times[k]
                            \/ k = Len(times) + 1 /\ ns[k] = x.records[1].items[1].ts

LEMMA ToldAppended ==
    ASSUME StateOK, NEW x, Good(x), x.records # <<>>, NEW nt, nt = told \o AllIds(x.records),
           NEW ns, ns = Append(times, Start(x.records[1]))
    PROVE  /\ AppendedIds(x.records, nt) /\ AppendedTime(x, ns)
           /\ x.records[1] \in Recs /\ 1 \in 1 .. Len(x.records) /\ 1 \in 1 .. Len(x.records[1].items)
<1>1. x.records \in Seq(Recs) BY DEF Good, Watches
<1>2. told \in Seq(Seq(Nat)) /\ times \in Seq(Nat) BY DEF StateOK
<1>3. 1 \in 1 .. Len(x.records) /\ x.records[1] \in Recs BY <1>1
<1>4. Start(x.records[1]) = x.records[1].items[1].ts /\ 1 \in 1 .. Len(x.records[1].items)
  BY <1>3, StartInNat
<1>5. PICK n : n = AllIds(x.records) OBVIOUS
<1>6. /\ n \in Seq(Seq(Nat)) /\ Len(n) = Len(x.records)
      /\ \A k \in 1 .. Len(x.records) : n[k] = IdsOf(x.records[k])
  BY <1>1, <1>5, IdsInSeq
<1>7. nt = told \o n BY <1>5
<1>8. ASSUME NEW a \in 1 .. Len(nt)
      PROVE  \/ a \in 1 .. Len(told) /\ nt[a] = told[a]
             \/ \E c \in 1 .. Len(x.records) : a = Len(told) + c /\ nt[a] = IdsOf(x.records[c])
  <2>1. CASE a <= Len(told) BY <1>2, <1>6, <1>7, <2>1
  <2>2. CASE a > Len(told)
    <3>0. Len(nt) = Len(told) + Len(n) /\ Len(told) \in Nat /\ Len(n) \in Nat
      BY <1>2, <1>6, <1>7, ConcatLength
    <3>4. a - Len(told) \in 1 .. Len(n) BY <2>2, <3>0
    <3>1. PICK c \in 1 .. Len(n) : c = a - Len(told) BY <3>4
    <3>2. nt[a] = n[c] BY <1>2, <1>6, <1>7, <2>2, <3>1
    <3>3. a = Len(told) + c BY <1>2, <1>7, <3>1
    <3>. QED BY <1>6, <3>1, <3>2, <3>3
  <2>. QED BY <1>2, <2>1, <2>2
<1>9. AppendedTime(x, ns)
  <2>1. PICK t \in Nat : t = Start(x.records[1]) BY <1>3, StartInNat
  <2>2. ns = Append(times, t) /\ t = x.records[1].items[1].ts BY <1>4, <2>1
  <2>3. \A k \in 1 .. Len(ns) : \/ k \in 1 .. Len(times) /\ ns[k] = times[k]
                                \/ k = Len(times) + 1 /\ ns[k] = t
    <3>1. times \in Seq(Nat) BY <1>2
    <3>2. ns = Append(times, t) BY <2>2
    <3>. QED BY <2>1, <3>1, <3>2, AppendCases
  <2>. QED BY <2>2, <2>3 DEF AppendedTime
<1>10. ASSUME NEW c \in 1 .. Len(x.records)
       PROVE  /\ Len(IdsOf(x.records[c])) = Len(x.records[c].items)
              /\ \A b \in 1 .. Len(x.records[c].items) :
                    IdsOf(x.records[c])[b] = x.records[c].items[b].id
  <2>1. x.records[c] \in Recs BY <1>1
  <2>2. x.records[c].items \in Seq(Items) BY <2>1 DEF Recs
  <2>. QED BY <2>2 DEF IdsOf
<1>11. AppendedIds(x.records, nt)
  <2>1. ASSUME NEW a \in 1 .. Len(nt), NEW c \in 1 .. Len(x.records),
               nt[a] = IdsOf(x.records[c])
        PROVE  /\ Len(nt[a]) = Len(x.records[c].items)
               /\ \A b \in 1 .. Len(nt[a]) : nt[a][b] = x.records[c].items[b].id
    BY <1>10, <2>1
  <2>. QED BY <1>8, <2>1 DEF AppendedIds
<1>. QED BY <1>3, <1>4, <1>9, <1>11

\* Records that are in order and after told may follow it.
LEMMA InOrderAppended ==
    ASSUME StateOK, InOrder(told), NEW rs, Len(rs) \in Nat, NEW nt, AppendedIds(rs, nt),
           \A c \in 1 .. Len(rs) : /\ Sorted(rs[c]) /\ RecordAfterTold(rs[c])
                                   /\ \A d \in 1 .. c - 1 : AfterAll(rs[d], rs[c])
    PROVE  InOrder(nt)
<1>. SUFFICES ASSUME NEW a \in 1 .. Len(nt), NEW b \in 1 .. Len(nt),
                     NEW i \in 1 .. Len(nt[a]), NEW j \in 1 .. Len(nt[b]),
                     a < b \/ (a = b /\ i < j)
              PROVE  nt[a][i] < nt[b][j]
  BY DEF InOrder
<1>0. Len(told) \in Nat BY DEF StateOK
<1>1. CASE b \in 1 .. Len(told) /\ nt[b] = told[b]
  <2>1. a \in 1 .. Len(told) BY <1>0, <1>1
  <2>2. nt[a] = told[a] BY <1>0, <2>1 DEF AppendedIds
  <2>. QED BY <1>1, <2>1, <2>2 DEF InOrder
<1>2. ASSUME NEW c \in 1 .. Len(rs), b = Len(told) + c,
             j \in 1 .. Len(rs[c].items), nt[b][j] = rs[c].items[j].id
      PROVE  nt[a][i] < nt[b][j]
  <2>1. CASE a \in 1 .. Len(told) /\ nt[a] = told[a]
    <3>1. AfterTold(rs[c].items[j]) BY <1>2 DEF RecordAfterTold
    <3>. QED BY <1>2, <2>1, <3>1 DEF AfterTold
  <2>2. ASSUME NEW d \in 1 .. Len(rs), a = Len(told) + d,
               i \in 1 .. Len(rs[d].items), nt[a][i] = rs[d].items[i].id
        PROVE  nt[a][i] < nt[b][j]
    <3>1. CASE a < b
      <4>1. d \in 1 .. c - 1 BY <1>0, <1>2, <2>2, <3>1
      <4>2. AfterAll(rs[d], rs[c]) BY <4>1
      <4>3. Earlier(rs[d].items[i], rs[c].items[j]) BY <1>2, <2>2, <4>2 DEF AfterAll, AfterRecord
      <4>. QED BY <1>2, <2>2, <4>3 DEF Earlier
    <3>2. CASE a = b /\ i < j
      <4>1. d = c BY <1>0, <1>2, <2>2, <3>2
      <4>2. i \in 1 .. j - 1 BY <1>2, <2>2, <3>2
      <4>3. Earlier(rs[c].items[i], rs[c].items[j]) BY <1>2, <4>2 DEF Sorted
      <4>. QED BY <1>2, <2>2, <4>1, <4>3 DEF Earlier
    <3>. QED BY <3>1, <3>2
  <2>. QED BY <2>1, <2>2 DEF AppendedIds
<1>. QED BY <1>1, <1>2 DEF AppendedIds

LEMMA FlushOrder ==
    ASSUME StateOK, OrderInv, NEW x, Good(x), x.records # <<>>,
           told' = told \o AllIds(x.records), times' = Append(times, Start(x.records[1])),
           w'.record = x.record
    PROVE  /\ \A i : AfterWatch(x, i) /\ AfterTold(i) => AfterTold(i)'
           /\ InOrder(told')
           /\ \A k \in 1 .. Len(times') : \A j \in 1 .. k - 1 : times'[j] <= times'[k]
           /\ RecordAfterTold(w.record)'
<1>1. PICK nt : nt = told' OBVIOUS
<1>2. PICK ns : ns = times' OBVIOUS
<1>0. nt = told \o AllIds(x.records) /\ ns = Append(times, Start(x.records[1])) BY <1>1, <1>2
<1>3. /\ AppendedIds(x.records, nt) /\ AppendedTime(x, ns)
      /\ x.records[1] \in Recs /\ 1 \in 1 .. Len(x.records) /\ 1 \in 1 .. Len(x.records[1].items)
  BY <1>0, ToldAppended
<1>4. ASSUME NEW i, AfterTold(i), \A c \in 1 .. Len(x.records) : AfterRecord(x.records[c], i)
      PROVE  AfterTold(i)'
  <2>1. ASSUME NEW a \in 1 .. Len(nt), NEW b \in 1 .. Len(nt[a]) PROVE nt[a][b] < i.id
    <3>1. CASE a \in 1 .. Len(told) /\ nt[a] = told[a] BY <1>4, <3>1 DEF AfterTold
    <3>2. ASSUME NEW c \in 1 .. Len(x.records), b \in 1 .. Len(x.records[c].items),
                 nt[a][b] = x.records[c].items[b].id
          PROVE  nt[a][b] < i.id
      BY <1>4, <3>2 DEF AfterRecord, Earlier
    <3>. QED BY <1>3, <3>1, <3>2 DEF AppendedIds
  <2>2. ASSUME NEW k \in 1 .. Len(ns) PROVE ns[k] <= i.ts
    <3>1. x.records[1].items[1].ts <= i.ts BY <1>3, <1>4 DEF AfterRecord, Earlier
    <3>. QED BY <1>3, <1>4, <3>1 DEF AfterTold, AppendedTime
  <2>. QED BY <1>1, <1>2, <2>1, <2>2 DEF AfterTold
<1>5. \A i : AfterWatch(x, i) /\ AfterTold(i) => AfterTold(i)' BY <1>4 DEF AfterWatch
<1>6. InOrder(nt)
  <2>1. Len(x.records) \in Nat BY DEF Good, Watches
  <2>2. \A c \in 1 .. Len(x.records) :
           /\ Sorted(x.records[c]) /\ RecordAfterTold(x.records[c])
           /\ \A d \in 1 .. c - 1 : AfterAll(x.records[d], x.records[c])
    BY DEF Good, OrderedWatch
  <2>3. InOrder(told) BY DEF OrderInv
  <2>. QED BY <1>3, <2>1, <2>2, <2>3, InOrderAppended
<1>7. \A k \in 1 .. Len(ns) : \A j \in 1 .. k - 1 : ns[j] <= ns[k]
  <2>1. \A k \in 1 .. Len(times) : \A j \in 1 .. k - 1 : times[j] <= times[k] BY DEF OrderInv
  <2>2. Len(times) \in Nat BY DEF StateOK
  <2>5. AppendedTime(x, ns) BY <1>3
  <2>6. Len(ns) \in Nat BY <1>0 DEF StateOK
  <2>3. AfterTold(x.records[1].items[1]) BY <1>3 DEF Good, RecordAfterTold
  <2>4. ASSUME NEW k \in 1 .. Len(ns), NEW j \in 1 .. k - 1 PROVE ns[j] <= ns[k]
    <3>1. j \in 1 .. Len(ns) /\ j < k BY <2>6
    <3>0. k <= Len(times) + 1 BY <2>2, <2>5 DEF AppendedTime
    <3>5. j # Len(times) + 1 BY <2>2, <3>0, <3>1
    <3>2. j \in 1 .. Len(times) /\ ns[j] = times[j] BY <2>5, <3>1, <3>5 DEF AppendedTime
    <3>3. CASE k \in 1 .. Len(times) /\ ns[k] = times[k] BY <2>1, <3>2, <3>3
    <3>4. CASE ns[k] = x.records[1].items[1].ts BY <2>3, <3>2, <3>4 DEF AfterTold
    <3>. QED BY <2>5, <3>3, <3>4 DEF AppendedTime
  <2>. QED BY <2>4
<1>8. RecordAfterTold(w.record)'
  <2>1. ASSUME NEW k \in 1 .. Len(x.record.items) PROVE AfterTold(x.record.items[k])'
    <3>1. PICK i : i = x.record.items[k] OBVIOUS
    <3>2. AfterTold(i) BY <3>1 DEF Good, RecordAfterTold
    <3>3. \A c \in 1 .. Len(x.records) : AfterRecord(x.records[c], i)
      BY <3>1 DEF Good, OrderedWatch, AfterAll
    <3>4. AfterTold(i)' BY <1>4, <3>2, <3>3
    <3>. QED BY <3>1, <3>4 DEF AfterTold
  <2>. QED BY <2>1 DEF RecordAfterTold
<1>. QED BY <1>1, <1>2, <1>5, <1>6, <1>7, <1>8

LEMMA OrderStep ==
    ASSUME EWInv, StateOK', [Next]_vars
    PROVE  OrderInv'
<1>. USE EndIsNotBlank DEF mainVars, sharedVars, threadVars, childVars, historyVars, Reporting
<1>0. StateOK /\ QueueInv /\ OrderInv /\ BoxInv BY DEF EWInv
<1>1. CASE Get
  <2>1. UNCHANGED <<w, told, times, mailbox, li, pc>> BY <1>1 DEF Get
  <2>2. NotBefore(Coming, Coming') /\ (Real(item') => NotBefore(Coming, item'))
    BY <1>0, <1>1, GetOrder DEF QueueInv
  <2>3. Coming \in Items /\ Coming' \in Items /\ item' \in Items
    BY <1>0, ComingType, ComingTypePrimed DEF StateOK
  <2>4. PICK c, i : c = Coming' /\ i = item' OBVIOUS
  <2>5. Later(Coming) BY <1>0 DEF OrderInv
  <2>6. Later(c) /\ (Real(i) => Later(i)) BY <1>0, <2>2, <2>3, <2>4, <2>5, LaterMono
  <2>7. \A j : Later(j)' <=> Later(j) BY <2>1 DEF Later, AfterTold
  <2>8. Later(Coming)' BY <2>1, <2>4, <2>6 DEF Later, AfterTold
  <2>9. Real(item') => Later(item)' BY <2>1, <2>4, <2>6 DEF Later, AfterTold
  <2>10. pc' = "process" /\ Real(li') => Later(li)' BY <1>0, <2>1 DEF OrderInv, Later, AfterTold
  <2>11. \A k \in 1 .. Len(mailbox') : Real(mailbox'[k]) => Later(mailbox[k])'
    BY <1>0, <2>1 DEF OrderInv, Later, AfterTold
  <2>12. /\ OrderedWatch(w') /\ InOrder(told') /\ RecordAfterTold(w.record)'
         /\ \A k \in 1 .. Len(times') : \A j \in 1 .. k - 1 : times'[j] <= times'[k]
         /\ pc' \notin Reporting => \A k \in 1 .. Len(w'.records) : RecordAfterTold(w.records[k])'
    BY <1>0, <2>1 DEF OrderInv, RecordAfterTold, AfterTold
  <2>. QED BY <2>8, <2>9, <2>10, <2>11, <2>12 DEF OrderInv
\* For a step of another action the items in the queue were in it before.
<1>2. ASSUME ~Get, ~Restart, \A j : Queued(j) /\ Queued(j)' => Later(j)',
             pc' = "process" /\ Real(li') => Later(li)'
      PROVE  /\ Later(Coming)' /\ (Real(item') => Later(item)')
             /\ \A k \in 1 .. Len(mailbox') : Real(mailbox'[k]) => Later(mailbox[k])'
  <2>1. \A j : Queued(j)' => Later(j)' BY <1>0, <1>2, QueuedStep
  <2>2. Queued(Coming)' BY DEF Queued
  <2>3. Real(item') => Queued(item)' BY DEF Queued
  <2>4. \A k \in 1 .. Len(mailbox') : Real(mailbox'[k]) => Queued(mailbox[k])' BY DEF Queued
  <2>5. PICK c, i, m : c = Coming' /\ i = item' /\ m = mailbox' OBVIOUS
  <2>6. Later(c)' /\ (Real(i) => Later(i)') /\ \A k \in 1 .. Len(m) : Real(m[k]) => Later(m[k])'
    BY <2>1, <2>2, <2>3, <2>4, <2>5 DEF Queued
  <2>. QED BY <2>5, <2>6 DEF Later, AfterTold
<1>3. CASE UNCHANGED <<w, told, times>> /\ ~Get /\ ~Restart
  <2>1. \A j : Later(j)' <=> Later(j) BY <1>3 DEF Later, AfterTold
  <2>2. \A j : Queued(j) => Later(j)' BY <1>0, <2>1, QueuedLater
  <2>3. pc' = "process" /\ Real(li') => Later(li)'
    <3>1. CASE pc = "process" /\ li' = li
      BY <1>0, <1>3, <3>1 DEF OrderInv, Later, AfterTold
    <3>2. CASE TakeItem
      <4>0. CASE pc' = "process" /\ Real(li')
        <5>1. mailbox # <<>> /\ li' = Head(mailbox) BY <3>2, <4>0 DEF TakeItem
        <5>2. mailbox \in Seq(Items) BY <1>0 DEF StateOK
        <5>3. 1 \in 1 .. Len(mailbox) /\ li' = mailbox[1] BY <5>1, <5>2
        <5>4. PICK i : i = li' OBVIOUS
        <5>5. Queued(i) BY <4>0, <5>3, <5>4 DEF Queued
        <5>6. Later(i)' BY <2>2, <5>5
        <5>. QED BY <5>4, <5>6 DEF Later, AfterTold
      <4>. QED BY <4>0
    <3>3. ASSUME pc' = "process" PROVE TakeItem \/ (pc = "process" /\ li' = li)
      <4>1. CASE FeedCheck \/ FeedPush \/ WaitThreadStop \/ ThreadEntry
        BY <3>3, <4>1 DEF FeedCheck, FeedPush, WaitThreadStop, ThreadEntry
      <4>2. CASE Process \/ Flush \/ LogEvent BY <3>3, <4>2 DEF Process, Flush, LogEvent, Leave
      <4>3. CASE Attach \/ Exec \/ ThreadExit \/ ChildEnds \/ UNCHANGED vars
        BY <3>3, <4>3 DEF Attach, Exec, ThreadExit, ChildEnds, vars
      <4>. QED BY <1>3, <4>1, <4>2, <4>3 DEF Next, Main, Thread
    <3>. QED BY <3>1, <3>2, <3>3
  <2>4. /\ Later(Coming)' /\ (Real(item') => Later(item)')
        /\ \A k \in 1 .. Len(mailbox') : Real(mailbox'[k]) => Later(mailbox[k])'
    BY <1>2, <1>3, <2>2, <2>3
  <2>5. pc \in Reporting /\ pc' \notin Reporting => w'.records = <<>>
    <3>1. ASSUME pc \in Reporting, pc' \notin Reporting PROVE LogEvent
      <4>1. CASE FeedCheck
        <5>1. pc' = pc \/ thread_state = "READY" BY <4>1 DEF FeedCheck, Back
        <5>. QED BY <1>0, <3>1, <5>1 DEF BoxInv
      <4>2. CASE FeedPush \/ WaitThreadStop \/ ThreadEntry \/ TakeItem \/ Process \/ Flush
        BY <3>1, <4>2 DEF FeedPush, WaitThreadStop, ThreadEntry, TakeItem, Process, Flush
      <4>3. CASE Attach \/ Exec \/ ThreadExit \/ ChildEnds \/ UNCHANGED vars
        BY <3>1, <4>3 DEF Attach, Exec, ThreadExit, ChildEnds, vars
      <4>. QED BY <1>3, <4>1, <4>2, <4>3 DEF Next, Main, Thread
    <3>. QED BY <1>0, <3>1, LogEffect
  <2>6. /\ OrderedWatch(w') /\ InOrder(told') /\ RecordAfterTold(w.record)'
        /\ \A k \in 1 .. Len(times') : \A j \in 1 .. k - 1 : times'[j] <= times'[k]
    BY <1>0, <1>3 DEF OrderInv, RecordAfterTold, AfterTold
  <2>7. ASSUME pc' \notin Reporting, NEW k \in 1 .. Len(w'.records)
        PROVE  RecordAfterTold(w.records[k])'
    <3>1. pc \notin Reporting
      <4>1. w'.records = <<>> => FALSE BY <2>7
      <4>. QED BY <2>5, <2>7, <4>1
    <3>2. RecordAfterTold(w.records[k]) BY <1>0, <1>3, <2>7, <3>1 DEF OrderInv
    <3>. QED BY <1>3, <3>2 DEF RecordAfterTold, AfterTold
  <2>. QED BY <2>3, <2>4, <2>6, <2>7 DEF OrderInv
\* The records of x are carried over by process.
<1>4. ASSUME NEW x, Good(x), Carries(w, x, li), pc = "process", NEW j, Queued(j)
      PROVE  AfterWatch(x, j) /\ AfterTold(j)
  <2>1. j \in Items /\ (Real(li) => Earlier(li, j)) BY <1>0, <1>4, QueuedIsAfter
  <2>2. Later(j) BY <1>0, <1>4, QueuedLater
  <2>3. li # Eof => Real(li) BY <1>0, <1>4 DEF QueueInv, Sent
  <2>. QED BY <1>4, <2>1, <2>2, <2>3 DEF Later, Carries
<1>5. CASE Process
  <2>1. PICK x : x = Collected(w, li) OBVIOUS
  <2>2. /\ Good(x) /\ Carries(w, x, li) /\ w'.record = x.record /\ w'.records = x.records
    BY <1>5, <2>1, ProcessDone
  <2>3. UNCHANGED <<told, times>> /\ pc = "process" /\ pc' \in {"exit", "wait"} BY <1>5 DEF Process, Leave
  <2>4. ~Get /\ ~Restart BY <1>5 DEF Process, Get, Restart, Fresh, Leave, ReaderGet
  <2>5. \A j : Queued(j) => Later(j)'
    BY <1>4, <2>2, <2>3 DEF Later, AfterWatch, AfterTold
  <2>6. /\ Later(Coming)' /\ (Real(item') => Later(item)')
        /\ \A k \in 1 .. Len(mailbox') : Real(mailbox'[k]) => Later(mailbox[k])'
    BY <1>2, <2>3, <2>4, <2>5
  <2>7. OrderedWatch(w') BY <2>2 DEF Good, OrderedWatch
  <2>8. InOrder(told') /\ \A k \in 1 .. Len(times') : \A j \in 1 .. k - 1 : times'[j] <= times'[k]
    BY <1>0, <2>3 DEF OrderInv
  <2>9. RecordAfterTold(w.record)' /\ \A k \in 1 .. Len(w'.records) : RecordAfterTold(w.records[k])'
    BY <2>2, <2>3 DEF Good, RecordAfterTold, AfterTold
  <2>. QED BY <2>3, <2>6, <2>7, <2>8, <2>9 DEF OrderInv
<1>6. CASE Flush
  <2>1. PICK x : x = Collected(w, li) OBVIOUS
  <2>2. Good(x) /\ Carries(w, x, li) BY <1>6, <2>1, ProcessEffect DEF Flush
  <2>3. /\ w'.record = x.record /\ w'.records = x.records /\ x.records # <<>>
        /\ told' = told \o AllIds(x.records) /\ times' = Append(times, Start(x.records[1]))
        /\ pc = "process" /\ pc' = "attach"
    BY <1>6, <2>1, FlushEffect
  <2>4. ~Get /\ ~Restart BY <1>6 DEF Flush, Get, Restart, Fresh, ReaderGet
  <2>5. /\ \A i : AfterWatch(x, i) /\ AfterTold(i) => AfterTold(i)'
        /\ InOrder(told')
        /\ \A k \in 1 .. Len(times') : \A j \in 1 .. k - 1 : times'[j] <= times'[k]
        /\ RecordAfterTold(w.record)'
    BY <1>0, <2>2, <2>3, FlushOrder
  <2>6. ASSUME NEW j, Queued(j) PROVE Later(j)'
    <3>1. AfterWatch(x, j) /\ AfterTold(j) BY <1>4, <2>2, <2>3, <2>6
    <3>2. AfterWatch(w', j) BY <2>3, <3>1 DEF AfterWatch
    <3>. QED BY <2>5, <3>1, <3>2 DEF Later
  <2>7. /\ Later(Coming)' /\ (Real(item') => Later(item)')
        /\ \A k \in 1 .. Len(mailbox') : Real(mailbox'[k]) => Later(mailbox[k])'
    BY <1>2, <2>3, <2>4, <2>6
  <2>8. OrderedWatch(w') BY <2>2, <2>3 DEF Good, OrderedWatch
  <2>. QED BY <2>3, <2>5, <2>7, <2>8 DEF OrderInv
<1>7. CASE LogEvent
  <2>1. /\ w'.record = w.record /\ w'.records = <<>> /\ UNCHANGED <<told, times>> /\ pc' # "process"
    BY <1>7, LogEffect DEF LogEvent, Leave
  <2>2. ~Get /\ ~Restart BY <1>7 DEF LogEvent, Get, Restart, Fresh, ReaderGet, Leave
  <2>3. \A k \in 1 .. Len(w'.records) : FALSE BY <2>1
  <2>4. ASSUME NEW j, Queued(j) PROVE Later(j)'
    <3>1. Later(j) BY <1>0, <2>4, QueuedLater
    <3>. QED BY <2>1, <2>3, <3>1 DEF Later, AfterWatch, AfterTold
  <2>5. /\ Later(Coming)' /\ (Real(item') => Later(item)')
        /\ \A k \in 1 .. Len(mailbox') : Real(mailbox'[k]) => Later(mailbox[k])'
    BY <1>2, <2>1, <2>2, <2>4
  <2>6. OrderedWatch(w') BY <1>0, <2>1, <2>3 DEF OrderInv, OrderedWatch
  <2>7. InOrder(told') /\ \A k \in 1 .. Len(times') : \A j \in 1 .. k - 1 : times'[j] <= times'[k]
    BY <1>0, <2>1 DEF OrderInv
  <2>8. RecordAfterTold(w.record)' BY <1>0, <2>1 DEF OrderInv, RecordAfterTold, AfterTold
  <2>. QED BY <2>1, <2>3, <2>5, <2>6, <2>7, <2>8 DEF OrderInv
<1>8. CASE Restart
  <2>1. w' = FreshWatch /\ told' = <<>> /\ times' = <<>> /\ item' = Blank /\ li' = Blank
        /\ mailbox' = <<>> /\ pc' = "none"
    BY <1>8 DEF Restart, Fresh
  <2>2. w'.record.items = <<>> /\ w'.records = <<>> BY <2>1 DEF FreshWatch, NoRecord
  <2>3. /\ \A k \in 1 .. Len(w'.record.items) : FALSE
        /\ \A k \in 1 .. Len(w'.records) : FALSE
        /\ \A k \in 1 .. Len(told') : FALSE
        /\ \A k \in 1 .. Len(times') : FALSE
        /\ \A k \in 1 .. Len(mailbox') : FALSE
    BY <2>1, <2>2
  <2>4. Later(Coming)' BY <2>3 DEF Later, AfterWatch, AfterRecord, AfterTold
  <2>5. OrderedWatch(w') BY <2>3 DEF OrderedWatch, Sorted
  <2>6. InOrder(told') BY <2>3 DEF InOrder
  <2>7. RecordAfterTold(w.record)' BY <2>3 DEF RecordAfterTold
  <2>. QED BY <2>1, <2>3, <2>4, <2>5, <2>6, <2>7 DEF OrderInv
<1>9. Get \/ Restart \/ Process \/ Flush \/ LogEvent \/ UNCHANGED <<w, told, times>>
  BY DEF Next, Main, Thread, FeedCheck, FeedPush, WaitThreadStop, ThreadEntry,
     TakeItem, Attach, Exec, ThreadExit, ChildEnds, vars
<1>. QED BY <1>1, <1>3, <1>5, <1>6, <1>7, <1>8, <1>9
-----------------------------------------------------------------------------
(* Suspension: a record that waits began after the last suspension ended. *)

LEMMA SuspendStep ==
    ASSUME EWInv, StateOK', [Next]_vars
    PROVE  SuspendInv'
<1>. USE EndIsNotBlank DEF mainVars, sharedVars, threadVars, childVars, historyVars, Reporting
<1>0. StateOK /\ CfgOK /\ QueueInv /\ OrderInv /\ BoxInv /\ SuspendInv /\ LogInv BY DEF EWInv, StateOK
<1>1. times \in Seq(Nat) /\ w \in Watches BY <1>0 DEF StateOK
<1>2. cfg' = cfg
  BY DEF Next, Main, Thread, Get, FeedCheck, FeedPush, WaitThreadStop, ThreadEntry,
     TakeItem, Process, Flush, Attach, Exec, LogEvent, ThreadExit, ChildEnds, Restart, vars
<1>3. ASSUME NEW x, NEW y, SuspendedOK(x), y.suspended = x.suspended, y.count = x.count
      PROVE  SuspendedOK(y)'
  BY <1>2, <1>3 DEF SuspendedOK
<1>4. ASSUME NEW x, NEW y, Unsuspended(x), y.records = x.records, y.until = x.until
      PROVE  Unsuspended(y)'
  BY <1>2, <1>4 DEF Unsuspended
<1>5. ASSUME UNCHANGED times PROVE SuspendHolds'
  BY <1>0, <1>2, <1>5 DEF SuspendInv, SuspendHolds
<1>6. CASE Process
  <2>1. PICK x : x = Collected(w, li) OBVIOUS
  <2>2. /\ Good(x) /\ w'.record = x.record /\ w'.records = x.records
        /\ SameLog(w, w') /\ SameLog(w, x) /\ (li # Eof => w' = x)
    BY <1>6, <2>1, ProcessDone
  <2>3. /\ UNCHANGED <<times, thread_state>> /\ pc = "process" /\ pc' = Leave(li) /\ li' = Blank
    BY <1>6 DEF Process
  <2>4. pc' # "exit" => SuspendedOK(w)' BY <1>3, <2>2, <2>3 DEF Good, Leave
  <2>5. Unsuspended(w)'
    <3>1. Unsuspended(x) /\ w'.records = x.records /\ w'.until = x.until BY <2>2 DEF Good, SameLog
    <3>2. PICK y : y = w' OBVIOUS
    <3>3. Unsuspended(y)' BY <1>4, <3>1, <3>2
    <3>. QED BY <3>2, <3>3 DEF Unsuspended
  <2>6. w'.until = w.until BY <2>2 DEF SameLog
  <2>7. SuspendHolds' BY <1>5, <2>3
  <2>8. Over' \/ (~Over /\ pc' = "wait") BY <2>3 DEF Over, Leave
  <2>9. cfg.suspend_interval # 0 /\ times' # <<>> /\ ~Over' =>
          w'.until = times'[Len(times')] + cfg.suspend_interval
    BY <1>0, <2>3, <2>6, <2>8 DEF SuspendInv
  <2>. QED BY <1>2, <2>3, <2>4, <2>5, <2>7, <2>8, <2>9 DEF SuspendInv, Leave
<1>7. CASE Flush
  <2>1. PICK x : x = Collected(w, li) OBVIOUS
  <2>2. Good(x) /\ SameLog(w, x) BY <1>7, <2>1, ProcessEffect DEF Flush
  <2>3. /\ pc = "process" /\ pc' = "attach" /\ x.records # <<>> /\ x.records \in Seq(Recs)
        /\ w'.count = 0
        /\ cfg.max_suspend_records # 0 /\ x.count # 0 => w'.suspended = <<>>
        /\ ~(cfg.max_suspend_records # 0 /\ x.count # 0) => w'.suspended = x.suspended
        /\ cfg.suspend_interval # 0 /\ Waited(x, li) =>
              w'.until = Start(x.records[1]) + cfg.suspend_interval
        /\ Waited(x, li) \/ li = Eof
        /\ times' = Append(times, Start(x.records[1])) /\ Start(x.records[1]) \in Nat
    BY <1>7, <2>1, FlushEffect
  <2>4. li' = li BY <1>7 DEF Flush
  <2>5. SuspendedOK(w)'
    <3>1. SuspendedOK(x) /\ cfg.max_suspend_records \in Nat BY <1>0, <2>2 DEF Good, CfgOK
    <3>2. Len(<<>>) = 0 OBVIOUS
    <3>3. CASE cfg.max_suspend_records # 0 /\ x.count # 0
      BY <1>2, <2>3, <3>1, <3>2, <3>3 DEF SuspendedOK
    <3>4. CASE ~(cfg.max_suspend_records # 0 /\ x.count # 0)
      BY <1>2, <2>3, <3>1, <3>4 DEF SuspendedOK
    <3>. QED BY <3>3, <3>4
  <2>6. PICK s \in Nat : s = Start(x.records[1]) BY <2>3
  <2>7. Len(times') = Len(times) + 1 /\ times'[Len(times')] = s BY <1>1, <2>3, <2>6
  <2>8. ~Over' => li # Eof BY <2>3, <2>4 DEF Over
  <2>9. cfg.suspend_interval # 0 /\ ~Over' => w'.until = times'[Len(times')] + cfg.suspend_interval
    BY <2>3, <2>6, <2>7, <2>8
  <2>10. SuspendHolds'
    <3>1. SUFFICES ASSUME cfg.suspend_interval # 0, NEW k \in 1 .. Len(times') - 1
                   PROVE  times'[k + 1] > times'[k] + cfg.suspend_interval
      BY <1>2 DEF SuspendHolds
    <3>2. PICK n \in Nat : n = Len(times) BY <1>1
    <3>3. k \in 1 .. n BY <2>7, <3>2
    <3>4. CASE k = n
      <4>1. n \in 1 .. Len(times) BY <3>2, <3>3, <3>4
      <4>2. times'[k] = times[n] /\ times'[k + 1] = s BY <1>1, <2>3, <2>6, <3>2, <3>4, <4>1
      <4>3. w.until = times[n] + cfg.suspend_interval
        <5>1. times # <<>> BY <1>1, <4>1
        <5>. QED BY <1>0, <2>3, <3>1, <3>2, <5>1 DEF SuspendInv
      <4>4. 1 \in 1 .. Len(x.records) BY <2>3
      <4>5. s > x.until BY <2>2, <2>6, <3>1, <4>4 DEF Good, Unsuspended
      <4>6. x.until = w.until BY <2>2 DEF SameLog
      <4>. QED BY <4>2, <4>3, <4>5, <4>6
    <3>5. CASE k # n
      <4>1. k \in 1 .. n - 1 /\ k \in 1 .. n /\ k + 1 \in 1 .. n BY <3>3, <3>5
      <4>2. times'[k] = times[k] /\ times'[k + 1] = times[k + 1] BY <1>1, <2>3, <3>2, <4>1
      <4>. QED BY <1>0, <3>1, <3>2, <4>1, <4>2 DEF SuspendInv, SuspendHolds
    <3>. QED BY <3>4, <3>5
  <2>. QED BY <1>2, <2>3, <2>5, <2>9, <2>10 DEF SuspendInv
<1>8. CASE LogEvent
  <2>1. /\ pc = "log" /\ w'.records = <<>> /\ w'.suspended = w.suspended
        /\ w'.count = w.count /\ w'.until = w.until
    BY <1>8, LogEffect
  <2>2. UNCHANGED <<times, thread_state>> /\ pc' = Leave(li) /\ li' = Blank BY <1>8 DEF LogEvent
  <2>3. thread_state # "STOPPED" BY <1>0, <2>1 DEF BoxInv
  <2>4. SuspendedOK(w)'
    <3>1. SuspendedOK(w) BY <1>0, <2>1, <2>3 DEF SuspendInv
    <3>. QED BY <1>2, <2>1, <3>1 DEF SuspendedOK
  <2>5. \A k \in 1 .. Len(w'.records) : FALSE BY <2>1
  <2>6. Unsuspended(w)' BY <2>5 DEF Unsuspended
  <2>7. SuspendHolds' BY <1>5, <2>2
  <2>8. Over' \/ (~Over /\ pc' = "wait") BY <2>1, <2>2 DEF Over, Leave
  <2>9. cfg.suspend_interval # 0 /\ times' # <<>> /\ ~Over' =>
          w'.until = times'[Len(times')] + cfg.suspend_interval
    BY <1>0, <2>1, <2>2, <2>8 DEF SuspendInv
  <2>. QED BY <1>2, <2>2, <2>4, <2>6, <2>7, <2>9 DEF SuspendInv, Leave
<1>9. CASE Restart
  <2>1. w' = FreshWatch /\ times' = <<>> /\ li' = Blank /\ pc' = "none" BY <1>9 DEF Restart, Fresh
  <2>2. w'.records = <<>> /\ w'.suspended = <<>> /\ w'.count = 0 BY <2>1 DEF FreshWatch
  <2>3. Len(<<>>) = 0 OBVIOUS
  <2>4. SuspendedOK(w)' BY <1>0, <1>2, <2>2, <2>3 DEF SuspendedOK, CfgOK
  <2>5. Unsuspended(w)' BY <2>2, <2>3 DEF Unsuspended
  <2>6. SuspendHolds' BY <2>1, <2>3 DEF SuspendHolds
  <2>. QED BY <2>1, <2>4, <2>5, <2>6 DEF SuspendInv
\* The other actions leave the watch alone and keep the thread in it.
<1>10. CASE UNCHANGED <<w, times>> /\ ~Process /\ ~Flush /\ ~LogEvent /\ ~Restart
  <2>1. SuspendHolds' BY <1>5, <1>10
  <2>2. SuspendedOK(w)' <=> SuspendedOK(w) BY <1>2, <1>10 DEF SuspendedOK
  <2>3. Unsuspended(w)' <=> Unsuspended(w) BY <1>2, <1>10 DEF Unsuspended
  <2>4. /\ pc' # "exit" /\ thread_state' # "STOPPED" => pc # "exit" /\ thread_state # "STOPPED"
        /\ pc' \notin Reporting => pc \notin Reporting
        /\ times # <<>> /\ ~Over' => ~Over
        /\ times # <<>> /\ pc' = "process" => pc = "process" \/ ~Over
    <3>1. CASE Get \/ FeedPush \/ WaitThreadStop \/ ChildEnds \/ UNCHANGED vars
      BY <3>1 DEF Get, FeedPush, WaitThreadStop, ChildEnds, vars, Over
    <3>2. CASE FeedCheck
      <4>1. pc' = pc \/ thread_state = "READY" BY <3>2 DEF FeedCheck, Back
      <4>2. thread_state = "READY" => times = <<>> /\ pc \in {"none", "entry"}
        BY <1>0 DEF LogInv, BoxInv
      <4>. QED BY <3>2, <4>1, <4>2 DEF FeedCheck, Over
    <3>3. CASE ThreadEntry BY <1>0, <3>3 DEF ThreadEntry, Over, BoxInv
    <3>4. CASE TakeItem BY <1>0, <3>4 DEF TakeItem, Over, BoxInv
    <3>5. CASE Attach \/ Exec BY <3>5 DEF Attach, Exec, Over
    <3>6. CASE ThreadExit BY <3>6 DEF ThreadExit, Over
    <3>. QED BY <1>10, <3>1, <3>2, <3>3, <3>4, <3>5, <3>6 DEF Next, Main, Thread
  <2>. QED BY <1>0, <1>2, <1>10, <2>1, <2>2, <2>3, <2>4 DEF SuspendInv
<1>11. Process \/ Flush \/ LogEvent \/ Restart \/ UNCHANGED <<w, times>>
  BY DEF Next, Main, Thread, Get, FeedCheck, FeedPush, WaitThreadStop, ThreadEntry,
     TakeItem, Attach, Exec, ThreadExit, ChildEnds, vars
<1>. QED BY <1>6, <1>7, <1>8, <1>9, <1>10, <1>11

LEMMA SuspendIsSound == EWInv => SuspendSound
<1>. SUFFICES ASSUME EWInv PROVE SuspendSound OBVIOUS
<1>1. SuspendHolds BY DEF EWInv, SuspendInv
<1>2. ASSUME pc \in {"wait", "process"} PROVE SuspendedOK(w) /\ w.count \in Nat /\ cfg.max_suspend_records \in Nat
  BY <1>2 DEF EWInv, SuspendInv, BoxInv, StateOK, Watches, CfgOK
<1>3. SuspendedCounted BY <1>2 DEF SuspendedCounted, SuspendedOK
<1>. QED BY <1>1, <1>3 DEF SuspendSound
-----------------------------------------------------------------------------
(* Noisy watchers: the list of times is that of the last events. *)

LEMMA Narrower ==
    ASSUME NEW e \in Nat, NEW u \in Nat, NEW v \in Nat, v >= u
    PROVE  \A m \in 1 .. e - v : m \in 1 .. e - u
OBVIOUS

LEMMA NothingLeft == ASSUME NEW v \in Nat PROVE \A m \in 1 .. 0 - v : FALSE
OBVIOUS

LEMMA AllButLast ==
    ASSUME NEW e \in Nat, NEW v \in Nat PROVE \A m \in 1 .. e - v : m = e \/ m \in 1 .. e - 1
OBVIOUS

LEMMA LogStep ==
    ASSUME EWInv, StateOK', [Next]_vars
    PROVE  LogInv'
<1>. USE EndIsNotBlank DEF mainVars, sharedVars, threadVars, childVars, historyVars, Reporting
<1>0. StateOK /\ CfgOK /\ BoxInv /\ LogInv BY DEF EWInv, StateOK
<1>1. /\ times \in Seq(Nat) /\ w \in Watches /\ w.flush_count \in Nat
      /\ cfg.events.count \in Nat \ {0} /\ cfg.events.interval \in Nat
  BY <1>0 DEF StateOK, Watches, CfgOK
<1>2. cfg' = cfg
  BY DEF Next, Main, Thread, Get, FeedCheck, FeedPush, WaitThreadStop, ThreadEntry,
     TakeItem, Process, Flush, Attach, Exec, LogEvent, ThreadExit, ChildEnds, Restart, vars
<1>3. Events \in Nat /\ Untested \in Nat /\ Untested' \in Nat
  BY <1>1 DEF Events, Untested
<1>4. ASSUME UNCHANGED times PROVE Events' = Events /\ \A m : Calm(m)' <=> Calm(m)
  BY <1>2, <1>4 DEF Events, Calm
\* Fewer events are said to be calm.
<1>5. ASSUME UNCHANGED times, Untested' >= Untested
      PROVE  \A m \in 1 .. Events' - Untested' : Calm(m)'
  <2>0. Events' = Events BY <1>4, <1>5
  <2>1. \A m \in 1 .. Events' - Untested' : m \in 1 .. Events - Untested
    BY <1>3, <1>5, <2>0, Narrower
  <2>. QED BY <1>0, <1>4, <1>5, <2>1 DEF LogInv
\* The rest of LogInv needs only that the thread does not enter or leave Reporting.
<1>6. ASSUME UNCHANGED <<w, times>>, pc' \in Reporting <=> pc \in Reporting,
             thread_state' = "READY" => thread_state = "READY", Untested' >= Untested
      PROVE  LogInv'
  <2>1. LoggedEvents' = LoggedEvents BY <1>4, <1>6 DEF LoggedEvents
  <2>. QED BY <1>0, <1>2, <1>4, <1>5, <1>6, <2>1 DEF LogInv
<1>7. CASE Get \/ WaitThreadStop \/ ChildEnds \/ UNCHANGED vars
  <2>1. UNCHANGED <<w, times, pc, thread_state, accept_data, li>>
    BY <1>7 DEF Get, WaitThreadStop, ChildEnds, vars
  <2>2. Untested' = Untested BY <2>1 DEF Untested
  <2>. QED BY <1>3, <1>6, <2>1, <2>2
<1>8. CASE FeedPush
  <2>1. UNCHANGED <<w, times, pc, thread_state, li>> /\ (accept_data' => accept_data)
    BY <1>8 DEF FeedPush
  <2>2. Untested' >= Untested BY <2>1 DEF Untested
  <2>. QED BY <1>6, <2>1, <2>2
<1>9. CASE FeedCheck
  <2>1. UNCHANGED <<w, times, thread_state, accept_data, li>> BY <1>9 DEF FeedCheck
  <2>2. CASE pc' = pc
    <3>1. Untested' = Untested BY <2>1, <2>2 DEF Untested
    <3>. QED BY <1>3, <1>6, <2>1, <2>2, <3>1
  <2>3. CASE pc' # pc
    <3>1. thread_state = "READY" /\ pc' = "entry" BY <1>9, <2>3 DEF FeedCheck, Back
    <3>2. times = <<>> /\ pc \notin Reporting BY <1>0, <3>1 DEF LogInv, BoxInv
    <3>3. Events = 0 /\ Events' = 0 BY <2>1, <3>2 DEF Events
    <3>4. \A m \in 1 .. Events' - Untested' : FALSE BY <1>3, <3>3, NothingLeft
    <3>5. LoggedEvents' = LoggedEvents BY <2>1, <3>1, <3>2, <3>3 DEF LoggedEvents
    <3>. QED BY <1>0, <1>2, <2>1, <3>1, <3>2, <3>3, <3>4, <3>5 DEF LogInv
  <2>. QED BY <2>2, <2>3
<1>10. CASE ThreadEntry
  <2>1. /\ UNCHANGED <<w, times, accept_data, li>> /\ pc = "entry" /\ pc' = "wait"
        /\ thread_state' = "RUNNING"
    BY <1>10 DEF ThreadEntry
  <2>2. Untested' = Untested BY <2>1 DEF Untested
  <2>. QED BY <1>3, <1>6, <2>1, <2>2
<1>11. CASE TakeItem
  <2>1. /\ UNCHANGED <<w, times, accept_data, thread_state>> /\ pc = "wait"
        /\ pc' \in {"wait", "process"} /\ (pc' = "process" => mailbox # <<>> /\ li' = Head(mailbox))
    BY <1>11 DEF TakeItem
  <2>2. ASSUME ~accept_data, pc' = "process" PROVE li' = Eof
    <3>1. mailbox = <<Eof>> BY <1>0, <2>1, <2>2 DEF BoxInv, EndIsLast
    <3>. QED BY <2>1, <2>2, <3>1
  <2>3. Untested' = Untested BY <2>1, <2>2 DEF Untested
  <2>. QED BY <1>3, <1>6, <2>1, <2>3
<1>12. CASE Attach \/ Exec
  <2>1. /\ UNCHANGED <<w, times, accept_data, thread_state, li>>
        /\ pc \in Reporting /\ pc' \in Reporting
    BY <1>12 DEF Attach, Exec
  <2>2. Untested' = Untested BY <2>1 DEF Untested
  <2>. QED BY <1>3, <1>6, <2>1, <2>2
<1>13. CASE ThreadExit
  <2>1. /\ UNCHANGED <<w, times>> /\ pc = "exit" /\ pc' = "none" /\ thread_state' = "STOPPED"
    BY <1>13 DEF ThreadExit
  <2>2. Untested' = Untested BY <2>1 DEF Untested
  <2>. QED BY <1>3, <1>6, <2>1, <2>2
<1>14. CASE Process
  <2>1. SameLog(w, w') BY <1>14, ProcessDone
  <2>2. UNCHANGED <<times, accept_data, thread_state>> /\ pc = "process" /\ pc' = Leave(li)
    BY <1>14 DEF Process
  <2>3. Untested' >= Untested BY <2>2 DEF Untested, Leave
  <2>4. LoggedEvents' = LoggedEvents BY <1>4, <2>2 DEF LoggedEvents, Leave
  <2>5. pc' \notin Reporting BY <2>2 DEF Leave
  <2>. QED BY <1>0, <1>2, <1>4, <1>5, <2>1, <2>2, <2>3, <2>4, <2>5 DEF LogInv, SameLog
<1>15. CASE Flush
  <2>1. PICK x : x = Collected(w, li) OBVIOUS
  <2>2. /\ pc = "process" /\ pc' = "attach" /\ x.records # <<>> /\ Head(x.records) = x.records[1]
        /\ w'.records = x.records /\ w'.flush_count = w.flush_count + 1
        /\ w'.event_log = w.event_log
        /\ times' = Append(times, Start(x.records[1])) /\ Start(x.records[1]) \in Nat
    BY <1>15, <2>1, FlushEffect
  <2>3. UNCHANGED <<accept_data, thread_state, li>> BY <1>15 DEF Flush
  <2>4. PICK s \in Nat : s = Start(x.records[1]) BY <2>2
  <2>5. PICK n \in Nat : n = Len(times) BY <1>1
  <2>6. /\ Len(times') = n + 1 /\ times'[n + 1] = s /\ times' # <<>>
        /\ \A k \in 1 .. n : times'[k] = times[k]
    BY <1>1, <2>2, <2>4, <2>5
  <2>7. Events = n /\ Events' = n + 1 /\ LoggedEvents = n /\ LoggedEvents' = n
    BY <2>2, <2>5, <2>6 DEF Events, LoggedEvents
  <2>8. Untested' = Untested + 1 BY <2>2, <2>3 DEF Untested
  <2>9. ASSUME NEW m \in 1 .. Events' - Untested' PROVE Calm(m)'
    <3>1. m \in 1 .. n - Untested /\ m \in 1 .. n BY <1>3, <2>7, <2>8
    <3>2. Calm(m) BY <1>0, <2>7, <3>1 DEF LogInv
    <3>3. CASE cfg.events.interval = 0 BY <1>2, <3>2, <3>3 DEF Calm
    <3>4. CASE m <= cfg.events.count /\ cfg.events.interval # 0 BY <1>2, <3>4 DEF Calm
    <3>5. CASE m > cfg.events.count /\ cfg.events.interval # 0
      <4>1. m - cfg.events.count \in 1 .. n BY <1>1, <3>1, <3>5
      <4>2. times'[m] = times[m] /\ times'[m - cfg.events.count] = times[m - cfg.events.count]
        BY <2>6, <3>1, <4>1
      <4>3. times[m] - times[m - cfg.events.count] >= cfg.events.interval
        BY <1>1, <3>1, <3>2, <3>5 DEF Calm
      <4>. QED BY <1>2, <3>5, <4>2, <4>3 DEF Calm
    <3>. QED BY <1>1, <3>1, <3>3, <3>4, <3>5
  <2>10. cfg.events.interval # 0 =>
          /\ Len(w'.event_log) = Shorter(LoggedEvents', cfg.events.count + 1)
          /\ \A j \in 1 .. Len(w'.event_log) : w'.event_log[j] = times'[LoggedEvents' + 1 - j]
    <3>1. SUFFICES ASSUME cfg.events.interval # 0
                   PROVE  /\ Len(w'.event_log) = Shorter(n, cfg.events.count + 1)
                          /\ \A j \in 1 .. Len(w'.event_log) : w'.event_log[j] = times'[n + 1 - j]
      BY <2>7
    <3>2. /\ Len(w.event_log) = Shorter(n, cfg.events.count + 1)
          /\ \A j \in 1 .. Len(w.event_log) : w.event_log[j] = times[n + 1 - j]
      BY <1>0, <2>7, <3>1 DEF LogInv
    <3>3. Len(w.event_log) <= n BY <1>1, <3>2 DEF Shorter
    <3>4. Len(w.event_log) \in Nat BY <1>1 DEF Watches
    <3>5. \A j \in 1 .. Len(w.event_log) : n + 1 - j \in 1 .. n BY <3>3, <3>4
    <3>. QED BY <2>2, <2>6, <3>2, <3>5
  <2>11. thread_state # "READY" BY <1>0, <2>2 DEF BoxInv
  <2>12. times'[Events'] = Start(Head(w'.records)) BY <2>2, <2>4, <2>6, <2>7
  <2>13. w'.flush_count = Events' BY <1>0, <2>2, <2>7 DEF LogInv
  <2>. QED BY <1>2, <2>2, <2>3, <2>6, <2>9, <2>10, <2>11, <2>12, <2>13 DEF LogInv
<1>16. CASE LogEvent
  <2>1. /\ pc = "log" /\ w'.flush_count = w.flush_count /\ w'.event_log = Logged(w)
    BY <1>16, LogEffect
  <2>2. UNCHANGED <<times, thread_state>> /\ pc' = Leave(li) BY <1>16 DEF LogEvent
  <2>3. /\ cfg.events.interval # 0 =>
              /\ Len(w'.event_log) = Shorter(Events, cfg.events.count + 1) /\ Len(w'.event_log) > 0
              /\ \A j \in 1 .. Len(w'.event_log) : w'.event_log[j] = times[Events + 1 - j]
    BY <2>1, LoggedEffect
  <2>4. Events' = Events /\ LoggedEvents' = Events BY <1>4, <2>2 DEF LoggedEvents, Leave
  <2>5. pc' \notin Reporting BY <2>2 DEF Leave
  <2>6. Events > 0 BY <1>0, <1>1, <2>1 DEF LogInv, Events
  <2>7. \A m \in 1 .. Events' - Untested' : Calm(m)'
    <3>1. CASE accept_data /\ LogContinue(w)
      <4>1. Untested = 1 BY <2>1, <3>1 DEF Untested
      <4>2. w.flush_count = Events BY <1>0 DEF LogInv
      <4>3. Calm(Events)
        <5>1. CASE cfg.events.interval = 0 BY <3>1, <4>2, <5>1 DEF LogContinue, Calm
        <5>2. CASE cfg.events.interval # 0 /\ Events <= cfg.events.count BY <5>2 DEF Calm
        <5>3. CASE cfg.events.interval # 0 /\ Events > cfg.events.count
          <6>1. PICK l : l = Logged(w) OBVIOUS
          <6>2. l[1] - l[Len(l)] >= cfg.events.interval
            BY <1>1, <3>1, <4>2, <5>3, <6>1 DEF LogContinue
          <6>3. Len(l) = cfg.events.count + 1 BY <1>1, <1>3, <2>1, <2>3, <5>3, <6>1 DEF Shorter
          <6>4. 1 \in 1 .. Len(l) /\ Len(l) \in 1 .. Len(l) BY <1>1, <6>3
          <6>5. l[1] = times[Events + 1 - 1] /\ l[Len(l)] = times[Events + 1 - Len(l)]
            BY <2>1, <2>3, <5>3, <6>1, <6>4
          <6>6. Events + 1 - 1 = Events /\ Events + 1 - Len(l) = Events - cfg.events.count
            BY <1>1, <1>3, <6>3
          <6>. QED BY <5>3, <6>2, <6>5, <6>6 DEF Calm
        <5>. QED BY <1>1, <1>3, <5>1, <5>2, <5>3
      <4>4. \A m \in 1 .. Events - 1 : Calm(m) BY <1>0, <4>1 DEF LogInv
      <4>5. \A m \in 1 .. Events' - Untested' : m = Events \/ m \in 1 .. Events - 1
        BY <1>3, <2>4, AllButLast
      <4>. QED BY <1>4, <2>2, <4>3, <4>4, <4>5
    <3>2. CASE ~(accept_data /\ LogContinue(w))
      <4>1. ~accept_data' BY <1>16, <3>2 DEF LogEvent
      <4>2. Untested' >= Untested BY <2>1, <2>2, <4>1 DEF Untested, Leave
      <4>. QED BY <1>5, <2>2, <4>2
    <3>. QED BY <3>1, <3>2
  <2>8. thread_state' # "READY" BY <1>0, <2>1, <2>2 DEF BoxInv
  <2>9. w'.flush_count = Events' BY <1>0, <2>1, <2>4 DEF LogInv
  <2>. QED BY <1>2, <2>2, <2>3, <2>4, <2>5, <2>7, <2>8, <2>9 DEF LogInv
<1>17. CASE Restart
  <2>1. w' = FreshWatch /\ times' = <<>> /\ li' = Blank /\ pc' = "none" BY <1>17 DEF Restart, Fresh
  <2>2. w'.flush_count = 0 /\ w'.event_log = <<>> BY <2>1 DEF FreshWatch
  <2>3. Events' = 0 /\ LoggedEvents' = 0 BY <2>1 DEF Events, LoggedEvents
  <2>4. \A m \in 1 .. Events' - Untested' : FALSE BY <1>3, <2>3, NothingLeft
  <2>5. Len(w'.event_log) = 0 /\ Shorter(0, cfg.events.count + 1) = 0 BY <1>1, <2>2 DEF Shorter
  <2>. QED BY <1>2, <2>1, <2>2, <2>3, <2>4, <2>5 DEF LogInv
<1>. QED BY <1>7, <1>8, <1>9, <1>10, <1>11, <1>12, <1>13, <1>14, <1>15, <1>16, <1>17
     DEF Next, Main, Thread

LEMMA NoisyIsSeen == EWInv => NoisyIsKilled
<1>. SUFFICES ASSUME EWInv PROVE NoisyIsKilled OBVIOUS
<1>1. times \in Seq(Nat) /\ cfg.events.count \in Nat \ {0} /\ cfg.events.interval \in Nat
  BY DEF EWInv, StateOK, CfgOK
<1>2. PICK n \in Nat : n = Len(times) BY <1>1
<1>3. PICK c \in Nat \ {0} : c = cfg.events.count BY <1>1
<1>4. ASSUME NEW m \in 1 .. n - 2 PROVE Calm(m)
  <2>1. Untested \in {0, 1, 2} /\ Events = n BY <1>2 DEF Untested, Events
  <2>2. m \in 1 .. Events - Untested BY <2>1
  <2>. QED BY <2>2 DEF EWInv, LogInv
<1>5. CASE cfg.events.interval = 0
  <2>1. CASE n <= 2 BY <1>2, <1>3, <1>5, <2>1 DEF NoisyIsKilled
  <2>2. CASE n > 2
    <3>1. n - 2 \in 1 .. n - 2 BY <2>2
    <3>2. n - 2 < c BY <1>3, <1>4, <1>5, <3>1 DEF Calm
    <3>. QED BY <1>2, <1>3, <1>5, <3>2 DEF NoisyIsKilled
  <2>. QED BY <2>1, <2>2
<1>6. CASE cfg.events.interval # 0
  <2>1. ASSUME NEW k \in 1 .. n - (c + 2)
        PROVE  times[k + c + 2] - times[k] >= cfg.events.interval
    <3>1. PICK m \in 1 .. n - 2 : m = k + c OBVIOUS
    <3>2. m > c /\ m - c = k BY <3>1
    <3>3. times[m] - times[k] >= cfg.events.interval
      BY <1>3, <1>4, <1>6, <3>2 DEF Calm
    <3>4. k + c + 2 \in 1 .. n /\ m \in 1 .. (k + c + 2) - 1 /\ m \in 1 .. n /\ k \in 1 .. n
      BY <3>1
    <3>5. times[m] <= times[k + c + 2] BY <1>2, <3>4 DEF EWInv, OrderInv
    <3>6. PICK a \in Nat, b \in Nat, d \in Nat :
            a = times[k] /\ b = times[m] /\ d = times[k + c + 2]
      BY <1>1, <1>2, <3>4
    <3>7. PICK i \in Nat : i = cfg.events.interval BY <1>1
    <3>8. b - a >= i /\ b <= d BY <3>3, <3>5, <3>6, <3>7
    <3>9. d - a >= i BY <3>8
    <3>. QED BY <3>6, <3>7, <3>9
  <2>. QED BY <1>2, <1>3, <1>6, <2>1 DEF NoisyIsKilled
<1>. QED BY <1>5, <1>6
-----------------------------------------------------------------------------
(* The output. *)

LEMMA DirectoryStep ==
    ASSUME EWInv, [Next]_vars
    PROVE  KeptDirectories'
<1>. USE DEF mainVars, sharedVars, threadVars, childVars, historyVars
<1>0. KeptDirectories /\ StateOK /\ w.flush_count \in Nat /\ cfg.keep_last \in Nat \ {0} /\ runs \in Nat
  BY DEF EWInv, StateOK, Watches, CfgOK
<1>1. cfg' = cfg
  BY DEF Next, Main, Thread, Get, FeedCheck, FeedPush, WaitThreadStop, ThreadEntry,
     TakeItem, Process, Flush, Attach, Exec, LogEvent, ThreadExit, ChildEnds, Restart, vars
<1>2. CASE Flush
  <2>1. PICK x : x = Collected(w, li) OBVIOUS
  <2>2. x.flush_count = w.flush_count /\ w'.flush_count = w.flush_count + 1 /\ runs' = runs
    BY <1>2, <2>1, ProcessEffect, FlushEffect DEF Flush, SameLog
  <2>3. PICK n \in Nat : n = w.flush_count BY <1>0
  <2>4. PICK c \in Nat \ {0} : c = cfg.keep_last BY <1>0
  <2>5. PICK kept \in SUBSET Doomed(n) : SetupDirs(n, kept)
    BY <1>2, <2>1, <2>2, <2>3 DEF Flush
  <2>6. ASSUME NEW d \in dirs', d \notin stuck' PROVE d.run = runs /\ d.n > n - c
    <3>1. /\ d \in (dirs \ Doomed(n)) \cup kept \cup {[run |-> runs, n |-> n]}
          /\ d \notin kept /\ d \notin stuck
      BY <2>5, <2>6 DEF SetupDirs
    <3>2. CASE d = [run |-> runs, n |-> n] BY <2>4, <3>2
    <3>3. CASE d \in dirs /\ n # 0 /\ ~(d.n = n - c)
      <4>1. d \in [run : Nat, n : Int] BY <1>0, <3>3 DEF StateOK
      <4>2. d.run = runs /\ d.n > n - 1 - c
        BY <1>0, <2>3, <2>4, <3>1, <3>3 DEF KeptDirectories
      <4>3. d.n \in Int BY <4>1
      <4>. QED BY <3>3, <4>2, <4>3
    <3>. QED BY <2>4, <3>1, <3>2, <3>3 DEF Doomed
  <2>. QED BY <1>1, <2>2, <2>3, <2>4, <2>6 DEF KeptDirectories
<1>3. CASE Restart
  <2>1. w'.flush_count = 0 BY <1>3 DEF Restart, Fresh, FreshWatch
  <2>. QED BY <2>1 DEF KeptDirectories
<1>4. CASE UNCHANGED <<dirs, runs, stuck>> /\ w'.flush_count = w.flush_count
  BY <1>0, <1>1, <1>4 DEF KeptDirectories
<1>5. Flush \/ Restart \/ (UNCHANGED <<dirs, runs, stuck>> /\ (UNCHANGED w \/ Process \/ LogEvent))
  BY DEF Next, Main, Thread, Get, FeedCheck, FeedPush, WaitThreadStop, ThreadEntry,
     TakeItem, Process, Attach, Exec, LogEvent, ThreadExit, ChildEnds, vars
<1>6. Process \/ LogEvent => w'.flush_count = w.flush_count
  BY ProcessDone, LogEffect DEF SameLog
<1>. QED BY <1>2, <1>3, <1>4, <1>5, <1>6

LEMMA OneMore ==
    ASSUME NEW S, NEW s \in Seq(S), NEW e \in S PROVE s \o <<e>> = Append(s, e)
OBVIOUS

LEMMA TwoParts ==
    ASSUME NEW S, NEW s \in Seq(S), NEW t \in Seq(S), NEW u, u = s \o t
    PROVE  /\ u \in Seq(S) /\ Len(u) = Len(s) + Len(t) /\ Len(s) \in Nat /\ Len(t) \in Nat
           /\ \A a \in 1 .. Len(u) :
                 \/ a \in 1 .. Len(s) /\ u[a] = s[a]
                 \/ a - Len(s) \in 1 .. Len(t) /\ u[a] = t[a - Len(s)]
OBVIOUS

LEMMA OutputIsInOrder == EWInv => OutputInOrder
<1>. SUFFICES ASSUME EWInv, pc \notin Reporting
              PROVE  InOrder(told \o AllIds(w.records) \o <<IdsOf(w.record)>>)
  BY DEF OutputInOrder, ItemsOnceInOrder, EWInv, Reporting
<1>1. StateOK /\ OrderInv /\ w \in Watches /\ told \in Seq(Seq(Nat)) BY DEF EWInv, StateOK
<1>2. w.records \in Seq(Recs) /\ w.record \in Recs \cup {NoRecord} BY <1>1 DEF Watches
<1>3. PICK R : R = Recs \cup {NoRecord} OBVIOUS
<1>4. w.records \in Seq(R) /\ w.record \in R BY <1>2, <1>3
<1>5. PICK rs : rs = Append(w.records, w.record) OBVIOUS
<1>6. /\ Len(rs) = Len(w.records) + 1 /\ Len(w.records) \in Nat
      /\ \A k \in 1 .. Len(rs) : \/ k \in 1 .. Len(w.records) /\ rs[k] = w.records[k]
                                 \/ k = Len(w.records) + 1 /\ rs[k] = w.record
  BY <1>4, <1>5, AppendCases
<1>7. \A c \in 1 .. Len(rs) : /\ Sorted(rs[c]) /\ RecordAfterTold(rs[c])
                              /\ \A d \in 1 .. c - 1 : AfterAll(rs[d], rs[c])
  <2>1. /\ Sorted(w.record) /\ RecordAfterTold(w.record)
        /\ \A k \in 1 .. Len(w.records) :
              /\ Sorted(w.records[k]) /\ RecordAfterTold(w.records[k]) /\ AfterAll(w.records[k], w.record)
              /\ \A j \in 1 .. k - 1 : AfterAll(w.records[j], w.records[k])
    BY <1>1 DEF OrderInv, OrderedWatch
  <2>2. ASSUME NEW c \in 1 .. Len(rs), NEW d \in 1 .. c - 1 PROVE AfterAll(rs[d], rs[c])
    <3>1. d \in 1 .. Len(w.records) /\ rs[d] = w.records[d] BY <1>6
    <3>. QED BY <1>6, <2>1, <3>1
  <2>. QED BY <1>6, <2>1, <2>2
<1>8. PICK A : A = AllIds(w.records) OBVIOUS
<1>9. /\ A \in Seq(Seq(Nat)) /\ Len(A) = Len(w.records)
      /\ \A k \in 1 .. Len(w.records) : A[k] = IdsOf(w.records[k])
  BY <1>2, <1>8, IdsInSeq
<1>10. PICK L : L = IdsOf(w.record) OBVIOUS
<1>11. ASSUME NEW r \in R
       PROVE  /\ Len(r.items) \in Nat /\ Len(IdsOf(r)) = Len(r.items)
              /\ \A b \in 1 .. Len(r.items) : IdsOf(r)[b] = r.items[b].id
              /\ \A b \in 1 .. Len(r.items) : r.items[b].id \in Nat
  <2>0. <<>> \in Seq(Items) OBVIOUS
  <2>1. r.items \in Seq(Items)
    <3>1. CASE r \in Recs BY <3>1 DEF Recs
    <3>2. CASE r = NoRecord BY <2>0, <3>2 DEF NoRecord
    <3>. QED BY <1>3, <3>1, <3>2
  <2>2. \A b \in 1 .. Len(r.items) : r.items[b] \in Items BY <2>1
  <2>3. \A b \in 1 .. Len(r.items) : r.items[b].id \in Nat BY <2>2 DEF Items
  <2>4. Len(r.items) \in Nat BY <2>1
  <2>. QED BY <2>3, <2>4 DEF IdsOf
<1>12. L \in Seq(Nat) BY <1>4, <1>10, <1>11 DEF IdsOf
<1>13. PICK nt : nt = told \o A \o <<L>> OBVIOUS
<1>14. \A a \in 1 .. Len(nt) :
         \/ a \in 1 .. Len(told) /\ nt[a] = told[a]
         \/ a - Len(told) \in 1 .. Len(A) /\ nt[a] = A[a - Len(told)]
         \/ a = Len(told) + Len(A) + 1 /\ nt[a] = L
  <2>1. PICK S : S = Seq(Nat) OBVIOUS
  <2>2. told \in Seq(S) /\ A \in Seq(S) /\ L \in S BY <1>1, <1>9, <1>12, <2>1
  <2>3. PICK u : u = told \o A OBVIOUS
  <2>4. /\ u \in Seq(S) /\ Len(u) = Len(told) + Len(A) /\ Len(told) \in Nat /\ Len(A) \in Nat
        /\ \A a \in 1 .. Len(u) :
              \/ a \in 1 .. Len(told) /\ u[a] = told[a]
              \/ a - Len(told) \in 1 .. Len(A) /\ u[a] = A[a - Len(told)]
    BY <2>2, <2>3, TwoParts
  <2>5. nt = Append(u, L)
    <3>1. u \in Seq(S) BY <2>4
    <3>. QED BY <1>13, <2>2, <2>3, <3>1, OneMore
  <2>6. \A a \in 1 .. Len(nt) : \/ a \in 1 .. Len(u) /\ nt[a] = u[a]
                                \/ a = Len(u) + 1 /\ nt[a] = L
    BY <2>2, <2>4, <2>5, AppendCases
  <2>. QED BY <2>4, <2>6
<1>15. AppendedIds(rs, nt)
  <2>. SUFFICES ASSUME NEW a \in 1 .. Len(nt), ~(a \in 1 .. Len(told) /\ nt[a] = told[a])
                PROVE  \E c \in 1 .. Len(rs) :
                         /\ a = Len(told) + c /\ Len(nt[a]) = Len(rs[c].items)
                         /\ \A b \in 1 .. Len(nt[a]) : nt[a][b] = rs[c].items[b].id
    BY DEF AppendedIds
  <2>0. Len(told) \in Nat BY <1>1
  <2>1. PICK c \in 1 .. Len(rs) : a = Len(told) + c /\ nt[a] = IdsOf(rs[c])
    <3>1. CASE a - Len(told) \in 1 .. Len(A) /\ nt[a] = A[a - Len(told)]
      <4>1. PICK c \in 1 .. Len(w.records) : c = a - Len(told) BY <1>9, <3>1
      <4>2. c \in 1 .. Len(rs) /\ rs[c] = w.records[c] /\ a = Len(told) + c BY <1>6, <2>0, <4>1
      <4>. QED BY <1>9, <3>1, <4>1, <4>2
    <3>2. CASE a = Len(told) + Len(A) + 1 /\ nt[a] = L
      <4>1. PICK c \in 1 .. Len(rs) : c = Len(w.records) + 1 BY <1>6
      <4>2. rs[c] = w.record BY <1>6, <4>1
      <4>3. a = Len(told) + c BY <1>6, <1>9, <2>0, <3>2, <4>1
      <4>. QED BY <1>10, <3>2, <4>2, <4>3
    <3>. QED BY <1>14, <3>1, <3>2
  <2>2. rs[c] \in R BY <1>4, <1>6
  <2>. QED BY <1>11, <2>1, <2>2
<1>16. InOrder(nt)
  <2>1. InOrder(told) /\ Len(rs) \in Nat BY <1>1, <1>6 DEF OrderInv
  <2>. QED BY <1>1, <1>7, <1>15, <2>1, InOrderAppended
<1>. QED BY <1>8, <1>10, <1>13, <1>16
-----------------------------------------------------------------------------
(* The theorems. *)

LEMMA EWInit == Init => EWInv
<1>. SUFFICES ASSUME Init PROVE EWInv OBVIOUS
<1>. USE Constants, EndIsNotBlank DEF Reporting
<1>0. /\ main = "first" /\ item = Blank /\ last = [prio |-> 0, ts |-> 0] /\ clock = 0 /\ lastid = 0
      /\ runs = 1 /\ mailbox = <<>> /\ items_available = 0 /\ accept_data = TRUE
      /\ thread_state = "READY" /\ pc = "none" /\ li = Blank /\ w = FreshWatch
      /\ dirs = {} /\ told = <<>> /\ times = <<>>
  BY DEF Init
<1>1. CfgOK
  <2>1. PICK raw \in Configs : cfg = Watcher(raw) BY DEF Init
  <2>. QED BY <2>1, ConfigsAssumption, WatcherOK
<1>2. /\ w.record.items = <<>> /\ w.records = <<>> /\ w.suspended = <<>> /\ w.count = 0
      /\ w.flush_count = 0 /\ w.event_log = <<>>
  BY <1>0 DEF FreshWatch, NoRecord
<1>3. Len(<<>>) = 0 /\ \A k \in 1 .. Len(<<>>) : FALSE OBVIOUS
<1>4. StateOK
  <2>1. mailbox \in Seq(Items) /\ told \in Seq(Seq(Nat)) /\ times \in Seq(Nat) BY <1>0
  <2>2. last \in [prio : Nat, ts : Nat] /\ clock \in Nat /\ lastid \in Nat /\ runs \in Nat
        /\ items_available \in Nat
    BY <1>0
  <2>3. accept_data \in BOOLEAN BY <1>0
  <2>. QED BY <1>0, <1>1, <2>1, <2>2, <2>3 DEF StateOK
<1>5. BoxInv BY <1>0, <1>3 DEF BoxInv, EndIsLast
<1>6. QueueInv BY <1>0, <1>3 DEF QueueInv
<1>7. OrderInv
  <2>1. Later(Coming) BY <1>0, <1>2, <1>3 DEF Later, AfterWatch, AfterRecord, AfterTold
  <2>2. OrderedWatch(w) BY <1>2, <1>3 DEF OrderedWatch, Sorted
  <2>3. InOrder(told) BY <1>0, <1>3 DEF InOrder
  <2>4. RecordAfterTold(w.record) BY <1>2, <1>3 DEF RecordAfterTold
  <2>. QED BY <1>0, <1>2, <1>3, <2>1, <2>2, <2>3, <2>4 DEF OrderInv
<1>8. SuspendInv
  <2>1. SuspendedOK(w) BY <1>1, <1>2, <1>3 DEF SuspendedOK, CfgOK
  <2>2. Unsuspended(w) BY <1>2, <1>3 DEF Unsuspended
  <2>3. SuspendHolds BY <1>0, <1>3 DEF SuspendHolds
  <2>. QED BY <1>0, <2>1, <2>2, <2>3 DEF SuspendInv
<1>9. LogInv
  <2>1. Events = 0 /\ LoggedEvents = 0 /\ Untested \in Nat BY <1>0, <1>3 DEF Events, LoggedEvents, Untested
  <2>2. \A m \in 1 .. Events - Untested : FALSE BY <2>1, NothingLeft
  <2>3. Shorter(0, cfg.events.count + 1) = 0 BY <1>1 DEF Shorter, CfgOK
  <2>. QED BY <1>0, <1>2, <1>3, <2>1, <2>2, <2>3 DEF LogInv
<1>10. KeptDirectories BY <1>2 DEF KeptDirectories
<1>. QED BY <1>4, <1>5, <1>6, <1>7, <1>8, <1>9, <1>10 DEF EWInv

LEMMA EWStep == EWInv /\ [Next]_vars => EWInv'
<1>. SUFFICES ASSUME EWInv, [Next]_vars PROVE EWInv' OBVIOUS
<1>1. StateOK /\ BoxInv /\ QueueInv BY DEF EWInv
<1>2. StateOK' BY StateStep
<1>3. BoxInv' /\ QueueInv' BY <1>1, <1>2, BoxStep, QueueStep
<1>4. OrderInv' /\ SuspendInv' /\ LogInv' BY <1>2, OrderStep, SuspendStep, LogStep
<1>5. KeptDirectories' BY DirectoryStep
<1>. QED BY <1>2, <1>3, <1>4, <1>5 DEF EWInv

\* The invariant of log-watch, for every configuration and every limit.
LEMMA Watched == Spec => []EWInv
<1>. QED BY EWInit, EWStep, PTL DEF Spec

\* The mailbox and its semaphore fit together: the thread never wakes up for
\* nothing, and behind the end that feed or a noisy flush leaves nothing is
\* queued (EventWatch::feed, flush, threadLoop).
THEOREM MailboxFits == Spec => []MailboxSound
<1>1. EWInv => MailboxSound BY BoxIsSound DEF EWInv
<1>. QED BY <1>1, Watched, PTL

\* Every item is reported at most once and in the order in which it was read,
\* and only the last keep_last directories of this run remain, next to those
\* whose removal failed (EventWatch::process, addRecord, flush, setupOutputDir).
THEOREM OutputKept == Spec => []OutputInOrder
BY OutputIsInOrder, Watched, PTL

\* A watcher that raises more than max_event_count events in
\* max_event_interval, or overall, raises at most one more
\* (EventWatch::logEvent, logContinue, flush).
THEOREM NoiseEnds == Spec => []NoisyIsKilled
BY NoisyIsSeen, Watched, PTL

\* The next event begins after the period counted from the first record of
\* the last one, and suspend.txt holds the newest of the records put aside in
\* it (EventWatch::process, addRecord, flush).
THEOREM SuspensionKept == Spec => []SuspendSound
BY SuspendIsSound, Watched, PTL
=============================================================================
