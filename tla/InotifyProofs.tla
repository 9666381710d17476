--------------------------- MODULE InotifyProofs ---------------------------
(***************************************************************************)
(* Every entry holds the live watch of its path and callbacks see events   *)
(* in order, for any array of entries, any directories and any buffer; and *)
(* a daemon with nothing left to read watches every directory, if nothing  *)
(* failed.  Then the callbacks (CrashFiles): a file is reported once       *)
(* through all its renames, none is forgotten, and the logs of an event    *)
(* have no gap, for any files, batches, failures, kills and rotations.     *)
(***************************************************************************)
EXTENDS Inotify, CrashFiles, FiniteSetTheorems, SequenceTheorems, TLAPS

(* Entries of one path hold one watch, and of two paths never the same.     *)
SharedWatch == \A e, f \in Entries : PathOf[e] = PathOf[f] => wds[e] = wds[f]
OwnWatch ==
    \A e, f \in Entries : wds[e] = wds[f] /\ wds[e] # -1 => PathOf[e] = PathOf[f]
WatchInv == LiveWatchKnown /\ SharedWatch /\ OwnWatch

(* An event is being completed only while there is one in the buffer.       *)
Typed == TypeOK /\ (main = "stuck" => buf # <<>>)

(* Events wait in the order they happened, behind the handled ones.         *)
Sorted(s) ==
    \A i, j \in 1 .. Len(s) : i < j =>
        /\ s[i].id <= s[j].id
        /\ s[j].kind = "file" => s[i].id < s[j].id
Before(s, t) ==
    \A i \in 1 .. Len(s), j \in 1 .. Len(t) :
        /\ s[i].id <= t[j].id
        /\ t[j].kind = "file" => s[i].id < t[j].id
Behind(s) ==
    \A i \in 1 .. Len(handled), j \in 1 .. Len(s) :
        s[j].kind = "file" => handled[i] < s[j].id
OrderInv ==
    /\ Sorted(buf) /\ Sorted(queue) /\ Before(buf, queue)
    /\ Behind(buf) /\ Behind(queue)
    /\ \A i \in 1 .. Len(queue) : queue[i].id <= lastid
    /\ \A i \in 1 .. Len(buf) : buf[i].id <= lastid
    /\ \A i \in 1 .. Len(handled) : handled[i] <= lastid
    /\ HandledInOrder

----------------------------------------------------------------------------
(* What a read takes from the queue is a prefix of it.                      *)
LEMMA FitType ==
    ASSUME NEW s \in Seq(Event), NEW n
    PROVE  Fit(s, n) \in 0 .. Len(s)
<1> DEFINE K == {k \in 1 .. Len(s) : Units(Prefix(s, k)) <= n}
<1>1. Len(s) \in Nat
  OBVIOUS
<1>2. IsFiniteSet(1 .. Len(s)) /\ Cardinality(1 .. Len(s)) <= Len(s)
  BY <1>1, FS_Interval
<1>3. K \in SUBSET (1 .. Len(s))
  OBVIOUS
<1>4. IsFiniteSet(K) /\ Cardinality(K) <= Cardinality(1 .. Len(s))
  BY <1>2, <1>3, FS_Subset
<1>5. Cardinality(K) \in Nat /\ Cardinality(1 .. Len(s)) \in Nat
  BY <1>2, <1>4, FS_CardinalityType
<1>6. Fit(s, n) = Cardinality(K)
  BY DEF Fit
<1> HIDE DEF K
<1> QED BY <1>1, <1>2, <1>4, <1>5, <1>6

LEMMA CutType ==
    ASSUME NEW s \in Seq(Event), NEW k \in 0 .. Len(s)
    PROVE  /\ Prefix(s, k) \in Seq(Event) /\ Len(Prefix(s, k)) = k
           /\ \A i \in 1 .. k : Prefix(s, k)[i] = s[i]
           /\ Suffix(s, k) \in Seq(Event) /\ Len(Suffix(s, k)) = Len(s) - k
           /\ \A i \in 1 .. Len(s) - k : Suffix(s, k)[i] = s[k + i]
<1>1. Len(s) \in Nat /\ k \in Nat /\ \A i \in 1 .. Len(s) : s[i] \in Event
  OBVIOUS
<1>2. /\ SubSeq(s, 1, k) \in Seq(Event) /\ Len(SubSeq(s, 1, k)) = k
      /\ \A i \in 1 .. k : SubSeq(s, 1, k)[i] = s[i]
  BY <1>1
<1>3. /\ SubSeq(s, k + 1, Len(s)) \in Seq(Event)
      /\ Len(SubSeq(s, k + 1, Len(s))) = Len(s) - k
      /\ \A i \in 1 .. Len(s) - k : SubSeq(s, k + 1, Len(s))[i] = s[k + i]
  BY <1>1
<1> QED BY <1>2, <1>3 DEF Prefix, Suffix

(* The first watches of the paths differ.                                   *)
LEMMA FirstWatchType ==
    /\ Cardinality(Dirs) \in Nat
    /\ FirstWatch \in [Dirs -> 1 .. Cardinality(Dirs)]
    /\ \A c, d \in Dirs : c # d => FirstWatch[c] # FirstWatch[d]
<1> DEFINE n == Cardinality(Dirs)
<1>1. n \in Nat /\ ExistsBijection(1 .. n, Dirs)
  BY ArrayAssumption, FS_CardinalityType
<1> HIDE DEF n
<1>2. PICK g \in Bijection(1 .. n, Dirs) : TRUE
  BY <1>1 DEF ExistsBijection
<1>3. g \in [1 .. n -> Dirs] /\ \A d \in Dirs : \E i \in 1 .. n : g[i] = d
  BY <1>2 DEF Bijection, Surjection, Injection
<1> DEFINE h == [d \in Dirs |-> CHOOSE i \in 1 .. n : g[i] = d]
<1>4. \A d \in Dirs : h[d] \in 1 .. n /\ g[h[d]] = d
  BY <1>3
<1>5. h \in [Dirs -> 1 .. n]
  BY <1>4
<1>6. \A c, d \in Dirs : c # d => h[c] # h[d]
  BY <1>4
<1> HIDE DEF h
<1>7. \E f \in [Dirs -> 1 .. n] : \A c, d \in Dirs : c # d => f[c] # f[d]
  BY <1>5, <1>6
<1> QED BY <1>1, <1>7 DEF FirstWatch, n

----------------------------------------------------------------------------
(* Type correctness.                                                        *)

LEMMA TakeType ==
    ASSUME Typed, Take
    PROVE  /\ buf # <<>> /\ Current \in Event /\ Tail(buf) \in Seq(Event)
           /\ queue' \in Seq(Event)
           /\ \E k \in 0 .. Len(queue) : queue' = Suffix(queue, k)
<1>1. queue \in Seq(Event) /\ buf \in Seq(Event)
  BY DEF Typed, TypeOK
<1>2. buf # <<>>
  BY DEF Typed, Take, Ready, Complete, Completing, Truncated
<1>3. Current \in Event /\ Tail(buf) \in Seq(Event)
  BY <1>1, <1>2, HeadTailProperties DEF Current
<1>4. Suffix(queue, 0) = queue
  BY <1>1, SubSeqFull DEF Suffix
<1>5. 0 \in 0 .. Len(queue)
  BY <1>1
<1>6. Fit(queue, Missing) \in 0 .. Len(queue)
  BY <1>1, FitType
<1>7. PICK k \in 0 .. Len(queue) : queue' = Suffix(queue, k)
  BY <1>4, <1>5, <1>6 DEF Take
<1> QED BY <1>1, <1>2, <1>3, <1>7, CutType

LEMMA ContinueType ==
    ASSUME Typed, Take, Continue
    PROVE  /\ buf' \in Seq(Event) /\ main' = "parse" /\ prev' \in Nat
           /\ trouble' \in BOOLEAN
<1>1. Current.len \in Nat
  BY TakeType DEF Event
<1>2. buf' \in Seq(Event)
  BY TakeType DEF Continue
<1>3. trouble' \in BOOLEAN
  BY DEF Continue
<1> QED BY <1>1, <1>2, <1>3 DEF Continue

LEMMA ReturnType ==
    ASSUME Return
    PROVE  buf' \in Seq(Event) /\ main' = "select" /\ prev' \in Nat /\ buf' = <<>>
BY DEF Return

LEMMA TypedInit == Init => Typed
<1> SUFFICES ASSUME Init PROVE Typed
  OBVIOUS
<1>1. watched \in [Dirs -> 0 .. lastwd] /\ lastwd \in Nat
  BY FirstWatchType DEF Init
<1>2. wds \in [Entries -> -1 .. lastwd]
  <2>1. \A e \in Entries : FirstWatch[PathOf[e]] \in -1 .. lastwd
    BY FirstWatchType, ArrayAssumption DEF Init
  <2> QED BY <2>1 DEF Init
<1>3. lastid \in 0 .. MaxEvents /\ present \in [Dirs -> BOOLEAN]
  BY SizeAssumption DEF Init
<1>4. queue \in Seq(Event) /\ buf \in Seq(Event) /\ handled \in Seq(Nat)
  BY DEF Init
<1>5. main \in {"select", "parse", "stuck"} /\ prev \in Nat /\ main # "stuck"
  BY DEF Init
<1>6. trouble \in BOOLEAN
  BY DEF Init
<1> QED BY <1>1, <1>2, <1>3, <1>4, <1>5, <1>6 DEF Typed, TypeOK

LEMMA TypedNext == Typed /\ [Next]_vars => Typed'
<1> SUFFICES ASSUME Typed, [Next]_vars PROVE Typed'
  OBVIOUS
<1> USE SizeAssumption
<1>0. /\ present \in [Dirs -> BOOLEAN] /\ watched \in [Dirs -> 0 .. lastwd]
      /\ queue \in Seq(Event) /\ buf \in Seq(Event)
      /\ wds \in [Entries -> -1 .. lastwd] /\ lastwd \in Nat
      /\ main \in {"select", "parse", "stuck"} /\ prev \in Nat
      /\ lastid \in 0 .. MaxEvents /\ handled \in Seq(Nat)
      /\ trouble \in BOOLEAN
      /\ MaxEvents \in Nat
      /\ main = "stuck" => buf # <<>>
  BY DEF Typed, TypeOK
<1>fresh. ASSUME FreshId PROVE lastid' \in 0 .. MaxEvents /\ lastid + 1 \in Nat
  BY <1>0, <1>fresh DEF FreshId
<1>1. ASSUME NEW d \in Dirs, NEW n \in NameLens, WriteFile(d, n) PROVE Typed'
  <2> DEFINE v == [kind |-> "file", wd |-> watched[d], len |-> n, id |-> lastid + 1]
  <2>1. lastid' \in 0 .. MaxEvents /\ lastid + 1 \in Nat
    BY <1>1, <1>fresh DEF WriteFile
  <2>2. v \in Event
    BY <1>0, <2>1 DEF Event, Kinds
  <2>3. queue' = queue \/ queue' = Append(queue, v)
    BY <1>1 DEF WriteFile
  <2> HIDE DEF v
  <2>q. queue \in Seq(Event)
    BY <1>0
  <2>a. Append(queue, v) \in Seq(Event)
    BY <2>2, <2>q
  <2>4. queue' \in Seq(Event)
    BY <2>3, <2>a, <2>q, Zenon
  <2> QED BY <1>0, <1>1, <2>1, <2>4 DEF WriteFile, loop, Typed, TypeOK
<1>2. ASSUME NEW d \in Dirs, RemoveDir(d) PROVE Typed'
  <2> DEFINE v == [kind |-> "self", wd |-> watched[d], len |-> 0, id |-> lastid + 1]
             w == [kind |-> "ignored", wd |-> watched[d], len |-> 0, id |-> lastid + 1]
  <2>1. lastid' \in 0 .. MaxEvents /\ lastid + 1 \in Nat
    BY <1>2, <1>fresh DEF RemoveDir
  <2>2. v \in Event /\ w \in Event
    BY <1>0, <2>1 DEF Event, Kinds
  <2>3. queue' = queue \/ queue' = queue \o <<v, w>>
    BY <1>2 DEF RemoveDir
  <2> HIDE DEF v, w
  <2>q. queue \in Seq(Event)
    BY <1>0
  <2>p. <<v, w>> \in Seq(Event)
    BY <2>2
  <2>a. queue \o <<v, w>> \in Seq(Event)
    BY <2>p, <2>q
  <2>4. queue' \in Seq(Event)
    BY <2>3, <2>a, <2>q, Zenon
  <2>5. present' \in [Dirs -> BOOLEAN] /\ watched' \in [Dirs -> 0 .. lastwd]
    BY <1>0, <1>2 DEF RemoveDir
  <2> QED BY <1>0, <1>2, <2>1, <2>4, <2>5 DEF RemoveDir, loop, Typed, TypeOK
<1>3. ASSUME NEW d \in Dirs, RecreateDir(d) PROVE Typed'
  <2>1. present' \in [Dirs -> BOOLEAN]
    BY <1>0, <1>3 DEF RecreateDir
  <2> QED BY <1>0, <1>3, <2>1 DEF RecreateDir, loop, Typed, TypeOK
<1>4. CASE Receive
  <2>1. Fit(queue, BufSize) \in 0 .. Len(queue)
    BY <1>0, FitType
  <2>2. queue' \in Seq(Event) /\ buf' \in Seq(Event)
    BY <1>0, <1>4, <2>1, CutType DEF Receive
  <2>3. Head(queue) \in Event
    BY <1>0, <1>4, HeadTailProperties DEF Receive
  <2>4. prev' \in Nat /\ main' = "parse"
    BY <1>4, <2>3 DEF Receive, Event
  <2> QED BY <1>0, <1>4, <2>2, <2>4 DEF Receive, Typed, TypeOK
<1>5. CASE EndOfBuffer
  BY <1>0, <1>5, ReturnType DEF EndOfBuffer, kernel, Typed, TypeOK
<1>6. CASE ReadBlocks
  BY <1>0, <1>6 DEF ReadBlocks, Truncated, kernel, Typed, TypeOK
<1>7. CASE CompletionFails
  <2>1. Fit(queue, Missing) \in 0 .. Len(queue)
    BY <1>0, FitType
  <2>2. queue' \in Seq(Event)
    BY <1>0, <1>7, <2>1, CutType DEF CompletionFails
  <2>3. Return /\ trouble' = TRUE
    BY <1>7 DEF CompletionFails
  <2> QED BY <1>0, <1>7, <2>2, <2>3, ReturnType DEF CompletionFails, Typed, TypeOK
<1>next. ASSUME Take, Continue \/ Fail
         PROVE  /\ queue' \in Seq(Event) /\ buf' \in Seq(Event)
                /\ main' \in {"select", "parse"} /\ prev' \in Nat
                /\ trouble' \in BOOLEAN
  <2>1. queue' \in Seq(Event)
    BY <1>next, TakeType
  <2>2. CASE Continue
    BY <1>next, <2>1, <2>2, ContinueType
  <2>3. CASE Fail
    BY <2>1, <2>3, ReturnType DEF Fail
  <2> QED BY <1>next, <2>2, <2>3
<1>8. CASE HandleFile
  <2>1. Current.id \in Nat
    BY <1>8, TakeType DEF HandleFile, Event
  <2>2. handled' \in Seq(Nat)
    BY <1>0, <1>8, <2>1 DEF HandleFile
  <2> QED BY <1>0, <1>8, <1>next, <2>2 DEF HandleFile, Typed, TypeOK
<1>9. CASE DropStray
  BY <1>0, <1>9, <1>next DEF DropStray, Typed, TypeOK
<1>10. CASE Rewatch
  <2>1. lastwd' \in Nat /\ lastwd' = lastwd + 1
    BY <1>0, <1>10 DEF Rewatch
  <2>2. present' \in [Dirs -> BOOLEAN] /\ watched' \in [Dirs -> 0 .. lastwd']
    BY <1>0, <1>10, <2>1, ArrayAssumption DEF Rewatch, Known
  <2>3. wds' \in [Entries -> -1 .. lastwd']
    BY <1>0, <1>10, <2>1 DEF Rewatch
  <2> QED BY <1>0, <1>10, <1>next, <2>1, <2>2, <2>3 DEF Rewatch, Typed, TypeOK
<1>11. CASE MkdirFails
  BY <1>0, <1>11, <1>next DEF MkdirFails, Typed, TypeOK
<1>12. CASE AddWatchFails
  <2>1. present' \in [Dirs -> BOOLEAN]
    BY <1>0, <1>12 DEF AddWatchFails
  <2> QED BY <1>0, <1>12, <1>next, <2>1 DEF AddWatchFails, Typed, TypeOK
<1>13. CASE InitInotifyHandler
  <2>1. lastwd' = lastwd + Cardinality(Dirs) /\ lastwd' \in Nat
    BY <1>0, <1>13, FirstWatchType DEF InitInotifyHandler
  <2>2. \A d \in Dirs : NewWatch(d) \in 0 .. lastwd'
    BY <1>0, <2>1, FirstWatchType DEF NewWatch
  <2>3. watched' \in [Dirs -> 0 .. lastwd'] /\ wds' \in [Entries -> -1 .. lastwd']
    <3>1. watched' \in [Dirs -> 0 .. lastwd']
      BY <1>13, <2>2 DEF InitInotifyHandler
    <3>2. \A e \in Entries : NewWatch(PathOf[e]) \in -1 .. lastwd'
      BY <2>1, <2>2, ArrayAssumption
    <3>3. wds' \in [Entries -> -1 .. lastwd']
      BY <1>13, <2>1, <3>2 DEF InitInotifyHandler
    <3> QED BY <3>1, <3>3
  <2>4. lastid' \in 0 .. MaxEvents
    BY <1>13, <1>fresh DEF InitInotifyHandler
  <2>5. queue' \in Seq(Event) /\ trouble' \in BOOLEAN /\ Return
    BY <1>13 DEF InitInotifyHandler
  <2> QED BY <1>0, <1>13, <2>1, <2>3, <2>4, <2>5, ReturnType
          DEF InitInotifyHandler, Typed, TypeOK
<1>14. CASE UNCHANGED vars
  BY <1>0, <1>14 DEF vars, kernel, loop, Typed, TypeOK
<1> QED
  BY <1>1, <1>2, <1>3, <1>4, <1>5, <1>6, <1>7, <1>8, <1>9, <1>10, <1>11,
     <1>12, <1>13, <1>14 DEF Next

(* The array, the watches and the buffers keep their types; in particular   *)
(* the length test always meets a natural length.                           *)
THEOREM TypeCorrect == Spec => []TypeOK
<1>1. Typed => TypeOK
  BY DEF Typed
<1> QED BY <1>1, TypedInit, TypedNext, PTL DEF Spec

----------------------------------------------------------------------------
(* The watches.                                                             *)

LEMMA WatchInit == Init => WatchInv
<1> SUFFICES ASSUME Init PROVE WatchInv
  OBVIOUS
<1>1. \A e \in Entries : wds[e] = FirstWatch[PathOf[e]] /\ PathOf[e] \in Dirs
  BY ArrayAssumption DEF Init
<1> QED BY <1>1, FirstWatchType DEF Init, WatchInv, LiveWatchKnown, SharedWatch, OwnWatch

LEMMA WatchNext == Typed /\ WatchInv /\ [Next]_vars => WatchInv'
<1> SUFFICES ASSUME Typed, WatchInv, [Next]_vars PROVE WatchInv'
  OBVIOUS
<1>0. /\ watched \in [Dirs -> 0 .. lastwd] /\ wds \in [Entries -> -1 .. lastwd]
      /\ lastwd \in Nat /\ PathOf \in [Entries -> Dirs]
  BY ArrayAssumption DEF Typed, TypeOK
<1>same. ASSUME UNCHANGED <<watched, wds>> PROVE WatchInv'
  BY <1>same DEF WatchInv, LiveWatchKnown, SharedWatch, OwnWatch
<1>1. ASSUME NEW d \in Dirs, NEW n \in NameLens, WriteFile(d, n) PROVE WatchInv'
  BY <1>1, <1>same DEF WriteFile
<1>2. ASSUME NEW d \in Dirs, RemoveDir(d) PROVE WatchInv'
  BY <1>0, <1>2 DEF RemoveDir, WatchInv, LiveWatchKnown, SharedWatch, OwnWatch
<1>3. ASSUME NEW d \in Dirs, RecreateDir(d) PROVE WatchInv'
  BY <1>3, <1>same DEF RecreateDir
<1>4. CASE Receive \/ EndOfBuffer \/ ReadBlocks \/ CompletionFails
  BY <1>4, <1>same DEF Receive, EndOfBuffer, ReadBlocks, CompletionFails, kernel
<1>5. CASE HandleFile \/ DropStray \/ MkdirFails \/ AddWatchFails
  BY <1>5, <1>same DEF HandleFile, DropStray, MkdirFails, AddWatchFails
<1>6. CASE Rewatch
  (* The entries of the removed watch are those of one path, all of them.   *)
  <2>1. PICK e \in Known : watched' = [watched EXCEPT ![PathOf[e]] = lastwd + 1]
    BY <1>6 DEF Rewatch
  <2>2. e \in Entries /\ wds[e] = Current.wd
    BY <2>1 DEF Known
  <2>3. wds[e] # -1
    BY <1>6, <2>2, TakeType DEF Rewatch, Event
  <2>4. \A f \in Entries : f \in Known <=> PathOf[f] = PathOf[e]
    BY <2>2, <2>3 DEF Known, WatchInv, SharedWatch, OwnWatch
  <2>5. \A f \in Entries : wds'[f] = IF PathOf[f] = PathOf[e] THEN lastwd + 1 ELSE wds[f]
    BY <1>6, <2>4 DEF Rewatch
  <2>6. \A f \in Entries : wds[f] # lastwd + 1
    BY <1>0
  <2>7. LiveWatchKnown'
    BY <1>0, <2>1, <2>2, <2>5 DEF WatchInv, LiveWatchKnown
  <2>8. SharedWatch'
    BY <2>5 DEF WatchInv, SharedWatch
  <2>9. OwnWatch'
    BY <2>5, <2>6 DEF WatchInv, OwnWatch
  <2> QED BY <2>7, <2>8, <2>9 DEF WatchInv
<1>7. CASE InitInotifyHandler
  <2>1. \A d \in Dirs : watched'[d] = NewWatch(d)
    BY <1>7 DEF InitInotifyHandler
  <2>2. \A e \in Entries :
            wds'[e] = IF present[PathOf[e]] THEN NewWatch(PathOf[e]) ELSE -1
    BY <1>7 DEF InitInotifyHandler
  <2>3. LiveWatchKnown'
    BY <1>0, <2>1, <2>2 DEF NewWatch, LiveWatchKnown
  <2>4. SharedWatch'
    BY <2>2 DEF SharedWatch
  <2>5. \A d \in Dirs : lastwd + FirstWatch[d] # -1
    BY <1>0, FirstWatchType
  <2>6. \A c, d \in Dirs : c # d => lastwd + FirstWatch[c] # lastwd + FirstWatch[d]
    BY <1>0, FirstWatchType
  <2>7. OwnWatch'
    BY <1>0, <2>2, <2>5, <2>6 DEF NewWatch, OwnWatch
  <2> QED BY <2>3, <2>4, <2>7 DEF WatchInv
<1>8. CASE UNCHANGED vars
  BY <1>8, <1>same DEF vars, kernel
<1> QED
  BY <1>1, <1>2, <1>3, <1>4, <1>5, <1>6, <1>7, <1>8 DEF Next

(* Every entry of a path with a live watch holds that watch: an event of a  *)
(* watched directory finds its entry in wd_array, for any array, whatever   *)
(* directories are removed and whichever calls fail.                        *)
THEOREM WatchSafe == Spec => []LiveWatchKnown
<1>1. Init => Typed /\ WatchInv
  BY TypedInit, WatchInit
<1>2. Typed /\ WatchInv /\ [Next]_vars => (Typed /\ WatchInv)'
  BY TypedNext, WatchNext
<1>3. WatchInv => LiveWatchKnown
  BY DEF WatchInv
<1> QED BY <1>1, <1>2, <1>3, PTL DEF Spec

----------------------------------------------------------------------------
(* The order of the callbacks.                                              *)

(* What is left of the queue and of the buffer stays in order.              *)
LEMMA CutOrder ==
    ASSUME Typed, OrderInv, NEW k \in 0 .. Len(queue), queue' = Suffix(queue, k),
           \/ buf' = <<>>
           \/ buf # <<>> /\ buf' = Tail(buf)
    PROVE  /\ Sorted(buf') /\ Sorted(queue') /\ Before(buf', queue')
           /\ \A i \in 1 .. Len(queue') : queue'[i].id <= lastid
           /\ \A i \in 1 .. Len(buf') : buf'[i].id <= lastid
<1>1. queue \in Seq(Event) /\ buf \in Seq(Event) /\ Len(queue) \in Nat
  BY DEF Typed, TypeOK
<1>2. /\ Len(queue') = Len(queue) - k
      /\ \A i \in 1 .. Len(queue) - k : queue'[i] = queue[k + i]
  BY <1>1, CutType
<1>i. \A i \in 1 .. Len(queue') : i \in Nat /\ k + i \in 1 .. Len(queue) /\ queue'[i] = queue[k + i]
  BY <1>1, <1>2
<1>j. \A i, j \in 1 .. Len(queue') : i < j => k + i < k + j
  BY <1>1, <1>i
<1>o. Sorted(queue)
  BY DEF OrderInv
<1>s. Sorted(queue')
  <2> SUFFICES ASSUME NEW i \in 1 .. Len(queue'), NEW j \in 1 .. Len(queue'), i < j
               PROVE  /\ queue'[i].id <= queue'[j].id
                      /\ queue'[j].kind = "file" => queue'[i].id < queue'[j].id
    BY DEF Sorted
  <2>1. /\ k + i \in 1 .. Len(queue) /\ k + j \in 1 .. Len(queue) /\ k + i < k + j
        /\ queue'[i] = queue[k + i] /\ queue'[j] = queue[k + j]
    BY <1>i, <1>j
  <2> QED BY <1>o, <2>1, Zenon DEF Sorted
<1>3. /\ Sorted(queue')
      /\ \A i \in 1 .. Len(queue') : queue'[i].id <= lastid
  BY <1>i, <1>s, Zenon DEF OrderInv
<1>4. CASE buf' = <<>>
  <2>1. Len(buf') = 0
    BY <1>4
  <2> QED BY <1>3, <2>1 DEF Sorted, Before
<1>5. CASE buf # <<>> /\ buf' = Tail(buf)
  <2>1. /\ Len(buf) \in Nat \ {0} /\ Len(buf') = Len(buf) - 1
        /\ \A i \in 1 .. Len(buf) - 1 : buf'[i] = buf[i + 1]
    BY <1>1, <1>5
  <2>i. \A i \in 1 .. Len(buf') : i + 1 \in 1 .. Len(buf) /\ buf'[i] = buf[i + 1]
    BY <2>1
  <2>j. \A i, j \in 1 .. Len(buf') : i < j => i + 1 < j + 1
    BY <2>1
  <2>s. Sorted(buf')
    BY <2>i, <2>j DEF OrderInv, Sorted
  <2>2. Sorted(buf') /\ \A i \in 1 .. Len(buf') : buf'[i].id <= lastid
    BY <2>i, <2>s, Zenon DEF OrderInv
  <2>3. Before(buf', queue')
    BY <1>i, <2>i, Zenon DEF OrderInv, Before
  <2> QED BY <1>3, <2>2, <2>3
<1> QED BY <1>4, <1>5

(* Also behind the handled events, when no other is handled.                *)
LEMMA CutBehind ==
    ASSUME Typed, OrderInv, NEW k \in 0 .. Len(queue), queue' = Suffix(queue, k),
           \/ buf' = <<>>
           \/ buf # <<>> /\ buf' = Tail(buf),
           handled' = handled, lastid' = lastid
    PROVE  OrderInv'
<1>1. queue \in Seq(Event) /\ buf \in Seq(Event) /\ Len(queue) \in Nat
  BY DEF Typed, TypeOK
<1>2. /\ Len(queue') = Len(queue) - k
      /\ \A i \in 1 .. Len(queue) - k : queue'[i] = queue[k + i]
  BY <1>1, CutType
<1>3. Behind(queue)'
  BY <1>1, <1>2 DEF OrderInv, Behind
<1>4. Behind(buf)'
  <2>1. CASE buf' = <<>>
    <3>1. Len(buf') = 0
      BY <2>1
    <3> QED BY <3>1 DEF Behind
  <2>2. CASE buf # <<>> /\ buf' = Tail(buf)
    <3>1. /\ Len(buf) \in Nat \ {0} /\ Len(buf') = Len(buf) - 1
          /\ \A i \in 1 .. Len(buf) - 1 : buf'[i] = buf[i + 1]
      BY <1>1, <2>2
    <3>2. \A i \in 1 .. Len(buf') : i + 1 \in 1 .. Len(buf) /\ buf'[i] = buf[i + 1]
      BY <3>1
    <3> QED BY <3>2, Zenon DEF OrderInv, Behind
  <2> QED BY <2>1, <2>2
<1>5. HandledInOrder' /\ \A i \in 1 .. Len(handled') : handled'[i] <= lastid'
  BY DEF OrderInv, HandledInOrder
<1>6. /\ Sorted(buf)' /\ Sorted(queue)' /\ Before(buf, queue)'
      /\ \A i \in 1 .. Len(queue') : queue'[i].id <= lastid'
      /\ \A i \in 1 .. Len(buf') : buf'[i].id <= lastid'
  BY CutOrder DEF Sorted, Before
<1> QED BY <1>3, <1>4, <1>5, <1>6 DEF OrderInv

(* New events come behind all others.                                       *)
LEMMA ArriveOrder ==
    ASSUME Typed, OrderInv, NEW t \in Seq(Event), queue' = queue \o t,
           Sorted(t), \A i \in 1 .. Len(t) : t[i].id = lastid + 1,
           lastid' = lastid + 1, UNCHANGED <<buf, handled>>
    PROVE  OrderInv'
<1>1. /\ queue \in Seq(Event) /\ buf \in Seq(Event) /\ handled \in Seq(Nat)
      /\ lastid \in Nat /\ Len(queue) \in Nat /\ Len(t) \in Nat
      /\ Len(buf) \in Nat /\ Len(handled) \in Nat
  BY DEF Typed, TypeOK
<1>2. /\ Len(queue') = Len(queue) + Len(t)
      /\ \A i \in 1 .. Len(queue) : queue'[i] = queue[i]
      /\ \A i \in Len(queue) + 1 .. Len(queue) + Len(t) :
            queue'[i] = t[i - Len(queue)]
  BY <1>1
<1>3. /\ \A i \in 1 .. Len(queue) : queue[i].id \in Nat /\ queue[i].id <= lastid
      /\ \A i \in 1 .. Len(buf) : buf[i].id \in Nat /\ buf[i].id <= lastid
      /\ \A i \in 1 .. Len(handled) : handled[i] \in Nat /\ handled[i] <= lastid
  <2>1. /\ \A i \in 1 .. Len(queue) : queue[i] \in Event
        /\ \A i \in 1 .. Len(buf) : buf[i] \in Event
        /\ \A i \in 1 .. Len(handled) : handled[i] \in Nat
    BY <1>1
  <2>2. \A v \in Event : v.id \in Nat
    BY DEF Event
  <2> QED BY <2>1, <2>2, Zenon DEF OrderInv
<1>5. \A i \in 1 .. Len(queue') :
         queue'[i].id <= lastid' /\ (i > Len(queue) => queue'[i].id = lastid + 1)
  <2> SUFFICES ASSUME NEW i \in 1 .. Len(queue')
               PROVE  queue'[i].id <= lastid' /\ (i > Len(queue) => queue'[i].id = lastid + 1)
    OBVIOUS
  <2>1. CASE i <= Len(queue)
    <3>1. i \in 1 .. Len(queue) /\ queue'[i] = queue[i]
      BY <1>1, <1>2, <2>1
    <3> QED BY <1>1, <1>3, <2>1, <3>1
  <2>2. CASE i > Len(queue)
    <3>1. i - Len(queue) \in 1 .. Len(t) /\ queue'[i] = t[i - Len(queue)]
      BY <1>1, <1>2, <2>2
    <3>2. queue'[i].id = lastid + 1
      BY <3>1
    <3> QED BY <1>1, <3>2
  <2> QED BY <1>1, <1>2, <2>1, <2>2
<1>4. Sorted(queue)'
  <2> SUFFICES ASSUME NEW i \in 1 .. Len(queue'), NEW j \in 1 .. Len(queue'), i < j
               PROVE  /\ queue'[i].id <= queue'[j].id
                      /\ queue'[j].kind = "file" => queue'[i].id < queue'[j].id
    BY DEF Sorted
  <2>1. CASE j <= Len(queue)
    <3>1. i \in 1 .. Len(queue) /\ j \in 1 .. Len(queue)
      BY <1>1, <1>2, <2>1
    <3>2. queue'[i] = queue[i] /\ queue'[j] = queue[j]
      BY <1>2, <3>1
    <3> QED BY <3>1, <3>2 DEF OrderInv, Sorted
  <2>2. CASE i <= Len(queue) /\ j > Len(queue)
    <3>1. queue'[j].id = lastid + 1
      BY <1>5, <2>2
    <3>2. i \in 1 .. Len(queue) /\ queue'[i] = queue[i]
      BY <1>1, <1>2, <2>2
    <3>3. queue[i].id \in Nat /\ queue[i].id <= lastid
      BY <1>3, <3>2
    <3> QED BY <1>1, <3>1, <3>2, <3>3
  <2>3. CASE i > Len(queue)
    <3>1. /\ i - Len(queue) \in 1 .. Len(t) /\ j - Len(queue) \in 1 .. Len(t)
          /\ i - Len(queue) < j - Len(queue)
      BY <1>1, <1>2, <2>3
    <3>2. queue'[i] = t[i - Len(queue)] /\ queue'[j] = t[j - Len(queue)]
      BY <1>1, <1>2, <2>3
    <3> QED BY <3>1, <3>2 DEF Sorted
  <2>4. i \in Int /\ j \in Int
    BY <1>1, <1>2
  <2>5. j <= Len(queue) \/ (i <= Len(queue) /\ j > Len(queue)) \/ i > Len(queue)
    BY <1>1, <2>4
  <2> QED BY <2>1, <2>2, <2>3, <2>5, Zenon
<1>6. Before(buf, queue)'
  <2> SUFFICES ASSUME NEW i \in 1 .. Len(buf), NEW j \in 1 .. Len(queue')
               PROVE  /\ buf[i].id <= queue'[j].id
                      /\ queue'[j].kind = "file" => buf[i].id < queue'[j].id
    BY DEF Before
  <2>1. CASE j <= Len(queue)
    <3>1. j \in 1 .. Len(queue) /\ queue'[j] = queue[j]
      BY <1>1, <1>2, <2>1
    <3> QED BY <3>1 DEF OrderInv, Before
  <2>2. CASE j > Len(queue)
    <3>1. queue'[j].id = lastid + 1
      BY <1>5, <2>2
    <3>2. buf[i].id \in Nat /\ buf[i].id <= lastid
      BY <1>3
    <3>3. lastid \in Nat
      BY <1>1
    <3> QED BY <3>1, <3>2, <3>3
  <2>3. j <= Len(queue) \/ j > Len(queue)
    BY <1>1, <1>2
  <2> QED BY <2>1, <2>2, <2>3, Zenon
<1>7. Behind(queue)'
  <2> SUFFICES ASSUME NEW i \in 1 .. Len(handled), NEW j \in 1 .. Len(queue'),
                      queue'[j].kind = "file"
               PROVE  handled[i] < queue'[j].id
    BY DEF Behind
  <2>1. CASE j <= Len(queue)
    <3>1. j \in 1 .. Len(queue) /\ queue'[j] = queue[j]
      BY <1>1, <1>2, <2>1
    <3> QED BY <3>1 DEF OrderInv, Behind
  <2>2. CASE j > Len(queue)
    <3>1. queue'[j].id = lastid + 1
      BY <1>5, <2>2
    <3>2. handled[i] \in Nat /\ handled[i] <= lastid
      BY <1>3
    <3> QED BY <1>1, <3>1, <3>2
  <2>3. j <= Len(queue) \/ j > Len(queue)
    BY <1>1, <1>2
  <2> QED BY <2>1, <2>2, <2>3, Zenon
<1>8. /\ Sorted(buf)' /\ Behind(buf)' /\ HandledInOrder'
  BY DEF OrderInv, Sorted, Behind, HandledInOrder
<1>9. /\ \A i \in 1 .. Len(buf') : buf'[i].id <= lastid'
      /\ \A i \in 1 .. Len(handled') : handled'[i] <= lastid'
  <2>1. \A n \in Nat : n <= lastid => n <= lastid + 1
    BY <1>1
  <2> QED BY <1>3, <2>1
<1> QED BY <1>4, <1>5, <1>6, <1>7, <1>8, <1>9 DEF OrderInv

(* The event at the head of the buffer is handled.                          *)
LEMMA HandleOrder == Typed /\ OrderInv /\ HandleFile => OrderInv'
<1> SUFFICES ASSUME Typed, OrderInv, HandleFile PROVE OrderInv'
  OBVIOUS
<1> DEFINE c == Current.id
<1>1. /\ Take /\ Current.kind = "file" /\ handled' = Append(handled, c)
      /\ (Continue \/ Fail) /\ lastid' = lastid
  BY DEF HandleFile
<1>2. /\ queue \in Seq(Event) /\ buf \in Seq(Event) /\ handled \in Seq(Nat)
      /\ lastid \in Nat /\ Len(queue) \in Nat /\ Len(handled) \in Nat
  BY DEF Typed, TypeOK
<1>3. PICK k \in 0 .. Len(queue) : queue' = Suffix(queue, k)
  BY <1>1, TakeType
<1>4. \/ buf' = <<>>
      \/ buf # <<>> /\ buf' = Tail(buf)
  BY <1>1, TakeType DEF Continue, Fail, Return
<1>5. buf # <<>> /\ Len(buf) \in Nat \ {0} /\ Current = buf[1] /\ c \in Nat
  <2>1. buf # <<>> /\ Current \in Event
    BY <1>1, TakeType
  <2>2. c \in Nat
    BY <2>1 DEF Event
  <2> QED BY <1>2, <2>1, <2>2 DEF Current
<1> HIDE DEF c
<1>6. 1 \in 1 .. Len(buf) /\ buf[1].id = c /\ buf[1].kind = "file"
  BY <1>1, <1>5 DEF c
<1>7. /\ Sorted(buf') /\ Sorted(queue') /\ Before(buf', queue')
      /\ \A i \in 1 .. Len(queue') : queue'[i].id <= lastid
      /\ \A i \in 1 .. Len(buf') : buf'[i].id <= lastid
  BY <1>3, <1>4, CutOrder
<1>8. /\ Len(handled') = Len(handled) + 1
      /\ \A i \in 1 .. Len(handled) : handled'[i] = handled[i]
      /\ handled'[Len(handled) + 1] = c
  BY <1>1, <1>2, <1>5
<1>9. \A i \in 1 .. Len(handled') : i \in 1 .. Len(handled) \/ i = Len(handled) + 1
  BY <1>2, <1>8
<1>10. \A i \in 1 .. Len(handled) : handled[i] < c
  BY <1>6 DEF OrderInv, Behind
<1>11. c <= lastid
  BY <1>6 DEF OrderInv
<1>12. \A i \in 1 .. Len(handled') : handled'[i] <= lastid
  BY <1>8, <1>9, <1>11, Zenon DEF OrderInv
<1>13. HandledInOrder'
  <2> SUFFICES ASSUME NEW i \in 1 .. Len(handled'), NEW j \in 1 .. Len(handled'), i < j
               PROVE  handled'[i] < handled'[j]
    BY DEF HandledInOrder
  <2>1. i \in 1 .. Len(handled)
    BY <1>2, <1>8
  <2>2. CASE j \in 1 .. Len(handled)
    BY <1>8, <2>1, <2>2 DEF OrderInv, HandledInOrder
  <2>3. CASE j = Len(handled) + 1
    BY <1>8, <1>10, <2>1, <2>3
  <2> QED BY <1>9, <2>2, <2>3
<1>14. Behind(queue)'
  <2>1. /\ Len(queue') = Len(queue) - k
        /\ \A i \in 1 .. Len(queue) - k : queue'[i] = queue[k + i]
    BY <1>2, <1>3, CutType
  <2>2. \A j \in 1 .. Len(queue') : k + j \in 1 .. Len(queue) /\ queue'[j] = queue[k + j]
    BY <1>2, <2>1
  <2>3. \A j \in 1 .. Len(queue') : queue'[j].kind = "file" => c < queue'[j].id
    BY <1>6, <2>2, Zenon DEF OrderInv, Before
  <2>4. \A i \in 1 .. Len(handled), j \in 1 .. Len(queue') :
            queue'[j].kind = "file" => handled[i] < queue'[j].id
    BY <2>2, Zenon DEF OrderInv, Behind
  <2> QED BY <1>8, <1>9, <2>3, <2>4, Zenon DEF Behind
<1>15. Behind(buf)'
  <2>1. CASE buf' = <<>>
    <3>1. Len(buf') = 0
      BY <2>1
    <3> QED BY <3>1 DEF Behind
  <2>2. CASE buf # <<>> /\ buf' = Tail(buf)
    <3>1. /\ Len(buf') = Len(buf) - 1
          /\ \A i \in 1 .. Len(buf) - 1 : buf'[i] = buf[i + 1]
      BY <1>2, <1>5, <2>2
    <3>2. \A j \in 1 .. Len(buf') :
              j + 1 \in 1 .. Len(buf) /\ 1 < j + 1 /\ buf'[j] = buf[j + 1]
      BY <1>5, <3>1
    <3>3. \A j \in 1 .. Len(buf') : buf'[j].kind = "file" => c < buf'[j].id
      BY <1>6, <3>2, Zenon DEF OrderInv, Sorted
    <3>4. \A i \in 1 .. Len(handled), j \in 1 .. Len(buf') :
              buf'[j].kind = "file" => handled[i] < buf'[j].id
      BY <3>2, Zenon DEF OrderInv, Behind
    <3> QED BY <1>8, <1>9, <3>3, <3>4, Zenon DEF Behind
  <2> QED BY <1>4, <2>1, <2>2
<1> QED BY <1>1, <1>7, <1>12, <1>13, <1>14, <1>15 DEF OrderInv, Sorted, Before

LEMMA OrderInit == Init => OrderInv
<1> SUFFICES ASSUME Init PROVE OrderInv
  OBVIOUS
<1>1. Len(queue) = 0 /\ Len(buf) = 0 /\ Len(handled) = 0
  BY DEF Init
<1> QED BY <1>1 DEF OrderInv, Sorted, Before, Behind, HandledInOrder

LEMMA OrderNext == Typed /\ OrderInv /\ [Next]_vars => OrderInv'
<1> SUFFICES ASSUME Typed, OrderInv, [Next]_vars PROVE OrderInv'
  OBVIOUS
<1>0. /\ queue \in Seq(Event) /\ buf \in Seq(Event) /\ handled \in Seq(Nat)
      /\ lastid \in Nat /\ Len(queue) \in Nat
  BY DEF Typed, TypeOK
<1>same. ASSUME UNCHANGED <<queue, buf, handled, lastid>> PROVE OrderInv'
  BY <1>same DEF OrderInv, Sorted, Before, Behind, HandledInOrder
<1>cut. ASSUME NEW k \in 0 .. Len(queue), queue' = Suffix(queue, k),
               \/ buf' = <<>>
               \/ buf # <<>> /\ buf' = Tail(buf),
               UNCHANGED <<handled, lastid>>
        PROVE  OrderInv'
  BY <1>cut, CutBehind
<1>whole. queue = Suffix(queue, 0) /\ 0 \in 0 .. Len(queue)
  BY <1>0, SubSeqFull DEF Suffix
<1>none. <<>> \in Seq(Event) /\ queue \o <<>> = queue /\ Len(<<>>) = 0
  BY <1>0
<1>1. ASSUME NEW d \in Dirs, NEW n \in NameLens, WriteFile(d, n) PROVE OrderInv'
  <2> DEFINE v == [kind |-> "file", wd |-> watched[d], len |-> n, id |-> lastid + 1]
  <2>1. lastid' = lastid + 1 /\ UNCHANGED <<buf, handled>>
    BY <1>1 DEF WriteFile, FreshId, loop
  <2>2. CASE queue' = queue
    <3>1. Sorted(<<>>) /\ \A i \in 1 .. Len(<<>>) : <<>>[i].id = lastid + 1
      BY <1>none DEF Sorted
    <3> QED BY <1>none, <2>1, <2>2, <3>1, ArriveOrder
  <2>3. CASE queue' = Append(queue, v)
    <3>1. v \in Event /\ v.id = lastid + 1
      BY <1>0, SizeAssumption DEF Typed, TypeOK, Event, Kinds
    <3> HIDE DEF v
    <3>2. <<v>> \in Seq(Event) /\ Len(<<v>>) = 1 /\ <<v>>[1] = v
      BY <3>1
    <3>3. queue' = queue \o <<v>>
      BY <1>0, <2>3, <3>1
    <3>4. Sorted(<<v>>) /\ \A i \in 1 .. Len(<<v>>) : <<v>>[i].id = lastid + 1
      BY <3>1, <3>2 DEF Sorted
    <3> HIDE <3>1
    <3> QED BY <2>1, <3>2, <3>3, <3>4, ArriveOrder
  <2> QED BY <1>1, <2>2, <2>3 DEF WriteFile
<1>2. ASSUME NEW d \in Dirs, RemoveDir(d) PROVE OrderInv'
  <2> DEFINE v == [kind |-> "self", wd |-> watched[d], len |-> 0, id |-> lastid + 1]
             w == [kind |-> "ignored", wd |-> watched[d], len |-> 0, id |-> lastid + 1]
  <2>1. lastid' = lastid + 1 /\ UNCHANGED <<buf, handled>>
    BY <1>2 DEF RemoveDir, FreshId, loop
  <2>2. CASE queue' = queue
    <3>1. Sorted(<<>>) /\ \A i \in 1 .. Len(<<>>) : <<>>[i].id = lastid + 1
      BY <1>none DEF Sorted
    <3> QED BY <1>none, <2>1, <2>2, <3>1, ArriveOrder
  <2>3. CASE queue' = queue \o <<v, w>>
    <3>1. /\ v \in Event /\ v.id = lastid + 1 /\ v.kind # "file"
          /\ w \in Event /\ w.id = lastid + 1 /\ w.kind # "file"
      BY <1>0 DEF Typed, TypeOK, Event, Kinds
    <3> HIDE DEF v, w
    <3>2. <<v, w>> \in Seq(Event) /\ Len(<<v, w>>) = 2
      BY <3>1
    <3>3. \A i \in 1 .. Len(<<v, w>>) :
              <<v, w>>[i].id = lastid + 1 /\ <<v, w>>[i].kind # "file"
      BY <3>1, <3>2
    <3>4. lastid + 1 <= lastid + 1
      BY <1>0
    <3>5. Sorted(<<v, w>>)
      BY <3>3, <3>4, Zenon DEF Sorted
    <3> QED BY <2>1, <2>3, <3>2, <3>3, <3>5, ArriveOrder
  <2> QED BY <1>2, <2>2, <2>3 DEF RemoveDir
<1>3. ASSUME NEW d \in Dirs, RecreateDir(d) PROVE OrderInv'
  BY <1>3, <1>same DEF RecreateDir, loop
<1>4. CASE Receive
  <2>1. PICK k \in 0 .. Len(queue) : buf' = Prefix(queue, k) /\ queue' = Suffix(queue, k)
    BY <1>0, <1>4, FitType DEF Receive
  <2>2. UNCHANGED <<handled, lastid>>
    BY <1>4 DEF Receive
  <2>3. k \in Nat /\ k <= Len(queue)
    BY <1>0
  <2>4. /\ Len(queue') = Len(queue) - k /\ Len(buf') = k
        /\ \A i \in 1 .. k : buf'[i] = queue[i]
        /\ \A i \in 1 .. Len(queue) - k : queue'[i] = queue[k + i]
    BY <1>0, <2>1, CutType
  <2>5. /\ \A i \in 1 .. Len(buf') : i \in 1 .. Len(queue) /\ buf'[i] = queue[i]
        /\ \A i \in 1 .. Len(queue') : k + i \in 1 .. Len(queue) /\ queue'[i] = queue[k + i]
        /\ \A i \in 1 .. Len(buf'), j \in 1 .. Len(queue') : i < k + j
        /\ \A i, j \in 1 .. Len(queue') : i < j => k + i < k + j
    BY <1>0, <2>3, <2>4
  <2>6. Sorted(buf)' /\ Sorted(queue)' /\ Before(buf, queue)'
    BY <2>5, Zenon DEF OrderInv, Sorted, Before
  <2>7. Behind(buf)' /\ Behind(queue)'
    BY <2>2, <2>5 DEF OrderInv, Behind
  <2>8. /\ \A i \in 1 .. Len(queue') : queue'[i].id <= lastid'
        /\ \A i \in 1 .. Len(buf') : buf'[i].id <= lastid'
        /\ \A i \in 1 .. Len(handled') : handled'[i] <= lastid'
        /\ HandledInOrder'
    BY <2>2, <2>5 DEF OrderInv, HandledInOrder
  <2> QED BY <2>6, <2>7, <2>8 DEF OrderInv
<1>5. CASE EndOfBuffer
  BY <1>5, <1>cut, <1>whole DEF EndOfBuffer, Return, kernel
<1>6. CASE ReadBlocks
  BY <1>6, <1>same DEF ReadBlocks, kernel
<1>7. CASE CompletionFails
  <2>1. Fit(queue, Missing) \in 0 .. Len(queue)
    BY <1>0, FitType
  <2> QED BY <1>7, <1>cut, <2>1 DEF CompletionFails, Return
<1>8. CASE HandleFile
  BY <1>8, HandleOrder
<1>9. CASE DropStray \/ Rewatch \/ MkdirFails \/ AddWatchFails
  <2>1. Take /\ (Continue \/ Fail) /\ UNCHANGED <<handled, lastid>>
    BY <1>9 DEF DropStray, Rewatch, MkdirFails, AddWatchFails
  <2>2. \/ buf' = <<>>
        \/ buf # <<>> /\ buf' = Tail(buf)
    BY <2>1, TakeType DEF Continue, Fail, Return
  <2> QED BY <1>cut, <2>1, <2>2, TakeType
<1>10. CASE InitInotifyHandler
  <2>1. /\ Len(queue') = 0 /\ Len(buf') = 0 /\ handled' = handled
        /\ lastid' = lastid + 1
    BY <1>10 DEF InitInotifyHandler, Return, FreshId
  <2>2. \A i \in 1 .. Len(handled) : handled[i] \in Nat
    BY <1>0
  <2>3. \A n \in Nat : n <= lastid => n <= lastid + 1
    BY <1>0
  <2>4. \A i \in 1 .. Len(handled') : handled'[i] <= lastid'
    BY <2>1, <2>2, <2>3 DEF OrderInv
  <2> QED BY <2>1, <2>4 DEF OrderInv, Sorted, Before, Behind, HandledInOrder
<1>11. CASE UNCHANGED vars
  BY <1>11, <1>same DEF vars, kernel, loop
<1> QED
  BY <1>1, <1>2, <1>3, <1>4, <1>5, <1>6, <1>7, <1>8, <1>9, <1>10, <1>11 DEF Next

(* Callbacks see file events in the order they happened and none twice,     *)
(* although the length test takes whole events for truncated ones and the   *)
(* read that completes them swallows later events.                          *)
THEOREM OrderSafe == Spec => []HandledInOrder
<1>1. Init => Typed /\ OrderInv
  BY TypedInit, OrderInit
<1>2. Typed /\ OrderInv /\ [Next]_vars => (Typed /\ OrderInv)'
  BY TypedNext, OrderNext
<1>3. OrderInv => HandledInOrder
  BY DEF OrderInv
<1> QED BY <1>1, <1>2, <1>3, PTL DEF Spec
----------------------------------------------------------------------------
(* Quiet.  As long as nothing failed, a directory that is there is watched  *)
(* and the removal of one that is not has still to be handled.              *)
Removal(s, w) == \E i \in 1 .. Len(s) : s[i].kind = "self" /\ s[i].wd = w
QuietInv ==
    /\ main = "select" => buf = <<>>
    /\ ~trouble =>
          /\ \A d \in Dirs : present[d] => watched[d] # 0
          /\ \A e \in Entries :
                ~present[PathOf[e]] => Removal(buf, wds[e]) \/ Removal(queue, wds[e])

LEMMA RemovalAppend ==
    ASSUME NEW s \in Seq(Event), NEW t \in Seq(Event)
    PROVE  /\ \A w : Removal(s, w) => Removal(s \o t, w)
           /\ \A w : Removal(t, w) => Removal(s \o t, w)
<1>1. /\ Len(s \o t) = Len(s) + Len(t) /\ Len(s) \in Nat /\ Len(t) \in Nat
      /\ \A i \in 1 .. Len(s) + Len(t) :
            (s \o t)[i] = IF i <= Len(s) THEN s[i] ELSE t[i - Len(s)]
  BY ConcatProperties
<1> DEFINE u == s \o t
<1> HIDE DEF u
<1>2. ASSUME NEW w, NEW i \in 1 .. Len(s), s[i].kind = "self", s[i].wd = w
      PROVE  Removal(s \o t, w)
  <2>1. i \in 1 .. Len(s \o t) /\ (s \o t)[i] = s[i]
    BY <1>1
  <2> QED BY <1>2, <2>1 DEF Removal
<1>3. ASSUME NEW w, NEW i \in 1 .. Len(t), t[i].kind = "self", t[i].wd = w
      PROVE  Removal(s \o t, w)
  <2>1. i + Len(s) \in 1 .. Len(s \o t) /\ (s \o t)[i + Len(s)] = t[i]
    BY <1>1
  <2> QED BY <1>3, <2>1 DEF Removal
<1> QED BY <1>2, <1>3 DEF Removal

(* A read moves events from the queue to the buffer.                        *)
LEMMA RemovalCut ==
    ASSUME NEW s \in Seq(Event), NEW k \in 0 .. Len(s), NEW w, Removal(s, w)
    PROVE  Removal(Prefix(s, k), w) \/ Removal(Suffix(s, k), w)
<1>1. PICK i \in 1 .. Len(s) : s[i].kind = "self" /\ s[i].wd = w
  BY DEF Removal
<1>2. CASE i <= k
  <2>1. i \in 1 .. Len(Prefix(s, k)) /\ Prefix(s, k)[i] = s[i]
    BY <1>2, CutType
  <2> QED BY <1>1, <2>1 DEF Removal
<1>3. CASE ~(i <= k)
  <2>1. i - k \in 1 .. Len(s) - k /\ k + (i - k) = i
    BY <1>3
  <2>2. /\ Len(Suffix(s, k)) = Len(s) - k
        /\ Suffix(s, k)[i - k] = s[k + (i - k)]
    BY <2>1, CutType, Zenon
  <2>3. i - k \in 1 .. Len(Suffix(s, k)) /\ Suffix(s, k)[i - k] = s[i]
    BY <2>1, <2>2
  <2> QED BY <1>1, <2>3 DEF Removal
<1> QED BY <1>2, <1>3

(* The event taken is the only one that leaves the buffer.                  *)
LEMMA RemovalTail ==
    ASSUME Typed, buf # <<>>, NEW w, Removal(buf, w)
    PROVE  Removal(Tail(buf), w) \/ (Current.kind = "self" /\ Current.wd = w)
<1>1. /\ buf \in Seq(Event) /\ Current = buf[1] /\ Len(buf) \in Nat
      /\ Len(Tail(buf)) = Len(buf) - 1
      /\ \A i \in 1 .. Len(buf) - 1 : Tail(buf)[i] = buf[i + 1]
  BY DEF Typed, TypeOK, Current
<1>2. PICK i \in 1 .. Len(buf) : buf[i].kind = "self" /\ buf[i].wd = w
  BY DEF Removal
<1>3. CASE i = 1
  BY <1>1, <1>2, <1>3
<1>4. CASE i # 1
  <2>1. i - 1 \in 1 .. Len(Tail(buf)) /\ Tail(buf)[i - 1] = buf[i]
    BY <1>1, <1>4
  <2> QED BY <1>2, <2>1 DEF Removal
<1> QED BY <1>3, <1>4

LEMMA QuietInit == Init => QuietInv
<1> SUFFICES ASSUME Init PROVE QuietInv
  OBVIOUS
<1>1. \A d \in Dirs : present[d] /\ watched[d] # 0
  BY FirstWatchType DEF Init
<1>2. \A e \in Entries : PathOf[e] \in Dirs
  BY ArrayAssumption
<1> QED BY <1>1, <1>2 DEF Init, QuietInv

(* An event handled without an error: the others wait as before.            *)
LEMMA ContinueQuiet ==
    ASSUME Typed, QuietInv, Take, Continue, ~trouble'
    PROVE  /\ ~trouble /\ queue' = queue
           /\ \A w : Removal(buf, w) => Removal(buf', w)
                                        \/ (Current.kind = "self" /\ Current.wd = w)
<1>1. Complete /\ ~trouble
  BY DEF Continue
<1>2. buf' = Tail(buf) /\ queue' = queue /\ buf # <<>>
  BY <1>1 DEF Continue, Take, Complete
<1> QED BY <1>1, <1>2, RemovalTail

LEMMA QuietNext == Typed /\ WatchInv /\ QuietInv /\ [Next]_vars => QuietInv'
<1> SUFFICES ASSUME Typed, WatchInv, QuietInv, [Next]_vars PROVE QuietInv'
  OBVIOUS
<1>0. /\ present \in [Dirs -> BOOLEAN] /\ watched \in [Dirs -> 0 .. lastwd]
      /\ wds \in [Entries -> -1 .. lastwd] /\ lastwd \in Nat
      /\ queue \in Seq(Event) /\ buf \in Seq(Event)
      /\ PathOf \in [Entries -> Dirs]
  BY ArrayAssumption DEF Typed, TypeOK
<1>trouble. ASSUME trouble', main' = "select" => buf' = <<>> PROVE QuietInv'
  BY <1>trouble DEF QuietInv
<1>1. ASSUME NEW d \in Dirs, NEW n \in NameLens, WriteFile(d, n) PROVE QuietInv'
  <2>1. /\ UNCHANGED <<present, watched, wds, buf, main, trouble>>
        /\ \/ queue' = queue
           \/ queue' = Append(queue, [kind |-> "file", wd |-> watched[d],
                                      len |-> n, id |-> lastid + 1])
    BY <1>1 DEF WriteFile, loop
  <2>2. \A w : Removal(queue, w) => Removal(queue', w)
    <3>1. CASE queue' = queue
      BY <3>1
    <3>2. ASSUME NEW x, queue' = Append(queue, x)
          PROVE  \A w : Removal(queue, w) => Removal(queue', w)
      <4>1. \A i \in 1 .. Len(queue) : i \in 1 .. Len(queue') /\ queue'[i] = queue[i]
        BY <1>0, <3>2
      <4> QED BY <4>1 DEF Removal
    <3> QED BY <2>1, <3>1, <3>2
  <2> QED BY <2>1, <2>2 DEF QuietInv
<1>2. ASSUME NEW d \in Dirs, RemoveDir(d) PROVE QuietInv'
  <2>1. /\ present[d] /\ present' = [present EXCEPT ![d] = FALSE]
        /\ watched' = [watched EXCEPT ![d] = 0]
        /\ UNCHANGED <<wds, buf, main, trouble>>
    BY <1>2 DEF RemoveDir, loop
  <2>2. CASE trouble
    BY <1>trouble, <2>1, <2>2 DEF QuietInv
  <2>3. CASE ~trouble
    <3>1. watched[d] # 0 /\ watched[d] \in Nat
      BY <1>0, <2>1, <2>3 DEF QuietInv
    <3> DEFINE a == [kind |-> "self", wd |-> watched[d], len |-> 0, id |-> lastid + 1]
               b == [kind |-> "ignored", wd |-> watched[d], len |-> 0, id |-> lastid + 1]
               t == <<a, b>>
    <3>2. queue' = queue \o t
      BY <1>2, <3>1 DEF RemoveDir
    <3>3. a \in Event /\ b \in Event /\ a.kind = "self" /\ a.wd = watched[d]
      BY <3>1, SizeAssumption DEF Event, Kinds, Typed, TypeOK
    <3> HIDE DEF a, b
    <3>4. t \in Seq(Event) /\ 1 \in 1 .. Len(t) /\ t[1] = a
      BY <3>3
    <3> HIDE DEF t
    <3>5. Removal(t, watched[d])
      BY <3>3, <3>4 DEF Removal
    <3>6. Removal(queue', watched[d]) /\ \A w : Removal(queue, w) => Removal(queue', w)
      BY <1>0, <3>2, <3>4, <3>5, RemovalAppend
    <3>7. \A e \in Entries : PathOf[e] = d => wds[e] = watched[d]
      BY <3>1 DEF WatchInv, LiveWatchKnown
    <3>8. \A e \in Entries : ~present'[PathOf[e]] =>
             Removal(buf', wds'[e]) \/ Removal(queue', wds'[e])
      BY <1>0, <2>1, <2>3, <3>6, <3>7 DEF QuietInv
    <3>9. \A c \in Dirs : present'[c] => watched'[c] # 0
      BY <1>0, <2>1, <2>3 DEF QuietInv
    <3> QED BY <2>1, <3>8, <3>9 DEF QuietInv
  <2> QED BY <2>2, <2>3
<1>3. ASSUME NEW d \in Dirs, RecreateDir(d) PROVE QuietInv'
  BY <1>3, <1>trouble DEF RecreateDir, loop, QuietInv
<1>4. CASE Receive
  <2>1. PICK k \in 0 .. Len(queue) :
           buf' = Prefix(queue, k) /\ queue' = Suffix(queue, k)
    BY <1>0, <1>4, FitType DEF Receive
  <2>2. /\ UNCHANGED <<present, watched, wds, trouble>> /\ main' = "parse"
        /\ main = "select"
    BY <1>4 DEF Receive
  <2>3. \A w : ~Removal(buf, w)
    <3>1. buf = <<>>
      BY <2>2 DEF QuietInv
    <3> QED BY <3>1 DEF Removal
  <2>4. \A w : Removal(queue, w) => Removal(buf', w) \/ Removal(queue', w)
    BY <1>0, <2>1, RemovalCut
  <2> QED BY <2>2, <2>3, <2>4 DEF QuietInv
<1>5. CASE EndOfBuffer \/ ReadBlocks
  <2>1. /\ UNCHANGED <<present, watched, wds, trouble, queue>> /\ buf' = buf
        /\ main' = "select" => buf' = <<>>
    BY <1>5 DEF EndOfBuffer, ReadBlocks, Return, kernel
  <2> QED BY <2>1 DEF QuietInv
<1>6. CASE CompletionFails \/ MkdirFails \/ AddWatchFails
  BY <1>6, <1>trouble DEF CompletionFails, MkdirFails, AddWatchFails, Fail, Return
<1>7. CASE HandleFile \/ DropStray
  <2>1. Take /\ UNCHANGED <<present, watched, wds>>
        /\ (Current.kind # "self" \/ Known = {}) /\ (Continue \/ Fail)
    BY <1>7 DEF HandleFile, DropStray
  <2>2. CASE Fail
    BY <1>trouble, <2>2 DEF Fail, Return
  <2>3. CASE Continue /\ trouble'
    BY <1>trouble, <2>3 DEF Continue
  <2>4. CASE Continue /\ ~trouble'
    <3>1. main' = "parse"
      BY <2>4 DEF Continue
    <3>2. \A e \in Entries : Removal(buf, wds[e]) => Removal(buf', wds[e])
      BY <2>1, <2>4, ContinueQuiet DEF Known
    <3>3. ~trouble /\ queue' = queue
      BY <2>1, <2>4, ContinueQuiet
    <3> QED BY <2>1, <3>1, <3>2, <3>3 DEF QuietInv
  <2> QED BY <2>1, <2>2, <2>3, <2>4
<1>8. CASE Rewatch
  <2>1. PICK e \in Known : /\ present' = [present EXCEPT ![PathOf[e]] = TRUE]
                           /\ watched' = [watched EXCEPT ![PathOf[e]] = lastwd + 1]
    BY <1>8 DEF Rewatch
  <2>2. /\ Take /\ Continue
        /\ wds' = [f \in Entries |-> IF f \in Known THEN lastwd + 1 ELSE wds[f]]
    BY <1>8 DEF Rewatch
  <2>3. CASE trouble'
    BY <1>trouble, <2>2, <2>3 DEF Continue
  <2>4. CASE ~trouble'
    <3>1. e \in Entries /\ wds[e] = Current.wd
      BY <2>1 DEF Known
    <3>2. wds[e] # -1
      BY <2>2, <3>1, TakeType DEF Event
    <3>3. \A f \in Entries : f \in Known <=> PathOf[f] = PathOf[e]
      BY <3>1, <3>2 DEF Known, WatchInv, SharedWatch, OwnWatch
    <3>4. ~trouble /\ queue' = queue /\ main' = "parse"
      BY <2>2, <2>4, ContinueQuiet DEF Continue
    <3>5. \A c \in Dirs : present'[c] => watched'[c] # 0
      BY <1>0, <2>1, <3>1, <3>4 DEF QuietInv
    <3>6. ASSUME NEW f \in Entries, ~present'[PathOf[f]]
          PROVE  Removal(buf', wds'[f]) \/ Removal(queue', wds'[f])
      <4>1. PathOf[f] # PathOf[e] /\ ~present[PathOf[f]]
        BY <1>0, <2>1, <3>1, <3>6
      <4>2. wds'[f] = wds[f] /\ wds[f] # Current.wd
        BY <2>2, <3>3, <4>1 DEF Known
      <4>3. Removal(buf, wds[f]) \/ Removal(queue, wds[f])
        BY <3>4, <4>1 DEF QuietInv
      <4> QED BY <2>2, <2>4, <3>4, <4>2, <4>3, ContinueQuiet
    <3> QED BY <3>4, <3>5, <3>6 DEF QuietInv
  <2> QED BY <2>3, <2>4
<1>9. CASE InitInotifyHandler
  <2>1. /\ buf' = <<>> /\ present' = present
        /\ trouble' = (\E d \in Dirs : ~present[d])
        /\ watched' = [d \in Dirs |-> NewWatch(d)]
    BY <1>9 DEF InitInotifyHandler, Return
  <2>2. CASE trouble'
    BY <1>trouble, <2>1, <2>2
  <2>3. CASE ~trouble'
    <3>1. \A d \in Dirs : present'[d]
      BY <2>1, <2>3
    <3>2. \A d \in Dirs : watched'[d] = lastwd + FirstWatch[d]
      BY <2>1, <3>1 DEF NewWatch
    <3>3. \A d \in Dirs : watched'[d] # 0
      BY <1>0, <3>2, FirstWatchType
    <3> QED BY <1>0, <2>1, <3>1, <3>3 DEF QuietInv
  <2> QED BY <2>2, <2>3
<1>10. CASE UNCHANGED vars
  BY <1>10 DEF vars, kernel, loop, QuietInv
<1> QED
  BY <1>1, <1>2, <1>3, <1>4, <1>5, <1>6, <1>7, <1>8, <1>9, <1>10 DEF Next

(* Once everything is read, every directory is there and watched, unless a  *)
(* callback, a call or the completion of an event failed or somebody else   *)
(* made the directory again.                                                *)
THEOREM QuietSafe == Spec => []WatchedWhenQuiet
<1>1. Init => Typed /\ WatchInv /\ QuietInv
  BY TypedInit, WatchInit, QuietInit
<1>2. Typed /\ WatchInv /\ QuietInv /\ [Next]_vars => (Typed /\ WatchInv /\ QuietInv)'
  BY TypedNext, WatchNext, QuietNext
<1>3. QuietInv => WatchedWhenQuiet
  <2> SUFFICES ASSUME QuietInv, main = "select", queue = <<>>, ~trouble, NEW d \in Dirs
               PROVE  present[d] /\ watched[d] # 0
    BY DEF WatchedWhenQuiet
  <2>1. PICK e \in Entries : PathOf[e] = d
    BY ArrayAssumption
  <2>2. \A w : ~Removal(buf, w) /\ ~Removal(queue, w)
    BY DEF Removal, QuietInv
  <2> QED BY <2>1, <2>2 DEF QuietInv
<1> QED BY <1>1, <1>2, <1>3, PTL DEF Spec
----------------------------------------------------------------------------
(* CrashFiles.  The types the proofs need.                                  *)
Masks == {"create", "modify", "close_write", "moved_from", "moved_to"}
FileEvents == [mask : Masks, file : Files, name : Nat \ {0}, cookie : Nat]
LogCopy == [packet : Nat, index : Nat, depth : Nat, packets : Nat, dir : BOOLEAN,
            got : Seq(Nat), cut : BOOLEAN, res : Int]
(* The files that have several events.                                      *)
Repeated == Triggers \cup Tombs
FilesTyped ==
    /\ kind \in [Files -> FileKinds \cup {NoKind}]
    /\ disk \in [Files -> Nat] /\ open \subseteq Files /\ cookie \in Nat
    /\ events \in Seq(FileEvents) /\ batch \in Seq(FileEvents)
    /\ at \in {"start", "copy", "logs", "raise", "packet"}
    /\ previous \in [cookie : Nat, file : Files \cup {"none"}, name : Nat]
    /\ reported \in [Files -> Nat]
    /\ \A f \in open : kind[f].type \in Repeated
    /\ at # "start" => batch # <<>>

(* The events to come, those of the batch first.                            *)
Stream == batch \o events

(* The event of a file that appears, and the second half of a rename.       *)
Fresh(e)  == e.mask # "moved_from" /\ e.name = 1
Second(e) == e.mask = "moved_to" /\ e.name > 1
Halves(c, f, n, e) == c = e.cookie /\ f = e.file /\ e.name = n + 1
Remembered(e) == Halves(previous.cookie, previous.file, previous.name, e)
FirstLost(f) == <<f, "moved_from">> \in given_up

(* Which events a file has.                                                 *)
EventsOK(s) ==
    \A i \in 1 .. Len(s) :
        /\ kind[s[i].file] # NoKind
        /\ s[i].cookie <= cookie
        /\ s[i].mask = "moved_to" => s[i].cookie # 0
        /\ s[i].mask \in {"moved_from", "moved_to"} <=> kind[s[i].file].type \in Renamed
        /\ kind[s[i].file].type \notin Renamed => s[i].name = 1

(* A cookie belongs to one rename, and the second half of a rename follows  *)
(* the first: in the stream, or in previous once the first was handled.     *)
CookiesOK(s) ==
    /\ \A i, j \in 1 .. Len(s) :
          s[i].mask = "moved_from" /\ s[j].mask = "moved_to" /\ s[i].cookie = s[j].cookie
             => Halves(s[i].cookie, s[i].file, s[i].name, s[j])
    /\ \A j \in 1 .. Len(s) :
          s[j].mask = "moved_to" /\ s[j].cookie = previous.cookie => Remembered(s[j])
    /\ previous.cookie <= cookie
    /\ previous.cookie # 0 => previous.name # 0
FollowsFirst(s, i) ==
    \/ FirstLost(s[i].file)
    \/ i = 1 /\ Remembered(s[i])
    \/ i > 1 /\ s[i-1].mask = "moved_from"
       /\ Halves(s[i-1].cookie, s[i-1].file, s[i-1].name, s[i])
RenamesOK(s) == \A i \in 1 .. Len(s) : Second(s[i]) => FollowsFirst(s, i)

(* A file that has one event, but for its renames, is reported when that    *)
(* event is gone.                                                           *)
FreshOnce(s) ==
    \A i, j \in 1 .. Len(s) :
        /\ Fresh(s[i]) /\ Fresh(s[j]) /\ s[i].file = s[j].file
        /\ kind[s[i].file].type \notin Repeated
        => i = j
ReportsOK(s) ==
    /\ \A f \in Files : kind[f] = NoKind => reported[f] = 0
    /\ \A f \in Files : kind[f].type \notin Repeated /\ ~FirstLost(f) =>
          /\ reported[f] <= 1
          /\ reported[f] # 0 => \A i \in 1 .. Len(s) : s[i].file = f => ~Fresh(s[i])

(* A callback that has begun works on a trigger, or on a file that appears. *)
BegunOK ==
    at # "start" =>
        /\ at = "packet" <=> type \in Triggers
        /\ type \notin Triggers =>
              event.mask # "moved_from" /\ (event.name = 1 \/ FirstLost(event.file))
InfosOK == \A i \in infos : i[1][1] = i[2][1] /\ i[2][2] = i[1][2] + 1
OnceInv ==
    /\ EventsOK(Stream) /\ CookiesOK(Stream) /\ RenamesOK(Stream)
    /\ FreshOnce(Stream) /\ ReportsOK(Stream) /\ BegunOK /\ InfosOK

(* A tombstone is told at most twice: created and, now or later, closed.    *)
Told(f, mask, s) ==
    \/ mask = "close_write" /\ f \in open
    \/ \E i \in 1 .. Len(s) : s[i].file = f /\ s[i].mask = mask
TombsOnce(s) ==
    /\ \A i \in 1 .. Len(s) : kind[s[i].file].type \in Tombs =>
          /\ s[i].mask \in {"create", "close_write"}
          /\ s[i].mask = "close_write" => s[i].file \notin open
    /\ \A i, j \in 1 .. Len(s) :
          /\ s[i].file = s[j].file /\ s[i].mask = s[j].mask
          /\ kind[s[i].file].type \in Tombs
          => i = j
TombReports(s) ==
    \A f \in Files : kind[f].type \in Tombs =>
       /\ reported[f] <= 2
       /\ Told(f, "create", s) \/ Told(f, "close_write", s) => reported[f] <= 1
       /\ Told(f, "create", s) /\ Told(f, "close_write", s) => reported[f] = 0
TombsInv == TombsOnce(Stream) /\ TombReports(Stream)

(* What has to be reported and is not is still to come.                     *)
Owed(f) ==
    /\ kind[f].type \notin {"none", "pb"}
    /\ ~(kind[f].type \in Cores /\ ~coredump)
    /\ reported[f] = 0
    /\ \A why \in given_up : why[1] # f
Coming ==
    \A f \in Files : Owed(f) =>
       f \in open \/ \E i \in 1 .. Len(Stream) : Stream[i].file = f /\ Fresh(Stream[i])
CoresKept == \A f \in Files : kind[f].type = "core" => disk[f] > 0 \/ f \in saved

(* The logs: consecutive numbers but for the one that is being moved; and   *)
(* how far the copy is, whose last log is at most one newer than the next.  *)
Newest == IF hole = 0 THEN aplogs[1] ELSE aplogs[0]
Moved(i) == 0 <= hole /\ hole < i
LogsShape ==
    /\ aplogs \in [0 .. LogFiles - 1 -> Nat] /\ hole \in -1 .. LogFiles - 2
    /\ Newest >= LogFiles
    /\ \A i \in 0 .. LogFiles - 1 :
          aplogs[i] = IF i = hole THEN 0
                      ELSE IF Moved(i) THEN Newest - i + 1 ELSE Newest - i
CopyPlace ==
    /\ log \in LogCopy
    /\ at \in {"start", "copy"} => log = NoLog
    /\ at \in {"logs", "raise"} => log.packet = 0 /\ log.depth = 0
    /\ at = "packet" => log.index <= log.depth
    /\ ~log.cut => Len(log.got) = IF LogIndex < LogFiles THEN LogIndex ELSE LogFiles
    /\ at = "raise" /\ log.index > 0 /\ ~log.cut => Len(log.got) \in {LogLimit, LogFiles}
CopyOrder ==
    ~log.cut =>
        /\ \A i \in 2 .. Len(log.got) : log.got[i] >= log.got[i-1] - 1
        /\ log.got # <<>> =>
              log.got[Len(log.got)] + Len(log.got) - 1
                 <= IF Moved(Len(log.got) - 1) THEN Newest + 1 ELSE Newest
LogsInv == LogsShape /\ CopyPlace /\ CopyOrder
----------------------------------------------------------------------------
(* The copy of the logs.                                                    *)
LEMMA LogSizes ==
    LogFiles \in Nat /\ LogFiles >= 2 /\ LogLimit \in Nat /\ LogLimit >= 1
  BY CrashFilesAssumption

LEMMA LogsInit == CInit => LogsInv
<1> SUFFICES ASSUME CInit PROVE LogsInv
  OBVIOUS
<1> USE LogSizes
<1>1. /\ aplogs = [i \in 0 .. LogFiles - 1 |-> LogFiles - i] /\ hole = -1
      /\ at = "start" /\ log = NoLog
  BY DEF CInit
<1>2. Newest = LogFiles /\ LogsShape
  BY <1>1 DEF Newest, Moved, LogsShape
<1>3. log.got = <<>> /\ Len(log.got) = 0 /\ LogIndex = 0 /\ log \in LogCopy
  <2>1. log.got = <<>> /\ <<>> \in Seq(Nat) /\ Len(<<>>) = 0
    BY <1>1 DEF NoLog
  <2> QED BY <1>1, <2>1 DEF NoLog, LogCopy, LogIndex
<1> QED BY <1>1, <1>2, <1>3 DEF LogsInv, CopyPlace, CopyOrder, NoLog

(* A callback that has copied no log.                                       *)
LEMMA NoLogCopied ==
    ASSUME log' = NoLog, at' \in {"start", "copy", "logs", "raise"}
    PROVE  CopyPlace' /\ CopyOrder'
<1> USE LogSizes
<1>1. log'.got = <<>> /\ <<>> \in Seq(Nat) /\ Len(<<>>) = 0
  BY DEF NoLog
<1>2. /\ log'.packet = 0 /\ log'.index = 0 /\ log'.depth = 0 /\ log' \in LogCopy
      /\ log'.cut = FALSE
  BY <1>1 DEF NoLog, LogCopy
<1>3. LogIndex' = 0
  BY <1>2 DEF LogIndex
<1>4. CopyPlace'
  BY <1>1, <1>2, <1>3 DEF CopyPlace
<1>5. CopyOrder'
  BY <1>1 DEF CopyOrder
<1> QED BY <1>4, <1>5

(* What taking one more log makes of the copy.                              *)
LEMMA TakenLog ==
    ASSUME LogsInv, NEW i \in Nat
    PROVE  /\ TakeLog(i) \in LogCopy
           /\ TakeLog(i).packet = log.packet /\ TakeLog(i).index = log.index
           /\ TakeLog(i).depth = log.depth /\ TakeLog(i).packets = log.packets
           /\ TakeLog(i).cut = (log.cut \/ i = hole)
           /\ TakeLog(i).got = IF LogAt(i) = 0 THEN log.got ELSE Append(log.got, LogAt(i))
           /\ LogAt(i) \in Nat
<1>1. log \in LogCopy /\ log.got \in Seq(Nat) /\ log.cut \in BOOLEAN
  BY DEF LogsInv, CopyPlace, LogCopy
<1>2. LogAt(i) \in Nat
  BY DEF LogsInv, LogsShape, LogAt
<1>3. (IF LogAt(i) = 0 THEN log.got ELSE Append(log.got, LogAt(i))) \in Seq(Nat)
  BY <1>1, <1>2
<1>4. (log.cut \/ i = hole) \in BOOLEAN
  BY Zenon
<1>5. TakeLog(i) = [log EXCEPT !.got = IF LogAt(i) = 0 THEN log.got
                                       ELSE Append(log.got, LogAt(i)),
                               !.cut = log.cut \/ i = hole]
  BY <1>1 DEF TakeLog, LogCopy
<1> DEFINE g == IF LogAt(i) = 0 THEN log.got ELSE Append(log.got, LogAt(i))
           c == log.cut \/ i = hole
<1>6. g \in Seq(Nat) /\ c \in BOOLEAN /\ TakeLog(i) = [log EXCEPT !.got = g, !.cut = c]
  BY <1>3, <1>4, <1>5
<1>7. TakeLog(i).got = g /\ TakeLog(i).cut = c
  <2> HIDE DEF g, c
  <2> QED BY <1>1, <1>6 DEF LogCopy
<1>8. /\ TakeLog(i) \in LogCopy
      /\ TakeLog(i).packet = log.packet /\ TakeLog(i).index = log.index
      /\ TakeLog(i).depth = log.depth /\ TakeLog(i).packets = log.packets
  <2> HIDE DEF g, c
  <2> QED BY <1>1, <1>6 DEF LogCopy
<1> QED BY <1>2, <1>7, <1>8

(* Taking the log at hand keeps the order.                                  *)
LEMMA TakeInOrder ==
    ASSUME LogsInv, LogIndex \in Nat, ~TakeLog(LogIndex).cut
    PROVE  /\ ~log.cut
           /\ LogAt(LogIndex) = 0 <=> LogIndex >= LogFiles
           /\ Len(TakeLog(LogIndex).got) =
                 IF LogIndex < LogFiles THEN LogIndex + 1 ELSE LogFiles
           /\ \A i \in 2 .. Len(TakeLog(LogIndex).got) :
                 TakeLog(LogIndex).got[i] >= TakeLog(LogIndex).got[i-1] - 1
           /\ TakeLog(LogIndex).got # <<>> =>
                 TakeLog(LogIndex).got[Len(TakeLog(LogIndex).got)]
                       + Len(TakeLog(LogIndex).got) - 1
                    <= IF Moved(Len(TakeLog(LogIndex).got) - 1)
                       THEN Newest + 1 ELSE Newest
<1> USE LogSizes
<1> DEFINE k == LogIndex
           v == LogAt(k)
           n == TakeLog(k).got
           g == log.got
<1>1. /\ ~log.cut /\ k # hole /\ n = IF v = 0 THEN g ELSE Append(g, v)
  BY TakenLog, Zenon
<1>2. /\ g \in Seq(Nat) /\ Len(g) \in Nat /\ k \in Nat
      /\ Len(g) = IF k < LogFiles THEN k ELSE LogFiles
      /\ \A i \in 1 .. Len(g) : g[i] \in Nat
  <2>1. log \in LogCopy
    BY DEF LogsInv, CopyPlace
  <2>2. g \in Seq(Nat)
    BY <2>1 DEF LogCopy
  <2>3. Len(g) = IF k < LogFiles THEN k ELSE LogFiles
    BY <1>1, Zenon DEF LogsInv, CopyPlace
  <2>4. Len(g) \in Nat /\ \A i \in 1 .. Len(g) : g[i] \in Nat
    BY <2>2
  <2> QED BY <2>2, <2>3, <2>4
<1>3. /\ \A i \in 2 .. Len(g) : g[i] >= g[i-1] - 1
      /\ g # <<>> => g[Len(g)] + Len(g) - 1
                       <= IF Moved(Len(g) - 1) THEN Newest + 1 ELSE Newest
  BY <1>1 DEF LogsInv, CopyOrder
<1>4. /\ aplogs \in [0 .. LogFiles - 1 -> Nat] /\ hole \in -1 .. LogFiles - 2
      /\ Newest \in Nat /\ Newest >= LogFiles
      /\ \A i \in 0 .. LogFiles - 1 :
            aplogs[i] = IF i = hole THEN 0
                        ELSE IF Moved(i) THEN Newest - i + 1 ELSE Newest - i
  <2>1. Newest \in Nat
    BY DEF LogsInv, LogsShape, Newest
  <2> QED BY <2>1 DEF LogsInv, LogsShape
<1>5. CASE k >= LogFiles
  <2>1. v = 0
    BY <1>2, <1>4, <1>5 DEF LogAt
  <2>2. n = g
    BY <1>1, <2>1
  <2>3. ~(k < LogFiles) /\ (v = 0 <=> k >= LogFiles)
    BY <1>2, <1>5, <2>1
  <2>4. Len(n) = IF k < LogFiles THEN k + 1 ELSE LogFiles
    BY <1>2, <2>2, <2>3
  <2> QED BY <1>1, <1>3, <2>2, <2>3, <2>4, Zenon
<1>6. CASE k < LogFiles
  <2>1. k \in 0 .. LogFiles - 1 /\ Len(g) = k
    BY <1>2, <1>6
  <2>2. v = IF Moved(k) THEN Newest - k + 1 ELSE Newest - k
    <3>1. v = aplogs[k]
      BY <1>4, <2>1 DEF LogAt
    <3> QED BY <1>1, <1>4, <2>1, <3>1
  <2>3. v \in Nat /\ v # 0
    BY <1>4, <2>1, <2>2
  <2>4. n = Append(g, v) /\ Len(n) = k + 1 /\ n[k + 1] = v
        /\ \A i \in 1 .. k : n[i] = g[i]
    <3> HIDE DEF k, v, g, n
    <3>1. n = Append(g, v)
      BY <1>1, <2>3
    <3> QED BY <1>2, <2>1, <2>3, <3>1
  <2>5. n[Len(n)] + Len(n) - 1 <= IF Moved(Len(n) - 1) THEN Newest + 1 ELSE Newest
    <3>1. Len(n) - 1 = k /\ n[Len(n)] = v
      BY <1>2, <2>4
    <3> HIDE DEF k, v, g, n
    <3>2. k \in Int /\ Newest \in Int
      BY <1>2, <1>4
    <3>3. v + k <= IF Moved(k) THEN Newest + 1 ELSE Newest
      BY <2>2, <3>2
    <3>4. v + Len(n) - 1 = v + k
      BY <2>3, <2>4, <3>2
    <3> QED BY <3>1, <3>3, <3>4
  <2>6. k # 0 => v >= g[k] - 1
    <3> HAVE k # 0
    <3>1. g # <<>> /\ g[k] \in Nat
      BY <1>2, <2>1
    <3>2. g[k] + k - 1 <= IF Moved(k - 1) THEN Newest + 1 ELSE Newest
      BY <1>3, <2>1, <3>1
    <3>3. Moved(k - 1) => Moved(k)
      BY <1>2, <1>4 DEF Moved
    <3> HIDE DEF k, v, g, n
    <3>i. k \in Int /\ Newest \in Int /\ g[k] \in Int
      <4>1. k \in Int
        BY <1>2
      <4>2. Newest \in Int
        BY <1>4
      <4> QED BY <3>1, <4>1, <4>2
    <3>4. CASE Moved(k - 1)
      <4>1. g[k] + k - 1 <= Newest + 1 /\ v = Newest - k + 1
        BY <2>2, <3>2, <3>3, <3>4
      <4> QED BY <3>i, <4>1
    <3>5. CASE ~Moved(k - 1)
      <4>1. g[k] + k - 1 <= Newest /\ v \in {Newest - k + 1, Newest - k}
        BY <2>2, <3>2, <3>5
      <4> QED BY <3>i, <4>1
    <3> QED BY <3>4, <3>5
  <2>7. \A i \in 2 .. Len(n) : n[i] >= n[i-1] - 1
    <3> SUFFICES ASSUME NEW i \in 2 .. Len(n) PROVE n[i] >= n[i-1] - 1
      OBVIOUS
    <3>0. i \in Int /\ 2 <= i /\ i <= k + 1
      BY <2>4
    <3>1. CASE i = k + 1
      BY <1>2, <2>4, <2>6, <3>0, <3>1
    <3>2. CASE i # k + 1
      <4>1. i \in 1 .. k /\ i - 1 \in 1 .. k /\ i \in 2 .. Len(g)
        BY <1>2, <2>1, <3>0, <3>2
      <4> QED BY <1>3, <2>4, <4>1
    <3> QED BY <3>1, <3>2
  <2>8. k < LogFiles /\ (v = 0 <=> k >= LogFiles)
    BY <1>2, <1>6, <2>3
  <2>9. Len(n) = IF k < LogFiles THEN k + 1 ELSE LogFiles
    BY <2>4, <2>8
  <2> QED BY <1>1, <2>5, <2>7, <2>8, <2>9, Zenon
<1> QED BY <1>2, <1>5, <1>6

(* A rotation moves one log and keeps the numbers in order.                 *)
LEMMA RotateShape ==
    ASSUME LogsShape, Rotate
    PROVE  /\ LogsShape'
           /\ Newest \in Nat /\ Newest' \in Nat /\ Newest <= Newest'
           /\ \A i \in 0 .. LogFiles - 1 :
                 (IF Moved(i) THEN Newest + 1 ELSE Newest)
                    <= IF Moved(i)' THEN Newest' + 1 ELSE Newest'
<1> USE LogSizes
<1> DEFINE N == Newest
<1>1. /\ aplogs \in [0 .. LogFiles - 1 -> Nat] /\ hole \in -1 .. LogFiles - 2
      /\ N \in Nat /\ N >= LogFiles
      /\ \A i \in 0 .. LogFiles - 1 :
            aplogs[i] = IF i = hole THEN 0
                        ELSE IF 0 <= hole /\ hole < i THEN N - i + 1 ELSE N - i
  <2>1. N \in Nat
    BY DEF LogsShape, Newest
  <2> QED BY <2>1 DEF LogsShape, Moved
<1>2. CASE /\ hole = -1 /\ hole' = LogFiles - 2
           /\ aplogs' = [aplogs EXCEPT ![hole' + 1] = aplogs[hole'], ![hole'] = 0]
  <2>1. /\ \A i \in 0 .. LogFiles - 1 :
              aplogs'[i] = IF i = LogFiles - 2 THEN 0
                           ELSE IF i = LogFiles - 1 THEN N - i + 1 ELSE N - i
        /\ aplogs' \in [0 .. LogFiles - 1 -> Nat]
    <3> HIDE DEF N
    <3> DEFINE a == LogFiles - 2
               b == LogFiles - 1
    <3>1. /\ a \in 0 .. b /\ b \in 0 .. b /\ a # b /\ a + 1 = b
          /\ aplogs \in [0 .. b -> Nat]
      BY <1>1
    <3>2. aplogs' = [aplogs EXCEPT ![b] = aplogs[a], ![a] = 0]
      BY <1>2, <3>1
    <3>3. aplogs[a] = N - a /\ \A i \in 0 .. b : aplogs[i] = N - i
      BY <1>1, <1>2, <3>1
    <3> HIDE DEF a
    <3>4. /\ aplogs'[a] = 0 /\ aplogs'[b] = aplogs[a]
          /\ \A i \in 0 .. b : i # a /\ i # b => aplogs'[i] = aplogs[i]
          /\ aplogs' \in [0 .. b -> Nat]
      BY <3>1, <3>2
    <3>5. N - a = N - b + 1
      BY <1>1, <3>1
    <3>6. \A i \in 0 .. b :
             aplogs'[i] = IF i = a THEN 0 ELSE IF i = b THEN N - i + 1 ELSE N - i
      BY <3>3, <3>4, <3>5
    <3> QED BY <3>4, <3>6 DEF a
  <2>2. Newest' = N
    BY <1>1, <1>2, <2>1 DEF Newest
  <2>3. LogsShape'
    <3> HIDE DEF N
    <3>1. hole' \in -1 .. LogFiles - 2 /\ 0 <= hole'
      BY <1>2
    <3>2. \A i \in 0 .. LogFiles - 1 : i > hole' <=> i = LogFiles - 1
      BY <1>2
    <3>3. \A i \in 0 .. LogFiles - 1 :
             aplogs'[i] = IF i = hole' THEN 0
                          ELSE IF 0 <= hole' /\ hole' < i THEN N - i + 1 ELSE N - i
      BY <1>2, <2>1, <3>1, <3>2
    <3> QED BY <1>1, <2>1, <2>2, <3>1, <3>3 DEF LogsShape, Moved
  <2> QED BY <1>1, <1>2, <2>2, <2>3 DEF Moved
<1>3. CASE /\ hole > 0 /\ hole' = hole - 1
           /\ aplogs' = [aplogs EXCEPT ![hole] = aplogs[hole'], ![hole'] = 0]
  <2>1. /\ \A i \in 0 .. LogFiles - 1 :
              aplogs'[i] = IF i = hole - 1 THEN 0
                           ELSE IF hole - 1 < i THEN N - i + 1 ELSE N - i
        /\ aplogs' \in [0 .. LogFiles - 1 -> Nat]
    <3> HIDE DEF N
    <3>1. hole \in 1 .. LogFiles - 2 /\ hole - 1 \in 0 .. LogFiles - 1
      BY <1>1, <1>3
    <3>2. aplogs[hole - 1] = N - hole + 1
      BY <1>1, <3>1
    <3>3. /\ \A i \in 0 .. LogFiles - 1 :
                aplogs'[i] = IF i = hole - 1 THEN 0
                             ELSE IF i = hole THEN aplogs[hole - 1] ELSE aplogs[i]
          /\ aplogs' \in [0 .. LogFiles - 1 -> Nat]
      BY <1>1, <1>3, <3>1
    <3> SUFFICES ASSUME NEW i \in 0 .. LogFiles - 1
                 PROVE  aplogs'[i] = IF i = hole - 1 THEN 0
                           ELSE IF hole - 1 < i THEN N - i + 1 ELSE N - i
      BY <3>3
    <3>i. i \in Int /\ hole \in Int /\ N \in Int
      BY <1>1, <3>1
    <3>0. CASE i = hole - 1
      BY <3>0, <3>3
    <3>4. CASE i = hole
      <4>1. aplogs'[i] = N - i + 1
        BY <3>i, <3>2, <3>3, <3>4
      <4>2. ~(i = hole - 1) /\ hole - 1 < i
        BY <3>i, <3>4
      <4> QED BY <4>1, <4>2
    <3>5. CASE i # hole - 1 /\ i # hole
      BY <1>1, <3>1, <3>3, <3>5
    <3> QED BY <3>0, <3>4, <3>5
  <2>2. Newest' = N
    <3>1. N = aplogs[0]
      BY <1>1, <1>3 DEF Newest
    <3>2. CASE hole = 1
      <4>1. hole' = 0 /\ aplogs'[1] = aplogs[0]
        BY <1>1, <1>3, <3>2
      <4> QED BY <3>1, <4>1 DEF Newest
    <3>3. CASE hole # 1
      <4>1. hole' # 0 /\ aplogs'[0] = aplogs[0]
        BY <1>1, <1>3, <3>3
      <4> QED BY <3>1, <4>1 DEF Newest
    <3> QED BY <3>2, <3>3
  <2>3. LogsShape'
    <3> HIDE DEF N
    <3>1. /\ hole' \in -1 .. LogFiles - 2 /\ 0 <= hole' /\ hole' = hole - 1
          /\ Newest' >= LogFiles
      BY <1>1, <1>3, <2>2
    <3>2. \A i \in 0 .. LogFiles - 1 :
             aplogs'[i] = IF i = hole' THEN 0
                          ELSE IF Moved(i)' THEN Newest' - i + 1 ELSE Newest' - i
      BY <2>1, <2>2, <3>1 DEF Moved
    <3> QED BY <2>1, <3>1, <3>2 DEF LogsShape
  <2> QED BY <1>1, <1>3, <2>2, <2>3 DEF Moved
<1>4. CASE /\ hole = 0 /\ hole' = -1
           /\ aplogs' = [aplogs EXCEPT ![0] = aplogs[1] + 1]
  <2>1. /\ \A i \in 0 .. LogFiles - 1 : aplogs'[i] = N + 1 - i
        /\ aplogs' \in [0 .. LogFiles - 1 -> Nat]
    <3> HIDE DEF N
    <3>1. 1 \in 0 .. LogFiles - 1 /\ aplogs[1] = N
      BY <1>1, <1>4
    <3>2. /\ \A i \in 0 .. LogFiles - 1 :
                aplogs'[i] = IF i = 0 THEN N + 1 ELSE aplogs[i]
          /\ aplogs' \in [0 .. LogFiles - 1 -> Nat]
      BY <1>1, <1>4, <3>1
    <3> SUFFICES ASSUME NEW i \in 0 .. LogFiles - 1 PROVE aplogs'[i] = N + 1 - i
      BY <3>2
    <3>3. CASE i = 0
      BY <1>1, <3>2, <3>3
    <3>4. CASE i # 0
      <4>1. aplogs'[i] = aplogs[i] /\ aplogs[i] = N - i + 1
        BY <1>1, <1>4, <3>2, <3>4
      <4> QED BY <1>1, <4>1
    <3> QED BY <3>3, <3>4
  <2>2. Newest' = N + 1
    BY <1>1, <1>4, <2>1 DEF Newest
  <2>3. LogsShape'
    <3> HIDE DEF N
    <3>1. hole' = -1 /\ hole' \in -1 .. LogFiles - 2
      BY <1>4
    <3>2. N + 1 >= LogFiles
      BY <1>1
    <3>3. \A i \in 0 .. LogFiles - 1 : ~Moved(i)' /\ i # hole'
      BY <3>1 DEF Moved
    <3>4. \A i \in 0 .. LogFiles - 1 : aplogs'[i] = Newest' - i
      <4>1. N \in Nat
        BY <1>1
      <4> QED BY <2>1, <2>2, <4>1
    <3>5. Newest' >= LogFiles
      BY <2>2, <3>2
    <3>6. \A i \in 0 .. LogFiles - 1 :
             aplogs'[i] = IF i = hole' THEN 0
                          ELSE IF Moved(i)' THEN Newest' - i + 1 ELSE Newest' - i
      BY <3>3, <3>4
    <3> QED BY <2>1, <3>1, <3>5, <3>6 DEF LogsShape
  <2> QED BY <1>1, <1>4, <2>2, <2>3 DEF Moved
<1> QED BY <1>2, <1>3, <1>4 DEF Rotate

LEMMA RotateLogs == ASSUME LogsInv, Rotate PROVE LogsInv'
<1> USE LogSizes
<1>1. log' = log /\ at' = at
  BY DEF Rotate, daemon
<1>2. LogsShape' /\ CopyPlace'
  <2>1. LogsShape'
    BY RotateShape DEF LogsInv
  <2>2. LogIndex' = LogIndex
    BY <1>1 DEF LogIndex
  <2> QED BY <1>1, <2>1, <2>2 DEF LogsInv, CopyPlace
<1>3. CopyOrder'
  <2> SUFFICES ASSUME ~log.cut
               PROVE  /\ \A i \in 2 .. Len(log.got) : log.got[i] >= log.got[i-1] - 1
                      /\ log.got # <<>> =>
                            log.got[Len(log.got)] + Len(log.got) - 1
                               <= IF Moved(Len(log.got) - 1)' THEN Newest' + 1 ELSE Newest'
    BY <1>1 DEF CopyOrder
  <2> DEFINE g == log.got
             n == Len(g)
  <2>1. /\ g \in Seq(Nat) /\ n \in Nat /\ n <= LogFiles
        /\ \A i \in 1 .. n : g[i] \in Nat
    <3>1. log \in LogCopy
      BY DEF LogsInv, CopyPlace
    <3>2. g \in Seq(Nat)
      BY <3>1 DEF LogCopy
    <3>3. Len(g) = IF LogIndex < LogFiles THEN LogIndex ELSE LogFiles
      BY DEF LogsInv, CopyPlace
    <3>4. LogIndex \in Int
      BY <3>1 DEF LogCopy, LogIndex
    <3>5. Len(g) <= LogFiles
      BY <3>3, <3>4
    <3> HIDE DEF g
    <3> QED BY <3>2, <3>5
  <2>2. /\ \A i \in 2 .. n : g[i] >= g[i-1] - 1
        /\ g # <<>> => g[n] + n - 1 <= IF Moved(n - 1) THEN Newest + 1 ELSE Newest
    BY DEF LogsInv, CopyOrder
  <2>3. ASSUME g # <<>>
        PROVE  g[n] + n - 1 <= IF Moved(n - 1)' THEN Newest' + 1 ELSE Newest'
    <3>1. n - 1 \in 0 .. LogFiles - 1 /\ g[n] \in Nat
      BY <2>1, <2>3
    <3>2. /\ Newest \in Nat /\ Newest' \in Nat
          /\ (IF Moved(n - 1) THEN Newest + 1 ELSE Newest)
                <= IF Moved(n - 1)' THEN Newest' + 1 ELSE Newest'
      <4>1. (n - 1)' = n - 1
        BY <1>1
      <4>2. /\ Newest \in Nat /\ Newest' \in Nat
            /\ \A i \in 0 .. LogFiles - 1 :
                 (IF Moved(i) THEN Newest + 1 ELSE Newest)
                    <= IF Moved(i)' THEN Newest' + 1 ELSE Newest'
        BY RotateShape DEF LogsInv
      <4> HIDE DEF n
      <4> QED BY <3>1, <4>1, <4>2 DEF Moved
    <3> DEFINE a == IF Moved(n - 1) THEN Newest + 1 ELSE Newest
               b == IF Moved(n - 1)' THEN Newest' + 1 ELSE Newest'
               x == g[n] + n - 1
    <3>3. a \in Int /\ b \in Int
      BY <3>2
    <3>x. x \in Int
      <4> HIDE DEF n, g
      <4> QED BY <2>1, <3>1
    <3>y. a <= b /\ x <= a
      BY <2>2, <2>3, <3>2, Zenon
    <3>4. x <= b
      <4> HIDE DEF a, b, x
      <4> QED BY <3>3, <3>x, <3>y
    <3> QED BY <3>4
  <2> QED BY <2>2, <2>3
<1> QED BY <1>2, <1>3 DEF LogsInv

(* One more log of do_copy_circular, or of a packet.                        *)
LEMMA CircularTakes ==
    ASSUME LogsInv, at = "logs", UNCHANGED <<aplogs, hole>>,
           log' = [TakeLog(log.index) EXCEPT !.index = @ + 1],
           IF LogAt(log.index) = 0 \/ Len(log'.got) = LogLimit
           THEN at' = "raise" ELSE at' = "logs"
    PROVE  LogsInv'
<1> USE LogSizes
<1>1. /\ at = "logs" /\ log' = [TakeLog(log.index) EXCEPT !.index = @ + 1]
      /\ UNCHANGED <<aplogs, hole>>
      /\ IF LogAt(log.index) = 0 \/ Len(log'.got) = LogLimit
         THEN at' = "raise" ELSE at' = "logs"
  OBVIOUS
<1>2. /\ log \in LogCopy /\ log.packet = 0 /\ log.depth = 0
  BY <1>1 DEF LogsInv, CopyPlace
<1>3. log.index \in Nat /\ LogIndex = log.index
  BY <1>2 DEF LogCopy, LogIndex
<1> DEFINE t == TakeLog(log.index)
<1>4. /\ t \in LogCopy /\ t.packet = 0 /\ t.depth = 0 /\ t.index = log.index
      /\ t.cut = (log.cut \/ log.index = hole)
  BY <1>2, <1>3, TakenLog
<1>5. /\ log' \in LogCopy /\ log'.packet = 0 /\ log'.depth = 0
      /\ log'.index = log.index + 1 /\ log'.got = t.got /\ log'.cut = t.cut
  <2> HIDE DEF t
  <2>1. log' = [t EXCEPT !.index = log.index + 1]
    BY <1>1, <1>4 DEF t
  <2>2. log.index + 1 \in Nat
    BY <1>3
  <2>3. log' \in LogCopy /\ log'.index = log.index + 1
    BY <1>4, <2>1, <2>2 DEF LogCopy
  <2>4. /\ log'.packet = t.packet /\ log'.depth = t.depth
        /\ log'.got = t.got /\ log'.cut = t.cut
    BY <1>4, <2>1 DEF LogCopy
  <2> QED BY <1>4, <2>3, <2>4
<1>6. LogsShape' /\ Newest' = Newest /\ (\A i : Moved(i)' = Moved(i))
  BY <1>1 DEF LogsInv, LogsShape, Newest, Moved
<1>7. LogIndex' = log.index + 1
  BY <1>3, <1>5 DEF LogIndex
<1>8. ASSUME ~log'.cut
      PROVE  /\ LogAt(log.index) = 0 <=> log.index >= LogFiles
             /\ Len(t.got) = IF log.index < LogFiles THEN log.index + 1 ELSE LogFiles
             /\ \A i \in 2 .. Len(t.got) : t.got[i] >= t.got[i-1] - 1
             /\ t.got # <<>> =>
                   t.got[Len(t.got)] + Len(t.got) - 1
                      <= IF Moved(Len(t.got) - 1) THEN Newest + 1 ELSE Newest
  BY <1>3, <1>5, <1>8, TakeInOrder
<1>9. CopyOrder'
  BY <1>5, <1>6, <1>8 DEF CopyOrder
<1>10. CopyPlace'
  <2>1. ASSUME ~log'.cut
        PROVE  Len(log'.got) = IF LogIndex' < LogFiles THEN LogIndex' ELSE LogFiles
    <3> HIDE DEF t
    <3> QED BY <1>3, <1>5, <1>7, <1>8, <2>1
  <2>2. ASSUME ~log'.cut, at' = "raise"
        PROVE  Len(log'.got) \in {LogLimit, LogFiles}
    <3> HIDE DEF t
    <3>1. LogAt(log.index) = 0 \/ Len(log'.got) = LogLimit
      BY <1>1, <2>2
    <3>2. LogAt(log.index) = 0 => Len(log'.got) = LogFiles
      BY <1>3, <1>5, <1>8, <2>2
    <3> QED BY <3>1, <3>2
  <2> QED BY <1>1, <1>5, <2>1, <2>2 DEF CopyPlace
<1> QED BY <1>6, <1>9, <1>10 DEF LogsInv

LEMMA MissedLog ==
    ASSUME log \in LogCopy
    PROVE  /\ MissLog \in LogCopy /\ MissLog.cut = TRUE /\ MissLog.packet = log.packet
           /\ MissLog.depth = log.depth /\ MissLog.index = log.index
  BY DEF MissLog, LogCopy

(* A log whose copy failed: nothing is claimed of the rest.                 *)
LEMMA MissedLogs ==
    ASSUME LogsInv, UNCHANGED <<aplogs, hole>>, log' \in LogCopy, log'.cut,
           \/ at' \in {"logs", "raise"} /\ log'.packet = 0 /\ log'.depth = 0
           \/ at' = "packet" /\ log'.index <= log'.depth
    PROVE  LogsInv'
<1>1. LogsShape'
  BY DEF LogsInv, LogsShape, Newest, Moved
<1>2. CopyPlace'
  BY DEF CopyPlace
<1>3. CopyOrder'
  BY DEF CopyOrder
<1> QED BY <1>1, <1>2, <1>3 DEF LogsInv

LEMMA CircularLogs == ASSUME LogsInv, do_copy_circular PROVE LogsInv'
<1>0. at = "logs" /\ UNCHANGED <<aplogs, hole>>
  BY DEF do_copy_circular, logcat
<1>1. CASE /\ log' = [TakeLog(log.index) EXCEPT !.index = @ + 1]
           /\ IF LogAt(log.index) = 0 \/ Len(log'.got) = LogLimit
              THEN Go("raise") ELSE UNCHANGED <<at, batch>>
  BY <1>0, <1>1, CircularTakes DEF Go
<1>2. CASE /\ log' = [MissLog EXCEPT !.index = @ + 1]
           /\ Go("raise") \/ UNCHANGED <<at, batch>>
  <2>1. log \in LogCopy /\ log.packet = 0 /\ log.depth = 0
    BY <1>0 DEF LogsInv, CopyPlace
  <2>2. log' = [MissLog EXCEPT !.index = MissLog.index + 1]
    BY <1>2
  <2>3. MissLog \in LogCopy /\ MissLog.cut = TRUE /\ MissLog.packet = 0 /\ MissLog.depth = 0
    BY <2>1, MissedLog
  <2>4. MissLog.index + 1 \in Nat
    BY <2>3 DEF LogCopy
  <2>5. log' \in LogCopy /\ log'.packet = 0 /\ log'.depth = 0
    BY <2>2, <2>3, <2>4 DEF LogCopy
  <2>6. log'.cut = MissLog.cut
    BY <2>2, <2>3 DEF LogCopy
  <2>7. log' \in LogCopy /\ log'.cut = TRUE /\ log'.packet = 0 /\ log'.depth = 0
    BY <2>3, <2>5, <2>6
  <2>8. at' \in {"logs", "raise"}
    BY <1>0, <1>2 DEF Go
  <2> QED BY <1>0, <2>7, <2>8, MissedLogs
<1> QED BY <1>1, <1>2 DEF do_copy_circular

LEMMA PacketLogs ==
    ASSUME LogsInv, InPacket, at' = at, UNCHANGED <<aplogs, hole>>,
           \/ LogAt(LogIndex) = 0 /\ log' = [TakeLog(LogIndex) EXCEPT !.index = log.depth]
           \/ /\ LogAt(LogIndex) # 0
              /\ log' = [TakeLog(LogIndex) EXCEPT !.index = @ + 1, !.dir = TRUE]
    PROVE  LogsInv'
<1> USE LogSizes
<1>1. /\ at = "packet" /\ log \in LogCopy /\ log.index < log.depth
  BY DEF InPacket, LogsInv, CopyPlace
<1>2. /\ log.packet \in Nat /\ log.depth \in Nat /\ log.index \in Nat
      /\ log.packet * log.depth \in Nat
  BY <1>1 DEF LogCopy
<1>3. LogIndex \in Nat
  BY <1>2 DEF LogIndex
<1> DEFINE t == TakeLog(LogIndex)
<1>4. /\ t \in LogCopy /\ t.packet = log.packet /\ t.depth = log.depth
      /\ t.index = log.index /\ t.cut = (log.cut \/ LogIndex = hole)
  BY <1>3, TakenLog
<1>5. \E n \in Nat :
         /\ n = IF LogAt(LogIndex) = 0 THEN log.depth ELSE log.index + 1
         /\ log' \in LogCopy /\ log'.packet = log.packet /\ log'.depth = log.depth
         /\ log'.index = n /\ log'.got = t.got /\ log'.cut = t.cut
  <2>1. CASE LogAt(LogIndex) = 0
    <3>1. log' = [t EXCEPT !.index = log.depth]
      BY <2>1
    <3> HIDE DEF t
    <3> QED BY <1>2, <1>4, <2>1, <3>1 DEF LogCopy
  <2>2. CASE LogAt(LogIndex) # 0
    <3>1. log' = [t EXCEPT !.index = log.index + 1, !.dir = TRUE]
      BY <1>4, <2>2
    <3> HIDE DEF t
    <3>2. log.index + 1 \in Nat
      BY <1>2
    <3>3. log' \in LogCopy /\ log'.index = log.index + 1
      BY <1>4, <3>1, <3>2 DEF LogCopy
    <3>4. /\ log'.packet = t.packet /\ log'.depth = t.depth
          /\ log'.got = t.got /\ log'.cut = t.cut
      BY <1>4, <3>1 DEF LogCopy
    <3> QED BY <1>4, <2>2, <3>2, <3>3, <3>4
  <2> QED BY <2>1, <2>2
<1>6. LogsShape' /\ Newest' = Newest /\ (\A i : Moved(i)' = Moved(i))
  BY DEF LogsInv, LogsShape, Newest, Moved
<1>7. LogIndex' = IF LogAt(LogIndex) = 0 THEN log.packet * log.depth + log.depth
                  ELSE LogIndex + 1
  <2> HIDE DEF t
  <2>1. LogIndex' = log'.packet * log'.depth + log'.index
    BY DEF LogIndex
  <2>2. LogIndex' = log.packet * log.depth + log'.index
    BY <1>5, <2>1
  <2>3. LogIndex = log.packet * log.depth + log.index
    BY DEF LogIndex
  <2> DEFINE m == log.packet * log.depth
  <2> HIDE DEF m
  <2>4. LogIndex' = m + log'.index /\ LogIndex = m + log.index /\ m \in Nat
    BY <1>2, <2>2, <2>3 DEF m
  <2>5. log'.index = IF LogAt(LogIndex) = 0 THEN log.depth ELSE log.index + 1
    BY <1>5
  <2>6. LogIndex' = IF LogAt(LogIndex) = 0 THEN m + log.depth ELSE LogIndex + 1
    BY <1>2, <2>4, <2>5
  <2> QED BY <2>6 DEF m
<1>8. ASSUME ~log'.cut
      PROVE  /\ LogAt(LogIndex) = 0 <=> LogIndex >= LogFiles
             /\ Len(t.got) = IF LogIndex < LogFiles THEN LogIndex + 1 ELSE LogFiles
             /\ \A i \in 2 .. Len(t.got) : t.got[i] >= t.got[i-1] - 1
             /\ t.got # <<>> =>
                   t.got[Len(t.got)] + Len(t.got) - 1
                      <= IF Moved(Len(t.got) - 1) THEN Newest + 1 ELSE Newest
  BY <1>3, <1>5, <1>8, TakeInOrder
<1>9. CopyOrder'
  BY <1>5, <1>6, <1>8 DEF CopyOrder
<1>10. CopyPlace'
  <2>1. ASSUME ~log'.cut
        PROVE  Len(log'.got) = IF LogIndex' < LogFiles THEN LogIndex' ELSE LogFiles
    <3>1. Len(log'.got) = IF LogIndex < LogFiles THEN LogIndex + 1 ELSE LogFiles
      BY <1>5, <1>8, <2>1
    <3>2. CASE LogIndex < LogFiles
      <4>1. LogIndex' = LogIndex + 1
        BY <1>3, <1>7, <1>8, <2>1, <3>2
      <4> QED BY <1>3, <3>1, <3>2, <4>1
    <3>3. CASE ~(LogIndex < LogFiles)
      <4> DEFINE m == log.packet * log.depth
      <4>1. m \in Nat /\ LogIndex = m + log.index
        BY <1>2 DEF LogIndex
      <4>2. LogIndex' = m + log.depth
        BY <1>3, <1>7, <1>8, <2>1, <3>3
      <4> HIDE DEF m
      <4>3. ~(LogIndex' < LogFiles)
        BY <1>1, <1>2, <3>3, <4>1, <4>2
      <4> QED BY <3>1, <3>3, <4>3
    <3> QED BY <3>2, <3>3
  <2>2. log' \in LogCopy /\ log'.index <= log'.depth
    <3> HIDE DEF t
    <3> QED BY <1>1, <1>2, <1>5
  <2> QED BY <1>1, <2>1, <2>2 DEF CopyPlace
<1> QED BY <1>6, <1>9, <1>10 DEF LogsInv

(* The event at hand.                                                       *)
LEMMA EventAtHand ==
    ASSUME FilesTyped, batch # <<>>
    PROVE  /\ event = batch[1] /\ event \in FileEvents /\ event.file \in Files
           /\ Len(batch) \in Nat /\ 1 <= Len(batch)
<1>1. batch \in Seq(FileEvents)
  BY DEF FilesTyped
<1>2. event = batch[1] /\ Len(batch) \in Nat /\ 1 <= Len(batch)
  BY <1>1 DEF event
<1>3. event \in FileEvents
  BY <1>1, <1>2
<1> QED BY <1>2, <1>3 DEF FileEvents

LEMMA OneMoreTimes == ASSUME NEW a \in Nat, NEW b \in Nat PROVE (a + 1) * b = a * b + b
  OBVIOUS

LEMMA EndPacketLogs == ASSUME LogsInv, end_packet PROVE LogsInv'
<1> USE LogSizes
<1>1. /\ at = "packet" /\ at' = at /\ UNCHANGED <<aplogs, hole>> /\ log.index >= log.depth
      /\ \/ log' = [NextPacket(log) EXCEPT !.dir = FALSE]
         \/ log' = NextPacket(log)
  BY DEF end_packet, logcat
<1>2. log \in LogCopy /\ log.index <= log.depth
  BY <1>1 DEF LogsInv, CopyPlace
<1>3. /\ log.packet \in Nat /\ log.depth \in Nat /\ log.index = log.depth
      /\ log.packet + 1 \in Nat
  BY <1>1, <1>2 DEF LogCopy
<1>4. /\ log' \in LogCopy /\ log'.packet = log.packet + 1 /\ log'.index = 0
      /\ log'.depth = log.depth /\ log'.got = log.got /\ log'.cut = log.cut
  <2> DEFINE p == log.packet + 1
  <2>1. p \in Nat
    BY <1>3
  <2> HIDE DEF p
  <2>2. CASE log' = [log EXCEPT !.packet = p, !.index = 0]
    <3>1. log' \in LogCopy
      BY <1>2, <2>1, <2>2 DEF LogCopy
    <3> QED BY <1>2, <2>2, <3>1 DEF LogCopy, p
  <2>3. CASE log' = [log EXCEPT !.packet = p, !.index = 0, !.dir = FALSE]
    <3>1. log' \in LogCopy
      BY <1>2, <2>1, <2>3 DEF LogCopy
    <3> QED BY <1>2, <2>3, <3>1 DEF LogCopy, p
  <2>4. NextPacket(log) = [log EXCEPT !.packet = p, !.index = 0]
    BY <1>2 DEF NextPacket, p, LogCopy
  <2>5. [NextPacket(log) EXCEPT !.dir = FALSE]
           = [log EXCEPT !.packet = p, !.index = 0, !.dir = FALSE]
    BY <1>2, <2>4 DEF LogCopy
  <2> QED BY <1>1, <2>2, <2>3, <2>4, <2>5
<1>5. LogIndex' = LogIndex
  <2>1. LogIndex' = (log.packet + 1) * log.depth + 0
    BY <1>4 DEF LogIndex
  <2>2. LogIndex = log.packet * log.depth + log.depth
    BY <1>3 DEF LogIndex
  <2>3. /\ (log.packet + 1) * log.depth = log.packet * log.depth + log.depth
        /\ log.packet * log.depth \in Nat
    BY <1>3, OneMoreTimes
  <2> QED BY <1>3, <2>1, <2>2, <2>3
<1>6. CopyPlace'
  BY <1>1, <1>3, <1>4, <1>5 DEF LogsInv, CopyPlace
<1>7. LogsShape' /\ CopyOrder'
  BY <1>1, <1>4 DEF LogsInv, LogsShape, CopyOrder, Newest, Moved
<1> QED BY <1>6, <1>7 DEF LogsInv

LEMMA ReadTriggerLogs == ASSUME FilesTyped, LogsInv, read_trigger PROVE LogsInv'
<1> USE LogSizes
<1>1. /\ batch # <<>> /\ at' = "packet" /\ UNCHANGED <<aplogs, hole>>
  BY DEF read_trigger, Handling, Go, logcat
<1> DEFINE d == get_value_in_file(kind[event.file].depth)
           n == IF d >= 0 THEN d ELSE PropDepth
           p == IF d >= 0 THEN 1 ELSE PropPackets
           r == IF file_exists /\ ~kind[event.file].bplog THEN -1 ELSE 0
<1>2. event.file \in Files
  BY <1>1, EventAtHand
<1>3. kind[event.file].depth \in Int
  <2>1. kind[event.file] \in FileKinds \cup {NoKind}
    BY <1>2 DEF FilesTyped
  <2> QED BY <2>1, CrashFilesAssumption DEF NoKind
<1>4. d \in Int
  BY <1>3 DEF get_value_in_file
<1>5. n \in Nat /\ p \in Nat /\ r \in Int
  <2>1. PropDepth \in Nat /\ PropPackets \in Nat
    BY CrashFilesAssumption
  <2> HIDE DEF d
  <2> QED BY <1>4, <2>1
<1>6. log' = [NoLog EXCEPT !.depth = n, !.packets = p, !.res = r]
  BY DEF read_trigger
<1>7. <<>> \in Seq(Nat) /\ Len(<<>>) = 0
  OBVIOUS
<1>8. /\ log' \in LogCopy /\ log'.packet = 0 /\ log'.index = 0 /\ log'.depth = n
      /\ log'.got = <<>> /\ log'.cut = FALSE
  <2> HIDE DEF n, p, r
  <2> QED BY <1>5, <1>6, <1>7 DEF NoLog, LogCopy
<1>9. LogIndex' = 0
  <2> HIDE DEF n
  <2> QED BY <1>5, <1>8 DEF LogIndex
<1>10. CopyPlace' /\ CopyOrder'
  <2> HIDE DEF n
  <2>1. CopyPlace'
    BY <1>1, <1>5, <1>7, <1>8, <1>9 DEF CopyPlace
  <2>2. CopyOrder'
    BY <1>7, <1>8 DEF CopyOrder
  <2> QED BY <2>1, <2>2
<1>11. LogsShape'
  BY <1>1 DEF LogsInv, LogsShape, Newest, Moved
<1> QED BY <1>10, <1>11 DEF LogsInv

(* Actions that leave the copy alone, end it, or come before it.            *)
LEMMA SameLogs ==
    ASSUME LogsInv, UNCHANGED <<aplogs, hole>>,
           \/ UNCHANGED <<log, at>>
           \/ log' = NoLog /\ at' = "start"
           \/ log' = log /\ at \in {"start", "copy"} /\ at' \in {"copy", "logs", "raise"}
    PROVE  LogsInv'
<1>1. LogsShape'
  BY DEF LogsInv, LogsShape, Newest, Moved
<1>2. CASE UNCHANGED <<log, at>>
  <2>1. CopyPlace'
    BY <1>2 DEF LogsInv, CopyPlace, LogIndex
  <2>2. CopyOrder'
    BY <1>2 DEF LogsInv, CopyOrder, Newest, Moved
  <2> QED BY <1>1, <2>1, <2>2 DEF LogsInv
<1>3. CASE ~UNCHANGED <<log, at>>
  <2>1. log' = NoLog /\ at' \in {"start", "copy", "logs", "raise"}
    BY <1>3 DEF LogsInv, CopyPlace
  <2> QED BY <1>1, <2>1, NoLogCopied DEF LogsInv
<1> QED BY <1>2, <1>3

LEMMA BeginLogs ==
    ASSUME LogsInv, at = "start", NEW needed, Begin(needed)
    PROVE  LogsInv'
<1>1. /\ UNCHANGED <<aplogs, hole>>
      /\ \/ at' = "copy" /\ log' = log
         \/ at' = "start" /\ log' = NoLog
  BY DEF Begin, Go, Failed, logcat
<1> QED BY <1>1, SameLogs

LEMMA LogsNext == ASSUME FilesTyped, LogsInv, [CNext]_cvars PROVE LogsInv'
<1>1. ASSUME NEW f \in Files, NEW k \in FileKinds, Appear(f, k) PROVE LogsInv'
  BY <1>1, SameLogs DEF Appear, logcat, daemon
<1>2. ASSUME NEW f \in Files, Close(f) \/ Rename(f) \/ Leave(f) PROVE LogsInv'
  <2>1. UNCHANGED <<aplogs, hole, log, at>>
    BY <1>2 DEF Close, Rename, Leave, logcat, daemon
  <2> QED BY <2>1, SameLogs
<1>3. CASE Rotate
  BY <1>3, RotateLogs
<1>4. CASE Read
  BY <1>4, SameLogs DEF Read, logcat
<1>5. CASE manage_duplicate_dropbox_events \/ ignore_pb_file
  <2>1. UNCHANGED <<aplogs, hole>> /\ log' = NoLog /\ at' = "start"
    BY <1>5 DEF manage_duplicate_dropbox_events, ignore_pb_file, Done, logcat
  <2> QED BY <2>1, SameLogs
<1>6. CASE core_dump_disabled \/ Raise \/ Kill
  <2>1. UNCHANGED <<aplogs, hole>> /\ log' = NoLog /\ at' = "start"
    BY <1>6 DEF core_dump_disabled, Raise, Kill, Done, Failed, logcat
  <2> QED BY <2>1, SameLogs
<1>7. CASE process_usercrash_event \/ process_hprof_event \/ process_apcore_event
  BY <1>7, BeginLogs
     DEF process_usercrash_event, process_hprof_event, process_apcore_event, Handling
<1>8. CASE process_lost_event \/ process_info_and_error \/ process_stat_event
  BY <1>8, BeginLogs
     DEF process_lost_event, process_info_and_error, process_stat_event, Handling
<1>9. CASE do_copy_tail \/ do_copy
  <2>1. /\ UNCHANGED <<aplogs, hole, log>> /\ at = "copy" /\ at' \in {"logs", "raise"}
    BY <1>9 DEF do_copy_tail, do_copy, Handling, Go, logcat
  <2> QED BY <2>1, SameLogs
<1>10. CASE copy_and_remove \/ backup_apcoredump
  <2>1. /\ UNCHANGED <<aplogs, hole, log>> /\ at = "copy" /\ at' \in {"logs", "raise"}
    BY <1>10 DEF copy_and_remove, backup_apcoredump, Handling, Go, logcat
  <2> QED BY <2>1, SameLogs
<1>11. CASE do_copy_circular
  BY <1>11, CircularLogs
<1>12. CASE read_trigger
  BY <1>12, ReadTriggerLogs
<1>13. CASE copy_packet
  <2>1. UNCHANGED <<aplogs, hole>> /\ InPacket
    BY <1>13 DEF copy_packet, logcat
  <2>2. CASE log' = NoLog /\ at' = "start"
    BY <2>1, <2>2, SameLogs
  <2>3. CASE /\ at' = at
             /\ LogAt(LogIndex) = 0
             /\ log' = [TakeLog(LogIndex) EXCEPT !.index = log.depth]
    BY <2>1, <2>3, PacketLogs
  <2>4. CASE /\ at' = at
             /\ LogAt(LogIndex) # 0
             /\ log' = [TakeLog(LogIndex) EXCEPT !.index = @ + 1, !.dir = TRUE]
    BY <2>1, <2>4, PacketLogs
  <2> QED BY <1>13, <2>2, <2>3, <2>4 DEF copy_packet, Failed
<1>14. CASE end_packet
  BY <1>14, EndPacketLogs
<1>15. CASE end_trigger
  <2>1. UNCHANGED <<aplogs, hole>> /\ log' = NoLog /\ at' = "start"
    BY <1>15 DEF end_trigger, Done, Failed, logcat
  <2> QED BY <2>1, SameLogs
<1>16. CASE Stop \/ UNCHANGED cvars
  <2>1. UNCHANGED <<aplogs, hole, log, at>>
    BY <1>16 DEF Stop, cvars, logcat, daemon
  <2> QED BY <2>1, SameLogs
<1>17. CASE copy_packet_fails
  <2>1. /\ UNCHANGED <<aplogs, hole>> /\ at' = at /\ at = "packet"
        /\ log' = [MissLog EXCEPT !.index = @ + 1, !.dir = TRUE]
    BY <1>17 DEF copy_packet_fails, InPacket, logcat
  <2>2. log \in LogCopy /\ log.index < log.depth
    BY <1>17 DEF copy_packet_fails, InPacket, LogsInv, CopyPlace
  <2>3. log' = [MissLog EXCEPT !.index = MissLog.index + 1, !.dir = TRUE]
    BY <2>1
  <2>4. MissLog \in LogCopy /\ MissLog.cut = TRUE
    BY <2>2, MissedLog
  <2>5. MissLog.index + 1 \in Nat
    BY <2>4 DEF LogCopy
  <2>6. log' \in LogCopy
    BY <2>3, <2>4, <2>5 DEF LogCopy
  <2>7. log'.cut = MissLog.cut
    BY <2>3, <2>4 DEF LogCopy
  <2>8. log' \in LogCopy /\ log'.cut = TRUE
    BY <2>4, <2>6, <2>7
  <2>9. log'.index <= log'.depth
    <3>1. log'.index = log.index + 1 /\ log'.depth = log.depth
      BY <2>2, <2>3, MissedLog DEF LogCopy
    <3>2. log.index \in Nat /\ log.depth \in Nat
      BY <2>2 DEF LogCopy
    <3> QED BY <2>2, <3>1, <3>2
  <2> QED BY <2>1, <2>8, <2>9, MissedLogs
<1> QED
  BY <1>1, <1>2, <1>3, <1>4, <1>5, <1>6, <1>7, <1>8, <1>9, <1>10, <1>11, <1>12,
     <1>13, <1>14, <1>15, <1>16, <1>17 DEF CNext

LEMMA WholeLogs == LogsInv => LogsWhole
<1> USE LogSizes
<1> SUFFICES ASSUME LogsInv, ~log.cut PROVE
        /\ \A i \in 2 .. Len(log.got) : log.got[i] >= log.got[i-1] - 1
        /\ at = "raise" /\ log.index > 0 /\ Len(log.got) < LogLimit =>
              \A i \in DOMAIN aplogs : aplogs[i] # 0 => log.got[Len(log.got)] <= aplogs[i]
  BY DEF LogsWhole
<1>1. \A i \in 2 .. Len(log.got) : log.got[i] >= log.got[i-1] - 1
  BY DEF LogsInv, CopyOrder
<1>2. ASSUME at = "raise", log.index > 0, Len(log.got) < LogLimit,
             NEW i \in DOMAIN aplogs, aplogs[i] # 0
      PROVE  log.got[Len(log.got)] <= aplogs[i]
  <2> DEFINE g == log.got
             x == g[LogFiles]
  <2>1. log \in LogCopy /\ Len(g) \in {LogLimit, LogFiles}
    BY <1>2 DEF LogsInv, CopyPlace
  <2>2. g \in Seq(Nat)
    BY <2>1 DEF LogCopy
  <2>3. Len(g) = LogFiles /\ g # <<>> /\ x \in Nat
    <3>1. Len(g) = LogFiles
      BY <1>2, <2>1
    <3> HIDE DEF g
    <3> QED BY <2>2, <3>1
  <2>4. /\ aplogs \in [0 .. LogFiles - 1 -> Nat] /\ i \in 0 .. LogFiles - 1
        /\ hole \in -1 .. LogFiles - 2 /\ Newest \in Nat
        /\ aplogs[i] = IF i = hole THEN 0
                       ELSE IF Moved(i) THEN Newest - i + 1 ELSE Newest - i
    <3>1. Newest \in Nat
      BY DEF LogsInv, LogsShape, Newest
    <3> QED BY <3>1 DEF LogsInv, LogsShape
  <2>5. x + LogFiles - 1 <= IF Moved(LogFiles - 1) THEN Newest + 1 ELSE Newest
    BY <2>3 DEF LogsInv, CopyOrder
  <2>6. x <= aplogs[i]
    <3> HIDE DEF x, g
    <3>1. CASE hole = -1
      <4>1. x + LogFiles - 1 <= Newest /\ aplogs[i] = Newest - i
        BY <1>2, <2>4, <2>5, <3>1 DEF Moved
      <4> QED BY <2>3, <2>4, <4>1
    <3>2. CASE hole # -1
      <4>1. x + LogFiles - 1 <= Newest + 1
        BY <2>4, <2>5, <3>2 DEF Moved
      <4>2. CASE i < hole
        <5>1. aplogs[i] = Newest - i
          BY <2>4, <3>2, <4>2 DEF Moved
        <5>2. i <= LogFiles - 2
          BY <2>4, <4>2
        <5> QED BY <2>3, <2>4, <4>1, <5>1, <5>2
      <4>3. CASE i > hole
        <5>1. aplogs[i] = Newest - i + 1
          BY <2>4, <3>2, <4>3 DEF Moved
        <5> QED BY <2>3, <2>4, <4>1, <5>1
      <4> QED BY <1>2, <2>4, <4>2, <4>3
    <3> QED BY <3>1, <3>2
  <2> QED BY <2>3, <2>6
<1> QED BY <1>1, <1>2
----------------------------------------------------------------------------
(* The events of a file.                                                    *)
LEMMA FileEventType ==
    ASSUME NEW m \in Masks, NEW f \in Files, NEW n \in Nat \ {0}, NEW c \in Nat
    PROVE  /\ FileEvent(m, f, n, c) \in FileEvents
           /\ FileEvent(m, f, n, c).mask = m /\ FileEvent(m, f, n, c).file = f
           /\ FileEvent(m, f, n, c).name = n /\ FileEvent(m, f, n, c).cookie = c
  BY DEF FileEvent, FileEvents

LEMMA KindOf ==
    ASSUME NEW k \in FileKinds
    PROVE  k # NoKind /\ k.type \in Types /\ k.type # "none" /\ MaskOf(k.type) \in Masks
<1>1. k.type \in Types /\ NoKind.type = "none"
  BY CrashFilesAssumption DEF NoKind
<1>2. k.type # "none"
  BY <1>1 DEF Types, Tombs, Dropbox, Cores, Notes, Triggers
<1> QED BY <1>1, <1>2 DEF MaskOf, Masks

LEMMA NoKindType ==
    NoKind.type = "none" /\ "none" \notin Repeated /\ "none" \notin Renamed
  BY DEF NoKind, Repeated, Triggers, Tombs, Renamed

LEMMA FilesTypedInit == CInit => FilesTyped
<1> SUFFICES ASSUME CInit PROVE FilesTyped
  OBVIOUS
<1>1. <<>> \in Seq(FileEvents)
  OBVIOUS
<1>2. previous \in [cookie : Nat, file : Files \cup {"none"}, name : Nat]
  BY DEF CInit, NoMove
<1> QED BY <1>1, <1>2 DEF CInit, FilesTyped

(* What every event of the daemon keeps: it touches neither kinds nor       *)
(* writers.                                                                 *)
LEMMA DaemonTyped ==
    ASSUME FilesTyped, UNCHANGED <<kind, open, cookie>>,
           disk' \in [Files -> Nat],
           events' \in Seq(FileEvents), batch' \in Seq(FileEvents),
           at' \in {"start", "copy", "logs", "raise", "packet"},
           previous' \in [cookie : Nat, file : Files \cup {"none"}, name : Nat],
           reported' \in [Files -> Nat], at' # "start" => batch' # <<>>
    PROVE  FilesTyped'
  BY DEF FilesTyped

LEMMA RaiseTyped ==
    ASSUME FilesTyped, batch # <<>>, raise_event
    PROVE  /\ reported' \in [Files -> Nat]
           /\ reported'[event.file] = reported[event.file] + 1
           /\ \A f \in Files : f # event.file => reported'[f] = reported[f]
<1>1. event.file \in Files /\ reported \in [Files -> Nat]
  BY EventAtHand DEF FilesTyped
<1> QED BY <1>1 DEF raise_event

LEMMA RemoveTyped ==
    ASSUME FilesTyped, batch # <<>>, remove
    PROVE  /\ disk' \in [Files -> Nat]
           /\ \A f \in Files : f # event.file => disk'[f] = disk[f]
<1>1. event.file \in Files /\ disk \in [Files -> Nat]
  BY EventAtHand DEF FilesTyped
<1> QED BY <1>1 DEF remove

LEMMA TailTyped ==
    ASSUME FilesTyped, batch # <<>>
    PROVE  Tail(batch) \in Seq(FileEvents) /\ <<>> \in Seq(FileEvents)
  BY DEF FilesTyped

LEMMA BeginTyped ==
    ASSUME FilesTyped, batch # <<>>, NEW needed, Begin(needed)
    PROVE  FilesTyped'
<1>1. UNCHANGED <<kind, open, cookie, disk, events, previous>>
  BY DEF Begin, writers
<1>2. CASE UNCHANGED <<batch, reported>> /\ at' = "copy"
  BY <1>1, <1>2, DaemonTyped DEF FilesTyped
<1>3. CASE batch' = <<>> /\ at' = "start" /\ raise_event
  BY <1>1, <1>3, TailTyped, RaiseTyped, DaemonTyped DEF FilesTyped
<1> QED BY <1>2, <1>3 DEF Begin, Go, Failed

LEMMA AppearTyped ==
    ASSUME FilesTyped, NEW f \in Files, NEW k \in FileKinds, Appear(f, k)
    PROVE  FilesTyped'
<1>1. /\ kind[f] = NoKind
      /\ kind' = [kind EXCEPT ![f] = k] /\ disk' = [disk EXCEPT ![f] = 1]
      /\ cookie' = (IF k.type \in Renamed THEN cookie + 1 ELSE cookie)
      /\ open' = (IF k.type \in Repeated THEN open \cup {f} ELSE open)
      /\ events' = Append(events, FileEvent(MaskOf(k.type), f, 1,
                                            IF k.type \in Renamed THEN cookie' ELSE 0))
      /\ UNCHANGED <<batch, at, previous, reported>>
  BY DEF Appear, daemon, results, Repeated
<1>2. kind' \in [Files -> FileKinds \cup {NoKind}] /\ disk' \in [Files -> Nat]
  BY <1>1 DEF FilesTyped
<1>3. cookie' \in Nat /\ (IF k.type \in Renamed THEN cookie' ELSE 0) \in Nat
  BY <1>1 DEF FilesTyped
<1>4. events' \in Seq(FileEvents)
  <2>1. FileEvent(MaskOf(k.type), f, 1, IF k.type \in Renamed THEN cookie' ELSE 0)
           \in FileEvents
    BY <1>3, KindOf, FileEventType
  <2> QED BY <1>1, <2>1 DEF FilesTyped
<1>5. /\ open' \subseteq Files /\ \A g \in open' : kind'[g].type \in Repeated
  <2>1. f \notin open
    BY <1>1, NoKindType DEF FilesTyped
  <2>2. kind'[f] = k /\ \A g \in Files : g # f => kind'[g] = kind[g]
    BY <1>1 DEF FilesTyped
  <2> QED BY <1>1, <2>1, <2>2 DEF FilesTyped
<1> QED BY <1>1, <1>2, <1>3, <1>4, <1>5 DEF FilesTyped

LEMMA WriterTyped ==
    ASSUME FilesTyped, NEW f \in Files, Close(f) \/ Rename(f) \/ Leave(f)
    PROVE  FilesTyped'
<1>0. /\ disk \in [Files -> Nat] /\ cookie \in Nat /\ events \in Seq(FileEvents)
      /\ disk[f] \in Nat /\ cookie + 1 \in Nat
  BY DEF FilesTyped
<1>m. {"close_write", "moved_from", "moved_to"} \subseteq Masks
  BY DEF Masks
<1>1. CASE Close(f)
  <2>1. FileEvent("close_write", f, 1, 0) \in FileEvents
    BY <1>m, FileEventType
  <2>2. events' \in Seq(FileEvents)
    BY <1>0, <1>1, <2>1 DEF Close
  <2> QED BY <1>1, <2>2 DEF Close, FilesTyped, daemon, results
<1>2. CASE Rename(f)
  <2>1. disk[f] \in Nat \ {0} /\ cookie' = cookie + 1 /\ disk'[f] = disk[f] + 1
        /\ disk' \in [Files -> Nat]
    BY <1>0, <1>2 DEF Rename
  <2>2. /\ FileEvent("moved_from", f, disk[f], cookie') \in FileEvents
        /\ FileEvent("moved_to", f, disk'[f], cookie') \in FileEvents
    BY <1>0, <1>m, <2>1, FileEventType
  <2>3. events' \in Seq(FileEvents)
    BY <1>0, <1>2, <2>2 DEF Rename
  <2> QED BY <1>0, <1>2, <2>1, <2>3 DEF Rename, FilesTyped, daemon, results
<1>3. CASE Leave(f)
  <2>1. disk[f] \in Nat \ {0} /\ disk' \in [Files -> Nat]
    BY <1>0, <1>3 DEF Leave
  <2>2. cookie' \in Nat /\ events' \in Seq(FileEvents)
    <3>1. CASE UNCHANGED <<cookie, events>>
      BY <1>0, <3>1
    <3>2. CASE /\ cookie' = cookie + 1
               /\ events' = Append(events, FileEvent("moved_from", f, disk[f], cookie'))
      <4>1. FileEvent("moved_from", f, disk[f], cookie') \in FileEvents
        BY <1>0, <1>m, <2>1, <3>2, FileEventType
      <4> QED BY <1>0, <3>2, <4>1
    <3> QED BY <1>3, <3>1, <3>2 DEF Leave
  <2> QED BY <1>3, <2>1, <2>2 DEF Leave, FilesTyped, daemon, results
<1> QED BY <1>1, <1>2, <1>3

LEMMA ReadTyped == ASSUME FilesTyped, Read PROVE FilesTyped'
<1>1. PICK n \in 1 .. Len(events) :
         batch' = SubSeq(events, 1, n) /\ events' = SubSeq(events, n + 1, Len(events))
  BY DEF Read
<1>2. batch' \in Seq(FileEvents) /\ events' \in Seq(FileEvents)
  BY <1>1 DEF FilesTyped
<1> QED BY <1>2 DEF Read, FilesTyped, results

LEMMA FilesTypedNext == ASSUME FilesTyped, [CNext]_cvars PROVE FilesTyped'
<1>0. /\ disk \in [Files -> Nat] /\ events \in Seq(FileEvents) /\ batch \in Seq(FileEvents)
      /\ previous \in [cookie : Nat, file : Files \cup {"none"}, name : Nat]
      /\ reported \in [Files -> Nat] /\ <<>> \in Seq(FileEvents)
      /\ at \in {"start", "copy", "logs", "raise", "packet"}
      /\ NoMove \in [cookie : Nat, file : Files \cup {"none"}, name : Nat]
  BY DEF FilesTyped, NoMove
<1>1. ASSUME NEW f \in Files, NEW k \in FileKinds, Appear(f, k) PROVE FilesTyped'
  BY <1>1, AppearTyped
<1>2. ASSUME NEW f \in Files, Close(f) \/ Rename(f) \/ Leave(f) PROVE FilesTyped'
  BY <1>2, WriterTyped
<1>3. CASE Rotate
  BY <1>3 DEF Rotate, writers, daemon, results, FilesTyped
<1>4. CASE Read
  BY <1>4, ReadTyped
<1>5. CASE manage_duplicate_dropbox_events
  <2>1. /\ batch # <<>> /\ UNCHANGED <<kind, disk, open, cookie, events, reported>>
        /\ batch' = Tail(batch) /\ at' = "start"
    BY <1>5 DEF manage_duplicate_dropbox_events, Handling, Done, writers
  <2>2. previous' \in [cookie : Nat, file : Files \cup {"none"}, name : Nat]
    <3>1. event \in FileEvents
      BY <2>1, EventAtHand
    <3>2. [cookie |-> event.cookie, file |-> event.file, name |-> event.name]
             \in [cookie : Nat, file : Files \cup {"none"}, name : Nat]
      BY <3>1 DEF FileEvents
    <3> QED BY <1>0, <1>5, <3>2 DEF manage_duplicate_dropbox_events
  <2> QED BY <1>0, <2>1, <2>2, TailTyped, DaemonTyped
<1>6. CASE ignore_pb_file
  <2>1. /\ batch # <<>>
        /\ UNCHANGED <<kind, disk, open, cookie, events, previous, reported>>
        /\ batch' = Tail(batch) /\ at' = "start"
    BY <1>6 DEF ignore_pb_file, Handling, Done, writers, results
  <2> QED BY <1>0, <2>1, TailTyped, DaemonTyped
<1>7. CASE core_dump_disabled
  <2>1. /\ UNCHANGED <<kind, disk, open, cookie, events, previous, reported>>
        /\ batch' = <<>> /\ at' = "start"
    BY <1>7 DEF core_dump_disabled, Failed, writers
  <2> QED BY <1>0, <2>1, DaemonTyped
<1>8. CASE process_usercrash_event \/ process_hprof_event \/ process_apcore_event
  BY <1>8, BeginTyped
     DEF process_usercrash_event, process_hprof_event, process_apcore_event, Handling
<1>9. CASE process_lost_event \/ process_info_and_error \/ process_stat_event
  BY <1>9, BeginTyped
     DEF process_lost_event, process_info_and_error, process_stat_event, Handling
<1>10. CASE do_copy_tail \/ do_copy \/ copy_and_remove \/ backup_apcoredump
  <2>1. /\ batch # <<>>
        /\ UNCHANGED <<kind, open, cookie, events, batch, previous, reported>>
        /\ at' \in {"logs", "raise"}
    BY <1>10 DEF do_copy_tail, do_copy, copy_and_remove, backup_apcoredump, Handling, Go,
                 writers
  <2>2. disk' = disk \/ remove
    BY <1>10 DEF do_copy_tail, do_copy, copy_and_remove, backup_apcoredump, writers
  <2>3. disk' \in [Files -> Nat]
    BY <1>0, <2>1, <2>2, RemoveTyped
  <2> QED BY <1>0, <2>1, <2>3, DaemonTyped
<1>11. CASE do_copy_circular \/ read_trigger
  <2>1. /\ UNCHANGED <<kind, disk, open, cookie, events, batch, previous, reported>>
        /\ at' \in {at, "raise", "packet"} /\ batch # <<>>
    BY <1>11 DEF do_copy_circular, read_trigger, Handling, Go, writers, results, FilesTyped
  <2> QED BY <1>0, <2>1, DaemonTyped
<1>12. CASE Raise \/ end_packet
  <2>1. /\ UNCHANGED <<kind, disk, open, cookie, events, previous>> /\ at # "start"
        /\ \/ batch' = Tail(batch) /\ at' = "start"
           \/ batch' = batch /\ at' = at
        /\ raise_event \/ reported' = reported
    BY <1>12 DEF Raise, end_packet, Done, writers
  <2>2. batch # <<>>
    BY <2>1 DEF FilesTyped
  <2>3. reported' \in [Files -> Nat]
    BY <1>0, <2>1, <2>2, RaiseTyped
  <2>4. batch' \in Seq(FileEvents)
    BY <1>0, <2>1, <2>2, TailTyped
  <2> QED BY <1>0, <2>1, <2>2, <2>3, <2>4, DaemonTyped
<1>13. CASE copy_packet
  <2>1. /\ UNCHANGED <<kind, disk, open, cookie, events, previous, reported>>
        /\ \/ batch' = <<>> /\ at' = "start"
           \/ batch' = batch /\ at' = at
    BY <1>13 DEF copy_packet, Failed, writers
  <2>2. at' # "start" => batch' # <<>>
    BY <2>1 DEF FilesTyped
  <2>3. batch' \in Seq(FileEvents) /\ at' \in {"start", "copy", "logs", "raise", "packet"}
    BY <1>0, <2>1
  <2> QED BY <1>0, <2>1, <2>2, <2>3, DaemonTyped
<1>14. CASE end_trigger
  <2>1. /\ UNCHANGED <<kind, open, cookie, events, previous>> /\ at = "packet"
        /\ batch' \in {<<>>, Tail(batch)} /\ at' = "start"
        /\ raise_event \/ reported' = reported
        /\ remove \/ disk' = disk
    BY <1>14 DEF end_trigger, Failed, Done
  <2>2. batch # <<>>
    BY <2>1 DEF FilesTyped
  <2>3. reported' \in [Files -> Nat] /\ disk' \in [Files -> Nat]
    BY <1>0, <2>1, <2>2, RaiseTyped, RemoveTyped
  <2>4. batch' \in Seq(FileEvents)
    BY <1>0, <2>1, <2>2, TailTyped
  <2> QED BY <1>0, <2>1, <2>3, <2>4, DaemonTyped
<1>15. CASE Kill
  <2>1. /\ UNCHANGED <<kind, disk, open, cookie, reported>> /\ previous' = NoMove
        /\ events' = <<>> /\ batch' = <<>> /\ at' = "start"
    BY <1>15 DEF Kill
  <2> QED BY <1>0, <2>1, DaemonTyped
<1>16. CASE Stop \/ UNCHANGED cvars
  BY <1>16 DEF Stop, cvars, writers, daemon, results, FilesTyped
<1>17. CASE copy_packet_fails
  <2>1. /\ UNCHANGED <<kind, disk, open, cookie, events, batch, previous, reported>>
        /\ at' = at
    BY <1>17 DEF copy_packet_fails, writers, results
  <2> QED BY <2>1 DEF FilesTyped
<1> QED
  BY <1>1, <1>2, <1>3, <1>4, <1>5, <1>6, <1>7, <1>8, <1>9, <1>10, <1>11, <1>12,
     <1>13, <1>14, <1>15, <1>16, <1>17 DEF CNext
----------------------------------------------------------------------------
(* What the steps make of the stream.                                       *)
LEMMA StreamType ==
    ASSUME FilesTyped
    PROVE  /\ Stream \in Seq(FileEvents) /\ Len(Stream) \in Nat
           /\ Len(batch) \in Nat /\ Len(events) \in Nat
           /\ Len(Stream) = Len(batch) + Len(events)
           /\ \A i \in 1 .. Len(batch) : Stream[i] = batch[i]
           /\ \A i \in 1 .. Len(events) : Stream[Len(batch) + i] = events[i]
           /\ \A i \in 1 .. Len(Stream) : Stream[i] \in FileEvents
           /\ batch # <<>> => 1 \in 1 .. Len(Stream) /\ event = Stream[1]
<1>1. batch \in Seq(FileEvents) /\ events \in Seq(FileEvents)
  BY DEF FilesTyped
<1>2. /\ Stream \in Seq(FileEvents) /\ Len(Stream) \in Nat
      /\ Len(batch) \in Nat /\ Len(events) \in Nat
      /\ Len(Stream) = Len(batch) + Len(events)
      /\ \A i \in 1 .. Len(batch) : Stream[i] = batch[i]
      /\ \A i \in 1 .. Len(events) : Stream[Len(batch) + i] = events[i]
  BY <1>1 DEF Stream
<1>3. \A i \in 1 .. Len(Stream) : Stream[i] \in FileEvents
  BY <1>2
<1>4. batch # <<>> => 1 \in 1 .. Len(Stream) /\ event = Stream[1]
  <2> HAVE batch # <<>>
  <2>1. event = batch[1] /\ 1 <= Len(batch)
    BY EventAtHand
  <2> QED BY <1>2, <2>1
<1> QED BY <1>2, <1>3, <1>4

(* n events have left the stream.                                           *)
Shifted(n) ==
    /\ n \in 0 .. Len(Stream) /\ Len(Stream') = Len(Stream) - n
    /\ \A i \in 1 .. Len(Stream') : n + i \in 1 .. Len(Stream) /\ Stream'[i] = Stream[n + i]

LEMMA StreamSame ==
    ASSUME FilesTyped, UNCHANGED <<batch, events>>
    PROVE  Stream' = Stream /\ Shifted(0)
<1>1. Stream' = Stream
  BY DEF Stream
<1> QED BY <1>1, StreamType DEF Shifted

LEMMA StreamRead == ASSUME FilesTyped, Read PROVE Stream' = Stream /\ Shifted(0)
<1>1. PICK n \in 1 .. Len(events) :
         batch' = SubSeq(events, 1, n) /\ events' = SubSeq(events, n + 1, Len(events))
  BY DEF Read
<1>2. batch = <<>> /\ events \in Seq(FileEvents)
  BY DEF Read, FilesTyped
<1>3. Stream = events
  BY <1>2 DEF Stream
<1>4. batch' \o events' = events
  BY <1>1, <1>2
<1>5. Stream' = Stream
  BY <1>3, <1>4 DEF Stream
<1> QED BY <1>5, StreamType DEF Shifted

LEMMA StreamDone ==
    ASSUME FilesTyped, FilesTyped', batch # <<>>, batch' = Tail(batch), events' = events
    PROVE  Shifted(1)
<1>1. batch \in Seq(FileEvents) /\ batch' \in Seq(FileEvents)
  BY DEF FilesTyped
<1>2. /\ Len(batch') = Len(batch) - 1
      /\ \A i \in 1 .. Len(batch') : batch'[i] = batch[i + 1]
  BY <1>1
<1>3. /\ Len(Stream') = Len(batch') + Len(events)
      /\ \A i \in 1 .. Len(batch') : Stream'[i] = batch'[i]
      /\ \A i \in 1 .. Len(events) : Stream'[Len(batch') + i] = events[i]
  BY <1>1 DEF Stream, FilesTyped
<1>4. /\ Len(batch) \in Nat /\ 1 <= Len(batch) /\ Len(events) \in Nat
      /\ Len(Stream) = Len(batch) + Len(events)
      /\ \A i \in 1 .. Len(batch) : Stream[i] = batch[i]
      /\ \A i \in 1 .. Len(events) : Stream[Len(batch) + i] = events[i]
  BY StreamType, EventAtHand
<1>5. Len(Stream') = Len(Stream) - 1 /\ 1 \in 0 .. Len(Stream)
  BY <1>2, <1>3, <1>4
<1>6. ASSUME NEW i \in 1 .. Len(Stream')
      PROVE  1 + i \in 1 .. Len(Stream) /\ Stream'[i] = Stream[1 + i]
  <2>1. 1 + i \in 1 .. Len(Stream) /\ i \in Nat /\ 1 + i = i + 1
    BY <1>4, <1>5
  <2>2. CASE i <= Len(batch')
    <3>1. i \in 1 .. Len(batch') /\ i + 1 \in 1 .. Len(batch)
      BY <1>2, <1>4, <2>2
    <3> QED BY <1>2, <1>3, <1>4, <2>1, <3>1
  <2>3. CASE ~(i <= Len(batch'))
    <3>1. /\ i - Len(batch') \in 1 .. Len(events)
          /\ Len(batch') + (i - Len(batch')) = i
          /\ Len(batch) + (i - Len(batch')) = i + 1
      BY <1>2, <1>3, <1>4, <2>3
    <3> DEFINE k == i - Len(batch')
    <3>2. Stream'[Len(batch') + k] = events[k] /\ Stream[Len(batch) + k] = events[k]
      BY <1>3, <1>4, <3>1
    <3> QED BY <2>1, <3>1, <3>2
  <2> QED BY <2>2, <2>3
<1> QED BY <1>5, <1>6 DEF Shifted

LEMMA StreamDrop ==
    ASSUME FilesTyped, FilesTyped', batch' = <<>>, events' = events
    PROVE  Shifted(Len(batch))
<1>1. Stream' = events
  BY DEF Stream, FilesTyped
<1>2. /\ Len(batch) \in Nat /\ Len(events) \in Nat
      /\ Len(Stream) = Len(batch) + Len(events)
      /\ \A i \in 1 .. Len(events) : Stream[Len(batch) + i] = events[i]
  BY StreamType
<1>3. \A i \in 1 .. Len(Stream') :
         Len(batch) + i \in 1 .. Len(Stream) /\ Stream'[i] = Stream[Len(batch) + i]
  BY <1>1, <1>2
<1> QED BY <1>1, <1>2, <1>3 DEF Shifted

(* Events are added at its end.                                             *)
LEMMA StreamGrows ==
    ASSUME FilesTyped, NEW t \in Seq(FileEvents), events' = events \o t, batch' = batch
    PROVE  /\ Len(Stream') = Len(Stream) + Len(t) /\ Len(t) \in Nat
           /\ \A i \in 1 .. Len(Stream) : Stream'[i] = Stream[i]
           /\ \A i \in 1 .. Len(t) : Stream'[Len(Stream) + i] = t[i]
           /\ \A i \in 1 .. Len(Stream') :
                 i \in 1 .. Len(Stream)
                 \/ (i - Len(Stream) \in 1 .. Len(t) /\ Stream'[i] = t[i - Len(Stream)])
<1>1. batch \in Seq(FileEvents) /\ events \in Seq(FileEvents)
  BY DEF FilesTyped
<1>2. Stream' = Stream \o t
  <2>1. (batch \o events) \o t = batch \o (events \o t)
    BY <1>1, ConcatAssociative, SMTT(20)
  <2> QED BY <2>1 DEF Stream
<1>3. Stream \in Seq(FileEvents) /\ Len(Stream) \in Nat
  BY StreamType
<1>4. /\ Len(Stream') = Len(Stream) + Len(t) /\ Len(t) \in Nat
      /\ \A i \in 1 .. Len(Stream) : Stream'[i] = Stream[i]
      /\ \A i \in 1 .. Len(t) : Stream'[Len(Stream) + i] = t[i]
  BY <1>2, <1>3
<1>5. \A i \in 1 .. Len(Stream') :
         i \in 1 .. Len(Stream)
         \/ (i - Len(Stream) \in 1 .. Len(t) /\ Stream'[i] = t[i - Len(Stream)])
  <2> SUFFICES ASSUME NEW i \in 1 .. Len(Stream'), i \notin 1 .. Len(Stream)
               PROVE  i - Len(Stream) \in 1 .. Len(t) /\ Stream'[i] = t[i - Len(Stream)]
    OBVIOUS
  <2>1. i - Len(Stream) \in 1 .. Len(t) /\ Len(Stream) + (i - Len(Stream)) = i
    BY <1>3, <1>4
  <2> QED BY <1>4, <2>1
<1> QED BY <1>4, <1>5
----------------------------------------------------------------------------
(* Reported once.  Writers add events: with new cookies, halves of a rename *)
(* together, and the first event of a file only when it appears.            *)
NewEvents(t) ==
    /\ \A i \in 1 .. Len(t) :
          /\ kind'[t[i].file] # NoKind
          /\ t[i].cookie <= cookie'
          /\ t[i].mask \in {"moved_from", "moved_to"} => cookie < t[i].cookie
          /\ t[i].mask \in {"moved_from", "moved_to"} <=> kind'[t[i].file].type \in Renamed
          /\ kind'[t[i].file].type \notin Renamed => t[i].name = 1
          /\ Second(t[i]) => i > 1 /\ t[i-1].mask = "moved_from"
    /\ \A i, j \in 1 .. Len(t) :
          t[i].mask = "moved_from" /\ t[j].mask = "moved_to"
             => Halves(t[i].cookie, t[i].file, t[i].name, t[j])
    /\ \A i \in 1 .. Len(t) : Fresh(t[i]) /\ kind'[t[i].file].type \notin Repeated =>
          Len(t) = 1 /\ kind[t[i].file] = NoKind

LEMMA GrowOnce ==
    ASSUME FilesTyped, OnceInv, NEW t \in Seq(FileEvents), NewEvents(t),
           events' = events \o t,
           UNCHANGED <<batch, at, previous, reported, infos, given_up>>,
           cookie' \in Nat, cookie <= cookie',
           \A g \in Files : kind[g] # NoKind => kind'[g] = kind[g]
    PROVE  OnceInv'
<1> DEFINE s == Stream
           u == Stream'
           n == Len(Stream)
<1>1. /\ n \in Nat /\ Len(u) = n + Len(t) /\ Len(t) \in Nat
      /\ \A i \in 1 .. n : u[i] = s[i]
      /\ \A i \in 1 .. Len(u) :
            i \in 1 .. n \/ (i - n \in 1 .. Len(t) /\ u[i] = t[i - n])
      /\ \A i \in 1 .. n : s[i] \in FileEvents /\ s[i].file \in Files /\ s[i].cookie \in Nat
      /\ \A i \in 1 .. Len(t) : t[i] \in FileEvents /\ t[i].file \in Files
                                /\ t[i].cookie \in Nat /\ t[i].name \in Nat
  <2>1. \A e \in FileEvents : e.file \in Files /\ e.cookie \in Nat /\ e.name \in Nat
    BY DEF FileEvents
  <2>2. \A i \in 1 .. Len(t) : t[i] \in FileEvents
    OBVIOUS
  <2> QED BY <2>1, <2>2, StreamType, StreamGrows
<1>2. /\ cookie \in Nat /\ previous.cookie \in Nat
  BY DEF FilesTyped
<1>o. /\ EventsOK(s) /\ CookiesOK(s) /\ RenamesOK(s) /\ FreshOnce(s) /\ ReportsOK(s)
      /\ BegunOK /\ InfosOK
  BY DEF OnceInv
<1>k. \A i \in 1 .. n : kind[s[i].file] # NoKind /\ kind'[s[i].file] = kind[s[i].file]
  BY <1>1, <1>o DEF EventsOK
<1>s. \A i \in 1 .. n : u[i] = s[i] /\ s[i].cookie <= cookie /\ s[i].cookie <= cookie'
  <2>1. \A i \in 1 .. n : s[i].cookie <= cookie
    BY <1>o DEF EventsOK
  <2> HIDE DEF s, u, n
  <2> QED BY <1>1, <1>2, <2>1
<1> HIDE DEF s, u, n
<1>3. EventsOK(Stream)'
  <2> SUFFICES ASSUME NEW i \in 1 .. Len(u)
               PROVE  /\ kind'[u[i].file] # NoKind
                      /\ u[i].cookie <= cookie'
                      /\ u[i].mask = "moved_to" => u[i].cookie # 0
                      /\ u[i].mask \in {"moved_from", "moved_to"}
                            <=> kind'[u[i].file].type \in Renamed
                      /\ kind'[u[i].file].type \notin Renamed => u[i].name = 1
    BY DEF EventsOK, u
  <2>1. CASE i \in 1 .. n
    <3>1. /\ kind[s[i].file] # NoKind
          /\ s[i].mask = "moved_to" => s[i].cookie # 0
          /\ s[i].mask \in {"moved_from", "moved_to"} <=> kind[s[i].file].type \in Renamed
          /\ kind[s[i].file].type \notin Renamed => s[i].name = 1
      BY <1>o, <2>1 DEF EventsOK, s, n
    <3> QED BY <1>k, <1>s, <2>1, <3>1
  <2>2. CASE i - n \in 1 .. Len(t) /\ u[i] = t[i - n]
    <3> DEFINE e == t[i - n]
    <3>1. /\ kind'[e.file] # NoKind /\ e.cookie <= cookie'
          /\ e.mask \in {"moved_from", "moved_to"} => cookie < e.cookie
          /\ e.mask \in {"moved_from", "moved_to"} <=> kind'[e.file].type \in Renamed
          /\ kind'[e.file].type \notin Renamed => e.name = 1
      BY <2>2 DEF NewEvents
    <3>2. e.cookie \in Nat
      BY <1>1, <2>2
    <3> HIDE DEF e
    <3>3. e.mask = "moved_to" => e.cookie # 0
      BY <1>2, <3>1, <3>2
    <3> QED BY <2>2, <3>1, <3>3 DEF e
  <2> QED BY <1>1, <2>1, <2>2
<1>4. CookiesOK(Stream)'
  <2>1. ASSUME NEW i \in 1 .. Len(u), NEW j \in 1 .. Len(u),
               u[i].mask = "moved_from", u[j].mask = "moved_to", u[i].cookie = u[j].cookie
        PROVE  Halves(u[i].cookie, u[i].file, u[i].name, u[j])
    <3>1. CASE i \in 1 .. n /\ j \in 1 .. n
      BY <1>o, <1>s, <2>1, <3>1 DEF CookiesOK, s, n
    <3>2. CASE i \in 1 .. n /\ j - n \in 1 .. Len(t) /\ u[j] = t[j - n]
      <4>1. cookie < u[j].cookie /\ u[i].cookie <= cookie
        <5>1. t[j - n].mask = "moved_to"
          BY <2>1, <3>2
        <5>2. cookie < t[j - n].cookie
          BY <3>2, <5>1 DEF NewEvents
        <5> QED BY <1>s, <3>2, <5>2
      <4>2. u[j].cookie \in Nat
        BY <1>1, <3>2
      <4> QED BY <1>2, <2>1, <4>1, <4>2
    <3>3. CASE j \in 1 .. n /\ i - n \in 1 .. Len(t) /\ u[i] = t[i - n]
      <4>1. cookie < u[i].cookie /\ u[j].cookie <= cookie
        <5>1. t[i - n].mask = "moved_from"
          BY <2>1, <3>3
        <5>2. cookie < t[i - n].cookie
          BY <3>3, <5>1 DEF NewEvents
        <5> QED BY <1>s, <3>3, <5>2
      <4>2. u[i].cookie \in Nat
        BY <1>1, <3>3
      <4> QED BY <1>2, <2>1, <4>1, <4>2
    <3>4. CASE /\ i - n \in 1 .. Len(t) /\ u[i] = t[i - n]
               /\ j - n \in 1 .. Len(t) /\ u[j] = t[j - n]
      BY <2>1, <3>4 DEF NewEvents
    <3> QED BY <1>1, <3>1, <3>2, <3>3, <3>4
  <2>2. ASSUME NEW j \in 1 .. Len(u), u[j].mask = "moved_to",
               u[j].cookie = previous.cookie
        PROVE  Remembered(u[j])
    <3>1. CASE j \in 1 .. n
      BY <1>o, <1>s, <2>2, <3>1 DEF CookiesOK, s, n
    <3>2. CASE j - n \in 1 .. Len(t) /\ u[j] = t[j - n]
      <4>1. cookie < u[j].cookie /\ previous.cookie <= cookie
        BY <1>o, <2>2, <3>2 DEF NewEvents, CookiesOK
      <4> QED BY <1>2, <2>2, <4>1
    <3> QED BY <1>1, <3>1, <3>2
  <2>3. previous.cookie <= cookie' /\ (previous.cookie # 0 => previous.name # 0)
    BY <1>2, <1>o DEF CookiesOK
  <2>4. \A e : Remembered(e)' = Remembered(e)
    BY DEF Remembered, Halves
  <2> QED BY <2>1, <2>2, <2>3, <2>4 DEF CookiesOK, Remembered, Halves, u
<1>5. RenamesOK(Stream)'
  <2> SUFFICES ASSUME NEW i \in 1 .. Len(u), Second(u[i])
               PROVE  \/ FirstLost(u[i].file)
                      \/ i = 1 /\ Remembered(u[i])
                      \/ i > 1 /\ u[i-1].mask = "moved_from"
                         /\ Halves(u[i-1].cookie, u[i-1].file, u[i-1].name, u[i])
    BY DEF RenamesOK, FollowsFirst, Second, FirstLost, Remembered, Halves, u
  <2>1. CASE i \in 1 .. n
    <3>1. FollowsFirst(s, i)
      BY <1>o, <1>s, <2>1 DEF RenamesOK, s, n
    <3>2. i > 1 => i - 1 \in 1 .. n
      BY <1>1, <2>1
    <3> QED BY <1>s, <2>1, <3>1, <3>2 DEF FollowsFirst
  <2>2. CASE i - n \in 1 .. Len(t) /\ u[i] = t[i - n]
    <3> DEFINE k == i - n
    <3>1. k > 1 /\ t[k-1].mask = "moved_from" /\ k \in 1 .. Len(t)
      BY <2>2 DEF NewEvents
    <3>2. /\ k - 1 \in 1 .. Len(t) /\ k - 1 = (i - 1) - n /\ i > 1
          /\ i - 1 \in 1 .. Len(u) /\ i - 1 \notin 1 .. n
      <4>1. /\ n \in Nat /\ Len(u) = n + Len(t) /\ Len(t) \in Nat
            /\ i \in Int /\ 1 <= i /\ i <= Len(u)
        BY <1>1
      <4>2. k > 1 /\ k <= Len(t)
        BY <3>1
      <4> QED BY <4>1, <4>2
    <3>3. u[i-1] = t[k-1]
      <4>1. u[i-1] = t[(i - 1) - n]
        BY <1>1, <3>2
      <4> QED BY <3>2, <4>1
    <3>4. Halves(t[k-1].cookie, t[k-1].file, t[k-1].name, t[k])
      BY <2>2, <3>1, <3>2 DEF NewEvents, Second
    <3> QED BY <2>2, <3>1, <3>2, <3>3, <3>4
  <2> QED BY <1>1, <2>1, <2>2
<1>6. FreshOnce(Stream)'
  <2> SUFFICES ASSUME NEW i \in 1 .. Len(u), NEW j \in 1 .. Len(u),
                      Fresh(u[i]), Fresh(u[j]), u[i].file = u[j].file,
                      kind'[u[i].file].type \notin Repeated
               PROVE  i = j
    BY DEF FreshOnce, Fresh, u
  <2>1. CASE i \in 1 .. n /\ j \in 1 .. n
    <3>1. kind[s[i].file].type \notin Repeated
      BY <1>k, <1>s, <2>1
    <3> QED BY <1>o, <1>s, <2>1, <3>1 DEF FreshOnce, s, n
  <2>2. CASE i \in 1 .. n /\ j - n \in 1 .. Len(t) /\ u[j] = t[j - n]
    <3>1. kind[u[j].file] = NoKind
      BY <2>2 DEF NewEvents
    <3> QED BY <1>k, <1>s, <2>2, <3>1
  <2>3. CASE j \in 1 .. n /\ i - n \in 1 .. Len(t) /\ u[i] = t[i - n]
    <3>1. kind[u[i].file] = NoKind
      BY <2>3 DEF NewEvents
    <3> QED BY <1>k, <1>s, <2>3, <3>1
  <2>4. CASE /\ i - n \in 1 .. Len(t) /\ u[i] = t[i - n]
             /\ j - n \in 1 .. Len(t) /\ u[j] = t[j - n]
    <3>1. Len(t) = 1
      BY <2>4 DEF NewEvents
    <3> QED BY <1>1, <2>4, <3>1
  <2> QED BY <1>1, <2>1, <2>2, <2>3, <2>4
<1>7. ReportsOK(Stream)'
  <2>1. ASSUME NEW f \in Files, kind'[f] = NoKind PROVE reported'[f] = 0
    BY <1>o, <2>1 DEF ReportsOK
  <2>2. ASSUME NEW f \in Files, kind'[f].type \notin Repeated, ~FirstLost(f)
        PROVE  /\ reported[f] <= 1
               /\ reported[f] # 0 => \A i \in 1 .. Len(u) : u[i].file = f => ~Fresh(u[i])
    <3>1. CASE kind[f] = NoKind
      <4>1. reported[f] = 0
        BY <1>o, <3>1 DEF ReportsOK
      <4> QED BY <4>1
    <3>2. CASE kind[f] # NoKind
      <4>1. /\ reported[f] <= 1
            /\ reported[f] # 0 => \A i \in 1 .. n : s[i].file = f => ~Fresh(s[i])
        BY <1>o, <2>2, <3>2 DEF ReportsOK, s, n
      <4>2. ASSUME NEW i \in 1 .. Len(u), u[i].file = f, reported[f] # 0 PROVE ~Fresh(u[i])
        <5>1. CASE i \in 1 .. n
          BY <1>s, <4>1, <4>2, <5>1
        <5>2. CASE i - n \in 1 .. Len(t) /\ u[i] = t[i - n]
          BY <2>2, <3>2, <4>2, <5>2 DEF NewEvents
        <5> QED BY <1>1, <5>1, <5>2
      <4> QED BY <4>1, <4>2
    <3> QED BY <3>1, <3>2
  <2> QED BY <2>1, <2>2 DEF ReportsOK, Fresh, FirstLost, u
<1>8. BegunOK'
  <2> SUFFICES ASSUME at # "start"
               PROVE  /\ at = "packet" <=> kind'[event.file].type \in Triggers
                      /\ kind'[event.file].type \notin Triggers =>
                            event.mask # "moved_from"
                            /\ (event.name = 1 \/ FirstLost(event.file))
    BY DEF BegunOK, type, event, FirstLost
  <2>1. batch # <<>>
    BY DEF FilesTyped
  <2>2. 1 \in 1 .. n /\ event = s[1]
    BY <2>1, StreamType DEF s, n
  <2>3. kind'[event.file] = kind[event.file]
    BY <1>k, <2>2
  <2> QED BY <1>o, <2>3 DEF BegunOK, type
<1>9. InfosOK'
  BY <1>o DEF InfosOK
<1> QED BY <1>3, <1>4, <1>5, <1>6, <1>7, <1>8, <1>9 DEF OnceInv

LEMMA OneEvent ==
    ASSUME NEW e \in FileEvents
    PROVE  <<e>> \in Seq(FileEvents) /\ Len(<<e>>) = 1 /\ <<e>>[1] = e
           /\ \A i \in 1 .. Len(<<e>>) : i = 1
  OBVIOUS

LEMMA AppearOnce ==
    ASSUME FilesTyped, OnceInv, NEW f \in Files, NEW k \in FileKinds, Appear(f, k)
    PROVE  OnceInv'
<1> DEFINE c == IF k.type \in Renamed THEN cookie' ELSE 0
           e == FileEvent(MaskOf(k.type), f, 1, c)
<1>1. /\ kind[f] = NoKind /\ kind' = [kind EXCEPT ![f] = k]
      /\ cookie' = (IF k.type \in Renamed THEN cookie + 1 ELSE cookie)
      /\ events' = Append(events, e)
      /\ UNCHANGED <<batch, at, previous, reported, infos, given_up>>
  BY DEF Appear, daemon, results
<1>2. cookie \in Nat /\ cookie' \in Nat /\ cookie <= cookie' /\ c \in Nat /\ c <= cookie'
      /\ (k.type \in Renamed => cookie < c)
  BY <1>1 DEF FilesTyped
<1>3. /\ e \in FileEvents /\ e.mask = MaskOf(k.type) /\ e.file = f /\ e.name = 1
      /\ e.cookie = c
  BY <1>2, KindOf, FileEventType
<1>4. kind'[f] = k /\ k # NoKind /\ \A g \in Files : kind[g] # NoKind => kind'[g] = kind[g]
  BY <1>1, KindOf DEF FilesTyped
<1>5. events' = events \o <<e>>
  BY <1>1, <1>3 DEF FilesTyped
<1>6. e.mask \in {"moved_from", "moved_to"} <=> k.type \in Renamed
  BY <1>3 DEF MaskOf, Renamed, Triggers, Tombs
<1>7. e.mask # "moved_from"
  BY <1>3 DEF MaskOf
<1> HIDE DEF e, c
<1>8. ~Second(e)
  BY <1>3 DEF Second
<1>9. NewEvents(<<e>>)
  BY <1>1, <1>2, <1>3, <1>4, <1>6, <1>7, <1>8, OneEvent DEF NewEvents
<1> QED BY <1>1, <1>2, <1>3, <1>4, <1>5, <1>9, OneEvent, GrowOnce

LEMMA CloseOnce ==
    ASSUME FilesTyped, OnceInv, NEW f \in Files, Close(f)
    PROVE  OnceInv'
<1> DEFINE e == FileEvent("close_write", f, 1, 0)
<1>1. /\ f \in open /\ events' = Append(events, e)
      /\ UNCHANGED <<kind, cookie, batch, at, previous, reported, infos, given_up>>
  BY DEF Close, daemon, results
<1>2. /\ e \in FileEvents /\ e.mask = "close_write" /\ e.file = f /\ e.name = 1
      /\ e.cookie = 0
  BY FileEventType DEF Masks
<1>3. kind[f].type \in Repeated /\ kind[f].type \notin Renamed /\ kind[f] # NoKind
  <2>1. kind[f].type \in Repeated
    BY <1>1 DEF FilesTyped
  <2> QED BY <2>1, NoKindType DEF Repeated, Triggers, Tombs, Renamed
<1>4. events' = events \o <<e>> /\ cookie \in Nat /\ cookie <= cookie
  BY <1>1, <1>2 DEF FilesTyped
<1> HIDE DEF e
<1>5. NewEvents(<<e>>)
  BY <1>1, <1>2, <1>3, <1>4, OneEvent DEF NewEvents, Second
<1> QED BY <1>1, <1>2, <1>4, <1>5, OneEvent, GrowOnce

LEMMA RenamedKind ==
    ASSUME FilesTyped, NEW f \in Files, kind[f].type \in Renamed
    PROVE  kind[f] # NoKind
  BY NoKindType DEF Renamed

LEMMA RenameOnce ==
    ASSUME FilesTyped, OnceInv, NEW f \in Files, Rename(f)
    PROVE  OnceInv'
<1> DEFINE a == FileEvent("moved_from", f, disk[f], cookie')
           b == FileEvent("moved_to", f, disk'[f], cookie')
           t == <<a, b>>
<1>1. /\ kind[f].type \in Renamed /\ cookie' = cookie + 1 /\ disk[f] > 0
      /\ disk' = [disk EXCEPT ![f] = @ + 1] /\ events' = events \o t
      /\ UNCHANGED <<kind, batch, at, previous, reported, infos, given_up>>
  BY DEF Rename, daemon, results
<1>2. /\ cookie \in Nat /\ cookie' \in Nat /\ cookie < cookie' /\ cookie <= cookie'
      /\ disk[f] \in Nat \ {0} /\ disk'[f] = disk[f] + 1 /\ disk'[f] \in Nat \ {0}
  BY <1>1 DEF FilesTyped
<1>3. /\ a \in FileEvents /\ a.mask = "moved_from" /\ a.file = f /\ a.name = disk[f]
      /\ a.cookie = cookie'
  BY <1>2, FileEventType DEF Masks
<1>4. /\ b \in FileEvents /\ b.mask = "moved_to" /\ b.file = f /\ b.name = disk[f] + 1
      /\ b.cookie = cookie'
  BY <1>2, FileEventType DEF Masks
<1> HIDE DEF a, b
<1>5. /\ t \in Seq(FileEvents) /\ Len(t) = 2 /\ t[1] = a /\ t[2] = b
      /\ \A i \in 1 .. Len(t) : i = 1 \/ i = 2
  BY <1>3, <1>4
<1> HIDE DEF t
<1>6. kind[f] # NoKind
  BY <1>1, RenamedKind
<1>7. ~Fresh(a) /\ ~Fresh(b) /\ ~Second(a) /\ Halves(a.cookie, a.file, a.name, b)
  BY <1>2, <1>3, <1>4 DEF Fresh, Second, Halves
<1>8. ASSUME NEW i \in 1 .. Len(t)
      PROVE  /\ t[i].file = f /\ t[i].cookie = cookie'
             /\ t[i].mask \in {"moved_from", "moved_to"} /\ ~Fresh(t[i])
             /\ Second(t[i]) => i > 1 /\ t[i-1].mask = "moved_from"
    <2>1. CASE i = 1
      BY <1>3, <1>5, <1>7, <2>1
    <2>2. CASE i = 2
      BY <1>3, <1>4, <1>5, <1>7, <2>2
    <2> QED BY <1>5, <2>1, <2>2
<1>9. ASSUME NEW i \in 1 .. Len(t), NEW j \in 1 .. Len(t),
             t[i].mask = "moved_from", t[j].mask = "moved_to"
      PROVE  Halves(t[i].cookie, t[i].file, t[i].name, t[j])
  <2>1. i = 1 /\ j = 2
    BY <1>3, <1>4, <1>5, <1>9
  <2> QED BY <1>5, <1>7, <2>1
<1>10. NewEvents(t)
  BY <1>1, <1>2, <1>6, <1>8, <1>9 DEF NewEvents
<1> QED BY <1>1, <1>2, <1>5, <1>10, GrowOnce

LEMMA LeaveOnce ==
    ASSUME FilesTyped, OnceInv, NEW f \in Files, Leave(f)
    PROVE  OnceInv'
<1>1. UNCHANGED <<kind, batch, at, previous, reported, infos, given_up>> /\ disk[f] > 0
  BY DEF Leave, daemon, results
<1>0. cookie \in Nat /\ disk[f] \in Nat
  BY DEF FilesTyped
<1>2. CASE UNCHANGED <<cookie, events>>
  <2>1. Stream' = Stream
    BY <1>1, <1>2, StreamSame
  <2> QED
    BY <1>1, <1>2, <2>1 DEF OnceInv, EventsOK, CookiesOK, RenamesOK, FollowsFirst, FreshOnce,
       ReportsOK, BegunOK, InfosOK, Fresh, Second, Halves, Remembered, FirstLost, type, event
<1>3. CASE /\ kind[f].type \in Renamed /\ cookie' = cookie + 1
           /\ events' = Append(events, FileEvent("moved_from", f, disk[f], cookie'))
  <2> DEFINE e == FileEvent("moved_from", f, disk[f], cookie')
  <2>1. /\ cookie' \in Nat /\ cookie < cookie' /\ cookie <= cookie' /\ disk[f] \in Nat \ {0}
    BY <1>0, <1>1, <1>3
  <2>2. /\ e \in FileEvents /\ e.mask = "moved_from" /\ e.file = f /\ e.cookie = cookie'
    BY <2>1, FileEventType DEF Masks
  <2>3. events' = events \o <<e>>
    BY <1>3, <2>2 DEF FilesTyped
  <2> HIDE DEF e
  <2>4. ~Fresh(e) /\ ~Second(e) /\ kind[f] # NoKind
    BY <1>3, <2>2, RenamedKind DEF Fresh, Second
  <2>5. NewEvents(<<e>>)
    BY <1>1, <1>3, <2>1, <2>2, <2>4, OneEvent DEF NewEvents
  <2> QED BY <1>1, <2>1, <2>2, <2>3, <2>5, OneEvent, GrowOnce
<1> QED BY <1>2, <1>3 DEF Leave

(* Events leave the stream: one that is handled, or the rest of the batch.  *)
(* The first half of a rename is then remembered or given up.               *)
LEMMA ShiftOnce ==
    ASSUME FilesTyped, OnceInv, NEW n, Shifted(n), UNCHANGED <<kind, cookie>>,
           given_up \subseteq given_up',
           \/ previous' = previous
           \/ previous' = NoMove
           \/ /\ n = 1 /\ Stream[1].mask = "moved_from"
              /\ previous' = [cookie |-> Stream[1].cookie, file |-> Stream[1].file,
                              name |-> Stream[1].name],
           n = 0 => previous' = previous,
           n # 0 /\ Stream[n].mask = "moved_from" =>
              \/ <<Stream[n].file, "moved_from">> \in given_up'
              \/ previous' = [cookie |-> Stream[n].cookie, file |-> Stream[n].file,
                              name |-> Stream[n].name]
    PROVE  /\ EventsOK(Stream)' /\ CookiesOK(Stream)' /\ RenamesOK(Stream)'
           /\ FreshOnce(Stream)'
<1> DEFINE s == Stream
           u == Stream'
<1>1. /\ n \in Nat /\ Len(u) \in Nat /\ n <= Len(s) /\ Len(s) \in Nat
      /\ \A i \in 1 .. Len(u) : n + i \in 1 .. Len(s) /\ u[i] = s[n + i]
      /\ \A i \in 1 .. Len(s) : s[i] \in FileEvents
  BY StreamType DEF Shifted
<1>o. EventsOK(s) /\ CookiesOK(s) /\ RenamesOK(s) /\ FreshOnce(s)
  BY DEF OnceInv
<1>l. \A f : FirstLost(f) => <<f, "moved_from">> \in given_up'
  BY DEF FirstLost
<1>2. EventsOK(Stream)'
  BY <1>1, <1>o DEF EventsOK
<1>3. FreshOnce(Stream)'
  <2> SUFFICES ASSUME NEW i \in 1 .. Len(u), NEW j \in 1 .. Len(u),
                      Fresh(u[i]), Fresh(u[j]), u[i].file = u[j].file,
                      kind[u[i].file].type \notin Repeated
               PROVE  i = j
    BY DEF FreshOnce, Fresh
  <2>1. n + i = n + j
    BY <1>1, <1>o DEF FreshOnce
  <2> QED BY <1>1, <2>1
<1>4. CookiesOK(Stream)'
  <2>0. previous.cookie \in Nat /\ previous.cookie <= cookie
        /\ (previous.cookie # 0 => previous.name # 0)
    BY <1>o DEF FilesTyped, CookiesOK
  <2>1. ASSUME NEW i \in 1 .. Len(u), NEW j \in 1 .. Len(u),
               u[i].mask = "moved_from", u[j].mask = "moved_to", u[i].cookie = u[j].cookie
        PROVE  Halves(u[i].cookie, u[i].file, u[i].name, u[j])
    BY <1>1, <1>o, <2>1 DEF CookiesOK
  <2>2. ASSUME NEW j \in 1 .. Len(u), u[j].mask = "moved_to",
               u[j].cookie = previous'.cookie
        PROVE  Halves(previous'.cookie, previous'.file, previous'.name, u[j])
    <3>1. n + j \in 1 .. Len(s) /\ u[j] = s[n + j]
      BY <1>1
    <3>2. CASE previous' = previous
      BY <1>o, <2>2, <3>1, <3>2 DEF CookiesOK, Remembered
    <3>3. CASE previous' = NoMove
      BY <1>o, <2>2, <3>1, <3>3 DEF EventsOK, NoMove
    <3>4. CASE /\ n = 1 /\ s[1].mask = "moved_from"
               /\ previous' = [cookie |-> s[1].cookie, file |-> s[1].file,
                               name |-> s[1].name]
      <4>1. 1 \in 1 .. Len(s)
        BY <1>1, <3>4
      <4>2. previous'.cookie = s[1].cookie /\ previous'.file = s[1].file
            /\ previous'.name = s[1].name
        BY <3>4
      <4>3. Halves(s[1].cookie, s[1].file, s[1].name, s[n + j])
        BY <1>o, <2>2, <3>1, <3>4, <4>1, <4>2 DEF CookiesOK
      <4> QED BY <3>1, <4>2, <4>3
    <3> QED BY <3>2, <3>3, <3>4
  <2>3. previous'.cookie <= cookie /\ (previous'.cookie # 0 => previous'.name # 0)
    <3>1. CASE previous' = previous
      BY <2>0, <3>1
    <3>2. CASE previous' = NoMove
      BY <3>2 DEF NoMove, FilesTyped
    <3>3. CASE /\ n = 1
               /\ previous' = [cookie |-> s[1].cookie, file |-> s[1].file,
                               name |-> s[1].name]
      <4>1. 1 \in 1 .. Len(s)
        BY <1>1, <3>3
      <4>2. s[1] \in FileEvents /\ s[1].cookie <= cookie
        BY <1>1, <1>o, <4>1 DEF EventsOK
      <4>3. s[1].name # 0
        BY <4>2 DEF FileEvents
      <4>4. previous'.cookie = s[1].cookie /\ previous'.name = s[1].name
        BY <3>3
      <4> QED BY <4>2, <4>3, <4>4
    <3> QED BY <3>1, <3>2, <3>3
  <2> QED BY <2>1, <2>2, <2>3 DEF CookiesOK, Remembered, Halves
<1>5. RenamesOK(Stream)'
  <2> SUFFICES ASSUME NEW i \in 1 .. Len(u), Second(u[i])
               PROVE  \/ <<u[i].file, "moved_from">> \in given_up'
                      \/ i = 1 /\ Halves(previous'.cookie, previous'.file, previous'.name, u[i])
                      \/ i > 1 /\ u[i-1].mask = "moved_from"
                         /\ Halves(u[i-1].cookie, u[i-1].file, u[i-1].name, u[i])
    BY DEF RenamesOK, FollowsFirst, Second, FirstLost, Remembered, Halves
  <2>1. n + i \in 1 .. Len(s) /\ u[i] = s[n + i] /\ FollowsFirst(s, n + i)
    BY <1>1, <1>o DEF RenamesOK
  <2>2. CASE i > 1
    <3>0. n \in Nat /\ Len(u) \in Nat /\ i \in Int /\ i <= Len(u)
      BY <1>1
    <3> HIDE DEF u
    <3>1. i - 1 \in 1 .. Len(u) /\ n + (i - 1) = (n + i) - 1 /\ n + i > 1 /\ n + i # 1
      BY <2>2, <3>0
    <3> USE DEF u
    <3>2. u[i-1] = s[(n + i) - 1]
      BY <1>1, <3>1
    <3> QED BY <1>l, <2>1, <2>2, <3>1, <3>2 DEF FollowsFirst
  <2>3. CASE i = 1 /\ n = 0
    <3>1. n + i = 1
      BY <2>3
    <3> QED BY <1>l, <2>1, <2>3, <3>1 DEF FollowsFirst, Remembered
  <2>4. CASE i = 1 /\ n # 0
    <3>1. (n + i) - 1 = n /\ n + i # 1
      BY <1>1, <2>4
    <3>2. \/ FirstLost(s[n + i].file)
          \/ s[n].mask = "moved_from" /\ Halves(s[n].cookie, s[n].file, s[n].name, s[n + i])
      BY <2>1, <3>1 DEF FollowsFirst
    <3>3. CASE FirstLost(s[n + i].file)
      BY <1>l, <2>1, <3>3
    <3>4. CASE s[n].mask = "moved_from" /\ Halves(s[n].cookie, s[n].file, s[n].name, s[n + i])
      <4>1. CASE <<s[n].file, "moved_from">> \in given_up'
        BY <2>1, <3>4, <4>1 DEF Halves
      <4>2. CASE previous' = [cookie |-> s[n].cookie, file |-> s[n].file, name |-> s[n].name]
        <5>1. previous'.cookie = s[n].cookie /\ previous'.file = s[n].file
              /\ previous'.name = s[n].name
          BY <4>2
        <5> QED BY <2>1, <2>4, <3>4, <5>1
      <4> QED BY <2>4, <3>4, <4>1, <4>2
    <3> QED BY <3>2, <3>3, <3>4
  <2> QED BY <1>1, <2>2, <2>3, <2>4
<1> QED BY <1>2, <1>3, <1>4, <1>5

(* Whatever leaves the stream, reports stay right; also when the event at   *)
(* hand is reported, and it is one that may be.                             *)
MayReport ==
    /\ batch # <<>>
    /\ type \notin Triggers =>
          event.mask # "moved_from" /\ (event.name = 1 \/ FirstLost(event.file))

LEMMA ShiftReports ==
    ASSUME FilesTyped, OnceInv, NEW n, Shifted(n), kind' = kind,
           given_up \subseteq given_up',
           \/ reported' = reported
           \/ raise_event /\ MayReport /\ (n # 0 \/ type \in Triggers)
    PROVE  ReportsOK(Stream)'
<1> DEFINE s == Stream
           u == Stream'
<1>1. /\ n \in Nat /\ Len(u) \in Nat /\ n <= Len(s) /\ Len(s) \in Nat
      /\ \A i \in 1 .. Len(u) : n + i \in 1 .. Len(s) /\ u[i] = s[n + i]
  BY StreamType DEF Shifted
<1>o. ReportsOK(s) /\ FreshOnce(s) /\ EventsOK(s)
  BY DEF OnceInv
<1>l. \A f : FirstLost(f) => FirstLost(f)'
  BY DEF FirstLost
<1>2. CASE reported' = reported
  BY <1>1, <1>2, <1>l, <1>o DEF ReportsOK, Fresh
<1>3. CASE raise_event /\ MayReport /\ (n # 0 \/ type \in Triggers)
  <2>1. /\ event.file \in Files /\ 1 \in 1 .. Len(s) /\ event = s[1]
        /\ kind[event.file] # NoKind
    BY <1>3, <1>o, StreamType, EventAtHand DEF MayReport, EventsOK
  <2>2. /\ reported \in [Files -> Nat] /\ reported'[event.file] = reported[event.file] + 1
        /\ \A f \in Files : f # event.file => reported'[f] = reported[f]
    BY <1>3, RaiseTyped DEF MayReport, FilesTyped
  <2>3. ASSUME NEW f \in Files, kind[f] = NoKind PROVE reported'[f] = 0
    BY <1>o, <2>1, <2>2, <2>3 DEF ReportsOK
  <2>4. ASSUME NEW f \in Files, kind[f].type \notin Repeated, ~FirstLost(f)'
        PROVE  /\ reported'[f] <= 1
               /\ reported'[f] # 0 => \A i \in 1 .. Len(u) : u[i].file = f => ~Fresh(u[i])
    <3>0. ~FirstLost(f)
      BY <1>l, <2>4
    <3>1. CASE f # event.file
      <4>1. reported'[f] = reported[f]
        BY <2>2, <3>1
      <4>2. /\ reported[f] <= 1
            /\ reported[f] # 0 => \A i \in 1 .. Len(s) : s[i].file = f => ~Fresh(s[i])
        BY <1>o, <2>4, <3>0 DEF ReportsOK
      <4> QED BY <1>1, <4>1, <4>2
    <3>2. CASE f = event.file
      <4>1. type \notin Triggers /\ n # 0
        BY <1>3, <2>4, <3>2 DEF type, Repeated
      <4>2. Fresh(s[1]) /\ s[1].file = f
        BY <1>3, <2>1, <3>0, <3>2, <4>1 DEF MayReport, Fresh
      <4>3. reported[f] = 0
        BY <1>o, <2>1, <2>4, <3>0, <4>2 DEF ReportsOK
      <4>4. reported'[f] = 1
        BY <2>2, <3>2, <4>3
      <4>5. ASSUME NEW i \in 1 .. Len(u), u[i].file = f, Fresh(u[i]) PROVE FALSE
        <5>1. n + i \in 1 .. Len(s) /\ s[n + i].file = f /\ Fresh(s[n + i])
          BY <1>1, <4>5
        <5>2. n + i = 1
          BY <1>o, <2>1, <2>4, <4>2, <5>1 DEF FreshOnce
        <5> QED BY <1>1, <4>1, <5>2
      <4> QED BY <4>4, <4>5
    <3> QED BY <3>1, <3>2
  <2> QED BY <2>3, <2>4 DEF ReportsOK, Fresh
<1> QED BY <1>2, <1>3

(* What a failed callback gives up.                                         *)
LEMMA DroppedHas ==
    ASSUME FilesTyped, batch # <<>>, NEW told, NEW i \in 1 .. Len(batch), i # 1 \/ ~told
    PROVE  <<batch[i].file, batch[i].mask>> \in Dropped(IF told THEN Tail(batch) ELSE batch)
<1>1. batch \in Seq(FileEvents) /\ Len(batch) \in Nat
  BY DEF FilesTyped
<1>2. CASE ~told
  <2>1. i \in DOMAIN batch
    BY <1>1
  <2> QED BY <1>2, <2>1 DEF Dropped
<1>3. CASE told
  <2>1. i - 1 \in 1 .. Len(batch) - 1 /\ (i - 1) + 1 = i
    BY <1>1, <1>3
  <2>2. /\ Tail(batch) \in Seq(FileEvents) /\ Len(Tail(batch)) = Len(batch) - 1
        /\ \A j \in 1 .. Len(batch) - 1 : Tail(batch)[j] = batch[j + 1]
    BY <1>1
  <2>3. i - 1 \in DOMAIN Tail(batch) /\ Tail(batch)[i - 1] = batch[i]
    BY <2>1, <2>2
  <2>4. <<batch[i].file, batch[i].mask>> \in Dropped(Tail(batch))
    BY <2>3 DEF Dropped
  <2> QED BY <1>3, <2>4
<1> QED BY <1>2, <1>3

(* A step within a callback.                                                *)
LEMMA StepOnce ==
    ASSUME FilesTyped, OnceInv, Shifted(0),
           UNCHANGED <<kind, cookie, previous, infos, given_up>>,
           \/ reported' = reported
           \/ raise_event /\ batch # <<>> /\ type \in Triggers,
           BegunOK'
    PROVE  OnceInv'
<1>1. /\ EventsOK(Stream)' /\ CookiesOK(Stream)' /\ RenamesOK(Stream)'
      /\ FreshOnce(Stream)'
  BY ShiftOnce
<1>2. ReportsOK(Stream)'
  BY ShiftReports DEF MayReport
<1>3. InfosOK'
  BY DEF OnceInv, InfosOK
<1> QED BY <1>1, <1>2, <1>3 DEF OnceInv

LEMMA SameBegun ==
    ASSUME OnceInv, UNCHANGED <<kind, batch, given_up>>,
           \/ at' = at
           \/ at' \in {"copy", "logs", "raise"} /\ at \in {"copy", "logs", "raise"}
    PROVE  BegunOK'
<1>1. type' = type /\ event' = event
  BY DEF type, event
<1>2. \A f : FirstLost(f)' = FirstLost(f)
  BY DEF FirstLost
<1> QED BY <1>1, <1>2 DEF OnceInv, BegunOK, FirstLost

(* A callback that ends.                                                    *)
LEMMA DoneOnce ==
    ASSUME FilesTyped, FilesTyped', OnceInv, batch # <<>>, Done, InfosOK',
           UNCHANGED <<kind, cookie, events>>, given_up \subseteq given_up',
           \/ event.mask # "moved_from" /\ previous' \in {previous, NoMove}
           \/ /\ event.mask = "moved_from"
              /\ previous' = [cookie |-> event.cookie, file |-> event.file,
                              name |-> event.name],
           \/ reported' = reported
           \/ raise_event /\ MayReport
    PROVE  OnceInv'
<1>1. Shifted(1) /\ event = Stream[1]
  BY StreamDone, StreamType DEF Done
<1>2. /\ EventsOK(Stream)' /\ CookiesOK(Stream)' /\ RenamesOK(Stream)'
      /\ FreshOnce(Stream)'
  <2>1. \/ previous' = previous
        \/ previous' = NoMove
        \/ /\ Stream[1].mask = "moved_from"
           /\ previous' = [cookie |-> Stream[1].cookie, file |-> Stream[1].file,
                           name |-> Stream[1].name]
    BY <1>1
  <2>2. Stream[1].mask = "moved_from" =>
           previous' = [cookie |-> Stream[1].cookie, file |-> Stream[1].file,
                        name |-> Stream[1].name]
    BY <1>1
  <2> DEFINE n == 1
  <2>3. n # 0 /\ n = 1 /\ Shifted(n)
    BY <1>1
  <2> HIDE DEF n
  <2> QED BY <2>1, <2>2, <2>3, ShiftOnce
<1>3. ReportsOK(Stream)'
  BY <1>1, ShiftReports
<1>4. BegunOK'
  BY DEF BegunOK, Done
<1> QED BY <1>2, <1>3, <1>4 DEF OnceInv

(* A callback that fails.                                                   *)
LEMMA FailedOnce ==
    ASSUME FilesTyped, FilesTyped', OnceInv, batch # <<>>, NEW told, Failed(told),
           UNCHANGED <<kind, cookie, events, previous, infos>>,
           ~told \/ event.mask # "moved_from",
           \/ reported' = reported
           \/ raise_event /\ MayReport
    PROVE  OnceInv'
<1>1. /\ batch' = <<>> /\ at' = "start"
      /\ given_up' = given_up \cup Dropped(IF told THEN Tail(batch) ELSE batch)
  BY DEF Failed
<1> DEFINE n == Len(batch)
<1>2. /\ Shifted(n) /\ n \in Nat /\ 1 <= n /\ n \in 1 .. n /\ n # 0
      /\ Stream[n] = batch[n] /\ event = batch[1]
  <2>1. Shifted(n) /\ event = batch[1] /\ n \in Nat /\ 1 <= n
    BY <1>1, StreamDrop, EventAtHand
  <2>2. n \in 1 .. n /\ n # 0
    BY <2>1
  <2>3. Stream[n] = batch[n]
    BY <2>2, StreamType
  <2> QED BY <2>1, <2>2, <2>3
<1>3. Stream[n].mask = "moved_from" => <<Stream[n].file, "moved_from">> \in given_up'
  <2> HAVE Stream[n].mask = "moved_from"
  <2>1. n # 1 \/ ~told
    BY <1>2
  <2>2. <<batch[n].file, batch[n].mask>> \in Dropped(IF told THEN Tail(batch) ELSE batch)
    BY <1>2, <2>1, DroppedHas
  <2> QED BY <1>1, <1>2, <2>2
<1>4. given_up \subseteq given_up'
  BY <1>1
<1>5. /\ EventsOK(Stream)' /\ CookiesOK(Stream)' /\ RenamesOK(Stream)'
      /\ FreshOnce(Stream)'
  <2> HIDE DEF n
  <2> QED BY <1>2, <1>3, <1>4, ShiftOnce
<1>6. ReportsOK(Stream)'
  <2> HIDE DEF n
  <2> QED BY <1>2, <1>4, ShiftReports
<1>7. BegunOK' /\ InfosOK'
  BY <1>1 DEF BegunOK, OnceInv, InfosOK
<1> QED BY <1>5, <1>6, <1>7 DEF OnceInv

(* The callbacks up to the copy.                                            *)
LEMMA BeginOnce ==
    ASSUME FilesTyped, FilesTyped', OnceInv, batch # <<>>, NEW needed, Begin(needed),
           type \notin Triggers, event.mask # "moved_from",
           event.name = 1 \/ FirstLost(event.file)
    PROVE  OnceInv'
<1>1. UNCHANGED <<kind, cookie, events, previous, infos>>
  BY DEF Begin, writers
<1>2. CASE at' = "copy" /\ UNCHANGED <<batch, reported, given_up>>
  <2>1. type' = type /\ event' = event
    BY <1>1, <1>2 DEF type, event
  <2>2. BegunOK'
    BY <1>2, <2>1 DEF BegunOK, FirstLost
  <2> QED BY <1>1, <1>2, <2>2, StreamSame, StepOnce
<1>3. CASE raise_event /\ Failed(TRUE)
  <2>1. MayReport
    BY DEF MayReport
  <2> QED BY <1>1, <1>3, <2>1, FailedOnce
<1> QED BY <1>2, <1>3 DEF Begin, Go

(* An event that no rename explains is that of a file that appears.         *)
LEMMA NoDuplicate ==
    ASSUME FilesTyped, OnceInv, batch # <<>>, type \in Renamed => ~IsDuplicate(event)
    PROVE  /\ event.mask # "moved_from"
           /\ event.name = 1 \/ FirstLost(event.file)
<1>1. 1 \in 1 .. Len(Stream) /\ event = Stream[1] /\ event \in FileEvents
  BY StreamType, EventAtHand
<1>2. /\ event.mask = "moved_to" => event.cookie # 0
      /\ event.mask \in {"moved_from", "moved_to"} <=> type \in Renamed
      /\ type \notin Renamed => event.name = 1
  BY <1>1 DEF OnceInv, EventsOK, type
<1>3. CASE type \notin Renamed
  BY <1>2, <1>3
<1>4. CASE type \in Renamed
  <2>1. /\ event.mask = "moved_to" /\ event.cookie # 0
        /\ previous.cookie # event.cookie
    BY <1>2, <1>4 DEF IsDuplicate
  <2>2. event.name # 1 => Second(event)
    BY <1>1, <2>1 DEF Second, FileEvents
  <2>3. event.name # 1 => FollowsFirst(Stream, 1)
    BY <1>1, <2>2 DEF OnceInv, RenamesOK
  <2> QED BY <1>1, <2>1, <2>3 DEF FollowsFirst, Remembered, Halves
<1> QED BY <1>3, <1>4

(* The halves of a rename.                                                  *)
LEMMA DuplicateOnce ==
    ASSUME FilesTyped, FilesTyped', OnceInv, manage_duplicate_dropbox_events
    PROVE  OnceInv'
<1>1. /\ batch # <<>> /\ Done /\ UNCHANGED <<kind, cookie, events, reported, given_up>>
      /\ IsDuplicate(event)
  BY DEF manage_duplicate_dropbox_events, Handling, writers
<1>2. 1 \in 1 .. Len(Stream) /\ event = Stream[1]
  BY <1>1, StreamType
<1>3. CASE /\ event.mask = "moved_from" /\ infos' = infos
           /\ previous' = [cookie |-> event.cookie, file |-> event.file,
                           name |-> event.name]
  <2>1. InfosOK'
    BY <1>3 DEF OnceInv, InfosOK
  <2> QED BY <1>1, <1>3, <2>1, DoneOnce
<1>4. CASE /\ event.mask = "moved_to" /\ previous' = NoMove
           /\ infos' = infos \cup {<<<<previous.file, previous.name>>,
                                     <<event.file, event.name>>>>}
  <2>1. previous.cookie = event.cookie
    BY <1>1, <1>4 DEF IsDuplicate
  <2>2. Remembered(event)
    BY <1>2, <1>4, <2>1 DEF OnceInv, CookiesOK
  <2>3. previous.file = event.file /\ event.name = previous.name + 1
    BY <2>2 DEF Remembered, Halves
  <2> DEFINE x == <<<<previous.file, previous.name>>, <<event.file, event.name>>>>
  <2>4. x[1][1] = x[2][1] /\ x[2][2] = x[1][2] + 1
    BY <2>3
  <2> HIDE DEF x
  <2>5. infos' = infos \cup {x}
    BY <1>4 DEF x
  <2>6. InfosOK'
    BY <2>4, <2>5 DEF OnceInv, InfosOK
  <2> QED BY <1>1, <1>4, <2>6, DoneOnce
<1> QED BY <1>3, <1>4 DEF manage_duplicate_dropbox_events, create_infoevent

LEMMA OnceInit == CInit => OnceInv
<1> SUFFICES ASSUME CInit PROVE OnceInv
  OBVIOUS
<1>1. /\ kind = [f \in Files |-> NoKind] /\ cookie = 0 /\ at = "start"
      /\ previous = NoMove /\ reported = [f \in Files |-> 0] /\ infos = {}
      /\ batch = <<>> /\ events = <<>>
  BY DEF CInit
<1>2. Len(Stream) = 0
  BY <1>1 DEF Stream
<1>3. previous.cookie = 0
  BY <1>1 DEF NoMove
<1>4. EventsOK(Stream) /\ RenamesOK(Stream) /\ FreshOnce(Stream)
  BY <1>2 DEF EventsOK, RenamesOK, FreshOnce
<1>5. CookiesOK(Stream)
  BY <1>1, <1>2, <1>3 DEF CookiesOK
<1>6. ReportsOK(Stream)
  BY <1>1, <1>2 DEF ReportsOK
<1> QED BY <1>1, <1>4, <1>5, <1>6 DEF OnceInv, BegunOK, InfosOK

LEMMA OnceNext ==
    ASSUME FilesTyped, FilesTyped', OnceInv, [CNext]_cvars
    PROVE  OnceInv'
<1>1. ASSUME NEW f \in Files, NEW k \in FileKinds, Appear(f, k) PROVE OnceInv'
  BY <1>1, AppearOnce
<1>2. ASSUME NEW f \in Files, Close(f) \/ Rename(f) \/ Leave(f) PROVE OnceInv'
  BY <1>2, CloseOnce, RenameOnce, LeaveOnce
<1>3. CASE Rotate \/ copy_packet_fails \/ Stop \/ UNCHANGED cvars
  <2>1. UNCHANGED <<kind, cookie, events, batch, at, previous, reported, infos, given_up>>
    BY <1>3 DEF Rotate, copy_packet_fails, Stop, cvars, writers, daemon, results
  <2> QED BY <2>1, StreamSame, SameBegun, StepOnce
<1>4. CASE Read
  <2>1. /\ UNCHANGED <<kind, cookie, at, previous, reported, infos, given_up>>
        /\ batch = <<>>
    BY <1>4 DEF Read, results
  <2>2. BegunOK'
    BY <2>1 DEF BegunOK, FilesTyped
  <2> QED BY <1>4, <2>1, <2>2, StreamRead, StepOnce
<1>5. CASE manage_duplicate_dropbox_events
  BY <1>5, DuplicateOnce
<1>6. CASE ignore_pb_file
  <2>1. /\ batch # <<>> /\ type = "pb" /\ Done
        /\ UNCHANGED <<kind, cookie, events, previous, reported, infos, given_up>>
    BY <1>6 DEF ignore_pb_file, Handling, writers, results
  <2>2. event.mask # "moved_from"
    BY <2>1, NoDuplicate DEF Renamed
  <2>3. InfosOK'
    BY <2>1 DEF OnceInv, InfosOK
  <2> QED BY <2>1, <2>2, <2>3, DoneOnce
<1>7. CASE core_dump_disabled
  <2>1. /\ batch # <<>> /\ Failed(FALSE)
        /\ UNCHANGED <<kind, cookie, events, previous, reported, infos>>
    BY <1>7 DEF core_dump_disabled, Handling, writers
  <2> QED BY <2>1, FailedOnce
<1>8. CASE process_usercrash_event
  <2>1. /\ batch # <<>> /\ type \in {"crash", "tombstone"} /\ Begin(TRUE)
        /\ type \in Dropbox => ~IsDuplicate(event)
    BY <1>8 DEF process_usercrash_event, Handling
  <2>2. event.mask # "moved_from" /\ (event.name = 1 \/ FirstLost(event.file))
    BY <2>1, NoDuplicate DEF Renamed, Dropbox
  <2> QED BY <2>1, <2>2, BeginOnce DEF Triggers
<1>9. CASE process_hprof_event \/ process_apcore_event \/ process_lost_event
           \/ process_info_and_error \/ process_stat_event
  <2>1. /\ batch # <<>> /\ type \in {"hprof", "core", "lost", "info", "stat"}
        /\ Begin(TRUE) \/ Begin(FALSE)
    BY <1>9 DEF process_hprof_event, process_apcore_event, process_lost_event,
                process_info_and_error, process_stat_event, Handling
  <2>2. event.mask # "moved_from" /\ (event.name = 1 \/ FirstLost(event.file))
    BY <2>1, NoDuplicate DEF Renamed
  <2> QED BY <2>1, <2>2, BeginOnce DEF Triggers
<1>10. CASE do_copy_tail \/ do_copy \/ copy_and_remove \/ backup_apcoredump
  <2>1. /\ UNCHANGED <<kind, cookie, events, batch, previous, reported, infos, given_up>>
        /\ at = "copy" /\ at' \in {"logs", "raise"}
    BY <1>10 DEF do_copy_tail, do_copy, copy_and_remove, backup_apcoredump, Handling, Go,
                 writers
  <2> QED BY <2>1, StreamSame, SameBegun, StepOnce
<1>11. CASE do_copy_circular
  <2>1. /\ UNCHANGED <<kind, cookie, events, batch, previous, reported, infos, given_up>>
        /\ at = "logs" /\ at' \in {"logs", "raise"}
    BY <1>11 DEF do_copy_circular, Go, writers, results
  <2> QED BY <2>1, StreamSame, SameBegun, StepOnce
<1>12. CASE read_trigger
  <2>1. /\ UNCHANGED <<kind, cookie, events, batch, previous, reported, infos, given_up>>
        /\ type \in Triggers /\ at' = "packet"
    BY <1>12 DEF read_trigger, Handling, Go, writers, results
  <2>2. type' = type
    BY <2>1 DEF type, event
  <2>3. BegunOK'
    BY <2>1, <2>2 DEF BegunOK
  <2> QED BY <2>1, <2>3, StreamSame, StepOnce
<1>13. CASE copy_packet
  <2>1. /\ UNCHANGED <<kind, cookie, events, previous, reported, infos>> /\ at = "packet"
    BY <1>13 DEF copy_packet, InPacket, writers
  <2>2. /\ batch # <<>> /\ type \in Triggers
    BY <2>1 DEF FilesTyped, OnceInv, BegunOK
  <2>3. CASE UNCHANGED <<at, batch, given_up>>
    BY <2>1, <2>3, StreamSame, SameBegun, StepOnce
  <2>4. CASE Failed(reported[event.file] > 0)
    <3>1. event.mask # "moved_from"
      BY <2>2, NoDuplicate DEF Triggers, Renamed
    <3> QED BY <2>1, <2>2, <2>4, <3>1, FailedOnce
  <2> QED BY <1>13, <2>3, <2>4 DEF copy_packet
<1>14. CASE end_packet
  <2>1. /\ UNCHANGED <<kind, cookie, events, batch, at, previous, infos, given_up>>
        /\ at = "packet"
        /\ raise_event \/ reported' = reported
    BY <1>14 DEF end_packet, writers
  <2>2. batch # <<>> /\ type \in Triggers
    BY <2>1 DEF FilesTyped, OnceInv, BegunOK
  <2> QED BY <2>1, <2>2, StreamSame, SameBegun, StepOnce
<1>15. CASE end_trigger
  <2>1. /\ UNCHANGED <<kind, cookie, events, previous, infos>> /\ at = "packet"
        /\ raise_event \/ reported' = reported
    BY <1>15 DEF end_trigger
  <2>2. batch # <<>> /\ type \in Triggers
    BY <2>1 DEF FilesTyped, OnceInv, BegunOK
  <2>3. event.mask # "moved_from" /\ MayReport
    BY <2>2, NoDuplicate DEF Triggers, Renamed, MayReport
  <2>4. CASE Done /\ given_up \subseteq given_up'
    <3>1. InfosOK'
      BY <2>1 DEF OnceInv, InfosOK
    <3> QED BY <2>1, <2>2, <2>3, <2>4, <3>1, DoneOnce
  <2>5. CASE Failed(FALSE) \/ Failed(reported'[event.file] > 0)
    BY <2>1, <2>2, <2>3, <2>5, FailedOnce
  <2> QED BY <1>15, <2>4, <2>5 DEF end_trigger
<1>16. CASE Raise
  <2>1. /\ UNCHANGED <<kind, cookie, events, previous, infos, given_up>> /\ at = "raise"
        /\ raise_event /\ Done
    BY <1>16 DEF Raise, writers
  <2>2. batch # <<>> /\ MayReport /\ event.mask # "moved_from"
    BY <2>1 DEF FilesTyped, OnceInv, BegunOK, MayReport
  <2>3. InfosOK'
    BY <2>1 DEF OnceInv, InfosOK
  <2> QED BY <2>1, <2>2, <2>3, DoneOnce
<1>17. CASE Kill
  <2>1. /\ UNCHANGED <<kind, cookie, reported, infos>> /\ previous' = NoMove
        /\ events' = <<>> /\ batch' = <<>> /\ at' = "start" /\ given_up \subseteq given_up'
    BY <1>17 DEF Kill
  <2>2. Len(Stream') = 0
    BY <2>1 DEF Stream
  <2>3. EventsOK(Stream)' /\ RenamesOK(Stream)' /\ FreshOnce(Stream)'
    BY <2>2 DEF EventsOK, RenamesOK, FreshOnce
  <2>4. CookiesOK(Stream)'
    BY <2>1, <2>2 DEF CookiesOK, NoMove, FilesTyped
  <2>5. ReportsOK(Stream)'
    BY <2>1, <2>2 DEF OnceInv, ReportsOK, FirstLost
  <2> QED BY <2>1, <2>3, <2>4, <2>5 DEF OnceInv, BegunOK, InfosOK
<1> QED
  BY <1>1, <1>2, <1>3, <1>4, <1>5, <1>6, <1>7, <1>8, <1>9, <1>10, <1>11, <1>12,
     <1>13, <1>14, <1>15, <1>16, <1>17 DEF CNext
----------------------------------------------------------------------------
(* Tombstones: their events are those of Appear and Close, never those of a *)
(* rename.                                                                  *)
LEMMA GrowTombs ==
    ASSUME FilesTyped, OnceInv, TombsInv, NEW t \in Seq(FileEvents),
           events' = events \o t, UNCHANGED <<batch, reported>>,
           \A g \in Files : kind[g] # NoKind => kind'[g] = kind[g],
           \A g \in Files : kind'[g].type \in Tombs /\ g \in open' =>
              g \in open \/ kind[g] = NoKind,
           \A i \in 1 .. Len(t) : kind'[t[i].file].type \in Tombs =>
              /\ Len(t) = 1
              /\ \/ t[i].mask = "create" /\ kind[t[i].file] = NoKind
                 \/ t[i].mask = "close_write" /\ t[i].file \in open /\ t[i].file \notin open'
    PROVE  TombsInv'
<1> DEFINE s == Stream
           u == Stream'
           n == Len(Stream)
<1>1. /\ n \in Nat /\ Len(u) = n + Len(t) /\ Len(t) \in Nat
      /\ \A i \in 1 .. n : u[i] = s[i]
      /\ \A i \in 1 .. Len(u) :
            i \in 1 .. n \/ (i - n \in 1 .. Len(t) /\ u[i] = t[i - n])
      /\ \A i \in 1 .. n : s[i].file \in Files
      /\ \A i \in 1 .. Len(t) : t[i].file \in Files
  <2>1. \A e \in FileEvents : e.file \in Files
    BY DEF FileEvents
  <2>2. \A i \in 1 .. Len(t) : t[i] \in FileEvents
    OBVIOUS
  <2> QED BY <2>1, <2>2, StreamType, StreamGrows
<1>k. \A i \in 1 .. n : kind[s[i].file] # NoKind /\ kind'[s[i].file] = kind[s[i].file]
  <2>1. \A i \in 1 .. n : kind[s[i].file] # NoKind
    BY DEF OnceInv, EventsOK
  <2> QED BY <1>1, <2>1
<1>o. TombsOnce(s) /\ TombReports(s)
  BY DEF TombsInv
<1>p. \A i \in 1 .. n : kind[s[i].file].type \in Tombs =>
         /\ s[i].mask \in {"create", "close_write"}
         /\ s[i].mask = "close_write" => s[i].file \notin open
  BY <1>o DEF TombsOnce
<1> HIDE DEF s, u, n
<1>2. ASSUME NEW i \in 1 .. Len(u), kind'[u[i].file].type \in Tombs
      PROVE  /\ u[i].mask \in {"create", "close_write"}
             /\ u[i].mask = "close_write" => u[i].file \notin open'
  <2>1. CASE i \in 1 .. n
    <3>1. u[i] = s[i] /\ s[i].file \in Files /\ kind[s[i].file].type \in Tombs
      BY <1>1, <1>2, <1>k, <2>1
    <3>2. s[i].file \notin open => s[i].file \notin open'
      BY <1>2, <1>k, <2>1, <3>1
    <3> QED BY <1>p, <2>1, <3>1, <3>2
  <2>2. CASE i - n \in 1 .. Len(t) /\ u[i] = t[i - n]
    BY <1>2, <2>2
  <2> QED BY <1>1, <2>1, <2>2
<1>3. ASSUME NEW i \in 1 .. Len(u), NEW j \in 1 .. Len(u),
             u[i].file = u[j].file, u[i].mask = u[j].mask, kind'[u[i].file].type \in Tombs
      PROVE  i = j
  <2>1. CASE i \in 1 .. n /\ j \in 1 .. n
    <3>1. u[i] = s[i] /\ u[j] = s[j] /\ kind[s[i].file].type \in Tombs
      BY <1>1, <1>3, <1>k, <2>1
    <3> QED BY <1>3, <1>o, <2>1, <3>1 DEF TombsOnce, s, n
  <2>2. ASSUME NEW a \in 1 .. n, NEW b \in 1 .. Len(t), s[a].file = t[b].file,
               s[a].mask = t[b].mask, kind'[t[b].file].type \in Tombs
        PROVE  FALSE
    <3>1. kind[s[a].file] # NoKind /\ kind[s[a].file].type \in Tombs
      BY <1>k, <2>2
    <3>2. t[b].mask = "close_write" /\ t[b].file \in open
      BY <2>2, <3>1
    <3> QED BY <1>p, <2>2, <3>1, <3>2
  <2>3. CASE i \in 1 .. n /\ j - n \in 1 .. Len(t) /\ u[j] = t[j - n]
    <3>1. u[i] = s[i]
      BY <1>1, <2>3
    <3> QED BY <1>3, <2>2, <2>3, <3>1
  <2>4. CASE j \in 1 .. n /\ i - n \in 1 .. Len(t) /\ u[i] = t[i - n]
    <3>1. u[j] = s[j]
      BY <1>1, <2>4
    <3> QED BY <1>3, <2>2, <2>4, <3>1
  <2>5. CASE /\ i - n \in 1 .. Len(t) /\ u[i] = t[i - n]
             /\ j - n \in 1 .. Len(t) /\ u[j] = t[j - n]
    <3>1. Len(t) = 1
      BY <1>3, <2>5
    <3> QED BY <1>1, <2>5, <3>1
  <2> QED BY <1>1, <2>1, <2>3, <2>4, <2>5
<1>4. ASSUME NEW g \in Files, kind'[g].type \in Tombs, kind[g] # NoKind,
             NEW m, Told(g, m, Stream)'
      PROVE  Told(g, m, Stream)
  <2>0. kind'[g] = kind[g]
    BY <1>4
  <2>1. CASE m = "close_write" /\ g \in open'
    BY <1>4, <2>1 DEF Told
  <2>2. CASE \E i \in 1 .. Len(u) : u[i].file = g /\ u[i].mask = m
    <3>1. PICK i \in 1 .. Len(u) : u[i].file = g /\ u[i].mask = m
      BY <2>2
    <3>2. CASE i \in 1 .. n
      <4>1. s[i].file = g /\ s[i].mask = m
        BY <1>1, <3>1, <3>2
      <4> QED BY <3>2, <4>1 DEF Told, s, n
    <3>3. CASE i - n \in 1 .. Len(t) /\ u[i] = t[i - n]
      <4>1. m = "close_write" /\ g \in open
        BY <1>4, <3>1, <3>3
      <4> QED BY <4>1 DEF Told
    <3> QED BY <1>1, <3>2, <3>3
  <2> QED BY <1>4, <2>1, <2>2 DEF Told, u
<1>5. TombReports(Stream)'
  <2> SUFFICES ASSUME NEW g \in Files, kind'[g].type \in Tombs
               PROVE  /\ reported[g] <= 2
                      /\ Told(g, "create", Stream)' \/ Told(g, "close_write", Stream)'
                            => reported[g] <= 1
                      /\ Told(g, "create", Stream)' /\ Told(g, "close_write", Stream)'
                            => reported[g] = 0
    BY DEF TombReports, Told
  <2>1. CASE kind[g] = NoKind
    <3>1. reported[g] = 0
      BY <2>1 DEF OnceInv, ReportsOK
    <3> QED BY <3>1
  <2>2. CASE kind[g] # NoKind
    <3>1. kind[g].type \in Tombs
      BY <2>2
    <3>2. /\ reported[g] <= 2
          /\ Told(g, "create", Stream) \/ Told(g, "close_write", Stream) => reported[g] <= 1
          /\ Told(g, "create", Stream) /\ Told(g, "close_write", Stream) => reported[g] = 0
      BY <1>o, <3>1 DEF TombReports, s
    <3> QED BY <1>4, <2>2, <3>2
  <2> QED BY <2>1, <2>2
<1>6. TombsOnce(Stream)'
  BY <1>2, <1>3 DEF TombsOnce, u
<1> QED BY <1>5, <1>6 DEF TombsInv

LEMMA ShiftTombs ==
    ASSUME FilesTyped, TombsInv, NEW n, Shifted(n), UNCHANGED <<kind, open>>,
           \/ reported' = reported
           \/ raise_event /\ batch # <<>> /\ (n # 0 \/ type \in Triggers)
    PROVE  TombsInv'
<1> DEFINE s == Stream
           u == Stream'
<1>1. /\ n \in Nat /\ Len(u) \in Nat /\ n <= Len(s) /\ Len(s) \in Nat
      /\ \A i \in 1 .. Len(u) : n + i \in 1 .. Len(s) /\ u[i] = s[n + i]
  BY StreamType DEF Shifted
<1>o. TombsOnce(s) /\ TombReports(s)
  BY DEF TombsInv
<1>2. TombsOnce(Stream)'
  <2>1. ASSUME NEW i \in 1 .. Len(u), kind[u[i].file].type \in Tombs
        PROVE  /\ u[i].mask \in {"create", "close_write"}
               /\ u[i].mask = "close_write" => u[i].file \notin open
    BY <1>1, <1>o, <2>1 DEF TombsOnce
  <2>2. ASSUME NEW i \in 1 .. Len(u), NEW j \in 1 .. Len(u),
               u[i].file = u[j].file, u[i].mask = u[j].mask, kind[u[i].file].type \in Tombs
        PROVE  i = j
    <3>1. n + i = n + j
      BY <1>1, <1>o, <2>2 DEF TombsOnce
    <3> QED BY <1>1, <3>1
  <2> QED BY <2>1, <2>2 DEF TombsOnce
<1>3. ASSUME NEW g, NEW m, Told(g, m, Stream)' PROVE Told(g, m, s)
  BY <1>1, <1>3 DEF Told
<1>4. ASSUME NEW g \in Files, kind[g].type \in Tombs
      PROVE  /\ reported[g] <= 2
             /\ Told(g, "create", s) \/ Told(g, "close_write", s) => reported[g] <= 1
             /\ Told(g, "create", s) /\ Told(g, "close_write", s) => reported[g] = 0
  BY <1>4, <1>o DEF TombReports
<1>5. ASSUME NEW g \in Files, kind[g].type \in Tombs
      PROVE  /\ reported'[g] <= 2
             /\ Told(g, "create", Stream)' \/ Told(g, "close_write", Stream)'
                   => reported'[g] <= 1
             /\ Told(g, "create", Stream)' /\ Told(g, "close_write", Stream)'
                   => reported'[g] = 0
  <2>1. CASE reported'[g] = reported[g]
    BY <1>3, <1>4, <1>5, <2>1
  <2>2. CASE raise_event /\ batch # <<>> /\ g = event.file /\ (n # 0 \/ type \in Triggers)
    <3>1. 1 \in 1 .. Len(s) /\ s[1].file = g
      BY <2>2, StreamType
    <3>2. n # 0
      BY <1>5, <2>2 DEF type, Triggers, Tombs
    <3>m. PICK m : m = s[1].mask
      OBVIOUS
    <3>3. Told(g, m, s) /\ m \in {"create", "close_write"}
          /\ (m = "close_write" => g \notin open)
      BY <1>5, <1>o, <3>1, <3>m DEF TombsOnce, Told
    <3>4. ~Told(g, m, Stream)'
      <4>1. ASSUME NEW i \in 1 .. Len(u), u[i].file = g, u[i].mask = m PROVE FALSE
        <5>1. n + i \in 1 .. Len(s) /\ s[n + i].file = g /\ s[n + i].mask = m
          BY <1>1, <4>1
        <5>2. n + i = 1
          BY <1>5, <1>o, <3>1, <3>m, <5>1 DEF TombsOnce
        <5> QED BY <1>1, <3>2, <5>2
      <4> QED BY <3>3, <4>1 DEF Told
    <3>5. reported[g] \in Nat /\ reported'[g] = reported[g] + 1
      BY <2>2, RaiseTyped DEF FilesTyped
    <3> HIDE DEF s, u
    <3>6. reported[g] <= 1
      BY <1>4, <1>5, <3>3
    <3>7. Told(g, "create", Stream)' \/ Told(g, "close_write", Stream)' => reported[g] = 0
      BY <1>3, <1>4, <1>5, <3>3, <3>4
    <3>8. ~(Told(g, "create", Stream)' /\ Told(g, "close_write", Stream)')
      BY <3>3, <3>4
    <3> QED BY <3>5, <3>6, <3>7, <3>8
  <2>3. reported'[g] = reported[g] \/ (raise_event /\ batch # <<>> /\ g = event.file
                                       /\ (n # 0 \/ type \in Triggers))
    BY RaiseTyped
  <2> QED BY <2>1, <2>2, <2>3
<1>6. TombReports(Stream)'
  BY <1>5 DEF TombReports, Told
<1> QED BY <1>2, <1>6 DEF TombsInv

LEMMA TombMask == \A t \in Tombs : MaskOf(t) = "create"
  BY DEF MaskOf, Renamed, Tombs, Triggers

LEMMA AppearTombs ==
    ASSUME FilesTyped, OnceInv, TombsInv, NEW f \in Files, NEW k \in FileKinds, Appear(f, k)
    PROVE  TombsInv'
<1> DEFINE c == IF k.type \in Renamed THEN cookie' ELSE 0
           e == FileEvent(MaskOf(k.type), f, 1, c)
<1>1. /\ kind[f] = NoKind /\ kind' = [kind EXCEPT ![f] = k]
      /\ cookie' = (IF k.type \in Renamed THEN cookie + 1 ELSE cookie)
      /\ open' \subseteq open \cup {f}
      /\ events' = Append(events, e)
      /\ UNCHANGED <<batch, reported>>
  BY DEF Appear, daemon, results
<1>2. c \in Nat
  BY <1>1 DEF FilesTyped
<1>3. e \in FileEvents /\ e.mask = MaskOf(k.type) /\ e.file = f
  BY <1>2, KindOf, FileEventType
<1>4. kind'[f] = k /\ \A g \in Files : kind[g] # NoKind => kind'[g] = kind[g]
  BY <1>1 DEF FilesTyped
<1>5. events' = events \o <<e>>
  BY <1>1, <1>3 DEF FilesTyped
<1>6. k.type \in Tombs => e.mask = "create"
  BY <1>3, TombMask
<1> HIDE DEF e, c
<1>7. ASSUME NEW i \in 1 .. Len(<<e>>), kind'[<<e>>[i].file].type \in Tombs
      PROVE  /\ Len(<<e>>) = 1
             /\ \/ <<e>>[i].mask = "create" /\ kind[<<e>>[i].file] = NoKind
                \/ /\ <<e>>[i].mask = "close_write"
                   /\ <<e>>[i].file \in open /\ <<e>>[i].file \notin open'
  <2>1. <<e>>[i] = e /\ Len(<<e>>) = 1
    BY <1>3, OneEvent
  <2> QED BY <1>1, <1>3, <1>4, <1>6, <1>7, <2>1
<1>8. <<e>> \in Seq(FileEvents)
  BY <1>3, OneEvent
<1> QED BY <1>1, <1>4, <1>5, <1>7, <1>8, GrowTombs

LEMMA WriterTombs ==
    ASSUME FilesTyped, OnceInv, TombsInv, NEW f \in Files, Close(f) \/ Rename(f) \/ Leave(f)
    PROVE  TombsInv'
<1>0. /\ UNCHANGED <<kind, batch, reported>> /\ open' \subseteq open
      /\ disk \in [Files -> Nat] /\ disk[f] \in Nat /\ cookie \in Nat /\ cookie + 1 \in Nat
  BY DEF Close, Rename, Leave, daemon, results, FilesTyped
<1>m. {"close_write", "moved_from", "moved_to"} \subseteq Masks
  BY DEF Masks
<1>r. kind[f].type \in Renamed => kind[f].type \notin Tombs
  BY DEF Renamed, Tombs
<1>1. CASE Close(f)
  <2> DEFINE e == FileEvent("close_write", f, 1, 0)
  <2>1. e \in FileEvents /\ e.mask = "close_write" /\ e.file = f
    BY <1>m, FileEventType
  <2>2. /\ open' = open \ {f} /\ f \in open /\ events' = Append(events, e)
    BY <1>1 DEF Close
  <2>3. events' = events \o <<e>>
    BY <2>1, <2>2 DEF FilesTyped
  <2> HIDE DEF e
  <2>4. \A i \in 1 .. Len(<<e>>) :
           /\ Len(<<e>>) = 1 /\ <<e>>[i].mask = "close_write"
           /\ <<e>>[i].file \in open /\ <<e>>[i].file \notin open'
    BY <2>1, <2>2, OneEvent
  <2>5. <<e>> \in Seq(FileEvents)
    BY <2>1, OneEvent
  <2> QED BY <1>0, <2>3, <2>4, <2>5, GrowTombs
<1>2. CASE Rename(f)
  <2> DEFINE t == <<FileEvent("moved_from", f, disk[f], cookie'),
                    FileEvent("moved_to", f, disk'[f], cookie')>>
  <2>1. /\ disk[f] \in Nat \ {0} /\ cookie' \in Nat /\ disk'[f] \in Nat \ {0}
        /\ events' = events \o t /\ kind[f].type \in Renamed
    BY <1>0, <1>2 DEF Rename
  <2>2. /\ FileEvent("moved_from", f, disk[f], cookie') \in FileEvents
        /\ FileEvent("moved_to", f, disk'[f], cookie') \in FileEvents
        /\ FileEvent("moved_from", f, disk[f], cookie').file = f
        /\ FileEvent("moved_to", f, disk'[f], cookie').file = f
    BY <1>m, <2>1, FileEventType
  <2>3. t \in Seq(FileEvents) /\ \A i \in 1 .. Len(t) : t[i].file = f
    BY <2>2
  <2> HIDE DEF t
  <2> QED BY <1>0, <1>r, <2>1, <2>3, GrowTombs
<1>3. CASE Leave(f) /\ events' = events
  <2>1. Shifted(0) /\ UNCHANGED open
    BY <1>0, <1>3, StreamSame DEF Leave
  <2> QED BY <1>0, <2>1, ShiftTombs
<1>4. CASE /\ Leave(f) /\ kind[f].type \in Renamed /\ cookie' = cookie + 1
           /\ events' = Append(events, FileEvent("moved_from", f, disk[f], cookie'))
  <2> DEFINE e == FileEvent("moved_from", f, disk[f], cookie')
  <2>1. disk[f] \in Nat \ {0}
    BY <1>0, <1>4 DEF Leave
  <2>2. e \in FileEvents /\ e.file = f
    BY <1>0, <1>4, <1>m, <2>1, FileEventType
  <2>3. events' = events \o <<e>>
    BY <1>4, <2>2 DEF FilesTyped
  <2> HIDE DEF e
  <2>4. <<e>> \in Seq(FileEvents) /\ \A i \in 1 .. Len(<<e>>) : <<e>>[i].file = f
    BY <2>2, OneEvent
  <2> QED BY <1>0, <1>4, <1>r, <2>3, <2>4, GrowTombs
<1> QED BY <1>1, <1>2, <1>3, <1>4 DEF Leave

LEMMA TombsInit == CInit => TombsInv
<1> SUFFICES ASSUME CInit PROVE TombsInv
  OBVIOUS
<1>1. /\ open = {} /\ reported = [f \in Files |-> 0] /\ batch = <<>> /\ events = <<>>
  BY DEF CInit
<1>2. Len(Stream) = 0
  BY <1>1 DEF Stream
<1>3. \A f \in Files : reported[f] = 0
  BY <1>1
<1> QED BY <1>2, <1>3 DEF TombsInv, TombsOnce, TombReports

(* The steps of the daemon take events from the stream.                     *)
LEMMA DaemonTombs ==
    ASSUME FilesTyped, FilesTyped', TombsInv, UNCHANGED <<kind, open>>,
           \/ /\ UNCHANGED <<batch, events>>
              /\ \/ reported' = reported
                 \/ raise_event /\ batch # <<>> /\ type \in Triggers
           \/ /\ batch # <<>> /\ batch' \in {<<>>, Tail(batch)} /\ events' = events
              /\ raise_event \/ reported' = reported
    PROVE  TombsInv'
<1>1. CASE /\ UNCHANGED <<batch, events>>
           /\ \/ reported' = reported
              \/ raise_event /\ batch # <<>> /\ type \in Triggers
  BY <1>1, StreamSame, ShiftTombs
<1>2. CASE /\ batch # <<>> /\ batch' = Tail(batch) /\ events' = events
           /\ raise_event \/ reported' = reported
  <2> DEFINE n == 1
  <2>1. Shifted(n) /\ n # 0
    BY <1>2, StreamDone
  <2> HIDE DEF n
  <2> QED BY <1>2, <2>1, ShiftTombs
<1>3. CASE /\ batch # <<>> /\ batch' = <<>> /\ events' = events
           /\ raise_event \/ reported' = reported
  <2> DEFINE n == Len(batch)
  <2>1. Shifted(n) /\ n # 0
    BY <1>3, StreamDrop, EventAtHand
  <2> HIDE DEF n
  <2> QED BY <1>3, <2>1, ShiftTombs
<1> QED BY <1>1, <1>2, <1>3

LEMMA BeginTombs ==
    ASSUME FilesTyped, FilesTyped', TombsInv, batch # <<>>, NEW needed, Begin(needed)
    PROVE  TombsInv'
<1>1. UNCHANGED <<kind, open, events>>
  BY DEF Begin, writers
<1> QED BY <1>1, DaemonTombs DEF Begin, Go, Failed

LEMMA TombsNext ==
    ASSUME FilesTyped, FilesTyped', OnceInv, TombsInv, [CNext]_cvars
    PROVE  TombsInv'
<1>1. ASSUME NEW f \in Files, NEW k \in FileKinds, Appear(f, k) PROVE TombsInv'
  BY <1>1, AppearTombs
<1>2. ASSUME NEW f \in Files, Close(f) \/ Rename(f) \/ Leave(f) PROVE TombsInv'
  BY <1>2, WriterTombs
<1>3. CASE Rotate \/ copy_packet_fails \/ Stop \/ UNCHANGED cvars
  <2>1. UNCHANGED <<kind, open, events, batch, reported>>
    BY <1>3 DEF Rotate, copy_packet_fails, Stop, cvars, writers, daemon, results
  <2> QED BY <2>1, DaemonTombs
<1>4. CASE Read
  <2>1. UNCHANGED <<kind, open, reported>>
    BY <1>4 DEF Read, results
  <2> QED BY <1>4, <2>1, StreamRead, ShiftTombs
<1>5. CASE manage_duplicate_dropbox_events \/ ignore_pb_file \/ core_dump_disabled
  <2>1. /\ batch # <<>> /\ batch' \in {<<>>, Tail(batch)}
        /\ UNCHANGED <<kind, open, events, reported>>
    BY <1>5 DEF manage_duplicate_dropbox_events, ignore_pb_file, core_dump_disabled,
                Handling, Done, Failed, writers, results
  <2> QED BY <2>1, DaemonTombs
<1>6. CASE process_usercrash_event \/ process_hprof_event \/ process_apcore_event
           \/ process_lost_event \/ process_info_and_error \/ process_stat_event
  <2>1. batch # <<>> /\ (Begin(TRUE) \/ Begin(FALSE))
    BY <1>6 DEF process_usercrash_event, process_hprof_event, process_apcore_event,
                process_lost_event, process_info_and_error, process_stat_event, Handling
  <2> QED BY <2>1, BeginTombs
<1>7. CASE do_copy_tail \/ do_copy \/ copy_and_remove \/ backup_apcoredump
  <2>1. UNCHANGED <<kind, open, events, batch, reported>>
    BY <1>7 DEF do_copy_tail, do_copy, copy_and_remove, backup_apcoredump, Go, writers
  <2> QED BY <2>1, DaemonTombs
<1>8. CASE do_copy_circular \/ read_trigger
  <2>1. UNCHANGED <<kind, open, events, batch, reported>>
    BY <1>8 DEF do_copy_circular, read_trigger, Go, writers, results
  <2> QED BY <2>1, DaemonTombs
<1>9. CASE copy_packet \/ end_packet \/ end_trigger
  <2>1. /\ UNCHANGED <<kind, open, events>> /\ at = "packet"
        /\ raise_event \/ reported' = reported
        /\ batch' \in {batch, <<>>, Tail(batch)}
    BY <1>9 DEF copy_packet, end_packet, end_trigger, InPacket, Done, Failed, writers
  <2>2. batch # <<>> /\ type \in Triggers
    BY <2>1 DEF FilesTyped, OnceInv, BegunOK
  <2> QED BY <2>1, <2>2, DaemonTombs
<1>10. CASE Raise
  <2>1. /\ UNCHANGED <<kind, open, events>> /\ at = "raise" /\ raise_event
        /\ batch' = Tail(batch)
    BY <1>10 DEF Raise, Done, writers
  <2>2. batch # <<>>
    BY <2>1 DEF FilesTyped
  <2> QED BY <2>1, <2>2, DaemonTombs
<1>11. CASE Kill
  <2>1. UNCHANGED <<kind, open, reported>> /\ events' = <<>> /\ batch' = <<>>
    BY <1>11 DEF Kill
  <2>2. Len(Stream') = 0
    BY <2>1 DEF Stream
  <2>3. \A g, m : Told(g, m, Stream)' => Told(g, m, Stream)
    BY <2>1, <2>2 DEF Told
  <2>4. TombReports(Stream)'
    <3>1. TombReports(Stream)
      BY DEF TombsInv
    <3> QED BY <2>1, <2>3, <3>1 DEF TombReports
  <2>5. TombsOnce(Stream)'
    BY <2>2 DEF TombsOnce
  <2> QED BY <2>4, <2>5 DEF TombsInv
<1> QED
  BY <1>1, <1>2, <1>3, <1>4, <1>5, <1>6, <1>7, <1>8, <1>9, <1>10, <1>11 DEF CNext
----------------------------------------------------------------------------
(* Nothing is lost.                                                         *)
LEMMA ShiftComing ==
    ASSUME FilesTyped, Coming, NEW n, Shifted(n), UNCHANGED <<kind, coredump, open>>,
           given_up \subseteq given_up',
           \A f \in Files : reported'[f] = 0 => reported[f] = 0,
           \A i \in 1 .. n, f \in Files : Stream[i].file = f /\ Fresh(Stream[i]) => ~Owed(f)'
    PROVE  Coming'
<1> SUFFICES ASSUME NEW f \in Files, Owed(f)', f \notin open
             PROVE  \E i \in 1 .. Len(Stream') : Stream'[i].file = f /\ Fresh(Stream'[i])
  BY DEF Coming, Fresh
<1>1. Owed(f)
  BY DEF Owed
<1>2. PICK i \in 1 .. Len(Stream) : Stream[i].file = f /\ Fresh(Stream[i])
  BY <1>1 DEF Coming
<1>3. n \in Nat /\ Len(Stream) \in Nat /\ Len(Stream') = Len(Stream) - n
  BY StreamType DEF Shifted
<1>4. i \notin 1 .. n
  BY <1>2
<1>5. i - n \in 1 .. Len(Stream') /\ n + (i - n) = i
  BY <1>3, <1>4
<1>6. Stream'[i - n] = Stream[i]
  BY <1>5 DEF Shifted
<1> QED BY <1>2, <1>5, <1>6

LEMMA GrowComing ==
    ASSUME FilesTyped, Coming, NEW t \in Seq(FileEvents), events' = events \o t,
           UNCHANGED <<batch, reported, given_up, coredump>>,
           \A g \in Files : kind[g] # NoKind => kind'[g] = kind[g],
           \A f \in Files :
              f \in open \/ (kind[f] = NoKind /\ kind'[f] # NoKind) =>
                 f \in open' \/ \E i \in 1 .. Len(t) : t[i].file = f /\ Fresh(t[i])
    PROVE  Coming'
<1> SUFFICES ASSUME NEW f \in Files, Owed(f)', f \notin open'
             PROVE  \E i \in 1 .. Len(Stream') : Stream'[i].file = f /\ Fresh(Stream'[i])
  BY DEF Coming, Fresh
<1>0. /\ Len(Stream') = Len(Stream) + Len(t) /\ Len(t) \in Nat /\ Len(Stream) \in Nat
      /\ \A i \in 1 .. Len(Stream) : Stream'[i] = Stream[i]
      /\ \A i \in 1 .. Len(t) : Stream'[Len(Stream) + i] = t[i]
  BY StreamType, StreamGrows
<1>1. CASE f \in open \/ (kind[f] = NoKind /\ kind'[f] # NoKind)
  <2>1. PICK i \in 1 .. Len(t) : t[i].file = f /\ Fresh(t[i])
    BY <1>1
  <2>2. Len(Stream) + i \in 1 .. Len(Stream')
    BY <1>0
  <2>3. Stream'[Len(Stream) + i] = t[i]
    BY <1>0
  <2> QED BY <2>1, <2>2, <2>3
<1>2. CASE f \notin open /\ kind'[f] = kind[f]
  <2>1. Owed(f)
    BY <1>2 DEF Owed
  <2>2. PICK i \in 1 .. Len(Stream) : Stream[i].file = f /\ Fresh(Stream[i])
    BY <1>2, <2>1 DEF Coming
  <2>3. i \in 1 .. Len(Stream') /\ Stream'[i] = Stream[i]
    BY <1>0
  <2> QED BY <2>2, <2>3
<1> QED BY <1>1, <1>2

(* The writers.                                                             *)
LEMMA AppearComing ==
    ASSUME FilesTyped, Coming, CoresKept, NEW f \in Files, NEW k \in FileKinds, Appear(f, k)
    PROVE  Coming' /\ CoresKept'
<1> DEFINE c == IF k.type \in Renamed THEN cookie' ELSE 0
           e == FileEvent(MaskOf(k.type), f, 1, c)
<1>1. /\ kind[f] = NoKind /\ kind' = [kind EXCEPT ![f] = k]
      /\ disk' = [disk EXCEPT ![f] = 1]
      /\ cookie' = (IF k.type \in Renamed THEN cookie + 1 ELSE cookie)
      /\ open \subseteq open'
      /\ events' = Append(events, e)
      /\ UNCHANGED <<batch, reported, given_up, coredump, saved>>
  BY DEF Appear, daemon, results
<1>2. c \in Nat
  BY <1>1 DEF FilesTyped
<1>3. e \in FileEvents /\ e.mask = MaskOf(k.type) /\ e.file = f /\ e.name = 1
  BY <1>2, KindOf, FileEventType
<1>4. Fresh(e)
  BY <1>3 DEF Fresh, MaskOf
<1>5. /\ kind'[f] = k /\ disk'[f] = 1
      /\ \A g \in Files : g # f => kind'[g] = kind[g] /\ disk'[g] = disk[g]
  BY <1>1 DEF FilesTyped
<1>6. events' = events \o <<e>>
  BY <1>1, <1>3 DEF FilesTyped
<1> HIDE DEF e, c
<1>7. Coming'
  <2>1. \A g \in Files :
           g \in open \/ (kind[g] = NoKind /\ kind'[g] # NoKind) =>
              g \in open' \/ \E i \in 1 .. Len(<<e>>) : <<e>>[i].file = g /\ Fresh(<<e>>[i])
    <3> SUFFICES ASSUME NEW g \in Files, g \notin open',
                        g \in open \/ (kind[g] = NoKind /\ kind'[g] # NoKind)
                 PROVE  <<e>>[1].file = g /\ Fresh(<<e>>[1]) /\ 1 \in 1 .. Len(<<e>>)
      OBVIOUS
    <3>1. g = f
      BY <1>1, <1>5
    <3> QED BY <1>3, <1>4, <3>1, OneEvent
  <2>2. \A g \in Files : kind[g] # NoKind => kind'[g] = kind[g]
    BY <1>1, <1>5
  <2> QED BY <1>1, <1>3, <1>6, <2>1, <2>2, OneEvent, GrowComing
<1>8. CoresKept'
  BY <1>1, <1>5 DEF CoresKept
<1> QED BY <1>7, <1>8

LEMMA WriterComing ==
    ASSUME FilesTyped, Coming, CoresKept, NEW f \in Files, Close(f) \/ Rename(f) \/ Leave(f)
    PROVE  Coming' /\ CoresKept'
<1>0. /\ UNCHANGED <<kind, batch, reported, given_up, coredump, saved>>
  BY DEF Close, Rename, Leave, daemon, results
<1>m. {"close_write", "moved_from", "moved_to"} \subseteq Masks
  BY DEF Masks
<1>d. /\ disk \in [Files -> Nat] /\ disk[f] \in Nat /\ cookie \in Nat /\ cookie + 1 \in Nat
  BY DEF FilesTyped
<1>1. CASE Close(f)
  <2> DEFINE e == FileEvent("close_write", f, 1, 0)
  <2>1. e \in FileEvents /\ e.mask = "close_write" /\ e.file = f /\ e.name = 1
    BY <1>m, FileEventType
  <2>2. Fresh(e)
    BY <2>1 DEF Fresh
  <2>3. open' = open \ {f} /\ events' = Append(events, e) /\ disk' = disk
    BY <1>1 DEF Close
  <2>4. events' = events \o <<e>>
    BY <2>1, <2>3 DEF FilesTyped
  <2> HIDE DEF e
  <2>5. \A g \in Files : g \in open =>
           g \in open' \/ \E i \in 1 .. Len(<<e>>) : <<e>>[i].file = g /\ Fresh(<<e>>[i])
    <3> SUFFICES ASSUME NEW g \in Files, g \notin open', g \in open
                 PROVE  <<e>>[1].file = g /\ Fresh(<<e>>[1]) /\ 1 \in 1 .. Len(<<e>>)
      OBVIOUS
    <3> QED BY <2>1, <2>2, <2>3, OneEvent
  <2>6. Coming'
    <3>1. <<e>> \in Seq(FileEvents)
      BY <2>1, OneEvent
    <3>2. \A g \in Files : kind[g] # NoKind => kind'[g] = kind[g]
      BY <1>0
    <3> QED BY <1>0, <2>4, <2>5, <3>1, <3>2, GrowComing
  <2> QED BY <1>0, <2>3, <2>6 DEF CoresKept
<1>2. CASE Rename(f)
  <2> DEFINE t == <<FileEvent("moved_from", f, disk[f], cookie'),
                    FileEvent("moved_to", f, disk'[f], cookie')>>
  <2>1. /\ disk[f] \in Nat \ {0} /\ cookie' \in Nat /\ disk'[f] = disk[f] + 1
        /\ disk'[f] \in Nat \ {0} /\ open' = open /\ events' = events \o t
        /\ \A g \in Files : g # f => disk'[g] = disk[g]
    BY <1>2, <1>d DEF Rename
  <2>2. t \in Seq(FileEvents)
    <3>1. /\ FileEvent("moved_from", f, disk[f], cookie') \in FileEvents
          /\ FileEvent("moved_to", f, disk'[f], cookie') \in FileEvents
      BY <1>m, <2>1, FileEventType
    <3> QED BY <3>1
  <2>3. Coming'
    <3> HIDE DEF t
    <3> QED BY <1>0, <2>1, <2>2, GrowComing
  <2>4. CoresKept'
    BY <1>0, <2>1 DEF CoresKept
  <2> QED BY <2>3, <2>4
<1>3. CASE Leave(f)
  <2>1. /\ disk[f] \in Nat \ {0} /\ open' = open /\ disk' = [disk EXCEPT ![f] = 0]
        /\ kind[f].type \in Renamed \cup {"tombstone"}
    BY <1>3, <1>d DEF Leave
  <2>2. CoresKept'
    <3>1. kind[f].type # "core"
      BY <2>1 DEF Renamed
    <3>2. \A g \in Files : g # f => disk'[g] = disk[g]
      BY <1>d, <2>1
    <3> QED BY <1>0, <3>1, <3>2 DEF CoresKept
  <2>3. Coming'
    <3>1. CASE events' = events
      <4>1. Stream' = Stream
        BY <1>0, <3>1, StreamSame
      <4> QED BY <1>0, <2>1, <4>1 DEF Coming, Owed
    <3>2. CASE /\ cookie' = cookie + 1
               /\ events' = Append(events, FileEvent("moved_from", f, disk[f], cookie'))
      <4> DEFINE e == FileEvent("moved_from", f, disk[f], cookie')
      <4>1. e \in FileEvents
        BY <1>d, <1>m, <2>1, <3>2, FileEventType
      <4>2. events' = events \o <<e>>
        BY <3>2, <4>1 DEF FilesTyped
      <4> HIDE DEF e
      <4> QED BY <1>0, <2>1, <4>1, <4>2, OneEvent, GrowComing
    <3> QED BY <1>3, <3>1, <3>2 DEF Leave
  <2> QED BY <2>2, <2>3
<1> QED BY <1>1, <1>2, <1>3

(* The daemon.  An event that leaves the stream leaves nothing owed.        *)
LEMMA SameComing ==
    ASSUME FilesTyped, Coming, Shifted(0), UNCHANGED <<kind, coredump, open>>,
           given_up \subseteq given_up',
           \A f \in Files : reported'[f] = 0 => reported[f] = 0
    PROVE  Coming'
<1> DEFINE n == 0
<1>1. Shifted(n) /\ 1 .. n = {}
  OBVIOUS
<1>2. \A i \in 1 .. n, f \in Files : Stream[i].file = f /\ Fresh(Stream[i]) => ~Owed(f)'
  BY <1>1
<1> HIDE DEF n
<1> QED BY <1>1, <1>2, ShiftComing

LEMMA DoneComing ==
    ASSUME FilesTyped, FilesTyped', Coming, batch # <<>>, Done,
           UNCHANGED <<kind, coredump, open, events>>, given_up \subseteq given_up',
           \A f \in Files : reported'[f] = 0 => reported[f] = 0,
           \A f \in Files : f = event.file /\ Fresh(event) => ~Owed(f)'
    PROVE  Coming'
<1>1. Shifted(1) /\ event = Stream[1]
  BY StreamDone, StreamType DEF Done
<1> DEFINE n == 1
<1>2. Shifted(n) /\ \A i \in 1 .. n : i = 1
  BY <1>1
<1>3. \A i \in 1 .. n, f \in Files : Stream[i].file = f /\ Fresh(Stream[i]) => ~Owed(f)'
  BY <1>1, <1>2
<1> HIDE DEF n
<1> QED BY <1>2, <1>3, ShiftComing

LEMMA FailedComing ==
    ASSUME FilesTyped, FilesTyped', Coming, batch # <<>>, NEW told, Failed(told),
           UNCHANGED <<kind, coredump, open, events>>,
           \A f \in Files : reported'[f] = 0 => reported[f] = 0,
           \A f \in Files : f = event.file /\ told => ~Owed(f)'
    PROVE  Coming'
<1>1. /\ batch' = <<>>
      /\ given_up' = given_up \cup Dropped(IF told THEN Tail(batch) ELSE batch)
  BY DEF Failed
<1>2. Shifted(Len(batch)) /\ event = batch[1]
  BY <1>1, StreamDrop, EventAtHand
<1>3. ASSUME NEW i \in 1 .. Len(batch), NEW f \in Files, Stream[i].file = f
      PROVE  ~Owed(f)'
  <2>1. Stream[i] = batch[i]
    BY StreamType
  <2>2. CASE i # 1 \/ ~told
    <3>1. <<batch[i].file, batch[i].mask>> \in given_up'
      BY <1>1, <2>2, DroppedHas
    <3>2. <<batch[i].file, batch[i].mask>>[1] = f
      BY <1>3, <2>1
    <3> QED BY <3>1, <3>2 DEF Owed
  <2>3. CASE i = 1 /\ told
    BY <1>2, <1>3, <2>1, <2>3
  <2> QED BY <2>2, <2>3
<1> DEFINE n == Len(batch)
<1>4. Shifted(n) /\ \A i \in 1 .. n, f \in Files : Stream[i].file = f => ~Owed(f)'
  BY <1>2, <1>3
<1>5. given_up \subseteq given_up'
  BY <1>1
<1> HIDE DEF n
<1> QED BY <1>4, <1>5, ShiftComing

(* A report settles the file of the event.                                  *)
LEMMA RaiseSettles ==
    ASSUME FilesTyped, batch # <<>>, raise_event
    PROVE  /\ \A f \in Files : reported'[f] = 0 => reported[f] = 0
           /\ \A f \in Files : f = event.file => ~Owed(f)'
<1>1. /\ reported'[event.file] = reported[event.file] + 1
      /\ \A f \in Files : f # event.file => reported'[f] = reported[f]
      /\ reported[event.file] \in Nat
  BY RaiseTyped, EventAtHand DEF FilesTyped
<1>2. reported'[event.file] # 0
  BY <1>1
<1> QED BY <1>1, <1>2 DEF Owed

LEMMA BeginComing ==
    ASSUME FilesTyped, FilesTyped', Coming, CoresKept, batch # <<>>,
           NEW needed, Begin(needed)
    PROVE  Coming' /\ CoresKept'
<1>1. UNCHANGED <<kind, coredump, open, events, disk, saved>>
  BY DEF Begin, writers
<1>2. CASE UNCHANGED <<batch, reported, given_up>>
  BY <1>1, <1>2, StreamSame, SameComing DEF CoresKept
<1>3. CASE raise_event /\ Failed(TRUE)
  <2>1. Coming'
    BY <1>1, <1>3, RaiseSettles, FailedComing
  <2> QED BY <1>1, <2>1 DEF CoresKept
<1> QED BY <1>2, <1>3 DEF Begin, Go

(* A core dump is removed only once it is copied.                           *)
LEMMA CopyKeepsCores ==
    ASSUME FilesTyped, CoresKept, batch # <<>>, kind' = kind,
           saved \subseteq saved',
           \/ disk' = disk
           \/ remove /\ (type = "core" => event.file \in saved')
    PROVE  CoresKept'
<1> SUFFICES ASSUME NEW f \in Files, kind[f].type = "core"
             PROVE  disk'[f] > 0 \/ f \in saved'
  BY DEF CoresKept
<1>1. disk[f] > 0 \/ f \in saved
  BY DEF CoresKept
<1>2. CASE disk' = disk
  BY <1>1, <1>2
<1>3. CASE remove /\ (type = "core" => event.file \in saved')
  <2>1. f # event.file => disk'[f] = disk[f]
    BY <1>3, RemoveTyped
  <2> QED BY <1>1, <1>3, <2>1 DEF type
<1> QED BY <1>2, <1>3

LEMMA CopyComing ==
    ASSUME FilesTyped, Coming, CoresKept,
           do_copy_tail \/ do_copy \/ copy_and_remove \/ backup_apcoredump
    PROVE  Coming' /\ CoresKept'
<1>1. /\ UNCHANGED <<kind, coredump, open, events, batch, reported, given_up>>
      /\ batch # <<>>
  BY DEF do_copy_tail, do_copy, copy_and_remove, backup_apcoredump, Handling, Go, writers
<1>2. Coming'
  BY <1>1, StreamSame, SameComing
<1>3. /\ saved \subseteq saved'
      /\ \/ disk' = disk
         \/ remove /\ (type = "core" => event.file \in saved')
  <2>1. CASE do_copy_tail \/ copy_and_remove
    BY <2>1 DEF do_copy_tail, copy_and_remove, Handling, MayCopy, Copied, Notes
  <2>2. CASE do_copy
    BY <2>2 DEF do_copy, MayCopy, Copied, writers
  <2>3. CASE backup_apcoredump
    BY <2>3 DEF backup_apcoredump, Copied
  <2> QED BY <2>1, <2>2, <2>3
<1> QED BY <1>1, <1>2, <1>3, CopyKeepsCores

LEMMA DuplicateComing ==
    ASSUME FilesTyped, FilesTyped', OnceInv, Coming, CoresKept,
           manage_duplicate_dropbox_events
    PROVE  Coming' /\ CoresKept'
<1>1. /\ batch # <<>> /\ Done /\ IsDuplicate(event)
      /\ UNCHANGED <<kind, coredump, open, events, disk, reported, saved, given_up>>
  BY DEF manage_duplicate_dropbox_events, Handling, writers
<1>2. 1 \in 1 .. Len(Stream) /\ event = Stream[1]
  BY <1>1, StreamType
<1>3. ~Fresh(event)
  <2>1. CASE event.mask = "moved_from"
    BY <2>1 DEF Fresh
  <2>2. CASE /\ event.mask = "moved_to"
             /\ previous.cookie # 0 /\ previous.cookie = event.cookie
    <3>1. Remembered(event) /\ previous.name # 0 /\ previous.name \in Nat
      BY <1>2, <2>2 DEF OnceInv, CookiesOK, FilesTyped
    <3> QED BY <3>1 DEF Remembered, Halves, Fresh
  <2> QED BY <1>1, <2>1, <2>2 DEF IsDuplicate
<1>4. Coming'
  BY <1>1, <1>3, DoneComing
<1> QED BY <1>1, <1>4 DEF CoresKept

LEMMA PacketComing ==
    ASSUME FilesTyped, FilesTyped', Coming, CoresKept, copy_packet
    PROVE  Coming' /\ CoresKept'
<1>1. /\ UNCHANGED <<kind, coredump, open, events, disk, reported, saved>> /\ at = "packet"
  BY DEF copy_packet, InPacket, writers
<1>2. batch # <<>>
  BY <1>1 DEF FilesTyped
<1>3. CoresKept'
  BY <1>1 DEF CoresKept
<1>4. CASE UNCHANGED <<batch, given_up>>
  BY <1>1, <1>3, <1>4, StreamSame, SameComing
<1>5. CASE Failed(reported[event.file] > 0)
  <2>1. \A f \in Files : f = event.file /\ reported[event.file] > 0 => ~Owed(f)'
    BY <1>1 DEF Owed
  <2> DEFINE told == reported[event.file] > 0
  <2>2. Failed(told) /\ \A f \in Files : f = event.file /\ told => ~Owed(f)'
    BY <1>5, <2>1
  <2> HIDE DEF told
  <2> QED BY <1>1, <1>2, <1>3, <2>2, FailedComing
<1> QED BY <1>4, <1>5 DEF copy_packet

LEMMA TriggerComing ==
    ASSUME FilesTyped, FilesTyped', OnceInv, Coming, CoresKept, end_trigger
    PROVE  Coming' /\ CoresKept'
<1>1. /\ UNCHANGED <<kind, coredump, open, events>> /\ at = "packet"
  BY DEF end_trigger
<1>2. batch # <<>> /\ type \in Triggers /\ event.file \in Files
  BY <1>1, EventAtHand DEF FilesTyped, OnceInv, BegunOK
<1>3. /\ saved \subseteq saved' /\ (raise_event \/ reported' = reported)
      /\ disk' = disk \/ remove
  BY DEF end_trigger, Copied
<1>4. CoresKept'
  <2>1. type # "core"
    BY <1>2 DEF Triggers
  <2> QED BY <1>1, <1>2, <1>3, <2>1, CopyKeepsCores
<1>5. \A f \in Files : reported'[f] = 0 => reported[f] = 0
  BY <1>2, <1>3, RaiseSettles
<1>6. CASE Failed(FALSE)
  BY <1>1, <1>2, <1>4, <1>5, <1>6, FailedComing
<1>7. CASE Failed(reported'[event.file] > 0)
  <2> DEFINE told == reported'[event.file] > 0
  <2>1. Failed(told) /\ \A f \in Files : f = event.file /\ told => ~Owed(f)'
    BY <1>7 DEF Owed
  <2> HIDE DEF told
  <2> QED BY <1>1, <1>2, <1>4, <1>5, <2>1, FailedComing
<1>8. CASE Done /\ given_up' = IF reported'[event.file] > 0 THEN given_up
                               ELSE given_up \cup {<<event.file, "no log">>}
  <2>1. given_up \subseteq given_up'
    BY <1>8
  <2>2. \A f \in Files : f = event.file => ~Owed(f)'
    <3>1. CASE reported'[event.file] > 0
      BY <3>1 DEF Owed
    <3>2. CASE <<event.file, "no log">> \in given_up'
      <4>1. <<event.file, "no log">>[1] = event.file
        OBVIOUS
      <4> QED BY <3>2, <4>1 DEF Owed
    <3> QED BY <1>8, <3>1, <3>2
  <2> QED BY <1>1, <1>2, <1>4, <1>5, <1>8, <2>1, <2>2, DoneComing
<1> QED BY <1>6, <1>7, <1>8 DEF end_trigger

(* A kill gives up all that was to come.                                    *)
LEMMA KillComing ==
    ASSUME FilesTyped, Coming, CoresKept, Kill
    PROVE  Coming' /\ CoresKept'
<1>1. /\ UNCHANGED <<kind, coredump, open, disk, reported, saved>>
      /\ given_up' = given_up \cup Dropped(Stream)
  BY DEF Kill, Stream
<1>2. Coming'
  <2> SUFFICES ASSUME NEW f \in Files, Owed(f)' PROVE f \in open'
    BY DEF Coming
  <2>1. Owed(f)
    BY <1>1 DEF Owed
  <2>2. ASSUME NEW i \in 1 .. Len(Stream), Stream[i].file = f PROVE FALSE
    <3>1. i \in DOMAIN Stream
      BY StreamType
    <3>2. <<Stream[i].file, Stream[i].mask>> \in given_up'
      BY <1>1, <3>1 DEF Dropped
    <3>3. <<Stream[i].file, Stream[i].mask>>[1] = f
      BY <2>2
    <3> QED BY <3>2, <3>3 DEF Owed
  <2> QED BY <1>1, <2>1, <2>2 DEF Coming
<1> QED BY <1>1, <1>2 DEF CoresKept

LEMMA ComingInit == CInit => Coming /\ CoresKept
<1> SUFFICES ASSUME CInit PROVE \A f \in Files : kind[f].type = "none"
  BY DEF Coming, CoresKept, Owed
<1> QED BY DEF CInit, NoKind

LEMMA ComingNext ==
    ASSUME FilesTyped, FilesTyped', OnceInv, Coming, CoresKept, [CNext]_cvars
    PROVE  Coming' /\ CoresKept'
<1>1. ASSUME NEW f \in Files, NEW k \in FileKinds, Appear(f, k) PROVE Coming' /\ CoresKept'
  BY <1>1, AppearComing
<1>2. ASSUME NEW f \in Files, Close(f) \/ Rename(f) \/ Leave(f) PROVE Coming' /\ CoresKept'
  BY <1>2, WriterComing
<1>3. CASE Rotate \/ copy_packet_fails \/ Stop \/ UNCHANGED cvars
  <2>1. UNCHANGED <<kind, disk, open, events, batch, coredump, reported, saved, given_up>>
    BY <1>3 DEF Rotate, copy_packet_fails, Stop, cvars, writers, daemon, results
  <2> QED BY <2>1, StreamSame, SameComing DEF CoresKept
<1>4. CASE Read
  <2>1. UNCHANGED <<kind, disk, open, coredump, reported, saved, given_up>>
    BY <1>4 DEF Read, results
  <2> QED BY <1>4, <2>1, StreamRead, SameComing DEF CoresKept
<1>5. CASE manage_duplicate_dropbox_events
  BY <1>5, DuplicateComing
<1>6. CASE ignore_pb_file
  <2>1. /\ batch # <<>> /\ type = "pb" /\ Done
        /\ UNCHANGED <<kind, disk, open, events, coredump, reported, saved, given_up>>
    BY <1>6 DEF ignore_pb_file, Handling, writers, results
  <2>2. \A f \in Files : f = event.file => ~Owed(f)'
    BY <2>1 DEF Owed, type
  <2> QED BY <2>1, <2>2, DoneComing DEF CoresKept
<1>7. CASE core_dump_disabled
  <2>1. /\ batch # <<>> /\ Failed(FALSE)
        /\ UNCHANGED <<kind, disk, open, events, coredump, reported, saved>>
    BY <1>7 DEF core_dump_disabled, Handling, writers
  <2> QED BY <2>1, FailedComing DEF CoresKept
<1>8. CASE process_usercrash_event \/ process_hprof_event \/ process_apcore_event
           \/ process_lost_event \/ process_info_and_error \/ process_stat_event
  <2>1. batch # <<>> /\ (Begin(TRUE) \/ Begin(FALSE))
    BY <1>8 DEF process_usercrash_event, process_hprof_event, process_apcore_event,
                process_lost_event, process_info_and_error, process_stat_event, Handling
  <2> QED BY <2>1, BeginComing
<1>9. CASE do_copy_tail \/ do_copy \/ copy_and_remove \/ backup_apcoredump
  BY <1>9, CopyComing
<1>10. CASE do_copy_circular \/ read_trigger
  <2>1. UNCHANGED <<kind, disk, open, events, batch, coredump, reported, saved, given_up>>
    BY <1>10 DEF do_copy_circular, read_trigger, Go, writers, results
  <2> QED BY <2>1, StreamSame, SameComing DEF CoresKept
<1>11. CASE copy_packet
  BY <1>11, PacketComing
<1>12. CASE end_packet
  <2>1. /\ UNCHANGED <<kind, disk, open, events, batch, coredump, saved, given_up>>
        /\ at = "packet" /\ (raise_event \/ reported' = reported)
    BY <1>12 DEF end_packet, writers
  <2>2. \A f \in Files : reported'[f] = 0 => reported[f] = 0
    BY <2>1, RaiseSettles DEF FilesTyped
  <2> QED BY <2>1, <2>2, StreamSame, SameComing DEF CoresKept
<1>13. CASE end_trigger
  BY <1>13, TriggerComing
<1>14. CASE Raise
  <2>1. /\ UNCHANGED <<kind, disk, open, events, coredump, saved, given_up>>
        /\ at = "raise" /\ raise_event /\ Done
    BY <1>14 DEF Raise, writers
  <2>2. batch # <<>>
    BY <2>1 DEF FilesTyped
  <2> QED BY <2>1, <2>2, RaiseSettles, DoneComing DEF CoresKept
<1>15. CASE Kill
  BY <1>15, KillComing
<1> QED
  BY <1>1, <1>2, <1>3, <1>4, <1>5, <1>6, <1>7, <1>8, <1>9, <1>10, <1>11, <1>12,
     <1>13, <1>14, <1>15 DEF CNext

LEMMA ReportsAreOnce == ASSUME FilesTyped, OnceInv, TombsInv PROVE ReportedOnce
<1>1. ASSUME NEW f \in Files, kind[f].type \notin Triggers
      PROVE  reported[f] <= Announced(f) \/ <<f, "moved_from">> \in given_up
  <2>1. CASE kind[f].type \in Tombs
    BY <2>1 DEF TombsInv, TombReports, Announced
  <2>2. CASE kind[f].type \notin Tombs
    BY <1>1, <2>2 DEF OnceInv, ReportsOK, FirstLost, Repeated, Announced
  <2> QED BY <2>1, <2>2
<1> QED BY <1>1 DEF OnceInv, InfosOK, ReportedOnce

LEMMA NothingLost == ASSUME FilesTyped, Coming, CoresKept PROVE NotLost
<1>1. ASSUME events = <<>>, batch = <<>>, open = {}, NEW f \in Files PROVE ~Owed(f)
  <2>1. Len(Stream) = 0
    BY <1>1 DEF Stream
  <2> QED BY <1>1, <2>1 DEF Coming
<1>2. ASSUME NEW f \in Files, ~Owed(f)
      PROVE  \/ kind[f].type \in {"none", "pb"}
             \/ kind[f].type \in Cores /\ ~coredump
             \/ reported[f] > 0
             \/ \E why \in given_up : why[1] = f
  <2>1. reported[f] \in Nat
    BY DEF FilesTyped
  <2> QED BY <1>2, <2>1 DEF Owed
<1> QED BY <1>1, <1>2 DEF NotLost, CoresKept

(* What the copies of the logs of an event hold, for every number of log    *)
(* files, every limit and every number of rotations during a copy           *)
(* (do_copy_circular and process_log_event while logcat renames).           *)
THEOREM LogsAreWhole == CSpec => []LogsWhole
<1>1. CInit => FilesTyped /\ LogsInv
  BY FilesTypedInit, LogsInit
<1>2. FilesTyped /\ LogsInv /\ [CNext]_cvars => (FilesTyped /\ LogsInv)'
  BY FilesTypedNext, LogsNext
<1>3. FilesTyped /\ LogsInv => LogsWhole
  BY WholeLogs
<1> QED BY <1>1, <1>2, <1>3, PTL DEF CSpec

(* manage_duplicate_dropbox_events reports a crash file once through all    *)
(* its renames, over any number of files, reads, failures and kills, unless *)
(* the first half of a rename was dropped, and its INFO events name one     *)
(* file; and a tombstone is reported at most twice, for its creation and    *)
(* for its close.                                                           *)
THEOREM FilesReportedOnce == CSpec => []ReportedOnce
<1>1. CInit => FilesTyped /\ OnceInv /\ TombsInv
  BY FilesTypedInit, OnceInit, TombsInit
<1>2. FilesTyped /\ OnceInv /\ TombsInv /\ [CNext]_cvars
         => (FilesTyped /\ OnceInv /\ TombsInv)'
  BY FilesTypedNext, OnceNext, TombsNext
<1>3. FilesTyped /\ OnceInv /\ TombsInv => ReportedOnce
  BY ReportsAreOnce
<1> QED BY <1>1, <1>2, <1>3, PTL DEF CSpec

(* No callback forgets a file: when nothing is left to handle every file    *)
(* was reported or its events were dropped, and a core dump is always in    *)
(* its directory or in the folder of an event.                              *)
THEOREM FilesNotLost == CSpec => []NotLost
<1>1. CInit => FilesTyped /\ OnceInv /\ Coming /\ CoresKept
  BY FilesTypedInit, OnceInit, ComingInit
<1>2. FilesTyped /\ OnceInv /\ Coming /\ CoresKept /\ [CNext]_cvars
         => (FilesTyped /\ OnceInv /\ Coming /\ CoresKept)'
  BY FilesTypedNext, OnceNext, ComingNext
<1>3. FilesTyped /\ Coming /\ CoresKept => NotLost
  BY NothingLost
<1> QED BY <1>1, <1>2, <1>3, PTL DEF CSpec
=============================================================================
