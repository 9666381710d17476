--------------------------- MODULE HistoryProofs ---------------------------
(***************************************************************************)
(* Proofs about History, for every size of the buffer, of the file and of  *)
(* the set of folder numbers.                                              *)
(***************************************************************************)
EXTENDS History, SequenceTheorems, TLAPS

(* The arithmetic of the circular index. *)
LEMMA ModLess == ASSUME NEW m \in Nat \ {0}, NEW a \in Nat
                 PROVE  a % m \in 0 .. m - 1
  OBVIOUS

LEMMA ModSmall == ASSUME NEW m \in Nat \ {0}, NEW a \in Nat, a < m
                  PROVE  a % m = a
  OBVIOUS

LEMMA ModWrap == ASSUME NEW m \in Nat \ {0}
                 PROVE  m % m = 0
  OBVIOUS

LEMMA LineFacts ==
    /\ Empty \in Line /\ Uptime \in Line /\ Squeezed \in Line
    /\ Columns \in Line /\ Junk \in Line
    /\ Uptime # Empty /\ Squeezed # Empty /\ Columns # Empty /\ Junk # Empty
    /\ Uptime # Squeezed
  BY DEF Empty, Uptime, Squeezed, Columns, Junk, Mark, Line, Events, Marks

(* The header written over the first line keeps the other lines, adds one  *)
(* line to a file without header and leaves no file without header.        *)
LEMMA OverwriteFirstFacts ==
    ASSUME NEW h \in Seq(Line), \A i \in 1 .. Len(h) : h[i] # Empty
    PROVE  /\ OverwriteFirst(h) \in Seq(Line)
           /\ Len(OverwriteFirst(h)) =
                 IF Headless(h) THEN Len(h) + 1 ELSE Len(h)
           /\ ~Headless(OverwriteFirst(h))
           /\ \A i \in 1 .. Len(OverwriteFirst(h)) : OverwriteFirst(h)[i] # Empty
<1>1. CASE h = <<>>
  BY <1>1, LineFacts DEF OverwriteFirst, Headless
<1>2. CASE h # <<>> /\ Head(h) = Uptime
  BY <1>2, LineFacts DEF OverwriteFirst, Headless
<1>3. CASE h # <<>> /\ Head(h) = Squeezed /\ Len(h) = 1
  BY <1>3, LineFacts DEF OverwriteFirst, Headless
<1>4. CASE h # <<>> /\ Head(h) = Squeezed /\ Len(h) # 1
  <2> DEFINE t == Tail(Tail(h))
             o == <<Uptime, Junk>> \o t
  <2>1. OverwriteFirst(h) = o
    BY <1>4, LineFacts DEF OverwriteFirst
  <2>2. t \in Seq(Line) /\ Len(t) = Len(h) - 2
        /\ \A i \in 1 .. Len(t) : t[i] = h[i + 2]
    <3>1. Tail(h) \in Seq(Line) /\ Len(Tail(h)) = Len(h) - 1
          /\ \A i \in 1 .. Len(Tail(h)) : Tail(h)[i] = h[i + 1]
      BY <1>4
    <3>2. Tail(h) # <<>>
      <4>1. SUFFICES ASSUME Tail(h) = <<>> PROVE FALSE
        OBVIOUS
      <4>2. Len(h) - 1 = 0
        BY <3>1, <4>1
      <4> QED BY <4>2, <1>4
    <3> QED BY <3>1, <3>2
  <2>3. o \in Seq(Line) /\ Len(o) = Len(h) /\ o[1] = Uptime /\ o[2] = Junk
        /\ \A i \in 3 .. Len(o) : o[i] = h[i]
    BY <2>2, <1>4, LineFacts
  <2>4. o # <<>> /\ Head(o) = Uptime
    BY <2>3, <1>4
  <2>5. ~Headless(h) /\ ~Headless(o)
    BY <1>4, <2>4 DEF Headless
  <2> QED BY <2>1, <2>3, <2>5, LineFacts
<1>5. CASE h # <<>> /\ Head(h) # Squeezed /\ Head(h) # Uptime
  <2> DEFINE o == <<Uptime, Junk>> \o Tail(h)
  <2>1. OverwriteFirst(h) = o
    BY <1>5 DEF OverwriteFirst
  <2>2. Tail(h) \in Seq(Line) /\ Len(Tail(h)) = Len(h) - 1
        /\ \A i \in 1 .. Len(Tail(h)) : Tail(h)[i] = h[i + 1]
    BY <1>5
  <2>3. o \in Seq(Line) /\ Len(o) = Len(h) + 1 /\ o[1] = Uptime /\ o[2] = Junk
        /\ \A i \in 3 .. Len(o) : o[i] = h[i - 1]
    BY <2>2, <1>5, LineFacts
  <2>4. o # <<>> /\ Head(o) = Uptime
    BY <2>3
  <2>5. Headless(h) /\ ~Headless(o)
    BY <1>5, <2>4 DEF Headless
  <2> QED BY <2>1, <2>3, <2>5, LineFacts
<1> QED BY <1>1, <1>2, <1>3, <1>4, <1>5

(* What cache_history_file leaves after reading a file: slots filled from 0 *)
(* on, all of them once the file has MaxRecords entries.                    *)
LEMMA LoadFacts ==
    ASSUME DataOK, \A i \in 1 .. Len(history) : history[i] # Empty
    PROVE  /\ LoadedCache(history) \in [Slots -> Line]
           /\ LoadedNext(history) \in Slots
           /\ LoadedEntries(history) \in Nat
           /\ Len(history) <= LoadedEntries(history) + HeaderSize
           /\ \A i \in Slots : i < LoadedNext(history) =>
                 LoadedCache(history)[i] # Empty
           /\ LoadedEntries(history) >= MaxRecords =>
                 \A i \in Slots : LoadedCache(history)[i] # Empty
           /\ LoadedEntries(history) < MaxRecords =>
                 LoadedNext(history) = LoadedEntries(history)
<1> USE RecordsAssumption
<1>0. history \in Seq(Line) /\ Len(history) \in Nat
      /\ historycache \in [Slots -> Line]
  BY DEF DataOK
<1>1. CASE Len(history) <= HeaderSize
  <2>1. Cached(history) = 0 /\ LoadedNext(history) = 0
        /\ LoadedEntries(history) = 0 /\ LoadedCache(history) = historycache
    BY <1>0, <1>1, ModSmall DEF Cached, LoadedNext, LoadedEntries, LoadedCache,
       HeaderSize
  <2> QED BY <2>1, <1>0, <1>1 DEF Slots
<1>2. CASE Len(history) > HeaderSize
  <2> DEFINE n == Cached(history)
  <2>1. /\ n \in 1 .. MaxRecords
        /\ TailOffset(history) \in Nat
        /\ TailOffset(history) + n = Len(history)
        /\ LoadedEntries(history) = Len(history) - HeaderSize
        /\ LoadedEntries(history) >= MaxRecords => n = MaxRecords
        /\ LoadedEntries(history) < MaxRecords => n = LoadedEntries(history)
    BY <1>0, <1>2 DEF Cached, TailOffset, LoadedEntries, HeaderSize
  <2>2. \A i \in Slots : LoadedCache(history)[i] =
           IF i < n THEN history[TailOffset(history) + i + 1] ELSE Empty
    BY <1>2 DEF LoadedCache
  <2>3. \A i \in Slots : i < n =>
           /\ TailOffset(history) + i + 1 \in 1 .. Len(history)
           /\ history[TailOffset(history) + i + 1] \in Line
    BY <1>0, <2>1 DEF Slots
  <2>4. LoadedCache(history) \in [Slots -> Line]
    BY <1>2, <2>3, LineFacts DEF LoadedCache
  <2>5. \A i \in Slots : i < n => LoadedCache(history)[i] # Empty
    BY <2>2, <2>3
  <2>6. CASE n = MaxRecords
    <3>1. LoadedNext(history) = 0
      BY <2>6, ModWrap DEF LoadedNext
    <3> QED BY <3>1, <2>1, <2>4, <2>5, <2>6, <1>0 DEF Slots, HeaderSize
  <2>7. CASE n < MaxRecords
    <3>1. LoadedNext(history) = n
      BY <2>7, <2>1, ModSmall DEF LoadedNext
    <3> QED BY <3>1, <2>1, <2>4, <2>5, <2>7, <1>0 DEF Slots, HeaderSize
  <2> QED BY <2>1, <2>6, <2>7
<1> QED BY <1>0, <1>1, <1>2 DEF HeaderSize

(* The rewritten file, whole or cut short, has only lines of the buffer and *)
(* begins with the header.                                                  *)
LEMMA TrimFacts ==
    ASSUME NEW c \in [Slots -> Line], NEW n \in Slots,
           \A i \in Slots : c[i] # Empty
    PROVE  /\ Trimmed(c, n) \in Seq(Line)
           /\ Len(Trimmed(c, n)) = HeaderSize + MaxRecords
           /\ Trimmed(c, n)[1] = Uptime
           /\ \A i \in 1 .. HeaderSize + MaxRecords : Trimmed(c, n)[i] # Empty
<1> USE RecordsAssumption
<1> DEFINE r == RingOrder(c, n)
<1>1. \A j \in 1 .. MaxRecords : (n + j - 1) % MaxRecords \in Slots
  <2> TAKE j \in 1 .. MaxRecords
  <2>1. n + j - 1 \in Nat
    BY DEF Slots
  <2> QED BY <2>1, ModLess DEF Slots
<1>2. /\ r \in Seq(Line) /\ Len(r) = MaxRecords
      /\ \A j \in 1 .. MaxRecords : r[j] # Empty
  BY <1>1 DEF RingOrder
<1> HIDE DEF r
<1>3. Header \in Seq(Line) /\ Len(Header) = 2
      /\ Header[1] = Uptime /\ Header[2] = Columns
  BY LineFacts DEF Header
<1>4. Trimmed(c, n) = Header \o r
  BY DEF Trimmed, r
<1>5. /\ Header \o r \in Seq(Line)
      /\ Len(Header \o r) = Len(Header) + Len(r)
      /\ \A i \in 1 .. Len(Header) + Len(r) :
            (Header \o r)[i] =
               IF i <= Len(Header) THEN Header[i] ELSE r[i - Len(Header)]
  BY <1>2, <1>3, ConcatProperties
<1>6. /\ Len(Header \o r) = 2 + MaxRecords
      /\ \A i \in 1 .. 2 + MaxRecords :
            (Header \o r)[i] = IF i <= 2 THEN Header[i] ELSE r[i - 2]
  BY <1>2, <1>3, <1>5
<1> QED BY <1>2, <1>3, <1>4, <1>5, <1>6, LineFacts DEF HeaderSize

LEMMA CutFacts ==
    ASSUME NEW c \in [Slots -> Line], NEW n \in Slots,
           \A i \in Slots : c[i] # Empty,
           NEW k \in 0 .. HeaderSize + MaxRecords - 1
    PROVE  /\ SubSeq(Trimmed(c, n), 1, k) \in Seq(Line)
           /\ Len(SubSeq(Trimmed(c, n), 1, k)) = k
           /\ \A i \in 1 .. k : SubSeq(Trimmed(c, n), 1, k)[i] # Empty
           /\ Headless(SubSeq(Trimmed(c, n), 1, k)) => k = 0
<1> USE RecordsAssumption
<1> DEFINE t == Trimmed(c, n)
           u == SubSeq(t, 1, k)
<1>1. /\ t \in Seq(Line) /\ Len(t) = HeaderSize + MaxRecords /\ t[1] = Uptime
      /\ \A i \in 1 .. HeaderSize + MaxRecords : t[i] # Empty
  BY TrimFacts
<1> HIDE DEF t
<1>2. k \in Nat /\ k < Len(t)
  BY <1>1 DEF HeaderSize
<1>3. u \in Seq(Line) /\ Len(u) = k /\ \A i \in 1 .. k : u[i] = t[i]
  BY <1>1, <1>2
<1> HIDE DEF u
<1>4. k # 0 => u # <<>> /\ Head(u) = Uptime
  BY <1>1, <1>2, <1>3
<1>5. Headless(u) => k = 0
  BY <1>4 DEF Headless
<1>6. \A i \in 1 .. k : u[i] # Empty
  BY <1>1, <1>2, <1>3
<1> QED BY <1>3, <1>5, <1>6 DEF u, t

(* reset_history_cache leaves a buffer that is empty, or as it was.        *)
LEMMA EmptiedCases ==
    \/ Emptied = NoCache
    \/ Emptied = historycache /\ ~(nextline > 0)
  BY DEF Emptied

(* The state update_history_file works on, once the file is created or the *)
(* cache loaded.                                                           *)
LEMMA NowFacts ==
    ASSUME IInv
    PROVE  /\ FileNow \in Seq(Line)
           /\ \A i \in 1 .. Len(FileNow) : FileNow[i] # Empty
           /\ CacheNow \in [Slots -> Line]
           /\ NextNow \in Slots
           /\ EntriesNow \in Nat
           /\ \A i \in Slots : i < NextNow => CacheNow[i] # Empty
           /\ EntriesNow >= MaxRecords =>
                 \A i \in Slots \ {NextNow} : CacheNow[i] # Empty
           /\ EntriesNow < MaxRecords => NextNow = EntriesNow
           /\ Len(FileNow) <= EntriesNow + HeaderSize + 1
           /\ Headless(FileNow) => Len(FileNow) <= EntriesNow + HeaderSize
<1> USE RecordsAssumption DEF HeaderSize
<1>1. CASE ~exists
  <2>1. FileNow = Header /\ CacheNow = Emptied /\ NextNow = 0 /\ EntriesNow = 0
    BY <1>1 DEF FileNow, CacheNow, NextNow, EntriesNow
  <2>2. Header \in Seq(Line) /\ Len(Header) = 2
        /\ \A i \in 1 .. 2 : Header[i] # Empty
    BY LineFacts DEF Header
  <2>3. NoCache \in [Slots -> Line] /\ 0 \in Slots
    BY LineFacts DEF NoCache, Slots
  <2>4. Emptied \in [Slots -> Line]
    BY <2>3, EmptiedCases DEF IInv, DataOK
  <2> QED BY <2>1, <2>2, <2>3, <2>4 DEF Slots
<1>2. CASE exists /\ nextline < 0
  <2>1. /\ FileNow = history /\ CacheNow = LoadedCache(history)
        /\ NextNow = LoadedNext(history) /\ EntriesNow = LoadedEntries(history)
    BY <1>2 DEF FileNow, CacheNow, NextNow, EntriesNow
  <2>2. DataOK /\ history \in Seq(Line) /\ Len(history) \in Nat
        /\ \A i \in 1 .. Len(history) : history[i] # Empty
    BY DEF IInv, DataOK, NoNullLine
  <2> QED BY <2>1, <2>2, LoadFacts
<1>3. CASE exists /\ ~(nextline < 0)
  <2>1. /\ FileNow = history /\ CacheNow = historycache
        /\ NextNow = nextline /\ EntriesNow = fileentries
    BY <1>3 DEF FileNow, CacheNow, NextNow, EntriesNow
  <2>2. /\ history \in Seq(Line) /\ historycache \in [Slots -> Line]
        /\ nextline \in Slots /\ nextline >= 0 /\ fileentries \in Nat
    BY <1>3 DEF IInv, DataOK, Slots
  <2> QED BY <2>1, <2>2, <1>3 DEF IInv, NoNullLine, CacheFilled, LinesCounted
<1> QED BY <1>1, <1>2, <1>3

(* The state after the new line is stored in the buffer.                   *)
LEMMA StoredFacts ==
    ASSUME IInv, Raising
    PROVE  /\ Head(pending) \in Line /\ Head(pending) # Empty
           /\ Tail(pending) \in Seq(Line)
           /\ \A i \in 1 .. Len(Tail(pending)) : Tail(pending)[i] # Empty
           /\ StoredCache \in [Slots -> Line]
           /\ StoredNext \in Slots
           /\ \A i \in Slots : i < StoredNext => StoredCache[i] # Empty
           /\ EntriesNow + 1 >= MaxRecords =>
                 \A i \in Slots : StoredCache[i] # Empty
           /\ EntriesNow + 1 < MaxRecords => StoredNext = EntriesNow + 1
<1> USE RecordsAssumption
<1>1. pending \in Seq(Line) /\ pending # <<>>
      /\ \A i \in 1 .. Len(pending) : pending[i] # Empty
  BY DEF IInv, DataOK, NoNullLine, Raising
<1>2. /\ Head(pending) \in Line /\ Head(pending) # Empty
      /\ Tail(pending) \in Seq(Line)
      /\ \A i \in 1 .. Len(Tail(pending)) : Tail(pending)[i] # Empty
  BY <1>1
<1>3. StoredCache \in [Slots -> Line]
  BY <1>2, NowFacts DEF StoredCache
<1>4. \A i \in Slots : StoredCache[i] =
         IF i = NextNow THEN Head(pending) ELSE CacheNow[i]
  BY NowFacts DEF StoredCache
<1>5. NextNow \in Nat /\ NextNow < MaxRecords
  BY NowFacts DEF Slots
<1>6. CASE NextNow + 1 < MaxRecords
  <2>1. StoredNext = NextNow + 1
    BY <1>5, <1>6, ModSmall DEF StoredNext
  <2> QED BY <1>2, <1>3, <1>4, <1>5, <1>6, <2>1, NowFacts DEF Slots
<1>7. CASE NextNow + 1 = MaxRecords
  <2>1. StoredNext = 0
    BY <1>7, ModWrap DEF StoredNext
  <2> QED BY <1>2, <1>3, <1>4, <1>5, <1>7, <2>1, NowFacts DEF Slots
<1> QED BY <1>5, <1>6, <1>7
-----------------------------------------------------------------------------
(* A step that stores a line keeps the invariant when it leaves a file     *)
(* whose lines are counted.                                                *)
LEMMA StoreLineStep ==
    ASSUME IInv, StoreLine,
           exists' = TRUE, history' \in Seq(Line),
           \A i \in 1 .. Len(history') : history'[i] # Empty,
           \/ fileentries' = EntriesNow + 1
           \/ EntriesNow + 1 >= MaxRecords /\ fileentries' = MaxRecords,
           Len(history') <= fileentries' + HeaderSize + 1,
           Headless(history') => /\ Len(history') <= fileentries' + HeaderSize
                                 /\ Len(history') <= MaxHistFile + 1,
           synced' \in BOOLEAN, dropped' \in Nat
    PROVE  IInv'
<1> USE RecordsAssumption
<1>1. Raising
  BY DEF StoreLine
<1>2. EntriesNow \in Nat
  BY NowFacts
<1>3. DataOK'
  BY <1>1, <1>2, StoredFacts DEF DataOK, IInv, StoreLine, Slots, folderVars
<1>4. NoNullLine'
  BY <1>1, StoredFacts DEF NoNullLine, StoreLine
<1>5. CacheFilled'
  BY <1>1, <1>2, StoredFacts DEF CacheFilled, StoreLine
<1>6. LinesCounted'
  BY DEF LinesCounted
<1> QED BY <1>3, <1>4, <1>5, <1>6 DEF IInv

LEMMA DropType == ASSUME IInv, Raising, Drop PROVE dropped' \in Nat
  BY StoredFacts DEF Drop, IInv, DataOK, Line

LEMMA AppendLineStep == ASSUME IInv, AppendLine PROVE IInv'
<1> USE RecordsAssumption DEF HeaderSize
<1> DEFINE l == Head(pending)
<1>1. StoreLine /\ Raising /\ history' = Append(FileNow, l)
      /\ fileentries' = EntriesNow + 1 /\ EntriesNow + 1 < MaxHistFile
      /\ exists' = TRUE
  BY DEF AppendLine, StoreLine
<1>2. l \in Line /\ l # Empty
  BY <1>1, StoredFacts
<1>3. FileNow \in Seq(Line) /\ Len(FileNow) \in Nat /\ EntriesNow \in Nat
  BY NowFacts
<1> HIDE DEF l
<1>4. history' \in Seq(Line) /\ Len(history') = Len(FileNow) + 1
      /\ \A i \in 1 .. Len(history') :
            history'[i] = IF i <= Len(FileNow) THEN FileNow[i] ELSE l
  BY <1>1, <1>2, <1>3
<1>5. \A i \in 1 .. Len(history') : history'[i] # Empty
  BY <1>2, <1>3, <1>4, NowFacts
<1>6. Headless(history') => Len(FileNow) <= EntriesNow + 2
  <2>1. CASE FileNow = <<>>
    BY <2>1, <1>3
  <2>2. CASE FileNow # <<>>
    <3>1. Head(history') = Head(FileNow) /\ history' # <<>>
      BY <2>2, <1>1, <1>2, <1>3, <1>4
    <3> QED BY <3>1, <2>2, NowFacts DEF Headless
  <2> QED BY <2>1, <2>2
<1>7. synced' \in BOOLEAN /\ dropped' \in Nat
  BY DEF AppendLine, SyncedNow, HeaderIntact, IInv, DataOK
<1> QED
  <2>1. Len(history') <= fileentries' + HeaderSize + 1
    BY <1>1, <1>3, <1>4, NowFacts
  <2>2. Headless(history') => /\ Len(history') <= fileentries' + HeaderSize
                              /\ Len(history') <= MaxHistFile + 1
    BY <1>1, <1>3, <1>4, <1>6
  <2> HIDE DEF HeaderSize
  <2> QED BY <1>1, <1>4, <1>5, <1>7, <2>1, <2>2, StoreLineStep

(* AppendFails and TrimOpenFails: the file keeps its lines.                 *)
LEMMA KeepFileStep ==
    ASSUME IInv, StoreLine, Drop,
           exists' = TRUE, history' = FileNow,
           fileentries' = EntriesNow + 1, synced' = FALSE
    PROVE  IInv'
<1> USE RecordsAssumption
<1>1. Raising
  BY DEF StoreLine
<1>2. dropped' \in Nat
  BY <1>1, DropType
<1>3. FileNow \in Seq(Line) /\ Len(FileNow) \in Nat /\ EntriesNow \in Nat
  BY NowFacts
<1>4. Headless(FileNow) => Len(FileNow) <= MaxHistFile + 1
  <2>1. CASE exists
    BY <2>1 DEF FileNow, IInv, LinesCounted
  <2>2. CASE ~exists
    <3>1. FileNow = Header /\ Len(Header) = 2
      BY <2>2 DEF FileNow, Header
    <3> QED BY <3>1
  <2> QED BY <2>1, <2>2
<1>5. /\ Len(history') <= fileentries' + HeaderSize + 1
      /\ Headless(history') => Len(history') <= fileentries' + HeaderSize
  BY <1>3, NowFacts DEF HeaderSize
<1> QED BY <1>2, <1>3, <1>4, <1>5, NowFacts, StoreLineStep

LEMMA TrimFileStep == ASSUME IInv, TrimFile PROVE IInv'
<1> USE RecordsAssumption
<1>1. StoreLine /\ Raising /\ EntriesNow + 1 >= MaxHistFile
      /\ fileentries' = MaxRecords /\ exists' = TRUE
      /\ history' = Trimmed(StoredCache, StoredNext)
  BY DEF TrimFile, StoreLine
<1>2. EntriesNow \in Nat /\ EntriesNow + 1 >= MaxRecords
  BY <1>1, NowFacts
<1>3. /\ StoredCache \in [Slots -> Line] /\ StoredNext \in Slots
      /\ \A i \in Slots : StoredCache[i] # Empty
  BY <1>1, <1>2, StoredFacts
<1>4. /\ history' \in Seq(Line) /\ Len(history') = HeaderSize + MaxRecords
      /\ history'[1] = Uptime
      /\ \A i \in 1 .. HeaderSize + MaxRecords : history'[i] # Empty
  BY <1>1, <1>3, TrimFacts
<1>5. ~Headless(history')
  BY <1>4 DEF Headless, HeaderSize
<1>6. Len(history') <= fileentries' + HeaderSize + 1
  BY <1>1, <1>4 DEF HeaderSize
<1>7. synced' \in BOOLEAN /\ dropped' \in Nat
  BY DEF TrimFile, IInv, DataOK
<1> QED BY <1>1, <1>2, <1>4, <1>5, <1>6, <1>7, StoreLineStep

LEMMA TrimFailsStep ==
    ASSUME IInv, NEW n \in 0 .. HeaderSize + MaxRecords - 1, TrimFails(n)
    PROVE  IInv'
<1> USE RecordsAssumption
<1>1. StoreLine /\ Raising /\ Drop /\ EntriesNow + 1 >= MaxHistFile
      /\ fileentries' = EntriesNow + 1 /\ exists' = TRUE /\ synced' = FALSE
      /\ history' = SubSeq(Trimmed(StoredCache, StoredNext), 1, n)
  BY DEF TrimFails, StoreLine
<1>2. EntriesNow \in Nat /\ EntriesNow + 1 >= MaxRecords
  BY <1>1, NowFacts
<1>3. /\ StoredCache \in [Slots -> Line] /\ StoredNext \in Slots
      /\ \A i \in Slots : StoredCache[i] # Empty
  BY <1>1, <1>2, StoredFacts
<1>4. /\ history' \in Seq(Line) /\ Len(history') = n
      /\ \A i \in 1 .. n : history'[i] # Empty
      /\ Headless(history') => n = 0
  BY <1>1, <1>3, CutFacts
<1>5. /\ Len(history') <= fileentries' + HeaderSize + 1
      /\ n = 0 => /\ Len(history') <= fileentries' + HeaderSize
                  /\ Len(history') <= MaxHistFile + 1
  BY <1>1, <1>2, <1>4 DEF HeaderSize
<1>6. dropped' \in Nat
  BY <1>1, DropType
<1> QED BY <1>1, <1>4, <1>5, <1>6, StoreLineStep

LEMMA EventLineFacts ==
    ASSUME IInv, NEW e \in Events, NEW l \in BOOLEAN
    PROVE  /\ EventLine(e, l) \in Line /\ EventLine(e, l) # Empty
           /\ <<EventLine(e, l)>> \in Seq(Line)
           /\ \A i \in 1 .. Len(<<EventLine(e, l)>>) :
                 <<EventLine(e, l)>>[i] # Empty
<1>1. lastkey \in Nat
  BY DEF IInv, DataOK
<1>2. EventLine(e, l) \in Line /\ EventLine(e, l) # Empty
  BY <1>1 DEF EventLine, FreshKey, Line, Empty, Mark, Events, Marks
<1> HIDE DEF EventLine
<1> QED BY <1>2

(* Steps that leave the file and the cache alone.                           *)
LEMMA FileUnchangedStep ==
    ASSUME IInv, exists' = exists, history' = history,
           historycache' = historycache, nextline' = nextline,
           fileentries' = fileentries,
           pending' \in Seq(Line),
           \A i \in 1 .. Len(pending') : pending'[i] # Empty,
           running' \in BOOLEAN, gabortcleansd' \in BOOLEAN,
           folder' \in [Numbers -> Nat], current' \in Numbers, lastkey' \in Nat,
           synced' \in BOOLEAN, dropped' \in Nat
    PROVE  IInv'
  BY DEF IInv, DataOK, NoNullLine, CacheFilled, LinesCounted

(* Steps after which the cache is not loaded.                               *)
LEMMA UnloadedStep ==
    ASSUME IInv, historycache' = NoCache, nextline' = -1, fileentries' \in Nat,
           exists' \in BOOLEAN, history' \in Seq(Line),
           \A i \in 1 .. Len(history') : history'[i] # Empty,
           Headless(history') => Len(history') <= MaxHistFile + 1,
           pending' \in Seq(Line),
           \A i \in 1 .. Len(pending') : pending'[i] # Empty,
           running' \in BOOLEAN, gabortcleansd' \in BOOLEAN,
           UNCHANGED folderVars, lastkey' \in Nat,
           synced' \in BOOLEAN, dropped' \in Nat
    PROVE  IInv'
<1>1. NoCache \in [Slots -> Line] /\ -1 \in -1 .. MaxRecords - 1
  BY RecordsAssumption, LineFacts DEF NoCache
<1> QED BY <1>1 DEF IInv, DataOK, NoNullLine, CacheFilled, LinesCounted, folderVars

LEMMA FolderType ==
    ASSUME IInv, NEW k \in Nat, GenerateCrashlogDir(k)
    PROVE  folder' \in [Numbers -> Nat] /\ current' \in Numbers
<1>1. current \in Numbers /\ current + 1 \in Nat /\ folder \in [Numbers -> Nat]
  BY FoldersAssumption DEF IInv, DataOK, Numbers
<1>2. (current + 1) % MaxDirs \in Numbers
  BY <1>1, FoldersAssumption, ModLess DEF Numbers
<1> QED BY <1>1, <1>2 DEF GenerateCrashlogDir

LEMMA HandlersStep ==
    ASSUME IInv,
           HandleEvent \/ HandleCrash \/ HandleCrashNoSpace \/ HandleCrashMkdirFails
    PROVE  IInv'
<1>0. lastkey \in Nat /\ DataOK
  BY DEF IInv, DataOK
<1>1. CASE HandleEvent
  <2>1. "EVENT" \in Events
    BY DEF Events
  <2>2. pending' \in Seq(Line) /\ \A i \in 1 .. Len(pending') : pending'[i] # Empty
    BY <1>1, <2>1, EventLineFacts DEF HandleEvent
  <2>9. /\ exists' = exists /\ history' = history
        /\ historycache' = historycache /\ nextline' = nextline
        /\ fileentries' = fileentries
        /\ running' \in BOOLEAN /\ gabortcleansd' \in BOOLEAN
        /\ lastkey' \in Nat /\ synced' \in BOOLEAN /\ dropped' \in Nat
        /\ folder' \in [Numbers -> Nat] /\ current' \in Numbers
    BY <1>0, <1>1 DEF HandleEvent, DataOK, NewKey, FreshKey, fileVars, cacheVars,
       folderVars, ghostVars
  <2> QED BY <2>2, <2>9, FileUnchangedStep
<1>2. CASE HandleCrash
  <2>1. "CRASH" \in Events
    BY DEF Events
  <2>2. pending' \in Seq(Line) /\ \A i \in 1 .. Len(pending') : pending'[i] # Empty
    BY <1>2, <2>1, EventLineFacts DEF HandleCrash
  <2>3. folder' \in [Numbers -> Nat] /\ current' \in Numbers
    BY <1>0, <1>2, FolderType DEF HandleCrash, FreshKey
  <2>9. /\ exists' = exists /\ history' = history
        /\ historycache' = historycache /\ nextline' = nextline
        /\ fileentries' = fileentries
        /\ running' \in BOOLEAN /\ gabortcleansd' \in BOOLEAN
        /\ lastkey' \in Nat /\ synced' \in BOOLEAN /\ dropped' \in Nat
    BY <1>0, <1>2 DEF HandleCrash, DataOK, NewKey, FreshKey, fileVars, cacheVars,
       folderVars, ghostVars
  <2> QED BY <2>2, <2>3, <2>9, FileUnchangedStep
<1>3. CASE HandleCrashNoSpace
  <2>1. "CRASH" \in Events
    BY DEF Events
  <2>2. pending' \in Seq(Line) /\ \A i \in 1 .. Len(pending') : pending'[i] # Empty
    BY <1>3, <2>1, EventLineFacts DEF HandleCrashNoSpace
  <2>9. /\ exists' = exists /\ history' = history
        /\ historycache' = historycache /\ nextline' = nextline
        /\ fileentries' = fileentries
        /\ running' \in BOOLEAN /\ gabortcleansd' \in BOOLEAN
        /\ lastkey' \in Nat /\ synced' \in BOOLEAN /\ dropped' \in Nat
        /\ folder' \in [Numbers -> Nat] /\ current' \in Numbers
    BY <1>0, <1>3 DEF HandleCrashNoSpace, DataOK, NewKey, FreshKey, fileVars, cacheVars,
       folderVars, ghostVars
  <2> QED BY <2>2, <2>9, FileUnchangedStep
<1>4. CASE HandleCrashMkdirFails
  <2> DEFINE m == [ev |-> "CRASH", key |-> lastkey + 2, log |-> FALSE]
             e == EventLine("EVENT", FALSE)
  <2>1. e \in Line /\ e # Empty
    BY EventLineFacts DEF Events
  <2>2. m \in Line /\ m # Empty
    BY <1>0 DEF Line, Empty, Mark, Events, Marks
  <2>3. pending' = <<e, m>>
    BY <1>4 DEF HandleCrashMkdirFails
  <2> HIDE DEF e, m
  <2>4. pending' \in Seq(Line) /\ \A i \in 1 .. Len(pending') : pending'[i] # Empty
    BY <2>1, <2>2, <2>3
  <2>5. folder' \in [Numbers -> Nat] /\ current' \in Numbers
    BY <1>4, FolderType DEF HandleCrashMkdirFails
  <2>9. /\ exists' = exists /\ history' = history
        /\ historycache' = historycache /\ nextline' = nextline
        /\ fileentries' = fileentries
        /\ running' \in BOOLEAN /\ gabortcleansd' \in BOOLEAN
        /\ lastkey' \in Nat /\ synced' \in BOOLEAN /\ dropped' \in Nat
    BY <1>0, <1>4 DEF HandleCrashMkdirFails, DataOK, NewKey, FreshKey, fileVars, cacheVars,
       folderVars, ghostVars
  <2> QED BY <2>4, <2>5, <2>9, FileUnchangedStep
<1> QED BY <1>1, <1>2, <1>3, <1>4

LEMMA UpdateErrorsStep ==
    ASSUME IInv, CreateFails \/ LoadFails \/ StrdupFails PROVE IInv'
<1> USE RecordsAssumption
<1>0. Raising
  BY DEF CreateFails, LoadFails, StrdupFails
<1>1. dropped' \in Nat
  BY <1>0, DropType DEF CreateFails, LoadFails, StrdupFails
<1>2. pending' \in Seq(Line) /\ \A i \in 1 .. Len(pending') : pending'[i] # Empty
  BY <1>0, StoredFacts DEF CreateFails, LoadFails, StrdupFails
<1>3. NoCache \in [Slots -> Line] /\ Emptied \in [Slots -> Line]
  BY LineFacts, EmptiedCases DEF NoCache, IInv, DataOK
<1>4. CASE CreateFails
  BY <1>1, <1>2, <1>3, <1>4 DEF CreateFails, IInv, DataOK, NoNullLine,
     CacheFilled, LinesCounted, fileVars, folderVars
<1>5. CASE LoadFails
  <2>1. LoadedEntries(history) \in Nat
    BY LoadFacts DEF IInv, NoNullLine
  <2> QED BY <1>1, <1>2, <1>3, <1>5, <2>1 DEF LoadFails, IInv, DataOK,
      NoNullLine, CacheFilled, LinesCounted, fileVars, folderVars
<1>6. CASE StrdupFails
  <2>1. /\ historycache' \in [Slots -> Line]
        /\ \A i \in Slots \ {NextNow} : historycache'[i] = CacheNow[i]
    BY <1>6, NowFacts, LineFacts DEF StrdupFails
  <2>2. NextNow \in Nat /\ NextNow < MaxRecords /\ EntriesNow \in Nat
    BY NowFacts DEF Slots
  <2>3. DataOK'
    <3>1. NextNow \in -1 .. MaxRecords - 1 /\ FileNow \in Seq(Line)
      BY <2>2, NowFacts
    <3> QED BY <1>1, <1>2, <1>6, <2>1, <2>2, <3>1
        DEF StrdupFails, IInv, DataOK, folderVars
  <2>4. NoNullLine'
    BY <1>2, <1>6, NowFacts DEF StrdupFails, NoNullLine
  <2>5. CacheFilled'
    BY <1>6, <2>1, <2>2, NowFacts DEF StrdupFails, CacheFilled, Slots
  <2>6. Headless(FileNow) => Len(FileNow) <= MaxHistFile + 1
    <3>1. CASE exists
      BY <3>1 DEF FileNow, IInv, LinesCounted
    <3>2. CASE ~exists
      <4>1. FileNow = Header /\ Len(Header) = 2
        BY <3>2 DEF FileNow, Header
      <4> QED BY <4>1
    <3> QED BY <3>1, <3>2
  <2>7. LinesCounted'
    BY <1>6, <2>6, NowFacts DEF StrdupFails, LinesCounted
  <2> QED BY <2>3, <2>4, <2>5, <2>7 DEF IInv
<1> QED BY <1>4, <1>5, <1>6

LEMMA CmdDeleteStep == ASSUME IInv, NEW k \in 1 .. MaxKeys, CmdDelete(k) PROVE IInv'
<1>1. PICK i \in 1 .. Len(history) :
         /\ history[i] = [ev |-> "CRASH", key |-> k, log |-> TRUE]
         /\ history' = [history EXCEPT ![i] =
                            [ev |-> "DELETE", key |-> k, log |-> TRUE]]
  BY DEF CmdDelete
<1>2. history \in Seq(Line) /\ k \in Nat
  BY BoundAssumption DEF IInv, DataOK
<1> DEFINE d == [ev |-> "DELETE", key |-> k, log |-> TRUE]
<1>3. d \in Line /\ d # Empty /\ d # Uptime /\ d # Squeezed
  BY <1>2 DEF Line, Empty, Uptime, Squeezed, Mark, Events, Marks
<1>4. history' = [history EXCEPT ![i] = d]
  BY <1>1
<1>5. history[i] # Uptime /\ history[i] # Squeezed
  BY <1>1 DEF Uptime, Squeezed, Mark
<1> HIDE DEF d
<1>6. history' \in Seq(Line) /\ Len(history') = Len(history)
      /\ \A j \in 1 .. Len(history) :
            history'[j] = IF j = i THEN d ELSE history[j]
  BY <1>2, <1>3, <1>4, ExceptSeq
<1>7. Headless(history') => Headless(history)
  <2>1. history # <<>> /\ history' # <<>>
    BY <1>1, <1>2, <1>6
  <2>2. Head(history) = history[1] /\ Head(history') = history'[1]
    BY <2>1, <1>2, <1>6
  <2>3. history'[1] = d \/ history'[1] = history[1]
    <3>1. 1 \in 1 .. Len(history)
      BY <2>1, <1>2
    <3> QED BY <1>6, <3>1
  <2>4. history'[1] = d => i = 1 \/ history[1] = d
    <3>1. 1 \in 1 .. Len(history)
      BY <2>1, <1>2
    <3> QED BY <1>6, <3>1
  <2> QED BY <2>1, <2>2, <2>3, <2>4, <1>3, <1>5 DEF Headless
<1>8. folder' \in [Numbers -> Nat]
  BY DEF CmdDelete, IInv, DataOK
<1>9. /\ running' = running /\ exists' = exists /\ historycache' = historycache
      /\ nextline' = nextline /\ fileentries' = fileentries
      /\ gabortcleansd' = gabortcleansd /\ pending' = pending
      /\ current' = current /\ lastkey' = lastkey
      /\ synced' = synced /\ dropped' = dropped
  BY DEF CmdDelete, cacheVars, ghostVars
<1>10. DataOK'
  BY <1>6, <1>8, <1>9 DEF IInv, DataOK
<1>11. NoNullLine'
  BY <1>3, <1>6, <1>9 DEF IInv, NoNullLine
<1>12. CacheFilled'
  BY <1>9 DEF IInv, CacheFilled
<1>13. LinesCounted'
  BY <1>6, <1>7, <1>9 DEF IInv, LinesCounted
<1> QED BY <1>10, <1>11, <1>12, <1>13 DEF IInv

LEMMA AddUptimeStep == ASSUME IInv, AddUptimeEvent PROVE IInv'
<1> USE RecordsAssumption
<1>1. /\ Idle /\ exists /\ exists' = exists /\ running' = running
      /\ history' = OverwriteFirst(history)
      /\ current' = current /\ dropped' = dropped
      /\ synced' = (SyncedNow /\ history' = history)
  BY DEF AddUptimeEvent
<1>2. history \in Seq(Line) /\ \A i \in 1 .. Len(history) : history[i] # Empty
  BY DEF IInv, DataOK, NoNullLine
<1>3. /\ history' \in Seq(Line) /\ ~Headless(history')
      /\ Len(history') = IF Headless(history) THEN Len(history) + 1
                                              ELSE Len(history)
      /\ \A i \in 1 .. Len(history') : history'[i] # Empty
  BY <1>1, <1>2, OverwriteFirstFacts
<1>4. FileNow = history /\ Len(history) \in Nat
  BY <1>1, <1>2 DEF FileNow
<1>5. /\ pending' \in Seq(Line) /\ lastkey' \in Nat
      /\ \A i \in 1 .. Len(pending') : pending'[i] # Empty
  <2>1. CASE NewKey /\ pending' = <<EventLine("EVENT", FALSE)>>
    <3>1. "EVENT" \in Events /\ lastkey \in Nat
      BY DEF Events, IInv, DataOK
    <3>2. lastkey' \in Nat
      BY <2>1, <3>1 DEF NewKey, FreshKey
    <3>3. /\ pending' \in Seq(Line)
          /\ \A i \in 1 .. Len(pending') : pending'[i] # Empty
      BY <2>1, <3>1, EventLineFacts
    <3> QED BY <3>2, <3>3
  <2>2. CASE UNCHANGED <<lastkey, pending>>
    BY <2>2 DEF IInv, DataOK, NoNullLine
  <2> QED BY <2>1, <2>2 DEF AddUptimeEvent
<1>6. synced' \in BOOLEAN
  BY <1>1
<1>7. CASE CleaningSd /\ folder # NoFolders
  <2>1. /\ historycache' = CacheNow /\ nextline' = NextNow
        /\ fileentries' = EntriesNow
        /\ folder' \in [Numbers -> Nat] /\ gabortcleansd' \in BOOLEAN
    <3>1. PICK gone \in SUBSET Legacy(CacheNow) :
             /\ folder' = [m \in Numbers |-> IF m \in gone THEN 0 ELSE folder[m]]
             /\ gabortcleansd' = (Cardinality(gone) < CleanMax)
      BY <1>7 DEF AddUptimeEvent
    <3>2. folder \in [Numbers -> Nat]
      BY DEF IInv, DataOK
    <3>3. folder' \in [Numbers -> Nat]
      BY <3>1, <3>2
    <3>4. gabortcleansd' \in BOOLEAN
      BY <3>1
    <3>5. /\ historycache' = CacheNow /\ nextline' = NextNow
          /\ fileentries' = EntriesNow
      BY <1>7 DEF AddUptimeEvent
    <3> QED BY <3>3, <3>4, <3>5
  <2>2. NextNow \in -1 .. MaxRecords - 1 /\ EntriesNow \in Nat
        /\ NextNow >= 0
    BY NowFacts DEF Slots
  <2>3. DataOK'
    BY <1>1, <1>3, <1>5, <1>6, <2>1, <2>2, NowFacts DEF IInv, DataOK
  <2>4. NoNullLine'
    BY <1>3, <1>5 DEF NoNullLine
  <2>5. CacheFilled'
    BY <2>1, NowFacts DEF CacheFilled
  <2>6. LinesCounted'
    BY <1>3, <1>4, <2>1, <2>2, NowFacts DEF LinesCounted, HeaderSize
  <2> QED BY <2>3, <2>4, <2>5, <2>6 DEF IInv
<1>8. CASE ~(CleaningSd /\ folder # NoFolders)
  <2>1. /\ historycache' = historycache /\ nextline' = nextline
        /\ fileentries' = fileentries
        /\ folder' = folder /\ gabortcleansd' = TRUE
    BY <1>8 DEF AddUptimeEvent, cacheVars
  <2>3. DataOK'
    BY <1>1, <1>3, <1>5, <1>6, <2>1 DEF IInv, DataOK
  <2>4. NoNullLine'
    BY <1>3, <1>5 DEF NoNullLine
  <2>5. CacheFilled'
    BY <1>1, <2>1 DEF IInv, CacheFilled
  <2>6. LinesCounted'
    <3>1. fileentries \in Nat
      BY DEF IInv, DataOK
    <3> QED BY <1>1, <1>3, <1>4, <2>1, <3>1 DEF IInv, LinesCounted, HeaderSize
  <2> QED BY <2>3, <2>4, <2>5, <2>6 DEF IInv
<1> QED BY <1>7, <1>8

LEMMA StartStep == ASSUME IInv, Start PROVE IInv'
<1>1. /\ historycache' = NoCache /\ nextline' = -1 /\ fileentries' = 0
      /\ running' = TRUE /\ gabortcleansd' = FALSE /\ synced' = FALSE
      /\ exists' = exists /\ pending' = pending /\ UNCHANGED folderVars
      /\ dropped' = dropped /\ UptimeHistory
  BY DEF Start, StartVolatile, folderVars
<1>2. /\ history \in Seq(Line) /\ pending \in Seq(Line) /\ lastkey \in Nat
      /\ \A i \in 1 .. Len(history) : history[i] # Empty
      /\ \A i \in 1 .. Len(pending) : pending[i] # Empty
      /\ exists \in BOOLEAN /\ dropped \in Nat
      /\ Headless(history) => Len(history) <= MaxHistFile + 1
  BY DEF IInv, DataOK, NoNullLine, LinesCounted
<1>3. CASE UNCHANGED <<history, lastkey>>
  BY <1>1, <1>2, <1>3, UnloadedStep
<1>4. CASE NewKey /\ history' = Append(OverwriteFirst(history),
                                       EventLine("EVENT", FALSE))
  <2> DEFINE h == OverwriteFirst(history)
             e == EventLine("EVENT", FALSE)
  <2>1. h \in Seq(Line) /\ ~Headless(h) /\ \A i \in 1 .. Len(h) : h[i] # Empty
    BY <1>2, OverwriteFirstFacts
  <2>2. e \in Line /\ e # Empty
    BY EventLineFacts DEF Events
  <2>3. history' = Append(h, e) /\ lastkey' \in Nat
    BY <1>2, <1>4 DEF NewKey, FreshKey
  <2> HIDE DEF h, e
  <2>4. /\ history' \in Seq(Line)
        /\ \A i \in 1 .. Len(history') : history'[i] # Empty
    BY <2>1, <2>2, <2>3
  <2>5. h # <<>> /\ Head(h) \in {Uptime, Squeezed}
    BY <2>1 DEF Headless
  <2>6. history' # <<>> /\ Head(history') = Head(h)
    BY <2>1, <2>2, <2>3, <2>5
  <2>7. ~Headless(history')
    BY <2>5, <2>6 DEF Headless
  <2> QED BY <1>1, <1>2, <2>3, <2>4, <2>7, UnloadedStep
<1> QED BY <1>1, <1>3, <1>4 DEF UptimeHistory

LEMMA StartMinimalStep == ASSUME IInv, StartMinimal PROVE IInv'
<1>1. /\ historycache' = NoCache /\ nextline' = -1 /\ fileentries' = 0
      /\ running' = TRUE /\ gabortcleansd' = FALSE /\ synced' = FALSE
      /\ exists' = exists /\ history' = history /\ pending' = pending
      /\ UNCHANGED folderVars /\ lastkey' = lastkey /\ dropped' = dropped
  BY DEF StartMinimal, StartVolatile, fileVars
<1> QED BY <1>1, UnloadedStep DEF IInv, DataOK, NoNullLine, LinesCounted

LEMMA StartSwUpdateStep == ASSUME IInv, StartSwUpdate PROVE IInv'
<1> USE RecordsAssumption
<1>1. /\ historycache' = NoCache /\ nextline' = 0 /\ fileentries' = 0
      /\ running' = TRUE /\ gabortcleansd' = FALSE /\ synced' = TRUE
      /\ exists' = TRUE /\ history' = Header /\ current' = 0
      /\ pending' = <<EventLine("EVENT", FALSE)>>
      /\ folder' = (IF sdcard THEN folder ELSE NoFolders)
      /\ dropped' = dropped /\ NewKey
  BY DEF StartSwUpdate, StartVolatile
<1>2. Header \in Seq(Line) /\ Len(Header) = 2
      /\ \A i \in 1 .. 2 : Header[i] # Empty
  BY LineFacts DEF Header
<1>3. pending' \in Seq(Line) /\ \A i \in 1 .. Len(pending') : pending'[i] # Empty
  BY <1>1, EventLineFacts DEF Events
<1>4. folder' \in [Numbers -> Nat] /\ current' \in Numbers
  BY <1>1, FoldersAssumption DEF IInv, DataOK, NoFolders, Numbers
<1>5. NoCache \in [Slots -> Line] /\ 0 \in -1 .. MaxRecords - 1
  BY LineFacts DEF NoCache
<1>6. lastkey' \in Nat
  BY <1>1 DEF IInv, DataOK, NewKey, FreshKey
<1>7. DataOK'
  BY <1>1, <1>2, <1>3, <1>4, <1>5, <1>6 DEF IInv, DataOK
<1>8. NoNullLine'
  BY <1>1, <1>2, <1>3 DEF NoNullLine
<1>9. CacheFilled'
  BY <1>1 DEF CacheFilled, Slots
<1>10. LinesCounted'
  BY <1>1, <1>2 DEF LinesCounted, HeaderSize
<1> QED BY <1>7, <1>8, <1>9, <1>10 DEF IInv

LEMMA DieFacts ==
    ASSUME IInv, Die
    PROVE  /\ historycache' = NoCache /\ nextline' = -1 /\ fileentries' = 0
           /\ running' = FALSE /\ gabortcleansd' = FALSE /\ synced' = FALSE
           /\ pending' \in Seq(Line)
           /\ \A i \in 1 .. Len(pending') : pending'[i] # Empty
  BY DEF Die

LEMMA KillStep == ASSUME IInv, Kill PROVE IInv'
<1>1. /\ Die /\ exists' = exists /\ history' = history
      /\ UNCHANGED folderVars /\ lastkey' = lastkey /\ dropped' = 0
  BY DEF Kill, Die, fileVars
<1>2. /\ history' \in Seq(Line) /\ lastkey' \in Nat
      /\ \A i \in 1 .. Len(history') : history'[i] # Empty
      /\ exists' \in BOOLEAN /\ dropped' \in Nat
      /\ Headless(history') => Len(history') <= MaxHistFile + 1
  BY <1>1 DEF IInv, DataOK, NoNullLine, LinesCounted
<1>3. /\ historycache' = NoCache /\ nextline' = -1 /\ fileentries' \in Nat
      /\ running' \in BOOLEAN /\ gabortcleansd' \in BOOLEAN
      /\ synced' \in BOOLEAN /\ pending' \in Seq(Line)
      /\ \A i \in 1 .. Len(pending') : pending'[i] # Empty
  BY <1>1, DieFacts
<1> QED BY <1>1, <1>2, <1>3, UnloadedStep

LEMMA KillInTrimStep ==
    ASSUME IInv, NEW n \in 0 .. HeaderSize + MaxRecords - 1, KillInTrim(n)
    PROVE  IInv'
<1> USE RecordsAssumption
<1>1. /\ Raising /\ Die /\ EntriesNow + 1 >= MaxHistFile /\ exists' = TRUE
      /\ history' = SubSeq(Trimmed(StoredCache, StoredNext), 1, n)
      /\ UNCHANGED folderVars /\ lastkey' = lastkey /\ dropped' = 0
  BY DEF KillInTrim, Die
<1>2. EntriesNow \in Nat /\ EntriesNow + 1 >= MaxRecords
  BY <1>1, NowFacts
<1>3. /\ StoredCache \in [Slots -> Line] /\ StoredNext \in Slots
      /\ \A i \in Slots : StoredCache[i] # Empty
  BY <1>1, <1>2, StoredFacts
<1>4. /\ history' \in Seq(Line) /\ Len(history') = n
      /\ \A i \in 1 .. n : history'[i] # Empty
      /\ Headless(history') => n = 0
  BY <1>1, <1>3, CutFacts
<1>5. Headless(history') => Len(history') <= MaxHistFile + 1
  BY <1>4
<1>6. lastkey' \in Nat /\ dropped' \in Nat
  BY <1>1 DEF IInv, DataOK
<1> QED BY <1>1, <1>4, <1>5, <1>6, DieFacts, UnloadedStep

LEMMA RemoveHistoryStep == ASSUME IInv, RemoveHistory PROVE IInv'
<1> USE RecordsAssumption
<1>1. /\ exists' = FALSE /\ history' = <<>>
      /\ running' = running /\ historycache' = historycache
      /\ nextline' = nextline /\ fileentries' = fileentries
      /\ gabortcleansd' = gabortcleansd /\ pending' = pending
      /\ folder' = folder /\ current' = current /\ lastkey' = lastkey
      /\ synced' = synced /\ dropped' = dropped
  BY DEF RemoveHistory, cacheVars, folderVars, ghostVars
<1>2. history' \in Seq(Line) /\ Len(history') = 0
  BY <1>1
<1>3. exists' \in BOOLEAN
  BY <1>1
<1>4. DataOK'
  BY <1>1, <1>2, <1>3 DEF IInv, DataOK
<1>5. NoNullLine'
  BY <1>1, <1>2 DEF IInv, NoNullLine
<1>6. CacheFilled'
  BY <1>1 DEF CacheFilled
<1>7. LinesCounted'
  BY <1>1, <1>2 DEF LinesCounted
<1> QED BY <1>4, <1>5, <1>6, <1>7 DEF IInv

LEMMA DelHistStep == ASSUME IInv, DelHist PROVE IInv'
<1> USE RecordsAssumption
<1>1. PICK l \in {Squeezed, Junk} : history' = <<l>>
  BY DEF DelHist
<1>2. /\ history' \in Seq(Line) /\ Len(history') = 1
      /\ \A i \in 1 .. Len(history') : history'[i] # Empty
  BY <1>1, LineFacts
<1>3. /\ running' = running /\ exists' = exists /\ historycache' = historycache
      /\ nextline' = nextline /\ fileentries' = fileentries
      /\ gabortcleansd' = gabortcleansd /\ pending' = pending
      /\ folder' = folder /\ current' = current /\ lastkey' = lastkey
      /\ synced' = FALSE /\ dropped' = dropped
  BY DEF DelHist, cacheVars, folderVars
<1>4. DataOK' /\ NoNullLine' /\ CacheFilled'
  BY <1>2, <1>3 DEF IInv, DataOK, NoNullLine, CacheFilled
<1>5. LinesCounted'
  BY <1>2, <1>3 DEF IInv, DataOK, LinesCounted, HeaderSize
<1> QED BY <1>4, <1>5 DEF IInv
-----------------------------------------------------------------------------
LEMMA IInvInit == Init => IInv
<1> USE RecordsAssumption
<1> SUFFICES ASSUME Init PROVE IInv
  OBVIOUS
<1>1. NoCache \in [Slots -> Line] /\ -1 \in -1 .. MaxRecords - 1
  BY LineFacts DEF NoCache
<1>2. NoFolders \in [Numbers -> Nat] /\ 0 \in Numbers
  BY FoldersAssumption DEF NoFolders, Numbers
<1>3. /\ running = FALSE /\ exists = FALSE /\ history = <<>>
      /\ historycache = NoCache /\ nextline = -1 /\ fileentries = 0
      /\ gabortcleansd = FALSE /\ pending = <<>>
      /\ folder = NoFolders /\ current = 0 /\ lastkey = 0
      /\ synced = FALSE /\ dropped = 0
  BY DEF Init
<1>4. DataOK
  BY <1>1, <1>2, <1>3 DEF DataOK
<1>5. NoNullLine /\ CacheFilled /\ LinesCounted
  BY <1>3 DEF NoNullLine, CacheFilled, LinesCounted, HeaderSize
<1> QED BY <1>4, <1>5 DEF IInv

LEMMA IInvNext == IInv /\ [Next]_vars => IInv'
<1> SUFFICES ASSUME IInv, [Next]_vars PROVE IInv'
  OBVIOUS
<1>1. CASE AppendFails \/ TrimOpenFails
  BY <1>1, KeepFileStep DEF AppendFails, TrimOpenFails
<1>2. CASE UpdateHistoryFile
  BY <1>1, <1>2, AppendLineStep, TrimFileStep, TrimFailsStep, UpdateErrorsStep
     DEF UpdateHistoryFile
<1>3. CASE UNCHANGED vars
  BY <1>3 DEF vars, fileVars, cacheVars, folderVars, ghostVars, IInv, DataOK,
     NoNullLine, CacheFilled, LinesCounted
<1> QED BY <1>2, <1>3, StartStep, StartMinimalStep, StartSwUpdateStep,
      HandlersStep, CmdDeleteStep, AddUptimeStep, KillStep, KillInTrimStep,
      RemoveHistoryStep, DelHistStep DEF Next, Step

(* Type correctness of the history, the cache and the folders.              *)
THEOREM TypeCorrect == Spec => []TypeOK
<1>1. Init => TypeOK
  BY IInvInit DEF Init, IInv, TypeOK
<1>2. TypeOK /\ IInv' /\ [Next]_vars => TypeOK'
  BY DEF IInv, TypeOK, Next, vars
<1> QED BY <1>1, <1>2, IInvInit, IInvNext, PTL DEF Spec

(* The rewrite of the history file never reads an empty slot of the buffer, *)
(* whatever update, load, allocation or rewrite failed before and wherever  *)
(* the daemon was killed.                                                   *)
THEOREM TrimSafe == Spec => []TrimReadsNoHole
<1>1. IInv => TrimReadsNoHole
  <2> SUFFICES ASSUME IInv, EntriesNow + 1 >= MaxHistFile
               PROVE  \A i \in Slots \ {NextNow} : CacheNow[i] # Empty
    BY DEF TrimReadsNoHole
  <2>1. EntriesNow \in Nat /\ EntriesNow >= MaxRecords
    BY RecordsAssumption, NowFacts
  <2> QED BY <2>1, NowFacts
<1> QED BY <1>1, IInvInit, IInvNext, PTL DEF Spec

(* The entry counter of the daemon never falls more than one line behind    *)
(* the file.                                                                *)
THEOREM CounterSafe == Spec => []CounterCoversFile
<1>1. IInv => CounterCoversFile
  BY DEF IInv, LinesCounted, CounterCoversFile, Loaded
<1> QED BY <1>1, IInvInit, IInvNext, PTL DEF Spec

LEMMA GrowthStep == IInv /\ [Next]_vars => [GrowthOK]_vars
<1> SUFFICES ASSUME IInv, Next, nextline' >= 0, Len(history') > Len(history)
             PROVE  Len(history') <= HeaderSize + MaxHistFile
  BY DEF GrowthOK
<1> USE RecordsAssumption DEF HeaderSize
<1>1. /\ history \in Seq(Line) /\ Len(history) \in Nat
      /\ \A i \in 1 .. Len(history) : history[i] # Empty
      /\ Headless(history) => Len(history) <= MaxHistFile + 1
  BY DEF IInv, DataOK, NoNullLine, LinesCounted
<1>2. /\ EntriesNow \in Nat /\ FileNow \in Seq(Line) /\ Len(FileNow) \in Nat
      /\ Len(FileNow) <= EntriesNow + 3
  BY NowFacts
<1>3. history' = FileNow => Len(history') = 2
  <2>1. history' = FileNow => ~exists
    BY <1>1 DEF FileNow
  <2>2. Len(Header) = 2
    BY DEF Header
  <2> QED BY <2>1, <2>2 DEF FileNow
<1>4. CASE UpdateHistoryFile
  <2>1. CASE AppendLine
    <3>1. Len(history') = Len(FileNow) + 1 /\ EntriesNow + 1 < MaxHistFile
      BY <1>2, <2>1, StoredFacts DEF AppendLine, StoreLine
    <3> QED BY <1>2, <3>1
  <2>2. CASE AppendFails \/ TrimOpenFails \/ StrdupFails
    <3>1. history' = FileNow
      BY <2>2 DEF AppendFails, TrimOpenFails, StrdupFails
    <3>2. Len(history') = 2
      BY <1>3, <3>1
    <3> QED BY <3>2
  <2>3. ASSUME TrimFile \/ \E n \in 0 .. HeaderSize + MaxRecords - 1 : TrimFails(n)
        PROVE  Len(history') <= HeaderSize + MaxRecords
    <3>1. /\ StoreLine /\ EntriesNow + 1 >= MaxRecords
      BY <1>2, <2>3 DEF TrimFile, TrimFails
    <3>2. /\ StoredCache \in [Slots -> Line] /\ StoredNext \in Slots
          /\ \A i \in Slots : StoredCache[i] # Empty
      BY <3>1, StoredFacts DEF StoreLine
    <3>3. Len(Trimmed(StoredCache, StoredNext)) = MaxRecords + 2
      BY <3>2, TrimFacts
    <3>4. CASE TrimFile
      BY <3>3, <3>4 DEF TrimFile
    <3>5. ASSUME NEW n \in 0 .. HeaderSize + MaxRecords - 1, TrimFails(n)
          PROVE  Len(history') = n
      BY <3>2, <3>5, CutFacts DEF TrimFails
    <3> QED BY <2>3, <3>4, <3>5
  <2>4. CASE CreateFails \/ LoadFails
    BY <2>4 DEF CreateFails, LoadFails, fileVars
  <2> QED BY <1>4, <2>1, <2>2, <2>3, <2>4 DEF UpdateHistoryFile
<1>5. CASE AddUptimeEvent
  <2>1. history' = OverwriteFirst(history)
    BY <1>5 DEF AddUptimeEvent
  <2>2. Len(history') = IF Headless(history) THEN Len(history) + 1
                                             ELSE Len(history)
    BY <1>1, <2>1, OverwriteFirstFacts
  <2> QED BY <1>1, <2>2
<1>6. CASE Start \/ StartMinimal \/ Kill
           \/ \E n \in 0 .. HeaderSize + MaxRecords - 1 : KillInTrim(n)
  BY <1>6 DEF Start, StartMinimal, Kill, KillInTrim, Die
<1>7. CASE StartSwUpdate
  <2>1. history' = Header /\ Len(Header) = 2
    BY <1>7 DEF StartSwUpdate, Header
  <2>2. Len(history') = 2
    BY <2>1
  <2> QED BY <2>2
<1>11. CASE RemoveHistory
  <2>1. history' = <<>>
    BY <1>11 DEF RemoveHistory
  <2> QED BY <1>1, <2>1
<1>8. CASE DelHist
  <2>1. PICK l \in {Squeezed, Junk} : history' = <<l>>
    BY <1>8 DEF DelHist
  <2> QED BY <2>1
<1>9. CASE HandleEvent \/ HandleCrash \/ HandleCrashNoSpace \/ HandleCrashMkdirFails
  <2>1. history' = history
    BY <1>9 DEF HandleEvent, HandleCrash, HandleCrashNoSpace,
       HandleCrashMkdirFails, fileVars
  <2> QED BY <1>1, <2>1
<1>10. ASSUME NEW k \in 1 .. MaxKeys, CmdDelete(k) PROVE Len(history') = Len(history)
  <2>1. PICK i \in 1 .. Len(history) :
           history' = [history EXCEPT ![i] =
                            [ev |-> "DELETE", key |-> k, log |-> TRUE]]
    BY <1>10 DEF CmdDelete
  <2>2. [ev |-> "DELETE", key |-> k, log |-> TRUE] \in Line
    BY BoundAssumption DEF Line, Events
  <2> QED BY <1>1, <2>1, <2>2, ExceptSeq
<1> QED BY <1>4, <1>5, <1>6, <1>7, <1>8, <1>9, <1>10, <1>11 DEF Next, Step

(* A daemon that has cached the history never lets a step grow the file     *)
(* past MaxHistFile lines after the header, whatever failed before.         *)
THEOREM GrowthSafe == Spec => GrowthBounded
<1>1. IInv /\ [Next]_vars => [GrowthOK]_vars
  BY GrowthStep
<1> QED BY <1>1, IInvInit, IInvNext, PTL DEF Spec, GrowthBounded
-----------------------------------------------------------------------------
(* The order of the events.  Slot i of a ring is read before slot j when    *)
(* the reading begins at n.                                                 *)
Before(i, j, n) == (n <= i /\ i < j) \/ (i < j /\ j < n) \/ (n <= i /\ j < n)
RingOrdered(c, n) ==
    \A i, j \in Slots :
        Before(i, j, n) /\ c[i].key # 0 /\ c[j].key # 0 => c[i].key < c[j].key
Below(h, k)      == \A i \in 1 .. Len(h) : h[i].key < k
CacheBelow(c, k) == \A i \in Slots : c[i].key < k
PendingLater ==
    \A p \in 1 .. Len(pending) :
        /\ pending[p].key \in 1 .. lastkey
        /\ Below(history, pending[p].key)
        /\ CacheBelow(historycache, pending[p].key)

(* What Chronological rests on: the buffer, read from nextline on, is in    *)
(* order as well, and what the handler has still to raise is later than all *)
(* that is in the file or the buffer.                                       *)
KeysInv ==
    /\ Ordered(history) /\ Below(history, FreshKey)
    /\ RingOrdered(historycache, nextline) /\ CacheBelow(historycache, FreshKey)
    /\ nextline < 0 => historycache = NoCache
    /\ ~running => pending = <<>>
    /\ Ordered(pending) /\ PendingLater

LEMMA MarkKeys ==
    /\ Empty.key = 0 /\ Uptime.key = 0 /\ Squeezed.key = 0
    /\ Columns.key = 0 /\ Junk.key = 0
  BY DEF Empty, Uptime, Squeezed, Columns, Junk, Mark

LEMMA KeyType == \A l \in Line : l.key \in Nat
  BY DEF Line

LEMMA ModTwice ==
    ASSUME NEW m \in Nat \ {0}, NEW a \in Nat, a < m + m
    PROVE  a % m = IF a < m THEN a ELSE a - m
  OBVIOUS

LEMMA HeaderOrdered ==
    /\ Header \in Seq(Line) /\ Len(Header) = 2
    /\ \A i \in 1 .. 2 : Header[i].key = 0
    /\ Ordered(Header) /\ \A b \in Nat \ {0} : Below(Header, b)
<1>1. /\ Header \in Seq(Line) /\ Len(Header) = 2
      /\ \A i \in 1 .. 2 : Header[i].key = 0
  BY LineFacts, MarkKeys DEF Header
<1> QED BY <1>1 DEF Ordered, Below

LEMMA NoCacheOrdered ==
    /\ \A n : RingOrdered(NoCache, n)
    /\ \A b \in Nat \ {0} : CacheBelow(NoCache, b)
<1>1. \A i \in Slots : NoCache[i].key = 0
  BY MarkKeys DEF NoCache
<1>2. \A b \in Nat \ {0} : 0 < b
  OBVIOUS
<1>3. \A b \in Nat \ {0} : CacheBelow(NoCache, b)
  BY <1>1, <1>2, Zenon DEF CacheBelow
<1> QED BY <1>1, <1>3 DEF RingOrdered

(* The lines a reset leaves are in the order of the ring from slot 0 on.    *)
LEMMA EmptiedOrdered ==
    ASSUME IInv, KeysInv
    PROVE  /\ RingOrdered(Emptied, 0) /\ RingOrdered(Emptied, nextline)
           /\ nextline < 0 => Emptied = NoCache
           /\ \A b \in Nat \ {0} : CacheBelow(historycache, b) => CacheBelow(Emptied, b)
<1>1. CASE Emptied = NoCache
  BY <1>1, NoCacheOrdered
<1>2. CASE Emptied = historycache /\ ~(nextline > 0)
  <2>1. nextline = 0 \/ nextline < 0
    BY <1>2, RecordsAssumption DEF IInv, DataOK
  <2>2. CASE nextline = 0
    BY <1>2, <2>2 DEF KeysInv
  <2>3. CASE nextline < 0
    BY <1>2, <2>3, NoCacheOrdered DEF KeysInv
  <2> QED BY <2>1, <2>2, <2>3
<1> QED BY <1>1, <1>2, EmptiedCases

(* The first line written over: the other lines keep their order.           *)
LEMMA OverwriteShift ==
    ASSUME NEW h \in Seq(Line)
    PROVE  /\ OverwriteFirst(h) \in Seq(Line)
           /\ \E d \in {0, 1} : \A i \in 1 .. Len(OverwriteFirst(h)) :
                 \/ OverwriteFirst(h)[i].key = 0
                 \/ i - d \in 1 .. Len(h) /\ OverwriteFirst(h)[i] = h[i - d]
<1>1. CASE h = <<>> \/ (Len(h) = 1 /\ Head(h) = Squeezed)
  <2>1. OverwriteFirst(h) = <<Uptime>>
    BY <1>1, LineFacts DEF OverwriteFirst
  <2> QED BY <2>1, LineFacts, MarkKeys
<1>2. CASE h # <<>> /\ Head(h) = Uptime
  <2>1. OverwriteFirst(h) = h
    BY <1>2, LineFacts DEF OverwriteFirst
  <2>2. \A i \in 1 .. Len(h) : i - 0 \in 1 .. Len(h) /\ h[i] = h[i - 0]
    OBVIOUS
  <2> QED BY <2>1, <2>2
<1>3. CASE h # <<>> /\ Head(h) = Squeezed /\ Len(h) # 1
  <2> DEFINE t == Tail(Tail(h))
             o == <<Uptime, Junk>> \o t
  <2>1. OverwriteFirst(h) = o
    BY <1>3, LineFacts DEF OverwriteFirst
  <2>2. t \in Seq(Line) /\ Len(t) = Len(h) - 2
        /\ \A i \in 1 .. Len(t) : t[i] = h[i + 2]
    <3>1. Tail(h) \in Seq(Line) /\ Len(Tail(h)) = Len(h) - 1
          /\ \A i \in 1 .. Len(Tail(h)) : Tail(h)[i] = h[i + 1]
      BY <1>3
    <3>2. Tail(h) # <<>>
      <4>1. SUFFICES ASSUME Tail(h) = <<>> PROVE FALSE
        OBVIOUS
      <4>2. Len(h) - 1 = 0
        BY <3>1, <4>1
      <4> QED BY <4>2, <1>3
    <3> QED BY <3>1, <3>2
  <2>3. o \in Seq(Line) /\ Len(o) = Len(h) /\ o[1] = Uptime /\ o[2] = Junk
        /\ \A i \in 3 .. Len(o) : o[i] = h[i]
    BY <2>2, <1>3, LineFacts
  <2> HIDE DEF o
  <2>4. \A i \in 1 .. Len(o) : o[i].key = 0 \/ (i - 0 \in 1 .. Len(h) /\ o[i] = h[i - 0])
    BY <2>3, MarkKeys
  <2> QED BY <2>1, <2>3, <2>4
<1>4. CASE h # <<>> /\ Head(h) # Squeezed /\ Head(h) # Uptime
  <2> DEFINE o == <<Uptime, Junk>> \o Tail(h)
  <2>1. OverwriteFirst(h) = o
    BY <1>4 DEF OverwriteFirst
  <2>2. Tail(h) \in Seq(Line) /\ Len(Tail(h)) = Len(h) - 1
        /\ \A i \in 1 .. Len(Tail(h)) : Tail(h)[i] = h[i + 1]
    BY <1>4
  <2>3. o \in Seq(Line) /\ Len(o) = Len(h) + 1 /\ o[1] = Uptime /\ o[2] = Junk
        /\ \A i \in 3 .. Len(o) : o[i] = h[i - 1]
    BY <2>2, <1>4, LineFacts
  <2> HIDE DEF o
  <2>4. \A i \in 1 .. Len(o) : o[i].key = 0 \/ (i - 1 \in 1 .. Len(h) /\ o[i] = h[i - 1])
    BY <2>3, MarkKeys
  <2> QED BY <2>1, <2>3, <2>4
<1> QED BY <1>1, <1>2, <1>3, <1>4

LEMMA OverwriteOrdered ==
    ASSUME NEW h \in Seq(Line), Ordered(h)
    PROVE  /\ Ordered(OverwriteFirst(h))
           /\ \A b \in Nat \ {0} : Below(h, b) => Below(OverwriteFirst(h), b)
<1> DEFINE o == OverwriteFirst(h)
<1>1. o \in Seq(Line)
  BY OverwriteShift
<1>2. PICK d \in {0, 1} : \A i \in 1 .. Len(o) :
         o[i].key = 0 \/ (i - d \in 1 .. Len(h) /\ o[i] = h[i - d])
  BY OverwriteShift
<1> HIDE DEF o
<1>3. Ordered(o)
  <2> SUFFICES ASSUME NEW i \in 1 .. Len(o), NEW j \in 1 .. Len(o), i < j,
                      o[i].key # 0, o[j].key # 0
               PROVE  o[i].key < o[j].key
    BY DEF Ordered
  <2>1. /\ i - d \in 1 .. Len(h) /\ o[i] = h[i - d]
        /\ j - d \in 1 .. Len(h) /\ o[j] = h[j - d]
    BY <1>2
  <2>2. i - d < j - d
    BY <1>1, <1>2
  <2>3. \A x, y \in 1 .. Len(h) :
           x < y /\ h[x].key # 0 /\ h[y].key # 0 => h[x].key < h[y].key
    BY DEF Ordered
  <2> QED BY <2>1, <2>2, <2>3
<1>4. \A b \in Nat \ {0} : Below(h, b) => Below(o, b)
  BY <1>1, <1>2 DEF Below
<1> QED BY <1>3, <1>4 DEF o

(* A line appended that is later than all of the file.                      *)
LEMMA AppendOrdered ==
    ASSUME NEW h \in Seq(Line), NEW l \in Line, Ordered(h), Below(h, l.key)
    PROVE  /\ Ordered(Append(h, l))
           /\ \A b \in Nat : Below(h, b) /\ l.key < b => Below(Append(h, l), b)
<1> DEFINE a == Append(h, l)
<1>1. /\ Len(a) = Len(h) + 1 /\ Len(h) \in Nat
      /\ \A i \in 1 .. Len(h) : a[i] = h[i] /\ a[Len(h) + 1] = l
  OBVIOUS
<1>2. a[Len(h) + 1] = l
  OBVIOUS
<1> HIDE DEF a
<1>3. \A i \in 1 .. Len(a) : i \in 1 .. Len(h) \/ i = Len(h) + 1
  BY <1>1
<1>4. \A i, j \in 1 .. Len(a) : i < j => i \in 1 .. Len(h)
  BY <1>1
<1>5. Ordered(a)
  BY <1>1, <1>2, <1>3, <1>4 DEF Ordered, Below
<1>6. \A b \in Nat : Below(h, b) /\ l.key < b => Below(a, b)
  BY <1>1, <1>2, <1>3 DEF Below
<1> QED BY <1>5, <1>6 DEF a

(* A file read back into the buffer.                                        *)
LEMMA LoadOrdered ==
    ASSUME IInv, Ordered(history), historycache = NoCache
    PROVE  /\ RingOrdered(LoadedCache(history), LoadedNext(history))
           /\ \A b \in Nat \ {0} :
                 Below(history, b) => CacheBelow(LoadedCache(history), b)
<1> USE RecordsAssumption
<1>0. history \in Seq(Line) /\ Len(history) \in Nat
  BY DEF IInv, DataOK
<1>1. CASE Len(history) <= HeaderSize
  <2>1. LoadedCache(history) = NoCache
    BY <1>0, <1>1 DEF LoadedCache, HeaderSize
  <2> QED BY <2>1, NoCacheOrdered
<1>2. CASE Len(history) > HeaderSize
  <2> DEFINE n == Cached(history)
             t == TailOffset(history)
             c == LoadedCache(history)
  <2>1. n \in 1 .. MaxRecords /\ t \in Nat /\ t + n = Len(history)
    BY <1>0, <1>2 DEF Cached, TailOffset, HeaderSize
  <2>2. \A i \in Slots : c[i] = IF i < n THEN history[t + i + 1] ELSE Empty
    BY <1>2 DEF LoadedCache
  <2>3. LoadedNext(history) = IF n < MaxRecords THEN n ELSE 0
    BY <2>1, ModSmall, ModWrap DEF LoadedNext
  <2> HIDE DEF n, t, c
  <2>4. \A i \in Slots : i < n => t + i + 1 \in 1 .. Len(history)
    BY <2>1 DEF Slots
  <2>5. \A i \in Slots : c[i].key # 0 => i < n /\ c[i] = history[t + i + 1]
    BY <2>2, MarkKeys
  <2>6. \A b \in Nat \ {0} : Below(history, b) => CacheBelow(c, b)
    <3> TAKE b \in Nat \ {0}
    <3> HAVE Below(history, b)
    <3> SUFFICES ASSUME NEW i \in Slots PROVE c[i].key < b
      BY DEF CacheBelow
    <3>1. CASE i < n
      BY <2>2, <2>4, <3>1 DEF Below
    <3>2. CASE ~(i < n)
      <4>1. c[i].key = 0
        BY <2>2, <3>2, MarkKeys
      <4> QED BY <4>1
    <3> QED BY <3>1, <3>2
  <2>7. RingOrdered(c, LoadedNext(history))
    <3> SUFFICES ASSUME NEW i \in Slots, NEW j \in Slots,
                        Before(i, j, LoadedNext(history)),
                        c[i].key # 0, c[j].key # 0
                 PROVE  c[i].key < c[j].key
      BY DEF RingOrdered
    <3>1. i < n /\ j < n /\ c[i] = history[t + i + 1] /\ c[j] = history[t + j + 1]
      BY <2>5
    <3>2. i < j
      BY <2>1, <2>3, <3>1 DEF Before, Slots
    <3>3. /\ t + i + 1 \in 1 .. Len(history) /\ t + j + 1 \in 1 .. Len(history)
          /\ t + i + 1 < t + j + 1
      BY <2>1, <2>4, <3>1, <3>2 DEF Slots
    <3>4. \A x, y \in 1 .. Len(history) :
             x < y /\ history[x].key # 0 /\ history[y].key # 0
             => history[x].key < history[y].key
      BY DEF Ordered
    <3> QED BY <3>1, <3>3, <3>4
  <2> QED BY <2>6, <2>7 DEF c
<1> QED BY <1>0, <1>1, <1>2 DEF HeaderSize

(* The state update_history_file works on.                                  *)
LEMMA NowOrdered ==
    ASSUME IInv, KeysInv
    PROVE  /\ Ordered(FileNow) /\ RingOrdered(CacheNow, NextNow)
           /\ \A b \in Nat \ {0} : Below(history, b) /\ CacheBelow(historycache, b)
                 => Below(FileNow, b) /\ CacheBelow(CacheNow, b)
<1>1. CASE ~exists
  <2>1. FileNow = Header /\ CacheNow = Emptied /\ NextNow = 0
    BY <1>1 DEF FileNow, CacheNow, NextNow
  <2> QED BY <2>1, HeaderOrdered, EmptiedOrdered
<1>2. CASE exists /\ nextline < 0
  <2>1. /\ FileNow = history /\ CacheNow = LoadedCache(history)
        /\ NextNow = LoadedNext(history)
    BY <1>2 DEF FileNow, CacheNow, NextNow
  <2>2. Ordered(history) /\ historycache = NoCache
    BY <1>2 DEF KeysInv
  <2> QED BY <2>1, <2>2, LoadOrdered
<1>3. CASE exists /\ ~(nextline < 0)
  <2>1. FileNow = history /\ CacheNow = historycache /\ NextNow = nextline
    BY <1>3 DEF FileNow, CacheNow, NextNow
  <2> QED BY <2>1 DEF KeysInv
<1> QED BY <1>1, <1>2, <1>3

(* The event at the head of pending is later than file and buffer, those    *)
(* behind it later still.                                                   *)
LEMMA HeadLater ==
    ASSUME IInv, KeysInv, Raising
    PROVE  /\ Head(pending) \in Line /\ Head(pending).key \in 1 .. lastkey
           /\ Below(FileNow, Head(pending).key)
           /\ CacheBelow(CacheNow, Head(pending).key)
           /\ Tail(pending) \in Seq(Line)
           /\ Ordered(Tail(pending))
           /\ \A p \in 1 .. Len(Tail(pending)) :
                 /\ Tail(pending)[p].key \in 1 .. lastkey
                 /\ Head(pending).key < Tail(pending)[p].key
                 /\ Below(history, Tail(pending)[p].key)
                 /\ CacheBelow(historycache, Tail(pending)[p].key)
<1>1. pending \in Seq(Line) /\ pending # <<>> /\ lastkey \in Nat
  BY DEF IInv, DataOK, Raising
<1>2. /\ Len(pending) \in Nat /\ 1 \in 1 .. Len(pending)
      /\ Head(pending) = pending[1] /\ Head(pending) \in Line
      /\ Tail(pending) \in Seq(Line)
      /\ \A p \in 1 .. Len(Tail(pending)) :
            p + 1 \in 1 .. Len(pending) /\ Tail(pending)[p] = pending[p + 1]
  BY <1>1
<1>3. PendingLater /\ Ordered(pending)
  BY DEF KeysInv
<1>4. /\ pending[1].key \in 1 .. lastkey /\ Below(history, pending[1].key)
      /\ CacheBelow(historycache, pending[1].key)
  BY <1>2, <1>3 DEF PendingLater
<1>5. Below(FileNow, pending[1].key) /\ CacheBelow(CacheNow, pending[1].key)
  <2>1. pending[1].key \in Nat \ {0}
    BY <1>1, <1>4
  <2> QED BY <1>4, <2>1, NowOrdered
<1>6. ASSUME NEW p \in 1 .. Len(Tail(pending))
      PROVE  /\ Tail(pending)[p].key \in 1 .. lastkey
             /\ Head(pending).key < Tail(pending)[p].key
             /\ Below(history, Tail(pending)[p].key)
             /\ CacheBelow(historycache, Tail(pending)[p].key)
  <2>1. p + 1 \in 1 .. Len(pending) /\ Tail(pending)[p] = pending[p + 1]
    BY <1>2
  <2>2. /\ pending[p + 1].key \in 1 .. lastkey /\ Below(history, pending[p + 1].key)
        /\ CacheBelow(historycache, pending[p + 1].key)
    BY <1>3, <2>1 DEF PendingLater
  <2>3. 1 < p + 1 /\ pending[p + 1].key # 0 /\ pending[1].key # 0
    BY <1>2, <1>4, <2>2
  <2>4. pending[1].key < pending[p + 1].key
    BY <1>2, <1>3, <2>1, <2>3 DEF Ordered
  <2> QED BY <1>2, <2>1, <2>2, <2>4
<1>7. Ordered(Tail(pending))
  <2> DEFINE t == Tail(pending)
  <2>1. t \in Seq(Line) /\ \A p \in 1 .. Len(t) :
           p + 1 \in 1 .. Len(pending) /\ t[p] = pending[p + 1]
    BY <1>2
  <2> HIDE DEF t
  <2> SUFFICES ASSUME NEW i \in 1 .. Len(t), NEW j \in 1 .. Len(t), i < j,
                      t[i].key # 0, t[j].key # 0
               PROVE  t[i].key < t[j].key
    BY DEF Ordered, t
  <2>2. i + 1 < j + 1
    BY <2>1
  <2> QED BY <1>3, <2>1, <2>2 DEF Ordered
<1> QED BY <1>2, <1>4, <1>5, <1>6, <1>7

(* The line stored takes the place of the oldest and is the latest.         *)
LEMMA StoredOrdered ==
    ASSUME IInv, KeysInv, Raising
    PROVE  /\ RingOrdered(StoredCache, StoredNext)
           /\ \A b \in Nat : CacheBelow(CacheNow, b) /\ Head(pending).key < b
                 => CacheBelow(StoredCache, b)
<1> USE RecordsAssumption
<1> DEFINE l == Head(pending)
           n == NextNow
           c == CacheNow
           s == StoredCache
<1>1. l \in Line /\ l.key \in Nat /\ CacheBelow(c, l.key)
  BY HeadLater, KeyType
<1>2. n \in Nat /\ n < MaxRecords /\ RingOrdered(c, n) /\ c \in [Slots -> Line]
  BY NowFacts, NowOrdered DEF Slots
<1>3. \A i \in Slots : s[i] = IF i = n THEN l ELSE c[i]
  BY <1>1, <1>2 DEF StoredCache
<1>4. StoredNext = IF n + 1 < MaxRecords THEN n + 1 ELSE 0
  <2>1. n + 1 \in Nat /\ n + 1 < MaxRecords + MaxRecords /\ MaxRecords \in Nat \ {0}
    BY <1>2
  <2>2. StoredNext = (n + 1) % MaxRecords
    BY DEF StoredNext
  <2>3. CASE n + 1 < MaxRecords
    BY <2>1, <2>2, <2>3, ModSmall
  <2>4. CASE n + 1 = MaxRecords
    BY <2>1, <2>2, <2>4, ModWrap
  <2> QED BY <1>2, <2>1, <2>3, <2>4
<1> HIDE DEF l, n, c, s
<1>5. ASSUME NEW i \in Slots, NEW j \in Slots, Before(i, j, StoredNext)
      PROVE  i # n /\ (j # n => Before(i, j, n))
  BY <1>2, <1>4, <1>5 DEF Before, Slots
<1>6. RingOrdered(s, StoredNext)
  <2> SUFFICES ASSUME NEW i \in Slots, NEW j \in Slots, Before(i, j, StoredNext),
                      s[i].key # 0, s[j].key # 0
               PROVE  s[i].key < s[j].key
    BY DEF RingOrdered
  <2>1. CASE j = n
    BY <1>1, <1>3, <1>5, <2>1 DEF CacheBelow
  <2>2. CASE j # n
    BY <1>2, <1>3, <1>5, <2>2 DEF RingOrdered
  <2> QED BY <2>1, <2>2
<1>7. \A b \in Nat : CacheBelow(c, b) /\ l.key < b => CacheBelow(s, b)
  BY <1>3 DEF CacheBelow
<1> QED BY <1>6, <1>7 DEF l, c, s

(* The rewritten file, whole or cut, is the ring in order.                  *)
LEMMA TrimmedOrdered ==
    ASSUME NEW c \in [Slots -> Line], NEW n \in Slots, RingOrdered(c, n)
    PROVE  /\ Trimmed(c, n) \in Seq(Line)
           /\ Len(Trimmed(c, n)) = HeaderSize + MaxRecords
           /\ Trimmed(c, n)[1].key = 0 /\ Trimmed(c, n)[2].key = 0
           /\ \A j \in 1 .. MaxRecords :
                 Trimmed(c, n)[HeaderSize + j] = c[(n + j - 1) % MaxRecords]
           /\ Ordered(Trimmed(c, n))
           /\ \A b \in Nat \ {0} : CacheBelow(c, b) => Below(Trimmed(c, n), b)
<1> USE RecordsAssumption
<1> DEFINE r == RingOrder(c, n)
           t == Trimmed(c, n)
           w(j) == (n + j - 1) % MaxRecords
<1>0. n \in Nat /\ n < MaxRecords
  BY DEF Slots
<1>1. \A j \in 1 .. MaxRecords :
         w(j) = IF n + j - 1 < MaxRecords THEN n + j - 1 ELSE n + j - 1 - MaxRecords
  <2> TAKE j \in 1 .. MaxRecords
  <2> DEFINE a == n + j - 1
  <2>1. a \in Nat /\ a < MaxRecords + MaxRecords
    BY <1>0
  <2>2. w(j) = a % MaxRecords
    OBVIOUS
  <2> HIDE DEF a
  <2>3. a % MaxRecords = IF a < MaxRecords THEN a ELSE a - MaxRecords
    BY <2>1, ModTwice
  <2> HIDE DEF w
  <2>4. w(j) = IF a < MaxRecords THEN a ELSE a - MaxRecords
    BY <2>2, <2>3
  <2> QED BY <1>0, <2>4 DEF a
<1>2. \A j \in 1 .. MaxRecords : r[j] = c[w(j)]
  BY DEF RingOrder
<1> HIDE DEF w
<1>3. \A j \in 1 .. MaxRecords : w(j) \in Slots
  BY <1>0, <1>1 DEF Slots
<1>4. \A i, j \in 1 .. MaxRecords : i < j => Before(w(i), w(j), n)
  BY <1>0, <1>1 DEF Before
<1>5. r \in Seq(Line) /\ Len(r) = MaxRecords
  <2>1. r = [j \in 1 .. MaxRecords |-> c[w(j)]]
    BY DEF RingOrder, w
  <2> QED BY <1>3, <2>1
<1> HIDE DEF r
<1>6. /\ Header \o r \in Seq(Line)
      /\ Len(Header \o r) = Len(Header) + Len(r)
      /\ \A i \in 1 .. Len(Header) + Len(r) :
            (Header \o r)[i] =
               IF i <= Len(Header) THEN Header[i] ELSE r[i - Len(Header)]
  BY <1>5, HeaderOrdered, ConcatProperties
<1>7. t = Header \o r
  BY DEF Trimmed, r
<1> HIDE DEF t
<1>8. /\ t \in Seq(Line) /\ Len(t) = 2 + MaxRecords
      /\ \A i \in 1 .. 2 + MaxRecords : t[i] = IF i <= 2 THEN Header[i] ELSE r[i - 2]
  BY <1>5, <1>6, <1>7, HeaderOrdered
<1>9. \A i \in 1 .. Len(t) : t[i].key # 0 =>
         i - 2 \in 1 .. MaxRecords /\ t[i] = c[w(i - 2)]
  <2> TAKE i \in 1 .. Len(t)
  <2> HAVE t[i].key # 0
  <2>1. ~(i <= 2)
    BY <1>8, HeaderOrdered
  <2>2. i - 2 \in 1 .. MaxRecords
    BY <1>8, <2>1
  <2> QED BY <1>2, <1>8, <2>1, <2>2
<1>10. Ordered(t)
  <2> SUFFICES ASSUME NEW i \in 1 .. Len(t), NEW j \in 1 .. Len(t), i < j,
                      t[i].key # 0, t[j].key # 0
               PROVE  t[i].key < t[j].key
    BY DEF Ordered
  <2>1. /\ i - 2 \in 1 .. MaxRecords /\ t[i] = c[w(i - 2)]
        /\ j - 2 \in 1 .. MaxRecords /\ t[j] = c[w(j - 2)]
    BY <1>9
  <2>2. i - 2 < j - 2
    BY <1>8
  <2>3. Before(w(i - 2), w(j - 2), n)
    BY <1>4, <2>1, <2>2
  <2> QED BY <1>3, <2>1, <2>3 DEF RingOrdered
<1>11. \A b \in Nat \ {0} : CacheBelow(c, b) => Below(t, b)
  <2> SUFFICES ASSUME NEW b \in Nat \ {0}, CacheBelow(c, b), NEW i \in 1 .. Len(t)
               PROVE  t[i].key < b
    BY DEF Below
  <2>1. CASE t[i].key = 0
    BY <2>1
  <2>2. CASE t[i].key # 0
    BY <1>3, <1>9, <2>2 DEF CacheBelow
  <2> QED BY <2>1, <2>2
<1>12. t[1].key = 0 /\ t[2].key = 0
  BY <1>8, HeaderOrdered
<1>13. \A j \in 1 .. MaxRecords : t[2 + j] = c[w(j)]
  <2> TAKE j \in 1 .. MaxRecords
  <2>1. 2 + j \in 1 .. 2 + MaxRecords /\ ~(2 + j <= 2) /\ (2 + j) - 2 = j
    OBVIOUS
  <2> QED BY <1>2, <1>8, <2>1
<1> QED BY <1>8, <1>10, <1>11, <1>12, <1>13 DEF t, w, HeaderSize

LEMMA CutOrdered ==
    ASSUME NEW t \in Seq(Line), Ordered(t), NEW k \in Nat, k <= Len(t)
    PROVE  /\ Ordered(SubSeq(t, 1, k))
           /\ \A b \in Nat : Below(t, b) => Below(SubSeq(t, 1, k), b)
<1> DEFINE u == SubSeq(t, 1, k)
<1>1. Len(u) = k /\ \A i \in 1 .. k : u[i] = t[i] /\ i \in 1 .. Len(t)
  OBVIOUS
<1> HIDE DEF u
<1>2. Ordered(u) /\ \A b \in Nat : Below(t, b) => Below(u, b)
  BY <1>1 DEF Ordered, Below
<1> QED BY <1>2 DEF u

(* A step that takes the head of pending: file and buffer get no key but    *)
(* that of the head.                                                        *)
LEMMA RaiseKeys ==
    ASSUME IInv, KeysInv, Raising,
           pending' = Tail(pending), lastkey' = lastkey, running' = running,
           Ordered(history'), RingOrdered(historycache', nextline'),
           nextline' < 0 => historycache' = NoCache,
           \A b \in Nat \ {0} :
               /\ Below(history, b) /\ CacheBelow(historycache, b)
               /\ Head(pending).key < b
               => Below(history', b) /\ CacheBelow(historycache', b)
    PROVE  KeysInv'
<1>1. lastkey \in Nat /\ FreshKey' = FreshKey /\ FreshKey \in Nat \ {0} /\ running
  BY DEF IInv, DataOK, FreshKey, Raising
<1>2. /\ Head(pending).key \in 1 .. lastkey /\ Ordered(Tail(pending))
      /\ \A p \in 1 .. Len(Tail(pending)) :
            /\ Tail(pending)[p].key \in 1 .. lastkey
            /\ Head(pending).key < Tail(pending)[p].key
            /\ Below(history, Tail(pending)[p].key)
            /\ CacheBelow(historycache, Tail(pending)[p].key)
  BY HeadLater
<1>4. Below(history', FreshKey) /\ CacheBelow(historycache', FreshKey)
  <2>1. Head(pending).key < FreshKey
    BY <1>1, <1>2 DEF FreshKey
  <2>2. Below(history, FreshKey) /\ CacheBelow(historycache, FreshKey)
    BY DEF KeysInv
  <2> QED BY <1>1, <2>1, <2>2
<1>5. PendingLater'
  <2> SUFFICES ASSUME NEW p \in 1 .. Len(pending')
               PROVE  /\ pending'[p].key \in 1 .. lastkey'
                      /\ Below(history', pending'[p].key)
                      /\ CacheBelow(historycache', pending'[p].key)
    BY DEF PendingLater
  <2>1. /\ pending'[p].key \in 1 .. lastkey /\ Head(pending).key < pending'[p].key
        /\ Below(history, pending'[p].key) /\ CacheBelow(historycache, pending'[p].key)
    BY <1>2
  <2>2. pending'[p].key \in Nat \ {0}
    BY <1>1, <2>1
  <2> QED BY <2>1, <2>2
<1>6. FreshKey' = FreshKey
  BY DEF FreshKey
<1> QED BY <1>1, <1>2, <1>4, <1>5, <1>6 DEF KeysInv

LEMMA UpdateKeys == ASSUME IInv, KeysInv, UpdateHistoryFile PROVE KeysInv'
<1> USE RecordsAssumption
<1>1. Raising
  BY DEF UpdateHistoryFile, AppendLine, AppendFails, TrimFile, TrimOpenFails,
     TrimFails, CreateFails, LoadFails, StrdupFails, StoreLine
<1>2. pending' = Tail(pending) /\ lastkey' = lastkey /\ running' = running
  BY DEF UpdateHistoryFile, AppendLine, AppendFails, TrimFile, TrimOpenFails,
     TrimFails, CreateFails, LoadFails, StrdupFails, StoreLine
<1>3. /\ Head(pending) \in Line /\ Head(pending).key \in Nat
      /\ Below(FileNow, Head(pending).key)
      /\ FileNow \in Seq(Line) /\ Ordered(FileNow)
  BY <1>1, HeadLater, KeyType, NowFacts, NowOrdered
<1>4. /\ StoredNext \in Slots /\ StoredNext >= 0 /\ StoredCache \in [Slots -> Line]
      /\ RingOrdered(StoredCache, StoredNext)
      /\ \A b \in Nat : CacheBelow(CacheNow, b) /\ Head(pending).key < b
            => CacheBelow(StoredCache, b)
  BY <1>1, StoredFacts, StoredOrdered DEF Slots
<1>5. ASSUME StoreLine, Ordered(history'),
             \A b \in Nat \ {0} : /\ Below(FileNow, b) /\ Head(pending).key < b
                                  /\ CacheBelow(StoredCache, b)
                                  => Below(history', b)
      PROVE  KeysInv'
  <2>1. historycache' = StoredCache /\ nextline' = StoredNext
    BY <1>5 DEF StoreLine
  <2>2. ~(nextline' < 0)
    BY <1>4, <2>1 DEF Slots
  <2>3. RingOrdered(historycache', nextline')
    BY <1>4, <2>1
  <2>4. \A b \in Nat \ {0} :
           /\ Below(history, b) /\ CacheBelow(historycache, b)
           /\ Head(pending).key < b
           => Below(history', b) /\ CacheBelow(historycache', b)
    BY <1>4, <1>5, <2>1, NowOrdered
  <2> QED BY <1>1, <1>2, <1>5, <2>2, <2>3, <2>4, RaiseKeys
<1>6. CASE AppendLine
  <2>1. StoreLine /\ history' = Append(FileNow, Head(pending))
    BY <1>6 DEF AppendLine
  <2>2. Ordered(history')
    BY <1>3, <2>1, AppendOrdered
  <2>3. \A b \in Nat : Below(FileNow, b) /\ Head(pending).key < b => Below(history', b)
    BY <1>3, <2>1, AppendOrdered
  <2> QED BY <1>5, <2>1, <2>2, <2>3
<1>7. CASE AppendFails \/ TrimOpenFails
  <2>1. StoreLine /\ history' = FileNow
    BY <1>7 DEF AppendFails, TrimOpenFails
  <2> QED BY <1>3, <1>5, <2>1
<1>8. /\ Trimmed(StoredCache, StoredNext) \in Seq(Line)
      /\ Len(Trimmed(StoredCache, StoredNext)) = HeaderSize + MaxRecords
      /\ Ordered(Trimmed(StoredCache, StoredNext))
      /\ \A b \in Nat \ {0} : CacheBelow(StoredCache, b)
            => Below(Trimmed(StoredCache, StoredNext), b)
  BY <1>4, TrimmedOrdered
<1>9. CASE TrimFile
  <2>1. StoreLine /\ history' = Trimmed(StoredCache, StoredNext)
    BY <1>9 DEF TrimFile
  <2> QED BY <1>5, <1>8, <2>1
<1>10. ASSUME NEW n \in 0 .. HeaderSize + MaxRecords - 1, TrimFails(n)
       PROVE  KeysInv'
  <2>1. StoreLine /\ history' = SubSeq(Trimmed(StoredCache, StoredNext), 1, n)
    BY <1>10 DEF TrimFails
  <2>2. n \in Nat /\ n <= HeaderSize + MaxRecords
    BY DEF HeaderSize
  <2>3. /\ Ordered(history')
        /\ \A b \in Nat \ {0} : CacheBelow(StoredCache, b) => Below(history', b)
    BY <1>8, <2>1, <2>2, CutOrdered
  <2> QED BY <1>5, <2>1, <2>3
<1>11. CASE CreateFails \/ LoadFails
  <2>1. /\ historycache' = NoCache \/ historycache' = Emptied
        /\ history' = history /\ nextline' = nextline
    BY <1>11 DEF CreateFails, LoadFails, fileVars
  <2>2. /\ RingOrdered(historycache', nextline')
        /\ nextline' < 0 => historycache' = NoCache
        /\ \A b \in Nat \ {0} : CacheBelow(historycache, b) => CacheBelow(historycache', b)
    BY <2>1, NoCacheOrdered, EmptiedOrdered
  <2>3. Ordered(history')
    BY <2>1 DEF KeysInv
  <2> QED BY <1>1, <1>2, <2>1, <2>2, <2>3, NoCacheOrdered, RaiseKeys
<1>12. CASE StrdupFails
  <2>1. /\ historycache' = [CacheNow EXCEPT ![NextNow] = Empty]
        /\ nextline' = NextNow /\ history' = FileNow
    BY <1>12 DEF StrdupFails
  <2>2. /\ CacheNow \in [Slots -> Line] /\ NextNow \in Slots
        /\ RingOrdered(CacheNow, NextNow)
    BY NowFacts, NowOrdered
  <2>3. \A i \in Slots : historycache'[i] = IF i = NextNow THEN Empty ELSE CacheNow[i]
    BY <2>1, <2>2
  <2>4. RingOrdered(historycache', NextNow)
    BY <2>2, <2>3, MarkKeys DEF RingOrdered
  <2>5. \A b \in Nat \ {0} : CacheBelow(CacheNow, b) => CacheBelow(historycache', b)
    <3> SUFFICES ASSUME NEW b \in Nat \ {0}, CacheBelow(CacheNow, b), NEW i \in Slots
                 PROVE  historycache'[i].key < b
      BY DEF CacheBelow
    <3> QED BY <2>3, MarkKeys DEF CacheBelow
  <2>6. ~(nextline' < 0)
    BY <2>1, <2>2 DEF Slots
  <2>7. \A b \in Nat \ {0} : Below(history, b) /\ CacheBelow(historycache, b)
           => Below(history', b) /\ CacheBelow(historycache', b)
    BY <2>1, <2>5, NowOrdered
  <2> QED BY <1>1, <1>2, <1>3, <2>1, <2>4, <2>6, <2>7, RaiseKeys
<1> QED BY <1>6, <1>7, <1>9, <1>10, <1>11, <1>12 DEF UpdateHistoryFile

LEMMA Successor ==
    /\ \A n \in Nat : n + 1 \in Nat \ {0} /\ n + 1 \in Nat
    /\ \A n, m \in Nat : m >= n => n + 1 <= m + 1
  OBVIOUS

(* A handler begins: its events have fresh keys.                            *)
LEMMA FreshPending ==
    ASSUME IInv, KeysInv, lastkey' \in Nat, lastkey' >= lastkey,
           pending' \in Seq(Line), Ordered(pending'),
           \A p \in 1 .. Len(pending') : pending'[p].key \in FreshKey .. lastkey',
           running',
           Ordered(history'), RingOrdered(historycache', nextline'),
           nextline' < 0 => historycache' = NoCache,
           Below(history', FreshKey), CacheBelow(historycache', FreshKey),
           history' \in Seq(Line), historycache' \in [Slots -> Line]
    PROVE  KeysInv'
<1>0. lastkey \in Nat /\ FreshKey = lastkey + 1
  BY DEF IInv, DataOK, FreshKey
<1>1. FreshKey \in Nat \ {0} /\ lastkey' + 1 \in Nat /\ FreshKey <= lastkey' + 1
  BY <1>0, Successor, Zenon
<1>2. \A b \in Nat : b >= FreshKey => Below(history', b) /\ CacheBelow(historycache', b)
  <2>1. \A i \in 1 .. Len(history') : history'[i].key \in Nat
    BY KeyType
  <2>2. \A i \in Slots : historycache'[i].key \in Nat
    BY KeyType
  <2> QED BY <1>1, <2>1, <2>2 DEF Below, CacheBelow
<1>3. PendingLater'
  <2> SUFFICES ASSUME NEW p \in 1 .. Len(pending')
               PROVE  /\ pending'[p].key \in 1 .. lastkey'
                      /\ Below(history', pending'[p].key)
                      /\ CacheBelow(historycache', pending'[p].key)
    BY DEF PendingLater
  <2>1. pending'[p].key \in FreshKey .. lastkey'
    OBVIOUS
  <2>2. pending'[p].key \in Nat /\ pending'[p].key >= FreshKey
        /\ pending'[p].key \in 1 .. lastkey'
    BY <1>0, <1>1, <2>1
  <2> QED BY <1>2, <2>2
<1>4. Below(history', lastkey' + 1) /\ CacheBelow(historycache', lastkey' + 1)
  BY <1>1, <1>2
<1> QED BY <1>3, <1>4 DEF KeysInv, FreshKey

LEMMA OneFresh ==
    ASSUME IInv, NEW e \in Events, NEW l \in BOOLEAN,
           pending' = <<EventLine(e, l)>>, lastkey' = FreshKey
    PROVE  /\ pending' \in Seq(Line) /\ Ordered(pending')
           /\ \A p \in 1 .. Len(pending') : pending'[p].key \in FreshKey .. lastkey'
           /\ lastkey' \in Nat /\ lastkey' >= lastkey
<1>1. lastkey \in Nat /\ FreshKey = lastkey + 1
  BY DEF IInv, DataOK, FreshKey
<1>2. EventLine(e, l) \in Line /\ EventLine(e, l).key = FreshKey
  BY EventLineFacts DEF EventLine
<1> HIDE DEF EventLine
<1>3. pending' \in Seq(Line) /\ Len(pending') = 1 /\ pending'[1] = EventLine(e, l)
  BY <1>2
<1> QED BY <1>1, <1>2, <1>3 DEF Ordered

LEMMA HandlersKeys ==
    ASSUME IInv, KeysInv,
           HandleEvent \/ HandleCrash \/ HandleCrashNoSpace \/ HandleCrashMkdirFails
    PROVE  KeysInv'
<1>1. /\ running /\ running' = running /\ history' = history
      /\ historycache' = historycache /\ nextline' = nextline
  BY DEF HandleEvent, HandleCrash, HandleCrashNoSpace, HandleCrashMkdirFails,
     Idle, fileVars, cacheVars
<1>2. /\ lastkey \in Nat /\ FreshKey = lastkey + 1
      /\ history' \in Seq(Line) /\ historycache' \in [Slots -> Line]
  BY <1>1 DEF IInv, DataOK, FreshKey
<1>3. /\ Ordered(history') /\ RingOrdered(historycache', nextline')
      /\ nextline' < 0 => historycache' = NoCache
      /\ Below(history', FreshKey) /\ CacheBelow(historycache', FreshKey)
  BY <1>1 DEF KeysInv
<1>4. /\ pending' \in Seq(Line) /\ Ordered(pending')
      /\ \A p \in 1 .. Len(pending') : pending'[p].key \in FreshKey .. lastkey'
      /\ lastkey' \in Nat /\ lastkey' >= lastkey
  <2>1. CASE HandleEvent
    BY <2>1, OneFresh DEF HandleEvent, NewKey, Events
  <2>2. CASE HandleCrash \/ HandleCrashNoSpace
    BY <2>2, OneFresh DEF HandleCrash, HandleCrashNoSpace, NewKey, Events
  <2>3. CASE HandleCrashMkdirFails
    <3> DEFINE m == [ev |-> "CRASH", key |-> lastkey + 2, log |-> FALSE]
               e == EventLine("EVENT", FALSE)
    <3>1. e \in Line /\ e.key = lastkey + 1
      BY <1>2, EventLineFacts DEF EventLine, Events
    <3>2. m \in Line /\ m.key = lastkey + 2
      BY <1>2 DEF Line, Events
    <3>3. pending' = <<e, m>> /\ lastkey' = lastkey + 2
      BY <2>3 DEF HandleCrashMkdirFails
    <3> HIDE DEF e, m
    <3>4. /\ pending' \in Seq(Line) /\ Len(pending') = 2
          /\ pending'[1] = e /\ pending'[2] = m
      BY <3>1, <3>2, <3>3
    <3>5. \A p \in 1 .. Len(pending') : p = 1 \/ p = 2
      BY <3>4
    <3>6. Ordered(pending')
      BY <1>2, <3>1, <3>2, <3>4, <3>5 DEF Ordered
    <3> QED BY <1>2, <3>1, <3>2, <3>3, <3>4, <3>5, <3>6
  <2> QED BY <2>1, <2>2, <2>3
<1> QED BY <1>1, <1>2, <1>3, <1>4, FreshPending

(* The file changed in place, nothing raised.                               *)
LEMMA FileOnlyKeys ==
    ASSUME IInv, KeysInv, pending' = pending, lastkey' = lastkey, running' = running,
           historycache' = historycache, nextline' = nextline,
           Ordered(history'), \A b \in Nat \ {0} : Below(history, b) => Below(history', b)
    PROVE  KeysInv'
<1>1. lastkey \in Nat /\ FreshKey \in Nat \ {0} /\ FreshKey' = FreshKey
  BY DEF IInv, DataOK, FreshKey
<1>2. \A p \in 1 .. Len(pending) : pending[p].key \in Nat \ {0}
  BY <1>1 DEF KeysInv, PendingLater
<1>3. PendingLater'
  BY <1>2 DEF KeysInv, PendingLater
<1> QED BY <1>1, <1>3 DEF KeysInv

LEMMA CmdDeleteKeys ==
    ASSUME IInv, KeysInv, NEW k \in 1 .. MaxKeys, CmdDelete(k)
    PROVE  KeysInv'
<1>1. PICK i \in 1 .. Len(history) :
         /\ history[i] = [ev |-> "CRASH", key |-> k, log |-> TRUE]
         /\ history' = [history EXCEPT ![i] =
                            [ev |-> "DELETE", key |-> k, log |-> TRUE]]
  BY DEF CmdDelete
<1> DEFINE d == [ev |-> "DELETE", key |-> k, log |-> TRUE]
<1>2. history \in Seq(Line) /\ d \in Line /\ d.key = k /\ history[i].key = k
  BY <1>1, BoundAssumption DEF IInv, DataOK, Line, Events
<1>3. history' = [history EXCEPT ![i] = d]
  BY <1>1
<1> HIDE DEF d
<1>4. Len(history') = Len(history)
      /\ \A j \in 1 .. Len(history) : history'[j] = IF j = i THEN d ELSE history[j]
  BY <1>2, <1>3, ExceptSeq
<1>5. \A j \in 1 .. Len(history) : history'[j].key = history[j].key
  BY <1>2, <1>4
<1>6. Ordered(history') /\ \A b \in Nat \ {0} : Below(history, b) => Below(history', b)
  BY <1>4, <1>5 DEF KeysInv, Ordered, Below
<1>7. /\ pending' = pending /\ lastkey' = lastkey /\ running' = running
      /\ historycache' = historycache /\ nextline' = nextline
  BY DEF CmdDelete, cacheVars
<1> QED BY <1>6, <1>7, FileOnlyKeys

LEMMA AddUptimeKeys == ASSUME IInv, IInv', KeysInv, AddUptimeEvent PROVE KeysInv'
<1>1. /\ Idle /\ exists /\ running' = running /\ history' = OverwriteFirst(history)
      /\ history \in Seq(Line) /\ lastkey \in Nat /\ FreshKey = lastkey + 1
  BY DEF AddUptimeEvent, IInv, DataOK, FreshKey
<1>2. /\ Ordered(history) /\ Below(history, FreshKey)
      /\ CacheBelow(historycache, FreshKey)
      /\ RingOrdered(historycache, nextline)
      /\ nextline < 0 => historycache = NoCache
  BY DEF KeysInv
<1>3. Ordered(history') /\ Below(history', FreshKey)
  BY <1>1, <1>2, OverwriteOrdered
<1>4. /\ RingOrdered(historycache', nextline') /\ CacheBelow(historycache', FreshKey)
      /\ nextline' < 0 => historycache' = NoCache
  <2>1. CASE CleaningSd /\ folder # NoFolders
    <3>1. historycache' = CacheNow /\ nextline' = NextNow
      BY <2>1 DEF AddUptimeEvent
    <3>2. ~(NextNow < 0)
      BY NowFacts DEF Slots
    <3> QED BY <1>1, <1>2, <3>1, <3>2, NowOrdered
  <2>2. CASE ~(CleaningSd /\ folder # NoFolders)
    <3>1. historycache' = historycache /\ nextline' = nextline
      BY <2>2 DEF AddUptimeEvent, cacheVars
    <3> QED BY <1>2, <3>1
  <2> QED BY <2>1, <2>2
<1>5. /\ pending' \in Seq(Line) /\ Ordered(pending')
      /\ \A p \in 1 .. Len(pending') : pending'[p].key \in FreshKey .. lastkey'
      /\ lastkey' \in Nat /\ lastkey' >= lastkey
  <2>1. CASE NewKey /\ pending' = <<EventLine("EVENT", FALSE)>>
    BY <2>1, OneFresh DEF NewKey, Events
  <2>2. CASE UNCHANGED <<lastkey, pending>>
    <3>1. pending' = <<>>
      BY <1>1, <2>2 DEF Idle
    <3> QED BY <1>1, <2>2, <3>1 DEF Ordered
  <2> QED BY <2>1, <2>2 DEF AddUptimeEvent
<1>6. history' \in Seq(Line) /\ historycache' \in [Slots -> Line] /\ running'
  BY <1>1 DEF IInv, DataOK, Idle
<1> QED BY <1>3, <1>4, <1>5, <1>6, FreshPending

(* The process starts or ends: nothing is cached or raised.                 *)
LEMMA VolatileKeys ==
    ASSUME IInv, KeysInv, pending' = <<>>, historycache' = NoCache,
           lastkey' \in Nat, Ordered(history'), Below(history', lastkey' + 1)
    PROVE  KeysInv'
<1>1. lastkey' + 1 \in Nat \ {0}
  BY Successor, Zenon
<1>2. RingOrdered(historycache', nextline') /\ CacheBelow(historycache', lastkey' + 1)
  BY <1>1, NoCacheOrdered
<1>3. Ordered(pending') /\ PendingLater'
  BY DEF Ordered, PendingLater
<1> QED BY <1>2, <1>3 DEF KeysInv, FreshKey

LEMMA StartKeys ==
    ASSUME IInv, KeysInv, Start \/ StartMinimal PROVE KeysInv'
<1>1. /\ pending' = <<>> /\ historycache' = NoCache
      /\ history \in Seq(Line) /\ lastkey \in Nat /\ FreshKey = lastkey + 1
      /\ Ordered(history) /\ Below(history, FreshKey)
  BY DEF Start, StartMinimal, StartVolatile, KeysInv, IInv, DataOK, FreshKey
<1>2. CASE UNCHANGED <<history, lastkey>>
  BY <1>1, <1>2, VolatileKeys
<1>3. CASE NewKey /\ history' = Append(OverwriteFirst(history),
                                       EventLine("EVENT", FALSE))
  <2> DEFINE h == OverwriteFirst(history)
             e == EventLine("EVENT", FALSE)
  <2>1. h \in Seq(Line) /\ Ordered(h) /\ Below(h, FreshKey)
    <3>1. FreshKey \in Nat \ {0}
      BY <1>1
    <3>2. h \in Seq(Line)
      BY <1>1, OverwriteShift
    <3>3. Ordered(h) /\ \A b \in Nat \ {0} : Below(history, b) => Below(h, b)
      BY <1>1, OverwriteOrdered
    <3> HIDE DEF h
    <3> QED BY <1>1, <3>1, <3>2, <3>3
  <2>2. e \in Line /\ e.key = FreshKey
    BY EventLineFacts DEF Events, EventLine
  <2>3. history' = Append(h, e) /\ lastkey' = FreshKey
    BY <1>3 DEF NewKey
  <2> HIDE DEF h, e
  <2>4. Below(h, lastkey' + 1)
    <3>1. \A i \in 1 .. Len(h) : h[i].key \in Nat
      BY <2>1, KeyType
    <3> QED BY <1>1, <2>1, <2>3, <3>1 DEF Below
  <2>5. e.key < lastkey' + 1 /\ lastkey' + 1 \in Nat /\ lastkey' \in Nat
    BY <1>1, <2>2, <2>3
  <2>6. Ordered(history') /\ Below(history', lastkey' + 1)
    BY <2>1, <2>2, <2>3, <2>4, <2>5, AppendOrdered
  <2> QED BY <1>1, <2>5, <2>6, VolatileKeys
<1> QED BY <1>2, <1>3 DEF Start, StartMinimal, UptimeHistory, fileVars

LEMMA StartSwUpdateKeys == ASSUME IInv, KeysInv, StartSwUpdate PROVE KeysInv'
<1>1. /\ historycache' = NoCache /\ nextline' = 0 /\ history' = Header /\ running'
      /\ pending' = <<EventLine("EVENT", FALSE)>> /\ lastkey' = FreshKey
      /\ FreshKey \in Nat \ {0}
  BY DEF StartSwUpdate, StartVolatile, NewKey, IInv, DataOK, FreshKey
<1>2. /\ pending' \in Seq(Line) /\ Ordered(pending')
      /\ \A p \in 1 .. Len(pending') : pending'[p].key \in FreshKey .. lastkey'
      /\ lastkey' \in Nat /\ lastkey' >= lastkey
  BY <1>1, OneFresh DEF Events
<1>3. NoCache \in [Slots -> Line]
  BY LineFacts DEF NoCache
<1> QED BY <1>1, <1>2, <1>3, HeaderOrdered, NoCacheOrdered, FreshPending

LEMMA EndKeys ==
    ASSUME IInv, KeysInv,
           Kill \/ \E n \in 0 .. HeaderSize + MaxRecords - 1 : KillInTrim(n)
    PROVE  KeysInv'
<1>1. /\ pending' = <<>> /\ historycache' = NoCache /\ lastkey' = lastkey
      /\ lastkey \in Nat /\ FreshKey = lastkey' + 1 /\ FreshKey \in Nat \ {0}
      /\ Ordered(history) /\ Below(history, FreshKey)
      /\ CacheBelow(historycache, FreshKey)
  BY DEF Kill, KillInTrim, Die, KeysInv, IInv, DataOK, FreshKey
<1>2. CASE Kill
  BY <1>1, <1>2, VolatileKeys DEF Kill, fileVars
<1>3. ASSUME NEW n \in 0 .. HeaderSize + MaxRecords - 1, KillInTrim(n) PROVE KeysInv'
  <2>1. Raising /\ history' = SubSeq(Trimmed(StoredCache, StoredNext), 1, n)
    BY <1>3 DEF KillInTrim
  <2>2. StoredNext \in Slots /\ StoredCache \in [Slots -> Line]
        /\ RingOrdered(StoredCache, StoredNext)
    BY <2>1, StoredFacts, StoredOrdered
  <2>3. CacheBelow(StoredCache, FreshKey)
    <3>1. Head(pending).key < FreshKey
      BY <1>1, <2>1, HeadLater DEF FreshKey
    <3>2. CacheBelow(CacheNow, FreshKey)
      BY <1>1, NowOrdered
    <3> QED BY <1>1, <2>1, <3>1, <3>2, StoredOrdered
  <2>4. n \in Nat /\ n <= HeaderSize + MaxRecords
    BY RecordsAssumption DEF HeaderSize
  <2>5. Ordered(history') /\ Below(history', FreshKey)
    BY <1>1, <2>1, <2>2, <2>3, <2>4, TrimmedOrdered, CutOrdered
  <2> QED BY <1>1, <2>5, VolatileKeys
<1> QED BY <1>2, <1>3

LEMMA OutsideKeys ==
    ASSUME IInv, KeysInv, RemoveHistory \/ DelHist PROVE KeysInv'
<1>1. /\ pending' = pending /\ lastkey' = lastkey /\ running' = running
      /\ historycache' = historycache /\ nextline' = nextline
  BY DEF RemoveHistory, DelHist, cacheVars
<1>2. Ordered(history') /\ \A b \in Nat \ {0} : Below(history', b)
  <2>1. CASE RemoveHistory
    <3>1. history' = <<>>
      BY <2>1 DEF RemoveHistory
    <3> QED BY <3>1 DEF Ordered, Below
  <2>2. CASE DelHist
    <3>1. PICK l \in {Squeezed, Junk} : history' = <<l>>
      BY <2>2 DEF DelHist
    <3>2. Len(history') = 1 /\ history'[1].key = 0
      BY <3>1, MarkKeys
    <3> QED BY <3>2 DEF Ordered, Below
  <2> QED BY <2>1, <2>2
<1> QED BY <1>1, <1>2, FileOnlyKeys

LEMMA KeysInvInit == Init => KeysInv
<1> SUFFICES ASSUME Init PROVE KeysInv
  OBVIOUS
<1>1. history = <<>> /\ pending = <<>> /\ historycache = NoCache /\ FreshKey \in Nat \ {0}
  BY DEF Init, FreshKey
<1>2. Ordered(history) /\ Ordered(pending) /\ Below(history, FreshKey) /\ PendingLater
  BY <1>1 DEF Ordered, Below, PendingLater
<1> QED BY <1>1, <1>2, NoCacheOrdered DEF KeysInv

LEMMA KeysInvNext == IInv /\ IInv' /\ KeysInv /\ [Next]_vars => KeysInv'
<1> SUFFICES ASSUME IInv, IInv', KeysInv, [Next]_vars PROVE KeysInv'
  OBVIOUS
<1>1. CASE UNCHANGED vars
  BY <1>1 DEF vars, fileVars, cacheVars, KeysInv, PendingLater, FreshKey
<1> QED BY <1>1, UpdateKeys, HandlersKeys, CmdDeleteKeys, AddUptimeKeys,
      StartKeys, StartSwUpdateKeys, EndKeys, OutsideKeys DEF Next, Step

(* The lines of the history stay in the order of their events, each once,   *)
(* over appends, rewrites whole or cut short, reloads and kills.            *)
THEOREM OrderKept == Spec => []Chronological
<1>1. KeysInv => Chronological
  BY DEF KeysInv, Chronological
<1> QED BY <1>1, IInvInit, IInvNext, KeysInvInit, KeysInvNext, PTL DEF Spec
-----------------------------------------------------------------------------
(* The buffer and the end of the file.                                      *)
TailInv ==
    exists /\ nextline >= 0 /\ synced =>
        HeaderIntact(history) /\ TailOf(historycache, nextline, history)

(* The slot filled j lines ago.                                             *)
Back(j, n) == IF j <= n THEN n - j ELSE n + MaxRecords - j

LEMMA BackSlot ==
    ASSUME NEW n \in Slots, NEW j \in 1 .. MaxRecords
    PROVE  (n + MaxRecords - j) % MaxRecords = Back(j, n) /\ Back(j, n) \in Slots
<1> USE RecordsAssumption
<1> DEFINE a == n + MaxRecords - j
<1>0. n \in Nat /\ n < MaxRecords
  BY DEF Slots
<1>1. a \in Nat /\ a < MaxRecords + MaxRecords
      /\ (a < MaxRecords <=> ~(j <= n)) /\ a - MaxRecords = n - j
  BY <1>0
<1>2. Back(j, n) = IF a < MaxRecords THEN a ELSE a - MaxRecords
  BY <1>1 DEF Back
<1>3. Back(j, n) \in Slots
  BY <1>0 DEF Back, Slots
<1> HIDE DEF a
<1>4. a % MaxRecords = IF a < MaxRecords THEN a ELSE a - MaxRecords
  BY <1>1, ModTwice
<1>5. a % MaxRecords = Back(j, n)
  BY <1>2, <1>4
<1> QED BY <1>3, <1>5 DEF a

LEMMA TailByBack ==
    ASSUME NEW c, NEW n \in Slots, NEW h
    PROVE  TailOf(c, n, h) <=>
              \A j \in 1 .. MaxRecords :
                  IF j <= Len(h) - HeaderSize
                  THEN /\ c[Back(j, n)] # Empty
                       /\ c[Back(j, n)].key = h[Len(h) + 1 - j].key
                  ELSE c[Back(j, n)] = Empty
  BY BackSlot DEF TailOf

(* A buffer just loaded.                                                    *)
LEMMA LoadTail ==
    ASSUME IInv, historycache = NoCache, HeaderIntact(history)
    PROVE  TailOf(LoadedCache(history), LoadedNext(history), history)
<1> USE RecordsAssumption
<1>0. /\ history \in Seq(Line) /\ Len(history) \in Nat /\ Len(history) >= 2
      /\ \A i \in 1 .. Len(history) : history[i] # Empty
      /\ LoadedNext(history) \in Slots
  BY LoadFacts DEF IInv, DataOK, NoNullLine, HeaderIntact, HeaderSize
<1> DEFINE c == LoadedCache(history)
           n == LoadedNext(history)
<1> SUFFICES ASSUME NEW j \in 1 .. MaxRecords
             PROVE  IF j <= Len(history) - 2
                    THEN /\ c[Back(j, n)] # Empty
                         /\ c[Back(j, n)].key = history[Len(history) + 1 - j].key
                    ELSE c[Back(j, n)] = Empty
  BY <1>0, TailByBack DEF HeaderSize
<1>1. Back(j, n) \in Slots
  BY <1>0, BackSlot
<1>2. CASE Len(history) = 2
  <2>1. c = NoCache
    BY <1>2 DEF LoadedCache, HeaderSize
  <2> HIDE DEF c, n
  <2>2. c[Back(j, n)] = Empty
    BY <1>1, <2>1 DEF NoCache
  <2>3. ~(j <= Len(history) - 2)
    BY <1>2
  <2> QED BY <2>2, <2>3
<1>3. CASE Len(history) > 2
  <2> DEFINE m == Cached(history)
             t == TailOffset(history)
  <2>1. /\ m \in 1 .. MaxRecords /\ t \in Nat /\ t + m = Len(history)
        /\ m < MaxRecords => m = Len(history) - 2
        /\ m <= Len(history) - 2
    BY <1>0, <1>3 DEF Cached, TailOffset, HeaderSize
  <2>2. \A i \in Slots : c[i] = IF i < m THEN history[t + i + 1] ELSE Empty
    BY <1>3 DEF LoadedCache, HeaderSize
  <2>3. n = IF m < MaxRecords THEN m ELSE 0
    BY <2>1, ModSmall, ModWrap DEF LoadedNext
  <2> HIDE DEF c, n, m, t
  <2>4. CASE j <= Len(history) - 2
    <3>1. /\ Back(j, n) < m /\ t + Back(j, n) + 1 = Len(history) + 1 - j
          /\ Len(history) + 1 - j \in 1 .. Len(history)
      BY <1>0, <2>1, <2>3, <2>4 DEF Back
    <3>2. c[Back(j, n)] = history[Len(history) + 1 - j]
      BY <1>1, <2>2, <3>1
    <3> QED BY <1>0, <2>4, <3>1, <3>2
  <2>5. CASE ~(j <= Len(history) - 2)
    <3>1. ~(Back(j, n) < m)
      BY <1>0, <2>1, <2>3, <2>5 DEF Back
    <3> QED BY <1>1, <2>2, <2>5, <3>1
  <2> QED BY <2>4, <2>5
<1>4. Len(history) = 2 \/ Len(history) > 2
  BY <1>0
<1> QED BY <1>2, <1>3, <1>4

LEMMA EmptyTail == 0 \in Slots /\ HeaderIntact(Header) /\ TailOf(NoCache, 0, Header)
<1> USE RecordsAssumption
<1>1. 0 \in Slots
  BY DEF Slots
<1>2. HeaderIntact(Header) /\ Len(Header) = 2
  BY HeaderOrdered DEF HeaderIntact, HeaderSize
<1>3. \A j \in 1 .. MaxRecords : Back(j, 0) \in Slots
  BY <1>1, BackSlot
<1>4. \A j \in 1 .. MaxRecords : NoCache[Back(j, 0)] = Empty /\ ~(j <= Len(Header) - 2)
  BY <1>2, <1>3 DEF NoCache
<1> QED BY <1>1, <1>2, <1>4, TailByBack DEF HeaderSize

LEMMA NowTail ==
    ASSUME IInv, KeysInv, TailInv, SyncedNow
    PROVE  HeaderIntact(FileNow) /\ TailOf(CacheNow, NextNow, FileNow)
<1>1. CASE ~exists
  BY <1>1, EmptyTail DEF SyncedNow, FileNow, CacheNow, NextNow
<1>2. CASE exists /\ nextline < 0
  <2>1. HeaderIntact(history) /\ historycache = NoCache
    BY <1>2 DEF SyncedNow, KeysInv
  <2> QED BY <1>2, <2>1, LoadTail DEF FileNow, CacheNow, NextNow
<1>3. CASE exists /\ ~(nextline < 0)
  <2>1. synced /\ nextline >= 0
    BY <1>3 DEF SyncedNow, IInv, DataOK
  <2> QED BY <1>3, <2>1 DEF TailInv, FileNow, CacheNow, NextNow
<1> QED BY <1>1, <1>2, <1>3

(* A line stored and appended.                                              *)
LEMMA AppendTail ==
    ASSUME NEW c \in [Slots -> Line], NEW n \in Slots, NEW h \in Seq(Line),
           NEW l \in Line, l # Empty, HeaderIntact(h), TailOf(c, n, h)
    PROVE  /\ HeaderIntact(Append(h, l))
           /\ TailOf([c EXCEPT ![n] = l], (n + 1) % MaxRecords, Append(h, l))
<1> USE RecordsAssumption
<1> DEFINE a == Append(h, l)
           s == [c EXCEPT ![n] = l]
           m == (n + 1) % MaxRecords
<1>0. n \in Nat /\ n < MaxRecords
  BY DEF Slots
<1>1. /\ Len(a) = Len(h) + 1 /\ Len(h) \in Nat /\ Len(h) >= 2 /\ a[Len(h) + 1] = l
      /\ \A i \in 1 .. Len(h) : a[i] = h[i]
  BY DEF HeaderIntact, HeaderSize
<1>2. \A i \in Slots : s[i] = IF i = n THEN l ELSE c[i]
  OBVIOUS
<1>3. m = IF n + 1 < MaxRecords THEN n + 1 ELSE 0
  <2>1. n + 1 \in Nat /\ MaxRecords \in Nat \ {0}
    BY <1>0
  <2>3. CASE n + 1 < MaxRecords
    BY <2>1, <2>3, ModSmall
  <2>4. CASE n + 1 = MaxRecords
    BY <2>1, <2>4, ModWrap
  <2> QED BY <1>0, <2>3, <2>4
<1> HIDE DEF a, s, m
<1>4. m \in Slots
  BY <1>0, <1>3 DEF Slots
<1>5. HeaderIntact(a)
  BY <1>1 DEF HeaderIntact, HeaderSize
<1>6. ASSUME NEW j \in 1 .. MaxRecords
      PROVE  IF j <= Len(a) - HeaderSize
             THEN /\ s[Back(j, m)] # Empty
                  /\ s[Back(j, m)].key = a[Len(a) + 1 - j].key
             ELSE s[Back(j, m)] = Empty
  <2>1. CASE j = 1
    <3>1. Back(j, m) = n /\ Len(a) + 1 - j = Len(h) + 1
      BY <1>0, <1>1, <1>3, <2>1 DEF Back
    <3>2. s[n] = l
      BY <1>2
    <3> QED BY <1>1, <2>1, <3>1, <3>2 DEF HeaderSize
  <2>2. CASE j # 1
    <3>1. j - 1 \in 1 .. MaxRecords
      BY <2>2
    <3>2. Back(j, m) = Back(j - 1, n) /\ Back(j - 1, n) # n
      BY <1>0, <1>3, <2>2 DEF Back
    <3>3. Back(j - 1, n) \in Slots
      BY <3>1, BackSlot
    <3>4. s[Back(j, m)] = c[Back(j - 1, n)]
      BY <1>2, <3>2, <3>3
    <3>5. IF j - 1 <= Len(h) - HeaderSize
          THEN /\ c[Back(j - 1, n)] # Empty
               /\ c[Back(j - 1, n)].key = h[Len(h) + 1 - (j - 1)].key
          ELSE c[Back(j - 1, n)] = Empty
      BY <3>1, TailByBack
    <3>6. (j <= Len(a) - HeaderSize <=> j - 1 <= Len(h) - HeaderSize)
          /\ Len(a) + 1 - j = Len(h) + 1 - (j - 1)
      BY <1>1 DEF HeaderSize
    <3>7. j <= Len(a) - HeaderSize => Len(a) + 1 - j \in 1 .. Len(h)
      BY <1>1, <2>2 DEF HeaderSize
    <3>8. j <= Len(a) - HeaderSize => a[Len(a) + 1 - j] = h[Len(h) + 1 - (j - 1)]
      BY <1>1, <3>6, <3>7
    <3> QED BY <3>4, <3>5, <3>6, <3>8
  <2> QED BY <2>1, <2>2
<1>7. TailOf(s, m, a)
  BY <1>4, <1>6, TailByBack
<1> QED BY <1>5, <1>7 DEF a, s, m

(* A file just rewritten.                                                   *)
LEMMA TrimTail ==
    ASSUME NEW c \in [Slots -> Line], NEW n \in Slots, RingOrdered(c, n),
           \A i \in Slots : c[i] # Empty
    PROVE  HeaderIntact(Trimmed(c, n)) /\ TailOf(c, n, Trimmed(c, n))
<1> USE RecordsAssumption
<1> DEFINE t == Trimmed(c, n)
<1>1. /\ Len(t) = MaxRecords + 2 /\ t[1].key = 0 /\ t[2].key = 0
      /\ \A j \in 1 .. MaxRecords : t[2 + j] = c[(n + j - 1) % MaxRecords]
  BY TrimmedOrdered DEF HeaderSize
<1> HIDE DEF t
<1>2. HeaderIntact(t)
  BY <1>1 DEF HeaderIntact, HeaderSize
<1>3. ASSUME NEW j \in 1 .. MaxRecords
      PROVE  /\ j <= Len(t) - HeaderSize
             /\ c[(n + MaxRecords - j) % MaxRecords] # Empty
             /\ c[(n + MaxRecords - j) % MaxRecords].key = t[Len(t) + 1 - j].key
  <2>1. n \in Nat
    BY DEF Slots
  <2>2. MaxRecords + 1 - j \in 1 .. MaxRecords
    OBVIOUS
  <2>3. /\ n + (MaxRecords + 1 - j) - 1 = n + MaxRecords - j
        /\ 2 + (MaxRecords + 1 - j) = Len(t) + 1 - j
    BY <1>1, <2>1
  <2>4. t[Len(t) + 1 - j] = c[(n + MaxRecords - j) % MaxRecords]
    BY <1>1, <2>2, <2>3
  <2>5. (n + MaxRecords - j) % MaxRecords \in Slots
    BY BackSlot
  <2>6. j <= Len(t) - HeaderSize
    BY <1>1 DEF HeaderSize
  <2> QED BY <2>4, <2>5, <2>6
<1>4. TailOf(c, n, t)
  BY <1>3 DEF TailOf
<1> QED BY <1>2, <1>4 DEF t

LEMMA TailInvNext == IInv /\ KeysInv /\ TailInv /\ [Next]_vars => TailInv'
<1> SUFFICES ASSUME IInv, KeysInv, TailInv, [Next]_vars,
                    exists', nextline' >= 0, synced'
             PROVE  /\ HeaderIntact(history')
                    /\ TailOf(historycache', nextline', history')
  BY DEF TailInv
<1>1. CASE AppendLine
  <2>1. /\ Raising /\ SyncedNow /\ history' = Append(FileNow, Head(pending))
        /\ historycache' = [CacheNow EXCEPT ![NextNow] = Head(pending)]
        /\ nextline' = (NextNow + 1) % MaxRecords
    BY <1>1 DEF AppendLine, StoreLine, StoredCache, StoredNext
  <2>2. HeaderIntact(FileNow) /\ TailOf(CacheNow, NextNow, FileNow)
    BY <2>1, NowTail
  <2>3. /\ FileNow \in Seq(Line) /\ CacheNow \in [Slots -> Line] /\ NextNow \in Slots
        /\ Head(pending) \in Line /\ Head(pending) # Empty
    BY <2>1, NowFacts, StoredFacts
  <2> QED BY <2>1, <2>2, <2>3, AppendTail
<1>2. CASE TrimFile
  <2>1. /\ Raising /\ history' = Trimmed(StoredCache, StoredNext)
        /\ historycache' = StoredCache /\ nextline' = StoredNext
        /\ EntriesNow + 1 >= MaxHistFile
    BY <1>2 DEF TrimFile, StoreLine
  <2>2. EntriesNow + 1 >= MaxRecords
    BY <2>1, NowFacts, RecordsAssumption
  <2>3. /\ StoredCache \in [Slots -> Line] /\ StoredNext \in Slots
        /\ \A i \in Slots : StoredCache[i] # Empty
        /\ RingOrdered(StoredCache, StoredNext)
    BY <2>1, <2>2, StoredFacts, StoredOrdered
  <2> QED BY <2>1, <2>3, TrimTail
<1>3. CASE \/ AppendFails \/ TrimOpenFails \/ StrdupFails \/ DelHist
           \/ \E n \in 0 .. HeaderSize + MaxRecords - 1 : TrimFails(n)
  BY <1>3 DEF AppendFails, TrimOpenFails, StrdupFails, DelHist, TrimFails
<1>4. CASE CreateFails \/ RemoveHistory
  BY <1>4 DEF CreateFails, RemoveHistory, fileVars
<1>5. CASE LoadFails
  <2>1. nextline' < 0 /\ nextline' \in Int
    BY <1>5 DEF LoadFails, IInv, DataOK
  <2> QED BY <2>1
<1>6. CASE \/ Start \/ StartMinimal \/ Kill
           \/ \E n \in 0 .. HeaderSize + MaxRecords - 1 : KillInTrim(n)
  <2>1. nextline' = -1
    BY <1>6 DEF Start, StartMinimal, Kill, KillInTrim, Die
  <2> QED BY <2>1
<1>7. CASE StartSwUpdate
  BY <1>7, EmptyTail DEF StartSwUpdate, StartVolatile
<1>8. CASE \/ HandleEvent \/ HandleCrash \/ HandleCrashNoSpace
           \/ HandleCrashMkdirFails \/ UNCHANGED vars
  BY <1>8 DEF HandleEvent, HandleCrash, HandleCrashNoSpace,
     HandleCrashMkdirFails, vars, fileVars, cacheVars, ghostVars, TailInv
<1>9. ASSUME NEW k \in 1 .. MaxKeys, CmdDelete(k)
      PROVE  HeaderIntact(history') /\ TailOf(historycache', nextline', history')
  <2>1. PICK i \in 1 .. Len(history) :
           /\ history[i] = [ev |-> "CRASH", key |-> k, log |-> TRUE]
           /\ history' = [history EXCEPT ![i] =
                              [ev |-> "DELETE", key |-> k, log |-> TRUE]]
    BY <1>9 DEF CmdDelete
  <2> DEFINE d == [ev |-> "DELETE", key |-> k, log |-> TRUE]
  <2>2. history \in Seq(Line) /\ d \in Line /\ d.key = k /\ history[i].key = k
    BY <2>1, BoundAssumption DEF IInv, DataOK, Line, Events
  <2>3. history' = [history EXCEPT ![i] = d]
    BY <2>1
  <2> HIDE DEF d
  <2>4. Len(history') = Len(history) /\ Len(history) \in Nat
        /\ \A j \in 1 .. Len(history) : history'[j] = IF j = i THEN d ELSE history[j]
    BY <2>2, <2>3, ExceptSeq
  <2>5. \A j \in 1 .. Len(history) : history'[j].key = history[j].key
    BY <2>2, <2>4
  <2>6. historycache' = historycache /\ nextline' = nextline
        /\ HeaderIntact(history) /\ TailOf(historycache, nextline, history)
    BY <1>9 DEF CmdDelete, cacheVars, ghostVars, TailInv
  <2>7. HeaderIntact(history')
    BY <2>4, <2>5, <2>6 DEF HeaderIntact, HeaderSize
  <2>8. \A j \in 1 .. MaxRecords : j <= Len(history) - HeaderSize =>
           Len(history) + 1 - j \in 1 .. Len(history)
    BY <2>4, RecordsAssumption DEF HeaderSize
  <2>9. TailOf(historycache', nextline', history')
    BY <2>4, <2>5, <2>6, <2>8 DEF TailOf
  <2> QED BY <2>7, <2>9
<1>10. CASE AddUptimeEvent
  <2>1. SyncedNow /\ history' = history /\ exists
    BY <1>10 DEF AddUptimeEvent
  <2>2. CASE CleaningSd /\ folder # NoFolders
    <3>1. historycache' = CacheNow /\ nextline' = NextNow /\ FileNow = history
      BY <1>10, <2>1, <2>2 DEF AddUptimeEvent, FileNow
    <3> QED BY <2>1, <3>1, NowTail
  <2>3. CASE ~(CleaningSd /\ folder # NoFolders)
    <3>1. historycache' = historycache /\ nextline' = nextline
      BY <1>10, <2>3 DEF AddUptimeEvent, cacheVars
    <3>2. ~(nextline < 0)
      BY <3>1 DEF IInv, DataOK
    <3>3. /\ CacheNow = historycache /\ NextNow = nextline /\ FileNow = history
      BY <2>1, <3>2 DEF CacheNow, NextNow, FileNow
    <3> QED BY <2>1, <3>1, <3>3, NowTail
  <2> QED BY <2>2, <2>3
<1> QED BY <1>1, <1>2, <1>3, <1>4, <1>5, <1>6, <1>7, <1>8, <1>9, <1>10
       DEF Next, Step, UpdateHistoryFile

(* As long as no system call failed since it was loaded or the file was     *)
(* rewritten, the buffer read back from nextline is the end of the file.    *)
THEOREM CacheFollows == Spec => []CacheIsTailOfFile
<1>1. Init => TailInv
  BY DEF Init, TailInv
<1>2. TailInv => CacheIsTailOfFile
  BY DEF TailInv, CacheIsTailOfFile, Loaded
<1> QED BY <1>1, <1>2, IInvInit, IInvNext, KeysInvInit, KeysInvNext, TailInvNext,
           PTL DEF Spec
-----------------------------------------------------------------------------
(* The crash folders.  A line that has the key of a folder names its path.  *)
Own(f) == {l \in Line : \A n \in Numbers : f[n] # 0 /\ f[n] = l.key => l.log}
FolderRing(f, c) ==
    \A n, m \in Numbers :
        Before(n, m, c) /\ f[n] # 0 /\ f[m] # 0 => f[n] < f[m]
LinesIn(S) ==
    history \in Seq(S) /\ pending \in Seq(S) /\ historycache \in [Slots -> S]
FolderInv ==
    /\ \A n \in Numbers : folder[n] <= lastkey
    /\ ~sdcard => FolderRing(folder, current)
    /\ LinesIn(Own(folder))

MarkLines == {Empty, Uptime, Squeezed, Columns, Junk}

LEMMA OwnFacts ==
    ASSUME NEW f \in [Numbers -> Nat]
    PROVE  /\ Own(f) \subseteq Line /\ MarkLines \subseteq Own(f)
           /\ \A l \in Line : l.log => l \in Own(f)
           /\ \A l \in Line : (\A n \in Numbers : f[n] = 0 \/ f[n] < l.key) => l \in Own(f)
           /\ \A l \in Own(f) : [ev |-> "DELETE", key |-> l.key, log |-> l.log] \in Own(f)
<1>1. Own(f) \subseteq Line
  BY DEF Own
<1>2. MarkLines \subseteq Own(f)
  BY LineFacts, MarkKeys DEF Own, MarkLines
<1>3. \A l \in Line : l.log => l \in Own(f)
  BY DEF Own
<1>4. \A l \in Line : (\A n \in Numbers : f[n] = 0 \/ f[n] < l.key) => l \in Own(f)
  <2> TAKE l \in Line
  <2> HAVE \A n \in Numbers : f[n] = 0 \/ f[n] < l.key
  <2>1. \A n \in Numbers : f[n] = 0 \/ f[n] # l.key
    BY KeyType
  <2> QED BY <2>1 DEF Own
<1>5. \A l \in Own(f) : [ev |-> "DELETE", key |-> l.key, log |-> l.log] \in Own(f)
  <2> TAKE l \in Own(f)
  <2> DEFINE d == [ev |-> "DELETE", key |-> l.key, log |-> l.log]
  <2>1. l \in Line /\ l.key \in Nat /\ l.log \in BOOLEAN
    BY <1>1 DEF Line
  <2>2. d \in Line /\ d.key = l.key /\ d.log = l.log
    BY <2>1 DEF Line, Events
  <2>3. \A n \in Numbers : f[n] # 0 /\ f[n] = l.key => l.log
    BY DEF Own
  <2> HIDE DEF d
  <2>4. \A n \in Numbers : f[n] # 0 /\ f[n] = d.key => d.log
    BY <2>2, <2>3
  <2>5. d \in Own(f)
    BY <2>2, <2>4 DEF Own
  <2> QED BY <2>5 DEF d
<1> QED BY <1>1, <1>2, <1>3, <1>4, <1>5

(* Lines move between file and buffer unchanged: what is known of all lines *)
(* and of the marks stays known.                                            *)
LEMMA OverwriteIn ==
    ASSUME NEW S \in SUBSET Line, MarkLines \subseteq S, NEW h \in Seq(S)
    PROVE  OverwriteFirst(h) \in Seq(S)
<1> DEFINE o == OverwriteFirst(h)
<1>0. Uptime \in S /\ Junk \in S
  BY DEF MarkLines
<1>1. CASE h = <<>> \/ (Len(h) = 1 /\ Head(h) = Squeezed)
  BY <1>0, <1>1, LineFacts DEF OverwriteFirst
<1>2. CASE h # <<>> /\ Head(h) = Uptime
  BY <1>2, LineFacts DEF OverwriteFirst
<1>3. CASE h # <<>> /\ Head(h) = Squeezed /\ Len(h) # 1
  <2>1. OverwriteFirst(h) = <<Uptime, Junk>> \o Tail(Tail(h))
    BY <1>3, LineFacts DEF OverwriteFirst
  <2>2. Tail(h) \in Seq(S) /\ Len(Tail(h)) = Len(h) - 1
    BY <1>3
  <2>3. Tail(h) # <<>>
    <3>1. SUFFICES ASSUME Tail(h) = <<>> PROVE FALSE
      OBVIOUS
    <3>2. Len(h) - 1 = 0
      BY <2>2, <3>1
    <3> QED BY <3>2, <1>3
  <2>4. Tail(Tail(h)) \in Seq(S) /\ <<Uptime, Junk>> \in Seq(S)
    BY <1>0, <2>2, <2>3
  <2> QED BY <2>1, <2>4
<1>4. CASE h # <<>> /\ Head(h) # Squeezed /\ Head(h) # Uptime
  <2>1. OverwriteFirst(h) = <<Uptime, Junk>> \o Tail(h)
    BY <1>4 DEF OverwriteFirst
  <2>2. Tail(h) \in Seq(S) /\ <<Uptime, Junk>> \in Seq(S)
    BY <1>0, <1>4
  <2> QED BY <2>1, <2>2
<1> QED BY <1>1, <1>2, <1>3, <1>4

LEMMA NowIn ==
    ASSUME IInv, NEW S \in SUBSET Line, MarkLines \subseteq S, LinesIn(S)
    PROVE  FileNow \in Seq(S) /\ CacheNow \in [Slots -> S]
<1>0. Empty \in S /\ Uptime \in S /\ Columns \in S
  BY DEF MarkLines
<1>1. FileNow \in Seq(S)
  <2>1. Header \in Seq(S)
    BY <1>0 DEF Header
  <2> QED BY <2>1 DEF FileNow, LinesIn
<1>2. Emptied \in [Slots -> S]
  <2>1. NoCache \in [Slots -> S]
    BY <1>0 DEF NoCache
  <2> QED BY <2>1, EmptiedCases DEF LinesIn
<1>3. LoadedCache(history) \in [Slots -> S]
  <2>1. CASE Len(history) > HeaderSize
    <3> DEFINE n == Cached(history)
               t == TailOffset(history)
    <3>1. n \in Nat /\ t \in Nat /\ t + n = Len(history) /\ history \in Seq(S)
      BY <2>1, RecordsAssumption DEF Cached, TailOffset, HeaderSize, LinesIn
    <3>2. LoadedCache(history) =
             [i \in Slots |-> IF i < n THEN history[t + i + 1] ELSE Empty]
      BY <2>1 DEF LoadedCache
    <3> HIDE DEF n, t
    <3>3. \A i \in Slots : i < n => history[t + i + 1] \in S
      BY <3>1 DEF Slots
    <3> QED BY <1>0, <3>2, <3>3
  <2>2. CASE ~(Len(history) > HeaderSize)
    BY <2>2 DEF LoadedCache, LinesIn
  <2> QED BY <2>1, <2>2
<1> QED BY <1>1, <1>2, <1>3 DEF CacheNow, LinesIn

LEMMA TrimmedIn ==
    ASSUME NEW S \in SUBSET Line, MarkLines \subseteq S,
           NEW c \in [Slots -> S], NEW n \in Slots
    PROVE  /\ Trimmed(c, n) \in Seq(S) /\ Len(Trimmed(c, n)) = HeaderSize + MaxRecords
           /\ \A k \in 0 .. HeaderSize + MaxRecords - 1 :
                 SubSeq(Trimmed(c, n), 1, k) \in Seq(S)
<1> USE RecordsAssumption
<1> DEFINE r == RingOrder(c, n)
           t == Trimmed(c, n)
<1>1. Header \in Seq(S) /\ Len(Header) = 2
  BY DEF Header, MarkLines
<1>2. \A j \in 1 .. MaxRecords : (n + j - 1) % MaxRecords \in Slots
  <2> TAKE j \in 1 .. MaxRecords
  <2>1. n + j - 1 \in Nat
    BY DEF Slots
  <2> QED BY <2>1, ModLess DEF Slots
<1>3. r \in Seq(S) /\ Len(r) = MaxRecords
  BY <1>2 DEF RingOrder
<1>4. t = Header \o r
  BY DEF Trimmed
<1> HIDE DEF r, t
<1>5. t \in Seq(S) /\ Len(t) = 2 + MaxRecords
  BY <1>1, <1>3, <1>4, ConcatProperties
<1>6. \A k \in 0 .. 2 + MaxRecords - 1 : SubSeq(t, 1, k) \in Seq(S)
  BY <1>5
<1> QED BY <1>5, <1>6 DEF t, HeaderSize

(* No step brings a line into the file or the buffer but from there, from   *)
(* pending, or, at a start, a fresh one.                                    *)
LEMMA LinesStay ==
    ASSUME IInv, Next, NEW S \in SUBSET Line, MarkLines \subseteq S, LinesIn(S),
           Start => EventLine("EVENT", FALSE) \in S,
           \A l \in S : [ev |-> "DELETE", key |-> l.key, log |-> l.log] \in S
    PROVE  history' \in Seq(S) /\ historycache' \in [Slots -> S]
<1> USE RecordsAssumption
<1>0. /\ Empty \in S /\ Uptime \in S /\ Columns \in S /\ Junk \in S /\ Squeezed \in S
      /\ history \in Seq(S) /\ historycache \in [Slots -> S] /\ pending \in Seq(S)
  BY DEF MarkLines, LinesIn
<1>1. NoCache \in [Slots -> S] /\ Header \in Seq(S) /\ OverwriteFirst(history) \in Seq(S)
  <2>1. NoCache \in [Slots -> S]
    BY <1>0 DEF NoCache
  <2>2. Header \in Seq(S)
    BY <1>0 DEF Header
  <2>3. OverwriteFirst(history) \in Seq(S)
    BY <1>0, OverwriteIn
  <2> QED BY <2>1, <2>2, <2>3
<1>2. FileNow \in Seq(S) /\ CacheNow \in [Slots -> S] /\ NextNow \in Slots
  BY NowIn, NowFacts
<1>3. ASSUME Raising
      PROVE  /\ Head(pending) \in S /\ StoredCache \in [Slots -> S]
             /\ StoredNext \in Slots
             /\ Trimmed(StoredCache, StoredNext) \in Seq(S)
             /\ \A k \in 0 .. HeaderSize + MaxRecords - 1 :
                   SubSeq(Trimmed(StoredCache, StoredNext), 1, k) \in Seq(S)
  <2>1. Head(pending) \in S
    BY <1>0, <1>3 DEF Raising
  <2>2. StoredCache \in [Slots -> S] /\ StoredNext \in Slots
    BY <1>2, <1>3, <2>1, StoredFacts DEF StoredCache
  <2> QED BY <2>1, <2>2, TrimmedIn
<1>4. CASE AppendLine \/ AppendFails \/ TrimFile \/ TrimOpenFails
  <2>1. /\ Raising /\ historycache' = StoredCache
        /\ history' \in {FileNow, Append(FileNow, Head(pending)),
                          Trimmed(StoredCache, StoredNext)}
    BY <1>4 DEF AppendLine, AppendFails, TrimFile, TrimOpenFails, StoreLine
  <2>2. Append(FileNow, Head(pending)) \in Seq(S)
    BY <1>2, <1>3, <2>1
  <2> QED BY <1>2, <1>3, <2>1, <2>2
<1>5. ASSUME NEW k \in 0 .. HeaderSize + MaxRecords - 1, TrimFails(k)
      PROVE  history' \in Seq(S) /\ historycache' \in [Slots -> S]
  BY <1>3, <1>5 DEF TrimFails, StoreLine
<1>6. CASE CreateFails \/ LoadFails
  BY <1>0, <1>1, <1>6, EmptiedCases DEF CreateFails, LoadFails, fileVars
<1>7. CASE StrdupFails
  BY <1>0, <1>2, <1>7 DEF StrdupFails
<1>8. CASE \/ HandleEvent \/ HandleCrash \/ HandleCrashNoSpace
           \/ HandleCrashMkdirFails
  BY <1>0, <1>8 DEF HandleEvent, HandleCrash, HandleCrashNoSpace,
     HandleCrashMkdirFails, fileVars, cacheVars
<1>9. ASSUME NEW k \in 1 .. MaxKeys, CmdDelete(k)
      PROVE  history' \in Seq(S) /\ historycache' \in [Slots -> S]
  <2>1. PICK i \in 1 .. Len(history) :
           /\ history[i] = [ev |-> "CRASH", key |-> k, log |-> TRUE]
           /\ history' = [history EXCEPT ![i] =
                              [ev |-> "DELETE", key |-> k, log |-> TRUE]]
    BY <1>9 DEF CmdDelete
  <2>2. history[i] \in S /\ history[i].key = k /\ history[i].log = TRUE
    BY <1>0, <2>1
  <2>3. [ev |-> "DELETE", key |-> k, log |-> TRUE] \in S
    <3>1. [ev |-> "DELETE", key |-> history[i].key, log |-> history[i].log] \in S
      BY <2>2
    <3> QED BY <2>2, <3>1
  <2>4. history' \in Seq(S)
    BY <1>0, <2>1, <2>3, ExceptSeq
  <2> QED BY <1>0, <1>9, <2>4 DEF CmdDelete, cacheVars
<1>10. CASE AddUptimeEvent
  <2>1. historycache' = CacheNow \/ historycache' = historycache
    BY <1>10 DEF AddUptimeEvent, cacheVars
  <2>2. history' = OverwriteFirst(history)
    BY <1>10 DEF AddUptimeEvent
  <2> QED BY <1>0, <1>1, <1>2, <2>1, <2>2
<1>11. CASE Start \/ StartMinimal
  <2>1. historycache' = NoCache
    BY <1>11 DEF Start, StartMinimal, StartVolatile
  <2>2. CASE history' = history
    BY <1>0, <1>1, <2>1, <2>2
  <2>3. CASE Start /\ history' = Append(OverwriteFirst(history),
                                        EventLine("EVENT", FALSE))
    <3> DEFINE o == OverwriteFirst(history)
               e == EventLine("EVENT", FALSE)
    <3>1. o \in Seq(S) /\ e \in S /\ history' = Append(o, e)
      BY <1>1, <2>3
    <3> HIDE DEF o, e
    <3>2. history' \in Seq(S)
      BY <3>1
    <3> QED BY <1>1, <2>1, <3>2
  <2> QED BY <1>11, <2>2, <2>3 DEF Start, StartMinimal, UptimeHistory, fileVars
<1>12. CASE StartSwUpdate
  BY <1>1, <1>12 DEF StartSwUpdate, StartVolatile
<1>13. CASE Kill
  BY <1>0, <1>1, <1>13 DEF Kill, Die, fileVars
<1>14. ASSUME NEW k \in 0 .. HeaderSize + MaxRecords - 1, KillInTrim(k)
       PROVE  history' \in Seq(S) /\ historycache' \in [Slots -> S]
  BY <1>1, <1>3, <1>14 DEF KillInTrim, Die
<1>15. CASE RemoveHistory
  BY <1>0, <1>15 DEF RemoveHistory, cacheVars
<1>16. CASE DelHist
  <2>1. PICK l \in {Squeezed, Junk} : history' = <<l>>
    BY <1>16 DEF DelHist
  <2>2. l \in S
    BY <1>0
  <2> QED BY <1>0, <1>16, <2>1, <2>2 DEF DelHist, cacheVars
<1> QED BY <1>4, <1>5, <1>6, <1>7, <1>8, <1>9, <1>10, <1>11, <1>12, <1>13, <1>14,
          <1>15, <1>16 DEF Next, Step, UpdateHistoryFile

LEMMA NumberRing ==
    ASSUME NEW c \in Numbers, NEW i \in Numbers, NEW j \in Numbers
    PROVE  /\ (c + 1) % MaxDirs \in Numbers
           /\ MaxDirs > 1 => (c + 1) % MaxDirs # c
           /\ Before(i, j, (c + 1) % MaxDirs) => i # c /\ (j # c => Before(i, j, c))
           /\ i # c => Before(c, i, c)
<1> USE FoldersAssumption
<1>1. c \in Nat /\ c < MaxDirs /\ i \in Nat /\ i < MaxDirs /\ j \in Nat /\ j < MaxDirs
  BY DEF Numbers
<1>2. (c + 1) % MaxDirs = IF c + 1 < MaxDirs THEN c + 1 ELSE 0
  <2>1. c + 1 \in Nat /\ MaxDirs \in Nat \ {0}
    BY <1>1
  <2>2. CASE c + 1 < MaxDirs
    BY <2>1, <2>2, ModSmall
  <2>3. CASE c + 1 = MaxDirs
    BY <2>1, <2>3, ModWrap
  <2> QED BY <1>1, <2>2, <2>3
<1> DEFINE d == (c + 1) % MaxDirs
<1>3. d = IF c + 1 < MaxDirs THEN c + 1 ELSE 0
  BY <1>2
<1> HIDE DEF d
<1>4. /\ d \in Numbers /\ (MaxDirs > 1 => d # c)
      /\ Before(i, j, d) => i # c /\ (j # c => Before(i, j, c))
      /\ i # c => Before(c, i, c)
  BY <1>1, <1>3 DEF Before, Numbers
<1> QED BY <1>4 DEF d

(* What a step does to the folders: it gives the next number to a new one,  *)
(* or only removes some.                                                    *)
NewFolder == HandleCrash \/ HandleCrashMkdirFails
LEMMA FolderChanges ==
    ASSUME Next
    PROVE  \/ NewFolder \/ StartSwUpdate \/ UNCHANGED folderVars
           \/ AddUptimeEvent \/ \E k \in 1 .. MaxKeys : CmdDelete(k)
  BY DEF Next, Step, UpdateHistoryFile, NewFolder, Start, StartMinimal, HandleEvent,
     HandleCrashNoSpace, AppendLine, AppendFails, TrimFile, TrimFails, TrimOpenFails,
     CreateFails, LoadFails, StrdupFails, StoreLine, Kill, KillInTrim, RemoveHistory,
     DelHist

LEMMA FolderSteps ==
    ASSUME IInv, Next
    PROVE  \/ /\ NewFolder
              /\ \E k \in {0, FreshKey} : GenerateCrashlogDir(k)
              /\ HandleCrashMkdirFails => GenerateCrashlogDir(0)
           \/ /\ ~HandleCrash
              /\ \A n \in Numbers : folder'[n] \in {folder[n], 0}
              /\ StartSwUpdate /\ ~sdcard => folder' = NoFolders
              /\ ~StartSwUpdate => current' = current
<1>1. CASE NewFolder
  BY <1>1 DEF NewFolder, HandleCrash, HandleCrashMkdirFails
<1>2. CASE ~NewFolder /\ ~StartSwUpdate /\ UNCHANGED folderVars
  BY <1>2 DEF folderVars, NewFolder
<1>3. CASE StartSwUpdate
  <2>1. ~HandleCrash
    BY <1>3 DEF StartSwUpdate, StartVolatile, HandleCrash, Idle
  <2>2. folder' = (IF sdcard THEN folder ELSE NoFolders)
    BY <1>3 DEF StartSwUpdate
  <2>3. \A n \in Numbers : folder'[n] \in {folder[n], 0}
    BY <2>2 DEF NoFolders
  <2> QED BY <1>3, <2>1, <2>2, <2>3
<1>4. ASSUME ~NewFolder, NEW k \in 1 .. MaxKeys, CmdDelete(k)
      PROVE  /\ \A n \in Numbers : folder'[n] \in {folder[n], 0}
             /\ current' = current
  BY <1>4 DEF CmdDelete
<1>5. ASSUME ~NewFolder, AddUptimeEvent
      PROVE  /\ \A n \in Numbers : folder'[n] \in {folder[n], 0}
             /\ current' = current
  <2>1. current' = current
    BY <1>5 DEF AddUptimeEvent
  <2>2. CASE CleaningSd /\ folder # NoFolders
    <3>1. PICK gone \in SUBSET Legacy(CacheNow) :
             folder' = [n \in Numbers |-> IF n \in gone THEN 0 ELSE folder[n]]
      BY <1>5, <2>2 DEF AddUptimeEvent
    <3> QED BY <2>1, <3>1
  <2>3. CASE ~(CleaningSd /\ folder # NoFolders)
    BY <1>5, <2>1, <2>3 DEF AddUptimeEvent
  <2> QED BY <2>2, <2>3
<1>6. CASE ~NewFolder /\ ~StartSwUpdate
  BY <1>2, <1>4, <1>5, <1>6, FolderChanges DEF NewFolder
<1> QED BY <1>1, <1>3, <1>6

(* Keys of folders are of the past, and a fresh one is only that of the     *)
(* crash being handled.                                                     *)
LEMMA FolderKeys ==
    ASSUME IInv, FolderInv, Next
    PROVE  /\ \A n \in Numbers : folder'[n] \in {folder[n], 0, FreshKey}
           /\ ~HandleCrash => \A n \in Numbers : folder'[n] <= lastkey
           /\ lastkey' >= lastkey /\ (HandleCrash => lastkey' = FreshKey)
<1>1. /\ folder \in [Numbers -> Nat] /\ lastkey \in Nat /\ current \in Numbers
      /\ \A n \in Numbers : folder[n] <= lastkey
  BY DEF IInv, DataOK, FolderInv
<1>2. lastkey' >= lastkey /\ (HandleCrash => lastkey' = FreshKey)
  <2>1. lastkey' \in {lastkey, lastkey + 1, lastkey + 2}
    BY DEF Next, Step, UpdateHistoryFile, Start, UptimeHistory, StartMinimal,
     StartSwUpdate, HandleCrash, HandleCrashMkdirFails, HandleEvent,
     HandleCrashNoSpace, AppendLine, AppendFails, TrimFile, TrimFails, TrimOpenFails,
     CreateFails, LoadFails, StrdupFails, StoreLine, Kill, KillInTrim, RemoveHistory,
     DelHist, CmdDelete, AddUptimeEvent, NewKey, FreshKey
  <2>2. HandleCrash => lastkey' = FreshKey
    BY DEF HandleCrash, NewKey
  <2> QED BY <1>1, <2>1, <2>2
<1>3. CASE \A n \in Numbers : folder'[n] \in {folder[n], 0}
  BY <1>1, <1>2, <1>3
<1>4. ASSUME NEW k \in {0, FreshKey}, GenerateCrashlogDir(k)
      PROVE  /\ \A n \in Numbers : folder'[n] = IF n = current THEN k ELSE folder[n]
  BY <1>1, <1>4 DEF GenerateCrashlogDir
<1>5. CASE NewFolder /\ HandleCrash
  <2>1. PICK k \in {0, FreshKey} : GenerateCrashlogDir(k)
    BY <1>5 DEF HandleCrash
  <2> QED BY <1>2, <1>4, <1>5, <2>1
<1>6. CASE NewFolder /\ ~HandleCrash
  <2>1. GenerateCrashlogDir(0)
    BY <1>6 DEF NewFolder, HandleCrashMkdirFails
  <2>2. \A n \in Numbers : folder'[n] \in {folder[n], 0}
    BY <1>4, <2>1
  <2> QED BY <1>3, <2>2
<1> QED BY <1>3, <1>5, <1>6, FolderSteps

LEMMA FolderRingNext ==
    ASSUME IInv, FolderInv, Next, ~sdcard PROVE FolderRing(folder', current')
<1>1. /\ folder \in [Numbers -> Nat] /\ lastkey \in Nat /\ current \in Numbers
      /\ \A n \in Numbers : folder[n] <= lastkey
      /\ FolderRing(folder, current)
  BY DEF IInv, DataOK, FolderInv
<1>2. ASSUME NEW k \in {0, FreshKey}, GenerateCrashlogDir(k)
      PROVE  FolderRing(folder', current')
  <2>1. /\ \A n \in Numbers : folder'[n] = IF n = current THEN k ELSE folder[n]
        /\ current' = (current + 1) % MaxDirs
    BY <1>1, <1>2 DEF GenerateCrashlogDir
  <2>2. k # 0 => \A n \in Numbers : folder[n] < k
    BY <1>1 DEF FreshKey
  <2> SUFFICES ASSUME NEW n \in Numbers, NEW m \in Numbers,
                      Before(n, m, current'), folder'[n] # 0, folder'[m] # 0
               PROVE  folder'[n] < folder'[m]
    BY DEF FolderRing
  <2>3. n # current /\ (m # current => Before(n, m, current))
    BY <1>1, <2>1, NumberRing
  <2>4. CASE m = current
    BY <2>1, <2>2, <2>3, <2>4
  <2>5. CASE m # current
    BY <1>1, <2>1, <2>3, <2>5 DEF FolderRing
  <2> QED BY <2>4, <2>5
<1>3. CASE (\A n \in Numbers : folder'[n] \in {folder[n], 0}) /\ current' = current
  BY <1>1, <1>3 DEF FolderRing
<1>4. CASE folder' = NoFolders
  BY <1>4 DEF FolderRing, NoFolders
<1> QED BY <1>2, <1>3, <1>4, FolderSteps

LEMMA LinesOfSeq ==
    ASSUME NEW S, NEW h \in Seq(Line), \A i \in 1 .. Len(h) : h[i] \in S
    PROVE  h \in Seq(S)
<1>1. Len(h) \in Nat /\ h = [i \in 1 .. Len(h) |-> h[i]]
  OBVIOUS
<1>2. [i \in 1 .. Len(h) |-> h[i]] \in Seq(S)
  BY <1>1
<1> QED BY <1>1, <1>2

LEMMA OwnedLines ==
    ASSUME IInv, IInv', KeysInv, FolderInv, Next
    PROVE  /\ history' \in Seq(Own(folder')) /\ pending' \in Seq(Own(folder'))
           /\ historycache' \in [Slots -> Own(folder')]
<1> DEFINE S == Own(folder')
<1>1. /\ folder' \in [Numbers -> Nat] /\ folder \in [Numbers -> Nat]
      /\ lastkey \in Nat /\ FreshKey = lastkey + 1
      /\ history \in Seq(Line) /\ historycache \in [Slots -> Line]
      /\ pending \in Seq(Line)
      /\ LinesIn(Own(folder))
  BY DEF IInv, DataOK, FolderInv, FreshKey
<1>2. \A l \in Own(folder) : l.key < FreshKey => l \in S
  <2> SUFFICES ASSUME NEW l \in Own(folder), l.key < FreshKey,
                      NEW n \in Numbers, folder'[n] # 0, folder'[n] = l.key
               PROVE  l.log
    BY DEF Own
  <2>1. l \in Line /\ l.key \in Nat
    BY KeyType DEF Own
  <2>2. folder'[n] # FreshKey
    BY <1>1, <2>1
  <2>3. folder'[n] = folder[n]
    BY <2>2, FolderKeys
  <2> QED BY <2>3 DEF Own
<1>3. LinesIn(S)
  <2>1. \A i \in 1 .. Len(history) : history[i] \in S
    BY <1>1, <1>2 DEF KeysInv, Below, LinesIn
  <2>2. \A i \in Slots : historycache[i] \in S
    BY <1>1, <1>2 DEF KeysInv, CacheBelow, LinesIn
  <2>3. \A i \in 1 .. Len(pending) : pending[i] \in S
    <3> TAKE i \in 1 .. Len(pending)
    <3>1. pending[i].key \in 1 .. lastkey /\ pending[i] \in Own(folder)
      BY <1>1 DEF KeysInv, PendingLater, LinesIn
    <3> QED BY <1>1, <1>2, <3>1
  <2> HIDE DEF S
  <2>4. history \in Seq(S) /\ pending \in Seq(S)
    BY <1>1, <2>1, <2>3, LinesOfSeq
  <2>5. historycache \in [Slots -> S]
    BY <1>1, <2>2
  <2> QED BY <2>4, <2>5 DEF LinesIn
<1>4. \A l \in Line : ~HandleCrash /\ l.key > lastkey => l \in S
  <2> TAKE l \in Line
  <2> HAVE ~HandleCrash /\ l.key > lastkey
  <2>1. \A n \in Numbers : folder'[n] < l.key
    BY <1>1, FolderKeys, KeyType
  <2> QED BY <1>1, <2>1, OwnFacts
<1>5. /\ S \in SUBSET Line /\ MarkLines \subseteq S
      /\ \A l \in S : [ev |-> "DELETE", key |-> l.key, log |-> l.log] \in S
      /\ \A l \in Line : l.log => l \in S
  BY <1>1, OwnFacts
<1> HIDE DEF S
<1>6. \A e \in Events, l \in BOOLEAN :
         /\ EventLine(e, l) \in Line /\ EventLine(e, l).key > lastkey
         /\ EventLine(e, l).log = l
  <2> TAKE e \in Events, l \in BOOLEAN
  <2>1. EventLine(e, l) \in Line
    BY EventLineFacts
  <2>2. EventLine(e, l).key = FreshKey /\ EventLine(e, l).log = l
    BY DEF EventLine
  <2> QED BY <1>1, <2>1, <2>2
<1>7. "EVENT" \in Events /\ "CRASH" \in Events
  BY DEF Events
<1>8. history' \in Seq(S) /\ historycache' \in [Slots -> S]
  <2>1. Start => ~HandleCrash
    BY DEF Start, StartVolatile, HandleCrash, Idle
  <2>2. Start => EventLine("EVENT", FALSE) \in S
    BY <1>4, <1>6, <1>7, <2>1
  <2> QED BY <1>3, <1>5, <2>2, LinesStay
<1>9. pending' \in Seq(S)
  <2>1. CASE pending' = <<>> \/ pending' = pending
    <3>1. <<>> \in Seq(S)
      OBVIOUS
    <3> QED BY <1>3, <2>1, <3>1 DEF LinesIn
  <2>2. CASE pending # <<>> /\ pending' = Tail(pending)
    BY <1>3, <2>2 DEF LinesIn
  <2>3. ASSUME NEW e \in Events, NEW l \in BOOLEAN, ~HandleCrash \/ l = TRUE,
               pending' = <<EventLine(e, l)>>
        PROVE  pending' \in Seq(S)
    <3> DEFINE x == EventLine(e, l)
    <3>1. x \in S
      BY <1>4, <1>5, <1>6, <2>3
    <3>2. pending' = <<x>>
      BY <2>3
    <3> HIDE DEF x
    <3> QED BY <3>1, <3>2
  <2>4. CASE HandleCrashMkdirFails
    <3> DEFINE m == [ev |-> "CRASH", key |-> lastkey + 2, log |-> FALSE]
               e == EventLine("EVENT", FALSE)
    <3>1. ~HandleCrash
      <4>1. lastkey' = lastkey + 2
        BY <2>4 DEF HandleCrashMkdirFails
      <4> QED BY <1>1, <4>1, FolderKeys
    <3>2. e \in S
      BY <1>4, <1>6, <1>7, <3>1
    <3>3. m \in Line /\ m.key > lastkey
      BY <1>1, <1>7 DEF Line
    <3>4. m \in S
      BY <1>4, <3>1, <3>3
    <3>5. pending' = <<e, m>>
      BY <2>4 DEF HandleCrashMkdirFails
    <3> HIDE DEF e, m
    <3> QED BY <3>2, <3>4, <3>5
  <2>5. CASE HandleCrash
    BY <1>7, <2>3, <2>5 DEF HandleCrash
  <2>6. CASE ~HandleCrash /\ (HandleEvent \/ HandleCrashNoSpace \/ StartSwUpdate)
    BY <1>7, <2>3, <2>6 DEF HandleEvent, HandleCrashNoSpace, StartSwUpdate
  <2>7. CASE ~HandleCrash /\ AddUptimeEvent
    BY <1>7, <2>1, <2>3, <2>7 DEF AddUptimeEvent
  <2>8. CASE UpdateHistoryFile
    BY <2>2, <2>8 DEF UpdateHistoryFile, AppendLine, AppendFails, TrimFile, TrimFails,
       TrimOpenFails, CreateFails, LoadFails, StrdupFails, StoreLine, Raising
  <2>9. CASE \/ Start \/ StartMinimal \/ Kill \/ RemoveHistory \/ DelHist
             \/ \E k \in 1 .. MaxKeys : CmdDelete(k)
             \/ \E n \in 0 .. HeaderSize + MaxRecords - 1 : KillInTrim(n)
    BY <2>1, <2>9 DEF Start, StartMinimal, Kill, KillInTrim, Die, RemoveHistory,
       DelHist, CmdDelete
  <2> QED BY <2>4, <2>5, <2>6, <2>7, <2>8, <2>9 DEF Next, Step
<1> QED BY <1>8, <1>9 DEF S

LEMMA FolderInvInit == Init => FolderInv
<1> SUFFICES ASSUME Init PROVE FolderInv
  OBVIOUS
<1>1. /\ history = <<>> /\ pending = <<>> /\ historycache = NoCache
      /\ folder = NoFolders /\ lastkey = 0
  BY DEF Init
<1>2. \A n \in Numbers : folder[n] = 0
  BY <1>1 DEF NoFolders
<1>3. Empty \in Own(folder)
  BY <1>2, LineFacts DEF Own
<1>4. <<>> \in Seq(Own(folder))
  OBVIOUS
<1>5. NoCache \in [Slots -> Own(folder)]
  BY <1>3 DEF NoCache
<1>6. LinesIn(Own(folder))
  BY <1>1, <1>4, <1>5 DEF LinesIn
<1>7. FolderRing(folder, current)
  BY <1>2 DEF FolderRing
<1>8. \A n \in Numbers : folder[n] <= lastkey
  BY <1>1, <1>2
<1> QED BY <1>6, <1>7, <1>8 DEF FolderInv

LEMMA FolderInvNext == IInv /\ IInv' /\ KeysInv /\ FolderInv /\ [Next]_vars => FolderInv'
<1> SUFFICES ASSUME IInv, IInv', KeysInv, FolderInv, [Next]_vars PROVE FolderInv'
  OBVIOUS
<1>1. CASE UNCHANGED vars
  BY <1>1 DEF vars, fileVars, cacheVars, folderVars, FolderInv, LinesIn
<1>2. CASE Next
  <2>1. LinesIn(Own(folder))'
    BY <1>2, OwnedLines DEF LinesIn, Own
  <2>2. (~sdcard => FolderRing(folder, current))'
    <3>1. sdcard' = sdcard
      BY <1>2 DEF Next
    <3>2. ~sdcard => FolderRing(folder', current')
      BY <1>2, FolderRingNext
    <3> QED BY <3>1, <3>2 DEF FolderRing
  <2>3. \A n \in Numbers : folder'[n] <= lastkey'
    <3>1. folder' \in [Numbers -> Nat] /\ lastkey \in Nat /\ lastkey' \in Nat
          /\ folder \in [Numbers -> Nat] /\ \A n \in Numbers : folder[n] <= lastkey
      BY DEF IInv, DataOK, FolderInv
    <3>2. CASE HandleCrash
      <4>1. lastkey' = lastkey + 1
            /\ \A n \in Numbers : folder'[n] \in {folder[n], 0, lastkey + 1}
        BY <1>2, <3>2, FolderKeys DEF FreshKey
      <4> QED BY <3>1, <4>1
    <3>3. CASE ~HandleCrash
      <4>1. lastkey' >= lastkey /\ \A n \in Numbers : folder'[n] <= lastkey
        BY <1>2, <3>3, FolderKeys
      <4> QED BY <3>1, <4>1
    <3> QED BY <3>2, <3>3
  <2> QED BY <2>1, <2>2, <2>3 DEF FolderInv
<1> QED BY <1>1, <1>2

LEMMA OldestFolder == IInv /\ FolderInv /\ Next => RecycleOldest
<1> SUFFICES ASSUME IInv, FolderInv, Next, NEW n \in Numbers, NEW m \in Numbers,
                    folder[n] # 0, folder'[n] # folder[n],
                    current' # current \/ MaxDirs = 1,
                    running, ~sdcard, folder[m] # 0
             PROVE  folder[n] <= folder[m]
  BY DEF RecycleOldest
<1>1. folder \in [Numbers -> Nat] /\ current \in Numbers /\ FolderRing(folder, current)
  BY DEF IInv, DataOK, FolderInv
<1>2. CASE n = m
  BY <1>1, <1>2
<1>3. CASE n # m
  <2>1. MaxDirs # 1
    BY <1>3 DEF Numbers
  <2>2. ~StartSwUpdate
    BY DEF StartSwUpdate, StartVolatile
  <2>3. PICK k : GenerateCrashlogDir(k)
    BY <2>1, <2>2, FolderSteps
  <2>4. n = current
    BY <1>1, <2>3 DEF GenerateCrashlogDir
  <2>5. Before(n, m, current)
    BY <1>1, <1>3, <2>4, NumberRing
  <2>6. folder[n] < folder[m]
    BY <1>1, <2>5 DEF FolderRing
  <2> QED BY <1>1, <2>6
<1> QED BY <1>2, <1>3

LEMMA RecentFolder == IInv /\ KeysInv /\ TailInv /\ FolderInv /\ Next => CleanKeepsRecent
<1> SUFFICES ASSUME IInv, KeysInv, TailInv, FolderInv, Next,
                    NEW n \in Numbers, NEW i \in 1 .. Len(history),
                    running, synced', current' = current, MaxDirs > 1,
                    folder[n] # 0, folder'[n] = 0,
                    i > Len(history) - MaxRecords,
                    history[i].key = folder[n]
             PROVE  history'[i].ev = "DELETE"
  BY DEF CleanKeepsRecent
<1>1. /\ folder \in [Numbers -> Nat] /\ current \in Numbers
      /\ history \in Seq(Line) /\ Len(history) \in Nat
  BY DEF IInv, DataOK
<1>2. ~NewFolder
  <2>1. (current + 1) % MaxDirs # current
    BY <1>1, NumberRing
  <2> QED BY <2>1 DEF NewFolder, HandleCrash, HandleCrashMkdirFails, GenerateCrashlogDir
<1>3. ~StartSwUpdate
  BY DEF StartSwUpdate, StartVolatile
<1>4. folder' # folder
  OBVIOUS
<1>5. CASE \E k \in 1 .. MaxKeys : CmdDelete(k)
  <2>1. PICK k \in 1 .. MaxKeys : CmdDelete(k)
    BY <1>5
  <2>2. folder[n] = k
    BY <2>1 DEF CmdDelete
  <2>3. PICK j \in 1 .. Len(history) :
           /\ history[j] = [ev |-> "CRASH", key |-> k, log |-> TRUE]
           /\ history' = [history EXCEPT ![j] =
                              [ev |-> "DELETE", key |-> k, log |-> TRUE]]
    BY <2>1 DEF CmdDelete
  <2>4. i = j
    <3>1. history[i].key = k /\ history[j].key = k /\ k # 0 /\ k \in Nat
      BY <2>2, <2>3, BoundAssumption
    <3>2. ~(i < j) /\ ~(j < i)
      BY <3>1 DEF KeysInv, Ordered
    <3> QED BY <1>1, <3>2
  <2> QED BY <1>1, <2>3, <2>4
<1>6. CASE AddUptimeEvent
  <2>1. SyncedNow /\ exists /\ history' = history
    BY <1>6 DEF AddUptimeEvent
  <2>2. PICK gone \in SUBSET Legacy(CacheNow) :
           folder' = [x \in Numbers |-> IF x \in gone THEN 0 ELSE folder[x]]
    BY <1>4, <1>6 DEF AddUptimeEvent
  <2>3. ~HasEvent(CacheNow, folder[n])
    <3>1. n \in gone
      BY <2>2
    <3> QED BY <3>1 DEF Legacy
  <2>4. FileNow = history /\ HeaderIntact(history) /\ TailOf(CacheNow, NextNow, history)
    BY <2>1, NowTail DEF FileNow
  <2> DEFINE j == Len(history) + 1 - i
  <2>5. ~(i \in 1 .. 2)
    BY <1>1, <2>4 DEF HeaderIntact, HeaderSize
  <2>6. j \in 1 .. MaxRecords /\ j <= Len(history) - HeaderSize
        /\ Len(history) + 1 - j = i
    BY <1>1, <2>5, RecordsAssumption DEF HeaderSize
  <2> HIDE DEF j
  <2>7. NextNow \in Slots /\ CacheNow \in [Slots -> Own(folder)]
    <3>1. Own(folder) \in SUBSET Line /\ MarkLines \subseteq Own(folder)
      BY <1>1, OwnFacts
    <3> QED BY <3>1, NowFacts, NowIn DEF FolderInv
  <2> DEFINE s == Back(j, NextNow)
  <2>8. s \in Slots
    BY <2>6, <2>7, BackSlot
  <2>9. CacheNow[s].key = history[i].key
    BY <2>4, <2>6, <2>7, TailByBack
  <2> HIDE DEF s
  <2>10. CacheNow[s] \in Own(folder) /\ CacheNow[s].key = folder[n]
    BY <2>7, <2>8, <2>9
  <2>11. CacheNow[s].log
    BY <2>10 DEF Own
  <2> QED BY <2>3, <2>8, <2>10, <2>11 DEF HasEvent
<1> QED BY <1>2, <1>3, <1>4, <1>5, <1>6, FolderChanges DEF folderVars

(* A folder number taken again is that of the oldest folder, and the        *)
(* clean-up of the SD card takes no folder of an event among the last       *)
(* MaxRecords lines of an intact history.                                   *)
THEOREM LatestKept == Spec => LatestLogsKept
<1>1. Init => TailInv
  BY DEF Init, TailInv
<1>2. IInv /\ KeysInv /\ TailInv /\ FolderInv /\ [Next]_vars
         => [RecycleOldest /\ CleanKeepsRecent]_vars
  BY OldestFolder, RecentFolder
<1> QED BY <1>1, <1>2, IInvInit, IInvNext, KeysInvInit, KeysInvNext, TailInvNext,
           FolderInvInit, FolderInvNext, PTL DEF Spec, LatestLogsKept
=============================================================================
