---------------------------- MODULE SourcesProofs ----------------------------
(***************************************************************************)
(* The main loop of do_monitor loses no message and no core dump, for any  *)
(* number of modems, of messages and of monitoring threads.                *)
(***************************************************************************)
EXTENDS Sources, SequenceTheorems, TLAPS

(* The sources found ready are sources, and one of them is looked at first. *)
DumpTyped ==
    /\ ready \subseteq Channels /\ sock \subseteq Channels
    /\ marker \in [Modems -> BOOLEAN] /\ owed \in [Modems -> BOOLEAN]
    /\ lost \in [Modems -> BOOLEAN]

DumpInv == DumpTyped /\ DumpNotLost
-----------------------------------------------------------------------------
LEMMA ChannelFacts ==
    /\ Modems \subseteq Channels /\ Kct \in Channels /\ Lct \in Channels
    /\ Kct \notin Modems /\ Lct \notin Modems /\ Kct # Lct
    /\ Channels \subseteq Int
  BY SourcesAssumption DEF Modems, Kct, Lct, Channels

LEMMA FirstOnly ==
    ASSUME ready \subseteq Channels, NEW s, NEW t, First(s), First(t) PROVE s = t
  BY ChannelFacts DEF First

LEMMA Quiet == ASSUME pc \notin {"abort", "raise"} PROVE InHand = {}
  BY DEF InHand

-----------------------------------------------------------------------------
(* What the steps of a group leave alone.                                   *)
LEMMA WorldRest ==
    ASSUME World PROVE \/ Kill \/ Reboot
                       \/ UNCHANGED <<pc, cur, ready, sock, marker, owed, lost, done>>
<1>1. CASE Flip
  BY <1>1 DEF Flip, mainVars, linkVars, dumpVars
<1>2. ASSUME NEW i \in Modems, MdmUp(i) \/ \E e \in MdmEvents : MdmCallback(i, e)
      PROVE  UNCHANGED <<pc, cur, ready, sock, marker, owed, lost, done>>
  BY <1>2 DEF MdmUp, MdmCallback, mainVars, linkVars, dumpVars
<1>3. ASSUME NEW p \in KctPackets, KernelSends(p)
      PROVE  UNCHANGED <<pc, cur, ready, sock, marker, owed, lost, done>>
  BY <1>3 DEF KernelSends, Sends, mainVars, linkVars, dumpVars
<1>4. ASSUME NEW c \in LctCalls, LctLog(c)
      PROVE  UNCHANGED <<pc, cur, ready, sock, marker, owed, lost, done>>
  BY <1>4 DEF LctLog, Sends, mainVars, linkVars, dumpVars
<1> QED BY <1>1, <1>2, <1>3, <1>4 DEF World

LEMMA MonitorFrame ==
    ASSUME NEW t, MonitorStep(t)
    PROVE  UNCHANGED <<mainVars, linkVars, marker, envVars, done, dumpVars, folder>>
  BY DEF MonitorStep, MonitorStart, MonitorReload, MonitorClaim, MonitorFetch, MonitorLoop,
         MonitorPoll, MonitorBreak, MonitorUnlock, MonitorRest

LEMMA DumpTypedStep == ASSUME DumpTyped, [Next]_vars PROVE DumpTyped'
<1>1. CASE UNCHANGED <<ready, sock, marker, owed, lost>>
  BY <1>1 DEF DumpTyped
<1>2. CASE Kill \/ Reboot
  BY <1>2 DEF Kill, Reboot, Restart, DumpTyped
<1>3. CASE World
  BY <1>1, <1>2, <1>3, WorldRest
<1>4. ASSUME NEW t, MonitorStep(t) PROVE DumpTyped'
  BY <1>1, <1>4, MonitorFrame DEF mainVars, linkVars, dumpVars
<1>5. ASSUME NEW dumps, Reported(dumps), UNCHANGED <<ready, sock>>,
             marker' \in [Modems -> BOOLEAN]
      PROVE  DumpTyped'
  BY <1>5 DEF Reported, DumpTyped
<1>6. CASE Startup \/ MpanicAbortNoFolder
  <2>1. CASE NoMpanicAbort \/ NoManager \/ Connect \/ OpenPipe \/ AllModems
    BY <1>1, <2>1 DEF NoMpanicAbort, NoManager, Connect, OpenPipe, AllModems, Goto,
                      StartRest, linkVars, dumpVars
  <2>2. CASE KctInit \/ LctInit
    BY <2>2, ChannelFacts DEF KctInit, LctInit, StartRest, dumpVars, DumpTyped
  <2>3. CASE MpanicAbortNoFolder \/ MpanicAbortRaise
    BY <1>5, <2>3 DEF MpanicAbortNoFolder, MpanicAbortRaise, Goto, linkVars, DumpTyped
  <2>4. CASE MpanicAbort
    BY <2>4 DEF MpanicAbort, linkVars, dumpVars, DumpTyped
  <2> QED BY <1>6, <2>1, <2>2, <2>3, <2>4 DEF Startup
<1>7. CASE Sleep \/ Wake \/ Turned \/ Interrupted
  <2>1. ready' = ready \/ ready' = ReadyNow
    BY <1>7 DEF Sleep, Wake, Turned, Interrupted
  <2>2. ready' \subseteq Channels
    BY <2>1, ChannelFacts DEF ReadyNow, Open, DumpTyped
  <2>3. UNCHANGED <<sock, marker, owed, lost>>
    BY <1>7 DEF Sleep, Wake, Turned, Interrupted, LoopRest, linkVars, dumpVars
  <2> QED BY <2>2, <2>3 DEF DumpTyped
<1>8. ASSUME NEW s \in Channels, Service(s) \/ NoMemory(s) PROVE DumpTyped'
  <2>1. ready' \subseteq ready
    BY <1>8 DEF Service, NoMemory, MmgrIgnore, MmgrStartCd, MmgrTake, MmgrRaise, CtIgnore,
                CtTake, CtRaise, CtRaiseNoFolder, Raising, Served
  <2>2. sock' = sock
    BY <1>8 DEF Service, NoMemory, MmgrIgnore, MmgrStartCd, MmgrTake, MmgrRaise, CtIgnore,
                CtTake, CtRaise, CtRaiseNoFolder, Raising, CtRest, linkVars
  <2>3. marker' \in [Modems -> BOOLEAN]
    BY <1>8 DEF Service, NoMemory, MmgrIgnore, MmgrStartCd, MmgrTake, MmgrRaise, CtIgnore,
                CtTake, CtRaise, CtRaiseNoFolder, Raising, CtRest, DumpTyped
  <2>4. owed' \in [Modems -> BOOLEAN] /\ lost' \in [Modems -> BOOLEAN]
    <3>1. CASE MmgrStartCd(s) /\ s \in Modems
      BY <2>3, <3>1 DEF MmgrStartCd, DumpTyped
    <3>2. CASE MmgrRaise(s)
      BY <3>2 DEF MmgrRaise, Reported
    <3>3. CASE UNCHANGED <<owed, lost>>
      BY <3>3 DEF DumpTyped
    <3> QED
      BY <1>8, <3>1, <3>2, <3>3
      DEF Service, NoMemory, MmgrIgnore, MmgrTake, CtIgnore, CtTake, CtRaise,
          CtRaiseNoFolder, Raising, CtRest, dumpVars
  <2> QED BY <2>1, <2>2, <2>3, <2>4 DEF DumpTyped
<1> QED
  BY <1>1, <1>3, <1>4, <1>6, <1>7, <1>8
  DEF Next, Main, Mishap, vars, mainVars, linkVars, dumpVars

(* Nothing is in hand, and a step notes and raises nothing.                 *)
LEMMA MoveKeeps ==
    ASSUME DumpInv, InHand = {}, UNCHANGED <<marker, owed, lost>> PROVE DumpNotLost'
  BY DEF DumpInv, DumpNotLost

LEMMA StayKeeps ==
    ASSUME DumpInv, UNCHANGED <<pc, cur, ready, marker, owed, lost>> PROVE DumpNotLost'
<1>1. InHand' = InHand
  BY DEF InHand, First
<1> QED BY <1>1 DEF DumpInv, DumpNotLost

LEMMA ReportKeeps ==
    ASSUME DumpInv, NEW dumps, Reported(dumps), UNCHANGED marker, InHand \subseteq dumps
    PROVE  DumpNotLost'
<1>1. \A i \in Modems : (owed'[i] => owed[i] /\ i \notin dumps)
                     /\ (lost'[i] <=> lost[i] /\ i \notin dumps)
  BY DEF Reported
<1> QED BY <1>1 DEF DumpInv, DumpNotLost

LEMMA DumpStep == ASSUME DumpInv, [Next]_vars PROVE DumpNotLost'
<1>0. DumpTyped
  BY DEF DumpInv
<1>1. CASE UNCHANGED vars
  BY <1>1, StayKeeps DEF vars, mainVars, dumpVars
<1>2. CASE Kill \/ Reboot
  <2>1. /\ pc' \in {"mmgr", "boot"} /\ UNCHANGED <<marker, owed>>
        /\ \A i \in Modems : lost'[i] <=> lost[i] \/ (i \in InHand /\ owed[i])
    BY <1>2 DEF Kill, Reboot, Restart
  <2> QED BY <2>1 DEF DumpInv, DumpNotLost
<1>3. CASE World
  BY <1>2, <1>3, WorldRest, StayKeeps
<1>4. ASSUME NEW t, MonitorStep(t) PROVE DumpNotLost'
  BY <1>4, MonitorFrame, StayKeeps DEF mainVars, linkVars, dumpVars
<1>5. CASE NoMpanicAbort \/ NoManager \/ Connect \/ OpenPipe \/ AllModems \/ KctInit \/ LctInit
  <2>1. pc \notin {"abort", "raise"} /\ UNCHANGED <<marker, owed, lost>>
    BY <1>5 DEF NoMpanicAbort, NoManager, Connect, OpenPipe, AllModems, KctInit, LctInit,
                StartRest, dumpVars
  <2> QED BY <2>1, Quiet, MoveKeeps
<1>6. CASE MpanicAbortNoFolder
  <2>1. pc = "boot" /\ marker' = marker /\ Reported({i \in Known : marker[i]})
    BY <1>6 DEF MpanicAbortNoFolder
  <2> QED BY <2>1, Quiet, ReportKeeps
<1>7. CASE MpanicAbort
  <2>1. /\ pc = "boot" /\ pc' = "abort" /\ cur'.dumps = {i \in Known : marker[i]}
        /\ \A i \in Modems : marker'[i] <=> marker[i] /\ i \notin Known
        /\ UNCHANGED <<owed, lost>>
    BY <1>7 DEF MpanicAbort, dumpVars
  <2>2. InHand' = {i \in Known : marker[i]} /\ InHand = {}
    BY <2>1 DEF InHand
  <2> QED BY <2>1, <2>2 DEF DumpInv, DumpNotLost
<1>8. CASE MpanicAbortRaise
  <2>1. pc = "abort" /\ marker' = marker /\ Reported(cur.dumps)
    BY <1>8 DEF MpanicAbortRaise
  <2>2. InHand = cur.dumps
    BY <2>1 DEF InHand
  <2> QED BY <2>1, <2>2, ReportKeeps
<1>9. CASE Sleep \/ Wake \/ Turned \/ Interrupted
  <2>1. pc \notin {"abort", "raise"} /\ UNCHANGED <<marker, owed, lost>>
    BY <1>9 DEF Sleep, Wake, Turned, Interrupted, LoopRest, dumpVars
  <2> QED BY <2>1, Quiet, MoveKeeps
<1>10. ASSUME NEW s \in Channels, MmgrIgnore(s) \/ CtIgnore(s) \/ CtTake(s) \/ NoMemory(s)
       PROVE  DumpNotLost'
  <2>1. pc = "handle" /\ UNCHANGED <<marker, owed, lost>>
    BY <1>10 DEF MmgrIgnore, CtIgnore, CtTake, NoMemory, Turn, CtRest, dumpVars
  <2> QED BY <2>1, Quiet, MoveKeeps
<1>11. ASSUME NEW i \in Modems, MmgrStartCd(i) PROVE DumpNotLost'
  <2>1. /\ pc = "handle" /\ \A j \in Modems : owed'[j] = IF j = i THEN marker'[i] ELSE owed[j]
        /\ \A j \in Modems \ {i} : marker'[j] = marker[j] /\ lost'[j] = lost[j]
    BY <1>0, <1>11 DEF MmgrStartCd, Turn, DumpTyped
  <2>2. InHand = {}
    BY <2>1, Quiet
  <2> QED BY <2>1, <2>2 DEF DumpInv, DumpNotLost
<1>12. ASSUME NEW i \in Modems, MmgrTake(i) PROVE DumpNotLost'
  <2>1. /\ pc = "handle" /\ pc' = "raise" /\ First(i) /\ cur' = Head(queue[i])
        /\ UNCHANGED <<ready, owed, lost>>
        /\ marker' = IF Complete(Head(queue[i])) THEN [marker EXCEPT ![i] = FALSE] ELSE marker
    BY <1>12 DEF MmgrTake, Turn, dumpVars
  <2>2. InHand = {}
    BY <2>1, Quiet
  <2>3. CASE Complete(Head(queue[i]))
    <3>1. First(i)' /\ Complete(cur)'
      BY <2>1, <2>3 DEF First, Complete
    <3>2. i \in InHand'
      BY <2>1, <3>1 DEF InHand
    <3>3. \A j \in Modems \ {i} : marker'[j] = marker[j]
      BY <1>0, <2>1, <2>3 DEF DumpTyped
    <3> QED BY <2>1, <2>2, <3>2, <3>3 DEF DumpInv, DumpNotLost
  <2>4. CASE ~Complete(Head(queue[i]))
    BY <2>1, <2>2, <2>4, MoveKeeps
  <2> QED BY <2>3, <2>4
<1>13. ASSUME NEW i \in Modems, MmgrRaise(i) PROVE DumpNotLost'
  <2>1. /\ pc = "raise" /\ First(i) /\ marker' = marker
        /\ Reported(IF cur.string = "MPANIC" THEN {i} ELSE {})
    BY <1>13 DEF MmgrRaise, Raising
  <2>2. InHand \subseteq (IF cur.string = "MPANIC" THEN {i} ELSE {})
    BY <1>0, <2>1, FirstOnly DEF InHand, Complete, DumpTyped
  <2> QED BY <2>1, <2>2, ReportKeeps
<1>14. ASSUME NEW s \in Channels, CtRaise(s) \/ CtRaiseNoFolder(s) PROVE DumpNotLost'
  <2>1. s \in {Kct, Lct} /\ pc = "raise" /\ First(s) /\ UNCHANGED <<marker, owed, lost>>
    BY <1>14 DEF CtRaise, CtRaiseNoFolder, Raising, dumpVars
  <2>2. \A i \in Modems : ~First(i)
    BY <1>0, <2>1, FirstOnly, ChannelFacts DEF DumpTyped
  <2>3. InHand = {}
    BY <2>1, <2>2 DEF InHand
  <2> QED BY <2>1, <2>3, MoveKeeps
<1> QED
  BY <1>1, <1>3, <1>4, <1>5, <1>6, <1>7, <1>8, <1>9, <1>10, <1>11, <1>12, <1>13, <1>14
  DEF Next, Main, Mishap, Startup, Service

LEMMA SpecSteps == Spec => Init /\ [][Next]_vars
  BY PTL DEF Spec

(* mmgr_handle, crashlog_check_mpanic_abort: for any number of modems, a    *)
(* core dump that was seen to begin is noted on disk until its event is     *)
(* raised; only a kill between the two steps of that loses it.              *)
THEOREM DumpsKept == Spec => []DumpNotLost
<1>1. Init => DumpInv
  BY DEF Init, DumpInv, DumpTyped, DumpNotLost
<1>2. DumpInv /\ [Next]_vars => DumpInv'
  BY DumpTypedStep, DumpStep DEF DumpInv
<1>3. DumpInv => DumpNotLost
  BY DEF DumpInv
<1> QED BY <1>1, <1>2, <1>3, SpecSteps, PTL
-----------------------------------------------------------------------------
(* Sequences of whatever the senders send.                                  *)
IsSeq(q) == q \in Seq({q[k] : k \in DOMAIN q})

LEMMA SeqFacts ==
    ASSUME NEW q, IsSeq(q)
    PROVE  /\ Len(q) \in Nat /\ DOMAIN q = 1 .. Len(q) /\ q = [k \in 1 .. Len(q) |-> q[k]]
  BY DEF IsSeq

LEMMA SeqIntro ==
    ASSUME NEW S, NEW q \in Seq(S) PROVE IsSeq(q)
<1>1. Len(q) \in Nat /\ q \in [1 .. Len(q) -> S] /\ DOMAIN q = 1 .. Len(q)
  OBVIOUS
<1> DEFINE R == {q[k] : k \in DOMAIN q}
<1>2. q \in [1 .. Len(q) -> R]
  BY <1>1
<1> HIDE DEF R
<1>3. q \in Seq(R)
  BY <1>1, <1>2
<1> QED BY <1>3 DEF IsSeq, R

LEMMA AppendFacts ==
    ASSUME NEW q, IsSeq(q), NEW x
    PROVE  /\ IsSeq(Append(q, x)) /\ Len(Append(q, x)) = Len(q) + 1
           /\ \A k \in 1 .. Len(q) : Append(q, x)[k] = q[k]
           /\ Append(q, x)[Len(q) + 1] = x
<1> DEFINE S == {q[k] : k \in DOMAIN q} \cup {x}
<1>1. q \in Seq(S) /\ x \in S
  BY DEF IsSeq
<1>2. Append(q, x) \in Seq(S)
  BY <1>1
<1>3. IsSeq(Append(q, x))
  BY <1>2, SeqIntro
<1> HIDE DEF S
<1> QED BY <1>1, <1>3

LEMMA TailFacts ==
    ASSUME NEW q, IsSeq(q), q # <<>>
    PROVE  /\ IsSeq(Tail(q)) /\ Len(Tail(q)) = Len(q) - 1 /\ Len(q) \in Nat \ {0}
           /\ \A k \in 1 .. Len(q) - 1 : Tail(q)[k] = q[k + 1]
           /\ Head(q) = q[1] /\ 1 \in DOMAIN q
<1> DEFINE S == {q[k] : k \in DOMAIN q}
<1>1. q \in Seq(S)
  BY DEF IsSeq
<1> HIDE DEF S
<1>2. Tail(q) \in Seq(S)
  BY <1>1
<1>3. IsSeq(Tail(q))
  BY <1>2, SeqIntro
<1> QED BY <1>1, <1>3

LEMMA ConsFacts ==
    ASSUME NEW q, IsSeq(q), NEW m
    PROVE  /\ IsSeq(<<m>> \o q) /\ Len(<<m>> \o q) = Len(q) + 1
           /\ (<<m>> \o q)[1] = m
           /\ \A k \in 1 .. Len(q) : (<<m>> \o q)[k + 1] = q[k]
           /\ \A k \in 2 .. Len(q) + 1 : (<<m>> \o q)[k] = q[k - 1]
<1> DEFINE S == {q[k] : k \in DOMAIN q} \cup {m}
<1>1. q \in Seq(S) /\ <<m>> \in Seq(S) /\ Len(<<m>>) = 1 /\ <<m>>[1] = m
  BY DEF IsSeq
<1> HIDE DEF S
<1>2. <<m>> \o q \in Seq(S)
  BY <1>1
<1>3. IsSeq(<<m>> \o q)
  BY <1>2, SeqIntro
<1> QED BY <1>1, <1>3

(* Sequences with the same length and elements are the same.                *)
LEMMA SameSeq ==
    ASSUME NEW p, NEW q, IsSeq(p), IsSeq(q), Len(p) = Len(q),
           \A k \in 1 .. Len(p) : p[k] = q[k]
    PROVE  p = q
<1>1. p = [k \in 1 .. Len(p) |-> p[k]] /\ q = [k \in 1 .. Len(q) |-> q[k]]
  BY SeqFacts
<1>2. [k \in 1 .. Len(p) |-> p[k]] = [k \in 1 .. Len(q) |-> q[k]]
  OBVIOUS
<1> QED BY <1>1, <1>2

LEMMA ConsAppend ==
    ASSUME NEW q, IsSeq(q), NEW m, NEW x
    PROVE  <<m>> \o Append(q, x) = Append(<<m>> \o q, x)
<1> DEFINE l == <<m>> \o Append(q, x)
           r == Append(<<m>> \o q, x)
           n == Len(q)
<1>1. n \in Nat
  BY SeqFacts
<1>2. IsSeq(Append(q, x)) /\ IsSeq(<<m>> \o q) /\ Len(Append(q, x)) = n + 1 /\ Len(<<m>> \o q) = n + 1
  BY AppendFacts, ConsFacts
<1>3. /\ IsSeq(l) /\ Len(l) = n + 2 /\ l[1] = m
      /\ \A k \in 2 .. n + 2 : l[k] = Append(q, x)[k - 1]
  BY <1>1, <1>2, ConsFacts
<1>4. /\ IsSeq(r) /\ Len(r) = n + 2 /\ r[n + 2] = x
      /\ \A k \in 1 .. n + 1 : r[k] = (<<m>> \o q)[k]
  BY <1>1, <1>2, AppendFacts
<1>5. (<<m>> \o q)[1] = m /\ \A k \in 2 .. n + 1 : (<<m>> \o q)[k] = q[k - 1]
  BY ConsFacts
<1>6. Append(q, x)[n + 1] = x /\ \A k \in 1 .. n : Append(q, x)[k] = q[k]
  BY AppendFacts
<1> HIDE DEF l, r
<1>7. ASSUME NEW k \in 1 .. n + 2 PROVE l[k] = r[k]
  <2>1. CASE k = 1
    BY <1>1, <1>3, <1>4, <1>5, <2>1
  <2>2. CASE k = n + 2
    BY <1>1, <1>3, <1>4, <1>6, <2>2
  <2>3. CASE k \in 2 .. n + 1
    <3>1. k - 1 \in 1 .. n /\ k \in 2 .. n + 2 /\ k \in 1 .. n + 1
      BY <1>1, <2>3
    <3> QED BY <1>3, <1>4, <1>5, <1>6, <2>3, <3>1
  <2> QED BY <1>1, <2>1, <2>2, <2>3
<1> QED BY <1>3, <1>4, <1>7, SameSeq DEF l, r

LEMMA ConsTail ==
    ASSUME NEW q, IsSeq(q), NEW m
    PROVE  <<m>> \o q # <<>> /\ Head(<<m>> \o q) = m /\ Tail(<<m>> \o q) = q
<1> DEFINE l == <<m>> \o q
<1>1. /\ IsSeq(l) /\ Len(l) = Len(q) + 1 /\ l[1] = m /\ Len(q) \in Nat
      /\ \A k \in 1 .. Len(q) : l[k + 1] = q[k]
  <2>1. Len(q) \in Nat
    BY SeqFacts
  <2> QED BY <2>1, ConsFacts
<1> HIDE DEF l
<1>2. l # <<>>
  BY <1>1
<1>3. /\ IsSeq(Tail(l)) /\ Len(Tail(l)) = Len(q) /\ Head(l) = m
      /\ \A k \in 1 .. Len(q) : Tail(l)[k] = q[k]
  BY <1>1, <1>2, TailFacts
<1> QED BY <1>2, <1>3, SameSeq DEF l

LEMMA HeadCons ==
    ASSUME NEW q, IsSeq(q), q # <<>> PROVE <<Head(q)>> \o Tail(q) = q
<1> DEFINE l == <<Head(q)>> \o Tail(q)
<1>1. /\ IsSeq(Tail(q)) /\ Len(Tail(q)) = Len(q) - 1 /\ Len(q) \in Nat \ {0}
      /\ \A k \in 1 .. Len(q) - 1 : Tail(q)[k] = q[k + 1]
      /\ Head(q) = q[1]
  BY TailFacts
<1>2. /\ IsSeq(l) /\ Len(l) = Len(q) /\ l[1] = q[1]
      /\ \A k \in 2 .. Len(q) : l[k] = Tail(q)[k - 1]
  BY <1>1, ConsFacts
<1> HIDE DEF l
<1>3. ASSUME NEW k \in 1 .. Len(q) PROVE l[k] = q[k]
  <2>1. CASE k = 1
    BY <1>2, <2>1
  <2>2. CASE k # 1
    <3>1. k \in 2 .. Len(q) /\ k - 1 \in 1 .. Len(q) - 1 /\ (k - 1) + 1 = k
      BY <1>1, <2>2
    <3> QED BY <1>1, <1>2, <3>1
  <2> QED BY <2>1, <2>2
<1> QED BY <1>2, <1>3, SameSeq DEF l
-----------------------------------------------------------------------------
(* What the messages in the pipes and sockets are, and whose turn it is:    *)
(* a source that was found ready keeps its message until its turn, and the  *)
(* message in hand is one that is reported.                                 *)
Valid(s, m) ==
    /\ m.id \in 1 .. MaxMessages /\ (s \notin Modems => m.type \in Nat)
    /\ s = Lct => ~m.short

Bounded ==
    /\ left \in [Kinds -> Nat] /\ ids \in Nat
    /\ ids + (left["mdm"] + left["kct"] + left["lct"]) <= MaxMessages
Queued ==
    /\ queue = [s \in Channels |-> queue[s]] /\ done = [s \in Channels |-> done[s]]
    /\ \A s \in Channels : IsSeq(done[s]) /\ IsSeq(queue[s])
    /\ \A s \in Channels : \A k \in 1 .. Len(queue[s]) : Valid(s, queue[s][k])
Turns ==
    /\ pc \notin {"handle", "raise"} => ready = {}
    /\ \A s \in ready : queue[s] # <<>> \/ (pc = "raise" /\ First(s))
    /\ pc = "raise" => \E s \in ready :
          First(s) /\ cur.id \in 1 .. MaxMessages /\ Duty(s, cur) # "no"
FlowInv == DumpTyped /\ Bounded /\ Queued /\ Turns

(* What a step does to the messages.                                        *)
Idle == UNCHANGED <<queue, done, pc, ready, cur>>
Sent(s, m) ==
    /\ queue' = [queue EXCEPT ![s] = Append(@, m)] /\ Valid(s, m)
    /\ UNCHANGED <<done, pc, ready, cur>>
Moved ==
    /\ pc # "raise" /\ pc' # "raise" /\ UNCHANGED <<queue, done>>
    /\ ready' \subseteq ready \/ ready' = ReadyNow
    /\ pc' = "handle" \/ ready' = {}
Ignored(s) ==
    /\ pc = "handle" /\ pc' = "handle" /\ First(s) /\ Served(s) /\ Pop(s)
    /\ Ends(s, Head(queue[s]), FALSE) /\ Duty(s, Head(queue[s])) # "must"
Took(s) ==
    /\ pc = "handle" /\ pc' = "raise" /\ First(s) /\ Pop(s) /\ cur' = Head(queue[s])
    /\ Duty(s, Head(queue[s])) # "no" /\ UNCHANGED <<ready, done>>
Raised(s) ==
    /\ pc = "raise" /\ pc' = "handle" /\ First(s) /\ Served(s)
    /\ Ends(s, cur, TRUE) /\ UNCHANGED queue
Dropped ==
    /\ queue' = [s \in Channels |-> <<>>] /\ ready' = {} /\ pc' \in {"mmgr", "boot"}
    /\ UNCHANGED done
Effect ==
    \/ Idle \/ Moved \/ Dropped
    \/ \E s \in Channels : Ignored(s) \/ Took(s) \/ Raised(s) \/ \E m : Sent(s, m)
-----------------------------------------------------------------------------
LEMMA MostMessages ==
    MaxMessages \in Nat /\ \A s \in Systems : Messages(s) <= MaxMessages
<1> DEFINE sums == {Messages(s) : s \in Systems}
<1>1. \A s \in Systems : Messages(s) \in Nat
  BY InputsAssumption DEF Messages, Kinds
<1>2. \E n \in sums : \A k \in sums : k <= n
  BY InputsAssumption
<1>3. MaxMessages \in sums /\ \A k \in sums : k <= MaxMessages
  BY <1>2 DEF MaxMessages
<1> QED BY <1>1, <1>3

LEMMA SpendFacts ==
    ASSUME Bounded, NEW what \in Kinds, Spend(what)
    PROVE  /\ left' \in [Kinds -> Nat] /\ left[what] > 0
           /\ \A k \in Kinds : left'[k] = IF k = what THEN left[k] - 1 ELSE left[k]
  BY DEF Bounded, Spend

LEMMA SpendMessage ==
    ASSUME Bounded, NEW what \in {"mdm", "kct", "lct"}, Spend(what), ids' = ids + 1
    PROVE  Bounded' /\ ids + 1 \in 1 .. MaxMessages
<1>1. what \in Kinds /\ "mdm" \in Kinds /\ "kct" \in Kinds /\ "lct" \in Kinds
  BY DEF Kinds
<1>2. /\ left' \in [Kinds -> Nat] /\ left[what] > 0
      /\ \A k \in Kinds : left'[k] = IF k = what THEN left[k] - 1 ELSE left[k]
  BY <1>1, SpendFacts
<1>3. left["mdm"] \in Nat /\ left["kct"] \in Nat /\ left["lct"] \in Nat /\ ids \in Nat
  BY <1>1 DEF Bounded
<1>4. left'["mdm"] + left'["kct"] + left'["lct"] = left["mdm"] + left["kct"] + left["lct"] - 1
  <2>1. CASE what = "mdm"
    BY <1>1, <1>2, <1>3, <2>1
  <2>2. CASE what = "kct"
    BY <1>1, <1>2, <1>3, <2>2
  <2>3. CASE what = "lct"
    BY <1>1, <1>2, <1>3, <2>3
  <2> QED BY <2>1, <2>2, <2>3
<1>5. left["mdm"] + left["kct"] + left["lct"] > 0
  BY <1>2, <1>3
<1>6. ids + 1 \in 1 .. MaxMessages
  BY <1>3, <1>5, MostMessages DEF Bounded
<1>7. Bounded'
  BY <1>2, <1>3, <1>4, <1>5, MostMessages DEF Bounded
<1> QED BY <1>6, <1>7

LEMMA SpendOther ==
    ASSUME Bounded, NEW what \in {"up", "flip", "fail", "kill", "boot"}, Spend(what), ids' = ids
    PROVE  Bounded'
<1>1. what \in Kinds /\ "mdm" \in Kinds /\ "kct" \in Kinds /\ "lct" \in Kinds
  BY DEF Kinds
<1>2. left' \in [Kinds -> Nat]
      /\ left'["mdm"] = left["mdm"] /\ left'["kct"] = left["kct"] /\ left'["lct"] = left["lct"]
  BY <1>1, SpendFacts
<1> QED BY <1>2 DEF Bounded

LEMMA BoundedStep == ASSUME Bounded, [Next]_vars PROVE Bounded'
<1>1. CASE UNCHANGED <<left, ids>>
  BY <1>1 DEF Bounded
<1>2. ASSUME NEW t, MonitorStep(t) PROVE Bounded'
  BY <1>1, <1>2, MonitorFrame DEF envVars
<1>3. CASE World
  <2>1. ASSUME NEW i, NEW e, MdmCallback(i, e) PROVE Bounded'
    BY <2>1, SpendMessage DEF MdmCallback
  <2>2. ASSUME NEW i, MdmUp(i) PROVE Bounded'
    BY <2>2, SpendOther DEF MdmUp
  <2>3. ASSUME NEW p, KernelSends(p) PROVE Bounded'
    BY <2>3, SpendMessage DEF KernelSends, Sends
  <2>4. ASSUME NEW c, LctLog(c) PROVE Bounded'
    BY <2>4, SpendMessage DEF LctLog, Sends
  <2>5. CASE Flip \/ Kill \/ Reboot
    BY <2>5, SpendOther DEF Flip, Kill, Reboot, Restart
  <2> QED BY <1>3, <2>1, <2>2, <2>3, <2>4, <2>5 DEF World
<1>4. CASE Startup
  BY <1>1, <1>4 DEF Startup, NoMpanicAbort, MpanicAbort, MpanicAbortRaise, NoManager, Connect,
                    OpenPipe, AllModems, KctInit, LctInit, StartRest, envVars
<1>5. CASE MpanicAbortNoFolder \/ Interrupted
  BY <1>5, SpendOther DEF MpanicAbortNoFolder, Interrupted, LoopRest
<1>6. CASE Sleep \/ Wake \/ Turned
  BY <1>1, <1>6 DEF Sleep, Wake, Turned, LoopRest
<1>7. ASSUME NEW s, Service(s) PROVE Bounded'
  BY <1>1, <1>7 DEF Service, MmgrIgnore, MmgrStartCd, MmgrTake, MmgrRaise, CtIgnore, CtTake,
                    CtRaise, CtRaiseNoFolder, Raising, CtRest, envVars
<1>8. ASSUME NEW s, NoMemory(s) PROVE Bounded'
  BY <1>8, SpendOther DEF NoMemory, CtRest
<1> QED
  BY <1>1, <1>2, <1>3, <1>4, <1>5, <1>6, <1>7, <1>8 DEF Next, Main, Mishap, vars, envVars
-----------------------------------------------------------------------------
(* The senders send valid messages.                                         *)
LEMMA WorldEffect == ASSUME FlowInv, World PROVE Effect
<1>0. Bounded
  BY DEF FlowInv
<1>1. CASE Flip
  BY <1>1 DEF Flip, mainVars, linkVars, Effect, Idle
<1>2. ASSUME NEW i \in Modems, MdmUp(i) PROVE Effect
  BY <1>2 DEF MdmUp, mainVars, linkVars, Effect, Idle
<1>3. ASSUME NEW i \in Modems, NEW e \in MdmEvents, MdmCallback(i, e) PROVE Effect
  <2>1. ids + 1 \in 1 .. MaxMessages
    BY <1>0, <1>3, SpendMessage DEF MdmCallback
  <2>2. Written(e).id = ids + 1
    BY DEF Written, WithExtras, WithDbgInfo
  <2>3. Valid(i, Written(e))
    BY <2>1, <2>2, ChannelFacts DEF Valid
  <2>4. UNCHANGED <<done, pc, ready, cur>>
    BY <1>3 DEF MdmCallback, mainVars
  <2>5. queue' = queue \/ queue' = [queue EXCEPT ![i] = Append(@, Written(e))]
    BY <1>3 DEF MdmCallback
  <2>6. i \in Channels
    BY ChannelFacts
  <2> QED BY <2>3, <2>4, <2>5, <2>6 DEF Effect, Idle, Sent
<1>4. ASSUME NEW p \in KctPackets, KernelSends(p) PROVE Effect
  <2> DEFINE m == [p EXCEPT !.id = ids + 1]
  <2>1. ids + 1 \in 1 .. MaxMessages
    BY <1>0, <1>4, SpendMessage DEF KernelSends, Sends
  <2>2. m.id = ids + 1 /\ m.type = p.type /\ p.type \in Nat
    BY InputsAssumption
  <2>3. Valid(Kct, m)
    BY <2>1, <2>2, ChannelFacts DEF Valid
  <2>4. UNCHANGED <<done, pc, ready, cur>> /\ queue' = [queue EXCEPT ![Kct] = Append(@, m)]
    BY <1>4 DEF KernelSends, Sends, mainVars
  <2> HIDE DEF m
  <2> QED BY <2>3, <2>4, ChannelFacts DEF Effect, Sent
<1>5. ASSUME NEW c \in LctCalls, LctLog(c) PROVE Effect
  <2>1. PICK att : Sends(Lct, lct_alloc_event(c, att))
    BY <1>5 DEF LctLog
  <2> DEFINE m == lct_alloc_event(c, att)
  <2>2. ids + 1 \in 1 .. MaxMessages
    BY <1>0, <1>5, SpendMessage DEF LctLog, Sends
  <2>3. LctType(c) \in Nat
    BY InputsAssumption DEF LctType, CliType
  <2>4. m.id = ids + 1 /\ m.type = LctType(c) /\ m.short = FALSE
    BY DEF lct_alloc_event
  <2>5. Valid(Lct, m)
    BY <2>2, <2>3, <2>4 DEF Valid
  <2>6. UNCHANGED <<done, pc, ready, cur>> /\ queue' = [queue EXCEPT ![Lct] = Append(@, m)]
    BY <2>1 DEF Sends, mainVars
  <2> HIDE DEF m
  <2> QED BY <2>5, <2>6, ChannelFacts DEF Effect, Sent
<1>6. CASE Kill \/ Reboot
  BY <1>6 DEF Kill, Reboot, Restart, Effect, Dropped
<1> QED BY <1>1, <1>2, <1>3, <1>4, <1>5, <1>6 DEF World

(* A source has a message when its turn comes.                              *)
LEMMA TurnFacts ==
    ASSUME FlowInv, NEW s \in Channels, pc = "handle", First(s)
    PROVE  /\ IsSeq(queue[s]) /\ queue[s] # <<>> /\ Valid(s, Head(queue[s]))
<1>1. IsSeq(queue[s]) /\ queue[s] # <<>>
  BY DEF FlowInv, Turns, Queued, First
<1>2. Head(queue[s]) = queue[s][1] /\ 1 \in 1 .. Len(queue[s])
  BY <1>1, TailFacts, SeqFacts
<1> QED BY <1>1, <1>2 DEF FlowInv, Queued

LEMMA StartEffect ==
    ASSUME FlowInv, Startup \/ MpanicAbortNoFolder \/ Sleep \/ Wake \/ Turned \/ Interrupted
    PROVE  Effect
<1>0. pc \notin {"handle", "raise"} => ready = {}
  BY DEF FlowInv, Turns
<1>1. CASE Startup \/ MpanicAbortNoFolder
  <2>1. UNCHANGED <<queue, done, ready>>
    BY <1>1 DEF Startup, NoMpanicAbort, MpanicAbort, MpanicAbortRaise, NoManager, Connect,
                OpenPipe, AllModems, KctInit, LctInit, StartRest, MpanicAbortNoFolder, Goto,
                linkVars
  <2>2. pc \notin {"handle", "raise"} /\ pc' \notin {"handle", "raise"}
    BY <1>1 DEF Startup, NoMpanicAbort, MpanicAbort, MpanicAbortRaise, NoManager, Connect,
                OpenPipe, AllModems, KctInit, LctInit, MpanicAbortNoFolder, Goto, NextModem
  <2> QED BY <1>0, <2>1, <2>2 DEF Effect, Moved
<1>2. CASE Sleep \/ Wake \/ Turned \/ Interrupted
  <2>1. UNCHANGED <<queue, done>>
    BY <1>2 DEF Sleep, Wake, Turned, Interrupted, LoopRest, linkVars
  <2>2. pc # "raise" /\ pc' # "raise" /\ (ready' = ready \/ ready' = ReadyNow)
    BY <1>2 DEF Sleep, Wake, Turned, Interrupted
  <2>3. pc' = "handle" \/ ready' = {}
    BY <1>0, <1>2 DEF Sleep, Wake, Turned, Interrupted
  <2> QED BY <2>1, <2>2, <2>3 DEF Effect, Moved
<1> QED BY <1>1, <1>2

LEMMA ServiceEffect ==
    ASSUME FlowInv, NEW s \in Channels, Service(s) \/ NoMemory(s) PROVE Effect
<1>1. CASE NoMemory(s)
  BY <1>1 DEF NoMemory, Turn, Served, CtRest, Effect, Moved
<1>2. CASE s \in Modems /\ (MmgrIgnore(s) \/ MmgrStartCd(s))
  <2>1. /\ Turn(s) /\ pc' = pc /\ Served(s) /\ Pop(s) /\ Ends(s, Head(queue[s]), FALSE)
        /\ Head(queue[s]).string \notin Handled
    BY <1>2 DEF MmgrIgnore, MmgrStartCd, Handled
  <2>2. Duty(s, Head(queue[s])) = "no"
    BY <1>2, <2>1 DEF Duty
  <2> QED BY <2>1, <2>2 DEF Effect, Ignored, Turn
<1>3. CASE s \in Modems /\ MmgrTake(s)
  <2>1. /\ Turn(s) /\ pc' = "raise" /\ Pop(s) /\ cur' = Head(queue[s]) /\ UNCHANGED <<ready, done>>
        /\ Head(queue[s]).string \in Handled
    BY <1>3 DEF MmgrTake
  <2>2. Duty(s, Head(queue[s])) = "must"
    BY <1>3, <2>1 DEF Duty
  <2> QED BY <2>1, <2>2 DEF Effect, Took, Turn
<1>4. CASE MmgrRaise(s) \/ CtRaise(s) \/ CtRaiseNoFolder(s)
  BY <1>4 DEF MmgrRaise, CtRaise, CtRaiseNoFolder, Raising, linkVars, Effect, Raised
<1>5. CASE CtIgnore(s)
  <2> DEFINE m == Head(queue[s])
  <2>1. /\ s \in {Kct, Lct} /\ pc = "handle" /\ pc' = pc /\ First(s) /\ Served(s) /\ Pop(s)
        /\ Ends(s, m, FALSE) /\ ~Passes(s, m)
    BY <1>5 DEF CtIgnore, Turn
  <2>2. m.type \in Nat /\ s \notin Modems /\ (s = Lct => ~m.short)
    BY <2>1, TurnFacts, ChannelFacts DEF Valid
  <2>3. Duty(s, m) # "must"
    BY <2>1, <2>2, ChannelFacts
    DEF Passes, netlink_get_packet, event_pass_filter, CT_EV_LAST, Duty
  <2> QED BY <2>1, <2>3 DEF Effect, Ignored
<1>6. CASE CtTake(s)
  <2> DEFINE m == Head(queue[s])
  <2>1. /\ s \in {Kct, Lct} /\ pc = "handle" /\ pc' = "raise" /\ First(s) /\ Pop(s)
        /\ cur' = m /\ UNCHANGED <<ready, done>> /\ Passes(s, m)
    BY <1>6 DEF CtTake, Turn
  <2>2. m.type \in Nat /\ s \notin Modems /\ (s = Lct => ~m.short)
    BY <2>1, TurnFacts, ChannelFacts DEF Valid
  <2>3. Duty(s, m) # "no"
    BY <2>1, <2>2, ChannelFacts
    DEF Passes, netlink_get_packet, event_pass_filter, CT_EV_LAST, Duty
  <2> QED BY <2>1, <2>3 DEF Effect, Took
<1> QED BY <1>1, <1>2, <1>3, <1>4, <1>5, <1>6 DEF Service

LEMMA StepEffect == ASSUME FlowInv, [Next]_vars PROVE Effect
<1>1. CASE UNCHANGED vars
  BY <1>1 DEF vars, mainVars, linkVars, Effect, Idle
<1>2. ASSUME NEW t, MonitorStep(t) PROVE Effect
  BY <1>2, MonitorFrame DEF mainVars, linkVars, Effect, Idle
<1> QED BY <1>1, <1>2, WorldEffect, StartEffect, ServiceEffect DEF Next, Main, Mishap
-----------------------------------------------------------------------------
LEMMA PopFacts ==
    ASSUME Queued, NEW s \in Channels, queue[s] # <<>>, Pop(s)
    PROVE  /\ queue' = [t \in Channels |-> queue'[t]]
           /\ \A t \in Channels : queue'[t] = IF t = s THEN Tail(queue[s]) ELSE queue[t]
           /\ \A t \in Channels : IsSeq(queue'[t])
           /\ \A t \in Channels : \A k \in 1 .. Len(queue'[t]) : Valid(t, queue'[t][k])
<1>1. /\ queue' = [t \in Channels |-> queue'[t]]
      /\ \A t \in Channels : queue'[t] = IF t = s THEN Tail(queue[s]) ELSE queue[t]
  BY DEF Queued, Pop
<1>2. /\ IsSeq(Tail(queue[s])) /\ Len(Tail(queue[s])) = Len(queue[s]) - 1
      /\ Len(queue[s]) \in Nat \ {0}
      /\ \A k \in 1 .. Len(queue[s]) - 1 : Tail(queue[s])[k] = queue[s][k + 1]
  BY TailFacts DEF Queued
<1>3. \A k \in 1 .. Len(Tail(queue[s])) : Valid(s, Tail(queue[s])[k])
  <2> TAKE k \in 1 .. Len(Tail(queue[s]))
  <2>1. Tail(queue[s])[k] = queue[s][k + 1] /\ k + 1 \in 1 .. Len(queue[s])
    BY <1>2
  <2> QED BY <2>1 DEF Queued
<1> QED BY <1>1, <1>2, <1>3 DEF Queued

LEMMA EndsFacts ==
    ASSUME Queued, NEW s \in Channels, NEW m, NEW r, Ends(s, m, r)
    PROVE  /\ done' = [t \in Channels |-> done'[t]]
           /\ \A t \in Channels : done'[t] = IF t = s THEN Append(done[s], [event |-> m, reported |-> r])
                                              ELSE done[t]
           /\ \A t \in Channels : IsSeq(done'[t])
<1> DEFINE x == [event |-> m, reported |-> r]
<1>1. /\ done' = [t \in Channels |-> done'[t]]
      /\ \A t \in Channels : done'[t] = IF t = s THEN Append(done[s], x) ELSE done[t]
  BY DEF Queued, Ends
<1> HIDE DEF x
<1>2. IsSeq(Append(done[s], x))
  BY AppendFacts DEF Queued
<1>3. \A t \in Channels : IsSeq(done'[t])
  BY <1>1, <1>2 DEF Queued
<1> QED BY <1>1, <1>3 DEF x

LEMMA SentFacts ==
    ASSUME Queued, NEW s \in Channels, NEW m, Sent(s, m)
    PROVE  /\ queue' = [t \in Channels |-> queue'[t]]
           /\ \A t \in Channels : queue'[t] = IF t = s THEN Append(queue[s], m) ELSE queue[t]
           /\ \A t \in Channels : IsSeq(queue'[t])
           /\ \A t \in Channels : \A k \in 1 .. Len(queue'[t]) : Valid(t, queue'[t][k])
<1>1. /\ queue' = [t \in Channels |-> queue'[t]]
      /\ \A t \in Channels : queue'[t] = IF t = s THEN Append(queue[s], m) ELSE queue[t]
  BY DEF Queued, Sent
<1>2. /\ IsSeq(Append(queue[s], m)) /\ Len(Append(queue[s], m)) = Len(queue[s]) + 1
      /\ Len(queue[s]) \in Nat
      /\ \A k \in 1 .. Len(queue[s]) : Append(queue[s], m)[k] = queue[s][k]
      /\ Append(queue[s], m)[Len(queue[s]) + 1] = m
  BY AppendFacts, SeqFacts DEF Queued
<1>3. \A k \in 1 .. Len(Append(queue[s], m)) : Valid(s, Append(queue[s], m)[k])
  <2> TAKE k \in 1 .. Len(Append(queue[s], m))
  <2>1. CASE k = Len(queue[s]) + 1
    BY <1>2, <2>1 DEF Sent
  <2>2. CASE k \in 1 .. Len(queue[s])
    BY <1>2, <2>2 DEF Queued
  <2> QED BY <1>2, <2>1, <2>2
<1> QED BY <1>1, <1>2, <1>3 DEF Queued

LEMMA EmptyIsSeq == IsSeq(<<>>) /\ Len(<<>>) = 0
<1>1. <<>> \in Seq({}) /\ Len(<<>>) = 0
  OBVIOUS
<1> QED BY <1>1, SeqIntro

LEMMA QueuedStep == ASSUME FlowInv, Effect PROVE Queued'
<1>0. Queued
  BY DEF FlowInv
<1>1. CASE UNCHANGED <<queue, done>>
  BY <1>0, <1>1 DEF Queued
<1>2. CASE Dropped
  <2>1. /\ queue' = [t \in Channels |-> queue'[t]] /\ \A t \in Channels : queue'[t] = <<>>
        /\ done' = done
    BY <1>2 DEF Dropped
  <2>2. \A t \in Channels : IsSeq(queue'[t]) /\ Len(queue'[t]) = 0
    BY <2>1, EmptyIsSeq
  <2>3. \A t \in Channels : \A k \in 1 .. Len(queue'[t]) : Valid(t, queue'[t][k])
    BY <2>2
  <2> QED BY <1>0, <2>1, <2>2, <2>3 DEF Queued
<1>3. ASSUME NEW s \in Channels, NEW m, Sent(s, m) PROVE Queued'
  <2>1. done' = done
    BY <1>3 DEF Sent
  <2> QED BY <1>0, <1>3, <2>1, SentFacts DEF Queued
<1>4. ASSUME NEW s \in Channels, Ignored(s) PROVE Queued'
  <2>1. queue[s] # <<>> /\ Pop(s) /\ Ends(s, Head(queue[s]), FALSE)
    BY <1>4, TurnFacts DEF Ignored
  <2> QED BY <1>0, <2>1, PopFacts, EndsFacts DEF Queued
<1>5. ASSUME NEW s \in Channels, Took(s) PROVE Queued'
  <2>1. queue[s] # <<>> /\ Pop(s) /\ done' = done
    BY <1>5, TurnFacts DEF Took
  <2> QED BY <1>0, <2>1, PopFacts DEF Queued
<1>6. ASSUME NEW s \in Channels, Raised(s) PROVE Queued'
  <2>1. Ends(s, cur, TRUE) /\ queue' = queue
    BY <1>6 DEF Raised
  <2> QED BY <1>0, <2>1, EndsFacts DEF Queued
<1> QED BY <1>1, <1>2, <1>3, <1>4, <1>5, <1>6 DEF Effect, Idle, Moved

LEMMA TurnsStep == ASSUME FlowInv, Effect PROVE Turns'
<1>0. Queued /\ Turns /\ ready \subseteq Channels
  BY DEF FlowInv, DumpTyped
<1>1. CASE Idle
  BY <1>0, <1>1 DEF Idle, Turns, First, Duty
<1>2. CASE Moved
  BY <1>0, <1>2 DEF Moved, Turns, ReadyNow
<1>3. CASE Dropped
  BY <1>3 DEF Dropped, Turns
<1>4. ASSUME NEW s \in Channels, NEW m, Sent(s, m) PROVE Turns'
  <2>1. \A t \in Channels : queue[t] # <<>> => queue'[t] # <<>>
    <3>1. Append(queue[s], m) # <<>>
      <4>1. Len(Append(queue[s], m)) = Len(queue[s]) + 1 /\ Len(queue[s]) \in Nat
        BY <1>0, AppendFacts, SeqFacts DEF Queued
      <4>2. Len(Append(queue[s], m)) # Len(<<>>)
        BY <4>1, EmptyIsSeq
      <4> QED BY <4>2
    <3> QED BY <1>0, <1>4, <3>1, SentFacts
  <2>2. UNCHANGED <<pc, ready, cur>>
    BY <1>4 DEF Sent
  <2> QED BY <1>0, <2>1, <2>2 DEF Turns, First, Duty
<1>5. ASSUME NEW s \in Channels, Ignored(s) PROVE Turns'
  <2>1. /\ queue[s] # <<>> /\ Pop(s) /\ pc = "handle" /\ pc' = "handle" /\ ready' = ready \ {s}
    BY <1>5, TurnFacts DEF Ignored, Served
  <2>2. \A t \in Channels \ {s} : queue'[t] = queue[t]
    BY <1>0, <2>1, PopFacts
  <2> QED BY <1>0, <2>1, <2>2 DEF Turns
<1>6. ASSUME NEW s \in Channels, Took(s) PROVE Turns'
  <2>1. /\ queue[s] # <<>> /\ Pop(s) /\ pc = "handle" /\ pc' = "raise" /\ ready' = ready
        /\ First(s) /\ cur' = Head(queue[s]) /\ Duty(s, Head(queue[s])) # "no"
        /\ Valid(s, Head(queue[s]))
    BY <1>6, TurnFacts DEF Took
  <2>2. \A t \in Channels \ {s} : queue'[t] = queue[t]
    BY <1>0, <2>1, PopFacts
  <2>3. First(s)' /\ s \in ready'
    BY <2>1 DEF First
  <2>4. cur'.id \in 1 .. MaxMessages /\ Duty(s, cur') # "no"
    BY <2>1 DEF Valid
  <2>5. \A t \in ready' : queue'[t] # <<>> \/ (pc' = "raise" /\ First(t)')
    BY <1>0, <2>1, <2>2, <2>3 DEF Turns
  <2>6. Duty(s, cur)' = Duty(s, cur')
    BY DEF Duty
  <2> QED BY <2>1, <2>3, <2>4, <2>5, <2>6 DEF Turns
<1>7. ASSUME NEW s \in Channels, Raised(s) PROVE Turns'
  <2>1. /\ pc = "raise" /\ pc' = "handle" /\ First(s) /\ ready' = ready \ {s} /\ queue' = queue
    BY <1>7 DEF Raised, Served
  <2>2. \A t \in ready : First(t) => t = s
    BY <1>0, <2>1, FirstOnly
  <2> QED BY <1>0, <2>1, <2>2 DEF Turns
<1> QED BY <1>1, <1>2, <1>3, <1>4, <1>5, <1>6, <1>7 DEF Effect

LEMMA FlowInvariant == Spec => []FlowInv
<1>1. Init => FlowInv
  <2> SUFFICES ASSUME Init PROVE FlowInv
    OBVIOUS
  <2>1. DumpTyped
    BY DEF Init, DumpTyped
  <2>2. left \in [Kinds -> Nat] /\ ids = 0 /\ Messages(sys) <= MaxMessages
        /\ Messages(sys) = left["mdm"] + left["kct"] + left["lct"]
    BY InputsAssumption, MostMessages DEF Init, Messages
  <2>3. left["mdm"] \in Nat /\ left["kct"] \in Nat /\ left["lct"] \in Nat
    BY <2>2 DEF Kinds
  <2>4. Bounded
    BY <2>2, <2>3 DEF Bounded
  <2>5. Queued
    <3>1. /\ queue = [t \in Channels |-> queue[t]] /\ \A t \in Channels : queue[t] = <<>>
          /\ done = queue
      BY DEF Init
    <3>2. \A t \in Channels : IsSeq(queue[t]) /\ Len(queue[t]) = 0
      BY <3>1, EmptyIsSeq
    <3>3. \A t \in Channels : \A k \in 1 .. Len(queue[t]) : Valid(t, queue[t][k])
      BY <3>2
    <3> QED BY <3>1, <3>2, <3>3 DEF Queued
  <2>6. Turns
    BY DEF Init, Turns
  <2> QED BY <2>1, <2>4, <2>5, <2>6 DEF FlowInv
<1>2. ASSUME FlowInv, [Next]_vars PROVE FlowInv'
  <2>1. DumpTyped' /\ Bounded'
    BY <1>2, DumpTypedStep, BoundedStep DEF FlowInv
  <2>2. Queued' /\ Turns'
    BY <1>2, StepEffect, QueuedStep, TurnsStep
  <2> QED BY <2>1, <2>2 DEF FlowInv
<1> QED BY <1>1, <1>2, SpecSteps, PTL
-----------------------------------------------------------------------------
(* The refinement: what the abstract specification sees of the messages.    *)
Abs(s, q) == [k \in DOMAIN q |-> Abstract(s, q[k])]
Hold(s)   == IF pc = "raise" /\ First(s) THEN <<cur>> \o queue[s] ELSE queue[s]
Ended(s, x) == [x EXCEPT !.event = Abstract(s, @)]
AllEnded(s, d) == [k \in DOMAIN d |-> Ended(s, d[k])]

LEMMA PendingIs == \A s : Pending(s) = Abs(s, Hold(s))
  BY DEF Pending, Abs, Hold

LEMMA PendingIsNext == \A s : Pending(s)' = Abs(s, Hold(s)')
  BY DEF Pending, Abs, Hold, Abstract, Duty

LEMMA AbsFacts ==
    ASSUME NEW s, NEW q, IsSeq(q)
    PROVE  /\ IsSeq(Abs(s, q)) /\ Len(Abs(s, q)) = Len(q)
           /\ \A k \in 1 .. Len(q) : Abs(s, q)[k] = Abstract(s, q[k])
<1>1. Len(q) \in Nat /\ DOMAIN q = 1 .. Len(q)
  BY SeqFacts
<1> DEFINE S == {Abstract(s, q[k]) : k \in 1 .. Len(q)}
<1>2. Abs(s, q) = [k \in 1 .. Len(q) |-> Abstract(s, q[k])]
  BY <1>1 DEF Abs
<1>3. Abs(s, q) \in [1 .. Len(q) -> S]
  BY <1>2
<1>4. Abs(s, q) \in Seq(S) /\ Len(Abs(s, q)) = Len(q)
  BY <1>1, <1>3
<1>5. IsSeq(Abs(s, q))
  BY <1>4, SeqIntro
<1> QED BY <1>2, <1>4, <1>5

LEMMA AbsAppend ==
    ASSUME NEW s, NEW q, IsSeq(q), NEW m
    PROVE  Abs(s, Append(q, m)) = Append(Abs(s, q), Abstract(s, m))
<1> DEFINE n == Len(q)
           l == Abs(s, Append(q, m))
           r == Append(Abs(s, q), Abstract(s, m))
<1>1. /\ n \in Nat /\ IsSeq(Append(q, m)) /\ Len(Append(q, m)) = n + 1
      /\ Append(q, m)[n + 1] = m
      /\ \A k \in 1 .. n : Append(q, m)[k] = q[k]
  <2>1. n \in Nat
    BY SeqFacts
  <2> QED BY <2>1, AppendFacts
<1>2. IsSeq(l) /\ Len(l) = n + 1 /\ \A k \in 1 .. n + 1 : l[k] = Abstract(s, Append(q, m)[k])
  <2>1. /\ IsSeq(l) /\ Len(l) = Len(Append(q, m))
        /\ \A k \in 1 .. Len(Append(q, m)) : l[k] = Abstract(s, Append(q, m)[k])
    BY <1>1, AbsFacts
  <2> QED BY <1>1, <2>1
<1>3. IsSeq(Abs(s, q)) /\ Len(Abs(s, q)) = n /\ \A k \in 1 .. n : Abs(s, q)[k] = Abstract(s, q[k])
  BY AbsFacts
<1>4. /\ IsSeq(r) /\ Len(r) = n + 1 /\ r[n + 1] = Abstract(s, m)
      /\ \A k \in 1 .. n : r[k] = Abs(s, q)[k]
  BY <1>3, AppendFacts
<1> HIDE DEF l, r
<1>5. ASSUME NEW k \in 1 .. n + 1 PROVE l[k] = r[k]
  <2>1. CASE k = n + 1
    BY <1>1, <1>2, <1>4, <2>1
  <2>2. CASE k \in 1 .. n
    BY <1>1, <1>2, <1>3, <1>4, <2>2
  <2> QED BY <1>1, <2>1, <2>2
<1> QED BY <1>2, <1>4, <1>5, SameSeq DEF l, r

LEMMA AbsTail ==
    ASSUME NEW s, NEW q, IsSeq(q), q # <<>>
    PROVE  /\ Abs(s, q) # <<>> /\ Head(Abs(s, q)) = Abstract(s, Head(q))
           /\ Abs(s, Tail(q)) = Tail(Abs(s, q))
<1> DEFINE n == Len(q)
           l == Abs(s, Tail(q))
           r == Tail(Abs(s, q))
<1>1. /\ n \in Nat \ {0} /\ IsSeq(Tail(q)) /\ Len(Tail(q)) = n - 1 /\ Head(q) = q[1]
      /\ \A k \in 1 .. n - 1 : Tail(q)[k] = q[k + 1]
  BY TailFacts
<1>2. IsSeq(Abs(s, q)) /\ Len(Abs(s, q)) = n /\ \A k \in 1 .. n : Abs(s, q)[k] = Abstract(s, q[k])
  BY AbsFacts
<1>3. Abs(s, q) # <<>>
  BY <1>1, <1>2, EmptyIsSeq
<1>4. /\ IsSeq(r) /\ Len(r) = n - 1 /\ Head(Abs(s, q)) = Abs(s, q)[1]
      /\ \A k \in 1 .. n - 1 : r[k] = Abs(s, q)[k + 1]
  BY <1>2, <1>3, TailFacts
<1>5. IsSeq(l) /\ Len(l) = n - 1 /\ \A k \in 1 .. n - 1 : l[k] = Abstract(s, Tail(q)[k])
  <2>1. /\ IsSeq(l) /\ Len(l) = Len(Tail(q))
        /\ \A k \in 1 .. Len(Tail(q)) : l[k] = Abstract(s, Tail(q)[k])
    BY <1>1, AbsFacts
  <2> QED BY <1>1, <2>1
<1> HIDE DEF l, r
<1>6. ASSUME NEW k \in 1 .. n - 1 PROVE l[k] = r[k]
  <2>1. k + 1 \in 1 .. n
    BY <1>1
  <2> QED BY <1>1, <1>2, <1>4, <1>5, <2>1
<1>7. l = r
  BY <1>4, <1>5, <1>6, SameSeq
<1>8. Head(Abs(s, q)) = Abstract(s, Head(q))
  BY <1>1, <1>2, <1>4
<1> QED BY <1>3, <1>7, <1>8 DEF l, r

(* The events told of so far: one more when a message has come to its end.  *)
LEMMA DoneAppend ==
    ASSUME NEW s, NEW d, IsSeq(d), NEW m, NEW r
    PROVE  AllEnded(s, Append(d, [event |-> m, reported |-> r]))
           = Append(AllEnded(s, d), [event |-> Abstract(s, m), reported |-> r])
<1> DEFINE x == [event |-> m, reported |-> r]
           y == [event |-> Abstract(s, m), reported |-> r]
           a == Append(d, x)
           n == Len(d)
           e == [k \in DOMAIN d |-> Ended(s, d[k])]
           f == [k \in DOMAIN a |-> Ended(s, a[k])]
<1>1. Ended(s, x) = y
  BY DEF Ended
<1> HIDE DEF x, y
<1>2. /\ n \in Nat /\ DOMAIN d = 1 .. n /\ IsSeq(a) /\ Len(a) = n + 1 /\ DOMAIN a = 1 .. n + 1
      /\ a[n + 1] = x /\ \A k \in 1 .. n : a[k] = d[k]
  BY AppendFacts, SeqFacts
<1> HIDE DEF a
<1>3. IsSeq(e) /\ Len(e) = n
  <2> DEFINE S == {Ended(s, d[k]) : k \in 1 .. n}
  <2>1. e \in [1 .. n -> S]
    BY <1>2
  <2>2. e \in Seq(S) /\ Len(e) = n
    BY <1>2, <2>1
  <2> QED BY <2>2, SeqIntro
<1>4. IsSeq(f) /\ Len(f) = n + 1
  <2> DEFINE S == {Ended(s, a[k]) : k \in 1 .. n + 1}
  <2>1. f \in [1 .. n + 1 -> S]
    BY <1>2
  <2>2. f \in Seq(S) /\ Len(f) = n + 1
    BY <1>2, <2>1
  <2> QED BY <2>2, SeqIntro
<1>5. /\ \A k \in 1 .. n : e[k] = Ended(s, d[k])
      /\ \A k \in 1 .. n + 1 : f[k] = Ended(s, a[k])
  BY <1>2
<1> HIDE DEF e, f
<1>6. /\ IsSeq(Append(e, y)) /\ Len(Append(e, y)) = n + 1 /\ Append(e, y)[n + 1] = y
      /\ \A k \in 1 .. n : Append(e, y)[k] = e[k]
  BY <1>3, AppendFacts
<1>7. ASSUME NEW k \in 1 .. n + 1 PROVE f[k] = Append(e, y)[k]
  <2>1. CASE k = n + 1
    BY <1>1, <1>2, <1>5, <1>6, <2>1
  <2>2. CASE k \in 1 .. n
    BY <1>2, <1>5, <1>6, <2>2
  <2>3. k = n + 1 \/ k \in 1 .. n
    BY <1>2
  <2> QED BY <2>1, <2>2, <2>3
<1>8. f = Append(e, y)
  BY <1>4, <1>6, <1>7, SameSeq
<1>9. f = AllEnded(s, Append(d, x)) /\ e = AllEnded(s, d)
  BY DEF e, f, a, AllEnded
<1> QED BY <1>8, <1>9 DEF x, y
-----------------------------------------------------------------------------
LEMMA DoneIs == \A s : Done(s) = AllEnded(s, done[s])
  BY DEF Done, Ended, AllEnded

LEMMA DoneIsNext == \A s : Done(s)' = AllEnded(s, done'[s])
  BY DEF Done, Ended, AllEnded, Abstract, Duty

LEMMA AbstractEvent ==
    ASSUME NEW s, NEW m, m.id \in 1 .. MaxMessages PROVE Abstract(s, m) \in Flow!Events
  BY DEF Abstract, Duty, Flow!Events

(* The messages and their ends stay.                                        *)
LEMMA Stutters ==
    ASSUME \A s \in Channels : Hold(s)' = Hold(s), UNCHANGED done
    PROVE  UNCHANGED Flow!flow
<1>1. \A s \in Channels : Pending(s)' = Pending(s)
  BY PendingIs, PendingIsNext
<1>2. \A s \in Channels : Done(s)' = Done(s)
  BY DoneIs, DoneIsNext
<1> QED BY <1>1, <1>2 DEF Flow!flow

LEMMA Arrives ==
    ASSUME NEW s \in Channels, NEW m, IsSeq(Hold(s)), m.id \in 1 .. MaxMessages,
           Hold(s)' = Append(Hold(s), m),
           \A t \in Channels \ {s} : Hold(t)' = Hold(t), UNCHANGED done
    PROVE  Flow!FlowNext
<1> DEFINE e == Abstract(s, m)
<1>1. e \in Flow!Events
  BY AbstractEvent
<1>2. Pending(s)' = Append(Pending(s), e)
  BY AbsAppend, PendingIs, PendingIsNext
<1>3. \A t \in Channels \ {s} : Pending(t)' = Pending(t)
  BY PendingIs, PendingIsNext
<1>4. \A t \in Channels : Done(t)' = Done(t)
  BY DoneIs, DoneIsNext
<1> HIDE DEF e
<1>5. Flow!Arrive(s)
  BY <1>1, <1>2, <1>3, <1>4 DEF Flow!Arrive
<1> QED BY <1>5 DEF Flow!FlowNext

LEMMA Deals ==
    ASSUME NEW s \in Channels, NEW r \in BOOLEAN, IsSeq(Hold(s)), Hold(s) # <<>>,
           Hold(s)' = Tail(Hold(s)), \A t \in Channels \ {s} : Hold(t)' = Hold(t),
           Queued, Ends(s, Head(Hold(s)), r),
           Duty(s, Head(Hold(s))) # "may" => (r <=> Duty(s, Head(Hold(s))) = "must")
    PROVE  Flow!FlowNext
<1> DEFINE m == Head(Hold(s))
<1>1. /\ Pending(s) # <<>> /\ Head(Pending(s)) = Abstract(s, m)
      /\ Pending(s)' = Tail(Pending(s))
  BY AbsTail, PendingIs, PendingIsNext
<1>2. \A t \in Channels \ {s} : Pending(t)' = Pending(t)
  BY PendingIs, PendingIsNext
<1>3. \A t \in Channels : done'[t] = IF t = s THEN Append(done[s], [event |-> m, reported |-> r])
                                       ELSE done[t]
  BY EndsFacts
<1>4. \A t \in Channels \ {s} : Done(t)' = Done(t)
  BY <1>3, DoneIs, DoneIsNext
<1>5. Done(s)' = Append(Done(s), [event |-> Abstract(s, m), reported |-> r])
  <2>1. IsSeq(done[s])
    BY DEF Queued
  <2> HIDE DEF m
  <2>2. AllEnded(s, Append(done[s], [event |-> m, reported |-> r]))
        = Append(AllEnded(s, done[s]), [event |-> Abstract(s, m), reported |-> r])
    BY <2>1, DoneAppend
  <2>3. done'[s] = Append(done[s], [event |-> m, reported |-> r])
    BY <1>3
  <2> QED BY <2>2, <2>3, DoneIs, DoneIsNext
<1>6. Abstract(s, m).duty = Duty(s, m)
  BY DEF Abstract
<1> HIDE DEF m
<1>7. Flow!Deal(s)
  <2> DEFINE P == [t \in Channels |-> Pending(t)]
             D == [t \in Channels |-> Done(t)]
             e == Head(P[s])
  <2>1. P[s] # <<>> /\ e = Abstract(s, m)
    BY <1>1
  <2>2. P' = [P EXCEPT ![s] = Tail(@)]
    BY <1>1, <1>2
  <2>3. D' = [D EXCEPT ![s] = Append(@, [event |-> e, reported |-> r])]
    BY <1>4, <1>5, <2>1
  <2>4. e.duty # "may" => (r <=> e.duty = "must")
    BY <1>6, <2>1 DEF m
  <2>5. \E q \in BOOLEAN :
           /\ e.duty # "may" => (q <=> e.duty = "must")
           /\ D' = [D EXCEPT ![s] = Append(@, [event |-> e, reported |-> q])]
    BY <2>3, <2>4
  <2> QED BY <2>1, <2>2, <2>5, Zenon DEF Flow!Deal
<1> QED BY <1>7 DEF Flow!FlowNext

LEMMA EffectFlows == ASSUME FlowInv, Effect PROVE Flow!FlowNext \/ UNCHANGED Flow!flow
<1>0. Queued /\ Turns /\ ready \subseteq Channels
  BY DEF FlowInv, DumpTyped
<1>1. CASE Idle
  <2>1. \A s \in Channels : Hold(s)' = Hold(s)
    BY <1>1 DEF Idle, Hold, First
  <2> QED BY <1>1, <2>1, Stutters DEF Idle
<1>2. CASE Moved
  <2>1. \A s \in Channels : Hold(s)' = Hold(s)
    BY <1>2 DEF Moved, Hold
  <2> QED BY <1>2, <2>1, Stutters DEF Moved
<1>3. CASE Dropped
  <2>1. \A s \in Channels : Hold(s)' = <<>>
    BY <1>3 DEF Dropped, Hold
  <2>2. \A s \in Channels : Pending(s)' = <<>>
    <3>1. \A s : Abs(s, <<>>) = <<>>
      BY DEF Abs
    <3> QED BY <2>1, <3>1, PendingIsNext
  <2>3. \A s \in Channels : Done(s)' = Done(s)
    BY <1>3, DoneIs, DoneIsNext DEF Dropped
  <2>4. Flow!Lose
    BY <2>2, <2>3 DEF Flow!Lose
  <2> QED BY <2>4 DEF Flow!FlowNext
<1>4. ASSUME NEW s \in Channels, NEW m, Sent(s, m) PROVE Flow!FlowNext
  <2>1. /\ IsSeq(queue[s]) /\ m.id \in 1 .. MaxMessages /\ done' = done
        /\ UNCHANGED <<pc, ready, cur>>
        /\ \A t \in Channels : queue'[t] = IF t = s THEN Append(queue[s], m) ELSE queue[t]
    BY <1>0, <1>4, SentFacts DEF Sent, Valid, Queued
  <2>2. \A t \in Channels : First(t)' <=> First(t)
    BY <2>1 DEF First
  <2>3. \A t \in Channels \ {s} : Hold(t)' = Hold(t)
    BY <2>1, <2>2 DEF Hold
  <2>4. IsSeq(Hold(s)) /\ Hold(s)' = Append(Hold(s), m)
    <3>1. CASE pc = "raise" /\ First(s)
      <4>1. Hold(s) = <<cur>> \o queue[s] /\ Hold(s)' = <<cur>> \o Append(queue[s], m)
        BY <2>1, <2>2, <3>1 DEF Hold
      <4>2. IsSeq(<<cur>> \o queue[s])
        BY <2>1, ConsFacts
      <4>3. <<cur>> \o Append(queue[s], m) = Append(<<cur>> \o queue[s], m)
        BY <2>1, ConsAppend
      <4> QED BY <4>1, <4>2, <4>3
    <3>2. CASE ~(pc = "raise" /\ First(s))
      BY <2>1, <2>2, <3>2 DEF Hold
    <3> QED BY <3>1, <3>2
  <2> QED BY <2>1, <2>3, <2>4, Arrives
<1>5. ASSUME NEW s \in Channels, Ignored(s) PROVE Flow!FlowNext
  <2>1. /\ IsSeq(queue[s]) /\ queue[s] # <<>> /\ pc = "handle" /\ pc' = "handle"
        /\ Pop(s) /\ Ends(s, Head(queue[s]), FALSE) /\ Duty(s, Head(queue[s])) # "must"
    BY <1>5, TurnFacts DEF Ignored
  <2>2. \A t \in Channels : queue'[t] = IF t = s THEN Tail(queue[s]) ELSE queue[t]
    BY <1>0, <2>1, PopFacts
  <2>3. Hold(s) = queue[s] /\ Hold(s)' = Tail(queue[s]) /\ \A t \in Channels \ {s} : Hold(t)' = Hold(t)
    BY <2>1, <2>2 DEF Hold
  <2>4. Duty(s, Head(Hold(s))) # "may" => (FALSE <=> Duty(s, Head(Hold(s))) = "must")
    BY <2>1, <2>3
  <2> QED BY <1>0, <2>1, <2>3, <2>4, Deals
<1>6. ASSUME NEW s \in Channels, Took(s) PROVE UNCHANGED Flow!flow
  <2>1. /\ IsSeq(queue[s]) /\ queue[s] # <<>> /\ pc = "handle" /\ pc' = "raise" /\ First(s)
        /\ Pop(s) /\ cur' = Head(queue[s]) /\ UNCHANGED <<ready, done>>
    BY <1>6, TurnFacts DEF Took
  <2>2. \A t \in Channels : queue'[t] = IF t = s THEN Tail(queue[s]) ELSE queue[t]
    BY <1>0, <2>1, PopFacts
  <2>3. \A t \in Channels : First(t)' <=> t = s
    BY <1>0, <2>1, FirstOnly DEF First
  <2>4. Hold(s)' = Hold(s)
    <3>1. Hold(s) = queue[s] /\ Hold(s)' = <<Head(queue[s])>> \o Tail(queue[s])
      BY <2>1, <2>2, <2>3 DEF Hold
    <3> QED BY <2>1, <3>1, HeadCons
  <2>5. \A t \in Channels \ {s} : Hold(t)' = Hold(t)
    BY <2>1, <2>2, <2>3 DEF Hold
  <2> QED BY <2>1, <2>4, <2>5, Stutters
<1>7. ASSUME NEW s \in Channels, Raised(s) PROVE Flow!FlowNext
  <2>1. /\ pc = "raise" /\ pc' = "handle" /\ First(s) /\ queue' = queue /\ Ends(s, cur, TRUE)
        /\ IsSeq(queue[s])
    BY <1>0, <1>7 DEF Raised, Queued
  <2>2. Duty(s, cur) # "no"
    <3>1. PICK t \in ready : First(t) /\ Duty(t, cur) # "no"
      BY <1>0, <2>1 DEF Turns
    <3>2. t = s
      BY <1>0, <2>1, <3>1, FirstOnly
    <3> QED BY <3>1, <3>2
  <2>3. Duty(s, cur) \in {"must", "may", "no"}
    BY DEF Duty
  <2>4. Hold(s) = <<cur>> \o queue[s] /\ Hold(s)' = queue[s]
    BY <2>1 DEF Hold
  <2>5. \A t \in Channels \ {s} : Hold(t)' = Hold(t)
    BY <1>0, <2>1, FirstOnly DEF Hold
  <2>6. IsSeq(Hold(s)) /\ Hold(s) # <<>> /\ Head(Hold(s)) = cur /\ Hold(s)' = Tail(Hold(s))
    <3>1. IsSeq(<<cur>> \o queue[s])
      BY <2>1, ConsFacts
    <3>2. /\ <<cur>> \o queue[s] # <<>> /\ Head(<<cur>> \o queue[s]) = cur
          /\ Tail(<<cur>> \o queue[s]) = queue[s]
      BY <2>1, ConsTail
    <3> QED BY <2>4, <3>1, <3>2
  <2>7. Duty(s, Head(Hold(s))) # "may" => (TRUE <=> Duty(s, Head(Hold(s))) = "must")
    BY <2>2, <2>3, <2>6
  <2>8. Ends(s, Head(Hold(s)), TRUE)
    BY <2>1, <2>6
  <2> QED BY <1>0, <2>5, <2>6, <2>7, <2>8, Deals
<1> QED BY <1>1, <1>2, <1>3, <1>4, <1>5, <1>6, <1>7 DEF Effect

(* do_monitor and its sources implement EventFlow but for its fairness: for *)
(* any number of modems and of messages, every message written to a pipe or *)
(* a socket is dealt with once and in order, as it must be, and only a kill *)
(* of the daemon loses one.                                                 *)
THEOREM MessagesFlow == Spec => Flow!FlowInit /\ [][Flow!FlowNext]_(Flow!flow)
<1>1. Init => Flow!FlowInit
  <2> SUFFICES ASSUME Init PROVE Flow!FlowInit
    OBVIOUS
  <2>1. \A s \in Channels : queue[s] = <<>> /\ done[s] = <<>> /\ pc = "boot"
    BY DEF Init
  <2>2. \A s \in Channels : Pending(s) = <<>> /\ Done(s) = <<>>
    BY <2>1 DEF Pending, Done
  <2> QED BY <2>2 DEF Flow!FlowInit
<1>2. FlowInv /\ [Next]_vars => [Flow!FlowNext]_(Flow!flow)
  BY StepEffect, EffectFlows
<1> QED BY <1>1, <1>2, FlowInvariant, SpecSteps, PTL
=============================================================================
