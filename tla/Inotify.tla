------------------------------ MODULE Inotify ------------------------------
(***************************************************************************)
(* The file monitor of crashlogd (crashlog/inotify_handler.c): the array   *)
(* wd_array, whose entries of one path share a watch, and the loop of      *)
(* receive_inotify_events over the events of one read.                     *)
(*                                                                         *)
(* Lengths are counted in units of sizeof(struct inotify_event): the kernel *)
(* pads a name to a multiple of it and a read returns whole events, as many *)
(* as fit, so the branch for less than one header is never taken.  File    *)
(* names match the pattern of some entry.  A directory that is moved away  *)
(* is handled as a removed one.                                            *)
(***************************************************************************)
EXTENDS Integers, Sequences, FiniteSets

CONSTANTS
    Entries,    \* the entries of wd_array
    Dirs,       \* the paths they watch
    PathOf,     \* eventpath of an entry
    NameLens,   \* the lengths of file names, in units
    BufSize,    \* the length of orig_buffer, in units
    CallsFail,  \* mkdir and inotify_add_watch may fail by themselves
    MaxEvents   \* bound: file events and removals in a behaviour

ASSUME ArrayAssumption ==
    /\ IsFiniteSet(Dirs) /\ PathOf \in [Entries -> Dirs]
    /\ \A d \in Dirs : \E e \in Entries : PathOf[e] = d
ASSUME SizeAssumption ==
    /\ NameLens \subseteq Nat \ {0} /\ BufSize \in Nat
    /\ \A n \in NameLens : n < BufSize
    /\ CallsFail \in BOOLEAN /\ MaxEvents \in Nat

VARIABLES
    present,  \* directory -> it exists
    watched,  \* directory -> the watch the kernel has on it, 0 if none
    queue,    \* events the kernel holds for the descriptor
    wds,      \* entry -> wd
    lastwd,   \* number of watches made so far
    main,     \* select: in the main loop; parse: in receive_inotify_events;
              \* stuck: there too, in the read that completes an event
    buf,      \* the events of orig_buffer that are not handled yet
    prev,     \* name length of the event the pointer event still points to
    lastid,   \* number of file events and removals so far
    handled,  \* history: ids of the events given to a callback, in order
    trouble   \* history: an error return, or a directory made by others

kernel == <<present, watched, queue>>
loop   == <<main, buf, prev>>
vars   == <<kernel, wds, lastwd, loop, lastid, handled, trouble>>

\* file: in a watched directory; self: IN_DELETE_SELF; ignored: IN_IGNORED
Kinds == {"file", "self", "ignored"}
Event == [kind : Kinds, wd : Nat, len : Nat, id : Nat]
Units(s) ==
    LET f[i \in 0 .. Len(s)] == IF i = 0 THEN 0 ELSE f[i - 1] + 1 + s[i].len
    IN  f[Len(s)]
Prefix(s, n) == SubSeq(s, 1, n)
Suffix(s, n) == SubSeq(s, n + 1, Len(s))
\* the number of events a read of n units returns
Fit(s, n) == Cardinality({k \in 1 .. Len(s) : Units(Prefix(s, k)) <= n})
-----------------------------------------------------------------------------
(* What other processes do to the directories.                              *)

FreshId == lastid < MaxEvents /\ lastid' = lastid + 1

WriteFile(d, n) ==
    /\ present[d] /\ FreshId
    /\ queue' = IF watched[d] = 0 THEN queue
                ELSE Append(queue, [kind |-> "file", wd |-> watched[d],
                                    len |-> n, id |-> lastid + 1])
    /\ UNCHANGED <<present, watched, wds, lastwd, loop, handled, trouble>>

RemoveDir(d) ==
    /\ present[d] /\ FreshId
    /\ present' = [present EXCEPT ![d] = FALSE]
    /\ watched' = [watched EXCEPT ![d] = 0]
    /\ queue' = IF watched[d] = 0 THEN queue
                ELSE queue \o <<[kind |-> "self", wd |-> watched[d],
                                 len |-> 0, id |-> lastid + 1],
                                [kind |-> "ignored", wd |-> watched[d],
                                 len |-> 0, id |-> lastid + 1]>>
    /\ UNCHANGED <<wds, lastwd, loop, handled, trouble>>

RecreateDir(d) ==
    /\ ~present[d]
    /\ present' = [present EXCEPT ![d] = TRUE]
    /\ trouble' = TRUE
    /\ UNCHANGED <<watched, queue, wds, lastwd, loop, lastid, handled>>
-----------------------------------------------------------------------------
(* receive_inotify_events.                                                  *)

Receive ==
    /\ main = "select" /\ queue # <<>>
    /\ LET k == Fit(queue, BufSize) IN
          /\ buf' = Prefix(queue, k) /\ queue' = Suffix(queue, k)
    /\ main' = "parse" /\ prev' = Head(queue).len
    /\ UNCHANGED <<present, watched, wds, lastwd, lastid, handled, trouble>>

Return == main' = "select" /\ buf' = <<>> /\ prev' = 0

EndOfBuffer ==
    /\ main = "parse" /\ buf = <<>>
    /\ Return
    /\ UNCHANGED <<kernel, wds, lastwd, lastid, handled, trouble>>

(* The test of a truncated event uses the length of the event handled       *)
(* before: event is not moved to the next one yet.                          *)
Truncated == main = "parse" /\ buf # <<>> /\ Units(buf) < 1 + prev
Missing   == 1 + prev - Units(buf)
Complete  == main = "parse" /\ buf # <<>> /\ Units(buf) >= 1 + prev

(* The completing read has nothing to return and blocks.                    *)
ReadBlocks ==
    /\ Truncated /\ queue = <<>>
    /\ main' = "stuck"
    /\ UNCHANGED <<kernel, wds, lastwd, buf, prev, lastid, handled, trouble>>

(* It returns another length than the missing one, or EINVAL.               *)
Completing == Truncated \/ main = "stuck"
CompletionFails ==
    /\ Completing /\ queue # <<>>
    /\ LET k == Fit(queue, Missing) IN
          /\ Units(Prefix(queue, k)) # Missing
          /\ queue' = Suffix(queue, k)
    /\ Return
    /\ trouble' = TRUE
    /\ UNCHANGED <<present, watched, wds, lastwd, lastid, handled>>

(* The event at the head of the buffer is handled when it is complete, or   *)
(* after a completing read of the expected length: then nothing is left of  *)
(* the buffer.                                                              *)
Ready ==
    \/ Complete
    \/ /\ Completing /\ queue # <<>>
       /\ Units(Prefix(queue, Fit(queue, Missing))) = Missing
Current == Head(buf)
Known  == {e \in Entries : wds[e] = Current.wd}
Take ==
    /\ Ready
    /\ queue' = IF Complete THEN queue ELSE Suffix(queue, Fit(queue, Missing))
\* Mutants: the pointer does not move past the event; a length off by one.
Continue_SameEvent ==
    /\ main' = "parse" /\ prev' = Current.len
    /\ buf' = IF Complete THEN buf ELSE <<>>
    /\ trouble' = (trouble \/ ~Complete)
Continue ==
    /\ main' = "parse" /\ prev' = Current.len
    /\ buf' = IF Complete THEN Tail(buf) ELSE <<>>
    /\ trouble' = (trouble \/ ~Complete)
Fail == Return /\ trouble' = TRUE

(* The callback of the entry: an error drops the rest of the buffer.        *)
HandleFile ==
    /\ Take /\ Current.kind = "file" /\ Known # {}
    /\ handled' = Append(handled, Current.id)
    /\ Continue \/ Fail
    /\ UNCHANGED <<present, watched, wds, lastwd, lastid>>

(* No entry: a stray event.                                                 *)
DropStray ==
    /\ Take /\ (Current.kind = "ignored" \/ Known = {})
    /\ Continue
    /\ UNCHANGED <<present, watched, wds, lastwd, lastid, handled>>

(* Mutants: the watch is not made; only one of the entries that shared the  *)
(* old one gets it.                                                         *)
Rewatch_MkdirOnly ==
    /\ Take /\ Current.kind = "self"
    /\ \E e \in Known :
          /\ ~present[PathOf[e]]
          /\ present' = [present EXCEPT ![PathOf[e]] = TRUE]
    /\ Continue
    /\ UNCHANGED <<watched, wds, lastwd, lastid, handled>>
Rewatch_OneEntry ==
    /\ Take /\ Current.kind = "self"
    /\ \E e \in Known :
          /\ ~present[PathOf[e]]
          /\ present' = [present EXCEPT ![PathOf[e]] = TRUE]
          /\ watched' = [watched EXCEPT ![PathOf[e]] = lastwd + 1]
          /\ wds' = [wds EXCEPT ![e] = lastwd + 1]
    /\ lastwd' = lastwd + 1
    /\ Continue
    /\ UNCHANGED <<lastid, handled>>

(* A watched directory is gone: make it again, with a new watch for all the *)
(* entries that shared the old one.                                         *)
Rewatch ==
    /\ Take /\ Current.kind = "self"
    /\ \E e \in Known :
          /\ ~present[PathOf[e]]
          /\ present' = [present EXCEPT ![PathOf[e]] = TRUE]
          /\ watched' = [watched EXCEPT ![PathOf[e]] = lastwd + 1]
    /\ wds' = [e \in Entries |-> IF e \in Known THEN lastwd + 1 ELSE wds[e]]
    /\ lastwd' = lastwd + 1
    /\ Continue
    /\ UNCHANGED <<lastid, handled>>

(* mkdir fails, because the directory is there again or otherwise.          *)
MkdirFails ==
    /\ Take /\ Current.kind = "self"
    /\ \E e \in Known : present[PathOf[e]] \/ CallsFail
    /\ Fail
    /\ UNCHANGED <<present, watched, wds, lastwd, lastid, handled>>

AddWatchFails ==
    /\ Take /\ Current.kind = "self" /\ CallsFail
    /\ \E e \in Known :
          /\ ~present[PathOf[e]]
          /\ present' = [present EXCEPT ![PathOf[e]] = TRUE]
    /\ Fail
    /\ UNCHANGED <<watched, wds, lastwd, lastid, handled>>

\* the order in which the paths are watched
FirstWatch == CHOOSE f \in [Dirs -> 1 .. Cardinality(Dirs)] :
                  \A c, d \in Dirs : c # d => f[c] # f[d]

(* The daemon dies, for instance killed in the blocking read by its         *)
(* watchdog, and init_inotify_handler makes the watches anew: one per path, *)
(* -1 for a path that is missing.                                           *)
NewWatch(d) == IF present[d] THEN lastwd + FirstWatch[d] ELSE 0
InitInotifyHandler ==
    /\ FreshId
    /\ watched' = [d \in Dirs |-> NewWatch(d)]
    /\ wds' = [e \in Entries |-> IF present[PathOf[e]] THEN NewWatch(PathOf[e])
                                                      ELSE -1]
    /\ lastwd' = lastwd + Cardinality(Dirs)
    /\ queue' = <<>>
    /\ Return
    /\ trouble' = (\E d \in Dirs : ~present[d])
    /\ UNCHANGED <<present, handled>>
-----------------------------------------------------------------------------
Init ==
    /\ present = [d \in Dirs |-> TRUE]
    /\ watched = FirstWatch
    /\ wds = [e \in Entries |-> FirstWatch[PathOf[e]]]
    /\ lastwd = Cardinality(Dirs)
    /\ queue = <<>>
    /\ main = "select" /\ buf = <<>> /\ prev = 0
    /\ lastid = 0 /\ handled = <<>> /\ trouble = FALSE

Next ==
    \/ \E d \in Dirs : \/ \E n \in NameLens : WriteFile(d, n)
                       \/ RemoveDir(d) \/ RecreateDir(d)
    \/ Receive \/ EndOfBuffer \/ ReadBlocks \/ CompletionFails
    \/ HandleFile \/ DropStray
    \/ Rewatch \/ MkdirFails \/ AddWatchFails
    \/ InitInotifyHandler

Spec == Init /\ [][Next]_vars
-----------------------------------------------------------------------------
(* Type correctness of the array, the watches and the buffer.               *)
TypeOK ==
    /\ present \in [Dirs -> BOOLEAN] /\ watched \in [Dirs -> 0 .. lastwd]
    /\ queue \in Seq(Event) /\ buf \in Seq(Event)
    /\ wds \in [Entries -> -1 .. lastwd] /\ lastwd \in Nat
    /\ main \in {"select", "parse", "stuck"} /\ prev \in Nat
    /\ lastid \in 0 .. MaxEvents /\ handled \in Seq(Nat)
    /\ trouble \in BOOLEAN

(* Every entry of a path with a live watch holds that watch, over removals, *)
(* failures and restarts: an event of a watched directory finds its entry.  *)
LiveWatchKnown ==
    \A e \in Entries : watched[PathOf[e]] # 0 => wds[e] = watched[PathOf[e]]

(* Callbacks see events in the order they happened and none twice, also     *)
(* when an event is completed by a read that swallows later ones.           *)
HandledInOrder ==
    \A i, j \in 1 .. Len(handled) : i < j => handled[i] < handled[j]

(* Once everything is read, every directory is there and watched, unless a  *)
(* callback, a system call or the completion of an event failed on the way  *)
(* or somebody else made the directory again.                               *)
WatchedWhenQuiet ==
    main = "select" /\ queue = <<>> /\ ~trouble =>
        \A d \in Dirs : present[d] /\ watched[d] # 0

-----------------------------------------------------------------------------
(* What comments of the code promise and the code does not keep: TLC finds  *)
(* each of these violated.  README, "Disagreements", tells how.             *)

(* "The event was truncated" (inotify_handler.c:385): an event taken for a  *)
(* truncated one does not fit in what is left of the buffer.                *)
TruncatedIsTruncated == Truncated => Units(buf) < 1 + Current.len

(* "Recreate the dir and reinstall the watch" (inotify_handler.c:447): once *)
(* the removal of a watched directory is handled it is watched again.       *)
WatchReinstalled ==
    [][\A e \in Entries :
          /\ Ready /\ Current.kind = "self" /\ wds[e] = Current.wd
          /\ buf' # buf /\ lastid' = lastid
          => watched'[PathOf[e]] # 0]_vars
=============================================================================
