------------------------------ MODULE Dropbox ------------------------------
(***************************************************************************)
(* The dumpstate made for a crash (crashlog/dropbox.c).  A crash handler   *)
(* of the main loop, or the thread dump_bt_all of an ANR, asks init for    *)
(* the service vendor.logsystemstate and leaves the key of its event in    *)
(* the ring gcurrent_key; the file the service writes into the crash       *)
(* folder comes back as an inotify event, and the key then taken from the  *)
(* ring is told to CrashReport (CRASH_LOGS_COPY_FINISHED).                 *)
(*                                                                         *)
(* A crash, its folder and its key are one number.  CrashReport is         *)
(* installed.                                                              *)
(***************************************************************************)
EXTENDS Integers, Sequences

CONSTANTS
    Slots,     \* DIM(gcurrent_key)
    Anr,       \* the crashes handled by a thread dump_bt_all
    MaxCrash   \* bound: crashes in a behaviour

ASSUME DropboxAssumption ==
    Slots \in Nat \ {0} /\ MaxCrash \in Nat /\ Anr \subseteq 1 .. MaxCrash

VARIABLES
    events,    \* inotify events not handled yet: crashes, finished dumpstates
    lastcrash, \* number of crashes so far
    pc,        \* crash -> where its handler is in start_dumpstate_srv
    keys,      \* gcurrent_key, 0 for an empty slot
    index_prod, index_cons,
    storage,   \* vendor.crashlogd.storage.path
    requested, \* ctl.start was set and init has not acted on it
    svc,       \* init.svc.vendor.logsystemstate
    job,       \* the folder the running script works on, 0: not read yet
    watches,   \* the crash folders watched
    booted,    \* PROP_BOOT_STATUS
    told,      \* history: what CrashReport was told
    missed     \* history: a key in the ring has or will have no event

daemon  == <<pc, keys, index_prod, index_cons, watches>>
service == <<storage, requested, svc, job>>
vars    == <<events, lastcrash, daemon, service, booted, told, missed>>

Crashes == 1 .. MaxCrash
Steps   == {"none", "check", "request", "watch", "advance", "store", "done"}
Calling == {"check", "request", "watch", "advance", "store"}
\* the main loop is in a handler
MainBusy == \E c \in Crashes \ Anr : pc[c] \in Calling
At(c, from, to) == pc[c] = from /\ pc' = [pc EXCEPT ![c] = to]
Tell(key, dir) == told' = Append(told, [key |-> key, dir |-> dir, sure |-> ~missed])
\* a thread tells by itself when no dumpstate was started for its crash
TellSelf(c) == IF c \in Anr THEN Tell(c, c) ELSE UNCHANGED told
-----------------------------------------------------------------------------
Crash ==
    /\ lastcrash < MaxCrash /\ lastcrash' = lastcrash + 1
    /\ events' = Append(events, [type |-> "crash", id |-> lastcrash + 1])
    /\ UNCHANGED <<daemon, service, booted, told, missed>>

BootCompletes ==
    /\ ~booted /\ booted' = TRUE
    /\ UNCHANGED <<events, lastcrash, daemon, service, told, missed>>

TakeEvent(type) ==
    /\ ~MainBusy /\ events # <<>> /\ Head(events).type = type
    /\ events' = Tail(events)

(* The main loop takes a crash: it calls start_dumpstate_srv, or a thread   *)
(* does.                                                                    *)
HandleCrash ==
    /\ TakeEvent("crash")
    /\ At(Head(events).id, "none", "check")
    /\ UNCHANGED <<lastcrash, keys, index_prod, index_cons, watches, service,
                   booted, told, missed>>

AlreadyRunning(c) ==
    /\ At(c, "check", "done") /\ svc = "running"
    /\ TellSelf(c)
    /\ UNCHANGED <<events, lastcrash, keys, index_prod, index_cons, watches,
                   service, booted, missed>>

CheckRunning(c) ==
    /\ At(c, "check", "request") /\ svc = "stopped"
    /\ UNCHANGED <<events, lastcrash, keys, index_prod, index_cons, watches,
                   service, booted, told, missed>>

Request(c) ==
    /\ At(c, "request", "watch")
    /\ storage' = c /\ requested' = TRUE
    /\ missed' = (missed \/ requested \/ svc = "running")
    /\ UNCHANGED <<events, lastcrash, keys, index_prod, index_cons, watches,
                   svc, job, booted, told>>

AddWatch(c) ==
    /\ At(c, "watch", "advance")
    /\ watches' = watches \cup {c}
    /\ UNCHANGED <<events, lastcrash, keys, index_prod, index_cons, service,
                   booted, told, missed>>

AddWatchFails(c) ==
    /\ At(c, "watch", "done")
    /\ TellSelf(c)
    /\ UNCHANGED <<events, lastcrash, keys, index_prod, index_cons, watches,
                   service, booted, missed>>

Advance(c) ==
    /\ At(c, "advance", "store")
    /\ index_prod' = (index_prod + 1) % Slots
    /\ UNCHANGED <<events, lastcrash, keys, index_cons, watches, service,
                   booted, told, missed>>

StoreKey(c) ==
    /\ At(c, "store", "done")
    /\ keys' = [keys EXCEPT ![index_prod] = c]
    /\ missed' = (missed \/ keys[index_prod] # 0)
    /\ UNCHANGED <<events, lastcrash, index_prod, index_cons, watches, service,
                   booted, told>>

(* A dumpstate is done: finalize_dropbox_pending_event.                     *)
Dropbox == Head(events).id
KeyMissing ==
    /\ ~MainBusy /\ events # <<>> /\ Head(events).type = "dropbox"
    /\ keys[index_cons] = 0
NoKeyPending ==
    /\ TakeEvent("dropbox") /\ KeyMissing
    /\ watches' = watches \ {Dropbox}
    /\ UNCHANGED <<lastcrash, pc, keys, index_prod, index_cons, service, booted,
                   told, missed>>

NotBooted ==
    /\ TakeEvent("dropbox") /\ keys[index_cons] # 0 /\ ~booted
    /\ watches' = watches \ {Dropbox}
    /\ missed' = TRUE
    /\ UNCHANGED <<lastcrash, pc, keys, index_prod, index_cons, service, booted,
                   told>>

\* Mutants: the slot is not cleared; the key is the one stored last.
Finalize_KeyKept ==
    /\ TakeEvent("dropbox") /\ keys[index_cons] # 0 /\ booted
    /\ watches' = watches \ {Dropbox}
    /\ Tell(keys[index_cons], Dropbox)
    /\ index_cons' = (index_cons + 1) % Slots
    /\ UNCHANGED <<lastcrash, pc, keys, index_prod, service, booted, missed>>
Finalize_LastKey ==
    /\ TakeEvent("dropbox") /\ keys[index_prod] # 0 /\ booted
    /\ watches' = watches \ {Dropbox}
    /\ Tell(keys[index_prod], Dropbox)
    /\ keys' = [keys EXCEPT ![index_prod] = 0]
    /\ index_cons' = (index_cons + 1) % Slots
    /\ UNCHANGED <<lastcrash, pc, index_prod, service, booted, missed>>
Finalize ==
    /\ TakeEvent("dropbox") /\ keys[index_cons] # 0 /\ booted
    /\ watches' = watches \ {Dropbox}
    /\ Tell(keys[index_cons], Dropbox)
    /\ keys' = [keys EXCEPT ![index_cons] = 0]
    /\ index_cons' = (index_cons + 1) % Slots
    /\ UNCHANGED <<lastcrash, pc, index_prod, service, booted, missed>>

(* The daemon dies and starts again.                                        *)
Restart ==
    /\ pc' = [c \in Crashes |-> IF c <= lastcrash THEN "done" ELSE "none"]
    /\ keys' = [s \in 0 .. Slots - 1 |-> 0]
    /\ index_prod' = Slots - 1 /\ index_cons' = 0
    /\ watches' = {} /\ events' = <<>> /\ missed' = FALSE
    /\ events # <<>> \/ keys' # keys \/ \E c \in Crashes : pc[c] \in Calling
    /\ UNCHANGED <<lastcrash, service, booted, told>>
-----------------------------------------------------------------------------
(* The service: init starts the script, a request for a running one is      *)
(* dropped.                                                                 *)

SrvStart ==
    /\ requested /\ requested' = FALSE
    /\ svc' = "running"
    /\ UNCHANGED <<events, lastcrash, daemon, storage, job, booted, told, missed>>

ReadPath ==
    /\ svc = "running" /\ job = 0
    /\ job' = storage
    /\ UNCHANGED <<events, lastcrash, daemon, storage, requested, svc, booted,
                   told, missed>>

(* The script leaves: the build allows no bug report, the folder is gone.   *)
Leave ==
    /\ svc = "running" /\ job # 0
    /\ svc' = "stopped" /\ job' = 0
    /\ missed' = TRUE
    /\ UNCHANGED <<events, lastcrash, daemon, storage, requested, booted, told>>

(* After five seconds, in which the caller comes back from                  *)
(* start_dumpstate_srv, and the dump, the file named dropbox- is closed.    *)
WriteDropbox ==
    /\ svc = "running" /\ job # 0
    /\ pc[job] \notin Calling
    /\ events' = IF job \in watches
                 THEN Append(events, [type |-> "dropbox", id |-> job]) ELSE events
    /\ svc' = "stopped" /\ job' = 0
    /\ UNCHANGED <<lastcrash, daemon, storage, requested, booted, told, missed>>
-----------------------------------------------------------------------------
Init ==
    /\ events = <<>> /\ lastcrash = 0
    /\ pc = [c \in Crashes |-> "none"]
    /\ keys = [s \in 0 .. Slots - 1 |-> 0]
    /\ index_prod = Slots - 1 /\ index_cons = 0
    /\ storage = 0 /\ requested = FALSE /\ svc = "stopped" /\ job = 0
    /\ watches = {} /\ booted \in BOOLEAN /\ told = <<>> /\ missed = FALSE

Next ==
    \/ Crash \/ BootCompletes \/ HandleCrash \/ Restart
    \/ \E c \in Crashes :
          \/ AlreadyRunning(c) \/ CheckRunning(c) \/ Request(c)
          \/ AddWatch(c) \/ AddWatchFails(c) \/ Advance(c) \/ StoreKey(c)
    \/ NoKeyPending \/ NotBooted \/ Finalize
    \/ SrvStart \/ ReadPath \/ Leave \/ WriteDropbox

Spec == Init /\ [][Next]_vars
-----------------------------------------------------------------------------
(* Type correctness: the indices stay within the ring.                      *)
TypeOK ==
    /\ events \in Seq([type : {"crash", "dropbox"}, id : Crashes])
    /\ lastcrash \in 0 .. MaxCrash /\ pc \in [Crashes -> Steps]
    /\ keys \in [0 .. Slots - 1 -> 0 .. MaxCrash]
    /\ index_prod \in 0 .. Slots - 1 /\ index_cons \in 0 .. Slots - 1
    /\ storage \in 0 .. MaxCrash /\ job \in 0 .. MaxCrash
    /\ requested \in BOOLEAN /\ svc \in {"stopped", "running"}
    /\ watches \subseteq Crashes /\ booted \in BOOLEAN /\ missed \in BOOLEAN
    /\ told \in Seq([key : Crashes, dir : Crashes, sure : BOOLEAN])

(* CrashReport is told of the end of the copy of an event once at most, by  *)
(* the ring or by the thread of the event, over all races, full rings and   *)
(* restarts.                                                                *)
ToldOnce == \A i, j \in 1 .. Len(told) : i < j => told[i].key # told[j].key

(* As long as every key of the ring belongs to a dumpstate that is made and *)
(* reported, CrashReport is told the event whose folder was completed, and  *)
(* the event of a finished dumpstate finds its key.                         *)
RightKey ==
    /\ \A i \in 1 .. Len(told) : told[i].sure => told[i].key = told[i].dir
    /\ KeyMissing => missed

-----------------------------------------------------------------------------
(* What a line of the code promises and the code does not keep: TLC finds   *)
(* it violated.  README, "Disagreements", tells how.                        *)

(* "Received a dropbox event but no key is pending" (dropbox.c:126): when   *)
(* this is logged the ring is empty.                                        *)
NothingPending == KeyMissing => \A s \in 0 .. Slots - 1 : keys[s] = 0
=============================================================================
