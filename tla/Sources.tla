------------------------------ MODULE Sources -------------------------------
(* The sources of do_monitor (main.c) beside the file monitor: the modem    *)
(* managers (mmgr_source.c), whose callbacks run in threads of the client   *)
(* library and write to a pipe; the kernel's crash tool (kct_netlink.c);    *)
(* and the clients of liblct (lct_link.c).  One main thread takes one       *)
(* message of each ready source per turn.                                   *)
(*                                                                          *)
(* A message is its number and what its handling depends on.  The events'   *)
(* folders and history lines are those of History.                          *)
EXTENDS Integers, Sequences, FiniteSets

CONSTANTS
    MaxModems,      \* MAX_MMGR_INST
    ConnectTries,   \* MAX_WAIT_MMGR_CONNECT_SECONDS in periods
    KctTries,       \* KCT_MAX_CONNECT_TRY
    PipeSize,       \* messages that a pipe or a socket holds
    RetryCounter,   \* MODEMVERSION_CHK_TIMEOUT_SECONDS in periods
    ApMax, ApDefault, BpMax, BpDefault,     \* LOGS_?P_SIZE_*
    MdmEvents,      \* what a modem manager may call back with
    KctPackets,     \* what the kernel may send
    LctCalls,       \* what the clients may ask liblct to log
    Logs,           \* the system's log files that exist
    Systems         \* telephony off, tcs answers, its modems, crashlogd's mode has
                    \* modem managers, a debuggable build, liblctsock is there; and,
                    \* as a bound, how often each kind of thing happens

ASSUME SourcesAssumption ==
    {MaxModems, ConnectTries, KctTries, PipeSize, RetryCounter} \subseteq Nat \ {0}

(* Messages of the sockets have a type; a system has a bound of each kind,  *)
(* and one of them allows the most messages.                                *)
Kinds == {"mdm", "up", "kct", "lct", "flip", "fail", "kill", "boot"}
Messages(s) == s.bounds["mdm"] + s.bounds["kct"] + s.bounds["lct"]
ASSUME InputsAssumption ==
    /\ KctPackets \subseteq
          [id : {0}, short : BOOLEAN, type : Nat, low : BOOLEAN, fabric : BOOLEAN,
           data1 : Nat, att : SUBSET STRING]
    /\ \A c \in LctCalls : c.type \in Nat
    /\ \A s \in Systems : s.bounds \in [Kinds -> Nat]
    /\ \E s \in Systems : \A t \in Systems : Messages(t) <= Messages(s)

VARIABLES
    sys,            \* a member of Systems
    pc,             \* the main thread
    inst, tries,    \* the modem being connected, attempts left
    ready,          \* sources that select found ready and that are not done
    cur,            \* the message being handled
    ongoing,        \* PROP_PROC_ONGOING
    hdl, fd,        \* mmgr_ctx: connected, the pipe is open
    sock,           \* the sockets that are open, of Kct and Lct
    queue,          \* what is in each pipe or socket
    marker,         \* files MCD_PROCESSING-<instance>
    running, lock,  \* monitor_modem_version: the counters, the mutex's holder
    threads,        \* its threads: where, instance, the name first seen
    version, name,  \* per modem: the property, modem_config[].value; 0: undefined
    filter,         \* the property of the low priority events of a submitter
    dw0,            \* the value in /proc/ipanic_fabric_recv_err
    left, ids,      \* of the bounds; messages sent
    done,           \* history: what each source's messages came to
    owed, lost,     \* history: dumps begun and not reported, lost in a kill
    folder          \* history: the last folder of a crash tool event

mainVars    == <<pc, inst, tries, ready, cur, ongoing>>
linkVars    == <<hdl, fd, sock, queue>>
monitorVars == <<running, lock, threads, version, name>>
envVars     == <<sys, filter, dw0, left, ids>>
dumpVars    == <<owed, lost>>
vars == <<mainVars, linkVars, marker, monitorVars, envVars, done, dumpVars, folder>>

Modems == 0 .. MaxModems - 1
Kct    == MaxModems
Lct    == MaxModems + 1
Channels == 0 .. Lct
None   == [id |-> 0]

Spend(what) == left[what] > 0 /\ left' = [left EXCEPT ![what] = @ - 1]
-----------------------------------------------------------------------------
(* tcs_wrapper.c.                                                           *)

get_modem_count ==
    IF sys.off \/ ~sys.tcs THEN 0
    ELSE IF sys.nb > MaxModems THEN MaxModems ELSE sys.nb

(* Callbacks of the modem manager's client.  The name that the main thread  *)
(* will see; an INFO, ERROR or STATS carries its own.                       *)
Strings ==
    [OOS |-> "MOUTOFSERVICE", SHUTDOWN |-> "MODEMOFF", REBOOT |-> "MSHUTDOWN",
     RESET |-> "MRESET", START |-> "START_CD", END |-> "MPANIC",
     APIMR |-> "APIMR", SKIP |-> "MSKIPCOREDUMP"]

(* write_mmgr_monitor_with_dbg_info: sizes are brought into their range, a  *)
(* name taken from the data is not a cause, one datum gives none.           *)
LogSize(asked, default, max) ==
    IF asked < 0 THEN default ELSE IF asked > max THEN max ELSE asked
Causes(e) ==
    IF e.data <= 1 THEN 0
    ELSE e.data - (IF e.type \in DOMAIN Strings THEN 0 ELSE 1)
WithDbgInfo(e) ==
    [id |-> ids + 1, type |-> e.type,
     string |-> IF e.type \in DOMAIN Strings THEN Strings[e.type] ELSE e.name,
     ap |-> LogSize(e.ap, ApDefault, ApMax), bp |-> LogSize(e.bp, BpDefault, BpMax),
     causes |-> Causes(e)]

(* write_mmgr_monitor_with_extras and the callbacks that use it.            *)
WithExtras(e) ==
    [id |-> ids + 1, type |-> e.type, string |-> Strings[e.type],
     ap |-> IF e.type \in {"OOS", "REBOOT", "RESET"} THEN ApDefault ELSE 0,
     bp |-> 0, causes |-> 0]

(* mdm_DBG_INFO drops what has no data; mdm_UP writes nothing.              *)
Writes(e) ==
    e.type \in {"OOS", "SHUTDOWN", "REBOOT", "RESET", "START"} \/ e.data > 0
Written(e) ==
    IF e.type \in {"OOS", "SHUTDOWN", "REBOOT", "RESET", "START"}
    THEN WithExtras(e) ELSE WithDbgInfo(e)

(* A callback may come as soon as mdm_cli_connect has returned, before the  *)
(* pipe exists: the write goes to descriptor 0.  A full pipe makes it wait. *)
MdmCallback(i, e) ==
    /\ hdl[i] /\ Spend("mdm") /\ Writes(e)
    /\ fd[i] => Len(queue[i]) < PipeSize
    /\ ids' = ids + 1
    /\ queue' = IF fd[i] THEN [queue EXCEPT ![i] = Append(@, Written(e))] ELSE queue
    /\ UNCHANGED <<mainVars, hdl, fd, sock, marker, monitorVars, sys, filter, dw0,
                   done, dumpVars, folder>>

(* mdm_UP, launch_modem_version_check.                                      *)
MdmUp(i) ==
    /\ hdl[i] /\ Spend("up")
    /\ threads' = Append(threads, [at |-> "start", inst |-> i, old |-> 0])
    /\ UNCHANGED <<mainVars, linkVars, marker, running, lock, version, name, sys,
                   filter, dw0, ids, done, dumpVars, folder>>
-----------------------------------------------------------------------------
(* monitor_modem_version.  The mutex is the only protection of running; the *)
(* break leaves the loop without it, and still resets and unlocks.          *)

Goes(t, where) == threads' = [threads EXCEPT ![t].at = where]
MonitorRest ==
    UNCHANGED <<mainVars, linkVars, marker, envVars, done, dumpVars, folder>>

MonitorStart(t) ==
    /\ threads[t].at = "start" /\ lock = 0 /\ lock' = t
    /\ Goes(t, IF running[threads[t].inst] # 0 THEN "reload" ELSE "claim")
    /\ UNCHANGED <<running, version, name>> /\ MonitorRest
MonitorReload(t) ==
    /\ threads[t].at = "reload"
    /\ running' = [running EXCEPT ![threads[t].inst] = 1] /\ lock' = 0
    /\ Goes(t, "done")
    /\ UNCHANGED <<version, name>> /\ MonitorRest
MonitorClaim(t) ==
    /\ threads[t].at = "claim"
    /\ running' = [running EXCEPT ![threads[t].inst] = 1] /\ lock' = 0
    /\ Goes(t, "fetch")
    /\ UNCHANGED <<version, name>> /\ MonitorRest

(* fetch_modem_name: the name after it, and its status.                     *)
Fetched(i) == IF version[i] # 0 THEN version[i] ELSE name[i]
Status(i)  == IF Fetched(i) = 0 THEN -1 ELSE IF Fetched(i) # name[i] THEN 1 ELSE 0

MonitorFetch(t) ==
    LET i == threads[t].inst IN
    /\ threads[t].at = "fetch" /\ lock = 0
    /\ name' = [name EXCEPT ![i] = Fetched(i)]
    /\ threads' = [threads EXCEPT ![t].at = IF Status(i) > 0 THEN "done" ELSE "loop",
                                  ![t].old = Fetched(i)]
    /\ running' = IF Status(i) > 0 THEN [running EXCEPT ![i] = 0] ELSE running
    /\ UNCHANGED <<lock, version>> /\ MonitorRest
Counted_Not(n) == n
Counted(n) == n + 1
MonitorLoop(t) ==
    LET i == threads[t].inst
        go == running[i] # 0 /\ running[i] <= RetryCounter IN
    /\ threads[t].at = "loop" /\ lock = 0
    /\ running' = [running EXCEPT ![i] = IF go THEN Counted(@) ELSE 0]
    /\ Goes(t, IF go THEN "poll" ELSE "done")
    /\ UNCHANGED <<lock, version, name>> /\ MonitorRest
MonitorPoll(t) ==
    LET i == threads[t].inst IN
    /\ threads[t].at = "poll"
    /\ name' = [name EXCEPT ![i] = Fetched(i)]
    /\ Goes(t, IF Fetched(i) # threads[t].old THEN "break" ELSE "loop")
    /\ UNCHANGED <<running, lock, version>> /\ MonitorRest
MonitorBreak(t) ==
    /\ threads[t].at = "break"
    /\ running' = [running EXCEPT ![threads[t].inst] = 0]
    /\ Goes(t, "unlock")
    /\ UNCHANGED <<lock, version, name>> /\ MonitorRest
MonitorUnlock(t) ==
    /\ threads[t].at = "unlock" /\ lock' = 0 /\ Goes(t, "done")
    /\ UNCHANGED <<running, version, name>> /\ MonitorRest

MonitorStep(t) ==
    MonitorStart(t) \/ MonitorReload(t) \/ MonitorClaim(t) \/ MonitorFetch(t)
        \/ MonitorLoop(t) \/ MonitorPoll(t) \/ MonitorBreak(t) \/ MonitorUnlock(t)
-----------------------------------------------------------------------------
(* The other senders.  An application, a Java one (liblct-jni.c) or the     *)
(* command line client (lctclient.c) asks liblct to log an event.           *)

(* lctLog takes at most eight arguments, strings and one number at the end; *)
(* lctclient wants options it knows and an event's name.                    *)
JniAccepts(c) == c.via = "jni" => c.count <= 8 /\ c.typed
CliAccepts(c) == c.via = "cli" => c.typed /\ c.event
CliType(letter) ==
    IF letter \in {"i", "I"} THEN 1 ELSE IF letter \in {"e", "E"} THEN 2 ELSE 0
LctType(c) == IF c.via = "cli" THEN CliType(c.letter) ELSE c.type

(* lib_init loads the library on debuggable builds if it is there.          *)
Loaded == sys.debuggable /\ sys.library

(* liblctsock: an attachment that cannot be allocated is left out.          *)
lct_alloc_event(c, att) ==
    [id |-> ids + 1, type |-> LctType(c), low |-> c.low, short |-> FALSE,
     fabric |-> FALSE, data1 |-> 0, att |-> att]
lct_attach(c) == SUBSET c.att

Sends(s, m) ==
    /\ Len(queue[s]) < PipeSize
    /\ ids' = ids + 1 /\ queue' = [queue EXCEPT ![s] = Append(@, m)]
    /\ UNCHANGED <<mainVars, hdl, fd, sock, marker, monitorVars, sys, filter, dw0,
                   done, dumpVars, folder>>

LctLog(c) ==
    /\ JniAccepts(c) /\ CliAccepts(c) /\ Loaded /\ c.event
    /\ Lct \in sock /\ Spend("lct")
    /\ \E att \in lct_attach(c) : Sends(Lct, lct_alloc_event(c, att))

KernelSends(p) == Kct \in sock /\ Spend("kct") /\ Sends(Kct, [p EXCEPT !.id = ids + 1])

(* The world: a property, the fabric's error register, a modem's version.   *)
Flip ==
    /\ Spend("flip")
    /\ \/ filter' = ~filter /\ UNCHANGED <<dw0, version>>
       \/ dw0' = 3 - dw0 /\ UNCHANGED <<filter, version>>
       \/ \E i \in Modems : /\ version[i] < 2
                             /\ version' = [version EXCEPT ![i] = @ + 1]
                             /\ UNCHANGED <<filter, dw0>>
    /\ UNCHANGED <<mainVars, linkVars, marker, running, lock, threads, name, sys, ids,
                   done, dumpVars, folder>>
-----------------------------------------------------------------------------
(* Startup of the main thread.  At a boot of the device,                    *)
(* crashlog_check_mpanic_abort reports the dumps that were under way.       *)

Known == 0 .. get_modem_count - 1
Goto(where) == pc' = where /\ UNCHANGED <<inst, tries, ready, cur, ongoing>>
Reported(dumps) == /\ owed' = [i \in Modems |-> owed[i] /\ i \notin dumps]
                   /\ lost' = [i \in Modems |-> lost[i] /\ i \notin dumps]

NoMpanicAbort ==
    /\ pc = "boot" /\ Goto("mmgr")
    /\ \A i \in Known : ~marker[i]
    /\ UNCHANGED <<linkVars, marker, monitorVars, envVars, done, dumpVars, folder>>
MpanicAbortNoFolder ==
    /\ pc = "boot" /\ Goto("mmgr")
    /\ \E i \in Known : marker[i]
    /\ Spend("fail") /\ Reported({i \in Known : marker[i]})
    /\ UNCHANGED <<linkVars, marker, monitorVars, sys, filter, dw0, ids, done, folder>>
MpanicAbort ==
    /\ pc = "boot" /\ \E i \in Known : marker[i]
    /\ marker' = [i \in Modems |-> marker[i] /\ i \notin Known]
    /\ pc' = "abort" /\ cur' = [id |-> 0, dumps |-> {i \in Known : marker[i]}]
    /\ UNCHANGED <<inst, tries, ready, ongoing, linkVars, monitorVars, envVars, done,
                   dumpVars, folder>>
MpanicAbortRaise ==
    /\ pc = "abort" /\ pc' = "mmgr" /\ cur' = None /\ Reported(cur.dumps)
    /\ UNCHANGED <<inst, tries, ready, ongoing, linkVars, marker, monitorVars,
                   envVars, done, folder>>

(* init_mmgr_cli_source, one modem after the other.                         *)
StartRest ==
    UNCHANGED <<ready, cur, ongoing, marker, monitorVars, envVars, done, dumpVars,
                folder>>
NextModem == pc' = "mmgr" /\ inst' = inst + 1 /\ tries' = ConnectTries
NoManager ==
    /\ pc = "mmgr" /\ inst \in Known /\ ~sys.enabled /\ NextModem
    /\ UNCHANGED linkVars /\ StartRest
Connect ==
    /\ pc = "mmgr" /\ inst \in Known /\ sys.enabled
    /\ \/ hdl' = [hdl EXCEPT ![inst] = TRUE] /\ pc' = "pipe" /\ tries' = 0
       \/ /\ tries' = tries - 1 /\ pc' = (IF tries = 1 THEN "pipe" ELSE "mmgr")
          /\ UNCHANGED hdl
    /\ UNCHANGED <<inst, fd, sock, queue>> /\ StartRest
OpenPipe ==
    /\ pc = "pipe" /\ NextModem
    /\ fd' \in {fd, [fd EXCEPT ![inst] = TRUE]}
    /\ UNCHANGED <<hdl, sock, queue>> /\ StartRest
AllModems ==
    /\ pc = "mmgr" /\ inst \notin Known /\ pc' = "kct" /\ tries' = KctTries
    /\ UNCHANGED <<inst, linkVars>> /\ StartRest

(* kct_netlink_init_comm, netlink_init: any of its three calls may fail.    *)
KctInit ==
    /\ pc = "kct"
    /\ \/ sock' = sock \cup {Kct} /\ pc' = "lct" /\ tries' = 0
       \/ /\ tries' = tries - 1 /\ pc' = (IF tries = 1 THEN "lct" ELSE "kct")
          /\ UNCHANGED sock
    /\ UNCHANGED <<inst, hdl, fd, queue>> /\ StartRest
LctInit ==
    /\ pc = "lct" /\ sock' \in {sock, sock \cup {Lct}} /\ pc' = "loop"
    /\ UNCHANGED <<inst, tries, hdl, fd, queue>> /\ StartRest
-----------------------------------------------------------------------------
(* The loop of do_monitor.  Reboots are allowed while it sleeps in select.  *)

LoopRest ==
    UNCHANGED <<inst, tries, cur, linkVars, marker, monitorVars, sys, filter, dw0,
                ids, done, dumpVars, folder>>
Open == {i \in Modems : fd[i]} \cup sock
ReadyNow == {s \in Open : queue[s] # <<>>}

Sleep ==
    /\ pc = "loop" /\ pc' = "select" /\ ongoing' = FALSE
    /\ UNCHANGED <<ready, left>> /\ LoopRest
Wake ==
    /\ pc = "select" /\ ready' = ReadyNow /\ ongoing' = TRUE
    /\ pc' = IF ReadyNow = {} THEN "loop" ELSE "handle"
    /\ UNCHANGED left /\ LoopRest
Interrupted ==
    /\ pc = "select" /\ Spend("fail") /\ ongoing' = TRUE /\ pc' = "loop"
    /\ UNCHANGED ready /\ LoopRest
Turned ==
    /\ pc = "handle" /\ ready = {} /\ pc' = "loop"
    /\ UNCHANGED <<ready, ongoing, left>> /\ LoopRest

(* The sources are looked at in the order of their numbers.                 *)
First(s) == s \in ready /\ \A r \in ready : s <= r
Turn(s) == pc = "handle" /\ First(s)
Served(s) == ready' = ready \ {s}
Pop(s) == queue' = [queue EXCEPT ![s] = Tail(@)]
Ends(s, m, r) == done' = [done EXCEPT ![s] = Append(@, [event |-> m, reported |-> r])]

(* compute_mmgr_param, and the events TFT that name their kind themselves.  *)
Handled == {"MODEMOFF", "MSHUTDOWN", "MOUTOFSERVICE", "MPANIC", "APIMR", "MRESET",
            "MSKIPCOREDUMP", "TFT"}

(* mmgr_handle up to get_modem_version.  A dump's start is noted in a file, *)
(* which may fail; its end removes the file if the data are complete.       *)
MmgrIgnore(i) ==
    LET m == Head(queue[i]) IN
    /\ Turn(i) /\ Served(i) /\ Pop(i) /\ Ends(i, m, FALSE)
    /\ m.string \notin Handled \cup {"START_CD"}
    /\ UNCHANGED <<pc, inst, tries, cur, ongoing, hdl, fd, sock, marker, monitorVars,
                   envVars, dumpVars, folder>>
MmgrStartCd(i) ==
    LET m == Head(queue[i]) IN
    /\ Turn(i) /\ Served(i) /\ Pop(i) /\ Ends(i, m, FALSE) /\ m.string = "START_CD"
    /\ marker' \in {marker, [marker EXCEPT ![i] = TRUE]}
    /\ owed' = [owed EXCEPT ![i] = marker'[i]] /\ lost' = [lost EXCEPT ![i] = FALSE]
    /\ UNCHANGED <<pc, inst, tries, cur, ongoing, hdl, fd, sock, monitorVars, envVars,
                   folder>>
Complete_Always(m) == TRUE
Complete(m) == m.string = "MPANIC" /\ m.causes = 3
MmgrTake(i) ==
    LET m == Head(queue[i]) IN
    /\ Turn(i) /\ Pop(i) /\ m.string \in Handled
    /\ marker' = IF Complete(m) THEN [marker EXCEPT ![i] = FALSE] ELSE marker
    /\ cur' = m /\ pc' = "raise"
    /\ UNCHANGED <<inst, tries, ready, ongoing, hdl, fd, sock, monitorVars, envVars,
                   done, dumpVars, folder>>
(* The rest of mmgr_handle: the modem's version, the folder with the logs   *)
(* and the dump (none, if it cannot be made), the event.                    *)
Raising(s) ==
    /\ pc = "raise" /\ First(s)
    /\ pc' = "handle" /\ Served(s) /\ cur' = None /\ Ends(s, cur, TRUE)
    /\ UNCHANGED <<inst, tries, ongoing, linkVars, marker, running, lock, threads,
                   version, envVars>>
MmgrRaise(i) ==
    /\ Raising(i) /\ name' = [name EXCEPT ![i] = Fetched(i)]
    /\ Reported(IF cur.string = "MPANIC" THEN {i} ELSE {})
    /\ UNCHANGED folder
-----------------------------------------------------------------------------
(* kct_netlink_handle_msg, lct_link_handle_msg.  The message is looked at,  *)
(* memory is found for it, then it is taken; without memory it stays.       *)

CtRest ==
    UNCHANGED <<inst, tries, ongoing, hdl, fd, sock, marker, monitorVars, sys, filter,
                dw0, ids, dumpVars, folder>>
NoMemory(s) ==
    /\ s \in {Kct, Lct} /\ Turn(s) /\ Served(s) /\ Spend("fail")
    /\ UNCHANGED <<pc, cur, queue, done>> /\ CtRest

(* A packet of the kernel shorter than its header is removed.  The filter   *)
(* is for clients only; process_msg knows three types.                      *)
CT_EV_LAST == 3
netlink_get_packet(e) == ~e.short
event_pass_filter(e) == e.type < CT_EV_LAST /\ (e.low => filter)
Passes_AnyType(s, e) == netlink_get_packet(e)
Passes(s, e) ==
    e.type < CT_EV_LAST
        /\ IF s = Kct THEN netlink_get_packet(e) ELSE event_pass_filter(e)
CtIgnore(s) ==
    LET e == Head(queue[s]) IN
    /\ s \in {Kct, Lct} /\ Turn(s) /\ Served(s) /\ Pop(s) /\ ~Passes(s, e)
    /\ Ends(s, e, FALSE)
    /\ UNCHANGED <<pc, cur, left>> /\ CtRest
CtTake(s) ==
    LET e == Head(queue[s]) IN
    /\ s \in {Kct, Lct} /\ Turn(s) /\ Pop(s) /\ Passes(s, e)
    /\ cur' = e /\ pc' = "raise"
    /\ UNCHANGED <<ready, done, left>> /\ CtRest
(* process_msg: what the event's folder holds.  Attached files are copied,  *)
(* and the logs that the event asks for and that exist.                     *)
dump_binary_attchmts_in_file(e) == e.att \cap {"binary"}
copy_attached_files(e) == e.att \cap {"filelist"}
do_additionl_steps(e) ==
    (e.att \cap {"aplog", "scu"} \cap Logs)
        \cup (IF "kmsg" \notin e.att THEN {}
              ELSE (Logs \cap {"ftrace"})
                   \cup (IF "last_kmsg" \in Logs THEN {"last_kmsg"}
                         ELSE Logs \cap {"console"}))
dump_data_in_file(e) == {"trigger"}
EventFiles(e) ==
    dump_binary_attchmts_in_file(e) \cup copy_attached_files(e)
        \cup do_additionl_steps(e) \cup dump_data_in_file(e)

(* check_event_integrity: a file of the fabric that tells of another error  *)
(* is removed.  The name it looks for is the folder's with the file's name  *)
(* added and no separator in between: no file of the folder has it.         *)
IntegrityChecked == "folder+ipanic_fabric_recv_err"
check_event_integrity(e, files) ==
    IF e.fabric /\ e.data1 # 0 /\ IntegrityChecked \in files /\ dw0 # e.data1
    THEN files \ {IntegrityChecked} ELSE files

CtRaise(s) ==
    /\ s \in {Kct, Lct} /\ Raising(s)
    /\ folder' = [fabric |-> cur.fabric, data1 |-> cur.data1, copied |-> dw0,
                  files |-> check_event_integrity(cur, EventFiles(cur))]
    /\ UNCHANGED <<name, dumpVars>>
CtRaiseNoFolder(s) ==
    /\ s \in {Kct, Lct} /\ Raising(s)
    /\ UNCHANGED <<name, dumpVars, folder>>
-----------------------------------------------------------------------------
(* The daemon is killed and started again, or the device reboots.  Threads, *)
(* pipes and sockets go with it; the files stay.                            *)
InHand == IF pc = "abort" THEN cur.dumps
          ELSE IF pc = "raise" /\ \E i \in Modems : First(i) /\ Complete(cur)
               THEN {i \in Modems : First(i)} ELSE {}
Restart(where) ==
    /\ pc' = where /\ inst' = 0 /\ tries' = ConnectTries /\ ready' = {}
    /\ cur' = None /\ ongoing' = TRUE
    /\ hdl' = [i \in Modems |-> FALSE] /\ fd' = hdl' /\ sock' = {}
    /\ queue' = [s \in Channels |-> <<>>]
    /\ running' = [i \in Modems |-> 0] /\ lock' = 0 /\ threads' = <<>>
    /\ name' = [i \in Modems |-> 0]
    /\ lost' = [i \in Modems |-> lost[i] \/ (i \in InHand /\ owed[i])]
    /\ UNCHANGED <<marker, version, sys, filter, dw0, ids, done, owed, folder>>
Kill   == Spend("kill") /\ Restart("mmgr")
Reboot == Spend("boot") /\ Restart("boot")
-----------------------------------------------------------------------------
Init ==
    /\ sys \in Systems /\ left = sys.bounds
    /\ pc = "boot" /\ inst = 0 /\ tries = ConnectTries /\ ready = {} /\ cur = None
    /\ ongoing = TRUE
    /\ hdl = [i \in Modems |-> FALSE] /\ fd = hdl /\ sock = {}
    /\ queue = [s \in Channels |-> <<>>]
    /\ marker = [i \in Modems |-> FALSE]
    /\ running = [i \in Modems |-> 0] /\ lock = 0 /\ threads = <<>>
    /\ version = running /\ name = running
    /\ filter = FALSE /\ dw0 = 1 /\ ids = 0
    /\ done = queue /\ owed = marker /\ lost = marker
    /\ folder = [fabric |-> FALSE, data1 |-> 0, copied |-> 0, files |-> {}]

Startup ==
    \/ NoMpanicAbort \/ MpanicAbort \/ MpanicAbortRaise
    \/ NoManager \/ Connect \/ OpenPipe \/ AllModems \/ KctInit \/ LctInit
Service(s) ==
    \/ s \in Modems /\ (MmgrIgnore(s) \/ MmgrStartCd(s) \/ MmgrTake(s) \/ MmgrRaise(s))
    \/ CtIgnore(s) \/ CtTake(s) \/ CtRaise(s) \/ CtRaiseNoFolder(s)
Main == Startup \/ Sleep \/ Wake \/ Turned \/ \E s \in Channels : Service(s)
Mishap == MpanicAbortNoFolder \/ Interrupted \/ \E s \in Channels : NoMemory(s)
World ==
    \/ \E i \in Modems : MdmUp(i) \/ \E e \in MdmEvents : MdmCallback(i, e)
    \/ \E p \in KctPackets : KernelSends(p)
    \/ \E c \in LctCalls : LctLog(c)
    \/ Flip \/ Kill \/ Reboot
Next == Main \/ Mishap \/ World \/ \E t \in DOMAIN threads : MonitorStep(t)

(* The main thread and the monitors are never held up for ever.             *)
MaxThreads == 3
Spec == /\ Init /\ [][Next]_vars /\ WF_vars(Main)
        /\ \A t \in 1 .. MaxThreads : WF_vars(t \in DOMAIN threads /\ MonitorStep(t))
-----------------------------------------------------------------------------
(* What the senders may count on: messages that the main thread knows are   *)
(* reported, those of low priority as the property says.                    *)
Duty(s, m) ==
    IF s \in Modems THEN IF m.string \in Handled THEN "must" ELSE "no"
    ELSE IF m.short \/ m.type \notin 0 .. 2 THEN "no"
    ELSE IF s = Lct /\ m.low THEN "may" ELSE "must"
Abstract(s, m) == [id |-> m.id, duty |-> Duty(s, m)]
Pending(s) ==
    LET held == IF pc = "raise" /\ First(s) THEN <<cur>> \o queue[s] ELSE queue[s]
    IN  [k \in DOMAIN held |-> Abstract(s, held[k])]
Done(s) ==
    [k \in DOMAIN done[s] |-> [done[s][k] EXCEPT !.event = Abstract(s, @)]]

MaxMessages ==
    LET sums == {Messages(s) : s \in Systems}
    IN  CHOOSE n \in sums : \A k \in sums : k <= n

Flow == INSTANCE EventFlow WITH
            Ids <- 1 .. MaxMessages, pending <- [s \in Channels |-> Pending(s)],
            done <- [s \in Channels |-> Done(s)]

(* do_monitor and the three sources implement EventFlow: what was written   *)
(* to a pipe or a socket is handled once and in order, an interrupted call  *)
(* or an allocation that fails postpones it, a packet that is too short is  *)
(* taken out of the way, and every source gets its turn.                    *)
ImplementsFlow == Flow!FlowSpec

(* mmgr_handle, crashlog_check_mpanic_abort: a core dump that was seen to   *)
(* begin is noted on disk until its event is raised, at its end or at the   *)
(* next boot; only a kill between the two steps of that loses it.           *)
DumpNotLost ==
    \A i \in Modems : owed[i] => marker[i] \/ i \in InHand \/ lost[i]

(* monitor_modem_version: a monitor ends, whoever resets its counter or     *)
(* takes its lock away.                                                     *)
MonitorsEnd ==
    \A t \in 1 .. MaxThreads :
        t \in DOMAIN threads ~> t \notin DOMAIN threads \/ threads[t].at = "done"

-----------------------------------------------------------------------------
(* What a line of the code promises and the code does not keep: TLC finds   *)
(* it violated.  README, "Disagreements", tells how.                        *)

(* check_integrity_Fabric_Recov: a folder keeps the fabric's file only if   *)
(* it tells of the same error as the event.                                 *)
FabricFileCurrent ==
    folder.fabric /\ folder.data1 # 0 /\ "filelist" \in folder.files
        => folder.copied = folder.data1

(* monitor_modem_version: "thread already started. Counter reloaded!" when  *)
(* running is not 0: a thread of the instance is then at work, and resets   *)
(* running at its end, so that the next mdm_UP starts one.                  *)
ThreadAlreadyStarted ==
    \A i \in Modems : running[i] # 0 =>
        \E t \in DOMAIN threads :
            threads[t].inst = i /\ threads[t].at \in {"fetch", "loop", "poll", "break"}
=============================================================================
