----------------------------- MODULE VmmDumps -----------------------------
(***************************************************************************)
(* crashlog_check_vmmtrap (crashlog/intel_specific/vmmtrap.c, platforms    *)
(* sofia and sofia_legacy): at boot the trap of the hypervisor is reported, *)
(* then the core dumps it left on the SD card, by the main thread when the *)
(* card is mounted and otherwise by a thread that waits for it.  Files on  *)
(* the card tell which dumps were processed.  The daemon may be killed at  *)
(* any step; until its token is set it makes the check again.              *)
(*                                                                         *)
(* A dump is its number.  Its .txt, which sofia looks for, stays; its      *)
(* .istp, which sofia_legacy looks for, may be cleaned up.  Other files    *)
(* (status_ok) are skipped.  The card is the default one.  A fault is a    *)
(* call that fails; an event without a folder is History's.                *)
(***************************************************************************)
EXTENDS Integers, FiniteSets

CONSTANTS
    Dumps,      \* numbers of core dumps
    NoOwner,    \* those without a readable line "Owner:"
    MaxVBoots, MaxVKills, MaxVFaults   \* bounds

ASSUME VmmAssumption ==
    /\ Dumps \subseteq Nat \ {0} /\ NoOwner \subseteq Dumps
    /\ {MaxVBoots, MaxVKills, MaxVFaults} \subseteq Nat

VARIABLES
    legacy,     \* the platform is sofia_legacy
    vmain,      \* the main thread: off, down, trap, mounts, busy (in the
                \* check of the dumps), token, loop
    scan,       \* the check of the dumps: none, start, watch and wait (of the
                \* thread that waits for the card), open, read, dump, mark,
                \* full, notify, clean
    mounted,    \* the SD card is mounted
    trap,       \* what /dev/vdump tells: NoTrap, NoIndex or the dump's number
    txt, istp,  \* the dumps and .istp files on the card
    mark,       \* dump -> none, tmp or done: .tmp, .inf (.info)
    vtoken,     \* the token of this boot is set
    crash_generated,
    vmm_key, vmm_index,   \* the memorised trap event
    unread, dump,   \* names readdir has still to return; the one at hand
    vboots, vkills, vfaults,
    crashes,    \* history: crash events of panics and dumps in this boot
    reports,    \* history: dump -> how often it was reported
    reruns,     \* history: dump -> how often it was reported and not marked
    quiet,      \* history: dumps that were processed and have no event
    blind,      \* history: the dumps were not looked at: no directory, a fault
    missed      \* the card was mounted when /proc/mounts came to be watched, or
                \* the change that brought it was not read

card  == <<mounted, trap, txt, istp, mark>>
event == <<crash_generated, vmm_key, vmm_index>>
walk  == <<unread, dump>>
sight == <<blind, missed>>
limit == <<vboots, vkills, vfaults>>
story == <<crashes, reports, reruns, quiet>>
vvars == <<legacy, vmain, scan, card, vtoken, event, walk, limit, story, sight>>

NoTrap == -2
NoIndex == -1
VFault == vfaults < MaxVFaults /\ vfaults' = vfaults + 1 /\ UNCHANGED <<vboots, vkills>>
MayFail(fails) == IF fails THEN VFault ELSE UNCHANGED limit
-----------------------------------------------------------------------------
(* generate_event_by_type: an event of its own, a crash if it is the first  *)
(* of the boot.                                                             *)
OwnEvent ==
    /\ crashes' = crashes + (IF crash_generated THEN 0 ELSE 1)
    /\ crash_generated' = TRUE

(* read_trap_info, handle_dump_file and generate_event_by_type of the trap: *)
(* its event says that its data are not ready.                              *)
Trap ==
    /\ vmain = "trap" /\ ~legacy /\ trap # NoTrap
    /\ vmain' = "mounts"
    /\ OwnEvent
    /\ vmm_key' = TRUE /\ vmm_index' = trap
    /\ UNCHANGED <<legacy, scan, card, vtoken, walk, limit, reports, reruns, quiet,
                   sight>>

\* no trap, or /dev/vdump fails
NoTrapRead(fails) ==
    /\ vmain = "trap" /\ (legacy \/ trap = NoTrap \/ fails)
    /\ vmain' = "mounts" /\ MayFail(fails)
    /\ UNCHANGED <<legacy, scan, card, vtoken, event, walk, story, sight>>

(* The end of crashlog_check_vmmtrap: the main thread looks at the dumps,   *)
(* or leaves them to a thread.                                              *)
CheckMounted(fails) ==
    /\ vmain = "mounts" /\ MayFail(fails)
    /\ IF mounted /\ ~fails
       THEN vmain' = "busy" /\ scan' = "open"
       ELSE vmain' = "token" /\ scan' = "start"
    /\ UNCHANGED <<legacy, card, vtoken, event, walk, story, sight>>

(* external_sdcard_monitor_mainloop: a first look at the mounts, then       *)
(* /proc/mounts is opened, and select waits for a change after that: a card *)
(* that was mounted in between is not looked at until the next change.      *)
(* A read of the mounts that fails finds no card; the thread may also fail  *)
(* to start or to watch.                                                    *)
FirstLook(fails) ==
    /\ scan = "start" /\ MayFail(fails)
    /\ scan' = IF mounted /\ ~fails THEN "open" ELSE "watch"
    /\ UNCHANGED <<legacy, vmain, card, vtoken, event, walk, story, sight>>
OpenMounts ==
    /\ scan = "watch" /\ scan' = "wait" /\ missed' = mounted
    /\ UNCHANGED <<legacy, vmain, card, vtoken, event, walk, limit, story, blind>>
MountsChanged ==
    /\ scan = "wait" /\ mounted /\ scan' = "open" /\ missed' = FALSE
    /\ UNCHANGED <<legacy, vmain, card, vtoken, event, walk, limit, story, blind>>
CardFound == ~missed /\ MountsChanged
OtherMount == missed /\ MountsChanged
ChangeUnread ==
    /\ scan = "wait" /\ mounted /\ ~missed /\ missed' = TRUE /\ VFault
    /\ UNCHANGED <<legacy, vmain, scan, card, vtoken, event, walk, story, blind>>
MonitorFails ==
    /\ scan \in {"start", "watch", "wait"} /\ scan' = "none" /\ blind' = TRUE /\ VFault
    /\ UNCHANGED <<legacy, vmain, card, vtoken, event, walk, story, missed>>

Leaves == vmain' = IF vmain = "busy" THEN "token" ELSE vmain
-----------------------------------------------------------------------------
(* crashlog_check_vmm.                                                      *)
NoDirectory(fails) ==
    /\ scan = "open" /\ (txt = {} \/ fails)
    /\ scan' = "none" /\ Leaves /\ blind' = TRUE /\ MayFail(fails)
    /\ UNCHANGED <<legacy, card, vtoken, event, walk, story, missed>>
OpenDirectory ==
    /\ scan = "open" /\ txt # {}
    /\ scan' = "read" /\ unread' = (IF legacy THEN istp ELSE txt)
    /\ UNCHANGED <<legacy, vmain, card, vtoken, event, dump, limit, story, sight>>

Skipped(d) == mark[d] = "done"
Skip(d) ==
    /\ scan = "read" /\ d \in unread /\ Skipped(d)
    /\ unread' = unread \ {d}
    /\ UNCHANGED <<legacy, vmain, scan, card, vtoken, event, dump, limit, story, sight>>

(* standard_check up to its .tmp file, legacy_check up to its .info file,   *)
(* which is the mark itself.                                                *)
FirstMark_Done == "done"   \* mutant
FirstMark == IF legacy THEN "done" ELSE "tmp"
Take(d) ==
    /\ scan = "read" /\ d \in unread /\ ~Skipped(d)
    /\ scan' = "dump" /\ dump' = d /\ unread' = unread \ {d}
    /\ mark' = [mark EXCEPT ![d] = FirstMark]
    /\ UNCHANGED <<legacy, vmain, mounted, trap, txt, istp, vtoken, event,
                   limit, story, sight>>
CardFull(d) ==
    /\ scan = "read" /\ d \in unread /\ ~Skipped(d) /\ VFault
    /\ scan' = "full" /\ quiet' = quiet \cup unread
    /\ UNCHANGED <<legacy, vmain, card, vtoken, event, walk, crashes, reports, reruns,
                   sight>>

(* handle_dump_file: no owner, no event; the dump of the memorised trap     *)
(* goes into its folder; any other has an event.                            *)
Ownerless == ~legacy /\ dump \in NoOwner
Filtered == ~legacy /\ vmm_index >= 0 /\ vmm_index = dump
AfterDump == scan' = IF legacy THEN "read" ELSE "mark"
DumpSilent ==
    /\ scan = "dump" /\ (Ownerless \/ Filtered) /\ AfterDump
    /\ quiet' = quiet \cup {dump}
    /\ UNCHANGED <<legacy, vmain, card, vtoken, event, walk, limit, crashes, reports,
                   reruns, sight>>
DumpEvent ==
    /\ scan = "dump" /\ ~Ownerless /\ ~Filtered /\ AfterDump
    /\ OwnEvent /\ reports' = [reports EXCEPT ![dump] = @ + 1]
    /\ UNCHANGED <<legacy, vmain, card, vtoken, vmm_key, vmm_index, walk,
                   limit, reruns, quiet, sight>>
MarkDone(fails) ==
    /\ scan = "mark" /\ scan' = "read" /\ MayFail(fails)
    /\ mark' = [mark EXCEPT ![dump] = IF fails THEN @ ELSE "done"]
    /\ reruns' = [reruns EXCEPT ![dump] = IF fails THEN @ + 1 ELSE @]
    /\ UNCHANGED <<legacy, vmain, mounted, trap, txt, istp, vtoken, event,
                   walk, crashes, reports, quiet, sight>>

AfterFull_Return == "none"   \* mutant
AfterFull == "notify"
RaiseFull ==
    /\ scan = "full" /\ scan' = AfterFull
    /\ vmain' = IF AfterFull = "none" /\ vmain = "busy" THEN "token" ELSE vmain
    /\ UNCHANGED <<legacy, card, vtoken, event, walk, limit, story, sight>>
LastRead ==
    /\ scan = "read" /\ unread = {} /\ scan' = "notify"
    /\ UNCHANGED <<legacy, vmain, card, vtoken, event, walk, limit, story, sight>>

(* notify_dataready_on_vmtrap.                                              *)
NotifyDataready ==
    /\ scan = "notify" /\ scan' = "clean"
    /\ vmm_key' = FALSE
    /\ UNCHANGED <<legacy, vmain, card, vtoken, crash_generated, vmm_index, walk, limit,
                   story, sight>>
(* PROP_ISTP_CLEAN asks to remove the .istp files, or not.                  *)
CleanIstp ==
    /\ scan = "clean" /\ scan' = "none" /\ Leaves
    /\ istp' \in {istp, {}}
    /\ UNCHANGED <<legacy, mounted, trap, txt, mark, vtoken, event, walk, limit,
                   story, sight>>
-----------------------------------------------------------------------------
SetVToken ==
    /\ vmain = "token" /\ vmain' = "loop" /\ vtoken' = TRUE
    /\ UNCHANGED <<legacy, scan, card, event, walk, limit, story, sight>>

(* The main loop goes on.                                                   *)
VLoop == vmain = "loop" /\ UNCHANGED vvars

(* early_check is made unless the token is set; a panic it found before is  *)
(* the crash of the boot.                                                   *)
StartVmm ==
    /\ vmain = "down" /\ vmain' = IF vtoken THEN "loop" ELSE "trap"
    /\ crash_generated' \in (IF vtoken THEN {FALSE} ELSE BOOLEAN)
    /\ crashes' = crashes + (IF crash_generated' THEN 1 ELSE 0)
    /\ vmm_key' = FALSE /\ vmm_index' = NoIndex
    /\ UNCHANGED <<legacy, scan, card, vtoken, walk, limit, reports, reruns, quiet,
                   sight>>

Ended ==
    /\ scan' = "none" /\ blind' = FALSE /\ missed' = FALSE
    /\ crash_generated' = FALSE /\ vmm_key' = FALSE
    /\ vmm_index' = NoIndex
    /\ unread' = {} /\ dump' = 0
    /\ reruns' = [d \in Dumps |->
                    IF scan = "mark" /\ d = dump THEN reruns[d] + 1 ELSE reruns[d]]
    /\ quiet' = IF legacy /\ scan = "dump" THEN quiet \cup {dump} ELSE quiet
EndVmm ==
    /\ vmain \notin {"down", "off"} /\ vmain' = "down"
    /\ vkills < MaxVKills /\ vkills' = vkills + 1
    /\ Ended
    /\ UNCHANGED <<legacy, card, vtoken, vboots, vfaults, crashes, reports>>

(* The device goes down; the hypervisor leaves dumps and a trap.            *)
DeviceDown ==
    /\ vmain # "off" /\ vmain' = "off" /\ vboots < MaxVBoots
    /\ Ended
    /\ mounted' = FALSE /\ trap' = NoTrap /\ vtoken' = FALSE /\ crashes' = 0
    /\ vkills' = 0
    /\ UNCHANGED <<legacy, txt, istp, mark, vboots, vfaults, reports>>
DeviceUp ==
    /\ vmain = "off" /\ vmain' = "down" /\ vboots' = vboots + 1
    /\ \E new \in SUBSET (Dumps \ txt) :
          /\ txt' = txt \cup new /\ istp' = istp \cup new
          /\ trap' \in {NoTrap, NoIndex} \cup new
    /\ mounted' \in BOOLEAN
    /\ UNCHANGED <<legacy, scan, mark, vtoken, event, walk, vkills, vfaults, story,
                   sight>>
Mount ==
    /\ vmain \notin {"off"} /\ ~mounted /\ mounted' = TRUE
    /\ UNCHANGED <<legacy, vmain, scan, trap, txt, istp, mark, vtoken, event,
                   walk, limit, story, sight>>

VInit ==
    /\ legacy \in BOOLEAN /\ vmain = "off" /\ scan = "none"
    /\ mounted = FALSE /\ trap = NoTrap /\ txt = {} /\ istp = {}
    /\ mark = [d \in Dumps |-> "none"] /\ vtoken = FALSE
    /\ crash_generated = FALSE /\ vmm_key = FALSE
    /\ vmm_index = NoIndex /\ unread = {} /\ dump = 0
    /\ vboots = 0 /\ vkills = 0 /\ vfaults = 0
    /\ crashes = 0 /\ reports = [d \in Dumps |-> 0] /\ reruns = reports
    /\ quiet = {} /\ blind = FALSE /\ missed = FALSE

\* What the daemon does by itself, its calls that fail apart.
VWork ==
    \/ Trap \/ NoTrapRead(FALSE) \/ CheckMounted(FALSE)
    \/ FirstLook(FALSE) \/ OpenMounts \/ CardFound
    \/ NoDirectory(FALSE) \/ OpenDirectory \/ LastRead
    \/ \E d \in Dumps : Skip(d) \/ Take(d)
    \/ DumpSilent \/ DumpEvent \/ MarkDone(FALSE)
    \/ RaiseFull \/ NotifyDataready \/ CleanIstp
VFails ==
    \/ NoTrapRead(TRUE) \/ CheckMounted(TRUE) \/ FirstLook(TRUE) \/ ChangeUnread
    \/ MonitorFails \/ NoDirectory(TRUE) \/ MarkDone(TRUE)
    \/ \E d \in Dumps : CardFull(d)
VNext ==
    \/ VWork \/ VFails \/ SetVToken \/ StartVmm \/ EndVmm
    \/ DeviceDown \/ DeviceUp \/ Mount \/ OtherMount \/ VLoop
VSpec == VInit /\ [][VNext]_vvars /\ WF_vvars(VWork)
-----------------------------------------------------------------------------
(* A dump whose mark says it was processed, or whose .istp crashlog_check_  *)
(* vmm has removed, was reported, over any kills: only a trap's folder took *)
(* it, it has no owner, the card was full, or, on sofia_legacy, the daemon  *)
(* was killed between its mark and its event.                               *)
DumpsTold ==
    \A d \in txt : mark[d] = "done" \/ d \notin istp =>
        \/ reports[d] > 0
        \/ d \in quiet
        \/ scan = "dump" /\ legacy /\ d = dump

(* generate_event_by_type makes one crash per boot ("we should generate     *)
(* only one crash per boot") unless a kill made the check run again, and    *)
(* one event per dump unless it could not be marked after its event.        *)
DumpsToldOnce ==
    /\ crashes <= 1 + vkills
    /\ \A d \in Dumps : reports[d] <= 1 + reruns[d]

(* What crashlog_check_vmmtrap makes of a trap and its dumps.               *)
VmmDumpsTold == DumpsTold /\ DumpsToldOnce

(* The event of a trap, raised with DATA_READY=0, is told ready once the    *)
(* card is there, also when it is full, unless the dumps cannot be looked   *)
(* at, the directory being missing or a call having failed, or the card was *)
(* mounted just before /proc/mounts was watched or went unread then.        *)
(* vmm_key is in memory: an event whose daemon ends before that is not      *)
(* followed further.                                                        *)
TrapDataReady == vmm_key /\ mounted ~> ~vmm_key \/ blind \/ missed
=============================================================================
