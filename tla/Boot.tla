-------------------------------- MODULE Boot --------------------------------
(***************************************************************************)
(* The checks crashlogd makes once per boot to report why the device went  *)
(* down (early_check and early_check_nomain of crashlog/main.c), and the   *)
(* token that tells a restart of the daemon from a boot                    *)
(* (check_crashlog_died of crashlog/crashutils.c).  Each check looks for   *)
(* what the last run of the system left behind, raises its event, and some *)
(* clear what they found.  The daemon may be killed between any two steps  *)
(* and is started again by init; the device may reboot at any time.        *)
(*                                                                         *)
(* The platform is fdk, efilinux or sofia_legacy (VmmTrap has sofia), the  *)
(* build has none of the options SSRAM_CRASHLOG, RAMDUMP_CRASHLOG and      *)
(* EARLY_LOGS, the daemon no option -test, and no event type is declared   *)
(* fake by property.  Error events that only qualify another event         *)
(* (IPANIC_CORRUPTED, CRASHLOG_SWWDT_MISSING) and what follows the report  *)
(* of the reboot (boot logs, iptrak) are left out.                         *)
(***************************************************************************)
EXTENDS Integers, FiniteSets

CONSTANTS
    Platforms,    \* values of CRASHLOGD_ARCH
    MaxToken,     \* length at which the token stops growing
    MaxEvidence,  \* bound: kinds of evidence left behind by one run
    MaxKills,     \* bound: ends of the daemon in one boot
    MaxBoots      \* bound: boots

ASSUME BootAssumption ==
    /\ Platforms \subseteq {"fdk", "efilinux", "sofia_legacy"}
    /\ MaxToken \in Nat /\ MaxToken >= 2
    /\ MaxEvidence \in Nat /\ MaxKills \in Nat /\ MaxBoots \in Nat

VARIABLES
    pc,         \* the check the daemon is at; down: it is not running, off: nor
                \* is the device
    arch,       \* CRASHLOGD_ARCH of the build
    mode,       \* g_crashlog_mode
    token,      \* vendor.crashlogd.token: number of ones, or Reset
    cause,      \* the startup reason of the boot
    fabric,     \* the fabric error of /proc
    dontpanic,  \* a console in PANIC_DIR
    panicfs,    \* the entries of emmc_ipanic: none, header, console (and header)
    ram,        \* the RAM console
    staged,     \* the consoles show a panic made on purpose
    kdump,      \* how far a kdump came
    modem,      \* MCD_PROCESSING: a modem crash was being handled
    recovery,   \* RECOVERY_ERROR_TRIGGER
    fake, watchdog, ipanic_generated,  \* of the running early_check
    boots,
    raised,     \* history: events raised in this boot, by kind
    gaveup,     \* history: a check of the panics ended without its event
    early, late \* history: ends of the daemon before and after its token

same      == <<arch, mode>>
found     == <<cause, fabric, dontpanic, ram, staged>>
files     == <<kdump, modem, recovery>>
locals    == <<fake, watchdog, ipanic_generated>>
ghosts    == <<gaveup, early, late>>
vars == <<pc, same, token, found, panicfs, files, locals, boots, raised, ghosts>>

Reset == -1   \* CRASHLOG_ERROR_RESET
Kinds == {"FABRIC", "IPANIC", "WDT", "KDUMP", "KDUMP_PART", "MDMCRASH",
          "RECOVERY", "REBOOT", "DEAD", "RESET"}
Before == {"fabric", "dontpanic", "panic", "ram", "header", "clear", "double",
           "kdump", "kdumpclean", "vmmtrap", "modem", "modemraise", "startup"}
After  == {"recovery", "recoveryclean", "reboot", "died", "dead", "reset",
           "monitor"}
Nominal == mode = "nominal"
Go(from, to) == pc = from /\ pc' = to
Raise(k)  == raised' = [raised EXCEPT ![k] = @ + 1]
-----------------------------------------------------------------------------
(* read_startupreason: what the reasons left by the boot loader come to.    *)
(* "COLD" stands for all the texts without WDT_, COUNTER for                *)
(* WDT_COUNTER_EXCEEDED, SWWDT and HWWDT for those that begin so.           *)
BootReasons == {"", "REBOOT", "WATCHDOG", "KERNEL_PANIC", "SECURITY_WATCHDOG",
                "PMIC_WATCHDOG", "EC_WATCHDOG", "PLATFORM_SPECIFIC", "GLOBAL"}
get_default_bootreason(prop) ==
    CASE prop \in {"WATCHDOG", "KERNEL_PANIC"} -> "SWWDT"
      [] prop \in {"", "REBOOT"} -> "COLD"
      [] OTHER -> "HWWDT"

\* A number the boot loader gave, or -1: none, or not one.
bootmode_reason(src) ==
    CASE src = 8 -> "SWWDT"
      [] src \in {9, 18, 19, 20} -> "HWWDT"
      [] src = 10 -> "COUNTER"
      [] OTHER -> "COLD"
get_fdk_startupreason(reason, wakesrc) ==
    IF reason = "SWWDT" \/ wakesrc \notin 0 .. 20 THEN reason
    ELSE bootmode_reason(wakesrc)

\* A wake source hides the source of the reset, also of a watchdog's.
reset_source(reason, rs) ==
    CASE rs = 4 -> "SWWDT"
      [] rs \in {5, 7, 8, 9} -> "HWWDT"
      [] rs \in {1, 2, 3, 6, 10} -> "COLD"
      [] OTHER -> reason
compute_uefi_startupreason(reason, rs, ws) ==
    IF ws \in 1 .. 6 THEN "COLD" ELSE reset_source(reason, rs)
uefivar_get_int(v) == v >= 0   \* the variable could be read
get_uefi_startupreason(reason, rs, ws) ==
    IF reason = "SWWDT" \/ ~uefivar_get_int(rs) \/ ~uefivar_get_int(ws) THEN reason
    ELSE compute_uefi_startupreason(reason, rs, ws)

StartupReasons ==
    LET default == {get_default_bootreason(p) : p \in BootReasons} IN
    CASE arch = "fdk" ->
            {get_fdk_startupreason(r, w) : r \in default, w \in -1 .. 21}
      [] arch = "efilinux" ->
            {get_uefi_startupreason(r, rs, ws) :
                r \in default, rs \in -1 .. 11, ws \in -1 .. 7}
      [] OTHER -> default
-----------------------------------------------------------------------------
(* crashlog_check_fabric and crashlog_check_fw_events.                      *)
FabricError ==
    /\ Go("fabric", "dontpanic") /\ fabric # "none"
    /\ fake' = (fake \/ (fabric = "fake" /\ cause = "HWWDT"))
    /\ Raise("FABRIC")
    /\ UNCHANGED <<same, token, found, panicfs, files, watchdog,
                   ipanic_generated, boots, ghosts>>

NoFabricError ==
    /\ Go("fabric", "dontpanic") /\ fabric = "none"
    /\ watchdog' = IF cause = "HWWDT" THEN "HWWDT_UNHANDLED" ELSE watchdog
    /\ UNCHANGED <<same, token, found, panicfs, files, fake, ipanic_generated,
                   boots, raised, ghosts>>

(* The part the panic checks share: set_ipanic_crashtype_and_reason, then   *)
(* the event, with or without a folder.                                     *)
Panic ==
    /\ fake' = (fake \/ staged)
    /\ ipanic_generated' = TRUE
    /\ Raise("IPANIC")
    /\ UNCHANGED <<same, token, found, panicfs, files, watchdog, boots, ghosts>>
Nothing == UNCHANGED <<same, token, found, panicfs, files, locals, boots, raised,
                       ghosts>>
GiveUp ==
    /\ gaveup' = TRUE
    /\ UNCHANGED <<same, token, found, panicfs, files, locals, boots, raised,
                   early, late>>

DontPanic        == Go("dontpanic", "clear") /\ dontpanic /\ Panic
\* no folder, the only check that then raises nothing; or no boot reason
DontPanicGivesUp == Go("dontpanic", "clear") /\ GiveUp
NoDontPanic      == Go("dontpanic", "panic") /\ ~dontpanic /\ Nothing

\* Mutant: no event without a folder.
EmmcPanic_FolderOnly ==
    /\ Go("panic", "clear") /\ panicfs = "console"
    /\ Panic \/ Nothing
EmmcPanic        == Go("panic", "clear") /\ panicfs = "console" /\ Panic
NoEmmcPanic      == Go("panic", "ram") /\ panicfs # "console" /\ Nothing

RamPanic         == Go("ram", "clear") /\ ram # "clean" /\ Panic
\* the search in the console fails
RamPanicGivesUp  == Go("ram", "clear") /\ GiveUp
NoRamPanic       == Go("ram", "header") /\ ram = "clean" /\ Nothing

PanicHeader      == Go("header", "clear") /\ panicfs # "none" /\ Panic
NoPanicHeader ==
    /\ Go("header", "clear") /\ panicfs = "none"
    /\ watchdog' = IF cause = "SWWDT" THEN "SWWDT_UNHANDLED" ELSE watchdog
    /\ UNCHANGED <<same, token, found, panicfs, files, fake, ipanic_generated,
                   boots, raised, ghosts>>

(* The end of crashlog_check_panic_events: the entries of /proc are         *)
(* cleared, a double panic is looked for in the RAM console.                *)
ClearPanicEntries ==
    /\ Go("clear", "double") /\ panicfs' = "none"
    /\ UNCHANGED <<same, token, found, files, locals, boots, raised, ghosts>>

AfterPanics   == IF Nominal THEN "kdump" ELSE "startup"
DoublePanic   == Go("double", AfterPanics) /\ ram = "double" /\ Panic
\* none, or the search fails
NoDoublePanic == Go("double", AfterPanics) /\ Nothing

(* crashlog_check_kdump.                                                    *)
KdumpUnfinished ==
    /\ Go("kdump", "vmmtrap") /\ kdump \in {"start", "file"}
    /\ Raise("KDUMP_PART")
    /\ UNCHANGED <<same, token, found, panicfs, files, locals, boots, ghosts>>
Kdump(next) ==   \* next: without a folder the flags stay
    /\ Go("kdump", next) /\ kdump = "finish"
    /\ Raise("KDUMP")
    /\ UNCHANGED <<same, token, found, panicfs, files, locals, boots, ghosts>>
KdumpClean ==
    /\ Go("kdumpclean", "vmmtrap") /\ kdump' = "none"
    /\ UNCHANGED <<same, token, found, panicfs, modem, recovery, locals, boots,
                   raised, ghosts>>
NoKdump == Go("kdump", "vmmtrap") /\ kdump = "none" /\ Nothing

(* crashlog_check_vmmtrap, empty but on sofia_legacy: a panic explains the  *)
(* watchdog.                                                                *)
\* Mutant: the watchdog is always explained.
VmmTrap_Always ==
    /\ Go("vmmtrap", "modem") /\ watchdog' = "WDT"
    /\ UNCHANGED <<same, token, found, panicfs, files, fake, ipanic_generated,
                   boots, raised, ghosts>>
VmmTrap ==
    /\ Go("vmmtrap", "modem")
    /\ watchdog' = IF arch = "sofia_legacy" /\ ipanic_generated THEN "WDT"
                   ELSE watchdog
    /\ UNCHANGED <<same, token, found, panicfs, files, fake, ipanic_generated,
                   boots, raised, ghosts>>

(* crashlog_check_mpanic_abort.                                             *)
ModemTaken ==
    /\ Go("modem", "modemraise") /\ modem /\ modem' = FALSE
    /\ UNCHANGED <<same, token, found, panicfs, kdump, recovery, locals, boots,
                   raised, ghosts>>
ModemNoFolder ==
    /\ Go("modem", "startup") /\ modem
    /\ Raise("MDMCRASH")
    /\ UNCHANGED <<same, token, found, panicfs, files, locals, boots, ghosts>>
ModemRaise ==
    /\ Go("modemraise", "startup")
    /\ Raise("MDMCRASH")
    /\ UNCHANGED <<same, token, found, panicfs, files, locals, boots, ghosts>>
NoModem == Go("modem", "startup") /\ ~modem /\ Nothing

(* crashlog_check_startupreason.                                            *)
Unhandled == cause # "COLD" /\ ~fake /\ watchdog # "WDT"
AfterStartup == IF Nominal THEN "recovery" ELSE "reboot"
StartupReason ==
    /\ Go("startup", AfterStartup) /\ Unhandled
    /\ Raise("WDT")
    /\ UNCHANGED <<same, token, found, panicfs, files, locals, boots, ghosts>>
NoStartupReason == Go("startup", AfterStartup) /\ ~Unhandled /\ Nothing

(* crashlog_check_recovery.                                                 *)
Recovery ==
    /\ Go("recovery", "recoveryclean") /\ recovery
    /\ Raise("RECOVERY")
    /\ UNCHANGED <<same, token, found, panicfs, files, locals, boots, ghosts>>
RecoveryClean ==
    /\ Go("recoveryclean", "reboot") /\ recovery' = FALSE
    /\ UNCHANGED <<same, token, found, panicfs, kdump, modem, locals, boots,
                   raised, ghosts>>
NoRecovery == Go("recovery", "reboot") /\ ~recovery /\ Nothing

(* The end of the early check: the event of the reboot itself.              *)
SysReboot ==
    /\ Go("reboot", "died")
    /\ Raise("REBOOT")
    /\ UNCHANGED <<same, token, found, panicfs, files, locals, boots, ghosts>>
-----------------------------------------------------------------------------
(* check_crashlog_died: the token after a reset is written after the event, *)
(* otherwise before it.                                                     *)
AfterDied(t) == IF t >= 2 THEN "dead" ELSE "monitor"

CountStart ==
    /\ Go("died", AfterDied(token + 1)) /\ token # Reset /\ token < MaxToken
    /\ token' = token + 1
    /\ UNCHANGED <<same, found, panicfs, files, locals, boots, raised, ghosts>>
Silent == Go("died", "monitor") /\ token = MaxToken /\ Nothing
RaiseDead ==
    /\ Go("dead", "monitor")
    /\ Raise("DEAD")
    /\ UNCHANGED <<same, token, found, panicfs, files, locals, boots, ghosts>>
RaiseReset ==
    /\ Go("died", "reset") /\ token = Reset
    /\ Raise("RESET")
    /\ UNCHANGED <<same, token, found, panicfs, files, locals, boots, ghosts>>
\* Mutant: the token is cleared instead.
ResetToken_Empty ==
    /\ Go("reset", "monitor") /\ token' = 0
    /\ UNCHANGED <<same, found, panicfs, files, locals, boots, raised, ghosts>>
ResetToken ==
    /\ Go("reset", "monitor") /\ token' = 1
    /\ UNCHANGED <<same, found, panicfs, files, locals, boots, raised, ghosts>>
-----------------------------------------------------------------------------
(* Start and end of the daemon and of the boot.                             *)

(* main: the early check is made unless the token says it was.              *)
Start ==
    /\ Go("down", IF token = 0 THEN "fabric" ELSE "died")
    /\ fake' = FALSE /\ watchdog' = "WDT" /\ ipanic_generated' = FALSE
    /\ UNCHANGED <<same, token, found, panicfs, files, boots, raised, ghosts>>

\* the checks of the boot are not through, or not noted in the token
Checking ==
    \/ pc \in Before \cup {"recovery", "recoveryclean", "reboot"}
    \/ pc = "died" /\ token = 0
Kill ==
    /\ pc \notin {"down", "off"} /\ pc' = "down" /\ early + late < MaxKills
    /\ IF Checking THEN early' = early + 1 /\ UNCHANGED late
                   ELSE late' = late + 1 /\ UNCHANGED early
    /\ UNCHANGED <<same, token, found, panicfs, files, locals, boots, raised,
                   gaveup>>

(* process_reset_event: a vital file was removed.                           *)
ProcessResetEvent ==
    /\ pc = "monitor" /\ pc' = "down" /\ early + late < MaxKills
    /\ token' = Reset /\ late' = late + 1
    /\ UNCHANGED <<same, found, panicfs, files, locals, boots, raised, gaveup,
                   early>>

(* What a run of the system leaves behind for the next boot, at most        *)
(* MaxEvidence kinds of it; a staged panic is one of the consoles.          *)
Count(b) == IF b THEN 1 ELSE 0
Evidence ==
    /\ mode' \in {"nominal", "minimal"}
    /\ cause' \in StartupReasons
    /\ fabric' \in {"none", "error", "fake"}
    /\ dontpanic' \in BOOLEAN
    /\ panicfs' \in {"none", "header", "console"}
    /\ ram' \in {"clean", "panic", "double"}
    /\ staged' \in BOOLEAN
    /\ staged' => dontpanic' \/ panicfs' # "none" \/ ram' # "clean"
    /\ Count(fabric' # "none") + Count(dontpanic') + Count(panicfs' # "none")
       + Count(ram' # "clean") + Count(kdump' # "none") + Count(modem')
       + Count(recovery') <= MaxEvidence
Volatile ==
    /\ token' = 0
    /\ fake' = FALSE /\ watchdog' = "WDT" /\ ipanic_generated' = FALSE
    /\ raised' = [k \in Kinds |-> 0]
    /\ gaveup' = FALSE /\ early' = 0 /\ late' = 0

(* The device goes down, at any time.                                       *)
PowerOff ==
    /\ pc # "off" /\ pc' = "off"
    /\ cause' = "COLD" /\ fabric' = "none" /\ dontpanic' = FALSE
    /\ panicfs' = "none" /\ ram' = "clean" /\ staged' = FALSE
    /\ mode' = "nominal" /\ Volatile
    /\ UNCHANGED <<arch, files, boots>>

(* The files of a kdump, a modem crash and a recovery stay until cleared.   *)
PowerOn ==
    /\ pc = "off" /\ pc' = "down"
    /\ boots < MaxBoots /\ boots' = boots + 1
    /\ kdump' \in (IF kdump = "none" THEN {"none", "start", "file", "finish"}
                                     ELSE {kdump})
    /\ modem' \in {TRUE, modem} /\ recovery' \in {TRUE, recovery}
    /\ Evidence /\ Volatile
    /\ UNCHANGED arch

Init ==
    /\ arch \in Platforms
    /\ pc = "off" /\ mode = "nominal" /\ token = 0
    /\ cause = "COLD" /\ fabric = "none" /\ dontpanic = FALSE
    /\ panicfs = "none" /\ ram = "clean" /\ staged = FALSE
    /\ kdump = "none" /\ modem = FALSE /\ recovery = FALSE
    /\ fake = FALSE /\ watchdog = "WDT" /\ ipanic_generated = FALSE
    /\ boots = 0 /\ raised = [k \in Kinds |-> 0]
    /\ gaveup = FALSE /\ early = 0 /\ late = 0

Next ==
    \/ Start \/ Kill \/ ProcessResetEvent \/ PowerOff \/ PowerOn
    \/ FabricError \/ NoFabricError
    \/ DontPanic \/ DontPanicGivesUp \/ NoDontPanic
    \/ EmmcPanic \/ NoEmmcPanic
    \/ RamPanic \/ RamPanicGivesUp \/ NoRamPanic
    \/ PanicHeader \/ NoPanicHeader
    \/ ClearPanicEntries \/ DoublePanic \/ NoDoublePanic
    \/ KdumpUnfinished \/ Kdump("kdumpclean") \/ Kdump("vmmtrap")
    \/ KdumpClean \/ NoKdump
    \/ VmmTrap
    \/ ModemTaken \/ ModemNoFolder \/ ModemRaise \/ NoModem
    \/ StartupReason \/ NoStartupReason
    \/ Recovery \/ RecoveryClean \/ NoRecovery
    \/ SysReboot
    \/ CountStart \/ Silent \/ RaiseDead \/ RaiseReset \/ ResetToken

Spec == Init /\ [][Next]_vars
-----------------------------------------------------------------------------
(* Type correctness; the token stops growing.                               *)
TypeOK ==
    /\ pc \in Before \cup After \cup {"down", "off"}
    /\ mode \in {"nominal", "minimal"} /\ token \in Reset .. MaxToken
    /\ arch \in Platforms /\ cause \in {"COLD", "COUNTER", "SWWDT", "HWWDT"}
    /\ fabric \in {"none", "error", "fake"} /\ dontpanic \in BOOLEAN
    /\ panicfs \in {"none", "header", "console"}
    /\ ram \in {"clean", "panic", "double"} /\ staged \in BOOLEAN
    /\ kdump \in {"none", "start", "file", "finish"}
    /\ modem \in BOOLEAN /\ recovery \in BOOLEAN
    /\ fake \in BOOLEAN /\ ipanic_generated \in BOOLEAN
    /\ watchdog \in {"WDT", "HWWDT_UNHANDLED", "SWWDT_UNHANDLED"}
    /\ boots \in Nat /\ raised \in [Kinds -> Nat]
    /\ gaveup \in BOOLEAN /\ early \in Nat /\ late \in Nat

(* A reset by a watchdog is always reported, by the fabric error or the     *)
(* panic that explains it or as unhandled, once the checks are through,     *)
(* over kills that make them run again on cleared evidence.  After a        *)
(* hardware watchdog this holds even when a check of the panics gave up.    *)
WatchdogReported ==
    pc \in After /\ (cause = "HWWDT" \/ (cause = "SWWDT" /\ ~gaveup)) =>
        raised["FABRIC"] + raised["IPANIC"] + raised["WDT"] > 0

(* A nominal boot whose checks were not interrupted blames a reset on a     *)
(* panic or on an unhandled watchdog, never on both, where                  *)
(* crashlog_check_vmmtrap is in the build.                                  *)
OneCause ==
    arch = "sofia_legacy" /\ Nominal /\ early = 0 =>
        raised["IPANIC"] = 0 \/ raised["WDT"] = 0

(* A reset is explained, and with one cause: the checks that follow one     *)
(* another in crashlog_check_startupreason and its siblings agree.          *)
ResetExplained == WatchdogReported /\ OneCause

(* What a check clears has been reported in this boot: the panic entries of *)
(* /proc (unless a check of the panics gave up), a kdump, a recovery.       *)
ClearedIsReported ==
    [][pc' # "off" =>
         /\ panicfs # "none" /\ panicfs' = "none" =>
               raised["IPANIC"] > 0 \/ gaveup
         /\ kdump # "none" /\ kdump' = "none" => raised["KDUMP"] > 0
         /\ recovery /\ ~recovery' => raised["RECOVERY"] > 0]_vars

(* Only an end of the daemon before its token is set makes an event of the  *)
(* boot repeat (a double panic is two of them).                             *)
RepeatsNeedKills ==
    \A k \in Kinds \ {"DEAD", "RESET"} :
        raised[k] <= (IF k = "IPANIC" THEN 2 ELSE 1) * (1 + early)

(* check_crashlog_died reports the daemon dead only if it died after its    *)
(* first start was through.                                                 *)
DeadHasDied == raised["DEAD"] <= late

(* No event is raised more often than what happened accounts for: the token *)
(* counts starts, and tells a repeated start of a boot from a new one.      *)
EventsAccounted == RepeatsNeedKills /\ DeadHasDied
=============================================================================
