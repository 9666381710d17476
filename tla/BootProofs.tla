----------------------------- MODULE BootProofs -----------------------------
(***************************************************************************)
(* Proofs about the checks crashlogd makes at its start: Boot,             *)
(* DeviceChecks, VmmDumps and Ingredients, which share no state.  They     *)
(* hold for every platform, length of the token, set of counters, files,   *)
(* dumps, modems and threads, and number of boots, kills and faults.       *)
(*                                                                         *)
(* Boot.  The checks of a boot are one pass, that a kill before the token  *)
(* makes start again.  BootInv says what a pass has done when it stands at *)
(* pc: where the token can be (TokenInv), how often a kind of event was    *)
(* raised, in the passes before this one and in this one (CountInv), what  *)
(* the locals of the pass and the events it raised know of the cause of    *)
(* the reset (CauseInv), and that a check about to clear has reported      *)
(* (ClearInv).                                                             *)
(*                                                                         *)
(* DeviceChecks.  SumInv relates the file of the checksum to what was      *)
(* told; EccInv orders, for each counter, the count of the kernel, the one *)
(* in the list, the one told and the one in the backup.                    *)
(*                                                                         *)
(* VmmDumps.  VInv says that a walk has told a dump or is still to come to *)
(* it, and that a dump reported and not marked is counted as a rerun.      *)
(*                                                                         *)
(* Ingredients.  IInv follows the names of the modems around: from the     *)
(* file to modem_config at the load, to the new list at the fetch, and     *)
(* back to the file, one thread at a time.                                 *)
(***************************************************************************)
EXTENDS Boot, DeviceChecks, VmmDumps, Ingredients, TLAPS
-----------------------------------------------------------------------------
(* The invariant of Boot. *)

\* The steps at which the current pass has not come to raise k.
UpToClear  == {"fabric", "dontpanic", "panic", "ram", "header"}
UpToKdump  == UpToClear \cup {"clear", "double", "kdump"}
UpToModem  == UpToKdump \cup {"kdumpclean", "vmmtrap", "modem", "modemraise"}
NotYet(k) ==
    CASE k = "FABRIC"   -> {"fabric"}
      [] k = "IPANIC"   -> UpToClear
      [] k \in {"KDUMP", "KDUMP_PART"} -> UpToKdump
      [] k = "MDMCRASH" -> UpToModem
      [] k = "WDT"      -> Before
      [] k = "RECOVERY" -> Before \cup {"recovery"}
      [] OTHER          -> Before \cup {"recovery", "recoveryclean", "reboot"}
OfBoot == Kinds \ {"DEAD", "RESET"}
Most(k) == IF k = "IPANIC" THEN 2 ELSE 1

\* No pass has begun, or the last one was cut short.
Again == pc = "down" /\ token = 0

TokenInv ==
    /\ pc \in Before \cup {"recovery", "recoveryclean", "reboot",
         "off"} => token = 0
    /\ pc = "dead" => token >= 2
    /\ pc = "reset" => token = Reset
    /\ pc = "monitor" => token >= 1
    /\ pc = "off" => panicfs = "none"

CountInv ==
    /\ \A k \in OfBoot :
          /\ raised[k] <= Most(k) * (1 + early)
          /\ Again \/ pc \in NotYet(k) => raised[k] <= Most(k) * early
    /\ pc \in {"clear", "double"} => raised["IPANIC"] <= 2 * early + 1
    /\ raised["DEAD"] <= late
    /\ pc = "dead" \/ (pc \in {"down",
         "died"} /\ token # 0) => raised["DEAD"] < late

Told == raised["FABRIC"] > 0 \/ raised["IPANIC"] > 0 \/ raised["WDT"] > 0
CauseInv ==
    /\ fake => Told
    /\ ipanic_generated => raised["IPANIC"] > 0
    /\ cause = "HWWDT" =>
          /\ pc \in Before \ {"fabric"} => Told \/ watchdog # "WDT"
          /\ pc \in After \/ token # 0 => Told
    /\ cause = "SWWDT" /\ ~gaveup =>
          /\ pc \in Before \ UpToClear => Told \/ watchdog # "WDT"
          /\ pc \in After \/ token # 0 => Told
    /\ early = 0 /\ pc \in Before /\ raised["IPANIC"] > 0 => ipanic_generated
    /\ arch = "sofia_legacy" /\ Nominal /\ pc \in {"modem", "modemraise", "startup"}
          /\ ipanic_generated => watchdog = "WDT"
    /\ arch = "sofia_legacy" /\ Nominal /\ early = 0 =>
          raised["IPANIC"] = 0 \/ raised["WDT"] = 0

ClearInv ==
    /\ pc = "clear" /\ panicfs # "none" => raised["IPANIC"] > 0 \/ gaveup
    /\ pc = "kdumpclean" => raised["KDUMP"] > 0
    /\ pc = "recoveryclean" => raised["RECOVERY"] > 0

BootInv == TypeOK /\ TokenInv /\ CountInv /\ CauseInv /\ ClearInv
-----------------------------------------------------------------------------
(* The invariants of DeviceChecks. *)
Loop == {"restore", "open", "save", "select", "handle", "fatal"}
BeforeEcc == {"down", "fw", "fwclear", "fwraise", "token", "sum", "sumraise",
          "sumopen", "sumwrite", "eccinit", "fatalinit"}

SumInv ==
    /\ at \in Running \cup {"down", "off"}
    /\ tree \in [Paths -> Contents]
    /\ sumfile \in {NoFile, Torn} \cup known
    /\ at \in {"sumopen", "sumwrite"} => checksum \in known
    /\ FactoryChangeTold

DeviceTypeOK ==
    /\ at \in Running \cup {"down", "off"}
    /\ edac \in [Counters -> Nat] /\ list \in [Counters -> Int]
    /\ backup \in [Counters -> Nat] /\ reported \in [Counters -> Nat]
    /\ excused \in [Counters -> Int] /\ stream \in [Counters -> Int]
    /\ left \subseteq Counters /\ fresh \subseteq Counters
    /\ foreign \in BOOLEAN /\ repeated \in BOOLEAN /\ exposed \in BOOLEAN
    /\ update \in BOOLEAN /\ faults \in Nat

\* The turn of the counter c in the walk of the list is still to come.
Waiting(c) == at \in {"restore", "fatal"} /\ c \in left

\* What is told and listed is what the kernel counted, and is up to date.
CountedInv(c) ==
    /\ reported[c] <= edac[c] /\ excused[c] <= edac[c]
    /\ at \in Loop => list[c] <= edac[c]
    /\ at \in BeforeEcc /\ edac[c] > 0 => c \in fresh
    /\ at \in Loop /\ edac[c] > 0 /\ c \notin fresh => list[c] = edac[c]
    /\ Waiting(c) /\ list[c] >= 0 => reported[c] <= list[c] /\ excused[c] <= list[c]

\* What is listed and gathered has been told, or excused.
ToldInv(c) ==
    /\ at \in Loop \ {"fatal"} /\ ~Waiting(c) /\ list[c] > 0 =>
          list[c] \in {reported[c], excused[c]}
    /\ at \in {"restore", "handle", "open", "save"} =>
          stream[c] <= reported[c] \/ stream[c] <= excused[c]
    /\ ~foreign => backup[c] <= reported[c] \/ backup[c] <= excused[c]

\* What keeps a count from being told again.
AgainInv(c) ==
    /\ at \in BeforeEcc \/ Waiting(c) => exposed \/ reported[c] <= backup[c]
    /\ at \in Loop => faults > 0 \/ reported[c] <= list[c]

CounterInv(c) == CountedInv(c) /\ ToldInv(c) /\ AgainInv(c)
EccInv ==
    /\ DeviceTypeOK
    /\ \A c \in Counters : CounterInv(c)
    /\ repeated => exposed \/ faults > 0
-----------------------------------------------------------------------------
(* Type correctness of Boot. *)
Reasons == {"COLD", "COUNTER", "SWWDT", "HWWDT"}

\* Whatever the boot loader left, read_startupreason comes to one of these.
LEMMA ReasonsKnown == StartupReasons \subseteq Reasons
<1>1. \A p : get_default_bootreason(p) \in {"COLD", "SWWDT", "HWWDT"}
  BY DEF get_default_bootreason
<1>2. \A r \in Reasons : \A w : get_fdk_startupreason(r, w) \in Reasons
  BY DEF get_fdk_startupreason, bootmode_reason, Reasons
<1>3. \A r \in Reasons : \A rs, ws : get_uefi_startupreason(r, rs, ws) \in Reasons
  BY DEF get_uefi_startupreason, compute_uefi_startupreason, reset_source, Reasons
<1>. QED BY <1>1, <1>2, <1>3 DEF StartupReasons, Reasons

\* One step per action, here and below.
LEMMA TypeStep == TypeOK /\ [Next]_vars => TypeOK'
<1>. SUFFICES ASSUME TypeOK, [Next]_vars PROVE TypeOK'
  OBVIOUS
<1>. USE BootAssumption DEF TypeOK, Before, After, Reset, Kinds, Nominal, Go, vars,
     same, found, files, locals, ghosts
<1>1. CASE Start
  <2>1. fake' \in BOOLEAN BY <1>1 DEF Start
  <2>2. ipanic_generated' \in BOOLEAN BY <1>1 DEF Start
  <2>. QED BY <1>1, <2>1, <2>2 DEF Start
<1>2. CASE Kill BY <1>2 DEF Kill, Checking
<1>3. CASE ProcessResetEvent BY <1>3 DEF ProcessResetEvent
<1>4. CASE PowerOff
  <2>1. fake' \in BOOLEAN BY <1>4 DEF PowerOff, Volatile
  <2>2. ipanic_generated' \in BOOLEAN BY <1>4 DEF PowerOff, Volatile
  <2>3. gaveup' \in BOOLEAN BY <1>4 DEF PowerOff, Volatile
  <2>4. dontpanic' \in BOOLEAN BY <1>4 DEF PowerOff
  <2>5. staged' \in BOOLEAN BY <1>4 DEF PowerOff
  <2>. QED BY <1>4, <2>1, <2>2, <2>3, <2>4, <2>5 DEF PowerOff, Volatile
<1>5. CASE PowerOn
  <2>1. fake' \in BOOLEAN BY <1>5 DEF PowerOn, Volatile
  <2>2. ipanic_generated' \in BOOLEAN BY <1>5 DEF PowerOn, Volatile
  <2>3. gaveup' \in BOOLEAN BY <1>5 DEF PowerOn, Volatile
  <2>4. modem' \in BOOLEAN BY <1>5 DEF PowerOn
  <2>5. recovery' \in BOOLEAN BY <1>5 DEF PowerOn
  <2>6. cause' \in Reasons BY <1>5, ReasonsKnown DEF PowerOn, Evidence
  <2>. QED BY <1>5, <2>1, <2>2, <2>3, <2>4, <2>5, <2>6 DEF PowerOn, Volatile,
       Evidence, Reasons
<1>6. CASE FabricError BY <1>6 DEF FabricError, Raise
<1>7. CASE NoFabricError BY <1>7 DEF NoFabricError
<1>8. CASE DontPanic BY <1>8 DEF DontPanic, Panic, Raise
<1>9. CASE DontPanicGivesUp BY <1>9 DEF DontPanicGivesUp, GiveUp
<1>10. CASE NoDontPanic BY <1>10 DEF NoDontPanic, Nothing
<1>11. CASE EmmcPanic BY <1>11 DEF EmmcPanic, Panic, Raise
<1>12. CASE NoEmmcPanic BY <1>12 DEF NoEmmcPanic, Nothing
<1>13. CASE RamPanic BY <1>13 DEF RamPanic, Panic, Raise
<1>14. CASE RamPanicGivesUp BY <1>14 DEF RamPanicGivesUp, GiveUp
<1>15. CASE NoRamPanic BY <1>15 DEF NoRamPanic, Nothing
<1>16. CASE PanicHeader BY <1>16 DEF PanicHeader, Panic, Raise
<1>17. CASE NoPanicHeader BY <1>17 DEF NoPanicHeader
<1>18. CASE ClearPanicEntries BY <1>18 DEF ClearPanicEntries
<1>19. CASE DoublePanic BY <1>19 DEF DoublePanic, Panic, Raise, AfterPanics
<1>20. CASE NoDoublePanic BY <1>20 DEF NoDoublePanic, Nothing, AfterPanics
<1>21. CASE KdumpUnfinished BY <1>21 DEF KdumpUnfinished, Raise
<1>22. CASE Kdump("kdumpclean") BY <1>22 DEF Kdump, Raise
<1>23. CASE Kdump("vmmtrap") BY <1>23 DEF Kdump, Raise
<1>24. CASE KdumpClean BY <1>24 DEF KdumpClean
<1>25. CASE NoKdump BY <1>25 DEF NoKdump, Nothing
<1>26. CASE VmmTrap BY <1>26 DEF VmmTrap
<1>27. CASE ModemTaken
  <2>1. modem' \in BOOLEAN BY <1>27 DEF ModemTaken
  <2>. QED BY <1>27, <2>1 DEF ModemTaken
<1>28. CASE ModemNoFolder BY <1>28 DEF ModemNoFolder, Raise
<1>29. CASE ModemRaise BY <1>29 DEF ModemRaise, Raise
<1>30. CASE NoModem BY <1>30 DEF NoModem, Nothing
<1>31. CASE StartupReason BY <1>31 DEF StartupReason, Raise, AfterStartup, Unhandled
<1>32. CASE NoStartupReason BY <1>32 DEF NoStartupReason, Nothing, AfterStartup,
     Unhandled
<1>33. CASE Recovery BY <1>33 DEF Recovery, Raise
<1>34. CASE RecoveryClean
  <2>1. recovery' \in BOOLEAN BY <1>34 DEF RecoveryClean
  <2>. QED BY <1>34, <2>1 DEF RecoveryClean
<1>35. CASE NoRecovery BY <1>35 DEF NoRecovery, Nothing
<1>36. CASE SysReboot BY <1>36 DEF SysReboot, Raise
<1>37. CASE CountStart BY <1>37 DEF CountStart, AfterDied
<1>38. CASE Silent BY <1>38 DEF Silent, Nothing
<1>39. CASE RaiseDead BY <1>39 DEF RaiseDead, Raise
<1>40. CASE RaiseReset BY <1>40 DEF RaiseReset, Raise
<1>41. CASE ResetToken BY <1>41 DEF ResetToken
<1>42. CASE UNCHANGED vars BY <1>42
<1>. QED BY <1>1, <1>2, <1>3, <1>4, <1>5, <1>6, <1>7, <1>8, <1>9, <1>10, <1>11,
     <1>12, <1>13, <1>14, <1>15, <1>16, <1>17, <1>18, <1>19, <1>20, <1>21, <1>22,
     <1>23, <1>24, <1>25, <1>26, <1>27, <1>28, <1>29, <1>30, <1>31, <1>32, <1>33,
     <1>34, <1>35, <1>36, <1>37, <1>38, <1>39, <1>40, <1>41, <1>42 DEF Next

LEMMA InitType == Init => TypeOK
<1>. SUFFICES ASSUME Init PROVE TypeOK
  OBVIOUS
<1>1. dontpanic \in BOOLEAN /\ staged \in BOOLEAN BY DEF Init
<1>2. modem \in BOOLEAN /\ recovery \in BOOLEAN BY DEF Init
<1>3. fake \in BOOLEAN /\ ipanic_generated \in BOOLEAN BY DEF Init
<1>4. gaveup \in BOOLEAN BY DEF Init
<1>. QED BY <1>1, <1>2, <1>3, <1>4, BootAssumption
     DEF Init, TypeOK, Before, After, Reset, Kinds

\* The state of the checks keeps its types, and the token stops growing.
THEOREM BootTypeCorrect == Spec => []TypeOK
<1>. QED BY InitType, TypeStep, PTL DEF Spec
-----------------------------------------------------------------------------
(* The steps of Boot keep its invariant. *)
\* The token is empty throughout a pass and set when it is through.
LEMMA TokenStep == TypeOK /\ TokenInv /\ [Next]_vars => TokenInv'
<1>. SUFFICES ASSUME TypeOK, TokenInv, [Next]_vars PROVE TokenInv'
  OBVIOUS
<1>. USE BootAssumption DEF TypeOK, Before, After, Reset, Kinds, TokenInv, Nominal,
     Go, vars, same, found, files, locals, ghosts
<1>1. CASE Start BY <1>1 DEF Start
<1>2. CASE Kill BY <1>2 DEF Kill, Checking
<1>3. CASE ProcessResetEvent BY <1>3 DEF ProcessResetEvent
<1>4. CASE PowerOff BY <1>4 DEF PowerOff, Volatile
<1>5. CASE PowerOn BY <1>5 DEF PowerOn, Volatile, Evidence
<1>6. CASE FabricError BY <1>6 DEF FabricError, Raise
<1>7. CASE NoFabricError BY <1>7 DEF NoFabricError
<1>8. CASE DontPanic BY <1>8 DEF DontPanic, Panic, Raise
<1>9. CASE DontPanicGivesUp BY <1>9 DEF DontPanicGivesUp, GiveUp
<1>10. CASE NoDontPanic BY <1>10 DEF NoDontPanic, Nothing
<1>11. CASE EmmcPanic BY <1>11 DEF EmmcPanic, Panic, Raise
<1>12. CASE NoEmmcPanic BY <1>12 DEF NoEmmcPanic, Nothing
<1>13. CASE RamPanic BY <1>13 DEF RamPanic, Panic, Raise
<1>14. CASE RamPanicGivesUp BY <1>14 DEF RamPanicGivesUp, GiveUp
<1>15. CASE NoRamPanic BY <1>15 DEF NoRamPanic, Nothing
<1>16. CASE PanicHeader BY <1>16 DEF PanicHeader, Panic, Raise
<1>17. CASE NoPanicHeader BY <1>17 DEF NoPanicHeader
<1>18. CASE ClearPanicEntries BY <1>18 DEF ClearPanicEntries
<1>19. CASE DoublePanic BY <1>19 DEF DoublePanic, Panic, Raise, AfterPanics
<1>20. CASE NoDoublePanic BY <1>20 DEF NoDoublePanic, Nothing, AfterPanics
<1>21. CASE KdumpUnfinished BY <1>21 DEF KdumpUnfinished, Raise
<1>22. CASE Kdump("kdumpclean") BY <1>22 DEF Kdump, Raise
<1>23. CASE Kdump("vmmtrap") BY <1>23 DEF Kdump, Raise
<1>24. CASE KdumpClean BY <1>24 DEF KdumpClean
<1>25. CASE NoKdump BY <1>25 DEF NoKdump, Nothing
<1>26. CASE VmmTrap BY <1>26 DEF VmmTrap
<1>27. CASE ModemTaken BY <1>27 DEF ModemTaken
<1>28. CASE ModemNoFolder BY <1>28 DEF ModemNoFolder, Raise
<1>29. CASE ModemRaise BY <1>29 DEF ModemRaise, Raise
<1>30. CASE NoModem BY <1>30 DEF NoModem, Nothing
<1>31. CASE StartupReason BY <1>31 DEF StartupReason, Raise, AfterStartup, Unhandled
<1>32. CASE NoStartupReason BY <1>32 DEF NoStartupReason, Nothing, AfterStartup,
     Unhandled
<1>33. CASE Recovery BY <1>33 DEF Recovery, Raise
<1>34. CASE RecoveryClean BY <1>34 DEF RecoveryClean
<1>35. CASE NoRecovery BY <1>35 DEF NoRecovery, Nothing
<1>36. CASE SysReboot BY <1>36 DEF SysReboot, Raise
<1>37. CASE CountStart BY <1>37 DEF CountStart, AfterDied
<1>38. CASE Silent BY <1>38 DEF Silent, Nothing
<1>39. CASE RaiseDead BY <1>39 DEF RaiseDead, Raise
<1>40. CASE RaiseReset BY <1>40 DEF RaiseReset, Raise
<1>41. CASE ResetToken BY <1>41 DEF ResetToken
<1>42. CASE UNCHANGED vars BY <1>42
<1>. QED BY <1>1, <1>2, <1>3, <1>4, <1>5, <1>6, <1>7, <1>8, <1>9, <1>10, <1>11,
     <1>12, <1>13, <1>14, <1>15, <1>16, <1>17, <1>18, <1>19, <1>20, <1>21, <1>22,
     <1>23, <1>24, <1>25, <1>26, <1>27, <1>28, <1>29, <1>30, <1>31, <1>32, <1>33,
     <1>34, <1>35, <1>36, <1>37, <1>38, <1>39, <1>40, <1>41, <1>42 DEF Next

\* A step raises at most one event, of a kind its pass has not raised yet.
LEMMA CountStep == TypeOK /\ TokenInv /\ CountInv /\ [Next]_vars => CountInv'
<1>. SUFFICES ASSUME TypeOK, TokenInv, CountInv, [Next]_vars PROVE CountInv'
  OBVIOUS
<1>. USE BootAssumption DEF TypeOK, Before, After, Reset, Kinds, TokenInv, CountInv,
     OfBoot, Most, Again, NotYet, UpToClear, UpToKdump, UpToModem, Nominal, Go,
     vars, same, found, files, locals, ghosts
<1>1. CASE Start BY <1>1 DEF Start
<1>2. CASE Kill BY <1>2 DEF Kill, Checking
<1>3. CASE ProcessResetEvent BY <1>3 DEF ProcessResetEvent
<1>4. CASE PowerOff BY <1>4 DEF PowerOff, Volatile
<1>5. CASE PowerOn BY <1>5 DEF PowerOn, Volatile, Evidence
<1>6. CASE FabricError BY <1>6 DEF FabricError, Raise
<1>7. CASE NoFabricError BY <1>7 DEF NoFabricError
<1>8. CASE DontPanic BY <1>8 DEF DontPanic, Panic, Raise
<1>9. CASE DontPanicGivesUp BY <1>9 DEF DontPanicGivesUp, GiveUp
<1>10. CASE NoDontPanic BY <1>10 DEF NoDontPanic, Nothing
<1>11. CASE EmmcPanic BY <1>11 DEF EmmcPanic, Panic, Raise
<1>12. CASE NoEmmcPanic BY <1>12 DEF NoEmmcPanic, Nothing
<1>13. CASE RamPanic BY <1>13 DEF RamPanic, Panic, Raise
<1>14. CASE RamPanicGivesUp BY <1>14 DEF RamPanicGivesUp, GiveUp
<1>15. CASE NoRamPanic BY <1>15 DEF NoRamPanic, Nothing
<1>16. CASE PanicHeader BY <1>16 DEF PanicHeader, Panic, Raise
<1>17. CASE NoPanicHeader
  <2>. PICK e \in {"clear"} : pc = "header" /\ pc' = e BY <1>17 DEF NoPanicHeader
  <2>. UNCHANGED <<token, raised, early, late>> BY <1>17 DEF NoPanicHeader
  <2>. QED OBVIOUS
<1>18. CASE ClearPanicEntries BY <1>18 DEF ClearPanicEntries
<1>19. CASE DoublePanic BY <1>19 DEF DoublePanic, Panic, Raise, AfterPanics
<1>20. CASE NoDoublePanic BY <1>20 DEF NoDoublePanic, Nothing, AfterPanics
<1>21. CASE KdumpUnfinished BY <1>21 DEF KdumpUnfinished, Raise
<1>22. CASE Kdump("kdumpclean") BY <1>22 DEF Kdump, Raise
<1>23. CASE Kdump("vmmtrap") BY <1>23 DEF Kdump, Raise
<1>24. CASE KdumpClean BY <1>24 DEF KdumpClean
<1>25. CASE NoKdump BY <1>25 DEF NoKdump, Nothing
<1>26. CASE VmmTrap BY <1>26 DEF VmmTrap
<1>27. CASE ModemTaken BY <1>27 DEF ModemTaken
<1>28. CASE ModemNoFolder BY <1>28 DEF ModemNoFolder, Raise
<1>29. CASE ModemRaise BY <1>29 DEF ModemRaise, Raise
<1>30. CASE NoModem BY <1>30 DEF NoModem, Nothing
<1>31. CASE StartupReason BY <1>31 DEF StartupReason, Raise, AfterStartup, Unhandled
<1>32. CASE NoStartupReason BY <1>32 DEF NoStartupReason, Nothing, AfterStartup,
     Unhandled
<1>33. CASE Recovery BY <1>33 DEF Recovery, Raise
<1>34. CASE RecoveryClean BY <1>34 DEF RecoveryClean
<1>35. CASE NoRecovery BY <1>35 DEF NoRecovery, Nothing
<1>36. CASE SysReboot BY <1>36 DEF SysReboot, Raise
<1>37. CASE CountStart BY <1>37 DEF CountStart, AfterDied
<1>38. CASE Silent BY <1>38 DEF Silent, Nothing
<1>39. CASE RaiseDead BY <1>39 DEF RaiseDead, Raise
<1>40. CASE RaiseReset BY <1>40 DEF RaiseReset, Raise
<1>41. CASE ResetToken BY <1>41 DEF ResetToken
<1>42. CASE UNCHANGED vars BY <1>42
<1>. QED BY <1>1, <1>2, <1>3, <1>4, <1>5, <1>6, <1>7, <1>8, <1>9, <1>10, <1>11,
     <1>12, <1>13, <1>14, <1>15, <1>16, <1>17, <1>18, <1>19, <1>20, <1>21, <1>22,
     <1>23, <1>24, <1>25, <1>26, <1>27, <1>28, <1>29, <1>30, <1>31, <1>32, <1>33,
     <1>34, <1>35, <1>36, <1>37, <1>38, <1>39, <1>40, <1>41, <1>42 DEF Next

\* A check that explains the reset also raises its event, and only then.
LEMMA CauseStep == TypeOK /\ TokenInv /\ CountInv /\ CauseInv /\ [Next]_vars => CauseInv'
<1>. SUFFICES ASSUME TypeOK, TokenInv, CountInv, CauseInv,
     [Next]_vars PROVE CauseInv'
  OBVIOUS
<1>. USE BootAssumption DEF TypeOK, Before, After, Reset, Kinds, TokenInv, CountInv,
     CauseInv, Told, OfBoot, Most, Again, NotYet, UpToClear, UpToKdump, UpToModem,
     Nominal, Go, vars, same, found, files, locals, ghosts
<1>1. CASE Start BY <1>1 DEF Start
<1>2. CASE Kill BY <1>2 DEF Kill, Checking
<1>3. CASE ProcessResetEvent BY <1>3 DEF ProcessResetEvent
<1>4. CASE PowerOff BY <1>4 DEF PowerOff, Volatile
<1>5. CASE PowerOn BY <1>5 DEF PowerOn, Volatile, Evidence
<1>6. CASE FabricError BY <1>6 DEF FabricError, Raise
<1>7. CASE NoFabricError BY <1>7 DEF NoFabricError
<1>8. CASE DontPanic BY <1>8 DEF DontPanic, Panic, Raise
<1>9. CASE DontPanicGivesUp BY <1>9 DEF DontPanicGivesUp, GiveUp
<1>10. CASE NoDontPanic BY <1>10 DEF NoDontPanic, Nothing
<1>11. CASE EmmcPanic BY <1>11 DEF EmmcPanic, Panic, Raise
<1>12. CASE NoEmmcPanic BY <1>12 DEF NoEmmcPanic, Nothing
<1>13. CASE RamPanic BY <1>13 DEF RamPanic, Panic, Raise
<1>14. CASE RamPanicGivesUp BY <1>14 DEF RamPanicGivesUp, GiveUp
<1>15. CASE NoRamPanic BY <1>15 DEF NoRamPanic, Nothing
<1>16. CASE PanicHeader BY <1>16 DEF PanicHeader, Panic, Raise
<1>17. CASE NoPanicHeader BY <1>17 DEF NoPanicHeader
<1>18. CASE ClearPanicEntries BY <1>18 DEF ClearPanicEntries
<1>19. CASE DoublePanic
  <2>1. CASE Nominal BY <1>19, <2>1 DEF DoublePanic, Panic, Raise, AfterPanics
  <2>2. CASE ~Nominal BY <1>19, <2>2 DEF DoublePanic, Panic, Raise, AfterPanics
  <2>. QED BY <2>1, <2>2
<1>20. CASE NoDoublePanic BY <1>20 DEF NoDoublePanic, Nothing, AfterPanics
<1>21. CASE KdumpUnfinished BY <1>21 DEF KdumpUnfinished, Raise
<1>22. CASE Kdump("kdumpclean") BY <1>22 DEF Kdump, Raise
<1>23. CASE Kdump("vmmtrap") BY <1>23 DEF Kdump, Raise
<1>24. CASE KdumpClean BY <1>24 DEF KdumpClean
<1>25. CASE NoKdump BY <1>25 DEF NoKdump, Nothing
<1>26. CASE VmmTrap BY <1>26 DEF VmmTrap
<1>27. CASE ModemTaken BY <1>27 DEF ModemTaken
<1>28. CASE ModemNoFolder BY <1>28 DEF ModemNoFolder, Raise
<1>29. CASE ModemRaise BY <1>29 DEF ModemRaise, Raise
<1>30. CASE NoModem BY <1>30 DEF NoModem, Nothing
<1>31. CASE StartupReason BY <1>31 DEF StartupReason, Raise, AfterStartup, Unhandled
<1>32. CASE NoStartupReason BY <1>32 DEF NoStartupReason, Nothing, AfterStartup,
     Unhandled
<1>33. CASE Recovery BY <1>33 DEF Recovery, Raise
<1>34. CASE RecoveryClean BY <1>34 DEF RecoveryClean
<1>35. CASE NoRecovery BY <1>35 DEF NoRecovery, Nothing
<1>36. CASE SysReboot BY <1>36 DEF SysReboot, Raise
<1>37. CASE CountStart BY <1>37 DEF CountStart, AfterDied
<1>38. CASE Silent BY <1>38 DEF Silent, Nothing
<1>39. CASE RaiseDead BY <1>39 DEF RaiseDead, Raise
<1>40. CASE RaiseReset BY <1>40 DEF RaiseReset, Raise
<1>41. CASE ResetToken BY <1>41 DEF ResetToken
<1>42. CASE UNCHANGED vars BY <1>42
<1>. QED BY <1>1, <1>2, <1>3, <1>4, <1>5, <1>6, <1>7, <1>8, <1>9, <1>10, <1>11,
     <1>12, <1>13, <1>14, <1>15, <1>16, <1>17, <1>18, <1>19, <1>20, <1>21, <1>22,
     <1>23, <1>24, <1>25, <1>26, <1>27, <1>28, <1>29, <1>30, <1>31, <1>32, <1>33,
     <1>34, <1>35, <1>36, <1>37, <1>38, <1>39, <1>40, <1>41, <1>42 DEF Next

\* The step before a check clears has raised its event, or gave up.
LEMMA ClearStep == TypeOK /\ TokenInv /\ ClearInv /\ [Next]_vars => ClearInv'
<1>. SUFFICES ASSUME TypeOK, TokenInv, ClearInv, [Next]_vars PROVE ClearInv'
  OBVIOUS
<1>. USE BootAssumption DEF TypeOK, Before, After, Reset, Kinds, ClearInv, Nominal,
     Go, vars, same, found, files, locals, ghosts
<1>1. CASE Start BY <1>1 DEF Start
<1>2. CASE Kill BY <1>2 DEF Kill, Checking
<1>3. CASE ProcessResetEvent BY <1>3 DEF ProcessResetEvent
<1>4. CASE PowerOff BY <1>4 DEF PowerOff, Volatile
<1>5. CASE PowerOn BY <1>5 DEF PowerOn, Volatile, Evidence
<1>6. CASE FabricError BY <1>6 DEF FabricError, Raise
<1>7. CASE NoFabricError BY <1>7 DEF NoFabricError
<1>8. CASE DontPanic BY <1>8 DEF DontPanic, Panic, Raise
<1>9. CASE DontPanicGivesUp BY <1>9 DEF DontPanicGivesUp, GiveUp
<1>10. CASE NoDontPanic BY <1>10 DEF NoDontPanic, Nothing
<1>11. CASE EmmcPanic BY <1>11 DEF EmmcPanic, Panic, Raise
<1>12. CASE NoEmmcPanic BY <1>12 DEF NoEmmcPanic, Nothing
<1>13. CASE RamPanic BY <1>13 DEF RamPanic, Panic, Raise
<1>14. CASE RamPanicGivesUp BY <1>14 DEF RamPanicGivesUp, GiveUp
<1>15. CASE NoRamPanic BY <1>15 DEF NoRamPanic, Nothing
<1>16. CASE PanicHeader BY <1>16 DEF PanicHeader, Panic, Raise
<1>17. CASE NoPanicHeader BY <1>17 DEF NoPanicHeader
<1>18. CASE ClearPanicEntries BY <1>18 DEF ClearPanicEntries
<1>19. CASE DoublePanic BY <1>19 DEF DoublePanic, Panic, Raise, AfterPanics
<1>20. CASE NoDoublePanic BY <1>20 DEF NoDoublePanic, Nothing, AfterPanics
<1>21. CASE KdumpUnfinished BY <1>21 DEF KdumpUnfinished, Raise
<1>22. CASE Kdump("kdumpclean") BY <1>22 DEF Kdump, Raise
<1>23. CASE Kdump("vmmtrap") BY <1>23 DEF Kdump, Raise
<1>24. CASE KdumpClean BY <1>24 DEF KdumpClean
<1>25. CASE NoKdump BY <1>25 DEF NoKdump, Nothing
<1>26. CASE VmmTrap BY <1>26 DEF VmmTrap
<1>27. CASE ModemTaken BY <1>27 DEF ModemTaken
<1>28. CASE ModemNoFolder BY <1>28 DEF ModemNoFolder, Raise
<1>29. CASE ModemRaise BY <1>29 DEF ModemRaise, Raise
<1>30. CASE NoModem BY <1>30 DEF NoModem, Nothing
<1>31. CASE StartupReason BY <1>31 DEF StartupReason, Raise, AfterStartup, Unhandled
<1>32. CASE NoStartupReason BY <1>32 DEF NoStartupReason, Nothing, AfterStartup,
     Unhandled
<1>33. CASE Recovery BY <1>33 DEF Recovery, Raise
<1>34. CASE RecoveryClean BY <1>34 DEF RecoveryClean
<1>35. CASE NoRecovery BY <1>35 DEF NoRecovery, Nothing
<1>36. CASE SysReboot BY <1>36 DEF SysReboot, Raise
<1>37. CASE CountStart BY <1>37 DEF CountStart, AfterDied
<1>38. CASE Silent BY <1>38 DEF Silent, Nothing
<1>39. CASE RaiseDead BY <1>39 DEF RaiseDead, Raise
<1>40. CASE RaiseReset BY <1>40 DEF RaiseReset, Raise
<1>41. CASE ResetToken BY <1>41 DEF ResetToken
<1>42. CASE UNCHANGED vars BY <1>42
<1>. QED BY <1>1, <1>2, <1>3, <1>4, <1>5, <1>6, <1>7, <1>8, <1>9, <1>10, <1>11,
     <1>12, <1>13, <1>14, <1>15, <1>16, <1>17, <1>18, <1>19, <1>20, <1>21, <1>22,
     <1>23, <1>24, <1>25, <1>26, <1>27, <1>28, <1>29, <1>30, <1>31, <1>32, <1>33,
     <1>34, <1>35, <1>36, <1>37, <1>38, <1>39, <1>40, <1>41, <1>42 DEF Next

LEMMA BootInvHolds == Spec => []BootInv
<1>1. Init => BootInv
  <2>. SUFFICES ASSUME Init PROVE BootInv
    OBVIOUS
  <2>. USE DEF Init, Before, After, Reset, Kinds
  <2>1. TypeOK BY InitType
  <2>2. TokenInv BY DEF TokenInv
  <2>3. CountInv
    BY DEF CountInv, OfBoot, Most, Again, NotYet, UpToClear, UpToKdump, UpToModem
  <2>4. CauseInv BY DEF CauseInv
  <2>5. ClearInv BY DEF ClearInv
  <2>. QED BY <2>1, <2>2, <2>3, <2>4, <2>5 DEF BootInv
<1>2. BootInv /\ [Next]_vars => BootInv'
  BY TypeStep, TokenStep, CountStep, CauseStep, ClearStep DEF BootInv
<1>. QED BY <1>1, <1>2, PTL DEF Spec

\* Whatever interrupts the checks and however often, a reset by a watchdog is
\* reported once they are through, and on sofia_legacy with one cause.
THEOREM ResetsExplained == Spec => []ResetExplained
<1>1. BootInv => ResetExplained
  <2>. SUFFICES ASSUME BootInv PROVE ResetExplained
    OBVIOUS
  <2>1. raised \in [Kinds -> Nat] BY DEF BootInv, TypeOK
  <2>2. WatchdogReported BY <2>1 DEF BootInv, CauseInv, Told, WatchdogReported,
       Kinds
  <2>3. OneCause BY DEF BootInv, CauseInv, OneCause
  <2>. QED BY <2>2, <2>3 DEF ResetExplained
<1>. QED BY <1>1, BootInvHolds, PTL

\* Events of the boot repeat only as often as the daemon ended before its token,
\* and it is told dead at most once for each later end.
THEOREM EventsCounted == Spec => []EventsAccounted
<1>1. BootInv => EventsAccounted
  BY DEF BootInv, CountInv, EventsAccounted, RepeatsNeedKills, DeadHasDied, OfBoot,
       Most
<1>. QED BY <1>1, BootInvHolds, PTL

\* The checks clear nothing that this boot has not reported.
THEOREM ClearedReported == Spec => ClearedIsReported
<1>. DEFINE Reported ==
       pc' # "off" =>
         /\ panicfs # "none" /\ panicfs' = "none" => raised["IPANIC"] > 0 \/ gaveup
         /\ kdump # "none" /\ kdump' = "none" => raised["KDUMP"] > 0
         /\ recovery /\ ~recovery' => raised["RECOVERY"] > 0
<1>1. BootInv /\ [Next]_vars => [Reported]_vars
  <2>. SUFFICES ASSUME BootInv, [Next]_vars PROVE Reported
    OBVIOUS
  <2>. USE DEF BootInv, TokenInv, ClearInv, Go, vars, same, found, files, locals,
       ghosts
  <2>1. CASE Start BY <2>1 DEF Start
  <2>2. CASE Kill BY <2>2 DEF Kill, Checking
  <2>3. CASE ProcessResetEvent BY <2>3 DEF ProcessResetEvent
  <2>4. CASE PowerOff BY <2>4 DEF PowerOff, Volatile
  <2>5. CASE PowerOn BY <2>5 DEF PowerOn, Volatile, Evidence
  <2>6. CASE FabricError BY <2>6 DEF FabricError, Raise
  <2>7. CASE NoFabricError BY <2>7 DEF NoFabricError
  <2>8. CASE DontPanic BY <2>8 DEF DontPanic, Panic, Raise
  <2>9. CASE DontPanicGivesUp BY <2>9 DEF DontPanicGivesUp, GiveUp
  <2>10. CASE NoDontPanic BY <2>10 DEF NoDontPanic, Nothing
  <2>11. CASE EmmcPanic BY <2>11 DEF EmmcPanic, Panic, Raise
  <2>12. CASE NoEmmcPanic BY <2>12 DEF NoEmmcPanic, Nothing
  <2>13. CASE RamPanic BY <2>13 DEF RamPanic, Panic, Raise
  <2>14. CASE RamPanicGivesUp BY <2>14 DEF RamPanicGivesUp, GiveUp
  <2>15. CASE NoRamPanic BY <2>15 DEF NoRamPanic, Nothing
  <2>16. CASE PanicHeader BY <2>16 DEF PanicHeader, Panic, Raise
  <2>17. CASE NoPanicHeader BY <2>17 DEF NoPanicHeader
  <2>18. CASE ClearPanicEntries BY <2>18 DEF ClearPanicEntries
  <2>19. CASE DoublePanic BY <2>19 DEF DoublePanic, Panic, Raise, AfterPanics
  <2>20. CASE NoDoublePanic BY <2>20 DEF NoDoublePanic, Nothing, AfterPanics
  <2>21. CASE KdumpUnfinished BY <2>21 DEF KdumpUnfinished, Raise
  <2>22. CASE Kdump("kdumpclean") BY <2>22 DEF Kdump, Raise
  <2>23. CASE Kdump("vmmtrap") BY <2>23 DEF Kdump, Raise
  <2>24. CASE KdumpClean BY <2>24 DEF KdumpClean
  <2>25. CASE NoKdump BY <2>25 DEF NoKdump, Nothing
  <2>26. CASE VmmTrap BY <2>26 DEF VmmTrap
  <2>27. CASE ModemTaken BY <2>27 DEF ModemTaken
  <2>28. CASE ModemNoFolder BY <2>28 DEF ModemNoFolder, Raise
  <2>29. CASE ModemRaise BY <2>29 DEF ModemRaise, Raise
  <2>30. CASE NoModem BY <2>30 DEF NoModem, Nothing
  <2>31. CASE StartupReason BY <2>31 DEF StartupReason, Raise, AfterStartup,
       Unhandled
  <2>32. CASE NoStartupReason BY <2>32 DEF NoStartupReason, Nothing, AfterStartup,
       Unhandled
  <2>33. CASE Recovery BY <2>33 DEF Recovery, Raise
  <2>34. CASE RecoveryClean BY <2>34 DEF RecoveryClean
  <2>35. CASE NoRecovery BY <2>35 DEF NoRecovery, Nothing
  <2>36. CASE SysReboot BY <2>36 DEF SysReboot, Raise
  <2>37. CASE CountStart BY <2>37 DEF CountStart, AfterDied
  <2>38. CASE Silent BY <2>38 DEF Silent, Nothing
  <2>39. CASE RaiseDead BY <2>39 DEF RaiseDead, Raise
  <2>40. CASE RaiseReset BY <2>40 DEF RaiseReset, Raise
  <2>41. CASE ResetToken BY <2>41 DEF ResetToken
  <2>42. CASE UNCHANGED vars BY <2>42
  <2>. QED BY <2>1, <2>2, <2>3, <2>4, <2>5, <2>6, <2>7, <2>8, <2>9, <2>10, <2>11,
       <2>12, <2>13, <2>14, <2>15, <2>16, <2>17, <2>18, <2>19, <2>20, <2>21, <2>22,
       <2>23, <2>24, <2>25, <2>26, <2>27, <2>28, <2>29, <2>30, <2>31, <2>32, <2>33,
       <2>34, <2>35, <2>36, <2>37, <2>38, <2>39, <2>40, <2>41, <2>42 DEF Next
<1>. QED BY <1>1, BootInvHolds, PTL DEF Spec, ClearedIsReported
-----------------------------------------------------------------------------
(* The checksum of the factory partition. *)

\* A file opened and not written holds no checksum.
LEMMA SumNotTorn ==
    ASSUME tree \in [Paths -> Contents], calculate_checksum = Torn
    PROVE  Torn = NoFile
<1>1. Paths = {}
  <2>. SUFFICES ASSUME NEW p \in Paths PROVE FALSE
    OBVIOUS
  <2>1. calculate_checksum[p] \in {"path", "a", "b"}
    BY DEF calculate_checksum, Fed, Contents
  <2>2. Torn[p] = "torn" BY DEF Torn
  <2>. QED BY <2>1, <2>2
<1>. QED BY <1>1 DEF Torn, NoFile

\* The file of the checksum never holds one that was not told.
LEMMA SumStep == SumInv /\ [DNext]_dvars => SumInv'
<1>. SUFFICES ASSUME SumInv, [DNext]_dvars PROVE SumInv'
  OBVIOUS
<1>. USE DEF SumInv, FactoryChangeTold, Running, dvars, start, factory, bounds
<1>1. CASE CheckFwUpdate BY <1>1 DEF CheckFwUpdate, AfterStatus
<1>2. CASE ClearFwUpdate BY <1>2 DEF ClearFwUpdate
<1>3. CASE RaiseFwUpdate BY <1>3 DEF RaiseFwUpdate
<1>4. CASE SetToken BY <1>4 DEF SetToken
<1>5. CASE CheckFactory
  <2>1. CASE checksum' = NoFile /\ at' = "eccinit" /\ known' = known
    BY <1>5, <2>1 DEF CheckFactory
  <2>2. ASSUME checksum' = calculate_checksum,
               at' = IF sumfile = NoFile THEN "sumopen"
                     ELSE IF Differs(checksum') THEN SumSteps.changed ELSE "eccinit",
               known' = IF sumfile = NoFile THEN known \cup {checksum'} ELSE known
        PROVE  SumInv'
    <3>1. UNCHANGED <<tree, sumfile>> BY <1>5 DEF CheckFactory
    <3>2. CASE sumfile = NoFile BY <2>2, <3>1, <3>2
    <3>3. CASE sumfile # NoFile /\ sumfile # checksum'
      BY <2>2, <3>1, <3>3 DEF Differs, SumSteps
    <3>4. CASE sumfile # NoFile /\ sumfile = checksum'
      <4>1. sumfile \in known BY <2>2, <3>4, SumNotTorn
      <4>. QED BY <2>2, <3>1, <3>4, <4>1 DEF Differs
    <3>. QED BY <3>2, <3>3, <3>4
  <2>. QED BY <1>5, <2>1, <2>2 DEF CheckFactory
<1>6. CASE RaiseFactory BY <1>6 DEF RaiseFactory, SumSteps
<1>7. CASE OpenSumFile BY <1>7 DEF OpenSumFile
<1>8. CASE WriteSumFile BY <1>8 DEF WriteSumFile, SumSteps
<1>9. CASE InitEcc BY <1>9 DEF InitEcc
<1>10. CASE RestoreEnd BY <1>10 DEF RestoreEnd
<1>11. CASE OpenBackup BY <1>11 DEF OpenBackup
<1>12. CASE SaveBackup BY <1>12 DEF SaveBackup
<1>13. CASE NextTurn BY <1>13 DEF NextTurn
<1>14. CASE EccCountEnd BY <1>14 DEF EccCountEnd
<1>15. CASE FatalEccEnd BY <1>15 DEF FatalEccEnd
<1>16. ASSUME NEW c \in Counters,
              RestoreCount(c) \/ EccCountHandle(c) \/ FatalEccCheck(c) \/ CountError(c)
       PROVE  SumInv'
  <2>. UNCHANGED <<at, factory>>
    BY <1>16 DEF RestoreCount, EccCountHandle, FatalEccCheck, CountError
  <2>. QED OBVIOUS
<1>17. CASE StartDaemon BY <1>17 DEF StartDaemon
<1>18. CASE EndDaemon BY <1>18 DEF EndDaemon
<1>19. CASE ShutDown BY <1>19 DEF ShutDown
<1>20. CASE SwitchOn BY <1>20 DEF SwitchOn
<1>21. CASE UNCHANGED dvars BY <1>21
<1>. QED
  BY <1>1, <1>2, <1>3, <1>4, <1>5, <1>6, <1>7, <1>8, <1>9, <1>10, <1>11, <1>12,
       <1>13,
     <1>14, <1>15, <1>16, <1>17, <1>18, <1>19, <1>20, <1>21 DEF DNext

\* A content of the factory partition the check has seen was told or was the
\* first, over any ends of the daemon, reboots and files that do not open.
THEOREM FactoryChangesTold == DSpec => []FactoryChangeTold
<1>1. DInit => SumInv
  BY DEF DInit, SumInv, FactoryChangeTold, Running, Contents
<1>2. SumInv => FactoryChangeTold BY DEF SumInv
<1>. QED BY <1>1, <1>2, SumStep, PTL DEF DSpec
-----------------------------------------------------------------------------
(* The memory errors. *)

\* ecc_event_handle moves the count told of one counter.
LEMMA Telling ==
    ASSUME DeviceTypeOK, NEW c \in Counters, NEW n \in Nat, ecc_event_handle(c, n)
    PROVE  /\ repeated' \in BOOLEAN /\ reported' \in [Counters -> Nat]
           /\ repeated' => repeated \/ n <= reported[c]
           /\ reported'[c] = IF n > reported[c] THEN n ELSE reported[c]
           /\ \A d \in Counters \ {c} : reported'[d] = reported[d]
<1>1. repeated' \in BOOLEAN BY DEF ecc_event_handle
<1>2. reported' \in [Counters -> Nat] BY DEF ecc_event_handle, DeviceTypeOK
<1>. QED BY <1>1, <1>2 DEF ecc_event_handle, DeviceTypeOK

\* The types of what the memory checks keep.
LEMMA DeviceTypeStep == DeviceTypeOK /\ [DNext]_dvars => DeviceTypeOK'
<1>. SUFFICES ASSUME DeviceTypeOK, [DNext]_dvars PROVE DeviceTypeOK'
  OBVIOUS
<1>. USE DEF DeviceTypeOK, dvars, start, factory, ecc, bounds, Running, Fault
<1>1. CASE CheckFwUpdate BY <1>1 DEF CheckFwUpdate, AfterStatus
<1>2. CASE ClearFwUpdate BY <1>2 DEF ClearFwUpdate
<1>3. CASE RaiseFwUpdate BY <1>3 DEF RaiseFwUpdate
<1>4. CASE SetToken BY <1>4 DEF SetToken
<1>5. CASE CheckFactory BY <1>5 DEF CheckFactory, SumSteps
<1>6. CASE RaiseFactory BY <1>6 DEF RaiseFactory, SumSteps
<1>7. CASE OpenSumFile BY <1>7 DEF OpenSumFile
<1>8. CASE WriteSumFile BY <1>8 DEF WriteSumFile, SumSteps
<1>9. CASE InitEcc
  <2>1. list' \in [Counters -> Int] /\ fresh' \subseteq Counters
    BY <1>9 DEF InitEcc, get_ecc_path, check_ecc_error
  <2>2. stream' \in [Counters -> Int] BY <1>9 DEF InitEcc, Absent
  <2>3. at' \in Running BY <1>9 DEF InitEcc
  <2>4. faults' \in Nat BY <1>9 DEF InitEcc, get_ecc_path
  <2>. QED BY <1>9, <2>1, <2>2, <2>3, <2>4 DEF InitEcc
<1>10. CASE RestoreEnd BY <1>10 DEF RestoreEnd
<1>11. CASE OpenBackup BY <1>11 DEF OpenBackup
<1>12. CASE SaveBackup
  <2>1. backup' \in [Counters -> Nat] BY <1>12 DEF SaveBackup, get_backup_count
  <2>2. foreign' \in BOOLEAN BY <1>12 DEF SaveBackup
  <2>. QED BY <1>12, <2>1, <2>2 DEF SaveBackup
<1>13. CASE NextTurn
  <2>1. update' \in BOOLEAN BY <1>13 DEF NextTurn
  <2>2. stream' \in [Counters -> Int] BY <1>13 DEF NextTurn, Absent
  <2>. QED BY <1>13, <2>1, <2>2 DEF NextTurn
<1>14. CASE EccCountEnd BY <1>14 DEF EccCountEnd
<1>15. CASE FatalEccEnd BY <1>15 DEF FatalEccEnd
<1>16. ASSUME NEW c \in Counters, RestoreCount(c) PROVE DeviceTypeOK'
  <2>1. repeated' \in BOOLEAN /\ reported' \in [Counters -> Nat]
    <3>1. CASE ecc_event_handle(c, list[c]) /\ Missed(c) BY <3>1, Telling DEF Missed
    <3>2. CASE UNCHANGED <<repeated, reported>> BY <3>2
    <3>. QED BY <1>16, <3>1, <3>2 DEF RestoreCount
  <2>2. stream' \in [Counters -> Int] /\ excused' \in [Counters -> Int]
    BY <1>16 DEF RestoreCount
  <2>. QED BY <1>16, <2>1, <2>2 DEF RestoreCount
<1>17. ASSUME NEW c \in Counters, EccCountHandle(c) PROVE DeviceTypeOK'
  <2>1. ASSUME NEW n \in Int, Handle(c, n)
        PROVE  /\ repeated' \in BOOLEAN /\ reported' \in [Counters -> Nat]
               /\ update' \in BOOLEAN
               /\ stream' \in [Counters -> Int] /\ list' \in [Counters -> Int]
    <3>1. CASE n > 0 /\ n > list[c]
      <4>1. repeated' \in BOOLEAN /\ reported' \in [Counters -> Nat]
        BY <2>1, <3>1, Telling DEF Handle
      <4>2. update' \in BOOLEAN BY <2>1, <3>1 DEF Handle
      <4>. QED BY <2>1, <3>1, <4>1, <4>2 DEF Handle
    <3>2. CASE ~(n > 0 /\ n > list[c])
      <4>1. UNCHANGED <<repeated, reported, update, list>> BY <2>1, <3>2 DEF Handle
      <4>2. stream' \in [Counters -> Int] BY <2>1, <3>2 DEF Handle
      <4>. QED BY <4>1, <4>2
    <3>. QED BY <3>1, <3>2
  <2>2. \A o : check_ecc_error(c, o) \in Int BY DEF check_ecc_error
  <2>3. PICK n \in Int : Handle(c, n) BY <1>17, <2>2 DEF EccCountHandle
  <2>4. UNCHANGED <<at, edac, backup, excused, foreign, exposed>> BY <1>17
       DEF EccCountHandle
  <2>5. left' \subseteq Counters /\ fresh' \subseteq Counters
    BY <1>17 DEF EccCountHandle, Handle
  <2>6. faults' \in Nat BY <1>17 DEF EccCountHandle, Handle, check_ecc_error
  <2>. QED BY <2>1, <2>3, <2>4, <2>5, <2>6
<1>18. ASSUME NEW c \in Counters, FatalEccCheck(c) PROVE DeviceTypeOK'
  <2>1. repeated' \in BOOLEAN /\ reported' \in [Counters -> Nat]
    <3>1. CASE ecc_event_handle(c, list[c]) /\ list[c] > 0 BY <3>1, Telling
    <3>2. CASE UNCHANGED <<repeated, reported>> BY <3>2
    <3>. QED BY <1>18, <3>1, <3>2 DEF FatalEccCheck
  <2>. QED BY <1>18, <2>1 DEF FatalEccCheck
<1>19. ASSUME NEW c \in Counters, CountError(c) PROVE DeviceTypeOK'
  BY <1>19 DEF CountError
<1>20. CASE StartDaemon BY <1>20 DEF StartDaemon
<1>21. CASE EndDaemon BY <1>21 DEF EndDaemon
<1>22. CASE ShutDown BY <1>22 DEF ShutDown
<1>23. CASE SwitchOn
  <2>1. repeated' \in BOOLEAN BY <1>23 DEF SwitchOn
  <2>2. exposed' \in BOOLEAN BY <1>23 DEF SwitchOn
  <2>3. foreign' \in BOOLEAN BY <1>23 DEF SwitchOn
  <2>. QED BY <1>23, <2>1, <2>2, <2>3 DEF SwitchOn
<1>24. CASE UNCHANGED dvars BY <1>24
<1>. QED
  BY <1>1, <1>2, <1>3, <1>4, <1>5, <1>6, <1>7, <1>8, <1>9, <1>10, <1>11,
     <1>12, <1>13, <1>14, <1>15, <1>16, <1>17, <1>18, <1>19, <1>20, <1>21,
     <1>22, <1>23, <1>24
  DEF DNext

\* A step moves the counts of one counter, in the order CounterInv states.
LEMMA CounterStep ==
    ASSUME DeviceTypeOK, DeviceTypeOK', [DNext]_dvars, NEW d \in Counters,
         CounterInv(d)
    PROVE  CounterInv(d)'
<1>. USE DEF DeviceTypeOK, CounterInv, CountedInv, ToldInv, AgainInv, Waiting, Loop,
     BeforeEcc,
         dvars, start, factory, ecc, bounds, Running, Fault
<1>1. CASE CheckFwUpdate BY <1>1 DEF CheckFwUpdate, AfterStatus
<1>2. CASE ClearFwUpdate BY <1>2 DEF ClearFwUpdate
<1>3. CASE RaiseFwUpdate BY <1>3 DEF RaiseFwUpdate
<1>4. CASE SetToken BY <1>4 DEF SetToken
<1>5. CASE CheckFactory BY <1>5 DEF CheckFactory, SumSteps
<1>6. CASE RaiseFactory BY <1>6 DEF RaiseFactory, SumSteps
<1>7. CASE OpenSumFile BY <1>7 DEF OpenSumFile
<1>8. CASE WriteSumFile BY <1>8 DEF WriteSumFile, SumSteps
<1>9. CASE InitEcc
  <2>1. list'[d] = edac[d] \/ (list'[d] = -1 /\ (d \in fresh => d \in fresh') /\ faults' > 0)
    <3>1. CASE get_ecc_path({}) BY <3>1 DEF get_ecc_path, check_ecc_error
    <3>2. ASSUME NEW c \in Counters, get_ecc_path({c}), Fault
          PROVE  list'[d] = edac[d]
                 \/ (list'[d] = -1 /\ (d \in fresh => d \in fresh') /\ faults' > 0)
      BY <3>2 DEF get_ecc_path, check_ecc_error
    <3>. QED BY <1>9, <3>1, <3>2 DEF InitEcc
  <2>2. stream'[d] = -2 BY <1>9 DEF InitEcc, Absent
  <2>3. left' = Counters /\ at' \in {"restore", "fatal"} /\ at \in {"eccinit",
       "fatalinit"}
    BY <1>9 DEF InitEcc
  <2>4. UNCHANGED <<edac, backup, reported, excused, foreign, exposed>>
    BY <1>9 DEF InitEcc
  <2>5. CountedInv(d)' BY <2>1, <2>3, <2>4
  <2>6. ToldInv(d)' BY <2>2, <2>3, <2>4
  <2>7. AgainInv(d)' BY <2>1, <2>3, <2>4
  <2>. QED BY <2>5, <2>6, <2>7
<1>10. CASE RestoreEnd BY <1>10 DEF RestoreEnd
<1>11. CASE OpenBackup BY <1>11 DEF OpenBackup
<1>12. CASE SaveBackup BY <1>12 DEF SaveBackup, get_backup_count
<1>13. CASE NextTurn BY <1>13 DEF NextTurn, Absent
<1>14. CASE EccCountEnd BY <1>14 DEF EccCountEnd
<1>15. CASE FatalEccEnd BY <1>15 DEF FatalEccEnd
<1>16. ASSUME NEW c \in Counters, RestoreCount(c) PROVE CounterInv(d)'
  <2>1. CASE c # d
    BY <1>16, <2>1 DEF RestoreCount, ecc_event_handle
  <2>2. CASE c = d
    BY <1>16, <2>2 DEF RestoreCount, ecc_event_handle, Missed
  <2>. QED BY <2>1, <2>2
<1>17. ASSUME NEW c \in Counters, EccCountHandle(c) PROVE CounterInv(d)'
  BY <1>17 DEF EccCountHandle, Handle, ecc_event_handle, check_ecc_error
<1>18. ASSUME NEW c \in Counters, FatalEccCheck(c) PROVE CounterInv(d)'
  BY <1>18 DEF FatalEccCheck, ecc_event_handle, Missed
<1>19. ASSUME NEW c \in Counters, CountError(c) PROVE CounterInv(d)'
  BY <1>19 DEF CountError
<1>20. CASE StartDaemon BY <1>20 DEF StartDaemon
<1>21. CASE EndDaemon
  <2>1. exposed' \/ ~(reported[d] > backup[d]) BY <1>21 DEF EndDaemon
  <2>2. UNCHANGED <<edac, reported, backup, excused, foreign>> BY <1>21
       DEF EndDaemon
  <2>3. at' = "down" /\ fresh' = {c \in Counters : edac[c] > 0} BY <1>21
       DEF EndDaemon
  <2>. QED BY <2>1, <2>2, <2>3
<1>22. CASE ShutDown BY <1>22 DEF ShutDown
<1>23. CASE SwitchOn BY <1>23 DEF SwitchOn
<1>24. CASE UNCHANGED dvars BY <1>24
<1>. QED
  BY <1>1, <1>2, <1>3, <1>4, <1>5, <1>6, <1>7, <1>8, <1>9, <1>10, <1>11,
     <1>12, <1>13, <1>14, <1>15, <1>16, <1>17, <1>18, <1>19, <1>20, <1>21,
     <1>22, <1>23, <1>24
  DEF DNext

\* A count is told again only as AgainInv allows.
LEMMA RepeatStep ==
    ASSUME DeviceTypeOK, DeviceTypeOK', [DNext]_dvars,
           \A c \in Counters : CounterInv(c), repeated => exposed \/ faults > 0
    PROVE  (repeated => exposed \/ faults > 0)'
<1>. USE DEF DeviceTypeOK, CounterInv, CountedInv, ToldInv, AgainInv, Waiting, Loop,
     BeforeEcc,
         dvars, start, factory, ecc, bounds, Running, Fault
<1>1. CASE CheckFwUpdate BY <1>1 DEF CheckFwUpdate, AfterStatus
<1>2. CASE ClearFwUpdate BY <1>2 DEF ClearFwUpdate
<1>3. CASE RaiseFwUpdate BY <1>3 DEF RaiseFwUpdate
<1>4. CASE SetToken BY <1>4 DEF SetToken
<1>5. CASE CheckFactory BY <1>5 DEF CheckFactory, SumSteps
<1>6. CASE RaiseFactory BY <1>6 DEF RaiseFactory, SumSteps
<1>7. CASE OpenSumFile BY <1>7 DEF OpenSumFile
<1>8. CASE WriteSumFile BY <1>8 DEF WriteSumFile, SumSteps
<1>9. CASE InitEcc BY <1>9 DEF InitEcc, get_ecc_path, check_ecc_error
<1>10. CASE RestoreEnd BY <1>10 DEF RestoreEnd
<1>11. CASE OpenBackup BY <1>11 DEF OpenBackup
<1>12. CASE SaveBackup BY <1>12 DEF SaveBackup, get_backup_count
<1>13. CASE NextTurn BY <1>13 DEF NextTurn, Absent
<1>14. CASE EccCountEnd BY <1>14 DEF EccCountEnd
<1>15. CASE FatalEccEnd BY <1>15 DEF FatalEccEnd
<1>16. ASSUME NEW c \in Counters,
     RestoreCount(c) PROVE (repeated => exposed \/ faults > 0)'
  <2>1. UNCHANGED <<exposed, faults>> BY <1>16 DEF RestoreCount
  <2>2. CASE ecc_event_handle(c, list[c]) /\ Missed(c)
    <3>1. list[c] \in Nat /\ (exposed \/ reported[c] < list[c])
      BY <1>16, <2>2 DEF RestoreCount, Missed
    <3>. QED BY <2>1, <2>2, <3>1, Telling
  <2>3. CASE UNCHANGED <<repeated, reported>> BY <2>1, <2>3
  <2>. QED BY <1>16, <2>2, <2>3 DEF RestoreCount
<1>17. ASSUME NEW c \in Counters,
     EccCountHandle(c) PROVE (repeated => exposed \/ faults > 0)'
  <2>1. UNCHANGED exposed /\ faults' >= faults
    BY <1>17 DEF EccCountHandle, Handle, check_ecc_error
  <2>2. PICK n \in Int : Handle(c, n)
    BY <1>17 DEF EccCountHandle, check_ecc_error
  <2>3. CASE n > 0 /\ n > list[c]
    <3>1. ecc_event_handle(c, n) BY <2>2, <2>3 DEF Handle
    <3>2. faults > 0 \/ reported[c] < n BY <1>17, <2>3 DEF EccCountHandle
    <3>. QED BY <2>1, <2>3, <3>1, <3>2, Telling
  <2>4. CASE ~(n > 0 /\ n > list[c])
    <3>1. repeated' = repeated BY <2>2, <2>4 DEF Handle
    <3>. QED BY <2>1, <3>1
  <2>. QED BY <2>3, <2>4
<1>18. ASSUME NEW c \in Counters,
     FatalEccCheck(c) PROVE (repeated => exposed \/ faults > 0)'
  <2>1. UNCHANGED <<exposed, faults>> BY <1>18 DEF FatalEccCheck
  <2>2. CASE ecc_event_handle(c, list[c]) /\ list[c] > 0 /\ Missed(c)
    <3>1. exposed \/ reported[c] < list[c] BY <1>18, <2>2 DEF FatalEccCheck, Missed
    <3>. QED BY <2>1, <2>2, <3>1, Telling
  <2>3. CASE UNCHANGED <<repeated, reported>> BY <2>1, <2>3
  <2>. QED BY <1>18, <2>2, <2>3 DEF FatalEccCheck
<1>19. ASSUME NEW c \in Counters,
     CountError(c) PROVE (repeated => exposed \/ faults > 0)'
  BY <1>19 DEF CountError
<1>20. CASE StartDaemon BY <1>20 DEF StartDaemon
<1>21. CASE EndDaemon BY <1>21 DEF EndDaemon
<1>22. CASE ShutDown BY <1>22 DEF ShutDown
<1>23. CASE SwitchOn BY <1>23 DEF SwitchOn
<1>24. CASE UNCHANGED dvars BY <1>24
<1>. QED
  BY <1>1, <1>2, <1>3, <1>4, <1>5, <1>6, <1>7, <1>8, <1>9, <1>10, <1>11,
     <1>12, <1>13, <1>14, <1>15, <1>16, <1>17, <1>18, <1>19, <1>20, <1>21,
     <1>22, <1>23, <1>24
  DEF DNext

\* A memory error a turn of the loop has read is told by its end, or hidden by
\* the backup of another boot, and is told again only after an end of the daemon
\* before its backup or after a fault.
THEOREM MemoryErrorsAreTold == DSpec => []MemoryErrorsTold
<1>1. DInit => EccInv
  <2>. SUFFICES ASSUME DInit PROVE EccInv
    OBVIOUS
  <2>1. foreign \in BOOLEAN /\ repeated \in BOOLEAN BY DEF DInit
  <2>2. exposed \in BOOLEAN /\ update \in BOOLEAN BY DEF DInit
  <2>3. DeviceTypeOK BY <2>1, <2>2 DEF DInit, DeviceTypeOK, Running, Absent
  <2>4. \A c \in Counters : CounterInv(c)
    BY DEF DInit, CounterInv, CountedInv, ToldInv, AgainInv, Waiting, Loop,
         BeforeEcc, Absent
  <2>. QED BY <2>3, <2>4 DEF DInit, EccInv
<1>2. EccInv /\ [DNext]_dvars => EccInv'
  BY DeviceTypeStep, CounterStep, RepeatStep DEF EccInv
<1>3. EccInv => MemoryErrorsTold
  BY DEF EccInv, DeviceTypeOK, CounterInv, CountedInv, ToldInv, Waiting, Loop,
       MemoryErrorsTold
<1>. QED BY <1>1, <1>2, <1>3, PTL DEF DSpec
-----------------------------------------------------------------------------
(* The invariant of VmmDumps. *)
Walking == {"read", "dump", "mark"}
Looking == {"start", "watch", "wait", "open"}
VTypeOK ==
    /\ vmain \in {"off", "down", "trap", "mounts", "busy", "token", "loop"}
    /\ scan \in {"none", "full", "notify", "clean"} \cup Looking \cup Walking
    /\ txt \subseteq Dumps /\ istp \subseteq txt
    /\ mark \in [Dumps -> {"none", "tmp", "done"}]
    /\ unread \subseteq txt
    /\ scan \in {"dump", "mark"} => dump \in txt
    /\ legacy \in BOOLEAN /\ crash_generated \in BOOLEAN
    /\ crashes \in Nat /\ vkills \in Nat
    /\ reports \in [Dumps -> Nat] /\ reruns \in [Dumps -> Nat]

\* A walk of the directory has told each dump, or is still to come to it.
Answered(d) == reports[d] > 0 \/ d \in quiet
WalkInv ==
    /\ vmain \in {"off", "down", "trap", "mounts"} => scan = "none"
    /\ scan = "mark" => Answered(dump)
    /\ \A d \in txt :
          \/ scan \in {"none"} \cup Looking
          \/ Answered(d)
          \/ scan \in Walking /\ d \in unread
          \/ scan = "dump" /\ d = dump
    /\ \A d \in Dumps \ txt : mark[d] = "none"

\* A dump reported and not marked is accounted for when it is left so.
OnceInv ==
    /\ crashes <= vkills + (IF crash_generated THEN 1 ELSE 0)
    /\ vmain \in {"off", "down"} => ~crash_generated
    /\ scan = "dump" /\ legacy => mark[dump] = "done"
    /\ scan = "mark" => ~legacy
    /\ \A d \in Dumps :
          /\ reports[d] <= 1 + reruns[d]
          /\ scan = "dump" /\ d = dump => reports[d] <= reruns[d]
          /\ mark[d] # "done" /\ ~(scan = "mark" /\ d = dump) => reports[d] <= reruns[d]

VInv == VTypeOK /\ DumpsTold /\ WalkInv /\ OnceInv
-----------------------------------------------------------------------------
(* The dumps of the hypervisor. *)

\* The types of what the walk keeps; the dumps at hand are on the card.
LEMMA VTypeStep == VTypeOK /\ WalkInv /\ [VNext]_vvars => VTypeOK'
<1>. SUFFICES ASSUME VTypeOK, WalkInv, [VNext]_vvars PROVE VTypeOK'
  OBVIOUS
<1>. USE DEF VTypeOK, WalkInv, Walking, Looking, vvars, card, event, walk, limit, story,
         sight
<1>1. CASE Trap
  <2>1. crash_generated' \in BOOLEAN BY <1>1 DEF Trap, OwnEvent
  <2>. QED BY <1>1, <2>1 DEF Trap, OwnEvent
<1>2. CASE NoTrapRead(FALSE) BY <1>2 DEF NoTrapRead, MayFail, VFault
<1>3. CASE NoTrapRead(TRUE) BY <1>3 DEF NoTrapRead, MayFail, VFault
<1>4. ASSUME NEW b \in BOOLEAN, CheckMounted(b) PROVE VTypeOK'
  BY <1>4 DEF CheckMounted, MayFail, VFault
<1>5. ASSUME NEW b \in BOOLEAN, FirstLook(b) PROVE VTypeOK'
  BY <1>5 DEF FirstLook, MayFail, VFault
<1>29. CASE OpenMounts \/ CardFound \/ OtherMount \/ ChangeUnread
  BY <1>29 DEF OpenMounts, CardFound, OtherMount, MountsChanged, ChangeUnread, VFault
<1>6. CASE MonitorFails BY <1>6 DEF MonitorFails, VFault
<1>7. CASE NoDirectory(FALSE) BY <1>7 DEF NoDirectory, Leaves, MayFail, VFault
<1>8. CASE NoDirectory(TRUE) BY <1>8 DEF NoDirectory, Leaves, MayFail, VFault
<1>9. CASE OpenDirectory BY <1>9 DEF OpenDirectory
<1>10. ASSUME NEW d \in Dumps, Skip(d) PROVE VTypeOK'
  BY <1>10 DEF Skip, Skipped
<1>11. ASSUME NEW d \in Dumps, Take(d) PROVE VTypeOK'
  BY <1>11 DEF Take, Skipped, FirstMark
<1>12. ASSUME NEW d \in Dumps, CardFull(d) PROVE VTypeOK'
  BY <1>12 DEF CardFull, Skipped, VFault
<1>13. CASE DumpSilent BY <1>13 DEF DumpSilent, AfterDump
<1>14. CASE DumpEvent
  <2>1. crash_generated' \in BOOLEAN BY <1>14 DEF DumpEvent, OwnEvent
  <2>. QED BY <1>14, <2>1 DEF DumpEvent, AfterDump, OwnEvent
<1>15. CASE MarkDone(FALSE) BY <1>15 DEF MarkDone, MayFail, VFault
<1>16. CASE MarkDone(TRUE) BY <1>16 DEF MarkDone, MayFail, VFault
<1>17. CASE RaiseFull BY <1>17 DEF RaiseFull, AfterFull
<1>18. CASE LastRead BY <1>18 DEF LastRead
<1>19. CASE NotifyDataready BY <1>19 DEF NotifyDataready
<1>20. CASE CleanIstp BY <1>20 DEF CleanIstp, Leaves
<1>21. CASE SetVToken BY <1>21 DEF SetVToken
<1>22. CASE StartVmm
  <2>1. crash_generated' \in BOOLEAN BY <1>22 DEF StartVmm
  <2>. QED BY <1>22, <2>1 DEF StartVmm
<1>23. CASE EndVmm
  <2>1. crash_generated' \in BOOLEAN BY <1>23 DEF EndVmm, Ended
  <2>. QED BY <1>23, <2>1 DEF EndVmm, Ended
<1>24. CASE DeviceDown
  <2>1. crash_generated' \in BOOLEAN BY <1>24 DEF DeviceDown, Ended
  <2>. QED BY <1>24, <2>1 DEF DeviceDown, Ended
<1>25. CASE DeviceUp BY <1>25 DEF DeviceUp
<1>26. CASE Mount BY <1>26 DEF Mount
<1>27. CASE VLoop BY <1>27 DEF VLoop
<1>28. CASE UNCHANGED vvars BY <1>28
<1>. QED
  BY <1>1, <1>2, <1>3, <1>4, <1>5, <1>6, <1>7, <1>8, <1>9, <1>10, <1>11,
     <1>12, <1>13, <1>14, <1>15, <1>16, <1>17, <1>18, <1>19, <1>20, <1>21,
     <1>22, <1>23, <1>24, <1>25, <1>26, <1>27, <1>28, <1>29
  DEF VNext, VWork, VFails

\* What was marked or cleaned up, and what the walk has passed, is told.
LEMMA WalkStep ==
    ASSUME VTypeOK, VTypeOK', DumpsTold, WalkInv, [VNext]_vvars
    PROVE  DumpsTold' /\ WalkInv'
<1>. USE DEF VTypeOK, DumpsTold, WalkInv, Answered, Walking, Looking, vvars, card, event, walk, limit,
         story, sight
<1>1. CASE Trap BY <1>1 DEF Trap, OwnEvent
<1>2. CASE NoTrapRead(FALSE) BY <1>2 DEF NoTrapRead, MayFail, VFault
<1>3. CASE NoTrapRead(TRUE) BY <1>3 DEF NoTrapRead, MayFail, VFault
<1>4. ASSUME NEW b \in BOOLEAN, CheckMounted(b) PROVE DumpsTold' /\ WalkInv'
  <2>1. scan = "none" /\ vmain' \in {"busy", "token"} /\ scan' \in {"open", "start"}
        /\ UNCHANGED <<card, event, walk, vkills, story, legacy>>
    BY <1>4 DEF CheckMounted, MayFail, VFault
  <2>. QED BY <2>1
<1>5. ASSUME NEW b \in BOOLEAN, FirstLook(b) PROVE DumpsTold' /\ WalkInv'
  BY <1>5 DEF FirstLook, MayFail, VFault
<1>29. CASE OpenMounts \/ CardFound \/ OtherMount \/ ChangeUnread
  BY <1>29 DEF OpenMounts, CardFound, OtherMount, MountsChanged, ChangeUnread, VFault
<1>6. CASE MonitorFails BY <1>6 DEF MonitorFails, VFault
<1>7. CASE NoDirectory(FALSE) BY <1>7 DEF NoDirectory, Leaves, MayFail, VFault
<1>8. CASE NoDirectory(TRUE) BY <1>8 DEF NoDirectory, Leaves, MayFail, VFault
<1>9. CASE OpenDirectory BY <1>9 DEF OpenDirectory
<1>10. ASSUME NEW d \in Dumps, Skip(d) PROVE DumpsTold' /\ WalkInv'
  BY <1>10 DEF Skip, Skipped
<1>11. ASSUME NEW d \in Dumps, Take(d) PROVE DumpsTold' /\ WalkInv'
  BY <1>11 DEF Take, Skipped, FirstMark
<1>12. ASSUME NEW d \in Dumps, CardFull(d) PROVE DumpsTold' /\ WalkInv'
  BY <1>12 DEF CardFull, Skipped, VFault
<1>13. CASE DumpSilent BY <1>13 DEF DumpSilent, AfterDump
<1>14. CASE DumpEvent BY <1>14 DEF DumpEvent, AfterDump, OwnEvent
<1>15. CASE MarkDone(FALSE) BY <1>15 DEF MarkDone, MayFail, VFault
<1>16. CASE MarkDone(TRUE) BY <1>16 DEF MarkDone, MayFail, VFault
<1>17. CASE RaiseFull BY <1>17 DEF RaiseFull, AfterFull
<1>18. CASE LastRead BY <1>18 DEF LastRead
<1>19. CASE NotifyDataready BY <1>19 DEF NotifyDataready
<1>20. CASE CleanIstp BY <1>20 DEF CleanIstp, Leaves
<1>21. CASE SetVToken BY <1>21 DEF SetVToken
<1>22. CASE StartVmm BY <1>22 DEF StartVmm
<1>23. CASE EndVmm BY <1>23 DEF EndVmm, Ended
<1>24. CASE DeviceDown BY <1>24 DEF DeviceDown, Ended
<1>25. CASE DeviceUp BY <1>25 DEF DeviceUp
<1>26. CASE Mount BY <1>26 DEF Mount
<1>27. CASE VLoop BY <1>27 DEF VLoop
<1>28. CASE UNCHANGED vvars BY <1>28
<1>. QED
  BY <1>1, <1>2, <1>3, <1>4, <1>5, <1>6, <1>7, <1>8, <1>9, <1>10, <1>11,
     <1>12, <1>13, <1>14, <1>15, <1>16, <1>17, <1>18, <1>19, <1>20, <1>21,
     <1>22, <1>23, <1>24, <1>25, <1>26, <1>27, <1>28, <1>29
  DEF VNext, VWork, VFails

\* A step that reports is undone by none: it leads to the mark, or is counted.
LEMMA OnceStep ==
    ASSUME VTypeOK, VTypeOK', WalkInv, OnceInv, [VNext]_vvars
    PROVE  OnceInv'
<1>. USE DEF VTypeOK, WalkInv, OnceInv, Walking, Looking, vvars, card, event, walk, limit,
         story, sight
<1>1. CASE Trap BY <1>1 DEF Trap, OwnEvent
<1>2. CASE NoTrapRead(FALSE) BY <1>2 DEF NoTrapRead, MayFail, VFault
<1>3. CASE NoTrapRead(TRUE) BY <1>3 DEF NoTrapRead, MayFail, VFault
<1>4. ASSUME NEW b \in BOOLEAN, CheckMounted(b) PROVE OnceInv'
  <2>1. scan = "none" /\ vmain' \in {"busy", "token"} /\ scan' \in {"open", "start"}
        /\ UNCHANGED <<card, event, walk, vkills, story, legacy>>
    BY <1>4 DEF CheckMounted, MayFail, VFault
  <2>. QED BY <2>1
<1>5. ASSUME NEW b \in BOOLEAN, FirstLook(b) PROVE OnceInv'
  BY <1>5 DEF FirstLook, MayFail, VFault
<1>29. CASE OpenMounts \/ CardFound \/ OtherMount \/ ChangeUnread
  BY <1>29 DEF OpenMounts, CardFound, OtherMount, MountsChanged, ChangeUnread, VFault
<1>6. CASE MonitorFails BY <1>6 DEF MonitorFails, VFault
<1>7. CASE NoDirectory(FALSE) BY <1>7 DEF NoDirectory, Leaves, MayFail, VFault
<1>8. CASE NoDirectory(TRUE) BY <1>8 DEF NoDirectory, Leaves, MayFail, VFault
<1>9. CASE OpenDirectory BY <1>9 DEF OpenDirectory
<1>10. ASSUME NEW d \in Dumps, Skip(d) PROVE OnceInv'
  BY <1>10 DEF Skip, Skipped
<1>11. ASSUME NEW d \in Dumps, Take(d) PROVE OnceInv'
  BY <1>11 DEF Take, Skipped, FirstMark
<1>12. ASSUME NEW d \in Dumps, CardFull(d) PROVE OnceInv'
  BY <1>12 DEF CardFull, Skipped, VFault
<1>13. CASE DumpSilent BY <1>13 DEF DumpSilent, AfterDump
<1>14. CASE DumpEvent BY <1>14 DEF DumpEvent, AfterDump, OwnEvent
<1>15. CASE MarkDone(FALSE) BY <1>15 DEF MarkDone, MayFail, VFault
<1>16. CASE MarkDone(TRUE) BY <1>16 DEF MarkDone, MayFail, VFault
<1>17. CASE RaiseFull BY <1>17 DEF RaiseFull, AfterFull
<1>18. CASE LastRead BY <1>18 DEF LastRead
<1>19. CASE NotifyDataready BY <1>19 DEF NotifyDataready
<1>20. CASE CleanIstp BY <1>20 DEF CleanIstp, Leaves
<1>21. CASE SetVToken BY <1>21 DEF SetVToken
<1>22. CASE StartVmm BY <1>22 DEF StartVmm
<1>23. CASE EndVmm BY <1>23 DEF EndVmm, Ended
<1>24. CASE DeviceDown BY <1>24 DEF DeviceDown, Ended
<1>25. CASE DeviceUp BY <1>25 DEF DeviceUp
<1>26. CASE Mount BY <1>26 DEF Mount
<1>27. CASE VLoop BY <1>27 DEF VLoop
<1>28. CASE UNCHANGED vvars BY <1>28
<1>. QED
  BY <1>1, <1>2, <1>3, <1>4, <1>5, <1>6, <1>7, <1>8, <1>9, <1>10, <1>11,
     <1>12, <1>13, <1>14, <1>15, <1>16, <1>17, <1>18, <1>19, <1>20, <1>21,
     <1>22, <1>23, <1>24, <1>25, <1>26, <1>27, <1>28, <1>29
  DEF VNext, VWork, VFails

\* A dump marked or cleaned up was reported, or kept without an event for one of
\* the reasons DumpsTold names, and a boot has one crash and a dump one event,
\* but for the kills and failures that DumpsToldOnce counts.
THEOREM VmmDumpsAreTold == VSpec => []VmmDumpsTold
<1>1. VInit => VInv
  <2>. SUFFICES ASSUME VInit PROVE VInv
    OBVIOUS
  <2>1. crash_generated \in BOOLEAN BY DEF VInit
  <2>2. VTypeOK BY <2>1 DEF VInit, VTypeOK, Walking, Looking
  <2>3. DumpsTold /\ WalkInv BY DEF VInit, DumpsTold, WalkInv
  <2>4. OnceInv BY DEF VInit, OnceInv
  <2>. QED BY <2>2, <2>3, <2>4 DEF VInv
<1>2. VInv /\ [VNext]_vvars => VInv'
  BY VTypeStep, WalkStep, OnceStep DEF VInv
<1>3. VInv => VmmDumpsTold
  BY DEF VInv, VTypeOK, OnceInv, Looking, VmmDumpsTold, DumpsToldOnce
<1>. QED BY <1>1, <1>2, <1>3, PTL DEF VSpec
-----------------------------------------------------------------------------
(* The invariant of Ingredients. *)
Texts == Names \cup {"unknown", "long", "piece", "absent", "null", "no file"}
Steps == {"out", "load", "fetch", "compare", "dump", "write", "free", "assign"}
ITypeOK ==
    /\ prop \in [Keys -> Texts] /\ value \in [Modems -> Texts]
    /\ \A m \in Modems : prop[m] \in Names \cup {Unknown}
    /\ file \in [Keys -> Texts] /\ had \subseteq Modems
    /\ step \in [Threads -> Steps] /\ new \in [Threads -> [Keys -> Texts]]
    /\ overlap \in BOOLEAN

\* The list L has a name of each modem in M.
Named(L, M) == \A m \in M : L[m] \in Names

\* One check at a time: whoever is in it works for all of them.
OneCheck == \A t, u \in Threads : step[t] = "out" \/ step[u] = "out" \/ t = u

\* What a thread in the check knows: after the load, the names the file has held;
\* in new_values, no name but those of modem_config.
CheckInv(t) ==
    /\ step[t] \notin {"out", "load"} => Named(value, had)
    /\ step[t] \in {"compare", "dump", "write"} =>
          /\ Named(new[t], had)
          /\ \A m \in Modems : new[t][m] \in Names => value[m] \in Names
    /\ step[t] = "write" => file = Empty

NamesInv ==
    ~overlap /\ lost = {} =>
        /\ OneCheck
        /\ Named(file, had) \/ \E t \in Threads : step[t] = "write"
        /\ old # Null => Named(value, had)
        /\ \A t \in Threads : CheckInv(t)

IInv == ITypeOK /\ NamesInv
-----------------------------------------------------------------------------
(* The names of the modems in ingredients.txt. *)

\* The types of the configuration; a modem reports a name or nothing.
LEMMA ITypeStep == ITypeOK /\ [INext]_ivars => ITypeOK'
<1>. SUFFICES ASSUME ITypeOK, [INext]_ivars PROVE ITypeOK'
  OBVIOUS
<1>. USE IngredientsAssumption DEF ITypeOK, ivars, config, iptrak, limits, Keys, Texts, Steps,
         Unknown, Long, Null, NoText, Empty
<1>1. ASSUME NEW t \in Threads, Enter(t)
      PROVE  step' \in [Threads -> Steps] /\ overlap' \in BOOLEAN
  <2>1. overlap' \in BOOLEAN BY <1>1 DEF Enter
  <2>. QED BY <1>1, <2>1 DEF Enter
<1>2. ASSUME NEW t \in Threads, Load(t) PROVE ITypeOK'
  <2>1. \A ok \in BOOLEAN : parse_ingredients_file(ok) \in [Keys -> Texts]
    BY DEF parse_ingredients_file, generate_section_kv, init_config_file
  <2>0. PICK ok \in BOOLEAN : old' = parse_ingredients_file(ok) BY <1>2 DEF Load
  <2>3. value' = load_modem_config(old') BY <1>2 DEF Load
  <2>2. value' \in [Modems -> Texts]
    <3>. HIDE DEF Texts, Null
    <3>. QED BY <2>0, <2>1, <2>3 DEF load_modem_config
  <2>. QED BY <1>2, <2>2 DEF Load
<1>3. \A m \in Modems : update_modem_name(m) \in [Modems -> Texts]
  BY DEF update_modem_name
<1>4. ASSUME NEW t \in Threads, Fetch(t) PROVE ITypeOK'
  <2>1. \A p \in Props : retrieve_props_json(p) \in Texts BY DEF retrieve_props_json
  <2>2. \A m \in Modems : get_modem_property(m) \in Texts
    <3>. HIDE DEF Texts
    <3>. QED BY <1>3 DEF get_modem_property
  <2>3. fetch_ingredients \in [Keys -> Texts] BY <2>1, <2>2 DEF fetch_ingredients
  <2>4. value' \in [Modems -> Texts] BY <1>4, <2>3 DEF Fetch
  <2>. QED BY <1>4, <2>3, <2>4 DEF Fetch
<1>5. ASSUME NEW t \in Threads, Compare(t) PROVE ITypeOK'
  <2>1. Null \in [Keys -> Texts] OBVIOUS
  <2>2. step' \in [Threads -> Steps] /\ new' \in [Threads -> [Keys -> Texts]]
    <3>. HIDE DEF Null, Texts, Keys
    <3>. QED BY <1>5, <2>1 DEF Compare
  <2>. QED BY <1>5, <2>2 DEF Compare
<1>6. ASSUME NEW t \in Threads, OpenFile(t) PROVE ITypeOK'
  <2>1. Null \in [Keys -> Texts] /\ Empty \in [Keys -> Texts] OBVIOUS
  <2>2. file' \in [Keys -> Texts] /\ step' \in [Threads -> Steps]
        /\ new' \in [Threads -> [Keys -> Texts]]
    <3>. HIDE DEF Null, Empty, Texts, Keys
    <3>. QED BY <1>6, <2>1 DEF OpenFile
  <2>. QED BY <1>6, <2>2 DEF OpenFile
<1>7. ASSUME NEW t \in Threads, WriteFile(t) PROVE ITypeOK'
  <2>1. PICK gone \in SUBSET Keys : file' = dump_config(t, gone) BY <1>7 DEF WriteFile
  <2>2. file' \in [Keys -> Texts]
    <3>1. new[t] \in [Keys -> Texts] /\ "absent" \in Texts OBVIOUS
    <3>. HIDE DEF Texts, Keys
    <3>. QED BY <2>1, <3>1 DEF dump_config
  <2>. QED BY <1>7, <2>2 DEF WriteFile
<1>8. ASSUME NEW t \in Threads, FreeOld(t) PROVE ITypeOK' BY <1>8 DEF FreeOld
<1>9. ASSUME NEW t \in Threads, AssignOld(t) PROVE ITypeOK' BY <1>9 DEF AssignOld
<1>10. ASSUME NEW t \in Threads, Refresh(t) PROVE ITypeOK'
  <2>1. PICK m \in Modems : value' = update_modem_name(m) BY <1>10 DEF Refresh
  <2>2. value' \in [Modems -> Texts] BY <1>3, <2>1
  <2>. QED BY <1>1, <1>10, <2>2 DEF Refresh
<1>11. CASE Begin BY <1>1, <1>11 DEF Begin
<1>12. ASSUME NEW p, Tick(p) PROVE ITypeOK' BY <1>1, <1>12 DEF Tick
<1>13. CASE Dead BY <1>13 DEF Dead
<1>16. ASSUME NEW t \in Threads, NoConfig(t) PROVE ITypeOK' BY <1>16 DEF NoConfig
<1>14. CASE Change
  <2>1. prop' \in [Keys -> Texts] /\ \A m \in Modems : prop'[m] \in Names \cup {Unknown}
    <3>1. ASSUME NEW m \in Modems, NEW n \in Names \cup {Unknown},
                 prop' = [prop EXCEPT ![m] = n]
          PROVE  prop' \in [Keys -> Texts]
                 /\ \A o \in Modems : prop'[o] \in Names \cup {Unknown}
      BY <3>1
    <3>2. ASSUME NEW p \in Props,
                 prop' = [prop EXCEPT ![p] = IF @ = Long THEN Unknown ELSE Long]
          PROVE  prop' \in [Keys -> Texts]
                 /\ \A o \in Modems : prop'[o] \in Names \cup {Unknown}
      BY <3>2
    <3>. QED BY <1>14, <3>1, <3>2 DEF Change
  <2>. QED BY <1>14, <2>1 DEF Change
<1>15. CASE UNCHANGED ivars BY <1>15
<1>. QED
  BY <1>2, <1>4, <1>5, <1>6, <1>7, <1>8, <1>9, <1>10, <1>11, <1>12, <1>13, <1>14, <1>15, <1>16
  DEF INext, Work, TickEvent, TickPlain, IKill, DoubleFree

\* A list without a list's text is none of the modems'.
LEMMA NamedNotNull ==
    ASSUME NEW m \in Modems, NEW L, L[m] \in Names
    PROVE  L # Null /\ L # NoText /\ L # Empty /\ L[m] # "absent"
  BY IngredientsAssumption DEF Null, NoText, Empty, Keys

\* load_modem_config finds each name the file has.
LEMMA LoadsNames ==
    ASSUME ITypeOK, Named(file, had)
    PROVE  Named(load_modem_config(parse_ingredients_file(TRUE)), had)
<1>. DEFINE L == parse_ingredients_file(TRUE)
<1>. SUFFICES ASSUME NEW m \in had PROVE load_modem_config(L)[m] \in Names
  BY DEF Named
<1>1. m \in Modems /\ m \in Keys /\ file[m] \in Names BY DEF ITypeOK, Named, Keys
<1>2. file # NoText BY <1>1, NamedNotNull
<1>3. L[m] = file[m]
  BY <1>1, <1>2, IngredientsAssumption
  DEF parse_ingredients_file, generate_section_kv, init_config_file, Long
<1>4. Found(L, m) BY <1>1, <1>3, NamedNotNull DEF Found
<1>. QED BY <1>1, <1>3, <1>4 DEF load_modem_config

\* A modem keeps its name unless it reports another.
LEMMA KeepsNames ==
    ASSUME ITypeOK, Named(value, had), NEW m \in Modems
    PROVE  Named(update_modem_name(m), had)
  BY DEF ITypeOK, Named, update_modem_name

LEMMA FetchesNames ==
    ASSUME ITypeOK, Named(value, had)
    PROVE  Named(fetch_ingredients, had)
<1>. SUFFICES ASSUME NEW m \in had PROVE fetch_ingredients[m] \in Names
  BY DEF Named
<1>1. m \in Modems /\ m \in Keys /\ m \notin Props
  BY IngredientsAssumption DEF ITypeOK, Keys
<1>2. update_modem_name(m)[m] \in Names BY <1>1, KeepsNames DEF Named
<1>. QED BY <1>1, <1>2 DEF fetch_ingredients, get_modem_property

\* Who enters alone finds the others out; who does not is seen.
LEMMA EnterStep ==
    ASSUME ITypeOK, ITypeOK', NamesInv, NEW t \in Threads, step[t] = "out", Enter(t),
           UNCHANGED <<old, file, new, lost, had>>,
           value' = value \/ \E m \in Modems : value' = update_modem_name(m)
    PROVE  NamesInv'
<1>. SUFFICES ASSUME ~overlap', lost' = {}
              PROVE  /\ OneCheck'
                     /\ (Named(file, had) \/ \E u \in Threads : step[u] = "write")'
                     /\ (old # Null => Named(value, had))'
                     /\ \A u \in Threads : CheckInv(u)'
  BY DEF NamesInv
<1>1. ~overlap /\ \A u \in Threads \ {t} : step[u] = "out" BY DEF Enter
<1>2. step' = [step EXCEPT ![t] = IF old = Null THEN "load" ELSE "fetch"] BY DEF Enter
<1>3. Named(file, had)
  BY <1>1 DEF NamesInv
<1>4. OneCheck' BY <1>1, <1>2 DEF OneCheck, ITypeOK
<1>5. old # Null => Named(value', had)
  BY <1>1, KeepsNames DEF NamesInv
<1>6. ASSUME NEW u \in Threads PROVE CheckInv(u)'
  BY <1>1, <1>2, <1>5 DEF CheckInv, ITypeOK, Named
<1>. QED BY <1>3, <1>4, <1>5, <1>6 DEF Named

\* The steps of the thread in the check.
LEMMA WorkStep ==
    ASSUME ITypeOK, ITypeOK', NamesInv, NEW t \in Threads, Work(t)
    PROVE  NamesInv'
<1>. SUFFICES ASSUME ~overlap', lost' = {}
              PROVE  /\ OneCheck'
                     /\ (Named(file, had) \/ \E u \in Threads : step[u] = "write")'
                     /\ (old # Null => Named(value, had))'
                     /\ \A u \in Threads : CheckInv(u)'
  BY DEF NamesInv
<1>1. ~overlap /\ lost = {} /\ step[t] # "out"
  <2>1. lost = {}
    <3>1. CASE Load(t) BY <3>1 DEF Load
    <3>2. CASE WriteFile(t) BY <3>2 DEF WriteFile
    <3>3. CASE UNCHANGED lost BY <3>3
    <3>. QED BY <3>1, <3>2, <3>3 DEF Work, Fetch, NoConfig, Compare, OpenFile, FreeOld, AssignOld
  <2>2. step[t] # "out"
    BY DEF Work, Load, Fetch, NoConfig, Compare, OpenFile, WriteFile, FreeOld, AssignOld
  <2>3. UNCHANGED overlap
    BY DEF Work, Load, Fetch, NoConfig, Compare, OpenFile, WriteFile, FreeOld, AssignOld
  <2>. QED BY <2>1, <2>2, <2>3
<1>2. \A u \in Threads \ {t} : step[u] = "out" BY <1>1 DEF NamesInv, OneCheck
<1>3. \A u \in Threads \ {t} : step'[u] = "out"
  BY <1>2 DEF ITypeOK, Work, Load, Fetch, NoConfig, Compare, OpenFile, WriteFile, FreeOld,
      AssignOld
<1>4. OneCheck' BY <1>3 DEF OneCheck
<1>5. \A u \in Threads \ {t} : CheckInv(u)' BY <1>3 DEF CheckInv
<1>6. CheckInv(t) /\ (old # Null => Named(value, had)) BY <1>1 DEF NamesInv
<1>7. step[t] # "write" => Named(file, had) BY <1>1, <1>2 DEF NamesInv
<1>. SUFFICES /\ Named(file', had') \/ step'[t] = "write"
              /\ old' # Null => Named(value', had')
              /\ CheckInv(t)'
  BY <1>4, <1>5 DEF Named
<1>8. CASE Load(t)
  <2>0. old' = parse_ingredients_file(TRUE) BY <1>8 DEF Load
  <2>1. Named(value', had) BY <1>7, <1>8, <2>0, LoadsNames DEF Load
  <2>. QED BY <1>7, <1>8, <2>1 DEF Load, CheckInv, ITypeOK, Named
<1>9. CASE Fetch(t)
  <2>1. Named(fetch_ingredients, had) BY <1>6, <1>9, FetchesNames DEF Fetch, CheckInv
  <2>2. new'[t] = fetch_ingredients BY <1>9 DEF Fetch, ITypeOK
  <2>3. \A m \in Modems : value'[m] = fetch_ingredients[m] BY <1>9 DEF Fetch
  <2>. QED BY <1>7, <1>9, <2>1, <2>2, <2>3 DEF Fetch, CheckInv, ITypeOK, Named
<1>10. CASE Compare(t) BY <1>6, <1>7, <1>10 DEF Compare, CheckInv, ITypeOK, Named
<1>11. CASE OpenFile(t) BY <1>6, <1>7, <1>11 DEF OpenFile, CheckInv, ITypeOK, Named
<1>12. CASE WriteFile(t)
  <2>1. PICK gone \in SUBSET Keys :
             /\ file' = dump_config(t, gone)
             /\ gone # {} => lost' = lost \cup {"full"}
    BY <1>12 DEF WriteFile
  <2>2. gone = {} BY <2>1
  <2>3. \A k \in Keys : file'[k] = new[t][k] BY <2>1, <2>2 DEF dump_config
  <2>4. had' = had \cup {m \in Modems : file'[m] \in Names} BY <1>12 DEF WriteFile
  <2>5. \A m \in Modems : m \in Keys BY DEF Keys
  <2>. QED BY <1>6, <1>12, <2>3, <2>4, <2>5 DEF WriteFile, CheckInv, ITypeOK, Named
<1>15. CASE NoConfig(t) BY <1>6, <1>7, <1>15 DEF NoConfig, CheckInv, ITypeOK, Named
<1>13. CASE FreeOld(t) BY <1>6, <1>7, <1>13 DEF FreeOld, CheckInv, ITypeOK, Named
<1>14. CASE AssignOld(t) BY <1>6, <1>7, <1>14 DEF AssignOld, CheckInv, ITypeOK, Named
<1>. QED BY <1>8, <1>9, <1>10, <1>11, <1>12, <1>13, <1>14, <1>15 DEF Work

LEMMA NamesStep ==
    ASSUME ITypeOK, ITypeOK', NamesInv, [INext]_ivars
    PROVE  NamesInv'
<1>1. ASSUME NEW t \in Threads, Refresh(t) PROVE NamesInv'
  BY <1>1, EnterStep DEF Refresh
<1>2. CASE Begin BY <1>2, IngredientsAssumption, EnterStep DEF Begin
<1>3. ASSUME NEW p, Tick(p) PROVE NamesInv'
  BY <1>3, IngredientsAssumption, EnterStep DEF Tick
<1>4. CASE Dead
  <2>. SUFFICES ASSUME ~overlap', lost' = {}
                PROVE  /\ OneCheck'
                       /\ Named(file, had)'
                       /\ (old # Null => Named(value, had))'
                       /\ \A u \in Threads : CheckInv(u)'
    BY DEF NamesInv
  <2>1. ~overlap /\ lost = {} /\ \A t \in Threads : step[t] # "write" BY <1>4 DEF Dead
  <2>2. Named(file, had) BY <2>1 DEF NamesInv
  <2>3. old' = Null /\ \A t \in Threads : step'[t] = "out" BY <1>4 DEF Dead
  <2>4. UNCHANGED <<file, had>> BY <1>4 DEF Dead
  <2>. QED BY <2>2, <2>3, <2>4 DEF OneCheck, CheckInv, Named, Null, Keys
<1>5. CASE Change \/ UNCHANGED ivars
  <2>. UNCHANGED <<config, lost>> BY <1>5 DEF Change, ivars
  <2>. QED BY DEF config, NamesInv, OneCheck, CheckInv, Named, Null, Empty, Keys
<1>. QED
  BY <1>1, <1>2, <1>3, <1>4, <1>5, WorkStep
  DEF INext, TickEvent, TickPlain, IKill, DoubleFree

\* A modem's name stays in ingredients.txt once it is there, for any number of
\* threads, restarts of the daemon and files that do not open for writing, unless
\* two threads were in the check together, the daemon was killed or the partition
\* full within dump_config, or the file could not be read at the first check.
THEOREM NamesAreKept == ISpec => []NamesKept
<1>1. IInit => IInv
  <2>. SUFFICES ASSUME IInit PROVE IInv
    OBVIOUS
  <2>1. overlap \in BOOLEAN BY DEF IInit
  <2>2. ITypeOK
    BY <2>1, IngredientsAssumption
    DEF IInit, ITypeOK, Texts, Steps, Keys, Unknown, Null, NoText
  <2>3. NamesInv BY DEF IInit, NamesInv, OneCheck, CheckInv, Named
  <2>. QED BY <2>2, <2>3 DEF IInv
<1>2. IInv /\ [INext]_ivars => IInv'
  BY ITypeStep, NamesStep DEF IInv
<1>3. IInv => NamesKept
  BY DEF IInv, NamesInv, ITypeOK, CheckInv, Named, NamesKept
<1>. QED BY <1>1, <1>2, <1>3, PTL DEF ISpec
=============================================================================
