------------------------------- MODULE MCBoot -------------------------------
(***************************************************************************)
(* Instance of Boot and of DeviceChecks.  The two share no state, so that a *)
(* behaviour is one of either: which says of which, and the other rests.   *)
(***************************************************************************)
EXTENDS Boot, DeviceChecks

VARIABLE which
bvars == <<which, vars, dvars>>

Early(A)  == which = "boot" /\ A /\ UNCHANGED <<which, dvars>>
Device(A) == which = "device" /\ A /\ UNCHANGED <<which, vars>>

MCInit ==
    /\ which \in {"boot", "device"}
    /\ Init /\ DInit
    /\ which = "device" => arch = CHOOSE a \in Platforms : TRUE

MCNext ==
    \/ Early(Next)
    \/ Device(CheckFwUpdate) \/ Device(ClearFwUpdate) \/ Device(RaiseFwUpdate)
    \/ Device(SetToken) \/ Device(CheckFactory) \/ Device(RaiseFactory)
    \/ Device(OpenSumFile) \/ Device(WriteSumFile) \/ Device(InitEcc)
    \/ Device(RestoreEnd) \/ Device(OpenBackup) \/ Device(SaveBackup)
    \/ Device(NextTurn) \/ Device(EccCountEnd) \/ Device(FatalEccEnd)
    \/ \E c \in Counters : \/ Device(RestoreCount(c)) \/ Device(EccCountHandle(c))
                           \/ Device(FatalEccCheck(c)) \/ Device(CountError(c))
    \/ Device(StartDaemon) \/ Device(EndDaemon) \/ Device(ShutDown) \/ Device(SwitchOn)

MCSpec == MCInit /\ [][MCNext]_bvars
=============================================================================
