----------------------------- MODULE MCUpkeep -----------------------------
(***************************************************************************)
(* Instance of Ingredients and of VmmDumps.  The two share no state, so    *)
(* that a behaviour is one of either: which says of which, and the other   *)
(* rests.                                                                  *)
(***************************************************************************)
EXTENDS Ingredients, VmmDumps

VARIABLE which
uvars == <<which, ivars, vvars>>

Files(A) == which = "files" /\ A /\ UNCHANGED <<which, vvars>>
Vmm(A)   == which = "vmm" /\ A /\ UNCHANGED <<which, ivars>>

UInit ==
    /\ which \in {"files", "vmm"}
    /\ IInit /\ VInit
    /\ which = "files" => ~legacy

UNext ==
    \/ \E t \in Threads : Files(Work(t)) \/ Files(Refresh(t))
    \/ Files(Begin) \/ Files(TickEvent) \/ Files(TickPlain)
    \/ Files(IKill) \/ Files(DoubleFree) \/ Files(Change)
    \/ Vmm(VWork) \/ Vmm(VFails) \/ Vmm(SetVToken) \/ Vmm(StartVmm) \/ Vmm(EndVmm)
    \/ Vmm(DeviceDown) \/ Vmm(DeviceUp) \/ Vmm(Mount) \/ Vmm(OtherMount) \/ Vmm(VLoop)

\* The fairness of Ingredients and VmmDumps, where they are the ones that move.
UFairness ==
    /\ WF_uvars(Files(Begin))
    /\ SF_uvars(Files(TickEvent))
    /\ \A t \in Threads : WF_uvars(Files(Work(t)))
    /\ WF_uvars(Vmm(VWork))

USpec == UInit /\ [][UNext]_uvars /\ UFairness
=============================================================================
