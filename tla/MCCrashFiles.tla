--------------------------- MODULE MCCrashFiles ---------------------------
(***************************************************************************)
(* Two files of any kind, three log files.                                 *)
(***************************************************************************)
EXTENDS CrashFiles, TLC

Plain(t)   == [type |-> t, depth |-> -1, bplog |-> FALSE]
MCKinds    == {Plain(t) : t \in Types} \cup
              {[type |-> "bz", depth |-> 0, bplog |-> TRUE],
               [type |-> "aplog", depth |-> 2, bplog |-> TRUE]}
MCSymmetry == Permutations(Files)
=============================================================================
