----------------------------- MODULE MCHistory -----------------------------
(* Model-checking instance of History: the constants come from the cfgs.   *)
EXTENDS History
=============================================================================
