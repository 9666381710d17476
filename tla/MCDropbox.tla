----------------------------- MODULE MCDropbox -----------------------------
(* Instances of Dropbox for TLC.                                            *)
EXTENDS Dropbox
=============================================================================
