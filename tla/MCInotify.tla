----------------------------- MODULE MCInotify -----------------------------
(* Inotify for TLC: two entries share the path of the dropbox.              *)
EXTENDS Inotify, TLC
CONSTANTS anr, crash, trig, dropbox, stats
MCPathOf == (anr :> dropbox) @@ (crash :> dropbox) @@ (trig :> stats)
=============================================================================
