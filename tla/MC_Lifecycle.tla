------------------------------ MODULE MC_Lifecycle ------------------------------
(* Two requests, three signals: one more than the channel takes. *)
EXTENDS Lifecycle, TLC
CONSTANTS r1, r2
==============================================================================
