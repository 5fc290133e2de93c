------------------------- MODULE MC_WinnerSelection -------------------------
(* All orders of up to three results, with NaN, +Inf and equal quotients. *)
EXTENDS WinnerSelection

MCScores == [units : 0..2, price : 0..2]
=============================================================================
