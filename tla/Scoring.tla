------------------------------- MODULE Scoring -------------------------------
(***************************************************************************)
(* The score of one simulation and the choice of the winning simulation:   *)
(* costonly.Compute, computeRunResult's test for zero, getWinningRunResult *)
(* and tieBreak.                                                           *)
(*                                                                         *)
(* The code computes units/price in float64.  A score is kept here as the  *)
(* record of the two numbers, so that every quotient the code can produce  *)
(* is present: an instance type without a price (or priced "NA") has price *)
(* 0, which makes the score +Inf when some units were scheduled and NaN    *)
(* when none were.  The rounding of the division is left out: two scores   *)
(* are equal when the quotients are.                                       *)
(***************************************************************************)
EXTENDS Naturals, FiniteSets

Score == [units : Nat, price : Nat]

\* The units of one container: whole GiB of memory (rounded down) and whole
\* cores (Quantity.Value rounds up), a core weighing six GiB.
ResourceUnits(memoryMiB, milliCPU) ==
    (memoryMiB \div 1024) + 6 * ((milliCPU + 999) \div 1000)

IsNaN(s) == s.units = 0 /\ s.price = 0
IsZero(s) == s.units = 0 /\ s.price # 0

\* s >= t in float64: any comparison with NaN is false.
AtLeast(s, t) ==
    /\ ~IsNaN(s) /\ ~IsNaN(t)
    /\ s.units * t.price >= t.units * s.price

\* The results getWinningRunResult keeps: none is better.  A NaN score never
\* exceeds the running maximum and never equals it.
HighestScore(results) ==
    {r \in results : /\ ~IsNaN(r.score)
                     /\ \A q \in results : IsNaN(q.score) \/ AtLeast(r.score, q.score)}

\* tieBreak: among these, a largest node.  The results arrive in the order of
\* two map iterations (node pools, zones), so any of them may come first.
Winners(results) ==
    {r \in HighestScore(results) :
        \A q \in HighestScore(results) : r.capacity >= q.capacity}
=============================================================================
