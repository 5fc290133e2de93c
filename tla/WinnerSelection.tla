--------------------------- MODULE WinnerSelection ---------------------------
(***************************************************************************)
(* How runSimulation drains the result channel and how getWinningRunResult *)
(* and tieBreak choose from what it kept, loop by loop, against Winners of *)
(* module Scoring, which ScaleUp uses.  The order in which the results     *)
(* come is the order of two map iterations, so every order is considered.  *)
(***************************************************************************)
EXTENDS Scoring, Sequences, SequencesExt

CONSTANTS
    Scores,         \* scores to consider
    Capacities,     \* resource units of a node (computeTotalResourceUnits)
    MaxResults,     \* bound on the number of results received
    Nil             \* the nil *runResult

ASSUME ScoresAssumption == Scores \subseteq Score /\ Capacities \subseteq Nat

VARIABLES results, received

vars == <<results, received>>

RunResult == [score : Scores, capacity : Capacities, placed : BOOLEAN]

ASSUME NilAssumption == Nil \notin RunResult

\* computeRunResult drops the placements when the score is zero.
HasWinner(r) == r.placed /\ ~IsZero(r.score)

\* The comparisons of float64.
Greater(s, t) == ~IsNaN(s) /\ ~IsNaN(t) /\ s.units * t.price > t.units * s.price
Equal(s, t) == ~IsNaN(s) /\ ~IsNaN(t) /\ s.units * t.price = t.units * s.price

\* The running maximum starts at 0.0, written 0/1 here.
higherScore_FirstPriced(best, r) ==
    IF Greater(r.score, best) /\ r.score.price # 0 THEN r.score ELSE best
higherScore(best, r) == IF Greater(r.score, best) THEN r.score ELSE best
maxScore(rs) == FoldLeft(higherScore, [units |-> 0, price |-> 1], rs)

\* The second loop keeps the results that reach the maximum found by the first.
keepEqual(loop, r) ==
    IF Equal(r.score, loop.maxScore)
    THEN [loop EXCEPT !.winningRunResults = Append(@, r)] ELSE loop
winningRunResults(rs) ==
    FoldLeft(keepEqual, [maxScore |-> maxScore(rs), winningRunResults |-> <<>>], rs)
        .winningRunResults

\* lo.MaxBy keeps the first of the largest.
MaxBy_Smallest(best, r) == IF r.capacity < best.capacity THEN r ELSE best
MaxBy(best, r) == IF r.capacity > best.capacity THEN r ELSE best
tieBreak(rs) == IF rs = <<>> THEN Nil ELSE FoldLeft(MaxBy, Head(rs), Tail(rs))

getWinningRunResult(rs) ==
    LET highest == winningRunResults(rs) IN
    IF Len(highest) = 1 THEN highest[1] ELSE tieBreak(highest)

Init == results = <<>> /\ received = 0

\* One message of the channel: a result is kept when it has a winner.  (After an
\* error among them no winner is looked for; see EndWithoutWinner of ScaleUp.)
Receive(r) ==
    /\ received < MaxResults
    /\ received' = received + 1
    /\ results' = IF HasWinner(r) THEN Append(results, r) ELSE results

Next == \E r \in RunResult : Receive(r)

Spec == Init /\ [][Next]_vars

-----------------------------------------------------------------------------

Kept == {results[i] : i \in DOMAIN results}

\* The result chosen is one that no other result beats, whatever the order of
\* arrival, and there is one as soon as some kept result has a number as score.
WinnerIsBest ==
    LET winner == getWinningRunResult(results) IN
    IF Winners(Kept) = {} THEN winner = Nil ELSE winner \in Winners(Kept)

\* An instance type that is missing from the price list (or priced "NA") costs
\* nothing in the score: its node pool wins against every priced one.
UnpricedWins ==
    (\E r \in Kept : r.score.price = 0 /\ r.score.units > 0) =>
        LET winner == getWinningRunResult(results) IN
        winner # Nil /\ winner.score.price = 0
=============================================================================
