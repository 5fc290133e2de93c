------------------------ MODULE WinnerSelectionProofs ------------------------
(***************************************************************************)
(* Theorems about WinnerSelection: for any number of results, in any order *)
(* of arrival and with any scores, NaN and +Inf among them, the loops of   *)
(* getWinningRunResult and tieBreak find a winner in the sense of Scoring. *)
(***************************************************************************)
EXTENDS WinnerSelection, FoldProofs, TLAPS

-----------------------------------------------------------------------------
(* Scores *)

\* A factor that is not zero can be taken off both sides.
LEMMA Cancel ==
    ASSUME NEW x \in Nat, NEW y \in Nat, NEW z \in Nat, z > 0, x * z >= y * z
    PROVE x >= y
<1> SUFFICES ASSUME x < y PROVE FALSE
    OBVIOUS
<1>1. x + 1 <= y
    OBVIOUS
<1>2. (x + 1) * z <= y * z
    BY <1>1
<1>3. (x + 1) * z = x * z + z
    OBVIOUS
<1> QED
    BY <1>2, <1>3

\* Products are compared as their factors are.
LEMMA Multiply ==
    ASSUME NEW x \in Nat, NEW y \in Nat, NEW z \in Nat, x >= y
    PROVE x * z >= y * z
<1>1. x * z = y * z + (x - y) * z
    OBVIOUS
<1>2. (x - y) * z \in Nat
    OBVIOUS
<1> QED
    BY <1>1, <1>2

\* Scores that are numbers are ordered as their quotients are, +Inf on top.
LEMMA AtLeastTransitive ==
    ASSUME NEW s \in Score, NEW t \in Score, NEW u \in Score, AtLeast(s, t), AtLeast(t, u)
    PROVE AtLeast(s, u)
<1> DEFINE a == s.units
           b == s.price
           c == t.units
           d == t.price
           e == u.units
           f == u.price
<1>1. a \in Nat /\ b \in Nat /\ c \in Nat /\ d \in Nat /\ e \in Nat /\ f \in Nat
    BY DEF Score
<1>2. a * d >= c * b /\ c * f >= e * d /\ ~(c = 0 /\ d = 0)
    BY DEF AtLeast, IsNaN
<1>3. ~IsNaN(s) /\ ~IsNaN(u)
    BY DEF AtLeast
<1>4. a * f >= e * b => AtLeast(s, u)
    BY <1>3 DEF AtLeast
<1> HIDE DEF a, b, c, d, e, f
<1>5. CASE d = 0
    <2>1. c > 0 /\ c * b <= 0 /\ a * f \in Nat /\ e * b \in Nat
        BY <1>1, <1>2, <1>5
    <2>2. b = 0
        <3> SUFFICES ASSUME b >= 1 PROVE FALSE
            BY <1>1
        <3>1. b * c >= 1 * c
            BY <1>1, Multiply
        <3> QED
            BY <1>1, <2>1, <3>1
    <2>3. e * b = 0
        BY <1>1, <2>2
    <2> QED
        BY <1>4, <2>1, <2>3
<1>6. CASE d > 0
    <2>1. a * d \in Nat /\ c * b \in Nat /\ c * f \in Nat /\ e * d \in Nat
          /\ a * f \in Nat /\ e * b \in Nat
        BY <1>1
    <2>2. (a * d) * f >= (c * b) * f
        BY <1>1, <1>2, <2>1, Multiply
    <2>3. (c * f) * b >= (e * d) * b
        BY <1>1, <1>2, <2>1, Multiply
    <2>4. (a * f) * d = (a * d) * f /\ (c * b) * f = (c * f) * b /\ (e * d) * b = (e * b) * d
        BY <1>1
    <2>5. (a * f) * d \in Nat /\ (e * b) * d \in Nat /\ (c * b) * f \in Nat
        BY <1>1
    <2>6. (a * f) * d >= (e * b) * d
        BY <2>2, <2>3, <2>4, <2>5
    <2>7. a * f >= e * b
        BY <1>1, <1>6, <2>1, <2>6, Cancel
    <2> QED
        BY <1>4, <2>7
<1> QED
    BY <1>1, <1>5, <1>6

\* Of two scores that are numbers one is at least the other.
LEMMA AtLeastTotal ==
    ASSUME NEW s \in Score, NEW t \in Score, ~IsNaN(s), ~IsNaN(t)
    PROVE /\ AtLeast(s, s)
          /\ Greater(s, t) => AtLeast(s, t)
          /\ ~Greater(s, t) => AtLeast(t, s)
          /\ Equal(s, t) <=> AtLeast(s, t) /\ AtLeast(t, s)
<1>1. /\ s.units \in Nat /\ s.price \in Nat /\ t.units \in Nat /\ t.price \in Nat
    BY DEF Score
<1>2. s.units * t.price \in Nat /\ t.units * s.price \in Nat /\ s.units * s.price \in Nat
    BY <1>1
<1> QED
    BY <1>2 DEF AtLeast, Greater, Equal

\* The value of the running maximum at its start.
Zero == [units |-> 0, price |-> 1]
\* No score that is kept lies below it.
LEMMA ZeroIsLeast ==
    /\ Zero \in Score /\ ~IsNaN(Zero)
    /\ \A s \in Score : AtLeast(Zero, s) => IsZero(s)
<1>1. Zero \in Score /\ ~IsNaN(Zero) /\ Zero.units = 0 /\ Zero.price = 1
    BY DEF Zero, Score, IsNaN
<1>2. ASSUME NEW s \in Score, AtLeast(Zero, s) PROVE IsZero(s)
    <2>1. s.units \in Nat /\ s.price \in Nat
        BY DEF Score
    <2>2. 0 * s.price >= s.units * 1 /\ ~IsNaN(s)
        BY <1>1, <1>2 DEF AtLeast
    <2>3. s.units = 0
        BY <2>1, <2>2
    <2> QED
        BY <2>2, <2>3 DEF IsNaN, IsZero
<1> QED
    BY <1>1, <1>2

-----------------------------------------------------------------------------
(* The loops *)

\* The first loop: the maximum so far is zero or some result's score, and at least
\* every score so far that is a number.
ScoresIn(seq) == \A i \in DOMAIN seq : seq[i].score \in Score
HighestSoFar(start, seq, k, best) ==
    start = Zero /\ ScoresIn(seq) =>
        /\ best \in Score /\ ~IsNaN(best)
        /\ best = Zero \/ \E i \in 1..k : best = seq[i].score
        /\ \A i \in 1..k : IsNaN(seq[i].score) \/ AtLeast(best, seq[i].score)

\* What the turns of the first loop keep holds at its end.
LEMMA FirstLoopInvariant ==
    ASSUME NEW n \in Nat, NEW seq, DOMAIN seq = 1..n, NEW start,
           HighestSoFar(start, seq, 0, start),
           \A k \in 1..n : \A state :
               HighestSoFar(start, seq, k - 1, state) => HighestSoFar(start, seq, k, higherScore(state, seq[k]))
    PROVE HighestSoFar(start, seq, n, FoldLeft(higherScore, start, seq))
<1> DEFINE States == {start} \cup {seq[k].score : k \in 1..n}
           body == [k \in 1..n |-> [x \in States |-> higherScore(x, seq[k])]]
           turn(g, s) == IF s = {} THEN start ELSE higherScore(g[s \ {Max(s)}], seq[Max(s)])
           turns == CHOOSE g : g = [s \in SUBSET DOMAIN seq |-> turn(g, s)]
           Holds(k) == HighestSoFar(start, seq, k, turns[1..k])
           Good == {k \in 0..n : Holds(k)}
<1>1. start \in States /\ \A k \in 1..n : \A x \in States : higherScore(x, seq[k]) \in States
    BY DEF higherScore
<1> HIDE DEF States
<1>2. \E g : g = [s \in SUBSET DOMAIN seq |-> turn(g, s)]
    <2>1. \A k \in 1..n : \A x \in States : body[k][x] = higherScore(x, seq[k])
        OBVIOUS
    <2> HIDE DEF body
    <2>2. start \in States /\ Within(n, body, States)
        BY <1>1, <2>1 DEF Within
    <2>3. PICK g : Runs(n, body, States, start, g)
        BY <2>2, TurnsStay
    <2>4. ASSUME NEW s \in SUBSET (1..n) PROVE g[s] = turn(g, s)
        <3>1. CASE s = {}
            BY <2>3, <3>1 DEF Runs, Turn
        <3>2. CASE s # {}
            BY <2>1, <2>3, <3>2, LastPosition DEF Runs, Turn
        <3> QED
            BY <3>1, <3>2
    <2> DEFINE h == [s \in SUBSET (1..n) |-> g[s]]
    <2>5. ASSUME NEW s \in SUBSET (1..n) PROVE h[s] = turn(h, s)
        BY <2>4, LastPosition
    <2>6. h = [s \in SUBSET (1..n) |-> turn(h, s)]
        <3>1. h = [s \in SUBSET (1..n) |-> h[s]]
            OBVIOUS
        <3> HIDE DEF h
        <3> QED
            BY <2>5, <3>1
    <2> QED
        BY <2>6
<1>3. \A s \in SUBSET (1..n) : turns[s] = turn(turns, s)
    <2>1. turns = [s \in SUBSET (1..n) |-> turn(turns, s)]
        BY <1>2, Zenon
    <2> QED
        BY <2>1
<1>4. FoldLeft(higherScore, start, seq) = turns[1..n]
    BY DEF FoldLeft, MapThenFoldSet
<1> HIDE DEF turns
<1>5. turns[1..0] = start
    BY <1>3, PositionsUpTo
<1>6. \A k \in 1..n : turns[1..k] = higherScore(turns[1..(k - 1)], seq[k])
    <2> SUFFICES ASSUME NEW k \in 1..n
                 PROVE turns[1..k] = higherScore(turns[1..(k - 1)], seq[k])
        OBVIOUS
    <2>1. /\ 1..k \in SUBSET (1..n) /\ 1..k # {}
          /\ Max(1..k) = k /\ (1..k) \ {k} = 1..(k - 1)
        BY PositionsUpTo
    <2>2. turns[1..k] = turn(turns, 1..k)
        BY <1>3, <2>1
    <2> QED
        BY <2>1, <2>2, Zenon
<1>7. Holds(0)
    BY <1>5
<1>8. \A k \in 1..n : Holds(k - 1) => Holds(k)
    BY <1>6
<1> HIDE DEF Holds
<1>9. 0 \in Good /\ \A k \in 1..n : k - 1 \in Good => k \in Good
    BY <1>7, <1>8
<1>10. n \in Good
    <2> HIDE DEF Good
    <2> QED
        BY <1>9, LoopInvariant
<1> QED
    BY <1>4, <1>10 DEF Holds

\* The second loop: the results kept so far are those that reach the maximum.
KeptSoFar(start, seq, k, loop) ==
    start.winningRunResults = <<>> /\ seq \in Seq(RunResult) =>
        /\ loop = [maxScore |-> start.maxScore, winningRunResults |-> loop.winningRunResults]
        /\ loop.winningRunResults \in Seq(RunResult)
        /\ \A j \in DOMAIN loop.winningRunResults : \E i \in 1..k :
             /\ loop.winningRunResults[j] = seq[i]
             /\ Equal(seq[i].score, start.maxScore)
        /\ \A i \in 1..k : Equal(seq[i].score, start.maxScore) =>
             \E j \in DOMAIN loop.winningRunResults : loop.winningRunResults[j] = seq[i]

\* What the turns of the second loop keep holds at its end.
LEMMA SecondLoopInvariant ==
    ASSUME NEW n \in Nat, NEW seq, DOMAIN seq = 1..n, NEW start,
           start = [maxScore |-> start.maxScore, winningRunResults |-> <<>>],
           KeptSoFar(start, seq, 0, start),
           \A k \in 1..n : \A state :
               KeptSoFar(start, seq, k - 1, state) => KeptSoFar(start, seq, k, keepEqual(state, seq[k]))
    PROVE KeptSoFar(start, seq, n, FoldLeft(keepEqual, start, seq))
<1> DEFINE States == [maxScore : {start.maxScore}, winningRunResults : Seq({seq[k] : k \in 1..n})]
           body == [k \in 1..n |-> [x \in States |-> keepEqual(x, seq[k])]]
           turn(g, s) == IF s = {} THEN start ELSE keepEqual(g[s \ {Max(s)}], seq[Max(s)])
           turns == CHOOSE g : g = [s \in SUBSET DOMAIN seq |-> turn(g, s)]
           Holds(k) == KeptSoFar(start, seq, k, turns[1..k])
           Good == {k \in 0..n : Holds(k)}
<1>1. start \in States /\ \A k \in 1..n : \A x \in States : keepEqual(x, seq[k]) \in States
    <2> DEFINE Elements == {seq[k] : k \in 1..n}
    <2>1. \A k \in 1..n : seq[k] \in Elements
        OBVIOUS
    <2> HIDE DEF Elements
    <2>2. ASSUME NEW k \in 1..n, NEW x \in States PROVE keepEqual(x, seq[k]) \in States
        <3>1. Append(x.winningRunResults, seq[k]) \in Seq(Elements)
            BY <2>1 DEF Elements
        <3> QED
            BY <3>1 DEF keepEqual, Elements
    <2>3. start \in States
        <3>1. PICK m : start = [maxScore |-> m, winningRunResults |-> <<>>] /\ start.maxScore = m
            OBVIOUS
        <3>2. <<>> \in Seq(Elements)
            OBVIOUS
        <3> QED
            BY <3>1, <3>2 DEF Elements
    <2> QED
        BY <2>2, <2>3
<1> HIDE DEF States
<1>2. \E g : g = [s \in SUBSET DOMAIN seq |-> turn(g, s)]
    <2>1. \A k \in 1..n : \A x \in States : body[k][x] = keepEqual(x, seq[k])
        OBVIOUS
    <2> HIDE DEF body
    <2>2. start \in States /\ Within(n, body, States)
        BY <1>1, <2>1 DEF Within
    <2>3. PICK g : Runs(n, body, States, start, g)
        BY <2>2, TurnsStay
    <2>4. ASSUME NEW s \in SUBSET (1..n) PROVE g[s] = turn(g, s)
        <3>1. CASE s = {}
            BY <2>3, <3>1 DEF Runs, Turn
        <3>2. CASE s # {}
            BY <2>1, <2>3, <3>2, LastPosition DEF Runs, Turn
        <3> QED
            BY <3>1, <3>2
    <2> DEFINE h == [s \in SUBSET (1..n) |-> g[s]]
    <2>5. ASSUME NEW s \in SUBSET (1..n) PROVE h[s] = turn(h, s)
        BY <2>4, LastPosition
    <2>6. h = [s \in SUBSET (1..n) |-> turn(h, s)]
        <3>1. h = [s \in SUBSET (1..n) |-> h[s]]
            OBVIOUS
        <3> HIDE DEF h
        <3> QED
            BY <2>5, <3>1
    <2> QED
        BY <2>6
<1>3. \A s \in SUBSET (1..n) : turns[s] = turn(turns, s)
    <2>1. turns = [s \in SUBSET (1..n) |-> turn(turns, s)]
        BY <1>2, Zenon
    <2> QED
        BY <2>1
<1>4. FoldLeft(keepEqual, start, seq) = turns[1..n]
    BY DEF FoldLeft, MapThenFoldSet
<1> HIDE DEF turns
<1>5. turns[1..0] = start
    BY <1>3, PositionsUpTo
<1>6. \A k \in 1..n : turns[1..k] = keepEqual(turns[1..(k - 1)], seq[k])
    <2> SUFFICES ASSUME NEW k \in 1..n
                 PROVE turns[1..k] = keepEqual(turns[1..(k - 1)], seq[k])
        OBVIOUS
    <2>1. /\ 1..k \in SUBSET (1..n) /\ 1..k # {}
          /\ Max(1..k) = k /\ (1..k) \ {k} = 1..(k - 1)
        BY PositionsUpTo
    <2>2. turns[1..k] = turn(turns, 1..k)
        BY <1>3, <2>1
    <2> QED
        BY <2>1, <2>2, Zenon
<1>7. Holds(0)
    BY <1>5
<1>8. \A k \in 1..n : Holds(k - 1) => Holds(k)
    BY <1>6
<1> HIDE DEF Holds
<1>9. 0 \in Good /\ \A k \in 1..n : k - 1 \in Good => k \in Good
    BY <1>7, <1>8
<1>10. n \in Good
    <2> HIDE DEF Good
    <2> QED
        BY <1>9, LoopInvariant
<1> QED
    BY <1>4, <1>10 DEF Holds

\* The loop of lo.MaxBy: the best so far is one of those seen, and none is larger.
LargestSoFar(start, seq, k, best) ==
    start.capacity \in Nat /\ (\A i \in DOMAIN seq : seq[i].capacity \in Nat) =>
        /\ best = start \/ \E i \in 1..k : best = seq[i]
        /\ best.capacity \in Nat /\ best.capacity >= start.capacity
        /\ \A i \in 1..k : best.capacity >= seq[i].capacity

\* What the turns of lo.MaxBy's loop keep holds at its end.
LEMMA MaxByLoopInvariant ==
    ASSUME NEW n \in Nat, NEW seq, DOMAIN seq = 1..n, NEW start,
           LargestSoFar(start, seq, 0, start),
           \A k \in 1..n : \A state :
               LargestSoFar(start, seq, k - 1, state) => LargestSoFar(start, seq, k, MaxBy(state, seq[k]))
    PROVE LargestSoFar(start, seq, n, FoldLeft(MaxBy, start, seq))
<1> DEFINE States == {start} \cup {seq[k] : k \in 1..n}
           body == [k \in 1..n |-> [x \in States |-> MaxBy(x, seq[k])]]
           turn(g, s) == IF s = {} THEN start ELSE MaxBy(g[s \ {Max(s)}], seq[Max(s)])
           turns == CHOOSE g : g = [s \in SUBSET DOMAIN seq |-> turn(g, s)]
           Holds(k) == LargestSoFar(start, seq, k, turns[1..k])
           Good == {k \in 0..n : Holds(k)}
<1>1. start \in States /\ \A k \in 1..n : \A x \in States : MaxBy(x, seq[k]) \in States
    BY DEF MaxBy
<1> HIDE DEF States
<1>2. \E g : g = [s \in SUBSET DOMAIN seq |-> turn(g, s)]
    <2>1. \A k \in 1..n : \A x \in States : body[k][x] = MaxBy(x, seq[k])
        OBVIOUS
    <2> HIDE DEF body
    <2>2. start \in States /\ Within(n, body, States)
        BY <1>1, <2>1 DEF Within
    <2>3. PICK g : Runs(n, body, States, start, g)
        BY <2>2, TurnsStay
    <2>4. ASSUME NEW s \in SUBSET (1..n) PROVE g[s] = turn(g, s)
        <3>1. CASE s = {}
            BY <2>3, <3>1 DEF Runs, Turn
        <3>2. CASE s # {}
            BY <2>1, <2>3, <3>2, LastPosition DEF Runs, Turn
        <3> QED
            BY <3>1, <3>2
    <2> DEFINE h == [s \in SUBSET (1..n) |-> g[s]]
    <2>5. ASSUME NEW s \in SUBSET (1..n) PROVE h[s] = turn(h, s)
        BY <2>4, LastPosition
    <2>6. h = [s \in SUBSET (1..n) |-> turn(h, s)]
        <3>1. h = [s \in SUBSET (1..n) |-> h[s]]
            OBVIOUS
        <3> HIDE DEF h
        <3> QED
            BY <2>5, <3>1
    <2> QED
        BY <2>6
<1>3. \A s \in SUBSET (1..n) : turns[s] = turn(turns, s)
    <2>1. turns = [s \in SUBSET (1..n) |-> turn(turns, s)]
        BY <1>2, Zenon
    <2> QED
        BY <2>1
<1>4. FoldLeft(MaxBy, start, seq) = turns[1..n]
    BY DEF FoldLeft, MapThenFoldSet
<1> HIDE DEF turns
<1>5. turns[1..0] = start
    BY <1>3, PositionsUpTo
<1>6. \A k \in 1..n : turns[1..k] = MaxBy(turns[1..(k - 1)], seq[k])
    <2> SUFFICES ASSUME NEW k \in 1..n
                 PROVE turns[1..k] = MaxBy(turns[1..(k - 1)], seq[k])
        OBVIOUS
    <2>1. /\ 1..k \in SUBSET (1..n) /\ 1..k # {}
          /\ Max(1..k) = k /\ (1..k) \ {k} = 1..(k - 1)
        BY PositionsUpTo
    <2>2. turns[1..k] = turn(turns, 1..k)
        BY <1>3, <2>1
    <2> QED
        BY <2>1, <2>2, Zenon
<1>7. Holds(0)
    BY <1>5
<1>8. \A k \in 1..n : Holds(k - 1) => Holds(k)
    BY <1>6
<1> HIDE DEF Holds
<1>9. 0 \in Good /\ \A k \in 1..n : k - 1 \in Good => k \in Good
    BY <1>7, <1>8
<1>10. n \in Good
    <2> HIDE DEF Good
    <2> QED
        BY <1>9, LoopInvariant
<1> QED
    BY <1>4, <1>10 DEF Holds

\* The maximum that the first loop finds.
LEMMA MaxScoreIsHighest ==
    ASSUME NEW n \in Nat, NEW seq, DOMAIN seq = 1..n, ScoresIn(seq)
    PROVE LET m == maxScore(seq) IN
          /\ m \in Score /\ ~IsNaN(m)
          /\ m = Zero \/ \E i \in 1..n : m = seq[i].score
          /\ \A i \in 1..n : IsNaN(seq[i].score) \/ AtLeast(m, seq[i].score)
<1>1. HighestSoFar(Zero, seq, 0, Zero)
    BY ZeroIsLeast DEF HighestSoFar
<1>2. ASSUME NEW k \in 1..n, NEW best, HighestSoFar(Zero, seq, k - 1, best)
      PROVE HighestSoFar(Zero, seq, k, higherScore(best, seq[k]))
    <2>1. /\ best \in Score /\ ~IsNaN(best)
          /\ best = Zero \/ \E i \in 1..(k - 1) : best = seq[i].score
          /\ \A i \in 1..(k - 1) : IsNaN(seq[i].score) \/ AtLeast(best, seq[i].score)
        BY <1>2 DEF HighestSoFar
    <2>2. /\ \A i \in 1..k : i = k \/ i \in 1..(k - 1)
          /\ \A i \in 1..(k - 1) : i \in 1..k /\ i \in DOMAIN seq
          /\ k \in 1..k /\ k \in DOMAIN seq
        OBVIOUS
    <2>3. seq[k].score \in Score /\ \A i \in 1..(k - 1) : seq[i].score \in Score
        BY <2>2 DEF ScoresIn
    <2>4. CASE Greater(seq[k].score, best)
        <3>1. ~IsNaN(seq[k].score)
            BY <2>4 DEF Greater
        <3>2. AtLeast(seq[k].score, best) /\ AtLeast(seq[k].score, seq[k].score)
            BY <2>1, <2>3, <2>4, <3>1, AtLeastTotal
        <3>3. \A i \in 1..(k - 1) : IsNaN(seq[i].score) \/ AtLeast(seq[k].score, seq[i].score)
            BY <2>1, <2>3, <3>2, AtLeastTransitive
        <3>4. higherScore(best, seq[k]) = seq[k].score
            BY <2>4 DEF higherScore
        <3> QED
            BY <2>2, <2>3, <3>1, <3>2, <3>3, <3>4 DEF HighestSoFar
    <2>5. CASE ~Greater(seq[k].score, best)
        <3>1. higherScore(best, seq[k]) = best
            BY <2>5 DEF higherScore
        <3>2. IsNaN(seq[k].score) \/ AtLeast(best, seq[k].score)
            BY <2>1, <2>3, <2>5, AtLeastTotal
        <3> QED
            BY <2>1, <2>2, <3>1, <3>2 DEF HighestSoFar
    <2> QED
        BY <2>4, <2>5
<1>3. HighestSoFar(Zero, seq, n, FoldLeft(higherScore, Zero, seq))
    BY <1>1, <1>2, FirstLoopInvariant
<1>4. maxScore(seq) = FoldLeft(higherScore, Zero, seq)
    BY DEF maxScore, Zero
<1> QED
    BY <1>3, <1>4 DEF HighestSoFar

\* The results that the second loop keeps: those that reach the maximum, no others.
LEMMA KeptReachMaximum ==
    ASSUME NEW seq \in Seq(RunResult)
    PROVE LET highest == winningRunResults(seq) IN
          /\ highest \in Seq(RunResult)
          /\ \A j \in DOMAIN highest : \E i \in DOMAIN seq :
               highest[j] = seq[i] /\ Equal(seq[i].score, maxScore(seq))
          /\ \A i \in DOMAIN seq : Equal(seq[i].score, maxScore(seq)) =>
               \E j \in DOMAIN highest : highest[j] = seq[i]
<1> DEFINE n == Len(seq)
           start == [maxScore |-> maxScore(seq), winningRunResults |-> <<>>]
<1>1. n \in Nat /\ DOMAIN seq = 1..n /\ \A i \in 1..n : seq[i] \in RunResult
    OBVIOUS
<1>2. /\ start.maxScore = maxScore(seq) /\ start.winningRunResults = <<>>
      /\ start = [maxScore |-> start.maxScore, winningRunResults |-> <<>>]
    OBVIOUS
<1>3. KeptSoFar(start, seq, 0, start)
    BY DEF KeptSoFar
<1> HIDE DEF start, n
<1>4. ASSUME NEW k \in 1..n, NEW loop, KeptSoFar(start, seq, k - 1, loop)
      PROVE KeptSoFar(start, seq, k, keepEqual(loop, seq[k]))
    <2> DEFINE kept == loop.winningRunResults
    <2>1. /\ loop = [maxScore |-> start.maxScore, winningRunResults |-> kept]
          /\ kept \in Seq(RunResult)
          /\ \A j \in DOMAIN kept : \E i \in 1..(k - 1) :
               kept[j] = seq[i] /\ Equal(seq[i].score, start.maxScore)
          /\ \A i \in 1..(k - 1) : Equal(seq[i].score, start.maxScore) =>
               \E j \in DOMAIN kept : kept[j] = seq[i]
        BY <1>2, <1>4 DEF KeptSoFar
    <2>2. /\ \A i \in 1..k : i = k \/ i \in 1..(k - 1)
          /\ \A i \in 1..(k - 1) : i \in 1..k
          /\ k \in 1..k /\ seq[k] \in RunResult
        BY <1>1
    <2> HIDE DEF kept
    <2>3. CASE ~Equal(seq[k].score, start.maxScore)
        <3>1. keepEqual(loop, seq[k]) = loop
            BY <2>1, <2>3 DEF keepEqual
        <3> QED
            BY <2>1, <2>2, <2>3, <3>1 DEF KeptSoFar, kept
    <2>4. CASE Equal(seq[k].score, start.maxScore)
        <3> DEFINE more == Append(kept, seq[k])
        <3>1. keepEqual(loop, seq[k]) = [maxScore |-> start.maxScore, winningRunResults |-> more]
            BY <2>1, <2>4 DEF keepEqual
        <3>2. /\ more \in Seq(RunResult)
              /\ DOMAIN kept = 1..Len(kept) /\ Len(kept) \in Nat
              /\ DOMAIN more = 1..(Len(kept) + 1)
              /\ \A j \in DOMAIN kept : more[j] = kept[j]
              /\ more[Len(kept) + 1] = seq[k]
            BY <2>1, <2>2
        <3>3. /\ \A j \in DOMAIN more : j \in DOMAIN kept \/ j = Len(kept) + 1
              /\ \A j \in DOMAIN kept : j \in DOMAIN more
              /\ Len(kept) + 1 \in DOMAIN more
            BY <3>2
        <3> HIDE DEF more
        <3>4. \A j \in DOMAIN more : \E i \in 1..k :
                more[j] = seq[i] /\ Equal(seq[i].score, start.maxScore)
            BY <2>1, <2>2, <2>4, <3>2, <3>3
        <3>5. \A i \in 1..k : Equal(seq[i].score, start.maxScore) =>
                \E j \in DOMAIN more : more[j] = seq[i]
            BY <2>1, <2>2, <3>2, <3>3
        <3> QED
            BY <3>1, <3>2, <3>4, <3>5 DEF KeptSoFar
    <2> QED
        BY <2>3, <2>4
<1>5. KeptSoFar(start, seq, n, FoldLeft(keepEqual, start, seq))
    BY <1>1, <1>2, <1>3, <1>4, SecondLoopInvariant
<1>6. winningRunResults(seq) = FoldLeft(keepEqual, start, seq).winningRunResults
    BY DEF winningRunResults, start
<1> QED
    BY <1>1, <1>2, <1>5, <1>6 DEF KeptSoFar

\* What lo.MaxBy finds in a list that is not empty: a largest one of it.
LEMMA TieBreakFindsLargest ==
    ASSUME ScoresAssumption, NEW seq \in Seq(RunResult), seq # <<>>
    PROVE \E i \in DOMAIN seq :
            tieBreak(seq) = seq[i] /\ \A j \in DOMAIN seq : seq[i].capacity >= seq[j].capacity
<1> DEFINE first == Head(seq)
           rest == Tail(seq)
           n == Len(rest)
<1>1. /\ Len(seq) \in Nat /\ Len(seq) > 0 /\ DOMAIN seq = 1..Len(seq)
      /\ first = seq[1] /\ 1 \in DOMAIN seq
      /\ rest \in Seq(RunResult) /\ n = Len(seq) - 1 /\ n \in Nat /\ DOMAIN rest = 1..n
      /\ \A i \in 1..n : rest[i] = seq[i + 1] /\ i + 1 \in DOMAIN seq
      /\ \A i \in DOMAIN seq : i = 1 \/ (i - 1 \in 1..n /\ seq[i] = rest[i - 1])
    OBVIOUS
<1>2. \A r \in RunResult : r.capacity \in Nat
    BY ScoresAssumption DEF RunResult
<1>3. first.capacity \in Nat /\ \A i \in 1..n : rest[i].capacity \in Nat
    BY <1>1, <1>2
<1> HIDE DEF first, rest, n
<1>4. LargestSoFar(first, rest, 0, first)
    BY <1>3 DEF LargestSoFar
<1>5. ASSUME NEW k \in 1..n, NEW best, LargestSoFar(first, rest, k - 1, best)
      PROVE LargestSoFar(first, rest, k, MaxBy(best, rest[k]))
    <2>1. /\ best = first \/ \E i \in 1..(k - 1) : best = rest[i]
          /\ best.capacity \in Nat /\ best.capacity >= first.capacity
          /\ \A i \in 1..(k - 1) : best.capacity >= rest[i].capacity
        BY <1>1, <1>3, <1>5 DEF LargestSoFar
    <2>2. /\ \A i \in 1..k : i = k \/ i \in 1..(k - 1)
          /\ \A i \in 1..(k - 1) : i \in 1..k /\ rest[i].capacity \in Nat
          /\ k \in 1..k /\ rest[k].capacity \in Nat
        BY <1>1, <1>3
    <2>3. CASE rest[k].capacity > best.capacity
        <3>1. MaxBy(best, rest[k]) = rest[k]
            BY <2>3 DEF MaxBy
        <3>2. rest[k].capacity >= first.capacity
            BY <1>3, <2>1, <2>2, <2>3
        <3>3. \A i \in 1..k : rest[k].capacity >= rest[i].capacity
            BY <2>1, <2>2, <2>3
        <3> QED
            BY <2>2, <3>1, <3>2, <3>3 DEF LargestSoFar
    <2>4. CASE ~(rest[k].capacity > best.capacity)
        <3>1. MaxBy(best, rest[k]) = best
            BY <2>4 DEF MaxBy
        <3>2. \A i \in 1..k : best.capacity >= rest[i].capacity
            BY <2>1, <2>2, <2>4
        <3> QED
            BY <2>1, <2>2, <3>1, <3>2 DEF LargestSoFar
    <2> QED
        BY <2>3, <2>4
<1>6. LargestSoFar(first, rest, n, FoldLeft(MaxBy, first, rest))
    BY <1>1, <1>4, <1>5, MaxByLoopInvariant
<1>7. tieBreak(seq) = FoldLeft(MaxBy, first, rest)
    BY DEF tieBreak, first, rest
<1> DEFINE best == tieBreak(seq)
<1>8. /\ best = first \/ \E i \in 1..n : best = rest[i]
      /\ best.capacity >= first.capacity
      /\ \A i \in 1..n : best.capacity >= rest[i].capacity
    BY <1>1, <1>3, <1>6, <1>7 DEF LargestSoFar
<1> HIDE DEF best
<1>9. PICK i \in DOMAIN seq : best = seq[i]
    BY <1>1, <1>8
<1>10. \A j \in DOMAIN seq : best.capacity >= seq[j].capacity
    BY <1>1, <1>8
<1> QED
    BY <1>9, <1>10 DEF best

-----------------------------------------------------------------------------
(* The results kept while the channel is drained *)

\* Results are kept only if they have a winner: none has the score zero.
KeptOK == results \in Seq(RunResult) /\ \A i \in DOMAIN results : HasWinner(results[i])

\* Nothing is kept at first.
LEMMA InitKept == Init => KeptOK
BY DEF Init, KeptOK

\* A message keeps what was kept and adds a result with a winner or nothing.
LEMMA NextKept == KeptOK /\ [Next]_vars => KeptOK'
<1> SUFFICES ASSUME KeptOK, [Next]_vars PROVE KeptOK'
    OBVIOUS
<1>1. ASSUME NEW r \in RunResult, Receive(r) PROVE KeptOK'
    <2>1. CASE ~HasWinner(r)
        BY <1>1, <2>1 DEF Receive, KeptOK
    <2>2. CASE HasWinner(r)
        <3>1. results' = Append(results, r)
            BY <1>1, <2>2 DEF Receive
        <3>2. /\ results' \in Seq(RunResult)
              /\ \A i \in DOMAIN results' :
                   (i \in DOMAIN results /\ results'[i] = results[i]) \/ results'[i] = r
            BY <3>1 DEF KeptOK
        <3> QED
            BY <2>2, <3>2 DEF KeptOK
    <2> QED
        BY <2>1, <2>2
<1>2. CASE UNCHANGED vars
    BY <1>2 DEF vars, KeptOK
<1> QED
    BY <1>1, <1>2 DEF Next

-----------------------------------------------------------------------------
(* The choice *)

\* The scores that equal the running maximum are those that no other one beats.
LEMMA HighestReachMaximum ==
    ASSUME KeptOK
    PROVE \A r \in Kept : r \in HighestScore(Kept) <=> Equal(r.score, maxScore(results))
<1> DEFINE n == Len(results)
           m == maxScore(results)
<1>1. /\ n \in Nat /\ DOMAIN results = 1..n
      /\ \A i \in 1..n : results[i] \in RunResult /\ HasWinner(results[i])
    BY DEF KeptOK
<1>2. \A r \in RunResult : r.score \in Score
    BY ScoresAssumption DEF RunResult
<1>3. ScoresIn(results)
    BY <1>1, <1>2 DEF ScoresIn
<1>4. /\ m \in Score /\ ~IsNaN(m)
      /\ m = Zero \/ \E i \in 1..n : m = results[i].score
      /\ \A i \in 1..n : IsNaN(results[i].score) \/ AtLeast(m, results[i].score)
    BY <1>1, <1>3, MaxScoreIsHighest
<1>5. \A r : r \in Kept <=> \E i \in 1..n : r = results[i]
    BY <1>1 DEF Kept
<1> HIDE DEF n, m
<1>6. /\ \A q \in Kept : q.score \in Score /\ ~IsZero(q.score)
      /\ m = Zero \/ \E q \in Kept : m = q.score
      /\ \A q \in Kept : IsNaN(q.score) \/ AtLeast(m, q.score)
    BY <1>1, <1>2, <1>4, <1>5 DEF HasWinner
<1>7. ASSUME NEW r \in Kept, Equal(r.score, m) PROVE r \in HighestScore(Kept)
    <2>1. r.score \in Score /\ ~IsNaN(r.score)
        BY <1>6, <1>7 DEF Equal
    <2>2. AtLeast(r.score, m)
        BY <1>4, <1>7, <2>1, AtLeastTotal
    <2>3. \A q \in Kept : IsNaN(q.score) \/ AtLeast(r.score, q.score)
        BY <1>4, <1>6, <2>1, <2>2, AtLeastTransitive
    <2> QED
        BY <2>1, <2>3 DEF HighestScore
<1>8. ASSUME NEW r \in HighestScore(Kept) PROVE Equal(r.score, m)
    <2>1. /\ r \in Kept /\ ~IsNaN(r.score)
          /\ \A q \in Kept : IsNaN(q.score) \/ AtLeast(r.score, q.score)
        BY DEF HighestScore
    <2>2. r.score \in Score /\ AtLeast(m, r.score)
        BY <1>6, <2>1
    <2>3. m # Zero
        BY <1>6, <2>1, <2>2, ZeroIsLeast
    <2>4. AtLeast(r.score, m)
        BY <1>4, <1>6, <2>1, <2>3
    <2> QED
        BY <1>4, <2>1, <2>2, <2>4, AtLeastTotal
<1>9. \A r \in HighestScore(Kept) : r \in Kept
    BY DEF HighestScore
<1> QED
    BY <1>7, <1>8, <1>9 DEF m

\* What the loops choose: nothing, when no kept result has a number as score, or else
\* a winner.
LEMMA ChoiceIsWinner ==
    ASSUME KeptOK
    PROVE LET winner == getWinningRunResult(results) IN
          \/ HighestScore(Kept) = {} /\ winner = Nil
          \/ winner \in Winners(Kept)
<1> DEFINE highest == winningRunResults(results)
           winner == getWinningRunResult(results)
<1>1. results \in Seq(RunResult) /\ \A r : r \in Kept <=> \E i \in DOMAIN results : r = results[i]
    BY DEF KeptOK, Kept
<1>2. /\ highest \in Seq(RunResult)
      /\ \A j \in DOMAIN highest : \E i \in DOMAIN results :
           highest[j] = results[i] /\ Equal(results[i].score, maxScore(results))
      /\ \A i \in DOMAIN results : Equal(results[i].score, maxScore(results)) =>
           \E j \in DOMAIN highest : highest[j] = results[i]
    BY <1>1, KeptReachMaximum
<1>3. winner = IF Len(highest) = 1 THEN highest[1] ELSE tieBreak(highest)
    BY DEF getWinningRunResult
<1> HIDE DEF highest, winner
<1>4. \A r : r \in HighestScore(Kept) <=> \E j \in DOMAIN highest : r = highest[j]
    <2>1. ASSUME NEW r \in HighestScore(Kept) PROVE \E j \in DOMAIN highest : r = highest[j]
        <3>1. r \in Kept /\ Equal(r.score, maxScore(results))
            BY HighestReachMaximum DEF HighestScore
        <3> QED
            BY <1>1, <1>2, <3>1
    <2>2. ASSUME NEW j \in DOMAIN highest PROVE highest[j] \in HighestScore(Kept)
        <3>1. PICK i \in DOMAIN results :
                 highest[j] = results[i] /\ Equal(results[i].score, maxScore(results))
            BY <1>2
        <3>2. results[i] \in Kept
            BY <1>1
        <3> QED
            BY <3>1, <3>2, HighestReachMaximum
    <2> QED
        BY <2>1, <2>2
<1>5. CASE highest = <<>>
    <2>1. winner = Nil
        BY <1>3, <1>5 DEF tieBreak
    <2>2. HighestScore(Kept) = {}
        BY <1>4, <1>5
    <2> QED
        BY <2>1, <2>2 DEF winner
<1>6. CASE highest # <<>>
    <2>1. \E j \in DOMAIN highest :
            winner = highest[j] /\ \A k \in DOMAIN highest : highest[j].capacity >= highest[k].capacity
        <3>1. CASE Len(highest) = 1
            <4>1. DOMAIN highest = {1} /\ highest[1] \in RunResult
                BY <1>2, <3>1
            <4>2. highest[1].capacity \in Nat
                BY <4>1, ScoresAssumption DEF RunResult
            <4>3. winner = highest[1] /\ highest[1].capacity >= highest[1].capacity
                BY <1>3, <3>1, <4>2
            <4> QED
                BY <4>1, <4>3
        <3>2. CASE Len(highest) # 1
            BY <1>2, <1>3, <1>6, <3>2, ScoresAssumption, TieBreakFindsLargest
        <3> QED
            BY <3>1, <3>2
    <2>2. winner \in HighestScore(Kept) /\ \A q \in HighestScore(Kept) : winner.capacity >= q.capacity
        BY <1>4, <2>1
    <2>3. winner \in Winners(Kept)
        BY <2>2 DEF Winners
    <2> QED
        BY <2>3 DEF winner
<1> QED
    BY <1>5, <1>6

\* Only results with a winner are kept, whatever comes through the channel.
THEOREM KeptInvariance == Spec => []KeptOK
BY InitKept, NextKept, PTL DEF Spec

\* The result chosen is one that no other kept result beats, for any number of results
\* in any order, and there is one unless no kept result has a number as score.
THEOREM ChosenIsBest == Spec => []WinnerIsBest
<1>1. KeptOK => WinnerIsBest
    <2> SUFFICES ASSUME KeptOK PROVE WinnerIsBest
        OBVIOUS
    <2>1. CASE HighestScore(Kept) = {} /\ getWinningRunResult(results) = Nil
        BY <2>1 DEF WinnerIsBest, Winners
    <2>2. CASE getWinningRunResult(results) \in Winners(Kept)
        BY <2>2 DEF WinnerIsBest
    <2> QED
        BY <2>1, <2>2, ChoiceIsWinner
<1> QED
    BY KeptInvariance, <1>1, PTL

\* A pool whose instance type has no price wins against every priced one, as soon as
\* anything was scheduled on its node.
THEOREM NoPriceWins == Spec => []UnpricedWins
<1>1. KeptOK => UnpricedWins
    <2> SUFFICES ASSUME KeptOK, NEW r \in Kept, r.score.price = 0, r.score.units > 0
                 PROVE  /\ getWinningRunResult(results) # Nil
                        /\ getWinningRunResult(results).score.price = 0
        BY DEF UnpricedWins
    <2>1. \A q \in Kept : q \in RunResult /\ q.score \in Score
        <3>1. \A i \in DOMAIN results : results[i] \in RunResult
            BY DEF KeptOK
        <3>2. \A q \in RunResult : q.score \in Score
            BY ScoresAssumption DEF RunResult
        <3> QED
            BY <3>1, <3>2 DEF Kept
    <2>2. \A s \in Score : s.units \in Nat /\ s.price \in Nat
        BY DEF Score
    <2>3. ~IsNaN(r.score)
        BY <2>1, <2>2 DEF IsNaN
    <2>4. ASSUME NEW q \in Kept, ~IsNaN(q.score) PROVE AtLeast(r.score, q.score)
        <3>1. q.score.units * r.score.price = 0
            BY <2>1, <2>2
        <3>2. r.score.units * q.score.price \in Nat
            BY <2>1, <2>2
        <3> QED
            BY <2>3, <2>4, <3>1, <3>2 DEF AtLeast
    <2>5. r \in HighestScore(Kept)
        BY <2>3, <2>4 DEF HighestScore
    <2>6. PICK w : w = getWinningRunResult(results)
        OBVIOUS
    <2>7. w \in Winners(Kept)
        BY <2>5, <2>6, ChoiceIsWinner
    <2>8. w \in Kept /\ AtLeast(w.score, r.score)
        BY <2>3, <2>5, <2>7 DEF Winners, HighestScore
    <2>9. w.score.price = 0
        <3> DEFINE p == w.score.price
                   u == r.score.units
        <3>1. p \in Nat /\ u \in Nat /\ u > 0 /\ w.score.units \in Nat
            BY <2>1, <2>2, <2>8
        <3>2. 0 >= u * p
            BY <2>8, <3>1 DEF AtLeast
        <3> HIDE DEF p, u
        <3>3. p = 0
            <4> SUFFICES ASSUME p >= 1 PROVE FALSE
                BY <3>1
            <4>1. p * u >= 1 * u
                BY <3>1, Multiply
            <4>2. p * u = u * p
                BY <3>1
            <4> QED
                BY <3>1, <3>2, <4>1, <4>2
        <3> QED
            BY <3>3 DEF p
    <2> QED
        BY <2>1, <2>6, <2>8, <2>9, NilAssumption
<1> QED
    BY KeptInvariance, <1>1, PTL

=============================================================================
