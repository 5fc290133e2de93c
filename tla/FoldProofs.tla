----------------------------- MODULE FoldProofs -----------------------------
(***************************************************************************)
(* Lemmas about the folds that the models are written with.                *)
(*                                                                         *)
(* Sums: SumFunctionOnSet, with which the models add up memory and         *)
(* resources, does not depend on the order in which the fold takes the     *)
(* elements, it splits over disjoint sets, it grows with the set, and it   *)
(* is preserved by renaming the elements; Max finds a largest number.      *)
(*                                                                         *)
(* Loops: FoldLeft, with which the models write a loop over a sequence,    *)
(* takes its positions one by one, and an invariant of its turns holds at  *)
(* the end.  The provers cannot put an operator in the place of another,   *)
(* so the body of a loop is a function here, from the positions to the     *)
(* functions that the turns apply to the loop's state.                     *)
(*                                                                         *)
(* The induction is over the finite subsets of a set: a set of subsets     *)
(* that is not empty has a member of which no other one is a subset.       *)
(***************************************************************************)
EXTENDS FiniteSetsExt, FiniteSetTheorems, TLAPS

-----------------------------------------------------------------------------
(* Induction over finite sets *)

\* The induction principle: a claim fails for no subset of a finite set if there is
\* no smallest one that it fails for.
LEMMA SmallestSubset ==
    ASSUME NEW S, IsFiniteSet(S), NEW Bad \in SUBSET (SUBSET S), Bad # {}
    PROVE \E T \in Bad : \A U \in Bad : U \subseteq T => U = T
<1>1. IsWellFoundedOn(StrictSubsetOrdering(S), FiniteSubsetsOf(S))
    BY FS_StrictSubsetOrderingWellFounded
<1>2. FiniteSubsetsOf(S) = SUBSET S
    BY FS_FiniteSubsetsOfFinite
<1>3. IsWellFoundedOn(StrictSubsetOrdering(S), SUBSET S)
    BY <1>1, <1>2
<1>4. PICK T \in Bad : \A U \in Bad : <<U, T>> \notin StrictSubsetOrdering(S)
    BY <1>3, WFMin
<1>5. \A U \in Bad : U \subseteq T => U = T
    BY <1>4 DEF StrictSubsetOrdering
<1> QED
    BY <1>5

-----------------------------------------------------------------------------
(* The fold is well defined *)

\* One step of the fold, and the function that MapThenFoldSet computes with.
Taken(s) == CHOOSE x \in s : TRUE
OneStep(f, g, s) == IF s = {} THEN 0 ELSE f[Taken(s)] + g[s \ {Taken(s)}]
Sums(f, S) == CHOOSE g : g = [s \in SUBSET S |-> OneStep(f, g, s)]

\* The sum over a set is the value at that set of the function that takes one element at a time.
LEMMA SumIsFold ==
    ASSUME NEW f, NEW S
    PROVE SumFunctionOnSet(f, S) = Sums(f, S)[S]
    BY DEF SumFunctionOnSet, FoldFunctionOnSet, MapThenFoldSet, Sums, OneStep, Taken

\* The recursion has a solution: one for the sets of n elements gives one for those
\* of n + 1.
LEMMA FoldExists ==
    ASSUME NEW S, IsFiniteSet(S), NEW f
    PROVE \E g : g = [s \in SUBSET S |-> OneStep(f, g, s)]
<1> DEFINE Solves(g, n) == \A s \in SUBSET S : Cardinality(s) <= n => g[s] = OneStep(f, g, s)
           Solved(n) == \E h : h = [s \in SUBSET S |-> h[s]] /\ Solves(h, n)
           Bad == {T \in SUBSET S : ~Solved(Cardinality(T))}
<1>1. \A s \in SUBSET S : IsFiniteSet(s) /\ Cardinality(s) \in Nat
    BY FS_Subset, FS_CardinalityType
<1>2. \A s \in SUBSET S : s # {} => /\ Taken(s) \in s /\ s \ {Taken(s)} \in SUBSET S
                                    /\ Cardinality(s \ {Taken(s)}) = Cardinality(s) - 1
    BY <1>1, FS_RemoveElement DEF Taken
<1>3. \A s \in SUBSET S : Cardinality(s) = 0 <=> s = {}
    BY <1>1, FS_EmptySet
<1>4. Solved(0)
    <2> DEFINE g == [s \in SUBSET S |-> 0]
    <2>1. g = [s \in SUBSET S |-> g[s]]
        OBVIOUS
    <2>2. Solves(g, 0)
        BY <1>1, <1>3 DEF OneStep
    <2> HIDE DEF g, Solves
    <2> QED
        BY <2>1, <2>2
<1>5. ASSUME NEW n \in Nat, Solved(n) PROVE Solved(n + 1)
    <2>1. PICK h : Solves(h, n)
        BY <1>5
    <2> DEFINE g == [s \in SUBSET S |-> IF Cardinality(s) <= n THEN h[s] ELSE OneStep(f, h, s)]
    <2>2. g = [s \in SUBSET S |-> g[s]]
        OBVIOUS
    <2>3. ASSUME NEW s \in SUBSET S, Cardinality(s) <= n + 1
          PROVE g[s] = OneStep(f, h, s)
        BY <2>1, <2>3, <1>1
    <2>4. ASSUME NEW s \in SUBSET S, Cardinality(s) <= n + 1
          PROVE OneStep(f, g, s) = OneStep(f, h, s)
        <3>1. CASE s = {}
            BY <3>1 DEF OneStep
        <3>2. CASE s # {}
            <4>1. Cardinality(s \ {Taken(s)}) <= n
                BY <1>1, <1>2, <2>4, <3>2
            <4>2. g[s \ {Taken(s)}] = h[s \ {Taken(s)}]
                BY <1>2, <3>2, <4>1
            <4> HIDE DEF g
            <4> QED
                BY <3>2, <4>2 DEF OneStep
        <3> QED
            BY <3>1, <3>2
    <2>5. Solves(g, n + 1)
        BY <2>3, <2>4
    <2> HIDE DEF g, Solves
    <2> QED
        BY <2>2, <2>5
<1>6. Bad = {}
    <2> SUFFICES ASSUME Bad # {} PROVE FALSE
        OBVIOUS
    <2>1. PICK T \in Bad : \A U \in Bad : U \subseteq T => U = T
        <3>1. Bad \in SUBSET (SUBSET S)
            OBVIOUS
        <3> HIDE DEF Bad
        <3> QED
            BY <3>1, SmallestSubset
    <2>2. T # {}
        <3> HIDE DEF Solved
        <3> QED
            BY <1>3, <1>4
    <2> DEFINE U == T \ {Taken(T)}
    <2>3. U \in SUBSET S /\ U # T /\ U \subseteq T /\ Cardinality(T) = Cardinality(U) + 1
        BY <1>1, <1>2, <2>2
    <2>4. Solved(Cardinality(U))
        <3> HIDE DEF Solved
        <3> QED
            BY <2>1, <2>3
    <2>5. Cardinality(U) \in Nat
        BY <1>1, <2>3
    <2> HIDE DEF Solved, U
    <2>6. Solved(Cardinality(U) + 1)
        BY <1>5, <2>4, <2>5
    <2> QED
        BY <2>3, <2>6
<1>7. Solved(Cardinality(S))
    <2> HIDE DEF Solved
    <2> QED
        BY <1>6
<1>8. PICK g : g = [s \in SUBSET S |-> g[s]] /\ Solves(g, Cardinality(S))
    BY <1>7
<1>9. \A s \in SUBSET S : Cardinality(s) <= Cardinality(S)
    BY FS_Subset
<1>10. \A s \in SUBSET S : g[s] = OneStep(f, g, s)
    BY <1>8, <1>9
<1>11. g = [s \in SUBSET S |-> OneStep(f, g, s)]
    BY <1>8, <1>10
<1> QED
    BY <1>11

\* Each value of that function is one step from a smaller one.
LEMMA FoldStep ==
    ASSUME NEW S, IsFiniteSet(S), NEW f
    PROVE \A s \in SUBSET S : Sums(f, S)[s] = OneStep(f, Sums(f, S), s)
<1>1. \E g : g = [s \in SUBSET S |-> OneStep(f, g, s)]
    BY FoldExists, SMTT(30)
<1> DEFINE sums == Sums(f, S)
<1>2. sums = [s \in SUBSET S |-> OneStep(f, sums, s)]
    BY <1>1, ZenonT(30) DEF Sums
<1> HIDE DEF sums
<1>3. \A s \in SUBSET S : sums[s] = OneStep(f, sums, s)
    BY <1>2, ZenonT(30)
<1> QED
    BY <1>3 DEF sums

\* The sum over a subset does not depend on the set the fold starts from.
LEMMA FoldUnique ==
    ASSUME NEW S, IsFiniteSet(S), NEW f, NEW U \in SUBSET S
    PROVE Sums(f, S)[U] = Sums(f, U)[U]
<1> DEFINE Bad == {T \in SUBSET U : Sums(f, S)[T] # Sums(f, U)[T]}
<1>1. IsFiniteSet(U)
    BY FS_Subset
<1>2. Bad = {}
    <2> SUFFICES ASSUME Bad # {} PROVE FALSE
        OBVIOUS
    <2>1. PICK T \in Bad : \A V \in Bad : V \subseteq T => V = T
        <3>1. Bad \in SUBSET (SUBSET U)
            OBVIOUS
        <3> HIDE DEF Bad
        <3> QED
            BY <1>1, <3>1, SmallestSubset
    <2>2. /\ Sums(f, S)[T] = OneStep(f, Sums(f, S), T)
          /\ Sums(f, U)[T] = OneStep(f, Sums(f, U), T)
        BY <1>1, FoldStep
    <2>3. T # {}
        BY <2>2 DEF OneStep
    <2>4. Taken(T) \in T
        BY <2>3 DEF Taken
    <2>5. Sums(f, S)[T \ {Taken(T)}] = Sums(f, U)[T \ {Taken(T)}]
        BY <2>1, <2>4
    <2> QED
        BY <2>2, <2>3, <2>5 DEF OneStep
<1> QED
    BY <1>2

-----------------------------------------------------------------------------
(* Sums of natural numbers *)

\* Nothing sums up to zero.
LEMMA SumEmpty == ASSUME NEW f PROVE SumFunctionOnSet(f, {}) = 0
<1>1. Sums(f, {})[{}] = OneStep(f, Sums(f, {}), {})
    BY FoldStep, FS_EmptySet
<1> QED
    BY <1>1, SumIsFold DEF OneStep

\* The sum is the element that CHOOSE takes and the sum of the rest.
LEMMA SumTaken ==
    ASSUME NEW S, IsFiniteSet(S), S # {}, NEW f
    PROVE /\ Taken(S) \in S
          /\ SumFunctionOnSet(f, S) = f[Taken(S)] + SumFunctionOnSet(f, S \ {Taken(S)})
<1>1. Taken(S) \in S
    BY DEF Taken
<1>2. Sums(f, S)[S] = f[Taken(S)] + Sums(f, S)[S \ {Taken(S)}]
    BY FoldStep DEF OneStep
<1>3. Sums(f, S)[S \ {Taken(S)}] = Sums(f, S \ {Taken(S)})[S \ {Taken(S)}]
    BY FoldUnique
<1> QED
    BY <1>1, <1>2, <1>3, SumIsFold

\* A sum of natural numbers is one.
LEMMA SumType ==
    ASSUME NEW S, IsFiniteSet(S), NEW f, \A x \in S : f[x] \in Nat
    PROVE SumFunctionOnSet(f, S) \in Nat
<1> DEFINE Bad == {T \in SUBSET S : SumFunctionOnSet(f, T) \notin Nat}
<1>1. Bad = {}
    <2> SUFFICES ASSUME Bad # {} PROVE FALSE
        OBVIOUS
    <2>1. PICK T \in Bad : \A U \in Bad : U \subseteq T => U = T
        <3>1. Bad \in SUBSET (SUBSET S)
            OBVIOUS
        <3> HIDE DEF Bad
        <3> QED
            BY <3>1, SmallestSubset
    <2>2. T # {} /\ IsFiniteSet(T)
        <3>1. T \in SUBSET S /\ SumFunctionOnSet(f, T) \notin Nat
            OBVIOUS
        <3>2. T # {}
            BY <3>1, SumEmpty
        <3> QED
            BY <3>1, <3>2, FS_Subset
    <2>3. /\ Taken(T) \in T
          /\ SumFunctionOnSet(f, T) = f[Taken(T)] + SumFunctionOnSet(f, T \ {Taken(T)})
        BY <2>2, SumTaken
    <2>4. SumFunctionOnSet(f, T \ {Taken(T)}) \in Nat
        BY <2>1, <2>3
    <2> QED
        BY <2>3, <2>4
<1> QED
    BY <1>1

\* Any element may be taken out first.
LEMMA SumRemove ==
    ASSUME NEW S, IsFiniteSet(S), NEW f, \A x \in S : f[x] \in Nat, NEW y \in S
    PROVE SumFunctionOnSet(f, S) = f[y] + SumFunctionOnSet(f, S \ {y})
<1> DEFINE Bad == {T \in SUBSET S :
                      \E x \in T : SumFunctionOnSet(f, T) # f[x] + SumFunctionOnSet(f, T \ {x})}
<1>1. Bad = {}
    <2> SUFFICES ASSUME Bad # {} PROVE FALSE
        OBVIOUS
    <2>1. PICK T \in Bad : \A U \in Bad : U \subseteq T => U = T
        <3>1. Bad \in SUBSET (SUBSET S)
            OBVIOUS
        <3> HIDE DEF Bad
        <3> QED
            BY <3>1, SmallestSubset
    <2>2. PICK x \in T : SumFunctionOnSet(f, T) # f[x] + SumFunctionOnSet(f, T \ {x})
        BY <2>1
    <2>3. T # {} /\ IsFiniteSet(T) /\ T \in SUBSET S
        BY <2>1, FS_Subset
    <2>4. PICK c \in T : SumFunctionOnSet(f, T) = f[c] + SumFunctionOnSet(f, T \ {c})
        BY <2>3, SumTaken
    <2>5. c # x
        BY <2>2, <2>4
    <2>6. SumFunctionOnSet(f, T \ {c}) = f[x] + SumFunctionOnSet(f, (T \ {c}) \ {x})
        <3>1. T \ {c} \in SUBSET S /\ T \ {c} \subseteq T /\ T \ {c} # T /\ x \in T \ {c}
            BY <2>3, <2>5
        <3>2. T \ {c} \notin Bad
            <4> HIDE DEF Bad
            <4> QED
                BY <2>1, <3>1
        <3> QED
            BY <3>1, <3>2
    <2>7. SumFunctionOnSet(f, T \ {x}) = f[c] + SumFunctionOnSet(f, (T \ {x}) \ {c})
        <3>1. T \ {x} \in SUBSET S /\ T \ {x} \subseteq T /\ T \ {x} # T /\ c \in T \ {x}
            BY <2>3, <2>5
        <3>2. T \ {x} \notin Bad
            <4> HIDE DEF Bad
            <4> QED
                BY <2>1, <3>1
        <3> QED
            BY <3>1, <3>2
    <2>8. (T \ {x}) \ {c} = (T \ {c}) \ {x}
        OBVIOUS
    <2>9. IsFiniteSet((T \ {c}) \ {x}) /\ \A z \in (T \ {c}) \ {x} : f[z] \in Nat
        BY <2>3, FS_Subset
    <2>10. SumFunctionOnSet(f, (T \ {c}) \ {x}) \in Nat /\ f[c] \in Nat /\ f[x] \in Nat
        BY <2>3, <2>9, SumType
    <2>11. SumFunctionOnSet(f, T) = f[c] + (f[x] + SumFunctionOnSet(f, (T \ {c}) \ {x}))
        BY <2>4, <2>6
    <2>12. f[x] + SumFunctionOnSet(f, T \ {x})
               = f[x] + (f[c] + SumFunctionOnSet(f, (T \ {c}) \ {x}))
        BY <2>7, <2>8
    <2>13. \A a, b, d \in Nat : a + (b + d) = b + (a + d)
        OBVIOUS
    <2> QED
        BY <2>2, <2>10, <2>11, <2>12, <2>13
<1> QED
    BY <1>1

\* One element more adds its value to the sum.
LEMMA SumAdd ==
    ASSUME NEW S, IsFiniteSet(S), NEW f, \A x \in S : f[x] \in Nat, NEW y, y \notin S, f[y] \in Nat
    PROVE SumFunctionOnSet(f, S \cup {y}) = SumFunctionOnSet(f, S) + f[y]
<1>1. IsFiniteSet(S \cup {y})
    BY FS_AddElement
<1>2. SumFunctionOnSet(f, S \cup {y}) = f[y] + SumFunctionOnSet(f, (S \cup {y}) \ {y})
    BY <1>1, SumRemove
<1>3. (S \cup {y}) \ {y} = S
    OBVIOUS
<1>4. SumFunctionOnSet(f, S) \in Nat
    BY SumType
<1>5. SumFunctionOnSet(f, S \cup {y}) = f[y] + SumFunctionOnSet(f, S)
    BY <1>2, <1>3
<1>6. \A a, b \in Nat : a + b = b + a
    OBVIOUS
<1> QED
    BY <1>4, <1>5, <1>6

\* The sum over two disjoint sets is the sum of their sums.
LEMMA SumDisjoint ==
    ASSUME NEW S, IsFiniteSet(S), NEW T, IsFiniteSet(T), S \cap T = {},
           NEW f, \A x \in S \cup T : f[x] \in Nat
    PROVE SumFunctionOnSet(f, S \cup T) = SumFunctionOnSet(f, S) + SumFunctionOnSet(f, T)
<1> DEFINE Bad == {U \in SUBSET T :
               SumFunctionOnSet(f, S \cup U) # SumFunctionOnSet(f, S) + SumFunctionOnSet(f, U)}
<1>1. SumFunctionOnSet(f, S) \in Nat
    BY SumType
<1>2. Bad = {}
    <2> SUFFICES ASSUME Bad # {} PROVE FALSE
        OBVIOUS
    <2>1. PICK U \in Bad : \A V \in Bad : V \subseteq U => V = U
        <3>1. Bad \in SUBSET (SUBSET T)
            OBVIOUS
        <3> HIDE DEF Bad
        <3> QED
            BY <3>1, SmallestSubset
    <2>2. U # {}
        <3>1. S \cup {} = S
            OBVIOUS
        <3> QED
            BY <1>1, <3>1, SumEmpty
    <2>3. PICK x : x \in U
        BY <2>2
    <2>4. IsFiniteSet(U) /\ IsFiniteSet(U \ {x}) /\ IsFiniteSet(S \cup (U \ {x}))
        BY FS_Subset, FS_Union
    <2>5. SumFunctionOnSet(f, S \cup (U \ {x}))
              = SumFunctionOnSet(f, S) + SumFunctionOnSet(f, U \ {x})
        BY <2>1, <2>3
    <2>6. SumFunctionOnSet(f, U) = f[x] + SumFunctionOnSet(f, U \ {x})
        BY <2>3, <2>4, SumRemove
    <2>7. SumFunctionOnSet(f, (S \cup (U \ {x})) \cup {x})
              = SumFunctionOnSet(f, S \cup (U \ {x})) + f[x]
        BY <2>3, <2>4, SumAdd
    <2>8. (S \cup (U \ {x})) \cup {x} = S \cup U
        BY <2>3
    <2>9. SumFunctionOnSet(f, U \ {x}) \in Nat /\ f[x] \in Nat
        BY <2>3, <2>4, SumType
    <2>10. SumFunctionOnSet(f, S \cup U) # SumFunctionOnSet(f, S) + SumFunctionOnSet(f, U)
        BY <2>1
    <2>11. SumFunctionOnSet(f, S \cup U) = SumFunctionOnSet(f, S \cup (U \ {x})) + f[x]
        BY <2>7, <2>8
    <2> HIDE DEF Bad
    <2>12. SumFunctionOnSet(f, S \cup U)
               = (SumFunctionOnSet(f, S) + SumFunctionOnSet(f, U \ {x})) + f[x]
        BY <2>5, <2>11
    <2>13. SumFunctionOnSet(f, S) + SumFunctionOnSet(f, U)
               = SumFunctionOnSet(f, S) + (f[x] + SumFunctionOnSet(f, U \ {x}))
        BY <2>6
    <2>14. \A a, b, c \in Nat : (a + b) + c = a + (c + b)
        OBVIOUS
    <2> QED
        BY <1>1, <2>9, <2>10, <2>12, <2>13, <2>14
<1>3. T \notin Bad
    BY <1>2
<1> QED
    BY <1>3

\* A larger set has no smaller sum.
LEMMA SumMonotone ==
    ASSUME NEW S, IsFiniteSet(S), NEW f, \A x \in S : f[x] \in Nat, NEW T \in SUBSET S
    PROVE SumFunctionOnSet(f, T) <= SumFunctionOnSet(f, S)
<1>1. IsFiniteSet(T) /\ IsFiniteSet(S \ T) /\ T \cap (S \ T) = {} /\ T \cup (S \ T) = S
    BY FS_Subset
<1>2. SumFunctionOnSet(f, S) = SumFunctionOnSet(f, T) + SumFunctionOnSet(f, S \ T)
    BY <1>1, SumDisjoint
<1>3. SumFunctionOnSet(f, T) \in Nat /\ SumFunctionOnSet(f, S \ T) \in Nat
    BY <1>1, SumType
<1> QED
    BY <1>2, <1>3

\* The sum only depends on the numbers: the elements may be renamed.
Image(h, U) == {h[x] : x \in U}

\* Counting the elements under other names, each under one of its own, leaves the sum.
LEMMA SumRenamed ==
    ASSUME NEW S, IsFiniteSet(S), NEW f, \A x \in S : f[x] \in Nat,
           NEW h, NEW g,
           \A x \in S : g[h[x]] = f[x],
           \A x, y \in S : h[x] = h[y] => x = y
    PROVE SumFunctionOnSet(g, Image(h, S)) = SumFunctionOnSet(f, S)
<1> DEFINE Bad == {U \in SUBSET S :
                      SumFunctionOnSet(g, Image(h, U)) # SumFunctionOnSet(f, U)}
<1>1. Bad = {}
    <2> SUFFICES ASSUME Bad # {} PROVE FALSE
        OBVIOUS
    <2>1. PICK U \in Bad : \A V \in Bad : V \subseteq U => V = U
        <3>1. Bad \in SUBSET (SUBSET S)
            OBVIOUS
        <3> HIDE DEF Bad
        <3> QED
            BY <3>1, SmallestSubset
    <2>2. U # {}
        <3>1. Image(h, {}) = {}
            BY DEF Image
        <3> QED
            BY <3>1, SumEmpty
    <2>3. PICK x : x \in U
        BY <2>2
    <2> DEFINE R == U \ {x}
    <2>4. R \in SUBSET S /\ R \subseteq U /\ R # U /\ U \in SUBSET S
        BY <2>3
    <2>5. R \notin Bad
        <3> HIDE DEF Bad, R
        <3> QED
            BY <2>1, <2>4
    <2>6. SumFunctionOnSet(g, Image(h, R)) = SumFunctionOnSet(f, R)
        <3> HIDE DEF R
        <3> QED
            BY <2>4, <2>5
    <2>7. IsFiniteSet(U) /\ IsFiniteSet(R)
        BY <2>4, FS_Subset
    <2>8. PICK I : I = Image(h, R)
        OBVIOUS
    <2>9. IsFiniteSet(I)
        <3> DEFINE k == [y \in R |-> h[y]]
        <3>1. k \in Surjection(R, I)
            BY <2>8 DEF Surjection, Image
        <3> QED
            BY <2>7, <3>1, FS_Surjection
    <2>10. Image(h, U) = I \cup {h[x]} /\ h[x] \notin I
        BY <2>3, <2>4, <2>8 DEF Image
    <2>11. /\ \A y \in I : g[y] \in Nat
           /\ g[h[x]] \in Nat /\ g[h[x]] = f[x]
        BY <2>3, <2>4, <2>8 DEF Image
    <2>12. SumFunctionOnSet(g, I \cup {h[x]}) = SumFunctionOnSet(g, I) + g[h[x]]
        BY <2>9, <2>10, <2>11, SumAdd
    <2>13. SumFunctionOnSet(f, U) = f[x] + SumFunctionOnSet(f, R)
        <3>1. \A y \in U : f[y] \in Nat
            BY <2>4
        <3> QED
            BY <2>3, <2>7, <3>1, SumRemove
    <2>14. SumFunctionOnSet(f, R) \in Nat /\ f[x] \in Nat
        BY <2>3, <2>4, <2>7, SumType
    <2>15. SumFunctionOnSet(g, Image(h, U)) # SumFunctionOnSet(f, U)
        BY <2>1
    <2> HIDE DEF Bad, R
    <2>16. SumFunctionOnSet(g, Image(h, U)) = SumFunctionOnSet(f, R) + f[x]
        BY <2>6, <2>8, <2>10, <2>11, <2>12
    <2> QED
        BY <2>13, <2>14, <2>15, <2>16
<1>2. S \notin Bad
    BY <1>1
<1> QED
    BY <1>2

\* Two functions that agree on a set have the same sum over it.
LEMMA SumSame ==
    ASSUME NEW S, IsFiniteSet(S), NEW f, \A x \in S : f[x] \in Nat,
           NEW g, \A x \in S : g[x] = f[x]
    PROVE SumFunctionOnSet(g, S) = SumFunctionOnSet(f, S)
<1> DEFINE h == [x \in S |-> x]
<1>1. Image(h, S) = S
    BY DEF Image
<1>2. \A x \in S : g[h[x]] = f[x]
    OBVIOUS
<1>3. \A x, y \in S : h[x] = h[y] => x = y
    OBVIOUS
<1> HIDE DEF h
<1>4. SumFunctionOnSet(g, Image(h, S)) = SumFunctionOnSet(f, S)
    BY <1>2, <1>3, SumRenamed
<1> QED
    BY <1>1, <1>4

\* The values of a function on a finite set are finitely many.
LEMMA FiniteValues ==
    ASSUME NEW S, IsFiniteSet(S), NEW f
    PROVE IsFiniteSet({f[x] : x \in S})
<1> DEFINE g == [x \in S |-> f[x]]
           T == {f[x] : x \in S}
<1>1. g \in Surjection(S, T)
    BY DEF Surjection
<1> HIDE DEF g
<1> QED
    BY <1>1, FS_Surjection

-----------------------------------------------------------------------------
(* The largest of finitely many numbers *)

\* A finite set of numbers that is not empty has a largest member, and Max is one.
LEMMA MaxIsLargest ==
    ASSUME NEW S, IsFiniteSet(S), S # {}, \A x \in S : x \in Nat
    PROVE Max(S) \in S /\ \A x \in S : x <= Max(S)
<1> DEFINE HasLargest(T) == \E m \in T : \A x \in T : x <= m
           Bad == {T \in SUBSET S : T # {} /\ ~HasLargest(T)}
<1>1. Bad = {}
    <2> SUFFICES ASSUME Bad # {} PROVE FALSE
        OBVIOUS
    <2>1. PICK T \in Bad : \A U \in Bad : U \subseteq T => U = T
        <3>1. Bad \in SUBSET (SUBSET S)
            OBVIOUS
        <3> HIDE DEF Bad
        <3> QED
            BY <3>1, SmallestSubset
    <2>2. PICK y \in T : TRUE
        OBVIOUS
    <2>3. CASE T \ {y} = {}
        <3>1. T = {y} /\ y \in Nat
            BY <2>2, <2>3
        <3> QED
            BY <3>1
    <2>4. CASE T \ {y} # {}
        <3>1. HasLargest(T \ {y})
            <4>1. T \ {y} \in SUBSET S /\ T \ {y} \subseteq T /\ T \ {y} # T
                BY <2>2
            <4>2. T \ {y} \notin Bad
                BY <2>1, <4>1
            <4> HIDE DEF HasLargest
            <4> QED
                BY <2>4, <4>1, <4>2
        <3>2. PICK m \in T \ {y} : \A x \in T \ {y} : x <= m
            BY <3>1
        <3>3. m \in Nat /\ y \in Nat /\ \A x \in T : x \in Nat
            OBVIOUS
        <3>4. CASE y <= m
            BY <3>2, <3>4
        <3>5. CASE ~(y <= m)
            <4>1. \A x \in T : x <= y
                BY <3>2, <3>3, <3>5
            <4> QED
                BY <4>1
        <3> QED
            BY <3>4, <3>5
    <2> QED
        BY <2>3, <2>4
<1>2. HasLargest(S)
    <2> HIDE DEF HasLargest
    <2> QED
        BY <1>1
<1>3. \E m \in S : \A x \in S : m >= x
    BY <1>2
<1>4. Max(S) \in S /\ \A x \in S : Max(S) >= x
    BY <1>3 DEF Max
<1> QED
    BY <1>4

-----------------------------------------------------------------------------
(* Loops over a sequence *)

\* One turn of a loop: the state before the last of the positions, and what the body
\* of that position makes of it.
Turn(body, start, g, s) ==
    IF s = {} THEN start ELSE body[Max(s)][g[s \ {Max(s)}]]

\* A set of positions, but for the empty one, has a last, and it is one of them.
LEMMA LastPosition ==
    ASSUME NEW n \in Nat, NEW s \in SUBSET (1..n), s # {}
    PROVE Max(s) \in s /\ Max(s) \in 1..n /\ s \ {Max(s)} \in SUBSET (1..n)
<1>1. IsFiniteSet(1..n) /\ \A x \in 1..n : x \in Nat
    BY FS_Interval
<1>2. PICK S : S = 1..n
    OBVIOUS
<1>3. IsFiniteSet(s) /\ \A x \in s : x \in Nat
    BY <1>1, <1>2, FS_Subset
<1>4. Max(s) \in s
    BY <1>3, MaxIsLargest
<1> QED
    BY <1>2, <1>4

\* The positions up to k are those up to k - 1 and k, which is the last.
LEMMA PositionsUpTo ==
    ASSUME NEW n \in Nat
    PROVE /\ 1..0 = {} /\ 1..0 \in SUBSET (1..n)
          /\ \A k \in 1..n : /\ 1..k \in SUBSET (1..n) /\ 1..k # {}
                            /\ Max(1..k) = k /\ (1..k) \ {k} = 1..(k - 1)
<1>1. 1..0 = {} /\ 1..0 \in SUBSET (1..n)
    OBVIOUS
<1>2. ASSUME NEW k \in 1..n
      PROVE /\ 1..k \in SUBSET (1..n) /\ 1..k # {}
            /\ Max(1..k) = k /\ (1..k) \ {k} = 1..(k - 1)
    <2> DEFINE s == 1..k
    <2>1. s \in SUBSET (1..n) /\ s # {} /\ k \in s /\ \A x \in s : x \in Nat /\ x <= k
        <3>1. k \in Nat /\ n \in Nat /\ 1 <= k /\ k <= n
            OBVIOUS
        <3>2. \A x \in s : x \in Nat /\ 1 <= x /\ x <= k
            BY <3>1
        <3>3. k \in s
            BY <3>1
        <3>4. \A x \in s : x \in 1..n
            BY <3>1, <3>2
        <3> HIDE DEF s
        <3>5. s \in SUBSET (1..n)
            BY <3>4
        <3> QED
            BY <3>2, <3>3, <3>5
    <2>2. s \ {k} = 1..(k - 1)
        OBVIOUS
    <2>3. IsFiniteSet(s)
        BY FS_Interval
    <2> HIDE DEF s
    <2>4. Max(s) \in s /\ \A x \in s : x <= Max(s)
        BY <2>1, <2>3, MaxIsLargest
    <2>5. Max(s) = k
        <3>1. PICK m \in s : m = Max(s)
            BY <2>4
        <3>2. m \in Nat /\ k \in Nat /\ m <= k /\ k <= m
            BY <2>1, <2>4, <3>1
        <3> QED
            BY <3>1, <3>2
    <2> QED
        BY <2>1, <2>2, <2>5 DEF s
<1> QED
    BY <1>1, <1>2

\* The recursion has a solution: one for the sets of n positions gives one for those
\* of n + 1.
LEMMA TurnsExist ==
    ASSUME NEW n \in Nat, NEW body, NEW start
    PROVE \E g : g = [s \in SUBSET (1..n) |-> Turn(body, start, g, s)]
<1> DEFINE S == 1..n
           Solves(g, m) == \A s \in SUBSET S : Cardinality(s) <= m => g[s] = Turn(body, start, g, s)
           Solved(m) == \E h : h = [s \in SUBSET S |-> h[s]] /\ Solves(h, m)
           Bad == {T \in SUBSET S : ~Solved(Cardinality(T))}
<1>0. IsFiniteSet(S)
    BY FS_Interval
<1>1. \A s \in SUBSET S : IsFiniteSet(s) /\ Cardinality(s) \in Nat
    BY <1>0, FS_Subset, FS_CardinalityType
<1>2. ASSUME NEW s \in SUBSET S, s # {}
      PROVE /\ Max(s) \in s /\ s \ {Max(s)} \in SUBSET S
            /\ Cardinality(s \ {Max(s)}) = Cardinality(s) - 1
    <2>1. \A x \in s : x \in Nat
        OBVIOUS
    <2> HIDE DEF S
    <2>2. Max(s) \in s
        BY <1>1, <1>2, <2>1, MaxIsLargest
    <2> QED
        BY <1>1, <2>2, FS_RemoveElement
<1>3. \A s \in SUBSET S : Cardinality(s) = 0 <=> s = {}
    BY <1>1, FS_EmptySet
<1> HIDE DEF S
<1>4. Solved(0)
    <2> DEFINE g == [s \in SUBSET S |-> start]
    <2>1. g = [s \in SUBSET S |-> g[s]]
        OBVIOUS
    <2>2. Solves(g, 0)
        BY <1>1, <1>3 DEF Turn
    <2> HIDE DEF g, Solves
    <2> QED
        BY <2>1, <2>2
<1>5. ASSUME NEW m \in Nat, Solved(m) PROVE Solved(m + 1)
    <2>1. PICK h : Solves(h, m)
        BY <1>5
    <2> DEFINE g == [s \in SUBSET S |-> IF Cardinality(s) <= m THEN h[s] ELSE Turn(body, start, h, s)]
    <2>2. g = [s \in SUBSET S |-> g[s]]
        OBVIOUS
    <2>3. ASSUME NEW s \in SUBSET S, Cardinality(s) <= m + 1
          PROVE g[s] = Turn(body, start, h, s)
        BY <2>1, <2>3, <1>1
    <2>4. ASSUME NEW s \in SUBSET S, Cardinality(s) <= m + 1
          PROVE Turn(body, start, g, s) = Turn(body, start, h, s)
        <3>1. CASE s = {}
            BY <3>1 DEF Turn
        <3>2. CASE s # {}
            <4>1. Cardinality(s \ {Max(s)}) <= m
                BY <1>1, <1>2, <2>4, <3>2
            <4>2. g[s \ {Max(s)}] = h[s \ {Max(s)}]
                BY <1>2, <3>2, <4>1
            <4> HIDE DEF g
            <4> QED
                BY <3>2, <4>2 DEF Turn
        <3> QED
            BY <3>1, <3>2
    <2>5. Solves(g, m + 1)
        BY <2>3, <2>4
    <2> HIDE DEF g, Solves
    <2> QED
        BY <2>2, <2>5
<1>6. Bad = {}
    <2> SUFFICES ASSUME Bad # {} PROVE FALSE
        OBVIOUS
    <2>1. PICK T \in Bad : \A U \in Bad : U \subseteq T => U = T
        <3>1. Bad \in SUBSET (SUBSET S)
            OBVIOUS
        <3> HIDE DEF Bad
        <3> QED
            BY <3>1, <1>0, SmallestSubset
    <2>2. T # {}
        <3> HIDE DEF Solved
        <3> QED
            BY <1>3, <1>4
    <2> DEFINE U == T \ {Max(T)}
    <2>3. U \in SUBSET S /\ U # T /\ U \subseteq T /\ Cardinality(T) = Cardinality(U) + 1
        <3>1. T \in SUBSET S
            OBVIOUS
        <3>2. Max(T) \in T /\ U \in SUBSET S /\ Cardinality(U) = Cardinality(T) - 1
            BY <1>2, <2>2, <3>1
        <3>3. Cardinality(T) \in Nat
            BY <1>1, <3>1
        <3> QED
            BY <3>2, <3>3
    <2>4. Solved(Cardinality(U))
        <3> HIDE DEF Solved
        <3> QED
            BY <2>1, <2>3
    <2>5. Cardinality(U) \in Nat
        BY <1>1, <2>3
    <2> HIDE DEF Solved, U
    <2>6. Solved(Cardinality(U) + 1)
        BY <1>5, <2>4, <2>5
    <2> QED
        BY <2>3, <2>6
<1>7. Solved(Cardinality(S))
    <2> HIDE DEF Solved
    <2> QED
        BY <1>6
<1>8. PICK g : g = [s \in SUBSET S |-> g[s]] /\ Solves(g, Cardinality(S))
    BY <1>7
<1>9. \A s \in SUBSET S : Cardinality(s) <= Cardinality(S)
    BY <1>0, FS_Subset
<1>10. \A s \in SUBSET S : g[s] = Turn(body, start, g, s)
    BY <1>8, <1>9
<1>11. g = [s \in SUBSET S |-> Turn(body, start, g, s)]
    BY <1>8, <1>10
<1> QED
    BY <1>11 DEF S

\* The turns of a loop that stay in a set of states, and what they have computed.
Within(n, body, States) == \A k \in 1..n : \A x \in States : body[k][x] \in States
Runs(n, body, States, start, g) ==
    \A s \in SUBSET (1..n) : g[s] = Turn(body, start, g, s) /\ g[s] \in States

\* A loop whose turns stay in a set of states has one of them after any turn.
LEMMA TurnsStay ==
    ASSUME NEW n \in Nat, NEW States, NEW start \in States, NEW body,
           Within(n, body, States)
    PROVE \E g : Runs(n, body, States, start, g)
<1>1. PICK g : g = [s \in SUBSET (1..n) |-> Turn(body, start, g, s)]
    BY TurnsExist
<1>2. \A s \in SUBSET (1..n) : g[s] = Turn(body, start, g, s)
    BY <1>1
<1> DEFINE S == 1..n
           Bad == {s \in SUBSET S : g[s] \notin States}
<1>3. IsFiniteSet(S)
    BY FS_Interval
<1>4. Bad = {}
    <2> SUFFICES ASSUME Bad # {} PROVE FALSE
        OBVIOUS
    <2>1. PICK T \in Bad : \A U \in Bad : U \subseteq T => U = T
        <3>1. Bad \in SUBSET (SUBSET S)
            OBVIOUS
        <3> HIDE DEF Bad, S
        <3> QED
            BY <1>3, <3>1, SmallestSubset
    <2>2. T \in SUBSET (1..n) /\ g[T] \notin States
        OBVIOUS
    <2>3. T # {}
        BY <1>2, <2>2 DEF Turn
    <2>4. Max(T) \in T /\ Max(T) \in 1..n /\ T \ {Max(T)} \in SUBSET (1..n)
        BY <2>2, <2>3, LastPosition
    <2>5. T \ {Max(T)} \notin Bad
        <3> HIDE DEF Bad
        <3> QED
            BY <2>1, <2>4
    <2>6. g[T] = body[Max(T)][g[T \ {Max(T)}]]
        BY <1>2, <2>2, <2>3, Zenon DEF Turn
    <2> QED
        BY <2>2, <2>4, <2>5, <2>6 DEF Within
<1> QED
    BY <1>2, <1>4 DEF Runs

\* What holds before the first turn, and after each turn if it held before it, holds
\* after the last.
LEMMA LoopInvariant ==
    ASSUME NEW n \in Nat, NEW Good, 0 \in Good, \A k \in 1..n : k - 1 \in Good => k \in Good
    PROVE n \in Good
<1> DEFINE S == 1..n
           Bad == {T \in SUBSET S : \E k \in 0..n : T = 1..k /\ k \notin Good}
<1>1. Bad = {}
    <2> SUFFICES ASSUME Bad # {} PROVE FALSE
        OBVIOUS
    <2>1. PICK T \in Bad : \A U \in Bad : U \subseteq T => U = T
        <3>1. Bad \in SUBSET (SUBSET S)
            OBVIOUS
        <3>2. IsFiniteSet(S)
            BY FS_Interval
        <3> HIDE DEF Bad, S
        <3> QED
            BY <3>1, <3>2, SmallestSubset
    <2>2. PICK k \in 0..n : T = 1..k /\ k \notin Good
        OBVIOUS
    <2>3. k # 0
        BY <2>2
    <2>4. k - 1 \in 0..n /\ 1..(k - 1) \in SUBSET S /\ k \in 1..k /\ k \notin 1..(k - 1)
          /\ 1..(k - 1) \subseteq 1..k
        BY <2>3
    <2>5. k - 1 \notin Good
        BY <2>2, <2>3
    <2>6. 1..(k - 1) \in Bad
        BY <2>4, <2>5
    <2> QED
        BY <2>1, <2>2, <2>4, <2>6
<1>2. 1..n \in SUBSET S /\ n \in 0..n
    OBVIOUS
<1> QED
    BY <1>1, <1>2
=============================================================================
