----------------------- MODULE SimulationRequestProofs -----------------------
(***************************************************************************)
(* Theorems about SimulationRequest, for any pods of the target cluster,   *)
(* any names and namespaces and any nodes and templates.                   *)
(***************************************************************************)
EXTENDS SimulationRequest, FoldProofs, SequenceTheorems, TLAPS

-----------------------------------------------------------------------------
(* Sequences of pods *)

\* A loop that filters: what it has kept are the elements so far that are in the set.
KeptSoFar(start, seq, k, loop) ==
    start.kept = <<>> /\ seq \in Seq(Pods) =>
        /\ loop = [of |-> start.of, kept |-> loop.kept]
        /\ loop.kept \in Seq(Pods)
        /\ \A j \in DOMAIN loop.kept : \E i \in 1..k : loop.kept[j] = seq[i] /\ seq[i] \in start.of
        /\ \A i \in 1..k : seq[i] \in start.of => \E j \in DOMAIN loop.kept : loop.kept[j] = seq[i]

\* What the turns of that loop keep holds at its end.
LEMMA FilterLoopInvariant ==
    ASSUME NEW n \in Nat, NEW seq, DOMAIN seq = 1..n, NEW start, start = [of |-> start.of, kept |-> <<>>],
           KeptSoFar(start, seq, 0, start),
           \A k \in 1..n : \A state :
               KeptSoFar(start, seq, k - 1, state) => KeptSoFar(start, seq, k, keepIn(state, seq[k]))
    PROVE KeptSoFar(start, seq, n, FoldLeft(keepIn, start, seq))
<1> DEFINE States == [of : {start.of}, kept : Seq({seq[k] : k \in 1..n})]
           body == [k \in 1..n |-> [x \in States |-> keepIn(x, seq[k])]]
           turn(g, s) == IF s = {} THEN start ELSE keepIn(g[s \ {Max(s)}], seq[Max(s)])
           turns == CHOOSE g : g = [s \in SUBSET DOMAIN seq |-> turn(g, s)]
           Holds(k) == KeptSoFar(start, seq, k, turns[1..k])
           Good == {k \in 0..n : Holds(k)}
<1>1. start \in States /\ \A k \in 1..n : \A x \in States : keepIn(x, seq[k]) \in States
    <2> DEFINE Elements == {seq[k] : k \in 1..n}
    <2>1. \A k \in 1..n : seq[k] \in Elements
        OBVIOUS
    <2> HIDE DEF Elements
    <2>2. ASSUME NEW k \in 1..n, NEW x \in States PROVE keepIn(x, seq[k]) \in States
        <3>1. Append(x.kept, seq[k]) \in Seq(Elements)
            BY <2>1 DEF Elements
        <3> QED
            BY <3>1 DEF keepIn, Elements
    <2>3. start \in States
        <3>1. PICK m : start = [of |-> m, kept |-> <<>>] /\ start.of = m
            OBVIOUS
        <3>2. <<>> \in Seq(Elements)
            OBVIOUS
        <3> QED
            BY <3>1, <3>2 DEF Elements
    <2> QED
        BY <2>2, <2>3
<1> HIDE DEF States
<1>2. \E g : g = [s \in SUBSET DOMAIN seq |-> turn(g, s)]
    <2>1. \A k \in 1..n : \A x \in States : body[k][x] = keepIn(x, seq[k])
        OBVIOUS
    <2> HIDE DEF body
    <2>2. start \in States /\ Within(n, body, States)
        BY <1>1, <2>1 DEF Within
    <2>3. PICK g : Runs(n, body, States, start, g)
        BY <2>2, TurnsStay
    <2>4. ASSUME NEW s \in SUBSET (1..n) PROVE g[s] = turn(g, s)
        <3>1. CASE s = {}
            BY <2>3, <3>1 DEF Runs, Turn
        <3>2. CASE s # {}
            BY <2>1, <2>3, <3>2, LastPosition DEF Runs, Turn
        <3> QED
            BY <3>1, <3>2
    <2> DEFINE h == [s \in SUBSET (1..n) |-> g[s]]
    <2>5. ASSUME NEW s \in SUBSET (1..n) PROVE h[s] = turn(h, s)
        BY <2>4, LastPosition
    <2>6. h = [s \in SUBSET (1..n) |-> turn(h, s)]
        <3>1. h = [s \in SUBSET (1..n) |-> h[s]]
            OBVIOUS
        <3> HIDE DEF h
        <3> QED
            BY <2>5, <3>1
    <2> QED
        BY <2>6
<1>3. \A s \in SUBSET (1..n) : turns[s] = turn(turns, s)
    <2>1. turns = [s \in SUBSET (1..n) |-> turn(turns, s)]
        BY <1>2, Zenon
    <2> QED
        BY <2>1
<1>4. FoldLeft(keepIn, start, seq) = turns[1..n]
    BY DEF FoldLeft, MapThenFoldSet
<1> HIDE DEF turns
<1>5. turns[1..0] = start
    BY <1>3, PositionsUpTo
<1>6. \A k \in 1..n : turns[1..k] = keepIn(turns[1..(k - 1)], seq[k])
    <2> SUFFICES ASSUME NEW k \in 1..n
                 PROVE turns[1..k] = keepIn(turns[1..(k - 1)], seq[k])
        OBVIOUS
    <2>1. /\ 1..k \in SUBSET (1..n) /\ 1..k # {}
          /\ Max(1..k) = k /\ (1..k) \ {k} = 1..(k - 1)
        BY PositionsUpTo
    <2>2. turns[1..k] = turn(turns, 1..k)
        BY <1>3, <2>1
    <2> QED
        BY <2>1, <2>2, Zenon
<1>7. Holds(0)
    BY <1>5
<1>8. \A k \in 1..n : Holds(k - 1) => Holds(k)
    BY <1>6
<1> HIDE DEF Holds
<1>9. 0 \in Good /\ \A k \in 1..n : k - 1 \in Good => k \in Good
    BY <1>7, <1>8
<1>10. n \in Good
    <2> HIDE DEF Good
    <2> QED
        BY <1>9, LoopInvariant
<1> QED
    BY <1>4, <1>10 DEF Holds

\* Filtering keeps the elements of the set.
LEMMA FilterKeeps ==
    ASSUME NEW seq \in Seq(Pods), NEW S
    PROVE /\ Filter(seq, S) \in Seq(Pods)
          /\ ToSet(Filter(seq, S)) = ToSet(seq) \cap S
<1> DEFINE n == Len(seq)
           start == [of |-> S, kept |-> <<>>]
<1>1. n \in Nat /\ DOMAIN seq = 1..n /\ \A i \in 1..n : seq[i] \in Pods
    OBVIOUS
<1>2. start.of = S /\ start.kept = <<>> /\ start = [of |-> start.of, kept |-> <<>>]
    OBVIOUS
<1> HIDE DEF start, n
<1>3. KeptSoFar(start, seq, 0, start)
    BY <1>2 DEF KeptSoFar
<1>4. ASSUME NEW k \in 1..n, NEW loop, KeptSoFar(start, seq, k - 1, loop)
      PROVE KeptSoFar(start, seq, k, keepIn(loop, seq[k]))
    <2> DEFINE kept == loop.kept
    <2> DEFINE From == \A j \in DOMAIN kept : \E i \in 1..(k - 1) : kept[j] = seq[i] /\ seq[i] \in S
               All == \A i \in 1..(k - 1) : seq[i] \in S => \E j \in DOMAIN kept : kept[j] = seq[i]
    <2>1. /\ loop = [of |-> S, kept |-> kept] /\ kept \in Seq(Pods)
          /\ From /\ All
        BY <1>2, <1>4 DEF KeptSoFar
    <2>2. /\ \A i \in 1..k : i = k \/ i \in 1..(k - 1)
          /\ \A i \in 1..(k - 1) : i \in 1..k /\ i < k
          /\ k \in 1..k /\ seq[k] \in Pods
        BY <1>1
    <2> HIDE DEF kept, From, All
    <2>3. CASE seq[k] \notin S
        <3>1. keepIn(loop, seq[k]) = loop
            BY <2>1, <2>3 DEF keepIn
        <3>2. \A j \in DOMAIN kept : \E i \in 1..k : kept[j] = seq[i] /\ seq[i] \in S
            BY <2>1, <2>2 DEF From
        <3>3. \A i \in 1..k : seq[i] \in S => \E j \in DOMAIN kept : kept[j] = seq[i]
            BY <2>1, <2>2, <2>3 DEF All
        <3> QED
            BY <1>2, <2>1, <3>1, <3>2, <3>3 DEF KeptSoFar, kept
    <2>4. CASE seq[k] \in S
        <3> DEFINE more == Append(kept, seq[k])
                   m == Len(kept)
        <3>1. keepIn(loop, seq[k]) = [of |-> S, kept |-> more]
            BY <2>1, <2>4 DEF keepIn
        <3>2. /\ more \in Seq(Pods) /\ m \in Nat
              /\ DOMAIN kept = 1..m /\ DOMAIN more = 1..(m + 1)
              /\ \A j \in DOMAIN kept : more[j] = kept[j]
              /\ more[m + 1] = seq[k]
            BY <2>1, <2>2
        <3> HIDE DEF more, m
        <3>3. /\ \A j \in DOMAIN more : j \in DOMAIN kept \/ j = m + 1
              /\ \A j \in DOMAIN kept : j \in DOMAIN more
              /\ m + 1 \in DOMAIN more
            BY <3>2
        <3>4. \A j \in DOMAIN more : \E i \in 1..k : more[j] = seq[i] /\ seq[i] \in S
            BY <2>1, <2>2, <2>4, <3>2, <3>3 DEF From
        <3>5. \A i \in 1..k : seq[i] \in S => \E j \in DOMAIN more : more[j] = seq[i]
            <4> SUFFICES ASSUME NEW i \in 1..k, seq[i] \in S
                         PROVE \E j \in DOMAIN more : more[j] = seq[i]
                OBVIOUS
            <4>1. CASE i = k
                BY <3>2, <3>3, <4>1
            <4>2. CASE i \in 1..(k - 1)
                BY <2>1, <3>2, <3>3, <4>2 DEF All
            <4> QED
                BY <2>2, <4>1, <4>2
        <3> QED
            BY <1>2, <3>1, <3>2, <3>4, <3>5 DEF KeptSoFar
    <2> QED
        BY <2>3, <2>4
<1>5. KeptSoFar(start, seq, n, FoldLeft(keepIn, start, seq))
    BY <1>1, <1>2, <1>3, <1>4, FilterLoopInvariant
<1> DEFINE kept == Filter(seq, S)
<1>7. /\ kept \in Seq(Pods)
      /\ \A j \in DOMAIN kept : \E i \in 1..n : kept[j] = seq[i] /\ seq[i] \in S
      /\ \A i \in 1..n : seq[i] \in S => \E j \in DOMAIN kept : kept[j] = seq[i]
    <2>1. kept = FoldLeft(keepIn, start, seq).kept
        BY DEF Filter, start
    <2> HIDE DEF kept
    <2> QED
        BY <1>2, <1>5, <2>1 DEF KeptSoFar
<1> HIDE DEF kept
<1>8. ToSet(kept) = ToSet(seq) \cap S
    <2>1. ASSUME NEW p \in ToSet(kept) PROVE p \in ToSet(seq) \cap S
        <3>1. PICK j \in DOMAIN kept : p = kept[j]
            BY DEF ToSet
        <3>2. PICK i \in 1..n : kept[j] = seq[i] /\ seq[i] \in S
            BY <1>7, <3>1
        <3>3. seq[i] \in ToSet(seq)
            BY <1>1 DEF ToSet
        <3> QED
            BY <3>1, <3>2, <3>3
    <2>2. ASSUME NEW p \in ToSet(seq) \cap S PROVE p \in ToSet(kept)
        <3>1. PICK i \in 1..n : p = seq[i]
            BY <1>1 DEF ToSet
        <3>2. PICK j \in DOMAIN kept : kept[j] = seq[i]
            BY <1>7, <3>1
        <3> QED
            BY <3>1, <3>2 DEF ToSet
    <2> QED
        BY <2>1, <2>2
<1> QED
    BY <1>7, <1>8 DEF kept

\* A list of a finite set of pods has every one of them.
LEMMA ListOfSet ==
    ASSUME NEW B \in SUBSET Pods
    PROVE /\ SetToSeq(B) \in Seq(Pods)
          /\ \A p \in B : \E i \in DOMAIN SetToSeq(B) : SetToSeq(B)[i] = p
<1> DEFINE n == Cardinality(B)
           s == SetToSeq(B)
<1>1. IsFiniteSet(B) /\ n \in Nat /\ ExistsBijection(1..n, B)
    BY FiniteAssumption, FS_Subset, FS_CardinalityType
<1> HIDE DEF n
<1>2. \E f \in [1..n -> B] : IsInjective(f)
    BY <1>1 DEF ExistsBijection, Bijection, Injection
<1>3. s \in [1..n -> B] /\ IsInjective(s)
    BY <1>2 DEF SetToSeq, n
<1> HIDE DEF s
<1>4. s \in Injection(1..n, B)
    BY <1>3 DEF Injection
<1>5. IsFiniteSet(1..n) /\ Cardinality(1..n) = n
    BY <1>1, FS_Interval
<1>6. s \in Surjection(1..n, B)
    BY <1>1, <1>4, <1>5, FS_Injection DEF n
<1>7. \A p \in B : \E i \in 1..n : s[i] = p
    BY <1>6 DEF Surjection
<1>8. s \in Seq(Pods) /\ DOMAIN s = 1..n
    BY <1>1, <1>3
<1> QED
    BY <1>7, <1>8 DEF s

-----------------------------------------------------------------------------
(* Names *)

\* What names are made of.  (The provers do not know that a literal is a string.)
NamePart == STRING \cup {"-0", "-sr-", "ref"}

\* A built name is never empty.
LEMMA BuiltNames ==
    ASSUME NEW p \in Pods
    PROVE /\ builtName(p) \in Seq(NamePart) /\ Len(builtName(p)) = Len(PodInfo[p].name) + 1
          /\ Len(PodInfo[p].name) \in Nat \ {0}
          /\ \A i \in 1..Len(PodInfo[p].name) : builtName(p)[i] = PodInfo[p].name[i]
          /\ builtName(p)[Len(PodInfo[p].name) + 1] = "-0"
<1>1. PodInfo[p].name \in Seq(NamePart) /\ PodInfo[p].name # <<>>
    <2>1. PodInfo[p].name \in Seq(STRING) /\ PodInfo[p].name # <<>>
        BY PodInfoAssumption
    <2>2. STRING \subseteq NamePart
        BY DEF NamePart
    <2> QED
        BY <2>1, <2>2, SeqMonotonic
<1> DEFINE name == PodInfo[p].name
           b == Append(name, "-0")
<1>2. "-0" \in NamePart
    BY DEF NamePart
<1>3. Len(name) \in Nat /\ Len(name) # 0
    BY <1>1
<1>4. b \in Seq(NamePart) /\ Len(b) = Len(name) + 1
    BY <1>1, <1>2, AppendProperties
<1>5. \A i \in 1..Len(name) : b[i] = name[i]
    BY <1>1, <1>2, AppendProperties
<1>6. b[Len(name) + 1] = "-0"
    BY <1>1, <1>2, AppendProperties
<1>7. b = builtName(p)
    BY DEF builtName
<1> QED
    BY <1>3, <1>4, <1>5, <1>6, <1>7

\* Without its prefix the name of a pod that has the prefix once is a name without it,
\* and without the separator if the name was.
LEMMA TrimmedNames ==
    ASSUME NEW p \in Pods, Restorable(PodInfo[p].name)
    PROVE LET t == TrimPrefix(builtName(p)) IN
          /\ t \in Seq(NamePart) /\ t # <<>>
          /\ TrimPrefix(t) = t
          /\ \A i \in 1..Len(t) : t[i] # "-sr-"
<1> DEFINE name == PodInfo[p].name
           b == builtName(p)
           t == TrimPrefix(b)
           n == Len(name)
<1>1. /\ b \in Seq(NamePart) /\ Len(b) = n + 1 /\ n \in Nat /\ n > 0
      /\ \A i \in 1..n : b[i] = name[i]
      /\ b[n + 1] = "-0"
    BY BuiltNames
<1>2. /\ \A i \in 1..n : name[i] # "-sr-"
      /\ n > 1 /\ name[1] = "shoot--" => name[2] # "shoot--"
    BY DEF Restorable, Contains
<1> HIDE DEF name, b, n
<1>3. \A i \in 1..(n + 1) : b[i] # "-sr-"
    <2>1. \A i \in 1..(n + 1) : i \in 1..n \/ i = n + 1
        BY <1>1
    <2>2. "-0" # "-sr-"
        OBVIOUS
    <2> QED
        BY <1>1, <1>2, <2>1, <2>2
<1>4. b # <<>> /\ Head(b) = b[1]
    BY <1>1
<1>5. CASE b[1] # "shoot--"
    <2>1. t = b
        BY <1>4, <1>5 DEF TrimPrefix
    <2>2. TrimPrefix(t) = t
        BY <1>4, <1>5, <2>1 DEF TrimPrefix
    <2> QED
        BY <1>1, <1>3, <1>4, <2>1, <2>2 DEF b
<1>6. CASE b[1] = "shoot--"
    <2>1. t = Tail(b)
        BY <1>4, <1>6 DEF TrimPrefix
    <2>2. t \in Seq(NamePart) /\ Len(t) = n /\ \A i \in 1..n : t[i] = b[i + 1]
        BY <1>1, <1>4, <2>1
    <2>3. t # <<>> /\ Head(t) = b[2]
        BY <1>1, <2>2
    <2>4. b[2] # "shoot--"
        <3>1. CASE n = 1
            <4>1. "-0" # "shoot--"
                OBVIOUS
            <4> QED
                BY <1>1, <3>1, <4>1
        <3>2. CASE n > 1
            <4>1. b[1] = name[1] /\ b[2] = name[2]
                BY <1>1, <3>2
            <4> QED
                BY <1>2, <1>6, <3>2, <4>1
        <3> QED
            BY <1>1, <3>1, <3>2
    <2>5. TrimPrefix(t) = t
        BY <2>3, <2>4 DEF TrimPrefix
    <2>6. \A i \in 1..n : i + 1 \in 1..(n + 1)
        BY <1>1
    <2>7. \A i \in 1..Len(t) : t[i] # "-sr-"
        BY <1>3, <2>2, <2>6
    <2> QED
        BY <2>2, <2>3, <2>5, <2>7 DEF b
<1> QED
    BY <1>5, <1>6 DEF b

\* What a simulated pod is read as: its name without the prefix.
LEMMA NameReadBack ==
    ASSUME NEW p \in Pods, Restorable(PodInfo[p].name)
    PROVE toOriginalResourceName(fromOriginalResourceName(builtName(p))) = TrimPrefix(builtName(p))
<1> DEFINE t == TrimPrefix(builtName(p))
           u == t \o <<"-sr-", "ref">>
           n == Len(t)
           I == {i \in 1..Len(u) : u[i] = "-sr-"}
<1>1. t \in Seq(NamePart) /\ n \in Nat /\ \A i \in 1..n : t[i] # "-sr-"
    BY TrimmedNames
<1> HIDE DEF t
<1>2. /\ u \in Seq(NamePart) /\ Len(u) = n + 2
      /\ \A i \in 1..n : u[i] = t[i]
      /\ u[n + 1] = "-sr-" /\ u[n + 2] = "ref"
    <2> DEFINE tail == <<"-sr-", "ref">>
    <2>1. tail \in Seq(NamePart) /\ Len(tail) = 2 /\ tail[1] = "-sr-" /\ tail[2] = "ref"
        BY DEF NamePart
    <2> HIDE DEF tail
    <2>2. /\ t \o tail \in Seq(NamePart) /\ Len(t \o tail) = n + 2
          /\ \A i \in 1..(n + 2) : (t \o tail)[i] = IF i <= n THEN t[i] ELSE tail[i - n]
        <3>1. /\ t \o tail \in Seq(NamePart) /\ Len(t \o tail) = Len(t) + Len(tail)
              /\ \A i \in 1..(Len(t) + Len(tail)) :
                    (t \o tail)[i] = IF i <= Len(t) THEN t[i] ELSE tail[i - Len(t)]
            BY <1>1, <2>1, ConcatProperties
        <3> QED
            BY <2>1, <3>1
    <2>3. /\ \A i \in 1..n : i \in 1..(n + 2) /\ i <= n
          /\ n + 1 \in 1..(n + 2) /\ ~(n + 1 <= n) /\ (n + 1) - n = 1
          /\ n + 2 \in 1..(n + 2) /\ ~(n + 2 <= n) /\ (n + 2) - n = 2
        BY <1>1
    <2> QED
        BY <2>1, <2>2, <2>3 DEF tail
<1> HIDE DEF u, n
<1>3. I = {n + 1}
    <2>1. \A i \in 1..(n + 2) : i \in 1..n \/ i = n + 1 \/ i = n + 2
        BY <1>1
    <2>2. "ref" # "-sr-" /\ n + 1 \in 1..(n + 2)
        BY <1>1
    <2> QED
        BY <1>1, <1>2, <2>1, <2>2
<1>4. toOriginalResourceName(u) = SubSeq(u, 1, n)
    <2>1. toOriginalResourceName(u) = SubSeq(u, 1, (IF I # {} THEN Min(I) ELSE 0) - 1)
        BY DEF toOriginalResourceName, SelectInSeq
    <2> HIDE DEF I
    <2>2. Min({n + 1}) = n + 1
        <3>1. \E x \in {n + 1} : \A y \in {n + 1} : x <= y
            BY <1>1
        <3> QED
            BY <3>1 DEF Min
    <2>3. n + 1 - 1 = n
        BY <1>1
    <2> QED
        <3>1. I # {} /\ Min(I) = n + 1
            BY <1>3, <2>2
        <3>2. toOriginalResourceName(u) = SubSeq(u, 1, Min(I) - 1)
            BY <2>1, <3>1, Zenon
        <3>3. Min(I) - 1 = n
            BY <1>1, <3>1
        <3> QED
            BY <3>2, <3>3, Zenon
<1>5. SubSeq(u, 1, n) = t
    <2>1. SubSeq(u, 1, n) \in Seq(NamePart) /\ Len(SubSeq(u, 1, n)) = n
          /\ \A i \in 1..n : SubSeq(u, 1, n)[i] = u[i]
        BY <1>1, <1>2
    <2> QED
        BY <1>1, <1>2, <2>1, SeqEqual DEF n
<1>6. fromOriginalResourceName(builtName(p)) = u
    BY DEF fromOriginalResourceName, u, t
<1> QED
    BY <1>4, <1>5, <1>6, Zenon DEF t

-----------------------------------------------------------------------------
(* The invariant *)

BasePods == {base[name] : name \in DOMAIN base}

ListsTyped ==
    /\ podList \in Seq(Pods) /\ podInfos \in Seq(Pods)
    /\ unscheduledPods \in Seq(Pods) /\ scheduledPods \in Seq(Pods)
    /\ BasePods \subseteq Pods
    /\ \A name \in DOMAIN originalUnscheduledPods : originalUnscheduledPods[name] \in Pods

\* Up to the first simulation nothing has been placed.
NothingPlaced ==
    pc \notin {"simulate", "ok", "error"} => DOMAIN base = {} /\ placed = {} /\ recorded = {}

\* Every pod of the request is in one of the lists or recorded.
PodsKnown ==
    /\ recorded \subseteq ToSet(podInfos)
    /\ pc \in {"initialize", "cluster", "simulate", "ok"} =>
          ToSet(podInfos) = {p \in ToSet(podList) : PodInfo[p].namespace # "kube-system"}
    /\ pc \in {"cluster", "simulate", "ok"} =>
          ToSet(podInfos) = ToSet(unscheduledPods) \cup ToSet(scheduledPods) \cup recorded

\* The base has the pods that were scheduled or have been recorded, and the original
\* of a name is still unscheduled or recorded.
BaseKnown == pc \in {"simulate", "ok"} => BasePods = ToSet(scheduledPods) \cup recorded
OriginalsKnown ==
    pc \in {"cluster", "simulate", "ok"} =>
        \A name \in DOMAIN originalUnscheduledPods :
            originalUnscheduledPods[name] \in ToSet(unscheduledPods) \cup recorded

\* A list is empty before the step that makes it.
NotYetMade ==
    /\ pc = "list" => podInfos = <<>>
    /\ pc \in {"list", "convert"} => unscheduledPods = <<>> /\ scheduledPods = <<>>

IInv ==
    /\ TypeOK /\ ListsTyped /\ NothingPlaced /\ PodsKnown /\ BaseKnown /\ OriginalsKnown
    /\ NotYetMade /\ RecordedAsPlaced /\ NamesakesGetNoNodes

\* Initially there is no list of pods.
LEMMA InitIInv == Init => IInv
<1> SUFFICES ASSUME Init PROVE IInv
    OBVIOUS
<1>1. /\ podList = <<>> /\ podInfos = <<>> /\ unscheduledPods = <<>> /\ scheduledPods = <<>>
      /\ originalUnscheduledPods = <<>> /\ base = <<>> /\ placed = {} /\ recorded = {}
      /\ pc = "list"
    BY DEF Init
<1>2. DOMAIN podList = {} /\ DOMAIN base = {} /\ DOMAIN originalUnscheduledPods = {}
    BY <1>1
<1>3. ToSet(podList) = {} /\ BasePods = {}
    BY <1>2 DEF ToSet, BasePods
<1> QED
    BY <1>1, <1>2, <1>3
       DEF IInv, TypeOK, ListsTyped, NothingPlaced, PodsKnown, BaseKnown, OriginalsKnown,
           NotYetMade, RecordedAsPlaced, NamesakesGetNoNodes

-----------------------------------------------------------------------------
(* The steps before the simulations *)

\* A list of no pods has no pods.
LEMMA EmptyList == ToSet(<<>>) = {}
<1>1. DOMAIN <<>> = {}
    OBVIOUS
<1> QED
    BY <1>1 DEF ToSet

\* The list of the pods of the cluster is a list of pods.
LEMMA SortedLists ==
    ASSUME NEW ps \in SUBSET Pods, NEW s \in Sorted(ps)
    PROVE s \in Seq(Pods) /\ ToSet(s) \subseteq Pods
<1> DEFINE n == Cardinality(ps)
<1>1. n \in Nat
    BY FiniteAssumption, FS_Subset, FS_CardinalityType
<1>2. s \in [1..n -> ps]
    BY DEF Sorted, SetToSeqs
<1> HIDE DEF n
<1>3. s \in Seq(Pods)
    BY <1>1, <1>2
<1>4. ToSet(s) \subseteq Pods
    BY <1>2 DEF ToSet
<1> QED
    BY <1>3, <1>4

\* Listing the pods touches nothing that is known of them.
LEMMA ListIInv == IInv /\ List => IInv'
<1> SUFFICES ASSUME IInv, List PROVE IInv'
    OBVIOUS
<1>1. PICK ps \in SUBSET Pods : podList' \in Sorted(ps)
    BY DEF List
<1>2. podList' \in Seq(Pods) /\ ToSet(podList') \subseteq Pods
    BY <1>1, SortedLists
<1>3. /\ pc = "list" /\ pc' = "convert"
      /\ UNCHANGED <<podInfos, unscheduledPods, scheduledPods, originalUnscheduledPods,
                     base, placed, recorded>>
    BY DEF List
<1>4. podInfos = <<>> /\ unscheduledPods = <<>> /\ scheduledPods = <<>> /\ recorded = {}
    BY <1>3 DEF IInv, NotYetMade, NothingPlaced
<1>5. ToSet(podInfos') = {} /\ ToSet(unscheduledPods') = {} /\ ToSet(scheduledPods') = {}
    BY <1>3, <1>4, EmptyList
<1>6. BasePods' = BasePods
    BY <1>3 DEF BasePods
<1>a. TypeOK'
    BY <1>2, <1>3, <1>5, <1>4 DEF IInv, TypeOK
<1>b. ListsTyped'
    BY <1>2, <1>3, <1>6 DEF IInv, ListsTyped
<1>c. NothingPlaced'
    BY <1>3 DEF IInv, NothingPlaced
<1>d. PodsKnown'
    BY <1>3, <1>4 DEF PodsKnown
<1>e. BaseKnown' /\ OriginalsKnown'
    BY <1>3 DEF BaseKnown, OriginalsKnown
<1>f. NotYetMade'
    BY <1>2, <1>3, <1>4 DEF IInv, NotYetMade
<1>g. RecordedAsPlaced' /\ NamesakesGetNoNodes'
    BY <1>3 DEF IInv, NothingPlaced, RecordedAsPlaced, NamesakesGetNoNodes
<1> QED
    BY <1>a, <1>b, <1>c, <1>d, <1>e, <1>f, <1>g DEF IInv

\* The request has the pods outside kube-system.
LEMMA createSimulationRequestIInv == IInv /\ createSimulationRequest => IInv'
<1> SUFFICES ASSUME IInv, createSimulationRequest PROVE IInv'
    OBVIOUS
<1> DEFINE Others == {p \in Pods : PodInfo[p].namespace # "kube-system"}
<1>1. /\ pc = "convert"
      /\ UNCHANGED <<podList, unscheduledPods, scheduledPods, originalUnscheduledPods,
                     base, placed, recorded>>
      /\ \/ pc' = "initialize" /\ podInfos' = Filter(podList, Others)
         \/ pc' = "badRequest" /\ podInfos' = podInfos
    BY DEF createSimulationRequest
<1>2. /\ unscheduledPods = <<>> /\ scheduledPods = <<>>
      /\ DOMAIN base = {} /\ placed = {} /\ recorded = {}
    BY <1>1 DEF IInv, NotYetMade, NothingPlaced
<1>3. ToSet(unscheduledPods') = {} /\ ToSet(scheduledPods') = {}
    BY <1>1, <1>2, EmptyList
<1>4. BasePods' = BasePods
    BY <1>1 DEF BasePods
<1>5. podList \in Seq(Pods) /\ ToSet(podList) \subseteq Pods
    BY DEF IInv, ListsTyped, TypeOK
<1>6. CASE pc' = "initialize" /\ podInfos' = Filter(podList, Others)
    <2>1. /\ podInfos' \in Seq(Pods)
          /\ ToSet(podInfos') = ToSet(podList) \cap Others
        BY <1>5, <1>6, FilterKeeps
    <2>2. ToSet(podInfos') = {p \in ToSet(podList') : PodInfo[p].namespace # "kube-system"}
        BY <1>1, <1>5, <2>1
    <2>a. TypeOK'
        BY <1>1, <1>2, <1>3, <1>6, <2>1 DEF IInv, TypeOK
    <2>b. ListsTyped'
        BY <1>1, <1>4, <2>1 DEF IInv, ListsTyped
    <2>c. NothingPlaced' /\ PodsKnown'
        BY <1>1, <1>2, <1>6, <2>2 DEF NothingPlaced, PodsKnown
    <2>d. BaseKnown' /\ OriginalsKnown'
        BY <1>6 DEF BaseKnown, OriginalsKnown
    <2>e. NotYetMade'
        BY <1>1, <1>6, <2>1 DEF IInv, NotYetMade
    <2>f. RecordedAsPlaced' /\ NamesakesGetNoNodes'
        BY <1>1, <1>2 DEF RecordedAsPlaced, NamesakesGetNoNodes
    <2> QED
        BY <2>a, <2>b, <2>c, <2>d, <2>e, <2>f DEF IInv
<1>7. CASE pc' = "badRequest" /\ podInfos' = podInfos
    <2>a. TypeOK'
        BY <1>1, <1>7 DEF IInv, TypeOK
    <2>b. ListsTyped'
        BY <1>1, <1>4, <1>7 DEF IInv, ListsTyped
    <2>c. NothingPlaced' /\ PodsKnown'
        BY <1>1, <1>2, <1>7 DEF NothingPlaced, PodsKnown
    <2>d. BaseKnown' /\ OriginalsKnown'
        BY <1>7 DEF BaseKnown, OriginalsKnown
    <2>e. NotYetMade'
        BY <1>1, <1>7 DEF IInv, NotYetMade
    <2>f. RecordedAsPlaced' /\ NamesakesGetNoNodes'
        BY <1>1, <1>2 DEF RecordedAsPlaced, NamesakesGetNoNodes
    <2> QED
        BY <2>a, <2>b, <2>c, <2>d, <2>e, <2>f DEF IInv
<1> QED
    BY <1>1, <1>6, <1>7

\* The last pod of a name in a list is one of the list, and has the name.
LEMMA LastOfName ==
    ASSUME NEW ps \in Seq(Pods), NEW name \in Names(ps)
    PROVE LET p == ps[SelectLastInSeq(ps, LAMBDA q : builtName(q) = name)]
          IN  p \in ToSet(ps) /\ builtName(p) = name
<1> DEFINE I == {i \in 1..Len(ps) : builtName(ps[i]) = name}
<1>1. SelectLastInSeq(ps, LAMBDA q : builtName(q) = name) = IF I # {} THEN Max(I) ELSE 0
    BY DEF SelectLastInSeq
<1>2. I # {} /\ IsFiniteSet(I) /\ \A i \in I : i \in Nat
    <2>1. PICK p \in ToSet(ps) : name = builtName(p)
        BY DEF Names
    <2>2. PICK i \in 1..Len(ps) : p = ps[i]
        BY <2>1 DEF ToSet
    <2>3. IsFiniteSet(1..Len(ps)) /\ I \subseteq 1..Len(ps)
        BY FS_Interval
    <2> QED
        BY <2>1, <2>2, <2>3, FS_Subset
<1>3. \A i \in I : i \in DOMAIN ps /\ builtName(ps[i]) = name
    OBVIOUS
<1> HIDE DEF I
<1>4. SelectLastInSeq(ps, LAMBDA q : builtName(q) = name) = Max(I)
    BY <1>1, <1>2, Zenon
<1>5. Max(I) \in I
    BY <1>2, MaxIsLargest
<1>6. ps[Max(I)] \in ToSet(ps) /\ builtName(ps[Max(I)]) = name
    BY <1>3, <1>5 DEF ToSet
<1> QED
    BY <1>4, <1>6, Zenon

\* Each pod of the request goes into one of two lists.
LEMMA initializeSimulationStateIInv == IInv /\ initializeSimulationState => IInv'
<1> SUFFICES ASSUME IInv, initializeSimulationState PROVE IInv'
    OBVIOUS
<1> DEFINE Unscheduled == {p \in Pods : isUnscheduled(p)}
           Scheduled == {p \in Pods : ~isUnscheduled(p)}
           unscheduled == Filter(podInfos, Unscheduled)
           LastOf(name) == unscheduled[SelectLastInSeq(unscheduled, LAMBDA p : builtName(p) = name)]
<1>1. /\ pc = "initialize" /\ pc' = "cluster"
      /\ UNCHANGED <<podList, podInfos, base, placed, recorded>>
      /\ unscheduledPods' = unscheduled
      /\ scheduledPods' = Filter(podInfos, Scheduled)
    BY DEF initializeSimulationState
<1>2. originalUnscheduledPods' = [name \in Names(unscheduled) |-> LastOf(name)]
    BY DEF initializeSimulationState
<1>3. DOMAIN base = {} /\ placed = {} /\ recorded = {}
    BY <1>1 DEF IInv, NothingPlaced
<1>4. podInfos \in Seq(Pods) /\ ToSet(podInfos) \subseteq Pods
    BY DEF IInv, ListsTyped, TypeOK
<1>5. /\ unscheduledPods' \in Seq(Pods)
      /\ ToSet(unscheduledPods') = ToSet(podInfos) \cap Unscheduled
      /\ scheduledPods' \in Seq(Pods)
      /\ ToSet(scheduledPods') = ToSet(podInfos) \cap Scheduled
    BY <1>1, <1>4, FilterKeeps
<1>6. /\ ToSet(podInfos) = ToSet(unscheduledPods') \cup ToSet(scheduledPods')
      /\ \A p \in ToSet(unscheduledPods') : ~PodInfo[p].bound /\ ~PodInfo[p].nominated
    BY <1>4, <1>5 DEF isUnscheduled
<1>7. BasePods' = BasePods
    BY <1>1 DEF BasePods
<1>8. \A name \in DOMAIN originalUnscheduledPods' :
          /\ originalUnscheduledPods'[name] \in ToSet(unscheduledPods')
          /\ builtName(originalUnscheduledPods'[name]) = name
    <2> SUFFICES ASSUME NEW name \in DOMAIN originalUnscheduledPods'
                 PROVE /\ originalUnscheduledPods'[name] \in ToSet(unscheduledPods')
                       /\ builtName(originalUnscheduledPods'[name]) = name
        OBVIOUS
    <2>1. unscheduled \in Seq(Pods)
        BY <1>1, <1>5
    <2> HIDE DEF unscheduled
    <2>2. name \in Names(unscheduled) /\ originalUnscheduledPods'[name] = LastOf(name)
        BY <1>2
    <2>3. LastOf(name) \in ToSet(unscheduled) /\ builtName(LastOf(name)) = name
        BY <2>1, <2>2, LastOfName
    <2> QED
        BY <1>1, <2>2, <2>3, Zenon
<1>9. \A p \in ToSet(unscheduledPods') : p \in Pods
    BY <1>4, <1>5
<1>a. TypeOK'
    <2>1. ToSet(podList') \subseteq Pods /\ ToSet(podInfos') \subseteq ToSet(podList')
        BY <1>1 DEF IInv, TypeOK
    <2>2. \A name \in DOMAIN base' : builtName(base'[name]) = name
        BY <1>1 DEF IInv, TypeOK
    <2> QED
        BY <1>1, <1>3, <1>6, <1>8, <2>1, <2>2 DEF TypeOK
<1>b. ListsTyped'
    BY <1>1, <1>5, <1>7, <1>8, <1>9 DEF IInv, ListsTyped
<1>c. NothingPlaced' /\ PodsKnown'
    BY <1>1, <1>3, <1>6 DEF IInv, NothingPlaced, PodsKnown
<1>d. BaseKnown' /\ OriginalsKnown'
    BY <1>1, <1>8 DEF BaseKnown, OriginalsKnown
<1>e. NotYetMade'
    BY <1>1, <1>5 DEF IInv, NotYetMade
<1>f. RecordedAsPlaced' /\ NamesakesGetNoNodes'
    BY <1>1, <1>3 DEF RecordedAsPlaced, NamesakesGetNoNodes
<1> QED
    BY <1>a, <1>b, <1>c, <1>d, <1>e, <1>f DEF IInv

\* When all scheduled pods have been created, they are the pods of the base.
LEMMA initializeVirtualClusterIInv == IInv /\ initializeVirtualCluster => IInv'
<1> SUFFICES ASSUME IInv, initializeVirtualCluster PROVE IInv'
    OBVIOUS
<1> DEFINE Of(name) == CHOOSE p \in ToSet(scheduledPods) : builtName(p) = name
           created == [i \in DOMAIN scheduledPods |-> builtName(scheduledPods[i])]
<1>1. /\ pc = "cluster"
      /\ UNCHANGED <<podList, podInfos, unscheduledPods, scheduledPods,
                     originalUnscheduledPods, placed, recorded>>
      /\ \/ /\ pc' = "simulate" /\ AllCreated(created)
            /\ base' = [name \in Names(scheduledPods) |-> Of(name)]
         \/ pc' = "error" /\ base' = base
    BY DEF initializeVirtualCluster
<1>2. DOMAIN base = {} /\ placed = {} /\ recorded = {}
    BY <1>1 DEF IInv, NothingPlaced
<1>3. ToSet(scheduledPods) \subseteq Pods
    BY DEF IInv, TypeOK
<1>b. NotYetMade'
    BY <1>1 DEF IInv, NotYetMade
<1>c. PodsKnown' /\ OriginalsKnown'
    BY <1>1 DEF IInv, PodsKnown, OriginalsKnown
<1>d. RecordedAsPlaced' /\ NamesakesGetNoNodes'
    BY <1>1, <1>2 DEF RecordedAsPlaced, NamesakesGetNoNodes
<1>4. CASE /\ pc' = "simulate" /\ AllCreated(created)
           /\ base' = [name \in Names(scheduledPods) |-> Of(name)]
    <2>1. \A name \in Names(scheduledPods) :
              Of(name) \in ToSet(scheduledPods) /\ builtName(Of(name)) = name
        BY DEF Names
    <2>2. \A p, q \in ToSet(scheduledPods) : builtName(p) = builtName(q) => p = q
        <3> SUFFICES ASSUME NEW p \in ToSet(scheduledPods), NEW q \in ToSet(scheduledPods),
                            builtName(p) = builtName(q)
                     PROVE p = q
            OBVIOUS
        <3>1. PICK i \in DOMAIN scheduledPods, j \in DOMAIN scheduledPods :
                  p = scheduledPods[i] /\ q = scheduledPods[j]
            BY DEF ToSet
        <3>2. created[i] = created[j] /\ i \in DOMAIN created /\ j \in DOMAIN created
            BY <3>1
        <3>3. i = j
            BY <1>4, <3>2 DEF AllCreated, IsInjective
        <3> QED
            BY <3>1, <3>3
    <2> HIDE DEF Of
    <2>3. DOMAIN base' = Names(scheduledPods)
          /\ \A name \in Names(scheduledPods) : base'[name] = Of(name)
        BY <1>4
    <2>4. BasePods' = ToSet(scheduledPods)
        <3>1. \A p \in BasePods' : p \in ToSet(scheduledPods)
            BY <2>1, <2>3 DEF BasePods
        <3>2. ASSUME NEW p \in ToSet(scheduledPods) PROVE p \in BasePods'
            <4>1. builtName(p) \in Names(scheduledPods)
                BY DEF Names
            <4>2. base'[builtName(p)] = p
                BY <2>1, <2>2, <2>3, <4>1
            <4> QED
                BY <2>3, <4>1, <4>2 DEF BasePods
        <3> QED
            BY <3>1, <3>2
    <2>5. TypeOK'
        <3>1. \A name \in DOMAIN base' : builtName(base'[name]) = name
            BY <2>1, <2>3
        <3> QED
            BY <1>1, <1>4, <3>1 DEF IInv, TypeOK
    <2>6. ListsTyped'
        BY <1>1, <1>3, <2>4 DEF IInv, ListsTyped
    <2>7. NothingPlaced' /\ BaseKnown'
        BY <1>1, <1>2, <1>4, <2>4 DEF NothingPlaced, BaseKnown
    <2> QED
        BY <1>b, <1>c, <1>d, <2>5, <2>6, <2>7 DEF IInv
<1>5. CASE pc' = "error" /\ base' = base
    <2>1. BasePods' = BasePods
        BY <1>5 DEF BasePods
    <2>2. TypeOK' /\ ListsTyped'
        BY <1>1, <1>5, <2>1 DEF IInv, TypeOK, ListsTyped
    <2>3. NothingPlaced' /\ BaseKnown'
        BY <1>5 DEF NothingPlaced, BaseKnown
    <2> QED
        BY <1>b, <1>c, <1>d, <2>2, <2>3 DEF IInv
<1> QED
    BY <1>1, <1>4, <1>5

-----------------------------------------------------------------------------
(* A simulation *)

\* What can be deployed has each name once: two pods of the base or unscheduled under
\* one name of the run are one pod.
LEMMA NamesUsedOnce ==
    ASSUME IInv, AllCreated(Deployed),
           NEW p \in BasePods \cup ToSet(unscheduledPods),
           NEW q \in BasePods \cup ToSet(unscheduledPods),
           fromOriginalResourceName(builtName(p)) = fromOriginalResourceName(builtName(q))
    PROVE p = q
<1> DEFINE basePods == SetToSeq(BasePods)
           all == basePods \o unscheduledPods
           RunName(i) == fromOriginalResourceName(builtName(all[i]))
<1>1. BasePods \subseteq Pods /\ unscheduledPods \in Seq(Pods)
    BY DEF IInv, ListsTyped
<1>2. /\ basePods \in Seq(Pods)
      /\ \A x \in BasePods : \E i \in DOMAIN basePods : basePods[i] = x
    BY <1>1, ListOfSet
<1> HIDE DEF basePods
<1>3. /\ all \in Seq(Pods) /\ Len(all) = Len(basePods) + Len(unscheduledPods)
      /\ \A i \in 1..(Len(basePods) + Len(unscheduledPods)) :
            all[i] = IF i <= Len(basePods) THEN basePods[i] ELSE unscheduledPods[i - Len(basePods)]
    BY <1>1, <1>2, ConcatProperties
<1>4. /\ DOMAIN basePods = 1..Len(basePods) /\ Len(basePods) \in Nat
      /\ DOMAIN unscheduledPods = 1..Len(unscheduledPods) /\ Len(unscheduledPods) \in Nat
      /\ DOMAIN all = 1..Len(all)
    BY <1>1, <1>2, <1>3
<1>5. Deployed = [i \in DOMAIN all |-> RunName(i)]
    BY DEF Deployed, BasePods, basePods
<1> HIDE DEF all
<1>6. \A x \in BasePods \cup ToSet(unscheduledPods) : \E i \in DOMAIN all : all[i] = x
    <2>1. ASSUME NEW x \in BasePods PROVE \E i \in DOMAIN all : all[i] = x
        <3>1. PICK i \in DOMAIN basePods : basePods[i] = x
            BY <1>2
        <3>2. i \in DOMAIN all /\ i <= Len(basePods) /\ i \in 1..(Len(basePods) + Len(unscheduledPods))
            BY <1>3, <1>4
        <3>3. all[i] = basePods[i]
            BY <1>3, <3>2
        <3> QED
            BY <3>1, <3>2, <3>3
    <2>2. ASSUME NEW x \in ToSet(unscheduledPods) PROVE \E i \in DOMAIN all : all[i] = x
        <3>1. PICK i \in DOMAIN unscheduledPods : unscheduledPods[i] = x
            BY DEF ToSet
        <3> DEFINE j == Len(basePods) + i
        <3>2. /\ j \in DOMAIN all /\ ~(j <= Len(basePods)) /\ j - Len(basePods) = i
              /\ j \in 1..(Len(basePods) + Len(unscheduledPods))
            BY <1>3, <1>4
        <3> HIDE DEF j
        <3>3. all[j] = unscheduledPods[i]
            BY <1>3, <3>2
        <3> QED
            BY <3>1, <3>2, <3>3
    <2> QED
        BY <2>1, <2>2
<1>7. PICK i \in DOMAIN all, j \in DOMAIN all : all[i] = p /\ all[j] = q
    BY <1>6
<1>8. \A k, l \in DOMAIN all : RunName(k) = RunName(l) => k = l
    BY <1>5 DEF AllCreated, IsInjective
<1>9. RunName(i) = RunName(j)
    BY <1>7
<1> QED
    BY <1>7, <1>8, <1>9

\* The end of the run and the answer change nothing that is known of the pods.
LEMMA EndIInv == IInv /\ (EndOfRun \/ Answered \/ UNCHANGED vars) => IInv'
<1> SUFFICES ASSUME IInv, EndOfRun \/ Answered \/ UNCHANGED vars PROVE IInv'
    OBVIOUS
<1>1. /\ pc' = pc \/ (pc = "simulate" /\ pc' = "ok")
      /\ UNCHANGED <<podList, podInfos, unscheduledPods, scheduledPods,
                     originalUnscheduledPods, base, placed, recorded>>
    BY DEF EndOfRun, Answered, vars
<1>2. BasePods' = BasePods
    BY <1>1 DEF BasePods
<1>3. TypeOK' /\ ListsTyped'
    BY <1>1, <1>2 DEF IInv, TypeOK, ListsTyped
<1>4. NothingPlaced' /\ PodsKnown'
    BY <1>1 DEF IInv, NothingPlaced, PodsKnown
<1>5. BaseKnown' /\ OriginalsKnown'
    BY <1>1, <1>2 DEF IInv, BaseKnown, OriginalsKnown
<1>6. NotYetMade'
    BY <1>1 DEF IInv, NotYetMade
<1>7. RecordedAsPlaced' /\ NamesakesGetNoNodes'
    BY <1>1 DEF IInv, RecordedAsPlaced, NamesakesGetNoNodes
<1> QED
    BY <1>3, <1>4, <1>5, <1>6, <1>7 DEF IInv

\* The pods that a simulation places leave the unscheduled pods for the base, and those
\* that are recorded are those that were placed.
LEMMA SimulateIInv == IInv /\ Simulate => IInv'
<1> SUFFICES ASSUME IInv, Simulate PROVE IInv'
    OBVIOUS
<1>1. PICK ps \in SUBSET ToSet(unscheduledPods) :
          LET names == BaseNames(ps)
              found == names \subseteq DOMAIN originalUnscheduledPods
              created == names \cap DOMAIN base = {} /\ Cardinality(names) = Cardinality(ps)
          IN  /\ placed' = placed \cup ps
              /\ IF found /\ created
                 THEN /\ base' = [name \in DOMAIN base \cup names |->
                            IF name \in names THEN originalUnscheduledPods[name] ELSE base[name]]
                      /\ recorded' = recorded \cup {originalUnscheduledPods[name] : name \in names}
                      /\ unscheduledPods' =
                            Filter(unscheduledPods, {p \in Pods : builtName(p) \notin names})
                      /\ UNCHANGED pc
                 ELSE pc' = "error" /\ UNCHANGED <<base, recorded, unscheduledPods>>
    BY DEF Simulate
<1> DEFINE names == BaseNames(ps)
           Left == {p \in Pods : builtName(p) \notin names}
           new == {originalUnscheduledPods[name] : name \in names}
           Original(name) == originalUnscheduledPods[name]
<1>2. /\ pc = "simulate" /\ AllCreated(Deployed)
      /\ UNCHANGED <<podList, podInfos, scheduledPods, originalUnscheduledPods>>
      /\ placed' = placed \cup ps
    BY <1>1 DEF Simulate
<1>3. \/ /\ names \subseteq DOMAIN originalUnscheduledPods /\ names \cap DOMAIN base = {}
         /\ base' = [name \in DOMAIN base \cup names |->
                        IF name \in names THEN Original(name) ELSE base[name]]
         /\ recorded' = recorded \cup new
         /\ unscheduledPods' = Filter(unscheduledPods, Left)
         /\ pc' = "simulate"
      \/ pc' = "error" /\ UNCHANGED <<base, recorded, unscheduledPods>>
    BY <1>1, <1>2
<1>4. /\ BasePods = ToSet(scheduledPods) \cup recorded
      /\ ToSet(podInfos) = ToSet(unscheduledPods) \cup ToSet(scheduledPods) \cup recorded
      /\ \A name \in DOMAIN originalUnscheduledPods :
            /\ Original(name) \in ToSet(unscheduledPods) \cup recorded
            /\ builtName(Original(name)) = name
    BY <1>2 DEF IInv, BaseKnown, PodsKnown, OriginalsKnown, TypeOK
<1>5. /\ \A p \in ToSet(podInfos) : p \in Pods
      /\ unscheduledPods \in Seq(Pods)
      /\ \A p \in BasePods : p \in Pods
    BY DEF IInv, TypeOK, ListsTyped
<1>6. \A p, q \in ToSet(podInfos) :
          fromOriginalResourceName(builtName(p)) = fromOriginalResourceName(builtName(q)) => p = q
    <2> SUFFICES ASSUME NEW p \in ToSet(podInfos), NEW q \in ToSet(podInfos),
                        fromOriginalResourceName(builtName(p)) = fromOriginalResourceName(builtName(q))
                 PROVE p = q
        OBVIOUS
    <2>1. p \in BasePods \cup ToSet(unscheduledPods) /\ q \in BasePods \cup ToSet(unscheduledPods)
        BY <1>4
    <2> QED
        BY <1>2, <2>1, NamesUsedOnce
<1>7. \A p, q \in ToSet(podInfos) : builtName(p) = builtName(q) => p = q
    BY <1>6
<1> HIDE DEF names, new
<1>a. NamesakesGetNoNodes'
    BY <1>2, <1>7 DEF NamesakesGetNoNodes, Namesake
<1>b. NotYetMade' /\ NothingPlaced'
    BY <1>2, <1>3 DEF NotYetMade, NothingPlaced
<1>8. \A p \in ps : ~PodInfo[p].bound /\ ~PodInfo[p].nominated
    BY DEF IInv, TypeOK
<1>9. CASE pc' = "error" /\ UNCHANGED <<base, recorded, unscheduledPods>>
    <2>1. BasePods' = BasePods
        BY <1>9 DEF BasePods
    <2>2. TypeOK'
        BY <1>2, <1>8, <1>9 DEF IInv, TypeOK
    <2>3. ListsTyped'
        BY <1>2, <1>9, <2>1 DEF IInv, ListsTyped
    <2>4. PodsKnown' /\ BaseKnown' /\ OriginalsKnown'
        BY <1>2, <1>9 DEF IInv, PodsKnown, BaseKnown, OriginalsKnown
    <2>5. RecordedAsPlaced'
        BY <1>2, <1>9 DEF IInv, RecordedAsPlaced
    <2> QED
        BY <1>a, <1>b, <2>2, <2>3, <2>4, <2>5 DEF IInv
<1>10. CASE /\ names \subseteq DOMAIN originalUnscheduledPods /\ names \cap DOMAIN base = {}
            /\ base' = [name \in DOMAIN base \cup names |->
                           IF name \in names THEN Original(name) ELSE base[name]]
            /\ recorded' = recorded \cup new
            /\ unscheduledPods' = Filter(unscheduledPods, Left)
            /\ pc' = "simulate"
    <2>1. \A name \in names :
              Original(name) \in ToSet(unscheduledPods) /\ builtName(Original(name)) = name
        <3> SUFFICES ASSUME NEW name \in names
                     PROVE /\ Original(name) \in ToSet(unscheduledPods)
                           /\ builtName(Original(name)) = name
            OBVIOUS
        <3>1. /\ Original(name) \in ToSet(unscheduledPods) \cup recorded
              /\ builtName(Original(name)) = name
            BY <1>4, <1>10
        <3>2. Original(name) \notin recorded
            <4> SUFFICES ASSUME Original(name) \in BasePods PROVE FALSE
                BY <1>4
            <4>1. PICK nm \in DOMAIN base : Original(name) = base[nm]
                BY DEF BasePods
            <4>2. builtName(base[nm]) = nm
                BY DEF IInv, TypeOK
            <4> QED
                BY <1>10, <3>1, <4>1, <4>2
        <3> QED
            BY <3>1, <3>2
    <2>2. new \subseteq ToSet(unscheduledPods) /\ \A p \in new : builtName(p) \in names
        BY <2>1 DEF new
    <2>3. \A p \in ToSet(unscheduledPods) : builtName(p) \in names => p \in new
        <3> SUFFICES ASSUME NEW p \in ToSet(unscheduledPods), builtName(p) \in names
                     PROVE p \in new
            OBVIOUS
        <3>1. Original(builtName(p)) = p
            BY <1>4, <1>7, <2>1
        <3> QED
            BY <3>1 DEF new
    <2>4. /\ unscheduledPods' \in Seq(Pods)
          /\ ToSet(unscheduledPods') = ToSet(unscheduledPods) \cap Left
        BY <1>5, <1>10, FilterKeeps
    <2>5. \A p \in ToSet(unscheduledPods) : p \in Pods
        BY <1>4, <1>5
    <2>6. ToSet(unscheduledPods) = ToSet(unscheduledPods') \cup new
        BY <2>2, <2>3, <2>4, <2>5
    <2>7. /\ DOMAIN base' = DOMAIN base \cup names
          /\ \A name \in names : base'[name] = Original(name)
          /\ \A name \in DOMAIN base : base'[name] = base[name]
        BY <1>10
    <2>8. BasePods' = BasePods \cup new
        <3>1. \A p \in BasePods' : p \in BasePods \cup new
            BY <2>7 DEF BasePods, new
        <3>2. \A p \in BasePods : p \in BasePods'
            BY <2>7 DEF BasePods
        <3>3. \A p \in new : p \in BasePods'
            BY <2>7 DEF BasePods, new
        <3> QED
            BY <3>1, <3>2, <3>3
    <2>9. TypeOK'
        <3>1. \A name \in DOMAIN base' : builtName(base'[name]) = name
            BY <2>1, <2>7 DEF IInv, TypeOK
        <3>2. ToSet(unscheduledPods') \subseteq ToSet(unscheduledPods)
            BY <2>4
        <3>3. \A p \in ToSet(unscheduledPods') \cup placed' \cup recorded' :
                  ~PodInfo[p].bound /\ ~PodInfo[p].nominated
            BY <1>2, <1>8, <1>10, <2>2, <3>2 DEF IInv, TypeOK
        <3> QED
            BY <1>2, <1>10, <3>1, <3>2, <3>3 DEF IInv, TypeOK
    <2>10. ListsTyped'
        BY <1>2, <1>5, <2>2, <2>4, <2>5, <2>8 DEF IInv, ListsTyped
    <2>11. PodsKnown'
        <3>1. ToSet(podInfos) = ToSet(unscheduledPods') \cup ToSet(scheduledPods') \cup recorded'
            BY <1>2, <1>4, <1>10, <2>6
        <3>2. recorded' \subseteq ToSet(podInfos)
            BY <3>1
        <3> QED
            BY <1>2, <3>1, <3>2 DEF IInv, PodsKnown
    <2>12. BaseKnown' /\ OriginalsKnown'
        <3>1. BasePods' = ToSet(scheduledPods') \cup recorded'
            BY <1>2, <1>4, <1>10, <2>8
        <3>2. \A name \in DOMAIN originalUnscheduledPods' :
                  originalUnscheduledPods'[name] \in ToSet(unscheduledPods') \cup recorded'
            BY <1>2, <1>4, <1>10, <2>6
        <3> QED
            BY <3>1, <3>2 DEF BaseKnown, OriginalsKnown
    <2>13. RecordedAsPlaced'
        <3> SUFFICES ASSUME \A p \in placed' : Restorable(PodInfo[p].name)
                     PROVE recorded' = placed'
            BY DEF RecordedAsPlaced
        <3>1. recorded = placed
            BY <1>2 DEF IInv, RecordedAsPlaced
        <3> DEFINE ReadBack(p) == toOriginalResourceName(fromOriginalResourceName(builtName(p)))
        <3>2. names = {ReadBack(p) : p \in ps}
            BY DEF names, BaseNames
        <3>3. ASSUME NEW p \in ps PROVE ReadBack(p) \in names /\ Original(ReadBack(p)) = p
            <4> DEFINE t == TrimPrefix(builtName(p))
            <4>1. p \in Pods /\ p \in ToSet(podInfos) /\ Restorable(PodInfo[p].name)
                BY <1>2, <1>4, <2>5
            <4>2. ReadBack(p) = t /\ TrimPrefix(t) = t
                BY <4>1, NameReadBack, TrimmedNames
            <4>3. ReadBack(p) \in names
                BY <3>2
            <4> HIDE DEF t, ReadBack
            <4>4. /\ Original(t) \in ToSet(unscheduledPods) /\ builtName(Original(t)) = t
                BY <2>1, <4>2, <4>3
            <4>5. fromOriginalResourceName(builtName(Original(t))) = fromOriginalResourceName(builtName(p))
                BY <4>2, <4>4 DEF fromOriginalResourceName, t
            <4>6. Original(t) \in ToSet(podInfos)
                BY <1>4, <4>4
            <4>7. Original(t) = p
                BY <1>6, <4>1, <4>5, <4>6
            <4> QED
                BY <4>2, <4>3, <4>7
        <3> HIDE DEF ReadBack
        <3>4. new = ps
            <4>1. \A p \in ps : p \in new
                BY <3>3 DEF new
            <4>2. \A p \in new : p \in ps
                BY <3>2, <3>3 DEF new
            <4> QED
                BY <4>1, <4>2
        <3> QED
            BY <1>2, <1>10, <3>1, <3>4
    <2> QED
        BY <1>a, <1>b, <2>9, <2>10, <2>11, <2>12, <2>13 DEF IInv
<1> QED
    BY <1>3, <1>9, <1>10

-----------------------------------------------------------------------------
(* The theorems *)

\* The invariant holds in every state.
LEMMA IInvariance == Spec => []IInv
<1>1. IInv /\ [Next]_vars => IInv'
    BY ListIInv, createSimulationRequestIInv, initializeSimulationStateIInv,
       initializeVirtualClusterIInv, SimulateIInv, EndIInv DEF Next
<1> QED
    BY InitIInv, <1>1, PTL DEF Spec

\* The lists of Run hold pods of the request, each known under a name it has, and no pod
\* that is bound or nominated is planned for.
THEOREM TypeCorrect == Spec => []TypeOK
<1>1. IInv => TypeOK
    BY DEF IInv
<1> QED
    BY <1>1, IInvariance, PTL

\* Through two changes of its name and back, the placement of a simulated pod is recorded
\* for that pod: for all pods whose names have neither the separator nor the prefix twice.
THEOREM PlacedAsRecorded == Spec => []RecordedAsPlaced
<1>1. IInv => RecordedAsPlaced
    BY DEF IInv
<1> QED
    BY <1>1, IInvariance, PTL

\* No pod of the target cluster is lost: it is unscheduled, was scheduled or is recorded.
THEOREM NothingForgotten == Spec => []NoPodForgotten
<1>1. IInv => NoPodForgotten
    BY DEF IInv, PodsKnown, NoPodForgotten
<1> QED
    BY <1>1, IInvariance, PTL

\* As long as two pods of the request have one name, nothing is ever recorded.
THEOREM NamesakesBlock == Spec => []NamesakesGetNoNodes
<1>1. IInv => NamesakesGetNoNodes
    BY DEF IInv
<1> QED
    BY <1>1, IInvariance, PTL

=============================================================================
