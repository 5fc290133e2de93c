-------------------------- MODULE UtilisationProofs --------------------------
(***************************************************************************)
(* Theorems about Utilisation, for any pods and requests, any nodes of the *)
(* request, any number of winners and every placement of theirs, and for   *)
(* the groups of a winner in any order.                                    *)
(***************************************************************************)
EXTENDS Utilisation, FoldProofs

-----------------------------------------------------------------------------
(* The inductive invariant *)

\* The nodes that a report may be about after the given number of winners, and the
\* names they have in a simulation.
Reportable(last) == InitialNodes \cup scaledNodes(last)
SimulatedNodes(last) == [name : Reportable(last), clone : BOOLEAN]

\* The pods as an entry lists them.
Listing == [pod : Pods, run : Nat]
ListingOf(q) == [pod |-> q.pod, run |-> q.run]
Listings(qs) == {ListingOf(q) : q \in qs}

TypeInv ==
    /\ runNumber \in 0..MaxRuns /\ unscheduledPods \subseteq Pods
    /\ IsFiniteSet(placed)
    /\ placed \subseteq [pod : Pods, run : 1..runNumber, at : SimulatedNodes(runNumber)]
    /\ DOMAIN nodeUtilisationInfos \subseteq Reportable(runNumber)
    /\ \A n \in DOMAIN nodeUtilisationInfos :
         nodeUtilisationInfos[n] \in [described : BOOLEAN, pods : Seq(Listing),
                                      resourcesConsumed : Nat \cup {None}]

\* A winner places a pod once.
PlacedOnce ==
    \A q, t \in placed : q.pod = t.pod /\ q.run = t.run => q.at = t.at

\* What the last winner placed on a simulated node: a group that is still to be added
\* has these pods, and there is one of them at least.
TookLast(n) == {q \in placed : q.run = runNumber /\ q.at = n}
GroupsToAdd ==
    /\ nodeToPods = [n \in DOMAIN nodeToPods |-> Listings(TookLast(n))]
    /\ \A n \in DOMAIN nodeToPods : n \in SimulatedNodes(runNumber) /\ TookLast(n) # {}

\* The placements whose groups have been added to the entry of a node.
Added(name) ==
    {q \in placed : q.at.name = name /\ ~(q.run = runNumber /\ q.at \in DOMAIN nodeToPods)}

\* An entry exists for a node with an added group, and it lists what has been added.
AddedListed ==
    /\ \A name : Added(name) # {} => name \in DOMAIN nodeUtilisationInfos
    /\ \A n \in DOMAIN nodeUtilisationInfos :
         /\ ToSet(nodeUtilisationInfos[n].pods) = Listings(Added(n))
         /\ Len(nodeUtilisationInfos[n].pods) = Cardinality(Added(n))

\* The group of the winner and of the simulated node that a placement belongs to.
GroupOf(last) == {q \in placed : q.run = last.run /\ q.at = last.at}

\* An entry shows the resources of a group that was added to it, of the last winner
\* that did.
AddedConsumed ==
    \A n \in DOMAIN nodeUtilisationInfos :
        /\ Added(n) = {} => nodeUtilisationInfos[n].resourcesConsumed = None
        /\ Added(n) # {} =>
             \E last \in Added(n) :
               /\ \A q \in Added(n) : q.run <= last.run
               /\ nodeUtilisationInfos[n].resourcesConsumed = cumulatePodRequests(GroupOf(last))

IInv ==
    /\ TypeInv /\ PlacedOnce /\ GroupsToAdd
    /\ RecommendedNodesDescribed /\ AddedListed /\ AddedConsumed

-----------------------------------------------------------------------------
(* Lists *)

\* The list of a finite set has each element of the set once and no other.
LEMMA ListOfSet ==
    ASSUME NEW S, IsFiniteSet(S), NEW T, S \subseteq T
    PROVE /\ SetToSeq(S) \in Seq(T)
          /\ ToSet(SetToSeq(S)) = S
          /\ Len(SetToSeq(S)) = Cardinality(S)
<1> DEFINE n == Cardinality(S)
           s == SetToSeq(S)
<1>1. n \in Nat /\ ExistsBijection(1..n, S)
    BY FS_CardinalityType
<1> HIDE DEF n
<1>2. \E f \in [1..n -> S] : IsInjective(f)
    BY <1>1 DEF ExistsBijection, Bijection, Injection, IsInjective
<1>3. s \in [1..n -> S] /\ IsInjective(s)
    BY <1>2 DEF SetToSeq, n
<1> HIDE DEF s
<1>4. s \in Injection(1..n, S)
    BY <1>3 DEF Injection, IsInjective
<1>5. IsFiniteSet(1..n) /\ Cardinality(1..n) = n
    BY <1>1, FS_Interval
<1>6. s \in Surjection(1..n, S)
    BY <1>1, <1>4, <1>5, FS_Injection DEF n
<1>7. \A x \in S : \E i \in 1..n : s[i] = x
    BY <1>6 DEF Surjection
<1>8. s \in Seq(T) /\ DOMAIN s = 1..n /\ Len(s) = n /\ \A i \in 1..n : s[i] \in S
    BY <1>1, <1>3
<1>9. ToSet(s) = S
    BY <1>7, <1>8 DEF ToSet
<1> QED
    BY <1>8, <1>9 DEF s, n

\* A list appended to another: the elements and the lengths add up.
LEMMA Appended ==
    ASSUME NEW T, NEW s \in Seq(T), NEW t \in Seq(T)
    PROVE /\ s \o t \in Seq(T)
          /\ ToSet(s \o t) = ToSet(s) \cup ToSet(t)
          /\ Len(s \o t) = Len(s) + Len(t)
<1> DEFINE u == s \o t
           m == Len(s)
           n == Len(t)
<1>1. /\ u \in Seq(T) /\ m \in Nat /\ n \in Nat /\ Len(u) = m + n
      /\ DOMAIN s = 1..m /\ DOMAIN t = 1..n /\ DOMAIN u = 1..(m + n)
      /\ \A i \in 1..m : u[i] = s[i]
      /\ \A i \in 1..n : u[m + i] = t[i]
    OBVIOUS
<1> HIDE DEF u, m, n
<1>2. /\ \A i \in 1..m : i \in 1..(m + n)
      /\ \A i \in 1..n : m + i \in 1..(m + n)
      /\ \A i \in 1..(m + n) : i \in 1..m \/ (i - m \in 1..n /\ m + (i - m) = i)
    BY <1>1
<1>3. ASSUME NEW x \in ToSet(u) PROVE x \in ToSet(s) \cup ToSet(t)
    <2>1. PICK i \in 1..(m + n) : x = u[i]
        BY <1>1 DEF ToSet
    <2>2. CASE i \in 1..m
        BY <1>1, <2>1, <2>2 DEF ToSet
    <2>3. CASE i - m \in 1..n /\ m + (i - m) = i
        <3>1. PICK j \in 1..n : m + j = i
            BY <2>3
        <3>2. x = t[j]
            BY <1>1, <2>1, <3>1
        <3> QED
            BY <1>1, <3>2 DEF ToSet
    <2> QED
        BY <1>2, <2>2, <2>3
<1>4. ASSUME NEW x \in ToSet(s) \cup ToSet(t) PROVE x \in ToSet(u)
    <2>1. CASE x \in ToSet(s)
        <3>1. PICK i \in 1..m : x = s[i]
            BY <1>1, <2>1 DEF ToSet
        <3> QED
            BY <1>1, <1>2, <3>1 DEF ToSet
    <2>2. CASE x \in ToSet(t)
        <3>1. PICK i \in 1..n : x = t[i]
            BY <1>1, <2>2 DEF ToSet
        <3>2. m + i \in DOMAIN u /\ x = u[m + i]
            BY <1>1, <1>2, <3>1
        <3> QED
            BY <3>2 DEF ToSet
    <2> QED
        BY <2>1, <2>2
<1>5. ToSet(u) = ToSet(s) \cup ToSet(t)
    BY <1>3, <1>4
<1> QED
    BY <1>1, <1>5 DEF u, m, n

-----------------------------------------------------------------------------
(* Groups *)

\* What the pods of a group ask for, as a function, and together as a sum of it.
Asked(qs) == [q \in qs |-> Requests[q.pod]]

\* The fold of cumulatePodRequests adds up that function.
LEMMA CumulatedIsSum ==
    ASSUME NEW qs
    PROVE cumulatePodRequests(qs) = SumFunctionOnSet(Asked(qs), qs)
<1> DEFINE F(g) == [s \in SUBSET qs |-> IF s = {} THEN 0
                       ELSE Requests[(CHOOSE x \in s : TRUE).pod] + g[s \ {CHOOSE x \in s : TRUE}]]
           G(g) == [s \in SUBSET qs |-> OneStep(Asked(qs), g, s)]
<1>1. ASSUME NEW g PROVE F(g) = G(g)
    <2>1. ASSUME NEW s \in SUBSET qs, s # {} PROVE Asked(qs)[Taken(s)] = Requests[Taken(s).pod]
        <3>1. Taken(s) \in qs
            BY <2>1 DEF Taken
        <3> QED
            BY <3>1 DEF Asked
    <2> QED
        BY <2>1 DEF OneStep, Taken
<1>2. cumulatePodRequests(qs) = (CHOOSE g : g = F(g))[qs]
    BY DEF cumulatePodRequests, MapThenSumSet, MapThenFoldSet
<1>3. Sums(Asked(qs), qs) = CHOOSE g : g = G(g)
    BY DEF Sums
<1> HIDE DEF F, G
<1>4. (CHOOSE g : g = F(g)) = CHOOSE g : g = G(g)
    BY <1>1
<1> QED
    BY <1>2, <1>3, <1>4, SumIsFold

\* Pods that are told apart by pod and winner are listed once each, and their listings
\* ask for what they ask for.
LEMMA ListedAsTaken ==
    ASSUME NEW qs, IsFiniteSet(qs), \A q \in qs : q.pod \in Pods /\ q.run \in Nat,
           \A q, t \in qs : q.pod = t.pod /\ q.run = t.run => q = t
    PROVE /\ IsFiniteSet(Listings(qs)) /\ Listings(qs) \subseteq Listing
          /\ Cardinality(Listings(qs)) = Cardinality(qs)
          /\ cumulatePodRequests(Listings(qs)) = cumulatePodRequests(qs)
          /\ cumulatePodRequests(qs) \in Nat
<1> DEFINE h == [q \in qs |-> ListingOf(q)]
<1>1. \A q \in qs : h[q] = ListingOf(q) /\ h[q].pod = q.pod /\ h[q].run = q.run
    BY DEF ListingOf
<1>2. \A q, t \in qs : h[q] = h[t] => q = t
    BY <1>1
<1>3. Listings(qs) = Image(h, qs)
    BY DEF Listings, Image
<1>4. h \in Bijection(qs, Listings(qs))
    <2>1. h \in [qs -> Listings(qs)]
        BY DEF Listings
    <2>2. \A y \in Listings(qs) : \E q \in qs : h[q] = y
        BY DEF Listings
    <2> HIDE DEF h
    <2> QED
        BY <1>2, <2>1, <2>2 DEF Bijection, Injection, IsInjective, Surjection
<1> HIDE DEF h
<1>5. IsFiniteSet(Listings(qs)) /\ Cardinality(Listings(qs)) = Cardinality(qs)
    BY <1>4, FS_Bijection DEF ExistsBijection
<1>6. Listings(qs) \subseteq Listing
    BY DEF Listings, ListingOf, Listing
<1> DEFINE f == Asked(qs)
           g == Asked(Listings(qs))
<1>7. \A q \in qs : f[q] \in Nat /\ g[h[q]] = f[q]
    BY <1>1, <1>3, UtilisationAssumption DEF Asked, Image
<1> HIDE DEF f, g
<1>8. SumFunctionOnSet(g, Image(h, qs)) = SumFunctionOnSet(f, qs)
    BY <1>2, <1>7, SumRenamed
<1>9. SumFunctionOnSet(f, qs) \in Nat
    BY <1>7, SumType
<1> QED
    BY <1>3, <1>5, <1>6, <1>8, <1>9, CumulatedIsSum DEF f, g

-----------------------------------------------------------------------------
(* The state *)

\* The nodes recommended are named after the winners, and differ from each other and
\* from the nodes of the request.
LEMMA NewName ==
    ASSUME NEW r \in 0..MaxRuns, r < MaxRuns
    PROVE /\ scaledNode(r + 1) \notin Reportable(r)
          /\ Reportable(r + 1) = Reportable(r) \cup {scaledNode(r + 1)}
          /\ scaledNodes(r + 1) = scaledNodes(r) \cup {scaledNode(r + 1)}
<1>1. MaxRuns \in Nat /\ r \in Nat /\ r + 1 \in 1..MaxRuns
    BY UtilisationAssumption
<1>2. scaledNode(r + 1) \notin InitialNodes
    BY <1>1, UtilisationAssumption DEF scaledNode
<1>3. scaledNode(r + 1) \notin scaledNodes(r)
    <2>1. ASSUME NEW i \in 1..r PROVE scaledNode(i) # scaledNode(r + 1)
        <3>1. scaledNode(i).run = i /\ scaledNode(r + 1).run = r + 1 /\ i # r + 1
            BY <1>1 DEF scaledNode
        <3> QED
            BY <3>1
    <2> QED
        BY <2>1 DEF scaledNodes
<1>4. scaledNodes(r + 1) = scaledNodes(r) \cup {scaledNode(r + 1)}
    <2>1. \A i \in 1..(r + 1) : i \in 1..r \/ i = r + 1
        BY <1>1
    <2>2. \A i \in 1..r : i \in 1..(r + 1)
        BY <1>1
    <2>3. r + 1 \in 1..(r + 1)
        BY <1>1
    <2> QED
        BY <2>1, <2>2, <2>3 DEF scaledNodes
<1> QED
    BY <1>2, <1>3, <1>4 DEF Reportable

\* What has been placed, part by part.
LEMMA PlacedTyped ==
    ASSUME TypeInv, PlacedOnce
    PROVE /\ \A q \in placed : /\ q.pod \in Pods /\ q.run \in Nat /\ q.run <= runNumber
                               /\ q.at \in SimulatedNodes(runNumber)
                               /\ q.at.name \in Reportable(runNumber)
          /\ \A q, t \in placed : q.pod = t.pod /\ q.run = t.run => q = t
          /\ runNumber \in Nat
<1>1. runNumber \in Nat
    BY UtilisationAssumption DEF TypeInv
<1>2. \A q \in placed : /\ q = [pod |-> q.pod, run |-> q.run, at |-> q.at]
                        /\ q.pod \in Pods /\ q.run \in 1..runNumber
                        /\ q.at \in SimulatedNodes(runNumber)
    BY DEF TypeInv
<1>3. \A n \in SimulatedNodes(runNumber) : n.name \in Reportable(runNumber)
    BY DEF SimulatedNodes
<1>4. \A q, t \in placed : q.pod = t.pod /\ q.run = t.run => q = t
    BY <1>2 DEF PlacedOnce
<1> QED
    BY <1>1, <1>2, <1>3, <1>4

\* What is true of any part of it.
LEMMA PartOfPlaced ==
    ASSUME TypeInv, PlacedOnce, NEW qs \in SUBSET placed
    PROVE /\ IsFiniteSet(qs) /\ IsFiniteSet(Listings(qs)) /\ Listings(qs) \subseteq Listing
          /\ Cardinality(Listings(qs)) = Cardinality(qs)
          /\ cumulatePodRequests(Listings(qs)) = cumulatePodRequests(qs)
          /\ cumulatePodRequests(qs) \in Nat
<1>1. IsFiniteSet(qs)
    BY FS_Subset DEF TypeInv
<1>2. /\ \A q \in qs : q.pod \in Pods /\ q.run \in Nat
      /\ \A q, t \in qs : q.pod = t.pod /\ q.run = t.run => q = t
    BY PlacedTyped
<1> QED
    BY <1>1, <1>2, ListedAsTaken

\* Nothing is reported at first.
LEMMA InitHolds == Init => IInv
<1> SUFFICES ASSUME Init PROVE IInv
    OBVIOUS
<1> USE DEF Init
<1>1. DOMAIN nodeUtilisationInfos = {} /\ DOMAIN nodeToPods = {} /\ runNumber \in 0..MaxRuns
    BY UtilisationAssumption
<1>2. scaledNodes(0) = {}
    BY DEF scaledNodes
<1>3. TypeInv
    BY <1>1, FS_EmptySet DEF TypeInv
<1>4. PlacedOnce
    BY DEF PlacedOnce
<1>5. GroupsToAdd
    BY <1>1 DEF GroupsToAdd
<1>6. RecommendedNodesDescribed
    BY <1>1, <1>2 DEF RecommendedNodesDescribed
<1>7. AddedListed /\ AddedConsumed
    BY <1>1 DEF AddedListed, AddedConsumed, Added
<1> QED
    BY <1>3, <1>4, <1>5, <1>6, <1>7 DEF IInv

-----------------------------------------------------------------------------
(* A run with a winner *)

\* The pods it places, all of them under its number and in no group added yet.
LEMMA WinnerPlaces ==
    ASSUME IInv, Winner
    PROVE /\ runNumber \in Nat /\ runNumber < MaxRuns /\ runNumber' = runNumber + 1
          /\ DOMAIN nodeToPods = {}
          /\ \E new :
               /\ placed' = placed \cup new /\ IsFiniteSet(new)
               /\ \A q \in new : /\ q = [pod |-> q.pod, run |-> q.run, at |-> q.at]
                                 /\ q.pod \in Pods /\ q.run = runNumber + 1
                                 /\ q.at \in SimulatedNodes(runNumber + 1)
                                 /\ q.at \in DOMAIN nodeToPods'
               /\ \A q, t \in new : q.pod = t.pod => q.at = t.at
               /\ \A n \in DOMAIN nodeToPods' : \E q \in new : q.at = n
               /\ nodeToPods' = [n \in DOMAIN nodeToPods' |-> Listings({q \in new : q.at = n})]
          /\ unscheduledPods' \subseteq Pods
<1>1. runNumber \in Nat /\ runNumber < MaxRuns /\ runNumber' = runNumber + 1
    BY UtilisationAssumption DEF IInv, TypeInv, Winner
<1>2. DOMAIN nodeToPods = {}
    BY DEF Winner
<1> DEFINE group(ps, at, n) == {[pod |-> p, run |-> runNumber + 1] : p \in {q \in ps : at[q] = n}}
<1>3. PICK ps \in SUBSET unscheduledPods \ {{}} : \E at \in [ps -> CandidateNodes] :
         /\ nodeToPods' = [n \in Range(at) |-> group(ps, at, n)]
         /\ placed' = placed \cup {[pod |-> p, run |-> runNumber + 1, at |-> at[p]] : p \in ps}
         /\ \E preempted \in SUBSET ps : unscheduledPods' = (unscheduledPods \ ps) \cup preempted
    BY DEF Winner
<1>4. PICK at \in [ps -> CandidateNodes] :
         /\ nodeToPods' = [n \in Range(at) |-> group(ps, at, n)]
         /\ placed' = placed \cup {[pod |-> p, run |-> runNumber + 1, at |-> at[p]] : p \in ps}
         /\ \E preempted \in SUBSET ps : unscheduledPods' = (unscheduledPods \ ps) \cup preempted
    BY <1>3
<1>5. ps \subseteq Pods /\ IsFiniteSet(ps) /\ unscheduledPods \subseteq Pods
    BY FS_Subset, UtilisationAssumption DEF IInv, TypeInv
<1> DEFINE f == [p \in ps |-> [pod |-> p, run |-> runNumber + 1, at |-> at[p]]]
           new == {f[p] : p \in ps}
<1>6. placed' = placed \cup new
    BY <1>4
<1>7. IsFiniteSet(new)
    <2> HIDE DEF f
    <2> QED
        BY <1>5, FiniteValues
<1>8. CandidateNodes \subseteq SimulatedNodes(runNumber + 1)
    <2>1. /\ scaledNode(runNumber + 1) \in Reportable(runNumber + 1)
          /\ InitialNodes \cup scaledNodes(runNumber) \subseteq Reportable(runNumber + 1)
        <3>1. runNumber \in 0..MaxRuns
            BY DEF IInv, TypeInv
        <3>2. Reportable(runNumber + 1) = Reportable(runNumber) \cup {scaledNode(runNumber + 1)}
            BY <1>1, <3>1, NewName
        <3> QED
            BY <3>2 DEF Reportable
    <2>2. ASSUME NEW n \in CandidateNodes PROVE n \in SimulatedNodes(runNumber + 1)
        <3>1. CASE n = [name |-> scaledNode(runNumber + 1), clone |-> TRUE]
            BY <2>1, <3>1 DEF SimulatedNodes
        <3>2. CASE n \in [name : InitialNodes \cup scaledNodes(runNumber), clone : BOOLEAN]
            BY <2>1, <3>2 DEF SimulatedNodes
        <3> QED
            BY <3>1, <3>2 DEF CandidateNodes
    <2> QED
        BY <2>2
<1>9. DOMAIN nodeToPods' = Range(at)
    BY <1>4
<1>10. \A p \in ps : at[p] \in Range(at) /\ at[p] \in SimulatedNodes(runNumber + 1)
    BY <1>8 DEF Range
<1>11. \A p \in ps : f[p].pod = p /\ f[p].run = runNumber + 1 /\ f[p].at = at[p]
                     /\ f[p] = [pod |-> p, run |-> runNumber + 1, at |-> at[p]]
    OBVIOUS
<1> HIDE DEF f
<1>12. \A q \in new : /\ q = [pod |-> q.pod, run |-> q.run, at |-> q.at]
                      /\ q.pod \in Pods /\ q.run = runNumber + 1
                      /\ q.at \in SimulatedNodes(runNumber + 1)
                      /\ q.at \in DOMAIN nodeToPods'
    <2> SUFFICES ASSUME NEW p \in ps
                 PROVE /\ f[p] = [pod |-> f[p].pod, run |-> f[p].run, at |-> f[p].at]
                       /\ f[p].pod \in Pods /\ f[p].run = runNumber + 1
                       /\ f[p].at \in SimulatedNodes(runNumber + 1)
                       /\ f[p].at \in DOMAIN nodeToPods'
        OBVIOUS
    <2> QED
        BY <1>5, <1>9, <1>10, <1>11
<1>13. \A q, t \in new : q.pod = t.pod => q.at = t.at
    <2> SUFFICES ASSUME NEW p \in ps, NEW u \in ps, f[p].pod = f[u].pod
                 PROVE f[p].at = f[u].at
        OBVIOUS
    <2>1. f[p].pod = p /\ f[u].pod = u
        BY <1>11
    <2> QED
        BY <2>1
<1>14. \A n \in DOMAIN nodeToPods' : \E q \in new : q.at = n
    <2> SUFFICES ASSUME NEW n \in Range(at) PROVE \E p \in ps : f[p].at = n
        BY <1>9
    <2>1. PICK p \in ps : at[p] = n
        BY DEF Range
    <2> QED
        BY <1>11, <2>1
<1>15. \A n : group(ps, at, n) = Listings({q \in new : q.at = n})
    <2> SUFFICES ASSUME NEW n PROVE group(ps, at, n) = Listings({q \in new : q.at = n})
        OBVIOUS
    <2>1. ASSUME NEW p \in ps, at[p] = n
          PROVE [pod |-> p, run |-> runNumber + 1] \in Listings({q \in new : q.at = n})
        <3>1. f[p] \in {q \in new : q.at = n}
            BY <1>11, <2>1
        <3>2. ListingOf(f[p]) = [pod |-> p, run |-> runNumber + 1]
            BY <1>11 DEF ListingOf
        <3> QED
            BY <3>1, <3>2 DEF Listings
    <2>2. ASSUME NEW x \in Listings({q \in new : q.at = n}) PROVE x \in group(ps, at, n)
        <3>1. PICK p \in ps : f[p].at = n /\ x = ListingOf(f[p])
            BY DEF Listings
        <3>2. at[p] = n /\ x = [pod |-> p, run |-> runNumber + 1]
            BY <1>11, <3>1 DEF ListingOf
        <3> QED
            BY <3>2
    <2> QED
        BY <2>1, <2>2
<1>16. nodeToPods' = [n \in DOMAIN nodeToPods' |-> Listings({q \in new : q.at = n})]
    BY <1>4, <1>9, <1>15
<1>17. unscheduledPods' \subseteq Pods
    BY <1>4, <1>5
<1> QED
    BY <1>1, <1>2, <1>6, <1>7, <1>12, <1>13, <1>14, <1>16, <1>17

\* Nothing is added to an entry; the entry of the new node is without pods.
LEMMA WinnerAdds ==
    ASSUME IInv, Winner
    PROVE /\ \A n : (Added(n))' = Added(n)
          /\ Added(scaledNode(runNumber + 1)) = {}
          /\ DOMAIN nodeUtilisationInfos' =
                 DOMAIN nodeUtilisationInfos \cup {scaledNode(runNumber + 1)}
          /\ scaledNode(runNumber + 1) \notin DOMAIN nodeUtilisationInfos
          /\ \A n \in DOMAIN nodeUtilisationInfos :
                 nodeUtilisationInfos'[n] = nodeUtilisationInfos[n]
          /\ nodeUtilisationInfos'[scaledNode(runNumber + 1)] =
                 [described |-> TRUE, pods |-> <<>>, resourcesConsumed |-> None]
<1>1. /\ runNumber \in Nat /\ runNumber < MaxRuns /\ runNumber' = runNumber + 1
      /\ DOMAIN nodeToPods = {}
    BY WinnerPlaces
<1>2. PICK new : /\ placed' = placed \cup new
                 /\ \A q \in new : q.run = runNumber + 1 /\ q.at \in DOMAIN nodeToPods'
    BY WinnerPlaces, Zenon
<1>3. /\ scaledNode(runNumber + 1) \notin Reportable(runNumber)
      /\ scaledNode(runNumber + 1) \notin DOMAIN nodeUtilisationInfos
    BY <1>1, NewName DEF IInv, TypeInv
<1>4. \A q \in placed : q.run # runNumber + 1 /\ q.at.name \in Reportable(runNumber)
    BY <1>1, PlacedTyped DEF IInv
<1>5. \A n : (Added(n))' = Added(n)
    BY <1>1, <1>2, <1>4 DEF Added
<1>6. Added(scaledNode(runNumber + 1)) = {}
    BY <1>3, <1>4 DEF Added
<1>7. nodeUtilisationInfos' =
         Put(nodeUtilisationInfos, scaledNode(runNumber + 1),
             [described |-> TRUE, pods |-> <<>>, resourcesConsumed |-> None])
    BY DEF Winner
<1> QED
    BY <1>3, <1>5, <1>6, <1>7 DEF Put

\* It keeps the invariant.
LEMMA WinnerKeeps == IInv /\ Winner => IInv'
<1> SUFFICES ASSUME IInv, Winner PROVE IInv'
    OBVIOUS
<1>0. PICK r, name : r = runNumber /\ name = scaledNode(r + 1)
    OBVIOUS
<1>1. /\ r \in Nat /\ r < MaxRuns /\ runNumber' = r + 1
      /\ DOMAIN nodeToPods = {} /\ unscheduledPods' \subseteq Pods
    BY <1>0, WinnerPlaces
<1>2. PICK new :
         /\ placed' = placed \cup new /\ IsFiniteSet(new)
         /\ \A q \in new : /\ q = [pod |-> q.pod, run |-> q.run, at |-> q.at]
                           /\ q.pod \in Pods /\ q.run = r + 1
                           /\ q.at \in SimulatedNodes(r + 1) /\ q.at \in DOMAIN nodeToPods'
         /\ \A q, t \in new : q.pod = t.pod => q.at = t.at
         /\ \A n \in DOMAIN nodeToPods' : \E q \in new : q.at = n
         /\ nodeToPods' = [n \in DOMAIN nodeToPods' |-> Listings({q \in new : q.at = n})]
    BY <1>0, WinnerPlaces, Zenon
<1>3. r \in 0..MaxRuns /\ r + 1 \in 0..MaxRuns
    BY <1>1, UtilisationAssumption
<1>4. /\ name \notin Reportable(r) /\ Reportable(r + 1) = Reportable(r) \cup {name}
      /\ scaledNodes(r + 1) = scaledNodes(r) \cup {name}
    BY <1>0, <1>1, <1>3, NewName
<1>5. /\ \A q \in placed : /\ q.pod \in Pods /\ q.run \in Nat /\ q.run <= r
                           /\ q.at \in SimulatedNodes(r)
      /\ \A q \in placed : q = [pod |-> q.pod, run |-> q.run, at |-> q.at] /\ q.run \in 1..r
    BY <1>0, PlacedTyped DEF IInv, TypeInv
<1>6. /\ \A n : (Added(n))' = Added(n)
      /\ Added(name) = {}
      /\ DOMAIN nodeUtilisationInfos' = DOMAIN nodeUtilisationInfos \cup {name}
      /\ name \notin DOMAIN nodeUtilisationInfos
      /\ \A n \in DOMAIN nodeUtilisationInfos : nodeUtilisationInfos'[n] = nodeUtilisationInfos[n]
      /\ nodeUtilisationInfos'[name] =
             [described |-> TRUE, pods |-> <<>>, resourcesConsumed |-> None]
    BY <1>0, WinnerAdds
<1> DEFINE entry == nodeUtilisationInfos'[name]
<1>7. entry.described = TRUE /\ entry.pods = <<>> /\ entry.resourcesConsumed = None
    BY <1>6
<1>8. TypeInv'
    <2>1. IsFiniteSet(placed')
        BY <1>2, FS_Union DEF IInv, TypeInv
    <2>2. placed' \subseteq [pod : Pods, run : 1..(r + 1), at : SimulatedNodes(r + 1)]
        <3>1. SimulatedNodes(r) \subseteq SimulatedNodes(r + 1)
            BY <1>4 DEF SimulatedNodes
        <3>2. \A i \in 1..r : i \in 1..(r + 1)
            BY <1>1
        <3>3. r + 1 \in 1..(r + 1)
            BY <1>1
        <3> QED
            BY <1>2, <1>5, <3>1, <3>2, <3>3
    <2>3. DOMAIN nodeUtilisationInfos' \subseteq Reportable(r + 1)
        BY <1>0, <1>4, <1>6 DEF IInv, TypeInv
    <2>4. entry \in [described : BOOLEAN, pods : Seq(Listing), resourcesConsumed : Nat \cup {None}]
        BY <1>6
    <2>5. \A n \in DOMAIN nodeUtilisationInfos' : nodeUtilisationInfos'[n] \in
              [described : BOOLEAN, pods : Seq(Listing), resourcesConsumed : Nat \cup {None}]
        BY <1>6, <2>4 DEF IInv, TypeInv
    <2> QED
        BY <1>1, <1>3, <2>1, <2>2, <2>3, <2>5 DEF TypeInv
<1>9. PlacedOnce'
    <2>1. \A q \in placed, t \in new : q.run # t.run
        BY <1>1, <1>2, <1>5
    <2> QED
        BY <1>2, <2>1 DEF IInv, PlacedOnce
<1>10. GroupsToAdd'
    <2>1. \A n : TookLast(n)' = {q \in new : q.at = n}
        <3>1. \A q \in placed : q.run # r + 1
            BY <1>1, <1>5
        <3> QED
            BY <1>1, <1>2, <3>1 DEF TookLast
    <2>2. \A n \in DOMAIN nodeToPods' : n \in SimulatedNodes(r + 1) /\ TookLast(n)' # {}
        BY <1>2, <2>1
    <2>3. nodeToPods' = [n \in DOMAIN nodeToPods' |-> Listings(TookLast(n)')]
        BY <1>2, <2>1
    <2> QED
        BY <1>1, <2>2, <2>3 DEF GroupsToAdd, Listings
<1>11. RecommendedNodesDescribed'
    <2>1. \A n \in DOMAIN nodeUtilisationInfos : nodeUtilisationInfos'[n].described <=> n \in scaledNodes(r)
        BY <1>0, <1>6 DEF IInv, RecommendedNodesDescribed
    <2>2. \A n \in DOMAIN nodeUtilisationInfos : n # name
        BY <1>6
    <2>3. \A n \in DOMAIN nodeUtilisationInfos' :
              nodeUtilisationInfos'[n].described <=> n \in scaledNodes(r + 1)
        BY <1>4, <1>6, <1>7, <2>1, <2>2
    <2>4. scaledNodes(r + 1) \subseteq DOMAIN nodeUtilisationInfos'
        BY <1>0, <1>4, <1>6 DEF IInv, RecommendedNodesDescribed
    <2> QED
        BY <1>1, <2>3, <2>4 DEF RecommendedNodesDescribed
<1>12. AddedListed'
    <2>1. \A n : (Added(n))' # {} => n \in DOMAIN nodeUtilisationInfos'
        BY <1>6 DEF IInv, AddedListed
    <2>2. \A n \in DOMAIN nodeUtilisationInfos :
              /\ ToSet(nodeUtilisationInfos'[n].pods) = Listings((Added(n))')
              /\ Len(nodeUtilisationInfos'[n].pods) = Cardinality((Added(n))')
        BY <1>6 DEF IInv, AddedListed
    <2>3. /\ ToSet(entry.pods) = Listings((Added(name))')
          /\ Len(entry.pods) = Cardinality((Added(name))')
        <3>1. (Added(name))' = {} /\ entry.pods = <<>>
            BY <1>6, <1>7
        <3>2. ToSet(<<>>) = {} /\ Listings({}) = {} /\ Len(<<>>) = 0
            BY DEF ToSet, Listings
        <3> HIDE DEF entry
        <3> QED
            BY <3>1, <3>2, FS_EmptySet
    <2> QED
        BY <1>6, <2>1, <2>2, <2>3 DEF AddedListed
<1>13. AddedConsumed'
    <2>1. \A last \in placed : (GroupOf(last))' = GroupOf(last)
        <3>1. \A last \in placed, q \in new : q.run # last.run
            BY <1>1, <1>2, <1>5
        <3> QED
            BY <1>2, <3>1 DEF GroupOf
    <2>2. ASSUME NEW n \in DOMAIN nodeUtilisationInfos, (Added(n))' = {}
          PROVE nodeUtilisationInfos'[n].resourcesConsumed = None
        BY <1>6, <2>2 DEF IInv, AddedConsumed
    <2>3. ASSUME NEW n \in DOMAIN nodeUtilisationInfos, (Added(n))' # {}
          PROVE \E last \in (Added(n))' :
                    /\ \A q \in (Added(n))' : q.run <= last.run
                    /\ nodeUtilisationInfos'[n].resourcesConsumed =
                           cumulatePodRequests((GroupOf(last))')
        <3>1. PICK last \in Added(n) :
                 /\ \A q \in Added(n) : q.run <= last.run
                 /\ nodeUtilisationInfos[n].resourcesConsumed = cumulatePodRequests(GroupOf(last))
            BY <1>6, <2>3 DEF IInv, AddedConsumed
        <3>2. last \in placed
            BY DEF Added
        <3>3. cumulatePodRequests((GroupOf(last))') = cumulatePodRequests(GroupOf(last))
            BY <2>1, <3>2
        <3> QED
            BY <1>6, <3>1, <3>3
    <2>4. (Added(name))' = {} /\ entry.resourcesConsumed = None
        BY <1>6, <1>7
    <2> QED
        BY <1>6, <2>2, <2>3, <2>4 DEF AddedConsumed
<1> QED
    BY <1>8, <1>9, <1>10, <1>11, <1>12, <1>13 DEF IInv

-----------------------------------------------------------------------------
(* One step of the range over the groups *)

\* What the step for one group does.
AddsGroup(n) ==
    /\ n \in DOMAIN nodeToPods
    /\ nodeUtilisationInfos' =
         AddGroup(nodeUtilisationInfos, toOriginalResourceName(n), nodeToPods[n])
    /\ nodeToPods' = [m \in DOMAIN nodeToPods \ {n} |-> nodeToPods[m]]
    /\ UNCHANGED <<unscheduledPods, runNumber, placed>>

\* The placements of the group are added to those of its node, and to no other node's.
LEMMA GroupAdded ==
    ASSUME IInv, NEW n, AddsGroup(n)
    PROVE /\ n.name \in Reportable(runNumber)
          /\ TookLast(n) # {} /\ TookLast(n) \cap Added(n.name) = {}
          /\ (Added(n.name))' = Added(n.name) \cup TookLast(n)
          /\ \A m : m # n.name => (Added(m))' = Added(m)
<1>1. /\ n \in DOMAIN nodeToPods /\ n \in SimulatedNodes(runNumber)
      /\ DOMAIN nodeToPods' = DOMAIN nodeToPods \ {n}
      /\ runNumber' = runNumber /\ placed' = placed /\ TookLast(n) # {}
    BY DEF IInv, GroupsToAdd, AddsGroup
<1>2. n.name \in Reportable(runNumber)
    BY <1>1 DEF SimulatedNodes
<1>3. TookLast(n) \cap Added(n.name) = {}
    BY <1>1 DEF TookLast, Added
<1>4. (Added(n.name))' = Added(n.name) \cup TookLast(n)
    BY <1>1 DEF Added, TookLast
<1>5. \A m : m # n.name => (Added(m))' = Added(m)
    BY <1>1 DEF Added
<1> QED
    BY <1>1, <1>2, <1>3, <1>4, <1>5

\* The entry of its node gets its pods after those it had, and its resources; the entry
\* is made when there is none, and the others are as they were.
LEMMA GroupShown ==
    ASSUME IInv, NEW n, AddsGroup(n)
    PROVE /\ DOMAIN nodeUtilisationInfos' = DOMAIN nodeUtilisationInfos \cup {n.name}
          /\ \A m \in DOMAIN nodeUtilisationInfos \ {n.name} :
                 nodeUtilisationInfos'[m] = nodeUtilisationInfos[m]
          /\ \E described \in BOOLEAN, listed \in Seq(Listing) :
               /\ described <=> n.name \in scaledNodes(runNumber)
               /\ ToSet(listed) = Listings(Added(n.name))
               /\ Len(listed) = Cardinality(Added(n.name))
               /\ nodeUtilisationInfos'[n.name] =
                      [described |-> described,
                       pods |-> listed \o SetToSeq(Listings(TookLast(n))),
                       resourcesConsumed |-> cumulatePodRequests(Listings(TookLast(n)))]
<1> DEFINE infos == nodeUtilisationInfos
           group == Listings(TookLast(n))
<1>1. PICK name : name = n.name
    OBVIOUS
<1>2. infos' = AddGroup(infos, name, group)
    BY <1>1 DEF AddsGroup, toOriginalResourceName, IInv, GroupsToAdd
<1> HIDE DEF group
<1>3. CASE name \in DOMAIN infos
    <2>1. infos' = [infos EXCEPT ![name].pods = @ \o SetToSeq(group),
                                 ![name].resourcesConsumed = cumulatePodRequests(group)]
        BY <1>2, <1>3 DEF AddGroup
    <2>2. infos[name] \in [described : BOOLEAN, pods : Seq(Listing),
                           resourcesConsumed : Nat \cup {None}]
        BY <1>3 DEF IInv, TypeInv
    <2>3. PICK old : old = infos[name]
        OBVIOUS
    <2>4. /\ old \in [described : BOOLEAN, pods : Seq(Listing), resourcesConsumed : Nat \cup {None}]
          /\ old.described <=> name \in scaledNodes(runNumber)
          /\ ToSet(old.pods) = Listings(Added(name))
          /\ Len(old.pods) = Cardinality(Added(name))
        BY <1>3, <2>2, <2>3 DEF IInv, AddedListed, RecommendedNodesDescribed
    <2>5. infos'[name] = [described |-> old.described, pods |-> old.pods \o SetToSeq(group),
                          resourcesConsumed |-> cumulatePodRequests(group)]
        BY <1>3, <2>1, <2>3, <2>4
    <2>6. DOMAIN infos' = DOMAIN infos \cup {name}
        BY <1>3, <2>1
    <2>7. \A m \in DOMAIN infos \ {name} : infos'[m] = infos[m]
        BY <1>3, <2>1
    <2>8. old.described \in BOOLEAN /\ old.pods \in Seq(Listing)
        BY <2>4
    <2> QED
        BY <1>1, <2>4, <2>5, <2>6, <2>7, <2>8 DEF group
<1>4. CASE name \notin DOMAIN infos
    <2>1. infos' = [m \in DOMAIN infos \cup {name} |-> IF m = name THEN Undescribed(group) ELSE infos[m]]
        BY <1>2, <1>4 DEF AddGroup, Put
    <2>2. SetToSeq(group) \in Seq(Listing)
        <3>1. TookLast(n) \in SUBSET placed
            BY DEF TookLast
        <3>2. IsFiniteSet(group) /\ group \subseteq Listing
            BY <3>1, PartOfPlaced DEF IInv, group
        <3> QED
            BY <3>2, ListOfSet
    <2>3. SetToSeq(group) = <<>> \o SetToSeq(group)
        BY <2>2
    <2>4. infos'[name] = [described |-> FALSE, pods |-> <<>> \o SetToSeq(group),
                          resourcesConsumed |-> cumulatePodRequests(group)]
        BY <2>1, <2>3, Zenon DEF Undescribed
    <2>5. name \notin scaledNodes(runNumber)
        BY <1>4 DEF IInv, RecommendedNodesDescribed
    <2>6. Added(name) = {}
        BY <1>4 DEF IInv, AddedListed
    <2>7. /\ ToSet(<<>>) = Listings(Added(name)) /\ Len(<<>>) = Cardinality(Added(name))
          /\ <<>> \in Seq(Listing)
        BY <2>6, FS_EmptySet DEF ToSet, Listings
    <2>8. DOMAIN infos' = DOMAIN infos \cup {name}
        BY <2>1
    <2>9. \A m \in DOMAIN infos \ {name} : infos'[m] = infos[m]
        BY <2>1
    <2> QED
        BY <1>1, <2>4, <2>5, <2>7, <2>8, <2>9, Zenon DEF group
<1> QED
    BY <1>3, <1>4

\* It keeps the invariant.
LEMMA GroupKeeps ==
    ASSUME IInv, NEW n, AddsGroup(n)
    PROVE IInv'
<1>1. PICK name, took : name = n.name /\ took = TookLast(n)
    OBVIOUS
<1>2. /\ name \in Reportable(runNumber)
      /\ took # {} /\ took \cap Added(name) = {}
      /\ (Added(name))' = Added(name) \cup took
      /\ \A m : m # name => (Added(m))' = Added(m)
    BY <1>1, GroupAdded
<1>3. /\ DOMAIN nodeUtilisationInfos' = DOMAIN nodeUtilisationInfos \cup {name}
      /\ \A m \in DOMAIN nodeUtilisationInfos \ {name} :
             nodeUtilisationInfos'[m] = nodeUtilisationInfos[m]
    BY <1>1, GroupShown
<1>4. PICK described \in BOOLEAN, listed \in Seq(Listing) :
         /\ described <=> name \in scaledNodes(runNumber)
         /\ ToSet(listed) = Listings(Added(name))
         /\ Len(listed) = Cardinality(Added(name))
         /\ nodeUtilisationInfos'[name] =
                [described |-> described, pods |-> listed \o SetToSeq(Listings(took)),
                 resourcesConsumed |-> cumulatePodRequests(Listings(took))]
    BY <1>1, GroupShown
<1>5. PICK entry : entry = nodeUtilisationInfos'[name]
    OBVIOUS
<1>6. /\ entry.described = described /\ entry.pods = listed \o SetToSeq(Listings(took))
      /\ entry.resourcesConsumed = cumulatePodRequests(Listings(took))
      /\ entry = [described |-> entry.described, pods |-> entry.pods,
                  resourcesConsumed |-> entry.resourcesConsumed]
    BY <1>4, <1>5
<1>7. took \in SUBSET placed /\ Added(name) \in SUBSET placed
    BY <1>1 DEF TookLast, Added
<1>8. /\ IsFiniteSet(took) /\ IsFiniteSet(Listings(took)) /\ Listings(took) \subseteq Listing
      /\ Cardinality(Listings(took)) = Cardinality(took)
      /\ cumulatePodRequests(Listings(took)) = cumulatePodRequests(took)
      /\ cumulatePodRequests(took) \in Nat
      /\ IsFiniteSet(Added(name))
    BY <1>7, PartOfPlaced DEF IInv
<1>9. /\ entry.pods \in Seq(Listing)
      /\ ToSet(entry.pods) = ToSet(listed) \cup Listings(took)
      /\ Len(entry.pods) = Len(listed) + Cardinality(took)
    <2>1. PICK more : more = SetToSeq(Listings(took))
        OBVIOUS
    <2>2. more \in Seq(Listing) /\ ToSet(more) = Listings(took) /\ Len(more) = Cardinality(took)
        BY <1>8, <2>1, ListOfSet
    <2> QED
        BY <1>6, <2>1, <2>2, Appended
<1>10. /\ n \in DOMAIN nodeToPods /\ runNumber' = runNumber /\ placed' = placed
       /\ unscheduledPods' = unscheduledPods
       /\ nodeToPods' = [m \in DOMAIN nodeToPods \ {n} |-> nodeToPods[m]]
    BY DEF AddsGroup
<1>11. TypeInv'
    <2>1. entry \in [described : BOOLEAN, pods : Seq(Listing), resourcesConsumed : Nat \cup {None}]
        BY <1>6, <1>8, <1>9
    <2>2. \A m \in DOMAIN nodeUtilisationInfos' : nodeUtilisationInfos'[m] \in
              [described : BOOLEAN, pods : Seq(Listing), resourcesConsumed : Nat \cup {None}]
        BY <1>3, <1>5, <2>1 DEF IInv, TypeInv
    <2>3. DOMAIN nodeUtilisationInfos' \subseteq Reportable(runNumber)
        BY <1>2, <1>3 DEF IInv, TypeInv
    <2> QED
        BY <1>10, <2>2, <2>3 DEF IInv, TypeInv
<1>12. PlacedOnce'
    BY <1>10 DEF IInv, PlacedOnce
<1>13. GroupsToAdd'
    <2>1. \A m : (TookLast(m))' = TookLast(m)
        BY <1>10 DEF TookLast
    <2>2. \A m \in DOMAIN nodeToPods : /\ nodeToPods[m] = Listings(TookLast(m))
                                       /\ m \in SimulatedNodes(runNumber) /\ TookLast(m) # {}
        BY DEF IInv, GroupsToAdd
    <2>3. /\ DOMAIN nodeToPods' = DOMAIN nodeToPods \ {n}
          /\ nodeToPods' = [m \in DOMAIN nodeToPods' |-> Listings((TookLast(m))')]
        BY <1>10, <2>1, <2>2
    <2> QED
        BY <1>10, <2>1, <2>2, <2>3 DEF GroupsToAdd
<1>14. RecommendedNodesDescribed'
    <2>1. \A m \in DOMAIN nodeUtilisationInfos' :
              nodeUtilisationInfos'[m].described <=> m \in scaledNodes(runNumber)
        BY <1>3, <1>4, <1>5, <1>6 DEF IInv, RecommendedNodesDescribed
    <2>2. scaledNodes(runNumber) \subseteq DOMAIN nodeUtilisationInfos'
        BY <1>3 DEF IInv, RecommendedNodesDescribed
    <2> QED
        BY <1>10, <2>1, <2>2 DEF RecommendedNodesDescribed
<1>15. AddedListed'
    <2>1. \A m : (Added(m))' # {} => m \in DOMAIN nodeUtilisationInfos'
        BY <1>2, <1>3 DEF IInv, AddedListed
    <2>2. \A m \in DOMAIN nodeUtilisationInfos \ {name} :
              /\ ToSet(nodeUtilisationInfos'[m].pods) = Listings((Added(m))')
              /\ Len(nodeUtilisationInfos'[m].pods) = Cardinality((Added(m))')
        BY <1>2, <1>3 DEF IInv, AddedListed
    <2>3. /\ ToSet(entry.pods) = Listings((Added(name))')
          /\ Len(entry.pods) = Cardinality((Added(name))')
        <3>1. Listings(Added(name) \cup took) = Listings(Added(name)) \cup Listings(took)
            BY DEF Listings
        <3>2. Cardinality(Added(name) \cup took) = Cardinality(Added(name)) + Cardinality(took)
            <4>1. Cardinality(Added(name) \cap took) = 0
                BY <1>2, FS_EmptySet
            <4>2. Cardinality(Added(name)) \in Nat /\ Cardinality(took) \in Nat
                BY <1>8, FS_CardinalityType
            <4>3. Cardinality(Added(name) \cup took)
                      = Cardinality(Added(name)) + Cardinality(took) - Cardinality(Added(name) \cap took)
                BY <1>8, FS_Union
            <4> QED
                BY <4>1, <4>2, <4>3
        <3> QED
            BY <1>2, <1>4, <1>9, <3>1, <3>2
    <2> QED
        BY <1>3, <1>5, <2>1, <2>2, <2>3 DEF AddedListed
<1>16. AddedConsumed'
    <2>1. \A last : (GroupOf(last))' = GroupOf(last)
        BY <1>10 DEF GroupOf
    <2>2. ASSUME NEW m \in DOMAIN nodeUtilisationInfos \ {name}
          PROVE /\ (Added(m))' = {} => nodeUtilisationInfos'[m].resourcesConsumed = None
                /\ (Added(m))' # {} =>
                     \E last \in (Added(m))' :
                       /\ \A q \in (Added(m))' : q.run <= last.run
                       /\ nodeUtilisationInfos'[m].resourcesConsumed =
                              cumulatePodRequests((GroupOf(last))')
        BY <1>2, <1>3, <2>1 DEF IInv, AddedConsumed
    <2>3. \E last \in (Added(name))' :
              /\ \A q \in (Added(name))' : q.run <= last.run
              /\ entry.resourcesConsumed = cumulatePodRequests((GroupOf(last))')
        <3>1. PICK last \in took : TRUE
            BY <1>2
        <3>2. last.run = runNumber /\ last.at = n /\ last \in (Added(name))'
            BY <1>1, <1>2 DEF TookLast
        <3>3. \A q \in (Added(name))' : q.run <= last.run
            BY <1>2, <1>7, <3>2, PlacedTyped DEF IInv
        <3>4. GroupOf(last) = took
            BY <1>1, <3>2 DEF GroupOf, TookLast
        <3> QED
            BY <1>6, <1>8, <2>1, <3>2, <3>3, <3>4
    <2> QED
        BY <1>3, <1>5, <2>2, <2>3 DEF AddedConsumed
<1> QED
    BY <1>11, <1>12, <1>13, <1>14, <1>15, <1>16 DEF IInv

-----------------------------------------------------------------------------
(* The theorems *)

\* A step that changes nothing keeps the invariant.
LEMMA StutterKeeps == IInv /\ UNCHANGED vars => IInv'
<1> SUFFICES ASSUME IInv, UNCHANGED vars PROVE IInv'
    OBVIOUS
<1>1. /\ nodeUtilisationInfos' = nodeUtilisationInfos /\ unscheduledPods' = unscheduledPods
      /\ runNumber' = runNumber /\ nodeToPods' = nodeToPods /\ placed' = placed
    BY DEF vars
<1>2. \A name : (Added(name))' = Added(name)
    BY <1>1 DEF Added
<1>3. \A n : (TookLast(n))' = TookLast(n)
    BY <1>1 DEF TookLast
<1>4. \A last : (GroupOf(last))' = GroupOf(last)
    BY <1>1 DEF GroupOf
<1>5. TypeInv'
    BY <1>1 DEF IInv, TypeInv
<1>6. PlacedOnce'
    BY <1>1 DEF IInv, PlacedOnce
<1>7. GroupsToAdd'
    <2>1. [n \in DOMAIN nodeToPods |-> Listings((TookLast(n))')]
              = [n \in DOMAIN nodeToPods |-> Listings(TookLast(n))]
        BY <1>3
    <2>2. /\ nodeToPods = [n \in DOMAIN nodeToPods |-> Listings((TookLast(n))')]
          /\ \A n \in DOMAIN nodeToPods :
                 n \in SimulatedNodes(runNumber) /\ (TookLast(n))' # {}
        BY <1>3, <2>1 DEF IInv, GroupsToAdd
    <2> QED
        BY <1>1, <2>2 DEF GroupsToAdd
<1>8. RecommendedNodesDescribed'
    BY <1>1 DEF IInv, RecommendedNodesDescribed
<1>9. AddedListed'
    BY <1>1, <1>2 DEF IInv, AddedListed
<1>10. AddedConsumed'
    <2>1. \A n \in DOMAIN nodeUtilisationInfos :
              /\ (Added(n))' = {} => nodeUtilisationInfos[n].resourcesConsumed = None
              /\ (Added(n))' # {} =>
                   \E last \in (Added(n))' :
                     /\ \A q \in (Added(n))' : q.run <= last.run
                     /\ nodeUtilisationInfos[n].resourcesConsumed =
                            cumulatePodRequests((GroupOf(last))')
        BY <1>2, <1>4 DEF IInv, AddedConsumed
    <2> QED
        BY <1>1, <2>1 DEF AddedConsumed
<1> QED
    BY <1>5, <1>6, <1>7, <1>8, <1>9, <1>10 DEF IInv

\* The invariant holds in every state.
LEMMA Invariant == Spec => []IInv
<1>1. IInv /\ [Next]_vars => IInv'
    <2> SUFFICES ASSUME IInv, [Next]_vars PROVE IInv'
        OBVIOUS
    <2>1. CASE Winner
        BY <2>1, WinnerKeeps
    <2>2. CASE appendNodeUtilisationInfo
        <3>1. PICK n : AddsGroup(n)
            BY <2>2 DEF appendNodeUtilisationInfo, AddsGroup
        <3> QED
            BY <3>1, GroupKeeps
    <2>3. CASE UNCHANGED vars
        BY <2>3, StutterKeeps
    <2> QED
        BY <2>1, <2>2, <2>3 DEF Next
<1> QED
    BY <1>1, InitHolds, PTL DEF Spec

\* The nodes that appendNodeUtilisationInfo describes by zone, pool and capacity are the
\* recommended ones, whatever later winners place on these or on nodes of the request.
THEOREM DescribedIfRecommended == Spec => []RecommendedNodesDescribed
<1>1. IInv => RecommendedNodesDescribed
    BY DEF IInv
<1> QED
    BY <1>1, Invariant, PTL

\* Once the groups of a winner are added, all that was placed on a node has been.
LEMMA AllAdded ==
    ASSUME IInv, Reported
    PROVE \A name : Added(name) = PlacedAt(name)
<1>1. DOMAIN nodeToPods = {}
    BY DEF Reported
<1> QED
    BY <1>1 DEF Added, PlacedAt

\* When the groups of a winner have been added, every pod that a winner placed on a node,
\* under its name or its clone's, is in the list of the node's entry, once.
THEOREM ListedOnce == Spec => []ListedWherePlaced
<1>1. ASSUME IInv, Reported
      PROVE /\ \A q \in placed : q.at.name \in DOMAIN nodeUtilisationInfos
            /\ \A n \in DOMAIN nodeUtilisationInfos :
                 /\ ToSet(nodeUtilisationInfos[n].pods) =
                        {[pod |-> q.pod, run |-> q.run] : q \in PlacedAt(n)}
                 /\ Len(nodeUtilisationInfos[n].pods) = Cardinality(PlacedAt(n))
    <2>1. \A name : Added(name) = PlacedAt(name)
        BY <1>1, AllAdded
    <2>2. \A q \in placed : q \in PlacedAt(q.at.name)
        BY DEF PlacedAt
    <2> QED
        BY <1>1, <2>1, <2>2 DEF IInv, AddedListed, Listings, ListingOf
<1>2. IInv => ListedWherePlaced
    BY <1>1 DEF ListedWherePlaced
<1> QED
    BY <1>2, Invariant, PTL

\* When the groups of a winner have been added, the resources of an entry are those of
\* one group of the last winner that placed pods on the node.
THEOREM ConsumedByOneGroup == Spec => []ConsumedByLastGroup
<1>1. ASSUME IInv, Reported, NEW n \in DOMAIN nodeUtilisationInfos
      PROVE /\ PlacedAt(n) = {} => nodeUtilisationInfos[n].resourcesConsumed = None
            /\ PlacedAt(n) # {} =>
                 \E last \in PlacedAt(n) :
                   /\ \A q \in PlacedAt(n) : q.run <= last.run
                   /\ nodeUtilisationInfos[n].resourcesConsumed =
                        cumulatePodRequests({q \in placed : q.run = last.run /\ q.at = last.at})
    <2>1. Added(n) = PlacedAt(n)
        BY <1>1, AllAdded
    <2> QED
        BY <1>1, <2>1 DEF IInv, AddedConsumed, GroupOf
<1>2. IInv => ConsumedByLastGroup
    BY <1>1 DEF ConsumedByLastGroup
<1> QED
    BY <1>2, Invariant, PTL
=============================================================================
