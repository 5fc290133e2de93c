----------------------------- MODULE Utilisation -----------------------------
(***************************************************************************)
(* The node utilisation report of a request (internal/scaler/scaleup,      *)
(* util.go): after each winner is synced, Run adds to a map from node name *)
(* to the pods the node took and the resources they ask for.  A winner     *)
(* groups its pods by the name of the simulated node they went to, and two *)
(* groups of one winner, or of two winners, may be about one node: a node  *)
(* of the cluster is known to a simulation by its own name and by the name *)
(* of its clone.                                                           *)
(***************************************************************************)
EXTENDS Integers, Sequences, FiniteSets, SequencesExt, FiniteSetsExt, Functions

CONSTANTS
    Pods,           \* the unscheduled pods of the request
    Requests,       \* what the containers of a pod ask for, summed
    InitialNodes,   \* the nodes of the request
    MaxRuns,        \* bound on the runs with a winner
    None

\* The name of a new node starts with random characters: it is taken to be new.
ASSUME UtilisationAssumption ==
    /\ IsFiniteSet(Pods) /\ Requests \in [Pods -> Nat \ {0}]
    /\ MaxRuns \in Nat \ {0} /\ None \notin Nat
    /\ \A r \in 1..MaxRuns : [run |-> r] \notin InitialNodes

VARIABLES
    nodeUtilisationInfos,   \* name -> described, pods, resourcesConsumed
    unscheduledPods,
    runNumber,
    nodeToPods,             \* the rest of the range over the winner's groups
    placed                  \* history: every pod of every winner, and its group

vars == <<nodeUtilisationInfos, unscheduledPods, runNumber, nodeToPods, placed>>

\* The node recommended by run r.
scaledNode(r) == [run |-> r]
scaledNodes(last) == {scaledNode(r) : r \in 1..last}

Init ==
    /\ nodeUtilisationInfos = <<>> /\ unscheduledPods = Pods
    /\ runNumber = 0 /\ nodeToPods = <<>> /\ placed = {}

-----------------------------------------------------------------------------
toOriginalResourceName(n) == n.name

cumulatePodRequests(group) == MapThenSumSet(LAMBDA q : Requests[q.pod], group)

Put(infos, name, entry) ==
    [n \in DOMAIN infos \cup {name} |-> IF n = name THEN entry ELSE infos[n]]

Undescribed(group) ==
    [described |-> FALSE, pods |-> SetToSeq(group),
     resourcesConsumed |-> cumulatePodRequests(group)]

AddGroup_PodsOverwritten(infos, name, group) ==
    IF name \in DOMAIN infos
    THEN [infos EXCEPT ![name].pods = SetToSeq(group),
                       ![name].resourcesConsumed = cumulatePodRequests(group)]
    ELSE Put(infos, name, Undescribed(group))

AddGroup_AlwaysNew(infos, name, group) == Put(infos, name, Undescribed(group))

AddGroup_ResourcesOnce(infos, name, group) ==
    IF name \in DOMAIN infos
    THEN [infos EXCEPT ![name].pods = @ \o SetToSeq(group),
                       ![name].resourcesConsumed =
                            IF @ = None THEN cumulatePodRequests(group) ELSE @]
    ELSE Put(infos, name, Undescribed(group))

\* The pods are appended to the entry, the resources replace those in it.
AddGroup(infos, name, group) ==
    IF name \in DOMAIN infos
    THEN [infos EXCEPT ![name].pods = @ \o SetToSeq(group),
                       ![name].resourcesConsumed = cumulatePodRequests(group)]
    ELSE Put(infos, name, Undescribed(group))

-----------------------------------------------------------------------------
\* Where a simulation of the next run may place a pod: on a node under its own name,
\* or under the name of its clone, as the node that the simulation added.
CandidateNodes ==
    {[name |-> scaledNode(runNumber + 1), clone |-> TRUE]}
        \cup [name : InitialNodes \cup scaledNodes(runNumber), clone : BOOLEAN]

\* A run ends with a winner, whose pods have the names of their clones in it.  The
\* pods it placed leave the unscheduled ones, but for those the scheduler preempted
\* before they were read back.
Winner ==
    /\ nodeToPods = <<>> /\ runNumber < MaxRuns
    /\ \E ps \in SUBSET unscheduledPods \ {{}} : \E at \in [ps -> CandidateNodes] :
         LET group(n) == {[pod |-> p, run |-> runNumber + 1] : p \in {q \in ps : at[q] = n}}
         IN /\ nodeToPods' = [n \in Range(at) |-> group(n)]
            /\ placed' = placed \cup {[pod |-> p, run |-> runNumber + 1, at |-> at[p]] : p \in ps}
            /\ \E preempted \in SUBSET ps :
                 unscheduledPods' = (unscheduledPods \ ps) \cup preempted
    /\ runNumber' = runNumber + 1
    /\ nodeUtilisationInfos' =
         Put(nodeUtilisationInfos, scaledNode(runNumber + 1),
             [described |-> TRUE, pods |-> <<>>, resourcesConsumed |-> None])

\* One step of the range over the winner's nodeToPods, in the order of the map.
appendNodeUtilisationInfo ==
    \E n \in DOMAIN nodeToPods :
        /\ nodeUtilisationInfos' =
             AddGroup(nodeUtilisationInfos, toOriginalResourceName(n), nodeToPods[n])
        /\ nodeToPods' = [m \in DOMAIN nodeToPods \ {n} |-> nodeToPods[m]]
        /\ UNCHANGED <<unscheduledPods, runNumber, placed>>

Next == Winner \/ appendNodeUtilisationInfo

Spec == Init /\ [][Next]_vars

-----------------------------------------------------------------------------
(* Properties *)

Reported == nodeToPods = <<>>
PlacedAt(name) == {q \in placed : q.at.name = name}

\* The entry of a node lists every pod that any winner placed on it, under its
\* own name or under its clone's, each once, and lists no other pod; a node
\* that took a pod has an entry.
ListedWherePlaced ==
    Reported =>
        /\ \A q \in placed : q.at.name \in DOMAIN nodeUtilisationInfos
        /\ \A n \in DOMAIN nodeUtilisationInfos :
             LET listed == nodeUtilisationInfos[n].pods
             IN /\ ToSet(listed) = {[pod |-> q.pod, run |-> q.run] : q \in PlacedAt(n)}
                /\ Len(listed) = Cardinality(PlacedAt(n))

\* The nodes recommended so far are described by zone, pool and capacity, the
\* nodes of the request never, whatever later winners place on either.
RecommendedNodesDescribed ==
    /\ scaledNodes(runNumber) \subseteq DOMAIN nodeUtilisationInfos
    /\ \A n \in DOMAIN nodeUtilisationInfos :
         nodeUtilisationInfos[n].described <=> n \in scaledNodes(runNumber)

\* The resources shown for a node are those of one group of the last winner
\* that placed pods on it: they fall short of the pods listed when the node
\* took pods in several runs, or under both of its names in one.
ConsumedByLastGroup ==
    Reported =>
        \A n \in DOMAIN nodeUtilisationInfos :
            IF PlacedAt(n) = {} THEN nodeUtilisationInfos[n].resourcesConsumed = None
            ELSE \E last \in PlacedAt(n) :
                   /\ \A q \in PlacedAt(n) : q.run <= last.run
                   /\ nodeUtilisationInfos[n].resourcesConsumed =
                        cumulatePodRequests({q \in placed : q.run = last.run /\ q.at = last.at})
=============================================================================
