--------------------------- MODULE SimulationRequest ---------------------------
(***************************************************************************)
(* From the target cluster to the pods that are simulated and back         *)
(* (handler.go, pod.go, podbuilder.go, initializeSimulationState and       *)
(* syncVirtualClusterWithWinningResult): pods of all namespaces come into  *)
(* one, in order of creation, under names that are changed twice, and the  *)
(* placement of a simulated pod finds its pod again by name.               *)
(*                                                                         *)
(* A name is a sequence of the parts the code looks at: "shoot--" at its   *)
(* start, "-sr-" anywhere, and what is between them.  One call of Run, in  *)
(* which simulations place any pods; ScaleUp has their details.            *)
(***************************************************************************)
EXTENDS Naturals, FiniteSets, SequencesExt

CONSTANTS
    Pods,           \* pods that may be in the target cluster
    PodInfo,        \* per pod: name, namespace, created, bound, nominated, memory
    Nodes,          \* nodes that may be in the snapshot
    InstanceType,   \* per node
    NodeTemplates,  \* records with instanceType, allocatable
    MaxPods         \* bound: pods in the target cluster at a time

ASSUME FiniteAssumption == IsFiniteSet(Pods)

ASSUME PodInfoAssumption ==
    \A p \in Pods :
        /\ PodInfo[p].created \in Nat /\ PodInfo[p].memory \in Nat
        /\ PodInfo[p].bound \in BOOLEAN /\ PodInfo[p].nominated \in BOOLEAN
        /\ PodInfo[p].name \in Seq(STRING) /\ PodInfo[p].name # <<>>
        /\ \A q \in Pods : PodInfo[p].name = PodInfo[q].name /\ p # q
                              => PodInfo[p].namespace # PodInfo[q].namespace

VARIABLES
    pc,
    nodes,                          \* the nodes of the snapshot
    podList,                        \* pods of the target cluster, sorted
    podInfos,                       \* those of the request
    allocatable,                    \* per node of the snapshot
    unscheduledPods, scheduledPods, \* sequences
    originalUnscheduledPods,        \* by name
    base,                           \* pods of the virtual cluster outside simulations, by name
    placed, recorded                \* pods that simulations placed, pods recorded as placed

vars == <<pc, nodes, podList, podInfos, allocatable, unscheduledPods, scheduledPods,
          originalUnscheduledPods, base, placed, recorded>>

-----------------------------------------------------------------------------
(* Names *)

\* PodBuilder numbers the pods it builds; all are built once.
builtName(p) == Append(PodInfo[p].name, "-0")

TrimPrefix(name) == IF Head(name) = "shoot--" THEN Tail(name) ELSE name
fromOriginalResourceName(name) == TrimPrefix(name) \o <<"-sr-", "ref">>

\* What is before the first separator.
toOriginalResourceName(name) ==
    SubSeq(name, 1, SelectInSeq(name, LAMBDA part : part = "-sr-") - 1)

\* The loop that keeps, in their order, the elements of ps which are in S.
keepIn_LastOnly(loop, p) == IF p \in loop.of THEN [loop EXCEPT !.kept = <<p>>] ELSE loop
keepIn(loop, p) == IF p \in loop.of THEN [loop EXCEPT !.kept = Append(@, p)] ELSE loop
Filter(ps, S) == FoldLeft(keepIn, [of |-> S, kept |-> <<>>], ps).kept

Names(ps) == {builtName(p) : p \in ToSet(ps)}
Namesake(p, q) == p # q /\ builtName(p) = builtName(q)

-----------------------------------------------------------------------------

Init ==
    /\ pc = "list" /\ nodes \in SUBSET Nodes
    /\ podList = <<>> /\ podInfos = <<>> /\ allocatable = <<>>
    /\ unscheduledPods = <<>> /\ scheduledPods = <<>> /\ originalUnscheduledPods = <<>>
    /\ base = <<>> /\ placed = {} /\ recorded = {}

\* Sorted by time of creation, in any order among equals.
Sorted(ps) ==
    {s \in SetToSeqs(ps) :
        \A i, j \in DOMAIN s : i < j => PodInfo[s[i]].created <= PodInfo[s[j]].created}

List ==
    /\ pc = "list"
    /\ \E ps \in SUBSET Pods : Cardinality(ps) <= MaxPods /\ podList' \in Sorted(ps)
    /\ pc' = "convert"
    /\ UNCHANGED <<nodes, podInfos, allocatable, unscheduledPods, scheduledPods,
                   originalUnscheduledPods, base, placed, recorded>>

\* The first template of the instance type that the iteration over a map meets.
FindNodeTemplateForInstanceType(type) == {t \in NodeTemplates : t.instanceType = type}

createSimulationRequest ==
    /\ pc = "convert"
    /\ IF \A n \in nodes : FindNodeTemplateForInstanceType(InstanceType[n]) # {}
       THEN /\ podInfos' = Filter(podList, {p \in Pods : PodInfo[p].namespace # "kube-system"})
            /\ pc' = "initialize"
       ELSE pc' = "badRequest" /\ UNCHANGED podInfos
    /\ UNCHANGED <<nodes, podList, allocatable, unscheduledPods, scheduledPods,
                   originalUnscheduledPods, base, placed, recorded>>

isUnscheduled_NotBound(p) == ~PodInfo[p].bound

isUnscheduled(p) == ~PodInfo[p].bound /\ ~PodInfo[p].nominated

\* The template of a node is looked up again, and of unscheduled namesakes the last
\* one is the original.
initializeSimulationState ==
    LET unscheduled == Filter(podInfos, {p \in Pods : isUnscheduled(p)}) IN
    /\ pc = "initialize"
    /\ allocatable' \in {f \in [nodes -> {t.allocatable : t \in NodeTemplates}] :
          \A n \in nodes : \E t \in FindNodeTemplateForInstanceType(InstanceType[n]) :
                              f[n] = t.allocatable}
    /\ unscheduledPods' = unscheduled
    /\ scheduledPods' = Filter(podInfos, {p \in Pods : ~isUnscheduled(p)})
    /\ originalUnscheduledPods' =
          [name \in Names(unscheduled) |->
              unscheduled[SelectLastInSeq(unscheduled, LAMBDA p : builtName(p) = name)]]
    /\ pc' = "cluster"
    /\ UNCHANGED <<nodes, podList, podInfos, base, placed, recorded>>

AllCreated_Overwrites(names) == TRUE

\* An object whose name is taken cannot be created.
AllCreated(names) == IsInjective(names)

\* The scheduled pods are created one by one: of two namesakes the second fails.
initializeVirtualCluster ==
    /\ pc = "cluster"
    /\ IF AllCreated([i \in DOMAIN scheduledPods |-> builtName(scheduledPods[i])])
       THEN /\ base' = [name \in Names(scheduledPods) |->
                  CHOOSE p \in ToSet(scheduledPods) : builtName(p) = name]
            /\ pc' = "simulate"
       ELSE pc' = "error" /\ UNCHANGED base
    /\ UNCHANGED <<nodes, podList, podInfos, allocatable, unscheduledPods, scheduledPods,
                   originalUnscheduledPods, placed, recorded>>

\* What a simulation creates: a clone of each pod of the base, then the
\* unscheduled pods in their order, all under names with the run reference.
Deployed ==
    LET all == SetToSeq({base[name] : name \in DOMAIN base}) \o unscheduledPods
    IN  [i \in DOMAIN all |-> fromOriginalResourceName(builtName(all[i]))]

EndOfRun ==
    /\ pc = "simulate"
    /\ pc' = "ok"
    /\ UNCHANGED <<nodes, podList, podInfos, allocatable, unscheduledPods, scheduledPods,
                   originalUnscheduledPods, base, placed, recorded>>

\* The base pods that the placements of the simulated pods are read as.
BaseNames(ps) == {toOriginalResourceName(fromOriginalResourceName(builtName(p))) : p \in ps}

\* A simulation places some pods; the winner is written under the original names.
Simulate ==
    /\ pc = "simulate" /\ AllCreated(Deployed)
    /\ \E ps \in SUBSET ToSet(unscheduledPods) \ {{}} :
          LET names == BaseNames(ps)
              found == names \subseteq DOMAIN originalUnscheduledPods
              created == names \cap DOMAIN base = {} /\ Cardinality(names) = Cardinality(ps)
          IN  /\ placed' = placed \cup ps
              /\ IF found /\ created
                 THEN /\ base' = [name \in DOMAIN base \cup names |->
                            IF name \in names THEN originalUnscheduledPods[name] ELSE base[name]]
                      /\ recorded' = recorded \cup {originalUnscheduledPods[name] : name \in names}
                      /\ unscheduledPods' =
                            Filter(unscheduledPods, {p \in Pods : builtName(p) \notin names})
                      /\ UNCHANGED pc
                 ELSE pc' = "error" /\ UNCHANGED <<base, recorded, unscheduledPods>>
    /\ UNCHANGED <<nodes, podList, podInfos, allocatable, scheduledPods, originalUnscheduledPods>>

Answered == pc \in {"badRequest", "error", "ok"} /\ UNCHANGED vars

Next ==
    \/ List \/ createSimulationRequest \/ initializeSimulationState \/ initializeVirtualCluster
    \/ Simulate \/ EndOfRun
    \/ Answered

Spec == Init /\ [][Next]_vars

-----------------------------------------------------------------------------
(* Properties *)

\* The lists of Run hold pods of the request, each known under a name it has, and
\* no pod that another node is meant for is planned for a second time.
TypeOK ==
    /\ pc \in {"list", "convert", "initialize", "cluster", "simulate", "badRequest", "error", "ok"}
    /\ ToSet(podList) \subseteq Pods /\ ToSet(podInfos) \subseteq ToSet(podList)
    /\ ToSet(unscheduledPods) \cup ToSet(scheduledPods) \subseteq ToSet(podInfos)
    /\ \A name \in DOMAIN originalUnscheduledPods : builtName(originalUnscheduledPods[name]) = name
    /\ \A name \in DOMAIN base : builtName(base[name]) = name
    /\ \A p \in ToSet(unscheduledPods) \cup placed \cup recorded :
          ~PodInfo[p].bound /\ ~PodInfo[p].nominated

\* However names are changed on the way, as long as Run does not fail: what is
\* recorded as placed is what was placed.  Unless a name has the separator in it,
\* whose placement then goes to the pod whose name is before it, or the prefix twice:
\* its placement goes to the pod whose name has it once.
Restorable(name) ==
    /\ ~Contains(name, "-sr-")
    /\ ~(Len(name) > 1 /\ name[1] = "shoot--" /\ name[2] = "shoot--")
RecordedAsPlaced ==
    pc # "error" /\ (\A p \in placed : Restorable(PodInfo[p].name)) => recorded = placed

\* Between the target cluster and the answer no pod is lost: each pod outside
\* kube-system is unscheduled, was scheduled, or has been recorded as placed.
NoPodForgotten ==
    pc \in {"simulate", "ok"} =>
        {p \in ToSet(podList) : PodInfo[p].namespace # "kube-system"}
            = ToSet(unscheduledPods) \cup ToSet(scheduledPods) \cup recorded

\* Namesakes of two namespaces block each other, and all other pods with them: while
\* one of them is unscheduled no simulation can be deployed, and nothing is placed.
NamesakesGetNoNodes ==
    (\E p, q \in ToSet(podInfos) : Namesake(p, q)) => recorded = {}

\* "If not provided, pods will be ordered in descending order of requested resources",
\* says api/types.go:78-79 of PodOrder, which the handler does not set: simulations
\* deploy the pods, which ask for memory only, in this order.
LargestFirst ==
    \A i, j \in DOMAIN unscheduledPods :
        i < j => PodInfo[unscheduledPods[i]].memory >= PodInfo[unscheduledPods[j]].memory

=============================================================================
