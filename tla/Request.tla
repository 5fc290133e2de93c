------------------------------- MODULE Request -------------------------------
(***************************************************************************)
(* The request that recommender.Run works on (api.SimulationRequest) and   *)
(* the state that initializeSimulationState derives from it.               *)
(***************************************************************************)
EXTENDS Naturals, FiniteSets, Functions

CONSTANTS
    Pods,           \* the pods of the request
    InitialNodes,   \* the nodes of the request
    OtherNodes,     \* nodes of the target cluster that the snapshot does not list
    Prefixed,       \* the names, of pods and of nodes, that start with "shoot--"
    NodePools,      \* the node pools of the request
    ZoneNames,
    None,           \* no node, no zone, no run reference ("" in the code)
    PodInfo,        \* per pod: node, nominated, memory, cpu, priority
    NodePool,       \* per pool: zones, current, max, allocatable, price, capacity
    Allocatable,    \* per initial node
    NodeTemplates   \* the <<pool, zone>> pairs that have a node template

ASSUME PodAssumption ==
    PodInfo \in [Pods -> [node : InitialNodes \cup OtherNodes \cup {None}, nominated : BOOLEAN,
                          memory : Nat, cpu : Nat, priority : Nat]]

ASSUME NodePoolAssumption ==
    NodePool \in [NodePools -> [zones : SUBSET ZoneNames, current : Nat, max : Nat,
                                allocatable : Nat, price : Nat, capacity : Nat]]

ASSUME AllocatableAssumption == Allocatable \in [InitialNodes -> Nat]

\* A request is a document: finitely many pods, nodes, pools and zones.
ASSUME FiniteAssumption ==
    /\ IsFiniteSet(Pods) /\ IsFiniteSet(InitialNodes)
    /\ IsFiniteSet(NodePools) /\ IsFiniteSet(ZoneNames)

ASSUME PrefixAssumption == Prefixed \subseteq Pods \cup InitialNodes

\* A node added by run number `run`, named after its pool; the random prefix
\* that makes the name unique is represented by the zone and the run.
ScaledNode == [pool : NodePools, zone : ZoneNames, run : Nat]
NodeName == InitialNodes \cup ScaledNode

\* fromOriginalResourceName takes the prefix "shoot--" from a name before it
\* appends the run reference, toOriginalResourceName does not put it back.
StrippedName == [stripped : InitialNodes]
withoutPrefix(name) ==
    IF name \in InitialNodes \cap Prefixed THEN [stripped |-> name] ELSE name

\* Where a pod may be said to be: on a node, on one that nobody knows, or on
\* the shortened name of a node.
PlaceName == NodeName \cup StrippedName \cup OtherNodes

ASSUME NameAssumption ==
    /\ None \notin PlaceName \cup ZoneNames
    /\ (InitialNodes \cup OtherNodes) \cap (ScaledNode \cup StrippedName) = {}

\* SplitScheduledAndUnscheduledPods: a pod nominated to a node but not bound
\* to it counts as scheduled.
isUnscheduled(p) == PodInfo[p].node = None /\ ~PodInfo[p].nominated
isNominated(p) == PodInfo[p].node = None /\ PodInfo[p].nominated

UnscheduledInRequest == {p \in Pods : isUnscheduled(p)}
ScheduledInRequest == {[pod |-> p, at |-> PodInfo[p].node] : p \in Pods \ UnscheduledInRequest}

\* initializeSimulationState keeps the pools that may still grow.
EligibleInRequest ==
    LET filtered == {np \in NodePools : NodePool[np].current < NodePool[np].max}
    IN  [np \in filtered |-> NodePool[np].current]

\* What fits on a node: existing, the copy of an existing one, or added.
Capacity(name) ==
    IF name \in InitialNodes THEN Allocatable[name]
    ELSE IF name \in StrippedName THEN Allocatable[name.stripped]
    ELSE NodePool[name.pool].allocatable

\* The memory that a set of pods asks for.
Memory(ps) == SumFunctionOnSet([p \in Pods |-> PodInfo[p].memory], ps)

SamePriority == \A p, q \in Pods : PodInfo[p].priority = PodInfo[q].priority
=============================================================================
