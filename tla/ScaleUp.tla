------------------------------- MODULE ScaleUp -------------------------------
(***************************************************************************)
(* One call of recommender.Run (internal/scaler/scaleup): the recommender  *)
(* repeats simulation runs until every pod has a node or no node helps.    *)
(* In a run it takes the eligible node pools one after the other, clones   *)
(* the cluster under a label and a taint of its own (the run reference),   *)
(* adds one node per zone in turn, lets the scheduler of the virtual       *)
(* cluster place the unscheduled pods, and scores what it observed.  The   *)
(* winner is then written into the virtual cluster as base state and into  *)
(* the recommender's own lists, for the next run to start from.            *)
(*                                                                         *)
(* The scheduler is a process of its own: it binds pending pods, and       *)
(* preempts pods of lower priority, between any two steps of the           *)
(* recommender.  It sees base objects and simulated ones in one cluster.   *)
(***************************************************************************)
EXTENDS Request, Scoring, FiniteSetsExt

CONSTANT Faults    \* the calls on the virtual cluster that may fail

ASSUME FaultsAssumption == Faults \subseteq {"create", "read", "delete"}

\* rand.String(4), drawn per pool and per run, represented as unique.
RunRef == [pool : NodePools, run : Nat]

\* An object of the virtual cluster carries its name and the run reference that
\* fromOriginalResourceName appends; base objects carry none.
ClusterNode == [name : PlaceName \cup {None}, ref : RunRef \cup {None}]
ClusterPod == [pod : Pods, ref : RunRef \cup {None}, at : ClusterNode \cup {None}]
Placement == [pod : Pods, at : ClusterNode \cup {None}]

ASSUME ReferenceAssumption == None \notin RunRef \cup ClusterNode

VARIABLES
    unscheduledPods,    \* simulationState: pods still without a node
    scheduledPods,      \* simulationState: set of [pod, at], at a node name
    existingNodes,      \* simulationState: names of the base nodes
    eligibleNodePools,  \* simulationState: a map from pool to Current
    nodes,              \* virtual cluster: nodes
    pods,               \* virtual cluster: pods and where they are bound
    pc,                 \* where the recommender is
    runNumber,
    poolsToSimulate,    \* the rest of the range over eligibleNodePools
    nodePool,           \* the pool being simulated
    zonesToSimulate,    \* the rest of the range over nodePool.Zones
    zone,               \* the zone being simulated
    clonedPods,         \* runSimulationForNodePool's scheduledPods (names)
    runResult,          \* the result about to be sent, or the winner
    resultCh,           \* the buffered channel
    recommendations,    \* the scaled nodes recommended so far
    outcome             \* "none", then the Result: "ok" or "error"

state == <<unscheduledPods, scheduledPods, existingNodes, eligibleNodePools>>
cluster == <<nodes, pods>>
loops == <<poolsToSimulate, nodePool, zonesToSimulate, zone, clonedPods>>
vars == <<state, cluster, pc, runNumber, loops, runResult, resultCh,
          recommendations, outcome>>

runRef_OncePerRequest == [pool |-> nodePool, run |-> 1]
runRef == [pool |-> nodePool, run |-> runNumber]
Base(name) == [name |-> name, ref |-> None]
Clone(name) == [name |-> withoutPrefix(name), ref |-> runRef]
scaledNode(z) == [pool |-> nodePool, zone |-> z, run |-> runNumber]

-----------------------------------------------------------------------------
(* Helpers of the code *)

updateEligibleNodePools_NeverFull(eligible, np) ==
    IF np \notin DOMAIN eligible THEN eligible ELSE [eligible EXCEPT ![np] = @ + 1]

updateEligibleNodePools_EarlyFull(eligible, np) ==
    IF np \notin DOMAIN eligible THEN eligible
    ELSE [q \in DOMAIN eligible \ {np} |-> eligible[q]]

updateEligibleNodePools(eligible, np) ==
    IF np \notin DOMAIN eligible THEN eligible
    ELSE IF eligible[np] + 1 = NodePool[np].max
         THEN [q \in DOMAIN eligible \ {np} |-> eligible[q]]
         ELSE [eligible EXCEPT ![np] = @ + 1]

\* The capacity of the result channel.
computeTotalZonesAcrossNodePools ==
    Cardinality(UNION {{np} \X NodePool[np].zones : np \in DOMAIN eligibleNodePools})

Compute(ps, np) ==
    [units |-> MapThenSumSet(LAMBDA p : ResourceUnits(PodInfo[p].memory, PodInfo[p].cpu), ps),
     price |-> NodePool[np].price]

errorRunResult(z) ==
    [pool |-> nodePool, zone |-> z, err |-> TRUE,
     score |-> [units |-> 0, price |-> 0], pods |-> {}, capacity |-> 0]

\* The pods of a result that have a node: nodeToPods.
Placed(r) == {q \in r.pods : q.at # None}
HasWinner_Always(r) == TRUE
HasWinner(r) == ~IsZero(r.score) /\ Placed(r) # {}

\* getUpdatedPods: the pods seen scheduled as the cluster has them now, the
\* others as they were deployed, without a node.
getUpdatedPods(seen) ==
    {[pod |-> v.pod, at |-> v.at] : v \in seen}
        \cup {[pod |-> p, at |-> None] : p \in {q \in unscheduledPods : \A v \in seen : v.pod # q}}

computeRunResult(seen) ==
    [pool |-> nodePool, zone |-> zone, err |-> FALSE,
     score |-> Compute({v.pod : v \in seen}, nodePool),
     pods |-> getUpdatedPods(seen), capacity |-> NodePool[nodePool].capacity]

BoundInBase_CloneName(placed) ==
    {[pod |-> q.pod, ref |-> None, at |-> q.at] : q \in placed}

\* syncVirtualClusterWithWinningResult: a pod placed on a clone and a pod
\* placed on the base node itself both go to the base node of that name.
BoundInBase(placed) ==
    {[pod |-> q.pod, ref |-> None, at |-> Base(q.at.name)] : q \in placed}

-----------------------------------------------------------------------------
(* The virtual cluster *)

PodsAt(n) == {v \in pods : v.at = n}
MemoryOf(vs) == SumFunctionOnSet([v \in vs |-> PodInfo[v.pod].memory], vs)
Load(n) == MemoryOf(PodsAt(n))

\* The simulated nodes carry the taint of their run reference, the base nodes
\* do not: a simulated pod may go to either, a base pod to base nodes only.
Tolerates(v, n) == n.ref = None \/ n.ref = v.ref
Feasible(v, n) ==
    Tolerates(v, n) /\ Load(n) + PodInfo[v.pod].memory <= Capacity(n.name)
LowerPriority(v, n) ==
    {w \in PodsAt(n) : PodInfo[w.pod].priority < PodInfo[v.pod].priority}

\* The pods deployed for the zone being simulated (unscheduledPodNames).
DeployedPods_BoundOnly ==
    {v \in pods : v.ref = runRef /\ v.pod \in unscheduledPods /\ v.at # None}
DeployedPods == {v \in pods : v.ref = runRef /\ v.pod \in unscheduledPods}

\* The node added for the zone being simulated (nodeName).
ZoneNodes_None == {}
ZoneNodes == {Clone(scaledNode(zone))}

\* A call that deletes these objects: when it fails it may have deleted some.
Deletes(ns, vs) ==
    \/ nodes' = nodes \ ns /\ pods' = pods \ vs
    \/ /\ "delete" \in Faults
       /\ \E ms \in SUBSET ns, ws \in SUBSET vs :
            nodes' = nodes \ ms /\ pods' = pods \ ws

\* Creating nodes and then pods, failing on the way.
CreatesSome(ns, vs) ==
    \/ \E ms \in SUBSET ns : nodes' = nodes \cup ms /\ UNCHANGED pods
    \/ \E ws \in SUBSET vs : nodes' = nodes \cup ns /\ pods' = pods \cup ws

-----------------------------------------------------------------------------
(* Run *)

Init ==
    /\ unscheduledPods = UnscheduledInRequest
    /\ scheduledPods = ScheduledInRequest
    /\ existingNodes = InitialNodes
    /\ eligibleNodePools = EligibleInRequest
    /\ nodes = {} /\ pods = {}
    /\ pc = "initialize" /\ runNumber = 0
    /\ poolsToSimulate = {} /\ nodePool = None
    /\ zonesToSimulate = {} /\ zone = None /\ clonedPods = {}
    /\ runResult = None /\ resultCh = {}
    /\ recommendations = {} /\ outcome = "none"

Return(res) == pc' = "done" /\ outcome' = res

\* The scheduled pods of the request are created with their node; a nominated
\* pod is created without one and the scheduler takes it up.
InitialCluster ==
    [nodes |-> {Base(n) : n \in existingNodes},
     pods |-> {[pod |-> q.pod, ref |-> None, at |-> IF q.at = None THEN None ELSE Base(q.at)]
                 : q \in scheduledPods}]

initializeVirtualCluster ==
    /\ pc = "initialize"
    /\ \/ /\ nodes' = InitialCluster.nodes /\ pods' = InitialCluster.pods
          /\ pc' = "loop" /\ UNCHANGED outcome
       \/ /\ "create" \in Faults
          /\ CreatesSome(InitialCluster.nodes, InitialCluster.pods)
          /\ Return("error")
    /\ UNCHANGED <<state, runNumber, loops, runResult, resultCh, recommendations>>

AllPodsScheduled ==
    /\ pc = "loop" /\ unscheduledPods = {}
    /\ runNumber' = runNumber + 1
    /\ Return("ok")
    /\ UNCHANGED <<state, cluster, loops, runResult, resultCh, recommendations>>

\* The head of runSimulation: a fresh channel, and the range over the pools.
StartRun ==
    /\ pc = "loop" /\ unscheduledPods # {}
    /\ runNumber' = runNumber + 1
    /\ poolsToSimulate' = DOMAIN eligibleNodePools
    /\ resultCh' = {}
    /\ pc' = "pools"
    /\ UNCHANGED <<state, cluster, nodePool, zonesToSimulate, zone, clonedPods,
                   runResult, recommendations, outcome>>

\* The next pool of the range; Go iterates over a map in any order.
NextPool(np) ==
    /\ pc = "pools" /\ np \in poolsToSimulate
    /\ poolsToSimulate' = poolsToSimulate \ {np}
    /\ nodePool' = np /\ zone' = None /\ clonedPods' = {}
    /\ zonesToSimulate' = NodePool[np].zones
    /\ pc' = "setup"
    /\ UNCHANGED <<state, cluster, runNumber, runResult, resultCh, recommendations, outcome>>

Fails_Retries(z) ==
    pc' = "zones" /\ zonesToSimulate' = zonesToSimulate \cup {z} /\ UNCHANGED runResult

Fails_Continues(z) ==
    runResult' = errorRunResult(z) /\ pc' = "send" /\ zonesToSimulate' = zonesToSimulate \ {z}

\* An error result is sent by runSimulationForNodePool, which then returns.
Fails(z) == runResult' = errorRunResult(z) /\ pc' = "send" /\ zonesToSimulate' = {}

\* The clone of a nominated pod gets the node name "-sr-<ref>": no node has it.
ClonedNodes == {Clone(n) : n \in existingNodes}
ClonedScheduledPods_None == {}
ClonedScheduledPods ==
    {[pod |-> q.pod, ref |-> runRef, at |-> Clone(q.at)] : q \in scheduledPods}

setupSimulationRun ==
    /\ pc = "setup"
    /\ \/ /\ nodes' = nodes \cup ClonedNodes /\ pods' = pods \cup ClonedScheduledPods
          /\ clonedPods' = {q.pod : q \in scheduledPods}
          /\ pc' = "zones" /\ UNCHANGED <<zonesToSimulate, runResult>>
       \/ /\ "create" \in Faults
          /\ CreatesSome(ClonedNodes, ClonedScheduledPods)
          /\ Fails(None) /\ UNCHANGED clonedPods
    /\ UNCHANGED <<state, runNumber, poolsToSimulate, nodePool, zone, resultCh,
                   recommendations, outcome>>

-----------------------------------------------------------------------------
(* runSimForZone *)

\* The template is looked up and the node constructed and created.  On a
\* failed call the deferred cleanup deletes the node again.
CreateScaledNode(z) ==
    /\ pc = "zones" /\ z \in zonesToSimulate
    /\ zone' = z
    /\ \/ /\ <<nodePool, z>> \in NodeTemplates
          /\ nodes' = nodes \cup {Clone(scaledNode(z))}
          /\ zonesToSimulate' = zonesToSimulate \ {z}
          /\ pc' = "deploy" /\ UNCHANGED runResult
       \/ /\ <<nodePool, z>> \notin NodeTemplates \/ "create" \in Faults
          /\ UNCHANGED nodes /\ Fails(z)
    /\ UNCHANGED <<state, pods, runNumber, poolsToSimulate, nodePool, clonedPods,
                   resultCh, recommendations, outcome>>

NewPods == {[pod |-> p, ref |-> runRef, at |-> None] : p \in unscheduledPods}

\* A pod of that name may still exist when an earlier deletion failed.
NameTaken(v) == \E w \in pods : w.pod = v.pod /\ w.ref = v.ref

\* When it fails, the names of the pods are not kept, so that the cleanup
\* deletes the node and leaves the pods already created.
createAndDeployUnscheduledPods ==
    /\ pc = "deploy"
    /\ \/ /\ \A v \in NewPods : ~NameTaken(v)
          /\ pods' = pods \cup NewPods
          /\ pc' = "events" /\ UNCHANGED <<nodes, zonesToSimulate, runResult>>
       \/ /\ "create" \in Faults \/ \E v \in NewPods : NameTaken(v)
          /\ \E ws \in SUBSET {v \in NewPods : ~NameTaken(v)} :
               /\ pods' = pods \cup ws
               /\ \/ nodes' = nodes \ ZoneNodes
                  \/ "delete" \in Faults /\ UNCHANGED nodes
          /\ Fails(zone)
    /\ UNCHANGED <<state, runNumber, poolsToSimulate, nodePool, zone, clonedPods,
                   resultCh, recommendations, outcome>>

\* GetPodSchedulingEvents waits ten seconds at most: it may miss pods that are
\* scheduled late.  The pods it names are then read as they are now.
CollectSchedulingEvents ==
    /\ pc = "events"
    /\ \/ /\ \E seen \in SUBSET {v \in DeployedPods : v.at # None} :
               runResult' = computeRunResult(seen)
          /\ pc' = "send" /\ UNCHANGED zonesToSimulate
       \/ "read" \in Faults /\ Fails(zone)
    /\ Deletes(ZoneNodes, DeployedPods)
    /\ UNCHANGED <<state, runNumber, poolsToSimulate, nodePool, zone, clonedPods,
                   resultCh, recommendations, outcome>>

\* Nobody receives until every pool is done: a full channel blocks the send.
SendResult ==
    /\ pc = "send"
    /\ Cardinality(resultCh) < computeTotalZonesAcrossNodePools
    /\ resultCh' = resultCh \cup {runResult}
    /\ runResult' = None
    /\ pc' = "zones"
    /\ UNCHANGED <<state, cluster, runNumber, loops, recommendations, outcome>>

\* The deferred cleanup of runSimulationForNodePool: the cloned scheduled pods
\* by name and the nodes by the label of the run reference.
cleanUpNodePoolSimRun ==
    /\ pc = "zones" /\ zonesToSimulate = {}
    /\ Deletes({n \in nodes : n.ref = runRef},
               {v \in pods : v.ref = runRef /\ v.pod \in clonedPods})
    /\ clonedPods' = {} /\ zone' = None /\ nodePool' = None
    /\ pc' = "pools"
    /\ UNCHANGED <<state, runNumber, poolsToSimulate, zonesToSimulate, runResult,
                   resultCh, recommendations, outcome>>

-----------------------------------------------------------------------------
(* The end of a run: runSimulation drains the closed channel *)

\* An error of any pool or no winner ends the loop of Run, which still returns
\* an ok result with the recommendations of the earlier runs.
EndWithoutWinner ==
    /\ pc = "pools" /\ poolsToSimulate = {}
    /\ \/ \E r \in resultCh : r.err
       \/ Winners({r \in resultCh : HasWinner(r)}) = {}
    /\ Return("ok")
    /\ UNCHANGED <<state, cluster, runNumber, loops, runResult, resultCh, recommendations>>

getWinningRunResult ==
    /\ pc = "pools" /\ poolsToSimulate = {}
    /\ \A r \in resultCh : ~r.err
    /\ runResult' \in Winners({r \in resultCh : HasWinner(r)})
    /\ resultCh' = {}
    /\ pc' = "syncPods"
    /\ UNCHANGED <<state, cluster, runNumber, loops, recommendations, outcome>>

-----------------------------------------------------------------------------
(* syncWinningResult *)

winnerNode_LoopZone == [pool |-> runResult.pool, zone |-> zone, run |-> runNumber]
winnerNode == [pool |-> runResult.pool, zone |-> runResult.zone, run |-> runNumber]

\* A pod is looked up among the original ones under its name without the
\* prefix; a pod that has the prefix is not found, and Run fails.
LookupFails == \E q \in Placed(runResult) : q.pod \in Prefixed

\* The pods are created first, bound to a node that may not exist yet.
SyncPods ==
    LET bound == BoundInBase(Placed(runResult)) IN
    /\ pc = "syncPods"
    /\ \/ /\ LookupFails
          /\ UNCHANGED pods
          /\ Return("error")
       \/ /\ ~LookupFails /\ \A v \in bound : ~NameTaken(v)
          /\ pods' = pods \cup bound
          /\ pc' = "syncNode" /\ UNCHANGED outcome
       \/ /\ ~LookupFails
          /\ "create" \in Faults \/ \E v \in bound : NameTaken(v)
          /\ \E ws \in SUBSET {v \in bound : ~NameTaken(v)} : pods' = pods \cup ws
          /\ Return("error")
    /\ UNCHANGED <<state, nodes, runNumber, loops, runResult, resultCh, recommendations>>

SyncNode ==
    /\ pc = "syncNode"
    /\ \/ /\ nodes' = nodes \cup {Base(winnerNode)}
          /\ pc' = "syncState" /\ UNCHANGED outcome
       \/ /\ "create" \in Faults
          /\ UNCHANGED nodes
          /\ Return("error")
    /\ UNCHANGED <<state, pods, runNumber, loops, runResult, resultCh, recommendations>>

\* The unscheduled pods without those found in the virtual cluster.
StillUnscheduled_OffNewNode(found) ==
    unscheduledPods \ {v.pod : v \in {w \in found : w.at = Base(winnerNode)}}
StillUnscheduled(found) == unscheduledPods \ {v.pod : v \in found}

\* Only the pods that still exist move to the scheduled ones.
syncRecommenderStateWithWinningResult ==
    LET names == {q.pod : q \in Placed(runResult)}
        found == {v \in pods : v.ref = None /\ v.pod \in names}
    IN
    /\ pc = "syncState"
    /\ \/ /\ existingNodes' = existingNodes \cup {winnerNode}
          /\ scheduledPods' = scheduledPods \cup {[pod |-> v.pod, at |-> v.at.name] : v \in found}
          /\ unscheduledPods' = StillUnscheduled(found)
          /\ eligibleNodePools' = updateEligibleNodePools(eligibleNodePools, runResult.pool)
          /\ recommendations' = recommendations \cup {winnerNode}
          /\ runResult' = None
          /\ pc' = "loop" /\ UNCHANGED outcome
       \/ /\ "read" \in Faults
          /\ existingNodes' \in {existingNodes, existingNodes \cup {winnerNode}}
          /\ Return("error")
          /\ UNCHANGED <<unscheduledPods, scheduledPods, eligibleNodePools,
                         recommendations, runResult>>
    /\ UNCHANGED <<cluster, runNumber, loops, resultCh>>

-----------------------------------------------------------------------------
(* The scheduler of the virtual cluster *)

Schedule(v, n) ==
    /\ v.at = None /\ Feasible(v, n)
    /\ pods' = (pods \ {v}) \cup {[v EXCEPT !.at = n]}
    /\ UNCHANGED <<state, nodes, pc, runNumber, loops, runResult, resultCh,
                   recommendations, outcome>>

\* A pod that fits nowhere evicts a pod of lower priority from a node where
\* evicting enough of them makes room.
Preempt(v, n, victim) ==
    /\ v.at = None /\ \A m \in nodes : ~Feasible(v, m)
    /\ Tolerates(v, n)
    /\ victim \in LowerPriority(v, n)
    /\ MemoryOf(PodsAt(n) \ LowerPriority(v, n)) + PodInfo[v.pod].memory <= Capacity(n.name)
    /\ pods' = pods \ {victim}
    /\ UNCHANGED <<state, nodes, pc, runNumber, loops, runResult, resultCh,
                   recommendations, outcome>>

Scheduler ==
    \E v \in pods, n \in nodes :
        Schedule(v, n) \/ \E victim \in PodsAt(n) : Preempt(v, n, victim)

Recommender ==
    \/ initializeVirtualCluster
    \/ AllPodsScheduled \/ StartRun
    \/ \E np \in poolsToSimulate : NextPool(np)
    \/ setupSimulationRun
    \/ \E z \in zonesToSimulate : CreateScaledNode(z)
    \/ createAndDeployUnscheduledPods \/ CollectSchedulingEvents
    \/ SendResult \/ cleanUpNodePoolSimRun
    \/ EndWithoutWinner \/ getWinningRunResult
    \/ SyncPods \/ SyncNode \/ syncRecommenderStateWithWinningResult

Terminated == pc = "done" /\ UNCHANGED vars

Next == Recommender \/ Scheduler \/ Terminated

\* The goroutine of the request is never parked for good unless it blocks.
Spec == Init /\ [][Next]_vars /\ WF_vars(Recommender)

-----------------------------------------------------------------------------
(* Properties *)

Location == {"initialize", "loop", "pools", "setup", "zones", "deploy", "events",
             "send", "syncPods", "syncNode", "syncState", "done"}

\* A result of a simulation; only an error may come without a zone.
IsRunResult(r) ==
    /\ r.pool \in NodePools
    /\ r.err \in BOOLEAN
    /\ r.zone \in ZoneNames \/ (r.err /\ r.zone = None)
    /\ r.pods \subseteq Placement
    /\ r.capacity \in Nat

\* The recommender's lists hold pods, node names and pools of the request, and
\* the virtual cluster holds named objects: no run reference leaks into a name
\* that Run keeps or returns (toOriginalResourceName was applied).
TypeOK ==
    /\ unscheduledPods \subseteq Pods
    /\ scheduledPods \subseteq [pod : Pods, at : PlaceName \cup {None}]
    /\ existingNodes \subseteq NodeName
    /\ DOMAIN eligibleNodePools \subseteq NodePools
    /\ eligibleNodePools \in [DOMAIN eligibleNodePools -> Nat]
    /\ nodes \subseteq ClusterNode
    /\ pods \subseteq ClusterPod
    /\ pc \in Location
    /\ runNumber \in Nat
    /\ poolsToSimulate \subseteq NodePools
    /\ nodePool \in NodePools \cup {None}
    /\ zonesToSimulate \subseteq ZoneNames
    /\ zone \in ZoneNames \cup {None}
    /\ clonedPods \subseteq Pods
    /\ runResult = None \/ IsRunResult(runResult)
    /\ \A r \in resultCh : IsRunResult(r)
    /\ recommendations \subseteq ScaledNode
    /\ outcome \in {"none", "ok", "error"}

RecommendedFor(np) == {n \in recommendations : n.pool = np}
NodeCount(np) == NodePool[np].current + Cardinality(RecommendedFor(np))

\* A recommendation never takes a node pool beyond its maximum, although
\* updateEligibleNodePools only compares for equality.
PoolWithinMax ==
    \A np \in NodePools : RecommendedFor(np) # {} => NodeCount(np) <= NodePool[np].max

\* "eligibleNodePools holds the available node capacity per node pool": a pool
\* is simulated exactly as long as it has room, and its Current is its size.
EligibleIffRoomLeft ==
    /\ DOMAIN eligibleNodePools = {np \in NodePools : NodeCount(np) < NodePool[np].max}
    /\ \A np \in DOMAIN eligibleNodePools : eligibleNodePools[np] = NodeCount(np)

\* No pod of the request is lost, listed twice or both scheduled and not, so
\* the unscheduled pods of the response are the ones without a node.
PodsPartitioned ==
    /\ \A p \in Pods : p \in unscheduledPods <=> \A q \in scheduledPods : q.pod # p
    /\ \A q, r \in scheduledPods : q.pod = r.pod => q = r

\* Every pod reported as scheduled is where the request has it, on a node of the
\* request or on a node that is recommended.  The exception is a node whose name
\* lost its prefix on the way to the clone and back.
OnKnownNode(q) ==
    \/ q.at \in InitialNodes \cup recommendations
    \/ ~isUnscheduled(q.pod) /\ q.at = PodInfo[q.pod].node
    \/ \E n \in InitialNodes \cap Prefixed : q.at = withoutPrefix(n)
PlacementOnKnownNode == \A q \in scheduledPods : OnKnownNode(q)

\* When deletions fail, a pod may also be reported on a node that an earlier zone
\* left over, which no recommendation mentions; but only on one of the pool and
\* the run of a recommended node, never on one of an earlier run.
PlacementOnLeftoverNode ==
    \A q \in scheduledPods :
        \/ OnKnownNode(q)
        \/ /\ q.at \in ScaledNode
           /\ \E n \in recommendations : n.pool = q.at.pool /\ n.run = q.at.run

BaseNodes == {n \in nodes : n.ref = None}
BasePods == {v \in pods : v.ref = None}

\* Simulating never disturbs what is simulated: outside of the writes of the
\* winner, the base objects of the virtual cluster are what the recommender's
\* lists say, whatever failed before.  A base pod may only be missing when the
\* scheduler evicted it for a pod of higher priority.
ClusterMatchesState ==
    pc \notin {"initialize", "syncNode", "syncState"} /\ outcome # "error" =>
        /\ BaseNodes = {Base(n) : n \in existingNodes}
        /\ existingNodes = InitialNodes \cup recommendations
        /\ \A v \in BasePods : \E q \in scheduledPods :
                q.pod = v.pod /\ (q.at = None \/ v.at = Base(q.at))
        /\ SamePriority => \A q \in scheduledPods : \E v \in BasePods : v.pod = q.pod

\* The simulations of two node pools never meet: what is not base state carries
\* the run reference of the pool being simulated, and nothing is left when a
\* winner is chosen.  Only after an error, which ends Run, may pods remain.
SimulationsIsolated ==
    \A x \in nodes \cup pods :
        \/ x.ref = None
        \/ pc \in {"setup", "zones", "deploy", "events", "send"} /\ x.ref = runRef
        \/ \E r \in resultCh : r.err

\* A simulated pod may use the free memory of a base node and of its clone, and
\* both placements are written to the base node, under its name or the shortened
\* one: the node may be overcommitted, but never beyond twice its size, unless it
\* was already in the request.  Aside from the nominated pods, of which the clone
\* knows nothing and which the scheduler may bind after the results are in.
PlannedAt(n) ==
    {v \in BasePods : v.at \in {n, Base(withoutPrefix(n.name))} /\ ~isNominated(v.pod)}
MemoryInRequest(n) == Memory({p \in Pods : PodInfo[p].node = n.name})
OvercommitBounded ==
    SamePriority => \A n \in BaseNodes :
        \/ MemoryOf(PlannedAt(n)) <= 2 * Capacity(n.name)
        \/ MemoryOf(PlannedAt(n)) <= MemoryInRequest(n)

\* The channel is as large as the number of zones, and each zone sends once; only
\* a pool without zones whose setup fails sends a result nobody made room for.
Blocked == pc = "send" /\ Cardinality(resultCh) >= computeTotalZonesAcrossNodePools
BlockedOnlyByZonelessPool ==
    Blocked => \E r \in resultCh \cup {runResult} : r.err /\ NodePool[r.pool].zones = {}

\* Run carries out a plan: each step that changes the recommender's lists adds one
\* node with room for it in its pool and finds a home for at least one pod, within
\* the bounds of ScaleUpPlan.  (Stated for requests without preemption, for deletions
\* that succeed and nodes without the prefix.)
Plan == INSTANCE ScaleUpPlan WITH
    unscheduled <- unscheduledPods, placement <- scheduledPods,
    added <- recommendations,
    MayFail <- Faults \cap {"create", "read"} # {} \/ Prefixed \cap Pods # {}
ImplementsPlan == Plan!Init /\ [][Plan!Next]_Plan!pvars

\* Run returns, since every further run needs room in a pool; or it hangs for good
\* in the send of a result, where BlockedOnlyByZonelessPool lets it.
Termination == <>(pc = "done" \/ Blocked)

\* The log line of Run, "No winner could be identified. This will happen when no
\* pods could be assigned": when Run gives up on pods, no zone had placed one.
NoWinnerMeansNoneAssigned ==
    outcome = "ok" /\ unscheduledPods # {} /\ (\A r \in resultCh : ~r.err) =>
        \A r \in resultCh : Placed(r) = {}

=============================================================================
