---------------------------- MODULE ScaleUpProofs ----------------------------
(***************************************************************************)
(* Theorems about ScaleUp, for every request and every set of faults:      *)
(* types, the books that Run keeps of pools and pods, the virtual cluster  *)
(* that its simulations share (what a simulation leaves behind, what it    *)
(* does to the base state, where the scheduled pods are, and room in the   *)
(* result channel), and the memory that is given away: how far a base node *)
(* can be overcommitted, and that Run carries out the plan of ScaleUpPlan. *)
(***************************************************************************)
EXTENDS ScaleUp, FoldProofs, FiniteSetTheorems, TLAPS

-----------------------------------------------------------------------------
(* Type correctness *)

\* What the program counter says about the loop variables and the result: the
\* strengthening that makes TypeOK inductive.
Simulating == {"setup", "zones", "deploy", "events", "send"}
Syncing == {"syncPods", "syncNode", "syncState"}

WinnerPods == {q.pod : q \in Placed(runResult)}

ControlOK ==
    /\ pc \in Simulating => nodePool \in NodePools
    /\ pc \in {"deploy", "events"} => zone \in ZoneNames
    /\ pc \in {"send"} \cup Syncing => IsRunResult(runResult)
    /\ pc \in Syncing => runResult.err = FALSE
    /\ pc \in {"syncNode", "syncState"} =>
          \A v \in pods : v.ref = None /\ v.pod \in WinnerPods => v.at \in ClusterNode

TypeInv == TypeOK /\ ControlOK

\* The request and an empty virtual cluster have their types.
LEMMA InitTypeInv == Init => TypeInv
<1> SUFFICES ASSUME Init PROVE TypeInv
    OBVIOUS
<1> USE PodAssumption, NodePoolAssumption DEF Init
<1>1. ScheduledInRequest \subseteq [pod : Pods, at : PlaceName \cup {None}]
    BY DEF ScheduledInRequest, NodeName, PlaceName
<1>2. /\ DOMAIN EligibleInRequest \subseteq NodePools
      /\ EligibleInRequest \in [DOMAIN EligibleInRequest -> Nat]
    BY DEF EligibleInRequest
<1>3. TypeOK
    BY <1>1, <1>2 DEF TypeOK, UnscheduledInRequest, NodeName, Location
<1>4. ControlOK
    BY DEF ControlOK, Simulating, Syncing
<1> QED
    BY <1>3, <1>4 DEF TypeInv

\* Names built from typed parts.
LEMMA NamesTyped ==
    ASSUME TypeOK
    PROVE /\ \A n \in PlaceName \cup {None} : Base(n) \in ClusterNode
          /\ nodePool \in NodePools => \A n \in PlaceName \cup {None} : Clone(n) \in ClusterNode
          /\ nodePool \in NodePools => runRef \in RunRef
          /\ nodePool \in NodePools => \A z \in ZoneNames : scaledNode(z) \in NodeName
<1>1. \A n \in PlaceName \cup {None} : withoutPrefix(n) \in PlaceName \cup {None}
    BY DEF withoutPrefix, PlaceName, StrippedName
<1>2. nodePool \in NodePools => runRef \in RunRef
    BY DEF TypeOK, runRef, RunRef
<1>3. nodePool \in NodePools => \A z \in ZoneNames : scaledNode(z) \in NodeName
    BY DEF TypeOK, scaledNode, ScaledNode, NodeName
<1> QED
    BY <1>1, <1>2, <1>3 DEF Base, Clone, ClusterNode

\* Every node name is a place where a pod can be.
LEMMA NodeNamesArePlaces == NodeName \subseteq PlaceName
    BY DEF PlaceName

\* What initializeVirtualCluster creates has its type.
LEMMA InitialClusterTyped ==
    ASSUME TypeOK
    PROVE InitialCluster.nodes \subseteq ClusterNode /\ InitialCluster.pods \subseteq ClusterPod
<1>1. \A n \in existingNodes : Base(n) \in ClusterNode
    BY NamesTyped, NodeNamesArePlaces DEF TypeOK
<1>2. ASSUME NEW q \in scheduledPods
      PROVE [pod |-> q.pod, ref |-> None, at |-> IF q.at = None THEN None ELSE Base(q.at)]
                \in ClusterPod
    <2>1. q.pod \in Pods /\ q.at \in PlaceName \cup {None}
        BY DEF TypeOK
    <2>2. Base(q.at) \in ClusterNode
        BY <2>1, NamesTyped
    <2> QED
        BY <2>1, <2>2 DEF ClusterPod
<1> QED
    BY <1>1, <1>2 DEF InitialCluster

\* So has what setupSimulationRun creates,
LEMMA ClonesTyped ==
    ASSUME TypeOK, nodePool \in NodePools
    PROVE ClonedNodes \subseteq ClusterNode /\ ClonedScheduledPods \subseteq ClusterPod
<1>1. \A n \in existingNodes : Clone(n) \in ClusterNode
    BY NamesTyped, NodeNamesArePlaces DEF TypeOK
<1>2. ASSUME NEW q \in scheduledPods
      PROVE [pod |-> q.pod, ref |-> runRef, at |-> Clone(q.at)] \in ClusterPod
    <2>1. q.pod \in Pods /\ q.at \in PlaceName \cup {None}
        BY DEF TypeOK
    <2>2. Clone(q.at) \in ClusterNode /\ runRef \in RunRef
        BY <2>1, NamesTyped
    <2> QED
        BY <2>1, <2>2 DEF ClusterPod
<1> QED
    BY <1>1, <1>2 DEF ClonedNodes, ClonedScheduledPods

\* so have the pods that createAndDeployUnscheduledPods creates.
LEMMA NewPodsTyped ==
    ASSUME TypeOK, nodePool \in NodePools
    PROVE NewPods \subseteq ClusterPod
    BY NamesTyped DEF TypeOK, NewPods, ClusterPod

\* An error is a result,
LEMMA ErrorResultTyped ==
    ASSUME nodePool \in NodePools, NEW z \in ZoneNames \cup {None}
    PROVE IsRunResult(errorRunResult(z))
    BY DEF IsRunResult, errorRunResult

\* and so is what is computed from any part of the bound pods.
LEMMA RunResultTyped ==
    ASSUME TypeOK, nodePool \in NodePools, zone \in ZoneNames,
           NEW seen \in SUBSET {v \in DeployedPods : v.at # None}
    PROVE IsRunResult(computeRunResult(seen))
<1>1. getUpdatedPods(seen) \subseteq Placement
    BY DEF TypeOK, getUpdatedPods, DeployedPods, ClusterPod, Placement
<1>2. NodePool[nodePool].capacity \in Nat
    BY NodePoolAssumption
<1> QED
    BY <1>1, <1>2 DEF IsRunResult, computeRunResult

\* The pods of a winner are written to the base nodes of their names.
LEMMA BoundTyped ==
    ASSUME TypeOK, IsRunResult(runResult)
    PROVE \A v \in BoundInBase(Placed(runResult)) : v \in ClusterPod /\ v.at \in ClusterNode
<1> SUFFICES ASSUME NEW q \in Placed(runResult)
             PROVE /\ Base(q.at.name) \in ClusterNode
                   /\ [pod |-> q.pod, ref |-> None, at |-> Base(q.at.name)] \in ClusterPod
    BY DEF BoundInBase
<1>1. q.pod \in Pods /\ q.at \in ClusterNode
    BY DEF Placed, IsRunResult, Placement
<1>2. Base(q.at.name) \in ClusterNode
    BY <1>1, NamesTyped DEF ClusterNode
<1> QED
    BY <1>1, <1>2 DEF ClusterPod

\* The winner is one of the results.
LEMMA WinnerIsResult ==
    ASSUME NEW S, NEW r \in Winners({q \in S : HasWinner(q)})
    PROVE r \in S
    BY DEF Winners, HighestScore

\* The scheduler changes nothing but the pods: a pod gets a node, or goes.
LEMMA SchedulerTyped ==
    ASSUME TypeInv, Scheduler
    PROVE TypeInv'
<1>1. PICK v \in pods, n \in nodes :
          Schedule(v, n) \/ \E victim \in PodsAt(n) : Preempt(v, n, victim)
    BY DEF Scheduler
<1>2. UNCHANGED <<state, nodes, pc, runNumber, loops, runResult, resultCh,
                  recommendations, outcome>>
    BY <1>1 DEF Schedule, Preempt
<1>3. v \in ClusterPod /\ n \in ClusterNode
    BY DEF TypeInv, TypeOK
<1>4. \A w \in pods' : \/ w \in pods
                       \/ w = [v EXCEPT !.at = n]
    BY <1>1 DEF Schedule, Preempt
<1>5. [v EXCEPT !.at = n] \in ClusterPod /\ [v EXCEPT !.at = n].at \in ClusterNode
    BY <1>3 DEF ClusterPod
<1>6. TypeOK'
    BY <1>2, <1>4, <1>5 DEF TypeInv, TypeOK, state, loops
<1>7. ControlOK'
    BY <1>2, <1>4, <1>5 DEF TypeInv, ControlOK, loops, WinnerPods, Placed
<1> QED
    BY <1>6, <1>7 DEF TypeInv

\* Deleting leaves objects of the same type,
LEMMA DeletesTyped ==
    ASSUME TypeOK, NEW ns, NEW vs, Deletes(ns, vs)
    PROVE nodes' \subseteq ClusterNode /\ pods' \subseteq ClusterPod
    BY DEF Deletes, TypeOK

\* as does creating, even when it stops half way.
LEMMA CreatesSomeTyped ==
    ASSUME TypeOK, NEW ns \in SUBSET ClusterNode, NEW vs \in SUBSET ClusterPod,
           CreatesSome(ns, vs)
    PROVE nodes' \subseteq ClusterNode /\ pods' \subseteq ClusterPod
    BY DEF CreatesSome, TypeOK

\* Every step of the recommender keeps the types: one step per action.
LEMMA RecommenderTyped ==
    ASSUME TypeInv, Recommender
    PROVE TypeInv'
<1> USE DEF TypeInv, Location, Simulating, Syncing
<1>1. CASE initializeVirtualCluster
    <2>1. nodes' \subseteq ClusterNode /\ pods' \subseteq ClusterPod
        BY <1>1, InitialClusterTyped, CreatesSomeTyped DEF initializeVirtualCluster
    <2>2. TypeOK'
        BY <1>1, <2>1 DEF initializeVirtualCluster, TypeOK, Return, state, loops
    <2>3. ControlOK'
        BY <1>1 DEF initializeVirtualCluster, ControlOK, Return
    <2> QED
        BY <2>2, <2>3
<1>2. CASE AllPodsScheduled
    <2>1. TypeOK'
        BY <1>2 DEF AllPodsScheduled, TypeOK, Return, state, cluster, loops
    <2>2. ControlOK'
        BY <1>2 DEF AllPodsScheduled, ControlOK, Return
    <2> QED
        BY <2>1, <2>2
<1>3. CASE StartRun
    <2>1. TypeOK'
        BY <1>3 DEF StartRun, TypeOK, state, cluster
    <2>2. ControlOK'
        BY <1>3 DEF StartRun, ControlOK
    <2> QED
        BY <2>1, <2>2
<1>4. CASE \E np \in poolsToSimulate : NextPool(np)
    <2>1. PICK np \in poolsToSimulate : NextPool(np)
        BY <1>4
    <2>2. np \in NodePools /\ NodePool[np].zones \subseteq ZoneNames
        BY NodePoolAssumption DEF TypeOK
    <2>3. TypeOK'
        BY <2>1, <2>2 DEF NextPool, TypeOK, state, cluster
    <2>4. ControlOK'
        BY <2>1, <2>2 DEF NextPool, ControlOK
    <2> QED
        BY <2>3, <2>4
<1>5. CASE setupSimulationRun
    <2>1. nodePool \in NodePools
        BY <1>5 DEF setupSimulationRun, ControlOK
    <2>2. nodes' \subseteq ClusterNode /\ pods' \subseteq ClusterPod
        BY <1>5, <2>1, ClonesTyped, CreatesSomeTyped DEF setupSimulationRun, TypeOK
    <2>3. {q.pod : q \in scheduledPods} \subseteq Pods
        BY DEF TypeOK
    <2>4. IsRunResult(errorRunResult(None))
        BY <2>1, ErrorResultTyped
    <2>5. TypeOK'
        BY <1>5, <2>2, <2>3, <2>4 DEF setupSimulationRun, Fails, TypeOK, state
    <2>6. ControlOK'
        BY <1>5, <2>1, <2>4 DEF setupSimulationRun, Fails, ControlOK
    <2> QED
        BY <2>5, <2>6
<1>6. CASE \E z \in zonesToSimulate : CreateScaledNode(z)
    <2>1. PICK z \in zonesToSimulate : CreateScaledNode(z)
        BY <1>6
    <2>2. z \in ZoneNames /\ nodePool \in NodePools
        BY <2>1 DEF CreateScaledNode, TypeOK, ControlOK
    <2>3. Clone(scaledNode(z)) \in ClusterNode
        BY <2>2, NamesTyped, NodeNamesArePlaces
    <2>4. IsRunResult(errorRunResult(z))
        BY <2>2, ErrorResultTyped
    <2>5. TypeOK'
        BY <2>1, <2>2, <2>3, <2>4 DEF CreateScaledNode, Fails, TypeOK, state
    <2>6. ControlOK'
        BY <2>1, <2>2, <2>4 DEF CreateScaledNode, Fails, ControlOK
    <2> QED
        BY <2>5, <2>6
<1>7. CASE createAndDeployUnscheduledPods
    <2>1. nodePool \in NodePools /\ zone \in ZoneNames
        BY <1>7 DEF createAndDeployUnscheduledPods, ControlOK
    <2>2. nodes' \subseteq ClusterNode /\ pods' \subseteq ClusterPod
        BY <1>7, <2>1, NewPodsTyped DEF createAndDeployUnscheduledPods, TypeOK
    <2>3. IsRunResult(errorRunResult(zone))
        BY <2>1, ErrorResultTyped
    <2>4. TypeOK'
        BY <1>7, <2>2, <2>3 DEF createAndDeployUnscheduledPods, Fails, TypeOK, state
    <2>5. ControlOK'
        BY <1>7, <2>1, <2>3 DEF createAndDeployUnscheduledPods, Fails, ControlOK
    <2> QED
        BY <2>4, <2>5
<1>8. CASE CollectSchedulingEvents
    <2>1. nodePool \in NodePools /\ zone \in ZoneNames
        BY <1>8 DEF CollectSchedulingEvents, ControlOK
    <2>2. nodes' \subseteq ClusterNode /\ pods' \subseteq ClusterPod
        BY <1>8, DeletesTyped DEF CollectSchedulingEvents
    <2>3. IsRunResult(runResult')
        BY <1>8, <2>1, RunResultTyped, ErrorResultTyped DEF CollectSchedulingEvents, Fails
    <2>4. TypeOK'
        BY <1>8, <2>2, <2>3 DEF CollectSchedulingEvents, Fails, TypeOK, state
    <2>5. ControlOK'
        BY <1>8, <2>1, <2>3 DEF CollectSchedulingEvents, Fails, ControlOK
    <2> QED
        BY <2>4, <2>5
<1>9. CASE SendResult
    <2>1. TypeOK'
        BY <1>9 DEF SendResult, TypeOK, ControlOK, state, cluster, loops
    <2>2. ControlOK'
        BY <1>9 DEF SendResult, ControlOK, loops
    <2> QED
        BY <2>1, <2>2
<1>10. CASE cleanUpNodePoolSimRun
    <2>1. nodes' \subseteq ClusterNode /\ pods' \subseteq ClusterPod
        BY <1>10, DeletesTyped DEF cleanUpNodePoolSimRun
    <2>2. TypeOK'
        BY <1>10, <2>1 DEF cleanUpNodePoolSimRun, TypeOK, state
    <2>3. ControlOK'
        BY <1>10 DEF cleanUpNodePoolSimRun, ControlOK
    <2> QED
        BY <2>2, <2>3
<1>11. CASE EndWithoutWinner
    <2>1. TypeOK'
        BY <1>11 DEF EndWithoutWinner, TypeOK, Return, state, cluster, loops
    <2>2. ControlOK'
        BY <1>11 DEF EndWithoutWinner, ControlOK, Return
    <2> QED
        BY <2>1, <2>2
<1>12. CASE getWinningRunResult
    <2>1. runResult' \in resultCh
        BY <1>12, WinnerIsResult DEF getWinningRunResult
    <2>2. IsRunResult(runResult') /\ runResult'.err = FALSE
        BY <1>12, <2>1 DEF getWinningRunResult, TypeOK, IsRunResult
    <2>3. TypeOK'
        BY <1>12, <2>2 DEF getWinningRunResult, TypeOK, state, cluster, loops
    <2>4. ControlOK'
        BY <1>12, <2>2 DEF getWinningRunResult, ControlOK
    <2> QED
        BY <2>3, <2>4
<1>13. CASE SyncPods
    <2>1. IsRunResult(runResult)
        BY <1>13 DEF SyncPods, ControlOK
    <2>2. \A v \in BoundInBase(Placed(runResult)) : v \in ClusterPod /\ v.at \in ClusterNode
        BY <2>1, BoundTyped
    <2>3. TypeOK'
        BY <1>13, <2>2 DEF SyncPods, TypeOK, Return, state, loops
    <2>4. ASSUME pc' = "syncNode", NEW v \in pods', v.ref = None, v.pod \in WinnerPods
          PROVE v \in BoundInBase(Placed(runResult))
        <3>1. PICK q \in Placed(runResult) : q.pod = v.pod
            BY <2>4 DEF WinnerPods
        <3> DEFINE b == [pod |-> q.pod, ref |-> None, at |-> Base(q.at.name)]
        <3>2. b \in BoundInBase(Placed(runResult)) /\ b.pod = v.pod /\ b.ref = None
            BY <3>1 DEF BoundInBase
        <3>3. ~NameTaken(b)
            BY <1>13, <2>4, <3>2 DEF SyncPods, Return
        <3> QED
            BY <1>13, <2>4, <3>2, <3>3 DEF SyncPods, Return, NameTaken
    <2>5. ControlOK'
        BY <1>13, <2>1, <2>2, <2>4 DEF SyncPods, ControlOK, Return, WinnerPods, Placed
    <2> QED
        BY <2>3, <2>5
<1>14. CASE SyncNode
    <2>1. winnerNode \in NodeName
        BY <1>14 DEF SyncNode, ControlOK, IsRunResult, TypeOK, winnerNode, NodeName, ScaledNode
    <2>2. Base(winnerNode) \in ClusterNode
        BY <2>1, NamesTyped, NodeNamesArePlaces
    <2>3. TypeOK'
        BY <1>14, <2>2 DEF SyncNode, TypeOK, Return, state, loops
    <2>4. ControlOK'
        BY <1>14 DEF SyncNode, ControlOK, Return, WinnerPods, Placed
    <2> QED
        BY <2>3, <2>4
<1>15. CASE syncRecommenderStateWithWinningResult
    <2> DEFINE found == {v \in pods : v.ref = None /\ v.pod \in WinnerPods}
    <2>1. winnerNode \in ScaledNode
        BY <1>15 DEF syncRecommenderStateWithWinningResult, ControlOK, IsRunResult, TypeOK,
                     winnerNode, ScaledNode
    <2>2. \A v \in found : v.pod \in Pods /\ v.at.name \in PlaceName \cup {None}
        BY <1>15 DEF syncRecommenderStateWithWinningResult, ControlOK, TypeOK, ClusterPod,
                     ClusterNode
    <2>3. LET e == updateEligibleNodePools(eligibleNodePools, runResult.pool) IN
          DOMAIN e \subseteq NodePools /\ e \in [DOMAIN e -> Nat]
        BY DEF updateEligibleNodePools, TypeOK
    <2>4. TypeOK'
        BY <1>15, <2>1, <2>2, <2>3
           DEF syncRecommenderStateWithWinningResult, StillUnscheduled, WinnerPods, TypeOK,
               Return, cluster, loops, NodeName
    <2>5. ControlOK'
        BY <1>15 DEF syncRecommenderStateWithWinningResult, ControlOK, Return
    <2> QED
        BY <2>4, <2>5
<1> QED
    BY <1>1, <1>2, <1>3, <1>4, <1>5, <1>6, <1>7, <1>8, <1>9, <1>10, <1>11, <1>12,
       <1>13, <1>14, <1>15 DEF Recommender

\* Steps of nobody change no type.
LEMMA StutterTyped ==
    ASSUME TypeInv, UNCHANGED vars
    PROVE TypeInv'
    BY DEF TypeInv, TypeOK, ControlOK, vars, state, cluster, loops, WinnerPods, Placed,
           IsRunResult

\* The lists of Run, its result and the virtual cluster always have their types,
\* for every request: in particular every name that leaves Run is a name of the
\* request or of a recommended node, free of any run reference.
THEOREM TypeCorrect == Spec => []TypeOK
<1>1. TypeInv /\ [Next]_vars => TypeInv'
    BY RecommenderTyped, SchedulerTyped, StutterTyped DEF Next, Terminated
<1>2. TypeInv => TypeOK
    BY DEF TypeInv
<1> QED
    BY InitTypeInv, <1>1, <1>2, PTL DEF Spec

-----------------------------------------------------------------------------
(* Node pools stay within their maximum *)

\* Every pool in the loops of a run is still eligible, and the node that a run
\* adds is a new one: its run number is larger than those recommended before.
InRun == {"pools"} \cup Simulating

EligibleInRun ==
    /\ poolsToSimulate \subseteq DOMAIN eligibleNodePools
    /\ pc \notin InRun => poolsToSimulate = {}
    /\ pc \in Simulating => nodePool \in DOMAIN eligibleNodePools
    /\ pc \in InRun => \A r \in resultCh : r.pool \in DOMAIN eligibleNodePools
    /\ pc \in {"send"} \cup Syncing => runResult.pool \in DOMAIN eligibleNodePools

EarlierRuns ==
    /\ IsFiniteSet(recommendations)
    /\ \A n \in recommendations : n.run <= runNumber
    /\ pc \in InRun \cup Syncing => \A n \in recommendations : n.run < runNumber

PoolInv == EligibleInRun /\ EarlierRuns /\ EligibleIffRoomLeft /\ PoolWithinMax

\* Before Run a pool is eligible exactly when its Current is below its maximum.
LEMMA InitPoolInv == Init => PoolInv
<1> SUFFICES ASSUME Init PROVE PoolInv
    OBVIOUS
<1>1. \A np \in NodePools : RecommendedFor(np) = {} /\ NodeCount(np) = NodePool[np].current
    BY FS_EmptySet, NodePoolAssumption DEF Init, RecommendedFor, NodeCount
<1>2. EligibleIffRoomLeft /\ PoolWithinMax
    BY <1>1 DEF Init, EligibleIffRoomLeft, PoolWithinMax, EligibleInRequest
<1>3. EligibleInRun /\ EarlierRuns
    BY FS_EmptySet DEF Init, EligibleInRun, EarlierRuns, InRun, Simulating, Syncing
<1> QED
    BY <1>2, <1>3 DEF PoolInv

\* Counting is untouched by a step that leaves the recommendations alone.
LEMMA SameCounts ==
    ASSUME EligibleIffRoomLeft, PoolWithinMax, UNCHANGED <<recommendations, eligibleNodePools>>
    PROVE EligibleIffRoomLeft' /\ PoolWithinMax'
    BY DEF EligibleIffRoomLeft, PoolWithinMax, RecommendedFor, NodeCount

\* The step that adds a node: one more in the pool of the winner.
LEMMA OneMoreNode ==
    ASSUME TypeInv, PoolInv, pc = "syncState",
           recommendations' = recommendations \cup {winnerNode},
           eligibleNodePools' = updateEligibleNodePools(eligibleNodePools, runResult.pool)
    PROVE /\ IsFiniteSet(recommendations')
          /\ EligibleIffRoomLeft' /\ PoolWithinMax'
<1>0. PICK wp \in NodePools : wp = runResult.pool
    BY DEF PoolInv, EligibleInRun, Syncing, TypeInv, TypeOK
<1>1. wp \in DOMAIN eligibleNodePools
    BY <1>0 DEF PoolInv, EligibleInRun, Syncing
<1>2. winnerNode \notin recommendations /\ winnerNode.pool = wp
    BY <1>0 DEF PoolInv, EarlierRuns, Syncing, InRun, winnerNode, TypeInv, TypeOK
<1>3. IsFiniteSet(recommendations')
    BY FS_AddElement DEF PoolInv, EarlierRuns
<1>4. \A np \in NodePools : IsFiniteSet(RecommendedFor(np)) /\ Cardinality(RecommendedFor(np)) \in Nat
    <2>1. \A np \in NodePools : IsFiniteSet(RecommendedFor(np))
        BY FS_Subset DEF PoolInv, EarlierRuns, RecommendedFor
    <2> QED
        BY <2>1, FS_CardinalityType
<1>5. /\ RecommendedFor(wp)' = RecommendedFor(wp) \cup {winnerNode}
      /\ winnerNode \notin RecommendedFor(wp)
    BY <1>2 DEF RecommendedFor
<1>6. Cardinality(RecommendedFor(wp)') = Cardinality(RecommendedFor(wp)) + 1
    BY <1>1, <1>4, <1>5, FS_AddElement
<1>7. \A np \in NodePools \ {wp} : RecommendedFor(np)' = RecommendedFor(np)
    BY <1>2 DEF RecommendedFor
<1>8. /\ NodeCount(wp)' = NodeCount(wp) + 1
      /\ \A np \in NodePools \ {wp} : NodeCount(np)' = NodeCount(np)
    BY <1>1, <1>4, <1>6, <1>7, NodePoolAssumption DEF NodeCount
<1>9. \A np \in NodePools : NodeCount(np) \in Nat /\ NodePool[np].max \in Nat
    BY <1>4, NodePoolAssumption DEF NodeCount
<1>10. /\ DOMAIN eligibleNodePools = {np \in NodePools : NodeCount(np) < NodePool[np].max}
       /\ \A np \in DOMAIN eligibleNodePools : eligibleNodePools[np] = NodeCount(np)
    BY DEF PoolInv, EligibleIffRoomLeft
<1>11. PoolWithinMax'
    <2> SUFFICES ASSUME NEW np \in NodePools, RecommendedFor(np)' # {}
                 PROVE NodeCount(np)' <= NodePool[np].max
        BY DEF PoolWithinMax
    <2>1. CASE np = wp
        BY <2>1, <1>1, <1>8, <1>9, <1>10
    <2>2. CASE np # wp
        BY <2>2, <1>7, <1>8 DEF PoolInv, PoolWithinMax
    <2> QED
        BY <2>1, <2>2
<1>12. EligibleIffRoomLeft'
    <2>1. CASE NodeCount(wp) + 1 = NodePool[wp].max
        <3>1. eligibleNodePools' = [q \in DOMAIN eligibleNodePools \ {wp} |-> eligibleNodePools[q]]
            BY <2>1, <1>0, <1>1, <1>10 DEF updateEligibleNodePools
        <3> QED
            BY <2>1, <3>1, <1>8, <1>9, <1>10 DEF EligibleIffRoomLeft
    <2>2. CASE NodeCount(wp) + 1 # NodePool[wp].max
        <3>1. eligibleNodePools' = [eligibleNodePools EXCEPT ![wp] = @ + 1]
            BY <2>2, <1>0, <1>1, <1>10 DEF updateEligibleNodePools
        <3>2. DOMAIN eligibleNodePools' = DOMAIN eligibleNodePools
            BY <3>1
        <3>3. NodeCount(wp) + 1 < NodePool[wp].max
            BY <2>2, <1>1, <1>9, <1>10
        <3>4. \A np \in DOMAIN eligibleNodePools : eligibleNodePools'[np] = NodeCount(np)'
            BY <3>1, <1>1, <1>8, <1>10 DEF TypeInv, TypeOK
        <3>5. DOMAIN eligibleNodePools = {np \in NodePools : NodeCount(np)' < NodePool[np].max}
            BY <3>3, <1>1, <1>8, <1>10
        <3> QED
            BY <3>2, <3>4, <3>5 DEF EligibleIffRoomLeft
    <2> QED
        BY <2>1, <2>2
<1> QED
    BY <1>3, <1>11, <1>12

\* The steps that leave the recommendations and the eligible pools alone.
LEMMA PoolInvKept ==
    ASSUME TypeInv, PoolInv, [Next]_vars, ~syncRecommenderStateWithWinningResult
    PROVE PoolInv'
<1> USE DEF PoolInv, InRun, Simulating, Syncing
<1>1. UNCHANGED <<recommendations, eligibleNodePools>>
    BY DEF Next, Recommender, Scheduler, Terminated, vars, state, initializeVirtualCluster,
           AllPodsScheduled, StartRun, NextPool, setupSimulationRun, CreateScaledNode,
           createAndDeployUnscheduledPods, CollectSchedulingEvents, SendResult,
           cleanUpNodePoolSimRun, EndWithoutWinner, getWinningRunResult, SyncPods, SyncNode,
           Schedule, Preempt
<1>2. EligibleIffRoomLeft' /\ PoolWithinMax'
    BY <1>1, SameCounts
<1>3. (AllPodsScheduled \/ StartRun) => EarlierRuns'
    BY <1>1 DEF AllPodsScheduled, StartRun, Return, EarlierRuns, TypeInv, TypeOK, ScaledNode
<1>4. ASSUME ~(AllPodsScheduled \/ StartRun) PROVE EarlierRuns'
    <2>1. runNumber' = runNumber
        BY <1>4 DEF Next, Recommender, Scheduler, Terminated, vars, initializeVirtualCluster,
               NextPool, setupSimulationRun, CreateScaledNode, createAndDeployUnscheduledPods,
               CollectSchedulingEvents, SendResult, cleanUpNodePoolSimRun, EndWithoutWinner,
               getWinningRunResult, SyncPods, SyncNode, Schedule, Preempt
    <2>2. pc \notin InRun \cup Syncing => pc' \notin InRun \cup Syncing
        BY <1>4 DEF Next, Recommender, Scheduler, Terminated, vars, initializeVirtualCluster,
               NextPool, setupSimulationRun, CreateScaledNode, createAndDeployUnscheduledPods,
               CollectSchedulingEvents, SendResult, cleanUpNodePoolSimRun, EndWithoutWinner,
               getWinningRunResult, SyncPods, SyncNode, Schedule, Preempt, Return
    <2> QED
        BY <1>1, <2>1, <2>2 DEF EarlierRuns
<1>5. EarlierRuns'
    BY <1>3, <1>4
<1>6. EligibleInRun'
    <2> USE <1>1 DEF EligibleInRun
    <2>1. CASE initializeVirtualCluster
        BY <2>1 DEF initializeVirtualCluster, Return, loops
    <2>2. CASE AllPodsScheduled
        BY <2>2 DEF AllPodsScheduled, Return, loops
    <2>3. CASE StartRun
        BY <2>3 DEF StartRun
    <2>4. CASE \E np \in poolsToSimulate : NextPool(np)
        BY <2>4 DEF NextPool
    <2>5. CASE setupSimulationRun
        BY <2>5 DEF setupSimulationRun, Fails, errorRunResult
    <2>6. CASE \E z \in zonesToSimulate : CreateScaledNode(z)
        BY <2>6 DEF CreateScaledNode, Fails, errorRunResult
    <2>7. CASE createAndDeployUnscheduledPods
        BY <2>7 DEF createAndDeployUnscheduledPods, Fails, errorRunResult
    <2>8. CASE CollectSchedulingEvents
        <3>1. errorRunResult(zone).pool = nodePool
            BY DEF errorRunResult
        <3>2. \A seen : computeRunResult(seen).pool = nodePool
            BY DEF computeRunResult
        <3> QED
            BY <2>8, <3>1, <3>2 DEF CollectSchedulingEvents, Fails
    <2>9. CASE SendResult
        BY <2>9 DEF SendResult, loops
    <2>10. CASE cleanUpNodePoolSimRun
        BY <2>10 DEF cleanUpNodePoolSimRun
    <2>11. CASE EndWithoutWinner
        BY <2>11 DEF EndWithoutWinner, Return, loops
    <2>12. CASE getWinningRunResult
        <3>1. runResult' \in resultCh
            BY <2>12, WinnerIsResult DEF getWinningRunResult
        <3> QED
            BY <2>12, <3>1 DEF getWinningRunResult, loops
    <2>13. CASE SyncPods
        BY <2>13 DEF SyncPods, Return, loops
    <2>14. CASE SyncNode
        BY <2>14 DEF SyncNode, Return, loops
    <2>15. CASE Scheduler
        BY <2>15 DEF Scheduler, Schedule, Preempt, loops
    <2>16. CASE UNCHANGED vars
        BY <2>16 DEF vars, loops
    <2> QED
        BY <2>1, <2>2, <2>3, <2>4, <2>5, <2>6, <2>7, <2>8, <2>9, <2>10, <2>11, <2>12,
           <2>13, <2>14, <2>15, <2>16 DEF Next, Recommender, Terminated
<1> QED
    BY <1>2, <1>5, <1>6

\* Only the synchronisation of a winner counts a node.
LEMMA PoolInvStep ==
    ASSUME TypeInv, PoolInv, [Next]_vars
    PROVE PoolInv'
<1>1. CASE ~syncRecommenderStateWithWinningResult
    BY <1>1, PoolInvKept
<1>2. CASE syncRecommenderStateWithWinningResult
    <2>1. CASE UNCHANGED recommendations
        <3>1. UNCHANGED eligibleNodePools /\ pc' = "done"
            <4>1. winnerNode \notin recommendations
                BY <1>2 DEF syncRecommenderStateWithWinningResult, PoolInv, EarlierRuns, Syncing,
                            winnerNode, TypeInv, TypeOK
            <4> QED
                BY <1>2, <2>1, <4>1 DEF syncRecommenderStateWithWinningResult, Return
        <3>2. EligibleIffRoomLeft' /\ PoolWithinMax'
            BY <2>1, <3>1, SameCounts DEF PoolInv
        <3>3. EligibleInRun' /\ EarlierRuns'
            BY <1>2, <2>1, <3>1 DEF syncRecommenderStateWithWinningResult, PoolInv, EligibleInRun,
                                    EarlierRuns, InRun, Simulating, Syncing, loops
        <3> QED
            BY <3>2, <3>3 DEF PoolInv
    <2>2. CASE ~UNCHANGED recommendations
        <3>1. /\ pc = "syncState" /\ pc' = "loop"
              /\ recommendations' = recommendations \cup {winnerNode}
              /\ eligibleNodePools' = updateEligibleNodePools(eligibleNodePools, runResult.pool)
              /\ runNumber' = runNumber /\ UNCHANGED loops
            BY <1>2, <2>2 DEF syncRecommenderStateWithWinningResult
        <3>2. IsFiniteSet(recommendations') /\ EligibleIffRoomLeft' /\ PoolWithinMax'
            BY <3>1, OneMoreNode
        <3>3. winnerNode.run = runNumber /\ runNumber \in Nat
            BY DEF winnerNode, TypeInv, TypeOK
        <3>4. EarlierRuns'
            BY <3>1, <3>2, <3>3 DEF PoolInv, EarlierRuns, InRun, Simulating, Syncing
        <3>5. EligibleInRun'
            BY <3>1 DEF PoolInv, EligibleInRun, InRun, Simulating, Syncing, loops
        <3> QED
            BY <3>2, <3>4, <3>5 DEF PoolInv
    <2> QED
        BY <2>1, <2>2
<1> QED
    BY <1>1, <1>2

\* The invariants about pools hold in every state.
LEMMA PoolInvariant == Spec => [](TypeInv /\ PoolInv)
<1>1. TypeInv /\ [Next]_vars => TypeInv'
    BY RecommenderTyped, SchedulerTyped, StutterTyped DEF Next, Terminated
<1>2. TypeInv /\ PoolInv /\ [Next]_vars => PoolInv'
    BY PoolInvStep
<1> QED
    BY InitTypeInv, InitPoolInv, <1>1, <1>2, PTL DEF Spec

\* No request makes Run recommend more nodes for a pool than its maximum allows.
THEOREM PoolsWithinMax == Spec => []PoolWithinMax
<1>1. PoolInv => PoolWithinMax
    BY DEF PoolInv
<1> QED
    BY PoolInvariant, <1>1, PTL

\* A pool is simulated as long as it has room and no longer, and the number that
\* eligibleNodePools keeps for it is its size including the recommended nodes.
THEOREM EligiblePoolsHaveRoom == Spec => []EligibleIffRoomLeft
<1>1. PoolInv => EligibleIffRoomLeft
    BY DEF PoolInv
<1> QED
    BY PoolInvariant, <1>1, PTL

-----------------------------------------------------------------------------
(* Every pod is either scheduled or not *)

\* Names are unique in the virtual cluster, run references are drawn fresh, and
\* a result gives each unscheduled pod one place: what makes it safe to delete
\* pods from the unscheduled ones by name.
UniqueNames == \A v, w \in pods : v.pod = w.pod /\ v.ref = w.ref => v = w

FreshReferences ==
    /\ pc = "initialize" => pods = {}
    /\ pc \in Simulating => nodePool \notin poolsToSimulate
    /\ \A v \in pods :
          \/ v.ref = None
          \/ v.ref.run < runNumber
          \/ /\ v.ref.run = runNumber /\ v.ref.pool \notin poolsToSimulate
             /\ pc = "setup" => v.ref.pool # nodePool

PlacesUnscheduled(r) ==
    /\ \A q \in r.pods : q.pod \in unscheduledPods
    /\ \A q1, q2 \in r.pods : q1.pod = q2.pod => q1 = q2

ResultsPlaceUnscheduled ==
    /\ pc \in InRun => \A r \in resultCh : PlacesUnscheduled(r)
    /\ pc \in {"send"} \cup Syncing => PlacesUnscheduled(runResult)

PodInv == UniqueNames /\ FreshReferences /\ ResultsPlaceUnscheduled /\ PodsPartitioned

\* The lists of the request have every pod once.
LEMMA InitPodInv == Init => PodInv
<1> SUFFICES ASSUME Init PROVE PodInv
    OBVIOUS
<1>1. PodsPartitioned
    <2>1. \A q \in ScheduledInRequest :
              q.pod \in Pods \ UnscheduledInRequest /\ q = [pod |-> q.pod, at |-> PodInfo[q.pod].node]
        BY DEF ScheduledInRequest
    <2>2. ASSUME NEW p \in Pods \ UnscheduledInRequest
          PROVE \E q \in ScheduledInRequest : q.pod = p
        <3> DEFINE q == [pod |-> p, at |-> PodInfo[p].node]
        <3>1. q \in ScheduledInRequest /\ q.pod = p
            BY DEF ScheduledInRequest
        <3> QED
            BY <3>1
    <2>3. \A q, r \in ScheduledInRequest : q.pod = r.pod => q = r
        BY <2>1
    <2> QED
        BY <2>1, <2>2, <2>3 DEF Init, PodsPartitioned
<1>2. UniqueNames /\ FreshReferences /\ ResultsPlaceUnscheduled
    BY DEF Init, UniqueNames, FreshReferences, ResultsPlaceUnscheduled, InRun, Simulating, Syncing
<1> QED
    BY <1>1, <1>2 DEF PodInv

\* Adding pods whose names are new and differ from each other keeps names unique.
LEMMA AddingPods ==
    ASSUME UniqueNames, NEW new,
           \A v, w \in new : v.pod = w.pod /\ v.ref = w.ref => v = w,
           \A v \in new, w \in pods : ~(v.pod = w.pod /\ v.ref = w.ref),
           pods' \subseteq pods \cup new
    PROVE UniqueNames'
    BY DEF UniqueNames

\* Deleting cannot make a name ambiguous.
LEMMA DeletingPods ==
    ASSUME UniqueNames, pods' \subseteq pods
    PROVE UniqueNames'
    BY DEF UniqueNames

\* The names of the pods that a run creates.
LEMMA ClonesAreNew ==
    ASSUME TypeInv, PodInv, pc = "setup"
    PROVE /\ \A v, w \in ClonedScheduledPods : v.pod = w.pod /\ v.ref = w.ref => v = w
          /\ \A v \in ClonedScheduledPods, w \in pods : ~(v.pod = w.pod /\ v.ref = w.ref)
<1>1. \A v \in ClonedScheduledPods :
          v.ref = runRef /\ \E q \in scheduledPods : v = [pod |-> q.pod, ref |-> runRef, at |-> Clone(q.at)]
    BY DEF ClonedScheduledPods
<1>2. \A v, w \in ClonedScheduledPods : v.pod = w.pod => v = w
    BY <1>1 DEF PodInv, PodsPartitioned
<1>3. \A w \in pods : w.ref # runRef
    <2>1. nodePool \in NodePools /\ runNumber \in Nat
        BY DEF TypeInv, TypeOK, ControlOK, Simulating
    <2>2. runRef # None
        BY <2>1, ReferenceAssumption DEF runRef, RunRef
    <2> QED
        BY <2>1, <2>2 DEF PodInv, FreshReferences, runRef
<1> QED
    BY <1>1, <1>2, <1>3

\* A computed result places every unscheduled pod at most once.
LEMMA UpdatedPodsUnique ==
    ASSUME TypeInv, PodInv, pc = "events", NEW seen \in SUBSET {v \in DeployedPods : v.at # None}
    PROVE PlacesUnscheduled(computeRunResult(seen))
<1>1. \A v \in seen : v \in pods /\ v.ref = runRef /\ v.pod \in unscheduledPods
    BY DEF DeployedPods
<1>2. \A v, w \in seen : v.pod = w.pod => v = w
    BY <1>1 DEF PodInv, UniqueNames
<1>3. /\ \A q \in getUpdatedPods(seen) : q.pod \in unscheduledPods
      /\ \A q1, q2 \in getUpdatedPods(seen) : q1.pod = q2.pod => q1 = q2
    BY <1>1, <1>2 DEF getUpdatedPods
<1> QED
    BY <1>3 DEF PlacesUnscheduled, computeRunResult

\* The pods: one step per action that touches them or the results.
LEMMA UniqueNamesStep ==
    ASSUME TypeInv, PodInv, [Next]_vars
    PROVE UniqueNames'
<1> USE DEF PodInv
<1>1. CASE initializeVirtualCluster
    <2>1. \A v \in InitialCluster.pods : v.ref = None /\ \E q \in scheduledPods :
              v = [pod |-> q.pod, ref |-> None, at |-> IF q.at = None THEN None ELSE Base(q.at)]
        BY DEF InitialCluster
    <2>2. \A v, w \in InitialCluster.pods : v.pod = w.pod => v = w
        BY <2>1 DEF PodsPartitioned
    <2>3. pods = {} /\ pods' \subseteq pods \cup InitialCluster.pods
        BY <1>1 DEF initializeVirtualCluster, CreatesSome, FreshReferences
    <2> QED
        BY <2>2, <2>3, AddingPods
<1>2. CASE setupSimulationRun
    <2>1. pc = "setup" /\ pods' \subseteq pods \cup ClonedScheduledPods
        BY <1>2 DEF setupSimulationRun, CreatesSome
    <2> QED
        BY <2>1, ClonesAreNew, AddingPods
<1>3. CASE createAndDeployUnscheduledPods
    <2> DEFINE new == {v \in NewPods : ~NameTaken(v)}
    <2>1. pods' \subseteq pods \cup new
        BY <1>3 DEF createAndDeployUnscheduledPods
    <2>2. \A v, w \in new : v.pod = w.pod /\ v.ref = w.ref => v = w
        BY DEF NewPods
    <2>3. \A v \in new, w \in pods : ~(v.pod = w.pod /\ v.ref = w.ref)
        BY DEF NameTaken
    <2> QED
        BY <2>1, <2>2, <2>3, AddingPods
<1>4. CASE SyncPods
    <2> DEFINE new == {v \in BoundInBase(Placed(runResult)) : ~NameTaken(v)}
    <2>1. pc = "syncPods" /\ pods' \subseteq pods \cup new
        BY <1>4 DEF SyncPods
    <2>2. \A q1, q2 \in Placed(runResult) : q1.pod = q2.pod => q1 = q2
        BY <2>1 DEF ResultsPlaceUnscheduled, Syncing, PlacesUnscheduled, Placed
    <2>3. \A v, w \in new : v.pod = w.pod /\ v.ref = w.ref => v = w
        BY <2>2 DEF BoundInBase
    <2>4. \A v \in new, w \in pods : ~(v.pod = w.pod /\ v.ref = w.ref)
        BY DEF NameTaken
    <2> QED
        BY <2>1, <2>3, <2>4, AddingPods
<1>5. CASE Scheduler
    <2>1. PICK v \in pods, n \in nodes :
              Schedule(v, n) \/ \E victim \in PodsAt(n) : Preempt(v, n, victim)
        BY <1>5 DEF Scheduler
    <2>2. CASE Schedule(v, n)
        <3>1. PICK u : u = [v EXCEPT !.at = n]
            OBVIOUS
        <3>2. u.pod = v.pod /\ u.ref = v.ref
            BY <3>1 DEF TypeInv, TypeOK, ClusterPod
        <3>3. pods' = (pods \ {v}) \cup {u}
            BY <2>2, <3>1 DEF Schedule
        <3> QED
            BY <3>2, <3>3 DEF UniqueNames
    <2>3. CASE \E victim \in PodsAt(n) : Preempt(v, n, victim)
        BY <2>3, DeletingPods DEF Preempt
    <2> QED
        BY <2>1, <2>2, <2>3
<1>6. CASE CollectSchedulingEvents \/ cleanUpNodePoolSimRun
    BY <1>6, DeletingPods DEF CollectSchedulingEvents, cleanUpNodePoolSimRun, Deletes
<1>7. CASE UNCHANGED pods
    BY <1>7, DeletingPods
<1>8. \/ UNCHANGED pods
      \/ initializeVirtualCluster \/ setupSimulationRun \/ createAndDeployUnscheduledPods
      \/ SyncPods \/ Scheduler \/ CollectSchedulingEvents \/ cleanUpNodePoolSimRun
    BY DEF Next, Recommender, Terminated, vars, cluster, AllPodsScheduled, StartRun, NextPool,
           CreateScaledNode, SendResult, EndWithoutWinner, getWinningRunResult, SyncNode,
           syncRecommenderStateWithWinningResult
<1> QED
    BY <1>1, <1>2, <1>3, <1>4, <1>5, <1>6, <1>7, <1>8

\* The references of the pods that exist after a step were there before it, or
\* are none, or are the reference of the simulation that is running.
LEMMA ReferencesKept ==
    ASSUME TypeInv, [Next]_vars
    PROVE \A v \in pods' :
              \/ v.ref = None
              \/ (setupSimulationRun \/ createAndDeployUnscheduledPods) /\ v.ref = runRef
              \/ \E w \in pods : w.ref = v.ref
<1>1. CASE initializeVirtualCluster
    BY <1>1 DEF initializeVirtualCluster, InitialCluster, CreatesSome
<1>2. CASE setupSimulationRun
    BY <1>2 DEF setupSimulationRun, ClonedScheduledPods, CreatesSome
<1>3. CASE createAndDeployUnscheduledPods
    BY <1>3 DEF createAndDeployUnscheduledPods, NewPods
<1>4. CASE SyncPods
    BY <1>4 DEF SyncPods, BoundInBase
<1>5. CASE Scheduler
    <2>1. PICK v \in pods, n \in nodes :
              Schedule(v, n) \/ \E victim \in PodsAt(n) : Preempt(v, n, victim)
        BY <1>5 DEF Scheduler
    <2>2. [v EXCEPT !.at = n].ref = v.ref
        BY DEF TypeInv, TypeOK, ClusterPod
    <2> QED
        BY <2>1, <2>2 DEF Schedule, Preempt
<1>6. CASE CollectSchedulingEvents \/ cleanUpNodePoolSimRun
    BY <1>6 DEF CollectSchedulingEvents, cleanUpNodePoolSimRun, Deletes
<1>7. CASE UNCHANGED pods
    BY <1>7
<1>8. \/ UNCHANGED pods
      \/ initializeVirtualCluster \/ setupSimulationRun \/ createAndDeployUnscheduledPods
      \/ SyncPods \/ Scheduler \/ CollectSchedulingEvents \/ cleanUpNodePoolSimRun
    BY DEF Next, Recommender, Terminated, vars, cluster, AllPodsScheduled, StartRun, NextPool,
           CreateScaledNode, SendResult, EndWithoutWinner, getWinningRunResult, SyncNode,
           syncRecommenderStateWithWinningResult
<1> QED
    BY <1>1, <1>2, <1>3, <1>4, <1>5, <1>6, <1>7, <1>8

\* The reference of a pool is used from its setup on and never again in a later run.
LEMMA FreshReferencesStep ==
    ASSUME TypeInv, PodInv, [Next]_vars
    PROVE FreshReferences'
<1> USE DEF PodInv, FreshReferences
<1>1. (pc = "initialize" => pods = {})'
    BY DEF Next, Recommender, Scheduler, Terminated, vars, cluster,
           initializeVirtualCluster, AllPodsScheduled, StartRun, NextPool,
           setupSimulationRun, CreateScaledNode, createAndDeployUnscheduledPods,
           CollectSchedulingEvents, SendResult, cleanUpNodePoolSimRun, EndWithoutWinner,
           getWinningRunResult, SyncPods, SyncNode, syncRecommenderStateWithWinningResult,
           Schedule, Preempt, Return, Fails
<1>2. (pc \in Simulating => nodePool \notin poolsToSimulate)'
    <2>1. CASE \E np \in poolsToSimulate : NextPool(np)
        BY <2>1 DEF NextPool
    <2>2. CASE ~\E np \in poolsToSimulate : NextPool(np)
        <3>1. \/ UNCHANGED <<nodePool, poolsToSimulate>> /\ (pc' \in Simulating => pc \in Simulating)
              \/ pc' \notin Simulating
            BY <2>2 DEF Next, Recommender, Scheduler, Terminated, vars, loops, Simulating,
               initializeVirtualCluster, AllPodsScheduled, StartRun,
               setupSimulationRun, CreateScaledNode, createAndDeployUnscheduledPods,
               CollectSchedulingEvents, SendResult, cleanUpNodePoolSimRun, EndWithoutWinner,
               getWinningRunResult, SyncPods, SyncNode, syncRecommenderStateWithWinningResult,
               Schedule, Preempt, Return, Fails
        <3> QED
            BY <3>1
    <2> QED
        BY <2>1, <2>2
<1> SUFFICES ASSUME NEW v \in pods', v.ref # None
             PROVE \/ v.ref.run < runNumber'
                   \/ /\ v.ref.run = runNumber' /\ v.ref.pool \notin poolsToSimulate'
                      /\ pc' = "setup" => v.ref.pool # nodePool'
    BY <1>1, <1>2
<1>3. \/ (setupSimulationRun \/ createAndDeployUnscheduledPods) /\ v.ref = runRef
      \/ \E w \in pods : w.ref = v.ref
    BY ReferencesKept
<1>4. v.ref.run \in Nat /\ runNumber \in Nat
    <2>1. TypeInv'
        BY RecommenderTyped, SchedulerTyped, StutterTyped DEF Next, Terminated
    <2>2. v.ref \in RunRef
        BY <2>1 DEF TypeInv, TypeOK, ClusterPod
    <2> QED
        BY <2>2 DEF RunRef, TypeInv, TypeOK
<1>5. CASE setupSimulationRun \/ createAndDeployUnscheduledPods
    <2>1. /\ runNumber' = runNumber /\ poolsToSimulate' = poolsToSimulate
          /\ pc \in {"setup", "deploy"} /\ pc' # "setup"
        BY <1>5 DEF setupSimulationRun, createAndDeployUnscheduledPods, Fails
    <2>2. CASE v.ref = runRef
        BY <2>1, <2>2 DEF runRef, Simulating
    <2>3. CASE \E w \in pods : w.ref = v.ref
        BY <2>1, <2>3
    <2> QED
        BY <1>3, <2>2, <2>3
<1>6. CASE AllPodsScheduled \/ StartRun
    <2>1. pc = "loop" /\ runNumber' = runNumber + 1
        BY <1>6 DEF AllPodsScheduled, StartRun
    <2>2. \E w \in pods : w.ref = v.ref
        BY <1>3, <2>1 DEF setupSimulationRun, createAndDeployUnscheduledPods
    <2>3. v.ref.run <= runNumber
        BY <1>4, <2>2
    <2> QED
        BY <2>1, <2>3, <1>4
<1>7. CASE \E np \in poolsToSimulate : NextPool(np)
    BY <1>3, <1>4, <1>7 DEF NextPool, setupSimulationRun, createAndDeployUnscheduledPods
<1>8. CASE ~(AllPodsScheduled \/ StartRun \/ \E np \in poolsToSimulate : NextPool(np))
           /\ ~(setupSimulationRun \/ createAndDeployUnscheduledPods)
    <2>1. /\ runNumber' = runNumber /\ poolsToSimulate' = poolsToSimulate
          /\ pc' = "setup" => pc = "setup" /\ nodePool' = nodePool
        BY <1>8 DEF Next, Recommender, Scheduler, Terminated, vars, loops,
               initializeVirtualCluster, CreateScaledNode,
               CollectSchedulingEvents, SendResult,
               cleanUpNodePoolSimRun, EndWithoutWinner, getWinningRunResult, SyncPods,
               SyncNode, syncRecommenderStateWithWinningResult, Schedule, Preempt, Return, Fails
    <2> QED
        BY <1>3, <1>8, <2>1
<1> QED
    BY <1>5, <1>6, <1>7, <1>8

\* The unscheduled pods change only when a winner has been taken over, and then no
\* result of the run is looked at again.
LEMMA ResultsPlaceUnscheduledStep ==
    ASSUME TypeInv, PodInv, [Next]_vars
    PROVE ResultsPlaceUnscheduled'
<1> USE DEF PodInv, ResultsPlaceUnscheduled, InRun, Simulating, Syncing
<1>1. CASE UNCHANGED unscheduledPods
    <2>1. \A z : PlacesUnscheduled(errorRunResult(z))
        BY DEF PlacesUnscheduled, errorRunResult
    <2>2. \A r : PlacesUnscheduled(r) => PlacesUnscheduled(r)'
        BY <1>1 DEF PlacesUnscheduled
    <2>3. CASE CollectSchedulingEvents
        <3>1. \/ \E seen \in SUBSET {v \in DeployedPods : v.at # None} :
                    runResult' = computeRunResult(seen)
              \/ runResult' = errorRunResult(zone)
            BY <2>3 DEF CollectSchedulingEvents, Fails
        <3>2. pc = "events" /\ pc' = "send" /\ resultCh' = resultCh
            BY <2>3 DEF CollectSchedulingEvents, Fails
        <3>3. PlacesUnscheduled(runResult')
            BY <2>1, <3>1, <3>2, UpdatedPodsUnique
        <3> QED
            BY <1>1, <3>2, <3>3 DEF PlacesUnscheduled
    <2>4. CASE setupSimulationRun \/ createAndDeployUnscheduledPods
               \/ \E z \in zonesToSimulate : CreateScaledNode(z)
        <3>1. /\ pc \in InRun /\ resultCh' = resultCh /\ pc' \in {"zones", "deploy", "events", "send"}
              /\ pc' = "send" => \E z : runResult' = errorRunResult(z)
            BY <2>4 DEF setupSimulationRun, createAndDeployUnscheduledPods, CreateScaledNode, Fails
        <3> QED
            BY <1>1, <2>1, <3>1 DEF PlacesUnscheduled
    <2>5. CASE SendResult
        <3>1. pc = "send" /\ pc' = "zones" /\ resultCh' = resultCh \cup {runResult}
            BY <2>5 DEF SendResult
        <3> QED
            BY <1>1, <3>1 DEF PlacesUnscheduled
    <2>6. CASE getWinningRunResult
        <3>1. pc = "pools" /\ pc' = "syncPods" /\ runResult' \in resultCh
            BY <2>6 DEF getWinningRunResult, Winners, HighestScore
        <3> QED
            BY <1>1, <3>1 DEF PlacesUnscheduled
    <2>7. CASE /\ resultCh' \in {resultCh, {}} /\ runResult' = runResult
               /\ pc' \in {"send"} \cup Syncing => pc \in {"send"} \cup Syncing
               /\ resultCh' # {} /\ pc' \in InRun => pc \in InRun
        BY <1>1, <2>7 DEF PlacesUnscheduled
    <2> QED
        BY <1>1, <2>3, <2>4, <2>5, <2>6, <2>7
        DEF Next, Recommender, Scheduler, Terminated, vars, initializeVirtualCluster,
            AllPodsScheduled, StartRun, NextPool, cleanUpNodePoolSimRun, EndWithoutWinner,
            SyncPods, SyncNode, syncRecommenderStateWithWinningResult, Schedule, Preempt, Return
<1>2. CASE ~UNCHANGED unscheduledPods
    <2>1. pc' = "loop"
        BY <1>2 DEF Next, Recommender, Scheduler, Terminated, vars, state,
            initializeVirtualCluster, AllPodsScheduled, StartRun, NextPool,
            setupSimulationRun, CreateScaledNode, createAndDeployUnscheduledPods,
            CollectSchedulingEvents, SendResult, cleanUpNodePoolSimRun, EndWithoutWinner,
            getWinningRunResult, SyncPods, SyncNode, syncRecommenderStateWithWinningResult,
            Schedule, Preempt
    <2> QED
        BY <2>1
<1> QED
    BY <1>1, <1>2

\* Pods move from the unscheduled to the scheduled list, one place each.
LEMMA PodsPartitionedStep ==
    ASSUME TypeInv, PodInv, [Next]_vars
    PROVE PodsPartitioned'
<1> USE DEF PodInv
<1>1. CASE UNCHANGED <<unscheduledPods, scheduledPods>>
    BY <1>1 DEF PodsPartitioned
<1>2. CASE ~UNCHANGED <<unscheduledPods, scheduledPods>>
    <2> DEFINE names == {q.pod : q \in Placed(runResult)}
               found == {v \in pods : v.ref = None /\ v.pod \in names}
    <2>1. /\ pc = "syncState"
          /\ scheduledPods' = scheduledPods \cup {[pod |-> v.pod, at |-> v.at.name] : v \in found}
          /\ unscheduledPods' = unscheduledPods \ {v.pod : v \in found}
        BY <1>2 DEF Next, Recommender, Scheduler, Terminated, vars, state,
            initializeVirtualCluster, AllPodsScheduled, StartRun, NextPool,
            setupSimulationRun, CreateScaledNode, createAndDeployUnscheduledPods,
            CollectSchedulingEvents, SendResult, cleanUpNodePoolSimRun, EndWithoutWinner,
            getWinningRunResult, SyncPods, SyncNode, syncRecommenderStateWithWinningResult,
            StillUnscheduled, Schedule, Preempt
    <2>2. \A v \in found : v.pod \in unscheduledPods
        BY <2>1 DEF ResultsPlaceUnscheduled, Syncing, PlacesUnscheduled, Placed
    <2>3. \A v, w \in found : v.pod = w.pod => v = w
        BY DEF UniqueNames
    <2>4. unscheduledPods \subseteq Pods
        BY DEF TypeInv, TypeOK
    <2> DEFINE moved == {[pod |-> v.pod, at |-> v.at.name] : v \in found}
    <2>5. /\ \A q \in moved : q.pod \in unscheduledPods \ unscheduledPods'
          /\ \A q, r \in moved : q.pod = r.pod => q = r
        BY <2>1, <2>2, <2>3
    <2>6. \A p \in unscheduledPods \ unscheduledPods' : \E q \in moved : q.pod = p
        <3> TAKE p \in unscheduledPods \ unscheduledPods'
        <3>1. PICK v \in found : v.pod = p
            BY <2>1
        <3> DEFINE q == [pod |-> v.pod, at |-> v.at.name]
        <3>2. q \in moved /\ q.pod = p
            BY <3>1
        <3> QED
            BY <3>2
    <2>7. scheduledPods' = scheduledPods \cup moved /\ unscheduledPods' \subseteq unscheduledPods
        BY <2>1
    <2> HIDE DEF moved, found, names
    <2> QED
        BY <2>4, <2>5, <2>6, <2>7 DEF PodsPartitioned
<1> QED
    BY <1>1, <1>2

\* The invariants about pods hold in every state.
LEMMA PodInvariant == Spec => [](TypeInv /\ PodInv)
<1>1. TypeInv /\ [Next]_vars => TypeInv'
    BY RecommenderTyped, SchedulerTyped, StutterTyped DEF Next, Terminated
<1>2. TypeInv /\ PodInv /\ [Next]_vars => PodInv'
    BY UniqueNamesStep, FreshReferencesStep, ResultsPlaceUnscheduledStep, PodsPartitionedStep
    DEF PodInv
<1> QED
    BY InitTypeInv, InitPodInv, <1>1, <1>2, PTL DEF Spec

\* Whatever the scheduler preempts and whichever call fails, a pod of the request
\* is at every moment either unscheduled or scheduled at exactly one place.
THEOREM EveryPodAccountedFor == Spec => []PodsPartitioned
<1>1. PodInv => PodsPartitioned
    BY DEF PodInv
<1> QED
    BY PodInvariant, <1>1, PTL
-----------------------------------------------------------------------------
(* The virtual cluster *)

\* The deletions of clean-up always succeed.
NoFailedDeletion == "delete" \notin Faults

-----------------------------------------------------------------------------
(* Lemmas: what one step does *)

\* The fresh run reference is a reference, so none of the base objects has it.
LEMMA RunRefNotNone ==
    ASSUME TypeInv, pc \in Simulating
    PROVE runRef \in RunRef /\ runRef # None
<1>1. nodePool \in NodePools
    BY DEF TypeInv, ControlOK
<1> QED
    BY <1>1, NamesTyped, ReferenceAssumption DEF TypeInv

\* Which actions touch the virtual cluster.
LEMMA ClusterWriters ==
    ASSUME [Next]_vars
    PROVE \/ UNCHANGED cluster
          \/ initializeVirtualCluster \/ setupSimulationRun
          \/ \E z \in zonesToSimulate : CreateScaledNode(z)
          \/ createAndDeployUnscheduledPods \/ CollectSchedulingEvents
          \/ cleanUpNodePoolSimRun \/ SyncPods \/ SyncNode \/ Scheduler
    BY DEF Next, Recommender, Terminated, vars, cluster, AllPodsScheduled, StartRun, NextPool,
           SendResult, EndWithoutWinner, getWinningRunResult,
           syncRecommenderStateWithWinningResult

\* The scheduler binds one pod to a node that it tolerates, or takes one away.
LEMMA SchedulerStep ==
    ASSUME TypeInv, Scheduler
    PROVE /\ UNCHANGED <<state, nodes, pc, runNumber, loops, runResult, resultCh,
                         recommendations, outcome>>
          /\ \A w \in pods' :
                \/ w \in pods
                \/ \E v \in pods, n \in nodes :
                      /\ v.at = None /\ Tolerates(v, n)
                      /\ w = [v EXCEPT !.at = n]
                      /\ w.pod = v.pod /\ w.ref = v.ref /\ w.at = n
<1>1. PICK v \in pods, n \in nodes :
          Schedule(v, n) \/ \E victim \in PodsAt(n) : Preempt(v, n, victim)
    BY DEF Scheduler
<1>2. UNCHANGED <<state, nodes, pc, runNumber, loops, runResult, resultCh,
                  recommendations, outcome>>
    BY <1>1 DEF Schedule, Preempt
<1>3. v \in ClusterPod
    BY DEF TypeInv, TypeOK
<1>4. PICK u : u = [v EXCEPT !.at = n]
    OBVIOUS
<1>5. u.pod = v.pod /\ u.ref = v.ref /\ u.at = n
    BY <1>3, <1>4 DEF ClusterPod
<1>6. CASE Schedule(v, n)
    <2>1. v.at = None /\ Tolerates(v, n) /\ pods' = (pods \ {v}) \cup {u}
        BY <1>4, <1>6 DEF Schedule, Feasible
    <2> QED
        BY <1>2, <1>4, <1>5, <2>1
<1>7. CASE \E victim \in PodsAt(n) : Preempt(v, n, victim)
    BY <1>2, <1>7 DEF Preempt
<1> QED
    BY <1>1, <1>6, <1>7

-----------------------------------------------------------------------------
(* The simulations of two node pools never meet *)

\* What a simulation has not deleted yet: its nodes and pods carry its reference,
\* and beyond the clones, which cleanUpNodePoolSimRun deletes by name, there are
\* pods only while their zone is simulated or when an error is on its way.
ErrorSeen == \E r \in resultCh : r.err

OnlyRunning ==
    \A x \in nodes \cup pods :
        \/ x.ref = None
        \/ pc \in Simulating \ {"setup"} /\ x.ref = runRef
        \/ ErrorSeen

WillBeDeleted ==
    \A v \in pods :
        \/ v.ref = None
        \/ v.pod \in clonedPods
        \/ ErrorSeen
        \/ pc = "events" /\ v.pod \in unscheduledPods
        \/ pc = "send" /\ runResult.err

\* runSimulation drains the channel before the winner is written.
ResultsDrained == pc \in {"initialize", "loop"} \cup Syncing => resultCh = {}

IsolationInv == OnlyRunning /\ WillBeDeleted /\ ResultsDrained

\* Before Run there are no objects at all.
LEMMA InitIsolationInv == Init => IsolationInv
    BY DEF Init, IsolationInv, OnlyRunning, WillBeDeleted, ResultsDrained

\* The channel is empty outside of the simulations.
LEMMA ResultsDrainedStep ==
    ASSUME ResultsDrained, [Next]_vars
    PROVE ResultsDrained'
    BY DEF ResultsDrained, Syncing, Next, Recommender, Scheduler, Terminated, vars,
           initializeVirtualCluster, AllPodsScheduled, StartRun, NextPool, setupSimulationRun,
           CreateScaledNode, createAndDeployUnscheduledPods, CollectSchedulingEvents, SendResult,
           cleanUpNodePoolSimRun, EndWithoutWinner, getWinningRunResult, SyncPods, SyncNode,
           syncRecommenderStateWithWinningResult, Schedule, Preempt, Return, Fails

\* One case per action; where the loops move on, either nothing is left or an error
\* has been recorded, and errors stay recorded.
LEMMA IsolationStep ==
    ASSUME NoFailedDeletion, TypeInv, IsolationInv, [Next]_vars
    PROVE OnlyRunning' /\ WillBeDeleted'
<1> USE DEF IsolationInv, OnlyRunning, WillBeDeleted, ErrorSeen, Simulating, Syncing
<1>1. CASE initializeVirtualCluster
    <2>1. \A x \in nodes' \cup pods' : x \in nodes \cup pods \/ x.ref = None
        BY <1>1 DEF initializeVirtualCluster, InitialCluster, CreatesSome, Base
    <2>2. resultCh' = resultCh /\ pc = "initialize" /\ clonedPods' = clonedPods
        BY <1>1 DEF initializeVirtualCluster, loops
    <2> QED
        BY <2>1, <2>2 DEF ResultsDrained
<1>2. CASE AllPodsScheduled \/ StartRun
    <2>1. pc = "loop" /\ UNCHANGED <<nodes, pods>>
        BY <1>2 DEF AllPodsScheduled, StartRun, cluster
    <2> QED
        BY <1>2, <2>1 DEF ResultsDrained, AllPodsScheduled, StartRun, loops
<1>3. CASE \E np \in poolsToSimulate : NextPool(np)
    BY <1>3 DEF NextPool, cluster
<1>4. CASE setupSimulationRun
    <2>1. /\ pc = "setup"
          /\ UNCHANGED <<nodePool, runNumber, resultCh>>
          /\ \/ pc' = "zones" /\ clonedPods' = {q.pod : q \in scheduledPods}
             \/ pc' = "send" /\ runResult'.err = TRUE
        BY <1>4 DEF setupSimulationRun, Fails, errorRunResult
    <2>2. /\ nodes' \subseteq nodes \cup ClonedNodes
          /\ pods' \subseteq pods \cup ClonedScheduledPods
        BY <1>4 DEF setupSimulationRun, CreatesSome
    <2>3. \A n \in ClonedNodes : n.ref = runRef
        BY DEF ClonedNodes, Clone
    <2>4. \A v \in ClonedScheduledPods : v.ref = runRef /\ v.pod \in {q.pod : q \in scheduledPods}
        BY DEF ClonedScheduledPods
    <2>5. runRef' = runRef
        BY <2>1 DEF runRef
    <2>6. OnlyRunning'
        BY <2>1, <2>2, <2>3, <2>4, <2>5
    <2>7. WillBeDeleted'
        BY <2>1, <2>2, <2>4
    <2> QED
        BY <2>6, <2>7
<1>5. CASE \E z \in zonesToSimulate : CreateScaledNode(z)
    <2>1. PICK z \in zonesToSimulate : CreateScaledNode(z)
        BY <1>5
    <2>2. /\ pc = "zones" /\ pc' \in {"deploy", "send"}
          /\ UNCHANGED <<pods, clonedPods, nodePool, runNumber, resultCh>>
          /\ nodes' \subseteq nodes \cup {Clone(scaledNode(z))}
        BY <2>1 DEF CreateScaledNode, Fails
    <2>3. Clone(scaledNode(z)).ref = runRef /\ runRef' = runRef
        BY <2>2 DEF Clone, runRef
    <2> QED
        BY <2>2, <2>3
<1>6. CASE createAndDeployUnscheduledPods
    <2>1. /\ pc = "deploy"
          /\ UNCHANGED <<nodePool, runNumber, resultCh, clonedPods, unscheduledPods>>
          /\ nodes' \subseteq nodes /\ pods' \subseteq pods \cup NewPods
          /\ \/ pc' = "events"
             \/ pc' = "send" /\ runResult'.err = TRUE
        BY <1>6 DEF createAndDeployUnscheduledPods, Fails, errorRunResult, state
    <2>2. \A v \in NewPods : v.ref = runRef /\ v.pod \in unscheduledPods
        BY DEF NewPods
    <2>3. runRef' = runRef
        BY <2>1 DEF runRef
    <2> QED
        BY <2>1, <2>2, <2>3
<1>7. CASE CollectSchedulingEvents
    <2>1. /\ pc = "events" /\ pc' = "send"
          /\ UNCHANGED <<nodePool, runNumber, resultCh, clonedPods>>
        BY <1>7 DEF CollectSchedulingEvents, Fails
    <2>2. nodes' \subseteq nodes /\ pods' = pods \ DeployedPods
        BY <1>7 DEF CollectSchedulingEvents, Deletes, NoFailedDeletion
    <2>3. runRef' = runRef
        BY <2>1 DEF runRef
    <2>4. \A v \in pods' : \/ v.ref = None
                           \/ v.pod \in clonedPods
                           \/ ErrorSeen
        BY <2>1, <2>2 DEF DeployedPods
    <2> QED
        BY <2>1, <2>2, <2>3, <2>4
<1>8. CASE SendResult
    <2>1. /\ pc = "send" /\ pc' = "zones" /\ resultCh' = resultCh \cup {runResult}
          /\ UNCHANGED <<nodes, pods, clonedPods, nodePool, runNumber>>
        BY <1>8 DEF SendResult, loops, cluster
    <2>2. ErrorSeen \/ runResult.err => ErrorSeen'
        BY <2>1
    <2> QED
        BY <2>1, <2>2 DEF runRef
<1>9. CASE cleanUpNodePoolSimRun
    <2>1. /\ pc = "zones" /\ resultCh' = resultCh
          /\ nodes' = nodes \ {n \in nodes : n.ref = runRef}
          /\ pods' = pods \ {v \in pods : v.ref = runRef /\ v.pod \in clonedPods}
        BY <1>9 DEF cleanUpNodePoolSimRun, Deletes, NoFailedDeletion
    <2> QED
        BY <2>1
<1>10. CASE EndWithoutWinner \/ getWinningRunResult
    BY <1>10 DEF EndWithoutWinner, getWinningRunResult, Return, loops, cluster
<1>11. CASE SyncPods \/ SyncNode \/ syncRecommenderStateWithWinningResult
    <2>1. /\ pc \in Syncing /\ resultCh' = resultCh
          /\ \A x \in nodes' \cup pods' : x \in nodes \cup pods \/ x.ref = None
        BY <1>11 DEF SyncPods, SyncNode, syncRecommenderStateWithWinningResult, cluster,
                     BoundInBase, Base
    <2> QED
        BY <2>1 DEF ResultsDrained
<1>12. CASE Scheduler
    <2>1. /\ UNCHANGED <<nodes, pc, clonedPods, nodePool, runNumber, runResult, resultCh,
                         unscheduledPods>>
          /\ \A w \in pods' : \E v \in pods : w.pod = v.pod /\ w.ref = v.ref
        BY <1>12, SchedulerStep DEF state, loops
    <2> QED
        BY <2>1 DEF runRef
<1>13. CASE UNCHANGED vars
    BY <1>13 DEF vars, state, cluster, loops, runRef
<1> QED
    BY <1>1, <1>2, <1>3, <1>4, <1>5, <1>6, <1>7, <1>8, <1>9, <1>10, <1>11, <1>12, <1>13
    DEF Next, Recommender, Terminated

\* Every step keeps the types.
LEMMA TypeInvStep ==
    ASSUME TypeInv, [Next]_vars
    PROVE TypeInv'
    BY RecommenderTyped, SchedulerTyped, StutterTyped DEF Next, Terminated

\* As long as deletions succeed, no pool's simulation sees a node or a pod of an
\* earlier one, and the winner is written into a cluster of base objects only.
THEOREM SimulationsDoNotMeet ==
    ASSUME NoFailedDeletion
    PROVE Spec => []SimulationsIsolated
<1>1. TypeInv /\ [Next]_vars => TypeInv'
    BY TypeInvStep
<1>2. TypeInv /\ IsolationInv /\ [Next]_vars => IsolationInv'
    BY IsolationStep, ResultsDrainedStep DEF IsolationInv
<1>3. IsolationInv => SimulationsIsolated
    BY DEF IsolationInv, OnlyRunning, ErrorSeen, SimulationsIsolated, Simulating
<1> QED
    BY InitTypeInv, InitIsolationInv, <1>1, <1>2, <1>3, PTL DEF Spec

-----------------------------------------------------------------------------
(* The base objects are what the recommender's lists say *)

\* Between SyncPods and the end of the synchronisation the virtual cluster is ahead
\* of the lists: it has the pods of the winner, and then its node.
WinnerNodes == IF pc = "syncState" THEN {Base(winnerNode)} ELSE {}

BaseNodesListed == BaseNodes = {Base(n) : n \in existingNodes} \cup WinnerNodes

BasePodListed(v) ==
    \/ \E q \in scheduledPods : q.pod = v.pod /\ (q.at = None \/ v.at = Base(q.at))
    \/ pc \in {"syncNode", "syncState"} /\ v.pod \in WinnerPods

BasePodsListed == \A v \in BasePods : BasePodListed(v)

ScheduledPodsExist == SamePriority => \A q \in scheduledPods : \E v \in BasePods : v.pod = q.pod

\* A base pod does not tolerate the taint of a simulated node.
BasePodsOnBaseNodes == \A v \in BasePods : v.at = None \/ v.at = Base(v.at.name)

\* Where Run starts, and that a failed Run is over.
FreshStart ==
    /\ outcome = "error" => pc = "done"
    /\ pc = "initialize" => /\ nodes = {} /\ pods = {} /\ recommendations = {}
                            /\ existingNodes = InitialNodes

ListsAgree == outcome # "error" => existingNodes = InitialNodes \cup recommendations

ClusterListed ==
    outcome # "error" /\ pc # "initialize" =>
        BaseNodesListed /\ BasePodsListed /\ ScheduledPodsExist

BaseInv == FreshStart /\ BasePodsOnBaseNodes /\ ListsAgree /\ ClusterListed

\* Before Run the virtual cluster is empty.
LEMMA InitBaseInv == Init => BaseInv
    BY DEF Init, BaseInv, FreshStart, BasePodsOnBaseNodes, BasePods, ListsAgree, ClusterListed

\* Nothing is created before initializeVirtualCluster, and after an error Run ends.
LEMMA FreshStartStep ==
    ASSUME FreshStart, [Next]_vars
    PROVE FreshStart'
    BY DEF FreshStart, Next, Recommender, Scheduler, Terminated, vars, state, cluster,
           initializeVirtualCluster, AllPodsScheduled, StartRun, NextPool, setupSimulationRun,
           CreateScaledNode, createAndDeployUnscheduledPods, CollectSchedulingEvents, SendResult,
           cleanUpNodePoolSimRun, EndWithoutWinner, getWinningRunResult, SyncPods, SyncNode,
           syncRecommenderStateWithWinningResult, Schedule, Preempt, Return, Fails

\* The lists of nodes change together, when a winner has been synchronised.
LEMMA ListsAgreeStep ==
    ASSUME FreshStart, ListsAgree, [Next]_vars
    PROVE ListsAgree'
<1>1. CASE syncRecommenderStateWithWinningResult
    BY <1>1 DEF ListsAgree, FreshStart, syncRecommenderStateWithWinningResult, Return
<1>2. CASE ~syncRecommenderStateWithWinningResult
    <2>1. UNCHANGED <<existingNodes, recommendations>>
        BY <1>2 DEF Next, Recommender, Scheduler, Terminated, vars, state,
           initializeVirtualCluster, AllPodsScheduled, StartRun, NextPool, setupSimulationRun,
           CreateScaledNode, createAndDeployUnscheduledPods, CollectSchedulingEvents, SendResult,
           cleanUpNodePoolSimRun, EndWithoutWinner, getWinningRunResult, SyncPods, SyncNode,
           Schedule, Preempt
    <2>2. outcome' # "error" => outcome # "error"
        BY DEF FreshStart, Next, Recommender, Scheduler, Terminated, vars,
           initializeVirtualCluster, AllPodsScheduled, StartRun, NextPool, setupSimulationRun,
           CreateScaledNode, createAndDeployUnscheduledPods, CollectSchedulingEvents, SendResult,
           cleanUpNodePoolSimRun, EndWithoutWinner, getWinningRunResult, SyncPods, SyncNode,
           syncRecommenderStateWithWinningResult, Schedule, Preempt, Return, Fails
    <2> QED
        BY <2>1, <2>2 DEF ListsAgree
<1> QED
    BY <1>1, <1>2

\* A simulation creates and deletes only objects that carry its reference.
LEMMA SimulatedObjects ==
    ASSUME TypeInv, pc \in Simulating
    PROVE /\ \A n \in ClonedNodes : n.ref # None
          /\ \A v \in ClonedScheduledPods \cup NewPods \cup DeployedPods : v.ref # None
          /\ \A z : Clone(scaledNode(z)).ref # None
          /\ \A n \in ZoneNodes : n.ref # None
    BY RunRefNotNone
       DEF ClonedNodes, ClonedScheduledPods, NewPods, DeployedPods, ZoneNodes, Clone

\* Hence simulating leaves the base objects alone.
LEMMA SimulationKeepsBase ==
    ASSUME TypeInv,
           \/ setupSimulationRun \/ \E z \in zonesToSimulate : CreateScaledNode(z)
           \/ createAndDeployUnscheduledPods \/ CollectSchedulingEvents
           \/ cleanUpNodePoolSimRun
    PROVE BaseNodes' = BaseNodes /\ BasePods' = BasePods
<1> USE DEF Simulating, BaseNodes, BasePods
<1>1. CASE setupSimulationRun
    <2>1. /\ pc \in Simulating
          /\ nodes \subseteq nodes' /\ nodes' \subseteq nodes \cup ClonedNodes
          /\ pods \subseteq pods' /\ pods' \subseteq pods \cup ClonedScheduledPods
        BY <1>1 DEF setupSimulationRun, CreatesSome
    <2> QED
        BY <2>1, SimulatedObjects
<1>2. CASE \E z \in zonesToSimulate : CreateScaledNode(z)
    <2>1. PICK z \in zonesToSimulate : CreateScaledNode(z)
        BY <1>2
    <2>2. /\ pc \in Simulating /\ pods' = pods
          /\ nodes \subseteq nodes' /\ nodes' \subseteq nodes \cup {Clone(scaledNode(z))}
        BY <2>1 DEF CreateScaledNode
    <2> QED
        BY <2>2, SimulatedObjects
<1>3. CASE createAndDeployUnscheduledPods
    <2>1. /\ pc \in Simulating
          /\ nodes \ ZoneNodes \subseteq nodes' /\ nodes' \subseteq nodes
          /\ pods \subseteq pods' /\ pods' \subseteq pods \cup NewPods
        BY <1>3 DEF createAndDeployUnscheduledPods
    <2> QED
        BY <2>1, SimulatedObjects
<1>4. CASE CollectSchedulingEvents
    <2>1. /\ pc \in Simulating
          /\ nodes \ ZoneNodes \subseteq nodes' /\ nodes' \subseteq nodes
          /\ pods \ DeployedPods \subseteq pods' /\ pods' \subseteq pods
        BY <1>4 DEF CollectSchedulingEvents, Deletes
    <2> QED
        BY <2>1, SimulatedObjects
<1>5. CASE cleanUpNodePoolSimRun
    <2>1. /\ pc \in Simulating
          /\ nodes \ {n \in nodes : n.ref = runRef} \subseteq nodes' /\ nodes' \subseteq nodes
          /\ pods \ {v \in pods : v.ref = runRef} \subseteq pods' /\ pods' \subseteq pods
        BY <1>5 DEF cleanUpNodePoolSimRun, Deletes
    <2> QED
        BY <2>1, RunRefNotNone
<1> QED
    BY <1>1, <1>2, <1>3, <1>4, <1>5

\* Among pods of one priority nobody is preempted, so that no pod goes.
LEMMA NobodyPreempted ==
    ASSUME TypeInv, Scheduler, SamePriority
    PROVE \A v \in pods : \E w \in pods' : w.pod = v.pod /\ w.ref = v.ref
<1>1. PICK v \in pods, n \in nodes :
          Schedule(v, n) \/ \E victim \in PodsAt(n) : Preempt(v, n, victim)
    BY DEF Scheduler
<1>2. v \in ClusterPod /\ pods \subseteq ClusterPod
    BY DEF TypeInv, TypeOK
<1>3. LowerPriority(v, n) = {}
    <2>1. \A w \in pods : /\ PodInfo[w.pod].priority = PodInfo[v.pod].priority
                          /\ PodInfo[w.pod].priority \in Nat
        BY <1>2, PodAssumption DEF SamePriority, ClusterPod
    <2>2. \A w \in pods : ~(PodInfo[w.pod].priority < PodInfo[v.pod].priority)
        BY <2>1
    <2> QED
        BY <2>2 DEF LowerPriority, PodsAt
<1>4. Schedule(v, n)
    BY <1>1, <1>3 DEF Preempt
<1>5. PICK u : u = [v EXCEPT !.at = n]
    OBVIOUS
<1>6. u.pod = v.pod /\ u.ref = v.ref
    BY <1>2, <1>5 DEF ClusterPod
<1>7. pods' = (pods \ {v}) \cup {u}
    BY <1>4, <1>5 DEF Schedule
<1> QED
    BY <1>6, <1>7

\* The scheduler binds base pods to base nodes only, since they do not tolerate the taint of a run.
LEMMA BasePodsOnBaseNodesStep ==
    ASSUME TypeInv, BasePodsOnBaseNodes, FreshStart, [Next]_vars
    PROVE BasePodsOnBaseNodes'
<1> USE DEF BasePodsOnBaseNodes, BasePods
<1>1. CASE initializeVirtualCluster
    <2>1. pods' \subseteq InitialCluster.pods
        BY <1>1 DEF initializeVirtualCluster, CreatesSome, FreshStart
    <2>2. \A v \in InitialCluster.pods : v.at = None \/ \E q \in scheduledPods : v.at = Base(q.at)
        BY DEF InitialCluster
    <2>3. \A x : Base(Base(x).name) = Base(x)
        BY DEF Base
    <2> QED
        BY <2>1, <2>2, <2>3
<1>2. CASE SyncPods
    <2>1. pods' \subseteq pods \cup BoundInBase(Placed(runResult))
        BY <1>2 DEF SyncPods
    <2>2. \A v \in BoundInBase(Placed(runResult)) : v.at = Base(v.at.name)
        BY DEF BoundInBase, Base
    <2> QED
        BY <2>1, <2>2
<1>3. CASE Scheduler
    <2> SUFFICES ASSUME NEW w \in pods', w.ref = None
                 PROVE w.at = None \/ w.at = Base(w.at.name)
        OBVIOUS
    <2>1. CASE w \in pods
        BY <2>1
    <2>2. CASE \E v \in pods, n \in nodes : /\ v.at = None /\ Tolerates(v, n)
                                            /\ w = [v EXCEPT !.at = n]
                                            /\ w.pod = v.pod /\ w.ref = v.ref /\ w.at = n
        <3>1. PICK n \in nodes : w.at = n /\ n.ref = None
            BY <2>2 DEF Tolerates
        <3> QED
            BY <3>1 DEF TypeInv, TypeOK, ClusterNode, Base
    <2> QED
        BY <1>3, <2>1, <2>2, SchedulerStep
<1>4. CASE \/ setupSimulationRun \/ \E z \in zonesToSimulate : CreateScaledNode(z)
           \/ createAndDeployUnscheduledPods \/ CollectSchedulingEvents
           \/ cleanUpNodePoolSimRun
    BY <1>4, SimulationKeepsBase
<1>5. CASE UNCHANGED pods
    BY <1>5
<1> QED
    BY <1>1, <1>2, <1>3, <1>4, <1>5, ClusterWriters DEF cluster, SyncNode

\* Writing the winner: first its pods, then its node, then the lists.
LEMMA SyncKeepsListed ==
    ASSUME TypeInv, BaseInv,
           SyncPods \/ SyncNode \/ syncRecommenderStateWithWinningResult
    PROVE ClusterListed'
<1> SUFFICES ASSUME outcome' # "error"
             PROVE BaseNodesListed' /\ BasePodsListed' /\ ScheduledPodsExist'
    BY DEF ClusterListed
<1> USE DEF BaseNodes, BasePods
<1>0. outcome # "error" /\ pc \in Syncing
    BY DEF BaseInv, FreshStart, SyncPods, SyncNode, syncRecommenderStateWithWinningResult,
           Return, Syncing
<1>1. BaseNodesListed /\ BasePodsListed /\ ScheduledPodsExist
    BY <1>0 DEF BaseInv, ClusterListed, Syncing
<1>2. CASE SyncPods
    <2>1. /\ pc = "syncPods" /\ pc' = "syncNode"
          /\ pods' = pods \cup BoundInBase(Placed(runResult))
          /\ UNCHANGED <<nodes, scheduledPods, existingNodes, runResult, runNumber>>
        BY <1>2 DEF SyncPods, Return, state
    <2>2. \A v \in BoundInBase(Placed(runResult)) : v.pod \in WinnerPods
        BY DEF BoundInBase, WinnerPods
    <2>3. WinnerPods' = WinnerPods
        BY <2>1 DEF WinnerPods, Placed
    <2>4. BaseNodesListed'
        BY <1>1, <2>1 DEF BaseNodesListed, WinnerNodes
    <2>5. BasePodsListed'
        BY <1>1, <2>1, <2>2, <2>3 DEF BasePodsListed, BasePodListed
    <2>6. ScheduledPodsExist'
        BY <1>1, <2>1 DEF ScheduledPodsExist
    <2> QED
        BY <2>4, <2>5, <2>6
<1>3. CASE SyncNode
    <2>1. /\ pc = "syncNode" /\ pc' = "syncState"
          /\ nodes' = nodes \cup {Base(winnerNode)}
          /\ UNCHANGED <<pods, scheduledPods, existingNodes, runResult, runNumber>>
        BY <1>3 DEF SyncNode, Return, state
    <2>2. WinnerPods' = WinnerPods /\ winnerNode' = winnerNode
        BY <2>1 DEF WinnerPods, Placed, winnerNode
    <2>3. Base(winnerNode).ref = None
        BY DEF Base
    <2>4. BaseNodesListed'
        BY <1>1, <2>1, <2>2, <2>3 DEF BaseNodesListed, WinnerNodes
    <2>5. BasePodsListed'
        BY <1>1, <2>1, <2>2 DEF BasePodsListed, BasePodListed
    <2>6. ScheduledPodsExist'
        BY <1>1, <2>1 DEF ScheduledPodsExist
    <2> QED
        BY <2>4, <2>5, <2>6
<1>4. CASE syncRecommenderStateWithWinningResult
    <2> DEFINE found == {v \in pods : v.ref = None /\ v.pod \in WinnerPods}
               moved == {[pod |-> v.pod, at |-> v.at.name] : v \in found}
    <2>1. /\ pc = "syncState" /\ pc' = "loop"
          /\ existingNodes' = existingNodes \cup {winnerNode}
          /\ scheduledPods' = scheduledPods \cup moved
          /\ UNCHANGED <<nodes, pods>>
        BY <1>4 DEF syncRecommenderStateWithWinningResult, Return, cluster, WinnerPods
    <2>2. \A v \in found : v.at = Base(v.at.name)
        <3>1. \A v \in found : v.at \in ClusterNode
            BY <2>1 DEF TypeInv, ControlOK
        <3> QED
            BY <3>1, ReferenceAssumption DEF BaseInv, BasePodsOnBaseNodes
    <2>3. \A v \in found : [pod |-> v.pod, at |-> v.at.name] \in moved
        OBVIOUS
    <2>4. BaseNodesListed'
        BY <1>1, <2>1 DEF BaseNodesListed, WinnerNodes
    <2>5. BasePodsListed'
        <3> SUFFICES ASSUME NEW v \in BasePods PROVE BasePodListed(v)'
            BY <2>1 DEF BasePodsListed
        <3>1. CASE \E q \in scheduledPods : q.pod = v.pod /\ (q.at = None \/ v.at = Base(q.at))
            BY <2>1, <3>1 DEF BasePodListed
        <3>2. CASE v.pod \in WinnerPods
            <4> DEFINE q == [pod |-> v.pod, at |-> v.at.name]
            <4>1. q \in scheduledPods' /\ q.pod = v.pod /\ v.at = Base(q.at)
                BY <2>1, <2>2, <2>3, <3>2
            <4> HIDE DEF q
            <4> QED
                BY <4>1 DEF BasePodListed
        <3> QED
            BY <1>1, <3>1, <3>2 DEF BasePodsListed, BasePodListed
    <2>6. ScheduledPodsExist'
        BY <1>1, <2>1 DEF ScheduledPodsExist
    <2> QED
        BY <2>4, <2>5, <2>6
<1> QED
    BY <1>2, <1>3, <1>4

\* Outside of the writes of a winner the base objects are those of the lists.
LEMMA ClusterListedStep ==
    ASSUME TypeInv, BaseInv, [Next]_vars
    PROVE ClusterListed'
<1> USE DEF BaseInv
<1>1. CASE initializeVirtualCluster
    <2> SUFFICES ASSUME outcome' # "error"
                 PROVE BaseNodesListed' /\ BasePodsListed' /\ ScheduledPodsExist'
        BY DEF ClusterListed
    <2>1. /\ nodes' = {Base(n) : n \in existingNodes}
          /\ pods' = InitialCluster.pods
          /\ pc' = "loop" /\ UNCHANGED <<existingNodes, scheduledPods>>
        BY <1>1 DEF initializeVirtualCluster, InitialCluster, Return, state
    <2>2. \A q \in scheduledPods : \E v \in pods' : v.pod = q.pod /\ v.ref = None
        <3> SUFFICES ASSUME NEW q \in scheduledPods
                     PROVE \E v \in pods' : v.pod = q.pod /\ v.ref = None
            OBVIOUS
        <3> DEFINE w == [pod |-> q.pod, ref |-> None,
                         at |-> IF q.at = None THEN None ELSE Base(q.at)]
        <3>1. w \in pods'
            BY <2>1 DEF InitialCluster
        <3> QED
            BY <3>1
    <2>3. \A v \in pods' : \E q \in scheduledPods :
              q.pod = v.pod /\ (q.at = None \/ v.at = Base(q.at))
        BY <2>1 DEF InitialCluster
    <2>4. \A n : Base(n).ref = None
        BY DEF Base
    <2> QED
        BY <2>1, <2>2, <2>3, <2>4 DEF BaseNodesListed, BaseNodes, WinnerNodes, BasePodsListed,
            BasePods, BasePodListed, ScheduledPodsExist
<1>2. CASE SyncPods \/ SyncNode \/ syncRecommenderStateWithWinningResult
    BY <1>2, SyncKeepsListed
<1>3. CASE Scheduler
    <2> SUFFICES ASSUME outcome # "error", pc # "initialize"
                 PROVE BaseNodesListed' /\ BasePodsListed' /\ ScheduledPodsExist'
        BY <1>3, SchedulerStep DEF ClusterListed
    <2>1. /\ UNCHANGED <<state, nodes, pc, runNumber, runResult>>
          /\ UNCHANGED <<scheduledPods, existingNodes>>
        BY <1>3, SchedulerStep DEF state
    <2>2. BaseNodesListed /\ BasePodsListed /\ ScheduledPodsExist
        BY DEF ClusterListed
    <2>3. BaseNodesListed'
        BY <2>1, <2>2 DEF BaseNodesListed, BaseNodes, WinnerNodes, winnerNode
    <2>4. ASSUME NEW w \in BasePods' PROVE BasePodListed(w)'
        <3>1. \A v : BasePodListed(v)' <=> BasePodListed(v)
            BY <2>1 DEF BasePodListed, WinnerPods, Placed
        <3>2. CASE w \in pods
            BY <2>2, <2>4, <3>1, <3>2 DEF BasePodsListed, BasePods
        <3>3. CASE \E v \in pods, n \in nodes : /\ v.at = None /\ w.pod = v.pod /\ w.ref = v.ref
            <4>1. PICK v \in pods : v.at = None /\ w.pod = v.pod /\ w.ref = v.ref
                BY <3>3
            <4>2. BasePodListed(v)
                BY <2>2, <2>4, <4>1 DEF BasePodsListed, BasePods
            <4>3. \A q \in scheduledPods : Base(q.at) # None
                BY NamesTyped, ReferenceAssumption DEF TypeInv, TypeOK
            <4>4. BasePodListed(w)
                BY <4>1, <4>2, <4>3 DEF BasePodListed
            <4> QED
                BY <3>1, <4>4
        <3> QED
            BY <1>3, <2>4, <3>2, <3>3, SchedulerStep DEF BasePods
    <2>5. ScheduledPodsExist'
        BY <1>3, <2>1, <2>2, NobodyPreempted DEF ScheduledPodsExist, BasePods
    <2> QED
        BY <2>3, <2>4, <2>5 DEF BasePodsListed
<1>4. CASE \/ setupSimulationRun \/ \E z \in zonesToSimulate : CreateScaledNode(z)
           \/ createAndDeployUnscheduledPods \/ CollectSchedulingEvents
           \/ cleanUpNodePoolSimRun
    <2>1. BaseNodes' = BaseNodes /\ BasePods' = BasePods
        BY <1>4, SimulationKeepsBase
    <2>2. /\ UNCHANGED <<existingNodes, scheduledPods, outcome>>
          /\ pc \in Simulating /\ pc' \in InRun
        BY <1>4 DEF state, setupSimulationRun, CreateScaledNode, createAndDeployUnscheduledPods,
                    CollectSchedulingEvents, cleanUpNodePoolSimRun, Fails, Simulating, InRun
    <2> QED
        BY <2>1, <2>2 DEF ClusterListed, BaseNodesListed, WinnerNodes, BasePodsListed,
            BasePodListed, ScheduledPodsExist, Simulating, InRun
<1>5. CASE AllPodsScheduled \/ StartRun \/ (\E np \in poolsToSimulate : NextPool(np))
           \/ SendResult \/ EndWithoutWinner \/ getWinningRunResult
    <2>1. /\ UNCHANGED <<nodes, pods, existingNodes, scheduledPods>>
          /\ pc \notin {"initialize", "syncNode", "syncState"}
          /\ pc' \notin {"syncNode", "syncState"}
          /\ outcome' # "error" => outcome # "error"
        BY <1>5 DEF FreshStart, state, cluster, AllPodsScheduled, StartRun, NextPool, SendResult,
                    EndWithoutWinner, getWinningRunResult, Return
    <2> QED
        BY <2>1 DEF ClusterListed, BaseNodesListed, BaseNodes, WinnerNodes, BasePodsListed,
            BasePods, BasePodListed, ScheduledPodsExist
<1>6. CASE UNCHANGED vars
    BY <1>6 DEF vars, state, cluster, loops, ClusterListed, BaseNodesListed, BaseNodes,
        WinnerNodes, winnerNode, BasePodsListed, BasePods, BasePodListed, ScheduledPodsExist,
        WinnerPods, Placed
<1> QED
    BY <1>1, <1>2, <1>3, <1>4, <1>5, <1>6 DEF Next, Recommender, Terminated

\* The invariants about base objects hold in every state.
LEMMA BaseInvariant == Spec => [](TypeInv /\ BaseInv)
<1>1. TypeInv /\ [Next]_vars => TypeInv'
    BY TypeInvStep
<1>2. TypeInv /\ BaseInv /\ [Next]_vars => BaseInv'
    BY FreshStartStep, BasePodsOnBaseNodesStep, ListsAgreeStep, ClusterListedStep DEF BaseInv
<1> QED
    BY InitTypeInv, InitBaseInv, <1>1, <1>2, PTL DEF Spec

\* However many simulations run, whatever they create, fail to create or fail to
\* delete, the base nodes and pods of the virtual cluster are those of the lists.
THEOREM SimulatingKeepsTheBase == Spec => []ClusterMatchesState
<1>1. BaseInv => ClusterMatchesState
    <2> SUFFICES ASSUME BaseInv, pc \notin {"initialize", "syncNode", "syncState"},
                        outcome # "error"
                 PROVE /\ BaseNodes = {Base(n) : n \in existingNodes}
                       /\ existingNodes = InitialNodes \cup recommendations
                       /\ \A v \in BasePods : \E q \in scheduledPods :
                              q.pod = v.pod /\ (q.at = None \/ v.at = Base(q.at))
                       /\ SamePriority =>
                              \A q \in scheduledPods : \E v \in BasePods : v.pod = q.pod
        BY DEF ClusterMatchesState
    <2> QED
        BY DEF BaseInv, ListsAgree, ClusterListed, BaseNodesListed, WinnerNodes,
            BasePodsListed, BasePodListed, ScheduledPodsExist
<1> QED
    BY BaseInvariant, <1>1, PTL

-----------------------------------------------------------------------------
(* Where the scheduled pods are *)

\* The names under which a simulated pod may be found on a node: those of the base
\* nodes, the same without the prefix on their clones, and the node added for the
\* zone.  When deletions fail, a node of the pool that an earlier zone of the run
\* added may still be there.
ClonedNames == {withoutPrefix(n) : n \in existingNodes}
KnownNames == existingNodes \cup ClonedNames

AddedInRun(name, np, z) ==
    /\ name \in ScaledNode
    /\ name.pool = np /\ name.run = runNumber
    /\ NoFailedDeletion => name.zone = z

PlaceKnown(name, np, z) == name \in KnownNames \/ AddedInRun(name, np, z)
ResultKnown(r) == \A q \in Placed(r) : PlaceKnown(q.at.name, r.pool, r.zone)

\* A simulated node is a clone or was added by the simulation whose reference it has.
AddedNode(n) ==
    /\ n.name \in ScaledNode
    /\ n.name.pool = n.ref.pool /\ n.name.run = n.ref.run
    /\ NoFailedDeletion => pc \in {"deploy", "events"} /\ n = Clone(scaledNode(zone))

SimulatedNodesKnown ==
    \A n \in nodes : n.ref = None \/ n.name \in ClonedNames \/ AddedNode(n)

\* From the binding in the simulation to the result, and on to the base pods.
PodsOfZoneKnown ==
    pc = "events" =>
        \A v \in DeployedPods : v.at = None \/ PlaceKnown(v.at.name, nodePool, zone)

ResultsKnown ==
    /\ pc \in InRun => \A r \in resultCh : ResultKnown(r)
    /\ pc \in {"send"} \cup Syncing => ResultKnown(runResult)

WinnerPodsKnown ==
    pc \in {"syncNode", "syncState"} =>
        \A v \in BasePods : v.pod \in WinnerPods =>
            PlaceKnown(v.at.name, runResult.pool, runResult.zone)

\* Where a scheduled pod may be; the second case needs a deletion to fail.
PlacementOK(q) ==
    \/ OnKnownNode(q)
    \/ /\ ~NoFailedDeletion
       /\ q.at \in ScaledNode
       /\ \E n \in recommendations : n.pool = q.at.pool /\ n.run = q.at.run

ScheduledPodsKnown == \A q \in scheduledPods : PlacementOK(q)

PlaceInv ==
    /\ SimulatedNodesKnown /\ PodsOfZoneKnown /\ ResultsKnown
    /\ WinnerPodsKnown /\ ScheduledPodsKnown

\* The placements of the request are on nodes of the request, or are the exceptions the code allows.
LEMMA InitPlaceInv == Init => PlaceInv
<1> SUFFICES ASSUME Init PROVE PlaceInv
    OBVIOUS
<1>1. ScheduledPodsKnown
    BY DEF Init, ScheduledInRequest, UnscheduledInRequest, ScheduledPodsKnown, PlacementOK,
           OnKnownNode
<1>2. SimulatedNodesKnown /\ PodsOfZoneKnown /\ ResultsKnown /\ WinnerPodsKnown
    BY DEF Init, SimulatedNodesKnown, PodsOfZoneKnown, ResultsKnown, WinnerPodsKnown, InRun,
           Simulating, Syncing
<1> QED
    BY <1>1, <1>2 DEF PlaceInv

\* The names only get more, and the run only changes when a run starts.
LEMMA KnownNamesGrow ==
    ASSUME TypeInv, [Next]_vars
    PROVE /\ existingNodes \subseteq existingNodes'
          /\ ClonedNames \subseteq ClonedNames' /\ KnownNames \subseteq KnownNames'
<1>1. existingNodes \subseteq existingNodes'
    BY DEF Next, Recommender, Scheduler, Terminated, vars, state,
           initializeVirtualCluster, AllPodsScheduled, StartRun, NextPool, setupSimulationRun,
           CreateScaledNode, createAndDeployUnscheduledPods, CollectSchedulingEvents, SendResult,
           cleanUpNodePoolSimRun, EndWithoutWinner, getWinningRunResult, SyncPods, SyncNode,
           syncRecommenderStateWithWinningResult, Schedule, Preempt
<1> QED
    BY <1>1 DEF ClonedNames, KnownNames

\* The node added for a zone belongs to the simulation.
LEMMA ScaledNodeAdded ==
    ASSUME TypeInv, pc \in Simulating, NEW z \in ZoneNames
    PROVE \A n : n = Clone(scaledNode(z)) =>
              /\ n.name = scaledNode(z) /\ n.ref = runRef
              /\ n.name \in ScaledNode
              /\ n.name.pool = n.ref.pool /\ n.name.run = n.ref.run
              /\ n.name.zone = z
<1>1. nodePool \in NodePools /\ runNumber \in Nat
    BY DEF TypeInv, TypeOK, ControlOK
<1>2. scaledNode(z) \in ScaledNode
    BY <1>1 DEF scaledNode, ScaledNode
<1>3. withoutPrefix(scaledNode(z)) = scaledNode(z)
    BY <1>2, NameAssumption DEF withoutPrefix
<1> QED
    BY <1>2, <1>3 DEF Clone, scaledNode, runRef

\* A node of a simulation is a clone or the node that its zone adds.
LEMMA SimulatedNodesKnownStep ==
    ASSUME TypeInv, SimulatedNodesKnown, [Next]_vars
    PROVE SimulatedNodesKnown'
<1> USE DEF SimulatedNodesKnown
<1>0. ClonedNames \subseteq ClonedNames'
    BY KnownNamesGrow
<1>1. CASE initializeVirtualCluster \/ SyncNode
    <2>1. /\ \A n \in nodes' : n \in nodes \/ n.ref = None
          /\ pc \notin {"deploy", "events"}
        BY <1>1 DEF initializeVirtualCluster, InitialCluster, CreatesSome, SyncNode, Base
    <2> QED
        BY <1>0, <2>1 DEF AddedNode
<1>2. CASE setupSimulationRun
    <2>1. nodes' \subseteq nodes \cup ClonedNodes /\ pc = "setup"
        BY <1>2 DEF setupSimulationRun, CreatesSome
    <2>2. \A n \in ClonedNodes : n.name \in ClonedNames
        BY DEF ClonedNodes, ClonedNames, Clone
    <2> QED
        BY <1>0, <2>1, <2>2 DEF AddedNode
<1>3. CASE \E z \in zonesToSimulate : CreateScaledNode(z)
    <2>1. PICK z \in zonesToSimulate : CreateScaledNode(z)
        BY <1>3
    <2>2. z \in ZoneNames /\ pc = "zones"
        BY <2>1 DEF CreateScaledNode, TypeInv, TypeOK
    <2>3. /\ nodes' \subseteq nodes \cup {Clone(scaledNode(z))}
          /\ nodes' = nodes \/ (pc' = "deploy" /\ zone' = z)
          /\ UNCHANGED <<nodePool, runNumber>>
        BY <2>1 DEF CreateScaledNode
    <2>4. ASSUME NEW n \in nodes' \ nodes
          PROVE AddedNode(n)'
        <3>1. n = Clone(scaledNode(z)) /\ pc' = "deploy" /\ zone' = z
            BY <2>3
        <3>2. n = Clone(scaledNode(zone))'
            BY <2>3, <3>1 DEF Clone, scaledNode, runRef
        <3>3. pc \in Simulating
            BY <2>2 DEF Simulating
        <3>4. n.name \in ScaledNode /\ n.name.pool = n.ref.pool /\ n.name.run = n.ref.run
            BY <2>2, <3>1, <3>3, ScaledNodeAdded
        <3> QED
            BY <3>1, <3>2, <3>4 DEF AddedNode
    <2>5. \A n \in nodes : AddedNode(n) => AddedNode(n)'
        BY <2>2 DEF AddedNode
    <2>6. \A n \in nodes' : n \in nodes \/ AddedNode(n)'
        BY <2>3, <2>4
    <2> QED
        BY <1>0, <2>5, <2>6
<1>4. CASE createAndDeployUnscheduledPods
    <2>1. /\ nodes' \subseteq nodes /\ UNCHANGED <<nodePool, runNumber, zone>>
          /\ \/ pc' = "events"
             \/ NoFailedDeletion => nodes' = nodes \ ZoneNodes
        BY <1>4 DEF createAndDeployUnscheduledPods, NoFailedDeletion
    <2>2. Clone(scaledNode(zone))' = Clone(scaledNode(zone))
        BY <2>1 DEF Clone, scaledNode, runRef
    <2> QED
        BY <1>0, <2>1, <2>2 DEF AddedNode, ZoneNodes
<1>5. CASE CollectSchedulingEvents
    <2>1. nodes' \subseteq nodes /\ (NoFailedDeletion => nodes' = nodes \ ZoneNodes)
        BY <1>5 DEF CollectSchedulingEvents, Deletes, NoFailedDeletion
    <2> QED
        BY <1>0, <2>1 DEF AddedNode, ZoneNodes
<1>6. CASE cleanUpNodePoolSimRun
    <2>1. nodes' \subseteq nodes /\ pc = "zones"
        BY <1>6 DEF cleanUpNodePoolSimRun, Deletes
    <2> QED
        BY <1>0, <2>1 DEF AddedNode
<1>7. CASE Scheduler
    <2>1. UNCHANGED <<nodes, pc, nodePool, zone, runNumber>>
        BY <1>7, SchedulerStep DEF loops
    <2> QED
        BY <1>0, <2>1 DEF AddedNode, Clone, scaledNode, runRef
<1>8. CASE \/ AllPodsScheduled \/ StartRun \/ \E np \in poolsToSimulate : NextPool(np)
           \/ SendResult \/ EndWithoutWinner \/ getWinningRunResult
           \/ SyncPods \/ syncRecommenderStateWithWinningResult
    <2>1. nodes' = nodes /\ pc \notin {"deploy", "events"}
        BY <1>8 DEF cluster, AllPodsScheduled, StartRun, NextPool, SendResult, EndWithoutWinner,
                    getWinningRunResult, SyncPods, syncRecommenderStateWithWinningResult
    <2> QED
        BY <1>0, <2>1 DEF AddedNode
<1>9. CASE UNCHANGED vars
    BY <1>0, <1>9 DEF vars, cluster, loops, AddedNode, Clone, scaledNode, runRef
<1> QED
    BY <1>1, <1>2, <1>3, <1>4, <1>5, <1>6, <1>7, <1>8, <1>9 DEF Next, Recommender, Terminated

\* A pod of the simulation is bound to a base node, to a clone or to the new node.
LEMMA BoundToKnownNode ==
    ASSUME TypeInv, BaseInv, SimulatedNodesKnown, pc = "events",
           NEW n \in nodes, n.ref \in {None, runRef}
    PROVE PlaceKnown(n.name, nodePool, zone)
<1>1. CASE n.ref = None
    <2>1. outcome # "error"
        BY DEF BaseInv, FreshStart
    <2>2. n \in {Base(m) : m \in existingNodes}
        BY <1>1, <2>1 DEF BaseInv, ClusterListed, BaseNodesListed, BaseNodes, WinnerNodes
    <2> QED
        BY <2>2 DEF PlaceKnown, KnownNames, Base
<1>2. CASE n.ref # None /\ n.name \in ClonedNames
    BY <1>2 DEF PlaceKnown, KnownNames
<1>3. CASE n.ref # None /\ AddedNode(n)
    <2>1. zone \in ZoneNames /\ pc \in Simulating
        BY DEF TypeInv, ControlOK, Simulating
    <2>2. NoFailedDeletion => n.name.zone = zone
        BY <1>3, <2>1, ScaledNodeAdded DEF AddedNode
    <2>3. n.name.pool = nodePool /\ n.name.run = runNumber
        BY <1>3 DEF AddedNode, runRef
    <2> QED
        BY <1>3, <2>2, <2>3 DEF PlaceKnown, AddedInRun, AddedNode
<1> QED
    BY <1>1, <1>2, <1>3 DEF SimulatedNodesKnown

\* So the pods of the zone are bound to known nodes,
LEMMA PodsOfZoneKnownStep ==
    ASSUME TypeInv, BaseInv, SimulatedNodesKnown, PodsOfZoneKnown, [Next]_vars
    PROVE PodsOfZoneKnown'
<1>1. CASE createAndDeployUnscheduledPods
    <2> SUFFICES ASSUME pc' = "events", NEW v \in DeployedPods'
                 PROVE v.at = None
        BY DEF PodsOfZoneKnown
    <2>1. /\ pods' = pods \cup NewPods /\ \A w \in NewPods : ~NameTaken(w)
          /\ UNCHANGED <<unscheduledPods, nodePool, runNumber>>
        BY <1>1 DEF createAndDeployUnscheduledPods, Fails, state
    <2>2. v \in pods' /\ v.ref = runRef /\ v.pod \in unscheduledPods
        BY <2>1 DEF DeployedPods, runRef
    <2> DEFINE u == [pod |-> v.pod, ref |-> runRef, at |-> None]
    <2>3. u \in NewPods
        BY <2>2 DEF NewPods
    <2>4. v \notin pods
        BY <2>1, <2>2, <2>3 DEF NameTaken
    <2> QED
        BY <2>1, <2>2, <2>4 DEF NewPods
<1>2. CASE Scheduler
    <2> SUFFICES ASSUME pc = "events", NEW w \in DeployedPods', w.at # None
                 PROVE PlaceKnown(w.at.name, nodePool, zone)'
        BY <1>2, SchedulerStep DEF PodsOfZoneKnown
    <2>1. /\ UNCHANGED <<nodes, pc, nodePool, zone, runNumber, unscheduledPods, existingNodes>>
        BY <1>2, SchedulerStep DEF loops, state
    <2>2. w \in pods' /\ w.ref = runRef /\ w.pod \in unscheduledPods
        BY <2>1 DEF DeployedPods, runRef
    <2>3. PlaceKnown(w.at.name, nodePool, zone)
        <3>1. CASE w \in pods
            BY <2>2, <3>1 DEF PodsOfZoneKnown, DeployedPods
        <3>2. CASE \E v \in pods, n \in nodes : Tolerates(v, n) /\ w.ref = v.ref /\ w.at = n
            <4>1. PICK n \in nodes : n.ref \in {None, runRef} /\ w.at = n
                BY <2>2, <3>2 DEF Tolerates
            <4> QED
                BY <4>1, BoundToKnownNode
        <3> QED
            BY <1>2, <2>2, <3>1, <3>2, SchedulerStep
    <2> QED
        BY <2>1, <2>3 DEF PlaceKnown, KnownNames, ClonedNames, AddedInRun
<1>3. CASE pc' # "events"
    BY <1>3 DEF PodsOfZoneKnown
<1>4. CASE UNCHANGED vars
    BY <1>4 DEF vars, state, cluster, loops, PodsOfZoneKnown, DeployedPods, runRef, PlaceKnown,
        KnownNames, ClonedNames, AddedInRun
<1> QED
    BY <1>1, <1>2, <1>3, <1>4 DEF Next, Recommender, Terminated, initializeVirtualCluster,
        AllPodsScheduled, StartRun, NextPool, setupSimulationRun, CreateScaledNode,
        CollectSchedulingEvents, SendResult, cleanUpNodePoolSimRun, EndWithoutWinner,
        getWinningRunResult, SyncPods, SyncNode, syncRecommenderStateWithWinningResult,
        Return, Fails

\* the results name known nodes,
LEMMA ResultsKnownStep ==
    ASSUME TypeInv, PodsOfZoneKnown, ResultsKnown, [Next]_vars
    PROVE ResultsKnown'
<1> USE DEF ResultsKnown, InRun, Simulating, Syncing
<1>1. CASE UNCHANGED <<existingNodes, runNumber>>
    <2>1. \A name, np, z : PlaceKnown(name, np, z)' <=> PlaceKnown(name, np, z)
        BY <1>1 DEF PlaceKnown, KnownNames, ClonedNames, AddedInRun
    <2>2. \A r : ResultKnown(r) => ResultKnown(r)'
        BY <2>1 DEF ResultKnown, Placed
    <2>3. \A z : ResultKnown(errorRunResult(z))
        BY DEF ResultKnown, Placed, errorRunResult
    <2>4. CASE CollectSchedulingEvents
        <3>1. pc = "events" /\ pc' = "send" /\ resultCh' = resultCh
            BY <2>4 DEF CollectSchedulingEvents, Fails
        <3>2. ASSUME NEW seen \in SUBSET {v \in DeployedPods : v.at # None}
              PROVE ResultKnown(computeRunResult(seen))
            <4>1. \A q \in getUpdatedPods(seen) : q.at # None => \E v \in seen : q.at = v.at
                BY DEF getUpdatedPods
            <4>2. \A v \in seen : PlaceKnown(v.at.name, nodePool, zone)
                BY <3>1 DEF PodsOfZoneKnown
            <4>3. \A q \in Placed(computeRunResult(seen)) : PlaceKnown(q.at.name, nodePool, zone)
                BY <4>1, <4>2 DEF Placed, computeRunResult
            <4>4. computeRunResult(seen).pool = nodePool /\ computeRunResult(seen).zone = zone
                BY DEF computeRunResult
            <4> QED
                BY <4>3, <4>4 DEF ResultKnown
        <3>3. \/ \E seen \in SUBSET {v \in DeployedPods : v.at # None} :
                    runResult' = computeRunResult(seen)
              \/ runResult' = errorRunResult(zone)
            BY <2>4 DEF CollectSchedulingEvents, Fails
        <3>4. PICK r : r = runResult' /\ ResultKnown(r)
            BY <2>3, <3>2, <3>3
        <3>5. ResultKnown(r)'
            BY <2>2, <3>4
        <3>6. ResultKnown(runResult)'
            BY <3>4, <3>5 DEF ResultKnown, Placed
        <3> QED
            BY <2>2, <3>1, <3>6
    <2>5. CASE setupSimulationRun \/ createAndDeployUnscheduledPods
               \/ \E z \in zonesToSimulate : CreateScaledNode(z)
        <3>1. /\ pc \in InRun /\ resultCh' = resultCh
              /\ pc' \in {"zones", "deploy", "events", "send"}
              /\ pc' = "send" => \E z : runResult' = errorRunResult(z)
            BY <2>5 DEF setupSimulationRun, createAndDeployUnscheduledPods, CreateScaledNode, Fails
        <3>2. pc' = "send" => runResult'.pods = {}
            BY <3>1 DEF errorRunResult
        <3>3. pc' = "send" => ResultKnown(runResult)'
            BY <3>2 DEF ResultKnown, Placed
        <3> QED
            BY <2>2, <3>1, <3>3
    <2>6. CASE SendResult
        <3>1. pc = "send" /\ pc' = "zones" /\ resultCh' = resultCh \cup {runResult}
            BY <2>6 DEF SendResult
        <3> QED
            BY <2>2, <3>1
    <2>7. CASE getWinningRunResult
        <3>1. pc = "pools" /\ pc' = "syncPods" /\ runResult' \in resultCh
            BY <2>7, WinnerIsResult DEF getWinningRunResult
        <3>2. PICK r \in resultCh : r = runResult'
            BY <3>1
        <3>3. ResultKnown(r)'
            BY <2>2, <3>1, <3>2
        <3>4. ResultKnown(runResult)'
            BY <3>2, <3>3 DEF ResultKnown, Placed
        <3> QED
            BY <3>1, <3>4
    <2>8. CASE /\ resultCh' = resultCh /\ runResult' = runResult
               /\ pc' \in {"send"} \cup Syncing => pc \in {"send"} \cup Syncing
               /\ pc' \in InRun => pc \in InRun
        <3>1. ResultKnown(runResult) => ResultKnown(runResult)'
            BY <2>1, <2>8 DEF ResultKnown, Placed
        <3> QED
            BY <2>2, <2>8, <3>1
    <2>9. CASE StartRun \/ AllPodsScheduled
        BY <2>9 DEF StartRun, AllPodsScheduled, Return
    <2> QED
        BY <2>4, <2>5, <2>6, <2>7, <2>8, <2>9
        DEF Next, Recommender, Scheduler, Terminated, vars, initializeVirtualCluster,
            NextPool, cleanUpNodePoolSimRun, EndWithoutWinner,
            SyncPods, SyncNode, syncRecommenderStateWithWinningResult, Schedule, Preempt, Return
<1>2. CASE ~UNCHANGED <<existingNodes, runNumber>>
    <2>1. pc' \in {"loop", "done"} \/ (pc' = "pools" /\ resultCh' = {})
        BY <1>2 DEF Next, Recommender, Scheduler, Terminated, vars, state,
            initializeVirtualCluster, AllPodsScheduled, StartRun, NextPool,
            setupSimulationRun, CreateScaledNode, createAndDeployUnscheduledPods,
            CollectSchedulingEvents, SendResult, cleanUpNodePoolSimRun, EndWithoutWinner,
            getWinningRunResult, SyncPods, SyncNode, syncRecommenderStateWithWinningResult,
            Schedule, Preempt, Return
    <2> QED
        BY <2>1
<1> QED
    BY <1>1, <1>2

\* the winner is written to known nodes,
LEMMA WinnerPodsKnownStep ==
    ASSUME TypeInv, ResultsKnown, WinnerPodsKnown, [Next]_vars
    PROVE WinnerPodsKnown'
<1> USE DEF WinnerPodsKnown, BasePods
<1>1. CASE SyncPods
    <2> SUFFICES ASSUME pc' = "syncNode", NEW v \in BasePods', v.pod \in WinnerPods'
                 PROVE PlaceKnown(v.at.name, runResult.pool, runResult.zone)'
        BY <1>1 DEF SyncPods, Return
    <2>1. /\ pods' = pods \cup BoundInBase(Placed(runResult))
          /\ \A b \in BoundInBase(Placed(runResult)) : ~NameTaken(b)
          /\ UNCHANGED <<existingNodes, runNumber, runResult>> /\ pc = "syncPods"
        BY <1>1 DEF SyncPods, Return, state
    <2>2. PICK q \in Placed(runResult) : q.pod = v.pod
        BY <2>1 DEF WinnerPods, Placed
    <2> DEFINE b == [pod |-> q.pod, ref |-> None, at |-> Base(q.at.name)]
    <2>3. b \in BoundInBase(Placed(runResult)) /\ b.pod = v.pod /\ b.ref = v.ref
        BY <2>2 DEF BoundInBase
    <2>4. v \in BoundInBase(Placed(runResult))
        BY <2>1, <2>3 DEF NameTaken
    <2>5. PICK p \in Placed(runResult) : v.at.name = p.at.name
        BY <2>4 DEF BoundInBase, Base
    <2>6. PlaceKnown(v.at.name, runResult.pool, runResult.zone)
        BY <2>1, <2>5 DEF ResultsKnown, ResultKnown, Syncing
    <2> QED
        BY <2>1, <2>6 DEF PlaceKnown, KnownNames, ClonedNames, AddedInRun
<1>2. CASE Scheduler
    <2>1. UNCHANGED <<pc, existingNodes, runNumber, runResult>>
        BY <1>2, SchedulerStep DEF state
    <2>2. WinnerPods' = WinnerPods
        BY <2>1 DEF WinnerPods, Placed
    <2> SUFFICES ASSUME pc \in {"syncNode", "syncState"}, NEW w \in BasePods', w.pod \in WinnerPods
                 PROVE PlaceKnown(w.at.name, runResult.pool, runResult.zone)'
        BY <2>1, <2>2
    <2>3. \A v \in pods : v.ref = None /\ v.pod \in WinnerPods => v.at # None
        BY ReferenceAssumption DEF TypeInv, ControlOK
    <2>4. w \in pods
        BY <1>2, <2>3, SchedulerStep
    <2> QED
        BY <2>1, <2>4 DEF PlaceKnown, KnownNames, ClonedNames, AddedInRun
<1>3. CASE SyncNode \/ UNCHANGED vars
    <2>1. /\ UNCHANGED <<pods, existingNodes, runNumber, runResult>>
          /\ pc' \in {"syncNode", "syncState"} => pc \in {"syncNode", "syncState"}
        BY <1>3 DEF SyncNode, Return, state, cluster, vars
    <2>2. WinnerPods' = WinnerPods
        BY <2>1 DEF WinnerPods, Placed
    <2> QED
        BY <2>1, <2>2 DEF PlaceKnown, KnownNames, ClonedNames, AddedInRun
<1>4. CASE pc' \notin {"syncNode", "syncState"}
    BY <1>4
<1> QED
    BY <1>1, <1>2, <1>3, <1>4 DEF Next, Recommender, Terminated, initializeVirtualCluster,
        AllPodsScheduled, StartRun, NextPool, setupSimulationRun, CreateScaledNode,
        createAndDeployUnscheduledPods, CollectSchedulingEvents, SendResult,
        cleanUpNodePoolSimRun, EndWithoutWinner, getWinningRunResult,
        syncRecommenderStateWithWinningResult, Return, Fails

\* and the pods found again in the base are listed on known nodes.
LEMMA ScheduledPodsKnownStep ==
    ASSUME TypeInv, BaseInv, WinnerPodsKnown, ScheduledPodsKnown, [Next]_vars
    PROVE ScheduledPodsKnown'
<1> USE DEF ScheduledPodsKnown
<1>1. CASE syncRecommenderStateWithWinningResult /\ ~UNCHANGED scheduledPods
    <2> DEFINE found == {v \in pods : v.ref = None /\ v.pod \in WinnerPods}
    <2>1. /\ pc = "syncState"
          /\ scheduledPods' = scheduledPods \cup {[pod |-> v.pod, at |-> v.at.name] : v \in found}
          /\ recommendations' = recommendations \cup {winnerNode}
        BY <1>1 DEF syncRecommenderStateWithWinningResult, WinnerPods
    <2>2. existingNodes = InitialNodes \cup recommendations
        BY <2>1 DEF BaseInv, FreshStart, ListsAgree
    <2>3. \A q : PlacementOK(q) => PlacementOK(q)'
        BY <2>1 DEF PlacementOK, OnKnownNode
    <2>4. ASSUME NEW q, PlaceKnown(q.at, runResult.pool, runResult.zone)
          PROVE PlacementOK(q)'
        <3>1. CASE q.at \in KnownNames
            BY <2>1, <2>2, <3>1 DEF KnownNames, ClonedNames, withoutPrefix, PlacementOK, OnKnownNode
        <3>2. CASE AddedInRun(q.at, runResult.pool, runResult.zone)
            <4>1. winnerNode.pool = q.at.pool /\ winnerNode.run = q.at.run
                BY <3>2 DEF AddedInRun, winnerNode
            <4>2. NoFailedDeletion => q.at = winnerNode
                BY <3>2 DEF AddedInRun, winnerNode, ScaledNode
            <4> QED
                BY <2>1, <3>2, <4>1, <4>2 DEF AddedInRun, PlacementOK, OnKnownNode
        <3> QED
            BY <2>4, <3>1, <3>2 DEF PlaceKnown
    <2>5. \A v \in found : PlaceKnown(v.at.name, runResult.pool, runResult.zone)
        BY <2>1 DEF WinnerPodsKnown, BasePods
    <2>6. \A q \in scheduledPods' :
              PlacementOK(q) \/ PlaceKnown(q.at, runResult.pool, runResult.zone)
        BY <2>1, <2>5
    <2> QED
        BY <2>3, <2>4, <2>6
<1>2. CASE UNCHANGED scheduledPods
    <2>1. recommendations \subseteq recommendations'
        BY DEF Next, Recommender, Scheduler, Terminated, vars,
            initializeVirtualCluster, AllPodsScheduled, StartRun, NextPool,
            setupSimulationRun, CreateScaledNode, createAndDeployUnscheduledPods,
            CollectSchedulingEvents, SendResult, cleanUpNodePoolSimRun, EndWithoutWinner,
            getWinningRunResult, SyncPods, SyncNode, syncRecommenderStateWithWinningResult,
            Schedule, Preempt
    <2>2. \A q : PlacementOK(q) => PlacementOK(q)'
        BY <2>1 DEF PlacementOK, OnKnownNode
    <2> QED
        BY <1>2, <2>2
<1> QED
    BY <1>1, <1>2 DEF Next, Recommender, Scheduler, Terminated, vars, state,
        initializeVirtualCluster, AllPodsScheduled, StartRun, NextPool,
        setupSimulationRun, CreateScaledNode, createAndDeployUnscheduledPods,
        CollectSchedulingEvents, SendResult, cleanUpNodePoolSimRun, EndWithoutWinner,
        getWinningRunResult, SyncPods, SyncNode, Schedule, Preempt

\* The invariants about placements hold in every state.
LEMMA PlaceInvariant == Spec => [](TypeInv /\ BaseInv /\ PlaceInv)
<1>1. TypeInv /\ [Next]_vars => TypeInv'
    BY TypeInvStep
<1>2. TypeInv /\ BaseInv /\ PlaceInv /\ [Next]_vars => PlaceInv'
    BY SimulatedNodesKnownStep, PodsOfZoneKnownStep, ResultsKnownStep, WinnerPodsKnownStep,
       ScheduledPodsKnownStep DEF PlaceInv
<1> QED
    BY InitTypeInv, InitPlaceInv, BaseInvariant, <1>1, <1>2, PTL DEF Spec

\* As long as deletions succeed, a scheduled pod of the response is on a node of the
\* request or on a recommended node (or under a name that lost its prefix).
THEOREM ScheduledOnKnownNode ==
    ASSUME NoFailedDeletion
    PROVE Spec => []PlacementOnKnownNode
<1>1. PlaceInv => PlacementOnKnownNode
    BY DEF PlaceInv, ScheduledPodsKnown, PlacementOK, PlacementOnKnownNode
<1> QED
    BY PlaceInvariant, <1>1, PTL

\* Whatever fails, a scheduled pod is at worst on a node that the simulations of the
\* winning pool left over in the run of a recommended node.
THEOREM ScheduledAtWorstOnLeftover == Spec => []PlacementOnLeftoverNode
<1>1. PlaceInv => PlacementOnLeftoverNode
    BY DEF PlaceInv, ScheduledPodsKnown, PlacementOK, PlacementOnLeftoverNode
<1> QED
    BY PlaceInvariant, <1>1, PTL

-----------------------------------------------------------------------------
(* Room in the result channel *)

\* Each result takes the place of a zone of its pool that is not simulated again; the
\* error of a failed setup has no zone and is the only result of its pool.
ZonesOfPool ==
    /\ pc \in Simulating => zonesToSimulate \subseteq NodePool[nodePool].zones
    /\ pc \in {"deploy", "events"} => zone \in NodePool[nodePool].zones \ zonesToSimulate

PlaceOfResult(r) == r.zone \in NodePool[r.pool].zones \/ (r.err /\ r.zone = None)

PlacesDistinct ==
    pc \in InRun => \A r \in resultCh :
        /\ r.pool \notin poolsToSimulate
        /\ PlaceOfResult(r)
        /\ \A s \in resultCh : r.pool = s.pool /\ (r.zone = s.zone \/ r.zone = None) => r = s

\* The results already sent by the pool that is being simulated.
PlacesLeft ==
    pc \in Simulating => \A r \in resultCh :
        r.pool = nodePool =>
            /\ pc # "setup"
            /\ r.zone \notin zonesToSimulate
            /\ r.zone = None => zonesToSimulate = {} /\ pc = "zones"
            /\ pc \in {"deploy", "events"} => r.zone # zone
            /\ pc = "send" => r.zone # runResult.zone /\ runResult.zone # None

\* The result about to be sent.
NextPlace ==
    pc = "send" =>
        /\ runResult.pool = nodePool
        /\ PlaceOfResult(runResult)
        /\ runResult.zone \notin zonesToSimulate
        /\ runResult.zone = None => zonesToSimulate = {}

ChannelInv == ZonesOfPool /\ PlacesDistinct /\ PlacesLeft /\ NextPlace

\* Before Run the channel is empty.
LEMMA InitChannelInv == Init => ChannelInv
    BY DEF Init, ChannelInv, ZonesOfPool, PlacesDistinct, PlacesLeft, NextPlace, InRun, Simulating

\* Each step sends at most one result, for a pool and zone that has sent none.
LEMMA ChannelInvStep ==
    ASSUME TypeInv, FreshReferences, ChannelInv, [Next]_vars
    PROVE ChannelInv'
<1> USE DEF ChannelInv, ZonesOfPool, PlacesDistinct, PlacesLeft, NextPlace, PlaceOfResult,
            InRun, Simulating
<1>0. \A z \in zonesToSimulate : z # None
    BY NameAssumption DEF TypeInv, TypeOK
<1>1. CASE pc' \notin InRun
    BY <1>1
<1>2. CASE StartRun
    BY <1>2 DEF StartRun
<1>3. CASE \E np \in poolsToSimulate : NextPool(np)
    <2>1. PICK np \in poolsToSimulate : NextPool(np)
        BY <1>3
    <2>2. /\ pc = "pools" /\ pc' = "setup" /\ nodePool' = np /\ resultCh' = resultCh
          /\ poolsToSimulate' = poolsToSimulate \ {np} /\ zonesToSimulate' = NodePool[np].zones
        BY <2>1 DEF NextPool
    <2> QED
        BY <2>2
<1>4. CASE setupSimulationRun
    <2>1. /\ pc = "setup" /\ pc' \in {"zones", "send"}
          /\ UNCHANGED <<nodePool, poolsToSimulate, resultCh>>
          /\ pc' = "zones" => zonesToSimulate' = zonesToSimulate
          /\ pc' = "send" => runResult' = errorRunResult(None) /\ zonesToSimulate' = {}
        BY <1>4 DEF setupSimulationRun, Fails
    <2>2. /\ errorRunResult(None).pool = nodePool /\ errorRunResult(None).zone = None
          /\ errorRunResult(None).err = TRUE
        BY DEF errorRunResult
    <2> QED
        BY <2>1, <2>2
<1>5. CASE \E z \in zonesToSimulate : CreateScaledNode(z)
    <2>1. PICK z \in zonesToSimulate : CreateScaledNode(z)
        BY <1>5
    <2>2. /\ pc = "zones" /\ zone' = z
          /\ UNCHANGED <<nodePool, poolsToSimulate, resultCh>>
          /\ \/ pc' = "deploy" /\ zonesToSimulate' = zonesToSimulate \ {z}
             \/ pc' = "send" /\ runResult' = errorRunResult(z) /\ zonesToSimulate' = {}
        BY <2>1 DEF CreateScaledNode, Fails
    <2>3. /\ errorRunResult(z).pool = nodePool /\ errorRunResult(z).zone = z
          /\ errorRunResult(z).err = TRUE
        BY DEF errorRunResult
    <2> QED
        BY <1>0, <2>2, <2>3
<1>6. CASE createAndDeployUnscheduledPods \/ CollectSchedulingEvents
    <2>1. /\ pc \in {"deploy", "events"} /\ pc' \in {"events", "send"}
          /\ UNCHANGED <<nodePool, poolsToSimulate, resultCh, zone>>
          /\ zonesToSimulate' \in {zonesToSimulate, {}}
        BY <1>6 DEF createAndDeployUnscheduledPods, CollectSchedulingEvents, Fails
    <2>2. pc' = "send" => runResult'.pool = nodePool /\ runResult'.zone = zone
        <3>1. /\ errorRunResult(zone).pool = nodePool /\ errorRunResult(zone).zone = zone
              /\ \A seen : /\ computeRunResult(seen).pool = nodePool
                           /\ computeRunResult(seen).zone = zone
            BY DEF errorRunResult, computeRunResult
        <3>2. pc' = "send" => \/ runResult' = errorRunResult(zone)
                              \/ \E seen : runResult' = computeRunResult(seen)
            BY <1>6 DEF createAndDeployUnscheduledPods, CollectSchedulingEvents, Fails
        <3> QED
            BY <3>1, <3>2
    <2>3. zone # None
        BY <2>1, NameAssumption DEF TypeInv, ControlOK
    <2> QED
        BY <2>1, <2>2, <2>3
<1>7. CASE SendResult
    <2>1. /\ pc = "send" /\ pc' = "zones" /\ resultCh' = resultCh \cup {runResult}
          /\ UNCHANGED <<nodePool, poolsToSimulate, zonesToSimulate>>
        BY <1>7 DEF SendResult, loops
    <2>2. nodePool \notin poolsToSimulate
        BY <2>1 DEF FreshReferences
    <2>3. \A r \in resultCh : r.pool = nodePool => r.zone # runResult.zone /\ r.zone # None
                                                    /\ runResult.zone # None
        BY <2>1
    <2>4. PlacesDistinct'
        BY <2>1, <2>2, <2>3
    <2>5. PlacesLeft'
        BY <2>1, <2>2, <2>3
    <2> QED
        BY <2>1, <2>4, <2>5
<1>8. CASE cleanUpNodePoolSimRun
    BY <1>8 DEF cleanUpNodePoolSimRun
<1>9. CASE Scheduler \/ UNCHANGED vars
    BY <1>9, SchedulerStep DEF vars, loops
<1> QED
    BY <1>1, <1>2, <1>3, <1>4, <1>5, <1>6, <1>7, <1>8, <1>9
    DEF Next, Recommender, Terminated, initializeVirtualCluster, AllPodsScheduled,
        EndWithoutWinner, getWinningRunResult, SyncPods, SyncNode,
        syncRecommenderStateWithWinningResult, Return

\* The invariants about the channel hold in every state.
LEMMA ChannelInvariant == Spec => [](TypeInv /\ PoolInv /\ ChannelInv)
<1>1. TypeInv /\ [Next]_vars => TypeInv'
    BY TypeInvStep
<1>2. TypeInv /\ PodInv /\ ChannelInv /\ [Next]_vars => ChannelInv'
    BY ChannelInvStep DEF PodInv
<1> QED
    BY InitTypeInv, InitChannelInv, PoolInvariant, PodInvariant, <1>1, <1>2, PTL DEF Spec

\* The places in the channel: one per zone of an eligible pool.
Places == UNION {{np} \X NodePool[np].zones : np \in DOMAIN eligibleNodePools}

\* There are finitely many pairs of an eligible pool and its zone: the capacity of the channel.
LEMMA PlacesFinite ==
    ASSUME TypeInv
    PROVE /\ IsFiniteSet(Places)
          /\ \A np \in DOMAIN eligibleNodePools :
                 \A z \in NodePool[np].zones : <<np, z>> \in Places
<1>1. Places \subseteq NodePools \X ZoneNames
    <2>1. \A np \in DOMAIN eligibleNodePools :
              np \in NodePools /\ NodePool[np].zones \subseteq ZoneNames
        BY NodePoolAssumption DEF TypeInv, TypeOK
    <2> QED
        BY <2>1 DEF Places
<1>2. IsFiniteSet(NodePools \X ZoneNames)
    BY FiniteAssumption, FS_Product
<1> QED
    BY <1>1, <1>2, FS_Subset DEF Places

\* A pool with zones finds room: the results sent and the one to be sent take
\* different places.
LEMMA RoomForResult ==
    ASSUME TypeInv, PoolInv, ChannelInv, pc = "send",
           \A r \in resultCh \cup {runResult} : r.err => NodePool[r.pool].zones # {}
    PROVE IsFiniteSet(resultCh) /\ Cardinality(resultCh) < Cardinality(Places)
<1> DEFINE results == resultCh \cup {runResult}
           place == [r \in results |->
                        <<r.pool, IF r.zone = None THEN CHOOSE z \in NodePool[r.pool].zones : TRUE
                                  ELSE r.zone>>]
<1>1. \A r \in results : /\ r.pool \in DOMAIN eligibleNodePools
                         /\ r.zone \in NodePool[r.pool].zones \/ (r.err /\ r.zone = None)
    BY DEF PoolInv, EligibleInRun, ChannelInv, PlacesDistinct, NextPlace, PlaceOfResult, InRun,
           Simulating
<1>2. \A r, s \in results : r.pool = s.pool /\ (r.zone = s.zone \/ r.zone = None) => r = s
    <2>1. \A s \in resultCh : s.pool = runResult.pool =>
              s.zone # runResult.zone /\ s.zone # None /\ runResult.zone # None
        BY DEF ChannelInv, PlacesLeft, NextPlace, Simulating
    <2>2. \A r, s \in resultCh : r.pool = s.pool /\ (r.zone = s.zone \/ r.zone = None) => r = s
        BY DEF ChannelInv, PlacesDistinct, InRun, Simulating
    <2> QED
        BY <2>1, <2>2
<1>3. runResult \notin resultCh
    BY DEF ChannelInv, PlacesLeft, NextPlace, Simulating
<1>4. \A r \in results : place[r] \in Places
    <2> TAKE r \in results
    <2>1. (IF r.zone = None THEN CHOOSE z \in NodePool[r.pool].zones : TRUE ELSE r.zone)
              \in NodePool[r.pool].zones
        BY <1>1
    <2> QED
        BY <1>1, <2>1, PlacesFinite
<1>5. \A r, s \in results : place[r] = place[s] => r = s
    <2> SUFFICES ASSUME NEW r \in results, NEW s \in results, place[r] = place[s]
                 PROVE r = s
        OBVIOUS
    <2>1. r.pool = s.pool
        OBVIOUS
    <2>2. CASE r.zone = None \/ s.zone = None
        BY <1>2, <2>1, <2>2
    <2>3. CASE r.zone # None /\ s.zone # None
        BY <1>2, <2>1, <2>3
    <2> QED
        BY <2>2, <2>3
<1>6. place \in [results -> Places]
    BY <1>4
<1> HIDE DEF place
<1>7. place \in Injection(results, Places)
    BY <1>5, <1>6 DEF Injection, IsInjective
<1>8. IsFiniteSet(results) /\ Cardinality(results) <= Cardinality(Places)
    BY <1>7, PlacesFinite, FS_Injection
<1>9. IsFiniteSet(resultCh)
    BY <1>8, FS_Subset
<1>10. Cardinality(results) = Cardinality(resultCh) + 1
    BY <1>3, <1>9, FS_AddElement
<1>11. Cardinality(resultCh) \in Nat /\ Cardinality(Places) \in Nat
    BY <1>9, PlacesFinite, FS_CardinalityType
<1> HIDE DEF results
<1> QED
    BY <1>8, <1>9, <1>10, <1>11

\* For every request the channel has room for each result, except for the error of a
\* pool without zones whose setup failed: only that can make Run hang.
THEOREM ChannelHasRoom == Spec => []BlockedOnlyByZonelessPool
<1>1. TypeInv /\ PoolInv /\ ChannelInv => BlockedOnlyByZonelessPool
    <2> SUFFICES ASSUME TypeInv, PoolInv, ChannelInv, Blocked,
                        \A r \in resultCh \cup {runResult} : r.err => NodePool[r.pool].zones # {}
                 PROVE FALSE
        BY DEF BlockedOnlyByZonelessPool
    <2>1. Cardinality(resultCh) < Cardinality(Places)
        BY RoomForResult DEF Blocked
    <2>2. Cardinality(resultCh) >= Cardinality(Places)
        BY DEF Blocked, computeTotalZonesAcrossNodePools, Places
    <2>3. IsFiniteSet(Places)
        BY PlacesFinite
    <2>4. Cardinality(Places) \in Nat
        BY <2>3, FS_CardinalityType
    <2>5. Cardinality(resultCh) \in Nat
        BY RoomForResult, FS_CardinalityType DEF Blocked
    <2> QED
        BY <2>1, <2>2, <2>4, <2>5
<1> QED
    BY ChannelInvariant, <1>1, PTL

-----------------------------------------------------------------------------
(* Lemmas: sums of memory *)

\* What a pod asks for is a number.
LEMMA PodMemory == \A p \in Pods : PodInfo[p].memory \in Nat
    BY PodAssumption

\* The memory of a set of pods of the request.
LEMMA MemoryFacts ==
    ASSUME NEW P \in SUBSET Pods, NEW Q \in SUBSET Pods
    PROVE /\ Memory(P) \in Nat
          /\ Memory(P \cup Q) <= Memory(P) + Memory(Q)
          /\ P \subseteq Q => Memory(P) <= Memory(Q)
          /\ P \cap Q = {} => Memory(P \cup Q) = Memory(P) + Memory(Q)
<1> DEFINE f == [p \in Pods |-> PodInfo[p].memory]
<1>1. \A p \in Pods : f[p] \in Nat
    BY PodMemory
<1>2. \A R \in SUBSET Pods : Memory(R) = SumFunctionOnSet(f, R)
    BY DEF Memory
<1> HIDE DEF f
<1>3. \A R \in SUBSET Pods : IsFiniteSet(R)
    BY FiniteAssumption, FS_Subset
<1>4. \A R \in SUBSET Pods : Memory(R) \in Nat
    BY <1>1, <1>2, <1>3, SumType
<1>5. \A R, T \in SUBSET Pods : R \subseteq T => Memory(R) <= Memory(T)
    <2> SUFFICES ASSUME NEW T \in SUBSET Pods, NEW R \in SUBSET T
                 PROVE SumFunctionOnSet(f, R) <= SumFunctionOnSet(f, T)
        BY <1>2
    <2>1. IsFiniteSet(T) /\ \A p \in T : f[p] \in Nat
        BY <1>1, <1>3
    <2> QED
        BY <2>1, SumMonotone
<1>6. \A R, T \in SUBSET Pods : R \cap T = {} => Memory(R \cup T) = Memory(R) + Memory(T)
    <2> SUFFICES ASSUME NEW R \in SUBSET Pods, NEW T \in SUBSET Pods, R \cap T = {}
                 PROVE SumFunctionOnSet(f, R \cup T)
                           = SumFunctionOnSet(f, R) + SumFunctionOnSet(f, T)
        BY <1>2
    <2>1. IsFiniteSet(R) /\ IsFiniteSet(T) /\ \A p \in R \cup T : f[p] \in Nat
        BY <1>1, <1>3
    <2> QED
        BY <2>1, SumDisjoint
<1>7. Memory(P \cup (Q \ P)) = Memory(P) + Memory(Q \ P)
    <2>1. Q \ P \in SUBSET Pods /\ P \cap (Q \ P) = {}
        OBVIOUS
    <2> QED
        BY <1>6, <2>1
<1>8. P \cup (Q \ P) = P \cup Q /\ Q \ P \in SUBSET Pods /\ Q \ P \subseteq Q
    OBVIOUS
<1>9. Memory(Q \ P) <= Memory(Q)
    BY <1>5, <1>8
<1>10. Memory(P \cup Q) = Memory(P) + Memory(Q \ P)
    BY <1>7, <1>8
<1>11. Memory(P) \in Nat /\ Memory(Q) \in Nat /\ Memory(Q \ P) \in Nat
    BY <1>4, <1>8
<1>12. Memory(P \cup Q) <= Memory(P) + Memory(Q)
    BY <1>9, <1>10, <1>11
<1> QED
    BY <1>5, <1>6, <1>11, <1>12

\* The memory of a set of pods of the cluster, in which a pod of the request may
\* occur more than once.
LEMMA MemoryOfType ==
    ASSUME NEW vs, IsFiniteSet(vs), \A v \in vs : v.pod \in Pods
    PROVE MemoryOf(vs) \in Nat
<1> DEFINE g == [v \in vs |-> PodInfo[v.pod].memory]
<1>1. \A v \in vs : g[v] \in Nat
    BY PodMemory
<1> HIDE DEF g
<1>2. SumFunctionOnSet(g, vs) \in Nat
    BY <1>1, SumType
<1> QED
    BY <1>2 DEF MemoryOf, g

\* One pod object more adds at most its memory: it may be there already.
LEMMA MemoryOfAdd ==
    ASSUME NEW vs, IsFiniteSet(vs), \A v \in vs : v.pod \in Pods, NEW u, u.pod \in Pods
    PROVE MemoryOf(vs \cup {u}) <= MemoryOf(vs) + PodInfo[u.pod].memory
<1>1. CASE u \in vs
    <2>1. vs \cup {u} = vs
        BY <1>1
    <2>2. MemoryOf(vs) \in Nat /\ PodInfo[u.pod].memory \in Nat
        BY MemoryOfType, PodMemory
    <2>3. MemoryOf(vs \cup {u}) = MemoryOf(vs)
        BY <2>1
    <2> QED
        BY <2>2, <2>3
<1>2. CASE u \notin vs
    <2> DEFINE us == vs \cup {u}
               g == [v \in us |-> PodInfo[v.pod].memory]
               f == [v \in vs |-> PodInfo[v.pod].memory]
    <2>1. /\ \A v \in vs : g[v] \in Nat /\ f[v] = g[v]
          /\ g[u] \in Nat /\ g[u] = PodInfo[u.pod].memory
        BY PodMemory
    <2>2. MemoryOf(us) = SumFunctionOnSet(g, us) /\ MemoryOf(vs) = SumFunctionOnSet(f, vs)
        BY DEF MemoryOf
    <2> HIDE DEF f, g
    <2>3. SumFunctionOnSet(g, vs \cup {u}) = SumFunctionOnSet(g, vs) + g[u]
        BY <1>2, <2>1, SumAdd
    <2>4. SumFunctionOnSet(f, vs) = SumFunctionOnSet(g, vs)
        BY <2>1, SumSame
    <2>5. SumFunctionOnSet(g, vs) \in Nat
        BY <2>1, SumType
    <2>6. MemoryOf(vs \cup {u}) = MemoryOf(vs) + PodInfo[u.pod].memory
        BY <2>1, <2>2, <2>3, <2>4
    <2>7. MemoryOf(vs) \in Nat /\ PodInfo[u.pod].memory \in Nat
        BY MemoryOfType, PodMemory
    <2> QED
        BY <2>6, <2>7
<1> QED
    BY <1>1, <1>2

\* The memory of some pods is at most that of a set in which each has an object.
LEMMA MemoryOfNames ==
    ASSUME NEW P \in SUBSET Pods, NEW vs, IsFiniteSet(vs), \A v \in vs : v.pod \in Pods,
           \A p \in P : \E v \in vs : v.pod = p
    PROVE Memory(P) <= MemoryOf(vs)
<1> DEFINE f == [p \in Pods |-> PodInfo[p].memory]
           g == [v \in vs |-> PodInfo[v.pod].memory]
           h == [p \in P |-> CHOOSE v \in vs : v.pod = p]
<1>1. \A p \in P : h[p] \in vs /\ h[p].pod = p
    OBVIOUS
<1>2. \A v \in vs : g[v] \in Nat /\ g[v] = PodInfo[v.pod].memory
    BY PodMemory
<1>3. \A p \in P : f[p] \in Nat /\ f[p] = PodInfo[p].memory
    BY PodMemory
<1>4. Memory(P) = SumFunctionOnSet(f, P) /\ MemoryOf(vs) = SumFunctionOnSet(g, vs)
    BY DEF Memory, MemoryOf
<1> HIDE DEF f, g, h
<1>5. IsFiniteSet(P)
    BY FiniteAssumption, FS_Subset
<1>6. \A p \in P : g[h[p]] = f[p]
    BY <1>1, <1>2, <1>3
<1>7. \A p, q \in P : h[p] = h[q] => p = q
    BY <1>1
<1>8. SumFunctionOnSet(g, Image(h, P)) = SumFunctionOnSet(f, P)
    BY <1>3, <1>5, <1>6, <1>7, SumRenamed
<1>9. Image(h, P) \in SUBSET vs
    BY <1>1 DEF Image
<1>10. SumFunctionOnSet(g, Image(h, P)) <= SumFunctionOnSet(g, vs)
    BY <1>2, <1>9, SumMonotone
<1> QED
    BY <1>4, <1>8, <1>10

\* The memory of objects of which no two have the same name is at most that of the names.
LEMMA NamesOfMemory ==
    ASSUME NEW P \in SUBSET Pods, NEW vs, IsFiniteSet(vs), \A v \in vs : v.pod \in P,
           \A v, w \in vs : v.pod = w.pod => v = w
    PROVE MemoryOf(vs) <= Memory(P)
<1> DEFINE f == [v \in vs |-> PodInfo[v.pod].memory]
           g == [p \in Pods |-> PodInfo[p].memory]
           h == [v \in vs |-> v.pod]
<1>1. \A v \in vs : h[v] \in P /\ h[v] = v.pod
    OBVIOUS
<1>2. \A v \in vs : f[v] \in Nat /\ f[v] = PodInfo[v.pod].memory
    BY PodMemory
<1>3. \A p \in P : g[p] \in Nat /\ g[p] = PodInfo[p].memory
    BY PodMemory
<1>4. Memory(P) = SumFunctionOnSet(g, P) /\ MemoryOf(vs) = SumFunctionOnSet(f, vs)
    BY DEF Memory, MemoryOf
<1> HIDE DEF f, g, h
<1>5. IsFiniteSet(P)
    BY FiniteAssumption, FS_Subset
<1>6. \A v \in vs : g[h[v]] = f[v]
    BY <1>1, <1>2, <1>3
<1>7. \A v, w \in vs : h[v] = h[w] => v = w
    BY <1>1
<1>8. SumFunctionOnSet(g, Image(h, vs)) = SumFunctionOnSet(f, vs)
    BY <1>2, <1>6, <1>7, SumRenamed
<1>9. Image(h, vs) \in SUBSET P
    BY <1>1 DEF Image
<1>10. SumFunctionOnSet(g, Image(h, vs)) <= SumFunctionOnSet(g, P)
    BY <1>3, <1>5, <1>9, SumMonotone
<1> QED
    BY <1>4, <1>8, <1>10

-----------------------------------------------------------------------------
(* Lemmas: names and finite sets of pods *)

\* A name loses its prefix once, becomes a name no node of the request has, and keeps its capacity.
LEMMA StrippedNames ==
    ASSUME NEW n \in NodeName
    PROVE /\ withoutPrefix(n) \in PlaceName /\ withoutPrefix(n) # None /\ n # None
          /\ withoutPrefix(withoutPrefix(n)) = withoutPrefix(n)
          /\ withoutPrefix(n) # n => withoutPrefix(n) \notin NodeName
          /\ Capacity(n) \in Nat /\ Capacity(withoutPrefix(n)) = Capacity(n)
<1>1. \A m \in StrippedName : m \notin InitialNodes /\ m \notin ScaledNode
    BY NameAssumption DEF StrippedName, ScaledNode
<1>2. CASE n \in InitialNodes \cap Prefixed
    <2>1. withoutPrefix(n) = [stripped |-> n]
        BY <1>2 DEF withoutPrefix
    <2>2. [stripped |-> n] \in StrippedName /\ [stripped |-> n].stripped = n
        BY <1>2 DEF StrippedName
    <2>3. withoutPrefix([stripped |-> n]) = [stripped |-> n]
        BY <1>1, <2>2 DEF withoutPrefix
    <2>4. Capacity(n) = Allocatable[n] /\ Capacity([stripped |-> n]) = Allocatable[n]
        BY <1>1, <1>2, <2>2 DEF Capacity
    <2> QED
        BY <1>1, <1>2, <2>1, <2>2, <2>3, <2>4, NameAssumption, AllocatableAssumption
        DEF PlaceName, NodeName
<1>3. CASE n \notin InitialNodes \cap Prefixed
    <2>1. withoutPrefix(n) = n
        BY <1>3 DEF withoutPrefix
    <2>2. CASE n \in InitialNodes
        BY <2>1, <2>2, NameAssumption, AllocatableAssumption DEF PlaceName, NodeName, Capacity
    <2>3. CASE n \in ScaledNode
        <3>1. Capacity(n) = NodePool[n.pool].allocatable
            BY <1>1, <2>3, NameAssumption DEF Capacity
        <3>2. n.pool \in NodePools
            BY <2>3 DEF ScaledNode
        <3> QED
            BY <2>1, <2>3, <3>1, <3>2, NameAssumption, NodePoolAssumption DEF PlaceName, NodeName
    <2> QED
        BY <2>2, <2>3 DEF NodeName
<1> QED
    BY <1>2, <1>3

\* The request has finitely many pods, and so has a set in which each has one object.
LEMMA FiniteByName ==
    ASSUME NEW vs, \A v \in vs : v.pod \in Pods, \A v, w \in vs : v.pod = w.pod => v = w
    PROVE IsFiniteSet(vs)
<1> DEFINE h == [v \in vs |-> v.pod]
<1>1. h \in Injection(vs, Pods)
    BY DEF Injection, IsInjective
<1> HIDE DEF h
<1> QED
    BY <1>1, FS_Injection, FiniteAssumption

\* Among pods of one priority the scheduler only binds.
LEMMA OnlyBinds ==
    ASSUME TypeInv, Scheduler, SamePriority
    PROVE \E v \in pods, n \in nodes :
              /\ v.at = None /\ Feasible(v, n)
              /\ \E u : /\ u.pod = v.pod /\ u.ref = v.ref /\ u.at = n
                        /\ pods' = (pods \ {v}) \cup {u}
<1>1. PICK v \in pods, n \in nodes :
          Schedule(v, n) \/ \E victim \in PodsAt(n) : Preempt(v, n, victim)
    BY DEF Scheduler
<1>2. v \in ClusterPod /\ pods \subseteq ClusterPod
    BY DEF TypeInv, TypeOK
<1>3. LowerPriority(v, n) = {}
    <2>1. \A w \in pods : /\ PodInfo[w.pod].priority = PodInfo[v.pod].priority
                          /\ PodInfo[w.pod].priority \in Nat
        BY <1>2, PodAssumption DEF SamePriority, ClusterPod
    <2>2. \A w \in pods : ~(PodInfo[w.pod].priority < PodInfo[v.pod].priority)
        BY <2>1
    <2> QED
        BY <2>2 DEF LowerPriority, PodsAt
<1>4. Schedule(v, n)
    BY <1>1, <1>3 DEF Preempt
<1>5. PICK u : u = [v EXCEPT !.at = n]
    OBVIOUS
<1>6. u.pod = v.pod /\ u.ref = v.ref /\ u.at = n
    BY <1>2, <1>5 DEF ClusterPod
<1>7. v.at = None /\ Feasible(v, n) /\ pods' = (pods \ {v}) \cup {u}
    BY <1>4, <1>5 DEF Schedule
<1> QED
    BY <1>6, <1>7

-----------------------------------------------------------------------------
(* The objects of the virtual cluster and what the results say of them *)

FinitePods == IsFiniteSet(pods)

\* A base node has the name of a node, a clone the same without the prefix.
WellNamed(n) ==
    IF n.ref = None THEN n.name \in NodeName
    ELSE \E m \in NodeName : n.name = withoutPrefix(m)

NodesWellNamed == \A n \in nodes : WellNamed(n)

StillFromRequest == \A p \in unscheduledPods : isUnscheduled(p)

\* Only a nominated pod is listed without a node.
NominatedOnly == \A q \in scheduledPods : q.at = None => isNominated(q.pod)

\* The pods that the lists say are on a node or, with its clone, under its name
\* without the prefix.
ListedAt(name) == {q.pod : q \in {r \in scheduledPods : r.at = name}}
Planned(name) == ListedAt(name) \cup ListedAt(withoutPrefix(name))

\* The pods that a result finds on a base node and on its clone.
OnBase(r, name) == {q.pod : q \in {p \in Placed(r) : p.at = Base(name)}}
OnClone(r, name) ==
    {q.pod : q \in {p \in Placed(r) : p.at.ref # None /\ p.at.name = withoutPrefix(name)}}
GoesTo(r, name) ==
    {q.pod : q \in {p \in Placed(r) : p.at.name \in {name, withoutPrefix(name)}}}

\* The scheduler found room on each of the two for the listed pods together with the
\* simulated ones that it put there.
ResultFits(r) ==
    \A name \in NodeName :
        /\ OnBase(r, name) # {} => Memory(ListedAt(name) \cup OnBase(r, name)) <= Capacity(name)
        /\ OnClone(r, name) # {} => Memory(Planned(name) \cup OnClone(r, name)) <= Capacity(name)

ResultOK(r) ==
    /\ \A q \in Placed(r) : WellNamed(q.at)
    /\ SamePriority => ResultFits(r)

ResultsOK ==
    /\ \A r \in resultCh : ResultOK(r)
    /\ pc \in {"send"} \cup Syncing => ResultOK(runResult)

\* The pods of the zone that is being simulated, from their binding to the result.
PodsOfZoneFit ==
    pc = "events" =>
        \A v \in DeployedPods :
            v.at # None => /\ WellNamed(v.at) /\ v.at.ref \in {None, runRef}
                           /\ SamePriority => Load(v.at) <= Capacity(v.at.name)

\* While zones are simulated, the clones of the scheduled pods take their room.
ClonesExpected ==
    pc \in {"deploy", "events"} \/ (pc \in {"zones", "send"} /\ zonesToSimulate # {})
ClonesPresent == SamePriority /\ ClonesExpected => ClonedScheduledPods \subseteq pods

\* A base pod was nominated by the request, or is where the lists say, or has been
\* written for a winner that the lists do not know yet.
BasePlanned ==
    \A v \in BasePods :
        \/ isNominated(v.pod)
        \/ \E q \in scheduledPods : q.pod = v.pod /\ v.at = Base(q.at)
        \/ /\ pc \in {"syncNode", "syncState", "done"}
           /\ IsRunResult(runResult) /\ ResultOK(runResult)
           /\ v \in BoundInBase(Placed(runResult))

\* What the lists put on a node, under both of its names.
Bounded(name, ps) ==
    \/ Memory(ps) <= 2 * Capacity(name)
    \/ Memory(ps) <= Memory({p \in Pods : PodInfo[p].node = name})

PlanFits ==
    SamePriority =>
        \A name \in NodeName :
            /\ Bounded(name, Planned(name))
            /\ withoutPrefix(name) # name =>
                  Memory(ListedAt(withoutPrefix(name))) <= Capacity(name)

MemoryInv ==
    /\ FinitePods /\ NodesWellNamed /\ StillFromRequest /\ NominatedOnly
    /\ ResultsOK /\ PodsOfZoneFit /\ ClonesPresent /\ BasePlanned /\ PlanFits

\* What the name of a node in the virtual cluster says of its capacity.
LEMMA WellNamedNodes ==
    ASSUME NEW n, WellNamed(n)
    PROVE /\ n.name \in PlaceName /\ n.name # None /\ Capacity(n.name) \in Nat
          /\ n.ref # None => withoutPrefix(n.name) = n.name
    BY StrippedNames, NodeNamesArePlaces DEF WellNamed

\* The lists of a node consist of pods.
LEMMA ListedArePods ==
    ASSUME TypeInv, NEW name
    PROVE ListedAt(name) \subseteq Pods /\ Planned(name) \subseteq Pods
    BY DEF TypeInv, TypeOK, ListedAt, Planned

\* So do the placements of a result.
LEMMA PlacedArePods ==
    ASSUME NEW r, IsRunResult(r), NEW name
    PROVE /\ OnBase(r, name) \subseteq Pods /\ OnClone(r, name) \subseteq Pods
          /\ GoesTo(r, name) \subseteq Pods
    BY DEF IsRunResult, Placed, Placement, OnBase, OnClone, GoesTo

\* Before Run there is nothing in the virtual cluster.
LEMMA InitMemoryInv == Init => MemoryInv
<1> SUFFICES ASSUME Init PROVE MemoryInv
    OBVIOUS
<1>1. FinitePods
    BY FS_EmptySet DEF Init, FinitePods
<1>2. StillFromRequest /\ NominatedOnly
    BY DEF Init, StillFromRequest, NominatedOnly, UnscheduledInRequest, ScheduledInRequest,
           isUnscheduled, isNominated
<1>3. PlanFits
    <2> SUFFICES ASSUME NEW name \in NodeName
                 PROVE /\ Bounded(name, Planned(name))
                       /\ withoutPrefix(name) # name =>
                             Memory(ListedAt(withoutPrefix(name))) <= Capacity(name)
        BY DEF PlanFits
    <2>1. ASSUME NEW m \in NodeName, withoutPrefix(m) # m
          PROVE ListedAt(withoutPrefix(m)) = {}
        <3>1. withoutPrefix(m) \in StrippedName
            BY <2>1 DEF withoutPrefix, StrippedName
        <3>2. withoutPrefix(m) \notin InitialNodes \cup OtherNodes \cup {None}
            BY <3>1, StrippedNames, NameAssumption
        <3> QED
            BY <3>2, PodAssumption DEF Init, ScheduledInRequest, ListedAt
    <2>2. Planned(name) = ListedAt(name)
        BY <2>1 DEF Planned
    <2>3. ListedAt(name) \subseteq {p \in Pods : PodInfo[p].node = name}
        BY DEF Init, ScheduledInRequest, ListedAt
    <2> DEFINE ps == {p \in Pods : PodInfo[p].node = name}
    <2>4. Memory(ListedAt(name)) <= Memory(ps)
        BY <2>3, MemoryFacts
    <2>5. withoutPrefix(name) # name => Memory(ListedAt(withoutPrefix(name))) <= Capacity(name)
        <3>1. Memory({}) = 0
            BY SumEmpty DEF Memory
        <3> QED
            BY <2>1, <3>1, StrippedNames
    <2> QED
        BY <2>2, <2>4, <2>5 DEF Bounded
<1>4. /\ NodesWellNamed /\ ResultsOK /\ PodsOfZoneFit /\ ClonesPresent /\ BasePlanned
    BY DEF Init, NodesWellNamed, ResultsOK, PodsOfZoneFit, ClonesPresent, ClonesExpected,
           BasePlanned, BasePods, Syncing
<1> QED
    BY <1>1, <1>2, <1>3, <1>4 DEF MemoryInv

-----------------------------------------------------------------------------
(* The objects, step by step *)

\* What the actions add to the pods has one object per name.
LEMMA FinitePodsStep ==
    ASSUME TypeInv, PodInv, FinitePods, [Next]_vars
    PROVE FinitePods'
<1> USE DEF FinitePods
<1>1. ASSUME NEW new, \A v \in new : v.pod \in Pods, \A v, w \in new : v.pod = w.pod => v = w,
             pods' \subseteq pods \cup new
      PROVE IsFiniteSet(pods')
    <2>1. IsFiniteSet(new)
        BY <1>1, FiniteByName
    <2> QED
        BY <1>1, <2>1, FS_Union, FS_Subset
<1>2. CASE initializeVirtualCluster
    <2>1. pods' \subseteq pods \cup InitialCluster.pods
        BY <1>2 DEF initializeVirtualCluster, CreatesSome
    <2>2. \A v \in InitialCluster.pods : \E q \in scheduledPods :
              v = [pod |-> q.pod, ref |-> None, at |-> IF q.at = None THEN None ELSE Base(q.at)]
        BY DEF InitialCluster
    <2>3. \A v, w \in InitialCluster.pods : v.pod = w.pod => v = w
        BY <2>2 DEF PodInv, PodsPartitioned
    <2>4. \A v \in InitialCluster.pods : v.pod \in Pods
        BY <2>2 DEF TypeInv, TypeOK
    <2> QED
        BY <1>1, <2>1, <2>3, <2>4
<1>3. CASE setupSimulationRun
    <2>1. pc = "setup" /\ pods' \subseteq pods \cup ClonedScheduledPods
        BY <1>3 DEF setupSimulationRun, CreatesSome
    <2>2. \A v \in ClonedScheduledPods : v.pod \in Pods /\ v.ref = runRef
        BY DEF ClonedScheduledPods, TypeInv, TypeOK
    <2> QED
        BY <1>1, <2>1, <2>2, ClonesAreNew
<1>4. CASE createAndDeployUnscheduledPods
    <2>1. pods' \subseteq pods \cup NewPods
        BY <1>4 DEF createAndDeployUnscheduledPods
    <2>2. /\ \A v \in NewPods : v.pod \in Pods
          /\ \A v, w \in NewPods : v.pod = w.pod => v = w
        BY DEF NewPods, TypeInv, TypeOK
    <2> QED
        BY <1>1, <2>1, <2>2
<1>5. CASE SyncPods
    <2> DEFINE new == BoundInBase(Placed(runResult))
    <2>1. pc = "syncPods" /\ pods' \subseteq pods \cup new
        BY <1>5 DEF SyncPods
    <2>2. \A q1, q2 \in Placed(runResult) : q1.pod = q2.pod => q1 = q2
        BY <2>1 DEF PodInv, ResultsPlaceUnscheduled, Syncing, PlacesUnscheduled, Placed
    <2>3. \A v, w \in new : v.pod = w.pod => v = w
        BY <2>2 DEF BoundInBase
    <2>4. \A v \in new : v.pod \in Pods
        BY <2>1 DEF BoundInBase, Placed, TypeInv, ControlOK, Syncing, IsRunResult, Placement
    <2> HIDE DEF new
    <2> QED
        BY <1>1, <2>1, <2>3, <2>4
<1>6. CASE Scheduler
    <2>1. PICK v \in pods, n \in nodes :
              Schedule(v, n) \/ \E victim \in PodsAt(n) : Preempt(v, n, victim)
        BY <1>6 DEF Scheduler
    <2> DEFINE new == {[v EXCEPT !.at = n]}
    <2>2. pods' \subseteq pods \cup new
        BY <2>1 DEF Schedule, Preempt
    <2>3. \A w \in new : w.pod \in Pods
        BY DEF TypeInv, TypeOK, ClusterPod
    <2> QED
        BY <1>1, <2>2, <2>3
<1>7. CASE CollectSchedulingEvents \/ cleanUpNodePoolSimRun
    <2>1. pods' \subseteq pods
        BY <1>7 DEF CollectSchedulingEvents, cleanUpNodePoolSimRun, Deletes
    <2> QED
        BY <2>1, FS_Subset
<1>8. CASE UNCHANGED pods
    BY <1>8
<1> QED
    BY <1>2, <1>3, <1>4, <1>5, <1>6, <1>7, <1>8, ClusterWriters
    DEF cluster, CreateScaledNode, SyncNode

\* Every node is created under a name of the request or of a template.
LEMMA NodesWellNamedStep ==
    ASSUME TypeInv, NodesWellNamed, [Next]_vars
    PROVE NodesWellNamed'
<1>2. \A n \in NodeName : WellNamed(Base(n))
    BY DEF WellNamed, Base
<1>3. CASE initializeVirtualCluster
    <2>1. nodes' \subseteq nodes \cup {Base(n) : n \in existingNodes}
        BY <1>3 DEF initializeVirtualCluster, InitialCluster, CreatesSome
    <2>2. existingNodes \subseteq NodeName
        BY DEF TypeInv, TypeOK
    <2> QED
        BY <1>2, <2>1, <2>2 DEF NodesWellNamed
<1>4. CASE setupSimulationRun
    <2>1. nodes' \subseteq nodes \cup ClonedNodes /\ pc \in Simulating
        BY <1>4 DEF setupSimulationRun, CreatesSome, Simulating
    <2>2. existingNodes \subseteq NodeName
        BY DEF TypeInv, TypeOK
    <2>3. \A n \in NodeName : WellNamed(Clone(n))
        BY <2>1, RunRefNotNone, StrippedNames DEF WellNamed, Clone
    <2> QED
        BY <2>1, <2>2, <2>3 DEF ClonedNodes, NodesWellNamed
<1>5. CASE \E z \in zonesToSimulate : CreateScaledNode(z)
    <2>1. PICK z \in zonesToSimulate : CreateScaledNode(z)
        BY <1>5
    <2>2. nodes' \subseteq nodes \cup {Clone(scaledNode(z))}
        BY <2>1 DEF CreateScaledNode
    <2>3. pc \in Simulating /\ z \in ZoneNames
        BY <2>1 DEF CreateScaledNode, Simulating, TypeInv, TypeOK
    <2>4. Clone(scaledNode(z)).name \in ScaledNode /\ Clone(scaledNode(z)).ref # None
        BY <2>3, ScaledNodeAdded, RunRefNotNone
    <2>5. WellNamed(Clone(scaledNode(z)))
        <3>1. \A n \in ScaledNode : n \in NodeName /\ n \in PlaceName /\ withoutPrefix(n) = n
            BY NameAssumption DEF NodeName, PlaceName, withoutPrefix
        <3> QED
            BY <2>4, <3>1 DEF WellNamed
    <2> QED
        BY <2>2, <2>5 DEF NodesWellNamed
<1>6. CASE SyncNode
    <2>1. nodes' \subseteq nodes \cup {Base(winnerNode)} /\ pc = "syncNode"
        BY <1>6 DEF SyncNode
    <2>2. winnerNode \in ScaledNode
        BY <2>1 DEF TypeInv, TypeOK, ControlOK, Syncing, IsRunResult, winnerNode, ScaledNode
    <2> QED
        BY <1>2, <2>1, <2>2 DEF NodeName, NodesWellNamed
<1>7. CASE \/ createAndDeployUnscheduledPods \/ CollectSchedulingEvents
           \/ cleanUpNodePoolSimRun \/ SyncPods \/ Scheduler \/ UNCHANGED cluster
    <2>1. nodes' \subseteq nodes
        BY <1>7, SchedulerStep DEF createAndDeployUnscheduledPods, CollectSchedulingEvents,
           cleanUpNodePoolSimRun, Deletes, SyncPods, cluster
    <2> QED
        BY <2>1 DEF NodesWellNamed
<1> QED
    BY <1>3, <1>4, <1>5, <1>6, <1>7, ClusterWriters

\* The lists grow by winners only, which leave the placements of the request as they are.
LEMMA StillFromRequestStep ==
    ASSUME StillFromRequest, [Next]_vars
    PROVE StillFromRequest'
<1>1. unscheduledPods' \subseteq unscheduledPods
    BY DEF Next, Recommender, Scheduler, Terminated, vars, state,
           initializeVirtualCluster, AllPodsScheduled, StartRun, NextPool, setupSimulationRun,
           CreateScaledNode, createAndDeployUnscheduledPods, CollectSchedulingEvents, SendResult,
           cleanUpNodePoolSimRun, EndWithoutWinner, getWinningRunResult, SyncPods, SyncNode,
           syncRecommenderStateWithWinningResult, StillUnscheduled, Schedule, Preempt
<1> QED
    BY <1>1 DEF StillFromRequest

\* The lists change only when a winner has been written, and then the results are gone.
LEMMA ListsKept ==
    ASSUME ResultsDrained, [Next]_vars
    PROVE \/ UNCHANGED scheduledPods
          \/ /\ syncRecommenderStateWithWinningResult
             /\ resultCh' = {} /\ pc = "syncState" /\ pc' = "loop"
<1>1. CASE syncRecommenderStateWithWinningResult
    BY <1>1 DEF syncRecommenderStateWithWinningResult, ResultsDrained, Syncing, Return
<1>2. CASE ~syncRecommenderStateWithWinningResult
    BY <1>2 DEF Next, Recommender, Scheduler, Terminated, vars, state,
           initializeVirtualCluster, AllPodsScheduled, StartRun, NextPool, setupSimulationRun,
           CreateScaledNode, createAndDeployUnscheduledPods, CollectSchedulingEvents, SendResult,
           cleanUpNodePoolSimRun, EndWithoutWinner, getWinningRunResult, SyncPods, SyncNode,
           Schedule, Preempt
<1> QED
    BY <1>1, <1>2

\* The pods that syncRecommenderStateWithWinningResult finds are those it wrote.
LEMMA FoundArePlanned ==
    ASSUME TypeInv, PodInv, StillFromRequest, BasePlanned, pc = "syncState",
           NEW v \in pods, v.ref = None, v.pod \in WinnerPods
    PROVE /\ ResultOK(runResult) /\ IsRunResult(runResult)
          /\ v \in BoundInBase(Placed(runResult))
<1>1. v.pod \in unscheduledPods
    BY DEF PodInv, ResultsPlaceUnscheduled, Syncing, PlacesUnscheduled, WinnerPods, Placed
<1>2. ~isNominated(v.pod)
    BY <1>1 DEF StillFromRequest, isUnscheduled, isNominated
<1>3. \A q \in scheduledPods : q.pod # v.pod
    BY <1>1 DEF PodInv, PodsPartitioned, TypeInv, TypeOK
<1> QED
    BY <1>2, <1>3 DEF BasePlanned, BasePods

\* Only the scheduled pods of the request can be nominated; a winner is bound to a node.
LEMMA NominatedOnlyStep ==
    ASSUME TypeInv, PodInv, ResultsDrained, MemoryInv, [Next]_vars
    PROVE NominatedOnly'
<1> USE DEF MemoryInv
<1>1. CASE UNCHANGED scheduledPods
    BY <1>1 DEF NominatedOnly
<1>2. CASE syncRecommenderStateWithWinningResult /\ ~UNCHANGED scheduledPods
    <2> DEFINE found == {v \in pods : v.ref = None /\ v.pod \in WinnerPods}
    <2>1. /\ pc = "syncState"
          /\ scheduledPods' = scheduledPods \cup {[pod |-> v.pod, at |-> v.at.name] : v \in found}
        BY <1>2 DEF syncRecommenderStateWithWinningResult, WinnerPods
    <2>2. ASSUME NEW v \in found PROVE v.at.name # None
        <3>1. ResultOK(runResult) /\ v \in BoundInBase(Placed(runResult))
            BY <2>1, FoundArePlanned
        <3>2. PICK q \in Placed(runResult) : v.at = Base(q.at.name)
            BY <3>1 DEF BoundInBase
        <3>3. q.at.name \in PlaceName
            BY <3>1, WellNamedNodes DEF ResultOK
        <3> QED
            BY <3>2, <3>3, NameAssumption DEF Base
    <2> QED
        BY <2>1, <2>2 DEF NominatedOnly
<1> QED
    BY <1>1, <1>2, ListsKept

\* Binding a pod fills a node up to its capacity and leaves the others alone.
LEMMA LoadAfterBinding ==
    ASSUME TypeInv, FinitePods, NodesWellNamed, NEW v \in pods, NEW n \in nodes,
           v.at = None, Feasible(v, n), NEW u, u.pod = v.pod, u.at = n,
           pods' = (pods \ {v}) \cup {u}, NEW m, m # None
    PROVE IF m = n THEN Load(m)' <= Capacity(m.name) ELSE Load(m)' = Load(m)
<1>1. n # None /\ v.pod \in Pods /\ \A w \in pods : w.pod \in Pods
    BY ReferenceAssumption DEF TypeInv, TypeOK, ClusterPod
<1>2. IsFiniteSet(PodsAt(n))
    BY FS_Subset DEF FinitePods, PodsAt
<1>3. CASE m = n
    <2>1. PodsAt(n)' = PodsAt(n) \cup {u}
        BY <1>1 DEF PodsAt
    <2>2. MemoryOf(PodsAt(n) \cup {u}) <= Load(n) + PodInfo[v.pod].memory
        BY <1>1, <1>2, MemoryOfAdd DEF PodsAt, Load
    <2>3. Load(n)' = MemoryOf(PodsAt(n) \cup {u})
        BY <2>1 DEF Load, MemoryOf
    <2>4. IsFiniteSet(PodsAt(n) \cup {u}) /\ \A w \in PodsAt(n) \cup {u} : w.pod \in Pods
        BY <1>1, <1>2, FS_AddElement DEF PodsAt
    <2>5. MemoryOf(PodsAt(n) \cup {u}) \in Nat
        BY <2>4, MemoryOfType
    <2>6. Load(n) \in Nat /\ PodInfo[v.pod].memory \in Nat
        BY <1>1, <1>2, MemoryOfType, PodMemory DEF PodsAt, Load
    <2>7. Capacity(n.name) \in Nat /\ Load(n) + PodInfo[v.pod].memory <= Capacity(n.name)
        BY WellNamedNodes DEF NodesWellNamed, Feasible
    <2>8. \A a, b, c, d \in Nat : a <= b + c /\ b + c <= d => a <= d
        OBVIOUS
    <2>9. Load(n)' <= Capacity(n.name)
        BY <2>2, <2>3, <2>5, <2>6, <2>7, <2>8
    <2> QED
        BY <1>3, <2>9 DEF Load, PodsAt
<1>4. CASE m # n
    <2>1. PodsAt(m)' = PodsAt(m)
        BY <1>1, <1>4 DEF PodsAt
    <2> QED
        BY <1>4, <2>1 DEF Load, MemoryOf
<1> QED
    BY <1>3, <1>4

\* The scheduler binds a pod where it fits, so what runs on a clone or a new node fits there.
LEMMA PodsOfZoneFitStep ==
    ASSUME TypeInv, FinitePods, NodesWellNamed, PodsOfZoneFit, [Next]_vars
    PROVE PodsOfZoneFit'
<1>1. CASE createAndDeployUnscheduledPods
    <2> SUFFICES ASSUME pc' = "events", NEW v \in DeployedPods'
                 PROVE v.at = None
        BY DEF PodsOfZoneFit
    <2>1. /\ pods' = pods \cup NewPods /\ \A w \in NewPods : ~NameTaken(w)
          /\ UNCHANGED <<unscheduledPods, nodePool, runNumber>>
        BY <1>1 DEF createAndDeployUnscheduledPods, Fails, state
    <2>2. v \in pods' /\ v.ref = runRef /\ v.pod \in unscheduledPods
        BY <2>1 DEF DeployedPods, runRef
    <2> DEFINE u == [pod |-> v.pod, ref |-> runRef, at |-> None]
    <2>3. u \in NewPods
        BY <2>2 DEF NewPods
    <2>4. v \notin pods
        BY <2>1, <2>2, <2>3 DEF NameTaken
    <2> QED
        BY <2>1, <2>2, <2>4 DEF NewPods
<1>2. CASE Scheduler
    <2> SUFFICES ASSUME pc = "events", NEW w \in DeployedPods', w.at # None
                 PROVE /\ WellNamed(w.at) /\ w.at.ref \in {None, runRef}
                       /\ SamePriority => Load(w.at)' <= Capacity(w.at.name)
        <3>1. pc' = pc /\ runRef' = runRef
            BY <1>2, SchedulerStep DEF loops, runRef
        <3> QED
            BY <3>1 DEF PodsOfZoneFit
    <2>1. w \in pods' /\ w.ref = runRef /\ w.pod \in unscheduledPods
        BY <1>2, SchedulerStep DEF loops, state, DeployedPods, runRef
    <2>2. \/ w \in DeployedPods
          \/ \E n \in nodes : n.ref \in {None, runRef} /\ w.at = n
        BY <1>2, <2>1, SchedulerStep DEF Tolerates, DeployedPods
    <2>3. WellNamed(w.at) /\ w.at.ref \in {None, runRef}
        BY <2>2 DEF PodsOfZoneFit, NodesWellNamed
    <2>4. ASSUME SamePriority PROVE Load(w.at)' <= Capacity(w.at.name)
        <3>1. PICK v \in pods, n \in nodes :
                  /\ v.at = None /\ Feasible(v, n)
                  /\ \E u : /\ u.pod = v.pod /\ u.ref = v.ref /\ u.at = n
                            /\ pods' = (pods \ {v}) \cup {u}
            BY <1>2, <2>4, OnlyBinds
        <3>2. PICK u : u.pod = v.pod /\ u.ref = v.ref /\ u.at = n
                       /\ pods' = (pods \ {v}) \cup {u}
            BY <3>1
        <3>3. IF w.at = n THEN Load(w.at)' <= Capacity(w.at.name)
                          ELSE Load(w.at)' = Load(w.at)
            BY <3>1, <3>2, LoadAfterBinding
        <3>4. w.at # n => w \in DeployedPods
            BY <2>1, <3>2 DEF DeployedPods
        <3>5. w \in DeployedPods => Load(w.at) <= Capacity(w.at.name)
            BY <2>4 DEF PodsOfZoneFit
        <3> QED
            BY <3>3, <3>4, <3>5
    <2> QED
        BY <2>3, <2>4
<1>3. CASE pc' # "events"
    BY <1>3 DEF PodsOfZoneFit
<1>4. CASE UNCHANGED vars
    BY <1>4 DEF vars, state, cluster, loops, PodsOfZoneFit, DeployedPods, runRef, Load, PodsAt,
        MemoryOf
<1> QED
    BY <1>1, <1>2, <1>3, <1>4 DEF Next, Recommender, Terminated, initializeVirtualCluster,
        AllPodsScheduled, StartRun, NextPool, setupSimulationRun, CreateScaledNode,
        CollectSchedulingEvents, SendResult, cleanUpNodePoolSimRun, EndWithoutWinner,
        getWinningRunResult, SyncPods, SyncNode, syncRecommenderStateWithWinningResult,
        Return, Fails

\* The clones of the scheduled pods stay while zones are simulated: only the pods of
\* the zone are deleted in between, and those were not scheduled.
LEMMA ClonesPresentStep ==
    ASSUME TypeInv, PodInv, ClonesPresent, NominatedOnly, [Next]_vars
    PROVE ClonesPresent'
<1> SUFFICES ASSUME SamePriority, ClonesExpected' PROVE (ClonedScheduledPods \subseteq pods)'
    BY DEF ClonesPresent
<1> USE DEF ClonesExpected
<1>0. ASSUME ClonesExpected, UNCHANGED <<scheduledPods, nodePool, runNumber>>,
             \A v \in ClonedScheduledPods : v \in pods => v \in pods'
      PROVE (ClonedScheduledPods \subseteq pods)'
    <2>1. ClonedScheduledPods' = ClonedScheduledPods
        BY <1>0 DEF ClonedScheduledPods, Clone, runRef
    <2> QED
        BY <1>0, <2>1 DEF ClonesPresent
<1>1. ClonesExpected => \A v \in ClonedScheduledPods : v.at # None /\ v.pod \notin unscheduledPods
    <2> SUFFICES ASSUME ClonesExpected, NEW q \in scheduledPods
                 PROVE Clone(q.at) # None /\ q.pod \notin unscheduledPods
        BY DEF ClonedScheduledPods
    <2>1. nodePool \in NodePools /\ q.at \in PlaceName \cup {None} /\ q.pod \in Pods
        BY DEF TypeInv, TypeOK, ControlOK, Simulating
    <2>2. Clone(q.at) \in ClusterNode
        BY <2>1, NamesTyped DEF TypeInv
    <2> QED
        BY <2>1, <2>2, ReferenceAssumption DEF PodInv, PodsPartitioned
<1>2. CASE setupSimulationRun
    BY <1>2 DEF setupSimulationRun, Fails, ClonedScheduledPods, Clone, runRef, state
<1>3. CASE CollectSchedulingEvents
    <2>1. pc = "events" => \A v \in ClonedScheduledPods : v \notin DeployedPods
        BY <1>1 DEF DeployedPods
    <2>2. /\ pods \ DeployedPods \subseteq pods' /\ pc = "events"
          /\ UNCHANGED <<scheduledPods, nodePool, runNumber>>
        BY <1>3 DEF CollectSchedulingEvents, Deletes, state
    <2> QED
        BY <1>0, <2>1, <2>2
<1>4. CASE Scheduler
    <2>1. PICK v \in pods : v.at = None /\ pods \ {v} \subseteq pods'
        BY <1>4, OnlyBinds
    <2>2. UNCHANGED <<scheduledPods, nodePool, runNumber, pc, zonesToSimulate>>
        BY <1>4, SchedulerStep DEF state, loops
    <2> QED
        BY <1>0, <1>1, <2>1, <2>2
<1>5. CASE \/ \E z \in zonesToSimulate : CreateScaledNode(z)
           \/ createAndDeployUnscheduledPods \/ SendResult \/ UNCHANGED vars
    <2>1. pods \subseteq pods' /\ UNCHANGED <<scheduledPods, nodePool, runNumber>>
        BY <1>5 DEF CreateScaledNode, createAndDeployUnscheduledPods, SendResult, vars, state,
           cluster, loops
    <2>2. ClonesExpected
        BY <1>5 DEF CreateScaledNode, createAndDeployUnscheduledPods, SendResult, vars, loops,
           Fails
    <2> QED
        BY <1>0, <2>1, <2>2
<1>6. CASE pc' \in {"done", "loop", "pools", "setup", "syncPods", "syncNode", "syncState"}
    BY <1>6
<1> QED
    BY <1>2, <1>3, <1>4, <1>5, <1>6 DEF Next, Recommender, Terminated, initializeVirtualCluster,
        AllPodsScheduled, StartRun, NextPool, cleanUpNodePoolSimRun, EndWithoutWinner,
        getWinningRunResult, SyncPods, SyncNode, syncRecommenderStateWithWinningResult, Return

-----------------------------------------------------------------------------
(* What the results say *)

\* Each pod of the request that the lists put on a node has a base object there.
LEMMA ListedOnBase ==
    ASSUME TypeInv, PodInv, BaseInv, SamePriority, pc = "events", NEW name \in NodeName,
           NEW p \in ListedAt(name)
    PROVE \E v \in PodsAt(Base(name)) : v.pod = p
<1>1. PICK q \in scheduledPods : q.at = name /\ q.pod = p
    BY DEF ListedAt
<1>2. BasePodsListed /\ ScheduledPodsExist
    BY DEF BaseInv, FreshStart, ClusterListed
<1>3. PICK v \in BasePods : v.pod = q.pod
    BY <1>2 DEF ScheduledPodsExist
<1>4. PICK r \in scheduledPods : r.pod = v.pod /\ (r.at = None \/ v.at = Base(r.at))
    BY <1>2 DEF BasePodsListed, BasePodListed
<1>5. r = q
    BY <1>3, <1>4 DEF PodInv, PodsPartitioned
<1>6. v.at = Base(name)
    BY <1>1, <1>4, <1>5, StrippedNames
<1> QED
    BY <1>1, <1>3, <1>6 DEF PodsAt, BasePods

\* Each pod that the lists put on a node, under either name, has an object on its clone.
LEMMA ListedOnClone ==
    ASSUME SamePriority, ClonesPresent, pc = "events", NEW name \in NodeName,
           NEW p \in Planned(name)
    PROVE \E v \in PodsAt(Clone(name)) : v.pod = p
<1>1. PICK q \in scheduledPods : q.at \in {name, withoutPrefix(name)} /\ q.pod = p
    BY DEF Planned, ListedAt
<1>2. Clone(q.at) = Clone(name)
    BY <1>1, StrippedNames DEF Clone
<1> DEFINE v == [pod |-> q.pod, ref |-> runRef, at |-> Clone(q.at)]
<1>3. v \in pods
    BY DEF ClonesPresent, ClonesExpected, ClonedScheduledPods
<1> QED
    BY <1>1, <1>2, <1>3 DEF PodsAt

\* If each of these pods has an object on a node that is not overcommitted, they fit.
LEMMA FitsOnNode ==
    ASSUME TypeInv, FinitePods, NEW n, Capacity(n.name) \in Nat, Load(n) <= Capacity(n.name),
           NEW P \in SUBSET Pods, \A p \in P : \E v \in PodsAt(n) : v.pod = p
    PROVE Memory(P) <= Capacity(n.name)
<1>1. IsFiniteSet(PodsAt(n)) /\ \A v \in PodsAt(n) : v.pod \in Pods
    BY FS_Subset DEF FinitePods, PodsAt, TypeInv, TypeOK, ClusterPod
<1>2. Memory(P) <= Load(n)
    BY <1>1, MemoryOfNames DEF Load
<1>3. Memory(P) \in Nat /\ Load(n) \in Nat
    BY <1>1, MemoryFacts, MemoryOfType DEF Load
<1> QED
    BY <1>2, <1>3

\* Whatever part of the bound pods was seen, the placements of the result fit on base node and clone.
LEMMA SeenFits ==
    ASSUME TypeInv, PodInv, BaseInv, MemoryInv, pc = "events",
           NEW seen \in SUBSET {v \in DeployedPods : v.at # None}
    PROVE ResultOK(computeRunResult(seen))
<1> DEFINE r == computeRunResult(seen)
<1>1. \A q \in Placed(r) : \E v \in seen : v.pod = q.pod /\ v.at = q.at
    BY DEF Placed, computeRunResult, getUpdatedPods
<1>2. \A v \in seen : /\ v \in pods /\ v.at \in ClusterNode /\ v.pod \in Pods
                      /\ WellNamed(v.at) /\ v.at.ref \in {None, runRef}
                      /\ SamePriority => Load(v.at) <= Capacity(v.at.name)
    BY DEF MemoryInv, PodsOfZoneFit, DeployedPods, TypeInv, TypeOK, ClusterPod
<1>3. \A q \in Placed(r) : q.pod \in Pods
    BY <1>1, <1>2
<1> HIDE DEF r
<1>4. ASSUME SamePriority, NEW name \in NodeName, OnBase(r, name) # {}
      PROVE Memory(ListedAt(name) \cup OnBase(r, name)) <= Capacity(name)
    <2>1. \A p \in OnBase(r, name) : p \in Pods /\ \E v \in PodsAt(Base(name)) : v.pod = p
        BY <1>1, <1>2 DEF OnBase, PodsAt
    <2>2. PICK v \in seen : v.at = Base(name)
        BY <1>1, <1>4 DEF OnBase
    <2>3. Base(name).name = name /\ Capacity(name) \in Nat
        BY StrippedNames DEF Base
    <2>4. Load(Base(name)) <= Capacity(Base(name).name)
        BY <1>2, <1>4, <2>2
    <2>5. \A p \in ListedAt(name) : p \in Pods /\ \E w \in PodsAt(Base(name)) : w.pod = p
        BY <1>4, ListedOnBase, ListedArePods
    <2> QED
        BY <2>1, <2>3, <2>4, <2>5, FitsOnNode DEF MemoryInv
<1>5. ASSUME SamePriority, NEW name \in NodeName, OnClone(r, name) # {}
      PROVE Memory(Planned(name) \cup OnClone(r, name)) <= Capacity(name)
    <2>1. \A v \in seen : v.at.ref # None /\ v.at.name = withoutPrefix(name) => v.at = Clone(name)
        BY <1>2 DEF Clone, ClusterNode
    <2>2. \A p \in OnClone(r, name) : p \in Pods /\ \E v \in PodsAt(Clone(name)) : v.pod = p
        BY <1>1, <1>2, <2>1 DEF OnClone, PodsAt
    <2>3. PICK v \in seen : v.at = Clone(name)
        BY <1>1, <1>5, <2>1 DEF OnClone
    <2>4. Capacity(Clone(name).name) = Capacity(name) /\ Capacity(name) \in Nat
        BY StrippedNames DEF Clone
    <2>5. Load(Clone(name)) <= Capacity(Clone(name).name)
        BY <1>2, <1>5, <2>3
    <2>6. \A p \in Planned(name) : p \in Pods /\ \E w \in PodsAt(Clone(name)) : w.pod = p
        BY <1>5, ListedOnClone, ListedArePods DEF MemoryInv
    <2> QED
        BY <2>2, <2>4, <2>5, <2>6, FitsOnNode DEF MemoryInv
<1>6. \A q \in Placed(r) : WellNamed(q.at)
    BY <1>1, <1>2
<1> QED
    BY <1>4, <1>5, <1>6 DEF ResultOK, ResultFits, r

\* What a result says holds as long as the lists stay the same.
LEMMA ResultOKKept ==
    ASSUME UNCHANGED scheduledPods, NEW r, ResultOK(r)
    PROVE ResultOK(r)' /\ (r = runResult' => ResultOK(runResult)')
<1>1. \A name : ListedAt(name)' = ListedAt(name)
    BY DEF ListedAt
<1>2. \A name : Planned(name)' = Planned(name)
    BY <1>1 DEF Planned
<1>3. ResultFits(r)' <=> ResultFits(r)
    BY <1>1, <1>2 DEF ResultFits
<1>4. ResultOK(r)'
    BY <1>3 DEF ResultOK
<1> QED
    BY <1>4 DEF ResultOK, ResultFits, OnBase, OnClone, Placed

\* A result is right when it is computed and stays so until the winner is written.
LEMMA ResultsOKStep ==
    ASSUME TypeInv, PodInv, BaseInv, ResultsDrained, MemoryInv, [Next]_vars
    PROVE ResultsOK'
<1> USE DEF Syncing
<1>1. CASE UNCHANGED scheduledPods
    <2>1. ASSUME NEW r, ResultOK(r) PROVE ResultOK(r)'
        BY <1>1, <2>1, ResultOKKept
    <2>2. ASSUME NEW r, r = runResult', ResultOK(r) PROVE ResultOK(runResult)'
        BY <1>1, <2>2, ResultOKKept
    <2>3. \A z : ResultOK(errorRunResult(z))
        BY DEF ResultOK, ResultFits, OnBase, OnClone, Placed, errorRunResult
    <2>4. CASE CollectSchedulingEvents
        <3>1. pc = "events" /\ pc' = "send" /\ resultCh' = resultCh
            BY <2>4 DEF CollectSchedulingEvents, Fails
        <3>2. \/ \E seen \in SUBSET {v \in DeployedPods : v.at # None} :
                    runResult' = computeRunResult(seen)
              \/ runResult' = errorRunResult(zone)
            BY <2>4 DEF CollectSchedulingEvents, Fails
        <3>3. PICK r : r = runResult' /\ ResultOK(r)
            BY <2>3, <3>1, <3>2, SeenFits
        <3> QED
            BY <2>1, <2>2, <3>1, <3>3 DEF MemoryInv, ResultsOK
    <2>5. CASE setupSimulationRun \/ createAndDeployUnscheduledPods
               \/ \E z \in zonesToSimulate : CreateScaledNode(z)
        <3>1. /\ resultCh' = resultCh
              /\ pc' \in {"zones", "deploy", "events", "send"}
              /\ pc' = "send" => \E z : runResult' = errorRunResult(z)
            BY <2>5 DEF setupSimulationRun, createAndDeployUnscheduledPods, CreateScaledNode, Fails
        <3>2. pc' = "send" => ResultOK(runResult)'
            BY <2>2, <2>3, <3>1
        <3> QED
            BY <2>1, <3>1, <3>2 DEF MemoryInv, ResultsOK
    <2>6. CASE SendResult
        <3>1. pc = "send" /\ pc' = "zones" /\ resultCh' = resultCh \cup {runResult}
            BY <2>6 DEF SendResult
        <3> QED
            BY <2>1, <3>1 DEF MemoryInv, ResultsOK
    <2>7. CASE getWinningRunResult
        <3>1. pc' = "syncPods" /\ runResult' \in resultCh /\ resultCh' = {}
            BY <2>7, WinnerIsResult DEF getWinningRunResult
        <3>2. PICK r \in resultCh : r = runResult'
            BY <3>1
        <3> QED
            BY <2>2, <3>1, <3>2 DEF MemoryInv, ResultsOK
    <2>8. CASE /\ resultCh' \subseteq resultCh
               /\ pc' \in {"send"} \cup Syncing =>
                      runResult' = runResult /\ pc \in {"send"} \cup Syncing
        <3>1. ResultOK(runResult) /\ runResult' = runResult => ResultOK(runResult)'
            BY <2>2
        <3> QED
            BY <2>1, <2>8, <3>1 DEF MemoryInv, ResultsOK
    <2> QED
        BY <2>4, <2>5, <2>6, <2>7, <2>8, SchedulerStep DEF Next, Recommender, Terminated, vars,
           initializeVirtualCluster, AllPodsScheduled, StartRun, NextPool, cleanUpNodePoolSimRun,
           EndWithoutWinner, SyncPods, SyncNode, syncRecommenderStateWithWinningResult, Return
<1>2. CASE resultCh' = {} /\ pc' = "loop"
    BY <1>2 DEF ResultsOK
<1> QED
    BY <1>1, <1>2, ListsKept

-----------------------------------------------------------------------------
(* What is written for the winner *)

\* The pods of the base objects are those the lists and the winner put there.
LEMMA BasePlannedStep ==
    ASSUME TypeInv, PodInv, BaseInv, ResultsDrained, MemoryInv, [Next]_vars
    PROVE BasePlanned'
<1> USE DEF Syncing
<1> DEFINE Listed(v) == \E q \in scheduledPods : q.pod = v.pod /\ v.at = Base(q.at)
           Written(v) == /\ IsRunResult(runResult) /\ ResultOK(runResult)
                         /\ v \in BoundInBase(Placed(runResult))
           After == pc \in {"syncNode", "syncState", "done"}
<1>1. BasePlanned <=> \A v \in BasePods : isNominated(v.pod) \/ Listed(v) \/ (After /\ Written(v))
    BY DEF BasePlanned
<1>2. BasePlanned' <=> \A v \in BasePods' :
                           isNominated(v.pod) \/ Listed(v)' \/ (After' /\ Written(v)')
    BY DEF BasePlanned
<1>3. UNCHANGED scheduledPods => \A v : Listed(v)' <=> Listed(v)
    BY DEF Base
<1>4. ASSUME UNCHANGED <<scheduledPods, runResult>>, NEW v,
             IsRunResult(runResult), ResultOK(runResult), v \in BoundInBase(Placed(runResult))
      PROVE Written(v)'
    <2>1. PICK r : r = runResult
        OBVIOUS
    <2>2. ResultOK(runResult)'
        BY <1>4, <2>1, ResultOKKept
    <2> QED
        BY <1>4, <2>2 DEF IsRunResult, BoundInBase, Placed, Base
<1>5. BasePlanned
    BY DEF MemoryInv
<1> HIDE DEF Listed, Written
<1>6. CASE initializeVirtualCluster
    <2>1. /\ pods = {} /\ UNCHANGED scheduledPods
          /\ pods' \subseteq InitialCluster.pods
        BY <1>6 DEF initializeVirtualCluster, CreatesSome, BaseInv, FreshStart, state
    <2>2. \A v \in InitialCluster.pods : isNominated(v.pod) \/ Listed(v)
        BY DEF InitialCluster, MemoryInv, NominatedOnly, Listed
    <2> QED
        BY <1>2, <1>3, <2>1, <2>2 DEF BasePods
<1>7. CASE SyncPods
    <2>1. /\ pods' \subseteq pods \cup BoundInBase(Placed(runResult))
          /\ pc = "syncPods" /\ pc' \in {"syncNode", "done"}
          /\ UNCHANGED <<scheduledPods, runResult>>
        BY <1>7 DEF SyncPods, Return, state
    <2>2. IsRunResult(runResult) /\ ResultOK(runResult)
        BY <2>1 DEF TypeInv, ControlOK, MemoryInv, ResultsOK
    <2>3. \A v \in BoundInBase(Placed(runResult)) : Written(v)'
        BY <1>4, <2>1, <2>2
    <2> QED
        BY <1>1, <1>2, <1>3, <1>5, <2>1, <2>3 DEF BasePods
<1>8. CASE SyncNode
    <2>1. /\ UNCHANGED <<pods, scheduledPods, runResult>> /\ pc' \in {"syncState", "done"}
        BY <1>8 DEF SyncNode, Return, state
    <2>2. \A v : Written(v) => Written(v)'
        BY <1>4, <2>1 DEF Written
    <2> QED
        BY <1>1, <1>2, <1>3, <1>5, <2>1, <2>2 DEF BasePods
<1>9. CASE syncRecommenderStateWithWinningResult
    <2> DEFINE found == {v \in pods : v.ref = None /\ v.pod \in WinnerPods}
    <2>1. CASE UNCHANGED scheduledPods /\ pc' = "done" /\ UNCHANGED runResult
        <3>1. UNCHANGED pods
            BY <1>9 DEF syncRecommenderStateWithWinningResult, cluster
        <3>2. \A v : Written(v) => Written(v)'
            BY <1>4, <2>1 DEF Written
        <3> QED
            BY <1>1, <1>2, <1>3, <1>5, <2>1, <3>1, <3>2 DEF BasePods
    <2>2. CASE scheduledPods' = scheduledPods \cup {[pod |-> v.pod, at |-> v.at.name] : v \in found}
        <3>1. UNCHANGED pods
            BY <1>9 DEF syncRecommenderStateWithWinningResult, cluster
        <3>2. ASSUME NEW v \in BasePods, Written(v) PROVE Listed(v)'
            <4>1. v \in found
                BY <3>2 DEF Written, BoundInBase, BasePods, WinnerPods
            <4>2. v.at = Base(v.at.name)
                BY <3>2 DEF Written, BoundInBase, Base
            <4> DEFINE q == [pod |-> v.pod, at |-> v.at.name]
            <4>3. q \in scheduledPods' /\ q.pod = v.pod /\ v.at = Base(q.at)
                BY <2>2, <4>1, <4>2
            <4> HIDE DEF q
            <4> QED
                BY <4>3 DEF Listed, Base
        <3>3. \A v : Listed(v) => Listed(v)'
            BY <2>2 DEF Listed, Base
        <3> QED
            BY <1>1, <1>2, <1>5, <3>1, <3>2, <3>3 DEF BasePods
    <2> QED
        BY <1>9, <2>1, <2>2 DEF syncRecommenderStateWithWinningResult, WinnerPods, Return
<1>10. CASE Scheduler
    <2>1. UNCHANGED <<scheduledPods, runResult, pc>>
        BY <1>10, SchedulerStep DEF state
    <2>2. ASSUME NEW v \in BasePods, v.at = None PROVE isNominated(v.pod)
        <3>1. Listed(v) => v.at \in ClusterNode
            BY NamesTyped DEF Listed, TypeInv, TypeOK
        <3>2. Written(v) => v.at \in ClusterNode
            BY BoundTyped DEF Written, TypeInv
        <3> QED
            BY <1>1, <1>5, <2>2, <3>1, <3>2, ReferenceAssumption
    <2>3. \A w \in BasePods' : w \in BasePods \/ isNominated(w.pod)
        BY <1>10, <2>2, SchedulerStep DEF BasePods
    <2>4. \A v : Written(v) => Written(v)'
        BY <1>4, <2>1 DEF Written
    <2> QED
        BY <1>1, <1>2, <1>3, <1>5, <2>1, <2>3, <2>4
<1>11. CASE \/ setupSimulationRun \/ \E z \in zonesToSimulate : CreateScaledNode(z)
            \/ createAndDeployUnscheduledPods \/ CollectSchedulingEvents
            \/ cleanUpNodePoolSimRun
    <2>1. BasePods' = BasePods
        BY <1>11, SimulationKeepsBase
    <2>2. UNCHANGED scheduledPods /\ ~After
        BY <1>11 DEF setupSimulationRun, CreateScaledNode, createAndDeployUnscheduledPods,
           CollectSchedulingEvents, cleanUpNodePoolSimRun, state
    <2> QED
        BY <1>1, <1>2, <1>3, <1>5, <2>1, <2>2
<1>12. CASE UNCHANGED vars
    <2>1. UNCHANGED <<pods, scheduledPods, runResult, pc>>
        BY <1>12 DEF vars, cluster, state
    <2>2. \A v : Written(v) => Written(v)'
        BY <1>4, <2>1 DEF Written
    <2> QED
        BY <1>1, <1>2, <1>3, <1>5, <2>1, <2>2 DEF BasePods
<1>13. CASE ~After /\ UNCHANGED <<pods, scheduledPods>>
    BY <1>1, <1>2, <1>3, <1>5, <1>13 DEF BasePods
<1> QED
    BY <1>6, <1>7, <1>8, <1>9, <1>10, <1>11, <1>12, <1>13 DEF Next, Recommender, Terminated,
       AllPodsScheduled, StartRun, NextPool, SendResult, EndWithoutWinner, getWinningRunResult,
       state, cluster

-----------------------------------------------------------------------------
(* How far a node is overcommitted *)

\* The pods that a result places on a node of this name.
AtName(r, name) == {q.pod : q \in {p \in Placed(r) : p.at.name = name}}

\* They are on the base node or on its clone; under a name that has lost the prefix
\* there is only the clone.
LEMMA BaseOrClone ==
    ASSUME NEW r, IsRunResult(r), ResultOK(r), NEW name \in NodeName
    PROVE /\ GoesTo(r, name) \subseteq OnBase(r, name) \cup OnClone(r, name)
          /\ withoutPrefix(name) # name => AtName(r, withoutPrefix(name)) \subseteq OnClone(r, name)
<1>1. ASSUME NEW q \in Placed(r), q.at.name \in {name, withoutPrefix(name)}
      PROVE \/ /\ q.at = Base(name)
               /\ q.at.name = withoutPrefix(name) => withoutPrefix(name) = name
            \/ q.at.ref # None /\ q.at.name = withoutPrefix(name)
    <2>1. q.at \in ClusterNode /\ WellNamed(q.at)
        BY DEF IsRunResult, Placed, Placement, ResultOK
    <2>2. CASE q.at.ref = None
        <3>1. q.at.name \in NodeName
            BY <2>1, <2>2 DEF WellNamed
        <3>2. q.at.name = name
            BY <1>1, <3>1, StrippedNames
        <3> QED
            BY <2>1, <2>2, <3>2 DEF Base, ClusterNode
    <2>3. CASE q.at.ref # None
        <3>1. withoutPrefix(q.at.name) = q.at.name
            BY <2>1, <2>3, WellNamedNodes
        <3> QED
            BY <1>1, <2>3, <3>1
    <2> QED
        BY <2>2, <2>3
<1> QED
    BY <1>1 DEF GoesTo, OnBase, OnClone, AtName

\* The result adds no more to a node than the scheduler found room for, once on the
\* base node and once on its clone.
LEMMA PlanGrows ==
    ASSUME TypeInv, PlanFits, SamePriority, NEW r, IsRunResult(r), ResultOK(r),
           NEW name \in NodeName, NEW P, P \subseteq Planned(name) \cup GoesTo(r, name)
    PROVE Bounded(name, P)
<1> DEFINE B == ListedAt(name) \cup OnBase(r, name)
           C == Planned(name) \cup OnClone(r, name)
           S == ListedAt(withoutPrefix(name))
<1>1. /\ P \subseteq Planned(name) \cup OnBase(r, name) \cup OnClone(r, name)
      /\ Planned(name) = ListedAt(name) \cup S
    BY BaseOrClone DEF Planned
<1>2. /\ B \in SUBSET Pods /\ C \in SUBSET Pods /\ S \in SUBSET Pods /\ P \in SUBSET Pods
      /\ Planned(name) \in SUBSET Pods
    BY <1>1, ListedArePods, PlacedArePods
<1>3. Capacity(name) \in Nat
    BY StrippedNames
<1>4. /\ OnBase(r, name) # {} => Memory(B) <= Capacity(name)
      /\ OnClone(r, name) # {} => Memory(C) <= Capacity(name)
      /\ withoutPrefix(name) # name => Memory(S) <= Capacity(name)
    BY DEF ResultOK, ResultFits, PlanFits
<1>5. Bounded(name, Planned(name))
    BY DEF PlanFits
<1>6. ASSUME NEW R \in SUBSET Pods, NEW T \in SUBSET Pods, P \subseteq R \cup T,
             Memory(R) <= Capacity(name), Memory(T) <= Capacity(name)
      PROVE Memory(P) <= 2 * Capacity(name)
    <2>1. Memory(P) <= Memory(R \cup T) /\ Memory(R \cup T) <= Memory(R) + Memory(T)
        BY <1>2, <1>6, MemoryFacts
    <2>2. /\ Memory(P) \in Nat /\ Memory(R \cup T) \in Nat
          /\ Memory(R) \in Nat /\ Memory(T) \in Nat
        BY <1>2, MemoryFacts
    <2> QED
        BY <1>3, <1>6, <2>1, <2>2
<1> HIDE DEF B, C, S
<1>7. CASE OnClone(r, name) # {} /\ OnBase(r, name) # {}
    <2>1. P \subseteq B \cup C
        BY <1>1 DEF B, C
    <2> QED
        BY <1>2, <1>4, <1>6, <1>7, <2>1 DEF Bounded
<1>8. CASE OnClone(r, name) # {} /\ OnBase(r, name) = {}
    <2>1. P \subseteq C \cup C
        BY <1>1, <1>8 DEF C
    <2> QED
        BY <1>2, <1>4, <1>6, <1>8, <2>1 DEF Bounded
<1>9. CASE OnClone(r, name) = {} /\ OnBase(r, name) # {}
    <2>1. P \subseteq B \cup S
        BY <1>1, <1>9 DEF B
    <2>2. withoutPrefix(name) = name => S \subseteq B
        BY DEF B, S
    <2>3. CASE withoutPrefix(name) = name
        <3>1. P \subseteq B \cup B
            BY <2>1, <2>2, <2>3
        <3> QED
            BY <1>2, <1>4, <1>6, <1>9, <3>1 DEF Bounded
    <2>4. CASE withoutPrefix(name) # name
        BY <1>2, <1>4, <1>6, <1>9, <2>1, <2>4 DEF Bounded
    <2> QED
        BY <2>3, <2>4
<1>10. CASE OnClone(r, name) = {} /\ OnBase(r, name) = {}
    <2>1. P \subseteq Planned(name)
        BY <1>1, <1>10
    <2>2. Memory(P) <= Memory(Planned(name))
        BY <1>2, <2>1, MemoryFacts
    <2> DEFINE Q == {p \in Pods : PodInfo[p].node = name}
    <2>3. Memory(P) \in Nat /\ Memory(Planned(name)) \in Nat /\ Memory(Q) \in Nat
        BY <1>2, MemoryFacts
    <2> QED
        BY <1>3, <1>5, <2>2, <2>3 DEF Bounded
<1> QED
    BY <1>7, <1>8, <1>9, <1>10

\* The name without prefix collects clones only, and those fit on one clone.
LEMMA StrippedGrows ==
    ASSUME TypeInv, PlanFits, SamePriority, NEW r, IsRunResult(r), ResultOK(r),
           NEW name \in NodeName, withoutPrefix(name) # name,
           NEW P, P \subseteq ListedAt(withoutPrefix(name)) \cup AtName(r, withoutPrefix(name))
    PROVE Memory(P) <= Capacity(name)
<1> DEFINE C == Planned(name) \cup OnClone(r, name)
           S == ListedAt(withoutPrefix(name))
<1>1. /\ C \in SUBSET Pods /\ S \in SUBSET Pods
      /\ P \subseteq S \cup OnClone(r, name) /\ S \subseteq C
    BY ListedArePods, PlacedArePods, BaseOrClone DEF Planned
<1>2. /\ OnClone(r, name) # {} => Memory(C) <= Capacity(name)
      /\ Memory(S) <= Capacity(name)
    BY DEF ResultOK, ResultFits, PlanFits
<1>3. ASSUME NEW R \in SUBSET Pods, P \subseteq R, Memory(R) <= Capacity(name)
      PROVE Memory(P) <= Capacity(name)
    <2>1. P \in SUBSET Pods /\ Capacity(name) \in Nat
        BY <1>3, StrippedNames
    <2>2. Memory(P) <= Memory(R) /\ Memory(P) \in Nat /\ Memory(R) \in Nat
        BY <1>3, <2>1, MemoryFacts
    <2> QED
        BY <1>3, <2>1, <2>2
<1>4. CASE OnClone(r, name) = {}
    BY <1>1, <1>2, <1>3, <1>4
<1>5. CASE OnClone(r, name) # {}
    <2>1. P \subseteq C
        BY <1>1
    <2> HIDE DEF C
    <2> QED
        BY <1>1, <1>2, <1>3, <1>5, <2>1
<1> QED
    BY <1>4, <1>5

\* What a winner adds to a node fits once on its base object and once on its clone.
LEMMA PlanFitsStep ==
    ASSUME TypeInv, PodInv, ResultsDrained, MemoryInv, [Next]_vars
    PROVE PlanFits'
<1> USE DEF MemoryInv
<1>1. CASE UNCHANGED scheduledPods
    <2>1. \A name : ListedAt(name)' = ListedAt(name)
        BY <1>1 DEF ListedAt
    <2>2. \A name : Planned(name)' = Planned(name)
        BY <2>1 DEF Planned
    <2> QED
        BY <2>1, <2>2 DEF PlanFits
<1>2. CASE syncRecommenderStateWithWinningResult /\ ~UNCHANGED scheduledPods
    <2> DEFINE found == {v \in pods : v.ref = None /\ v.pod \in WinnerPods}
    <2>1. /\ pc = "syncState"
          /\ scheduledPods' = scheduledPods \cup {[pod |-> v.pod, at |-> v.at.name] : v \in found}
        BY <1>2 DEF syncRecommenderStateWithWinningResult, WinnerPods
    <2>2. ASSUME NEW name PROVE ListedAt(name)' \subseteq ListedAt(name) \cup AtName(runResult, name)
        <3>1. ASSUME NEW v \in found, v.at.name = name PROVE v.pod \in AtName(runResult, name)
            <4>1. v \in BoundInBase(Placed(runResult))
                BY <2>1, FoundArePlanned
            <4> QED
                BY <3>1, <4>1 DEF BoundInBase, Base, AtName
        <3> HIDE DEF found
        <3> QED
            BY <2>1, <3>1 DEF ListedAt
    <2>3. ASSUME NEW name
          PROVE Planned(name)' \subseteq Planned(name) \cup GoesTo(runResult, name)
        <3>1. AtName(runResult, name) \cup AtName(runResult, withoutPrefix(name))
                  \subseteq GoesTo(runResult, name)
            BY DEF AtName, GoesTo
        <3>2. ListedAt(withoutPrefix(name))' \subseteq
                  ListedAt(withoutPrefix(name)) \cup AtName(runResult, withoutPrefix(name))
            BY <2>2
        <3> QED
            BY <2>2, <3>1, <3>2 DEF Planned
    <2>4. CASE found = {}
        BY <1>2, <2>1, <2>4
    <2>5. CASE found # {}
        <3>1. IsRunResult(runResult) /\ ResultOK(runResult)
            BY <2>1, <2>5, FoundArePlanned
        <3> SUFFICES ASSUME SamePriority, NEW name \in NodeName
                     PROVE /\ Bounded(name, Planned(name)')
                           /\ withoutPrefix(name) # name =>
                                 Memory(ListedAt(withoutPrefix(name))') <= Capacity(name)
            BY DEF PlanFits, Bounded
        <3>2. Bounded(name, Planned(name)')
            BY <2>3, <3>1, PlanGrows
        <3>3. withoutPrefix(name) # name =>
                  Memory(ListedAt(withoutPrefix(name))') <= Capacity(name)
            BY <2>2, <3>1, StrippedGrows
        <3> QED
            BY <3>2, <3>3
    <2> QED
        BY <2>4, <2>5
<1> QED
    BY <1>1, <1>2, ListsKept

\* The invariants behind OvercommitBounded hold in every state.
LEMMA MemoryInvariant == Spec => [](TypeInv /\ PodInv /\ BaseInv /\ MemoryInv)
<1>1. TypeInv /\ ResultsDrained /\ [Next]_vars => ResultsDrained'
    BY ResultsDrainedStep
<1>2. Init => ResultsDrained
    BY DEF Init, ResultsDrained
<1>3. TypeInv /\ PodInv /\ BaseInv /\ ResultsDrained /\ MemoryInv /\ [Next]_vars => MemoryInv'
    <2> SUFFICES ASSUME TypeInv, PodInv, BaseInv, ResultsDrained, MemoryInv, [Next]_vars
                 PROVE MemoryInv'
        OBVIOUS
    <2>1. /\ FinitePods /\ NodesWellNamed /\ StillFromRequest /\ NominatedOnly
          /\ PodsOfZoneFit /\ ClonesPresent
        BY DEF MemoryInv
    <2>2. FinitePods' /\ NodesWellNamed' /\ StillFromRequest' /\ NominatedOnly'
        BY <2>1, FinitePodsStep, NodesWellNamedStep, StillFromRequestStep, NominatedOnlyStep
    <2>3. ResultsOK' /\ BasePlanned' /\ PlanFits'
        BY ResultsOKStep, BasePlannedStep, PlanFitsStep
    <2>4. PodsOfZoneFit' /\ ClonesPresent'
        BY <2>1, PodsOfZoneFitStep, ClonesPresentStep
    <2> QED
        BY <2>2, <2>3, <2>4 DEF MemoryInv
<1> QED
    BY InitMemoryInv, PodInvariant, BaseInvariant, <1>1, <1>2, <1>3, PTL DEF Spec

\* For every request without preemption, whatever fails and whatever the scheduler does
\* late: the pods that Run has put on a node take at most twice its memory, or no more
\* than those that the request had already put there.
THEOREM NodesAtMostTwiceFull == Spec => []OvercommitBounded
<1>1. TypeInv /\ PodInv /\ MemoryInv => OvercommitBounded
    <2> SUFFICES ASSUME TypeInv, PodInv, MemoryInv, SamePriority, NEW n \in BaseNodes
                 PROVE \/ MemoryOf(PlannedAt(n)) <= 2 * Capacity(n.name)
                       \/ MemoryOf(PlannedAt(n)) <= MemoryInRequest(n)
        BY DEF OvercommitBounded
    <2> DEFINE name == n.name
               P == {v.pod : v \in PlannedAt(n)}
    <2>1. name \in NodeName /\ n = Base(name)
        BY DEF BaseNodes, MemoryInv, NodesWellNamed, WellNamed, TypeInv, TypeOK, ClusterNode, Base
    <2>2. \A v \in PlannedAt(n) : v \in BasePods /\ ~isNominated(v.pod) /\ v.pod \in Pods
                                  /\ v.at.name \in {name, withoutPrefix(name)}
        BY <2>1 DEF PlannedAt, BasePods, TypeInv, TypeOK, ClusterPod, Base
    <2>3. ASSUME NEW v \in PlannedAt(n)
          PROVE \/ v.pod \in Planned(name)
                \/ /\ IsRunResult(runResult) /\ ResultOK(runResult)
                   /\ v.pod \in GoesTo(runResult, name)
        <3>1. CASE \E q \in scheduledPods : q.pod = v.pod /\ v.at = Base(q.at)
            BY <2>2, <3>1 DEF Planned, ListedAt, Base
        <3>2. CASE v \in BoundInBase(Placed(runResult))
            <4>1. v.pod \in GoesTo(runResult, name)
                BY <2>2, <3>2 DEF BoundInBase, Base, GoesTo
            <4> QED
                BY <2>2, <3>1, <4>1 DEF MemoryInv, BasePlanned
        <3> QED
            BY <2>2, <3>1, <3>2 DEF MemoryInv, BasePlanned
    <2> HIDE DEF name
    <2>4. Bounded(name, P)
        <3>1. CASE IsRunResult(runResult) /\ ResultOK(runResult)
            <4>1. P \subseteq Planned(name) \cup GoesTo(runResult, name)
                BY <2>3
            <4> HIDE DEF P
            <4> QED
                BY <2>1, <3>1, <4>1, PlanGrows DEF MemoryInv
        <3>2. CASE ~(IsRunResult(runResult) /\ ResultOK(runResult))
            <4>1. P \in SUBSET Pods /\ Planned(name) \in SUBSET Pods /\ P \subseteq Planned(name)
                BY <2>2, <2>3, <3>2, ListedArePods
            <4> HIDE DEF P
            <4>2. Memory(P) <= Memory(Planned(name))
                BY <4>1, MemoryFacts
            <4>3. Bounded(name, Planned(name))
                BY <2>1 DEF MemoryInv, PlanFits
            <4> DEFINE Q == {p \in Pods : PodInfo[p].node = name}
            <4>4. /\ Memory(P) \in Nat /\ Memory(Planned(name)) \in Nat /\ Memory(Q) \in Nat
                  /\ Capacity(name) \in Nat
                BY <2>1, <4>1, MemoryFacts, StrippedNames
            <4> QED
                BY <4>2, <4>3, <4>4 DEF Bounded
        <3> QED
            BY <3>1, <3>2
    <2>5. MemoryOf(PlannedAt(n)) <= Memory(P) /\ MemoryOf(PlannedAt(n)) \in Nat /\ P \in SUBSET Pods
        <3>1. IsFiniteSet(PlannedAt(n)) /\ P \in SUBSET Pods
            BY <2>2, FS_Subset DEF PlannedAt, BasePods, MemoryInv, FinitePods
        <3>2. \A v, w \in PlannedAt(n) : v.pod = w.pod => v = w
            BY DEF PlannedAt, BasePods, PodInv, UniqueNames
        <3>3. \A v \in PlannedAt(n) : v.pod \in P /\ v.pod \in Pods
            BY <2>2
        <3> HIDE DEF P
        <3> QED
            BY <3>1, <3>2, <3>3, NamesOfMemory, MemoryOfType
    <2> DEFINE Q == {p \in Pods : PodInfo[p].node = name}
    <2>6. Memory(P) \in Nat /\ Memory(Q) \in Nat /\ Capacity(name) \in Nat
        BY <2>1, <2>5, MemoryFacts, StrippedNames
    <2>7. MemoryInRequest(n) = Memory(Q)
        BY DEF MemoryInRequest, name
    <2> HIDE DEF P, Q
    <2>8. Memory(P) <= 2 * Capacity(name) \/ Memory(P) <= Memory(Q)
        BY <2>4 DEF Bounded, Q
    <2>9. \/ MemoryOf(PlannedAt(n)) <= 2 * Capacity(name)
          \/ MemoryOf(PlannedAt(n)) <= Memory(Q)
        BY <2>5, <2>6, <2>8
    <2> QED
        BY <2>7, <2>9 DEF name
<1> QED
    BY MemoryInvariant, <1>1, PTL

-----------------------------------------------------------------------------
(* What the plan needs beyond memory *)

\* Each finished run has added one node.
RunsCounted ==
    /\ pc \in {"initialize", "loop"} => runNumber = Cardinality(recommendations)
    /\ pc \in InRun \cup Syncing => runNumber = Cardinality(recommendations) + 1
    /\ outcome = "none" <=> pc # "done"

\* A result that is no error is about a zone of its pool that has a template.
HasTemplate(r) ==
    ~r.err => r.zone \in NodePool[r.pool].zones /\ <<r.pool, r.zone>> \in NodeTemplates
TemplatesKnown ==
    /\ pc \in Simulating => zonesToSimulate \subseteq NodePool[nodePool].zones
    /\ pc \in {"deploy", "events"} =>
          zone \in NodePool[nodePool].zones /\ <<nodePool, zone>> \in NodeTemplates
    /\ \A r \in resultCh : HasTemplate(r)
    /\ pc \in {"send"} \cup Syncing => HasTemplate(runResult)

\* A pod that a result places on a base node is on one that exists.
OnExistingNode(at) == at # None /\ at.ref = None => at.name \in existingNodes
BaseKnown(r) == \A q \in Placed(r) : OnExistingNode(q.at)
BaseNodesKnown ==
    /\ pc = "events" => \A v \in DeployedPods : OnExistingNode(v.at)
    /\ \A r \in resultCh : BaseKnown(r)
    /\ pc \in {"send"} \cup Syncing => BaseKnown(runResult)

\* The winner places a pod; without preemption all that it places are written.
WinnerWritten ==
    /\ pc \in Syncing => Placed(runResult) # {}
    /\ pc \in {"syncNode", "syncState"} /\ SamePriority =>
          BoundInBase(Placed(runResult)) \subseteq pods

PlanInv == RunsCounted /\ TemplatesKnown /\ BaseNodesKnown /\ WinnerWritten

\* Before Run nothing is recommended, placed or counted.
LEMMA InitPlanInv == Init => PlanInv
    BY FS_EmptySet DEF Init, PlanInv, RunsCounted, TemplatesKnown, BaseNodesKnown, WinnerWritten,
       InRun, Simulating, Syncing

\* Every new run has a new number, and the results of a run bear it.
LEMMA RunsCountedStep ==
    ASSUME TypeInv, PoolInv, RunsCounted, [Next]_vars
    PROVE RunsCounted'
<1> USE DEF RunsCounted, InRun, Simulating, Syncing
<1>1. IsFiniteSet(recommendations) /\ Cardinality(recommendations) \in Nat /\ runNumber \in Nat
    BY FS_CardinalityType DEF TypeInv, TypeOK, PoolInv, EarlierRuns
<1>2. CASE /\ pc = "syncState" /\ pc' = "loop" /\ UNCHANGED <<outcome, runNumber>>
           /\ recommendations' = recommendations \cup {winnerNode}
    <2>2. winnerNode \notin recommendations
        <3>1. winnerNode.run = runNumber
            BY DEF winnerNode
        <3>2. \A n \in recommendations : n.run < runNumber
            BY <1>2 DEF PoolInv, EarlierRuns
        <3> QED
            BY <1>1, <3>1, <3>2
    <2>3. Cardinality(recommendations') = Cardinality(recommendations) + 1
        BY <1>1, <1>2, <2>2, FS_AddElement
    <2> QED
        BY <1>1, <1>2, <2>3
<1>3. CASE AllPodsScheduled \/ StartRun
    BY <1>1, <1>3 DEF AllPodsScheduled, StartRun, Return
<1>4. CASE /\ UNCHANGED <<recommendations, runNumber, outcome>>
           /\ \/ UNCHANGED pc
              \/ pc = "initialize" /\ pc' = "loop"
              \/ pc \in InRun \cup Syncing /\ pc' \in InRun \cup Syncing
    BY <1>4
<1>5. CASE pc # "done" /\ pc' = "done" /\ outcome' \in {"ok", "error"}
    BY <1>5
<1>6. CASE initializeVirtualCluster \/ EndWithoutWinner \/ SyncPods \/ SyncNode
    BY <1>4, <1>5, <1>6 DEF initializeVirtualCluster, EndWithoutWinner, SyncPods, SyncNode, Return
<1>7. CASE syncRecommenderStateWithWinningResult
    BY <1>2, <1>5, <1>7 DEF syncRecommenderStateWithWinningResult, Return
<1> QED
    BY <1>3, <1>4, <1>6, <1>7, SchedulerStep DEF Next, Recommender, Terminated, vars,
       NextPool, setupSimulationRun, CreateScaledNode, createAndDeployUnscheduledPods,
       CollectSchedulingEvents, SendResult, cleanUpNodePoolSimRun, getWinningRunResult, Fails

\* A simulated node has the template of its pool and zone.
LEMMA TemplatesKnownStep ==
    ASSUME TypeInv, TemplatesKnown, [Next]_vars
    PROVE TemplatesKnown'
<1> USE DEF TemplatesKnown, InRun, Simulating, Syncing
<1>0. /\ \A z : HasTemplate(errorRunResult(z))
      /\ \A r : r = runResult' => (HasTemplate(runResult)' <=> HasTemplate(r))
    BY DEF HasTemplate, errorRunResult
<1>1. CASE \E np \in poolsToSimulate : NextPool(np)
    <2>1. PICK np \in poolsToSimulate : NextPool(np)
        BY <1>1
    <2>2. /\ pc' = "setup" /\ nodePool' = np /\ resultCh' = resultCh
          /\ zonesToSimulate' = NodePool[np].zones
        BY <2>1 DEF NextPool
    <2> QED
        BY <2>2
<1>2. CASE \E z \in zonesToSimulate : CreateScaledNode(z)
    <2>1. PICK z \in zonesToSimulate : CreateScaledNode(z)
        BY <1>2
    <2>2. /\ pc = "zones" /\ zone' = z /\ UNCHANGED <<nodePool, resultCh>>
          /\ zonesToSimulate' \subseteq zonesToSimulate
          /\ \/ pc' = "deploy" /\ <<nodePool, z>> \in NodeTemplates
             \/ pc' = "send" /\ runResult' = errorRunResult(z)
        BY <2>1 DEF CreateScaledNode, Fails
    <2> QED
        BY <1>0, <2>2
<1>3. CASE setupSimulationRun \/ createAndDeployUnscheduledPods
    <2>1. /\ UNCHANGED <<nodePool, zone, resultCh>> /\ zonesToSimulate' \subseteq zonesToSimulate
          /\ pc \in Simulating
          /\ \/ pc = "setup" /\ pc' = "zones"
             \/ pc = "deploy" /\ pc' = "events"
             \/ pc' = "send" /\ \E z : runResult' = errorRunResult(z)
        BY <1>3 DEF setupSimulationRun, createAndDeployUnscheduledPods, Fails
    <2> QED
        BY <1>0, <2>1
<1>4. CASE CollectSchedulingEvents
    <2>1. /\ UNCHANGED <<nodePool, zone, resultCh>> /\ zonesToSimulate' \subseteq zonesToSimulate
          /\ pc = "events" /\ pc' = "send"
          /\ \/ runResult' = errorRunResult(zone)
             \/ \E seen : runResult' = computeRunResult(seen)
        BY <1>4 DEF CollectSchedulingEvents, Fails
    <2>2. \A seen : HasTemplate(computeRunResult(seen))
        BY <2>1 DEF HasTemplate, computeRunResult
    <2>3. HasTemplate(runResult)'
        BY <1>0, <2>1, <2>2
    <2> QED
        BY <2>1, <2>3
<1>5. CASE SendResult
    <2>1. /\ pc = "send" /\ pc' = "zones" /\ resultCh' = resultCh \cup {runResult}
          /\ UNCHANGED <<nodePool, zone, zonesToSimulate>>
        BY <1>5 DEF SendResult, loops
    <2> QED
        BY <2>1
<1>6. CASE getWinningRunResult
    <2>1. pc' = "syncPods" /\ resultCh' = {} /\ runResult' \in resultCh
        BY <1>6, WinnerIsResult DEF getWinningRunResult
    <2> QED
        BY <1>0, <2>1
<1>7. CASE /\ resultCh' \subseteq resultCh
           /\ \/ pc' \notin Simulating \cup Syncing
              \/ pc \in Syncing /\ pc' \in Syncing /\ runResult' = runResult
              \/ UNCHANGED <<pc, nodePool, zone, zonesToSimulate, runResult>>
    <2>1. runResult' = runResult => (HasTemplate(runResult)' <=> HasTemplate(runResult))
        BY DEF HasTemplate
    <2> QED
        BY <1>7, <2>1
<1> QED
    BY <1>1, <1>2, <1>3, <1>4, <1>5, <1>6, <1>7, SchedulerStep DEF Next, Recommender, Terminated,
       vars, loops, initializeVirtualCluster, AllPodsScheduled, StartRun, cleanUpNodePoolSimRun,
       EndWithoutWinner, SyncPods, SyncNode, syncRecommenderStateWithWinningResult, Return

\* A base node is one of the request or a recommended one.
LEMMA BaseNodesKnownStep ==
    ASSUME TypeInv, BaseInv, BaseNodesKnown, [Next]_vars
    PROVE BaseNodesKnown'
<1> USE DEF BaseNodesKnown, Simulating, Syncing
<1>0. /\ \A r : BaseKnown(r) => BaseKnown(r)'
      /\ \A r : r = runResult' /\ BaseKnown(r) => BaseKnown(runResult)'
      /\ \A z : BaseKnown(errorRunResult(z))
      /\ \A at : OnExistingNode(at) => OnExistingNode(at)'
    <2>1. existingNodes \subseteq existingNodes'
        BY KnownNamesGrow
    <2>2. \A at : OnExistingNode(at) => OnExistingNode(at)'
        BY <2>1 DEF OnExistingNode
    <2> QED
        BY <2>1, <2>2 DEF BaseKnown, OnExistingNode, Placed, errorRunResult
<1>1. CASE createAndDeployUnscheduledPods
    <2>1. /\ resultCh' = resultCh
          /\ \/ pc' = "events" /\ pods' = pods \cup NewPods /\ \A w \in NewPods : ~NameTaken(w)
             \/ pc' = "send" /\ runResult' = errorRunResult(zone)
          /\ UNCHANGED <<unscheduledPods, nodePool, runNumber>>
        BY <1>1 DEF createAndDeployUnscheduledPods, Fails, state
    <2>2. ASSUME pc' = "events", NEW v \in DeployedPods' PROVE v.at = None
        <3>1. v \in pods' /\ v.ref = runRef /\ v.pod \in unscheduledPods
            BY <2>1 DEF DeployedPods, runRef
        <3> DEFINE u == [pod |-> v.pod, ref |-> runRef, at |-> None]
        <3>2. u \in NewPods
            BY <3>1 DEF NewPods
        <3>3. v \notin pods
            BY <2>1, <2>2, <3>1, <3>2 DEF NameTaken
        <3> QED
            BY <2>1, <2>2, <3>1, <3>3 DEF NewPods
    <2> QED
        BY <1>0, <2>1, <2>2 DEF OnExistingNode
<1>2. CASE CollectSchedulingEvents
    <2>1. /\ resultCh' = resultCh /\ pc = "events" /\ pc' = "send"
          /\ \/ runResult' = errorRunResult(zone)
             \/ \E seen \in SUBSET {v \in DeployedPods : v.at # None} :
                    runResult' = computeRunResult(seen)
        BY <1>2 DEF CollectSchedulingEvents, Fails
    <2>2. ASSUME NEW seen \in SUBSET {v \in DeployedPods : v.at # None}
          PROVE BaseKnown(computeRunResult(seen))
        <3>1. \A q \in Placed(computeRunResult(seen)) : \E v \in seen : q.at = v.at
            BY DEF Placed, computeRunResult, getUpdatedPods
        <3> QED
            BY <2>1, <3>1 DEF BaseKnown
    <2> QED
        BY <1>0, <2>1, <2>2
<1>3. CASE setupSimulationRun \/ \E z \in zonesToSimulate : CreateScaledNode(z)
    <2>1. /\ resultCh' = resultCh
          /\ \/ pc' \in {"zones", "deploy"}
             \/ pc' = "send" /\ \E z : runResult' = errorRunResult(z)
        BY <1>3 DEF setupSimulationRun, CreateScaledNode, Fails
    <2> QED
        BY <1>0, <2>1
<1>4. CASE SendResult
    <2>1. pc = "send" /\ pc' = "zones" /\ resultCh' = resultCh \cup {runResult}
        BY <1>4 DEF SendResult
    <2> QED
        BY <1>0, <2>1
<1>5. CASE getWinningRunResult
    <2>1. pc' = "syncPods" /\ resultCh' = {} /\ runResult' \in resultCh
        BY <1>5, WinnerIsResult DEF getWinningRunResult
    <2> QED
        BY <1>0, <2>1
<1>6. CASE Scheduler
    <2>1. UNCHANGED <<pc, runResult, resultCh, unscheduledPods, nodePool, runNumber>>
        BY <1>6, SchedulerStep DEF state, loops
    <2>2. ASSUME pc = "events", NEW w \in DeployedPods' PROVE OnExistingNode(w.at)
        <3>1. BaseNodes = {Base(n) : n \in existingNodes}
            BY <2>2 DEF BaseInv, FreshStart, ClusterListed, BaseNodesListed, WinnerNodes
        <3>2. w \in pods' /\ w.ref = runRef /\ w.pod \in unscheduledPods
            BY <2>1 DEF DeployedPods, runRef
        <3>3. w \in DeployedPods \/ \E n \in nodes : w.at = n
            BY <1>6, <3>2, SchedulerStep DEF DeployedPods
        <3>4. \A n \in nodes : OnExistingNode(n)
            BY <3>1 DEF OnExistingNode, BaseNodes, Base
        <3> QED
            BY <2>2, <3>3, <3>4
    <2> QED
        BY <1>0, <2>1, <2>2
<1>7. CASE UNCHANGED vars
    BY <1>0, <1>7 DEF vars, state, cluster, loops, DeployedPods, runRef
<1>8. CASE /\ resultCh' \subseteq resultCh
           /\ \/ pc' \notin {"events", "send"} \cup Syncing
              \/ pc \in Syncing /\ pc' \in Syncing /\ runResult' = runResult
    BY <1>0, <1>8
<1> QED
    BY <1>1, <1>2, <1>3, <1>4, <1>5, <1>6, <1>7, <1>8 DEF Next, Recommender, Terminated, NextPool,
       initializeVirtualCluster, AllPodsScheduled, StartRun, cleanUpNodePoolSimRun,
       EndWithoutWinner, SyncPods, SyncNode, syncRecommenderStateWithWinningResult, Return

\* Between the writes of a winner, its pods are base pods on the nodes it placed them on.
LEMMA WinnerWrittenStep ==
    ASSUME TypeInv, WinnerWritten, [Next]_vars
    PROVE WinnerWritten'
<1> USE DEF WinnerWritten, Syncing
<1>0. runResult' = runResult =>
          /\ Placed(runResult)' = Placed(runResult)
          /\ BoundInBase(Placed(runResult))' = BoundInBase(Placed(runResult))
    BY DEF Placed, BoundInBase, Base
<1>1. CASE getWinningRunResult
    <2>1. PICK r : r = runResult' /\ r \in Winners({q \in resultCh : HasWinner(q)})
        BY <1>1 DEF getWinningRunResult
    <2>2. HasWinner(r)
        BY <2>1 DEF Winners, HighestScore
    <2>3. Placed(runResult)' = Placed(r)
        BY <2>1 DEF Placed
    <2>4. pc' = "syncPods"
        BY <1>1 DEF getWinningRunResult
    <2> QED
        BY <2>2, <2>3, <2>4 DEF HasWinner
<1>2. CASE SyncPods
    <2>1. /\ pc = "syncPods" /\ UNCHANGED runResult
          /\ \/ pc' = "done"
             \/ pc' = "syncNode" /\ pods' = pods \cup BoundInBase(Placed(runResult))
        BY <1>2 DEF SyncPods, Return
    <2> QED
        BY <1>0, <2>1
<1>3. CASE SyncNode
    <2>1. pc = "syncNode" /\ UNCHANGED <<runResult, pods>> /\ pc' \in {"syncState", "done"}
        BY <1>3 DEF SyncNode, Return
    <2> QED
        BY <1>0, <2>1
<1>4. CASE Scheduler
    <2>1. UNCHANGED <<pc, runResult>>
        BY <1>4, SchedulerStep
    <2>2. ASSUME pc \in {"syncNode", "syncState"}, SamePriority
          PROVE BoundInBase(Placed(runResult)) \subseteq pods'
        <3>1. PICK v \in pods : v.at = None /\ pods \ {v} \subseteq pods'
            BY <1>4, <2>2, OnlyBinds
        <3>2. \A w \in BoundInBase(Placed(runResult)) : w.at # None
            BY <2>2, BoundTyped, ReferenceAssumption DEF TypeInv, ControlOK
        <3> QED
            BY <2>2, <3>1, <3>2
    <2> QED
        BY <1>0, <2>1, <2>2
<1>5. CASE UNCHANGED vars
    BY <1>0, <1>5 DEF vars, cluster
<1>6. CASE pc' \notin Syncing
    BY <1>6
<1> QED
    BY <1>1, <1>2, <1>3, <1>4, <1>5, <1>6 DEF Next, Recommender, Terminated, NextPool,
       initializeVirtualCluster, AllPodsScheduled, StartRun, setupSimulationRun, CreateScaledNode,
       createAndDeployUnscheduledPods, CollectSchedulingEvents, SendResult, cleanUpNodePoolSimRun,
       EndWithoutWinner, syncRecommenderStateWithWinningResult, Return, Fails

\* The invariants behind the refinement hold in every state.
LEMMA PlanInvariant == Spec => [](TypeInv /\ PlanInv)
<1>1. TypeInv /\ PoolInv /\ BaseInv /\ PlanInv /\ [Next]_vars => PlanInv'
    BY RunsCountedStep, TemplatesKnownStep, BaseNodesKnownStep, WinnerWrittenStep DEF PlanInv
<1> QED
    BY InitPlanInv, PoolInvariant, BaseInvariant, <1>1, PTL DEF Spec

-----------------------------------------------------------------------------
(* Run carries out a plan *)

\* The operators of the plan are those of the request.
LEMMA PlanMemory == \A ps : Plan!Memory(ps) = Memory(ps)
    BY DEF Plan!Memory, Memory, Plan!SumFunctionOnSet, SumFunctionOnSet, Plan!FoldFunctionOnSet,
       FoldFunctionOnSet, Plan!MapThenFoldSet, MapThenFoldSet

\* The plan and the recommender read the same capacity,
LEMMA PlanCapacity == \A n : Plan!Capacity(n) = Capacity(n)
    BY DEF Plan!Capacity, Capacity, Plan!StrippedName, StrippedName

\* count alike,
LEMMA PlanCardinality == \A S : Plan!Cardinality(S) = Cardinality(S)
    BY DEF Plan!Cardinality, Cardinality

\* and list the same pods at a node.
LEMMA PlanPlacedAt == \A n : Plan!PlacedAt(n) = ListedAt(n)
    BY DEF Plan!PlacedAt, ListedAt

\* What fits once on the base object and once on the clone fits in the sense of the plan.
LEMMA PlanFitsThere ==
    ASSUME NEW ps, NEW n,
           ps # {} => /\ Memory(ListedAt(n)) <= Capacity(n)
                      /\ Memory(ps) <= 2 * (Capacity(n) - Memory(ListedAt(n)))
    PROVE Plan!Fits(ps, n)
    BY PlanMemory, PlanCapacity, PlanPlacedAt DEF Plan!Fits

\* The initial states of Run are those of the plan.
LEMMA PlanStarts == Init => Plan!Init
    BY DEF Init, Plan!Init, Plan!UnscheduledInRequest, Plan!ScheduledInRequest,
       Plan!isUnscheduled, UnscheduledInRequest, ScheduledInRequest, isUnscheduled

\* What the theorem below assumes: nobody is preempted, no node has the prefix, and
\* the clean-up of the simulations works.
PlainRequest == SamePriority /\ Prefixed \cap InitialNodes = {} /\ NoFailedDeletion

RunInv == TypeInv /\ PodInv /\ PoolInv /\ BaseInv /\ PlaceInv /\ MemoryInv /\ PlanInv

\* The winner places pods on nodes that the lists know and on the node that it adds.
LEMMA WinnerPlaces ==
    ASSUME PlainRequest, RunInv, pc = "syncState"
    PROVE /\ existingNodes = InitialNodes \cup recommendations
          /\ winnerNode \in ScaledNode /\ winnerNode \notin existingNodes
          /\ \A q \in Placed(runResult) : q.at.name \in existingNodes \cup {winnerNode}
<1> USE DEF RunInv, Syncing
<1>1. existingNodes = InitialNodes \cup recommendations
    BY DEF BaseInv, FreshStart, ListsAgree
<1>2. winnerNode \in ScaledNode /\ winnerNode.run = runNumber
    BY DEF TypeInv, TypeOK, ControlOK, IsRunResult, winnerNode, ScaledNode
<1>3. winnerNode \notin existingNodes
    <2>1. winnerNode \notin InitialNodes
        BY <1>2, NameAssumption
    <2>2. \A n \in recommendations : n.run \in Nat /\ n.run < runNumber
        BY DEF PoolInv, EarlierRuns, TypeInv, TypeOK, ScaledNode
    <2>3. winnerNode \notin recommendations
        BY <1>2, <2>2
    <2> QED
        BY <1>1, <2>1, <2>3
<1>4. KnownNames = existingNodes
    BY DEF KnownNames, ClonedNames, withoutPrefix, PlainRequest
<1>5. ASSUME NEW q \in Placed(runResult) PROVE q.at.name \in existingNodes \cup {winnerNode}
    <2>1. PlaceKnown(q.at.name, runResult.pool, runResult.zone)
        BY DEF PlaceInv, ResultsKnown, ResultKnown
    <2>2. AddedInRun(q.at.name, runResult.pool, runResult.zone) => q.at.name = winnerNode
        BY DEF AddedInRun, winnerNode, ScaledNode, PlainRequest
    <2> QED
        BY <1>4, <2>1, <2>2 DEF PlaceKnown
<1> QED
    BY <1>1, <1>2, <1>3, <1>5

\* On a node that was there, base node and clone, there is room for what goes there;
\* on the added node, which has no base node yet, there is room once.
LEMMA WinnerFits ==
    ASSUME PlainRequest, RunInv, pc = "syncState", NEW m \in NodeName
    PROVE /\ AtName(runResult, m) # {} =>
                /\ Memory(ListedAt(m)) <= Capacity(m)
                /\ Memory(AtName(runResult, m)) <= 2 * (Capacity(m) - Memory(ListedAt(m)))
          /\ m = winnerNode => Memory(AtName(runResult, m)) <= Capacity(m)
<1> DEFINE L == ListedAt(m)
           A == AtName(runResult, m)
           B == OnBase(runResult, m)
           C == OnClone(runResult, m)
<1>1. /\ IsRunResult(runResult) /\ ResultOK(runResult) /\ PlacesUnscheduled(runResult)
      /\ BaseKnown(runResult)
    BY DEF RunInv, Syncing, TypeInv, ControlOK, MemoryInv, ResultsOK, PodInv,
       ResultsPlaceUnscheduled, PlanInv, BaseNodesKnown
<1>2. Planned(m) = L /\ withoutPrefix(m) = m
    BY DEF Planned, withoutPrefix, PlainRequest
<1>3. A \subseteq B \cup C
    <2>1. A = GoesTo(runResult, m)
        BY <1>2 DEF AtName, GoesTo
    <2> QED
        BY <1>1, <2>1, BaseOrClone
<1>4. /\ L \in SUBSET Pods /\ A \in SUBSET Pods /\ B \in SUBSET Pods /\ C \in SUBSET Pods
      /\ L \cap B = {} /\ L \cap C = {}
    <2>1. \A q \in Placed(runResult) : q.pod \in unscheduledPods
        BY <1>1 DEF PlacesUnscheduled, Placed
    <2>2. \A q \in scheduledPods : q.pod \in Pods /\ q.pod \notin unscheduledPods
        BY DEF RunInv, PodInv, PodsPartitioned, TypeInv, TypeOK
    <2> QED
        BY <1>3, <2>1, <2>2 DEF ListedAt, OnBase, OnClone, RunInv, TypeInv, TypeOK
<1>5. /\ B # {} => Memory(L \cup B) <= Capacity(m)
      /\ C # {} => Memory(L \cup C) <= Capacity(m)
    BY <1>1, <1>2 DEF ResultOK, ResultFits, PlainRequest
<1>6. m = winnerNode => B = {}
    <2>1. m = winnerNode => \A q \in Placed(runResult) : q.at # Base(m)
        BY <1>1, WinnerPlaces DEF BaseKnown, OnExistingNode, Placed, Base
    <2> QED
        BY <2>1 DEF OnBase
<1> HIDE DEF L, A, B, C
<1>7. /\ Memory(L) \in Nat /\ Memory(A) \in Nat /\ Memory(B) \in Nat /\ Memory(C) \in Nat
      /\ Capacity(m) \in Nat
    BY <1>4, MemoryFacts, StrippedNames
<1>8. /\ Memory(L \cup B) = Memory(L) + Memory(B)
      /\ Memory(L \cup C) = Memory(L) + Memory(C)
    BY <1>4, MemoryFacts
<1>9. Memory(A) <= Memory(B) + Memory(C)
    <2>1. B \cup C \in SUBSET Pods
        BY <1>4
    <2>2. Memory(A) <= Memory(B \cup C) /\ Memory(B \cup C) <= Memory(B) + Memory(C)
        BY <1>3, <1>4, <2>1, MemoryFacts
    <2>3. Memory(B \cup C) \in Nat
        BY <2>1, MemoryFacts
    <2> QED
        BY <1>7, <2>2, <2>3
<1>10. Memory({}) = 0
    BY SumEmpty DEF Memory
<1>11. /\ B # {} => Memory(L) + Memory(B) <= Capacity(m)
       /\ C # {} => Memory(L) + Memory(C) <= Capacity(m)
    BY <1>5, <1>8
<1>12. A # {} => B # {} \/ C # {}
    BY <1>3
<1>13. (B = {} => Memory(B) = 0) /\ (C = {} => Memory(C) = 0)
    BY <1>10
<1>14. \A l, a, b, c, k \in Nat :
           /\ a <= b + c /\ l + b <= k /\ l + c <= k => l <= k /\ a <= 2 * (k - l)
           /\ a <= b + c /\ b = 0 /\ l + c <= k => l <= k /\ a <= 2 * (k - l) /\ a <= k
           /\ a <= b + c /\ c = 0 /\ l + b <= k => l <= k /\ a <= 2 * (k - l)
           /\ a <= b + c /\ b = 0 /\ c = 0 => a <= k
    OBVIOUS
<1>15. A # {} => /\ Memory(L) <= Capacity(m)
                 /\ Memory(A) <= 2 * (Capacity(m) - Memory(L))
    BY <1>7, <1>9, <1>11, <1>12, <1>13, <1>14
<1>16. m = winnerNode => Memory(A) <= Capacity(m)
    BY <1>6, <1>7, <1>9, <1>11, <1>13, <1>14
<1> QED
    BY <1>15, <1>16 DEF L, A

\* The step that takes over the winner adds its node, and finds a place for each of the
\* pods that it placed.
LEMMA WinnerAddsNode ==
    ASSUME PlainRequest, RunInv, syncRecommenderStateWithWinningResult,
           pc' # "done"
    PROVE Plan!AddNode(runResult.pool, runResult.zone)
<1> USE DEF RunInv, Syncing
<1> DEFINE placed == Placed(runResult)
           ps == WinnerPods
           found == {v \in pods : v.ref = None /\ v.pod \in WinnerPods}
           at == [p \in ps |-> (CHOOSE q \in placed : q.pod = p).at.name]
<1>1. /\ pc = "syncState" /\ UNCHANGED outcome
      /\ recommendations' = recommendations \cup {winnerNode}
      /\ scheduledPods' = scheduledPods \cup {[pod |-> v.pod, at |-> v.at.name] : v \in found}
      /\ unscheduledPods' = unscheduledPods \ {v.pod : v \in found}
    BY DEF syncRecommenderStateWithWinningResult, WinnerPods, StillUnscheduled, Return
<1>2. found = BoundInBase(placed)
    <2>1. found \subseteq BoundInBase(placed)
        BY <1>1, FoundArePlanned DEF MemoryInv
    <2>2. BoundInBase(placed) \subseteq pods
        BY <1>1 DEF PlanInv, WinnerWritten, PlainRequest
    <2>3. \A v \in BoundInBase(placed) : v.ref = None /\ v.pod \in WinnerPods
        BY DEF BoundInBase, WinnerPods
    <2> QED
        BY <2>1, <2>2, <2>3
<1>3. /\ \A q \in placed : q.pod \in unscheduledPods
      /\ \A q1, q2 \in placed : q1.pod = q2.pod => q1 = q2
    BY <1>1 DEF PodInv, ResultsPlaceUnscheduled, PlacesUnscheduled, Placed
<1>4. \A q \in placed : q.pod \in ps /\ at[q.pod] = q.at.name
    BY <1>3 DEF WinnerPods
<1>5. \A p \in ps : \E q \in placed : q.pod = p
    BY DEF WinnerPods
<1> HIDE DEF at
<1>6. /\ \A v \in found : \E q \in placed : q.pod = v.pod /\ q.at.name = v.at.name
      /\ \A q \in placed : \E v \in found : q.pod = v.pod /\ q.at.name = v.at.name
    <2>1. ASSUME NEW q \in placed
          PROVE \E v \in BoundInBase(placed) : q.pod = v.pod /\ q.at.name = v.at.name
        <3> DEFINE v == [pod |-> q.pod, ref |-> None, at |-> Base(q.at.name)]
        <3>1. v \in BoundInBase(placed)
            BY DEF BoundInBase
        <3> QED
            BY <3>1 DEF Base
    <2>2. \A v \in BoundInBase(placed) :
              \E q \in placed : q.pod = v.pod /\ q.at.name = v.at.name
        BY DEF BoundInBase, Base
    <2> HIDE DEF found, placed
    <2> QED
        BY <1>2, <2>1, <2>2
<1>7. /\ {v.pod : v \in found} = ps
      /\ {[pod |-> v.pod, at |-> v.at.name] : v \in found} = {[pod |-> p, at |-> at[p]] : p \in ps}
    <2> HIDE DEF found, placed, ps
    <2>1. \A v \in found : v.pod \in ps /\ at[v.pod] = v.at.name
        BY <1>4, <1>6
    <2>2. \A p \in ps : \E v \in found : v.pod = p /\ at[p] = v.at.name
        BY <1>4, <1>5, <1>6
    <2>3. {v.pod : v \in found} = ps
        BY <2>1, <2>2
    <2>4. {[pod |-> v.pod, at |-> v.at.name] : v \in found}
              = {[pod |-> p, at |-> at[p]] : p \in ps}
        BY <2>1, <2>2
    <2> QED
        BY <2>3, <2>4
<1>8. ps \subseteq unscheduledPods /\ ps # {}
    BY <1>1, <1>3 DEF PlanInv, WinnerWritten, WinnerPods
<1>9. \A m : {p \in ps : at[p] = m} = AtName(runResult, m)
    BY <1>4, <1>5 DEF AtName
<1>10. /\ existingNodes = InitialNodes \cup recommendations
       /\ winnerNode \in ScaledNode /\ winnerNode \notin existingNodes
       /\ \A q \in placed : q.at.name \in existingNodes \cup {winnerNode}
    BY <1>1, WinnerPlaces
<1>11. at \in [ps -> InitialNodes \cup recommendations']
    <2>1. \A p \in ps : at[p] \in InitialNodes \cup recommendations'
        BY <1>1, <1>4, <1>5, <1>10
    <2> QED
        BY <2>1 DEF at
<1>12. \A m \in InitialNodes \cup recommendations : Plan!Fits({p \in ps : at[p] = m}, m)
    <2> TAKE m \in InitialNodes \cup recommendations
    <2>1. m \in NodeName
        BY DEF NodeName, TypeInv, TypeOK
    <2> QED
        BY <1>1, <1>9, <2>1, WinnerFits, PlanFitsThere
<1>13. Plan!Memory({p \in ps : at[p] = winnerNode}) <= Plan!Capacity(winnerNode)
    <2>1. winnerNode \in NodeName
        BY <1>10 DEF NodeName
    <2> QED
        BY <1>1, <1>9, <2>1, WinnerFits, PlanMemory, PlanCapacity
<1>14. winnerNode = [pool |-> runResult.pool, zone |-> runResult.zone,
                     run |-> Plan!Cardinality(recommendations) + 1]
    BY <1>1, PlanCardinality DEF winnerNode, PlanInv, RunsCounted, InRun
<1>15. /\ outcome = "none"
       /\ runResult.zone \in NodePool[runResult.pool].zones
       /\ <<runResult.pool, runResult.zone>> \in NodeTemplates
    BY <1>1 DEF PlanInv, RunsCounted, TemplatesKnown, HasTemplate, TypeInv, ControlOK
<1>16. NodePool[runResult.pool].current
           + Plan!Cardinality({m \in recommendations : m.pool = runResult.pool})
               < NodePool[runResult.pool].max
    BY <1>1, PlanCardinality DEF PoolInv, EligibleInRun, EligibleIffRoomLeft, NodeCount, RecommendedFor
<1> HIDE DEF ps, placed, found
<1>17. /\ unscheduledPods' = unscheduledPods \ ps
       /\ scheduledPods' = scheduledPods \cup {[pod |-> p, at |-> at[p]] : p \in ps}
    BY <1>1, <1>7
<1> DEFINE New == [pool |-> runResult.pool, zone |-> runResult.zone,
                   run |-> Plan!Cardinality(recommendations) + 1]
           Homes(qs) == \E ats \in [qs -> InitialNodes \cup recommendations'] :
               /\ scheduledPods' = scheduledPods \cup {[pod |-> p, at |-> ats[p]] : p \in qs}
               /\ \A m \in InitialNodes \cup recommendations :
                     Plan!Fits({p \in qs : ats[p] = m}, m)
               /\ Plan!Memory({p \in qs : ats[p] = New}) <= Plan!Capacity(New)
<1>18. New = winnerNode
    BY <1>14
<1> HIDE DEF New
<1>19. Homes(ps)
    BY <1>11, <1>12, <1>13, <1>17, <1>18
<1>20. recommendations' = recommendations \cup {New}
    BY <1>1, <1>18
<1> HIDE DEF Homes
<1>21. \E qs \in SUBSET unscheduledPods :
           qs # {} /\ unscheduledPods' = unscheduledPods \ qs /\ Homes(qs)
    BY <1>8, <1>17, <1>19
<1> QED
    BY <1>1, <1>15, <1>16, <1>20, <1>21 DEF Plan!AddNode, Homes, New

\* The pods of the winner are not in the virtual cluster yet, so creating them does not
\* fail on its own.
LEMMA WinnerPodsAreNew ==
    ASSUME RunInv, pc = "syncPods", NEW v \in BoundInBase(Placed(runResult))
    PROVE ~NameTaken(v)
<1>1. v.ref = None /\ v.pod \in unscheduledPods
    BY DEF BoundInBase, RunInv, PodInv, ResultsPlaceUnscheduled, PlacesUnscheduled, Placed, Syncing
<1>2. \A q \in scheduledPods : q.pod # v.pod
    BY <1>1 DEF RunInv, PodInv, PodsPartitioned, TypeInv, TypeOK
<1>3. \A w \in BasePods : \E q \in scheduledPods : q.pod = w.pod
    BY DEF RunInv, BaseInv, FreshStart, ClusterListed, BasePodsListed, BasePodListed
<1> QED
    BY <1>1, <1>2, <1>3 DEF NameTaken, BasePods

\* Every step adds a node, ends the plan or leaves it as it is.
LEMMA StepOfPlan ==
    ASSUME PlainRequest, RunInv, [Next]_vars
    PROVE [Plan!Next]_(Plan!pvars)
<1>1. outcome = "none" <=> pc # "done"
    BY DEF RunInv, PlanInv, RunsCounted
<1>2. ASSUME pc # "done", NEW result \in {"ok", "error"}, outcome' = result,
             UNCHANGED <<unscheduledPods, scheduledPods, recommendations>>,
             result = "error" => \/ Faults \cap {"create", "read"} # {}
                                 \/ Prefixed \cap Pods # {}
      PROVE Plan!Next
    BY <1>1, <1>2 DEF Plan!Next, Plan!Finish
<1>3. CASE UNCHANGED <<unscheduledPods, scheduledPods, recommendations, outcome>>
    BY <1>3 DEF Plan!pvars
<1>4. CASE AllPodsScheduled \/ EndWithoutWinner
    BY <1>2, <1>4 DEF AllPodsScheduled, EndWithoutWinner, Return, state
<1>5. CASE initializeVirtualCluster \/ SyncNode
    BY <1>2, <1>3, <1>5 DEF initializeVirtualCluster, SyncNode, Return, state
<1>6. CASE SyncPods
    <2>1. LookupFails => Prefixed \cap Pods # {}
        BY <1>6 DEF SyncPods, LookupFails, Placed, RunInv, TypeInv, ControlOK, Syncing,
           IsRunResult, Placement
    <2>2. \A v \in BoundInBase(Placed(runResult)) : ~NameTaken(v)
        BY <1>6, WinnerPodsAreNew DEF SyncPods
    <2> QED
        BY <1>2, <1>3, <1>6, <2>1, <2>2 DEF SyncPods, Return, state
<1>7. CASE syncRecommenderStateWithWinningResult
    <2>1. CASE pc' = "done"
        BY <1>2, <1>7, <2>1 DEF syncRecommenderStateWithWinningResult, Return
    <2>2. CASE pc' # "done"
        <3>1. Plan!AddNode(runResult.pool, runResult.zone)
            BY <1>7, <2>2, WinnerAddsNode
        <3>2. runResult.pool \in NodePools /\ runResult.zone \in ZoneNames
            BY <1>7 DEF syncRecommenderStateWithWinningResult, RunInv, TypeInv, ControlOK,
               Syncing, IsRunResult
        <3> QED
            BY <3>1, <3>2 DEF Plan!Next
    <2> QED
        BY <2>1, <2>2
<1> QED
    BY <1>3, <1>4, <1>5, <1>6, <1>7 DEF Next, Recommender, Scheduler, Terminated, vars, state,
       StartRun, NextPool, setupSimulationRun, CreateScaledNode, createAndDeployUnscheduledPods,
       CollectSchedulingEvents, SendResult, cleanUpNodePoolSimRun, getWinningRunResult,
       Schedule, Preempt

\* Run implements the plan, for every request without priorities and without prefixed
\* nodes: what its lists say develops as if there were no virtual cluster, no simulation
\* and no scheduler, one node with room for its pods at a time.
THEOREM RunImplementsPlan ==
    ASSUME PlainRequest
    PROVE Spec => ImplementsPlan
<1>1. RunInv /\ [Next]_vars => [Plan!Next]_(Plan!pvars)
    BY StepOfPlan
<1>2. TypeInv /\ PodInv /\ PoolInv /\ BaseInv /\ PlaceInv /\ MemoryInv /\ PlanInv => RunInv
    BY DEF RunInv
<1> QED
    BY PodInvariant, PoolInvariant, PlaceInvariant, MemoryInvariant, PlanInvariant, PlanStarts,
       <1>1, <1>2, PTL DEF Spec, ImplementsPlan
=============================================================================
