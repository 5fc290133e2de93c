------------------------------- MODULE Requests -------------------------------
(***************************************************************************)
(* The HTTP handler of POST /recommend/ (internal/simulation): requests    *)
(* share one recommender, whose state is overwritten at the start of each  *)
(* Run, and one virtual cluster, which each request resets.  A request     *)
(* brings a snapshot of the nodes and node pools, its pods are read live   *)
(* from the target cluster, and what it recommends is created there.       *)
(*                                                                         *)
(* A simulation run is two steps here, since it reads the shared state     *)
(* twice: the length of the channel for its results is computed first,     *)
(* then each eligible pool is simulated and sends its results (the winner  *)
(* is any that the plan of ScaleUpPlan allows; ScaleUp has the details).   *)
(* Nobody receives before all are sent: if the pools have changed between  *)
(* the two, a send may block, and the handler hangs for ever.  All pods    *)
(* are equal, and Slots of them fit on a node.                             *)
(*                                                                         *)
(* A client gives up after ten minutes: net/http then cancels the context  *)
(* of its request, so that every later call of the handler fails, while    *)
(* the handler itself runs on.  The process may stop and start again.      *)
(* Provisioning says what all this promises of the target cluster.         *)
(***************************************************************************)
EXTENDS Naturals, FiniteSets

CONSTANTS
    Requests, Pods, NodePools,
    Malformed,          \* the requests whose body cannot be parsed
    Zones,              \* <<pool, zone>> for each zone of a pool
    Maximum,            \* per pool
    Slots,              \* pods that fit on a node
    Templates,          \* the pools that have a node template
    Faults,             \* the calls that may fail
    Timeouts,           \* whether clients may give up
    MaxRestarts,        \* how often the process may start again
    OneAtATime,         \* whether clients wait for each other's answers
    FreshSnapshots,     \* whether a snapshot shows the nodes as they are
    None

ASSUME RequestsAssumption ==
    /\ Maximum \in [NodePools -> Nat] /\ Slots \in Nat
    /\ Templates \subseteq NodePools /\ Malformed \subseteq Requests
    \* ScaleUp has pools without zones, which block the channel as well.
    /\ IsFiniteSet(Zones) /\ \A np \in NodePools : \E zone \in Zones : zone[1] = np
    /\ Faults \subseteq {"reset", "parse", "list", "simulate", "sync", "create", "untaint"}
    /\ OneAtATime \in BOOLEAN /\ FreshSnapshots \in BOOLEAN
    /\ Timeouts \in BOOLEAN /\ MaxRestarts \in Nat

\* A node is known by the request that recommended it and a number.
Node == [pool : NodePools, by : Requests, number : Nat]

ASSUME NoneAssumption == None \notin Node

VARIABLES
    \* one per request, the local variables of Handler.run and recommender.Run
    pc, snapshot, podInfos, capacity, winner, recommendations, left, answer,
    \* and of applyRecommendation: the nodes not yet tried, the requests with an error
    pending, failed,
    \* the state of the recommender
    unscheduledPods, originalUnscheduledPods, scheduledPods, existingNodes, eligibleNodePools,
    \* the virtual cluster
    nodes, pods,
    \* the target cluster: nodes, those without the taint, where pods are bound
    targetNodes, ready, bound,
    restarts

apply == <<pending, failed>>
local == <<pc, snapshot, podInfos, capacity, winner, recommendations, left, answer, apply>>
state == <<unscheduledPods, originalUnscheduledPods, scheduledPods, existingNodes,
           eligibleNodePools>>
cluster == <<nodes, pods>>
target == <<targetNodes, ready, bound>>
vars == <<local, state, cluster, target, restarts>>

Init ==
    /\ pc = [r \in Requests |-> "idle"]
    /\ snapshot = [r \in Requests |-> {}]
    /\ podInfos = [r \in Requests |-> {}]
    /\ capacity = [r \in Requests |-> 0]
    /\ winner = [r \in Requests |-> None]
    /\ recommendations = [r \in Requests |-> {}]
    /\ left = [r \in Requests |-> {}]
    /\ answer = [r \in Requests |-> "none"]
    /\ pending = [r \in Requests |-> {}] /\ failed = {}
    /\ unscheduledPods = {} /\ originalUnscheduledPods = {} /\ scheduledPods = {}
    /\ existingNodes = {} /\ eligibleNodePools = <<>>
    /\ nodes = {} /\ pods = {}
    /\ targetNodes = {} /\ ready = {} /\ bound = [p \in Pods |-> None]
    /\ restarts = 0

InFlight(r) == pc[r] \notin {"idle", "done"}
GoTo(r, location) == pc' = [pc EXCEPT ![r] = location]

\* The client of r has gone: the context of r is cancelled.
Cancelled(r) == answer[r] = "lost"

Succeeds_Detached(r) == TRUE

\* The calls of a kind may succeed, or fail.
Succeeds(r) == ~Cancelled(r)
Fails(r, kind) == kind \in Faults \/ Cancelled(r)

\* What a failing call may have changed, half done; cancelled it does nothing.
AtMost(r, old, new) == IF Cancelled(r) THEN {old} ELSE {old, new}

Respond(r, status) ==
    GoTo(r, "done") /\ answer' = [answer EXCEPT ![r] = IF Cancelled(r) THEN "lost" ELSE status]

\* A client posts a snapshot, new or (FreshSnapshots is FALSE) from the start; what
\* cannot be parsed may be posted at any time, by anybody.
Post(r) ==
    /\ pc[r] = "idle"
    /\ OneAtATime /\ r \notin Malformed =>
          \A q \in Requests \ Malformed : InFlight(q) => Cancelled(q)
    /\ \E s \in (IF r \in Malformed THEN {} ELSE {targetNodes})
                  \cup (IF r \in Malformed \/ ~FreshSnapshots THEN {{}} ELSE {}) :
            snapshot' = [snapshot EXCEPT ![r] = s]
    /\ GoTo(r, "reset")
    /\ UNCHANGED <<capacity, podInfos, winner, recommendations, left, answer, apply, state,
                   cluster, target, restarts>>

\* The virtual cluster is reset before anything is known of the request.
FactoryReset(r) ==
    /\ pc[r] = "reset"
    /\ \/ nodes' = {} /\ pods' = {} /\ GoTo(r, "parse") /\ UNCHANGED answer
       \/ /\ "reset" \in Faults
          /\ nodes' \in {nodes, {}} /\ pods' \in {pods, {}}
          /\ Respond(r, "error")
    /\ UNCHANGED <<capacity, snapshot, podInfos, winner, recommendations, left, apply,
                   state, target, restarts>>

\* ParseClusterSnapshot and createSimulationRequest: pods as they are now, nodes
\* and counts as the snapshot has them.
createSimulationRequest(r) ==
    /\ pc[r] = "parse"
    /\ \/ /\ r \notin Malformed /\ \A n \in snapshot[r] : n.pool \in Templates
          /\ podInfos' = [podInfos EXCEPT ![r] = {[pod |-> p, at |-> bound[p]] : p \in Pods}]
          /\ GoTo(r, "initialize") /\ UNCHANGED answer
       \/ /\ \/ r \in Malformed \/ Faults \cap {"parse", "list"} # {}
             \/ \E n \in snapshot[r] : n.pool \notin Templates
          /\ Respond(r, "badRequest") /\ UNCHANGED podInfos
    /\ UNCHANGED <<capacity, snapshot, winner, recommendations, left, apply, state, cluster,
                   target, restarts>>

deriveNodeCountPerWorkerPool_Ready(ns, np) == Cardinality({n \in ns \cap ready : n.pool = np})
deriveNodeCountPerWorkerPool(ns, np) == Cardinality({n \in ns : n.pool = np})

UnscheduledIn(r) == {i.pod : i \in {j \in podInfos[r] : j.at = None}}

initializeSimulationState_KeepsOriginal(r) ==
    LET Current(np) == deriveNodeCountPerWorkerPool(snapshot[r], np) IN
    /\ pc[r] = "initialize"
    /\ unscheduledPods' = UnscheduledIn(r)
    /\ UNCHANGED originalUnscheduledPods
    /\ scheduledPods' = {i \in podInfos[r] : i.at # None}
    /\ existingNodes' = snapshot[r]
    /\ eligibleNodePools' = [np \in {q \in NodePools : Current(q) < Maximum[q]} |-> Current(np)]
    /\ GoTo(r, "cluster")
    /\ UNCHANGED <<capacity, snapshot, podInfos, winner, recommendations, left, answer,
                   apply, cluster, target, restarts>>

initializeSimulationState_Appends(r) ==
    LET Current(np) == deriveNodeCountPerWorkerPool(snapshot[r], np) IN
    /\ pc[r] = "initialize"
    /\ unscheduledPods' = unscheduledPods \cup UnscheduledIn(r)
    /\ originalUnscheduledPods' = unscheduledPods \cup UnscheduledIn(r)
    /\ scheduledPods' = {i \in podInfos[r] : i.at # None}
    /\ existingNodes' = snapshot[r]
    /\ eligibleNodePools' = [np \in {q \in NodePools : Current(q) < Maximum[q]} |-> Current(np)]
    /\ GoTo(r, "cluster")
    /\ UNCHANGED <<capacity, snapshot, podInfos, winner, recommendations, left, answer,
                   apply, cluster, target, restarts>>

\* The state of the one recommender becomes that of this request.
initializeSimulationState(r) ==
    LET Current(np) == deriveNodeCountPerWorkerPool(snapshot[r], np) IN
    /\ pc[r] = "initialize"
    /\ unscheduledPods' = UnscheduledIn(r)
    /\ originalUnscheduledPods' = UnscheduledIn(r)
    /\ scheduledPods' = {i \in podInfos[r] : i.at # None}
    /\ existingNodes' = snapshot[r]
    /\ eligibleNodePools' = [np \in {q \in NodePools : Current(q) < Maximum[q]} |-> Current(np)]
    /\ GoTo(r, "cluster")
    /\ UNCHANGED <<capacity, snapshot, podInfos, winner, recommendations, left, answer,
                   apply, cluster, target, restarts>>

NameTaken(v) == \E w \in pods : w.pod = v.pod

\* An object whose name is taken cannot be created, and Run fails.
initializeVirtualCluster(r) ==
    LET free == {q \in scheduledPods : ~NameTaken(q)}
        possible == nodes \cap existingNodes = {} /\ free = scheduledPods
    IN
    /\ pc[r] = "cluster"
    /\ \/ /\ possible /\ Succeeds(r)
          /\ nodes' = nodes \cup existingNodes /\ pods' = pods \cup scheduledPods
          /\ GoTo(r, "loop") /\ UNCHANGED answer
       \/ /\ Fails(r, "sync") \/ ~possible
          /\ nodes' \in AtMost(r, nodes, nodes \cup existingNodes)
          /\ pods' \in AtMost(r, pods, pods \cup free)
          /\ Respond(r, "error")
    /\ UNCHANGED <<capacity, snapshot, podInfos, winner, recommendations, left, apply,
                   state, target, restarts>>

-----------------------------------------------------------------------------
(* The loop of Run *)

On(n, placement) == Cardinality({q \in placement : q.at = n})

\* The winners that a simulation run may have (see AddNode of ScaleUpPlan).
newNode(r, np) ==
    [pool |-> np, by |-> r, number |-> Cardinality(recommendations[r]) + 1]
Winner(r) ==
    {w \in [node : {newNode(r, np) : np \in DOMAIN eligibleNodePools \cap Templates},
            placed : SUBSET [pod : unscheduledPods, at : existingNodes \cup
                                {newNode(r, np) : np \in DOMAIN eligibleNodePools}]] :
        /\ w.placed # {}
        /\ \A q1, q2 \in w.placed : q1.pod = q2.pod => q1 = q2
        /\ On(w.node, w.placed) <= Slots
        /\ \A q \in w.placed :
              \/ q.at = w.node
              \/ /\ q.at \in existingNodes
                 /\ On(q.at, w.placed) + 2 * On(q.at, scheduledPods) <= 2 * Slots}

ZonesOf(nps) == {zone \in Zones : zone[1] \in nps}

computeTotalZonesAcrossNodePools_PerPool(r) ==
    /\ pc[r] = "loop" /\ unscheduledPods # {}
    /\ capacity' = [capacity EXCEPT ![r] = Cardinality(DOMAIN eligibleNodePools)]
    /\ GoTo(r, "trigger")
    /\ UNCHANGED <<snapshot, podInfos, winner, recommendations, left, answer, apply, state,
                   cluster, target, restarts>>

\* A run starts with a channel that has room for one result of each zone.
computeTotalZonesAcrossNodePools(r) ==
    /\ pc[r] = "loop" /\ unscheduledPods # {}
    /\ capacity' = [capacity EXCEPT ![r] = Cardinality(ZonesOf(DOMAIN eligibleNodePools))]
    /\ GoTo(r, "trigger")
    /\ UNCHANGED <<snapshot, podInfos, winner, recommendations, left, answer, apply, state,
                   cluster, target, restarts>>

\* The results that a run without an error sends, and how many one with an error may
\* send: each pool stops at its first error, on a cancelled context at once.
Results == Cardinality(ZonesOf(DOMAIN eligibleNodePools))
ResultsWithError(r) ==
    LET pools == Cardinality(DOMAIN eligibleNodePools) IN
    pools .. (IF Cancelled(r) THEN pools ELSE Results)

\* Run returns ok whether the pods are all scheduled, nothing wins or a
\* simulation fails; the unscheduled pods of the answer are read at this point.
EndOfRun(r) ==
    /\ \/ pc[r] = "loop" /\ unscheduledPods = {}
       \/ /\ pc[r] = "trigger" /\ Succeeds(r)
          /\ Winner(r) = {} /\ Results <= capacity[r]
       \/ /\ pc[r] = "trigger" /\ Fails(r, "simulate")
          /\ \E k \in ResultsWithError(r) : k <= capacity[r]
    /\ left' = [left EXCEPT ![r] = unscheduledPods]
    /\ pending' = [pending EXCEPT ![r] = recommendations[r]]
    /\ capacity' = [capacity EXCEPT ![r] = 0]
    /\ GoTo(r, "apply")
    /\ UNCHANGED <<snapshot, podInfos, winner, recommendations, answer, failed, state,
                   cluster, target, restarts>>

\* The results are all sent, then received, and one of them wins.
runSimulation(r) ==
    /\ pc[r] = "trigger" /\ Succeeds(r) /\ Results <= capacity[r]
    /\ \E w \in Winner(r) : winner' = [winner EXCEPT ![r] = w]
    /\ capacity' = [capacity EXCEPT ![r] = 0]
    /\ GoTo(r, "syncCluster")
    /\ UNCHANGED <<snapshot, podInfos, recommendations, left, answer, apply, state, cluster,
                   target, restarts>>

\* The channel is full and nobody receives: the handler never returns.
SendBlocks(r) ==
    /\ pc[r] = "trigger"
    /\ \/ Succeeds(r) /\ Results > capacity[r]
       \/ Fails(r, "simulate") /\ \E k \in ResultsWithError(r) : k > capacity[r]
    /\ GoTo(r, "blocked")
    /\ UNCHANGED <<snapshot, podInfos, capacity, winner, recommendations, left, answer,
                   apply, state, cluster, target, restarts>>

\* An error of the synchronisation loses the recommendations of earlier runs.
syncVirtualClusterWithWinningResult(r) ==
    LET placed == winner[r].placed
        possible == \A q \in placed : q.pod \in originalUnscheduledPods /\ ~NameTaken(q)
    IN
    /\ pc[r] = "syncCluster"
    /\ \/ /\ possible /\ Succeeds(r)
          /\ pods' = pods \cup placed /\ nodes' = nodes \cup {winner[r].node}
          /\ GoTo(r, "syncState") /\ UNCHANGED answer
       \/ /\ Fails(r, "sync") \/ ~possible
          /\ pods' \in AtMost(r, pods, pods \cup {q \in placed : ~NameTaken(q)})
          /\ Respond(r, "error") /\ UNCHANGED nodes
    /\ UNCHANGED <<capacity, snapshot, podInfos, winner, recommendations, left, apply,
                   state, target, restarts>>

updateEligibleNodePools(np) ==
    eligibleNodePools' =
        IF np \notin DOMAIN eligibleNodePools THEN eligibleNodePools
        ELSE IF eligibleNodePools[np] + 1 = Maximum[np]
             THEN [q \in DOMAIN eligibleNodePools \ {np} |-> eligibleNodePools[q]]
             ELSE [eligibleNodePools EXCEPT ![np] = @ + 1]

\* The winning node and its pods are read from the virtual cluster: when another
\* request has reset it, the node is not found and Run fails.
syncRecommenderStateWithWinningResult(r) ==
    LET w == winner[r]
        found == {v \in pods : v.pod \in {q.pod : q \in w.placed}}
    IN
    /\ pc[r] = "syncState"
    /\ \/ /\ w.node \in nodes /\ Succeeds(r)
          /\ existingNodes' = existingNodes \cup {w.node}
          /\ scheduledPods' = scheduledPods \cup found
          /\ unscheduledPods' = unscheduledPods \ {v.pod : v \in found}
          /\ updateEligibleNodePools(w.node.pool)
          /\ recommendations' = [recommendations EXCEPT ![r] = @ \cup {w.node}]
          /\ winner' = [winner EXCEPT ![r] = None]
          /\ GoTo(r, "loop") /\ UNCHANGED answer
       \/ /\ w.node \notin nodes \/ Fails(r, "sync")
          /\ existingNodes' \in AtMost(r, existingNodes, existingNodes \cup (nodes \cap {w.node}))
          /\ Respond(r, "error")
          /\ UNCHANGED <<unscheduledPods, scheduledPods, eligibleNodePools, recommendations, winner>>
    /\ UNCHANGED <<capacity, snapshot, podInfos, left, apply, originalUnscheduledPods,
                   cluster, target, restarts>>

-----------------------------------------------------------------------------
(* applyRecommendation *)

FirstPending(r) == CHOOSE n \in pending[r] : \A m \in pending[r] : n.number <= m.number

CreateNodes_LogsErrors(r) ==
    /\ pc[r] = "apply"
    /\ \/ /\ pending[r] # {}
          /\ \/ Succeeds(r) /\ targetNodes' = targetNodes \cup {FirstPending(r)}
             \/ Fails(r, "create") /\ UNCHANGED targetNodes
          /\ pending' = [pending EXCEPT ![r] = @ \ {FirstPending(r)}]
          /\ UNCHANGED pc
       \/ /\ pending[r] = {} /\ GoTo(r, "untaint")
          /\ pending' = [pending EXCEPT ![r] = recommendations[r]]
          /\ UNCHANGED targetNodes
    /\ UNCHANGED <<capacity, answer, failed, snapshot, podInfos, winner, recommendations,
                   left, state, cluster, ready, bound, restarts>>

\* Every node is tried; if one could not be created, none is untainted.
CreateNodes(r) ==
    /\ pc[r] = "apply"
    /\ \/ /\ pending[r] # {}
          /\ \/ Succeeds(r) /\ targetNodes' = targetNodes \cup {FirstPending(r)} /\ UNCHANGED failed
             \/ Fails(r, "create") /\ failed' = failed \cup {r} /\ UNCHANGED targetNodes
          /\ pending' = [pending EXCEPT ![r] = @ \ {FirstPending(r)}]
          /\ UNCHANGED <<pc, answer>>
       \/ /\ pending[r] = {}
          /\ IF r \in failed
             THEN Respond(r, "error") /\ UNCHANGED pending
             ELSE /\ GoTo(r, "untaint") /\ UNCHANGED answer
                  /\ pending' = [pending EXCEPT ![r] = recommendations[r]]
          /\ UNCHANGED <<targetNodes, failed>>
    /\ UNCHANGED <<capacity, snapshot, podInfos, winner, recommendations, left, state,
                   cluster, ready, bound, restarts>>

UntaintNodes_IgnoresErrors(r) ==
    /\ pc[r] = "untaint"
    /\ \/ /\ pending[r] # {}
          /\ \/ Succeeds(r) /\ ready' = ready \cup {FirstPending(r)}
             \/ Fails(r, "untaint") /\ UNCHANGED ready
          /\ pending' = [pending EXCEPT ![r] = @ \ {FirstPending(r)}]
          /\ UNCHANGED <<pc, answer>>
       \/ pending[r] = {} /\ Respond(r, "ok") /\ UNCHANGED <<ready, pending>>
    /\ UNCHANGED <<capacity, snapshot, podInfos, winner, recommendations, left, failed,
                   state, cluster, targetNodes, bound, restarts>>

UntaintNodes(r) ==
    /\ pc[r] = "untaint"
    /\ \/ /\ pending[r] # {}
          /\ \/ Succeeds(r) /\ ready' = ready \cup {FirstPending(r)} /\ UNCHANGED failed
             \/ Fails(r, "untaint") /\ failed' = failed \cup {r} /\ UNCHANGED ready
          /\ pending' = [pending EXCEPT ![r] = @ \ {FirstPending(r)}]
          /\ UNCHANGED <<pc, answer>>
       \/ /\ pending[r] = {}
          /\ Respond(r, IF r \in failed THEN "error" ELSE "ok")
          /\ UNCHANGED <<ready, pending, failed>>
    /\ UNCHANGED <<capacity, snapshot, podInfos, winner, recommendations, left, state,
                   cluster, targetNodes, bound, restarts>>

\* The scheduler of the target cluster.
Bind(p, n) ==
    /\ bound[p] = None /\ n \in ready
    /\ Cardinality({q \in Pods : bound[q] = n}) < Slots
    /\ bound' = [bound EXCEPT ![p] = n]
    /\ UNCHANGED <<local, state, cluster, targetNodes, ready, restarts>>

\* The client gives up.  Ten minutes pass only once simulations run, and by the
\* time of another attempt the handler's current call has ended.
GiveUp(r) ==
    /\ Timeouts /\ ~Cancelled(r)
    /\ pc[r] \in {"loop", "trigger", "blocked", "syncCluster", "syncState", "apply", "untaint"}
    /\ answer' = [answer EXCEPT ![r] = "lost"]
    /\ UNCHANGED <<capacity, pc, snapshot, podInfos, winner, recommendations, left, apply,
                   state, cluster, target, restarts>>

\* The process stops, at any point, and starts with a new recommender; the requests
\* in flight end with it, all they know is lost, and their connections break.
Restart ==
    LET Kept(f, value) == [r \in Requests |-> IF InFlight(r) THEN value ELSE f[r]] IN
    /\ restarts < MaxRestarts
    /\ restarts' = restarts + 1
    /\ pc' = Kept(pc, "done") /\ answer' = Kept(answer, "lost")
    /\ podInfos' = Kept(podInfos, {}) /\ capacity' = Kept(capacity, 0)
    /\ winner' = Kept(winner, None)
    /\ pending' = Kept(pending, {}) /\ failed' = {r \in failed : ~InFlight(r)}
    /\ unscheduledPods' = {} /\ originalUnscheduledPods' = {} /\ scheduledPods' = {}
    /\ existingNodes' = {} /\ eligibleNodePools' = <<>>
    /\ nodes' = {} /\ pods' = {}
    /\ UNCHANGED <<snapshot, recommendations, left, target>>

\* The server waits for further requests; a handler that hangs is still there.
Waiting == (\A r \in Requests : pc[r] \in {"blocked", "done"}) /\ UNCHANGED vars

Handle(r) ==
    \/ FactoryReset(r) \/ createSimulationRequest(r)
    \/ initializeSimulationState(r) \/ initializeVirtualCluster(r)
    \/ computeTotalZonesAcrossNodePools(r) \/ EndOfRun(r) \/ runSimulation(r) \/ SendBlocks(r)
    \/ syncVirtualClusterWithWinningResult(r) \/ syncRecommenderStateWithWinningResult(r)
    \/ CreateNodes(r) \/ UntaintNodes(r)

Next ==
    \/ \E r \in Requests : Post(r) \/ Handle(r) \/ GiveUp(r)
    \/ Restart
    \/ \E p \in Pods, n \in ready : Bind(p, n)
    \/ Waiting

Spec == Init /\ [][Next]_vars

-----------------------------------------------------------------------------
(* Properties *)

Location == {"idle", "reset", "parse", "initialize", "cluster", "loop", "trigger",
             "blocked", "syncCluster", "syncState", "apply", "untaint", "done"}
Placement == [pod : Pods, at : Node \cup {None}]

\* Handlers hold pods and nodes, only known nodes are ready or used, and nothing
\* malformed is simulated.
TypeOK ==
    /\ pc \in [Requests -> Location]
    /\ \A r \in Requests : r \in Malformed => pc[r] \in {"idle", "reset", "parse", "done"}
    /\ answer \in [Requests -> {"none", "ok", "badRequest", "error", "lost"}]
    /\ snapshot \in [Requests -> SUBSET targetNodes] /\ capacity \in [Requests -> Nat]
    /\ podInfos \in [Requests -> SUBSET Placement] /\ left \in [Requests -> SUBSET Pods]
    /\ winner \in [Requests -> [node : Node, placed : SUBSET Placement] \cup {None}]
    /\ recommendations \in [Requests -> SUBSET Node] /\ pending \in [Requests -> SUBSET Node]
    /\ \A r \in Requests : pending[r] \subseteq recommendations[r]
    /\ failed \subseteq Requests /\ restarts \in 0 .. MaxRestarts
    /\ unscheduledPods \subseteq originalUnscheduledPods /\ originalUnscheduledPods \subseteq Pods
    /\ scheduledPods \subseteq Placement /\ existingNodes \subseteq Node
    /\ DOMAIN eligibleNodePools \subseteq NodePools
    /\ nodes \subseteq Node /\ pods \subseteq Placement
    /\ targetNodes \subseteq Node /\ ready \subseteq targetNodes
    /\ bound \in [Pods -> ready \cup {None}]

\* However often requests fail and are repeated, the nodes created in the target
\* cluster never exceed the maximum of their pool, provided that clients wait for
\* answers and send fresh snapshots: nothing in the handler compares the two.
TargetWithinMax ==
    \A np \in NodePools : Cardinality({n \in targetNodes : n.pool = np}) <= Maximum[np]

\* "Scaling recommender also applies its recommendation on the target cluster": what
\* an ok answer recommends has been created there and can take pods.
ReportedNodesUsable ==
    \A r \in Requests : answer[r] = "ok" => recommendations[r] \subseteq targetNodes \cap ready

\* A recommendation counts on nodes that can take pods or on its own; a node that
\* can take none, which the simulation does not know, comes from a request whose
\* client was told that it failed, or got no answer.
ReliesOnUsableNodes ==
    \A r \in Requests : pc[r] \in {"loop", "apply"} /\ ~Cancelled(r) =>
        \A q \in scheduledPods :
            q.at \in ready \cup recommendations[r] \/ answer[q.at.by] \in {"error", "lost"}

\* "gives scale up recommendations for a given http input request": an ok answer
\* speaks of pods of its own request, and pods that are no longer unscheduled are
\* so because of nodes that the same answer recommends.
AnswersOwnRequest ==
    \A r \in Requests : answer[r] = "ok" =>
        /\ left[r] \subseteq UnscheduledIn(r)
        /\ recommendations[r] = {} => left[r] = UnscheduledIn(r)

\* Detailed against abstract: whatever fails, is abandoned or ends with the process,
\* the target cluster changes only as Provisioning says.
Abstract == INSTANCE Provisioning WITH
    plan <- recommendations, created <- targetNodes, usable <- ready
ImplementsProvisioning == Abstract!Spec

\* A send that blocks for ever takes a client that has gone, whose handler still
\* simulates while the next request overwrites the pools.  As long as clients wait for
\* each other, the handler of one that still waits never hangs, whatever fails and
\* whatever abandoned and malformed requests do beside it.
HangsOnlyAbandoned == \A r \in Requests : pc[r] = "blocked" => Cancelled(r)

=============================================================================
