# TLA+ verification of scaling-recommender

The scaling recommender answers one question over HTTP: given a snapshot of a
cluster, which nodes should be added so that its unscheduled pods find a place?
It finds out by experiment. It keeps a *virtual cluster* (kvcl: a kube-apiserver
and real kube-schedulers without machines), puts the snapshot into it, adds one
candidate node at a time, watches what the scheduler does, and writes the best
candidate into the virtual cluster before it looks for the next. At the end the
recommended nodes are created in a *target cluster*.

This directory holds models of that program for TLC, and proofs for TLAPS.
Line numbers refer to the files under `src/`. `PROJECT.json` maps every
definition to the lines it models.

## 1. The system

| Component | State | Operations | Talks to |
|---|---|---|---|
| Recommender (`internal/scaler/scaleup`) | `simulationState`: unscheduled, original unscheduled and scheduled pods, existing nodes, eligible pools | `Run`: initialise, simulation runs per pool and zone, synchronisation of the winner | virtual cluster by calls that may fail, a result channel to itself |
| Scoring (`scorer/costonly`, `pricing`, `scaleup/util.go`) | none | `Compute`, `getWinningRunResult`, `tieBreak` | called once per zone and once per run |
| Request state (`internal/util`, `api`) | none | split of pods, nodes from node infos and templates, names | handler and recommender |
| HTTP handler (`internal/simulation`) | none of its own; one goroutine per request | reset, parse, `createSimulationRequest`, run, `applyRecommendation`, answer | the one recommender, both clusters |
| Virtual cluster (kvcl, external) | nodes, pods | create, delete, read, events; its scheduler binds and preempts | recommender |
| Target cluster (external) | nodes with and without taint, bound pods | create, untaint, list pods; its scheduler | handler |
| Engine and process (`runner.go`, `main.go`) | HTTP server, control plane; the goroutines of main, the engine and the signal handler | start, shutdown, signals, panics, exit codes | everything |
| Node utilisation report (`scaleup/util.go`) | a map from node to its pods and resources, per `Run` | `appendNodeUtilisationInfo` | log file |
| Garden access (`internal/garden`) | clients by shoot, reference nodes | `GetShootAccess`, `SyncReferenceNodes`; not called by the program yet | garden, shoot clusters |
| Client (`client`) | none | posts a snapshot, gives up after ten minutes | handler |
| Scale-down | - | commented out in full | - |

What is hard here:

* **Interleaving with the scheduler.** It works between any two calls of the
  recommender, in one cluster in which base objects, the clones of the current
  run and left-over objects of failed ones lie side by side, told apart only by
  names, a label and a taint (the *run reference*).
* **State kept twice.** The recommender's lists and the virtual cluster's base
  objects must agree, and the winner is written to both in several calls.
* **A channel nobody reads.** Results are sent by the goroutine that will read
  them, so the buffer must be large enough for all of them.
* **Failing calls** with deferred clean-up, which may fail as well.
* **One recommender for all requests**: `net/http` serves requests concurrently,
  every `Run` overwrites the one `simulationState`, every request resets the
  virtual cluster.
* **Partial application**: nodes are created one by one and untainted afterwards.
* **Clients that give up, a process that ends**: the context of an abandoned
  request is cancelled while its handler runs on beside that of the next one; a
  restart loses everything but the target cluster.
* **Names as keys**: pods of all namespaces come into one, and are found again
  under names that were changed twice.
* **The end of the process**: a deferred `Shutdown` and a panic in a goroutine of
  the engine, a `main` that returns without waiting for either.
* **Expiring credentials**, counted from another moment than that of their issue.
* **Numbers**: scores of zero, NaN and +Inf; a pool is closed by an equality test.

## 2. Modules

| Module | Models |
|---|---|
| `Request` | the simulation request, names, the state derived by `initializeSimulationState` |
| `Scoring` | score of a simulation and the choice of the winner, as operators |
| `ScaleUp` | one call of `Run` beside the scheduler of the virtual cluster |
| `ScaleUpPlan` | what a `Run` promises, abstractly: a plan that grows by one node at a time |
| `ScaleUpProofs` | theorems about `ScaleUp`: types, pools, pods, the virtual cluster, the channel, memory, and that it implements `ScaleUpPlan` |
| `WinnerSelection` | the loops of `getWinningRunResult` and `tieBreak`, against `Scoring` |
| `Requests` | handlers of several requests, the shared recommender, both clusters, malformed requests, clients that give up, restarts |
| `RequestsProofs` | theorems about `Requests`, and that it implements `Provisioning` |
| `Provisioning` | what all requests together promise of the target cluster, abstractly |
| `SimulationRequest` | pods and names from the target cluster into the virtual one and back |
| `SimulationRequestProofs` | theorems about `SimulationRequest`: pods and names |
| `Utilisation` | the node utilisation report over the winners of a `Run` |
| `Lifecycle` | the process: arguments, engine, signals, shutdown, exit code |
| `LifecycleProofs` | theorems about `Lifecycle` |
| `GardenAccess` | the cache of shoot accesses and the reference nodes |
| `GardenAccessProofs` | theorems about `GardenAccess` |
| `WinnerSelectionProofs` | theorems about `WinnerSelection` |
| `UtilisationProofs` | theorems about `Utilisation` |
| `FoldProofs` | lemmas about sums, maxima and loops written as folds |
| `MC_*` | small instances for TLC |

### ScaleUp

`pc` is the place of the recommender in `Run`; every action is the code between
two points at which the scheduler's doings can matter.

| Action | Code (`multidimensional.go`) |
|---|---|
| `initializeVirtualCluster` | 679-696, may stop half way |
| `AllPodsScheduled`, `StartRun` | the loop head, 177-184, 282-287 |
| `NextPool(np)` | range over the map of eligible pools, any order |
| `setupSimulationRun` | 456-515: nodes and scheduled pods cloned under the run reference |
| `CreateScaledNode(z)` | 367-391: template, taint, creation |
| `createAndDeployUnscheduledPods` | 525-563 |
| `CollectSchedulingEvents` | 392-431: events for at most ten seconds, pods read *now*, score, clean-up of the zone |
| `SendResult` | the send on `resultCh`, which blocks when the buffer is full |
| `cleanUpNodePoolSimRun` | 448-454 |
| `EndWithoutWinner`, `getWinningRunResult` | 288-323 |
| `SyncPods`, `SyncNode`, `syncRecommenderStateWithWinningResult` | 612-677 |
| `Schedule`, `Preempt` | kube-scheduler (external) |

A node or pod of the virtual cluster has a name and the reference that
`fromOriginalResourceName` appends to it (`None` for base objects). The code
takes `shoot--` from a name before it appends the reference and never puts it
back; names that start so are in `Prefixed`. "Waiting for at most ten seconds"
means that any subset of the bound pods may have been seen. A deletion that
fails may have deleted a part.

### Requests

Here a simulation run is two steps, with any winner that `ScaleUpPlan` allows:
`computeTotalZonesAcrossNodePools` makes the channel, as long as the eligible pools
have zones at that moment (265-285), and `runSimulation`, `EndOfRun` or `SendBlocks`
simulate the pools that are eligible by then (325-366) and send their results, which
are received only after all are sent. If the pools are no longer the same, because
another request has overwritten the state, a send may block and the handler hangs
for ever (`SendBlocks`, `pc = "blocked"`). Pools without zones, which block the
channel by themselves, are in `ScaleUp` only. In return the module has what `ScaleUp`
leaves out: several requests, the steps of the handler, the state of the shared
recommender between them, the reset of the virtual cluster, the creation and
untainting of nodes in the target cluster and its scheduler. `OneAtATime` says
whether clients wait for each other, `FreshSnapshots` whether a snapshot shows the
nodes of the target cluster as they are when it is posted; the pods are always read
live, as `createSimulationRequest` does. A request in `Malformed` has a body that
cannot be parsed; it may be posted at any time, by anybody, and resets the virtual
cluster before it is refused.

Nodes are created and untainted one at a time, in the order in which they were
recommended, and every node is tried even when one fails. `GiveUp` is the client
whose ten minutes are over: the context of its request is cancelled, all later
calls of its handler fail, and the handler runs to its end. It is possible from
the first simulation on, since before that nothing takes minutes, and while the
handler hangs. `Restart` ends
the process at any point; its clients lose their connection, and only the target
cluster remains. `Provisioning` is the abstract view: plan, create, untaint,
answer, per request, with no virtual cluster and no simulation at all.

### SimulationRequest

A name is a sequence of the parts the code looks at (`shoot--` at its start,
`-sr-` anywhere). `List`, `createSimulationRequest`, `initializeSimulationState`,
`initializeVirtualCluster` are the functions of those names; `Simulate` is a
simulation that places any pods and the synchronisation that finds them again by
name. Pods keep their order: they are sorted by `createSimulationRequest`, and not
sorted again by `ConstructPodsFromPodInfos`, whose sort is commented out. The loops that pick
pods out of a list are one operator, `Filter`, a fold of the turn `keepIn`.

### Utilisation

`Winner` is a run with a winner, whose pods went to its new node, to existing
nodes or to clones of these; `appendNodeUtilisationInfo` is one step of the range
over a map that groups them by simulated node. Two groups may be about one node.
Groups are taken to be about nodes of the request or recommended ones
(`InitialNodes`, `scaledNodes`), under the names these have once the reference of a
clone is cut off: names with the prefix `shoot--`, which a clone loses and does not
get back, are the business of `ScaleUp` (`Prefixed`), not of this module. A
recommended node is named by the run that recommends it; that no node of the request
has this name is part of `UtilisationAssumption`, since the code starts the name of a
new node with random characters (`util/node.go:160-164`).

### Lifecycle

Three goroutines (`main`, `watcher`, `engine`) and the requests being served.
The process ends when main returns, at any `os.Exit`, and when a panic leaves a
goroutine other than main: `app.OnExit` recovers in main only. `Shutdown` is
deferred in the engine's goroutine and runs before the panic leaves it. A handler
returns (`Answer`) or hangs in a send (`Hang`); `server.Shutdown` waits for both.
Not in the model: a signal before the handler is installed, a failing scorer (its
name was validated before), and whether the processes of the control plane end
with their parent.

### GardenAccess

`GetShootAccess` and `SyncReferenceNodes` step by step, each call of a cluster a
step of its own that may fail; the clock ticks and pods move between any two of
them. Nothing calls this code yet, and it has no lock, so there is one caller.

### What is abstracted

* Every pod has one container. Memory (MiB) decides what fits on a node; CPU
  counts for the score only. Labels, affinities, daemon sets and the other
  filters of the scheduler are left out. All calls are atomic.
* The random run reference and the random part of node names never collide. A
  name without its prefix does not clash with another name, and no pool name
  contains `-sr-`.
* Numbers are natural numbers; scores are quotients, compared exactly. The
  rounding of float64 is left out.
* The order in which pods are created is left out: the scheduler of the model
  takes pending pods in any order.
* In `Requests`, the state of the recommender is read and written by whole
  steps. The code has data races there, whose outcomes may be worse than any
  interleaving of steps; the run that shows a violation does not need them.
* Result files and log files are left out.

## 3. What is checked

Deadlock is checked except where stated. All runs end within three minutes on
two cores.

| Run | Instance | Question |
|---|---|---|
| `scale_up` | 4 pods (3 unscheduled, two of them equal), a node with room for one more, a pool with two zones and room for two nodes, a pool with one zone and room for one; creations and reads fail anywhere | Does `Run` keep its books under every interleaving with the scheduler and every failure half way, and does it implement `ScaleUpPlan`? |
| `scale_up_adverse` | 5 pods: two priorities, a nominated pod, a pod on a node that the snapshot does not list, a node and a pod with `shoot--`; a pool without zones; failing calls | Does eviction, the lost prefix or a failure disturb the base state, when does the result channel block, and does `Run` return? `CHECK_DEADLOCK FALSE`: on the pool without zones `Run` really does block for ever |
| `scale_up_deletes` | no node at first, two pods, two pools that win in turn; deletions fail | Can objects left behind take pods that are reported? |
| `scale_up_no_winner` | pods below one GiB, a pool without price | Violation: see findings |
| `winner_selection` | every sequence of up to three results over scores that are zero, NaN, +Inf and ordinary | Is the loop's winner one that nothing beats, in any order of arrival? `CHECK_DEADLOCK FALSE`: the number of results is bounded by `MaxResults` |
| `requests` | 2 requests and a malformed one, 3 pods, a pool of at most two nodes with two zones, every call fails at times, clients wait for answers or give up, one restart | Does the target cluster stay within the maxima, are answers true, does no handler hang whose client waits, and is `Provisioning` implemented? |
| `requests_concurrent` | 2 requests at once, two pools | Violation: see findings |
| `simulation_request` | up to 4 of 8 pods: namesakes of three namespaces, names with the prefix (once and twice) and the separator, equal times of creation, a system pod, a node without template | Is each placement recorded for the pod that was placed, and is none forgotten? |
| `pod_order` | the same | Violation: see findings |
| `utilisation` | 3 pods with different sums, a node of the request, 2 winners, every assignment | What does the report list, describe and sum up? `CHECK_DEADLOCK FALSE`: the report ends with the request |
| `lifecycle` | 2 requests, 3 signals, the four kinds of command line | What is left behind or cut off, is a failure ever reported as success, and does the process end? |
| `garden_access` | 2 shoots of one name, 3 nodes, 3 pods, validity 1 on a clock of 3 | Whose nodes are the references, how much room do they show, when is a kubeconfig renewed? |

The properties, in short:

* `PoolWithinMax`, `EligibleIffRoomLeft`: no recommendation beyond a pool's
  maximum; a pool is eligible exactly while it has room, and its `Current` is
  right in every state.
* `PodsPartitioned`: no pod is lost, listed twice, or both scheduled and
  unscheduled, although the list of placements comes from events, from a read
  that may be later, and from a second read during synchronisation.
* `PlacementOnKnownNode`: every placement is on a node of the request or a
  recommended one. The exception that the code forces into the property is the
  name that lost its prefix. `PlacementOnLeftoverNode` is what remains of it
  when deletions fail: a pod of the winning simulation may have gone to the node
  of an *earlier zone* of the same pool and run, because all zones of a pool
  share one reference; the node is not recommended, and the pod is considered
  scheduled.
* `ClusterMatchesState`: outside of the writes of a winner, the base objects of
  the virtual cluster are what the recommender's lists say.
* `SimulationsIsolated`: nothing of one pool's simulation is left when the next
  starts. After an error pods may remain (the names of the pods are lost when
  their creation fails, 393-399), and `Run` ends then.
* `OvercommitBounded`: base nodes stay in the virtual cluster next to their
  clones, and simulated pods tolerate both, so the free memory of a node can be
  given away twice; never more than that, unless the request itself had put more
  on the node. The nominated pods are not counted: the scheduler may still bind
  them when the results are in.
* `BlockedOnlyByZonelessPool`: the buffer has room for one result per zone.
  `runSimulationForNodePool` sends one more for a pool without zones whose setup
  fails; only then can `Run` block.
* `ImplementsPlan`: the refinement. The mapping takes the recommender's lists
  for the plan's variables; steps of simulations are stutters, the
  synchronisation of the state is `AddNode`, the ends of `Run` are `Finish`. It
  is stated for requests without preemption, for runs without failing deletions
  and for nodes without prefix, since `AddNode` is not what the code does there.
* `Termination`: every run with a winner uses up room in a pool.
* `WinnerIsBest`, `UnpricedWins`: a NaN score (no price, nothing worth a unit)
  neither wins nor disturbs; a missing price makes a pool win against any priced
  one.
* `TargetWithinMax`: over requests, failures, retries, abandoned handlers and
  restarts the target cluster stays within each pool's maximum, provided that
  clients wait for answers (or give up) and send fresh snapshots; nothing in the
  handler checks it. It depends on the cancelled context: a handler whose client
  has gone must create nothing any more.
* `ImplementsProvisioning`: the same for every step, as a refinement. A node that
  is untainted exists together with all others of its request, no step for a
  client with an answer changes the target cluster, and an ok answer means that
  every node takes pods.
* `ReportedNodesUsable`, `ReliesOnUsableNodes`, `AnswersOwnRequest`: the promises to
  clients.
* `HangsOnlyAbandoned`: a handler can hang in a send while the next request runs, when
  its client has given up after its channel was made and the next request brings more
  pools with room. The handler of a client that waits cannot, as long as clients wait
  for each other. Not every request is answered, therefore: of requests that overlap,
  any may hang.
* `RecordedAsPlaced`, `NoPodForgotten`, `NamesakesGetNoNodes`: a placement reaches the
  pod it is for, unless the pod's own name has the separator `-sr-` in it or the prefix
  twice (`Restorable`); unscheduled namesakes block every simulation, with all other
  pods.
* `ListedWherePlaced`, `RecommendedNodesDescribed`, `ConsumedByLastGroup`: the
  report lists every pod once and describes exactly the recommended nodes, but its
  sums are those of one group of pods only (`scaleup/util.go:118`).
* `ClusterLeftBehind`, `CutOffOnlyBySignal`: a signal may leave the control plane
  behind and cut requests off, which is what the code does; a failure of the server
  does neither, and a cluster that was stopped is not left behind.
* `SuccessOnlyWhenAsked`: no failure ends as a success unless a signal came as well.
  More the exit code does not tell (see below).
* `SignalEndsProcess`, `EngineFailureEndsProcess`: one signal ends the process whatever
  it is doing. A failure of the engine ends it unless a handler hangs; then it lives on
  without a virtual cluster, since `Shutdown` stops that first and waits for the
  handlers without a limit (`runner.go:124-132`).
* `ReferencesOfOneShoot`, `RoomNotOverstated`: failed and interleaved calls never mix
  the nodes of two shoots; a reference node never shows more room than it has.
* `RenewedOnlyIfExpired`: the type counts from the making of the client, so it never
  takes a valid kubeconfig for expired. The reverse it does (see below).

**Bounds.** Two pools are the least at which a choice, the order of a map
iteration and the isolation of simulations matter; two zones in one of them the
least at which zones share a reference and the capacity of the channel differs
from the number of pools. A maximum of two new nodes in a pool lets
`updateEligibleNodePools` take both branches. Three pods to be scheduled let a
run place some pods and leave others to a later run. Two requests let a request
follow one that failed, was abandoned half way or ended with the process, run beside
its handler, and find a pool of two nodes partly filled; what holds for a third is
proved. The malformed request may come between any two steps of the others. A third
pod lets a recommendation of two nodes leave a pod over. One pool with two zones is
enough for the channel of a handler to be too short (the pool is full for one request
and open for the next); pools are counted separately (`InPool`), and
`requests_concurrent` has two. Three results are enough for a
tie with a third result before, between or after. Two winners are the least at
which a node can be both recommended and a node of a later simulation. Three
signals are one more than the channel holds. A kubeconfig that is valid for one
tick of three can expire before, during and after a call, and be replaced.
Symmetry is used where a run has no liveness property and the constants are
treated alike: well-formed requests and pods in `requests`, two equal pods in `scale_up`.

**Fairness.** `ScaleUp` has weak fairness of the recommender: its goroutine is
runnable unless it waits for the channel. The scheduler has none, since the
code does not rely on it: it waits ten seconds and goes on. `Requests` states no
liveness and no fairness: a handler may hang, and what its steps promise is safety.
`Lifecycle` has weak fairness of main, of the signal handler, of the engine and of each
handler, which either ends or hangs (`Answer(r) \/ Hang(r)`): that it ends is not
assumed. The server need not fail, and nobody need send a signal or a request.

### Findings

* `scale_up_no_winner`: a simulation with score 0 is dropped with its placements
  (`multidimensional.go:566`). Pods with less than one GiB of memory and no CPU
  request score 0, so `Run` ends with "No winner could be identified. This will
  happen when no pods could be assigned" although pods were assigned.
* `requests_concurrent`: two requests at the same time share one recommender
  (`factory.go:19`). One of them may answer "ok" without a recommendation and
  with no pod left unscheduled, because the nodes for its pods went into the
  answer of the other.
* `pod_order`: `ConstructPodsFromPodInfos` gets the order and ignores it, the sort is
  commented out (`pod.go:84`). Pods are deployed in order of their creation, while
  `api/types.go:78-79` promises descending requested resources by default.

Not findings, but worth knowing. An error of a simulation, for instance a missing
node template, ends `Run` with an *ok* result that holds what earlier runs found.
A scheduled pod whose nomination is all it has is cloned to the node name
`-sr-<ref>`, where it takes up no memory. `api/types.go:76` says templates
are keyed by instance type, the lookup takes any template of that type
(`node.go:151`); with one per zone it may be another zone's. `shoot.go:16` says that
`HasExpired` returns true if the kubeconfig has expired; it counts from the making of
the client, not from the issue of the kubeconfig (47), so an access is handed out after
its expiry for as long as it took to make the client. The comment at
`access.go:161-162` speaks of the total of all system components, the code takes
off the largest sum of one node; with `RoomNotOverstated` it is enough for each node.
The panic with `app.Exit` in the engine's goroutine is not recovered: the exit code is
2, that of a crash and of malformed flags, where `main.go:54` asks for 1; and 1 is that
of incomplete arguments, a second signal and a virtual cluster that does not start.
With old snapshots the maximum of a pool is exceeded: nothing in the handler compares
the two (`handler.go:142`), and no property covers it.

## 4. What is proved

`ScaleUpProofs` proves, for all requests (any sets of pods, nodes, pools, zones,
priorities, sizes, prices) and every set of failing calls, under the assumptions
named in `Request` and `ScaleUp` (types of the constants; names, references and
`None` are different):

| Theorem | States |
|---|---|
| `TypeCorrect` | `Spec => []TypeOK` |
| `PoolsWithinMax` | `Spec => []PoolWithinMax` |
| `EligiblePoolsHaveRoom` | `Spec => []EligibleIffRoomLeft` |
| `EveryPodAccountedFor` | `Spec => []PodsPartitioned` |
| `SimulationsDoNotMeet` | `NoFailedDeletion`: `Spec => []SimulationsIsolated` |
| `SimulatingKeepsTheBase` | `Spec => []ClusterMatchesState` |
| `ScheduledOnKnownNode` | `NoFailedDeletion`: `Spec => []PlacementOnKnownNode` |
| `ScheduledAtWorstOnLeftover` | `Spec => []PlacementOnLeftoverNode` |
| `ChannelHasRoom` | `Spec => []BlockedOnlyByZonelessPool` |

* `TypeInv` strengthens `TypeOK` by what `pc` says about loop variables and the
  current result (`ControlOK`): the winner is no error, and the pods just bound
  in the base have a node.
* `PoolInv` adds that pools still to be simulated and the pool of any result
  are eligible (`EligibleInRun`) and that recommended nodes stem from earlier
  runs (`EarlierRuns`), so the winner's node is new and the count of its pool
  grows by exactly one. `updateEligibleNodePools` tests for equality; that it
  cannot step over the maximum follows from `EligibleIffRoomLeft`, which is why
  the two theorems are proved together.
* `PodInv` adds that a pod exists at most once under a reference (`UniqueNames`,
  the API server's rule carried through binding, preemption and clean-up), that
  references of pools still to be simulated are unused (`FreshReferences`), and
  that results place unscheduled pods only (`ResultsPlaceUnscheduled`). Then the
  pods found during synchronisation have one place each, and move from one list
  to the other.

* `IsolationInv`: an object with a reference belongs to the pool that is being
  simulated, or an error has been sent (`OnlyRunning`), and every such pod is among
  those that some deletion will name (`WillBeDeleted`). It needs deletions to
  succeed (`NoFailedDeletion`); `scale_up_deletes` shows what happens otherwise.
* `BaseInv`: base pods are bound to base nodes only, since they do not tolerate
  the taint of a run (`BasePodsOnBaseNodes`), and outside of the writes of a winner
  the base objects are those the lists name (`ClusterListed`). That a base pod is
  missing only if it was evicted is part of the property: a request of one priority
  (`SamePriority`) excludes it.
* `PlaceInv` follows a name from the clone through the binding, the result and the
  base pod into the list of scheduled pods. With failing deletions one case more is
  left, a node of an earlier zone; it is `PlacementOnLeftoverNode`, for which no
  hypothesis is needed.
* `ChannelInv`: each result in the channel takes the place of one zone of its pool
  (`PlacesDistinct`), the one about to be sent a place still free (`NextPlace`), and
  there are as many places as the buffer is long. Only a pool without zones whose
  setup fails has no place.

It adds the theorems about memory, for finite requests:

| Theorem | States |
|---|---|
| `NodesAtMostTwiceFull` | `Spec => []OvercommitBounded` |
| `RunImplementsPlan` | `PlainRequest`: `Spec => ImplementsPlan` |

* `MemoryInv`: while the zones of a pool are simulated, the clones of the scheduled
  pods are there and take up their room (`ClonesPresent`), so what the scheduler
  binds to a clone fits together with them (`PodsOfZoneFit`), and a result holds for
  each node what fits once on the base object and once on the clone (`ResultsOK`).
  The lists grow by such results only, and by at most one node's worth under each of
  its names (`PlanFits`).
* `PlanInv`: each finished run has added one node (`RunsCounted`), winners come from
  zones with a template, and between its writes a winner is in the base where it was
  placed (`WinnerWritten`). Then the synchronisation of the state is `AddNode` of the
  plan and all else a stutter or `Finish`.
* `PlainRequest` says that nothing is preempted (`SamePriority`), that no node of the
  request has the prefix and that deletions succeed: the requests for which `AddNode`
  is what the code does.

Each invariant has an initial-state lemma and step lemmas by action; the `PTL`
steps combine them.

`FoldProofs` holds what these proofs say of sums, maxima and loops. It has no
induction to rest on (see below). That the sum over a finite set is its parts
together is shown for a smallest counterexample among its subsets, which exists
because every family of its subsets that is not empty has a smallest member.
The lemma `LoopInvariant` is shown the same way, over the positions of a sequence: a set of
positions that has 0, and with a position the next, has the last. A loop is the
function that gives its state after each turn (`Runs`); for each of them a lemma of
its own (`FirstLoopInvariant`, `SecondLoopInvariant`, `MaxByLoopInvariant`,
`FilterLoopInvariant`) says that a set of states which has the first one and is
closed under the body has the result.

`WinnerSelectionProofs` proves, for all scores and results, in every order of arrival:

| Theorem | States |
|---|---|
| `ChosenIsBest` | `Spec => []WinnerIsBest` |
| `NoPriceWins` | `Spec => []UnpricedWins` |

The three loops have the invariants `HighestSoFar`, `KeptSoFar` and `LargestSoFar`.
They rest on the comparison of quotients being transitive and total once NaN is out,
+Inf (nothing to pay) included (`AtLeastTransitive`, `AtLeastTotal`), and on no kept
result having the score 0 at which the running maximum starts (`KeptOK`).

`LifecycleProofs` proves, for any requests, number of signals and command line:

| Theorem | States |
|---|---|
| `TypeCorrect` | `Spec => []TypeOK` |
| `ClusterStopped` | `Spec => []ClusterLeftBehind` |
| `RequestsFinish` | `Spec => []CutOffOnlyBySignal` |
| `NoFailureHidden` | `Spec => []SuccessOnlyWhenAsked` |

Its `IInv` adds that a signal received was sent (`SignalsSent`), where the virtual
cluster is at each step of the engine (`ClusterFollowsEngine`), that requests run
only once there is a server (`ServedByEngine`) and that the engine is started by
main (`EngineAfterMain`): without them an exit could not be traced to its cause.

`GardenAccessProofs` proves, for any shoots, nodes, pods, validity and clock:

| Theorem | States |
|---|---|
| `TypeCorrect` | `Spec => []TypeOK` |
| `OneShoot` | `Spec => []ReferencesOfOneShoot` |
| `RenewedWhenExpired` | `Spec => []RenewedOnlyIfExpired` |
| `RoomIsThere` | `Spec => []RoomNotOverstated` |

Its `IInv` adds what is known of the call under way (`CallOK`: the cache maps a
shoot to its own accesses, the nodes read are those of the shoot asked for) and
that a kubeconfig was issued before the access was made of it (`IssuedBefore`), so
that its expiry comes first. The room follows from the maximum over the nodes being no
less than the sum of any one of them (`LargestOfAllNodes`); there are finitely many
pods.

`SimulationRequestProofs` proves, for any pods of the target cluster with any names and
namespaces, and any nodes and templates:

| Theorem | States |
|---|---|
| `TypeCorrect` | `Spec => []TypeOK` |
| `PlacedAsRecorded` | `Spec => []RecordedAsPlaced` |
| `NothingForgotten` | `Spec => []NoPodForgotten` |
| `NamesakesBlock` | `Spec => []NamesakesGetNoNodes` |

* `FilterKeeps`, by `FilterLoopInvariant`: a filter keeps the elements of the set.
  `NameReadBack`: the separator that the run appends is the only one in a
  changed name (`Restorable`), so what is before it is the name without its prefix.
* `IInv` adds that the pods of the request are in one of the lists or recorded
  (`PodsKnown`), that the base has the scheduled and the recorded ones (`BaseKnown`),
  and that the original of a name is still unscheduled or recorded (`OriginalsKnown`).
  A simulation can be deployed only if each changed name is that of one pod
  (`NamesUsedOnce`), among the base pods and the unscheduled ones together; therefore
  what is read back finds the pod that was placed, and namesakes block.

`RequestsProofs` proves, for any requests, pods, pools and maxima, every set of
failing calls, malformed requests at any time, clients that give up at any point from
the first simulation on, and any number of restarts:

| Theorem | States | Clients |
|---|---|---|
| `TypeCorrect` | `Spec => []TypeOK` | any |
| `ReportedUsable` | `Spec => []ReportedNodesUsable` | any |
| `WithinMaximum` | `Spec => []TargetWithinMax` | wait, fresh snapshots |
| `Implements` | `Spec => ImplementsProvisioning` | wait, fresh snapshots |
| `ReliesOnUsable` | `Spec => []ReliesOnUsableNodes` | wait, fresh snapshots |
| `OwnAnswer` | `Spec => []AnswersOwnRequest` | wait, fresh snapshots |
| `HangsAbandoned` | `Spec => []HangsOnlyAbandoned` | wait |

"Wait, fresh snapshots" are the assumptions `OneAtATime` and `FreshSnapshots` of
the theorem; without them `requests_concurrent` refutes `AnswersOwnRequest`.

* `TypeInv` adds that every node of a recommendation without an error is done or
  still to be tried (`NoneForgotten`), from which an ok answer follows, and that
  there are finitely many nodes, so that they can be counted.
* `RoomInv`: only handlers whose clients have gone run beside another
  (`OneActive`), and such a handler changes nothing that counts; the count of an
  eligible pool covers the nodes that exist *and* those recommended (`Room`), so
  both fit into the maximum together (`PlansWithinMax`) when the nodes are
  created. `Unanswered`, `Own` and `WinnerEligible` make each step one of
  `Provisioning`; the step lemmas of the refinement say which.
* `UseInv` follows pods and nodes from the target cluster through the virtual one
  into the answer: a node without pods is of a request that ended without it or
  still works (`Accounted`), all that is simulated is at nodes the request may
  count on (`Sited`), and the unscheduled pods are its own (`OwnPods`).

* `ChannelInv`: between the two steps of a simulation the pools are those the channel was
  made for, unless the client has gone: only one handler whose client waits is beyond
  the reset (`OneActive`), and one whose client has gone fails before it changes them.

`UtilisationProofs` proves, for any pods and requests, any nodes of the request, any
number of winners, every placement and every order of the groups:

| Theorem | States |
|---|---|
| `DescribedIfRecommended` | `Spec => []RecommendedNodesDescribed` |
| `ListedOnce` | `Spec => []ListedWherePlaced` |
| `ConsumedByOneGroup` | `Spec => []ConsumedByLastGroup` |

The last two speak of a report to which all groups of the last winner have been added.
Its `IInv` says what holds between two groups: an entry lists the placements whose
groups have been added (`Added`, `AddedListed`), and shows the resources of one group
of the last winner among them (`AddedConsumed`); a group still to be added has the
pods that the last winner placed on its simulated node (`GroupsToAdd`), each of them
once (`PlacedOnce`), hence none that its entry lists already. The entry made for a
winner's own node replaces none because its name is new. An entry lists pods with
their runs, the history holds placements: as a pod is placed once by a winner, both
have the same number and the same sum (`SumRenamed`).

Every safety and action property of the runs that pass, and both refinements, are
stated by a theorem. Only model-checked are `Termination`, `SignalEndsProcess` and
`EngineFailureEndsProcess`: TLAPS does not do liveness under fairness.

## 5. Not modelled

* Client: only that it posts snapshots and gives up. The mapping of scenario files
  (`client/util/mapper.go`) is commented out for the most part.
* Reading the garden's configuration (`garden/config.go`): pure I/O.
* Scale-down: commented out.
* Loading of price lists, node filters, constants, JSON, logging, result files.
* Labels and taints other than those of a run: data for the external scheduler.

## 6. Plan

Done, in this order: `Request`, `Scoring`, `ScaleUp`, `ScaleUpPlan`,
`WinnerSelection`, `ScaleUpProofs` (types, pools, pods), `Requests`, then
`Provisioning` with clients that give up and restarts, `Lifecycle` and its proofs,
`SimulationRequest`, `Utilisation`, `GardenAccess` and its proofs,
`RequestsProofs` (types, maxima, refinement, answers), the rest of `ScaleUpProofs`
(isolation, base objects, placements, channel, memory, refinement), the room in
`GardenAccessProofs`, `WinnerSelectionProofs`, `SimulationRequestProofs`,
`FoldProofs` and `UtilisationProofs`.

Nothing of the plan is left. What could follow is liveness beyond TLC's bounds, which
needs a prover that has fairness, and the components of section 5.
