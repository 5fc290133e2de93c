---------------------------- MODULE RequestsProofs ----------------------------
(***************************************************************************)
(* Proofs about Requests, in five parts, most of one step lemma per        *)
(* action: TypeInv holds whatever clients do; for clients that wait for    *)
(* each other's answers ChannelInv says who can hang; if they also send    *)
(* fresh snapshots, RoomInv bounds the nodes of the target cluster, the    *)
(* handler implements Provisioning, and UseInv says which nodes and pods   *)
(* an answer speaks of.                                                    *)
(***************************************************************************)
EXTENDS Requests, FiniteSetTheorems, WellFoundedInduction, TLAPS

\* A node that is still to be tried is one that has the least number of those.
LEMMA FirstPendingType ==
    ASSUME NEW r \in Requests, pending[r] \subseteq Node, pending[r] # {}
    PROVE  FirstPending(r) \in pending[r]
<1> DEFINE numbers == {n.number : n \in pending[r]}
<1>1. numbers \subseteq Nat /\ numbers # {}
  BY DEF Node
<1>2. PICK least \in numbers : \A k \in numbers : <<k, least>> \notin OpToRel(<, Nat)
  <2> HIDE DEF numbers
  <2> QED BY <1>1, WFMin, NatLessThanWellFounded
<1>3. \A k \in numbers : least <= k
  <2> SUFFICES ASSUME NEW k \in numbers, ~(least <= k) PROVE FALSE
    OBVIOUS
  <2>1. k \in Nat /\ least \in Nat /\ k < least
    BY <1>1
  <2>2. <<k, least>> \in OpToRel(<, Nat)
    BY <2>1 DEF OpToRel
  <2> QED BY <1>2, <2>2
<1>4. \E n \in pending[r] : \A m \in pending[r] : n.number <= m.number
  BY <1>2, <1>3
<1> QED BY <1>4 DEF FirstPending

\* The nodes of a pool.
InPool(ns, np) == {n \in ns : n.pool = np}

\* A set of nodes has at most one node more in a pool when a node is added to it.
LEMMA OneMore ==
    ASSUME NEW ns, IsFiniteSet(ns), NEW n, NEW np
    PROVE  /\ IsFiniteSet(ns \cup {n})
           /\ Cardinality(InPool(ns, np)) \in Nat
           /\ Cardinality(InPool(ns \cup {n}, np)) \in Nat
           /\ Cardinality(InPool(ns \cup {n}, np)) <= Cardinality(InPool(ns, np)) + 1
           /\ n.pool # np => InPool(ns \cup {n}, np) = InPool(ns, np)
<1>1. IsFiniteSet(InPool(ns, np)) /\ IsFiniteSet(ns \cup {n})
  BY FS_Subset, FS_AddElement DEF InPool
<1>2. /\ Cardinality(InPool(ns, np)) \in Nat
      /\ Cardinality(InPool(ns, np) \cup {n}) \in Nat
      /\ Cardinality(InPool(ns, np) \cup {n}) <= Cardinality(InPool(ns, np)) + 1
  <2> DEFINE ms == InPool(ns, np)
  <2>1. /\ IsFiniteSet(ms \cup {n})
        /\ Cardinality(ms \cup {n}) = Cardinality(ms) \/ Cardinality(ms \cup {n}) = Cardinality(ms) + 1
    <3> HIDE DEF ms
    <3> QED BY <1>1, FS_AddElement DEF ms
  <2> QED BY <1>1, <2>1, FS_CardinalityType
<1>3. InPool(ns \cup {n}, np) = IF n.pool = np THEN InPool(ns, np) \cup {n} ELSE InPool(ns, np)
  BY DEF InPool
<1> QED BY <1>1, <1>2, <1>3

-----------------------------------------------------------------------------
(* What holds in every state, whatever fails and whoever gives up *)

\* The winner of a simulation run.
Result == [node : Node, placed : SUBSET Placement]

\* A winner is synchronised only when there is one.
WinnerKnown ==
    \A r \in Requests : pc[r] \in {"syncCluster", "syncState"} => winner[r] \in Result

\* There are as many nodes as were recommended, a finite number.
FinitelyMany ==
    IsFiniteSet(targetNodes) /\ \A r \in Requests : IsFiniteSet(recommendations[r])

\* Of a recommendation without an error, every node is done or still to be tried.
NoneForgotten ==
    \A r \in Requests :
        /\ pc[r] = "apply" /\ r \notin failed =>
              recommendations[r] \subseteq targetNodes \cup pending[r]
        /\ pc[r] = "untaint" => recommendations[r] \subseteq targetNodes
        /\ pc[r] = "untaint" /\ r \notin failed =>
              recommendations[r] \subseteq ready \cup pending[r]

\* An answer that is ok comes last, and its nodes are there and ready.
OkMeansUsable ==
    \A r \in Requests :
        answer[r] = "ok" => pc[r] = "done" /\ recommendations[r] \subseteq targetNodes \cap ready

\* The inductive invariant of the handler as such.
TypeInv == TypeOK /\ WinnerKnown /\ FinitelyMany /\ NoneForgotten /\ OkMeansUsable

\* Post preserves TypeInv.
LEMMA PostType ==
    ASSUME TypeInv, NEW r \in Requests, Post(r)
    PROVE  TypeInv'
<1>1. TypeOK'
  BY DEF TypeInv, TypeOK, Location, Placement, GoTo, Post, apply, local, state, cluster, target,
      vars
<1>2. WinnerKnown'
  BY DEF WinnerKnown, TypeInv, TypeOK, Location, Placement, GoTo, Post, apply, local, state,
      cluster, target, vars
<1>3. FinitelyMany'
  BY DEF FinitelyMany, TypeInv, TypeOK, Location, Placement, GoTo, Post, apply, local, state,
      cluster, target, vars
<1>4. NoneForgotten'
  BY DEF NoneForgotten, TypeInv, TypeOK, Location, Placement, GoTo, Post, apply, local, state,
      cluster, target, vars
<1>5. OkMeansUsable'
  BY DEF OkMeansUsable, NoneForgotten, TypeInv, TypeOK, Location, Placement, GoTo, Post, apply,
      local, state, cluster, target, vars
<1> QED BY <1>1, <1>2, <1>3, <1>4, <1>5 DEF TypeInv

\* FactoryReset preserves TypeInv.
LEMMA FactoryResetType ==
    ASSUME TypeInv, NEW r \in Requests, FactoryReset(r)
    PROVE  TypeInv'
<1>1. TypeOK'
  BY DEF TypeInv, TypeOK, Location, Placement, GoTo, FactoryReset, Respond, Cancelled, apply,
      local, state, cluster, target, vars
<1>2. WinnerKnown'
  BY DEF WinnerKnown, TypeInv, TypeOK, Location, Placement, GoTo, FactoryReset, Respond,
      Cancelled, apply, local, state, cluster, target, vars
<1>3. FinitelyMany'
  BY DEF FinitelyMany, TypeInv, TypeOK, Location, Placement, GoTo, FactoryReset, Respond,
      Cancelled, apply, local, state, cluster, target, vars
<1>4. NoneForgotten'
  BY DEF NoneForgotten, TypeInv, TypeOK, Location, Placement, GoTo, FactoryReset, Respond,
      Cancelled, apply, local, state, cluster, target, vars
<1>5. OkMeansUsable'
  BY DEF OkMeansUsable, NoneForgotten, TypeInv, TypeOK, Location, Placement, GoTo, FactoryReset,
      Respond, Cancelled, apply, local, state, cluster, target, vars
<1> QED BY <1>1, <1>2, <1>3, <1>4, <1>5 DEF TypeInv

\* createSimulationRequest preserves TypeInv.
LEMMA createSimulationRequestType ==
    ASSUME TypeInv, NEW r \in Requests, createSimulationRequest(r)
    PROVE  TypeInv'
<1>1. TypeOK'
  BY DEF TypeInv, TypeOK, Location, Placement, GoTo, createSimulationRequest, Respond,
      Cancelled, apply, local, state, cluster, target, vars
<1>2. WinnerKnown'
  BY DEF WinnerKnown, TypeInv, TypeOK, Location, Placement, GoTo, createSimulationRequest,
      Respond, Cancelled, apply, local, state, cluster, target, vars
<1>3. FinitelyMany'
  BY DEF FinitelyMany, TypeInv, TypeOK, Location, Placement, GoTo, createSimulationRequest,
      Respond, Cancelled, apply, local, state, cluster, target, vars
<1>4. NoneForgotten'
  BY DEF NoneForgotten, TypeInv, TypeOK, Location, Placement, GoTo, createSimulationRequest,
      Respond, Cancelled, apply, local, state, cluster, target, vars
<1>5. OkMeansUsable'
  BY DEF OkMeansUsable, NoneForgotten, TypeInv, TypeOK, Location, Placement, GoTo,
      createSimulationRequest, Respond, Cancelled, apply, local, state, cluster, target, vars
<1> QED BY <1>1, <1>2, <1>3, <1>4, <1>5 DEF TypeInv

\* initializeSimulationState preserves TypeInv.
LEMMA initializeSimulationStateType ==
    ASSUME TypeInv, NEW r \in Requests, initializeSimulationState(r)
    PROVE  TypeInv'
<1>1. TypeOK'
  BY DEF TypeInv, TypeOK, Location, Placement, GoTo, initializeSimulationState, UnscheduledIn,
      apply, local, state, cluster, target, vars
<1>2. WinnerKnown'
  BY DEF WinnerKnown, TypeInv, TypeOK, Location, Placement, GoTo, initializeSimulationState,
      UnscheduledIn, apply, local, state, cluster, target, vars
<1>3. FinitelyMany'
  BY DEF FinitelyMany, TypeInv, TypeOK, Location, Placement, GoTo, initializeSimulationState,
      UnscheduledIn, apply, local, state, cluster, target, vars
<1>4. NoneForgotten'
  BY DEF NoneForgotten, TypeInv, TypeOK, Location, Placement, GoTo, initializeSimulationState,
      UnscheduledIn, apply, local, state, cluster, target, vars
<1>5. OkMeansUsable'
  BY DEF OkMeansUsable, NoneForgotten, TypeInv, TypeOK, Location, Placement, GoTo,
      initializeSimulationState, UnscheduledIn, apply, local, state, cluster, target, vars
<1> QED BY <1>1, <1>2, <1>3, <1>4, <1>5 DEF TypeInv

\* initializeVirtualCluster preserves TypeInv.
LEMMA initializeVirtualClusterType ==
    ASSUME TypeInv, NEW r \in Requests, initializeVirtualCluster(r)
    PROVE  TypeInv'
<1>1. TypeOK'
  BY DEF TypeInv, TypeOK, Location, Placement, GoTo, initializeVirtualCluster, Respond,
      Cancelled, AtMost, Succeeds, apply, local, state, cluster, target, vars
<1>2. WinnerKnown'
  BY DEF WinnerKnown, TypeInv, TypeOK, Location, Placement, GoTo, initializeVirtualCluster,
      Respond, Cancelled, AtMost, Succeeds, apply, local, state, cluster, target, vars
<1>3. FinitelyMany'
  BY DEF FinitelyMany, TypeInv, TypeOK, Location, Placement, GoTo, initializeVirtualCluster,
      Respond, Cancelled, AtMost, Succeeds, apply, local, state, cluster, target, vars
<1>4. NoneForgotten'
  BY DEF NoneForgotten, TypeInv, TypeOK, Location, Placement, GoTo, initializeVirtualCluster,
      Respond, Cancelled, AtMost, Succeeds, apply, local, state, cluster, target, vars
<1>5. OkMeansUsable'
  BY DEF OkMeansUsable, NoneForgotten, TypeInv, TypeOK, Location, Placement, GoTo,
      initializeVirtualCluster, Respond, Cancelled, AtMost, Succeeds, apply, local, state,
      cluster, target, vars
<1> QED BY <1>1, <1>2, <1>3, <1>4, <1>5 DEF TypeInv

\* SendBlocks preserves TypeInv.
LEMMA SendBlocksType ==
    ASSUME TypeInv, NEW r \in Requests, SendBlocks(r)
    PROVE  TypeInv'
<1>1. TypeOK'
  BY DEF TypeInv, TypeOK, Location, Placement, GoTo, SendBlocks, apply, local, state, cluster,
      target, vars
<1>2. WinnerKnown'
  BY DEF WinnerKnown, TypeInv, TypeOK, Location, Placement, GoTo, SendBlocks, apply, local, state,
      cluster, target, vars
<1>3. FinitelyMany'
  BY DEF FinitelyMany, TypeInv, TypeOK, Location, Placement, GoTo, SendBlocks, apply, local,
      state, cluster, target, vars
<1>4. NoneForgotten'
  BY DEF NoneForgotten, TypeInv, TypeOK, Location, Placement, GoTo, SendBlocks, apply, local,
      state, cluster, target, vars
<1>5. OkMeansUsable'
  BY DEF OkMeansUsable, NoneForgotten, TypeInv, TypeOK, Location, Placement, GoTo, SendBlocks,
      apply, local, state, cluster, target, vars
<1> QED BY <1>1, <1>2, <1>3, <1>4, <1>5 DEF TypeInv

\* computeTotalZonesAcrossNodePools preserves TypeInv.
LEMMA computeTotalZonesAcrossNodePoolsType ==
    ASSUME TypeInv, NEW r \in Requests, computeTotalZonesAcrossNodePools(r)
    PROVE  TypeInv'
<1>0. Cardinality(ZonesOf(DOMAIN eligibleNodePools)) \in Nat
  BY RequestsAssumption, FS_Subset, FS_CardinalityType DEF ZonesOf
<1>1. TypeOK'
  BY <1>0 DEF TypeInv, TypeOK, Location, Placement, GoTo, computeTotalZonesAcrossNodePools, apply, local, state, cluster,
      target, vars
<1>2. WinnerKnown'
  BY DEF WinnerKnown, TypeInv, TypeOK, Location, Placement, GoTo, computeTotalZonesAcrossNodePools, apply, local, state,
      cluster, target, vars
<1>3. FinitelyMany'
  BY DEF FinitelyMany, TypeInv, TypeOK, Location, Placement, GoTo, computeTotalZonesAcrossNodePools, apply, local,
      state, cluster, target, vars
<1>4. NoneForgotten'
  BY DEF NoneForgotten, TypeInv, TypeOK, Location, Placement, GoTo, computeTotalZonesAcrossNodePools, apply, local,
      state, cluster, target, vars
<1>5. OkMeansUsable'
  BY DEF OkMeansUsable, NoneForgotten, TypeInv, TypeOK, Location, Placement, GoTo, computeTotalZonesAcrossNodePools,
      apply, local, state, cluster, target, vars
<1> QED BY <1>1, <1>2, <1>3, <1>4, <1>5 DEF TypeInv

\* EndOfRun preserves TypeInv.
LEMMA EndOfRunType ==
    ASSUME TypeInv, NEW r \in Requests, EndOfRun(r)
    PROVE  TypeInv'
<1>1. TypeOK'
  BY DEF TypeInv, TypeOK, Location, Placement, GoTo, EndOfRun, apply, local, state, cluster,
      target, vars
<1>2. WinnerKnown'
  BY DEF WinnerKnown, TypeInv, TypeOK, Location, Placement, GoTo, EndOfRun, apply, local, state,
      cluster, target, vars
<1>3. FinitelyMany'
  BY DEF FinitelyMany, TypeInv, TypeOK, Location, Placement, GoTo, EndOfRun, apply, local,
      state, cluster, target, vars
<1>4. NoneForgotten'
  BY DEF NoneForgotten, TypeInv, TypeOK, Location, Placement, GoTo, EndOfRun, apply, local,
      state, cluster, target, vars
<1>5. OkMeansUsable'
  BY DEF OkMeansUsable, NoneForgotten, TypeInv, TypeOK, Location, Placement, GoTo, EndOfRun,
      apply, local, state, cluster, target, vars
<1> QED BY <1>1, <1>2, <1>3, <1>4, <1>5 DEF TypeInv

\* runSimulation preserves TypeInv.
LEMMA runSimulationType ==
    ASSUME TypeInv, NEW r \in Requests, runSimulation(r)
    PROVE  TypeInv'
<1> PICK w \in Winner(r) : winner' = [winner EXCEPT ![r] = w]
  BY DEF runSimulation
<1>0. w \in Result
  <2>1. \A np \in NodePools : newNode(r, np) \in Node
    BY FS_CardinalityType DEF TypeInv, FinitelyMany, newNode, Node
  <2> HIDE DEF newNode, Node
  <2> QED BY <2>1 DEF TypeInv, TypeOK, Winner, Result, Placement, newNode
<1>1. TypeOK'
  BY <1>0 DEF TypeInv, TypeOK, Location, Placement, GoTo, Result, runSimulation, apply, local,
      state, cluster, target, vars
<1>2. WinnerKnown'
  BY <1>0 DEF WinnerKnown, TypeInv, TypeOK, Location, Placement, GoTo, runSimulation, apply,
      local, state, cluster, target, vars
<1>3. FinitelyMany'
  BY DEF FinitelyMany, TypeInv, TypeOK, Location, Placement, GoTo, runSimulation, apply, local,
      state, cluster, target, vars
<1>4. NoneForgotten'
  BY DEF NoneForgotten, TypeInv, TypeOK, Location, Placement, GoTo, runSimulation, apply, local,
      state, cluster, target, vars
<1>5. OkMeansUsable'
  BY DEF OkMeansUsable, NoneForgotten, TypeInv, TypeOK, Location, Placement, GoTo,
      runSimulation, apply, local, state, cluster, target, vars
<1> QED BY <1>1, <1>2, <1>3, <1>4, <1>5 DEF TypeInv

\* syncVirtualClusterWithWinningResult preserves TypeInv.
LEMMA syncVirtualClusterWithWinningResultType ==
    ASSUME TypeInv, NEW r \in Requests, syncVirtualClusterWithWinningResult(r)
    PROVE  TypeInv'
<1>1. TypeOK'
  BY DEF TypeInv, TypeOK, Location, Placement, GoTo, WinnerKnown, Result,
      syncVirtualClusterWithWinningResult, Respond, Cancelled, AtMost, Succeeds, apply, local,
      state, cluster, target, vars
<1>2. WinnerKnown'
  BY DEF WinnerKnown, TypeInv, TypeOK, Location, Placement, GoTo,
      syncVirtualClusterWithWinningResult, Respond, Cancelled, AtMost, Succeeds, apply, local,
      state, cluster, target, vars
<1>3. FinitelyMany'
  BY DEF FinitelyMany, TypeInv, TypeOK, Location, Placement, GoTo,
      syncVirtualClusterWithWinningResult, Respond, Cancelled, AtMost, Succeeds, apply, local,
      state, cluster, target, vars
<1>4. NoneForgotten'
  BY DEF NoneForgotten, TypeInv, TypeOK, Location, Placement, GoTo,
      syncVirtualClusterWithWinningResult, Respond, Cancelled, AtMost, Succeeds, apply, local,
      state, cluster, target, vars
<1>5. OkMeansUsable'
  BY DEF OkMeansUsable, NoneForgotten, TypeInv, TypeOK, Location, Placement, GoTo,
      syncVirtualClusterWithWinningResult, Respond, Cancelled, AtMost, Succeeds, apply, local,
      state, cluster, target, vars
<1> QED BY <1>1, <1>2, <1>3, <1>4, <1>5 DEF TypeInv

\* syncRecommenderStateWithWinningResult preserves TypeInv.
LEMMA syncRecommenderStateWithWinningResultType ==
    ASSUME TypeInv, NEW r \in Requests, syncRecommenderStateWithWinningResult(r)
    PROVE  TypeInv'
<1>0. IsFiniteSet(recommendations[r] \cup {winner[r].node})
  BY FS_AddElement DEF TypeInv, FinitelyMany
<1>1. TypeOK'
  BY DEF TypeInv, TypeOK, Location, Placement, GoTo, WinnerKnown, Result,
      syncRecommenderStateWithWinningResult, updateEligibleNodePools, Respond, Cancelled,
      AtMost, Succeeds, apply, local, state, cluster, target, vars
<1>2. WinnerKnown'
  BY DEF WinnerKnown, TypeInv, TypeOK, Location, Placement, GoTo,
      syncRecommenderStateWithWinningResult, updateEligibleNodePools, Respond, Cancelled,
      AtMost, Succeeds, apply, local, state, cluster, target, vars
<1>3. FinitelyMany'
  BY <1>0 DEF FinitelyMany, TypeInv, TypeOK, Location, Placement, GoTo,
      syncRecommenderStateWithWinningResult, updateEligibleNodePools, Respond, Cancelled,
      AtMost, Succeeds, apply, local, state, cluster, target, vars
<1>4. NoneForgotten'
  BY DEF NoneForgotten, TypeInv, TypeOK, Location, Placement, GoTo,
      syncRecommenderStateWithWinningResult, updateEligibleNodePools, Respond, Cancelled,
      AtMost, Succeeds, apply, local, state, cluster, target, vars
<1>5. OkMeansUsable'
  BY DEF OkMeansUsable, NoneForgotten, TypeInv, TypeOK, Location, Placement, GoTo,
      syncRecommenderStateWithWinningResult, updateEligibleNodePools, Respond, Cancelled,
      AtMost, Succeeds, apply, local, state, cluster, target, vars
<1> QED BY <1>1, <1>2, <1>3, <1>4, <1>5 DEF TypeInv

\* CreateNodes preserves TypeInv.
LEMMA CreateNodesType ==
    ASSUME TypeInv, NEW r \in Requests, CreateNodes(r)
    PROVE  TypeInv'
<1>0. pending[r] # {} => FirstPending(r) \in pending[r]
  BY FirstPendingType DEF TypeInv, TypeOK
<1>f. IsFiniteSet(targetNodes \cup {FirstPending(r)})
  BY FS_AddElement DEF TypeInv, FinitelyMany
<1>1. TypeOK'
  BY <1>0 DEF TypeInv, TypeOK, Location, Placement, GoTo, CreateNodes, Respond, Cancelled,
      Succeeds, apply, local, state, cluster, target, vars
<1>2. WinnerKnown'
  BY DEF WinnerKnown, TypeInv, TypeOK, Location, Placement, GoTo, CreateNodes, Respond,
      Cancelled, Succeeds, apply, local, state, cluster, target, vars
<1>3. FinitelyMany'
  BY <1>f DEF FinitelyMany, TypeInv, TypeOK, Location, Placement, GoTo, CreateNodes, Respond,
      Cancelled, Succeeds, apply, local, state, cluster, target, vars
<1>4. NoneForgotten'
  BY <1>0 DEF NoneForgotten, TypeInv, TypeOK, Location, Placement, GoTo, CreateNodes, Respond,
      Cancelled, Succeeds, apply, local, state, cluster, target, vars
<1>5. OkMeansUsable'
  BY DEF OkMeansUsable, NoneForgotten, TypeInv, TypeOK, Location, Placement, GoTo, CreateNodes,
      Respond, Cancelled, Succeeds, apply, local, state, cluster, target, vars
<1> QED BY <1>1, <1>2, <1>3, <1>4, <1>5 DEF TypeInv

\* UntaintNodes preserves TypeInv.
LEMMA UntaintNodesType ==
    ASSUME TypeInv, NEW r \in Requests, UntaintNodes(r)
    PROVE  TypeInv'
<1>0. pending[r] # {} => FirstPending(r) \in pending[r]
  BY FirstPendingType DEF TypeInv, TypeOK
<1>1. TypeOK'
  BY <1>0 DEF TypeInv, TypeOK, Location, Placement, GoTo, NoneForgotten, UntaintNodes, Respond,
      Cancelled, Succeeds, apply, local, state, cluster, target, vars
<1>2. WinnerKnown'
  BY DEF WinnerKnown, TypeInv, TypeOK, Location, Placement, GoTo, UntaintNodes, Respond,
      Cancelled, Succeeds, apply, local, state, cluster, target, vars
<1>3. FinitelyMany'
  BY DEF FinitelyMany, TypeInv, TypeOK, Location, Placement, GoTo, UntaintNodes, Respond,
      Cancelled, Succeeds, apply, local, state, cluster, target, vars
<1>4. NoneForgotten'
  BY <1>0 DEF NoneForgotten, TypeInv, TypeOK, Location, Placement, GoTo, UntaintNodes, Respond,
      Cancelled, Succeeds, apply, local, state, cluster, target, vars
<1>5. OkMeansUsable'
  BY DEF OkMeansUsable, NoneForgotten, TypeInv, TypeOK, Location, Placement, GoTo, UntaintNodes,
      Respond, Cancelled, Succeeds, apply, local, state, cluster, target, vars
<1> QED BY <1>1, <1>2, <1>3, <1>4, <1>5 DEF TypeInv

\* GiveUp preserves TypeInv.
LEMMA GiveUpType ==
    ASSUME TypeInv, NEW r \in Requests, GiveUp(r)
    PROVE  TypeInv'
<1>1. TypeOK'
  BY DEF TypeInv, TypeOK, Location, Placement, GoTo, GiveUp, Cancelled, apply, local, state,
      cluster, target, vars
<1>2. WinnerKnown'
  BY DEF WinnerKnown, TypeInv, TypeOK, Location, Placement, GoTo, GiveUp, Cancelled, apply,
      local, state, cluster, target, vars
<1>3. FinitelyMany'
  BY DEF FinitelyMany, TypeInv, TypeOK, Location, Placement, GoTo, GiveUp, Cancelled, apply,
      local, state, cluster, target, vars
<1>4. NoneForgotten'
  BY DEF NoneForgotten, TypeInv, TypeOK, Location, Placement, GoTo, GiveUp, Cancelled, apply,
      local, state, cluster, target, vars
<1>5. OkMeansUsable'
  BY DEF OkMeansUsable, NoneForgotten, TypeInv, TypeOK, Location, Placement, GoTo, GiveUp,
      Cancelled, apply, local, state, cluster, target, vars
<1> QED BY <1>1, <1>2, <1>3, <1>4, <1>5 DEF TypeInv

\* Restart preserves TypeInv.
LEMMA RestartType ==
    ASSUME TypeInv, Restart
    PROVE  TypeInv'
<1>1. TypeOK'
  BY RequestsAssumption DEF TypeInv, TypeOK, Location, Placement, GoTo, Restart, InFlight,
      apply, local, state, cluster, target, vars
<1>2. WinnerKnown'
  BY DEF WinnerKnown, TypeInv, TypeOK, Location, Placement, GoTo, Restart, InFlight, apply,
      local, state, cluster, target, vars
<1>3. FinitelyMany'
  BY DEF FinitelyMany, TypeInv, TypeOK, Location, Placement, GoTo, Restart, InFlight, apply,
      local, state, cluster, target, vars
<1>4. NoneForgotten'
  BY DEF NoneForgotten, TypeInv, TypeOK, Location, Placement, GoTo, Restart, InFlight, apply,
      local, state, cluster, target, vars
<1>5. OkMeansUsable'
  BY DEF OkMeansUsable, TypeInv, TypeOK, Location, Placement, GoTo, Restart, InFlight, apply,
      local, state, cluster, target, vars
<1> QED BY <1>1, <1>2, <1>3, <1>4, <1>5 DEF TypeInv

\* Bind preserves TypeInv.
LEMMA BindType ==
    ASSUME TypeInv, NEW p \in Pods, NEW n \in ready, Bind(p, n)
    PROVE  TypeInv'
<1>1. TypeOK'
  BY DEF TypeInv, TypeOK, Location, Placement, GoTo, Bind, apply, local, state, cluster, target,
      vars
<1>2. WinnerKnown'
  BY DEF WinnerKnown, TypeInv, TypeOK, Location, Placement, GoTo, Bind, apply, local, state,
      cluster, target, vars
<1>3. FinitelyMany'
  BY DEF FinitelyMany, TypeInv, TypeOK, Location, Placement, GoTo, Bind, apply, local, state,
      cluster, target, vars
<1>4. NoneForgotten'
  BY DEF NoneForgotten, TypeInv, TypeOK, Location, Placement, GoTo, Bind, apply, local, state,
      cluster, target, vars
<1>5. OkMeansUsable'
  BY DEF OkMeansUsable, TypeInv, TypeOK, Location, Placement, GoTo, Bind, apply, local, state,
      cluster, target, vars
<1> QED BY <1>1, <1>2, <1>3, <1>4, <1>5 DEF TypeInv

\* A stuttering step preserves TypeInv.
LEMMA StutterType ==
    ASSUME TypeInv, UNCHANGED vars
    PROVE  TypeInv'
<1>1. TypeOK'
  BY DEF TypeInv, TypeOK, Location, Placement, GoTo, apply, local, state, cluster, target, vars
<1>2. WinnerKnown'
  BY DEF WinnerKnown, TypeInv, TypeOK, Location, Placement, GoTo, apply, local, state, cluster,
      target, vars
<1>3. FinitelyMany'
  BY DEF FinitelyMany, TypeInv, TypeOK, Location, Placement, GoTo, apply, local, state, cluster,
      target, vars
<1>4. NoneForgotten'
  BY DEF NoneForgotten, TypeInv, TypeOK, Location, Placement, GoTo, apply, local, state,
      cluster, target, vars
<1>5. OkMeansUsable'
  BY DEF OkMeansUsable, TypeInv, TypeOK, Location, Placement, GoTo, apply, local, state,
      cluster, target, vars
<1> QED BY <1>1, <1>2, <1>3, <1>4, <1>5 DEF TypeInv

\* TypeInv holds at first.
LEMMA TypeInvInit == Init => TypeInv
  BY RequestsAssumption, FS_EmptySet DEF Init, TypeInv, TypeOK, WinnerKnown, FinitelyMany,
     NoneForgotten, OkMeansUsable, Location, Placement

\* Every step preserves TypeInv.
LEMMA TypeInvNext ==
    ASSUME TypeInv, [Next]_vars
    PROVE  TypeInv'
  BY PostType, FactoryResetType, createSimulationRequestType, initializeSimulationStateType,
     initializeVirtualClusterType, computeTotalZonesAcrossNodePoolsType, EndOfRunType,
     runSimulationType, SendBlocksType,
     syncVirtualClusterWithWinningResultType, syncRecommenderStateWithWinningResultType,
     CreateNodesType, UntaintNodesType, GiveUpType, RestartType, BindType, StutterType
  DEF Next, Handle, Waiting

\* TypeInv holds in every reachable state.
LEMMA TypeInvariance == Spec => []TypeInv
<1> QED BY TypeInvInit, TypeInvNext, PTL DEF Spec

\* Handlers hold pods and nodes, and only nodes that exist in the target cluster are
\* in snapshots, ready or used, however many requests run, fail, give up or end.
THEOREM TypeCorrect == Spec => []TypeOK
BY TypeInvariance, PTL DEF TypeInv

\* What an ok answer recommends has been created and can take pods.
THEOREM ReportedUsable == Spec => []ReportedNodesUsable
<1>1. TypeInv => ReportedNodesUsable
  BY DEF TypeInv, OkMeansUsable, ReportedNodesUsable
<1> QED BY <1>1, TypeInvariance, PTL

-----------------------------------------------------------------------------
(* When clients wait for each other's answers and send fresh snapshots *)

\* A request that works for a client who still waits, and that can be parsed.
Active(r) == InFlight(r) /\ ~Cancelled(r) /\ r \notin Malformed

\* No pool has more of the nodes ns than its maximum.
WithinMax(ns) == \A np \in NodePools : Cardinality(InPool(ns, np)) <= Maximum[np]

\* Nothing is answered, and at first nothing recommended, while a request is handled.
Unanswered ==
    \A r \in Requests :
        /\ pc[r] = "idle" => answer[r] = "none" /\ recommendations[r] = {}
        /\ InFlight(r) => answer[r] \in {"none", "lost"}
        /\ pc[r] \in {"reset", "parse", "initialize", "cluster"} =>
              answer[r] = "none" /\ recommendations[r] = {}

\* Only requests whose clients have gone run besides another.
OneActive == \A q, r \in Requests : Active(q) /\ Active(r) => q = r

\* Nothing was created since the snapshot of a request that is not yet simulated.
Fresh ==
    \A r \in Requests \ Malformed :
        pc[r] \in {"reset", "parse", "initialize"} => snapshot[r] = targetNodes

\* The nodes of a request are known as its own, none exists before it applies them.
Own ==
    \A r \in Requests :
        /\ \A n \in recommendations[r] : n.by = r
        /\ pc[r] \notin {"apply", "untaint", "done"} => \A n \in targetNodes : n.by # r

\* The winner is a new node of a pool that was eligible and still is.
WinnerEligible ==
    \A r \in Requests : pc[r] \in {"syncCluster", "syncState"} /\ ~Cancelled(r) =>
        \E np \in DOMAIN eligibleNodePools : winner[r].node = newNode(r, np)

\* The count of an eligible pool is one of nodes that exist or are recommended, and
\* is below the maximum.
Room ==
    \A r \in Requests :
        pc[r] \in {"cluster", "loop", "trigger", "syncCluster", "syncState"} /\ ~Cancelled(r) =>
            \A np \in DOMAIN eligibleNodePools :
                /\ eligibleNodePools[np] \in Nat
                /\ Cardinality(InPool(targetNodes \cup recommendations[r], np))
                      <= eligibleNodePools[np]
                /\ eligibleNodePools[np] < Maximum[np]

\* What exists and what is recommended fit into the maxima together.
PlansWithinMax == \A r \in Requests : Active(r) => WithinMax(targetNodes \cup recommendations[r])

\* The inductive invariant of TargetWithinMax.
RoomInv ==
    /\ Unanswered /\ OneActive /\ Fresh /\ Own /\ WinnerEligible /\ Room
    /\ PlansWithinMax /\ TargetWithinMax

\* The nodes of a pool, among finitely many nodes, are finitely many.
LEMMA PoolsFinite ==
    ASSUME NEW ns, IsFiniteSet(ns), NEW np
    PROVE  IsFiniteSet(InPool(ns, np)) /\ Cardinality(InPool(ns, np)) \in Nat
<1>1. IsFiniteSet(InPool(ns, np))
  BY FS_Subset DEF InPool
<1> QED BY <1>1, FS_CardinalityType

\* Fewer nodes are fewer nodes of a pool.
LEMMA PoolsMonotone ==
    ASSUME NEW ns, IsFiniteSet(ns), NEW ms \in SUBSET ns, NEW np
    PROVE  /\ Cardinality(InPool(ms, np)) \in Nat
           /\ Cardinality(InPool(ms, np)) <= Cardinality(InPool(ns, np))
<1>1. InPool(ms, np) \subseteq InPool(ns, np)
  BY DEF InPool
<1> QED BY <1>1, PoolsFinite, FS_Subset, FS_CardinalityType

\* Post preserves RoomInv.
LEMMA PostRoom ==
    ASSUME OneAtATime, FreshSnapshots, TypeInv, RoomInv,
           NEW r \in Requests, Post(r)
    PROVE  RoomInv'
<1>0. ~Active(r) /\ (r \notin Malformed => \A q \in Requests : ~Active(q))
  BY DEF Post, Active, InFlight
<1>r. recommendations[r] = {} /\ (r \notin Malformed => snapshot'[r] = targetNodes)
  BY DEF Post, RoomInv, Unanswered, TypeInv, TypeOK
<1>1. Unanswered'
  BY DEF Unanswered, InFlight, RoomInv, TypeInv, TypeOK, GoTo, Cancelled, Post, apply, local,
      state, cluster, target, vars
<1>2. OneActive'
  BY <1>0 DEF OneActive, Unanswered, Active, InFlight, RoomInv, TypeInv, TypeOK, GoTo,
      Cancelled, Post, apply, local, state, cluster, target, vars
<1>3. Fresh'
  BY <1>r DEF Fresh, Unanswered, OneActive, Active, InFlight, RoomInv, TypeInv, TypeOK, GoTo,
      Cancelled, Post, apply, local, state, cluster, target, vars
<1>4. Own'
  BY DEF Own, WinnerEligible, newNode, RoomInv, TypeInv, TypeOK, GoTo, Cancelled, Post, apply,
      local, state, cluster, target, vars
<1>5. WinnerEligible'
  BY DEF WinnerEligible, OneActive, Active, InFlight, newNode, RoomInv, TypeInv, TypeOK, GoTo,
      Cancelled, Post, apply, local, state, cluster, target, vars
<1>6. Room'
  BY DEF Room, Unanswered, OneActive, Active, InFlight, RoomInv, TypeInv, TypeOK, GoTo,
      Cancelled, Post, apply, local, state, cluster, target, vars
<1>7. PlansWithinMax'
  BY <1>0, <1>r DEF PlansWithinMax, OneActive, Unanswered, Active, InFlight, WithinMax,
      TargetWithinMax, InPool, RoomInv, TypeInv, TypeOK, GoTo, Cancelled, Post, apply, local,
      state, cluster, target, vars
<1>8. TargetWithinMax'
  BY DEF TargetWithinMax, RoomInv, TypeInv, TypeOK, GoTo, Cancelled, Post, apply, local, state,
      cluster, target, vars
<1> QED BY <1>1, <1>2, <1>3, <1>4, <1>5, <1>6, <1>7, <1>8 DEF RoomInv

\* FactoryReset preserves RoomInv.
LEMMA FactoryResetRoom ==
    ASSUME OneAtATime, FreshSnapshots, TypeInv, RoomInv,
           NEW r \in Requests, FactoryReset(r)
    PROVE  RoomInv'
<1>1. Unanswered'
  BY DEF Unanswered, InFlight, RoomInv, TypeInv, TypeOK, GoTo, Cancelled, FactoryReset, Respond,
      apply, local, state, cluster, target, vars
<1>2. OneActive'
  BY DEF OneActive, Unanswered, Active, InFlight, RoomInv, TypeInv, TypeOK, GoTo, Cancelled,
      FactoryReset, Respond, apply, local, state, cluster, target, vars
<1>3. Fresh'
  BY DEF Fresh, Unanswered, OneActive, Active, InFlight, RoomInv, TypeInv, TypeOK, GoTo,
      Cancelled, FactoryReset, Respond, apply, local, state, cluster, target, vars
<1>4. Own'
  BY DEF Own, WinnerEligible, newNode, RoomInv, TypeInv, TypeOK, GoTo, Cancelled, FactoryReset,
      Respond, apply, local, state, cluster, target, vars
<1>5. WinnerEligible'
  BY DEF WinnerEligible, OneActive, Active, InFlight, newNode, RoomInv, TypeInv, TypeOK, GoTo,
      Cancelled, FactoryReset, Respond, apply, local, state, cluster, target, vars
<1>6. Room'
  BY DEF Room, Unanswered, OneActive, Active, InFlight, RoomInv, TypeInv, TypeOK, GoTo,
      Cancelled, FactoryReset, Respond, apply, local, state, cluster, target, vars
<1>7. PlansWithinMax'
  BY DEF PlansWithinMax, OneActive, Unanswered, Active, InFlight, WithinMax, RoomInv, TypeInv,
      TypeOK, GoTo, Cancelled, FactoryReset, Respond, apply, local, state, cluster, target, vars
<1>8. TargetWithinMax'
  BY DEF TargetWithinMax, RoomInv, TypeInv, TypeOK, GoTo, Cancelled, FactoryReset, Respond,
      apply, local, state, cluster, target, vars
<1> QED BY <1>1, <1>2, <1>3, <1>4, <1>5, <1>6, <1>7, <1>8 DEF RoomInv

\* createSimulationRequest preserves RoomInv.
LEMMA createSimulationRequestRoom ==
    ASSUME OneAtATime, FreshSnapshots, TypeInv, RoomInv,
           NEW r \in Requests, createSimulationRequest(r)
    PROVE  RoomInv'
<1>1. Unanswered'
  BY DEF Unanswered, InFlight, RoomInv, TypeInv, TypeOK, GoTo, Cancelled,
      createSimulationRequest, Respond, apply, local, state, cluster, target, vars
<1>2. OneActive'
  BY DEF OneActive, Unanswered, Active, InFlight, RoomInv, TypeInv, TypeOK, GoTo, Cancelled,
      createSimulationRequest, Respond, apply, local, state, cluster, target, vars
<1>3. Fresh'
  BY DEF Fresh, Unanswered, OneActive, Active, InFlight, RoomInv, TypeInv, TypeOK, GoTo,
      Cancelled, createSimulationRequest, Respond, apply, local, state, cluster, target, vars
<1>4. Own'
  BY DEF Own, WinnerEligible, newNode, RoomInv, TypeInv, TypeOK, GoTo, Cancelled,
      createSimulationRequest, Respond, apply, local, state, cluster, target, vars
<1>5. WinnerEligible'
  BY DEF WinnerEligible, OneActive, Active, InFlight, newNode, RoomInv, TypeInv, TypeOK, GoTo,
      Cancelled, createSimulationRequest, Respond, apply, local, state, cluster, target, vars
<1>6. Room'
  BY DEF Room, Unanswered, OneActive, Active, InFlight, RoomInv, TypeInv, TypeOK, GoTo,
      Cancelled, createSimulationRequest, Respond, apply, local, state, cluster, target, vars
<1>7. PlansWithinMax'
  BY DEF PlansWithinMax, OneActive, Unanswered, Active, InFlight, WithinMax, RoomInv, TypeInv,
      TypeOK, GoTo, Cancelled, createSimulationRequest, Respond, apply, local, state, cluster,
      target, vars
<1>8. TargetWithinMax'
  BY DEF TargetWithinMax, RoomInv, TypeInv, TypeOK, GoTo, Cancelled, createSimulationRequest,
      Respond, apply, local, state, cluster, target, vars
<1> QED BY <1>1, <1>2, <1>3, <1>4, <1>5, <1>6, <1>7, <1>8 DEF RoomInv

\* initializeSimulationState preserves RoomInv.
LEMMA initializeSimulationStateRoom ==
    ASSUME OneAtATime, FreshSnapshots, TypeInv, RoomInv,
           NEW r \in Requests, initializeSimulationState(r)
    PROVE  RoomInv'
<1>0. Active(r) /\ recommendations[r] = {} /\ snapshot[r] = targetNodes
  BY DEF initializeSimulationState, Active, InFlight, Cancelled, RoomInv, Unanswered, Fresh,
     TypeInv, TypeOK
<1>r. \A np \in NodePools :
         /\ Cardinality(InPool(targetNodes \cup recommendations[r], np)) \in Nat
         /\ deriveNodeCountPerWorkerPool(snapshot[r], np) =
              Cardinality(InPool(targetNodes \cup recommendations[r], np))
  <2>1. targetNodes \cup recommendations[r] = targetNodes
    BY <1>0
  <2>2. \A np \in NodePools : Cardinality(InPool(targetNodes, np)) \in Nat
    BY PoolsFinite DEF TypeInv, FinitelyMany
  <2>3. \A np \in NodePools :
           deriveNodeCountPerWorkerPool(snapshot[r], np) = Cardinality(InPool(targetNodes, np))
    BY <1>0 DEF InPool, deriveNodeCountPerWorkerPool
  <2> QED BY <2>1, <2>2, <2>3
<1>1. Unanswered'
  BY DEF Unanswered, InFlight, RoomInv, TypeInv, TypeOK, GoTo, Cancelled,
      initializeSimulationState, apply, local, state, cluster, target, vars
<1>2. OneActive'
  BY DEF OneActive, Unanswered, Active, InFlight, RoomInv, TypeInv, TypeOK, GoTo, Cancelled,
      initializeSimulationState, apply, local, state, cluster, target, vars
<1>3. Fresh'
  BY DEF Fresh, Unanswered, OneActive, Active, InFlight, RoomInv, TypeInv, TypeOK, GoTo,
      Cancelled, initializeSimulationState, apply, local, state, cluster, target, vars
<1>4. Own'
  BY DEF Own, WinnerEligible, newNode, RoomInv, TypeInv, TypeOK, GoTo, Cancelled,
      initializeSimulationState, apply, local, state, cluster, target, vars
<1>5. WinnerEligible'
  BY <1>0 DEF WinnerEligible, OneActive, Active, InFlight, newNode, RoomInv, TypeInv, TypeOK,
      GoTo, Cancelled, initializeSimulationState, apply, local, state, cluster, target, vars
<1>6. Room'
  <2> SUFFICES ASSUME NEW q \in Requests, q = r, NEW np \in DOMAIN eligibleNodePools'
               PROVE  /\ eligibleNodePools'[np] \in Nat
                      /\ Cardinality(InPool(targetNodes' \cup recommendations'[q], np))
                            <= eligibleNodePools'[np]
                      /\ eligibleNodePools'[np] < Maximum[np]
    BY <1>0 DEF Room, OneActive, Active, InFlight, RoomInv, TypeInv, TypeOK, GoTo, Cancelled,
       initializeSimulationState, InPool
  <2>1. /\ np \in NodePools
        /\ deriveNodeCountPerWorkerPool(snapshot[r], np) < Maximum[np]
        /\ eligibleNodePools'[np] = deriveNodeCountPerWorkerPool(snapshot[r], np)
        /\ targetNodes' = targetNodes /\ recommendations' = recommendations
    BY DEF initializeSimulationState, target
  <2> QED BY <1>r, <2>1
<1>7. PlansWithinMax'
  BY DEF PlansWithinMax, OneActive, Unanswered, Active, InFlight, WithinMax, RoomInv, TypeInv,
      TypeOK, GoTo, Cancelled, initializeSimulationState, apply, local, state, cluster, target,
      vars
<1>8. TargetWithinMax'
  BY DEF TargetWithinMax, RoomInv, TypeInv, TypeOK, GoTo, Cancelled, initializeSimulationState,
      apply, local, state, cluster, target, vars
<1> QED BY <1>1, <1>2, <1>3, <1>4, <1>5, <1>6, <1>7, <1>8 DEF RoomInv

\* initializeVirtualCluster preserves RoomInv.
LEMMA initializeVirtualClusterRoom ==
    ASSUME OneAtATime, FreshSnapshots, TypeInv, RoomInv,
           NEW r \in Requests, initializeVirtualCluster(r)
    PROVE  RoomInv'
<1>1. Unanswered'
  BY DEF Unanswered, InFlight, RoomInv, TypeInv, TypeOK, GoTo, Cancelled,
      initializeVirtualCluster, Respond, Succeeds, apply, local, state, cluster, target, vars
<1>2. OneActive'
  BY DEF OneActive, Unanswered, Active, InFlight, RoomInv, TypeInv, TypeOK, GoTo, Cancelled,
      initializeVirtualCluster, Respond, Succeeds, apply, local, state, cluster, target, vars
<1>3. Fresh'
  BY DEF Fresh, Unanswered, OneActive, Active, InFlight, RoomInv, TypeInv, TypeOK, GoTo,
      Cancelled, initializeVirtualCluster, Respond, Succeeds, apply, local, state, cluster,
      target, vars
<1>4. Own'
  BY DEF Own, WinnerEligible, newNode, RoomInv, TypeInv, TypeOK, GoTo, Cancelled,
      initializeVirtualCluster, Respond, Succeeds, apply, local, state, cluster, target, vars
<1>5. WinnerEligible'
  BY DEF WinnerEligible, OneActive, Active, InFlight, newNode, RoomInv, TypeInv, TypeOK, GoTo,
      Cancelled, initializeVirtualCluster, Respond, Succeeds, apply, local, state, cluster,
      target, vars
<1>6. Room'
  BY DEF Room, Unanswered, OneActive, Active, InFlight, RoomInv, TypeInv, TypeOK, GoTo,
      Cancelled, initializeVirtualCluster, Respond, Succeeds, apply, local, state, cluster,
      target, vars
<1>7. PlansWithinMax'
  BY DEF PlansWithinMax, OneActive, Unanswered, Active, InFlight, WithinMax, RoomInv, TypeInv,
      TypeOK, GoTo, Cancelled, initializeVirtualCluster, Respond, Succeeds, apply, local, state,
      cluster, target, vars
<1>8. TargetWithinMax'
  BY DEF TargetWithinMax, RoomInv, TypeInv, TypeOK, GoTo, Cancelled, initializeVirtualCluster,
      Respond, Succeeds, apply, local, state, cluster, target, vars
<1> QED BY <1>1, <1>2, <1>3, <1>4, <1>5, <1>6, <1>7, <1>8 DEF RoomInv

\* SendBlocks preserves RoomInv.
LEMMA SendBlocksRoom ==
    ASSUME OneAtATime, FreshSnapshots, TypeInv, RoomInv,
           NEW r \in Requests, SendBlocks(r)
    PROVE  RoomInv'
<1>1. Unanswered'
  BY DEF Unanswered, InFlight, RoomInv, TypeInv, TypeOK, GoTo, Cancelled, SendBlocks, apply,
      local, state, cluster, target, vars
<1>2. OneActive'
  BY DEF OneActive, Unanswered, Active, InFlight, RoomInv, TypeInv, TypeOK, GoTo, Cancelled,
      SendBlocks, apply, local, state, cluster, target, vars
<1>3. Fresh'
  BY DEF Fresh, Unanswered, OneActive, Active, InFlight, RoomInv, TypeInv, TypeOK, GoTo,
      Cancelled, SendBlocks, apply, local, state, cluster, target, vars
<1>4. Own'
  BY DEF Own, WinnerEligible, newNode, RoomInv, TypeInv, TypeOK, GoTo, Cancelled, SendBlocks,
      apply, local, state, cluster, target, vars
<1>5. WinnerEligible'
  BY DEF WinnerEligible, OneActive, Active, InFlight, newNode, RoomInv, TypeInv, TypeOK, GoTo,
      Cancelled, SendBlocks, apply, local, state, cluster, target, vars
<1>6. Room'
  BY DEF Room, Unanswered, OneActive, Active, InFlight, RoomInv, TypeInv, TypeOK, GoTo,
      Cancelled, SendBlocks, apply, local, state, cluster, target, vars
<1>7. PlansWithinMax'
  BY DEF PlansWithinMax, OneActive, Unanswered, Active, InFlight, WithinMax, RoomInv, TypeInv,
      TypeOK, GoTo, Cancelled, SendBlocks, apply, local, state, cluster, target, vars
<1>8. TargetWithinMax'
  BY DEF TargetWithinMax, RoomInv, TypeInv, TypeOK, GoTo, Cancelled, SendBlocks, apply, local,
      state, cluster, target, vars
<1> QED BY <1>1, <1>2, <1>3, <1>4, <1>5, <1>6, <1>7, <1>8 DEF RoomInv

\* computeTotalZonesAcrossNodePools preserves RoomInv.
LEMMA computeTotalZonesAcrossNodePoolsRoom ==
    ASSUME OneAtATime, FreshSnapshots, TypeInv, RoomInv,
           NEW r \in Requests, computeTotalZonesAcrossNodePools(r)
    PROVE  RoomInv'
<1>1. Unanswered'
  BY DEF Unanswered, InFlight, RoomInv, TypeInv, TypeOK, GoTo, Cancelled, computeTotalZonesAcrossNodePools, apply,
      local, state, cluster, target, vars
<1>2. OneActive'
  BY DEF OneActive, Unanswered, Active, InFlight, RoomInv, TypeInv, TypeOK, GoTo, Cancelled,
      computeTotalZonesAcrossNodePools, apply, local, state, cluster, target, vars
<1>3. Fresh'
  BY DEF Fresh, Unanswered, OneActive, Active, InFlight, RoomInv, TypeInv, TypeOK, GoTo,
      Cancelled, computeTotalZonesAcrossNodePools, apply, local, state, cluster, target, vars
<1>4. Own'
  BY DEF Own, WinnerEligible, newNode, RoomInv, TypeInv, TypeOK, GoTo, Cancelled, computeTotalZonesAcrossNodePools,
      apply, local, state, cluster, target, vars
<1>5. WinnerEligible'
  BY DEF WinnerEligible, OneActive, Active, InFlight, newNode, RoomInv, TypeInv, TypeOK, GoTo,
      Cancelled, computeTotalZonesAcrossNodePools, apply, local, state, cluster, target, vars
<1>6. Room'
  BY DEF Room, Unanswered, OneActive, Active, InFlight, RoomInv, TypeInv, TypeOK, GoTo,
      Cancelled, computeTotalZonesAcrossNodePools, apply, local, state, cluster, target, vars
<1>7. PlansWithinMax'
  BY DEF PlansWithinMax, OneActive, Unanswered, Active, InFlight, WithinMax, RoomInv, TypeInv,
      TypeOK, GoTo, Cancelled, computeTotalZonesAcrossNodePools, apply, local, state, cluster, target, vars
<1>8. TargetWithinMax'
  BY DEF TargetWithinMax, RoomInv, TypeInv, TypeOK, GoTo, Cancelled, computeTotalZonesAcrossNodePools, apply, local,
      state, cluster, target, vars
<1> QED BY <1>1, <1>2, <1>3, <1>4, <1>5, <1>6, <1>7, <1>8 DEF RoomInv

\* EndOfRun preserves RoomInv.
LEMMA EndOfRunRoom ==
    ASSUME OneAtATime, FreshSnapshots, TypeInv, RoomInv,
           NEW r \in Requests, EndOfRun(r)
    PROVE  RoomInv'
<1>1. Unanswered'
  BY DEF Unanswered, InFlight, RoomInv, TypeInv, TypeOK, GoTo, Cancelled, EndOfRun, apply,
      local, state, cluster, target, vars
<1>2. OneActive'
  BY DEF OneActive, Unanswered, Active, InFlight, RoomInv, TypeInv, TypeOK, GoTo, Cancelled,
      EndOfRun, apply, local, state, cluster, target, vars
<1>3. Fresh'
  BY DEF Fresh, Unanswered, OneActive, Active, InFlight, RoomInv, TypeInv, TypeOK, GoTo,
      Cancelled, EndOfRun, apply, local, state, cluster, target, vars
<1>4. Own'
  BY DEF Own, WinnerEligible, newNode, RoomInv, TypeInv, TypeOK, GoTo, Cancelled, EndOfRun,
      apply, local, state, cluster, target, vars
<1>5. WinnerEligible'
  BY DEF WinnerEligible, OneActive, Active, InFlight, newNode, RoomInv, TypeInv, TypeOK, GoTo,
      Cancelled, EndOfRun, apply, local, state, cluster, target, vars
<1>6. Room'
  BY DEF Room, Unanswered, OneActive, Active, InFlight, RoomInv, TypeInv, TypeOK, GoTo,
      Cancelled, EndOfRun, apply, local, state, cluster, target, vars
<1>7. PlansWithinMax'
  BY DEF PlansWithinMax, OneActive, Unanswered, Active, InFlight, WithinMax, RoomInv, TypeInv,
      TypeOK, GoTo, Cancelled, EndOfRun, apply, local, state, cluster, target, vars
<1>8. TargetWithinMax'
  BY DEF TargetWithinMax, RoomInv, TypeInv, TypeOK, GoTo, Cancelled, EndOfRun, apply, local,
      state, cluster, target, vars
<1> QED BY <1>1, <1>2, <1>3, <1>4, <1>5, <1>6, <1>7, <1>8 DEF RoomInv

\* runSimulation preserves RoomInv.
LEMMA runSimulationRoom ==
    ASSUME OneAtATime, FreshSnapshots, TypeInv, RoomInv,
           NEW r \in Requests, runSimulation(r)
    PROVE  RoomInv'
<1>0. Active(r)
  BY DEF runSimulation, Active, InFlight, Succeeds, TypeInv, TypeOK
<1>w. \E np \in DOMAIN eligibleNodePools : winner'[r].node = newNode(r, np)
  <2>1. PICK w \in Winner(r) : winner' = [winner EXCEPT ![r] = w]
    BY DEF runSimulation
  <2>2. \E np \in DOMAIN eligibleNodePools : w.node = newNode(r, np)
    BY DEF Winner
  <2> QED BY <2>1, <2>2 DEF TypeInv, TypeOK
<1>1. Unanswered'
  BY DEF Unanswered, InFlight, RoomInv, TypeInv, TypeOK, GoTo, Cancelled, runSimulation,
      Succeeds, apply, local, state, cluster, target, vars
<1>2. OneActive'
  BY DEF OneActive, Unanswered, Active, InFlight, RoomInv, TypeInv, TypeOK, GoTo, Cancelled,
      runSimulation, Succeeds, apply, local, state, cluster, target, vars
<1>3. Fresh'
  BY DEF Fresh, Unanswered, OneActive, Active, InFlight, RoomInv, TypeInv, TypeOK, GoTo,
      Cancelled, runSimulation, Succeeds, apply, local, state, cluster, target, vars
<1>4. Own'
  BY DEF Own, WinnerEligible, newNode, RoomInv, TypeInv, TypeOK, GoTo, Cancelled, runSimulation,
      Succeeds, apply, local, state, cluster, target, vars
<1>5. WinnerEligible'
  BY <1>0, <1>w DEF WinnerEligible, OneActive, Active, InFlight, newNode, RoomInv, TypeInv,
      TypeOK, GoTo, Cancelled, runSimulation, Succeeds, apply, local, state, cluster, target,
      vars
<1>6. Room'
  BY DEF Room, Unanswered, OneActive, Active, InFlight, RoomInv, TypeInv, TypeOK, GoTo,
      Cancelled, runSimulation, Succeeds, apply, local, state, cluster, target, vars
<1>7. PlansWithinMax'
  BY DEF PlansWithinMax, OneActive, Unanswered, Active, InFlight, WithinMax, RoomInv, TypeInv,
      TypeOK, GoTo, Cancelled, runSimulation, Succeeds, apply, local, state, cluster, target,
      vars
<1>8. TargetWithinMax'
  BY DEF TargetWithinMax, RoomInv, TypeInv, TypeOK, GoTo, Cancelled, runSimulation, Succeeds,
      apply, local, state, cluster, target, vars
<1> QED BY <1>1, <1>2, <1>3, <1>4, <1>5, <1>6, <1>7, <1>8 DEF RoomInv

\* syncVirtualClusterWithWinningResult preserves RoomInv.
LEMMA syncVirtualClusterWithWinningResultRoom ==
    ASSUME OneAtATime, FreshSnapshots, TypeInv, RoomInv,
           NEW r \in Requests, syncVirtualClusterWithWinningResult(r)
    PROVE  RoomInv'
<1>1. Unanswered'
  BY DEF Unanswered, InFlight, RoomInv, TypeInv, TypeOK, GoTo, Cancelled,
      syncVirtualClusterWithWinningResult, Respond, Succeeds, apply, local, state, cluster,
      target, vars
<1>2. OneActive'
  BY DEF OneActive, Unanswered, Active, InFlight, RoomInv, TypeInv, TypeOK, GoTo, Cancelled,
      syncVirtualClusterWithWinningResult, Respond, Succeeds, apply, local, state, cluster,
      target, vars
<1>3. Fresh'
  BY DEF Fresh, Unanswered, OneActive, Active, InFlight, RoomInv, TypeInv, TypeOK, GoTo,
      Cancelled, syncVirtualClusterWithWinningResult, Respond, Succeeds, apply, local, state,
      cluster, target, vars
<1>4. Own'
  BY DEF Own, WinnerEligible, newNode, RoomInv, TypeInv, TypeOK, GoTo, Cancelled,
      syncVirtualClusterWithWinningResult, Respond, Succeeds, apply, local, state, cluster,
      target, vars
<1>5. WinnerEligible'
  BY DEF WinnerEligible, OneActive, Active, InFlight, newNode, RoomInv, TypeInv, TypeOK, GoTo,
      Cancelled, syncVirtualClusterWithWinningResult, Respond, Succeeds, apply, local, state,
      cluster, target, vars
<1>6. Room'
  BY DEF Room, Unanswered, OneActive, Active, InFlight, RoomInv, TypeInv, TypeOK, GoTo,
      Cancelled, syncVirtualClusterWithWinningResult, Respond, Succeeds, apply, local, state,
      cluster, target, vars
<1>7. PlansWithinMax'
  BY DEF PlansWithinMax, OneActive, Unanswered, Active, InFlight, WithinMax, RoomInv, TypeInv,
      TypeOK, GoTo, Cancelled, syncVirtualClusterWithWinningResult, Respond, Succeeds, apply,
      local, state, cluster, target, vars
<1>8. TargetWithinMax'
  BY DEF TargetWithinMax, RoomInv, TypeInv, TypeOK, GoTo, Cancelled,
      syncVirtualClusterWithWinningResult, Respond, Succeeds, apply, local, state, cluster,
      target, vars
<1> QED BY <1>1, <1>2, <1>3, <1>4, <1>5, <1>6, <1>7, <1>8 DEF RoomInv

\* syncRecommenderStateWithWinningResult preserves RoomInv.
LEMMA syncRecommenderStateWithWinningResultRoom ==
    ASSUME OneAtATime, FreshSnapshots, TypeInv, RoomInv,
           NEW r \in Requests, syncRecommenderStateWithWinningResult(r)
    PROVE  RoomInv'
<1> DEFINE n == winner[r].node
           success == /\ Active(r)
                      /\ updateEligibleNodePools(n.pool)
                      /\ recommendations' = [recommendations EXCEPT ![r] = @ \cup {n}]
                      /\ winner' = [winner EXCEPT ![r] = None]
                      /\ pc' = [pc EXCEPT ![r] = "loop"] /\ UNCHANGED answer
           failure == /\ pc' = [pc EXCEPT ![r] = "done"]
                      /\ answer' = [answer EXCEPT ![r] = IF Cancelled(r) THEN "lost" ELSE "error"]
                      /\ UNCHANGED <<eligibleNodePools, recommendations, winner>>
<1>0. /\ success \/ failure
      /\ UNCHANGED <<targetNodes, snapshot>>
      /\ pc[r] = "syncState"
  BY DEF syncRecommenderStateWithWinningResult, Succeeds, Active, InFlight, GoTo, Respond,
     target, TypeInv, TypeOK
<1>s. success \/ failure
  BY <1>0
<1>n. Active(r) => /\ n.by = r /\ n.pool \in DOMAIN eligibleNodePools /\ n.pool \in NodePools
  <2> SUFFICES ASSUME Active(r) PROVE n.by = r /\ n.pool \in DOMAIN eligibleNodePools
    BY DEF TypeInv, TypeOK
  <2>1. PICK np \in DOMAIN eligibleNodePools : n = newNode(r, np)
    BY <1>0 DEF RoomInv, WinnerEligible, Active
  <2> QED BY <2>1 DEF newNode
<1>e. Active(r) => /\ eligibleNodePools[n.pool] \in Nat
                   /\ eligibleNodePools[n.pool] < Maximum[n.pool]
                   /\ Maximum[n.pool] \in Nat
  BY <1>0, <1>n, RequestsAssumption DEF RoomInv, Room, Active
<1> DEFINE before == targetNodes \cup recommendations[r]
<1>c. \A np \in NodePools :
         /\ Cardinality(InPool(before, np)) \in Nat
         /\ Cardinality(InPool(before \cup {n}, np)) \in Nat
         /\ Cardinality(InPool(before \cup {n}, np)) <= Cardinality(InPool(before, np)) + 1
         /\ n.pool # np => InPool(before \cup {n}, np) = InPool(before, np)
  <2>1. IsFiniteSet(before)
    BY FS_Union DEF TypeInv, FinitelyMany
  <2> HIDE DEF before, n
  <2> QED BY <2>1, OneMore
<1>d. success => targetNodes' \cup recommendations'[r] = before \cup {n}
  BY <1>0 DEF TypeInv, TypeOK
<1> HIDE DEF n, before
<1>1. Unanswered'
  BY <1>0 DEF Unanswered, RoomInv, TypeInv, TypeOK, Active, InFlight, Cancelled
<1>2. OneActive'
  BY <1>0 DEF OneActive, RoomInv, TypeInv, TypeOK, Active, InFlight, Cancelled
<1>3. Fresh'
  BY <1>0 DEF Fresh, RoomInv, TypeInv, TypeOK, Active, InFlight, Cancelled
<1>4. Own'
  BY <1>0, <1>n DEF Own, RoomInv, TypeInv, TypeOK, Active, InFlight, Cancelled
<1>5. WinnerEligible'
  BY <1>0 DEF WinnerEligible, OneActive, newNode, RoomInv, TypeInv, TypeOK, Active, InFlight, Cancelled
<1>6. Room'
  <2> SUFFICES ASSUME NEW q \in Requests, Cancelled(q)' = FALSE,
                      pc'[q] \in {"cluster", "loop", "trigger", "syncCluster", "syncState"},
                      NEW np \in DOMAIN eligibleNodePools'
               PROVE  /\ eligibleNodePools'[np] \in Nat
                      /\ Cardinality(InPool(targetNodes' \cup recommendations'[q], np))
                            <= eligibleNodePools'[np]
                      /\ eligibleNodePools'[np] < Maximum[np]
    BY DEF Room, Cancelled, InPool
  <2>1. CASE failure
    BY <1>0, <2>1 DEF Room, RoomInv, Cancelled, TypeInv, TypeOK
  <2>2. CASE success
    <3>1. q = r
      BY <1>0, <2>2 DEF RoomInv, OneActive, Active, InFlight, Cancelled, TypeInv, TypeOK
    <3>2. /\ np \in DOMAIN eligibleNodePools /\ np \in NodePools
          /\ n.pool = np => /\ eligibleNodePools'[np] = eligibleNodePools[np] + 1
                            /\ eligibleNodePools[np] + 1 # Maximum[np]
          /\ n.pool # np => eligibleNodePools'[np] = eligibleNodePools[np]
      BY <1>n, <2>2 DEF updateEligibleNodePools, TypeInv, TypeOK
    <3>3. /\ eligibleNodePools[np] \in Nat /\ eligibleNodePools[np] < Maximum[np]
          /\ Cardinality(InPool(before, np)) <= eligibleNodePools[np]
          /\ Maximum[np] \in Nat
      BY <1>0, <2>2, <3>2, RequestsAssumption DEF Room, RoomInv, Active, before
    <3>4. targetNodes' \cup recommendations'[q] = before \cup {n}
      BY <1>d, <2>2, <3>1
    <3>5. /\ Cardinality(InPool(before, np)) \in Nat
          /\ Cardinality(InPool(before \cup {n}, np)) \in Nat
          /\ Cardinality(InPool(before \cup {n}, np)) <= Cardinality(InPool(before, np)) + 1
          /\ n.pool # np => Cardinality(InPool(before \cup {n}, np))
                                = Cardinality(InPool(before, np))
      BY <1>c, <3>2
    <3>6. CASE n.pool = np
      <4>1. /\ eligibleNodePools'[np] = eligibleNodePools[np] + 1
            /\ eligibleNodePools[np] + 1 # Maximum[np]
        BY <3>2, <3>6
      <4>2. eligibleNodePools'[np] \in Nat /\ eligibleNodePools'[np] < Maximum[np]
        BY <4>1, <3>3
      <4>3. Cardinality(InPool(before \cup {n}, np)) <= eligibleNodePools'[np]
        BY <4>1, <3>3, <3>5
      <4> QED BY <3>4, <4>2, <4>3
    <3>7. CASE n.pool # np
      BY <3>2, <3>3, <3>4, <3>5, <3>7
    <3> QED BY <3>6, <3>7
  <2> HIDE DEF success, failure
  <2> QED BY <1>s, <2>1, <2>2, Zenon
<1>7. PlansWithinMax'
  <2> SUFFICES ASSUME NEW q \in Requests, Active(q)', NEW np \in NodePools
               PROVE  Cardinality(InPool(targetNodes' \cup recommendations'[q], np)) <= Maximum[np]
    BY DEF PlansWithinMax, WithinMax, InPool
  <2>1. CASE failure
    BY <1>0, <2>1 DEF PlansWithinMax, WithinMax, RoomInv, Active, InFlight, Cancelled, TypeInv, TypeOK
  <2>2. CASE success
    <3>1. q = r
      BY <1>0, <2>2 DEF RoomInv, OneActive, Active, InFlight, Cancelled, TypeInv, TypeOK
    <3>2. Cardinality(InPool(before, np)) <= Maximum[np] /\ Maximum[np] \in Nat
      BY <2>2, RequestsAssumption DEF PlansWithinMax, WithinMax, RoomInv, before
    <3>3. n.pool = np => Cardinality(InPool(before, np)) <= eligibleNodePools[np]
      BY <1>0, <1>n, <2>2 DEF Room, RoomInv, Active, before
    <3>4. targetNodes' \cup recommendations'[q] = before \cup {n} /\ Active(r)
      BY <1>d, <2>2, <3>1
    <3>5. /\ Cardinality(InPool(before, np)) \in Nat
          /\ Cardinality(InPool(before \cup {n}, np)) \in Nat
          /\ Cardinality(InPool(before \cup {n}, np)) <= Cardinality(InPool(before, np)) + 1
          /\ n.pool # np => Cardinality(InPool(before \cup {n}, np))
                                = Cardinality(InPool(before, np))
      BY <1>c
    <3>6. CASE n.pool = np
      <4>1. /\ eligibleNodePools[np] \in Nat /\ eligibleNodePools[np] < Maximum[np]
            /\ Cardinality(InPool(before, np)) <= eligibleNodePools[np]
        BY <1>e, <3>3, <3>4, <3>6
      <4>2. Cardinality(InPool(before \cup {n}, np)) <= Maximum[np]
        BY <3>2, <3>5, <4>1
      <4> QED BY <3>4, <4>2
    <3>7. CASE n.pool # np
      BY <3>2, <3>4, <3>5, <3>7
    <3> QED BY <3>6, <3>7
  <2> HIDE DEF success, failure
  <2> QED BY <1>s, <2>1, <2>2, Zenon
<1>8. TargetWithinMax'
  BY <1>0 DEF TargetWithinMax, RoomInv
<1> QED BY <1>1, <1>2, <1>3, <1>4, <1>5, <1>6, <1>7, <1>8 DEF RoomInv

\* CreateNodes preserves RoomInv.
LEMMA CreateNodesRoom ==
    ASSUME OneAtATime, FreshSnapshots, TypeInv, RoomInv,
           NEW r \in Requests, CreateNodes(r)
    PROVE  RoomInv'
<1>0. pending[r] # {} => FirstPending(r) \in recommendations[r]
  BY FirstPendingType DEF TypeInv, TypeOK
<1>a. targetNodes' = targetNodes \/ (Active(r) /\ targetNodes' = targetNodes \cup {FirstPending(r)}
                                    /\ FirstPending(r) \in recommendations[r])
  BY <1>0 DEF CreateNodes, Active, InFlight, Succeeds, TypeInv, TypeOK
<1>b. /\ pc[r] = "apply" /\ pc'[r] \in {"apply", "untaint", "done"}
      /\ \A q \in Requests : q # r => pc'[q] = pc[q] /\ answer'[q] = answer[q]
      /\ UNCHANGED <<snapshot, recommendations, eligibleNodePools>>
      /\ Active(r)' => Active(r)
  BY DEF CreateNodes, GoTo, Respond, state, TypeInv, TypeOK, Active, InFlight, Cancelled
<1>c. Active(r) => \A q \in Requests :
         q # r => ~Active(q) /\ (q \notin Malformed => pc[q] \notin {"reset", "parse", "initialize"})
  BY DEF RoomInv, OneActive, Unanswered, Active, InFlight, Cancelled
<1>d. targetNodes' \cup recommendations[r] = targetNodes \cup recommendations[r]
  BY <1>a
<1>1. Unanswered'
  BY DEF Unanswered, InFlight, RoomInv, TypeInv, TypeOK, GoTo, Cancelled, CreateNodes, Respond,
      Succeeds, apply, local, state, cluster, target, vars
<1>2. OneActive'
  BY DEF OneActive, Unanswered, Active, InFlight, RoomInv, TypeInv, TypeOK, GoTo, Cancelled,
      CreateNodes, Respond, Succeeds, apply, local, state, cluster, target, vars
<1>3. Fresh'
  BY <1>a, <1>b, <1>c DEF Fresh, RoomInv
<1>4. Own'
  BY <1>a, <1>b DEF Own, RoomInv
<1>5. WinnerEligible'
  <2>1. UNCHANGED <<winner, recommendations, eligibleNodePools>>
    BY DEF CreateNodes, state
  <2>2. \A q \in Requests : pc'[q] \in {"syncCluster", "syncState"} /\ answer'[q] # "lost" =>
            pc[q] \in {"syncCluster", "syncState"} /\ answer[q] # "lost"
    BY <1>b
  <2> QED BY <2>1, <2>2 DEF WinnerEligible, Cancelled, newNode, RoomInv
<1>6. Room'
  BY <1>a, <1>b, <1>c DEF Room, RoomInv, Active, InFlight, Cancelled, TypeInv, TypeOK
<1>7. PlansWithinMax'
  BY <1>a, <1>b, <1>c, <1>d DEF PlansWithinMax, WithinMax, RoomInv, Active, InFlight, Cancelled
<1>8. TargetWithinMax'
  <2>1. CASE targetNodes' = targetNodes
    BY <2>1 DEF TargetWithinMax, RoomInv
  <2>2. CASE Active(r) /\ targetNodes' \subseteq targetNodes \cup recommendations[r]
    <3> SUFFICES ASSUME NEW np \in NodePools
                 PROVE  Cardinality(InPool(targetNodes', np)) <= Maximum[np]
      BY DEF TargetWithinMax, InPool
    <3>1. IsFiniteSet(targetNodes \cup recommendations[r])
      BY FS_Union DEF TypeInv, FinitelyMany
    <3>2. Cardinality(InPool(targetNodes', np))
            <= Cardinality(InPool(targetNodes \cup recommendations[r], np))
      BY <2>2, <3>1, PoolsMonotone
    <3>3. Cardinality(InPool(targetNodes \cup recommendations[r], np)) <= Maximum[np]
      BY <2>2 DEF PlansWithinMax, WithinMax, RoomInv
    <3>4. /\ Cardinality(InPool(targetNodes', np)) \in Nat /\ Maximum[np] \in Nat
          /\ Cardinality(InPool(targetNodes \cup recommendations[r], np)) \in Nat
      BY <2>2, <3>1, PoolsFinite, PoolsMonotone, RequestsAssumption
    <3> QED BY <3>2, <3>3, <3>4
  <2> QED BY <1>a, <2>1, <2>2
<1> QED BY <1>1, <1>2, <1>3, <1>4, <1>5, <1>6, <1>7, <1>8 DEF RoomInv

\* UntaintNodes preserves RoomInv.
LEMMA UntaintNodesRoom ==
    ASSUME OneAtATime, FreshSnapshots, TypeInv, RoomInv,
           NEW r \in Requests, UntaintNodes(r)
    PROVE  RoomInv'
<1>1. Unanswered'
  BY DEF Unanswered, InFlight, RoomInv, TypeInv, TypeOK, GoTo, Cancelled, UntaintNodes, Respond,
      Succeeds, apply, local, state, cluster, target, vars
<1>2. OneActive'
  BY DEF OneActive, Unanswered, Active, InFlight, RoomInv, TypeInv, TypeOK, GoTo, Cancelled,
      UntaintNodes, Respond, Succeeds, apply, local, state, cluster, target, vars
<1>3. Fresh'
  BY DEF Fresh, Unanswered, OneActive, Active, InFlight, RoomInv, TypeInv, TypeOK, GoTo,
      Cancelled, UntaintNodes, Respond, Succeeds, apply, local, state, cluster, target, vars
<1>4. Own'
  BY DEF Own, WinnerEligible, newNode, RoomInv, TypeInv, TypeOK, GoTo, Cancelled, UntaintNodes,
      Respond, Succeeds, apply, local, state, cluster, target, vars
<1>5. WinnerEligible'
  BY DEF WinnerEligible, OneActive, Active, InFlight, newNode, RoomInv, TypeInv, TypeOK, GoTo,
      Cancelled, UntaintNodes, Respond, Succeeds, apply, local, state, cluster, target, vars
<1>6. Room'
  BY DEF Room, Unanswered, OneActive, Active, InFlight, RoomInv, TypeInv, TypeOK, GoTo,
      Cancelled, UntaintNodes, Respond, Succeeds, apply, local, state, cluster, target, vars
<1>7. PlansWithinMax'
  BY DEF PlansWithinMax, OneActive, Unanswered, Active, InFlight, WithinMax, RoomInv, TypeInv,
      TypeOK, GoTo, Cancelled, UntaintNodes, Respond, Succeeds, apply, local, state, cluster,
      target, vars
<1>8. TargetWithinMax'
  BY DEF TargetWithinMax, RoomInv, TypeInv, TypeOK, GoTo, Cancelled, UntaintNodes, Respond,
      Succeeds, apply, local, state, cluster, target, vars
<1> QED BY <1>1, <1>2, <1>3, <1>4, <1>5, <1>6, <1>7, <1>8 DEF RoomInv

\* GiveUp preserves RoomInv.
LEMMA GiveUpRoom ==
    ASSUME OneAtATime, FreshSnapshots, TypeInv, RoomInv,
           NEW r \in Requests, GiveUp(r)
    PROVE  RoomInv'
<1>1. Unanswered'
  BY DEF Unanswered, InFlight, RoomInv, TypeInv, TypeOK, GoTo, Cancelled, GiveUp, apply, local,
      state, cluster, target, vars
<1>2. OneActive'
  BY DEF OneActive, Unanswered, Active, InFlight, RoomInv, TypeInv, TypeOK, GoTo, Cancelled,
      GiveUp, apply, local, state, cluster, target, vars
<1>3. Fresh'
  BY DEF Fresh, Unanswered, OneActive, Active, InFlight, RoomInv, TypeInv, TypeOK, GoTo,
      Cancelled, GiveUp, apply, local, state, cluster, target, vars
<1>4. Own'
  BY DEF Own, WinnerEligible, newNode, RoomInv, TypeInv, TypeOK, GoTo, Cancelled, GiveUp, apply,
      local, state, cluster, target, vars
<1>5. WinnerEligible'
  BY DEF WinnerEligible, OneActive, Active, InFlight, newNode, RoomInv, TypeInv, TypeOK, GoTo,
      Cancelled, GiveUp, apply, local, state, cluster, target, vars
<1>6. Room'
  BY DEF Room, Unanswered, OneActive, Active, InFlight, RoomInv, TypeInv, TypeOK, GoTo,
      Cancelled, GiveUp, apply, local, state, cluster, target, vars
<1>7. PlansWithinMax'
  BY DEF PlansWithinMax, OneActive, Unanswered, Active, InFlight, WithinMax, RoomInv, TypeInv,
      TypeOK, GoTo, Cancelled, GiveUp, apply, local, state, cluster, target, vars
<1>8. TargetWithinMax'
  BY DEF TargetWithinMax, RoomInv, TypeInv, TypeOK, GoTo, Cancelled, GiveUp, apply, local,
      state, cluster, target, vars
<1> QED BY <1>1, <1>2, <1>3, <1>4, <1>5, <1>6, <1>7, <1>8 DEF RoomInv

\* Restart preserves RoomInv.
LEMMA RestartRoom ==
    ASSUME TypeInv, RoomInv, Restart
    PROVE  RoomInv'
<1>1. Unanswered'
  BY DEF Unanswered, InFlight, RoomInv, TypeInv, TypeOK, GoTo, Cancelled, Restart, apply, local,
      state, cluster, target, vars
<1>2. OneActive'
  BY DEF OneActive, Unanswered, Active, InFlight, RoomInv, TypeInv, TypeOK, GoTo, Cancelled,
      Restart, apply, local, state, cluster, target, vars
<1>3. Fresh'
  BY DEF Fresh, Unanswered, OneActive, Active, InFlight, RoomInv, TypeInv, TypeOK, GoTo,
      Cancelled, Restart, apply, local, state, cluster, target, vars
<1>4. Own'
  BY DEF Own, WinnerEligible, newNode, RoomInv, TypeInv, TypeOK, GoTo, Cancelled, Restart,
      InFlight, apply, local, state, cluster, target, vars
<1>5. WinnerEligible'
  BY DEF WinnerEligible, OneActive, Active, InFlight, newNode, RoomInv, TypeInv, TypeOK, GoTo,
      Cancelled, Restart, apply, local, state, cluster, target, vars
<1>6. Room'
  BY DEF Room, Unanswered, OneActive, Active, InFlight, RoomInv, TypeInv, TypeOK, GoTo,
      Cancelled, Restart, apply, local, state, cluster, target, vars
<1>7. PlansWithinMax'
  BY DEF PlansWithinMax, OneActive, Unanswered, Active, InFlight, WithinMax, RoomInv, TypeInv,
      TypeOK, GoTo, Cancelled, Restart, apply, local, state, cluster, target, vars
<1>8. TargetWithinMax'
  BY DEF TargetWithinMax, RoomInv, TypeInv, TypeOK, GoTo, Cancelled, Restart, InFlight, apply,
      local, state, cluster, target, vars
<1> QED BY <1>1, <1>2, <1>3, <1>4, <1>5, <1>6, <1>7, <1>8 DEF RoomInv

\* Bind preserves RoomInv.
LEMMA BindRoom ==
    ASSUME TypeInv, RoomInv, NEW p \in Pods, NEW n \in ready, Bind(p, n)
    PROVE  RoomInv'
<1>1. Unanswered'
  BY DEF Unanswered, InFlight, RoomInv, TypeInv, TypeOK, GoTo, Cancelled, Bind, apply, local,
      state, cluster, target, vars
<1>2. OneActive'
  BY DEF OneActive, Unanswered, Active, InFlight, RoomInv, TypeInv, TypeOK, GoTo, Cancelled,
      Bind, apply, local, state, cluster, target, vars
<1>3. Fresh'
  BY DEF Fresh, Unanswered, OneActive, Active, InFlight, RoomInv, TypeInv, TypeOK, GoTo,
      Cancelled, Bind, apply, local, state, cluster, target, vars
<1>4. Own'
  BY DEF Own, WinnerEligible, newNode, RoomInv, TypeInv, TypeOK, GoTo, Cancelled, Bind, apply,
      local, state, cluster, target, vars
<1>5. WinnerEligible'
  BY DEF WinnerEligible, OneActive, Active, InFlight, newNode, RoomInv, TypeInv, TypeOK, GoTo,
      Cancelled, Bind, apply, local, state, cluster, target, vars
<1>6. Room'
  BY DEF Room, Unanswered, OneActive, Active, InFlight, RoomInv, TypeInv, TypeOK, GoTo,
      Cancelled, Bind, apply, local, state, cluster, target, vars
<1>7. PlansWithinMax'
  BY DEF PlansWithinMax, OneActive, Unanswered, Active, InFlight, WithinMax, RoomInv, TypeInv,
      TypeOK, GoTo, Cancelled, Bind, apply, local, state, cluster, target, vars
<1>8. TargetWithinMax'
  BY DEF TargetWithinMax, RoomInv, TypeInv, TypeOK, GoTo, Cancelled, Bind, apply, local, state,
      cluster, target, vars
<1> QED BY <1>1, <1>2, <1>3, <1>4, <1>5, <1>6, <1>7, <1>8 DEF RoomInv

\* A stuttering step preserves RoomInv.
LEMMA StutterRoom ==
    ASSUME TypeInv, RoomInv, UNCHANGED vars
    PROVE  RoomInv'
<1>1. Unanswered'
  BY DEF Unanswered, InFlight, RoomInv, TypeInv, TypeOK, GoTo, Cancelled, apply, local, state,
      cluster, target, vars
<1>2. OneActive'
  BY DEF OneActive, Unanswered, Active, InFlight, RoomInv, TypeInv, TypeOK, GoTo, Cancelled,
      apply, local, state, cluster, target, vars
<1>3. Fresh'
  BY DEF Fresh, Unanswered, OneActive, Active, InFlight, RoomInv, TypeInv, TypeOK, GoTo,
      Cancelled, apply, local, state, cluster, target, vars
<1>4. Own'
  BY DEF Own, WinnerEligible, newNode, RoomInv, TypeInv, TypeOK, GoTo, Cancelled, apply, local,
      state, cluster, target, vars
<1>5. WinnerEligible'
  BY DEF WinnerEligible, OneActive, Active, InFlight, newNode, RoomInv, TypeInv, TypeOK, GoTo,
      Cancelled, apply, local, state, cluster, target, vars
<1>6. Room'
  BY DEF Room, Unanswered, OneActive, Active, InFlight, RoomInv, TypeInv, TypeOK, GoTo,
      Cancelled, apply, local, state, cluster, target, vars
<1>7. PlansWithinMax'
  BY DEF PlansWithinMax, OneActive, Unanswered, Active, InFlight, WithinMax, RoomInv, TypeInv,
      TypeOK, GoTo, Cancelled, apply, local, state, cluster, target, vars
<1>8. TargetWithinMax'
  BY DEF TargetWithinMax, RoomInv, TypeInv, TypeOK, GoTo, Cancelled, apply, local, state,
      cluster, target, vars
<1> QED BY <1>1, <1>2, <1>3, <1>4, <1>5, <1>6, <1>7, <1>8 DEF RoomInv

\* RoomInv holds at first.
LEMMA RoomInit == Init => RoomInv
<1>1. \A np \in NodePools : InPool({}, np) = {}
  BY DEF InPool
<1>2. \A np \in NodePools : Cardinality(InPool({}, np)) = 0 /\ Maximum[np] \in Nat
  BY <1>1, FS_EmptySet, RequestsAssumption
<1>3. Init => TargetWithinMax
  BY <1>2 DEF Init, TargetWithinMax, InPool
<1>4. Init => Unanswered /\ OneActive /\ Fresh /\ Own /\ WinnerEligible /\ Room /\ PlansWithinMax
  BY DEF Init, Unanswered, OneActive, Fresh, Own, WinnerEligible, Room, PlansWithinMax, Active,
     InFlight
<1> QED BY <1>3, <1>4 DEF RoomInv

\* Every step preserves RoomInv.
LEMMA RoomNext ==
    ASSUME OneAtATime, FreshSnapshots, TypeInv, RoomInv, [Next]_vars
    PROVE  RoomInv'
  BY PostRoom, FactoryResetRoom, createSimulationRequestRoom, initializeSimulationStateRoom,
     initializeVirtualClusterRoom, computeTotalZonesAcrossNodePoolsRoom, EndOfRunRoom,
     runSimulationRoom, SendBlocksRoom,
     syncVirtualClusterWithWinningResultRoom, syncRecommenderStateWithWinningResultRoom,
     CreateNodesRoom, UntaintNodesRoom, GiveUpRoom, RestartRoom, BindRoom, StutterRoom
  DEF Next, Handle, Waiting

\* RoomInv holds in every reachable state.
LEMMA RoomInvariance ==
    ASSUME OneAtATime, FreshSnapshots
    PROVE  Spec => []RoomInv
<1>1. TypeInv /\ RoomInv /\ [Next]_vars => RoomInv'
  BY RoomNext
<1> QED BY <1>1, TypeInvariance, RoomInit, PTL DEF Spec

\* However requests fail, are abandoned or end with the process, no pool of the target
\* cluster outgrows its maximum, for clients that wait for each other's answers and
\* send fresh snapshots.
THEOREM WithinMaximum ==
    ASSUME OneAtATime, FreshSnapshots
    PROVE  Spec => []TargetWithinMax
BY RoomInvariance, PTL DEF RoomInv

-----------------------------------------------------------------------------
(* The channel of a simulation run, when clients wait for each other's answers *)

\* The client of a request waits until the first simulation at least.
Begun ==
    \A r \in Requests :
        pc[r] \in {"idle", "reset", "parse", "initialize", "cluster"} => ~Cancelled(r)

\* The channel of a request that somebody waits for has room for every result.
ChannelFits ==
    \A r \in Requests : pc[r] = "trigger" /\ ~Cancelled(r) => capacity[r] = Results

\* The inductive invariant of HangsOnlyAbandoned.
ChannelInv == Begun /\ OneActive /\ ChannelFits /\ HangsOnlyAbandoned

\* A request that writes the pools only for a client that waits does not disturb the
\* channel of another.
LEMMA QuietStep ==
    ASSUME TypeInv, ChannelInv, NEW r \in Requests, InFlight(r),
           \A q \in Requests \ {r} :
              pc'[q] = pc[q] /\ answer'[q] = answer[q] /\ capacity'[q] = capacity[q],
           UNCHANGED eligibleNodePools \/ Active(r),
           Cancelled(r) => Cancelled(r)',
           pc'[r] \notin {"idle", "trigger", "blocked"},
           pc'[r] \in {"reset", "parse", "initialize", "cluster"} =>
              pc[r] \in {"reset", "parse", "initialize"} /\ answer'[r] = answer[r]
    PROVE  ChannelInv'
<1>1. Begun'
  BY DEF ChannelInv, Begun, Cancelled
<1>2. OneActive'
  BY DEF ChannelInv, OneActive, Active, InFlight, Cancelled
<1>3. ChannelFits'
  <2> SUFFICES ASSUME NEW q \in Requests, pc'[q] = "trigger", ~Cancelled(q)'
               PROVE  capacity'[q] = Results'
    BY DEF ChannelFits
  <2>1. q # r /\ pc[q] = "trigger" /\ ~Cancelled(q) /\ q \notin Malformed
    BY DEF Cancelled, TypeInv, TypeOK
  <2>2. ~Active(r)
    BY <2>1 DEF ChannelInv, OneActive, Active, InFlight
  <2>3. Results' = Results
    BY <2>2 DEF Results, ZonesOf
  <2> QED BY <2>1, <2>3 DEF ChannelInv, ChannelFits
<1>4. HangsOnlyAbandoned'
  BY DEF ChannelInv, HangsOnlyAbandoned, Cancelled
<1> QED BY <1>1, <1>2, <1>3, <1>4 DEF ChannelInv

\* Nothing but the start of a simulation run and a send that blocks concerns the channel.
LEMMA OtherCallsChannel ==
    ASSUME TypeInv, ChannelInv, NEW r \in Requests,
           \/ FactoryReset(r) \/ createSimulationRequest(r) \/ initializeSimulationState(r)
           \/ initializeVirtualCluster(r) \/ EndOfRun(r) \/ runSimulation(r)
           \/ syncVirtualClusterWithWinningResult(r) \/ syncRecommenderStateWithWinningResult(r)
           \/ CreateNodes(r) \/ UntaintNodes(r)
    PROVE  ChannelInv'
<1>1. CASE FactoryReset(r)
  BY <1>1, QuietStep DEF FactoryReset, GoTo, Respond, InFlight, Cancelled, TypeInv, TypeOK, state
<1>2. CASE createSimulationRequest(r)
  BY <1>2, QuietStep DEF createSimulationRequest, GoTo, Respond, InFlight, Cancelled, TypeInv,
     TypeOK, state
<1>3. CASE initializeSimulationState(r)
  <2>1. Active(r)
    BY <1>3 DEF initializeSimulationState, Active, InFlight, ChannelInv, Begun, TypeInv, TypeOK
  <2> QED BY <1>3, <2>1, QuietStep DEF initializeSimulationState, GoTo, InFlight, Cancelled,
          TypeInv, TypeOK
<1>4. CASE initializeVirtualCluster(r)
  BY <1>4, QuietStep DEF initializeVirtualCluster, GoTo, Respond, InFlight, Cancelled, TypeInv,
     TypeOK, state
<1>5. CASE EndOfRun(r)
  BY <1>5, QuietStep DEF EndOfRun, GoTo, InFlight, Cancelled, TypeInv, TypeOK, state
<1>6. CASE runSimulation(r)
  BY <1>6, QuietStep DEF runSimulation, GoTo, InFlight, Cancelled, TypeInv, TypeOK, state
<1>7. CASE syncVirtualClusterWithWinningResult(r)
  BY <1>7, QuietStep DEF syncVirtualClusterWithWinningResult, GoTo, Respond, InFlight,
     Cancelled, TypeInv, TypeOK, state
<1>8. CASE syncRecommenderStateWithWinningResult(r)
  <2>1. UNCHANGED eligibleNodePools \/ Active(r)
    BY <1>8 DEF syncRecommenderStateWithWinningResult, Succeeds, Active, InFlight, TypeInv, TypeOK
  <2> QED BY <1>8, <2>1, QuietStep DEF syncRecommenderStateWithWinningResult, GoTo, Respond,
          InFlight, Cancelled, TypeInv, TypeOK
<1>9. CASE CreateNodes(r)
  BY <1>9, QuietStep DEF CreateNodes, GoTo, Respond, InFlight, Cancelled, TypeInv, TypeOK, state
<1>10. CASE UntaintNodes(r)
  BY <1>10, QuietStep DEF UntaintNodes, GoTo, Respond, InFlight, Cancelled, TypeInv, TypeOK, state
<1> QED BY <1>1, <1>2, <1>3, <1>4, <1>5, <1>6, <1>7, <1>8, <1>9, <1>10

\* A new channel fits the pools as they are.
LEMMA NewChannel ==
    ASSUME TypeInv, ChannelInv, NEW r \in Requests, computeTotalZonesAcrossNodePools(r)
    PROVE  ChannelInv'
<1>1. /\ pc[r] = "loop" /\ pc' = [pc EXCEPT ![r] = "trigger"]
      /\ capacity' = [capacity EXCEPT ![r] = Results]
      /\ UNCHANGED <<answer, eligibleNodePools>>
  BY DEF computeTotalZonesAcrossNodePools, GoTo, Results, state
<1>2. Begun'
  BY <1>1 DEF ChannelInv, Begun, Cancelled, TypeInv, TypeOK
<1>3. OneActive'
  BY <1>1 DEF ChannelInv, OneActive, Active, InFlight, Cancelled, TypeInv, TypeOK
<1>4. ChannelFits'
  <2>1. Results' = Results
    BY <1>1 DEF Results, ZonesOf
  <2>2. \A q \in Requests : pc'[q] = "trigger" /\ ~Cancelled(q)' =>
           capacity'[q] = Results
    BY <1>1 DEF ChannelInv, ChannelFits, Cancelled, TypeInv, TypeOK
  <2> QED BY <2>1, <2>2 DEF ChannelFits
<1>5. HangsOnlyAbandoned'
  BY <1>1 DEF ChannelInv, HangsOnlyAbandoned, Cancelled, TypeInv, TypeOK
<1> QED BY <1>2, <1>3, <1>4, <1>5 DEF ChannelInv

\* A channel that fits does not block.
LEMMA SendBlocksAbandoned ==
    ASSUME TypeInv, ChannelInv, NEW r \in Requests, SendBlocks(r)
    PROVE  ChannelInv'
<1>1. /\ pc[r] = "trigger" /\ pc' = [pc EXCEPT ![r] = "blocked"]
      /\ UNCHANGED <<answer, eligibleNodePools, capacity>>
  BY DEF SendBlocks, GoTo, state
<1>2. Cancelled(r)
  <2> SUFFICES ASSUME ~Cancelled(r) PROVE FALSE
    OBVIOUS
  <2>1. capacity[r] = Results
    BY <1>1 DEF ChannelInv, ChannelFits
  <2>2. Results \in Nat
    BY RequestsAssumption, FS_Subset, FS_CardinalityType DEF Results, ZonesOf
  <2>3. \A k \in ResultsWithError(r) : k \in Int /\ k <= Results
    <3>1. ResultsWithError(r) = Cardinality(DOMAIN eligibleNodePools) .. Results
      BY DEF ResultsWithError
    <3> QED BY <3>1
  <2>4. Results > capacity[r] \/ \E k \in ResultsWithError(r) : k > capacity[r]
    BY DEF SendBlocks
  <2> HIDE DEF Results
  <2> QED BY <2>1, <2>2, <2>3, <2>4
<1>3. Begun'
  BY <1>1 DEF ChannelInv, Begun, Cancelled, TypeInv, TypeOK
<1>4. OneActive'
  BY <1>1 DEF ChannelInv, OneActive, Active, InFlight, Cancelled, TypeInv, TypeOK
<1>5. ChannelFits'
  <2>1. Results' = Results
    BY <1>1 DEF Results, ZonesOf
  <2> QED BY <1>1, <2>1 DEF ChannelInv, ChannelFits, Cancelled, TypeInv, TypeOK
<1>6. HangsOnlyAbandoned'
  BY <1>1, <1>2 DEF ChannelInv, HangsOnlyAbandoned, Cancelled, TypeInv, TypeOK
<1> QED BY <1>3, <1>4, <1>5, <1>6 DEF ChannelInv

\* What is no call of a handler leaves pools and channels alone.
LEMMA NoCallChannel ==
    ASSUME OneAtATime, TypeInv, ChannelInv,
           \/ \E r \in Requests : Post(r) \/ GiveUp(r)
           \/ Restart
           \/ \E p \in Pods, n \in ready : Bind(p, n)
           \/ UNCHANGED vars
    PROVE  ChannelInv'
<1>1. ASSUME NEW r \in Requests, Post(r) PROVE ChannelInv'
  <2>1. /\ pc[r] = "idle" /\ pc' = [pc EXCEPT ![r] = "reset"]
        /\ UNCHANGED <<answer, capacity, eligibleNodePools>>
        /\ r \notin Malformed => \A q \in Requests : ~Active(q)
    BY <1>1 DEF Post, GoTo, state, Active
  <2>2. Begun'
    BY <2>1 DEF ChannelInv, Begun, Cancelled, TypeInv, TypeOK
  <2>3. OneActive'
    BY <2>1 DEF ChannelInv, OneActive, Active, InFlight, Cancelled, TypeInv, TypeOK
  <2>4. Results' = Results
    BY <2>1 DEF Results, ZonesOf
  <2>5. ChannelFits' /\ HangsOnlyAbandoned'
    BY <2>1, <2>4 DEF ChannelInv, ChannelFits, HangsOnlyAbandoned, Cancelled, TypeInv, TypeOK
  <2> QED BY <2>2, <2>3, <2>5 DEF ChannelInv
<1>2. ASSUME NEW r \in Requests, GiveUp(r) PROVE ChannelInv'
  <2>1. /\ answer' = [answer EXCEPT ![r] = "lost"] /\ UNCHANGED <<pc, capacity, eligibleNodePools>>
        /\ pc[r] \notin {"idle", "reset", "parse", "initialize", "cluster"}
    BY <1>2 DEF GiveUp, state
  <2>2. Begun'
    BY <2>1 DEF ChannelInv, Begun, Cancelled, TypeInv, TypeOK
  <2>3. OneActive'
    BY <2>1 DEF ChannelInv, OneActive, Active, InFlight, Cancelled, TypeInv, TypeOK
  <2>4. Results' = Results
    BY <2>1 DEF Results, ZonesOf
  <2>5. ChannelFits' /\ HangsOnlyAbandoned'
    BY <2>1, <2>4 DEF ChannelInv, ChannelFits, HangsOnlyAbandoned, Cancelled, TypeInv, TypeOK
  <2> QED BY <2>2, <2>3, <2>5 DEF ChannelInv
<1>3. CASE Restart
  <2>1. /\ \A r \in Requests : pc'[r] \in {"idle", "done"}
        /\ \A r \in Requests : pc'[r] = "idle" => pc[r] = "idle" /\ answer'[r] = answer[r]
    BY <1>3 DEF Restart, InFlight
  <2> QED BY <2>1 DEF ChannelInv, Begun, OneActive, ChannelFits, HangsOnlyAbandoned, Active,
          InFlight, Cancelled
<1>4. ASSUME UNCHANGED <<pc, answer, capacity, eligibleNodePools>> PROVE ChannelInv'
  BY <1>4 DEF ChannelInv, Begun, OneActive, ChannelFits, HangsOnlyAbandoned, Active, InFlight,
     Cancelled, Results, ZonesOf
<1> QED BY <1>1, <1>2, <1>3, <1>4 DEF Bind, vars, local, state

\* ChannelInv holds in every reachable state.
LEMMA ChannelInvariance ==
    ASSUME OneAtATime
    PROVE  Spec => []ChannelInv
<1>1. Init => ChannelInv
  BY DEF Init, ChannelInv, Begun, OneActive, ChannelFits, HangsOnlyAbandoned, Active, InFlight,
     Cancelled
<1>2. TypeInv /\ ChannelInv /\ [Next]_vars => ChannelInv'
  BY OtherCallsChannel, NewChannel, SendBlocksAbandoned, NoCallChannel DEF Next, Handle, Waiting
<1> QED BY <1>1, <1>2, TypeInvariance, PTL DEF Spec

\* The handler of a client that waits never hangs in a send, for clients that wait for
\* each other's answers, whatever fails and whatever the handlers of those that gave up
\* and malformed requests do.
THEOREM HangsAbandoned ==
    ASSUME OneAtATime
    PROVE  Spec => []HangsOnlyAbandoned
BY ChannelInvariance, PTL DEF ChannelInv

-----------------------------------------------------------------------------
(* Provisioning, of which every step is a step or a stutter *)

\* Responses are the answers of Provisioning, or nothing when the client has gone.
LEMMA AnswerStep ==
    ASSUME TypeInv, RoomInv, NEW r \in Requests, InFlight(r),
           NEW status \in {"ok", "badRequest", "error", "lost"},
           status = "ok" => recommendations[r] \subseteq ready,
           answer' = [answer EXCEPT ![r] = IF Cancelled(r) THEN "lost" ELSE status],
           UNCHANGED <<recommendations, targetNodes, ready>>
    PROVE  [Abstract!Next]_(Abstract!vars)
<1>1. CASE Cancelled(r)
  <2>1. answer' = answer
    BY <1>1 DEF Cancelled, TypeInv, TypeOK
  <2> QED BY <2>1 DEF Abstract!vars
<1>2. CASE ~Cancelled(r)
  <2>1. answer[r] = "none"
    BY <1>2 DEF Cancelled, RoomInv, Unanswered
  <2>2. Abstract!Answer(r, status)
    BY <1>2, <2>1 DEF Abstract!Answer
  <2> QED BY <2>2 DEF Abstract!Next
<1> QED BY <1>1, <1>2

\* Up to the synchronisation of a winner a request changes nothing but its answer.
LEMMA HandleStep ==
    ASSUME TypeInv, RoomInv, NEW r \in Requests,
           \/ FactoryReset(r) \/ createSimulationRequest(r) \/ initializeSimulationState(r)
           \/ initializeVirtualCluster(r) \/ computeTotalZonesAcrossNodePools(r)
           \/ EndOfRun(r) \/ runSimulation(r) \/ SendBlocks(r)
           \/ syncVirtualClusterWithWinningResult(r)
    PROVE  [Abstract!Next]_(Abstract!vars)
<1>1. /\ InFlight(r) /\ UNCHANGED <<recommendations, targetNodes, ready>>
      /\ \/ UNCHANGED answer
         \/ \E status \in {"badRequest", "error"} :
               answer' = [answer EXCEPT ![r] = IF Cancelled(r) THEN "lost" ELSE status]
  BY DEF FactoryReset, createSimulationRequest, initializeSimulationState,
     initializeVirtualCluster, computeTotalZonesAcrossNodePools, EndOfRun, runSimulation,
     SendBlocks, syncVirtualClusterWithWinningResult, InFlight, Respond, target
<1>2. CASE UNCHANGED answer
  BY <1>1, <1>2 DEF Abstract!vars
<1>3. ASSUME NEW status \in {"badRequest", "error"},
             answer' = [answer EXCEPT ![r] = IF Cancelled(r) THEN "lost" ELSE status]
      PROVE  [Abstract!Next]_(Abstract!vars)
  BY <1>1, <1>3, AnswerStep
<1> QED BY <1>1, <1>2, <1>3

\* Provisioning counts as Requests does.
LEMMA SameCardinality == \A ns : Abstract!Cardinality(ns) = Cardinality(ns)
BY Zenon DEF Abstract!Cardinality, Cardinality

\* The winner of a simulation run is a node that the request plans.
LEMMA PlanStep ==
    ASSUME TypeInv, RoomInv, NEW r \in Requests, syncRecommenderStateWithWinningResult(r)
    PROVE  [Abstract!Next]_(Abstract!vars)
<1>1. /\ pc[r] = "syncState" /\ InFlight(r) /\ UNCHANGED <<targetNodes, ready>>
      /\ \/ /\ ~Cancelled(r) /\ UNCHANGED answer
            /\ recommendations' = [recommendations EXCEPT ![r] = @ \cup {winner[r].node}]
         \/ /\ answer' = [answer EXCEPT ![r] = IF Cancelled(r) THEN "lost" ELSE "error"]
            /\ UNCHANGED recommendations
  BY DEF syncRecommenderStateWithWinningResult, InFlight, Respond, target, Succeeds
<1>2. CASE /\ ~Cancelled(r) /\ UNCHANGED answer
           /\ recommendations' = [recommendations EXCEPT ![r] = @ \cup {winner[r].node}]
  <2>1. PICK np \in DOMAIN eligibleNodePools : winner[r].node = newNode(r, np)
    BY <1>1, <1>2 DEF RoomInv, WinnerEligible
  <2>2. np \in NodePools /\ Maximum[np] \in Nat
    BY RequestsAssumption DEF TypeInv, TypeOK
  <2>3. answer[r] = "none"
    BY <1>1, <1>2 DEF RoomInv, Unanswered, Cancelled
  <2>4. recommendations[r] \cap targetNodes = {}
    BY <1>1 DEF RoomInv, Own
  <2>5. Cardinality(InPool(targetNodes \cup recommendations[r], np)) < Maximum[np]
    <3>1. IsFiniteSet(targetNodes \cup recommendations[r])
      BY FS_Union DEF TypeInv, FinitelyMany
    <3>2. Cardinality(InPool(targetNodes \cup recommendations[r], np)) \in Nat
      BY <3>1, PoolsFinite
    <3>3. /\ eligibleNodePools[np] \in Nat /\ eligibleNodePools[np] < Maximum[np]
          /\ Cardinality(InPool(targetNodes \cup recommendations[r], np)) <= eligibleNodePools[np]
      BY <1>1, <1>2 DEF RoomInv, Room
    <3> QED BY <2>2, <3>2, <3>3
  <2>6. Cardinality(Abstract!InPool(targetNodes \cup recommendations[r], np)) < Maximum[np]
    BY <2>5 DEF Abstract!InPool, InPool
  <2>7. recommendations' = [recommendations EXCEPT ![r] = @ \cup
            {[pool |-> np, by |-> r, number |-> Cardinality(recommendations[r]) + 1]}]
    BY <1>2, <2>1 DEF newNode
  <2>8. Abstract!Plan(r, np)
    BY <1>1, <1>2, <2>3, <2>4, <2>6, <2>7, SameCardinality DEF Abstract!Plan
  <2> QED BY <2>2, <2>8 DEF Abstract!Next
<1>3. CASE /\ answer' = [answer EXCEPT ![r] = IF Cancelled(r) THEN "lost" ELSE "error"]
           /\ UNCHANGED recommendations
  BY <1>1, <1>3, AnswerStep
<1> QED BY <1>1, <1>2, <1>3

\* A node is created that was planned.
LEMMA CreateStep ==
    ASSUME TypeInv, RoomInv, NEW r \in Requests, CreateNodes(r)
    PROVE  [Abstract!Next]_(Abstract!vars)
<1>1. /\ InFlight(r) /\ UNCHANGED <<recommendations, ready>>
      /\ \/ /\ pending[r] # {} /\ ~Cancelled(r) /\ UNCHANGED answer
            /\ targetNodes' = targetNodes \cup {FirstPending(r)}
         \/ UNCHANGED <<targetNodes, answer>>
         \/ /\ answer' = [answer EXCEPT ![r] = IF Cancelled(r) THEN "lost" ELSE "error"]
            /\ UNCHANGED targetNodes
  BY DEF CreateNodes, InFlight, Respond, Succeeds
<1>2. CASE /\ pending[r] # {} /\ ~Cancelled(r) /\ UNCHANGED answer
           /\ targetNodes' = targetNodes \cup {FirstPending(r)}
  <2>1. FirstPending(r) \in recommendations[r]
    BY <1>2, FirstPendingType DEF TypeInv, TypeOK
  <2>2. answer[r] = "none"
    BY <1>1, <1>2 DEF RoomInv, Unanswered, Cancelled
  <2>3. Abstract!Create(r)
    BY <1>1, <1>2, <2>1, <2>2 DEF Abstract!Create
  <2> QED BY <2>3 DEF Abstract!Next
<1>3. CASE UNCHANGED <<targetNodes, answer>>
  BY <1>1, <1>3 DEF Abstract!vars
<1>4. CASE /\ answer' = [answer EXCEPT ![r] = IF Cancelled(r) THEN "lost" ELSE "error"]
           /\ UNCHANGED targetNodes
  BY <1>1, <1>4, AnswerStep
<1> QED BY <1>1, <1>2, <1>3, <1>4

\* Pods are let on a node only when every node of its request was created, and the
\* answer is ok only when they are let on all of them.
LEMMA UntaintStep ==
    ASSUME TypeInv, RoomInv, NEW r \in Requests, UntaintNodes(r)
    PROVE  [Abstract!Next]_(Abstract!vars)
<1>1. /\ pc[r] = "untaint" /\ InFlight(r) /\ UNCHANGED <<recommendations, targetNodes>>
      /\ \/ /\ pending[r] # {} /\ ~Cancelled(r) /\ UNCHANGED answer
            /\ ready' = ready \cup {FirstPending(r)}
         \/ UNCHANGED <<ready, answer>>
         \/ /\ pending[r] = {} /\ UNCHANGED ready
            /\ answer' = [answer EXCEPT ![r] = IF Cancelled(r) THEN "lost"
                                               ELSE IF r \in failed THEN "error" ELSE "ok"]
  BY DEF UntaintNodes, InFlight, Respond, Succeeds
<1>2. CASE /\ pending[r] # {} /\ ~Cancelled(r) /\ UNCHANGED answer
           /\ ready' = ready \cup {FirstPending(r)}
  <2>1. FirstPending(r) \in recommendations[r]
    BY <1>2, FirstPendingType DEF TypeInv, TypeOK
  <2>2. answer[r] = "none" /\ recommendations[r] \subseteq targetNodes
    BY <1>1, <1>2 DEF RoomInv, Unanswered, Cancelled, TypeInv, NoneForgotten
  <2>3. Abstract!Untaint(r)
    BY <1>1, <1>2, <2>1, <2>2 DEF Abstract!Untaint
  <2> QED BY <2>3 DEF Abstract!Next
<1>3. CASE UNCHANGED <<ready, answer>>
  BY <1>1, <1>3 DEF Abstract!vars
<1>4. CASE /\ pending[r] = {} /\ UNCHANGED ready
           /\ answer' = [answer EXCEPT ![r] = IF Cancelled(r) THEN "lost"
                                              ELSE IF r \in failed THEN "error" ELSE "ok"]
  <2> DEFINE status == IF r \in failed THEN "error" ELSE "ok"
  <2>1. status = "ok" => recommendations[r] \subseteq ready
    BY <1>1, <1>4 DEF TypeInv, NoneForgotten
  <2>2. status \in {"ok", "badRequest", "error", "lost"}
    OBVIOUS
  <2>3. answer' = [answer EXCEPT ![r] = IF Cancelled(r) THEN "lost" ELSE status]
    BY <1>4
  <2> HIDE DEF status
  <2> QED BY <1>1, <1>4, <2>1, <2>2, <2>3, AnswerStep
<1> QED BY <1>1, <1>2, <1>3, <1>4

\* A client that gives up gets no answer.
LEMMA GiveUpStep ==
    ASSUME TypeInv, RoomInv, NEW r \in Requests, GiveUp(r)
    PROVE  [Abstract!Next]_(Abstract!vars)
<1>1. InFlight(r) /\ ~Cancelled(r) /\ UNCHANGED <<recommendations, targetNodes, ready>>
  BY DEF GiveUp, InFlight, target
<1>2. answer' = [answer EXCEPT ![r] = IF Cancelled(r) THEN "lost" ELSE "lost"]
  BY DEF GiveUp
<1> QED BY <1>1, <1>2, AnswerStep

\* Every client that waits when the process ends loses its answer.
LEMMA RestartStep ==
    ASSUME TypeInv, RoomInv, Restart
    PROVE  [Abstract!Next]_(Abstract!vars)
<1> DEFINE rs == {r \in Requests : InFlight(r) /\ answer[r] = "none"}
<1>1. UNCHANGED <<recommendations, targetNodes, ready>>
  BY DEF Restart, target
<1>2. answer' = [r \in Requests |-> IF InFlight(r) THEN "lost" ELSE answer[r]]
  BY DEF Restart
<1>3. \A r \in Requests : InFlight(r) /\ r \notin rs => answer[r] = "lost"
  BY DEF RoomInv, Unanswered
<1>4. answer' = [r \in Requests |-> IF r \in rs THEN "lost" ELSE answer[r]]
  BY <1>2, <1>3
<1>5. rs \in SUBSET {r \in Requests : answer[r] = "none"}
  OBVIOUS
<1> HIDE DEF rs
<1>6. Abstract!Stop
  BY <1>1, <1>4, <1>5 DEF Abstract!Stop
<1> QED BY <1>6 DEF Abstract!Next

\* A request that arrives and a pod that is bound are no concern of Provisioning.
LEMMA OtherStep ==
    ASSUME \/ \E r \in Requests : Post(r)
           \/ \E p \in Pods, n \in ready : Bind(p, n)
           \/ UNCHANGED vars
    PROVE  [Abstract!Next]_(Abstract!vars)
BY DEF Post, Bind, vars, local, target, Abstract!vars

\* Whatever fails, is abandoned or ends with the process, the target cluster changes as
\* Provisioning says, for clients that wait for each other and send fresh snapshots.
THEOREM Implements ==
    ASSUME OneAtATime, FreshSnapshots
    PROVE  Spec => ImplementsProvisioning
<1>1. Init => Abstract!Init
  BY DEF Init, Abstract!Init
<1>2. TypeInv /\ RoomInv /\ [Next]_vars => [Abstract!Next]_(Abstract!vars)
  BY HandleStep, PlanStep, CreateStep, UntaintStep, GiveUpStep, RestartStep, OtherStep
  DEF Next, Handle, Waiting
<1> QED BY <1>1, <1>2, TypeInvariance, RoomInvariance, PTL
       DEF Spec, ImplementsProvisioning, Abstract!Spec

-----------------------------------------------------------------------------
(* What such requests count on, and speak of *)

\* The nodes of a request are among those it recommends.
Known == \A n \in targetNodes : n \in recommendations[n.by]

\* A node that can take no pods is of a request that ended without it or still works.
Accounted ==
    \A n \in targetNodes :
        n \in ready \/ answer[n.by] \in {"error", "lost"} \/ pc[n.by] \in {"apply", "untaint"}

\* Request r may count on node n.
Usable(r, n) ==
    /\ n \in Node
    /\ n \in ready \cup recommendations[r] \/ answer[n.by] \in {"error", "lost"}

\* From the pods that are read to the virtual cluster and the state of the recommender,
\* everything is at nodes that the request may count on, or at its winner.
SitedAt(r) ==
    ~Cancelled(r) /\ r \notin Malformed =>
        /\ pc[r] = "initialize" => \A i \in podInfos[r] : i.at \in ready \cup {None}
        /\ pc[r] \in {"parse", "initialize", "cluster"} => pods = {}
        /\ pc[r] \in {"cluster", "loop", "trigger", "syncCluster", "syncState", "apply"} =>
              \A v \in scheduledPods : Usable(r, v.at)
        /\ pc[r] \in {"cluster", "loop", "trigger", "syncCluster", "syncState"} =>
              \A n \in existingNodes : Usable(r, n)
        /\ pc[r] \in {"loop", "trigger", "syncCluster"} => \A v \in pods : Usable(r, v.at)
        /\ pc[r] = "syncCluster" =>
              \A v \in winner[r].placed : Usable(r, v.at) \/ v.at = winner[r].node
        /\ pc[r] = "syncState" =>
              \A v \in pods : Usable(r, v.at) \/ v.at = winner[r].node

Sited == \A r \in Requests : SitedAt(r)

\* Of the unscheduled pods that request r read, none is missing without a recommendation.
Speaks(r, ps) ==
    ps \subseteq UnscheduledIn(r) /\ (recommendations[r] = {} => ps = UnscheduledIn(r))

\* The unscheduled pods of the recommender, then those of the answer, are the request's.
OwnPods ==
    \A r \in Requests :
        /\ pc[r] \in {"cluster", "loop", "trigger", "syncCluster", "syncState"} /\ ~Cancelled(r) =>
              Speaks(r, unscheduledPods)
        /\ answer[r] = "ok" \/ (pc[r] \in {"apply", "untaint"} /\ ~Cancelled(r)) =>
              Speaks(r, left[r])

\* The inductive invariant of ReliesOnUsableNodes and AnswersOwnRequest.
UseInv == Known /\ Accounted /\ Sited /\ OwnPods

\* Post preserves UseInv.
LEMMA PostUse ==
    ASSUME OneAtATime, FreshSnapshots, TypeInv, RoomInv, UseInv,
           NEW r \in Requests, Post(r)
    PROVE  UseInv'
<1>f. /\ ready \subseteq ready'
      /\ \A q \in Requests :
            /\ recommendations[q] \subseteq recommendations'[q]
            /\ answer[q] \in {"error", "lost"} => answer'[q] \in {"error", "lost"}
  BY DEF RoomInv, Unanswered, InFlight, Cancelled, TypeInv, TypeOK, GoTo, Post, apply, local,
      state, cluster, target, vars
<1>u. \A q \in Requests : \A n : Usable(q, n) => Usable(q, n)'
  BY <1>f DEF Usable, Node
<1>1. Known'
  BY DEF UseInv, Known, Node, RoomInv, TypeInv, TypeOK, GoTo, Cancelled, Post, apply, local,
      state, cluster, target, vars
<1>2. Accounted'
  BY DEF UseInv, Accounted, Node, RoomInv, TypeInv, TypeOK, GoTo, Cancelled, Post, apply, local,
      state, cluster, target, vars
<1>3. Sited'
  BY <1>u DEF UseInv, Sited, SitedAt, Active, InFlight, RoomInv, TypeInv, TypeOK, GoTo,
      Cancelled, Post, apply, local, state, cluster, target, vars
<1>4. OwnPods'
  BY DEF UseInv, OwnPods, Speaks, UnscheduledIn, Active, InFlight, RoomInv, TypeInv, TypeOK,
      GoTo, Cancelled, Post, apply, local, state, cluster, target, vars
<1> QED BY <1>1, <1>2, <1>3, <1>4 DEF UseInv

\* FactoryReset preserves UseInv.
LEMMA FactoryResetUse ==
    ASSUME OneAtATime, FreshSnapshots, TypeInv, RoomInv, UseInv,
           NEW r \in Requests, FactoryReset(r)
    PROVE  UseInv'
<1>f. /\ ready \subseteq ready'
      /\ \A q \in Requests :
            /\ recommendations[q] \subseteq recommendations'[q]
            /\ answer[q] \in {"error", "lost"} => answer'[q] \in {"error", "lost"}
  BY DEF RoomInv, Unanswered, InFlight, Cancelled, TypeInv, TypeOK, GoTo, FactoryReset, Respond,
      apply, local, state, cluster, target, vars
<1>u. \A q \in Requests : \A n : Usable(q, n) => Usable(q, n)'
  BY <1>f DEF Usable, Node
<1>o. r \notin Malformed => Active(r) /\ \A q \in Requests : q # r => ~Active(q)
  BY DEF FactoryReset, Active, InFlight, Cancelled, RoomInv, Unanswered, OneActive
<1>1. Known'
  BY DEF UseInv, Known, Node, RoomInv, TypeInv, TypeOK, GoTo, Cancelled, FactoryReset, Respond,
      apply, local, state, cluster, target, vars
<1>2. Accounted'
  BY DEF UseInv, Accounted, Node, RoomInv, TypeInv, TypeOK, GoTo, Cancelled, FactoryReset,
      Respond, apply, local, state, cluster, target, vars
<1>3. Sited'
  BY <1>o, <1>u DEF UseInv, Sited, SitedAt, Active, InFlight, RoomInv, TypeInv, TypeOK, GoTo,
      Cancelled, FactoryReset, Respond, apply, local, state, cluster, target, vars
<1>4. OwnPods'
  BY <1>o DEF UseInv, OwnPods, Speaks, UnscheduledIn, Active, InFlight, RoomInv, TypeInv,
      TypeOK, GoTo, Cancelled, FactoryReset, Respond, apply, local, state, cluster, target, vars
<1> QED BY <1>1, <1>2, <1>3, <1>4 DEF UseInv

\* createSimulationRequest preserves UseInv.
LEMMA createSimulationRequestUse ==
    ASSUME OneAtATime, FreshSnapshots, TypeInv, RoomInv, UseInv,
           NEW r \in Requests, createSimulationRequest(r)
    PROVE  UseInv'
<1>f. /\ ready \subseteq ready'
      /\ \A q \in Requests :
            /\ recommendations[q] \subseteq recommendations'[q]
            /\ answer[q] \in {"error", "lost"} => answer'[q] \in {"error", "lost"}
  BY DEF RoomInv, Unanswered, InFlight, Cancelled, TypeInv, TypeOK, GoTo,
      createSimulationRequest, Respond, apply, local, state, cluster, target, vars
<1>u. \A q \in Requests : \A n : Usable(q, n) => Usable(q, n)'
  BY <1>f DEF Usable, Node
<1>o. r \notin Malformed => Active(r) /\ \A q \in Requests : q # r => ~Active(q)
  BY DEF createSimulationRequest, Active, InFlight, Cancelled, RoomInv, Unanswered, OneActive
<1>p. /\ UNCHANGED <<left, recommendations, unscheduledPods>> /\ answer'[r] # "ok"
      /\ pc'[r] \in {"initialize", "done"}
      /\ \A q \in Requests : q # r =>
            pc'[q] = pc[q] /\ answer'[q] = answer[q] /\ podInfos'[q] = podInfos[q]
  BY <1>o DEF createSimulationRequest, GoTo, Respond, Active, InFlight, Cancelled, RoomInv,
     Unanswered, TypeInv, TypeOK, state
<1>1. Known'
  BY DEF UseInv, Known, Node, RoomInv, TypeInv, TypeOK, GoTo, Cancelled,
      createSimulationRequest, Respond, apply, local, state, cluster, target, vars
<1>2. Accounted'
  BY DEF UseInv, Accounted, Node, Own, RoomInv, TypeInv, TypeOK, GoTo, Cancelled,
      createSimulationRequest, Respond, apply, local, state, cluster, target, vars
<1>3. Sited'
  BY <1>o, <1>u DEF UseInv, Sited, SitedAt, Active, InFlight, RoomInv, TypeInv, TypeOK, GoTo,
      Cancelled, createSimulationRequest, Respond, apply, local, state, cluster, target, vars
<1>4. OwnPods'
  BY <1>p DEF OwnPods, UseInv, Speaks, UnscheduledIn, Cancelled
<1> QED BY <1>1, <1>2, <1>3, <1>4 DEF UseInv

\* initializeSimulationState preserves UseInv.
LEMMA initializeSimulationStateUse ==
    ASSUME OneAtATime, FreshSnapshots, TypeInv, RoomInv, UseInv,
           NEW r \in Requests, initializeSimulationState(r)
    PROVE  UseInv'
<1>f. /\ ready \subseteq ready'
      /\ \A q \in Requests :
            /\ recommendations[q] \subseteq recommendations'[q]
            /\ answer[q] \in {"error", "lost"} => answer'[q] \in {"error", "lost"}
  BY DEF RoomInv, Unanswered, InFlight, Cancelled, TypeInv, TypeOK, GoTo,
      initializeSimulationState, apply, local, state, cluster, target, vars
<1>u. \A q \in Requests : \A n : Usable(q, n) => Usable(q, n)'
  BY <1>f DEF Usable, Node
<1>o. Active(r) /\ \A q \in Requests : q # r => ~Active(q)
  BY DEF initializeSimulationState, Active, InFlight, Cancelled, RoomInv, Unanswered, OneActive,
     TypeInv, TypeOK
<1>n. \A n \in targetNodes : Usable(r, n)
  <2> SUFFICES ASSUME NEW n \in targetNodes, n \notin ready, answer[n.by] \notin {"error", "lost"}
               PROVE  FALSE
    BY DEF Usable, TypeInv, TypeOK
  <2>1. n.by \in Requests /\ pc[n.by] \in {"apply", "untaint"}
    BY DEF UseInv, Accounted, TypeInv, TypeOK, Node
  <2>2. Active(n.by) /\ n.by # r
    BY <2>1 DEF Active, InFlight, Cancelled, initializeSimulationState, TypeInv, TypeOK
  <2> QED BY <1>o, <2>1, <2>2
<1>e. /\ \A n \in existingNodes' : Usable(r, n)
      /\ \A v \in scheduledPods' : Usable(r, v.at)
      /\ pc' = [pc EXCEPT ![r] = "cluster"] /\ UNCHANGED <<answer, pods, podInfos, winner, ready>>
  <2>1. \A i \in podInfos[r] : i.at \in ready \cup {None}
    BY <1>o DEF UseInv, Sited, SitedAt, Active, initializeSimulationState
  <2>2. snapshot[r] = targetNodes /\ ready \subseteq targetNodes
    BY DEF initializeSimulationState, RoomInv, Fresh, TypeInv, TypeOK
  <2> QED BY <1>n, <2>1, <2>2 DEF initializeSimulationState, GoTo, cluster, target
<1>1. Known'
  BY DEF UseInv, Known, Node, RoomInv, TypeInv, TypeOK, GoTo, Cancelled,
      initializeSimulationState, apply, local, state, cluster, target, vars
<1>2. Accounted'
  BY DEF UseInv, Accounted, Node, RoomInv, TypeInv, TypeOK, GoTo, Cancelled,
      initializeSimulationState, apply, local, state, cluster, target, vars
<1>3. Sited'
  BY <1>o, <1>u, <1>e DEF Sited, SitedAt, UseInv, Active, InFlight, Cancelled, TypeInv, TypeOK,
     initializeSimulationState
<1>4. OwnPods'
  BY <1>o DEF UseInv, OwnPods, Speaks, UnscheduledIn, Active, InFlight, RoomInv, TypeInv,
      TypeOK, GoTo, Cancelled, initializeSimulationState, apply, local, state, cluster, target,
      vars
<1> QED BY <1>1, <1>2, <1>3, <1>4 DEF UseInv

\* initializeVirtualCluster preserves UseInv.
LEMMA initializeVirtualClusterUse ==
    ASSUME OneAtATime, FreshSnapshots, TypeInv, RoomInv, UseInv,
           NEW r \in Requests, initializeVirtualCluster(r)
    PROVE  UseInv'
<1>f. /\ ready \subseteq ready'
      /\ \A q \in Requests :
            /\ recommendations[q] \subseteq recommendations'[q]
            /\ answer[q] \in {"error", "lost"} => answer'[q] \in {"error", "lost"}
  BY DEF RoomInv, Unanswered, InFlight, Cancelled, TypeInv, TypeOK, GoTo,
      initializeVirtualCluster, Respond, Succeeds, AtMost, apply, local, state, cluster, target,
      vars
<1>u. \A q \in Requests : \A n : Usable(q, n) => Usable(q, n)'
  BY <1>f DEF Usable, Node
<1>o. Active(r) /\ \A q \in Requests : q # r => ~Active(q)
  BY DEF initializeVirtualCluster, Active, InFlight, Cancelled, RoomInv, Unanswered, OneActive,
     TypeInv, TypeOK
<1>1. Known'
  BY DEF UseInv, Known, Node, RoomInv, TypeInv, TypeOK, GoTo, Cancelled,
      initializeVirtualCluster, Respond, Succeeds, AtMost, apply, local, state, cluster, target,
      vars
<1>2. Accounted'
  BY DEF UseInv, Accounted, Node, RoomInv, TypeInv, TypeOK, GoTo, Cancelled,
      initializeVirtualCluster, Respond, Succeeds, AtMost, apply, local, state, cluster, target,
      vars
<1>3. Sited'
  BY <1>o, <1>u DEF UseInv, Sited, SitedAt, Active, InFlight, RoomInv, TypeInv, TypeOK, GoTo,
      Cancelled, initializeVirtualCluster, Respond, Succeeds, AtMost, apply, local, state,
      cluster, target, vars
<1>4. OwnPods'
  BY <1>o DEF UseInv, OwnPods, Speaks, UnscheduledIn, Active, InFlight, RoomInv, TypeInv,
      TypeOK, GoTo, Cancelled, initializeVirtualCluster, Respond, Succeeds, AtMost, apply,
      local, state, cluster, target, vars
<1> QED BY <1>1, <1>2, <1>3, <1>4 DEF UseInv

\* SendBlocks preserves UseInv.
LEMMA SendBlocksUse ==
    ASSUME OneAtATime, FreshSnapshots, TypeInv, RoomInv, UseInv,
           NEW r \in Requests, SendBlocks(r)
    PROVE  UseInv'
<1>f. /\ ready \subseteq ready'
      /\ \A q \in Requests :
            /\ recommendations[q] \subseteq recommendations'[q]
            /\ answer[q] \in {"error", "lost"} => answer'[q] \in {"error", "lost"}
  BY DEF RoomInv, Unanswered, InFlight, Cancelled, TypeInv, TypeOK, GoTo, SendBlocks, apply,
      local, state, cluster, target, vars
<1>u. \A q \in Requests : \A n : Usable(q, n) => Usable(q, n)'
  BY <1>f DEF Usable, Node
<1>1. Known'
  BY DEF UseInv, Known, Node, RoomInv, TypeInv, TypeOK, GoTo, Cancelled, SendBlocks, apply, local,
      state, cluster, target, vars
<1>2. Accounted'
  BY DEF UseInv, Accounted, Node, RoomInv, TypeInv, TypeOK, GoTo, Cancelled, SendBlocks, apply,
      local, state, cluster, target, vars
<1>3. Sited'
  BY <1>u DEF UseInv, Sited, SitedAt, Active, InFlight, RoomInv, TypeInv, TypeOK, GoTo,
      Cancelled, SendBlocks, apply, local, state, cluster, target, vars
<1>4. OwnPods'
  BY DEF UseInv, OwnPods, Speaks, UnscheduledIn, Active, InFlight, RoomInv, TypeInv, TypeOK,
      GoTo, Cancelled, SendBlocks, apply, local, state, cluster, target, vars
<1> QED BY <1>1, <1>2, <1>3, <1>4 DEF UseInv

\* computeTotalZonesAcrossNodePools preserves UseInv.
LEMMA computeTotalZonesAcrossNodePoolsUse ==
    ASSUME OneAtATime, FreshSnapshots, TypeInv, RoomInv, UseInv,
           NEW r \in Requests, computeTotalZonesAcrossNodePools(r)
    PROVE  UseInv'
<1>f. /\ ready \subseteq ready'
      /\ \A q \in Requests :
            /\ recommendations[q] \subseteq recommendations'[q]
            /\ answer[q] \in {"error", "lost"} => answer'[q] \in {"error", "lost"}
  BY DEF RoomInv, Unanswered, InFlight, Cancelled, TypeInv, TypeOK, GoTo, computeTotalZonesAcrossNodePools, apply,
      local, state, cluster, target, vars
<1>u. \A q \in Requests : \A n : Usable(q, n) => Usable(q, n)'
  BY <1>f DEF Usable, Node
<1>1. Known'
  BY DEF UseInv, Known, Node, RoomInv, TypeInv, TypeOK, GoTo, Cancelled, computeTotalZonesAcrossNodePools, apply, local,
      state, cluster, target, vars
<1>2. Accounted'
  BY DEF UseInv, Accounted, Node, RoomInv, TypeInv, TypeOK, GoTo, Cancelled, computeTotalZonesAcrossNodePools, apply,
      local, state, cluster, target, vars
<1>3. Sited'
  BY <1>u DEF UseInv, Sited, SitedAt, Active, InFlight, RoomInv, TypeInv, TypeOK, GoTo,
      Cancelled, computeTotalZonesAcrossNodePools, apply, local, state, cluster, target, vars
<1>4. OwnPods'
  BY DEF UseInv, OwnPods, Speaks, UnscheduledIn, Active, InFlight, RoomInv, TypeInv, TypeOK,
      GoTo, Cancelled, computeTotalZonesAcrossNodePools, apply, local, state, cluster, target, vars
<1> QED BY <1>1, <1>2, <1>3, <1>4 DEF UseInv

\* EndOfRun preserves UseInv.
LEMMA EndOfRunUse ==
    ASSUME OneAtATime, FreshSnapshots, TypeInv, RoomInv, UseInv,
           NEW r \in Requests, EndOfRun(r)
    PROVE  UseInv'
<1>f. /\ ready \subseteq ready'
      /\ \A q \in Requests :
            /\ recommendations[q] \subseteq recommendations'[q]
            /\ answer[q] \in {"error", "lost"} => answer'[q] \in {"error", "lost"}
  BY DEF RoomInv, Unanswered, InFlight, Cancelled, TypeInv, TypeOK, GoTo, EndOfRun, apply,
      local, state, cluster, target, vars
<1>u. \A q \in Requests : \A n : Usable(q, n) => Usable(q, n)'
  BY <1>f DEF Usable, Node
<1>1. Known'
  BY DEF UseInv, Known, Node, RoomInv, TypeInv, TypeOK, GoTo, Cancelled, EndOfRun, apply, local,
      state, cluster, target, vars
<1>2. Accounted'
  BY DEF UseInv, Accounted, Node, RoomInv, TypeInv, TypeOK, GoTo, Cancelled, EndOfRun, apply,
      local, state, cluster, target, vars
<1>3. Sited'
  BY <1>u DEF UseInv, Sited, SitedAt, Active, InFlight, RoomInv, TypeInv, TypeOK, GoTo,
      Cancelled, EndOfRun, apply, local, state, cluster, target, vars
<1>4. OwnPods'
  BY DEF UseInv, OwnPods, Speaks, UnscheduledIn, Active, InFlight, RoomInv, TypeInv, TypeOK,
      GoTo, Cancelled, EndOfRun, apply, local, state, cluster, target, vars
<1> QED BY <1>1, <1>2, <1>3, <1>4 DEF UseInv

\* runSimulation preserves UseInv.
LEMMA runSimulationUse ==
    ASSUME OneAtATime, FreshSnapshots, TypeInv, RoomInv, UseInv,
           NEW r \in Requests, runSimulation(r)
    PROVE  UseInv'
<1>f. /\ ready \subseteq ready'
      /\ \A q \in Requests :
            /\ recommendations[q] \subseteq recommendations'[q]
            /\ answer[q] \in {"error", "lost"} => answer'[q] \in {"error", "lost"}
  BY DEF RoomInv, Unanswered, InFlight, Cancelled, TypeInv, TypeOK, GoTo, runSimulation,
      Succeeds, apply, local, state, cluster, target, vars
<1>u. \A q \in Requests : \A n : Usable(q, n) => Usable(q, n)'
  BY <1>f DEF Usable, Node
<1>e. /\ \A v \in winner'[r].placed : v.at \in existingNodes \/ v.at = winner'[r].node
      /\ \A q \in Requests : q # r => winner'[q] = winner[q]
  <2>1. PICK w \in Winner(r) : winner' = [winner EXCEPT ![r] = w]
    BY DEF runSimulation
  <2>2. \A v \in w.placed : v.at \in existingNodes \/ v.at = w.node
    BY DEF Winner
  <2> QED BY <2>1, <2>2 DEF TypeInv, TypeOK
<1>p. /\ pc[r] = "trigger" /\ pc' = [pc EXCEPT ![r] = "syncCluster"]
      /\ UNCHANGED <<answer, podInfos, pods, scheduledPods, existingNodes>>
  BY DEF runSimulation, GoTo, cluster, state
<1>1. Known'
  BY DEF UseInv, Known, Node, RoomInv, TypeInv, TypeOK, GoTo, Cancelled, runSimulation,
      Succeeds, apply, local, state, cluster, target, vars
<1>2. Accounted'
  BY DEF UseInv, Accounted, Node, RoomInv, TypeInv, TypeOK, GoTo, Cancelled, runSimulation,
      Succeeds, apply, local, state, cluster, target, vars
<1>3. Sited'
  <2> SUFFICES ASSUME NEW q \in Requests PROVE SitedAt(q)'
    BY DEF Sited
  <2> SitedAt(q)
    BY DEF UseInv, Sited
  <2>1. CASE q = r
    <3>1. SitedAt(r)
      BY DEF UseInv, Sited
    <3> QED BY <1>u, <1>e, <1>p, <2>1, <3>1 DEF SitedAt, Cancelled, TypeInv, TypeOK
  <2>2. CASE q # r
    BY <1>f, <1>u, <1>e, <1>p, <2>2 DEF SitedAt, Cancelled, TypeInv, TypeOK
  <2> QED BY <2>1, <2>2
<1>4. OwnPods'
  BY DEF UseInv, OwnPods, Speaks, UnscheduledIn, Active, InFlight, RoomInv, TypeInv, TypeOK,
      GoTo, Cancelled, runSimulation, Succeeds, apply, local, state, cluster, target, vars
<1> QED BY <1>1, <1>2, <1>3, <1>4 DEF UseInv

\* syncVirtualClusterWithWinningResult preserves UseInv.
LEMMA syncVirtualClusterWithWinningResultUse ==
    ASSUME OneAtATime, FreshSnapshots, TypeInv, RoomInv, UseInv,
           NEW r \in Requests, syncVirtualClusterWithWinningResult(r)
    PROVE  UseInv'
<1>f. /\ ready \subseteq ready'
      /\ \A q \in Requests :
            /\ recommendations[q] \subseteq recommendations'[q]
            /\ answer[q] \in {"error", "lost"} => answer'[q] \in {"error", "lost"}
  BY DEF RoomInv, Unanswered, InFlight, Cancelled, TypeInv, TypeOK, GoTo,
      syncVirtualClusterWithWinningResult, Respond, Succeeds, AtMost, apply, local, state,
      cluster, target, vars
<1>u. \A q \in Requests : \A n : Usable(q, n) => Usable(q, n)'
  BY <1>f DEF Usable, Node
<1>e. /\ pc[r] = "syncCluster" /\ UNCHANGED <<podInfos, winner, scheduledPods, existingNodes>>
      /\ \A q \in Requests : q # r => pc'[q] = pc[q] /\ answer'[q] = answer[q]
      /\ \/ /\ pods' = pods \cup winner[r].placed /\ pc'[r] = "syncState"
            /\ answer'[r] = answer[r] /\ ~Cancelled(r)
         \/ pc'[r] = "done" /\ (Cancelled(r) => UNCHANGED pods)
  BY DEF syncVirtualClusterWithWinningResult, GoTo, Respond, Succeeds, AtMost, state, TypeInv,
     TypeOK
<1>o. ~Cancelled(r) => \A q \in Requests : q # r => ~Active(q)
  BY <1>e DEF Active, InFlight, RoomInv, OneActive, TypeInv, TypeOK
<1>1. Known'
  BY DEF UseInv, Known, Node, RoomInv, TypeInv, TypeOK, GoTo, Cancelled,
      syncVirtualClusterWithWinningResult, Respond, Succeeds, AtMost, apply, local, state,
      cluster, target, vars
<1>2. Accounted'
  BY DEF UseInv, Accounted, Node, RoomInv, TypeInv, TypeOK, GoTo, Cancelled,
      syncVirtualClusterWithWinningResult, Respond, Succeeds, AtMost, apply, local, state,
      cluster, target, vars
<1>3. Sited'
  <2> SUFFICES ASSUME NEW q \in Requests PROVE SitedAt(q)'
    BY DEF Sited
  <2> SitedAt(q)
    BY DEF UseInv, Sited
  <2>1. CASE Cancelled(r)
    <3>1. CASE q = r
      BY <1>e, <2>1, <3>1 DEF SitedAt, Cancelled
    <3>2. CASE q # r
      BY <1>f, <1>u, <1>e, <2>1, <3>2 DEF SitedAt, Cancelled
    <3> QED BY <3>1, <3>2
  <2>2. CASE ~Cancelled(r)
    BY <1>u, <1>e, <1>o, <2>2 DEF Sited, SitedAt, UseInv, Cancelled, Active, InFlight
  <2> QED BY <2>1, <2>2
<1>4. OwnPods'
  BY DEF UseInv, OwnPods, Speaks, UnscheduledIn, Active, InFlight, RoomInv, TypeInv, TypeOK,
      GoTo, Cancelled, syncVirtualClusterWithWinningResult, Respond, Succeeds, AtMost, apply,
      local, state, cluster, target, vars
<1> QED BY <1>1, <1>2, <1>3, <1>4 DEF UseInv

\* syncRecommenderStateWithWinningResult preserves UseInv.
LEMMA syncRecommenderStateWithWinningResultUse ==
    ASSUME OneAtATime, FreshSnapshots, TypeInv, RoomInv, UseInv,
           NEW r \in Requests, syncRecommenderStateWithWinningResult(r)
    PROVE  UseInv'
<1>f. /\ ready \subseteq ready'
      /\ \A q \in Requests :
            /\ recommendations[q] \subseteq recommendations'[q]
            /\ answer[q] \in {"error", "lost"} => answer'[q] \in {"error", "lost"}
  BY DEF RoomInv, Unanswered, InFlight, Cancelled, TypeInv, TypeOK, GoTo,
      syncRecommenderStateWithWinningResult, Respond, Succeeds, AtMost, apply, local, state,
      cluster, target, vars
<1>u. \A q \in Requests : \A n : Usable(q, n) => Usable(q, n)'
  BY <1>f DEF Usable, Node
<1>e. /\ pc[r] = "syncState" /\ UNCHANGED <<podInfos, left, pods>>
      /\ \A q \in Requests : q # r =>
            /\ pc'[q] = pc[q] /\ answer'[q] = answer[q] /\ winner'[q] = winner[q]
            /\ recommendations'[q] = recommendations[q]
      /\ \/ /\ ~Cancelled(r) /\ answer'[r] = answer[r] /\ pc'[r] = "loop"
            /\ recommendations'[r] = recommendations[r] \cup {winner[r].node}
            /\ existingNodes' = existingNodes \cup {winner[r].node}
            /\ scheduledPods' \subseteq scheduledPods \cup pods
            /\ unscheduledPods' \subseteq unscheduledPods
         \/ /\ pc'[r] = "done" /\ answer'[r] # "ok"
            /\ UNCHANGED <<scheduledPods, unscheduledPods, recommendations>>
            /\ Cancelled(r) => UNCHANGED existingNodes
  BY DEF syncRecommenderStateWithWinningResult, GoTo, Respond, Succeeds, AtMost, cluster,
     TypeInv, TypeOK, Cancelled
<1>o. ~Cancelled(r) => \A q \in Requests : q # r => ~Active(q)
  BY <1>e DEF Active, InFlight, RoomInv, OneActive, TypeInv, TypeOK
<1>w. winner[r].node \in Node
  BY <1>e DEF TypeInv, WinnerKnown, Result
<1>1. Known'
  <2>1. targetNodes' = targetNodes
    BY DEF syncRecommenderStateWithWinningResult, target
  <2>2. \A n \in targetNodes : n.by \in Requests
    BY DEF TypeInv, TypeOK, Node
  <2> QED BY <1>f, <2>1, <2>2 DEF UseInv, Known
<1>2. Accounted'
  BY DEF UseInv, Accounted, Node, RoomInv, TypeInv, TypeOK, GoTo, Cancelled,
      syncRecommenderStateWithWinningResult, Respond, Succeeds, AtMost, apply, local, state,
      cluster, target, vars
<1>3. Sited'
  <2> SUFFICES ASSUME NEW q \in Requests PROVE SitedAt(q)'
    BY DEF Sited
  <2> SitedAt(q)
    BY DEF UseInv, Sited
  <2>1. CASE Cancelled(r)
    <3>1. CASE q = r
      BY <1>e, <2>1, <3>1 DEF SitedAt, Cancelled
    <3>2. CASE q # r
      BY <1>f, <1>u, <1>e, <2>1, <3>2 DEF SitedAt, Cancelled
    <3> QED BY <3>1, <3>2
  <2>2. CASE ~Cancelled(r)
    <3>1. ASSUME NEW n, n = winner[r].node, pc'[r] = "loop" PROVE Usable(r, n)'
      BY <1>e, <1>w, <3>1 DEF Usable
    <3>2. /\ \A v \in scheduledPods : Usable(r, v.at) /\ \A n \in existingNodes : Usable(r, n)
          /\ \A v \in pods : Usable(r, v.at) \/ v.at = winner[r].node
      BY <1>e, <2>2 DEF Sited, SitedAt, UseInv, TypeInv, TypeOK
    <3>3. CASE q = r
      BY <1>u, <1>e, <2>2, <3>1, <3>2, <3>3 DEF SitedAt
    <3>4. CASE q # r
      BY <1>e, <1>o, <2>2, <3>4 DEF SitedAt, Cancelled, Active, InFlight
    <3> QED BY <3>3, <3>4
  <2> QED BY <2>1, <2>2
<1>4. OwnPods'
  <2>1. \A q \in Requests : UnscheduledIn(q)' = UnscheduledIn(q)
    BY <1>e DEF UnscheduledIn
  <2>2. CASE Cancelled(r)
    BY <1>e, <2>1, <2>2 DEF OwnPods, UseInv, Speaks, Cancelled
  <2>3. CASE ~Cancelled(r)
    <3>1. \A q \in Requests :
             q # r /\ pc[q] \notin {"idle", "reset", "parse", "done"} => Cancelled(q)
      BY <1>o, <2>3 DEF Active, InFlight, TypeInv, TypeOK
    <3> QED BY <1>e, <2>1, <2>3, <3>1 DEF OwnPods, UseInv, Speaks, Cancelled, RoomInv, Unanswered
  <2> QED BY <2>2, <2>3
<1> QED BY <1>1, <1>2, <1>3, <1>4 DEF UseInv

\* CreateNodes preserves UseInv.
LEMMA CreateNodesUse ==
    ASSUME OneAtATime, FreshSnapshots, TypeInv, RoomInv, UseInv,
           NEW r \in Requests, CreateNodes(r)
    PROVE  UseInv'
<1>f. /\ ready \subseteq ready'
      /\ \A q \in Requests :
            /\ recommendations[q] \subseteq recommendations'[q]
            /\ answer[q] \in {"error", "lost"} => answer'[q] \in {"error", "lost"}
  BY DEF RoomInv, Unanswered, InFlight, Cancelled, TypeInv, TypeOK, GoTo, CreateNodes, Respond,
      Succeeds, apply, local, state, cluster, target, vars
<1>u. \A q \in Requests : \A n : Usable(q, n) => Usable(q, n)'
  BY <1>f DEF Usable, Node
<1>e. pending[r] # {} => FirstPending(r) \in recommendations[r] /\ FirstPending(r).by = r
  BY FirstPendingType DEF TypeInv, TypeOK, RoomInv, Own
<1>p. /\ UNCHANGED <<recommendations, ready>>
      /\ \A q \in Requests : q # r => pc'[q] = pc[q] /\ answer'[q] = answer[q]
      /\ \/ pc'[r] \in {"apply", "untaint"}
         \/ pc'[r] = "done" /\ answer'[r] \in {"error", "lost"}
      /\ \/ UNCHANGED targetNodes
         \/ pending[r] # {} /\ targetNodes' = targetNodes \cup {FirstPending(r)}
  BY DEF CreateNodes, GoTo, Respond, TypeInv, TypeOK
<1>1. Known'
  BY <1>e, <1>p DEF Known, UseInv
<1>2. Accounted'
  <2> SUFFICES ASSUME NEW n \in targetNodes', n \notin ready
               PROVE  answer'[n.by] \in {"error", "lost"} \/ pc'[n.by] \in {"apply", "untaint"}
    BY <1>p DEF Accounted
  <2>1. CASE n.by = r
    BY <1>p, <2>1
  <2>2. CASE n.by # r
    <3>1. n \in targetNodes
      BY <1>e, <1>p, <2>2
    <3>2. n.by \in Requests
      BY <3>1 DEF TypeInv, TypeOK, Node
    <3> QED BY <1>p, <2>2, <3>1, <3>2 DEF Accounted, UseInv
  <2> QED BY <2>1, <2>2
<1>3. Sited'
  BY <1>u DEF UseInv, Sited, SitedAt, Active, InFlight, RoomInv, TypeInv, TypeOK, GoTo,
      Cancelled, CreateNodes, Respond, Succeeds, apply, local, state, cluster, target, vars
<1>4. OwnPods'
  BY DEF UseInv, OwnPods, Speaks, UnscheduledIn, Active, InFlight, RoomInv, TypeInv, TypeOK,
      GoTo, Cancelled, CreateNodes, Respond, Succeeds, apply, local, state, cluster, target,
      vars
<1> QED BY <1>1, <1>2, <1>3, <1>4 DEF UseInv

\* UntaintNodes preserves UseInv.
LEMMA UntaintNodesUse ==
    ASSUME OneAtATime, FreshSnapshots, TypeInv, RoomInv, UseInv,
           NEW r \in Requests, UntaintNodes(r)
    PROVE  UseInv'
<1>f. /\ ready \subseteq ready'
      /\ \A q \in Requests :
            /\ recommendations[q] \subseteq recommendations'[q]
            /\ answer[q] \in {"error", "lost"} => answer'[q] \in {"error", "lost"}
  BY DEF RoomInv, Unanswered, InFlight, Cancelled, TypeInv, TypeOK, GoTo, UntaintNodes, Respond,
      Succeeds, apply, local, state, cluster, target, vars
<1>u. \A q \in Requests : \A n : Usable(q, n) => Usable(q, n)'
  BY <1>f DEF Usable, Node
<1>p. /\ UNCHANGED <<recommendations, targetNodes>> /\ pc[r] = "untaint" /\ ready \subseteq ready'
      /\ \A q \in Requests : q # r => pc'[q] = pc[q] /\ answer'[q] = answer[q]
      /\ \/ pc'[r] = "untaint"
         \/ /\ pending[r] = {} /\ pc'[r] = "done"
            /\ answer'[r] \in {"error", "lost"} \/ r \notin failed
  BY DEF UntaintNodes, GoTo, Respond, TypeInv, TypeOK
<1>1. Known'
  BY DEF UseInv, Known, Node, RoomInv, TypeInv, TypeOK, GoTo, Cancelled, UntaintNodes, Respond,
      Succeeds, apply, local, state, cluster, target, vars
<1>2. Accounted'
  <2> SUFFICES ASSUME NEW n \in targetNodes, n \notin ready'
               PROVE  answer'[n.by] \in {"error", "lost"} \/ pc'[n.by] \in {"apply", "untaint"}
    BY <1>p DEF Accounted
  <2>1. CASE n.by = r
    <3>1. n \in recommendations[r] /\ n \notin ready
      BY <1>p, <2>1 DEF UseInv, Known
    <3>2. pending[r] = {} => r \in failed
      BY <1>p, <3>1 DEF TypeInv, NoneForgotten
    <3> QED BY <1>p, <2>1, <3>2
  <2>2. CASE n.by # r
    <3>1. n.by \in Requests /\ n \notin ready
      BY <1>p DEF TypeInv, TypeOK, Node
    <3> QED BY <1>p, <2>2, <3>1 DEF Accounted, UseInv
  <2> QED BY <2>1, <2>2
<1>3. Sited'
  BY <1>u DEF UseInv, Sited, SitedAt, Active, InFlight, RoomInv, TypeInv, TypeOK, GoTo,
      Cancelled, UntaintNodes, Respond, Succeeds, apply, local, state, cluster, target, vars
<1>4. OwnPods'
  BY DEF UseInv, OwnPods, Speaks, UnscheduledIn, Active, InFlight, RoomInv, TypeInv, TypeOK,
      GoTo, Cancelled, UntaintNodes, Respond, Succeeds, apply, local, state, cluster, target,
      vars
<1> QED BY <1>1, <1>2, <1>3, <1>4 DEF UseInv

\* GiveUp preserves UseInv.
LEMMA GiveUpUse ==
    ASSUME OneAtATime, FreshSnapshots, TypeInv, RoomInv, UseInv,
           NEW r \in Requests, GiveUp(r)
    PROVE  UseInv'
<1>f. /\ ready \subseteq ready'
      /\ \A q \in Requests :
            /\ recommendations[q] \subseteq recommendations'[q]
            /\ answer[q] \in {"error", "lost"} => answer'[q] \in {"error", "lost"}
  BY DEF RoomInv, Unanswered, InFlight, Cancelled, TypeInv, TypeOK, GoTo, GiveUp, apply, local,
      state, cluster, target, vars
<1>u. \A q \in Requests : \A n : Usable(q, n) => Usable(q, n)'
  BY <1>f DEF Usable, Node
<1>1. Known'
  BY DEF UseInv, Known, Node, RoomInv, TypeInv, TypeOK, GoTo, Cancelled, GiveUp, apply, local,
      state, cluster, target, vars
<1>2. Accounted'
  BY DEF UseInv, Accounted, Node, RoomInv, TypeInv, TypeOK, GoTo, Cancelled, GiveUp, apply,
      local, state, cluster, target, vars
<1>3. Sited'
  BY <1>u DEF UseInv, Sited, SitedAt, Active, InFlight, RoomInv, TypeInv, TypeOK, GoTo,
      Cancelled, GiveUp, apply, local, state, cluster, target, vars
<1>4. OwnPods'
  BY DEF UseInv, OwnPods, Speaks, UnscheduledIn, Active, InFlight, RoomInv, TypeInv, TypeOK,
      GoTo, Cancelled, GiveUp, apply, local, state, cluster, target, vars
<1> QED BY <1>1, <1>2, <1>3, <1>4 DEF UseInv

\* Restart preserves UseInv.
LEMMA RestartUse ==
    ASSUME TypeInv, RoomInv, UseInv,
           Restart
    PROVE  UseInv'
<1>f. /\ ready \subseteq ready'
      /\ \A q \in Requests :
            /\ recommendations[q] \subseteq recommendations'[q]
            /\ answer[q] \in {"error", "lost"} => answer'[q] \in {"error", "lost"}
  BY DEF RoomInv, Unanswered, InFlight, Cancelled, TypeInv, TypeOK, GoTo, Restart, apply, local,
      state, cluster, target, vars
<1>u. \A q \in Requests : \A n : Usable(q, n) => Usable(q, n)'
  BY <1>f DEF Usable, Node
<1>1. Known'
  BY DEF UseInv, Known, Node, RoomInv, TypeInv, TypeOK, GoTo, Cancelled, Restart, InFlight,
      apply, local, state, cluster, target, vars
<1>2. Accounted'
  BY DEF UseInv, Accounted, Node, RoomInv, TypeInv, TypeOK, GoTo, Cancelled, Restart, InFlight,
      apply, local, state, cluster, target, vars
<1>3. Sited'
  BY <1>u DEF UseInv, Sited, SitedAt, Active, InFlight, RoomInv, TypeInv, TypeOK, GoTo,
      Cancelled, Restart, apply, local, state, cluster, target, vars
<1>4. OwnPods'
  BY DEF UseInv, OwnPods, Speaks, UnscheduledIn, Active, InFlight, RoomInv, TypeInv, TypeOK,
      GoTo, Cancelled, Restart, apply, local, state, cluster, target, vars
<1> QED BY <1>1, <1>2, <1>3, <1>4 DEF UseInv

\* Bind preserves UseInv.
LEMMA BindUse ==
    ASSUME TypeInv, RoomInv, UseInv, NEW p \in Pods, NEW n \in ready,
           Bind(p, n)
    PROVE  UseInv'
<1>f. /\ ready \subseteq ready'
      /\ \A q \in Requests :
            /\ recommendations[q] \subseteq recommendations'[q]
            /\ answer[q] \in {"error", "lost"} => answer'[q] \in {"error", "lost"}
  BY DEF RoomInv, Unanswered, InFlight, Cancelled, TypeInv, TypeOK, GoTo, Bind, apply, local,
      state, cluster, target, vars
<1>u. \A q \in Requests : \A m : Usable(q, m) => Usable(q, m)'
  BY <1>f DEF Usable, Node
<1>1. Known'
  BY DEF UseInv, Known, Node, RoomInv, TypeInv, TypeOK, GoTo, Cancelled, Bind, apply, local,
      state, cluster, target, vars
<1>2. Accounted'
  BY DEF UseInv, Accounted, Node, RoomInv, TypeInv, TypeOK, GoTo, Cancelled, Bind, apply, local,
      state, cluster, target, vars
<1>3. Sited'
  BY <1>u DEF UseInv, Sited, SitedAt, Active, InFlight, RoomInv, TypeInv, TypeOK, GoTo,
      Cancelled, Bind, apply, local, state, cluster, target, vars
<1>4. OwnPods'
  BY DEF UseInv, OwnPods, Speaks, UnscheduledIn, Active, InFlight, RoomInv, TypeInv, TypeOK,
      GoTo, Cancelled, Bind, apply, local, state, cluster, target, vars
<1> QED BY <1>1, <1>2, <1>3, <1>4 DEF UseInv

\* A stuttering step preserves UseInv.
LEMMA StutterUse ==
    ASSUME TypeInv, RoomInv, UseInv,
           UNCHANGED vars
    PROVE  UseInv'
<1>f. /\ ready \subseteq ready'
      /\ \A q \in Requests :
            /\ recommendations[q] \subseteq recommendations'[q]
            /\ answer[q] \in {"error", "lost"} => answer'[q] \in {"error", "lost"}
  BY DEF RoomInv, Unanswered, InFlight, Cancelled, TypeInv, TypeOK, GoTo, apply, local, state,
      cluster, target, vars
<1>u. \A q \in Requests : \A n : Usable(q, n) => Usable(q, n)'
  BY <1>f DEF Usable, Node
<1>1. Known'
  BY DEF UseInv, Known, Node, RoomInv, TypeInv, TypeOK, GoTo, Cancelled, apply, local, state,
      cluster, target, vars
<1>2. Accounted'
  BY DEF UseInv, Accounted, Node, RoomInv, TypeInv, TypeOK, GoTo, Cancelled, apply, local,
      state, cluster, target, vars
<1>3. Sited'
  BY <1>u DEF UseInv, Sited, SitedAt, Active, InFlight, RoomInv, TypeInv, TypeOK, GoTo,
      Cancelled, apply, local, state, cluster, target, vars
<1>4. OwnPods'
  BY DEF UseInv, OwnPods, Speaks, UnscheduledIn, Active, InFlight, RoomInv, TypeInv, TypeOK,
      GoTo, Cancelled, apply, local, state, cluster, target, vars
<1> QED BY <1>1, <1>2, <1>3, <1>4 DEF UseInv

\* UseInv holds at first.
LEMMA UseInit == Init => UseInv
BY DEF Init, UseInv, Known, Accounted, Sited, SitedAt, OwnPods

\* Every step preserves UseInv.
LEMMA UseNext ==
    ASSUME OneAtATime, FreshSnapshots, TypeInv, RoomInv, UseInv, [Next]_vars
    PROVE  UseInv'
  BY PostUse, FactoryResetUse, createSimulationRequestUse, initializeSimulationStateUse,
     initializeVirtualClusterUse, computeTotalZonesAcrossNodePoolsUse, EndOfRunUse,
     runSimulationUse, SendBlocksUse,
     syncVirtualClusterWithWinningResultUse, syncRecommenderStateWithWinningResultUse,
     CreateNodesUse, UntaintNodesUse, GiveUpUse, RestartUse, BindUse, StutterUse
  DEF Next, Handle, Waiting

\* UseInv holds in every reachable state.
LEMMA UseInvariance ==
    ASSUME OneAtATime, FreshSnapshots
    PROVE  Spec => []UseInv
<1>1. TypeInv /\ RoomInv /\ UseInv /\ [Next]_vars => UseInv'
  BY UseNext
<1> QED BY <1>1, TypeInvariance, RoomInvariance, UseInit, PTL DEF Spec

\* Recommendations count on nodes that can take pods, on their own, or on those of a
\* request whose client knows that it failed.
THEOREM ReliesOnUsable ==
    ASSUME OneAtATime, FreshSnapshots
    PROVE  Spec => []ReliesOnUsableNodes
<1>1. TypeInv /\ UseInv => ReliesOnUsableNodes
  BY DEF UseInv, Sited, SitedAt, Usable, ReliesOnUsableNodes, TypeInv, TypeOK
<1> QED BY <1>1, TypeInvariance, UseInvariance, PTL

\* An ok answer speaks of the pods of its own request.
THEOREM OwnAnswer ==
    ASSUME OneAtATime, FreshSnapshots
    PROVE  Spec => []AnswersOwnRequest
<1>1. UseInv => AnswersOwnRequest
  BY DEF UseInv, OwnPods, Speaks, AnswersOwnRequest
<1> QED BY <1>1, UseInvariance, PTL
=============================================================================
