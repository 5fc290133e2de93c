-------------------------- MODULE GardenAccessProofs --------------------------
(***************************************************************************)
(* Theorems about GardenAccess, for any shoots, nodes and pods, and for    *)
(* any validity of kubeconfigs and any clock.                              *)
(***************************************************************************)
EXTENDS GardenAccess, FoldProofs

\* What is known of the call under way, and that the cache maps a shoot to its own
\* accesses: the strengthening that both properties need.
CallOK ==
    /\ now \in Nat
    /\ DOMAIN shootAccesses \subseteq Shoots
    /\ \A s \in DOMAIN shootAccesses :
         shootAccesses[s] \in ShootAccess /\ shootAccesses[s].shoot = s
    /\ pc # "idle" => shootCoord \in Shoots
    /\ pc # "idle" => call \in {"GetShootAccess", "SyncReferenceNodes"}
    /\ pc = "newShootAccess" => kubeconfig \in Nat /\ kubeconfig <= now + Validity
    /\ pc \in {"listNodes", "listPods"} => access \in ShootAccess /\ access.shoot = shootCoord
    /\ pc = "listPods" => nodes = {n \in Nodes : ShootOf[n] = shootCoord}

\* A kubeconfig is not valid for longer than the type takes the access made of it to
\* be: its issue came first.
IssuedBefore ==
    \A s \in DOMAIN shootAccesses :
        shootAccesses[s].expiresAt <= shootAccesses[s].createdAt + Validity

IInv == CallOK /\ IssuedBefore /\ RenewedOnlyIfExpired /\ ReferencesOfOneShoot

-----------------------------------------------------------------------------
\* Initially the type holds nothing.
LEMMA InitIInv == Init => IInv
BY GardenAssumption
   DEF Init, IInv, CallOK, IssuedBefore, RenewedOnlyIfExpired, ReferencesOfOneShoot

\* An access found in the cache is the shoot's own.
LEMMA FoundAccess ==
    ASSUME CallOK, NEW s \in Shoots, NEW sa \in findShootAccess(s)
    PROVE  sa \in ShootAccess /\ sa.shoot = s
<1>1. PICK c \in DOMAIN shootAccesses :
        c.name = s.name /\ c.project = s.project /\ sa = shootAccesses[c]
  BY DEF findShootAccess
<1>2. c = s
  BY <1>1, GardenAssumption DEF CallOK
<1> QED BY <1>1, <1>2 DEF CallOK

\* If none is found, the kubeconfig of the one in the cache has expired.
LEMMA NotFound ==
    ASSUME CallOK, IssuedBefore, NEW s \in Shoots, findShootAccess(s) = {},
           s \in DOMAIN shootAccesses
    PROVE  shootAccesses[s].expiresAt < now
<1>1. HasExpired(shootAccesses[s])
  BY DEF findShootAccess
<1>2. /\ shootAccesses[s].createdAt \in Nat /\ shootAccesses[s].expiresAt \in Nat
      /\ now \in Nat /\ Validity \in Nat
  BY GardenAssumption DEF CallOK, ShootAccess
<1>3. shootAccesses[s].expiresAt <= shootAccesses[s].createdAt + Validity
  BY DEF IssuedBefore
<1> QED BY <1>1, <1>2, <1>3 DEF HasExpired

\* Returning an access: the call ends, or goes on as a sync with that access.
LEMMA Returned ==
    ASSUME NEW c \in {"GetShootAccess", "SyncReferenceNodes"}, NEW s \in Shoots, NEW sa,
           ReturnAccess(c, s, sa)
    PROVE  /\ pc' \in {"idle", "listNodes"}
           /\ pc' # "idle" => /\ shootCoord' = s /\ access' = sa
                              /\ call' = "SyncReferenceNodes"
BY DEF ReturnAccess, Return

\* What is left of a call that ends with an error.
LEMMA Failed == ASSUME IInv, ReturnError, UNCHANGED clusters PROVE IInv'
BY DEF ReturnError, Return, IInv, CallOK, IssuedBefore, RenewedOnlyIfExpired, ReferencesOfOneShoot,
   clusters

-----------------------------------------------------------------------------
\* Every step keeps IInv.
LEMMA NextIInv == ASSUME IInv, [Next]_vars PROVE IInv'
<1> USE GardenAssumption
<1>1. CASE Tick
  BY <1>1 DEF Tick, call_vars, IInv, CallOK, IssuedBefore, RenewedOnlyIfExpired,
     ReferencesOfOneShoot, ShootAccess
<1>2. CASE Reschedule
  BY <1>2 DEF Reschedule, call_vars, IInv, CallOK, IssuedBefore, RenewedOnlyIfExpired,
     ReferencesOfOneShoot
<1>3. ASSUME NEW s \in Shoots, NEW c \in {"GetShootAccess", "SyncReferenceNodes"}, Call(c, s)
      PROVE  IInv'
  <2>1. UNCHANGED <<clusters, shootAccesses, referenceNodes, synced>>
    BY <1>3 DEF Call
  <2>2. ReferencesOfOneShoot' /\ IssuedBefore'
    BY <2>1 DEF IInv, ReferencesOfOneShoot, IssuedBefore
  <2>3. ASSUME NEW sa \in findShootAccess(s), ReturnAccess(c, s, sa)
        PROVE  CallOK' /\ RenewedOnlyIfExpired'
    <3>1. sa \in ShootAccess /\ sa.shoot = s
      BY <2>3, FoundAccess DEF IInv
    <3>2. /\ pc' \in {"idle", "listNodes"}
          /\ pc' # "idle" => /\ shootCoord' = s /\ access' = sa
                             /\ call' = "SyncReferenceNodes"
      BY <2>3, Returned
    <3> QED BY <2>1, <3>1, <3>2 DEF IInv, CallOK, RenewedOnlyIfExpired, clusters
  <2>4. CASE /\ findShootAccess(s) = {}
             /\ pc' = "getShoot" /\ call' = c /\ shootCoord' = s
             /\ UNCHANGED <<access, kubeconfig, nodes>>
    <3>1. CallOK'
      BY <1>3, <2>1, <2>4 DEF IInv, CallOK, clusters
    <3>2. s \in DOMAIN shootAccesses => shootAccesses[s].expiresAt < now
      BY <2>4, NotFound DEF IInv
    <3>3. RenewedOnlyIfExpired'
      BY <2>1, <2>4, <3>2 DEF RenewedOnlyIfExpired, clusters
    <3> QED BY <2>2, <3>1, <3>3 DEF IInv
  <2> QED BY <1>3, <2>2, <2>3, <2>4 DEF Call, IInv
<1>4. CASE GetShoot
  BY <1>4, Failed DEF GetShoot, clusters, IInv, CallOK, IssuedBefore, RenewedOnlyIfExpired,
     ReferencesOfOneShoot
<1>5. CASE createShootAdminKubeConfig
  BY <1>5, Failed DEF createShootAdminKubeConfig, clusters, IInv, CallOK, IssuedBefore,
     RenewedOnlyIfExpired, ReferencesOfOneShoot
<1>6. CASE NewShootAccess
  <2>1. CASE ReturnError
    BY <1>6, <2>1, Failed DEF NewShootAccess
  <2>2. ASSUME NEW sa \in {[shoot |-> shootCoord, createdAt |-> now, expiresAt |-> kubeconfig]},
               shootAccesses' = [c \in DOMAIN shootAccesses \cup {shootCoord} |->
                                   IF c = shootCoord THEN sa ELSE shootAccesses[c]],
               ReturnAccess(call, shootCoord, sa),
               UNCHANGED <<referenceNodes, synced>>
        PROVE  IInv'
    <3>1. /\ shootCoord \in Shoots /\ kubeconfig \in Nat /\ now \in Nat
          /\ kubeconfig <= now + Validity
          /\ call \in {"GetShootAccess", "SyncReferenceNodes"}
      BY <1>6 DEF NewShootAccess, IInv, CallOK
    <3>2. /\ sa \in ShootAccess /\ sa.shoot = shootCoord
          /\ sa.expiresAt <= sa.createdAt + Validity
      BY <3>1, <2>2 DEF ShootAccess
    <3>3. /\ pc' \in {"idle", "listNodes"}
          /\ pc' # "idle" => /\ shootCoord' = shootCoord /\ access' = sa
                             /\ call' = "SyncReferenceNodes"
      BY <2>2, <3>1, Returned
    <3>4. CallOK'
      BY <1>6, <2>2, <3>1, <3>2, <3>3 DEF NewShootAccess, IInv, CallOK, clusters
    <3>5. IssuedBefore'
      BY <2>2, <3>2 DEF IInv, IssuedBefore
    <3>6. RenewedOnlyIfExpired'
      BY <3>3 DEF RenewedOnlyIfExpired
    <3>7. ReferencesOfOneShoot'
      BY <2>2 DEF IInv, ReferencesOfOneShoot
    <3> QED BY <3>4, <3>5, <3>6, <3>7 DEF IInv
  <2> QED BY <1>6, <2>1, <2>2 DEF NewShootAccess
<1>7. CASE ListNodes
  BY <1>7, Failed DEF ListNodes, clusters, IInv, CallOK, IssuedBefore, RenewedOnlyIfExpired,
     ReferencesOfOneShoot
<1>8. CASE SyncReferenceNodes
  <2>1. CASE ReturnError
    BY <1>8, <2>1, Failed DEF SyncReferenceNodes
  <2>2. ASSUME referenceNodes' = {reviseNodeAllocatable(n) : n \in nodes},
               synced' = [shoot |-> shootCoord, podAt |-> [p \in ListPods |-> podAt[p]]],
               Return, UNCHANGED shootAccesses
        PROVE  IInv'
    <3>1. nodes = {n \in Nodes : ShootOf[n] = shootCoord}
      BY <1>8 DEF SyncReferenceNodes, IInv, CallOK
    <3>2. {r.node : r \in referenceNodes'} = nodes
      <4>1. \A n : reviseNodeAllocatable(n).node = n
        BY DEF reviseNodeAllocatable
      <4>2. ASSUME NEW r \in referenceNodes' PROVE r.node \in nodes
        <5>1. PICK n \in nodes : r = reviseNodeAllocatable(n)
          BY <2>2
        <5> QED BY <4>1, <5>1, Zenon
      <4>3. ASSUME NEW n \in nodes PROVE \E r \in referenceNodes' : r.node = n
        <5>1. reviseNodeAllocatable(n) \in referenceNodes'
          BY <2>2
        <5> WITNESS reviseNodeAllocatable(n) \in referenceNodes'
        <5> QED BY <4>1
      <4>4. {r.node : r \in referenceNodes'} \subseteq nodes
        BY <4>2
      <4>5. nodes \subseteq {r.node : r \in referenceNodes'}
        BY <4>3
      <4> QED BY <4>4, <4>5
    <3>3. ReferencesOfOneShoot'
      BY <2>2, <3>1, <3>2 DEF ReferencesOfOneShoot
    <3> QED BY <1>8, <2>2, <3>3 DEF SyncReferenceNodes, Return, clusters, IInv, CallOK,
            IssuedBefore, RenewedOnlyIfExpired
  <2> QED BY <1>8, <2>1, <2>2 DEF SyncReferenceNodes
<1>9. CASE UNCHANGED vars
  BY <1>9 DEF vars, clusters, call_vars, IInv, CallOK, IssuedBefore, RenewedOnlyIfExpired,
     ReferencesOfOneShoot
<1> QED BY <1>1, <1>2, <1>3, <1>4, <1>5, <1>6, <1>7, <1>8, <1>9 DEF Next

\* IInv holds in every reachable state.
THEOREM Invariance == Spec => []IInv
BY InitIInv, NextIInv, PTL DEF Spec

\* The reference nodes are always the nodes of the one shoot last synced.
THEOREM OneShoot == Spec => []ReferencesOfOneShoot
<1>1. IInv => ReferencesOfOneShoot BY DEF IInv
<1> QED BY Invariance, <1>1, PTL

\* No kubeconfig is asked for while that of the cached access is still valid.
THEOREM RenewedWhenExpired == Spec => []RenewedOnlyIfExpired
<1>1. IInv => RenewedOnlyIfExpired BY DEF IInv
<1> QED BY Invariance, <1>1, PTL

-----------------------------------------------------------------------------
(* Types *)

\* The requests of any system pods are a number, and so is the largest of them.
LEMMA SumsOfRequests ==
    ASSUME NEW ps \in SUBSET Pods
    PROVE IsFiniteSet(ps) /\ sumResourceRequests(ps) \in Nat
<1>1. IsFiniteSet(ps)
  BY FS_Subset, GardenAssumption
<1>2. \A p \in ps : Requests[p] \in Nat
  BY GardenAssumption
<1> QED BY <1>1, <1>2, SumType DEF sumResourceRequests

\* The memory taken off is no less than what the pods listed on any one node ask for.
LEMMA LargestOfAllNodes ==
    ASSUME podAt \in [Pods -> Nodes \cup {None}]
    PROVE  LET m == getMaxSystemComponentRequestsAcrossNodes
               at(n) == sumResourceRequests({p \in ListPods : podAt[p] = n})
           IN /\ m \in Nat
              /\ \A n \in Nodes \cup {None} : at(n) <= m
<1> DEFINE at(n) == sumResourceRequests({p \in ListPods : podAt[p] = n})
           all == {podAt[p] : p \in ListPods}
           f == collectSystemComponentResourceRequestsByNode
           S == {0} \cup Range(f)
<1>1. ListPods \subseteq Pods /\ IsFiniteSet(ListPods)
  BY FS_Subset, GardenAssumption DEF ListPods
<1>2. IsFiniteSet(all)
  BY <1>1, FiniteValues
<1>3. \A n : at(n) \in Nat
  <2>1. \A n : {p \in ListPods : podAt[p] = n} \in SUBSET Pods
    BY <1>1
  <2> QED BY <2>1, SumsOfRequests
<1>4. f = [n \in all |-> at(n)]
  BY DEF collectSystemComponentResourceRequestsByNode
<1> HIDE DEF at, all, f
<1>5. Range(f) = {f[n] : n \in all} /\ \A n \in all : f[n] = at(n)
  BY <1>4 DEF Range
<1>6. IsFiniteSet(Range(f))
  BY <1>2, <1>5, FiniteValues
<1>7. IsFiniteSet(S) /\ S # {} /\ \A x \in S : x \in Nat
  BY <1>3, <1>5, <1>6, FS_AddElement
<1>8. Max(S) \in S /\ \A x \in S : x <= Max(S)
  BY <1>7, MaxIsLargest
<1>9. getMaxSystemComponentRequestsAcrossNodes = Max(S)
  BY DEF getMaxSystemComponentRequestsAcrossNodes, f
<1>10. \A n : n \notin all => at(n) = 0
  <2> SUFFICES ASSUME NEW n, n \notin all PROVE at(n) = 0
    OBVIOUS
  <2>1. {p \in ListPods : podAt[p] = n} = {}
    BY DEF all
  <2>2. at(n) = sumResourceRequests({})
    BY <2>1 DEF at
  <2> QED BY <2>2, SumEmpty DEF sumResourceRequests
<1>11. \A n \in Nodes \cup {None} : at(n) <= Max(S)
  <2> SUFFICES ASSUME NEW n \in Nodes \cup {None} PROVE at(n) <= Max(S)
    OBVIOUS
  <2>1. at(n) \in S
    BY <1>5, <1>10
  <2> HIDE DEF S
  <2> QED BY <1>8, <2>1
<1> HIDE DEF S
<1> QED BY <1>7, <1>8, <1>9, <1>11 DEF at

-----------------------------------------------------------------------------
(* Types and room *)

\* Initially nothing is known of any node.
LEMMA InitRoom == Init => TypeOK /\ RoomNotOverstated
BY GardenAssumption DEF Init, TypeOK, RoomNotOverstated

\* A step that neither revises nodes nor completes a sync keeps the room shown.
LEMMA RoomKept ==
    ASSUME RoomNotOverstated, UNCHANGED <<referenceNodes, synced>> PROVE RoomNotOverstated'
BY DEF RoomNotOverstated, SystemPodsAt

\* The end of a call leaves nothing behind that has no type.
LEMMA TypeOfReturn ==
    ASSUME TypeOK, Return, UNCHANGED <<clusters, shootAccesses>>,
           referenceNodes' \subseteq [node : Nodes, allocatable : Int]
    PROVE  TypeOK'
BY DEF TypeOK, Return, clusters

\* Neither does the end of a call with an error.
LEMMA TypeOfError ==
    ASSUME TypeOK, ReturnError, UNCHANGED clusters
    PROVE  TypeOK' /\ (RoomNotOverstated => RoomNotOverstated')
BY TypeOfReturn, RoomKept DEF ReturnError, TypeOK

\* An access handed out is of its type, whichever call goes on with it.
LEMMA TypeOfAccess ==
    ASSUME TypeOK, UNCHANGED <<clusters, referenceNodes>>,
           DOMAIN shootAccesses' \subseteq Shoots,
           \A s \in DOMAIN shootAccesses' : shootAccesses'[s] \in ShootAccess,
           NEW c \in {"GetShootAccess", "SyncReferenceNodes"}, NEW s \in Shoots,
           NEW sa \in ShootAccess, ReturnAccess(c, s, sa)
    PROVE  TypeOK'
BY DEF TypeOK, ReturnAccess, Return, clusters

\* Revising the nodes of the shoot asked for shows no more room on a node than its
\* own system components leave.
LEMMA RevisedRoom ==
    ASSUME IInv, TypeOK, pc = "listPods",
           referenceNodes' = {reviseNodeAllocatable(n) : n \in nodes},
           synced' = [shoot |-> shootCoord, podAt |-> [p \in ListPods |-> podAt[p]]]
    PROVE  referenceNodes' \subseteq [node : Nodes, allocatable : Int] /\ RoomNotOverstated'
<1> DEFINE m == getMaxSystemComponentRequestsAcrossNodes
           at(n) == sumResourceRequests({p \in ListPods : podAt[p] = n})
<1>1. podAt \in [Pods -> Nodes \cup {None}] /\ nodes \subseteq Nodes
  BY DEF TypeOK
<1>2. /\ m \in Nat
      /\ \A n \in Nodes \cup {None} : at(n) <= m
  BY <1>1, LargestOfAllNodes
<1>3. \A n \in Nodes : Allocatable[n] \in Nat
  BY GardenAssumption
<1>4. access.shoot = shootCoord
  BY DEF IInv, CallOK
<1>5. \A n : SystemPodsAt(n)' = {p \in ListPods : podAt[p] = n}
  <2> SUFFICES ASSUME NEW n PROVE SystemPodsAt(n)' = {p \in ListPods : podAt[p] = n}
    OBVIOUS
  <2>1. ListPods = {p \in SystemPods : ShootOf[p] = shootCoord}
    BY <1>4, GardenAssumption DEF ListPods
  <2>2. synced'.shoot = shootCoord /\ \A p \in ListPods : synced'.podAt[p] = podAt[p]
    OBVIOUS
  <2>3. SystemPodsAt(n)' = {p \in SystemPods : ShootOf[p] = synced'.shoot /\ synced'.podAt[p] = n}
    BY DEF SystemPodsAt
  <2> QED BY <2>1, <2>2, <2>3
<1>6. \A n : sumResourceRequests(SystemPodsAt(n)') = at(n)
  BY <1>5
<1> HIDE DEF m, at
<1>7. \A r \in referenceNodes' : r.node \in Nodes /\ r.allocatable = Allocatable[r.node] - m
                                 /\ r = [node |-> r.node, allocatable |-> r.allocatable]
  BY <1>1 DEF reviseNodeAllocatable, m
<1>8. referenceNodes' \subseteq [node : Nodes, allocatable : Int]
  <2> SUFFICES ASSUME NEW r \in referenceNodes' PROVE r \in [node : Nodes, allocatable : Int]
    OBVIOUS
  <2>1. r.node \in Nodes /\ r.allocatable \in Int
    BY <1>2, <1>3, <1>7
  <2> QED BY <1>7, <2>1
<1>9. \A n \in Nodes \cup {None} : at(n) \in Nat
  <2> SUFFICES ASSUME NEW n \in Nodes \cup {None} PROVE at(n) \in Nat
    OBVIOUS
  <2>1. {p \in ListPods : podAt[p] = n} \in SUBSET Pods
    BY DEF ListPods
  <2> QED BY <2>1, SumsOfRequests DEF at
<1>10. RoomNotOverstated'
  <2> SUFFICES ASSUME NEW r \in referenceNodes'
               PROVE  r.allocatable <= Allocatable[r.node]
                                         - sumResourceRequests(SystemPodsAt(r.node)')
    BY DEF RoomNotOverstated, sumResourceRequests, SystemPodsAt
  <2>1. PICK n : n = r.node
    OBVIOUS
  <2>2. n \in Nodes /\ r.allocatable = Allocatable[n] - m /\ at(n) <= m
    BY <1>2, <1>7, <2>1
  <2>3. r.allocatable <= Allocatable[n] - at(n)
    BY <1>2, <1>3, <1>9, <2>2
  <2> QED BY <1>6, <2>1, <2>3
<1> QED BY <1>8, <1>10

\* Every step keeps the types and the room.
LEMMA NextRoom ==
    ASSUME IInv, TypeOK, RoomNotOverstated, [Next]_vars
    PROVE  TypeOK' /\ RoomNotOverstated'
<1> USE GardenAssumption
<1>1. CASE Tick
  BY <1>1, RoomKept DEF Tick, call_vars, TypeOK
<1>2. CASE Reschedule
  BY <1>2, RoomKept DEF Reschedule, call_vars, TypeOK
<1>3. ASSUME NEW s \in Shoots, NEW c \in {"GetShootAccess", "SyncReferenceNodes"}, Call(c, s)
      PROVE  TypeOK' /\ RoomNotOverstated'
  <2>1. UNCHANGED <<clusters, shootAccesses, referenceNodes, synced>>
    BY <1>3 DEF Call
  <2>2. ASSUME NEW sa \in findShootAccess(s), ReturnAccess(c, s, sa) PROVE TypeOK'
    <3>1. sa \in ShootAccess
      BY FoundAccess DEF IInv
    <3>2. /\ DOMAIN shootAccesses' \subseteq Shoots
          /\ \A t \in DOMAIN shootAccesses' : shootAccesses'[t] \in ShootAccess
      BY <2>1 DEF TypeOK
    <3> QED BY <2>1, <2>2, <3>1, <3>2, TypeOfAccess
  <2>3. CASE /\ pc' = "getShoot" /\ call' = c /\ shootCoord' = s
             /\ UNCHANGED <<access, kubeconfig, nodes>>
    BY <2>1, <2>3, RoomKept DEF TypeOK, clusters
  <2> QED BY <1>3, <2>1, <2>2, <2>3, RoomKept DEF Call
<1>4. CASE GetShoot
  BY <1>4, TypeOfError, RoomKept DEF GetShoot, clusters, TypeOK
<1>5. CASE createShootAdminKubeConfig
  BY <1>5, TypeOfError, RoomKept DEF createShootAdminKubeConfig, clusters, TypeOK
<1>6. CASE NewShootAccess
  <2>1. CASE ReturnError
    BY <1>6, <2>1, TypeOfError DEF NewShootAccess
  <2>2. ASSUME NEW sa \in {[shoot |-> shootCoord, createdAt |-> now, expiresAt |-> kubeconfig]},
               shootAccesses' = [c \in DOMAIN shootAccesses \cup {shootCoord} |->
                                   IF c = shootCoord THEN sa ELSE shootAccesses[c]],
               ReturnAccess(call, shootCoord, sa),
               UNCHANGED <<referenceNodes, synced>>
        PROVE  TypeOK' /\ RoomNotOverstated'
    <3>1. /\ shootCoord \in Shoots /\ kubeconfig \in Nat /\ now \in Nat
          /\ call \in {"GetShootAccess", "SyncReferenceNodes"}
      BY <1>6 DEF NewShootAccess, IInv, CallOK
    <3>2. sa \in ShootAccess
      BY <3>1, <2>2 DEF ShootAccess
    <3>3. /\ DOMAIN shootAccesses' \subseteq Shoots
          /\ \A t \in DOMAIN shootAccesses' : shootAccesses'[t] \in ShootAccess
      BY <2>2, <3>1, <3>2 DEF TypeOK
    <3>4. UNCHANGED clusters
      BY <1>6 DEF NewShootAccess
    <3>5. TypeOK'
      BY <2>2, <3>1, <3>2, <3>3, <3>4, TypeOfAccess
    <3> QED BY <2>2, <3>5, RoomKept
  <2> QED BY <1>6, <2>1, <2>2 DEF NewShootAccess
<1>7. CASE ListNodes
  BY <1>7, TypeOfError, RoomKept DEF ListNodes, clusters, TypeOK
<1>8. CASE SyncReferenceNodes
  <2>1. CASE ReturnError
    BY <1>8, <2>1, TypeOfError DEF SyncReferenceNodes
  <2>2. ASSUME referenceNodes' = {reviseNodeAllocatable(n) : n \in nodes},
               synced' = [shoot |-> shootCoord, podAt |-> [p \in ListPods |-> podAt[p]]],
               Return, UNCHANGED shootAccesses
        PROVE  TypeOK' /\ RoomNotOverstated'
    <3>1. pc = "listPods" /\ UNCHANGED clusters
      BY <1>8 DEF SyncReferenceNodes
    <3>2. referenceNodes' \subseteq [node : Nodes, allocatable : Int] /\ RoomNotOverstated'
      BY <2>2, <3>1, RevisedRoom
    <3> QED BY <2>2, <3>1, <3>2, TypeOfReturn
  <2> QED BY <1>8, <2>1, <2>2 DEF SyncReferenceNodes
<1>9. CASE UNCHANGED vars
  BY <1>9, RoomKept DEF vars, clusters, call_vars, TypeOK
<1> QED BY <1>1, <1>2, <1>3, <1>4, <1>5, <1>6, <1>7, <1>8, <1>9 DEF Next

\* Types and room hold in every reachable state.
THEOREM RoomInvariance == Spec => [](TypeOK /\ RoomNotOverstated)
BY Invariance, InitRoom, NextRoom, PTL DEF Spec

\* Every reachable state is well typed.
THEOREM TypeCorrect == Spec => []TypeOK
BY RoomInvariance, PTL

\* No reference node ever shows more room than its own system components left on it.
THEOREM RoomIsThere == Spec => []RoomNotOverstated
BY RoomInvariance, PTL

=============================================================================
