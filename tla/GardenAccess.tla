----------------------------- MODULE GardenAccess -----------------------------
(***************************************************************************)
(* Access to shoot clusters through a Gardener landscape (internal/garden, *)
(* access.go and shoot.go): a cache of clients by shoot, each made from an *)
(* admin kubeconfig of limited validity, and the reference nodes read from *)
(* one shoot, their allocatable memory reduced by what system components   *)
(* ask for.  The type has no lock: it is modelled for one caller.  Time    *)
(* passes and the shoots change between any two of its calls.              *)
(* CPU is revised exactly as memory is, and is left out.                   *)
(***************************************************************************)
EXTENDS Integers, FiniteSets, FiniteSetsExt, Functions

CONSTANTS
    Shoots,         \* coordinates: project and name
    Nodes, Pods,    \* the nodes, and the pods in kube-system, of every shoot
    ShootOf,        \* node or pod -> coordinate
    SystemPods,     \* the pods with the role of a system component
    Requests,       \* pod -> memory its containers ask for
    Allocatable,    \* node -> memory
    Validity,       \* defaultAdminKubeConfigExpirationSeconds
    MaxTime,        \* bound on the clock
    None

\* A client authenticates to one cluster until its kubeconfig expires; the
\* type itself only knows when the client was made.
ShootAccess == [shoot : Shoots, createdAt : Nat, expiresAt : Nat]

ASSUME GardenAssumption ==
    /\ IsFiniteSet(Pods)
    /\ ShootOf \in [Nodes \cup Pods -> Shoots]
    /\ SystemPods \subseteq Pods
    /\ Requests \in [Pods -> Nat] /\ Allocatable \in [Nodes -> Nat]
    /\ Validity \in Nat /\ MaxTime \in Nat
    /\ \A c, d \in Shoots : c.name = d.name /\ c.project = d.project => c = d
    /\ None \notin Shoots \cup Nodes \cup ShootAccess

VARIABLES
    now,
    podAt,              \* the shoots: the node of a pod, or None
    shootAccesses,      \* coordinate -> ShootAccess
    referenceNodes,     \* revised nodes
    pc, call, shootCoord,   \* the call under way and where it is
    access,             \* its shoot access
    kubeconfig,         \* when its new kubeconfig expires
    nodes,              \* the nodes it has read
    synced              \* history: where the pods were at the last complete sync

clusters == <<now, podAt>>
call_vars == <<pc, call, shootCoord, access, kubeconfig, nodes>>
vars == <<clusters, shootAccesses, referenceNodes, call_vars, synced>>

Init ==
    /\ now = 0 /\ podAt \in [Pods -> {None}]
    /\ shootAccesses = <<>> /\ referenceNodes = {}
    /\ pc = "idle" /\ call = None /\ shootCoord = None
    /\ access = None /\ kubeconfig = None /\ nodes = {}
    /\ synced = None

-----------------------------------------------------------------------------
(* What the shoots do meanwhile *)

Tick ==
    /\ now < MaxTime /\ now' = now + 1
    /\ UNCHANGED <<podAt, shootAccesses, referenceNodes, call_vars, synced>>

\* A pod is bound to a node of its shoot, or replaced by one with no node yet.
Reschedule ==
    /\ \E p \in Pods, n \in Nodes \cup {None} :
         /\ n # None => ShootOf[n] = ShootOf[p]
         /\ podAt' = [podAt EXCEPT ![p] = n]
    /\ UNCHANGED <<now, shootAccesses, referenceNodes, call_vars, synced>>

-----------------------------------------------------------------------------
(* GetShootAccess *)

HasExpired_AtOnce(sa) == now >= sa.createdAt + Validity
HasExpired(sa) == now > sa.createdAt + Validity

findShootAccess_ByName(s) ==
    {shootAccesses[c] : c \in {d \in DOMAIN shootAccesses :
        d.name = s.name /\ ~HasExpired(shootAccesses[d])}}

findShootAccess(s) ==
    {shootAccesses[c] : c \in {d \in DOMAIN shootAccesses :
        d.name = s.name /\ d.project = s.project /\ ~HasExpired(shootAccesses[d])}}

Return ==
    /\ pc' = "idle" /\ call' = None /\ shootCoord' = None
    /\ access' = None /\ kubeconfig' = None /\ nodes' = {}

\* Every error is returned to the caller and changes no state of the type.
ReturnError == Return /\ UNCHANGED <<shootAccesses, referenceNodes, synced>>

\* GetShootAccess returns: to its caller, or into SyncReferenceNodes.
ReturnAccess(c, s, sa) ==
    \/ c = "GetShootAccess" /\ Return
    \/ /\ c = "SyncReferenceNodes" /\ pc' = "listNodes"
       /\ access' = sa /\ call' = c /\ shootCoord' = s /\ kubeconfig' = None
       /\ UNCHANGED nodes

Call(c, s) ==
    /\ pc = "idle"
    /\ \/ \E sa \in findShootAccess(s) : ReturnAccess(c, s, sa)
       \/ /\ findShootAccess(s) = {}
          /\ pc' = "getShoot" /\ call' = c /\ shootCoord' = s
          /\ UNCHANGED <<access, kubeconfig, nodes>>
    /\ UNCHANGED <<clusters, shootAccesses, referenceNodes, synced>>

GetShoot ==
    /\ pc = "getShoot"
    /\ \/ /\ pc' = "createKubeconfig"
          /\ UNCHANGED <<shootAccesses, referenceNodes, call, shootCoord, access, kubeconfig,
                         nodes, synced>>
       \/ ReturnError
    /\ UNCHANGED clusters

createShootAdminKubeConfig_Discarded ==
    /\ pc = "createKubeconfig"
    /\ \/ /\ pc' = "newShootAccess"
          /\ UNCHANGED <<shootAccesses, referenceNodes, call, shootCoord, access, kubeconfig,
                         nodes, synced>>
       \/ ReturnError
    /\ UNCHANGED clusters

createShootAdminKubeConfig ==
    /\ pc = "createKubeconfig"
    /\ \/ /\ kubeconfig' = now + Validity /\ pc' = "newShootAccess"
          /\ UNCHANGED <<shootAccesses, referenceNodes, call, shootCoord, access, nodes,
                         synced>>
       \/ ReturnError
    /\ UNCHANGED clusters

\* The age of the access counts from here, not from the kubeconfig's issue.
NewShootAccess ==
    /\ pc = "newShootAccess"
    /\ \/ \E sa \in {[shoot |-> shootCoord, createdAt |-> now, expiresAt |-> kubeconfig]} :
            /\ shootAccesses' = [c \in DOMAIN shootAccesses \cup {shootCoord} |->
                                   IF c = shootCoord THEN sa ELSE shootAccesses[c]]
            /\ ReturnAccess(call, shootCoord, sa)
            /\ UNCHANGED <<referenceNodes, synced>>
       \/ ReturnError
    /\ UNCHANGED clusters

-----------------------------------------------------------------------------
(* SyncReferenceNodes *)

\* The shoot answers no client whose kubeconfig has expired.
Authenticated == now <= access.expiresAt

ListNodes ==
    /\ pc = "listNodes"
    /\ \/ /\ Authenticated
          /\ nodes' = {n \in Nodes : ShootOf[n] = access.shoot} /\ pc' = "listPods"
          /\ UNCHANGED <<shootAccesses, referenceNodes, call, shootCoord, access, kubeconfig,
                         synced>>
       \/ ReturnError
    /\ UNCHANGED clusters

ListPods == {p \in Pods : ShootOf[p] = access.shoot /\ p \in SystemPods}

sumResourceRequests(ps) == SumFunctionOnSet(Requests, ps)

\* Pods without a node are a group of their own, under the empty name.
collectSystemComponentResourceRequestsByNode ==
    [n \in {podAt[p] : p \in ListPods} |->
        sumResourceRequests({p \in ListPods : podAt[p] = n})]

getMaxSystemComponentRequestsAcrossNodes_Any ==
    IF ListPods = {} THEN 0
    ELSE CHOOSE q \in Range(collectSystemComponentResourceRequestsByNode) : TRUE

getMaxSystemComponentRequestsAcrossNodes ==
    Max({0} \cup Range(collectSystemComponentResourceRequestsByNode))

reviseNodeAllocatable(n) ==
    [node |-> n, allocatable |-> Allocatable[n] - getMaxSystemComponentRequestsAcrossNodes]

\* Reading the pods, revising the nodes and replacing the reference nodes.
SyncReferenceNodes ==
    /\ pc = "listPods"
    /\ \/ /\ Authenticated
          /\ referenceNodes' = {reviseNodeAllocatable(n) : n \in nodes}
          /\ synced' = [shoot |-> shootCoord, podAt |-> [p \in ListPods |-> podAt[p]]]
          /\ Return /\ UNCHANGED shootAccesses
       \/ ReturnError
    /\ UNCHANGED clusters

Next ==
    \/ Tick \/ Reschedule
    \/ \E s \in Shoots, c \in {"GetShootAccess", "SyncReferenceNodes"} : Call(c, s)
    \/ GetShoot \/ createShootAdminKubeConfig \/ NewShootAccess
    \/ ListNodes \/ SyncReferenceNodes

Spec == Init /\ [][Next]_vars

-----------------------------------------------------------------------------
(* Properties *)

\* Accesses are held for shoots, references are to nodes, and what a call has read
\* so far is of its kind or not there yet.
TypeOK ==
    /\ now \in 0..MaxTime
    /\ podAt \in [Pods -> Nodes \cup {None}]
    /\ DOMAIN shootAccesses \subseteq Shoots
    /\ \A s \in DOMAIN shootAccesses : shootAccesses[s] \in ShootAccess
    /\ referenceNodes \subseteq [node : Nodes, allocatable : Int]
    /\ pc \in {"idle", "getShoot", "createKubeconfig", "newShootAccess", "listNodes", "listPods"}
    /\ call \in {None, "GetShootAccess", "SyncReferenceNodes"}
    /\ shootCoord \in Shoots \cup {None}
    /\ access \in ShootAccess \cup {None}
    /\ kubeconfig \in Nat \cup {None}
    /\ nodes \subseteq Nodes

SystemPodsAt(n) ==
    {p \in SystemPods : ShootOf[p] = synced.shoot /\ synced.podAt[p] = n}

\* The reference nodes are the nodes of one shoot, the one last synced with
\* success, whatever calls failed or served other shoots since; a shoot of the
\* same name in another project is not mistaken for it.
ReferencesOfOneShoot ==
    synced # None =>
        {r.node : r \in referenceNodes} = {n \in Nodes : ShootOf[n] = synced.shoot}

\* No reference node shows more room than its allocatable memory less what the
\* system components on it asked for when they were listed.
RoomNotOverstated ==
    \A r \in referenceNodes :
        r.allocatable <= Allocatable[r.node] - sumResourceRequests(SystemPodsAt(r.node))

\* A new kubeconfig is asked for only when the cached one has expired, although the
\* type counts from the making of the client and not from the issue.
RenewedOnlyIfExpired ==
    /\ pc \in {"getShoot", "createKubeconfig", "newShootAccess"}
    /\ shootCoord \in DOMAIN shootAccesses
    => shootAccesses[shootCoord].expiresAt < now

=============================================================================
