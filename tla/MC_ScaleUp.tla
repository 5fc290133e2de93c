----------------------------- MODULE MC_ScaleUp -----------------------------
(* Small requests for the model checker. *)
EXTENDS ScaleUp, TLC

CONSTANTS n1, n2, p1, p2, p3, p4, p5, poolA, poolB, z1, z2

Pod(node, memory, cpu, priority) ==
    [node |-> node, nominated |-> FALSE, memory |-> memory, cpu |-> cpu, priority |-> priority]
Nominated(pod) == [pod EXCEPT !.nominated = TRUE]

Pool(zones, current, max, allocatable, price) ==
    [zones |-> zones, current |-> current, max |-> max, allocatable |-> allocatable,
     price |-> price, capacity |-> allocatable]

MCPods == {p1, p2, p3, p4}
MCAllocatable == n1 :> 2048
AllTemplates == {poolA, poolB} \X {z1, z2}

\* Three pods to schedule, two of them equal, and one on the only node, which has
\* room for one more: its clone has that room as well.  A pool with two zones and
\* room for two nodes, a pool with one zone.
MCPodInfo ==
    p1 :> Pod(None, 2048, 0, 0) @@ p2 :> Pod(None, 1024, 500, 0)
        @@ p3 :> Pod(None, 1024, 500, 0) @@ p4 :> Pod(n1, 1024, 0, 0)
MCNodePool == poolA :> Pool({z1, z2}, 1, 3, 2048, 2) @@ poolB :> Pool({z1}, 0, 1, 1024, 1)
EqualPods == Permutations({p2, p3})

\* The adverse request: priorities, a pod that is nominated to a node but not bound
\* to it, a pod on a node the snapshot does not list, a node and a pod whose names
\* have the prefix, and a pool without zones.
AdversePods == MCPods \cup {p5}
AdversePodInfo ==
    p1 :> Pod(None, 2048, 0, 1) @@ p2 :> Pod(None, 1024, 0, 0)
        @@ p3 :> Nominated(Pod(None, 2048, 0, 0)) @@ p4 :> Pod(n2, 1024, 0, 0)
        @@ p5 :> Pod(None, 1024, 0, 0)
AdverseAllocatable == n1 :> 1024
AdverseNames == {n1, p5}
AdverseNodePool == poolA :> Pool({z1, z2}, 0, 2, 2048, 2) @@ poolB :> Pool({}, 0, 1, 1024, 1)

\* Small pods (no whole GiB, no core) and a pool without a price.
SmallPodInfo ==
    p1 :> Pod(None, 512, 0, 0) @@ p2 :> Pod(None, 512, 0, 0) @@ p3 :> Pod(None, 1024, 0, 0)
        @@ p4 :> Pod(n1, 2048, 0, 0)
UnpricedNodePool ==
    poolA :> Pool({z1}, 0, 1, 1024, 2) @@ poolB :> Pool({z1, z2}, 0, 1, 1024, 0)

\* The smallest request in which a leftover node can matter: no node yet, two pools
\* that win in turn.
NoAllocatable == <<>>
NoNodePods == {p1, p2}
NoNodePodInfo == p1 :> Pod(None, 2048, 0, 0) @@ p2 :> Pod(None, 1024, 0, 0)
FewNodes == poolA :> Pool({z1, z2}, 0, 1, 2048, 2) @@ poolB :> Pool({z1}, 0, 1, 1024, 1)

=============================================================================
