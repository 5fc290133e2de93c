------------------------- MODULE MC_SimulationRequest -------------------------
(* Pods of two namespaces with one name, unscheduled and scheduled, names with the
   prefix, once and twice, and the separator, system pods, equal times of creation. *)
EXTENDS SimulationRequest, TLC

CONSTANTS web, otherWeb, boundWeb, shootWeb, shootShootWeb, webCopy, db, dns, n1, n2, n3

MCPod(name, namespace, created, bound, nominated, memory) ==
    [name |-> name, namespace |-> namespace, created |-> created, bound |-> bound,
     nominated |-> nominated, memory |-> memory]
MCPodInfo ==
    web      :> MCPod(<<"web">>, "a", 1, FALSE, FALSE, 1) @@
    otherWeb :> MCPod(<<"web">>, "b", 2, FALSE, FALSE, 2) @@
    boundWeb :> MCPod(<<"web">>, "c", 1, TRUE, FALSE, 1) @@
    shootWeb :> MCPod(<<"shoot--", "web">>, "a", 2, FALSE, FALSE, 1) @@
    shootShootWeb :> MCPod(<<"shoot--", "shoot--", "web">>, "a", 2, FALSE, FALSE, 1) @@
    webCopy  :> MCPod(<<"web", "-0", "-sr-", "x">>, "a", 3, FALSE, FALSE, 1) @@
    db       :> MCPod(<<"db">>, "a", 1, FALSE, TRUE, 3) @@
    dns      :> MCPod(<<"dns">>, "kube-system", 1, FALSE, FALSE, 1)
MCInstanceType == n1 :> "large" @@ n2 :> "large" @@ n3 :> "unknown"
MCTemplates == {[instanceType |-> "large", allocatable |-> 4]}
==============================================================================
