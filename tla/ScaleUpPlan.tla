----------------------------- MODULE ScaleUpPlan -----------------------------
(***************************************************************************)
(* What one call of recommender.Run promises, without virtual cluster,     *)
(* simulations or scheduler: a plan that grows by one node at a time.      *)
(* ScaleUp implements it (see ImplementsPlan there).                       *)
(***************************************************************************)
EXTENDS Request

CONSTANT MayFail    \* whether calls on the virtual cluster may fail

VARIABLES
    unscheduled,    \* the pods that still need a node
    placement,      \* where the others are: set of [pod, at]
    added,          \* the nodes to be added
    outcome

pvars == <<unscheduled, placement, added, outcome>>

PlacedAt(n) == {q.pod : q \in {r \in placement : r.at = n}}

Init ==
    /\ unscheduled = UnscheduledInRequest
    /\ placement = ScheduledInRequest
    /\ added = {}
    /\ outcome = "none"

\* The free memory of a node may be given away twice: once on the base node
\* and once on its clone.  A node that has none to spare gets no pod.
Fits(ps, n) ==
    ps # {} => /\ Memory(PlacedAt(n)) <= Capacity(n)
               /\ Memory(ps) <= 2 * (Capacity(n) - Memory(PlacedAt(n)))

\* A node of a pool with room, in a zone of the pool that has a template, and
\* with it a home for at least one pod, on that node or on another one.
AddNode(np, z) ==
    LET n == [pool |-> np, zone |-> z, run |-> Cardinality(added) + 1] IN
    /\ outcome = "none"
    /\ NodePool[np].current + Cardinality({m \in added : m.pool = np}) < NodePool[np].max
    /\ z \in NodePool[np].zones /\ <<np, z>> \in NodeTemplates
    /\ added' = added \cup {n}
    /\ \E ps \in SUBSET unscheduled :
          /\ ps # {}
          /\ unscheduled' = unscheduled \ ps
          /\ \E at \in [ps -> InitialNodes \cup added'] :
                /\ placement' = placement \cup {[pod |-> p, at |-> at[p]] : p \in ps}
                /\ \A m \in InitialNodes \cup added : Fits({p \in ps : at[p] = m}, m)
                /\ Memory({p \in ps : at[p] = n}) <= Capacity(n)
    /\ UNCHANGED outcome

\* Run may give up early and still answer "ok"; it fails only with a call.
Finish(result) ==
    /\ outcome = "none"
    /\ result = "error" => MayFail
    /\ outcome' = result
    /\ UNCHANGED <<unscheduled, placement, added>>

Next ==
    \/ \E np \in NodePools, z \in ZoneNames : AddNode(np, z)
    \/ \E result \in {"ok", "error"} : Finish(result)

Spec == Init /\ [][Next]_pvars /\ WF_pvars(Next)
=============================================================================
