----------------------------- MODULE Provisioning -----------------------------
(***************************************************************************)
(* What POST /recommend/ promises of the target cluster, without virtual   *)
(* cluster, simulations or recommender state: each request plans nodes     *)
(* within the maxima, creates them, and lets pods on them only when all of *)
(* them exist; nothing happens in the target cluster for a client that has *)
(* an answer or has gone.  Requests implements it (ImplementsProvisioning).*)
(***************************************************************************)
EXTENDS Naturals, FiniteSets

CONSTANTS Requests, NodePools, Maximum

VARIABLES
    plan,       \* per request, the nodes it wants
    created,    \* the nodes of the target cluster
    usable,     \* those that take pods
    answer      \* per request

vars == <<plan, created, usable, answer>>

Node == [pool : NodePools, by : Requests, number : Nat]

InPool(ns, np) == {n \in ns : n.pool = np}

Init ==
    /\ plan = [r \in Requests |-> {}]
    /\ created = {} /\ usable = {}
    /\ answer = [r \in Requests |-> "none"]

\* Whatever earlier requests created counts, also what no pod can use.
Plan(r, np) ==
    LET n == [pool |-> np, by |-> r, number |-> Cardinality(plan[r]) + 1] IN
    /\ answer[r] = "none" /\ plan[r] \cap created = {}
    /\ Cardinality(InPool(created \cup plan[r], np)) < Maximum[np]
    /\ plan' = [plan EXCEPT ![r] = @ \cup {n}]
    /\ UNCHANGED <<created, usable, answer>>

Create(r) ==
    /\ answer[r] = "none"
    /\ \E n \in plan[r] : created' = created \cup {n}
    /\ UNCHANGED <<plan, usable, answer>>

Untaint(r) ==
    /\ answer[r] = "none" /\ plan[r] \subseteq created
    /\ \E n \in plan[r] : usable' = usable \cup {n}
    /\ UNCHANGED <<plan, created, answer>>

Answer(r, status) ==
    /\ answer[r] = "none"
    /\ status = "ok" => plan[r] \subseteq usable
    /\ answer' = [answer EXCEPT ![r] = status]
    /\ UNCHANGED <<plan, created, usable>>

\* The process ends: every client that waits loses its answer.
Stop ==
    /\ \E rs \in SUBSET {r \in Requests : answer[r] = "none"} :
          answer' = [r \in Requests |-> IF r \in rs THEN "lost" ELSE answer[r]]
    /\ UNCHANGED <<plan, created, usable>>

Next ==
    \/ \E r \in Requests, np \in NodePools : Plan(r, np)
    \/ \E r \in Requests : Create(r) \/ Untaint(r)
    \/ \E r \in Requests, status \in {"ok", "badRequest", "error", "lost"} : Answer(r, status)
    \/ Stop

Spec == Init /\ [][Next]_vars
=============================================================================
