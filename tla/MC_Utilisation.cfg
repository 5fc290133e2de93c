\* Three pods, one node of the request, two winners.
SPECIFICATION Spec
CONSTANTS
    p1 = p1
    p2 = p2
    p3 = p3
    n1 = n1
    Pods = {p1, p2, p3}
    InitialNodes = {n1}
    Requests <- MCRequests
    MaxRuns = 2
    None = None
INVARIANTS
    ListedWherePlaced
    RecommendedNodesDescribed
    ConsumedByLastGroup
\* The report ends with the request.
CHECK_DEADLOCK FALSE
