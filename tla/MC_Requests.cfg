SPECIFICATION Spec
CONSTANTS
    r1 = r1
    r2 = r2
    bad = bad
    p1 = p1
    p2 = p2
    p3 = p3
    np1 = np1
    np2 = np2
    z1 = z1
    z2 = z2
    None = None
    Requests = {r1, r2, bad}
    Pods = {p1, p2, p3}
    NodePools = {np2}
    Maximum <- MCOneMaximum
    Slots = 1
    Malformed = {bad}
    Zones <- MCOneZones
    Templates = {np2}
    Faults <- AllFaults
    Timeouts = TRUE
    MaxRestarts = 1
    OneAtATime = TRUE
    FreshSnapshots = TRUE
INVARIANTS
    TypeOK
    TargetWithinMax
    ReportedNodesUsable
    ReliesOnUsableNodes
    AnswersOwnRequest
    HangsOnlyAbandoned
SYMMETRY Symmetry
PROPERTIES
    ImplementsProvisioning
