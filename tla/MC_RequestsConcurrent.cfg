SPECIFICATION Spec
CONSTANTS
    r1 = r1
    r2 = r2
    bad = bad
    p1 = p1
    p2 = p2
    p3 = p3
    np1 = np1
    np2 = np2
    z1 = z1
    z2 = z2
    None = None
    Requests = {r1, r2}
    Pods = {p1, p2}
    NodePools = {np1, np2}
    Maximum <- MCMaximum
    Slots = 1
    Malformed = {}
    Zones <- MCZones
    Templates = {np1, np2}
    Faults = {}
    Timeouts = FALSE
    MaxRestarts = 0
    OneAtATime = FALSE
    FreshSnapshots = TRUE
INVARIANTS
    AnswersOwnRequest
