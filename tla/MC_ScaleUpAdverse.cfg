SPECIFICATION Spec
CONSTANTS
    n1 = n1
    n2 = n2
    p1 = p1
    p2 = p2
    p3 = p3
    p4 = p4
    p5 = p5
    poolA = poolA
    poolB = poolB
    z1 = z1
    z2 = z2
    None = None
    Pods <- AdversePods
    InitialNodes = {n1}
    OtherNodes = {n2}
    Prefixed <- AdverseNames
    NodePools = {poolA, poolB}
    ZoneNames = {z1, z2}
    PodInfo <- AdversePodInfo
    NodePool <- AdverseNodePool
    Allocatable <- AdverseAllocatable
    NodeTemplates <- AllTemplates
    Faults = {"create", "read"}
INVARIANTS
    PlacementOnKnownNode
    ClusterMatchesState
    SimulationsIsolated
    BlockedOnlyByZonelessPool
PROPERTIES
    Termination
CHECK_DEADLOCK FALSE
