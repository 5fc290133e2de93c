SPECIFICATION Spec
CONSTANTS
    n1 = n1
    n2 = n2
    p1 = p1
    p2 = p2
    p3 = p3
    p4 = p4
    p5 = p5
    poolA = poolA
    poolB = poolB
    z1 = z1
    z2 = z2
    None = None
    Pods <- MCPods
    InitialNodes = {n1}
    OtherNodes = {}
    Prefixed = {}
    NodePools = {poolA, poolB}
    ZoneNames = {z1, z2}
    PodInfo <- SmallPodInfo
    NodePool <- UnpricedNodePool
    Allocatable <- MCAllocatable
    NodeTemplates <- AllTemplates
    Faults = {}
INVARIANTS
    NoWinnerMeansNoneAssigned
