\* Two nodes and three pods in one shoot, one node in the other; an
\* access may expire and be made again.
SPECIFICATION Spec
CONSTANTS
    a1 = a1
    a2 = a2
    b1 = b1
    s1 = s1
    s2 = s2
    w1 = w1
    Shoots <- MCShoots
    Nodes = {a1, a2, b1}
    Pods = {s1, s2, w1}
    ShootOf <- MCShootOf
    SystemPods = {s1, s2}
    Requests <- MCRequests
    Allocatable <- MCAllocatable
    Validity = 1
    MaxTime = 3
    None = None
INVARIANTS
    TypeOK
    ReferencesOfOneShoot
    RoomNotOverstated
    RenewedOnlyIfExpired
