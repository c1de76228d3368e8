SPECIFICATION Spec
CONSTANTS
    n1 = n1
    n2 = n2
    p1 = p1
    p2 = p2
    p3 = p3
    Node = {n1, n2}
    Pid = {p1, p2, p3}
    Group = {g, h}
    Subscriber = {s}
    Home <- HomeOf
    Version <- SameVersion
    Budget <- SafetyPlans
SYMMETRY Symmetry
INVARIANTS
    ViewIsSum
    MembersMonitored
    PeersMonitored
    Synchronised
    SubscriberExact
    LegacyAgrees
CHECK_DEADLOCK FALSE
