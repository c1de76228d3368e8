SPECIFICATION FairSpec
CONSTANTS
    n1 = n1
    n2 = n2
    p1 = p1
    p2 = p2
    p3 = p3
    Node = {n1, n2}
    Pid = {p1, p3}
    Group = {g}
    Subscriber = {}
    Home <- HomeOf
    Version <- SameVersion
    Budget <- LivePlans
PROPERTIES
    Converges
CHECK_DEADLOCK FALSE
