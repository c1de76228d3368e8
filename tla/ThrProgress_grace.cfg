CONSTANTS
    u1 = u1
    NoManaged = 2
    Unmanaged = {u1}
    Word <- OneWord
    DeepSleepers = {}
    Quarter = 8
    MaxVal = 3
    Sleepers = {1}
    Delayers = {u1}
    Initiators = {0}
    Requesters = {}
    Blockers = {}
SPECIFICATION Spec
INVARIANTS
    GracePeriod
    ConfirmedWindow
    GraceInv
PROPERTY
    GraceServiceSpec
