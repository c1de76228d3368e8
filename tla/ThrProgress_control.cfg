CONSTANTS
    u1 = u1
    NoManaged = 2
    Unmanaged = {u1}
    Word <- OneWord
    DeepSleepers = {}
    Quarter = 8
    MaxVal = 2
    Sleepers = {0, 1}
    Delayers = {u1}
    Initiators = {}
    Requesters = {}
    Blockers = {}
SPECIFICATION Spec
INVARIANTS
    LeaderUnique
    SafeInv
