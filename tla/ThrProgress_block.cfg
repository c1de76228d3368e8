CONSTANTS
    u1 = u1
    NoManaged = 2
    Unmanaged = {}
    Word <- OneWord
    DeepSleepers = {}
    Quarter = 8
    MaxVal = 2
    Sleepers = {0, 1}
    Delayers = {}
    Initiators = {}
    Requesters = {}
    Blockers = {0, 1}
SPECIFICATION FairSpec
INVARIANTS
    BlockInv
    BlockExclusive
    BlockerWakeupKept
    BlockedWakeupKept
PROPERTY
    BlockReturns
