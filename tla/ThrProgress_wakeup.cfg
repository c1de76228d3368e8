CONSTANTS
    u1 = u1
    NoManaged = 2
    Unmanaged = {u1}
    Word <- OneWord
    DeepSleepers = {}
    Quarter = 8
    MaxVal = 3
    Sleepers = {0}
    Delayers = {}
    Initiators = {0, u1}
    Requesters = {0, u1}
    Blockers = {}
SPECIFICATION Spec
INVARIANTS
    WakeupIdsWritten
    ManagedWakeupKept
    UnmanagedWakeupKept
