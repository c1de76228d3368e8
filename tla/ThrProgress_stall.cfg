CONSTANTS
    u1 = u1
    NoManaged = 2
    Unmanaged = {u1}
    Word <- OneWord
    DeepSleepers = {}
    Quarter = 8
    MaxVal = 3
    Sleepers = {0, 1}
    Delayers = {u1}
    Initiators = {0}
    Requesters = {0}
    Blockers = {}
SPECIFICATION Spec
INVARIANT NobodyForgotten
