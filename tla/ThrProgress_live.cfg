CONSTANTS
    u1 = u1
    NoManaged = 2
    Unmanaged = {}
    Word <- OneWord
    DeepSleepers = {0}
    Quarter = 8
    MaxVal = 3
    Sleepers = {0, 1}
    Delayers = {}
    Initiators = {1}
    Requesters = {1}
    Blockers = {}
SPECIFICATION FairSpec
INVARIANT NobodyForgotten
PROPERTY RequestServed
