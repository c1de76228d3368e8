CONSTANTS
    Scheduler = {s1, s2}
    Sleeper = {s1, s2}
    Blocking = {TRUE, FALSE}
    MaxLoads = 3
    NONE = NONE
SPECIFICATION FairSpec
INVARIANTS
    TypeOK
    IndInv
    StagingUnused
    UsesComplete
    BarrierIssued
    DecScheduledOnce
PROPERTIES
    LoadReturns
    BarrierEnds
CHECK_DEADLOCK FALSE
