CONSTANTS
    MaxSlots = 4
    Boot = {b1, b2}
    Request = {r1, r2}
    NoJob = NoJob
    NoSlot = NoSlot
    MaxRecovery = 1
    MaxCrashes = 2
SPECIFICATION FairSpec
CHECK_DEADLOCK FALSE
INVARIANTS
    ShimInv
    NoOrphanedCall
    NoIdleWhileWaiting
    NoColdReplacementWhenReady
    NoExtraThread
PROPERTIES
    EveryCallSettles
