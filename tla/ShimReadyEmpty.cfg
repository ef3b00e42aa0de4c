CONSTANTS
    MaxSlots = 2
    Boot = {b1}
    Request = {r1}
    NoJob = NoJob
    NoSlot = NoSlot
    MaxRecovery = 3
    MaxCrashes = 4
SPECIFICATION Spec
CHECK_DEADLOCK FALSE
INVARIANTS
    ReadyPodHasWorker
