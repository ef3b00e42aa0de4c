CONSTANTS
    Gen = {g1}
    Worker = {w1, w2}
    Pod = {p1, p2}
    Sweeper = {p1, p2}
    Caller = {c1}
    PodOf <- EachItsOwnPod
    Owner <- MCOwner
    Reason <- MCReason
    NoOwner = NoOwner
    NoGen = NoGen
    NoReason = NoReason
    LeaseExpired = lease_expired
    Cap = 1
    MaxAttempts = 2
    LeaseTTL = 1
    Lag = 0
    Persist = TRUE
    MaxLife = 1
    MaxFaults = 1
    MaxStalls = 0
    Poll = TRUE
    Timely = FALSE
    Stopping = {}
    Crashing = {p1}
SPECIFICATION PoolSpec
PROPERTIES
    ImplementsQueue
    OnlyLastClaimEnds
