CONSTANTS
    Gen = {g1, g2}
    Worker = {w1}
    Pod = {p1}
    Sweeper = {p1}
    Caller = {c1}
    PodOf <- OnePod
    Owner <- MCOwner
    Reason <- MCReason
    NoOwner = NoOwner
    NoGen = NoGen
    NoReason = NoReason
    LeaseExpired = lease_expired
    Cap = 2
    MaxAttempts = 2
    LeaseTTL = 0
    Lag = 0
    Persist = TRUE
    MaxLife = 1
    MaxFaults = 1
    MaxStalls = 1
    Poll = TRUE
    Timely = FALSE
    Stopping = {}
    Crashing = {p1}
SPECIFICATION FairPoolSpec
PROPERTIES
    EveryGenerationEnds
