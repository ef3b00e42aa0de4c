CONSTANTS
    Gen = {g1, g2}
    Worker = {w1}
    Pod = {p1}
    Sweeper = {p1}
    Caller = {c1}
    PodOf <- OnePod
    Owner <- MCOwner
    Reason <- MCReason
    NoOwner = NoOwner
    NoGen = NoGen
    NoReason = NoReason
    LeaseExpired = lease_expired
    Cap = 2
    MaxAttempts = 1
    LeaseTTL = 3
    Lag = 1
    Persist = TRUE
    MaxLife = 1
    MaxFaults = 1
    MaxStalls = 0
    Poll = TRUE
    Timely = TRUE
    Stopping = {p1}
    Crashing = {}
SPECIFICATION FairPoolSpec
INVARIANTS
    DrainOrphansNothing
PROPERTIES
    DrainEnds
    HeartbeatKeepsLease
