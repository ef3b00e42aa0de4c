CONSTANTS
    Gen = {g1, g2}
    Worker = {w1, w2}
    Pod = {p1}
    Sweeper = {p1}
    Caller = {c1, c2}
    PodOf <- OnePod
    Owner <- MCOwner
    Reason <- MCReason
    NoOwner = NoOwner
    NoGen = NoGen
    NoReason = NoReason
    LeaseExpired = lease_expired
    Cap = 2
    MaxAttempts = 0
    LeaseTTL = 0
    Lag = 0
    Persist = FALSE
    MaxLife = 0
    MaxFaults = 0
    MaxStalls = 0
    Poll = FALSE
    Timely = FALSE
    Stopping = {}
    Crashing = {}
SPECIFICATION FairPoolSpec
INVARIANTS
    DoorbellInv
