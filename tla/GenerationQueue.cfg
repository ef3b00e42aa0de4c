\* Two attempts, two racing callers, two racing recoveries, clock error of one.
CONSTANTS
    Gen = {g1, g2, g3}
    Owner = {o1, o2}
    NoOwner = NoOwner
    Reason = {provider_error}
    NoReason = NoReason
    LeaseExpired = lease_expired
    Caller = {c1, c2}
    Sweeper = {s1, s2}
    Cap = 2
    MaxAttempts = 2
    LeaseTTL = 2
    Lag = 1
    Persist = TRUE
SYMMETRY Symmetry
SPECIFICATION Spec
CHECK_DEADLOCK FALSE
INVARIANTS
    QueueInv
    InFlightUnderCap
    CompletedIffSaved
    RetryBudgetHonoured
PROPERTIES
    TerminalIsFinal
    LeaseProtects
    ImplementsLifecycle
