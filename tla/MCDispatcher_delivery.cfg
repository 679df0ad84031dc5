CONSTANTS
    w1 = w1
    x1 = x1
    None = None
    Webhooks = {w1}
    ExecHooks = {x1}
    MaxEvents = 2
    MaxFaults = 1
    DefaultAttempts = 2
    Configs <- TwoAttempts
SPECIFICATION FairSpec
CHECK_DEADLOCK FALSE
INVARIANTS
    TypeOK
    SentWasHeard
    FailedWasNotAcked
    RedeliveryIsBounded
    FirstTriesInOrder
    PendingIsDue
PROPERTIES
    ImplementsOutbox
    EveryEventSettles
