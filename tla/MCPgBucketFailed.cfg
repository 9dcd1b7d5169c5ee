\* A lost commit answer leaves a lease behind a failed Acquire.
CONSTANTS
    Callers = {c1, c2}
    InitialLimits <- OneSlot
    LimitChoices <- NoChanges
    RateDen = 3
    Estimates = {0}
    Usages = {0}
    LeaseTTL = 3
    MaxLeaseDuration = 4
    OpTimeout = 1
    MayGiveUp = TRUE
    MaxGap = 2
SPECIFICATION Spec
INVARIANT
    FailedAcquireHoldsNothing
