\* The budget and the refinement: two callers, both dimensions limited.
CONSTANTS
    Callers = {c1, c2}
    InitialLimits <- TwoTokens
    LimitChoices <- NoChanges
    RateDen = 3
    Estimates = {1, 3}
    Usages = {0, 2}
    LeaseTTL = 3
    MaxLeaseDuration = 5
    OpTimeout = 1
    MayGiveUp = FALSE
    MaxGap = 8
    MaxNow = 5
SPECIFICATION LSpec
SYMMETRY Symmetry
INVARIANTS
    NeverMints
    LiveWithinLimit
PROPERTY
    KeepsPromise
\* The history's clock is bounded; a bounded instance may stop.
CHECK_DEADLOCK FALSE
