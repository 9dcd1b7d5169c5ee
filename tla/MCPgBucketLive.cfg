\* Every lease ends, every loss is seen and slots come back: two callers, one slot.
CONSTANTS
    Callers = {c1, c2}
    InitialLimits <- OneSlot
    LimitChoices <- NoChanges
    RateDen = 3
    Estimates = {0}
    Usages = {0}
    LeaseTTL = 3
    MaxLeaseDuration = 5
    OpTimeout = 1
    MayGiveUp = FALSE
    MaxGap = 2
SPECIFICATION FairSpec
PROPERTIES
    LossIsDetected
    SlotsComeBack
