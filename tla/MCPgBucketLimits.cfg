\* Lease safety while the slot limit is lowered and tokens are switched on and
\* off under live leases and unsettled charges.
CONSTANTS
    Callers = {c1, c2}
    InitialLimits <- OneToken
    LimitChoices <- LimitMix
    RateDen = 3
    Estimates = {1, 2}
    Usages = {0, 2}
    LeaseTTL = 3
    MaxLeaseDuration = 5
    OpTimeout = 1
    MayGiveUp = TRUE
    MaxGap = 5
SPECIFICATION Spec
SYMMETRY Symmetry
INVARIANTS
    TypeOK
    LostIsTrue
    NeverOverfull
PROPERTIES
    NeverStolen
    AdmitsWithinLimit
