CONSTANTS
    o = o
    coord = coord
    swap = swap
    pay = pay
    NoKey = nokey
    Owner = {o}
    Key = {coord}
    Kind = {swap, pay}
    Request <- MCRequest
    Grant <- MCGrant
    Window = 1
    MIN_AUCTION_WINDOW = 0
    MaxTime = 2
    MaxOwnerCalls = 2
    Coordinator = coord
    MaxTicks = 2
    Cap = 1
    JobTerms <- MCJobTerms
    MaxDisturbances = 1
SPECIFICATION Spec
INVARIANTS
    StandingTypeOK
    SignatureCountsOnce
    SecondDeclarationIsTheFallback
    NoRunWithoutDeclaration
    ExtraRunsHaveACause
    OncePerPeriodUndisturbed
PROPERTY DueJobsRunUnlessCrowdedOut
CHECK_DEADLOCK FALSE
