CONSTANTS
    s1 = s1
    s2 = s2
    i1 = i1
    alice = alice
    relay = relay
    nil = nil
    settle = settle
    desk = desk
    Solver = {s1}
    Ready = {s1}
    Kyb = {s1}
    StartBond = 20
    StartAuctioneerBond = 10
    OneLeg = TRUE
    TwoLegs = FALSE
    Cap = {"gasless"}
    InitMinBond = 20
    UnbondDelay = 1
    Amount = {20}
    MinBonds = {10}
    Delays = {}
    ReporterValues = {FALSE}
    KybValues = {FALSE}
    MaxTime = 3
    MaxEscrow = 20
    MaxOutcomes = 0
    Intent = {i1}
    Owner = {alice, desk}
    Integrator = {}
    Nil = nil
    Settlement = settle
    InitAuctioneer = relay
    RefusesEther = {alice}
    Offer <- OneOffer
    Policy <- GuardedPolicy
    Ticks = {1, 2}
    MIN_AUCTION_WINDOW = 1
    REVEAL_WINDOW = 0
    CHALLENGE_WINDOW = 1
    MISS_SLASH_BPS = 1000
    Funding = {5}
    RewardBps = {0}
    Auctioneers = {desk}
    Settlements = {desk}
    MaxBids = 1
    MaxReopened = 1
    MaxAuctioneerBond = 10
    SealedOffer = {}
SPECIFICATION MCFairSpec
PROPERTIES BondFallsForCause ImplementsMarket RetiresUnlessOrphaned
CHECK_DEADLOCK FALSE
