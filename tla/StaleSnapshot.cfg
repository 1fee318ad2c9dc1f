CONSTANTS
    s1 = s1
    s2 = s2
    i1 = i1
    alice = alice
    relay = relay
    nil = nil
    settle = settle
    desk = desk
    Solver = {s1, s2}
    Ready = {s1, s2}
    Failed = {}
    StartBond = 20
    Cap = {}
    InitMinBond = 15
    UnbondDelay = 9
    Amount = {}
    MinBonds = {}
    Delays = {}
    ReporterValues = {}
    KybValues = {}
    MaxTime = 3
    MaxEscrow = 20
    MaxOutcomes = 0
    Intent = {i1}
    Owner = {alice}
    Integrator = {}
    Nil = nil
    Settlement = settle
    InitAuctioneer = relay
    RefusesEther = {}
    Offer <- Offers
    Policy <- OnlyLax
    Ticks = {1, 3}
    MIN_AUCTION_WINDOW = 1
    REVEAL_WINDOW = 1
    CHALLENGE_WINDOW = 1
    MISS_SLASH_BPS = 1000
    Funding = {}
    RewardBps = {}
    Auctioneers = {}
    Settlements = {}
    MaxBids = 2
    MaxReopened = 0
    MaxAuctioneerBond = 10
    SealedOffer <- SealedGood
    p1 = p1
    Call = {p1}
    MaxLead = 0
SPECIFICATION MCSpec
INVARIANT SelectionsAreUnbeaten
CHECK_DEADLOCK FALSE
