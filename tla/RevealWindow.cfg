CONSTANTS
    s1 = s1
    s2 = s2
    i1 = i1
    alice = alice
    relay = relay
    nil = nil
    settle = settle
    desk = desk
    Solver = {s1, s2}
    Ready = {s1, s2}
    Kyb = {}
    StartBond = 20
    StartAuctioneerBond = 10
    OneLeg = TRUE
    TwoLegs = FALSE
    Cap = {}
    InitMinBond = 20
    UnbondDelay = 9
    Amount = {}
    MinBonds = {}
    Delays = {}
    ReporterValues = {}
    KybValues = {}
    MaxTime = 4
    MaxEscrow = 20
    MaxOutcomes = 0
    Intent = {i1}
    Owner = {alice}
    Integrator = {desk}
    Nil = nil
    Settlement = settle
    InitAuctioneer = relay
    RefusesEther = {}
    Offer <- MCOffers
    Policy <- OpenPolicy
    Ticks = {1, 3}
    MIN_AUCTION_WINDOW = 1
    REVEAL_WINDOW = 1
    CHALLENGE_WINDOW = 1
    MISS_SLASH_BPS = 1000
    Funding = {}
    RewardBps = {}
    Auctioneers = {}
    Settlements = {}
    MaxBids = 2
    MaxReopened = 1
    MaxAuctioneerBond = 10
    SealedOffer <- MCOffers
SPECIFICATION MCSpec
INVARIANT RevealWindowIsOpen
CHECK_DEADLOCK FALSE
