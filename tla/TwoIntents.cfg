CONSTANTS
    s1 = s1
    s2 = s2
    i1 = i1
    alice = alice
    relay = relay
    nil = nil
    settle = settle
    desk = desk
    Solver = {s1, s2}
    Ready = {s1, s2}
    Kyb = {}
    StartBond = 20
    StartAuctioneerBond = 0
    OneLeg = TRUE
    TwoLegs = FALSE
    Cap = {}
    InitMinBond = 15
    UnbondDelay = 9
    Amount = {}
    MinBonds = {}
    Delays = {}
    ReporterValues = {}
    KybValues = {}
    MaxTime = 3
    MaxEscrow = 20
    MaxOutcomes = 0
    Intent = {i1, i2}
    Owner = {alice}
    Integrator = {}
    Nil = nil
    Settlement = settle
    InitAuctioneer = relay
    RefusesEther = {}
    Offer <- OneOffer
    Policy <- OpenPolicy
    Ticks = {1, 2}
    MIN_AUCTION_WINDOW = 1
    REVEAL_WINDOW = 1
    CHALLENGE_WINDOW = 1
    MISS_SLASH_BPS = 1000
    Funding = {}
    RewardBps = {}
    Auctioneers = {}
    Settlements = {}
    MaxBids = 2
    MaxReopened = 1
    MaxAuctioneerBond = 0
    SealedOffer = {}
    i2 = i2
SPECIFICATION MCSpec
PROPERTIES BondFallsForCause ImplementsMarket
SYMMETRY Interchangeable
CHECK_DEADLOCK FALSE
