CONSTANTS
    o = o
    r = r
    s = s
    tr = tr
    this = this
    vault = vault
    cash = cash
    stock = stock
    gold = gold
    i1 = i1
    i2 = i2
    att = att
    Token <- MCToken
    Subject = {stock}
    Attestor = {att}
    ReviewDates = {1}
    MaxTime = 2
    MaxRequests = 1
    Intent <- MCIntent
    Account <- MCAccount
    This = this
    InitTreasury = tr
    Engagement <- MCEngagement
    Priced <- MCPriced
    Endowment <- MCEndowment
    RouterOut = {8, 9, 10}
    ShareBps = {10000}
    Treasuries = {s}
    RouterSwitch = {FALSE}
    RwaSwitch = {FALSE}
    Holder = {o, r}
    Transfers <- MCTransfers
    Vault = vault
    Asset = stock
    VaultAmounts = {10}
SPECIFICATION VaultSpec
CONSTRAINT OneExcursion
INVARIANTS
    SettlementTypeOK
    FrameIsFunded
    SpentWithinBudget
    FullyDeployed
    FloorsBind
    SizedAsPlanned
    SleeveIsShortByRounding
    VaultIsBacked
    ExitIsNeverBlocked
PROPERTY ImplementsExchange
CHECK_DEADLOCK FALSE
