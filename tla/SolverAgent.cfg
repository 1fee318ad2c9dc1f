CONSTANTS
    i1 = i1
    me = me
    rival = rival
    Nil = nil
    Intent = {i1}
    Solver = {me, rival}
    Me = me
    AuctionEnds = 0
    Deadline = 1
    MaxTime = 2
    MaxPasses = 2
    MaxSelections = 2
    MaxDisturbances = 1
SPECIFICATION FairSpec
INVARIANTS
    AgentTypeOK
    OneBidUnlessDisturbed
    UntriedMissesHaveACause
PROPERTY WonIntentsMoveOn
CHECK_DEADLOCK FALSE
