CONSTANTS
    s1 = s1
    Solver = {s1}
    Cap = {}
    InitMinBond = 20
    UnbondDelay = 2
    Amount = {0, 10, 25}
    MinBonds = {10, 20}
    Delays = {1, 2}
    ReporterValues = {TRUE, FALSE}
    KybValues = {FALSE}
    MaxTime = 4
    MaxEscrow = 50
    MaxOutcomes = 1
SPECIFICATION MCSpec
PROPERTY WithdrawsDownToMinBondOrAll
CHECK_DEADLOCK FALSE
