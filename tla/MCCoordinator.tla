--------------------------- MODULE MCCoordinator ---------------------------
(***************************************************************************)
(* A small instance of the coordinator: bonded solvers, those of Failed    *)
(* marked down once and so below the reputation floor, and drafts that may *)
(* carry another policy than the intent's.                                 *)
(***************************************************************************)
EXTENDS Coordinator, TLC

CONSTANTS Ready, Failed, StartBond

Terms(fee, outs) == [feeBps |-> fee, guaranteedOut |-> outs]
Good  == Terms(20, <<100>>)
Poor  == Terms(30, <<90>>)

Offers      == {Good, Poor}
SealedGood  == {Good}

Lax    == [requireCompliant |-> FALSE, minReputationBps |-> 0, maxFeeBps |-> 30,
           needs |-> {}]
Strict == [requireCompliant |-> FALSE, minReputationBps |-> 4500, maxFeeBps |-> 25,
           needs |-> {}]
Floor  == [Lax EXCEPT !.minReputationBps = 4500]

Policies   == {Strict, Floor}
OnlyFloor  == {Floor}
OnlyLax    == {Lax}

MCInit ==
    /\ solvers = [s \in Solver |->
         LET record == AfterRegister(NoRecord, StartBond)
         IN  IF s \in Failed THEN AfterOutcome(record, FALSE)
             ELSE IF s \in Ready THEN record
             ELSE NoRecord]
    /\ escrow         = [s \in Solver |-> IF s \in Ready THEN StartBond ELSE 0]
    /\ kybAttested    = [s \in Solver |-> FALSE]
    /\ unbondReadyAt  = [s \in Solver |-> 0]
    /\ capabilities   = [s \in Solver |-> {}]
    /\ minBond        = InitMinBond
    /\ unbondDelay    = UnbondDelay
    /\ isReporter     = TRUE
    /\ now            = 0
    /\ intents            = [i \in Intent |-> NoIntent]
    /\ bids               = [i \in Intent |-> << >>]
    /\ bidCommitments     = [i \in Intent |-> [s \in Solver |-> Nil]]
    /\ auctioneerBond     = 10
    /\ auctioneer         = InitAuctioneer
    /\ settlement         = Settlement
    /\ challengeRewardBps = 2000
    /\ passes          = [p \in Call |-> Idle]
    /\ reputationCache = [s \in Solver |-> Nil]

\* Once an intent has ended its book is closed and every write reverts: what passes
\* still under way do then is not followed.
NotEnded == \A i \in Intent : StatusOf(i) \in Live \cup {"NONE"}

MCSpec == MCInit /\ [][CNext]_allVars
=============================================================================
