-------------------------- MODULE MCIntentRegistry --------------------------
(***************************************************************************)
(* Small instances of the intent registry.  They start from states every   *)
(* deployment passes through: the solvers of Ready have registered with    *)
(* the bond StartBond, those of Kyb are attested, and the auctioneer has   *)
(* posted StartAuctioneerBond.                                             *)
(***************************************************************************)
EXTENDS IntentRegistry, TLC

CONSTANTS Ready, Kyb, StartBond, StartAuctioneerBond, OneLeg, TwoLegs

\* Three offers on one leg: Good dominates Poor, Cheap is incomparable to Good.
Terms(fee, outs) == [feeBps |-> fee, guaranteedOut |-> outs]
Good  == Terms(20, <<100>>)
Poor  == Terms(30, <<90>>)
Cheap == Terms(10, <<80>>)

MCOffers == (IF OneLeg THEN {Good, Poor} ELSE {})
            \cup (IF TwoLegs THEN {Terms(20, <<100, 50>>), Terms(20, <<90, 60>>),
                                   Terms(20, <<90, 50>>)} ELSE {})
OneOffer == {Good}

Interchangeable == Permutations(Solver) \cup Permutations(Intent)

Open     == [requireCompliant |-> FALSE, minReputationBps |-> 0, maxFeeBps |-> 30,
             needs |-> {}]
Guarded  == [requireCompliant |-> TRUE, minReputationBps |-> 4500, maxFeeBps |-> 25,
             needs |-> Cap]

OpenPolicy    == {Open}
GuardedPolicy == {Guarded}

MCInit ==
    /\ solvers = [s \in Solver |->
         IF s \in Ready THEN [NoRecord EXCEPT !.registered    = TRUE,
                                              !.bond          = StartBond,
                                              !.reputationBps = SEED_SCORE]
         ELSE NoRecord]
    /\ escrow         = [s \in Solver |-> IF s \in Ready THEN StartBond ELSE 0]
    /\ kybAttested    = [s \in Solver |-> s \in Kyb]
    /\ unbondReadyAt  = [s \in Solver |-> 0]
    /\ capabilities   = [s \in Solver |-> {}]
    /\ minBond        = InitMinBond
    /\ unbondDelay    = UnbondDelay
    /\ isReporter     = TRUE
    /\ now            = 0
    /\ intents            = [i \in Intent |-> NoIntent]
    /\ bids               = [i \in Intent |-> << >>]
    /\ bidCommitments     = [i \in Intent |-> [s \in Solver |-> Nil]]
    /\ auctioneerBond     = StartAuctioneerBond
    /\ auctioneer         = InitAuctioneer
    /\ settlement         = Settlement
    /\ challengeRewardBps = 2000

MCSpec == MCInit /\ [][Next]_vars

MCFairSpec == MCSpec /\ Fairness
=============================================================================
