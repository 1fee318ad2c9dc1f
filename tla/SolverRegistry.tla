--------------------------- MODULE SolverRegistry ---------------------------
(***************************************************************************)
(* The solver registry contract: registration, bonding, the unbonding      *)
(* cool-down and the on-chain reputation of the solver network.  One       *)
(* action is one transaction.  IntentRegistry extends this module: the     *)
(* record transformers AfterOutcome and AfterSlash are the two calls it    *)
(* makes from inside its own transactions.                                 *)
(*                                                                         *)
(* Abstracted: metadata, registeredAt, notionalSettled and _solverList,    *)
(* which no contract reads back, and the capability bits down to the set   *)
(* of lanes a policy may ask for.                                          *)
(***************************************************************************)
EXTENDS Integers

CONSTANTS
    Solver,         \* the addresses that act as solvers
    Cap,            \* the capability bits some policy tests
    InitMinBond,    \* minBond_ of the constructor
    UnbondDelay,    \* unbondDelay, in ticks
    Amount,         \* ether a call may carry, or ask to withdraw
    MinBonds,       \* the values governance may set minBond to
    Delays,         \* the values governance may set unbondDelay to
    ReporterValues, \* the values governance may set the reporter bit to
    KybValues,      \* the values governance may attest KYB with
    MaxTime,        \* bound: last tick of the clock
    MaxEscrow,      \* bound: ether one solver ever has in the contract
    MaxOutcomes     \* bound: outcomes a solver is reported, of each kind

ASSUME SolverRegistryAssumption ==
    /\ InitMinBond \in Nat
    /\ UnbondDelay \in Nat
    /\ Amount \subseteq Nat
    /\ MinBonds \subseteq Nat
    /\ Delays \subseteq Nat
    /\ ReporterValues \subseteq BOOLEAN
    /\ KybValues \subseteq BOOLEAN
    /\ MaxTime \in Nat
    /\ MaxEscrow \in Nat
    /\ MaxOutcomes \in Nat

BPS           == 10000
SEED_SCORE    == 5000
EMA_ALPHA_BPS == 2000

VARIABLES
    solvers,        \* _solvers: the record of each address
    unbondReadyAt,  \* 0, or the tick from which the bond may be withdrawn
    kybAttested,
    capabilities,
    minBond,
    unbondDelay,
    isReporter,     \* whether the intent registry may report and slash
    escrow,         \* the contract's ether, split by the solver that paid it in
    now             \* block.timestamp

solverVars == <<solvers, unbondReadyAt, kybAttested, capabilities, minBond,
                unbondDelay, isReporter, escrow>>
srVars     == <<solverVars, now>>

Score == 0 .. BPS

SolverRecord == [registered    : BOOLEAN,
                 bond          : Nat,
                 reputationBps : Score,
                 fulfilled     : Nat,
                 failed        : Nat]

\* A fresh mapping entry: nothing registered, every field zero.
NoRecord == [registered |-> FALSE, bond |-> 0, reputationBps |-> 0,
             fulfilled |-> 0, failed |-> 0]

SRInit ==
    /\ solvers       = [s \in Solver |-> NoRecord]
    /\ unbondReadyAt = [s \in Solver |-> 0]
    /\ kybAttested   = [s \in Solver |-> FALSE]
    /\ capabilities  = [s \in Solver |-> {}]
    /\ minBond       = InitMinBond
    /\ unbondDelay   = UnbondDelay
    /\ isReporter    = TRUE
    /\ escrow        = [s \in Solver |-> 0]
    /\ now           = 0

-----------------------------------------------------------------------------
(* What each call makes of a solver's record. *)

IsActive(s) == solvers[s].registered /\ solvers[s].bond >= minBond

\* Broken, for a mutant: a new registration keeps the score on the record.
AfterRegister_KeepsScore(rec, v) == [rec EXCEPT !.registered = TRUE, !.bond = v]

\* register: the bond is assigned, not added, and the score is seeded again,
\* whatever an earlier registration left; its counters survive.
AfterRegister(rec, v) ==
    [rec EXCEPT !.registered = TRUE, !.bond = v, !.reputationBps = SEED_SCORE]

AfterDeposit(rec, v) == [rec EXCEPT !.bond = @ + v]

\* unbond: a remainder short of minBond gives up the registration and stays.
AfterUnbond(rec, amount) ==
    [rec EXCEPT !.bond = @ - amount, !.registered = rec.bond - amount >= minBond]

\* Broken, for a mutant: the weighted sum is not scaled back to basis points.
AfterOutcome_Unscaled(rec, success) ==
    [rec EXCEPT
       !.reputationBps = @ * (BPS - EMA_ALPHA_BPS) + (IF success THEN BPS ELSE 0) * EMA_ALPHA_BPS,
       !.fulfilled     = IF success THEN @ + 1 ELSE @,
       !.failed        = IF success THEN @ ELSE @ + 1]

\* reportOutcome: the exponential moving average and the counters.
AfterOutcome(rec, success) ==
    LET target == IF success THEN BPS ELSE 0
    IN  [rec EXCEPT
           !.reputationBps = (@ * (BPS - EMA_ALPHA_BPS) + target * EMA_ALPHA_BPS) \div BPS,
           !.fulfilled     = IF success THEN @ + 1 ELSE @,
           !.failed        = IF success THEN @ ELSE @ + 1]

\* Broken, for a mutant: the amount is not clamped to the bond.
Taken_Unclamped(rec, amount) == amount

\* slash: what is taken, and the record it leaves.  A slash of nothing returns
\* early, before the test that may strike the solver off.
Taken(rec, amount) == IF amount > rec.bond THEN rec.bond ELSE amount

\* Broken, for mutants: the record keeps its bond, or its registration.
AfterSlash_KeepsBond(rec, amount) ==
    [rec EXCEPT !.registered = @ /\ rec.bond - Taken(rec, amount) >= minBond]
AfterSlash_StaysListed(rec, amount) == [rec EXCEPT !.bond = @ - Taken(rec, amount)]

AfterSlash(rec, amount) ==
    IF Taken(rec, amount) = 0 THEN rec
    ELSE [rec EXCEPT
            !.bond       = @ - Taken(rec, amount),
            !.registered = @ /\ rec.bond - Taken(rec, amount) >= minBond]

-----------------------------------------------------------------------------
(* Solvers. *)

\* The attestations and the unbonding ticket of an earlier registration survive.
Register(s, v) ==
    /\ ~solvers[s].registered
    /\ v >= minBond
    /\ escrow[s] + v <= MaxEscrow
    /\ solvers' = [solvers EXCEPT ![s] = AfterRegister(@, v)]
    /\ escrow'  = [escrow EXCEPT ![s] = @ + v]
    /\ UNCHANGED <<unbondReadyAt, kybAttested, capabilities, minBond,
                   unbondDelay, isReporter, now>>

AddBond(s, v) ==
    /\ solvers[s].registered
    /\ escrow[s] + v <= MaxEscrow
    /\ solvers' = [solvers EXCEPT ![s] = AfterDeposit(@, v)]
    /\ escrow'  = [escrow EXCEPT ![s] = @ + v]
    /\ UNCHANGED <<unbondReadyAt, kybAttested, capabilities, minBond,
                   unbondDelay, isReporter, now>>

\* Bound: a ticket that would ripen past the last tick is not worth tracking.
RequestUnbond(s) ==
    /\ solvers[s].registered
    /\ now + unbondDelay <= MaxTime
    /\ unbondReadyAt' = [unbondReadyAt EXCEPT ![s] = now + unbondDelay]
    /\ UNCHANGED <<solvers, kybAttested, capabilities, minBond, unbondDelay,
                   isReporter, escrow, now>>

\* Broken, for a mutant: the ticket is not spent.
Unbond_KeepsTicket(s, amount) ==
    /\ solvers[s].registered
    /\ unbondReadyAt[s] /= 0
    /\ now >= unbondReadyAt[s]
    /\ amount > 0
    /\ amount <= solvers[s].bond
    /\ solvers' = [solvers EXCEPT ![s] = AfterUnbond(@, amount)]
    /\ escrow' = [escrow EXCEPT ![s] = @ - amount]
    /\ UNCHANGED <<unbondReadyAt, kybAttested, capabilities, minBond,
                   unbondDelay, isReporter, now>>

Unbond(s, amount) ==
    /\ solvers[s].registered
    /\ unbondReadyAt[s] /= 0
    /\ now >= unbondReadyAt[s]
    /\ amount > 0
    /\ amount <= solvers[s].bond
    /\ solvers' = [solvers EXCEPT ![s] = AfterUnbond(@, amount)]
    /\ unbondReadyAt' = [unbondReadyAt EXCEPT ![s] = 0]
    /\ escrow' = [escrow EXCEPT ![s] = @ - amount]
    /\ UNCHANGED <<kybAttested, capabilities, minBond, unbondDelay,
                   isReporter, now>>

SetCapabilities(s, caps) ==
    /\ solvers[s].registered
    /\ capabilities' = [capabilities EXCEPT ![s] = caps]
    /\ UNCHANGED <<solvers, unbondReadyAt, kybAttested, minBond, unbondDelay,
                   isReporter, escrow, now>>

SolverStep ==
    \E s \in Solver :
        \/ \E v \in Amount : Register(s, v) \/ AddBond(s, v) \/ Unbond(s, v)
        \/ RequestUnbond(s)
        \/ \E caps \in SUBSET Cap : SetCapabilities(s, caps)

-----------------------------------------------------------------------------
(* Reporters.  These two are transactions of their own only in this        *)
(* module's specification, where the reporter is an arbitrary contract.    *)

ReportOutcome(s, success) ==
    /\ isReporter
    /\ solvers[s].registered
    /\ (IF success THEN solvers[s].fulfilled ELSE solvers[s].failed) < MaxOutcomes
    /\ solvers' = [solvers EXCEPT ![s] = AfterOutcome(@, success)]
    /\ UNCHANGED <<unbondReadyAt, kybAttested, capabilities, minBond,
                   unbondDelay, isReporter, escrow, now>>

Slash(s, amount) ==
    /\ isReporter
    /\ solvers' = [solvers EXCEPT ![s] = AfterSlash(@, amount)]
    /\ escrow'  = [escrow EXCEPT ![s] = @ - Taken(solvers[s], amount)]
    /\ UNCHANGED <<unbondReadyAt, kybAttested, capabilities, minBond,
                   unbondDelay, isReporter, now>>

ReporterStep ==
    \E s \in Solver :
        \/ \E success \in BOOLEAN : ReportOutcome(s, success)
        \/ \E amount \in Amount : Slash(s, amount)

-----------------------------------------------------------------------------
(* Governance and time. *)

AttestKyb(s, attested) ==
    /\ solvers[s].registered
    /\ kybAttested' = [kybAttested EXCEPT ![s] = attested]
    /\ UNCHANGED <<solvers, unbondReadyAt, capabilities, minBond, unbondDelay,
                   isReporter, escrow, now>>

SetMinBond(v) ==
    /\ minBond' = v
    /\ UNCHANGED <<solvers, unbondReadyAt, kybAttested, capabilities,
                   unbondDelay, isReporter, escrow, now>>

SetUnbondDelay(d) ==
    /\ unbondDelay' = d
    /\ UNCHANGED <<solvers, unbondReadyAt, kybAttested, capabilities, minBond,
                   isReporter, escrow, now>>

SetReporter(allowed) ==
    /\ isReporter' = allowed
    /\ UNCHANGED <<solvers, unbondReadyAt, kybAttested, capabilities, minBond,
                   unbondDelay, escrow, now>>

\* attestCapabilities writes the same word as setCapabilities, with the same
\* guard: only its caller differs, so SetCapabilities stands for both.
GovernanceStep ==
    \/ \E s \in Solver, attested \in KybValues : AttestKyb(s, attested)
    \/ \E v \in MinBonds : SetMinBond(v)
    \/ \E d \in Delays : SetUnbondDelay(d)
    \/ \E allowed \in ReporterValues : SetReporter(allowed)

Tick ==
    /\ now < MaxTime
    /\ now' = now + 1
    /\ UNCHANGED solverVars

SRNext == SolverStep \/ ReporterStep \/ GovernanceStep \/ Tick

SRSpec == SRInit /\ [][SRNext]_srVars
-----------------------------------------------------------------------------
(* Properties. *)

\* The shape of the state; every score is within the uint16 range 0 .. BPS.
SRTypeOK ==
    /\ solvers       \in [Solver -> SolverRecord]
    /\ unbondReadyAt \in [Solver -> Nat]
    /\ kybAttested   \in [Solver -> BOOLEAN]
    /\ capabilities  \in [Solver -> SUBSET Cap]
    /\ minBond       \in Nat
    /\ unbondDelay   \in Nat
    /\ isReporter    \in BOOLEAN
    /\ escrow        \in [Solver -> Nat]
    /\ now           \in Nat

\* The contract can always pay: the ether a solver paid in and has not been
\* paid out, to it or by a slash, is at least the bond on its record.  So no
\* order of registering again over a residual bond, slashing and unbonding
\* spends another solver's ether.
Solvency == \A s \in Solver : solvers[s].bond <= escrow[s]

\* No path through unbond and slash leaves a solver registered on a bond below
\* every requirement governance has ever set: each one that lowers a bond also
\* strikes the solver off when it falls short.
RegisteredIsCovered ==
    \A s \in Solver : solvers[s].registered =>
        \E m \in {InitMinBond} \cup MinBonds : solvers[s].bond >= m

\* A registered solver's score is on the side of the seed that its record
\* justifies: above it only after a fulfilment, below it only after a failure.
ScoreIsEarned ==
    \A s \in Solver : solvers[s].registered =>
        /\ solvers[s].fulfilled = 0 => solvers[s].reputationBps <= SEED_SCORE
        /\ solvers[s].failed = 0    => solvers[s].reputationBps >= SEED_SCORE

\* What the comment on unbond says: it withdraws the bond down to minBond, or all
\* of it while giving up registration.  So no withdrawal strikes a solver off and
\* leaves it a remainder (which nobody can withdraw any more).
WithdrawsDownToMinBondOrAll ==
    [][\A s \in Solver, v \in Amount :
          Unbond(s, v) => solvers'[s].registered \/ solvers'[s].bond = 0]_srVars
=============================================================================
