--------------------------- MODULE IntentRegistry ---------------------------
(***************************************************************************)
(* The intent registry contract on top of the solver registry: intents,    *)
(* their auctions (open and commit-reveal bids, selection, challenge), the *)
(* auctioneer's bond, and the transactions of the settlement contract that *)
(* come back to it.  One action is one transaction, nested calls included: *)
(* reportOutcome, slash and the ether they send are part of the caller's   *)
(* action, and a call that would revert disables it.                       *)
(*                                                                         *)
(* Abstracted: hashes are the values they commit to, so a mismatch is a    *)
(* caller naming another value; a bid's eta and plan hash, an intent's     *)
(* kind, salt and metadata, which no guard reads; bid ids count from 0 as  *)
(* in the code.                                                            *)
(***************************************************************************)
EXTENDS SolverRegistry, Sequences

CONSTANTS
    Intent,             \* intent ids
    Owner,              \* accounts that declare intents
    Integrator,         \* accounts an intent may name as its only selector
    Nil,                \* the zero value: address(0), bytes32(0)
    Settlement,         \* the settlement contract
    InitAuctioneer,
    RefusesEther,       \* accounts (contracts) a plain ether transfer to reverts
    Offer,              \* the terms a bid may carry
    SealedOffer,        \* those of them solvers commit to before the reveal
    Policy,             \* the policies an intent may commit to
    Ticks,              \* the ticks a declaration may name
    MIN_AUCTION_WINDOW, REVEAL_WINDOW, CHALLENGE_WINDOW,    \* in ticks
    MISS_SLASH_BPS,
    Funding,            \* ether moved into or out of the auctioneer's bond
    RewardBps,          \* the values governance may set challengeRewardBps to
    Auctioneers,        \* the accounts governance may make auctioneer
    Settlements,        \* the contracts governance may make settlement
    MaxBids,            \* bound: bids on one intent
    MaxReopened,        \* bound: failures reported against one solver
    MaxAuctioneerBond   \* bound: ether in the auctioneer's bond

ASSUME IntentRegistryAssumption ==
    /\ Nil \notin Solver \cup Owner \cup Integrator \cup Offer \cup Policy
    /\ Offer \subseteq [feeBps : Nat, guaranteedOut : Seq(Nat)]
    /\ SealedOffer \subseteq Offer
    /\ Policy \subseteq [requireCompliant : BOOLEAN, minReputationBps : Nat,
                         maxFeeBps : Nat, needs : SUBSET Cap]
    /\ Ticks \subseteq Nat
    /\ MIN_AUCTION_WINDOW \in Nat
    /\ REVEAL_WINDOW \in Nat
    /\ CHALLENGE_WINDOW \in Nat
    /\ MISS_SLASH_BPS \in 0 .. BPS
    /\ Funding \subseteq Nat
    /\ RewardBps \subseteq 0 .. BPS
    /\ MaxBids \in Nat
    /\ MaxReopened \in Nat
    /\ MaxAuctioneerBond \in Nat

UINT16_MAX == 65535

VARIABLES
    intents,            \* _intents
    bids,               \* _bids: the sequence of bids of each intent
    bidCommitments,     \* per intent and solver, the committed offer
    auctioneerBond,
    auctioneer, settlement, challengeRewardBps

roleVars   == <<auctioneer, settlement, challengeRewardBps>>
intentVars == <<intents, bids, bidCommitments, auctioneerBond, roleVars>>
vars       == <<srVars, intentVars>>

Address == Solver \cup Owner \cup Integrator \cup {InitAuctioneer} \cup Auctioneers

\* NONE, the status of an id nobody submitted, and the lifecycle after it.
Live     == {"OPEN", "SELECTED"}
Terminal == {"FULFILLED", "CANCELLED", "EXPIRED"}
Status   == {"NONE"} \cup Live \cup Terminal

IntentRecord == [status         : Status,
                 owner          : Owner \cup {Nil},
                 integrator     : Integrator \cup {Nil},
                 legCount       : Nat,
                 policy         : Policy \cup {Nil},
                 auctionEndsAt  : Nat,
                 deadline       : Nat,
                 selectedSolver : Solver \cup {Nil},
                 selectedBid    : Nat,
                 ownerSelected  : BOOLEAN,
                 selectedAt     : Nat]

BidRecord == [solver : Solver, offer : Offer, withdrawn : BOOLEAN]

NoIntent == [status |-> "NONE", owner |-> Nil, integrator |-> Nil,
             legCount |-> 0, policy |-> Nil, auctionEndsAt |-> 0,
             deadline |-> 0, selectedSolver |-> Nil, selectedBid |-> 0,
             ownerSelected |-> FALSE, selectedAt |-> 0]

Init ==
    /\ SRInit
    /\ intents            = [i \in Intent |-> NoIntent]
    /\ bids               = [i \in Intent |-> << >>]
    /\ bidCommitments     = [i \in Intent |-> [s \in Solver |-> Nil]]
    /\ auctioneerBond     = 0
    /\ auctioneer         = InitAuctioneer
    /\ settlement         = Settlement
    /\ challengeRewardBps = 2000

-----------------------------------------------------------------------------
(* Helpers. *)

StatusOf(i) == intents[i].status

\* _bid: an intent's bid of an id, which reverts outside the valid ids.
BidIds(i) == 0 .. Len(bids[i]) - 1
Bid(i, b) == bids[i][b + 1]

\* Reverts unless every nested ether transfer is accepted.
Pays(payee, amount) == amount = 0 \/ payee \notin RefusesEther

AuctionOpen(i) == StatusOf(i) = "OPEN" /\ now <= intents[i].auctionEndsAt

\* The selection _selectWinner writes.
Selected(r, b, s, caller) ==
    [r EXCEPT !.status         = "SELECTED",
              !.selectedSolver = s,
              !.selectedBid    = b,
              !.ownerSelected  = (caller = r.owner),
              !.selectedAt     = now]

\* The deselection markFailed and challengeSelection write.
Reopened(r) == [r EXCEPT !.status = "OPEN", !.selectedSolver = Nil, !.selectedBid = 0]

\* _dominates: no dearer, no leg lower, and better somewhere.
Dominates(x, y) ==
    LET legs == DOMAIN x.guaranteedOut
    IN  /\ x.feeBps <= y.feeBps
        /\ Len(x.guaranteedOut) = Len(y.guaranteedOut)
        /\ \A l \in legs : x.guaranteedOut[l] >= y.guaranteedOut[l]
        /\ \/ x.feeBps < y.feeBps
           \/ \E l \in legs : x.guaranteedOut[l] > y.guaranteedOut[l]

\* _runnerUp: the solver of the cheapest standing bid of another active solver,
\* the earliest of equals; address(0) when there is none.
RunnerUp(i, excluded) ==
    LET standing == {b \in BidIds(i) :
                       /\ ~Bid(i, b).withdrawn
                       /\ Bid(i, b).solver /= excluded
                       /\ IsActive(Bid(i, b).solver)
                       /\ Bid(i, b).offer.feeBps < UINT16_MAX}
        Fee(b)   == Bid(i, b).offer.feeBps
        IsBest(b) == \A c \in standing \ {b} :
                        Fee(b) < Fee(c) \/ (Fee(b) = Fee(c) /\ b < c)
    IN  IF standing = {} THEN Nil
        ELSE Bid(i, CHOOSE b \in standing : IsBest(b)).solver

\* The gates of selectWinnerChecked, which are also PolicyEngine's.
Qualifies(s, p) ==
    /\ p.requireCompliant => kybAttested[s]
    /\ solvers[s].reputationBps >= p.minReputationBps

\* What a miss costs the solver, and who gets it.
MissShare(s) == (solvers[s].bond * MISS_SLASH_BPS) \div BPS

Payee(i, s) == IF RunnerUp(i, s) = Nil THEN intents[i].owner ELSE RunnerUp(i, s)

\* Broken, for mutants: a slash nobody reports, and one of the wrong party.
PunishMiss_Unreported(i, s) ==
    /\ Pays(Payee(i, s), MissShare(s))
    /\ solvers' = [solvers EXCEPT ![s] = AfterSlash(@, MissShare(s))]
    /\ escrow'  = [escrow EXCEPT ![s] = @ - MissShare(s)]
    /\ UNCHANGED <<unbondReadyAt, kybAttested, capabilities, minBond,
                   unbondDelay, isReporter, now>>

PunishMiss_SlashesRunnerUp(i, s) ==
    LET t == IF RunnerUp(i, s) = Nil THEN s ELSE RunnerUp(i, s)
    IN  /\ isReporter
        /\ solvers[s].registered
        /\ solvers' = [x \in Solver |->
              LET r == IF x = s THEN AfterOutcome(solvers[x], FALSE) ELSE solvers[x]
              IN  IF x = t THEN AfterSlash(r, MissShare(s)) ELSE r]
        /\ escrow'  = [escrow EXCEPT ![t] = @ - MissShare(s)]
        /\ UNCHANGED <<unbondReadyAt, kybAttested, capabilities, minBond,
                       unbondDelay, isReporter, now>>

\* Broken, for a mutant: a bond with a withdrawal pending is left alone.
PunishMiss_SparesUnbonding(i, s) ==
    LET share == IF unbondReadyAt[s] = 0 THEN MissShare(s) ELSE 0
    IN  /\ isReporter
        /\ solvers[s].registered
        /\ Pays(Payee(i, s), share)
        /\ solvers' = [solvers EXCEPT ![s] = AfterSlash(AfterOutcome(@, FALSE), share)]
        /\ escrow'  = [escrow EXCEPT ![s] = @ - share]
        /\ UNCHANGED <<unbondReadyAt, kybAttested, capabilities, minBond,
                       unbondDelay, isReporter, now>>

\* reportOutcome(s, false) and then _slashMissedGuarantee(s, i), in one
\* transaction.  It reverts when the solver is off the register, when this
\* contract may not report, and when the payee refuses a share that is not nil.
PunishMiss(i, s) ==
    /\ isReporter
    /\ solvers[s].registered
    /\ Pays(Payee(i, s), MissShare(s))
    /\ solvers' = [solvers EXCEPT
                     ![s] = AfterSlash(AfterOutcome(@, FALSE), MissShare(s))]
    /\ escrow'  = [escrow EXCEPT ![s] = @ - MissShare(s)]
    /\ UNCHANGED <<unbondReadyAt, kybAttested, capabilities, minBond,
                   unbondDelay, isReporter, now>>

-----------------------------------------------------------------------------
(* Submission and retirement. *)

\* submit and submitFor both end in _open; who may sign is not modelled here.
Submit(i, owner, integrator, legs, policy, ends, deadline) ==
    /\ StatusOf(i) = "NONE"
    /\ legs /= 0
    /\ ends >= now + MIN_AUCTION_WINDOW
    /\ deadline > ends
    /\ intents' = [intents EXCEPT ![i] =
                     [NoIntent EXCEPT !.status        = "OPEN",
                                      !.owner         = owner,
                                      !.integrator    = integrator,
                                      !.legCount      = legs,
                                      !.policy        = policy,
                                      !.auctionEndsAt = ends,
                                      !.deadline      = deadline]]
    /\ UNCHANGED <<srVars, bids, bidCommitments, auctioneerBond, roleVars>>

\* Broken, for a mutant: no test of the status.
Cancel_AnyStatus(i) ==
    /\ StatusOf(i) /= "NONE"
    /\ intents' = [intents EXCEPT ![i].status = "CANCELLED"]
    /\ UNCHANGED <<srVars, bids, bidCommitments, auctioneerBond, roleVars>>

Cancel(i) ==
    /\ StatusOf(i) \in Live
    /\ intents' = [intents EXCEPT ![i].status = "CANCELLED"]
    /\ UNCHANGED <<srVars, bids, bidCommitments, auctioneerBond, roleVars>>

\* Broken, for mutants: at the deadline itself, and only before a selection.
Expire_AtDeadline(i) ==
    /\ StatusOf(i) \in Live
    /\ now >= intents[i].deadline
    /\ IF StatusOf(i) = "SELECTED"
         THEN PunishMiss(i, intents[i].selectedSolver)
         ELSE UNCHANGED srVars
    /\ intents' = [intents EXCEPT ![i].status = "EXPIRED"]
    /\ UNCHANGED <<bids, bidCommitments, auctioneerBond, roleVars>>
Expire_OnlyOpen(i) ==
    /\ StatusOf(i) = "OPEN"
    /\ now > intents[i].deadline
    /\ intents' = [intents EXCEPT ![i].status = "EXPIRED"]
    /\ UNCHANGED <<srVars, bids, bidCommitments, auctioneerBond, roleVars>>

\* expire: anybody, once the deadline is past.  A solver that was selected is
\* marked down and slashed first, and the selection stays on the record.
Expire(i) ==
    /\ StatusOf(i) \in Live
    /\ now > intents[i].deadline
    /\ IF StatusOf(i) = "SELECTED"
         THEN PunishMiss(i, intents[i].selectedSolver)
         ELSE UNCHANGED srVars
    /\ intents' = [intents EXCEPT ![i].status = "EXPIRED"]
    /\ UNCHANGED <<bids, bidCommitments, auctioneerBond, roleVars>>

-----------------------------------------------------------------------------
(* The auction. *)

PlaceBid(i, s, offer) ==
    /\ AuctionOpen(i)
    /\ Len(offer.guaranteedOut) = intents[i].legCount
    /\ IsActive(s)
    /\ Len(bids[i]) < MaxBids
    /\ bids' = [bids EXCEPT ![i] =
                  Append(@, [solver |-> s, offer |-> offer, withdrawn |-> FALSE])]
    /\ UNCHANGED <<srVars, intents, bidCommitments, auctioneerBond, roleVars>>

CommitBid(i, s, offer) ==
    /\ AuctionOpen(i)
    /\ IsActive(s)
    /\ bidCommitments' = [bidCommitments EXCEPT ![i][s] = offer]
    /\ UNCHANGED <<srVars, intents, bids, auctioneerBond, roleVars>>

\* Broken, for a mutant: a solver's revealed bid takes the place of its first.
RevealBid_InPlace(i, s) ==
    LET offer == bidCommitments[i][s]
        own   == {b \in BidIds(i) : Bid(i, b).solver = s}
        first == CHOOSE b \in own : \A c \in own : b <= c
        bid   == [solver |-> s, offer |-> offer, withdrawn |-> FALSE]
    IN  /\ StatusOf(i) = "OPEN"
        /\ now > intents[i].auctionEndsAt
        /\ now <= intents[i].auctionEndsAt + REVEAL_WINDOW
        /\ offer /= Nil
        /\ IsActive(s)
        /\ bidCommitments' = [bidCommitments EXCEPT ![i][s] = Nil]
        /\ bids' = [bids EXCEPT ![i] = IF own = {} THEN Append(@, bid)
                                       ELSE [@ EXCEPT ![first + 1] = bid]]
        /\ UNCHANGED <<srVars, intents, auctioneerBond, roleVars>>

RevealBid(i, s) ==
    LET offer == bidCommitments[i][s]
    IN  /\ StatusOf(i) = "OPEN"
        /\ now > intents[i].auctionEndsAt
        /\ now <= intents[i].auctionEndsAt + REVEAL_WINDOW
        /\ offer /= Nil
        /\ Len(offer.guaranteedOut) = intents[i].legCount
        /\ IsActive(s)
        /\ Len(bids[i]) < MaxBids
        /\ bidCommitments' = [bidCommitments EXCEPT ![i][s] = Nil]
        /\ bids' = [bids EXCEPT ![i] =
                      Append(@, [solver |-> s, offer |-> offer, withdrawn |-> FALSE])]
        /\ UNCHANGED <<srVars, intents, auctioneerBond, roleVars>>

\* Broken, for a mutant: a bid may be withdrawn while it is selected.
WithdrawBid_WhileSelected(i, b) ==
    /\ StatusOf(i) \in Live
    /\ b \in BidIds(i)
    /\ bids' = [bids EXCEPT ![i][b + 1].withdrawn = TRUE]
    /\ UNCHANGED <<srVars, intents, bidCommitments, auctioneerBond, roleVars>>

WithdrawBid(i, b) ==
    /\ AuctionOpen(i)
    /\ b \in BidIds(i)
    /\ bids' = [bids EXCEPT ![i][b + 1].withdrawn = TRUE]
    /\ UNCHANGED <<srVars, intents, bidCommitments, auctioneerBond, roleVars>>

\* The account that may select besides the owner.
Controller(i) == IF intents[i].integrator = Nil THEN auctioneer
                 ELSE intents[i].integrator

\* Broken, for a mutant: a withdrawn bid may win.
SelectWinner_Withdrawn(i, b, caller) ==
    /\ StatusOf(i) = "OPEN"
    /\ now >= intents[i].auctionEndsAt
    /\ now <= intents[i].deadline
    /\ caller \in {intents[i].owner, Controller(i)}
    /\ b \in BidIds(i)
    /\ IsActive(Bid(i, b).solver)
    /\ intents' = [intents EXCEPT ![i] = Selected(@, b, Bid(i, b).solver, caller)]
    /\ UNCHANGED <<srVars, bids, bidCommitments, auctioneerBond, roleVars>>

SelectWinner(i, b, caller) ==
    /\ StatusOf(i) = "OPEN"
    /\ now >= intents[i].auctionEndsAt
    /\ now <= intents[i].deadline
    /\ caller \in {intents[i].owner, Controller(i)}
    /\ b \in BidIds(i)
    /\ ~Bid(i, b).withdrawn
    /\ IsActive(Bid(i, b).solver)
    /\ intents' = [intents EXCEPT ![i] = Selected(@, b, Bid(i, b).solver, caller)]
    /\ UNCHANGED <<srVars, bids, bidCommitments, auctioneerBond, roleVars>>

SelectWinnerChecked(i, b, caller, policy) ==
    /\ policy = intents[i].policy
    /\ b \in BidIds(i)
    /\ Qualifies(Bid(i, b).solver, policy)
    /\ SelectWinner(i, b, caller)

\* Broken, for a mutant: the dominating bid may be withdrawn.
ChallengeSelection_ByWithdrawn(i, b) ==
    LET r      == intents[i]
        reward == (auctioneerBond * challengeRewardBps) \div BPS
    IN  /\ r.status = "SELECTED"
        /\ ~r.ownerSelected
        /\ r.selectedAt /= 0 => now <= r.selectedAt + CHALLENGE_WINDOW
        /\ {b, r.selectedBid} \subseteq BidIds(i)
        /\ Bid(i, b).solver /= Bid(i, r.selectedBid).solver
        /\ Dominates(Bid(i, b).offer, Bid(i, r.selectedBid).offer)
        /\ auctioneerBond' = auctioneerBond - reward
        /\ intents' = [intents EXCEPT ![i] = Reopened(@)]
        /\ UNCHANGED <<srVars, bids, bidCommitments, roleVars>>

\* Every selection but the owner's can be overturned by a standing bid of
\* another solver that dominates the winner, inside the challenge window;
\* selectedAt is left as it was.
ChallengeSelection(i, b) ==
    LET r      == intents[i]
        reward == (auctioneerBond * challengeRewardBps) \div BPS
    IN  /\ r.status = "SELECTED"
        /\ ~r.ownerSelected
        /\ r.selectedAt /= 0 => now <= r.selectedAt + CHALLENGE_WINDOW
        /\ {b, r.selectedBid} \subseteq BidIds(i)
        /\ ~Bid(i, b).withdrawn
        /\ Bid(i, b).solver /= Bid(i, r.selectedBid).solver
        /\ Dominates(Bid(i, b).offer, Bid(i, r.selectedBid).offer)
        /\ auctioneerBond' = auctioneerBond - reward
        /\ intents' = [intents EXCEPT ![i] = Reopened(@)]
        /\ UNCHANGED <<srVars, bids, bidCommitments, roleVars>>

-----------------------------------------------------------------------------
(* The settlement contract's two transactions, as this contract sees them. *)

\* Broken, for a mutant: the deadline is not tested.
Settle_Late(i) ==
    LET s == intents[i].selectedSolver
        p == intents[i].policy
    IN  /\ settlement = Settlement
        /\ StatusOf(i) = "SELECTED"
        /\ Qualifies(s, p)
        /\ isReporter
        /\ solvers[s].registered
        /\ intents' = [intents EXCEPT ![i].status = "FULFILLED"]
        /\ solvers' = [solvers EXCEPT ![s] = AfterOutcome(@, TRUE)]
        /\ UNCHANGED <<unbondReadyAt, kybAttested, capabilities, minBond,
                       unbondDelay, isReporter, escrow, now, bids,
                       bidCommitments, auctioneerBond, roleVars>>

\* settle by the selected solver: the guards of _open and of PolicyEngine that
\* read this state, and markFulfilled.  The fee cap and the capability are
\* tested here and were not tested when the winner was selected.
Settle(i) ==
    LET s == intents[i].selectedSolver
        p == intents[i].policy
    IN  /\ settlement = Settlement
        /\ StatusOf(i) = "SELECTED"
        /\ now <= intents[i].deadline
        /\ Qualifies(s, p)
        /\ p.needs \subseteq capabilities[s]
        /\ Bid(i, intents[i].selectedBid).offer.feeBps <= p.maxFeeBps
        /\ isReporter
        /\ solvers[s].registered
        /\ intents' = [intents EXCEPT ![i].status = "FULFILLED"]
        /\ solvers' = [solvers EXCEPT ![s] = AfterOutcome(@, TRUE)]
        /\ UNCHANGED <<unbondReadyAt, kybAttested, capabilities, minBond,
                       unbondDelay, isReporter, escrow, now, bids,
                       bidCommitments, auctioneerBond, roleVars>>

\* reportFailure by the selected solver, at any time, and markFailed.
ReportFailure(i) ==
    LET s == intents[i].selectedSolver
    IN  /\ settlement = Settlement
        /\ StatusOf(i) = "SELECTED"
        /\ solvers[s].failed < MaxReopened
        /\ PunishMiss(i, s)
        /\ intents' = [intents EXCEPT ![i] = [Reopened(@) EXCEPT !.selectedAt = 0]]
        /\ UNCHANGED <<bids, bidCommitments, auctioneerBond, roleVars>>

-----------------------------------------------------------------------------
(* Governance of this contract. *)

FundAuctioneerBond(v) ==
    /\ auctioneerBond + v <= MaxAuctioneerBond
    /\ auctioneerBond' = auctioneerBond + v
    /\ UNCHANGED <<srVars, intents, bids, bidCommitments, roleVars>>

WithdrawAuctioneerBond(v) ==
    /\ v <= auctioneerBond
    /\ auctioneerBond' = auctioneerBond - v
    /\ UNCHANGED <<srVars, intents, bids, bidCommitments, roleVars>>

SetAuctioneer(a) ==
    /\ auctioneer' = a
    /\ UNCHANGED <<srVars, intents, bids, bidCommitments, auctioneerBond,
                   settlement, challengeRewardBps>>

SetSettlement(a) ==
    /\ settlement' = a
    /\ UNCHANGED <<srVars, intents, bids, bidCommitments, auctioneerBond,
                   auctioneer, challengeRewardBps>>

SetChallengeRewardBps(bps) ==
    /\ challengeRewardBps' = bps
    /\ UNCHANGED <<srVars, intents, bids, bidCommitments, auctioneerBond,
                   auctioneer, settlement>>

-----------------------------------------------------------------------------
Declare(i) ==
    \E owner \in Owner, integrator \in Integrator \cup {Nil}, policy \in Policy,
       legs \in {Len(o.guaranteedOut) : o \in Offer}, ends, deadline \in Ticks :
        Submit(i, owner, integrator, legs, policy, ends, deadline)

Bidding(i) ==
    \E s \in Solver :
        \/ \E offer \in Offer : PlaceBid(i, s, offer)
        \/ \E offer \in SealedOffer : CommitBid(i, s, offer)
        \/ RevealBid(i, s)

Choosing(i) ==
    \E b \in 0 .. MaxBids - 1 :
        \/ WithdrawBid(i, b)
        \/ ChallengeSelection(i, b)
        \/ \E caller \in Address :
              \/ SelectWinner(i, b, caller)
              \/ \E policy \in Policy : SelectWinnerChecked(i, b, caller, policy)

IntentStep(i) ==
    \/ Declare(i) \/ Cancel(i) \/ Expire(i)
    \/ Bidding(i) \/ Choosing(i)
    \/ Settle(i) \/ ReportFailure(i)

RegistryGovernance ==
    \/ \E v \in Funding : FundAuctioneerBond(v) \/ WithdrawAuctioneerBond(v)
    \/ \E a \in Auctioneers : SetAuctioneer(a)
    \/ \E a \in Settlements : SetSettlement(a)
    \/ \E bps \in RewardBps : SetChallengeRewardBps(bps)

\* The solver registry's own transactions, and time, leave the intents alone.
SolverRegistryStep == (SolverStep \/ GovernanceStep \/ Tick) /\ UNCHANGED intentVars

Next == (\E i \in Intent : IntentStep(i)) \/ RegistryGovernance \/ SolverRegistryStep

Spec == Init /\ [][Next]_vars
-----------------------------------------------------------------------------
(* Properties. *)

TypeOK ==
    /\ SRTypeOK
    /\ intents            \in [Intent -> IntentRecord]
    /\ bids               \in [Intent -> Seq(BidRecord)]
    /\ bidCommitments     \in [Intent -> [Solver -> Offer \cup {Nil}]]
    /\ auctioneerBond     \in Nat
    /\ auctioneer         \in Auctioneers \cup {InitAuctioneer}
    /\ settlement         \in Settlements \cup {Settlement}
    /\ challengeRewardBps \in 0 .. BPS

\* The selection on record is the standing bid it names, made between the end
\* of the auction and the deadline; an open intent, first or reopened, names
\* nobody.  What settle reads (selectedBidOf) is thus always the winner's bid.
SelectionIsStanding ==
    \A i \in Intent :
        LET r == intents[i]
        IN  /\ r.status \in {"SELECTED", "FULFILLED"} =>
                  /\ r.selectedBid \in BidIds(i)
                  /\ Bid(i, r.selectedBid).solver = r.selectedSolver
                  /\ ~Bid(i, r.selectedBid).withdrawn
                  /\ r.auctionEndsAt <= r.selectedAt
                  /\ r.selectedAt <= r.deadline
            /\ r.status = "OPEN" => r.selectedSolver = Nil

\* A bid on the book is final: bids are only appended, none changes but to be
\* withdrawn, and both only while the intent is open and (except for the reveal
\* of a commitment) its auction is.
BookStepOK(i) ==
    bids'[i] /= bids[i] =>
       /\ StatusOf(i) = "OPEN"
       /\ now <= intents[i].auctionEndsAt + REVEAL_WINDOW
       /\ Len(bids'[i]) >= Len(bids[i])
       /\ \A b \in BidIds(i) :
             LET bid == bids'[i][b + 1]
             IN  /\ bid.solver = Bid(i, b).solver
                 /\ bid.offer  = Bid(i, b).offer
                 /\ bid.withdrawn /= Bid(i, b).withdrawn =>
                       bid.withdrawn /\ now <= intents[i].auctionEndsAt

BidBookIsAppendOnly == [][\A i \in Intent : BookStepOK(i)]_vars

\* A standing bid of another solver dominates the selected one.
Beaten(i) ==
    \E b \in BidIds(i) :
        /\ ~Bid(i, b).withdrawn
        /\ Bid(i, b).solver /= Bid(i, intents[i].selectedBid).solver
        /\ Dominates(Bid(i, b).offer, Bid(i, intents[i].selectedBid).offer)

\* The auctioneer's bond is never cut for a choice that was right when it was
\* made: a selection no standing bid dominates stays undominated as long as it
\* stands, and goes back to auction only by its solver's own failure.
ChoiceStepOK(i) ==
    StatusOf(i) = "SELECTED" /\ ~Beaten(i) =>
       /\ intents'[i].status = "SELECTED" => ~Beaten(i)'
       /\ intents'[i].status = "OPEN" =>
             solvers'[intents[i].selectedSolver].failed =
             solvers[intents[i].selectedSolver].failed + 1

RightChoiceIsSafe == [][\A i \in Intent : ChoiceStepOK(i)]_vars

\* A bond falls only for a cause: its solver's withdrawal on a ripe ticket, a
\* new registration over a residue, or an engagement of that very solver ending
\* in a miss, which costs it MISS_SLASH_BPS of the bond and no more.  And every
\* such miss is recorded and costs that, whatever withdrawal is pending: only a
\* challenge, which takes a bid that beats it, sends an engaged intent back to
\* auction for free, and no failure is recorded but with its share.
EndsInMiss(i, s) ==
    /\ StatusOf(i) = "SELECTED"
    /\ intents[i].selectedSolver = s
    /\ intents'[i].status \in {"OPEN", "EXPIRED"}

PaysForMiss(s) ==
    /\ solvers[s].bond - solvers'[s].bond = MissShare(s)
    /\ solvers'[s].failed = solvers[s].failed + 1
    /\ \E i \in Intent : EndsInMiss(i, s)

BondStepOK(s) ==
    solvers'[s].bond < solvers[s].bond =>
       \/ unbondReadyAt[s] \in 1 .. now /\ unbondReadyAt'[s] = 0
       \/ ~solvers[s].registered /\ solvers'[s].registered
       \/ PaysForMiss(s)

Unexcused(i, s) == EndsInMiss(i, s) /\ (intents'[i].status = "OPEN" => ~Beaten(i))

MissStepOK(s) ==
    solvers'[s].failed /= solvers[s].failed \/ (\E i \in Intent : Unexcused(i, s)) =>
       PaysForMiss(s)

BondsStepOK == \A s \in Solver : BondStepOK(s) /\ MissStepOK(s)

BondFallsForCause == [][BondsStepOK]_vars

\* Implementation of the abstract market: the status is the phase, the selected
\* solver is engaged while the status is SELECTED, and the solver registry's
\* counters are the record of kept and missed engagements.
Market == INSTANCE IntentMarket WITH
    phase   <- [i \in Intent |-> intents[i].status],
    engaged <- [i \in Intent |-> IF intents[i].status = "SELECTED"
                                  THEN intents[i].selectedSolver ELSE Nil],
    due     <- [i \in Intent |-> intents[i].deadline],
    clock   <- now,
    kept    <- [s \in Solver |-> solvers[s].fulfilled],
    missed  <- [s \in Solver |-> solvers[s].failed]

ImplementsMarket == Market!Spec

\* What the comment on REVEAL_WINDOW says: for that long after the close a
\* committed bid may reveal.  So while it lasts, an intent nobody cancelled is
\* open as long as a registered solver holds a commitment to it.
RevealWindowIsOpen ==
    \A i \in Intent, s \in Solver :
        /\ bidCommitments[i][s] /= Nil
        /\ IsActive(s)
        /\ now > intents[i].auctionEndsAt
        /\ now <= intents[i].auctionEndsAt + REVEAL_WINDOW
        => StatusOf(i) \in {"OPEN", "CANCELLED"}

-----------------------------------------------------------------------------
(* Liveness.  Time passes, and expire is permissionless: somebody calls it for *)
(* every intent for which it would not revert.                                 *)

Fairness == /\ WF_vars(Tick /\ UNCHANGED intentVars)
            /\ \A i \in Intent : WF_vars(Expire(i))

\* An intent whose expire reverts: its selected solver has left the register or
\* can no longer be reported on, or the share of its bond is owed to an account
\* that refuses it.
Orphaned(i) ==
    /\ StatusOf(i) = "SELECTED"
    /\ LET s == intents[i].selectedSolver
       IN  \/ ~solvers[s].registered
           \/ ~isReporter
           \/ MissShare(s) > 0 /\ Payee(i, s) \in RefusesEther

\* Every live intent ends, unless it is orphaned again and again: no other state
\* of the auction, of the bonds or of the roles keeps expire from retiring it.
RetiresUnlessOrphaned ==
    \A i \in Intent : <>[]~Orphaned(i) => (StatusOf(i) \in Live ~> StatusOf(i) \in Terminal)

\* What intent-standard.md says: expire is permissionless once the deadline
\* passes, and marks down a solver that won and walked.  So every live intent
\* ends.
Retires == \A i \in Intent : StatusOf(i) \in Live ~> StatusOf(i) \in Terminal
=============================================================================
