---------------------------- MODULE Coordinator ----------------------------
(***************************************************************************)
(* The auctioneer's service on top of the registries.  A pass is one call  *)
(* of Coordinator.close: a chain of awaited reads (the record, the time,   *)
(* the bid count, each bid, each solver's score), a choice made on what    *)
(* was read, and one transaction.  Between any two of these steps anybody  *)
(* else's transactions land and the clock moves, and passes overlap: the   *)
(* timer starts one every two seconds and a route starts more.             *)
(*                                                                         *)
(* Abstracted: valuation.  Quotes order the bids, and rule out those that  *)
(* cannot be priced, in any way.  A record's auctionEndsAt and deadline    *)
(* never change once it is submitted, so a pass reads them where it needs  *)
(* them.  A pass reads the score of a solver with several bids once, and a  *)
(* score still on its way when the pass throws is not kept.  The client's  *)
(* second attempt, for registries older than selectWinnerChecked, is left  *)
(* out.                                                                    *)
(***************************************************************************)
EXTENDS IntentRegistry

CONSTANTS
    Call,       \* the calls of close that may be under way at a time
    MaxLead     \* how far chainNow may be ahead of the next block, in ticks

ASSUME CoordinatorAssumption ==
    /\ MaxLead \in Nat
    /\ Nil \notin Score

VARIABLES
    passes,             \* the state of each call of close
    reputationCache     \* the scores read since the last refresh

cVars   == <<passes, reputationCache>>
allVars == <<vars, cVars>>

\* unsaved holds the solvers whose score came off the register and is yet to be put
\* in the cache.  readAt is a history variable: the chain's time when the bids were
\* counted.
Idle == [at |-> "idle", intent |-> Nil, policy |-> Nil, count |-> 0, seen |-> << >>,
         scores |-> [s \in Solver |-> Nil], unsaved |-> {}, winner |-> 0, readAt |-> 0]

CInit ==
    /\ Init
    /\ passes          = [p \in Call |-> Idle]
    /\ reputationCache = [s \in Solver |-> Nil]

\* The pass returns, with a winner or without.
Return(p) == passes' = [passes EXCEPT ![p] = Idle]

-----------------------------------------------------------------------------
(* Reading. *)

\* getIntent; a caller supplies the draft, whose policy need not be the one the
\* intent committed to.
ReadRecord(p, i, policy) ==
    /\ passes[p].at = "idle"
    /\ StatusOf(i) = "OPEN"
    /\ passes' = [passes EXCEPT ![p] = [Idle EXCEPT !.at     = "timing",
                                                    !.intent = i,
                                                    !.policy = policy]]
    /\ UNCHANGED <<vars, reputationCache>>

\* chainNow is the latest of the head, the pending block and the wall clock.
ReadTime(p) ==
    /\ passes[p].at = "timing"
    /\ \E t \in now .. now + MaxLead :
          IF /\ t > intents[passes[p].intent].auctionEndsAt
             /\ t <= intents[passes[p].intent].deadline
            THEN passes' = [passes EXCEPT ![p].at = "counting"]
            ELSE Return(p)
    /\ UNCHANGED <<vars, reputationCache>>

\* getBids, first its bidCount and then one getBid after the other.
ReadCount(p) ==
    LET count == Len(bids[passes[p].intent])
    IN  /\ passes[p].at = "counting"
        /\ IF count = 0 THEN Return(p)
           ELSE passes' = [passes EXCEPT ![p].at     = "fetching",
                                         ![p].count  = count,
                                         ![p].readAt = now]
        /\ UNCHANGED <<vars, reputationCache>>

ReadBid(p) ==
    LET next == Len(passes[p].seen) + 1
    IN  /\ passes[p].at = "fetching"
        /\ passes' = [passes EXCEPT
                        ![p].seen = Append(@, bids[passes[p].intent][next]),
                        ![p].at   = IF next = passes[p].count THEN "ranking" ELSE @]
        /\ UNCHANGED <<vars, reputationCache>>

\* reputationOf, up to its await: the cached score, or the one on the register.
ReadScore(p, s) ==
    LET cached == reputationCache[s] /= Nil
    IN  /\ passes[p].at = "ranking"
        /\ passes[p].scores[s] = Nil
        /\ \E b \in DOMAIN passes[p].seen : passes[p].seen[b].solver = s
        /\ passes' = [passes EXCEPT
                        ![p].scores[s] = IF cached THEN reputationCache[s]
                                         ELSE solvers[s].reputationBps,
                        ![p].unsaved   = IF cached THEN @ ELSE @ \cup {s}]
        /\ UNCHANGED <<vars, reputationCache>>

\* reputationOf, once its await is over: what was read is cached, though the cache
\* was dropped, or the score has moved, since.
KeepScore(p, s) ==
    /\ s \in passes[p].unsaved
    /\ reputationCache' = [reputationCache EXCEPT ![s] = passes[p].scores[s]]
    /\ passes' = [passes EXCEPT ![p].unsaved = @ \ {s}]
    /\ UNCHANGED vars

\* The timer drops the cache, whatever passes are under way.
Refresh ==
    /\ reputationCache' = [s \in Solver |-> Nil]
    /\ UNCHANGED <<vars, passes>>

-----------------------------------------------------------------------------
(* Choosing and writing. *)

\* Broken, for a mutant: the fee cap of the draft is not looked at.
Eligible_AnyFee(p, b) ==
    LET bid == passes[p].seen[b]
    IN  /\ ~bid.withdrawn
        /\ passes[p].scores[bid.solver] >= passes[p].policy.minReputationBps

\* rankBids: the bids of the snapshot it does not mark ineligible.
Eligible(p, b) ==
    LET bid == passes[p].seen[b]
    IN  /\ ~bid.withdrawn
        /\ bid.offer.feeBps <= passes[p].policy.maxFeeBps
        /\ passes[p].scores[bid.solver] >= passes[p].policy.minReputationBps

\* Broken, for a mutant: an ineligible bid is not held against the candidate.
Dominated_ByEligible(p, b) ==
    LET seen == passes[p].seen
    IN  \E c \in DOMAIN seen :
            /\ Eligible(p, c)
            /\ seen[c].solver /= seen[b].solver
            /\ Dominates(seen[c].offer, seen[b].offer)

\* findDominatingBid, over the whole snapshot: an ineligible bid counts.
Dominated(p, b) ==
    LET seen == passes[p].seen
    IN  \E c \in DOMAIN seen :
            /\ ~seen[c].withdrawn
            /\ seen[c].solver /= seen[b].solver
            /\ Dominates(seen[c].offer, seen[b].offer)

\* Every score the ranking needs is in.
Ranked(p) ==
    /\ passes[p].at = "ranking"
    /\ passes[p].unsaved = {}
    /\ \A b \in DOMAIN passes[p].seen : passes[p].scores[passes[p].seen[b].solver] /= Nil

\* selectWinnerFrom: the first eligible bid, in the order of the ranking, that
\* nothing in the snapshot dominates.
PickWinner(p) ==
    /\ Ranked(p)
    /\ \E b \in DOMAIN passes[p].seen :
          /\ Eligible(p, b)
          /\ ~Dominated(p, b)
          /\ passes' = [passes EXCEPT ![p].at = "writing", ![p].winner = b - 1]
    /\ UNCHANGED <<vars, reputationCache>>

\* No eligible bid, every one dominated, or none that can be priced.
PickNobody(p) ==
    /\ Ranked(p)
    /\ Return(p)
    /\ UNCHANGED <<vars, reputationCache>>

\* The auctioneer's transaction, on the snapshot's bid id.
Land(p) ==
    LET pass == passes[p]
    IN  /\ pass.at = "writing"
        /\ SelectWinnerChecked(pass.intent, pass.winner, InitAuctioneer, pass.policy)
        /\ Return(p)
        /\ UNCHANGED reputationCache

\* A call fails and the pass with it: a read is refused, the transaction reverts
\* (in its simulation or in its block) or is never mined.
Throw(p) ==
    /\ passes[p].at /= "idle"
    /\ Return(p)
    /\ UNCHANGED <<vars, reputationCache>>

PassStep(p) ==
    \/ \E i \in Intent, policy \in Policy : ReadRecord(p, i, policy)
    \/ ReadTime(p) \/ ReadCount(p) \/ ReadBid(p)
    \/ \E s \in Solver : ReadScore(p, s) \/ KeepScore(p, s)
    \/ PickWinner(p) \/ PickNobody(p)
    \/ Land(p) \/ Throw(p)

\* The auctioneer that answers for a selection, unless its owner made it or its
\* integrator.
ByAuctioneer(r) == r.status = "SELECTED" /\ ~r.ownerSelected /\ r.integrator = Nil

\* Everybody else's transactions, and time: the auctioneer's key is used by the
\* service alone.
OthersStep ==
    /\ Next
    /\ \A i \in Intent : ByAuctioneer(intents[i])' => ByAuctioneer(intents[i])
    /\ UNCHANGED cVars

CNext == (\E p \in Call : PassStep(p)) \/ Refresh \/ OthersStep

CSpec == CInit /\ [][CNext]_allVars
-----------------------------------------------------------------------------
(* Properties. *)

\* What a pass has read is still true of the book, whatever has landed since:
\* its bids are the first of the book, unchanged but for withdrawals, and a
\* pass that has its winner has read as many bids as it counted.
SnapshotIsOfTheBook ==
    \A p \in Call :
        LET pass == passes[p]
        IN  pass.at \in {"fetching", "ranking", "writing"} =>
              /\ Len(pass.seen) <= pass.count
              /\ pass.count <= Len(bids[pass.intent])
              /\ pass.at \in {"ranking", "writing"} => Len(pass.seen) = pass.count
              /\ \A b \in DOMAIN pass.seen :
                    LET bid == bids[pass.intent][b]
                    IN  /\ bid.solver = pass.seen[b].solver
                        /\ bid.offer  = pass.seen[b].offer
                        /\ pass.seen[b].withdrawn => bid.withdrawn

\* The bid a pass is about to select cannot cost the auctioneer its bond, if it
\* was chosen among bids counted when the reveals were over: no standing bid
\* dominates it, however old the snapshot is when the transaction lands.
LateReadsAreSafe ==
    \A p \in Call :
        LET pass == passes[p]
        IN  /\ pass.at = "writing"
            /\ pass.readAt > intents[pass.intent].auctionEndsAt + REVEAL_WINDOW
            => \A b \in BidIds(pass.intent) :
                  /\ ~Bid(pass.intent, b).withdrawn
                  /\ Bid(pass.intent, b).solver /= Bid(pass.intent, pass.winner).solver
                  => ~Dominates(Bid(pass.intent, b).offer,
                                Bid(pass.intent, pass.winner).offer)

\* The auctioneer selects nobody whose fee settlement would refuse.  Only the
\* service tests the fee, against the draft it was handed; only the contract
\* tests that the draft is the intent's.
FeeIsWithinTheCap ==
    \A i \in Intent : ByAuctioneer(intents[i]) =>
        Bid(i, intents[i].selectedBid).offer.feeBps <= intents[i].policy.maxFeeBps

\* What the comment in auction.ts says: a coordinator that would pick a dominated
\* bid is stopped before it is punished on chain.  So no selection it has made is
\* one a challenge would overturn.
SelectionsAreUnbeaten ==
    \A i \in Intent : ByAuctioneer(intents[i]) => ~Beaten(i)
=============================================================================
