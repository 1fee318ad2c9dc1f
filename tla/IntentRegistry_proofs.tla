------------------------ MODULE IntentRegistry_proofs ------------------------
(***************************************************************************)
(* The intent registry's invariants and action properties, and that it     *)
(* implements the abstract market, for every set of intents, solvers,      *)
(* offers and policies, every timing constant and every choice of          *)
(* governance.                                                             *)
(***************************************************************************)
EXTENDS IntentRegistry, SolverRegistry_proofs

(* The inductive invariant: the solver registry's, the types of this           *)
(* contract's own state, and, pointwise, a selection that stands in its book.  *)

BookTypeOK ==
    /\ intents            \in [Intent -> IntentRecord]
    /\ bids               \in [Intent -> Seq(BidRecord)]
    /\ bidCommitments     \in [Intent -> [Solver -> Offer \cup {Nil}]]

RoleTypeOK ==
    /\ auctioneerBond     \in Nat
    /\ auctioneer         \in Auctioneers \cup {InitAuctioneer}
    /\ settlement         \in Settlements \cup {Settlement}
    /\ challengeRewardBps \in 0 .. BPS

Standing(r, book) ==
    /\ r.status \in {"SELECTED", "FULFILLED"} =>
          /\ r.selectedBid \in 0 .. Len(book) - 1
          /\ book[r.selectedBid + 1].solver = r.selectedSolver
          /\ ~book[r.selectedBid + 1].withdrawn
          /\ r.auctionEndsAt <= r.selectedAt
          /\ r.selectedAt <= r.deadline
    /\ r.status = "OPEN" => r.selectedSolver = Nil

BookInv ==
    /\ BookTypeOK
    /\ \A i \in Intent : Standing(intents[i], bids[i])

IRInv == SRInv /\ BookInv /\ RoleTypeOK

LEMMA IRInvImplies == IRInv => TypeOK /\ SelectionIsStanding
<1>1. SRInv /\ BookTypeOK /\ RoleTypeOK => TypeOK
  BY DEF SRInv, BookTypeOK, RoleTypeOK, TypeOK
<1>2. BookInv => SelectionIsStanding
  BY DEF BookInv, SelectionIsStanding, Standing, BidIds, Bid
<1>3. QED
  BY <1>1, <1>2 DEF IRInv, BookInv

LEMMA InitInv == Init => IRInv
<1> SUFFICES ASSUME Init PROVE IRInv
  OBVIOUS
<1>1. SRInv
  BY SRInitInv DEF Init
<1>2. NoIntent \in IntentRecord
  BY DEF NoIntent, IntentRecord, Status
<1>3. BookTypeOK
  BY <1>2 DEF Init, BookTypeOK
<1>4. \A i \in Intent : Standing(intents[i], bids[i])
  BY DEF Init, Standing, NoIntent
<1>5. RoleTypeOK
  BY DEF Init, RoleTypeOK, BPS
<1>6. QED
  BY <1>1, <1>3, <1>4, <1>5 DEF IRInv, BookInv

-----------------------------------------------------------------------------
(* The three kinds of step, by what they write. *)

\* One intent's record, by a record that stands in its book.
LEMMA OneIntentStep ==
    ASSUME BookInv, NEW i \in Intent, NEW r \in IntentRecord,
           Standing(r, bids[i]),
           intents' = [intents EXCEPT ![i] = r],
           UNCHANGED <<bids, bidCommitments>>
    PROVE  BookInv'
<1>1. BookTypeOK'
  BY DEF BookInv, BookTypeOK
<1>2. ASSUME NEW j \in Intent PROVE Standing(intents'[j], bids'[j])
  <2>1. CASE j = i
    BY <2>1 DEF BookInv, BookTypeOK
  <2>2. CASE j /= i
    BY <2>2 DEF BookInv, BookTypeOK
  <2>3. QED
    BY <2>1, <2>2
<1>3. QED
  BY <1>1, <1>2 DEF BookInv, Standing

\* One open intent's book.
LEMMA OneBookStep ==
    ASSUME BookInv, NEW i \in Intent, NEW book \in Seq(BidRecord),
           StatusOf(i) = "OPEN",
           bids' = [bids EXCEPT ![i] = book],
           UNCHANGED intents,
           bidCommitments' \in [Intent -> [Solver -> Offer \cup {Nil}]]
    PROVE  BookInv'
<1>1. BookTypeOK'
  BY DEF BookInv, BookTypeOK
<1>2. ASSUME NEW j \in Intent PROVE Standing(intents'[j], bids'[j])
  <2>1. CASE j = i
    BY <2>1 DEF BookInv, BookTypeOK, Standing, StatusOf
  <2>2. CASE j /= i
    BY <2>2 DEF BookInv, BookTypeOK
  <2>3. QED
    BY <2>1, <2>2
<1>3. QED
  BY <1>1, <1>2 DEF BookInv, Standing

\* None of them.
LEMMA NoBookStep ==
    ASSUME BookInv, UNCHANGED <<intents, bids, bidCommitments>>
    PROVE  BookInv'
BY DEF BookInv, BookTypeOK, Standing

LEMMA SameRoles ==
    ASSUME RoleTypeOK, UNCHANGED <<auctioneerBond, roleVars>>
    PROVE  RoleTypeOK'
BY DEF RoleTypeOK, roleVars

-----------------------------------------------------------------------------
(* Facts about the helpers. *)

LEMMA BidFacts ==
    ASSUME BookTypeOK, NEW i \in Intent, NEW b \in BidIds(i)
    PROVE  /\ b \in Nat /\ b + 1 \in 1 .. Len(bids[i])
           /\ Bid(i, b) \in BidRecord
           /\ Bid(i, b).solver \in Solver
           /\ Bid(i, b).offer \in Offer
           /\ Bid(i, b).withdrawn \in BOOLEAN
<1>1. bids[i] \in Seq(BidRecord)
  BY DEF BookTypeOK
<1>2. b \in Nat /\ b + 1 \in 1 .. Len(bids[i])
  BY <1>1 DEF BidIds
<1>3. Bid(i, b) \in BidRecord
  BY <1>1, <1>2 DEF Bid
<1>4. QED
  BY <1>2, <1>3 DEF BidRecord

\* The solver an intent has selected is a solver: the one of a standing bid.
LEMMA WinnerFacts ==
    ASSUME BookInv, NEW i \in Intent, StatusOf(i) = "SELECTED"
    PROVE  /\ intents[i].selectedSolver \in Solver
           /\ intents[i].selectedBid \in BidIds(i)
           /\ Bid(i, intents[i].selectedBid).solver = intents[i].selectedSolver
           /\ ~Bid(i, intents[i].selectedBid).withdrawn
           /\ intents[i].auctionEndsAt <= intents[i].selectedAt
           /\ intents[i].selectedAt <= intents[i].deadline
<1>1. Standing(intents[i], bids[i]) /\ intents[i].status = "SELECTED"
  BY DEF BookInv, StatusOf
<1>2. /\ intents[i].selectedBid \in BidIds(i)
      /\ Bid(i, intents[i].selectedBid).solver = intents[i].selectedSolver
      /\ ~Bid(i, intents[i].selectedBid).withdrawn
  BY <1>1 DEF Standing, BidIds, Bid
<1>3. intents[i].selectedSolver \in Solver
  BY <1>2, BidFacts DEF BookInv
<1>4. QED
  BY <1>1, <1>2, <1>3 DEF Standing

\* A share of at most BPS basis points of an amount is at most the amount.
LEMMA ShareFacts ==
    ASSUME NEW amount \in Nat, NEW bps \in 0 .. BPS
    PROVE  (amount * bps) \div BPS \in 0 .. amount
<1> DEFINE p == amount * bps
<1>1. bps \in Nat /\ 10000 - bps \in Nat /\ BPS = 10000
  BY DEF BPS
<1>2. p \in Nat /\ amount * (10000 - bps) \in Nat
  BY <1>1
<1>3. amount * (10000 - bps) = amount * 10000 - p
  BY <1>1
<1>4. p <= amount * 10000
  BY <1>2, <1>3
<1> HIDE DEF p
<1>5. p \div 10000 \in 0 .. amount
  BY <1>2, <1>4
<1>6. QED
  BY <1>1, <1>5 DEF p

LEMMA MissShareFacts ==
    ASSUME SRTypeOK, NEW s \in Solver
    PROVE  MissShare(s) \in 0 .. solvers[s].bond
<1>1. solvers[s].bond \in Nat
  BY RecordFields DEF SRTypeOK
<1>2. MISS_SLASH_BPS \in 0 .. BPS
  BY IntentRegistryAssumption
<1>3. QED
  BY <1>1, <1>2, ShareFacts DEF MissShare

\* What a miss makes of the record of the solver: one failure, and a bond
\* smaller by exactly the share.
LEMMA MissFacts ==
    ASSUME SRInv, NEW s \in Solver
    PROVE  LET reported == AfterOutcome(solvers[s], FALSE)
               new      == AfterSlash(reported, MissShare(s))
           IN  /\ new \in SolverRecord
               /\ Taken(reported, MissShare(s)) = MissShare(s)
               /\ new.bond = solvers[s].bond - MissShare(s)
               /\ new.failed = solvers[s].failed + 1
               /\ new.fulfilled = solvers[s].fulfilled
<1> DEFINE rec == solvers[s]
           reported == AfterOutcome(rec, FALSE)
           share == MissShare(s)
           new == AfterSlash(reported, share)
<1>1. rec \in SolverRecord /\ minBond \in Nat /\ share \in 0 .. rec.bond
  BY MissShareFacts DEF SRInv, SRTypeOK
<1>2. share \in Nat /\ rec.bond \in Nat
  BY <1>1, RecordFields
<1>3. /\ reported \in SolverRecord
      /\ reported.bond = rec.bond
      /\ reported.failed = rec.failed + 1
      /\ reported.fulfilled = rec.fulfilled
  BY <1>1, FailureFacts
<1> HIDE DEF reported, share
<1>4. Taken(reported, share) = share
  BY <1>1, <1>2, <1>3 DEF Taken
<1>5. /\ new \in SolverRecord
      /\ new.bond = reported.bond - Taken(reported, share)
      /\ new.fulfilled = reported.fulfilled
      /\ new.failed = reported.failed
  BY <1>1, <1>2, <1>3, SlashFacts
<1> HIDE DEF new
<1>6. QED
  BY <1>3, <1>4, <1>5 DEF new, reported, share

LEMMA PunishMissInv ==
    ASSUME SRInv, NEW i, NEW s \in Solver, PunishMiss(i, s)
    PROVE  SRInv'
<1> DEFINE reported == AfterOutcome(solvers[s], FALSE)
           share == MissShare(s)
           new == AfterSlash(reported, share)
           ether == escrow[s] - share
<1>1. /\ escrow[s] \in Nat /\ RecordOK(solvers[s], escrow[s])
      /\ minBond \in Nat /\ minBond \in {InitMinBond} \cup MinBonds
      /\ solvers[s].bond \in Nat
  BY RecordFields DEF SRInv, SRTypeOK
<1>2. RecordOK(reported, escrow[s])
  BY <1>1, FailureOK
<1>3. share \in Nat
  BY <1>1, MissShareFacts DEF SRInv
<1>4. Taken(reported, share) = share
  BY MissFacts
<1>5. ether \in Nat /\ RecordOK(new, ether)
  <2> HIDE DEF reported, share
  <2>1. /\ escrow[s] - Taken(reported, share) \in Nat
        /\ RecordOK(AfterSlash(reported, share), escrow[s] - Taken(reported, share))
    BY <1>1, <1>2, <1>3, SlashOK
  <2>2. QED
    BY <1>4, <2>1
<1>6. solvers' = [solvers EXCEPT ![s] = new] /\ escrow' = [escrow EXCEPT ![s] = ether]
  BY <1>1 DEF PunishMiss, SRInv, SRTypeOK
<1>7. unbondReadyAt' \in [Solver -> Nat]
  BY DEF PunishMiss, SRInv, SRTypeOK
<1> HIDE DEF new, ether
<1>8. QED
  BY <1>5, <1>6, <1>7, OneRecordStep DEF PunishMiss

-----------------------------------------------------------------------------
(* One lemma per operation of an intent. *)

LEMMA DeclareInv ==
    ASSUME IRInv, NEW i \in Intent, Declare(i)
    PROVE  IRInv'
<1> PICK owner \in Owner, integrator \in Integrator \cup {Nil}, policy \in Policy,
         legs \in {Len(o.guaranteedOut) : o \in Offer}, ends \in Ticks, deadline \in Ticks :
         Submit(i, owner, integrator, legs, policy, ends, deadline)
  BY DEF Declare
<1> DEFINE r == [NoIntent EXCEPT !.status        = "OPEN",
                                 !.owner         = owner,
                                 !.integrator    = integrator,
                                 !.legCount      = legs,
                                 !.policy        = policy,
                                 !.auctionEndsAt = ends,
                                 !.deadline      = deadline]
<1>1. legs \in Nat /\ ends \in Nat /\ deadline \in Nat
  BY IntentRegistryAssumption
<1>2. r \in IntentRecord /\ r.status = "OPEN" /\ r.selectedSolver = Nil
  BY <1>1 DEF NoIntent, IntentRecord, Status, Live
<1>3. intents' = [intents EXCEPT ![i] = r]
  BY DEF Submit
<1> HIDE DEF r
<1>4. Standing(r, bids[i])
  BY <1>2 DEF Standing
<1>5. BookInv'
  BY <1>2, <1>3, <1>4, OneIntentStep DEF Submit, IRInv
<1>6. QED
  BY <1>5, SRStutterInv, SameRoles DEF Submit, IRInv

\* The status alone moves to one that names no standing selection.
LEMMA RetireFacts ==
    ASSUME BookInv, NEW i \in Intent, NEW st \in {"CANCELLED", "EXPIRED"},
           intents' = [intents EXCEPT ![i].status = st],
           UNCHANGED <<bids, bidCommitments>>
    PROVE  BookInv'
<1> DEFINE r == [intents[i] EXCEPT !.status = st]
<1>1. intents[i] \in IntentRecord
  BY DEF BookInv, BookTypeOK
<1>2. r \in IntentRecord /\ r.status = st
  BY <1>1 DEF IntentRecord, Status, Terminal
<1>3. intents' = [intents EXCEPT ![i] = r]
  OBVIOUS
<1> HIDE DEF r
<1>4. Standing(r, bids[i])
  BY <1>2 DEF Standing
<1>5. QED
  BY <1>2, <1>3, <1>4, OneIntentStep

LEMMA CancelInv ==
    ASSUME IRInv, NEW i \in Intent, Cancel(i)
    PROVE  IRInv'
<1>1. BookInv'
  BY RetireFacts DEF Cancel, IRInv
<1>2. QED
  BY <1>1, SRStutterInv, SameRoles DEF Cancel, IRInv

LEMMA ExpireInv ==
    ASSUME IRInv, NEW i \in Intent, Expire(i)
    PROVE  IRInv'
<1>1. BookInv'
  BY RetireFacts DEF Expire, IRInv
<1>2. RoleTypeOK'
  BY SameRoles DEF Expire, IRInv
<1>3. SRInv'
  <2>1. CASE StatusOf(i) = "SELECTED"
    BY <2>1, WinnerFacts, PunishMissInv DEF Expire, IRInv
  <2>2. CASE StatusOf(i) /= "SELECTED"
    BY <2>2, SRStutterInv DEF Expire, IRInv
  <2>3. QED
    BY <2>1, <2>2
<1>4. QED
  BY <1>1, <1>2, <1>3 DEF IRInv

\* A new bid is appended to the book of an open intent.
LEMMA AppendFacts ==
    ASSUME BookTypeOK, NEW i \in Intent, NEW s \in Solver, NEW offer \in Offer
    PROVE  Append(bids[i], [solver |-> s, offer |-> offer, withdrawn |-> FALSE])
               \in Seq(BidRecord)
<1>1. [solver |-> s, offer |-> offer, withdrawn |-> FALSE] \in BidRecord
  BY DEF BidRecord
<1>2. QED
  BY <1>1 DEF BookTypeOK

LEMMA PlaceBidInv ==
    ASSUME IRInv, NEW i \in Intent, NEW s \in Solver, NEW offer \in Offer,
           PlaceBid(i, s, offer)
    PROVE  IRInv'
<1> DEFINE book == Append(bids[i], [solver |-> s, offer |-> offer, withdrawn |-> FALSE])
<1>1. book \in Seq(BidRecord)
  BY AppendFacts DEF IRInv, BookInv
<1>2. bids' = [bids EXCEPT ![i] = book] /\ StatusOf(i) = "OPEN" /\ UNCHANGED intents
  BY DEF PlaceBid, AuctionOpen
<1>3. bidCommitments' \in [Intent -> [Solver -> Offer \cup {Nil}]]
  BY DEF PlaceBid, IRInv, BookInv, BookTypeOK
<1> HIDE DEF book
<1>4. BookInv'
  BY <1>1, <1>2, <1>3, OneBookStep DEF IRInv
<1>5. QED
  BY <1>4, SRStutterInv, SameRoles DEF PlaceBid, IRInv

LEMMA CommitBidInv ==
    ASSUME IRInv, NEW i \in Intent, NEW s \in Solver, NEW offer \in Offer,
           CommitBid(i, s, offer)
    PROVE  IRInv'
<1>1. bidCommitments' \in [Intent -> [Solver -> Offer \cup {Nil}]]
  BY DEF CommitBid, IRInv, BookInv, BookTypeOK
<1>2. BookInv'
  BY <1>1 DEF CommitBid, IRInv, BookInv, BookTypeOK, Standing
<1>3. QED
  BY <1>2, SRStutterInv, SameRoles DEF CommitBid, IRInv

LEMMA RevealBidInv ==
    ASSUME IRInv, NEW i \in Intent, NEW s \in Solver, RevealBid(i, s)
    PROVE  IRInv'
<1> DEFINE offer == bidCommitments[i][s]
           book == Append(bids[i], [solver |-> s, offer |-> offer, withdrawn |-> FALSE])
<1>1. offer \in Offer
  BY DEF RevealBid, IRInv, BookInv, BookTypeOK
<1>2. book \in Seq(BidRecord)
  BY <1>1, AppendFacts DEF IRInv, BookInv
<1>3. bids' = [bids EXCEPT ![i] = book] /\ StatusOf(i) = "OPEN" /\ UNCHANGED intents
  BY DEF RevealBid
<1>4. bidCommitments' \in [Intent -> [Solver -> Offer \cup {Nil}]]
  BY DEF RevealBid, IRInv, BookInv, BookTypeOK
<1> HIDE DEF book
<1>5. BookInv'
  BY <1>2, <1>3, <1>4, OneBookStep DEF IRInv
<1>6. QED
  BY <1>5, SRStutterInv, SameRoles DEF RevealBid, IRInv

LEMMA WithdrawBidInv ==
    ASSUME IRInv, NEW i \in Intent, NEW b, WithdrawBid(i, b)
    PROVE  IRInv'
<1> DEFINE bid  == [Bid(i, b) EXCEPT !.withdrawn = TRUE]
           book == [bids[i] EXCEPT ![b + 1] = bid]
<1>1. b \in BidIds(i) /\ bids[i] \in Seq(BidRecord)
  BY DEF WithdrawBid, IRInv, BookInv, BookTypeOK
<1>2. Bid(i, b) \in BidRecord /\ b + 1 \in 1 .. Len(bids[i])
  BY <1>1, BidFacts DEF IRInv, BookInv
<1>3. bid \in BidRecord
  BY <1>2 DEF BidRecord
<1>4. bids' = [bids EXCEPT ![i] = book] /\ StatusOf(i) = "OPEN" /\ UNCHANGED intents
  BY DEF WithdrawBid, AuctionOpen, Bid
<1> HIDE DEF bid
<1>5. book \in Seq(BidRecord)
  BY <1>1, <1>2, <1>3
<1>6. bidCommitments' \in [Intent -> [Solver -> Offer \cup {Nil}]]
  BY DEF WithdrawBid, IRInv, BookInv, BookTypeOK
<1> HIDE DEF book
<1>7. BookInv'
  BY <1>4, <1>5, <1>6, OneBookStep DEF IRInv
<1>8. QED
  BY <1>7, SRStutterInv, SameRoles DEF WithdrawBid, IRInv

LEMMA SelectWinnerInv ==
    ASSUME IRInv, NEW i \in Intent, NEW b, NEW caller, SelectWinner(i, b, caller)
    PROVE  IRInv'
<1> DEFINE byOwner == caller = intents[i].owner
           s == Bid(i, b).solver
           r == [intents[i] EXCEPT !.status = "SELECTED", !.selectedSolver = s,
                                   !.selectedBid = b, !.ownerSelected = byOwner,
                                   !.selectedAt = now]
<1>1. intents[i] \in IntentRecord /\ now \in Nat /\ byOwner \in BOOLEAN
  BY DEF IRInv, BookInv, BookTypeOK, SRInv, SRTypeOK
<1>2. b \in BidIds(i) /\ b \in Nat /\ s \in Solver
  BY BidFacts DEF SelectWinner, IRInv, BookInv
<1>3. intents' = [intents EXCEPT ![i] = r]
  BY DEF SelectWinner, Selected
<1> HIDE DEF byOwner, s
<1>4. r \in IntentRecord
  BY <1>1, <1>2 DEF IntentRecord, Status, Live
<1>5. /\ r.status = "SELECTED" /\ r.selectedSolver = s /\ r.selectedBid = b
      /\ r.selectedAt = now
      /\ r.auctionEndsAt = intents[i].auctionEndsAt
      /\ r.deadline = intents[i].deadline
  BY <1>1 DEF IntentRecord
<1> HIDE DEF r
<1>6. Standing(r, bids[i])
  BY <1>2, <1>5 DEF Standing, SelectWinner, BidIds, Bid, s
<1>7. BookInv'
  BY <1>3, <1>4, <1>6, OneIntentStep DEF SelectWinner, IRInv
<1>8. QED
  BY <1>7, SRStutterInv, SameRoles DEF SelectWinner, IRInv

\* A reopened intent names nobody.
LEMMA ReopenedFacts ==
    ASSUME NEW r \in IntentRecord
    PROVE  /\ Reopened(r) \in IntentRecord
           /\ Reopened(r).status = "OPEN"
           /\ Reopened(r).selectedSolver = Nil
           /\ [Reopened(r) EXCEPT !.selectedAt = 0] \in IntentRecord
           /\ [Reopened(r) EXCEPT !.selectedAt = 0].status = "OPEN"
           /\ [Reopened(r) EXCEPT !.selectedAt = 0].selectedSolver = Nil
<1> DEFINE open == [r EXCEPT !.status = "OPEN", !.selectedSolver = Nil, !.selectedBid = 0]
<1>1. open \in IntentRecord /\ open.status = "OPEN" /\ open.selectedSolver = Nil
  BY DEF IntentRecord, Status, Live
<1>2. Reopened(r) = open
  BY DEF Reopened
<1> HIDE DEF open
<1> DEFINE fresh == [open EXCEPT !.selectedAt = 0]
<1>3. fresh \in IntentRecord /\ fresh.status = "OPEN" /\ fresh.selectedSolver = Nil
  BY <1>1 DEF IntentRecord
<1>4. QED
  BY <1>1, <1>2, <1>3

LEMMA ReopenStep ==
    ASSUME BookInv, NEW i \in Intent, NEW r \in IntentRecord,
           r.status = "OPEN", r.selectedSolver = Nil,
           intents' = [intents EXCEPT ![i] = r],
           UNCHANGED <<bids, bidCommitments>>
    PROVE  BookInv'
<1>1. Standing(r, bids[i])
  BY DEF Standing
<1>2. QED
  BY <1>1, OneIntentStep

LEMMA ChallengeSelectionInv ==
    ASSUME IRInv, NEW i \in Intent, NEW b, ChallengeSelection(i, b)
    PROVE  IRInv'
<1> DEFINE r == Reopened(intents[i])
           reward == (auctioneerBond * challengeRewardBps) \div BPS
<1>1. intents[i] \in IntentRecord
  BY DEF IRInv, BookInv, BookTypeOK
<1>2. r \in IntentRecord /\ r.status = "OPEN" /\ r.selectedSolver = Nil
  BY <1>1, ReopenedFacts
<1>3. intents' = [intents EXCEPT ![i] = r] /\ auctioneerBond' = auctioneerBond - reward
  BY DEF ChallengeSelection
<1>4. reward \in 0 .. auctioneerBond /\ auctioneerBond \in Nat
  BY ShareFacts DEF IRInv, RoleTypeOK
<1> HIDE DEF r, reward
<1>5. BookInv'
  BY <1>2, <1>3, ReopenStep DEF ChallengeSelection, IRInv
<1>6. auctioneerBond' \in Nat
  BY <1>3, <1>4
<1>7. RoleTypeOK'
  BY <1>6 DEF ChallengeSelection, IRInv, RoleTypeOK, roleVars
<1>8. SRInv'
  BY SRStutterInv DEF ChallengeSelection, IRInv
<1>9. QED
  BY <1>5, <1>7, <1>8 DEF IRInv

LEMMA SettleInv ==
    ASSUME IRInv, NEW i \in Intent, Settle(i)
    PROVE  IRInv'
<1> DEFINE s == intents[i].selectedSolver
           new == AfterOutcome(solvers[s], TRUE)
           r == [intents[i] EXCEPT !.status = "FULFILLED"]
<1>1. s \in Solver /\ StatusOf(i) = "SELECTED"
  BY WinnerFacts DEF Settle, IRInv
<1>2. SRInv'
  <2>1. escrow[s] \in Nat /\ RecordOK(solvers[s], escrow[s])
    BY <1>1 DEF IRInv, SRInv, SRTypeOK
  <2>2. RecordOK(new, escrow[s])
    BY <2>1, SuccessOK
  <2>3. solvers' = [solvers EXCEPT ![s] = new] /\ escrow' = [escrow EXCEPT ![s] = escrow[s]]
    BY <1>1, <2>1 DEF Settle, IRInv, SRInv, SRTypeOK
  <2>4. unbondReadyAt' \in [Solver -> Nat]
    BY DEF Settle, IRInv, SRInv, SRTypeOK
  <2> HIDE DEF new
  <2>5. QED
    BY <1>1, <2>1, <2>2, <2>3, <2>4, OneRecordStep DEF Settle, IRInv
<1>3. BookInv'
  <2>1. intents[i] \in IntentRecord /\ Standing(intents[i], bids[i])
    BY DEF IRInv, BookInv, BookTypeOK
  <2>2. r \in IntentRecord
    BY <2>1 DEF IntentRecord, Status, Terminal
  <2>3. /\ r.status = "FULFILLED"
        /\ r.selectedBid = intents[i].selectedBid
        /\ r.selectedSolver = intents[i].selectedSolver
        /\ r.auctionEndsAt = intents[i].auctionEndsAt
        /\ r.selectedAt = intents[i].selectedAt
        /\ r.deadline = intents[i].deadline
    BY <2>1 DEF IntentRecord
  <2>4. intents' = [intents EXCEPT ![i] = r]
    BY DEF Settle
  <2> HIDE DEF r
  <2>5. Standing(r, bids[i])
    BY <1>1, <2>1, <2>3 DEF Standing, StatusOf
  <2>6. QED
    BY <2>2, <2>4, <2>5, OneIntentStep DEF Settle, IRInv
<1>4. RoleTypeOK'
  BY SameRoles DEF Settle, IRInv
<1>5. QED
  BY <1>2, <1>3, <1>4 DEF IRInv

LEMMA ReportFailureInv ==
    ASSUME IRInv, NEW i \in Intent, ReportFailure(i)
    PROVE  IRInv'
<1> DEFINE r == [Reopened(intents[i]) EXCEPT !.selectedAt = 0]
<1>1. intents[i] \in IntentRecord
  BY DEF IRInv, BookInv, BookTypeOK
<1>2. r \in IntentRecord /\ r.status = "OPEN" /\ r.selectedSolver = Nil
  BY <1>1, ReopenedFacts
<1>3. intents' = [intents EXCEPT ![i] = r]
  BY DEF ReportFailure
<1> HIDE DEF r
<1>4. BookInv'
  BY <1>2, <1>3, ReopenStep DEF ReportFailure, IRInv
<1>5. SRInv'
  BY WinnerFacts, PunishMissInv DEF ReportFailure, IRInv
<1>6. RoleTypeOK'
  BY SameRoles DEF ReportFailure, IRInv
<1>7. QED
  BY <1>4, <1>5, <1>6 DEF IRInv

LEMMA IntentStepInv ==
    ASSUME IRInv, NEW i \in Intent, IntentStep(i)
    PROVE  IRInv'
<1>1. ASSUME Bidding(i) PROVE IRInv'
  <2>1. SealedOffer \subseteq Offer
    BY IntentRegistryAssumption
  <2>2. QED
    BY <1>1, <2>1, PlaceBidInv, CommitBidInv, RevealBidInv DEF Bidding
<1>2. ASSUME Choosing(i) PROVE IRInv'
  <2>1. ASSUME NEW b, NEW caller, NEW policy, SelectWinnerChecked(i, b, caller, policy)
        PROVE  IRInv'
    BY <2>1, SelectWinnerInv DEF SelectWinnerChecked
  <2>2. QED
    BY <1>2, <2>1, WithdrawBidInv, SelectWinnerInv, ChallengeSelectionInv DEF Choosing
<1>3. QED
  BY <1>1, <1>2, DeclareInv, CancelInv, ExpireInv, SettleInv, ReportFailureInv DEF IntentStep

LEMMA RegistryGovernanceInv ==
    ASSUME IRInv, RegistryGovernance
    PROVE  IRInv'
<1>1. UNCHANGED <<srVars, intents, bids, bidCommitments>>
  BY DEF RegistryGovernance, FundAuctioneerBond, WithdrawAuctioneerBond,
         SetAuctioneer, SetSettlement, SetChallengeRewardBps, roleVars
<1>2. SRInv' /\ BookInv'
  BY <1>1, SRStutterInv, NoBookStep DEF IRInv
<1>3. RoleTypeOK'
  <2>1. ASSUME NEW v \in Funding, FundAuctioneerBond(v) \/ WithdrawAuctioneerBond(v)
        PROVE  RoleTypeOK'
    <3>1. v \in Nat /\ auctioneerBond \in Nat
      BY IntentRegistryAssumption DEF IRInv, RoleTypeOK
    <3>2. auctioneerBond' \in Nat
      BY <2>1, <3>1 DEF FundAuctioneerBond, WithdrawAuctioneerBond
    <3>3. QED
      BY <2>1, <3>2 DEF FundAuctioneerBond, WithdrawAuctioneerBond, IRInv, RoleTypeOK, roleVars
  <2>2. ASSUME NEW a \in Auctioneers, SetAuctioneer(a) PROVE RoleTypeOK'
    BY <2>2 DEF SetAuctioneer, IRInv, RoleTypeOK
  <2>3. ASSUME NEW a \in Settlements, SetSettlement(a) PROVE RoleTypeOK'
    BY <2>3 DEF SetSettlement, IRInv, RoleTypeOK
  <2>4. ASSUME NEW bps \in RewardBps, SetChallengeRewardBps(bps) PROVE RoleTypeOK'
    BY <2>4, IntentRegistryAssumption DEF SetChallengeRewardBps, IRInv, RoleTypeOK
  <2>5. QED
    BY <2>1, <2>2, <2>3, <2>4 DEF RegistryGovernance
<1>4. QED
  BY <1>2, <1>3 DEF IRInv

LEMMA SolverRegistryStepInv ==
    ASSUME IRInv, SolverRegistryStep
    PROVE  IRInv'
<1>1. SRInv'
  BY SolverStepInv, GovernanceStepInv, TickInv DEF SolverRegistryStep, IRInv
<1>2. UNCHANGED <<intents, bids, bidCommitments>> /\ UNCHANGED <<auctioneerBond, roleVars>>
  BY DEF SolverRegistryStep, intentVars
<1>3. QED
  BY <1>1, <1>2, NoBookStep, SameRoles DEF IRInv

LEMMA NextInv == IRInv /\ [Next]_vars => IRInv'
<1> SUFFICES ASSUME IRInv, [Next]_vars PROVE IRInv'
  OBVIOUS
<1>1. CASE UNCHANGED vars
  <2>1. UNCHANGED srVars /\ UNCHANGED <<intents, bids, bidCommitments>>
        /\ UNCHANGED <<auctioneerBond, roleVars>>
    BY <1>1 DEF vars, intentVars
  <2>2. QED
    BY <2>1, SRStutterInv, NoBookStep, SameRoles DEF IRInv
<1>2. CASE Next
  BY <1>2, IntentStepInv, RegistryGovernanceInv, SolverRegistryStepInv DEF Next
<1>3. QED
  BY <1>1, <1>2

LEMMA Invariance == Spec => []IRInv
<1>1. Init => IRInv
  BY InitInv
<1>2. IRInv /\ [Next]_vars => IRInv'
  BY NextInv
<1>3. QED
  BY <1>1, <1>2, PTL DEF Spec

-----------------------------------------------------------------------------
\* Every reachable state of the two registries has its type.
THEOREM TypeCorrect == Spec => []TypeOK
<1>1. IRInv => TypeOK
  BY IRInvImplies
<1>2. QED
  BY <1>1, Invariance, PTL

\* Whatever the order of withdrawals, selections, challenges and failures, the
\* selection on record is the standing bid it names, made in time.
THEOREM SelectionStands == Spec => []SelectionIsStanding
<1>1. IRInv => SelectionIsStanding
  BY IRInvImplies
<1>2. QED
  BY <1>1, Invariance, PTL

-----------------------------------------------------------------------------
(* What no step may do: rewrite a bid, cut a bond without cause, or         *)
(* overturn a selection that was right.                                    *)

(* The frame of every step: which intent it writes, and which book. *)

\* The steps of an intent that leave its book alone, and the others'.
LEMMA OtherIntents ==
    ASSUME IRInv, NEW i \in Intent, IntentStep(i), NEW j \in Intent \ {i}
    PROVE  intents'[j] = intents[j] /\ bids'[j] = bids[j]
<1>1. intents \in [Intent -> IntentRecord] /\ bids \in [Intent -> Seq(BidRecord)]
  BY DEF IRInv, BookInv, BookTypeOK
<1>2. CASE Declare(i)
  BY <1>1, <1>2 DEF Declare, Submit
<1>3. CASE Cancel(i)
  BY <1>1, <1>3 DEF Cancel
<1>4. CASE Expire(i)
  BY <1>1, <1>4 DEF Expire
<1>5. CASE Bidding(i)
  BY <1>1, <1>5 DEF Bidding, PlaceBid, CommitBid, RevealBid
<1>6. CASE Choosing(i)
  BY <1>1, <1>6 DEF Choosing, WithdrawBid, ChallengeSelection, SelectWinner, SelectWinnerChecked
<1>7. CASE Settle(i)
  BY <1>1, <1>7 DEF Settle
<1>8. CASE ReportFailure(i)
  BY <1>1, <1>8 DEF ReportFailure
<1>9. QED
  BY <1>2, <1>3, <1>4, <1>5, <1>6, <1>7, <1>8 DEF IntentStep

\* The steps that belong to no intent.
LEMMA NoIntentStep ==
    ASSUME RegistryGovernance \/ SolverRegistryStep \/ UNCHANGED vars
    PROVE  UNCHANGED <<intents, bids, bidCommitments>>
BY DEF RegistryGovernance, FundAuctioneerBond, WithdrawAuctioneerBond,
       SetAuctioneer, SetSettlement, SetChallengeRewardBps,
       SolverRegistryStep, intentVars, vars

-----------------------------------------------------------------------------
(* Bids are final. *)

LEMMA AppendStep ==
    ASSUME IRInv, NEW i \in Intent, NEW bid \in BidRecord,
           bids' = [bids EXCEPT ![i] = Append(@, bid)]
    PROVE  /\ Len(bids'[i]) >= Len(bids[i])
           /\ \A b \in BidIds(i) : bids'[i][b + 1] = Bid(i, b)
<1>1. bids[i] \in Seq(BidRecord) /\ bids'[i] = Append(bids[i], bid)
  BY DEF IRInv, BookInv, BookTypeOK
<1>2. \A b \in BidIds(i) : b + 1 \in 1 .. Len(bids[i])
  BY <1>1 DEF BidIds
<1>3. QED
  BY <1>1, <1>2 DEF Bid

LEMMA BookStep ==
    ASSUME IRInv, NEW i \in Intent, IntentStep(i)
    PROVE  BookStepOK(i)
<1>1. now \in Nat /\ intents[i].auctionEndsAt \in Nat /\ REVEAL_WINDOW \in Nat
  BY IntentRegistryAssumption
     DEF IRInv, SRInv, SRTypeOK, BookInv, BookTypeOK, IntentRecord
<1>2. ASSUME NEW s \in Solver, NEW offer \in Offer, PlaceBid(i, s, offer)
      PROVE  BookStepOK(i)
  <2>1. [solver |-> s, offer |-> offer, withdrawn |-> FALSE] \in BidRecord
    BY DEF BidRecord
  <2>2. /\ Len(bids'[i]) >= Len(bids[i])
        /\ \A b \in BidIds(i) : bids'[i][b + 1] = Bid(i, b)
    BY <1>2, <2>1, AppendStep DEF PlaceBid
  <2>3. StatusOf(i) = "OPEN" /\ now <= intents[i].auctionEndsAt + REVEAL_WINDOW
    BY <1>1, <1>2 DEF PlaceBid, AuctionOpen
  <2>4. QED
    BY <2>2, <2>3 DEF BookStepOK
<1>3. ASSUME NEW s \in Solver, RevealBid(i, s)
      PROVE  BookStepOK(i)
  <2>1. bidCommitments[i][s] \in Offer
    BY <1>3 DEF RevealBid, IRInv, BookInv, BookTypeOK
  <2>2. [solver |-> s, offer |-> bidCommitments[i][s], withdrawn |-> FALSE] \in BidRecord
    BY <2>1 DEF BidRecord
  <2>3. /\ Len(bids'[i]) >= Len(bids[i])
        /\ \A b \in BidIds(i) : bids'[i][b + 1] = Bid(i, b)
    BY <1>3, <2>2, AppendStep DEF RevealBid
  <2>4. StatusOf(i) = "OPEN" /\ now <= intents[i].auctionEndsAt + REVEAL_WINDOW
    BY <1>3 DEF RevealBid
  <2>5. QED
    BY <2>3, <2>4 DEF BookStepOK
<1>4. ASSUME NEW b, WithdrawBid(i, b)
      PROVE  BookStepOK(i)
  <2>1. bids[i] \in Seq(BidRecord) /\ b \in BidIds(i)
    BY <1>4 DEF WithdrawBid, IRInv, BookInv, BookTypeOK
  <2>2. \A c \in BidIds(i) : c \in Nat /\ c + 1 \in 1 .. Len(bids[i]) /\ Bid(i, c) \in BidRecord
    BY BidFacts DEF IRInv, BookInv
  <2> DEFINE bid == [Bid(i, b) EXCEPT !.withdrawn = TRUE]
  <2>3. bid.solver = Bid(i, b).solver /\ bid.offer = Bid(i, b).offer /\ bid.withdrawn
    BY <2>1, <2>2 DEF BidRecord
  <2>4. bids'[i] = [bids[i] EXCEPT ![b + 1] = bid]
    BY <1>4 DEF WithdrawBid, Bid, IRInv, BookInv, BookTypeOK
  <2> HIDE DEF bid
  <2>5. Len(bids'[i]) = Len(bids[i])
    BY <2>1, <2>4
  <2>6. bids'[i][b + 1] = bid
    BY <2>1, <2>2, <2>4
  <2>7. \A c \in BidIds(i) \ {b} : bids'[i][c + 1] = Bid(i, c)
    BY <2>1, <2>2, <2>4 DEF Bid
  <2>8. /\ StatusOf(i) = "OPEN"
        /\ now <= intents[i].auctionEndsAt
        /\ now <= intents[i].auctionEndsAt + REVEAL_WINDOW
    BY <1>1, <1>4 DEF WithdrawBid, AuctionOpen
  <2>9. Len(bids'[i]) >= Len(bids[i])
    BY <2>1, <2>5
  <2>10. \A c \in BidIds(i) :
            /\ bids'[i][c + 1].solver = Bid(i, c).solver
            /\ bids'[i][c + 1].offer  = Bid(i, c).offer
            /\ bids'[i][c + 1] = Bid(i, c) \/ bids'[i][c + 1].withdrawn
    BY <2>3, <2>6, <2>7
  <2>11. QED
    BY <2>8, <2>9, <2>10 DEF BookStepOK
<1>5. CASE UNCHANGED bids
  BY <1>5 DEF BookStepOK
<1>6. QED
  <2>1. CASE Bidding(i)
    BY <1>2, <1>3, <1>5, <2>1 DEF Bidding, CommitBid
  <2>2. CASE Choosing(i)
    BY <1>4, <1>5, <2>2 DEF Choosing, ChallengeSelection, SelectWinner, SelectWinnerChecked
  <2>3. CASE Declare(i) \/ Cancel(i) \/ Expire(i) \/ Settle(i) \/ ReportFailure(i)
    BY <1>5, <2>3 DEF Declare, Submit, Cancel, Expire, Settle, ReportFailure
  <2>4. QED
    BY <2>1, <2>2, <2>3 DEF IntentStep

\* Bids are only appended or withdrawn, while the intent is open, and withdrawn
\* only while the auction is: nobody edits a bid it may be held to.
THEOREM BidsAreFinal == Spec => BidBookIsAppendOnly
<1>1. IRInv /\ [Next]_vars => \A i \in Intent : BookStepOK(i)
  <2> SUFFICES ASSUME IRInv, [Next]_vars, NEW i \in Intent PROVE BookStepOK(i)
    OBVIOUS
  <2>1. CASE IntentStep(i)
    BY <2>1, BookStep
  <2>2. ASSUME NEW j \in Intent \ {i}, IntentStep(j) PROVE BookStepOK(i)
    BY <2>2, OtherIntents DEF BookStepOK
  <2>3. CASE RegistryGovernance \/ SolverRegistryStep \/ UNCHANGED vars
    BY <2>3, NoIntentStep DEF BookStepOK
  <2>4. QED
    BY <2>1, <2>2, <2>3 DEF Next
<1>2. QED
  BY <1>1, Invariance, PTL DEF Spec, BidBookIsAppendOnly

-----------------------------------------------------------------------------
(* Bonds fall for cause. *)

LEMMA SolverBondStep ==
    ASSUME IRInv, SolverStep, NEW t \in Solver
    PROVE  BondStepOK(t)
<1> PICK s \in Solver :
        \/ \E v \in Amount : Register(s, v) \/ AddBond(s, v) \/ Unbond(s, v)
        \/ RequestUnbond(s)
        \/ \E caps \in SUBSET Cap : SetCapabilities(s, caps)
  BY DEF SolverStep
<1>1. /\ solvers \in [Solver -> SolverRecord]
      /\ unbondReadyAt \in [Solver -> Nat]
      /\ now \in Nat
  BY DEF IRInv, SRInv, SRTypeOK
<1>2. solvers[s] \in SolverRecord /\ solvers[s].bond \in Nat /\ solvers[t].bond \in Nat
  BY <1>1, RecordFields
<1>3. ASSUME solvers'[t].bond \in Int, solvers'[t].bond >= solvers[t].bond
      PROVE  BondStepOK(t)
  BY <1>2, <1>3 DEF BondStepOK
<1>4. ASSUME NEW v \in Amount, Register(s, v) PROVE BondStepOK(t)
  <2>1. v \in Nat
    BY SolverRegistryAssumption
  <2>2. AfterRegister(solvers[s], v).registered
    BY <1>2, <2>1, RegisterFacts
  <2>3. solvers' = [solvers EXCEPT ![s] = AfterRegister(solvers[s], v)]
    BY <1>4 DEF Register
  <2>4. CASE t = s
    <3>1. ~solvers[s].registered /\ solvers'[s].registered
      BY <1>1, <1>4, <2>2, <2>3 DEF Register
    <3>2. QED
      BY <2>4, <3>1 DEF BondStepOK
  <2>5. CASE t /= s
    BY <1>1, <1>2, <2>3, <2>5 DEF BondStepOK
  <2>6. QED
    BY <2>4, <2>5
<1>5. ASSUME NEW v \in Amount, AddBond(s, v) PROVE BondStepOK(t)
  <2>1. v \in Nat
    BY SolverRegistryAssumption
  <2>2. AfterDeposit(solvers[s], v).bond = solvers[s].bond + v
    BY <1>2, <2>1, DepositFacts
  <2>3. solvers' = [solvers EXCEPT ![s] = AfterDeposit(solvers[s], v)]
    BY <1>5 DEF AddBond
  <2>4. solvers'[t].bond \in Int /\ solvers'[t].bond >= solvers[t].bond
    BY <1>1, <1>2, <2>1, <2>2, <2>3
  <2>5. QED
    BY <1>3, <2>4
<1>6. ASSUME NEW v \in Amount, Unbond(s, v) PROVE BondStepOK(t)
  <2>1. unbondReadyAt[s] \in 1 .. now /\ unbondReadyAt'[s] = 0
    BY <1>1, <1>6 DEF Unbond
  <2>2. CASE t = s
    BY <2>1, <2>2 DEF BondStepOK
  <2>3. CASE t /= s
    BY <1>1, <1>2, <1>6, <2>3 DEF Unbond, BondStepOK
  <2>4. QED
    BY <2>2, <2>3
<1>7. CASE UNCHANGED solvers
  BY <1>2, <1>7 DEF BondStepOK
<1>8. QED
  BY <1>4, <1>5, <1>6, <1>7 DEF RequestUnbond, SetCapabilities

\* A miss of s costs s its share, and nobody else anything.
LEMMA MissBondStep ==
    ASSUME IRInv, NEW i \in Intent, NEW s \in Solver, PunishMiss(i, s),
           EndsInMiss(i, s), NEW t \in Solver
    PROVE  /\ t = s => PaysForMiss(t)
           /\ t /= s => solvers'[t] = solvers[t]
           /\ BondStepOK(t)
<1> DEFINE new == AfterSlash(AfterOutcome(solvers[s], FALSE), MissShare(s))
<1>1. solvers \in [Solver -> SolverRecord] /\ solvers[s].bond \in Nat /\ solvers[t].bond \in Nat
  BY RecordFields DEF IRInv, SRInv, SRTypeOK
<1>2. /\ new.bond = solvers[s].bond - MissShare(s)
      /\ new.failed = solvers[s].failed + 1
  BY MissFacts DEF IRInv
<1>3. MissShare(s) \in Int
  BY <1>1, MissShareFacts DEF IRInv, SRInv
<1>4. solvers' = [solvers EXCEPT ![s] = new]
  BY DEF PunishMiss
<1> HIDE DEF new
<1>5. CASE t = s
  <2>1. solvers'[s] = new
    BY <1>1, <1>4
  <2>2. solvers[s].bond - solvers'[s].bond = MissShare(s)
    BY <1>1, <1>2, <1>3, <2>1
  <2>3. PaysForMiss(t)
    BY <1>2, <1>5, <2>1, <2>2 DEF PaysForMiss
  <2>4. QED
    BY <1>5, <2>3 DEF BondStepOK
<1>6. CASE t /= s
  BY <1>1, <1>4, <1>6 DEF BondStepOK
<1>7. QED
  BY <1>5, <1>6

LEMMA IntentBondStep ==
    ASSUME IRInv, NEW i \in Intent, IntentStep(i), NEW t \in Solver
    PROVE  BondStepOK(t)
<1>1. solvers \in [Solver -> SolverRecord] /\ solvers[t].bond \in Nat
  BY RecordFields DEF IRInv, SRInv, SRTypeOK
<1>2. intents \in [Intent -> IntentRecord] /\ intents[i] \in IntentRecord
  BY DEF IRInv, BookInv, BookTypeOK
<1>3. CASE UNCHANGED srVars
  BY <1>1, <1>3 DEF srVars, solverVars, BondStepOK
<1>4. CASE Expire(i)
  <2>1. CASE StatusOf(i) = "SELECTED"
    <3>1. intents[i].selectedSolver \in Solver
      BY <2>1, WinnerFacts DEF IRInv
    <3>2. intents'[i].status = "EXPIRED"
      BY <1>2, <1>4 DEF Expire, IntentRecord
    <3>3. EndsInMiss(i, intents[i].selectedSolver)
      BY <2>1, <3>2 DEF EndsInMiss
    <3>4. QED
      BY <1>4, <2>1, <3>1, <3>3, MissBondStep DEF Expire
  <2>2. CASE StatusOf(i) /= "SELECTED"
    BY <1>3, <1>4, <2>2 DEF Expire
  <2>3. QED
    BY <2>1, <2>2
<1>5. CASE Settle(i)
  <2> DEFINE s == intents[i].selectedSolver
             new == AfterOutcome(solvers[s], TRUE)
  <2>1. s \in Solver
    BY <1>5, WinnerFacts DEF Settle, IRInv
  <2>2. new.bond = solvers[s].bond
    BY <1>1, <2>1, SuccessFacts
  <2>3. solvers' = [solvers EXCEPT ![s] = new]
    BY <1>5 DEF Settle
  <2> HIDE DEF new, s
  <2>4. solvers'[t].bond = solvers[t].bond
    BY <1>1, <2>1, <2>2, <2>3
  <2>5. QED
    BY <1>1, <2>4 DEF BondStepOK
<1>6. CASE ReportFailure(i)
  <2>1. intents[i].selectedSolver \in Solver /\ StatusOf(i) = "SELECTED"
    BY <1>6, WinnerFacts DEF ReportFailure, IRInv
  <2>2. intents'[i] = [Reopened(intents[i]) EXCEPT !.selectedAt = 0]
    BY <1>2, <1>6 DEF ReportFailure
  <2>3. intents'[i].status = "OPEN"
    BY <1>2, <2>2, ReopenedFacts
  <2>4. EndsInMiss(i, intents[i].selectedSolver)
    BY <2>1, <2>3 DEF EndsInMiss
  <2>5. QED
    BY <1>6, <2>1, <2>4, MissBondStep DEF ReportFailure
<1>7. CASE Declare(i) \/ Cancel(i)
  BY <1>3, <1>7 DEF Declare, Submit, Cancel
<1>8. CASE Bidding(i)
  BY <1>3, <1>8 DEF Bidding, PlaceBid, CommitBid, RevealBid
<1>9. CASE Choosing(i)
  BY <1>3, <1>9 DEF Choosing, WithdrawBid, ChallengeSelection, SelectWinner, SelectWinnerChecked
<1>10. QED
  BY <1>4, <1>5, <1>6, <1>7, <1>8, <1>9 DEF IntentStep

\* Where no intent ends in a miss and no failure is recorded, nothing is to be paid.
LEMMA NothingMissed ==
    ASSUME NEW t \in Solver, solvers'[t].failed = solvers[t].failed,
           \A i \in Intent : ~Unexcused(i, t)
    PROVE  MissStepOK(t)
BY DEF MissStepOK

\* No solver's own transaction records a failure.
LEMMA SolverMissStep ==
    ASSUME IRInv, SolverStep, NEW t \in Solver
    PROVE  solvers'[t].failed = solvers[t].failed
<1> PICK s \in Solver :
        \/ \E v \in Amount : Register(s, v) \/ AddBond(s, v) \/ Unbond(s, v)
        \/ RequestUnbond(s)
        \/ \E caps \in SUBSET Cap : SetCapabilities(s, caps)
  BY DEF SolverStep
<1>1. solvers \in [Solver -> SolverRecord] /\ solvers[s] \in SolverRecord
  BY DEF IRInv, SRInv, SRTypeOK
<1>2. ASSUME NEW new, solvers' = [solvers EXCEPT ![s] = new], new.failed = solvers[s].failed
      PROVE  solvers'[t].failed = solvers[t].failed
  BY <1>1, <1>2
<1>3. ASSUME NEW v \in Amount, Register(s, v) PROVE solvers'[t].failed = solvers[t].failed
  <2>1. AfterRegister(solvers[s], v).failed = solvers[s].failed
    BY <1>1, SolverRegistryAssumption, RegisterFacts
  <2>2. QED
    BY <1>2, <1>3, <2>1 DEF Register
<1>4. ASSUME NEW v \in Amount, AddBond(s, v) PROVE solvers'[t].failed = solvers[t].failed
  <2>1. AfterDeposit(solvers[s], v).failed = solvers[s].failed
    BY <1>1 DEF AfterDeposit, SolverRecord
  <2>2. QED
    BY <1>2, <1>4, <2>1 DEF AddBond
<1>5. ASSUME NEW v \in Amount, Unbond(s, v) PROVE solvers'[t].failed = solvers[t].failed
  <2>1. AfterUnbond(solvers[s], v).failed = solvers[s].failed
    BY <1>1 DEF AfterUnbond, SolverRecord
  <2>2. QED
    BY <1>2, <1>5, <2>1 DEF Unbond
<1>6. QED
  BY <1>3, <1>4, <1>5 DEF RequestUnbond, SetCapabilities

\* An engagement that ends in a miss is paid for, whoever ends it.
LEMMA IntentMissStep ==
    ASSUME IRInv, NEW i \in Intent, IntentStep(i), NEW t \in Solver
    PROVE  MissStepOK(t)
<1>1. solvers \in [Solver -> SolverRecord]
  BY DEF IRInv, SRInv, SRTypeOK
<1>2. intents \in [Intent -> IntentRecord] /\ intents[i] \in IntentRecord
  BY DEF IRInv, BookInv, BookTypeOK
<1>3. ASSUME NEW j \in Intent \ {i} PROVE ~Unexcused(j, t)
  <2>1. intents'[j] = intents[j]
    BY OtherIntents
  <2>2. QED
    BY <2>1 DEF Unexcused, EndsInMiss, StatusOf
<1>4. ASSUME solvers'[t].failed = solvers[t].failed, ~Unexcused(i, t) PROVE MissStepOK(t)
  BY <1>3, <1>4, NothingMissed
<1>5. ASSUME PunishMiss(i, intents[i].selectedSolver), StatusOf(i) = "SELECTED",
             intents'[i].status \in {"OPEN", "EXPIRED"}
      PROVE  MissStepOK(t)
  <2> DEFINE s == intents[i].selectedSolver
  <2>1. s \in Solver
    BY <1>5, WinnerFacts DEF IRInv
  <2>2. EndsInMiss(i, s)
    BY <1>5 DEF EndsInMiss
  <2>3. CASE t = s
    BY <1>5, <2>1, <2>2, <2>3, MissBondStep DEF MissStepOK
  <2>4. CASE t /= s
    <3>1. solvers'[t] = solvers[t]
      BY <1>5, <2>1, <2>2, <2>4, MissBondStep
    <3>2. ~Unexcused(i, t)
      BY <2>4 DEF Unexcused, EndsInMiss
    <3>3. QED
      BY <1>4, <3>1, <3>2
  <2>5. QED
    BY <2>3, <2>4
<1>6. CASE Expire(i)
  <2>1. intents'[i].status = "EXPIRED"
    BY <1>2, <1>6 DEF Expire, IntentRecord
  <2>2. CASE StatusOf(i) = "SELECTED"
    BY <1>5, <1>6, <2>1, <2>2 DEF Expire
  <2>3. CASE StatusOf(i) /= "SELECTED"
    BY <1>4, <1>6, <2>3 DEF Expire, srVars, solverVars, Unexcused, EndsInMiss
  <2>4. QED
    BY <2>2, <2>3
<1>7. CASE ReportFailure(i)
  <2>1. intents'[i] = [Reopened(intents[i]) EXCEPT !.selectedAt = 0]
    BY <1>2, <1>7 DEF ReportFailure
  <2>2. intents'[i].status = "OPEN"
    BY <1>2, <2>1, ReopenedFacts
  <2>3. QED
    BY <1>5, <1>7, <2>2 DEF ReportFailure
<1>8. CASE Settle(i)
  <2> DEFINE s == intents[i].selectedSolver
             new == AfterOutcome(solvers[s], TRUE)
  <2>1. s \in Solver
    BY <1>8, WinnerFacts DEF Settle, IRInv
  <2>2. new.failed = solvers[s].failed
    BY <1>1, <2>1, SuccessFacts
  <2>3. solvers' = [solvers EXCEPT ![s] = new]
    BY <1>8 DEF Settle
  <2> HIDE DEF new, s
  <2>4. solvers'[t].failed = solvers[t].failed
    BY <1>1, <2>1, <2>2, <2>3
  <2>5. intents'[i].status = "FULFILLED"
    BY <1>2, <1>8 DEF Settle, IntentRecord
  <2>6. QED
    BY <1>4, <2>4, <2>5 DEF Unexcused, EndsInMiss
<1>9. ASSUME UNCHANGED srVars, ~Unexcused(i, t) PROVE MissStepOK(t)
  BY <1>4, <1>9 DEF srVars, solverVars
<1>10. CASE Declare(i)
  BY <1>9, <1>10 DEF Declare, Submit, Unexcused, EndsInMiss
<1>11. CASE Cancel(i)
  <2>1. intents'[i].status = "CANCELLED"
    BY <1>2, <1>11 DEF Cancel, IntentRecord
  <2>2. QED
    BY <1>9, <1>11, <2>1 DEF Cancel, Unexcused, EndsInMiss
<1>12. CASE Bidding(i)
  <2>1. UNCHANGED <<srVars, intents>>
    BY <1>12 DEF Bidding, PlaceBid, CommitBid, RevealBid
  <2>2. QED
    BY <1>9, <2>1 DEF Unexcused, EndsInMiss, StatusOf
<1>13. ASSUME NEW b, ChallengeSelection(i, b) PROVE MissStepOK(t)
  <2>1. Beaten(i)
    BY <1>13 DEF ChallengeSelection, Beaten
  <2>2. intents'[i].status = "OPEN"
    BY <1>2, <1>13, ReopenedFacts DEF ChallengeSelection
  <2>3. QED
    BY <1>9, <1>13, <2>1, <2>2 DEF ChallengeSelection, Unexcused
<1>14. ASSUME NEW b, WithdrawBid(i, b) PROVE MissStepOK(t)
  BY <1>9, <1>14 DEF WithdrawBid, Unexcused, EndsInMiss, StatusOf
<1>15. ASSUME NEW b, NEW caller, SelectWinner(i, b, caller) PROVE MissStepOK(t)
  BY <1>9, <1>15 DEF SelectWinner, Unexcused, EndsInMiss, StatusOf
<1>16. QED
  BY <1>6, <1>7, <1>8, <1>10, <1>11, <1>12, <1>13, <1>14, <1>15
     DEF IntentStep, Choosing, SelectWinnerChecked

\* Ether leaves a solver's bond on a ripe ticket of its own, by a new
\* registration, or by exactly the share its own missed engagement costs; and no
\* miss goes unrecorded or unpaid, whatever withdrawal is pending, but for one
\* whose selection a standing bid beats.
THEOREM BondsFallForCause == Spec => BondFallsForCause
<1>1. IRInv /\ [Next]_vars => BondsStepOK
  <2> SUFFICES ASSUME IRInv, [Next]_vars, NEW t \in Solver
               PROVE  BondStepOK(t) /\ MissStepOK(t)
    BY DEF BondsStepOK
  <2>1. solvers[t].bond \in Nat
    BY RecordFields DEF IRInv, SRInv, SRTypeOK
  <2>2. ASSUME NEW i \in Intent, IntentStep(i) PROVE BondStepOK(t) /\ MissStepOK(t)
    BY <2>2, IntentBondStep, IntentMissStep
  <2>3. ASSUME UNCHANGED intents, solvers'[t].failed = solvers[t].failed PROVE MissStepOK(t)
    <3>1. \A i \in Intent : ~Unexcused(i, t)
      BY <2>3 DEF Unexcused, EndsInMiss, StatusOf
    <3>2. QED
      BY <2>3, <3>1, NothingMissed
  <2>4. CASE UNCHANGED <<solvers, intents>>
    BY <2>1, <2>3, <2>4 DEF BondStepOK
  <2>5. CASE RegistryGovernance \/ UNCHANGED vars
    <3>1. UNCHANGED <<solvers, intents>>
      BY <2>5 DEF RegistryGovernance, FundAuctioneerBond, WithdrawAuctioneerBond,
         SetAuctioneer, SetSettlement, SetChallengeRewardBps, vars, srVars, solverVars,
         intentVars
    <3>2. QED
      BY <2>4, <3>1
  <2>6. CASE SolverRegistryStep
    <3>1. UNCHANGED intents
      BY <2>6 DEF SolverRegistryStep, intentVars
    <3>2. CASE SolverStep
      BY <2>3, <3>1, <3>2, SolverBondStep, SolverMissStep
    <3>3. CASE GovernanceStep \/ Tick
      BY <2>4, <3>1, <3>3 DEF GovernanceStep, AttestKyb, SetMinBond, SetUnbondDelay,
         SetReporter, Tick, solverVars
    <3>4. QED
      BY <2>6, <3>2, <3>3 DEF SolverRegistryStep
  <2>7. QED
    BY <2>2, <2>5, <2>6 DEF Next
<1>2. QED
  BY <1>1, Invariance, PTL DEF Spec, BondFallsForCause

-----------------------------------------------------------------------------
(* A right choice is safe. *)

\* While an intent is selected nothing touches its book.
LEMMA SelectedBookFrozen ==
    ASSUME IRInv, [Next]_vars, NEW i \in Intent, StatusOf(i) = "SELECTED"
    PROVE  bids'[i] = bids[i]
<1>1. BookStepOK(i)
  <2>1. CASE IntentStep(i)
    BY <2>1, BookStep
  <2>2. ASSUME NEW j \in Intent \ {i}, IntentStep(j) PROVE BookStepOK(i)
    BY <2>2, OtherIntents DEF BookStepOK
  <2>3. CASE RegistryGovernance \/ SolverRegistryStep \/ UNCHANGED vars
    BY <2>3, NoIntentStep DEF BookStepOK
  <2>4. QED
    BY <2>1, <2>2, <2>3 DEF Next
<1>2. QED
  BY <1>1 DEF BookStepOK

\* The standing of a selection depends on its book and on the bid it names.
LEMMA SameChoice ==
    ASSUME NEW i \in Intent, bids'[i] = bids[i],
           intents'[i].selectedBid = intents[i].selectedBid, ~Beaten(i)
    PROVE  ~Beaten(i)'
BY DEF Beaten, BidIds, Bid

LEMMA ChoiceStep ==
    ASSUME IRInv, NEW i \in Intent, IntentStep(i), StatusOf(i) = "SELECTED", ~Beaten(i)
    PROVE  /\ intents'[i].status = "SELECTED" => ~Beaten(i)'
           /\ intents'[i].status = "OPEN" =>
                 solvers'[intents[i].selectedSolver].failed =
                 solvers[intents[i].selectedSolver].failed + 1
<1>1. /\ intents \in [Intent -> IntentRecord] /\ intents[i] \in IntentRecord
      /\ solvers \in [Solver -> SolverRecord]
  BY DEF IRInv, BookInv, BookTypeOK, SRInv, SRTypeOK
<1>2. bids'[i] = bids[i]
  BY SelectedBookFrozen DEF Next
<1>3. CASE UNCHANGED intents
  BY <1>2, <1>3, SameChoice DEF StatusOf
<1>4. CASE Cancel(i) \/ Expire(i) \/ Settle(i)
  <2>1. \E st \in Terminal : intents' = [intents EXCEPT ![i].status = st]
    BY <1>4 DEF Cancel, Expire, Settle, Terminal
  <2>2. intents'[i].status \in Terminal
    BY <1>1, <2>1 DEF IntentRecord
  <2>3. QED
    BY <2>2 DEF Terminal
<1>5. CASE ReportFailure(i)
  <2> DEFINE s == intents[i].selectedSolver
             new == AfterSlash(AfterOutcome(solvers[s], FALSE), MissShare(s))
  <2>1. s \in Solver
    BY WinnerFacts DEF IRInv
  <2>2. new.failed = solvers[s].failed + 1
    BY <2>1, MissFacts DEF IRInv
  <2>3. solvers' = [solvers EXCEPT ![s] = new]
    BY <1>5 DEF ReportFailure, PunishMiss
  <2> HIDE DEF new
  <2>4. solvers'[s].failed = solvers[s].failed + 1
    BY <1>1, <2>1, <2>2, <2>3
  <2>5. intents'[i].status = "OPEN"
    <3>1. intents'[i] = [Reopened(intents[i]) EXCEPT !.selectedAt = 0]
      BY <1>1, <1>5 DEF ReportFailure
    <3>2. QED
      BY <1>1, <3>1, ReopenedFacts
  <2>6. QED
    BY <2>4, <2>5
<1>6. CASE Choosing(i)
  <2>1. ASSUME NEW b, ChallengeSelection(i, b) PROVE FALSE
    BY <2>1 DEF ChallengeSelection, Beaten
  <2>2. ~\E b, caller : SelectWinner(i, b, caller)
    BY DEF SelectWinner
  <2>3. UNCHANGED intents
    BY <1>6, <2>1, <2>2 DEF Choosing, SelectWinnerChecked, WithdrawBid
  <2>4. QED
    BY <1>3, <2>3
<1>7. CASE Bidding(i)
  BY <1>3, <1>7 DEF Bidding, PlaceBid, CommitBid, RevealBid
<1>8. CASE Declare(i)
  BY <1>8 DEF Declare, Submit
<1>9. QED
  BY <1>4, <1>5, <1>6, <1>7, <1>8 DEF IntentStep

\* A selection no standing bid dominates cannot become challengeable, and leaves
\* its solver only by that solver's own failure.
THEOREM RightChoicesAreSafe == Spec => RightChoiceIsSafe
<1>1. IRInv /\ [Next]_vars => \A i \in Intent : ChoiceStepOK(i)
  <2> SUFFICES ASSUME IRInv, [Next]_vars, NEW i \in Intent PROVE ChoiceStepOK(i)
    OBVIOUS
  <2>1. CASE IntentStep(i)
    BY <2>1, ChoiceStep DEF ChoiceStepOK
  <2>2. ASSUME intents'[i] = intents[i], bids'[i] = bids[i] PROVE ChoiceStepOK(i)
    BY <2>2, SameChoice DEF ChoiceStepOK, StatusOf
  <2>3. ASSUME NEW j \in Intent \ {i}, IntentStep(j) PROVE ChoiceStepOK(i)
    BY <2>2, <2>3, OtherIntents
  <2>4. CASE RegistryGovernance \/ SolverRegistryStep \/ UNCHANGED vars
    BY <2>2, <2>4, NoIntentStep
  <2>5. QED
    BY <2>1, <2>3, <2>4 DEF Next
<1>2. QED
  BY <1>1, Invariance, PTL DEF Spec, RightChoiceIsSafe

-----------------------------------------------------------------------------
(* The registry implements the abstract market: its initial states map to  *)
(* the market's, and every step to one of the market's or to a stutter.    *)

\* The abstract state, as the refinement mapping computes it.
Phase   == [i \in Intent |-> intents[i].status]
Engaged == [i \in Intent |-> IF intents[i].status = "SELECTED"
                              THEN intents[i].selectedSolver ELSE Nil]
Due     == [i \in Intent |-> intents[i].deadline]
Kept    == [s \in Solver |-> solvers[s].fulfilled]
Missed  == [s \in Solver |-> solvers[s].failed]

LEMMA MappedInit == Init => Market!Init
BY DEF Init, SRInit, NoIntent, NoRecord, Market!Init

\* Writing one solver's record writes its two counters.
LEMMA MappedSolver ==
    ASSUME IRInv, NEW s \in Solver, NEW rec, solvers' = [solvers EXCEPT ![s] = rec]
    PROVE  /\ Kept'   = [Kept EXCEPT ![s] = rec.fulfilled]
           /\ Missed' = [Missed EXCEPT ![s] = rec.failed]
           /\ rec.fulfilled = solvers[s].fulfilled => Kept' = Kept
           /\ rec.failed = solvers[s].failed => Missed' = Missed
BY DEF IRInv, SRInv, SRTypeOK, Kept, Missed

LEMMA MappedRecord ==
    /\ UNCHANGED solvers => UNCHANGED <<Kept, Missed>>
    /\ UNCHANGED intents => UNCHANGED <<Phase, Engaged, Due>>
BY DEF Phase, Engaged, Due, Kept, Missed

\* A missed engagement is on the record of the solver it names, once.
LEMMA MappedMiss ==
    ASSUME IRInv, NEW i \in Intent, StatusOf(i) = "SELECTED",
           PunishMiss(i, intents[i].selectedSolver)
    PROVE  /\ Engaged[i] = intents[i].selectedSolver
           /\ Missed' = [Missed EXCEPT ![Engaged[i]] = @ + 1]
           /\ Kept' = Kept
           /\ now' = now
<1> DEFINE s == intents[i].selectedSolver
           new == AfterSlash(AfterOutcome(solvers[s], FALSE), MissShare(s))
<1>1. s \in Solver
  BY WinnerFacts DEF IRInv
<1>2. new.failed = solvers[s].failed + 1 /\ new.fulfilled = solvers[s].fulfilled
  BY <1>1, MissFacts DEF IRInv
<1>3. solvers' = [solvers EXCEPT ![s] = new] /\ now' = now
  BY DEF PunishMiss
<1>4. Engaged[i] = s
  BY DEF Engaged, StatusOf
<1>5. Missed[s] = solvers[s].failed
  BY <1>1 DEF Missed
<1> HIDE DEF new, s
<1>6. Missed' = [Missed EXCEPT ![s] = new.failed] /\ Kept' = Kept
  BY <1>1, <1>2, <1>3, MappedSolver
<1>7. QED
  BY <1>2, <1>3, <1>4, <1>5, <1>6 DEF s

-----------------------------------------------------------------------------
(* Every operation, by the step of the market it is. *)

LEMMA DeclareAnnounces ==
    ASSUME IRInv, NEW i \in Intent, Declare(i)
    PROVE  Market!Announce(i)
<1> PICK owner \in Owner, integrator \in Integrator \cup {Nil}, policy \in Policy,
         legs \in {Len(o.guaranteedOut) : o \in Offer}, ends \in Ticks, deadline \in Ticks :
         Submit(i, owner, integrator, legs, policy, ends, deadline)
  BY DEF Declare
<1> DEFINE r == [NoIntent EXCEPT !.status        = "OPEN",
                                 !.owner         = owner,
                                 !.integrator    = integrator,
                                 !.legCount      = legs,
                                 !.policy        = policy,
                                 !.auctionEndsAt = ends,
                                 !.deadline      = deadline]
<1>1. r.status = "OPEN" /\ r.selectedSolver = Nil /\ r.deadline = deadline
  BY DEF NoIntent
<1>2. intents' = [intents EXCEPT ![i] = r]
  BY DEF Submit
<1> HIDE DEF r
<1>3. /\ Phase' = [Phase EXCEPT ![i] = "OPEN"]
      /\ Engaged' = [Engaged EXCEPT ![i] = Nil]
      /\ Due' = [Due EXCEPT ![i] = deadline]
  BY <1>1, <1>2 DEF IRInv, BookInv, BookTypeOK, Phase, Engaged, Due
<1>4. Phase[i] = "NONE" /\ Engaged[i] = Nil
  BY DEF Submit, StatusOf, Phase, Engaged
<1>5. Engaged' = Engaged
  BY <1>3, <1>4 DEF Engaged
<1>6. deadline > now
  <2>1. /\ now \in Nat /\ ends \in Nat /\ deadline \in Nat /\ MIN_AUCTION_WINDOW \in Nat
    BY IntentRegistryAssumption DEF IRInv, SRInv, SRTypeOK
  <2>2. ends >= now + MIN_AUCTION_WINDOW /\ deadline > ends
    BY DEF Submit
  <2>3. QED
    BY <2>1, <2>2
<1>7. Due'[i] = deadline
  BY <1>3 DEF Due
<1>8. now' = now /\ Kept' = Kept /\ Missed' = Missed
  BY MappedRecord DEF Submit, srVars, solverVars
<1>9. QED
  BY <1>3, <1>4, <1>5, <1>6, <1>7, <1>8
     DEF Market!Announce, Phase, Engaged, Due, Kept, Missed

LEMMA SelectionEngages ==
    ASSUME IRInv, NEW i \in Intent, NEW b, NEW caller, SelectWinner(i, b, caller)
    PROVE  Bid(i, b).solver \in Solver /\ Market!Engage(i, Bid(i, b).solver)
<1> DEFINE s == Bid(i, b).solver
           r == Selected(intents[i], b, s, caller)
<1>1. s \in Solver
  BY BidFacts DEF SelectWinner, IRInv, BookInv
<1>2. intents' = [intents EXCEPT ![i] = r]
  BY DEF SelectWinner
<1>3. r.status = "SELECTED" /\ r.selectedSolver = s /\ r.deadline = intents[i].deadline
  BY DEF Selected, IRInv, BookInv, BookTypeOK, IntentRecord
<1> HIDE DEF s, r
<1>4. /\ Phase' = [Phase EXCEPT ![i] = "SELECTED"]
      /\ Engaged' = [Engaged EXCEPT ![i] = s]
      /\ Due' = Due
  BY <1>2, <1>3 DEF IRInv, BookInv, BookTypeOK, Phase, Engaged, Due
<1>5. Phase[i] = "OPEN" /\ now <= Due[i]
  BY DEF SelectWinner, StatusOf, Phase, Due
<1>6. now' = now /\ Kept' = Kept /\ Missed' = Missed
  BY MappedRecord DEF SelectWinner, srVars, solverVars
<1>7. Market!Engage(i, s)
  BY <1>4, <1>5, <1>6 DEF Market!Engage, Phase, Engaged, Due, Kept, Missed
<1>8. QED
  BY <1>1, <1>7 DEF s

\* Dropping an open intent: no engagement, and nobody's record changes.
LEMMA MappedDrop ==
    ASSUME IRInv, NEW i \in Intent, NEW st \in {"CANCELLED", "EXPIRED"},
           StatusOf(i) = "OPEN", st = "EXPIRED" => now > intents[i].deadline,
           intents' = [intents EXCEPT ![i].status = st], UNCHANGED srVars
    PROVE  Market!Drop(i)
<1> DEFINE r == [intents[i] EXCEPT !.status = st]
<1>1. r.status = st /\ r.deadline = intents[i].deadline
  BY DEF IRInv, BookInv, BookTypeOK, IntentRecord
<1>2. intents' = [intents EXCEPT ![i] = r]
  OBVIOUS
<1> HIDE DEF r
<1>3. /\ Phase' = [Phase EXCEPT ![i] = st]
      /\ Engaged' = [Engaged EXCEPT ![i] = Nil]
      /\ Due' = Due
  BY <1>1, <1>2 DEF IRInv, BookInv, BookTypeOK, Phase, Engaged, Due
<1>4. Engaged[i] = Nil /\ Phase[i] = "OPEN" /\ Due[i] = intents[i].deadline
  BY DEF StatusOf, Engaged, Phase, Due
<1>5. Engaged' = Engaged
  BY <1>3, <1>4 DEF Engaged
<1>6. now' = now /\ Kept' = Kept /\ Missed' = Missed
  BY MappedRecord DEF srVars, solverVars
<1>7. QED
  BY <1>3, <1>4, <1>5, <1>6 DEF Market!Drop, Phase, Engaged, Due, Kept, Missed

\* The record an intent is left with by each end of an engagement.
LEMMA EndFacts ==
    ASSUME NEW r \in IntentRecord
    PROVE  /\ \A st \in Terminal : LET new == [r EXCEPT !.status = st]
                                   IN  new.status = st /\ new.deadline = r.deadline
           /\ Reopened(r).deadline = r.deadline
           /\ [Reopened(r) EXCEPT !.selectedAt = 0].deadline = r.deadline
<1> DEFINE open == [r EXCEPT !.status = "OPEN", !.selectedSolver = Nil, !.selectedBid = 0]
<1>1. \A st \in Terminal : LET new == [r EXCEPT !.status = st]
                           IN  new.status = st /\ new.deadline = r.deadline
  BY DEF IntentRecord
<1>2. Reopened(r) = open /\ open \in IntentRecord /\ open.deadline = r.deadline
  BY DEF Reopened, IntentRecord, Status, Live
<1> HIDE DEF open
<1>3. [open EXCEPT !.selectedAt = 0].deadline = open.deadline
  BY <1>2 DEF IntentRecord
<1>4. QED
  BY <1>1, <1>2, <1>3

LEMMA CancelMaps ==
    ASSUME IRInv, NEW i \in Intent, Cancel(i)
    PROVE  Market!Excuse(i) \/ Market!Drop(i)
<1>1. CASE StatusOf(i) = "OPEN"
  BY <1>1, MappedDrop DEF Cancel
<1>2. CASE StatusOf(i) = "SELECTED"
  <2> DEFINE r == [intents[i] EXCEPT !.status = "CANCELLED"]
  <2>1. r.status = "CANCELLED" /\ r.deadline = intents[i].deadline
    BY EndFacts DEF IRInv, BookInv, BookTypeOK, Terminal
  <2>2. intents' = [intents EXCEPT ![i] = r] /\ now' = now
    BY DEF Cancel, srVars
  <2> HIDE DEF r
  <2>3. /\ Phase[i] = "SELECTED" /\ Phase' = [Phase EXCEPT ![i] = "CANCELLED"]
        /\ Engaged' = [Engaged EXCEPT ![i] = Nil] /\ Due' = Due
    BY <1>2, <2>1, <2>2 DEF IRInv, BookInv, BookTypeOK, Phase, Engaged, Due, StatusOf
  <2>4. Market!Release(i, "CANCELLED")
    BY <2>2, <2>3 DEF Market!Release, Phase, Engaged, Due
  <2>5. Kept' = Kept /\ Missed' = Missed
    BY MappedRecord DEF Cancel, srVars, solverVars
  <2>6. QED
    BY <2>4, <2>5 DEF Market!Excuse, Kept, Missed
<1>3. QED
  BY <1>1, <1>2 DEF Cancel, Live

LEMMA ExpireMaps ==
    ASSUME IRInv, NEW i \in Intent, Expire(i)
    PROVE  Market!Miss(i) \/ Market!Drop(i)
<1>1. CASE StatusOf(i) = "OPEN"
  BY <1>1, MappedDrop DEF Expire
<1>2. CASE StatusOf(i) = "SELECTED"
  <2> DEFINE r == [intents[i] EXCEPT !.status = "EXPIRED"]
  <2>1. r.status = "EXPIRED" /\ r.deadline = intents[i].deadline
    BY EndFacts DEF IRInv, BookInv, BookTypeOK, Terminal
  <2>2. /\ Missed' = [Missed EXCEPT ![Engaged[i]] = @ + 1]
        /\ Kept' = Kept
        /\ now' = now
    BY <1>2, MappedMiss DEF Expire
  <2>3. intents' = [intents EXCEPT ![i] = r]
    BY DEF Expire
  <2> HIDE DEF r
  <2>4. /\ Phase[i] = "SELECTED" /\ Phase' = [Phase EXCEPT ![i] = "EXPIRED"]
        /\ Engaged' = [Engaged EXCEPT ![i] = Nil] /\ Due' = Due
    BY <1>2, <2>1, <2>2, <2>3 DEF IRInv, BookInv, BookTypeOK, Phase, Engaged, Due, StatusOf
  <2>5. Market!Release(i, "EXPIRED")
    BY <2>2, <2>4 DEF Market!Release, Phase, Engaged, Due
  <2>6. now > Due[i]
    BY DEF Expire, Due
  <2>7. QED
    BY <2>2, <2>5, <2>6 DEF Market!Miss, Engaged, Kept, Missed, Due
<1>3. QED
  BY <1>1, <1>2 DEF Expire, Live

LEMMA SettleKeeps ==
    ASSUME IRInv, NEW i \in Intent, Settle(i)
    PROVE  Market!Keep(i)
<1> DEFINE s == intents[i].selectedSolver
           new == AfterOutcome(solvers[s], TRUE)
           r == [intents[i] EXCEPT !.status = "FULFILLED"]
<1>1. s \in Solver /\ StatusOf(i) = "SELECTED" /\ solvers[s] \in SolverRecord
  BY WinnerFacts DEF Settle, IRInv, SRInv, SRTypeOK
<1>2. new.fulfilled = solvers[s].fulfilled + 1 /\ new.failed = solvers[s].failed
  BY <1>1, SuccessFacts
<1>3. r.status = "FULFILLED" /\ r.deadline = intents[i].deadline
  BY EndFacts DEF IRInv, BookInv, BookTypeOK, Terminal
<1>4. /\ intents' = [intents EXCEPT ![i] = r]
      /\ solvers' = [solvers EXCEPT ![s] = new]
      /\ now' = now
  BY DEF Settle
<1>5. Engaged[i] = s /\ Kept[s] = solvers[s].fulfilled
  BY <1>1 DEF Engaged, Kept, StatusOf
<1>6. now <= Due[i]
  BY DEF Settle, Due
<1> HIDE DEF r, new, s
<1>7. /\ Phase[i] = "SELECTED" /\ Phase' = [Phase EXCEPT ![i] = "FULFILLED"]
      /\ Engaged' = [Engaged EXCEPT ![i] = Nil] /\ Due' = Due
  BY <1>1, <1>3, <1>4 DEF IRInv, BookInv, BookTypeOK, Phase, Engaged, Due, StatusOf
<1>8. Market!Release(i, "FULFILLED")
  BY <1>4, <1>7 DEF Market!Release, Phase, Engaged, Due
<1>9. Kept' = [Kept EXCEPT ![s] = new.fulfilled] /\ Missed' = Missed
  BY <1>1, <1>2, <1>4, MappedSolver
<1>10. Kept' = [Kept EXCEPT ![Engaged[i]] = @ + 1]
  BY <1>2, <1>5, <1>9
<1>11. QED
  BY <1>6, <1>8, <1>9, <1>10 DEF Market!Keep, Engaged, Kept, Missed, Due

LEMMA ReportFailureMisses ==
    ASSUME IRInv, NEW i \in Intent, ReportFailure(i)
    PROVE  Market!Miss(i)
<1> DEFINE r == [Reopened(intents[i]) EXCEPT !.selectedAt = 0]
<1>1. r.status = "OPEN" /\ r.deadline = intents[i].deadline
  BY ReopenedFacts, EndFacts DEF IRInv, BookInv, BookTypeOK
<1>2. StatusOf(i) = "SELECTED"
  BY DEF ReportFailure
<1>3. /\ Missed' = [Missed EXCEPT ![Engaged[i]] = @ + 1]
      /\ Kept' = Kept
      /\ now' = now
  BY <1>2, MappedMiss DEF ReportFailure
<1>4. intents' = [intents EXCEPT ![i] = r]
  BY DEF ReportFailure
<1> HIDE DEF r
<1>5. /\ Phase[i] = "SELECTED" /\ Phase' = [Phase EXCEPT ![i] = "OPEN"]
      /\ Engaged' = [Engaged EXCEPT ![i] = Nil] /\ Due' = Due
  BY <1>1, <1>2, <1>3, <1>4 DEF IRInv, BookInv, BookTypeOK, Phase, Engaged, Due, StatusOf
<1>6. Market!Release(i, "OPEN")
  BY <1>3, <1>5 DEF Market!Release, Phase, Engaged, Due
<1>7. QED
  BY <1>3, <1>6 DEF Market!Miss, Engaged, Kept, Missed

LEMMA ChallengeExcuses ==
    ASSUME IRInv, NEW i \in Intent, NEW b, ChallengeSelection(i, b)
    PROVE  Market!Excuse(i)
<1> DEFINE r == Reopened(intents[i])
<1>1. r.status = "OPEN" /\ r.deadline = intents[i].deadline
  BY ReopenedFacts, EndFacts DEF IRInv, BookInv, BookTypeOK
<1>2. StatusOf(i) = "SELECTED" /\ now' = now /\ Kept' = Kept /\ Missed' = Missed
  BY MappedRecord DEF ChallengeSelection, StatusOf, srVars, solverVars
<1>3. intents' = [intents EXCEPT ![i] = r]
  BY DEF ChallengeSelection
<1> HIDE DEF r
<1>4. /\ Phase[i] = "SELECTED" /\ Phase' = [Phase EXCEPT ![i] = "OPEN"]
      /\ Engaged' = [Engaged EXCEPT ![i] = Nil] /\ Due' = Due
  BY <1>1, <1>2, <1>3 DEF IRInv, BookInv, BookTypeOK, Phase, Engaged, Due, StatusOf
<1>5. Market!Release(i, "OPEN")
  BY <1>2, <1>4 DEF Market!Release, Phase, Engaged, Due
<1>6. QED
  BY <1>2, <1>5 DEF Market!Excuse, Kept, Missed

\* The solvers' own transactions and governance leave every record's counters.
LEMMA SolverStepKeepsCounters ==
    ASSUME IRInv, SolverStep \/ GovernanceStep
    PROVE  Kept' = Kept /\ Missed' = Missed /\ now' = now
<1>1. solvers \in [Solver -> SolverRecord] /\ minBond \in Nat /\ Amount \subseteq Nat
  BY SolverRegistryAssumption DEF IRInv, SRInv, SRTypeOK
<1>2. ASSUME NEW s \in Solver, NEW new, solvers' = [solvers EXCEPT ![s] = new],
             new.fulfilled = solvers[s].fulfilled, new.failed = solvers[s].failed
      PROVE  Kept' = Kept /\ Missed' = Missed
  BY <1>2, MappedSolver
<1>3. ASSUME NEW s \in Solver, NEW v \in Amount, Register(s, v)
      PROVE  Kept' = Kept /\ Missed' = Missed /\ now' = now
  <2>1. /\ AfterRegister(solvers[s], v).fulfilled = solvers[s].fulfilled
        /\ AfterRegister(solvers[s], v).failed = solvers[s].failed
    BY <1>1, RegisterFacts
  <2>2. solvers' = [solvers EXCEPT ![s] = AfterRegister(solvers[s], v)] /\ now' = now
    BY <1>3 DEF Register
  <2>3. QED
    BY <1>2, <2>1, <2>2
<1>4. ASSUME NEW s \in Solver, NEW v \in Amount, AddBond(s, v)
      PROVE  Kept' = Kept /\ Missed' = Missed /\ now' = now
  <2>1. /\ AfterDeposit(solvers[s], v).fulfilled = solvers[s].fulfilled
        /\ AfterDeposit(solvers[s], v).failed = solvers[s].failed
    BY <1>1, DepositFacts
  <2>2. solvers' = [solvers EXCEPT ![s] = AfterDeposit(solvers[s], v)] /\ now' = now
    BY <1>4 DEF AddBond
  <2>3. QED
    BY <1>2, <2>1, <2>2
<1>5. ASSUME NEW s \in Solver, NEW v \in Amount, Unbond(s, v)
      PROVE  Kept' = Kept /\ Missed' = Missed /\ now' = now
  <2>1. v <= solvers[s].bond
    BY <1>5 DEF Unbond
  <2>2. /\ AfterUnbond(solvers[s], v).fulfilled = solvers[s].fulfilled
        /\ AfterUnbond(solvers[s], v).failed = solvers[s].failed
    BY <1>1, <2>1, UnbondFacts
  <2>3. solvers' = [solvers EXCEPT ![s] = AfterUnbond(solvers[s], v)] /\ now' = now
    BY <1>5 DEF Unbond
  <2>4. QED
    BY <1>2, <2>2, <2>3
<1>6. CASE UNCHANGED <<solvers, now>>
  BY <1>6, MappedRecord
<1>7. CASE SolverStep
  BY <1>3, <1>4, <1>5, <1>6, <1>7 DEF SolverStep, RequestUnbond, SetCapabilities
<1>8. CASE GovernanceStep
  BY <1>6, <1>8 DEF GovernanceStep, AttestKyb, SetMinBond, SetUnbondDelay, SetReporter
<1>9. QED
  BY <1>7, <1>8

-----------------------------------------------------------------------------
LEMMA MappedStutter ==
    ASSUME UNCHANGED <<intents, now>>, Kept' = Kept, Missed' = Missed
    PROVE  UNCHANGED Market!marketVars
<1>1. Phase' = Phase /\ Engaged' = Engaged /\ Due' = Due
  BY MappedRecord
<1>2. QED
  BY <1>1 DEF Market!marketVars, Phase, Engaged, Due, Kept, Missed

LEMMA MappedIntentStep ==
    ASSUME IRInv, NEW i \in Intent, IntentStep(i)
    PROVE  Market!Next \/ UNCHANGED Market!marketVars
<1>1. ASSUME UNCHANGED <<srVars, intents>> PROVE UNCHANGED Market!marketVars
  BY <1>1, MappedRecord, MappedStutter DEF srVars, solverVars
<1>2. CASE Declare(i)
  BY <1>2, DeclareAnnounces DEF Market!Next
<1>3. CASE Cancel(i)
  BY <1>3, CancelMaps DEF Market!Next
<1>4. CASE Expire(i)
  BY <1>4, ExpireMaps DEF Market!Next
<1>5. CASE Settle(i)
  BY <1>5, SettleKeeps DEF Market!Next
<1>6. CASE ReportFailure(i)
  BY <1>6, ReportFailureMisses DEF Market!Next
<1>7. CASE Bidding(i)
  BY <1>1, <1>7 DEF Bidding, PlaceBid, CommitBid, RevealBid
<1>8. CASE Choosing(i)
  <2>1. ASSUME NEW b, WithdrawBid(i, b) PROVE UNCHANGED Market!marketVars
    BY <1>1, <2>1 DEF WithdrawBid
  <2>2. ASSUME NEW b, ChallengeSelection(i, b) PROVE Market!Next
    BY <2>2, ChallengeExcuses DEF Market!Next
  <2>3. ASSUME NEW b, NEW caller, SelectWinner(i, b, caller) PROVE Market!Next
    <3> DEFINE s == Bid(i, b).solver
    <3>1. s \in Solver /\ Market!Engage(i, s)
      BY <2>3, SelectionEngages
    <3> HIDE DEF s
    <3>2. \E t \in Solver : Market!Engage(i, t)
      BY <3>1 DEF Market!Engage
    <3>3. QED
      BY <3>2 DEF Market!Next, Market!Engage
  <2>4. QED
    BY <1>8, <2>1, <2>2, <2>3 DEF Choosing, SelectWinnerChecked
<1>9. QED
  BY <1>2, <1>3, <1>4, <1>5, <1>6, <1>7, <1>8 DEF IntentStep

LEMMA MappedOtherStep ==
    ASSUME IRInv, RegistryGovernance \/ SolverRegistryStep \/ UNCHANGED vars
    PROVE  Market!Next \/ UNCHANGED Market!marketVars
<1>1. CASE RegistryGovernance \/ UNCHANGED vars
  <2>1. UNCHANGED <<srVars, intents>>
    BY <1>1 DEF RegistryGovernance, FundAuctioneerBond, WithdrawAuctioneerBond,
       SetAuctioneer, SetSettlement, SetChallengeRewardBps, vars, intentVars
  <2>2. QED
    BY <2>1, MappedRecord, MappedStutter DEF srVars, solverVars
<1>2. CASE SolverRegistryStep
  <2>1. UNCHANGED intents
    BY <1>2 DEF SolverRegistryStep, intentVars
  <2>2. CASE SolverStep \/ GovernanceStep
    BY <2>1, <2>2, SolverStepKeepsCounters, MappedStutter
  <2>3. CASE Tick
    <3>1. now' = now + 1 /\ UNCHANGED solvers
      BY <2>3 DEF Tick, solverVars
    <3>2. Phase' = Phase /\ Engaged' = Engaged /\ Due' = Due /\ Kept' = Kept /\ Missed' = Missed
      BY <2>1, <3>1, MappedRecord
    <3>3. Market!Pass
      BY <3>1, <3>2 DEF Market!Pass, Phase, Engaged, Due, Kept, Missed
    <3>4. QED
      BY <3>3 DEF Market!Next
  <2>4. QED
    BY <1>2, <2>2, <2>3 DEF SolverRegistryStep
<1>3. QED
  BY <1>1, <1>2

\* The intent registry implements the abstract market: every engagement ends in
\* exactly one of a fulfilment, a miss on its own solver's record, or a release,
\* nothing is kept after its deadline and nothing expires before it.
THEOREM MarketImplemented == Spec => ImplementsMarket
<1>1. Init => Market!Init
  BY MappedInit
<1>2. IRInv /\ [Next]_vars => [Market!Next]_(Market!marketVars)
  BY MappedIntentStep, MappedOtherStep DEF Next
<1>3. QED
  BY <1>1, <1>2, Invariance, PTL DEF Spec, ImplementsMarket, Market!Spec
=============================================================================
