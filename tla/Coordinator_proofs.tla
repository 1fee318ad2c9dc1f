-------------------------- MODULE Coordinator_proofs --------------------------
(***************************************************************************)
(* What the coordinator has read stays good enough to act on: for any      *)
(* number of overlapping passes, any interleaving with everybody else's    *)
(* transactions and any lead of its clock over the chain's.                *)
(***************************************************************************)
EXTENDS Coordinator, IntentRegistry_proofs

PassRecord ==
    [at : {"idle", "timing", "counting", "fetching", "ranking", "writing"},
     intent : Intent \cup {Nil}, policy : Policy \cup {Nil}, count : Nat,
     seen : Seq(BidRecord), scores : [Solver -> Score \cup {Nil}], unsaved : SUBSET Solver,
     winner : Nat, readAt : Nat]

\* The pass's bids are the first of the book, and all of it and as they are now if
\* they were counted when the reveals were over.
Snapshot(pass, r, book, t) ==
    /\ pass.readAt <= t
    /\ Len(pass.seen) <= pass.count
    /\ pass.count <= Len(book)
    /\ pass.at = "fetching" => Len(pass.seen) < pass.count
    /\ pass.at /= "fetching" => Len(pass.seen) = pass.count
    /\ \A b \in 1 .. Len(pass.seen) :
          /\ book[b].solver = pass.seen[b].solver
          /\ book[b].offer  = pass.seen[b].offer
          /\ pass.seen[b].withdrawn => book[b].withdrawn
    /\ pass.readAt > r.auctionEndsAt + REVEAL_WINDOW =>
          /\ pass.count = Len(book)
          /\ \A b \in 1 .. Len(pass.seen) : pass.seen[b] = book[b]

\* The choice, judged by the snapshot alone.
Chosen(pass) ==
    /\ pass.winner + 1 \in 1 .. Len(pass.seen)
    /\ pass.seen[pass.winner + 1].offer.feeBps <= pass.policy.maxFeeBps
    /\ \A c \in 1 .. Len(pass.seen) :
          /\ ~pass.seen[c].withdrawn
          /\ pass.seen[c].solver /= pass.seen[pass.winner + 1].solver
          => ~Dominates(pass.seen[c].offer, pass.seen[pass.winner + 1].offer)

Begun(pass, is) ==
    pass.at /= "idle" => pass.intent \in Intent /\ is[pass.intent].status /= "NONE"

PassOK(pass, is, bk, t) ==
    /\ Begun(pass, is)
    /\ pass.at \in {"timing", "counting"} => pass.seen = << >>
    /\ pass.at \in {"fetching", "ranking", "writing"} =>
          Snapshot(pass, is[pass.intent], bk[pass.intent], t)
    /\ pass.at = "writing" => Chosen(pass)

PassesOK ==
    /\ passes \in [Call -> PassRecord]
    /\ reputationCache \in [Solver -> Score \cup {Nil}]
    /\ \A p \in Call : PassOK(passes[p], intents, bids, now)

CInv == IRInv /\ PassesOK /\ FeeIsWithinTheCap

-----------------------------------------------------------------------------
(* What the chain does meanwhile. *)

\* A submitted record keeps its times and its policy.
RecordKept(i) ==
    StatusOf(i) /= "NONE" =>
       /\ intents'[i].status /= "NONE"
       /\ intents'[i].auctionEndsAt = intents[i].auctionEndsAt
       /\ intents'[i].policy = intents[i].policy

\* A selection that stands is not replaced.
ChoiceKept(i) ==
    StatusOf(i) = "SELECTED" /\ intents'[i].status = "SELECTED" =>
       /\ intents'[i].selectedBid = intents[i].selectedBid
       /\ bids'[i] = bids[i]

LEMMA SelectWinnerFacts ==
    ASSUME IRInv, NEW i \in Intent, NEW b, NEW caller, SelectWinner(i, b, caller)
    PROVE  /\ intents'[i].status = "SELECTED"
           /\ intents'[i].selectedBid = b
           /\ intents'[i].auctionEndsAt = intents[i].auctionEndsAt
           /\ intents'[i].policy = intents[i].policy
           /\ \A j \in Intent \ {i} : intents'[j] = intents[j]
           /\ UNCHANGED <<bids, now>>
<1>1. intents \in [Intent -> IntentRecord] /\ intents[i] \in IntentRecord
  BY DEF IRInv, BookInv, BookTypeOK
<1>2. intents'[i] = Selected(intents[i], b, Bid(i, b).solver, caller)
  BY <1>1 DEF SelectWinner
<1>3. UNCHANGED <<bids, now>> /\ \A j \in Intent \ {i} : intents'[j] = intents[j]
  BY <1>1 DEF SelectWinner, srVars
<1>4. QED
  BY <1>1, <1>2, <1>3 DEF Selected, IntentRecord

LEMMA KeptStep ==
    ASSUME IRInv, NEW i \in Intent, IntentStep(i)
    PROVE  RecordKept(i) /\ ChoiceKept(i)
<1>1. intents \in [Intent -> IntentRecord] /\ intents[i] \in IntentRecord
  BY DEF IRInv, BookInv, BookTypeOK
<1>2. StatusOf(i) = "SELECTED" => bids'[i] = bids[i]
  BY SelectedBookFrozen DEF Next
<1>3. CASE UNCHANGED intents
  BY <1>2, <1>3 DEF RecordKept, ChoiceKept, StatusOf
<1>4. CASE Cancel(i) \/ Expire(i) \/ Settle(i)
  <2>1. PICK st \in Terminal : intents' = [intents EXCEPT ![i].status = st]
    BY <1>4 DEF Cancel, Expire, Settle, Terminal
  <2>2. /\ intents'[i].status = st
        /\ intents'[i].auctionEndsAt = intents[i].auctionEndsAt
        /\ intents'[i].policy = intents[i].policy
    BY <1>1, <2>1 DEF IntentRecord
  <2>3. QED
    BY <2>2 DEF RecordKept, ChoiceKept, Terminal
<1>5. ASSUME NEW r \in {Reopened(intents[i]), [Reopened(intents[i]) EXCEPT !.selectedAt = 0]},
             intents' = [intents EXCEPT ![i] = r]
      PROVE  RecordKept(i) /\ ChoiceKept(i)
  <2>1. /\ r.status = "OPEN"
        /\ r.auctionEndsAt = intents[i].auctionEndsAt
        /\ r.policy = intents[i].policy
    BY <1>1, <1>5 DEF Reopened, IntentRecord
  <2>2. intents'[i] = r
    BY <1>1, <1>5
  <2>3. QED
    BY <2>1, <2>2 DEF RecordKept, ChoiceKept
<1>6. CASE ReportFailure(i)
  BY <1>5, <1>6 DEF ReportFailure
<1>7. ASSUME NEW b, ChallengeSelection(i, b) PROVE RecordKept(i) /\ ChoiceKept(i)
  BY <1>5, <1>7 DEF ChallengeSelection
<1>8. ASSUME NEW b, NEW caller, SelectWinner(i, b, caller)
      PROVE  RecordKept(i) /\ ChoiceKept(i)
  BY <1>8, SelectWinnerFacts DEF RecordKept, ChoiceKept, SelectWinner
<1>9. CASE Choosing(i)
  BY <1>3, <1>7, <1>8, <1>9 DEF Choosing, SelectWinnerChecked, WithdrawBid
<1>10. CASE Bidding(i)
  BY <1>3, <1>10 DEF Bidding, PlaceBid, CommitBid, RevealBid
<1>11. CASE Declare(i)
  BY <1>11 DEF Declare, Submit, RecordKept, ChoiceKept
<1>12. QED
  BY <1>4, <1>6, <1>9, <1>10, <1>11 DEF IntentStep
LEMMA TimeStep ==
    ASSUME IRInv, [Next]_vars
    PROVE  now' >= now
<1>1. now \in Nat
  BY DEF IRInv, SRInv, SRTypeOK
<1>2. ASSUME NEW i \in Intent, IntentStep(i) PROVE now' = now
  <2>1. CASE Bidding(i) \/ Choosing(i)
    BY <2>1 DEF Bidding, PlaceBid, CommitBid, RevealBid, Choosing, WithdrawBid,
                ChallengeSelection, SelectWinner, SelectWinnerChecked, srVars
  <2>2. CASE Declare(i) \/ Cancel(i) \/ Expire(i) \/ Settle(i) \/ ReportFailure(i)
    BY <2>2 DEF Declare, Submit, Cancel, Expire, Settle, ReportFailure, PunishMiss, srVars
  <2>3. QED
    BY <1>2, <2>1, <2>2 DEF IntentStep
<1>3. ASSUME RegistryGovernance PROVE now' = now
  BY <1>3 DEF RegistryGovernance, FundAuctioneerBond, WithdrawAuctioneerBond,
              SetAuctioneer, SetSettlement, SetChallengeRewardBps, srVars
<1>4. CASE SolverRegistryStep
  <2>1. ASSUME SolverStep PROVE now' = now
    BY <2>1 DEF SolverStep, Register, AddBond, Unbond, RequestUnbond, SetCapabilities
  <2>2. ASSUME GovernanceStep PROVE now' = now
    BY <2>2 DEF GovernanceStep, AttestKyb, SetMinBond, SetUnbondDelay, SetReporter
  <2>3. CASE Tick
    BY <1>1, <2>3 DEF Tick
  <2>4. QED
    BY <1>1, <1>4, <2>1, <2>2, <2>3 DEF SolverRegistryStep
<1>5. CASE UNCHANGED vars
  BY <1>1, <1>5 DEF vars, srVars
<1>6. QED
  BY <1>1, <1>2, <1>3, <1>4, <1>5 DEF Next

\* What a transaction of any kind leaves to those who have read the chain.
ChainOK ==
    /\ IRInv'
    /\ now' >= now
    /\ \A i \in Intent : BookStepOK(i) /\ RecordKept(i)

LEMMA OthersChain ==
    ASSUME IRInv, [Next]_vars
    PROVE  ChainOK /\ \A i \in Intent : ChoiceKept(i)
<1>1. IRInv' /\ now' >= now
  BY NextInv, TimeStep
<1>2. ASSUME NEW i \in Intent
      PROVE  BookStepOK(i) /\ RecordKept(i) /\ ChoiceKept(i)
  <2>1. CASE IntentStep(i)
    BY <2>1, BookStep, KeptStep
  <2>2. ASSUME intents'[i] = intents[i], bids'[i] = bids[i]
        PROVE  BookStepOK(i) /\ RecordKept(i) /\ ChoiceKept(i)
    BY <2>2 DEF BookStepOK, RecordKept, ChoiceKept, StatusOf
  <2>3. ASSUME NEW j \in Intent \ {i}, IntentStep(j)
        PROVE  intents'[i] = intents[i] /\ bids'[i] = bids[i]
    BY <2>3, OtherIntents
  <2>4. CASE RegistryGovernance \/ SolverRegistryStep \/ UNCHANGED vars
    BY <2>2, <2>4, NoIntentStep
  <2>5. QED
    BY <2>1, <2>2, <2>3, <2>4 DEF Next
<1>3. QED
  BY <1>1, <1>2 DEF ChainOK

LEMMA SelectChain ==
    ASSUME IRInv, NEW i \in Intent, NEW b, NEW caller, SelectWinner(i, b, caller)
    PROVE  ChainOK
<1>1. now \in Nat
  BY DEF IRInv, SRInv, SRTypeOK
<1>2. UNCHANGED <<bids, now>>
  BY DEF SelectWinner, srVars
<1>3. \A j \in Intent : RecordKept(j)
  BY SelectWinnerFacts DEF RecordKept, SelectWinner, StatusOf
<1>4. QED
  BY <1>1, <1>2, <1>3, SelectWinnerInv DEF ChainOK, BookStepOK

\* A pass survives whatever the chain does.
LEMMA ChainKeepsPass ==
    ASSUME IRInv, ChainOK, NEW pass \in PassRecord, PassOK(pass, intents, bids, now)
    PROVE  PassOK(pass, intents', bids', now')
<1> DEFINE i == pass.intent
<1>1. /\ now \in Nat /\ now' \in Nat /\ now' >= now /\ REVEAL_WINDOW \in Nat
      /\ pass.seen \in Seq(BidRecord) /\ pass.count \in Nat /\ pass.readAt \in Nat
  BY IntentRegistryAssumption DEF ChainOK, IRInv, SRInv, SRTypeOK, PassRecord
<1>2. CASE pass.at = "idle"
  BY <1>2 DEF PassOK, Begun
<1>3. ASSUME pass.at /= "idle"
      PROVE  /\ i \in Intent
             /\ intents'[i].status /= "NONE"
             /\ intents'[i].auctionEndsAt = intents[i].auctionEndsAt
  BY <1>3 DEF PassOK, Begun, ChainOK, RecordKept, StatusOf
<1>4. CASE pass.at \in {"timing", "counting"}
  BY <1>3, <1>4 DEF PassOK, Begun
<1>5. CASE pass.at \in {"fetching", "ranking", "writing"}
  <2>1. Snapshot(pass, intents[i], bids[i], now)
    BY <1>5 DEF PassOK
  <2>2. i \in Intent /\ BookStepOK(i) /\ intents[i].auctionEndsAt \in Nat
        /\ bids[i] \in Seq(BidRecord) /\ bids'[i] \in Seq(BidRecord)
    BY <1>3, <1>5 DEF ChainOK, IRInv, BookInv, BookTypeOK, IntentRecord
  <2>3. Snapshot(pass, intents'[i], bids'[i], now')
    <3>1. CASE bids'[i] = bids[i]
      BY <1>1, <1>3, <1>5, <2>1, <3>1 DEF Snapshot
    <3>2. CASE bids'[i] /= bids[i]
      <4>1. /\ now <= intents[i].auctionEndsAt + REVEAL_WINDOW
            /\ Len(bids'[i]) >= Len(bids[i])
            /\ \A b \in BidIds(i) :
                  /\ bids'[i][b + 1].solver = Bid(i, b).solver
                  /\ bids'[i][b + 1].offer = Bid(i, b).offer
                  /\ Bid(i, b).withdrawn => bids'[i][b + 1].withdrawn
        BY <2>2, <3>2 DEF BookStepOK
      <4>2. ASSUME NEW b \in 1 .. Len(pass.seen)
            PROVE  /\ bids'[i][b].solver = pass.seen[b].solver
                   /\ bids'[i][b].offer  = pass.seen[b].offer
                   /\ pass.seen[b].withdrawn => bids'[i][b].withdrawn
        <5>1. Len(pass.seen) \in Nat /\ Len(bids[i]) \in Nat
          BY <1>1, <2>2
        <5>2. b - 1 \in BidIds(i) /\ (b - 1) + 1 = b
          BY <5>1, <1>1, <2>1, <4>2 DEF Snapshot, BidIds
        <5>3. /\ bids'[i][b].solver = bids[i][b].solver
              /\ bids'[i][b].offer = bids[i][b].offer
              /\ bids[i][b].withdrawn => bids'[i][b].withdrawn
          BY <5>2, <4>1 DEF Bid
        <5>4. QED
          BY <5>3, <2>1, <4>2 DEF Snapshot
      <4>3. pass.count <= Len(bids'[i])
        BY <1>1, <2>1, <2>2, <4>1 DEF Snapshot
      <4>4. ~(pass.readAt > intents[i].auctionEndsAt + REVEAL_WINDOW)
        BY <1>1, <2>1, <2>2, <4>1 DEF Snapshot
      <4>5. pass.readAt <= now'
        BY <1>1, <2>1 DEF Snapshot
      <4>6. QED
        BY <1>3, <1>5, <2>1, <4>2, <4>3, <4>4, <4>5 DEF Snapshot
    <3>3. QED
      BY <3>1, <3>2
  <2>4. QED
    BY <1>3, <1>5, <2>3 DEF PassOK, Begun
<1>6. QED
  BY <1>2, <1>4, <1>5 DEF PassRecord
-----------------------------------------------------------------------------
(* The steps of a pass. *)

LEMMA IdleOK ==
    ASSUME NEW is, NEW bk, NEW t
    PROVE  Idle \in PassRecord /\ Idle.at = "idle" /\ PassOK(Idle, is, bk, t)
BY DEF Idle, PassRecord, PassOK, Begun

\* One that only reads and thinks.
LEMMA ServiceStep ==
    ASSUME CInv, UNCHANGED vars, NEW p \in Call,
           NEW new \in PassRecord, PassOK(new, intents, bids, now),
           passes' = [passes EXCEPT ![p] = new],
           reputationCache' \in [Solver -> Score \cup {Nil}]
    PROVE  CInv'
<1>1. IRInv'
  BY NextInv DEF CInv
<1>2. UNCHANGED <<intents, bids, now>>
  BY DEF vars, intentVars, srVars
<1>3. passes' \in [Call -> PassRecord]
  BY DEF CInv, PassesOK
<1>4. ASSUME NEW q \in Call PROVE PassOK(passes'[q], intents', bids', now')
  <2>1. CASE q = p
    BY <1>2, <2>1 DEF CInv, PassesOK
  <2>2. CASE q /= p
    BY <1>2, <2>2 DEF CInv, PassesOK
  <2>3. QED
    BY <2>1, <2>2
<1>5. FeeIsWithinTheCap'
  BY <1>2 DEF CInv, FeeIsWithinTheCap, ByAuctioneer, Bid
<1>6. QED
  BY <1>1, <1>3, <1>4, <1>5 DEF CInv, PassesOK

LEMMA ReturnStep ==
    ASSUME CInv, UNCHANGED <<vars, reputationCache>>, NEW p \in Call, Return(p)
    PROVE  CInv'
BY IdleOK, ServiceStep DEF Return, CInv, PassesOK

LEMMA ReadRecordInv ==
    ASSUME CInv, NEW p \in Call, NEW i \in Intent, NEW policy \in Policy,
           ReadRecord(p, i, policy)
    PROVE  CInv'
<1> DEFINE new == [Idle EXCEPT !.at = "timing", !.intent = i, !.policy = policy]
<1>1. new \in PassRecord /\ new.at = "timing" /\ new.intent = i /\ new.seen = << >>
  BY IdleOK DEF PassRecord, Idle
<1>2. passes' = [passes EXCEPT ![p] = new]
  BY DEF ReadRecord
<1> HIDE DEF new
<1>3. PassOK(new, intents, bids, now)
  BY <1>1 DEF PassOK, Begun, ReadRecord, StatusOf
<1>4. QED
  BY <1>1, <1>2, <1>3, ServiceStep DEF ReadRecord, CInv, PassesOK

LEMMA ReadTimeInv ==
    ASSUME CInv, NEW p \in Call, ReadTime(p)
    PROVE  CInv'
<1> DEFINE new == [passes[p] EXCEPT !.at = "counting"]
<1>1. passes[p] \in PassRecord /\ PassOK(passes[p], intents, bids, now)
      /\ passes[p].at = "timing"
  BY DEF CInv, PassesOK, ReadTime
<1>2. /\ new \in PassRecord /\ new.at = "counting"
      /\ new.intent = passes[p].intent /\ new.seen = passes[p].seen
  BY <1>1 DEF PassRecord
<1>3. passes' = [passes EXCEPT ![p] = new] \/ Return(p)
  BY DEF ReadTime
<1> HIDE DEF new
<1>4. PassOK(new, intents, bids, now)
  BY <1>1, <1>2 DEF PassOK, Begun
<1>5. QED
  BY <1>2, <1>3, <1>4, ServiceStep, ReturnStep DEF ReadTime, CInv, PassesOK

LEMMA ReadCountInv ==
    ASSUME CInv, NEW p \in Call, ReadCount(p)
    PROVE  CInv'
<1> DEFINE i == passes[p].intent
           n == Len(bids[i])
           new == [passes[p] EXCEPT !.at = "fetching", !.count = n, !.readAt = now]
<1>1. passes[p] \in PassRecord /\ PassOK(passes[p], intents, bids, now)
      /\ passes[p].at = "counting"
  BY DEF CInv, PassesOK, ReadCount
<1>2. i \in Intent /\ intents[i].status /= "NONE" /\ passes[p].seen = << >>
  BY <1>1 DEF PassOK, Begun
<1>3. now \in Nat /\ n \in Nat /\ intents[i].auctionEndsAt \in Nat /\ REVEAL_WINDOW \in Nat
  BY <1>2, IntentRegistryAssumption
     DEF CInv, IRInv, SRInv, SRTypeOK, BookInv, BookTypeOK, IntentRecord
<1>4. CASE n = 0
  BY <1>4, ReturnStep DEF ReadCount
<1>5. CASE n /= 0
  <2>1. passes' = [passes EXCEPT ![p] = new]
    BY <1>5 DEF ReadCount
  <2>2. /\ new \in PassRecord /\ new.at = "fetching" /\ new.intent = i
        /\ new.seen = << >> /\ new.count = n /\ new.readAt = now
    BY <1>1, <1>2, <1>3 DEF PassRecord
  <2> HIDE DEF new
  <2>3. Len(new.seen) = 0 /\ 1 .. Len(new.seen) = {}
    BY <2>2
  <2>4. Snapshot(new, intents[i], bids[i], now)
    BY <1>3, <1>5, <2>2, <2>3 DEF Snapshot
  <2>5. PassOK(new, intents, bids, now)
    BY <1>2, <2>2, <2>4 DEF PassOK, Begun
  <2>6. QED
    BY <2>1, <2>2, <2>5, ServiceStep DEF ReadCount, CInv, PassesOK
<1>6. QED
  BY <1>4, <1>5

LEMMA ReadBidInv ==
    ASSUME CInv, NEW p \in Call, ReadBid(p)
    PROVE  CInv'
<1> DEFINE old  == passes[p]
           i    == old.intent
           next == Len(old.seen) + 1
           to   == IF next = old.count THEN "ranking" ELSE "fetching"
           more == Append(old.seen, bids[i][next])
           new  == [old EXCEPT !.seen = more, !.at = to]
<1>1. old \in PassRecord /\ PassOK(old, intents, bids, now) /\ old.at = "fetching"
  BY DEF CInv, PassesOK, ReadBid
<1>2. i \in Intent /\ intents[i].status /= "NONE" /\ Snapshot(old, intents[i], bids[i], now)
  BY <1>1 DEF PassOK, Begun
<1>3. bids[i] \in Seq(BidRecord) /\ old.seen \in Seq(BidRecord) /\ old.count \in Nat
  BY <1>1, <1>2 DEF CInv, IRInv, BookInv, BookTypeOK, PassRecord
<1>4. next \in 1 .. Len(bids[i]) /\ next <= old.count /\ Len(old.seen) \in Nat
  BY SMTT(30), <1>1, <1>2, <1>3 DEF Snapshot
<1>5. bids[i][next] \in BidRecord
  BY <1>3, <1>4
<1>6. passes' = [passes EXCEPT ![p] = new]
  BY <1>1 DEF ReadBid, PassRecord
<1>7. /\ new \in PassRecord /\ new.at = to /\ new.intent = i /\ new.count = old.count
      /\ new.seen = more /\ new.readAt = old.readAt
  <2>1. more \in Seq(BidRecord) /\ to \in {"fetching", "ranking"}
    BY <1>3, <1>5
  <2> HIDE DEF more, to
  <2>2. QED
    BY <1>1, <2>1 DEF PassRecord
<1>8. /\ Len(more) = next
      /\ more[next] = bids[i][next]
      /\ \A b \in 1 .. Len(old.seen) : more[b] = old.seen[b]
  BY <1>3, <1>5
<1>9. \A b \in 1 .. Len(more) : b \in 1 .. Len(old.seen) \/ b = next
  BY <1>4, <1>8
<1> HIDE DEF new, more
<1>10. Snapshot(new, intents[i], bids[i], now)
  <2>1. \A b \in 1 .. Len(new.seen) :
           /\ bids[i][b].solver = new.seen[b].solver
           /\ bids[i][b].offer  = new.seen[b].offer
           /\ new.seen[b].withdrawn => bids[i][b].withdrawn
    BY <1>2, <1>7, <1>8, <1>9 DEF Snapshot
  <2>2. old.readAt > intents[i].auctionEndsAt + REVEAL_WINDOW =>
           /\ old.count = Len(bids[i])
           /\ \A b \in 1 .. Len(new.seen) : new.seen[b] = bids[i][b]
    BY <1>2, <1>7, <1>8, <1>9 DEF Snapshot
  <2>3. /\ new.at = "fetching" => next < old.count
        /\ new.at /= "fetching" => next = old.count
    BY <1>3, <1>4, <1>7
  <2>4. QED
    BY <1>2, <1>4, <1>7, <1>8, <2>1, <2>2, <2>3 DEF Snapshot
<1>11. PassOK(new, intents, bids, now)
  BY <1>2, <1>7, <1>10 DEF PassOK, Begun
<1>12. QED
  BY <1>6, <1>7, <1>11, ServiceStep DEF ReadBid, CInv, PassesOK

\* Nothing is said of a pass's scores, kept or not.
LEMMA SamePass ==
    ASSUME NEW old, NEW new, NEW is, NEW bk, NEW t, PassOK(old, is, bk, t),
           new.at = old.at, new.intent = old.intent, new.policy = old.policy,
           new.seen = old.seen, new.count = old.count, new.winner = old.winner,
           new.readAt = old.readAt
    PROVE  PassOK(new, is, bk, t)
<1>1. Begun(new, is)
  BY DEF PassOK, Begun
<1>2. ASSUME NEW r, NEW book, Snapshot(old, r, book, t) PROVE Snapshot(new, r, book, t)
  <2>1. \A b \in 1 .. Len(new.seen) :
           /\ book[b].solver = new.seen[b].solver
           /\ book[b].offer  = new.seen[b].offer
           /\ new.seen[b].withdrawn => book[b].withdrawn
    BY <1>2, Zenon DEF Snapshot
  <2>2. new.readAt > r.auctionEndsAt + REVEAL_WINDOW =>
           /\ new.count = Len(book)
           /\ \A b \in 1 .. Len(new.seen) : new.seen[b] = book[b]
    BY <1>2, Zenon DEF Snapshot
  <2>3. /\ new.readAt <= t /\ Len(new.seen) <= new.count /\ new.count <= Len(book)
        /\ new.at = "fetching" => Len(new.seen) < new.count
        /\ new.at /= "fetching" => Len(new.seen) = new.count
    BY <1>2, Zenon DEF Snapshot
  <2>4. QED
    BY <2>1, <2>2, <2>3, Zenon DEF Snapshot
<1>3. Chosen(old) => Chosen(new)
  BY Zenon DEF Chosen
<1>4. QED
  BY <1>1, <1>2, <1>3, Zenon DEF PassOK

LEMMA ReadScoreInv ==
    ASSUME CInv, NEW p \in Call, NEW s \in Solver, ReadScore(p, s)
    PROVE  CInv'
<1> DEFINE old   == passes[p]
           score == IF reputationCache[s] /= Nil THEN reputationCache[s]
                    ELSE solvers[s].reputationBps
           row   == [old.scores EXCEPT ![s] = score]
           due   == IF reputationCache[s] /= Nil THEN old.unsaved ELSE old.unsaved \cup {s}
           new   == [old EXCEPT !.scores = row, !.unsaved = due]
<1>1. old \in PassRecord /\ PassOK(old, intents, bids, now)
  BY DEF CInv, PassesOK
<1>2. score \in Score \cup {Nil}
  BY DEF CInv, PassesOK, IRInv, SRInv, SRTypeOK, SolverRecord
<1>3. passes' = [passes EXCEPT ![p] = new]
  BY DEF ReadScore
<1>4. UNCHANGED vars /\ reputationCache' \in [Solver -> Score \cup {Nil}]
  BY DEF ReadScore, CInv, PassesOK
<1> HIDE DEF score
<1>5. row \in [Solver -> Score \cup {Nil}] /\ due \in SUBSET Solver
  BY <1>1, <1>2 DEF PassRecord
<1> HIDE DEF row, due
<1>6. /\ new \in PassRecord /\ new.at = old.at /\ new.intent = old.intent
      /\ new.policy = old.policy /\ new.seen = old.seen /\ new.count = old.count
      /\ new.winner = old.winner /\ new.readAt = old.readAt
  BY <1>1, <1>5 DEF PassRecord
<1> HIDE DEF new
<1>7. PassOK(new, intents, bids, now)
  BY ONLY <1>1, <1>6, SamePass
<1>8. QED
  BY <1>3, <1>4, <1>6, <1>7, ServiceStep

LEMMA KeepScoreInv ==
    ASSUME CInv, NEW p \in Call, NEW s \in Solver, KeepScore(p, s)
    PROVE  CInv'
<1> DEFINE old == passes[p]
           due == old.unsaved \ {s}
           new == [old EXCEPT !.unsaved = due]
<1>1. old \in PassRecord /\ PassOK(old, intents, bids, now)
  BY DEF CInv, PassesOK
<1>2. old.scores[s] \in Score \cup {Nil} /\ due \in SUBSET Solver
  BY <1>1 DEF PassRecord
<1>3. passes' = [passes EXCEPT ![p] = new]
  BY DEF KeepScore
<1>4. UNCHANGED vars /\ reputationCache' \in [Solver -> Score \cup {Nil}]
  BY <1>2 DEF KeepScore, CInv, PassesOK
<1> HIDE DEF due
<1>5. /\ new \in PassRecord /\ new.at = old.at /\ new.intent = old.intent
      /\ new.policy = old.policy /\ new.seen = old.seen /\ new.count = old.count
      /\ new.winner = old.winner /\ new.readAt = old.readAt
  BY <1>1, <1>2 DEF PassRecord
<1> HIDE DEF new
<1>6. PassOK(new, intents, bids, now)
  BY ONLY <1>1, <1>5, SamePass
<1>7. QED
  BY <1>3, <1>4, <1>5, <1>6, ServiceStep

LEMMA PickWinnerInv ==
    ASSUME CInv, NEW p \in Call, PickWinner(p)
    PROVE  CInv'
<1> DEFINE old == passes[p]
<1>1. old \in PassRecord /\ PassOK(old, intents, bids, now) /\ old.at = "ranking"
  BY DEF CInv, PassesOK, PickWinner, Ranked
<1>2. PICK b \in DOMAIN old.seen :
         /\ Eligible(p, b)
         /\ ~Dominated(p, b)
         /\ passes' = [passes EXCEPT ![p].at = "writing", ![p].winner = b - 1]
  BY DEF PickWinner
<1> DEFINE new == [old EXCEPT !.at = "writing", !.winner = b - 1]
<1>3. old.seen \in Seq(BidRecord) /\ b \in 1 .. Len(old.seen) /\ b - 1 \in Nat
      /\ (b - 1) + 1 = b
  BY <1>1, <1>2 DEF PassRecord
<1>4. passes' = [passes EXCEPT ![p] = new]
  BY <1>2
<1>5. /\ new \in PassRecord /\ new.at = "writing" /\ new.intent = old.intent
      /\ new.policy = old.policy /\ new.seen = old.seen /\ new.count = old.count
      /\ new.winner = b - 1 /\ new.readAt = old.readAt
  BY <1>1, <1>3 DEF PassRecord
<1> HIDE DEF new
<1>6. Chosen(new)
  <2>1. new.winner + 1 = b
    BY <1>3, <1>5
  <2>2. DOMAIN old.seen = 1 .. Len(old.seen)
    BY <1>3
  <2>3. QED
    BY <1>2, <1>3, <1>5, <2>1, <2>2 DEF Chosen, Eligible, Dominated
<1>7. PassOK(new, intents, bids, now)
  BY SMTT(30), <1>1, <1>5, <1>6 DEF PassOK, Begun, Snapshot
<1>8. QED
  BY <1>4, <1>5, <1>7, ServiceStep DEF PickWinner, CInv, PassesOK

\* The one step of a pass that writes the chain.
LEMMA LandInv ==
    ASSUME CInv, NEW p \in Call, Land(p)
    PROVE  CInv'
<1> DEFINE pass == passes[p]
           i    == pass.intent
           b    == pass.winner
<1>1. pass \in PassRecord /\ PassOK(pass, intents, bids, now) /\ pass.at = "writing" /\ IRInv
  BY DEF CInv, PassesOK, Land
<1>2. /\ i \in Intent
      /\ Snapshot(pass, intents[i], bids[i], now)
      /\ Chosen(pass)
  BY <1>1 DEF PassOK, Begun
<1>3. SelectWinner(i, b, InitAuctioneer) /\ pass.policy = intents[i].policy
  BY DEF Land, SelectWinnerChecked
<1>4. ChainOK
  BY <1>1, <1>2, <1>3, SelectChain
<1>5. PassesOK'
  <2>1. passes' = [passes EXCEPT ![p] = Idle] /\ UNCHANGED reputationCache
    BY DEF Land, Return
  <2>2. passes' \in [Call -> PassRecord]
    BY <2>1, IdleOK DEF CInv, PassesOK
  <2>3. ASSUME NEW q \in Call PROVE PassOK(passes'[q], intents', bids', now')
    <3>1. CASE q = p
      BY <2>1, <3>1, IdleOK DEF CInv, PassesOK
    <3>2. CASE q /= p
      <4>1. passes[q] \in PassRecord /\ PassOK(passes[q], intents, bids, now)
            /\ passes'[q] = passes[q]
        BY <2>1, <3>2 DEF CInv, PassesOK
      <4>2. QED
        BY <1>1, <1>4, <4>1, ChainKeepsPass
    <3>3. QED
      BY <3>1, <3>2
  <2>4. QED
    BY <2>1, <2>2, <2>3 DEF CInv, PassesOK
<1>6. ASSUME NEW j \in Intent, ByAuctioneer(intents'[j])
      PROVE  bids'[j][intents'[j].selectedBid + 1].offer.feeBps <= intents'[j].policy.maxFeeBps
  <2>1. CASE j = i
    <3>1. /\ intents'[i].selectedBid = b
          /\ intents'[i].policy = pass.policy
          /\ bids' = bids
      BY <1>1, <1>2, <1>3, SelectWinnerFacts
    <3>2. bids[i][b + 1].offer = pass.seen[b + 1].offer
      BY <1>2 DEF Snapshot, Chosen
    <3>3. QED
      BY <1>2, <2>1, <3>1, <3>2 DEF Chosen
  <2>2. CASE j /= i
    <3>1. intents'[j] = intents[j] /\ bids' = bids
      BY <1>1, <1>2, <1>3, <2>2, SelectWinnerFacts
    <3>2. QED
      BY <1>6, <3>1 DEF CInv, FeeIsWithinTheCap, Bid
  <2>3. QED
    BY <2>1, <2>2
<1>7. FeeIsWithinTheCap'
  BY <1>6 DEF FeeIsWithinTheCap, Bid, ByAuctioneer
<1>8. QED
  BY <1>4, <1>5, <1>7 DEF CInv, ChainOK

LEMMA PassStepInv ==
    ASSUME CInv, NEW p \in Call, PassStep(p)
    PROVE  CInv'
<1>1. CASE PickNobody(p) \/ Throw(p)
  BY <1>1, ReturnStep DEF PickNobody, Throw
<1>2. QED
  BY <1>1, ReadRecordInv, ReadTimeInv, ReadCountInv, ReadBidInv, ReadScoreInv,
     KeepScoreInv, PickWinnerInv, LandInv DEF PassStep

\* The timer's reset of the cache, and a step that changes nothing.
LEMMA RefreshInv ==
    ASSUME CInv, Refresh \/ UNCHANGED allVars
    PROVE  CInv'
<1>1. UNCHANGED <<vars, passes>> /\ reputationCache' \in [Solver -> Score \cup {Nil}]
  BY DEF Refresh, allVars, cVars, CInv, PassesOK
<1>2. IRInv' /\ UNCHANGED <<intents, bids, now>>
  BY <1>1, NextInv DEF CInv, vars, intentVars, srVars
<1>3. QED
  BY <1>1, <1>2 DEF CInv, PassesOK, FeeIsWithinTheCap, ByAuctioneer, Bid

LEMMA OthersStepInv ==
    ASSUME CInv, OthersStep
    PROVE  CInv'
<1>1. IRInv /\ [Next]_vars /\ UNCHANGED cVars
  BY DEF CInv, OthersStep
<1>2. ChainOK /\ \A i \in Intent : ChoiceKept(i)
  BY <1>1, OthersChain
<1>3. PassesOK'
  <2>1. ASSUME NEW q \in Call PROVE PassOK(passes[q], intents', bids', now')
    BY <1>1, <1>2, ChainKeepsPass DEF CInv, PassesOK
  <2>2. QED
    BY <1>1, <2>1 DEF CInv, PassesOK, cVars
<1>4. ASSUME NEW i \in Intent, ByAuctioneer(intents'[i])
      PROVE  bids'[i][intents'[i].selectedBid + 1].offer.feeBps <= intents'[i].policy.maxFeeBps
  <2>1. ByAuctioneer(intents[i])
    BY <1>4 DEF OthersStep, ByAuctioneer
  <2>2. /\ intents'[i].selectedBid = intents[i].selectedBid
        /\ intents'[i].policy = intents[i].policy
        /\ bids'[i] = bids[i]
    BY <1>2, <1>4, <2>1 DEF ChainOK, ChoiceKept, RecordKept, ByAuctioneer, StatusOf
  <2>3. QED
    BY <2>1, <2>2 DEF CInv, FeeIsWithinTheCap, Bid
<1>5. FeeIsWithinTheCap'
  BY <1>4 DEF FeeIsWithinTheCap, Bid, ByAuctioneer
<1>6. QED
  BY <1>2, <1>3, <1>5 DEF CInv, ChainOK

-----------------------------------------------------------------------------
(* The theorems. *)

LEMMA CInitInv == CInit => CInv
<1> SUFFICES ASSUME CInit PROVE CInv
  OBVIOUS
<1>1. IRInv
  BY InitInv DEF CInit
<1>2. PassesOK
  BY IdleOK DEF CInit, PassesOK
<1>3. FeeIsWithinTheCap
  BY DEF CInit, Init, FeeIsWithinTheCap, ByAuctioneer, NoIntent
<1>4. QED
  BY <1>1, <1>2, <1>3 DEF CInv

LEMMA CNextInv == CInv /\ [CNext]_allVars => CInv'
BY PassStepInv, RefreshInv, OthersStepInv DEF CNext

LEMMA CInvariance == CSpec => []CInv
BY CInitInv, CNextInv, PTL DEF CSpec

\* What a pass has read stays the beginning of the book, whatever lands between
\* its reads: getBids may mix states of the book, but not so that it matters.
THEOREM SnapshotsAreOfTheBook == CSpec => []SnapshotIsOfTheBook
<1>1. CInv => SnapshotIsOfTheBook
  <2> SUFFICES ASSUME CInv, NEW p \in Call,
                      passes[p].at \in {"fetching", "ranking", "writing"}
               PROVE  LET pass == passes[p]
                      IN  /\ Len(pass.seen) <= pass.count
                          /\ pass.count <= Len(bids[pass.intent])
                          /\ pass.at \in {"ranking", "writing"} => Len(pass.seen) = pass.count
                          /\ \A b \in DOMAIN pass.seen :
                                LET bid == bids[pass.intent][b]
                                IN  /\ bid.solver = pass.seen[b].solver
                                    /\ bid.offer  = pass.seen[b].offer
                                    /\ pass.seen[b].withdrawn => bid.withdrawn
    BY DEF SnapshotIsOfTheBook
  <2>1. Snapshot(passes[p], intents[passes[p].intent], bids[passes[p].intent], now)
        /\ passes[p].seen \in Seq(BidRecord)
    BY DEF CInv, PassesOK, PassOK, PassRecord
  <2>2. DOMAIN passes[p].seen = 1 .. Len(passes[p].seen)
    BY <2>1
  <2>3. QED
    BY <2>1, <2>2 DEF Snapshot
<1>2. QED
  BY <1>1, CInvariance, PTL

\* A winner chosen among bids counted after the reveal window is dominated by no
\* standing bid when the transaction lands, however late that is (close).
THEOREM LateReadsStaySafe == CSpec => []LateReadsAreSafe
<1>1. CInv => LateReadsAreSafe
  <2> SUFFICES ASSUME CInv, NEW p \in Call, passes[p].at = "writing",
                      passes[p].readAt > intents[passes[p].intent].auctionEndsAt + REVEAL_WINDOW,
                      NEW b \in BidIds(passes[p].intent),
                      ~Bid(passes[p].intent, b).withdrawn,
                      Bid(passes[p].intent, b).solver
                         /= Bid(passes[p].intent, passes[p].winner).solver
               PROVE  ~Dominates(Bid(passes[p].intent, b).offer,
                                 Bid(passes[p].intent, passes[p].winner).offer)
    BY DEF LateReadsAreSafe
  <2> DEFINE pass == passes[p]
             book == bids[pass.intent]
  <2>1. /\ Snapshot(pass, intents[pass.intent], book, now)
        /\ Chosen(pass)
        /\ pass.intent \in Intent
        /\ pass.seen \in Seq(BidRecord) /\ pass.winner \in Nat
    BY DEF CInv, PassesOK, PassOK, PassRecord, Begun
  <2>2. book \in Seq(BidRecord)
    BY <2>1 DEF CInv, IRInv, BookInv, BookTypeOK
  <2>3. /\ Len(pass.seen) = Len(book)
        /\ \A c \in 1 .. Len(pass.seen) : pass.seen[c] = book[c]
    BY <2>1 DEF Snapshot
  <2>4. b + 1 \in 1 .. Len(pass.seen) /\ pass.winner + 1 \in 1 .. Len(pass.seen)
    BY <2>1, <2>2, <2>3 DEF BidIds, Chosen
  <2>5. QED
    BY <2>1, <2>3, <2>4 DEF Chosen, Bid
<1>2. QED
  BY <1>1, CInvariance, PTL

\* Whatever draft the service is handed and whatever changes meanwhile, the fee of
\* a bid it selects is within the cap of the policy the intent committed to: the
\* eligibility test and the contract's test of the policy close the gap together.
THEOREM FeesAreWithinTheCap == CSpec => []FeeIsWithinTheCap
<1>1. CInv => FeeIsWithinTheCap
  BY DEF CInv
<1>2. QED
  BY <1>1, CInvariance, PTL


-----------------------------------------------------------------------------
(* The registry with its coordinator is still the registry. *)

BooksAreShort == \A i \in Intent : Len(bids[i]) <= MaxBids

LEMMA AppendedIsShort ==
    ASSUME NEW i \in Intent, NEW bid \in BidRecord, bids \in [Intent -> Seq(BidRecord)],
           Len(bids[i]) < MaxBids, bids' = [bids EXCEPT ![i] = Append(@, bid)]
    PROVE  Len(bids'[i]) <= MaxBids
<1>1. bids[i] \in Seq(BidRecord) /\ bids'[i] = Append(bids[i], bid)
  OBVIOUS
<1>2. Len(bids'[i]) = Len(bids[i]) + 1 /\ Len(bids[i]) \in Nat
  BY ONLY <1>1, bid \in BidRecord
<1>3. QED
  BY <1>2, IntentRegistryAssumption

LEMMA ShortStep ==
    ASSUME IRInv, BooksAreShort, [Next]_vars
    PROVE  BooksAreShort'
<1> SUFFICES ASSUME NEW i \in Intent PROVE Len(bids'[i]) <= MaxBids
  BY DEF BooksAreShort
<1>1. bids \in [Intent -> Seq(BidRecord)]
  BY DEF IRInv, BookInv, BookTypeOK
<1>2. CASE bids'[i] = bids[i]
  BY <1>2 DEF BooksAreShort
<1>3. ASSUME NEW s \in Solver, NEW offer \in Offer, PlaceBid(i, s, offer)
      PROVE  Len(bids'[i]) <= MaxBids
  <2>1. [solver |-> s, offer |-> offer, withdrawn |-> FALSE] \in BidRecord
    BY DEF BidRecord
  <2>2. QED
    BY <1>1, <1>3, <2>1, AppendedIsShort DEF PlaceBid
<1>4. ASSUME NEW s \in Solver, RevealBid(i, s)
      PROVE  Len(bids'[i]) <= MaxBids
  <2>1. bidCommitments[i][s] \in Offer
    BY <1>4 DEF RevealBid, IRInv, BookInv, BookTypeOK
  <2>2. [solver |-> s, offer |-> bidCommitments[i][s], withdrawn |-> FALSE] \in BidRecord
    BY <2>1 DEF BidRecord
  <2>3. QED
    BY <1>1, <1>4, <2>2, AppendedIsShort DEF RevealBid
<1>5. ASSUME NEW b, WithdrawBid(i, b)
      PROVE  Len(bids'[i]) <= MaxBids
  <2>1. bids[i] \in Seq(BidRecord)
        /\ bids'[i] = [bids[i] EXCEPT ![b + 1] = [bids[i][b + 1] EXCEPT !.withdrawn = TRUE]]
    BY <1>1, <1>5 DEF WithdrawBid
  <2>2. Len(bids'[i]) = Len(bids[i])
    BY <2>1
  <2>3. QED
    BY <2>2 DEF BooksAreShort
<1>6. CASE UNCHANGED bids
  BY <1>2, <1>6
<1>7. CASE IntentStep(i)
  <2>1. CASE Bidding(i)
    BY <1>3, <1>4, <1>6, <2>1 DEF Bidding, CommitBid
  <2>2. CASE Choosing(i)
    BY <1>5, <1>6, <2>2 DEF Choosing, ChallengeSelection, SelectWinner, SelectWinnerChecked
  <2>3. CASE Declare(i) \/ Cancel(i) \/ Expire(i) \/ Settle(i) \/ ReportFailure(i)
    BY <1>6, <2>3 DEF Declare, Submit, Cancel, Expire, Settle, ReportFailure
  <2>4. QED
    BY <1>7, <2>1, <2>2, <2>3 DEF IntentStep
<1>8. ASSUME NEW j \in Intent \ {i}, IntentStep(j) PROVE bids'[i] = bids[i]
  BY <1>8, OtherIntents
<1>9. CASE RegistryGovernance \/ SolverRegistryStep \/ UNCHANGED vars
  BY <1>2, <1>9, NoIntentStep
<1>10. QED
  BY <1>2, <1>7, <1>8, <1>9 DEF Next

\* What a pass does to the chain is the auctioneer's selectWinner, or nothing.
LEMMA ServiceIsRegistryStep ==
    ASSUME CInv, BooksAreShort, [CNext]_allVars
    PROVE  [Next]_vars
<1>1. ASSUME NEW p \in Call, Land(p) PROVE Next
  <2> DEFINE pass == passes[p]
             i    == pass.intent
             b    == pass.winner
  <2>1. pass \in PassRecord /\ PassOK(pass, intents, bids, now) /\ pass.at = "writing"
    BY <1>1 DEF CInv, PassesOK, Land
  <2>2. i \in Intent /\ b \in Nat
    BY <2>1 DEF PassOK, Begun, PassRecord
  <2>3. SelectWinner(i, b, InitAuctioneer) /\ b \in BidIds(i)
    BY <1>1 DEF Land, SelectWinnerChecked
  <2> HIDE DEF i, b
  <2>4. bids[i] \in Seq(BidRecord) /\ Len(bids[i]) <= MaxBids
    BY <2>2 DEF CInv, IRInv, BookInv, BookTypeOK, BooksAreShort
  <2>5. b \in 0 .. MaxBids - 1
    <3>1. Len(bids[i]) \in Nat /\ b \in 0 .. Len(bids[i]) - 1
      BY <2>3, <2>4 DEF BidIds
    <3>2. QED
      BY <2>4, <3>1, IntentRegistryAssumption
  <2>6. InitAuctioneer \in Address
    BY DEF Address
  <2>7. Choosing(i)
    BY <2>3, <2>5, <2>6 DEF Choosing
  <2>8. QED
    BY <2>2, <2>7 DEF Next, IntentStep
<1>2. ASSUME NEW p \in Call, PassStep(p) PROVE Next \/ UNCHANGED vars
  BY <1>1, <1>2 DEF PassStep, ReadRecord, ReadTime, ReadCount, ReadBid, ReadScore,
                    KeepScore, PickWinner, PickNobody, Throw
<1>3. Refresh => UNCHANGED vars
  BY DEF Refresh
<1>4. OthersStep => Next
  BY DEF OthersStep
<1>5. UNCHANGED allVars => UNCHANGED vars
  BY DEF allVars
<1>6. QED
  BY <1>2, <1>3, <1>4, <1>5 DEF CNext

\* However many passes overlap and whatever they have read, all the service does to
\* the chain it could do as the registry's auctioneer: every theorem of the registry,
\* and that it implements the abstract market, holds with the coordinator at work.
THEOREM CoordinatorIsOnTheRegistry == CSpec => Spec
<1>1. CInit => Init /\ CInv /\ BooksAreShort
  <2> SUFFICES ASSUME CInit PROVE Init /\ CInv /\ BooksAreShort
    OBVIOUS
  <2>1. Init /\ CInv
    BY CInitInv DEF CInit
  <2>2. \A i \in Intent : bids[i] = << >>
    BY <2>1 DEF Init
  <2>3. BooksAreShort
    BY <2>2, IntentRegistryAssumption DEF BooksAreShort
  <2>4. QED
    BY <2>1, <2>3
<1>2. CInv /\ BooksAreShort /\ [CNext]_allVars => [Next]_vars
  BY ServiceIsRegistryStep
<1>3. CInv /\ BooksAreShort /\ [CNext]_allVars => (CInv /\ BooksAreShort)'
  <2>1. CInv => IRInv
    BY DEF CInv
  <2>2. QED
    BY <1>2, <2>1, CNextInv, ShortStep
<1>4. QED
  BY <1>1, <1>2, <1>3, PTL DEF CSpec, Spec


\* The pass of p lands on bids it counted when the reveals were over.
LandsLate(p, i) ==
    /\ passes[p].intent = i
    /\ passes[p].readAt > intents[i].auctionEndsAt + REVEAL_WINDOW
    /\ Land(p)

LEMMA LateStep ==
    ASSUME CInv, NEW p \in Call, NEW i \in Intent, LandsLate(p, i)
    PROVE  ~Beaten(i)'
<1> DEFINE pass == passes[p]
           b    == pass.winner
<1>1. /\ pass \in PassRecord /\ pass.at = "writing" /\ pass.intent = i
      /\ PassOK(pass, intents, bids, now)
  BY DEF LandsLate, Land, CInv, PassesOK
<1>2. b \in Nat /\ pass.readAt > intents[i].auctionEndsAt + REVEAL_WINDOW
  BY <1>1 DEF PassRecord, LandsLate
<1>3. SelectWinner(i, b, InitAuctioneer) /\ b \in BidIds(i)
  BY <1>1 DEF LandsLate, Land, SelectWinnerChecked
<1>4. IRInv
  BY DEF CInv
<1> HIDE DEF b
<1>5. intents'[i].selectedBid = b /\ bids' = bids
  BY <1>2, <1>3, <1>4, SelectWinnerFacts
<1>6. /\ Snapshot(pass, intents[i], bids[i], now)
      /\ Chosen(pass)
      /\ pass.seen \in Seq(BidRecord)
  BY <1>1 DEF PassOK, PassRecord
<1>7. bids[i] \in Seq(BidRecord)
  BY <1>4 DEF IRInv, BookInv, BookTypeOK
<1>8. /\ Len(pass.seen) = Len(bids[i])
      /\ \A c \in 1 .. Len(pass.seen) : pass.seen[c] = bids[i][c]
  BY <1>1, <1>2, <1>6 DEF Snapshot
<1>9. b + 1 \in 1 .. Len(pass.seen)
  BY <1>6 DEF Chosen, b
<1>10. ASSUME NEW c \in BidIds(i), ~bids[i][c + 1].withdrawn,
              bids[i][c + 1].solver /= bids[i][b + 1].solver
       PROVE  ~Dominates(bids[i][c + 1].offer, bids[i][b + 1].offer)
  <2>1. c + 1 \in 1 .. Len(pass.seen)
    BY <1>7, <1>8 DEF BidIds
  <2>2. pass.seen[c + 1] = bids[i][c + 1] /\ pass.seen[b + 1] = bids[i][b + 1]
    BY <1>8, <1>9, <2>1
  <2>3. QED
    BY <1>6, <1>10, <2>1, <2>2 DEF Chosen, b
<1>11. QED
  BY <1>5, <1>10 DEF Beaten, Bid, BidIds

\* The service that counts the bids when the reveals are over cannot lose its bond by
\* what it selects, however late the transaction lands: the selection is unbeaten when
\* it is made, and an unbeaten selection is never overturned by a challenge.
THEOREM LateSelectionsStand ==
    CSpec => /\ [][\A p \in Call, i \in Intent : LandsLate(p, i) => ~Beaten(i)']_allVars
             /\ RightChoiceIsSafe
<1>1. CInv /\ [CNext]_allVars =>
         \A p \in Call, i \in Intent : LandsLate(p, i) => ~Beaten(i)'
  BY LateStep
<1>2. CSpec => [][\A p \in Call, i \in Intent : LandsLate(p, i) => ~Beaten(i)']_allVars
  BY <1>1, CInvariance, PTL DEF CSpec
<1>3. QED
  BY <1>2, CoordinatorIsOnTheRegistry, RightChoicesAreSafe, PTL
=============================================================================
