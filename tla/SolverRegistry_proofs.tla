------------------------ MODULE SolverRegistry_proofs ------------------------
(***************************************************************************)
(* The solver registry's invariants, for every set of solvers, every       *)
(* amount and every governance choice.                                     *)
(***************************************************************************)
EXTENDS SolverRegistry, TLAPS

\* The exponential moving average, on numbers.
LEMMA AverageUp ==
    ASSUME NEW r \in Int, 0 <= r, r <= 10000
    PROVE  /\ (r * 8000 + 10000 * 2000) \div 10000 \in Int
           /\ (r * 8000 + 10000 * 2000) \div 10000 >= r
           /\ (r * 8000 + 10000 * 2000) \div 10000 <= 10000
OBVIOUS

LEMMA AverageDown ==
    ASSUME NEW r \in Int, 0 <= r, r <= 10000
    PROVE  /\ (r * 8000 + 0 * 2000) \div 10000 \in Int
           /\ (r * 8000 + 0 * 2000) \div 10000 >= 0
           /\ (r * 8000 + 0 * 2000) \div 10000 <= r
OBVIOUS

\* The fields of a record, one by one, and the record they make again.
LEMMA RecordFields ==
    ASSUME NEW rec \in SolverRecord
    PROVE  /\ rec.registered \in BOOLEAN
           /\ rec.bond \in Nat
           /\ rec.reputationBps \in Score
           /\ rec.fulfilled \in Nat
           /\ rec.failed \in Nat
BY DEF SolverRecord

LEMMA ScoreFacts ==
    /\ \A r \in Score : r \in Int /\ 0 <= r /\ r <= 10000
    /\ \A r \in Int : 0 <= r /\ r <= 10000 => r \in Score
    /\ SEED_SCORE \in Score
BY SMTT(30) DEF Score, BPS, SEED_SCORE

\* What reportOutcome makes of a record: the score stays in 0 .. BPS and moves
\* in the direction of the outcome only, one counter grows by one, and the bond
\* and the registration are untouched.
LEMMA SuccessFacts ==
    ASSUME NEW rec \in SolverRecord
    PROVE  LET new == AfterOutcome(rec, TRUE)
           IN  /\ new \in SolverRecord
               /\ new.bond = rec.bond
               /\ new.registered = rec.registered
               /\ new.reputationBps >= rec.reputationBps
               /\ new.fulfilled = rec.fulfilled + 1
               /\ new.failed = rec.failed
<1> DEFINE r == rec.reputationBps
           q == (r * 8000 + 10000 * 2000) \div 10000
           n == rec.fulfilled + 1
<1>1. r \in Int /\ 0 <= r /\ r <= 10000
  BY RecordFields, ScoreFacts
<1>2. q \in Score /\ q >= r
  BY <1>1, AverageUp, ScoreFacts
<1>3. n \in Nat
  BY RecordFields
<1>4. AfterOutcome(rec, TRUE) = [rec EXCEPT !.reputationBps = q, !.fulfilled = n, !.failed = rec.failed]
  <2>1. BPS = 10000 /\ BPS - EMA_ALPHA_BPS = 8000 /\ EMA_ALPHA_BPS = 2000
    BY DEF BPS, EMA_ALPHA_BPS
  <2>2. QED
    BY <2>1 DEF AfterOutcome
<1> HIDE DEF q, n
<1>5. [rec EXCEPT !.reputationBps = q, !.fulfilled = n, !.failed = rec.failed] \in SolverRecord
  BY <1>2, <1>3, RecordFields DEF SolverRecord
<1>6. QED
  BY <1>2, <1>4, <1>5, RecordFields DEF SolverRecord, n

LEMMA FailureFacts ==
    ASSUME NEW rec \in SolverRecord
    PROVE  LET new == AfterOutcome(rec, FALSE)
           IN  /\ new \in SolverRecord
               /\ new.bond = rec.bond
               /\ new.registered = rec.registered
               /\ new.reputationBps <= rec.reputationBps
               /\ new.failed = rec.failed + 1
               /\ new.fulfilled = rec.fulfilled
<1> DEFINE r == rec.reputationBps
           q == (r * 8000 + 0 * 2000) \div 10000
           n == rec.failed + 1
<1>1. r \in Int /\ 0 <= r /\ r <= 10000
  BY RecordFields, ScoreFacts
<1>2. q \in Score /\ q <= r
  BY <1>1, AverageDown, ScoreFacts
<1>3. n \in Nat
  BY RecordFields
<1>4. AfterOutcome(rec, FALSE) = [rec EXCEPT !.reputationBps = q, !.fulfilled = rec.fulfilled, !.failed = n]
  <2>1. BPS = 10000 /\ BPS - EMA_ALPHA_BPS = 8000 /\ EMA_ALPHA_BPS = 2000
    BY DEF BPS, EMA_ALPHA_BPS
  <2>2. QED
    BY <2>1 DEF AfterOutcome
<1> HIDE DEF q, n
<1>5. [rec EXCEPT !.reputationBps = q, !.fulfilled = rec.fulfilled, !.failed = n] \in SolverRecord
  BY <1>2, <1>3, RecordFields DEF SolverRecord
<1>6. QED
  BY <1>2, <1>4, <1>5, RecordFields DEF SolverRecord, n

\* What slash makes of a record: it takes at most the bond, strikes the solver
\* off when the rest is short of minBond, and touches nothing else.
LEMMA SlashFacts ==
    ASSUME NEW rec \in SolverRecord, NEW amount \in Nat, minBond \in Nat
    PROVE  LET new == AfterSlash(rec, amount)
           IN  /\ new \in SolverRecord
               /\ Taken(rec, amount) \in 0 .. rec.bond
               /\ new.bond = rec.bond - Taken(rec, amount)
               /\ new.registered => rec.registered
               /\ new.registered => new.bond = rec.bond \/ new.bond >= minBond
               /\ new.reputationBps = rec.reputationBps
               /\ new.fulfilled = rec.fulfilled
               /\ new.failed = rec.failed
<1> DEFINE take == Taken(rec, amount)
           left == rec.bond - take
           kept == rec.registered /\ left >= minBond
<1>1. take \in Nat /\ take <= rec.bond /\ left \in Nat
  BY RecordFields DEF Taken
<1>2. CASE take = 0
  BY <1>1, <1>2, RecordFields DEF AfterSlash
<1>3. CASE take /= 0
  <2>1. AfterSlash(rec, amount) = [rec EXCEPT !.bond = left, !.registered = kept]
    BY <1>3 DEF AfterSlash
  <2>2. kept \in BOOLEAN
    OBVIOUS
  <2> HIDE DEF take, left, kept
  <2>3. [rec EXCEPT !.bond = left, !.registered = kept] \in SolverRecord
    BY <1>1, <2>2 DEF SolverRecord
  <2> DEFINE new == [rec EXCEPT !.bond = left, !.registered = kept]
  <2>4. /\ new.bond = left
        /\ new.registered = kept
        /\ new.reputationBps = rec.reputationBps
        /\ new.fulfilled = rec.fulfilled
        /\ new.failed = rec.failed
    BY DEF SolverRecord
  <2>5. (kept => rec.registered) /\ (kept => left >= minBond) /\ left = rec.bond - take
    BY DEF kept, left
  <2> HIDE DEF new
  <2>6. AfterSlash(rec, amount) = new /\ Taken(rec, amount) = take
    BY <2>1 DEF new, take
  <2>7. QED
    BY <1>1, <2>3, <2>4, <2>5, <2>6 DEF new
<1>4. QED
  BY <1>2, <1>3

-----------------------------------------------------------------------------
(* The inductive invariant.  Every property is pointwise in the solver, so it  *)
(* is stated of one record and the ether behind it; minBond is tied to the     *)
(* values governance has, which is what covers a solver that stays registered. *)

RecordOK(rec, ether) ==
    /\ rec \in SolverRecord
    /\ rec.bond <= ether
    /\ rec.registered => \E m \in {InitMinBond} \cup MinBonds : rec.bond >= m
    /\ rec.registered /\ rec.fulfilled = 0 => rec.reputationBps <= SEED_SCORE
    /\ rec.registered /\ rec.failed = 0    => rec.reputationBps >= SEED_SCORE

SRInv ==
    /\ SRTypeOK
    /\ minBond \in {InitMinBond} \cup MinBonds
    /\ \A s \in Solver : RecordOK(solvers[s], escrow[s])

\* The invariant implies the three properties the runs check.
LEMMA SRInvImplies == SRInv => Solvency /\ RegisteredIsCovered /\ ScoreIsEarned
BY DEF SRInv, RecordOK, Solvency, RegisteredIsCovered, ScoreIsEarned

LEMMA SRInitInv == SRInit => SRInv
<1> SUFFICES ASSUME SRInit PROVE SRInv
  OBVIOUS
<1>1. NoRecord \in SolverRecord
  <2>1. 0 \in Score
    BY ScoreFacts
  <2>2. QED
    BY <2>1 DEF NoRecord, SolverRecord
<1>2. RecordOK(NoRecord, 0)
  BY <1>1 DEF RecordOK, NoRecord
<1>3. SRTypeOK
  BY <1>1, SolverRegistryAssumption DEF SRInit, SRTypeOK
<1>4. QED
  BY <1>2, <1>3 DEF SRInit, SRInv

\* A step that leaves one solver with a record and an escrow that are in order,
\* and the others alone, keeps the invariant.
LEMMA OneRecordStep ==
    ASSUME SRInv, NEW s \in Solver, NEW new, NEW ether \in Nat,
           RecordOK(new, ether),
           solvers' = [solvers EXCEPT ![s] = new],
           escrow'  = [escrow EXCEPT ![s] = ether],
           unbondReadyAt' \in [Solver -> Nat],
           UNCHANGED <<kybAttested, capabilities, minBond, unbondDelay, isReporter, now>>
    PROVE  SRInv'
<1>1. new \in SolverRecord
  BY DEF RecordOK
<1>2. SRTypeOK'
  BY <1>1 DEF SRInv, SRTypeOK
<1>3. ASSUME NEW t \in Solver PROVE RecordOK(solvers'[t], escrow'[t])
  <2>1. CASE t = s
    BY <2>1 DEF SRInv, SRTypeOK
  <2>2. CASE t /= s
    BY <2>2 DEF SRInv, SRTypeOK
  <2>3. QED
    BY <2>1, <2>2
<1>4. (\A t \in Solver : RecordOK(solvers[t], escrow[t]))'
  BY <1>3 DEF RecordOK
<1>5. QED
  BY <1>2, <1>4 DEF SRInv

-----------------------------------------------------------------------------
(* One lemma per action that writes a record. *)

\* What the solver's own calls make of a record.
LEMMA RegisterFacts ==
    ASSUME NEW rec \in SolverRecord, NEW v \in Nat
    PROVE  LET new == AfterRegister(rec, v)
           IN  /\ new \in SolverRecord
               /\ new.registered /\ new.bond = v /\ new.reputationBps = SEED_SCORE
               /\ new.fulfilled = rec.fulfilled /\ new.failed = rec.failed
<1> DEFINE seed == SEED_SCORE
<1>1. seed \in Score
  BY ScoreFacts
<1> HIDE DEF seed
<1>2. AfterRegister(rec, v) = [rec EXCEPT !.registered = TRUE, !.bond = v, !.reputationBps = seed]
  BY DEF AfterRegister, seed
<1>3. [rec EXCEPT !.registered = TRUE, !.bond = v, !.reputationBps = seed] \in SolverRecord
  BY <1>1 DEF SolverRecord
<1>4. QED
  BY <1>2, <1>3 DEF SolverRecord, seed

LEMMA DepositFacts ==
    ASSUME NEW rec \in SolverRecord, NEW v \in Nat
    PROVE  LET new == AfterDeposit(rec, v)
           IN  /\ new \in SolverRecord
               /\ new.bond = rec.bond + v
               /\ new.registered = rec.registered
               /\ new.reputationBps = rec.reputationBps
               /\ new.fulfilled = rec.fulfilled
               /\ new.failed = rec.failed
<1> DEFINE sum == rec.bond + v
<1>1. sum \in Nat
  BY RecordFields
<1>2. AfterDeposit(rec, v) = [rec EXCEPT !.bond = sum]
  BY DEF AfterDeposit
<1> HIDE DEF sum
<1>3. QED
  BY <1>1, <1>2 DEF SolverRecord, sum

LEMMA UnbondFacts ==
    ASSUME NEW rec \in SolverRecord, NEW amount \in Nat, amount <= rec.bond,
           minBond \in Nat
    PROVE  LET new == AfterUnbond(rec, amount)
           IN  /\ new \in SolverRecord
               /\ new.bond = rec.bond - amount
               /\ new.registered <=> rec.bond - amount >= minBond
               /\ new.reputationBps = rec.reputationBps
               /\ new.fulfilled = rec.fulfilled
               /\ new.failed = rec.failed
<1> DEFINE left == rec.bond - amount
           stays == left >= minBond
<1>1. left \in Nat /\ stays \in BOOLEAN
  BY RecordFields
<1>2. AfterUnbond(rec, amount) = [rec EXCEPT !.bond = left, !.registered = stays]
  BY DEF AfterUnbond
<1> HIDE DEF left, stays
<1>3. [rec EXCEPT !.bond = left, !.registered = stays] \in SolverRecord
  BY <1>1 DEF SolverRecord
<1>4. stays <=> rec.bond - amount >= minBond
  BY DEF stays, left
<1>5. QED
  BY <1>2, <1>3, <1>4 DEF SolverRecord, left

LEMMA RegisterInv ==
    ASSUME SRInv, NEW s \in Solver, NEW v \in Amount, Register(s, v)
    PROVE  SRInv'
<1> DEFINE rec == solvers[s]
           new == AfterRegister(rec, v)
           ether == escrow[s] + v
<1>1. v \in Nat /\ rec \in SolverRecord /\ escrow[s] \in Nat
  BY SolverRegistryAssumption DEF SRInv, SRTypeOK
<1>2. ether \in Nat /\ v <= ether
  BY <1>1
<1>3. new \in SolverRecord /\ new.registered /\ new.bond = v /\ new.reputationBps = SEED_SCORE
  BY <1>1, RegisterFacts
<1>4. v >= minBond /\ minBond \in {InitMinBond} \cup MinBonds
  BY DEF Register, SRInv
<1>5. solvers' = [solvers EXCEPT ![s] = new] /\ escrow' = [escrow EXCEPT ![s] = ether]
  BY <1>1 DEF Register, SRInv, SRTypeOK
<1>6. RecordOK(new, ether)
  BY <1>2, <1>3, <1>4 DEF RecordOK, SEED_SCORE
<1>7. unbondReadyAt' \in [Solver -> Nat]
  BY DEF Register, SRInv, SRTypeOK
<1> HIDE DEF new, ether
<1>8. QED
  BY <1>2, <1>5, <1>6, <1>7, OneRecordStep DEF Register

LEMMA AddBondInv ==
    ASSUME SRInv, NEW s \in Solver, NEW v \in Amount, AddBond(s, v)
    PROVE  SRInv'
<1> DEFINE rec == solvers[s]
           new == AfterDeposit(rec, v)
           ether == escrow[s] + v
<1>1. v \in Nat /\ rec \in SolverRecord /\ escrow[s] \in Nat /\ RecordOK(rec, escrow[s])
  BY SolverRegistryAssumption DEF SRInv, SRTypeOK
<1>2. /\ new \in SolverRecord
      /\ new.bond = rec.bond + v
      /\ new.registered = rec.registered
      /\ new.reputationBps = rec.reputationBps
      /\ new.fulfilled = rec.fulfilled
      /\ new.failed = rec.failed
  BY <1>1, DepositFacts
<1>3. ether \in Nat /\ new.bond <= ether /\ new.bond >= rec.bond
  BY <1>1, <1>2, RecordFields DEF RecordOK
<1>4. new.registered => \E m \in {InitMinBond} \cup MinBonds : new.bond >= m
  <2> SUFFICES ASSUME new.registered
               PROVE  \E m \in {InitMinBond} \cup MinBonds : new.bond >= m
    OBVIOUS
  <2>1. PICK m \in {InitMinBond} \cup MinBonds : rec.bond >= m
    BY <1>1, <1>2 DEF RecordOK
  <2>2. m \in Nat /\ rec.bond \in Nat /\ new.bond \in Nat
    BY <1>1, <1>2, RecordFields, SolverRegistryAssumption
  <2>3. new.bond >= m
    BY <1>3, <2>1, <2>2
  <2>4. QED
    BY <2>3
<1>5. solvers' = [solvers EXCEPT ![s] = new] /\ escrow' = [escrow EXCEPT ![s] = ether]
  BY <1>1 DEF AddBond, SRInv, SRTypeOK
<1>6. unbondReadyAt' \in [Solver -> Nat]
  BY DEF AddBond, SRInv, SRTypeOK
<1> HIDE DEF new, ether
<1>7. RecordOK(new, ether)
  BY <1>1, <1>2, <1>3, <1>4 DEF RecordOK
<1>8. QED
  BY <1>3, <1>5, <1>6, <1>7, OneRecordStep DEF AddBond

LEMMA UnbondInv ==
    ASSUME SRInv, NEW s \in Solver, NEW v \in Amount, Unbond(s, v)
    PROVE  SRInv'
<1> DEFINE rec == solvers[s]
           new == AfterUnbond(rec, v)
           ether == escrow[s] - v
<1>1. /\ v \in Nat /\ rec \in SolverRecord /\ escrow[s] \in Nat /\ minBond \in Nat
      /\ RecordOK(rec, escrow[s]) /\ v <= rec.bond /\ rec.registered
      /\ minBond \in {InitMinBond} \cup MinBonds
  BY SolverRegistryAssumption DEF SRInv, SRTypeOK, Unbond
<1>2. /\ new \in SolverRecord
      /\ new.bond = rec.bond - v
      /\ new.registered <=> rec.bond - v >= minBond
      /\ new.reputationBps = rec.reputationBps
      /\ new.fulfilled = rec.fulfilled
      /\ new.failed = rec.failed
  BY <1>1, UnbondFacts
<1>3. ether \in Nat /\ new.bond <= ether
  BY <1>1, <1>2, RecordFields DEF RecordOK
<1>4. solvers' = [solvers EXCEPT ![s] = new] /\ escrow' = [escrow EXCEPT ![s] = ether]
  BY <1>1 DEF Unbond, SRInv, SRTypeOK
<1>5. unbondReadyAt' \in [Solver -> Nat]
  BY DEF Unbond, SRInv, SRTypeOK
<1> HIDE DEF new, ether
<1>6. RecordOK(new, ether)
  BY <1>1, <1>2, <1>3 DEF RecordOK
<1>7. QED
  BY <1>3, <1>4, <1>5, <1>6, OneRecordStep DEF Unbond

\* A report or a slash of a record that is in order leaves one in order; so does
\* a report followed by a slash, the pair a missed guarantee is.
LEMMA SuccessOK ==
    ASSUME NEW rec, NEW ether \in Nat, RecordOK(rec, ether)
    PROVE  RecordOK(AfterOutcome(rec, TRUE), ether)
<1>1. rec \in SolverRecord
  BY DEF RecordOK
<1> DEFINE new == AfterOutcome(rec, TRUE)
<1>2. /\ new \in SolverRecord
      /\ new.bond = rec.bond
      /\ new.registered = rec.registered
      /\ new.reputationBps >= rec.reputationBps
      /\ new.fulfilled = rec.fulfilled + 1
      /\ new.failed = rec.failed
  BY <1>1, SuccessFacts
<1> HIDE DEF new
<1>3. /\ rec.reputationBps \in Int
      /\ new.reputationBps \in Int
      /\ rec.fulfilled \in Nat
      /\ SEED_SCORE \in Int
  <2>1. rec.reputationBps \in Score /\ new.reputationBps \in Score /\ rec.fulfilled \in Nat
    BY <1>1, <1>2, RecordFields
  <2>2. QED
    BY <2>1, ScoreFacts
<1>4. new.fulfilled /= 0
  BY <1>2, <1>3
<1>5. new.registered /\ new.failed = 0 => new.reputationBps >= SEED_SCORE
  <2>1. new.registered /\ new.failed = 0 => rec.reputationBps >= SEED_SCORE
    BY <1>2 DEF RecordOK
  <2>2. QED
    BY <1>2, <1>3, <2>1
<1>6. RecordOK(new, ether)
  BY <1>2, <1>4, <1>5 DEF RecordOK
<1>7. QED
  BY <1>6 DEF new

LEMMA FailureOK ==
    ASSUME NEW rec, NEW ether \in Nat, RecordOK(rec, ether)
    PROVE  RecordOK(AfterOutcome(rec, FALSE), ether)
<1>1. rec \in SolverRecord
  BY DEF RecordOK
<1> DEFINE new == AfterOutcome(rec, FALSE)
<1>2. /\ new \in SolverRecord
      /\ new.bond = rec.bond
      /\ new.registered = rec.registered
      /\ new.reputationBps <= rec.reputationBps
      /\ new.failed = rec.failed + 1
      /\ new.fulfilled = rec.fulfilled
  BY <1>1, FailureFacts
<1> HIDE DEF new
<1>3. /\ rec.reputationBps \in Int
      /\ new.reputationBps \in Int
      /\ rec.failed \in Nat
      /\ SEED_SCORE \in Int
  <2>1. rec.reputationBps \in Score /\ new.reputationBps \in Score /\ rec.failed \in Nat
    BY <1>1, <1>2, RecordFields
  <2>2. QED
    BY <2>1, ScoreFacts
<1>4. new.failed /= 0
  BY <1>2, <1>3
<1>5. new.registered /\ new.fulfilled = 0 => new.reputationBps <= SEED_SCORE
  <2>1. new.registered /\ new.fulfilled = 0 => rec.reputationBps <= SEED_SCORE
    BY <1>2 DEF RecordOK
  <2>2. QED
    BY <1>2, <1>3, <2>1
<1>6. RecordOK(new, ether)
  BY <1>2, <1>4, <1>5 DEF RecordOK
<1>7. QED
  BY <1>6 DEF new

LEMMA SlashOK ==
    ASSUME NEW rec, NEW ether \in Nat, RecordOK(rec, ether), NEW amount \in Nat,
           minBond \in Nat, minBond \in {InitMinBond} \cup MinBonds
    PROVE  /\ ether - Taken(rec, amount) \in Nat
           /\ RecordOK(AfterSlash(rec, amount), ether - Taken(rec, amount))
<1> DEFINE new == AfterSlash(rec, amount)
           take == Taken(rec, amount)
<1>1. rec \in SolverRecord
  BY DEF RecordOK
<1>2. /\ new \in SolverRecord
      /\ take \in 0 .. rec.bond
      /\ new.bond = rec.bond - take
      /\ new.registered => rec.registered
      /\ new.registered => new.bond = rec.bond \/ new.bond >= minBond
      /\ new.reputationBps = rec.reputationBps
      /\ new.fulfilled = rec.fulfilled
      /\ new.failed = rec.failed
  BY <1>1, SlashFacts
<1> HIDE DEF new, take
<1>3. ether - take \in Nat /\ new.bond <= ether - take
  BY <1>1, <1>2, RecordFields DEF RecordOK
<1>4. new.registered => \E m \in {InitMinBond} \cup MinBonds : new.bond >= m
  BY <1>2 DEF RecordOK
<1>5. RecordOK(new, ether - take)
  BY <1>2, <1>3, <1>4 DEF RecordOK
<1>6. QED
  BY <1>3, <1>5 DEF new, take

LEMMA ReportOutcomeInv ==
    ASSUME SRInv, NEW s \in Solver, NEW success \in BOOLEAN, ReportOutcome(s, success)
    PROVE  SRInv'
<1> DEFINE new == AfterOutcome(solvers[s], success)
<1>1. escrow[s] \in Nat /\ RecordOK(solvers[s], escrow[s])
  BY DEF SRInv, SRTypeOK
<1>2. RecordOK(new, escrow[s])
  BY <1>1, SuccessOK, FailureOK
<1>3. solvers' = [solvers EXCEPT ![s] = new] /\ escrow' = [escrow EXCEPT ![s] = escrow[s]]
  BY <1>1 DEF ReportOutcome, SRInv, SRTypeOK
<1>4. unbondReadyAt' \in [Solver -> Nat]
  BY DEF ReportOutcome, SRInv, SRTypeOK
<1> HIDE DEF new
<1>5. QED
  BY <1>1, <1>2, <1>3, <1>4, OneRecordStep DEF ReportOutcome

LEMMA SlashInv ==
    ASSUME SRInv, NEW s \in Solver, NEW amount \in Amount, Slash(s, amount)
    PROVE  SRInv'
<1> DEFINE new == AfterSlash(solvers[s], amount)
           ether == escrow[s] - Taken(solvers[s], amount)
<1>1. /\ escrow[s] \in Nat /\ RecordOK(solvers[s], escrow[s]) /\ amount \in Nat
      /\ minBond \in Nat /\ minBond \in {InitMinBond} \cup MinBonds
  BY SolverRegistryAssumption DEF SRInv, SRTypeOK
<1>2. ether \in Nat /\ RecordOK(new, ether)
  BY <1>1, SlashOK
<1>3. solvers' = [solvers EXCEPT ![s] = new] /\ escrow' = [escrow EXCEPT ![s] = ether]
  BY <1>1 DEF Slash, SRInv, SRTypeOK
<1>4. unbondReadyAt' \in [Solver -> Nat]
  BY DEF Slash, SRInv, SRTypeOK
<1> HIDE DEF new, ether
<1>5. QED
  BY <1>2, <1>3, <1>4, OneRecordStep DEF Slash

\* A step that writes no record and pays nobody keeps the invariant as long as
\* what it does write keeps its type, and minBond stays one of its values.
LEMMA QuietStep ==
    ASSUME SRInv, UNCHANGED <<solvers, escrow>>,
           minBond' \in {InitMinBond} \cup MinBonds,
           unbondReadyAt' \in [Solver -> Nat],
           kybAttested' \in [Solver -> BOOLEAN],
           capabilities' \in [Solver -> SUBSET Cap],
           unbondDelay' \in Nat, isReporter' \in BOOLEAN, now' \in Nat
    PROVE  SRInv'
<1>1. minBond' \in Nat
  BY SolverRegistryAssumption
<1>2. SRTypeOK'
  BY <1>1 DEF SRInv, SRTypeOK
<1>3. (\A s \in Solver : RecordOK(solvers[s], escrow[s]))'
  BY DEF SRInv, RecordOK
<1>4. QED
  BY <1>2, <1>3 DEF SRInv

LEMMA SolverStepInv == SRInv /\ SolverStep => SRInv'
<1> SUFFICES ASSUME SRInv, NEW s \in Solver,
                    \/ \E v \in Amount : Register(s, v) \/ AddBond(s, v) \/ Unbond(s, v)
                    \/ RequestUnbond(s)
                    \/ \E caps \in SUBSET Cap : SetCapabilities(s, caps)
             PROVE  SRInv'
  BY DEF SolverStep
<1>1. ASSUME NEW v \in Amount, Register(s, v) \/ AddBond(s, v) \/ Unbond(s, v)
      PROVE  SRInv'
  BY <1>1, RegisterInv, AddBondInv, UnbondInv
<1>2. CASE RequestUnbond(s)
  <2>1. now + unbondDelay \in Nat
    BY DEF SRInv, SRTypeOK
  <2>2. unbondReadyAt' \in [Solver -> Nat]
    BY <1>2, <2>1 DEF RequestUnbond, SRInv, SRTypeOK
  <2>3. QED
    BY <1>2, <2>2, QuietStep DEF RequestUnbond, SRInv, SRTypeOK
<1>3. ASSUME NEW caps \in SUBSET Cap, SetCapabilities(s, caps)
      PROVE  SRInv'
  BY <1>3, QuietStep DEF SetCapabilities, SRInv, SRTypeOK
<1>4. QED
  BY <1>1, <1>2, <1>3

LEMMA GovernanceStepInv == SRInv /\ GovernanceStep => SRInv'
<1> SUFFICES ASSUME SRInv, GovernanceStep PROVE SRInv'
  OBVIOUS
<1>1. ASSUME NEW s \in Solver, NEW attested \in KybValues, AttestKyb(s, attested)
      PROVE  SRInv'
  BY <1>1, QuietStep, SolverRegistryAssumption DEF AttestKyb, SRInv, SRTypeOK
<1>2. ASSUME NEW v \in MinBonds, SetMinBond(v) PROVE SRInv'
  BY <1>2, QuietStep DEF SetMinBond, SRInv, SRTypeOK
<1>3. ASSUME NEW d \in Delays, SetUnbondDelay(d) PROVE SRInv'
  BY <1>3, QuietStep, SolverRegistryAssumption DEF SetUnbondDelay, SRInv, SRTypeOK
<1>4. ASSUME NEW allowed \in ReporterValues, SetReporter(allowed) PROVE SRInv'
  BY <1>4, QuietStep, SolverRegistryAssumption DEF SetReporter, SRInv, SRTypeOK
<1>5. QED
  BY <1>1, <1>2, <1>3, <1>4 DEF GovernanceStep

LEMMA TickInv == SRInv /\ Tick => SRInv'
<1> SUFFICES ASSUME SRInv, Tick PROVE SRInv'
  OBVIOUS
<1>1. now' \in Nat
  BY DEF Tick, SRInv, SRTypeOK
<1>2. QED
  BY <1>1, QuietStep DEF Tick, solverVars, SRInv, SRTypeOK

LEMMA SRStutterInv == SRInv /\ UNCHANGED srVars => SRInv'
BY QuietStep DEF srVars, solverVars, SRInv, SRTypeOK

LEMMA SRNextInv == SRInv /\ [SRNext]_srVars => SRInv'
<1> SUFFICES ASSUME SRInv, [SRNext]_srVars PROVE SRInv'
  OBVIOUS
<1>1. CASE SolverStep
  BY <1>1, SolverStepInv
<1>2. CASE ReporterStep
  BY <1>2, ReportOutcomeInv, SlashInv DEF ReporterStep
<1>3. CASE GovernanceStep
  BY <1>3, GovernanceStepInv
<1>4. CASE Tick
  BY <1>4, TickInv
<1>5. CASE UNCHANGED srVars
  BY <1>5, SRStutterInv
<1>6. QED
  BY <1>1, <1>2, <1>3, <1>4, <1>5 DEF SRNext

-----------------------------------------------------------------------------
LEMMA SRInvariance == SRSpec => []SRInv
<1>1. SRInit => SRInv
  BY SRInitInv
<1>2. SRInv /\ [SRNext]_srVars => SRInv'
  BY SRNextInv
<1>3. QED
  BY <1>1, <1>2, PTL DEF SRSpec

\* Every reachable state of the solver registry has its type; in particular the
\* uint16 score never leaves 0 .. BPS.
THEOREM SRTypeCorrect == SRSpec => []SRTypeOK
<1>1. SRInv => SRTypeOK
  BY DEF SRInv
<1>2. QED
  BY <1>1, SRInvariance, PTL

\* The contract never owes a bond it cannot pay, under any reporter.
THEOREM SolvencyHolds == SRSpec => []Solvency
<1>1. SRInv => Solvency
  BY SRInvImplies
<1>2. QED
  BY <1>1, SRInvariance, PTL

\* No interleaving of unbonding, slashing and changes of minBond leaves a solver
\* registered on a bond below every requirement there has been.
THEOREM CoverHolds == SRSpec => []RegisteredIsCovered
<1>1. SRInv => RegisteredIsCovered
  BY SRInvImplies
<1>2. QED
  BY <1>1, SRInvariance, PTL

\* A score above the seed was earned by a fulfilment, one below by a failure.
THEOREM ScoreHolds == SRSpec => []ScoreIsEarned
<1>1. SRInv => ScoreIsEarned
  BY SRInvImplies
<1>2. QED
  BY <1>1, SRInvariance, PTL
=============================================================================
