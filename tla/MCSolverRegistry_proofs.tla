----------------------- MODULE MCSolverRegistry_proofs -----------------------
(***************************************************************************)
(* The cool-down of the solver registry, for every set of solvers, every   *)
(* delay and every choice of governance, with the history variable that    *)
(* the run keeps: the tick of each solver's last withdrawal.               *)
(***************************************************************************)
EXTENDS MCSolverRegistry, SolverRegistry_proofs

CoolDowns == {UnbondDelay} \cup Delays

\* A ticket that is out was given after the solver's last withdrawal, for one of
\* the delays there are.
TicketOK(last, ready, t) ==
    /\ last \in Nat \cup {Never}
    /\ last /= Never => last <= t
    /\ last /= Never /\ ready /= 0 => \E d \in CoolDowns : ready >= last + d

CoolDownInv ==
    /\ SRInv
    /\ unbondDelay \in CoolDowns
    /\ lastOut = [s \in Solver |-> lastOut[s]]
    /\ \A s \in Solver : TicketOK(lastOut[s], unbondReadyAt[s], now)

LEMMA CoolDownsAreNat == CoolDowns \subseteq Nat
BY SolverRegistryAssumption DEF CoolDowns

LEMMA MCInitInv == MCInit => CoolDownInv
<1> SUFFICES ASSUME MCInit PROVE CoolDownInv
  OBVIOUS
<1>1. SRInv
  BY SRInitInv DEF MCInit
<1>2. unbondDelay \in CoolDowns
  BY DEF MCInit, SRInit, CoolDowns
<1>3. lastOut = [s \in Solver |-> Never]
  BY DEF MCInit
<1>4. QED
  BY <1>1, <1>2, <1>3 DEF CoolDownInv, TicketOK

\* What a step does to a solver's ticket: it leaves it, spends it, or gives one
\* for the delay there is.
LEMMA TicketStep ==
    ASSUME SRInv, [SRNext]_srVars, NEW s \in Solver
    PROVE  /\ \/ unbondReadyAt'[s] = unbondReadyAt[s]
              \/ unbondReadyAt'[s] = 0
              \/ unbondReadyAt'[s] = now + unbondDelay
           /\ Withdraws(s) => unbondReadyAt'[s] = 0
           /\ now' \in {now, now + 1}
           /\ unbondDelay' \in {unbondDelay} \cup Delays
<1>1. unbondReadyAt \in [Solver -> Nat] /\ now \in Nat
  BY DEF SRInv, SRTypeOK
<1>2. Withdraws(s) => unbondReadyAt'[s] = 0
  BY <1>1 DEF Withdraws, Unbond
<1>3. CASE SolverStep
  <2>1. PICK r \in Solver :
           \/ \E v \in Amount : Register(r, v) \/ AddBond(r, v) \/ Unbond(r, v)
           \/ RequestUnbond(r)
           \/ \E caps \in SUBSET Cap : SetCapabilities(r, caps)
    BY <1>3 DEF SolverStep
  <2>2. CASE \E v \in Amount : Register(r, v) \/ AddBond(r, v) \/ Unbond(r, v)
    BY <1>1, <1>2, <2>2 DEF Register, AddBond, Unbond
  <2>3. CASE RequestUnbond(r)
    BY <1>1, <1>2, <2>3 DEF RequestUnbond
  <2>4. CASE \E caps \in SUBSET Cap : SetCapabilities(r, caps)
    BY <1>1, <1>2, <2>4 DEF SetCapabilities
  <2>5. QED
    BY <2>1, <2>2, <2>3, <2>4
<1>4. CASE ReporterStep
  BY <1>1, <1>2, <1>4 DEF ReporterStep, ReportOutcome, Slash
<1>5. CASE GovernanceStep
  BY <1>1, <1>2, <1>5
     DEF GovernanceStep, AttestKyb, SetMinBond, SetUnbondDelay, SetReporter
<1>6. CASE Tick
  BY <1>1, <1>2, <1>6 DEF Tick, solverVars
<1>7. CASE UNCHANGED srVars
  BY <1>1, <1>2, <1>7 DEF srVars, solverVars
<1>8. QED
  BY <1>3, <1>4, <1>5, <1>6, <1>7 DEF SRNext

\* A ticket stays in order when nothing is withdrawn, and is when it is spent.
LEMMA TicketKept ==
    ASSUME NEW last, NEW ready \in Nat, NEW t \in Nat, TicketOK(last, ready, t),
           NEW later \in {t, t + 1},
           NEW next, next \in {ready, 0} \/ \E delay \in CoolDowns : next = t + delay
    PROVE  TicketOK(last, next, later)
<1>1. last \in Nat \cup {Never} /\ (last /= Never => last <= t)
  BY DEF TicketOK
<1>2. last /= Never => last <= later
  BY <1>1 DEF Never
<1>3. ASSUME last /= Never, next /= 0 PROVE \E d \in CoolDowns : next >= last + d
  <2>1. CASE next = ready
    BY <1>3, <2>1 DEF TicketOK
  <2>2. ASSUME NEW delay \in CoolDowns, next = t + delay
        PROVE  \E d \in CoolDowns : next >= last + d
    <3>1. last \in Nat /\ last <= t /\ delay \in Nat
      BY <1>1, <1>3, CoolDownsAreNat
    <3>2. next >= last + delay
      BY <2>2, <3>1
    <3>3. QED
      BY <3>2
  <2>3. QED
    BY <1>3, <2>1, <2>2
<1>4. QED
  BY <1>1, <1>2, <1>3 DEF TicketOK

LEMMA CoolDownNext == CoolDownInv /\ [MCNext]_<<srVars, lastOut>> => CoolDownInv'
<1> SUFFICES ASSUME CoolDownInv, [MCNext]_<<srVars, lastOut>> PROVE CoolDownInv'
  OBVIOUS
<1>1. SRInv /\ [SRNext]_srVars
  BY DEF CoolDownInv, MCNext
<1>2. SRInv'
  BY <1>1, SRNextInv
<1>3. now \in Nat /\ unbondReadyAt \in [Solver -> Nat] /\ unbondDelay \in CoolDowns
  BY <1>1 DEF SRInv, SRTypeOK, CoolDownInv
<1>4. (unbondDelay \in CoolDowns)'
  <2>1. unbondDelay' \in {unbondDelay} \cup Delays \/ Solver = {}
    BY <1>1, TicketStep
  <2>2. CASE Solver = {}
    <3>1. SolverStep => FALSE
      BY <2>2 DEF SolverStep
    <3>2. ReporterStep => FALSE
      BY <2>2 DEF ReporterStep
    <3>3. [GovernanceStep \/ Tick]_srVars
      BY <1>1, <3>1, <3>2 DEF SRNext
    <3>4. unbondDelay' \in {unbondDelay} \cup Delays
      BY <2>2, <3>3 DEF GovernanceStep, SetMinBond, SetUnbondDelay, SetReporter, Tick,
                        srVars, solverVars
    <3>5. QED
      BY <3>4, <1>3 DEF CoolDowns
  <2>3. QED
    BY <2>1, <2>2, <1>3 DEF CoolDowns
<1>5. lastOut' = [s \in Solver |-> lastOut'[s]]
  BY DEF CoolDownInv, MCNext
<1>6. ASSUME NEW s \in Solver PROVE TicketOK(lastOut'[s], unbondReadyAt'[s], now')
  <2>1. /\ unbondReadyAt'[s] \in {unbondReadyAt[s], 0, now + unbondDelay}
        /\ Withdraws(s) => unbondReadyAt'[s] = 0
        /\ now' \in {now, now + 1}
    BY <1>1, TicketStep
  <2>2. unbondReadyAt[s] \in Nat /\ TicketOK(lastOut[s], unbondReadyAt[s], now)
    BY <1>3 DEF CoolDownInv
  <2>3. CASE lastOut'[s] = lastOut[s]
    <3>1. /\ \/ unbondReadyAt'[s] \in {unbondReadyAt[s], 0}
             \/ \E delay \in CoolDowns : unbondReadyAt'[s] = now + delay
          /\ now' \in {now, now + 1}
          /\ unbondReadyAt[s] \in Nat /\ now \in Nat
          /\ TicketOK(lastOut[s], unbondReadyAt[s], now)
      BY <1>3, <2>1, <2>2
    <3>2. TicketOK(lastOut[s], unbondReadyAt'[s], now')
      BY ONLY <3>1, TicketKept
    <3>3. QED
      BY <2>3, <3>2
  <2>4. CASE lastOut'[s] /= lastOut[s]
    <3>1. Withdraws(s) /\ lastOut'[s] = now
      BY <2>4 DEF MCNext
    <3>2. unbondReadyAt'[s] = 0 /\ now <= now'
      BY <1>3, <2>1, <3>1
    <3>3. QED
      BY <1>3, <3>1, <3>2 DEF TicketOK
  <2>5. QED
    BY <2>3, <2>4
<1>7. (\A s \in Solver : TicketOK(lastOut[s], unbondReadyAt[s], now))'
  BY <1>6 DEF TicketOK
<1>8. QED
  BY <1>2, <1>4, <1>5, <1>7 DEF CoolDownInv

\* One request buys one withdrawal, whatever happens in between, a slash, being
\* struck off, registering again or a change of the delay: two withdrawals of a
\* solver are at least the shortest cool-down apart (requestUnbond, unbond).
THEOREM CoolDownsApply == MCSpec => CooldownPerWithdrawal
<1> DEFINE Apart ==
       \A s \in Solver :
          Withdraws(s) /\ lastOut[s] /= Never =>
             \E d \in {UnbondDelay} \cup Delays : now >= lastOut[s] + d
<1>1. CoolDownInv => Apart
  <2> SUFFICES ASSUME CoolDownInv, NEW s \in Solver, Withdraws(s), lastOut[s] /= Never
               PROVE  \E d \in {UnbondDelay} \cup Delays : now >= lastOut[s] + d
    OBVIOUS
  <2>1. unbondReadyAt[s] \in Nat /\ unbondReadyAt[s] /= 0 /\ now >= unbondReadyAt[s]
    BY DEF CoolDownInv, SRInv, SRTypeOK, Withdraws, Unbond
  <2>2. now \in Nat /\ lastOut[s] \in Nat
    BY DEF CoolDownInv, SRInv, SRTypeOK, TicketOK
  <2>3. PICK d \in CoolDowns : unbondReadyAt[s] >= lastOut[s] + d
    BY <2>1 DEF CoolDownInv, TicketOK
  <2>4. d \in Nat
    BY CoolDownsAreNat
  <2>5. now >= lastOut[s] + d
    BY <2>1, <2>2, <2>3, <2>4
  <2>6. QED
    BY <2>5 DEF CoolDowns
<1>2. MCInit => CoolDownInv
  BY MCInitInv
<1>3. CoolDownInv /\ [MCNext]_<<srVars, lastOut>> => CoolDownInv'
  BY CoolDownNext
<1>4. CoolDownInv /\ [MCNext]_<<srVars, lastOut>> => [Apart]_<<srVars, lastOut>>
  BY <1>1
<1>5. QED
  BY <1>2, <1>3, <1>4, PTL DEF MCSpec, CooldownPerWithdrawal
=============================================================================
