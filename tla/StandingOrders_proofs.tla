------------------------ MODULE StandingOrders_proofs ------------------------
(***************************************************************************)
(* What is true of signed messages and of the runs of jobs, for every set  *)
(* of owners, keys, requests, grants and jobs, however many ticks run, die, *)
(* overlap or give up, and whenever a message is handed in.                *)
(*                                                                         *)
(* SignatureCountsOnce is not inductive alone: that two intents carry      *)
(* different nonces says nothing of the next one.  NonceInv adds that what *)
(* was applied has a nonce below its owner's present one, and the types    *)
(* that say who the owners of messages, transactions and jobs are.         *)
(* BookInv adds what ticks hold and what is under way.  To it the later    *)
(* properties add what each needs: Limits for the types, Requests for the  *)
(* fallback, Runs and Extra for the counts of declarations, and Calm for   *)
(* what is true until something goes wrong.                                *)
(***************************************************************************)
EXTENDS StandingOrders, FiniteSetTheorems, TLAPS

What == ({"request"} \X Request) \cup ({"job"} \X Nat)

MessageRecord ==
    [owner : Owner, signer : Owner \cup Key, kind : Kind, what : What,
     closes : Nat, nonce : Int]
IntentRecord == [owner : Owner, what : What, nonce : Int, closes : Nat, at : Nat]
GrantRecord  == [owner : Owner, grant : Grant, nonce : Nat]
JobRecord ==
    [owner : Owner, kind : Kind, every : Nat, maxRuns : Nat, compiles : BOOLEAN, runs : Nat,
     nextRunAt : Nat, active : BOOLEAN]
SubmitCall == [by : Nat, call : {"submitFor"}, msg : MessageRecord]
MarkCall   == [by : Nat, call : {"markRun"}, job : Nat]

Types ==
    /\ now \in Nat
    /\ nonces \in [Owner -> Nat]
    /\ sessionNonces \in [Owner -> Nat]
    /\ intents \in Seq(IntentRecord)
    /\ messages \subseteq MessageRecord
    /\ grants \subseteq GrantRecord
    /\ used \in Seq(GrantRecord)
    /\ jobs \in Seq(JobRecord)
    /\ mempool \in Seq(SubmitCall \cup MarkCall)

\* What was applied of a list of messages is behind its owner's present nonce.
Behind(list, present) ==
    \A n \in DOMAIN list : list[n].nonce < present[list[n].owner]

\* No two of a list were applied with the same nonce of the same owner.
Apart(list) ==
    \A n, k \in DOMAIN list :
       n /= k /\ list[n].owner = list[k].owner /\ list[n].nonce /= -1
       => list[n].nonce /= list[k].nonce

Signatures ==
    /\ Behind(intents, nonces)
    /\ Apart(intents)
    /\ Behind(used, sessionNonces)
    /\ Apart(used)

NonceInv == Types /\ Signatures

-----------------------------------------------------------------------------
(* Applying a message. *)

\* A list stays apart and behind when a message with the present nonce is applied
\* and the nonce moves on.
LEMMA NextNonce ==
    ASSUME NEW R, NEW list \in Seq(R), NEW x \in R,
           \A y \in R : y.owner \in Owner /\ y.nonce \in Int,
           NEW present \in [Owner -> Nat],
           Behind(list, present), Apart(list), x.nonce = present[x.owner],
           NEW after \in [Owner -> Nat], after[x.owner] = present[x.owner] + 1,
           \A o \in Owner : present[o] <= after[o]
    PROVE  /\ Append(list, x) \in Seq(R)
           /\ Behind(Append(list, x), after)
           /\ Apart(Append(list, x))
<1> DEFINE more == Append(list, x)
<1>1. more \in Seq(R) /\ DOMAIN more = 1 .. Len(list) + 1 /\ DOMAIN list = 1 .. Len(list)
  OBVIOUS
<1>2. more[Len(list) + 1] = x /\ \A n \in DOMAIN list : more[n] = list[n] /\ list[n] \in R
  OBVIOUS
<1>3. after[x.owner] = present[x.owner] + 1
      /\ \A o \in Owner : present[o] \in Nat /\ after[o] \in Nat /\ present[o] <= after[o]
  OBVIOUS
<1> HIDE DEF more
<1>4. Behind(more, after)
  <2>1. ASSUME NEW n \in DOMAIN more PROVE more[n].nonce < after[more[n].owner]
    <3>1. CASE n = Len(list) + 1
      BY <3>1, <1>2, <1>3
    <3>2. CASE n \in DOMAIN list
      <4>1. list[n].nonce < present[list[n].owner]
        BY <3>2 DEF Behind
      <4>2. list[n].owner \in Owner /\ list[n].nonce \in Int
        BY <3>2, <1>2
      <4>3. QED
        BY <4>1, <4>2, <3>2, <1>2, <1>3
    <3>3. QED
      BY <3>1, <3>2, <1>1
  <2>2. QED
    BY <2>1 DEF Behind
<1>5. Apart(more)
  <2>1. ASSUME NEW n \in DOMAIN more, NEW k \in DOMAIN more, n /= k,
               more[n].owner = more[k].owner, more[n].nonce /= -1
        PROVE  more[n].nonce /= more[k].nonce
    <3>1. CASE n \in DOMAIN list /\ k \in DOMAIN list
      BY ZenonT(30), <2>1, <3>1, <1>2 DEF Apart
    <3>2. ASSUME NEW j \in DOMAIN list, list[j].owner = x.owner
          PROVE  list[j].nonce /= x.nonce
      <4>1. list[j].nonce < present[x.owner]
        BY <3>2 DEF Behind
      <4>2. list[j].nonce \in Int /\ x.owner \in Owner
        BY <1>2
      <4>3. QED
        BY <4>1, <4>2
    <3>3. n \in DOMAIN list \/ n = Len(list) + 1
      BY <1>1
    <3>4. k \in DOMAIN list \/ k = Len(list) + 1
      BY <1>1
    <3>5. QED
      BY <2>1, <3>1, <3>2, <3>3, <3>4, <1>2
  <2>2. QED
    BY <2>1 DEF Apart
<1>6. QED
  BY <1>1, <1>3, <1>4, <1>5 DEF more

\* What is declared without a message takes no nonce and takes none away.
LEMMA NoNonce ==
    ASSUME NEW R, NEW list \in Seq(R), NEW x \in R,
           \A y \in R : y.owner \in Owner /\ y.nonce \in Int,
           NEW present \in [Owner -> Nat],
           Behind(list, present), Apart(list), x.nonce = -1
    PROVE  /\ Append(list, x) \in Seq(R)
           /\ Behind(Append(list, x), present)
           /\ Apart(Append(list, x))
<1> DEFINE more == Append(list, x)
<1>1. more \in Seq(R) /\ DOMAIN more = 1 .. Len(list) + 1 /\ DOMAIN list = 1 .. Len(list)
  OBVIOUS
<1>2. more[Len(list) + 1] = x /\ \A n \in DOMAIN list : more[n] = list[n] /\ list[n] \in R
  OBVIOUS
<1> HIDE DEF more
<1>3. present[x.owner] \in Nat
  OBVIOUS
<1>4. \A n \in DOMAIN more : n \in DOMAIN list \/ n = Len(list) + 1
  BY <1>1
<1>5. Behind(more, present)
  BY <1>2, <1>3, <1>4 DEF Behind
<1>6. Apart(more)
  <2>1. ASSUME NEW n \in DOMAIN more, NEW k \in DOMAIN more, n /= k,
               more[n].owner = more[k].owner, more[n].nonce /= -1
        PROVE  more[n].nonce /= more[k].nonce
    <3>1. n \in DOMAIN list
      BY <2>1, <1>2, <1>4
    <3>2. CASE k \in DOMAIN list
      BY <2>1, <3>1, <3>2, <1>2 DEF Apart
    <3>3. CASE k = Len(list) + 1
      BY <2>1, <3>3, <1>2
    <3>4. QED
      BY <3>2, <3>3, <1>4
  <2>2. QED
    BY <2>1 DEF Apart
<1>7. QED
  BY <1>1, <1>5, <1>6 DEF more

\* A message of the present nonce that is applied.
LEMMA Submitted ==
    ASSUME NonceInv, NEW m \in MessageRecord, CanSubmitFor(m)
    PROVE  /\ NoncesAfter(m) \in [Owner -> Nat]
           /\ Opened(m) \in Seq(IntentRecord)
           /\ Behind(Opened(m), NoncesAfter(m))
           /\ Apart(Opened(m))
<1> DEFINE x == [owner |-> m.owner, what |-> m.what, nonce |-> m.nonce,
                 closes |-> m.closes, at |-> now]
<1>1. x \in IntentRecord /\ x.owner = m.owner /\ x.nonce = nonces[x.owner]
  <2>1. m.owner \in Owner /\ m.what \in What /\ m.nonce \in Int /\ m.closes \in Nat
    BY DEF MessageRecord
  <2>2. now \in Nat /\ m.nonce = nonces[m.owner]
    BY DEF NonceInv, Types, CanSubmitFor
  <2>3. QED
    BY <2>1, <2>2 DEF IntentRecord
<1>2. \A y \in IntentRecord : y.owner \in Owner /\ y.nonce \in Int
  BY DEF IntentRecord
<1>3. /\ intents \in Seq(IntentRecord) /\ nonces \in [Owner -> Nat]
      /\ Behind(intents, nonces) /\ Apart(intents)
  BY DEF NonceInv, Types, Signatures
<1>4. Opened(m) = Append(intents, x)
  BY DEF Opened
<1>5. /\ NoncesAfter(m) \in [Owner -> Nat] /\ NoncesAfter(m)[x.owner] = nonces[x.owner] + 1
      /\ \A o \in Owner : nonces[o] <= NoncesAfter(m)[o]
  BY <1>1, <1>2, <1>3 DEF NoncesAfter
<1> HIDE DEF x
<1>6. QED
  BY <1>1, <1>2, <1>3, <1>4, <1>5, NextNonce

-----------------------------------------------------------------------------
(* The steps that touch what Signatures is about. *)

LEMMA InitNonceInv == Init => NonceInv
<1> SUFFICES ASSUME Init PROVE NonceInv
  OBVIOUS
<1>1. Types
  BY DEF Init, SubmissionInit, Types
<1>2. Signatures
  BY DEF Init, SubmissionInit, Signatures, Behind, Apart
<1>3. QED
  BY <1>1, <1>2 DEF NonceInv

\* The variables of Types and Signatures.
nonceVars == <<now, nonces, sessionNonces, intents, messages, grants, used, jobs, mempool>>

LEMMA Unmoved == NonceInv /\ UNCHANGED nonceVars => NonceInv'
BY DEF nonceVars, NonceInv, Types, Signatures, Behind, Apart

LEMMA SubmitForInv ==
    ASSUME NonceInv, NEW m, SubmitFor(m), UNCHANGED keeperVars PROVE NonceInv'
<1>1. m \in MessageRecord
  BY DEF SubmitFor, NonceInv, Types
<1>2. /\ nonces' \in [Owner -> Nat] /\ intents' \in Seq(IntentRecord)
      /\ Behind(intents', nonces') /\ Apart(intents')
  BY <1>1, Submitted DEF SubmitFor
<1>3. Types'
  BY <1>2 DEF SubmitFor, keeperVars, NonceInv, Types
<1>4. Signatures'
  <2>1. Behind(used, sessionNonces) /\ Apart(used)
    BY DEF NonceInv, Signatures
  <2>2. used' = used /\ sessionNonces' = sessionNonces
    BY DEF SubmitFor
  <2>3. QED
    BY <1>2, <2>1, <2>2 DEF Signatures, Behind, Apart
<1>5. QED
  BY <1>3, <1>4 DEF NonceInv

LEMMA AuthorizeSessionForInv ==
    ASSUME NonceInv, NEW s, AuthorizeSessionFor(s), UNCHANGED keeperVars PROVE NonceInv'
<1>1. s \in GrantRecord /\ s.nonce = sessionNonces[s.owner]
  BY DEF AuthorizeSessionFor, NonceInv, Types
<1>2. \A y \in GrantRecord : y.owner \in Owner /\ y.nonce \in Int
  BY DEF GrantRecord
<1>3. used \in Seq(GrantRecord) /\ sessionNonces \in [Owner -> Nat]
      /\ Behind(used, sessionNonces) /\ Apart(used)
  BY DEF NonceInv, Types, Signatures
<1>4. /\ used' = Append(used, s)
      /\ sessionNonces' \in [Owner -> Nat]
      /\ sessionNonces'[s.owner] = sessionNonces[s.owner] + 1
      /\ \A o \in Owner : sessionNonces[o] <= sessionNonces'[o]
  BY <1>1, <1>2, <1>3 DEF AuthorizeSessionFor
<1>5. /\ sessionNonces' \in [Owner -> Nat] /\ used' \in Seq(GrantRecord)
      /\ Behind(used', sessionNonces') /\ Apart(used')
  BY <1>1, <1>2, <1>3, <1>4, NextNonce
<1>6. Types'
  BY <1>5 DEF AuthorizeSessionFor, keeperVars, NonceInv, Types
<1>7. Signatures'
  <2>1. Behind(intents, nonces) /\ Apart(intents)
    BY DEF NonceInv, Signatures
  <2>2. intents' = intents /\ nonces' = nonces
    BY DEF AuthorizeSessionFor
  <2>3. QED
    BY <1>5, <2>1, <2>2 DEF Signatures, Behind, Apart
<1>8. QED
  BY <1>6, <1>7 DEF NonceInv

LEMMA SignSessionInv ==
    ASSUME NonceInv, NEW o \in Owner, NEW g \in Grant, SignSession(o, g),
           UNCHANGED keeperVars
    PROVE  NonceInv'
<1>1. sessionNonces[o] \in Nat
  BY DEF NonceInv, Types
<1>2. grants' \subseteq GrantRecord
  BY <1>1 DEF SignSession, GrantRecord, NonceInv, Types
<1>3. Types'
  BY <1>2 DEF SignSession, keeperVars, NonceInv, Types
<1>4. Signatures'
  BY DEF SignSession, NonceInv, Signatures, Behind, Apart
<1>5. QED
  BY <1>3, <1>4 DEF NonceInv

LEMMA AskRelayInv ==
    ASSUME NonceInv, NEW q \in Request, AskRelay(q), UNCHANGED keeperVars PROVE NonceInv'
<1> DEFINE m == Message(q.owner, q.owner, q.kind, <<"request", q>>, now + Window,
                        nonces[q.owner])
<1>1. m \in MessageRecord
  <2>1. q.owner \in Owner /\ q.kind \in Kind /\ now + Window \in Nat
    BY SubmissionAssumption DEF NonceInv, Types
  <2>2. nonces[q.owner] \in Int /\ <<"request", q>> \in What
    BY <2>1 DEF NonceInv, Types, What
  <2>3. QED
    BY <2>1, <2>2 DEF Message, MessageRecord
<1>2. messages' = messages \cup {m}
  BY DEF AskRelay
<1> HIDE DEF m
<1>3. Types'
  BY <1>1, <1>2 DEF AskRelay, keeperVars, NonceInv, Types
<1>4. Signatures'
  BY DEF AskRelay, NonceInv, Signatures, Behind, Apart
<1>5. QED
  BY <1>3, <1>4 DEF NonceInv

LEMMA FallBackInv ==
    ASSUME NonceInv, NEW q \in Request, FallBack(q), UNCHANGED keeperVars PROVE NonceInv'
<1> DEFINE m == Message(q.owner, q.owner, q.kind, <<"request", q>>, now + Window, -1)
           x == [owner |-> q.owner, what |-> <<"request", q>>, nonce |-> -1,
                 closes |-> now + Window, at |-> now]
<1>1. x \in IntentRecord /\ x.nonce = -1
  <2>1. q.owner \in Owner /\ now + Window \in Nat /\ now \in Nat
    BY SubmissionAssumption DEF NonceInv, Types
  <2>2. <<"request", q>> \in What /\ -1 \in Int
    BY DEF What
  <2>3. QED
    BY <2>1, <2>2 DEF IntentRecord
<1>2. intents' = intents \/ intents' = Append(intents, x)
  BY DEF FallBack, Opened, Message
<1> HIDE DEF m, x
<1>3. \A y \in IntentRecord : y.owner \in Owner /\ y.nonce \in Int
  BY DEF IntentRecord
<1>4. /\ intents \in Seq(IntentRecord) /\ nonces \in [Owner -> Nat]
      /\ Behind(intents, nonces) /\ Apart(intents)
  BY DEF NonceInv, Types, Signatures
<1>5. intents' \in Seq(IntentRecord) /\ Behind(intents', nonces) /\ Apart(intents')
  BY <1>1, <1>2, <1>3, <1>4, NoNonce
<1>6. Types'
  BY <1>5 DEF FallBack, keeperVars, NonceInv, Types
<1>7. Signatures'
  <2>1. Behind(used, sessionNonces) /\ Apart(used)
    BY DEF NonceInv, Signatures
  <2>2. used' = used /\ sessionNonces' = sessionNonces /\ nonces' = nonces
    BY DEF FallBack
  <2>3. QED
    BY <1>5, <2>1, <2>2 DEF Signatures, Behind, Apart
<1>8. QED
  BY <1>6, <1>7 DEF NonceInv

LEMMA TickInv == ASSUME NonceInv, Tick, UNCHANGED keeperVars PROVE NonceInv'
<1>1. Types'
  BY DEF Tick, keeperVars, NonceInv, Types
<1>2. Signatures'
  BY DEF Tick, NonceInv, Signatures, Behind, Apart
<1>3. QED
  BY <1>1, <1>2 DEF NonceInv

-----------------------------------------------------------------------------
(* The register of jobs and the keeper. *)

LEMMA CreateJobInv == ASSUME NonceInv, CreateJob PROVE NonceInv'
<1> DEFINE t == JobTerms[Len(jobs) + 1]
           x == [owner |-> t.owner, kind |-> t.kind, every |-> t.every,
                 maxRuns |-> t.maxRuns, compiles |-> t.compiles, runs |-> 0,
                 nextRunAt |-> now + t.every, active |-> TRUE]
<1>1. jobs \in Seq(JobRecord) /\ now \in Nat
  BY DEF NonceInv, Types
<1> DEFINE Terms == [owner : Owner, kind : Kind, every : Nat \ {0}, maxRuns : Nat,
                     compiles : BOOLEAN]
<1>2. t \in Terms
  <2>1. JobTerms \in Seq(Terms)
    BY StandingOrdersAssumption
  <2> HIDE DEF Terms
  <2>2. Len(jobs) + 1 \in 1 .. Len(JobTerms)
    BY <1>1, <2>1 DEF CreateJob
  <2>3. QED
    BY <2>1, <2>2
<1>3. jobs' = Append(jobs, x)
  BY DEF CreateJob
<1> HIDE DEF t
<1>4. x \in JobRecord
  BY <1>1, <1>2 DEF JobRecord
<1> HIDE DEF x
<1>5. jobs' \in Seq(JobRecord)
  BY <1>1, <1>3, <1>4
<1>6. Types'
  BY <1>5 DEF CreateJob, clientVars, NonceInv, Types
<1>7. Signatures'
  BY DEF CreateJob, clientVars, NonceInv, Signatures, Behind, Apart
<1>8. QED
  BY <1>6, <1>7 DEF NonceInv

\* A change of the jobs alone, or of the jobs and the transactions under way.
LEMMA RegisterInv ==
    ASSUME NonceInv, jobs' \in Seq(JobRecord), mempool' \in Seq(SubmitCall \cup MarkCall),
           UNCHANGED clientVars
    PROVE  NonceInv'
<1>1. Types'
  BY DEF clientVars, NonceInv, Types
<1>2. Signatures'
  BY DEF clientVars, NonceInv, Signatures, Behind, Apart
<1>3. QED
  BY <1>1, <1>2 DEF NonceInv

LEMMA RunIsAJob ==
    ASSUME NonceInv, NEW j \in DOMAIN jobs PROVE JobsAfterRun(j) \in Seq(JobRecord)
<1> DEFINE x == [jobs[j] EXCEPT !.runs = @ + 1,
                    !.nextRunAt = now + jobs[j].every,
                    !.active = jobs[j].maxRuns = 0 \/ jobs[j].runs + 1 < jobs[j].maxRuns]
<1>1. jobs \in Seq(JobRecord) /\ jobs[j] \in JobRecord /\ now \in Nat
  BY DEF NonceInv, Types
<1>2. (jobs[j].maxRuns = 0 \/ jobs[j].runs + 1 < jobs[j].maxRuns) \in BOOLEAN
  OBVIOUS
<1>3. now + jobs[j].every \in Nat /\ jobs[j].runs + 1 \in Nat
  <2>1. jobs[j].every \in Nat /\ jobs[j].runs \in Nat
    BY <1>1 DEF JobRecord
  <2>2. QED
    BY ONLY <1>1, <2>1
<1>4. x \in JobRecord
  BY <1>1, <1>2, <1>3 DEF JobRecord
<1>5. JobsAfterRun(j) = [jobs EXCEPT ![j] = x]
  BY DEF JobsAfterRun
<1> HIDE DEF x
<1>6. QED
  BY <1>1, <1>4, <1>5

LEMMA CancelJobInv == ASSUME NonceInv, NEW j \in DOMAIN jobs, CancelJob(j) PROVE NonceInv'
<1>1. jobs \in Seq(JobRecord) /\ mempool \in Seq(SubmitCall \cup MarkCall)
  BY DEF NonceInv, Types
<1>2. [jobs[j] EXCEPT !.active = FALSE] \in JobRecord
  <2>1. jobs[j] \in JobRecord
    BY <1>1
  <2>2. QED
    BY <2>1 DEF JobRecord
<1>3. jobs' \in Seq(JobRecord) /\ mempool' = mempool
  BY <1>1, <1>2 DEF CancelJob
<1>4. QED
  BY <1>1, <1>3, RegisterInv DEF CancelJob

LEMMA MarkRunInv == ASSUME NonceInv, NEW j \in DOMAIN jobs, MarkRun(j) PROVE NonceInv'
<1>1. mempool \in Seq(SubmitCall \cup MarkCall) /\ mempool' = mempool
  BY DEF MarkRun, NonceInv, Types
<1>2. jobs' \in Seq(JobRecord)
  BY RunIsAJob DEF MarkRun
<1>3. QED
  BY <1>1, <1>2, RegisterInv DEF MarkRun

\* What the keeper signs is a message like any other.
LEMMA KeeperMessageType ==
    ASSUME NonceInv, NEW t, JobOf(t) \in DOMAIN jobs PROVE KeeperMessage(t) \in MessageRecord
<1> DEFINE j == JobOf(t)
<1>1. jobs[j] \in JobRecord /\ j \in Nat
  BY DEF NonceInv, Types
<1>2. KeeperMessage(t) =
        Message(jobs[j].owner, Coordinator, jobs[j].kind, <<"job", j>>, now + Window,
                nonces[jobs[j].owner])
  BY DEF KeeperMessage
<1> HIDE DEF j
<1>3. jobs[j].owner \in Owner /\ jobs[j].kind \in Kind /\ Coordinator \in Key
  BY <1>1, StandingOrdersAssumption DEF JobRecord
<1>4. now + Window \in Nat /\ nonces[jobs[j].owner] \in Int
  BY <1>3, SubmissionAssumption DEF NonceInv, Types
<1>5. <<"job", j>> \in What
  BY <1>1 DEF What
<1>6. QED
  BY <1>2, <1>3, <1>4, <1>5 DEF Message, MessageRecord

LEMMA SendSubmitInv ==
    ASSUME NonceInv, NEW t \in KeeperTick, SendSubmit(t) PROVE NonceInv'
<1>1. mempool \in Seq(SubmitCall \cup MarkCall) /\ jobs \in Seq(JobRecord)
  BY DEF NonceInv, Types
<1>2. CASE CanDeclare(t)
  <2> DEFINE x == [by |-> t, call |-> "submitFor", msg |-> KeeperMessage(t)]
  <2>1. x \in SubmitCall
    <3>1. KeeperMessage(t) \in MessageRecord
      BY <1>2, KeeperMessageType DEF CanDeclare
    <3>2. t \in Nat
      BY DEF KeeperTick
    <3>3. QED
      BY <3>1, <3>2 DEF SubmitCall
  <2>2. mempool' = Append(mempool, x)
    BY <1>2 DEF SendSubmit
  <2> HIDE DEF x
  <2>3. mempool' \in Seq(SubmitCall \cup MarkCall)
    BY <1>1, <2>1, <2>2
  <2>4. QED
    BY <1>1, <2>3, RegisterInv DEF SendSubmit
<1>3. CASE ~CanDeclare(t)
  <2>1. mempool' = mempool
    BY <1>3 DEF SendSubmit
  <2>2. QED
    BY <1>1, <2>1, RegisterInv DEF SendSubmit
<1>4. QED
  BY <1>2, <1>3

LEMMA SendMarkInv ==
    ASSUME NonceInv, NEW t \in KeeperTick, SendMark(t) PROVE NonceInv'
<1>1. mempool \in Seq(SubmitCall \cup MarkCall) /\ jobs \in Seq(JobRecord)
  BY DEF NonceInv, Types
<1>2. CASE CanMark(JobOf(t))
  <2> DEFINE x == [by |-> t, call |-> "markRun", job |-> JobOf(t)]
  <2>1. x \in MarkCall
    <3>1. JobOf(t) \in Nat /\ t \in Nat
      BY <1>1, <1>2 DEF CanMark, KeeperTick
    <3>2. QED
      BY <3>1 DEF MarkCall
  <2>2. mempool' = Append(mempool, x)
    BY <1>2 DEF SendMark
  <2> HIDE DEF x
  <2>3. mempool' \in Seq(SubmitCall \cup MarkCall)
    BY <1>1, <2>1, <2>2
  <2>4. QED
    BY <1>1, <2>3, RegisterInv DEF SendMark
<1>3. CASE ~CanMark(JobOf(t))
  <2>1. mempool' = mempool
    BY <1>3 DEF SendMark
  <2>2. QED
    BY <1>1, <2>1, RegisterInv DEF SendMark
<1>4. QED
  BY <1>2, <1>3

LEMMA LandMarkInv == ASSUME NonceInv, LandMark PROVE NonceInv'
<1>1. mempool \in Seq(SubmitCall \cup MarkCall) /\ jobs \in Seq(JobRecord)
  BY DEF NonceInv, Types
<1>2. mempool /= << >> /\ mempool' = Tail(mempool)
  BY DEF LandMark
<1>3. mempool' \in Seq(SubmitCall \cup MarkCall)
  BY <1>1, <1>2
<1> DEFINE j == Head(mempool).job
<1>4. jobs' = IF CanMark(j) THEN JobsAfterRun(j) ELSE jobs
  BY DEF LandMark
<1> HIDE DEF j
<1>5. jobs' \in Seq(JobRecord)
  BY <1>1, <1>4, RunIsAJob DEF CanMark
<1>6. QED
  BY <1>3, <1>5, RegisterInv DEF LandMark

LEMMA LandSubmitInv == ASSUME NonceInv, LandSubmit PROVE NonceInv'
<1> DEFINE m == Head(mempool).msg
<1>1. mempool \in Seq(SubmitCall \cup MarkCall) /\ mempool /= << >>
      /\ Head(mempool).call = "submitFor"
  BY DEF LandSubmit, NonceInv, Types
<1>2. m \in MessageRecord
  <2>1. Head(mempool) \in SubmitCall \cup MarkCall
    BY <1>1
  <2>2. Head(mempool) \in SubmitCall
    BY <1>1, <2>1 DEF MarkCall
  <2>3. QED
    BY <2>2 DEF SubmitCall
<1>3. mempool' \in Seq(SubmitCall \cup MarkCall)
  BY <1>1 DEF LandSubmit
<1>4. /\ intents' = IF CanSubmitFor(m) THEN Opened(m) ELSE intents
      /\ nonces'  = IF CanSubmitFor(m) THEN NoncesAfter(m) ELSE nonces
  BY DEF LandSubmit
<1> HIDE DEF m
<1>5. /\ nonces' \in [Owner -> Nat] /\ intents' \in Seq(IntentRecord)
      /\ Behind(intents', nonces') /\ Apart(intents')
  <2>1. CASE CanSubmitFor(m)
    BY <1>2, <1>4, <2>1, Submitted
  <2>2. CASE ~CanSubmitFor(m)
    <3>1. intents' = intents /\ nonces' = nonces
      BY <1>4, <2>2
    <3>2. QED
      BY <3>1 DEF NonceInv, Types, Signatures, Behind, Apart
  <2>3. QED
    BY <2>1, <2>2
<1>6. Types'
  BY <1>3, <1>5 DEF LandSubmit, NonceInv, Types
<1>7. Signatures'
  <2>1. Behind(used, sessionNonces) /\ Apart(used)
    BY DEF NonceInv, Signatures
  <2>2. used' = used /\ sessionNonces' = sessionNonces
    BY DEF LandSubmit
  <2>3. QED
    BY <1>5, <2>1, <2>2 DEF Signatures, Behind, Apart
<1>8. QED
  BY <1>6, <1>7 DEF NonceInv

\* A transaction nobody waits for is the same transaction.
LEMMA ForgottenType ==
    ASSUME NonceInv, NEW t PROVE Forgotten(t) \in Seq(SubmitCall \cup MarkCall)
<1>1. mempool \in Seq(SubmitCall \cup MarkCall)
  BY DEF NonceInv, Types
<1>2. ASSUME NEW n \in DOMAIN mempool
      PROVE  (IF mempool[n].by = t THEN [mempool[n] EXCEPT !.by = Nobody] ELSE mempool[n])
                \in SubmitCall \cup MarkCall
  <2>1. mempool[n] \in SubmitCall \cup MarkCall
    BY <1>1
  <2>2. ASSUME NEW c \in SubmitCall PROVE [c EXCEPT !.by = Nobody] \in SubmitCall
    BY DEF SubmitCall, Nobody
  <2>3. ASSUME NEW c \in MarkCall PROVE [c EXCEPT !.by = Nobody] \in MarkCall
    BY DEF MarkCall, Nobody
  <2>4. QED
    BY <2>1, <2>2, <2>3
<1>3. DOMAIN mempool = 1 .. Len(mempool) /\ Len(mempool) \in Nat
  BY <1>1
<1>4. QED
  BY <1>2, <1>3 DEF Forgotten

LEMMA ForgetInv ==
    ASSUME NonceInv, NEW t, mempool' = Forgotten(t), jobs' = jobs, UNCHANGED clientVars
    PROVE  NonceInv'
<1>1. mempool' \in Seq(SubmitCall \cup MarkCall)
  BY ForgottenType
<1>2. jobs' \in Seq(JobRecord)
  BY DEF NonceInv, Types
<1>3. QED
  BY <1>1, <1>2, RegisterInv

-----------------------------------------------------------------------------
(* The theorem. *)

LEMMA NextNonceInv == NonceInv /\ [Next]_vars => NonceInv'
<1> SUFFICES ASSUME NonceInv, [Next]_vars PROVE NonceInv'
  OBVIOUS
<1>1. CASE UNCHANGED vars
  BY <1>1, Unmoved DEF vars, clientVars, keeperVars, nonceVars
<1>2. CASE KeeperStep
  <2>1. ASSUME NEW t \in KeeperTick, StartTick(t) PROVE NonceInv'
    BY <2>1, Unmoved DEF StartTick, clientVars, nonceVars
  <2>2. ASSUME NEW t \in KeeperTick, SendSubmit(t) PROVE NonceInv'
    BY <2>2, SendSubmitInv
  <2>3. ASSUME NEW t \in KeeperTick, SendMark(t) PROVE NonceInv'
    BY <2>3, SendMarkInv
  <2>4. ASSUME NEW t \in KeeperTick, Die(t) PROVE NonceInv'
    BY <2>4, ForgetInv DEF Die
  <2>5. ASSUME NEW t \in KeeperTick, GiveUp(t) PROVE NonceInv'
    BY <2>5, ForgetInv DEF GiveUp
  <2>6. QED
    BY <1>2, <2>1, <2>2, <2>3, <2>4, <2>5, LandSubmitInv, LandMarkInv DEF KeeperStep
<1>3. CASE RegisterStep
  BY <1>3, CreateJobInv, CancelJobInv, MarkRunInv DEF RegisterStep
<1>4. CASE ClientStep /\ UNCHANGED keeperVars
  <2> USE <1>4
  <2>1. ASSUME NEW m \in messages, SubmitFor(m) PROVE NonceInv'
    BY <2>1, SubmitForInv
  <2>2. ASSUME NEW s \in grants, AuthorizeSessionFor(s) PROVE NonceInv'
    BY <2>2, AuthorizeSessionForInv
  <2>3. ASSUME NEW o \in Owner, NEW g \in Grant, AuthorizeSession(o, g) PROVE NonceInv'
    BY <2>3, Unmoved DEF AuthorizeSession, keeperVars, nonceVars
  <2>4. ASSUME NEW o \in Owner, NEW g \in Grant, SignSession(o, g) PROVE NonceInv'
    BY <2>4, SignSessionInv
  <2>5. ASSUME NEW o \in Owner, RevokeSession(o) PROVE NonceInv'
    BY <2>5, Unmoved DEF RevokeSession, keeperVars, nonceVars
  <2>6. ASSUME NEW q \in Request, AskRelay(q) PROVE NonceInv'
    BY <2>6, AskRelayInv
  <2>7. ASSUME NEW q \in Request, RelayAnswers(q) PROVE NonceInv'
    BY <2>7, Unmoved DEF RelayAnswers, keeperVars, nonceVars
  <2>8. ASSUME NEW q \in Request, FallBack(q) PROVE NonceInv'
    BY <2>8, FallBackInv
  <2>9. QED
    BY <2>1, <2>2, <2>3, <2>4, <2>5, <2>6, <2>7, <2>8, TickInv DEF ClientStep
<1>5. QED
  BY <1>1, <1>2, <1>3, <1>4 DEF Next

\* No message an owner or its session key signed is applied twice, and no session
\* message is, for every set of owners, requests, jobs and ticks (submitFor and
\* authorizeSession of IntentRegistry.sol, with the keeper of recurring.ts).
THEOREM SignaturesCountOnce == Spec => []SignatureCountsOnce
<1>1. NonceInv => SignatureCountsOnce
  <2> SUFFICES ASSUME NonceInv PROVE SignatureCountsOnce
    OBVIOUS
  <2>1. Apart(intents) /\ Apart(used) /\ used \in Seq(GrantRecord)
    BY DEF NonceInv, Signatures, Types
  <2>2. \A n \in DOMAIN used : used[n].nonce /= -1
    <3>1. \A n \in DOMAIN used : used[n] \in GrantRecord
      BY <2>1
    <3>2. \A g \in GrantRecord : g.nonce \in Nat
      BY DEF GrantRecord
    <3>3. QED
      BY <3>1, <3>2
  <2>3. QED
    BY <2>1, <2>2 DEF SignatureCountsOnce, Apart
<1>2. QED
  BY InitNonceInv, NextNonceInv, <1>1, PTL DEF Spec

-----------------------------------------------------------------------------
(* Counting. *)

One(b) == IF b THEN 1 ELSE 0

\* A set and another that differs from it in one element at most.
LEMMA Swapped ==
    ASSUME NEW S, IsFiniteSet(S), NEW T, NEW x, \A y : y /= x => (y \in S <=> y \in T)
    PROVE  /\ IsFiniteSet(T) /\ Cardinality(T) \in Nat /\ Cardinality(S) \in Nat
           /\ Cardinality(T) = Cardinality(S) + One(x \in T) - One(x \in S)
<1>1. Cardinality(S) \in Nat
  BY FS_CardinalityType
<1>2. CASE x \in T
  <2>1. T = S \cup {x}
    BY <1>2
  <2>2. IsFiniteSet(T) /\ Cardinality(T) = IF x \in S THEN Cardinality(S) ELSE Cardinality(S) + 1
    BY <2>1, FS_AddElement
  <2>3. QED
    BY <1>1, <1>2, <2>2 DEF One
<1>3. CASE x \notin T
  <2>1. T = S \ {x}
    BY <1>3
  <2>2. IsFiniteSet(T) /\ Cardinality(T) = IF x \in S THEN Cardinality(S) - 1 ELSE Cardinality(S)
    BY <2>1, FS_RemoveElement
  <2>3. Cardinality(T) \in Nat
    BY <2>2, FS_CardinalityType
  <2>4. QED
    BY <1>1, <1>3, <2>2, <2>3 DEF One
<1>4. QED
  BY <1>2, <1>3

\* Where a list has what is in C.
Positions(list, C) == {n \in DOMAIN list : list[n] \in C}
Count(list, C) == Cardinality(Positions(list, C))

LEMMA PositionsFinite ==
    ASSUME NEW R, NEW list \in Seq(R), NEW C
    PROVE  IsFiniteSet(Positions(list, C)) /\ Count(list, C) \in Nat
<1>1. Positions(list, C) \subseteq 1 .. Len(list) /\ Len(list) \in Nat
  BY DEF Positions
<1>2. IsFiniteSet(Positions(list, C))
  <2>1. IsFiniteSet(1 .. Len(list))
    BY <1>1, FS_Interval
  <2>2. QED
    BY <1>1, <2>1, FS_Subset
<1>3. QED
  BY <1>2, FS_CardinalityType DEF Count

LEMMA CountAppend ==
    ASSUME NEW R, NEW list \in Seq(R), NEW x \in R, NEW C
    PROVE  Count(Append(list, x), C) = Count(list, C) + One(x \in C)
<1> DEFINE more == Append(list, x)
           last == Len(list) + 1
<1>1. /\ DOMAIN more = 1 .. last /\ DOMAIN list = 1 .. Len(list) /\ Len(list) \in Nat
      /\ more[last] = x /\ \A n \in DOMAIN list : more[n] = list[n]
  OBVIOUS
<1>2. last \notin Positions(list, C) /\ (last \in Positions(more, C) <=> x \in C)
  BY <1>1 DEF Positions
<1>3. ASSUME NEW n, n /= last PROVE n \in Positions(list, C) <=> n \in Positions(more, C)
  <2>1. n \in DOMAIN more <=> n \in DOMAIN list
    BY <1>1, <1>3
  <2> HIDE DEF more, last
  <2>2. QED
    BY <2>1, <1>1 DEF Positions
<1> HIDE DEF more, last
<1>4. IsFiniteSet(Positions(list, C)) /\ Count(list, C) \in Nat
  BY PositionsFinite
<1>5. Cardinality(Positions(more, C)) =
        Cardinality(Positions(list, C)) + One(last \in Positions(more, C))
                                        - One(last \in Positions(list, C))
  BY <1>3, <1>4, Swapped
<1>6. Count(more, C) = Count(list, C) + One(x \in C)
  BY <1>2, <1>4, <1>5 DEF Count, One
<1>7. QED
  BY <1>6 DEF more

LEMMA CountTail ==
    ASSUME NEW R, NEW list \in Seq(R), list /= << >>, NEW C
    PROVE  Count(Tail(list), C) = Count(list, C) - One(Head(list) \in C)
<1> DEFINE rest == Tail(list)
           S == Positions(list, C) \ {1}
           T == Positions(rest, C)
           shift == [n \in S |-> n - 1]
<1>1. /\ rest \in Seq(R) /\ Len(list) \in Nat \ {0} /\ Head(list) = list[1]
      /\ DOMAIN list = 1 .. Len(list) /\ DOMAIN rest = 1 .. Len(list) - 1
      /\ \A n \in DOMAIN rest : rest[n] = list[n + 1]
  OBVIOUS
<1> HIDE DEF rest
<1>2. shift \in Bijection(S, T)
  <2>1. \A n \in S : n - 1 \in T
    BY <1>1 DEF Positions
  <2>2. \A n, k \in S : n - 1 = k - 1 => n = k
    BY <1>1 DEF Positions
  <2>3. \A k \in T : k + 1 \in S /\ (k + 1) - 1 = k
    BY <1>1 DEF Positions
  <2>4. QED
    BY <2>1, <2>2, <2>3, Zenon DEF Bijection, Injection, Surjection, IsInjective
<1>3. IsFiniteSet(Positions(list, C)) /\ Count(list, C) \in Nat
  BY PositionsFinite
<1>4. /\ IsFiniteSet(S)
      /\ Cardinality(S) = IF 1 \in Positions(list, C) THEN Count(list, C) - 1 ELSE Count(list, C)
  BY <1>3, FS_RemoveElement DEF Count
<1>5. ExistsBijection(S, T)
  BY <1>2 DEF ExistsBijection
<1>6. Cardinality(T) = Cardinality(S)
  BY <1>4, <1>5, FS_Bijection
<1>7. 1 \in Positions(list, C) <=> Head(list) \in C
  BY <1>1 DEF Positions
<1>8. Count(rest, C) = Count(list, C) - One(Head(list) \in C)
  BY <1>3, <1>4, <1>6, <1>7 DEF Count, One
<1>9. QED
  BY <1>8 DEF rest

-----------------------------------------------------------------------------
(* What ticks hold and what is under way.                                    *)

Pc == {"idle", "job", "submitted", "declared", "marked"}
TickRecord == [pc : Pc, due : Seq(Nat)]

\* j is on a list of jobs.
IsOn(due, j) == \E n \in DOMAIN due : due[n] = j
On(t, j) == IsOn(ticks[t].due, j)

\* A tick with nothing left is over; what is left are jobs, each once.
TickOK(r, known) ==
    /\ r \in TickRecord
    /\ r.pc = "idle" <=> r.due = << >>
    /\ InOrder(r.due)
    /\ Len(r.due) <= Cap
    /\ \A n \in DOMAIN r.due : r.due[n] \in known

\* c is the call a tick like r waits for.
Awaits(r, c) ==
    \/ r.pc = "submitted" /\ c.call = "submitFor" /\ c.msg.what = <<"job", Head(r.due)>>
    \/ r.pc = "marked" /\ c.call = "markRun" /\ c.job = Head(r.due)

\* A call is about a job, and who sent it waits for it or is not known any more.
CallOK(c, running, known) ==
    /\ c.by \in KeeperTick \cup {Nobody}
    /\ c.call = "submitFor" => \E j \in known : c.msg.what = <<"job", j>>
    /\ c.call = "markRun" => c.job \in known
    /\ c.by /= Nobody => Awaits(running[c.by], c)

CallsOK(calls, running, known) ==
    \A n \in DOMAIN calls : CallOK(calls[n], running, known)

\* Nobody waits for two calls.
OneCallEach(calls) ==
    \A n, k \in DOMAIN calls :
       n /= k /\ calls[n].by = calls[k].by => calls[n].by = Nobody

ForRequest(what) == what \in {"request"} \X Request

ForOne(what, known) == ForRequest(what) \/ \E j \in known : what = <<"job", j>>

Shape ==
    /\ ticks \in [KeeperTick -> TickRecord]
    /\ marks \in [Job -> Nat]
    /\ deaths \in Nat /\ giveUps \in Nat /\ overlaps \in Nat
    /\ Len(jobs) <= Len(JobTerms)
    /\ \A t \in KeeperTick : TickOK(ticks[t], DOMAIN jobs)
    /\ CallsOK(mempool, ticks, DOMAIN jobs)
    /\ OneCallEach(mempool)
    /\ \A m \in messages : ForRequest(m.what)
    /\ \A n \in DOMAIN intents : ForOne(intents[n].what, DOMAIN jobs)

BookInv == NonceInv /\ Shape

\* Going on to the next job takes the present one off the list, and no other.
LEMMA OnwardFacts ==
    ASSUME BookInv, NEW t \in KeeperTick, ticks[t].pc /= "idle"
    PROVE  /\ TickOK(Onward(t), DOMAIN jobs) /\ Onward(t).pc \in {"idle", "job"}
           /\ JobOf(t) \in DOMAIN jobs /\ On(t, JobOf(t))
           /\ \A j : IsOn(Onward(t).due, j) <=> On(t, j) /\ j /= JobOf(t)
<1> DEFINE due == ticks[t].due
           rest == Tail(due)
<1>1. TickOK(ticks[t], DOMAIN jobs)
  BY DEF BookInv, Shape
<1>2. due \in Seq(Nat) /\ due /= << >>
  BY <1>1 DEF TickOK, TickRecord
<1>3. /\ Len(due) \in Nat \ {0} /\ DOMAIN due = 1 .. Len(due) /\ Head(due) = due[1]
      /\ rest \in Seq(Nat) /\ Len(rest) = Len(due) - 1 /\ DOMAIN rest = 1 .. Len(due) - 1
      /\ \A n \in DOMAIN rest : rest[n] = due[n + 1]
  BY <1>2
<1>4. /\ \A n, k \in DOMAIN due : n < k => due[n] < due[k]
      /\ \A n \in DOMAIN due : due[n] \in DOMAIN jobs /\ due[n] \in Nat
      /\ Len(due) <= Cap /\ Cap \in Nat
  BY <1>1, <1>2, StandingOrdersAssumption DEF TickOK, InOrder
<1>5. JobOf(t) = due[1]
  BY <1>3 DEF JobOf
<1>6. Onward(t) = IF Len(due) = 1 THEN [pc |-> "idle", due |-> << >>]
                  ELSE [pc |-> "job", due |-> rest]
  BY DEF Onward, Idle
<1>7. \A j : On(t, j) <=> \E n \in 1 .. Len(due) : due[n] = j
  BY <1>3 DEF On, IsOn
<1> HIDE DEF due, rest
<1>8. JobOf(t) \in DOMAIN jobs /\ On(t, JobOf(t))
  BY <1>3, <1>4, <1>5, <1>7
<1>9. CASE Len(due) = 1
  <2>1. Onward(t) = [pc |-> "idle", due |-> << >>]
    BY <1>6, <1>9
  <2>2. TickOK(Onward(t), DOMAIN jobs)
    BY <2>1, <1>4 DEF TickOK, TickRecord, Pc, InOrder
  <2>3. \A j : On(t, j) => j = JobOf(t)
    BY <1>5, <1>7, <1>9
  <2>4. QED
    BY <2>1, <2>2, <2>3, <1>8 DEF IsOn
<1>10. CASE Len(due) /= 1
  <2>1. Onward(t) = [pc |-> "job", due |-> rest]
    BY <1>6, <1>10
  <2>2. rest /= << >> /\ Len(rest) <= Cap
    BY <1>3, <1>4, <1>10
  <2>3. InOrder(rest)
    <3>1. ASSUME NEW n \in DOMAIN rest, NEW k \in DOMAIN rest, n < k PROVE rest[n] < rest[k]
      <4>1. n + 1 \in DOMAIN due /\ k + 1 \in DOMAIN due /\ n + 1 < k + 1
        BY <3>1, <1>3
      <4>2. due[n + 1] < due[k + 1]
        BY <4>1, <1>4
      <4>3. QED
        BY <4>2, <3>1, <1>3
    <3>2. QED
      BY <3>1 DEF InOrder
  <2>4. ASSUME NEW n \in DOMAIN rest PROVE rest[n] \in DOMAIN jobs
    <3>1. n + 1 \in DOMAIN due /\ rest[n] = due[n + 1]
      BY <1>3, <1>4
    <3>2. QED
      BY <3>1, <1>4
  <2>5. TickOK(Onward(t), DOMAIN jobs)
    BY <2>1, <2>2, <2>3, <2>4, <1>3 DEF TickOK, TickRecord, Pc
  <2>6. ASSUME NEW j PROVE IsOn(rest, j) <=> On(t, j) /\ j /= JobOf(t)
    <3>1. ASSUME IsOn(rest, j) PROVE On(t, j) /\ j /= JobOf(t)
      <4>1. PICK n \in DOMAIN rest : rest[n] = j
        BY <3>1 DEF IsOn
      <4>2. n + 1 \in 1 .. Len(due) /\ 1 \in 1 .. Len(due) /\ 1 < n + 1 /\ due[n + 1] = j
        BY <4>1, <1>3
      <4>3. due[1] < j /\ due[1] \in Nat
        BY <4>2, <1>3, <1>4
      <4>4. QED
        BY <4>2, <4>3, <1>5, <1>7
    <3>2. ASSUME On(t, j), j /= JobOf(t) PROVE IsOn(rest, j)
      <4>1. PICK n \in 1 .. Len(due) : due[n] = j
        BY <3>2, <1>7
      <4>2. n /= 1
        BY <4>1, <3>2, <1>5
      <4>3. n - 1 \in DOMAIN rest /\ (n - 1) + 1 = n
        BY <4>2, <1>3
      <4>4. rest[n - 1] = j
        BY <4>1, <4>3, <1>3
      <4>5. QED
        BY <4>3, <4>4 DEF IsOn
    <3>3. QED
      BY <3>1, <3>2
  <2>7. QED
    BY <2>1, <2>5, <2>6, <1>8
<1>11. QED
  BY <1>9, <1>10

\* A tick that goes from one state to another.
LEMMA TickMoves ==
    ASSUME BookInv, NEW t \in KeeperTick, NEW r, TickOK(r, DOMAIN jobs),
           ticks' = [ticks EXCEPT ![t] = r]
    PROVE  /\ ticks' \in [KeeperTick -> TickRecord] /\ ticks'[t] = r
           /\ \A u \in KeeperTick : u /= t => ticks'[u] = ticks[u]
           /\ \A u \in KeeperTick : TickOK(ticks'[u], DOMAIN jobs)
<1>1. ticks \in [KeeperTick -> TickRecord] /\ \A u \in KeeperTick : TickOK(ticks[u], DOMAIN jobs)
  BY DEF BookInv, Shape
<1>2. r \in TickRecord
  BY DEF TickOK
<1>3. QED
  BY <1>1, <1>2

\* Only a tick that waits has a call under way.
LEMMA WaitsForItsCall ==
    ASSUME BookInv, NEW t \in KeeperTick, NEW n \in DOMAIN mempool, mempool[n].by = t
    PROVE  Awaits(ticks[t], mempool[n]) /\ t /= Nobody
<1>1. CallOK(mempool[n], ticks, DOMAIN jobs)
  BY DEF BookInv, Shape, CallsOK
<1>2. t /= Nobody
  BY DEF KeeperTick, Nobody
<1>3. QED
  BY <1>1, <1>2 DEF CallOK

\* The shape after a step of a tick.
LEMMA ShapeAfterTick ==
    ASSUME BookInv, NEW t \in KeeperTick, NEW r, TickOK(r, DOMAIN jobs),
           ticks' = [ticks EXCEPT ![t] = r], UNCHANGED <<clientVars, jobs, marks>>,
           deaths' \in Nat, giveUps' \in Nat, overlaps' \in Nat,
           CallsOK(mempool', ticks', DOMAIN jobs), OneCallEach(mempool')
    PROVE  Shape'
<1>1. /\ ticks' \in [KeeperTick -> TickRecord]
      /\ \A u \in KeeperTick : TickOK(ticks'[u], DOMAIN jobs)
  BY TickMoves
<1>2. DOMAIN jobs' = DOMAIN jobs /\ Len(jobs') = Len(jobs)
  OBVIOUS
<1>3. QED
  BY <1>1, <1>2 DEF BookInv, Shape, clientVars

\* A tick that does not wait changes state and sends nothing.
LEMMA QuietTickShape ==
    ASSUME BookInv, NEW t \in KeeperTick, NEW r, TickOK(r, DOMAIN jobs),
           ticks[t].pc \notin {"submitted", "marked"},
           ticks' = [ticks EXCEPT ![t] = r], UNCHANGED <<clientVars, jobs, marks, mempool>>,
           deaths' \in Nat, giveUps' \in Nat, overlaps' \in Nat
    PROVE  Shape'
<1>1. ASSUME NEW n \in DOMAIN mempool PROVE CallOK(mempool[n], ticks', DOMAIN jobs)
  <2>1. CallOK(mempool[n], ticks, DOMAIN jobs)
    BY DEF BookInv, Shape, CallsOK
  <2>2. mempool[n].by /= t
    BY WaitsForItsCall DEF Awaits
  <2>3. \A u \in KeeperTick : u /= t => ticks'[u] = ticks[u]
    BY TickMoves
  <2>4. QED
    BY <2>1, <2>2, <2>3 DEF CallOK
<1>2. CallsOK(mempool', ticks', DOMAIN jobs) /\ OneCallEach(mempool')
  BY <1>1 DEF BookInv, Shape, CallsOK
<1>3. QED
  BY <1>2, ShapeAfterTick

\* A tick that does not wait sends a call and waits for it.
LEMMA SendingTickShape ==
    ASSUME BookInv, NEW t \in KeeperTick, NEW r, TickOK(r, DOMAIN jobs),
           ticks[t].pc \notin {"submitted", "marked"},
           ticks' = [ticks EXCEPT ![t] = r],
           UNCHANGED <<clientVars, jobs, marks, deaths, giveUps, overlaps>>,
           NEW c \in SubmitCall \cup MarkCall, c.by = t, mempool' = Append(mempool, c),
           Awaits(r, c), Head(r.due) \in DOMAIN jobs
    PROVE  Shape'
<1>1. /\ mempool \in Seq(SubmitCall \cup MarkCall)
      /\ CallsOK(mempool, ticks, DOMAIN jobs) /\ OneCallEach(mempool)
      /\ deaths \in Nat /\ giveUps \in Nat /\ overlaps \in Nat
  BY DEF BookInv, NonceInv, Types, Shape
<1>2. /\ DOMAIN mempool' = 1 .. Len(mempool) + 1 /\ DOMAIN mempool = 1 .. Len(mempool)
      /\ Len(mempool) \in Nat /\ mempool'[Len(mempool) + 1] = c
      /\ \A n \in DOMAIN mempool : mempool'[n] = mempool[n]
  BY <1>1
<1>3. \A n \in DOMAIN mempool : mempool[n].by /= t
  BY WaitsForItsCall DEF Awaits
<1>4. ticks'[t] = r /\ \A u \in KeeperTick : u /= t => ticks'[u] = ticks[u]
  BY TickMoves
<1>5. ASSUME NEW n \in DOMAIN mempool PROVE CallOK(mempool[n], ticks', DOMAIN jobs)
  <2>1. CallOK(mempool[n], ticks, DOMAIN jobs) /\ mempool[n].by /= t
    BY <1>1, <1>3 DEF CallsOK
  <2>2. QED
    BY <2>1, <1>4 DEF CallOK
<1>6. CallOK(c, ticks', DOMAIN jobs)
  BY <1>4 DEF CallOK, Awaits
<1>7. \A n \in DOMAIN mempool' : n \in DOMAIN mempool \/ n = Len(mempool) + 1
  BY <1>2
<1>8. CallsOK(mempool', ticks', DOMAIN jobs)
  BY <1>2, <1>5, <1>6, <1>7 DEF CallsOK
<1>9. OneCallEach(mempool')
  BY <1>1, <1>2, <1>3, <1>7 DEF OneCallEach
<1>10. QED
  BY <1>1, <1>8, <1>9, ShapeAfterTick

-----------------------------------------------------------------------------
(* The shape is kept. *)

LEMMA InitShape == Init => Shape
<1> SUFFICES ASSUME Init PROVE Shape
  OBVIOUS
<1>1. /\ jobs = << >> /\ mempool = << >> /\ intents = << >> /\ messages = {}
      /\ ticks = [t \in KeeperTick |-> Idle] /\ marks = [j \in Job |-> 0]
      /\ deaths = 0 /\ giveUps = 0 /\ overlaps = 0
  BY DEF Init, SubmissionInit
<1>2. Idle \in TickRecord /\ TickOK(Idle, DOMAIN jobs)
  BY StandingOrdersAssumption DEF Idle, TickRecord, Pc, TickOK, InOrder
<1>3. Len(JobTerms) \in Nat
  BY StandingOrdersAssumption
<1>4. CallsOK(mempool, ticks, DOMAIN jobs) /\ OneCallEach(mempool)
  BY <1>1 DEF CallsOK, OneCallEach
<1>5. ticks \in [KeeperTick -> TickRecord]
      /\ \A t \in KeeperTick : TickOK(ticks[t], DOMAIN jobs)
  BY <1>1, <1>2
<1>6. QED
  BY <1>1, <1>3, <1>4, <1>5 DEF Shape

\* The tick t, at pc.
WithPc(t, pc) == [ticks[t] EXCEPT !.pc = pc]

LEMMA PcFacts ==
    ASSUME BookInv, NEW t \in KeeperTick, ticks[t].pc /= "idle", NEW pc \in Pc \ {"idle"}
    PROVE  /\ At(t, pc) = [ticks EXCEPT ![t] = WithPc(t, pc)]
           /\ TickOK(WithPc(t, pc), DOMAIN jobs)
           /\ WithPc(t, pc).pc = pc /\ WithPc(t, pc).due = ticks[t].due
<1>1. ticks \in [KeeperTick -> TickRecord] /\ TickOK(ticks[t], DOMAIN jobs)
  BY DEF BookInv, Shape
<1>2. /\ WithPc(t, pc) \in TickRecord
      /\ WithPc(t, pc).pc = pc /\ WithPc(t, pc).due = ticks[t].due
  BY <1>1 DEF WithPc, TickRecord
<1>3. At(t, pc) = [ticks EXCEPT ![t] = WithPc(t, pc)]
  BY <1>1 DEF At, WithPc
<1>4. TickOK(WithPc(t, pc), DOMAIN jobs)
  BY <1>1, <1>2 DEF TickOK
<1>5. QED
  BY <1>2, <1>3, <1>4

\* A list of due jobs is a list for a tick.
LEMMA DueListOK ==
    ASSUME BookInv, NEW n \in 1 .. Cap, NEW due \in [1 .. n -> DueJobs], IsDueIds(due)
    PROVE  TickOK([pc |-> "job", due |-> due], DOMAIN jobs)
<1>1. n \in Nat \ {0} /\ n <= Cap
  BY StandingOrdersAssumption
<1>2. \A k \in 1 .. n : due[k] \in DOMAIN jobs /\ due[k] \in Nat
  BY DEF DueJobs, BookInv, NonceInv, Types
<1>3. due \in Seq(Nat) /\ Len(due) = n /\ DOMAIN due = 1 .. n /\ due /= << >>
  <2>1. due \in [1 .. n -> Nat]
    BY <1>2
  <2>2. QED
    BY <1>1, <2>1
<1>4. [pc |-> "job", due |-> due] \in TickRecord
  BY <1>3 DEF TickRecord, Pc
<1>5. QED
  BY <1>1, <1>2, <1>3, <1>4 DEF TickOK, IsDueIds

LEMMA StartTickShape ==
    ASSUME BookInv, NEW t \in KeeperTick, StartTick(t) PROVE Shape'
<1>1. PICK n \in 1 .. Cap : \E due \in [1 .. n -> DueJobs] :
         IsDueIds(due) /\ ticks' = [ticks EXCEPT ![t] = [pc |-> "job", due |-> due]]
  BY DEF StartTick
<1>2. PICK due \in [1 .. n -> DueJobs] :
         IsDueIds(due) /\ ticks' = [ticks EXCEPT ![t] = [pc |-> "job", due |-> due]]
  BY <1>1
<1> DEFINE r == [pc |-> "job", due |-> due]
<1>3. TickOK(r, DOMAIN jobs) /\ ticks' = [ticks EXCEPT ![t] = r]
  BY <1>2, DueListOK
<1>4. deaths' \in Nat /\ giveUps' \in Nat /\ overlaps' \in Nat
  BY DEF StartTick, BookInv, Shape
<1>5. ticks[t].pc \notin {"submitted", "marked"} /\ UNCHANGED <<clientVars, jobs, marks, mempool>>
  BY DEF StartTick
<1> HIDE DEF r
<1>6. QED
  BY <1>3, <1>4, <1>5, QuietTickShape

LEMMA SendSubmitShape ==
    ASSUME BookInv, NEW t \in KeeperTick, SendSubmit(t) PROVE Shape'
<1>1. /\ ticks[t].pc = "job"
      /\ UNCHANGED <<clientVars, jobs, marks, deaths, giveUps, overlaps>>
      /\ deaths \in Nat /\ giveUps \in Nat /\ overlaps \in Nat
  BY DEF SendSubmit, BookInv, Shape
<1>2. CASE CanDeclare(t)
  <2> DEFINE c == [by |-> t, call |-> "submitFor", msg |-> KeeperMessage(t)]
             r == WithPc(t, "submitted")
  <2>1. mempool' = Append(mempool, c) /\ ticks' = [ticks EXCEPT ![t] = r]
    BY <1>1, <1>2, PcFacts DEF SendSubmit, Pc
  <2>2. TickOK(r, DOMAIN jobs) /\ r.pc = "submitted" /\ r.due = ticks[t].due
    BY <1>1, PcFacts DEF Pc
  <2>3. c \in SubmitCall \cup MarkCall /\ c.by = t
    <3>1. KeeperMessage(t) \in MessageRecord /\ t \in Nat
      BY <1>2, KeeperMessageType DEF BookInv, KeeperTick, CanDeclare
    <3>2. QED
      BY <3>1 DEF SubmitCall
  <2>4. Awaits(r, c) /\ Head(r.due) \in DOMAIN jobs
    BY <1>2, <2>2 DEF Awaits, KeeperMessage, Message, JobOf, CanDeclare
  <2> HIDE DEF c, r
  <2>5. QED
    BY <1>1, <2>1, <2>2, <2>3, <2>4, SendingTickShape
<1>3. CASE ~CanDeclare(t)
  <2>1. ticks' = [ticks EXCEPT ![t] = Onward(t)] /\ mempool' = mempool
    BY <1>3 DEF SendSubmit
  <2>2. TickOK(Onward(t), DOMAIN jobs)
    BY <1>1, OnwardFacts
  <2>3. QED
    BY <1>1, <2>1, <2>2, QuietTickShape
<1>4. QED
  BY <1>2, <1>3

LEMMA SendMarkShape ==
    ASSUME BookInv, NEW t \in KeeperTick, SendMark(t) PROVE Shape'
<1>1. /\ ticks[t].pc = "declared"
      /\ UNCHANGED <<clientVars, jobs, marks, deaths, giveUps, overlaps>>
      /\ deaths \in Nat /\ giveUps \in Nat /\ overlaps \in Nat
  BY DEF SendMark, BookInv, Shape
<1>2. CASE CanMark(JobOf(t))
  <2> DEFINE c == [by |-> t, call |-> "markRun", job |-> JobOf(t)]
             r == WithPc(t, "marked")
  <2>1. mempool' = Append(mempool, c) /\ ticks' = [ticks EXCEPT ![t] = r]
    BY <1>1, <1>2, PcFacts DEF SendMark, Pc
  <2>2. TickOK(r, DOMAIN jobs) /\ r.pc = "marked" /\ r.due = ticks[t].due
    BY <1>1, PcFacts DEF Pc
  <2>3. c \in SubmitCall \cup MarkCall /\ c.by = t
    <3>1. JobOf(t) \in Nat /\ t \in Nat
      BY <1>2 DEF CanMark, KeeperTick, BookInv, NonceInv, Types
    <3>2. QED
      BY <3>1 DEF MarkCall
  <2>4. Awaits(r, c) /\ Head(r.due) \in DOMAIN jobs
    BY <1>2, <2>2 DEF Awaits, JobOf, CanMark
  <2> HIDE DEF c, r
  <2>5. QED
    BY <1>1, <2>1, <2>2, <2>3, <2>4, SendingTickShape
<1>3. CASE ~CanMark(JobOf(t))
  <2>1. ticks' = [ticks EXCEPT ![t] = Onward(t)] /\ mempool' = mempool
    BY <1>3 DEF SendMark
  <2>2. TickOK(Onward(t), DOMAIN jobs)
    BY <1>1, OnwardFacts
  <2>3. QED
    BY <1>1, <2>1, <2>2, QuietTickShape
<1>4. QED
  BY <1>2, <1>3

\* The first call lands, and who sent it, if anybody waits, goes on.
LEMMA CallsAfterLanding ==
    ASSUME BookInv, mempool /= << >>, mempool' = Tail(mempool), NEW r,
           IF Head(mempool).by = Nobody THEN ticks' = ticks
           ELSE TickOK(r, DOMAIN jobs) /\ ticks' = [ticks EXCEPT ![Head(mempool).by] = r]
    PROVE  /\ ticks' \in [KeeperTick -> TickRecord]
           /\ \A u \in KeeperTick : TickOK(ticks'[u], DOMAIN jobs)
           /\ CallsOK(mempool', ticks', DOMAIN jobs)
           /\ OneCallEach(mempool')
<1> DEFINE first == Head(mempool).by
<1>1. /\ mempool \in Seq(SubmitCall \cup MarkCall) /\ OneCallEach(mempool)
      /\ CallsOK(mempool, ticks, DOMAIN jobs)
      /\ ticks \in [KeeperTick -> TickRecord] /\ \A u \in KeeperTick : TickOK(ticks[u], DOMAIN jobs)
  BY DEF BookInv, NonceInv, Types, Shape
<1>2. /\ Len(mempool) \in Nat \ {0} /\ Head(mempool) = mempool[1]
      /\ DOMAIN mempool = 1 .. Len(mempool) /\ DOMAIN mempool' = 1 .. Len(mempool) - 1
      /\ \A n \in DOMAIN mempool' : mempool'[n] = mempool[n + 1]
  BY <1>1
<1>3. first \in KeeperTick \cup {Nobody}
  BY <1>1, <1>2 DEF CallsOK, CallOK
<1>4. /\ ticks' \in [KeeperTick -> TickRecord]
      /\ \A u \in KeeperTick : TickOK(ticks'[u], DOMAIN jobs)
      /\ \A u \in KeeperTick : u /= first => ticks'[u] = ticks[u]
  <2>1. CASE first = Nobody
    BY <2>1, <1>1
  <2>2. CASE first /= Nobody
    <3>1. first \in KeeperTick /\ TickOK(r, DOMAIN jobs) /\ ticks' = [ticks EXCEPT ![first] = r]
      BY <2>2, <1>3
    <3> HIDE DEF first
    <3>2. QED
      BY <3>1, TickMoves
  <2>3. QED
    BY <2>1, <2>2
<1>5. ASSUME NEW n \in DOMAIN mempool' PROVE CallOK(mempool'[n], ticks', DOMAIN jobs)
  <2>1. /\ n + 1 \in DOMAIN mempool
        /\ mempool'[n] = mempool[n + 1]
        /\ n + 1 /= 1
        /\ 1 \in DOMAIN mempool
    BY <1>2
  <2>2. CallOK(mempool[n + 1], ticks, DOMAIN jobs)
    BY <1>1, <2>1 DEF CallsOK
  <2>3. mempool[n + 1].by = first => first = Nobody
    BY <1>1, <1>2, <2>1 DEF OneCallEach
  <2> HIDE DEF first
  <2>4. CallOK(mempool[n + 1], ticks', DOMAIN jobs)
    BY <1>4, <2>2, <2>3 DEF CallOK
  <2>5. QED
    BY <2>1, <2>4
<1>6. OneCallEach(mempool')
  <2>1. ASSUME NEW n \in DOMAIN mempool', NEW k \in DOMAIN mempool', n /= k,
               mempool'[n].by = mempool'[k].by
        PROVE  mempool'[n].by = Nobody
    <3>1. n + 1 \in DOMAIN mempool /\ k + 1 \in DOMAIN mempool /\ n + 1 /= k + 1
      BY <1>2, <2>1
    <3>2. QED
      BY <1>1, <1>2, <2>1, <3>1 DEF OneCallEach
  <2>2. QED
    BY <2>1 DEF OneCallEach
<1>7. QED
  BY <1>4, <1>5, <1>6 DEF CallsOK

\* Who sent the first call waits for it.
LEMMA FirstCall ==
    ASSUME BookInv, mempool /= << >>
    PROVE  /\ Head(mempool) \in SubmitCall \cup MarkCall
           /\ CallOK(Head(mempool), ticks, DOMAIN jobs)
<1>1. mempool \in Seq(SubmitCall \cup MarkCall) /\ CallsOK(mempool, ticks, DOMAIN jobs)
  BY DEF BookInv, NonceInv, Types, Shape
<1>2. 1 \in DOMAIN mempool /\ Head(mempool) = mempool[1]
  BY <1>1
<1>3. QED
  BY <1>1, <1>2 DEF CallsOK

\* What a submission that lands does to the tick that sent it.
AfterSubmission(t, ok) == IF ok THEN WithPc(t, "declared") ELSE Onward(t)

LEMMA LandSubmitTicks ==
    ASSUME BookInv, LandSubmit
    PROVE  LET c == Head(mempool)
               ok == CanSubmitFor(c.msg)
           IN  /\ c \in SubmitCall /\ CallOK(c, ticks, DOMAIN jobs)
               /\ c.by = Nobody => ticks' = ticks
               /\ c.by /= Nobody =>
                    /\ c.by \in KeeperTick /\ ticks[c.by].pc = "submitted"
                    /\ TickOK(AfterSubmission(c.by, ok), DOMAIN jobs)
                    /\ ticks' = [ticks EXCEPT ![c.by] = AfterSubmission(c.by, ok)]
                    /\ c.msg.what = <<"job", JobOf(c.by)>>
<1> DEFINE c == Head(mempool)
           ok == CanSubmitFor(c.msg)
           t == c.by
<1>1. mempool /= << >> /\ c.call = "submitFor"
  BY DEF LandSubmit
<1>2. c \in SubmitCall /\ CallOK(c, ticks, DOMAIN jobs)
  <2>1. c \in SubmitCall \cup MarkCall /\ CallOK(c, ticks, DOMAIN jobs)
    BY <1>1, FirstCall
  <2>2. QED
    BY <1>1, <2>1 DEF MarkCall
<1>3. ticks' = IF t = Nobody \/ ticks[t].pc /= "submitted" THEN ticks
               ELSE IF ok THEN At(t, "declared")
               ELSE [ticks EXCEPT ![t] = Onward(t)]
  BY DEF LandSubmit
<1> HIDE DEF ok
<1>4. ASSUME t /= Nobody
      PROVE  /\ t \in KeeperTick /\ ticks[t].pc = "submitted"
             /\ TickOK(AfterSubmission(t, ok), DOMAIN jobs)
             /\ ticks' = [ticks EXCEPT ![t] = AfterSubmission(t, ok)]
             /\ c.msg.what = <<"job", JobOf(t)>>
  <2>1. t \in KeeperTick /\ ticks[t].pc = "submitted" /\ c.msg.what = <<"job", JobOf(t)>>
    BY <1>1, <1>2, <1>4 DEF CallOK, Awaits, JobOf
  <2> HIDE DEF c, t
  <2>2. TickOK(Onward(t), DOMAIN jobs)
    BY <2>1, OnwardFacts
  <2>3. TickOK(WithPc(t, "declared"), DOMAIN jobs)
        /\ At(t, "declared") = [ticks EXCEPT ![t] = WithPc(t, "declared")]
    BY <2>1, PcFacts DEF Pc
  <2>4. QED
    BY <1>3, <1>4, <2>1, <2>2, <2>3 DEF AfterSubmission
<1>5. QED
  BY <1>2, <1>3, <1>4 DEF ok

LEMMA LandSubmitShape == ASSUME BookInv, LandSubmit PROVE Shape'
<1> DEFINE c == Head(mempool)
           ok == CanSubmitFor(c.msg)
           r == AfterSubmission(c.by, ok)
<1>1. mempool /= << >> /\ mempool' = Tail(mempool)
  BY DEF LandSubmit
<1>2. /\ c \in SubmitCall /\ CallOK(c, ticks, DOMAIN jobs) /\ c.call = "submitFor"
      /\ IF c.by = Nobody THEN ticks' = ticks
         ELSE TickOK(r, DOMAIN jobs) /\ ticks' = [ticks EXCEPT ![c.by] = r]
  BY LandSubmitTicks DEF LandSubmit
<1> HIDE DEF r
<1>3. /\ ticks' \in [KeeperTick -> TickRecord]
      /\ \A u \in KeeperTick : TickOK(ticks'[u], DOMAIN jobs)
      /\ CallsOK(mempool', ticks', DOMAIN jobs)
      /\ OneCallEach(mempool')
  BY <1>1, <1>2, CallsAfterLanding
<1>4. intents' = IF ok THEN Opened(c.msg) ELSE intents
  BY DEF LandSubmit
<1>5. \A n \in DOMAIN intents' : ForOne(intents'[n].what, DOMAIN jobs)
  <2>1. intents \in Seq(IntentRecord) /\ \A n \in DOMAIN intents : ForOne(intents[n].what, DOMAIN jobs)
    BY DEF BookInv, NonceInv, Types, Shape
  <2>2. ForOne(c.msg.what, DOMAIN jobs)
    BY <1>2 DEF CallOK, ForOne
  <2>3. CASE ok
    <3> DEFINE x == [owner |-> c.msg.owner, what |-> c.msg.what, nonce |-> c.msg.nonce,
                     closes |-> c.msg.closes, at |-> now]
    <3>1. intents' = Append(intents, x) /\ x.what = c.msg.what
      BY <1>4, <2>3 DEF Opened
    <3> HIDE DEF x, c, ok
    <3>2. \A n \in DOMAIN intents' : intents'[n] = x \/ (n \in DOMAIN intents /\ intents'[n] = intents[n])
      BY <2>1, <3>1
    <3>3. QED
      BY <2>1, <2>2, <3>1, <3>2
  <2>4. CASE ~ok
    BY <1>4, <2>1, <2>4
  <2>5. QED
    BY <2>3, <2>4
<1> HIDE DEF c, ok
<1>6. /\ UNCHANGED <<messages, jobs, marks, deaths, giveUps, overlaps>>
      /\ DOMAIN jobs' = DOMAIN jobs /\ Len(jobs') = Len(jobs)
  BY DEF LandSubmit
<1>7. QED
  BY <1>3, <1>5, <1>6 DEF BookInv, Shape

\* Running a job changes no other, and nothing of it but how it stands.
LEMMA JobsAfterRunFacts ==
    ASSUME BookInv, NEW j \in DOMAIN jobs, NEW after, after = JobsAfterRun(j)
    PROVE  /\ DOMAIN after = DOMAIN jobs /\ Len(after) = Len(jobs)
           /\ \A k \in DOMAIN jobs : k /= j => after[k] = jobs[k]
           /\ after[j].runs = jobs[j].runs + 1 /\ after[j].every = jobs[j].every
           /\ after[j].maxRuns = jobs[j].maxRuns /\ after[j].nextRunAt = now + jobs[j].every
           /\ after[j].active <=> jobs[j].maxRuns = 0 \/ jobs[j].runs + 1 < jobs[j].maxRuns
<1> DEFINE x == [jobs[j] EXCEPT !.runs = @ + 1,
                    !.nextRunAt = now + jobs[j].every,
                    !.active = jobs[j].maxRuns = 0 \/ jobs[j].runs + 1 < jobs[j].maxRuns]
<1>1. jobs \in Seq(JobRecord) /\ jobs[j] \in JobRecord
  BY DEF BookInv, NonceInv, Types
<1>2. /\ x.runs = jobs[j].runs + 1 /\ x.every = jobs[j].every
      /\ x.maxRuns = jobs[j].maxRuns /\ x.nextRunAt = now + jobs[j].every
      /\ x.active = (jobs[j].maxRuns = 0 \/ jobs[j].runs + 1 < jobs[j].maxRuns)
  BY <1>1 DEF JobRecord
<1>3. after = [jobs EXCEPT ![j] = x]
  BY DEF JobsAfterRun
<1> HIDE DEF x
<1>4. /\ DOMAIN after = DOMAIN jobs /\ Len(after) = Len(jobs) /\ after[j] = x
      /\ \A k \in DOMAIN jobs : k /= j => after[k] = jobs[k]
  <2>1. after \in Seq(JobRecord)
    BY RunIsAJob DEF BookInv
  <2>2. DOMAIN after = DOMAIN jobs
    BY <1>1, <1>3
  <2>3. DOMAIN after = 1 .. Len(after) /\ DOMAIN jobs = 1 .. Len(jobs)
        /\ Len(after) \in Nat /\ Len(jobs) \in Nat
    BY <1>1, <2>1
  <2>4. Len(after) = Len(jobs)
    <3>1. \A a, b \in Nat : 1 .. a = 1 .. b => a = b
      <4>1. \A a, b \in Nat : 1 .. a = 1 .. b => a <= b
        <5>1. \A a \in Nat : a = 0 \/ a \in 1 .. a
          OBVIOUS
        <5>2. QED
          BY <5>1
      <4>2. QED
        BY <4>1
    <3>2. QED
      BY <2>2, <2>3, <3>1
  <2>5. QED
    BY <1>1, <1>3, <2>2, <2>4
<1>5. QED
  BY <1>2, <1>4

\* What a mark that lands does to the tick that sent it.
LEMMA LandMarkTicks ==
    ASSUME BookInv, LandMark
    PROVE  LET c == Head(mempool)
           IN  /\ c \in MarkCall /\ CallOK(c, ticks, DOMAIN jobs)
               /\ c.job \in DOMAIN jobs
               /\ c.by = Nobody => ticks' = ticks
               /\ c.by /= Nobody =>
                    /\ c.by \in KeeperTick /\ ticks[c.by].pc = "marked"
                    /\ TickOK(Onward(c.by), DOMAIN jobs)
                    /\ ticks' = [ticks EXCEPT ![c.by] = Onward(c.by)]
                    /\ c.job = JobOf(c.by)
<1> DEFINE c == Head(mempool)
           t == c.by
<1>1. mempool /= << >> /\ c.call = "markRun"
  BY DEF LandMark
<1>2. c \in MarkCall /\ CallOK(c, ticks, DOMAIN jobs)
  <2>1. c \in SubmitCall \cup MarkCall /\ CallOK(c, ticks, DOMAIN jobs)
    BY <1>1, FirstCall
  <2>2. QED
    BY <1>1, <2>1 DEF SubmitCall
<1>3. ticks' = IF t = Nobody THEN ticks ELSE [ticks EXCEPT ![t] = Onward(t)]
  BY DEF LandMark
<1>4. c.job \in DOMAIN jobs
  BY <1>1, <1>2 DEF CallOK
<1>5. ASSUME t /= Nobody
      PROVE  /\ t \in KeeperTick /\ ticks[t].pc = "marked"
             /\ TickOK(Onward(t), DOMAIN jobs) /\ c.job = JobOf(t)
  <2>1. t \in KeeperTick /\ ticks[t].pc = "marked" /\ c.job = JobOf(t)
    BY <1>1, <1>2, <1>5 DEF CallOK, Awaits, JobOf
  <2> HIDE DEF c, t
  <2>2. TickOK(Onward(t), DOMAIN jobs)
    BY <2>1, OnwardFacts
  <2>3. QED
    BY <2>1, <2>2
<1>6. QED
  BY <1>2, <1>3, <1>4, <1>5

LEMMA LandMarkShape == ASSUME BookInv, LandMark PROVE Shape'
<1> DEFINE c == Head(mempool)
           r == Onward(c.by)
<1>1. mempool /= << >> /\ mempool' = Tail(mempool)
  BY DEF LandMark
<1>2. /\ c.job \in DOMAIN jobs
      /\ IF c.by = Nobody THEN ticks' = ticks
         ELSE TickOK(r, DOMAIN jobs) /\ ticks' = [ticks EXCEPT ![c.by] = r]
  BY LandMarkTicks
<1> HIDE DEF r
<1>3. /\ ticks' \in [KeeperTick -> TickRecord]
      /\ \A u \in KeeperTick : TickOK(ticks'[u], DOMAIN jobs)
      /\ CallsOK(mempool', ticks', DOMAIN jobs)
      /\ OneCallEach(mempool')
  BY <1>1, <1>2, CallsAfterLanding
<1>4. jobs' = IF CanMark(c.job) THEN JobsAfterRun(c.job) ELSE jobs
  BY DEF LandMark
<1> HIDE DEF c
<1>5. DOMAIN jobs' = DOMAIN jobs /\ Len(jobs') = Len(jobs)
  BY <1>2, <1>4, JobsAfterRunFacts
<1>6. UNCHANGED <<messages, intents, marks, deaths, giveUps, overlaps>>
  BY DEF LandMark, clientVars
<1>7. QED
  BY <1>3, <1>5, <1>6 DEF BookInv, Shape

\* The calls of a tick that stops waiting are nobody's.
LEMMA ForgottenFacts ==
    ASSUME BookInv, NEW t \in KeeperTick
    PROVE  /\ DOMAIN Forgotten(t) = DOMAIN mempool
           /\ \A n \in DOMAIN mempool :
                 /\ mempool[n].by /= t => Forgotten(t)[n] = mempool[n]
                 /\ mempool[n].by = t =>
                      /\ Forgotten(t)[n].by = Nobody /\ Forgotten(t)[n].call = mempool[n].call
                      /\ mempool[n] \in SubmitCall =>
                            Forgotten(t)[n] \in SubmitCall /\ Forgotten(t)[n].msg = mempool[n].msg
                      /\ mempool[n] \in MarkCall =>
                            Forgotten(t)[n] \in MarkCall /\ Forgotten(t)[n].job = mempool[n].job
<1>1. DOMAIN Forgotten(t) = DOMAIN mempool
  BY DEF Forgotten
<1>2. ASSUME NEW n \in DOMAIN mempool
      PROVE  /\ mempool[n].by /= t => Forgotten(t)[n] = mempool[n]
             /\ mempool[n].by = t => Forgotten(t)[n] = [mempool[n] EXCEPT !.by = Nobody]
  BY DEF Forgotten
<1>3. ASSUME NEW c \in SubmitCall
      PROVE  LET d == [c EXCEPT !.by = Nobody]
             IN  d.by = Nobody /\ d.call = c.call /\ d.msg = c.msg /\ d \in SubmitCall
  BY DEF SubmitCall, Nobody
<1>4. ASSUME NEW c \in MarkCall
      PROVE  LET d == [c EXCEPT !.by = Nobody]
             IN  d.by = Nobody /\ d.call = c.call /\ d.job = c.job /\ d \in MarkCall
  BY DEF MarkCall, Nobody
<1>5. ASSUME NEW n \in DOMAIN mempool, mempool[n].by = t
      PROVE  /\ mempool[n] \in SubmitCall =>
                   /\ Forgotten(t)[n] \in SubmitCall /\ Forgotten(t)[n].by = Nobody
                   /\ Forgotten(t)[n].call = mempool[n].call
                   /\ Forgotten(t)[n].msg = mempool[n].msg
             /\ mempool[n] \in MarkCall =>
                   /\ Forgotten(t)[n] \in MarkCall /\ Forgotten(t)[n].by = Nobody
                   /\ Forgotten(t)[n].call = mempool[n].call
                   /\ Forgotten(t)[n].job = mempool[n].job
  <2> DEFINE c == mempool[n]
  <2>1. Forgotten(t)[n] = [c EXCEPT !.by = Nobody]
    BY <1>2, <1>5
  <2> HIDE DEF c
  <2>2. /\ c \in SubmitCall => [c EXCEPT !.by = Nobody] \in SubmitCall
              /\ [c EXCEPT !.by = Nobody].by = Nobody /\ [c EXCEPT !.by = Nobody].call = c.call
              /\ [c EXCEPT !.by = Nobody].msg = c.msg
        /\ c \in MarkCall => [c EXCEPT !.by = Nobody] \in MarkCall
              /\ [c EXCEPT !.by = Nobody].by = Nobody /\ [c EXCEPT !.by = Nobody].call = c.call
              /\ [c EXCEPT !.by = Nobody].job = c.job
    BY <1>3, <1>4
  <2>3. QED
    BY <2>1, <2>2 DEF c
<1>6. \A n \in DOMAIN mempool : mempool[n] \in SubmitCall \cup MarkCall
  BY DEF BookInv, NonceInv, Types
<1>7. ASSUME NEW n \in DOMAIN mempool
      PROVE  /\ mempool[n].by /= t => Forgotten(t)[n] = mempool[n]
             /\ mempool[n].by = t =>
                  /\ Forgotten(t)[n].by = Nobody /\ Forgotten(t)[n].call = mempool[n].call
                  /\ mempool[n] \in SubmitCall =>
                        Forgotten(t)[n] \in SubmitCall /\ Forgotten(t)[n].msg = mempool[n].msg
                  /\ mempool[n] \in MarkCall =>
                        Forgotten(t)[n] \in MarkCall /\ Forgotten(t)[n].job = mempool[n].job
  BY <1>2, <1>5, <1>6
<1>8. QED
  BY <1>1, <1>7

LEMMA ForgettingShape ==
    ASSUME BookInv, NEW t \in KeeperTick, NEW r, TickOK(r, DOMAIN jobs),
           ticks' = [ticks EXCEPT ![t] = r], mempool' = Forgotten(t),
           UNCHANGED <<clientVars, jobs, marks>>,
           deaths' \in Nat, giveUps' \in Nat, overlaps' \in Nat
    PROVE  Shape'
<1>1. \A u \in KeeperTick : u /= t => ticks'[u] = ticks[u]
  BY TickMoves
<1>2. CallsOK(mempool, ticks, DOMAIN jobs) /\ OneCallEach(mempool)
  BY DEF BookInv, Shape
<1>3. \A n \in DOMAIN mempool : mempool[n] \in SubmitCall \cup MarkCall
  BY DEF BookInv, NonceInv, Types
<1>4. ASSUME NEW n \in DOMAIN mempool PROVE CallOK(Forgotten(t)[n], ticks', DOMAIN jobs)
  <2>1. CallOK(mempool[n], ticks, DOMAIN jobs)
    BY <1>2 DEF CallsOK
  <2>2. CASE mempool[n].by /= t
    <3>1. Forgotten(t)[n] = mempool[n]
      BY <2>2, ForgottenFacts
    <3>2. QED
      BY <1>1, <2>1, <2>2, <3>1 DEF CallOK
  <2>3. CASE mempool[n].by = t
    <3> DEFINE d == Forgotten(t)[n]
    <3>1. /\ d.by = Nobody /\ d.call = mempool[n].call
          /\ d.call = "submitFor" => d.msg = mempool[n].msg
          /\ d.call = "markRun" => d.job = mempool[n].job
      BY <1>3, <2>3, ForgottenFacts DEF SubmitCall, MarkCall
    <3> HIDE DEF d
    <3>2. CallOK(d, ticks', DOMAIN jobs)
      BY <2>1, <3>1 DEF CallOK
    <3>3. QED
      BY <3>2 DEF d
  <2>4. QED
    BY <2>2, <2>3
<1>5. CallsOK(mempool', ticks', DOMAIN jobs)
  BY <1>4, ForgottenFacts DEF CallsOK
<1>6. OneCallEach(mempool')
  <2>1. /\ DOMAIN mempool' = DOMAIN mempool
        /\ \A n \in DOMAIN mempool : mempool'[n].by = mempool[n].by \/ mempool'[n].by = Nobody
    BY ForgottenFacts
  <2>2. QED
    BY <1>2, <2>1 DEF OneCallEach
<1>7. QED
  BY <1>5, <1>6, ShapeAfterTick

LEMMA DieShape == ASSUME BookInv, NEW t \in KeeperTick, Die(t) PROVE Shape'
<1>1. TickOK(Idle, DOMAIN jobs)
  BY StandingOrdersAssumption DEF Idle, TickRecord, Pc, TickOK, InOrder
<1>2. deaths' \in Nat /\ giveUps' \in Nat /\ overlaps' \in Nat
  BY DEF Die, BookInv, Shape
<1>3. QED
  BY <1>1, <1>2, ForgettingShape DEF Die

LEMMA GiveUpShape == ASSUME BookInv, NEW t \in KeeperTick, GiveUp(t) PROVE Shape'
<1>1. TickOK(Onward(t), DOMAIN jobs)
  BY OnwardFacts DEF GiveUp
<1>2. deaths' \in Nat /\ giveUps' \in Nat /\ overlaps' \in Nat
  BY DEF GiveUp, BookInv, Shape
<1>3. QED
  BY <1>1, <1>2, ForgettingShape DEF GiveUp

\* What the clients do to the books: intents of requests are added, and time may go
\* on.
LEMMA ClientFacts ==
    ASSUME BookInv, ClientStep
    PROVE  /\ now' \in Nat /\ now <= now'
           /\ \A m \in messages' : ForRequest(m.what)
           /\ \/ intents' = intents
              \/ \E x \in IntentRecord : intents' = Append(intents, x) /\ ForRequest(x.what)
<1>1. now \in Nat /\ messages \subseteq MessageRecord /\ \A m \in messages : ForRequest(m.what)
  BY DEF BookInv, NonceInv, Types, Shape
<1>2. ASSUME NEW m \in messages, SubmitFor(m)
      PROVE  \E x \in IntentRecord : intents' = Append(intents, x) /\ ForRequest(x.what)
  <2> DEFINE x == [owner |-> m.owner, what |-> m.what, nonce |-> m.nonce,
                   closes |-> m.closes, at |-> now]
  <2>1. x \in IntentRecord /\ x.what = m.what
    <3>1. m \in MessageRecord
      BY <1>1
    <3>2. m.owner \in Owner /\ m.what \in What /\ m.nonce \in Int /\ m.closes \in Nat
      BY <3>1 DEF MessageRecord
    <3>3. QED
      BY <1>1, <3>2 DEF IntentRecord
  <2>2. intents' = Append(intents, x)
    BY <1>2 DEF SubmitFor, Opened
  <2> HIDE DEF x
  <2>3. QED
    BY <1>1, <2>1, <2>2
<1>3. ASSUME NEW q \in Request, FallBack(q)
      PROVE  \/ intents' = intents
             \/ \E x \in IntentRecord : intents' = Append(intents, x) /\ ForRequest(x.what)
  <2> DEFINE x == [owner |-> q.owner, what |-> <<"request", q>>, nonce |-> -1,
                   closes |-> now + Window, at |-> now]
  <2>1. x \in IntentRecord /\ ForRequest(x.what)
    <3>1. q.owner \in Owner /\ now + Window \in Nat
      BY <1>1, SubmissionAssumption
    <3>2. <<"request", q>> \in What /\ ForRequest(<<"request", q>>) /\ -1 \in Int
      BY DEF What, ForRequest
    <3>3. QED
      BY <1>1, <3>1, <3>2 DEF IntentRecord
  <2>2. intents' = intents \/ intents' = Append(intents, x)
    BY <1>3 DEF FallBack, Opened, Message
  <2> HIDE DEF x
  <2>3. QED
    BY <2>1, <2>2
<1>4. ASSUME NEW q \in Request, AskRelay(q) PROVE \A m \in messages' : ForRequest(m.what)
  <2> DEFINE x == Message(q.owner, q.owner, q.kind, <<"request", q>>, now + Window,
                          nonces[q.owner])
  <2>1. x.what = <<"request", q>>
    BY DEF Message
  <2>2. messages' = messages \cup {x}
    BY <1>4 DEF AskRelay
  <2> HIDE DEF x
  <2>3. QED
    BY <1>1, <2>1, <2>2 DEF ForRequest
<1>5. CASE Tick
  BY <1>1, <1>5 DEF Tick
<1>6. CASE \E m \in messages : SubmitFor(m)
  <2>1. PICK m \in messages : SubmitFor(m)
    BY <1>6
  <2>2. now' = now /\ messages' = messages
    BY <2>1 DEF SubmitFor
  <2>3. QED
    BY <1>1, <1>2, <2>1, <2>2
<1>7. CASE \E q \in Request : FallBack(q)
  <2>1. PICK q \in Request : FallBack(q)
    BY <1>7
  <2>2. now' = now /\ messages' = messages
    BY <2>1 DEF FallBack
  <2>3. QED
    BY <1>1, <1>3, <2>1, <2>2
<1>8. CASE \E q \in Request : AskRelay(q)
  <2>1. PICK q \in Request : AskRelay(q)
    BY <1>8
  <2>2. now' = now /\ intents' = intents
    BY <2>1 DEF AskRelay
  <2>3. QED
    BY <1>1, <1>4, <2>1, <2>2
<1>9. CASE \E q \in Request : RelayAnswers(q)
  <2>1. PICK q \in Request : RelayAnswers(q)
    BY <1>9
  <2>2. now' = now /\ intents' = intents /\ messages' = messages
    BY <2>1 DEF RelayAnswers
  <2>3. QED
    BY <1>1, <2>1, <2>2
<1>10. CASE \E s \in grants : AuthorizeSessionFor(s)
  <2>1. PICK s \in grants : AuthorizeSessionFor(s)
    BY <1>10
  <2>2. now' = now /\ intents' = intents /\ messages' = messages
    BY <2>1 DEF AuthorizeSessionFor
  <2>3. QED
    BY <1>1, <2>1, <2>2
<1>11. CASE \E o \in Owner, g \in Grant : AuthorizeSession(o, g) \/ SignSession(o, g)
  BY <1>1, <1>11 DEF AuthorizeSession, SignSession
<1>12. CASE \E o \in Owner : RevokeSession(o)
  BY <1>1, <1>12 DEF RevokeSession
<1>13. QED
  BY <1>5, <1>6, <1>7, <1>8, <1>9, <1>10, <1>11, <1>12 DEF ClientStep

LEMMA ClientShape == ASSUME BookInv, ClientStep, UNCHANGED keeperVars PROVE Shape'
<1>1. \A m \in messages' : ForRequest(m.what)
  BY ClientFacts
<1>2. \A n \in DOMAIN intents' : ForOne(intents'[n].what, DOMAIN jobs)
  <2>1. intents \in Seq(IntentRecord) /\ \A n \in DOMAIN intents : ForOne(intents[n].what, DOMAIN jobs)
    BY DEF BookInv, NonceInv, Types, Shape
  <2>2. CASE intents' = intents
    BY <2>1, <2>2
  <2>3. ASSUME NEW x \in IntentRecord, intents' = Append(intents, x), ForRequest(x.what)
        PROVE  \A n \in DOMAIN intents' : ForOne(intents'[n].what, DOMAIN jobs)
    <3>1. \A n \in DOMAIN intents' :
             intents'[n] = x \/ (n \in DOMAIN intents /\ intents'[n] = intents[n])
      BY <2>1, <2>3
    <3>2. ForOne(x.what, DOMAIN jobs)
      BY <2>3 DEF ForOne
    <3>3. QED
      BY <2>1, <3>1, <3>2
  <2>4. QED
    BY <2>2, <2>3, ClientFacts
<1>3. UNCHANGED <<jobs, ticks, mempool, marks, deaths, giveUps, overlaps>>
  BY DEF keeperVars
<1>4. QED
  BY <1>1, <1>2, <1>3 DEF BookInv, Shape

\* A job more, or jobs that stand otherwise.
LEMMA RegisterShape ==
    ASSUME BookInv, DOMAIN jobs \subseteq DOMAIN jobs', Len(jobs') <= Len(JobTerms),
           marks' \in [Job -> Nat],
           UNCHANGED <<clientVars, ticks, mempool, deaths, giveUps, overlaps>>
    PROVE  Shape'
<1>1. \A t \in KeeperTick : TickOK(ticks[t], DOMAIN jobs')
  BY DEF BookInv, Shape, TickOK
<1>2. CallsOK(mempool, ticks, DOMAIN jobs')
  <2>1. ASSUME NEW n \in DOMAIN mempool PROVE CallOK(mempool[n], ticks, DOMAIN jobs')
    <3>1. CallOK(mempool[n], ticks, DOMAIN jobs)
      BY DEF BookInv, Shape, CallsOK
    <3>2. QED
      BY <3>1 DEF CallOK
  <2>2. QED
    BY <2>1 DEF CallsOK
<1>3. \A n \in DOMAIN intents : ForOne(intents[n].what, DOMAIN jobs')
  <2>1. \A n \in DOMAIN intents : ForOne(intents[n].what, DOMAIN jobs)
    BY DEF BookInv, Shape
  <2>2. QED
    BY <2>1 DEF ForOne
<1>4. QED
  BY <1>1, <1>2, <1>3 DEF BookInv, Shape, clientVars

LEMMA JobsAreJobs == BookInv => DOMAIN jobs \subseteq Job
<1>1. ASSUME BookInv, NEW j \in DOMAIN jobs PROVE j \in Job
  <2>1. jobs \in Seq(JobRecord) /\ Len(jobs) <= Len(JobTerms) /\ Len(JobTerms) \in Nat
    BY <1>1, StandingOrdersAssumption DEF BookInv, NonceInv, Types, Shape
  <2>2. QED
    BY <2>1 DEF Job
<1>2. QED
  BY <1>1

LEMMA CreateJobFacts ==
    ASSUME BookInv, CreateJob
    PROVE  /\ DOMAIN jobs' = DOMAIN jobs \cup {Len(jobs) + 1} /\ Len(jobs) + 1 \notin DOMAIN jobs
           /\ Len(jobs') <= Len(JobTerms)
           /\ \A j \in DOMAIN jobs : jobs'[j] = jobs[j]
           /\ jobs'[Len(jobs) + 1].runs = 0
<1>1. jobs \in Seq(JobRecord) /\ Len(jobs) < Len(JobTerms) /\ Len(JobTerms) \in Nat
  BY StandingOrdersAssumption DEF BookInv, NonceInv, Types, CreateJob
<1>2. PICK x : jobs' = Append(jobs, x) /\ x.runs = 0
  BY DEF CreateJob
<1>3. x \in JobRecord
  <2>1. jobs' \in Seq(JobRecord)
    BY CreateJobInv DEF BookInv, NonceInv, Types
  <2>2. jobs'[Len(jobs) + 1] = x /\ Len(jobs) + 1 \in DOMAIN jobs'
    BY <1>1, <1>2
  <2>3. QED
    BY <2>1, <2>2
<1>4. QED
  BY <1>1, <1>2, <1>3

LEMMA NextShape == BookInv /\ [Next]_vars => Shape'
<1> SUFFICES ASSUME BookInv, [Next]_vars PROVE Shape'
  OBVIOUS
<1>1. CASE UNCHANGED vars
  BY <1>1 DEF vars, clientVars, keeperVars, BookInv, Shape
<1>2. CASE KeeperStep
  BY <1>2, StartTickShape, SendSubmitShape, SendMarkShape, LandSubmitShape, LandMarkShape,
     DieShape, GiveUpShape DEF KeeperStep
<1>3. CASE RegisterStep
  <2>1. CASE CreateJob
    BY <2>1, CreateJobFacts, RegisterShape DEF CreateJob, BookInv, Shape
  <2>2. ASSUME NEW j \in DOMAIN jobs, CancelJob(j) PROVE Shape'
    <3>1. DOMAIN jobs' = DOMAIN jobs /\ Len(jobs') = Len(jobs)
      BY <2>2 DEF CancelJob, BookInv, NonceInv, Types
    <3>2. QED
      BY <2>2, <3>1, RegisterShape DEF CancelJob, BookInv, Shape
  <2>3. ASSUME NEW j \in DOMAIN jobs, MarkRun(j) PROVE Shape'
    <3>1. DOMAIN jobs' = DOMAIN jobs /\ Len(jobs') = Len(jobs)
      BY <2>3, JobsAfterRunFacts DEF MarkRun
    <3>2. marks' \in [Job -> Nat]
      <4>1. marks \in [Job -> Nat] /\ j \in Job
        BY JobsAreJobs DEF BookInv, Shape
      <4>2. marks' = [marks EXCEPT ![j] = @ + 1]
        BY <2>3 DEF MarkRun
      <4>3. QED
        BY <4>1, <4>2
    <3>3. QED
      BY <2>3, <3>1, <3>2, RegisterShape DEF MarkRun, BookInv, Shape
  <2>4. QED
    BY <1>3, <2>1, <2>2, <2>3 DEF RegisterStep
<1>4. CASE ClientStep /\ UNCHANGED keeperVars
  BY <1>4, ClientShape
<1>5. QED
  BY <1>1, <1>2, <1>3, <1>4 DEF Next

LEMMA BookInvHolds == Spec => []BookInv
<1>1. Init => BookInv
  BY InitNonceInv, InitShape DEF BookInv
<1>2. BookInv /\ [Next]_vars => BookInv'
  BY NextNonceInv, NextShape DEF BookInv
<1>3. QED
  BY <1>1, <1>2, PTL DEF Spec

-----------------------------------------------------------------------------
(* Types. *)

SessionRecord ==
    [key : Key \cup {NoKey}, expiresAt : Nat, kinds : SUBSET Kind, revoked : BOOLEAN]

\* A job is not run more often than it may be, and is retired by its last run.
RunsOK(job) ==
    job.maxRuns /= 0 => /\ job.runs <= job.maxRuns
                        /\ job.runs = job.maxRuns => ~job.active

Limits ==
    /\ now <= MaxTime
    /\ sessions \in [Owner -> SessionRecord]
    /\ asked \in [Request -> {"new", "relay", "done"}]
    /\ \A j \in DOMAIN jobs : RunsOK(jobs[j])

LEMMA InitLimits == Init => Limits
<1> SUFFICES ASSUME Init PROVE Limits
  OBVIOUS
<1>1. MaxTime \in Nat
  BY SubmissionAssumption
<1>2. [key |-> NoKey, expiresAt |-> 0, kinds |-> {}, revoked |-> FALSE] \in SessionRecord
  BY DEF SessionRecord
<1>3. QED
  BY <1>1, <1>2 DEF Init, SubmissionInit, Limits

LEMMA SessionsLimits ==
    ASSUME Limits, NEW o \in Owner, NEW g \in Grant,
           sessions' = [sessions EXCEPT ![o] = Session(g)]
    PROVE  sessions' \in [Owner -> SessionRecord]
<1>1. Session(g) \in SessionRecord
  BY SubmissionAssumption DEF Session, SessionRecord
<1>2. QED
  BY <1>1 DEF Limits

LEMMA ClientLimits ==
    ASSUME BookInv, Limits, ClientStep, UNCHANGED keeperVars PROVE Limits'
<1>1. /\ now \in Nat /\ MaxTime \in Nat /\ now <= MaxTime
      /\ sessions \in [Owner -> SessionRecord]
      /\ asked \in [Request -> {"new", "relay", "done"}]
      /\ grants \subseteq GrantRecord
  BY SubmissionAssumption DEF BookInv, NonceInv, Types, Limits
<1>2. \A j \in DOMAIN jobs' : RunsOK(jobs'[j])
  BY DEF Limits, keeperVars
<1>3. now' <= MaxTime /\ sessions' \in [Owner -> SessionRecord]
      /\ asked' \in [Request -> {"new", "relay", "done"}]
  <2>1. ASSUME NEW m \in messages, SubmitFor(m) PROVE <1>3!:
    BY <1>1, <2>1 DEF SubmitFor
  <2>2. ASSUME NEW s \in grants, AuthorizeSessionFor(s) PROVE <1>3!:
    <3>1. s.owner \in Owner /\ s.grant \in Grant
      BY <1>1 DEF GrantRecord
    <3>2. sessions' = [sessions EXCEPT ![s.owner] = Session(s.grant)]
          /\ now' = now /\ asked' = asked
      BY <2>2 DEF AuthorizeSessionFor
    <3>3. QED
      BY <1>1, <3>1, <3>2, SessionsLimits
  <2>3. ASSUME NEW o \in Owner, NEW g \in Grant, AuthorizeSession(o, g) PROVE <1>3!:
    BY <1>1, <2>3, SessionsLimits DEF AuthorizeSession
  <2>4. ASSUME NEW o \in Owner, NEW g \in Grant, SignSession(o, g) PROVE <1>3!:
    BY <1>1, <2>4 DEF SignSession
  <2>5. ASSUME NEW o \in Owner, RevokeSession(o) PROVE <1>3!:
    <3>1. [sessions[o] EXCEPT !.revoked = TRUE] \in SessionRecord
      <4>1. sessions[o] \in SessionRecord
        BY <1>1
      <4>2. QED
        BY <4>1 DEF SessionRecord
    <3>2. sessions' = [sessions EXCEPT ![o] = [sessions[o] EXCEPT !.revoked = TRUE]]
          /\ now' = now /\ asked' = asked
      BY <1>1, <2>5 DEF RevokeSession
    <3>3. QED
      BY <1>1, <3>1, <3>2
  <2>6. ASSUME NEW q \in Request, AskRelay(q) PROVE <1>3!:
    BY <1>1, <2>6 DEF AskRelay
  <2>7. ASSUME NEW q \in Request, RelayAnswers(q) PROVE <1>3!:
    BY <1>1, <2>7 DEF RelayAnswers
  <2>8. ASSUME NEW q \in Request, FallBack(q) PROVE <1>3!:
    BY <1>1, <2>8 DEF FallBack
  <2>9. ASSUME Tick PROVE <1>3!:
    BY <1>1, <2>9 DEF Tick
  <2>10. QED
    BY <2>1, <2>2, <2>3, <2>4, <2>5, <2>6, <2>7, <2>8, <2>9 DEF ClientStep
<1>4. QED
  BY <1>2, <1>3 DEF Limits

\* A job that may be marked has a run left.
LEMMA RunKeepsLimits ==
    ASSUME BookInv, Limits, NEW j \in DOMAIN jobs, CanMark(j), jobs' = JobsAfterRun(j)
    PROVE  \A k \in DOMAIN jobs' : RunsOK(jobs'[k])
<1>1. jobs[j].runs \in Nat /\ jobs[j].maxRuns \in Nat
  <2>1. jobs[j] \in JobRecord
    BY DEF BookInv, NonceInv, Types
  <2>2. QED
    BY <2>1 DEF JobRecord
<1>2. RunsOK(jobs'[j])
  <2>1. /\ jobs'[j].runs = jobs[j].runs + 1 /\ jobs'[j].maxRuns = jobs[j].maxRuns
        /\ jobs'[j].active <=> jobs[j].maxRuns = 0 \/ jobs[j].runs + 1 < jobs[j].maxRuns
    BY JobsAfterRunFacts
  <2>2. jobs[j].maxRuns /= 0 => jobs[j].runs < jobs[j].maxRuns
    BY DEF CanMark, IsDue
  <2>3. QED
    BY <1>1, <2>1, <2>2 DEF RunsOK
<1>3. DOMAIN jobs' = DOMAIN jobs /\ \A k \in DOMAIN jobs : k /= j => jobs'[k] = jobs[k]
  BY JobsAfterRunFacts
<1>4. QED
  BY <1>2, <1>3 DEF Limits

LEMMA NextLimits == BookInv /\ Limits /\ [Next]_vars => Limits'
<1> SUFFICES ASSUME BookInv, Limits, [Next]_vars PROVE Limits'
  OBVIOUS
<1>1. ASSUME UNCHANGED <<now, sessions, asked, jobs>> PROVE Limits'
  BY <1>1 DEF Limits
<1>2. ASSUME UNCHANGED <<now, sessions, asked>>, \A j \in DOMAIN jobs' : RunsOK(jobs'[j])
      PROVE  Limits'
  BY <1>2 DEF Limits
<1>3. CASE UNCHANGED vars
  BY <1>1, <1>3 DEF vars, clientVars, keeperVars
<1>4. CASE KeeperStep
  <2>1. CASE LandMark
    <3> DEFINE j == Head(mempool).job
    <3>1. j \in DOMAIN jobs /\ jobs' = IF CanMark(j) THEN JobsAfterRun(j) ELSE jobs
      BY <2>1, LandMarkTicks DEF LandMark
    <3> HIDE DEF j
    <3>2. \A k \in DOMAIN jobs' : RunsOK(jobs'[k])
      BY <3>1, RunKeepsLimits DEF Limits
    <3>3. QED
      BY <1>2, <2>1, <3>2 DEF LandMark, clientVars
  <2>2. CASE ~LandMark
    BY <1>1, <1>4, <2>2 DEF KeeperStep, StartTick, SendSubmit, SendMark, Die, GiveUp, LandSubmit,
       clientVars
  <2>3. QED
    BY <2>1, <2>2
<1>5. CASE RegisterStep
  <2>1. CASE CreateJob
    <3>1. \A k \in DOMAIN jobs' : RunsOK(jobs'[k])
      <4>1. RunsOK(jobs'[Len(jobs) + 1])
        <5>1. jobs'[Len(jobs) + 1].runs = 0 /\ jobs'[Len(jobs) + 1].maxRuns \in Nat
          <6>1. jobs' \in Seq(JobRecord) /\ Len(jobs) + 1 \in DOMAIN jobs'
            BY <2>1, CreateJobInv, CreateJobFacts DEF BookInv, NonceInv, Types
          <6>2. jobs'[Len(jobs) + 1] \in JobRecord
            BY <6>1
          <6>3. QED
            BY <2>1, <6>2, CreateJobFacts DEF JobRecord
        <5>2. QED
          BY <5>1 DEF RunsOK
      <4>2. QED
        BY <2>1, <4>1, CreateJobFacts DEF Limits
    <3>2. QED
      BY <1>2, <2>1, <3>1 DEF CreateJob, clientVars
  <2>2. ASSUME NEW j \in DOMAIN jobs, CancelJob(j) PROVE Limits'
    <3>1. jobs \in Seq(JobRecord) /\ jobs[j] \in JobRecord
      BY DEF BookInv, NonceInv, Types
    <3>2. /\ DOMAIN jobs' = DOMAIN jobs /\ \A k \in DOMAIN jobs : k /= j => jobs'[k] = jobs[k]
          /\ jobs'[j].runs = jobs[j].runs /\ jobs'[j].maxRuns = jobs[j].maxRuns
          /\ ~jobs'[j].active
      BY <2>2, <3>1 DEF CancelJob, JobRecord
    <3>3. \A k \in DOMAIN jobs' : RunsOK(jobs'[k])
      BY <3>2 DEF Limits, RunsOK
    <3>4. QED
      BY <1>2, <2>2, <3>3 DEF CancelJob, clientVars
  <2>3. ASSUME NEW j \in DOMAIN jobs, MarkRun(j) PROVE Limits'
    BY <1>2, <2>3, RunKeepsLimits DEF MarkRun, clientVars
  <2>4. QED
    BY <1>5, <2>1, <2>2, <2>3 DEF RegisterStep
<1>6. CASE ClientStep /\ UNCHANGED keeperVars
  BY <1>6, ClientLimits
<1>7. QED
  BY <1>3, <1>4, <1>5, <1>6 DEF Next

\* The types, for every set of owners, jobs and ticks: no job is run more often than
\* it may be, its last run retires it, and a tick has at most Cap jobs left, each of
\* which is there (RecurringRegistry.sol and recurring.ts).
THEOREM StandingTypesHold == Spec => []StandingTypeOK
<1>1. BookInv /\ Limits => StandingTypeOK
  <2> SUFFICES ASSUME BookInv, Limits PROVE StandingTypeOK
    OBVIOUS
  <2>1. now \in 0 .. MaxTime
    BY SubmissionAssumption DEF BookInv, NonceInv, Types, Limits
  <2>2. \A o \in Owner : sessions[o].key \in Key \cup {NoKey} /\ sessions[o].revoked \in BOOLEAN
    <3>1. ASSUME NEW o \in Owner PROVE sessions[o] \in SessionRecord
      BY DEF Limits
    <3>2. QED
      BY <3>1 DEF SessionRecord
  <2>3. ASSUME NEW n \in DOMAIN intents
        PROVE  \/ intents[n].what[1] = "request" /\ intents[n].what[2] \in Request
               \/ intents[n].what[1] = "job" /\ intents[n].what[2] \in DOMAIN jobs
    <3>1. ForOne(intents[n].what, DOMAIN jobs)
      BY DEF BookInv, Shape
    <3>2. QED
      BY <3>1 DEF ForOne, ForRequest
  <2>4. \A j \in DOMAIN jobs : jobs[j].maxRuns /= 0 =>
           /\ jobs[j].runs <= jobs[j].maxRuns
           /\ jobs[j].runs = jobs[j].maxRuns => ~jobs[j].active
    BY DEF Limits, RunsOK
  <2>5. ASSUME NEW t \in KeeperTick
        PROVE  /\ ticks[t].pc \in {"idle", "job", "submitted", "declared", "marked"}
               /\ ticks[t].pc = "idle" <=> ticks[t].due = << >>
               /\ Len(ticks[t].due) <= Cap
    <3>1. TickOK(ticks[t], DOMAIN jobs)
      BY DEF BookInv, Shape
    <3>2. QED
      BY <3>1 DEF TickOK, TickRecord, Pc
  <2>6. \A n \in DOMAIN mempool : mempool[n].by \in KeeperTick \cup {Nobody}
    BY DEF BookInv, Shape, CallsOK, CallOK
  <2>7. QED
    BY <2>1, <2>2, <2>3, <2>4, <2>5, <2>6 DEF StandingTypeOK, BookInv, NonceInv, Types, Limits
<1>2. QED
  BY BookInvHolds, InitLimits, NextLimits, <1>1, PTL DEF Spec

-----------------------------------------------------------------------------
(* Requests.                                                                 *)

Is(q) == <<"request", q>>

\* What is on the books for q: the relay's declaration closes when a message of q
\* does, the client's own comes last, and no two close at one time.
RequestOK(q, list, phase, signed) ==
    \A n \in DOMAIN list : list[n].what = Is(q) =>
       /\ phase /= "new"
       /\ list[n].nonce = -1 => phase = "done"
       /\ list[n].nonce /= -1 => \E m \in signed : m.what = Is(q) /\ m.closes = list[n].closes
       /\ \A k \in DOMAIN list : list[k].what = Is(q) /\ n /= k =>
             /\ list[n].closes /= list[k].closes
             /\ list[n].nonce /= -1 \/ list[k].nonce /= -1

\* Every request has one message, signed when the relay was asked.
Requests ==
    /\ asked \in [Request -> {"new", "relay", "done"}]
    /\ \A m \in messages :
          m.nonce \in Nat /\ \E q \in Request : m.what = Is(q) /\ asked[q] /= "new"
    /\ \A m, k \in messages : m.what = k.what => m = k
    /\ \A q \in Request : RequestOK(q, intents, asked[q], messages)

LEMMA InitRequests == Init => Requests
BY DEF Init, SubmissionInit, Requests, RequestOK

\* An intent that is not of q.
LEMMA OtherRequest ==
    ASSUME NEW R, NEW list \in Seq(R), NEW x \in R, NEW q, NEW phase, NEW signed,
           RequestOK(q, list, phase, signed), x.what /= Is(q)
    PROVE  RequestOK(q, Append(list, x), phase, signed)
<1> DEFINE more == Append(list, x)
<1>1. \A n \in DOMAIN more : more[n] = x \/ (n \in DOMAIN list /\ more[n] = list[n])
  OBVIOUS
<1> HIDE DEF more
<1>2. RequestOK(q, more, phase, signed)
  BY <1>1 DEF RequestOK
<1>3. QED
  BY <1>2 DEF more

\* An intent of q.
LEMMA SameRequest ==
    ASSUME NEW R, NEW list \in Seq(R), NEW x \in R, NEW q, NEW before, NEW after, NEW signed,
           RequestOK(q, list, before, signed), x.what = Is(q), after /= "new",
           before = "done" => after = "done",
           IF x.nonce = -1 THEN before /= "done" /\ after = "done"
           ELSE \E m \in signed : m.what = Is(q) /\ m.closes = x.closes,
           \A n \in DOMAIN list : list[n].what = Is(q) => list[n].closes /= x.closes
    PROVE  RequestOK(q, Append(list, x), after, signed)
<1> DEFINE more == Append(list, x)
           last == Len(list) + 1
<1>1. /\ \A n \in DOMAIN more : n = last \/ (n \in DOMAIN list /\ more[n] = list[n])
      /\ more[last] = x
  OBVIOUS
<1> HIDE DEF more, last
<1>2. ASSUME NEW n \in DOMAIN more, more[n].what = Is(q)
      PROVE  /\ after /= "new"
             /\ more[n].nonce = -1 => after = "done"
             /\ more[n].nonce /= -1 =>
                   \E m \in signed : m.what = Is(q) /\ m.closes = more[n].closes
  BY <1>1, <1>2 DEF RequestOK
<1>3. ASSUME NEW n \in DOMAIN more, more[n].what = Is(q),
             NEW k \in DOMAIN more, more[k].what = Is(q), n /= k
      PROVE  /\ more[n].closes /= more[k].closes
             /\ more[n].nonce /= -1 \/ more[k].nonce /= -1
  <2>1. CASE n \in DOMAIN list /\ k \in DOMAIN list
    BY <1>1, <1>3, <2>1 DEF RequestOK
  <2>2. ASSUME NEW i \in DOMAIN list, list[i].what = Is(q)
        PROVE  list[i].closes /= x.closes /\ (list[i].nonce /= -1 \/ x.nonce /= -1)
    BY <2>2 DEF RequestOK
  <2>3. QED
    BY <1>1, <1>3, <2>1, <2>2
<1>4. RequestOK(q, more, after, signed)
  BY <1>2, <1>3 DEF RequestOK
<1>5. QED
  BY <1>4 DEF more

\* The phase goes on, and messages are added.
LEMMA LaterRequest ==
    ASSUME NEW q, NEW list, NEW before, NEW after, NEW signed, NEW more,
           RequestOK(q, list, before, signed), signed \subseteq more,
           before = after \/ (before = "new" /\ after = "relay") \/ (before = "relay" /\ after = "done")
    PROVE  RequestOK(q, list, after, more)
BY DEF RequestOK

LEMMA SubmitForRequests == ASSUME BookInv, Requests, NEW m \in messages, SubmitFor(m) PROVE Requests'
<1> DEFINE x == [owner |-> m.owner, what |-> m.what, nonce |-> m.nonce,
                 closes |-> m.closes, at |-> now]
<1>1. intents \in Seq(IntentRecord) /\ now \in Nat /\ m \in MessageRecord
  BY DEF BookInv, NonceInv, Types
<1>2. x \in IntentRecord /\ x.what = m.what /\ x.nonce = m.nonce /\ x.closes = m.closes
  <2>1. m.owner \in Owner /\ m.what \in What /\ m.nonce \in Int /\ m.closes \in Nat
    BY <1>1 DEF MessageRecord
  <2>2. QED
    BY <1>1, <2>1 DEF IntentRecord
<1>3. /\ intents' = Append(intents, x) /\ asked' = asked /\ messages' = messages
      /\ ~IsOpen(m)
  BY DEF SubmitFor, Opened, CanSubmitFor, CanOpen
<1> HIDE DEF x
<1>4. ASSUME NEW q \in Request PROVE RequestOK(q, Append(intents, x), asked[q], messages)
  <2>1. RequestOK(q, intents, asked[q], messages)
    BY DEF Requests
  <2>2. CASE m.what /= Is(q)
    BY <1>1, <1>2, <2>1, <2>2, OtherRequest
  <2>3. CASE m.what = Is(q)
    <3>1. asked[q] /= "new" /\ m.nonce \in Nat
      BY <2>3 DEF Requests, Is
    <3>2. \A n \in DOMAIN intents : intents[n].what = Is(q) => intents[n].closes /= x.closes
      BY <1>2, <1>3, <2>3 DEF IsOpen, Is
    <3>3. x.nonce /= -1 /\ \E k \in messages : k.what = Is(q) /\ k.closes = x.closes
      BY <1>2, <2>3, <3>1
    <3>4. QED
      BY <1>1, <1>2, <2>1, <2>3, <3>1, <3>2, <3>3, SameRequest
  <2>4. QED
    BY <2>2, <2>3
<1>5. QED
  BY <1>3, <1>4 DEF Requests

LEMMA FallBackRequests == ASSUME BookInv, Requests, NEW q \in Request, FallBack(q) PROVE Requests'
<1> DEFINE m == Message(q.owner, q.owner, q.kind, Is(q), now + Window, -1)
           x == [owner |-> q.owner, what |-> Is(q), nonce |-> -1,
                 closes |-> now + Window, at |-> now]
<1>1. intents \in Seq(IntentRecord) /\ now \in Nat
  BY DEF BookInv, NonceInv, Types
<1>2. x \in IntentRecord /\ x.what = Is(q) /\ x.nonce = -1 /\ x.closes = now + Window
  <2>1. q.owner \in Owner /\ now + Window \in Nat
    BY <1>1, SubmissionAssumption
  <2>2. Is(q) \in What /\ -1 \in Int
    BY DEF What, Is
  <2>3. QED
    BY <1>1, <2>1, <2>2 DEF IntentRecord
<1>3. /\ asked[q] = "relay" /\ asked' = [asked EXCEPT ![q] = "done"] /\ messages' = messages
      /\ intents' = IF CanOpen(m) THEN Append(intents, x) ELSE intents
  BY DEF FallBack, Opened, Message, Is
<1>4. asked \in [Request -> {"new", "relay", "done"}]
  BY DEF Requests
<1>5. CanOpen(m) =>
        \A n \in DOMAIN intents : intents[n].what = Is(q) => intents[n].closes /= now + Window
  BY DEF CanOpen, IsOpen, Message, Is
<1> HIDE DEF x, m
<1>6. ASSUME NEW p \in Request PROVE RequestOK(p, intents', asked'[p], messages)
  <2>1. RequestOK(p, intents, asked[p], messages)
    BY DEF Requests
  <2>2. CASE p /= q
    <3>1. asked'[p] = asked[p] /\ x.what /= Is(p)
      BY <1>2, <1>3, <1>4, <2>2 DEF Is
    <3>2. QED
      BY <1>1, <1>2, <1>3, <2>1, <3>1, OtherRequest
  <2>3. CASE p = q
    <3>1. asked[p] = "relay" /\ asked'[p] = "done"
      BY <1>3, <1>4, <2>3
    <3>2. CASE CanOpen(m)
      <4>1. RequestOK(p, Append(intents, x), "done", messages)
        BY <1>1, <1>2, <1>5, <2>1, <2>3, <3>1, <3>2, SameRequest
      <4>2. QED
        BY <1>3, <3>1, <3>2, <4>1
    <3>3. CASE ~CanOpen(m)
      <4>1. RequestOK(p, intents, "done", messages)
        BY <2>1, <3>1, LaterRequest
      <4>2. QED
        BY <1>3, <3>1, <3>3, <4>1
    <3>4. QED
      BY <3>2, <3>3
  <2>4. QED
    BY <2>2, <2>3
<1>7. QED
  BY <1>3, <1>4, <1>6 DEF Requests

LEMMA AskRelayRequests == ASSUME BookInv, Requests, NEW q \in Request, AskRelay(q) PROVE Requests'
<1> DEFINE m == Message(q.owner, q.owner, q.kind, Is(q), now + Window, nonces[q.owner])
<1>1. m.what = Is(q) /\ m.nonce \in Nat
  <2>1. nonces[q.owner] \in Nat
    BY SubmissionAssumption DEF BookInv, NonceInv, Types
  <2>2. QED
    BY <2>1 DEF Message
<1>2. /\ asked[q] = "new" /\ asked' = [asked EXCEPT ![q] = "relay"]
      /\ messages' = messages \cup {m} /\ intents' = intents
  BY DEF AskRelay, Is
<1> HIDE DEF m
<1>3. asked \in [Request -> {"new", "relay", "done"}]
  BY DEF Requests
<1>4. \A k \in messages : k.what /= Is(q)
  BY <1>2 DEF Requests, Is
<1>5. \A k \in messages' :
         k.nonce \in Nat /\ \E p \in Request : k.what = Is(p) /\ asked'[p] /= "new"
  BY <1>1, <1>2, <1>3 DEF Requests
<1>6. \A k, l \in messages' : k.what = l.what => k = l
  BY <1>1, <1>2, <1>4 DEF Requests
<1>7. ASSUME NEW p \in Request PROVE RequestOK(p, intents, asked'[p], messages')
  <2>1. RequestOK(p, intents, asked[p], messages)
    BY DEF Requests
  <2>2. asked'[p] = asked[p] \/ (asked[p] = "new" /\ asked'[p] = "relay")
    BY <1>2, <1>3
  <2>3. QED
    BY <1>2, <2>1, <2>2, LaterRequest
<1>8. QED
  BY <1>2, <1>3, <1>5, <1>6, <1>7 DEF Requests

LEMMA NextRequests == BookInv /\ Requests /\ [Next]_vars => Requests'
<1> SUFFICES ASSUME BookInv, Requests, [Next]_vars PROVE Requests'
  OBVIOUS
<1>1. ASSUME UNCHANGED <<asked, messages, intents>> PROVE Requests'
  BY <1>1 DEF Requests
<1>2. CASE UNCHANGED vars
  BY <1>1, <1>2 DEF vars, clientVars
<1>3. CASE KeeperStep
  <2>1. CASE LandSubmit
    <3> DEFINE c == Head(mempool)
               x == [owner |-> c.msg.owner, what |-> c.msg.what, nonce |-> c.msg.nonce,
                     closes |-> c.msg.closes, at |-> now]
    <3>1. /\ intents' = intents \/ intents' = Append(intents, x)
          /\ asked' = asked /\ messages' = messages
      BY <2>1 DEF LandSubmit, Opened
    <3>2. intents \in Seq(IntentRecord) /\ now \in Nat
      BY DEF BookInv, NonceInv, Types
    <3>3. c \in SubmitCall /\ \E j \in DOMAIN jobs : c.msg.what = <<"job", j>>
      BY <2>1, LandSubmitTicks DEF CallOK, LandSubmit
    <3>4. x \in IntentRecord /\ x.what = c.msg.what
      <4>1. c.msg \in MessageRecord
        BY <3>3 DEF SubmitCall
      <4>2. /\ c.msg.owner \in Owner /\ c.msg.what \in What /\ c.msg.nonce \in Int
            /\ c.msg.closes \in Nat
        BY <4>1 DEF MessageRecord
      <4>3. QED
        BY <3>2, <4>2 DEF IntentRecord
    <3>5. \A q \in Request : x.what /= Is(q)
      BY <3>3, <3>4 DEF Is
    <3> HIDE DEF c, x
    <3>6. ASSUME NEW q \in Request PROVE RequestOK(q, intents', asked[q], messages)
      <4>1. RequestOK(q, intents, asked[q], messages)
        BY DEF Requests
      <4>2. QED
        BY <3>1, <3>2, <3>4, <3>5, <4>1, OtherRequest
    <3>7. QED
      BY <3>1, <3>6 DEF Requests
  <2>2. CASE ~LandSubmit
    BY <1>1, <1>3, <2>2 DEF KeeperStep, StartTick, SendSubmit, SendMark, Die, GiveUp, LandMark,
       clientVars
  <2>3. QED
    BY <2>1, <2>2
<1>4. CASE RegisterStep
  BY <1>1, <1>4 DEF RegisterStep, CreateJob, CancelJob, MarkRun, clientVars
<1>5. CASE ClientStep
  <2>1. ASSUME NEW q \in Request, RelayAnswers(q) PROVE Requests'
    <3>1. /\ asked[q] = "relay" /\ asked' = [asked EXCEPT ![q] = "done"]
          /\ messages' = messages /\ intents' = intents
      BY <2>1 DEF RelayAnswers
    <3>2. asked \in [Request -> {"new", "relay", "done"}]
      BY DEF Requests
    <3>3. ASSUME NEW p \in Request PROVE RequestOK(p, intents, asked'[p], messages)
      <4>1. RequestOK(p, intents, asked[p], messages)
        BY DEF Requests
      <4>2. asked'[p] = asked[p] \/ (asked[p] = "relay" /\ asked'[p] = "done")
        BY <3>1, <3>2
      <4>3. QED
        BY <4>1, <4>2, LaterRequest
    <3>4. QED
      BY <3>1, <3>2, <3>3 DEF Requests
  <2>2. ASSUME NEW s \in grants, AuthorizeSessionFor(s) PROVE Requests'
    BY <1>1, <2>2 DEF AuthorizeSessionFor
  <2>3. ASSUME NEW o \in Owner, NEW g \in Grant, AuthorizeSession(o, g) \/ SignSession(o, g)
        PROVE  Requests'
    BY <1>1, <2>3 DEF AuthorizeSession, SignSession
  <2>4. ASSUME NEW o \in Owner, RevokeSession(o) PROVE Requests'
    BY <1>1, <2>4 DEF RevokeSession
  <2>5. ASSUME Tick PROVE Requests'
    BY <1>1, <2>5 DEF Tick
  <2>6. QED
    BY <1>5, <2>1, <2>2, <2>3, <2>4, <2>5, SubmitForRequests, FallBackRequests, AskRelayRequests
       DEF ClientStep
<1>6. QED
  BY <1>2, <1>3, <1>4, <1>5 DEF Next

\* A request is declared twice only through the relay and the client's fallback, and
\* then the two close at different times, for every set of requests (agent.ts, and
\* IntentExists of IntentRegistry.sol).
THEOREM SecondDeclarationsAreFallbacks == Spec => []SecondDeclarationIsTheFallback
<1>1. Requests => SecondDeclarationIsTheFallback
  <2> SUFFICES ASSUME Requests, NEW q \in Request,
                      NEW n \in Declarations("request", q), NEW k \in Declarations("request", q),
                      n /= k
               PROVE  /\ Cardinality(Declarations("request", q)) = 2
                      /\ intents[n].nonce = -1 <=> intents[k].nonce /= -1
                      /\ intents[n].closes /= intents[k].closes
    BY DEF SecondDeclarationIsTheFallback
  <2> DEFINE D == Declarations("request", q)
  <2>1. RequestOK(q, intents, asked[q], messages)
    BY DEF Requests
  <2>2. ASSUME NEW i \in D, NEW j \in D, i /= j
        PROVE  /\ intents[i].closes /= intents[j].closes
               /\ intents[i].nonce /= -1 \/ intents[j].nonce /= -1
    BY <2>1, <2>2 DEF RequestOK, Declarations, Is
  <2>3. ASSUME NEW i \in D, NEW j \in D, intents[i].nonce /= -1, intents[j].nonce /= -1
        PROVE  intents[i].closes = intents[j].closes
    <3>1. PICK m \in messages : m.what = Is(q) /\ m.closes = intents[i].closes
      BY <2>1, <2>3 DEF RequestOK, Declarations, Is
    <3>2. PICK l \in messages : l.what = Is(q) /\ l.closes = intents[j].closes
      BY <2>1, <2>3 DEF RequestOK, Declarations, Is
    <3>3. m = l
      BY <3>1, <3>2 DEF Requests
    <3>4. QED
      BY <3>1, <3>2, <3>3
  <2> HIDE DEF D
  <2>4. n \in D /\ k \in D
    BY DEF D
  <2>5. intents[n].nonce = -1 <=> intents[k].nonce /= -1
    BY <2>2, <2>3, <2>4
  <2>6. D = {n, k}
    <3>1. ASSUME NEW i \in D, i /= n, i /= k PROVE FALSE
      BY <2>2, <2>3, <2>4, <2>5, <3>1
    <3>2. QED
      BY <2>4, <3>1
  <2>7. Cardinality(D) = 2
    <3>1. IsFiniteSet({n}) /\ Cardinality({n}) = 1 /\ {n, k} = {n} \cup {k} /\ k \notin {n}
      BY FS_Singleton
    <3>2. Cardinality({n} \cup {k}) = 1 + 1
      BY <3>1, FS_AddElement
    <3>3. QED
      BY <2>6, <3>1, <3>2
  <2>8. QED
    BY <2>2, <2>4, <2>5, <2>7 DEF D
<1>2. QED
  BY BookInvHolds, InitRequests, NextRequests, <1>1, PTL DEF Spec

-----------------------------------------------------------------------------
(* What there is of a job: declarations, ticks that have it left, calls      *)
(* under way.                                                                *)

Declaring == {"declared", "marked"}

IntentsFor(j) == {x \in IntentRecord : x.what = <<"job", j>>}
MarksFor(j)   == {c \in MarkCall : c.job = j}
StraysFor(j)  == {c \in SubmitCall : c.by = Nobody /\ c.msg.what = <<"job", j>>}

TicksWith(run, j)    == {t \in KeeperTick : IsOn(run[t].due, j)}
TicksAt(run, pcs, j) == {t \in KeeperTick : run[t].pc \in pcs /\ Head(run[t].due) = j}

DeclaredIn(list, j) == Count(list, IntentsFor(j))
MarksSent(calls, j) == Count(calls, MarksFor(j))
Strays(calls, j)    == Count(calls, StraysFor(j))
Holding(run, j)     == Cardinality(TicksWith(run, j))
UnderWayIn(run, j)  == Cardinality(TicksAt(run, Declaring, j))
Unmarked(run, j)    == Cardinality(TicksAt(run, {"declared"}, j))

LEMMA TicksFinite == IsFiniteSet(KeeperTick)
<1>1. MaxTicks \in Nat
  BY StandingOrdersAssumption
<1>2. QED
  BY <1>1, FS_Interval DEF KeeperTick

LEMMA CountsAreNumbers ==
    ASSUME BookInv, NEW j
    PROVE  /\ DeclaredIn(intents, j) \in Nat /\ Declared(j) = DeclaredIn(intents, j)
           /\ MarksSent(mempool, j) \in Nat /\ Strays(mempool, j) \in Nat
           /\ Holding(ticks, j) \in Nat /\ Unmarked(ticks, j) \in Nat
           /\ UnderWayIn(ticks, j) \in Nat /\ UnderWay(j) = UnderWayIn(ticks, j)
           /\ UnderWayIn(ticks, j) <= Holding(ticks, j)
<1>1. intents \in Seq(IntentRecord) /\ mempool \in Seq(SubmitCall \cup MarkCall)
  BY DEF BookInv, NonceInv, Types
<1>2. /\ DeclaredIn(intents, j) \in Nat /\ MarksSent(mempool, j) \in Nat
      /\ Strays(mempool, j) \in Nat
  BY <1>1, PositionsFinite DEF DeclaredIn, MarksSent, Strays
<1>3. Declared(j) = DeclaredIn(intents, j)
  <2>1. \A n \in DOMAIN intents : intents[n] \in IntentRecord
    BY <1>1
  <2>2. Declarations("job", j) = Positions(intents, IntentsFor(j))
    BY <2>1 DEF Declarations, Positions, IntentsFor
  <2>3. QED
    BY <2>2 DEF Declared, DeclaredIn, Count
<1>4. /\ TicksWith(ticks, j) \subseteq KeeperTick
      /\ \A pcs : TicksAt(ticks, pcs, j) \subseteq KeeperTick
  BY DEF TicksWith, TicksAt
<1>5. Holding(ticks, j) \in Nat /\ IsFiniteSet(TicksWith(ticks, j))
  BY <1>4, TicksFinite, FS_Subset, FS_CardinalityType DEF Holding
<1>6. UnderWayIn(ticks, j) \in Nat /\ Unmarked(ticks, j) \in Nat
  BY <1>4, TicksFinite, FS_Subset, FS_CardinalityType DEF UnderWayIn, Unmarked
<1>7. UnderWay(j) = UnderWayIn(ticks, j)
  BY DEF UnderWay, UnderWayIn, TicksAt, JobOf, Declaring
<1>8. UnderWayIn(ticks, j) <= Holding(ticks, j)
  <2>1. TicksAt(ticks, Declaring, j) \subseteq TicksWith(ticks, j)
    <3>1. ASSUME NEW t \in KeeperTick, ticks[t].pc \in Declaring, Head(ticks[t].due) = j
          PROVE  IsOn(ticks[t].due, j)
      BY <3>1, OnwardFacts DEF Declaring, On, JobOf
    <3>2. QED
      BY <3>1 DEF TicksAt, TicksWith
  <2>2. QED
    BY <1>5, <2>1, FS_Subset DEF UnderWayIn, Holding
<1>9. QED
  BY <1>2, <1>3, <1>5, <1>6, <1>7, <1>8

\* A tick goes from one state to another.
Goes(before, t, r, after) ==
    after[t] = r /\ \A u \in KeeperTick : u /= t => after[u] = before[u]

LEMMA TickCounts ==
    ASSUME BookInv, NEW t \in KeeperTick, NEW r, Goes(ticks, t, r, ticks'), NEW j
    PROVE  /\ Holding(ticks', j) = Holding(ticks, j) + One(IsOn(r.due, j)) - One(On(t, j))
           /\ UnderWayIn(ticks', j) = UnderWayIn(ticks, j)
                 + One(r.pc \in Declaring /\ Head(r.due) = j)
                 - One(ticks[t].pc \in Declaring /\ JobOf(t) = j)
           /\ Unmarked(ticks', j) = Unmarked(ticks, j)
                 + One(r.pc = "declared" /\ Head(r.due) = j)
                 - One(ticks[t].pc = "declared" /\ JobOf(t) = j)
<1>1. ticks'[t] = r /\ \A u \in KeeperTick : u /= t => ticks'[u] = ticks[u]
  BY DEF Goes
<1>2. IsFiniteSet(TicksWith(ticks, j)) /\ \A pcs : IsFiniteSet(TicksAt(ticks, pcs, j))
  <2>1. /\ TicksWith(ticks, j) \subseteq KeeperTick
        /\ \A pcs : TicksAt(ticks, pcs, j) \subseteq KeeperTick
    BY DEF TicksWith, TicksAt
  <2>2. QED
    BY <2>1, TicksFinite, FS_Subset
<1>3. Holding(ticks', j) = Holding(ticks, j) + One(IsOn(r.due, j)) - One(On(t, j))
  <2>1. \A u : u /= t => (u \in TicksWith(ticks, j) <=> u \in TicksWith(ticks', j))
    BY <1>1 DEF TicksWith
  <2>2. Cardinality(TicksWith(ticks', j)) = Cardinality(TicksWith(ticks, j))
           + One(t \in TicksWith(ticks', j)) - One(t \in TicksWith(ticks, j))
    BY <1>2, <2>1, Swapped
  <2>3. (t \in TicksWith(ticks', j) <=> IsOn(r.due, j)) /\ (t \in TicksWith(ticks, j) <=> On(t, j))
    BY <1>1 DEF TicksWith, On
  <2>4. QED
    BY <2>2, <2>3 DEF Holding, One
<1>4. ASSUME NEW pcs
      PROVE  Cardinality(TicksAt(ticks', pcs, j)) = Cardinality(TicksAt(ticks, pcs, j))
                + One(r.pc \in pcs /\ Head(r.due) = j)
                - One(ticks[t].pc \in pcs /\ JobOf(t) = j)
  <2>1. \A u : u /= t => (u \in TicksAt(ticks, pcs, j) <=> u \in TicksAt(ticks', pcs, j))
    BY <1>1 DEF TicksAt
  <2>2. Cardinality(TicksAt(ticks', pcs, j)) = Cardinality(TicksAt(ticks, pcs, j))
           + One(t \in TicksAt(ticks', pcs, j)) - One(t \in TicksAt(ticks, pcs, j))
    BY <1>2, <2>1, Swapped
  <2>3. /\ t \in TicksAt(ticks', pcs, j) <=> r.pc \in pcs /\ Head(r.due) = j
        /\ t \in TicksAt(ticks, pcs, j) <=> ticks[t].pc \in pcs /\ JobOf(t) = j
    BY <1>1 DEF TicksAt, JobOf
  <2>4. QED
    BY <2>2, <2>3 DEF One
<1>5. Unmarked(ticks', j) = Unmarked(ticks, j)
         + One(r.pc \in {"declared"} /\ Head(r.due) = j)
         - One(ticks[t].pc \in {"declared"} /\ JobOf(t) = j)
  BY <1>4 DEF Unmarked
<1>6. UnderWayIn(ticks', j) = UnderWayIn(ticks, j)
         + One(r.pc \in Declaring /\ Head(r.due) = j)
         - One(ticks[t].pc \in Declaring /\ JobOf(t) = j)
  BY <1>4 DEF UnderWayIn
<1>7. QED
  BY <1>3, <1>5, <1>6 DEF One

\* Only the call of a tick that waits for its submission is a stray from then on.
LEMMA ForgottenCounts ==
    ASSUME BookInv, NEW t \in KeeperTick, mempool' = Forgotten(t), NEW j
    PROVE  /\ MarksSent(mempool', j) = MarksSent(mempool, j)
           /\ Strays(mempool', j) \in Nat
           /\ Strays(mempool', j) <= Strays(mempool, j)
                 + One(ticks[t].pc = "submitted" /\ JobOf(t) = j)
<1>1. /\ \A n \in DOMAIN mempool : mempool[n] \in SubmitCall \cup MarkCall
      /\ mempool \in Seq(SubmitCall \cup MarkCall)
      /\ OneCallEach(mempool)
  BY DEF BookInv, NonceInv, Types, Shape
<1>2. \A c \in SubmitCall : c.call = "submitFor" /\ c \notin MarkCall
  BY DEF SubmitCall, MarkCall
<1>3. \A c \in MarkCall : c.call = "markRun" /\ c \notin SubmitCall
  BY DEF SubmitCall, MarkCall
<1>4. MarksSent(mempool', j) = MarksSent(mempool, j)
  <2>1. ASSUME NEW n \in DOMAIN mempool
        PROVE  Forgotten(t)[n] \in MarksFor(j) <=> mempool[n] \in MarksFor(j)
    BY <1>1, <1>2, <1>3, ForgottenFacts DEF MarksFor
  <2>2. Positions(mempool', MarksFor(j)) = Positions(mempool, MarksFor(j))
    BY <2>1, ForgottenFacts DEF Positions
  <2>3. QED
    BY <2>2 DEF MarksSent, Count
<1> DEFINE S == Positions(mempool, StraysFor(j))
           T == Positions(mempool', StraysFor(j))
<1>5. ASSUME NEW n \in DOMAIN mempool, mempool[n].by /= t
      PROVE  n \in S <=> n \in T
  BY <1>5, ForgottenFacts DEF Positions
<1>6. ASSUME NEW n \in DOMAIN mempool, mempool[n].by = t
      PROVE  n \notin S /\ (n \in T => ticks[t].pc = "submitted" /\ JobOf(t) = j)
  <2>1. t /= Nobody /\ Awaits(ticks[t], mempool[n])
    BY <1>6, WaitsForItsCall
  <2>2. n \notin S
    BY <1>6, <2>1 DEF Positions, StraysFor
  <2>3. ASSUME n \in T PROVE ticks[t].pc = "submitted" /\ JobOf(t) = j
    <3>1. Forgotten(t)[n] \in SubmitCall /\ Forgotten(t)[n].msg.what = <<"job", j>>
      BY <2>3 DEF Positions, StraysFor
    <3>2. mempool[n].call = "submitFor" /\ mempool[n] \in SubmitCall
      BY <1>1, <1>2, <1>3, <1>6, <3>1, ForgottenFacts
    <3>3. mempool[n].msg.what = <<"job", j>>
      BY <1>6, <3>1, <3>2, ForgottenFacts
    <3>4. ticks[t].pc = "submitted" /\ mempool[n].msg.what = <<"job", JobOf(t)>>
      BY <2>1, <3>2 DEF Awaits, JobOf
    <3>5. QED
      BY <3>3, <3>4
  <2>4. QED
    BY <2>2, <2>3
<1>7. S \subseteq DOMAIN mempool /\ T \subseteq DOMAIN mempool
  BY ForgottenFacts DEF Positions
<1>8. IsFiniteSet(S) /\ Cardinality(S) = Strays(mempool, j) /\ Cardinality(S) \in Nat
      /\ Cardinality(T) = Strays(mempool', j)
  BY <1>1, PositionsFinite DEF Strays, Count
<1> HIDE DEF S, T
<1>9. CASE \E n \in DOMAIN mempool : mempool[n].by = t
  <2>1. PICK n \in DOMAIN mempool : mempool[n].by = t
    BY <1>9
  <2>2. t /= Nobody
    BY <2>1, WaitsForItsCall
  <2>3. \A k \in DOMAIN mempool : k /= n => mempool[k].by /= t
    BY <1>1, <2>1, <2>2 DEF OneCallEach
  <2>4. \A k : k /= n => (k \in S <=> k \in T)
    BY <1>5, <1>7, <2>3
  <2>5. Cardinality(T) = Cardinality(S) + One(n \in T) - One(n \in S) /\ Cardinality(T) \in Nat
    BY <1>8, <2>4, Swapped
  <2>6. n \notin S /\ (n \in T => ticks[t].pc = "submitted" /\ JobOf(t) = j)
    BY <1>6, <2>1
  <2>7. QED
    BY <1>4, <1>8, <2>5, <2>6 DEF One
<1>10. CASE \A n \in DOMAIN mempool : mempool[n].by /= t
  <2>1. S = T
    BY <1>5, <1>7, <1>10
  <2>2. QED
    BY <1>4, <1>8, <2>1 DEF One
<1>11. QED
  BY <1>9, <1>10

LEMMA OwnerMarksFinite ==
    /\ IsFiniteSet(Job \X (1 .. MaxDisturbances))
    /\ OwnerMarks \in Nat
<1>1. Len(JobTerms) \in Nat /\ MaxDisturbances \in Nat
  BY StandingOrdersAssumption
<1>2. IsFiniteSet(Job) /\ IsFiniteSet(1 .. MaxDisturbances)
  BY <1>1, FS_Interval DEF Job
<1>3. IsFiniteSet(Job \X (1 .. MaxDisturbances))
  BY <1>2, FS_Product
<1>4. {p \in Job \X (1 .. MaxDisturbances) : p[2] <= marks[p[1]]} \subseteq Job \X (1 .. MaxDisturbances)
  OBVIOUS
<1>5. QED
  BY <1>3, <1>4, FS_Subset, FS_CardinalityType DEF OwnerMarks

LEMMA JobNumbers ==
    ASSUME BookInv
    PROVE  /\ Disturbances \in Nat /\ OwnerMarks \in Nat
           /\ deaths \in Nat /\ giveUps \in Nat /\ overlaps \in Nat
           /\ \A j \in DOMAIN jobs :
                 /\ jobs[j].runs \in Nat /\ jobs[j].maxRuns \in Nat /\ marks[j] \in Nat
                 /\ jobs[j].every \in Nat /\ jobs[j].nextRunAt \in Nat /\ jobs[j].active \in BOOLEAN
                 /\ j \in Nat /\ j \in Job
<1>1. deaths \in Nat /\ giveUps \in Nat /\ overlaps \in Nat /\ OwnerMarks \in Nat
  BY OwnerMarksFinite DEF BookInv, Shape
<1>2. ASSUME NEW j \in DOMAIN jobs
      PROVE  /\ jobs[j].runs \in Nat /\ jobs[j].maxRuns \in Nat /\ marks[j] \in Nat
             /\ jobs[j].every \in Nat /\ jobs[j].nextRunAt \in Nat /\ jobs[j].active \in BOOLEAN
             /\ j \in Nat /\ j \in Job
  <2>1. jobs[j] \in JobRecord /\ j \in Nat
    BY DEF BookInv, NonceInv, Types
  <2>2. j \in Job
    BY JobsAreJobs
  <2>3. marks[j] \in Nat
    BY <2>2 DEF BookInv, Shape
  <2>4. QED
    BY <2>1, <2>2, <2>3 DEF JobRecord
<1>3. QED
  BY <1>1, <1>2 DEF Disturbances

-----------------------------------------------------------------------------
(* The accounts of declarations and runs.                                    *)

\* A run that is on the books, or will be tried, was declared, or marked by the owner.
Runs ==
    \A j \in DOMAIN jobs :
       jobs[j].runs + Unmarked(ticks, j) + MarksSent(mempool, j)
          <= DeclaredIn(intents, j) + marks[j]

DueAt(job, time) ==
    /\ job.active /\ time >= job.nextRunAt
    /\ job.maxRuns /= 0 => job.runs < job.maxRuns

Gone(job) == One(~job.active /\ (job.maxRuns = 0 \/ job.runs < job.maxRuns))
Waits(held, job, time) == One(held >= 1 /\ DueAt(job, time))

\* Declarations, and what may yet become one, are marked, or about to be, but for those
\* with a cause; and a job that is due and on a list will get one more.
Extra ==
    \A j \in DOMAIN jobs :
       DeclaredIn(intents, j) + Strays(mempool, j) + Holding(ticks, j)
          <= jobs[j].runs + UnderWayIn(ticks, j) + Disturbances + Gone(jobs[j])
             + Waits(Holding(ticks, j), jobs[j], now)

Accounts == Runs /\ Extra

LEMMA StandingNumbers ==
    ASSUME NEW j, NEW held \in Nat, NEW later \in Nat
    PROVE  /\ Gone(jobs[j]) \in Nat /\ Waits(held, jobs[j], now) \in {0, 1}
           /\ held <= later => Waits(held, jobs[j], now) <= Waits(later, jobs[j], now)
           /\ held >= 1 /\ IsDue(j) => Waits(held, jobs[j], now) = 1
           /\ held = 0 \/ ~IsDue(j) => Waits(held, jobs[j], now) = 0
BY DEF Gone, Waits, One, IsDue, DueAt

LEMMA SameMarks == ASSUME marks' = marks PROVE OwnerMarks' = OwnerMarks
BY DEF OwnerMarks

LEMMA InitAccounts == Init => Accounts
BY DEF Init, Accounts, Runs, Extra

\* A tick starts with jobs that are due.
LEMMA StartTickCounts ==
    ASSUME BookInv, NEW t \in KeeperTick, StartTick(t), NEW j \in DOMAIN jobs
    PROVE  /\ UnderWayIn(ticks', j) = UnderWayIn(ticks, j)
           /\ Unmarked(ticks', j) = Unmarked(ticks, j)
           /\ \/ Holding(ticks', j) = Holding(ticks, j)
              \/ Holding(ticks', j) = Holding(ticks, j) + 1 /\ IsDue(j)
<1>1. PICK n \in 1 .. Cap : \E due \in [1 .. n -> DueJobs] :
         IsDueIds(due) /\ ticks' = [ticks EXCEPT ![t] = [pc |-> "job", due |-> due]]
  BY DEF StartTick
<1>2. PICK due \in [1 .. n -> DueJobs] :
         IsDueIds(due) /\ ticks' = [ticks EXCEPT ![t] = [pc |-> "job", due |-> due]]
  BY <1>1
<1> DEFINE r == [pc |-> "job", due |-> due]
<1>3. Goes(ticks, t, r, ticks') /\ r.pc = "job" /\ r.due = due
  BY <1>2, DueListOK, TickMoves DEF Goes
<1>4. IsOn(due, j) => IsDue(j)
  BY DEF IsOn, DueJobs
<1>5. ticks[t].pc = "idle"
  BY DEF StartTick
<1>6. ~On(t, j)
  <2>1. TickOK(ticks[t], DOMAIN jobs)
    BY DEF BookInv, Shape
  <2>2. ticks[t].due = << >>
    BY <1>5, <2>1 DEF TickOK
  <2>3. QED
    BY <2>2 DEF On, IsOn
<1> HIDE DEF r
<1>7. /\ Holding(ticks', j) = Holding(ticks, j) + One(IsOn(r.due, j)) - One(On(t, j))
      /\ UnderWayIn(ticks', j) = UnderWayIn(ticks, j)
            + One(r.pc \in Declaring /\ Head(r.due) = j)
            - One(ticks[t].pc \in Declaring /\ JobOf(t) = j)
      /\ Unmarked(ticks', j) = Unmarked(ticks, j)
            + One(r.pc = "declared" /\ Head(r.due) = j)
            - One(ticks[t].pc = "declared" /\ JobOf(t) = j)
  BY <1>3, TickCounts
<1>8. QED
  BY <1>3, <1>4, <1>5, <1>6, <1>7, CountsAreNumbers DEF One, Declaring

\* It starts alone, or as an overlap.
LEMMA StartTickAccounts ==
    ASSUME BookInv, Accounts, NEW t \in KeeperTick, StartTick(t) PROVE Accounts'
<1> DEFINE overlap == \E u \in KeeperTick : ticks[u].pc /= "idle"
<1>1. UNCHANGED <<jobs, now, mempool, intents, marks>>
  BY DEF StartTick, clientVars
<1>2. Disturbances' = IF overlap THEN Disturbances + 1 ELSE Disturbances
  <2>1. deaths' = deaths /\ giveUps' = giveUps
        /\ overlaps' = IF overlap THEN overlaps + 1 ELSE overlaps
    BY DEF StartTick
  <2> HIDE DEF overlap
  <2>2. QED
    BY <1>1, <2>1, SameMarks, JobNumbers DEF Disturbances
<1>3. ASSUME ~overlap, NEW j PROVE Holding(ticks, j) = 0
  <2>1. ASSUME NEW u \in KeeperTick PROVE ~IsOn(ticks[u].due, j)
    <3>1. ticks[u].pc = "idle" /\ TickOK(ticks[u], DOMAIN jobs)
      BY <1>3 DEF BookInv, Shape
    <3>2. ticks[u].due = << >>
      BY <3>1 DEF TickOK
    <3>3. QED
      BY <3>2 DEF IsOn
  <2>2. TicksWith(ticks, j) = {}
    BY <2>1 DEF TicksWith
  <2>3. QED
    BY <2>2, FS_EmptySet DEF Holding
<1> HIDE DEF overlap
<1>4. Runs'
  BY <1>1, StartTickCounts DEF Accounts, Runs
<1>5. Extra'
  <2>1. ASSUME NEW j \in DOMAIN jobs
        PROVE  DeclaredIn(intents, j) + Strays(mempool, j) + Holding(ticks', j)
                  <= jobs[j].runs + UnderWayIn(ticks', j) + Disturbances' + Gone(jobs[j])
                     + Waits(Holding(ticks', j), jobs[j], now)
    <3>1. DeclaredIn(intents, j) + Strays(mempool, j) + Holding(ticks, j)
             <= jobs[j].runs + UnderWayIn(ticks, j) + Disturbances + Gone(jobs[j])
                + Waits(Holding(ticks, j), jobs[j], now)
      BY DEF Accounts, Extra
    <3>2. /\ DeclaredIn(intents, j) \in Nat /\ Strays(mempool, j) \in Nat
          /\ Holding(ticks, j) \in Nat /\ UnderWayIn(ticks, j) \in Nat
          /\ jobs[j].runs \in Nat /\ Disturbances \in Nat
      BY CountsAreNumbers, JobNumbers
    <3>3. /\ UnderWayIn(ticks', j) = UnderWayIn(ticks, j)
          /\ \/ Holding(ticks', j) = Holding(ticks, j)
             \/ Holding(ticks', j) = Holding(ticks, j) + 1 /\ IsDue(j)
      BY StartTickCounts
    <3>4. Holding(ticks', j) \in Nat /\ Holding(ticks, j) <= Holding(ticks', j)
      BY <3>2, <3>3
    <3>5. /\ Gone(jobs[j]) \in Nat
          /\ Waits(Holding(ticks, j), jobs[j], now) \in {0, 1}
          /\ Waits(Holding(ticks', j), jobs[j], now) \in {0, 1}
          /\ Waits(Holding(ticks, j), jobs[j], now) <= Waits(Holding(ticks', j), jobs[j], now)
          /\ Holding(ticks, j) = 0 => Waits(Holding(ticks, j), jobs[j], now) = 0
          /\ Holding(ticks', j) >= 1 /\ IsDue(j) => Waits(Holding(ticks', j), jobs[j], now) = 1
      BY <3>2, <3>4, StandingNumbers
    <3>6. CASE overlap
      BY <1>2, <3>1, <3>2, <3>3, <3>4, <3>5, <3>6
    <3>7. CASE ~overlap
      BY <1>2, <1>3, <3>1, <3>2, <3>3, <3>4, <3>5, <3>7
    <3>8. QED
      BY <3>6, <3>7
  <2>2. QED
    BY <1>1, <2>1 DEF Extra
<1>6. QED
  BY <1>4, <1>5 DEF Accounts

\* A tick that goes on leaves one job.
LEMMA OnwardCounts ==
    ASSUME BookInv, NEW t \in KeeperTick, ticks[t].pc /= "idle",
           ticks' = [ticks EXCEPT ![t] = Onward(t)], NEW j
    PROVE  /\ Holding(ticks', j) = Holding(ticks, j) - One(JobOf(t) = j)
           /\ UnderWayIn(ticks', j) =
                 UnderWayIn(ticks, j) - One(ticks[t].pc \in Declaring /\ JobOf(t) = j)
           /\ Unmarked(ticks', j) =
                 Unmarked(ticks, j) - One(ticks[t].pc = "declared" /\ JobOf(t) = j)
<1>1. /\ Goes(ticks, t, Onward(t), ticks') /\ Onward(t).pc \in {"idle", "job"}
      /\ On(t, JobOf(t)) /\ (IsOn(Onward(t).due, j) <=> On(t, j) /\ j /= JobOf(t))
  BY OnwardFacts, TickMoves DEF Goes
<1>2. /\ Holding(ticks', j) = Holding(ticks, j) + One(IsOn(Onward(t).due, j)) - One(On(t, j))
      /\ UnderWayIn(ticks', j) = UnderWayIn(ticks, j)
            + One(Onward(t).pc \in Declaring /\ Head(Onward(t).due) = j)
            - One(ticks[t].pc \in Declaring /\ JobOf(t) = j)
      /\ Unmarked(ticks', j) = Unmarked(ticks, j)
            + One(Onward(t).pc = "declared" /\ Head(Onward(t).due) = j)
            - One(ticks[t].pc = "declared" /\ JobOf(t) = j)
  BY <1>1, TickCounts
<1>3. Holding(ticks, j) \in Nat /\ UnderWayIn(ticks, j) \in Nat /\ Unmarked(ticks, j) \in Nat
  BY CountsAreNumbers
<1>4. /\ One(IsOn(Onward(t).due, j)) - One(On(t, j)) = 0 - One(JobOf(t) = j)
      /\ One(Onward(t).pc \in Declaring /\ Head(Onward(t).due) = j) = 0
      /\ One(Onward(t).pc = "declared" /\ Head(Onward(t).due) = j) = 0
  BY <1>1 DEF One, Declaring
<1>5. One(JobOf(t) = j) \in Int /\ One(IsOn(Onward(t).due, j)) \in Int /\ One(On(t, j)) \in Int
      /\ One(ticks[t].pc \in Declaring /\ JobOf(t) = j) \in Int
      /\ One(ticks[t].pc = "declared" /\ JobOf(t) = j) \in Int
  BY DEF One
<1>6. QED
  BY <1>2, <1>3, <1>4, <1>5

\* A tick that goes on with its job.
LEMMA PcGoes ==
    ASSUME BookInv, NEW t \in KeeperTick, ticks[t].pc /= "idle", NEW pc \in Pc \ {"idle"},
           ticks' = At(t, pc)
    PROVE  Goes(ticks, t, WithPc(t, pc), ticks')
BY PcFacts, TickMoves DEF Goes

LEMMA PcCounts ==
    ASSUME BookInv, NEW t \in KeeperTick, NEW r, Goes(ticks, t, r, ticks'),
           r.due = ticks[t].due, NEW j
    PROVE  /\ Holding(ticks', j) = Holding(ticks, j)
           /\ UnderWayIn(ticks', j) = UnderWayIn(ticks, j)
                 + One(r.pc \in Declaring /\ JobOf(t) = j)
                 - One(ticks[t].pc \in Declaring /\ JobOf(t) = j)
           /\ Unmarked(ticks', j) = Unmarked(ticks, j)
                 + One(r.pc = "declared" /\ JobOf(t) = j)
                 - One(ticks[t].pc = "declared" /\ JobOf(t) = j)
<1>1. /\ Holding(ticks', j) = Holding(ticks, j) + One(IsOn(r.due, j)) - One(On(t, j))
      /\ UnderWayIn(ticks', j) = UnderWayIn(ticks, j)
            + One(r.pc \in Declaring /\ Head(r.due) = j)
            - One(ticks[t].pc \in Declaring /\ JobOf(t) = j)
      /\ Unmarked(ticks', j) = Unmarked(ticks, j)
            + One(r.pc = "declared" /\ Head(r.due) = j)
            - One(ticks[t].pc = "declared" /\ JobOf(t) = j)
  BY TickCounts
<1>2. One(IsOn(r.due, j)) = One(On(t, j)) /\ Head(r.due) = JobOf(t)
  BY DEF On, JobOf
<1>3. One(On(t, j)) \in Int /\ Holding(ticks, j) \in Nat
  BY CountsAreNumbers DEF One
<1>4. QED
  BY <1>1, <1>2, <1>3

\* What a call that is sent, or lands, does to the counts.
LEMMA CallCounts ==
    ASSUME BookInv, NEW j
    PROVE  /\ \A c \in SubmitCall \cup MarkCall : mempool' = Append(mempool, c) =>
                /\ MarksSent(mempool', j) = MarksSent(mempool, j) + One(c \in MarksFor(j))
                /\ Strays(mempool', j) = Strays(mempool, j) + One(c \in StraysFor(j))
           /\ mempool /= << >> /\ mempool' = Tail(mempool) =>
                /\ MarksSent(mempool', j) = MarksSent(mempool, j) - One(Head(mempool) \in MarksFor(j))
                /\ Strays(mempool', j) = Strays(mempool, j) - One(Head(mempool) \in StraysFor(j))
<1>1. mempool \in Seq(SubmitCall \cup MarkCall)
  BY DEF BookInv, NonceInv, Types
<1>2. ASSUME NEW c \in SubmitCall \cup MarkCall, mempool' = Append(mempool, c)
      PROVE  /\ MarksSent(mempool', j) = MarksSent(mempool, j) + One(c \in MarksFor(j))
             /\ Strays(mempool', j) = Strays(mempool, j) + One(c \in StraysFor(j))
  BY <1>1, <1>2, CountAppend DEF MarksSent, Strays
<1>3. ASSUME mempool /= << >>, mempool' = Tail(mempool)
      PROVE  /\ MarksSent(mempool', j) = MarksSent(mempool, j) - One(Head(mempool) \in MarksFor(j))
             /\ Strays(mempool', j) = Strays(mempool, j) - One(Head(mempool) \in StraysFor(j))
  BY <1>1, <1>3, CountTail DEF MarksSent, Strays
<1>4. QED
  BY <1>2, <1>3

LEMMA IntentCounts ==
    ASSUME BookInv, NEW x \in IntentRecord, intents' = Append(intents, x), NEW j
    PROVE  DeclaredIn(intents', j) = DeclaredIn(intents, j) + One(x.what = <<"job", j>>)
<1>1. intents \in Seq(IntentRecord)
  BY DEF BookInv, NonceInv, Types
<1>2. DeclaredIn(intents', j) = DeclaredIn(intents, j) + One(x \in IntentsFor(j))
  BY <1>1, CountAppend DEF DeclaredIn
<1>3. QED
  BY <1>2 DEF IntentsFor, One

LEMMA SameCauses ==
    ASSUME UNCHANGED <<deaths, giveUps, overlaps, marks>>
    PROVE  Disturbances' = Disturbances
BY SameMarks DEF Disturbances

\* A job is left undeclared: one tick less has it.
LEMMA LeftAccounts ==
    ASSUME BookInv, Accounts, NEW t \in KeeperTick, ticks[t].pc \notin Declaring \cup {"idle"},
           ticks' = [ticks EXCEPT ![t] = Onward(t)],
           UNCHANGED <<jobs, now, intents, marks, deaths, giveUps, overlaps>>,
           \A j \in DOMAIN jobs : /\ MarksSent(mempool', j) = MarksSent(mempool, j)
                                  /\ Strays(mempool', j) = Strays(mempool, j)
    PROVE  Accounts'
<1>1. ASSUME NEW j \in DOMAIN jobs
      PROVE  /\ Holding(ticks', j) = Holding(ticks, j) \/ Holding(ticks', j) = Holding(ticks, j) - 1
             /\ UnderWayIn(ticks', j) = UnderWayIn(ticks, j)
             /\ Unmarked(ticks', j) = Unmarked(ticks, j)
  <2>0. ticks[t].pc /= "idle"
    OBVIOUS
  <2>1. /\ Holding(ticks', j) = Holding(ticks, j) - One(JobOf(t) = j)
        /\ UnderWayIn(ticks', j) =
              UnderWayIn(ticks, j) - One(ticks[t].pc \in Declaring /\ JobOf(t) = j)
        /\ Unmarked(ticks', j) =
              Unmarked(ticks, j) - One(ticks[t].pc = "declared" /\ JobOf(t) = j)
    BY <2>0, OnwardCounts DEF One
  <2>2. Holding(ticks, j) \in Nat /\ UnderWayIn(ticks, j) \in Nat /\ Unmarked(ticks, j) \in Nat
    BY CountsAreNumbers
  <2>3. QED
    BY <2>1, <2>2 DEF One, Declaring
<1>2. Runs'
  BY <1>1 DEF Accounts, Runs
<1>3. ASSUME NEW j \in DOMAIN jobs
      PROVE  DeclaredIn(intents, j) + Strays(mempool, j) + Holding(ticks', j)
                <= jobs[j].runs + UnderWayIn(ticks, j) + Disturbances + Gone(jobs[j])
                   + Waits(Holding(ticks', j), jobs[j], now)
  <2>1. DeclaredIn(intents, j) + Strays(mempool, j) + Holding(ticks, j)
           <= jobs[j].runs + UnderWayIn(ticks, j) + Disturbances + Gone(jobs[j])
              + Waits(Holding(ticks, j), jobs[j], now)
    BY DEF Accounts, Extra
  <2>2. /\ DeclaredIn(intents, j) \in Nat /\ Strays(mempool, j) \in Nat
        /\ Holding(ticks, j) \in Nat /\ UnderWayIn(ticks, j) \in Nat
        /\ jobs[j].runs \in Nat /\ Disturbances \in Nat
    BY CountsAreNumbers, JobNumbers
  <2>3. /\ Gone(jobs[j]) \in Nat
        /\ Waits(Holding(ticks, j), jobs[j], now) \in {0, 1}
        /\ Waits(Holding(ticks', j), jobs[j], now) \in {0, 1}
    BY DEF Gone, Waits, One
  <2>4. CASE Holding(ticks', j) = Holding(ticks, j)
    BY <2>1, <2>4
  <2>5. CASE Holding(ticks', j) = Holding(ticks, j) - 1
    BY <2>1, <2>2, <2>3, <2>5
  <2>6. QED
    BY <1>1, <2>4, <2>5
<1>4. Extra'
  BY <1>1, <1>3, SameCauses DEF Extra
<1>5. QED
  BY <1>2, <1>4 DEF Accounts

LEMMA SendSubmitAccounts ==
    ASSUME BookInv, Accounts, NEW t \in KeeperTick, SendSubmit(t) PROVE Accounts'
<1>1. ticks[t].pc = "job" /\ UNCHANGED <<jobs, now, intents, marks, deaths, giveUps, overlaps>>
  BY DEF SendSubmit, clientVars
<1>2. CASE CanDeclare(t)
  <2> DEFINE c == [by |-> t, call |-> "submitFor", msg |-> KeeperMessage(t)]
  <2> DEFINE r == WithPc(t, "submitted")
  <2>1. /\ mempool' = Append(mempool, c) /\ Goes(ticks, t, r, ticks')
        /\ r.pc = "submitted" /\ r.due = ticks[t].due
    BY <1>1, <1>2, PcFacts, PcGoes DEF SendSubmit, Pc
  <2>2. c \in SubmitCall /\ c.by /= Nobody /\ c \notin MarkCall
    <3>1. KeeperMessage(t) \in MessageRecord /\ t \in Nat /\ t /= 0
      BY <1>2, KeeperMessageType DEF BookInv, KeeperTick, CanDeclare
    <3>2. QED
      BY <3>1 DEF SubmitCall, MarkCall, Nobody
  <2> HIDE DEF c, r
  <2>3. ASSUME NEW j \in DOMAIN jobs
        PROVE  /\ MarksSent(mempool', j) = MarksSent(mempool, j)
               /\ Strays(mempool', j) = Strays(mempool, j)
               /\ Holding(ticks', j) = Holding(ticks, j)
               /\ UnderWayIn(ticks', j) = UnderWayIn(ticks, j)
               /\ Unmarked(ticks', j) = Unmarked(ticks, j)
    <3>1. /\ MarksSent(mempool', j) = MarksSent(mempool, j) + One(c \in MarksFor(j))
          /\ Strays(mempool', j) = Strays(mempool, j) + One(c \in StraysFor(j))
      BY <2>1, <2>2, CallCounts
    <3>2. c \notin MarksFor(j) /\ c \notin StraysFor(j)
      BY <2>2 DEF MarksFor, StraysFor
    <3>3. /\ Holding(ticks', j) = Holding(ticks, j)
          /\ UnderWayIn(ticks', j) = UnderWayIn(ticks, j)
                + One(r.pc \in Declaring /\ JobOf(t) = j)
                - One(ticks[t].pc \in Declaring /\ JobOf(t) = j)
          /\ Unmarked(ticks', j) = Unmarked(ticks, j)
                + One(r.pc = "declared" /\ JobOf(t) = j)
                - One(ticks[t].pc = "declared" /\ JobOf(t) = j)
      BY <2>1, PcCounts
    <3>4. QED
      BY <1>1, <2>1, <3>1, <3>2, <3>3, CountsAreNumbers DEF One, Declaring
  <2>4. Runs'
    BY <1>1, <2>3 DEF Accounts, Runs
  <2>5. Extra'
    BY <1>1, <2>3, SameCauses DEF Accounts, Extra
  <2>6. QED
    BY <2>4, <2>5 DEF Accounts
<1>3. CASE ~CanDeclare(t)
  <2>1. ticks' = [ticks EXCEPT ![t] = Onward(t)] /\ mempool' = mempool
    BY <1>3 DEF SendSubmit
  <2>2. ticks[t].pc \notin Declaring \cup {"idle"}
    BY <1>1 DEF Declaring
  <2>3. QED
    BY <1>1, <2>1, <2>2, LeftAccounts
<1>4. QED
  BY <1>2, <1>3

\* A job that is not due any more is left though it was declared.
LEMMA NotDueExtra ==
    ASSUME BookInv, Extra, NEW t \in KeeperTick, ticks[t].pc \in Declaring,
           ticks' = [ticks EXCEPT ![t] = Onward(t)], ~IsDue(JobOf(t)),
           UNCHANGED <<jobs, now, intents, marks, deaths, giveUps, overlaps>>,
           \A j \in DOMAIN jobs : Strays(mempool', j) = Strays(mempool, j)
    PROVE  Extra'
<1>1. ASSUME NEW j \in DOMAIN jobs
      PROVE  DeclaredIn(intents, j) + Strays(mempool, j) + Holding(ticks', j)
                <= jobs[j].runs + UnderWayIn(ticks', j) + Disturbances + Gone(jobs[j])
                   + Waits(Holding(ticks', j), jobs[j], now)
  <2>1. DeclaredIn(intents, j) + Strays(mempool, j) + Holding(ticks, j)
           <= jobs[j].runs + UnderWayIn(ticks, j) + Disturbances + Gone(jobs[j])
              + Waits(Holding(ticks, j), jobs[j], now)
    BY DEF Extra
  <2>2. /\ DeclaredIn(intents, j) \in Nat /\ Strays(mempool, j) \in Nat
        /\ Holding(ticks, j) \in Nat /\ UnderWayIn(ticks, j) \in Nat
        /\ jobs[j].runs \in Nat /\ Disturbances \in Nat
    BY CountsAreNumbers, JobNumbers
  <2>3. ticks[t].pc /= "idle"
    BY DEF Declaring
  <2>4. /\ Holding(ticks', j) = Holding(ticks, j) - One(JobOf(t) = j)
        /\ UnderWayIn(ticks', j) =
              UnderWayIn(ticks, j) - One(ticks[t].pc \in Declaring /\ JobOf(t) = j)
    BY <2>3, OnwardCounts DEF One
  <2>5. CASE JobOf(t) = j
    <3>1. /\ Holding(ticks', j) = Holding(ticks, j) - 1
          /\ UnderWayIn(ticks', j) = UnderWayIn(ticks, j) - 1
      BY <2>4, <2>5 DEF One
    <3>2. /\ Waits(Holding(ticks, j), jobs[j], now) = 0
          /\ Waits(Holding(ticks', j), jobs[j], now) = 0
          /\ Gone(jobs[j]) \in Nat
      BY <2>5 DEF Waits, Gone, One, IsDue, DueAt
    <3>3. QED
      BY <2>1, <2>2, <3>1, <3>2
  <2>6. CASE JobOf(t) /= j
    <3>1. Holding(ticks', j) = Holding(ticks, j) /\ UnderWayIn(ticks', j) = UnderWayIn(ticks, j)
      BY <2>2, <2>4, <2>6 DEF One
    <3>2. QED
      BY <2>1, <3>1
  <2>7. QED
    BY <2>5, <2>6
<1>2. QED
  BY <1>1, SameCauses DEF Extra

LEMMA SendMarkAccounts ==
    ASSUME BookInv, Accounts, NEW t \in KeeperTick, SendMark(t) PROVE Accounts'
<1>1. ticks[t].pc = "declared" /\ UNCHANGED <<jobs, now, intents, marks, deaths, giveUps, overlaps>>
  BY DEF SendMark, clientVars
<1>2. CASE CanMark(JobOf(t))
  <2> DEFINE c == [by |-> t, call |-> "markRun", job |-> JobOf(t)]
  <2> DEFINE r == WithPc(t, "marked")
  <2>1. /\ mempool' = Append(mempool, c) /\ Goes(ticks, t, r, ticks')
        /\ r.pc = "marked" /\ r.due = ticks[t].due
    BY <1>1, <1>2, PcFacts, PcGoes DEF SendMark, Pc
  <2>2. c \in MarkCall /\ c.job = JobOf(t) /\ c \notin SubmitCall
    <3>1. JobOf(t) \in Nat /\ t \in Nat
      BY <1>2 DEF CanMark, KeeperTick, BookInv, NonceInv, Types
    <3>2. QED
      BY <3>1 DEF MarkCall, SubmitCall
  <2> HIDE DEF c, r
  <2>3. ASSUME NEW j \in DOMAIN jobs
        PROVE  /\ MarksSent(mempool', j) = MarksSent(mempool, j) + One(JobOf(t) = j)
               /\ Strays(mempool', j) = Strays(mempool, j)
               /\ Holding(ticks', j) = Holding(ticks, j)
               /\ UnderWayIn(ticks', j) = UnderWayIn(ticks, j)
               /\ Unmarked(ticks', j) = Unmarked(ticks, j) - One(JobOf(t) = j)
    <3>1. /\ MarksSent(mempool', j) = MarksSent(mempool, j) + One(c \in MarksFor(j))
          /\ Strays(mempool', j) = Strays(mempool, j) + One(c \in StraysFor(j))
      BY <2>1, <2>2, CallCounts
    <3>2. (c \in MarksFor(j) <=> JobOf(t) = j) /\ c \notin StraysFor(j)
      BY <2>2 DEF MarksFor, StraysFor
    <3>3. /\ Holding(ticks', j) = Holding(ticks, j)
          /\ UnderWayIn(ticks', j) = UnderWayIn(ticks, j)
                + One(r.pc \in Declaring /\ JobOf(t) = j)
                - One(ticks[t].pc \in Declaring /\ JobOf(t) = j)
          /\ Unmarked(ticks', j) = Unmarked(ticks, j)
                + One(r.pc = "declared" /\ JobOf(t) = j)
                - One(ticks[t].pc = "declared" /\ JobOf(t) = j)
      BY <2>1, PcCounts
    <3>4. QED
      BY <1>1, <2>1, <3>1, <3>2, <3>3, CountsAreNumbers DEF One, Declaring
  <2>4. Runs'
    <3>1. ASSUME NEW j \in DOMAIN jobs
          PROVE  jobs[j].runs + Unmarked(ticks', j) + MarksSent(mempool', j)
                    <= DeclaredIn(intents, j) + marks[j]
      <4>1. jobs[j].runs + Unmarked(ticks, j) + MarksSent(mempool, j)
               <= DeclaredIn(intents, j) + marks[j]
        BY DEF Accounts, Runs
      <4>2. /\ Unmarked(ticks, j) \in Nat /\ MarksSent(mempool, j) \in Nat
            /\ jobs[j].runs \in Nat /\ DeclaredIn(intents, j) \in Nat /\ marks[j] \in Nat
        BY CountsAreNumbers, JobNumbers
      <4>3. QED
        BY <2>3, <4>1, <4>2 DEF One
    <3>2. QED
      BY <1>1, <3>1 DEF Runs
  <2>5. Extra'
    BY <1>1, <2>3, SameCauses DEF Accounts, Extra
  <2>6. QED
    BY <2>4, <2>5 DEF Accounts
<1>3. CASE ~CanMark(JobOf(t))
  <2>1. ticks' = [ticks EXCEPT ![t] = Onward(t)] /\ mempool' = mempool
    BY <1>3 DEF SendMark
  <2>2. ~IsDue(JobOf(t)) /\ ticks[t].pc \in Declaring /\ ticks[t].pc /= "idle"
    BY <1>1, <1>3, OnwardFacts DEF CanMark, Declaring
  <2>3. Extra'
    BY <1>1, <2>1, <2>2, NotDueExtra DEF Accounts
  <2>4. Runs'
    <3>1. ASSUME NEW j \in DOMAIN jobs
          PROVE  jobs[j].runs + Unmarked(ticks', j) + MarksSent(mempool, j)
                    <= DeclaredIn(intents, j) + marks[j]
      <4>1. jobs[j].runs + Unmarked(ticks, j) + MarksSent(mempool, j)
               <= DeclaredIn(intents, j) + marks[j]
        BY DEF Accounts, Runs
      <4>2. /\ Unmarked(ticks, j) \in Nat /\ MarksSent(mempool, j) \in Nat
            /\ jobs[j].runs \in Nat /\ DeclaredIn(intents, j) \in Nat /\ marks[j] \in Nat
        BY CountsAreNumbers, JobNumbers
      <4>3. Unmarked(ticks', j) =
               Unmarked(ticks, j) - One(ticks[t].pc = "declared" /\ JobOf(t) = j)
        BY <2>1, <2>2, OnwardCounts DEF One
      <4>4. QED
        BY <4>1, <4>2, <4>3 DEF One
    <3>2. QED
      BY <1>1, <2>1, <3>1 DEF Runs
  <2>5. QED
    BY <2>3, <2>4 DEF Accounts
<1>4. QED
  BY <1>2, <1>3

LEMMA LandSubmitAccounts == ASSUME BookInv, Accounts, LandSubmit PROVE Accounts'
<1> DEFINE c == Head(mempool)
           t == c.by
           ok == CanSubmitFor(c.msg)
           r == WithPc(t, "declared")
           x == [owner |-> c.msg.owner, what |-> c.msg.what, nonce |-> c.msg.nonce,
                 closes |-> c.msg.closes, at |-> now]
           mine(j) == c.msg.what = <<"job", j>>
<1>1. /\ mempool /= << >> /\ mempool' = Tail(mempool)
      /\ UNCHANGED <<jobs, now, marks, deaths, giveUps, overlaps>>
      /\ intents' = IF ok THEN Append(intents, x) ELSE intents
  BY DEF LandSubmit, Opened
<1>2. /\ c \in SubmitCall
      /\ t = Nobody => ticks' = ticks
      /\ t /= Nobody =>
           /\ t \in KeeperTick /\ ticks[t].pc = "submitted"
           /\ ticks' = [ticks EXCEPT ![t] = IF ok THEN r ELSE Onward(t)]
           /\ c.msg.what = <<"job", JobOf(t)>>
  BY LandSubmitTicks DEF AfterSubmission
<1>3. x \in IntentRecord /\ x.what = c.msg.what
  <2>1. c.msg \in MessageRecord
    BY <1>2 DEF SubmitCall
  <2>2. /\ c.msg.owner \in Owner /\ c.msg.what \in What /\ c.msg.nonce \in Int
        /\ c.msg.closes \in Nat
    BY <2>1 DEF MessageRecord
  <2>3. now \in Nat
    BY DEF BookInv, NonceInv, Types
  <2>4. QED
    BY <2>2, <2>3 DEF IntentRecord
<1>4. c \notin MarkCall
  BY <1>2 DEF SubmitCall, MarkCall
<1> HIDE DEF c, t, ok, r, x
<1>5. ASSUME NEW j \in DOMAIN jobs
      PROVE  /\ MarksSent(mempool', j) = MarksSent(mempool, j)
             /\ Strays(mempool', j) = Strays(mempool, j) - One(t = Nobody /\ mine(j))
  <2>1. /\ MarksSent(mempool', j) = MarksSent(mempool, j) - One(c \in MarksFor(j))
        /\ Strays(mempool', j) = Strays(mempool, j) - One(c \in StraysFor(j))
    BY <1>1, CallCounts DEF c
  <2>2. c \notin MarksFor(j) /\ (c \in StraysFor(j) <=> t = Nobody /\ mine(j))
    BY <1>2, <1>4 DEF MarksFor, StraysFor, t
  <2>3. QED
    BY <2>1, <2>2, CountsAreNumbers DEF One
<1>6. CASE ok
  <2>1. ASSUME NEW j \in DOMAIN jobs
        PROVE  /\ DeclaredIn(intents', j) = DeclaredIn(intents, j) + One(mine(j))
               /\ Holding(ticks', j) = Holding(ticks, j)
               /\ UnderWayIn(ticks', j) = UnderWayIn(ticks, j) + One(t /= Nobody /\ mine(j))
               /\ Unmarked(ticks', j) = Unmarked(ticks, j) + One(t /= Nobody /\ mine(j))
    <3>1. DeclaredIn(intents', j) = DeclaredIn(intents, j) + One(mine(j))
      BY <1>1, <1>3, <1>6, IntentCounts
    <3>2. CASE t = Nobody
      BY <1>2, <3>1, <3>2, CountsAreNumbers DEF One
    <3>3. CASE t /= Nobody
      <4>1. t \in KeeperTick /\ ticks[t].pc = "submitted" /\ (mine(j) <=> JobOf(t) = j)
        BY <1>2, <3>3
      <4>2. Goes(ticks, t, r, ticks') /\ r.pc = "declared" /\ r.due = ticks[t].due
        <5>1. ticks' = At(t, "declared")
          BY <1>2, <1>6, <3>3, <4>1, PcFacts DEF Pc, r
        <5>2. QED
          BY <4>1, <5>1, PcFacts, PcGoes DEF Pc, r
      <4>3. /\ Holding(ticks', j) = Holding(ticks, j)
            /\ UnderWayIn(ticks', j) = UnderWayIn(ticks, j)
                  + One(r.pc \in Declaring /\ JobOf(t) = j)
                  - One(ticks[t].pc \in Declaring /\ JobOf(t) = j)
            /\ Unmarked(ticks', j) = Unmarked(ticks, j)
                  + One(r.pc = "declared" /\ JobOf(t) = j)
                  - One(ticks[t].pc = "declared" /\ JobOf(t) = j)
        BY <4>1, <4>2, PcCounts
      <4>4. QED
        BY <3>1, <3>3, <4>1, <4>2, <4>3, CountsAreNumbers DEF One, Declaring
    <3>4. QED
      BY <3>2, <3>3
  <2> HIDE DEF mine
  <2>2. Runs'
    <3>1. ASSUME NEW j \in DOMAIN jobs
          PROVE  jobs[j].runs + Unmarked(ticks', j) + MarksSent(mempool', j)
                    <= DeclaredIn(intents', j) + marks[j]
      <4>1. jobs[j].runs + Unmarked(ticks, j) + MarksSent(mempool, j)
               <= DeclaredIn(intents, j) + marks[j]
        BY DEF Accounts, Runs
      <4>2. /\ Unmarked(ticks, j) \in Nat /\ MarksSent(mempool, j) \in Nat
            /\ jobs[j].runs \in Nat /\ DeclaredIn(intents, j) \in Nat /\ marks[j] \in Nat
        BY CountsAreNumbers, JobNumbers
      <4>3. QED
        BY <1>5, <2>1, <4>1, <4>2 DEF One
    <3>2. QED
      BY <1>1, <3>1 DEF Runs
  <2>3. Extra'
    <3>1. ASSUME NEW j \in DOMAIN jobs
          PROVE  DeclaredIn(intents', j) + Strays(mempool', j) + Holding(ticks', j)
                    <= jobs[j].runs + UnderWayIn(ticks', j) + Disturbances + Gone(jobs[j])
                       + Waits(Holding(ticks, j), jobs[j], now)
      <4>1. DeclaredIn(intents, j) + Strays(mempool, j) + Holding(ticks, j)
               <= jobs[j].runs + UnderWayIn(ticks, j) + Disturbances + Gone(jobs[j])
                  + Waits(Holding(ticks, j), jobs[j], now)
        BY DEF Accounts, Extra
      <4>2. /\ DeclaredIn(intents, j) \in Nat /\ Strays(mempool, j) \in Nat
            /\ Holding(ticks, j) \in Nat /\ UnderWayIn(ticks, j) \in Nat
            /\ jobs[j].runs \in Nat /\ Disturbances \in Nat
        BY CountsAreNumbers, JobNumbers
      <4>3. Gone(jobs[j]) \in Nat /\ Waits(Holding(ticks, j), jobs[j], now) \in Nat
        BY DEF Gone, Waits, One
      <4>4. /\ DeclaredIn(intents', j) = DeclaredIn(intents, j) + One(mine(j))
            /\ Strays(mempool', j) = Strays(mempool, j) - One(t = Nobody /\ mine(j))
            /\ UnderWayIn(ticks', j) = UnderWayIn(ticks, j) + One(t /= Nobody /\ mine(j))
            /\ Holding(ticks', j) = Holding(ticks, j)
        BY <1>5, <2>1
      <4>5. CASE mine(j) /\ t = Nobody
        BY <4>1, <4>2, <4>3, <4>4, <4>5 DEF One
      <4>6. CASE mine(j) /\ t /= Nobody
        BY <4>1, <4>2, <4>3, <4>4, <4>6 DEF One
      <4>7. CASE ~mine(j)
        BY <4>1, <4>2, <4>3, <4>4, <4>7 DEF One
      <4>8. QED
        BY <4>5, <4>6, <4>7
    <3>2. QED
      BY <1>1, <2>1, <3>1, SameCauses DEF Extra
  <2>4. QED
    BY <2>2, <2>3 DEF Accounts
<1>7. CASE ~ok /\ t /= Nobody
  <2>1. /\ t \in KeeperTick /\ ticks[t].pc \notin Declaring \cup {"idle"}
        /\ ticks' = [ticks EXCEPT ![t] = Onward(t)]
    BY <1>2, <1>7 DEF Declaring
  <2>2. \A j \in DOMAIN jobs : /\ MarksSent(mempool', j) = MarksSent(mempool, j)
                               /\ Strays(mempool', j) = Strays(mempool, j)
    BY <1>5, <1>7, CountsAreNumbers DEF One
  <2>3. UNCHANGED <<jobs, now, intents, marks, deaths, giveUps, overlaps>>
    BY <1>1, <1>7
  <2>4. QED
    BY <2>1, <2>2, <2>3, LeftAccounts
<1>8. CASE ~ok /\ t = Nobody
  <2>1. UNCHANGED <<jobs, now, ticks, intents, marks, deaths, giveUps, overlaps>>
    BY <1>1, <1>2, <1>8
  <2> HIDE DEF mine
  <2>2. Runs'
    BY <1>5, <2>1 DEF Accounts, Runs
  <2>3. ASSUME NEW j \in DOMAIN jobs
        PROVE  DeclaredIn(intents, j) + Strays(mempool', j) + Holding(ticks, j)
                  <= jobs[j].runs + UnderWayIn(ticks, j) + Disturbances + Gone(jobs[j])
                     + Waits(Holding(ticks, j), jobs[j], now)
    <3>1. DeclaredIn(intents, j) + Strays(mempool, j) + Holding(ticks, j)
             <= jobs[j].runs + UnderWayIn(ticks, j) + Disturbances + Gone(jobs[j])
                + Waits(Holding(ticks, j), jobs[j], now)
      BY DEF Accounts, Extra
    <3>2. /\ DeclaredIn(intents, j) \in Nat /\ Strays(mempool, j) \in Nat
          /\ Holding(ticks, j) \in Nat /\ UnderWayIn(ticks, j) \in Nat
          /\ jobs[j].runs \in Nat /\ Disturbances \in Nat
      BY CountsAreNumbers, JobNumbers
    <3>3. Gone(jobs[j]) \in Nat /\ Waits(Holding(ticks, j), jobs[j], now) \in Nat
      BY DEF Gone, Waits, One
    <3>4. Strays(mempool', j) = Strays(mempool, j) \/ Strays(mempool', j) = Strays(mempool, j) - 1
      BY <1>5, <3>2 DEF One
    <3>5. QED
      BY <3>1, <3>2, <3>3, <3>4
  <2>4. Extra'
    BY <2>1, <2>3, SameCauses DEF Extra
  <2>5. QED
    BY <2>2, <2>4 DEF Accounts
<1>9. QED
  BY <1>6, <1>7, <1>8

\* A mark that lands on a job that is due.
LEMMA RunAccounts ==
    ASSUME BookInv, Accounts, NEW j \in DOMAIN jobs, IsDue(j), jobs' = JobsAfterRun(j), now' = now,
           intents' = intents, NEW less \in {0, 1}, NEW more \in {0, 1}, more + less = 1 \/ more = 0,
           Disturbances' = Disturbances + more,
           \A k \in DOMAIN jobs :
              /\ Strays(mempool', k) = Strays(mempool, k)
              /\ marks'[k] = marks[k] + (IF k = j THEN more ELSE 0)
              /\ MarksSent(mempool', k) = MarksSent(mempool, k) - (IF k = j THEN 1 - more ELSE 0)
              /\ Holding(ticks', k) = Holding(ticks, k) - (IF k = j THEN less ELSE 0)
              /\ UnderWayIn(ticks', k) = UnderWayIn(ticks, k) - (IF k = j THEN less ELSE 0)
              /\ Unmarked(ticks', k) = Unmarked(ticks, k)
    PROVE  Accounts'
<1>1. /\ DOMAIN jobs' = DOMAIN jobs /\ jobs'[j].runs = jobs[j].runs + 1
      /\ \A k \in DOMAIN jobs : k /= j => jobs'[k] = jobs[k]
  BY JobsAfterRunFacts
<1>2. ASSUME NEW k \in DOMAIN jobs
      PROVE  /\ jobs'[k].runs + Unmarked(ticks', k) + MarksSent(mempool', k)
                   <= DeclaredIn(intents, k) + marks'[k]
             /\ DeclaredIn(intents, k) + Strays(mempool', k) + Holding(ticks', k)
                   <= jobs'[k].runs + UnderWayIn(ticks', k) + Disturbances' + Gone(jobs'[k])
                      + Waits(Holding(ticks', k), jobs'[k], now')
  <2>1. /\ jobs[k].runs + Unmarked(ticks, k) + MarksSent(mempool, k)
              <= DeclaredIn(intents, k) + marks[k]
        /\ DeclaredIn(intents, k) + Strays(mempool, k) + Holding(ticks, k)
              <= jobs[k].runs + UnderWayIn(ticks, k) + Disturbances + Gone(jobs[k])
                 + Waits(Holding(ticks, k), jobs[k], now)
    BY DEF Accounts, Runs, Extra
  <2>2. /\ DeclaredIn(intents, k) \in Nat /\ Strays(mempool, k) \in Nat
        /\ Holding(ticks, k) \in Nat /\ UnderWayIn(ticks, k) \in Nat
        /\ Unmarked(ticks, k) \in Nat /\ MarksSent(mempool, k) \in Nat
        /\ jobs[k].runs \in Nat /\ Disturbances \in Nat /\ marks[k] \in Nat
    BY CountsAreNumbers, JobNumbers
  <2>3. /\ Gone(jobs[k]) \in Nat /\ Gone(jobs'[k]) \in Nat
        /\ Waits(Holding(ticks, k), jobs[k], now) \in {0, 1}
        /\ Waits(Holding(ticks', k), jobs'[k], now') \in {0, 1}
    BY DEF Gone, Waits, One
  <2>4. CASE k = j
    <3>1. Gone(jobs[k]) = 0
      BY <2>4 DEF Gone, IsDue, One
    <3>2. /\ Strays(mempool', k) = Strays(mempool, k) /\ marks'[k] = marks[k] + more
          /\ MarksSent(mempool', k) = MarksSent(mempool, k) - (1 - more)
          /\ Holding(ticks', k) = Holding(ticks, k) - less
          /\ UnderWayIn(ticks', k) = UnderWayIn(ticks, k) - less
          /\ Unmarked(ticks', k) = Unmarked(ticks, k)
          /\ jobs'[k].runs = jobs[k].runs + 1
      BY <1>1, <2>4
    <3>3. jobs'[k].runs + Unmarked(ticks', k) + MarksSent(mempool', k)
             <= DeclaredIn(intents, k) + marks'[k]
      BY <2>1, <2>2, <3>2
    <3>4. DeclaredIn(intents, k) + Strays(mempool, k) + Holding(ticks, k)
             <= jobs[k].runs + UnderWayIn(ticks, k) + Disturbances + 1
      BY <2>1, <2>2, <2>3, <3>1
    <3>5. Disturbances' + Gone(jobs'[k]) + Waits(Holding(ticks', k), jobs'[k], now') >= Disturbances
      BY <2>2, <2>3
    <3>6. QED
      BY <2>2, <2>3, <3>2, <3>3, <3>4, <3>5
  <2>5. CASE k /= j
    <3>1. /\ Strays(mempool', k) = Strays(mempool, k) /\ marks'[k] = marks[k]
          /\ MarksSent(mempool', k) = MarksSent(mempool, k)
          /\ Holding(ticks', k) = Holding(ticks, k)
          /\ UnderWayIn(ticks', k) = UnderWayIn(ticks, k)
          /\ Unmarked(ticks', k) = Unmarked(ticks, k) /\ jobs'[k] = jobs[k]
      BY <1>1, <2>2, <2>5
    <3>2. QED
      BY <2>1, <2>2, <2>3, <3>1
  <2>6. QED
    BY <2>4, <2>5
<1>3. QED
  BY <1>1, <1>2 DEF Accounts, Runs, Extra

LEMMA LandMarkAccounts == ASSUME BookInv, Accounts, LandMark PROVE Accounts'
<1> DEFINE c == Head(mempool)
           t == c.by
<1>1. /\ mempool /= << >> /\ mempool' = Tail(mempool)
      /\ UNCHANGED <<now, intents, marks, deaths, giveUps, overlaps>>
      /\ jobs' = IF CanMark(c.job) THEN JobsAfterRun(c.job) ELSE jobs
  BY DEF LandMark, clientVars
<1>2. /\ c \in MarkCall /\ c.job \in DOMAIN jobs
      /\ t = Nobody => ticks' = ticks
      /\ t /= Nobody =>
           /\ t \in KeeperTick /\ ticks[t].pc = "marked"
           /\ ticks' = [ticks EXCEPT ![t] = Onward(t)]
           /\ c.job = JobOf(t)
  BY LandMarkTicks
<1> HIDE DEF t
<1>3. ASSUME NEW k \in DOMAIN jobs
      PROVE  /\ Strays(mempool', k) = Strays(mempool, k)
             /\ MarksSent(mempool', k) = MarksSent(mempool, k) - (IF k = c.job THEN 1 ELSE 0)
             /\ marks'[k] = marks[k]
  <2>1. /\ MarksSent(mempool', k) = MarksSent(mempool, k) - One(c \in MarksFor(k))
        /\ Strays(mempool', k) = Strays(mempool, k) - One(c \in StraysFor(k))
    BY <1>1, CallCounts
  <2>2. (c \in MarksFor(k) <=> k = c.job) /\ c \notin StraysFor(k)
    BY <1>2 DEF MarksFor, StraysFor, MarkCall, SubmitCall
  <2> HIDE DEF c
  <2>3. QED
    BY <1>1, <2>1, <2>2, CountsAreNumbers DEF One
<1> HIDE DEF c
<1>4. ASSUME NEW k \in DOMAIN jobs
      PROVE  /\ Unmarked(ticks', k) = Unmarked(ticks, k)
             /\ Holding(ticks', k) =
                   Holding(ticks, k) - (IF k = c.job THEN One(t /= Nobody) ELSE 0)
             /\ UnderWayIn(ticks', k) =
                   UnderWayIn(ticks, k) - (IF k = c.job THEN One(t /= Nobody) ELSE 0)
  <2>1. CASE t = Nobody
    BY <1>2, <2>1, CountsAreNumbers DEF One
  <2>2. CASE t /= Nobody
    <3>1. t \in KeeperTick /\ ticks[t].pc = "marked" /\ ticks[t].pc /= "idle"
          /\ c.job = JobOf(t) /\ ticks' = [ticks EXCEPT ![t] = Onward(t)]
      BY <1>2, <2>2
    <3>2. /\ Holding(ticks', k) = Holding(ticks, k) - One(JobOf(t) = k)
          /\ UnderWayIn(ticks', k) =
                UnderWayIn(ticks, k) - One(ticks[t].pc \in Declaring /\ JobOf(t) = k)
          /\ Unmarked(ticks', k) =
                Unmarked(ticks, k) - One(ticks[t].pc = "declared" /\ JobOf(t) = k)
      BY <3>1, OnwardCounts DEF One
    <3>3. QED
      BY <2>2, <3>1, <3>2, CountsAreNumbers DEF One, Declaring
  <2>3. QED
    BY <2>1, <2>2
<1>5. Disturbances' = Disturbances /\ Disturbances \in Nat
  BY <1>1, SameCauses, JobNumbers
<1>6. CASE CanMark(c.job)
  <2>1. PICK j \in DOMAIN jobs : j = c.job
    BY <1>2
  <2>2. IsDue(j) /\ jobs' = JobsAfterRun(j) /\ now' = now /\ intents' = intents
    BY <1>1, <1>6, <2>1 DEF CanMark
  <2>3. PICK less \in {0, 1} : less = One(t /= Nobody)
    BY DEF One
  <2>4. \A k \in DOMAIN jobs :
              /\ Strays(mempool', k) = Strays(mempool, k)
              /\ marks'[k] = marks[k] + (IF k = j THEN 0 ELSE 0)
              /\ MarksSent(mempool', k) = MarksSent(mempool, k) - (IF k = j THEN 1 - 0 ELSE 0)
              /\ Holding(ticks', k) = Holding(ticks, k) - (IF k = j THEN less ELSE 0)
              /\ UnderWayIn(ticks', k) = UnderWayIn(ticks, k) - (IF k = j THEN less ELSE 0)
              /\ Unmarked(ticks', k) = Unmarked(ticks, k)
    BY <1>3, <1>4, <2>1, <2>3, JobNumbers
  <2>5. QED
    BY <1>5, <2>2, <2>4, RunAccounts
<1>7. CASE ~CanMark(c.job)
  <2>1. jobs' = jobs /\ ~IsDue(c.job)
    BY <1>1, <1>2, <1>7 DEF CanMark
  <2>2. Runs'
    <3>1. ASSUME NEW k \in DOMAIN jobs
          PROVE  jobs[k].runs + Unmarked(ticks', k) + MarksSent(mempool', k)
                    <= DeclaredIn(intents, k) + marks[k]
      <4>1. jobs[k].runs + Unmarked(ticks, k) + MarksSent(mempool, k)
               <= DeclaredIn(intents, k) + marks[k]
        BY DEF Accounts, Runs
      <4>2. /\ Unmarked(ticks, k) \in Nat /\ MarksSent(mempool, k) \in Nat
            /\ jobs[k].runs \in Nat /\ DeclaredIn(intents, k) \in Nat /\ marks[k] \in Nat
        BY CountsAreNumbers, JobNumbers
      <4>3. QED
        BY <1>3, <1>4, <4>1, <4>2
    <3>2. QED
      BY <1>1, <2>1, <3>1 DEF Runs
  <2>3. CASE t = Nobody
    BY <1>1, <1>2, <1>3, <1>5, <2>1, <2>2, <2>3 DEF Accounts, Extra
  <2>4. CASE t /= Nobody
    <3>1. t \in KeeperTick /\ ticks[t].pc \in Declaring /\ ~IsDue(JobOf(t))
          /\ ticks' = [ticks EXCEPT ![t] = Onward(t)]
      BY <1>2, <2>1, <2>4 DEF Declaring
    <3>2. UNCHANGED <<jobs, now, intents, marks, deaths, giveUps, overlaps>>
      BY <1>1, <2>1
    <3>3. \A k \in DOMAIN jobs : Strays(mempool', k) = Strays(mempool, k)
      BY <1>3
    <3>4. Extra'
      BY <3>1, <3>2, <3>3, NotDueExtra DEF Accounts
    <3>5. QED
      BY <2>2, <3>4 DEF Accounts
  <2>5. QED
    BY <2>3, <2>4
<1>8. QED
  BY <1>6, <1>7

\* An owner that may still mark has not used up what the bound allows.
LEMMA OneMoreMark ==
    ASSUME BookInv, MayDisturb, NEW j \in DOMAIN jobs, marks' = [marks EXCEPT ![j] = @ + 1]
    PROVE  /\ OwnerMarks' = OwnerMarks + 1
           /\ \A k \in DOMAIN jobs : marks'[k] = marks[k] + (IF k = j THEN 1 ELSE 0)
<1> DEFINE all  == Job \X (1 .. MaxDisturbances)
           S    == {p \in all : p[2] <= marks[p[1]]}
           T    == {p \in all : p[2] <= marks'[p[1]]}
           last == <<j, marks[j] + 1>>
<1>1. /\ j \in Job /\ marks \in [Job -> Nat] /\ MaxDisturbances \in Nat
      /\ IsFiniteSet(all) /\ Disturbances < MaxDisturbances
      /\ deaths \in Nat /\ giveUps \in Nat /\ overlaps \in Nat
  BY JobNumbers, OwnerMarksFinite, StandingOrdersAssumption DEF BookInv, Shape, MayDisturb
<1>2. S \subseteq all /\ IsFiniteSet(S) /\ OwnerMarks = Cardinality(S)
      /\ OwnerMarks' = Cardinality(T)
  BY <1>1, FS_Subset DEF OwnerMarks
<1>3. Cardinality(S) < MaxDisturbances /\ Cardinality(S) \in Nat
  <2>1. Cardinality(S) \in Nat
    BY <1>2, FS_CardinalityType
  <2>2. QED
    BY <1>1, <1>2, <2>1 DEF Disturbances
<1>4. marks[j] < MaxDisturbances
  <2>1. SUFFICES ASSUME marks[j] >= MaxDisturbances PROVE FALSE
    BY <1>1
  <2> DEFINE column == {j} \X (1 .. MaxDisturbances)
  <2>2. column \subseteq S
    BY <1>1, <2>1
  <2>3. Cardinality(column) = MaxDisturbances
    <3>1. IsFiniteSet({j}) /\ Cardinality({j}) = 1
      BY FS_Singleton
    <3>2. 1 \in Int /\ MaxDisturbances \in Int
      BY <1>1
    <3>3. /\ IsFiniteSet(1 .. MaxDisturbances)
          /\ Cardinality(1 .. MaxDisturbances) =
                IF 1 > MaxDisturbances THEN 0 ELSE MaxDisturbances - 1 + 1
      BY <3>2, FS_Interval, ZenonT(30)
    <3>4. Cardinality(1 .. MaxDisturbances) = MaxDisturbances
      BY <1>1, <3>3
    <3>5. Cardinality(column) = Cardinality({j}) * Cardinality(1 .. MaxDisturbances)
      BY <3>1, <3>3, FS_Product, ZenonT(30)
    <3>6. QED
      BY <1>1, <3>1, <3>4, <3>5
  <2> HIDE DEF column, S
  <2>4. Cardinality(column) <= Cardinality(S)
    BY <1>2, <2>2, FS_Subset
  <2>5. QED
    BY <1>1, <1>3, <2>3, <2>4
<1>5. \A p : p /= last => (p \in S <=> p \in T)
  <2>1. ASSUME NEW p \in all, p /= last PROVE p[2] <= marks[p[1]] <=> p[2] <= marks'[p[1]]
    <3>1. PICK i \in Job, n \in 1 .. MaxDisturbances : p = <<i, n>>
      OBVIOUS
    <3>2. CASE i /= j
      BY <1>1, <3>1, <3>2
    <3>3. CASE i = j
      <4>1. n /= marks[j] + 1 /\ marks'[j] = marks[j] + 1 /\ n \in Nat
        BY <1>1, <2>1, <3>1, <3>3
      <4>2. n <= marks[j] <=> n <= marks'[j]
        BY <1>1, <4>1
      <4>3. QED
        BY <3>1, <3>3, <4>2
    <3>4. QED
      BY <3>2, <3>3
  <2>2. QED
    BY <2>1
<1>6. last \in T /\ last \notin S
  <2>1. last \in all
    BY <1>1, <1>4
  <2>2. last[1] = j /\ last[2] = marks[j] + 1 /\ marks'[j] = marks[j] + 1
    BY <1>1
  <2>3. QED
    BY <1>1, <2>1, <2>2
<1> HIDE DEF S, T, last, all
<1>7. Cardinality(T) = Cardinality(S) + One(last \in T) - One(last \in S)
  BY <1>2, <1>5, Swapped
<1>8. \A k \in DOMAIN jobs : marks'[k] = marks[k] + (IF k = j THEN 1 ELSE 0)
  BY <1>1, JobsAreJobs
<1>9. QED
  BY <1>2, <1>3, <1>6, <1>7, <1>8 DEF One

LEMMA MarkRunAccounts ==
    ASSUME BookInv, Accounts, NEW j \in DOMAIN jobs, MarkRun(j) PROVE Accounts'
<1>1. /\ MayDisturb /\ IsDue(j) /\ jobs' = JobsAfterRun(j)
      /\ marks' = [marks EXCEPT ![j] = @ + 1]
      /\ UNCHANGED <<now, intents, ticks, mempool, deaths, giveUps, overlaps>>
  BY DEF MarkRun, CanMark, clientVars
<1>2. /\ OwnerMarks' = OwnerMarks + 1
      /\ \A k \in DOMAIN jobs : marks'[k] = marks[k] + (IF k = j THEN 1 ELSE 0)
  BY <1>1, OneMoreMark
<1>3. Disturbances' = Disturbances + 1
  BY <1>1, <1>2, JobNumbers DEF Disturbances
<1>4. \A k \in DOMAIN jobs :
              /\ Strays(mempool', k) = Strays(mempool, k)
              /\ marks'[k] = marks[k] + (IF k = j THEN 1 ELSE 0)
              /\ MarksSent(mempool', k) = MarksSent(mempool, k) - (IF k = j THEN 1 - 1 ELSE 0)
              /\ Holding(ticks', k) = Holding(ticks, k) - (IF k = j THEN 0 ELSE 0)
              /\ UnderWayIn(ticks', k) = UnderWayIn(ticks, k) - (IF k = j THEN 0 ELSE 0)
              /\ Unmarked(ticks', k) = Unmarked(ticks, k)
  BY <1>1, <1>2, CountsAreNumbers
<1>5. now' = now /\ intents' = intents
  BY <1>1
<1>6. QED
  BY <1>1, <1>3, <1>4, <1>5, RunAccounts


\* A tick that ends, or gives up on a call, counts as a cause.
LEMMA ForgetAccounts ==
    ASSUME BookInv, Accounts, NEW t \in KeeperTick, ticks[t].pc /= "idle",
           NEW r, Goes(ticks, t, r, ticks'), r.pc \notin Declaring,
           \A j : IsOn(r.due, j) => On(t, j) /\ j /= JobOf(t),
           mempool' = Forgotten(t), Disturbances' = Disturbances + 1,
           UNCHANGED <<jobs, now, intents, marks>>
    PROVE  Accounts'
<1>1. ASSUME NEW j \in DOMAIN jobs
      PROVE  /\ jobs[j].runs + Unmarked(ticks', j) + MarksSent(mempool', j)
                   <= DeclaredIn(intents, j) + marks[j]
             /\ DeclaredIn(intents, j) + Strays(mempool', j) + Holding(ticks', j)
                   <= jobs[j].runs + UnderWayIn(ticks', j) + (Disturbances + 1) + Gone(jobs[j])
                      + Waits(Holding(ticks', j), jobs[j], now)
  <2>1. /\ jobs[j].runs + Unmarked(ticks, j) + MarksSent(mempool, j)
              <= DeclaredIn(intents, j) + marks[j]
        /\ DeclaredIn(intents, j) + Strays(mempool, j) + Holding(ticks, j)
              <= jobs[j].runs + UnderWayIn(ticks, j) + Disturbances + Gone(jobs[j])
                 + Waits(Holding(ticks, j), jobs[j], now)
    BY DEF Accounts, Runs, Extra
  <2>2. /\ DeclaredIn(intents, j) \in Nat /\ Strays(mempool, j) \in Nat
        /\ Holding(ticks, j) \in Nat /\ UnderWayIn(ticks, j) \in Nat
        /\ Unmarked(ticks, j) \in Nat /\ MarksSent(mempool, j) \in Nat
        /\ jobs[j].runs \in Nat /\ Disturbances \in Nat /\ marks[j] \in Nat
    BY CountsAreNumbers, JobNumbers
  <2>3. /\ Gone(jobs[j]) \in Nat /\ Waits(Holding(ticks, j), jobs[j], now) \in {0, 1}
        /\ Waits(Holding(ticks', j), jobs[j], now) \in {0, 1}
    BY DEF Gone, Waits, One
  <2>4. /\ Holding(ticks', j) = Holding(ticks, j) + One(IsOn(r.due, j)) - One(On(t, j))
        /\ UnderWayIn(ticks', j) = UnderWayIn(ticks, j)
              + One(r.pc \in Declaring /\ Head(r.due) = j)
              - One(ticks[t].pc \in Declaring /\ JobOf(t) = j)
        /\ Unmarked(ticks', j) = Unmarked(ticks, j)
              + One(r.pc = "declared" /\ Head(r.due) = j)
              - One(ticks[t].pc = "declared" /\ JobOf(t) = j)
    BY TickCounts
  <2>5. /\ MarksSent(mempool', j) = MarksSent(mempool, j) /\ Strays(mempool', j) \in Nat
        /\ Strays(mempool', j) <= Strays(mempool, j)
              + One(ticks[t].pc = "submitted" /\ JobOf(t) = j)
    BY ForgottenCounts DEF One
  <2>6. r.pc \notin Declaring /\ r.pc /= "declared" /\ On(t, JobOf(t))
    BY OnwardFacts DEF Declaring
  <2>7. Unmarked(ticks', j) <= Unmarked(ticks, j) /\ Unmarked(ticks', j) \in Int
    BY <2>2, <2>4, <2>6 DEF One
  <2>8. jobs[j].runs + Unmarked(ticks', j) + MarksSent(mempool', j)
           <= DeclaredIn(intents, j) + marks[j]
    BY <2>1, <2>2, <2>5, <2>7
  <2>9. CASE JobOf(t) = j
    <3>1. Holding(ticks', j) = Holding(ticks, j) - 1
      BY <2>2, <2>4, <2>6, <2>9 DEF One
    <3>2. \/ /\ UnderWayIn(ticks', j) = UnderWayIn(ticks, j)
             /\ Strays(mempool', j) <= Strays(mempool, j) + 1
          \/ /\ UnderWayIn(ticks', j) = UnderWayIn(ticks, j) - 1
             /\ Strays(mempool', j) <= Strays(mempool, j)
      BY <2>2, <2>4, <2>5, <2>6 DEF One, Declaring
    <3>3. CASE /\ UnderWayIn(ticks', j) = UnderWayIn(ticks, j)
               /\ Strays(mempool', j) <= Strays(mempool, j) + 1
      BY <2>1, <2>2, <2>3, <2>5, <2>8, <3>1, <3>3
    <3>4. CASE /\ UnderWayIn(ticks', j) = UnderWayIn(ticks, j) - 1
               /\ Strays(mempool', j) <= Strays(mempool, j)
      BY <2>1, <2>2, <2>3, <2>5, <2>8, <3>1, <3>4
    <3>5. QED
      BY <3>2, <3>3, <3>4
  <2>10. CASE JobOf(t) /= j
    <3>1. UnderWayIn(ticks', j) = UnderWayIn(ticks, j)
      BY <2>2, <2>4, <2>6, <2>10 DEF One
    <3>2. Holding(ticks', j) <= Holding(ticks, j) /\ Holding(ticks', j) \in Int
      BY <2>2, <2>4 DEF One
    <3>3. Strays(mempool', j) <= Strays(mempool, j)
      BY <2>2, <2>5, <2>10 DEF One
    <3>4. QED
      BY <2>1, <2>2, <2>3, <2>5, <2>8, <3>1, <3>2, <3>3
  <2>11. QED
    BY <2>9, <2>10
<1>2. Runs'
  BY <1>1 DEF Runs
<1>3. Extra'
  BY <1>1 DEF Extra
<1>4. QED
  BY <1>2, <1>3 DEF Accounts

LEMMA DieAccounts ==
    ASSUME BookInv, Accounts, NEW t \in KeeperTick, Die(t) PROVE Accounts'
<1>1. /\ ticks[t].pc /= "idle" /\ ticks' = [ticks EXCEPT ![t] = Idle]
      /\ mempool' = Forgotten(t) /\ UNCHANGED <<jobs, now, intents, marks>>
      /\ deaths' = deaths + 1 /\ giveUps' = giveUps /\ overlaps' = overlaps
  BY DEF Die, clientVars
<1>2. Goes(ticks, t, Idle, ticks')
  <2>1. TickOK(Idle, DOMAIN jobs)
    BY StandingOrdersAssumption DEF Idle, TickRecord, Pc, TickOK, InOrder
  <2>2. QED
    BY <1>1, <2>1, TickMoves DEF Goes
<1>3. Idle.pc \notin Declaring /\ \A j : ~IsOn(Idle.due, j)
  BY DEF Idle, Declaring, IsOn
<1>4. Disturbances' = Disturbances + 1
  BY <1>1, SameMarks, JobNumbers DEF Disturbances
<1>5. QED
  BY <1>1, <1>2, <1>3, <1>4, ForgetAccounts

LEMMA GiveUpAccounts ==
    ASSUME BookInv, Accounts, NEW t \in KeeperTick, GiveUp(t) PROVE Accounts'
<1>1. /\ ticks[t].pc /= "idle" /\ ticks' = [ticks EXCEPT ![t] = Onward(t)]
      /\ mempool' = Forgotten(t) /\ UNCHANGED <<jobs, now, intents, marks>>
      /\ deaths' = deaths /\ giveUps' = giveUps + 1 /\ overlaps' = overlaps
  BY DEF GiveUp, clientVars
<1>2. Goes(ticks, t, Onward(t), ticks')
  BY <1>1, OnwardFacts, TickMoves DEF Goes
<1>3. /\ Onward(t).pc \notin Declaring
      /\ \A j : IsOn(Onward(t).due, j) => On(t, j) /\ j /= JobOf(t)
  BY <1>1, OnwardFacts DEF Declaring
<1>4. Disturbances' = Disturbances + 1
  BY <1>1, SameMarks, JobNumbers DEF Disturbances
<1>5. QED
  BY <1>1, <1>2, <1>3, <1>4, ForgetAccounts

\* Nothing is known of a job before it is there.
LEMMA NothingOfOthers ==
    ASSUME BookInv, NEW j, j \notin DOMAIN jobs
    PROVE  /\ DeclaredIn(intents, j) = 0 /\ MarksSent(mempool, j) = 0
           /\ Strays(mempool, j) = 0 /\ Holding(ticks, j) = 0
           /\ UnderWayIn(ticks, j) = 0 /\ Unmarked(ticks, j) = 0
<1>1. Positions(intents, IntentsFor(j)) = {}
  <2>1. ASSUME NEW n \in DOMAIN intents PROVE intents[n].what /= <<"job", j>>
    <3>1. ForOne(intents[n].what, DOMAIN jobs)
      BY DEF BookInv, Shape
    <3>2. QED
      BY <3>1 DEF ForOne, ForRequest
  <2>2. QED
    BY <2>1 DEF Positions, IntentsFor
<1>2. Positions(mempool, MarksFor(j)) = {} /\ Positions(mempool, StraysFor(j)) = {}
  <2>1. ASSUME NEW n \in DOMAIN mempool
        PROVE  mempool[n] \notin MarksFor(j) /\ mempool[n] \notin StraysFor(j)
    <3>1. CallOK(mempool[n], ticks, DOMAIN jobs)
      BY DEF BookInv, Shape, CallsOK
    <3>2. QED
      BY <3>1 DEF CallOK, MarksFor, StraysFor, MarkCall, SubmitCall
  <2>2. QED
    BY <2>1 DEF Positions
<1>3. TicksWith(ticks, j) = {}
  <2>1. ASSUME NEW t \in KeeperTick PROVE ~IsOn(ticks[t].due, j)
    <3>1. TickOK(ticks[t], DOMAIN jobs)
      BY DEF BookInv, Shape
    <3>2. QED
      BY <3>1 DEF TickOK, IsOn
  <2>2. QED
    BY <2>1 DEF TicksWith
<1>4. TicksAt(ticks, Declaring, j) = {} /\ TicksAt(ticks, {"declared"}, j) = {}
  <2>1. ASSUME NEW t \in KeeperTick, ticks[t].pc \in Declaring PROVE Head(ticks[t].due) /= j
    <3>1. ticks[t].pc /= "idle"
      BY <2>1 DEF Declaring
    <3>2. QED
      BY <3>1, OnwardFacts DEF JobOf
  <2>2. QED
    BY <2>1 DEF TicksAt, Declaring
<1>5. QED
  BY <1>1, <1>2, <1>3, <1>4, FS_EmptySet
     DEF DeclaredIn, MarksSent, Strays, Holding, UnderWayIn, Unmarked, Count


LEMMA CreateJobAccounts == ASSUME BookInv, Accounts, CreateJob PROVE Accounts'
<1> DEFINE new == Len(jobs) + 1
<1>1. /\ DOMAIN jobs' = DOMAIN jobs \cup {new} /\ new \notin DOMAIN jobs
      /\ \A j \in DOMAIN jobs : jobs'[j] = jobs[j]
      /\ jobs'[new].runs = 0 /\ Len(jobs') <= Len(JobTerms)
  BY CreateJobFacts
<1>2. UNCHANGED <<now, intents, ticks, mempool, marks, deaths, giveUps, overlaps>>
  BY DEF CreateJob, clientVars
<1>3. marks[new] \in Nat
  <2>1. new \in Job
    <3>1. jobs \in Seq(JobRecord) /\ Len(jobs) < Len(JobTerms)
      BY DEF CreateJob, BookInv, NonceInv, Types
    <3> DEFINE Terms == [owner : Owner, kind : Kind, every : Nat \ {0}, maxRuns : Nat,
                         compiles : BOOLEAN]
    <3>2. JobTerms \in Seq(Terms)
      BY StandingOrdersAssumption
    <3> HIDE DEF Terms
    <3>3. Len(jobs) \in Nat /\ Len(JobTerms) \in Nat
      BY ONLY <3>1, <3>2
    <3>4. QED
      BY ONLY <3>1, <3>3 DEF new, Job
  <2>2. QED
    BY <2>1 DEF BookInv, Shape
<1> HIDE DEF new
<1>4. /\ DeclaredIn(intents, new) = 0 /\ MarksSent(mempool, new) = 0
      /\ Strays(mempool, new) = 0 /\ Holding(ticks, new) = 0
      /\ UnderWayIn(ticks, new) = 0 /\ Unmarked(ticks, new) = 0
  BY <1>1, NothingOfOthers
<1>5. Disturbances' = Disturbances /\ Disturbances \in Nat
  BY <1>2, SameCauses, JobNumbers
<1>6. Runs'
  <2>1. jobs'[new].runs + Unmarked(ticks, new) + MarksSent(mempool, new)
           <= DeclaredIn(intents, new) + marks[new]
    BY <1>1, <1>3, <1>4
  <2>2. QED
    BY <1>1, <1>2, <2>1 DEF Accounts, Runs
<1>7. Extra'
  <2>1. Gone(jobs'[new]) \in Nat /\ Waits(Holding(ticks, new), jobs'[new], now) \in Nat
    BY DEF Gone, Waits, One
  <2>2. DeclaredIn(intents, new) + Strays(mempool, new) + Holding(ticks, new)
           <= jobs'[new].runs + UnderWayIn(ticks, new) + Disturbances + Gone(jobs'[new])
              + Waits(Holding(ticks, new), jobs'[new], now)
    BY <1>1, <1>4, <1>5, <2>1
  <2>3. QED
    BY <1>1, <1>2, <1>5, <2>2 DEF Accounts, Extra
<1>8. QED
  BY <1>6, <1>7 DEF Accounts

\* A job that is cancelled has a run left: that is the cause its declarations have.
LEMMA CancelJobAccounts ==
    ASSUME BookInv, Limits, Accounts, NEW j \in DOMAIN jobs, CancelJob(j) PROVE Accounts'
<1>1. UNCHANGED <<now, intents, ticks, mempool, marks, deaths, giveUps, overlaps>>
  BY DEF CancelJob, clientVars
<1>2. /\ DOMAIN jobs' = DOMAIN jobs /\ \A k \in DOMAIN jobs : k /= j => jobs'[k] = jobs[k]
      /\ jobs'[j].runs = jobs[j].runs /\ jobs'[j].maxRuns = jobs[j].maxRuns
      /\ jobs[j].active /\ ~jobs'[j].active
  <2>1. jobs \in Seq(JobRecord) /\ jobs[j] \in JobRecord
    BY DEF BookInv, NonceInv, Types
  <2>2. QED
    BY <2>1 DEF CancelJob, JobRecord
<1>3. Disturbances' = Disturbances
  BY <1>1, SameCauses
<1>4. \A k \in DOMAIN jobs : jobs'[k].runs = jobs[k].runs
  BY <1>2
<1>5. Runs'
  BY <1>1, <1>2, <1>4 DEF Accounts, Runs
<1>6. ASSUME NEW k \in DOMAIN jobs
      PROVE  DeclaredIn(intents, k) + Strays(mempool, k) + Holding(ticks, k)
                <= jobs'[k].runs + UnderWayIn(ticks, k) + Disturbances + Gone(jobs'[k])
                   + Waits(Holding(ticks, k), jobs'[k], now)
  <2>1. DeclaredIn(intents, k) + Strays(mempool, k) + Holding(ticks, k)
           <= jobs[k].runs + UnderWayIn(ticks, k) + Disturbances + Gone(jobs[k])
              + Waits(Holding(ticks, k), jobs[k], now)
    BY DEF Accounts, Extra
  <2>2. CASE k /= j
    BY <1>2, <2>1, <2>2
  <2>3. CASE k = j
    <3>1. jobs[j].maxRuns = 0 \/ jobs[j].runs < jobs[j].maxRuns
      BY <1>2, JobNumbers DEF Limits, RunsOK
    <3>2. /\ Gone(jobs[k]) = 0 /\ Gone(jobs'[k]) = 1
          /\ Waits(Holding(ticks, k), jobs'[k], now) = 0
          /\ Waits(Holding(ticks, k), jobs[k], now) \in {0, 1}
      BY <1>2, <2>3, <3>1 DEF Gone, Waits, One, DueAt
    <3>3. /\ DeclaredIn(intents, k) \in Nat /\ Strays(mempool, k) \in Nat
          /\ Holding(ticks, k) \in Nat /\ UnderWayIn(ticks, k) \in Nat
          /\ jobs[k].runs \in Nat /\ Disturbances \in Nat
      BY CountsAreNumbers, JobNumbers
    <3>4. QED
      BY <1>4, <2>1, <3>2, <3>3
  <2>4. QED
    BY <2>2, <2>3
<1>7. Extra'
  BY <1>1, <1>2, <1>3, <1>6 DEF Extra
<1>8. QED
  BY <1>5, <1>7 DEF Accounts

\* Intents of requests are no declarations of jobs, and what was due stays due.
LEMMA ClientAccounts ==
    ASSUME BookInv, Accounts, ClientStep, UNCHANGED keeperVars PROVE Accounts'
<1>1. /\ UNCHANGED <<jobs, ticks, mempool, marks, deaths, giveUps, overlaps>>
      /\ now \in Nat /\ now' \in Nat /\ now <= now'
  BY ClientFacts DEF keeperVars, BookInv, NonceInv, Types
<1>2. ASSUME NEW j \in DOMAIN jobs PROVE DeclaredIn(intents', j) = DeclaredIn(intents, j)
  <2>1. CASE intents' = intents
    BY <2>1
  <2>2. ASSUME NEW x \in IntentRecord, intents' = Append(intents, x), ForRequest(x.what)
        PROVE  DeclaredIn(intents', j) = DeclaredIn(intents, j)
    <3>1. x.what /= <<"job", j>>
      BY <2>2 DEF ForRequest
    <3>2. DeclaredIn(intents', j) = DeclaredIn(intents, j) + One(x.what = <<"job", j>>)
      BY <2>2, IntentCounts
    <3>3. QED
      BY <3>1, <3>2, CountsAreNumbers DEF One
  <2>3. QED
    BY <2>1, <2>2, ClientFacts
<1>3. Disturbances' = Disturbances
  BY <1>1, SameCauses
<1>4. Runs'
  BY <1>1, <1>2 DEF Accounts, Runs
<1>5. ASSUME NEW j \in DOMAIN jobs
      PROVE  DeclaredIn(intents, j) + Strays(mempool, j) + Holding(ticks, j)
                <= jobs[j].runs + UnderWayIn(ticks, j) + Disturbances + Gone(jobs[j])
                   + Waits(Holding(ticks, j), jobs[j], now')
  <2>1. DeclaredIn(intents, j) + Strays(mempool, j) + Holding(ticks, j)
           <= jobs[j].runs + UnderWayIn(ticks, j) + Disturbances + Gone(jobs[j])
              + Waits(Holding(ticks, j), jobs[j], now)
    BY DEF Accounts, Extra
  <2>2. DueAt(jobs[j], now) => DueAt(jobs[j], now')
    BY <1>1, JobNumbers DEF DueAt
  <2>3. /\ Waits(Holding(ticks, j), jobs[j], now) \in {0, 1}
        /\ Waits(Holding(ticks, j), jobs[j], now') \in {0, 1}
        /\ Waits(Holding(ticks, j), jobs[j], now) <= Waits(Holding(ticks, j), jobs[j], now')
    BY <2>2 DEF Waits, One
  <2>4. /\ DeclaredIn(intents, j) \in Nat /\ Strays(mempool, j) \in Nat
        /\ Holding(ticks, j) \in Nat /\ UnderWayIn(ticks, j) \in Nat
        /\ jobs[j].runs \in Nat /\ Disturbances \in Nat /\ Gone(jobs[j]) \in Nat
    BY CountsAreNumbers, JobNumbers DEF Gone, One
  <2>5. QED
    BY <2>1, <2>3, <2>4
<1>6. Extra'
  BY <1>1, <1>2, <1>3, <1>5 DEF Extra
<1>7. QED
  BY <1>4, <1>6 DEF Accounts

LEMMA NextAccounts == BookInv /\ Limits /\ Accounts /\ [Next]_vars => Accounts'
<1> SUFFICES ASSUME BookInv, Limits, Accounts, [Next]_vars PROVE Accounts'
  OBVIOUS
<1>1. CASE UNCHANGED vars
  <2>1. UNCHANGED <<now, intents, jobs, ticks, mempool, marks, deaths, giveUps, overlaps>>
    BY <1>1 DEF vars, clientVars, keeperVars
  <2>2. Disturbances' = Disturbances
    BY <2>1, SameCauses
  <2>3. QED
    BY <2>1, <2>2 DEF Accounts, Runs, Extra
<1>2. CASE KeeperStep
  BY <1>2, StartTickAccounts, SendSubmitAccounts, SendMarkAccounts, DieAccounts, GiveUpAccounts,
     LandSubmitAccounts, LandMarkAccounts DEF KeeperStep
<1>3. CASE RegisterStep
  BY <1>3, CreateJobAccounts, CancelJobAccounts, MarkRunAccounts DEF RegisterStep
<1>4. CASE ClientStep /\ UNCHANGED keeperVars
  BY <1>4, ClientAccounts
<1>5. QED
  BY <1>1, <1>2, <1>3, <1>4 DEF Next

LEMMA AccountsHold == Spec => [](BookInv /\ Limits /\ Accounts)
BY BookInvHolds, InitLimits, NextLimits, InitAccounts, NextAccounts, PTL DEF Spec

\* No run is on the books that nobody declared, for every set of jobs and ticks: the
\* keeper marks a job only after a declaration of its own has landed (recurring.ts),
\* however many ticks die, overlap or give up.
THEOREM RunsWereDeclared == Spec => []NoRunWithoutDeclaration
<1>1. BookInv /\ Accounts => NoRunWithoutDeclaration
  <2> SUFFICES ASSUME BookInv, Accounts, NEW j \in DOMAIN jobs
               PROVE  jobs[j].runs <= Declared(j) + marks[j]
    BY DEF NoRunWithoutDeclaration
  <2>1. jobs[j].runs + Unmarked(ticks, j) + MarksSent(mempool, j)
           <= DeclaredIn(intents, j) + marks[j]
    BY DEF Accounts, Runs
  <2>2. /\ Unmarked(ticks, j) \in Nat /\ MarksSent(mempool, j) \in Nat
        /\ DeclaredIn(intents, j) \in Nat /\ Declared(j) = DeclaredIn(intents, j)
        /\ jobs[j].runs \in Nat /\ marks[j] \in Nat
    BY CountsAreNumbers, JobNumbers
  <2>3. QED
    BY <2>1, <2>2
<1>2. QED
  BY AccountsHold, <1>1, PTL

\* A declaration too many has a cause, for every set of jobs and ticks: a tick that
\* died, gave up on a receipt or overlapped another, a mark or a cancellation of the
\* owner (recurring.ts declares and marks in two transactions).
THEOREM ExtraRunsAreExplained == Spec => []ExtraRunsHaveACause
<1>1. BookInv /\ Limits /\ Accounts => ExtraRunsHaveACause
  <2> SUFFICES ASSUME BookInv, Limits, Accounts, NEW j \in DOMAIN jobs
               PROVE  LET causes == Disturbances + (IF Cancelled(j) THEN 1 ELSE 0)
                      IN  /\ Declared(j) <= jobs[j].runs + UnderWay(j) + causes
                          /\ jobs[j].maxRuns /= 0 => Declared(j) <= jobs[j].maxRuns + causes
    BY DEF ExtraRunsHaveACause
  <2>1. DeclaredIn(intents, j) + Strays(mempool, j) + Holding(ticks, j)
           <= jobs[j].runs + UnderWayIn(ticks, j) + Disturbances + Gone(jobs[j])
              + Waits(Holding(ticks, j), jobs[j], now)
    BY DEF Accounts, Extra
  <2>2. /\ DeclaredIn(intents, j) \in Nat /\ Declared(j) = DeclaredIn(intents, j)
        /\ Strays(mempool, j) \in Nat /\ Holding(ticks, j) \in Nat
        /\ UnderWayIn(ticks, j) \in Nat /\ UnderWay(j) = UnderWayIn(ticks, j)
        /\ UnderWayIn(ticks, j) <= Holding(ticks, j)
        /\ jobs[j].runs \in Nat /\ jobs[j].maxRuns \in Nat /\ Disturbances \in Nat
    BY CountsAreNumbers, JobNumbers
  <2>3. /\ Gone(jobs[j]) = IF Cancelled(j) THEN 1 ELSE 0
        /\ Waits(Holding(ticks, j), jobs[j], now) \in {0, 1}
        /\ Holding(ticks, j) = 0 => Waits(Holding(ticks, j), jobs[j], now) = 0
    BY DEF Gone, Waits, One, Cancelled
  <2>4. /\ Gone(jobs[j]) \in {0, 1}
        /\ Waits(Holding(ticks, j), jobs[j], now) <= Holding(ticks, j)
    BY <2>2, <2>3
  <2>5. Declared(j) <= jobs[j].runs + UnderWay(j) + (Disturbances + Gone(jobs[j]))
    BY <2>1, <2>2, <2>3, <2>4
  <2>6. ASSUME jobs[j].maxRuns /= 0
        PROVE  Declared(j) <= jobs[j].maxRuns + (Disturbances + Gone(jobs[j]))
    <3>1. Waits(Holding(ticks, j), jobs[j], now) = 1 => jobs[j].runs + 1 <= jobs[j].maxRuns
      BY <2>2, <2>6 DEF Waits, One, DueAt
    <3>2. jobs[j].runs <= jobs[j].maxRuns
      BY <2>6 DEF Limits, RunsOK
    <3>3. jobs[j].runs + Waits(Holding(ticks, j), jobs[j], now) <= jobs[j].maxRuns
      BY <2>2, <2>3, <3>1, <3>2
    <3>4. QED
      BY <2>1, <2>2, <2>3, <2>4, <3>3
  <2>7. QED
    BY <2>3, <2>5, <2>6
<1>2. QED
  BY AccountsHold, <1>1, PTL


-----------------------------------------------------------------------------
(* Until something goes wrong.                                               *)

\* No intent is dated ahead.
Dated == \A n \in DOMAIN intents : intents[n].at <= now

Held(run, j)   == \E t \in KeeperTick : IsOn(run[t].due, j)
InHand(run, j) == \E t \in KeeperTick : run[t].pc \in Declaring /\ Head(run[t].due) = j

\* One tick runs, and it waits for every call.
Alone(run)     == \A t, u \in KeeperTick : run[t].pc /= "idle" /\ run[u].pc /= "idle" => t = u
Awaited(calls) == \A n \in DOMAIN calls : calls[n].by /= Nobody

\* But for a cancellation the job is due.
Ripe(job, time) == job.nextRunAt <= time /\ (job.maxRuns /= 0 => job.runs < job.maxRuns)

\* What was declared is a period old when the job is due next, or is about to be
\* marked, or was the last of a job that is over.
Paced(j, list, job, run) ==
    \A n \in DOMAIN list : list[n].what = <<"job", j>> =>
       \/ list[n].at + job.every <= job.nextRunAt
       \/ InHand(run, j)
       \/ ~job.active /\ ~Held(run, j)

Spaced(j, list, every) ==
    \A n, k \in DOMAIN list :
       list[n].what = <<"job", j>> /\ list[k].what = <<"job", j>> /\ n < k
       => list[k].at >= list[n].at + every

CalmBook(run, calls, list, book, time) ==
    /\ Alone(run) /\ Awaited(calls)
    /\ \A j \in DOMAIN book :
          /\ Held(run, j) => Ripe(book[j], time)
          /\ Paced(j, list, book[j], run)
          /\ Spaced(j, list, book[j].every)

Calm == Disturbances = 0 => CalmBook(ticks, mempool, intents, jobs, now)

LEMMA InitCalm == Init => Dated /\ Calm
BY DEF Init, SubmissionInit, Dated, Calm, CalmBook, Alone, Awaited, Held, Paced, Spaced, Idle

LEMMA NextDated == BookInv /\ Dated /\ [Next]_vars => Dated'
<1> SUFFICES ASSUME BookInv, Dated, [Next]_vars PROVE Dated'
  OBVIOUS
<1>1. intents \in Seq(IntentRecord) /\ now \in Nat
  BY DEF BookInv, NonceInv, Types
<1>2. ASSUME NEW n \in DOMAIN intents PROVE intents[n].at \in Nat
  <2>1. intents[n] \in IntentRecord
    BY <1>1
  <2>2. QED
    BY <2>1 DEF IntentRecord
<1>3. CASE UNCHANGED <<now, intents>>
  BY <1>3 DEF Dated
<1>4. ASSUME NEW m \in MessageRecord, intents' = Opened(m), now' = now PROVE Dated'
  <2> DEFINE x == [owner |-> m.owner, what |-> m.what, nonce |-> m.nonce,
                   closes |-> m.closes, at |-> now]
  <2>1. x.at = now /\ intents' = Append(intents, x)
    BY <1>4 DEF Opened
  <2> HIDE DEF x
  <2>2. \A n \in DOMAIN intents' :
           intents'[n] = x \/ (n \in DOMAIN intents /\ intents'[n] = intents[n])
    BY <1>1, <2>1
  <2>3. QED
    BY <1>1, <1>4, <2>1, <2>2 DEF Dated
<1>5. CASE KeeperStep
  <2>1. CASE LandSubmit
    <3>1. Head(mempool).msg \in MessageRecord
      BY <2>1, LandSubmitTicks DEF SubmitCall
    <3>2. /\ now' = now
          /\ intents' = intents \/ intents' = Opened(Head(mempool).msg)
      BY <2>1 DEF LandSubmit
    <3>3. QED
      BY <1>3, <1>4, <3>1, <3>2
  <2>2. CASE ~LandSubmit
    BY <1>3, <1>5, <2>2 DEF KeeperStep, StartTick, SendSubmit, SendMark, Die, GiveUp, LandMark,
       clientVars
  <2>3. QED
    BY <2>1, <2>2
<1>6. CASE RegisterStep
  BY <1>3, <1>6 DEF RegisterStep, CreateJob, CancelJob, MarkRun, clientVars
<1>7. CASE ClientStep
  <2>1. ASSUME NEW m \in messages, SubmitFor(m) PROVE Dated'
    BY <1>4, <2>1 DEF SubmitFor, BookInv, NonceInv, Types
  <2>2. ASSUME NEW q \in Request, FallBack(q) PROVE Dated'
    <3> DEFINE m == Message(q.owner, q.owner, q.kind, <<"request", q>>, now + Window, -1)
               x == [owner |-> m.owner, what |-> m.what, nonce |-> m.nonce,
                     closes |-> m.closes, at |-> now]
    <3>1. now' = now /\ (intents' = intents \/ intents' = Append(intents, x))
      BY <2>2 DEF FallBack, Opened
    <3>2. x.at = now
      OBVIOUS
    <3> HIDE DEF x
    <3>3. CASE intents' = intents
      BY <1>3, <3>1, <3>3
    <3>4. CASE intents' = Append(intents, x)
      <4>1. \A n \in DOMAIN intents' :
               intents'[n] = x \/ (n \in DOMAIN intents /\ intents'[n] = intents[n])
        BY <1>1, <3>4
      <4>2. QED
        BY <1>1, <3>1, <3>2, <4>1 DEF Dated
    <3>5. QED
      BY <3>1, <3>3, <3>4
  <2>3. ASSUME NEW o \in Owner, NEW g \in Grant, AuthorizeSession(o, g) \/ SignSession(o, g)
        PROVE  Dated'
    BY <1>3, <2>3 DEF AuthorizeSession, SignSession
  <2>4. ASSUME NEW s \in grants, AuthorizeSessionFor(s) PROVE Dated'
    BY <1>3, <2>4 DEF AuthorizeSessionFor
  <2>5. ASSUME NEW o \in Owner, RevokeSession(o) PROVE Dated'
    BY <1>3, <2>5 DEF RevokeSession
  <2>6. ASSUME NEW q \in Request, AskRelay(q) \/ RelayAnswers(q) PROVE Dated'
    BY <1>3, <2>6 DEF AskRelay, RelayAnswers
  <2>7. ASSUME Tick PROVE Dated'
    <3>1. now' = now + 1 /\ intents' = intents
      BY <2>7 DEF Tick
    <3>2. QED
      BY <1>1, <1>2, <3>1 DEF Dated
  <2>8. QED
    BY <1>7, <2>1, <2>2, <2>3, <2>4, <2>5, <2>6, <2>7 DEF ClientStep
<1>8. QED
  BY <1>3, <1>5, <1>6, <1>7 DEF Next, vars, clientVars

\* What a tick that runs alone holds, before and after it goes on.
LEMMA LoneTick ==
    ASSUME BookInv, NEW t \in KeeperTick, \A u \in KeeperTick : u /= t => ticks[u].pc = "idle",
           NEW r, Goes(ticks, t, r, ticks')
    PROVE  /\ Alone(ticks')
           /\ \A j : /\ Held(ticks, j) <=> On(t, j)
                     /\ Held(ticks', j) <=> IsOn(r.due, j)
                     /\ InHand(ticks, j) <=> ticks[t].pc \in Declaring /\ JobOf(t) = j
                     /\ InHand(ticks', j) <=> r.pc \in Declaring /\ Head(r.due) = j
<1>1. ticks'[t] = r /\ \A u \in KeeperTick : u /= t => ticks'[u] = ticks[u]
  BY DEF Goes
<1>2. ASSUME NEW u \in KeeperTick, u /= t
      PROVE  ticks[u].pc = "idle" /\ ticks[u].pc \notin Declaring /\ \A j : ~IsOn(ticks[u].due, j)
  <2>1. ticks[u].pc = "idle" /\ TickOK(ticks[u], DOMAIN jobs)
    BY <1>2 DEF BookInv, Shape
  <2>2. ticks[u].due = << >>
    BY <2>1 DEF TickOK
  <2>3. QED
    BY <2>1, <2>2 DEF IsOn, Declaring
<1>3. Alone(ticks')
  BY <1>1, <1>2 DEF Alone
<1>4. ASSUME NEW j
      PROVE  (Held(ticks, j) <=> On(t, j)) /\ (Held(ticks', j) <=> IsOn(r.due, j))
  BY <1>1, <1>2 DEF Held, On
<1>5. ASSUME NEW j
      PROVE  /\ InHand(ticks, j) <=> ticks[t].pc \in Declaring /\ JobOf(t) = j
             /\ InHand(ticks', j) <=> r.pc \in Declaring /\ Head(r.due) = j
  BY <1>1, <1>2 DEF InHand, JobOf
<1>6. QED
  BY <1>3, <1>4, <1>5

\* A tick goes on and the books stay as they are.
LEMMA TickStaysCalm ==
    ASSUME BookInv, CalmBook(ticks, mempool, intents, jobs, now),
           NEW t \in KeeperTick, \A u \in KeeperTick : u /= t => ticks[u].pc = "idle",
           NEW r, Goes(ticks, t, r, ticks'),
           Awaited(mempool'), UNCHANGED <<intents, jobs, now>>,
           \A j \in DOMAIN jobs :
              /\ IsOn(r.due, j) => On(t, j) \/ IsDue(j)
              /\ ticks[t].pc \in Declaring /\ JobOf(t) = j =>
                   \/ r.pc \in Declaring /\ Head(r.due) = j
                   \/ ~jobs[j].active /\ ~IsOn(r.due, j)
    PROVE  CalmBook(ticks', mempool', intents', jobs', now')
<1>1. /\ Alone(ticks')
      /\ \A j : /\ Held(ticks, j) <=> On(t, j)
                /\ Held(ticks', j) <=> IsOn(r.due, j)
                /\ InHand(ticks, j) <=> ticks[t].pc \in Declaring /\ JobOf(t) = j
                /\ InHand(ticks', j) <=> r.pc \in Declaring /\ Head(r.due) = j
  BY LoneTick
<1>2. ASSUME NEW j \in DOMAIN jobs
      PROVE  /\ Held(ticks', j) => Ripe(jobs[j], now)
             /\ Paced(j, intents, jobs[j], ticks')
             /\ Spaced(j, intents, jobs[j].every)
  <2>1. /\ Held(ticks, j) => Ripe(jobs[j], now)
        /\ Paced(j, intents, jobs[j], ticks)
        /\ Spaced(j, intents, jobs[j].every)
    BY DEF CalmBook
  <2>2. IsDue(j) => Ripe(jobs[j], now)
    BY JobNumbers DEF IsDue, Ripe, BookInv, NonceInv, Types
  <2>3. Held(ticks', j) => Held(ticks, j) \/ IsDue(j)
    BY <1>1
  <2>4. ~jobs[j].active => ~IsDue(j)
    BY DEF IsDue
  <2>5. InHand(ticks, j) => InHand(ticks', j) \/ (~jobs[j].active /\ ~Held(ticks', j))
    BY <1>1
  <2>6. Paced(j, intents, jobs[j], ticks')
    BY <2>1, <2>3, <2>4, <2>5 DEF Paced
  <2>7. QED
    BY <2>1, <2>2, <2>3, <2>6
<1>3. QED
  BY <1>1, <1>2 DEF CalmBook


LEMMA StartTickCalm ==
    ASSUME BookInv, Calm, Disturbances' = 0, NEW t \in KeeperTick, StartTick(t)
    PROVE  CalmBook(ticks', mempool', intents', jobs', now')
<1> DEFINE overlap == \E u \in KeeperTick : ticks[u].pc /= "idle"
<1>1. /\ UNCHANGED <<intents, jobs, now, mempool, marks, deaths, giveUps>>
      /\ overlaps' = IF overlap THEN overlaps + 1 ELSE overlaps
      /\ ticks[t].pc = "idle"
  BY DEF StartTick, clientVars
<1> HIDE DEF overlap
<1>2. ~overlap /\ Disturbances = 0
  BY <1>1, SameMarks, JobNumbers DEF Disturbances
<1>3. \A u \in KeeperTick : ticks[u].pc = "idle"
  BY <1>2 DEF overlap
<1>4. PICK n \in 1 .. Cap : \E due \in [1 .. n -> DueJobs] :
         IsDueIds(due) /\ ticks' = [ticks EXCEPT ![t] = [pc |-> "job", due |-> due]]
  BY DEF StartTick
<1>5. PICK due \in [1 .. n -> DueJobs] :
         IsDueIds(due) /\ ticks' = [ticks EXCEPT ![t] = [pc |-> "job", due |-> due]]
  BY <1>4
<1> DEFINE r == [pc |-> "job", due |-> due]
<1>6. Goes(ticks, t, r, ticks') /\ r.due = due
  BY <1>5, DueListOK, TickMoves DEF Goes
<1>7. \A j : IsOn(due, j) => IsDue(j)
  BY DEF IsOn, DueJobs
<1>8. CalmBook(ticks, mempool, intents, jobs, now) /\ Awaited(mempool')
  BY <1>1, <1>2 DEF Calm, CalmBook
<1> HIDE DEF r
<1>9. ticks[t].pc \notin Declaring
  BY <1>1 DEF Declaring
<1>10. QED
  BY <1>1, <1>3, <1>6, <1>7, <1>8, <1>9, TickStaysCalm

\* While nothing has gone wrong a tick that runs is the only one.
LEMMA OthersIdle ==
    ASSUME Alone(ticks), NEW t \in KeeperTick, ticks[t].pc /= "idle"
    PROVE  \A u \in KeeperTick : u /= t => ticks[u].pc = "idle"
BY DEF Alone

\* A job that is not to be marked any more was cancelled.
LEMMA NotDueIsOver ==
    ASSUME BookInv, CalmBook(ticks, mempool, intents, jobs, now),
           NEW t \in KeeperTick, ticks[t].pc /= "idle", ~IsDue(JobOf(t))
    PROVE  ~jobs[JobOf(t)].active
<1>1. JobOf(t) \in DOMAIN jobs /\ On(t, JobOf(t))
  BY OnwardFacts
<1>2. Held(ticks, JobOf(t))
  BY <1>1 DEF Held, On
<1>3. Ripe(jobs[JobOf(t)], now)
  BY <1>1, <1>2 DEF CalmBook
<1>4. QED
  BY <1>1, <1>3, JobNumbers DEF Ripe, IsDue, BookInv, NonceInv, Types

\* A tick leaves a job: it was not declared, or is over.
LEMMA LeaveCalm ==
    ASSUME BookInv, CalmBook(ticks, mempool, intents, jobs, now),
           NEW t \in KeeperTick, ticks[t].pc /= "idle", ticks' = [ticks EXCEPT ![t] = Onward(t)],
           Awaited(mempool'), UNCHANGED <<intents, jobs, now>>,
           ticks[t].pc \in Declaring => ~jobs[JobOf(t)].active
    PROVE  CalmBook(ticks', mempool', intents', jobs', now')
<1>1. \A u \in KeeperTick : u /= t => ticks[u].pc = "idle"
  BY OthersIdle DEF CalmBook
<1>2. /\ Goes(ticks, t, Onward(t), ticks')
      /\ \A j : IsOn(Onward(t).due, j) <=> On(t, j) /\ j /= JobOf(t)
  BY OnwardFacts, TickMoves DEF Goes
<1>3. QED
  BY <1>1, <1>2, TickStaysCalm

LEMMA AwaitedAppend ==
    ASSUME BookInv, Awaited(mempool), NEW c \in SubmitCall \cup MarkCall, c.by /= Nobody,
           mempool' = Append(mempool, c)
    PROVE  Awaited(mempool')
<1>1. mempool \in Seq(SubmitCall \cup MarkCall)
  BY DEF BookInv, NonceInv, Types
<1>2. \A n \in DOMAIN mempool' :
         mempool'[n] = c \/ (n \in DOMAIN mempool /\ mempool'[n] = mempool[n])
  BY <1>1
<1>3. QED
  BY <1>2 DEF Awaited

LEMMA SendSubmitCalm ==
    ASSUME BookInv, CalmBook(ticks, mempool, intents, jobs, now),
           NEW t \in KeeperTick, SendSubmit(t)
    PROVE  CalmBook(ticks', mempool', intents', jobs', now')
<1>1. /\ ticks[t].pc = "job" /\ ticks[t].pc /= "idle" /\ ticks[t].pc \notin Declaring
      /\ UNCHANGED <<intents, jobs, now>>
  BY DEF SendSubmit, clientVars, Declaring
<1>2. CASE CanDeclare(t)
  <2> DEFINE c == [by |-> t, call |-> "submitFor", msg |-> KeeperMessage(t)]
             r == WithPc(t, "submitted")
  <2>1. /\ mempool' = Append(mempool, c) /\ Goes(ticks, t, r, ticks')
        /\ r.due = ticks[t].due
    BY <1>1, <1>2, PcFacts, PcGoes DEF SendSubmit, Pc
  <2>2. c.by /= Nobody /\ c \in SubmitCall
    <3>1. KeeperMessage(t) \in MessageRecord /\ t \in Nat /\ t /= 0
      BY <1>2, KeeperMessageType DEF BookInv, KeeperTick, CanDeclare
    <3>2. QED
      BY <3>1 DEF SubmitCall, Nobody
  <2> HIDE DEF c, r
  <2>3. Awaited(mempool')
    BY <2>1, <2>2, AwaitedAppend DEF CalmBook
  <2>4. \A j : IsOn(r.due, j) <=> On(t, j)
    BY <2>1 DEF On
  <2>5. \A u \in KeeperTick : u /= t => ticks[u].pc = "idle"
    BY <1>1, OthersIdle DEF CalmBook
  <2>6. QED
    BY <1>1, <2>1, <2>3, <2>4, <2>5, TickStaysCalm
<1>3. CASE ~CanDeclare(t)
  <2>1. ticks' = [ticks EXCEPT ![t] = Onward(t)] /\ Awaited(mempool')
    BY <1>3 DEF SendSubmit, CalmBook
  <2>2. QED
    BY <1>1, <2>1, LeaveCalm
<1>4. QED
  BY <1>2, <1>3

LEMMA SendMarkCalm ==
    ASSUME BookInv, CalmBook(ticks, mempool, intents, jobs, now),
           NEW t \in KeeperTick, SendMark(t)
    PROVE  CalmBook(ticks', mempool', intents', jobs', now')
<1>1. /\ ticks[t].pc = "declared" /\ ticks[t].pc /= "idle"
      /\ UNCHANGED <<intents, jobs, now>>
  BY DEF SendMark, clientVars
<1>2. CASE CanMark(JobOf(t))
  <2> DEFINE c == [by |-> t, call |-> "markRun", job |-> JobOf(t)]
             r == WithPc(t, "marked")
  <2>1. /\ mempool' = Append(mempool, c) /\ Goes(ticks, t, r, ticks')
        /\ r.pc = "marked" /\ r.due = ticks[t].due
    BY <1>1, <1>2, PcFacts, PcGoes DEF SendMark, Pc
  <2>2. c.by /= Nobody /\ c \in MarkCall
    <3>1. JobOf(t) \in Nat /\ t \in Nat /\ t /= 0
      BY <1>2 DEF CanMark, KeeperTick, BookInv, NonceInv, Types
    <3>2. QED
      BY <3>1 DEF MarkCall, Nobody
  <2> HIDE DEF c, r
  <2>3. Awaited(mempool')
    BY <2>1, <2>2, AwaitedAppend DEF CalmBook
  <2>4. /\ \A j : IsOn(r.due, j) <=> On(t, j)
        /\ r.pc \in Declaring /\ Head(r.due) = JobOf(t)
    BY <2>1 DEF On, Declaring, JobOf
  <2>5. \A u \in KeeperTick : u /= t => ticks[u].pc = "idle"
    BY <1>1, OthersIdle DEF CalmBook
  <2>6. QED
    BY <1>1, <2>1, <2>3, <2>4, <2>5, TickStaysCalm
<1>3. CASE ~CanMark(JobOf(t))
  <2>1. ticks' = [ticks EXCEPT ![t] = Onward(t)] /\ Awaited(mempool')
    BY <1>3 DEF SendMark, CalmBook
  <2>2. ~IsDue(JobOf(t))
    BY <1>1, <1>3, OnwardFacts DEF CanMark
  <2>3. ~jobs[JobOf(t)].active
    BY <1>1, <2>2, NotDueIsOver
  <2>4. QED
    BY <1>1, <2>1, <2>3, LeaveCalm
<1>4. QED
  BY <1>2, <1>3

\* The call that lands is awaited, and so are those behind it.
LEMMA AwaitedTail ==
    ASSUME BookInv, Awaited(mempool), mempool /= << >>, mempool' = Tail(mempool)
    PROVE  Awaited(mempool') /\ Head(mempool).by /= Nobody
<1>1. mempool \in Seq(SubmitCall \cup MarkCall)
  BY DEF BookInv, NonceInv, Types
<1>2. /\ 1 \in DOMAIN mempool /\ Head(mempool) = mempool[1]
      /\ \A n \in DOMAIN mempool' : n + 1 \in DOMAIN mempool /\ mempool'[n] = mempool[n + 1]
  BY <1>1
<1>3. QED
  BY <1>2 DEF Awaited

LEMMA OneMoreIntent ==
    ASSUME BookInv, NEW x \in IntentRecord, intents' = Append(intents, x)
    PROVE  \A n \in DOMAIN intents' :
              \/ n = Len(intents) + 1 /\ intents'[n] = x
              \/ n \in DOMAIN intents /\ n < Len(intents) + 1 /\ intents'[n] = intents[n]
<1>1. intents \in Seq(IntentRecord)
  BY DEF BookInv, NonceInv, Types
<1>2. QED
  BY <1>1

\* What was declared of j is not touched by intents of others.
LEMMA OthersIntent ==
    ASSUME BookInv, NEW x \in IntentRecord, intents' = Append(intents, x),
           NEW j, x.what /= <<"job", j>>, NEW run, NEW job,
           Paced(j, intents, job, run), Spaced(j, intents, job.every)
    PROVE  Paced(j, intents', job, run) /\ Spaced(j, intents', job.every)
<1>1. \A n \in DOMAIN intents' : intents'[n].what = <<"job", j>> =>
         n \in DOMAIN intents /\ intents'[n] = intents[n]
  BY OneMoreIntent
<1>2. Paced(j, intents', job, run)
  BY <1>1 DEF Paced
<1>3. Spaced(j, intents', job.every)
  BY <1>1 DEF Spaced
<1>4. QED
  BY <1>2, <1>3


\* A declaration that lands is a period behind the one before: the job was due, and
\* nobody else was marking it.
LEMMA DeclaredCalm ==
    ASSUME BookInv, CalmBook(ticks, mempool, intents, jobs, now),
           NEW t \in KeeperTick, ticks[t].pc = "submitted",
           NEW r, Goes(ticks, t, r, ticks'), r.pc = "declared", r.due = ticks[t].due,
           NEW x \in IntentRecord, intents' = Append(intents, x),
           x.what = <<"job", JobOf(t)>>, x.at = now,
           Awaited(mempool'), UNCHANGED <<jobs, now>>
    PROVE  CalmBook(ticks', mempool', intents', jobs', now')
<1>1. /\ Alone(ticks')
      /\ \A j : /\ Held(ticks, j) <=> On(t, j)
                /\ Held(ticks', j) <=> On(t, j)
                /\ ~InHand(ticks, j)
                /\ InHand(ticks', j) <=> JobOf(t) = j
  <2>1. \A u \in KeeperTick : u /= t => ticks[u].pc = "idle"
    BY OthersIdle DEF CalmBook
  <2>2. /\ Alone(ticks')
        /\ \A j : /\ Held(ticks, j) <=> On(t, j)
                  /\ Held(ticks', j) <=> IsOn(r.due, j)
                  /\ InHand(ticks, j) <=> ticks[t].pc \in Declaring /\ JobOf(t) = j
                  /\ InHand(ticks', j) <=> r.pc \in Declaring /\ Head(r.due) = j
    BY <2>1, LoneTick
  <2>3. Head(r.due) = JobOf(t) /\ \A j : IsOn(r.due, j) <=> On(t, j)
    BY DEF JobOf, On
  <2>4. r.pc \in Declaring /\ ticks[t].pc \notin Declaring
    BY DEF Declaring
  <2>5. QED
    BY <2>2, <2>3, <2>4
<1>2. ASSUME NEW j \in DOMAIN jobs
      PROVE  /\ Held(ticks, j) => Ripe(jobs[j], now)
             /\ Paced(j, intents, jobs[j], ticks)
             /\ Spaced(j, intents, jobs[j].every)
  BY DEF CalmBook
<1>3. ASSUME NEW j \in DOMAIN jobs, j /= JobOf(t)
      PROVE  /\ Paced(j, intents', jobs[j], ticks')
             /\ Spaced(j, intents', jobs[j].every)
  <2>1. Paced(j, intents, jobs[j], ticks') /\ Spaced(j, intents, jobs[j].every)
    BY <1>1, <1>2, <1>3 DEF Paced
  <2>2. x.what /= <<"job", j>>
    BY <1>3
  <2>3. QED
    BY <2>1, <2>2, OthersIntent
<1>4. ASSUME NEW j \in DOMAIN jobs, j = JobOf(t)
      PROVE  /\ Paced(j, intents', jobs[j], ticks')
             /\ Spaced(j, intents', jobs[j].every)
  <2>1. InHand(ticks', j) /\ Held(ticks, j)
    BY <1>1, <1>4, OnwardFacts
  <2>2. Paced(j, intents', jobs[j], ticks')
    BY <2>1 DEF Paced
  <2>3. /\ jobs[j].nextRunAt <= now
        /\ jobs[j].nextRunAt \in Nat
        /\ jobs[j].every \in Nat
        /\ now \in Nat
    BY <1>2, <2>1, JobNumbers DEF Ripe, BookInv, NonceInv, Types
  <2>4. ASSUME NEW n \in DOMAIN intents, intents[n].what = <<"job", j>>
        PROVE  x.at >= intents[n].at + jobs[j].every
    <3>1. intents[n].at + jobs[j].every <= jobs[j].nextRunAt
      BY <1>1, <1>2, <2>1, <2>4 DEF Paced
    <3>2. intents[n].at \in Nat
      <4>1. intents[n] \in IntentRecord
        BY DEF BookInv, NonceInv, Types
      <4>2. QED
        BY <4>1 DEF IntentRecord
    <3>3. QED
      BY <2>3, <3>1, <3>2
  <2>5. \A n \in DOMAIN intents' :
              \/ n = Len(intents) + 1 /\ intents'[n] = x
              \/ n \in DOMAIN intents /\ n < Len(intents) + 1 /\ intents'[n] = intents[n]
    BY OneMoreIntent
  <2>6. Len(intents) \in Nat /\ DOMAIN intents \subseteq Nat
    BY DEF BookInv, NonceInv, Types
  <2>7. ASSUME NEW n \in DOMAIN intents', NEW k \in DOMAIN intents',
               intents'[n].what = <<"job", j>>, intents'[k].what = <<"job", j>>, n < k
        PROVE  intents'[k].at >= intents'[n].at + jobs[j].every
    <3>1. n \in DOMAIN intents /\ intents'[n] = intents[n]
      BY <2>5, <2>6, <2>7
    <3>2. CASE k \in DOMAIN intents /\ intents'[k] = intents[k]
      BY <1>2, <2>7, <3>1, <3>2 DEF Spaced
    <3>3. CASE intents'[k] = x
      BY <2>4, <2>7, <3>1, <3>3
    <3>4. QED
      BY <2>5, <3>2, <3>3
  <2>8. Spaced(j, intents', jobs[j].every)
    BY <2>7 DEF Spaced
  <2>9. QED
    BY <2>2, <2>8
<1>5. QED
  BY <1>1, <1>2, <1>3, <1>4 DEF CalmBook

LEMMA LandSubmitCalm ==
    ASSUME BookInv, CalmBook(ticks, mempool, intents, jobs, now), LandSubmit
    PROVE  CalmBook(ticks', mempool', intents', jobs', now')
<1> DEFINE c == Head(mempool)
           t == c.by
           ok == CanSubmitFor(c.msg)
           r == WithPc(t, "declared")
           x == [owner |-> c.msg.owner, what |-> c.msg.what, nonce |-> c.msg.nonce,
                 closes |-> c.msg.closes, at |-> now]
<1>1. /\ mempool /= << >> /\ mempool' = Tail(mempool) /\ UNCHANGED <<jobs, now>>
      /\ intents' = IF ok THEN Append(intents, x) ELSE intents
  BY DEF LandSubmit, Opened
<1>2. Awaited(mempool') /\ t /= Nobody
  BY <1>1, AwaitedTail DEF CalmBook
<1>3. /\ c \in SubmitCall /\ t \in KeeperTick /\ ticks[t].pc = "submitted"
      /\ ticks' = [ticks EXCEPT ![t] = IF ok THEN r ELSE Onward(t)]
      /\ c.msg.what = <<"job", JobOf(t)>>
  BY <1>2, LandSubmitTicks DEF AfterSubmission
<1>4. x \in IntentRecord /\ x.what = c.msg.what /\ x.at = now
  <2>1. c.msg \in MessageRecord
    BY <1>3 DEF SubmitCall
  <2>2. /\ c.msg.owner \in Owner /\ c.msg.what \in What /\ c.msg.nonce \in Int
        /\ c.msg.closes \in Nat
    BY <2>1 DEF MessageRecord
  <2>3. now \in Nat
    BY DEF BookInv, NonceInv, Types
  <2>4. QED
    BY <2>2, <2>3 DEF IntentRecord
<1> HIDE DEF c, t, ok, r, x
<1>5. ticks[t].pc /= "idle" /\ ticks[t].pc \notin Declaring
  BY <1>3 DEF Declaring
<1>6. CASE ok
  <2>1. Goes(ticks, t, r, ticks') /\ r.pc = "declared" /\ r.due = ticks[t].due
    <3>1. /\ TickOK(WithPc(t, "declared"), DOMAIN jobs)
          /\ WithPc(t, "declared").pc = "declared" /\ WithPc(t, "declared").due = ticks[t].due
      BY <1>3, <1>5, PcFacts DEF Pc
    <3>2. ticks' = [ticks EXCEPT ![t] = WithPc(t, "declared")]
      BY <1>3, <1>6 DEF r
    <3>3. Goes(ticks, t, WithPc(t, "declared"), ticks')
      BY <1>3, <3>1, <3>2, TickMoves DEF Goes
    <3>4. QED
      BY <3>1, <3>3 DEF r
  <2>2. intents' = Append(intents, x) /\ x.what = <<"job", JobOf(t)>>
    BY <1>1, <1>3, <1>4, <1>6
  <2>3. QED
    BY <1>1, <1>2, <1>3, <1>4, <2>1, <2>2, DeclaredCalm
<1>7. CASE ~ok
  <2>1. ticks' = [ticks EXCEPT ![t] = Onward(t)] /\ intents' = intents
    BY <1>1, <1>3, <1>7
  <2>2. QED
    BY <1>1, <1>2, <1>3, <1>5, <2>1, LeaveCalm
<1>8. QED
  BY <1>6, <1>7

\* A job that is marked is due a period from now, later than all it was declared for.
LEMMA MarkedCalm ==
    ASSUME BookInv, Dated, CalmBook(ticks, mempool, intents, jobs, now),
           NEW t \in KeeperTick, ticks[t].pc /= "idle",
           NEW r, r = Onward(t), Goes(ticks, t, r, ticks'),
           jobs' = JobsAfterRun(JobOf(t)),
           Awaited(mempool'), UNCHANGED <<intents, now>>
    PROVE  CalmBook(ticks', mempool', intents', jobs', now')
<1> DEFINE i == JobOf(t)
<1>1. i \in DOMAIN jobs /\ On(t, i) /\ r.pc \notin Declaring
      /\ \A j : IsOn(r.due, j) <=> On(t, j) /\ j /= i
  BY OnwardFacts DEF Declaring
<1>2. \A u \in KeeperTick : u /= t => ticks[u].pc = "idle"
  BY OthersIdle DEF CalmBook
<1>3. /\ Alone(ticks')
      /\ \A j : /\ Held(ticks, j) <=> On(t, j)
                /\ Held(ticks', j) <=> On(t, j) /\ j /= i
                /\ InHand(ticks, j) => i = j
  BY <1>1, <1>2, LoneTick
<1>4. /\ DOMAIN jobs' = DOMAIN jobs /\ \A k \in DOMAIN jobs : k /= i => jobs'[k] = jobs[k]
      /\ jobs'[i].nextRunAt = now + jobs[i].every /\ jobs'[i].every = jobs[i].every
  BY <1>1, JobsAfterRunFacts
<1> HIDE DEF i
<1>5. ASSUME NEW j \in DOMAIN jobs, j /= i
      PROVE  /\ Held(ticks', j) => Ripe(jobs[j], now)
             /\ Paced(j, intents, jobs[j], ticks')
             /\ Spaced(j, intents, jobs[j].every)
  <2>1. /\ Held(ticks, j) => Ripe(jobs[j], now)
        /\ Paced(j, intents, jobs[j], ticks)
        /\ Spaced(j, intents, jobs[j].every)
    BY DEF CalmBook
  <2>2. Paced(j, intents, jobs[j], ticks')
    BY <1>3, <1>5, <2>1 DEF Paced
  <2>3. QED
    BY <1>3, <2>1, <2>2
<1>6. /\ ~Held(ticks', i) /\ Paced(i, intents, jobs'[i], ticks')
      /\ Spaced(i, intents, jobs'[i].every)
  <2>1. ASSUME NEW n \in DOMAIN intents
        PROVE  intents[n].at + jobs'[i].every <= jobs'[i].nextRunAt
    <3>1. intents[n].at \in Nat /\ intents[n].at <= now
      <4>1. intents[n] \in IntentRecord
        BY DEF BookInv, NonceInv, Types
      <4>2. QED
        BY <4>1 DEF IntentRecord, Dated
    <3>2. jobs[i].every \in Nat /\ now \in Nat
      BY <1>1, JobNumbers DEF BookInv, NonceInv, Types
    <3>3. QED
      BY <1>4, <3>1, <3>2
  <2>2. Paced(i, intents, jobs'[i], ticks')
    BY <2>1 DEF Paced
  <2>3. Spaced(i, intents, jobs[i].every)
    BY <1>1 DEF CalmBook
  <2>4. QED
    BY <1>3, <1>4, <2>2, <2>3
<1>7. QED
  BY <1>3, <1>4, <1>5, <1>6 DEF CalmBook

LEMMA LandMarkCalm ==
    ASSUME BookInv, Dated, CalmBook(ticks, mempool, intents, jobs, now), LandMark
    PROVE  CalmBook(ticks', mempool', intents', jobs', now')
<1> DEFINE c == Head(mempool)
           t == c.by
<1>1. /\ mempool /= << >> /\ mempool' = Tail(mempool) /\ UNCHANGED <<intents, now>>
      /\ jobs' = IF CanMark(c.job) THEN JobsAfterRun(c.job) ELSE jobs
  BY DEF LandMark, clientVars
<1>2. Awaited(mempool') /\ t /= Nobody
  BY <1>1, AwaitedTail DEF CalmBook
<1>3. /\ t \in KeeperTick /\ ticks[t].pc = "marked"
      /\ ticks' = [ticks EXCEPT ![t] = Onward(t)]
      /\ c.job = JobOf(t) /\ JobOf(t) \in DOMAIN jobs
  BY <1>2, LandMarkTicks
<1> HIDE DEF c, t
<1>4. ticks[t].pc /= "idle"
  BY <1>3
<1>5. CASE CanMark(c.job)
  <2>1. Goes(ticks, t, Onward(t), ticks')
    BY <1>3, <1>4, OnwardFacts, TickMoves DEF Goes
  <2>2. jobs' = JobsAfterRun(JobOf(t))
    BY <1>1, <1>3, <1>5
  <2>3. QED
    BY <1>1, <1>2, <1>3, <1>4, <2>1, <2>2, MarkedCalm
<1>6. CASE ~CanMark(c.job)
  <2>1. jobs' = jobs /\ ~IsDue(JobOf(t))
    BY <1>1, <1>3, <1>6 DEF CanMark
  <2>2. ~jobs[JobOf(t)].active
    BY <1>3, <1>4, <2>1, NotDueIsOver
  <2>3. QED
    BY <1>1, <1>2, <1>3, <1>4, <2>1, <2>2, LeaveCalm
<1>7. QED
  BY <1>5, <1>6


LEMMA CreateJobCalm ==
    ASSUME BookInv, CalmBook(ticks, mempool, intents, jobs, now), CreateJob
    PROVE  CalmBook(ticks', mempool', intents', jobs', now')
<1> DEFINE new == Len(jobs) + 1
<1>1. /\ DOMAIN jobs' = DOMAIN jobs \cup {new} /\ new \notin DOMAIN jobs
      /\ \A j \in DOMAIN jobs : jobs'[j] = jobs[j]
  BY CreateJobFacts
<1>2. UNCHANGED <<now, intents, ticks, mempool>>
  BY DEF CreateJob, clientVars
<1> HIDE DEF new
<1>3. ~Held(ticks, new)
  <2>1. ASSUME NEW t \in KeeperTick PROVE ~IsOn(ticks[t].due, new)
    <3>1. TickOK(ticks[t], DOMAIN jobs)
      BY DEF BookInv, Shape
    <3>2. QED
      BY <1>1, <3>1 DEF TickOK, IsOn
  <2>2. QED
    BY <2>1 DEF Held
<1>4. \A n \in DOMAIN intents : intents[n].what /= <<"job", new>>
  <2>1. ASSUME NEW n \in DOMAIN intents PROVE intents[n].what /= <<"job", new>>
    <3>1. ForOne(intents[n].what, DOMAIN jobs)
      BY DEF BookInv, Shape
    <3>2. QED
      BY <1>1, <3>1 DEF ForOne, ForRequest
  <2>2. QED
    BY <2>1
<1>5. Paced(new, intents, jobs'[new], ticks) /\ Spaced(new, intents, jobs'[new].every)
  BY <1>4 DEF Paced, Spaced
<1>6. QED
  BY <1>1, <1>2, <1>3, <1>5 DEF CalmBook

LEMMA CancelJobCalm ==
    ASSUME BookInv, CalmBook(ticks, mempool, intents, jobs, now),
           NEW j \in DOMAIN jobs, CancelJob(j)
    PROVE  CalmBook(ticks', mempool', intents', jobs', now')
<1>1. UNCHANGED <<now, intents, ticks, mempool>>
  BY DEF CancelJob, clientVars
<1>2. /\ DOMAIN jobs' = DOMAIN jobs /\ \A k \in DOMAIN jobs : k /= j => jobs'[k] = jobs[k]
      /\ jobs'[j].runs = jobs[j].runs /\ jobs'[j].maxRuns = jobs[j].maxRuns
      /\ jobs'[j].nextRunAt = jobs[j].nextRunAt /\ jobs'[j].every = jobs[j].every
      /\ ~jobs'[j].active
  <2>1. jobs \in Seq(JobRecord) /\ jobs[j] \in JobRecord
    BY DEF BookInv, NonceInv, Types
  <2>2. QED
    BY <2>1 DEF CancelJob, JobRecord
<1>3. /\ Held(ticks, j) => Ripe(jobs'[j], now)
      /\ Paced(j, intents, jobs'[j], ticks) /\ Spaced(j, intents, jobs'[j].every)
  <2>1. /\ Held(ticks, j) => Ripe(jobs[j], now)
        /\ Paced(j, intents, jobs[j], ticks) /\ Spaced(j, intents, jobs[j].every)
    BY DEF CalmBook
  <2>2. Held(ticks, j) => Ripe(jobs'[j], now)
    BY <1>2, <2>1 DEF Ripe
  <2>3. Paced(j, intents, jobs'[j], ticks)
    BY <1>2, <2>1 DEF Paced
  <2>4. QED
    BY <1>2, <2>1, <2>2, <2>3
<1>4. QED
  BY <1>1, <1>2, <1>3 DEF CalmBook

LEMMA ClientCalm ==
    ASSUME BookInv, CalmBook(ticks, mempool, intents, jobs, now),
           ClientStep, UNCHANGED keeperVars
    PROVE  CalmBook(ticks', mempool', intents', jobs', now')
<1>1. /\ UNCHANGED <<jobs, ticks, mempool>>
      /\ now \in Nat /\ now' \in Nat /\ now <= now'
  BY ClientFacts DEF keeperVars, BookInv, NonceInv, Types
<1>2. ASSUME NEW j \in DOMAIN jobs
      PROVE  /\ Held(ticks, j) => Ripe(jobs[j], now')
             /\ Paced(j, intents', jobs[j], ticks) /\ Spaced(j, intents', jobs[j].every)
  <2>1. /\ Held(ticks, j) => Ripe(jobs[j], now)
        /\ Paced(j, intents, jobs[j], ticks) /\ Spaced(j, intents, jobs[j].every)
    BY DEF CalmBook
  <2>2. Held(ticks, j) => Ripe(jobs[j], now')
    BY <1>1, <2>1, JobNumbers DEF Ripe
  <2>3. ASSUME NEW x \in IntentRecord, intents' = Append(intents, x), ForRequest(x.what)
        PROVE  Paced(j, intents', jobs[j], ticks) /\ Spaced(j, intents', jobs[j].every)
    <3>1. x.what /= <<"job", j>>
      BY <2>3 DEF ForRequest
    <3>2. QED
      BY <2>1, <2>3, <3>1, OthersIntent
  <2>4. Paced(j, intents', jobs[j], ticks) /\ Spaced(j, intents', jobs[j].every)
    BY <2>1, <2>3, ClientFacts
  <2>5. QED
    BY <2>2, <2>4
<1>3. QED
  BY <1>1, <1>2 DEF CalmBook

\* What went wrong stays counted.
LEMMA NextCalm == BookInv /\ Dated /\ Calm /\ [Next]_vars => Calm'
<1> SUFFICES ASSUME BookInv, Dated, Calm, [Next]_vars, Disturbances' = 0
             PROVE  CalmBook(ticks', mempool', intents', jobs', now')
  BY DEF Calm
<1>1. ASSUME UNCHANGED <<deaths, giveUps, overlaps, marks>>
      PROVE  CalmBook(ticks, mempool, intents, jobs, now)
  BY <1>1, SameCauses DEF Calm
<1>2. CASE UNCHANGED vars
  <2>1. UNCHANGED <<ticks, mempool, intents, jobs, now, deaths, giveUps, overlaps, marks>>
    BY <1>2 DEF vars, clientVars, keeperVars
  <2>2. QED
    BY <1>1, <2>1
<1>3. CASE KeeperStep
  <2>1. ASSUME NEW t \in KeeperTick, SendSubmit(t) \/ SendMark(t)
        PROVE  CalmBook(ticks', mempool', intents', jobs', now')
    <3>1. UNCHANGED <<deaths, giveUps, overlaps, marks>>
      BY <2>1 DEF SendSubmit, SendMark
    <3>2. QED
      BY <1>1, <2>1, <3>1, SendSubmitCalm, SendMarkCalm
  <2>2. ASSUME LandSubmit \/ LandMark
        PROVE  CalmBook(ticks', mempool', intents', jobs', now')
    <3>1. UNCHANGED <<deaths, giveUps, overlaps, marks>>
      BY <2>2 DEF LandSubmit, LandMark
    <3>2. QED
      BY <1>1, <2>2, <3>1, LandSubmitCalm, LandMarkCalm
  <2>3. ASSUME NEW t \in KeeperTick, Die(t) \/ GiveUp(t) PROVE FALSE
    <3>1. /\ giveUps' + deaths' = giveUps + deaths + 1 /\ giveUps' \in Nat /\ deaths' \in Nat
          /\ UNCHANGED <<overlaps, marks>>
      BY <2>3, JobNumbers DEF Die, GiveUp
    <3>2. OwnerMarks' = OwnerMarks
      BY <3>1, SameMarks
    <3>3. QED
      BY <3>1, <3>2, JobNumbers DEF Disturbances
  <2>4. QED
    BY <1>3, <2>1, <2>2, <2>3, StartTickCalm DEF KeeperStep
<1>4. CASE RegisterStep
  <2>1. CASE CreateJob
    <3>1. UNCHANGED <<deaths, giveUps, overlaps, marks>>
      BY <2>1 DEF CreateJob
    <3>2. QED
      BY <1>1, <2>1, <3>1, CreateJobCalm
  <2>2. ASSUME NEW j \in DOMAIN jobs, CancelJob(j)
        PROVE  CalmBook(ticks', mempool', intents', jobs', now')
    <3>1. UNCHANGED <<deaths, giveUps, overlaps, marks>>
      BY <2>2 DEF CancelJob
    <3>2. QED
      BY <1>1, <2>2, <3>1, CancelJobCalm
  <2>3. ASSUME NEW j \in DOMAIN jobs, MarkRun(j) PROVE FALSE
    <3>1. /\ MayDisturb /\ marks' = [marks EXCEPT ![j] = @ + 1]
          /\ UNCHANGED <<deaths, giveUps, overlaps>>
      BY <2>3 DEF MarkRun
    <3>2. OwnerMarks' = OwnerMarks + 1
      BY <3>1, OneMoreMark
    <3>3. QED
      BY <3>1, <3>2, JobNumbers DEF Disturbances
  <2>4. QED
    BY <1>4, <2>1, <2>2, <2>3 DEF RegisterStep
<1>5. CASE ClientStep /\ UNCHANGED keeperVars
  <2>1. UNCHANGED <<deaths, giveUps, overlaps, marks>>
    BY <1>5 DEF keeperVars
  <2>2. QED
    BY <1>1, <1>5, <2>1, ClientCalm
<1>6. QED
  BY <1>2, <1>3, <1>4, <1>5 DEF Next

\* Once per period as long as nothing goes wrong, for every set of jobs: a tick that
\* runs alone declares only what is due, and marks it before anybody looks again
\* (recurring.ts; nextRunAt of RecurringRegistry.sol).
THEOREM PeriodsAreKeptUndisturbed == Spec => []OncePerPeriodUndisturbed
<1>1. BookInv /\ Calm => OncePerPeriodUndisturbed
  <2> SUFFICES ASSUME BookInv, Calm, Disturbances = 0, NEW j \in DOMAIN jobs,
                      NEW n \in Declarations("job", j), NEW k \in Declarations("job", j), n < k
               PROVE  intents[k].at >= intents[n].at + jobs[j].every
    BY DEF OncePerPeriodUndisturbed
  <2>1. Spaced(j, intents, jobs[j].every)
    BY DEF Calm, CalmBook
  <2>2. QED
    BY <2>1 DEF Spaced, Declarations
<1>2. QED
  BY BookInvHolds, InitCalm, NextDated, NextCalm, <1>1, PTL DEF Spec
=============================================================================
