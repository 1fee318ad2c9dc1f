-------------------------- MODULE SolverAgent_proofs ---------------------------
(***************************************************************************)
(* Proofs about the solver agent.                                          *)
(*                                                                         *)
(* What the agent remembers, where its passes are and what it has sent     *)
(* are three accounts of the same thing.  The invariants say how they      *)
(* agree: each call a pass waits for is under way once, in that pass's     *)
(* name (Waiting); the intents in settling are those of the passes in      *)
(* settlement, one pass each (Apart); while nothing disturbed it there is  *)
(* one pass at most, and a bid on the book is remembered (Calm); and of    *)
(* the reports that are out, those that may still hit a selection nobody   *)
(* tried are paid for by what set them loose (Charged).                    *)
(***************************************************************************)
EXTENDS SolverAgent, SequenceTheorems, FiniteSetTheorems, TLAPS

Phase == {"OPEN", "SELECTED", "FULFILLED", "CANCELLED", "EXPIRED"}
Call  == {"placeBid", "settle", "reportFailure"}
Place == {"idle", "next", "read", "bid"} \cup Sent \cup InSettlement

Knowledge == [phase : Phase \cup {"NONE"}, engaged : Solver \cup {Nil}, selection : Nat]
Run == [pc : Place, todo : SUBSET Intent, at : Intent \cup {Nil}, clock : Nat,
        record : Knowledge]
Transaction == [by : Pass \cup {Nobody}, call : Call, at : Intent]

-----------------------------------------------------------------------------
(* The invariants, as predicates of the state they speak of. *)

\* The registry's side and the history variables.
Books ==
    /\ phase \in [Intent -> Phase] /\ engaged \in [Intent -> Solver \cup {Nil}]
    /\ due \in [Intent -> Nat] /\ clock \in Nat
    /\ placed \in [Intent -> Nat] /\ selections \in [Intent -> 0 .. MaxSelections]
    /\ bidded \subseteq Intent
    /\ untried \in [Intent -> Nat]
    /\ tried \subseteq Intent \X Nat
    /\ \A t \in tried : t[2] <= selections[t[1]]
    /\ overlapped \in BOOLEAN
    /\ {restarts, giveUps, challenges, staleActs} \subseteq Nat

\* A pass is at an intent, except before its first and between two.
Somewhere(run) == run.pc \in {"idle", "next"} <=> run.at = Nil

Runs(ps) == ps \in [Pass -> Run] /\ \A p \in Pass : Somewhere(ps[p])

\* A run waits for a transaction of its intent.
WaitsFor(run, tx) ==
    /\ tx.at = run.at
    /\ \/ run.pc = "bidSent" /\ tx.call = "placeBid"
       \/ run.pc = "settleSent" /\ tx.call = "settle"
       \/ run.pc \in {"giveBackSent", "handBackSent"} /\ tx.call = "reportFailure"

Waiting(ps, q) ==
    /\ q \in Seq(Transaction)
    /\ \A n \in DOMAIN q : q[n].by /= Nobody => WaitsFor(ps[q[n].by], q[n])
    /\ \A n, k \in DOMAIN q : q[n].by = q[k].by /\ q[n].by /= Nobody => n = k
    /\ \A p \in Pass : ps[p].pc \in Sent => \E n \in DOMAIN q : q[n].by = p

Settles(run) == run.pc \in InSettlement

Apart(ps, S) ==
    /\ S = {ps[p].at : p \in {q \in Pass : Settles(ps[q])}}
    /\ \A p, r \in Pass : Settles(ps[p]) /\ Settles(ps[r]) /\ ps[p].at = ps[r].at => p = r

\* Without overlap, restarts and lost receipts.
Quiet ==
    /\ \A p, r \in Pass : passes[p].pc /= "idle" /\ passes[r].pc /= "idle" => p = r
    /\ \A n \in DOMAIN mempool : mempool[n].by /= Nobody
    /\ \A i \in Intent : placed[i] <= 1 /\ (placed[i] = 1 => i \in bidded)
    /\ \A p \in Pass : passes[p].pc \in {"bid", "bidSent"} => placed[passes[p].at] = 0

Calm == ~overlapped /\ restarts + giveUps = 0 => Quiet

-----------------------------------------------------------------------------
(* Reports gone astray. *)

Report_Of(tx, i) == tx.call = "reportFailure" /\ tx.at = i

\* The reports of an intent that no pass waits for any more.
Orphans(q, i) == {n \in DOMAIN q : Report_Of(q[n], i) /\ q[n].by = Nobody}
Loose(q, i) == Cardinality(Orphans(q, i))

\* They were sent before any that a pass waits for.
LooseFirst(q) ==
    \A n, k \in DOMAIN q :
       /\ q[n].call = "reportFailure" /\ q[k].call = "reportFailure"
       /\ q[n].at = q[k].at /\ n < k /\ q[k].by = Nobody
       => q[n].by = Nobody

\* A pass at the intent that may report without trying what is selected later.
SettlesAt(ps, i) == \E p \in Pass : Settles(ps[p]) /\ ps[p].at = i
PastTry(ps, i) ==
    \E p \in Pass : Settles(ps[p]) /\ ps[p].pc /= "settle" /\ ps[p].at = i

\* How many more selections that nobody tried the reports and passes there are may
\* hit: the first report of a selection that was tried is due, and every loose one
\* after it, and with a loose one the pass that began in between, is not.
Peril(ph, mine, isTried, loose, past, busy) ==
    IF ph \notin {"OPEN", "SELECTED"} THEN 0
    ELSE IF mine /\ isTried THEN loose
    ELSE IF mine THEN loose + (IF past \/ loose > 0 THEN 1 ELSE 0)
    ELSE loose + (IF busy \/ loose > 0 THEN 1 ELSE 0)

IsTried(i) == <<i, selections[i]>> \in tried

PerilOf(i) == Peril(phase[i], EngagedToMe(i), IsTried(i), Loose(mempool, i),
                    PastTry(passes, i), SettlesAt(passes, i))

Causes == restarts + giveUps + challenges + staleActs

ChargedAt(i) == untried[i] + PerilOf(i) <= Causes
Charged == \A i \in Intent : ChargedAt(i)

-----------------------------------------------------------------------------
(* Where a run goes. *)

\* A pass that moves on within its intent.
Moved(run, pc) == [run EXCEPT !.pc = pc]

\* A pass that is through with its intent.
Home(run) ==
    IF run.todo = {} THEN Idle
    ELSE [run EXCEPT !.pc = "next", !.at = Nil, !.record = NoRecord]

Away == Place \ {"idle", "next"}

LEMMA AwayIsAtAnIntent ==
  ASSUME NEW run \in Run, Somewhere(run), run.pc \in Away
  PROVE  run.at \in Intent
BY DEF Run, Somewhere, Away

LEMMA MovedRun ==
  ASSUME NEW run \in Run, Somewhere(run), run.pc \in Away, NEW pc \in Away
  PROVE  /\ Moved(run, pc) \in Run /\ Somewhere(Moved(run, pc))
         /\ Moved(run, pc).pc = pc /\ Moved(run, pc).at = run.at
BY DEF Run, Somewhere, Away, Moved

LEMMA IdleRun == Idle \in Run /\ Somewhere(Idle) /\ Idle.pc = "idle" /\ Idle.at = Nil
BY DEF Idle, Run, Somewhere, NoRecord, Knowledge, Place

LEMMA HomeRun ==
  ASSUME NEW run \in Run
  PROVE  /\ Home(run) \in Run /\ Somewhere(Home(run))
         /\ Home(run).pc \in {"idle", "next"} /\ Home(run).at = Nil
         /\ Home(run).todo = run.todo
<1>1. CASE run.todo = {}
  BY <1>1, IdleRun DEF Home, Idle
<1>2. CASE run.todo /= {}
  <2>1. NoRecord \in Knowledge
    BY DEF NoRecord, Knowledge
  <2> QED BY <1>2, <2>1 DEF Home, Run, Somewhere, Place
<1> QED BY <1>1, <1>2

LEMMA RunsMove ==
  ASSUME NEW ps, Runs(ps), NEW p \in Pass, NEW run \in Run, Somewhere(run),
         NEW ps2, ps2 = [ps EXCEPT ![p] = run]
  PROVE  /\ Runs(ps2) /\ ps2[p] = run
         /\ \A r \in Pass : r /= p => ps2[r] = ps[r]
BY DEF Runs

LEMMA PlaceFacts ==
  /\ Sent \subseteq Away /\ InSettlement \subseteq Away
  /\ {"read", "bid"} \subseteq Away
  /\ "idle" \notin Sent /\ "next" \notin Sent /\ "read" \notin Sent /\ "bid" \notin Sent
  /\ {"settle", "giveBack", "handBack"} \cap Sent = {}
  /\ {"idle", "next", "read", "bid", "bidSent"} \cap InSettlement = {}
BY DEF Sent, Away, InSettlement, Place

-----------------------------------------------------------------------------
(* What a pass waits for. *)

LEMMA WaitersAreSent ==
  ASSUME NEW run, NEW tx, WaitsFor(run, tx)
  PROVE  run.pc \in Sent /\ tx.at = run.at
BY DEF WaitsFor, Sent

LEMMA WaitingTypes ==
  ASSUME NEW ps, NEW q, Waiting(ps, q)
  PROVE  /\ q \in Seq(Transaction) /\ Len(q) \in Nat /\ DOMAIN q = 1 .. Len(q)
         /\ \A n \in DOMAIN q : q[n] \in Transaction
         /\ \A n \in DOMAIN q : q[n].by /= Nobody => q[n].by \in Pass
<1>1. q \in Seq(Transaction)
  BY DEF Waiting
<1>2. \A n \in DOMAIN q : q[n] \in Transaction
  BY <1>1
<1>3. \A n \in DOMAIN q : q[n].by /= Nobody => q[n].by \in Pass
  BY <1>2 DEF Transaction
<1> QED BY <1>1, <1>2, <1>3

LEMMA WaitingMove ==
  ASSUME NEW ps, NEW q, Waiting(ps, q), NEW p \in Pass, NEW ps2,
         ps[p].pc \notin Sent, ps2[p].pc \notin Sent,
         \A r \in Pass : r /= p => ps2[r] = ps[r]
  PROVE  Waiting(ps2, q)
<1>1. \A n \in DOMAIN q : q[n].by /= Nobody => q[n].by \in Pass
  BY WaitingTypes
<1>2. \A n \in DOMAIN q : q[n].by /= p
  <2> SUFFICES ASSUME NEW n \in DOMAIN q, q[n].by = p PROVE FALSE
    OBVIOUS
  <2>1. p /= Nobody
    BY DEF Pass, Nobody
  <2>2. WaitsFor(ps[p], q[n])
    BY <2>1 DEF Waiting
  <2> QED BY <2>2, WaitersAreSent
<1>3. \A n \in DOMAIN q : q[n].by /= Nobody => WaitsFor(ps2[q[n].by], q[n])
  BY <1>1, <1>2 DEF Waiting
<1>4. \A r \in Pass : ps2[r].pc \in Sent => \E n \in DOMAIN q : q[n].by = r
  BY DEF Waiting
<1> QED BY <1>3, <1>4 DEF Waiting

LEMMA WaitingSend ==
  ASSUME NEW ps, NEW q, Waiting(ps, q), NEW p \in Pass, NEW ps2,
         ps[p].pc \notin Sent, NEW tx \in Transaction, tx.by = p, WaitsFor(ps2[p], tx),
         \A r \in Pass : r /= p => ps2[r] = ps[r]
  PROVE  Waiting(ps2, Append(q, tx))
<1> DEFINE q2 == Append(q, tx)
<1>0. q \in Seq(Transaction) /\ Len(q) \in Nat /\ DOMAIN q = 1 .. Len(q)
  BY DEF Waiting
<1>1. /\ q2 \in Seq(Transaction) /\ DOMAIN q2 = 1 .. Len(q) + 1
      /\ q2[Len(q) + 1] = tx /\ \A n \in 1 .. Len(q) : q2[n] = q[n]
  BY <1>0
<1>2. \A n \in DOMAIN q : q[n].by /= Nobody => q[n].by \in Pass
  BY WaitingTypes
<1>3. \A n \in DOMAIN q : q[n].by /= p
  <2> SUFFICES ASSUME NEW n \in DOMAIN q, q[n].by = p PROVE FALSE
    OBVIOUS
  <2>1. p /= Nobody
    BY DEF Pass, Nobody
  <2>2. WaitsFor(ps[p], q[n])
    BY <2>1 DEF Waiting
  <2> QED BY <2>2, WaitersAreSent
<1> HIDE DEF q2
<1>4. \A n \in DOMAIN q2 : n \in 1 .. Len(q) \/ n = Len(q) + 1
  BY <1>0, <1>1
<1>5. ASSUME NEW n \in DOMAIN q2, q2[n].by /= Nobody PROVE WaitsFor(ps2[q2[n].by], q2[n])
  <2>1. CASE n = Len(q) + 1
    BY <1>1, <2>1
  <2>2. CASE n \in 1 .. Len(q)
    <3>1. q2[n] = q[n] /\ n \in DOMAIN q
      BY <1>0, <1>1, <2>2
    <3>2. q[n].by \in Pass /\ q[n].by /= p
      BY <1>2, <1>3, <1>5, <3>1
    <3>3. WaitsFor(ps[q[n].by], q[n])
      BY <1>5, <3>1 DEF Waiting
    <3> QED BY <3>1, <3>2, <3>3
  <2> QED BY <1>4, <2>1, <2>2
<1>6. ASSUME NEW n \in DOMAIN q2, NEW k \in DOMAIN q2, q2[n].by = q2[k].by,
             q2[n].by /= Nobody
      PROVE  n = k
  <2>1. CASE n = Len(q) + 1 /\ k = Len(q) + 1
    BY <2>1
  <2>2. CASE n \in 1 .. Len(q) /\ k \in 1 .. Len(q)
    BY <1>0, <1>1, <1>6, <2>2 DEF Waiting
  <2>3. CASE n \in 1 .. Len(q) /\ k = Len(q) + 1
    BY <1>0, <1>1, <1>3, <1>6, <2>3
  <2>4. CASE n = Len(q) + 1 /\ k \in 1 .. Len(q)
    BY <1>0, <1>1, <1>3, <1>6, <2>4
  <2> QED BY <1>4, <2>1, <2>2, <2>3, <2>4
<1>7. ASSUME NEW r \in Pass, ps2[r].pc \in Sent PROVE \E n \in DOMAIN q2 : q2[n].by = r
  <2>1. CASE r = p
    <3>1. Len(q) + 1 \in DOMAIN q2
      BY <1>0, <1>1
    <3> QED BY <1>1, <2>1, <3>1
  <2>2. CASE r /= p
    <3>1. ps[r].pc \in Sent
      BY <1>7, <2>2
    <3>2. PICK n \in DOMAIN q : q[n].by = r
      BY <3>1 DEF Waiting
    <3>3. n \in DOMAIN q2 /\ q2[n] = q[n]
      BY <1>0, <1>1
    <3> QED BY <3>2, <3>3
  <2> QED BY <2>1, <2>2
<1>8. Waiting(ps2, q2)
  BY <1>1, <1>5, <1>6, <1>7 DEF Waiting
<1> QED BY <1>8 DEF q2

LEMMA TailFacts ==
  ASSUME NEW q, q \in Seq(Transaction), q /= << >>
  PROVE  /\ Tail(q) \in Seq(Transaction) /\ Head(q) = q[1] /\ 1 \in DOMAIN q
         /\ Len(q) \in Nat \ {0} /\ DOMAIN q = 1 .. Len(q)
         /\ DOMAIN Tail(q) = 1 .. Len(q) - 1
         /\ \A n \in DOMAIN Tail(q) : n + 1 \in DOMAIN q /\ Tail(q)[n] = q[n + 1]
<1>1. Tail(q) \in Seq(Transaction) /\ Head(q) = q[1] /\ Len(q) \in Nat \ {0}
  BY EmptySeq
<1>2. DOMAIN q = 1 .. Len(q)
  OBVIOUS
<1>3. Len(Tail(q)) = Len(q) - 1 /\ DOMAIN Tail(q) = 1 .. Len(Tail(q))
  BY <1>1
<1>4. \A n \in 1 .. Len(q) - 1 : Tail(q)[n] = q[n + 1]
  BY <1>1
<1> QED BY <1>1, <1>2, <1>3, <1>4

\* The call at the head lands: the pass that waited for it moves on.
LEMMA WaitingTail ==
  ASSUME NEW ps, NEW q, Waiting(ps, q), q /= << >>, NEW ps2,
         Head(q).by /= Nobody => ps2[Head(q).by].pc \notin Sent,
         \A r \in Pass : r /= Head(q).by => ps2[r] = ps[r]
  PROVE  Waiting(ps2, Tail(q))
<1> DEFINE t == Tail(q)
           h == Head(q).by
<1>0. q \in Seq(Transaction)
  BY WaitingTypes
<1>1. /\ t \in Seq(Transaction) /\ h = q[1].by /\ 1 \in DOMAIN q
      /\ Len(q) \in Nat \ {0} /\ DOMAIN q = 1 .. Len(q)
      /\ DOMAIN t = 1 .. Len(q) - 1
      /\ \A n \in DOMAIN t : n + 1 \in DOMAIN q /\ t[n] = q[n + 1]
  BY <1>0, TailFacts
<1>2. \A n \in DOMAIN q : q[n].by /= Nobody => q[n].by \in Pass
  BY WaitingTypes
<1>9. \A n \in DOMAIN t : n \in Nat \ {0}
  BY <1>1
<1> HIDE DEF t
<1>3. ASSUME NEW n \in DOMAIN t, t[n].by /= Nobody
      PROVE  t[n].by \in Pass /\ t[n].by /= h /\ WaitsFor(ps2[t[n].by], t[n])
  <2>1. n + 1 \in DOMAIN q /\ t[n] = q[n + 1] /\ n + 1 /= 1
    BY <1>1, <1>9
  <2>2. t[n].by /= h
    BY <1>1, <1>3, <2>1 DEF Waiting
  <2>3. t[n].by \in Pass
    BY <1>2, <1>3, <2>1
  <2>4. WaitsFor(ps[t[n].by], t[n])
    BY <1>3, <2>1 DEF Waiting
  <2>5. ps2[t[n].by] = ps[t[n].by]
    BY <2>2, <2>3
  <2> QED BY <2>2, <2>3, <2>4, <2>5
<1>4. ASSUME NEW n \in DOMAIN t, NEW k \in DOMAIN t, t[n].by = t[k].by, t[n].by /= Nobody
      PROVE  n = k
  <2>1. n + 1 \in DOMAIN q /\ k + 1 \in DOMAIN q /\ t[n] = q[n + 1] /\ t[k] = q[k + 1]
    BY <1>1
  <2>2. n + 1 = k + 1
    BY <1>4, <2>1 DEF Waiting
  <2> QED BY <1>9, <2>2
<1>5. ASSUME NEW r \in Pass, ps2[r].pc \in Sent PROVE \E n \in DOMAIN t : t[n].by = r
  <2>1. r /= h
    BY <1>5 DEF Pass, Nobody
  <2>2. ps[r].pc \in Sent
    BY <1>5, <2>1
  <2>3. PICK n \in DOMAIN q : q[n].by = r
    BY <2>2 DEF Waiting
  <2>4. n /= 1 /\ n \in 1 .. Len(q) /\ n \in Nat
    BY <1>1, <2>1, <2>3
  <2>5. n - 1 \in DOMAIN t /\ (n - 1) + 1 = n
    BY <1>1, <2>4
  <2>6. t[n - 1] = q[n]
    BY <1>1, <2>5
  <2> QED BY <2>3, <2>5, <2>6
<1>6. Waiting(ps2, t)
  BY <1>1, <1>3, <1>4, <1>5 DEF Waiting
<1> QED BY <1>6 DEF t

\* Passes P stop waiting.
Forget(q, P) ==
    [n \in DOMAIN q |-> IF q[n].by \in P THEN [q[n] EXCEPT !.by = Nobody] ELSE q[n]]

LEMMA ForgetFacts ==
  ASSUME NEW q, q \in Seq(Transaction), NEW P
  PROVE  /\ Forget(q, P) \in Seq(Transaction) /\ DOMAIN Forget(q, P) = DOMAIN q
         /\ \A n \in DOMAIN q :
               /\ Forget(q, P)[n].call = q[n].call /\ Forget(q, P)[n].at = q[n].at
               /\ q[n].by \in P => Forget(q, P)[n].by = Nobody
               /\ q[n].by \notin P => Forget(q, P)[n] = q[n]
<1> DEFINE f == Forget(q, P)
<1>0. Len(q) \in Nat /\ DOMAIN q = 1 .. Len(q) /\ \A n \in DOMAIN q : q[n] \in Transaction
  OBVIOUS
<1>1. DOMAIN f = DOMAIN q
  BY DEF Forget
<1>2. ASSUME NEW n \in DOMAIN q
      PROVE  /\ f[n] \in Transaction
             /\ f[n].call = q[n].call /\ f[n].at = q[n].at
             /\ q[n].by \in P => f[n].by = Nobody
             /\ q[n].by \notin P => f[n] = q[n]
  <2>1. q[n] \in Transaction
    BY <1>0
  <2>2. CASE q[n].by \in P
    <3>1. f[n] = [q[n] EXCEPT !.by = Nobody]
      BY <2>2 DEF Forget
    <3> QED BY <2>1, <2>2, <3>1 DEF Transaction
  <2>3. CASE q[n].by \notin P
    <3>1. f[n] = q[n]
      BY <2>3 DEF Forget
    <3> QED BY <2>1, <2>3, <3>1
  <2> QED BY <2>2, <2>3
<1>3. f \in [1 .. Len(q) -> Transaction]
  BY <1>0, <1>1, <1>2 DEF Forget
<1>4. f \in Seq(Transaction)
  BY <1>0, <1>3
<1> QED BY <1>1, <1>2, <1>4

LEMMA WaitingForget ==
  ASSUME NEW ps, NEW q, Waiting(ps, q), NEW P \in SUBSET Pass, NEW ps2,
         \A p \in P : ps2[p].pc \notin Sent,
         \A r \in Pass \ P : ps2[r] = ps[r]
  PROVE  Waiting(ps2, Forget(q, P))
<1> DEFINE f == Forget(q, P)
<1>0. q \in Seq(Transaction) /\ \A n \in DOMAIN q : q[n].by /= Nobody => q[n].by \in Pass
  BY WaitingTypes
<1>1. /\ f \in Seq(Transaction) /\ DOMAIN f = DOMAIN q
      /\ \A n \in DOMAIN q : /\ q[n].by \in P => f[n].by = Nobody
                             /\ q[n].by \notin P => f[n] = q[n]
  BY <1>0, ForgetFacts
<1> HIDE DEF f
<1>2. \A n \in DOMAIN f : f[n].by /= Nobody => q[n].by \notin P /\ f[n] = q[n]
  BY <1>1
<1>3. ASSUME NEW n \in DOMAIN f, f[n].by /= Nobody PROVE WaitsFor(ps2[f[n].by], f[n])
  BY <1>0, <1>1, <1>2, <1>3 DEF Waiting
<1>4. ASSUME NEW n \in DOMAIN f, NEW k \in DOMAIN f, f[n].by = f[k].by, f[n].by /= Nobody
      PROVE  n = k
  <2>1. f[n] = q[n] /\ f[k] = q[k] /\ n \in DOMAIN q /\ k \in DOMAIN q
    BY <1>1, <1>2, <1>4
  <2> QED BY <1>4, <2>1 DEF Waiting
<1>5. ASSUME NEW r \in Pass, ps2[r].pc \in Sent PROVE \E n \in DOMAIN f : f[n].by = r
  <2>1. r \notin P /\ ps[r].pc \in Sent
    BY <1>5
  <2>2. PICK n \in DOMAIN q : q[n].by = r
    BY <2>1 DEF Waiting
  <2> QED BY <1>1, <2>1, <2>2
<1>6. Waiting(ps2, f)
  BY <1>1, <1>3, <1>4, <1>5 DEF Waiting
<1> QED BY <1>6 DEF f

-----------------------------------------------------------------------------
(* One pass in settlement at an intent. *)

LEMMA ApartStays ==
  ASSUME NEW ps, NEW S, Apart(ps, S), NEW p \in Pass, NEW ps2,
         \A r \in Pass : r /= p => ps2[r] = ps[r],
         Settles(ps2[p]) <=> Settles(ps[p]),
         Settles(ps2[p]) => ps2[p].at = ps[p].at
  PROVE  Apart(ps2, S)
<1>1. \A r \in Pass : /\ Settles(ps2[r]) <=> Settles(ps[r])
                      /\ Settles(ps2[r]) => ps2[r].at = ps[r].at
  OBVIOUS
<1>2. S = {ps2[r].at : r \in {r \in Pass : Settles(ps2[r])}}
  BY <1>1 DEF Apart
<1>3. \A a, r \in Pass : Settles(ps2[a]) /\ Settles(ps2[r]) /\ ps2[a].at = ps2[r].at => a = r
  BY <1>1 DEF Apart
<1> QED BY <1>2, <1>3 DEF Apart

LEMMA ApartEnters ==
  ASSUME NEW ps, NEW S, Apart(ps, S), NEW p \in Pass, NEW ps2,
         \A r \in Pass : r /= p => ps2[r] = ps[r],
         ~Settles(ps[p]), Settles(ps2[p]), ps2[p].at \notin S
  PROVE  Apart(ps2, S \cup {ps2[p].at})
<1>1. \A r \in Pass : Settles(ps[r]) => ps[r].at \in S /\ r /= p
  BY DEF Apart
<1>2. \A x \in S : \E r \in Pass : Settles(ps[r]) /\ ps[r].at = x
  BY DEF Apart
<1>3. \A x : x \in S \cup {ps2[p].at} => \E r \in Pass : Settles(ps2[r]) /\ ps2[r].at = x
  BY <1>1, <1>2
<1>4. \A r \in Pass : Settles(ps2[r]) => ps2[r].at \in S \cup {ps2[p].at}
  BY <1>1
<1>5. S \cup {ps2[p].at} = {ps2[r].at : r \in {r \in Pass : Settles(ps2[r])}}
  BY <1>3, <1>4
<1>6. \A a, r \in Pass : Settles(ps2[a]) /\ Settles(ps2[r]) /\ ps2[a].at = ps2[r].at => a = r
  BY <1>1 DEF Apart
<1> QED BY <1>5, <1>6 DEF Apart

LEMMA ApartLeaves ==
  ASSUME NEW ps, NEW S, Apart(ps, S), NEW p \in Pass, NEW ps2,
         \A r \in Pass : r /= p => ps2[r] = ps[r],
         Settles(ps[p]), ~Settles(ps2[p])
  PROVE  Apart(ps2, S \ {ps[p].at})
<1>1. \A r \in Pass : Settles(ps[r]) /\ ps[r].at = ps[p].at => r = p
  BY DEF Apart
<1>2. \A r \in Pass : Settles(ps2[r]) => r /= p /\ Settles(ps[r]) /\ ps2[r] = ps[r]
  OBVIOUS
<1>3. \A r \in Pass : Settles(ps2[r]) => ps2[r].at \in S \ {ps[p].at}
  BY <1>1, <1>2 DEF Apart
<1>4. ASSUME NEW x \in S \ {ps[p].at}
      PROVE  \E r \in Pass : Settles(ps2[r]) /\ ps2[r].at = x
  <2>1. PICK r \in Pass : Settles(ps[r]) /\ ps[r].at = x
    BY <1>4 DEF Apart
  <2> QED BY <1>4, <2>1
<1>5. S \ {ps[p].at} = {ps2[r].at : r \in {r \in Pass : Settles(ps2[r])}}
  BY <1>3, <1>4
<1>6. \A a, r \in Pass : Settles(ps2[a]) /\ Settles(ps2[r]) /\ ps2[a].at = ps2[r].at => a = r
  BY <1>2 DEF Apart
<1> QED BY <1>5, <1>6 DEF Apart

-----------------------------------------------------------------------------
(* Loose reports. *)

LEMMA OrphansFinite ==
  ASSUME NEW q, q \in Seq(Transaction), NEW i
  PROVE  IsFiniteSet(Orphans(q, i)) /\ Loose(q, i) \in Nat
<1>1. Len(q) \in Nat /\ DOMAIN q = 1 .. Len(q)
  OBVIOUS
<1>2. IsFiniteSet(1 .. Len(q))
  BY <1>1, FS_Interval
<1>3. Orphans(q, i) \in SUBSET (1 .. Len(q))
  BY <1>1 DEF Orphans
<1>4. IsFiniteSet(Orphans(q, i))
  BY <1>2, <1>3, FS_Subset
<1> QED BY <1>4, FS_CardinalityType DEF Loose

LEMMA LooseAppend ==
  ASSUME NEW q, q \in Seq(Transaction), NEW tx \in Transaction, tx.by /= Nobody, NEW i
  PROVE  Loose(Append(q, tx), i) = Loose(q, i)
<1> DEFINE a == Append(q, tx)
<1>1. /\ DOMAIN a = 1 .. Len(q) + 1 /\ DOMAIN q = 1 .. Len(q) /\ Len(q) \in Nat
      /\ a[Len(q) + 1] = tx /\ \A n \in 1 .. Len(q) : a[n] = q[n]
  OBVIOUS
<1> HIDE DEF a
<1>2. \A n \in DOMAIN a : n \in DOMAIN q \/ n = Len(q) + 1
  BY <1>1
<1>3. \A n \in DOMAIN q : n \in DOMAIN a
  BY <1>1
<1>4. Orphans(a, i) = Orphans(q, i)
  BY <1>1, <1>2, <1>3 DEF Orphans, Report_Of
<1> QED BY <1>4 DEF Loose, a

LEMMA LooseTail ==
  ASSUME NEW q, q \in Seq(Transaction), q /= << >>, NEW i
  PROVE  Loose(q, i) = Loose(Tail(q), i) +
             (IF Report_Of(Head(q), i) /\ Head(q).by = Nobody THEN 1 ELSE 0)
<1> DEFINE t == Tail(q)
           A == Orphans(q, i) \ {1}
           B == Orphans(t, i)
           f == [n \in A |-> n - 1]
<1>1. /\ t \in Seq(Transaction) /\ Head(q) = q[1] /\ 1 \in DOMAIN q
      /\ Len(q) \in Nat \ {0} /\ DOMAIN q = 1 .. Len(q)
      /\ DOMAIN t = 1 .. Len(q) - 1
      /\ \A n \in DOMAIN t : n + 1 \in DOMAIN q /\ t[n] = q[n + 1]
  BY TailFacts
<1>2. IsFiniteSet(Orphans(q, i)) /\ Loose(q, i) \in Nat /\ IsFiniteSet(B)
  BY <1>1, OrphansFinite
<1> HIDE DEF t
<1>3. \A n \in A : /\ n \in Nat /\ n - 1 \in DOMAIN t /\ t[n - 1] = q[n] /\ n - 1 \in B
  <2> SUFFICES ASSUME NEW n \in A
               PROVE  n \in Nat /\ n - 1 \in DOMAIN t /\ t[n - 1] = q[n] /\ n - 1 \in B
    OBVIOUS
  <2>1. n \in DOMAIN q /\ n /= 1 /\ Report_Of(q[n], i) /\ q[n].by = Nobody
    BY DEF Orphans
  <2>2. n \in 1 .. Len(q) /\ n \in Nat
    BY <1>1, <2>1
  <2>3. n - 1 \in DOMAIN t /\ (n - 1) + 1 = n
    BY <1>1, <2>1, <2>2
  <2>4. t[n - 1] = q[n]
    BY <1>1, <2>3
  <2>5. n - 1 \in B
    BY <2>1, <2>3, <2>4 DEF Orphans
  <2> QED BY <2>2, <2>3, <2>4, <2>5
<1>4. \A m \in B : m \in Nat /\ m + 1 \in A
  <2> SUFFICES ASSUME NEW m \in B PROVE m \in Nat /\ m + 1 \in A
    OBVIOUS
  <2>1. m \in DOMAIN t /\ Report_Of(t[m], i) /\ t[m].by = Nobody
    BY DEF Orphans
  <2>2. m \in Nat /\ m /= 0
    BY <1>1, <2>1
  <2>3. m + 1 \in DOMAIN q /\ t[m] = q[m + 1] /\ m + 1 /= 1
    BY <1>1, <2>1, <2>2
  <2> QED BY <2>1, <2>2, <2>3 DEF Orphans
<1>5. ExistsBijection(A, B)
  <2> HIDE DEF A, B
  <2>1. f \in [A -> B]
    BY <1>3
  <2>2. \A n, m \in A : f[n] = f[m] => n = m
    BY <1>3
  <2>3. \A m \in B : \E n \in A : f[n] = m
    <3> SUFFICES ASSUME NEW m \in B PROVE \E n \in A : f[n] = m
      OBVIOUS
    <3>1. m + 1 \in A /\ m \in Nat
      BY <1>4
    <3>2. f[m + 1] = m
      BY <3>1
    <3> QED BY <3>1, <3>2
  <2> HIDE DEF f
  <2>4. f \in Bijection(A, B)
    BY <2>1, <2>2, <2>3 DEF Bijection, Injection, Surjection, IsInjective
  <2> QED BY <2>4 DEF ExistsBijection
<1>6. IsFiniteSet(A) /\ Cardinality(A) = (IF 1 \in Orphans(q, i) THEN Loose(q, i) - 1
                                          ELSE Loose(q, i))
  BY <1>2, FS_RemoveElement DEF Loose
<1>7. Cardinality(B) = Cardinality(A)
  BY <1>5, <1>6, FS_Bijection
<1>8. 1 \in Orphans(q, i) <=> Report_Of(Head(q), i) /\ Head(q).by = Nobody
  BY <1>1 DEF Orphans
<1>9. Loose(t, i) = Cardinality(B)
  BY DEF Loose
<1> HIDE DEF A, B
<1>10. Loose(q, i) = Loose(t, i) + (IF 1 \in Orphans(q, i) THEN 1 ELSE 0)
  BY <1>2, <1>6, <1>7, <1>9
<1> QED BY <1>8, <1>10 DEF t

LEMMA LooseForget ==
  ASSUME NEW q, q \in Seq(Transaction), NEW P, NEW i
  PROVE  /\ (\A n \in DOMAIN q : Report_Of(q[n], i) => q[n].by \notin P)
               => Loose(Forget(q, P), i) = Loose(q, i)
         /\ (\A n, k \in DOMAIN q : Report_Of(q[n], i) /\ q[n].by \in P
                                    /\ Report_Of(q[k], i) /\ q[k].by \in P => n = k)
               => Loose(Forget(q, P), i) <= Loose(q, i) + 1
<1> DEFINE f == Forget(q, P)
<1>1. /\ f \in Seq(Transaction) /\ DOMAIN f = DOMAIN q
      /\ \A n \in DOMAIN q :
               /\ f[n].call = q[n].call /\ f[n].at = q[n].at
               /\ q[n].by \in P => f[n].by = Nobody
               /\ q[n].by \notin P => f[n] = q[n]
  BY ForgetFacts
<1>2. IsFiniteSet(Orphans(q, i)) /\ Loose(q, i) \in Nat
  BY OrphansFinite
<1> HIDE DEF f
<1>3. ASSUME \A n \in DOMAIN q : Report_Of(q[n], i) => q[n].by \notin P
      PROVE  Loose(f, i) = Loose(q, i)
  <2>1. Orphans(f, i) = Orphans(q, i)
    BY <1>1, <1>3 DEF Orphans, Report_Of
  <2> QED BY <2>1 DEF Loose
<1>4. ASSUME \A n, k \in DOMAIN q : Report_Of(q[n], i) /\ q[n].by \in P
                                    /\ Report_Of(q[k], i) /\ q[k].by \in P => n = k,
             NEW m \in DOMAIN q, Report_Of(q[m], i), q[m].by \in P
      PROVE  Loose(f, i) <= Loose(q, i) + 1
  <2>1. Orphans(f, i) \subseteq Orphans(q, i) \cup {m}
    BY <1>1, <1>4 DEF Orphans, Report_Of
  <2>2. /\ IsFiniteSet(Orphans(q, i) \cup {m})
        /\ Cardinality(Orphans(q, i) \cup {m})
             = IF m \in Orphans(q, i) THEN Loose(q, i) ELSE Loose(q, i) + 1
    BY <1>2, FS_AddElement DEF Loose
  <2>3. Cardinality(Orphans(f, i)) <= Cardinality(Orphans(q, i) \cup {m})
    BY <2>1, <2>2, FS_Subset
  <2>4. Loose(f, i) \in Nat
    BY <1>1, OrphansFinite
  <2>5. Loose(f, i) <= Cardinality(Orphans(q, i) \cup {m})
    BY <2>3 DEF Loose
  <2> QED BY <1>2, <2>2, <2>4, <2>5
<1>5. Loose(q, i) <= Loose(q, i) + 1
  BY <1>2
<1>6. (\A n \in DOMAIN q : Report_Of(q[n], i) => q[n].by \notin P)
        \/ \E m \in DOMAIN q : Report_Of(q[m], i) /\ q[m].by \in P
  OBVIOUS
<1> QED BY <1>3, <1>4, <1>5, <1>6 DEF f

LEMMA LooseFirstAppend ==
  ASSUME NEW q, q \in Seq(Transaction), LooseFirst(q),
         NEW tx \in Transaction, tx.by /= Nobody
  PROVE  LooseFirst(Append(q, tx))
<1> DEFINE a == Append(q, tx)
<1>1. /\ DOMAIN a = 1 .. Len(q) + 1 /\ DOMAIN q = 1 .. Len(q) /\ Len(q) \in Nat
      /\ a[Len(q) + 1] = tx /\ \A n \in 1 .. Len(q) : a[n] = q[n]
  OBVIOUS
<1> HIDE DEF a
<1>2. ASSUME NEW n \in DOMAIN a, NEW k \in DOMAIN a,
             a[n].call = "reportFailure", a[k].call = "reportFailure",
             a[n].at = a[k].at, n < k, a[k].by = Nobody
      PROVE  a[n].by = Nobody
  <2>1. k /= Len(q) + 1
    BY <1>1, <1>2
  <2>2. k \in DOMAIN q /\ n \in DOMAIN q
    BY <1>1, <1>2, <2>1
  <2> QED BY <1>1, <1>2, <2>2 DEF LooseFirst
<1>3. LooseFirst(a)
  BY <1>2 DEF LooseFirst
<1> QED BY <1>3 DEF a

LEMMA LooseFirstTail ==
  ASSUME NEW q, q \in Seq(Transaction), q /= << >>, LooseFirst(q)
  PROVE  LooseFirst(Tail(q))
<1> DEFINE t == Tail(q)
<1>1. /\ DOMAIN t = 1 .. Len(q) - 1 /\ Len(q) \in Nat
      /\ \A n \in DOMAIN t : n + 1 \in DOMAIN q /\ t[n] = q[n + 1]
  BY TailFacts
<1> HIDE DEF t
<1>2. ASSUME NEW n \in DOMAIN t, NEW k \in DOMAIN t,
             t[n].call = "reportFailure", t[k].call = "reportFailure",
             t[n].at = t[k].at, n < k, t[k].by = Nobody
      PROVE  t[n].by = Nobody
  <2>1. n + 1 < k + 1
    BY <1>1, <1>2
  <2> QED BY <1>1, <1>2, <2>1 DEF LooseFirst
<1>3. LooseFirst(t)
  BY <1>2 DEF LooseFirst
<1> QED BY <1>3 DEF t

\* A loose report at the head, or none: a report that a pass waits for lands when no
\* other of its intent is loose.
LEMMA NoneIsLoose ==
  ASSUME NEW q, q \in Seq(Transaction), q /= << >>, LooseFirst(q), NEW i,
         Report_Of(Head(q), i), Head(q).by /= Nobody
  PROVE  Loose(q, i) = 0
<1>1. Head(q) = q[1] /\ 1 \in DOMAIN q /\ DOMAIN q = 1 .. Len(q) /\ Len(q) \in Nat
  BY TailFacts
<1>2. ASSUME NEW n \in Orphans(q, i) PROVE FALSE
  <2>1. n \in DOMAIN q /\ Report_Of(q[n], i) /\ q[n].by = Nobody
    BY DEF Orphans
  <2>2. 1 < n
    BY <1>1, <2>1
  <2> QED BY <1>1, <2>1, <2>2 DEF LooseFirst, Report_Of
<1>3. Orphans(q, i) = {}
  BY <1>2
<1> QED BY <1>3, FS_EmptySet DEF Loose

LEMMA LooseFirstForget ==
  ASSUME NEW ps, NEW q, NEW S, Waiting(ps, q), Apart(ps, S), LooseFirst(q),
         NEW P \in SUBSET Pass
  PROVE  LooseFirst(Forget(q, P))
<1> DEFINE f == Forget(q, P)
<1>0. q \in Seq(Transaction) /\ \A n \in DOMAIN q : q[n].by /= Nobody => q[n].by \in Pass
  BY WaitingTypes
<1>1. /\ DOMAIN f = DOMAIN q
      /\ \A n \in DOMAIN q :
               /\ f[n].call = q[n].call /\ f[n].at = q[n].at
               /\ q[n].by \in P => f[n].by = Nobody
               /\ q[n].by \notin P => f[n] = q[n]
  BY <1>0, ForgetFacts
<1> HIDE DEF f
<1>2. ASSUME NEW n \in DOMAIN f, NEW k \in DOMAIN f,
             f[n].call = "reportFailure", f[k].call = "reportFailure",
             f[n].at = f[k].at, n < k, f[k].by = Nobody
      PROVE  f[n].by = Nobody
  <2>0. /\ n \in DOMAIN q /\ k \in DOMAIN q /\ q[n].call = "reportFailure"
        /\ q[k].call = "reportFailure" /\ q[n].at = q[k].at
    BY <1>1, <1>2
  <2>1. CASE q[n].by \in P
    BY <1>1, <2>0, <2>1
  <2>2. CASE q[n].by \notin P /\ q[k].by \notin P
    <3>1. q[k].by = Nobody
      BY <1>1, <1>2, <2>0, <2>2
    <3>2. q[n].by = Nobody
      BY <1>2, <2>0, <3>1 DEF LooseFirst
    <3> QED BY <1>1, <2>0, <2>2, <3>2
  <2>3. CASE q[n].by \notin P /\ q[k].by \in P /\ q[n].by /= Nobody
    <3>1. q[n].by \in Pass /\ q[k].by \in Pass /\ q[k].by /= Nobody
      BY <1>0, <2>0, <2>3 DEF Pass, Nobody
    <3>2. WaitsFor(ps[q[n].by], q[n]) /\ WaitsFor(ps[q[k].by], q[k])
      BY <2>0, <3>1, <2>3 DEF Waiting
    <3>3. /\ Settles(ps[q[n].by]) /\ Settles(ps[q[k].by])
          /\ ps[q[n].by].at = ps[q[k].by].at
      BY <2>0, <3>2 DEF WaitsFor, Settles, InSettlement
    <3>4. q[n].by = q[k].by
      BY <3>1, <3>3 DEF Apart
    <3> QED BY <2>3, <3>4
  <2>4. CASE q[n].by \notin P /\ q[n].by = Nobody
    BY <1>1, <2>0, <2>4
  <2> QED BY <2>1, <2>2, <2>3, <2>4
<1>3. LooseFirst(f)
  BY <1>2 DEF LooseFirst
<1> QED BY <1>3 DEF f

-----------------------------------------------------------------------------
(* The types of the books. *)

ShapeOf(ps, q, S) == Runs(ps) /\ Waiting(ps, q) /\ Apart(ps, S) /\ LooseFirst(q)

Shape == ShapeOf(passes, mempool, settling)

LEMMA ShapeFacts ==
  ASSUME Shape
  PROVE  /\ passes \in [Pass -> Run] /\ \A p \in Pass : Somewhere(passes[p])
         /\ mempool \in Seq(Transaction) /\ Waiting(passes, mempool)
         /\ Apart(passes, settling) /\ LooseFirst(mempool) /\ Runs(passes)
         /\ \A p \in Pass : passes[p].pc \in Away => passes[p].at \in Intent
BY AwayIsAtAnIntent DEF Shape, ShapeOf, Runs, Waiting

\* The call at the head, and the pass that waits for it.
LEMMA HeadFacts ==
  ASSUME Shape, mempool /= << >>
  PROVE  LET c == Head(mempool)
         IN  /\ c \in Transaction /\ c.at \in Intent /\ c.by \in Pass \cup {Nobody}
             /\ c.by /= Nobody => /\ c.by \in Pass /\ WaitsFor(passes[c.by], c)
                                  /\ passes[c.by].pc \in Sent /\ passes[c.by].pc \in Away
                                  /\ passes[c.by].at = c.at
<1>1. mempool \in Seq(Transaction) /\ Waiting(passes, mempool)
  BY ShapeFacts
<1>2. /\ 1 \in DOMAIN mempool /\ Head(mempool) = mempool[1]
      /\ mempool[1] \in Transaction
      /\ mempool[1].by /= Nobody => mempool[1].by \in Pass
  BY <1>1, TailFacts, WaitingTypes
<1>3. mempool[1].by /= Nobody => WaitsFor(passes[mempool[1].by], mempool[1])
  BY <1>1, <1>2 DEF Waiting
<1>4. mempool[1].by /= Nobody => /\ passes[mempool[1].by].pc \in Sent
                                 /\ passes[mempool[1].by].at = mempool[1].at
  BY <1>3, WaitersAreSent
<1>5. Sent \subseteq Away
  BY PlaceFacts
<1>6. mempool[1].at \in Intent /\ mempool[1].by \in Pass \cup {Nobody}
  BY <1>2 DEF Transaction
<1> QED BY <1>2, <1>3, <1>4, <1>5, <1>6

LEMMA TriedStays ==
  ASSUME Books, NEW i \in Intent
  PROVE  /\ Tried(i) \subseteq Intent \X Nat
         /\ \A t \in Tried(i) : t[2] <= selections[t[1]]
         /\ \A t \in Tried(i) : t \in tried \/ t = <<i, selections[i]>>
         /\ tried \subseteq Tried(i)
<1>0. selections[i] \in Nat
  BY SolverAgentAssumption DEF Books
<1>1. <<i, selections[i]>>[1] = i /\ <<i, selections[i]>>[2] = selections[i]
  OBVIOUS
<1>2. \A t \in Tried(i) : t \in tried \/ t = <<i, selections[i]>>
  BY DEF Tried
<1>3. Tried(i) \subseteq Intent \X Nat
  BY <1>0, <1>2 DEF Books
<1>4. \A t \in Tried(i) : t[2] <= selections[t[1]]
  BY <1>0, <1>1, <1>2 DEF Books
<1>5. tried \subseteq Tried(i)
  BY DEF Tried
<1> QED BY <1>2, <1>3, <1>4, <1>5

bookTypes == <<phase, engaged, due, clock, placed, selections, bidded, untried, tried,
               overlapped, restarts, giveUps, challenges, staleActs>>

LEMMA BooksUnchanged == Books /\ UNCHANGED bookTypes => Books'
BY DEF Books, bookTypes

LEMMA BooksSucceed ==
  ASSUME Books, Shape, NEW p \in Pass \cup {Nobody}, Succeeds(p) PROVE bidded' \subseteq Intent
<1>1. CASE p = Nobody
  BY <1>1 DEF Succeeds, Books, memoryVars
<1>2. CASE p \in Pass
  <2>1. p /= Nobody
    BY <1>2 DEF Pass, Nobody
  <2>2. passes[p].pc = "bidSent" => passes[p].at \in Intent
    BY <1>2, ShapeFacts, PlaceFacts DEF Sent
  <2> QED BY <2>1, <2>2 DEF Succeeds, Books
<1> QED BY <1>1, <1>2

LEMMA BooksFail ==
  ASSUME NEW p, Fails(p) PROVE bidded' = bidded
BY DEF Fails, memoryVars

LEMMA MarketTypes ==
  ASSUME Books, NEW i \in Intent,
         Market!Keep(i) \/ Market!Miss(i) \/ Market!Excuse(i) \/ Market!Drop(i)
  PROVE  /\ phase' \in [Intent -> Phase] /\ engaged' \in [Intent -> Solver \cup {Nil}]
         /\ due' = due /\ clock' = clock
BY DEF Books, Phase, Market!Keep, Market!Miss, Market!Excuse, Market!Drop, Market!Release

LEMMA BooksNext ==
  ASSUME Books, Shape, [Next]_vars PROVE Books'
<1> USE DEF marketVars, bookVars, memoryVars, ghostVars, faultVars, agentVars
<1>1. CASE UNCHANGED vars
  BY <1>1, BooksUnchanged DEF vars, bookTypes
<1>2. ASSUME NEW p \in Pass, AgentStep(p) PROVE Books'
  <2>1. CASE \/ \E i \in Intent : Read(p, i)
             \/ BeginBid(p) \/ PassOver(p) \/ PlaceBid(p) \/ Report(p)
    BY <2>1, BooksUnchanged DEF Read, BeginBid, PassOver, PlaceBid, Report, bookTypes
  <2>2. CASE StartPass(p)
    BY <2>2 DEF StartPass, Books
  <2>3. CASE BeginSettle(p)
    <3>1. staleActs' \in Nat
      BY <2>3 DEF BeginSettle, Books
    <3> QED BY <2>3, <3>1 DEF BeginSettle, Books
  <2>4. CASE Settle(p)
    <3>1. passes[p].at \in Intent
      BY <2>4, ShapeFacts, PlaceFacts DEF Settle, InSettlement
    <3>2. /\ tried' = Tried(passes[p].at)
          /\ UNCHANGED <<phase, engaged, due, clock, placed, selections, bidded, untried,
                         overlapped, restarts, giveUps, challenges, staleActs>>
      BY <2>4 DEF Settle
    <3> QED BY <3>1, <3>2, TriedStays DEF Books
  <2> QED BY <1>2, <2>1, <2>2, <2>3, <2>4 DEF AgentStep
<1>3. ASSUME NEW p \in Pass, GiveUp(p) PROVE Books'
  BY <1>3, BooksFail DEF GiveUp, Books
<1>4. CASE LandBid
  <2> DEFINE c == Head(mempool)
  <2>0. c.at \in Intent /\ c.by \in Pass \cup {Nobody}
    BY <1>4, HeadFacts DEF LandBid, Lands
  <2>1. bidded' \subseteq Intent
    BY <1>4, <2>0, BooksSucceed, BooksFail DEF LandBid, Books
  <2>2. placed' \in [Intent -> Nat]
    BY <1>4, <2>0 DEF LandBid, Books
  <2> QED BY <1>4, <2>1, <2>2 DEF LandBid, Books
<1>5. CASE LandSettle
  <2> DEFINE c == Head(mempool)
  <2>0. c.at \in Intent /\ c.by \in Pass \cup {Nobody}
    BY <1>5, HeadFacts DEF LandSettle, Lands
  <2>1. bidded' \subseteq Intent
    BY <1>5, <2>0, BooksSucceed, BooksFail DEF LandSettle, Books
  <2>2. /\ phase' \in [Intent -> Phase] /\ engaged' \in [Intent -> Solver \cup {Nil}]
        /\ due' = due /\ clock' = clock
    BY <1>5, <2>0, MarketTypes DEF LandSettle, Books
  <2>3. /\ tried' = Tried(c.at)
        /\ UNCHANGED <<placed, selections, untried, overlapped, restarts, giveUps,
                       challenges, staleActs>>
    BY <1>5 DEF LandSettle
  <2> QED BY <2>0, <2>1, <2>2, <2>3, TriedStays DEF Books
<1>6. CASE LandReport
  <2> DEFINE c == Head(mempool)
  <2>0. c.at \in Intent /\ c.by \in Pass \cup {Nobody}
    BY <1>6, HeadFacts DEF LandReport, Lands
  <2>1. bidded' \subseteq Intent
    BY <1>6, <2>0, BooksSucceed, BooksFail DEF LandReport, Books
  <2>2. /\ phase' \in [Intent -> Phase] /\ engaged' \in [Intent -> Solver \cup {Nil}]
        /\ due' = due /\ clock' = clock
    BY <1>6, <2>0, MarketTypes DEF LandReport, Books
  <2>3. untried' \in [Intent -> Nat]
    BY <1>6, <2>0 DEF LandReport, Books
  <2> QED BY <1>6, <2>1, <2>2, <2>3 DEF LandReport, Books
<1>7. CASE Restart
  BY <1>7 DEF Restart, Books
<1>8. ASSUME NEW i \in Intent, NEW s \in Solver, SelectWinner(i, s) PROVE Books'
  <2>1. /\ phase' \in [Intent -> Phase] /\ engaged' \in [Intent -> Solver \cup {Nil}]
        /\ due' = due /\ clock' = clock
    BY <1>8 DEF SelectWinner, Books, Market!Engage, Phase
  <2>2. /\ selections' = [selections EXCEPT ![i] = @ + 1] /\ selections[i] < MaxSelections
        /\ UNCHANGED <<placed, bidded, untried, tried, overlapped, restarts, giveUps,
                       challenges, staleActs>>
    BY <1>8 DEF SelectWinner
  <2>3. selections \in [Intent -> 0 .. MaxSelections] /\ MaxSelections \in Nat
    BY SolverAgentAssumption DEF Books
  <2>4. selections' \in [Intent -> 0 .. MaxSelections]
    BY <2>2, <2>3
  <2>5. \A j \in Intent : selections[j] <= selections'[j] /\ selections'[j] \in Nat
                          /\ selections[j] \in Nat
    BY <2>2, <2>3, <2>4
  <2>6. ASSUME NEW t \in tried PROVE t[2] <= selections'[t[1]]
    <3>1. t[1] \in Intent /\ t[2] \in Nat /\ t[2] <= selections[t[1]]
      BY DEF Books
    <3>2. selections[t[1]] <= selections'[t[1]] /\ selections'[t[1]] \in Nat
          /\ selections[t[1]] \in Nat
      BY <2>5, <3>1
    <3> QED BY <3>1, <3>2
  <2> QED BY <2>1, <2>2, <2>4, <2>6 DEF Books
<1>9. ASSUME NEW i \in Intent, ChallengeSelection(i) \/ OthersEnd(i) \/ Retire(i) PROVE Books'
  <2>1. /\ phase' \in [Intent -> Phase] /\ engaged' \in [Intent -> Solver \cup {Nil}]
        /\ due' = due /\ clock' = clock
    BY <1>9, MarketTypes DEF ChallengeSelection, OthersEnd, Retire
  <2>2. challenges' \in Nat
    BY <1>9 DEF ChallengeSelection, OthersEnd, Retire, Books
  <2>3. UNCHANGED <<placed, selections, bidded, untried, tried, overlapped, restarts,
                    giveUps, staleActs>>
    BY <1>9 DEF ChallengeSelection, OthersEnd, Retire
  <2> QED BY <2>1, <2>2, <2>3 DEF Books
<1>10. CASE Tick
  BY <1>10 DEF Tick, Market!Pass, Books
<1>11. ASSUME NEW i \in Intent, Bar(i) \/ Unbar(i) PROVE Books'
  BY <1>11, BooksUnchanged DEF Bar, Unbar, bookTypes
<1> QED BY <1>1, <1>2, <1>3, <1>4, <1>5, <1>6, <1>7, <1>8, <1>9, <1>10, <1>11 DEF Next, Land

-----------------------------------------------------------------------------
(* Passes, what they wait for, and settling. *)

\* Pass p goes where run says, the others stay.
Turn(p, run) == run \in Run /\ Somewhere(run) /\ passes' = [passes EXCEPT ![p] = run]

LEMMA TurnFacts ==
  ASSUME Shape, NEW p \in Pass, NEW run, Turn(p, run)
  PROVE  /\ Runs(passes') /\ passes'[p] = run
         /\ \A r \in Pass : r /= p => passes'[r] = passes[r]
<1>1. Runs(passes)
  BY ShapeFacts
<1>2. run \in Run /\ Somewhere(run) /\ passes' = [passes EXCEPT ![p] = run]
  BY DEF Turn
<1> QED BY <1>1, <1>2 DEF Runs

LEMMA AtTurn ==
  ASSUME Shape, NEW p \in Pass, passes[p].pc \in Away, NEW pc \in Away, passes' = At(p, pc)
  PROVE  Turn(p, Moved(passes[p], pc))
<1>1. passes[p] \in Run /\ Somewhere(passes[p])
  BY ShapeFacts
<1>2. Moved(passes[p], pc) \in Run /\ Somewhere(Moved(passes[p], pc))
  BY <1>1, MovedRun
<1>3. passes' = [passes EXCEPT ![p] = Moved(passes[p], pc)]
  BY DEF At, Moved
<1> QED BY <1>2, <1>3 DEF Turn

LEMMA OnwardTurn ==
  ASSUME Shape, NEW p \in Pass, passes' = Onward(p)
  PROVE  /\ Turn(p, Home(passes[p]))
         /\ Home(passes[p]).pc \notin Sent /\ ~Settles(Home(passes[p]))
<1>1. passes[p] \in Run
  BY ShapeFacts
<1>2. Home(passes[p]) \in Run /\ Somewhere(Home(passes[p]))
      /\ Home(passes[p]).pc \in {"idle", "next"}
  BY <1>1, HomeRun
<1>3. passes' = [passes EXCEPT ![p] = Home(passes[p])]
  BY DEF Onward, Home
<1> QED BY <1>2, <1>3 DEF Turn, Sent, Settles, InSettlement

\* Between two calls and outside settlement.
LEMMA ShapeTurn ==
  ASSUME Shape, NEW p \in Pass, NEW run, Turn(p, run),
         passes[p].pc \notin Sent, run.pc \notin Sent,
         Settles(run) <=> Settles(passes[p]), Settles(run) => run.at = passes[p].at,
         UNCHANGED <<mempool, settling>>
  PROVE  ShapeOf(passes', mempool', settling')
<1>1. /\ Runs(passes') /\ passes'[p] = run /\ \A r \in Pass : r /= p => passes'[r] = passes[r]
  BY TurnFacts
<1>2. Waiting(passes, mempool) /\ Apart(passes, settling) /\ LooseFirst(mempool)
  BY ShapeFacts
<1>3. Waiting(passes', mempool)
  BY <1>1, <1>2, WaitingMove
<1>4. Apart(passes', settling)
  BY <1>1, <1>2, ApartStays
<1> QED BY <1>1, <1>2, <1>3, <1>4 DEF ShapeOf

\* A call is sent.
LEMMA ShapeSend ==
  ASSUME Shape, NEW p \in Pass, NEW pc \in Sent, NEW call \in Call, Turn(p, Moved(passes[p], pc)),
         passes[p].pc \in Away \ Sent, Settles(passes[p]) <=> pc \in InSettlement,
         WaitsFor(Moved(passes[p], pc), [by |-> p, call |-> call, at |-> passes[p].at]),
         mempool' = Send(p, call), settling' = settling
  PROVE  /\ ShapeOf(passes', mempool', settling')
         /\ \A i : Loose(mempool', i) = Loose(mempool, i)
         /\ \A n \in DOMAIN mempool' :
               mempool'[n].by = p \/ (n \in DOMAIN mempool /\ mempool'[n] = mempool[n])
<1> DEFINE tx == [by |-> p, call |-> call, at |-> passes[p].at]
           run == Moved(passes[p], pc)
<1>0. /\ Waiting(passes, mempool) /\ Apart(passes, settling) /\ LooseFirst(mempool)
      /\ mempool \in Seq(Transaction)
  BY ShapeFacts
<1>1. /\ Runs(passes') /\ passes'[p] = run /\ \A r \in Pass : r /= p => passes'[r] = passes[r]
  BY TurnFacts
<1>2. passes[p] \in Run /\ Somewhere(passes[p]) /\ passes[p].at \in Intent /\ pc \in Away
  BY ShapeFacts, PlaceFacts
<1>3. run.pc = pc /\ run.at = passes[p].at
  BY <1>2, MovedRun
<1>4. tx \in Transaction /\ tx.by = p /\ tx.by /= Nobody
  BY <1>2 DEF Transaction, Call, Pass, Nobody
<1>5. mempool' = Append(mempool, tx)
  BY DEF Send
<1> HIDE DEF tx
<1>6. WaitsFor(passes'[p], tx)
  BY <1>1 DEF tx
<1>7. Waiting(passes', Append(mempool, tx))
  BY <1>0, <1>1, <1>4, <1>6, WaitingSend
<1>8. Apart(passes', settling)
  <2>1. Settles(passes'[p]) <=> Settles(passes[p])
    BY <1>1, <1>3 DEF Settles
  <2>2. passes'[p].at = passes[p].at
    BY <1>1, <1>3
  <2> QED BY <1>0, <1>1, <2>1, <2>2, ApartStays
<1>9. LooseFirst(Append(mempool, tx))
  BY <1>0, <1>4, LooseFirstAppend
<1>10. \A i : Loose(Append(mempool, tx), i) = Loose(mempool, i)
  BY <1>0, <1>4, LooseAppend
<1>11. \A n \in DOMAIN Append(mempool, tx) :
          \/ Append(mempool, tx)[n] = tx
          \/ n \in DOMAIN mempool /\ Append(mempool, tx)[n] = mempool[n]
  <2>1. /\ Len(mempool) \in Nat /\ DOMAIN mempool = 1 .. Len(mempool)
        /\ DOMAIN Append(mempool, tx) = 1 .. Len(mempool) + 1
        /\ Append(mempool, tx)[Len(mempool) + 1] = tx
        /\ \A n \in 1 .. Len(mempool) : Append(mempool, tx)[n] = mempool[n]
    BY <1>0, <1>4
  <2>2. \A n \in 1 .. Len(mempool) + 1 : n \in 1 .. Len(mempool) \/ n = Len(mempool) + 1
    BY <2>1
  <2> QED BY <2>1, <2>2
<1> QED BY <1>1, <1>4, <1>5, <1>7, <1>8, <1>9, <1>10, <1>11 DEF ShapeOf

\* A pass is at a place of its own in every action.
LEMMA Places ==
  /\ {"read", "bid", "settle", "giveBack", "handBack"} \subseteq Away \ Sent
  /\ {"bidSent", "settleSent", "giveBackSent", "handBackSent"} \subseteq Away \cap Sent
  /\ {"settle", "settleSent", "giveBack", "handBack", "giveBackSent", "handBackSent"}
        \subseteq InSettlement
  /\ \A x \in {"idle", "next", "read", "bid", "bidSent"} : x \notin InSettlement
  /\ \A x \in {"idle", "next", "read", "bid", "settle", "giveBack", "handBack"} : x \notin Sent
  /\ {"placeBid", "settle", "reportFailure"} = Call
BY DEF Away, Sent, InSettlement, Place, Call

LEMMA MovedAt ==
  ASSUME Shape, NEW p \in Pass, passes[p].pc \in Away, NEW pc \in Away
  PROVE  Moved(passes[p], pc).pc = pc /\ Moved(passes[p], pc).at = passes[p].at
BY ShapeFacts, MovedRun

LEMMA StartPassShape ==
  ASSUME Books, Shape, NEW p \in Pass, StartPass(p)
  PROVE  /\ ShapeOf(passes', mempool', settling')
         /\ ~Settles(passes[p]) /\ ~Settles(passes'[p])
         /\ \A r \in Pass : r /= p => passes'[r] = passes[r]
         /\ passes'[p].pc = "next"
<1> DEFINE feed == {i \in Intent : Servable(i)}
           run == [Idle EXCEPT !.pc = "next", !.todo = feed, !.clock = clock]
<1>1. run \in Run /\ Somewhere(run) /\ run.pc = "next"
  BY DEF Idle, Run, Somewhere, NoRecord, Knowledge, Place, Books
<1>2. Turn(p, run)
  BY <1>1 DEF StartPass, Turn
<1>3. passes[p].pc = "idle" /\ UNCHANGED <<mempool, settling>>
  BY DEF StartPass, memoryVars
<1> HIDE DEF run
<1>4. ~Settles(run) /\ ~Settles(passes[p]) /\ run.pc \notin Sent /\ passes[p].pc \notin Sent
  BY <1>1, <1>3, Places DEF Settles
<1> QED BY <1>1, <1>2, <1>3, <1>4, ShapeTurn, TurnFacts

LEMMA ReadShape ==
  ASSUME Books, Shape, NEW p \in Pass, NEW i \in Intent, Read(p, i)
  PROVE  /\ ShapeOf(passes', mempool', settling')
         /\ ~Settles(passes[p]) /\ ~Settles(passes'[p])
         /\ \A r \in Pass : r /= p => passes'[r] = passes[r]
         /\ passes[p].pc = "next" /\ passes'[p].pc = "read"
<1> DEFINE run == [passes[p] EXCEPT !.pc = "read", !.at = i, !.todo = @ \ {i},
                                    !.record = RecordOf(i)]
<1>0. passes[p] \in Run /\ RecordOf(i) \in Knowledge
  <2>1. selections[i] \in Nat
    BY SolverAgentAssumption DEF Books
  <2> QED BY <2>1, ShapeFacts DEF Books, RecordOf, Knowledge
<1>1. run \in Run /\ run.pc = "read" /\ run.at = i
  BY <1>0 DEF Run, Place
<1>2. Somewhere(run)
  BY <1>1, SolverAgentAssumption DEF Somewhere
<1>3. Turn(p, run)
  BY <1>1, <1>2 DEF Read, Turn
<1>4. passes[p].pc = "next" /\ UNCHANGED <<mempool, settling>>
  BY DEF Read, memoryVars
<1> HIDE DEF run
<1>5. ~Settles(run) /\ ~Settles(passes[p]) /\ run.pc \notin Sent /\ passes[p].pc \notin Sent
  BY <1>1, <1>4, Places DEF Settles
<1> QED BY <1>1, <1>3, <1>4, <1>5, ShapeTurn, TurnFacts

LEMMA BeginBidShape ==
  ASSUME Shape, NEW p \in Pass, BeginBid(p)
  PROVE  /\ ShapeOf(passes', mempool', settling')
         /\ ~Settles(passes[p]) /\ ~Settles(passes'[p])
         /\ \A r \in Pass : r /= p => passes'[r] = passes[r]
         /\ passes[p].pc = "read" /\ passes'[p].pc = "bid" /\ passes'[p].at = passes[p].at
         /\ passes[p].at \notin bidded /\ passes[p].at \in Intent
<1>1. passes[p].pc = "read" /\ passes' = At(p, "bid") /\ UNCHANGED <<mempool, settling>>
      /\ passes[p].at \notin bidded
  BY DEF BeginBid, MayBid, memoryVars
<1>2. "bid" \in Away /\ passes[p].pc \in Away
  BY <1>1, Places
<1>3. Turn(p, Moved(passes[p], "bid"))
  BY <1>1, <1>2, AtTurn
<1>4. Moved(passes[p], "bid").pc = "bid" /\ Moved(passes[p], "bid").at = passes[p].at
  BY <1>2, MovedAt
<1>5. /\ ~Settles(Moved(passes[p], "bid")) /\ ~Settles(passes[p])
      /\ Moved(passes[p], "bid").pc \notin Sent /\ passes[p].pc \notin Sent
  BY <1>1, <1>4, Places DEF Settles
<1>6. passes[p].at \in Intent
  BY <1>2, ShapeFacts
<1> QED BY <1>1, <1>3, <1>4, <1>5, <1>6, ShapeTurn, TurnFacts

LEMMA PassOverShape ==
  ASSUME Shape, NEW p \in Pass, PassOver(p)
  PROVE  /\ ShapeOf(passes', mempool', settling')
         /\ ~Settles(passes[p]) /\ ~Settles(passes'[p])
         /\ \A r \in Pass : r /= p => passes'[r] = passes[r]
         /\ passes[p].pc = "read" /\ passes'[p].pc \in {"idle", "next"}
<1>1. passes[p].pc = "read" /\ passes' = Onward(p) /\ UNCHANGED <<mempool, settling>>
  BY DEF PassOver, memoryVars
<1>2. /\ Turn(p, Home(passes[p]))
      /\ Home(passes[p]).pc \notin Sent /\ ~Settles(Home(passes[p]))
  BY <1>1, OnwardTurn
<1>3. Home(passes[p]).pc \in {"idle", "next"}
  BY ShapeFacts, HomeRun
<1>4. ~Settles(passes[p]) /\ passes[p].pc \notin Sent
  BY <1>1, Places DEF Settles
<1> QED BY <1>1, <1>2, <1>3, <1>4, ShapeTurn, TurnFacts

LEMMA PlaceBidShape ==
  ASSUME Shape, NEW p \in Pass, PlaceBid(p)
  PROVE  /\ ShapeOf(passes', mempool', settling')
         /\ ~Settles(passes[p]) /\ ~Settles(passes'[p])
         /\ \A r \in Pass : r /= p => passes'[r] = passes[r]
         /\ passes[p].pc = "bid" /\ passes'[p].pc \in {"idle", "next", "bidSent"}
         /\ passes'[p].pc = "bidSent" => passes'[p].at = passes[p].at
         /\ \A i : Loose(mempool', i) = Loose(mempool, i)
         /\ \A n \in DOMAIN mempool' :
               mempool'[n].by = p \/ (n \in DOMAIN mempool /\ mempool'[n] = mempool[n])
<1>1. passes[p].pc = "bid" /\ UNCHANGED <<settling>>
  BY DEF PlaceBid, memoryVars
<1>2. /\ passes[p].pc \in Away \ Sent /\ passes[p].pc \in Away /\ passes[p].pc \notin Sent
      /\ ~Settles(passes[p]) /\ "bidSent" \in Away /\ "bidSent" \in Sent
  BY <1>1, Places DEF Settles
<1>3. CASE mempool' = Send(p, "placeBid") /\ passes' = At(p, "bidSent")
  <2> DEFINE run == Moved(passes[p], "bidSent")
  <2>1. Turn(p, Moved(passes[p], "bidSent"))
    <3>1. passes' = At(p, "bidSent")
      BY <1>3
    <3> QED BY <1>2, <3>1, AtTurn
  <2>2. run.pc = "bidSent" /\ run.at = passes[p].at /\ ~Settles(run)
    BY <1>2, MovedAt, Places DEF Settles
  <2>3. WaitsFor(run, [by |-> p, call |-> "placeBid", at |-> passes[p].at])
    BY <2>2 DEF WaitsFor
  <2>4. "bidSent" \notin InSettlement /\ "placeBid" \in Call
    BY Places
  <2>5. /\ ShapeOf(passes', mempool', settling')
        /\ \A i : Loose(mempool', i) = Loose(mempool, i)
        /\ \A n \in DOMAIN mempool' :
               mempool'[n].by = p \/ (n \in DOMAIN mempool /\ mempool'[n] = mempool[n])
    <3> QED BY <1>1, <1>2, <1>3, <2>1, <2>3, <2>4, ShapeSend DEF Settles
  <2>6. passes'[p] = run /\ \A r \in Pass : r /= p => passes'[r] = passes[r]
    BY <2>1, TurnFacts
  <2> HIDE DEF run
  <2> QED BY <1>1, <1>2, <2>2, <2>5, <2>6
<1>4. CASE passes' = Onward(p) /\ UNCHANGED mempool
  <2>1. /\ Turn(p, Home(passes[p]))
        /\ Home(passes[p]).pc \notin Sent /\ ~Settles(Home(passes[p]))
    BY <1>4, OnwardTurn
  <2>2. Home(passes[p]).pc \in {"idle", "next"}
    BY ShapeFacts, HomeRun
  <2>3. ShapeOf(passes', mempool', settling')
    BY <1>1, <1>2, <1>4, <2>1, ShapeTurn
  <2>4. passes'[p] = Home(passes[p]) /\ \A r \in Pass : r /= p => passes'[r] = passes[r]
    BY <2>1, TurnFacts
  <2> HIDE DEF Home
  <2> QED BY <1>1, <1>2, <1>4, <2>1, <2>2, <2>3, <2>4
<1> QED BY <1>3, <1>4 DEF PlaceBid

LEMMA BeginSettleShape ==
  ASSUME Shape, NEW p \in Pass, BeginSettle(p)
  PROVE  /\ ShapeOf(passes', mempool', settling')
         /\ \A r \in Pass : r /= p => passes'[r] = passes[r]
         /\ passes[p].pc = "read" /\ passes'[p].pc = "settle"
         /\ passes'[p].at = passes[p].at /\ passes[p].at \in Intent
         /\ ~Settles(passes[p]) /\ Settles(passes'[p])
<1>1. /\ passes[p].pc = "read" /\ passes' = At(p, "settle") /\ mempool' = mempool
      /\ passes[p].at \notin settling /\ settling' = settling \cup {passes[p].at}
  BY DEF BeginSettle, MaySettle
<1>2. "settle" \in Away /\ passes[p].pc \in Away /\ "settle" \notin Sent /\ passes[p].pc \notin Sent
  BY <1>1, Places
<1>3. Turn(p, Moved(passes[p], "settle"))
  BY <1>1, <1>2, AtTurn
<1>4. Moved(passes[p], "settle").pc = "settle" /\ Moved(passes[p], "settle").at = passes[p].at
  BY <1>2, MovedAt
<1>5. /\ passes'[p].pc = "settle" /\ passes'[p].at = passes[p].at /\ Runs(passes')
      /\ \A r \in Pass : r /= p => passes'[r] = passes[r]
  BY <1>3, <1>4, TurnFacts
<1>6. ~Settles(passes[p]) /\ Settles(passes'[p])
  BY <1>1, <1>5, Places DEF Settles
<1>7. passes[p].at \in Intent /\ Waiting(passes, mempool) /\ Apart(passes, settling)
      /\ LooseFirst(mempool)
  BY <1>2, ShapeFacts
<1>8. Waiting(passes', mempool)
  BY <1>2, <1>5, <1>7, WaitingMove
<1>9. Apart(passes', settling \cup {passes'[p].at})
  <2>1. passes'[p].at \notin settling
    BY <1>1, <1>5
  <2> QED BY <1>5, <1>6, <1>7, <2>1, ApartEnters
<1> QED BY <1>1, <1>5, <1>6, <1>7, <1>8, <1>9 DEF ShapeOf

LEMMA SettleShape ==
  ASSUME Shape, NEW p \in Pass, Settle(p)
  PROVE  /\ ShapeOf(passes', mempool', settling')
         /\ \A r \in Pass : r /= p => passes'[r] = passes[r]
         /\ passes[p].pc = "settle" /\ passes'[p].pc \in InSettlement \ {"settle"}
         /\ passes'[p].at = passes[p].at /\ passes[p].at \in Intent
         /\ \A i : Loose(mempool', i) = Loose(mempool, i)
         /\ \A n \in DOMAIN mempool' :
               mempool'[n].by = p \/ (n \in DOMAIN mempool /\ mempool'[n] = mempool[n])
<1>1. passes[p].pc = "settle" /\ settling' = settling
  BY DEF Settle, memoryVars
<1>2. /\ passes[p].pc \in Away \ Sent /\ passes[p].pc \in Away /\ passes[p].pc \notin Sent
      /\ Settles(passes[p]) /\ passes[p].at \in Intent
  BY <1>1, Places, ShapeFacts DEF Settles
<1>3. CASE mempool' = Send(p, "settle") /\ passes' = At(p, "settleSent")
  <2>1. /\ "settleSent" \in Away /\ "settleSent" \in Sent /\ "settleSent" \in InSettlement
        /\ "settle" \in Call
    BY Places
  <2>2. Turn(p, Moved(passes[p], "settleSent"))
    <3>1. passes' = At(p, "settleSent")
      BY <1>3
    <3> QED BY <1>2, <2>1, <3>1, AtTurn
  <2>3. /\ Moved(passes[p], "settleSent").pc = "settleSent"
        /\ Moved(passes[p], "settleSent").at = passes[p].at
    BY <1>2, <2>1, MovedAt
  <2>4. WaitsFor(Moved(passes[p], "settleSent"), [by |-> p, call |-> "settle", at |-> passes[p].at])
    BY <2>3 DEF WaitsFor
  <2>5. /\ ShapeOf(passes', mempool', settling')
        /\ \A i : Loose(mempool', i) = Loose(mempool, i)
        /\ \A n \in DOMAIN mempool' :
               mempool'[n].by = p \/ (n \in DOMAIN mempool /\ mempool'[n] = mempool[n])
    BY <1>1, <1>2, <1>3, <2>1, <2>2, <2>4, ShapeSend
  <2>6. /\ passes'[p].pc = "settleSent" /\ passes'[p].at = passes[p].at
        /\ \A r \in Pass : r /= p => passes'[r] = passes[r]
    BY <2>2, <2>3, TurnFacts
  <2> QED BY <1>1, <1>2, <2>1, <2>5, <2>6
<1>4. ASSUME NEW x \in {"giveBack", "handBack"}, passes' = At(p, x), mempool' = mempool
      PROVE  /\ ShapeOf(passes', mempool', settling')
             /\ passes'[p].pc = x /\ passes'[p].at = passes[p].at
             /\ \A r \in Pass : r /= p => passes'[r] = passes[r]
  <2>1. x \in Away /\ x \notin Sent /\ x \in InSettlement
    BY Places
  <2>2. Turn(p, Moved(passes[p], x))
    BY <1>2, <1>4, <2>1, AtTurn
  <2>3. Moved(passes[p], x).pc = x /\ Moved(passes[p], x).at = passes[p].at
    BY <1>2, <2>1, MovedAt
  <2>4. ShapeOf(passes', mempool', settling')
    <3>1. /\ Moved(passes[p], x).pc \notin Sent /\ Settles(Moved(passes[p], x))
          /\ UNCHANGED <<mempool, settling>>
      BY <1>1, <1>4, <2>1, <2>3 DEF Settles
    <3> QED BY <1>2, <2>2, <2>3, <3>1, ShapeTurn
  <2> QED BY <2>2, <2>3, <2>4, TurnFacts
<1>5. {"giveBack", "handBack"} \subseteq InSettlement \ {"settle"}
  BY Places
<1>6. CASE passes' \in {At(p, "giveBack"), At(p, "handBack")} /\ UNCHANGED mempool
  <2>1. CASE passes' = At(p, "giveBack")
    BY <1>1, <1>2, <1>4, <1>5, <1>6, <2>1
  <2>2. CASE passes' = At(p, "handBack")
    BY <1>1, <1>2, <1>4, <1>5, <1>6, <2>2
  <2> QED BY <1>6, <2>1, <2>2
<1> QED BY <1>3, <1>6 DEF Settle

LEMMA ReportShape ==
  ASSUME Shape, NEW p \in Pass, Report(p)
  PROVE  /\ ShapeOf(passes', mempool', settling')
         /\ \A r \in Pass : r /= p => passes'[r] = passes[r]
         /\ passes[p].pc \in {"giveBack", "handBack"} /\ passes[p].at \in Intent
         /\ passes'[p].pc \in InSettlement => /\ passes'[p].pc /= "settle"
                                              /\ passes'[p].at = passes[p].at
         /\ passes'[p].pc \notin {"bid", "bidSent"}
         /\ \A i : Loose(mempool', i) = Loose(mempool, i)
         /\ \A n \in DOMAIN mempool' :
               mempool'[n].by = p \/ (n \in DOMAIN mempool /\ mempool'[n] = mempool[n])
<1>1. passes[p].pc \in {"giveBack", "handBack"}
  BY DEF Report
<1>2. /\ passes[p].pc \in Away \ Sent /\ passes[p].pc \in Away /\ passes[p].pc \notin Sent
      /\ Settles(passes[p]) /\ passes[p].at \in Intent
  BY <1>1, Places, ShapeFacts DEF Settles
<1>3. ASSUME NEW x \in {"giveBackSent", "handBackSent"}, mempool' = Send(p, "reportFailure"),
             passes' = At(p, x), settling' = settling
      PROVE  /\ ShapeOf(passes', mempool', settling')
             /\ \A i : Loose(mempool', i) = Loose(mempool, i)
             /\ \A n \in DOMAIN mempool' :
                   mempool'[n].by = p \/ (n \in DOMAIN mempool /\ mempool'[n] = mempool[n])
             /\ passes'[p].pc = x /\ passes'[p].at = passes[p].at
             /\ \A r \in Pass : r /= p => passes'[r] = passes[r]
  <2>1. /\ x \in Away /\ x \in Sent /\ x \in InSettlement
        /\ "reportFailure" \in Call
    BY Places
  <2>2. Turn(p, Moved(passes[p], x))
    BY <1>2, <1>3, <2>1, AtTurn
  <2>3. Moved(passes[p], x).pc = x /\ Moved(passes[p], x).at = passes[p].at
    BY <1>2, <2>1, MovedAt
  <2>4. WaitsFor(Moved(passes[p], x), [by |-> p, call |-> "reportFailure", at |-> passes[p].at])
    BY <2>3 DEF WaitsFor
  <2>5. /\ ShapeOf(passes', mempool', settling')
        /\ \A i : Loose(mempool', i) = Loose(mempool, i)
        /\ \A n \in DOMAIN mempool' :
               mempool'[n].by = p \/ (n \in DOMAIN mempool /\ mempool'[n] = mempool[n])
    BY <1>2, <1>3, <2>1, <2>2, <2>4, ShapeSend
  <2>6. /\ passes'[p].pc = x /\ passes'[p].at = passes[p].at
        /\ \A r \in Pass : r /= p => passes'[r] = passes[r]
    BY <2>2, <2>3, TurnFacts
  <2> QED BY <2>5, <2>6
<1>4. ASSUME passes' = At(p, "handBack"), UNCHANGED <<mempool, settling>>
      PROVE  /\ ShapeOf(passes', mempool', settling')
             /\ passes'[p].pc = "handBack" /\ passes'[p].at = passes[p].at
             /\ \A r \in Pass : r /= p => passes'[r] = passes[r]
  <2> DEFINE x == "handBack"
  <2>1. x \in Away /\ x \notin Sent /\ x \in InSettlement
    BY Places
  <2>2. Turn(p, Moved(passes[p], x))
    BY <1>2, <1>4, <2>1, AtTurn
  <2>3. Moved(passes[p], x).pc = x /\ Moved(passes[p], x).at = passes[p].at
    BY <1>2, <2>1, MovedAt
  <2>4. ShapeOf(passes', mempool', settling')
    <3>1. Moved(passes[p], x).pc \notin Sent /\ Settles(Moved(passes[p], x))
      BY <2>1, <2>3 DEF Settles
    <3> QED BY <1>2, <1>4, <2>2, <2>3, <3>1, ShapeTurn
  <2> QED BY <2>2, <2>3, <2>4, TurnFacts
<1>5. ASSUME passes' = Onward(p), mempool' = mempool, settling' = SettlingAfter(p)
      PROVE  /\ ShapeOf(passes', mempool', settling')
             /\ passes'[p].pc \in {"idle", "next"}
             /\ \A r \in Pass : r /= p => passes'[r] = passes[r]
  <2>1. /\ Turn(p, Home(passes[p]))
        /\ Home(passes[p]).pc \notin Sent /\ ~Settles(Home(passes[p]))
    BY <1>5, OnwardTurn
  <2>2. Home(passes[p]).pc \in {"idle", "next"}
    BY ShapeFacts, HomeRun
  <2>3. /\ passes'[p] = Home(passes[p]) /\ Runs(passes')
        /\ \A r \in Pass : r /= p => passes'[r] = passes[r]
    BY <2>1, TurnFacts
  <2> HIDE DEF Home
  <2>4. passes'[p].pc \notin Sent /\ ~Settles(passes'[p])
    BY <2>1, <2>3
  <2>5. Waiting(passes, mempool) /\ Apart(passes, settling) /\ LooseFirst(mempool)
    BY ShapeFacts
  <2>6. Waiting(passes', mempool)
    BY <1>2, <2>3, <2>4, <2>5, WaitingMove
  <2>7. Apart(passes', settling')
    <3>1. Apart(passes', settling \ {passes[p].at})
      BY <1>2, <2>3, <2>4, <2>5, ApartLeaves
    <3> QED BY <1>5, <3>1 DEF SettlingAfter
  <2> QED BY <1>5, <2>2, <2>3, <2>5, <2>6, <2>7 DEF ShapeOf
<1>6. CASE CanReport(passes[p].at)
  <2> DEFINE x == IF passes[p].pc = "giveBack" THEN "giveBackSent" ELSE "handBackSent"
  <2>1. /\ mempool' = Send(p, "reportFailure") /\ passes' = At(p, x) /\ settling' = settling
        /\ x \in {"giveBackSent", "handBackSent"}
    BY <1>6 DEF Report
  <2>2. x \in {"giveBackSent", "handBackSent"} => x /= "settle" /\ x \notin {"bid", "bidSent"}
    OBVIOUS
  <2> HIDE DEF x
  <2> QED BY <1>1, <1>2, <1>3, <2>1, <2>2
<1>7. CASE ~CanReport(passes[p].at) /\ passes[p].pc = "giveBack"
  <2>1. passes' = At(p, "handBack") /\ UNCHANGED <<mempool, settling>>
    BY <1>7 DEF Report
  <2> QED BY <1>1, <1>2, <1>4, <2>1
<1>8. CASE ~CanReport(passes[p].at) /\ passes[p].pc /= "giveBack"
  <2>1. passes' = Onward(p) /\ mempool' = mempool /\ settling' = SettlingAfter(p)
    BY <1>8 DEF Report
  <2>2. {"idle", "next"} \cap InSettlement = {}
    BY DEF InSettlement
  <2> QED BY <1>1, <1>2, <1>5, <2>1, <2>2
<1> QED BY <1>6, <1>7, <1>8

\* Where a pass goes when its call has ended, one way or the other.
LEMMA EndOfCall ==
  ASSUME Shape, NEW p \in Pass, passes[p].pc \in Sent, Succeeds(p) \/ Fails(p)
  PROVE  /\ Runs(passes') /\ \A r \in Pass : r /= p => passes'[r] = passes[r]
         /\ passes'[p].pc \in {"idle", "next", "handBack"}
         /\ passes'[p].pc \notin Sent
         /\ Apart(passes', settling')
         /\ Settles(passes'[p]) => /\ Settles(passes[p]) /\ passes'[p].at = passes[p].at
                                   /\ passes'[p].pc = "handBack" /\ Fails(p)
         /\ passes[p].pc = "handBackSent" => ~Settles(passes'[p])
         /\ Succeeds(p) => ~Settles(passes'[p])
<1>0. p /= Nobody
  BY DEF Pass, Nobody
<1>1. passes[p].pc \in Away /\ Apart(passes, settling)
  BY PlaceFacts, ShapeFacts
<1>2. ASSUME passes' = Onward(p)
      PROVE  /\ Runs(passes') /\ \A r \in Pass : r /= p => passes'[r] = passes[r]
             /\ passes'[p].pc \in {"idle", "next"} /\ ~Settles(passes'[p])
             /\ passes'[p].pc \notin Sent
  <2>1. /\ Turn(p, Home(passes[p]))
        /\ Home(passes[p]).pc \notin Sent /\ ~Settles(Home(passes[p]))
    BY <1>2, OnwardTurn
  <2>2. Home(passes[p]).pc \in {"idle", "next"}
    BY ShapeFacts, HomeRun
  <2> HIDE DEF Home
  <2> QED BY <2>1, <2>2, TurnFacts
<1>3. ASSUME passes' = At(p, "handBack")
      PROVE  /\ Runs(passes') /\ \A r \in Pass : r /= p => passes'[r] = passes[r]
             /\ passes'[p].pc = "handBack" /\ passes'[p].at = passes[p].at
             /\ passes'[p].pc \notin Sent /\ Settles(passes'[p])
  <2>1. "handBack" \in Away /\ "handBack" \notin Sent /\ "handBack" \in InSettlement
    BY Places
  <2>2. Turn(p, Moved(passes[p], "handBack"))
    BY <1>1, <1>3, <2>1, AtTurn
  <2>3. Moved(passes[p], "handBack").pc = "handBack" /\ Moved(passes[p], "handBack").at = passes[p].at
    BY <1>1, <2>1, MovedAt
  <2> QED BY <2>1, <2>2, <2>3, TurnFacts DEF Settles
<1>4. passes[p].pc = "bidSent" \/ passes[p].pc \in {"settleSent", "giveBackSent", "handBackSent"}
  BY DEF Sent
<1>5. passes[p].pc = "bidSent" => ~Settles(passes[p])
  BY Places DEF Settles
<1>6. passes[p].pc /= "bidSent" => Settles(passes[p])
  BY <1>4, Places DEF Settles
<1>7. ASSUME passes' = Onward(p), settling' = IF passes[p].pc = "bidSent" THEN settling
                                              ELSE settling \ {passes[p].at}
      PROVE  Apart(passes', settling')
  <2>1. CASE passes[p].pc = "bidSent"
    BY <1>1, <1>2, <1>5, <1>7, <2>1, ApartStays
  <2>2. CASE passes[p].pc /= "bidSent"
    BY <1>1, <1>2, <1>6, <1>7, <2>2, ApartLeaves
  <2> QED BY <2>1, <2>2
<1>8. ASSUME passes' = At(p, "handBack"), settling' = settling, passes[p].pc /= "bidSent"
      PROVE  Apart(passes', settling')
  BY <1>1, <1>3, <1>6, <1>8, ApartStays
<1>9. CASE Succeeds(p)
  <2>1. passes' = Onward(p) /\ settling' = IF passes[p].pc = "bidSent" THEN settling
                                           ELSE settling \ {passes[p].at}
    BY <1>0, <1>9 DEF Succeeds, SettlingAfter
  <2> QED BY <1>2, <1>7, <2>1
<1>10. CASE Fails(p) /\ passes[p].pc \in {"settleSent", "giveBackSent"}
  <2>1. passes' = At(p, "handBack") /\ settling' = settling
    BY <1>0, <1>10 DEF Fails
  <2>2. ~Succeeds(p) \/ passes' = Onward(p)
    BY <1>0 DEF Succeeds
  <2>3. ~Succeeds(p)
    BY <1>2, <1>3, <2>1, <2>2
  <2> QED BY <1>3, <1>6, <1>8, <1>10, <2>1, <2>3
<1>11. CASE Fails(p) /\ passes[p].pc \in {"bidSent", "handBackSent"}
  <2>1. passes' = Onward(p) /\ settling' = IF passes[p].pc = "bidSent" THEN settling
                                           ELSE settling \ {passes[p].at}
    BY <1>0, <1>11 DEF Fails, SettlingAfter
  <2> QED BY <1>2, <1>7, <2>1
<1> QED BY <1>4, <1>9, <1>10, <1>11

\* The call at the head has ended.
LEMMA LandShape ==
  ASSUME Shape, mempool /= << >>, mempool' = Tail(mempool),
         Succeeds(Head(mempool).by) \/ Fails(Head(mempool).by)
  PROVE  /\ ShapeOf(passes', mempool', settling')
         /\ Head(mempool).by = Nobody => passes' = passes /\ bidded' = bidded
         /\ \A r \in Pass : r /= Head(mempool).by => passes'[r] = passes[r]
<1> DEFINE h == Head(mempool).by
<1>1. h \in Pass \cup {Nobody} /\ (h /= Nobody => h \in Pass /\ passes[h].pc \in Sent)
  BY HeadFacts
<1>2. /\ Waiting(passes, mempool) /\ Apart(passes, settling) /\ LooseFirst(mempool)
      /\ mempool \in Seq(Transaction) /\ Runs(passes)
  BY ShapeFacts
<1>3. LooseFirst(Tail(mempool))
  BY <1>2, LooseFirstTail
<1> HIDE DEF h
<1>4. CASE h = Nobody
  <2>1. passes' = passes /\ settling' = settling /\ bidded' = bidded
    BY <1>4 DEF Succeeds, Fails, memoryVars, h
  <2>2. Waiting(passes', Tail(mempool))
    BY <1>2, <1>4, <2>1, WaitingTail DEF h
  <2> QED BY <1>2, <1>3, <2>1, <2>2 DEF ShapeOf
<1>5. CASE h /= Nobody
  <2>1. h \in Pass /\ passes[h].pc \in Sent /\ (Succeeds(h) \/ Fails(h))
    BY <1>1, <1>5 DEF h
  <2>2. /\ Runs(passes') /\ \A r \in Pass : r /= h => passes'[r] = passes[r]
        /\ passes'[h].pc \notin Sent /\ Apart(passes', settling')
    BY <2>1, EndOfCall
  <2>3. Waiting(passes', Tail(mempool))
    BY <1>2, <2>2, WaitingTail DEF h
  <2> QED BY <1>3, <1>5, <2>2, <2>3 DEF ShapeOf, h
<1> QED BY <1>4, <1>5

LEMMA GiveUpShape ==
  ASSUME Shape, NEW p \in Pass, GiveUp(p)
  PROVE  ShapeOf(passes', mempool', settling') /\ passes[p].pc \in Sent /\ Fails(p)
         /\ mempool' = Forget(mempool, {p})
<1>1. /\ passes[p].pc \in Sent /\ Fails(p) /\ mempool' = Forget(mempool, {p})
  BY DEF GiveUp, Sent, Forgotten, Forget
<1>2. /\ Waiting(passes, mempool) /\ Apart(passes, settling) /\ LooseFirst(mempool)
  BY ShapeFacts
<1>3. /\ Runs(passes') /\ \A r \in Pass : r /= p => passes'[r] = passes[r]
      /\ passes'[p].pc \notin Sent /\ Apart(passes', settling')
  BY <1>1, EndOfCall
<1>4. {p} \in SUBSET Pass /\ (\A x \in {p} : passes'[x].pc \notin Sent)
      /\ (\A r \in Pass \ {p} : passes'[r] = passes[r])
  BY <1>3
<1>5. Waiting(passes', Forget(mempool, {p}))
  BY <1>2, <1>4, WaitingForget
<1>6. LooseFirst(Forget(mempool, {p}))
  BY <1>2, <1>4, LooseFirstForget
<1> QED BY <1>1, <1>3, <1>5, <1>6 DEF ShapeOf

LEMMA RestartShape ==
  ASSUME Shape, Restart
  PROVE  /\ ShapeOf(passes', mempool', settling') /\ mempool' = Forget(mempool, Pass)
         /\ \A p \in Pass : passes'[p] = Idle /\ ~Settles(passes'[p])
<1>1. /\ passes' = [p \in Pass |-> Idle] /\ settling' = {} /\ mempool' = Forget(mempool, Pass)
  BY DEF Restart, Forgotten, Forget
<1>2. /\ Waiting(passes, mempool) /\ Apart(passes, settling) /\ LooseFirst(mempool)
  BY ShapeFacts
<1>3. \A p \in Pass : passes'[p] = Idle
  BY <1>1
<1>4. Idle \in Run /\ Somewhere(Idle) /\ Idle.pc \notin Sent /\ ~Settles(Idle)
  BY IdleRun, Places DEF Settles
<1>5. Runs(passes')
  BY <1>1, <1>3, <1>4 DEF Runs
<1>6. Waiting(passes', Forget(mempool, Pass))
  <2>1. Pass \in SUBSET Pass /\ (\A x \in Pass : passes'[x].pc \notin Sent)
        /\ (\A r \in Pass \ Pass : passes'[r] = passes[r])
    BY <1>3, <1>4
  <2> QED BY <1>2, <2>1, WaitingForget
<1>7. LooseFirst(Forget(mempool, Pass))
  BY <1>2, LooseFirstForget
<1>8. Apart(passes', settling')
  BY <1>1, <1>3, <1>4 DEF Apart
<1> QED BY <1>1, <1>3, <1>4, <1>5, <1>6, <1>7, <1>8 DEF ShapeOf

LEMMA ShapeNext ==
  ASSUME Books, Shape, [Next]_vars PROVE Shape'
<1> SUFFICES ShapeOf(passes', mempool', settling')
  BY DEF Shape
<1>1. ASSUME UNCHANGED <<passes, mempool, settling>> PROVE ShapeOf(passes', mempool', settling')
  BY <1>1 DEF Shape
<1>2. CASE UNCHANGED vars
  BY <1>1, <1>2 DEF vars, memoryVars
<1>3. ASSUME NEW p \in Pass, AgentStep(p) PROVE ShapeOf(passes', mempool', settling')
  BY <1>3, StartPassShape, ReadShape, BeginSettleShape, BeginBidShape, PassOverShape,
     PlaceBidShape, SettleShape, ReportShape DEF AgentStep
<1>4. CASE LandBid
  BY <1>4, LandShape DEF LandBid, Lands
<1>5. CASE LandSettle
  BY <1>5, LandShape DEF LandSettle, Lands
<1>6. CASE LandReport
  BY <1>6, LandShape DEF LandReport, Lands
<1>7. ASSUME NEW i \in Intent,
             \/ \E s \in Solver : SelectWinner(i, s)
             \/ Bar(i) \/ Unbar(i)
             \/ ChallengeSelection(i) \/ OthersEnd(i) \/ Retire(i)
      PROVE  UNCHANGED <<passes, mempool, settling>>
  BY <1>7 DEF SelectWinner, Bar, Unbar, ChallengeSelection, OthersEnd, Retire, agentVars,
              memoryVars
<1>8. CASE Tick
  BY <1>1, <1>8 DEF Tick, agentVars, memoryVars
<1> QED BY <1>1, <1>2, <1>3, <1>4, <1>5, <1>6, <1>7, <1>8, GiveUpShape, RestartShape DEF Next, Land

LEMMA InitBooks == Init => Books /\ Shape
<1> SUFFICES ASSUME Init PROVE Books /\ Shape
  OBVIOUS
<1>1. Books
  <2>1. MaxSelections \in Nat /\ Deadline \in Nat /\ Nil \in Solver \cup {Nil}
    BY SolverAgentAssumption
  <2>2. 0 \in 0 .. MaxSelections /\ "OPEN" \in Phase
    BY <2>1 DEF Phase
  <2>3. /\ phase \in [Intent -> Phase] /\ engaged \in [Intent -> Solver \cup {Nil}]
        /\ due \in [Intent -> Nat] /\ clock \in Nat
    BY <2>1, <2>2 DEF Init
  <2>4. /\ placed \in [Intent -> Nat] /\ selections \in [Intent -> 0 .. MaxSelections]
        /\ untried \in [Intent -> Nat]
    BY <2>1, <2>2 DEF Init
  <2>5. /\ bidded \subseteq Intent /\ tried \subseteq Intent \X Nat
        /\ \A t \in tried : t[2] <= selections[t[1]]
    BY DEF Init
  <2>6. overlapped \in BOOLEAN
    BY DEF Init
  <2>7. {restarts, giveUps, challenges, staleActs} \subseteq Nat
    BY DEF Init
  <2> QED BY <2>3, <2>4, <2>5, <2>6, <2>7 DEF Books
<1>2. \A p \in Pass : passes[p] = Idle
  BY DEF Init
<1>3. Idle \in Run /\ Somewhere(Idle) /\ Idle.pc \notin Sent /\ ~Settles(Idle)
  BY IdleRun, Places DEF Settles
<1>4. Runs(passes)
  BY <1>2, <1>3 DEF Runs, Init
<1>5. mempool = << >> /\ settling = {}
  BY DEF Init
<1>6. Waiting(passes, mempool) /\ LooseFirst(mempool)
  BY <1>2, <1>3, <1>5 DEF Waiting, LooseFirst
<1>7. Apart(passes, settling)
  BY <1>2, <1>3, <1>5 DEF Apart
<1> QED BY <1>1, <1>4, <1>6, <1>7 DEF Shape, ShapeOf

BarredOK == barred \subseteq Intent

LEMMA BarredNext ==
  BarredOK /\ [Next]_vars => BarredOK'
<1> SUFFICES ASSUME barred \subseteq Intent, [Next]_vars, barred' /= barred
    PROVE  barred' \subseteq Intent
  BY DEF BarredOK
<1> USE DEF bookVars
<1>1. ASSUME NEW p \in Pass, AgentStep(p) \/ GiveUp(p) PROVE FALSE
  BY <1>1 DEF AgentStep, StartPass, Read, BeginSettle, BeginBid, PassOver, PlaceBid, Settle,
              Report, GiveUp
<1>2. CASE LandBid \/ LandSettle \/ LandReport \/ Restart \/ Tick \/ UNCHANGED vars
  BY <1>2 DEF LandBid, LandSettle, LandReport, Restart, Tick, vars
<1>3. ASSUME NEW i \in Intent,
             \/ \E s \in Solver : SelectWinner(i, s)
             \/ ChallengeSelection(i) \/ OthersEnd(i) \/ Retire(i)
      PROVE  FALSE
  BY <1>3 DEF SelectWinner, ChallengeSelection, OthersEnd, Retire
<1>4. ASSUME NEW i \in Intent, Bar(i) \/ Unbar(i) PROVE barred' \subseteq Intent
  BY <1>4 DEF Bar, Unbar
<1> QED BY <1>1, <1>2, <1>3, <1>4 DEF Next, Land

\* Every reachable state has the agent's types: each call a pass waits for is under
\* way exactly once, in its name, and settling holds the intents of the passes in
\* settlement and no others (tick, consider and settle of solver.ts).
THEOREM AgentTypesHold == Spec => []AgentTypeOK
<1>1. Books /\ Shape /\ BarredOK => AgentTypeOK
  <2> SUFFICES ASSUME Books, Shape, BarredOK PROVE AgentTypeOK
    OBVIOUS
  <2>1. /\ phase \in [Intent -> {"OPEN", "SELECTED", "FULFILLED", "CANCELLED", "EXPIRED"}]
        /\ engaged \in [Intent -> Solver \cup {Nil}]
        /\ placed \in [Intent -> Nat] /\ selections \in [Intent -> 0 .. MaxSelections]
        /\ bidded \subseteq Intent
    BY DEF Books, Phase
  <2>2. \A p \in Pass : /\ passes[p].pc \in {"idle", "next", "read", "bid"} \cup Sent \cup InSettlement
                        /\ passes[p].pc \in {"idle", "next"} <=> passes[p].at = Nil
    BY ShapeFacts DEF Run, Place, Somewhere
  <2>3. /\ Waiting(passes, mempool) /\ mempool \in Seq(Transaction)
        /\ Len(mempool) \in Nat /\ DOMAIN mempool = 1 .. Len(mempool)
    BY ShapeFacts, WaitingTypes
  <2>4. ASSUME NEW p \in Pass
        PROVE  passes[p].pc \in Sent <=>
                 Cardinality({n \in DOMAIN mempool : mempool[n].by = p}) = 1
    <3> DEFINE T == {n \in DOMAIN mempool : mempool[n].by = p}
    <3>0. p /= Nobody
      BY DEF Pass, Nobody
    <3>1. IsFiniteSet(T)
      <4>1. IsFiniteSet(1 .. Len(mempool))
        BY <2>3, FS_Interval
      <4>2. T \in SUBSET (1 .. Len(mempool))
        BY <2>3
      <4> QED BY <4>1, <4>2, FS_Subset
    <3>2. \A n, k \in T : n = k
      BY <2>3, <3>0 DEF Waiting
    <3>3. passes[p].pc \in Sent <=> \E x : T = {x}
      <4>1. ASSUME passes[p].pc \in Sent PROVE \E x : T = {x}
        <5>1. PICK n \in DOMAIN mempool : mempool[n].by = p
          BY <2>3, <4>1 DEF Waiting
        <5>2. T = {n}
          BY <3>2, <5>1
        <5> QED BY <5>2
      <4>2. ASSUME NEW x, T = {x} PROVE passes[p].pc \in Sent
        <5>1. x \in DOMAIN mempool /\ mempool[x].by = p
          BY <4>2
        <5>2. WaitsFor(passes[p], mempool[x])
          BY <2>3, <3>0, <5>1 DEF Waiting
        <5> QED BY <5>2, WaitersAreSent
      <4> QED BY <4>1, <4>2
    <3> HIDE DEF T
    <3>4. Cardinality(T) = 1 <=> \E x : T = {x}
      BY <3>1, FS_Singleton
    <3>5. passes[p].pc \in Sent <=> Cardinality(T) = 1
      BY <3>3, <3>4
    <3> QED BY <3>5 DEF T
  <2>5. settling = {passes[p].at : p \in {q \in Pass : passes[q].pc \in InSettlement}}
    BY ShapeFacts DEF Apart, Settles
  <2> QED BY <2>1, <2>2, <2>4, <2>5 DEF AgentTypeOK, BarredOK
<1>2. Init => Books /\ Shape
  BY InitBooks
<1>3. (Books /\ Shape) /\ [Next]_vars => (Books /\ Shape)'
  BY BooksNext, ShapeNext
<1>4. Init => BarredOK
  BY DEF Init, BarredOK
<1> QED BY <1>1, <1>2, <1>3, <1>4, BarredNext, PTL DEF Spec

-----------------------------------------------------------------------------
(* One bid. *)

\* While a pass is under way, and nothing disturbs, it is the only one.
LEMMA QuietTurn ==
  ASSUME Shape, Quiet, NEW p \in Pass, passes[p].pc /= "idle",
         \A r \in Pass : r /= p => passes'[r] = passes[r],
         \A n \in DOMAIN mempool' : mempool'[n].by /= Nobody,
         placed' = placed, bidded' = bidded,
         passes'[p].pc \notin {"bid", "bidSent"}
            \/ (passes'[p].at = passes[p].at /\ passes[p].pc \in {"bid", "bidSent"})
            \/ placed[passes'[p].at] = 0
  PROVE  Quiet'
<1>1. \A r \in Pass : r /= p => passes[r].pc = "idle" /\ passes'[r].pc = "idle"
  BY DEF Quiet
<1>2. \A r, a \in Pass : passes'[r].pc /= "idle" /\ passes'[a].pc /= "idle" => r = a
  BY <1>1
<1>3. \A r \in Pass : passes'[r].pc \in {"bid", "bidSent"} => placed'[passes'[r].at] = 0
  BY <1>1 DEF Quiet
<1> QED BY <1>2, <1>3 DEF Quiet

LEMMA CalmNext ==
  ASSUME Books, Shape, Calm, [Next]_vars PROVE Calm'
<1> USE DEF marketVars, bookVars, memoryVars, ghostVars, faultVars, agentVars
<1>0. /\ restarts \in Nat /\ giveUps \in Nat /\ overlapped \in BOOLEAN /\ placed \in [Intent -> Nat]
      /\ mempool \in Seq(Transaction) /\ Waiting(passes, mempool)
  BY ShapeFacts DEF Books
<1>1. ASSUME UNCHANGED <<passes, mempool, placed, bidded, overlapped, restarts, giveUps>>
      PROVE  Calm'
  BY <1>1 DEF Calm, Quiet
<1>2. ASSUME \A n \in DOMAIN mempool' :
                \/ mempool'[n].by \in Pass
                \/ n \in DOMAIN mempool /\ mempool'[n] = mempool[n],
             Quiet
      PROVE  \A n \in DOMAIN mempool' : mempool'[n].by /= Nobody
  BY <1>2 DEF Quiet, Pass, Nobody
<1>3. ASSUME NEW p \in Pass, AgentStep(p), UNCHANGED <<restarts, giveUps>> PROVE Calm'
  <2>1. CASE StartPass(p)
    <3> SUFFICES ASSUME ~overlapped', restarts + giveUps = 0 PROVE Quiet'
      BY <1>3 DEF Calm
    <3>1. /\ overlapped' = (overlapped \/ \E q \in Pass : passes[q].pc /= "idle")
          /\ UNCHANGED <<placed, bidded, mempool>>
      BY <2>1 DEF StartPass
    <3>2. ~overlapped /\ \A q \in Pass : passes[q].pc = "idle"
      BY <3>1
    <3>3. Quiet
      BY <3>2 DEF Calm
    <3>4. passes'[p].pc = "next" /\ \A r \in Pass : r /= p => passes'[r] = passes[r]
      BY <2>1, StartPassShape
    <3>5. \A r, a \in Pass : passes'[r].pc /= "idle" /\ passes'[a].pc /= "idle" => r = a
      BY <3>2, <3>4
    <3>6. \A r \in Pass : passes'[r].pc \notin {"bid", "bidSent"}
      BY <3>2, <3>4
    <3> QED BY <3>1, <3>3, <3>5, <3>6 DEF Quiet
  <2>2. CASE ~StartPass(p)
    <3>1. UNCHANGED <<placed, bidded, overlapped>>
      BY <1>3, <2>2 DEF AgentStep, Read, BeginSettle, BeginBid, PassOver, PlaceBid, Settle, Report
    <3> SUFFICES ASSUME Quiet PROVE Quiet'
      BY <1>3, <3>1 DEF Calm
    <3>2. \A i \in Intent : i \notin bidded => placed[i] = 0
      BY <1>0 DEF Quiet
    <3>3. CASE \E i \in Intent : Read(p, i)
      <4>1. /\ passes[p].pc = "next" /\ passes'[p].pc = "read" /\ mempool' = mempool
            /\ \A r \in Pass : r /= p => passes'[r] = passes[r]
        BY <3>3, ReadShape DEF Read
      <4> QED BY <1>2, <3>1, <4>1, QuietTurn
    <3>4. CASE BeginSettle(p)
      <4>1. /\ passes[p].pc = "read" /\ passes'[p].pc = "settle" /\ mempool' = mempool
            /\ \A r \in Pass : r /= p => passes'[r] = passes[r]
        BY <3>4, BeginSettleShape DEF BeginSettle
      <4> QED BY <1>2, <3>1, <4>1, QuietTurn
    <3>5. CASE BeginBid(p)
      <4>1. /\ passes[p].pc = "read" /\ passes'[p].pc = "bid" /\ mempool' = mempool
            /\ passes'[p].at = passes[p].at /\ passes[p].at \notin bidded /\ passes[p].at \in Intent
            /\ \A r \in Pass : r /= p => passes'[r] = passes[r]
        BY <3>5, BeginBidShape DEF BeginBid
      <4> QED BY <1>2, <3>1, <3>2, <4>1, QuietTurn
    <3>6. CASE PassOver(p)
      <4>1. /\ passes[p].pc = "read" /\ passes'[p].pc \in {"idle", "next"} /\ mempool' = mempool
            /\ \A r \in Pass : r /= p => passes'[r] = passes[r]
        BY <3>6, PassOverShape DEF PassOver
      <4> QED BY <1>2, <3>1, <4>1, QuietTurn
    <3>7. CASE PlaceBid(p)
      <4>1. /\ passes[p].pc = "bid" /\ passes'[p].pc \in {"idle", "next", "bidSent"}
            /\ passes'[p].pc = "bidSent" => passes'[p].at = passes[p].at
            /\ \A n \in DOMAIN mempool' :
                  mempool'[n].by = p \/ (n \in DOMAIN mempool /\ mempool'[n] = mempool[n])
            /\ \A r \in Pass : r /= p => passes'[r] = passes[r]
        BY <3>7, PlaceBidShape
      <4>2. \A n \in DOMAIN mempool' : mempool'[n].by /= Nobody
        BY <1>2, <4>1
      <4> QED BY <3>1, <4>1, <4>2, QuietTurn
    <3>8. CASE Settle(p)
      <4>1. /\ passes[p].pc = "settle" /\ passes'[p].pc \in InSettlement
            /\ \A n \in DOMAIN mempool' :
                  mempool'[n].by = p \/ (n \in DOMAIN mempool /\ mempool'[n] = mempool[n])
            /\ \A r \in Pass : r /= p => passes'[r] = passes[r]
        BY <3>8, SettleShape
      <4>2. \A n \in DOMAIN mempool' : mempool'[n].by /= Nobody
        BY <1>2, <4>1
      <4>3. passes'[p].pc \notin {"bid", "bidSent"} /\ passes[p].pc /= "idle"
        BY <4>1 DEF InSettlement
      <4> QED BY <3>1, <4>1, <4>2, <4>3, QuietTurn
    <3>9. CASE Report(p)
      <4>1. /\ passes[p].pc \in {"giveBack", "handBack"}
            /\ passes'[p].pc \notin {"bid", "bidSent"}
            /\ \A n \in DOMAIN mempool' :
                  mempool'[n].by = p \/ (n \in DOMAIN mempool /\ mempool'[n] = mempool[n])
            /\ \A r \in Pass : r /= p => passes'[r] = passes[r]
        BY <3>9, ReportShape
      <4>2. \A n \in DOMAIN mempool' : mempool'[n].by /= Nobody
        BY <1>2, <4>1
      <4> QED BY <3>1, <4>1, <4>2, QuietTurn
    <3> QED BY <1>3, <2>2, <3>3, <3>4, <3>5, <3>6, <3>7, <3>8, <3>9 DEF AgentStep
  <2> QED BY <2>1, <2>2
<1>4. ASSUME mempool /= << >>, mempool' = Tail(mempool), Quiet,
             Succeeds(Head(mempool).by) \/ Fails(Head(mempool).by)
      PROVE  /\ Head(mempool).by \in Pass /\ passes[Head(mempool).by].pc /= "idle"
             /\ \A n \in DOMAIN mempool' : mempool'[n].by /= Nobody
             /\ \A r \in Pass : r /= Head(mempool).by => passes'[r] = passes[r]
             /\ passes'[Head(mempool).by].pc \notin {"bid", "bidSent"}
  <2>1. 1 \in DOMAIN mempool /\ Head(mempool) = mempool[1]
        /\ \A n \in DOMAIN Tail(mempool) : n + 1 \in DOMAIN mempool
                                          /\ Tail(mempool)[n] = mempool[n + 1]
    BY <1>0, <1>4, TailFacts
  <2>2. Head(mempool).by /= Nobody
    BY <1>4, <2>1 DEF Quiet
  <2>3. Head(mempool).by \in Pass /\ passes[Head(mempool).by].pc \in Sent
    BY <1>4, <2>2, HeadFacts
  <2>4. \A n \in DOMAIN mempool' : mempool'[n].by /= Nobody
    BY <1>4, <2>1 DEF Quiet
  <2>5. /\ \A r \in Pass : r /= Head(mempool).by => passes'[r] = passes[r]
        /\ passes'[Head(mempool).by].pc \in {"idle", "next", "handBack"}
    BY <1>4, <2>3, EndOfCall
  <2>6. passes[Head(mempool).by].pc /= "idle"
    BY <2>3, PlaceFacts
  <2> QED BY <2>3, <2>4, <2>5, <2>6
<1>5. CASE LandBid
  <2> DEFINE c == Head(mempool)
  <2>0. UNCHANGED <<overlapped, restarts, giveUps>> /\ mempool /= << >> /\ mempool' = Tail(mempool)
        /\ c.call = "placeBid"
    BY <1>5 DEF LandBid, Lands
  <2> SUFFICES ASSUME Quiet PROVE Quiet'
    BY <2>0 DEF Calm
  <2>1. Succeeds(c.by) \/ Fails(c.by)
    BY <1>5 DEF LandBid
  <2>2. /\ c.by \in Pass /\ passes[c.by].pc /= "idle"
        /\ \A n \in DOMAIN mempool' : mempool'[n].by /= Nobody
        /\ \A r \in Pass : r /= c.by => passes'[r] = passes[r]
        /\ passes'[c.by].pc \notin {"bid", "bidSent"}
    BY <1>4, <2>0, <2>1
  <2>3. c.by /= Nobody /\ c.at \in Intent /\ WaitsFor(passes[c.by], c)
    BY <2>0, <2>2, HeadFacts DEF Pass, Nobody
  <2>4. passes[c.by].pc = "bidSent" /\ passes[c.by].at = c.at
    BY <2>0, <2>3 DEF WaitsFor
  <2>5. CASE UNCHANGED placed /\ Fails(c.by)
    <3>1. bidded' = bidded
      BY <2>5, BooksFail
    <3> QED BY <2>2, <2>5, <3>1, QuietTurn
  <2>6. CASE placed' = [placed EXCEPT ![c.at] = @ + 1] /\ Succeeds(c.by)
    <3>1. bidded' = bidded \cup {c.at}
      BY <2>3, <2>4, <2>6 DEF Succeeds
    <3>2. placed[c.at] = 0
      BY <2>2, <2>4 DEF Quiet
    <3>3. ASSUME NEW i \in Intent PROVE placed'[i] <= 1 /\ (placed'[i] = 1 => i \in bidded')
      <4>1. CASE i = c.at
        BY <1>0, <2>3, <2>6, <3>1, <3>2, <4>1
      <4>2. CASE i /= c.at
        BY <1>0, <2>3, <2>6, <3>1, <4>2 DEF Quiet
      <4> QED BY <4>1, <4>2
    <3>4. \A r \in Pass : r /= c.by => passes'[r].pc = "idle"
      BY <2>2 DEF Quiet
    <3>5. \A r, a \in Pass : passes'[r].pc /= "idle" /\ passes'[a].pc /= "idle" => r = a
      BY <3>4
    <3>6. \A r \in Pass : passes'[r].pc \notin {"bid", "bidSent"}
      BY <2>2, <3>4
    <3> QED BY <2>2, <3>3, <3>5, <3>6 DEF Quiet
  <2> QED BY <1>5, <2>5, <2>6 DEF LandBid
<1>6. CASE LandSettle \/ LandReport
  <2> DEFINE c == Head(mempool)
  <2>0. /\ UNCHANGED <<placed, overlapped, restarts, giveUps>> /\ mempool /= << >>
        /\ mempool' = Tail(mempool) /\ c.call /= "placeBid"
        /\ Succeeds(c.by) \/ Fails(c.by)
    BY <1>6 DEF LandSettle, LandReport, Lands
  <2> SUFFICES ASSUME Quiet PROVE Quiet'
    BY <2>0 DEF Calm
  <2>2. /\ c.by \in Pass /\ passes[c.by].pc /= "idle"
        /\ \A n \in DOMAIN mempool' : mempool'[n].by /= Nobody
        /\ \A r \in Pass : r /= c.by => passes'[r] = passes[r]
        /\ passes'[c.by].pc \notin {"bid", "bidSent"}
    BY <1>4, <2>0
  <2>3. c.by /= Nobody /\ WaitsFor(passes[c.by], c)
    BY <2>0, <2>2, HeadFacts DEF Pass, Nobody
  <2>4. passes[c.by].pc /= "bidSent"
    BY <2>0, <2>3 DEF WaitsFor
  <2>5. bidded' = bidded
    BY <2>0, <2>3, <2>4, BooksFail DEF Succeeds
  <2> QED BY <2>0, <2>2, <2>5, QuietTurn
<1>7. ASSUME NEW p \in Pass, GiveUp(p) PROVE Calm'
  <2>1. giveUps' = giveUps + 1 /\ restarts' = restarts
    BY <1>7 DEF GiveUp
  <2>2. restarts' + giveUps' /= 0
    BY <1>0, <2>1
  <2> QED BY <2>2 DEF Calm
<1>8. CASE Restart
  <2>1. giveUps' = giveUps /\ restarts' = restarts + 1
    BY <1>8 DEF Restart
  <2>2. restarts' + giveUps' /= 0
    BY <1>0, <2>1
  <2> QED BY <2>2 DEF Calm
<1>9. ASSUME NEW i \in Intent,
             \/ \E s \in Solver : SelectWinner(i, s)
             \/ Bar(i) \/ Unbar(i)
             \/ ChallengeSelection(i) \/ OthersEnd(i) \/ Retire(i)
      PROVE  Calm'
  <2>1. UNCHANGED <<passes, mempool, placed, bidded, overlapped, restarts, giveUps>>
    BY <1>9 DEF SelectWinner, Bar, Unbar, ChallengeSelection, OthersEnd, Retire
  <2> QED BY <1>1, <2>1
<1>10. CASE Tick
  BY <1>1, <1>10 DEF Tick
<1>11. CASE UNCHANGED vars
  BY <1>1, <1>11 DEF vars
<1>12. \A p \in Pass : AgentStep(p) => UNCHANGED <<restarts, giveUps>>
  BY DEF AgentStep, StartPass, Read, BeginSettle, BeginBid, PassOver, PlaceBid, Settle, Report
<1> QED BY <1>3, <1>5, <1>6, <1>7, <1>8, <1>9, <1>10, <1>11, <1>12 DEF Next, Land

LEMMA InitCalm == Init => Calm
BY DEF Init, Calm, Quiet, Idle

\* While its passes run one after the other, its process lives and its receipts come,
\* the agent places one bid on an intent at most (consider of solver.ts).
THEOREM OneBidIsEnough == Spec => []OneBidUnlessDisturbed
<1>1. Calm => OneBidUnlessDisturbed
  BY DEF Calm, Quiet, OneBidUnlessDisturbed
<1>2. Init => Books /\ Shape /\ Calm
  BY InitBooks, InitCalm
<1>3. (Books /\ Shape /\ Calm) /\ [Next]_vars => (Books /\ Shape /\ Calm)'
  BY BooksNext, ShapeNext, CalmNext
<1> QED BY <1>1, <1>2, <1>3, PTL DEF Spec

-----------------------------------------------------------------------------
(* Who is in settlement at an intent. *)

LEMMA PastIsBusy ==
  ASSUME NEW ps, NEW i, PastTry(ps, i) PROVE SettlesAt(ps, i)
BY DEF PastTry, SettlesAt

LEMMA BusyHere ==
  ASSUME NEW ps, NEW S, Apart(ps, S), NEW p \in Pass, Settles(ps[p]), NEW i, ps[p].at = i
  PROVE  SettlesAt(ps, i) /\ (PastTry(ps, i) <=> ps[p].pc /= "settle")
BY DEF Apart, PastTry, SettlesAt

\* Nothing changes for the intents the pass is not settling, before or after.
LEMMA BusyElsewhere ==
  ASSUME NEW ps, NEW ps2, NEW p \in Pass, \A r \in Pass : r /= p => ps2[r] = ps[r], NEW i,
         ~(Settles(ps[p]) /\ ps[p].at = i), ~(Settles(ps2[p]) /\ ps2[p].at = i)
  PROVE  (PastTry(ps2, i) <=> PastTry(ps, i)) /\ (SettlesAt(ps2, i) <=> SettlesAt(ps, i))
<1>1. \A r \in Pass : Settles(ps2[r]) /\ ps2[r].at = i <=> Settles(ps[r]) /\ ps[r].at = i
  OBVIOUS
<1>2. \A r \in Pass : Settles(ps2[r]) /\ ps2[r].at = i => ps2[r] = ps[r]
  OBVIOUS
<1>3. SettlesAt(ps2, i) <=> SettlesAt(ps, i)
  BY <1>1 DEF SettlesAt
<1>4. PastTry(ps2, i) <=> PastTry(ps, i)
  BY <1>1, <1>2 DEF PastTry
<1> QED BY <1>3, <1>4

LEMMA BusyLeft ==
  ASSUME NEW ps, NEW ps2, NEW S, Apart(ps, S), NEW p \in Pass,
         \A r \in Pass : r /= p => ps2[r] = ps[r], NEW i,
         Settles(ps[p]), ps[p].at = i, ~Settles(ps2[p])
  PROVE  ~PastTry(ps2, i) /\ ~SettlesAt(ps2, i)
<1>1. \A r \in Pass : r /= p => ~(Settles(ps2[r]) /\ ps2[r].at = i)
  BY DEF Apart
<1> QED BY <1>1 DEF PastTry, SettlesAt

\* A pass past its try stays so, or is through: no intent has more on it.
LEMMA BusyFalls ==
  ASSUME NEW ps, NEW ps2, NEW S, Apart(ps, S), NEW p \in Pass,
         \A r \in Pass : r /= p => ps2[r] = ps[r],
         Settles(ps2[p]) => Settles(ps[p]) /\ ps2[p].at = ps[p].at /\ ps[p].pc /= "settle",
         NEW i
  PROVE  (PastTry(ps2, i) => PastTry(ps, i)) /\ (SettlesAt(ps2, i) => SettlesAt(ps, i))
<1>1. \A r \in Pass : Settles(ps2[r]) => Settles(ps[r]) /\ ps2[r].at = ps[r].at
  OBVIOUS
<1>2. \A r \in Pass : Settles(ps2[r]) /\ ps2[r].pc /= "settle" => ps[r].pc /= "settle"
  OBVIOUS
<1>3. SettlesAt(ps2, i) => SettlesAt(ps, i)
  BY <1>1 DEF SettlesAt
<1>4. PastTry(ps2, i) => PastTry(ps, i)
  BY <1>1, <1>2 DEF PastTry
<1> QED BY <1>3, <1>4

-----------------------------------------------------------------------------
(* How the peril of an intent changes. *)

Live(i) == phase[i] \in {"OPEN", "SELECTED"}

LEMMA PerilType ==
  ASSUME NEW i, Loose(mempool, i) \in Nat
  PROVE  /\ PerilOf(i) \in Nat
         /\ Live(i) => PerilOf(i) >= Loose(mempool, i)
         /\ ~Live(i) => PerilOf(i) = 0
         /\ PerilOf(i) <= Loose(mempool, i) + 1
BY DEF PerilOf, Peril, Live

LEMMA PerilFalls ==
  ASSUME NEW i, Loose(mempool, i) \in Nat, Loose(mempool', i) \in Nat,
         phase'[i] = phase[i], EngagedToMe(i)' <=> EngagedToMe(i),
         EngagedToMe(i) /\ IsTried(i) => IsTried(i)',
         Loose(mempool', i) <= Loose(mempool, i),
         PastTry(passes', i) => PastTry(passes, i),
         ~EngagedToMe(i) /\ SettlesAt(passes', i) => SettlesAt(passes, i)
  PROVE  PerilOf(i)' <= PerilOf(i)
BY DEF PerilOf, Peril

\* One more report is loose, of a pass that was past its try.
LEMMA PerilGrows ==
  ASSUME NEW i, Loose(mempool, i) \in Nat, Loose(mempool', i) \in Nat,
         phase'[i] = phase[i], EngagedToMe(i)' <=> EngagedToMe(i),
         EngagedToMe(i) /\ IsTried(i) => IsTried(i)',
         Loose(mempool', i) <= Loose(mempool, i) + 1,
         Loose(mempool', i) <= Loose(mempool, i) \/ PastTry(passes, i),
         PastTry(passes', i) => PastTry(passes, i),
         SettlesAt(passes', i) => SettlesAt(passes, i)
  PROVE  PerilOf(i)' <= PerilOf(i) + 1
<1>1. PastTry(passes, i) => SettlesAt(passes, i)
  BY PastIsBusy
<1> QED BY <1>1 DEF PerilOf, Peril

\* The intent stays or becomes live and was not the agent's.
LEMMA PerilSelected ==
  ASSUME NEW i, Loose(mempool, i) \in Nat, mempool' = mempool, passes' = passes,
         Live(i), ~EngagedToMe(i)
  PROVE  PerilOf(i)' <= PerilOf(i)
<1>1. PastTry(passes, i) => SettlesAt(passes, i)
  BY PastIsBusy
<1> QED BY <1>1 DEF PerilOf, Peril, Live

LEMMA ChargedStays ==
  ASSUME NEW i, ChargedAt(i), untried[i] \in Nat, Causes \in Nat,
         PerilOf(i) \in Nat, PerilOf(i)' \in Nat, untried'[i] = untried[i],
         Causes' \in Nat,
         \/ PerilOf(i)' <= PerilOf(i) /\ Causes' >= Causes
         \/ PerilOf(i)' <= PerilOf(i) + 1 /\ Causes' >= Causes + 1
  PROVE  ChargedAt(i)'
BY DEF ChargedAt

LEMMA SumOfFour ==
  ASSUME NEW a \in Nat, NEW b \in Nat, NEW c \in Nat, NEW d \in Nat
  PROVE  a + b + c + d \in Nat
OBVIOUS

LEMMA CountTypes ==
  ASSUME Books, Shape, NEW i \in Intent
  PROVE  Loose(mempool, i) \in Nat /\ PerilOf(i) \in Nat /\ untried[i] \in Nat /\ Causes \in Nat
<1>1. Loose(mempool, i) \in Nat
  BY ShapeFacts, OrphansFinite
<1>2. untried[i] \in Nat
  BY DEF Books
<1>3. restarts \in Nat /\ giveUps \in Nat /\ challenges \in Nat /\ staleActs \in Nat
  BY DEF Books
<1>4. Causes \in Nat
  BY <1>3 DEF Causes
<1> QED BY <1>1, <1>2, <1>4, PerilType

LEMMA CountTypesNext ==
  ASSUME Books, Shape, [Next]_vars, NEW i \in Intent
  PROVE  /\ Loose(mempool, i) \in Nat /\ PerilOf(i) \in Nat /\ untried[i] \in Nat /\ Causes \in Nat
         /\ Loose(mempool', i) \in Nat /\ PerilOf(i)' \in Nat /\ Causes' \in Nat
<1>1. Books' /\ Shape'
  BY BooksNext, ShapeNext
<1>2. mempool' \in Seq(Transaction)
  BY <1>1 DEF Shape, ShapeOf, Waiting
<1>3. Loose(mempool', i) \in Nat
  BY <1>2, OrphansFinite
<1>4. PerilOf(i)' \in Nat
  BY <1>3 DEF PerilOf, Peril
<1>5. restarts' \in Nat /\ giveUps' \in Nat /\ challenges' \in Nat /\ staleActs' \in Nat
  BY <1>1 DEF Books
<1>6. Causes' = restarts' + giveUps' + challenges' + staleActs'
  BY DEF Causes
<1>7. restarts' + giveUps' + challenges' + staleActs' \in Nat
  BY <1>5, SumOfFour
<1>8. Causes' \in Nat
  BY ONLY <1>6, <1>7
<1> QED BY <1>3, <1>4, <1>8, CountTypes

LEMMA TriedHere ==
  ASSUME NEW i, EngagedToMe(i) PROVE <<i, selections[i]>> \in Tried(i)
BY DEF Tried

\* A pass over the feed adds nothing but a settlement begun on an old record.
LEMMA AgentCharged ==
  ASSUME Books, Shape, [Next]_vars, NEW p \in Pass, AgentStep(p), NEW j \in Intent, ChargedAt(j)
  PROVE  ChargedAt(j)'
<1> USE DEF marketVars, bookVars, memoryVars, ghostVars, faultVars
<1>0. /\ Loose(mempool, j) \in Nat /\ PerilOf(j) \in Nat /\ untried[j] \in Nat /\ Causes \in Nat
      /\ Loose(mempool', j) \in Nat /\ PerilOf(j)' \in Nat /\ Causes' \in Nat
  BY CountTypesNext
<1>1. /\ UNCHANGED <<phase, engaged, selections, untried, restarts, giveUps, challenges>>
  BY DEF AgentStep, StartPass, Read, BeginSettle, BeginBid, PassOver, PlaceBid, Settle, Report
<1>2. phase'[j] = phase[j] /\ untried'[j] = untried[j] /\ (EngagedToMe(j)' <=> EngagedToMe(j))
  BY <1>1 DEF EngagedToMe
<1>3. /\ restarts \in Nat /\ giveUps \in Nat /\ challenges \in Nat /\ staleActs \in Nat
      /\ Apart(passes, settling)
  BY ShapeFacts DEF Books
<1>4. ASSUME PerilOf(j)' <= PerilOf(j), staleActs' = staleActs PROVE ChargedAt(j)'
  <2>1. Causes' = Causes
    BY <1>1, <1>4 DEF Causes
  <2>2. Causes' >= Causes
    BY <1>0, <2>1
  <2> QED BY <1>0, <1>2, <1>4, <2>2, ChargedStays
<1>5. ASSUME staleActs' = staleActs, tried' = tried,
             Loose(mempool', j) = Loose(mempool, j),
             \A r \in Pass : r /= p => passes'[r] = passes[r],
             Settles(passes'[p]) => Settles(passes[p]) /\ passes'[p].at = passes[p].at
                                    /\ passes[p].pc /= "settle"
      PROVE  ChargedAt(j)'
  <2>1. /\ PastTry(passes', j) => PastTry(passes, j)
        /\ SettlesAt(passes', j) => SettlesAt(passes, j)
    BY <1>3, <1>5, BusyFalls
  <2>2. IsTried(j)' <=> IsTried(j)
    BY <1>1, <1>5 DEF IsTried
  <2>3. Loose(mempool', j) <= Loose(mempool, j)
    BY <1>0, <1>5
  <2>4. PerilOf(j)' <= PerilOf(j)
    BY <1>0, <1>2, <2>1, <2>2, <2>3, PerilFalls
  <2> QED BY <1>4, <1>5, <2>4
<1>6. CASE StartPass(p)
  BY <1>5, <1>6, StartPassShape DEF StartPass
<1>7. CASE \E i \in Intent : Read(p, i)
  BY <1>5, <1>7, ReadShape DEF Read
<1>8. CASE BeginBid(p)
  BY <1>5, <1>8, BeginBidShape DEF BeginBid
<1>9. CASE PassOver(p)
  BY <1>5, <1>9, PassOverShape DEF PassOver
<1>10. CASE PlaceBid(p)
  <2>1. staleActs' = staleActs /\ tried' = tried
    BY <1>10 DEF PlaceBid
  <2> QED BY <1>5, <1>10, <2>1, PlaceBidShape
<1>11. CASE Report(p)
  <2>1. staleActs' = staleActs /\ tried' = tried
    BY <1>11 DEF Report
  <2>2. Settles(passes'[p]) => Settles(passes[p]) /\ passes'[p].at = passes[p].at
                               /\ passes[p].pc /= "settle"
    BY <1>11, ReportShape, Places DEF Settles
  <2> QED BY <1>5, <1>11, <2>1, <2>2, ReportShape
<1>12. CASE Settle(p)
  <2>1. /\ passes[p].pc = "settle" /\ passes'[p].pc \in InSettlement \ {"settle"}
        /\ passes'[p].at = passes[p].at /\ passes[p].at \in Intent
        /\ Loose(mempool', j) = Loose(mempool, j)
        /\ \A r \in Pass : r /= p => passes'[r] = passes[r]
    BY <1>12, SettleShape
  <2>2. staleActs' = staleActs /\ tried' = Tried(passes[p].at)
    BY <1>12 DEF Settle
  <2>3. IsTried(j) => IsTried(j)'
    BY <1>1, <2>1, <2>2, TriedStays DEF IsTried
  <2>4. Loose(mempool', j) <= Loose(mempool, j)
    BY <1>0, <2>1
  <2>5. CASE passes[p].at /= j
    <3>1. /\ PastTry(passes', j) <=> PastTry(passes, j)
          /\ SettlesAt(passes', j) <=> SettlesAt(passes, j)
      BY <2>1, <2>5, BusyElsewhere
    <3>2. PerilOf(j)' <= PerilOf(j)
      BY <1>0, <1>2, <2>3, <2>4, <3>1, PerilFalls
    <3> QED BY <1>4, <2>2, <3>2
  <2>6. CASE passes[p].at = j
    <3>1. SettlesAt(passes, j)
      BY <1>3, <2>1, <2>6, BusyHere, Places DEF Settles
    <3>2. EngagedToMe(j) => IsTried(j)'
      BY <1>1, <2>2, <2>6, TriedHere DEF IsTried
    <3>3. PerilOf(j)' <= PerilOf(j)
      BY <1>0, <1>2, <2>1, <3>1, <3>2 DEF PerilOf, Peril
    <3> QED BY <1>4, <2>2, <3>3
  <2> QED BY <2>5, <2>6
<1>13. CASE BeginSettle(p)
  <2>1. /\ passes[p].pc = "read" /\ passes'[p].pc = "settle" /\ passes'[p].at = passes[p].at
        /\ \A r \in Pass : r /= p => passes'[r] = passes[r]
        /\ ~Settles(passes[p]) /\ Settles(passes'[p])
        /\ Apart(passes', settling')
    BY <1>13, BeginSettleShape DEF ShapeOf
  <2>2. mempool' = mempool /\ tried' = tried
    BY <1>13 DEF BeginSettle
  <2>3. /\ passes[p].record.phase = "SELECTED" /\ passes[p].record.engaged = Me
        /\ staleActs' = IF passes[p].record = RecordOf(passes[p].at) THEN staleActs
                        ELSE staleActs + 1
    BY <1>13 DEF BeginSettle, MaySettle
  <2>4. staleActs' = staleActs => EngagedToMe(passes[p].at)
    <3> SUFFICES ASSUME staleActs' = staleActs PROVE EngagedToMe(passes[p].at)
      OBVIOUS
    <3>1. passes[p].record = RecordOf(passes[p].at)
      BY <1>3, <2>3
    <3> QED BY <2>3, <3>1 DEF RecordOf, EngagedToMe
  <2>5. IsTried(j)' <=> IsTried(j)
    BY <1>1, <2>2 DEF IsTried
  <2>6. Loose(mempool', j) = Loose(mempool, j)
    BY <2>2
  <2>7. Causes' >= Causes
    BY <1>1, <1>3, <2>3 DEF Causes
  <2>8. CASE passes[p].at /= j
    <3>1. /\ PastTry(passes', j) <=> PastTry(passes, j)
          /\ SettlesAt(passes', j) <=> SettlesAt(passes, j)
      BY <2>1, <2>8, BusyElsewhere
    <3>2. PerilOf(j)' <= PerilOf(j)
      BY <1>0, <1>2, <2>5, <2>6, <3>1, PerilFalls
    <3> QED BY <1>0, <1>2, <2>7, <3>2, ChargedStays
  <2>9. CASE passes[p].at = j /\ EngagedToMe(j)
    <3>1. ~PastTry(passes', j)
      BY <2>1, <2>9, BusyHere
    <3>2. PerilOf(j)' <= PerilOf(j)
      BY <1>0, <1>2, <2>5, <2>6, <2>9, <3>1, PerilFalls
    <3> QED BY <1>0, <1>2, <2>7, <3>2, ChargedStays
  <2>10. CASE passes[p].at = j /\ ~EngagedToMe(j)
    <3>1. staleActs' = staleActs + 1
      BY <2>3, <2>4, <2>10
    <3>2. Causes' >= Causes + 1
      BY <1>1, <1>3, <3>1 DEF Causes
    <3>3. PerilOf(j)' <= PerilOf(j) + 1
      BY <1>0, <1>2, <2>5, <2>6 DEF PerilOf, Peril
    <3> QED BY <1>0, <1>2, <3>2, <3>3, ChargedStays
  <2> QED BY <2>8, <2>9, <2>10
<1> QED BY <1>6, <1>7, <1>8, <1>9, <1>10, <1>11, <1>12, <1>13 DEF AgentStep

\* Calls land: a report of a selection nobody tried is one that was counted.
LEMMA LandCharged ==
  ASSUME Books, Shape, [Next]_vars, Land, NEW j \in Intent, ChargedAt(j)
  PROVE  ChargedAt(j)'
<1> USE DEF marketVars, bookVars, memoryVars, ghostVars, faultVars
<1> DEFINE c == Head(mempool)
<1>0. /\ Loose(mempool, j) \in Nat /\ PerilOf(j) \in Nat /\ untried[j] \in Nat /\ Causes \in Nat
      /\ Loose(mempool', j) \in Nat /\ PerilOf(j)' \in Nat /\ Causes' \in Nat
  BY CountTypesNext
<1>1. /\ mempool /= << >> /\ mempool' = Tail(mempool)
      /\ Succeeds(c.by) \/ Fails(c.by)
      /\ UNCHANGED <<selections, restarts, giveUps, challenges, staleActs, clock>>
  BY DEF Land, LandBid, LandSettle, LandReport, Lands, Market!Keep, Market!Miss, Market!Release
<1>2. Causes' = Causes
  BY <1>1 DEF Causes
<1>3. Causes' >= Causes
  BY <1>0, <1>2
<1>4. /\ c.at \in Intent /\ c.by \in Pass \cup {Nobody} /\ mempool \in Seq(Transaction)
      /\ c.by /= Nobody => /\ c.by \in Pass /\ passes[c.by].pc \in Sent
                           /\ passes[c.by].at = c.at /\ WaitsFor(passes[c.by], c)
      /\ Apart(passes, settling) /\ LooseFirst(mempool)
      /\ due \in [Intent -> Nat] /\ phase \in [Intent -> Phase]
      /\ engaged \in [Intent -> Solver \cup {Nil}] /\ untried \in [Intent -> Nat]
  BY <1>1, HeadFacts, ShapeFacts DEF Books
<1>5. \A i : Loose(mempool, i) = Loose(mempool', i) +
             (IF Report_Of(c, i) /\ c.by = Nobody THEN 1 ELSE 0)
  BY <1>1, <1>4, LooseTail
<1>6. Loose(mempool', j) <= Loose(mempool, j)
  BY <1>0, <1>5
\* The pass that waited for the call is through, or past its try as before.
<1>7. /\ PastTry(passes', j) => PastTry(passes, j)
      /\ SettlesAt(passes', j) => SettlesAt(passes, j)
  <2>1. CASE c.by = Nobody
    BY <1>1, <2>1, LandShape
  <2>2. CASE c.by /= Nobody
    <3>1. c.by \in Pass /\ passes[c.by].pc \in Sent
      BY <1>4, <2>2
    <3>2. /\ \A r \in Pass : r /= c.by => passes'[r] = passes[r]
          /\ Settles(passes'[c.by]) => Settles(passes[c.by]) /\ passes'[c.by].at = passes[c.by].at
      BY <1>1, <3>1, EndOfCall
    <3>3. passes[c.by].pc /= "settle"
      BY <3>1, Places
    <3> HIDE DEF c
    <3> QED BY <1>4, <3>1, <3>2, <3>3, BusyFalls
  <2> QED BY <2>1, <2>2
<1> HIDE DEF c
<1>8. ASSUME phase'[j] = phase[j], engaged'[j] = engaged[j], untried'[j] = untried[j],
             IsTried(j) => IsTried(j)'
      PROVE  ChargedAt(j)'
  <2>1. EngagedToMe(j)' <=> EngagedToMe(j)
    BY <1>8 DEF EngagedToMe
  <2>2. PerilOf(j)' <= PerilOf(j)
    BY <1>0, <1>6, <1>7, <1>8, <2>1, PerilFalls
  <2> QED BY <1>0, <1>3, <1>8, <2>2, ChargedStays
<1>9. tried' = tried => (IsTried(j) => IsTried(j)')
  BY <1>1 DEF IsTried
<1>10. CASE LandBid
  BY <1>8, <1>9, <1>10 DEF LandBid
<1>11. CASE LandSettle
  <2>1. tried' = Tried(c.at) /\ untried' = untried
    BY <1>11 DEF LandSettle, c
  <2>2. IsTried(j) => IsTried(j)'
    BY <1>1, <1>4, <2>1, TriedStays DEF IsTried
  <2>3. CASE UNCHANGED marketVars
    BY <1>8, <2>1, <2>2, <2>3
  <2>4. CASE Market!Keep(c.at) /\ j /= c.at
    <3>1. phase'[j] = phase[j] /\ engaged'[j] = engaged[j]
      BY <1>4, <2>4 DEF Market!Keep, Market!Release
    <3> QED BY <1>8, <2>1, <2>2, <3>1
  <2>5. CASE Market!Keep(c.at) /\ j = c.at
    <3>1. phase'[j] = "FULFILLED"
      BY <1>4, <2>5 DEF Market!Keep, Market!Release
    <3>2. PerilOf(j)' = 0
      BY <3>1 DEF PerilOf, Peril
    <3>3. PerilOf(j)' <= PerilOf(j)
      BY <1>0, <3>2
    <3> QED BY <1>0, <1>3, <2>1, <3>3, ChargedStays
  <2> QED BY <1>11, <2>3, <2>4, <2>5 DEF LandSettle, c
<1>12. CASE LandReport
  <2>0. tried' = tried /\ c.call = "reportFailure"
    BY <1>12 DEF LandReport, Lands, c
  <2>1. CASE ~CanReport(c.at)
    <3>1. UNCHANGED <<marketVars, untried>>
      BY <1>12, <2>1 DEF LandReport, c
    <3> QED BY <1>8, <1>9, <2>0, <3>1
  <2>2. CASE CanReport(c.at)
    <3>1. /\ Market!Miss(c.at) /\ phase'[c.at] = "OPEN"
          /\ untried' = IF <<c.at, selections[c.at]>> \in tried THEN untried
                        ELSE [untried EXCEPT ![c.at] = @ + 1]
          /\ Succeeds(c.by)
      BY <1>12, <2>2 DEF LandReport, c
    <3>2. CASE j /= c.at
      <4>1. phase'[j] = phase[j] /\ engaged'[j] = engaged[j]
        BY <1>4, <3>1, <3>2 DEF Market!Miss, Market!Release
      <4>2. untried'[j] = untried[j]
        BY <1>4, <3>1, <3>2
      <4> QED BY <1>8, <1>9, <2>0, <4>1, <4>2
    <3>3. CASE j = c.at
      <4>1. phase[j] = "SELECTED" /\ phase'[j] = "OPEN" /\ engaged'[j] = Nil
        BY <1>4, <2>2, <3>1, <3>3 DEF Market!Miss, Market!Release, CanReport, EngagedToMe
      <4>2. ~EngagedToMe(j)' /\ EngagedToMe(j)
        BY <2>2, <3>3, <4>1 DEF CanReport, EngagedToMe
      <4>3. /\ IsTried(j) => untried'[j] = untried[j]
            /\ ~IsTried(j) => untried'[j] = untried[j] + 1
        BY <1>4, <3>1, <3>3 DEF IsTried
      <4>4. Report_Of(c, j)
        BY <2>0, <3>3 DEF Report_Of
      \* A loose report uses up one of the loose ones; the pass that is there may
      \* be astray now.
      <4>5. CASE c.by = Nobody
        <5>1. Loose(mempool, j) = Loose(mempool', j) + 1
          BY <1>5, <4>4, <4>5
        <5>2. PerilOf(j)' <= Loose(mempool', j) + 1
          BY <1>0 DEF PerilOf, Peril
        <5>3. IsTried(j) => PerilOf(j) = Loose(mempool, j)
          BY <4>1, <4>2 DEF PerilOf, Peril
        <5>4. ~IsTried(j) => PerilOf(j) = Loose(mempool, j) + 1
          BY <1>0, <4>1, <4>2, <5>1 DEF PerilOf, Peril
        <5>5. untried[j] + PerilOf(j) <= Causes
          BY DEF ChargedAt
        <5>6. untried'[j] + PerilOf(j)' <= Causes'
          BY <1>0, <1>2, <4>3, <5>1, <5>2, <5>3, <5>4, <5>5
        <5> QED BY <5>6 DEF ChargedAt
      \* With one that a pass waits for none is loose, and the pass is through.
      <4>6. CASE c.by /= Nobody
        <5>1. Loose(mempool, j) = 0
          BY <1>1, <1>4, <4>4, <4>6, NoneIsLoose DEF c
        <5>2. c.by \in Pass /\ passes[c.by].pc \in {"giveBackSent", "handBackSent"}
              /\ passes[c.by].at = j /\ passes[c.by].pc \in Sent
          BY <1>4, <2>0, <3>3, <4>6 DEF WaitsFor
        <5>3. Settles(passes[c.by]) /\ passes[c.by].pc /= "settle"
          BY <5>2, Places DEF Settles
        <5>4. /\ \A r \in Pass : r /= c.by => passes'[r] = passes[r]
              /\ ~Settles(passes'[c.by])
          BY <3>1, <5>2, EndOfCall
        <5>5. ~PastTry(passes', j) /\ ~SettlesAt(passes', j)
          BY <1>4, <5>2, <5>3, <5>4, BusyLeft
        <5>6. PastTry(passes, j)
          BY <1>4, <5>2, <5>3, BusyHere
        <5>7. Loose(mempool', j) = 0
          BY <1>0, <1>6, <5>1
        <5>8. PerilOf(j)' = 0
          BY <4>2, <5>5, <5>7 DEF PerilOf, Peril
        <5>9. ~IsTried(j) => PerilOf(j) = 1
          BY <4>1, <4>2, <5>1, <5>6 DEF PerilOf, Peril
        <5>10. untried[j] + PerilOf(j) <= Causes
          BY DEF ChargedAt
        <5>11. untried'[j] + PerilOf(j)' <= Causes'
          BY <1>0, <1>2, <4>3, <5>8, <5>9, <5>10
        <5> QED BY <5>11 DEF ChargedAt
      <4> QED BY <4>5, <4>6
    <3> QED BY <3>2, <3>3
  <2> QED BY <2>1, <2>2
<1> QED BY <1>10, <1>11, <1>12 DEF Land

LEMMA GiveUpCharged ==
  ASSUME Books, Shape, [Next]_vars, NEW p \in Pass, GiveUp(p), NEW j \in Intent, ChargedAt(j)
  PROVE  ChargedAt(j)'
<1> USE DEF marketVars, bookVars, ghostVars
<1>0. /\ Loose(mempool, j) \in Nat /\ PerilOf(j) \in Nat /\ untried[j] \in Nat /\ Causes \in Nat
      /\ Loose(mempool', j) \in Nat /\ PerilOf(j)' \in Nat /\ Causes' \in Nat
  BY CountTypesNext
<1>1. /\ UNCHANGED <<phase, engaged, selections, untried, tried, restarts, challenges, staleActs>>
      /\ giveUps' = giveUps + 1
  BY DEF GiveUp
<1>2. /\ restarts \in Nat /\ giveUps \in Nat /\ challenges \in Nat /\ staleActs \in Nat
      /\ Apart(passes, settling) /\ Waiting(passes, mempool) /\ mempool \in Seq(Transaction)
  BY ShapeFacts DEF Books
<1>3. Causes' >= Causes + 1
  BY <1>1, <1>2 DEF Causes
<1>4. passes[p].pc \in Sent /\ Fails(p) /\ mempool' = Forget(mempool, {p})
  BY GiveUpShape
<1>5. /\ \A r \in Pass : r /= p => passes'[r] = passes[r]
      /\ Settles(passes'[p]) => Settles(passes[p]) /\ passes'[p].at = passes[p].at
  BY <1>4, EndOfCall
<1>6. /\ PastTry(passes', j) => PastTry(passes, j)
      /\ SettlesAt(passes', j) => SettlesAt(passes, j)
  <2>1. passes[p].pc /= "settle"
    BY <1>4, Places
  <2> QED BY <1>2, <1>5, <2>1, BusyFalls
<1>7. ASSUME NEW n \in DOMAIN mempool, Report_Of(mempool[n], j), mempool[n].by = p
      PROVE  PastTry(passes, j)
  <2>1. WaitsFor(passes[p], mempool[n])
    BY <1>2, <1>7 DEF Waiting, Pass, Nobody
  <2>2. passes[p].pc \in {"giveBackSent", "handBackSent"} /\ passes[p].at = j
    BY <1>7, <2>1 DEF WaitsFor, Report_Of
  <2>3. Settles(passes[p])
    BY <2>2, Places DEF Settles
  <2> QED BY <2>2, <2>3 DEF PastTry
<1>8. Loose(mempool', j) <= Loose(mempool, j) + 1
      /\ (Loose(mempool', j) <= Loose(mempool, j) \/ PastTry(passes, j))
  <2>1. p /= Nobody
    BY DEF Pass, Nobody
  <2>2. \A n, k \in DOMAIN mempool : mempool[n].by = p /\ mempool[k].by = p => n = k
    BY <1>2, <2>1 DEF Waiting
  <2>3. Loose(mempool', j) <= Loose(mempool, j) + 1
    BY <1>2, <1>4, <2>2, LooseForget
  <2>4. CASE \A n \in DOMAIN mempool : Report_Of(mempool[n], j) => mempool[n].by \notin {p}
    <3>1. Loose(mempool', j) = Loose(mempool, j)
      BY <1>2, <1>4, <2>4, LooseForget
    <3> QED BY <1>0, <3>1
  <2>5. CASE \E n \in DOMAIN mempool : Report_Of(mempool[n], j) /\ mempool[n].by = p
    BY <1>7, <2>3, <2>5
  <2> QED BY <2>4, <2>5
<1>9. PerilOf(j)' <= PerilOf(j) + 1
  <2>1. /\ phase'[j] = phase[j] /\ (EngagedToMe(j)' <=> EngagedToMe(j))
        /\ (IsTried(j)' <=> IsTried(j))
    BY <1>1 DEF EngagedToMe, IsTried
  <2> QED BY <1>0, <1>6, <1>8, <2>1, PerilGrows
<1> QED BY <1>0, <1>1, <1>3, <1>9, ChargedStays

LEMMA RestartCharged ==
  ASSUME Books, Shape, [Next]_vars, Restart, NEW j \in Intent, ChargedAt(j)
  PROVE  ChargedAt(j)'
<1> USE DEF marketVars, bookVars, ghostVars
<1>0. /\ Loose(mempool, j) \in Nat /\ PerilOf(j) \in Nat /\ untried[j] \in Nat /\ Causes \in Nat
      /\ Loose(mempool', j) \in Nat /\ PerilOf(j)' \in Nat /\ Causes' \in Nat
  BY CountTypesNext
<1>1. /\ UNCHANGED <<phase, engaged, selections, untried, tried, giveUps, challenges, staleActs>>
      /\ restarts' = restarts + 1
  BY DEF Restart
<1>2. /\ restarts \in Nat /\ giveUps \in Nat /\ challenges \in Nat /\ staleActs \in Nat
      /\ Apart(passes, settling) /\ Waiting(passes, mempool) /\ mempool \in Seq(Transaction)
  BY ShapeFacts DEF Books
<1>3. Causes' >= Causes + 1
  BY <1>1, <1>2 DEF Causes
<1>4. mempool' = Forget(mempool, Pass) /\ \A p \in Pass : ~Settles(passes'[p])
  BY RestartShape
<1>6. ~PastTry(passes', j) /\ ~SettlesAt(passes', j)
  BY <1>4 DEF PastTry, SettlesAt
<1>7. ASSUME NEW n \in DOMAIN mempool, Report_Of(mempool[n], j), mempool[n].by \in Pass
      PROVE  /\ PastTry(passes, j) /\ Settles(passes[mempool[n].by])
             /\ passes[mempool[n].by].at = j
  <2>1. WaitsFor(passes[mempool[n].by], mempool[n])
    BY <1>2, <1>7 DEF Waiting, Pass, Nobody
  <2>2. /\ passes[mempool[n].by].pc \in {"giveBackSent", "handBackSent"}
        /\ passes[mempool[n].by].at = j
    BY <1>7, <2>1 DEF WaitsFor, Report_Of
  <2>3. Settles(passes[mempool[n].by])
    BY <2>2, Places DEF Settles
  <2> QED BY <1>7, <2>2, <2>3 DEF PastTry
<1>8. Loose(mempool', j) <= Loose(mempool, j) + 1
      /\ (Loose(mempool', j) <= Loose(mempool, j) \/ PastTry(passes, j))
  <2>1. ASSUME NEW n \in DOMAIN mempool, NEW k \in DOMAIN mempool,
               Report_Of(mempool[n], j), mempool[n].by \in Pass,
               Report_Of(mempool[k], j), mempool[k].by \in Pass
        PROVE  n = k
    <3>1. /\ Settles(passes[mempool[n].by]) /\ passes[mempool[n].by].at = j
          /\ Settles(passes[mempool[k].by]) /\ passes[mempool[k].by].at = j
      BY <1>7, <2>1
    <3>2. mempool[n].by = mempool[k].by /\ mempool[n].by /= Nobody
      BY <1>2, <2>1, <3>1 DEF Apart, Pass, Nobody
    <3> QED BY <1>2, <3>2 DEF Waiting
  <2>2. Loose(mempool', j) <= Loose(mempool, j) + 1
    BY <1>2, <1>4, <2>1, LooseForget
  <2>3. CASE \A n \in DOMAIN mempool : Report_Of(mempool[n], j) => mempool[n].by \notin Pass
    <3>1. Loose(mempool', j) = Loose(mempool, j)
      BY <1>2, <1>4, <2>3, LooseForget
    <3> QED BY <1>0, <3>1
  <2>4. CASE \E n \in DOMAIN mempool : Report_Of(mempool[n], j) /\ mempool[n].by \in Pass
    BY <1>7, <2>2, <2>4
  <2> QED BY <2>2, <2>3, <2>4
<1>9. PerilOf(j)' <= PerilOf(j) + 1
  <2>1. /\ phase'[j] = phase[j] /\ (EngagedToMe(j)' <=> EngagedToMe(j))
        /\ (IsTried(j)' <=> IsTried(j))
    BY <1>1 DEF EngagedToMe, IsTried
  <2> QED BY <1>0, <1>6, <1>8, <2>1, PerilGrows
<1> QED BY <1>0, <1>1, <1>3, <1>9, ChargedStays

\* What the others do: a selection of the agent that is challenged sets its pass
\* astray, one that ends as the agent's no longer is one.
LEMMA OthersCharged ==
  ASSUME Books, Shape, [Next]_vars, NEW i \in Intent,
         \/ \E s \in Solver : SelectWinner(i, s)
         \/ ChallengeSelection(i) \/ OthersEnd(i) \/ Retire(i),
         NEW j \in Intent, ChargedAt(j)
  PROVE  ChargedAt(j)'
<1> USE DEF marketVars, bookVars, ghostVars, memoryVars, agentVars
<1>0. /\ Loose(mempool, j) \in Nat /\ PerilOf(j) \in Nat /\ untried[j] \in Nat /\ Causes \in Nat
      /\ Loose(mempool', j) \in Nat /\ PerilOf(j)' \in Nat /\ Causes' \in Nat
  BY CountTypesNext
<1>1. UNCHANGED <<passes, mempool, tried, untried, restarts, giveUps, staleActs>>
  BY DEF SelectWinner, ChallengeSelection, OthersEnd, Retire
<1>2. /\ restarts \in Nat /\ giveUps \in Nat /\ challenges \in Nat /\ staleActs \in Nat
      /\ due \in [Intent -> Nat] /\ phase \in [Intent -> Phase]
      /\ engaged \in [Intent -> Solver \cup {Nil}] /\ selections \in [Intent -> 0 .. MaxSelections]
  BY DEF Books
<1>3. challenges' \in {challenges, challenges + 1}
  BY DEF SelectWinner, ChallengeSelection, OthersEnd, Retire
<1>4. Causes' >= Causes
  <2>1. Causes' = restarts + giveUps + challenges' + staleActs
    BY <1>1 DEF Causes
  <2>2. CASE challenges' = challenges
    BY <1>2, <2>1, <2>2 DEF Causes
  <2>3. CASE challenges' = challenges + 1
    BY <1>2, <2>1, <2>3 DEF Causes
  <2> QED BY <1>3, <2>2, <2>3
<1>5. ASSUME PerilOf(j)' <= PerilOf(j) PROVE ChargedAt(j)'
  BY <1>0, <1>1, <1>4, <1>5, ChargedStays
<1>6. ASSUME phase'[j] = phase[j], engaged'[j] = engaged[j], selections'[j] = selections[j]
      PROVE  ChargedAt(j)'
  <2>1. EngagedToMe(j)' <=> EngagedToMe(j)
    BY <1>6 DEF EngagedToMe
  <2>2. IsTried(j)' <=> IsTried(j)
    BY <1>1, <1>6 DEF IsTried
  <2>3. PerilOf(j)' <= PerilOf(j)
    BY <1>0, <1>1, <1>6, <2>1, <2>2, PerilFalls
  <2> QED BY <1>5, <2>3
<1>7. CASE j /= i
  <2>1. phase'[j] = phase[j] /\ engaged'[j] = engaged[j]
    BY <1>2, <1>7 DEF SelectWinner, ChallengeSelection, OthersEnd, Retire, Market!Engage,
       Market!Keep, Market!Miss, Market!Excuse, Market!Drop, Market!Release
  <2>2. selections'[j] = selections[j]
    BY <1>2, <1>7 DEF SelectWinner, ChallengeSelection, OthersEnd, Retire
  <2> QED BY <1>6, <2>1, <2>2
<1>8. CASE j = i /\ \E s \in Solver : SelectWinner(i, s)
  <2>1. phase[j] = "OPEN"
    BY <1>8 DEF SelectWinner, Market!Engage
  <2>2. Live(j) /\ ~EngagedToMe(j)
    BY <2>1 DEF Live, EngagedToMe
  <2>3. PerilOf(j)' <= PerilOf(j)
    BY <1>0, <1>1, <2>2, PerilSelected
  <2> QED BY <1>5, <2>3
<1>9. CASE j = i /\ ChallengeSelection(i)
  <2>1. phase[j] = "SELECTED" /\ challenges' = challenges + 1
    BY <1>9 DEF ChallengeSelection, Market!Excuse, Market!Release
  <2>2. PerilOf(j) >= Loose(mempool, j)
    BY <1>0, <2>1, PerilType DEF Live
  <2>3. PerilOf(j)' <= Loose(mempool', j) + 1
    BY <1>0 DEF PerilOf, Peril
  <2>4. PerilOf(j)' <= PerilOf(j) + 1
    BY <1>0, <1>1, <2>2, <2>3
  <2>5. Causes' >= Causes + 1
    BY <1>1, <1>2, <2>1 DEF Causes
  <2> QED BY <1>0, <1>1, <2>4, <2>5, ChargedStays
<1>10. CASE j = i /\ OthersEnd(i)
  <2>1. phase[j] = "SELECTED" /\ engaged[j] /= Me
    BY <1>10 DEF OthersEnd, Market!Keep, Market!Miss, Market!Release
  <2>2. Live(j) /\ ~EngagedToMe(j)
    BY <2>1 DEF Live, EngagedToMe
  <2>3. PerilOf(j)' <= PerilOf(j)
    BY <1>0, <1>1, <2>2, PerilSelected
  <2> QED BY <1>5, <2>3
<1>11. CASE j = i /\ Retire(i)
  <2>1. phase'[j] \in {"CANCELLED", "EXPIRED"}
    BY <1>2, <1>11 DEF Retire, Market!Drop
  <2>2. PerilOf(j)' = 0
    BY <2>1 DEF PerilOf, Peril
  <2>3. PerilOf(j)' <= PerilOf(j)
    BY <1>0, <2>2
  <2> QED BY <1>5, <2>3
<1> QED BY <1>7, <1>8, <1>9, <1>10, <1>11

LEMMA ChargedNext ==
  ASSUME Books, Shape, [Next]_vars, NEW j \in Intent, ChargedAt(j)
  PROVE  ChargedAt(j)'
<1>1. CASE UNCHANGED vars \/ Tick \/ \E i \in Intent : Bar(i) \/ Unbar(i)
  <2>1. UNCHANGED <<phase, engaged, selections, passes, mempool, tried, untried, restarts,
                    giveUps, challenges, staleActs>>
    BY <1>1 DEF vars, Tick, Bar, Unbar, Market!Pass, marketVars, bookVars, memoryVars, ghostVars,
       faultVars, agentVars
  <2>2. PerilOf(j)' = PerilOf(j) /\ Causes' = Causes /\ untried'[j] = untried[j]
    BY <2>1 DEF PerilOf, EngagedToMe, IsTried, Causes
  <2> QED BY <2>2 DEF ChargedAt
<1> QED BY <1>1, AgentCharged, LandCharged, GiveUpCharged, RestartCharged, OthersCharged
        DEF Next

LEMMA InitCharged == Init => Charged
<1> SUFFICES ASSUME Init, NEW j \in Intent PROVE ChargedAt(j)
  BY DEF Charged
<1>1. mempool = << >> /\ untried[j] = 0 /\ phase[j] = "OPEN" /\ engaged[j] = Nil
      /\ \A p \in Pass : passes[p] = Idle
  BY DEF Init
<1>2. Loose(mempool, j) = 0
  <2>1. Orphans(mempool, j) = {}
    BY <1>1 DEF Orphans
  <2> QED BY <2>1, FS_EmptySet DEF Loose
<1>3. ~SettlesAt(passes, j) /\ ~EngagedToMe(j)
  BY <1>1, Places DEF SettlesAt, Settles, EngagedToMe, Idle
<1>4. PerilOf(j) = 0
  BY <1>2, <1>3 DEF PerilOf, Peril
<1>5. Causes = 0
  BY DEF Init, Causes
<1> QED BY <1>1, <1>4, <1>5 DEF ChargedAt

\* The agent reports the failure of a selection it never tried no more often, for any
\* intent, than it was restarted, lost a receipt, was challenged or acted on an old
\* record: settling keeps overlapping passes apart (settle of solver.ts).
THEOREM UntriedMissesAreExplained == Spec => []UntriedMissesHaveACause
<1>1. Books /\ Shape /\ Charged => UntriedMissesHaveACause
  <2> SUFFICES ASSUME Books, Shape, Charged, NEW j \in Intent
               PROVE  untried[j] <= restarts + giveUps + challenges + staleActs
    BY DEF UntriedMissesHaveACause
  <2>1. PerilOf(j) \in Nat /\ untried[j] \in Nat /\ Causes \in Nat
    BY CountTypes
  <2>2. untried[j] + PerilOf(j) <= Causes
    BY DEF Charged, ChargedAt
  <2>3. untried[j] <= Causes
    BY <2>1, <2>2
  <2> QED BY <2>3 DEF Causes
<1>2. Init => Books /\ Shape /\ Charged
  BY InitBooks, InitCharged
<1>3. (Books /\ Shape /\ Charged) /\ [Next]_vars => (Books /\ Shape /\ Charged)'
  <2> SUFFICES ASSUME Books, Shape, Charged, [Next]_vars PROVE (Books /\ Shape /\ Charged)'
    OBVIOUS
  <2>1. Books' /\ Shape'
    BY BooksNext, ShapeNext
  <2>2. \A j \in Intent : ChargedAt(j)'
    BY ChargedNext DEF Charged
  <2> QED BY <2>1, <2>2 DEF Charged
<1> QED BY <1>1, <1>2, <1>3, PTL DEF Spec


-----------------------------------------------------------------------------
(* The agent's world. *)

LEMMA WorldStep ==
  ASSUME Books, Shape, [Next]_vars PROVE [Market!Next]_marketVars
<1>1. ASSUME NEW i \in Intent, Market!Keep(i) \/ Market!Miss(i) \/ Market!Excuse(i) \/ Market!Drop(i)
      PROVE  Market!Next
  BY <1>1 DEF Market!Next
<1>2. CASE UNCHANGED vars
  BY <1>2 DEF vars
<1>3. ASSUME NEW p \in Pass, AgentStep(p) \/ GiveUp(p) PROVE UNCHANGED marketVars
  BY <1>3 DEF AgentStep, StartPass, Read, BeginSettle, BeginBid, PassOver, PlaceBid, Settle,
              Report, GiveUp
<1>4. CASE LandBid \/ Restart
  BY <1>4 DEF LandBid, Restart
<1>5. CASE LandSettle
  <2>1. Head(mempool).at \in Intent
    BY <1>5, HeadFacts DEF LandSettle, Lands
  <2> QED BY <1>1, <1>5, <2>1 DEF LandSettle
<1>6. CASE LandReport
  <2>1. Head(mempool).at \in Intent
    BY <1>6, HeadFacts DEF LandReport, Lands
  <2> QED BY <1>1, <1>6, <2>1 DEF LandReport
<1>7. ASSUME NEW i \in Intent, NEW s \in Solver, SelectWinner(i, s) PROVE Market!Next
  BY <1>7 DEF SelectWinner, Market!Next
<1>8. ASSUME NEW i \in Intent, ChallengeSelection(i) \/ OthersEnd(i) \/ Retire(i)
      PROVE  Market!Next
  BY <1>1, <1>8 DEF ChallengeSelection, OthersEnd, Retire
<1>9. CASE Tick
  BY <1>9 DEF Tick, Market!Next
<1>10. ASSUME NEW i \in Intent, Bar(i) \/ Unbar(i) PROVE UNCHANGED marketVars
  BY <1>10 DEF Bar, Unbar
<1> QED BY <1>2, <1>3, <1>4, <1>5, <1>6, <1>7, <1>8, <1>9, <1>10 DEF Next, Land

\* Whatever the agent believes, whatever of it is restarted or lands late, its world
\* moves as the market does, which the registry implements: an engagement is ended once,
\* and none is kept past its deadline.
THEOREM AgentIsInTheMarket == Spec => [][Market!Next]_marketVars
<1>1. (Books /\ Shape) /\ [Next]_vars => (Books /\ Shape)' /\ [Market!Next]_marketVars
  BY BooksNext, ShapeNext, WorldStep
<1> QED BY <1>1, InitBooks, PTL DEF Spec
=============================================================================
