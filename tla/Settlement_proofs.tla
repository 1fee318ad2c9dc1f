-------------------------- MODULE Settlement_proofs --------------------------
(***************************************************************************)
(* The money of a settlement, for every set of weights, every fee, every   *)
(* amount a router yields and every interleaving of settlements with the   *)
(* rest of the system: the frame holds exactly what it has not spent, it   *)
(* never spends more than its budget, it ends by having spent all of it,   *)
(* what it delivered clears both floors, and seen from outside it is one   *)
(* exchange on the terms of the intent.  Beside it a vault stays backed.   *)
(***************************************************************************)
EXTENDS RwaVault, SequenceTheorems, FiniteSetTheorems, TLAPS

Balances == [Account -> [Token -> Nat]]

-----------------------------------------------------------------------------
(* Shares in basis points. *)

LEMMA DivAdd ==
    ASSUME NEW x \in Nat, NEW y \in Nat
    PROVE  (x \div 10000) + (y \div 10000) <= (x + y) \div 10000
OBVIOUS

LEMMA DivMonotone ==
    ASSUME NEW x \in Nat, NEW y \in Nat, x <= y
    PROVE  x \div 10000 <= y \div 10000
OBVIOUS

LEMMA ShareIsNat ==
    ASSUME NEW v \in Nat, NEW a \in Nat
    PROVE  Share(v, a) \in Nat
<1>1. v * a \in Nat
  OBVIOUS
<1>2. QED
  BY <1>1 DEF Share, BPS

\* Two shares never take more than the share of both together.
LEMMA ShareAdd ==
    ASSUME NEW v \in Nat, NEW a \in Nat, NEW b \in Nat
    PROVE  Share(v, a) + Share(v, b) <= Share(v, a + b)
<1>1. v * a \in Nat /\ v * b \in Nat
  OBVIOUS
<1>2. v * (a + b) = v * a + v * b
  OBVIOUS
<1>3. QED
  BY <1>1, <1>2, DivAdd DEF Share, BPS

LEMMA ShareMonotone ==
    ASSUME NEW v \in Nat, NEW a \in Nat, NEW b \in Nat, a <= b
    PROVE  Share(v, a) <= Share(v, b)
<1>1. b - a \in Nat /\ b = a + (b - a)
  OBVIOUS
<1>2. Share(v, a) + Share(v, b - a) <= Share(v, b)
  BY <1>1, ShareAdd
<1>3. Share(v, b - a) \in Nat /\ Share(v, a) \in Nat /\ Share(v, b) \in Nat
  BY <1>1, ShareIsNat
<1>4. QED
  BY <1>2, <1>3

LEMMA ShareOfAll ==
    ASSUME NEW v \in Nat
    PROVE  Share(v, BPS) = v
BY DEF Share, BPS

LEMMA ShareIsPart ==
    ASSUME NEW v \in Nat, NEW a \in 0 .. BPS
    PROVE  Share(v, a) \in 0 .. v
<1>1. a \in Nat /\ BPS \in Nat /\ a <= BPS
  BY DEF BPS
<1>2. Share(v, a) <= v
  BY <1>1, ShareMonotone, ShareOfAll
<1>3. QED
  BY <1>1, <1>2, ShareIsNat

-----------------------------------------------------------------------------
(* Balances. *)

LEMMA DebitFacts ==
    ASSUME NEW l \in Balances, NEW a \in Account, NEW t \in Token, NEW v \in Nat,
           v <= l[a][t]
    PROVE  /\ Debit(l, a, t, v) \in Balances
           /\ \A b \in Account, u \in Token :
                 Debit(l, a, t, v)[b][u] = IF b = a /\ u = t THEN l[b][u] - v ELSE l[b][u]
BY DEF Debit, Balances

LEMMA CreditFacts ==
    ASSUME NEW l \in Balances, NEW a \in Account, NEW t \in Token, NEW v \in Nat
    PROVE  /\ Credit(l, a, t, v) \in Balances
           /\ \A b \in Account, u \in Token :
                 Credit(l, a, t, v)[b][u] = IF b = a /\ u = t THEN l[b][u] + v ELSE l[b][u]
BY DEF Credit, Balances

LEMMA MoveFacts ==
    ASSUME NEW l \in Balances, NEW a \in Account, NEW b \in Account,
           NEW t \in Token, NEW v \in Nat, v <= l[a][t]
    PROVE  /\ Move(l, a, b, t, v) \in Balances
           /\ \A u \in Token :
                 /\ a = This /\ b /= This =>
                       Move(l, a, b, t, v)[This][u] =
                          IF u = t THEN l[This][u] - v ELSE l[This][u]
                 /\ a /= This /\ b = This =>
                       Move(l, a, b, t, v)[This][u] =
                          IF u = t THEN l[This][u] + v ELSE l[This][u]
                 /\ a /= This /\ b /= This => Move(l, a, b, t, v)[This][u] = l[This][u]
<1> DEFINE d == Debit(l, a, t, v)
<1>1. /\ d \in Balances
      /\ \A c \in Account, u \in Token :
            d[c][u] = IF c = a /\ u = t THEN l[c][u] - v ELSE l[c][u]
  BY DebitFacts
<1>2. Move(l, a, b, t, v) = Credit(d, b, t, v)
  BY DEF Move
<1> HIDE DEF d
<1>3. /\ Credit(d, b, t, v) \in Balances
      /\ \A c \in Account, u \in Token :
            Credit(d, b, t, v)[c][u] = IF c = b /\ u = t THEN d[c][u] + v ELSE d[c][u]
  BY <1>1, CreditFacts
<1>4. This \in Account
  BY SettlementAssumption
<1>5. QED
  BY <1>1, <1>2, <1>3, <1>4

-----------------------------------------------------------------------------
(* Engagements. *)

DealOK(e) ==
    /\ e.owner \in Account \ {This}
    /\ e.recipient \in Account \ {This}
    /\ e.solver \in Account
    /\ e.inputToken \in Token
    /\ e.inputAmount \in Nat
    /\ e.feeBps \in Nat
    /\ e.legs \in Seq(Leg)
    /\ e.guaranteedOut \in Seq(Nat)
    /\ e.exits \in Seq(Exit)
    /\ \A x \in DOMAIN e.exits : e.exits[x].token /= e.inputToken
    /\ \A k, l \in DOMAIN e.legs : k <= l => e.legs[k].upTo <= e.legs[l].upTo

Signed(e) == e.solver /= This /\ Len(e.guaranteedOut) = Len(e.legs)

LEMMA OfferedDeal ==
    ASSUME NEW i \in Intent, NEW e \in Engagement[i]
    PROVE  e \in EngagementRecord /\ DealOK(e) /\ Signed(e)
<1>1. e \in EngagementRecord /\ e \in UNION {Engagement[j] : j \in Intent}
  BY SettlementAssumption
<1>2. DealOK(e) /\ Signed(e)
  BY <1>1, SettlementAssumption DEF EngagementRecord, DealOK, Signed
<1>3. QED
  BY <1>1, <1>2

LEMMA DraftDeal ==
    ASSUME NEW i \in Intent, NEW e \in Engagement[i]
    PROVE  DealOK(Draft(e))
<1>1. e \in EngagementRecord /\ DealOK(e)
  BY OfferedDeal
<1>2. /\ Draft(e).owner = e.owner
      /\ Draft(e).recipient = e.recipient
      /\ Draft(e).solver = This
      /\ Draft(e).inputToken = e.inputToken
      /\ Draft(e).inputAmount = e.inputAmount
      /\ Draft(e).feeBps = 0
      /\ Draft(e).legs = e.legs
      /\ Draft(e).guaranteedOut = << >>
      /\ Draft(e).exits = e.exits
  BY <1>1 DEF Draft, EngagementRecord
<1>3. This \in Account
  BY SettlementAssumption
<1>4. QED
  BY <1>1, <1>2, <1>3 DEF DealOK

-----------------------------------------------------------------------------
(* The inductive invariant: the types of what the money depends on, the    *)
(* engagements, and the frame, as a predicate of its own variables.        *)

Types ==
    /\ RwaTypeOK
    /\ ledger \in Balances
    /\ savedLedger \in Balances
    /\ status \in [Intent -> {"NONE", "OPEN", "SELECTED", "FULFILLED", "CANCELLED"}]
    /\ delivered \in [Intent -> Seq(Nat)]
    /\ protocolFeeShareBps \in 0 .. BPS
    /\ treasury \in Account \ {This}
    /\ cur \in Intent
    /\ notional \in Nat
    /\ spent \in Nat
    /\ received \in Seq(Nat)
    /\ leg \in Nat \ {0}
    /\ pc \in {"idle", "exits", "acquire"}
    /\ DOMAIN engagement = Intent

Deals ==
    \A i \in Intent :
       /\ DealOK(engagement[i])
       /\ status[i] \in {"SELECTED", "FULFILLED"} => Signed(engagement[i])

\* A fulfilled leg came out empty or above both floors.
Clears(e, k, got) == got /= 0 => got >= e.legs[k].minOut /\ got >= e.guaranteedOut[k]

Budget(e, n) == n - Share(n, e.feeBps)

\* The weights of the legs before leg k, summed.
Before(e, k) == IF k = 1 THEN 0 ELSE e.legs[k - 1].upTo

\* Before leg k of a purchase: each leg took at most its share, rounded down, so
\* together they took at most the share of all of them, and after the last leg
\* nothing is left.
Buying(e, n, s, k, got) ==
    /\ Len(e.legs) /= 0
    /\ e.legs[Len(e.legs)].upTo = BPS
    /\ Share(n, e.feeBps) <= n
    /\ k \in 1 .. Len(e.legs) + 1
    /\ Len(got) = k - 1
    /\ \A j \in 1 .. k - 1 : Clears(e, j, got[j])
    /\ IF k <= Len(e.legs) THEN s <= Share(Budget(e, n), Before(e, k))
                           ELSE s = Budget(e, n)

Frame ==
    /\ pc /= "idle" => /\ status[cur] = "SELECTED"
                       /\ \A t \in Token : savedLedger[This][t] = 0
    /\ pc = "exits" => spent = 0 /\ received = << >>
    /\ pc = "acquire" => Buying(E, notional, spent, leg, received)

SInv == Types /\ Deals /\ Frame /\ FrameIsFunded /\ FloorsBind

-----------------------------------------------------------------------------
(* What a leg costs. *)

\* Leg k is bought within the budget, and the legs up to it as well.
LEMMA LegIsWithinBudget ==
    ASSUME NEW e, DealOK(e), NEW n \in Nat, NEW s \in Nat, NEW k, NEW got,
           Buying(e, n, s, k, got), k <= Len(e.legs)
    PROVE  /\ Budget(e, n) \in Nat
           /\ s <= Budget(e, n)
           /\ WeightOf(e.legs, k) \in Nat
           /\ k < Len(e.legs) =>
                 s + Share(Budget(e, n), WeightOf(e.legs, k))
                    <= Share(Budget(e, n), Before(e, k + 1))
<1> DEFINE b == Budget(e, n)
           w == WeightOf(e.legs, k)
<1>1. /\ e.feeBps \in Nat
      /\ e.legs \in Seq(Leg)
      /\ \A i, j \in DOMAIN e.legs : i <= j => e.legs[i].upTo <= e.legs[j].upTo
  BY DEF DealOK
<1>2. /\ k \in 1 .. Len(e.legs)
      /\ Len(e.legs) \in Nat
      /\ DOMAIN e.legs = 1 .. Len(e.legs)
  BY <1>1 DEF Buying
<1>3. ASSUME NEW j \in 1 .. Len(e.legs) PROVE e.legs[j].upTo \in Nat
  <2>1. e.legs[j] \in Leg
    BY <1>1, <1>2
  <2>2. QED
    BY <2>1 DEF Leg
<1>4. b \in Nat
  <2>1. Share(n, e.feeBps) \in Nat
    BY <1>1, ShareIsNat
  <2>2. Share(n, e.feeBps) <= n
    BY DEF Buying
  <2>3. QED
    BY <2>1, <2>2 DEF Budget
<1>5. /\ Before(e, k) \in Nat
      /\ w \in Nat
      /\ Before(e, k) + w = e.legs[k].upTo
      /\ Before(e, k + 1) = e.legs[k].upTo
  <2>1. CASE k = 1
    BY <2>1, <1>2, <1>3 DEF Before, WeightOf
  <2>2. CASE k /= 1
    <3>1. k - 1 \in 1 .. Len(e.legs) /\ k - 1 <= k /\ (k + 1) - 1 = k /\ k + 1 /= 1
      BY <2>2, <1>2
    <3>2. e.legs[k - 1].upTo <= e.legs[k].upTo
      BY <3>1, <1>1, <1>2
    <3>3. e.legs[k].upTo \in Nat /\ e.legs[k - 1].upTo \in Nat
      BY <3>1, <1>2, <1>3
    <3>4. /\ Before(e, k) = e.legs[k - 1].upTo
          /\ w = e.legs[k].upTo - e.legs[k - 1].upTo
          /\ Before(e, k + 1) = e.legs[k].upTo
      BY <2>2, <3>1 DEF Before, WeightOf
    <3>5. QED
      BY <3>2, <3>3, <3>4
  <2>3. QED
    BY <2>1, <2>2
<1>6. s <= Share(b, Before(e, k))
  BY DEF Buying
<1> HIDE DEF b, w
<1>7. /\ Share(b, Before(e, k)) \in Nat
      /\ Share(b, w) \in Nat
      /\ Share(b, e.legs[k].upTo) \in Nat
      /\ Share(b, Before(e, k)) + Share(b, w) <= Share(b, e.legs[k].upTo)
  BY <1>2, <1>3, <1>4, <1>5, ShareAdd, ShareIsNat
<1>8. Share(b, e.legs[k].upTo) <= b
  <2>1. Len(e.legs) \in 1 .. Len(e.legs) /\ k <= Len(e.legs)
    BY <1>2
  <2>2. e.legs[k].upTo <= e.legs[Len(e.legs)].upTo
    BY <2>1, <1>1, <1>2
  <2>3. e.legs[Len(e.legs)].upTo = BPS /\ BPS \in Nat
    BY DEF Buying, BPS
  <2>4. e.legs[k].upTo \in Nat
    BY <1>2, <1>3
  <2>5. QED
    BY <2>2, <2>3, <2>4, <1>4, ShareMonotone, ShareOfAll
<1>9. QED
  BY <1>4, <1>5, <1>6, <1>7, <1>8 DEF b, w
-----------------------------------------------------------------------------
(* Facts of a running frame. *)

LEMMA FrameDeal ==
    ASSUME SInv, pc /= "idle"
    PROVE  DealOK(E) /\ Signed(E) /\ cur \in Intent
BY DEF SInv, Types, Deals, Frame, E

LEMMA AmountFacts ==
    ASSUME SInv, pc = "acquire", leg <= Len(E.legs)
    PROVE  /\ AmountIn(leg) \in Nat
           /\ Spendable \in Nat
           /\ Spendable <= notional
           /\ spent + AmountIn(leg) <= Spendable
           /\ IF leg + 1 <= Len(E.legs)
                THEN spent + AmountIn(leg) <= Share(Spendable, Before(E, leg + 1))
                ELSE spent + AmountIn(leg) = Spendable
<1>1. DealOK(E) /\ notional \in Nat /\ spent \in Nat
  BY FrameDeal DEF SInv, Types
<1>2. Buying(E, notional, spent, leg, received)
  BY DEF SInv, Frame
<1>3. Spendable = Budget(E, notional)
  BY DEF Spendable, Fee, Budget
<1>4. /\ Spendable \in Nat
      /\ spent <= Spendable
      /\ WeightOf(E.legs, leg) \in Nat
      /\ leg < Len(E.legs) =>
            spent + Share(Spendable, WeightOf(E.legs, leg))
               <= Share(Spendable, Before(E, leg + 1))
  BY <1>1, <1>2, <1>3, LegIsWithinBudget
<1>5. leg \in Nat /\ Len(E.legs) \in Nat
  BY <1>1 DEF SInv, Types, DealOK
<1>6. Spendable <= notional
  <2>1. Share(notional, E.feeBps) \in Nat
    BY <1>1, ShareIsNat DEF DealOK
  <2>2. QED
    BY <2>1, <1>1 DEF Spendable, Fee
<1>7. CASE leg = Len(E.legs)
  BY <1>1, <1>4, <1>5, <1>6, <1>7 DEF AmountIn
<1>8. CASE leg < Len(E.legs)
  <2>1. AmountIn(leg) = Share(Spendable, WeightOf(E.legs, leg))
    BY <1>8, <1>5 DEF AmountIn
  <2>2. AmountIn(leg) \in Nat
    BY <2>1, <1>4, ShareIsNat
  <2>3. spent + AmountIn(leg) <= Share(Spendable, Before(E, leg + 1))
    BY <2>1, <1>4, <1>8
  <2>4. Share(Spendable, Before(E, leg + 1)) <= Spendable
        /\ Share(Spendable, Before(E, leg + 1)) \in Nat
    <3>1. leg \in 1 .. Len(E.legs) /\ Before(E, leg + 1) = E.legs[leg].upTo
      BY <1>5, <1>8 DEF Before, SInv, Types
    <3>2. /\ Len(E.legs) \in DOMAIN E.legs
          /\ leg \in DOMAIN E.legs
          /\ E.legs[leg] \in Leg
      BY <3>1, <1>1 DEF DealOK
    <3>3. E.legs[leg].upTo <= E.legs[Len(E.legs)].upTo
      BY <3>1, <3>2, <1>1 DEF DealOK
    <3>4. E.legs[Len(E.legs)].upTo = BPS /\ BPS \in Nat
      BY <1>2 DEF Buying, BPS
    <3>5. E.legs[leg].upTo \in Nat
      BY <3>2 DEF Leg
    <3>6. /\ Share(Spendable, E.legs[leg].upTo) <= Share(Spendable, BPS)
          /\ Share(Spendable, E.legs[leg].upTo) \in Nat
      BY <3>3, <3>4, <3>5, <1>4, ShareMonotone, ShareIsNat
    <3>7. QED
      BY <3>1, <3>6, <1>4, ShareOfAll
  <2>5. QED
    BY <2>2, <2>3, <2>4, <1>1, <1>4, <1>5, <1>6, <1>8
<1>9. QED
  BY <1>5, <1>7, <1>8

\* One leg further: it came out empty or above both floors.
LEMMA LegStep ==
    ASSUME SInv, pc = "acquire", leg <= Len(E.legs),
           NEW out \in Nat, out = 0 \/ out >= FloorFor(leg),
           spent' = spent + AmountIn(leg),
           received' = Append(received, out),
           leg' = leg + 1,
           UNCHANGED <<pc, cur, engagement, status, notional, savedLedger>>
    PROVE  /\ Frame'
           /\ spent' \in Nat
           /\ received' \in Seq(Nat)
           /\ leg' \in Nat \ {0}
<1>1. DealOK(E) /\ Signed(E) /\ spent \in Nat /\ received \in Seq(Nat) /\ leg \in Nat \ {0}
  BY FrameDeal DEF SInv, Types
<1>2. Buying(E, notional, spent, leg, received)
  BY DEF SInv, Frame
<1>3. /\ AmountIn(leg) \in Nat
      /\ IF leg + 1 <= Len(E.legs)
           THEN spent + AmountIn(leg) <= Share(Spendable, Before(E, leg + 1))
           ELSE spent + AmountIn(leg) = Spendable
  BY AmountFacts
<1>4. spent' \in Nat /\ received' \in Seq(Nat) /\ leg' \in Nat \ {0}
  BY <1>1, <1>3
<1>5. Len(E.legs) \in Nat /\ Len(E.guaranteedOut) = Len(E.legs)
  BY <1>1 DEF DealOK, Signed
<1>6. /\ Len(received) = leg - 1
      /\ Len(received') = leg
      /\ received'[leg] = out
      /\ \A j \in 1 .. leg - 1 : received'[j] = received[j]
  BY <1>1, <1>2 DEF Buying
<1>7. Clears(E, leg, out)
  <2>1. leg \in DOMAIN E.legs /\ leg \in DOMAIN E.guaranteedOut
    BY SMTT(30), <1>1, <1>5 DEF DealOK
  <2>2. E.legs[leg] \in Leg /\ E.guaranteedOut[leg] \in Nat
    <3>1. E.legs \in Seq(Leg) /\ E.guaranteedOut \in Seq(Nat)
      BY <1>1 DEF DealOK
    <3>2. QED
      BY SMTT(30), <2>1, <3>1
  <2>3. E.legs[leg].minOut \in Nat
    BY <2>2 DEF Leg
  <2>4. QED
    BY SMTT(30), <2>2, <2>3 DEF Clears, FloorFor
<1>8. \A j \in 1 .. (leg + 1) - 1 : Clears(E, j, received'[j])
  BY <1>1, <1>2, <1>6, <1>7 DEF Buying
<1>9. Buying(E, notional, spent', leg + 1, received')
  <2>1. leg + 1 \in 1 .. Len(E.legs) + 1 /\ Len(received') = (leg + 1) - 1
    BY <1>1, <1>5, <1>6
  <2>2. IF leg + 1 <= Len(E.legs)
          THEN spent' <= Share(Budget(E, notional), Before(E, leg + 1))
          ELSE spent' = Budget(E, notional)
    BY <1>3 DEF Spendable, Fee, Budget
  <2>3. QED
    BY <2>1, <2>2, <1>2, <1>8 DEF Buying
<1>10. Frame'
  <2>1. E' = E
    BY DEF E
  <2>2. QED
    BY <2>1, <1>9 DEF SInv, Frame
<1>11. QED
  BY <1>4, <1>10
-----------------------------------------------------------------------------
(* The calls of settle. *)

LEMMA SameDeals ==
    ASSUME SInv, UNCHANGED <<engagement, status, delivered>>
    PROVE  Deals' /\ FloorsBind'
BY DEF SInv, Deals, FloorsBind

LEMMA BeginInv ==
    ASSUME SInv, NEW i \in Intent, Begin(i)
    PROVE  SInv'
<1> DEFINE e == engagement[i]
<1>1. /\ DealOK(e)
      /\ ledger \in Balances
      /\ \A t \in Token : ledger[This][t] = 0
  BY DEF SInv, Types, Deals, FrameIsFunded, Begin
<1>2. This \in Account /\ e.owner \in Account \ {This}
      /\ e.inputToken \in Token /\ e.inputAmount \in Nat
  BY <1>1, SettlementAssumption DEF DealOK
<1>3. e.inputAmount <= ledger[e.owner][e.inputToken]
  BY DEF Begin, CanPull
<1>4. ledger' = Move(ledger, e.owner, This, e.inputToken, e.inputAmount)
  BY DEF Begin
<1>5. /\ ledger' \in Balances
      /\ \A t \in Token : ledger'[This][t] =
            IF t = e.inputToken THEN ledger[This][t] + e.inputAmount ELSE ledger[This][t]
  BY <1>1, <1>2, <1>3, <1>4, MoveFacts
<1>6. Types'
  BY <1>2, <1>5 DEF SInv, Types, RwaTypeOK, IsAttested, Begin, rwaVars, roleVars
<1>7. Deals' /\ FloorsBind'
  BY SameDeals DEF Begin
<1>8. Frame'
  BY <1>1 DEF Begin, Frame
<1>9. FrameIsFunded'
  <2>1. pc' /= "idle" /\ E' = e /\ notional' = e.inputAmount /\ spent' = 0
    BY DEF Begin, E
  <2>2. ASSUME NEW t \in Token
        PROVE  ledger'[This][t] = IF t = e.inputToken THEN notional' - spent' ELSE 0
    BY <1>1, <1>2, <1>5, <2>1
  <2>3. QED
    BY <2>1, <2>2 DEF FrameIsFunded
<1>10. QED
  BY <1>6, <1>7, <1>8, <1>9 DEF SInv

LEMMA SellExitInv ==
    ASSUME SInv, NEW out \in RouterOut, SellExit(out)
    PROVE  SInv'
<1> DEFINE x == E.exits[leg]
           d == Debit(ledger, E.owner, x.token, x.amountIn)
<1>1. DealOK(E) /\ out \in Nat /\ ledger \in Balances /\ This \in Account
      /\ notional \in Nat /\ spent = 0 /\ leg \in Nat \ {0}
  BY FrameDeal, SettlementAssumption DEF SInv, Types, Frame, SellExit
<1>2. x.token \in Token /\ x.amountIn \in Nat /\ x.token /= E.inputToken
  <2>1. leg \in DOMAIN E.exits /\ E.exits[leg] \in Exit
    BY <1>1 DEF DealOK, SellExit
  <2>2. QED
    BY <2>1, <1>1 DEF DealOK, Exit
<1>3. /\ E.owner \in Account \ {This}
      /\ E.inputToken \in Token
      /\ x.amountIn <= ledger[E.owner][x.token]
  BY <1>1 DEF DealOK, SellExit, CanPull
<1>4. ledger' = Credit(d, This, E.inputToken, out)
  BY DEF SellExit
<1>5. d \in Balances /\ \A t \in Token : d[This][t] = ledger[This][t]
  BY <1>1, <1>2, <1>3, DebitFacts
<1> HIDE DEF d, x
<1>6. /\ ledger' \in Balances
      /\ \A t \in Token : ledger'[This][t] =
            IF t = E.inputToken THEN ledger[This][t] + out ELSE ledger[This][t]
  BY <1>1, <1>3, <1>4, <1>5, CreditFacts
<1>7. Types'
  BY SMTT(30), <1>1, <1>6 DEF SInv, Types, RwaTypeOK, SellExit, rwaVars, roleVars
<1>8. Deals' /\ FloorsBind'
  BY SameDeals DEF SellExit
<1>9. Frame'
  BY DEF SInv, SellExit, Frame
<1>10. FrameIsFunded'
  <2>1. pc' /= "idle" /\ pc /= "idle" /\ E' = E /\ notional' = notional + out /\ spent' = spent
    BY DEF SellExit, E
  <2>2. ASSUME NEW t \in Token
        PROVE  ledger'[This][t] = IF t = E.inputToken THEN notional' - spent' ELSE 0
    BY <1>1, <1>6, <2>1 DEF SInv, FrameIsFunded
  <2>3. QED
    BY <2>1, <2>2 DEF FrameIsFunded
<1>11. QED
  BY <1>7, <1>8, <1>9, <1>10 DEF SInv

LEMMA CheckInv ==
    ASSUME SInv, Check
    PROVE  SInv'
<1>1. DealOK(E) /\ notional \in Nat /\ spent = 0 /\ received = << >>
  BY FrameDeal DEF SInv, Types, Frame, Check
<1>2. Types'
  BY DEF SInv, Types, RwaTypeOK, Check, rwaVars, roleVars
<1>3. Deals' /\ FloorsBind'
  BY SameDeals DEF Check
<1>4. Buying(E, notional, 0, 1, << >>)
  <2>1. /\ Len(E.legs) \in Nat \ {0}
        /\ E.legs[Len(E.legs)].upTo = BPS
        /\ Share(notional, E.feeBps) <= notional
    BY <1>1 DEF Check, PolicyAccepts, Fee, DealOK
  <2>2. Share(notional, E.feeBps) \in Nat
    BY <1>1, ShareIsNat DEF DealOK
  <2>3. 0 <= Share(Budget(E, notional), 0)
    <3>1. Budget(E, notional) \in Nat
      BY <2>1, <2>2, <1>1 DEF Budget
    <3>2. QED
      BY <3>1, ShareIsNat
  <2>4. Before(E, 1) = 0 /\ 1 <= Len(E.legs)
    BY <2>1 DEF Before
  <2>5. Len(<< >>) = 1 - 1 /\ 1 .. 1 - 1 = {}
    OBVIOUS
  <2>6. QED
    BY <2>1, <2>3, <2>4, <2>5 DEF Buying
<1>5. Frame'
  <2>1. E' = E
    BY DEF Check, E
  <2>2. QED
    BY <2>1, <1>1, <1>4 DEF SInv, Frame, Check
<1>6. FrameIsFunded'
  <2>1. E' = E /\ pc /= "idle" /\ pc' /= "idle"
    BY DEF Check, E
  <2>2. QED
    BY <2>1 DEF SInv, FrameIsFunded, Check
<1>7. QED
  BY <1>2, <1>3, <1>5, <1>6 DEF SInv

LEMMA SkipLegInv ==
    ASSUME SInv, SkipLeg
    PROVE  SInv'
<1>1. spent' = spent + AmountIn(leg)
  BY DEF SkipLeg, SInv, Types
<1>2. Frame' /\ spent' \in Nat /\ received' \in Seq(Nat) /\ leg' \in Nat \ {0}
  BY <1>1, LegStep DEF SkipLeg
<1>3. Types'
  BY <1>2 DEF SInv, Types, RwaTypeOK, SkipLeg, rwaVars, roleVars
<1>4. Deals' /\ FloorsBind'
  BY SameDeals DEF SkipLeg
<1>5. FrameIsFunded'
  <2>1. E' = E /\ pc /= "idle" /\ pc' /= "idle"
    BY DEF SkipLeg, E
  <2>2. QED
    BY <2>1 DEF SInv, FrameIsFunded, SkipLeg
<1>6. QED
  BY <1>2, <1>3, <1>4, <1>5 DEF SInv

LEMMA AcquireInv ==
    ASSUME SInv, pc = "acquire", leg <= Len(E.legs), NEW out \in Nat, Acquire(out)
    PROVE  SInv'
<1> DEFINE amt == AmountIn(leg)
           tok == E.legs[leg].token
           d   == Debit(ledger, This, E.inputToken, amt)
<1>1. DealOK(E) /\ ledger \in Balances /\ This \in Account /\ leg \in Nat \ {0}
      /\ notional \in Nat /\ spent \in Nat
  BY FrameDeal, SettlementAssumption DEF SInv, Types
<1>2. amt \in Nat /\ spent + amt <= notional
  BY <1>1, AmountFacts
<1>3. E.inputToken \in Token /\ E.recipient \in Account \ {This} /\ tok \in Token
  <2>1. E.legs \in Seq(Leg) /\ leg \in DOMAIN E.legs
    BY <1>1 DEF DealOK
  <2>2. E.legs[leg] \in Leg
    BY <2>1
  <2>3. QED
    BY <1>1, <2>2 DEF DealOK, Leg
<1>4. ledger[This][E.inputToken] = notional - spent
  BY <1>3 DEF SInv, FrameIsFunded
<1>5. /\ ledger' = Credit(d, E.recipient, tok, out)
      /\ spent' = spent + amt
  BY DEF Acquire
<1>6. Frame' /\ spent' \in Nat /\ received' \in Seq(Nat) /\ leg' \in Nat \ {0}
  BY LegStep DEF Acquire
<1> HIDE DEF amt, tok
<1>7. d \in Balances /\ \A t \in Token : d[This][t] =
         IF t = E.inputToken THEN ledger[This][t] - amt ELSE ledger[This][t]
  BY <1>1, <1>2, <1>3, <1>4, DebitFacts
<1> HIDE DEF d
<1>8. ledger' \in Balances /\ \A t \in Token : ledger'[This][t] = d[This][t]
  <2> DEFINE to == E.recipient
  <2>1. d \in Balances /\ to \in Account /\ to /= This /\ tok \in Token /\ out \in Nat
    BY <1>3, <1>7
  <2>2. ledger' = Credit(d, to, tok, out)
    BY <1>5
  <2> HIDE DEF to
  <2>3. /\ Credit(d, to, tok, out) \in Balances
        /\ \A b \in Account, u \in Token : Credit(d, to, tok, out)[b][u] =
              IF b = to /\ u = tok THEN d[b][u] + out ELSE d[b][u]
    BY ONLY <2>1, CreditFacts
  <2>4. QED
    BY <2>1, <2>2, <2>3, <1>1
<1>9. Types'
  BY <1>6, <1>8 DEF SInv, Types, RwaTypeOK, Acquire, rwaVars, roleVars
<1>10. Deals' /\ FloorsBind'
  BY SameDeals DEF Acquire
<1>11. FrameIsFunded'
  <2>1. E' = E /\ pc' = pc /\ pc /= "idle" /\ notional' = notional
    BY DEF Acquire, E
  <2>2. ASSUME NEW t \in Token
        PROVE  ledger'[This][t] = IF t = E.inputToken THEN notional' - spent' ELSE 0
    BY <1>1, <1>2, <1>4, <1>5, <1>7, <1>8, <2>1 DEF SInv, FrameIsFunded
  <2>3. QED
    BY <2>1, <2>2 DEF FrameIsFunded
<1>12. QED
  BY <1>6, <1>9, <1>10, <1>11 DEF SInv
-----------------------------------------------------------------------------
(* The ends of settle. *)

\* At the end the fee alone is left, and both parties' shares of it are amounts.
LEMMA CloseAmounts ==
    ASSUME SInv, pc = "acquire", leg > Len(E.legs)
    PROVE  /\ Fee \in Nat /\ ProtocolFee \in Nat /\ Fee - ProtocolFee \in Nat
           /\ Fee <= notional
           /\ spent = notional - Fee
           /\ Spendable - spent = 0
<1>1. DealOK(E) /\ notional \in Nat /\ spent \in Nat /\ leg \in Nat
  BY FrameDeal DEF SInv, Types
<1>2. Buying(E, notional, spent, leg, received) /\ Len(E.legs) \in Nat
  BY <1>1 DEF SInv, Frame, DealOK
<1>3. spent = Budget(E, notional) /\ Share(notional, E.feeBps) <= notional
  BY <1>1, <1>2 DEF Buying
<1>4. Fee \in Nat
  BY <1>1, ShareIsNat DEF Fee, DealOK
<1>5. ProtocolFee \in 0 .. Fee
  BY <1>4, ShareIsPart DEF ProtocolFee, SInv, Types
<1>6. QED
  BY <1>1, <1>3, <1>4, <1>5 DEF Budget, Fee, Spendable

\* Fees and refund use up what the frame holds in the base token.
LEMMA PaidOutFacts ==
    ASSUME SInv, pc = "acquire", leg > Len(E.legs)
    PROVE  /\ PaidOut(ledger) \in Balances
           /\ \A t \in Token : PaidOut(ledger)[This][t] = 0
<1> DEFINE base == E.inputToken
           p    == ProtocolFee
           q    == Fee - ProtocolFee
           l1   == Move(ledger, This, treasury, base, p)
           l2   == Move(l1, This, E.solver, base, q)
<1>1. DealOK(E) /\ Signed(E) /\ ledger \in Balances /\ notional \in Nat /\ spent \in Nat
      /\ treasury \in Account \ {This} /\ This \in Account /\ leg \in Nat
  BY FrameDeal, SettlementAssumption DEF SInv, Types
<1>2. base \in Token /\ E.solver \in Account \ {This} /\ E.owner \in Account \ {This}
  BY <1>1 DEF DealOK, Signed
<1>3. /\ Fee \in Nat
      /\ Fee <= notional
      /\ spent = notional - Fee
      /\ Spendable - spent = 0
  BY CloseAmounts
<1>4. p \in Nat /\ q \in Nat /\ p + q = Fee
  <2>1. p \in Nat /\ q \in Nat
    BY CloseAmounts
  <2>2. QED
    BY <2>1, <1>3
<1>5. \A t \in Token : ledger[This][t] = IF t = base THEN Fee ELSE 0
  <2>1. \A t \in Token : ledger[This][t] = IF t = base THEN notional - spent ELSE 0
    BY DEF SInv, FrameIsFunded
  <2>2. notional - spent = Fee
    BY <1>1, <1>3
  <2>3. QED
    BY <2>1, <2>2
<1> HIDE DEF p, q
<1>6. l1 \in Balances /\ \A t \in Token : l1[This][t] = IF t = base THEN q ELSE 0
  <2>1. p <= ledger[This][base]
    BY <1>2, <1>4, <1>5
  <2>2. /\ l1 \in Balances
        /\ \A t \in Token : l1[This][t] =
              IF t = base THEN ledger[This][t] - p ELSE ledger[This][t]
    BY <2>1, <1>1, <1>2, <1>4, MoveFacts
  <2>3. QED
    BY <2>2, <1>2, <1>4, <1>5
<1> HIDE DEF l1
<1>7. l2 \in Balances /\ \A t \in Token : l2[This][t] = 0
  <2>1. q <= l1[This][base]
    BY <1>2, <1>4, <1>6
  <2>2. /\ l2 \in Balances
        /\ \A t \in Token : l2[This][t] =
              IF t = base THEN l1[This][t] - q ELSE l1[This][t]
    BY <2>1, <1>1, <1>2, <1>4, <1>6, MoveFacts
  <2>3. QED
    BY <2>2, <1>2, <1>4, <1>6
<1> HIDE DEF l2
<1>8. /\ Move(l2, This, E.owner, base, 0) \in Balances
      /\ \A t \in Token : Move(l2, This, E.owner, base, 0)[This][t] = 0
  <2>1. 0 <= l2[This][base] /\ 0 \in Nat
    BY <1>2, <1>7
  <2>2. /\ Move(l2, This, E.owner, base, 0) \in Balances
        /\ \A t \in Token : Move(l2, This, E.owner, base, 0)[This][t] =
              IF t = base THEN l2[This][t] - 0 ELSE l2[This][t]
    BY <2>1, <1>1, <1>2, <1>7, MoveFacts
  <2>3. QED
    BY <2>2, <1>7
<1>9. PaidOut(ledger) = Move(l2, This, E.owner, base, 0)
  BY <1>3 DEF PaidOut, base, p, q, l1, l2
<1>10. QED
  BY <1>8, <1>9

LEMMA FiledRequests ==
    ASSUME SInv, pc /= "idle", FileOnboarding
    PROVE  requests' \in Seq(Request)
<1>1. E.legs \in Seq(Leg) /\ requests \in Seq(Request)
  BY FrameDeal DEF SInv, Types, RwaTypeOK, DealOK
<1> DEFINE w == [k \in DOMAIN TokensOf(E) |-> [token |-> TokensOf(E)[k], resolved |-> FALSE]]
<1>2. w \in Seq(Request)
  <2>1. DOMAIN TokensOf(E) = 1 .. Len(E.legs) /\ Len(E.legs) \in Nat
    BY <1>1 DEF TokensOf
  <2>2. ASSUME NEW k \in 1 .. Len(E.legs)
        PROVE  [token |-> TokensOf(E)[k], resolved |-> FALSE] \in Request
    <3>1. E.legs[k] \in Leg
      BY <1>1, <2>2
    <3>2. TokensOf(E)[k] \in Token
      BY <3>1, <1>1 DEF TokensOf, Leg
    <3>3. QED
      BY <3>2 DEF Request
  <2>3. QED
    BY <2>1, <2>2
<1> HIDE DEF w
<1>3. requests \o w \in Seq(Request)
  BY <1>1, <1>2
<1>4. requests' = requests \/ requests' = requests \o w
  BY DEF FileOnboarding, Filed, w
<1>5. QED
  BY <1>1, <1>3, <1>4

\* Whatever ends the frame leaves it empty.
LEMMA EndFacts ==
    ASSUME SInv, EndFrame
    PROVE  /\ Frame'
           /\ cur' \in Intent /\ notional' \in Nat /\ spent' \in Nat /\ leg' \in Nat \ {0}
           /\ received' \in Seq(Nat) /\ savedLedger' \in Balances /\ pc' = "idle"
<1>1. NoIntent \in Intent
  BY SettlementAssumption DEF NoIntent
<1>2. Endowment \in Balances
  BY SettlementAssumption DEF Balances
<1>3. QED
  BY <1>1, <1>2 DEF EndFrame, Frame

LEMMA CloseInv ==
    ASSUME SInv, Close
    PROVE  SInv'
<1>1. ledger' \in Balances /\ \A t \in Token : ledger'[This][t] = 0
  BY PaidOutFacts DEF Close
<1>2. requests' \in Seq(Request)
  BY FiledRequests DEF Close
<1>3. Buying(E, notional, spent, leg, received)
      /\ DealOK(E) /\ Signed(E) /\ cur \in Intent /\ leg \in Nat \ {0}
  BY FrameDeal DEF SInv, Types, Frame, Close
<1>4. Types'
  BY <1>1, <1>2, EndFacts DEF Close, SInv, Types, RwaTypeOK, roleVars
<1>5. Deals'
  BY <1>3 DEF SInv, Types, Deals, Close, E
<1>6. FloorsBind'
  <2>1. Len(E.legs) \in Nat /\ DOMAIN E.legs = 1 .. Len(E.legs)
    BY <1>3 DEF DealOK
  <2>2. Len(received) = Len(E.legs) /\ \A k \in DOMAIN E.legs : Clears(E, k, received[k])
    BY <2>1, <1>3 DEF Buying, Close
  <2>3. ASSUME NEW i \in Intent, status'[i] = "FULFILLED"
        PROVE  /\ Len(delivered'[i]) = Len(engagement'[i].legs)
               /\ \A k \in DOMAIN engagement'[i].legs :
                     Clears(engagement'[i], k, delivered'[i][k])
    <3>1. CASE i = cur
      BY <3>1, <2>2 DEF Close, E, SInv, Types
    <3>2. CASE i /= cur
      BY <3>2, <2>3 DEF Close, SInv, Types, FloorsBind, Clears
    <3>3. QED
      BY <3>1, <3>2
  <2>4. QED
    BY <2>3 DEF FloorsBind, Clears
<1>7. FrameIsFunded'
  BY <1>1, EndFacts DEF Close, FrameIsFunded
<1>8. QED
  BY <1>4, <1>5, <1>6, <1>7, EndFacts DEF SInv, Close

LEMMA OnboardOnlyInv ==
    ASSUME SInv, OnboardOnly
    PROVE  SInv'
<1>1. requests' \in Seq(Request)
  BY FiledRequests DEF OnboardOnly
<1>2. DealOK(E) /\ Signed(E) /\ cur \in Intent /\ spent = 0 /\ notional = 0
  BY FrameDeal DEF SInv, Types, Frame, OnboardOnly
<1> DEFINE none == [k \in DOMAIN E.legs |-> 0]
<1>3. none \in Seq(Nat) /\ Len(none) = Len(E.legs) /\ \A k \in DOMAIN E.legs : none[k] = 0
  <2>1. E.legs \in Seq(Leg)
    BY <1>2 DEF DealOK
  <2>2. Len(E.legs) \in Nat /\ DOMAIN E.legs = 1 .. Len(E.legs)
    BY <2>1
  <2>3. none = [k \in 1 .. Len(E.legs) |-> 0]
    BY <2>2
  <2>4. QED
    BY <2>2, <2>3
<1>4. delivered' = [delivered EXCEPT ![cur] = none]
  BY DEF OnboardOnly
<1> HIDE DEF none
<1>5. Types'
  BY <1>1, <1>3, <1>4, EndFacts DEF OnboardOnly, SInv, Types, RwaTypeOK, roleVars
<1>6. Deals'
  BY <1>2 DEF SInv, Types, Deals, OnboardOnly, E
<1>7. FloorsBind'
  <2>1. ASSUME NEW i \in Intent, status'[i] = "FULFILLED"
        PROVE  /\ Len(delivered'[i]) = Len(engagement'[i].legs)
               /\ \A k \in DOMAIN engagement'[i].legs :
                     Clears(engagement'[i], k, delivered'[i][k])
    <3>1. CASE i = cur
      BY <3>1, <1>3, <1>4 DEF OnboardOnly, E, SInv, Types, Clears
    <3>2. CASE i /= cur
      BY <3>2, <2>1, <1>4 DEF OnboardOnly, SInv, Types, FloorsBind, Clears
    <3>3. QED
      BY <3>1, <3>2
  <2>2. QED
    BY <2>1 DEF FloorsBind, Clears
<1>8. FrameIsFunded'
  <2>1. \A t \in Token : ledger'[This][t] = 0
    BY <1>2 DEF OnboardOnly, SInv, FrameIsFunded
  <2>2. QED
    BY <2>1, EndFacts DEF OnboardOnly, FrameIsFunded
<1>9. QED
  BY <1>5, <1>6, <1>7, <1>8, EndFacts DEF SInv, OnboardOnly

LEMMA RevertInv ==
    ASSUME SInv, Revert
    PROVE  SInv'
<1>1. \A t \in Token : savedLedger[This][t] = 0
  BY DEF SInv, Frame, Revert
<1>2. Types'
  BY EndFacts DEF Revert, SInv, Types, RwaTypeOK, rwaVars, roleVars
<1>3. Deals' /\ FloorsBind'
  BY SameDeals DEF Revert
<1>4. FrameIsFunded'
  BY <1>1, EndFacts DEF Revert, FrameIsFunded
<1>5. QED
  BY <1>2, <1>3, <1>4, EndFacts DEF SInv, Revert
-----------------------------------------------------------------------------
(* Between frames. *)

LEMMA IdleFrame ==
    ASSUME SInv, pc = "idle", UNCHANGED frameVars,
           \A t \in Token : ledger'[This][t] = ledger[This][t]
    PROVE  Frame' /\ FrameIsFunded'
BY DEF SInv, Frame, FrameIsFunded, frameVars

\* What only moves an intent between the states before its end.
LEMMA RegistryInv ==
    ASSUME SInv, pc = "idle", NEW i \in Intent, NEW to \in {"OPEN", "SELECTED", "CANCELLED"},
           status' = [status EXCEPT ![i] = to],
           UNCHANGED <<rwaVars, ledger, delivered, roleVars, frameVars>>,
           DOMAIN engagement' = Intent,
           \A j \in Intent \ {i} : engagement'[j] = engagement[j],
           DealOK(engagement'[i]),
           to = "SELECTED" => Signed(engagement'[i])
    PROVE  SInv'
<1>1. Types'
  BY DEF SInv, Types, RwaTypeOK, rwaVars, roleVars, frameVars
<1>2. Deals'
  BY DEF SInv, Types, Deals
<1>3. FloorsBind'
  BY DEF SInv, Types, FloorsBind
<1>4. QED
  BY <1>1, <1>2, <1>3, IdleFrame DEF SInv

LEMMA SelectInv ==
    ASSUME SInv, NEW i \in Intent, Select(i)
    PROVE  SInv'
<1>1. PICK e \in Engagement[i] : engagement' = [engagement EXCEPT ![i] = e]
  BY DEF Select
<1>2. DealOK(e) /\ Signed(e)
  BY OfferedDeal
<1>3. /\ DOMAIN engagement' = Intent
      /\ engagement'[i] = e
      /\ \A j \in Intent \ {i} : engagement'[j] = engagement[j]
  BY <1>1 DEF SInv, Types
<1>4. QED
  BY <1>2, <1>3, RegistryInv DEF Select

LEMMA OthersInv ==
    ASSUME SInv, NEW i \in Intent, Declare(i) \/ ReportFailure(i) \/ Cancel(i)
    PROVE  SInv'
<1>1. DOMAIN engagement = Intent /\ DealOK(engagement[i])
  BY DEF SInv, Types, Deals
<1>2. CASE Declare(i)
  BY <1>1, <1>2, RegistryInv DEF Declare
<1>3. CASE ReportFailure(i)
  BY <1>1, <1>3, RegistryInv DEF ReportFailure
<1>4. CASE Cancel(i)
  BY <1>1, <1>4, RegistryInv DEF Cancel
<1>5. QED
  BY <1>2, <1>3, <1>4

\* Tokens sent from one account to another, none of them the contract.
LEMMA SendInv ==
    ASSUME SInv, pc = "idle", NEW a \in Account \ {This}, NEW b \in Account \ {This},
           NEW t \in Token, NEW v \in Nat, v <= ledger[a][t],
           ledger' = Move(ledger, a, b, t, v),
           UNCHANGED <<rwaVars, allowance, engagement, status, delivered, roleVars, frameVars>>
    PROVE  SInv'
<1>1. ledger \in Balances
  BY DEF SInv, Types
<1>2. ledger' \in Balances /\ \A u \in Token : ledger'[This][u] = ledger[This][u]
  BY <1>1, MoveFacts
<1>3. Types'
  BY <1>2 DEF SInv, Types, RwaTypeOK, rwaVars, roleVars, frameVars
<1>4. Deals' /\ FloorsBind'
  BY SameDeals
<1>5. QED
  BY <1>2, <1>3, <1>4, IdleFrame DEF SInv

LEMMA TransferInv ==
    ASSUME SInv, NEW x \in Transfers, Transfer(x)
    PROVE  SInv'
<1>1. /\ x.from \in Account \ {This} /\ x.to \in Account \ {This}
      /\ x.token \in Token /\ x.amount \in Nat /\ x.amount <= ledger[x.from][x.token]
  BY SettlementAssumption DEF Transfer
<1>2. QED
  BY <1>1, SendInv DEF Transfer

LEMMA GovernanceInv ==
    ASSUME SInv, Governance
    PROVE  SInv'
<1>1. protocolFeeShareBps' \in 0 .. BPS /\ treasury' \in Account \ {This}
  BY SettlementAssumption DEF Governance, SInv, Types
<1>2. Types'
  BY <1>1 DEF Governance, SInv, Types, RwaTypeOK, rwaVars, frameVars
<1>3. Deals' /\ FloorsBind'
  BY SameDeals DEF Governance
<1>4. QED
  BY <1>2, <1>3, IdleFrame DEF SInv, Governance

LEMMA RwaTypes ==
    ASSUME RwaTypeOK, RwaStep
    PROVE  RwaTypeOK'
<1>1. ASSUME NEW a \in Attestor, NEW t \in Subject, NEW reviewBy \in ReviewDates,
             Attest(a, t, reviewBy)
      PROVE  RwaTypeOK'
  <2>1. [active |-> TRUE, reviewBy |-> reviewBy] \in Attestation
    BY RWARegistryAssumption DEF Attestation
  <2>2. QED
    BY <1>1, <2>1 DEF RwaTypeOK, Attest
<1>2. ASSUME NEW a \in Attestor, NEW t \in Subject, Revoke(a, t)
      PROVE  RwaTypeOK'
  BY <1>2 DEF RwaTypeOK, Revoke, Attestation
<1>3. ASSUME NEW a \in Attestor, NEW n \in DOMAIN requests, NEW t \in Subject,
             ResolveOnboarding(a, n, t)
      PROVE  RwaTypeOK'
  <2>1. [token |-> t, resolved |-> TRUE] \in Request
    BY RWARegistryAssumption DEF Request
  <2>2. requests' \in Seq(Request)
    BY <1>3, <2>1, ExceptSeq DEF RwaTypeOK, ResolveOnboarding
  <2>3. QED
    BY <1>3, <2>2 DEF RwaTypeOK, ResolveOnboarding
<1>4. ASSUME NEW t \in Subject, RequestOnboarding(t)
      PROVE  RwaTypeOK'
  <2> DEFINE w == [k \in DOMAIN <<t>> |-> [token |-> <<t>>[k], resolved |-> FALSE]]
  <2>1. w \in Seq(Request)
    <3>1. DOMAIN <<t>> = 1 .. 1 /\ \A k \in 1 .. 1 : <<t>>[k] = t
      OBVIOUS
    <3>2. [token |-> t, resolved |-> FALSE] \in Request
      BY RWARegistryAssumption DEF Request
    <3>3. w = [k \in 1 .. 1 |-> [token |-> <<t>>[k], resolved |-> FALSE]]
      BY <3>1
    <3>4. \A k \in 1 .. 1 : [token |-> <<t>>[k], resolved |-> FALSE] \in Request
      BY <3>1, <3>2
    <3>5. w \in [1 .. 1 -> Request]
      BY <3>3, <3>4
    <3>6. QED
      BY <3>5
  <2>2. requests' = requests \o w
    BY <1>4 DEF RequestOnboarding, Filed
  <2> HIDE DEF w
  <2>3. requests' \in Seq(Request)
    BY <2>1, <2>2 DEF RwaTypeOK
  <2>4. QED
    BY <1>4, <2>3 DEF RwaTypeOK, RequestOnboarding
<1>5. ASSUME NEW a \in Attestor, NEW allowed \in BOOLEAN, SetAttestor(a, allowed)
      PROVE  RwaTypeOK'
  BY <1>5 DEF RwaTypeOK, SetAttestor
<1>6. CASE Tick
  BY <1>6 DEF RwaTypeOK, Tick
<1>7. QED
  BY <1>1, <1>2, <1>3, <1>4, <1>5, <1>6 DEF RwaStep

LEMMA AssetInv ==
    ASSUME SInv, AssetStep
    PROVE  SInv'
<1>1. Types'
  BY RwaTypes DEF AssetStep, SInv, Types, roleVars, frameVars
<1>2. Deals' /\ FloorsBind'
  BY SameDeals DEF AssetStep
<1>3. QED
  BY <1>1, <1>2, IdleFrame DEF SInv, AssetStep

-----------------------------------------------------------------------------
(* The theorems. *)

LEMMA InitSInv == Init => SInv
<1> SUFFICES ASSUME Init PROVE SInv
  OBVIOUS
<1>1. PICK f : /\ \A i \in Intent : f[i] \in Engagement[i]
               /\ engagement = [i \in Intent |-> Draft(f[i])]
  BY DEF Init
<1>2. \A i \in Intent : DealOK(engagement[i])
  BY <1>1, DraftDeal
<1>3. NoIntent \in Intent
  BY SettlementAssumption DEF NoIntent
<1>4. RwaTypeOK
  BY DEF Init, RwaInit, RwaTypeOK, Attestation
<1>5. Endowment \in Balances /\ \A t \in Token : Endowment[This][t] = 0
  BY SettlementAssumption DEF Balances
<1>6. Types
  BY <1>1, <1>3, <1>4, <1>5, SettlementAssumption DEF Init, Types, BPS
<1>7. Deals /\ FloorsBind
  BY <1>2 DEF Init, Deals, FloorsBind
<1>8. Frame /\ FrameIsFunded
  BY <1>5 DEF Init, Frame, FrameIsFunded
<1>9. QED
  BY <1>6, <1>7, <1>8 DEF SInv

LEMMA NextSInv == SInv /\ [Next]_vars => SInv'
<1> SUFFICES ASSUME SInv, [Next]_vars PROVE SInv'
  OBVIOUS
<1>1. ASSUME NEW i \in Intent, Begin(i) PROVE SInv'
  BY <1>1, BeginInv
<1>2. ASSUME NEW out \in RouterOut, SellExit(out) PROVE SInv'
  BY <1>2, SellExitInv
<1>3. ASSUME NEW out \in RouterOut, SwapLeg(out) PROVE SInv'
  BY <1>3, AcquireInv, SettlementAssumption DEF SwapLeg
<1>4. CASE HandOverLeg
  BY <1>4, AcquireInv, AmountFacts DEF HandOverLeg
<1>5. CASE OnboardOnly
  BY <1>5, OnboardOnlyInv
<1>6. CASE Check
  BY <1>6, CheckInv
<1>7. CASE SkipLeg
  BY <1>7, SkipLegInv
<1>8. CASE Close
  BY <1>8, CloseInv
<1>9. CASE Revert
  BY <1>9, RevertInv
<1>10. ASSUME NEW i \in Intent, Declare(i) \/ Select(i) \/ ReportFailure(i) \/ Cancel(i)
       PROVE  SInv'
  BY <1>10, SelectInv, OthersInv
<1>11. ASSUME NEW x \in Transfers, Transfer(x) PROVE SInv'
  BY <1>11, TransferInv
<1>12. CASE Governance
  BY <1>12, GovernanceInv
<1>13. CASE AssetStep
  BY <1>13, AssetInv
<1>14. CASE UNCHANGED vars
  BY <1>14 DEF vars, rwaVars, roleVars, frameVars, SInv, Types, RwaTypeOK, Deals,
               Frame, FrameIsFunded, FloorsBind, E
<1>15. QED
  BY <1>1, <1>2, <1>3, <1>4, <1>5, <1>6, <1>7, <1>8, <1>9, <1>10, <1>11, <1>12,
     <1>13, <1>14 DEF Next, SettleStep

LEMMA SInvariance == Spec => []SInv
<1>1. QED
  BY InitSInv, NextSInv, PTL DEF Spec

\* Between transactions the settlement contract holds nothing, and during one
\* exactly what it collected and has not spent, whatever deposits, exits, legs,
\* fees and refunds it makes (_collect, _acquire, _payFees, _refundDust).
THEOREM FramesAreFunded == Spec => []FrameIsFunded
<1>1. SInv => FrameIsFunded
  BY DEF SInv
<1>2. QED
  BY <1>1, SInvariance, PTL

LEMMA SpentIsWithinBudget == SInv => SpentWithinBudget
<1> SUFFICES ASSUME SInv, pc = "acquire" PROVE spent <= Spendable
  BY DEF SpentWithinBudget
<1>1. DealOK(E) /\ Buying(E, notional, spent, leg, received)
      /\ notional \in Nat /\ spent \in Nat /\ leg \in Nat \ {0} /\ Len(E.legs) \in Nat
  BY FrameDeal DEF SInv, Types, Frame, DealOK
<1>2. Spendable = Budget(E, notional)
  BY DEF Spendable, Fee, Budget
<1>3. CASE leg <= Len(E.legs)
  BY <1>1, <1>2, <1>3, LegIsWithinBudget
<1>4. CASE leg > Len(E.legs)
  <2>1. Share(notional, E.feeBps) \in Nat
    BY <1>1, ShareIsNat DEF DealOK
  <2>2. QED
    BY <1>1, <1>2, <1>4, <2>1 DEF Buying, Budget
<1>5. QED
  BY <1>1, <1>3, <1>4

\* For every list of weights that sums to the whole, rounding down leg by leg
\* never takes more than may be spent, so that the size of the last leg does not
\* underflow (_acquire).
THEOREM BudgetsHold == Spec => []SpentWithinBudget
BY SpentIsWithinBudget, SInvariance, PTL

LEMMA AllIsDeployed == SInv => FullyDeployed
<1> SUFFICES ASSUME SInv, pc = "acquire", leg > Len(E.legs) PROVE spent = Spendable
  BY DEF FullyDeployed
<1>1. Buying(E, notional, spent, leg, received) /\ leg \in Nat /\ Len(E.legs) \in Nat
  BY FrameDeal DEF SInv, Types, Frame, DealOK
<1>2. QED
  BY <1>1 DEF Buying, Spendable, Fee, Budget

\* When every leg was bought or passed over, all that may be spent was spent: the
\* refund is zero and the deployment test cannot fail (settle, _refundDust).
THEOREM DeploymentIsFull == Spec => []FullyDeployed
BY AllIsDeployed, SInvariance, PTL

\* A fulfilled intent has an amount for every leg, and each that is not zero clears
\* the user's floor and the guarantee of the bid selected last (_floorFor).
THEOREM FloorsAreBinding == Spec => []FloorsBind
<1>1. SInv => FloorsBind
  BY DEF SInv
<1>2. QED
  BY <1>1, SInvariance, PTL

-----------------------------------------------------------------------------
(* Sums.  A fold over a finite set is the value of a recursive function on its *)
(* subsets; that there is one, and only one, follows by smallest counterexample. *)

Pick(s) == CHOOSE x \in s : TRUE

\* g is the fold of f over the subsets of S, from base.
IsFold(f, base, S, g) ==
    g = [s \in SUBSET S |-> IF s = {} THEN base ELSE f[Pick(s)] + g[s \ {Pick(s)}]]

Total(f, base, S) == FoldFunctionOnSet(+, base, f, S)

LEMMA TotalIsFold ==
    ASSUME NEW f, NEW base, NEW S
    PROVE  Total(f, base, S) = (CHOOSE g : IsFold(f, base, S, g))[S]
BY DEF Total, FoldFunctionOnSet, MapThenFoldSet, IsFold, Pick

\* Among subsets of a finite set there is one with no smaller one among them.
LEMMA LeastSubset ==
    ASSUME NEW S, IsFiniteSet(S), NEW C, C \subseteq SUBSET S, C /= {}
    PROVE  \E T \in C : \A U \in SUBSET T : U /= T => U \notin C
<1>1. IsWellFoundedOn(StrictSubsetOrdering(S), SUBSET S)
  BY FS_StrictSubsetOrderingWellFounded, FS_FiniteSubsetsOfFinite
<1>2. PICK T \in C : \A U \in C : ~(<<U, T>> \in StrictSubsetOrdering(S))
  BY <1>1, WFMin
<1>3. ASSUME NEW U \in SUBSET T, U /= T, U \in C PROVE FALSE
  <2>1. <<U, T>> \in StrictSubsetOrdering(S)
    BY <1>3 DEF StrictSubsetOrdering
  <2>2. QED
    BY <1>2, <1>3, <2>1
<1>4. QED
  BY <1>2, <1>3

LEMMA PickIsIn ==
    ASSUME NEW s, s /= {}
    PROVE  Pick(s) \in s /\ s \ {Pick(s)} /= s
BY DEF Pick

LEMMA FoldAt ==
    ASSUME NEW f, NEW base, NEW S, NEW g, IsFold(f, base, S, g), NEW s \in SUBSET S
    PROVE  g[s] = IF s = {} THEN base ELSE f[Pick(s)] + g[s \ {Pick(s)}]
<1> DEFINE G == [t \in SUBSET S |-> IF t = {} THEN base ELSE f[Pick(t)] + g[t \ {Pick(t)}]]
<1>1. g = G
  BY DEF IsFold
<1>2. G[s] = IF s = {} THEN base ELSE f[Pick(s)] + g[s \ {Pick(s)}]
  OBVIOUS
<1> HIDE DEF G
<1>3. QED
  BY <1>1, <1>2

LEMMA FoldUnique ==
    ASSUME NEW f, NEW base, NEW S, IsFiniteSet(S), NEW g, IsFold(f, base, S, g),
           NEW T \in SUBSET S, NEW h, IsFold(f, base, T, h)
    PROVE  \A s \in SUBSET T : g[s] = h[s]
<1> DEFINE C == {s \in SUBSET T : g[s] /= h[s]}
<1> SUFFICES ASSUME C /= {} PROVE FALSE
  OBVIOUS
<1>1. C \subseteq SUBSET S
  OBVIOUS
<1>2. PICK s \in C : \A U \in SUBSET s : U /= s => U \notin C
  <2> HIDE DEF C
  <2>1. QED
    BY <1>1, LeastSubset
<1>3. s \in SUBSET T /\ s \in SUBSET S /\ g[s] /= h[s]
  OBVIOUS
<1> HIDE DEF C
<1>4. /\ g[s] = IF s = {} THEN base ELSE f[Pick(s)] + g[s \ {Pick(s)}]
      /\ h[s] = IF s = {} THEN base ELSE f[Pick(s)] + h[s \ {Pick(s)}]
  <2>1. g[s] = IF s = {} THEN base ELSE f[Pick(s)] + g[s \ {Pick(s)}]
    BY SMTT(30), <1>3, FoldAt
  <2>2. h[s] = IF s = {} THEN base ELSE f[Pick(s)] + h[s \ {Pick(s)}]
    BY <1>3, FoldAt
  <2>3. QED
    BY <2>1, <2>2
<1>5. s /= {}
  BY <1>3, <1>4
<1>6. s \ {Pick(s)} \in SUBSET s /\ s \ {Pick(s)} /= s /\ s \ {Pick(s)} \in SUBSET T
  BY <1>3, <1>5, PickIsIn
<1>7. g[s \ {Pick(s)}] = h[s \ {Pick(s)}]
  BY <1>2, <1>6 DEF C
<1>8. QED
  BY <1>3, <1>4, <1>5, <1>7

LEMMA FoldOfPart ==
    ASSUME NEW f, NEW base, NEW S, NEW g, IsFold(f, base, S, g), NEW T \in SUBSET S
    PROVE  IsFold(f, base, T, [s \in SUBSET T |-> g[s]])
<1> DEFINE h == [s \in SUBSET T |-> g[s]]
<1>1. ASSUME NEW s \in SUBSET T
      PROVE  h[s] = IF s = {} THEN base ELSE f[Pick(s)] + h[s \ {Pick(s)}]
  <2>1. s \in SUBSET S /\ s \ {Pick(s)} \in SUBSET T
    OBVIOUS
  <2>2. h[s] = g[s] /\ h[s \ {Pick(s)}] = g[s \ {Pick(s)}]
    BY <2>1
  <2> HIDE DEF h
  <2>3. QED
    BY <2>1, <2>2, FoldAt
<1>2. h = [s \in SUBSET T |-> h[s]]
  OBVIOUS
<1> HIDE DEF h
<1>3. h = [s \in SUBSET T |-> IF s = {} THEN base ELSE f[Pick(s)] + h[s \ {Pick(s)}]]
  BY <1>1, <1>2
<1>4. QED
  BY <1>3 DEF IsFold, h

\* Where there is a fold, Total has its values.
LEMMA TotalAt ==
    ASSUME NEW f, NEW base, NEW S, IsFiniteSet(S), NEW g, IsFold(f, base, S, g)
    PROVE  \A s \in SUBSET S : Total(f, base, s) = g[s]
<1> SUFFICES ASSUME NEW s \in SUBSET S PROVE Total(f, base, s) = g[s]
  OBVIOUS
<1>1. \E h : IsFold(f, base, s, h)
  BY FoldOfPart
<1> DEFINE h == CHOOSE x : IsFold(f, base, s, x)
<1>2. IsFold(f, base, s, h)
  BY <1>1
<1>3. Total(f, base, s) = h[s]
  BY TotalIsFold
<1> HIDE DEF h
<1>4. g[s] = h[s]
  BY <1>2, FoldUnique
<1>5. QED
  BY <1>3, <1>4

LEMMA TotalStepIn ==
    ASSUME NEW f, NEW base, NEW S, IsFiniteSet(S), NEW g, IsFold(f, base, S, g)
    PROVE  Total(f, base, S) = IF S = {} THEN base
                               ELSE f[Pick(S)] + Total(f, base, S \ {Pick(S)})
<1>1. S \in SUBSET S /\ S \ {Pick(S)} \in SUBSET S
  OBVIOUS
<1>2. Total(f, base, S) = g[S] /\ Total(f, base, S \ {Pick(S)}) = g[S \ {Pick(S)}]
  BY <1>1, TotalAt
<1>3. g[S] = IF S = {} THEN base ELSE f[Pick(S)] + g[S \ {Pick(S)}]
  BY <1>1, FoldAt
<1>4. QED
  BY <1>2, <1>3

LEMMA FoldExists ==
    ASSUME NEW f, NEW base, NEW S, IsFiniteSet(S)
    PROVE  \E g : IsFold(f, base, S, g)
<1> DEFINE C == {s \in SUBSET S : ~ \E g : IsFold(f, base, s, g)}
<1> SUFFICES ASSUME C /= {} PROVE FALSE
  OBVIOUS
<1>1. PICK T \in C : \A U \in SUBSET T : U /= T => U \notin C
  <2>1. C \subseteq SUBSET S
    OBVIOUS
  <2> HIDE DEF C
  <2>2. QED
    BY <2>1, LeastSubset
<1>2. T \in SUBSET S /\ ~ \E g : IsFold(f, base, T, g)
  OBVIOUS
<1>3. ASSUME NEW U \in SUBSET T, U /= T
      PROVE  /\ \E g : IsFold(f, base, U, g)
             /\ IsFiniteSet(U)
  BY <1>1, <1>2, <1>3, FS_Subset
<1> DEFINE h == [s \in SUBSET T |-> IF s = {} THEN base
                                     ELSE f[Pick(s)] + Total(f, base, s \ {Pick(s)})]
<1>4. ASSUME NEW s \in SUBSET T, s /= {}
      PROVE  h[s \ {Pick(s)}] = Total(f, base, s \ {Pick(s)})
  <2> DEFINE u == s \ {Pick(s)}
  <2>1. u \in SUBSET T /\ u /= T
    BY <1>4, PickIsIn
  <2>2. h[u] = IF u = {} THEN base ELSE f[Pick(u)] + Total(f, base, u \ {Pick(u)})
    BY <2>1
  <2> HIDE DEF h, u
  <2>3. PICK g : IsFold(f, base, u, g)
    BY <1>3, <2>1
  <2>4. IsFiniteSet(u)
    BY <1>3, <2>1
  <2>5. Total(f, base, u) = IF u = {} THEN base ELSE f[Pick(u)] + Total(f, base, u \ {Pick(u)})
    BY <2>3, <2>4, TotalStepIn
  <2>6. h[u] = Total(f, base, u)
    BY <2>2, <2>5
  <2>7. QED
    BY <2>6 DEF u
<1>5. h = [s \in SUBSET T |-> IF s = {} THEN base ELSE f[Pick(s)] + h[s \ {Pick(s)}]]
  <2>1. ASSUME NEW s \in SUBSET T
        PROVE  h[s] = IF s = {} THEN base ELSE f[Pick(s)] + h[s \ {Pick(s)}]
    <3>1. h[s] = IF s = {} THEN base ELSE f[Pick(s)] + Total(f, base, s \ {Pick(s)})
      OBVIOUS
    <3> HIDE DEF h
    <3>2. QED
      BY <1>4, <3>1
  <2>2. h = [s \in SUBSET T |-> h[s]]
    OBVIOUS
  <2> HIDE DEF h
  <2>3. QED
    BY <2>1, <2>2
<1>6. IsFold(f, base, T, h)
  BY <1>5 DEF IsFold
<1>7. QED
  BY <1>2, <1>6

\* What a fold over a finite set is, one element at a time.
LEMMA TotalStep ==
    ASSUME NEW f, NEW base, NEW S, IsFiniteSet(S)
    PROVE  Total(f, base, S) = IF S = {} THEN base
                               ELSE f[Pick(S)] + Total(f, base, S \ {Pick(S)})
BY FoldExists, TotalStepIn

LEMMA TotalIsNat ==
    ASSUME NEW f, NEW base \in Nat, NEW S, IsFiniteSet(S), \A x \in S : f[x] \in Nat
    PROVE  Total(f, base, S) \in Nat
<1> DEFINE C == {s \in SUBSET S : Total(f, base, s) \notin Nat}
<1> SUFFICES ASSUME C /= {} PROVE FALSE
  OBVIOUS
<1>1. PICK T \in C : \A U \in SUBSET T : U /= T => U \notin C
  <2>1. C \subseteq SUBSET S
    OBVIOUS
  <2> HIDE DEF C
  <2>2. QED
    BY <2>1, LeastSubset
<1>2. T \in SUBSET S /\ Total(f, base, T) \notin Nat /\ IsFiniteSet(T)
  BY FS_Subset
<1>3. T /= {}
  BY <1>2, TotalStep
<1>4. Pick(T) \in T /\ T \ {Pick(T)} \in SUBSET T /\ T \ {Pick(T)} /= T
  BY <1>3, PickIsIn
<1>5. Total(f, base, T \ {Pick(T)}) \in Nat
  BY <1>1, <1>2, <1>4
<1>6. f[Pick(T)] \in Nat
  BY <1>2, <1>4
<1>7. Total(f, base, T) = f[Pick(T)] + Total(f, base, T \ {Pick(T)})
  BY <1>2, <1>3, TotalStep
<1>8. QED
  BY <1>2, <1>5, <1>6, <1>7

LEMMA TotalSame ==
    ASSUME NEW f, NEW g, NEW base, NEW S, IsFiniteSet(S), \A x \in S : f[x] = g[x]
    PROVE  Total(f, base, S) = Total(g, base, S)
<1> DEFINE C == {s \in SUBSET S : Total(f, base, s) /= Total(g, base, s)}
<1> SUFFICES ASSUME C /= {} PROVE FALSE
  OBVIOUS
<1>1. PICK T \in C : \A U \in SUBSET T : U /= T => U \notin C
  <2>1. C \subseteq SUBSET S
    OBVIOUS
  <2> HIDE DEF C
  <2>2. QED
    BY <2>1, LeastSubset
<1>2. T \in SUBSET S /\ Total(f, base, T) /= Total(g, base, T) /\ IsFiniteSet(T)
  BY FS_Subset
<1>3. /\ Total(f, base, T) = IF T = {} THEN base ELSE f[Pick(T)] + Total(f, base, T \ {Pick(T)})
      /\ Total(g, base, T) = IF T = {} THEN base ELSE g[Pick(T)] + Total(g, base, T \ {Pick(T)})
  BY <1>2, TotalStep
<1>4. T /= {}
  BY <1>2, <1>3
<1>5. Pick(T) \in T /\ T \ {Pick(T)} \in SUBSET T /\ T \ {Pick(T)} /= T
  BY <1>4, PickIsIn
<1>6. Total(f, base, T \ {Pick(T)}) = Total(g, base, T \ {Pick(T)})
  BY <1>1, <1>2, <1>5
<1>7. f[Pick(T)] = g[Pick(T)]
  BY <1>2, <1>5
<1>8. QED
  BY <1>2, <1>3, <1>4, <1>6, <1>7

\* The order in which a fold takes its elements does not matter.
LEMMA TotalRemove ==
    ASSUME NEW f, NEW base \in Nat, NEW S, IsFiniteSet(S), \A x \in S : f[x] \in Nat
    PROVE  \A y \in S : Total(f, base, S) = f[y] + Total(f, base, S \ {y})
<1> DEFINE OK(s) == \A y \in s : Total(f, base, s) = f[y] + Total(f, base, s \ {y})
           C == {s \in SUBSET S : ~OK(s)}
<1> SUFFICES ASSUME C /= {} PROVE FALSE
  OBVIOUS
<1>1. PICK T \in C : \A U \in SUBSET T : U /= T => U \notin C
  <2>1. C \subseteq SUBSET S
    OBVIOUS
  <2> HIDE DEF C
  <2>2. QED
    BY <2>1, LeastSubset
<1>2. T \in SUBSET S /\ ~OK(T) /\ \A U \in SUBSET T : U /= T => OK(U)
  BY <1>1
<1>3. PICK y \in T : Total(f, base, T) /= f[y] + Total(f, base, T \ {y})
  BY <1>2
<1> HIDE DEF C
<1>4. \A U \in SUBSET S : IsFiniteSet(U) /\ Total(f, base, U) \in Nat
  <2>1. ASSUME NEW U \in SUBSET S PROVE IsFiniteSet(U) /\ Total(f, base, U) \in Nat
    <3>1. IsFiniteSet(U)
      BY FS_Subset
    <3>2. QED
      BY <3>1, TotalIsNat
  <2>2. QED
    BY <2>1
<1> DEFINE p == Pick(T)
           U == T \ {p}
           V == T \ {y}
<1>5. p \in T /\ U \in SUBSET T /\ U /= T /\ V \in SUBSET T /\ V /= T
  BY <1>3, PickIsIn
<1>6. Total(f, base, T) = f[p] + Total(f, base, U)
  BY <1>2, <1>3, <1>4, TotalStep
<1>7. p /= y
  BY <1>3, <1>6
<1>8. /\ Total(f, base, U) = f[y] + Total(f, base, U \ {y})
      /\ Total(f, base, V) = f[p] + Total(f, base, V \ {p})
  <2>1. OK(U) /\ OK(V)
    BY <1>2, <1>5
  <2>2. y \in U /\ p \in V
    BY <1>3, <1>5, <1>7
  <2> HIDE DEF p, U, V
  <2>3. QED
    BY <2>1, <2>2
<1>9. U \ {y} = V \ {p} /\ U \ {y} \in SUBSET S
  BY <1>2
<1>10. f[p] \in Nat /\ f[y] \in Nat /\ Total(f, base, U \ {y}) \in Nat
  BY <1>2, <1>3, <1>4, <1>5, <1>9
<1> HIDE DEF p, U
<1>11. Total(f, base, T) = f[y] + Total(f, base, V)
  BY <1>6, <1>8, <1>9, <1>10
<1>12. QED
  BY <1>3, <1>11

\* Functions that differ at one element differ by as much in total.
LEMMA TotalUpdate ==
    ASSUME NEW f, NEW g, NEW base \in Nat, NEW S, IsFiniteSet(S), NEW x \in S,
           \A y \in S : f[y] \in Nat /\ g[y] \in Nat,
           \A y \in S : y /= x => g[y] = f[y]
    PROVE  Total(g, base, S) + f[x] = Total(f, base, S) + g[x]
<1> DEFINE U == S \ {x}
<1>1. IsFiniteSet(U) /\ \A y \in U : f[y] = g[y] /\ f[y] \in Nat
  BY FS_RemoveElement
<1>2. Total(f, base, S) = f[x] + Total(f, base, U) /\ Total(g, base, S) = g[x] + Total(g, base, U)
  BY TotalRemove
<1> HIDE DEF U
<1>3. Total(f, base, U) = Total(g, base, U) /\ Total(f, base, U) \in Nat
  BY <1>1, TotalSame, TotalIsNat
<1>4. QED
  BY <1>2, <1>3

LEMMA TotalOfZeros ==
    ASSUME NEW f, NEW S, IsFiniteSet(S), \A x \in S : f[x] = 0
    PROVE  Total(f, 0, S) = 0
<1> DEFINE C == {s \in SUBSET S : Total(f, 0, s) /= 0}
<1> SUFFICES ASSUME C /= {} PROVE FALSE
  OBVIOUS
<1>1. PICK T \in C : \A U \in SUBSET T : U /= T => U \notin C
  <2>1. C \subseteq SUBSET S
    OBVIOUS
  <2> HIDE DEF C
  <2>2. QED
    BY <2>1, LeastSubset
<1>2. T \in SUBSET S /\ Total(f, 0, T) /= 0 /\ IsFiniteSet(T)
  BY FS_Subset
<1>3. Total(f, 0, T) = IF T = {} THEN 0 ELSE f[Pick(T)] + Total(f, 0, T \ {Pick(T)})
  BY <1>2, TotalStep
<1>4. T /= {}
  BY <1>2, <1>3
<1>5. Pick(T) \in T /\ T \ {Pick(T)} \in SUBSET T /\ T \ {Pick(T)} /= T
  BY <1>4, PickIsIn
<1>6. Total(f, 0, T \ {Pick(T)}) = 0 /\ f[Pick(T)] = 0
  BY <1>1, <1>2, <1>5
<1>7. QED
  BY <1>2, <1>3, <1>4, <1>6

\* Sums of the first n elements.
UpTo(f, n) == SumFunctionOnSet(f, 1 .. n)

LEMMA UpToIsTotal ==
    ASSUME NEW f, NEW n
    PROVE  UpTo(f, n) = Total(f, 0, 1 .. n)
BY DEF UpTo, SumFunctionOnSet, Total

LEMMA SumIsTotal ==
    ASSUME NEW f
    PROVE  SumFunction(f) = Total(f, 0, DOMAIN f)
BY DEF SumFunction, SumFunctionOnSet, Total

LEMMA UpToZero ==
    ASSUME NEW f
    PROVE  UpTo(f, 0) = 0
<1>1. 1 .. 0 = {} /\ IsFiniteSet({})
  BY FS_EmptySet
<1>2. QED
  BY <1>1, UpToIsTotal, TotalStep

LEMMA UpToIsNat ==
    ASSUME NEW f, NEW n \in Nat, \A k \in 1 .. n : f[k] \in Nat
    PROVE  UpTo(f, n) \in Nat
<1>1. IsFiniteSet(1 .. n)
  BY FS_Interval
<1>2. QED
  BY <1>1, UpToIsTotal, TotalIsNat

LEMMA UpToSame ==
    ASSUME NEW f, NEW g, NEW n \in Nat, \A k \in 1 .. n : f[k] = g[k]
    PROVE  UpTo(f, n) = UpTo(g, n)
<1>1. IsFiniteSet(1 .. n)
  BY FS_Interval
<1>2. QED
  BY <1>1, UpToIsTotal, TotalSame

LEMMA UpToZeros ==
    ASSUME NEW f, NEW n \in Nat, \A k \in 1 .. n : f[k] = 0
    PROVE  UpTo(f, n) = 0
<1>1. IsFiniteSet(1 .. n)
  BY FS_Interval
<1>2. QED
  BY <1>1, UpToIsTotal, TotalOfZeros

LEMMA UpToNext ==
    ASSUME NEW f, NEW n \in Nat, \A k \in 1 .. n + 1 : f[k] \in Nat
    PROVE  UpTo(f, n + 1) = UpTo(f, n) + f[n + 1]
<1> DEFINE S == 1 .. n + 1
<1>1. IsFiniteSet(S) /\ n + 1 \in S /\ S \ {n + 1} = 1 .. n
  BY FS_Interval
<1>2. Total(f, 0, S) = f[n + 1] + Total(f, 0, S \ {n + 1})
  BY <1>1, TotalRemove
<1>3. UpTo(f, n + 1) = Total(f, 0, S) /\ UpTo(f, n) = Total(f, 0, 1 .. n)
  BY UpToIsTotal
<1> HIDE DEF S
<1>4. UpTo(f, n + 1) = f[n + 1] + UpTo(f, n)
  BY <1>1, <1>2, <1>3
<1>5. f[n + 1] \in Nat /\ UpTo(f, n) \in Nat
  BY UpToIsNat
<1>6. QED
  BY <1>4, <1>5

-----------------------------------------------------------------------------
(* The ledger of a frame, account by account: what the owner gave, what the *)
(* recipient got and what the contract still holds.                         *)

Wide == [Account -> [Token -> Int]]

LEMMA CreditAt ==
    ASSUME NEW l \in Wide, NEW a \in Account, NEW t \in Token, NEW v \in Int
    PROVE  /\ Credit(l, a, t, v) \in Wide
           /\ \A c \in Account, u \in Token :
                 Credit(l, a, t, v)[c][u] = l[c][u] + (IF c = a /\ u = t THEN v ELSE 0)
BY DEF Credit, Wide

LEMMA DebitAt ==
    ASSUME NEW l \in Wide, NEW a \in Account, NEW t \in Token, NEW v \in Int
    PROVE  /\ Debit(l, a, t, v) \in Wide
           /\ \A c \in Account, u \in Token :
                 Debit(l, a, t, v)[c][u] = l[c][u] - (IF c = a /\ u = t THEN v ELSE 0)
BY DEF Debit, Wide

LEMMA PassAt ==
    ASSUME NEW l \in Wide, NEW a \in Account, NEW t \in Token, NEW v \in Int,
           NEW b \in Account, NEW u \in Token, NEW w \in Int
    PROVE  /\ Credit(Debit(l, a, t, v), b, u, w) \in Wide
           /\ \A c \in Account, x \in Token :
                 Credit(Debit(l, a, t, v), b, u, w)[c][x] =
                    l[c][x] - (IF c = a /\ x = t THEN v ELSE 0)
                            + (IF c = b /\ x = u THEN w ELSE 0)
<1> DEFINE d == Debit(l, a, t, v)
<1>1. /\ d \in Wide
      /\ \A c \in Account, x \in Token :
            d[c][x] = l[c][x] - (IF c = a /\ x = t THEN v ELSE 0)
  BY DebitAt
<1> HIDE DEF d
<1>2. /\ Credit(d, b, u, w) \in Wide
      /\ \A c \in Account, x \in Token :
            Credit(d, b, u, w)[c][x] = d[c][x] + (IF c = b /\ x = u THEN w ELSE 0)
  BY <1>1, CreditAt
<1>3. \A c \in Account, x \in Token :
         Credit(d, b, u, w)[c][x] = l[c][x] - (IF c = a /\ x = t THEN v ELSE 0)
                                            + (IF c = b /\ x = u THEN w ELSE 0)
  BY <1>1, <1>2
<1>4. QED
  BY <1>2, <1>3 DEF d

LEMMA BalancesAreWide == Balances \subseteq Wide
BY DEF Balances, Wide

Books(e, saved, l, held, give, take) ==
    \A a \in Account, t \in Token :
       l[a][t] = saved[a][t] + (IF a = This /\ t = e.inputToken THEN held ELSE 0)
                             - (IF a = e.owner THEN give[t] ELSE 0)
                             + (IF a = e.recipient THEN take[t] ELSE 0)

Sold(e, t)   ==
    [x \in DOMAIN e.exits |-> IF e.exits[x].token = t THEN e.exits[x].amountIn ELSE 0]
Floors(e)    == [x \in DOMAIN e.exits |-> e.exits[x].minOut]
Got(e, g, t) == [k \in DOMAIN g |-> IF e.legs[k].token = t THEN g[k] ELSE 0]
Parts(e, b)  == [k \in DOMAIN e.legs |-> Share(b, WeightOf(e.legs, k))]

\* After n exits, and after the legs that delivered g.
GaveBy(e, n) == [t \in Token |-> (IF e.inputToken = t THEN e.inputAmount ELSE 0)
                                    + UpTo(Sold(e, t), n)]
TookBy(e, g) == [t \in Token |-> UpTo(Got(e, g, t), Len(g))]

LEMMA SoldFacts ==
    ASSUME NEW e, DealOK(e), NEW t \in Token
    PROVE  /\ DOMAIN e.exits = 1 .. Len(e.exits) /\ Len(e.exits) \in Nat
           /\ \A k \in 1 .. Len(e.exits) :
                 /\ e.exits[k].token \in Token /\ e.exits[k].amountIn \in Nat
                 /\ e.exits[k].minOut \in Nat
                 /\ Sold(e, t)[k] \in Nat /\ Floors(e)[k] \in Nat
<1>1. e.exits \in Seq(Exit)
  BY DEF DealOK
<1>2. DOMAIN e.exits = 1 .. Len(e.exits) /\ Len(e.exits) \in Nat
  BY <1>1
<1>3. ASSUME NEW k \in 1 .. Len(e.exits)
      PROVE  /\ e.exits[k].token \in Token /\ e.exits[k].amountIn \in Nat
             /\ e.exits[k].minOut \in Nat
             /\ Sold(e, t)[k] \in Nat /\ Floors(e)[k] \in Nat
  <2>1. e.exits[k] \in Exit
    BY <1>1, <1>2
  <2>2. e.exits[k].token \in Token /\ e.exits[k].amountIn \in Nat /\ e.exits[k].minOut \in Nat
    BY <2>1 DEF Exit
  <2>3. QED
    BY <1>2, <2>2 DEF Sold, Floors
<1>4. QED
  BY <1>2, <1>3

LEMMA GaveByNat ==
    ASSUME NEW e, DealOK(e), NEW n \in 0 .. Len(e.exits)
    PROVE  \A t \in Token : GaveBy(e, n)[t] \in Nat /\ UpTo(Sold(e, t), n) \in Nat
<1>1. ASSUME NEW t \in Token PROVE GaveBy(e, n)[t] \in Nat /\ UpTo(Sold(e, t), n) \in Nat
  <2>1. n \in Nat /\ \A k \in 1 .. n : Sold(e, t)[k] \in Nat
    BY SoldFacts
  <2>2. UpTo(Sold(e, t), n) \in Nat
    BY <2>1, UpToIsNat
  <2>3. QED
    BY <2>2 DEF GaveBy, DealOK
<1>2. QED
  BY <1>1

\* One exit further.
LEMMA GaveByNext ==
    ASSUME NEW e, DealOK(e), NEW n \in Nat, n < Len(e.exits)
    PROVE  \A t \in Token : GaveBy(e, n + 1)[t] =
              GaveBy(e, n)[t]
                 + (IF e.exits[n + 1].token = t THEN e.exits[n + 1].amountIn ELSE 0)
<1>1. ASSUME NEW t \in Token
      PROVE  GaveBy(e, n + 1)[t] =
                GaveBy(e, n)[t]
                   + (IF e.exits[n + 1].token = t THEN e.exits[n + 1].amountIn ELSE 0)
  <2>1. /\ Len(e.exits) \in Nat /\ DOMAIN e.exits = 1 .. Len(e.exits)
        /\ \A k \in 1 .. Len(e.exits) : Sold(e, t)[k] \in Nat
    BY SoldFacts
  <2>2. n + 1 \in 1 .. Len(e.exits) /\ \A k \in 1 .. n + 1 : Sold(e, t)[k] \in Nat
    BY <2>1
  <2>3. UpTo(Sold(e, t), n + 1) = UpTo(Sold(e, t), n) + Sold(e, t)[n + 1]
    BY <2>2, UpToNext
  <2>4. Sold(e, t)[n + 1] = IF e.exits[n + 1].token = t THEN e.exits[n + 1].amountIn ELSE 0
    BY <2>1, <2>2 DEF Sold
  <2>5. UpTo(Sold(e, t), n) \in Nat /\ e.inputAmount \in Nat /\ Sold(e, t)[n + 1] \in Nat
    <3>1. n \in 0 .. Len(e.exits)
      BY <2>1
    <3>2. QED
      BY <3>1, <2>1, <2>2, GaveByNat DEF DealOK
  <2>6. /\ GaveBy(e, n + 1)[t] = (IF e.inputToken = t THEN e.inputAmount ELSE 0)
                                   + UpTo(Sold(e, t), n + 1)
        /\ GaveBy(e, n)[t] = (IF e.inputToken = t THEN e.inputAmount ELSE 0)
                               + UpTo(Sold(e, t), n)
    BY DEF GaveBy
  <2> DEFINE in == IF e.inputToken = t THEN e.inputAmount ELSE 0
  <2>7. in \in Nat
    BY <2>5
  <2> HIDE DEF in
  <2>8. GaveBy(e, n + 1)[t] = GaveBy(e, n)[t] + Sold(e, t)[n + 1]
    <3>1. GaveBy(e, n + 1)[t] = in + UpTo(Sold(e, t), n + 1)
          /\ GaveBy(e, n)[t] = in + UpTo(Sold(e, t), n)
      BY <2>6 DEF in
    <3>2. QED
      BY <3>1, <2>3, <2>5, <2>7
  <2>9. QED
    BY <2>4, <2>8
<1>2. QED
  BY <1>1

\* One leg further.
LEMMA TookByNext ==
    ASSUME NEW e, NEW g \in Seq(Nat), NEW out \in Nat, NEW t \in Token
    PROVE  /\ TookBy(e, Append(g, out))[t] =
                 TookBy(e, g)[t] + (IF e.legs[Len(g) + 1].token = t THEN out ELSE 0)
           /\ TookBy(e, g)[t] \in Nat
<1> DEFINE h == Append(g, out)
           n == Len(g)
<1>1. /\ n \in Nat /\ Len(h) = n + 1 /\ DOMAIN g = 1 .. n /\ DOMAIN h = 1 .. n + 1
      /\ \A k \in 1 .. n : h[k] = g[k] /\ g[k] \in Nat
      /\ h[n + 1] = out
  OBVIOUS
<1> HIDE DEF h, n
<1>2. \A k \in 1 .. n : Got(e, h, t)[k] = Got(e, g, t)[k] /\ Got(e, g, t)[k] \in Nat
  BY <1>1 DEF Got
<1>3. Got(e, h, t)[n + 1] = IF e.legs[n + 1].token = t THEN out ELSE 0
  <2>1. n + 1 \in DOMAIN h
    BY <1>1
  <2>2. QED
    BY <2>1, <1>1 DEF Got
<1>4. \A k \in 1 .. n + 1 : Got(e, h, t)[k] \in Nat
  <2>1. \A k \in 1 .. n + 1 : k = n + 1 \/ k \in 1 .. n
    BY <1>1
  <2>2. QED
    BY <2>1, <1>2, <1>3
<1>5. UpTo(Got(e, h, t), n + 1) = UpTo(Got(e, h, t), n) + Got(e, h, t)[n + 1]
  BY <1>1, <1>4, UpToNext
<1>6. UpTo(Got(e, h, t), n) = UpTo(Got(e, g, t), n)
  BY <1>1, <1>2, UpToSame
<1>7. UpTo(Got(e, g, t), n) \in Nat
  BY <1>1, <1>2, UpToIsNat
<1>8. TookBy(e, h)[t] = UpTo(Got(e, h, t), n + 1) /\ TookBy(e, g)[t] = UpTo(Got(e, g, t), n)
  BY <1>1 DEF TookBy, n
<1>9. QED
  BY <1>3, <1>5, <1>6, <1>7, <1>8 DEF h, n

\* What the owner gives for what the contract takes in, and what the contract
\* gives for what the recipient gets, keep the books.
LEMMA BooksIn ==
    ASSUME NEW e, DealOK(e), NEW saved \in Wide, NEW l \in Wide, NEW held \in Int,
           NEW give, NEW take, \A t \in Token : give[t] \in Int /\ take[t] \in Int,
           Books(e, saved, l, held, give, take),
           NEW t0 \in Token, NEW v \in Int, NEW w \in Int,
           NEW more, \A t \in Token : more[t] = give[t] + (IF t0 = t THEN v ELSE 0),
           NEW new, new = Credit(Debit(l, e.owner, t0, v), This, e.inputToken, w)
    PROVE  Books(e, saved, new, held + w, more, take)
<1>1. e.owner \in Account /\ e.owner /= This /\ e.inputToken \in Token /\ This \in Account
      /\ e.recipient /= This
  BY SettlementAssumption DEF DealOK
<1>2. \A a \in Account, t \in Token :
         new[a][t] = l[a][t] - (IF a = e.owner /\ t = t0 THEN v ELSE 0)
                             + (IF a = This /\ t = e.inputToken THEN w ELSE 0)
  <2> DEFINE from == e.owner
             base == e.inputToken
  <2>1. /\ l \in Wide /\ from \in Account /\ t0 \in Token /\ v \in Int
        /\ This \in Account /\ base \in Token /\ w \in Int
    BY <1>1
  <2>2. new = Credit(Debit(l, from, t0, v), This, base, w)
    OBVIOUS
  <2> HIDE DEF from, base
  <2>3. \A a \in Account, t \in Token :
           Credit(Debit(l, from, t0, v), This, base, w)[a][t] =
              l[a][t] - (IF a = from /\ t = t0 THEN v ELSE 0)
                      + (IF a = This /\ t = base THEN w ELSE 0)
    BY ONLY <2>1, PassAt
  <2>4. QED
    BY ONLY <2>2, <2>3 DEF from, base
<1>3. ASSUME NEW a \in Account, NEW t \in Token
      PROVE  new[a][t] = saved[a][t] + (IF a = This /\ t = e.inputToken THEN held + w ELSE 0)
                                     - (IF a = e.owner THEN more[t] ELSE 0)
                                     + (IF a = e.recipient THEN take[t] ELSE 0)
  <2>1. /\ new[a][t] = l[a][t] - (IF a = e.owner /\ t = t0 THEN v ELSE 0)
                               + (IF a = This /\ t = e.inputToken THEN w ELSE 0)
        /\ l[a][t] = saved[a][t] + (IF a = This /\ t = e.inputToken THEN held ELSE 0)
                                 - (IF a = e.owner THEN give[t] ELSE 0)
                                 + (IF a = e.recipient THEN take[t] ELSE 0)
        /\ more[t] = give[t] + (IF t0 = t THEN v ELSE 0)
    BY <1>2 DEF Books
  <2>2. saved[a][t] \in Int /\ give[t] \in Int /\ take[t] \in Int /\ l[a][t] \in Int
    BY DEF Wide
  <2>3. CASE a = This
    BY <2>1, <2>2, <2>3, <1>1
  <2>4. CASE a = e.owner
    BY <2>1, <2>2, <2>4, <1>1
  <2>5. CASE a /= This /\ a /= e.owner
    BY <2>1, <2>2, <2>5
  <2>6. QED
    BY <2>3, <2>4, <2>5
<1>4. QED
  BY <1>3 DEF Books

LEMMA BooksOut ==
    ASSUME NEW e, DealOK(e), NEW saved \in Wide, NEW l \in Wide, NEW held \in Int,
           NEW give, NEW take, \A t \in Token : give[t] \in Int /\ take[t] \in Int,
           Books(e, saved, l, held, give, take),
           NEW t0 \in Token, NEW v \in Int, NEW w \in Int,
           NEW more, \A t \in Token : more[t] = take[t] + (IF t0 = t THEN w ELSE 0),
           NEW new, new = Credit(Debit(l, This, e.inputToken, v), e.recipient, t0, w)
    PROVE  Books(e, saved, new, held - v, give, more)
<1>1. e.owner /= This /\ e.inputToken \in Token /\ This \in Account
      /\ e.recipient /= This /\ e.recipient \in Account
  BY SettlementAssumption DEF DealOK
<1>2. \A a \in Account, t \in Token :
         new[a][t] = l[a][t] - (IF a = This /\ t = e.inputToken THEN v ELSE 0)
                             + (IF a = e.recipient /\ t = t0 THEN w ELSE 0)
  <2> DEFINE to   == e.recipient
             base == e.inputToken
  <2>1. /\ l \in Wide /\ to \in Account /\ t0 \in Token /\ v \in Int
        /\ This \in Account /\ base \in Token /\ w \in Int
    BY <1>1
  <2>2. new = Credit(Debit(l, This, base, v), to, t0, w)
    OBVIOUS
  <2> HIDE DEF to, base
  <2>3. \A a \in Account, t \in Token :
           Credit(Debit(l, This, base, v), to, t0, w)[a][t] =
              l[a][t] - (IF a = This /\ t = base THEN v ELSE 0)
                      + (IF a = to /\ t = t0 THEN w ELSE 0)
    BY ONLY <2>1, PassAt
  <2>4. QED
    BY ONLY <2>2, <2>3 DEF to, base
<1>3. ASSUME NEW a \in Account, NEW t \in Token
      PROVE  new[a][t] = saved[a][t] + (IF a = This /\ t = e.inputToken THEN held - v ELSE 0)
                                     - (IF a = e.owner THEN give[t] ELSE 0)
                                     + (IF a = e.recipient THEN more[t] ELSE 0)
  <2>1. /\ new[a][t] = l[a][t] - (IF a = This /\ t = e.inputToken THEN v ELSE 0)
                               + (IF a = e.recipient /\ t = t0 THEN w ELSE 0)
        /\ l[a][t] = saved[a][t] + (IF a = This /\ t = e.inputToken THEN held ELSE 0)
                                 - (IF a = e.owner THEN give[t] ELSE 0)
                                 + (IF a = e.recipient THEN take[t] ELSE 0)
        /\ more[t] = take[t] + (IF t0 = t THEN w ELSE 0)
    BY <1>2 DEF Books
  <2>2. saved[a][t] \in Int /\ give[t] \in Int /\ take[t] \in Int /\ l[a][t] \in Int
    BY DEF Wide
  <2>3. CASE a = This
    BY <2>1, <2>2, <2>3, <1>1
  <2>4. CASE a = e.recipient
    BY <2>1, <2>2, <2>4, <1>1
  <2>5. CASE a /= This /\ a /= e.recipient
    BY <2>1, <2>2, <2>5
  <2>6. QED
    BY <2>3, <2>4, <2>5
<1>4. QED
  BY <1>3 DEF Books

-----------------------------------------------------------------------------
(* What the owners allow, and what governance switches. *)

Settings ==
    /\ allowance \in Balances
    /\ savedAllowance \in Balances
    /\ isRouterAllowed \in BOOLEAN
    /\ rwa \in BOOLEAN

LEMMA NeededIsNat ==
    ASSUME NEW e, DealOK(e), NEW t \in Token
    PROVE  Needed(e, t) \in Nat
<1> DEFINE deposit == IF e.inputToken = t THEN e.inputAmount ELSE 0
<1>1. Needed(e, t) = Total(Sold(e, t), deposit, DOMAIN Sold(e, t))
  BY DEF Needed, FoldFunction, Total, Sold
<1>2. /\ DOMAIN Sold(e, t) = 1 .. Len(e.exits) /\ Len(e.exits) \in Nat
      /\ \A k \in 1 .. Len(e.exits) : Sold(e, t)[k] \in Nat
  BY SoldFacts DEF Sold
<1>3. deposit \in Nat
  BY DEF DealOK
<1>4. IsFiniteSet(1 .. Len(e.exits))
  BY <1>2, FS_Interval
<1> HIDE DEF deposit
<1>5. Total(Sold(e, t), deposit, 1 .. Len(e.exits)) \in Nat
  BY <1>2, <1>3, <1>4, TotalIsNat
<1>6. QED
  BY <1>1, <1>2, <1>5

LEMMA SettingsInit == Init => Settings
BY DEF Init, Settings, NoAllowance, Balances

LEMMA SettingsEnd ==
    ASSUME EndFrame
    PROVE  savedAllowance' \in Balances
BY DEF EndFrame, NoAllowance, Balances

LEMMA BeginSettings ==
    ASSUME SInv, Settings, NEW i \in Intent, Begin(i)
    PROVE  Settings'
<1> DEFINE own  == engagement[i].owner
           base == engagement[i].inputToken
           amt  == engagement[i].inputAmount
<1>1. own \in Account /\ base \in Token /\ amt \in Nat
  BY DEF SInv, Deals, DealOK
<1>2. amt <= allowance[own][base] /\ allowance' = Debit(allowance, own, base, amt)
  BY DEF Begin, CanPull
<1>3. allowance \in Balances
  BY DEF Settings
<1> HIDE DEF own, base, amt
<1>4. allowance' \in Balances
  BY <1>1, <1>2, <1>3, DebitFacts
<1>5. QED
  BY <1>3, <1>4 DEF Begin, Settings, roleVars

LEMMA SellExitSettings ==
    ASSUME SInv, Settings, NEW out \in RouterOut, SellExit(out)
    PROVE  Settings'
<1> DEFINE own == E.owner
           tok == E.exits[leg].token
           amt == E.exits[leg].amountIn
<1>1. own \in Account /\ tok \in Token /\ amt \in Nat
  <2>1. DealOK(E) /\ leg \in Nat \ {0} /\ leg <= Len(E.exits)
    BY FrameDeal DEF SInv, Types, SellExit
  <2>2. own \in Account /\ E.exits \in Seq(Exit)
    BY <2>1 DEF DealOK
  <2>3. E.exits[leg] \in Exit
    BY <2>1, <2>2
  <2>4. QED
    BY <2>2, <2>3 DEF Exit
<1>2. amt <= allowance[own][tok] /\ allowance' = Debit(allowance, own, tok, amt)
  BY DEF SellExit, CanPull
<1>3. allowance \in Balances
  BY DEF Settings
<1> HIDE DEF own, tok, amt
<1>4. allowance' \in Balances
  BY <1>1, <1>2, <1>3, DebitFacts
<1>5. QED
  BY <1>4 DEF SellExit, Settings, roleVars

LEMMA DeclareSettings ==
    ASSUME SInv, Settings, NEW i \in Intent, Declare(i)
    PROVE  Settings'
<1> DEFINE own == engagement[i].owner
           row == [t \in Token |->
                     IF allowance[own][t] >= Needed(engagement[i], t)
                       THEN allowance[own][t] ELSE Needed(engagement[i], t)]
<1>1. DealOK(engagement[i]) /\ own \in Account
  BY DEF SInv, Deals, DealOK
<1>2. allowance \in [Account -> [Token -> Nat]]
  BY DEF Settings, Balances
<1>3. row \in [Token -> Nat]
  <2>1. \A t \in Token : allowance[own][t] \in Nat /\ Needed(engagement[i], t) \in Nat
    BY <1>1, <1>2, NeededIsNat
  <2>2. QED
    BY <2>1
<1>4. allowance' = [allowance EXCEPT ![own] = row]
  BY DEF Declare
<1> HIDE DEF row, own
<1>5. allowance' \in Balances
  BY <1>1, <1>2, <1>3, <1>4 DEF Balances
<1>6. QED
  BY <1>5 DEF Declare, Settings, roleVars, frameVars

LEMMA SettingsNext ==
    ASSUME SInv, Settings, [Next]_vars
    PROVE  Settings'
<1>1. ASSUME NEW i \in Intent, Begin(i) PROVE Settings'
  BY <1>1, BeginSettings
<1>2. ASSUME NEW out \in RouterOut, SellExit(out) PROVE Settings'
  BY <1>2, SellExitSettings
<1>3. ASSUME NEW out \in RouterOut, SwapLeg(out) PROVE Settings'
  BY <1>3 DEF SwapLeg, Acquire, Settings, roleVars
<1>4. CASE HandOverLeg
  BY <1>4 DEF HandOverLeg, Acquire, Settings, roleVars
<1>5. CASE OnboardOnly
  BY <1>5, SettingsEnd DEF OnboardOnly, Settings, roleVars
<1>6. CASE Check
  BY <1>6 DEF Check, Settings, roleVars
<1>7. CASE SkipLeg
  BY <1>7 DEF SkipLeg, Settings, roleVars
<1>8. CASE Close
  BY <1>8, SettingsEnd DEF Close, Settings, roleVars
<1>9. CASE Revert
  BY <1>9, SettingsEnd DEF Revert, Settings, roleVars
<1>10. ASSUME NEW i \in Intent, Declare(i) PROVE Settings'
  BY <1>10, DeclareSettings
<1>11. ASSUME NEW i \in Intent, Select(i) \/ ReportFailure(i) \/ Cancel(i) PROVE Settings'
  BY <1>11 DEF Select, ReportFailure, Cancel, Settings, roleVars, frameVars
<1>12. ASSUME NEW x \in Transfers, Transfer(x) PROVE Settings'
  BY <1>12 DEF Transfer, Settings, roleVars, frameVars
<1>13. CASE Governance
  BY <1>13, SettlementAssumption DEF Governance, Settings, frameVars
<1>14. CASE AssetStep
  BY <1>14 DEF AssetStep, Settings, roleVars, frameVars
<1>15. CASE UNCHANGED vars
  BY <1>15 DEF vars, Settings, roleVars, frameVars
<1>16. QED
  BY <1>1, <1>2, <1>3, <1>4, <1>5, <1>6, <1>7, <1>8, <1>9, <1>10, <1>11, <1>12,
     <1>13, <1>14, <1>15 DEF Next, SettleStep

\* Balances and allowances are never negative, nor is anything the frame computes:
\* no debit of settle, of its fees or of its refund goes below zero.
THEOREM SettlementTypesHold == Spec => []SettlementTypeOK
<1>1. Init => SInv /\ Settings
  BY InitSInv, SettingsInit
<1>2. (SInv /\ Settings) /\ [Next]_vars => (SInv /\ Settings)'
  BY NextSInv, SettingsNext
<1>3. SInv /\ Settings => SettlementTypeOK
  BY DEF SInv, Types, Settings, SettlementTypeOK, Balances
<1>4. QED
  BY <1>1, <1>2, <1>3, PTL DEF Spec

-----------------------------------------------------------------------------
(* What the end of settle pays, account by account. *)

LEMMA PaidAt ==
    ASSUME SInv, pc = "acquire", leg > Len(E.legs)
    PROVE  \A a \in Account, t \in Token :
              PaidOut(ledger)[a][t] =
                 ledger[a][t] - (IF a = This /\ t = E.inputToken THEN Fee ELSE 0)
                    + (IF a = treasury /\ t = E.inputToken THEN ProtocolFee ELSE 0)
                    + (IF a = E.solver /\ t = E.inputToken THEN Fee - ProtocolFee ELSE 0)
<1> DEFINE base == E.inputToken
           sol  == E.solver
           own  == E.owner
           p    == ProtocolFee
           q    == Fee - ProtocolFee
           l1   == Credit(Debit(ledger, This, base, p), treasury, base, p)
           l2   == Credit(Debit(l1, This, base, q), sol, base, q)
           l3   == Credit(Debit(l2, This, base, 0), own, base, 0)
<1>1. /\ This \in Account /\ treasury \in Account /\ sol \in Account /\ own \in Account
      /\ base \in Token /\ p \in Int /\ q \in Int /\ 0 \in Int /\ Fee \in Int /\ p + q = Fee
      /\ ledger \in Wide
  <2>1. DealOK(E) /\ This \in Account /\ treasury \in Account /\ ledger \in Wide
    BY FrameDeal, BalancesAreWide, SettlementAssumption DEF SInv, Types
  <2>2. sol \in Account /\ own \in Account /\ base \in Token
    BY <2>1 DEF DealOK
  <2>3. Fee \in Nat /\ p \in Nat /\ q \in Nat
    BY CloseAmounts
  <2>4. p + q = Fee
    BY <2>3
  <2>5. QED
    BY <2>1, <2>2, <2>3, <2>4
<1>2. PaidOut(ledger) = l3
  BY CloseAmounts DEF PaidOut, Move
<1>3. \A a \in Account, t \in Token : ledger[a][t] \in Int
  BY <1>1 DEF Wide
<1> HIDE DEF base, sol, own, p, q
<1>4. /\ l1 \in Wide
      /\ \A a \in Account, t \in Token : l1[a][t] =
            ledger[a][t] - (IF a = This /\ t = base THEN p ELSE 0)
                         + (IF a = treasury /\ t = base THEN p ELSE 0)
  BY ONLY <1>1, PassAt
<1>14. l1 \in Wide /\ This \in Account /\ sol \in Account /\ base \in Token /\ q \in Int
  BY ONLY <1>1, <1>4
<1> HIDE DEF l1
<1>5. /\ l2 \in Wide
      /\ \A a \in Account, t \in Token : l2[a][t] =
            l1[a][t] - (IF a = This /\ t = base THEN q ELSE 0)
                     + (IF a = sol /\ t = base THEN q ELSE 0)
  BY ONLY <1>14, PassAt
<1>15. l2 \in Wide /\ This \in Account /\ own \in Account /\ base \in Token /\ 0 \in Int
  BY ONLY <1>1, <1>5
<1> HIDE DEF l2
<1>6. /\ l3 \in Wide
      /\ \A a \in Account, t \in Token : l3[a][t] =
            l2[a][t] - (IF a = This /\ t = base THEN 0 ELSE 0)
                     + (IF a = own /\ t = base THEN 0 ELSE 0)
  BY ONLY <1>15, PassAt
<1> HIDE DEF l3
<1>7. ASSUME NEW a \in Account, NEW t \in Token
      PROVE  l3[a][t] =
                ledger[a][t] - (IF a = This /\ t = base THEN Fee ELSE 0)
                   + (IF a = treasury /\ t = base THEN p ELSE 0)
                   + (IF a = sol /\ t = base THEN q ELSE 0)
  <2>1. /\ l1[a][t] = ledger[a][t] - (IF a = This /\ t = base THEN p ELSE 0)
                                   + (IF a = treasury /\ t = base THEN p ELSE 0)
        /\ l2[a][t] = l1[a][t] - (IF a = This /\ t = base THEN q ELSE 0)
                               + (IF a = sol /\ t = base THEN q ELSE 0)
        /\ l3[a][t] = l2[a][t] - (IF a = This /\ t = base THEN 0 ELSE 0)
                               + (IF a = own /\ t = base THEN 0 ELSE 0)
    BY <1>4, <1>5, <1>6
  <2>2. ledger[a][t] \in Int
    BY <1>3
  <2>3. CASE t /= base
    BY <2>1, <2>2, <2>3
  <2>4. CASE a = This
    BY <2>1, <2>2, <2>4, <1>1
  <2>5. CASE a /= This
    BY <2>1, <2>2, <2>5, <1>1
  <2>6. QED
    BY <2>3, <2>4, <2>5
<1>8. QED
  BY <1>2, <1>7 DEF base, sol, p, q

-----------------------------------------------------------------------------
(* The vault: nothing but its own withdrawals and a revert takes the asset  *)
(* from it, and a revert only what came in since settle began.             *)

LEMMA VaultAccounts ==
    /\ Vault \in Account /\ Vault /= This /\ This \in Account /\ Asset \in Token
    /\ IsFiniteSet(Holder)
    /\ \A a \in Holder : a \in Account /\ a /= This /\ a /= Vault
    /\ \A v \in VaultAmounts : v \in Nat /\ v > 0
BY RwaVaultAssumption, SettlementAssumption

\* What another account gives and whoever gets it leave the vault no poorer.
LEMMA PassKeepsVault ==
    ASSUME NEW l \in Wide, NEW a \in Account, a /= Vault, NEW t \in Token, NEW v \in Nat,
           NEW b \in Account, NEW u \in Token, NEW w \in Nat
    PROVE  Credit(Debit(l, a, t, v), b, u, w)[Vault][Asset] >= l[Vault][Asset]
<1>1. l \in Wide /\ a \in Account /\ t \in Token /\ v \in Int /\ b \in Account /\ u \in Token
      /\ w \in Int
  OBVIOUS
<1>2. \A c \in Account, x \in Token :
         Credit(Debit(l, a, t, v), b, u, w)[c][x] =
            l[c][x] - (IF c = a /\ x = t THEN v ELSE 0) + (IF c = b /\ x = u THEN w ELSE 0)
  BY ONLY <1>1, PassAt
<1>3. Credit(Debit(l, a, t, v), b, u, w)[Vault][Asset] =
         l[Vault][Asset] + (IF Vault = b /\ Asset = u THEN w ELSE 0)
  <2>1. l[Vault][Asset] \in Int
    BY VaultAccounts DEF Wide
  <2>2. Credit(Debit(l, a, t, v), b, u, w)[Vault][Asset] =
           l[Vault][Asset] - (IF Vault = a /\ Asset = t THEN v ELSE 0)
                           + (IF Vault = b /\ Asset = u THEN w ELSE 0)
    BY <1>2, VaultAccounts
  <2>3. QED
    BY <2>1, <2>2
<1>4. l[Vault][Asset] \in Int
  BY VaultAccounts DEF Wide
<1>5. QED
  BY <1>3, <1>4

\* What an engagement keeps from the ones on offer, drafted or selected.
SameOffer(d, e) == d.owner = e.owner /\ d.inputAmount = e.inputAmount /\ d.exits = e.exits

Origins == \A i \in Intent : \E e \in Engagement[i] : SameOffer(engagement[i], e)

LEMMA OwnersAreNotTheVault ==
    ASSUME Origins, NEW i \in Intent
    PROVE  engagement[i].owner /= Vault
BY RwaVaultAssumption DEF Origins, SameOffer

LEMMA OriginsInit == Init => Origins
<1> SUFFICES ASSUME Init, NEW i \in Intent
             PROVE  \E e \in Engagement[i] : SameOffer(engagement[i], e)
  BY DEF Origins
<1>1. PICK f : /\ \A j \in Intent : f[j] \in Engagement[j]
               /\ engagement = [j \in Intent |-> Draft(f[j])]
  BY DEF Init
<1>2. f[i] \in EngagementRecord /\ f[i] \in Engagement[i]
  BY <1>1, OfferedDeal
<1>3. SameOffer(Draft(f[i]), f[i])
  BY <1>2 DEF SameOffer, Draft, EngagementRecord
<1>4. QED
  BY <1>1, <1>2, <1>3

LEMMA OriginsNext ==
    ASSUME SInv, Origins, [Next]_vars
    PROVE  Origins'
<1>1. CASE engagement' = engagement
  BY <1>1 DEF Origins
<1>2. ASSUME NEW i \in Intent, Select(i) PROVE Origins'
  <2>1. PICK e \in Engagement[i] : engagement' = [engagement EXCEPT ![i] = e]
    BY <1>2 DEF Select
  <2>2. \A j \in Intent : engagement'[j] = IF j = i THEN e ELSE engagement[j]
    BY <2>1 DEF SInv, Types
  <2>3. SameOffer(e, e)
    BY DEF SameOffer
  <2>4. QED
    BY <2>2, <2>3 DEF Origins
<1>3. QED
  BY <1>1, <1>2 DEF Next, SettleStep, Begin, SellExit, SwapLeg, Acquire, OnboardOnly, Check,
     SkipLeg, HandOverLeg, Close, Revert, Declare, ReportFailure, Cancel, Transfer,
     Governance, AssetStep, vars

LEMMA AcquireKeepsVault ==
    ASSUME SInv, pc = "acquire", leg <= Len(E.legs), NEW out \in Nat, Acquire(out)
    PROVE  ledger'[Vault][Asset] >= ledger[Vault][Asset]
<1> DEFINE base == E.inputToken
           to   == E.recipient
           tok  == E.legs[leg].token
           amt  == AmountIn(leg)
<1>1. DealOK(E) /\ leg \in Nat \ {0}
  BY FrameDeal DEF SInv, Types
<1>2. E.legs[leg] \in Leg
  BY <1>1 DEF DealOK
<1>3. /\ ledger \in Wide /\ This \in Account /\ This /= Vault /\ base \in Token
      /\ amt \in Nat /\ to \in Account /\ tok \in Token /\ out \in Nat
  BY <1>1, <1>2, AmountFacts, VaultAccounts, BalancesAreWide DEF SInv, Types, DealOK, Leg
<1>4. ledger' = Credit(Debit(ledger, This, base, amt), to, tok, out)
  BY DEF Acquire
<1> HIDE DEF base, to, tok, amt
<1>5. Credit(Debit(ledger, This, base, amt), to, tok, out)[Vault][Asset] >= ledger[Vault][Asset]
  BY ONLY <1>3, PassKeepsVault
<1>6. QED
  BY <1>4, <1>5

\* But for a revert.
LEMMA StepKeepsVault ==
    ASSUME SInv, Origins, [Next]_vars, ~Revert
    PROVE  ledger'[Vault][Asset] >= ledger[Vault][Asset]
<1> DEFINE Kept == ledger'[Vault][Asset] >= ledger[Vault][Asset]
<1>1. ledger \in Wide /\ ledger[Vault][Asset] \in Nat
  BY VaultAccounts, BalancesAreWide DEF SInv, Types, Balances
<1>2. CASE ledger' = ledger
  BY <1>1, <1>2
<1>3. ASSUME NEW i \in Intent, Begin(i) PROVE Kept
  <2> DEFINE own  == engagement[i].owner
             base == engagement[i].inputToken
             amt  == engagement[i].inputAmount
  <2>1. /\ ledger \in Wide /\ own \in Account /\ own /= Vault /\ base \in Token
        /\ amt \in Nat /\ This \in Account
    BY <1>1, VaultAccounts, OwnersAreNotTheVault DEF SInv, Deals, DealOK
  <2>2. ledger' = Credit(Debit(ledger, own, base, amt), This, base, amt)
    BY <1>3 DEF Begin, Move
  <2> HIDE DEF own, base, amt
  <2>3. Credit(Debit(ledger, own, base, amt), This, base, amt)[Vault][Asset]
           >= ledger[Vault][Asset]
    BY ONLY <2>1, PassKeepsVault
  <2>4. QED
    BY <2>2, <2>3
<1>4. ASSUME NEW out \in RouterOut, SellExit(out) PROVE Kept
  <2> DEFINE own  == E.owner
             base == E.inputToken
             tok  == E.exits[leg].token
             amt  == E.exits[leg].amountIn
  <2>1. DealOK(E) /\ E.exits[leg] \in Exit
    BY <1>4, FrameDeal DEF SInv, Types, SellExit, DealOK
  <2>2. /\ ledger \in Wide /\ own \in Account /\ own /= Vault /\ tok \in Token
        /\ amt \in Nat /\ This \in Account /\ base \in Token /\ out \in Nat
    BY <2>1, <1>1, VaultAccounts, OwnersAreNotTheVault, SettlementAssumption
       DEF SInv, Types, E, DealOK, Exit
  <2>3. ledger' = Credit(Debit(ledger, own, tok, amt), This, base, out)
    BY <1>4 DEF SellExit
  <2> HIDE DEF own, base, tok, amt
  <2>4. Credit(Debit(ledger, own, tok, amt), This, base, out)[Vault][Asset]
           >= ledger[Vault][Asset]
    BY ONLY <2>2, PassKeepsVault
  <2>5. QED
    BY <2>3, <2>4
<1>5. ASSUME NEW out \in RouterOut, SwapLeg(out) PROVE Kept
  BY <1>5, AcquireKeepsVault, SettlementAssumption DEF SwapLeg
<1>6. CASE HandOverLeg
  BY <1>6, AcquireKeepsVault, AmountFacts DEF HandOverLeg
<1>7. CASE Close
  <2>1. PaidOut(ledger)[Vault][Asset] =
           ledger[Vault][Asset] - (IF Vault = This /\ Asset = E.inputToken THEN Fee ELSE 0)
              + (IF Vault = treasury /\ Asset = E.inputToken THEN ProtocolFee ELSE 0)
              + (IF Vault = E.solver /\ Asset = E.inputToken THEN Fee - ProtocolFee ELSE 0)
    BY <1>7, PaidAt, VaultAccounts DEF Close
  <2>2. ProtocolFee \in Nat /\ Fee - ProtocolFee \in Nat /\ Vault /= This
    BY <1>7, CloseAmounts, VaultAccounts DEF Close
  <2>3. ledger' = PaidOut(ledger)
    BY <1>7 DEF Close
  <2> DEFINE p == ProtocolFee
             q == Fee - ProtocolFee
             base == E.inputToken
             sol == E.solver
  <2>4. PaidOut(ledger)[Vault][Asset] =
           ledger[Vault][Asset] + (IF Vault = treasury /\ Asset = base THEN p ELSE 0)
                                + (IF Vault = sol /\ Asset = base THEN q ELSE 0)
    BY <2>1, <2>2, <1>1
  <2>5. p \in Nat /\ q \in Nat
    BY <2>2
  <2> HIDE DEF p, q, base, sol
  <2>6. PaidOut(ledger)[Vault][Asset] >= ledger[Vault][Asset]
    BY <2>4, <2>5, <1>1
  <2>7. QED
    BY <2>3, <2>6
<1>8. ASSUME NEW x \in Transfers, Transfer(x) PROVE Kept
  <2> DEFINE from == x.from
             to   == x.to
             tok  == x.token
             amt  == x.amount
  <2>1. /\ ledger \in Wide /\ from \in Account /\ from /= Vault /\ tok \in Token
        /\ amt \in Nat /\ to \in Account
    BY <1>1, SettlementAssumption, RwaVaultAssumption
  <2>2. ledger' = Credit(Debit(ledger, from, tok, amt), to, tok, amt)
    BY <1>8 DEF Transfer, Move
  <2> HIDE DEF from, to, tok, amt
  <2>3. Credit(Debit(ledger, from, tok, amt), to, tok, amt)[Vault][Asset]
           >= ledger[Vault][Asset]
    BY ONLY <2>1, PassKeepsVault
  <2>4. QED
    BY <2>2, <2>3
<1>9. QED
  BY <1>2, <1>3, <1>4, <1>5, <1>6, <1>7, <1>8 DEF Next, SettleStep, OnboardOnly, Check,
     SkipLeg, Declare, Select, ReportFailure, Cancel, Governance, AssetStep, vars

SharesOK == shares \in [Holder -> Nat]

Backed ==
    /\ Issued <= ledger[Vault][Asset]
    /\ pc /= "idle" => Issued <= savedLedger[Vault][Asset]

VaultInv == SInv /\ Settings /\ Origins /\ SharesOK /\ Backed

LEMMA IssuedIsTotal ==
    ASSUME SharesOK
    PROVE  Issued = Total(shares, 0, Holder) /\ Issued \in Nat
<1>1. Issued = Total(shares, 0, Holder)
  BY SumIsTotal DEF Issued, SharesOK
<1>2. Total(shares, 0, Holder) \in Nat
  BY VaultAccounts, TotalIsNat DEF SharesOK
<1>3. QED
  BY <1>1, <1>2

LEMMA HolderUpdate ==
    ASSUME NEW f \in [Holder -> Nat], NEW g \in [Holder -> Nat], NEW x \in Holder,
           \A y \in Holder : y /= x => g[y] = f[y]
    PROVE  Total(g, 0, Holder) + f[x] = Total(f, 0, Holder) + g[x]
<1>1. 0 \in Nat /\ IsFiniteSet(Holder) /\ \A y \in Holder : f[y] \in Nat /\ g[y] \in Nat
  BY VaultAccounts
<1>2. QED
  BY <1>1, TotalUpdate

LEMMA VaultInitInv == VaultInit => VaultInv
<1> SUFFICES ASSUME VaultInit PROVE VaultInv
  OBVIOUS
<1>1. SInv /\ Settings /\ Origins
  BY InitSInv, SettingsInit, OriginsInit DEF VaultInit
<1>2. SharesOK
  BY DEF VaultInit, SharesOK
<1>3. Issued = 0
  <2>1. \A a \in Holder : shares[a] = 0
    BY DEF VaultInit
  <2>2. QED
    BY <2>1, <1>2, IssuedIsTotal, TotalOfZeros, VaultAccounts
<1>4. ledger[Vault][Asset] = 0 /\ pc = "idle"
  BY RwaVaultAssumption DEF VaultInit, Init
<1>5. QED
  BY <1>1, <1>2, <1>3, <1>4 DEF VaultInv, Backed

\* A settlement, or whatever else goes on beside the vault.
LEMMA BesideTheVault ==
    ASSUME VaultInv, [Next]_vars, UNCHANGED shares
    PROVE  VaultInv'
<1>1. SInv' /\ Settings' /\ Origins'
  BY NextSInv, SettingsNext, OriginsNext DEF VaultInv
<1>2. SharesOK' /\ Issued' = Issued /\ Issued \in Nat
  BY IssuedIsTotal DEF VaultInv, SharesOK, Issued
<1> DEFINE held  == ledger[Vault][Asset]
           heldN == ledger'[Vault][Asset]
<1>3. held \in Nat /\ heldN \in Nat /\ Issued <= held
  BY <1>1, VaultAccounts DEF VaultInv, SInv, Types, Balances, Backed
<1>4. CASE Revert
  <2>1. heldN = savedLedger[Vault][Asset] /\ pc' = "idle" /\ pc /= "idle"
    BY <1>4 DEF Revert, EndFrame
  <2>2. Issued <= heldN
    BY <2>1 DEF VaultInv, Backed
  <2>3. QED
    BY <1>1, <1>2, <2>1, <2>2 DEF VaultInv, Backed
<1>5. CASE ~Revert
  <2>1. heldN >= held
    BY <1>5, StepKeepsVault DEF VaultInv
  <2>2. Issued <= heldN
    BY <2>1, <1>2, <1>3
  <2>3. pc' /= "idle" => \/ savedLedger' = ledger
                         \/ pc /= "idle" /\ savedLedger' = savedLedger
    BY <1>5 DEF Next, SettleStep, Begin, SellExit, SwapLeg, Acquire, OnboardOnly, Check,
       SkipLeg, HandOverLeg, Close, Declare, Select, ReportFailure, Cancel, Transfer,
       Governance, AssetStep, vars, frameVars, EndFrame
  <2>4. pc' /= "idle" => Issued <= savedLedger'[Vault][Asset]
    BY <2>3 DEF VaultInv, Backed
  <2>5. QED
    BY <1>1, <1>2, <2>2, <2>4 DEF VaultInv, Backed
<1>6. QED
  BY <1>4, <1>5

\* What the vault's own calls leave to show: shares and balance move together.
LEMMA VaultCall ==
    ASSUME VaultInv, pc = "idle", NEW a \in Account \ {This}, NEW b \in Account \ {This},
           NEW v \in Nat, v <= ledger[a][Asset], ledger' = Move(ledger, a, b, Asset, v),
           UNCHANGED <<rwaVars, allowance, engagement, status, delivered, roleVars, frameVars>>,
           SharesOK', Issued' <= ledger'[Vault][Asset]
    PROVE  VaultInv'
<1>1. SInv'
  BY SendInv, VaultAccounts DEF VaultInv
<1>2. Settings' /\ Origins' /\ pc' = "idle"
  BY DEF VaultInv, Settings, Origins, roleVars, frameVars
<1>3. QED
  BY <1>1, <1>2 DEF VaultInv, Backed

LEMMA DepositFacts ==
    ASSUME VaultInv, NEW a \in Holder, NEW v \in VaultAmounts, Deposit(a, v)
    PROVE  /\ SharesOK'
           /\ Issued' = Issued + v /\ Issued \in Nat
           /\ ledger'[Vault][Asset] = ledger[Vault][Asset] + v
<1>1. /\ a \in Account \ {This} /\ Vault \in Account \ {This} /\ a /= Vault
      /\ Asset \in Token /\ v \in Nat /\ ledger \in Balances
  BY VaultAccounts DEF VaultInv, SInv, Types
<1>2. shares \in [Holder -> Nat] /\ shares' = [shares EXCEPT ![a] = @ + v]
  BY DEF VaultInv, SharesOK, Deposit
<1>3. SharesOK' /\ shares'[a] = shares[a] + v /\ \A c \in Holder : c /= a => shares'[c] = shares[c]
  BY <1>1, <1>2 DEF SharesOK
<1>4. Issued' = Issued + v /\ Issued \in Nat
  <2> DEFINE after == shares'
  <2>6. /\ shares \in [Holder -> Nat] /\ after \in [Holder -> Nat] /\ a \in Holder
        /\ \A c \in Holder : c /= a => after[c] = shares[c]
    BY <1>2, <1>3 DEF SharesOK
  <2> HIDE DEF after
  <2>7. Total(after, 0, Holder) + shares[a] = Total(shares, 0, Holder) + after[a]
    BY ONLY <2>6, HolderUpdate
  <2>1. Total(shares', 0, Holder) + shares[a] = Total(shares, 0, Holder) + shares'[a]
    BY <2>7 DEF after
  <2>2. Issued = Total(shares, 0, Holder) /\ Issued \in Nat
    BY IssuedIsTotal DEF VaultInv
  <2>3. Issued' = Total(shares', 0, Holder)
    BY <1>3, SumIsTotal DEF Issued, SharesOK
  <2>4. Total(shares', 0, Holder) \in Nat /\ shares[a] \in Nat
    BY <1>2, <1>3, VaultAccounts, TotalIsNat DEF SharesOK
  <2>5. QED
    BY <2>1, <2>2, <2>3, <2>4, <1>1, <1>3
<1>5. ledger' = Move(ledger, a, Vault, Asset, v) /\ v <= ledger[a][Asset]
  BY DEF Deposit
<1>6. ledger'[Vault][Asset] = ledger[Vault][Asset] + v
  BY <1>1, <1>5 DEF Move, Credit, Debit, Balances
<1>7. QED
  BY <1>3, <1>4, <1>6

LEMMA DepositInv ==
    ASSUME VaultInv, NEW a \in Holder, NEW v \in VaultAmounts, Deposit(a, v)
    PROVE  VaultInv'
<1>1. /\ a \in Account \ {This} /\ Vault \in Account \ {This}
      /\ Asset \in Token /\ v \in Nat /\ ledger \in Balances
  BY VaultAccounts DEF VaultInv, SInv, Types
<1>2. /\ SharesOK' /\ Issued' = Issued + v /\ Issued \in Nat
      /\ ledger'[Vault][Asset] = ledger[Vault][Asset] + v
  BY DepositFacts
<1>3. ledger' = Move(ledger, a, Vault, Asset, v) /\ v <= ledger[a][Asset]
  BY DEF Deposit
<1>4. Issued' <= ledger'[Vault][Asset]
  <2>1. ledger[Vault][Asset] \in Nat /\ Issued <= ledger[Vault][Asset]
    BY <1>1 DEF VaultInv, Backed, Balances
  <2>2. QED
    BY <2>1, <1>1, <1>2
<1>5. QED
  BY <1>1, <1>2, <1>3, <1>4, VaultCall DEF Deposit

LEMMA WithdrawFacts ==
    ASSUME VaultInv, NEW a \in Holder, NEW v \in VaultAmounts, Withdraw(a, v)
    PROVE  /\ SharesOK'
           /\ Issued' + v = Issued /\ Issued \in Nat /\ Issued' \in Nat
           /\ ledger'[Vault][Asset] = ledger[Vault][Asset] - v
<1>1. /\ a \in Account \ {This} /\ Vault \in Account \ {This} /\ a /= Vault
      /\ Asset \in Token /\ v \in Nat /\ ledger \in Balances
  BY VaultAccounts DEF VaultInv, SInv, Types
<1>2. shares \in [Holder -> Nat] /\ shares' = [shares EXCEPT ![a] = @ - v] /\ v <= shares[a]
  BY DEF VaultInv, SharesOK, Withdraw
<1>3. SharesOK' /\ shares'[a] = shares[a] - v /\ \A c \in Holder : c /= a => shares'[c] = shares[c]
  BY <1>1, <1>2 DEF SharesOK
<1>4. Issued' + v = Issued /\ Issued \in Nat /\ Issued' \in Nat
  <2> DEFINE after == shares'
  <2>6. /\ shares \in [Holder -> Nat] /\ after \in [Holder -> Nat] /\ a \in Holder
        /\ \A c \in Holder : c /= a => after[c] = shares[c]
    BY <1>2, <1>3 DEF SharesOK
  <2> HIDE DEF after
  <2>7. Total(after, 0, Holder) + shares[a] = Total(shares, 0, Holder) + after[a]
    BY ONLY <2>6, HolderUpdate
  <2>1. Total(shares', 0, Holder) + shares[a] = Total(shares, 0, Holder) + shares'[a]
    BY <2>7 DEF after
  <2>2. Issued = Total(shares, 0, Holder) /\ Issued \in Nat
    BY IssuedIsTotal DEF VaultInv
  <2>3. Issued' = Total(shares', 0, Holder)
    BY <1>3, SumIsTotal DEF Issued, SharesOK
  <2>4. Total(shares', 0, Holder) \in Nat /\ shares[a] \in Nat
    BY <1>2, <1>3, VaultAccounts, TotalIsNat DEF SharesOK
  <2>5. QED
    BY <2>1, <2>2, <2>3, <2>4, <1>1, <1>3
<1>5. ledger' = Move(ledger, Vault, a, Asset, v) /\ v <= ledger[Vault][Asset]
  BY DEF Withdraw
<1>6. ledger'[Vault][Asset] = ledger[Vault][Asset] - v
  BY <1>1, <1>5 DEF Move, Credit, Debit, Balances
<1>7. QED
  BY <1>3, <1>4, <1>6

LEMMA WithdrawInv ==
    ASSUME VaultInv, NEW a \in Holder, NEW v \in VaultAmounts, Withdraw(a, v)
    PROVE  VaultInv'
<1>1. /\ a \in Account \ {This} /\ Vault \in Account \ {This}
      /\ Asset \in Token /\ v \in Nat /\ ledger \in Balances
  BY VaultAccounts DEF VaultInv, SInv, Types
<1>2. /\ SharesOK' /\ Issued' + v = Issued /\ Issued \in Nat /\ Issued' \in Nat
      /\ ledger'[Vault][Asset] = ledger[Vault][Asset] - v
  BY WithdrawFacts
<1>3. ledger' = Move(ledger, Vault, a, Asset, v) /\ v <= ledger[Vault][Asset]
  BY DEF Withdraw
<1>4. Issued' <= ledger'[Vault][Asset]
  <2> DEFINE i == Issued
             j == Issued'
             h == ledger[Vault][Asset]
  <2>1. h \in Nat /\ i <= h
    BY <1>1 DEF VaultInv, Backed, Balances
  <2>2. j + v = i /\ i \in Nat /\ j \in Nat /\ ledger'[Vault][Asset] = h - v /\ v \in Nat
    BY <1>1, <1>2
  <2> HIDE DEF i, j, h
  <2>3. j <= ledger'[Vault][Asset]
    BY ONLY <2>1, <2>2
  <2>4. QED
    BY <2>3 DEF j
<1>5. QED
  BY <1>1, <1>2, <1>3, <1>4, VaultCall DEF Withdraw

LEMMA TransferSharesFacts ==
    ASSUME VaultInv, NEW a \in Holder, NEW b \in Holder, a /= b, NEW v \in VaultAmounts,
           TransferShares(a, b, v)
    PROVE  SharesOK' /\ Issued' = Issued
<1> DEFINE mid == [shares EXCEPT ![a] = @ - v]
<1>1. v \in Nat /\ shares \in [Holder -> Nat] /\ v <= shares[a] /\ IsFiniteSet(Holder)
  BY VaultAccounts DEF VaultInv, SharesOK, TransferShares
<1>2. /\ \A c \in Holder : mid[c] \in Nat
      /\ mid[a] = shares[a] - v /\ \A c \in Holder : c /= a => mid[c] = shares[c]
  BY <1>1
<1>3. shares' = [shares EXCEPT ![a] = @ - v, ![b] = @ + v]
  BY DEF TransferShares
<1>4. SharesOK' /\ shares'[b] = mid[b] + v /\ \A c \in Holder : c /= b => shares'[c] = mid[c]
  BY <1>1, <1>3 DEF SharesOK
<1>5. DOMAIN shares' = Holder /\ \A c \in Holder : shares'[c] \in Nat
  BY <1>4 DEF SharesOK
<1> HIDE DEF mid
<1>6. Total(mid, 0, Holder) + shares[a] = Total(shares, 0, Holder) + mid[a]
  BY <1>1, <1>2, TotalUpdate
<1>7. Total(shares', 0, Holder) + mid[b] = Total(mid, 0, Holder) + shares'[b]
  BY <1>1, <1>2, <1>4, <1>5, TotalUpdate
<1>8. Total(shares', 0, Holder) = Total(shares, 0, Holder)
  <2> DEFINE tn == Total(shares', 0, Holder)
             tm == Total(mid, 0, Holder)
             to == Total(shares, 0, Holder)
  <2>1. tn \in Nat /\ tm \in Nat /\ to \in Nat
    BY <1>1, <1>2, <1>5, TotalIsNat
  <2>2. shares[a] \in Nat /\ mid[a] \in Nat /\ mid[b] \in Nat
    BY <1>1, <1>2
  <2>3. mid[a] = shares[a] - v /\ shares'[b] = mid[b] + v
    BY <1>2, <1>4
  <2>4. tm + shares[a] = to + mid[a] /\ tn + mid[b] = tm + shares'[b]
    BY <1>6, <1>7
  <2> HIDE DEF tn, tm, to
  <2>5. tn = to
    <3> DEFINE sa == shares[a]
               ma == mid[a]
               mb == mid[b]
               sb == shares'[b]
    <3>1. /\ sa \in Nat /\ ma \in Nat /\ mb \in Nat /\ v \in Nat
          /\ ma = sa - v /\ sb = mb + v /\ tm + sa = to + ma /\ tn + mb = tm + sb
      BY <2>2, <2>3, <2>4, <1>1
    <3> HIDE DEF sa, ma, mb, sb
    <3>2. QED
      BY ONLY <2>1, <3>1
  <2>6. QED
    BY <2>5 DEF tn, to
<1>9. Issued' = Issued
  BY <1>1, <1>5, <1>8, SumIsTotal DEF Issued
<1>10. QED
  BY <1>4, <1>9

LEMMA TransferSharesInv ==
    ASSUME VaultInv, NEW a \in Holder, NEW b \in Holder, a /= b, NEW v \in VaultAmounts,
           TransferShares(a, b, v)
    PROVE  VaultInv'
<1>1. UNCHANGED vars
  BY DEF TransferShares
<1>2. SInv' /\ Settings' /\ Origins'
  BY <1>1, NextSInv, SettingsNext, OriginsNext DEF VaultInv
<1>3. SharesOK' /\ Issued' = Issued
  BY TransferSharesFacts
<1>4. Backed'
  BY <1>1, <1>3 DEF VaultInv, Backed, vars, frameVars
<1>5. QED
  BY <1>2, <1>3, <1>4 DEF VaultInv

LEMMA VaultNextInv == VaultInv /\ [VaultNext]_vaultVars => VaultInv'
<1> SUFFICES ASSUME VaultInv, [VaultNext]_vaultVars PROVE VaultInv'
  OBVIOUS
<1>1. CASE [Next]_vars /\ UNCHANGED shares
  BY <1>1, BesideTheVault
<1>2. ASSUME NEW a \in Holder, NEW v \in VaultAmounts, Deposit(a, v) PROVE VaultInv'
  BY <1>2, DepositInv
<1>3. ASSUME NEW a \in Holder, NEW v \in VaultAmounts, Withdraw(a, v) PROVE VaultInv'
  BY <1>3, WithdrawInv
<1>4. ASSUME NEW a \in Holder, NEW b \in Holder, NEW v \in VaultAmounts,
             a /= b, TransferShares(a, b, v)
      PROVE  VaultInv'
  BY <1>4, TransferSharesInv
<1>5. QED
  BY <1>1, <1>2, <1>3, <1>4 DEF VaultNext, VaultStep, vaultVars

LEMMA VaultInvariance == VaultSpec => []VaultInv
BY VaultInitInv, VaultNextInv, PTL DEF VaultSpec

\* Every share is backed by one unit of the asset between settlements, for any
\* holders and amounts, whatever settlements deliver to the vault or put back when
\* they revert (deposit, withdraw, the share token's transfer).
THEOREM SharesAreBacked == VaultSpec => []VaultIsBacked
<1>1. VaultInv => VaultIsBacked
  BY DEF VaultInv, Backed, VaultIsBacked
<1>2. QED
  BY <1>1, VaultInvariance, PTL

\* The guard of a withdrawal of all a holder has is met between settlements, for every
\* holder and whatever became of the attestation (withdraw reads none): what
\* ExitIsNeverBlocked says with ENABLED.
THEOREM ExitsAreFunded ==
    VaultSpec => [](pc = "idle" => \A a \in Holder : /\ shares[a] <= Issued
                                                     /\ shares[a] <= ledger[Vault][Asset])
<1>1. ASSUME VaultInv, pc = "idle", NEW a \in Holder
      PROVE  shares[a] <= Issued /\ shares[a] <= ledger[Vault][Asset]
  <2>1. /\ IsFiniteSet(Holder) /\ \A x \in Holder : shares[x] \in Nat
        /\ Issued = Total(shares, 0, Holder) /\ Issued \in Nat
    BY <1>1, VaultAccounts, IssuedIsTotal DEF VaultInv, SharesOK
  <2>2. Total(shares, 0, Holder) = shares[a] + Total(shares, 0, Holder \ {a})
    BY <2>1, TotalRemove
  <2>3. Total(shares, 0, Holder \ {a}) \in Nat
    BY <2>1, FS_RemoveElement, TotalIsNat
  <2>4. shares[a] <= Issued
    BY <2>1, <2>2, <2>3
  <2>5. ledger[Vault][Asset] \in Nat /\ Issued <= ledger[Vault][Asset]
    BY <1>1, VaultAccounts DEF VaultInv, SInv, Types, Balances, Backed
  <2>6. QED
    BY <2>1, <2>4, <2>5
<1>2. VaultInv => (pc = "idle" => \A a \in Holder : /\ shares[a] <= Issued
                                                    /\ shares[a] <= ledger[Vault][Asset])
  BY <1>1
<1>3. QED
  BY <1>2, VaultInvariance, PTL

\* What the vault holds; while a settlement is open, what a revert would leave it.
Custody == (IF pc = "idle" THEN ledger ELSE savedLedger)[Vault][Asset]

\* While a settlement is open the vault has what it had before it, or more.
Gains == pc /= "idle" => savedLedger[Vault][Asset] <= ledger[Vault][Asset]

LEMMA HoldingIsNat ==
    ASSUME NEW l \in Balances
    PROVE  l[Vault][Asset] \in Nat
BY VaultAccounts DEF Balances

LEMMA StepAndCustody ==
    ASSUME VaultInv, Gains, [Next]_vars
    PROVE  Gains' /\ Custody' >= Custody
<1> DEFINE held  == ledger[Vault][Asset]
           heldN == ledger'[Vault][Asset]
           kept  == savedLedger[Vault][Asset]
           keptN == savedLedger'[Vault][Asset]
<1>1. held \in Nat /\ heldN \in Nat /\ kept \in Nat /\ keptN \in Nat
  <2>1. SInv /\ SInv'
    BY NextSInv DEF VaultInv
  <2>2. /\ ledger \in Balances /\ ledger' \in Balances
        /\ savedLedger \in Balances /\ savedLedger' \in Balances
    BY ONLY <2>1 DEF SInv, Types
  <2>3. QED
    BY ONLY <2>2, HoldingIsNat
<1>2. /\ Custody = IF pc = "idle" THEN held ELSE kept
      /\ Custody' = IF pc' = "idle" THEN heldN ELSE keptN
  BY DEF Custody
<1>3. pc /= "idle" => kept <= held
  BY DEF Gains
<1>4. CASE Revert
  <2>1. heldN = kept /\ pc' = "idle" /\ pc /= "idle"
    BY <1>4 DEF Revert, EndFrame
  <2>2. QED
    BY <1>1, <1>2, <2>1 DEF Gains
<1>5. CASE ~Revert
  <2>1. heldN >= held
    BY <1>5, StepKeepsVault DEF VaultInv
  <2>2. pc' /= "idle" => \/ pc = "idle" /\ keptN = held
                         \/ pc /= "idle" /\ keptN = kept
    BY <1>5 DEF Next, SettleStep, Begin, SellExit, SwapLeg, Acquire, OnboardOnly, Check,
       SkipLeg, HandOverLeg, Close, Declare, Select, ReportFailure, Cancel, Transfer,
       Governance, AssetStep, vars, frameVars, EndFrame
  <2>3. pc' /= "idle" => keptN <= heldN
    BY <1>1, <1>3, <2>1, <2>2
  <2>4. Custody' >= Custody
    <3> HIDE DEF held, heldN, kept, keptN
    <3>1. QED
      BY <1>1, <1>2, <1>3, <2>1, <2>2
  <2>5. QED
    BY <2>3, <2>4 DEF Gains
<1>6. QED
  BY <1>4, <1>5

\* What the vault holds over its shares never gets less: a withdrawal pays for the
\* shares it burns and for nothing else, and no settlement, transfer or revert takes
\* from the vault, so that what was given to it besides is nobody's to take out.
THEOREM SurplusNeverFalls ==
    VaultSpec => [][Custody' - Issued' >= Custody - Issued]_vaultVars
<1>1. VaultInit => Gains
  BY DEF VaultInit, Init, Gains
<1>2. ASSUME VaultInv, Gains, [VaultNext]_vaultVars
      PROVE  Gains' /\ Custody' - Issued' >= Custody - Issued
  <2>1. /\ VaultInv' /\ ledger[Vault][Asset] \in Nat /\ ledger'[Vault][Asset] \in Nat
        /\ savedLedger[Vault][Asset] \in Nat /\ savedLedger'[Vault][Asset] \in Nat
    <3>1. VaultInv /\ VaultInv'
      BY <1>2, VaultNextInv
    <3>2. /\ ledger \in Balances /\ ledger' \in Balances
          /\ savedLedger \in Balances /\ savedLedger' \in Balances
      BY ONLY <3>1 DEF VaultInv, SInv, Types
    <3>3. QED
      BY ONLY <3>1, <3>2, HoldingIsNat
  <2>2. Issued \in Nat /\ Issued' \in Nat /\ Custody \in Nat /\ Custody' \in Nat
    <3>1. SharesOK /\ SharesOK'
      BY <1>2, <2>1 DEF VaultInv
    <3>2. Issued \in Nat
      BY <3>1, IssuedIsTotal
    <3>3. Issued' \in Nat
      <4>1. Issued' = Total(shares', 0, Holder)
        BY <3>1, SumIsTotal DEF Issued, SharesOK
      <4>2. Total(shares', 0, Holder) \in Nat
        BY <3>1, VaultAccounts, TotalIsNat DEF SharesOK
      <4>3. QED
        BY <4>1, <4>2
    <3>4. QED
      BY <2>1, <3>2, <3>3 DEF Custody
  <2> DEFINE i  == Issued
             iN == Issued'
             c  == Custody
             cN == Custody'
             h  == ledger[Vault][Asset]
             hN == ledger'[Vault][Asset]
  <2>3. CASE [Next]_vars /\ UNCHANGED shares
    <3>1. iN = i
      BY <2>3 DEF Issued
    <3>2. Gains' /\ cN >= c
      BY <1>2, <2>3, StepAndCustody
    <3>3. i \in Nat /\ c \in Nat /\ cN \in Nat
      BY <2>2
    <3> HIDE DEF i, iN, c, cN
    <3>4. cN - iN >= c - i
      BY ONLY <3>1, <3>2, <3>3
    <3>5. QED
      BY <3>2, <3>4 DEF i, iN, c, cN
  <2>4. ASSUME NEW a \in Holder, NEW v \in VaultAmounts, Deposit(a, v)
        PROVE  Gains' /\ Custody' - Issued' >= Custody - Issued
    <3>1. iN = i + v /\ v \in Nat /\ hN = h + v
      BY <1>2, <2>4, DepositFacts, VaultAccounts
    <3>2. pc = "idle" /\ pc' = "idle"
      BY <2>4 DEF Deposit, frameVars
    <3>3. c = h /\ cN = hN /\ h \in Nat /\ i \in Nat /\ Gains'
      BY <2>1, <2>2, <3>2 DEF Custody, Gains
    <3> HIDE DEF i, iN, c, cN, h, hN
    <3>4. cN - iN >= c - i
      BY ONLY <3>1, <3>3
    <3>5. QED
      BY <3>3, <3>4 DEF i, iN, c, cN
  <2>5. ASSUME NEW a \in Holder, NEW v \in VaultAmounts, Withdraw(a, v)
        PROVE  Gains' /\ Custody' - Issued' >= Custody - Issued
    <3>1. iN + v = i /\ v \in Nat /\ hN = h - v
      BY <1>2, <2>5, WithdrawFacts, VaultAccounts
    <3>2. pc = "idle" /\ pc' = "idle"
      BY <2>5 DEF Withdraw, frameVars
    <3>3. c = h /\ cN = hN /\ h \in Nat /\ i \in Nat /\ iN \in Nat /\ Gains'
      BY <2>1, <2>2, <3>2 DEF Custody, Gains
    <3> HIDE DEF i, iN, c, cN, h, hN
    <3>4. cN - iN >= c - i
      BY ONLY <3>1, <3>3
    <3>5. QED
      BY <3>3, <3>4 DEF i, iN, c, cN
  <2>6. ASSUME NEW a \in Holder, NEW b \in Holder, NEW v \in VaultAmounts,
               a /= b, TransferShares(a, b, v)
        PROVE  Gains' /\ Custody' - Issued' >= Custody - Issued
    <3>1. iN = i
      BY <1>2, <2>6, TransferSharesFacts
    <3>2. UNCHANGED vars
      BY <2>6 DEF TransferShares
    <3>3. cN = c /\ c \in Nat /\ i \in Nat /\ Gains'
      BY <1>2, <2>2, <3>2 DEF Custody, Gains, vars, frameVars
    <3> HIDE DEF i, iN, c, cN
    <3>4. cN - iN >= c - i
      BY ONLY <3>1, <3>3
    <3>5. QED
      BY <3>3, <3>4 DEF i, iN, c, cN
  <2>7. QED
    BY <1>2, <2>3, <2>4, <2>5, <2>6 DEF VaultNext, VaultStep, vaultVars
<1>3. QED
  BY <1>1, <1>2, VaultInvariance, PTL DEF VaultSpec

\* What holds of settlements holds of them beside a vault.
THEOREM SettlementsBesideAVault ==
    VaultSpec => /\ []SettlementTypeOK
                 /\ []FrameIsFunded
                 /\ []SpentWithinBudget
                 /\ []FullyDeployed
                 /\ []FloorsBind
<1>1. VaultInv => /\ SettlementTypeOK /\ FrameIsFunded /\ FloorsBind
                  /\ SpentWithinBudget /\ FullyDeployed
  BY SpentIsWithinBudget, AllIsDeployed
     DEF VaultInv, SInv, Types, Settings, SettlementTypeOK, Balances
<1>2. QED
  BY <1>1, VaultInvariance, PTL

-----------------------------------------------------------------------------
(* The frame as one exchange: what it collects and what it buys, kept in   *)
(* the books from the ledger it would put back.                            *)

Nothing == [t \in Token |-> 0]

\* Before exit k of a settlement that began with the ledger saved.
Selling(e, saved, l, n, k) ==
    /\ k \in 1 .. Len(e.exits) + 1
    /\ \E outs \in [1 .. k - 1 -> RouterOut] : n = e.inputAmount + UpTo(outs, k - 1)
    /\ n >= e.inputAmount + UpTo(Floors(e), k - 1)
    /\ Books(e, saved, l, n, GaveBy(e, k - 1), Nothing)

LEMMA SellingBegins ==
    ASSUME NEW e, DealOK(e), NEW l \in Wide
    PROVE  Selling(e, l, Move(l, e.owner, This, e.inputToken, e.inputAmount), e.inputAmount, 1)
<1> DEFINE new == Move(l, e.owner, This, e.inputToken, e.inputAmount)
<1>1. e.inputAmount \in Nat /\ e.inputToken \in Token /\ Len(e.exits) \in Nat
  BY DEF DealOK
<1>2. [x \in {} |-> 0] \in [1 .. 1 - 1 -> RouterOut]
  OBVIOUS
<1>3. UpTo([x \in {} |-> 0], 1 - 1) = 0 /\ UpTo(Floors(e), 1 - 1) = 0
  BY UpToZero
<1>4. Books(e, l, l, 0, Nothing, Nothing)
  <2>1. \A a \in Account, t \in Token : l[a][t] \in Int
    BY DEF Wide
  <2>2. QED
    BY <2>1 DEF Books, Nothing
<1>5. /\ \A t \in Token : Nothing[t] \in Int
      /\ \A t \in Token : GaveBy(e, 0)[t] =
            Nothing[t] + (IF e.inputToken = t THEN e.inputAmount ELSE 0)
  BY <1>1, UpToZero DEF Nothing, GaveBy
<1>6. new = Credit(Debit(l, e.owner, e.inputToken, e.inputAmount), This, e.inputToken,
                   e.inputAmount)
  BY DEF Move
<1> HIDE DEF new
<1>7. Books(e, l, new, 0 + e.inputAmount, GaveBy(e, 0), Nothing)
  <2> DEFINE amt  == e.inputAmount
             base == e.inputToken
             gave == GaveBy(e, 0)
  <2>1. /\ DealOK(e) /\ l \in Wide /\ 0 \in Int /\ amt \in Int /\ base \in Token
        /\ \A t \in Token : Nothing[t] \in Int
        /\ \A t \in Token : gave[t] = Nothing[t] + (IF base = t THEN amt ELSE 0)
    BY <1>1, <1>5
  <2>2. new = Credit(Debit(l, e.owner, base, amt), This, e.inputToken, amt)
    BY <1>6
  <2> HIDE DEF amt, base, gave
  <2>3. Books(e, l, new, 0 + amt, gave, Nothing)
    BY ONLY <1>4, <2>1, <2>2, BooksIn
  <2>4. QED
    BY <2>3 DEF amt, gave
<1>8. Books(e, l, new, e.inputAmount, GaveBy(e, 1 - 1), Nothing)
  BY <1>1, <1>7
<1>9. e.inputAmount = e.inputAmount + UpTo([x \in {} |-> 0], 1 - 1)
      /\ e.inputAmount >= e.inputAmount + UpTo(Floors(e), 1 - 1)
  BY <1>1, <1>3
<1>10. 1 \in 1 .. Len(e.exits) + 1
  BY <1>1
<1>11. QED
  BY <1>2, <1>8, <1>9, <1>10 DEF Selling, new

LEMMA SellingNext ==
    ASSUME NEW e, DealOK(e), NEW saved \in Wide, NEW l \in Wide, NEW n \in Nat, NEW k,
           Selling(e, saved, l, n, k), k <= Len(e.exits),
           NEW out \in RouterOut, out >= e.exits[k].minOut
    PROVE  Selling(e, saved,
                   Credit(Debit(l, e.owner, e.exits[k].token, e.exits[k].amountIn),
                          This, e.inputToken, out), n + out, k + 1)
<1> DEFINE j   == k - 1
           tok == e.exits[k].token
           amt == e.exits[k].amountIn
           new == Credit(Debit(l, e.owner, tok, amt), This, e.inputToken, out)
<1>1. /\ k \in 1 .. Len(e.exits) /\ Len(e.exits) \in Nat /\ k \in Nat
      /\ j \in Nat /\ j + 1 = k /\ j < Len(e.exits) /\ (k + 1) - 1 = k /\ j \in 0 .. Len(e.exits)
  <2>1. Len(e.exits) \in Nat
    BY DEF DealOK
  <2>2. k \in 1 .. Len(e.exits) + 1
    BY DEF Selling
  <2>3. QED
    BY <2>1, <2>2
<1>2. /\ tok \in Token /\ amt \in Nat /\ e.exits[k].minOut \in Nat /\ out \in Nat
      /\ e.inputAmount \in Nat /\ e.inputToken \in Token
  BY <1>1, SoldFacts, SettlementAssumption DEF DealOK
<1>3. PICK outs \in [1 .. j -> RouterOut] : n = e.inputAmount + UpTo(outs, j)
  BY DEF Selling
<1> DEFINE outs2 == [x \in 1 .. k |-> IF x = k THEN out ELSE outs[x]]
<1>4. outs2 \in [1 .. (k + 1) - 1 -> RouterOut]
  <2>1. \A x \in 1 .. k : x /= k => x \in 1 .. j
    BY <1>1
  <2>2. QED
    BY <2>1, <1>1
<1>5. UpTo(outs2, k) = UpTo(outs, j) + out /\ UpTo(outs, j) \in Nat
  <2>1. \A x \in 1 .. j : outs2[x] = outs[x] /\ outs[x] \in Nat
    <3>1. \A x \in 1 .. j : x \in 1 .. k /\ x /= k
      BY <1>1
    <3>2. \A x \in 1 .. j : outs[x] \in Nat
      BY SettlementAssumption
    <3>3. QED
      BY <3>1, <3>2
  <2>2. outs2[j + 1] = out
    BY <1>1
  <2>3. \A x \in 1 .. j + 1 : outs2[x] \in Nat
    <3>1. \A x \in 1 .. j + 1 : x \in 1 .. j \/ x = j + 1
      BY <1>1
    <3>2. QED
      BY <3>1, <2>1, <2>2, <1>2
  <2> HIDE DEF outs2, j
  <2>4. UpTo(outs2, j + 1) = UpTo(outs2, j) + outs2[j + 1]
    BY <1>1, <2>3, UpToNext
  <2>5. UpTo(outs2, j) = UpTo(outs, j)
    BY <1>1, <2>1, UpToSame
  <2>6. UpTo(outs, j) \in Nat
    BY <1>1, <2>1, UpToIsNat
  <2>7. QED
    BY <1>1, <2>2, <2>4, <2>5, <2>6
<1>6. n + out = e.inputAmount + UpTo(outs2, k)
  BY <1>2, <1>3, <1>5
<1>7. n + out >= e.inputAmount + UpTo(Floors(e), k)
  <2>1. \A x \in 1 .. j + 1 : Floors(e)[x] \in Nat
    <3>1. Token /= {}
      BY <1>2
    <3>2. QED
      BY <3>1, <1>1, SoldFacts
  <2>2. Floors(e)[k] = e.exits[k].minOut
    BY <1>1 DEF Floors, DealOK
  <2>3. n >= e.inputAmount + UpTo(Floors(e), j)
    BY DEF Selling
  <2> HIDE DEF j
  <2>4. UpTo(Floors(e), j + 1) = UpTo(Floors(e), j) + Floors(e)[j + 1] /\ UpTo(Floors(e), j) \in Nat
    BY <1>1, <2>1, UpToNext, UpToIsNat
  <2>5. UpTo(Floors(e), k) = UpTo(Floors(e), j) + e.exits[k].minOut
    BY <1>1, <2>2, <2>4
  <2> DEFINE a == UpTo(Floors(e), j)
             b == e.exits[k].minOut
  <2>6. a \in Nat /\ b \in Nat /\ n >= e.inputAmount + a /\ out >= b
        /\ UpTo(Floors(e), k) = a + b
    BY <1>2, <2>3, <2>4, <2>5
  <2> HIDE DEF a, b
  <2>7. QED
    BY <1>2, <2>6
<1>8. Books(e, saved, new, n + out, GaveBy(e, k), Nothing)
  <2> DEFINE give == GaveBy(e, j)
             more == GaveBy(e, k)
  <2>1. \A t \in Token : more[t] = give[t] + (IF tok = t THEN amt ELSE 0)
    <3>1. \A t \in Token : GaveBy(e, j + 1)[t] =
             GaveBy(e, j)[t] + (IF e.exits[j + 1].token = t THEN e.exits[j + 1].amountIn ELSE 0)
      BY <1>1, GaveByNext
    <3>2. QED
      BY <3>1, <1>1
  <2>2. \A t \in Token : give[t] \in Int /\ Nothing[t] \in Int
    BY <1>1, GaveByNat DEF Nothing
  <2>3. Books(e, saved, l, n, give, Nothing)
    BY DEF Selling
  <2>4. n \in Int /\ out \in Int /\ amt \in Int /\ tok \in Token
    BY <1>2
  <2>5. new = Credit(Debit(l, e.owner, tok, amt), This, e.inputToken, out)
    OBVIOUS
  <2> HIDE DEF give, more, tok, amt, new
  <2>6. Books(e, saved, new, n + out, more, Nothing)
    <3>1. DealOK(e) /\ saved \in Wide /\ l \in Wide
      OBVIOUS
    <3>2. QED
      BY ONLY <3>1, <2>1, <2>2, <2>3, <2>4, <2>5, BooksIn
  <2>7. QED
    BY <2>6 DEF more
<1>9. k + 1 \in 1 .. Len(e.exits) + 1
  BY <1>1
<1> HIDE DEF outs2, new
<1>10. Selling(e, saved, new, n + out, k + 1)
  BY <1>1, <1>4, <1>6, <1>7, <1>8, <1>9 DEF Selling
<1>11. QED
  BY <1>10 DEF new, tok, amt

LEMMA SameBooks ==
    ASSUME NEW e, NEW saved, NEW l, NEW held, NEW give, NEW take, NEW other,
           Books(e, saved, l, held, give, take), \A t \in Token : other[t] = take[t]
    PROVE  Books(e, saved, l, held, give, other)
<1>1. ASSUME NEW a \in Account, NEW t \in Token
      PROVE  l[a][t] = saved[a][t] + (IF a = This /\ t = e.inputToken THEN held ELSE 0)
                                   - (IF a = e.owner THEN give[t] ELSE 0)
                                   + (IF a = e.recipient THEN other[t] ELSE 0)
  <2>1. other[t] = take[t]
    OBVIOUS
  <2>2. l[a][t] = saved[a][t] + (IF a = This /\ t = e.inputToken THEN held ELSE 0)
                              - (IF a = e.owner THEN give[t] ELSE 0)
                              + (IF a = e.recipient THEN take[t] ELSE 0)
    BY DEF Books
  <2>3. QED
    BY <2>1, <2>2
<1>2. QED
  BY <1>1 DEF Books

LEMMA WeightsAreNat ==
    ASSUME NEW e, DealOK(e), NEW k \in 1 .. Len(e.legs)
    PROVE  WeightOf(e.legs, k) \in Nat
<1>1. /\ DOMAIN e.legs = 1 .. Len(e.legs) /\ Len(e.legs) \in Nat /\ e.legs \in Seq(Leg)
      /\ \A i, j \in DOMAIN e.legs : i <= j => e.legs[i].upTo <= e.legs[j].upTo
  BY DEF DealOK
<1>2. ASSUME NEW j \in 1 .. Len(e.legs) PROVE e.legs[j].upTo \in Nat
  <2>1. e.legs[j] \in Leg
    BY <1>1
  <2>2. QED
    BY <2>1 DEF Leg
<1>3. CASE k = 1
  BY <1>2, <1>3 DEF WeightOf
<1>4. CASE k /= 1
  <2>1. k - 1 \in 1 .. Len(e.legs) /\ k - 1 <= k
    BY <1>1, <1>4
  <2>2. e.legs[k - 1].upTo <= e.legs[k].upTo
    BY <2>1, <1>1
  <2>3. e.legs[k - 1].upTo \in Nat /\ e.legs[k].upTo \in Nat
    BY <2>1, <1>2
  <2>4. QED
    BY <2>2, <2>3, <1>4 DEF WeightOf
<1>5. QED
  BY <1>3, <1>4

LEMMA PartsFacts ==
    ASSUME NEW e, DealOK(e), NEW b \in Nat
    PROVE  \A k \in 1 .. Len(e.legs) : /\ Parts(e, b)[k] = Share(b, WeightOf(e.legs, k))
                                       /\ Parts(e, b)[k] \in Nat
<1>1. DOMAIN e.legs = 1 .. Len(e.legs)
  BY DEF DealOK
<1>2. ASSUME NEW k \in 1 .. Len(e.legs)
      PROVE  Parts(e, b)[k] = Share(b, WeightOf(e.legs, k)) /\ Parts(e, b)[k] \in Nat
  <2>1. Parts(e, b)[k] = Share(b, WeightOf(e.legs, k))
    BY <1>1 DEF Parts
  <2>2. QED
    BY <2>1, WeightsAreNat, ShareIsNat
<1>3. QED
  BY <1>2

\* The part of the budget that leg k is worth.
Slice(e, b, k) == IF k = Len(e.legs) THEN b - UpTo(Parts(e, b), k - 1)
                  ELSE Share(b, WeightOf(e.legs, k))

Filled(e, b, k, v) ==
    IF Slice(e, b, k) = 0 THEN v = 0 ELSE v >= e.legs[k].minOut /\ v >= e.guaranteedOut[k]

Raised(e, n) ==
    /\ n \in Notionals
    /\ n >= e.inputAmount + SumFunction(Floors(e))
    /\ e.exits = << >> => n = e.inputAmount
    /\ e.maxNotional /= 0 => n <= e.maxNotional
    /\ e.feeBps <= e.maxFeeBps

\* After the legs that came out as got.
Paying(e, saved, l, n, s, got) ==
    /\ Raised(e, n) /\ n > 0
    /\ Len(got) < Len(e.legs) => s = UpTo(Parts(e, Budget(e, n)), Len(got))
    /\ \A j \in 1 .. Len(got) : Filled(e, Budget(e, n), j, got[j])
    /\ Books(e, saved, l, n - s, GaveBy(e, Len(e.exits)), TookBy(e, got))

\* Once all is collected, what was raised is what the intent declared can raise.
LEMMA SellingEnds ==
    ASSUME NEW e, DealOK(e), NEW saved, NEW l, NEW n \in Nat, NEW k \in Nat,
           Selling(e, saved, l, n, k), k > Len(e.exits),
           NEW i \in Intent, NEW d \in Engagement[i], SameOffer(e, d),
           e.maxNotional /= 0 => n <= e.maxNotional, e.feeBps <= e.maxFeeBps
    PROVE  /\ Raised(e, n)
           /\ Books(e, saved, l, n, GaveBy(e, Len(e.exits)), Nothing)
<1>1. /\ Len(e.exits) \in Nat /\ DOMAIN e.exits = 1 .. Len(e.exits)
      /\ e.inputAmount \in Nat
  BY DEF DealOK
<1>2. k - 1 = Len(e.exits)
  BY <1>1 DEF Selling
<1>3. PICK outs \in [1 .. Len(e.exits) -> RouterOut] :
         n = e.inputAmount + UpTo(outs, Len(e.exits))
  BY <1>2 DEF Selling
<1>4. UpTo(outs, Len(e.exits)) = SumFunction(outs)
  BY <1>3, UpToIsTotal, SumIsTotal
<1>5. n \in Notionals
  <2>1. d \in UNION {Engagement[j] : j \in Intent}
    OBVIOUS
  <2>2. n = d.inputAmount + SumFunction(outs) /\ outs \in [DOMAIN d.exits -> RouterOut]
    BY <1>1, <1>3, <1>4 DEF SameOffer
  <2>3. QED
    BY <2>1, <2>2 DEF Notionals
<1>6. n >= e.inputAmount + SumFunction(Floors(e))
  <2>1. DOMAIN Floors(e) = 1 .. Len(e.exits)
    BY <1>1 DEF Floors
  <2>2. SumFunction(Floors(e)) = UpTo(Floors(e), Len(e.exits))
    BY <2>1, UpToIsTotal, SumIsTotal
  <2>3. n >= e.inputAmount + UpTo(Floors(e), Len(e.exits))
    BY <1>2 DEF Selling
  <2>4. QED
    BY <2>2, <2>3
<1>7. e.exits = << >> => n = e.inputAmount
  <2> SUFFICES ASSUME e.exits = << >> PROVE n = e.inputAmount
    OBVIOUS
  <2>1. Len(e.exits) = 0
    OBVIOUS
  <2>2. UpTo(outs, 0) = 0
    BY UpToZero
  <2>3. QED
    BY <1>1, <1>3, <2>1, <2>2
<1>8. Books(e, saved, l, n, GaveBy(e, Len(e.exits)), Nothing)
  BY <1>2 DEF Selling
<1>9. QED
  BY <1>5, <1>6, <1>7, <1>8 DEF Raised

LEMMA PayingBegins ==
    ASSUME NEW e, DealOK(e), NEW saved, NEW l, NEW n \in Nat, Raised(e, n), n > 0,
           Books(e, saved, l, n, GaveBy(e, Len(e.exits)), Nothing)
    PROVE  Paying(e, saved, l, n, 0, << >>)
<1>1. Len(<< >>) = 0 /\ 1 .. 0 = {}
  OBVIOUS
<1>2. UpTo(Parts(e, Budget(e, n)), 0) = 0
  BY UpToZero
<1>3. \A t \in Token : TookBy(e, << >>)[t] = Nothing[t]
  BY <1>1, UpToZero DEF TookBy, Nothing
<1>4. n - 0 = n
  OBVIOUS
<1>5. Books(e, saved, l, n - 0, GaveBy(e, Len(e.exits)), TookBy(e, << >>))
  BY <1>3, <1>4, SameBooks
<1>6. QED
  BY <1>1, <1>2, <1>5 DEF Paying

LEMMA PayingNext ==
    ASSUME NEW e, DealOK(e), NEW saved, NEW l, NEW n \in Nat, NEW s \in Nat,
           NEW got \in Seq(Nat), Paying(e, saved, l, n, s, got), Budget(e, n) \in Nat,
           Len(got) < Len(e.legs),
           NEW amt \in Nat, amt = Slice(e, Budget(e, n), Len(got) + 1),
           NEW out \in Nat, Filled(e, Budget(e, n), Len(got) + 1, out),
           NEW new,
           Books(e, saved, new, n - (s + amt), GaveBy(e, Len(e.exits)), TookBy(e, Append(got, out)))
    PROVE  Paying(e, saved, new, n, s + amt, Append(got, out))
<1> DEFINE b == Budget(e, n)
           j == Len(got)
           h == Append(got, out)
<1>1. /\ j \in Nat /\ Len(h) = j + 1 /\ h[j + 1] = out
      /\ \A x \in 1 .. j : h[x] = got[x]
      /\ Len(e.legs) \in Nat
  BY SMTT(30) DEF DealOK
<1>2. \A x \in 1 .. Len(h) : Filled(e, b, x, h[x])
  <2>1. \A x \in 1 .. Len(h) : x = j + 1 \/ x \in 1 .. j
    BY SMTT(30), <1>1
  <2>2. QED
    BY <1>1, <2>1 DEF Paying
<1>3. Len(h) < Len(e.legs) => s + amt = UpTo(Parts(e, b), Len(h))
  <2> SUFFICES ASSUME Len(h) < Len(e.legs) PROVE s + amt = UpTo(Parts(e, b), Len(h))
    OBVIOUS
  <2>1. j + 1 \in 1 .. Len(e.legs) /\ j + 1 /= Len(e.legs)
        /\ \A x \in 1 .. j + 1 : x \in 1 .. Len(e.legs)
    BY SMTT(30), <1>1
  <2>2. amt = Parts(e, b)[j + 1]
    BY <2>1, PartsFacts DEF Slice
  <2>3. \A x \in 1 .. j + 1 : Parts(e, b)[x] \in Nat
    BY <2>1, PartsFacts
  <2> HIDE DEF b, j
  <2>4. UpTo(Parts(e, b), j + 1) = UpTo(Parts(e, b), j) + Parts(e, b)[j + 1]
    BY <1>1, <2>3, UpToNext
  <2>5. s = UpTo(Parts(e, b), j)
    BY DEF Paying, b, j
  <2>6. QED
    BY <1>1, <2>2, <2>4, <2>5
<1>4. QED
  BY <1>2, <1>3 DEF Paying

LEMMA PayingBooks ==
    ASSUME NEW e, DealOK(e), NEW saved \in Wide, NEW l \in Wide, NEW n \in Nat, NEW s \in Nat,
           NEW got \in Seq(Nat), Paying(e, saved, l, n, s, got), Len(got) < Len(e.legs),
           NEW amt \in Nat, NEW out \in Nat
    PROVE  /\ Books(e, saved,
                    Credit(Debit(l, This, e.inputToken, amt), e.recipient,
                           e.legs[Len(got) + 1].token, out),
                    n - (s + amt), GaveBy(e, Len(e.exits)), TookBy(e, Append(got, out)))
           /\ amt = 0 /\ out = 0 =>
                 Books(e, saved, l, n - (s + amt), GaveBy(e, Len(e.exits)),
                       TookBy(e, Append(got, out)))
<1> DEFINE tok  == e.legs[Len(got) + 1].token
           held == n - s
           give == GaveBy(e, Len(e.exits))
           take == TookBy(e, got)
           more == TookBy(e, Append(got, out))
           base == e.inputToken
           to   == e.recipient
           new  == Credit(Debit(l, This, base, amt), to, tok, out)
<1>1. tok \in Token
  <2>1. Len(got) + 1 \in 1 .. Len(e.legs) /\ e.legs \in Seq(Leg)
    BY DEF DealOK
  <2>2. e.legs[Len(got) + 1] \in Leg
    BY <2>1
  <2>3. QED
    BY <2>2 DEF Leg
<1>2. \A t \in Token : give[t] \in Int
  <2>1. Len(e.exits) \in 0 .. Len(e.exits)
    BY DEF DealOK
  <2>2. QED
    BY SMTT(30), <2>1, GaveByNat
<1>3. \A t \in Token : take[t] \in Int /\ more[t] = take[t] + (IF tok = t THEN out ELSE 0)
  <2>1. ASSUME NEW t \in Token
        PROVE  take[t] \in Int /\ more[t] = take[t] + (IF tok = t THEN out ELSE 0)
    BY TookByNext
  <2>2. QED
    BY <2>1
<1>4. Books(e, saved, l, held, give, take)
  BY DEF Paying
<1>5. held \in Int /\ amt \in Int /\ out \in Int /\ held - amt = n - (s + amt)
  OBVIOUS
<1>6. new = Credit(Debit(l, This, e.inputToken, amt), e.recipient, tok, out)
  OBVIOUS
<1> HIDE DEF tok, held, give, take, more, new, base, to
<1>7. Books(e, saved, new, held - amt, give, more)
  <2>1. /\ DealOK(e) /\ saved \in Wide /\ l \in Wide
        /\ \A t \in Token : give[t] \in Int /\ take[t] \in Int
        /\ \A t \in Token : more[t] = take[t] + (IF tok = t THEN out ELSE 0)
    BY <1>2, <1>3
  <2>2. QED
    BY ONLY <1>1, <1>4, <1>5, <1>6, <2>1, BooksOut
<1>8. amt = 0 /\ out = 0 => Books(e, saved, l, held - amt, give, more)
  <2> SUFFICES ASSUME amt = 0, out = 0 PROVE Books(e, saved, l, held - amt, give, more)
    OBVIOUS
  <2>1. ASSUME NEW t \in Token PROVE more[t] = take[t]
    <3>1. take[t] \in Int /\ more[t] = take[t] + (IF tok = t THEN 0 ELSE 0)
      BY <1>3
    <3>2. QED
      BY <3>1
  <2>2. held - amt = held
    BY <1>5
  <2>3. QED
    BY <1>4, <2>1, <2>2, SameBooks
<1>9. QED
  BY <1>5, <1>6, <1>7, <1>8 DEF tok, give, more

-----------------------------------------------------------------------------
(* The operators of the contract, in the words of the frame. *)

LEMMA SameShare ==
    ASSUME NEW v, NEW bps
    PROVE  Contract!Share(v, bps) = Share(v, bps)
BY DEF Contract!Share, Share, Contract!BPS, BPS

LEMMA SameWeight ==
    ASSUME NEW legs, NEW k
    PROVE  Contract!WeightOf(legs, k) = WeightOf(legs, k)
BY DEF Contract!WeightOf, WeightOf

LEMMA SameSum ==
    ASSUME NEW f
    PROVE  Contract!SumFunction(f) = SumFunction(f)
BY DEF Contract!SumFunction, SumFunction, Contract!SumFunctionOnSet, SumFunctionOnSet,
       Contract!FoldFunctionOnSet, FoldFunctionOnSet, Contract!MapThenFoldSet, MapThenFoldSet

LEMMA PartIsSlice ==
    ASSUME NEW e, DealOK(e), NEW b \in Nat, NEW k \in 1 .. Len(e.legs)
    PROVE  Contract!Part(e, b, k) = Slice(e, b, k)
<1> DEFINE sized == [j \in 1 .. k - 1 |-> Share(b, WeightOf(e.legs, j))]
<1>1. Contract!Part(e, b, k) = IF k = Len(e.legs) THEN b - SumFunction(sized)
                               ELSE Share(b, WeightOf(e.legs, k))
  BY SameShare, SameWeight, SameSum DEF Contract!Part
<1>2. SumFunction(sized) = UpTo(Parts(e, b), k - 1)
  <2>1. k - 1 \in Nat /\ \A j \in 1 .. k - 1 : j \in 1 .. Len(e.legs)
    BY DEF DealOK
  <2>2. \A j \in 1 .. k - 1 : sized[j] = Parts(e, b)[j]
    BY <2>1, PartsFacts
  <2>3. DOMAIN sized = 1 .. k - 1
    OBVIOUS
  <2> HIDE DEF sized
  <2>4. SumFunction(sized) = UpTo(sized, k - 1)
    BY <2>3, SumIsTotal, UpToIsTotal
  <2>5. QED
    BY <2>1, <2>2, <2>4, UpToSame
<1>3. QED
  BY <1>1, <1>2 DEF Slice

LEMMA GivenIsGaveBy ==
    ASSUME NEW e, DealOK(e), NEW t \in Token
    PROVE  Contract!Given(e, t) = GaveBy(e, Len(e.exits))[t]
<1>1. Contract!Given(e, t) = (IF e.inputToken = t THEN e.inputAmount ELSE 0)
                                + SumFunction(Sold(e, t))
  BY SameSum DEF Contract!Given, Sold
<1>2. DOMAIN Sold(e, t) = 1 .. Len(e.exits)
  BY DEF Sold, DealOK
<1>3. SumFunction(Sold(e, t)) = UpTo(Sold(e, t), Len(e.exits))
  BY <1>2, SumIsTotal, UpToIsTotal
<1>4. QED
  BY <1>1, <1>3 DEF GaveBy

LEMMA BoughtIsTookBy ==
    ASSUME NEW e, DealOK(e), NEW got \in Seq(Nat), Len(got) = Len(e.legs), NEW t \in Token
    PROVE  Contract!Bought(e, got, t) = TookBy(e, got)[t]
<1>1. DOMAIN e.legs = DOMAIN got /\ DOMAIN got = 1 .. Len(got)
  BY DEF DealOK
<1>2. Contract!Bought(e, got, t) = SumFunction(Got(e, got, t))
  BY <1>1, SameSum DEF Contract!Bought, Got
<1>3. DOMAIN Got(e, got, t) = 1 .. Len(got)
  BY <1>1 DEF Got
<1>4. SumFunction(Got(e, got, t)) = UpTo(Got(e, got, t), Len(got))
  BY <1>3, SumIsTotal, UpToIsTotal
<1>5. QED
  BY <1>2, <1>4 DEF TookBy

LEMMA TermsAreMet ==
    ASSUME NEW e, DealOK(e), NEW n \in Nat, Raised(e, n), n = 0 => e.onboard,
           Budget(e, n) \in Nat, NEW got \in Seq(Nat), Len(got) = Len(e.legs),
           \A k \in 1 .. Len(got) : Filled(e, Budget(e, n), k, got[k])
    PROVE  Contract!Terms(e, n, got)
<1> DEFINE b == n - Contract!Share(n, e.feeBps)
<1>1. b = Budget(e, n)
  BY SameShare DEF Budget
<1>2. DOMAIN got = DOMAIN e.legs /\ DOMAIN got = 1 .. Len(e.legs)
  BY DEF DealOK
<1>3. \A k \in DOMAIN got :
         IF Contract!Part(e, b, k) = 0 THEN got[k] = 0
         ELSE got[k] >= e.legs[k].minOut /\ got[k] >= e.guaranteedOut[k]
  <2> SUFFICES ASSUME NEW k \in 1 .. Len(e.legs)
               PROVE  IF Contract!Part(e, b, k) = 0 THEN got[k] = 0
                      ELSE got[k] >= e.legs[k].minOut /\ got[k] >= e.guaranteedOut[k]
    BY <1>2
  <2>1. Contract!Part(e, b, k) = Slice(e, b, k)
    <3> HIDE DEF b
    <3>1. QED
      BY <1>1, PartIsSlice
  <2>2. Filled(e, b, k, got[k])
    BY <1>1
  <2>3. QED
    BY <2>1, <2>2 DEF Filled
<1>4. n >= e.inputAmount + Contract!SumFunction([x \in DOMAIN e.exits |-> e.exits[x].minOut])
  BY SameSum DEF Raised, Floors
<1>5. QED
  BY <1>2, <1>3, <1>4 DEF Raised, Contract!Terms

\* new is l with the fee out of the contract, shared by treasury and solver.
FeesPaid(e, l, new, fee, taken) ==
    \A a \in Account, t \in Token : new[a][t] =
       l[a][t] - (IF a = This /\ t = e.inputToken THEN fee ELSE 0)
               + (IF a = treasury /\ t = e.inputToken THEN taken ELSE 0)
               + (IF a = e.solver /\ t = e.inputToken THEN fee - taken ELSE 0)

\* What the books say at the end, with the fees paid, is what the exchange does.
LEMMA BooksAreExchanged ==
    ASSUME NEW e, DealOK(e), NEW saved \in Balances, NEW l \in Balances, NEW new \in Balances,
           NEW n \in Nat, NEW got \in Seq(Nat), Len(got) = Len(e.legs),
           NEW fee \in Nat, fee = Share(n, e.feeBps), NEW taken \in Nat,
           taken = Share(fee, protocolFeeShareBps),
           Books(e, saved, l, fee, GaveBy(e, Len(e.exits)), TookBy(e, got)),
           FeesPaid(e, l, new, fee, taken)
    PROVE  new = Contract!Exchanged(saved, e, n, got)
<1> DEFINE gain(a, t) ==
              (IF a = e.recipient THEN Contract!Bought(e, got, t) ELSE 0)
              + (IF a = treasury /\ t = e.inputToken THEN taken ELSE 0)
              + (IF a = e.solver /\ t = e.inputToken THEN fee - taken ELSE 0)
              - (IF a = e.owner THEN Contract!Given(e, t) ELSE 0)
<1>1. Contract!Exchanged(saved, e, n, got) =
         [a \in Account |-> [t \in Token |-> saved[a][t] + gain(a, t)]]
  BY SameShare DEF Contract!Exchanged
<1>2. ASSUME NEW a \in Account, NEW t \in Token
      PROVE  new[a][t] = saved[a][t] + gain(a, t)
  <2> DEFINE gave == GaveBy(e, Len(e.exits))[t]
             took == TookBy(e, got)[t]
             s0   == saved[a][t]
             own  == IF a = e.owner THEN gave ELSE 0
             rec  == IF a = e.recipient THEN took ELSE 0
             keep == IF a = This /\ t = e.inputToken THEN fee ELSE 0
             tre  == IF a = treasury /\ t = e.inputToken THEN taken ELSE 0
             sol  == IF a = e.solver /\ t = e.inputToken THEN fee - taken ELSE 0
  <2>1. gave \in Nat /\ took \in Nat /\ s0 \in Nat
    <3>1. Len(e.exits) \in 0 .. Len(e.exits)
      BY DEF DealOK
    <3>2. gave \in Nat
      BY <3>1, GaveByNat
    <3>3. took \in Nat
      BY TookByNext
    <3>4. QED
      BY <3>2, <3>3 DEF Balances
  <2>2. /\ own \in Int /\ rec \in Int /\ keep \in Int /\ tre \in Int /\ sol \in Int
        /\ s0 \in Int
    BY <2>1
  <2>3. l[a][t] = s0 + keep - own + rec
    BY DEF Books
  <2>4. new[a][t] = l[a][t] - keep + tre + sol
    BY DEF FeesPaid
  <2>5. gain(a, t) = rec + tre + sol - own
    BY BoughtIsTookBy, GivenIsGaveBy
  <2> HIDE DEF own, rec, keep, tre, sol, s0, gain
  <2>6. new[a][t] = s0 + gain(a, t)
    BY ONLY <2>2, <2>3, <2>4, <2>5
  <2>7. QED
    BY <2>6 DEF s0
<1>3. new \in [Account -> [Token -> Nat]]
  BY DEF Balances
<1> HIDE DEF gain
<1>4. \A a \in Account : new[a] = [t \in Token |-> saved[a][t] + gain(a, t)]
  BY <1>2, <1>3
<1>5. QED
  BY <1>1, <1>3, <1>4

-----------------------------------------------------------------------------
(* Every settlement is one exchange. *)

Unsettled == \A i \in Intent : status[i] /= "FULFILLED" => delivered[i] = << >>

Exchanging ==
    /\ pc = "exits" => Selling(E, savedLedger, ledger, notional, leg)
    /\ pc = "acquire" => Paying(E, savedLedger, ledger, notional, spent, received)

XInv == SInv /\ Origins /\ Unsettled /\ Exchanging

LEMMA XInvInit == Init => XInv
<1>1. Init => Unsettled /\ Exchanging
  BY DEF Init, Unsettled, Exchanging
<1>2. QED
  BY <1>1, InitSInv, OriginsInit DEF XInv

LEMMA UnsettledNext ==
    ASSUME SInv, Unsettled, [Next]_vars
    PROVE  Unsettled'
<1>1. status \in [Intent -> {"NONE", "OPEN", "SELECTED", "FULFILLED", "CANCELLED"}]
      /\ DOMAIN delivered = Intent
  BY DEF SInv, Types
<1>2. CASE UNCHANGED <<status, delivered>>
  BY <1>2 DEF Unsettled
<1>3. ASSUME NEW i \in Intent, Declare(i) \/ Select(i) \/ ReportFailure(i) \/ Cancel(i)
      PROVE  Unsettled'
  <2>1. delivered' = delivered /\ status[i] /= "FULFILLED"
        /\ \A j \in Intent : j /= i => status'[j] = status[j]
    BY <1>1, <1>3 DEF Declare, Select, ReportFailure, Cancel
  <2>2. QED
    BY <2>1 DEF Unsettled
<1>4. ASSUME Close \/ OnboardOnly PROVE Unsettled'
  <2>1. cur \in Intent /\ status'[cur] = "FULFILLED"
        /\ \A j \in Intent : j /= cur => status'[j] = status[j] /\ delivered'[j] = delivered[j]
    BY <1>1, <1>4 DEF Close, OnboardOnly, SInv, Types
  <2>2. QED
    BY <2>1 DEF Unsettled
<1>5. QED
  BY <1>2, <1>3, <1>4 DEF Next, SettleStep, Begin, SellExit, SwapLeg, Acquire, Check, SkipLeg,
     HandOverLeg, Revert, Transfer, Governance, AssetStep, vars

\* The frame in the terms of the lemmas above.
LEMMA RunningFrame ==
    ASSUME SInv, pc /= "idle"
    PROVE  /\ DealOK(E) /\ Signed(E) /\ cur \in Intent
           /\ ledger \in Wide /\ savedLedger \in Wide
           /\ ledger \in Balances /\ savedLedger \in Balances
           /\ notional \in Nat /\ spent \in Nat /\ leg \in Nat \ {0} /\ received \in Seq(Nat)
BY FrameDeal, BalancesAreWide DEF SInv, Types

LEMMA BeginExchanges ==
    ASSUME SInv, NEW i \in Intent, Begin(i)
    PROVE  Exchanging'
<1> DEFINE e == engagement[i]
<1>1. DealOK(e) /\ ledger \in Wide
  BY BalancesAreWide DEF SInv, Types, Deals
<1>2. Selling(e, ledger, Move(ledger, e.owner, This, e.inputToken, e.inputAmount),
              e.inputAmount, 1)
  BY <1>1, SellingBegins
<1>3. /\ pc' = "exits" /\ leg' = 1 /\ notional' = e.inputAmount /\ savedLedger' = ledger
      /\ ledger' = Move(ledger, e.owner, This, e.inputToken, e.inputAmount)
      /\ E' = e
  BY DEF Begin, E
<1> HIDE DEF e
<1>4. Selling(E', savedLedger', ledger', notional', leg')
  BY <1>2, <1>3
<1>5. QED
  BY <1>3, <1>4 DEF Exchanging

LEMMA SellExitExchanges ==
    ASSUME SInv, Exchanging, NEW out \in RouterOut, SellExit(out)
    PROVE  Exchanging'
<1>1. /\ DealOK(E) /\ savedLedger \in Wide /\ ledger \in Wide /\ notional \in Nat
      /\ Selling(E, savedLedger, ledger, notional, leg)
      /\ leg <= Len(E.exits) /\ out >= E.exits[leg].minOut
  BY RunningFrame DEF Exchanging, SellExit
<1>2. Selling(E, savedLedger,
              Credit(Debit(ledger, E.owner, E.exits[leg].token, E.exits[leg].amountIn),
                     This, E.inputToken, out), notional + out, leg + 1)
  BY <1>1, SellingNext
<1>3. /\ pc' = "exits" /\ leg' = leg + 1 /\ notional' = notional + out
      /\ savedLedger' = savedLedger /\ E' = E
      /\ ledger' = Credit(Debit(ledger, E.owner, E.exits[leg].token, E.exits[leg].amountIn),
                          This, E.inputToken, out)
  BY DEF SellExit, E
<1>4. Selling(E', savedLedger', ledger', notional', leg')
  BY <1>2, <1>3
<1>5. QED
  BY <1>3, <1>4 DEF Exchanging

LEMMA SellingIsRaised ==
    ASSUME SInv, Origins, Exchanging, pc = "exits", leg > Len(E.exits), PolicyAccepts
    PROVE  Raised(E, notional) /\ Books(E, savedLedger, ledger, notional,
                                        GaveBy(E, Len(E.exits)), Nothing)
<1>1. DealOK(E) /\ notional \in Nat /\ leg \in Nat /\ cur \in Intent
  BY RunningFrame
<1>2. PICK d \in Engagement[cur] : SameOffer(E, d)
  BY <1>1 DEF Origins, E
<1>3. (E.maxNotional /= 0 => notional <= E.maxNotional) /\ E.feeBps <= E.maxFeeBps
  BY DEF PolicyAccepts
<1>4. Selling(E, savedLedger, ledger, notional, leg)
  BY DEF Exchanging
<1>5. QED
  BY <1>1, <1>2, <1>3, <1>4, SellingEnds

LEMMA CheckExchanges ==
    ASSUME SInv, Origins, Exchanging, Check
    PROVE  Exchanging'
<1>1. DealOK(E) /\ notional \in Nat /\ notional > 0 /\ spent = 0 /\ received = << >>
  BY RunningFrame DEF Check, SInv, Frame
<1>2. Raised(E, notional) /\ Books(E, savedLedger, ledger, notional,
                                   GaveBy(E, Len(E.exits)), Nothing)
  BY SellingIsRaised DEF Check
<1>3. Paying(E, savedLedger, ledger, notional, 0, << >>)
  BY <1>1, <1>2, PayingBegins
<1>4. pc' = "acquire" /\ E' = E
  BY DEF Check, E
<1>5. UNCHANGED <<savedLedger, ledger, notional, spent, received>>
  BY DEF Check
<1>6. QED
  BY <1>1, <1>3, <1>4, <1>5 DEF Exchanging

\* What leg costs is the part of the budget it is worth.
LEMMA LegIsSliced ==
    ASSUME SInv, Exchanging, pc = "acquire", leg <= Len(E.legs)
    PROVE  /\ Len(received) + 1 = leg /\ Len(received) < Len(E.legs)
           /\ Budget(E, notional) \in Nat
           /\ AmountIn(leg) \in Nat
           /\ AmountIn(leg) = Slice(E, Budget(E, notional), Len(received) + 1)
           /\ Paying(E, savedLedger, ledger, notional, spent, received)
<1>1. DealOK(E) /\ leg \in Nat /\ received \in Seq(Nat) /\ Len(E.legs) \in Nat
  BY RunningFrame DEF DealOK
<1>2. Paying(E, savedLedger, ledger, notional, spent, received)
  BY DEF Exchanging
<1>3. Len(received) = leg - 1 /\ Len(received) \in Nat
  BY <1>1 DEF SInv, Frame, Buying
<1>4. Len(received) + 1 = leg /\ Len(received) < Len(E.legs) /\ leg - 1 = Len(received)
  BY <1>1, <1>3
<1>5. Spendable = Budget(E, notional) /\ Spendable \in Nat /\ AmountIn(leg) \in Nat
  BY AmountFacts DEF Spendable, Fee, Budget
<1>6. spent = UpTo(Parts(E, Spendable), Len(received))
  BY <1>2, <1>4, <1>5 DEF Paying
<1>7. AmountIn(leg) = Slice(E, Spendable, leg)
  <2>1. CASE leg = Len(E.legs)
    BY <2>1, <1>4, <1>6 DEF AmountIn, Slice
  <2>2. CASE leg /= Len(E.legs)
    BY <2>2 DEF AmountIn, Slice
  <2>3. QED
    BY <2>1, <2>2
<1>8. QED
  BY <1>2, <1>4, <1>5, <1>7

LEMMA SkipExchanges ==
    ASSUME SInv, Exchanging, SkipLeg
    PROVE  Exchanging'
<1>1. /\ DealOK(E) /\ savedLedger \in Wide /\ ledger \in Wide /\ notional \in Nat
      /\ spent \in Nat /\ received \in Seq(Nat) /\ 0 \in Nat
  BY RunningFrame DEF SkipLeg
<1>2. /\ Len(received) + 1 = leg /\ Len(received) < Len(E.legs)
      /\ Budget(E, notional) \in Nat /\ AmountIn(leg) = 0
      /\ 0 = Slice(E, Budget(E, notional), Len(received) + 1)
      /\ Paying(E, savedLedger, ledger, notional, spent, received)
  BY LegIsSliced DEF SkipLeg
<1>3. Filled(E, Budget(E, notional), Len(received) + 1, 0)
  BY <1>2 DEF Filled
<1>4. Books(E, savedLedger, ledger, notional - (spent + 0), GaveBy(E, Len(E.exits)),
            TookBy(E, Append(received, 0)))
  BY <1>1, <1>2, PayingBooks
<1>5. Paying(E, savedLedger, ledger, notional, spent + 0, Append(received, 0))
  BY <1>1, <1>2, <1>3, <1>4, PayingNext
<1>6. spent + 0 = spent
  BY <1>1
<1>7. pc' = "acquire" /\ received' = Append(received, 0) /\ E' = E
      /\ UNCHANGED <<savedLedger, ledger, notional, spent>>
  BY DEF SkipLeg, E
<1>8. QED
  BY <1>5, <1>6, <1>7 DEF Exchanging

LEMMA AcquireExchanges ==
    ASSUME SInv, Exchanging, pc = "acquire", leg <= Len(E.legs), AmountIn(leg) /= 0,
           NEW out \in Nat, Acquire(out)
    PROVE  Exchanging'
<1> DEFINE amt == AmountIn(leg)
<1>1. /\ DealOK(E) /\ Signed(E) /\ savedLedger \in Wide /\ ledger \in Wide /\ notional \in Nat
      /\ spent \in Nat /\ received \in Seq(Nat)
  BY RunningFrame
<1>2. /\ Len(received) + 1 = leg /\ Len(received) < Len(E.legs)
      /\ Budget(E, notional) \in Nat /\ amt \in Nat
      /\ amt = Slice(E, Budget(E, notional), Len(received) + 1)
      /\ Paying(E, savedLedger, ledger, notional, spent, received)
  BY LegIsSliced
<1>3. Filled(E, Budget(E, notional), Len(received) + 1, out)
  <2>1. leg \in 1 .. Len(E.legs) /\ Len(E.guaranteedOut) = Len(E.legs)
        /\ E.legs \in Seq(Leg) /\ E.guaranteedOut \in Seq(Nat) /\ leg \in Nat
    BY <1>1, RunningFrame DEF DealOK, Signed
  <2>2. E.legs[leg] \in Leg /\ E.guaranteedOut[leg] \in Nat
    BY <2>1
  <2>3. E.legs[leg].minOut \in Nat
    BY <2>2 DEF Leg
  <2>4. out >= FloorFor(leg)
    BY DEF Acquire
  <2>5. out >= E.legs[leg].minOut /\ out >= E.guaranteedOut[leg]
    BY <2>2, <2>3, <2>4 DEF FloorFor
  <2>6. QED
    BY <1>2, <2>5 DEF Filled
<1> HIDE DEF amt
<1>4. Books(E, savedLedger,
            Credit(Debit(ledger, This, E.inputToken, amt), E.recipient,
                   E.legs[Len(received) + 1].token, out),
            notional - (spent + amt), GaveBy(E, Len(E.exits)),
            TookBy(E, Append(received, out)))
  BY <1>1, <1>2, PayingBooks
<1>5. Paying(E, savedLedger,
             Credit(Debit(ledger, This, E.inputToken, amt), E.recipient,
                    E.legs[Len(received) + 1].token, out),
             notional, spent + amt, Append(received, out))
  BY <1>1, <1>2, <1>3, <1>4, PayingNext
<1>6. /\ pc' = "acquire" /\ received' = Append(received, out) /\ E' = E
      /\ spent' = spent + amt
      /\ ledger' = Credit(Debit(ledger, This, E.inputToken, amt), E.recipient,
                          E.legs[Len(received) + 1].token, out)
      /\ UNCHANGED <<savedLedger, notional>>
  BY <1>2 DEF Acquire, E, amt
<1>7. QED
  BY <1>5, <1>6 DEF Exchanging

LEMMA XInvNext == XInv /\ [Next]_vars => XInv'
<1> SUFFICES ASSUME XInv, [Next]_vars PROVE XInv'
  OBVIOUS
<1>1. SInv /\ Origins /\ Unsettled /\ Exchanging
  BY DEF XInv
<1>2. SInv' /\ Origins' /\ Unsettled'
  BY <1>1, NextSInv, OriginsNext, UnsettledNext
<1> SUFFICES Exchanging'
  BY <1>2 DEF XInv
<1>3. ASSUME NEW i \in Intent, Begin(i) PROVE Exchanging'
  BY <1>1, <1>3, BeginExchanges
<1>4. ASSUME NEW out \in RouterOut, SellExit(out) PROVE Exchanging'
  BY <1>1, <1>4, SellExitExchanges
<1>5. CASE Check
  BY <1>1, <1>5, CheckExchanges
<1>6. CASE SkipLeg
  BY <1>1, <1>6, SkipExchanges
<1>7. ASSUME NEW out \in RouterOut, SwapLeg(out) PROVE Exchanging'
  BY <1>1, <1>7, AcquireExchanges, SettlementAssumption DEF SwapLeg
<1>8. CASE HandOverLeg
  BY <1>1, <1>8, AcquireExchanges, AmountFacts DEF HandOverLeg
<1>9. CASE pc' = "idle"
  BY <1>9 DEF Exchanging
<1>10. CASE UNCHANGED vars
  BY <1>1, <1>10 DEF vars, frameVars, Exchanging, E
<1>11. QED
  BY <1>3, <1>4, <1>5, <1>6, <1>7, <1>8, <1>9, <1>10 DEF Next, SettleStep, OnboardOnly, Close,
     Revert, EndFrame, Declare, Select, ReportFailure, Cancel, Transfer, Governance, AssetStep,
     frameVars

LEMMA SettlesBy ==
    ASSUME SInv, pc /= "idle", pc' = "idle", delivered[cur] = << >>,
           NEW n \in Notionals, NEW got, delivered' = [delivered EXCEPT ![cur] = got],
           Contract!Terms(E, n, got), ledger' = Contract!Exchanged(savedLedger, E, n, got),
           UNCHANGED <<engagement, treasury, protocolFeeShareBps>>
    PROVE  \E i \in Intent : Contract!Settles(i)
<1>1. cur \in Intent /\ DOMAIN delivered = Intent
  BY DEF SInv, Types
<1>2. delivered'[cur] = got
  BY <1>1
<1>3. Contract!Settles(cur)
  BY <1>2 DEF Contract!Settles, E
<1>4. QED
  BY <1>1, <1>3

LEMMA CloseSettles ==
    ASSUME XInv, Close
    PROVE  \E i \in Intent : Contract!Settles(i)
<1>1. SInv /\ Unsettled /\ Exchanging /\ pc = "acquire" /\ leg > Len(E.legs) /\ pc' = "idle"
      /\ ledger' = PaidOut(ledger) /\ delivered' = [delivered EXCEPT ![cur] = received]
      /\ UNCHANGED <<engagement, treasury, protocolFeeShareBps>>
  BY DEF XInv, Close, EndFrame, roleVars
<1>2. /\ DealOK(E) /\ notional \in Nat /\ spent \in Nat /\ received \in Seq(Nat)
      /\ ledger \in Balances /\ savedLedger \in Balances /\ cur \in Intent
  BY <1>1, RunningFrame
<1>3. Paying(E, savedLedger, ledger, notional, spent, received)
  BY <1>1 DEF Exchanging
<1>4. Len(received) = Len(E.legs) /\ Budget(E, notional) \in Nat
  <2>1. Buying(E, notional, spent, leg, received) /\ leg \in Nat /\ Len(E.legs) \in Nat
    BY <1>1, RunningFrame DEF SInv, Frame, DealOK
  <2>2. spent = Budget(E, notional)
    BY <1>1, <2>1 DEF Buying
  <2>3. Len(received) = leg - 1 /\ leg \in 1 .. Len(E.legs) + 1
    BY <2>1 DEF Buying
  <2>4. QED
    BY <2>1, <2>2, <2>3, <1>1, <1>2
<1>5. delivered[cur] = << >>
  BY <1>1, <1>2 DEF SInv, Frame, Unsettled
<1>6. Raised(E, notional) /\ notional > 0 /\ notional \in Notionals
  BY <1>3 DEF Paying, Raised
<1>7. Contract!Terms(E, notional, received)
  <2>1. \A k \in 1 .. Len(received) : Filled(E, Budget(E, notional), k, received[k])
    BY <1>3 DEF Paying
  <2>2. notional = 0 => E.onboard
    BY <1>2, <1>6
  <2>3. QED
    BY <1>2, <1>4, <1>6, <2>1, <2>2, TermsAreMet
<1>8. ledger' = Contract!Exchanged(savedLedger, E, notional, received)
  <2>1. PaidOut(ledger) \in Balances
    BY <1>1, PaidOutFacts
  <2>2. Fee \in Nat /\ ProtocolFee \in Nat /\ notional - spent = Fee
    <3> DEFINE f == Fee
    <3>1. f \in Nat /\ ProtocolFee \in Nat /\ spent = notional - f
      BY <1>1, CloseAmounts
    <3> HIDE DEF f
    <3>2. notional - spent = f
      BY <3>1, <1>2
    <3>3. QED
      BY <3>1, <3>2 DEF f
  <2>3. Fee = Share(notional, E.feeBps) /\ ProtocolFee = Share(Fee, protocolFeeShareBps)
    BY DEF Fee, ProtocolFee
  <2>4. Books(E, savedLedger, ledger, Fee, GaveBy(E, Len(E.exits)), TookBy(E, received))
    BY <1>3, <2>2 DEF Paying
  <2>5. FeesPaid(E, ledger, PaidOut(ledger), Fee, ProtocolFee)
    BY <1>1, PaidAt DEF FeesPaid
  <2> DEFINE fee   == Fee
             taken == ProtocolFee
             new   == PaidOut(ledger)
             e     == E
  <2>6. /\ DealOK(e) /\ savedLedger \in Balances /\ ledger \in Balances /\ new \in Balances
        /\ notional \in Nat /\ received \in Seq(Nat) /\ Len(received) = Len(e.legs)
        /\ fee \in Nat /\ fee = Share(notional, e.feeBps)
        /\ taken \in Nat /\ taken = Share(fee, protocolFeeShareBps)
        /\ Books(e, savedLedger, ledger, fee, GaveBy(e, Len(e.exits)), TookBy(e, received))
    BY <1>2, <1>4, <2>1, <2>2, <2>3, <2>4
  <2>7. FeesPaid(e, ledger, new, fee, taken)
    BY <2>5
  <2> HIDE DEF fee, taken, new, e
  <2>8. new = Contract!Exchanged(savedLedger, e, notional, received)
    BY ONLY <2>6, <2>7, BooksAreExchanged
  <2>9. QED
    BY <1>1, <2>8 DEF new, e
<1>9. QED
  BY <1>1, <1>5, <1>6, <1>7, <1>8, SettlesBy

\* Nothing is worth nothing.
LEMMA NothingRaised ==
    ASSUME NEW e, DealOK(e), protocolFeeShareBps \in Nat
    PROVE  /\ Share(0, e.feeBps) = 0 /\ Share(0, protocolFeeShareBps) = 0 /\ Budget(e, 0) = 0
           /\ \A k \in 1 .. Len(e.legs) : Slice(e, 0, k) = 0
<1>1. \A v \in Nat : Share(0, v) = 0
  <2>1. \A v \in Nat : 0 * v = 0
    OBVIOUS
  <2>2. QED
    BY <2>1 DEF Share, BPS
<1>2. e.feeBps \in Nat /\ Len(e.legs) \in Nat
  BY DEF DealOK
<1>3. \A k \in 1 .. Len(e.legs) : Parts(e, 0)[k] = 0 /\ Share(0, WeightOf(e.legs, k)) = 0
  BY <1>1, PartsFacts, WeightsAreNat
<1>4. ASSUME NEW k \in 1 .. Len(e.legs) PROVE Slice(e, 0, k) = 0
  <2>1. k - 1 \in Nat /\ \A j \in 1 .. k - 1 : j \in 1 .. Len(e.legs)
    BY <1>2
  <2>2. \A j \in 1 .. k - 1 : Parts(e, 0)[j] = 0
    BY <2>1, <1>3
  <2>3. UpTo(Parts(e, 0), k - 1) = 0
    BY <2>1, <2>2, UpToZeros
  <2>4. QED
    BY <2>3, <1>3 DEF Slice
<1>5. Share(0, protocolFeeShareBps) = 0
  BY <1>1
<1>6. QED
  BY <1>1, <1>2, <1>4, <1>5 DEF Budget

LEMMA OnboardOnlySettles ==
    ASSUME XInv, OnboardOnly
    PROVE  \E i \in Intent : Contract!Settles(i)
<1> DEFINE none == [k \in DOMAIN E.legs |-> 0]
<1>1. /\ SInv /\ Origins /\ Unsettled /\ Exchanging /\ pc = "exits" /\ leg > Len(E.exits)
      /\ pc' = "idle" /\ notional = 0 /\ E.onboard /\ PolicyAccepts
      /\ ledger' = ledger /\ delivered' = [delivered EXCEPT ![cur] = none]
      /\ UNCHANGED <<engagement, treasury, protocolFeeShareBps>>
  BY DEF XInv, OnboardOnly, EndFrame, roleVars
<1>2. /\ DealOK(E) /\ ledger \in Balances /\ savedLedger \in Balances /\ cur \in Intent
      /\ protocolFeeShareBps \in Nat
  BY <1>1, RunningFrame DEF SInv, Types
<1>3. Raised(E, 0) /\ 0 \in Notionals /\ Books(E, savedLedger, ledger, 0, GaveBy(E, Len(E.exits)), Nothing)
  BY <1>1, SellingIsRaised DEF Raised
<1>4. delivered[cur] = << >>
  BY <1>1, <1>2 DEF SInv, Frame, Unsettled
<1>5. none \in Seq(Nat) /\ Len(none) = Len(E.legs) /\ \A k \in 1 .. Len(E.legs) : none[k] = 0
  <2>1. DOMAIN E.legs = 1 .. Len(E.legs) /\ Len(E.legs) \in Nat
    BY <1>2 DEF DealOK
  <2>2. none = [k \in 1 .. Len(E.legs) |-> 0]
    BY <2>1
  <2>3. QED
    BY <2>1, <2>2
<1> HIDE DEF none
<1>6. /\ Share(0, E.feeBps) = 0 /\ Share(0, protocolFeeShareBps) = 0 /\ Budget(E, 0) = 0
      /\ \A k \in 1 .. Len(E.legs) : Slice(E, 0, k) = 0
  BY <1>2, NothingRaised
<1>7. Contract!Terms(E, 0, none)
  <2>1. \A k \in 1 .. Len(none) : Filled(E, Budget(E, 0), k, none[k])
    BY <1>5, <1>6 DEF Filled
  <2>2. 0 \in Nat /\ (0 = 0 => E.onboard) /\ Budget(E, 0) \in Nat
    BY <1>1, <1>6
  <2>3. QED
    BY <1>2, <1>3, <1>5, <2>1, <2>2, TermsAreMet
<1>8. ledger' = Contract!Exchanged(savedLedger, E, 0, none)
  <2>1. \A t \in Token : TookBy(E, none)[t] = Nothing[t]
    <3>1. ASSUME NEW t \in Token PROVE TookBy(E, none)[t] = Nothing[t]
      <4>1. DOMAIN none = 1 .. Len(none) /\ Len(none) \in Nat
        BY <1>5
      <4>2. \A k \in 1 .. Len(none) : Got(E, none, t)[k] = 0
        BY <4>1, <1>5 DEF Got
      <4>3. UpTo(Got(E, none, t), Len(none)) = 0
        BY <4>1, <4>2, UpToZeros
      <4>4. QED
        BY <4>3 DEF TookBy, Nothing
    <3>2. QED
      BY <3>1
  <2>2. Books(E, savedLedger, ledger, 0, GaveBy(E, Len(E.exits)), TookBy(E, none))
    BY <1>3, <2>1, SameBooks
  <2>3. FeesPaid(E, ledger, ledger, 0, 0)
    <3>1. \A a \in Account, t \in Token : ledger[a][t] \in Int
      BY <1>2 DEF Balances
    <3>2. QED
      BY <3>1 DEF FeesPaid
  <2> DEFINE e == E
             zero == 0
  <2>4. /\ DealOK(e) /\ savedLedger \in Balances /\ ledger \in Balances
        /\ zero \in Nat /\ none \in Seq(Nat) /\ Len(none) = Len(e.legs)
        /\ zero = Share(zero, e.feeBps) /\ zero = Share(zero, protocolFeeShareBps)
        /\ Books(e, savedLedger, ledger, zero, GaveBy(e, Len(e.exits)), TookBy(e, none))
        /\ FeesPaid(e, ledger, ledger, zero, zero)
    BY <1>2, <1>5, <1>6, <2>2, <2>3
  <2> HIDE DEF e, zero
  <2>5. ledger = Contract!Exchanged(savedLedger, e, zero, none)
    BY ONLY <2>4, BooksAreExchanged
  <2>6. QED
    BY <1>1, <2>5 DEF e, zero
<1>9. pc /= "idle"
  BY <1>1
<1>10. QED
  BY <1>1, <1>3, <1>4, <1>7, <1>8, <1>9, SettlesBy

\* Tokens that change hands outside a frame.
LEMMA SendMoves ==
    ASSUME pc = "idle", pc' = "idle", ledger \in Balances, NEW a \in Account, NEW b \in Account,
           NEW t \in Token, NEW v \in Nat, v <= ledger[a][t], ledger' = Move(ledger, a, b, t, v),
           UNCHANGED <<engagement, delivered, treasury, protocolFeeShareBps>>
    PROVE  Contract!Moves
<1> DEFINE d == IF a = b THEN 0 ELSE v
           new == Move(ledger, a, b, t, v)
<1>1. ledger \in Wide /\ v \in Int
  BY BalancesAreWide
<1>2. \A c \in Account, x \in Token : new[c][x] =
         ledger[c][x] - (IF c = a /\ x = t THEN v ELSE 0) + (IF c = b /\ x = t THEN v ELSE 0)
  <2>1. new = Credit(Debit(ledger, a, t, v), b, t, v)
    BY DEF Move
  <2> HIDE DEF new
  <2>2. \A c \in Account, x \in Token : Credit(Debit(ledger, a, t, v), b, t, v)[c][x] =
         ledger[c][x] - (IF c = a /\ x = t THEN v ELSE 0) + (IF c = b /\ x = t THEN v ELSE 0)
    BY <1>1, PassAt
  <2>3. QED
    BY <2>1, <2>2
<1>3. new \in Wide
  BY <1>1, PassAt DEF Move
<1>4. \A c \in Account, x \in Token : ledger[c][x] \in Int
  BY <1>1 DEF Wide
<1> HIDE DEF new
<1>5. new[a][t] <= ledger[a][t] /\ ledger[a][t] - new[a][t] = d
  <2>1. new[a][t] = ledger[a][t] - v + (IF a = b THEN v ELSE 0)
    BY <1>2
  <2>2. QED
    BY <2>1, <1>4
<1>6. \A c \in Account, x \in Token : new[c][x] =
         ledger[c][x] - (IF c = a /\ x = t THEN d ELSE 0) + (IF c = b /\ x = t THEN d ELSE 0)
  <2>1. ASSUME NEW c \in Account, NEW x \in Token
        PROVE  new[c][x] = ledger[c][x] - (IF c = a /\ x = t THEN d ELSE 0)
                                        + (IF c = b /\ x = t THEN d ELSE 0)
    <3>1. new[c][x] = ledger[c][x] - (IF c = a /\ x = t THEN v ELSE 0)
                                   + (IF c = b /\ x = t THEN v ELSE 0)
      BY <1>2
    <3>2. ledger[c][x] \in Int
      BY <1>4
    <3>3. CASE a = b
      BY <3>1, <3>2, <3>3
    <3>4. CASE a /= b
      BY <3>1, <3>2, <3>4
    <3>5. QED
      BY <3>3, <3>4
  <2>2. QED
    BY <2>1
<1>7. new = Contract!Transferred(ledger, a, b, t, d)
  <2> HIDE DEF d
  <2>1. \A c \in Account : new[c] = [x \in Token |->
           ledger[c][x] - (IF c = a /\ x = t THEN d ELSE 0) + (IF c = b /\ x = t THEN d ELSE 0)]
    BY <1>3, <1>6 DEF Wide
  <2>2. QED
    BY <2>1, <1>3 DEF Contract!Transferred, Wide
<1>8. ledger' = new
  BY DEF new
<1> HIDE DEF d
<1>9. QED
  BY <1>5, <1>7, <1>8 DEF Contract!Moves

\* What the exchange does not see.
LEMMA Unseen ==
    ASSUME UNCHANGED <<engagement, delivered, treasury, protocolFeeShareBps>>,
           \/ pc = "idle" /\ pc' = "idle" /\ ledger' = ledger
           \/ pc = "idle" /\ pc' /= "idle" /\ savedLedger' = ledger
           \/ pc /= "idle" /\ pc' /= "idle" /\ savedLedger' = savedLedger
           \/ pc /= "idle" /\ pc' = "idle" /\ ledger' = savedLedger
    PROVE  UNCHANGED Contract!exchangeVars
<1>1. (IF pc = "idle" THEN ledger ELSE savedLedger)' = IF pc = "idle" THEN ledger ELSE savedLedger
  OBVIOUS
<1>2. QED
  BY <1>1 DEF Contract!exchangeVars

LEMMA SelectAgrees ==
    ASSUME XInv, NEW i \in Intent, Select(i)
    PROVE  Contract!Agrees
<1>1. PICK e \in Engagement[i] : engagement' = [engagement EXCEPT ![i] = e]
  BY DEF Select
<1>2. \A j \in Intent : engagement'[j] /= engagement[j] => delivered[j] = << >>
  BY <1>1 DEF XInv, SInv, Types, Unsettled, Select
<1>3. (IF pc = "idle" THEN ledger ELSE savedLedger)' = IF pc = "idle" THEN ledger ELSE savedLedger
  BY DEF Select, frameVars
<1>4. QED
  BY <1>2, <1>3 DEF Select, roleVars, Contract!Agrees

LEMMA NextIsExchange == XInv /\ [Next]_vars => [Contract!Next]_(Contract!exchangeVars)
<1> SUFFICES ASSUME XInv, [Next]_vars
             PROVE  Contract!Next \/ UNCHANGED Contract!exchangeVars
  OBVIOUS
<1>1. ASSUME NEW i \in Intent, Begin(i) PROVE UNCHANGED Contract!exchangeVars
  BY <1>1, Unseen DEF Begin, roleVars
<1>2. ASSUME NEW out \in RouterOut, SellExit(out) PROVE UNCHANGED Contract!exchangeVars
  BY <1>2, Unseen DEF SellExit, roleVars
<1>3. ASSUME NEW out \in RouterOut, SwapLeg(out) PROVE UNCHANGED Contract!exchangeVars
  BY <1>3, Unseen DEF SwapLeg, Acquire, roleVars
<1>4. CASE HandOverLeg
  BY <1>4, Unseen DEF HandOverLeg, Acquire, roleVars
<1>5. CASE OnboardOnly
  BY <1>5, OnboardOnlySettles DEF Contract!Next
<1>6. CASE Check
  BY <1>6, Unseen DEF Check, roleVars
<1>7. CASE SkipLeg
  BY <1>7, Unseen DEF SkipLeg, roleVars
<1>8. CASE Close
  BY <1>8, CloseSettles DEF Contract!Next
<1>9. CASE Revert
  BY <1>9, Unseen DEF Revert, EndFrame, roleVars
<1>10. ASSUME NEW i \in Intent, Select(i) PROVE Contract!Next
  BY <1>10, SelectAgrees DEF Contract!Next
<1>11. ASSUME NEW i \in Intent, Declare(i) \/ ReportFailure(i) \/ Cancel(i)
       PROVE  UNCHANGED Contract!exchangeVars
  BY <1>11, Unseen DEF Declare, ReportFailure, Cancel, roleVars, frameVars
<1>12. ASSUME NEW x \in Transfers, Transfer(x) PROVE Contract!Next
  <2> DEFINE from == x.from
             to   == x.to
             tok  == x.token
             amt  == x.amount
  <2>1. /\ pc = "idle" /\ pc' = "idle" /\ ledger \in Balances
        /\ from \in Account /\ to \in Account /\ tok \in Token /\ amt \in Nat
        /\ amt <= ledger[from][tok] /\ ledger' = Move(ledger, from, to, tok, amt)
        /\ UNCHANGED <<engagement, delivered, treasury, protocolFeeShareBps>>
    BY <1>12, SettlementAssumption DEF Transfer, XInv, SInv, Types, roleVars, frameVars
  <2> HIDE DEF from, to, tok, amt
  <2>2. Contract!Moves
    BY <2>1, SendMoves
  <2>3. QED
    BY <2>2 DEF Contract!Next
<1>13. CASE Governance
  <2>1. (IF pc = "idle" THEN ledger ELSE savedLedger)' = IF pc = "idle" THEN ledger ELSE savedLedger
    BY <1>13 DEF Governance, frameVars
  <2>2. Contract!Governs
    BY <2>1, <1>13 DEF Governance, Contract!Governs
  <2>3. QED
    BY <2>2 DEF Contract!Next
<1>14. CASE AssetStep
  BY <1>14, Unseen DEF AssetStep, roleVars, frameVars
<1>15. CASE UNCHANGED vars
  BY <1>15, Unseen DEF vars, roleVars, frameVars
<1>16. QED
  BY <1>1, <1>2, <1>3, <1>4, <1>5, <1>6, <1>7, <1>8, <1>9, <1>10, <1>11, <1>12,
     <1>13, <1>14, <1>15 DEF Next, SettleStep

LEMMA XInvBesideAVault ==
    ASSUME XInv, VaultInv, [VaultNext]_vaultVars
    PROVE  XInv' /\ (Contract!Next \/ UNCHANGED Contract!exchangeVars)
<1>1. CASE [Next]_vars
  BY <1>1, XInvNext, NextIsExchange
<1>2. ASSUME NEW a \in Holder, NEW v \in VaultAmounts, Deposit(a, v) \/ Withdraw(a, v)
      PROVE  XInv' /\ Contract!Next
  <2>1. VaultInv'
    BY <1>2, DepositInv, WithdrawInv
  <2>2. UNCHANGED <<engagement, status, delivered, treasury, protocolFeeShareBps>>
        /\ pc = "idle" /\ pc' = "idle"
    BY <1>2 DEF Deposit, Withdraw, roleVars, frameVars
  <2>3. XInv'
    BY <2>1, <2>2 DEF XInv, VaultInv, Unsettled, Exchanging
  <2>4. ledger \in Balances /\ a \in Account /\ Vault \in Account /\ Asset \in Token /\ v \in Nat
    BY VaultAccounts DEF VaultInv, SInv, Types
  <2>5. CASE Deposit(a, v)
    <3>1. v <= ledger[a][Asset] /\ ledger' = Move(ledger, a, Vault, Asset, v)
      BY <2>5 DEF Deposit
    <3>2. QED
      BY <2>2, <2>3, <2>4, <3>1, SendMoves DEF Contract!Next
  <2>6. CASE Withdraw(a, v)
    <3>1. v <= ledger[Vault][Asset] /\ ledger' = Move(ledger, Vault, a, Asset, v)
      BY <2>6 DEF Withdraw
    <3>2. QED
      BY <2>2, <2>3, <2>4, <3>1, SendMoves DEF Contract!Next
  <2>7. QED
    BY <1>2, <2>5, <2>6
<1>3. QED
  BY <1>1, <1>2 DEF VaultNext, VaultStep, vaultVars, TransferShares

LEMMA VaultXInvariance == VaultSpec => [](XInv /\ VaultInv)
<1>1. VaultInit => XInv /\ VaultInv
  BY XInvInit, VaultInitInv DEF VaultInit
<1>2. (XInv /\ VaultInv) /\ [VaultNext]_vaultVars => (XInv /\ VaultInv)'
  BY XInvBesideAVault, VaultNextInv
<1>3. QED
  BY <1>1, <1>2, PTL DEF VaultSpec

\* Every settlement, whatever its legs, weights, exits, fees and routers, is one
\* exchange on the intent's terms, or it leaves no trace (settle).
THEOREM SettlementIsAnExchange == Spec => ImplementsExchange
<1>1. Init => Contract!Init
  BY DEF Init, Contract!Init
<1>2. QED
  BY <1>1, XInvInit, XInvNext, NextIsExchange, PTL DEF Spec, ImplementsExchange, Contract!Spec

\* It is one beside a vault as well, whose deposits and withdrawals are transfers.
THEOREM ExchangeBesideAVault == VaultSpec => ImplementsExchange
<1>1. VaultInit => Contract!Init /\ XInv /\ VaultInv
  BY XInvInit, VaultInitInv DEF VaultInit, Init, Contract!Init
<1>2. (XInv /\ VaultInv) /\ [VaultNext]_vaultVars
         => (XInv /\ VaultInv)' /\ [Contract!Next]_(Contract!exchangeVars)
  BY XInvBesideAVault, VaultNextInv
<1>3. QED
  BY <1>1, <1>2, PTL DEF VaultSpec, ImplementsExchange, Contract!Spec
=============================================================================
