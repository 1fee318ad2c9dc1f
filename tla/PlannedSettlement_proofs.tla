----------------------- MODULE PlannedSettlement_proofs -----------------------
(***************************************************************************)
(* What the builder and the planner compute, beside what settlement does   *)
(* with it, for all targets and weights, all quotes and strategies, and    *)
(* whatever the exits raise: a built basket passes the policy's test of    *)
(* its weights, legs are sized as they were planned, and a sleeve misses   *)
(* its guarantee by rounding alone.                                        *)
(***************************************************************************)
EXTENDS PlannedSettlement, Settlement_proofs

-----------------------------------------------------------------------------
(* Induction over the numbers, for a set. *)

LEMMA Induction ==
    ASSUME NEW C, 0 \in C, \A n \in Nat : n \in C => n + 1 \in C
    PROVE  \A n \in Nat : n \in C
<1> SUFFICES ASSUME NEW n \in Nat, n \notin C PROVE FALSE
  OBVIOUS
<1> DEFINE Missing == {0 .. k : k \in {x \in 0 .. n : x \notin C}}
<1>1. PICK T \in Missing : \A U \in SUBSET T : U /= T => U \notin Missing
  <2> DEFINE S == 0 .. n
  <2>1. IsFiniteSet(S)
    BY FS_Interval
  <2>2. Missing \subseteq SUBSET S /\ Missing /= {}
    OBVIOUS
  <2> HIDE DEF Missing, S
  <2>3. QED
    BY <2>1, <2>2, LeastSubset
<1>2. PICK m \in 0 .. n : m \notin C /\ T = 0 .. m
  OBVIOUS
<1>3. m \in Nat /\ m /= 0
  BY <1>2
<1>4. m - 1 \in 0 .. n /\ m - 1 \in Nat /\ (m - 1) + 1 = m
  BY <1>3
<1>5. m - 1 \notin C
  BY <1>2, <1>4
<1>6. 0 .. m - 1 \in Missing
  BY <1>4, <1>5
<1>7. 0 .. m - 1 \in SUBSET T /\ 0 .. m - 1 /= T
  BY <1>2, <1>3
<1>8. QED
  BY <1>1, <1>6, <1>7

-----------------------------------------------------------------------------
(* How a share, and what a fee leaves, grow with the amount. *)

\* A share is its exact value, less what rounding took.
LEMMA ShareBounds ==
    ASSUME NEW v \in Nat, NEW a \in Nat
    PROVE  /\ BPS * Share(v, a) <= v * a
           /\ v * a <= BPS * Share(v, a) + (BPS - 1)
<1> DEFINE x == v * a
<1>1. x \in Nat
  OBVIOUS
<1> HIDE DEF x
<1>2. 10000 * (x \div 10000) <= x /\ x <= 10000 * (x \div 10000) + 9999
  BY <1>1
<1>3. Share(v, a) = x \div 10000
  BY DEF Share, BPS, x
<1>4. QED
  BY <1>2, <1>3 DEF BPS, x

\* What a larger amount adds to a share, its exact value and one unit less than one.
LEMMA ShareGrows ==
    ASSUME NEW v \in Nat, NEW u \in Nat, u <= v, NEW a \in Nat
    PROVE  /\ Share(u, a) <= Share(v, a)
           /\ BPS * (Share(v, a) - Share(u, a)) <= (v - u) * a + (BPS - 1)
<1> DEFINE x == u * a
           y == (v - u) * a
           s == Share(u, a)
           t == Share(v, a)
<1>1. v - u \in Nat /\ x \in Nat /\ y \in Nat
  OBVIOUS
<1>2. v * a = x + y
  BY <1>1
<1>3. s \in Nat /\ BPS * s <= x /\ x <= BPS * s + (BPS - 1)
  BY ONLY u \in Nat, a \in Nat, ShareBounds, ShareIsNat
<1>4. t \in Nat /\ BPS * t <= v * a /\ v * a <= BPS * t + (BPS - 1)
  BY ONLY v \in Nat, a \in Nat, ShareBounds, ShareIsNat
<1> HIDE DEF x, y, s, t
<1>5. s <= t /\ 10000 * (t - s) <= y + 9999
  BY <1>1, <1>2, <1>3, <1>4 DEF BPS
<1>6. QED
  BY <1>5 DEF s, t, y, BPS

\* What is left after a fee that a larger amount can bear.
LEMMA NetGrows ==
    ASSUME NEW n \in Nat, NEW m \in Nat, m <= n, NEW f \in Nat, Share(n, f) <= n
    PROVE  /\ Share(m, f) <= m
           /\ m - Share(m, f) <= n - Share(n, f)
<1>0. n - m \in Nat
  OBVIOUS
<1>1. Share(m, f) \in Nat /\ Share(n, f) \in Nat
  BY ONLY m \in Nat, n \in Nat, f \in Nat, ShareIsNat
<1>2. CASE f <= BPS
  <2>1. Share(m, f) <= m
    BY <1>1, <1>2, ShareMonotone, ShareOfAll DEF BPS
  <2> DEFINE x == m * f
             y == (n - m) * f
             z == (n - m) * 10000
  <2>2. x \in Nat /\ y \in Nat /\ z \in Nat /\ y <= z
    <3> DEFINE d == n - m
    <3>1. d \in Nat /\ d * f \in Nat /\ d * f <= d * 10000
      <4>1. d \in Nat /\ 10000 - f \in Nat
        BY <1>0, <1>2 DEF BPS
      <4>2. d * (10000 - f) \in Nat /\ d * 10000 = d * f + d * (10000 - f) /\ d * f \in Nat
        BY <4>1
      <4>3. QED
        BY <4>2
    <3>2. QED
      BY <3>1
  <2>3. n * f = x + y
    BY <1>0
  <2> HIDE DEF x, y
  <2>4. (x + y) \div 10000 <= (x \div 10000) + (n - m)
    BY <2>2, <1>0
  <2>5. Share(n, f) = (x + y) \div 10000 /\ Share(m, f) = x \div 10000
    BY <2>3 DEF Share, BPS, x
  <2>6. QED
    BY <1>0, <1>1, <2>1, <2>4, <2>5
<1>3. CASE f > BPS
  <2> DEFINE g == f - 10000
  <2>1. g \in Nat /\ f = 10000 + g
    BY <1>3 DEF BPS
  <2>2. ASSUME NEW v \in Nat PROVE Share(v, f) = v + ((v * g) \div 10000) /\ v * g \in Nat
    <3> DEFINE y == v * g
    <3>1. v * f = 10000 * v + y /\ y \in Nat
      BY <2>1
    <3> HIDE DEF y
    <3>2. (10000 * v + y) \div 10000 = v + (y \div 10000)
      BY <3>1
    <3>3. QED
      BY <3>1, <3>2 DEF Share, BPS, y
  <2>3. m * g <= n * g
    <3>1. n * g = m * g + (n - m) * g /\ (n - m) * g \in Nat /\ m * g \in Nat
      BY <1>0, <2>1
    <3>2. QED
      BY <3>1
  <2> HIDE DEF g
  <2>4. (n * g) \div 10000 <= 0
    BY <2>2, <2>1
  <2>5. (m * g) \div 10000 <= (n * g) \div 10000 /\ (m * g) \div 10000 \in Nat
    BY <2>2, <2>3, DivMonotone
  <2>6. QED
    BY <2>2, <2>4, <2>5, <2>1
<1>4. QED
  BY <1>2, <1>3 DEF BPS

-----------------------------------------------------------------------------
(* How the size of a leg grows with the budget. *)

\* The weights of the legs up to leg m, summed.
Within(e, m) == IF m = 0 THEN 0 ELSE e.legs[m].upTo

LEMMA WithinFacts ==
    ASSUME NEW e, DealOK(e)
    PROVE  /\ \A m \in 0 .. Len(e.legs) : Within(e, m) \in Nat
           /\ \A m \in 1 .. Len(e.legs) :
                 Within(e, m) = Within(e, m - 1) + WeightOf(e.legs, m)
<1>1. /\ e.legs \in Seq(Leg) /\ Len(e.legs) \in Nat /\ DOMAIN e.legs = 1 .. Len(e.legs)
  BY DEF DealOK
<1>2. ASSUME NEW m \in 1 .. Len(e.legs) PROVE e.legs[m].upTo \in Nat
  <2>1. e.legs[m] \in Leg
    BY <1>1
  <2>2. QED
    BY <2>1 DEF Leg
<1>3. \A m \in 0 .. Len(e.legs) : Within(e, m) \in Nat
  BY <1>1, <1>2 DEF Within
<1>4. ASSUME NEW m \in 1 .. Len(e.legs)
      PROVE  Within(e, m) = Within(e, m - 1) + WeightOf(e.legs, m)
  <2>1. CASE m = 1
    BY <2>1, <1>2 DEF Within, WeightOf
  <2>2. CASE m /= 1
    <3>1. m - 1 \in 1 .. Len(e.legs) /\ m /= 0 /\ m - 1 /= 0
      BY <2>2, <1>1
    <3>2. e.legs[m - 1].upTo \in Nat /\ e.legs[m].upTo \in Nat
      BY <3>1, <1>2
    <3>3. QED
      BY <2>2, <3>1, <3>2 DEF Within, WeightOf
  <2>3. QED
    BY <2>1, <2>2
<1>5. QED
  BY <1>3, <1>4

\* The parts of a larger budget b, up to leg m, are larger by their exact share of
\* what was added, and by less than one unit for each leg.
Grown(e, a, b, m) ==
    BPS * (UpTo(Parts(e, b), m) - UpTo(Parts(e, a), m))
       <= (b - a) * Within(e, m) + m * (BPS - 1)

LEMMA GrownNext ==
    ASSUME NEW e, DealOK(e), NEW a \in Nat, NEW b \in Nat, a <= b,
           NEW m \in Nat, m < Len(e.legs), Grown(e, a, b, m)
    PROVE  Grown(e, a, b, m + 1)
<1> DEFINE w  == WeightOf(e.legs, m + 1)
           x  == UpTo(Parts(e, a), m)
           y  == UpTo(Parts(e, b), m)
           sa == Share(a, w)
           sb == Share(b, w)
<1>1. /\ Len(e.legs) \in Nat /\ m + 1 \in 1 .. Len(e.legs) /\ (m + 1) - 1 = m
      /\ m \in 0 .. Len(e.legs)
      /\ \A j \in 1 .. m + 1 : j \in 1 .. Len(e.legs)
      /\ \A j \in 1 .. m : j \in 1 .. Len(e.legs)
  BY DEF DealOK
<1>2. w \in Nat
  BY <1>1, WeightsAreNat
<1>3. Within(e, m + 1) = Within(e, m) + w /\ Within(e, m) \in Nat
  BY <1>1, WithinFacts
<1>4. /\ \A j \in 1 .. m + 1 : Parts(e, a)[j] \in Nat /\ Parts(e, b)[j] \in Nat
      /\ Parts(e, a)[m + 1] = sa /\ Parts(e, b)[m + 1] = sb
  BY <1>1, PartsFacts
<1>5. x \in Nat /\ y \in Nat
  BY <1>1, <1>4, UpToIsNat
<1>6. UpTo(Parts(e, a), m + 1) = x + sa /\ UpTo(Parts(e, b), m + 1) = y + sb
  BY <1>4, UpToNext
<1>7. sa \in Nat /\ sb \in Nat
  BY <1>2, ShareIsNat
<1>8. BPS * (sb - sa) <= (b - a) * w + (BPS - 1)
  BY <1>2, ShareGrows
<1>9. BPS * (y - x) <= (b - a) * Within(e, m) + m * (BPS - 1)
  BY DEF Grown
<1> DEFINE d == b - a
           v == Within(e, m)
<1> HIDE DEF w, x, y, sa, sb, d, v
<1>10. d \in Nat /\ v \in Nat
  BY <1>3 DEF d, v
<1>11. d * (v + w) = d * v + d * w /\ d * v \in Nat /\ d * w \in Nat
  BY <1>2, <1>10
<1>12. 10000 * ((y + sb) - (x + sa)) <= d * (v + w) + (m + 1) * 9999
  <2>1. 10000 * (y - x) <= d * v + m * 9999 /\ 10000 * (sb - sa) <= d * w + 9999
    BY <1>8, <1>9 DEF BPS, d, v
  <2> DEFINE dv == d * v
             dw == d * w
  <2> HIDE DEF dv, dw
  <2>2. 10000 * (y - x) <= dv + m * 9999 /\ 10000 * (sb - sa) <= dw + 9999
        /\ d * (v + w) = dv + dw /\ dv \in Nat /\ dw \in Nat
    BY <2>1, <1>11 DEF dv, dw
  <2>3. QED
    BY <2>2, <1>5, <1>7
<1>13. QED
  BY <1>3, <1>6, <1>12 DEF Grown, BPS, d, v

LEMMA PartsGrow ==
    ASSUME NEW e, DealOK(e), NEW a \in Nat, NEW b \in Nat, a <= b
    PROVE  \A m \in 0 .. Len(e.legs) : Grown(e, a, b, m)
<1> DEFINE C == {m \in Nat : m <= Len(e.legs) => Grown(e, a, b, m)}
<1>1. Len(e.legs) \in Nat
  BY DEF DealOK
<1>2. 0 \in C
  <2>1. UpTo(Parts(e, b), 0) = 0 /\ UpTo(Parts(e, a), 0) = 0
    BY UpToZero
  <2>2. Grown(e, a, b, 0)
    BY <2>1 DEF Grown, Within, BPS
  <2>3. QED
    BY <2>2
<1>3. ASSUME NEW m \in Nat, m \in C PROVE m + 1 \in C
  <2> SUFFICES ASSUME m + 1 <= Len(e.legs) PROVE Grown(e, a, b, m + 1)
    OBVIOUS
  <2>1. m < Len(e.legs) /\ Grown(e, a, b, m)
    BY <1>1, <1>3
  <2>2. QED
    BY <2>1, GrownNext
<1> HIDE DEF C
<1>4. \A m \in Nat : m \in C
  BY <1>2, <1>3, Induction
<1>5. QED
  BY <1>1, <1>4 DEF C

\* A leg is never smaller for a larger budget, but for the last one: the legs before
\* it may round down a unit less each.
LEMMA SliceGrows ==
    ASSUME NEW e, DealOK(e), NEW a \in Nat, NEW b \in Nat, a <= b,
           NEW k \in 1 .. Len(e.legs), e.legs[Len(e.legs)].upTo = BPS
    PROVE  Slice(e, a, k) <= Slice(e, b, k) + Rounding(e, k)
<1>1. Len(e.legs) \in Nat /\ DOMAIN e.legs = 1 .. Len(e.legs)
  BY DEF DealOK
<1>2. CASE k /= Len(e.legs)
  <2>1. WeightOf(e.legs, k) \in Nat
    BY WeightsAreNat
  <2>2. Share(a, WeightOf(e.legs, k)) <= Share(b, WeightOf(e.legs, k))
        /\ Share(a, WeightOf(e.legs, k)) \in Nat /\ Share(b, WeightOf(e.legs, k)) \in Nat
    BY <2>1, ShareGrows, ShareIsNat
  <2>3. /\ Slice(e, a, k) = Share(a, WeightOf(e.legs, k))
        /\ Slice(e, b, k) = Share(b, WeightOf(e.legs, k))
        /\ Rounding(e, k) = 0
    BY <1>2 DEF Slice, Rounding
  <2>4. QED
    BY <2>2, <2>3
<1>3. CASE k = Len(e.legs)
  <2> DEFINE x == UpTo(Parts(e, a), k - 1)
             y == UpTo(Parts(e, b), k - 1)
             v == Within(e, k - 1)
  <2>1. k \in Nat /\ k - 1 \in Nat /\ k - 1 \in 0 .. Len(e.legs)
        /\ \A j \in 1 .. k - 1 : j \in 1 .. Len(e.legs)
    BY <1>1
  <2>2. x \in Nat /\ y \in Nat
    BY <2>1, PartsFacts, UpToIsNat
  <2>3. v \in Nat /\ v <= BPS
    <3>1. Within(e, k) = v + WeightOf(e.legs, k) /\ v \in Nat
      BY <2>1, WithinFacts
    <3>2. WeightOf(e.legs, k) \in Nat
      BY WeightsAreNat
    <3>3. Within(e, k) = BPS
      BY <1>3, <2>1 DEF Within
    <3> HIDE DEF v
    <3>4. QED
      BY <3>1, <3>2, <3>3 DEF BPS
  <2>4. BPS * (y - x) <= (b - a) * v + (k - 1) * (BPS - 1)
    BY <2>1, PartsGrow DEF Grown
  <2>5. k = 1 => x = 0 /\ y = 0
    BY UpToZero
  <2>6. Slice(e, a, k) = a - x /\ Slice(e, b, k) = b - y
    BY <1>3 DEF Slice
  <2>7. Rounding(e, k) = IF k > 1 THEN k - 2 ELSE 0
    BY <1>3 DEF Rounding
  <2> HIDE DEF x, y, v
  <2>8. (b - a) * v <= (b - a) * 10000
    <3> DEFINE d == b - a
    <3>1. d \in Nat /\ 10000 - v \in Nat
      BY <2>3 DEF BPS
    <3>2. d * 10000 = d * v + d * (10000 - v) /\ d * (10000 - v) \in Nat /\ d * v \in Nat
      BY <3>1, <2>3
    <3>3. QED
      BY <3>2
  <2>9. (b - a) * v \in Nat
    BY <2>3
  <2>10. 10000 * (y - x) <= (b - a) * 10000 + (k - 1) * 9999
    <3> DEFINE dv == (b - a) * v
    <3> HIDE DEF dv
    <3>1. 10000 * (y - x) <= dv + (k - 1) * 9999 /\ dv <= (b - a) * 10000 /\ dv \in Nat
      BY <2>4, <2>8, <2>9 DEF BPS, dv
    <3>2. QED
      BY <3>1, <2>1, <2>2
  <2>11. k > 1 => y - x <= (b - a) + (k - 2)
    BY <2>1, <2>2, <2>10
  <2>12. CASE k > 1
    BY <2>12, <2>1, <2>2, <2>6, <2>7, <2>11
  <2>13. CASE k = 1
    BY <2>13, <2>5, <2>6, <2>7
  <2>14. QED
    BY <2>1, <2>12, <2>13
<1>4. QED
  BY <1>2, <1>3

-----------------------------------------------------------------------------
(* The planner's sizes are the contract's. *)

LEMMA PlannedTypes ==
    ASSUME NEW p \in Priced
    PROVE  /\ PlannedNotional(p.draft, p.quote) \in Nat
           /\ PlannedFeeBps(p.draft, p.strategy) \in Nat
<1>1. /\ p.draft.inputAmount \in Nat /\ p.draft.maxFeeBps \in Nat
      /\ p.quote.exits \in Seq(Nat) /\ p.strategy.feeBps \in Nat
  BY PlannedSettlementAssumption
<1>2. SumFunction(p.quote.exits) \in Nat
  <2> DEFINE f == p.quote.exits
  <2>1. DOMAIN f = 1 .. Len(f) /\ Len(f) \in Nat /\ \A x \in 1 .. Len(f) : f[x] \in Nat
    BY <1>1
  <2> HIDE DEF f
  <2>2. SumFunction(f) = UpTo(f, Len(f))
    BY <2>1, SumIsTotal, UpToIsTotal
  <2>3. QED
    BY <2>1, <2>2, UpToIsNat DEF f
<1>3. QED
  BY <1>1, <1>2 DEF PlannedNotional, PlannedFeeBps

LEMMA PlannedSpendableIsBudget ==
    ASSUME NEW e, NEW p, IsPlanned(e, p)
    PROVE  PlannedSpendable(p.draft, p.quote, p.strategy)
              = Budget(e, PlannedNotional(p.draft, p.quote))
<1>1. e.feeBps = PlannedFeeBps(p.draft, p.strategy)
  BY DEF IsPlanned, PlannedBid
<1>2. QED
  BY <1>1 DEF PlannedSpendable, Budget

\* Whatever is raised, the planner's leg is the slice of the budget it counted on.
LEMMA PlannedSizeIsSlice ==
    ASSUME NEW e, DealOK(e), NEW p, IsPlanned(e, p), NEW k \in 1 .. Len(e.legs),
           Budget(e, PlannedNotional(p.draft, p.quote)) \in Nat
    PROVE  PlannedSize(p.draft, p.quote, p.strategy, k)
              = Slice(e, Budget(e, PlannedNotional(p.draft, p.quote)), k)
<1> DEFINE b     == Budget(e, PlannedNotional(p.draft, p.quote))
           sized == [j \in 1 .. k - 1 |-> Share(b, WeightOf(e.legs, j))]
<1>1. p.draft.legs = e.legs
  BY DEF IsPlanned
<1>2. PlannedSpendable(p.draft, p.quote, p.strategy) = b
  BY PlannedSpendableIsBudget
<1>3. PlannedSize(p.draft, p.quote, p.strategy, k)
         = IF k = Len(e.legs) THEN b - SumFunction(sized) ELSE Share(b, WeightOf(e.legs, k))
  BY <1>1, <1>2 DEF PlannedSize
<1>4. b \in Nat
  OBVIOUS
<1> HIDE DEF b
<1>5. SumFunction(sized) = UpTo(Parts(e, b), k - 1)
  <2>1. k - 1 \in Nat /\ \A j \in 1 .. k - 1 : j \in 1 .. Len(e.legs)
    BY DEF DealOK
  <2>2. \A j \in 1 .. k - 1 : sized[j] = Parts(e, b)[j]
    BY <1>4, <2>1, PartsFacts
  <2>3. DOMAIN sized = 1 .. k - 1
    OBVIOUS
  <2> HIDE DEF sized
  <2>4. SumFunction(sized) = UpTo(sized, k - 1)
    BY <2>3, SumIsTotal, UpToIsTotal
  <2>5. QED
    BY <2>1, <2>2, <2>4, UpToSame
<1>6. QED
  BY <1>3, <1>5 DEF Slice, b

LEMMA SleeveIsPromised ==
    ASSUME NEW e, DealOK(e), NEW p, IsPlanned(e, p), NEW k \in 1 .. Len(e.legs),
           IsSleeve(p.draft, k)
    PROVE  e.guaranteedOut[k] = PlannedSize(p.draft, p.quote, p.strategy, k)
<1>1. e.guaranteedOut = [j \in DOMAIN p.draft.legs |-> Guarantee(p.draft, p.quote, p.strategy, j)]
      /\ p.draft.legs = e.legs
  BY DEF IsPlanned, PlannedBid
<1>2. k \in DOMAIN e.legs
  BY DEF DealOK
<1>3. QED
  BY <1>1, <1>2 DEF Guarantee

-----------------------------------------------------------------------------
(* What is promised is what is delivered. *)

LEMMA BuyingFacts ==
    ASSUME XInv, NEW p \in Priced, BuyingAsPlanned(p)
    PROVE  /\ DealOK(E) /\ IsPlanned(E, p)
           /\ leg \in 1 .. Len(E.legs)
           /\ notional \in Nat
           /\ Share(notional, E.feeBps) <= notional
           /\ E.legs[Len(E.legs)].upTo = BPS
           /\ Budget(E, notional) \in Nat
           /\ AmountIn(leg) \in Nat
           /\ AmountIn(leg) = Slice(E, Budget(E, notional), leg)
<1>1. SInv /\ Exchanging /\ pc = "acquire" /\ leg <= Len(E.legs) /\ IsPlanned(E, p)
  BY DEF XInv, BuyingAsPlanned
<1>2. DealOK(E) /\ notional \in Nat /\ leg \in Nat \ {0}
  BY <1>1, RunningFrame
<1>3. /\ Len(received) + 1 = leg
      /\ Budget(E, notional) \in Nat /\ AmountIn(leg) \in Nat
      /\ AmountIn(leg) = Slice(E, Budget(E, notional), Len(received) + 1)
  BY <1>1, LegIsSliced
<1>4. Share(notional, E.feeBps) <= notional /\ E.legs[Len(E.legs)].upTo = BPS
  BY <1>1 DEF SInv, Frame, Buying
<1>5. leg \in 1 .. Len(E.legs)
  BY <1>1, <1>2 DEF DealOK
<1>6. QED
  BY <1>1, <1>2, <1>3, <1>4, <1>5

LEMMA PlannedIsSized == XInv => SizedAsPlanned
<1> SUFFICES ASSUME XInv, NEW p \in Priced, BuyingAsPlanned(p),
                    notional = PlannedNotional(p.draft, p.quote)
             PROVE  /\ AmountIn(leg) = PlannedSize(p.draft, p.quote, p.strategy, leg)
                    /\ IsSleeve(p.draft, leg) => AmountIn(leg) >= E.guaranteedOut[leg]
  BY DEF SizedAsPlanned
<1>1. /\ DealOK(E) /\ IsPlanned(E, p) /\ leg \in 1 .. Len(E.legs)
      /\ Budget(E, notional) \in Nat /\ AmountIn(leg) \in Nat
      /\ AmountIn(leg) = Slice(E, Budget(E, notional), leg)
  BY BuyingFacts
<1>2. AmountIn(leg) = PlannedSize(p.draft, p.quote, p.strategy, leg)
  BY <1>1, PlannedSizeIsSlice
<1>3. IsSleeve(p.draft, leg) => AmountIn(leg) = E.guaranteedOut[leg]
  BY <1>1, <1>2, SleeveIsPromised
<1>4. QED
  BY <1>1, <1>2, <1>3

LEMMA RoundingIsAll == XInv => SleeveIsShortByRounding
<1> SUFFICES ASSUME XInv, NEW p \in Priced, BuyingAsPlanned(p),
                    notional >= PlannedNotional(p.draft, p.quote), IsSleeve(p.draft, leg)
             PROVE  AmountIn(leg) + Rounding(p.draft, leg) >= E.guaranteedOut[leg]
  BY DEF SleeveIsShortByRounding
<1> DEFINE m == PlannedNotional(p.draft, p.quote)
           a == Budget(E, m)
           b == Budget(E, notional)
<1>1. /\ DealOK(E) /\ IsPlanned(E, p) /\ leg \in 1 .. Len(E.legs)
      /\ notional \in Nat /\ Share(notional, E.feeBps) <= notional
      /\ E.legs[Len(E.legs)].upTo = BPS
      /\ b \in Nat /\ AmountIn(leg) = Slice(E, b, leg)
  BY BuyingFacts
<1>2. m \in Nat /\ m <= notional
  BY <1>1, PlannedTypes
<1>3. E.feeBps \in Nat
  BY <1>1 DEF DealOK
<1>4. a \in Nat /\ a <= b
  <2> HIDE DEF m
  <2>1. Share(m, E.feeBps) <= m
        /\ m - Share(m, E.feeBps) <= notional - Share(notional, E.feeBps)
    BY <1>1, <1>2, <1>3, NetGrows
  <2>2. Share(m, E.feeBps) \in Nat
    BY <1>2, <1>3, ShareIsNat
  <2>3. QED
    BY <1>2, <2>1, <2>2 DEF Budget
<1>5. E.guaranteedOut[leg] = Slice(E, a, leg)
  BY <1>1, <1>4, PlannedSizeIsSlice, SleeveIsPromised
<1>6. Rounding(p.draft, leg) = Rounding(E, leg)
  BY <1>1 DEF IsPlanned, Rounding
<1> HIDE DEF a, b, m
<1>7. Slice(E, a, leg) <= Slice(E, b, leg) + Rounding(E, leg)
  BY <1>1, <1>4, SliceGrows
<1>8. QED
  BY <1>1, <1>5, <1>6, <1>7

\* For any weights, fees, quotes and margins, and any leg of any plan: when the exits
\* raise what was quoted, _acquire sizes the leg as the planner did, last leg included,
\* so a sleeve is delivered as it was promised.
THEOREM LegsAreSizedAsPlanned == VaultSpec => []SizedAsPlanned
BY VaultXInvariance, PlannedIsSized, PTL

\* Raising more than was quoted never costs a sleeve before the last leg anything, and
\* a last one of k legs at most k - 2 units, however much is raised and whatever the
\* weights: the price of sizing the last leg as what the others leave (_acquire).
THEOREM SleevesAreShortByRounding == VaultSpec => []SleeveIsShortByRounding
BY VaultXInvariance, RoundingIsAll, PTL

-----------------------------------------------------------------------------
(* The builder's weights. *)

\* A list of weights for n legs, whole.
Whole(w, n) == w \in Seq(Nat) /\ Len(w) = n /\ UpTo(w, n) = BPS

LEMMA DivBounds ==
    ASSUME NEW x \in Nat, NEW s \in Nat, s > 0
    PROVE  /\ x \div s \in Nat
           /\ s * (x \div s) <= x
           /\ x <= s * (x \div s) + (s - 1)
OBVIOUS

LEMMA UpToGrows ==
    ASSUME NEW w, NEW n \in Nat, \A k \in 1 .. n : w[k] \in Nat
    PROVE  \A l \in 0 .. n : \A k \in 0 .. l : UpTo(w, k) <= UpTo(w, l)
<1> DEFINE C == {l \in Nat : l <= n => \A k \in 0 .. l : UpTo(w, k) <= UpTo(w, l)}
<1>1. \A l \in 0 .. n : UpTo(w, l) \in Nat
  <2> SUFFICES ASSUME NEW l \in 0 .. n PROVE UpTo(w, l) \in Nat
    OBVIOUS
  <2>1. l \in Nat /\ \A k \in 1 .. l : w[k] \in Nat
    OBVIOUS
  <2>2. QED
    BY <2>1, UpToIsNat
<1>2. 0 \in C
  BY <1>1
<1>3. ASSUME NEW l \in Nat, l \in C PROVE l + 1 \in C
  <2> SUFFICES ASSUME l + 1 <= n, NEW k \in 0 .. l + 1 PROVE UpTo(w, k) <= UpTo(w, l + 1)
    OBVIOUS
  <2>1. \A j \in 1 .. l + 1 : w[j] \in Nat
    OBVIOUS
  <2>2. UpTo(w, l + 1) = UpTo(w, l) + w[l + 1]
    BY <2>1, UpToNext
  <2>3. UpTo(w, l) \in Nat /\ UpTo(w, l + 1) \in Nat /\ w[l + 1] \in Nat
    BY <1>1, <2>1
  <2>4. CASE k = l + 1
    BY <2>3, <2>4
  <2>5. CASE k /= l + 1
    <3>1. k \in 0 .. l /\ k \in 0 .. n /\ l <= n
      BY <2>5
    <3>2. UpTo(w, k) <= UpTo(w, l)
      BY <1>3, <3>1
    <3>3. QED
      BY <1>1, <3>1, <3>2, <2>2, <2>3
  <2>6. QED
    BY <2>4, <2>5
<1> HIDE DEF C
<1>4. \A l \in Nat : l \in C
  BY <1>2, <1>3, Induction
<1>5. QED
  BY <1>4 DEF C

\* An equal split is whole: the first leg takes what does not divide.
LEMMA EqualWeightsAreWhole ==
    ASSUME NEW n \in Nat, n > 0
    PROVE  Whole(EqualWeights(n), n)
<1> DEFINE base == BPS \div n
           rest == BPS - base * n
           w    == [k \in 1 .. n |-> IF k = 1 THEN base + rest ELSE base]
           C    == {m \in Nat : m + 1 <= n => UpTo(w, m + 1) = base * (m + 1) + rest}
<1>1. base \in Nat /\ rest \in Nat /\ base * n \in Nat
  <2>1. BPS \in Nat
    BY DEF BPS
  <2>2. base \in Nat /\ n * base <= BPS
    BY <2>1, DivBounds
  <2>3. QED
    BY <2>1, <2>2
<1>2. EqualWeights(n) = w
  BY DEF EqualWeights
<1>3. w \in Seq(Nat) /\ Len(w) = n /\ \A k \in 1 .. n : w[k] \in Nat
  BY <1>1
<1>4. w[1] = base + rest /\ \A k \in 2 .. n : w[k] = base
  OBVIOUS
<1> HIDE DEF w, base, rest
<1>5. 0 \in C
  <2>1. \A k \in 1 .. 0 + 1 : w[k] \in Nat
    BY <1>3
  <2>2. UpTo(w, 0 + 1) = UpTo(w, 0) + w[0 + 1] /\ UpTo(w, 0) = 0
    BY <2>1, UpToNext, UpToZero
  <2>3. QED
    BY <1>1, <1>4, <2>2
<1>6. ASSUME NEW m \in Nat, m \in C PROVE m + 1 \in C
  <2> SUFFICES ASSUME (m + 1) + 1 <= n
               PROVE  UpTo(w, (m + 1) + 1) = base * ((m + 1) + 1) + rest
    OBVIOUS
  <2>1. UpTo(w, m + 1) = base * (m + 1) + rest
    BY <1>6
  <2>2. m + 1 \in Nat /\ \A k \in 1 .. (m + 1) + 1 : w[k] \in Nat
    BY <1>3
  <2>3. UpTo(w, (m + 1) + 1) = UpTo(w, m + 1) + w[(m + 1) + 1]
    BY ONLY <2>2, UpToNext
  <2>4. w[(m + 1) + 1] = base
    BY <1>4
  <2>5. base * ((m + 1) + 1) = base * (m + 1) + base /\ base * (m + 1) \in Nat
    BY <1>1
  <2>6. QED
    BY <1>1, <2>1, <2>3, <2>4, <2>5
<1> HIDE DEF C
<1>7. \A m \in Nat : m \in C
  BY <1>5, <1>6, Induction
<1>8. UpTo(w, n) = base * n + rest
  <2>1. n - 1 \in Nat /\ (n - 1) + 1 = n
    OBVIOUS
  <2>2. n - 1 \in C
    BY <2>1, <1>7
  <2>3. QED
    BY <2>1, <2>2 DEF C
<1>9. UpTo(w, n) = BPS
  BY <1>1, <1>8 DEF rest, BPS
<1>10. QED
  BY <1>2, <1>3, <1>9 DEF Whole


\* The largest of some numbers, the first of equals.
LEMMA LargestExists ==
    ASSUME NEW f, NEW n \in Nat, n > 0, \A k \in 1 .. n : f[k] \in Nat
    PROVE  \E k \in 1 .. n : \A j \in 1 .. n : f[j] < f[k] \/ (f[j] = f[k] /\ k <= j)
<1> DEFINE First(m, k) == \A j \in 1 .. m : f[j] < f[k] \/ (f[j] = f[k] /\ k <= j)
           C == {m \in Nat : m + 1 <= n => \E k \in 1 .. m + 1 : First(m + 1, k)}
<1>1. 0 \in C
  <2>1. First(0 + 1, 1) /\ 1 \in 1 .. 0 + 1
    OBVIOUS
  <2> HIDE DEF First
  <2>2. QED
    BY <2>1
<1>2. ASSUME NEW m \in Nat, m \in C PROVE m + 1 \in C
  <2> SUFFICES ASSUME (m + 1) + 1 <= n
               PROVE  \E k \in 1 .. (m + 1) + 1 : First((m + 1) + 1, k)
    OBVIOUS
  <2>1. PICK k \in 1 .. m + 1 : First(m + 1, k)
    BY <1>2
  <2> DEFINE l == (m + 1) + 1
  <2>2. l \in 1 .. n /\ k \in 1 .. n /\ k < l /\ f[l] \in Nat /\ f[k] \in Nat
    OBVIOUS
  <2>3. \A j \in 1 .. l : j = l \/ j \in 1 .. m + 1
    OBVIOUS
  <2>4. \A j \in 1 .. m + 1 : j \in 1 .. n /\ f[j] \in Nat
    OBVIOUS
  <2>5. CASE f[k] < f[l]
    <3>1. \A j \in 1 .. m + 1 : f[j] < f[l]
      BY <2>1, <2>2, <2>4, <2>5
    <3>2. First(l, l)
      BY <2>3, <3>1
    <3> HIDE DEF First
    <3>3. QED
      BY <2>2, <3>2
  <2>6. CASE ~(f[k] < f[l])
    <3>1. f[l] < f[k] \/ (f[l] = f[k] /\ k <= l)
      BY <2>2, <2>6
    <3>2. First(l, k)
      BY <2>1, <2>3, <3>1
    <3> HIDE DEF First
    <3>3. QED
      BY <2>2, <3>2
  <2>7. QED
    BY <2>5, <2>6
<1> HIDE DEF C
<1>3. \A m \in Nat : m \in C
  BY <1>1, <1>2, Induction
<1>4. n - 1 \in Nat /\ (n - 1) + 1 = n
  OBVIOUS
<1>5. \E k \in 1 .. n : First(n, k)
  BY <1>3, <1>4 DEF C
<1>6. QED
  BY <1>5

\* Scaling each of some weights down to its share of BPS takes from their total what
\* the roundings take: less than one each.
LEMMA ScaledTotal ==
    ASSUME NEW raw, NEW scaled, NEW S \in Nat, S > 0, NEW n \in Nat,
           \A k \in 1 .. n : raw[k] \in Nat /\ scaled[k] = (raw[k] * BPS) \div S
    PROVE  \A m \in 0 .. n :
              /\ UpTo(scaled, m) \in Nat /\ UpTo(raw, m) \in Nat
              /\ S * UpTo(scaled, m) <= UpTo(raw, m) * BPS
              /\ UpTo(raw, m) * BPS <= S * UpTo(scaled, m) + m * (S - 1)
<1>1. ASSUME NEW k \in 1 .. n
      PROVE  /\ scaled[k] \in Nat
             /\ S * scaled[k] <= raw[k] * BPS
             /\ raw[k] * BPS <= S * scaled[k] + (S - 1)
  <2>1. raw[k] \in Nat /\ scaled[k] = (raw[k] * BPS) \div S
    BY Zenon
  <2>2. raw[k] * BPS \in Nat
    BY ONLY <2>1 DEF BPS
  <2> DEFINE x == raw[k] * BPS
  <2> HIDE DEF x
  <2>3. x \in Nat /\ scaled[k] = x \div S
    BY <2>1, <2>2, Zenon DEF x
  <2>4. scaled[k] \in Nat /\ S * scaled[k] <= x /\ x <= S * scaled[k] + (S - 1)
    BY ONLY <2>3, S \in Nat, S > 0, DivBounds
  <2>5. QED
    BY <2>4 DEF x
<1>2. ASSUME NEW m \in 0 .. n
      PROVE  UpTo(scaled, m) \in Nat /\ UpTo(raw, m) \in Nat
  <2>1. m \in Nat /\ \A k \in 1 .. m : scaled[k] \in Nat /\ raw[k] \in Nat
    BY <1>1
  <2>2. QED
    BY <2>1, UpToIsNat
<1> DEFINE OK(m) == /\ S * UpTo(scaled, m) <= UpTo(raw, m) * BPS
                    /\ UpTo(raw, m) * BPS <= S * UpTo(scaled, m) + m * (S - 1)
           C == {m \in Nat : m <= n => OK(m)}
<1>3. 0 \in C
  <2>1. UpTo(scaled, 0) = 0 /\ UpTo(raw, 0) = 0
    BY UpToZero
  <2>2. OK(0)
    BY <2>1 DEF BPS
  <2>3. QED
    BY <2>2
<1>4. ASSUME NEW m \in Nat, m \in C PROVE m + 1 \in C
  <2> SUFFICES ASSUME m + 1 <= n PROVE OK(m + 1)
    OBVIOUS
  <2>1. m \in 0 .. n /\ m + 1 \in 1 .. n /\ \A k \in 1 .. m + 1 : scaled[k] \in Nat /\ raw[k] \in Nat
    BY <1>1
  <2> DEFINE a == UpTo(scaled, m)
             b == UpTo(raw, m)
             c == scaled[m + 1]
             d == raw[m + 1]
  <2>2. UpTo(scaled, m + 1) = a + c /\ UpTo(raw, m + 1) = b + d
    BY ONLY <2>1, m \in Nat, UpToNext
  <2>3. a \in Nat /\ b \in Nat /\ c \in Nat /\ d \in Nat
    BY <1>2, <2>1
  <2>4. S * a <= b * BPS /\ b * BPS <= S * a + m * (S - 1)
    BY <1>4, <2>1
  <2>5. S * c <= d * BPS /\ d * BPS <= S * c + (S - 1)
    BY <1>1, <2>1
  <2> HIDE DEF a, b, c, d
  <2>6. S * (a + c) = S * a + S * c /\ S * a \in Nat /\ S * c \in Nat
    BY <2>3
  <2>7. (m + 1) * (S - 1) = m * (S - 1) + (S - 1) /\ m * (S - 1) \in Nat
    OBVIOUS
  <2>8. (b + d) * BPS = b * BPS + d * BPS /\ b * BPS \in Nat /\ d * BPS \in Nat
    BY <2>3 DEF BPS
  <2>9. S * (a + c) <= (b + d) * BPS /\ (b + d) * BPS <= S * (a + c) + (m + 1) * (S - 1)
    BY <2>4, <2>5, <2>6, <2>7, <2>8
  <2>10. QED
    BY <2>2, <2>9
<1> HIDE DEF C
<1>5. \A m \in Nat : m \in C
  BY <1>3, <1>4, Induction
<1>6. ASSUME NEW m \in 0 .. n PROVE OK(m)
  BY <1>5 DEF C
<1>7. QED
  BY <1>2, <1>6

\* However the weights are given, one leg takes what the roundings left, and that is
\* less than one for each leg: every other leg keeps its share rounded down.
LEMMA NormalizeFacts ==
    ASSUME NEW n \in Nat, n > 0, NEW raw \in Seq(Nat), Len(raw) = n, SumFunction(raw) > 0
    PROVE  /\ Whole(NormalizeWeights(raw), n)
           /\ \A k \in 1 .. n :
                 LET exact == (raw[k] * BPS) \div SumFunction(raw)
                 IN  NormalizeWeights(raw)[k] \in exact .. exact + (n - 1)
<1> DEFINE S == SumFunction(raw)
           scaled == [k \in 1 .. n |-> (raw[k] * BPS) \div S]
           T == UpTo(scaled, n)
           drift == BPS - T
           largest == CHOOSE k \in 1 .. n :
                         \A j \in 1 .. n :
                            scaled[j] < scaled[k] \/ (scaled[j] = scaled[k] /\ k <= j)
           w == NormalizeWeights(raw)
<1>1. DOMAIN raw = 1 .. n /\ \A k \in 1 .. n : raw[k] \in Nat
  OBVIOUS
<1>2. S = UpTo(raw, n) /\ S \in Nat /\ S > 0
  <2>1. S = UpTo(raw, n)
    BY <1>1, SumIsTotal, UpToIsTotal
  <2>2. UpTo(raw, n) \in Nat
    BY <1>1, UpToIsNat
  <2>3. QED
    BY <2>1, <2>2
<1>3. SumFunction(scaled) = T
  BY SumIsTotal, UpToIsTotal
<1>4. w = [scaled EXCEPT ![largest] = scaled[largest] + drift]
  BY <1>1, <1>3 DEF NormalizeWeights
<1>5. \A k \in 1 .. n : scaled[k] = (raw[k] * BPS) \div S
  OBVIOUS
<1>6. DOMAIN scaled = 1 .. n
  OBVIOUS
<1> HIDE DEF S, scaled
<1>7. \A k \in 1 .. n : scaled[k] \in Nat
  <2>1. ASSUME NEW k \in 1 .. n PROVE scaled[k] \in Nat
    <3>1. raw[k] * BPS \in Nat
      BY <1>1 DEF BPS
    <3>2. QED
      BY <1>2, <1>5, <3>1, DivBounds
  <2>2. QED
    BY <2>1
<1>8. T \in Nat /\ drift \in 0 .. n - 1
  <2>1. n \in 0 .. n
    OBVIOUS
  <2>2. T \in Nat /\ S * T <= S * BPS /\ S * BPS <= S * T + n * (S - 1)
    BY <1>1, <1>2, <1>5, <2>1, ScaledTotal
  <2> HIDE DEF T
  <2>3. T <= BPS
    <3> SUFFICES ASSUME ~(T <= BPS) PROVE FALSE
      OBVIOUS
    <3>1. T - BPS \in Nat /\ T - BPS > 0
      BY <2>2 DEF BPS
    <3>2. S * T = S * BPS + S * (T - BPS) /\ S * BPS \in Nat /\ S * (T - BPS) \in Nat
      BY <1>2, <2>2, <3>1 DEF BPS
    <3>3. S * (T - BPS) > 0
      BY <1>2, <3>1
    <3>4. QED
      BY <2>2, <3>2, <3>3
  <2>4. BPS - T <= n - 1
    <3> SUFFICES ASSUME ~(BPS - T <= n - 1) PROVE FALSE
      OBVIOUS
    <3> DEFINE d == BPS - T - n
    <3>1. d \in Nat /\ BPS = T + n + d
      BY <2>2 DEF BPS
    <3> HIDE DEF d
    <3>2. S \in Nat /\ T \in Nat /\ n \in Nat /\ d \in Nat
      BY <1>2, <2>2, <3>1
    <3>3. S * (T + n + d) = S * T + n * S + S * d /\ n * (S - 1) = n * S - n
      BY ONLY <3>2
    <3> DEFINE x == S * T
               y == n * S
               z == S * d
    <3>4. x \in Nat /\ y \in Nat /\ z \in Nat
      BY ONLY <3>2
    <3>5. x + y + z <= x + (y - n)
      BY <2>2, <3>1, <3>3
    <3> HIDE DEF x, y, z
    <3>6. QED
      BY ONLY <3>2, <3>4, <3>5, n > 0
  <2>5. QED
    BY <2>2, <2>3, <2>4 DEF BPS
<1>9. largest \in 1 .. n
  BY <1>7, LargestExists
<1> HIDE DEF largest, T, w
<1>10. w \in Seq(Nat) /\ Len(w) = n /\ \A k \in 1 .. n : w[k] \in Nat
  <2>1. scaled[largest] + drift \in Nat
    BY <1>7, <1>8, <1>9
  <2>2. w \in [1 .. n -> Nat]
    BY <1>4, <1>6, <1>7, <2>1 DEF scaled
  <2>3. QED
    BY <2>2
<1>11. \A k \in 1 .. n : w[k] = IF k = largest THEN scaled[k] + drift ELSE scaled[k]
  BY <1>4, <1>6, <1>9
<1>12. UpTo(w, n) = BPS
  <2>1. IsFiniteSet(1 .. n) /\ 0 \in Nat
    BY FS_Interval
  <2>2. \A y \in 1 .. n : scaled[y] \in Nat /\ w[y] \in Nat
    BY <1>7, <1>10
  <2>3. \A y \in 1 .. n : y /= largest => w[y] = scaled[y]
    BY <1>11
  <2>4. Total(w, 0, 1 .. n) + scaled[largest] = Total(scaled, 0, 1 .. n) + w[largest]
    <3> DEFINE I == 1 .. n
    <3> HIDE DEF I
    <3>1. IsFiniteSet(I) /\ 0 \in Nat /\ largest \in I
      BY <1>9, <2>1 DEF I
    <3>2. \A y \in I : scaled[y] \in Nat /\ w[y] \in Nat
      BY <2>2 DEF I
    <3>3. \A y \in I : y /= largest => w[y] = scaled[y]
      BY <2>3 DEF I
    <3>4. Total(w, 0, I) + scaled[largest] = Total(scaled, 0, I) + w[largest]
      BY ONLY <3>1, <3>2, <3>3, TotalUpdate
    <3>5. QED
      BY <3>4 DEF I
  <2>5. UpTo(w, n) + scaled[largest] = T + w[largest]
    BY <2>4, UpToIsTotal DEF T
  <2>6. w[largest] = scaled[largest] + drift /\ scaled[largest] \in Nat /\ UpTo(w, n) \in Nat
    BY <1>7, <1>9, <1>11, <2>2, UpToIsNat
  <2>7. QED
    BY <1>8, <2>5, <2>6 DEF BPS
<1>13. \A k \in 1 .. n : w[k] \in scaled[k] .. scaled[k] + (n - 1)
  BY <1>7, <1>8, <1>11
<1>14. QED
  BY <1>5, <1>10, <1>12, <1>13 DEF Whole, w, S


\* Weights that are exact already are kept, and any others scaled, to the whole.
LEMMA ResolvedAreWhole ==
    ASSUME NEW n \in Nat, n > 0, NEW given \in Seq(Nat), Len(given) = n, SumFunction(given) > 0
    PROVE  Whole(ResolveWeights(given), n)
<1>1. CASE SumFunction(given) = BPS
  <2>1. UpTo(given, n) = BPS
    <3>1. DOMAIN given = 1 .. n
      OBVIOUS
    <3>2. QED
      BY <1>1, <3>1, SumIsTotal, UpToIsTotal
  <2>2. ResolveWeights(given) = given
    BY <1>1 DEF ResolveWeights
  <2>3. QED
    BY <2>1, <2>2 DEF Whole
<1>2. CASE SumFunction(given) /= BPS
  <2>1. ResolveWeights(given) = NormalizeWeights(given)
    BY <1>2 DEF ResolveWeights
  <2>2. QED
    BY <2>1, NormalizeFacts
<1>3. QED
  BY <1>1, <1>2

\* What a leg is built from: a token, a quote or 0, and a floor of its own or none.
BasketTarget == [token : Token, quoted : Nat, minOut : Nat \cup {NoFloor}]

\* A floor of the target's own is kept, one derived from the quote is not above it.
FloorIsRight(target, floor) ==
    IF target.minOut = NoFloor THEN floor <= target.quoted ELSE floor = target.minOut

LEMMA BuiltFloorFacts ==
    ASSUME NEW target \in BasketTarget, NEW slip \in 0 .. BPS
    PROVE  /\ BuiltFloor(target, slip) \in Nat
           /\ FloorIsRight(target, BuiltFloor(target, slip))
<1>1. target.quoted \in Nat /\ target.minOut \in Nat \cup {NoFloor}
  BY DEF BasketTarget
<1>2. BPS - slip \in Nat /\ BPS \in Nat /\ BPS - slip <= BPS
  BY DEF BPS
<1>3. Share(target.quoted, BPS - slip) \in Nat
  BY ONLY <1>1, <1>2, ShareIsNat
<1>4. Share(target.quoted, BPS - slip) <= target.quoted
  <2> DEFINE q == target.quoted
             x == q * (10000 - slip)
             y == q * slip
  <2>1. q \in Nat /\ slip \in Nat /\ 10000 - slip \in Nat
    BY <1>1, <1>2 DEF BPS
  <2> HIDE DEF q
  <2>2. x \in Nat /\ y \in Nat /\ x + y = 10000 * q
    BY <2>1
  <2> HIDE DEF x, y
  <2>3. x \div 10000 <= q
    BY ONLY <2>1, <2>2
  <2>4. QED
    BY <2>3 DEF q, x, Share, BPS
<1>5. CASE target.minOut = NoFloor
  BY <1>3, <1>4, <1>5 DEF BuiltFloor, ApplySlippage, FloorIsRight
<1>6. CASE target.minOut /= NoFloor
  BY <1>1, <1>6 DEF BuiltFloor, FloorIsRight
<1>7. QED
  BY <1>5, <1>6

\* The weights a basket is built with are those its legs carry.
LEMMA BuiltFacts ==
    ASSUME NEW n \in Nat, n > 0, NEW w, Whole(w, n),
           NEW targets \in Seq(BasketTarget), Len(targets) = n,
           NEW slip \in 0 .. BPS
    PROVE  LET legs == BuildLegs(targets, w, slip)
           IN  /\ legs \in Seq(Leg) /\ Len(legs) = n
               /\ legs[n].upTo = BPS
               /\ \A k, l \in 1 .. n : k <= l => legs[k].upTo <= legs[l].upTo
               /\ \A k \in 1 .. n : /\ WeightOf(legs, k) = w[k]
                                    /\ FloorIsRight(targets[k], legs[k].minOut)
<1> DEFINE legs == BuildLegs(targets, w, slip)
<1>1. DOMAIN targets = 1 .. n /\ \A k \in 1 .. n : targets[k] \in BasketTarget
  <2>1. targets \in Seq(BasketTarget) /\ n \in Nat /\ Len(targets) = n
    OBVIOUS
  <2>2. QED
    BY ONLY <2>1
<1>2. w \in Seq(Nat) /\ DOMAIN w = 1 .. n /\ (\A k \in 1 .. n : w[k] \in Nat) /\ UpTo(w, n) = BPS
  <2>1. w \in Seq(Nat) /\ Len(w) = n /\ UpTo(w, n) = BPS
    BY DEF Whole
  <2>2. DOMAIN w = 1 .. n /\ \A k \in 1 .. n : w[k] \in Nat
    BY ONLY <2>1, n \in Nat
  <2>3. QED
    BY <2>1, <2>2
<1>3. \A k \in 1 .. n : RunningTotals(w)[k] = UpTo(w, k)
  BY <1>2 DEF RunningTotals, UpTo
<1>4. legs = [k \in 1 .. n |-> [token  |-> targets[k].token,
                                upTo   |-> UpTo(w, k),
                                minOut |-> BuiltFloor(targets[k], slip)]]
  BY <1>1, <1>3 DEF BuildLegs
<1> HIDE DEF legs
<1>5. ASSUME NEW k \in 1 .. n
      PROVE  /\ legs[k].token \in Token /\ legs[k].upTo = UpTo(w, k)
             /\ legs[k].upTo \in Nat /\ legs[k].minOut \in Nat
             /\ FloorIsRight(targets[k], legs[k].minOut)
             /\ legs[k] \in Leg
  <2>1. k \in Nat /\ \A j \in 1 .. k : w[j] \in Nat
    BY <1>2
  <2>2. UpTo(w, k) \in Nat
    BY <2>1, UpToIsNat
  <2>3. targets[k] \in BasketTarget
    BY <1>1
  <2>4. /\ BuiltFloor(targets[k], slip) \in Nat
        /\ FloorIsRight(targets[k], BuiltFloor(targets[k], slip))
    BY ONLY <2>3, slip \in 0 .. BPS, BuiltFloorFacts
  <2>5. targets[k].token \in Token
    BY <2>3 DEF BasketTarget
  <2>6. legs[k] = [token  |-> targets[k].token, upTo |-> UpTo(w, k),
                   minOut |-> BuiltFloor(targets[k], slip)]
    BY <1>4
  <2>7. QED
    BY ONLY <2>2, <2>4, <2>5, <2>6 DEF Leg
<1>6. legs \in Seq(Leg) /\ Len(legs) = n
  <2>1. legs \in [1 .. n -> Leg]
    BY <1>4, <1>5
  <2>2. QED
    BY <2>1
<1>7. \A k, l \in 1 .. n : k <= l => legs[k].upTo <= legs[l].upTo
  <2> SUFFICES ASSUME NEW k \in 1 .. n, NEW l \in 1 .. n, k <= l
               PROVE  legs[k].upTo <= legs[l].upTo
    OBVIOUS
  <2>1. l \in 0 .. n /\ k \in 0 .. l
    OBVIOUS
  <2>2. UpTo(w, k) <= UpTo(w, l)
    BY <1>2, <2>1, UpToGrows
  <2>3. QED
    BY <1>5, <2>2
<1>8. ASSUME NEW k \in 1 .. n PROVE WeightOf(legs, k) = w[k]
  <2>1. CASE k = 1
    <3>1. \A j \in 1 .. 0 + 1 : w[j] \in Nat
      BY <1>2
    <3>2. UpTo(w, 0 + 1) = UpTo(w, 0) + w[0 + 1] /\ UpTo(w, 0) = 0
      BY <3>1, UpToNext, UpToZero
    <3>3. legs[1].upTo = UpTo(w, 1) /\ w[1] \in Nat
      BY <1>2, <1>5
    <3>4. QED
      BY <2>1, <3>2, <3>3 DEF WeightOf
  <2>2. CASE k /= 1
    <3> DEFINE m == k - 1
    <3>1. m \in Nat /\ m \in 1 .. n /\ k = m + 1 /\ \A j \in 1 .. m + 1 : w[j] \in Nat
      BY <1>2, <2>2
    <3> HIDE DEF m
    <3>2. UpTo(w, m + 1) = UpTo(w, m) + w[m + 1]
      BY ONLY <3>1, UpToNext
    <3>3. legs[k].upTo = UpTo(w, k) /\ legs[m].upTo = UpTo(w, m) /\ legs[m].upTo \in Nat /\ w[k] \in Nat
      BY <1>2, <1>5, <3>1
    <3>4. WeightOf(legs, k) = legs[k].upTo - legs[m].upTo
      BY <2>2 DEF WeightOf, m
    <3>5. QED
      BY <3>1, <3>2, <3>3, <3>4
  <2>3. QED
    BY <2>1, <2>2
<1>9. legs[n].upTo = BPS
  BY <1>2, <1>5
<1>10. QED
  BY <1>5, <1>6, <1>7, <1>8, <1>9 DEF legs

\* However many legs a basket has and whatever weights are given for them (percentages,
\* amounts, scores, zeroes among them, or none at all), what build.ts makes is a basket
\* settlement can work on: running totals that never fall, the last the whole that
\* PolicyEngine.check asks for, so the last leg's remainder is its own weight's share;
\* a leg carries the weight it was resolved to, and the floor its target names or, where
\* it names none, one that is not above its quote.  Weights are natural numbers, which the
\* schema asks for and the builder itself does not check.
THEOREM BuiltBasketsAreWhole ==
    ASSUME NEW targets \in Seq(BasketTarget), targets /= << >>,
           NEW given \in Seq(Nat), Len(given) = Len(targets), SumFunction(given) > 0,
           NEW weights \in {EqualWeights(Len(targets)), ResolveWeights(given)},
           NEW slippageBps \in 0 .. BPS
    PROVE  LET legs == BuildLegs(targets, weights, slippageBps)
           IN  /\ legs \in Seq(Leg) /\ Len(legs) = Len(targets)
               /\ legs[Len(legs)].upTo = BPS
               /\ \A k, l \in DOMAIN legs : k <= l => legs[k].upTo <= legs[l].upTo
               /\ \A k \in DOMAIN legs : /\ WeightOf(legs, k) = weights[k]
                                         /\ FloorIsRight(targets[k], legs[k].minOut)
<1> DEFINE n == Len(targets)
           legs == BuildLegs(targets, weights, slippageBps)
<1>1. n \in Nat /\ n > 0
  OBVIOUS
<1>2. Whole(weights, n)
  <2>1. Whole(EqualWeights(n), n)
    BY <1>1, EqualWeightsAreWhole
  <2>2. Whole(ResolveWeights(given), n)
    BY <1>1, ResolvedAreWhole
  <2>3. QED
    BY <2>1, <2>2
<1> HIDE DEF n
<1>3. /\ legs \in Seq(Leg) /\ Len(legs) = n
      /\ legs[n].upTo = BPS
      /\ \A k, l \in 1 .. n : k <= l => legs[k].upTo <= legs[l].upTo
      /\ \A k \in 1 .. n : /\ WeightOf(legs, k) = weights[k]
                           /\ FloorIsRight(targets[k], legs[k].minOut)
  <2>1. Len(targets) = n
    BY DEF n
  <2>2. QED
    BY <1>1, <1>2, <2>1, BuiltFacts
<1>4. DOMAIN legs = 1 .. n
  BY <1>1, <1>3
<1>5. QED
  BY <1>3, <1>4 DEF n
=============================================================================
