------------------------------- MODULE Planner -------------------------------
(***************************************************************************)
(* The solver's planner: from a draft and the venues' quotes to the bid it *)
(* is ready to be held to, or to no bid.  It sizes the legs off chain the  *)
(* way settlement will on chain, with the quoted proceeds of the exits for *)
(* the real ones.                                                          *)
(*                                                                         *)
(* A draft carries an outcome and a policy (inputToken, inputAmount, legs, *)
(* exits, maxSlippageBps, maxFeeBps); q holds the best quotes: q.exits and *)
(* q.legs, where 0 is a pair nobody prices, and q.values, what each leg's  *)
(* quote is worth in the base token.  A strategy s is its safety margin,   *)
(* fee and least edge.  Routes, scores and notes are left out.             *)
(***************************************************************************)
EXTENDS Weights

PlannedNotional(d, q) == d.inputAmount + SumFunction(q.exits)

PlannedFeeBps(d, s) == IF s.feeBps < d.maxFeeBps THEN s.feeBps ELSE d.maxFeeBps

PlannedSpendable(d, q, s) ==
    PlannedNotional(d, q) - Share(PlannedNotional(d, q), PlannedFeeBps(d, s))

\* Broken, for a mutant: the last leg is sized by its weight too.
PlannedSize_NoRemainder(d, q, s, k) ==
    Share(PlannedSpendable(d, q, s), WeightOf(d.legs, k))

PlannedSize(d, q, s, k) ==
    LET spendable == PlannedSpendable(d, q, s)
        earlier   == [j \in 1 .. k - 1 |-> Share(spendable, WeightOf(d.legs, j))]
    IN  IF k = Len(d.legs) THEN spendable - SumFunction(earlier)
        ELSE Share(spendable, WeightOf(d.legs, k))

\* A leg in the base token: nothing to route, and promised in full.
IsSleeve(d, k) == d.legs[k].token = d.inputToken

\* Broken, for a mutant: a sleeve is promised before the fee is taken.
Guarantee_BeforeFee(d, q, s, k) ==
    IF IsSleeve(d, k) THEN Share(PlannedNotional(d, q), WeightOf(d.legs, k))
    ELSE Share(q.legs[k], BPS - s.safetyMarginBps)

Guarantee(d, q, s, k) ==
    IF IsSleeve(d, k) THEN PlannedSize(d, q, s, k)
    ELSE Share(q.legs[k], BPS - s.safetyMarginBps)

\* What delivering costs against the spendable, in basis points toward zero.
LossBps(d, q, s) ==
    LET spendable == PlannedSpendable(d, q, s)
        worth     == [k \in DOMAIN d.legs |-> IF IsSleeve(d, k) THEN PlannedSize(d, q, s, k)
                                              ELSE q.values[k]]
        lost      == (spendable - SumFunction(worth)) * BPS
        by        == IF spendable = 0 THEN 1 ELSE spendable
    IN  IF lost >= 0 THEN lost \div by ELSE 0

\* Whether the planner bids.  A sleeve is not held against the user's floor.
Bids(d, q, s) ==
    /\ \A x \in DOMAIN d.exits : q.exits[x] > 0 /\ q.exits[x] >= d.exits[x].minOut
    /\ PlannedNotional(d, q) /= 0
    /\ \A k \in DOMAIN d.legs :
          \/ IsSleeve(d, k)
          \/ /\ PlannedSize(d, q, s, k) /= 0
             /\ q.legs[k] > 0
             /\ Guarantee(d, q, s, k) >= d.legs[k].minOut
             /\ q.values[k] > 0
    /\ LossBps(d, q, s) <= s.minEdgeBps + d.maxSlippageBps

PlannedBid(d, q, s) ==
    [feeBps        |-> PlannedFeeBps(d, s),
     guaranteedOut |-> [k \in DOMAIN d.legs |-> Guarantee(d, q, s, k)]]
=============================================================================
