------------------------------- MODULE Weights -------------------------------
(***************************************************************************)
(* Basis points and the weights of a basket: the arithmetic the builder,   *)
(* the planner and the settlement contract each do for themselves.  Weights *)
(* travel as running totals: the total up to leg k is upTo[k], and the     *)
(* weight of a leg is what it adds.                                        *)
(***************************************************************************)
EXTENDS Integers, Sequences, Functions

BPS == 10000

Share(v, bps) == (v * bps) \div BPS

WeightOf(legs, k) ==
    IF k = 1 THEN legs[1].upTo ELSE legs[k].upTo - legs[k - 1].upTo

RunningTotals(w) == [k \in DOMAIN w |-> SumFunctionOnSet(w, 1 .. k)]

-----------------------------------------------------------------------------
(* build.ts: weights in basis points. *)

\* The remainder of an equal split goes to the first leg.
EqualWeights(count) ==
    LET base == BPS \div count
    IN  [k \in 1 .. count |-> IF k = 1 THEN base + (BPS - base * count) ELSE base]

\* The remainder of a scaled split goes to its largest leg, the first of equals.
\* The source scales in floating point, which may be one off in a leg; the
\* remainder takes that up as well.
NormalizeWeights(raw) ==
    LET scaled  == [k \in DOMAIN raw |-> (raw[k] * BPS) \div SumFunction(raw)]
        drift   == BPS - SumFunction(scaled)
        largest == CHOOSE k \in DOMAIN raw :
                      \A j \in DOMAIN raw :
                         scaled[j] < scaled[k] \/ (scaled[j] = scaled[k] /\ k <= j)
    IN  [scaled EXCEPT ![largest] = @ + drift]

\* A set of weights that is exact already is kept.
ResolveWeights(given) ==
    IF SumFunction(given) = BPS THEN given ELSE NormalizeWeights(given)

ApplySlippage(quoted, slippageBps) == Share(quoted, BPS - slippageBps)

\* What a target without a floor of its own has for one.
NoFloor == -1

\* A floor of the target's own wins over the one derived from its quote (0 is none),
\* whichever is higher.
BuiltFloor(target, slippageBps) ==
    IF target.minOut = NoFloor THEN ApplySlippage(target.quoted, slippageBps)
    ELSE target.minOut

\* The legs of a built outcome, one for each target.
BuildLegs(targets, weights, slippageBps) ==
    [k \in DOMAIN targets |->
       [token  |-> targets[k].token,
        upTo   |-> RunningTotals(weights)[k],
        minOut |-> BuiltFloor(targets[k], slippageBps)]]
=============================================================================
