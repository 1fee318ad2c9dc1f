-------------------------- MODULE PlannedSettlement --------------------------
(***************************************************************************)
(* Settlement and the planner side by side.  The planner sizes the legs    *)
(* off chain, before the exits are sold, and promises a leg in the base    *)
(* token (a sleeve) at exactly its planned size; the contract sizes them   *)
(* again from what the exits really raised.  The two computations are two  *)
(* pieces of code in two languages: planner.ts and _acquire.               *)
(***************************************************************************)
EXTENDS RwaVault, Planner

CONSTANT Priced     \* drafts with the quotes and the strategy of a solver

ASSUME PlannedSettlementAssumption ==
    \A p \in Priced :
       /\ p.draft.inputAmount \in Nat
       /\ p.draft.legs \in Seq(Leg)
       /\ p.draft.maxFeeBps \in Nat
       /\ p.quote.exits \in Seq(Nat)
       /\ p.strategy.feeBps \in Nat

-----------------------------------------------------------------------------
(* Properties. *)

\* e is the draft of p with the bid the planner makes on it.
IsPlanned(e, p) ==
    LET bid == PlannedBid(p.draft, p.quote, p.strategy)
    IN  /\ e.inputToken    = p.draft.inputToken
        /\ e.inputAmount   = p.draft.inputAmount
        /\ e.legs          = p.draft.legs
        /\ e.feeBps        = bid.feeBps
        /\ e.guaranteedOut = bid.guaranteedOut

\* The frame is about to buy a leg of an engagement planned as p.
BuyingAsPlanned(p) == pc = "acquire" /\ leg <= Len(E.legs) /\ IsPlanned(E, p)

\* When the exits raise what they were quoted at, the contract sizes every leg
\* as the planner did, so a sleeve is delivered as it was promised (planner.ts
\* sizes legs off chain the way _acquire does on chain).
SizedAsPlanned ==
    \A p \in Priced :
       BuyingAsPlanned(p) /\ notional = PlannedNotional(p.draft, p.quote) =>
          /\ AmountIn(leg) = PlannedSize(p.draft, p.quote, p.strategy, leg)
          /\ IsSleeve(p.draft, leg) => AmountIn(leg) >= E.guaranteedOut[leg]

\* What rounding may cost leg k when more is raised than was quoted: the last leg
\* is what the others leave, and each but one of those may take one unit more.
Rounding(d, k) == IF k = Len(d.legs) /\ k > 1 THEN k - 2 ELSE 0

\* When the exits raise more than they were quoted at, a sleeve that is not the
\* last leg is never short of its guarantee, and the last leg by rounding alone.
SleeveIsShortByRounding ==
    \A p \in Priced :
       /\ BuyingAsPlanned(p)
       /\ notional >= PlannedNotional(p.draft, p.quote)
       /\ IsSleeve(p.draft, leg)
       => AmountIn(leg) + Rounding(p.draft, leg) >= E.guaranteedOut[leg]
=============================================================================
