----------------------------- MODULE MCSettlement -----------------------------
(***************************************************************************)
(* Two intents of one owner, settled beside a vault: engagements as the    *)
(* builder and the planner make them, from drafts and quotes, and bids the *)
(* planner would not make.  Each intent gets one engagement of its set.    *)
(***************************************************************************)
EXTENDS PlannedSettlement, TLC

CONSTANTS o, r, s, tr, this, vault, cash, stock, gold, i1, i2, att

MCAccount == {o, r, s, tr, this, vault}
MCToken   == {cash, stock, gold}
MCIntent  == {i1, i2}

\* The owner can pay for either of two deposits of 1000, and for both.
MCEndowment ==
    [a \in MCAccount |-> [t \in MCToken |->
        IF a = o /\ t = cash THEN 2001 ELSE IF a = o /\ t = gold THEN 5 ELSE 0]]

\* A gift to the vault, and the owner spending what a second deposit needs.
MCTransfers ==
    {[from |-> o, to |-> vault, token |-> stock, amount |-> 10],
     [from |-> o, to |-> s, token |-> cash, amount |-> 1001]}

-----------------------------------------------------------------------------
(* Drafts, the quotes their solvers see, and the solvers' strategies. *)

Terms0 ==
    [owner |-> o, recipient |-> o, onboard |-> FALSE, inputToken |-> cash,
     maxSlippageBps |-> 1000, exits |-> << >>, deadline |-> 2, maxNotional |-> 0,
     validAfter |-> 0, validUntil |-> 0, maxFeeBps |-> 100,
     requireRwaAttested |-> FALSE, tokenAllowlist |-> {}]

Drafted(changes, amount, targets, weights) ==
    changes @@ Terms0 @@
    [inputAmount |-> amount, legs |-> BuildLegs(targets, weights, 1000)]

Target(t, quoted) == [token |-> t, quoted |-> quoted, minOut |-> NoFloor]

Engaged(d, bid) == [solver |-> s] @@ bid @@ d

Strategy == [safetyMarginBps |-> 500, feeBps |-> 100, minEdgeBps |-> 9000]

\* A basket by weights that do not divide, and one that keeps half in the base.
BasketDraft == Drafted(<< >>, 1000, <<Target(stock, 10), Target(gold, 10)>>,
                       ResolveWeights(<<1, 2>>))
BasketQuote == [exits |-> << >>, legs |-> <<10, 11>>, values |-> <<329, 661>>]

SleeveDraft == Drafted([recipient |-> r, maxNotional |-> 1000], 1000,
                       <<Target(stock, 10), Target(cash, 0)>>, EqualWeights(2))
SleeveQuote == [exits |-> << >>, legs |-> <<10, 0>>, values |-> <<490, 0>>]

\* Five of gold sold into stock and a sleeve, for a fee of nothing.  The exit may
\* raise one more than was quoted, and the sleeve is then one short.
RebalanceDraft ==
    Drafted([maxFeeBps |-> 0, tokenAllowlist |-> {cash, stock, gold},
             exits |-> <<[token |-> gold, amountIn |-> 5, minOut |-> 9]>>],
            0, <<Target(stock, 0), Target(stock, 0), Target(cash, 0)>>,
            ResolveWeights(<<3000, 3000, 4000>>))
RebalanceQuote == [exits |-> <<9>>, legs |-> <<10, 10, 0>>, values |-> <<2, 2, 0>>]

\* An attested asset, to be settled by a date, with a floor of its own.
AttestedDraft == Drafted([requireRwaAttested |-> TRUE, validUntil |-> 1], 1000,
                         <<[Target(stock, 10) EXCEPT !.minOut = 8]>>, EqualWeights(1))

OnboardDraft == Drafted([onboard |-> TRUE], 0, <<Target(stock, 0)>>, EqualWeights(1))

\* One unit in two halves; and weights that miss the whole.
DustDraft  == Drafted([recipient |-> r], 1, <<Target(stock, 0), Target(cash, 0)>>,
                      EqualWeights(2))
ShortDraft == Drafted(<< >>, 1000, <<Target(stock, 0)>>, <<9000>>)

\* What the planner is asked to price.
MCPriced ==
    {[strategy |-> Strategy] @@ x : x \in
       {[draft |-> BasketDraft,    quote |-> BasketQuote],
        [draft |-> SleeveDraft,    quote |-> SleeveQuote],
        [draft |-> RebalanceDraft, quote |-> RebalanceQuote],
        [draft |-> AttestedDraft,  quote |-> [exits |-> << >>, legs |-> <<10>>,
                                              values |-> <<990>>]],
        [draft |-> OnboardDraft,   quote |-> [exits |-> << >>, legs |-> <<10>>,
                                              values |-> <<990>>]]}}

\* The bids the planner makes.
OfDrafts(drafts) ==
    {Engaged(p.draft, PlannedBid(p.draft, p.quote, p.strategy)) :
       p \in {q \in MCPriced : q.draft \in drafts /\ Bids(q.draft, q.quote, q.strategy)}}

\* Bids it does not make: an onboarding that raises nothing, guarantees nobody
\* stands for, a fee above the policy's.
Rogue(d, feeBps, guaranteed) ==
    Engaged(d, [feeBps |-> feeBps, guaranteedOut |-> guaranteed])

MCEngagement ==
    [i \in MCIntent |->
       IF i = i1
         THEN OfDrafts({BasketDraft, RebalanceDraft})
              \cup {Rogue(BasketDraft, 0, <<9, 9>>), Rogue(ShortDraft, 100, <<9>>)}
         ELSE OfDrafts({SleeveDraft, AttestedDraft})
              \cup {Rogue(OnboardDraft, 100, <<0>>), Rogue(DustDraft, 0, <<10, 1>>),
                    Rogue(AttestedDraft, 3000, <<10>>)}]

-----------------------------------------------------------------------------
(* The bound. *)

\* Bound: one excursion at a time from the state of affairs at the start.
Excursions ==
    { <<1, protocolFeeShareBps /= 3000>>, <<2, treasury /= tr>>, <<3, ~isRouterAllowed>>,
      <<4, ~rwa>>, <<5, requests /= << >> >>, <<6, now = MaxTime>>,
      <<7, ~isAttestor[att] /\ attestations[stock].active>>,
      <<8, shares[r] > 0>>, <<9, ledger[s][cash] >= 1001>>,
      <<10, \E i \in Intent : status[i] = "CANCELLED">> }

OneExcursion == Cardinality({x \in Excursions : x[2]}) <= 1
=============================================================================
