----------------------------- MODULE Settlement -----------------------------
(***************************************************************************)
(* The settlement contract: the one transaction that moves an owner's      *)
(* tokens.  settle is modelled as a frame that advances call by call, from *)
(* the reveal through the exits, the policy check, one purchase per leg,   *)
(* the fees and the refund, and that may revert at every call, which puts  *)
(* back what it had moved.  Transactions do not interleave: all else       *)
(* happens between frames.                                                 *)
(*                                                                         *)
(* An engagement is what the registry and the reveal give the frame: the   *)
(* committed outcome and policy, and the winning bid.  The gates on the    *)
(* solver itself (reputation, KYB, gas sponsorship) are IntentRegistry's   *)
(* Settle.  Routers are external: a swap takes the whole input and yields  *)
(* any amount.  Nobody names the settlement contract as a recipient, and   *)
(* an exit sells another token than the base (checkOutcomeInvariants).     *)
(***************************************************************************)
EXTENDS RWARegistry, Weights

CONSTANTS
    Intent,
    Account,        \* owners, recipients, solvers, treasuries and This
    This,           \* the settlement contract
    InitTreasury,
    Engagement,     \* per intent, the engagements it may end up with
    Endowment,      \* the ledger at the start
    RouterOut,      \* what a swap may yield
    ShareBps,       \* values governance may set protocolFeeShareBps to
    Treasuries,     \* accounts governance may make treasury
    RouterSwitch,   \* values governance may set isRouterAllowed to
    RwaSwitch,      \* whether governance may set the asset registry or none
    Transfers       \* what accounts send of their own accord

MAX_SLIPPAGE_BPS == 2000

\* A leg carries the weights of the legs up to it, summed (totalWeightBps).
Leg  == [token : Token, upTo : Nat, minOut : Nat]
Exit == [token : Token, amountIn : Nat, minOut : Nat]

EngagementRecord ==
    [owner : Account, solver : Account, recipient : Account,
     onboard : BOOLEAN,                     \* kind is RWA_ONBOARD
     inputToken : Token, inputAmount : Nat, maxSlippageBps : Nat,
     legs : Seq(Leg), exits : Seq(Exit), deadline : Nat,
     maxNotional : Nat, validAfter : Nat, validUntil : Nat, maxFeeBps : Nat,
     requireRwaAttested : BOOLEAN, tokenAllowlist : SUBSET Token,
     feeBps : Nat, guaranteedOut : Seq(Nat)]    \* the winning bid

ASSUME SettlementAssumption ==
    /\ Intent /= {}
    /\ This \in Account
    /\ InitTreasury \in Account \ {This}
    /\ Treasuries \subseteq Account \ {This}
    /\ Engagement \in [Intent -> SUBSET EngagementRecord]
    /\ \A e \in UNION {Engagement[i] : i \in Intent} :
          /\ This \notin {e.owner, e.solver, e.recipient}
          /\ Len(e.guaranteedOut) = Len(e.legs)
          /\ \A x \in DOMAIN e.exits : e.exits[x].token /= e.inputToken
          /\ \A k, l \in DOMAIN e.legs : k <= l => e.legs[k].upTo <= e.legs[l].upTo
    /\ Endowment \in [Account -> [Token -> Nat]]
    /\ \A t \in Token : Endowment[This][t] = 0
    /\ RouterOut \subseteq Nat
    /\ ShareBps \subseteq 0 .. BPS
    /\ RouterSwitch \subseteq BOOLEAN
    /\ RwaSwitch \subseteq BOOLEAN
    /\ Transfers \subseteq [from : Account \ {This}, to : Account \ {This},
                           token : Token, amount : Nat]

VARIABLES
    ledger,         \* token balances
    allowance,      \* per owner and token, what This may still pull
    engagement,
    status,         \* of each intent in the registry
    delivered,      \* the amounts IntentSettled announced per intent
    protocolFeeShareBps, treasury, isRouterAllowed, rwa,
    \* The frame of the running settle, and what it puts back on a revert.
    pc,             \* "idle", "exits" or "acquire"
    cur,            \* the intent that is settling
    leg,            \* the next exit or leg
    notional, spent, received,
    savedLedger, savedAllowance

roleVars  == <<protocolFeeShareBps, treasury, isRouterAllowed, rwa>>
frameVars == <<pc, cur, leg, notional, spent, received, savedLedger, savedAllowance>>
vars == <<rwaVars, ledger, allowance, engagement, status, delivered,
          roleVars, frameVars>>

NoAllowance == [a \in Account |-> [t \in Token |-> 0]]
NoIntent    == CHOOSE i \in Intent : TRUE

\* What the intent commits to, without a bid: no solver, no fee, no guarantees.
Draft(e) == [e EXCEPT !.solver = This, !.feeBps = 0, !.guaranteedOut = << >>]

Init ==
    /\ RwaInit
    /\ ledger     = Endowment
    /\ allowance  = NoAllowance
    /\ engagement \in {[i \in Intent |-> Draft(f[i])] :
                         f \in {g \in [Intent -> UNION {Engagement[i] : i \in Intent}] :
                                  \A i \in Intent : g[i] \in Engagement[i]}}
    /\ status     = [i \in Intent |-> "NONE"]
    /\ delivered  = [i \in Intent |-> << >>]
    /\ protocolFeeShareBps = 3000
    /\ treasury   = InitTreasury
    /\ isRouterAllowed = TRUE
    /\ rwa        = TRUE
    /\ pc         = "idle"
    /\ cur        = NoIntent
    /\ leg        = 1
    /\ notional   = 0
    /\ spent      = 0
    /\ received   = << >>
    /\ savedLedger    = Endowment
    /\ savedAllowance = NoAllowance

-----------------------------------------------------------------------------
(* The ledger. *)

Credit(l, a, t, v) == [l EXCEPT ![a][t] = @ + v]
Debit(l, a, t, v)  == [l EXCEPT ![a][t] = @ - v]
Move(l, a, b, t, v) == Credit(Debit(l, a, t, v), b, t, v)

\* safeTransferFrom by This goes through.
CanPull(a, t, v) == v <= ledger[a][t] /\ v <= allowance[a][t]

-----------------------------------------------------------------------------
(* What the frame computes. *)

E == engagement[cur]

Fee       == Share(notional, E.feeBps)
Spendable == notional - Fee

\* Broken, for a mutant: the last leg is sized like the others.
AmountIn_NoRemainder(k) == Share(Spendable, WeightOf(E.legs, k))

\* Broken, for a mutant: legs are shares of all that came in, the fee with it.
AmountIn_OfNotional(k) == Share(notional, WeightOf(E.legs, k))

\* The size of leg k: its share by weight, the last one what is left.
AmountIn(k) == IF k = Len(E.legs) THEN Spendable - spent
               ELSE Share(Spendable, WeightOf(E.legs, k))

\* Broken, for a mutant: the solver's guarantee is not looked at.
FloorFor_UserOnly(k) == E.legs[k].minOut

FloorFor(k) == IF E.guaranteedOut[k] > E.legs[k].minOut
               THEN E.guaranteedOut[k] ELSE E.legs[k].minOut

Required == Share(Spendable, BPS - E.maxSlippageBps)

TokensOf(e) == [k \in DOMAIN e.legs |-> e.legs[k].token]

\* PolicyEngine.check, but for its gates on the solver.
PolicyAccepts ==
    /\ Len(E.legs) /= 0
    /\ E.maxSlippageBps <= MAX_SLIPPAGE_BPS
    /\ E.legs[Len(E.legs)].upTo = BPS
    /\ E.validAfter /= 0 => now >= E.validAfter
    /\ E.validUntil /= 0 => now <= E.validUntil
    /\ E.maxNotional /= 0 => notional <= E.maxNotional
    /\ E.feeBps <= E.maxFeeBps
    /\ \A k \in DOMAIN E.legs :
          /\ E.tokenAllowlist /= {} => E.legs[k].token \in E.tokenAllowlist
          /\ E.requireRwaAttested => IsAttested(E.legs[k].token)
    /\ E.tokenAllowlist /= {} =>
          \A x \in DOMAIN E.exits : E.exits[x].token \in E.tokenAllowlist

\* _fileOnboarding; MaxRequests bounds the model, not the code.
FileOnboarding ==
    IF E.onboard /\ rwa
      THEN /\ Len(requests) + Len(E.legs) <= MaxRequests
           /\ requests' = Filed(TokensOf(E))
      ELSE requests' = requests

EndFrame ==
    /\ pc' = "idle"
    /\ leg' = 1
    /\ notional' = 0
    /\ spent' = 0
    /\ received' = << >>
    /\ cur' = NoIntent
    /\ savedLedger' = Endowment
    /\ savedAllowance' = NoAllowance

-----------------------------------------------------------------------------
(* settle. *)

\* _open, and the direct deposit of _collect.
Begin(i) ==
    LET e == engagement[i]
    IN  /\ pc = "idle"
        /\ status[i] = "SELECTED"
        /\ now <= e.deadline
        /\ CanPull(e.owner, e.inputToken, e.inputAmount)
        /\ ledger' = Move(ledger, e.owner, This, e.inputToken, e.inputAmount)
        /\ allowance' = Debit(allowance, e.owner, e.inputToken, e.inputAmount)
        /\ pc' = "exits"
        /\ cur' = i
        /\ leg' = 1
        /\ notional' = e.inputAmount
        /\ spent' = 0
        /\ received' = << >>
        /\ savedLedger' = ledger
        /\ savedAllowance' = allowance
        /\ UNCHANGED <<rwaVars, engagement, status, delivered, roleVars>>

\* One exit: the owner's position is sold into the base token.
SellExit(out) ==
    LET x == E.exits[leg]
    IN  /\ pc = "exits"
        /\ leg <= Len(E.exits)
        /\ isRouterAllowed
        /\ CanPull(E.owner, x.token, x.amountIn)
        /\ out >= x.minOut
        /\ ledger' = Credit(Debit(ledger, E.owner, x.token, x.amountIn),
                            This, E.inputToken, out)
        /\ allowance' = Debit(allowance, E.owner, x.token, x.amountIn)
        /\ notional' = notional + out
        /\ leg' = leg + 1
        /\ UNCHANGED <<rwaVars, engagement, status, delivered, roleVars,
                       pc, cur, spent, received, savedLedger, savedAllowance>>

\* With nothing collected only an onboarding settles: it files its requests and
\* buys nothing.
OnboardOnly ==
    /\ pc = "exits"
    /\ leg > Len(E.exits)
    /\ notional = 0
    /\ E.onboard
    /\ PolicyAccepts
    /\ FileOnboarding
    /\ status' = [status EXCEPT ![cur] = "FULFILLED"]
    /\ delivered' = [delivered EXCEPT ![cur] = [k \in DOMAIN E.legs |-> 0]]
    /\ EndFrame
    /\ UNCHANGED <<attestations, isAttestor, now, ledger, allowance, engagement, roleVars>>

\* The policy check, once all is collected; a fee above what came in underflows.
Check ==
    /\ pc = "exits"
    /\ leg > Len(E.exits)
    /\ notional > 0
    /\ PolicyAccepts
    /\ Fee <= notional
    /\ pc' = "acquire"
    /\ leg' = 1
    /\ UNCHANGED <<rwaVars, ledger, allowance, engagement, status,
                   delivered, roleVars, cur, notional, spent, received,
                   savedLedger, savedAllowance>>

\* A leg whose size is zero is passed over before its floor is read.
SkipLeg ==
    /\ pc = "acquire"
    /\ leg <= Len(E.legs)
    /\ AmountIn(leg) = 0
    /\ received' = Append(received, 0)
    /\ leg' = leg + 1
    /\ UNCHANGED <<rwaVars, ledger, allowance, engagement, status,
                   delivered, roleVars, pc, cur, notional, spent,
                   savedLedger, savedAllowance>>

\* The leg takes its share of the money and reaches the recipient at or above its
\* floor, or nothing of the frame happens.
Acquire(out) ==
    /\ out >= FloorFor(leg)
    /\ ledger' = Credit(Debit(ledger, This, E.inputToken, AmountIn(leg)),
                        E.recipient, E.legs[leg].token, out)
    /\ spent' = spent + AmountIn(leg)
    /\ received' = Append(received, out)
    /\ leg' = leg + 1
    /\ UNCHANGED <<rwaVars, allowance, engagement, status, delivered, roleVars,
                   pc, cur, notional, savedLedger, savedAllowance>>

\* A leg in the base token is handed over as it is; any other one is swapped.
HandOverLeg ==
    /\ pc = "acquire"
    /\ leg <= Len(E.legs)
    /\ AmountIn(leg) /= 0
    /\ E.legs[leg].token = E.inputToken
    /\ Acquire(AmountIn(leg))

SwapLeg(out) ==
    /\ pc = "acquire"
    /\ leg <= Len(E.legs)
    /\ AmountIn(leg) /= 0
    /\ E.legs[leg].token /= E.inputToken
    /\ isRouterAllowed
    /\ Acquire(out)

\* _payFees and _refundDust.
ProtocolFee == Share(Fee, protocolFeeShareBps)

\* Broken, for a mutant: the fee is left in the refund.
PaidOut_FeeTwice(l) ==
    LET base == E.inputToken
    IN  Move(Move(Move(l, This, treasury, base, ProtocolFee),
                  This, E.solver, base, Fee - ProtocolFee),
             This, E.owner, base, notional - spent)

PaidOut(l) ==
    LET base == E.inputToken
    IN  Move(Move(Move(l, This, treasury, base, ProtocolFee),
                  This, E.solver, base, Fee - ProtocolFee),
             This, E.owner, base, Spendable - spent)

\* The end of settle: deployment is tested, the fees are paid, what is left is
\* refunded and the registry marks the intent fulfilled.
Close ==
    /\ pc = "acquire"
    /\ leg > Len(E.legs)
    /\ spent >= Required
    /\ ledger' = PaidOut(ledger)
    /\ FileOnboarding
    /\ status' = [status EXCEPT ![cur] = "FULFILLED"]
    /\ delivered' = [delivered EXCEPT ![cur] = received]
    /\ EndFrame
    /\ UNCHANGED <<attestations, isAttestor, now, allowance, engagement, roleVars>>

\* Broken, for a mutant: what was already moved stays moved.
Revert_KeepsLedger ==
    /\ pc /= "idle"
    /\ allowance' = savedAllowance
    /\ EndFrame
    /\ UNCHANGED <<rwaVars, ledger, engagement, status, delivered, roleVars>>

\* A guard that fails, a router or a token that refuses, or gas that runs out.
Revert ==
    /\ pc /= "idle"
    /\ ledger' = savedLedger
    /\ allowance' = savedAllowance
    /\ EndFrame
    /\ UNCHANGED <<rwaVars, engagement, status, delivered, roleVars>>

-----------------------------------------------------------------------------
(* Between frames: the owner's client, the registry, governance. *)

\* What settlement will pull for an engagement, token by token.
Needed(e, t) ==
    LET sold(x) == IF e.exits[x].token = t THEN e.exits[x].amountIn ELSE 0
        deposit == IF e.inputToken = t THEN e.inputAmount ELSE 0
    IN  FoldFunction(+, deposit, [x \in DOMAIN e.exits |-> sold(x)])

\* ensureApprovals and the submission: an allowance that covers this intent is
\* left as it is, whatever other intents count on it.
Declare(i) ==
    LET e == engagement[i]
    IN  /\ pc = "idle"
        /\ status[i] = "NONE"
        /\ allowance' = [allowance EXCEPT ![e.owner] =
              [t \in Token |-> IF allowance[e.owner][t] >= Needed(e, t)
                               THEN allowance[e.owner][t] ELSE Needed(e, t)]]
        /\ status' = [status EXCEPT ![i] = "OPEN"]
        /\ UNCHANGED <<rwaVars, ledger, engagement, delivered, roleVars,
                       frameVars>>

\* The registry's side: selection of one of the bids, failure (reportFailure),
\* cancelling.
Select(i) ==
    /\ pc = "idle"
    /\ status[i] = "OPEN"
    /\ \E e \in Engagement[i] :
          /\ Draft(e) = Draft(engagement[i])
          /\ engagement' = [engagement EXCEPT ![i] = e]
    /\ status' = [status EXCEPT ![i] = "SELECTED"]
    /\ UNCHANGED <<rwaVars, ledger, allowance, delivered, roleVars, frameVars>>

ReportFailure(i) ==
    /\ pc = "idle"
    /\ status[i] = "SELECTED"
    /\ status' = [status EXCEPT ![i] = "OPEN"]
    /\ UNCHANGED <<rwaVars, ledger, allowance, engagement, delivered, roleVars,
                   frameVars>>

Cancel(i) ==
    /\ pc = "idle"
    /\ status[i] \in {"OPEN", "SELECTED"}
    /\ status' = [status EXCEPT ![i] = "CANCELLED"]
    /\ UNCHANGED <<rwaVars, ledger, allowance, engagement, delivered,
                   roleVars, frameVars>>

\* Tokens change hands outside the protocol; none are sent to This.
Transfer(x) ==
    /\ pc = "idle"
    /\ x.amount <= ledger[x.from][x.token]
    /\ ledger' = Move(ledger, x.from, x.to, x.token, x.amount)
    /\ UNCHANGED <<rwaVars, allowance, engagement, status, delivered,
                   roleVars, frameVars>>

Governance ==
    /\ pc = "idle"
    /\ \/ /\ protocolFeeShareBps' \in ShareBps
          /\ UNCHANGED <<treasury, isRouterAllowed, rwa>>
       \/ /\ treasury' \in Treasuries
          /\ UNCHANGED <<protocolFeeShareBps, isRouterAllowed, rwa>>
       \/ /\ isRouterAllowed' \in RouterSwitch
          /\ UNCHANGED <<protocolFeeShareBps, treasury, rwa>>
       \/ /\ rwa' \in RwaSwitch
          /\ UNCHANGED <<protocolFeeShareBps, treasury, isRouterAllowed>>
    /\ UNCHANGED <<rwaVars, ledger, allowance, engagement, status,
                   delivered, frameVars>>

AssetStep ==
    /\ pc = "idle"
    /\ RwaStep
    /\ UNCHANGED <<ledger, allowance, engagement, status, delivered,
                   roleVars, frameVars>>

SettleStep ==
    \/ \E i \in Intent : Begin(i)
    \/ \E out \in RouterOut : SellExit(out)
    \/ \E out \in RouterOut : SwapLeg(out)
    \/ OnboardOnly \/ Check \/ SkipLeg \/ HandOverLeg \/ Close \/ Revert

Next ==
    \/ SettleStep
    \/ \E i \in Intent : Declare(i) \/ Select(i) \/ ReportFailure(i) \/ Cancel(i)
    \/ \E x \in Transfers : Transfer(x)
    \/ Governance
    \/ AssetStep

Spec == Init /\ [][Next]_vars

-----------------------------------------------------------------------------
(* Properties. *)

SettlementTypeOK ==
    /\ RwaTypeOK
    /\ ledger     \in [Account -> [Token -> Nat]]
    /\ allowance  \in [Account -> [Token -> Nat]]
    /\ status     \in [Intent -> {"NONE", "OPEN", "SELECTED", "FULFILLED", "CANCELLED"}]
    /\ delivered  \in [Intent -> Seq(Nat)]
    /\ protocolFeeShareBps \in 0 .. BPS
    /\ treasury   \in Account \ {This}
    /\ isRouterAllowed \in BOOLEAN
    /\ rwa        \in BOOLEAN
    /\ pc         \in {"idle", "exits", "acquire"}
    /\ cur        \in Intent
    /\ leg        \in Nat \ {0}
    /\ notional   \in Nat
    /\ spent      \in Nat
    /\ received   \in Seq(Nat)
    /\ savedLedger    \in [Account -> [Token -> Nat]]
    /\ savedAllowance \in [Account -> [Token -> Nat]]

\* Between transactions the contract holds nothing, and during one exactly what
\* it collected and has not spent, in the base token: fees, purchases and refund
\* (_payFees, _acquire, _refundDust) use up what _collect brought in, so that no
\* settlement is paid out of another one's money or leaves money behind.
FrameIsFunded ==
    \A t \in Token :
       ledger[This][t] = IF pc /= "idle" /\ t = E.inputToken THEN notional - spent ELSE 0

\* The size of the last leg, budget - spent, never underflows: rounded down one by
\* one, the legs before it never take more than what may be spent (_acquire).
SpentWithinBudget == pc = "acquire" => spent <= Spendable

\* Once every leg was bought the whole of what may be spent was spent, whatever
\* the weights and whichever legs were passed over: what is refunded is zero.
FullyDeployed ==
    pc = "acquire" /\ leg > Len(E.legs) => spent = Spendable

\* A fulfilled intent has an amount for each of its legs, and each one that is
\* not zero clears the user's floor and the guarantee of the bid selected last,
\* not of an earlier one (_floorFor).
FloorsBind ==
    \A i \in Intent : status[i] = "FULFILLED" =>
       LET e == engagement[i]
       IN  /\ Len(delivered[i]) = Len(e.legs)
           /\ \A k \in DOMAIN e.legs :
                 delivered[i][k] /= 0 => /\ delivered[i][k] >= e.legs[k].minOut
                                        /\ delivered[i][k] >= e.guaranteedOut[k]

\* What settlements may raise: their deposit and what their exits yield.
Notionals ==
    UNION {{e.inputAmount + SumFunction(outs) : outs \in [DOMAIN e.exits -> RouterOut]} :
           e \in UNION {Engagement[i] : i \in Intent}}

Contract ==
    INSTANCE Exchange WITH
        balance     <- IF pc = "idle" THEN ledger ELSE savedLedger,
        terms       <- engagement,
        outcome     <- delivered,
        feeTaker    <- treasury,
        feeTakerBps <- protocolFeeShareBps

\* A settlement is one exchange on the intent's terms or leaves no trace: exits,
\* purchases, skipped legs and reverts are not seen from outside (settle).
ImplementsExchange == Contract!Spec
=============================================================================
