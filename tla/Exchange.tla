------------------------------- MODULE Exchange -------------------------------
(***************************************************************************)
(* What settlement promises the parties of an intent: it is exchanged in   *)
(* one step, whole, at most once and on its own terms, or not at all.  The *)
(* owner gives the declared input and positions and nothing else; what     *)
(* they raise is paid out in full, the fee to the solver and the treasury  *)
(* and the rest for legs that reach the recipient at or above both floors; *)
(* a leg comes out empty only where its share of the money is zero.        *)
(***************************************************************************)
EXTENDS Weights

CONSTANTS
    Intent, Account, Token,
    Notionals       \* what an exchange may raise

VARIABLES
    balance,        \* the tokens of every account
    terms,          \* the engagement of every intent
    outcome,        \* per intent what each leg delivered, empty before
    feeTaker,       \* the treasury, and its share of the fee
    feeTakerBps

Transferred(b, from, to, t, v) ==
    [a \in Account |-> [u \in Token |->
        b[a][u] - (IF a = from /\ u = t THEN v ELSE 0)
                + (IF a = to /\ u = t THEN v ELSE 0)]]

\* What e's owner gives of a token, and its recipient gets of it.
Given(e, t) ==
    LET sold(x) == IF e.exits[x].token = t THEN e.exits[x].amountIn ELSE 0
    IN  (IF e.inputToken = t THEN e.inputAmount ELSE 0)
        + SumFunction([x \in DOMAIN e.exits |-> sold(x)])

Bought(e, got, t) ==
    SumFunction([k \in DOMAIN e.legs |-> IF e.legs[k].token = t THEN got[k] ELSE 0])

\* A leg's part of the money that is left after the fee.
Part(e, budget, k) ==
    IF k = Len(e.legs)
      THEN budget - SumFunction([j \in 1 .. k - 1 |-> Share(budget, WeightOf(e.legs, j))])
      ELSE Share(budget, WeightOf(e.legs, k))

Terms(e, raised, got) ==
    LET budget == raised - Share(raised, e.feeBps)
    IN  /\ raised >= e.inputAmount
                       + SumFunction([x \in DOMAIN e.exits |-> e.exits[x].minOut])
        /\ e.exits = << >> => raised = e.inputAmount
        /\ raised = 0 => e.onboard
        /\ e.maxNotional /= 0 => raised <= e.maxNotional
        /\ e.feeBps <= e.maxFeeBps
        /\ DOMAIN got = DOMAIN e.legs
        /\ \A k \in DOMAIN got :
              IF Part(e, budget, k) = 0 THEN got[k] = 0
              ELSE got[k] >= e.legs[k].minOut /\ got[k] >= e.guaranteedOut[k]

Exchanged(b, e, raised, got) ==
    LET fee   == Share(raised, e.feeBps)
        taken == Share(fee, feeTakerBps)
        gain(a, t) ==
           (IF a = e.recipient THEN Bought(e, got, t) ELSE 0)
           + (IF a = feeTaker /\ t = e.inputToken THEN taken ELSE 0)
           + (IF a = e.solver /\ t = e.inputToken THEN fee - taken ELSE 0)
           - (IF a = e.owner THEN Given(e, t) ELSE 0)
    IN  [a \in Account |-> [t \in Token |-> b[a][t] + gain(a, t)]]

exchangeVars == <<balance, terms, outcome, feeTaker, feeTakerBps>>

Init == outcome = [i \in Intent |-> << >>]

Settles(i) ==
    /\ outcome[i] = << >>
    /\ \E raised \in Notionals :
          /\ Terms(terms[i], raised, outcome'[i])
          /\ balance' = Exchanged(balance, terms[i], raised, outcome'[i])
    /\ outcome' = [outcome EXCEPT ![i] = outcome'[i]]
    /\ UNCHANGED <<terms, feeTaker, feeTakerBps>>

\* Until then the bid may be replaced by another one for the same intent.
Agrees ==
    /\ \A i \in Intent : terms'[i] /= terms[i] => outcome[i] = << >>
    /\ UNCHANGED <<balance, outcome, feeTaker, feeTakerBps>>

\* Whatever else goes on moves tokens from one account to another, and governance
\* changes who takes how much of the fees.
Moves ==
    /\ \E a, b \in Account, t \in Token :
          /\ balance'[a][t] <= balance[a][t]
          /\ balance' = Transferred(balance, a, b, t, balance[a][t] - balance'[a][t])
    /\ UNCHANGED <<terms, outcome, feeTaker, feeTakerBps>>

Governs == UNCHANGED <<balance, terms, outcome>>

Next == (\E i \in Intent : Settles(i)) \/ Agrees \/ Moves \/ Governs

Spec == Init /\ [][Next]_exchangeVars
=============================================================================
