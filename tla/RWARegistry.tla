----------------------------- MODULE RWARegistry -----------------------------
(***************************************************************************)
(* The register of attested assets: who may attest, which tokens carry an  *)
(* attestation and until when it is good, and the onboarding requests that *)
(* wait for one.  One action is one transaction.                           *)
(*                                                                         *)
(* Abstracted: the class, symbol, reference and document of an asset, who  *)
(* attested it and when, which no guard reads; the list of tokens ever     *)
(* attested, which only views return.                                      *)
(***************************************************************************)
EXTENDS Naturals, Sequences

CONSTANTS
    Token,
    Subject,        \* the tokens attestors and issuers act on
    Attestor,       \* accounts governance may make attestors
    ReviewDates,    \* the review dates attestors give; 0 is none
    MaxTime,        \* bound: the clock
    MaxRequests     \* bound: onboarding requests

ASSUME RWARegistryAssumption ==
    /\ Subject \subseteq Token
    /\ ReviewDates \subseteq Nat
    /\ MaxTime \in Nat
    /\ MaxRequests \in Nat

VARIABLES
    attestations,   \* _attestations
    isAttestor,
    requests,       \* _requests
    now             \* block.timestamp

rwaVars == <<attestations, isAttestor, requests, now>>

Attestation == [active : BOOLEAN, reviewBy : Nat]
Request     == [token : Token, resolved : BOOLEAN]

RwaInit ==
    /\ attestations = [t \in Token |-> [active |-> FALSE, reviewBy |-> 0]]
    /\ isAttestor   = [a \in Attestor |-> FALSE]
    /\ requests     = << >>
    /\ now          = 0

\* True when the token carries a live attestation that is not stale.
IsAttested(t) ==
    /\ attestations[t].active
    /\ attestations[t].reviewBy /= 0 => now <= attestations[t].reviewBy

Attest(a, t, reviewBy) ==
    /\ isAttestor[a]
    /\ attestations' = [attestations EXCEPT ![t] = [active |-> TRUE, reviewBy |-> reviewBy]]
    /\ UNCHANGED <<isAttestor, requests, now>>

\* Any attestor may revoke what another attested; the review date is left.
Revoke(a, t) ==
    /\ isAttestor[a]
    /\ attestations' = [attestations EXCEPT ![t].active = FALSE]
    /\ UNCHANGED <<isAttestor, requests, now>>

\* The requests after one more for each of the tokens, in order.
Filed(tokens) ==
    requests \o [k \in DOMAIN tokens |-> [token |-> tokens[k], resolved |-> FALSE]]

RequestOnboarding(t) ==
    /\ Len(requests) < MaxRequests
    /\ requests' = Filed(<<t>>)
    /\ UNCHANGED <<attestations, isAttestor, now>>

\* Resolving closes a request under the token it ended in, attested or not,
\* again if it was resolved before; it attests nothing itself.
ResolveOnboarding(a, n, t) ==
    /\ isAttestor[a]
    /\ n \in DOMAIN requests
    /\ requests' = [requests EXCEPT ![n] = [token |-> t, resolved |-> TRUE]]
    /\ UNCHANGED <<attestations, isAttestor, now>>

SetAttestor(a, allowed) ==
    /\ isAttestor' = [isAttestor EXCEPT ![a] = allowed]
    /\ UNCHANGED <<attestations, requests, now>>

Tick ==
    /\ now < MaxTime
    /\ now' = now + 1
    /\ UNCHANGED <<attestations, isAttestor, requests>>

RwaStep ==
    \/ \E a \in Attestor, t \in Subject :
          \/ \E reviewBy \in ReviewDates : Attest(a, t, reviewBy)
          \/ Revoke(a, t)
          \/ \E n \in DOMAIN requests : ResolveOnboarding(a, n, t)
    \/ \E t \in Subject : RequestOnboarding(t)
    \/ \E a \in Attestor, allowed \in BOOLEAN : SetAttestor(a, allowed)
    \/ Tick

RwaTypeOK ==
    /\ attestations \in [Token -> Attestation]
    /\ isAttestor   \in [Attestor -> BOOLEAN]
    /\ requests     \in Seq(Request)
    /\ now          \in Nat
=============================================================================
