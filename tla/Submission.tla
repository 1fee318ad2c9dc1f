------------------------------ MODULE Submission ------------------------------
(***************************************************************************)
(* How intents get declared: by the owner's own transaction, or by anybody *)
(* who holds a Submit message the owner or its session key signed; and how *)
(* a session is authorized, by the owner or by a signed message, and       *)
(* revoked.  A signed message may reach the chain at any later time, twice *)
(* or never.  The owner's client asks the relay first and falls back on a  *)
(* transaction of its own when the relay does not answer in time.          *)
(*                                                                         *)
(* Outcome, policy and salt are one value: what is declared.  What becomes *)
(* of an intent once it is open is IntentRegistry's; signatures are taken  *)
(* to be what they recover to.                                             *)
(***************************************************************************)
EXTENDS Integers, Sequences, FiniteSets

CONSTANTS
    Owner,
    Key,            \* accounts that may be given a session
    Kind,
    Request,        \* what clients ask for: owner, kind and a name
    Grant,          \* sessions owners may authorize: key, expiresAt, kinds
    Window,         \* seconds from a draft's timing to the close of its auction
    MIN_AUCTION_WINDOW,
    NoKey,          \* stands for the zero address
    MaxTime,        \* bound: the clock
    MaxOwnerCalls   \* bound: what owners sign or call about their sessions

ASSUME SubmissionAssumption ==
    /\ Key \cap Owner = {} /\ NoKey \notin Key \cup Owner
    /\ \A q \in Request : q.owner \in Owner /\ q.kind \in Kind
    /\ \A g \in Grant : g.key \in Key /\ g.expiresAt \in Nat /\ g.kinds \subseteq Kind
    /\ Window \in Nat /\ MIN_AUCTION_WINDOW \in Nat /\ MaxTime \in Nat
    /\ MaxOwnerCalls \in Nat

VARIABLES
    now,
    nonces, sessionNonces,
    sessions,       \* the one session of every owner
    intents,        \* what was declared, in order
    messages,       \* Submit messages owners signed
    grants,         \* session messages owners signed
    used,           \* the session messages that were applied, in order
    asked,          \* what each request's client is doing
    ownerCalls      \* counted for its bound

clientVars == <<now, nonces, sessionNonces, sessions, intents, messages, grants, used, asked,
                ownerCalls>>

SubmissionInit ==
    /\ now           = 0
    /\ nonces        = [o \in Owner |-> 0]
    /\ sessionNonces = [o \in Owner |-> 0]
    /\ sessions      = [o \in Owner |->
          [key |-> NoKey, expiresAt |-> 0, kinds |-> {}, revoked |-> FALSE]]
    /\ intents       = << >>
    /\ messages      = {}
    /\ grants        = {}
    /\ used          = << >>
    /\ asked         = [q \in Request |-> "new"]
    /\ ownerCalls    = 0

-----------------------------------------------------------------------------
(* The registry. *)

\* _checkOwnerSig: the owner's own signature, or its session key's within scope.
SignerMay(m) ==
    \/ m.signer = m.owner
    \/ LET s == sessions[m.owner]
       IN  /\ m.signer = s.key
           /\ ~s.revoked
           /\ s.expiresAt >= now
           /\ s.kinds = {} \/ m.kind \in s.kinds

\* Broken, for a mutant: an intent that is there already is opened again.
CanOpen_Again(m) == m.closes >= now + MIN_AUCTION_WINDOW

\* A job's draft has a salt of its own, a request's keeps the one it has.
IsOpen(m) ==
    /\ m.what[1] = "request"
    /\ \E n \in DOMAIN intents : intents[n].what = m.what /\ intents[n].closes = m.closes

\* _open refuses what is declared already and an auction that closes too soon.
CanOpen(m) == ~IsOpen(m) /\ m.closes >= now + MIN_AUCTION_WINDOW

\* The nonce is part of what was signed.
CanSubmitFor(m) == m.nonce = nonces[m.owner] /\ SignerMay(m) /\ CanOpen(m)

Opened(m) ==
    Append(intents, [owner |-> m.owner, what |-> m.what, nonce |-> m.nonce,
                     closes |-> m.closes, at |-> now])

\* Broken, for a mutant: only the session key's messages use up a nonce.
NoncesAfter_OwnerFree(m) ==
    IF m.signer = m.owner THEN nonces ELSE [nonces EXCEPT ![m.owner] = @ + 1]

NoncesAfter(m) == [nonces EXCEPT ![m.owner] = @ + 1]

Message(owner, signer, kind, what, closes, nonce) ==
    [owner |-> owner, signer |-> signer, kind |-> kind, what |-> what,
     closes |-> closes, nonce |-> nonce]

\* Anybody hands in a message the owner signed.
SubmitFor(m) ==
    /\ m \in messages
    /\ CanSubmitFor(m)
    /\ intents' = Opened(m)
    /\ nonces' = NoncesAfter(m)
    /\ UNCHANGED <<now, sessionNonces, sessions, messages, grants, used, asked, ownerCalls>>

OwnerCalls ==
    /\ ownerCalls < MaxOwnerCalls
    /\ ownerCalls' = ownerCalls + 1

Session(g) ==
    [key |-> g.key, expiresAt |-> g.expiresAt, kinds |-> g.kinds, revoked |-> FALSE]

\* The owner calls: no nonce is used up, so a message signed before stays good.
AuthorizeSession(o, g) ==
    /\ g.expiresAt > now
    /\ sessions' = [sessions EXCEPT ![o] = Session(g)]
    /\ OwnerCalls
    /\ UNCHANGED <<now, nonces, sessionNonces, intents, messages, grants, used, asked>>

\* Anybody hands in a session message.
AuthorizeSessionFor(s) ==
    /\ s \in grants
    /\ s.grant.expiresAt > now
    /\ s.nonce = sessionNonces[s.owner]
    /\ sessionNonces' = [sessionNonces EXCEPT ![s.owner] = @ + 1]
    /\ sessions' = [sessions EXCEPT ![s.owner] = Session(s.grant)]
    /\ used' = Append(used, s)
    /\ UNCHANGED <<now, nonces, intents, messages, grants, asked, ownerCalls>>

RevokeSession(o) ==
    /\ sessions' = [sessions EXCEPT ![o].revoked = TRUE]
    /\ OwnerCalls
    /\ UNCHANGED <<now, nonces, sessionNonces, intents, messages, grants, used, asked>>

-----------------------------------------------------------------------------
(* The owner's client. *)

SignSession(o, g) ==
    /\ grants' = grants \cup {[owner |-> o, grant |-> g, nonce |-> sessionNonces[o]]}
    /\ OwnerCalls
    /\ UNCHANGED <<now, nonces, sessionNonces, sessions, intents, messages, used, asked>>

\* submitIntentGasless: the draft is timed and signed and goes to the relay.
AskRelay(q) ==
    /\ asked[q] = "new"
    /\ asked' = [asked EXCEPT ![q] = "relay"]
    /\ messages' = messages \cup
          {Message(q.owner, q.owner, q.kind, <<"request", q>>, now + Window,
                   nonces[q.owner])}
    /\ UNCHANGED <<now, nonces, sessionNonces, sessions, intents, grants, used, ownerCalls>>

Declarations(sort, x) == {n \in DOMAIN intents : intents[n].what = <<sort, x>>}

\* The relay answers with the transaction.
RelayAnswers(q) ==
    /\ asked[q] = "relay"
    /\ Declarations("request", q) /= {}
    /\ asked' = [asked EXCEPT ![q] = "done"]
    /\ UNCHANGED <<now, nonces, sessionNonces, sessions, intents, messages, grants, used, ownerCalls>>

\* The relay fails, or does not answer though it may yet deliver: the client times
\* the draft anew and submits it itself (submit takes no nonce).
FallBack(q) ==
    LET m == Message(q.owner, q.owner, q.kind, <<"request", q>>,
                     now + Window, -1)
    IN  /\ asked[q] = "relay"
        /\ asked' = [asked EXCEPT ![q] = "done"]
        /\ intents' = IF CanOpen(m) THEN Opened(m) ELSE intents
        /\ UNCHANGED <<now, nonces, sessionNonces, sessions, messages, grants, used, ownerCalls>>

Tick ==
    /\ now < MaxTime
    /\ now' = now + 1
    /\ UNCHANGED <<nonces, sessionNonces, sessions, intents, messages, grants, used, asked, ownerCalls>>

ClientStep ==
    \/ \E m \in messages : SubmitFor(m)
    \/ \E s \in grants : AuthorizeSessionFor(s)
    \/ \E o \in Owner, g \in Grant : AuthorizeSession(o, g) \/ SignSession(o, g)
    \/ \E o \in Owner : RevokeSession(o)
    \/ \E q \in Request : AskRelay(q) \/ RelayAnswers(q) \/ FallBack(q)
    \/ Tick

-----------------------------------------------------------------------------
(* Properties. *)

\* Nothing signed counts twice: two intents of one owner never come from messages
\* with one nonce, whoever signed them and however late they are handed in, and no
\* session message is applied twice (submitFor, authorizeSession).
SignatureCountsOnce ==
    /\ \A n, k \in DOMAIN intents :
          n /= k /\ intents[n].owner = intents[k].owner /\ intents[n].nonce /= -1
          => intents[n].nonce /= intents[k].nonce
    /\ \A n, k \in DOMAIN used :
          n /= k /\ used[n].owner = used[k].owner => used[n].nonce /= used[k].nonce

\* A request is declared twice only through the relay and its client's fallback,
\* and then the two close at different times, as the draft was timed anew in
\* between (IntentExists; agent.ts).
SecondDeclarationIsTheFallback ==
    \A q \in Request : \A n, k \in Declarations("request", q) :
       n /= k => /\ Cardinality(Declarations("request", q)) = 2
                 /\ intents[n].nonce = -1 <=> intents[k].nonce /= -1
                 /\ intents[n].closes /= intents[k].closes
=============================================================================
