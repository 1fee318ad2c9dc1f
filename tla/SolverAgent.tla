------------------------------ MODULE SolverAgent ------------------------------
(***************************************************************************)
(* The solver agent: a process that on every interval passes over the feed *)
(* of servable intents, bids on the open ones and settles the ones it won. *)
(* A pass does not wait for the one before it.  Each call is simulated     *)
(* first, sent when that went well, and waited for; the account's          *)
(* transactions land in the order they were sent.  The process may be      *)
(* restarted, which empties its memory but not what it has sent.           *)
(*                                                                         *)
(* The other side is IntentMarket, what the intent registry is shown to    *)
(* promise.  Whether there is a plan, a lane or a standing condition for a *)
(* bid, and whether a settlement succeeds, is the market's choice: see     *)
(* Planner and Settlement.  When the registries refuse the report of a     *)
(* failure is the market's choice as well: SolverRegistry has the reasons. *)
(***************************************************************************)
EXTENDS Integers, Sequences, FiniteSets

CONSTANTS
    Intent, Solver, Nil,
    Me,                 \* the agent's account
    AuctionEnds, Deadline,
    MaxTime,            \* bound: the clock
    MaxPasses,          \* bound: passes running at a time
    MaxSelections,      \* bound: selections of one intent
    MaxDisturbances     \* bound: restarts, give-ups, challenges and refusals

ASSUME SolverAgentAssumption ==
    /\ Me \in Solver
    /\ Nil \notin Solver \cup Intent
    /\ AuctionEnds \in Nat /\ Deadline \in Nat /\ AuctionEnds < Deadline
    /\ {MaxTime, MaxPasses, MaxSelections, MaxDisturbances} \subseteq Nat

Pass == 1 .. MaxPasses
Nobody == 0

VARIABLES
    phase, engaged, due, clock, kept, missed,   \* the registry's side
    placed,         \* per intent, the agent's bids on the book
    selections,     \* per intent, how often a winner was selected
    barred,         \* the intents whose failure cannot be recorded
    bidded, settling,   \* the agent's memory
    passes,         \* where each pass is
    mempool,        \* the agent's transactions under way, in order
    tried,          \* the selections a settlement was tried for
    untried,        \* per intent, misses of selections none was tried for
    staleActs,      \* settlements begun on a record that had changed
    overlapped, restarts, giveUps, challenges, refusals

marketVars == <<phase, engaged, due, clock, kept, missed>>
bookVars   == <<placed, selections, barred>>
memoryVars == <<bidded, settling>>
faultVars  == <<overlapped, restarts, giveUps, challenges, refusals>>
ghostVars  == <<tried, untried, staleActs>>
vars == <<marketVars, bookVars, memoryVars, passes, mempool, ghostVars, faultVars>>

Market == INSTANCE IntentMarket

\* What a pass knows of the intent it is at.
NoRecord == [phase |-> "NONE", engaged |-> Nil, selection |-> 0]
Idle == [pc |-> "idle", todo |-> {}, at |-> Nil, clock |-> 0, record |-> NoRecord]

RecordOf(i) == [phase |-> phase[i], engaged |-> engaged[i], selection |-> selections[i]]

EngagedToMe(i) == phase[i] = "SELECTED" /\ engaged[i] = Me

Init ==
    /\ phase   = [i \in Intent |-> "OPEN"]
    /\ engaged = [i \in Intent |-> Nil]
    /\ due     = [i \in Intent |-> Deadline]
    /\ clock   = 0
    /\ kept    = [s \in Solver |-> 0]
    /\ missed  = [s \in Solver |-> 0]
    /\ placed  = [i \in Intent |-> 0]
    /\ selections = [i \in Intent |-> 0]
    /\ barred  = {}
    /\ bidded  = {}
    /\ settling = {}
    /\ passes  = [p \in Pass |-> Idle]
    /\ mempool = << >>
    /\ tried   = {}
    /\ untried = [i \in Intent |-> 0]
    /\ staleActs = 0
    /\ overlapped = FALSE
    /\ restarts = 0
    /\ giveUps  = 0
    /\ challenges = 0
    /\ refusals = 0

MayDisturb == restarts + giveUps + challenges + refusals < MaxDisturbances

-----------------------------------------------------------------------------
(* A pass over the feed. *)

At(p, pc) == [passes EXCEPT ![p].pc = pc]

\* On to the next intent; without one the pass is over.
Onward(p) ==
    [passes EXCEPT ![p] = IF @.todo = {} THEN Idle
                          ELSE [@ EXCEPT !.pc = "next", !.at = Nil, !.record = NoRecord]]

\* Broken, for a mutant: only the open intents are fed.
Servable_Open(i) == phase[i] = "OPEN"

\* The feed: open intents and selected ones that are not at their deadline yet.
Servable(i) == phase[i] = "OPEN" \/ (phase[i] = "SELECTED" /\ due[i] > clock)

\* The timer, and the reads at the head of tick: the feed, and the clock once for
\* the whole pass.
StartPass(p) ==
    LET feed == {i \in Intent : Servable(i)}
    IN  /\ passes[p].pc = "idle"
        /\ \A q \in 1 .. p - 1 : passes[q].pc /= "idle"
        /\ feed /= {}
        /\ passes' = [passes EXCEPT ![p] = [Idle EXCEPT !.pc = "next", !.todo = feed,
                                                        !.clock = clock]]
        /\ overlapped' = (overlapped \/ \E q \in Pass : passes[q].pc /= "idle")
        /\ UNCHANGED <<marketVars, bookVars, memoryVars, mempool, ghostVars,
                       restarts, giveUps, challenges, refusals>>

\* consider begins with a read of the record.
Read(p, i) ==
    /\ passes[p].pc = "next"
    /\ i \in passes[p].todo
    /\ passes' = [passes EXCEPT ![p] = [@ EXCEPT !.pc = "read", !.at = i,
                     !.todo = passes[p].todo \ {i}, !.record = RecordOf(i)]]
    /\ UNCHANGED <<marketVars, bookVars, memoryVars, mempool, ghostVars, faultVars>>

\* Broken, for a mutant: the bids already placed are not remembered.
MayBid_Forgets(p) ==
    passes[p].record.phase = "OPEN" /\ passes[p].clock <= AuctionEnds

MayBid(p) ==
    /\ passes[p].record.phase = "OPEN"
    /\ passes[p].at \notin bidded
    /\ passes[p].clock <= AuctionEnds

\* Broken, for a mutant: a settlement under way is not looked for.
MaySettle_Twice(p) ==
    passes[p].record.phase = "SELECTED" /\ passes[p].record.engaged = Me

MaySettle(p) ==
    /\ passes[p].record.phase = "SELECTED"
    /\ passes[p].record.engaged = Me
    /\ passes[p].at \notin settling

\* The answer is there: the record it holds may be an old one by now.
BeginSettle(p) ==
    /\ passes[p].pc = "read"
    /\ MaySettle(p)
    /\ settling' = settling \cup {passes[p].at}
    /\ passes' = At(p, "settle")
    /\ staleActs' = IF passes[p].record = RecordOf(passes[p].at) THEN staleActs
                    ELSE staleActs + 1
    /\ UNCHANGED <<marketVars, bookVars, bidded, mempool, tried, untried, faultVars>>

BeginBid(p) ==
    /\ passes[p].pc = "read"
    /\ MayBid(p)
    /\ passes' = At(p, "bid")
    /\ UNCHANGED <<marketVars, bookVars, memoryVars, mempool, ghostVars, faultVars>>

PassOver(p) ==
    /\ passes[p].pc = "read"
    /\ ~MaySettle(p) /\ ~MayBid(p)
    /\ passes' = Onward(p)
    /\ UNCHANGED <<marketVars, bookVars, memoryVars, mempool, ghostVars, faultVars>>

-----------------------------------------------------------------------------
(* Calls.  write simulates on the chain as it is, sends, and waits. *)

CanBid(i)    == phase[i] = "OPEN" /\ clock <= AuctionEnds
CanSettle(i) == EngagedToMe(i) /\ clock <= due[i]
CanReport(i) == EngagedToMe(i) /\ i \notin barred

Send(p, call) == Append(mempool, [by |-> p, call |-> call, at |-> passes[p].at])

\* The lanes, the conditions and the planner decide; a call that would revert is
\* not sent.
PlaceBid(p) ==
    /\ passes[p].pc = "bid"
    /\ \/ /\ CanBid(passes[p].at)
          /\ mempool' = Send(p, "placeBid")
          /\ passes'  = At(p, "bidSent")
       \/ /\ passes'  = Onward(p)
          /\ UNCHANGED mempool
    /\ UNCHANGED <<marketVars, bookVars, memoryVars, ghostVars, faultVars>>

\* A settlement was planned, simulated or landed for the selection there is.
Tried(i) == IF EngagedToMe(i) THEN tried \cup {<<i, selections[i]>>} ELSE tried

\* Without a plan the intent is given back; a simulation that fails is an error.
Settle(p) ==
    LET i == passes[p].at
    IN  /\ passes[p].pc = "settle"
        /\ \/ /\ CanSettle(i)
              /\ mempool' = Send(p, "settle")
              /\ passes'  = At(p, "settleSent")
           \/ /\ passes' \in {At(p, "giveBack"), At(p, "handBack")}
              /\ UNCHANGED mempool
        /\ tried' = Tried(i)
        /\ UNCHANGED <<marketVars, bookVars, memoryVars, untried, staleActs, faultVars>>

\* Broken, for a mutant: no finally.
SettlingAfter_Kept(p) == settling

\* finally.
SettlingAfter(p) == settling \ {passes[p].at}

\* The report of a failure, from the plan that was not there or from the catch.
\* One that would revert is an error: the first is caught and leads to the second,
\* the second is swallowed.
Report(p) ==
    LET i == passes[p].at
    IN  /\ passes[p].pc \in {"giveBack", "handBack"}
        /\ IF CanReport(i)
             THEN /\ mempool' = Send(p, "reportFailure")
                  /\ passes'  = At(p, IF passes[p].pc = "giveBack" THEN "giveBackSent"
                                      ELSE "handBackSent")
                  /\ UNCHANGED settling
             ELSE /\ IF passes[p].pc = "giveBack"
                       THEN passes' = At(p, "handBack") /\ UNCHANGED settling
                       ELSE passes' = Onward(p) /\ settling' = SettlingAfter(p)
                  /\ UNCHANGED mempool
        /\ UNCHANGED <<marketVars, bookVars, bidded, ghostVars, faultVars>>

-----------------------------------------------------------------------------
(* How calls end. *)

\* The pass that waits for a call, if one still does, learns that it went well or
\* that it did not.
Succeeds(p) ==
    IF p = Nobody THEN UNCHANGED <<passes, memoryVars>>
    ELSE /\ passes' = Onward(p)
         /\ bidded' = IF passes[p].pc = "bidSent" THEN bidded \cup {passes[p].at} ELSE bidded
         /\ settling' = IF passes[p].pc = "bidSent" THEN settling ELSE SettlingAfter(p)

Fails(p) ==
    IF p = Nobody THEN UNCHANGED <<passes, memoryVars>>
    ELSE /\ passes' = IF passes[p].pc \in {"settleSent", "giveBackSent"}
                        THEN At(p, "handBack") ELSE Onward(p)
         /\ settling' = IF passes[p].pc = "handBackSent" THEN SettlingAfter(p) ELSE settling
         /\ UNCHANGED bidded

Lands(call) == mempool /= << >> /\ Head(mempool).call = call /\ mempool' = Tail(mempool)

LandBid ==
    LET c == Head(mempool)
    IN  /\ Lands("placeBid")
        /\ IF CanBid(c.at)
             THEN placed' = [placed EXCEPT ![c.at] = @ + 1] /\ Succeeds(c.by)
             ELSE UNCHANGED placed /\ Fails(c.by)
        /\ UNCHANGED <<marketVars, selections, barred, ghostVars, faultVars>>

\* The market may have moved since the simulation.
LandSettle ==
    LET c == Head(mempool)
    IN  /\ Lands("settle")
        /\ \/ CanSettle(c.at) /\ Market!Keep(c.at) /\ Succeeds(c.by)
           \/ UNCHANGED marketVars /\ Fails(c.by)
        /\ tried' = Tried(c.at)
        /\ UNCHANGED <<bookVars, untried, staleActs, faultVars>>

LandReport ==
    LET c == Head(mempool)
    IN  /\ Lands("reportFailure")
        /\ IF CanReport(c.at)
             THEN /\ Market!Miss(c.at)
                  /\ phase'[c.at] = "OPEN"
                  /\ untried' = IF <<c.at, selections[c.at]>> \in tried THEN untried
                                ELSE [untried EXCEPT ![c.at] = @ + 1]
                  /\ Succeeds(c.by)
             ELSE UNCHANGED <<marketVars, untried>> /\ Fails(c.by)
        /\ UNCHANGED <<bookVars, tried, staleActs, faultVars>>

Forgotten(P) ==
    [n \in DOMAIN mempool |-> IF mempool[n].by \in P THEN [mempool[n] EXCEPT !.by = Nobody]
                              ELSE mempool[n]]

\* The receipt does not come in time: an error like any other.
GiveUp(p) ==
    /\ MayDisturb
    /\ passes[p].pc \in {"bidSent", "settleSent", "giveBackSent", "handBackSent"}
    /\ Fails(p)
    /\ mempool' = Forgotten({p})
    /\ giveUps' = giveUps + 1
    /\ UNCHANGED <<marketVars, bookVars, ghostVars, overlapped, restarts, challenges, refusals>>

Restart ==
    /\ MayDisturb
    /\ passes'   = [p \in Pass |-> Idle]
    /\ bidded'   = {}
    /\ settling' = {}
    /\ mempool'  = Forgotten(Pass)
    /\ restarts' = restarts + 1
    /\ UNCHANGED <<marketVars, bookVars, ghostVars, overlapped, giveUps, challenges, refusals>>

-----------------------------------------------------------------------------
(* The others, through the registry: selectors, other solvers, owners. *)

agentVars == <<memoryVars, passes, mempool, ghostVars, overlapped, restarts, giveUps>>

\* Of the agent's bids one is selected; the others always have some.
SelectWinner(i, s) ==
    /\ clock >= AuctionEnds
    /\ s = Me => placed[i] > 0
    /\ selections[i] < MaxSelections
    /\ Market!Engage(i, s)
    /\ selections' = [selections EXCEPT ![i] = @ + 1]
    /\ UNCHANGED <<agentVars, placed, barred, challenges, refusals>>

\* The register stops taking reports of the agent on i: a slash for another intent
\* has struck it off, the registry is no reporter any more, or the one to be paid
\* from the slash refuses ether.
Bar(i) ==
    /\ MayDisturb
    /\ i \notin barred
    /\ barred' = barred \cup {i}
    /\ refusals' = refusals + 1
    /\ UNCHANGED <<agentVars, marketVars, placed, selections, challenges>>

\* It takes them again: all three may be put right.
Unbar(i) ==
    /\ i \in barred
    /\ barred' = barred \ {i}
    /\ UNCHANGED <<agentVars, marketVars, placed, selections, challenges, refusals>>

ChallengeSelection(i) ==
    /\ MayDisturb
    /\ Market!Excuse(i)
    /\ phase'[i] = "OPEN"
    /\ challenges' = challenges + 1
    /\ UNCHANGED <<agentVars, bookVars, refusals>>

OthersEnd(i) ==
    /\ engaged[i] /= Me
    /\ Market!Keep(i) \/ Market!Miss(i)
    /\ UNCHANGED <<agentVars, bookVars, challenges, refusals>>

Retire(i) ==
    /\ \/ Market!Excuse(i) /\ phase'[i] = "CANCELLED"
       \/ Market!Miss(i) /\ phase'[i] = "EXPIRED"
       \/ Market!Drop(i)
    /\ UNCHANGED <<agentVars, bookVars, challenges, refusals>>

Tick ==
    /\ clock < MaxTime
    /\ Market!Pass
    /\ UNCHANGED <<agentVars, bookVars, challenges, refusals>>

AgentStep(p) ==
    \/ StartPass(p)
    \/ \E i \in Intent : Read(p, i)
    \/ BeginSettle(p) \/ BeginBid(p) \/ PassOver(p)
    \/ PlaceBid(p) \/ Settle(p) \/ Report(p)

Land == LandBid \/ LandSettle \/ LandReport

Next ==
    \/ \E p \in Pass : AgentStep(p) \/ GiveUp(p)
    \/ Land \/ Restart
    \/ \E i \in Intent :
          \/ \E s \in Solver : SelectWinner(i, s)
          \/ Bar(i) \/ Unbar(i)
          \/ ChallengeSelection(i) \/ OthersEnd(i) \/ Retire(i)
    \/ Tick

Spec == Init /\ [][Next]_vars

\* The timer goes on, calls return and transactions land.
FairSpec == Spec /\ (\A p \in Pass : WF_vars(AgentStep(p))) /\ WF_vars(Land)

-----------------------------------------------------------------------------
(* Properties. *)

Sent == {"bidSent", "settleSent", "giveBackSent", "handBackSent"}
InSettlement == {"settle", "settleSent", "giveBack", "giveBackSent", "handBack", "handBackSent"}

AgentTypeOK ==
    /\ phase \in [Intent -> {"OPEN", "SELECTED", "FULFILLED", "CANCELLED", "EXPIRED"}]
    /\ engaged \in [Intent -> Solver \cup {Nil}]
    /\ placed \in [Intent -> Nat] /\ selections \in [Intent -> 0 .. MaxSelections]
    /\ barred \subseteq Intent
    /\ bidded \subseteq Intent
    /\ \A p \in Pass :
          /\ passes[p].pc \in {"idle", "next", "read", "bid"} \cup Sent \cup InSettlement
          /\ passes[p].pc \in {"idle", "next"} <=> passes[p].at = Nil
          /\ passes[p].pc \in Sent <=>
                Cardinality({n \in DOMAIN mempool : mempool[n].by = p}) = 1
    /\ settling = {passes[p].at : p \in {q \in Pass : passes[q].pc \in InSettlement}}

\* One bid on an intent is enough, and is all the agent places while its passes run
\* one after the other, its process lives and its receipts come: bidded is set only
\* once the bid has landed.
OneBidUnlessDisturbed ==
    ~overlapped /\ restarts + giveUps = 0 => \A i \in Intent : placed[i] <= 1

\* The agent reports, and pays for, the failure of a selection it tried to settle;
\* a report that hits another, later selection of the same intent takes a restart,
\* a receipt that was given up, a challenge, or a pass that acted on an old record.
\* That passes overlap is not enough: settling keeps them apart.  Intent by intent,
\* for one restart may send a report of each of them astray.
UntriedMissesHaveACause ==
    \A i \in Intent : untried[i] <= restarts + giveUps + challenges + staleActs

\* An intent that is the agent's is settled or given back, not held on to until its
\* deadline: whatever was lost in between, a later pass finds it.  Only while the
\* register refuses its reports is the agent stuck with it, and once they are taken
\* for good the next pass ends the matter.
WonIntentsMoveOn ==
    \A i \in Intent :
       <>[](i \notin barred) => (EngagedToMe(i) ~> (~EngagedToMe(i) \/ clock >= due[i]))
=============================================================================
