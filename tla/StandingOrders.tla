---------------------------- MODULE StandingOrders ----------------------------
(***************************************************************************)
(* Recurring jobs and the keeper that runs them.  The register keeps when  *)
(* a job is due; a tick of the keeper reads what is due, declares an       *)
(* intent for each job with the session its owner gave the coordinator,    *)
(* and marks the job run: three calls, each on a state of its own.  Ticks  *)
(* are serverless requests: they overlap, die where they stand (the one of *)
(* health.ts is not even waited for), and go on to the next job when a     *)
(* call fails, whose transaction may land later.  The coordinator's        *)
(* transactions land in the order it sent them.                            *)
(*                                                                         *)
(* Of a prompt there is whether it compiles: a parser that fails on one    *)
(* that does is a call that fails.  Nothing is assumed of when ticks run.  *)
(***************************************************************************)
EXTENDS Submission

CONSTANTS
    Coordinator,    \* the keeper's account and key
    MaxTicks,       \* bound: ticks running at a time
    Cap,            \* how many due jobs a tick takes on (8)
    JobTerms,       \* the jobs that get created, in order, and whether their prompts compile
    MaxDisturbances \* bound: deaths, failed calls, overlaps and calls of owners

ASSUME StandingOrdersAssumption ==
    /\ Coordinator \in Key
    /\ Cap \in Nat \ {0}
    /\ JobTerms \in Seq([owner : Owner, kind : Kind, every : Nat \ {0}, maxRuns : Nat,
                         compiles : BOOLEAN])
    /\ MaxTicks \in Nat /\ MaxDisturbances \in Nat

KeeperTick == 1 .. MaxTicks
Job        == 1 .. Len(JobTerms)

VARIABLES
    jobs,           \* _jobs
    ticks,          \* where each tick is, and the jobs it has left
    mempool,        \* the coordinator's transactions under way, in order
    marks,          \* per job, markRun calls of its owner that counted
    deaths, giveUps, overlaps

keeperVars == <<jobs, ticks, mempool, marks, deaths, giveUps, overlaps>>
vars == <<clientVars, keeperVars>>

Idle == [pc |-> "idle", due |-> << >>]
Nobody == 0

Init ==
    /\ SubmissionInit
    /\ jobs     = << >>
    /\ ticks    = [t \in KeeperTick |-> Idle]
    /\ mempool  = << >>
    /\ marks    = [j \in Job |-> 0]
    /\ deaths   = 0
    /\ giveUps  = 0
    /\ overlaps = 0

OwnerMarks == Cardinality({p \in Job \X (1 .. MaxDisturbances) : p[2] <= marks[p[1]]})

Disturbances == deaths + giveUps + overlaps + OwnerMarks
MayDisturb == Disturbances < MaxDisturbances

-----------------------------------------------------------------------------
(* RecurringRegistry. *)

IsDue(j) ==
    /\ jobs[j].active
    /\ now >= jobs[j].nextRunAt
    /\ jobs[j].maxRuns /= 0 => jobs[j].runs < jobs[j].maxRuns

DueJobs == {j \in DOMAIN jobs : IsDue(j)}

InOrder(due) == \A n, k \in DOMAIN due : n < k => due[n] < due[k]

\* The first Cap due jobs, in the order they were created: one that is missing comes
\* after a full list.
IsDueIds(due) ==
    /\ InOrder(due)
    /\ \A j \in DueJobs :
          \/ \E n \in DOMAIN due : due[n] = j
          \/ Len(due) = Cap /\ due[Cap] < j

\* create and createFor: no session is asked for, and any prompt will do.
CreateJob ==
    /\ Len(jobs) < Len(JobTerms)
    /\ LET t == JobTerms[Len(jobs) + 1]
       IN  jobs' = Append(jobs, [owner |-> t.owner, kind |-> t.kind, every |-> t.every,
                                 maxRuns |-> t.maxRuns, compiles |-> t.compiles, runs |-> 0,
                                 nextRunAt |-> now + t.every, active |-> TRUE])
    /\ UNCHANGED <<clientVars, ticks, mempool, marks, deaths, giveUps, overlaps>>

CancelJob(j) ==
    /\ jobs[j].active
    /\ jobs' = [jobs EXCEPT ![j].active = FALSE]
    /\ UNCHANGED <<clientVars, ticks, mempool, marks, deaths, giveUps, overlaps>>

\* Broken, for a mutant: a job is not due yet in the second it becomes due.
CanMark_Late(j) ==
    /\ jobs[j].active
    /\ now > jobs[j].nextRunAt
    /\ jobs[j].maxRuns /= 0 => jobs[j].runs < jobs[j].maxRuns

\* A job that is not there cannot be marked, nor read (_job).
CanMark(j) == j \in DOMAIN jobs /\ IsDue(j)

\* Broken, for a mutant: the next run is set from the last one's due date.
JobsAfterRun_FromDueDate(j) ==
    [jobs EXCEPT ![j] = [jobs[j] EXCEPT !.runs = @ + 1,
        !.nextRunAt = @ + jobs[j].every,
        !.active = jobs[j].maxRuns = 0 \/ jobs[j].runs + 1 < jobs[j].maxRuns]]

\* Broken, for a mutant: the last run does not retire the job.
JobsAfterRun_StaysActive(j) ==
    [jobs EXCEPT ![j] = [jobs[j] EXCEPT !.runs = @ + 1, !.nextRunAt = now + jobs[j].every]]

JobsAfterRun(j) ==
    [jobs EXCEPT ![j] = [jobs[j] EXCEPT !.runs = @ + 1,
        !.nextRunAt = now + jobs[j].every,
        !.active = jobs[j].maxRuns = 0 \/ jobs[j].runs + 1 < jobs[j].maxRuns]]

\* An owner marks its own job.
MarkRun(j) ==
    /\ MayDisturb
    /\ CanMark(j)
    /\ jobs' = JobsAfterRun(j)
    /\ marks' = [marks EXCEPT ![j] = @ + 1]
    /\ UNCHANGED <<clientVars, ticks, mempool, deaths, giveUps, overlaps>>

-----------------------------------------------------------------------------
(* A tick of the keeper. *)

JobOf(t) == Head(ticks[t].due)

\* On to the next job; without one the tick is over.
Onward(t) ==
    IF Len(ticks[t].due) = 1 THEN Idle
    ELSE [pc |-> "job", due |-> Tail(ticks[t].due)]

At(t, pc) == [ticks EXCEPT ![t].pc = pc]

\* A new tick is the first that is not running.
StartTick(t) ==
    /\ ticks[t].pc = "idle"
    /\ \A u \in 1 .. t - 1 : ticks[u].pc /= "idle"
    /\ \E n \in 1 .. Cap : \E due \in [1 .. n -> DueJobs] :
          /\ IsDueIds(due)
          /\ ticks' = [ticks EXCEPT ![t] = [pc |-> "job", due |-> due]]
    /\ LET overlap == \E u \in KeeperTick : ticks[u].pc /= "idle"
       IN  /\ overlap => MayDisturb
           /\ overlaps' = IF overlap THEN overlaps + 1 ELSE overlaps
    /\ UNCHANGED <<clientVars, jobs, mempool, marks, deaths, giveUps>>

\* Broken, for a mutant: the nonce is the one of session grants.
KeeperMessage_SessionNonce(t) ==
    LET j == JobOf(t)
    IN  Message(jobs[j].owner, Coordinator, jobs[j].kind, <<"job", j>>, now + Window,
                sessionNonces[jobs[j].owner])

\* readJob and declareFromJob: of the job only its owner and prompt are looked at,
\* not whether it is still active.  A nonce that is used up between its reading
\* and the simulation fails there as it would on landing.
KeeperMessage(t) ==
    LET j == JobOf(t)
    IN  Message(jobs[j].owner, Coordinator, jobs[j].kind, <<"job", j>>, now + Window,
                nonces[jobs[j].owner])

\* parseIntent throws on a prompt that does not compile.
CanDeclare(t) ==
    /\ JobOf(t) \in DOMAIN jobs
    /\ jobs[JobOf(t)].compiles
    /\ CanSubmitFor(KeeperMessage(t))

\* Broken, for a mutant: the receipt is not waited for.
SendSubmit_Unawaited(t) ==
    /\ ticks[t].pc = "job"
    /\ IF CanDeclare(t)
         THEN /\ mempool' = Append(mempool, [by |-> t, call |-> "submitFor", msg |-> KeeperMessage(t)])
              /\ ticks' = At(t, "declared")
         ELSE /\ ticks' = [ticks EXCEPT ![t] = Onward(t)]
              /\ UNCHANGED mempool
    /\ UNCHANGED <<clientVars, jobs, marks, deaths, giveUps, overlaps>>

\* write: a call that fails in simulation is not sent, and the job is left for
\* the next tick.
SendSubmit(t) ==
    /\ ticks[t].pc = "job"
    /\ IF CanDeclare(t)
         THEN /\ mempool' = Append(mempool, [by |-> t, call |-> "submitFor", msg |-> KeeperMessage(t)])
              /\ ticks' = At(t, "submitted")
         ELSE /\ ticks' = [ticks EXCEPT ![t] = Onward(t)]
              /\ UNCHANGED mempool
    /\ UNCHANGED <<clientVars, jobs, marks, deaths, giveUps, overlaps>>

SendMark(t) ==
    /\ ticks[t].pc = "declared"
    /\ IF CanMark(JobOf(t))
         THEN /\ mempool' = Append(mempool, [by |-> t, call |-> "markRun", job |-> JobOf(t)])
              /\ ticks' = At(t, "marked")
         ELSE /\ ticks' = [ticks EXCEPT ![t] = Onward(t)]
              /\ UNCHANGED mempool
    /\ UNCHANGED <<clientVars, jobs, marks, deaths, giveUps, overlaps>>

\* A submission lands, or reverts on what has changed since it was simulated; who
\* waits for it learns which.
LandSubmit ==
    LET c == Head(mempool)  ok == CanSubmitFor(c.msg)
    IN  /\ mempool /= << >>
        /\ c.call = "submitFor"
        /\ intents' = IF ok THEN Opened(c.msg) ELSE intents
        /\ nonces'  = IF ok THEN NoncesAfter(c.msg) ELSE nonces
        /\ mempool' = Tail(mempool)
        /\ ticks' = IF c.by = Nobody \/ ticks[c.by].pc /= "submitted" THEN ticks
                    ELSE IF ok THEN At(c.by, "declared")
                    ELSE [ticks EXCEPT ![c.by] = Onward(c.by)]
        /\ UNCHANGED <<now, sessionNonces, sessions, messages, grants, used, asked, ownerCalls,
                       jobs, marks, deaths, giveUps, overlaps>>

LandMark ==
    LET c == Head(mempool)
    IN  /\ mempool /= << >>
        /\ c.call = "markRun"
        /\ jobs' = IF CanMark(c.job) THEN JobsAfterRun(c.job) ELSE jobs
        /\ mempool' = Tail(mempool)
        /\ ticks' = IF c.by = Nobody THEN ticks ELSE [ticks EXCEPT ![c.by] = Onward(c.by)]
        /\ UNCHANGED <<clientVars, marks, deaths, giveUps, overlaps>>

\* Nobody waits any more for what t sent.
Forgotten(t) ==
    [n \in DOMAIN mempool |->
        IF mempool[n].by = t THEN [mempool[n] EXCEPT !.by = Nobody] ELSE mempool[n]]

\* The request ends, its time being up or its answer sent; what it sent may land.
Die(t) ==
    /\ MayDisturb
    /\ ticks[t].pc /= "idle"
    /\ ticks' = [ticks EXCEPT ![t] = Idle]
    /\ mempool' = Forgotten(t)
    /\ deaths' = deaths + 1
    /\ UNCHANGED <<clientVars, jobs, marks, giveUps, overlaps>>

\* A call that is not the chain's no fails: it cannot be read, simulated or sent, or
\* the receipt of what was sent does not come in time.  The tick goes on all the same.
GiveUp(t) ==
    /\ MayDisturb
    /\ ticks[t].pc /= "idle"
    /\ ticks' = [ticks EXCEPT ![t] = Onward(t)]
    /\ mempool' = Forgotten(t)
    /\ giveUps' = giveUps + 1
    /\ UNCHANGED <<clientVars, jobs, marks, deaths, overlaps>>

KeeperStep ==
    \/ \E t \in KeeperTick :
          \/ StartTick(t) \/ SendSubmit(t) \/ SendMark(t)
          \/ Die(t) \/ GiveUp(t)
    \/ LandSubmit \/ LandMark

RegisterStep ==
    \/ CreateJob
    \/ \E j \in DOMAIN jobs : CancelJob(j) \/ MarkRun(j)

Next == KeeperStep \/ RegisterStep \/ (ClientStep /\ UNCHANGED keeperVars)

Spec == Init /\ [][Next]_vars

-----------------------------------------------------------------------------
(* Properties. *)

StandingTypeOK ==
    /\ now \in 0 .. MaxTime
    /\ nonces \in [Owner -> Nat] /\ sessionNonces \in [Owner -> Nat]
    /\ \A o \in Owner : sessions[o].key \in Key \cup {NoKey} /\ sessions[o].revoked \in BOOLEAN
    /\ asked \in [Request -> {"new", "relay", "done"}]
    /\ \A n \in DOMAIN intents :
          \/ intents[n].what[1] = "request" /\ intents[n].what[2] \in Request
          \/ intents[n].what[1] = "job" /\ intents[n].what[2] \in DOMAIN jobs
    /\ \A j \in DOMAIN jobs : jobs[j].maxRuns /= 0 =>
          /\ jobs[j].runs <= jobs[j].maxRuns
          /\ jobs[j].runs = jobs[j].maxRuns => ~jobs[j].active
    /\ \A t \in KeeperTick :
          /\ ticks[t].pc \in {"idle", "job", "submitted", "declared", "marked"}
          /\ ticks[t].pc = "idle" <=> ticks[t].due = << >>
          /\ Len(ticks[t].due) <= Cap
    /\ \A n \in DOMAIN mempool : mempool[n].by \in KeeperTick \cup {Nobody}

Declared(j) == Cardinality(Declarations("job", j))

\* No run is on the books that nobody declared: every run the keeper marked follows
\* a declaration of its own that landed, whatever ticks died or overlapped
\* (recurring.ts declares, waits, and marks).
NoRunWithoutDeclaration ==
    \A j \in DOMAIN jobs : jobs[j].runs <= Declared(j) + marks[j]

\* Declarations of j that are not marked yet but will be tried.
UnderWay(j) ==
    Cardinality({t \in KeeperTick :
        /\ ticks[t].pc \in {"declared", "marked"}
        /\ JobOf(t) = j})

Cancelled(j) ==
    ~jobs[j].active /\ (jobs[j].maxRuns = 0 \/ jobs[j].runs < jobs[j].maxRuns)

\* A job is declared more often than it is marked, or than its maxRuns, only by as
\* many times as a tick died, had a call fail or overlapped another one, the
\* owner marked the job itself, or cancelled it under a running tick.
ExtraRunsHaveACause ==
    \A j \in DOMAIN jobs :
       LET causes == Disturbances + (IF Cancelled(j) THEN 1 ELSE 0)
       IN  /\ Declared(j) <= jobs[j].runs + UnderWay(j) + causes
           /\ jobs[j].maxRuns /= 0 => Declared(j) <= jobs[j].maxRuns + causes

\* One declaration per period, as long as ticks run alone and to their end and the
\* owner leaves the marking to the keeper.
OncePerPeriodUndisturbed ==
    Disturbances = 0 =>
       \A j \in DOMAIN jobs : \A n, k \in Declarations("job", j) :
          n < k => intents[k].at >= intents[n].at + jobs[j].every

SessionCovers(j) ==
    LET s == sessions[jobs[j].owner]
    IN  /\ s.key = Coordinator /\ ~s.revoked /\ s.expiresAt >= now
        /\ s.kinds = {} \/ jobs[j].kind \in s.kinds

\* A tick is full before it gets to j.
CrowdedOut(j) == Cardinality({i \in 1 .. j - 1 : IsDue(i)}) >= Cap

\* A tick comes to the end of its list.
RunsThrough(t) == ticks[t].pc /= "idle" /\ ticks'[t].pc = "idle" /\ deaths' = deaths

\* If ticks run through again and again, a due job whose prompt compiles and whose
\* owner's session covers it does not wait forever, unless so many due jobs were
\* created before it that ticks never get to it: jobs without a session, or whose
\* prompt does not compile, stay due and are never taken off the list (dueIds,
\* recurring.ts).  That ticks do run through is the caller's affair: health.ts does
\* not wait for its own.
DueJobsRunUnlessCrowdedOut ==
    []<><<\E t \in KeeperTick : RunsThrough(t)>>_vars =>
       \A j \in Job :
          []<>(j \in DOMAIN jobs /\ IsDue(j) /\ jobs[j].compiles /\ SessionCovers(j)
                 => CrowdedOut(j))
=============================================================================
