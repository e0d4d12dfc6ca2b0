-------------------------- MODULE DomainValidation --------------------------
(* The scheduler that validates the domains seen in the traffic             *)
(* (modules/domain-intelligence/scheduler.ts), the candidates and the       *)
(* validation runs in the database (service.ts) and the executor of one     *)
(* validation (executor.ts).                                                *)
(* A time in the future is kept as the time that is left, one in the past   *)
(* as its age. The clock never goes back, so that the comparisons with      *)
(* updatedAt always hold and are left out. A lease and its run are named by *)
(* the generation they were given. The jitter of the next validation is     *)
(* left out. Rejection and the operations on the rules are in               *)
(* DomainRuleOps; a candidate here is under review.                         *)
EXTENDS Integers, Sequences, FiniteSets, FiniteSetsExt, SequencesExt

CONSTANTS
    Domains,
    NoLease,
    Lease, WorkTimeout, CleanupTimeout, Pulse, \* durations
    OpenFor, Threshold,          \* the circuit: how long it opens, after how many failures
    RateWindow, MaximumStarts,   \* runs started in one window
    Concurrency,                 \* maxConcurrency
    Cooldown, MaxBackoff,
    Generations, \* bound: lease generations before they are used again
    MaxStreak,   \* bound: failures counted, enough for MaxBackoff
    MaxChanges   \* bound: crashes, stops, and changes of settings and scopes

VARIABLES
    candidates, \* the candidate of each domain
    runs,       \* the validation runs kept
    policy,     \* [enabled, excluded]: the settings
    scheduler,  \* [on, failed, timer, asked]
    active,     \* the run of the scheduler: none, or its due list and its workers
    jobs,       \* executions in flight
    changes

database == <<candidates, runs>>
process  == <<scheduler, active, jobs>>
vars     == <<candidates, runs, policy, scheduler, active, jobs, changes>>

NoTimer == -1
Change  == changes < MaxChanges /\ changes' = changes + 1
Down(t) == IF t > 0 THEN t - 1 ELSE t
Scopes  == {"exact", "site"}

Verdicts  == {"decided"}   \* needs-observation, confirmed, blocked, ...: what a decision says

\* The categories an execution may end with; those that count for the circuit.
Counted    == {"coverage-failure", "direct-probe-failure", "proxy-probe-failure",
               "decision-failure", "infrastructure-failure"}
Categories == Counted \cup {"policy-changed"}

NoRun     == [due |-> <<>>, workers |-> 0, aborted |-> FALSE, running |-> FALSE]
Asleep    == [on |-> FALSE, failed |-> FALSE, timer |-> NoTimer, asked |-> {}]
Queued ==
    [status |-> "queued", scope |-> "site", next |-> 0, lease |-> NoLease,
     generation |-> 0, streak |-> 0, decided |-> "none"]

-----------------------------------------------------------------------------
(* The database.                                                             *)

Leased(c)   == c.lease # NoLease /\ c.lease > 0
Running(f)  == {r \in runs : r.fqdn = f /\ r.status = "running"}

Ended(r, status, category) ==
    [r EXCEPT !.status = status, !.category = category, !.since = 0]

Replaced(olds, status, category) ==
    (runs \ olds) \cup {Ended(r, status, category) : r \in olds}

\* listDueDomainCandidates: the candidates cs whose time has come, as they are
\* now. The oldest come first; for how long one has been due is not kept here.
DueDomains(cs) ==
    {f \in Domains : /\ cs[f].status # "excluded"
                     /\ cs[f].next = 0
                     /\ ~Leased(cs[f])}

DueLists(cs) ==
    {[i \in DOMAIN order |->
        [fqdn |-> order[i], scope |-> cs[order[i]].scope, streak |-> cs[order[i]].streak]]
     : order \in SetToSeqs(DueDomains(cs))}

\* domainValidationCircuitState: open for OpenFor after any failure that is at
\* least the Threshold-th of the OpenFor before it.
Failures == {r \in runs : r.status = "failed" /\ r.category \in Counted /\ r.since <= 2 * OpenFor}

Triggers ==
    {r \in Failures :
        Cardinality({s \in Failures : r.since <= s.since /\ s.since <= r.since + OpenFor}) >= Threshold}

CircuitOpen == \E r \in Triggers : r.since < OpenFor

RateLimited == Cardinality({r \in runs : r.age < RateWindow}) >= MaximumStarts

Claimable(f) == f \in DueDomains(candidates)

NextGeneration(f) == 1 + (candidates[f].generation % Generations)

\* claimDomainValidationRun: the lease, its generation and the run in one
\* transaction; an older run still marked as running has lost its lease.
Claim(f) ==
    LET generation == NextGeneration(f) IN
    /\ candidates' = [candidates EXCEPT ![f].status = "pending", ![f].lease = Lease,
                                        ![f].generation = generation]
    /\ runs' = Replaced(Running(f), "cancelled", "lease-lost")
               \cup {[fqdn |-> f, generation |-> generation, age |-> 0, since |-> 0,
                      status |-> "running", category |-> "none"]}

RunOf(job) == {r \in Running(job.fqdn) : r.generation = job.generation}

\* The fences of both ends of a run: it is still running, and the candidate
\* still has its lease.
Holds(job) ==
    LET c == candidates[job.fqdn] IN
    /\ RunOf(job) # {}
    /\ c.status # "excluded"
    /\ c.generation = job.generation
    /\ Leased(c)

\* Mutant: a decision is stored whatever the candidate proposes by now.
FitsAny(job) == TRUE

\* The decision is about the rule that the candidate proposes.
Fits(job) == candidates[job.fqdn].scope = job.scope

Longer(streak) == IF streak < MaxStreak THEN streak + 1 ELSE streak

BackoffOf(streak) ==
    LET delay == Cooldown * 2 ^ (IF streak = 0 THEN 0 ELSE streak - 1) IN
    IF delay > MaxBackoff THEN MaxBackoff ELSE delay

\* completeDomainValidationRun
Complete(job, decision) ==
    /\ runs' = Replaced(RunOf(job), "completed", "none")
    /\ candidates' = [candidates EXCEPT ![job.fqdn] =
           [@ EXCEPT !.status = decision, !.next = Cooldown, !.streak = 0,
                     !.lease = NoLease, !.decided = job.scope]]

\* failDomainValidationRun: nothing when the run or its lease is gone.
Fail(job, status, category, streak) ==
    IF Holds(job)
    THEN /\ runs' = Replaced(RunOf(job), status, category)
         /\ candidates' = [candidates EXCEPT ![job.fqdn] =
                [@ EXCEPT !.status = "pending", !.next = BackoffOf(streak),
                          !.streak = streak, !.lease = NoLease]]
    ELSE UNCHANGED database

\* recoverExpiredDomainValidationRuns: a run whose lease has expired or has
\* been given to another is cancelled, and its candidate is due at once.
Owns(r) == candidates[r.fqdn].generation = r.generation /\ candidates[r.fqdn].lease # NoLease

Orphans == {r \in runs : r.status = "running" /\ ~(Owns(r) /\ Leased(candidates[r.fqdn]))}

RecoveredCandidates ==
    LET released == {r.fqdn : r \in {o \in Orphans : Owns(o)}} IN
    [f \in Domains |->
        IF f \in released /\ candidates[f].status # "excluded"
        THEN [candidates[f] EXCEPT !.status = "pending", !.lease = NoLease, !.next = 0]
        ELSE candidates[f]]

RunMaintenance ==
    /\ runs' = Replaced(Orphans, "cancelled", "lease-lost")
    /\ candidates' = RecoveredCandidates

-----------------------------------------------------------------------------
(* The scheduler. What is asked of it is a run: at start, by a wake, by the  *)
(* timer. One run is active at a time.                                       *)

Start ==
    /\ ~scheduler.on /\ ~scheduler.failed
    /\ ~active.running
    /\ scheduler' = [Asleep EXCEPT !.on = TRUE, !.timer = Pulse, !.asked = {"start"}]
    /\ UNCHANGED <<database, policy, active, jobs, changes>>

\* stop: the run is aborted, and what it executes must end in time.
Stop ==
    /\ scheduler.on /\ Change
    /\ scheduler' = Asleep
    /\ active' = [active EXCEPT !.aborted = active.running]
    /\ UNCHANGED <<database, policy, jobs>>

\* The timer joins a run that is active, and asks for one otherwise.
PulseFires ==
    /\ scheduler.on /\ scheduler.timer = 0
    /\ scheduler' = [scheduler EXCEPT !.timer = NoTimer,
                                      !.asked = IF active.running THEN @ ELSE @ \cup {"pulse"}]
    /\ UNCHANGED <<database, policy, active, jobs, changes>>

\* After a failed cleanup the timer only maintains the database.
Maintains ==
    /\ scheduler.failed /\ scheduler.timer = 0
    /\ scheduler' = [scheduler EXCEPT !.timer = Pulse]
    /\ RunMaintenance
    /\ UNCHANGED <<policy, active, jobs, changes>>

MayBegin == scheduler.on /\ ~active.running

\* executeRun: maintenance, then what is due, read once, for as many workers as
\* the settings allow.
RunBegins ==
    \E due \in IF policy.enabled /\ ~CircuitOpen THEN DueLists(RecoveredCandidates) ELSE {<<>>},
       request \in scheduler.asked :
        /\ MayBegin
        /\ scheduler' = [scheduler EXCEPT !.asked = @ \ {request}]
        /\ RunMaintenance
        /\ active' = [due |-> due, aborted |-> FALSE, running |-> TRUE,
                      workers |-> IF Len(due) < Concurrency THEN Len(due) ELSE Concurrency]
        /\ UNCHANGED <<policy, jobs, changes>>

RunEnds ==
    /\ active.running /\ active.workers = 0
    /\ active' = NoRun
    /\ scheduler' = IF scheduler.on /\ scheduler.timer = NoTimer
                    THEN [scheduler EXCEPT !.timer = Pulse] ELSE scheduler
    /\ UNCHANGED <<database, policy, jobs, changes>>

Busy == {j \in jobs : j.phase # "abandoned"}
Free == active.running /\ active.workers > Cardinality(Busy)

WorkerReturns == active' = [active EXCEPT !.workers = @ - 1]

\* A worker looks again at the settings and the circuit before each candidate.
Leaves ==
    /\ Free
    /\ active.aborted \/ ~policy.enabled \/ CircuitOpen \/ active.due = <<>> \/ RateLimited
    /\ WorkerReturns
    /\ UNCHANGED <<database, policy, scheduler, jobs, changes>>

\* validateCandidate: claim, then execute.
Take ==
    LET row == Head(active.due) IN
    /\ Free /\ ~active.aborted /\ policy.enabled /\ ~CircuitOpen
    /\ active.due # <<>> /\ ~RateLimited
    /\ active' = [active EXCEPT !.due = Tail(@)]
    /\ IF Claimable(row.fqdn)
       THEN /\ Claim(row.fqdn)
            /\ jobs' = jobs \cup {[fqdn |-> row.fqdn, scope |-> row.scope, streak |-> row.streak,
                                   generation |-> NextGeneration(row.fqdn),
                                   phase |-> "executing", left |-> WorkTimeout]}
       ELSE UNCHANGED <<database, jobs>>
    /\ UNCHANGED <<policy, scheduler, changes>>

Executing == {j \in jobs : j.phase = "executing"}

\* Two probes and a decision; the decision may not be stored, which is a
\* failure of the run like any other.
Decides ==
    \E job \in Executing, decision \in Verdicts :
        /\ ~active.aborted
        /\ job.fqdn \notin policy.excluded
        /\ jobs' = jobs \ {job}
        /\ IF Holds(job) /\ Fits(job)
           THEN Complete(job, decision)
           ELSE Fail(job, "failed", "infrastructure-failure", Longer(job.streak))
        /\ UNCHANGED <<policy, scheduler, active, changes>>

\* The executor throws: the settings exclude the domain by now, or a probe,
\* the coverage or the decision failed.
Throws ==
    \E job \in Executing, category \in {"direct-probe-failure", "policy-changed"} :
        /\ ~active.aborted
        /\ category = "policy-changed" => job.fqdn \in policy.excluded
        /\ jobs' = jobs \ {job}
        /\ Fail(job, "failed", category, Longer(job.streak))
        /\ UNCHANGED <<policy, scheduler, active, changes>>

\* The work took too long, or the scheduler stops: the run ends now, and the
\* worker waits for the execution.
GivesUp ==
    \E job \in Executing :
        /\ active.aborted \/ job.left = 0
        /\ jobs' = (jobs \ {job}) \cup {[job EXCEPT !.phase = "closing", !.left = CleanupTimeout]}
        /\ IF active.aborted
           THEN Fail(job, "cancelled", "shutdown", job.streak)
           ELSE Fail(job, "failed", "infrastructure-failure", Longer(job.streak))
        /\ UNCHANGED <<policy, scheduler, active, changes>>

Settles ==
    \E job \in jobs :
        /\ job.phase \in {"closing", "abandoned"}
        /\ jobs' = jobs \ {job}
        /\ UNCHANGED <<database, policy, scheduler, active, changes>>

\* waitForCleanup expires: no run ever begins again in this process.
CleanupExpires ==
    \E job \in jobs :
        /\ job.phase = "closing" /\ job.left = 0
        /\ jobs' = (jobs \ {job}) \cup {[job EXCEPT !.phase = "abandoned"]}
        /\ scheduler' = [Asleep EXCEPT !.failed = TRUE, !.timer = Pulse]
        /\ active' = [active EXCEPT !.aborted = TRUE, !.workers = @ - 1]
        /\ UNCHANGED <<database, policy, changes>>

Crash ==
    /\ Change
    /\ scheduler' = Asleep /\ active' = NoRun /\ jobs' = {}
    /\ UNCHANGED <<database, policy>>

-----------------------------------------------------------------------------
(* Observations, reviews and settings.                                       *)

\* queueDomainCandidate: a domain that the settings exclude loses its run; one
\* they include again is due now.
Observe(f) ==
    LET c == candidates[f] IN
    /\ Change
    /\ policy.enabled
    /\ IF f \in policy.excluded
       THEN /\ runs' = Replaced(Running(f), "cancelled", "policy-changed")
            /\ candidates' = [candidates EXCEPT ![f] =
                   [@ EXCEPT !.status = "excluded", !.next = 0, !.lease = NoLease]]
            /\ UNCHANGED scheduler
       ELSE /\ runs' = IF c.status = "excluded" THEN Replaced(Running(f), "cancelled", "policy-changed")
                       ELSE runs
            /\ candidates' = IF c.status # "excluded" THEN candidates
                             ELSE [candidates EXCEPT ![f] =
                                      [@ EXCEPT !.status = "queued", !.next = 0, !.lease = NoLease]]
            /\ scheduler' = IF scheduler.on THEN [scheduler EXCEPT !.asked = @ \cup {"wake"}]
                            ELSE scheduler
    /\ UNCHANGED <<policy, active, jobs>>

\* selectDomainCandidateScope: not while a validation runs.
SelectScope(f) ==
    LET c == candidates[f] IN
    /\ Change
    /\ c.status # "excluded" /\ f \notin policy.excluded
    /\ Running(f) = {} /\ ~Leased(c)
    /\ candidates' = [candidates EXCEPT ![f] =
           [c EXCEPT !.scope = IF c.scope = "site" THEN "exact" ELSE "site",
                     !.status = "queued", !.next = 0, !.streak = 0, !.lease = NoLease]]
    /\ UNCHANGED <<runs, policy, scheduler, active, jobs>>

ChangeSettings ==
    /\ Change
    /\ \/ policy' = [policy EXCEPT !.enabled = ~@]
       \/ \E f \in Domains :
              policy' = [policy EXCEPT !.excluded = IF f \in @ THEN @ \ {f} ELSE @ \cup {f}]
    /\ UNCHANGED <<database, scheduler, active, jobs>>

\* Promises that are settled run on before the next request or timer does.
Turn ==
    \/ scheduler.asked # {} /\ MayBegin
    \/ active.running /\ active.workers = 0
    \/ Free
    \/ active.aborted /\ Executing # {}

\* Timers that are due fire before time passes.
Due == \/ (scheduler.on \/ scheduler.failed) /\ scheduler.timer = 0
       \/ \E j \in Busy : j.left = 0

\* A run that has ended is forgotten once neither the circuit nor the rate
\* looks that far back.
LongestRun == (Cardinality(Domains) - 1) * WorkTimeout + CleanupTimeout
EndsWithin == Lease + Pulse + LongestRun

Older(r) ==
    [r EXCEPT !.age   = IF @ > (IF r.status = "running" THEN EndsWithin ELSE RateWindow) THEN @ ELSE @ + 1,
              !.since = IF r.status = "running" THEN @ ELSE @ + 1]

Remembered(r) ==
    \/ r.status = "running" \/ r.age < RateWindow
    \/ r.status = "failed" /\ r.category \in Counted /\ r.since <= 2 * OpenFor

Tick ==
    /\ ~Due
    /\ candidates' = [f \in Domains |-> LET c == candidates[f] IN
           [c EXCEPT !.next = Down(@), !.lease = IF @ = NoLease THEN @ ELSE Down(@)]]
    /\ runs' = {r \in {Older(o) : o \in runs} : Remembered(r)}
    /\ scheduler' = [scheduler EXCEPT !.timer = Down(@)]
    /\ jobs' = {[j EXCEPT !.left = Down(@)] : j \in jobs}
    /\ UNCHANGED <<policy, active, changes>>

\* A process that starts on a database: one domain may have been excluded, or
\* may be by now.
Init ==
    /\ \E excluded, barred \in {{}} \cup {{f} : f \in Domains} :
           /\ Cardinality(excluded \cup barred) <= 1
           /\ candidates = [f \in Domains |-> IF f \in barred
                               THEN [Queued EXCEPT !.status = "excluded"] ELSE Queued]
           /\ policy = [enabled |-> TRUE, excluded |-> excluded]
    /\ runs = {}
    /\ scheduler = Asleep /\ active = NoRun /\ jobs = {}
    /\ changes = 0

Next ==
    \/ RunBegins \/ RunEnds \/ Leaves \/ Take \/ (active.aborted /\ GivesUp)
    \/ Crash
    \/ /\ ~Turn
       /\ \/ Start \/ Stop \/ PulseFires \/ Maintains
          \/ Decides \/ Throws \/ GivesUp \/ Settles \/ CleanupExpires
          \/ \E f \in Domains : Observe(f) \/ SelectScope(f)
          \/ ChangeSettings \/ Tick

Spec == Init /\ [][Next]_vars

TypeOK ==
    /\ \A f \in Domains : LET c == candidates[f] IN
           /\ c.status \in {"queued", "pending", "excluded"} \cup Verdicts
           /\ c.scope \in Scopes /\ c.next \in 0..MaxBackoff /\ c.lease \in {NoLease} \cup 0..Lease
           /\ c.generation \in 0..Generations /\ c.streak \in 0..MaxStreak /\ c.decided \in Scopes \cup {"none"}
    /\ \A r \in runs :
           /\ r.fqdn \in Domains /\ r.generation \in 1..Generations
           /\ r.status \in {"running", "completed", "failed", "cancelled"}
           /\ r.category \in Categories \cup {"none", "lease-lost", "shutdown"}
    /\ scheduler.timer \in NoTimer..Pulse /\ scheduler.asked \subseteq {"start", "wake", "pulse"}
    /\ active.workers \in 0..Concurrency /\ active.running \in BOOLEAN

\* One run of the scheduler at a time keeps the executions within the limit,
\* and a domain is probed by one of them at most; what the circuit lets through
\* in any OpenFor is its threshold and what was already running.
WorkBounded ==
    /\ Cardinality(jobs) <= Concurrency
    /\ \A j, k \in jobs : j.fqdn = k.fqdn => j = k
    /\ \A r \in Failures :
           Cardinality({s \in Failures : r.since - OpenFor < s.since /\ s.since <= r.since})
               < Threshold + Concurrency

\* A verdict shown for a candidate is about the rule it proposes: scopes that
\* change between the due list, the claim and the end leave no stale verdict.
VerdictFits ==
    \A f \in Domains : LET c == candidates[f] IN
        /\ c.status \in Verdicts => c.decided = c.scope
        /\ Cardinality(Running(f)) <= 1

\* A validation interrupted by a crash, a stop or a change of the settings
\* does not hold its candidate for longer than its lease, a pulse and one run
\* of the scheduler.
RunsEnd ==
    (scheduler.on \/ scheduler.failed) /\ ~Turn /\ ~Due =>
        \A r \in runs : r.status = "running" => r.age <= EndsWithin
=============================================================================
