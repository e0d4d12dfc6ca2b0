---------------------------- MODULE SourceRefresh ----------------------------
(***************************************************************************)
(* Refresh of the subscription sources (modules/sources/refresh.ts,        *)
(* scheduler.ts, service.ts): one coordinator serializes the refreshes     *)
(* asked for by the administrator, by the enabling of a source and by the  *)
(* scheduler, and joins the requests for one source. A refresh fetches the *)
(* subscription, stores the snapshot, applies the configuration and then   *)
(* records the outcome, awaiting twice.                                    *)
(*                                                                         *)
(* Every source here is one that can be refreshed: the others take no part *)
(* in any of this. Time is abstracted to whether the next attempt is due.  *)
(* A snapshot is abstracted to whether it is what the provider serves now. *)
(* What an apply does is the subject of ConfigApply.                       *)
(***************************************************************************)
EXTENDS Naturals, Sequences, SequencesExt

CONSTANTS
    Sources, NoSource,
    MaxFailures,  \* bound: failures in a row beyond which the backoff is the same
    MaxWaiters,   \* bound: requests to enable one source at a time
    MaxEdits,     \* bound: actions of the administrator in a behaviour
    MaxFaults     \* bound: failures, crashes and changes of subscriptions

ASSUME RefreshAssumption ==
    /\ NoSource \notin Sources
    /\ MaxFailures \in Nat \ {0} /\ MaxWaiters \in Nat \ {0}
    /\ MaxEdits \in Nat /\ MaxFaults \in Nat

Triggers == {"scheduled", "manual", "enable"}

\* A row of the sources table. An id is not used again after its row is deleted.
Rows ==
    [state : {"new", "on", "off", "gone"}, due : {"never", "later", "now"},
     failures : 0..MaxFailures, fresh : BOOLEAN]

VARIABLES
    proc,      \* "down", "booting", "up", "stopping"
    row,       \* the sources table
    inFlight,  \* SourceRefreshCoordinator.inFlight: the trigger of each request
    queue,     \* SourceRefreshCoordinator.tail: the sources asked for, in order
    run,       \* the refresh at the head of the queue: its phase, and what it read
    asked,     \* sources with a request of the administrator open
    enabling,  \* how many requests to enable wait for the refresh of a source
    sched,     \* SourceRefreshScheduler: the pulse in execution, what it still has to
               \* refresh and the source it waits for
    edits, faults

vars == <<proc, row, inFlight, queue, run, asked, enabling, sched, edits, faults>>
volatile == <<inFlight, queue, run, asked, enabling, sched>>

Fault == faults < MaxFaults /\ faults' = faults + 1
Act == proc \in {"booting", "up"} /\ edits < MaxEdits /\ edits' = edits + 1

Exists(s) == row[s].state \in {"on", "off"}
NoRun == [pc |-> "idle", failures |-> 0, lost |-> FALSE]
Unscheduled == [pc |-> "off", todo |-> {}, s |-> NoSource]

----------------------------------------------------------------------------
Init ==
    /\ proc = "booting"
    /\ row \in [Sources -> {r \in Rows : r.failures = 0 /\ r.fresh
                                         /\ r.state # "gone" /\ (r.state = "new" => r.due = "never")}]
    /\ inFlight = [s \in Sources |-> "none"] /\ queue = <<>> /\ run = NoRun
    /\ asked = {} /\ enabling = [s \in Sources |-> 0]
    /\ sched = Unscheduled
    /\ edits = 0 /\ faults = 0

----------------------------------------------------------------------------
(* SourceRefreshCoordinator.refresh *)

Priority(trigger) == CASE trigger = "scheduled" -> 0 [] trigger = "manual" -> 1 [] OTHER -> 2

\* Mutant: a request joins without raising the trigger of the one in flight.
FirstTrigger(current, incoming) == current

strongerRefreshTrigger(current, incoming) ==
    IF Priority(incoming) > Priority(current) THEN incoming ELSE current

\* Mutant: a refresh that has begun is not joined.
QueuedAnew(pending, s) ==
    IF s \in ToSet(pending) /\ ~(run.pc # "idle" /\ Head(queue) = s) THEN pending ELSE Append(pending, s)

\* The queue and the requests in flight after one more request.
Queued(pending, s) == IF s \in ToSet(pending) THEN pending ELSE Append(pending, s)

Joined(requests, s, trigger) ==
    [requests EXCEPT ![s] = IF @ = "none" THEN trigger ELSE strongerRefreshTrigger(@, trigger)]

Submit(s, trigger) == queue' = Queued(queue, s) /\ inFlight' = Joined(inFlight, s, trigger)

----------------------------------------------------------------------------
(* The administrator *)

AddSource(s) ==
    /\ Act /\ row[s].state = "new"
    /\ row' = [row EXCEPT ![s].state = "on", ![s].fresh = TRUE]
    /\ UNCHANGED <<proc, volatile, faults>>

RemoveSource(s) ==
    /\ Act /\ Exists(s)
    /\ row' = [row EXCEPT ![s].state = "gone"]
    /\ UNCHANGED <<proc, volatile, faults>>

\* The button acts on a row that may be gone.
RefreshManually(s) ==
    /\ Act /\ row[s].state # "new"
    /\ Submit(s, "manual") /\ asked' = asked \cup {s}
    /\ UNCHANGED <<proc, row, run, enabling, sched, faults>>

\* toggleSource: a disabled source is refreshed first and stays disabled until then.
Disable(s) ==
    /\ Act /\ row[s].state = "on"
    /\ row' = [row EXCEPT ![s].state = "off"]
    /\ UNCHANGED <<proc, volatile, faults>>

Enable(s) ==
    /\ Act /\ row[s].state = "off" /\ enabling[s] < MaxWaiters
    /\ Submit(s, "enable")
    /\ asked' = asked \cup {s} /\ enabling' = [enabling EXCEPT ![s] = @ + 1]
    /\ UNCHANGED <<proc, row, run, sched, faults>>

----------------------------------------------------------------------------
(* SourceRefreshCoordinator.run and service.refreshSource *)

\* Mutant: a refresh that fails blocks the ones queued behind it.
Stuck(ok) == IF ok THEN Tail(queue) ELSE queue

\* The tail goes on whatever the outcome.
Served(ok) == Tail(queue)

\* execute, from one await to the next: the first source of the pulse that is still
\* enabled; none is begun once the scheduler is stopped.
Advance(todo, pending, requests) ==
    LET wanted == {s \in todo : row[s].state = "on"}
    IN IF wanted = {} \/ proc = "stopping"
       THEN /\ sched' = [Unscheduled EXCEPT !.pc = "idle"]
            /\ queue' = pending /\ inFlight' = requests
       ELSE \E s \in wanted, passed \in SUBSET (todo \ wanted) :
            /\ sched' = [pc |-> "wait", todo |-> todo \ (passed \cup {s}), s |-> s]
            /\ queue' = Queued(pending, s) /\ inFlight' = Joined(requests, s, "scheduled")

\* The promise of the refresh settles: every request that joined it is answered, and
\* a pulse that waited for it goes on.
Settle(s, ok) ==
    LET requests == [inFlight EXCEPT ![s] = "none"]
    IN /\ run' = NoRun
       /\ asked' = asked \ {s} /\ enabling' = [enabling EXCEPT ![s] = 0]
       /\ IF sched.s = s THEN Advance(sched.todo, Served(ok), requests)
          ELSE queue' = Served(ok) /\ inFlight' = requests /\ UNCHANGED sched

\* Each request to enable inverts the row it finds after the refresh.
Toggled(s) ==
    IF enabling[s] % 2 = 0 THEN row[s].state ELSE IF row[s].state = "on" THEN "off" ELSE "on"

\* Mutant: the backoff grows without end.
Uncapped(failures) == failures + 1

\* The backoff grows with the failures in a row, up to six hours.
Backoff(failures) == IF failures < MaxFailures THEN failures + 1 ELSE MaxFailures

Succeed(s) ==
    /\ row' = [row EXCEPT ![s] = IF Exists(s)
                  THEN [@ EXCEPT !.due = "later", !.failures = 0, !.state = Toggled(s)] ELSE @]
    /\ Settle(s, TRUE)

Fail(s) ==
    /\ row' = [row EXCEPT ![s] = IF Exists(s)
                  THEN [@ EXCEPT !.due = "later", !.failures = Backoff(run.failures)] ELSE @]
    /\ Settle(s, FALSE)

\* A source that is gone, or that the scheduler wanted and that was disabled
\* meanwhile, is not fetched.
Unwanted(s) == ~Exists(s) \/ (inFlight[s] = "scheduled" /\ row[s].state = "off")

StartRun ==
    /\ run.pc = "idle" /\ queue # <<>>
    /\ LET s == Head(queue)
       IN IF Unwanted(s) THEN Settle(s, FALSE)
          ELSE /\ run' = [NoRun EXCEPT !.pc = "fetch", !.failures = row[s].failures]
               /\ UNCHANGED <<inFlight, queue, asked, enabling, sched>>
    /\ UNCHANGED <<proc, row, edits, faults>>

\* The snapshot is stored, unless the row was deleted meanwhile, and applied.
Fetch ==
    /\ run.pc = "fetch"
    /\ LET s == Head(queue)
       IN \/ /\ row' = [row EXCEPT ![s].fresh = @ \/ Exists(s)]
             /\ run' = [run EXCEPT !.pc = "apply", !.lost = ~Exists(s)]
             /\ UNCHANGED <<inFlight, queue, asked, enabling, sched, faults>>
          \/ Fault /\ Fail(s)
    /\ UNCHANGED <<proc, edits>>

\* The refresh of a deleted source fails after its apply.
FinishApply ==
    /\ run.pc = "apply"
    /\ LET s == Head(queue)
       IN \/ ~run.lost /\ Succeed(s) /\ UNCHANGED faults
          \/ run.lost /\ Fail(s) /\ UNCHANGED faults
          \/ Fault /\ Fail(s)
    /\ UNCHANGED <<proc, edits>>

----------------------------------------------------------------------------
(* SourceRefreshScheduler *)

Start ==
    /\ proc = "booting" /\ proc' = "up"
    /\ sched' = [Unscheduled EXCEPT !.pc = "idle"]
    /\ UNCHANGED <<row, inFlight, queue, run, asked, enabling, edits, faults>>

\* Mutant: a source that was never scheduled is left so.
Unrestored == {}

\* Sources that have no next attempt yet.
Missing == {s \in Sources : row[s].state = "on" /\ row[s].due = "never"}

\* execute: missing schedules are restored from the age of the snapshot; what is
\* due is listed once for the pulse.
Pulse ==
    /\ proc = "up" /\ sched.pc = "idle"
    /\ \E aged \in SUBSET Missing :
          LET due(s) == IF s \in aged THEN "now" ELSE IF s \in Missing THEN "later" ELSE row[s].due
          IN /\ row' = [s \in Sources |-> [row[s] EXCEPT !.due = due(s)]]
             /\ Advance({s \in Sources : row[s].state = "on" /\ due(s) = "now"}, queue, inFlight)
    /\ UNCHANGED <<proc, run, asked, enabling, edits, faults>>

----------------------------------------------------------------------------
(* Time, the providers and the process *)

Elapse(s) ==
    /\ row[s].due = "later" /\ row' = [row EXCEPT ![s].due = "now"]
    /\ UNCHANGED <<proc, volatile, edits, faults>>

ProviderChanges(s) ==
    /\ Fault /\ Exists(s) /\ row' = [row EXCEPT ![s].fresh = FALSE]
    /\ UNCHANGED <<proc, volatile, edits>>

Ended ==
    /\ proc' = "down"
    /\ inFlight' = [s \in Sources |-> "none"] /\ queue' = <<>> /\ run' = NoRun
    /\ asked' = {} /\ enabling' = [s \in Sources |-> 0] /\ sched' = Unscheduled

Crash == proc # "down" /\ Fault /\ Ended /\ UNCHANGED <<row, edits>>

Shutdown ==
    /\ Act /\ proc' = "stopping"
    /\ UNCHANGED <<row, volatile, faults>>

\* The process waits for the pulse in execution and for the open requests.
Exit ==
    /\ proc = "stopping" /\ sched.pc \in {"off", "idle"} /\ asked = {}
    /\ Ended /\ UNCHANGED <<row, edits, faults>>

Boot == proc = "down" /\ proc' = "booting" /\ UNCHANGED <<row, volatile, edits, faults>>

----------------------------------------------------------------------------
Administrator ==
    \/ Shutdown
    \/ \E s \in Sources : AddSource(s) \/ RemoveSource(s) \/ RefreshManually(s) \/ Enable(s) \/ Disable(s)
Coordinator == StartRun \/ Fetch \/ FinishApply
Scheduler == Start \/ Pulse
Environment == Crash \/ Exit \/ Boot \/ \E s \in Sources : Elapse(s) \/ ProviderChanges(s)

Next == Administrator \/ Coordinator \/ Scheduler \/ Environment

Spec == Init /\ [][Next]_vars

\* Every fetch and every apply is bounded by a timeout; the timer of the scheduler
\* is armed again after each pulse; the container is started again.
Fairness ==
    /\ WF_vars(Coordinator) /\ WF_vars(Start)
    /\ WF_vars(Pulse) /\ WF_vars(Exit) /\ WF_vars(Boot)
    /\ \A s \in Sources : WF_vars(Elapse(s))
LiveSpec == Spec /\ Fairness

----------------------------------------------------------------------------
(* Properties *)

\* Every variable stays in its type.
TypeOK ==
    /\ proc \in {"down", "booting", "up", "stopping"}
    /\ row \in [Sources -> Rows]
    /\ inFlight \in [Sources -> Triggers \cup {"none"}]
    /\ queue \in Seq(Sources)
    /\ run \in [pc : {"idle", "fetch", "apply"}, failures : 0..MaxFailures, lost : BOOLEAN]
    /\ asked \subseteq Sources /\ enabling \in [Sources -> 0..MaxWaiters]
    /\ sched \in [pc : {"off", "idle", "wait"}, todo : SUBSET Sources, s : Sources \cup {NoSource}]
    /\ edits \in 0..MaxEdits /\ faults \in 0..MaxFaults

Distinct(q) == \A i, j \in DOMAIN q : q[i] = q[j] => i = j

\* refresh.ts, single flight: no source is fetched twice for requests that could have
\* shared a fetch, and whoever waits for a source waits for a refresh in the queue.
SingleFlight ==
    /\ Distinct(queue)
    /\ \A s \in Sources :
          /\ inFlight[s] # "none" <=> s \in ToSet(queue)
          /\ s \in asked \/ enabling[s] > 0 \/ sched.s = s => s \in ToSet(queue)

\* A request of the administrator is answered by a refresh that was carried out, even
\* when it joined one of the scheduler; only a source that is gone is refused.
NeverSkipped ==
    [][\A s \in asked \ asked' : proc' # "down" => (run.pc # "idle" /\ Head(queue) = s) \/ ~Exists(s)]_vars

\* No failure, crash or deletion keeps a request waiting for ever.
Answered == \A s \in Sources : s \in asked ~> s \notin asked

\* However often it fails, is disabled, enabled or interrupted: a source that stays in
\* use gets the subscription its provider serves.
KeptFresh == \A s \in Sources : <>[](row[s].state = "on") => <>[](row[s].fresh)

\* A shutdown asked for is carried out.
ShutdownEnds == proc = "stopping" ~> proc = "down"

\* The design of the refresh: the scheduler leaves a source alone until its next attempt
\* is due; only a manual refresh ignores the backoff.
BackoffRespected ==
    [][\A s \in Sources :
          run.pc = "idle" /\ run'.pc = "fetch" /\ Head(queue) = s /\ inFlight[s] = "scheduled"
            => row[s].due = "now"]_vars

\* The design of the refresh: enabling a saved source refreshes it first, and a successful
\* refresh activates it.
EnableActivates ==
    [][\A s \in Sources :
          enabling[s] > 0 /\ enabling'[s] = 0 /\ Exists(s) /\ proc' # "down" /\ row'[s].failures = 0
            => row'[s].state = "on"]_vars

==============================================================================
