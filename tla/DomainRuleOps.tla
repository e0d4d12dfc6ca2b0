---------------------------- MODULE DomainRuleOps ----------------------------
(***************************************************************************)
(* Publishing a confirmed domain rule (docs/adr/0006): the durable         *)
(* operation journal (domain-intelligence/apply-journal.ts), its executor  *)
(* (apply-operation.ts), the process-wide worker with its single tail      *)
(* (apply-worker.ts), the local rule file (rule-store.ts), and the         *)
(* candidates they act for, which the administrator and the validation     *)
(* scheduler change meanwhile (service.ts).                                *)
(*                                                                         *)
(* The deployment is in apply mode: in report mode nothing is submitted and *)
(* the worker stays disabled. Every submission is a manual-add, the only   *)
(* action src/ submits. Revisions and digests of the rule file are the set  *)
(* of rules it holds: SHA-256 is taken to be injective.                    *)
(***************************************************************************)
EXTENDS Naturals, Sequences

CONSTANTS
    Ops,         \* operation ids, chosen by the client
    Candidates, Rules,
    Exact, Site, \* the two rules a candidate may propose
    NoRule, NoOp, NoTask,
    Tampering,   \* TRUE when others may write the rule directory
    MaxQueue,    \* bound: tasks waiting on the tail
    MaxEdits,    \* bound: review and settings mutations in a behaviour
    MaxFaults    \* bound: crashes, failed checks and writes, outside edits

ASSUME DomainRuleAssumption ==
    /\ Exact \in [Candidates -> Rules] /\ Site \in [Candidates -> Rules]
    /\ Candidates # {}
    /\ NoRule \notin Rules /\ NoOp \notin Ops
    /\ Tampering \in BOOLEAN
    /\ MaxQueue \in Nat /\ MaxEdits \in Nat /\ MaxFaults \in Nat

UnfinishedPhases == {"prepared", "committed", "activating", "partial", "reconciliation-required"}
Phases == UnfinishedPhases \cup {"none", "completed", "aborted"}

\* A row of domain_rule_operations; phase "none" stands for no row.
Operations == [phase : Phases, cand : Candidates, rule : Rules \cup {NoRule}, base : SUBSET Rules]

\* A row of domain_candidates. Status "applied" is blocked with the next
\* validation at the end of time. A lease is live while its run is, and lost when
\* only its expiry can end it.
CandidateRows ==
    [status : {"queued", "pending", "confirmed", "blocked", "applied", "excluded"},
     review : {"active", "rejected"}, rule : Rules \cup {NoRule},
     lease : {"none", "live", "lost"}]

\* What waits on the tail; fresh is admittedAt = admissionEpoch.
SubmitTasks == [kind : {"submit"}, op : Ops, cand : Candidates, fresh : BOOLEAN]
RecoverTask == [kind |-> "recover"]
DrainTask   == [kind |-> "drain"]
Tasks == SubmitTasks \cup {RecoverTask, DrainTask}

ASSUME NoTaskAssumption == NoTask \notin Tasks

VARIABLES
    file,      \* rules of custom.txt
    litter,    \* what an interrupted writer left beside it: "lock", "tmp"
    marker,    \* internal.domainRuleStore.v1: the content the panel last attested
    op, order, \* domain_rule_operations, and its rows by createdAt
    owned,     \* domain_rule_ownership
    cand,      \* domain_candidates
    review,    \* settings: enabled and automationMode = "review"
    up, ws,    \* the process, and the state of its worker
    woken, draining, \* wakeRequested, drainScheduled
    tail,      \* tasks behind the running one
    pc, task, cur,   \* the running task and the operation it executes
    rest,      \* operations left in the snapshot of a recovery pass, a set
    intent,    \* rule and revision a submission prepares
    proved,    \* the activation outcome in hand
    edits, faults

store   == <<file, litter, marker>>
journal == <<op, order, owned>>
durable == <<file, litter, marker, op, order, owned, cand, review>>
signals == <<ws, woken, draining, tail>>
running == <<pc, task, cur, rest, intent, proved>>
vars == <<file, litter, marker, op, order, owned, cand, review, up, ws, woken, draining, tail,
          pc, task, cur, rest, intent, proved, edits, faults>>

PCs == {"idle", "prepare", "next", "execute", "preflight", "veto", "commit", "finalize",
        "begin", "proveBefore", "activate", "proveAfter"}

Choices(c) == {Exact[c], Site[c]}
NoIntent == [rule |-> NoRule, base |-> {}]
Goal(o) == op[o].base \cup {op[o].rule}
Unfinished == {o \in Ops : op[o].phase \in UnfinishedPhases}
Fault == faults < MaxFaults /\ faults' = faults + 1

----------------------------------------------------------------------------
(* The worker between two operations *)

Idle == pc' = "idle" /\ task' = NoTask /\ cur' = NoOp /\ rest' = {}
        /\ intent' = NoIntent /\ proved' = FALSE

\* Mutant: a pass goes on before it lets go of the settled operation.
SettledInPlace ==
    /\ IF task.kind = "submit" THEN Idle
       ELSE pc' = "next" /\ rest' = rest \ {cur} /\ UNCHANGED <<cur, proved, task, intent>>
    /\ UNCHANGED signals

\* One operation is settled: the submission resolves, a recovery pass goes on.
Settled ==
    /\ IF task.kind = "submit" THEN Idle
       ELSE pc' = "next" /\ rest' = rest \ {cur} /\ cur' = NoOp /\ proved' = FALSE
            /\ UNCHANGED <<task, intent>>
    /\ UNCHANGED signals

\* requireRecovery: submissions admitted before it are refused.
Refused(t) == IF t.kind = "submit" THEN [t EXCEPT !.fresh = FALSE] ELSE t

\* Mutant: a submission that ends partial leaves the worker ready.
SuspendOpen ==
    /\ ws' = IF task.kind = "drain" THEN "recovery-required" ELSE ws
    /\ draining' = IF task.kind = "drain" THEN FALSE ELSE draining
    /\ Idle /\ UNCHANGED <<woken, tail>>

\* A deferred or partial operation ends its task. A wake that arrived during a
\* drain schedules the next one.
Suspend ==
    LET again == task.kind = "drain" /\ woken
        stale == [i \in 1..Len(tail) |-> Refused(tail[i])]
    IN /\ ws' = IF again THEN "recovering" ELSE "recovery-required"
       /\ tail' = IF again THEN Append(stale, DrainTask) ELSE stale
       /\ draining' = IF task.kind = "drain" THEN again ELSE draining
       /\ Idle /\ UNCHANGED woken

\* fail: the abort signal rejects everything that waits.
Fail ==
    /\ ws' = "failed" /\ woken' = FALSE /\ draining' = FALSE /\ tail' = <<>>
    /\ Idle

To(label) == pc' = label /\ UNCHANGED <<task, cur, rest, intent, proved>> /\ UNCHANGED signals

Phase(p) == op' = [op EXCEPT ![cur].phase = p] /\ UNCHANGED order

----------------------------------------------------------------------------
Init ==
    /\ file = {} /\ litter = {} /\ marker = {} /\ owned = {}
    /\ order = <<>>
    /\ op \in [Ops -> [phase : {"none"}, cand : {CHOOSE c \in Candidates : TRUE},
                       rule : {NoRule}, base : {{}}]]
    /\ cand \in [Candidates -> [status : {"confirmed"}, review : {"active"},
                                rule : Rules, lease : {"none"}]]
    /\ \A c \in Candidates : cand[c].rule \in Choices(c)
    /\ review = TRUE
    /\ up = FALSE /\ ws = "disabled" /\ woken = FALSE /\ draining = FALSE /\ tail = <<>>
    /\ pc = "idle" /\ task = NoTask /\ cur = NoOp /\ rest = {}
    /\ intent = NoIntent /\ proved = FALSE
    /\ edits = 0 /\ faults = 0

----------------------------------------------------------------------------
(* The process and its environment *)

Boot ==
    /\ ~up /\ up' = TRUE
    /\ UNCHANGED <<durable, signals, running, edits, faults>>

\* start: recovery comes before any submission is accepted.
Start ==
    /\ up /\ ws = "disabled"
    /\ ws' = "recovering"
    /\ tail' = Append(tail, RecoverTask)
    /\ UNCHANGED <<durable, up, woken, draining, running, edits, faults>>

\* wake: the live loop found the engine again, or the observer reports health.
Wake ==
    /\ up /\ ws \in {"ready", "recovering", "recovery-required"}
    /\ woken' = TRUE /\ ws' = "recovering" /\ draining' = TRUE
    /\ tail' = IF draining THEN tail ELSE Append(tail, DrainTask)
    /\ UNCHANGED <<durable, up, running, edits, faults>>

Stopped ==
    /\ up' = FALSE /\ ws' = "disabled" /\ woken' = FALSE /\ draining' = FALSE /\ tail' = <<>>
    /\ Idle
    /\ cand' = [c \in Candidates |->
                  IF cand[c].lease = "live" THEN [cand[c] EXCEPT !.lease = "lost"] ELSE cand[c]]

Crash ==
    /\ up /\ Fault /\ Stopped
    /\ UNCHANGED <<store, journal, review, edits>>

UsesStore ==
    \/ pc \in {"veto", "commit", "proveBefore", "activate", "proveAfter"}
    \/ pc = "execute" /\ op[cur].phase = "prepared"
    \/ pc = "idle" /\ tail # <<>> /\ tail[1].kind = "submit"

\* A crash while the store lock is held leaves it, and around the rename of
\* atomicWrite the temporary file or the new content.
CrashInStore ==
    /\ up /\ UsesStore /\ "lock" \notin litter
    /\ Fault /\ Stopped
    /\ \/ litter' = litter \cup {"lock"} /\ UNCHANGED file
       \/ /\ pc = "commit" /\ litter = {} /\ file = op[cur].base
          /\ \/ litter' = {"lock", "tmp"} /\ UNCHANGED file
             \/ litter' = {"lock"} /\ file' = Goal(cur)
    /\ UNCHANGED <<marker, journal, review, edits>>

\* docs/runbooks/domain-rules.md: leftovers are removed with all writers stopped.
CleanUp ==
    /\ ~up /\ litter # {}
    /\ litter' = {}
    /\ UNCHANGED <<file, marker, journal, cand, review, up, signals, running, edits, faults>>

\* Somebody else edits custom.txt.
OutsideEdit ==
    /\ Tampering /\ Fault
    /\ \E r \in Rules : file' = IF r \in file THEN file \ {r} ELSE file \cup {r}
    /\ UNCHANGED <<litter, marker, journal, cand, review, up, signals, running, edits>>

\* What the deployment accepts without asking anybody: the content it attested last,
\* or the one an unfinished operation is to leave.
Recognised ==
    \/ file = marker
    \/ \E o \in Ops : op[o].phase \in {"prepared", "committed", "activating", "partial"}
                       /\ file = Goal(o)

\* provisionStore, at the start of the process and whenever the engine is back.
Provision ==
    /\ up /\ litter = {}
    /\ \A o \in Ops : op[o].phase # "reconciliation-required"
    /\ Recognised
    /\ marker' = file
    /\ UNCHANGED <<file, litter, journal, cand, review, up, signals, running, edits, faults>>

----------------------------------------------------------------------------
(* Candidates: the administrator's mutations take their turn on the tail, the *)
(* validation scheduler does not.                                            *)

Serialized ==
    /\ up /\ pc = "idle" /\ edits < MaxEdits
    /\ edits' = edits + 1
    /\ UNCHANGED <<store, journal, up, signals, running, faults>>

Row(c, row) == cand' = [cand EXCEPT ![c] = row]
Leased(c) == cand[c].lease # "none"
Queued(c, r) == [cand[c] EXCEPT !.status = "queued", !.rule = r, !.lease = "none"]

Reject(c) ==
    /\ Serialized /\ cand[c].review = "active" /\ cand[c].status # "excluded"
    /\ Row(c, [cand[c] EXCEPT !.review = "rejected"]) /\ UNCHANGED review

\* The settings that excluded a candidate still do.
Restore(c) ==
    /\ Serialized /\ cand[c].review = "rejected" /\ ~Leased(c)
    /\ Row(c, [IF cand[c].status = "excluded" THEN cand[c] ELSE Queued(c, cand[c].rule)
                  EXCEPT !.review = "active"])
    /\ UNCHANGED review

SelectScope(c) ==
    /\ Serialized /\ cand[c].review = "active" /\ cand[c].status # "excluded" /\ ~Leased(c)
    /\ \E r \in Choices(c) \ {cand[c].rule} : Row(c, Queued(c, r))
    /\ UNCHANGED review

Recheck(c) ==
    /\ Serialized /\ cand[c].review = "active" /\ cand[c].status # "excluded" /\ ~Leased(c)
    /\ Row(c, Queued(c, cand[c].rule)) /\ UNCHANGED review

\* New settings carry a filter policy, which says of each candidate whether it is
\* excluded or held to its exact rule, and a default scope. A candidate whose
\* proposal changes loses its lease; the review verdict stays.
ChangeSettings(mode, policy, wide) ==
    /\ Serialized
    /\ review' = mode
    /\ cand' = [c \in Candidates |->
          LET r == IF policy[c] = "exact" THEN Exact[c]
                   ELSE IF cand[c].status # "excluded" THEN cand[c].rule
                   ELSE IF wide THEN Site[c] ELSE Exact[c]
          IN IF policy[c] = "excluded"
             THEN [cand[c] EXCEPT !.status = "excluded", !.rule = NoRule, !.lease = "none"]
             ELSE IF r = cand[c].rule THEN cand[c] ELSE Queued(c, r)]

NoOperationOf(c) == \A o \in Unfinished : op[o].cand # c

\* claimDomainValidationRun, which the scheduler reaches only while the worker
\* accepts submissions.
Claim(c) ==
    /\ up /\ ws = "ready" /\ NoOperationOf(c)
    /\ cand[c].review = "active" /\ cand[c].status \notin {"excluded", "applied"} /\ ~Leased(c)
    /\ Row(c, [cand[c] EXCEPT !.status = "pending", !.lease = "live"])
    /\ UNCHANGED <<store, journal, review, up, signals, running, edits, faults>>

\* completeDomainValidationRun, failDomainValidationRun, or for a lost lease
\* recoverExpiredDomainValidationRuns.
ValidationEnds(c) ==
    /\ up /\ Leased(c)
    /\ \E s \in IF cand[c].lease = "live" THEN {"pending", "confirmed", "blocked"} ELSE {"pending"} :
          Row(c, [cand[c] EXCEPT !.status = s, !.lease = "none"])
    /\ UNCHANGED <<store, journal, review, up, signals, running, edits, faults>>

----------------------------------------------------------------------------
(* Tasks *)

\* applyConfirmedDomainCandidate: a terminal or partial operation is answered
\* from the journal; anything else is submitted to a ready worker.
SubmitRequest(o, c) ==
    /\ up /\ ws = "ready" /\ Len(tail) < MaxQueue
    /\ op[o].phase = "none" \/ op[o].cand = c
    /\ op[o].phase \notin {"completed", "partial", "aborted"}
    /\ tail' = Append(tail, [kind |-> "submit", op |-> o, cand |-> c, fresh |-> TRUE])
    /\ UNCHANGED <<durable, up, ws, woken, draining, running, edits, faults>>

Take(kind) == up /\ pc = "idle" /\ tail # <<>> /\ tail[1].kind = kind /\ tail' = Tail(tail)
Confirmed(c) == cand[c].status = "confirmed" /\ cand[c].review = "active"

\* A submission that prepares nothing fails alone: the worker stays as it is.
RefuseSubmit ==
    /\ Take("submit")
    /\ \/ ~tail[1].fresh /\ UNCHANGED faults
       \/ op[tail[1].op].phase # "none" /\ op[tail[1].op].cand # tail[1].cand /\ UNCHANGED faults
       \/ op[tail[1].op].phase = "none"
            /\ (~review \/ ~Confirmed(tail[1].cand) \/ litter # {} \/ cand[tail[1].cand].rule \in file)
            /\ UNCHANGED faults
       \/ op[tail[1].op].phase = "none" /\ Fault \* capability lost
    /\ UNCHANGED <<durable, up, ws, woken, draining, running, edits>>

\* The same operation again: execute what the journal holds.
ResumeSubmit ==
    /\ Take("submit")
    /\ tail[1].fresh /\ op[tail[1].op].phase # "none" /\ op[tail[1].op].cand = tail[1].cand
    /\ pc' = "execute" /\ task' = tail[1] /\ cur' = tail[1].op
    /\ UNCHANGED <<durable, up, ws, woken, draining, rest, intent, proved, edits, faults>>

\* prepareLocalDomainRuleMutationIntent
TakeIntent ==
    /\ Take("submit")
    /\ tail[1].fresh /\ op[tail[1].op].phase = "none"
    /\ review /\ Confirmed(tail[1].cand) /\ litter = {} /\ cand[tail[1].cand].rule \notin file
    /\ pc' = "prepare" /\ task' = tail[1]
    /\ intent' = [rule |-> cand[tail[1].cand].rule, base |-> file]
    /\ UNCHANGED <<durable, up, ws, woken, draining, cur, rest, proved, edits, faults>>

\* Mutant: the candidate's lease is not read again.
MayPrepareLeased(c) == cand[c].review = "active" /\ cand[c].rule = intent.rule /\ NoOperationOf(c)

\* What prepareDomainRuleOperation requires of the candidate and the journal.
MayPrepare(c) ==
    /\ Confirmed(c) /\ cand[c].rule = intent.rule /\ ~Leased(c)
    /\ NoOperationOf(c)
    /\ \A o \in Ops : op[o].phase # "reconciliation-required"

PrepareOperation ==
    /\ up /\ pc = "prepare"
    /\ IF MayPrepare(task.cand)
       THEN /\ op' = [op EXCEPT ![task.op] = [phase |-> "prepared", cand |-> task.cand,
                                             rule |-> intent.rule, base |-> intent.base]]
            /\ order' = Append(order, task.op)
            /\ pc' = "execute" /\ cur' = task.op /\ UNCHANGED <<task, rest, intent, proved>>
       ELSE Idle /\ UNCHANGED <<op, order>>
    /\ UNCHANGED <<store, owned, cand, review, up, signals, edits, faults>>

RunRecovery ==
    /\ Take("recover")
    /\ pc' = "next" /\ task' = tail[1] /\ rest' = Unfinished
    /\ UNCHANGED <<durable, up, ws, woken, draining, cur, intent, proved, edits, faults>>

RunDrain ==
    /\ Take("drain")
    /\ woken' = FALSE
    /\ pc' = "next" /\ task' = tail[1] /\ rest' = Unfinished
    /\ UNCHANGED <<durable, up, ws, draining, cur, intent, proved, edits, faults>>

\* drainUnfinished takes the oldest operation left: the list is sorted by createdAt.
NextOperation ==
    /\ pc = "next"
    /\ \E i \in 1..Len(order) :
          /\ order[i] \in rest /\ \A j \in 1..(i - 1) : order[j] \notin rest
          /\ cur' = order[i]
    /\ pc' = "execute"
    /\ UNCHANGED <<durable, up, signals, task, rest, intent, proved, edits, faults>>

BecomeReady == ws' = IF ws = "recovering" THEN "ready" ELSE ws

\* The snapshot is done. A startup leaves the last word to a pending drain, a
\* drain reads the journal again when it was woken meanwhile.
PassEnds ==
    /\ pc = "next" /\ rest = {}
    /\ \/ /\ task.kind = "recover"
          /\ IF draining \/ woken THEN UNCHANGED ws ELSE BecomeReady
          /\ Idle /\ UNCHANGED <<woken, draining>>
       \/ /\ task.kind = "drain" /\ woken
          /\ woken' = FALSE /\ rest' = Unfinished
          /\ UNCHANGED <<ws, draining, pc, task, cur, intent, proved>>
       \/ /\ task.kind = "drain" /\ ~woken
          /\ BecomeReady /\ draining' = FALSE
          /\ Idle /\ UNCHANGED woken
    /\ UNCHANGED <<durable, up, tail, edits, faults>>

----------------------------------------------------------------------------
(* executeDomainRuleOperation *)

Terminal ==
    /\ pc = "execute"
    /\ \/ op[cur].phase \in {"completed", "aborted"} /\ Settled
       \/ op[cur].phase = "reconciliation-required" /\ Fail
    /\ UNCHANGED <<durable, up, edits, faults>>

\* Mutant: a file that already holds the intended content is not recognised.
ExpectedOnly(o) == IF file = op[o].base THEN "expected" ELSE "unknown"

\* attestLocalDomainRuleOperationState
StoreState(o) ==
    IF file = op[o].base THEN "expected" ELSE IF file = Goal(o) THEN "written" ELSE "unknown"

\* Mutant: an operation whose store is unavailable is given up.
UnprovedAborts ==
    /\ IF "lock" \in litter THEN Phase("aborted") ELSE Phase("reconciliation-required")
    /\ Fail

\* A store that cannot be proved: a lock is somebody else's business, anything
\* else fences the operation.
Unproved ==
    /\ IF "lock" \in litter THEN UNCHANGED <<op, order>> ELSE Phase("reconciliation-required")
    /\ Fail

Attest ==
    /\ pc = "execute" /\ op[cur].phase = "prepared"
    /\ IF litter # {} \/ StoreState(cur) = "unknown" THEN Unproved
       ELSE To(IF StoreState(cur) = "written" THEN "finalize" ELSE "preflight") /\ UNCHANGED <<op, order>>
    /\ UNCHANGED <<store, owned, cand, review, up, edits, faults>>

\* Mutant: the verdict taken when the operation was prepared still holds.
StillPrepared(o) == TRUE

Authorized(o) ==
    review /\ Confirmed(op[o].cand) /\ cand[op[o].cand].rule = op[o].rule

\* createDomainRulePreparedPreflight: lost authorization or evidence is a veto, a
\* lease or an unhealthy environment a deferral.
Preflight ==
    /\ pc = "preflight"
    /\ \/ ~Authorized(cur) /\ To("veto") /\ UNCHANGED faults
       \/ Authorized(cur) /\ Leased(op[cur].cand) /\ Suspend /\ UNCHANGED faults
       \/ Authorized(cur) /\ ~Leased(op[cur].cand) /\ To("commit") /\ UNCHANGED faults
       \/ Fault /\ (Suspend \/ To("veto"))
    /\ UNCHANGED <<durable, up, edits>>

\* abortPreparedDomainRuleOperation
Abort == Phase("aborted") /\ Settled

\* The veto is final after one more attestation.
Veto ==
    /\ pc = "veto"
    /\ IF litter # {} \/ StoreState(cur) # "expected" THEN Unproved
       ELSE Abort
    /\ UNCHANGED <<store, owned, cand, review, up, edits, faults>>

\* Mutant: the commit trusts the attestation made before the preflight.
Blind(o) == TRUE

\* The revision commitPreparedDomainRuleMutation finds under its own lock.
Current(o) == file = op[o].base

\* atomicWrite throws before or after its rename; the temporary file stays only when
\* somebody hinders its removal.
WriteFails ==
    /\ Fault /\ Fail
    /\ file' \in {file, Goal(cur)}
    /\ litter' \in IF Tampering /\ file' = file THEN {{}, {"tmp"}} ELSE {{}}
    /\ UNCHANGED marker

\* The file is replaced and its content recorded, or the write fails.
Commit ==
    /\ pc = "commit"
    /\ \/ /\ litter # {} \/ ~Current(cur)
          /\ Unproved /\ UNCHANGED <<store, faults>>
       \/ /\ litter = {} /\ Current(cur)
          /\ file' = Goal(cur) /\ marker' = Goal(cur) /\ To("finalize")
          /\ UNCHANGED <<litter, op, order, faults>>
       \/ litter = {} /\ Current(cur) /\ WriteFails /\ UNCHANGED <<op, order>>
    /\ UNCHANGED <<owned, cand, review, up, edits>>

\* finalizeDomainRuleWrite: one transaction, which asks the candidate again.
Finalize ==
    /\ pc = "finalize"
    /\ LET c == op[cur].cand
       IN IF Confirmed(c) /\ cand[c].rule = op[cur].rule /\ ~Leased(c)
          THEN /\ Phase("committed")
               /\ owned' = owned \cup {op[cur].rule}
               /\ Row(c, [cand[c] EXCEPT !.status = "applied"])
               /\ To("begin")
          ELSE Fail /\ UNCHANGED <<journal, cand>>
    /\ UNCHANGED <<store, review, up, edits, faults>>

\* Mutant: an attempt that a crash interrupted is not taken up again.
Startable == {"committed", "partial"}

\* The phases from which beginDomainRuleActivation yields an attempt.
Activatable == {"committed", "partial", "activating"}

Begin ==
    /\ pc \in {"execute", "begin"} /\ op[cur].phase \in {"committed", "partial", "activating"}
    /\ IF op[cur].phase \in Activatable
       THEN Phase("activating") /\ To("proveBefore")
       ELSE Fail /\ UNCHANGED <<op, order>>
    /\ UNCHANGED <<store, owned, cand, review, up, edits, faults>>

Proved == litter = {} /\ file = Goal(cur)

\* attestWritten records the content it has proved.
Attested == marker' = file

\* attestWritten failed: a lock makes the attempt partial, anything else fences.
Doubted ==
    IF "lock" \in litter THEN Phase("partial") /\ Suspend
    ELSE Phase("reconciliation-required") /\ Fail

ProveBefore ==
    /\ pc = "proveBefore"
    /\ IF Proved THEN Attested /\ To("activate") /\ UNCHANGED <<op, order>>
       ELSE Doubted /\ UNCHANGED marker
    /\ UNCHANGED <<file, litter, owned, cand, review, up, edits, faults>>

\* The forced reload of the engine and the proof of the managed provider.
Activate ==
    /\ pc = "activate"
    /\ \/ Proved /\ proved' = TRUE /\ UNCHANGED faults
       \/ ~Proved /\ proved' = FALSE /\ UNCHANGED faults
       \/ Fault /\ proved' = FALSE
    /\ pc' = "proveAfter"
    /\ UNCHANGED <<durable, up, signals, task, cur, rest, intent, edits>>

\* completeDomainRuleActivation
Conclude == IF proved THEN Phase("completed") /\ Settled ELSE Phase("partial") /\ Suspend

\* The content is proved once more before the outcome is recorded.
ProveAfter ==
    /\ pc = "proveAfter"
    /\ IF ~Proved THEN Doubted /\ UNCHANGED marker
       ELSE Attested /\ Conclude
    /\ UNCHANGED <<file, litter, owned, cand, review, up, edits, faults>>

----------------------------------------------------------------------------
Environment == Boot \/ Crash \/ CrashInStore \/ CleanUp \/ OutsideEdit \/ Provision \/ Wake
Review ==
    \/ \E c \in Candidates : Reject(c) \/ Restore(c) \/ SelectScope(c) \/ Recheck(c)
    \/ \E mode, wide \in BOOLEAN, policy \in [Candidates -> {"excluded", "exact", "open"}] :
          ChangeSettings(mode, policy, wide)
Validation == \E c \in Candidates : Claim(c) \/ ValidationEnds(c)
Clients == \E o \in Ops, c \in Candidates : SubmitRequest(o, c)
Worker ==
    \/ RefuseSubmit \/ ResumeSubmit \/ TakeIntent \/ PrepareOperation
    \/ RunRecovery \/ RunDrain \/ NextOperation \/ PassEnds
    \/ Terminal \/ Attest \/ Preflight \/ Veto \/ Commit \/ Finalize
    \/ Begin \/ ProveBefore \/ Activate \/ ProveAfter

Next == Environment \/ Start \/ Review \/ Validation \/ Clients \/ Worker

Spec == Init /\ [][Next]_vars

\* A supervisor restarts the process, index.ts starts the worker once the
\* deployment is reconciled, and the event loop runs what waits.
Fairness == WF_vars(Boot) /\ WF_vars(Start) /\ WF_vars(Worker)
LiveSpec == Spec /\ Fairness

----------------------------------------------------------------------------
(* Properties *)

\* Every variable stays in its type, and a running task names what it runs.
TypeOK ==
    /\ file \subseteq Rules /\ litter \subseteq {"lock", "tmp"} /\ marker \subseteq Rules
    /\ op \in [Ops -> Operations] /\ order \in Seq(Ops) /\ owned \subseteq Rules
    /\ cand \in [Candidates -> CandidateRows] /\ review \in BOOLEAN
    /\ up \in BOOLEAN /\ woken \in BOOLEAN /\ draining \in BOOLEAN
    /\ ws \in {"disabled", "recovering", "ready", "recovery-required", "failed"}
    /\ tail \in Seq(Tasks)
    /\ pc \in PCs /\ (pc = "idle") = (task = NoTask)
    /\ task # NoTask => task \in Tasks
    /\ (pc \in {"idle", "prepare", "next"}) = (cur = NoOp)
    /\ cur # NoOp => cur \in Ops /\ op[cur].phase # "none"
    /\ rest \subseteq Ops
    /\ intent \in [rule : Rules \cup {NoRule}, base : SUBSET Rules]
    /\ proved \in BOOLEAN /\ edits \in Nat /\ faults \in Nat

\* One mutation at a time, for the whole life of the database: however
\* submissions, wakes, deferrals and restarts interleave, the journal never holds
\* two unfinished operations, whose digests could not both be proved, and a worker
\* that accepts submissions has nothing left to recover.
ReadyMeansRecovered ==
    /\ \A o, q \in Unfinished : o = q
    /\ ws = "ready" => Unfinished \subseteq {cur}

\* A candidate is never validated while an operation for it is unfinished.
LeaseFence == \A o \in Unfinished : ~Leased(op[o].cand)

\* The rule file changes only for a candidate that is confirmed, active, unleased
\* and still proposes this very rule, while review mode is on: what was true when
\* the operation was prepared is true again when it is written.
AuthorizedWrite ==
    [][pc = "commit" /\ file' # file =>
          review /\ cand[op[cur].cand] = [status |-> "confirmed", review |-> "active",
                                         rule |-> op[cur].rule, lease |-> "none"]]_vars

\* Nobody else writing: the file holds the owned rules and at most one more, that
\* of an operation whose write is still to be finalized.
OwnershipMatchesFile ==
    ~Tampering =>
        /\ owned \subseteq file
        /\ \A r \in file \ owned : \E o \in Ops : op[o].phase = "prepared" /\ op[o].rule = r

\* Nobody else writing: no crash, retry or deferral makes the journal ask for a
\* manual reconciliation, nor the next deployment take the file for one that was
\* changed outside, although the content is recorded after it is written.
NoFalseAlarm ==
    ~Tampering => /\ \A o \in Ops : op[o].phase # "reconciliation-required"
                  /\ Recognised

\* A restart can finish what was written: the lock is free and the file is still
\* what the operation made of it.
Resumable(o) ==
    /\ litter = {} /\ file = Goal(o)
    /\ op[o].phase \in {"committed", "activating", "partial"}

\* A rule written before a crash is activated by the next process, once faults end,
\* unless the lock it left is still there or others changed the file meanwhile.
RestartCompletes ==
    \A o \in Ops : (faults = MaxFaults /\ ~up /\ Resumable(o)) ~> op[o].phase = "completed"

\* An outside edit of the rule file is never overwritten, not even one made between
\* the attestation of an operation and its write.
OutsideEditKept ==
    [][pc = "commit" /\ file' # file /\ pc' # "commit" => file = op[cur].base]_vars

\* ADR 0006: a startup reconciles an unfinished operation against the expected or
\* the resulting digest, and fails closed on an unknown third state only.
RestartReconciles ==
    \A o \in Ops :
        (faults = MaxFaults /\ ~up /\ litter = {} /\ op[o].phase = "prepared" /\ StoreState(o) # "unknown")
            ~> op[o].phase \in {"completed", "aborted"}

=============================================================================
