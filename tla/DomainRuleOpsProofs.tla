------------------------ MODULE DomainRuleOpsProofs ------------------------
(***************************************************************************)
(* Proofs about DomainRuleOps, for every set of operations, candidates and *)
(* rules, with and without other writers, and for every value of the       *)
(* bounds: types, the fence between operations, validations and the rule   *)
(* file; and what that file holds as long as nobody else writes it.        *)
(***************************************************************************)
EXTENDS DomainRuleOps, TLAPS

----------------------------------------------------------------------------
(* The inductive invariant *)

\* Only an excluded candidate has no rule, and it is never leased.
CandidatesOK ==
    \A c \in Candidates :
        /\ cand[c].status = "excluded" => cand[c].lease = "none"
        /\ cand[c].status # "excluded" => cand[c].rule \in Rules

\* A row of the journal names the rule it publishes.
RowsOK == \A o \in Ops : op[o].phase # "none" => op[o].rule \in Rules

\* What a task has reached says what the journal holds of its operation.
AtStep ==
    /\ pc = "prepare" => /\ task \in SubmitTasks /\ op[task.op].phase = "none"
                         /\ intent.rule \in Rules
    /\ pc = "next" => task.kind # "submit"
    /\ pc \in {"preflight", "veto", "commit", "finalize"} => op[cur].phase = "prepared"
    /\ pc = "begin" => op[cur].phase = "committed"
    /\ pc \in {"proveBefore", "activate", "proveAfter"} => op[cur].phase = "activating"

\* The snapshot of a pass has every unfinished operation in it, the running one included.
PassCovers ==
    /\ \A o \in rest : op[o].phase # "none"
    /\ (task # NoTask /\ task.kind # "submit") =>
          /\ Unfinished \subseteq rest
          /\ cur # NoOp => cur \in rest

FreshWaits == \E i \in 1..Len(tail) : tail[i].kind = "submit" /\ tail[i].fresh

\* Nobody waits for anything else than the running operation while the worker is
\* ready, and, because a suspension refuses what was admitted before it, as long as
\* an admitted submission waits or runs.
Clear ==
    (ws = "ready" \/ FreshWaits \/ pc = "prepare" \/ (task # NoTask /\ task.kind = "submit"))
        => Unfinished \subseteq {cur}

\* At the write, the candidate still is what the preflight asked for.
Allowed ==
    pc = "commit" => review /\ cand[op[cur].cand] = [status |-> "confirmed", review |-> "active",
                                                    rule |-> op[cur].rule, lease |-> "none"]

IInv ==
    /\ TypeOK /\ CandidatesOK /\ RowsOK /\ AtStep /\ PassCovers
    /\ Clear /\ ReadyMeansRecovered /\ LeaseFence /\ Allowed

----------------------------------------------------------------------------
(* The operators the steps are built from *)

LEMMA TaskTypes ==
    ASSUME NEW t \in Tasks
    PROVE  /\ t # NoTask
           /\ t.kind = "submit" => t \in SubmitTasks /\ t.op \in Ops /\ t.cand \in Candidates
                                   /\ t.fresh \in BOOLEAN
           /\ t.kind # "submit" => t \notin SubmitTasks
           /\ t.kind \in {"submit", "recover", "drain"}
  BY NoTaskAssumption DEF Tasks, SubmitTasks, RecoverTask, DrainTask

\* A task leaves the tail.
LEMMA TakeTask ==
    ASSUME TypeOK, NEW kind, Take(kind)
    PROVE  /\ tail[1] \in Tasks /\ tail[1].kind = kind
           /\ tail' \in Seq(Tasks)
           /\ FreshWaits' => FreshWaits
           /\ (kind = "submit" /\ tail[1].fresh) => FreshWaits
           /\ pc = "idle" /\ task = NoTask /\ cur = NoOp
<1>1. /\ tail \in Seq(Tasks) /\ tail # <<>> /\ Len(tail) \in Nat /\ Len(tail) # 0
      /\ tail[1] \in Tasks /\ tail[1].kind = kind /\ tail' = Tail(tail)
      /\ pc = "idle" /\ task = NoTask /\ cur = NoOp
  BY DEF TypeOK, Take
<1>2. /\ tail' \in Seq(Tasks) /\ Len(tail') = Len(tail) - 1
      /\ \A i \in 1..(Len(tail) - 1) : tail'[i] = tail[i + 1]
  BY <1>1
<1>3. FreshWaits' => FreshWaits
  BY <1>1, <1>2 DEF FreshWaits
<1>4. (kind = "submit" /\ tail[1].fresh) => FreshWaits
  BY <1>1 DEF FreshWaits
<1> QED BY <1>1, <1>2, <1>3, <1>4

\* A task joins the tail.
LEMMA Joins ==
    ASSUME NEW q \in Seq(Tasks), NEW t \in Tasks
    PROVE  /\ Append(q, t) \in Seq(Tasks) /\ Len(Append(q, t)) = Len(q) + 1
           /\ \A i \in 1..Len(q) : Append(q, t)[i] = q[i]
           /\ Append(q, t)[Len(q) + 1] = t
  OBVIOUS

\* A task that is not a submission joins the tail.
LEMMA JoinsUnadmitted ==
    ASSUME TypeOK, NEW t \in {RecoverTask, DrainTask}, tail' = Append(tail, t)
    PROVE  tail' \in Seq(Tasks) /\ (FreshWaits' => FreshWaits)
<1>1. t \in Tasks /\ t.kind # "submit" /\ tail \in Seq(Tasks) /\ Len(tail) \in Nat
  BY DEF Tasks, RecoverTask, DrainTask, TypeOK
<1> QED BY <1>1, Joins DEF FreshWaits

LEMMA RefusedTask ==
    ASSUME NEW t \in Tasks
    PROVE  Refused(t) \in Tasks /\ ~(Refused(t).kind = "submit" /\ Refused(t).fresh)
<1>1. CASE t.kind = "submit"
  <2>1. t \in SubmitTasks
    BY <1>1, TaskTypes
  <2> QED BY <1>1, <2>1 DEF Refused, SubmitTasks, Tasks
<1>2. CASE t.kind # "submit"
  BY <1>2 DEF Refused
<1> QED BY <1>1, <1>2

\* After a suspension nothing that was admitted before it waits.
LEMMA Suspended ==
    ASSUME TypeOK, Suspend
    PROVE  /\ tail' \in Seq(Tasks) /\ ~FreshWaits'
           /\ ws' \in {"recovering", "recovery-required"}
           /\ woken' \in BOOLEAN /\ draining' \in BOOLEAN
           /\ Idle
<1> DEFINE stale == [i \in 1..Len(tail) |-> Refused(tail[i])]
<1>1. tail \in Seq(Tasks) /\ Len(tail) \in Nat /\ woken \in BOOLEAN /\ draining \in BOOLEAN
  BY DEF TypeOK
<1>2. \A i \in 1..Len(tail) : stale[i] \in Tasks /\ ~(stale[i].kind = "submit" /\ stale[i].fresh)
  BY <1>1, RefusedTask
<1>3. stale \in Seq(Tasks) /\ Len(stale) = Len(tail)
  BY <1>1, <1>2
<1>4. DrainTask \in Tasks /\ DrainTask.kind # "submit"
  BY DEF Tasks, DrainTask
<1> HIDE DEF stale
<1>5. /\ Append(stale, DrainTask) \in Seq(Tasks)
      /\ \A i \in 1..Len(Append(stale, DrainTask)) :
            ~(Append(stale, DrainTask)[i].kind = "submit" /\ Append(stale, DrainTask)[i].fresh)
  BY <1>1, <1>2, <1>3, <1>4, Joins
<1>6. \/ tail' = Append(stale, DrainTask)
      \/ tail' = stale
  BY DEF Suspend, stale
<1>7. tail' \in Seq(Tasks) /\ ~FreshWaits'
  BY <1>1, <1>2, <1>3, <1>5, <1>6 DEF FreshWaits
<1> QED BY <1>1, <1>7 DEF Suspend

LEMMA Failed ==
    ASSUME Fail
    PROVE  /\ tail' \in Seq(Tasks) /\ ~FreshWaits' /\ ws' = "failed"
           /\ woken' = FALSE /\ draining' = FALSE /\ Idle
  BY DEF Fail, FreshWaits

\* One operation changes its phase.
LEMMA PhaseChanges ==
    ASSUME TypeOK, cur \in Ops, NEW p \in Phases, Phase(p)
    PROVE  /\ op' \in [Ops -> Operations]
           /\ op'[cur].phase = p
           /\ \A o \in Ops : o # cur => op'[o] = op[o]
           /\ \A o \in Ops : /\ op'[o].rule = op[o].rule /\ op'[o].cand = op[o].cand
                             /\ op'[o].base = op[o].base
           /\ p \in UnfinishedPhases => Unfinished' = Unfinished \cup {cur}
           /\ p \notin UnfinishedPhases => Unfinished' = Unfinished \ {cur}
           /\ order' = order
<1>1. op \in [Ops -> Operations]
  BY DEF TypeOK
<1>2. op' = [op EXCEPT ![cur] = [op[cur] EXCEPT !.phase = p]]
  BY <1>1 DEF Phase, Operations
<1>3. [op[cur] EXCEPT !.phase = p] \in Operations
  BY <1>1 DEF Operations
<1>4. /\ op' \in [Ops -> Operations]
      /\ op'[cur].phase = p
      /\ \A o \in Ops : o # cur => op'[o] = op[o]
  BY <1>1, <1>2, <1>3 DEF Operations
<1>5. \A o \in Ops : /\ op'[o].rule = op[o].rule /\ op'[o].cand = op[o].cand
                     /\ op'[o].base = op[o].base
  BY <1>1, <1>2, <1>3 DEF Operations
<1>6. /\ p \in UnfinishedPhases => Unfinished' = Unfinished \cup {cur}
      /\ p \notin UnfinishedPhases => Unfinished' = Unfinished \ {cur}
  BY <1>4 DEF Unfinished
<1> QED BY <1>4, <1>5, <1>6 DEF Phase

----------------------------------------------------------------------------
(* Every step keeps it *)

THEOREM Initially == Init => IInv
<1> SUFFICES ASSUME Init PROVE IInv
  OBVIOUS
<1>1. op \in [Ops -> Operations] /\ \A o \in Ops : op[o].phase = "none"
  BY DomainRuleAssumption DEF Init, Operations, Phases
<1>2. cand \in [Candidates -> CandidateRows] /\ \A c \in Candidates : cand[c].status = "confirmed" /\ cand[c].rule \in Rules
  BY DomainRuleAssumption DEF Init, CandidateRows
<1>3. TypeOK
  <2>1. order \in Seq(Ops) /\ tail \in Seq(Tasks)
    BY DEF Init
  <2>2. /\ intent \in [rule : Rules \cup {NoRule}, base : SUBSET Rules]
        /\ pc = "idle" /\ pc \in PCs /\ task = NoTask /\ cur = NoOp
    BY DEF Init, NoIntent, PCs
  <2>3. edits \in Nat /\ faults \in Nat /\ proved \in BOOLEAN /\ review \in BOOLEAN
    BY DEF Init
  <2> QED BY <1>1, <1>2, <2>1, <2>2, <2>3 DEF Init, TypeOK
<1>4. Unfinished = {}
  BY <1>1 DEF Unfinished, UnfinishedPhases
<1> QED BY <1>1, <1>2, <1>3, <1>4 DEF Init, IInv, CandidatesOK, RowsOK, AtStep, PassCovers, Clear,
       ReadyMeansRecovered, LeaseFence, Allowed

\* Steps that touch neither the journal, nor a candidate, nor the running task.
LEMMA QuietSteps ==
    ASSUME IInv, Boot \/ CleanUp \/ OutsideEdit \/ Provision \/ Start \/ Wake \/ (\E o \in Ops, c \in Candidates : SubmitRequest(o, c))
    PROVE  IInv'
<1> USE DEF IInv
<1>1. /\ UNCHANGED <<op, order, owned, cand, review, running, edits>>
      /\ up' \in BOOLEAN /\ woken' \in BOOLEAN /\ draining' \in BOOLEAN
      /\ ws' \in {"disabled", "recovering", "ready", "recovery-required", "failed"}
  BY DEF TypeOK, Boot, CleanUp, OutsideEdit, Provision, Start, Wake, SubmitRequest, journal, durable, signals
<1>2. file' \subseteq Rules /\ litter' \subseteq {"lock", "tmp"} /\ marker' \subseteq Rules
  BY DEF TypeOK, Boot, CleanUp, OutsideEdit, Provision, Start, Wake, SubmitRequest, durable
<1>3. faults' \in Nat
  <2>1. CASE OutsideEdit
    BY <2>1 DEF OutsideEdit, Fault, TypeOK
  <2>2. CASE UNCHANGED faults
    BY <2>2 DEF TypeOK
  <2> QED BY <2>1, <2>2 DEF Boot, CleanUp, Provision, Start, Wake, SubmitRequest
<1>4. tail' \in Seq(Tasks) /\ (ws' = "ready" \/ FreshWaits' => ws = "ready" \/ FreshWaits)
  <2>1. CASE Boot \/ CleanUp \/ OutsideEdit \/ Provision
    BY <2>1 DEF TypeOK, Boot, CleanUp, OutsideEdit, Provision, signals, FreshWaits
  <2>2. CASE Start \/ Wake
    BY <2>2, JoinsUnadmitted DEF TypeOK, Start, Wake, FreshWaits
  <2>3. CASE \E o \in Ops, c \in Candidates : SubmitRequest(o, c)
    <3>1. PICK o \in Ops, c \in Candidates : SubmitRequest(o, c)
      BY <2>3
    <3> DEFINE t == [kind |-> "submit", op |-> o, cand |-> c, fresh |-> TRUE]
    <3>2. t \in Tasks
      BY DEF Tasks, SubmitTasks
    <3>3. tail' = Append(tail, t) /\ ws = "ready" /\ tail \in Seq(Tasks)
      BY <3>1 DEF SubmitRequest, TypeOK
    <3> QED BY <3>2, <3>3, Joins
  <2> QED BY <2>1, <2>2, <2>3
<1>5. Unfinished' = Unfinished
  BY <1>1 DEF Unfinished
<1>6. TypeOK'
  BY <1>1, <1>2, <1>3, <1>4 DEF TypeOK, running
<1>7. CandidatesOK' /\ RowsOK' /\ AtStep' /\ PassCovers' /\ LeaseFence' /\ Allowed'
  BY <1>1, <1>5 DEF CandidatesOK, RowsOK, AtStep, PassCovers, LeaseFence, Leased, Allowed, running
<1>8. Clear' /\ ReadyMeansRecovered'
  BY <1>1, <1>4, <1>5 DEF Clear, ReadyMeansRecovered, running
<1> QED BY <1>6, <1>7, <1>8

\* The process ends.
LEMMA ProcessEnds ==
    ASSUME IInv, Crash \/ CrashInStore
    PROVE  IInv'
<1> USE DEF IInv
<1>1. /\ Stopped /\ UNCHANGED <<marker, op, order, owned, review, edits>> /\ faults' \in Nat
  BY DEF Crash, CrashInStore, store, journal, Fault, TypeOK
<1>2. litter' \subseteq {"lock", "tmp"}
  BY DEF Crash, CrashInStore, store, TypeOK
<1>3. file' \subseteq Rules
  <2>1. CASE UNCHANGED file
    BY <2>1 DEF TypeOK
  <2>2. CASE pc = "commit" /\ file' = Goal(cur)
    BY <2>2 DEF TypeOK, Goal, RowsOK, Operations
  <2> QED BY <2>1, <2>2 DEF Crash, CrashInStore, store
<1>4. /\ cand' \in [Candidates -> CandidateRows]
      /\ \A c \in Candidates : /\ cand'[c].status = cand[c].status /\ cand'[c].review = cand[c].review
                               /\ cand'[c].rule = cand[c].rule
                               /\ cand[c].lease = "none" => cand'[c].lease = "none"
  BY <1>1 DEF Stopped, TypeOK, CandidateRows
<1>5. Unfinished' = Unfinished
  BY <1>1 DEF Unfinished
<1>6. tail' = <<>> /\ tail' \in Seq(Tasks) /\ ~FreshWaits'
  BY <1>1 DEF Stopped, FreshWaits
<1>7. TypeOK'
  BY <1>1, <1>2, <1>3, <1>4, <1>6, DomainRuleAssumption DEF TypeOK, Stopped, Idle, NoIntent, PCs
<1>8. CandidatesOK' /\ RowsOK' /\ LeaseFence'
  BY <1>1, <1>4, <1>5 DEF CandidatesOK, RowsOK, LeaseFence, Leased, TypeOK, Operations, Unfinished
<1>9. AtStep' /\ PassCovers' /\ Clear' /\ ReadyMeansRecovered' /\ Allowed'
  BY <1>1, <1>5, <1>6 DEF Stopped, Idle, AtStep, PassCovers, Clear, ReadyMeansRecovered, Allowed
<1> QED BY <1>7, <1>8, <1>9

\* The administrator: between two tasks only.
LEMMA ReviewSteps ==
    ASSUME IInv, Review
    PROVE  IInv'
<1> USE DEF IInv
<1>1. Serialized
  BY DEF Review, Reject, Restore, SelectScope, Recheck, ChangeSettings
<1>2. review' \in BOOLEAN /\ edits' \in Nat
  <2>1. edits' \in Nat
    BY <1>1 DEF Serialized, TypeOK
  <2>2. review' \in BOOLEAN
    BY DEF Review, Reject, Restore, SelectScope, Recheck, ChangeSettings, TypeOK
  <2> QED BY <2>1, <2>2
<1> DEFINE Sound(r) == /\ r \in CandidateRows
                       /\ r.status = "excluded" => r.lease = "none"
                       /\ r.status # "excluded" => r.rule \in Rules
           Kept(c) == Sound(cand'[c]) /\ (cand[c].lease = "none" => cand'[c].lease = "none")
           AllKept == (\A c \in Candidates : Kept(c)) /\ cand' \in [Candidates -> CandidateRows]
<1>3. \A c \in Candidates : Sound(cand[c])
  BY DEF TypeOK, CandidatesOK
<1>4. ASSUME NEW c \in Candidates, NEW r \in Rules
      PROVE  Sound(Queued(c, r)) /\ Queued(c, r).lease = "none" /\ Queued(c, r).status = "queued"
             /\ Queued(c, r).review = cand[c].review
  BY <1>3 DEF Queued, CandidateRows
<1>5. ASSUME NEW c \in Candidates, NEW r, Row(c, r), Sound(r), cand[c].lease = "none" => r.lease = "none"
      PROVE  AllKept
  BY <1>3, <1>5 DEF Row, TypeOK
<1>6. AllKept
  <2>1. ASSUME NEW c \in Candidates, Reject(c) PROVE AllKept
    <3>1. Row(c, [cand[c] EXCEPT !.review = "rejected"])
      BY <2>1 DEF Reject
    <3>2. LET r == [cand[c] EXCEPT !.review = "rejected"]
          IN Sound(r) /\ (cand[c].lease = "none" => r.lease = "none")
      BY <1>3 DEF CandidateRows
    <3> QED BY <1>5, <3>1, <3>2
  <2>2. ASSUME NEW c \in Candidates, Restore(c) PROVE AllKept
    <3> DEFINE row == IF cand[c].status = "excluded" THEN cand[c] ELSE Queued(c, cand[c].rule)
    <3>1. Row(c, [row EXCEPT !.review = "active"]) /\ ~Leased(c)
      BY <2>2 DEF Restore
    <3>2. Sound(row) /\ row.lease = "none"
      BY <1>3, <1>4, <3>1 DEF Leased
    <3> HIDE DEF row
    <3>3. Sound([row EXCEPT !.review = "active"]) /\ [row EXCEPT !.review = "active"].lease = "none"
      BY <3>2 DEF CandidateRows
    <3> QED BY <1>5, <3>1, <3>3
  <2>3. ASSUME NEW c \in Candidates, SelectScope(c) PROVE AllKept
    <3>1. PICK r \in Rules : Row(c, Queued(c, r))
      BY <2>3, DomainRuleAssumption DEF SelectScope, Choices
    <3> QED BY <1>5, <1>4, <3>1
  <2>4. ASSUME NEW c \in Candidates, Recheck(c) PROVE AllKept
    <3>1. Row(c, Queued(c, cand[c].rule)) /\ cand[c].rule \in Rules
      BY <2>4, <1>3 DEF Recheck
    <3> QED BY <1>5, <1>4, <3>1
  <2>5. ASSUME NEW mode \in BOOLEAN, NEW wide \in BOOLEAN,
               NEW policy \in [Candidates -> {"excluded", "exact", "open"}], ChangeSettings(mode, policy, wide)
        PROVE  AllKept
    <3> DEFINE held(c) == IF policy[c] = "exact" THEN Exact[c]
                          ELSE IF cand[c].status # "excluded" THEN cand[c].rule
                          ELSE IF wide THEN Site[c] ELSE Exact[c]
               excluded(c) == [cand[c] EXCEPT !.status = "excluded", !.rule = NoRule, !.lease = "none"]
    <3>1. cand' = [c \in Candidates |->
                     IF policy[c] = "excluded" THEN excluded(c)
                     ELSE IF held(c) = cand[c].rule THEN cand[c] ELSE Queued(c, held(c))]
      BY <2>5 DEF ChangeSettings
    <3>2. \A c \in Candidates : held(c) \in Rules
      BY <1>3, DomainRuleAssumption
    <3>3. \A c \in Candidates : Sound(excluded(c)) /\ excluded(c).lease = "none"
      BY <1>3 DEF CandidateRows
    <3> HIDE DEF held, excluded
    <3>4. \A c \in Candidates : cand'[c] \in {excluded(c), cand[c], Queued(c, held(c))}
      BY <3>1
    <3>5. \A c \in Candidates : Kept(c)
      BY <3>2, <3>3, <3>4, <1>3, <1>4
    <3> QED BY <3>1, <3>5
  <2> QED BY <2>1, <2>2, <2>3, <2>4, <2>5 DEF Review
<1> HIDE DEF Sound
<1>7. /\ cand' \in [Candidates -> CandidateRows] /\ CandidatesOK'
      /\ \A c \in Candidates : cand[c].lease = "none" => cand'[c].lease = "none"
  BY <1>6 DEF Sound, CandidatesOK
<1>8. pc = "idle" /\ UNCHANGED <<store, journal, up, signals, running, faults>>
  BY <1>1 DEF Serialized
<1>9. Unfinished' = Unfinished /\ FreshWaits' = FreshWaits
  BY <1>8 DEF Unfinished, FreshWaits, journal, signals
<1>10. TypeOK'
  BY <1>2, <1>7, <1>8 DEF TypeOK, store, journal, signals, running
<1>11. RowsOK' /\ AtStep' /\ PassCovers' /\ Clear' /\ ReadyMeansRecovered'
  BY <1>8, <1>9 DEF RowsOK, AtStep, PassCovers, Clear, ReadyMeansRecovered, journal, signals, running
<1>12. LeaseFence' /\ Allowed'
  BY <1>7, <1>8, <1>9 DEF LeaseFence, Leased, Allowed, TypeOK, Operations, Unfinished, journal, running
<1> QED BY <1>7, <1>10, <1>11, <1>12

\* The scheduler: at any time, but never for a candidate with an unfinished operation.
LEMMA ValidationSteps ==
    ASSUME IInv, NEW c \in Candidates, Claim(c) \/ ValidationEnds(c)
    PROVE  IInv'
<1> USE DEF IInv
<1>1. UNCHANGED <<store, journal, review, up, signals, running, edits, faults>>
  BY DEF Claim, ValidationEnds
<1>2. /\ cand' \in [Candidates -> CandidateRows] /\ CandidatesOK'
      /\ \A d \in Candidates : d # c => cand'[d] = cand[d]
  <2>1. PICK s \in {"pending", "confirmed", "blocked"}, l \in {"live", "none"} :
            cand' = [cand EXCEPT ![c] = [cand[c] EXCEPT !.status = s, !.lease = l]]
    BY DEF Claim, ValidationEnds, Row
  <2>2. cand[c] \in CandidateRows /\ cand[c].status # "excluded" /\ cand[c].rule \in Rules
    BY DEF TypeOK, CandidatesOK, Claim, ValidationEnds, Leased
  <2> DEFINE row == [cand[c] EXCEPT !.status = s, !.lease = l]
  <2>3. row \in CandidateRows /\ row.status # "excluded" /\ row.rule \in Rules
    BY <2>2 DEF CandidateRows
  <2>4. cand' = [cand EXCEPT ![c] = row]
    BY <2>1
  <2> HIDE DEF row
  <2> QED BY <2>3, <2>4 DEF TypeOK, CandidatesOK
<1>3. \A o \in Unfinished : op[o].cand # c
  BY DEF Claim, ValidationEnds, NoOperationOf, LeaseFence
<1>4. Unfinished' = Unfinished /\ FreshWaits' = FreshWaits
  BY <1>1 DEF Unfinished, FreshWaits, journal, signals
<1>5. TypeOK'
  BY <1>1, <1>2 DEF TypeOK, store, journal, signals, running
<1>6. RowsOK' /\ AtStep' /\ PassCovers' /\ Clear' /\ ReadyMeansRecovered'
  BY <1>1, <1>4 DEF RowsOK, AtStep, PassCovers, Clear, ReadyMeansRecovered, journal, signals, running
<1>7. LeaseFence'
  BY <1>1, <1>2, <1>3, <1>4 DEF LeaseFence, Leased, TypeOK, Operations, Unfinished, journal
<1>8. Allowed'
  <2>1. pc = "commit" => cur \in Ops /\ cur \in Unfinished
    BY DEF AtStep, TypeOK, Unfinished, UnfinishedPhases
  <2> QED BY <1>1, <1>2, <1>3, <2>1 DEF Allowed, TypeOK, Operations, journal, running
<1> QED BY <1>2, <1>5, <1>6, <1>7, <1>8

\* A task is taken or refused, a pass advances or ends.
LEMMA TaskSteps ==
    ASSUME IInv, RefuseSubmit \/ ResumeSubmit \/ TakeIntent \/ RunRecovery \/ RunDrain
    PROVE  IInv'
<1> USE DEF IInv
<1>1. /\ UNCHANGED <<file, litter, marker, op, order, owned, cand, review, up, ws, draining, proved, edits>>
      /\ faults' \in Nat /\ woken' \in BOOLEAN
  <2>1. UNCHANGED <<file, litter, marker, op, order, owned, cand, review, up, ws, draining, proved, edits>>
    BY DEF RefuseSubmit, ResumeSubmit, TakeIntent, RunRecovery, RunDrain, durable, running
  <2>2. faults' \in Nat
    BY DEF RefuseSubmit, ResumeSubmit, TakeIntent, RunRecovery, RunDrain, Fault, TypeOK
  <2>3. woken' \in BOOLEAN
    BY DEF RefuseSubmit, ResumeSubmit, TakeIntent, RunRecovery, RunDrain, TypeOK
  <2> QED BY <2>1, <2>2, <2>3
<1>2. PICK kind \in {"submit", "recover", "drain"} : Take(kind) /\ (kind = "submit" <=> RefuseSubmit \/ ResumeSubmit \/ TakeIntent)
  BY DEF RefuseSubmit, ResumeSubmit, TakeIntent, RunRecovery, RunDrain, Take
<1>3. /\ tail[1] \in Tasks /\ tail[1].kind = kind /\ tail[1] # NoTask
      /\ tail' \in Seq(Tasks) /\ (FreshWaits' => FreshWaits)
      /\ (kind = "submit" /\ tail[1].fresh) => FreshWaits
      /\ pc = "idle" /\ task = NoTask /\ cur = NoOp
  BY <1>2, TakeTask, TaskTypes
<1>4. Unfinished' = Unfinished /\ Unfinished \subseteq Ops /\ \A o \in Unfinished : op[o].phase # "none"
  BY <1>1 DEF Unfinished, UnfinishedPhases
<1>5. CandidatesOK' /\ RowsOK' /\ LeaseFence'
  BY <1>1, <1>4 DEF CandidatesOK, RowsOK, LeaseFence, Leased
<1>6. CASE RefuseSubmit
  <2>1. UNCHANGED running
    BY <1>6 DEF RefuseSubmit
  <2>2. TypeOK'
    BY <1>1, <1>3, <2>1 DEF TypeOK, running
  <2> QED BY <1>1, <1>3, <1>4, <1>5, <2>1, <2>2
        DEF AtStep, PassCovers, Clear, ReadyMeansRecovered, Allowed, running
<1>7. CASE ResumeSubmit
  <2>1. /\ pc' = "execute" /\ task' = tail[1] /\ cur' = tail[1].op /\ UNCHANGED <<rest, intent, proved>>
        /\ tail[1].fresh /\ op[tail[1].op].phase # "none" /\ kind = "submit" /\ tail[1].op \in Ops
    BY <1>2, <1>3, <1>7, TaskTypes DEF ResumeSubmit, running
  <2>2. TypeOK'
    BY <1>1, <1>3, <2>1, DomainRuleAssumption DEF TypeOK, PCs
  <2>3. Unfinished = {}
    BY <1>3, <1>4, <2>1, DomainRuleAssumption DEF Clear
  <2> QED BY <1>1, <1>3, <1>4, <1>5, <2>1, <2>2, <2>3
        DEF AtStep, PassCovers, Clear, ReadyMeansRecovered, Allowed
<1>8. CASE TakeIntent
  <2>1. /\ pc' = "prepare" /\ task' = tail[1] /\ UNCHANGED <<cur, rest, proved>>
        /\ tail[1].fresh /\ op[tail[1].op].phase = "none" /\ kind = "submit" /\ tail[1] \in SubmitTasks
        /\ tail[1].cand \in Candidates /\ Confirmed(tail[1].cand)
        /\ intent' = [rule |-> cand[tail[1].cand].rule, base |-> file]
    BY <1>2, <1>3, <1>8, TaskTypes DEF TakeIntent
  <2>2. intent' \in [rule : Rules \cup {NoRule}, base : SUBSET Rules] /\ intent'.rule \in Rules
    BY <2>1 DEF CandidatesOK, Confirmed, TypeOK
  <2>3. TypeOK'
    BY <1>1, <1>3, <2>1, <2>2 DEF TypeOK, PCs
  <2>4. Unfinished = {}
    BY <1>3, <1>4, <2>1, DomainRuleAssumption DEF Clear
  <2> QED BY <1>1, <1>3, <1>4, <1>5, <2>1, <2>2, <2>3, <2>4
        DEF AtStep, PassCovers, Clear, ReadyMeansRecovered, Allowed
<1>9. CASE RunRecovery \/ RunDrain
  <2>1. /\ pc' = "next" /\ task' = tail[1] /\ rest' = Unfinished /\ UNCHANGED <<cur, intent, proved>>
        /\ tail[1].kind # "submit"
    BY <1>2, <1>3, <1>9 DEF RunRecovery, RunDrain, Take
  <2>2. TypeOK'
    BY <1>1, <1>3, <1>4, <2>1 DEF TypeOK, PCs
  <2> QED BY <1>1, <1>3, <1>4, <1>5, <2>1, <2>2
        DEF AtStep, PassCovers, Clear, ReadyMeansRecovered, Allowed
<1> QED BY <1>6, <1>7, <1>8, <1>9

\* How a step of a running operation may leave the worker, whatever it did to the
\* operation itself: it goes on, is settled, is suspended or fails.
LEMMA OperationSteps ==
    ASSUME IInv, cur \in Ops, NEW p \in Phases \ {"none"},
           op[cur].phase \in UnfinishedPhases \/ p \notin UnfinishedPhases \/ p = op[cur].phase,
           Phase(p) \/ (UNCHANGED <<op, order>> /\ p = op[cur].phase),
           UNCHANGED <<up, review, edits>>, faults' \in Nat,
           file' \subseteq Rules, litter' \subseteq {"lock", "tmp"}, marker' \subseteq Rules,
           owned' \subseteq Rules,
           cand' \in [Candidates -> CandidateRows], CandidatesOK',
           \A c \in Candidates : cand[c].lease = "none" => cand'[c].lease = "none",
           \/ /\ pc' \in PCs \ {"idle", "prepare", "next"} /\ proved' \in BOOLEAN
              /\ UNCHANGED <<task, cur, rest, intent>> /\ UNCHANGED signals
              /\ AtStep' /\ Allowed'
           \/ Settled /\ p \notin UnfinishedPhases
           \/ Suspend
           \/ Fail
    PROVE  IInv'
<1> USE DEF IInv
<1>1. /\ op' \in [Ops -> Operations] /\ order' \in Seq(Ops)
      /\ op'[cur].phase = p /\ \A o \in Ops : o # cur => op'[o] = op[o]
      /\ \A o \in Ops : op'[o].rule = op[o].rule /\ op'[o].cand = op[o].cand
      /\ Unfinished' \subseteq Unfinished
      /\ p \notin UnfinishedPhases => Unfinished' \subseteq Unfinished \ {cur}
  <2>1. CASE Phase(p)
    BY <2>1, PhaseChanges DEF TypeOK, Unfinished
  <2>2. CASE UNCHANGED <<op, order>> /\ p = op[cur].phase
    BY <2>2 DEF TypeOK, Unfinished
  <2> QED BY <2>1, <2>2
<1>2. RowsOK'
  <2>1. op[cur].phase # "none"
    BY DomainRuleAssumption DEF TypeOK
  <2> QED BY <1>1, <2>1 DEF RowsOK
<1>3. LeaseFence'
  BY <1>1 DEF LeaseFence, Leased, Unfinished, TypeOK, Operations
<1>4. (\A o, q \in Unfinished : o = q)' /\ \A o \in Ops : op[o].phase # "none" => op'[o].phase # "none"
  BY <1>1 DEF ReadyMeansRecovered
<1>5. /\ task # NoTask /\ task \in Tasks /\ pc \notin {"idle", "prepare", "next"} /\ cur # NoOp
      /\ intent \in [rule : Rules \cup {NoRule}, base : SUBSET Rules]
      /\ NoIntent \in [rule : Rules \cup {NoRule}, base : SUBSET Rules]
      /\ rest \subseteq Ops /\ NoOp \notin Ops
  BY DomainRuleAssumption DEF TypeOK, NoIntent
<1>6. CASE /\ pc' \in PCs \ {"idle", "prepare", "next"} /\ proved' \in BOOLEAN
           /\ UNCHANGED <<task, cur, rest, intent>> /\ UNCHANGED signals
           /\ AtStep' /\ Allowed'
  <2>1. TypeOK'
    BY <1>1, <1>5, <1>6 DEF TypeOK, signals
  <2>2. PassCovers' /\ FreshWaits' = FreshWaits
    BY <1>1, <1>4, <1>5, <1>6 DEF PassCovers, FreshWaits, signals
  <2>3. Clear' /\ ReadyMeansRecovered'
    BY <1>1, <1>4, <1>5, <1>6, <2>2 DEF Clear, ReadyMeansRecovered, signals
  <2> QED BY <1>2, <1>3, <1>6, <2>1, <2>2, <2>3
<1>7. CASE Settled /\ p \notin UnfinishedPhases
  <2>1. UNCHANGED signals /\ FreshWaits' = FreshWaits
    BY <1>7 DEF Settled, FreshWaits, signals
  <2>2. CASE task.kind = "submit"
    <3>1. Idle
      BY <1>7, <2>2 DEF Settled
    <3>2. TypeOK'
      BY <1>1, <1>5, <2>1, <3>1 DEF TypeOK, Idle, PCs, signals
    <3>3. AtStep' /\ Allowed' /\ PassCovers'
      BY <3>1 DEF Idle, AtStep, Allowed, PassCovers
    <3>4. Clear' /\ ReadyMeansRecovered'
      BY <1>1, <1>4, <1>5, <1>7, <2>1, <2>2, <3>1 DEF Clear, ReadyMeansRecovered, Idle, signals
    <3> QED BY <1>2, <1>3, <3>2, <3>3, <3>4
  <2>3. CASE task.kind # "submit"
    <3>1. pc' = "next" /\ rest' = rest \ {cur} /\ cur' = NoOp /\ proved' = FALSE /\ UNCHANGED <<task, intent>>
      BY <1>7, <2>3 DEF Settled
    <3>2. TypeOK'
      BY <1>1, <1>5, <2>1, <3>1 DEF TypeOK, PCs, signals
    <3>3. AtStep' /\ Allowed'
      BY <2>3, <3>1 DEF AtStep, Allowed
    <3>4. PassCovers'
      BY <1>1, <1>4, <1>5, <1>7, <2>3, <3>1 DEF PassCovers
    <3>5. Clear' /\ ReadyMeansRecovered'
      BY <1>1, <1>4, <1>5, <1>7, <2>1, <2>3, <3>1 DEF Clear, ReadyMeansRecovered, signals
    <3> QED BY <1>2, <1>3, <3>2, <3>3, <3>4, <3>5
  <2> QED BY <2>2, <2>3
<1>8. CASE Suspend \/ Fail
  <2>1. /\ tail' \in Seq(Tasks) /\ ~FreshWaits' /\ Idle
        /\ ws' \in {"recovering", "recovery-required", "failed"} /\ woken' \in BOOLEAN /\ draining' \in BOOLEAN
    BY <1>8, Suspended, Failed
  <2>2. TypeOK'
    BY <1>1, <1>5, <2>1 DEF TypeOK, Idle, PCs
  <2>3. AtStep' /\ Allowed' /\ PassCovers' /\ Clear' /\ ReadyMeansRecovered'
    BY <1>4, <2>1 DEF Idle, AtStep, Allowed, PassCovers, Clear, ReadyMeansRecovered
  <2> QED BY <1>2, <1>3, <2>2, <2>3
<1> QED BY <1>6, <1>7, <1>8

\* The journal takes a new operation, or the submission fails alone.
LEMMA PrepareStep ==
    ASSUME IInv, PrepareOperation
    PROVE  IInv'
<1> USE DEF IInv
<1>1. /\ UNCHANGED <<file, litter, marker, owned, cand, review, up, ws, woken, draining, tail, edits, faults>>
      /\ pc = "prepare" /\ FreshWaits' = FreshWaits
  BY DEF PrepareOperation, store, signals, FreshWaits
<1>2. /\ task \in SubmitTasks /\ task.op \in Ops /\ task.cand \in Candidates /\ task.kind = "submit"
      /\ op[task.op].phase = "none" /\ intent.rule \in Rules /\ cur = NoOp
  BY <1>1 DEF AtStep, SubmitTasks, TypeOK
<1>3. Unfinished = {}
  BY <1>1, <1>2, DomainRuleAssumption DEF Clear, Unfinished
<1>4. CASE ~MayPrepare(task.cand)
  <2>1. Idle /\ UNCHANGED <<op, order>>
    BY <1>4 DEF PrepareOperation
  <2>2. Unfinished' = {}
    BY <1>3, <2>1 DEF Unfinished
  <2>3. TypeOK'
    BY <1>1, <2>1, DomainRuleAssumption DEF TypeOK, Idle, NoIntent, PCs
  <2> QED BY <1>1, <2>1, <2>2, <2>3 DEF Idle, CandidatesOK, RowsOK, AtStep, PassCovers, Clear,
             ReadyMeansRecovered, LeaseFence, Allowed
<1>5. CASE MayPrepare(task.cand)
  <2> DEFINE row == [phase |-> "prepared", cand |-> task.cand, rule |-> intent.rule, base |-> intent.base]
  <2>1. /\ op' = [op EXCEPT ![task.op] = row] /\ order' = Append(order, task.op)
        /\ pc' = "execute" /\ cur' = task.op /\ UNCHANGED <<task, rest, intent, proved>>
    BY <1>5 DEF PrepareOperation
  <2>2. row \in Operations
    BY <1>2 DEF TypeOK, Operations, Phases, UnfinishedPhases
  <2>3. /\ op' \in [Ops -> Operations] /\ op'[task.op] = row
        /\ \A o \in Ops : o # task.op => op'[o] = op[o]
    BY <1>2, <2>1, <2>2 DEF TypeOK
  <2>4. Unfinished' = {task.op}
    BY <1>2, <1>3, <2>3 DEF Unfinished, UnfinishedPhases
  <2>5. order' \in Seq(Ops)
    BY <1>2, <2>1 DEF TypeOK
  <2>6. TypeOK'
    BY <1>1, <1>2, <2>1, <2>3, <2>5, DomainRuleAssumption DEF TypeOK, PCs
  <2>7. CandidatesOK' /\ RowsOK' /\ AtStep' /\ Allowed'
    BY <1>1, <1>2, <2>1, <2>3 DEF CandidatesOK, RowsOK, AtStep, Allowed
  <2>8. LeaseFence'
    BY <1>1, <1>5, <2>3, <2>4 DEF LeaseFence, MayPrepare, Leased
  <2>9. PassCovers' /\ Clear' /\ ReadyMeansRecovered'
    BY <1>1, <1>2, <2>1, <2>3, <2>4 DEF PassCovers, Clear, ReadyMeansRecovered
  <2> QED BY <2>6, <2>7, <2>8, <2>9
<1> QED BY <1>4, <1>5

\* A pass takes the next operation of its snapshot, or ends with nothing left.
LEMMA PassSteps ==
    ASSUME IInv, NextOperation \/ PassEnds
    PROVE  IInv'
<1> USE DEF IInv
<1>1. /\ UNCHANGED <<file, litter, marker, op, order, owned, cand, review, up, tail, edits, faults>>
      /\ pc = "next" /\ cur = NoOp /\ FreshWaits' = FreshWaits
      /\ task \in Tasks /\ task # NoTask /\ task.kind # "submit"
  BY DEF NextOperation, PassEnds, durable, signals, FreshWaits, TypeOK, AtStep
<1>2. /\ Unfinished' = Unfinished /\ Unfinished \subseteq rest /\ Unfinished \subseteq Ops
      /\ \A o \in Unfinished : op[o].phase # "none"
  BY <1>1 DEF Unfinished, PassCovers, UnfinishedPhases
<1>3. CandidatesOK' /\ RowsOK' /\ LeaseFence' /\ (\A o, q \in Unfinished : o = q)'
  BY <1>1, <1>2 DEF CandidatesOK, RowsOK, LeaseFence, Leased, ReadyMeansRecovered
<1>4. CASE NextOperation
  <2>1. PICK o \in rest : cur' = o
    BY <1>4 DEF NextOperation
  <2>2. pc' = "execute" /\ UNCHANGED <<ws, woken, draining, task, rest, intent, proved>>
    BY <1>4 DEF NextOperation, signals
  <2>3. o \in Ops /\ op[o].phase # "none"
    BY <2>1 DEF TypeOK, PassCovers
  <2>4. TypeOK'
    BY <1>1, <2>1, <2>2, <2>3, DomainRuleAssumption DEF TypeOK, PCs
  <2>5. AtStep' /\ Allowed' /\ PassCovers'
    BY <1>1, <1>2, <2>1, <2>2 DEF AtStep, Allowed, PassCovers
  <2>6. Clear' /\ ReadyMeansRecovered'
    BY <1>1, <1>2, <1>3, <2>2, DomainRuleAssumption DEF Clear, ReadyMeansRecovered
  <2> QED BY <1>3, <2>4, <2>5, <2>6
<1>5. CASE PassEnds /\ Idle
  <2>1. Unfinished = {}
    BY <1>2, <1>5 DEF PassEnds
  <2>2. /\ ws' \in {"disabled", "recovering", "ready", "recovery-required", "failed"}
        /\ draining' \in BOOLEAN /\ woken' \in BOOLEAN
    BY <1>5 DEF PassEnds, BecomeReady, TypeOK
  <2>3. TypeOK'
    BY <1>1, <1>5, <2>2, DomainRuleAssumption DEF TypeOK, Idle, NoIntent, PCs
  <2> QED BY <1>1, <1>2, <1>3, <1>5, <2>1, <2>3
          DEF Idle, AtStep, Allowed, PassCovers, Clear, ReadyMeansRecovered
<1>6. CASE PassEnds /\ ~Idle
  <2>1. woken' = FALSE /\ rest' = Unfinished /\ UNCHANGED <<ws, draining, pc, task, cur, intent, proved>>
    BY <1>6 DEF PassEnds
  <2>2. TypeOK'
    BY <1>1, <1>2, <2>1 DEF TypeOK
  <2>3. AtStep' /\ Allowed' /\ PassCovers'
    BY <1>1, <1>2, <2>1 DEF AtStep, Allowed, PassCovers
  <2>4. Clear' /\ ReadyMeansRecovered'
    BY <1>1, <1>2, <1>3, <2>1 DEF Clear, ReadyMeansRecovered
  <2> QED BY <1>3, <2>2, <2>3, <2>4
<1> QED BY <1>4, <1>5, <1>6

\* Where a task executes an operation.
LEMMA Executing ==
    ASSUME IInv, pc \notin {"idle", "prepare", "next"}
    PROVE  /\ cur \in Ops /\ cur # NoOp /\ op[cur] \in Operations
           /\ op[cur].phase \in Phases \ {"none"} /\ op[cur].rule \in Rules
           /\ Goal(cur) \subseteq Rules /\ op[cur].base \subseteq Rules
           /\ op[cur].cand \in Candidates
           /\ NoOp \notin Ops
<1>1. cur \in Ops /\ cur # NoOp /\ op[cur] \in Operations /\ op[cur].phase # "none"
  BY DomainRuleAssumption DEF IInv, TypeOK
<1> QED BY <1>1, DomainRuleAssumption DEF IInv, RowsOK, Operations, Goal

\* Attestations and activation: what the store and the engine say decides.
LEMMA PlainSteps ==
    ASSUME IInv, Terminal \/ Attest \/ Veto \/ Begin \/ ProveBefore \/ Activate \/ ProveAfter
    PROVE  IInv'
<1>1. pc \notin {"idle", "prepare", "next"} /\ pc # "commit"
  BY DEF Terminal, Attest, Veto, Begin, ProveBefore, Activate, ProveAfter
<1>2. /\ cur \in Ops /\ op[cur].phase \in Phases \ {"none"} /\ op[cur].phase # "none"
  BY <1>1, Executing
<1>3. /\ UNCHANGED <<file, litter, owned, cand, review, up, edits>>
  BY DEF Terminal, Attest, Veto, Begin, ProveBefore, Activate, ProveAfter, durable, store
<1>4. /\ file' \subseteq Rules /\ litter' \subseteq {"lock", "tmp"} /\ marker' \subseteq Rules /\ owned' \subseteq Rules
      /\ cand' \in [Candidates -> CandidateRows] /\ CandidatesOK'
      /\ \A c \in Candidates : cand[c].lease = "none" => cand'[c].lease = "none"
  <2>1. marker' \subseteq Rules
    BY DEF Terminal, Attest, Veto, Begin, ProveBefore, Activate, ProveAfter, durable, store, Attested, IInv, TypeOK
  <2> QED BY <1>3, <2>1 DEF IInv, TypeOK, CandidatesOK
<1>5. faults' \in Nat
  BY DEF Terminal, Attest, Veto, Begin, ProveBefore, Activate, ProveAfter, Fault, IInv, TypeOK
<1> DEFINE GoesOn == /\ pc' \in PCs \ {"idle", "prepare", "next"} /\ proved' \in BOOLEAN
                     /\ UNCHANGED <<task, cur, rest, intent>> /\ UNCHANGED signals
                     /\ AtStep' /\ Allowed'
           Leaves(p) == \/ GoesOn
                        \/ Settled /\ p \notin UnfinishedPhases
                        \/ Suspend
                        \/ Fail
           Records(p) == Phase(p) \/ (UNCHANGED <<op, order>> /\ p = op[cur].phase)
<1>6. ASSUME NEW p \in Phases \ {"none"}, Records(p), Leaves(p),
             op[cur].phase \in UnfinishedPhases \/ p \notin UnfinishedPhases \/ p = op[cur].phase
      PROVE  IInv'
  BY <1>2, <1>3, <1>4, <1>5, <1>6, OperationSteps
<1>7. ASSUME NEW label \in {"execute", "preflight", "veto", "finalize", "begin", "proveBefore", "activate", "proveAfter"},
             NEW p, op'[cur].phase = p, To(label),
             label \in {"preflight", "veto", "finalize"} => p = "prepared",
             label = "begin" => p = "committed",
             label \in {"proveBefore", "activate", "proveAfter"} => p = "activating"
      PROVE  GoesOn
  <2>1. /\ pc' = label /\ UNCHANGED <<task, cur, rest, intent, proved>> /\ UNCHANGED signals
        /\ label \in PCs \ {"idle", "prepare", "next"} /\ label # "commit"
    BY <1>7 DEF To, PCs
  <2>2. AtStep' /\ Allowed'
    BY <1>7, <2>1 DEF AtStep, Allowed
  <2>3. proved' \in BOOLEAN
    BY <2>1 DEF IInv, TypeOK
  <2> QED BY <2>1, <2>2, <2>3
<1>8. ASSUME NEW p \in Phases \ {"none"}, Phase(p)
      PROVE  op'[cur].phase = p
  BY <1>2, <1>8, PhaseChanges DEF IInv
<1> HIDE DEF GoesOn
<1>9. \A p \in UnfinishedPhases \cup {"aborted", "completed"} : p \in Phases \ {"none"}
  BY DEF Phases, UnfinishedPhases
<1>10. CASE Terminal
  <2>1. UNCHANGED <<op, order>>
    BY <1>10 DEF Terminal, durable
  <2>2. (op[cur].phase \in {"completed", "aborted"} /\ Settled) \/ Fail
    BY <1>10 DEF Terminal
  <2>3. "completed" \notin UnfinishedPhases /\ "aborted" \notin UnfinishedPhases
    BY DEF UnfinishedPhases
  <2> QED BY <1>2, <1>6, <2>1, <2>2, <2>3
<1>11. ASSUME Unproved, op[cur].phase \in UnfinishedPhases PROVE IInv'
  <2>1. Fail /\ (UNCHANGED <<op, order>> \/ Phase("reconciliation-required"))
    BY <1>11 DEF Unproved
  <2>2. "reconciliation-required" \in Phases \ {"none"}
    BY DEF Phases, UnfinishedPhases
  <2> QED BY <1>2, <1>6, <1>11, <2>1, <2>2
<1>12. ASSUME Doubted, op[cur].phase = "activating" PROVE IInv'
  <2>1. \/ Phase("partial") /\ Suspend
        \/ Phase("reconciliation-required") /\ Fail
    BY <1>12 DEF Doubted
  <2>2. "partial" \in Phases \ {"none"} /\ "reconciliation-required" \in Phases \ {"none"} /\ "activating" \in UnfinishedPhases
    BY DEF Phases, UnfinishedPhases
  <2> QED BY <1>6, <1>12, <2>1, <2>2
<1>13. CASE Attest
  <2>1. CASE Unproved
    BY <1>11, <1>13, <2>1 DEF Attest, UnfinishedPhases
  <2>2. ASSUME NEW label \in {"finalize", "preflight"}, To(label), UNCHANGED <<op, order>>
        PROVE  IInv'
    <3>1. op'[cur].phase = "prepared" /\ op[cur].phase = "prepared"
      BY <1>13, <2>2 DEF Attest
    <3>2. GoesOn
      BY <1>7, <2>2, <3>1
    <3> QED BY <1>2, <1>6, <2>2, <3>2
  <2> QED BY <1>13, <2>1, <2>2 DEF Attest
<1>14. CASE Veto
  <2>1. op[cur].phase = "prepared"
    BY <1>14 DEF Veto, IInv, AtStep
  <2>2. CASE Unproved
    BY <1>11, <2>1, <2>2 DEF UnfinishedPhases
  <2>3. CASE Abort
    BY <1>6, <2>1, <2>3 DEF Abort, UnfinishedPhases, Phases
  <2> QED BY <1>14, <2>2, <2>3 DEF Veto
<1>15. CASE Begin
  <2>1. /\ op[cur].phase \in {"committed", "partial", "activating"}
        /\ Phase("activating") /\ To("proveBefore")
    BY <1>15 DEF Begin, Activatable
  <2>2. "activating" \in Phases \ {"none"} /\ op[cur].phase \in UnfinishedPhases
    BY <2>1 DEF UnfinishedPhases, Phases
  <2>3. GoesOn
    BY <1>7, <1>8, <2>1, <2>2
  <2> QED BY <1>6, <2>1, <2>2, <2>3
<1>16. CASE ProveBefore
  <2>1. op[cur].phase = "activating"
    BY <1>16 DEF ProveBefore, IInv, AtStep
  <2>2. CASE Doubted
    BY <1>12, <2>1, <2>2
  <2>3. CASE To("activate") /\ UNCHANGED <<op, order>>
    <3>1. GoesOn
      BY <1>7, <2>1, <2>3
    <3> QED BY <1>2, <1>6, <2>3, <3>1
  <2> QED BY <1>16, <2>2, <2>3 DEF ProveBefore
<1>17. CASE Activate
  <2>1. /\ op[cur].phase = "activating" /\ proved' \in BOOLEAN /\ pc' = "proveAfter"
        /\ UNCHANGED <<op, order, signals, task, cur, rest, intent>>
    BY <1>17 DEF Activate, IInv, AtStep, durable
  <2>2. AtStep' /\ Allowed'
    BY <2>1 DEF AtStep, Allowed
  <2>3. GoesOn
    BY <2>1, <2>2 DEF GoesOn, PCs
  <2> QED BY <1>2, <1>6, <2>1, <2>3
<1>18. CASE ProveAfter
  <2>1. op[cur].phase = "activating"
    BY <1>18 DEF ProveAfter, IInv, AtStep
  <2>2. CASE Doubted
    BY <1>12, <2>1, <2>2
  <2>3. CASE Conclude
    <3>1. (Phase("completed") /\ Settled) \/ (Phase("partial") /\ Suspend)
      BY <2>3 DEF Conclude
    <3>2. "completed" \in Phases \ {"none"} /\ "completed" \notin UnfinishedPhases /\ "partial" \in Phases \ {"none"}
      BY DEF Phases, UnfinishedPhases
    <3> QED BY <1>6, <2>1, <3>1, <3>2 DEF UnfinishedPhases
  <2> QED BY <1>18, <2>2, <2>3 DEF ProveAfter
<1> QED BY <1>10, <1>13, <1>14, <1>15, <1>16, <1>17, <1>18

\* The preflight: what it lets through to the write is allowed there.
LEMMA PreflightStep ==
    ASSUME IInv, Preflight
    PROVE  IInv'
<1>1. /\ pc = "preflight" /\ op[cur].phase = "prepared" /\ cur \in Ops /\ op[cur].cand \in Candidates
      /\ UNCHANGED <<file, litter, marker, op, order, owned, cand, review, up, edits>>
  BY Executing DEF Preflight, durable, IInv, AtStep
<1>2. /\ file' \subseteq Rules /\ litter' \subseteq {"lock", "tmp"} /\ marker' \subseteq Rules /\ owned' \subseteq Rules
      /\ cand' \in [Candidates -> CandidateRows] /\ CandidatesOK'
      /\ \A c \in Candidates : cand[c].lease = "none" => cand'[c].lease = "none"
  BY <1>1 DEF IInv, TypeOK, CandidatesOK
<1>3. faults' \in Nat
  BY DEF Preflight, Fault, IInv, TypeOK
<1>4. "prepared" \in Phases \ {"none"}
  BY DEF Phases, UnfinishedPhases
<1>5. CASE Suspend
  BY <1>1, <1>2, <1>3, <1>4, <1>5, OperationSteps
<1>6. ASSUME NEW label \in {"veto", "commit"}, To(label),
             label = "commit" => Authorized(cur) /\ ~Leased(op[cur].cand)
      PROVE  IInv'
  <2>1. /\ pc' = label /\ UNCHANGED <<task, cur, rest, intent, proved>> /\ UNCHANGED signals
        /\ pc' \in PCs \ {"idle", "prepare", "next"} /\ proved' \in BOOLEAN
    BY <1>6 DEF To, PCs, IInv, TypeOK
  <2>2. AtStep'
    BY <1>1, <2>1 DEF AtStep
  <2>3. Allowed'
    <3>1. cand[op[cur].cand] \in CandidateRows
      BY <1>1 DEF IInv, TypeOK
    <3> QED BY <1>1, <1>6, <2>1, <3>1 DEF Allowed, Authorized, Confirmed, Leased, CandidateRows
  <2> QED BY <1>1, <1>2, <1>3, <1>4, <2>1, <2>2, <2>3, OperationSteps
<1> QED BY <1>5, <1>6 DEF Preflight

\* The write.
LEMMA CommitStep ==
    ASSUME IInv, Commit
    PROVE  IInv'
<1>1. /\ pc = "commit" /\ op[cur].phase = "prepared" /\ cur \in Ops /\ Goal(cur) \subseteq Rules
      /\ UNCHANGED <<owned, cand, review, up, edits>>
  BY Executing DEF Commit, IInv, AtStep
<1>2. faults' \in Nat
  BY DEF Commit, WriteFails, Fault, IInv, TypeOK
<1>3. /\ file' \subseteq Rules /\ litter' \subseteq {"lock", "tmp"} /\ marker' \subseteq Rules
  <2>1. CASE UNCHANGED store
    BY <2>1 DEF store, IInv, TypeOK
  <2>2. CASE file' = Goal(cur) /\ marker' = Goal(cur) /\ UNCHANGED litter
    BY <1>1, <2>2 DEF IInv, TypeOK
  <2>3. CASE WriteFails
    BY <1>1, <2>3 DEF WriteFails, IInv, TypeOK
  <2> QED BY <2>1, <2>2, <2>3 DEF Commit
<1>4. /\ owned' \subseteq Rules /\ cand' \in [Candidates -> CandidateRows] /\ CandidatesOK'
      /\ \A c \in Candidates : cand[c].lease = "none" => cand'[c].lease = "none"
  BY <1>1 DEF IInv, TypeOK, CandidatesOK
<1>5. /\ "prepared" \in Phases \ {"none"} /\ "reconciliation-required" \in Phases \ {"none"}
      /\ "prepared" \in UnfinishedPhases
  BY DEF Phases, UnfinishedPhases
<1>6. CASE To("finalize") /\ UNCHANGED <<op, order>>
  <2>1. /\ pc' = "finalize" /\ UNCHANGED <<task, cur, rest, intent, proved>> /\ UNCHANGED signals
        /\ pc' \in PCs \ {"idle", "prepare", "next"} /\ proved' \in BOOLEAN
    BY <1>6 DEF To, PCs, IInv, TypeOK
  <2>2. AtStep' /\ Allowed'
    BY <1>1, <1>6, <2>1 DEF AtStep, Allowed
  <2> QED BY <1>1, <1>2, <1>3, <1>4, <1>5, <1>6, <2>1, <2>2, OperationSteps
<1>7. CASE Fail /\ UNCHANGED <<op, order>>
  BY <1>1, <1>2, <1>3, <1>4, <1>5, <1>7, OperationSteps
<1>8. CASE Fail /\ Phase("reconciliation-required")
  BY <1>1, <1>2, <1>3, <1>4, <1>5, <1>8, OperationSteps
<1> QED BY <1>6, <1>7, <1>8 DEF Commit, WriteFails, Unproved

\* The transaction after the write.
LEMMA FinalizeStep ==
    ASSUME IInv, Finalize
    PROVE  IInv'
<1>1. /\ pc = "finalize" /\ op[cur].phase = "prepared" /\ cur \in Ops
      /\ op[cur].cand \in Candidates /\ op[cur].rule \in Rules
      /\ UNCHANGED <<file, litter, marker, review, up, edits, faults>>
  BY Executing DEF Finalize, store, IInv, AtStep
<1>2. /\ file' \subseteq Rules /\ litter' \subseteq {"lock", "tmp"} /\ marker' \subseteq Rules /\ faults' \in Nat
  BY <1>1 DEF IInv, TypeOK
<1>3. /\ "prepared" \in Phases \ {"none"} /\ "committed" \in Phases \ {"none"}
      /\ "prepared" \in UnfinishedPhases
  BY DEF Phases, UnfinishedPhases
<1> DEFINE c == op[cur].cand
           applied == [cand[c] EXCEPT !.status = "applied"]
<1>4. CASE Fail /\ UNCHANGED <<journal, cand>>
  <2>1. /\ UNCHANGED <<op, order>> /\ owned' \subseteq Rules /\ cand' \in [Candidates -> CandidateRows] /\ CandidatesOK'
        /\ \A d \in Candidates : cand[d].lease = "none" => cand'[d].lease = "none"
    BY <1>4 DEF journal, IInv, TypeOK, CandidatesOK
  <2> QED BY <1>1, <1>2, <1>3, <1>4, <2>1, OperationSteps
<1>5. CASE /\ Confirmed(c) /\ Phase("committed") /\ To("begin")
           /\ owned' = owned \cup {op[cur].rule} /\ Row(c, applied)
  <2>1. /\ cand[c] \in CandidateRows /\ cand[c].rule \in Rules
    BY <1>1, <1>5 DEF IInv, TypeOK, CandidatesOK, Confirmed
  <2>2. /\ applied \in CandidateRows /\ applied.status = "applied" /\ applied.rule \in Rules
        /\ applied.lease = cand[c].lease
    BY <2>1 DEF CandidateRows
  <2>3. cand' = [cand EXCEPT ![c] = applied]
    BY <1>5 DEF Row
  <2> HIDE DEF applied
  <2>4. /\ owned' \subseteq Rules /\ cand' \in [Candidates -> CandidateRows] /\ CandidatesOK'
        /\ \A d \in Candidates : cand[d].lease = "none" => cand'[d].lease = "none"
    BY <1>1, <1>5, <2>2, <2>3 DEF IInv, TypeOK, CandidatesOK
  <2>5. /\ pc' = "begin" /\ UNCHANGED <<task, cur, rest, intent, proved>> /\ UNCHANGED signals
        /\ pc' \in PCs \ {"idle", "prepare", "next"} /\ proved' \in BOOLEAN
    BY <1>5 DEF To, PCs, IInv, TypeOK
  <2>6. op'[cur].phase = "committed"
    BY <1>1, <1>3, <1>5, PhaseChanges DEF IInv
  <2>7. AtStep' /\ Allowed'
    BY <2>5, <2>6 DEF AtStep, Allowed
  <2> QED BY <1>1, <1>2, <1>3, <1>5, <2>4, <2>5, <2>7, OperationSteps
<1> QED BY <1>4, <1>5 DEF Finalize

THEOREM Inductive == IInv /\ [Next]_vars => IInv'
<1> SUFFICES ASSUME IInv, [Next]_vars PROVE IInv'
  OBVIOUS
<1>1. CASE UNCHANGED vars
  BY <1>1 DEF vars, IInv, TypeOK, CandidatesOK, RowsOK, AtStep, PassCovers, Clear, FreshWaits,
       ReadyMeansRecovered, LeaseFence, Leased, Allowed, Unfinished
<1>2. CASE Environment \/ Start \/ Clients
  BY <1>2, QuietSteps, ProcessEnds DEF Environment, Clients
<1>3. CASE Review
  BY <1>3, ReviewSteps
<1>4. CASE Validation
  BY <1>4, ValidationSteps DEF Validation
<1>5. CASE Worker
  BY <1>5, TaskSteps, PrepareStep, PassSteps, PlainSteps, PreflightStep, CommitStep, FinalizeStep DEF Worker
<1> QED BY <1>1, <1>2, <1>3, <1>4, <1>5 DEF Next

THEOREM Invariance == Spec => []IInv
<1>1. Init => IInv
  BY Initially
<1>2. IInv /\ [Next]_vars => IInv'
  BY Inductive
<1> QED BY <1>1, <1>2, PTL DEF Spec

----------------------------------------------------------------------------
(* What follows *)

\* Every variable of the worker, the journal and the candidates stays in its type.
THEOREM TypeCorrect == Spec => []TypeOK
<1>1. IInv => TypeOK
  BY DEF IInv
<1> QED BY <1>1, Invariance, PTL

\* The journal never holds two unfinished operations, and a worker that accepts
\* submissions has nothing to recover, although prepareDomainRuleOperation only
\* refuses a second operation of the same candidate.
THEOREM OneMutationAtATime == Spec => []ReadyMeansRecovered
<1>1. IInv => ReadyMeansRecovered
  BY DEF IInv
<1> QED BY <1>1, Invariance, PTL

\* No candidate is validated while an operation for it is unfinished.
THEOREM NeverValidatedMeanwhile == Spec => []LeaseFence
<1>1. IInv => LeaseFence
  BY DEF IInv
<1> QED BY <1>1, Invariance, PTL

\* The rule file is written for a candidate that is still confirmed, active,
\* unleased and of this rule, in review mode.
THEOREM WritesAreAuthorized == Spec => AuthorizedWrite
<1>1. IInv /\ [Next]_vars =>
        [pc = "commit" /\ file' # file =>
          review /\ cand[op[cur].cand] = [status |-> "confirmed", review |-> "active",
                                         rule |-> op[cur].rule, lease |-> "none"]]_vars
  BY DEF IInv, Allowed
<1> QED BY <1>1, Invariance, PTL DEF Spec, AuthorizedWrite

\* What others wrote into the rule file is never overwritten: commit finds the
\* revision its operation was prepared for, or it does not write.
THEOREM OutsideEditsSurvive == Spec => OutsideEditKept
<1>1. ASSUME IInv, Next, pc = "commit", file' # file, pc' # "commit"
      PROVE  file = op[cur].base
  <2>1. CASE Commit
    BY <1>1, <2>1 DEF Commit, Current, store
  <2>2. CASE CrashInStore
    BY <1>1, <2>2 DEF CrashInStore
  <2>3. CASE Environment /\ ~CrashInStore
    BY <1>1, <2>3 DEF Environment, Boot, Crash, CleanUp, OutsideEdit, Provision, Wake, durable, store, running
  <2>4. CASE Start \/ Review \/ Validation \/ Clients
    BY <1>1, <2>4 DEF Start, Review, Reject, Restore, SelectScope, Recheck, ChangeSettings, Serialized,
         Validation, Claim, ValidationEnds, Clients, SubmitRequest, durable, store
  <2>5. CASE Worker /\ ~Commit
    BY <1>1, <2>5 DEF Worker, RefuseSubmit, ResumeSubmit, TakeIntent, PrepareOperation, RunRecovery, RunDrain,
         NextOperation, PassEnds, Terminal, Attest, Preflight, Veto, Finalize, Begin, ProveBefore, Activate,
         ProveAfter, Take, durable, store
  <2> QED BY <1>1, <2>1, <2>2, <2>3, <2>4, <2>5 DEF Next
<1>2. IInv /\ [Next]_vars => [pc = "commit" /\ file' # file /\ pc' # "commit" => file = op[cur].base]_vars
  BY <1>1
<1> QED BY <1>2, Invariance, PTL DEF Spec, OutsideEditKept

----------------------------------------------------------------------------
(* The rule file while nobody else writes it: the owned rules, at most the one *)
(* of a write still to be finalized, and nothing the deployment would take for *)
(* an outside edit.  The inductive invariant, on top of that of the worker.    *)

\* Only a crash leaves a temporary file, and then the lock with it.
LitterOK == "tmp" \in litter => "lock" \in litter

\* The revision a submission has read is still that of the file.
IntentOK == pc = "prepare" => intent.base = file /\ intent.rule \notin file

\* An operation still to be written finds the file as it was prepared for, or
\* already as it would leave it.
PreparedOK ==
    \A o \in Ops : op[o].phase = "prepared" => file \in {op[o].base, Goal(o)} /\ op[o].rule \notin op[o].base

\* One that was written finds what it wrote.
WrittenOK == \A o \in Ops : op[o].phase \in {"committed", "activating", "partial"} => file = Goal(o)

\* What the running operation has attested is still so.
FileAtStep ==
    /\ pc \in {"preflight", "veto", "commit"} => file = op[cur].base
    /\ pc = "finalize" => file = Goal(cur)

Owns ==
    /\ owned \subseteq file
    /\ \A r \in file \ owned : \E o \in Ops : op[o].phase = "prepared" /\ op[o].rule = r

Quiet == (\A o \in Ops : op[o].phase # "reconciliation-required") /\ Recognised

SInv == /\ LitterOK /\ IntentOK /\ PreparedOK /\ WrittenOK /\ FileAtStep
        /\ Owns /\ Quiet

----------------------------------------------------------------------------
(* Steps that change neither the file nor the journal, the write, and a change *)
(* of phase                                                                    *)

Resting == {"idle", "next", "execute", "begin", "proveBefore", "activate", "proveAfter"}

LEMMA SameFile ==
    ASSUME IInv, SInv, UNCHANGED <<file, op, owned>>, LitterOK', marker' \in {marker, file},
           \/ pc' \in Resting
           \/ UNCHANGED <<pc, cur, intent>>
           \/ pc' = "prepare" /\ intent'.base = file /\ intent'.rule \notin file
           \/ pc' \in {"preflight", "veto", "commit"} /\ cur' = cur /\ file = op[cur].base
           \/ pc' = "finalize" /\ cur' = cur /\ file = Goal(cur)
    PROVE  SInv'
<1> USE DEF SInv
<1>1. PreparedOK' /\ WrittenOK' /\ Owns'
  BY DEF PreparedOK, WrittenOK, Owns, Goal
<1>2. Quiet'
  BY DEF Quiet, Recognised, Goal
<1>3. IntentOK' /\ FileAtStep'
  BY DEF IntentOK, FileAtStep, Goal, Resting
<1> QED BY <1>1, <1>2, <1>3

LEMMA FileWritten ==
    ASSUME IInv, SInv, pc = "commit", UNCHANGED <<op, owned>>,
           file' \in {file, Goal(cur)}, marker' = marker \/ marker' = file', LitterOK',
           \/ pc' = "idle"
           \/ pc' = "finalize" /\ cur' = cur /\ file' = Goal(cur)
    PROVE  SInv'
<1> USE DEF SInv
<1>1. /\ cur \in Ops /\ op[cur].phase = "prepared" /\ file = op[cur].base /\ op[cur].rule \notin op[cur].base
      /\ \A o \in Ops : op[o].phase \in UnfinishedPhases => o = cur
  <2>1. cur \in Ops /\ op[cur].phase = "prepared"
    BY Executing DEF IInv, AtStep
  <2> QED BY <2>1 DEF IInv, ReadyMeansRecovered, Unfinished, UnfinishedPhases, PreparedOK, FileAtStep
<1>2. PreparedOK' /\ WrittenOK' /\ IntentOK' /\ FileAtStep'
  BY <1>1 DEF PreparedOK, WrittenOK, IntentOK, FileAtStep, Goal, UnfinishedPhases
<1>3. Owns'
  BY <1>1 DEF Owns, Goal
<1>4. Quiet'
  BY <1>1 DEF Quiet, Recognised, Goal
<1> QED BY <1>2, <1>3, <1>4

LEMMA PhaseMoves ==
    ASSUME IInv, SInv, cur \in Ops, NEW p \in Phases, Phase(p), UNCHANGED <<file, litter>>, pc' \in Resting,
           \/ /\ op[cur].phase = "prepared" /\ p = "committed" /\ file = Goal(cur)
              /\ owned' = owned \cup {op[cur].rule} /\ marker' = marker
           \/ op[cur].phase = "prepared" /\ p = "aborted" /\ file = op[cur].base /\ UNCHANGED <<owned, marker>>
           \/ /\ op[cur].phase \in {"committed", "activating", "partial"}
              /\ \/ p \in {"activating", "partial"} /\ marker' \in {marker, file}
                 \/ p = "completed" /\ marker' = file
              /\ owned' = owned
    PROVE  SInv'
<1> USE DEF SInv
<1>1. /\ op'[cur].phase = p /\ \A o \in Ops : o # cur => op'[o] = op[o]
      /\ \A o \in Ops : op'[o].rule = op[o].rule /\ op'[o].base = op[o].base
  BY PhaseChanges DEF IInv
<1>2. \A o \in Ops : op[o].phase \in UnfinishedPhases => o = cur
  BY DEF IInv, ReadyMeansRecovered, Unfinished, UnfinishedPhases
<1>3. LitterOK' /\ IntentOK' /\ FileAtStep'
  BY DEF LitterOK, IntentOK, FileAtStep, Resting
<1>4. PreparedOK' /\ WrittenOK'
  BY <1>1, <1>2 DEF PreparedOK, WrittenOK, Goal, UnfinishedPhases
<1>5. Owns'
  BY <1>1, <1>2 DEF Owns, PreparedOK, WrittenOK, Goal, UnfinishedPhases
<1>6. Quiet'
  BY <1>1, <1>2 DEF Quiet, Recognised, PreparedOK, Goal, UnfinishedPhases
<1> QED BY <1>3, <1>4, <1>5, <1>6

----------------------------------------------------------------------------
(* Every step keeps it, unless others write *)

\* What the steps of the worker make of the program counter.
LEMMA Ends == /\ Settled => pc' \in Resting
              /\ Suspend => pc' \in Resting
              /\ Fail => pc' \in Resting /\ pc' = "idle"
              /\ Idle => pc' \in Resting /\ pc' = "idle"
  BY DEF Settled, Suspend, Fail, Idle, Resting

LEMMA StoreInitially == Init => SInv
<1> SUFFICES ASSUME Init PROVE SInv
  OBVIOUS
<1>1. \A o \in Ops : op[o].phase = "none"
  BY DEF Init
<1> QED BY <1>1 DEF Init, SInv, LitterOK, IntentOK, PreparedOK, WrittenOK, FileAtStep, Owns, Quiet, Recognised

\* The process and its environment.
LEMMA StoreEnvironment ==
    ASSUME IInv, SInv, ~Tampering, Environment \/ Start
    PROVE  SInv'
<1>1. ~OutsideEdit
  BY DEF OutsideEdit
<1>2. CASE Boot \/ Wake \/ Start
  BY <1>2, SameFile DEF Boot, Wake, Start, durable, running, SInv, LitterOK
<1>3. CASE Crash
  <2>1. Idle /\ UNCHANGED <<file, litter, marker, op, owned>>
    BY <1>3 DEF Crash, Stopped, store, journal
  <2> QED BY <2>1, Ends, SameFile DEF SInv, LitterOK
<1>4. CASE CrashInStore
  <2>1. /\ Idle /\ UNCHANGED <<marker, op, owned>> /\ LitterOK'
        /\ UNCHANGED file \/ (pc = "commit" /\ file' = Goal(cur))
    BY <1>4 DEF CrashInStore, Stopped, journal, LitterOK
  <2>2. CASE UNCHANGED file
    BY <2>1, <2>2, Ends, SameFile
  <2>3. CASE pc = "commit" /\ file' = Goal(cur)
    BY <2>1, <2>3, Ends, FileWritten
  <2> QED BY <2>1, <2>2, <2>3
<1>5. CASE CleanUp
  BY <1>5, SameFile DEF CleanUp, journal, running, LitterOK
<1>6. CASE Provision
  BY <1>6, SameFile DEF Provision, journal, running, SInv, LitterOK
<1> QED BY <1>1, <1>2, <1>3, <1>4, <1>5, <1>6 DEF Environment

\* Candidates and clients leave the file and the journal alone.
LEMMA StoreOthers ==
    ASSUME IInv, SInv, Review \/ Validation \/ Clients
    PROVE  SInv'
<1>1. UNCHANGED <<file, litter, marker, op, owned, pc, cur, intent>>
  BY DEF Review, Reject, Restore, SelectScope, Recheck, ChangeSettings, Serialized, Validation, Claim,
      ValidationEnds, Clients, SubmitRequest, durable, store, journal, running
<1> QED BY <1>1, SameFile DEF SInv, LitterOK

\* Tasks are taken and refused, passes advance and end.
LEMMA StoreTasks ==
    ASSUME IInv, SInv, RefuseSubmit \/ ResumeSubmit \/ TakeIntent \/ RunRecovery \/ RunDrain \/ NextOperation \/ PassEnds
    PROVE  SInv'
<1>1. UNCHANGED <<file, litter, marker, op, owned>>
  BY DEF RefuseSubmit, ResumeSubmit, TakeIntent, RunRecovery, RunDrain, NextOperation, PassEnds, durable
<1>2. \/ pc' \in Resting \/ UNCHANGED <<pc, cur, intent>>
      \/ pc' = "prepare" /\ intent'.base = file /\ intent'.rule \notin file
  BY DEF RefuseSubmit, ResumeSubmit, TakeIntent, RunRecovery, RunDrain, NextOperation, PassEnds, running, Idle, Resting
<1> QED BY <1>1, <1>2, SameFile DEF SInv, LitterOK

\* The journal takes a new operation: there is no other.
LEMMA StorePrepare ==
    ASSUME IInv, SInv, PrepareOperation
    PROVE  SInv'
<1>1. /\ pc = "prepare" /\ UNCHANGED <<file, litter, marker, owned>>
      /\ task.op \in Ops /\ op[task.op].phase = "none"
  BY DEF PrepareOperation, store, IInv, AtStep, SubmitTasks
<1>2. CASE ~MayPrepare(task.cand)
  BY <1>1, <1>2, Ends, SameFile DEF PrepareOperation, SInv, LitterOK
<1>3. CASE MayPrepare(task.cand)
  <2>1. /\ op' = [op EXCEPT ![task.op] = [phase |-> "prepared", cand |-> task.cand,
                                         rule |-> intent.rule, base |-> intent.base]]
        /\ pc' = "execute"
    BY <1>3 DEF PrepareOperation
  <2>2. /\ op'[task.op].phase = "prepared" /\ op'[task.op].base = file /\ op'[task.op].rule \notin file
        /\ \A o \in Ops : o # task.op => op'[o] = op[o]
    BY <1>1, <2>1 DEF IInv, TypeOK, SInv, IntentOK
  <2>3. \A o \in Ops : op[o].phase \notin UnfinishedPhases
    BY <1>1, DomainRuleAssumption DEF IInv, Clear, Unfinished, TypeOK
  <2>4. LitterOK' /\ IntentOK' /\ FileAtStep' /\ PreparedOK' /\ WrittenOK'
    BY <1>1, <2>1, <2>2 DEF SInv, LitterOK, IntentOK, FileAtStep, PreparedOK, WrittenOK, Goal
  <2>5. Owns' /\ Quiet'
    BY <1>1, <2>2, <2>3 DEF SInv, Owns, Quiet, Recognised, UnfinishedPhases
  <2> QED BY <2>4, <2>5 DEF SInv
<1> QED BY <1>2, <1>3

\* Attestations, the preflight, the write and the transaction after it.
LEMMA StoreWrite ==
    ASSUME IInv, SInv, ~Tampering, Terminal \/ Attest \/ Preflight \/ Veto \/ Commit \/ Finalize
    PROVE  SInv'
<1> USE DEF SInv
<1>1. pc \notin {"idle", "prepare", "next"}
  BY DEF Terminal, Attest, Preflight, Veto, Commit, Finalize
<1>2. cur \in Ops
  BY <1>1, Executing
<1>3. litter # {} => "lock" \in litter
  BY DEF LitterOK, IInv, TypeOK
<1>4. ASSUME Unproved, "lock" \in litter, UNCHANGED <<file, litter, marker, owned>> PROVE SInv'
  BY <1>4, Ends, SameFile DEF Unproved, LitterOK
<1>5. CASE Terminal
  BY <1>5, Ends, SameFile DEF Terminal, durable, LitterOK
<1>6. CASE Attest
  <2>1. /\ op[cur].phase = "prepared" /\ UNCHANGED <<file, litter, marker, owned>>
        /\ StoreState(cur) # "unknown"
    BY <1>2, <1>6 DEF Attest, store, PreparedOK, StoreState
  <2>2. CASE Unproved /\ litter # {}
    BY <1>3, <1>4, <2>1, <2>2
  <2>3. CASE To("finalize") /\ StoreState(cur) = "written" /\ UNCHANGED op
    <3>1. file = Goal(cur)
      BY <2>3 DEF StoreState
    <3> QED BY <2>1, <2>3, <3>1, SameFile DEF To, LitterOK
  <2>4. CASE To("preflight") /\ StoreState(cur) = "expected" /\ UNCHANGED op
    <3>1. file = op[cur].base
      BY <2>4 DEF StoreState
    <3> QED BY <2>1, <2>4, <3>1, SameFile DEF To, LitterOK
  <2>5. StoreState(cur) \in {"expected", "written", "unknown"}
    BY DEF StoreState
  <2> QED BY <1>6, <2>1, <2>2, <2>3, <2>4, <2>5 DEF Attest
<1>7. CASE Preflight
  <2>1. pc = "preflight" /\ file = op[cur].base /\ UNCHANGED <<file, litter, marker, op, owned>>
    BY <1>7 DEF Preflight, durable, FileAtStep
  <2>2. Suspend \/ To("veto") \/ To("commit")
    BY <1>7 DEF Preflight
  <2> QED BY <2>1, <2>2, Ends, SameFile DEF To, LitterOK
<1>8. CASE Veto
  <2>1. /\ pc = "veto" /\ op[cur].phase = "prepared" /\ file = op[cur].base
        /\ StoreState(cur) = "expected" /\ UNCHANGED <<file, litter, marker, owned>>
    BY <1>8 DEF Veto, store, FileAtStep, StoreState, IInv, AtStep
  <2>2. CASE Unproved /\ litter # {}
    BY <1>3, <1>4, <2>1, <2>2
  <2>3. CASE Abort
    BY <1>2, <2>1, <2>3, Ends, PhaseMoves DEF Abort, Phases
  <2> QED BY <1>8, <2>1, <2>2, <2>3 DEF Veto
<1>9. CASE Commit
  <2>1. pc = "commit" /\ Current(cur) /\ owned' = owned
    BY <1>9 DEF Commit, Current, FileAtStep
  <2>2. CASE Unproved /\ litter # {} /\ UNCHANGED store
    BY <1>3, <1>4, <2>1, <2>2 DEF store
  <2>3. CASE /\ file' = Goal(cur) /\ marker' = Goal(cur) /\ To("finalize") /\ UNCHANGED <<litter, op>>
    BY <2>1, <2>3, FileWritten DEF To, LitterOK
  <2>4. CASE litter = {} /\ WriteFails /\ UNCHANGED op
    BY <2>1, <2>4, Ends, FileWritten DEF WriteFails, LitterOK
  <2> QED BY <1>9, <2>1, <2>2, <2>3, <2>4 DEF Commit
<1>10. CASE Finalize
  <2>1. /\ pc = "finalize" /\ op[cur].phase = "prepared" /\ file = Goal(cur) /\ UNCHANGED <<file, litter, marker>>
    BY <1>10 DEF Finalize, store, FileAtStep, IInv, AtStep
  <2>2. CASE Fail /\ UNCHANGED journal
    BY <2>1, <2>2, Ends, SameFile DEF journal, LitterOK
  <2>3. CASE Phase("committed") /\ owned' = owned \cup {op[cur].rule} /\ To("begin")
    BY <1>2, <2>1, <2>3, PhaseMoves DEF To, Resting, Phases, UnfinishedPhases
  <2> QED BY <1>10, <2>2, <2>3 DEF Finalize
<1> QED BY <1>5, <1>6, <1>7, <1>8, <1>9, <1>10

\* The activation of what was written.
LEMMA StoreActivation ==
    ASSUME IInv, SInv, ~Tampering, Begin \/ ProveBefore \/ Activate \/ ProveAfter
    PROVE  SInv'
<1> USE DEF SInv
<1>1. pc \notin {"idle", "prepare", "next"} /\ UNCHANGED <<file, litter, owned>>
  BY DEF Begin, ProveBefore, Activate, ProveAfter, durable, store
<1>2. /\ cur \in Ops /\ op[cur].phase \in {"committed", "activating", "partial"}
      /\ file = Goal(cur)
  <2>1. cur \in Ops /\ op[cur].phase \in {"committed", "activating", "partial"}
    BY <1>1, Executing DEF Begin, ProveBefore, Activate, ProveAfter, IInv, AtStep
  <2> QED BY <2>1 DEF WrittenOK
<1>3. litter # {} => "lock" \in litter
  BY DEF LitterOK, IInv, TypeOK
<1>4. ASSUME Doubted, ~Proved, UNCHANGED marker PROVE SInv'
  <2>1. Phase("partial") /\ Suspend
    BY <1>2, <1>3, <1>4 DEF Doubted, Proved
  <2> QED BY <1>1, <1>2, <1>4, <2>1, Ends, PhaseMoves DEF Phases, UnfinishedPhases
<1>5. CASE Begin
  BY <1>1, <1>2, <1>5, PhaseMoves DEF Begin, Activatable, To, Resting, Phases, UnfinishedPhases, store
<1>6. CASE ProveBefore
  <2>1. CASE Attested /\ To("activate") /\ UNCHANGED op
    BY <1>1, <2>1, SameFile DEF Attested, To, Resting, LitterOK
  <2> QED BY <1>4, <1>6, <2>1 DEF ProveBefore
<1>7. CASE Activate
  BY <1>1, <1>7, SameFile DEF Activate, durable, Resting, LitterOK
<1>8. CASE ProveAfter
  <2>1. CASE Attested /\ Phase("completed") /\ Settled
    BY <1>1, <1>2, <2>1, Ends, PhaseMoves DEF Attested, Phases
  <2>2. CASE Attested /\ Phase("partial") /\ Suspend
    BY <1>1, <1>2, <2>2, Ends, PhaseMoves DEF Attested, Phases, UnfinishedPhases
  <2> QED BY <1>4, <1>8, <2>1, <2>2 DEF ProveAfter, Conclude
<1> QED BY <1>5, <1>6, <1>7, <1>8

THEOREM StoreInvariance == ~Tampering => (Spec => []SInv)
<1> SUFFICES ASSUME ~Tampering PROVE Spec => []SInv
  OBVIOUS
<1>1. Init => SInv
  BY StoreInitially
<1>2. IInv /\ SInv /\ [Next]_vars => SInv'
  <2> SUFFICES ASSUME IInv, SInv, [Next]_vars PROVE SInv'
    OBVIOUS
  <2>1. CASE UNCHANGED vars
    BY <2>1, SameFile DEF vars, SInv, LitterOK
  <2>2. CASE Environment \/ Start
    BY <2>2, StoreEnvironment
  <2>3. CASE Review \/ Validation \/ Clients
    BY <2>3, StoreOthers
  <2>4. CASE Worker
    BY <2>4, StoreTasks, StorePrepare, StoreWrite, StoreActivation DEF Worker
  <2> QED BY <2>1, <2>2, <2>3, <2>4 DEF Next
<1> QED BY <1>1, <1>2, Invariance, PTL DEF Spec

----------------------------------------------------------------------------
(* What follows *)

\* Nobody else writing, the file holds the owned rules and at most that of one
\* operation whose write is still to be finalized, whatever crashes, failed writes
\* and vetoes happen.
THEOREM FileIsOwned == Spec => []OwnershipMatchesFile
<1>1. SInv => OwnershipMatchesFile
  BY DEF SInv, Owns, OwnershipMatchesFile
<1>2. Tampering => OwnershipMatchesFile
  BY DEF OwnershipMatchesFile
<1>3. CASE Tampering
  BY <1>2, <1>3, PTL
<1>4. CASE ~Tampering
  BY <1>1, <1>4, StoreInvariance, PTL
<1> QED BY <1>3, <1>4

\* Nobody else writing, no operation ever asks for a manual reconciliation, and the
\* deployment always recognises the file.
THEOREM NeverAnAlarm == Spec => []NoFalseAlarm
<1>1. SInv => NoFalseAlarm
  BY DEF SInv, Quiet, NoFalseAlarm
<1>2. Tampering => NoFalseAlarm
  BY DEF NoFalseAlarm
<1>3. CASE Tampering
  BY <1>2, <1>3, PTL
<1>4. CASE ~Tampering
  BY <1>1, <1>4, StoreInvariance, PTL
<1> QED BY <1>3, <1>4

=============================================================================
