------------------------- MODULE SourceRefreshProofs -------------------------
(***************************************************************************)
(* Proofs about SourceRefresh, for every set of sources and without a      *)
(* bound on the requests or the failures.                                  *)
(***************************************************************************)
EXTENDS SourceRefresh, TLAPS

----------------------------------------------------------------------------
(* Sequences without repetition *)

\* A source that joins the end of the queue.
LEMMA AppendNew ==
    ASSUME NEW S, NEW q \in Seq(S), NEW x \in S, x \notin ToSet(q), Distinct(q)
    PROVE  /\ Append(q, x) \in Seq(S) /\ Distinct(Append(q, x))
           /\ ToSet(Append(q, x)) = ToSet(q) \cup {x}
           /\ Append(q, x) # <<>>
           /\ q # <<>> => Head(Append(q, x)) = Head(q)
<1> DEFINE r == Append(q, x)
<1>1. /\ Len(q) \in Nat /\ DOMAIN q = 1..Len(q)
      /\ r \in Seq(S) /\ DOMAIN r = 1..(Len(q) + 1)
      /\ \A i \in 1..Len(q) : r[i] = q[i] /\ r[i] \in ToSet(q)
      /\ r[Len(q) + 1] = x /\ r # <<>>
  BY DEF ToSet
<1>2. Distinct(r)
  <2> SUFFICES ASSUME NEW i \in 1..(Len(q) + 1), NEW j \in 1..(Len(q) + 1), r[i] = r[j]
               PROVE  i = j
    BY <1>1 DEF Distinct
  <2>1. CASE i = Len(q) + 1 BY <1>1, <2>1
  <2>2. CASE j = Len(q) + 1 BY <1>1, <2>2
  <2>3. CASE i \in 1..Len(q) /\ j \in 1..Len(q) BY <1>1, <2>3 DEF Distinct
  <2> QED BY <1>1, <2>1, <2>2, <2>3
<1>3. ToSet(r) = ToSet(q) \cup {x}
  <2>1. \A i \in 1..(Len(q) + 1) : r[i] \in ToSet(q) \cup {x}
    BY <1>1
  <2>2. \A i \in 1..Len(q) : q[i] \in ToSet(r)
    BY <1>1 DEF ToSet
  <2>3. x \in ToSet(r)
    BY <1>1 DEF ToSet
  <2> QED BY <1>1, <2>1, <2>2, <2>3 DEF ToSet
<1>4. q # <<>> => Head(r) = Head(q)
  BY <1>1
<1> QED BY <1>1, <1>2, <1>3, <1>4

\* The head of the queue leaves it.
LEMMA TailRest ==
    ASSUME NEW S, NEW q \in Seq(S), q # <<>>, Distinct(q)
    PROVE  /\ Tail(q) \in Seq(S) /\ Distinct(Tail(q))
           /\ Head(q) \in S /\ Head(q) \in ToSet(q)
           /\ ToSet(Tail(q)) = ToSet(q) \ {Head(q)}
<1>1. /\ Len(q) \in Nat /\ Len(q) # 0 /\ DOMAIN q = 1..Len(q)
      /\ Tail(q) \in Seq(S) /\ DOMAIN Tail(q) = 1..(Len(q) - 1)
      /\ \A i \in 1..(Len(q) - 1) : Tail(q)[i] = q[i + 1]
      /\ Head(q) = q[1] /\ Head(q) \in S
  OBVIOUS
<1>2. Distinct(Tail(q))
  BY <1>1 DEF Distinct
<1>3. ToSet(Tail(q)) = ToSet(q) \ {Head(q)}
  <2>1. ASSUME NEW i \in 1..(Len(q) - 1) PROVE Tail(q)[i] \in ToSet(q) \ {Head(q)}
    BY <1>1 DEF ToSet, Distinct
  <2>2. ASSUME NEW i \in 1..Len(q), q[i] # Head(q) PROVE q[i] \in ToSet(Tail(q))
    <3>1. i - 1 \in 1..(Len(q) - 1) /\ Tail(q)[i - 1] = q[i]
      BY <1>1, <2>2
    <3> QED BY <1>1, <3>1 DEF ToSet
  <2> QED BY <1>1, <2>1, <2>2 DEF ToSet
<1>4. Head(q) \in ToSet(q)
  <2>1. 1 \in 1..Len(q)
    BY <1>1
  <2> QED BY <1>1, <2>1 DEF ToSet
<1> QED BY <1>1, <1>2, <1>3, <1>4

----------------------------------------------------------------------------
(* The inductive invariant *)

\* A refresh runs only at the head of the queue, and a pulse that waits is one that
\* waits for some source.
Working ==
    /\ run.pc # "idle" => queue # <<>>
    /\ sched.s # NoSource => sched.pc = "wait"

IInv == TypeOK /\ SingleFlight /\ Working

\* What the requests say of the queue, and who waits for them.
Agree(pending, requests) ==
    /\ pending \in Seq(Sources) /\ Distinct(pending)
    /\ requests \in [Sources -> Triggers \cup {"none"}]
    /\ \A s \in Sources : requests[s] # "none" <=> s \in ToSet(pending)

\* A request that joins keeps them in agreement.
LEMMA Joining ==
    ASSUME NEW pending, NEW requests, Agree(pending, requests),
           NEW s \in Sources, NEW trigger \in Triggers
    PROVE  /\ Agree(Queued(pending, s), Joined(requests, s, trigger))
           /\ ToSet(Queued(pending, s)) = ToSet(pending) \cup {s}
           /\ Queued(pending, s) # <<>>
           /\ pending # <<>> => Head(Queued(pending, s)) = Head(pending)
<1>1. Joined(requests, s, trigger) \in [Sources -> Triggers \cup {"none"}]
  BY DEF Agree, Joined, strongerRefreshTrigger
<1>2. \A t \in Sources : Joined(requests, s, trigger)[t] # "none" <=> requests[t] # "none" \/ t = s
  BY DEF Agree, Joined, strongerRefreshTrigger, Triggers
<1>3. CASE s \in ToSet(pending)
  <2>1. Queued(pending, s) = pending
    BY <1>3 DEF Queued
  <2>2. pending # <<>>
    BY <1>3 DEF ToSet
  <2> QED BY <1>1, <1>2, <1>3, <2>1, <2>2 DEF Agree
<1>4. CASE s \notin ToSet(pending)
  <2>1. Queued(pending, s) = Append(pending, s)
    BY <1>4 DEF Queued
  <2> QED BY <1>1, <1>2, <1>4, <2>1, AppendNew DEF Agree
<1> QED BY <1>3, <1>4

\* The scheduler, from one await to the next.
Waits == [pc : {"off", "idle", "wait"}, todo : SUBSET Sources, s : Sources \cup {NoSource}]

LEMMA Advancing ==
    ASSUME NEW pending, NEW requests, Agree(pending, requests),
           NEW todo \in SUBSET Sources, Advance(todo, pending, requests)
    PROVE  /\ Agree(queue', inFlight') /\ sched' \in Waits
           /\ ToSet(pending) \subseteq ToSet(queue')
           /\ sched'.s # NoSource => sched'.pc = "wait" /\ sched'.s \in ToSet(queue')
           /\ pending # <<>> => queue' # <<>> /\ Head(queue') = Head(pending)
<1> DEFINE wanted == {s \in todo : row[s].state = "on"}
<1>1. CASE wanted = {} \/ proc = "stopping"
  BY <1>1, RefreshAssumption DEF Advance, Unscheduled, Waits
<1>2. CASE ~(wanted = {} \/ proc = "stopping")
  <2>1. PICK s \in wanted, passed \in SUBSET (todo \ wanted) :
            /\ sched' = [pc |-> "wait", todo |-> todo \ (passed \cup {s}), s |-> s]
            /\ queue' = Queued(pending, s) /\ inFlight' = Joined(requests, s, "scheduled")
    BY <1>2 DEF Advance
  <2>2. s \in Sources /\ "scheduled" \in Triggers
    BY DEF Triggers
  <2>3. sched' \in Waits /\ sched'.pc = "wait" /\ sched'.s = s
    BY <2>1, <2>2 DEF Waits
  <2> QED BY <2>1, <2>2, <2>3, Joining
<1> QED BY <1>1, <1>2

\* What every refresh leaves behind, whatever its outcome.
Requests ==
    /\ Agree(queue, inFlight) /\ sched \in Waits
    /\ asked \subseteq Sources /\ enabling \in [Sources -> 0..MaxWaiters]
    /\ \A s \in Sources : s \in asked \/ enabling[s] > 0 \/ sched.s = s => s \in ToSet(queue)
    /\ sched.s # NoSource => sched.pc = "wait"

LEMMA RequestsOfInvariant == IInv => Requests
BY DEF IInv, TypeOK, SingleFlight, Working, Requests, Agree, Waits

LEMMA Settling ==
    ASSUME Requests, queue # <<>>, NEW ok, Settle(Head(queue), ok)
    PROVE  Requests' /\ run' = NoRun
<1> DEFINE s == Head(queue)
           rest == Tail(queue)
           requests == [inFlight EXCEPT ![s] = "none"]
<1>1. /\ s \in Sources /\ s \in ToSet(queue)
      /\ rest \in Seq(Sources) /\ Distinct(rest) /\ ToSet(rest) = ToSet(queue) \ {s}
  BY TailRest DEF Requests, Agree
<1>2. Agree(rest, requests)
  BY <1>1 DEF Requests, Agree
<1>3. /\ asked' = asked \ {s} /\ enabling' = [enabling EXCEPT ![s] = 0]
      /\ run' = NoRun
  BY DEF Settle
<1>4. /\ asked' \subseteq Sources /\ enabling' \in [Sources -> 0..MaxWaiters]
      /\ \A t \in Sources : t \in asked' \/ enabling'[t] > 0 => t \in ToSet(rest)
  BY <1>1, <1>3, RefreshAssumption DEF Requests
<1>5. CASE sched.s = s
  <2>1. Advance(sched.todo, rest, requests) /\ sched.todo \in SUBSET Sources
    BY <1>5 DEF Settle, Served, Requests, Waits
  <2>2. /\ Agree(queue', inFlight') /\ sched' \in Waits
        /\ ToSet(rest) \subseteq ToSet(queue')
        /\ sched'.s # NoSource => sched'.pc = "wait" /\ sched'.s \in ToSet(queue')
    BY <1>2, <2>1, RefreshAssumption, Advancing
  <2> QED BY <1>3, <1>4, <2>2, RefreshAssumption DEF Requests
<1>6. CASE sched.s # s
  <2>1. queue' = rest /\ inFlight' = requests /\ sched' = sched
    BY <1>6 DEF Settle, Served
  <2> QED BY <1>1, <1>2, <1>3, <1>4, <1>6, <2>1 DEF Requests
<1> QED BY <1>3, <1>5, <1>6

----------------------------------------------------------------------------
(* The theorems *)

LEMMA Initially == Init => IInv
<1> SUFFICES ASSUME Init PROVE IInv
  OBVIOUS
<1>1. queue \in Seq(Sources) /\ Distinct(queue) /\ ToSet(queue) = {}
  BY DEF Init, Distinct, ToSet
<1>2. row \in [Sources -> Rows]
  BY DEF Init
<1> QED BY <1>1, <1>2, RefreshAssumption
       DEF Init, IInv, TypeOK, SingleFlight, Working, NoRun, Unscheduled, Triggers

\* Backing off stays below the cap.
LEMMA BackoffType == \A n \in 0..MaxFailures : Backoff(n) \in 0..MaxFailures
BY RefreshAssumption DEF Backoff

\* Updates of a row.
LEMMA RowTypes ==
    ASSUME NEW r \in Rows
    PROVE  /\ \A x \in {"new", "on", "off", "gone"} : [r EXCEPT !.state = x] \in Rows
           /\ \A x \in {"never", "later", "now"} : [r EXCEPT !.due = x] \in Rows
           /\ \A x \in BOOLEAN : [r EXCEPT !.fresh = x] \in Rows
           /\ [r EXCEPT !.state = "on", !.fresh = TRUE] \in Rows
           /\ \A n \in 0..MaxFailures : [r EXCEPT !.due = "later", !.failures = n] \in Rows
           /\ \A x \in {"new", "on", "off", "gone"} :
                  [r EXCEPT !.due = "later", !.failures = 0, !.state = x] \in Rows
<1>1. 0 \in 0..MaxFailures
  BY RefreshAssumption
<1>2. ASSUME NEW x \in {"new", "on", "off", "gone"} PROVE [r EXCEPT !.state = x] \in Rows
  BY DEF Rows
<1>3. ASSUME NEW x \in {"never", "later", "now"} PROVE [r EXCEPT !.due = x] \in Rows
  BY DEF Rows
<1>4. ASSUME NEW x \in BOOLEAN PROVE [r EXCEPT !.fresh = x] \in Rows
  BY DEF Rows
<1>5. [r EXCEPT !.state = "on", !.fresh = TRUE] \in Rows
  BY DEF Rows
<1>6. ASSUME NEW n \in 0..MaxFailures PROVE [r EXCEPT !.due = "later", !.failures = n] \in Rows
  BY DEF Rows
<1>7. ASSUME NEW x \in {"new", "on", "off", "gone"}
      PROVE  [r EXCEPT !.due = "later", !.failures = 0, !.state = x] \in Rows
  BY <1>1 DEF Rows
<1> QED BY <1>2, <1>3, <1>4, <1>5, <1>6, <1>7

\* A row of the table is replaced by a row.
LEMMA TableTypes ==
    ASSUME TypeOK, NEW s \in Sources, NEW r \in Rows
    PROVE  row[s] \in Rows /\ [row EXCEPT ![s] = r] \in [Sources -> Rows]
BY DEF TypeOK

\* The invariant of the next state from its parts.
LEMMA Assembled ==
    ASSUME Requests', Working', proc' \in {"down", "booting", "up", "stopping"},
           row' \in [Sources -> Rows],
           run' \in [pc : {"idle", "fetch", "apply"}, failures : 0..MaxFailures, lost : BOOLEAN],
           edits' \in 0..MaxEdits, faults' \in 0..MaxFaults
    PROVE  IInv'
BY DEF IInv, TypeOK, SingleFlight, Working, Requests, Agree, Waits

LEMMA Counters ==
    ASSUME TypeOK
    PROVE  /\ Fault => faults' \in 0..MaxFaults
           /\ Act => edits' \in 0..MaxEdits
BY RefreshAssumption DEF TypeOK, Fault, Act

LEMMA AdministratorKeeps == IInv /\ Administrator => IInv'
<1> SUFFICES ASSUME IInv, Administrator PROVE IInv'
  OBVIOUS
<1> USE RequestsOfInvariant, Counters DEF IInv
<1>1. CASE Shutdown
  BY <1>1 DEF Shutdown, TypeOK, SingleFlight, Working, volatile, Act
<1>2. ASSUME NEW s \in Sources, AddSource(s) \/ RemoveSource(s) \/ Disable(s) PROVE IInv'
  <2>1. row' \in [Sources -> Rows]
    <3>1. row[s] \in Rows
      BY DEF TypeOK
    <3>2. CASE AddSource(s)
      <4>1. row' = [row EXCEPT ![s] = [row[s] EXCEPT !.state = "on", !.fresh = TRUE]]
        BY <3>1, <3>2 DEF AddSource, TypeOK
      <4> QED BY <3>1, <4>1, RowTypes, TableTypes
    <3>3. CASE RemoveSource(s) \/ Disable(s)
      <4>1. PICK x \in {"off", "gone"} : row' = [row EXCEPT ![s] = [row[s] EXCEPT !.state = x]]
        BY <3>3 DEF RemoveSource, Disable
      <4> QED BY <3>1, <4>1, RowTypes, TableTypes
    <3> QED BY <1>2, <3>2, <3>3
  <2>2. UNCHANGED <<proc, volatile, faults>> /\ Act
    BY <1>2 DEF AddSource, RemoveSource, Disable
  <2> QED BY <2>1, <2>2 DEF TypeOK, SingleFlight, Working, volatile
<1>3. ASSUME NEW s \in Sources, RefreshManually(s) \/ Enable(s) PROVE IInv'
  <2>1. PICK trigger \in Triggers : Submit(s, trigger)
    BY <1>3 DEF RefreshManually, Enable, Triggers
  <2>2. /\ Agree(queue', inFlight') /\ ToSet(queue') = ToSet(queue) \cup {s} /\ queue' # <<>>
    BY <2>1, Joining DEF Submit, Requests
  <2>3. /\ asked' = asked \cup {s} /\ enabling' \in [Sources -> 0..MaxWaiters]
        /\ \A t \in Sources : t # s => enabling'[t] = enabling[t]
    <3>1. CASE RefreshManually(s)
      BY <3>1 DEF RefreshManually, TypeOK
    <3>2. CASE Enable(s)
      <4>1. enabling[s] + 1 \in 0..MaxWaiters
        BY <3>2, RefreshAssumption DEF Enable, TypeOK
      <4> QED BY <3>2, <4>1 DEF Enable, TypeOK
    <3> QED BY <1>3, <3>1, <3>2
  <2>4. UNCHANGED <<proc, row, run, sched, faults>> /\ Act
    BY <1>3 DEF RefreshManually, Enable
  <2>5. Requests'
    BY <2>2, <2>3, <2>4 DEF Requests
  <2>6. Working'
    BY <2>2, <2>4 DEF Working
  <2> QED BY <2>4, <2>5, <2>6, Assembled DEF TypeOK
<1> QED BY <1>1, <1>2, <1>3 DEF Administrator

LEMMA CoordinatorKeeps == IInv /\ Coordinator => IInv'
<1> SUFFICES ASSUME IInv, Coordinator PROVE IInv'
  OBVIOUS
<1> USE RequestsOfInvariant, Counters DEF IInv
<1> DEFINE s == Head(queue)
           runs == [pc : {"idle", "fetch", "apply"}, failures : 0..MaxFailures, lost : BOOLEAN]
<1>1. queue # <<>> /\ s \in Sources
  <2>1. queue # <<>>
    BY DEF Coordinator, StartRun, Fetch, FinishApply, Working
  <2> QED BY <2>1, TailRest DEF Requests, Agree
<1>2. NoRun \in runs
  BY RefreshAssumption DEF NoRun
<1>3. ASSUME NEW ok, Settle(s, ok), row' \in [Sources -> Rows], UNCHANGED <<proc, edits>>,
             faults' = faults \/ Fault
      PROVE  IInv'
  <2>1. Requests' /\ run' = NoRun
    BY <1>1, <1>3, Settling
  <2>2. Working'
    BY <2>1 DEF Working, Requests, NoRun
  <2> QED BY <1>2, <1>3, <2>1, <2>2, Assembled DEF TypeOK
<1>4. Succeed(s) => row' \in [Sources -> Rows]
  <2>1. Toggled(s) \in {"new", "on", "off", "gone"}
    BY <1>1 DEF Toggled, TypeOK, Rows
  <2>2. row[s] \in Rows
    BY <1>1 DEF TypeOK
  <2>3. [row[s] EXCEPT !.due = "later", !.failures = 0, !.state = Toggled(s)] \in Rows
    BY <2>1, <2>2, RowTypes
  <2> QED BY <1>1, <2>2, <2>3, TableTypes DEF Succeed
<1>5. Fail(s) => row' \in [Sources -> Rows]
  <2>1. Backoff(run.failures) \in 0..MaxFailures
    BY BackoffType DEF TypeOK
  <2>2. row[s] \in Rows
    BY <1>1 DEF TypeOK
  <2>3. [row[s] EXCEPT !.due = "later", !.failures = Backoff(run.failures)] \in Rows
    BY <2>1, <2>2, RowTypes
  <2> QED BY <1>1, <2>2, <2>3, TableTypes DEF Fail
<1>6. CASE StartRun
  <2>1. CASE Unwanted(s)
    <3>1. Settle(s, FALSE) /\ UNCHANGED <<proc, row, edits, faults>>
      BY <1>6, <2>1 DEF StartRun
    <3> QED BY <1>3, <3>1 DEF TypeOK
  <2>2. CASE ~Unwanted(s)
    <3>1. /\ run' = [NoRun EXCEPT !.pc = "fetch", !.failures = row[s].failures]
          /\ UNCHANGED <<proc, row, inFlight, queue, asked, enabling, sched, edits, faults>>
      BY <1>6, <2>2 DEF StartRun
    <3>2. run' \in runs
      BY <1>1, <3>1 DEF TypeOK, Rows, NoRun
    <3> QED BY <1>1, <3>1, <3>2 DEF TypeOK, SingleFlight, Working
  <2> QED BY <2>1, <2>2
<1>7. CASE Fetch
  <2>1. CASE /\ row' = [row EXCEPT ![s].fresh = @ \/ Exists(s)]
             /\ run' = [run EXCEPT !.pc = "apply", !.lost = ~Exists(s)]
             /\ UNCHANGED <<inFlight, queue, asked, enabling, sched, faults>>
    <3>1. Exists(s) \in BOOLEAN
      BY DEF Exists
    <3>2. row' \in [Sources -> Rows]
      <4>1. row[s] \in Rows /\ (row[s].fresh \/ Exists(s)) \in BOOLEAN
        BY <1>1 DEF TypeOK
      <4>2. [row[s] EXCEPT !.fresh = row[s].fresh \/ Exists(s)] \in Rows
        BY <4>1, RowTypes
      <4>3. row' = [row EXCEPT ![s] = [row[s] EXCEPT !.fresh = row[s].fresh \/ Exists(s)]]
        BY <2>1
      <4> QED BY <1>1, <4>2, <4>3, TableTypes
    <3>4. run' \in runs
      BY <2>1, <3>1 DEF TypeOK
    <3>3. UNCHANGED <<proc, edits>>
      BY <1>7 DEF Fetch
    <3> QED BY <1>1, <2>1, <3>2, <3>3, <3>4 DEF TypeOK, SingleFlight, Working
  <2>2. CASE Fault /\ Fail(s)
    BY <1>3, <1>5, <1>7, <2>2 DEF Fetch, Fail
  <2> QED BY <1>7, <2>1, <2>2 DEF Fetch
<1>8. CASE FinishApply
  <2>1. CASE Succeed(s) /\ UNCHANGED faults
    BY <1>3, <1>4, <1>8, <2>1 DEF FinishApply, Succeed
  <2>2. CASE Fail(s) /\ (UNCHANGED faults \/ Fault)
    BY <1>3, <1>5, <1>8, <2>2 DEF FinishApply, Fail
  <2> QED BY <1>8, <2>1, <2>2 DEF FinishApply
<1> QED BY <1>6, <1>7, <1>8 DEF Coordinator

LEMMA SchedulerKeeps == IInv /\ Scheduler => IInv'
<1> SUFFICES ASSUME IInv, Scheduler PROVE IInv'
  OBVIOUS
<1> USE RequestsOfInvariant DEF IInv
<1>1. CASE Start
  <2>1. sched' = [pc |-> "idle", todo |-> {}, s |-> NoSource]
    BY <1>1 DEF Start, Unscheduled
  <2>2. sched' \in Waits /\ sched'.s \notin Sources
    BY <2>1, RefreshAssumption DEF Waits
  <2>3. UNCHANGED <<row, inFlight, queue, run, asked, enabling, edits, faults>> /\ proc' = "up"
    BY <1>1 DEF Start
  <2>4. Requests'
    BY <2>1, <2>2, <2>3 DEF Requests, Agree
  <2>5. Working'
    BY <2>1, <2>3 DEF Working
  <2> QED BY <2>3, <2>4, <2>5, Assembled DEF TypeOK
<1>2. CASE Pulse
  <2>1. PICK aged \in SUBSET Missing :
            LET due(s) == IF s \in aged THEN "now" ELSE IF s \in Missing THEN "later" ELSE row[s].due
            IN /\ row' = [s \in Sources |-> [row[s] EXCEPT !.due = due(s)]]
               /\ Advance({s \in Sources : row[s].state = "on" /\ due(s) = "now"}, queue, inFlight)
    BY <1>2 DEF Pulse
  <2>2. row' \in [Sources -> Rows]
    <3> DEFINE due(s) == IF s \in aged THEN "now" ELSE IF s \in Missing THEN "later" ELSE row[s].due
    <3>1. ASSUME NEW s \in Sources PROVE [row[s] EXCEPT !.due = due(s)] \in Rows
      <4>1. row[s] \in Rows /\ row[s].due \in {"never", "later", "now"}
        BY DEF TypeOK, Rows
      <4>2. due(s) \in {"never", "later", "now"}
        BY <4>1
      <4> QED BY <4>1, <4>2, RowTypes
    <3>2. row' = [s \in Sources |-> [row[s] EXCEPT !.due = due(s)]]
      BY <2>1
    <3> QED BY <3>1, <3>2
  <2>3. PICK todo \in SUBSET Sources : Advance(todo, queue, inFlight)
    BY <2>1
  <2>4. /\ Agree(queue', inFlight') /\ sched' \in Waits
        /\ ToSet(queue) \subseteq ToSet(queue')
        /\ sched'.s # NoSource => sched'.pc = "wait" /\ sched'.s \in ToSet(queue')
        /\ queue # <<>> => queue' # <<>>
    BY <2>3, Advancing DEF Requests
  <2>5. UNCHANGED <<proc, run, asked, enabling, edits, faults>>
    BY <1>2 DEF Pulse
  <2>6. Requests'
    BY <2>4, <2>5, RefreshAssumption DEF Requests
  <2>7. Working'
    BY <2>4, <2>5 DEF Working
  <2> QED BY <2>2, <2>5, <2>6, <2>7, Assembled DEF TypeOK
<1> QED BY <1>1, <1>2 DEF Scheduler

LEMMA EnvironmentKeeps == IInv /\ Environment => IInv'
<1> SUFFICES ASSUME IInv, Environment PROVE IInv'
  OBVIOUS
<1> USE Counters DEF IInv
<1>1. ASSUME Ended, UNCHANGED <<row, edits>>, faults' = faults \/ Fault PROVE IInv'
  <2>1. queue' = <<>> /\ queue' \in Seq(Sources) /\ Distinct(queue') /\ ToSet(queue') = {}
    BY <1>1 DEF Ended, Distinct, ToSet
  <2>2. Requests'
    BY <1>1, <2>1, RefreshAssumption DEF Ended, Requests, Agree, Waits, Unscheduled
  <2>3. Working' /\ run' \in [pc : {"idle", "fetch", "apply"}, failures : 0..MaxFailures, lost : BOOLEAN]
    BY <1>1, RefreshAssumption DEF Ended, Working, NoRun, Unscheduled
  <2> QED BY <1>1, <2>2, <2>3, Assembled DEF Ended, TypeOK
<1>2. CASE Crash BY <1>1, <1>2 DEF Crash
<1>3. CASE Exit BY <1>1, <1>3 DEF Exit
<1>4. CASE Boot BY <1>4 DEF Boot, TypeOK, SingleFlight, Working, volatile
<1>5. ASSUME NEW s \in Sources, Elapse(s) \/ ProviderChanges(s) PROVE IInv'
  <2>1. row' \in [Sources -> Rows]
    <3>1. row[s] \in Rows
      BY <1>5 DEF TypeOK
    <3>2. PICK r \in Rows : row' = [row EXCEPT ![s] = r]
      BY <1>5, <3>1, RowTypes DEF Elapse, ProviderChanges
    <3> QED BY <1>5, <3>2, TableTypes
  <2>2. UNCHANGED <<proc, volatile, edits>> /\ (faults' = faults \/ Fault)
    BY <1>5 DEF Elapse, ProviderChanges
  <2> QED BY <2>1, <2>2 DEF TypeOK, SingleFlight, Working, volatile
<1> QED BY <1>2, <1>3, <1>4, <1>5 DEF Environment

THEOREM Invariance == Spec => []IInv
<1>1. IInv /\ [Next]_vars => IInv'
  <2>1. IInv /\ UNCHANGED vars => IInv'
    BY DEF IInv, TypeOK, SingleFlight, Working, vars
  <2> QED BY <2>1, AdministratorKeeps, CoordinatorKeeps, SchedulerKeeps, EnvironmentKeeps DEF Next
<1> QED BY <1>1, Initially, PTL DEF Spec

\* Every variable of the coordinator and of the scheduler stays in its type.
THEOREM TypeCorrect == Spec => []TypeOK
BY Invariance, PTL DEF IInv

\* No source is ever queued twice, and nobody waits for a refresh that is not queued,
\* whatever joins, fails, is deleted, stopped or restarted.
THEOREM OneFlightPerSource == Spec => []SingleFlight
BY Invariance, PTL DEF IInv

----------------------------------------------------------------------------
(* Requests of the administrator are carried out                             *)

\* Whoever asks raises the trigger of the refresh, which nothing lowers.
Higher == {"manual", "enable"}
Raised == \A s \in asked : inFlight[s] \in Higher

\* A request that joins never lowers the trigger of the one in flight.
LEMMA Raising ==
    ASSUME NEW requests \in [Sources -> Triggers \cup {"none"}], NEW s \in Sources, NEW trigger \in Triggers
    PROVE  \A t \in Sources :
             requests[t] \in Higher \/ (t = s /\ trigger \in Higher)
               => Joined(requests, s, trigger)[t] \in Higher
BY DEF Joined, strongerRefreshTrigger, Priority, Triggers, Higher

LEMMA RaisedAdvance ==
    ASSUME NEW pending, NEW requests \in [Sources -> Triggers \cup {"none"}],
           NEW todo \in SUBSET Sources, Advance(todo, pending, requests)
    PROVE  \A t \in Sources : requests[t] \in Higher => inFlight'[t] \in Higher
<1>1. inFlight' = requests \/ \E s \in Sources : inFlight' = Joined(requests, s, "scheduled")
  BY DEF Advance
<1> QED BY <1>1, Raising DEF Triggers

\* What settles answers those who asked for that source, and no other.
LEMMA RaisedSettle ==
    ASSUME IInv, Raised, queue # <<>>, NEW ok, Settle(Head(queue), ok)
    PROVE  Raised' /\ asked' = asked \ {Head(queue)}
<1> DEFINE s == Head(queue)
           requests == [inFlight EXCEPT ![s] = "none"]
<1>1. asked' = asked \ {s} /\ asked \subseteq Sources
  BY DEF Settle, IInv, TypeOK
<1>2. requests \in [Sources -> Triggers \cup {"none"}] /\ \A t \in asked' : requests[t] \in Higher
  BY <1>1 DEF IInv, TypeOK, Raised
<1>3. CASE sched.s = s
  <2>1. Advance(sched.todo, Served(ok), requests) /\ sched.todo \in SUBSET Sources
    BY <1>3 DEF Settle, IInv, TypeOK
  <2>2. \A t \in Sources : requests[t] \in Higher => inFlight'[t] \in Higher
    BY <1>2, <2>1, RaisedAdvance
  <2> QED BY <1>1, <1>2, <2>2 DEF Raised
<1>4. CASE sched.s # s
  BY <1>1, <1>2, <1>4 DEF Settle, Raised
<1> QED BY <1>1, <1>3, <1>4

\* Only a source that is gone is refused.
Carried ==
    \A s \in asked \ asked' : proc' # "down" => (run.pc # "idle" /\ Head(queue) = s) \/ ~Exists(s)

LEMMA RaisedStep == IInv /\ Raised /\ Next => Raised' /\ Carried
<1> SUFFICES ASSUME IInv, Raised, Next PROVE Raised' /\ Carried
  OBVIOUS
<1>1. inFlight \in [Sources -> Triggers \cup {"none"}] /\ asked \subseteq Sources
  BY DEF IInv, TypeOK
<1>2. ASSUME UNCHANGED <<inFlight, asked>> PROVE Raised' /\ Carried
  BY <1>2 DEF Raised, Carried
<1>3. CASE Shutdown \/ Start \/ Boot
  BY <1>2, <1>3 DEF Shutdown, Start, Boot, volatile
<1>4. ASSUME NEW s \in Sources,
             AddSource(s) \/ RemoveSource(s) \/ Disable(s) \/ Elapse(s) \/ ProviderChanges(s)
      PROVE  Raised' /\ Carried
  BY <1>2, <1>4 DEF AddSource, RemoveSource, Disable, Elapse, ProviderChanges, volatile
<1>5. ASSUME NEW s \in Sources, RefreshManually(s) \/ Enable(s) PROVE Raised' /\ Carried
  <2>1. PICK trigger \in Higher : Submit(s, trigger)
    BY <1>5 DEF RefreshManually, Enable, Higher
  <2>2. asked' = asked \cup {s}
    BY <1>5 DEF RefreshManually, Enable
  <2>3. inFlight' = Joined(inFlight, s, trigger) /\ trigger \in Triggers
    BY <2>1 DEF Submit, Higher, Triggers
  <2> QED BY <1>1, <2>2, <2>3, Raising DEF Raised, Carried
<1>6. CASE Coordinator
  <2>1. queue # <<>>
    BY <1>6 DEF Coordinator, StartRun, Fetch, FinishApply, IInv, Working
  <2> DEFINE s == Head(queue)
  <2>2. CASE StartRun
    <3>1. CASE Unwanted(s)
      <4>1. Raised' /\ asked' = asked \ {s}
        BY <2>1, <2>2, <3>1, RaisedSettle DEF StartRun
      <4>2. s \in asked => ~Exists(s)
        BY <3>1 DEF Unwanted, Raised, Higher
      <4> QED BY <4>1, <4>2 DEF Carried
    <3>2. CASE ~Unwanted(s)
      BY <1>2, <2>2, <3>2 DEF StartRun
    <3> QED BY <3>1, <3>2
  <2>3. CASE Fetch \/ FinishApply
    <3>1. run.pc # "idle"
      BY <2>3 DEF Fetch, FinishApply
    <3>2. UNCHANGED <<inFlight, asked>> \/ \E ok \in BOOLEAN : Settle(s, ok)
      BY <2>3 DEF Fetch, FinishApply, Succeed, Fail
    <3>3. CASE \E ok \in BOOLEAN : Settle(s, ok)
      <4>1. Raised' /\ asked' = asked \ {s}
        BY <2>1, <3>3, RaisedSettle
      <4> QED BY <3>1, <4>1 DEF Carried
    <3> QED BY <1>2, <3>2, <3>3
  <2> QED BY <1>6, <2>2, <2>3 DEF Coordinator
<1>7. CASE Pulse
  <2>1. PICK todo \in SUBSET Sources : Advance(todo, queue, inFlight)
    BY <1>7 DEF Pulse
  <2>2. \A t \in Sources : inFlight[t] \in Higher => inFlight'[t] \in Higher
    BY <1>1, <2>1, RaisedAdvance
  <2>3. asked' = asked
    BY <1>7 DEF Pulse
  <2> QED BY <1>1, <2>2, <2>3 DEF Raised, Carried
<1>8. CASE Crash \/ Exit
  BY <1>8 DEF Crash, Exit, Ended, Raised, Carried
<1> QED BY <1>3, <1>4, <1>5, <1>6, <1>7, <1>8
        DEF Next, Administrator, Scheduler, Environment

\* A request of the administrator that joins a refresh of the scheduler is carried out
\* all the same: the trigger it raises keeps the refresh from being skipped because the
\* source was disabled meanwhile (refresh.ts strongerRefreshTrigger, service.ts).
THEOREM RequestsAreCarriedOut == Spec => NeverSkipped
<1>1. Init => Raised
  BY DEF Init, Raised
<1>2. IInv /\ Raised /\ [Next]_vars => Raised'
  <2>1. Raised /\ UNCHANGED vars => Raised'
    BY DEF Raised, vars
  <2> QED BY <2>1, RaisedStep
<1>3. Spec => []Raised
  BY <1>1, <1>2, Invariance, PTL DEF Spec
<1>4. IInv /\ Raised /\ [Next]_vars => [Carried]_vars
  BY RaisedStep
<1>5. Spec => [][Carried]_vars
  BY <1>3, <1>4, Invariance, PTL DEF Spec
<1> QED BY <1>5, PTL DEF NeverSkipped, Carried
============================================================================
