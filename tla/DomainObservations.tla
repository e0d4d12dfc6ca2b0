------------------------- MODULE DomainObservations -------------------------
(* How a connection to a domain becomes a counted observation: the log      *)
(* frames and the snapshots of the engine's connections, the bounded queue  *)
(* of the observer (modules/domain-intelligence/instance.ts), the snapshot  *)
(* scheduler and its health (scheduler.ts), the rows and daily counts in    *)
(* the database and their retention (service.ts, production.ts).            *)
(* One domain over one transport: observations of others only share the     *)
(* capacities. The fingerprint of an observation is then the bucket of its  *)
(* time, and every row counts one connection. The engine answers a snapshot *)
(* as of the moment the answer is processed.                                *)
EXTENDS Integers, Sequences, FiniteSets, FiniteSetsExt, SequencesExt

CONSTANTS
    Conns,
    Window,           \* the reconciliation window, and the size of a bucket
    Delay,            \* how late the log line of a connection may be
    Day, Retention,
    Recent, Minimum,  \* the validation window and minimumConnectionCount
    QueueCapacity, RecentCapacity, WaitingCapacity,
    MaxTime,          \* bound on the clock
    MaxFaults         \* bound: starts, lost frames, failed requests and writes

VARIABLES
    now,
    conns,      \* when each connection started and what became of its log line
    running,    \* whether the observer and the scheduler are started
    pending,    \* the observations the observer has not stored yet
    recent,     \* recentLogObservationsByFingerprint
    pulse,      \* what the scheduler remembers of its pulses
    fetch,      \* the request in flight
    health,
    rows,       \* domain_observations
    daily,      \* domain_daily_stats
    candidate,  \* whether the domain was queued for validation
    pruned,     \* the cut-off of the last retention pass
    faults

collector == <<running, pending, recent, pulse, fetch, health>>
database  == <<rows, daily, candidate>>
vars      == <<now, conns, collector, database, pruned, faults>>

NotYet    == -1
Opened    == {c \in Conns : conns[c].at # NotYet}
Bucket(t) == t \div Window
DayOf(t)  == t \div Day
Distance(s, t) == IF s < t THEN t - s ELSE s - t
Fault     == faults < MaxFaults /\ faults' = faults + 1

-----------------------------------------------------------------------------
(* recordObservation and the daily counts.                                   *)

Near(o, r) == o.source # r.source /\ Distance(o.at, r.at) <= Window

\* The row an observation belongs to: the one of its bucket, or else one of the
\* nearest from the other source.
Targets(o) ==
    LET exact == {r \in rows : Bucket(r.at) = Bucket(o.at)}
        near  == {r \in rows : Near(o, r)}
    IN  IF exact # {} THEN exact
        ELSE {r \in near : \A s \in near : Distance(r.at, o.at) <= Distance(s.at, o.at)}

IsCanonical(o, r) ==
    \/ o.at < r.at
    \/ o.at = r.at /\ o.source = "snapshot" /\ r.source # "snapshot"

Merged(r, o) ==
    [at     |-> IF IsCanonical(o, r) THEN o.at ELSE r.at,
     source |-> IF IsCanonical(o, r) THEN o.source ELSE r.source,
     last   |-> Max({r.last, o.at})]

Aggregate(rs, d) ==
    LET own == {r \in rs : DayOf(r.at) = d}
    IN  {[day |-> d, count |-> Cardinality(own), first |-> Min({r.at : r \in own}),
          last |-> Max({r.last : r \in own})] : x \in {1 : r \in own}}

Rebuilt(stats, rs, d) == {s \in stats : s.day # d} \cup Aggregate(rs, d)

Touched(stats, d, t, n) ==
    {IF s.day = d
     THEN [s EXCEPT !.count = @ + n, !.first = Min({@, t}), !.last = Max({@, t})]
     ELSE s : s \in stats}

ReconciledInPlace(stats, rs, r, m, o) ==        \* mutant: the day is not looked at
    Touched(stats, DayOf(m.at), o.at, 0)

Reconciled(stats, rs, r, m, o) ==
    IF DayOf(r.at) = DayOf(m.at)
    THEN Touched(stats, DayOf(m.at), o.at, 0)
    ELSE Rebuilt(Rebuilt(stats, rs, DayOf(r.at)), rs, DayOf(m.at))

Inserted(stats, o) ==
    IF \E s \in stats : s.day = DayOf(o.at)
    THEN Touched(stats, DayOf(o.at), o.at, 1)
    ELSE stats \cup {[day |-> DayOf(o.at), count |-> 1, first |-> o.at, last |-> o.at]}

Record(o) ==
    \/ \E r \in Targets(o) :
         LET m == Merged(r, o)
         IN  /\ rows'  = (rows \ {r}) \cup {m}
             /\ daily' = Reconciled(daily, rows', r, m, o)
    \/ /\ Targets(o) = {}
       /\ rows'  = rows \cup {[at |-> o.at, source |-> o.source, last |-> o.at]}
       /\ daily' = Inserted(daily, o)

\* countDomainObservationsInWindow over what was just stored.
Enough(rs) == Cardinality({r \in rs : r.at >= now - Recent /\ r.at <= now}) >= Minimum

-----------------------------------------------------------------------------
(* The observer.                                                             *)

Enqueued(q, o) ==
    IF (\E i \in DOMAIN q : Bucket(q[i].at) = Bucket(o.at)) \/ Len(q) >= QueueCapacity
    THEN q
    ELSE Append(q, o)

Remembered(log) ==
    IF \E i \in DOMAIN recent : Bucket(recent[i].at) = Bucket(log.at) THEN recent
    ELSE LET all == Append(recent, log)
         IN  IF Len(all) > RecentCapacity THEN Tail(all) ELSE all

Open(c) ==
    /\ conns[c].at = NotYet
    /\ conns' = [conns EXCEPT ![c] = [at |-> now, open |-> TRUE, log |-> "due"]]
    /\ UNCHANGED <<now, collector, database, pruned, faults>>

Close(c) ==
    /\ conns[c].open
    /\ conns' = [conns EXCEPT ![c].open = FALSE]
    /\ UNCHANGED <<now, collector, database, pruned, faults>>

\* observeLogFrame: what arrives while collection is off is ignored.
LogArrives(c) ==
    LET log == [at |-> now, source |-> "log"]
    IN  /\ conns[c].log = "due"
        /\ conns'   = [conns EXCEPT ![c].log = "seen"]
        /\ recent'  = IF running THEN Remembered(log) ELSE recent
        /\ pending' = IF running THEN Enqueued(pending, log) ELSE pending
        /\ UNCHANGED <<now, running, pulse, fetch, health, database, pruned, faults>>

\* The stream is down, or the line is not one the parser knows.
LogLost(c) ==
    /\ conns[c].log = "due"
    /\ Fault
    /\ conns' = [conns EXCEPT ![c].log = "lost"]
    /\ UNCHANGED <<now, collector, database, pruned>>

\* drainOne: one observation a turn; a write that fails loses it.
Drain ==
    /\ pending # <<>>
    /\ pending' = Tail(pending)
    /\ \/ /\ Record(Head(pending))
          /\ candidate' = (candidate \/ Enough(rows'))
          /\ UNCHANGED faults
       \/ Fault /\ UNCHANGED database
    /\ UNCHANGED <<now, conns, running, recent, pulse, fetch, health, pruned>>

-----------------------------------------------------------------------------
(* The snapshot scheduler.                                                   *)

FirstPulse ==
    [known |-> {}, succeeded |-> FALSE, waiting |-> <<>>, evidence |-> FALSE, drift |-> FALSE]

Start ==
    /\ ~running
    /\ Fault
    /\ running' = TRUE
    /\ pulse'   = FirstPulse
    /\ fetch'   = IF fetch = "none" THEN "current" ELSE fetch
    /\ health'  = "accumulating"
    /\ UNCHANGED <<now, conns, pending, recent, database, pruned>>

Stop ==
    /\ running
    /\ running' = FALSE
    /\ pending' = <<>>
    /\ recent'  = <<>>
    /\ pulse'   = FirstPulse
    /\ fetch'   = IF fetch = "current" THEN "stale" ELSE fetch
    /\ health'  = "inactive"
    /\ UNCHANGED <<now, conns, database, pruned, faults>>

BeginPulse ==
    /\ running /\ fetch = "none"
    /\ fetch' = "current"
    /\ UNCHANGED <<now, conns, running, pending, recent, pulse, health, database, pruned, faults>>

\* The first unmatched log of the bucket's neighbourhood pays for a connection:
\* the result is the connections still waiting and the logs left.
Match(acc, w) ==
    LET found == {i \in DOMAIN acc.logs : Distance(acc.logs[i].at, w.at) <= Window}
    IN  IF found = {} THEN [acc EXCEPT !.left = Append(@, w)]
        ELSE [acc EXCEPT !.logs = RemoveAt(@, Min(found)), !.matched = TRUE]

SinceStart(waiting) == Min({w.at : w \in Range(waiting)} \cup {now})  \* mutant: no window
Since(waiting) == Min({w.at : w \in Range(waiting)} \cup {now}) - Window

Waiting(acc, c) ==
    IF \E i \in DOMAIN acc.list : Bucket(acc.list[i].at) = Bucket(conns[c].at) THEN acc
    ELSE IF acc.full \/ Len(acc.list) >= WaitingCapacity THEN [acc EXCEPT !.full = TRUE]
    ELSE [acc EXCEPT !.list = Append(@, [at |-> conns[c].at, since |-> now])]

\* The pulse after the new connections were given to the observer.
Correlated(new) ==
    LET queue  == FoldLeft(Waiting, [list |-> pulse.waiting, full |-> FALSE], new)
        logs   == SelectSeq(recent, LAMBDA l : l.at >= Since(queue.list))
        result == FoldLeft(Match, [logs |-> logs, left |-> <<>>, matched |-> FALSE], queue.list)
        Live(w) == now - w.since < Window
        late   == \E w \in Range(result.left) : ~Live(w)
    IN  [pulse EXCEPT !.waiting  = SelectSeq(result.left, Live),
                      !.evidence = @ \/ result.matched,
                      !.drift    = (@ \/ queue.full \/ late) /\ ~result.matched]

Status(p) ==
    IF p.drift THEN "degraded" ELSE IF p.evidence THEN "healthy" ELSE "accumulating"

PulseSucceeds ==
    LET open == {c \in Conns : conns[c].open}
    IN  /\ fetch = "current"
        /\ \E new \in SetToSeqs(open \ pulse.known) :
             LET next  == IF pulse.succeeded THEN Correlated(new) ELSE pulse
                 Offer(q, c) == Enqueued(q, [at |-> conns[c].at, source |-> "snapshot"])
             IN  /\ pending' = FoldLeft(Offer, pending, new)
                 /\ pulse'   = [next EXCEPT !.known = open, !.succeeded = TRUE]
                 /\ health'  = IF pulse.succeeded THEN Status(next) ELSE "accumulating"
        /\ fetch' = "none"
        /\ UNCHANGED <<now, conns, running, recent, database, pruned, faults>>

PulseFails ==
    /\ fetch = "current"
    /\ Fault
    /\ fetch'  = "none"
    /\ health' = "degraded"
    /\ UNCHANGED <<now, conns, running, pending, recent, pulse, database, pruned>>

\* The answer for a generation that was stopped changes nothing; a later
\* generation has waited for it.
PulseIsStale ==
    /\ fetch = "stale"
    /\ fetch' = IF running THEN "current" ELSE "none"
    /\ UNCHANGED <<now, conns, running, pending, recent, pulse, health, database, pruned, faults>>

-----------------------------------------------------------------------------
\* pruneDomainIntelligence, as far as observations are concerned.
Prune ==
    LET cutoff == now - Retention
    IN  /\ cutoff > pruned
        /\ rows'   = {r \in rows : r.last >= cutoff}
        /\ daily'  = {s \in daily : s.last >= cutoff}
        /\ pruned' = cutoff
        /\ UNCHANGED <<now, conns, collector, candidate, faults>>

Tick ==
    /\ now < MaxTime
    /\ \A c \in Opened : conns[c].log = "due" => now < conns[c].at + Delay
    /\ now' = now + 1
    /\ UNCHANGED <<conns, collector, database, pruned, faults>>

Init ==
    /\ now = 0
    /\ conns = [c \in Conns |-> [at |-> NotYet, open |-> FALSE, log |-> "none"]]
    /\ pending = <<>> /\ recent = <<>> /\ pulse = FirstPulse
    /\ \/ running = TRUE /\ fetch = "current" /\ health = "accumulating"
       \/ running = FALSE /\ fetch = "none" /\ health = "inactive"
    /\ rows = {} /\ daily = {} /\ candidate = FALSE
    /\ pruned = 0 /\ faults = 0

Next ==
    \/ \E c \in Conns : Open(c) \/ Close(c) \/ LogArrives(c) \/ LogLost(c)
    \/ Drain \/ Start \/ Stop
    \/ BeginPulse \/ PulseSucceeds \/ PulseFails \/ PulseIsStale
    \/ Prune \/ Tick

Spec == Init /\ [][Next]_vars

-----------------------------------------------------------------------------
TypeOK ==
    /\ now \in 0..MaxTime /\ faults \in 0..MaxFaults /\ pruned \in 0..MaxTime
    /\ running \in BOOLEAN /\ candidate \in BOOLEAN
    /\ fetch \in {"none", "current", "stale"}
    /\ health \in {"inactive", "accumulating", "healthy", "degraded"}
    /\ Len(pending) <= QueueCapacity /\ Len(recent) <= RecentCapacity
    /\ Len(pulse.waiting) <= WaitingCapacity
    /\ \A r, s \in rows : Bucket(r.at) = Bucket(s.at) => r = s

(* Beyond the days retention has begun to cut, the count, first and last     *)
(* time of a day are exactly those of its rows, although a row may move to   *)
(* the day before when an earlier sign of its connection arrives.            *)
DailyAgrees ==
    \A d \in 0..DayOf(MaxTime) :
       IF d * Day >= pruned THEN {s \in daily : s.day = d} = Aggregate(rows, d)
       ELSE \A s \in daily : s.day = d =>
              s.count >= Cardinality({r \in rows : DayOf(r.at) = d})

(* A connection seen in the log and in the snapshots, before and after       *)
(* restarts of the collection, is never counted twice: no more rows than     *)
(* connections, and no candidate before the minimum of them.                 *)
NeverOvercounted ==
    /\ Cardinality(rows) <= Cardinality(Opened)
    /\ candidate => Cardinality(Opened) >= Minimum

(* Parser drift is only reported when a log line was lost or a capacity was  *)
(* reached: a line that arrives in time is always found, whichever bucket    *)
(* its connection fell in and however pulses fail or collection restarts.    *)
DriftEarned ==
    pulse.drift =>
       \/ \E c \in Conns : conns[c].log = "lost"
       \/ Len(pulse.waiting) = WaitingCapacity \/ Len(recent) = RecentCapacity

CountsHonest == DailyAgrees /\ NeverOvercounted
=============================================================================
