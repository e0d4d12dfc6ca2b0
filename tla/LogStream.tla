----------------------------- MODULE LogStream -----------------------------
(* The log stream from the engine to the browser: the hub that captures the *)
(* engine's /logs (modules/logs/hub.ts), its bounded ring of events, the    *)
(* subscription of one browser (modules/logs/router.ts) and the reducer of  *)
(* the log screen (web/features/logs/store.ts).                             *)
(* An event is its id, which is the cursor of the message that carries it,  *)
(* and the line of the engine or of the server it stands for; its text, its *)
(* level and its time are left out.                                         *)
EXTENDS Integers, FiniteSets, Sequences

CONSTANTS
    Capacity,       \* LOG_CAPACITY: events the ring and the screen keep
    BackoffMax,     \* longest delay before the stream is opened again
    MaxLines,       \* bound: lines and clears of a behaviour
    MaxFaults,      \* bound: failed streams, lost connections and restarts
    MaxGenerations, \* bound: captures started
    MaxChannel      \* bound: messages on their way to the browser

VARIABLES
    ring,     \* the events the hub keeps
    sequence, \* the cursor of its last message
    upstream, \* what it says of the engine's stream
    capture,  \* the generation allowed to write, 0 when capture is stopped
    pumps,    \* the loop of each generation
    link,     \* whether the browser's subscription is open
    channel,  \* messages sent to it and not delivered
    view,     \* the state of the log screen
    lines, faults \* bounded counters

hub  == <<ring, sequence, upstream>>
vars == <<ring, sequence, upstream, capture, pumps, link, channel, view, lines, faults>>

Generations == 1..MaxGenerations
Cursors     == -1..(2 * MaxLines + 4 * MaxFaults + 4 * MaxGenerations + 4)
NoCursor    == -1   \* null: less than every cursor

Status(state, retry) == [state |-> state, retry |-> retry]
Connecting == Status("connecting", 0)
Live       == Status("live", 0)
Statuses   == [state : {"connecting", "live", "reconnecting"}, retry : 0..BackoffMax]
Events     == [id : Cursors, line : 1..MaxLines]

\* splice and slice: the Capacity newest of a set of events.
Newest(events) == {e \in events : Cardinality({f \in events : f.id > e.id}) < Capacity}

NoPump == [phase |-> "none", failures |-> 0]

InitialView ==
    [status |-> Connecting, cursor |-> NoCursor, events |-> {}, paused |-> FALSE,
     pausedEvents |-> {}, pausedCursor |-> NoCursor, unseen |-> 0]

-----------------------------------------------------------------------------
(* The hub.                                                                  *)

Message(type, cursor, status, events) ==
    [type |-> type, cursor |-> cursor, status |-> status, events |-> events]

Snapshot == Message("snapshot", sequence, upstream, ring)

\* The emitter has the browser as a listener only while its stream is open.
Emit(message) ==
    /\ Len(channel) < MaxChannel
    /\ channel' = IF link THEN Append(channel, message) ELSE channel

\* A status equal to the current one is not a message.
SetUpstream(status) ==
    /\ upstream' = status
    /\ IF status = upstream
       THEN UNCHANGED <<sequence, channel>>
       ELSE /\ sequence' = sequence + 1
            /\ Emit(Message("status", sequence + 1, status, {}))

\* The event takes the next cursor as its id, enters the ring and is sent.
PushEvent ==
    LET event == [id |-> sequence + 1, line |-> lines + 1] IN
    /\ lines < MaxLines
    /\ lines' = lines + 1
    /\ sequence' = sequence + 1
    /\ ring' = Newest(ring \cup {event})
    /\ Emit(Message("append", sequence + 1, upstream, {event}))
    /\ UNCHANGED upstream

\* A curated event of the server itself, through the sink set at boot.
Push == /\ PushEvent
        /\ UNCHANGED <<capture, pumps, link, view, faults>>

Clear ==
    /\ lines < MaxLines
    /\ lines' = lines + 1
    /\ ring' = {}
    /\ sequence' = sequence + 1
    /\ Emit(Message("clear", sequence + 1, upstream, {}))
    /\ UNCHANGED <<upstream, capture, pumps, link, view, faults>>

-----------------------------------------------------------------------------
(* The capture. start and stop fence its generations: a loop writes only as  *)
(* long as it is the current one, which it asks again after every await.     *)

Used == {g \in Generations : pumps[g] # NoPump}

Start ==
    /\ capture = 0
    /\ \E g \in Generations \ Used :
           /\ \A h \in Generations \ Used : g <= h
           /\ capture' = g
           /\ pumps' = [pumps EXCEPT ![g].phase = "open"]
    /\ SetUpstream(Connecting)
    /\ UNCHANGED <<ring, link, view, lines, faults>>

Stop ==
    /\ capture # 0
    /\ capture' = 0
    /\ SetUpstream(Connecting)
    /\ UNCHANGED <<ring, pumps, link, view, lines, faults>>

Ended(g) == pumps' = [pumps EXCEPT ![g].phase = "ended"]

\* A loop that finds itself superseded, or its signal aborted, returns.
Superseded(g) ==
    /\ pumps[g].phase \in {"open", "read", "wait"}
    /\ capture # g
    /\ Ended(g)
    /\ UNCHANGED <<hub, capture, link, channel, view, lines, faults>>

\* Mutant: any generation still running may write.
AnyRunning(g) == pumps[g].phase # "none"

Current(g) == capture = g

\* The engine accepted the request and sent its headers.
Opened(g) ==
    /\ pumps[g].phase = "open"
    /\ Current(g)
    /\ pumps' = [pumps EXCEPT ![g].phase = "read"]
    /\ SetUpstream(Live)
    /\ UNCHANGED <<ring, capture, link, view, lines, faults>>

\* A line that parses is pushed; one that does not is skipped.
Frame(g) ==
    /\ pumps[g].phase = "read"
    /\ Current(g)
    /\ PushEvent
    /\ UNCHANGED <<capture, pumps, link, view, faults>>

Backoff(failures) == IF 2 ^ (failures - 1) > BackoffMax THEN BackoffMax ELSE 2 ^ (failures - 1)

\* The request fails, or the stream ends, fails or sends lines that no longer
\* parse: the loop waits, less long when the stream had been open for a while.
StreamEnds(g) ==
    \E stable \in {FALSE, pumps[g].phase = "read"} :
        LET failures == IF stable THEN 1 ELSE pumps[g].failures + 1 IN
        /\ pumps[g].phase \in {"open", "read"}
        /\ Current(g)
        /\ faults < MaxFaults
        /\ faults' = faults + 1
        /\ pumps' = [pumps EXCEPT ![g] = [phase |-> "wait", failures |-> failures]]
        /\ SetUpstream(Status("reconnecting", Backoff(failures)))
        /\ UNCHANGED <<ring, capture, link, view, lines>>

Retry(g) ==
    /\ pumps[g].phase = "wait"
    /\ Current(g)
    /\ pumps' = [pumps EXCEPT ![g].phase = "open"]
    /\ SetUpstream(Connecting)
    /\ UNCHANGED <<ring, capture, link, view, lines, faults>>

\* The server process ends and starts again: its ring, its cursors and the
\* connection of the browser are gone.
ConnectionLost(client) ==
    [client EXCEPT !.status = IF client.cursor = NoCursor THEN Connecting
                              ELSE Status("reconnecting", 0)]

Restart ==
    /\ faults < MaxFaults
    /\ faults' = faults + 1
    /\ ring' = {} /\ sequence' = 0 /\ upstream' = Connecting
    /\ \E g \in Generations \ Used :
           /\ \A h \in Generations \ Used : g <= h
           /\ capture' = g
           /\ pumps' = [h \in Generations |-> IF h \in Used THEN [pumps[h] EXCEPT !.phase = "ended"]
                                              ELSE IF h = g THEN [NoPump EXCEPT !.phase = "open"]
                                              ELSE NoPump]
    /\ link' = FALSE /\ channel' = <<>>
    /\ view' = ConnectionLost(view)
    /\ UNCHANGED lines

-----------------------------------------------------------------------------
(* The subscription and the reducer of the screen.                           *)

\* The listener is registered before the snapshot is taken, in one step: the
\* stream starts with the snapshot and misses nothing that follows it.
Subscribe ==
    /\ ~link
    /\ link' = TRUE
    /\ channel' = <<Snapshot>>
    /\ UNCHANGED <<hub, capture, pumps, view, lines, faults>>

\* The browser loses the stream; what was on its way is lost with it.
Disconnect ==
    /\ link
    /\ faults < MaxFaults
    /\ faults' = faults + 1
    /\ link' = FALSE /\ channel' = <<>>
    /\ view' = ConnectionLost(view)
    /\ UNCHANGED <<hub, capture, pumps, lines>>

\* normalizedEvents: one event for each id, the newest Capacity of them; the
\* event of the message yields to one already there under its id.
Normalized(incoming, known) ==
    Newest(known \cup {e \in incoming : \A k \in known : k.id # e.id})

UnseenSince(events, cursor) ==
    IF cursor = NoCursor THEN 0 ELSE Cardinality({e \in events : e.id > cursor})

WithEvents(client, message, events) ==
    [client EXCEPT !.cursor = message.cursor, !.events = events,
                   !.unseen = IF client.paused THEN UnseenSince(events, client.pausedCursor) ELSE 0]

\* Mutant: a snapshot with an old cursor is stale as well.
IsStaleAlways(client, message) == message.cursor <= client.cursor

\* A message no newer than the screen is stale. A snapshot never is: it is the
\* first message of its stream, and a restarted server counts from 0 again.
IsStale(client, message) == message.type # "snapshot" /\ message.cursor <= client.cursor

Reduced(client, message) ==
    IF IsStale(client, message) THEN client
    ELSE CASE message.type = "snapshot" ->
                [WithEvents(client, message, Newest(message.events)) EXCEPT !.status = message.status]
           [] message.type = "status" ->
                [client EXCEPT !.cursor = message.cursor, !.status = message.status]
           [] message.type = "append" ->
                WithEvents(client, message, Normalized(message.events, client.events))
           [] message.type = "clear" ->
                [client EXCEPT !.cursor = message.cursor, !.events = {}, !.pausedEvents = {},
                               !.pausedCursor = IF client.paused THEN message.cursor ELSE NoCursor,
                               !.unseen = 0]

Deliver ==
    /\ channel # <<>>
    /\ view' = Reduced(view, Head(channel))
    /\ channel' = Tail(channel)
    /\ UNCHANGED <<hub, capture, pumps, link, lines, faults>>

Pause ==
    /\ ~view.paused
    /\ view' = [view EXCEPT !.paused = TRUE, !.pausedEvents = view.events,
                            !.pausedCursor = view.cursor, !.unseen = 0]
    /\ UNCHANGED <<hub, capture, pumps, link, channel, lines, faults>>

Continue ==
    /\ view.paused
    /\ view' = [view EXCEPT !.paused = FALSE, !.pausedEvents = {},
                            !.pausedCursor = NoCursor, !.unseen = 0]
    /\ UNCHANGED <<hub, capture, pumps, link, channel, lines, faults>>

\* Mutant: the screen keeps showing what arrives.
VisibleLatest == view.events

Visible == IF view.paused THEN view.pausedEvents ELSE view.events

-----------------------------------------------------------------------------

Init ==
    /\ ring = {} /\ sequence = 0 /\ upstream = Connecting
    /\ capture = 0 /\ pumps = [g \in Generations |-> NoPump]
    /\ link = FALSE /\ channel = <<>> /\ view = InitialView
    /\ lines = 0 /\ faults = 0

Next ==
    \/ Push \/ Clear \/ Start \/ Stop \/ Restart
    \/ \E g \in Generations : \/ Superseded(g) \/ Opened(g) \/ Frame(g)
                              \/ StreamEnds(g) \/ Retry(g)
    \/ Subscribe \/ Disconnect \/ Deliver \/ Pause \/ Continue

Screen   == Subscribe \/ Deliver
Pump(g)  == Opened(g) \/ Retry(g)
Fairness == WF_vars(Screen) /\ \A g \in Generations : WF_vars(Pump(g))

Spec     == Init /\ [][Next]_vars
LiveSpec == Spec /\ Fairness

TypeOK ==
    /\ ring \subseteq Events /\ Cardinality(ring) <= Capacity
    /\ sequence \in Cursors /\ upstream \in Statuses
    /\ capture \in 0..MaxGenerations
    /\ pumps \in [Generations -> [phase : {"none", "open", "read", "wait", "ended"},
                                  failures : 0..MaxFaults]]
    /\ link \in BOOLEAN /\ Len(channel) <= MaxChannel
    /\ view.cursor \in Cursors /\ view.status \in Statuses /\ view.paused \in BOOLEAN
    /\ view.events \subseteq Events /\ view.pausedEvents \subseteq Events
    /\ view.pausedCursor \in Cursors /\ view.unseen \in 0..Capacity
    /\ lines \in 0..MaxLines /\ faults \in 0..MaxFaults

\* Nothing is lost, doubled or kept too long between the ring and the screen:
\* once the messages on their way are delivered, the screen has the events of
\* the ring and the status of the hub (hub.ts messages, store.ts logsReducer).
ViewAgrees ==
    link /\ channel = <<>> =>
       view.cursor = sequence /\ view.events = ring /\ view.status = upstream

\* What the hub says of the stream is what the current generation does, with the
\* delay it waits for, and a superseded loop never says or captures anything
\* (hub.ts pump).
StatusTrue ==
    LET Says(pump) == CASE pump.phase = "open" -> upstream = Connecting
                        [] pump.phase = "read" -> upstream = Live
                        [] pump.phase = "wait" ->
                             upstream = Status("reconnecting", Backoff(pump.failures))
                        [] OTHER -> FALSE
    IN IF capture = 0 THEN upstream = Connecting ELSE Says(pumps[capture])

\* A paused screen shows what it showed when it was paused until it goes on or
\* the log is cleared, whatever is delivered, lost or replayed meanwhile.
PausedFrozen ==
    [][view.paused /\ view'.paused =>
           \/ Visible' = Visible
           \/ Visible' = {} /\ view'.unseen = 0]_vars

\* After the last fault the engine's stream is live again and the screen shows
\* the ring.
Settled ==
    /\ view.events = ring /\ view.status = upstream
    /\ capture # 0 => upstream = Live
Settles == <>[]Settled
=============================================================================
