----------------------------- MODULE LiveFeed -----------------------------
(* The live loop between the engine and the browser: the polls of the hub   *)
(* and its health transitions (live/hub.ts), the handlers they start        *)
(* (live/singleton.ts), the subscription of a browser (live/router.ts) and  *)
(* the state the browser keeps of it (web/features/live/useLive.ts).        *)
(* What a poll fetches is a version of the engine's state: the node view,   *)
(* the totals and the latencies of one instant.                             *)
EXTENDS Integers, Sequences, SequencesExt

CONSTANTS
    Polls,      \* the poll made by start and those of the timer's chain
    Loop,       \* the chain, one of Polls
    MaxVersion, \* bound: changes of the engine's state
    MaxFaults,  \* bound: outages of the engine and lost subscriptions
    MaxChannel  \* bound: events on their way to the browser

VARIABLES
    engine,     \* whether it answers, its version, whether it has restarted
    polls,      \* each poll: idle, due, fetching (with its answer), or after
    health, everHealthy, lastView, \* the hub
    handlers,   \* lifecycle handlers started and not run
    outageSeen, \* an outage was seen and no handler has run since
    stream,     \* the subscription: none, replaying, or live
    channel,    \* events on their way to the browser
    browser,    \* what it shows
    faults

hub  == <<health, everHealthy, lastView, handlers, outageSeen>>
vars == <<engine, polls, health, everHealthy, lastView, handlers, outageSeen,
          stream, channel, browser, faults>>

Versions == 0..MaxVersion   \* 0: nothing fetched, or a failed fetch
Idle     == [phase |-> "idle", answer |-> 0]
Due      == [phase |-> "due", answer |-> 0]

Health(ok)   == [type |-> "health", value |-> IF ok THEN 1 ELSE 0]
NodeUpdate(v) == [type |-> "nodeUpdate", value |-> v]

\* Events reach a browser whose listener is registered, and no other.
Emit(events) ==
    /\ Len(channel) + Len(events) <= MaxChannel
    /\ channel' = IF stream = "live" THEN channel \o events ELSE channel

-----------------------------------------------------------------------------
(* The engine.                                                               *)

EngineChanges ==
    /\ engine.up /\ engine.version < MaxVersion
    /\ engine' = [engine EXCEPT !.version = @ + 1]
    /\ UNCHANGED <<polls, hub, stream, channel, browser, faults>>

EngineStops ==
    /\ engine.up /\ faults < MaxFaults
    /\ faults' = faults + 1
    /\ engine' = [engine EXCEPT !.up = FALSE]
    /\ UNCHANGED <<polls, hub, stream, channel, browser>>

EngineStarts ==
    /\ ~engine.up
    /\ engine' = [engine EXCEPT !.up = TRUE]
    /\ UNCHANGED <<polls, hub, stream, channel, browser, faults>>

-----------------------------------------------------------------------------
(* The hub. start makes one poll at once and arms the chain, which polls and *)
(* re-arms itself one pulse after its poll has ended. The pulse is as long   *)
(* as the engine client lets a request be (DEFAULT_POLL_INTERVAL, TIMEOUT_MS *)
(* are both five seconds), so that the fetch of start's poll has ended when  *)
(* the chain's begins; the rest of that poll may still be under way.         *)

\* Mutant: only the first connection is a lifecycle event.
StartedOnce == IF ~everHealthy THEN {"onFirstConnect"} ELSE {}

\* setHealth(TRUE): the first success and a success after a failure each start
\* their handler, which runs later.
Started == IF ~everHealthy THEN {"onFirstConnect"}
           ELSE IF ~health THEN {"onReconnect"} ELSE {}

SetHealthy ==
    /\ health' = TRUE /\ everHealthy' = TRUE
    /\ handlers' = handlers \cup Started

Fetching(p) == polls[p].phase \in {"due", "fetch"}
\* Mutant: a pulse shorter than a request.
MayBeginEarly(p) == TRUE

MayBegin(p) == p = Loop => \A q \in Polls \ {Loop} : ~Fetching(q)

Begin(p) ==
    /\ polls[p].phase = "due"
    /\ MayBegin(p)
    /\ polls' = [polls EXCEPT ![p] = [phase |-> "fetch",
                                      answer |-> IF engine.up THEN engine.version ELSE 0]]
    /\ UNCHANGED <<engine, hub, stream, channel, browser, faults>>

\* Every poll sends the health it found, changed or not.
HealthEvents(ok) == <<Health(ok)>>

\* The view arrives: it becomes the last one and is sent after the health.
Succeeds(p) ==
    /\ polls[p].phase = "fetch" /\ polls[p].answer # 0
    /\ SetHealthy
    /\ lastView' = polls[p].answer
    /\ Emit(HealthEvents(TRUE) \o <<NodeUpdate(polls[p].answer)>>)
    /\ polls' = [polls EXCEPT ![p] = [phase |-> "after", answer |-> 0]]
    /\ UNCHANGED <<engine, outageSeen, stream, browser, faults>>

Rearmed(p) == IF p = Loop THEN Due ELSE Idle

Fails(p) ==
    /\ polls[p].phase = "fetch" /\ polls[p].answer = 0
    /\ health' = FALSE
    /\ outageSeen' = (outageSeen \/ everHealthy)
    /\ Emit(HealthEvents(FALSE))
    /\ polls' = [polls EXCEPT ![p] = Rearmed(p)]
    /\ UNCHANGED <<engine, everHealthy, lastView, handlers, stream, browser, faults>>

\* The controllers, the prober and the totals: their errors are swallowed, and
\* the chain re-arms its timer whatever they did.
Afterwards(p) ==
    /\ polls[p].phase = "after"
    /\ polls' = [polls EXCEPT ![p] = Rearmed(p)]
    /\ UNCHANGED <<engine, hub, stream, channel, browser, faults>>

\* A handler reconciles the engine with the panel.
RunHandler ==
    \E h \in handlers :
        /\ handlers' = handlers \ {h}
        /\ outageSeen' = FALSE
        /\ UNCHANGED <<engine, polls, health, everHealthy, lastView, stream, channel, browser, faults>>

-----------------------------------------------------------------------------
(* The subscription: it replays the current state first and registers its    *)
(* listener when the browser asks for the next event after the replay.       *)

Replay == <<Health(health)>> \o (IF lastView = 0 THEN <<>> ELSE <<NodeUpdate(lastView)>>)

Subscribe ==
    /\ stream = "none"
    /\ stream' = "replaying"
    /\ channel' = Replay
    /\ UNCHANGED <<engine, polls, hub, browser, faults>>

\* Only once the replay is consumed is the listener there: what the hub sends
\* in between reaches nobody.
Listen ==
    /\ stream = "replaying" /\ channel = <<>>
    /\ stream' = "live"
    /\ UNCHANGED <<engine, polls, hub, channel, browser, faults>>

Lose ==
    /\ stream # "none" /\ faults < MaxFaults
    /\ faults' = faults + 1
    /\ stream' = "none" /\ channel' = <<>>
    /\ browser' = [browser EXCEPT !.mihomo = FALSE]
    /\ UNCHANGED <<engine, polls, hub>>

\* onData
Shown(event) ==
    IF event.type = "health" THEN [browser EXCEPT !.mihomo = (event.value = 1)]
    ELSE [browser EXCEPT !.view = event.value]

Deliver ==
    /\ channel # <<>>
    /\ browser' = Shown(Head(channel))
    /\ channel' = Tail(channel)
    /\ UNCHANGED <<engine, polls, hub, stream, faults>>

-----------------------------------------------------------------------------

Init ==
    /\ engine \in [up : BOOLEAN, version : {1}]
    /\ polls = [p \in Polls |-> Due]
    /\ health = FALSE /\ everHealthy = FALSE /\ lastView = 0
    /\ handlers = {} /\ outageSeen = FALSE
    /\ stream = "none" /\ channel = <<>>
    /\ browser = [mihomo |-> FALSE, view |-> 0]
    /\ faults = 0

Poll(p) == Begin(p) \/ Succeeds(p) \/ Fails(p) \/ Afterwards(p)
Stream  == Subscribe \/ Listen \/ Deliver

Next ==
    \/ EngineChanges \/ EngineStops \/ EngineStarts
    \/ \E p \in Polls : Poll(p)
    \/ RunHandler \/ Stream \/ Lose

\* The loop and the browser's client never stand still; the engine comes back.
Fairness ==
    /\ \A p \in Polls : WF_vars(Poll(p))
    /\ WF_vars(RunHandler) /\ WF_vars(Stream) /\ WF_vars(EngineStarts)

Spec     == Init /\ [][Next]_vars
LiveSpec == Spec /\ Fairness

TypeOK ==
    /\ engine \in [up : BOOLEAN, version : 1..MaxVersion]
    /\ polls \in [Polls -> [phase : {"idle", "due", "fetch", "after"}, answer : Versions]]
    /\ health \in BOOLEAN /\ everHealthy \in BOOLEAN /\ lastView \in Versions
    /\ handlers \subseteq {"onFirstConnect", "onReconnect"} /\ outageSeen \in BOOLEAN
    /\ stream \in {"none", "replaying", "live"} /\ Len(channel) <= MaxChannel
    /\ browser \in [mihomo : BOOLEAN, view : Versions]
    /\ faults \in 0..MaxFaults

\* What the browser shows converges to what the engine is, although what the hub
\* sends between a replay and its listener is lost, and the stream may be cut.
Converged ==
    /\ browser.mihomo = engine.up
    /\ browser.view = engine.version
BrowserConverges == <>[]Converged

\* Every outage that a poll saw ends in a handler that reconciles the engine.
OutageHandled == outageSeen ~> ~outageSeen

\* Two polls overlap at the start, and yet the hub never replaces a view by an
\* older one.
ViewNeverRewinds == [][lastView' >= lastView]_vars
=============================================================================
