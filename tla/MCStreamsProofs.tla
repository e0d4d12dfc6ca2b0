--------------------------- MODULE MCStreamsProofs ---------------------------
(***************************************************************************)
(* What is proved of the parts of MCStreams, in the composition the model  *)
(* checker runs: what was proved of the deployment of the managed rules    *)
(* holds there; nothing shown goes back; the log screen agrees with its    *)
(* hub; and the rotation of the prober comes to every node.                *)
(***************************************************************************)
EXTENDS MCStreams, FiniteSetTheorems, WellFoundedInduction, TLAPS

Proofs == INSTANCE DomainDeploymentProofs WITH MaxChanges <- DeploymentChanges

\* The component is instantiated twice, here and in MCStreams: its initial states,
\* its steps and its properties are the same.
LEMMA SameInit == Deployment!Init => Proofs!Init
BY DEF Deployment!Init, Proofs!Init

LEMMA SameNext == Deployment!Next => Proofs!Next
BY Zenon DEF
   Deployment!controller, Deployment!world, Deployment!vars, Deployment!Change,
   Deployment!Steady, Deployment!Fault, Deployment!op, Deployment!Wants,
   Deployment!StaleGen, Deployment!StaleAct, Deployment!StaleCap, Deployment!StaleBoth,
   Deployment!KeepHead, Deployment!NewOp, Deployment!Enter, Deployment!WorkerFree,
   Deployment!CallReconcile, Deployment!CallApply, Deployment!CallSettings,
   Deployment!Invalidated, Deployment!WriteRule, Deployment!CallActivate,
   Deployment!Reconnect, Deployment!FirstConnect, Deployment!FirstRuntime,
   Deployment!AfterReconcile, Deployment!SuspensionEnds, Deployment!Shutdown,
   Deployment!Requires, Deployment!Retried, Deployment!Throws, Deployment!Finishes,
   Deployment!Settled, Deployment!Again, Deployment!Target, Deployment!Applying,
   Deployment!StartOrThrow, Deployment!Turn, Deployment!Refused, Deployment!Ready,
   Deployment!BeginApply, Deployment!BeginSettings, Deployment!BeginReconcile,
   Deployment!Provision, Deployment!Conclude, Deployment!Publishes, Deployment!Revokes,
   Deployment!Unproved, Deployment!Loads, Deployment!ApplyEnds, Deployment!ApplyFails,
   Deployment!Proved, Deployment!Prove, Deployment!ProofFails, Deployment!Steps,
   Deployment!Next,
   Proofs!controller, Proofs!world, Proofs!vars, Proofs!Change, Proofs!Steady,
   Proofs!Fault, Proofs!op, Proofs!Wants, Proofs!StaleGen, Proofs!StaleAct,
   Proofs!StaleCap, Proofs!StaleBoth, Proofs!KeepHead, Proofs!NewOp, Proofs!Enter,
   Proofs!WorkerFree, Proofs!CallReconcile, Proofs!CallApply, Proofs!CallSettings,
   Proofs!Invalidated, Proofs!WriteRule, Proofs!CallActivate, Proofs!Reconnect,
   Proofs!FirstConnect, Proofs!FirstRuntime, Proofs!AfterReconcile,
   Proofs!SuspensionEnds, Proofs!Shutdown, Proofs!Requires, Proofs!Retried,
   Proofs!Throws, Proofs!Finishes, Proofs!Settled, Proofs!Again, Proofs!Target,
   Proofs!Applying, Proofs!StartOrThrow, Proofs!Turn, Proofs!Refused, Proofs!Ready,
   Proofs!BeginApply, Proofs!BeginSettings, Proofs!BeginReconcile, Proofs!Provision,
   Proofs!Conclude, Proofs!Publishes, Proofs!Revokes, Proofs!Unproved, Proofs!Loads,
   Proofs!ApplyEnds, Proofs!ApplyFails, Proofs!Proved, Proofs!Prove, Proofs!ProofFails,
   Proofs!Steps, Proofs!Next

LEMMA SameProperties ==
    Proofs!ActiveIsLive /\ Proofs!CapabilityProved /\ Proofs!RunsOnlyVerified =>
    Deployment!ActiveIsLive /\ Deployment!CapabilityProved /\ Deployment!RunsOnlyVerified
BY Zenon DEF Deployment!ActiveIsLive, Deployment!CapabilityProved, Deployment!RunsOnlyVerified,
   Proofs!ActiveIsLive, Proofs!CapabilityProved, Proofs!RunsOnlyVerified

Counted == part = "deployment" => Proofs!IInv

\* The invariant of the deployment while it is the part.
LEMMA DeploymentInvariance == LiveSpec => []Counted
<1>1. Proofs!CountsKnown
  BY UnknownAssumption DEF Proofs!CountsKnown
<1>2. Init => Counted
  <2> SUFFICES ASSUME Init, part = "deployment" PROVE Proofs!IInv
    BY DEF Counted
  <2>1. Deployment!Init
    BY DEF Init
  <2> QED BY <1>1, <2>1, SameInit, Proofs!Initially
<1>3. Counted /\ [Next]_vars => Counted'
  <2> SUFFICES ASSUME Counted, [Next]_vars, part' = "deployment" PROVE Proofs!IInv'
    BY DEF Counted
  <2>1. part = "deployment" /\ Proofs!IInv
    BY DEF Counted, Next, vars
  <2>2. CASE Next
    <3>1. Deployment!Next
      BY <2>1, <2>2 DEF Next
    <3>2. [Proofs!Next]_(Proofs!vars)
      BY <3>1, SameNext
    <3> QED BY <1>1, <2>1, <3>2, Proofs!Inductive
  <2>3. CASE UNCHANGED vars
    <3>1. UNCHANGED Proofs!vars
      BY <2>3 DEF vars, deployVars, Proofs!vars
    <3> QED BY <1>1, <2>1, <3>1, Proofs!Inductive
  <2> QED BY <2>2, <2>3
<1> QED BY <1>2, <1>3, PTL DEF LiveSpec

\* The provider is called active, the capability offered and collection run only
\* over what the engine was proved to have loaded (deployment-controller.ts and
\* runtime.ts): what Streams.cfg checks on an instance.
THEOREM DeploymentIsProved == LiveSpec => []DeploymentProved
<1>1. Counted => DeploymentProved
  BY Proofs!Consequences, SameProperties DEF Counted, DeploymentProved
<1> QED BY <1>1, DeploymentInvariance, PTL
----------------------------------------------------------------------------
(* What is shown or remembered never goes back (NothingRewinds).             *)

\* Whatever a message carries, it is of a type the screen knows.
Messages(carried) == \A m \in carried : m.type \in {"snapshot", "status", "append", "clear"}
InOrder == \E carried : channel \in Seq(carried) /\ Messages(carried)

\* The state of the log screen has its fields.
Screen(status, cursr, events, paused, kept, from, unseen) ==
    [status |-> status, cursor |-> cursr, events |-> events, paused |-> paused,
     pausedEvents |-> kept, pausedCursor |-> from, unseen |-> unseen]
Shaped ==
    \E status, cursr, events, kept, from, unseen : \E paused \in BOOLEAN :
        view = Screen(status, cursr, events, paused, kept, from, unseen)

Logged == part = "logs" => InOrder /\ Shaped

\* A paused screen stays, or it is empty and nothing is unseen.
Stays ==
    view.paused /\ view'.paused =>
       Logs!Visible' = Logs!Visible \/ (Logs!Visible' = {} /\ view'.unseen = 0)

\* A message more on its way.
LEMMA OneMore ==
    ASSUME InOrder, NEW m, m.type \in {"snapshot", "status", "append", "clear"}
    PROVE  \E carried : Append(channel, m) \in Seq(carried) /\ Messages(carried)
<1>1. PICK carried : channel \in Seq(carried) /\ Messages(carried)
  BY DEF InOrder
<1>2. channel \in Seq(carried \cup {m})
  BY <1>1
<1>3. Append(channel, m) \in Seq(carried \cup {m})
  BY <1>2
<1>4. Messages(carried \cup {m})
  BY <1>1 DEF Messages
<1> QED BY <1>3, <1>4

\* What the hub sends reaches the channel, or nobody.
LEMMA Emits ==
    ASSUME InOrder, NEW m, m.type \in {"snapshot", "status", "append", "clear"}, Logs!Emit(m)
    PROVE  InOrder'
<1>1. channel' = Append(channel, m) \/ channel' = channel
  BY DEF Logs!Emit
<1> QED BY <1>1, OneMore DEF InOrder

LEMMA SendsStatus ==
    ASSUME InOrder, NEW status, Logs!SetUpstream(status)
    PROVE  InOrder'
<1>1. CASE UNCHANGED channel
  BY <1>1 DEF InOrder
<1>2. CASE Logs!Emit(Logs!Message("status", sequence + 1, status, {}))
  BY <1>2, Emits DEF Logs!Message
<1> QED BY <1>1, <1>2 DEF Logs!SetUpstream

LEMMA SendsEvent ==
    ASSUME InOrder, Logs!PushEvent
    PROVE  InOrder'
<1>1. PICK event : Logs!Emit(Logs!Message("append", sequence + 1, upstream, {event}))
  BY DEF Logs!PushEvent
<1> QED BY <1>1, Emits DEF Logs!Message
LEMMA LogsInOrder ==
    ASSUME InOrder, Logs!Next
    PROVE  InOrder'
<1>1. CASE Logs!Push
  BY <1>1, SendsEvent DEF Logs!Push
<1>2. CASE Logs!Clear
  <2>1. Logs!Emit(Logs!Message("clear", sequence + 1, upstream, {}))
    BY <1>2 DEF Logs!Clear
  <2> QED BY <2>1, Emits DEF Logs!Message
<1>3. CASE Logs!Start
  BY <1>3, SendsStatus DEF Logs!Start
<1>4. CASE Logs!Stop
  BY <1>4, SendsStatus DEF Logs!Stop
<1>5. CASE Logs!Restart \/ Logs!Disconnect
  <2>1. channel' = <<>>
    BY <1>5 DEF Logs!Restart, Logs!Disconnect
  <2>2. <<>> \in Seq({}) /\ Messages({})
    BY DEF Messages
  <2> QED BY <2>1, <2>2 DEF InOrder
<1>6. ASSUME NEW g \in Logs!Generations, Logs!Superseded(g) PROVE InOrder'
  BY <1>6 DEF Logs!Superseded, InOrder
<1>7. ASSUME NEW g \in Logs!Generations, Logs!Opened(g) PROVE InOrder'
  BY <1>7, SendsStatus DEF Logs!Opened
<1>8. ASSUME NEW g \in Logs!Generations, Logs!Frame(g) PROVE InOrder'
  BY <1>8, SendsEvent DEF Logs!Frame
<1>9. ASSUME NEW g \in Logs!Generations, Logs!StreamEnds(g) PROVE InOrder'
  <2>1. PICK status : Logs!SetUpstream(status)
    BY <1>9 DEF Logs!StreamEnds
  <2> QED BY <2>1, SendsStatus
<1>10. ASSUME NEW g \in Logs!Generations, Logs!Retry(g) PROVE InOrder'
  BY <1>10, SendsStatus DEF Logs!Retry
<1>11. CASE Logs!Subscribe
  <2>1. channel' = <<Logs!Snapshot>> /\ Logs!Snapshot.type = "snapshot"
    BY <1>11 DEF Logs!Subscribe, Logs!Snapshot, Logs!Message
  <2>2. <<Logs!Snapshot>> \in Seq({Logs!Snapshot}) /\ Messages({Logs!Snapshot})
    BY <2>1 DEF Messages
  <2> QED BY <2>1, <2>2 DEF InOrder
<1>12. CASE Logs!Deliver
  <2>1. PICK carried : channel \in Seq(carried) /\ Messages(carried)
    BY DEF InOrder
  <2>2. Tail(channel) \in Seq(carried)
    BY <1>12, <2>1 DEF Logs!Deliver
  <2> QED BY <1>12, <2>1, <2>2 DEF Logs!Deliver, InOrder
<1>13. CASE Logs!Pause \/ Logs!Continue
  BY <1>13 DEF Logs!Pause, Logs!Continue, InOrder
<1> QED BY <1>1, <1>2, <1>3, <1>4, <1>5, <1>6, <1>7, <1>8, <1>9, <1>10, <1>11, <1>12, <1>13
        DEF Logs!Next, Logs!Screen

\* Only what is delivered, a lost connection and the reader change the screen.
LEMMA SameView ==
    ASSUME Logs!Next
    PROVE  \/ Logs!Deliver \/ Logs!Pause \/ Logs!Continue
           \/ view' \in {view, Logs!ConnectionLost(view)}
BY DEF Logs!Next, Logs!Screen, Logs!Push, Logs!Clear, Logs!Start, Logs!Stop, Logs!Restart,
       Logs!Superseded, Logs!Opened, Logs!Frame, Logs!StreamEnds, Logs!Retry,
       Logs!Subscribe, Logs!Disconnect

LEMMA LogsScreen ==
    ASSUME InOrder, Shaped, Logs!Next
    PROVE  Shaped' /\ Stays
<1>1. PICK status, cursr, events, kept, from, unseen :
        \E paused \in BOOLEAN : view = Screen(status, cursr, events, paused, kept, from, unseen)
  BY DEF Shaped
<1>2. PICK paused \in BOOLEAN : view = Screen(status, cursr, events, paused, kept, from, unseen)
  BY <1>1
<1> DEFINE Ok(v) ==
      /\ \E st, c, e, k, f, u : \E p \in BOOLEAN : v = Screen(st, c, e, p, k, f, u)
      /\ view.paused /\ v.paused =>
           \/ (IF v.paused THEN v.pausedEvents ELSE v.events)
                = IF view.paused THEN view.pausedEvents ELSE view.events
           \/ (IF v.paused THEN v.pausedEvents ELSE v.events) = {} /\ v.unseen = 0
<1> SUFFICES Ok(view')
  BY DEF Shaped, Stays, Logs!Visible
<1>3. ASSUME NEW st, NEW c, NEW e, NEW u PROVE Ok(Screen(st, c, e, paused, kept, from, u))
  BY <1>2, <1>3 DEF Screen
<1>4. ASSUME NEW c, NEW f PROVE Ok(Screen(status, c, {}, paused, {}, f, 0))
  BY <1>2, <1>4 DEF Screen
<1>5. CASE view' \in {view, Logs!ConnectionLost(view)}
  <2>1. view' = view \/ \E st : view' = Screen(st, cursr, events, paused, kept, from, unseen)
    BY <1>5, <1>2 DEF Logs!ConnectionLost, Screen
  <2> QED BY <2>1, <1>2, <1>3
<1>6. CASE Logs!Pause \/ Logs!Continue
  <2>1. \/ view' = Screen(status, cursr, events, TRUE, events, cursr, 0) /\ ~view.paused
        \/ view' = Screen(status, cursr, events, FALSE, {}, Logs!NoCursor, 0)
    BY <1>6, <1>2 DEF Logs!Pause, Logs!Continue, Screen
  <2>2. \E st, c, e, k, f, u : \E p \in BOOLEAN : view' = Screen(st, c, e, p, k, f, u)
    BY <2>1
  <2>3. ~(view.paused /\ view'.paused)
    BY <2>1 DEF Screen
  <2> QED BY <2>2, <2>3
<1> HIDE DEF Ok
<1>7. CASE Logs!Deliver
  <2> DEFINE m == Head(channel)
  <2>1. PICK carried : channel \in Seq(carried) /\ Messages(carried)
    BY DEF InOrder
  <2>2. m.type \in {"snapshot", "status", "append", "clear"}
    BY <1>7, <2>1 DEF Logs!Deliver, Messages
  <2>3. view' = Logs!Reduced(view, m)
    BY <1>7 DEF Logs!Deliver
  <2> HIDE DEF m
  <2> DEFINE since(ev) == IF paused THEN Logs!UnseenSince(ev, from) ELSE 0
  <2>4. ASSUME NEW ev
        PROVE  Logs!WithEvents(view, m, ev) = Screen(status, m.cursor, ev, paused, kept, from, since(ev))
    <3>1. view.paused = paused /\ view.pausedCursor = from
      BY <1>2 DEF Screen
    <3>2. Logs!WithEvents(view, m, ev) = [view EXCEPT !.cursor = m.cursor, !.events = ev, !.unseen = since(ev)]
      BY <3>1 DEF Logs!WithEvents
    <3> HIDE DEF since
    <3> QED BY <1>2, <3>2 DEF Screen
  <2>5. CASE m.type = "snapshot"
    <3>1. view' = [Logs!WithEvents(view, m, Logs!Newest(m.events)) EXCEPT !.status = m.status]
      BY <2>3, <2>5 DEF Logs!Reduced, Logs!IsStale
    <3>2. view' = Screen(m.status, m.cursor, Logs!Newest(m.events), paused, kept, from,
                         since(Logs!Newest(m.events)))
      BY <3>1, <2>4 DEF Screen
    <3> QED BY <3>2, <1>3
  <2>6. CASE Logs!IsStale(view, m)
    <3>1. view' = view
      BY <2>3, <2>6 DEF Logs!Reduced
    <3> QED BY <3>1, <1>2, <1>3
  <2>7. CASE ~Logs!IsStale(view, m) /\ m.type = "status"
    <3>1. view' = [view EXCEPT !.cursor = m.cursor, !.status = m.status]
      BY <2>3, <2>7 DEF Logs!Reduced
    <3>2. view' = Screen(m.status, m.cursor, events, paused, kept, from, unseen)
      BY <3>1, <1>2 DEF Screen
    <3> QED BY <3>2, <1>3
  <2>8. CASE ~Logs!IsStale(view, m) /\ m.type = "append"
    <3>1. view' = Logs!WithEvents(view, m, Logs!Normalized(m.events, view.events))
      BY <2>3, <2>8 DEF Logs!Reduced
    <3> QED BY <3>1, <2>4, <1>3
  <2>9. CASE ~Logs!IsStale(view, m) /\ m.type = "clear"
    <3> DEFINE f == IF view.paused THEN m.cursor ELSE Logs!NoCursor
    <3>1. view' = [view EXCEPT !.cursor = m.cursor, !.events = {}, !.pausedEvents = {},
                               !.pausedCursor = f, !.unseen = 0]
      BY <2>3, <2>9 DEF Logs!Reduced
    <3>2. view' = Screen(status, m.cursor, {}, paused, {}, f, 0)
      BY <3>1, <1>2 DEF Screen
    <3> QED BY <3>2, <1>4
  <2> QED BY <2>2, <2>5, <2>6, <2>7, <2>8, <2>9
<1> QED BY <1>5, <1>6, <1>7, SameView
\* The two polls of the hub: the loop fetches alone, and no answer on its way is
\* older than the view the hub has, or newer than the engine.
FeedTypes ==
    /\ engine \in [up : BOOLEAN, version : Nat] /\ lastView \in Nat
    /\ polls \in [{"first", "loop"} -> [phase : {"idle", "due", "fetch", "after"}, answer : Nat]]
Ahead ==
    /\ lastView <= engine.version
    /\ polls["loop"].phase = "fetch" => ~Feed!Fetching("first")
    /\ \A p \in {"first", "loop"} :
         polls[p].phase = "fetch" /\ polls[p].answer # 0 =>
            lastView <= polls[p].answer /\ polls[p].answer <= engine.version

Fed == part = "feed" => FeedTypes /\ Ahead

LEMMA FeedInit == Feed!Init => FeedTypes /\ Ahead
BY DEF Feed!Init, Feed!Due, FeedTypes, Ahead

\* Neither the subscription nor the browser changes a poll.
LEMMA FeedQuiet ==
    ASSUME FeedTypes, Ahead,
           Feed!EngineStops \/ Feed!EngineStarts \/ Feed!EngineChanges \/ Feed!RunHandler
             \/ Feed!Stream \/ Feed!Lose
    PROVE  FeedTypes' /\ Ahead' /\ lastView' = lastView
<1>1. UNCHANGED <<polls, lastView>>
  BY DEF Feed!EngineStops, Feed!EngineStarts, Feed!EngineChanges, Feed!RunHandler,
         Feed!Stream, Feed!Subscribe, Feed!Listen, Feed!Deliver, Feed!Lose, Feed!hub
<1>2. engine' \in [up : BOOLEAN, version : Nat] /\ engine.version <= engine'.version
  <2>1. CASE UNCHANGED engine
    BY <2>1 DEF FeedTypes
  <2>2. CASE Feed!EngineStops \/ Feed!EngineStarts \/ Feed!EngineChanges
    <3>1. \/ \E b \in BOOLEAN : engine' = [engine EXCEPT !.up = b]
          \/ engine' = [engine EXCEPT !.version = @ + 1]
      BY <2>2 DEF Feed!EngineStops, Feed!EngineStarts, Feed!EngineChanges
    <3> QED BY <3>1 DEF FeedTypes
  <2> QED BY <2>1, <2>2 DEF Feed!RunHandler, Feed!Stream, Feed!Subscribe, Feed!Listen,
                            Feed!Deliver, Feed!Lose
<1> QED BY <1>1, <1>2 DEF FeedTypes, Ahead, Feed!Fetching

LEMMA FeedPolls ==
    ASSUME FeedTypes, Ahead, NEW p \in {"first", "loop"}, Feed!Poll(p)
    PROVE  FeedTypes' /\ Ahead' /\ lastView' >= lastView
<1> USE DEF FeedTypes, Ahead, Feed!Fetching
<1>1. CASE Feed!Begin(p)
  BY <1>1 DEF Feed!Begin, Feed!MayBegin, Feed!hub
<1>2. CASE Feed!Succeeds(p)
  BY <1>2 DEF Feed!Succeeds
<1>3. CASE Feed!Fails(p) \/ Feed!Afterwards(p)
  <2>1. polls' = [polls EXCEPT ![p] = Feed!Rearmed(p)] /\ UNCHANGED <<engine, lastView>>
    BY <1>3 DEF Feed!Fails, Feed!Afterwards, Feed!hub
  <2>2. CASE p = "first"
    <3>1. polls' = [polls EXCEPT !["first"] = [phase |-> "idle", answer |-> 0]]
      BY <2>1, <2>2 DEF Feed!Rearmed, Feed!Idle
    <3> QED BY <2>1, <3>1
  <2>3. CASE p = "loop"
    <3>1. polls' = [polls EXCEPT !["loop"] = [phase |-> "due", answer |-> 0]]
      BY <2>1, <2>3 DEF Feed!Rearmed, Feed!Due
    <3> QED BY <2>1, <3>1
  <2> QED BY <2>2, <2>3
<1> QED BY <1>1, <1>2, <1>3 DEF Feed!Poll

LEMMA FeedStep ==
    ASSUME FeedTypes, Ahead, Feed!Next
    PROVE  FeedTypes' /\ Ahead' /\ lastView' >= lastView
BY FeedQuiet, FeedPolls DEF Feed!Next, FeedTypes

\* How long a node has been away is an age.
Aged == part = "prober" => lastInView \in [Nodes -> Nat]

LEMMA ProberInit == Prober!Init => lastInView \in [Nodes -> Nat]
BY ProberAssumption DEF Prober!Init, Prober!Never, Prober!Limit

\* Only a pulse forgets a delay, and only one of a node away for longer than the grace.
LEMMA ProberStep ==
    ASSUME lastInView \in [Nodes -> Nat], Prober!Next
    PROVE  /\ lastInView' \in [Nodes -> Nat]
           /\ \A n \in measured : n \notin measured' => lastInView[n] >= Grace
<1>1. CASE Prober!Pulse
  <2>1. lastInView' = [n \in Nodes |-> IF n \in group THEN 0 ELSE Prober!Older(lastInView[n])]
    BY <1>1 DEF Prober!Pulse
  <2>2. \A n \in measured : n \notin measured' => n \in Prober!Forgotten
    BY <1>1 DEF Prober!Pulse
  <2>3. \A n \in Nodes : Prober!Older(lastInView[n]) \in Nat
    BY ProberAssumption DEF Prober!Older, Prober!Limit
  <2>4. \A n \in Prober!Forgotten : lastInView[n] >= Grace
    BY ProberAssumption DEF Prober!Forgotten, Prober!Older, Prober!Limit
  <2> QED BY <2>1, <2>2, <2>3, <2>4
<1>2. CASE Prober!Reload \/ Prober!GroupChanges \/ Prober!Measured
  BY <1>2 DEF Prober!Reload, Prober!GroupChanges, Prober!Measured, Prober!Change
<1> QED BY <1>1, <1>2 DEF Prober!Next

Steady == Logged /\ Fed /\ Aged

LEMMA SteadyInitially == Init => Steady
<1> SUFFICES ASSUME Init PROVE Steady
  OBVIOUS
<1>1. CASE part = "logs" /\ Logs!Init
  <2>1. channel = <<>> /\ <<>> \in Seq({}) /\ Messages({})
    BY <1>1 DEF Logs!Init, Messages
  <2>2. view = Screen(Logs!Connecting, Logs!NoCursor, {}, FALSE, {}, Logs!NoCursor, 0)
    BY <1>1 DEF Logs!Init, Logs!InitialView, Screen
  <2> QED BY <1>1, <2>1, <2>2 DEF Steady, Logged, Fed, Aged, InOrder, Shaped
<1>2. CASE part = "feed" /\ Feed!Init
  BY <1>2, FeedInit DEF Steady, Logged, Fed, Aged
<1>3. CASE part = "prober" /\ Prober!Init
  BY <1>3, ProberInit DEF Steady, Logged, Fed, Aged
<1>4. CASE part \in {"deployment", "apply"}
  BY <1>4 DEF Steady, Logged, Fed, Aged
<1> QED BY <1>1, <1>2, <1>3, <1>4 DEF Init

\* A step of a part keeps what its services remember.
Forward ==
    /\ part = "logs" => Stays
    /\ part = "feed" => lastView' >= lastView
    /\ part = "prober" => \A n \in measured : n \notin measured' => lastInView[n] >= Grace

LEMMA SteadyInductive == Steady /\ [Next]_vars => Steady' /\ [Forward]_vars
<1> SUFFICES ASSUME Steady, [Next]_vars PROVE Steady' /\ [Forward]_vars
  OBVIOUS
<1>1. CASE UNCHANGED vars
  BY <1>1 DEF vars, logVars, feedVars, probeVars, Steady, Logged, Fed, Aged, InOrder, Shaped,
     FeedTypes, Ahead, Feed!Fetching
<1>2. CASE Next
  <2>1. part' = part
    BY <1>2 DEF Next
  <2>2. CASE part = "logs"
    <3>1. Logs!Next /\ InOrder /\ Shaped
      BY <1>2, <2>2 DEF Next, Steady, Logged
    <3> QED BY <2>1, <2>2, <3>1, LogsInOrder, LogsScreen DEF Steady, Logged, Fed, Aged, Forward
  <2>3. CASE part = "feed"
    <3>1. Feed!Next /\ FeedTypes /\ Ahead
      BY <1>2, <2>3 DEF Next, Steady, Fed
    <3> QED BY <2>1, <2>3, <3>1, FeedStep DEF Steady, Logged, Fed, Aged, Forward
  <2>4. CASE part = "prober"
    <3>1. Prober!Next /\ lastInView \in [Nodes -> Nat]
      BY <1>2, <2>4 DEF Next, Steady, Aged
    <3> QED BY <2>1, <2>4, <3>1, ProberStep DEF Steady, Logged, Fed, Aged, Forward
  <2>5. CASE part \notin {"logs", "feed", "prober"}
    BY <2>1, <2>5 DEF Steady, Logged, Fed, Aged, Forward
  <2> QED BY <2>2, <2>3, <2>4, <2>5
<1> QED BY <1>1, <1>2

\* A paused screen, the view of the hub and the delay of a node are never replaced by
\* something older or blank (store.ts, hub.ts and prober.ts).
THEOREM NothingGoesBack == LiveSpec => NothingRewinds
<1>1. Steady /\ [Next]_vars => [Forward]_vars
  BY SteadyInductive
<1>2. Steady /\ [Next]_vars => Steady'
  BY SteadyInductive
<1>3. Init /\ [][Next]_vars => []Steady
  BY <1>2, SteadyInitially, PTL
<1>4. Init /\ [][Next]_vars => [][Forward]_vars
  BY <1>1, <1>3, PTL
<1> QED BY <1>4, PTL DEF LiveSpec, NothingRewinds, Forward, Stays
----------------------------------------------------------------------------
(* The log screen shows the ring (LogScreenAgrees).                          *)

\* What a screen shows, and what the hub holds.
Page(cursr, events, status) == [cursor |-> cursr, events |-> events, status |-> status]
Shown == Page(view.cursor, view.events, view.status)
Held  == Page(sequence, ring, upstream)

\* The events of a page are numbered up to its cursor, and no more than may be kept.
Sound(page) ==
    /\ page.cursor \in Nat /\ IsFiniteSet(page.events)
    /\ \A e \in page.events : e.id \in Nat /\ e.id <= page.cursor
    /\ Logs!Newest(page.events) = page.events

\* What a message makes of a page.
Turned(old, m, new) ==
    \/ m.type = "snapshot" /\ new = Page(m.cursor, m.events, m.status)
    \/ /\ m.type = "status" /\ m.cursor = old.cursor + 1
       /\ new = Page(m.cursor, old.events, m.status)
    \/ /\ m.type = "append" /\ m.cursor = old.cursor + 1
       /\ \E e : /\ e.id = m.cursor /\ m.events = {e}
                 /\ new = Page(m.cursor, Logs!Newest(old.events \cup {e}), old.status)
    \/ /\ m.type = "clear" /\ m.cursor = old.cursor + 1
       /\ new = Page(m.cursor, {}, old.status)

\* The messages on their way turn the page of the screen into that of the hub, one after
\* the other; those of a new subscription start at its snapshot.
Turns(pages, queued, from, to) ==
    /\ \A i \in 0..Len(queued) : Sound(pages[i])
    /\ \A i \in 1..Len(queued) : Turned(pages[i - 1], queued[i], pages[i])
    /\ pages[Len(queued)] = to
    /\ pages[0] = from \/ (queued # <<>> /\ queued[1].type = "snapshot")
Relayed == link => \E pages : Turns(pages, channel, Shown, Held)

\* The newest events of a finite set are all they are the newest of.
LEMMA NewestAgain ==
    ASSUME NEW S, IsFiniteSet(S)
    PROVE  /\ Logs!Newest(S) \subseteq S /\ IsFiniteSet(Logs!Newest(S))
           /\ Logs!Newest(Logs!Newest(S)) = Logs!Newest(S)
<1> DEFINE Above(T, e) == {f \in T : f.id > e.id}
           N(T) == {e \in T : Cardinality(Above(T, e)) < Capacity}
<1>1. \A T : Logs!Newest(T) = N(T)
  BY Zenon DEF Logs!Newest, Logs!Cardinality, Cardinality
<1>2. N(S) \subseteq S /\ IsFiniteSet(N(S))
  BY FS_Subset
<1>3. ASSUME NEW e \in N(S) PROVE Cardinality(Above(N(S), e)) < Capacity
  <2>1. Above(N(S), e) \subseteq Above(S, e) /\ IsFiniteSet(Above(S, e))
    BY FS_Subset
  <2>2. Cardinality(Above(N(S), e)) <= Cardinality(Above(S, e))
        /\ Cardinality(Above(N(S), e)) \in Nat /\ Cardinality(Above(S, e)) \in Nat
    <3> HIDE DEF Above, N
    <3> QED BY <2>1, FS_Subset, FS_CardinalityType
  <2>3. Cardinality(Above(S, e)) < Capacity
    BY <1>3
  <2> HIDE DEF Above, N
  <2> QED BY <2>2, <2>3, LogAssumption
<1>4. N(N(S)) = N(S)
  BY <1>3
<1> QED BY <1>1, <1>2, <1>4

\* A page after a message is a sound one.
LEMMA NextPage ==
    ASSUME NEW page, Sound(page), NEW e, e.id = page.cursor + 1, NEW status
    PROVE  /\ Sound(Page(page.cursor + 1, page.events, status))
           /\ Sound(Page(page.cursor + 1, {}, status))
           /\ Sound(Page(page.cursor + 1, Logs!Newest(page.events \cup {e}), status))
<1>1. IsFiniteSet(page.events \cup {e}) /\ IsFiniteSet({})
  BY FS_AddElement, FS_EmptySet DEF Sound
<1>2. Logs!Newest({}) = {}
  BY <1>1, NewestAgain
<1>3. page.cursor + 1 \in Nat /\ \A f \in page.events \cup {e} : f.id \in Nat /\ f.id <= page.cursor + 1
  BY DEF Sound
<1> QED BY <1>1, <1>2, <1>3, NewestAgain DEF Sound, Page

\* The reader sees the page after each message that is delivered.
LEMMA ReaderTurns ==
    ASSUME Shaped, NEW m, NEW new, Sound(new), view' = Logs!Reduced(view, m),
           \/ m.type = "snapshot" /\ new = Page(m.cursor, m.events, m.status)
           \/ Sound(Shown) /\ Turned(Shown, m, new)
    PROVE  Shown' = new
<1>1. PICK status, cursr, events, kept, from, unseen :
        \E paused \in BOOLEAN : view = Screen(status, cursr, events, paused, kept, from, unseen)
  BY DEF Shaped
<1>2. PICK paused \in BOOLEAN : view = Screen(status, cursr, events, paused, kept, from, unseen)
  BY <1>1
<1>3. Shown = Page(cursr, events, status)
  BY <1>2 DEF Shown, Screen
<1> DEFINE since(ev) == IF paused THEN Logs!UnseenSince(ev, from) ELSE 0
<1>4. ASSUME NEW ev
      PROVE  Logs!WithEvents(view, m, ev) = Screen(status, m.cursor, ev, paused, kept, from, since(ev))
  <2>1. view.paused = paused /\ view.pausedCursor = from
    BY <1>2 DEF Screen
  <2>2. Logs!WithEvents(view, m, ev) = [view EXCEPT !.cursor = m.cursor, !.events = ev, !.unseen = since(ev)]
    BY <2>1 DEF Logs!WithEvents
  <2> HIDE DEF since
  <2> QED BY <1>2, <2>2 DEF Screen
<1>5. CASE m.type = "snapshot" /\ new = Page(m.cursor, m.events, m.status)
  <2>1. Logs!Newest(m.events) = m.events
    BY <1>5 DEF Sound, Page
  <2>2. view' = [Logs!WithEvents(view, m, m.events) EXCEPT !.status = m.status]
    BY <1>5, <2>1 DEF Logs!Reduced, Logs!IsStale
  <2>3. view' = Screen(m.status, m.cursor, m.events, paused, kept, from, since(m.events))
    BY <2>2, <1>4 DEF Screen
  <2> QED BY <2>3, <1>5 DEF Shown, Screen, Page
<1>6. CASE Sound(Shown) /\ Turned(Shown, m, new) /\ m.type # "snapshot"
  <2>1. cursr \in Nat /\ m.cursor = cursr + 1 /\ view.cursor = cursr
        /\ \A f \in events : f.id \in Nat /\ f.id <= cursr
    BY <1>2, <1>3, <1>6 DEF Sound, Turned, Page, Screen
  <2>2. ~Logs!IsStale(view, m)
    BY <2>1 DEF Logs!IsStale
  <2>3. CASE m.type = "status"
    <3>1. view' = [view EXCEPT !.cursor = m.cursor, !.status = m.status]
      BY <2>2, <2>3 DEF Logs!Reduced
    <3>2. view' = Screen(m.status, m.cursor, events, paused, kept, from, unseen)
      BY <3>1, <1>2 DEF Screen
    <3> QED BY <3>2, <2>3, <1>3, <1>6 DEF Shown, Screen, Turned, Page
  <2>4. CASE m.type = "append"
    <3>1. PICK e : /\ e.id = m.cursor /\ m.events = {e}
                   /\ new = Page(m.cursor, Logs!Newest(events \cup {e}), status)
      BY <2>4, <1>3, <1>6 DEF Turned, Page
    <3>2. {f \in m.events : \A k \in events : k.id # f.id} = {e}
      BY <3>1, <2>1
    <3>3. Logs!Normalized(m.events, view.events) = Logs!Newest(events \cup {e})
      BY <3>2, <1>2 DEF Logs!Normalized, Screen
    <3>4. view' = Screen(status, m.cursor, Logs!Newest(events \cup {e}), paused, kept, from,
                         since(Logs!Newest(events \cup {e})))
      BY <2>2, <2>4, <3>3, <1>4 DEF Logs!Reduced
    <3> QED BY <3>1, <3>4 DEF Shown, Screen, Page
  <2>5. CASE m.type = "clear"
    <3> DEFINE f == IF view.paused THEN m.cursor ELSE Logs!NoCursor
    <3>1. view' = [view EXCEPT !.cursor = m.cursor, !.events = {}, !.pausedEvents = {},
                               !.pausedCursor = f, !.unseen = 0]
      BY <2>2, <2>5 DEF Logs!Reduced
    <3>2. view' = Screen(status, m.cursor, {}, paused, {}, f, 0)
      BY <3>1, <1>2 DEF Screen
    <3> QED BY <3>2, <2>5, <1>3, <1>6 DEF Shown, Screen, Turned, Page
  <2> QED BY <2>3, <2>4, <2>5, <1>6 DEF Turned
<1> QED BY <1>5, <1>6 DEF Turned

\* Whatever the hub sends, it sends to the reader of the stream.
LEMMA HubTurns ==
    ASSUME Relayed, Sound(Held), NEW carried, channel \in Seq(carried), NEW m,
           Turned(Held, m, Held'), Sound(Held'), Logs!Emit(m), link' = link, Shown' = Shown
    PROVE  Relayed'
<1> SUFFICES ASSUME link PROVE \E pages : Turns(pages, channel', Shown, Held')
  BY DEF Relayed
<1>1. channel' = Append(channel, m)
  BY DEF Logs!Emit
<1> DEFINE n == Len(channel)
<1>2. n \in Nat /\ Len(channel') = n + 1 /\ channel'[n + 1] = m /\ channel' # <<>>
      /\ \A i \in 1..n : channel'[i] = channel[i]
  BY <1>1
<1>3. PICK pages : Turns(pages, channel, Shown, Held)
  BY DEF Relayed
<1> DEFINE more == [i \in 0..(n + 1) |-> IF i = n + 1 THEN Held' ELSE pages[i]]
<1>4. \A i \in 0..n : more[i] = pages[i]
  BY <1>2
<1>5. more[n + 1] = Held'
  BY <1>2
<1>6. channel # <<>> => n > 0
  BY <1>2
<1> HIDE DEF more, n
<1>7. \A i \in 0..(n + 1) : Sound(more[i])
  <2> TAKE i \in 0..(n + 1)
  <2>1. i \in 0..n \/ i = n + 1
    BY <1>2
  <2> QED BY <2>1, <1>3, <1>4, <1>5 DEF Turns, n
<1>8. \A i \in 1..(n + 1) : Turned(more[i - 1], channel'[i], more[i])
  <2> TAKE i \in 1..(n + 1)
  <2>1. CASE i \in 1..n
    <3>1. i - 1 \in 0..n /\ i \in 0..n
      BY <2>1, <1>2
    <3>2. Turned(pages[i - 1], channel[i], pages[i])
      BY <2>1, <1>3 DEF Turns, n
    <3> QED BY <2>1, <3>1, <3>2, <1>2, <1>4
  <2>2. CASE i = n + 1
    <3>1. i - 1 = n /\ n \in 0..n
      BY <2>2, <1>2
    <3>2. pages[n] = Held
      BY <1>3 DEF Turns, n
    <3> QED BY <2>2, <3>1, <3>2, <1>2, <1>4, <1>5
  <2> QED BY <2>1, <2>2, <1>2
<1>9. more[0] = Shown \/ channel'[1].type = "snapshot"
  <2>1. more[0] = pages[0]
    BY <1>2, <1>4
  <2>2. channel # <<>> => channel'[1] = channel[1]
    BY <1>2, <1>6
  <2> QED BY <2>1, <2>2, <1>3 DEF Turns
<1>10. Turns(more, channel', Shown, Held')
  BY <1>2, <1>5, <1>7, <1>8, <1>9 DEF Turns
<1> QED BY <1>10

\* A status that is new is a message to the reader, with the next cursor.
LEMMA StatusTurns ==
    ASSUME Relayed, Sound(Held), InOrder, NEW status, Logs!SetUpstream(status),
           ring' = ring, link' = link, Shown' = Shown
    PROVE  Relayed' /\ Sound(Held')
<1>1. CASE status = upstream
  <2>1. UNCHANGED <<sequence, channel, upstream>>
    BY <1>1 DEF Logs!SetUpstream
  <2> QED BY <2>1 DEF Relayed, Held
<1>2. CASE status # upstream
  <2> DEFINE m == Logs!Message("status", sequence + 1, status, {})
  <2>1. upstream' = status /\ sequence' = sequence + 1 /\ Logs!Emit(m)
    BY <1>2 DEF Logs!SetUpstream
  <2>2. Held' = Page(Held.cursor + 1, Held.events, status) /\ Held.cursor = sequence
    BY <2>1 DEF Held, Page
  <2>3. Turned(Held, m, Held')
    BY <2>2 DEF Turned, Logs!Message, Page
  <2>4. Sound(Held')
    <3>1. [id |-> Held.cursor + 1].id = Held.cursor + 1
      OBVIOUS
    <3> QED BY <2>2, <3>1, NextPage
  <2>5. PICK carried : channel \in Seq(carried)
    BY DEF InOrder
  <2> HIDE DEF m
  <2> QED BY <2>1, <2>3, <2>4, <2>5, HubTurns
<1> QED BY <1>1, <1>2

LEMMA EventTurns ==
    ASSUME Relayed, Sound(Held), InOrder, Logs!PushEvent, link' = link, Shown' = Shown
    PROVE  Relayed' /\ Sound(Held')
<1> DEFINE e == [id |-> sequence + 1, line |-> lines + 1]
           m == Logs!Message("append", sequence + 1, upstream, {e})
<1>1. /\ sequence' = sequence + 1 /\ upstream' = upstream /\ Logs!Emit(m)
      /\ ring' = Logs!Newest(ring \cup {e})
  BY DEF Logs!PushEvent
<1>2. e.id = sequence + 1
  OBVIOUS
<1> HIDE DEF e
<1>3. /\ Held' = Page(Held.cursor + 1, Logs!Newest(Held.events \cup {e}), Held.status)
      /\ Held.cursor = sequence
  BY <1>1 DEF Held, Page
<1>4. Turned(Held, m, Held')
  BY <1>2, <1>3 DEF Turned, Logs!Message, Page
<1>5. Sound(Held')
  BY <1>2, <1>3, NextPage
<1>6. PICK carried : channel \in Seq(carried)
  BY DEF InOrder
<1> HIDE DEF m
<1> QED BY <1>1, <1>4, <1>5, <1>6, HubTurns

LEMMA ClearTurns ==
    ASSUME Relayed, Sound(Held), InOrder, Logs!Clear
    PROVE  Relayed' /\ Sound(Held')
<1> DEFINE m == Logs!Message("clear", sequence + 1, upstream, {})
<1>1. /\ sequence' = sequence + 1 /\ upstream' = upstream /\ Logs!Emit(m) /\ ring' = {}
      /\ link' = link /\ Shown' = Shown
  BY DEF Logs!Clear, Shown
<1>2. Held' = Page(Held.cursor + 1, {}, Held.status) /\ Held.cursor = sequence
  BY <1>1 DEF Held, Page
<1>3. Turned(Held, m, Held')
  BY <1>2 DEF Turned, Logs!Message, Page
<1>4. Sound(Held')
  <2>1. [id |-> Held.cursor + 1].id = Held.cursor + 1
    OBVIOUS
  <2> QED BY <1>2, <2>1, NextPage
<1>5. PICK carried : channel \in Seq(carried)
  BY DEF InOrder
<1> HIDE DEF m
<1> QED BY <1>1, <1>3, <1>4, <1>5, HubTurns

LEMMA DeliverTurns ==
    ASSUME Relayed, Sound(Held), InOrder, Shaped, Logs!Deliver
    PROVE  Relayed' /\ Sound(Held')
<1>1. /\ channel # <<>> /\ channel' = Tail(channel) /\ view' = Logs!Reduced(view, Head(channel))
      /\ link' = link /\ Held' = Held
  BY DEF Logs!Deliver, Logs!hub, Held
<1> SUFFICES ASSUME link PROVE \E pages : Turns(pages, channel', Shown', Held)
  BY <1>1 DEF Relayed
<1>2. PICK carried : channel \in Seq(carried)
  BY DEF InOrder
<1> DEFINE n == Len(channel)
<1>3. /\ n \in Nat \ {0} /\ Len(channel') = n - 1 /\ Head(channel) = channel[1]
      /\ \A i \in 1..(n - 1) : channel'[i] = channel[i + 1]
  BY <1>1, <1>2
<1>4. PICK pages : Turns(pages, channel, Shown, Held)
  BY DEF Relayed
<1> DEFINE rest == [i \in 0..(n - 1) |-> pages[i + 1]]
<1>5. \A i \in 0..(n - 1) : rest[i] = pages[i + 1]
  OBVIOUS
<1> HIDE DEF rest, n
<1>6. 0 \in 0..(n - 1) /\ n - 1 \in 0..(n - 1) /\ 0 \in 0..n /\ 1 \in 0..n /\ 1 \in 1..n
  BY <1>3
<1>7. Shown' = pages[1]
  <2>1. Turned(pages[0], channel[1], pages[1]) /\ Sound(pages[0]) /\ Sound(pages[1])
    BY <1>4, <1>6 DEF Turns, n
  <2>2. pages[0] = Shown \/ channel[1].type = "snapshot"
    BY <1>4 DEF Turns
  <2>3. \/ channel[1].type = "snapshot" /\ pages[1] = Page(channel[1].cursor, channel[1].events, channel[1].status)
        \/ Sound(Shown) /\ Turned(Shown, channel[1], pages[1])
    BY <2>1, <2>2 DEF Turned
  <2>4. view' = Logs!Reduced(view, channel[1])
    BY <1>1, <1>3
  <2> QED BY <2>1, <2>3, <2>4, ReaderTurns
<1>8. \A i \in 0..(n - 1) : Sound(rest[i])
  <2> TAKE i \in 0..(n - 1)
  <2>1. i + 1 \in 0..n
    BY <1>3
  <2> QED BY <2>1, <1>4, <1>5 DEF Turns, n
<1>9. \A i \in 1..(n - 1) : Turned(rest[i - 1], channel'[i], rest[i])
  <2> TAKE i \in 1..(n - 1)
  <2>1. i + 1 \in 1..n /\ i - 1 \in 0..(n - 1) /\ i \in 0..(n - 1) /\ (i + 1) - 1 = i /\ (i - 1) + 1 = i
    BY <1>3
  <2>2. Turned(pages[(i + 1) - 1], channel[i + 1], pages[i + 1])
    BY <2>1, <1>4 DEF Turns, n
  <2>3. Turned(pages[i], channel[i + 1], pages[i + 1])
    BY <2>1, <2>2
  <2> QED BY <2>1, <2>3, <1>3, <1>5
<1>10. rest[n - 1] = Held /\ rest[0] = Shown'
  <2>1. rest[n - 1] = pages[n] /\ rest[0] = pages[1]
    <3>1. (n - 1) + 1 = n /\ 0 + 1 = 1
      BY <1>3
    <3> QED BY <3>1, <1>5, <1>6
  <2> QED BY <2>1, <1>4, <1>7 DEF Turns, n
<1>11. Turns(rest, channel', Shown', Held)
  BY <1>3, <1>8, <1>9, <1>10 DEF Turns
<1> QED BY <1>11, <1>1

\* A new subscription starts at a snapshot.
LEMMA SubscribeTurns ==
    ASSUME Sound(Held), Logs!Subscribe
    PROVE  Relayed' /\ Sound(Held')
<1> DEFINE m == Logs!Message("snapshot", sequence, upstream, ring)
           pages == [i \in 0..1 |-> Held]
<1>1. channel' = <<m>> /\ Held' = Held
  BY DEF Logs!Subscribe, Logs!Snapshot, Logs!hub, Held
<1>2. m.type = "snapshot" /\ Held = Page(m.cursor, m.events, m.status)
  BY DEF Held, Page, Logs!Message
<1> HIDE DEF m
<1>3. Len(<<m>>) = 1 /\ <<m>>[1] = m /\ <<m>> # <<>>
  OBVIOUS
<1>4. \A i \in 0..1 : pages[i] = Held
  OBVIOUS
<1> HIDE DEF pages
<1>5. \A i \in 1..1 : Turned(pages[i - 1], <<m>>[i], pages[i])
  <2>1. Turned(Held, m, Held)
    BY <1>2 DEF Turned
  <2>2. \A i \in 1..1 : i = 1
    OBVIOUS
  <2>3. pages[0] = Held /\ pages[1] = Held
    BY <1>4
  <2>4. pages[1 - 1] = Held
    BY <2>3
  <2> QED BY <2>1, <2>2, <2>3, <2>4, <1>3
<1>6. Turns(pages, channel', Shown', Held')
  BY <1>1, <1>2, <1>3, <1>4, <1>5 DEF Turns
<1> QED BY <1>1, <1>6 DEF Relayed

\* Every step of the log keeps the pages in order.
LEMMA LogsTurn ==
    ASSUME Relayed, Sound(Held), InOrder, Shaped, Logs!Next
    PROVE  Relayed' /\ Sound(Held')
<1>1. ASSUME UNCHANGED <<ring, sequence, upstream, channel, link>>, Shown' = Shown
      PROVE  Relayed' /\ Sound(Held')
  BY <1>1 DEF Relayed, Held
<1>2. CASE Logs!Push
  BY <1>2, EventTurns DEF Logs!Push, Shown
<1>3. CASE Logs!Clear
  BY <1>3, ClearTurns
<1>4. CASE Logs!Start \/ Logs!Stop
  <2>1. Logs!SetUpstream(Logs!Connecting) /\ ring' = ring /\ link' = link /\ Shown' = Shown
    BY <1>4 DEF Logs!Start, Logs!Stop, Shown
  <2> QED BY <2>1, StatusTurns
<1>5. CASE Logs!Restart
  <2>1. link' = FALSE /\ Held' = Page(0, {}, Logs!Connecting)
    BY <1>5 DEF Logs!Restart, Held
  <2>2. IsFiniteSet({})
    BY FS_EmptySet
  <2>3. Logs!Newest({}) = {}
    BY <2>2, NewestAgain
  <2> QED BY <2>1, <2>2, <2>3 DEF Relayed, Sound, Page
<1>6. CASE Logs!Disconnect
  BY <1>6 DEF Logs!Disconnect, Logs!hub, Relayed, Held
<1>7. ASSUME NEW g \in Logs!Generations, Logs!Superseded(g) PROVE Relayed' /\ Sound(Held')
  <2>1. UNCHANGED <<ring, sequence, upstream, channel, link>> /\ Shown' = Shown
    BY <1>7 DEF Logs!Superseded, Logs!hub, Shown
  <2> QED BY <2>1, <1>1
<1>8. ASSUME NEW g \in Logs!Generations, Logs!Opened(g) \/ Logs!Retry(g) PROVE Relayed' /\ Sound(Held')
  <2>1. PICK status : Logs!SetUpstream(status)
    BY <1>8 DEF Logs!Opened, Logs!Retry
  <2>2. ring' = ring /\ link' = link /\ Shown' = Shown
    BY <1>8 DEF Logs!Opened, Logs!Retry, Shown
  <2> QED BY <2>1, <2>2, StatusTurns
<1>9. ASSUME NEW g \in Logs!Generations, Logs!Frame(g) PROVE Relayed' /\ Sound(Held')
  BY <1>9, EventTurns DEF Logs!Frame, Shown
<1>10. ASSUME NEW g \in Logs!Generations, Logs!StreamEnds(g) PROVE Relayed' /\ Sound(Held')
  <2>1. PICK status : Logs!SetUpstream(status)
    BY <1>10 DEF Logs!StreamEnds
  <2>2. ring' = ring /\ link' = link /\ Shown' = Shown
    BY <1>10 DEF Logs!StreamEnds, Shown
  <2> QED BY <2>1, <2>2, StatusTurns
<1>11. CASE Logs!Subscribe
  BY <1>11, SubscribeTurns
<1>12. CASE Logs!Deliver
  BY <1>12, DeliverTurns
<1>13. CASE Logs!Pause \/ Logs!Continue
  <2>1. UNCHANGED <<ring, sequence, upstream, channel, link>>
    BY <1>13 DEF Logs!Pause, Logs!Continue, Logs!hub
  <2>2. Shown' = Shown
    BY <1>13 DEF Logs!Pause, Logs!Continue, Shown, Shaped, Screen
  <2> QED BY <2>1, <2>2, <1>1
<1> QED BY <1>2, <1>3, <1>4, <1>5, <1>6, <1>7, <1>8, <1>9, <1>10, <1>11, <1>12, <1>13
        DEF Logs!Next, Logs!Screen

\* What the hub says of the stream is what its current capture does.
Says(pump) ==
    CASE pump.phase = "open" -> upstream = Logs!Connecting
      [] pump.phase = "read" -> upstream = Logs!Live
      [] pump.phase = "wait" -> upstream = Logs!Status("reconnecting", Logs!Backoff(pump.failures))
      [] OTHER -> FALSE
Captures ==
    /\ DOMAIN pumps = Logs!Generations
    /\ \A g \in Logs!Generations : "phase" \in DOMAIN pumps[g]
    /\ capture \in Logs!Generations \cup {0}
    /\ IF capture = 0 THEN upstream = Logs!Connecting ELSE Says(pumps[capture])

LEMMA LogsCapture ==
    ASSUME Captures, Logs!Next
    PROVE  Captures'
<1>1. 0 \notin Logs!Generations
  BY LogAssumption DEF Logs!Generations
<1>2. ASSUME UNCHANGED <<upstream, capture, pumps>> PROVE Captures'
  BY <1>2 DEF Captures, Says
<1>3. CASE Logs!Push \/ Logs!Clear \/ Logs!Subscribe \/ Logs!Disconnect \/ Logs!Deliver
           \/ Logs!Pause \/ Logs!Continue
  <2>1. UNCHANGED <<upstream, capture, pumps>>
    BY <1>3 DEF Logs!Push, Logs!PushEvent, Logs!Clear, Logs!Subscribe, Logs!Disconnect,
                Logs!Deliver, Logs!Pause, Logs!Continue, Logs!hub
  <2> QED BY <1>2, <2>1
<1>4. ASSUME NEW g \in Logs!Generations, Logs!Frame(g) PROVE Captures'
  <2>1. UNCHANGED <<upstream, capture, pumps>>
    BY <1>4 DEF Logs!Frame, Logs!PushEvent
  <2> QED BY <1>2, <2>1
<1>5. ASSUME NEW g \in Logs!Generations, capture' = g, pumps' = [pumps EXCEPT ![g].phase = "open"],
             upstream' = Logs!Connecting
      PROVE  Captures'
  <2>1. pumps'[g].phase = "open"
    BY <1>5 DEF Captures
  <2>2. DOMAIN pumps' = Logs!Generations /\ \A h \in Logs!Generations : "phase" \in DOMAIN pumps'[h]
    BY <1>5 DEF Captures
  <2> QED BY <1>1, <1>5, <2>1, <2>2 DEF Captures, Says
<1>6. CASE Logs!Start
  <2>1. \E g \in Logs!Generations : capture' = g /\ pumps' = [pumps EXCEPT ![g].phase = "open"]
    BY <1>6 DEF Logs!Start
  <2> QED BY <1>5, <1>6, <2>1 DEF Logs!Start, Logs!SetUpstream
<1>7. CASE Logs!Stop
  BY <1>7 DEF Logs!Stop, Logs!SetUpstream, Captures
<1>8. ASSUME NEW g \in Logs!Generations, Logs!Superseded(g) PROVE Captures'
  <2>1. /\ pumps' = [pumps EXCEPT ![g].phase = "ended"] /\ capture # g
        /\ UNCHANGED <<upstream, capture>>
    BY <1>8 DEF Logs!Superseded, Logs!Ended, Logs!Current, Logs!hub
  <2>2. \A h \in Logs!Generations : h # g => pumps'[h] = pumps[h]
    BY <2>1 DEF Captures
  <2>3. DOMAIN pumps' = Logs!Generations /\ \A h \in Logs!Generations : "phase" \in DOMAIN pumps'[h]
    BY <2>1 DEF Captures
  <2> QED BY <2>1, <2>2, <2>3 DEF Captures, Says
<1>9. ASSUME NEW g \in Logs!Generations, Logs!Opened(g) PROVE Captures'
  <2>1. /\ pumps' = [pumps EXCEPT ![g].phase = "read"] /\ capture' = g
        /\ upstream' = Logs!Live
    BY <1>9 DEF Logs!Opened, Logs!Current, Logs!SetUpstream
  <2>2. pumps'[g].phase = "read"
    BY <2>1 DEF Captures
  <2>3. DOMAIN pumps' = Logs!Generations /\ \A h \in Logs!Generations : "phase" \in DOMAIN pumps'[h]
    BY <2>1 DEF Captures
  <2> QED BY <1>1, <2>1, <2>2, <2>3 DEF Captures, Says
<1>10. ASSUME NEW g \in Logs!Generations, Logs!StreamEnds(g) PROVE Captures'
  <2>1. PICK failures :
          /\ pumps' = [pumps EXCEPT ![g] = [phase |-> "wait", failures |-> failures]]
          /\ upstream' = Logs!Status("reconnecting", Logs!Backoff(failures))
          /\ capture' = g
    BY <1>10 DEF Logs!StreamEnds, Logs!Current, Logs!SetUpstream
  <2>2. pumps'[g] = [phase |-> "wait", failures |-> failures]
    BY <2>1 DEF Captures
  <2>3. DOMAIN pumps' = Logs!Generations /\ \A h \in Logs!Generations : "phase" \in DOMAIN pumps'[h]
    BY <2>1 DEF Captures
  <2>4. pumps'[g].phase = "wait" /\ pumps'[g].failures = failures
    BY <2>2
  <2> QED BY <1>1, <2>1, <2>3, <2>4 DEF Captures, Says
<1>11. ASSUME NEW g \in Logs!Generations, Logs!Retry(g) PROVE Captures'
  BY <1>5, <1>11 DEF Logs!Retry, Logs!Current, Logs!SetUpstream
<1>12. CASE Logs!Restart
  <2>1. PICK g \in Logs!Generations \ Logs!Used :
          /\ capture' = g /\ upstream' = Logs!Connecting
          /\ pumps' = [h \in Logs!Generations |->
                         IF h \in Logs!Used THEN [pumps[h] EXCEPT !.phase = "ended"]
                         ELSE IF h = g THEN [Logs!NoPump EXCEPT !.phase = "open"]
                         ELSE Logs!NoPump]
    BY <1>12 DEF Logs!Restart
  <2>2. pumps'[g].phase = "open"
    BY <2>1 DEF Logs!NoPump
  <2>3. DOMAIN pumps' = Logs!Generations /\ \A h \in Logs!Generations : "phase" \in DOMAIN pumps'[h]
    BY <2>1 DEF Captures, Logs!NoPump
  <2> QED BY <1>1, <2>1, <2>2, <2>3 DEF Captures, Says
<1> QED BY <1>3, <1>4, <1>6, <1>7, <1>8, <1>9, <1>10, <1>11, <1>12 DEF Logs!Next, Logs!Screen

Streaming == part = "logs" => Relayed /\ Sound(Held) /\ Captures

LEMMA StreamingInitially == Init => Streaming
<1> SUFFICES ASSUME Init, part = "logs" PROVE Relayed /\ Sound(Held) /\ Captures
  BY DEF Streaming
<1>1. Logs!Init
  BY DEF Init
<1>2. IsFiniteSet({})
  BY FS_EmptySet
<1>3. Logs!Newest({}) = {}
  BY <1>2, NewestAgain
<1>4. Sound(Held)
  BY <1>1, <1>2, <1>3 DEF Logs!Init, Held, Sound, Page
<1>5. Captures
  BY <1>1 DEF Logs!Init, Logs!NoPump, Captures
<1> QED BY <1>1, <1>4, <1>5 DEF Logs!Init, Relayed

LEMMA StreamingInductive == Steady /\ Streaming /\ [Next]_vars => Streaming'
<1> SUFFICES ASSUME Steady, Streaming, [Next]_vars, part' = "logs"
             PROVE  Relayed' /\ Sound(Held') /\ Captures'
  BY DEF Streaming, Held
<1>1. part = "logs" /\ Relayed /\ Sound(Held) /\ Captures /\ InOrder /\ Shaped
  BY DEF Streaming, Steady, Logged, Next, vars
<1>2. CASE Next
  <2>1. Logs!Next
    BY <1>1, <1>2 DEF Next
  <2> QED BY <1>1, <2>1, LogsTurn, LogsCapture
<1>3. CASE UNCHANGED vars
  BY <1>1, <1>3 DEF vars, logVars, Relayed, Shown, Held, Captures, Says
<1> QED BY <1>2, <1>3

\* With nothing on its way, the screen has the page of the hub.
LEMMA NothingOnItsWay ==
    ASSUME Relayed, Captures
    PROVE  Logs!ViewAgrees /\ Logs!StatusTrue
<1>1. Logs!StatusTrue
  BY DEF Captures, Says, Logs!StatusTrue
<1>2. ASSUME link, channel = <<>>
      PROVE  view.cursor = sequence /\ view.events = ring /\ view.status = upstream
  <2>1. PICK pages : Turns(pages, channel, Shown, Held)
    BY <1>2 DEF Relayed
  <2>2. Len(channel) = 0
    BY <1>2
  <2>3. Shown = Held
    BY <1>2, <2>1, <2>2 DEF Turns
  <2> QED BY <2>3 DEF Shown, Held, Page
<1> QED BY <1>1, <1>2 DEF Logs!ViewAgrees

\* Once what is on its way is delivered the log screen has the events, the cursor and the
\* status of the hub, which are those of the one capture that may write (hub.ts, store.ts).
THEOREM LogScreenStaysTrue == LiveSpec => []LogScreenAgrees
<1>1. Streaming => LogScreenAgrees
  BY NothingOnItsWay DEF Streaming, LogScreenAgrees
<1>2. Steady /\ [Next]_vars => Steady'
  BY SteadyInductive
<1> QED BY <1>1, <1>2, SteadyInitially, StreamingInitially, StreamingInductive, PTL DEF LiveSpec


-----------------------------------------------------------------------------
(* The rotation of the prober.                                               *)

\* A nonempty set of naturals has a least element.
LEMMA Least ==
    ASSUME NEW T, T \subseteq Nat, T # {}
    PROVE  \E x \in T : \A y \in T : x <= y
<1>1. \A R, S : IsWellFoundedOn(R, S) =>
          \A U : U \subseteq S /\ U # {} => \E x \in U : \A y \in U : ~(<<y, x>> \in R)
  BY WFMin
<1> DEFINE R == OpToRel(<, Nat)
<1>2. IsWellFoundedOn(R, Nat)
  BY NatLessThanWellFounded
<1>3. \A x, y \in Nat : y < x => <<y, x>> \in R
  BY DEF OpToRel
<1> HIDE DEF R
<1>4. PICK x \in T : \A y \in T : ~(<<y, x>> \in R)
  BY <1>1, <1>2
<1>5. ASSUME NEW y \in T PROVE x <= y
  <2>1. x \in Nat /\ y \in Nat /\ ~(y < x)
    BY <1>3, <1>4
  <2> QED BY <2>1
<1> QED BY <1>5

\* A nonempty set of naturals with a bound has a greatest element.
LEMMA Greatest ==
    ASSUME NEW bound \in Nat, NEW T, T \subseteq 0..bound, T # {}
    PROVE  \E x \in T : \A y \in T : y <= x
<1> DEFINE Gaps == {gap \in 0..bound : bound - gap \in T}
<1>1. PICK t \in T : TRUE
  OBVIOUS
<1>2. bound - t \in Gaps
  OBVIOUS
<1>3. Gaps \subseteq Nat /\ Gaps # {}
  BY <1>2
<1>4. \E gap \in Gaps : \A other \in Gaps : gap <= other
  <2> HIDE DEF Gaps
  <2> QED BY <1>3, Least
<1>5. PICK gap \in Gaps : \A other \in Gaps : gap <= other
  BY <1>4
<1>6. ASSUME NEW y \in T PROVE y <= bound - gap
  <2>1. y \in 0..bound /\ bound - (bound - y) = y
    OBVIOUS
  <2>2. bound - y \in Gaps
    BY <2>1
  <2>3. gap \in 0..bound /\ gap <= bound - y
    BY <1>5, <2>2
  <2> QED BY <2>1, <2>3
<1> QED BY <1>5, <1>6

\* Around a rotation of total places, two places that share an offset are one.
LEMMA Around ==
    ASSUME NEW total \in Nat \ {0}, NEW a \in Nat, a < total + total
    PROVE  a % total = IF a < total THEN a ELSE a - total
OBVIOUS

LEMMA TurnBound ==
    ASSUME NEW total \in Nat, NEW b \in Nat \ {0}, NEW w \in Nat, w * b <= total - 1
    PROVE  w < (total + b - 1) \div b
<1> DEFINE q == (total + b - 1) \div b
<1>1. q \in Nat /\ q * b >= total
  OBVIOUS
<1> HIDE DEF q
<1>2. ASSUME w >= q PROVE FALSE
  <2>1. w * b >= q * b
    BY <1>1, <1>2
  <2> QED BY <1>1, <2>1
<1> QED BY <1>1, <1>2 DEF q

LEMMA BatchIs == \A total \in Nat : Prober!Batch(total) \in Nat \ {0}
BY ProberAssumption DEF Prober!Batch, Prober!Ceil

\* A stale place left out of a batch of b lies behind a full batch.
LEMMA LeftOut ==
    ASSUME NEW total \in Nat \ {0}, NEW stale \in SUBSET (0..(total - 1)), NEW b \in Nat \ {0},
           NEW picked,
           picked = {step \in stale : Cardinality({s \in stale : s < step}) < b},
           NEW place \in stale \ picked
    PROVE  /\ picked # {}
           /\ \A t \in picked : t < place
           /\ \A m \in picked : (\A t \in picked : t <= m) => m + 1 >= b
<1> DEFINE Below(step) == {s \in stale : s < step}
           Late == {step \in stale : ~(Cardinality(Below(step)) < b)}
<1>1. IsFiniteSet(stale) /\ stale \subseteq Nat
  <2>1. IsFiniteSet(0..(total - 1))
    BY FS_Interval
  <2>2. IsFiniteSet(stale)
    BY <2>1, FS_Subset
  <2> QED BY <2>2
<1>2. \A step : IsFiniteSet(Below(step)) /\ Cardinality(Below(step)) \in Nat
  BY <1>1, FS_Subset, FS_CardinalityType
<1>3. picked = stale \ Late
  OBVIOUS
<1>4. place \in Late
  OBVIOUS
<1>5. ASSUME NEW x \in stale, NEW y \in stale, x <= y
      PROVE  Cardinality(Below(x)) <= Cardinality(Below(y))
  <2>1. \A s \in stale : s < x => s < y
    BY <1>1, <1>5
  <2>2. IsFiniteSet(Below(y))
    BY <1>2
  <2>3. Below(x) \subseteq Below(y)
    BY <2>1
  <2> HIDE DEF Below
  <2> QED BY <2>2, <2>3, FS_Subset
<1>6. ASSUME NEW t \in picked, NEW late \in Late PROVE t < late
  <2>1. t \in stale /\ Cardinality(Below(t)) < b
    OBVIOUS
  <2>2. late \in stale /\ ~(Cardinality(Below(late)) < b)
    OBVIOUS
  <2> HIDE DEF Below
  <2>3. Cardinality(Below(t)) \in Nat /\ Cardinality(Below(late)) \in Nat
    BY <1>2
  <2> QED BY <1>1, <1>5, <2>1, <2>2, <2>3
<1>7. PICK earliest \in Late : \A late \in Late : earliest <= late
  <2>1. Late \subseteq Nat /\ Late # {}
    BY <1>1, <1>4
  <2> HIDE DEF Late
  <2> QED BY <2>1, Least
<1>8. Below(earliest) = picked
  <2>1. earliest \in Nat /\ \A late \in Late : late \in Nat /\ earliest <= late
    BY <1>1, <1>7
  <2>2. \A s \in stale : s < earliest => s \notin Late
    BY <2>1
  <2> QED BY <1>3, <1>6, <1>7, <2>2
<1>9. IsFiniteSet(picked) /\ Cardinality(picked) \in Nat /\ Cardinality(picked) >= b
  <2>1. ~(Cardinality(Below(earliest)) < b)
    BY <1>7
  <2> HIDE DEF Below
  <2>2. IsFiniteSet(Below(earliest)) /\ Cardinality(Below(earliest)) \in Nat
    BY <1>2
  <2>3. Cardinality(Below(earliest)) >= b
    BY <2>1, <2>2
  <2> QED BY Zenon, <1>8, <2>2, <2>3
<1>10. picked # {}
  <2>1. Cardinality({}) = 0
    BY FS_EmptySet
  <2>2. b > 0
    OBVIOUS
  <2>3. ASSUME picked = {} PROVE FALSE
    <3>1. Cardinality(picked) = 0
      BY Zenon, <2>1, <2>3
    <3> QED BY <1>9, <2>2, <3>1
  <2> QED BY <2>3
<1>11. ASSUME NEW m \in picked, \A t \in picked : t <= m PROVE m + 1 >= b
  <2>1. m \in Nat /\ \A t \in picked : t \in Nat /\ t <= m
    BY <1>1, <1>3, <1>11
  <2>2. picked \subseteq 0..m
    <3>1. \A t \in Nat : t <= m => t \in 0..m
      BY <2>1
    <3> QED BY Zenon, <2>1, <3>1
  <2>3. IsFiniteSet(0..m) /\ Cardinality(0..m) = m + 1
    BY <2>1, FS_Interval
  <2>4. Cardinality(picked) <= m + 1
    BY <2>2, <2>3, FS_Subset
  <2> QED BY <1>9, <2>1, <2>4
<1> QED BY <1>4, <1>6, <1>10, <1>11

\* While the group is that of the rotation, its order stays.
LEMMA RotationKept ==
    ASSUME NEW total \in Nat, NEW order \in [1..total -> group],
           names \in [1..total -> group],
           \A i, j \in 1..total : names[i] = names[j] => i = j,
           Prober!Range(names) = group, Prober!Range(order) = group,
           \A i, j \in 1..total : i < j => Prober!Before(names, order[i], order[j])
    PROVE  order = names
<1> DEFINE Moved == {i \in 1..total : order[i] # names[i]}
<1>1. \A place \in group : (\E i \in 1..total : names[i] = place) /\ (\E i \in 1..total : order[i] = place)
  BY DEF Prober!Range
<1>2. SUFFICES ASSUME Moved # {} PROVE FALSE
  <2>1. \A i \in 1..total : order[i] = names[i]
    BY <1>2
  <2> QED BY <2>1
<1>3. PICK i \in Moved : \A other \in Moved : i <= other
  <2>1. Moved \subseteq Nat
    OBVIOUS
  <2> HIDE DEF Moved
  <2> QED BY <1>2, <2>1, Least
<1>4. i \in 1..total /\ order[i] # names[i] /\ \A k \in 1..total : k < i => order[k] = names[k]
  BY <1>3
<1>5. PICK j \in 1..total : order[j] = names[i]
  BY <1>1, <1>4
<1>6. PICK k \in 1..total : names[k] = order[i]
  BY <1>1, <1>4
<1>7. i < j
  BY <1>4, <1>5
<1>8. i < k
  <2>1. CASE k < i
    <3>1. order[k] = order[i]
      BY <1>4, <1>6, <2>1
    <3>2. Prober!Before(names, order[k], order[i])
      BY <1>4, <2>1
    <3> QED BY <3>1, <3>2 DEF Prober!Before
  <2> QED BY <1>4, <1>6, <2>1
<1>9. PICK a, b \in 1..total : a < b /\ names[a] = order[i] /\ names[b] = order[j]
  <2>1. Prober!Before(names, order[i], order[j])
    BY <1>4, <1>5, <1>7
  <2>2. DOMAIN names = 1..total
    OBVIOUS
  <2> QED BY <2>1, <2>2 DEF Prober!Before
<1> QED BY <1>4, <1>5, <1>6, <1>8, <1>9

\* A rotation has every node of the group once.
LEMMA RotationCovers ==
    ASSUME group \subseteq Nodes, NEW order \in Prober!Rotations
    PROVE  /\ IsFiniteSet(group) /\ Cardinality(group) \in Nat
           /\ order \in [1..Cardinality(group) -> group]
           /\ Prober!Range(order) = group
           /\ \A i, j \in 1..Cardinality(group) : order[i] = order[j] => i = j
           /\ \A i, j \in 1..Cardinality(group) :
                 i < j /\ order[j] \in Prober!Range(names) => Prober!Before(names, order[i], order[j])
<1>1. IsFiniteSet(group) /\ Cardinality(group) \in Nat
  BY ProberAssumption, FS_Subset, FS_CardinalityType
<1>2. Prober!Cardinality(group) = Cardinality(group)
  BY Zenon DEF Prober!Cardinality, Cardinality
<1>3. order \in [1..Cardinality(group) -> group] /\ Prober!Range(order) = group
  BY <1>2 DEF Prober!Rotations
<1>4. \A i, j \in 1..Cardinality(group) :
         i < j /\ order[j] \in Prober!Range(names) => Prober!Before(names, order[i], order[j])
  BY <1>2, <1>3 DEF Prober!Rotations
<1>5. order \in Surjection(1..Cardinality(group), group)
  BY <1>3 DEF Prober!Range, Surjection
<1>6. IsFiniteSet(1..Cardinality(group)) /\ Cardinality(1..Cardinality(group)) = Cardinality(group)
  BY <1>1, FS_Interval
<1>7. order \in Injection(1..Cardinality(group), group)
  BY <1>5, <1>6, FS_SurjSameCardinalityImpliesInj
<1>8. \A i, j \in 1..Cardinality(group) : order[i] = order[j] => i = j
  BY <1>7 DEF Injection, IsInjective
<1> QED BY <1>1, <1>3, <1>4, <1>8

-----------------------------------------------------------------------------
\* The rotation, and how far a node that waits is from the cursor: what is ahead of it
\* shrinks by a batch with every pulse.
Places == 1..Len(names)
At(step) == names[((cursor + step) % Len(names)) + 1]
Within(n, steps) ==
    /\ At(steps) = n
    /\ steps + waiting[n] * Prober!Batch(Len(names)) <= Len(names) - 1
Rotating ==
    /\ group \subseteq Nodes
    /\ Len(names) \in Nat /\ names \in [Places -> Nodes]
    /\ \A i, j \in Places : names[i] = names[j] => i = j
    /\ cursor \in Nat /\ (cursor < Len(names) \/ cursor = 0)
    /\ waiting \in [Nodes -> Nat]
Approached ==
    \A n \in Nodes : waiting[n] # 0 =>
        /\ Prober!Range(names) = group /\ Len(names) = Cardinality(group)
        /\ \E steps \in 0..(Len(names) - 1) : Within(n, steps)
Swept == Rotating /\ Approached

LEMMA SweptInitially == Prober!Init => Swept
<1> SUFFICES ASSUME Prober!Init PROVE Swept
  OBVIOUS
<1>1. names = <<>> /\ cursor = 0 /\ waiting = [n \in Nodes |-> 0] /\ group \subseteq Nodes
  BY DEF Prober!Init
<1>2. Rotating
  BY <1>1 DEF Rotating, Places
<1>3. Approached
  BY <1>1 DEF Approached
<1> QED BY <1>2, <1>3 DEF Swept

LEMMA SweptBounds == Swept => Prober!SweptInTime
<1> SUFFICES ASSUME Swept, NEW n \in Nodes, waiting[n] # 0 PROVE waiting[n] < Prober!Turn
  BY DEF Prober!SweptInTime
<1> DEFINE batch == Prober!Batch(Len(names))
<1>1. Len(names) \in Nat /\ waiting[n] \in Nat
  BY DEF Swept, Rotating
<1>2. batch \in Nat \ {0}
  BY <1>1, BatchIs
<1>3. PICK steps \in 0..(Len(names) - 1) : steps + waiting[n] * batch <= Len(names) - 1
  BY DEF Swept, Approached, Within
<1>4. Prober!Turn = (Len(names) + batch - 1) \div batch
  BY DEF Prober!Turn, Prober!Ceil
<1> HIDE DEF batch
<1>5. waiting[n] * batch <= Len(names) - 1
  BY <1>1, <1>2, <1>3
<1> QED BY <1>1, <1>2, <1>4, <1>5, TurnBound

\* Places around a rotation, a and b steps from the same place.
LEMMA Wraps ==
    ASSUME NEW total \in Nat \ {0}, NEW from \in 0..(total - 1), NEW step \in 0..total
    PROVE  (from + step) % total = IF from + step < total THEN from + step ELSE from + step - total
<1>1. from + step \in Nat /\ from + step < total + total
  OBVIOUS
<1> DEFINE sum == from + step
<1>2. sum \in Nat /\ sum < total + total
  BY <1>1
<1> HIDE DEF sum
<1>3. sum % total = IF sum < total THEN sum ELSE sum - total
  BY <1>2, Around
<1> QED BY <1>3 DEF sum

LEMMA SamePlace ==
    ASSUME NEW total \in Nat \ {0}, NEW from \in 0..(total - 1),
           NEW a \in 0..(total - 1), NEW b \in 0..(total - 1),
           (from + a) % total = (from + b) % total
    PROVE  a = b
<1>0. a \in 0..total /\ b \in 0..total
  OBVIOUS
<1>1. (from + a) % total = IF from + a < total THEN from + a ELSE from + a - total
  BY <1>0, Wraps
<1>2. (from + b) % total = IF from + b < total THEN from + b ELSE from + b - total
  BY <1>0, Wraps
<1> QED BY <1>1, <1>2

LEMMA Reached ==
    ASSUME NEW total \in Nat \ {0}, NEW from \in 0..(total - 1), NEW place \in 1..total
    PROVE  \E steps \in 0..(total - 1) : ((from + steps) % total) + 1 = place
<1> DEFINE steps == IF place - 1 >= from THEN place - 1 - from ELSE place - 1 - from + total
<1>1. steps \in 0..(total - 1)
  OBVIOUS
<1>2. from + steps = IF place - 1 >= from THEN place - 1 ELSE place - 1 + total
  OBVIOUS
<1> HIDE DEF steps
<1>5. steps \in 0..total
  BY <1>1
<1>3. (from + steps) % total = IF from + steps < total THEN from + steps ELSE from + steps - total
  BY <1>5, Wraps
<1>4. ((from + steps) % total) + 1 = place
  BY <1>2, <1>3
<1> QED BY <1>1, <1>4

\* From a cursor moved past m, what lay behind m is m + 1 steps nearer.
LEMMA Nearer ==
    ASSUME NEW total \in Nat \ {0}, NEW from \in 0..(total - 1), NEW m \in 0..(total - 1),
           NEW steps \in 0..(total - 1), m < steps
    PROVE  (((from + m + 1) % total) + (steps - m - 1)) % total = (from + steps) % total
<1> DEFINE next  == m + 1
           moved == (from + next) % total
           left  == steps - next
<1>1. next \in 0..total /\ left \in 0..total /\ steps \in 0..total
  OBVIOUS
<1>2. next + left = steps
  OBVIOUS
<1>3. (from + steps) % total = IF from + steps < total THEN from + steps ELSE from + steps - total
  BY <1>1, Wraps
<1> HIDE DEF next, left
<1>4. moved = IF from + next < total THEN from + next ELSE from + next - total
  BY <1>1, Wraps
<1>5. moved \in 0..(total - 1)
  BY <1>1, <1>4
<1> HIDE DEF moved
<1>6. (moved + left) % total = IF moved + left < total THEN moved + left ELSE moved + left - total
  BY <1>1, <1>5, Wraps
<1>7. (moved + left) % total = (from + steps) % total
  BY <1>1, <1>2, <1>3, <1>4, <1>6
<1>8. left = steps - m - 1 /\ from + next = from + m + 1
  BY DEF left, next
<1> QED BY <1>7, <1>8 DEF moved

\* The numbers of one turn.
LEMMA Shrinks ==
    ASSUME NEW b \in Nat \ {0}, NEW w \in Nat, NEW m \in Nat, NEW steps \in Nat, NEW top \in Int,
           steps + w * b <= top, m + 1 >= b
    PROVE  (steps - m - 1) + (w + 1) * b <= top
<1>1. (w + 1) * b = w * b + b
  OBVIOUS
<1>2. w * b \in Int
  OBVIOUS
<1> QED BY <1>1, <1>2

\* One pulse over an order of total places, from its cursor: where the cursor moves, and
\* what it leaves behind of the places that are stale.
Stales(order, from, old) ==
    {step \in 0..(Len(order) - 1) : order[((from + step) % Len(order)) + 1] \in old}

LEMMA CursorMoves ==
    ASSUME NEW order, Len(order) \in Nat \ {0}, NEW from \in 0..(Len(order) - 1), NEW old
    PROVE  LET picked == Prober!Picked(order, from, old)
               moved  == Prober!CursorAfter(order, from, picked)
           IN /\ moved \in 0..(Len(order) - 1)
              /\ \A place \in Stales(order, from, old) \ picked :
                    \E m \in 0..(Len(order) - 1) :
                       /\ m < place /\ m + 1 >= Prober!Batch(Len(order))
                       /\ moved = (from + m + 1) % Len(order)
<1> DEFINE total  == Len(order)
           stale  == Stales(order, from, old)
           batch  == Prober!Batch(total)
           picked == Prober!Picked(order, from, old)
           moved  == Prober!CursorAfter(order, from, picked)
           latest == CHOOSE s \in picked : \A t \in picked : t <= s
<1>1. batch \in Nat \ {0}
  BY BatchIs
<1>2. stale \subseteq 0..(total - 1)
  BY DEF Stales
<1>3. picked = {step \in stale : Cardinality({s \in stale : s < step}) < batch}
  <2>1. \A set : Prober!Cardinality(set) = Cardinality(set)
    BY Zenon DEF Prober!Cardinality, Cardinality
  <2>2. picked = {step \in stale : Prober!Cardinality({s \in stale : s < step}) < batch}
    BY DEF Prober!Picked, Stales
  <2> HIDE DEF picked, stale, batch
  <2> QED BY <2>1, <2>2
<1> HIDE DEF stale, batch, picked
<1>4. picked \subseteq 0..(total - 1)
  BY <1>2, <1>3
<1>5. moved = IF picked = {} THEN from ELSE (from + latest + 1) % total
  BY DEF Prober!CursorAfter
<1>6. picked # {} => latest \in picked /\ \A t \in picked : t <= latest
  <2> SUFFICES ASSUME picked # {}
               PROVE  \E s \in picked : \A t \in picked : t <= s
    OBVIOUS
  <2>1. total - 1 \in Nat
    OBVIOUS
  <2> QED BY <1>4, <2>1, Greatest
<1> HIDE DEF moved, latest
<1>7. moved \in 0..(total - 1)
  <2>1. CASE picked = {}
    BY <1>5, <2>1
  <2>2. CASE picked # {}
    <3>1. latest \in 0..(total - 1)
      BY <1>4, <1>6, <2>2
    <3>2. (from + latest + 1) % total \in 0..(total - 1)
      BY <3>1
    <3> QED BY <1>5, <2>2, <3>2
  <2> QED BY <2>1, <2>2
<1>8. ASSUME NEW place \in stale \ picked
      PROVE  \E m \in 0..(total - 1) :
                m < place /\ m + 1 >= batch /\ moved = (from + m + 1) % total
  <2>1. /\ picked # {}
        /\ \A t \in picked : t < place
        /\ \A m \in picked : (\A t \in picked : t <= m) => m + 1 >= batch
    BY <1>1, <1>2, <1>3, LeftOut
  <2>2. latest \in 0..(total - 1) /\ latest < place /\ latest + 1 >= batch
    BY <1>4, <1>6, <2>1
  <2> QED BY <1>5, <2>1, <2>2
<1> QED BY <1>7, <1>8 DEF stale, batch, picked, moved

LEMMA PulseSweeps ==
    ASSUME Swept, Prober!Pulse
    PROVE  Swept'
<1> DEFINE seen == [n \in Nodes |-> IF n \in group /\ recorded[n] # Prober!Never
                                    THEN Prober!Older(recorded[n])
                                    ELSE IF n \in Prober!Forgotten THEN Prober!Never
                                    ELSE Prober!Older(lastSeen[n])]
           tried == [n \in Nodes |-> IF n \in Prober!Forgotten THEN Prober!Never
                                     ELSE Prober!Older(lastAttempt[n])]
           old == {n \in group : seen[n] >= Stale /\ tried[n] >= Stale}
           From(order) == IF cursor >= Len(order) THEN 0 ELSE cursor
           Chosen(order) == IF order = <<>> THEN {} ELSE Prober!Picked(order, From(order), old)
           Probed(order) == {order[((From(order) + s) % Len(order)) + 1] : s \in Chosen(order)}
<1>1. PICK order \in Prober!Rotations :
         /\ names' = order
         /\ cursor' = Prober!CursorAfter(order, From(order), Chosen(order))
         /\ waiting' = [n \in Nodes |-> IF n \in old \ Probed(order) THEN waiting[n] + 1 ELSE 0]
         /\ group' = group
  BY Zenon DEF Prober!Pulse
<1>2. old \subseteq group
  OBVIOUS
<1> HIDE DEF old
<1> DEFINE total == Cardinality(group)
<1>3. Rotating /\ Approached
  BY DEF Swept
<1>4. /\ total \in Nat /\ order \in [1..total -> group] /\ Prober!Range(order) = group
      /\ \A i, j \in 1..total : order[i] = order[j] => i = j
      /\ \A i, j \in 1..total :
            i < j /\ order[j] \in Prober!Range(names) => Prober!Before(names, order[i], order[j])
  BY <1>3, RotationCovers DEF Rotating
<1> HIDE DEF total
<1>5. Len(order) = total
  BY <1>4
<1>6. group \subseteq Nodes /\ waiting \in [Nodes -> Nat] /\ cursor \in Nat
  BY <1>3 DEF Rotating
<1>7. waiting' \in [Nodes -> Nat]
  BY <1>1, <1>6
<1>8. /\ group' \subseteq Nodes
      /\ Len(names)' \in Nat /\ names' \in [1..Len(names') -> Nodes]
      /\ \A i, j \in 1..Len(names') : names'[i] = names'[j] => i = j
  BY <1>1, <1>4, <1>5, <1>6
<1>9. CASE total = 0
  <2>1. order = <<>>
    BY <1>4, <1>5, <1>9
  <2>2. cursor' = 0
    BY <1>1, <1>6, <2>1 DEF Prober!CursorAfter
  <2>3. group = {}
    BY <1>4, <1>9 DEF Prober!Range
  <2>4. \A n \in Nodes : waiting'[n] = 0
    BY <1>1, <1>2, <2>3
  <2> QED BY <1>7, <1>8, <2>2, <2>4 DEF Swept, Rotating, Approached, Places
<1>10. CASE total # 0
  <2>1. order # <<>> /\ Len(order) \in Nat \ {0}
    BY <1>4, <1>5, <1>10
  <2>2. From(order) \in 0..(Len(order) - 1)
    BY <1>6, <2>1
  <2> DEFINE from == From(order)
             picked == Prober!Picked(order, from, old)
             batch == Prober!Batch(total)
  <2>3. Chosen(order) = picked
    BY <2>1
  <2>4. cursor' = Prober!CursorAfter(order, from, picked)
    BY <1>1, <2>3
  <2>5. /\ cursor' \in 0..(total - 1)
        /\ \A place \in Stales(order, from, old) \ picked :
              \E m \in 0..(total - 1) :
                 m < place /\ m + 1 >= batch /\ cursor' = (from + m + 1) % total
    BY <1>5, <2>1, <2>2, <2>4, CursorMoves
  <2>6. Rotating'
    BY <1>1, <1>5, <1>7, <1>8, <2>5 DEF Rotating, Places
  <2>7. ASSUME NEW n \in Nodes, waiting'[n] # 0
        PROVE  /\ Prober!Range(names)' = group' /\ Len(names)' = Cardinality(group)'
               /\ \E steps \in 0..(Len(names)' - 1) : Within(n, steps)'
    <3>1. n \in old \ Probed(order) /\ waiting'[n] = waiting[n] + 1
      BY <1>1, <2>7
    <3>2. n \in group
      BY <1>2, <3>1
    <3>3. PICK place \in 1..total : order[place] = n
      BY <1>4, <3>2 DEF Prober!Range
    <3> HIDE DEF From
    <3>4. PICK steps \in 0..(total - 1) : ((from + steps) % total) + 1 = place
      BY <1>5, <2>1, <2>2, Reached
    <3>5. order[((from + steps) % Len(order)) + 1] = n
      BY <1>5, <3>3, <3>4
    <3>6. steps \in Stales(order, from, old) \ picked
      <4>1. steps \in Stales(order, from, old)
        BY <1>5, <3>1, <3>5 DEF Stales
      <4>2. steps \notin Chosen(order)
        BY <3>1, <3>5
      <4> QED BY <2>3, <4>1, <4>2
    <3> HIDE DEF picked, Probed, Chosen
    <3>7. PICK m \in 0..(total - 1) :
             m < steps /\ m + 1 >= batch /\ cursor' = (from + m + 1) % total
      BY <2>5, <3>6
    <3>8. steps + waiting[n] * batch <= total - 1
      <4>1. batch \in Nat
        BY <1>4, BatchIs
      <4> HIDE DEF batch
      <4>2. CASE waiting[n] = 0
        BY <4>1, <4>2
      <4>3. CASE waiting[n] # 0
        <5>1. Prober!Range(names) = group /\ Len(names) = total
          BY <1>3, <4>3 DEF Approached, total
        <5>2. names \in [1..total -> group]
          BY <1>3, <5>1 DEF Rotating, Places, Prober!Range
        <5>3. \A i, j \in 1..total : names[i] = names[j] => i = j
          BY <1>3, <5>1 DEF Rotating, Places
        <5>4. \A i, j \in 1..total : i < j => Prober!Before(names, order[i], order[j])
          BY <1>4, <5>1
        <5>5. order = names
          BY <1>4, <5>1, <5>2, <5>3, <5>4, RotationKept
        <5>6. cursor = from
          BY <1>3, <1>10, <5>1, <5>5 DEF Rotating, From
        <5>7. PICK before \in 0..(total - 1) : Within(n, before)
          BY <1>3, <4>3, <5>1 DEF Approached
        <5>8. order[((from + before) % total) + 1] = n
              /\ before + waiting[n] * batch <= total - 1
          BY <5>1, <5>5, <5>6, <5>7 DEF Within, At, batch
        <5>9. (from + before) % total = (from + steps) % total
          <6>1. ((from + before) % total) + 1 \in 1..total
            BY <1>5, <2>1, <2>2
          <6>2. ((from + before) % total) + 1 = place
            BY <1>4, <3>3, <5>8, <6>1
          <6>3. (from + before) % total \in Int /\ (from + steps) % total \in Int
            BY <1>5, <2>1, <2>2
          <6> QED BY <3>4, <6>2, <6>3
        <5>10. before = steps
          BY <1>5, <2>1, <2>2, <5>9, SamePlace
        <5> QED BY <5>8, <5>10
      <4> QED BY <4>2, <4>3
    <3> DEFINE left == steps - m - 1
    <3>9. left \in 0..(total - 1)
      BY <1>4, <3>4, <3>7
    <3>10. (cursor' + left) % total = (from + steps) % total
      BY <1>5, <2>1, <2>2, <3>7, Nearer
    <3>11. left + waiting'[n] * batch <= total - 1
      <4>1. batch \in Nat \ {0} /\ waiting[n] \in Nat
        BY <1>4, <1>6, BatchIs
      <4> HIDE DEF batch
      <4> QED BY <1>4, <3>1, <3>7, <3>8, <4>1, Shrinks
    <3> HIDE DEF left
    <3>12. Len(names)' = total /\ names' = order
      BY <1>1, <1>5
    <3>13. Within(n, left)'
      BY <1>5, <3>5, <3>10, <3>11, <3>12 DEF Within, At, batch
    <3>14. Prober!Range(names)' = group' /\ Len(names)' = Cardinality(group)'
      BY <1>1, <1>4, <3>12 DEF total, Prober!Range
    <3> QED BY <3>9, <3>12, <3>13, <3>14
  <2>8. Approached'
    BY <2>7 DEF Approached
  <2> QED BY <2>6, <2>8 DEF Swept
<1> QED BY <1>9, <1>10

LEMMA SweptAlone ==
    ASSUME Swept, UNCHANGED <<names, cursor, waiting, group>>
    PROVE  Swept'
<1>1. \A n, steps : Within(n, steps)' <=> Within(n, steps)
  BY DEF Within, At
<1>2. Rotating'
  BY DEF Swept, Rotating, Places
<1>3. Approached'
  BY <1>1 DEF Swept, Approached, Prober!Range
<1> QED BY <1>2, <1>3 DEF Swept

LEMMA ChangeSweeps ==
    ASSUME Swept, Prober!Reload \/ Prober!GroupChanges \/ Prober!Measured
    PROVE  Swept'
<1>1. CASE Prober!Reload \/ Prober!Measured
  <2>1. names' = names /\ cursor' = cursor /\ waiting' = waiting /\ group' = group
    BY <1>1 DEF Prober!Reload, Prober!Measured, Prober!Change
  <2> QED BY <2>1, SweptAlone
<1>2. CASE Prober!GroupChanges
  <2>1. names' = names /\ cursor' = cursor /\ waiting' = [n \in Nodes |-> 0] /\ group' \subseteq Nodes
    BY <1>2 DEF Prober!GroupChanges, Prober!Change
  <2>2. Rotating'
    BY <2>1 DEF Swept, Rotating, Places
  <2>3. Approached'
    BY <2>1 DEF Approached
  <2> QED BY <2>2, <2>3 DEF Swept
<1> QED BY <1>1, <1>2

LEMMA TurnSweeps ==
    ASSUME Swept, Prober!Next
    PROVE  Swept'
BY PulseSweeps, ChangeSweeps DEF Prober!Next

Turning == part = "prober" => Swept

LEMMA TurningInductive ==
    ASSUME Turning, [Next]_vars
    PROVE  Turning'
<1> SUFFICES ASSUME part' = "prober" PROVE Swept'
  BY DEF Turning
<1>1. CASE Next
  <2>1. part = "prober" /\ Swept
    BY <1>1 DEF Next, Turning
  <2>2. Prober!Next
    BY <1>1, <2>1 DEF Next
  <2> QED BY <2>1, <2>2, TurnSweeps
<1>2. CASE UNCHANGED vars
  <2>1. part = "prober" /\ Swept /\ UNCHANGED <<names, cursor, waiting, group>>
    BY <1>2 DEF vars, probeVars, Turning
  <2> QED BY <2>1, SweptAlone
<1> QED BY <1>1, <1>2

\* However many nodes the group has, whatever the engine measures or forgets and however
\* large a batch is, a node without a fresh delay is probed within one turn of the
\* rotation while the group stays as it is (prober.ts).
THEOREM RotationIsSwept == LiveSpec => []SweptInTime
<1>1. Init => Turning
  BY SweptInitially DEF Init, Turning
<1>2. Turning => SweptInTime
  BY SweptBounds DEF Turning, SweptInTime
<1> QED BY <1>1, <1>2, TurningInductive, PTL DEF LiveSpec

=============================================================================
