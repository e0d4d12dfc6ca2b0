----------------------------- MODULE MCStreams -----------------------------
(***************************************************************************)
(* The long-lived services of the panel, each on its own: the log stream,  *)
(* the live feed, the latency prober, the deployment of the managed rules  *)
(* and the recovery of an interrupted apply. A behaviour is a behaviour of *)
(* one of them, the part; the variables of the others are off. Variables   *)
(* of the same name are shared.                                            *)
(***************************************************************************)
EXTENDS Integers, Sequences, FiniteSets

CONSTANTS
    Capacity, BackoffMax, MaxLines, MaxGenerations, LogFaults, LogChannel,   \* Logs
    MaxVersion, FeedFaults, FeedChannel,                                     \* Feed
    Nodes, Stale, BatchLimit, Grace, ProberChanges,                          \* Prober
    Groups, NoGroup, Unknown, MaxOps, MaxRules, DeploymentChanges,           \* Deployment
    Data, Legacy, Secrets, NoAuth, FreshSecret, NoFile, NoJournal,
    NoRotation, NoCandidate, MaxEdits, ApplyFaults                           \* Apply

ASSUME LogAssumption == Capacity \in Nat /\ MaxGenerations \in Nat
ASSUME ProberAssumption ==
    /\ IsFiniteSet(Nodes)
    /\ Stale \in Nat \ {0} /\ BatchLimit \in Nat \ {0} /\ Grace \in Nat
\* No count of rules is the value that stands for none.
ASSUME UnknownAssumption == Unknown \notin Nat

VARIABLES
    part,
    ring, sequence, upstream, capture, pumps, link, view, lines,             \* Logs
    polls, health, everHealthy, lastView, handlers, outageSeen, stream, browser, \* Feed
    channel,                                                                 \* both
    faults,                                                                  \* and Apply
    group, recorded, alive, names, cursor, lastSeen, lastAttempt, lastInView,
    measured, waiting,                                                       \* Prober
    mode, settings, store, provisioned, expected, active, capability, ops,
    life, coordinator, recovery, first,                                      \* Deployment
    data, route, confirmed, rotation, journal, gwState, running, cred, outage, known,
    queue, att, file, up, pc, edits,                                         \* Apply
    changes,                                                                 \* Prober, Deployment
    engine                                                                   \* Feed, Deployment

logVars    == <<ring, sequence, upstream, capture, pumps, link, view, lines>>
feedVars   == <<polls, health, everHealthy, lastView, handlers, outageSeen, stream, browser>>
probeVars  == <<group, recorded, alive, names, cursor, lastSeen, lastAttempt, lastInView,
                measured, waiting>>
deployVars == <<mode, settings, store, provisioned, expected, active, capability, ops,
                life, coordinator, recovery, first>>
applyVars  == <<data, route, confirmed, rotation, journal, gwState, running, cred, outage,
                known, queue, att, file, up, pc, edits>>
vars == <<part, logVars, feedVars, channel, faults, probeVars, deployVars, applyVars, changes,
          engine>>

Logs == INSTANCE LogStream WITH MaxFaults <- LogFaults, MaxChannel <- LogChannel
Feed == INSTANCE LiveFeed WITH Polls <- {"first", "loop"}, Loop <- "loop",
            MaxFaults <- FeedFaults, MaxChannel <- FeedChannel
Prober == INSTANCE LatencyProber WITH MaxChanges <- ProberChanges
Deployment == INSTANCE DomainDeployment WITH MaxChanges <- DeploymentChanges
Apply == INSTANCE ConfigApply WITH MaxFaults <- ApplyFaults

LogsOff ==
    /\ ring = 0 /\ sequence = 0 /\ upstream = 0 /\ capture = 0 /\ pumps = 0 /\ link = 0
    /\ view = 0 /\ lines = 0
FeedOff ==
    /\ polls = 0 /\ health = 0 /\ everHealthy = 0 /\ lastView = 0 /\ handlers = 0
    /\ outageSeen = 0 /\ stream = 0 /\ browser = 0
ProberOff ==
    /\ group = 0 /\ recorded = 0 /\ alive = 0 /\ names = 0 /\ cursor = 0 /\ lastSeen = 0
    /\ lastAttempt = 0 /\ lastInView = 0 /\ measured = 0 /\ waiting = 0
DeploymentOff ==
    /\ mode = 0 /\ settings = 0 /\ store = 0 /\ provisioned = 0 /\ expected = 0
    /\ active = 0 /\ capability = 0 /\ ops = 0 /\ life = 0 /\ coordinator = 0
    /\ recovery = 0 /\ first = 0
ApplyOff ==
    /\ data = 0 /\ route = 0 /\ confirmed = 0 /\ rotation = 0 /\ journal = 0 /\ gwState = 0
    /\ running = 0 /\ cred = 0 /\ outage = 0 /\ known = 0 /\ queue = 0 /\ att = 0
    /\ file = 0 /\ up = 0 /\ pc = 0 /\ edits = 0

Init ==
    \/ /\ part = "logs" /\ Logs!Init
       /\ FeedOff /\ ProberOff /\ DeploymentOff /\ ApplyOff /\ changes = 0 /\ engine = 0
    \/ /\ part = "feed" /\ Feed!Init
       /\ LogsOff /\ ProberOff /\ DeploymentOff /\ ApplyOff /\ changes = 0
    \/ /\ part = "prober" /\ Prober!Init
       /\ LogsOff /\ FeedOff /\ DeploymentOff /\ ApplyOff
       /\ channel = 0 /\ faults = 0 /\ engine = 0
    \/ /\ part = "deployment" /\ Deployment!Init
       /\ LogsOff /\ FeedOff /\ ProberOff /\ ApplyOff /\ channel = 0 /\ faults = 0
    \/ /\ part = "apply" /\ Apply!Init
       /\ LogsOff /\ FeedOff /\ ProberOff /\ DeploymentOff
       /\ channel = 0 /\ changes = 0 /\ engine = 0

Next ==
    /\ part' = part
    /\ \/ /\ part = "logs" /\ Logs!Next
          /\ UNCHANGED <<feedVars, probeVars, deployVars, applyVars, changes, engine>>
       \/ /\ part = "feed" /\ Feed!Next
          /\ UNCHANGED <<logVars, probeVars, deployVars, applyVars, changes>>
       \/ /\ part = "prober" /\ Prober!Next
          /\ UNCHANGED <<logVars, feedVars, channel, faults, deployVars, applyVars, engine>>
       \/ /\ part = "deployment" /\ Deployment!Next
          /\ UNCHANGED <<logVars, feedVars, channel, faults, probeVars, applyVars>>
       \/ /\ part = "apply" /\ Apply!Next
          /\ UNCHANGED <<logVars, feedVars, channel, probeVars, deployVars, changes, engine>>

\* The fairness of each component, while it is the part.
logStep    == <<logVars, channel, faults>>
feedStep   == <<feedVars, channel, faults, engine>>
deployStep == <<deployVars, changes, engine>>
applyStep  == <<applyVars, faults>>
LogsFair ==
    /\ WF_logStep(part = "logs" /\ Logs!Screen)
    /\ \A g \in Logs!Generations : WF_logStep(part = "logs" /\ Logs!Pump(g))
FeedFair ==
    /\ \A p \in {"first", "loop"} : WF_feedStep(part = "feed" /\ Feed!Poll(p))
    /\ WF_feedStep(part = "feed" /\ Feed!RunHandler)
    /\ WF_feedStep(part = "feed" /\ Feed!Stream)
    /\ WF_feedStep(part = "feed" /\ Feed!EngineStarts)
DeploymentFair ==
    /\ WF_deployStep(part = "deployment" /\ Deployment!Steps)
    /\ WF_deployStep(part = "deployment" /\ Deployment!FirstConnect)
    /\ WF_deployStep(part = "deployment" /\ Deployment!FirstRuntime)

ApplyFair ==
    /\ WF_applyStep(part = "apply" /\ Apply!Boot)
    /\ WF_applyStep(part = "apply" /\ Apply!Reconnect)
    /\ WF_applyStep(part = "apply" /\ Apply!Progress)

LiveSpec == Init /\ [][Next]_vars /\ LogsFair /\ FeedFair /\ DeploymentFair /\ ApplyFair

-----------------------------------------------------------------------------
(* Every value of the services keeps its type.                               *)
TypeOK ==
    /\ part = "logs" => Logs!TypeOK
    /\ part = "feed" => Feed!TypeOK
    /\ part = "prober" => Prober!TypeOK
    /\ part = "deployment" => Deployment!TypeOK
    /\ part = "apply" => Apply!TypeOK

(* Once what is on its way is delivered, the log screen shows the ring, and  *)
(* the status it shows is that of the one capture that may write.            *)
LogScreenAgrees == part = "logs" => Logs!ViewAgrees /\ Logs!StatusTrue

(* While the group stays as it is, a node without a fresh delay is probed    *)
(* within one turn of the rotation, whatever the engine measures or forgets. *)
SweptInTime == part = "prober" => Prober!SweptInTime

(* The provider is only called active, the capability only offered and       *)
(* collection only run over what the engine was proved to have loaded,       *)
(* whatever overtakes a proof while it is made.                              *)
DeploymentProved ==
    part = "deployment" =>
       Deployment!ActiveIsLive /\ Deployment!CapabilityProved /\ Deployment!RunsOnlyVerified

(* What a paused screen shows, the view the hub keeps and the delay a node   *)
(* is remembered by are never replaced by something older or blank.          *)
NothingRewinds ==
    [][/\ part = "logs" => (view.paused /\ view'.paused =>
             \/ Logs!Visible' = Logs!Visible
             \/ Logs!Visible' = {} /\ view'.unseen = 0)
       /\ part = "feed" => lastView' >= lastView
       /\ part = "prober" => \A n \in measured : n \notin measured' => lastInView[n] >= Grace]_vars

(* After the last fault the log stream is live again and its screen shows    *)
(* the ring; the browser shows what the engine is, although what the hub     *)
(* sends between a replay and its listener is lost. An outage a poll saw is  *)
(* always followed by a handler that reconciles the engine, and a failed     *)
(* boot of the deployment is repaired by the first connection: collection    *)
(* runs when the settings ask for it. An apply cut short by the end of the   *)
(* process, or by an outage of the engine, ends with an engine and a file    *)
(* that have what the database says.                                         *)
StreamsConverge ==
    /\ <>[](/\ part = "logs" => Logs!Settled
            /\ part = "feed" => Feed!Converged)
    /\ (part = "feed" /\ outageSeen) ~> (part = "feed" => ~outageSeen)
    /\ (part = "deployment" /\ first = "no") ~> (part = "deployment" => Deployment!Resumed)
    /\ (part = "apply" /\ faults = ApplyFaults /\ (~up \/ outage)) ~> (part = "apply" => Apply!Converged)
=============================================================================
