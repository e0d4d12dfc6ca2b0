# Formal models of submerge

submerge is a control plane for the mihomo proxy engine: a Node server with an
SQLite database, one `config.yaml` it generates, one local domain rule file it
owns, and an engine it drives over HTTP. Its hard part is not any of these but
their agreement: the database, two files and a separate process change one at a
time, each of them can fail or restart alone, and the server must be able to say
at any moment which of them is right.

These modules model that agreement in TLA+. TLC checks them on small instances,
TLAPS proves the theorems listed below for every instance.

    tlc -workers 2 -config ConfigApply.cfg MCConfigApply
    tlapm ConfigApplyProofs.tla

All paths below are under `packages/server/src/` unless they say otherwise.

## 1. Inventory

Each component, the state it keeps (**S**), its operations (**O**), what makes it
hard (**H**) and what makes it correct (**C**).

### Configuration apply (`modules/nodes/service.ts`, `modules/nodes/config-apply-journal.ts`)
- **S** `config.yaml`, `config.yaml.pending`, the journal in the settings table
  (`state`, `accepted` identity, `candidate` identity), the rows the text is
  generated from, the process-local queue of applies.
- **O** `applyConfig` / `applyConfigNow` (serialized), the staged mutation and its
  undo, generate, record, reload, verify, replace, finish, roll back;
  `reapplyPendingConfig` at boot and reconnection.
- **H** four stores (rows, secret, file, engine) changed in sequence; a crash
  between any two; a reload whose reply is lost; edits while the engine reloads;
  an engine that restarts on the accepted file.
- **C** the journal proves the file at every instant; a completed journal means
  the engine runs what the rows say; an accepted edit is never undone; an
  interrupted apply is finished by the next start or reconnection.

### Engine secret rotation (`modules/settings/secret-rotation.ts`, `modules/settings/router.ts`)
- **S** the desired secret, the pending rotation record, the candidates the
  client tries (`clients/mihomo.ts`).
- **O** begin, probe, prepare, confirm, roll back, finalise at bootstrap.
- **H** the engine answers to the old or the new secret depending on which file
  it loaded, and only a probe can tell. **C** the server always knows one secret
  the engine accepts.

### Bootstrap and gateway (`index.ts`, `network-bootstrap.ts`, `modules/gateway/`)
- **S** network profile and preferences, the runtime report of the network helper.
- **O** `bootstrapNetwork` (prove the file, choose the route, wait for the TUN
  device), `configureGateway`, readiness checks.
- **H** the bootstrap must decide from the journal alone, before the engine runs;
  `configureGateway` makes two applies and a rollback of the settings, which it reads
  before its change has its turn in the queue.
- **C** it is never asked to trust a file nobody recorded; a refused mode change
  leaves the previous settings in force; what is called ready is.

### Domain rule publishing (`modules/domain-intelligence/apply-*.ts`, `candidate-apply.ts`, `rule-store.ts`, `activation.ts`)
- **S** `custom.txt` with its lock and temporary file; `domain_rule_operations`,
  `domain_rule_ownership`; the worker (`state`, `tail`, `wakeRequested`,
  `drainScheduled`, `admissionEpoch`).
- **O** submit, prepare, attest, preflight, commit, finalize, activate, complete,
  abort, fence; start, wake, drain, suspend, fail, stop.
- **H** the file is outside the database, so that a write and its record cannot be
  one step; the authorization is read long before the write; wakes, drains and
  recovery interleave; the directory may be edited by another program.
- **C** one unfinished operation at a time; no write without a current
  authorization; no foreign edit overwritten; a crash never asks for a manual
  reconciliation of its own making.

### Domain candidates and validation (`modules/domain-intelligence/service.ts`, `scheduler.ts`, `executor.ts`, `production.ts`)
- **S** `domain_candidates`, `domain_validation_runs`, `domain_validation_attempts`,
  `domain_decisions`; the scheduler's circuit breaker and rate limiter.
- **O** reject, restore, select scope, recheck, settings; claim, renew, complete,
  fail, recover expired leases; retention; the overview and the report.
- **H** a lease outlives the process that took it; review mutations take their turn
  behind the worker, the scheduler does not; the due list is worked through while
  settings change. **C** a validated candidate never has an unfinished operation; a
  verdict never answers for an older proposal; limits hold across restarts; retention
  takes nothing a validation still stands on.

### Domain rule deployment (`deployment-controller.ts`, `deployment-lifecycle.ts`, `deployment-production.ts`, `provisioning.ts`)
- **S** capability, health generations, the digest marker, the provisioned file.
- **O** initialize, reconcile, provision, verify, disable, the lifecycle gate.
- **H** a proof of health may complete after the configuration it proved was
  replaced; the file is written before its digest is recorded. **C** the capability
  is only offered for the current file and configuration.

### Domain intelligence runtime (`runtime.ts`, `instance.ts`, `observer.ts`)
- **S** generation, running flag, bounded observation queue, recent log
  observations, daily counts. **O** start, stop, refresh, enqueue, drain, pulse,
  reconcile, prune. **H** a stop during an asynchronous start; a connection seen by
  the log and by the snapshots, late, twice, over midnight; a full queue.
- **C** nothing runs over what was not proved; a connection is counted once.

### Domain evidence (`coverage.ts`, `decision.ts`, `probe.ts`, `resolver.ts`, `geosite.ts`, `executor.ts`)
- **S** the files of the engine while they are read; sockets, timers and the route
  proof of a probe; the attempts of the window. **O** snapshot, verdict, probe,
  decide. **H** files are replaced while they are read; the deadline, the timer of a
  hop and the proof of its route race one another; evidence at the edge of the window.
- **C** a domain is only decided on as uncovered when no rule of a channel other than
  Default covers it; a destination
  is only blamed for what it was given the time to do.

### Channel control (`modules/channels/controller.ts`, `registry.ts`, `service.ts`, `router.ts`)
- **S** channel rows and pools; per channel a `ChannelController` (`failures`,
  `heldSince`, `lastCheck`, `lastClearedFixed`, smoothed scores), the box with the
  row it reads, the registry that creates and prunes controllers.
- **O** `runOnce` on every poll, `tick` for each policy (speed, optimal, sticky,
  manual), `reset`, `setPolicy`; creation, removal, disabling, ordering of channels.
- **H** a run reads the rows and the engine's groups once and then awaits the engine
  several times per channel; a policy may be set, a channel removed or a second
  poll begin in between; the engine remembers selections across reloads.
- **C** the channel converges to what its last policy says; a node is not left
  without the misses its policy asks for; a dead node is left.

### Sources (`modules/sources/refresh.ts`, `scheduler.ts`, `service.ts`)
- **S** source rows (snapshot, enabled, next attempt, failures); the coordinator's
  `inFlight` map and `tail`; the scheduler's pulse, timer and generation.
- **O** add, toggle, delete, reorder; refresh by hand, by enabling, by schedule;
  start and stop of the scheduler; ingest (`ingest.ts`, `parse.ts`).
- **H** a refresh awaits the network and an apply, and then writes a row that may
  have been disabled or deleted; requests for one source are joined; a pulse works
  through a list made before its awaits.
- **C** one refresh at a time and none twice for joined requests; a request of the
  administrator is carried out; a source in use gets what its provider serves; a
  shutdown is not held up.

### Live hub, prober, log hub (`live/`, `modules/logs/`)
- **S** subscribers, poll loop, connection flags, probe cursor; ring of log events; the state of
  the browser's stores. **O** subscribe, poll, pulse, stop; snapshot then live. **H** stop and
  start during a poll; a snapshot taken while events arrive. **C** one poll chain; a reader sees
  every event once, in order.

### Configuration generation (`modules/channels/service.ts`, `pool.ts`, `modules/nodes/multiConfig.ts`)
- **S** channels with matchers, order and pools; nodes of the sources.
- **O** create, update, delete, reorder, pool, exclusion; generate.
- **H** names of nodes, groups, collapsed groups and renamed nodes share one
  namespace. **C** the engine can load the file; traffic goes to the first proxy
  channel that claims it, and to Direct where no proxy channel does.

### Diagnostics (`modules/diagnostics/`)
- **S** the run in flight, the kept answer, the revision of the applies. **H** an answer
  is put together over many awaits while configurations are applied. **C** the route it
  names is the one the traffic takes when it is named.

### Happ decoder (`happ-decoder/`, `clients/happDecoder.ts`)
- **S** a lock, a result file and a flag file that all decodes share. **H** a client gives
  up while its decode waits or runs. **C** an answer belongs to the caller's link.

### The rest
Authentication (`auth/`), the list of connections (read-only), environment (`config/`),
database driver and migrations (`db/`), tRPC, static files, the shared schemas
(`packages/shared`), the web application (`packages/web`) and the engine itself.

### How they interact
The web calls tRPC mutations; a mutation edits rows and calls the apply, or takes
its turn on the worker's tail. The apply, the worker's activation and the
deployment controller share one serialized coordinator towards the engine. The
live hub polls the engine, and its reconnection callback wakes the apply and the
worker. The observer feeds the candidates, the scheduler validates them, an
administrator's confirmation turns one into an operation of the worker.

## 2. Modules

| module | models | checked by | proved in |
|---|---|---|---|
| `AgreedConfig` | what the apply promises the rest of the panel | `apply` | `ConfigApplyProofs` |
| `ConfigApply` | apply, journal, secret rotation, bootstrap recovery, engine | `apply`, `streams` | `ConfigApplyProofs` |
| `DomainRuleOps` | rule operations, worker, rule file and its marker, candidates and leases | `rules`, `recovery` | `DomainRuleOpsProofs` |
| `DomainDeployment` | deployment controller, lifecycle, coordinator, proof of the provider | `streams` | `DomainDeploymentProofs`, `MCStreamsProofs` |
| `DomainValidation` | validation scheduler, claims, leases, circuit and rate | `panel` | `MCPanelProofs` |
| `DomainObservations` | observer queue, snapshots, daily counts, drift | `panel` | |
| `HttpsProbe` | one probe: resolvers, hops, timers, route proof | `panel` | `MCPanelProofs` |
| `DomainCoverage` | coverage verdict over rule files that are replaced | `panel` | `MCPanelProofs` |
| `DomainEvidence` | the evidence chains and the decision | `panel` | |
| `DomainReport` | retention, overview, listing | `panel` | `MCPanelProofs` (the retention) |
| `ChannelControl` | channel controllers, the registry's runs, the engine's groups | `channels` | `MCChannelsProofs` |
| `SourceRefresh` | refresh coordinator, scheduler, toggles, boot and shutdown | `sources` | `SourceRefreshProofs` |
| `SourceIntake` | what a pasted value becomes, additions and refreshes that overlap | `setup` | `MCSetupProofs` |
| `HappDecoder` | decodes, their client, the two shared files, the proxy | `setup` | `MCSetupProofs` |
| `RoutingConfig` | channels and pools, and the configuration generated from them | `setup` | |
| `GatewayMode` | changes of the connection mode over the queue of applies | `setup` | `MCSetupProofs` |
| `GatewayReadiness` | the readiness checks and the activation checks | `setup` | |
| `Diagnostics` | runs of the diagnosis, the kept answer, the attribution of routes | `setup` | `MCSetupProofs` |
| `LiveFeed` | polls, reconnect handlers, the stream to the browser | `streams` | `MCStreamsProofs` |
| `LatencyProber` | the rotation of the gap-filling probes | `streams` | `MCStreamsProofs` |
| `LogStream` | capture of the engine's log, ring, replay, log screen | `streams` | `MCStreamsProofs` |

`MCConfigApply`, `MCDomainRuleOps`, `MCChannelControl` and `MCSourceRefresh` give the
constants of one module their small values. `MCChannels` runs `ChannelControl` in three
situations; `MCStreams`, `MCPanel` and `MCSetup` each host several modules
that share no state. Their variable `part` says which one a behaviour is of; the variables
of the others are then 0, and every property begins with `part = ...`. One run so answers
for several modules without the product of their states. Where one module calls another it
has the other's promise in place of its steps: an apply is one step that succeeds or fails
for all but `ConfigApply` and `GatewayMode`, and `AgreedConfig` is what that step may be
taken for.

A definition named *mutant* in a comment is not used by the specification. It is a
plausible mistake in the definition below it, kept so that each property can be seen
to fail when the code it is about is wrong (`PROJECT.json`, "mutants").

### AgreedConfig

Four variables: what the settings want, the accepted file, what the engine runs, and
whether a change is open. A change may be closed only when the three agree. In
`ConfigApply` they are `Desired` (what generating from the rows would give), `file`,
`running` and `~AtRest`: no apply queued or at work, no journal left open, no engine
that came back unnoticed, and a process to do the work.

### ConfigApply

A step ends where the code awaits or has just made one durable write, so that a crash
of the server or a restart of the engine falls between any two of them.

| variable | code |
|---|---|
| `data`, `route`, `confirmed` | the rows a configuration is generated from, and the stored secret |
| `rotation` | `internal.mihomoSecretRotation` |
| `journal` | `internal.configApply`: accepted and candidate identity |
| `gwState` | `internal.gatewayApplyState`; "basic" when no connection settings exist |
| `file` | `config.yaml` |
| `running`, `cred` | what the engine runs, and the credential it accepts |
| `known` | the candidates of the server's client (`clients/mihomo.ts`) |
| `queue`, `pc`, `att` | the apply queue, and the attempt of `applyConfigSerialized` |

`BeginApply` to `Finish` are `applyConfigSerialized` from await to await; `Fail`,
`RestoreFile`, `RestoreEngine` and `Undo` its catch block, in the code's order.
`Bootstrap` is `network-bootstrap.ts`, `Boot` the start of `index.ts`, `Reconnect` the
hook of the live hub.

Abstractions. A generated file is the record of what it was generated from, so SHA-256
is taken to be injective. `config.yaml.pending` is not modelled: it is rewritten before
every use. Journal and rotation ids are left out. The engine answers or drops a request
before the next one. The live loop notices every engine restart, which is kinder than the
code: it cannot notice one that falls between two polls. Handlers run only
where the code awaits. Database writes do not fail during an apply. The switch between
gateway and plain mode is in `GatewayMode`. A blank secret that is reset is given as the
concrete one it resolves to.

### DomainRuleOps

| variable | code |
|---|---|
| `file`, `litter` | `custom.txt`; the lock or temporary file an interrupted writer left |
| `marker` | `internal.domainRuleStore.v1`, the digest of the content last attested |
| `op`, `order`, `owned` | `domain_rule_operations`, `domain_rule_ownership` |
| `cand`, `review` | `domain_candidates` with their leases; the review settings |
| `ws`, `woken`, `draining`, `tail` | `DomainRuleApplyWorker`: its state, flags and promise tail |
| `pc`, `task`, `cur`, `rest`, `intent`, `proved` | the running task and its operation |

`Worker` is the union of the steps of `runSubmission`, the recovery pass and
`executeDomainRuleOperation` (preflight, veto, commit, finalize, begin, prove, activate,
prove); `Review` the mutations of `service.ts`; `Validation` the claims and ends of
validation runs; `Environment` crashes, outside edits, stale locks and `Provision`, the
part of the deployment that accepts the file it finds and records its digest.

Abstractions. The deployment is in apply mode for the whole behaviour. Only manual-add
is submitted, because no caller in the repository submits another action. Capability,
observation, coverage and evidence problems are one bounded failure each. Revisions and
digests are the set of rules of the file. The filter policy, the rate limit, the circuit
breaker and the attempt counter are left out. A review mutation acts between two tasks,
which is where the tail lets it. Preparing is a step apart from the choice of the rule,
which allows a few more orders of microtasks than the code has. The graceful stop of
the worker is not modelled.

### ChannelControl

| variable | code |
|---|---|
| `row` | the policy of each channel; none when removed or disabled |
| `group` | the engine's groups: type, current node, pin, stored selection |
| `ctl` | `ControllerRegistry.controllers` with the private fields of each |
| `job` | a run of `runOnce`: its rows, its view, the tick in flight, the controller it holds |
| `session`, `streak`, `misses` | history for the properties; no step reads them |

`Poll(p)` is one step of a run between two awaits: `Fetch`, then for each channel the
tick of its policy (`TickSpeed`, `TickManual`, `TickOptimal`, `TickSticky`), its probes,
picks and selections. There are two pollers when the first poll of `LiveHub.start`
overlaps the loop it arms. A controller the registry pruned or reset during a tick stays
in the run that holds it, as the object does in the code.

Abstractions. Time is whether an interval or a hold window has passed; latencies are
which nodes answer, and the order of preference among them is open, which covers the
smoothed scores, the tolerances and the bandwidth criterion. Misses are counted up to
the threshold. The decision log and the recorded reason decide nothing. How mihomo keeps
selections across reloads (`store-selected`) is external, taken from how the code relies
on it. Channels of a run are ticked in any order.

### SourceRefresh

| variable | code |
|---|---|
| `row` | the `sources` rows: enabled, next attempt, failures, snapshot |
| `inFlight`, `queue` | `SourceRefreshCoordinator.inFlight`, `tail` |
| `run` | the refresh at the head: `SourceRefreshCoordinator.run` and `refreshSource` |
| `asked`, `enabling` | open requests of the administrator, those of `toggleSource` that wait |
| `sched` | the pulse of `SourceRefreshScheduler`: what is left of its list, what it awaits |

`StartRun`, `Fetch` and `FinishApply` are the parts of a refresh between awaits. When it
settles, the continuations that were waiting run in the same step: the entry leaves the
map, `toggleSource` inverts the row, the pulse goes to its next source (`Settle`,
`Toggled`, `Advance`). In the code they are microtasks of one turn.

Abstractions. Every source is one that can be refreshed; the others never reach the
coordinator's network path. A next attempt is absent, later or due; a snapshot is what the
provider serves now or not; the list of a pulse is worked through in any order; the
failure count stops where the backoff does. Ids are not reused (AUTOINCREMENT). Additions
and the order of the list are in `SourceIntake`.

### DomainDeployment

| variable | code |
|---|---|
| `mode`, `settings`, `store` | `DOMAIN_RULES_MODE`; the saved settings; the rules in the file, whether a marker says it was ever initialised, a write in progress |
| `engine` | the number of rules it loaded and the group they are routed to |
| `provisioned`, `expected`, `active`, `capability` | the fields of the deployment controller and of the capability source |
| `life`, `coordinator`, `recovery`, `first` | the lifecycle of the runtime, the coordinator, the deployment lifecycle, the handler of the first connection |
| `ops` | the tail of the coordinator: each transition with the generations and epochs it reserved, kept as "still current" |

`Call...` are the synchronous parts of a call (collection is suspended and what was proved
is withdrawn), `Begin...` to `Prove` the transition at its turn. An apply carries the target
group and the number of rules; that is all `verifyManagedDomainRuleActivation` can tell
apart. The worker appears as `WriteRule` and `CallActivate`.

### DomainValidation

`candidates`, `runs` are rows; `scheduler`, `active`, `jobs` the scheduler, the run of its due
list with its workers, and the executions. One action per continuation: `RunBegins`, `Take`
(claim), `Decides`, `Throws`, `GivesUp` (the two timeouts), `Settles`, `Leaves`, `RunEnds`,
`Maintains`. `Crash` loses the process and keeps the rows. A time in the future is the time
left, one in the past its age. The jitter is left out; the clock does not go back.

### DomainObservations

`conns` is when a connection was opened and what became of its log line; `pending`, `recent`,
`pulse`, `fetch`, `health` are the collector; `rows`, `daily`, `candidate` the database.
`LogArrives`, `Drain`, `BeginPulse` to `PulseIsStale` and `Prune` are the calls between two
awaits. One domain over one transport; others only share the capacities, which are bounds.

### HttpsProbe, DomainCoverage, DomainEvidence

One validation, in its three halves. `HttpsProbe` is one probe: `ResolversAnswer` and their
quorum, then for each hop the tunnel (`Prepare`, `Tunnelled`), the route proof over the
connections of the engine (`ProofPasses`), `Connected`, `Secured`, `Responds`, `Redirected`;
every timer and abort may come at any of them, and `OtherTunnel`, `TunnelCloses`, `Reload` are
other users of the engine. `DomainCoverage` is the snapshot of the rule files before the
probes and its check after them; a file is its content and an identity that every change
renews, so that it can be opened in one state and read in another. Of the lists the engine has
rules of (`Emitted`) it passes over those that only the Default channel has (`PassedOver`), as
the code does: the property excepts them by name (Findings). `DomainEvidence` is the
window of attempt pairs and `decision.ts` over it; its property says the same of sets that
the code computes by chains.

Abstractions. A rule covers the domain or is silent; a response is what is decided on it; the
scopes of `model.ts` are three origins. A response of the engine shows it as it is then.

### DomainReport

The tables as records, `RunMaintenance` with `recoverExpired...` and `pruneDomainIntelligence`,
and the two reports as operators: `Overview` counts, `Paginated` lists page by page.
A domain is a number in the order of the names.

### RoutingConfig

`channels`, `pools`, `held`, `denied`, `settings` are rows; each operation of
`channels/service.ts` is an action. `Document` is the configuration as a pure function: nodes
with unique names, groups, rules in order, providers. A name is the sequence of its pieces, so
that a node may be called as a group is. A matcher is the kinds of traffic it matches, and `Due`
says of every pair of kinds where it has to go: presets of Direct and, of a gateway, its
networks and exact exceptions; the lists of Default; the managed rules; the proxy channels in
the order the administrator gave (`order`, kept beside the rows); the rest of Direct; the route
of Default. `Routed` compares it with the first rule of the file that matches. The network block
and the tuning of groups are left out.

### GatewayMode, GatewayReadiness

`GatewayMode` has the requests of `configureGateway` (`calls`) over the queue of applies
(`queue`, `job`): `Takes`, `Stages`, `Checks`, `Reloads`, `VerifiesRuntime`,
`VerifiesListener`, `Commits`, each of which may fail, after which `Restores` makes the second
apply; `Crash`, `Redeploy` and `SiteChanges` come at any await. `GatewayReadiness` evaluates
the checks of `readiness.ts` over every engine and host of a small site, one step each.

### SourceIntake, HappDecoder

`SourceIntake` is `detectKind`, the parsers reduced to which entries become nodes, and the
calls (`AddSource`, `Decoded`, `Fetched`, `StoreNew`, `StoreRefreshed`, `Apply`), which overlap
at every await. `HappDecoder` is the HTTP server, the script it runs and the proxy it captures
with: `Lock` to `Reply` are the steps of a decode, `Request` and `Response` those of the proxy,
`GivesUp` the client. External: the proxy drops the requests of a killed Happ before the next
decode removes the result file.

### Diagnostics

`saved`, `engine`, `apply` are the database, the engine and the revision the apply counts;
`run` and `cache` the run in flight and the kept answer. `View`, `Rules`, `Jobs`, `Finish` are
the parts of `executeDiagnostics` between awaits. A save and the start of its apply are one
step. `known` is history: nothing has happened that a run cannot know of.

### LiveFeed, LatencyProber, LogStream

`LiveFeed` follows a version of the engine's state through the poll, the hub, the subscription
and the browser's store (`web/features/live/useLive.ts`), with the handlers the hub starts.
`LatencyProber` has one step per pulse, which digests the snapshot and probes the next batch;
`waiting` is history, how many pulses a node without a fresh delay has been passed over, and
begins again when the group changes. `LogStream` has the capture generations of the hub
(`Opened`, `Frame`, `StreamEnds`, `Retry`), the ring, one subscription with the messages on
their way and the reducer of the log screen (`web/features/logs/store.ts`).

## 3. Runs

| run | instance | distinct states | shows |
|---|---|---|---|
| `apply` | 2 data and a legacy layout, 3 secrets, with and without the gateway, 2 edits, 2 faults | 2.5 million | settings, file and engine part only while a change is open; the file is provable, the credential kept, no accepted file lost |
| `recovery` | 2 operations of 1 candidate, 2 mutations, another writer in the directory, 2 faults, fairness | 491,774 | a restart finishes an interrupted rule operation; foreign edits are kept |
| `rules` | 2 operations, 2 candidates, 3 rules, 1 review mutation, 2 faults | 1,968,890 | one operation at a time, authorized writes, no manual reconciliation of its own making |
| `rules_stranded` | 1 mutation, 1 fault, fairness | | *violated*: see Findings |
| `channels` | loop: 1 channel, 5 policies, 3 faults; overlap: 2 polls; pair: a pinned channel and one that is removed and comes back; 2 nodes, fairness | 929,314 | failovers are earned; convergence under each policy, whatever overlaps, fails or is removed |
| `channel_leak` | 1 channel, 2 policies, 1 edit, 2 faults | | *violated*: see Findings |
| `sources` | 2 sources, 3 edits, 2 faults, fairness | 240 thousand | single flight, no request skipped or unanswered, freshness, the end of a shutdown |
| `sources_backoff`, `sources_enable` | 2 sources, 2 edits, 1 fault | | *violated*: see Findings |
| `streams` | log: ring of 1, 2 lines, 2 captures; feed: 2 polls, 2 versions, 2 faults; prober: 3 nodes; deployment: 3 transitions, 2 changes; apply: 2 data, 3 secrets, 1 edit, 2 faults; fairness | 481,220 | the screens agree with the hubs, every node of a group that stays is probed within one turn, only what was proved is offered, a restart or a reconnection finishes an interrupted apply |
| `panel` | validation: 2 domains, 1 worker, a threshold of 2; observations: 2 connections, 2 days; probe: 3 addresses, 2 resolvers, 1 redirect; coverage: 2 providers; evidence: 4 attempts; records: 1 domain, 2 runs, days 0 to 3; reports: 3 domains | 2,433,917 | limits hold over crashes, connections are counted once, destinations are blamed fairly, decisions are grounded, what is interrupted is ended, retention is exact and the reports agree |
| `setup` | config: 3 operations over 2 inventories of clashing names; intake: 2 calls over 5 pairs of values; decoder: 3 calls; mode: 2 requests, 2 faults; readiness: every nesting of 2 groups; diagnosis: 4 routings, 1 save | 2.96 million | the generated file is sound, a subscription is one source, the mode is what was acknowledged, what the pages say is so |

Why these bounds are enough. The `MaxEdits`, `MaxChanges` and `MaxFaults` bound how many
times the environment acts; between its actions the system runs to any of its await points.
Two applies and two faults give every pair of faults at every pair of steps, also a fault
during the recovery from another; the interrupted apply, the one queued behind it and
the replay of the next process are then in one behaviour. Two operations are enough for
one to be queued, deferred or unfinished while another is prepared; two candidates with
a rule in common, for an operation whose rule is already there. Two nodes are the node
in use and an alternative; a threshold of two tells consecutive misses from a sum. Two
sources are the one a pulse waits for and the one left in its list; two requests to
enable are the case the toggles disagree about. The pair of channels has the two edits
that remove a channel and bring it back, at any step of a run, and one fault.

In the hosts: two captures of the log are the one stopped and the one that writes, and a ring of
one event is full at the first; two polls are those that overlap at the start; three nodes and a
batch of one make a rotation that a change can cut in front of, at or behind its cursor; three
transitions are the one at work, one that overtakes it and one queued behind. Two domains
compete for one worker, and two failures open the circuit. Two connections can share a bucket, a
day or neither. Three addresses are two of one family and one of another, and one redirect gives
a hop whose tunnel must not be taken for the first. Two providers with a limit of one leave one
unread; Default has no list or all of them, so that some are only its own. Four attempts exceed
what a decision needs by two, so that the spaced and diverse chain need not be the latest. The
four days of the records let the retention of two pass once, with evidence, a lease or a run on
either side of it. Three operations on the channels create, change and reorder; the two
inventories were chosen for names that clash with a group, with a member of a collapsed group
and with a renamed node. Two calls overlap at every await of an addition; two requests to change
the mode are the case in which one reads what the other has staged.

`MaxQueue` (2) bounds the worker's tail, `MaxOps` (3) that of the coordinator, `MaxFailures` and
`Threshold` the counters that decide nothing beyond them, `LogChannel` and `FeedChannel` the
messages on their way to a browser; `MaxAsked`, `MaxTunnels`, `RecordRuns`, `RecordTime`,
`MaxRows`, `MaxLines`, `Generations` and `MaxStreak` bound what their names say.

Symmetry is used for data generations, operations, domains, connections and requests, in runs
without liveness. `CHECK_DEADLOCK FALSE` is set because, with the edits and faults of the
bounds spent, the system really comes to rest. Every property of a passing run is refuted by
at least one mutant of the code; where a property of a host is a conjunction over its parts,
the mutant breaks one of them.

### Fairness

- `ConfigApply`: `WF(Boot)`, the container's restart policy; `WF(Reconnect)`, the poll
  loop re-arms after every poll; `WF(Progress)`, every request of `clients/mihomo.ts` has
  a timeout and the queue's promise chain goes on after a rejection. The liveness
  properties speak of the time after the last fault: an engine that never answers is
  never brought to agree.
- `DomainRuleOps`: `WF(Boot)`; `WF(Start)`, `index.ts` starts the worker once the
  deployment is reconciled; `WF(Worker)`, the tail runs what waits.
- `ChannelControl`: `WF(Poll)` for each poller (requests bounded by `boundedSignal`),
  `WF(Elapse)` (time passes), `WF(Reload)` (an edit is followed by its apply).
- `SourceRefresh`: `WF(Coordinator)`, a fetch is bounded by its 30 s timeout and an apply
  by those of the client; `WF(Pulse)`, the timer is armed again after each pulse;
  `WF(Start)`, `WF(Exit)`, `WF(Boot)`, `WF(Elapse)`.
- `LogStream`: `WF(Screen)`, the browser is sent what is on its way and subscribes again;
  `WF(Pump)` for each capture, which opens the stream again after its backoff.
- `LiveFeed`: `WF(Poll)` for each poll, `WF(RunHandler)` (promises settle), `WF(Stream)`, and
  `WF(EngineStarts)`: the container's restart policy.
- `DomainDeployment`: `WF(Steps)`, the coordinator's tail; `WF(FirstConnect)` and
  `WF(FirstRuntime)`, the handler of the first connection of a live loop that keeps polling.

No fairness is assumed of an administrator, a crash, a provider or a failure.

## 4. Findings

Four places where the code and what the repository says of it disagree; each run is a
counterexample a reader can replay. Lines are in `PROJECT.json`.

1. `rules_stranded`: a candidate rejected, rescoped or rechecked between the rename of
   `custom.txt` and the recovery pass leaves its operation prepared for ever, although
   the file holds the intended digest; every later start stops at it. ADR 0006 says a
   startup reconciles against the expected or the resulting digest.
2. `channel_leak`: a probe in flight counts its miss after the reset of its controller:
   the state that `setPolicy` says cannot leak into the new session does.
3. `sources_backoff`: a pulse refreshes, from the list it made at its start, a source that
   was refreshed by hand meanwhile and has backed off. The design lets only a manual
   refresh ignore the backoff.
4. `sources_enable`: two requests to enable one source join one successful refresh, and
   the second inversion disables the source again.

### Seen while modelling

Places a reader of the code may want to know of. Where one of them bears on a property, the
property excepts it by name; the module says where.

- Channels. A policy set between the rows of a run and its tick is ticked once as the previous
  one, after the reset, so that the first check of the new policy waits for an interval
  (`registry.ts:38,60`); `channels` shows that the channel converges nevertheless.
- Direct channels. "Direct participates in the same priority order as non-default proxy
  channels" (`docs/specs/2026-07-13-direct-channel-design.md:65`, and 181-186: "First match wins
  across channels"), and so say the comments "in match order: lower priority is tried first"
  (`channels/service.ts:250`) and "cross-channel precedence is the channel order"
  (`nodes/multiConfig.ts:313`). `buildRules` puts every proxy channel before the matcher of
  Direct, wherever the administrator put it (`multiConfig.ts:314-317`), which a later plan and a
  test intend (`docs/plans/2026-10-11-network-cleanup.md:18`, `multiConfig.test.ts:790`).
  `ConfigurationSound` holds the administrator's order of the proxy channels and gives Direct
  the place of the code. The diagnosis still follows
  the order of priority: a host that both claim is shown as DIRECT although a proxy channel
  carries it (`Outranked` in `Diagnostics`).
- Coverage. The lists of the Default channel ("Always VPN lists",
  `docs/specs/2026-10-30-default-route-design.md:17`) are rules of the engine
  (`nodes/multiConfig.ts:303-305`), but the coverage skips that channel
  (`coverage.ts:227`, `:313`), although it is to read the projection of the generator "so it
  cannot drift from the rules Mihomo actually receives" (`nodes/service.ts:198-200`) and
  "existing rule coverage" blocks a recommendation
  (`docs/specs/2026-08-03-domain-intelligence-design.md:48`). A domain that only such a list
  holds is probed, and may be recommended for a rule the engine comes to after that list.
  `DecisionGrounded` excepts these lists. Nor does the coverage look at the built-in domains of
  Direct (`multiConfig.ts:293-297`), which are no file.
- Diagnostics. Routes stay confirmed when the runtime mode could not be read; without nodes a
  proxy channel may be named with the node DIRECT; a saved configuration whose apply failed,
  and a group that switched since, go unnoticed; a restart of the engine does not change the
  revision.
- Deployment. Recovery runs on the first connection only: an ordinary apply that fails later,
  or whose suspension fails, leaves collection off until the next apply or reconnection, and a
  failed rule write leaves the capability revoked until then. A settings change saved while its
  suspension failed leaves the provider called active for the old target. An ordinary apply
  between a rule write and its activation proves the provider with the old count
  (`deployment-controller.ts:115`). A settings transition reserves its epochs at its turn, so
  that applies queued after the call count as overtaken.
- Validation. A due row whose scope changed between list and claim ends as an infrastructure
  failure with a backoff; settings that exclude a domain during a run do not fence its
  completion until the domain is seen again.
- Observations. A long connection seen again after retention cut its day is counted again in
  the part of the day that is left.
- Evidence. The index of the address is the number of attempts in the window: with a full
  sliding window it stays the same, and a second address may never be tried. A route proof may
  be met by another validation's tunnel to the same address (`history.crowded`). The coverage
  snapshot does not notice the managed provider becoming active during a validation.
- Retention. A rejection is forgotten 14 days after its domain was last seen; a candidate still
  in sight can lose its decision; a report of more than 4096 candidates fails; the two report
  files are two writes.
- Sources. A value without a subscription URL can be stored twice by overlapping additions
  (`sources/service.ts:75` says it cannot); a refresh or backfill sets `sub_url` without a
  duplicate check; an addition whose apply throws leaves its row, so that a retry conflicts.
  Entries of a clash file that cannot be read are dropped without being counted as skipped.
- Gateway mode. Two overlapping changes can restore the wrong previous settings when the later
  one fails; `ChangeKept` speaks of changes that did not overlap. The pool check stops at the
  first node, so that a sibling group with DIRECT may go unreported.
- Decoder. The client's 70 s can pass while its call waits for another decode of 45 s; the
  abandoned call is still decoded.
- Logs. A hub that restarts while the screen is paused makes `unseen` too small. The comment at
  `live/prober.ts:15` does not hold when the concurrency cap is below the share of the interval.
- Prober. A change of the group shortens or lengthens the rotation under the cursor, which may
  then stand past a node that was next: `SweptInTime` counts anew after each change, and a group
  that changes all the time may put off a node's probe for as long.

## 5. Proofs

TLAPS checks these for every value of the constants that satisfies the modules'
`ASSUME`s, which name only what the model needs: sentinels outside the sets they extend,
bounds that are natural numbers (positive where a counter needs one step).

`ConfigApplyProofs`
- `TypeCorrect`: `Spec => []TypeOK`.
- `RecoveryNeverBlocked`: `Spec => []JournalProvesFile`.
- `RecoveryInContext`: `Spec => []RecoveryContext`.

`JournalProvesFile` is not inductive. A crash may come when the journal names a
candidate that the file does not hold yet, or still names the accepted file the attempt
has replaced, and what proves the file later is what the attempt remembers. `IInv` adds:
every identity of a journal carries the route its own bytes were generated under
(`OwnContext`); an attempt remembers a journal that proves the file it started from, in
the route of that file (`AttemptKeepsPast`); and at each `pc`, which bytes are in the file
and whether the journal names the candidate (`ByPlace`). The proof has one step per action,
with the lemmas `JournalTypes`, `BootRotationType` and `AttemptTypes` for the records.

- `NeverLockedOut`: `Spec => []CredentialKept`.

For the last, `SecretInv` adds that whatever the engine accepts, the file would make it accept,
or an attempt may still send or put back, is one of the secrets the database can produce
(`Reachable`, `AttemptReachable`), and that a rotation is taken back only while the engine
cannot have seen it (`UndoneUnseen`). The last rests on the code's order: `activated` is raised
before the first reload, and the catch block takes a created rotation back only before that.

In the same module, on those invariants
- `ClosedJournalIsLive`: `Spec => []EngineAgrees`.
- `VerifiedMeansLive`: `Spec => []VerifiedIsLive`.
- `AcceptedFileSurvives`: `Spec => AcceptedFileKept`.
- `SavedEditsReachTheFile`: `Spec => []NoEditLost`.

An attempt may close its journal in three ways, and the invariant says what is true before
each. It completes: the engine has taken its candidate (`CandidateRuns`) and its data are
current or will be generated again (`AttemptCurrent`). It is skipped, or taken back before
its activation: the engine is where the previous closed journal left it (`PastRuns`). It is
taken back later: the engine has the previous file again or the attempt remembers that it
failed (`RestoredRuns`). In the last two cases the previous file is what the settings
generate once the staged one is undone (`PastCurrent`). A restart of the engine and an edit
during an attempt are covered by what is then due: a forced reload (`RepairDue`), an apply
that keeps its journal open if it fails (`RegenerationDue`).

In the same module, the refinement
- `ApplyImplementsAgreement`: `Spec => ImplementsAgreement`, the refinement of `AgreedConfig`.
- `RestIsAgreed`: `Spec => []Agreement!Agreed`, carried over it: whenever nothing is due or in
  progress, the engine runs the accepted file and the settings generate it.

Every step is classified by what it does to the four variables of `AgreedConfig`. While a
change is open almost any movement is allowed, and `StepMoves` has one step per action. The
burden is at the two ends: a step that leaves rest must not move file and engine at once with
the settings (`RestOpens`), and one that comes to rest must find them agreed
(`RestAgreesNext`), which is `EngineInv`, `EditInv` and `IInv` together: a journal can only be
closed over an engine that runs the file, and an edit made meanwhile left an apply in the
queue. `NoEditLost`, proved before, is a consequence of the refinement and is no longer
checked by a run of its own.

`SourceRefreshProofs`
- `TypeCorrect`: `Spec => []TypeOK`.
- `OneFlightPerSource`: `Spec => []SingleFlight`.
- `RequestsAreCarriedOut`: `Spec => NeverSkipped`.

`SingleFlight` needs `Working` (a refresh runs only at the head of a queue that is not
empty, a pulse that waits names a source). Its core is `Agree`: the queue has no
repetition and holds the sources with an entry in `inFlight`. `Joining` and `Advancing`
show that a request keeps it, `Settling` that every end of a refresh does, whatever the
outcome; `AppendNew` and `TailRest` are the facts about sequences without repetition.

`NeverSkipped` adds `Raised`: the refresh that somebody asked for has the trigger `manual` or
`enable`, which no later request lowers, so that it is never refused as not due.

`DomainRuleOpsProofs`
- `TypeCorrect`, `OneMutationAtATime`, `NeverValidatedMeanwhile`: `Spec => []TypeOK`,
  `[]ReadyMeansRecovered`, `[]LeaseFence`.
- `WritesAreAuthorized`, `OutsideEditsSurvive`: `Spec => AuthorizedWrite`, `OutsideEditKept`.
- `StoreInvariance`, and from it `FileIsOwned`: `Spec => []OwnershipMatchesFile` and
  `NeverAnAlarm`: `Spec => []NoFalseAlarm`.

The first group has one invariant. `ReadyMeansRecovered` speaks of a worker that is ready;
what makes it true is that a worker which is not refuses what it had admitted, and that the
snapshot of a recovery pass has every unfinished operation in it. `Clear` says the first (a
fresh submission waits or runs only while nothing is left behind), `PassCovers` the second,
`AtStep` what the journal holds at each step of a task. `LeaseFence` needs `CandidatesOK`,
because a candidate that lost its rule can be claimed by nobody. Nothing is assumed of other
writers: the commit is authorized, and keeps foreign edits, because of what it reads itself.

The second group holds while nobody else writes (`~Tampering`). `SInv` says of every phase
what the file can be: a prepared operation finds it as it was prepared for or as it would
leave it (`PreparedOK`), one that was written finds what it wrote (`WrittenOK`), and the marker
is one of those contents (`Recognised`). It rests on the first invariant: with two unfinished
operations neither could be proved.

`DomainDeploymentProofs`, for every number of groups, transitions and changes
- `Invariance`, and from it `ActiveProviderIsLive`, `CapabilityIsProved`, `RuntimeRunsVerified`:
  `CountsKnown => (Spec => []...)`.

What makes `CapabilityProved` hard is that transitions overtake each other between their calls
and their turns. The invariant says who still owes an answer: rules the engine has not loaded
are owed by a transition whose epoch is current and which will revoke or publish (`Loaded`);
what a call has withdrawn is not back while its own activation is current (`Fenced`); what
the transition in progress has read is what it may still conclude from (`InProgress`). The
only hypothesis, `CountsKnown`, is that the value for "never counted" is no number.

`MCStreamsProofs`, about the specification that `Streams.cfg` runs
- `DeploymentIsProved`: `LiveSpec => []DeploymentProved`, the theorems above in the composition.
- `NothingGoesBack`: `LiveSpec => NothingRewinds`.
- `LogScreenStaysTrue`: `LiveSpec => []LogScreenAgrees`.
- `RotationIsSwept`: `LiveSpec => []SweptInTime`.

`Steady` has what each part needs. Log screen: every message on its way is of a type the reducer
knows, and the screen's state has its fields; the rest is a case per message. Feed: the loop does
not fetch while the first poll does, and no answer on its way is older than the view the hub
keeps, or newer than the engine (`Ahead`); two polls that fetched at once could put the older
answer last. Prober: the age of a node that was measured only grows until it is measured again.

`LogScreenAgrees` speaks of a screen with nothing on its way. What is true before is `Relayed`:
there are pages, the first the screen's and the last the hub's, such that each message on its
way turns one into the next (`Turns`). The hub adds a page with what it sends (`HubTurns`), a
delivery takes the first (`ReaderTurns`), a new subscription begins at the snapshot. A screen
keeps the newest of what it had, and the ring the newest of what it had: that these stay equal
is `NewestAgain`. `Captures` says that no generation but the current one can write.

`SweptInTime` is a matter of distance. `Approached` says of a node that has waited for k pulses
how far ahead of the cursor it may still be: k batches less than the rotation is long (`Within`).
A pulse moves the cursor behind the last node it probes (`CursorMoves`); a stale node
it left out lies behind a full batch (`LeftOut`), so that a batch less is ahead of it
afterwards (`Nearer`, `PulseSweeps`); and a snapshot of the same group keeps the rotation
(`RotationKept`). The arithmetic of places around a rotation is in `Around` and `Wraps`.

`MCChannelsProofs`, for one loop of polls and every number of channels, nodes and misses
- `Invariance`, and from it `FailoverIsEarned`: `OneLoop => (Spec => FailoverEarned)`.
- `FailoversAreEarned`: the same of the part of `MCChannels` with one loop, the property
  `Channels.cfg` checks.

A tick works on rows and a view that are old when it acts. Of a channel that nobody
reconfigured the rows are still true (`RunOK`), and the node it is seen on is the one it is on,
because nobody else selects there (`Seen`) and a reload keeps the selection (`Selects`). So
each miss counted is of the node the group is on, and the count never exceeds the misses of
that node in a row (`Counts`). With two polls it is false, as the channel may be moved between
the view and the probe; hence `OneLoop`.

`MCPanelProofs`, about the specification that `Panel.cfg` runs
- `ProbeStaysSound`: `Spec => []ProbeSound`.
- `DecisionStaysGrounded`: `Spec => []DecisionGrounded`, which is about the rule files of the
  channels other than Default.
- `ValidationStaysBounded`: `Spec => []ValidationBounded`.
- `RetentionStaysExact`: `Spec => [](part = "records" => Records!RetentionExact)`.

Probe. That a destination was given its time is a sum: the timer of a connection and the age
of its hop add up to the timeout (`Timed`), so that a hop that times out is as old as that.
That its route was proved rests on `Routed`: what the engine lists and did not before the hop
is the tunnel of this hop, through the group of its route, or another validation's to the same
address, which `crowded` records. `Settled` has the properties themselves, and that a probe
which waits for its proof to end has nothing else open.

Coverage. `Copied` relates what was read to what is: a copy is of the present version of its
file or of an earlier one, and versions of one identity have one content. The check after the
probes finds the identities unchanged, so that the copies are the files (`Unchanged`), and the
verdict on the copies is the one on the files. They are the files of every channel but Default:
what only a list of Default holds is no part of the statement, nor of the code's verdict.

Validation. `WorkBounded` counts the executions under way; the circuit is why it is not
inductive. `Circuited` says of every moment that the failures of the last `OpenFor` together
with the executions that may still fail are fewer than the threshold and the workers together,
and is kept through the passing of time by the youngest failures ageing alike (`AllAge`).
`Staffed` says that a worker has one execution and that one which is abandoned is not replaced;
`Apart` and `Single` that a domain is due once, not while it is executed, and has one running
run. For `VerdictFits`, whatever writes to a candidate keeps its scope or drops its verdict
(`Writing`), and a completion compares the scope it decided with the one it finds (`Completing`).

Records. The rows refer to one another as the keys of the database say (`Tidy`). A pass of
recovery leaves running only what a live lease holds (`Recovering`); then the retention makes
three cuts, of outdated candidates (`StaleCut`), of aged evidence (`AgedCut`) and of candidates
nothing is left of (`UnseenCut`), each of which leaves tidy rows for the next, and together they
are what `RetentionExact` says (`PruneExact`).

Assumed: the numbers are natural (the threshold positive), address 0 is no public address,
the sets of domains, providers and public IPv4 addresses are finite, and what stands for no
lease and no candidate is neither.

`MCSetupProofs`, about the specification that `Setup.cfg` runs
- `ModeStaysSound`: `PartSpec => []ModeSound`.
- `IntakeStaysSound`: `PartSpec => []IntakeSound`.
- `DiagnosisStaysTrue`: `PartSpec => []DiagnosticsTrue`.

Mode. The invariant accounts for the queue: every apply that waits or works for a change is the
one that change waits for, and no two are for one change (`Accounted`). `Recorded` says that what
the record calls applied is, or that an apply which corrects it is due (`Forced`); `Kept` follows
what is saved through each step of a change that nobody overlapped; `Guarded` says of the file,
the candidate and the engine that none captures without a password or asks itself for
names; `Basic` that before the first settings only the default is generated.

Decoder. `Decoding` says whose turn it is: one call holds the lock and is where the script is.
`OwnRun` says that the files, the flag and the flows that could still reach it are of that call,
from its removal of the result on. Intake. `Stored` says that ids and orders are unique, and no
row or parsed value without nodes; `Checked` that no row has the value of an addition which
checked it and was not overtaken; `Written` that the file is what the rows collect to when no
apply is due. That a permutation of the rows numbers each once is proved with the cardinalities
of the library.

Diagnosis. Two things are shown apart. What is said from a true view is true (`JobsTell`): the
claim is the first that the order of priority finds, which is the carrier unless a direct
channel stands before a proxy channel (`Attributed`, `Carried`), and the node claimed for it is
the leaf its group leads to (`ClaimTells`); without nodes every group leads to DIRECT, which
needs the recursive function evaluated, by the least counterexample (`DirectLeaf`). And the view
is true for as long as it counts: revisions only grow, so that an apply which touched the engine
has left a revision that a run, or an answer kept, no longer has (`Touching`, `Counted`), and
what a run has read and what a kept answer rests on is, as long as no apply intervened, what the
engine does (`RunKept`, `CacheKept`).

Assumed: the value that stands for none is no link, nor is the half of an answer; a configuration
lists finitely many channels, whose names are distinct and none of the engine's own, each for
proxy or direct.

Model-checked only:
- Every liveness property: the prover has no fairness or ENABLED.
- `RunsEnd` of `DomainValidation`. The bound it states is that of an instance with one worker
  and a cleanup that is given up at once; with more of either the sum is another.
- `CountsHonest` and `DriftEarned` of `DomainObservations`, `EvidenceEarned` of `DomainEvidence`:
  counts of connections and of spaced attempts, summed over sets that change at both ends.
- `ReportsAgree` of `DomainReport`, and `ConfigurationSound` of `RoutingConfig` and
  `GatewayReadiness`: what a report lists page by page, a configuration generates name by name,
  or the health page finds by following groups is a fold or a recursive function, and what these
  compute for every input needs an induction over the data. The induction theorems of the
  library take an operator as a parameter, which the provers cannot instantiate. Where a proof
  above needed an induction, it was made by hand: a nonempty set of naturals has a least element
  (`Least`, from `WFMin`), which the counterexamples would have.
- `KeptFresh`, the other temporal properties of `sources` and `channels`, and `RestartCompletes`.

## 6. Not modelled

- Byte formats: YAML text, rule files, `geosite.dat`, links and their fields. They are
  computations of one call; the models keep their verdict (covers, is silent, cannot be read).
- The kernel routes of `clients/gateway-network.ts`, sockets, file permissions: I/O.
- Authentication (a password check and a session table), environment, static files, shared
  schemas: nothing concurrent beyond a row.
- The web application beyond the two stores that receive a stream (logs, live): presentation.
- The graceful stop of the rule worker, and the rule operations that no caller in the
  repository submits (automatic-add, edit, delete, rollback).
- An engine that restarts between two polls is not noticed by the live loop; `ConfigApply`
  assumes it is. A channel disabled and enabled between two polls keeps its controller; the
  model has it, and no property forbids it.

`PROJECT.json` has one entry per component, with what is missing of those modelled in part.

## 7. Plan

What is left, in this order:

1. `ReadinessTrue`, a depth-first search through the groups, written as a fold: that it stops
   with a node exactly when one is reached needs an induction over the depth.
2. `CountsHonest`: a connection is counted in the bucket of its first sight, as a relation between
   `conns` and `daily` that every drain keeps.
3. An abstract rule set (a set that only authorized additions change, and outside edits), which
   `DomainRuleOps` implements: every movement of the file is classified in
   `DomainRuleOpsProofs` already.
4. The graceful stop of the worker, composed with the shutdown of `SourceRefresh`.
