----------------------------- MODULE Diagnostics -----------------------------
(* The diagnostics page (modules/diagnostics/service.ts, model.ts): which     *)
(* route and node it says the panel's own traffic leaves by, while the        *)
(* configuration is applied, groups switch nodes and answers are kept.        *)
(* A save and the start of its apply are one step: nothing the page waits for *)
(* comes between them, unless an apply is running, whose end starts the next. *)
EXTENDS Integers, Sequences, FiniteSets

CONSTANTS
    Saved,       \* what is saved: [channels, first, direct], channels without the default
                 \* one, [name, target, certain, lists], in their order of priority; lists
                 \* and first (those ahead of all channels): "none", "miss", "hit"
    Default,     \* the default channel and its group
    Group,       \* a group inside groups
    Nodes,
    MaxChanges,  \* bound: configurations saved
    None

VARIABLES
    saved,    \* what the database holds
    engine,   \* [config, inventory, members, mode]: what it runs
    apply,    \* [revision, pc, queued]: configApplyRevision, activeConfigApplies
    run,      \* inFlight: None before, [pc, before, list, ...]
    cache,    \* result, cachedRevision, None without an answer of the last five minutes
    answer,   \* the answer the last step gave, None otherwise
    changes

vars == <<saved, engine, apply, run, cache, answer, changes>>

Names(config) == {config.channels[n].name : n \in DOMAIN config.channels}
ProxyOf(config) == {n \in DOMAIN config.channels : config.channels[n].target = "proxy"}
DirectOf(config) == {n \in DOMAIN config.channels : config.channels[n].target = "direct"}

-----------------------------------------------------------------------------
(* The engine and the applies.                                               *)

\* The catch-all: without nodes the legacy configuration is all DIRECT.
Target(e) == IF e.config.direct \/ ~e.inventory THEN "DIRECT" ELSE Default

\* readConfigApplyState
ApplyState == [revision |-> apply.revision, inProgress |-> apply.pc # "idle"]

Begun(revision) == [revision |-> revision, pc |-> "begun", queued |-> FALSE]

Save ==
    /\ changes < MaxChanges /\ changes' = changes + 1
    /\ \E config \in Saved \ {saved} : saved' = config
    /\ apply' = IF apply.pc = "idle" THEN Begun(apply.revision + 1)
                ELSE [apply EXCEPT !.queued = TRUE]
    /\ answer' = None /\ UNCHANGED <<engine, run, cache>>

\* The engine takes what is saved, or does not.
Load ==
    /\ apply.pc = "begun"
    /\ \/ engine' = [engine EXCEPT !.config = saved]
       \/ UNCHANGED engine
    /\ apply' = [apply EXCEPT !.pc = "loaded"]
    /\ answer' = None /\ UNCHANGED <<saved, run, cache, changes>>

Applied ==
    /\ apply.pc = "loaded"
    /\ apply' = IF apply.queued THEN Begun(apply.revision + 2)
                ELSE [apply EXCEPT !.pc = "idle", !.revision = @ + 1]
    /\ answer' = None /\ UNCHANGED <<saved, engine, run, cache, changes>>

Moved(r) == IF r = None THEN None ELSE [r EXCEPT !.known = FALSE]

\* A group goes to another node by itself.
Switch ==
    /\ \E node \in Nodes \ {engine.members[Group]} :
         engine' = [engine EXCEPT !.members[Group] = node]
    /\ engine.inventory
    /\ run' = Moved(run) /\ cache' = Moved(cache)
    /\ answer' = None /\ UNCHANGED <<saved, apply, changes>>

-----------------------------------------------------------------------------
(* What a run derives.                                                       *)

\* resolveActiveLeaf: a name that is still a group after as many steps as there
\* are groups is one of a cycle.
ResolveActiveLeaf(members, name) ==
    LET groups   == DOMAIN members
        after[k \in 0..Cardinality(groups)] ==
            IF k = 0 THEN name
            ELSE IF after[k - 1] \in groups THEN members[after[k - 1]] ELSE after[k - 1]
        leaf     == after[Cardinality(groups)]
    IN  IF leaf \in groups THEN None ELSE leaf

\* externalRouteAttribution: the first channel whose own names claim the host,
\* unless something that cannot be told comes before it.
Unconfirmed == [route |-> None, node |-> None]

ExternalRouteAttribution(list, members, target) ==
    LET Sure(n) == \A m \in 1..(n - 1) : list.channels[m].lists = "none"
        hits    == {n \in DOMAIN list.channels : list.channels[n].certain}
        n       == CHOOSE h \in hits : \A k \in hits : h <= k
        hit     == list.channels[n]
    IN  IF target = None \/ list.first # "none" THEN Unconfirmed
        ELSE IF hits # {}
             THEN IF ~Sure(n) THEN Unconfirmed
                  ELSE [route |-> hit.name,
                        node  |-> IF hit.target = "direct" THEN "DIRECT"
                                  ELSE ResolveActiveLeaf(members, hit.name)]
             ELSE IF ~Sure(Len(list.channels) + 1) THEN Unconfirmed
                  ELSE [route |-> Default, node |-> ResolveActiveLeaf(members, target)]

\* The node of a row, and the rows that are not attempted.
RowNode(r, name) ==
    IF name # Default THEN ResolveActiveLeaf(r.members, name)
    ELSE IF r.target = None THEN None ELSE ResolveActiveLeaf(r.members, r.target)
Rows(r) == {Default} \cup {r.list.channels[n].name : n \in ProxyOf(r.list)}
Skipped(r, name) == RowNode(r, name) = None \/ (~r.inventory /\ name # Default)

Outbound(o) == {o.external} \cup o.through
Required(o) == o.through \cup o.others

\* deriveDiagnosticState
DerivedState(o, nodes, direct) ==
    CASE ~o.up -> "mihomo-down"
      [] o.up /\ ~nodes /\ ~direct -> "no-nodes"
      [] o.up /\ (nodes \/ direct) /\ Outbound(o) \ {"skipped"} = {"failed"} -> "no-internet"
      [] OTHER ->
           IF o.external = "failed" /\ Required(o) = {"ok"} THEN "external-ip-unavailable"
           ELSE IF o.external # "ok" \/ Required(o) # {"ok"} THEN "partial"
           ELSE "ready"

\* unconfirmedRouteResult
Withdrawn(result) ==
    [result EXCEPT !.claim = Unconfirmed,
                   !.fallback = None,
                   !.state = IF @ = "ready" THEN "partial" ELSE @]

-----------------------------------------------------------------------------
(* DiagnosticsService.run, executeDiagnostics.                               *)

\* What the traffic of the panel really leaves by: the engine tries the proxy
\* channels that claim it before the direct ones.
Carrier(e) ==
    LET claims(ns) == {n \in ns : e.config.channels[n].certain \/ e.config.channels[n].lists = "hit"}
        proxies == claims(ProxyOf(e.config))
        hits    == IF proxies # {} THEN proxies ELSE claims(DirectOf(e.config))
    IN  IF (e.inventory \/ e.config.direct) /\ e.config.first # "hit" /\ hits # {}
        THEN e.config.channels[CHOOSE n \in hits : \A m \in hits : n <= m].name
        ELSE Default
Leaf(e) ==
    IF e.mode # "rule" THEN "elsewhere"
    ELSE IF Carrier(e) = Default
         THEN ResolveActiveLeaf(e.members, IF e.config.first = "hit" THEN Default ELSE Target(e))
         ELSE IF \E n \in DirectOf(e.config) : e.config.channels[n].name = Carrier(e)
              THEN "DIRECT"
              ELSE ResolveActiveLeaf(e.members, Carrier(e))

\* The direct channel the page names is not the one the engine comes to first.
Outranked(claim) ==
    /\ claim.node = "DIRECT" /\ claim.route \in Names(engine.config) /\ claim.route # Carrier(engine)

\* A given answer, with what it describes as it is when given.
Given(result, known) ==
    [result |-> result, leaf |-> Leaf(engine),
     fallback |-> ResolveActiveLeaf(engine.members, Target(engine)),
     known |-> known /\ ~Outranked(result.claim)]

\* known: nothing has happened that a run has no way to know.
Blank == [pc |-> "done", before |-> None, known |-> TRUE, list |-> None, members |-> None,
          inventory |-> FALSE, target |-> None, result |-> None]
Done(result) == [Blank EXCEPT !.before = run.before, !.known = run.known, !.result = result]

Start ==
    /\ run' = [Blank EXCEPT !.pc = "checks", !.before = ApplyState]
    /\ answer' = None
    /\ UNCHANGED cache

Fresh ==
    /\ ~ApplyState.inProgress
    /\ cache # None
    /\ cache.revision = apply.revision

\* run: while one is in flight everyone, forced or not, waits for its answer.
Ask(forced) ==
    /\ run = None
    /\ IF ~forced /\ Fresh
       THEN /\ answer' = Given(cache.result, cache.known)
            /\ UNCHANGED <<run, cache>>
       ELSE Start
    /\ UNCHANGED <<saved, engine, apply, changes>>

\* CACHE_TTL_MS passes.
Expire ==
    /\ cache # None /\ cache' = None /\ answer' = None
    /\ UNCHANGED <<saved, engine, apply, run, changes>>

Down == [state |-> "mihomo-down", claim |-> Unconfirmed, fallback |-> None]
Fatal == [Down EXCEPT !.state = "partial"]

\* The components and the proxies, and the channels right after.
View ==
    /\ run # None /\ run.pc = "checks"
    /\ \/ run' = [run EXCEPT !.pc = "rules", !.list = saved, !.members = engine.members,
                             !.inventory = engine.inventory,
                             !.known = (saved = engine.config)]
       \/ run' = Done(Down)
       \/ run' = Done(Fatal)   \* an exception
    /\ answer' = None /\ UNCHANGED <<saved, engine, apply, cache, changes>>

\* The last rule that is in force; a read that fails leaves it unknown.
Rules ==
    /\ run # None /\ run.pc = "rules"
    /\ \E target \in {Target(engine), None} :
         run' = [run EXCEPT !.pc = "jobs", !.target = target]
    /\ answer' = None /\ UNCHANGED <<saved, engine, apply, cache, changes>>

\* The jobs, at most six at a time, and the result.
Jobs ==
    /\ run # None /\ run.pc = "jobs"
    /\ \E external \in {"ok", "failed"}, read, others \in BOOLEAN,
          through \in {{"ok"}, {"failed"}, {"ok", "failed"}} :   \* of services and rows
         LET direct == run.target = "DIRECT"
             traced == run.inventory \/ direct
             o == [up |-> TRUE, external |-> IF traced THEN external ELSE "skipped",
                   through |-> through \cup {"skipped" : n \in {m \in Rows(run) : Skipped(run, m)}},
                   others |-> {IF read THEN "ok" ELSE "failed", IF others THEN "ok" ELSE "failed"}]
             result ==
                [state    |-> DerivedState(o, run.inventory, direct),
                 claim    |-> IF o.external = "ok"
                              THEN ExternalRouteAttribution(run.list, run.members, run.target)
                              ELSE Unconfirmed,
                 fallback |-> RowNode(run, Default)]
         IN  run' = [Done(IF read /\ engine.mode # "rule" THEN Withdrawn(result) ELSE result)
                           EXCEPT !.known = @ /\ (engine.mode = "rule" \/ read)]
    /\ answer' = None /\ UNCHANGED <<saved, engine, apply, cache, changes>>

OvertakenNow(before, after) == before.inProgress \/ after.inProgress
Overtaken(before, after) ==
    before.inProgress \/ after.inProgress \/ before.revision # after.revision

Finish ==
    /\ run # None /\ run.pc = "done"
    /\ IF Overtaken(run.before, ApplyState)
       THEN cache' = None /\ answer' = Given(Withdrawn(run.result), run.known)
       ELSE /\ cache' = [result |-> run.result, revision |-> apply.revision, known |-> run.known]
            /\ answer' = Given(run.result, run.known)
    /\ run' = None
    /\ UNCHANGED <<saved, engine, apply, changes>>

-----------------------------------------------------------------------------
Init ==
    /\ changes = 0 /\ run = None /\ cache = None /\ answer = None
    /\ saved \in Saved
    /\ apply = [revision |-> 0, pc |-> "idle", queued |-> FALSE]
    /\ \E inventory \in BOOLEAN, mode \in {"rule", "global"} :
         /\ mode = "global" => inventory
         /\ engine = [config |-> saved, inventory |-> inventory, mode |-> mode,
                      members |-> [g \in {Default, Group} \cup UNION {Names(c) : c \in Saved} |->
                         CASE ~inventory              -> "DIRECT"
                           [] inventory /\ g = Group  -> CHOOSE n \in Nodes : TRUE
                           [] inventory /\ g # Group  -> Group]]

Next ==
    \/ Save \/ Load \/ Applied \/ Switch \/ View \/ Rules \/ Jobs \/ Finish \/ Expire
    \/ \E forced \in BOOLEAN : Ask(forced)

Spec == Init /\ [][Next]_vars

-----------------------------------------------------------------------------
(* The page says by which node the traffic it traced and that of the default *)
(* channel leave only when they do so as the answer is given, whatever was   *)
(* applied before the run, during it or since an answer was kept. It cannot  *)
(* know of an apply that failed, of a group that moved since, or of the mode *)
(* when it could not be read; and it goes by the order of priority,          *)
(* in which a direct channel may stand before proxy channels that the engine *)
(* tries first. It never says ready without having confirmed the route of    *)
(* the default channel.                                                      *)
DiagnosticsTrue ==
    answer # None =>
       LET result == answer.result IN
       /\ answer.known =>
            /\ result.claim.node \in {None, answer.leaf}
            /\ result.fallback \in {None, answer.fallback}
       /\ result.state = "ready" => result.fallback # None
=============================================================================
