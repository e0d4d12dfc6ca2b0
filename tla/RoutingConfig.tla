---------------------------- MODULE RoutingConfig ----------------------------
(* The channels of the panel (modules/channels/service.ts, pool.ts) and the  *)
(* configuration that is generated from them (modules/nodes/multiConfig.ts,  *)
(* config.ts): the names of nodes and groups, and the rules in their order.  *)
(* A name is the sequence of its pieces, so that a node may be called as a   *)
(* group or a renamed node is. A matcher is the kinds of traffic it matches; *)
(* only the first rule that matches counts.                                  *)
EXTENDS Integers, Sequences, FiniteSets, SequencesExt, Functions

CONSTANTS
    Subscriptions,  \* what the sources may hold: a sequence of nodes each
    Profiles,       \* network profiles: "proxy", "gateway"
    MaxChanges      \* bound: operations of the administrator

VARIABLES
    channels, \* the rows, by id
    pools,    \* the pool of each proxy channel
    held,     \* the nodes of each source
    denied,   \* names of excluded nodes
    settings, \* [profile, route, target]: route of Default, target of managed rules
    order,    \* history: the order the administrator gave the channels
    changes

vars == <<channels, pools, held, denied, settings, order, changes>>

Default == "default"
Direct  == "direct"
Created == <<"ch1", "ch2", "ch3">>    \* ch<n>
Kinds   == {"site", "geo", "list", "notblocked", "net"}

Auto(id)  == IF id = Default THEN <<"AUTO">> ELSE <<"ch-", id>>
Pseudo    == {<<"AUTO">>, <<"PROXY">>, <<"PROBE">>, <<"DIRECT">>, <<"REJECT">>}
Exit      == <<"DIRECT">>
Reject    == <<"REJECT">>

-----------------------------------------------------------------------------
(* channels/service.ts, pool.ts                                              *)

\* listChannels: by priority, then id. The ids sort as they are listed here.
IdRank(id) == CASE id = Default -> 8 [] id = Direct -> 9
                [] OTHER -> CHOOSE n \in DOMAIN Created : Created[n] = id
Sorted(rows) ==
    SetToSortSeq(DOMAIN rows, LAMBDA a, b :
        \/ rows[a].priority < rows[b].priority
        \/ rows[a].priority = rows[b].priority /\ IdRank(a) < IdRank(b))

IsProxy(id) == id # Direct
ProxiesOnly(ids) == SelectSeq(ids, IsProxy)

\* nextChannelId: one past the highest in use.
NextId(rows) ==
    LET used == {n \in DOMAIN Created : Created[n] \in DOMAIN rows}
    IN  Created[1 + (IF used = {} THEN 0 ELSE CHOOSE n \in used : \A m \in used : m <= n)]

NonDefault(rows) == SelectSeq(Sorted(rows), LAMBDA id : id # Default)

\* Priorities 0, 1, ... for the ids, Default after them.
Renumbered(rows, ids) ==
    [id \in DOMAIN rows |->
       [rows[id] EXCEPT !.priority =
          IF id = Default THEN Len(ids) ELSE (CHOOSE i \in DOMAIN ids : ids[i] = id) - 1]]

Inserted(rows, id, row) ==
    Renumbered((id :> row) @@ rows, Append(NonDefault(rows), id))

\* resolveChannelProxies: sources, then nodes by name; each node once.
Once(nodes) ==
    FoldLeft(LAMBDA acc, n : IF n \in Range(acc) THEN acc ELSE Append(acc, n), <<>>, nodes)
AllNodes == FlattenSeq(held)
Resolved(pool) ==
    IF pool = {} THEN AllNodes
    ELSE Once(FlattenSeq([s \in DOMAIN held |-> IF <<"source", s>> \in pool THEN held[s] ELSE <<>>])
              \o SelectSeq(AllNodes, LAMBDA n : <<"node", n.name>> \in pool))

-----------------------------------------------------------------------------
(* collectActiveRoutingInputs                                                *)

Kept(nodes)  == SelectSeq(nodes, LAMBDA n : n.name \notin denied)
Race(id)     == Kept(Resolved(pools[id]))
Defines(id)  == IF id = Default THEN Kept(AllNodes) ELSE Race(id)
Active       == SelectSeq(Sorted(channels), LAMBDA id : id = Default \/ channels[id].enabled)
ActiveProxy  == SelectSeq(ProxiesOnly(Active), LAMBDA id : id # Default)
Ordered      == <<Default>> \o ActiveProxy

Gateway       == settings.profile = "gateway"
DirectDefault == settings.route = "direct"

\* The managed rules are only passed for a target that has nodes, and so is the
\* validation listener.
Managed == settings.target \in Range(Ordered) /\ Race(settings.target) # <<>>

-----------------------------------------------------------------------------
(* buildMultiConfigDocument: names.                                          *)

\* groupProxies: nodes of one name are one entry.
Entries(id) ==
    LET nodes == Once(Defines(id))
        names == Once([i \in DOMAIN nodes |-> nodes[i].name])
    IN  [i \in DOMAIN names |->
           [channel |-> id, base |-> names[i],
            members |-> SelectSeq(nodes, LAMBDA n : n.name = names[i])]]
AllEntries == FlattenSeq([c \in DOMAIN Ordered |-> Entries(Ordered[c])])
IsSingle(e) == Len(e.members) = 1

\* collectSingleProxyNames: of the entries nobody before them has claimed.
SingleNames ==
    LET Step(acc, e) ==
          [names   |-> IF IsSingle(e) /\ e.members[1] \notin acc.claimed
                       THEN acc.names \cup {e.base} ELSE acc.names,
           claimed |-> acc.claimed \cup Range(e.members)]
    IN  FoldLeft(Step, [names |-> {}, claimed |-> {}], AllEntries).names

Numbers == <<"1", "2", "3", "4", "5", "6", "7", "8", "9">>
\* allocateSubGroupName, dedupeNames: the first of name, name-2, name-3, ...
Free(name, used) ==
    IF name \notin used THEN name
    ELSE LET With(n) == name \o <<"-", Numbers[n]>>
         IN  With(CHOOSE n \in 2..9 : With(n) \notin used /\ \A m \in 2..(n - 1) : With(m) \in used)

IndexOf(flat, node) == CHOOSE i \in DOMAIN flat : flat[i].node = node
Claimed(flat, node, name) ==
    IF \E i \in DOMAIN flat : flat[i].node = node THEN flat
    ELSE Append(flat, [node |-> node, name |-> name])

GroupNames == {Auto(id) : id \in Range(Ordered)}

\* The claims in order: the definitions, the collapsed groups, and what each
\* channel has at its top level.
Claims ==
    LET Step(acc, e) ==
          LET own  == IF e.channel = Default THEN e.base ELSE Auto(e.channel) \o <<"::">> \o e.base
              name == Free(own, acc.used)
              flat == FoldLeft(LAMBDA f, i : Claimed(f, e.members[i],
                                  IF IsSingle(e) THEN e.base ELSE name \o <<" #", Numbers[i]>>),
                               acc.flat, [i \in DOMAIN e.members |-> i])
              at   == [i \in DOMAIN e.members |-> IndexOf(flat, e.members[i])]
          IN  [flat |-> flat,
               used |-> IF IsSingle(e) THEN acc.used ELSE acc.used \cup {name},
               subs |-> IF IsSingle(e) THEN acc.subs ELSE Append(acc.subs, [name |-> name, at |-> at]),
               tops |-> Append(acc.tops, [channel |-> e.channel, race |-> e.base,
                                          at |-> IF IsSingle(e) THEN at[1] ELSE 0,
                                          sub |-> IF IsSingle(e) THEN Reject ELSE name])]
    IN  FoldLeft(Step, [flat |-> <<>>, used |-> Pseudo \cup GroupNames \cup SingleNames,
                        subs |-> <<>>, tops |-> <<>>], AllEntries)

\* Mutant: names are used as they were claimed.
AsClaimed(claims) == [i \in DOMAIN claims.flat |-> claims.flat[i].name]

\* dedupeNames: none of the groups' names, no name twice.
Names(claims) ==
    LET groups == Pseudo \cup GroupNames \cup {s.name : s \in Range(claims.subs)}
        Step(acc, f) == Append(acc, Free(f.name, groups \cup Range(acc)))
    IN  FoldLeft(Step, <<>>, claims.flat)

-----------------------------------------------------------------------------
(* Groups. A group of no nodes rejects, or, before direct default routes and *)
(* gateways, lets traffic out.                                               *)

Group(name, members) == [name |-> name, members |-> members]

Groups(claims, names) ==
    LET TopName(t)    == IF t.at = 0 THEN t.sub ELSE names[t.at]
        Tops(id)      == SelectSeq(claims.tops, LAMBDA t : t.channel = id)
        Raced(id)     == SelectSeq(Tops(id), LAMBDA t : \E n \in Range(Race(id)) : n.name = t.race)
        Listed(tops)  == [i \in DOMAIN tops |-> TopName(tops[i])]
        Or(members)   == IF members # <<>> THEN members
                         ELSE IF Gateway \/ DirectDefault THEN <<Reject>> ELSE <<Exit>>
    IN  <<Group(<<"PROXY">>, <<Auto(Default)>> \o Listed(Tops(Default)) \o Or(<<>>))>>
        \o [c \in DOMAIN Ordered |-> Group(Auto(Ordered[c]), Or(Listed(Raced(Ordered[c]))))]
        \o [s \in DOMAIN claims.subs |->
              Group(claims.subs[s].name, [m \in DOMAIN claims.subs[s].at |-> names[claims.subs[s].at[m]]])]
        \o (IF names = <<>> THEN <<>>
            ELSE <<Group(<<"PROBE">>, <<Reject>> \o Listed(Tops(Default)))>>)

-----------------------------------------------------------------------------
(* Rules: buildRules, buildGatewayRules.                                     *)

Rule(kind, target) == [kind |-> kind, target |-> target]
RulesFor(kinds, target) ==
    LET listed == SetToSeq(kinds) IN [i \in DOMAIN listed |-> Rule(listed[i], target)]
Lists == {"list", "notblocked"}

HasDirect       == Direct \in Range(Active)
DirectMatches   == IF HasDirect THEN channels[Direct].matcher ELSE {}
Presets         == IF HasDirect THEN channels[Direct].presets ELSE {}
DefaultLists    == RulesFor(channels[Default].matcher \cap Lists, Auto(Default))
ManagedRules    == IF Managed THEN <<Rule("managed", Auto(settings.target))>> ELSE <<>>
ChannelRules    ==
    FlattenSeq([c \in DOMAIN ActiveProxy |->
        RulesFor(channels[ActiveProxy[c]].matcher, Auto(ActiveProxy[c]))])
UsesGeo         == \E id \in Range(Active) \ {Default} : "geo" \in channels[id].matcher

CatchAll ==
    Rule("any", IF DirectDefault THEN Exit
                ELSE IF ActiveProxy = <<>> /\ ~Gateway THEN <<"PROXY">> ELSE Auto(Default))

ProxyRules(none) ==
    IF none /\ ~DirectDefault THEN <<Rule("any", Exit)>>
    ELSE RulesFor(Presets, Exit) \o DefaultLists \o ManagedRules \o ChannelRules
         \o RulesFor(DirectMatches, Exit) \o <<CatchAll>>

GatewayRules(none) ==
    RulesFor(Presets \cap {"local"}, Exit)
    \o (IF UsesGeo THEN <<Rule("geohost", Exit)>> ELSE <<>>)
    \o RulesFor(Presets \cap {"private"}, Exit)
    \o RulesFor(DirectMatches \cap {"net"}, Exit)
    \o (IF none THEN <<>> ELSE <<Rule("endpoint", Exit)>>)
    \o RulesFor(DirectMatches \cap {"notblocked"}, Exit)
    \o DefaultLists \o ManagedRules \o ChannelRules
    \o RulesFor(DirectMatches \ {"net", "notblocked"}, Exit)
    \o <<CatchAll>>

Rules(none) ==
    (IF none THEN <<>> ELSE <<Rule("probe", <<"PROBE">>)>>)
    \o (IF Gateway THEN GatewayRules(none) ELSE ProxyRules(none))

\* buildRuleProviders: the lists that some active channel names.
Providers(none) ==
    IF none /\ ~Gateway /\ ~DirectDefault THEN {}
    ELSE (UNION {channels[id].matcher : id \in Range(Active)} \cap Lists)
         \cup (IF Managed THEN {"managed"} ELSE {})

Document ==
    LET claims == Claims
        names  == Names(claims)
        none   == names = <<>>
    IN  [nodes |-> [i \in DOMAIN names |-> [name |-> names[i], node |-> claims.flat[i].node]],
         groups |-> Groups(claims, names), rules |-> Rules(none), providers |-> Providers(none)]

-----------------------------------------------------------------------------
(* The operations of the administrator.                                      *)

Change == changes < MaxChanges /\ changes' = changes + 1

NewRow(matcher) ==
    [priority |-> 0, enabled |-> TRUE, matcher |-> matcher, presets |-> {}]

Create ==
    /\ Change /\ Last(Created) \notin DOMAIN channels
    /\ \E matcher \in {{"site", "list"}, {"geo", "notblocked"}} :
         LET id == NextId(channels) IN
         /\ channels' = Inserted(channels, id, NewRow(matcher))
         /\ pools' = (id :> {}) @@ pools
         /\ order' = Append(order, id)
    /\ UNCHANGED <<held, denied, settings>>

UpdateChannel ==
    /\ Change
    /\ \E id \in DOMAIN channels \ {Default, Direct} :
         channels' = [channels EXCEPT ![id].enabled = ~@]
    /\ UNCHANGED <<pools, held, denied, settings, order>>

UpdateDefault ==
    /\ Change /\ channels[Default].matcher = {}
    /\ channels' = [channels EXCEPT ![Default].matcher = {"list"}]
    /\ UNCHANGED <<pools, held, denied, settings, order>>

UpdateDirect ==
    /\ Change
    /\ \/ channels' = [channels EXCEPT ![Direct].enabled = ~@]
       \/ channels' = [channels EXCEPT ![Direct].presets = {}, ![Direct].matcher = Kinds]
    /\ UNCHANGED <<pools, held, denied, settings, order>>

DeleteChannel ==
    /\ Change
    /\ \E id \in DOMAIN channels \ {Default, Direct} :
         /\ channels' = [c \in DOMAIN channels \ {id} |-> channels[c]]
         /\ pools' = [c \in DOMAIN pools \ {id} |-> pools[c]]
         /\ order' = SelectSeq(order, LAMBDA c : c # id)
    /\ UNCHANGED <<held, denied, settings>>

ReorderChannels ==
    /\ Change
    /\ \E ids \in SetToSeqs(DOMAIN channels \ {Default}) :
         channels' = Renumbered(channels, ids) /\ order' = ids
    /\ UNCHANGED <<pools, held, denied, settings>>

Members == {{<<"source", s>>} : s \in DOMAIN held}
              \cup {{<<"node", n.name>>} : n \in Range(AllNodes)}

SetPool ==
    /\ Change
    /\ \E id \in DOMAIN pools, pool \in Members : pools' = [pools EXCEPT ![id] = pool]
    /\ UNCHANGED <<channels, held, denied, settings, order>>

SetExcluded ==
    /\ Change
    /\ \E n \in Range(AllNodes) : denied' = denied \cup {n.name}
    /\ UNCHANGED <<channels, pools, held, settings, order>>

SetDefaultRoute ==
    /\ Change /\ settings' = [settings EXCEPT !.route = "direct"]
    /\ UNCHANGED <<channels, pools, held, denied, order>>

\* A refresh brings other nodes, a source is disabled or has none.
SourceChanges ==
    /\ Change
    /\ \E s \in DOMAIN held : held' = [held EXCEPT ![s] = <<>>]
    /\ UNCHANGED <<channels, pools, denied, settings, order>>

\* ensureDefaultChannel, ensureDirectChannel
Init ==
    /\ channels = (Default :> [NewRow({}) EXCEPT !.priority = 1])
                    @@ (Direct :> [NewRow({}) EXCEPT !.presets = {"local", "private"}])
    /\ pools = (Default :> {}) /\ held \in Subscriptions /\ denied = {}
    /\ \E p \in Profiles, t \in {Default, "ch1"} :
          settings = [profile |-> p, route |-> "proxy", target |-> t]
    /\ order = <<Direct>> /\ changes = 0

Next ==
    \/ Create \/ UpdateChannel \/ UpdateDefault \/ UpdateDirect \/ DeleteChannel
    \/ ReorderChannels \/ SetPool \/ SetExcluded \/ SetDefaultRoute \/ SourceChanges

Spec == Init /\ [][Next]_vars

-----------------------------------------------------------------------------
\* The engine: the first rule that matches, and the nodes a name leads to.
Decided(doc, traffic) ==
    LET i == SelectInSeq(doc.rules, LAMBDA r : r.kind \in traffic \cup {"any"})
    IN  doc.rules[i].target
MembersOf(doc, name) == UNION {Range(g.members) : g \in {h \in Range(doc.groups) : h.name = name}}
Leads(doc, name) ==
    LET below == MembersOf(doc, name) \cup UNION {MembersOf(doc, m) : m \in MembersOf(doc, name)}
    IN  {n \in below \cup {name} : n \notin {g.name : g \in Range(doc.groups)}}
NodesOf(doc, name) == {n.node : n \in {m \in Range(doc.nodes) : m.name \in Leads(doc, name)}}

(* The engine accepts every configuration: no two nodes or groups have one   *)
(* name, a group has a member, and what a group, a rule or a list refers to  *)
(* is there, whatever the subscriptions call their nodes.                    *)
Loads(doc) ==
    LET names   == [i \in DOMAIN doc.nodes |-> doc.nodes[i].name]
                      \o [i \in DOMAIN doc.groups |-> doc.groups[i].name]
        defined == Range(names) \cup {Exit, Reject}
    IN  /\ IsInjective(names) /\ Range(names) \cap {Exit, Reject} = {}
        /\ \A g \in Range(doc.groups) : g.members # <<>> /\ Range(g.members) \subseteq defined
        /\ \A r \in Range(doc.rules) :
             r.target \in defined /\ (r.kind \in Lists \cup {"managed"} => r.kind \in doc.providers)

(* A group leads to nodes of its own channel only, and to all that were not  *)
(* excluded, although names are shared, collapsed and renamed. A pooled node *)
(* brings those of its name with it in the default channel.                  *)
Pooled(doc) ==
    \A id \in Range(Ordered) :
       /\ Range(Race(id)) \subseteq NodesOf(doc, Auto(id))
       /\ \A n \in NodesOf(doc, Auto(id)) :
            n \in Range(Defines(id)) /\ \E m \in Range(Race(id)) : m.name = n.name

\* The proxy channels that claim the traffic, as the administrator ordered them.
Claimants(traffic) ==
    SelectSeq(order, LAMBDA id : /\ IsProxy(id) /\ channels[id].enabled
                                 /\ channels[id].matcher \cap traffic # {})
\* What no rule of a channel claims.
Unclaimed == IF DirectDefault THEN {Exit} ELSE {Auto(Default), <<"PROXY">>}

Traffic == {{a, b} : a, b \in Kinds \cup {"local", "private", "managed"}}

\* What Direct takes before any proxy channel: its presets, and the networks and
\* exact exceptions of a gateway.
DirectFirst(traffic) ==
    \/ Presets \cap traffic # {}
    \/ Gateway /\ DirectMatches \cap traffic \cap {"net", "notblocked"} # {}

\* Where traffic should go. The rest of Direct is where the code puts it, after
\* every proxy channel.
Due(traffic) ==
    LET claimants == Claimants(traffic)
    IN  IF DirectFirst(traffic) THEN {Exit}
        ELSE IF channels[Default].matcher \cap Lists \cap traffic # {} THEN {Auto(Default)}
        ELSE IF Managed /\ "managed" \in traffic THEN {Auto(settings.target)}
        ELSE IF claimants # <<>> THEN {Auto(claimants[1])}
        ELSE IF DirectMatches \cap traffic # {} THEN {Exit} ELSE Unclaimed

(* After any sequence of operations a forced list of Default and the managed *)
(* rules are served first, then the proxy channels in the order the          *)
(* administrator gave them, then Direct, then the route of Default; and once *)
(* the panel is a gateway or routes directly by default, what is meant for a *)
(* channel never leaves unproxied, however empty the channel is. Direct is   *)
(* the exception to the administrator's order: he may put it before a proxy  *)
(* channel, and the design of Direct (docs/specs/2026-07-13, its section 7)  *)
(* and channels/service.ts:250 say that it is then tried first, but          *)
(* buildRules (multiConfig.ts:314) puts its matcher after them all.          *)
Routed(doc) ==
    \A traffic \in Traffic :
       LET target == Decided(doc, traffic)
       IN  doc.nodes # <<>> \/ Gateway \/ DirectDefault
             => /\ target \in Due(traffic)
                /\ (Gateway \/ DirectDefault) /\ target # Exit => Exit \notin Leads(doc, target)

ConfigurationSound == LET doc == Document IN Loads(doc) /\ Pooled(doc) /\ Routed(doc)
=============================================================================
