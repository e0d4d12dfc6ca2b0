--------------------------- MODULE GatewayReadiness ---------------------------
(* What the panel calls a working connection mode (modules/gateway/           *)
(* readiness.ts, settings.ts, clients/gateway-network.ts): the checks of the  *)
(* health page, which search the groups of the engine for a node, and the     *)
(* verification an apply makes, over what the engine and the kernel show. A   *)
(* check reads the engine more than once; here it answers the same each time. *)
EXTENDS Integers, Sequences, FiniteSets, SequencesExt

CONSTANTS
    Default, Other,   \* groups: of the default channel, any other
    Real, Pseudo,     \* members: a node, an engine builtin that is no node
    None

VARIABLES
    profile, \* what is saved: [tun, route, home, listen]
    state,   \* the last apply: "applied", "failed", "unknown"
    engine,  \* [mode, tun, ipv6, rules, proxies, egress, lists]
    host,    \* [local, lan, wan, device, udp, tcp, home, upstream, files]
    answer   \* the checks by name and "ready", None before

vars == <<profile, state, engine, host, answer>>

Groups   == {Default, Other}
Builtins == {"DIRECT", "REJECT"}

-----------------------------------------------------------------------------
(* The rules and the groups of the engine.                                   *)

\* A rule: [match, proxy, disabled].
Active == SelectSeq(engine.rules, LAMBDA r : ~r.disabled)

\* Proxies that the tunnelled traffic of the rules leads to.
VpnTargets ==
    IF profile.route = "proxy" THEN {Default}
    ELSE {Active[n].proxy : n \in DOMAIN Active} \ (Builtins \cup {"PROBE"})

DefaultRule ==
    /\ Active # <<>>
    /\ Last(Active).match
    /\ Last(Active).proxy = IF profile.route = "direct" THEN "DIRECT" ELSE Default
    /\ Cardinality({n \in DOMAIN Active : Active[n].match}) = 1

\* hasNode and its loop over members: depth first, each name once.
Proxies == DOMAIN engine.proxies
HasNode[name \in Proxies, visited \in SUBSET Proxies] ==
    LET members == engine.proxies[name]
        Visit(acc, member) ==
            IF acc.found \/ member \in acc.seen \cup Builtins \/ member \notin Proxies THEN acc
            ELSE HasNode[member, acc.seen]
        own == [found |-> members = None /\ name # Pseudo, seen |-> visited \cup {name}]
    IN  IF members = None \/ Contains(members, "DIRECT") THEN own
        ELSE FoldLeft(Visit, own, members)

\* visited.clear()
Cleared(seen) == {}

VpnPool ==
    LET Check(target, so_far) ==
            IF so_far.found /\ target \in Proxies \ (Cleared(so_far.seen) \cup Builtins)
            THEN HasNode[target, Cleared(so_far.seen)]
            ELSE [so_far EXCEPT !.found = FALSE]
    IN  FoldRight(Check, SetToSeq(VpnTargets), [found |-> TRUE, seen |-> {}]).found

VpnEgress == VpnTargets \subseteq engine.egress

-----------------------------------------------------------------------------
(* The listeners, the interfaces and the lists.                              *)

\* probeMihomoDnsListener: a wildcard is bound where the engine is.
Target(listen) ==
    CASE listen \in {"any", "loopback"} /\ ~host.local -> "controller"
      [] listen = "any" -> "loopback"
      [] OTHER -> listen

\* probeDnsListener, parseDnsAResponse: the first whole answer to the own query
\* with an address, before an error, the end or the timeout.
Probed(answers, listen) ==
    LET a == answers[Target(listen)] IN IF a.whole THEN a.addresses ELSE {}

Fake(addresses) == addresses # {} /\ addresses \subseteq {"fake"}
DnsUdp == Fake(Probed(host.udp, profile.listen))
DnsTcp == Fake(Probed(host.tcp, profile.listen))

Inspects == profile.tun \/ host.local
RuntimeAgrees == engine.mode = "rule" /\ engine.tun = profile.tun /\ engine.ipv6 = FALSE

\* assertIndependentLocalDns
Independent == profile.home # "own"

\* validatePrivateLists, assertPrivateProvidersLoaded: the entries of every
\* file, none of them empty, are those the engine has loaded.
ListsLoaded ==
    \A l \in DOMAIN host.files : host.files[l] > 0 /\ l \in DOMAIN engine.lists
                                  /\ engine.lists[l] = host.files[l]

\* assertGatewayNetworkActivated
Activated ==
    /\ RuntimeAgrees
    /\ profile.tun => host.local /\ host.lan /\ host.device = "fake"
    /\ Inspects => host.wan
    /\ ~profile.tun /\ Inspects => host.device = "absent"
    /\ DnsUdp /\ DnsTcp

-----------------------------------------------------------------------------
(* checkGatewayReadiness: a check that throws has failed.                    *)

Checks ==
    [applied    |-> state = "applied",
     interfaces |-> (profile.tun => host.lan) /\ (Inspects => host.wan),
     local_dns  |-> profile.home # None => Independent /\ host.home,
     runtime    |-> RuntimeAgrees,
     tun        |-> IF profile.tun THEN host.local /\ host.device = "fake"
                    ELSE ~Inspects \/ host.device = "absent",
     dns_udp    |-> DnsUdp,
     dns_tcp    |-> DnsTcp,
     upstream   |-> host.upstream,
     lists      |-> ListsLoaded,
     rule       |-> DefaultRule,
     pool       |-> VpnPool,
     egress     |-> VpnEgress]

Ready(checks) == \A c \in DOMAIN checks : checks[c]

\* gatewayReadiness
GatewayReadinessChecked ==
    /\ answer = None /\ answer' = Checks
    /\ UNCHANGED <<profile, state, engine, host>>

\* The groups and rules an engine may show, with everything else in order; and
\* the rest, with one group and its catch-all.
Rule(match, proxy, disabled) == [match |-> match, proxy |-> proxy, disabled |-> disabled]
Members == UNION {[1..n -> Groups \cup {Real, Pseudo, "DIRECT"}] : n \in 0..2}
Whole(addresses) == [whole |-> TRUE, addresses |-> addresses]
AllThere == [t \in {"controller", "loopback", "lan"} |-> Whole({"fake"})]

Sound ==
    /\ state = "applied"
    /\ profile = [tun |-> TRUE, route |-> profile.route, home |-> None, listen |-> "any"]
    /\ host = [local |-> TRUE, lan |-> TRUE, wan |-> TRUE, device |-> "fake", udp |-> AllThere,
               tcp |-> AllThere, home |-> TRUE, upstream |-> TRUE, files |-> <<1>>]

InitPool ==
    /\ \E route \in {"proxy", "direct"} :
         profile = [tun |-> TRUE, route |-> route, home |-> None, listen |-> "any"]
    /\ Sound
    /\ \E d, o \in Members, first, last \in {Rule(FALSE, Other, FALSE), Rule(TRUE, Default, FALSE),
                                             Rule(TRUE, "DIRECT", FALSE),
                                             Rule(TRUE, Default, TRUE)} :
         engine = [mode |-> "rule", tun |-> TRUE, ipv6 |-> FALSE, lists |-> <<1>>,
                   rules |-> <<first, last>>, egress |-> Groups,
                   proxies |-> [n \in Groups \cup {Real, Pseudo} |->
                                  CASE n = Default -> d [] n = Other -> o [] OTHER -> None]]

InitHost ==
    /\ state \in {"applied", "failed"}
    /\ profile \in [tun : BOOLEAN, route : {"proxy"}, home : {None, "own", "home"},
                    listen : {"any", "lan"}]
    /\ \E device \in {"absent", "other", "fake"}, local, lan, wan, whole \in BOOLEAN,
          seen \in {{"fake"}, {"fake", "real"}} :
         host = [local |-> local, lan |-> lan, wan |-> wan, device |-> device, home |-> TRUE,
                 upstream |-> TRUE, files |-> <<1>>,
                 udp |-> [AllThere EXCEPT !["controller"] = [whole |-> whole, addresses |-> seen]],
                 tcp |-> [AllThere EXCEPT !["loopback"] = [whole |-> whole, addresses |-> seen]]]
    /\ \E tun \in {TRUE, FALSE, None}, loaded \in {0, 1} :
         engine = [mode |-> "rule", tun |-> tun, ipv6 |-> FALSE, lists |-> <<loaded>>,
                   rules |-> <<Rule(TRUE, Default, FALSE)>>, egress |-> Groups,
                   proxies |-> [n \in {Default, Real} |-> IF n = Default THEN <<Real>> ELSE None]]

Init == answer = None /\ (InitPool \/ InitHost)
Next == GatewayReadinessChecked
Spec == Init /\ [][Next]_vars

-----------------------------------------------------------------------------
(* A target has a node when it is in every set that has the nodes and each   *)
(* group without DIRECT one of whose members it has.                         *)
Reaches(target) ==
    \A S \in SUBSET (DOMAIN engine.proxies) :
       /\ \A n \in DOMAIN engine.proxies : engine.proxies[n] = None /\ n # Pseudo => n \in S
       /\ \A g \in DOMAIN engine.proxies :
            engine.proxies[g] # None /\ ~Contains(engine.proxies[g], "DIRECT")
               /\ (\E n \in DOMAIN engine.proxies[g] : engine.proxies[g][n] \in S) => g \in S
       => target \in S

(* When the health page says ready, what no rule claims leaves by the route  *)
(* that was chosen, every group that carries traffic leads to a node by      *)
(* groups that never go direct, however groups nest and share members, and   *)
(* an apply would verify the same network; and a pool is only called empty   *)
(* when there is no such node.                                               *)
ReadinessTrue ==
    answer # None =>
       /\ Ready(answer) =>
            /\ SelectSeq(Active, LAMBDA r : r.match)[1].proxy =
                  (IF profile.route = "direct" THEN "DIRECT" ELSE Default)
            /\ Activated
       /\ answer.pool <=> \A t \in VpnTargets : Reaches(t)
=============================================================================
