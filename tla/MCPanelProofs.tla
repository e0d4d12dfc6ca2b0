---------------------------- MODULE MCPanelProofs ----------------------------
(* What the panel decides on evidence, for any addresses, resolvers, files,  *)
(* domains and timers.                                                       *)
EXTENDS MCPanel, FiniteSetTheorems, TLAPS

-----------------------------------------------------------------------------
(* One probe: the inductive invariant.                                       *)

Phases == {"resolving", "preparing", "connecting", "route-proof", "tls", "awaiting-http",
           "settling", "done"}
Probes == [direction : {"direct", "proxy"}, phase : Phases, origin : {"own", "other"},
           redirects : Nat, index : 0..1, address : Public4 \cup {0}, available : Nat]
Left == Nat \cup {Probe!Off}
Timers == [attempt : Left, resolver : Left, connect : Left, proof : Left]
Histories == [age : Nat, route : {"none", "target", "other"}, crowded : BOOLEAN]
Opened == [by : {"hop", "other"}, group : {"target", "other"}, address : Public4 \cup {0}]
            \cup {Probe!Closed}
Categories == {"none", "aborted", "total_timeout", "dns_failure", "infrastructure_error",
               "ipv6_unavailable", "unsafe_address", "proxy_auth_failure", "route_proof_failure",
               "connect_timeout", "tls_timeout", "tls_handshake_reset", "tls_error",
               "connection_reset_before_http", "network_error", "http_response",
               "unsafe_redirect", "redirect_limit"}
Verdicts == [category : Categories, address : Public4 \cup {0}, available : Nat,
             origin : {"own", "other"}]

ProbeTypes ==
    /\ probe \in Probes /\ timers \in Timers /\ history \in Histories
    /\ proof \in {"none", "running", "passed", "failed"}
    /\ tunnels \in Seq(Opened) /\ listener \in {"target", "other"}
    /\ verdict \in Verdicts

\* An address is chosen once it is known that it exists, and forgotten by a redirect.
Addressed ==
    /\ probe.address = 0 <=> probe.available = 0
    /\ Probe!Resolving => probe.address = 0
    /\ Probe!InHop \/ probe.phase = "preparing" => probe.address # 0

\* The timer of a connection and the age of its hop add up.
Timed ==
    /\ probe.phase \in {"resolving", "preparing"} => history.age = 0
    /\ Probe!InHop /\ timers.connect # Probe!Off => timers.connect + history.age = ConnectTimeout

\* What the engine lists and did not before is the tunnel of this hop, or another's.
Own(i) ==
    /\ tunnels[i].by = "hop" => probe.phase = "route-proof" /\ tunnels[i].group = history.route
    /\ tunnels[i].by = "other" /\ tunnels[i].address = probe.address => history.crowded
Routed ==
    /\ Probe!Proxied /\ probe.phase \in {"connecting", "route-proof"} =>
         \A i \in Probe!Listed \ baseline : Own(i)
    /\ Probe!Proxied /\ probe.phase \in {"tls", "awaiting-http"} =>
         /\ proof = "passed"
         /\ history.route = "target" \/ history.crowded

Settled ==
    /\ verdict.category # "none" => probe.phase \in {"settling", "done"}
    /\ probe.phase = "settling" => proof = "running" /\ transport = {}
    /\ Probe!NothingLeft /\ Probe!BlamesDestination /\ Probe!RouteProved /\ Probe!EvidenceAccepted

ProbeInv == ProbeTypes /\ Addressed /\ Timed /\ Routed /\ Settled

-----------------------------------------------------------------------------
LEMMA InLeft ==
    /\ Probe!Off \in Left /\ ResolverTimeout \in Left /\ ConnectTimeout \in Left
    /\ ProofTimeout \in Left /\ TotalTimeout \in Left
  BY ProbeAssumption DEF Left

LEMMA ProbeInit == Probe!Init => ProbeInv
<1> SUFFICES ASSUME Probe!Init PROVE ProbeInv
  OBVIOUS
<1> USE DEF Probe!Init, Probe!NewHop, Probe!Undecided, Probe!Groups
<1>1. ProbeTypes
  <2>1. probe \in Probes BY DEF Probes, Phases
  <2>2. timers \in Timers BY InLeft DEF Timers
  <2>3. history \in Histories /\ verdict \in Verdicts BY DEF Histories, Verdicts, Categories
  <2>4. tunnels \in Seq(Opened) OBVIOUS
  <2> QED BY <2>1, <2>2, <2>3, <2>4 DEF ProbeTypes
<1>2. Addressed /\ Timed /\ Routed
  BY DEF Addressed, Timed, Routed, Probe!Resolving, Probe!InHop, Probe!Proxied
<1>3. Settled
  BY DEF Settled, Probe!NothingLeft, Probe!BlamesDestination, Probe!RouteProved,
         Probe!EvidenceAccepted, Probe!Ended, Probe!Blaming
<1> QED
  BY <1>1, <1>2, <1>3 DEF ProbeInv

\* Whatever settles a hop for a reason it had keeps all of it.
LEMMA Settling ==
    ASSUME NEW category \in Categories, ProbeInv, probe.phase \notin {"settling", "done"},
           Probe!Settle(category),
           category \in {"connect_timeout", "tls_timeout"} => history.age >= ConnectTimeout,
           Probe!Proxied /\ category \in Probe!Blaming \ {"connect_timeout"} => proof = "passed",
           Probe!Proxied /\ category = "http_response" =>
              history.route = "target" \/ history.crowded,
           category = "dns_failure" => probe.address = 0,
           category \in Probe!Blaming \cup {"http_response"} => probe.address # 0
    PROVE  ProbeInv'
<1>0. Probe!Off \in Left
  BY InLeft
<1> USE DEF ProbeInv, Probe!Settle
<1>1. /\ \E p \in {"settling", "done"} :
            probe' = [probe EXCEPT !.phase = p] /\ (p = "settling" <=> proof = "running")
      /\ transport' = {} /\ proof' = proof
  BY Zenon DEF Probe!Ends
<1>2. PICK p \in {"settling", "done"} :
         probe' = [probe EXCEPT !.phase = p] /\ (p = "settling" <=> proof = "running")
  BY <1>1
<1>3. probe' \in Probes /\ probe'.phase = p
  BY <1>2 DEF ProbeTypes, Probes, Phases
<1>4. probe'.address = probe.address /\ probe'.available = probe.available
      /\ probe'.direction = probe.direction
  BY <1>2 DEF ProbeTypes, Probes
<1>5. verdict' = [category |-> category, address |-> probe.address,
                  available |-> probe.available, origin |-> probe.origin]
  BY DEF Probe!Result
<1>6. ProbeTypes'
  <2>1. timers' \in Timers BY <1>0 DEF ProbeTypes, Timers
  <2>2. verdict' \in Verdicts BY <1>5 DEF ProbeTypes, Probes, Verdicts
  <2> QED BY <1>1, <1>3, <2>1, <2>2 DEF ProbeTypes
<1>7. Addressed' /\ Timed' /\ Routed'
  BY <1>3, <1>4 DEF Addressed, Timed, Routed, Probe!Resolving, Probe!InHop
<1>8. Settled'
  <2>1. Probe!NothingLeft' BY <1>1, <1>2, <1>3 DEF Probe!NothingLeft, Probe!Ended
  <2>2. Probe!BlamesDestination'
    BY <1>1, <1>4, <1>5 DEF Probe!BlamesDestination, Probe!Blaming, Probe!Proxied
  <2>3. Probe!RouteProved' BY <1>4, <1>5 DEF Probe!RouteProved, Probe!Proxied
  <2>4. Probe!EvidenceAccepted'
    BY <1>5 DEF Probe!EvidenceAccepted, Probe!Acceptable, Addressed, ProbeTypes, Probes,
                Probe!Addresses, Probe!Blaming
  <2> QED BY <1>1, <1>2, <1>3, <2>1, <2>2, <2>3, <2>4 DEF Settled
<1> QED
  BY <1>6, <1>7, <1>8

LEMMA Timeouts ==
    ASSUME ProbeInv, Probe!ConnectTimesOut PROVE ProbeInv'
<1> USE DEF ProbeInv
<1>1. Probe!InHop /\ timers.connect = 0 /\ timers.connect # Probe!Off
  BY DEF Probe!ConnectTimesOut, Probe!Off
<1>2. history.age >= ConnectTimeout /\ probe.address # 0
      /\ probe.phase \notin {"settling", "done"}
  BY <1>1, ProbeAssumption DEF Timed, Addressed, ProbeTypes, Histories, Probe!InHop
<1>3. CASE probe.phase = "connecting"
  <2>1. Probe!Settle("connect_timeout") BY <1>3 DEF Probe!ConnectTimesOut
  <2> QED BY <1>2, <2>1, Settling DEF Categories, Probe!Blaming
<1>4. CASE probe.phase = "route-proof"
  <2>1. Probe!Settle("route_proof_failure") BY <1>4 DEF Probe!ConnectTimesOut
  <2> QED BY <1>2, <2>1, Settling DEF Categories, Probe!Blaming
<1>5. CASE probe.phase \in {"tls", "awaiting-http"}
  <2>1. Probe!Settle("tls_timeout") BY <1>5 DEF Probe!ConnectTimesOut
  <2> QED BY <1>2, <1>5, <2>1, Settling DEF Categories, Probe!Blaming, Routed
<1> QED
  BY <1>1, <1>3, <1>4, <1>5 DEF Probe!InHop

LEMMA Breaking ==
    ASSUME ProbeInv, Probe!Breaks PROVE ProbeInv'
<1> USE DEF ProbeInv
<1>1. Probe!InHop /\ probe.phase \notin {"settling", "done"} /\ probe.address # 0
  BY DEF Probe!Breaks, Probe!InHop, Addressed
<1>2. PICK reset \in BOOLEAN : Probe!Settle(Probe!Classified(reset))
  BY DEF Probe!Breaks
<1> DEFINE c == Probe!Classified(reset)
<1>3. /\ c \in {"tls_handshake_reset", "tls_error", "connection_reset_before_http",
                "network_error"}
      /\ c \in {"tls_handshake_reset", "connection_reset_before_http"} =>
            probe.phase \in {"tls", "awaiting-http"}
  BY DEF Probe!Classified
<1> HIDE DEF c
<1>4. Probe!Proxied /\ c \in Probe!Blaming \ {"connect_timeout"} => proof = "passed"
  BY <1>3 DEF Routed, Probe!Blaming
<1>5. c \in Categories /\ c \notin {"connect_timeout", "tls_timeout", "http_response", "dns_failure"}
  BY <1>3 DEF Categories
<1> QED
  BY <1>1, <1>2, <1>4, <1>5, Settling DEF c

LEMMA Ending ==
    ASSUME ProbeInv,
           \/ Probe!CallerAborts \/ Probe!DeadlinePasses \/ Probe!ConnectRefused
           \/ Probe!Responds
    PROVE  ProbeInv'
<1> USE DEF ProbeInv
<1>1. CASE Probe!CallerAborts
  BY <1>1, Settling DEF Probe!CallerAborts, Categories, Probe!Blaming
<1>2. CASE Probe!DeadlinePasses
  BY <1>2, Settling DEF Probe!DeadlinePasses, Categories, Probe!Blaming
<1>3. CASE Probe!ConnectRefused
  BY <1>3, Settling DEF Probe!ConnectRefused, Categories, Probe!Blaming
<1>4. CASE Probe!Responds
  <2>1. probe.phase = "awaiting-http" /\ probe.address # 0
    BY <1>4 DEF Probe!Responds, Addressed, Probe!InHop
  <2>2. Probe!Proxied => history.route = "target" \/ history.crowded
    BY <2>1 DEF Routed
  <2>3. PICK c \in {"http_response", "unsafe_redirect", "network_error"} : Probe!Settle(c)
    BY <1>4 DEF Probe!Responds
  <2> QED BY <2>1, <2>2, <2>3, Settling DEF Categories, Probe!Blaming
<1> QED
  BY <1>1, <1>2, <1>3, <1>4

\* A resolution that fails blames nobody; one that succeeds gives a public address.
LEMMA Resolution == ASSUME ProbeInv, Probe!ResolversAnswer PROVE ProbeInv'
<1> USE DEF ProbeInv
<1>1. PICK outcomes \in [Resolvers -> Probe!Outcomes] :
         LET failure == IF refused THEN "proxy_auth_failure"
                        ELSE Probe!ResolutionFails(outcomes)
             usable  == Probe!Usable(outcomes)
         IN  \/ failure # "none" /\ Probe!Settle(failure)
             \/ /\ failure = "none"
                /\ \E a \in Probe!Chosen(usable) :
                     probe' = Probe!Prepared(a, Cardinality(usable))
                /\ timers' = [timers EXCEPT !.resolver = Probe!Off,
                                !.connect = IF Probe!Proxied THEN Probe!Off ELSE ConnectTimeout]
                /\ transport' = IF Probe!Proxied THEN {} ELSE {"request"}
                /\ history' = Probe!NewHop
                /\ UNCHANGED <<proof, baseline, tunnels, listener, refused, verdict>>
  BY DEF Probe!ResolversAnswer, Probe!Chosen, Probe!Cardinality, Cardinality
<1> DEFINE failure == IF refused THEN "proxy_auth_failure" ELSE Probe!ResolutionFails(outcomes)
           usable == Probe!Usable(outcomes)
<1>2. probe.phase = "resolving" /\ probe.address = 0 /\ verdict.category = "none"
  BY DEF Probe!ResolversAnswer, Probe!Resolving, Addressed, Settled
<1>3. CASE failure # "none"
  <2>1. failure \in {"proxy_auth_failure", "unsafe_address", "dns_failure",
                     "infrastructure_error", "ipv6_unavailable"}
    BY <1>3 DEF Probe!ResolutionFails
  <2>2. Probe!Settle(failure) BY <1>1, <1>3
  <2> HIDE DEF failure
  <2> QED BY <1>2, <2>1, <2>2, Settling DEF Categories, Probe!Blaming
<1>4. CASE failure = "none"
  <2>1. PICK a \in Probe!Chosen(usable) : probe' = Probe!Prepared(a, Cardinality(usable))
    BY <1>1, <1>4
  <2>2. a \in usable /\ usable \subseteq Public4
    <3>1. \A S, x : x \in Probe!Chosen(S) => x \in S BY Zenon DEF Probe!Chosen
    <3>2. Probe!Usable(outcomes) \subseteq Public4
      <4>1. \A S : S \cap Public4 \subseteq Public4 OBVIOUS
      <4> QED BY <4>1, Zenon DEF Probe!Usable
    <3> QED BY <2>1, <3>1, <3>2, Zenon
  <2>3. Cardinality(usable) \in Nat /\ Cardinality(usable) # 0
    BY <2>2, ProbeAssumption, FS_Subset, FS_CardinalityType, FS_EmptySet
  <2>4. /\ timers' = [timers EXCEPT !.resolver = Probe!Off,
                         !.connect = IF Probe!Proxied THEN Probe!Off ELSE ConnectTimeout]
        /\ transport' = IF Probe!Proxied THEN {} ELSE {"request"}
        /\ history' = Probe!NewHop
        /\ UNCHANGED <<proof, baseline, tunnels, listener, refused, verdict>>
    BY <1>1, <1>4
  <2> HIDE DEF usable, failure
  <2>5. /\ probe' \in Probes /\ probe'.address = a /\ probe'.available = Cardinality(usable)
        /\ probe'.phase = (IF Probe!Proxied THEN "preparing" ELSE "connecting")
        /\ probe'.direction = probe.direction
    BY <2>1, <2>2, <2>3 DEF Probe!Prepared, ProbeTypes, Probes, Phases
  <2>6. Probe!Off \in Left /\ ConnectTimeout \in Left BY InLeft
  <2>7. timers' \in Timers BY <2>4, <2>6 DEF ProbeTypes, Timers
  <2>8. ~Probe!Proxied => timers'.connect = ConnectTimeout
    BY <2>4 DEF ProbeTypes, Timers
  <2>9. history' \in Histories /\ history'.age = 0
    BY <2>4 DEF Probe!NewHop, Histories
  <2>10. ProbeTypes' BY <2>4, <2>5, <2>7, <2>9 DEF ProbeTypes
  <2>11. Addressed' BY <2>2, <2>3, <2>5, ProbeAssumption DEF Addressed, Probe!Resolving
  <2>12. Timed'
    BY <2>5, <2>8, <2>9, ProbeAssumption DEF Timed, Probe!Proxied, Probe!InHop
  <2>13. Routed' /\ Settled'
    BY <1>2, <2>4, <2>5
    DEF Routed, Settled, Probe!Proxied, Probe!NothingLeft, Probe!BlamesDestination,
        Probe!RouteProved, Probe!EvidenceAccepted, Probe!Blaming, Probe!Ended
  <2> QED BY <2>10, <2>11, <2>12, <2>13
<1> QED
  BY <1>3, <1>4

LEMMA Preparing == ASSUME ProbeInv, Probe!Prepare PROVE ProbeInv'
<1> USE DEF ProbeInv
<1>1. probe.phase = "preparing" BY DEF Probe!Prepare
<1>2. CASE Probe!Settle("infrastructure_error")
  BY <1>1, <1>2, Settling DEF Categories, Probe!Blaming
<1>3. CASE /\ baseline' = Probe!Listed
           /\ probe' = [probe EXCEPT !.phase = "connecting"]
           /\ timers' = [timers EXCEPT !.connect = ConnectTimeout]
           /\ transport' = {"proxy"}
           /\ UNCHANGED <<proof, tunnels, listener, refused, history, verdict>>
  <2>1. /\ probe' \in Probes /\ probe'.phase = "connecting" /\ probe'.address = probe.address
        /\ probe'.available = probe.available /\ probe'.direction = probe.direction
    BY <1>3 DEF ProbeTypes, Probes, Phases
  <2>2. timers' \in Timers /\ timers'.connect = ConnectTimeout
    BY <1>3, InLeft DEF ProbeTypes, Timers
  <2>3. ProbeTypes' BY <1>3, <2>1, <2>2 DEF ProbeTypes
  <2>4. Addressed' BY <1>1, <2>1 DEF Addressed, Probe!Resolving, Probe!InHop
  <2>5. Timed' BY <1>1, <1>3, <2>1, <2>2, ProbeAssumption DEF Timed
  <2>6. Probe!Listed' = Probe!Listed BY <1>3 DEF Probe!Listed
  <2>7. Routed' /\ Settled'
    BY <1>1, <1>3, <2>1, <2>6
    DEF Routed, Settled, Probe!Proxied, Probe!NothingLeft, Probe!BlamesDestination,
        Probe!RouteProved, Probe!EvidenceAccepted, Probe!Blaming, Probe!Ended
  <2> QED BY <2>3, <2>4, <2>5, <2>7
<1> QED
  BY <1>2, <1>3 DEF Probe!Prepare

\* A tunnel at the end of the list.
LEMMA AppendTunnel ==
    ASSUME ProbeTypes, NEW t \in Opened, tunnels' = Append(tunnels, t)
    PROVE  /\ tunnels' \in Seq(Opened)
           /\ \A i \in Probe!Listed' : \/ i \in Probe!Listed /\ tunnels'[i] = tunnels[i]
                                      \/ tunnels'[i] = t
<1>1. tunnels' \in Seq(Opened) /\ DOMAIN tunnels' = 1..(Len(tunnels) + 1)
      /\ \A i \in 1..Len(tunnels) : tunnels'[i] = tunnels[i]
      /\ tunnels'[Len(tunnels) + 1] = t /\ DOMAIN tunnels = 1..Len(tunnels)
  BY DEF ProbeTypes
<1> QED
  BY <1>1 DEF Probe!Listed, ProbeTypes

LEMMA Tunnelling == ASSUME ProbeInv, Probe!Tunnelled PROVE ProbeInv'
<1> USE DEF ProbeInv
<1> DEFINE t == [by |-> "hop", group |-> listener, address |-> probe.address]
<1>1. /\ Probe!Proxied /\ probe.phase = "connecting"
      /\ tunnels' = Append(tunnels, t) /\ proof' = "running"
      /\ probe' = [probe EXCEPT !.phase = "route-proof"]
      /\ timers' = [timers EXCEPT !.proof = ProofTimeout]
      /\ history' = [history EXCEPT !.route = listener]
      /\ baseline' = baseline /\ listener' = listener /\ verdict' = verdict
  BY DEF Probe!Tunnelled, Probe!Tunnel
<1>2. t \in Opened BY DEF Opened, ProbeTypes, Probes
<1>3. /\ probe' \in Probes /\ probe'.phase = "route-proof" /\ probe'.address = probe.address
      /\ probe'.available = probe.available /\ probe'.direction = probe.direction
  BY <1>1 DEF ProbeTypes, Probes, Phases
<1>4. timers' \in Timers /\ timers'.connect = timers.connect
  <2>1. ProofTimeout \in Left BY InLeft
  <2> QED BY <1>1, <2>1 DEF ProbeTypes, Timers
<1>5. /\ history' \in Histories /\ history'.age = history.age /\ history'.route = listener
      /\ history'.crowded = history.crowded
  BY <1>1 DEF ProbeTypes, Histories
<1>6. ProbeTypes' BY <1>1, <1>2, <1>3, <1>4, <1>5, AppendTunnel DEF ProbeTypes
<1>7. Addressed' BY <1>1, <1>3 DEF Addressed, Probe!Resolving, Probe!InHop
<1>8. Timed' BY <1>1, <1>3, <1>4, <1>5 DEF Timed, Probe!InHop
<1>9. Routed'
  <2> SUFFICES ASSUME NEW i \in Probe!Listed', i \notin baseline' PROVE Own(i)'
    BY <1>3 DEF Routed, Probe!Proxied
  <2>1. (i \in Probe!Listed /\ tunnels'[i] = tunnels[i]) \/ tunnels'[i] = t
    BY <1>1, <1>2, AppendTunnel
  <2>2. CASE tunnels'[i] = t BY <1>3, <1>5, <2>2 DEF Own
  <2>3. CASE i \in Probe!Listed /\ tunnels'[i] = tunnels[i]
    <3>1. Own(i) BY <1>1, <2>3 DEF Routed
    <3> QED BY <1>1, <1>3, <1>5, <2>3, <3>1 DEF Own
  <2> QED BY <2>1, <2>2, <2>3
<1>10. Settled'
  BY <1>1, <1>3, <1>5 DEF Settled, Probe!Proxied, Probe!NothingLeft, Probe!BlamesDestination,
        Probe!RouteProved, Probe!EvidenceAccepted, Probe!Blaming, Probe!Ended
<1> QED
  BY <1>6, <1>7, <1>8, <1>9, <1>10

\* Others open tunnels, some of them to the address of the hop.
LEMMA Crowding == ASSUME ProbeInv, Probe!OtherTunnel PROVE ProbeInv'
<1> USE DEF ProbeInv
<1>1. PICK a \in Public4 :
         /\ tunnels' = Append(tunnels, [by |-> "other", group |-> listener, address |-> a])
         /\ history' = [history EXCEPT !.crowded = history.crowded \/ a = probe.address]
  BY DEF Probe!OtherTunnel, Probe!Tunnel
<1>2. UNCHANGED <<probe, timers, transport, proof, baseline, refused, verdict, listener>>
  BY DEF Probe!OtherTunnel
<1> DEFINE t == [by |-> "other", group |-> listener, address |-> a]
<1>3. t \in Opened BY DEF Opened, ProbeTypes
<1>4. /\ history' \in Histories /\ history'.age = history.age
      /\ history'.route = history.route
  BY <1>1 DEF ProbeTypes, Histories
<1>5. history'.crowded <=> history.crowded \/ a = probe.address
  BY <1>1 DEF ProbeTypes, Histories
<1>6. ProbeTypes' BY <1>1, <1>2, <1>3, <1>4, AppendTunnel DEF ProbeTypes
<1>7. Addressed' /\ Timed'
  BY <1>2, <1>4 DEF Addressed, Timed, Probe!Resolving, Probe!InHop
<1>8. Routed'
  <2>1. Probe!Proxied' <=> Probe!Proxied BY <1>2 DEF Probe!Proxied
  <2>2. ASSUME Probe!Proxied, probe.phase \in {"connecting", "route-proof"},
               NEW i \in Probe!Listed', i \notin baseline
        PROVE  Own(i)'
    <3>1. (i \in Probe!Listed /\ tunnels'[i] = tunnels[i]) \/ tunnels'[i] = t
      BY <1>1, <1>3, AppendTunnel
    <3>2. CASE tunnels'[i] = t BY <1>2, <1>5, <3>2 DEF Own
    <3>3. CASE i \in Probe!Listed /\ tunnels'[i] = tunnels[i]
      <4>1. Own(i) BY <2>2, <3>3 DEF Routed
      <4> QED BY <1>2, <1>4, <1>5, <3>3, <4>1 DEF Own
    <3> QED BY <3>1, <3>2, <3>3
  <2> QED BY <1>2, <1>4, <1>5, <2>1, <2>2 DEF Routed
<1>9. Settled'
  BY <1>2, <1>4, <1>5 DEF Settled, Probe!Proxied, Probe!NothingLeft, Probe!BlamesDestination,
        Probe!RouteProved, Probe!EvidenceAccepted, Probe!Ended, Probe!Acceptable
<1> QED
  BY <1>6, <1>7, <1>8, <1>9

LEMMA Proving == ASSUME ProbeInv, Probe!ProofPasses \/ Probe!ProofFails PROVE ProbeInv'
<1> USE DEF ProbeInv
<1>0. Probe!Off \in Left BY InLeft
<1>1. probe.phase = "route-proof" /\ proof = "running"
  BY DEF Probe!ProofPasses, Probe!ProofFails
<1>2. CASE Probe!ProofPasses
  <2>1. /\ proof' = "passed" /\ probe' = [probe EXCEPT !.phase = "tls"]
        /\ timers' = [timers EXCEPT !.proof = Probe!Off]
        /\ UNCHANGED <<baseline, tunnels, listener, refused, history, verdict>>
    BY <1>2 DEF Probe!ProofPasses
  <2>2. /\ probe' \in Probes /\ probe'.phase = "tls" /\ probe'.address = probe.address
        /\ probe'.available = probe.available /\ probe'.direction = probe.direction
    BY <2>1 DEF ProbeTypes, Probes, Phases
  <2>3. timers' \in Timers /\ timers'.connect = timers.connect
    BY <1>0, <2>1 DEF ProbeTypes, Timers
  <2>4. ProbeTypes' BY <2>1, <2>2, <2>3 DEF ProbeTypes
  <2>5. Addressed' /\ Timed'
    BY <1>1, <2>1, <2>2, <2>3 DEF Addressed, Timed, Probe!Resolving, Probe!InHop
  <2>6. Probe!Proxied => history.route = "target" \/ history.crowded
    <3>1. PICK i \in Probe!Listed \ baseline : Probe!Proves(tunnels[i])
      BY <1>2 DEF Probe!ProofPasses, Probe!Matching
    <3>2. tunnels[i] \in Opened /\ tunnels[i] # Probe!Closed
      BY <3>1 DEF Probe!Listed, ProbeTypes
    <3>3. tunnels[i].by \in {"hop", "other"} BY <3>2 DEF Opened
    <3>4. tunnels[i].address = probe.address /\ tunnels[i].group = "target"
      BY <3>1 DEF Probe!Proves
    <3>5. Probe!Proxied => Own(i) BY <1>1, <3>1 DEF Routed
    <3> QED BY <3>3, <3>4, <3>5 DEF Own
  <2>7. Routed' BY <2>1, <2>2, <2>6 DEF Routed, Probe!Proxied
  <2>8. Settled'
    BY <1>1, <2>1, <2>2
    DEF Settled, Probe!Proxied, Probe!NothingLeft, Probe!BlamesDestination,
        Probe!RouteProved, Probe!EvidenceAccepted, Probe!Blaming, Probe!Ended
  <2> QED BY <2>4, <2>5, <2>7, <2>8
<1>3. CASE Probe!ProofFails
  <2>1. /\ proof' = "failed" /\ probe' = [probe EXCEPT !.phase = "done"] /\ transport' = {}
        /\ timers' = [timers EXCEPT !.proof = Probe!Off, !.connect = Probe!Off]
        /\ verdict' = [category |-> "route_proof_failure", address |-> probe.address,
                       available |-> probe.available, origin |-> probe.origin]
        /\ UNCHANGED <<baseline, tunnels, listener, refused, history>>
    BY <1>3 DEF Probe!ProofFails, Probe!Result
  <2>2. /\ probe' \in Probes /\ probe'.phase = "done" /\ probe'.address = probe.address
        /\ probe'.available = probe.available /\ probe'.direction = probe.direction
    BY <2>1 DEF ProbeTypes, Probes, Phases
  <2>3. timers' \in Timers BY <1>0, <2>1 DEF ProbeTypes, Timers
  <2>4. verdict' \in Verdicts BY <2>1 DEF ProbeTypes, Probes, Verdicts, Categories
  <2>5. ProbeTypes' BY <2>1, <2>2, <2>3, <2>4 DEF ProbeTypes
  <2>6. Addressed' /\ Timed' /\ Routed'
    BY <1>1, <2>2 DEF Addressed, Timed, Routed, Probe!Resolving, Probe!InHop
  <2>7. Probe!EvidenceAccepted'
    BY <2>1 DEF Probe!EvidenceAccepted, Probe!Acceptable, Addressed, ProbeTypes, Probes,
                Probe!Addresses, Probe!Blaming
  <2>8. Settled'
    BY <2>1, <2>2, <2>7
    DEF Settled, Probe!Proxied, Probe!NothingLeft, Probe!BlamesDestination,
        Probe!RouteProved, Probe!Blaming, Probe!Ended
  <2> QED BY <2>5, <2>6, <2>8
<1> QED
  BY <1>2, <1>3

\* The rest of the hop.
LEMMA Moving ==
    ASSUME ProbeInv,
           \/ Probe!ProxyRefusesResolver \/ Probe!ProofSettles \/ Probe!Connected
           \/ Probe!Secured \/ Probe!Reload
    PROVE  ProbeInv'
<1> USE DEF ProbeInv
<1> DEFINE Rest == /\ probe'.address = probe.address /\ probe'.available = probe.available
                   /\ probe'.direction = probe.direction
<1>0. Probe!Off \in Left BY InLeft
<1>1. CASE Probe!ProxyRefusesResolver
  BY <1>1 DEF Probe!ProxyRefusesResolver, ProbeTypes, Addressed, Timed, Routed, Settled,
       Probe!Resolving, Probe!InHop, Probe!Proxied, Own, Probe!Listed, Probe!NothingLeft,
       Probe!BlamesDestination, Probe!RouteProved, Probe!EvidenceAccepted, Probe!Ended
<1>2. CASE Probe!ProofSettles
  <2>1. /\ probe.phase = "settling" /\ proof' = "failed"
        /\ probe' = [probe EXCEPT !.phase = "done"]
        /\ UNCHANGED <<timers, transport, baseline, tunnels, listener, refused, history, verdict>>
    BY <1>2 DEF Probe!ProofSettles
  <2>2. probe' \in Probes /\ probe'.phase = "done" /\ Rest
    BY <2>1 DEF ProbeTypes, Probes, Phases
  <2>3. ProbeTypes' /\ Addressed' /\ Timed' /\ Routed'
    BY <2>1, <2>2 DEF ProbeTypes, Addressed, Timed, Routed, Probe!Resolving, Probe!InHop
  <2>4. Settled'
    BY <2>1, <2>2 DEF Settled, Probe!Proxied, Probe!NothingLeft, Probe!BlamesDestination,
        Probe!RouteProved, Probe!EvidenceAccepted, Probe!Acceptable, Probe!Ended
  <2> QED BY <2>3, <2>4
<1>3. CASE Probe!Connected
  <2>1. /\ probe.phase = "connecting" /\ ~Probe!Proxied
        /\ probe' = [probe EXCEPT !.phase = "tls"]
        /\ UNCHANGED <<timers, transport, proof, baseline, tunnels, listener, refused, history, verdict>>
    BY <1>3 DEF Probe!Connected
  <2>2. probe' \in Probes /\ probe'.phase = "tls" /\ Rest
    BY <2>1 DEF ProbeTypes, Probes, Phases
  <2>3. ProbeTypes' /\ Addressed' /\ Timed' /\ Routed'
    BY <2>1, <2>2 DEF ProbeTypes, Addressed, Timed, Routed, Probe!Resolving, Probe!InHop,
                      Probe!Proxied
  <2>4. Settled'
    BY <2>1, <2>2 DEF Settled, Probe!Proxied, Probe!NothingLeft, Probe!BlamesDestination,
        Probe!RouteProved, Probe!EvidenceAccepted, Probe!Acceptable, Probe!Ended
  <2> QED BY <2>3, <2>4
<1>4. CASE Probe!Secured
  <2>1. /\ probe.phase = "tls" /\ probe' = [probe EXCEPT !.phase = "awaiting-http"]
        /\ timers' = [timers EXCEPT !.connect = Probe!Off]
        /\ UNCHANGED <<proof, baseline, tunnels, listener, refused, history, verdict>>
    BY <1>4 DEF Probe!Secured
  <2>2. probe' \in Probes /\ probe'.phase = "awaiting-http" /\ Rest
    BY <2>1 DEF ProbeTypes, Probes, Phases
  <2>3. timers' \in Timers /\ timers'.connect = Probe!Off
    BY <1>0, <2>1 DEF ProbeTypes, Timers
  <2>4. ProbeTypes' /\ Addressed' /\ Timed' /\ Routed'
    BY <2>1, <2>2, <2>3 DEF ProbeTypes, Addressed, Timed, Routed, Probe!Resolving,
                            Probe!InHop, Probe!Proxied
  <2>5. Settled'
    BY <2>1, <2>2 DEF Settled, Probe!Proxied, Probe!NothingLeft, Probe!BlamesDestination,
        Probe!RouteProved, Probe!EvidenceAccepted, Probe!Acceptable, Probe!Ended
  <2> QED BY <2>4, <2>5
<1>5. CASE Probe!Reload
  BY <1>5 DEF Probe!Reload, Probe!process, Probe!Groups, ProbeTypes, Addressed, Timed, Routed,
       Settled, Probe!Resolving, Probe!InHop, Probe!Proxied, Own, Probe!Listed,
       Probe!NothingLeft, Probe!BlamesDestination, Probe!RouteProved,
       Probe!EvidenceAccepted, Probe!Ended
<1> QED BY <1>1, <1>2, <1>3, <1>4, <1>5

\* A redirect begins a hop that knows nothing of the one before.
LEMMA Redirecting == ASSUME ProbeInv, Probe!Redirected PROVE ProbeInv'
<1> USE DEF ProbeInv
<1>1. probe.phase = "awaiting-http" /\ verdict.category = "none"
  BY DEF Probe!Redirected, Settled
<1>2. CASE Probe!Settle("redirect_limit")
  BY <1>1, <1>2, Settling DEF Categories, Probe!Blaming
<1>3. CASE /\ \E o \in {"own", "other"} :
                probe' = [Probe!NextTarget(o) EXCEPT !.redirects = @ + 1]
           /\ timers'  = [timers EXCEPT !.resolver = ResolverTimeout]
           /\ transport' = {} /\ proof' = "none" /\ history' = Probe!NewHop
           /\ UNCHANGED <<baseline, tunnels, listener, refused, verdict>>
  <2>1. PICK o \in {"own", "other"} :
           probe' = [Probe!NextTarget(o) EXCEPT !.redirects = @ + 1]
    BY <1>3
  <2>2. Probe!NextTarget(o) \in Probes /\ Probe!NextTarget(o).phase = "resolving"
        /\ Probe!NextTarget(o).address = 0 /\ Probe!NextTarget(o).available = 0
    BY DEF Probe!NextTarget, ProbeTypes, Probes, Phases
  <2>3. /\ probe' \in Probes /\ probe'.phase = "resolving" /\ probe'.address = 0
        /\ probe'.available = 0
    <3> DEFINE n == Probe!NextTarget(o)
    <3>1. n \in Probes /\ probe' = [n EXCEPT !.redirects = n.redirects + 1]
      BY <2>1, <2>2
    <3>2. n.phase = "resolving" /\ n.address = 0 /\ n.available = 0 BY <2>2
    <3> HIDE DEF n
    <3>3. n.redirects + 1 \in Nat BY <3>1 DEF Probes
    <3> QED BY <3>1, <3>2, <3>3 DEF Probes
  <2>4. timers' \in Timers
    <3>1. ResolverTimeout \in Left BY InLeft
    <3> QED BY <1>3, <3>1 DEF ProbeTypes, Timers
  <2>5. history' \in Histories /\ history'.age = 0
    BY <1>3 DEF Probe!NewHop, Histories
  <2>6. ProbeTypes' BY <1>3, <2>3, <2>4, <2>5 DEF ProbeTypes
  <2>7. Addressed' /\ Timed' /\ Routed'
    BY <2>3, <2>5 DEF Addressed, Timed, Routed, Probe!Resolving, Probe!InHop
  <2>8. Settled'
    BY <1>1, <1>3, <2>3
    DEF Settled, Probe!NothingLeft, Probe!BlamesDestination, Probe!RouteProved,
        Probe!EvidenceAccepted, Probe!Blaming, Probe!Ended
  <2> QED BY <2>6, <2>7, <2>8
<1> QED
  BY <1>2, <1>3 DEF Probe!Redirected

\* A tunnel the engine closes proves nothing any more.
LEMMA Closing == ASSUME ProbeInv, Probe!TunnelCloses PROVE ProbeInv'
<1> USE DEF ProbeInv
<1>1. PICK i \in Probe!Listed : tunnels' = [tunnels EXCEPT ![i] = Probe!Closed]
  BY DEF Probe!TunnelCloses
<1>2. UNCHANGED <<probe, timers, transport, proof, baseline, refused, history, verdict, listener>>
  BY DEF Probe!TunnelCloses, Probe!process
<1>3. Probe!Closed \in Opened /\ i \in DOMAIN tunnels
  BY DEF Opened, Probe!Listed
<1>4. tunnels' \in Seq(Opened) /\ DOMAIN tunnels' = DOMAIN tunnels
      /\ \A j \in DOMAIN tunnels : tunnels'[j] = IF j = i THEN Probe!Closed ELSE tunnels[j]
  <2> HIDE DEF ProbeInv
  <2> QED BY <1>1, <1>3 DEF ProbeInv, ProbeTypes
<1>5. \A j \in Probe!Listed' : j \in Probe!Listed /\ tunnels'[j] = tunnels[j]
  BY <1>4 DEF Probe!Listed
<1>6. ProbeTypes' BY <1>2, <1>4 DEF ProbeTypes
<1>7. Addressed' /\ Timed'
  BY <1>2 DEF Addressed, Timed, Probe!Resolving, Probe!InHop
<1>8. Routed'
  <2>1. Probe!Proxied' <=> Probe!Proxied BY <1>2 DEF Probe!Proxied
  <2>2. ASSUME Probe!Proxied, probe.phase \in {"connecting", "route-proof"},
               NEW j \in Probe!Listed', j \notin baseline
        PROVE  Own(j)'
    <3>1. Own(j) BY <1>5, <2>2 DEF Routed
    <3> QED BY <1>2, <1>5, <3>1 DEF Own
  <2> QED BY <1>2, <2>1, <2>2 DEF Routed
<1>9. Settled'
  BY <1>2 DEF Settled, Probe!Proxied, Probe!NothingLeft, Probe!BlamesDestination,
              Probe!RouteProved, Probe!EvidenceAccepted, Probe!Ended
<1> QED
  BY <1>6, <1>7, <1>8, <1>9

\* Time passes for the timers and for the hop alike, and for none that is over.
LEMMA Ticking == ASSUME ProbeInv, Probe!Tick PROVE ProbeInv'
<1> USE DEF ProbeInv
<1>1. /\ ~Probe!Overdue
      /\ timers' = [t \in DOMAIN timers |-> Probe!Down(timers[t])]
      /\ history' = [history EXCEPT !.age = IF Probe!InHop THEN history.age + 1 ELSE history.age]
      /\ UNCHANGED <<probe, transport, proof, baseline, tunnels, listener, refused, verdict>>
  BY DEF Probe!Tick
<1>2. timers' \in Timers
      /\ timers'.connect = IF timers.connect > 0 THEN timers.connect - 1 ELSE timers.connect
  <2>1. timers.connect \in Left /\ timers.attempt \in Left /\ timers.resolver \in Left
        /\ timers.proof \in Left /\ DOMAIN timers = {"attempt", "resolver", "connect", "proof"}
    BY DEF ProbeTypes, Timers
  <2>2. \A t \in Left : Probe!Down(t) \in Left BY DEF Left, Probe!Down, Probe!Off
  <2>3. timers' = [attempt |-> Probe!Down(timers.attempt), resolver |-> Probe!Down(timers.resolver),
                   connect |-> Probe!Down(timers.connect), proof |-> Probe!Down(timers.proof)]
    BY <1>1, <2>1
  <2>4. timers' \in Timers BY <2>1, <2>2, <2>3 DEF Timers
  <2>5. timers'.connect = Probe!Down(timers.connect) BY <2>3
  <2> QED BY <2>4, <2>5 DEF Probe!Down
<1>3. /\ history' \in Histories /\ history'.route = history.route
      /\ history'.age = IF Probe!InHop THEN history.age + 1 ELSE history.age
  <2>1. (IF Probe!InHop THEN history.age + 1 ELSE history.age) \in Nat
    BY DEF ProbeTypes, Histories
  <2> QED BY <1>1, <2>1 DEF ProbeTypes, Histories
<1>4. history'.crowded = history.crowded
  BY <1>1 DEF ProbeTypes, Histories
<1>5. history'.age >= history.age BY <1>3 DEF ProbeTypes, Histories
<1>6. ProbeTypes' BY <1>1, <1>2, <1>3 DEF ProbeTypes
<1>7. Addressed' BY <1>1 DEF Addressed, Probe!Resolving, Probe!InHop
<1>8. Timed'
  <2>1. Probe!InHop' <=> Probe!InHop BY <1>1 DEF Probe!InHop
  <2>2. probe.phase \in {"resolving", "preparing"} => history'.age = 0
    BY <1>3 DEF Timed, Probe!InHop
  <2>3. ASSUME Probe!InHop, timers'.connect # Probe!Off
        PROVE  timers'.connect + history'.age = ConnectTimeout
    <3>1. timers.connect # 0 BY <1>1, <2>3 DEF Probe!Overdue
    <3>2. timers.connect \in Int /\ history.age \in Nat
      <4>1. timers.connect \in Left /\ history.age \in Nat BY DEF ProbeTypes, Timers, Histories
      <4> QED BY <4>1 DEF Left, Probe!Off
    <3>3. timers.connect # Probe!Off => timers.connect + history.age = ConnectTimeout
      BY <2>3 DEF Timed
    <3>4. timers.connect > 0 \/ timers.connect < 0 BY <3>1, <3>2
    <3>5. CASE timers.connect > 0
      BY <1>2, <1>3, <2>3, <3>2, <3>3, <3>5 DEF Probe!Off
    <3>6. CASE timers.connect < 0
      <4>1. timers.connect \in Left BY DEF ProbeTypes, Timers
      <4>2. timers.connect = Probe!Off BY <3>6, <4>1 DEF Left
      <4>3. timers'.connect = timers.connect BY <1>2, <3>2, <3>6
      <4> QED BY <2>3, <4>2, <4>3
    <3> QED BY <3>4, <3>5, <3>6
  <2> QED BY <1>1, <2>1, <2>2, <2>3 DEF Timed
<1>9. Routed'
  BY <1>1, <1>3, <1>4 DEF Routed, Own, Probe!Proxied, Probe!Listed
<1>10. Settled'
  BY <1>1, <1>3, <1>4, <1>5, ProbeAssumption
  DEF Settled, Probe!Proxied, Probe!NothingLeft, Probe!BlamesDestination,
      Probe!RouteProved, Probe!EvidenceAccepted, Probe!Ended, ProbeTypes, Histories
<1> QED
  BY <1>6, <1>7, <1>8, <1>9, <1>10

LEMMA ProbeStep == ProbeInv /\ [Probe!Next]_Probe!vars => ProbeInv'
<1> SUFFICES ASSUME ProbeInv, [Probe!Next]_Probe!vars PROVE ProbeInv'
  OBVIOUS
<1>1. CASE Probe!Next
  <2>1. CASE Probe!ResolversAnswer BY <2>1, Resolution
  <2>2. CASE Probe!Prepare BY <2>2, Preparing
  <2>3. CASE Probe!Tunnelled BY <2>3, Tunnelling
  <2>4. CASE Probe!ProofPasses \/ Probe!ProofFails BY <2>4, Proving
  <2>5. CASE Probe!Breaks BY <2>5, Breaking
  <2>6. CASE Probe!ConnectTimesOut BY <2>6, Timeouts
  <2>7. CASE Probe!Redirected BY <2>7, Redirecting
  <2>8. CASE Probe!OtherTunnel BY <2>8, Crowding
  <2>9. CASE Probe!TunnelCloses BY <2>9, Closing
  <2>10. CASE Probe!Tick BY <2>10, Ticking
  <2>11. CASE \/ Probe!ProxyRefusesResolver \/ Probe!ProofSettles \/ Probe!Connected
              \/ Probe!Secured \/ Probe!Reload
    BY <2>11, Moving
  <2>12. CASE \/ Probe!CallerAborts \/ Probe!DeadlinePasses \/ Probe!ConnectRefused
              \/ Probe!Responds
    BY <2>12, Ending
  <2> QED
    BY <1>1, <2>1, <2>2, <2>3, <2>4, <2>5, <2>6, <2>7, <2>8, <2>9, <2>10, <2>11, <2>12
    DEF Probe!Next
<1>2. CASE UNCHANGED Probe!vars
  BY <1>2 DEF Probe!vars, Probe!process, ProbeInv, ProbeTypes, Addressed, Timed, Routed,
       Settled, Probe!Resolving, Probe!InHop, Probe!Proxied, Own, Probe!Listed,
       Probe!NothingLeft, Probe!BlamesDestination, Probe!RouteProved,
       Probe!EvidenceAccepted, Probe!Ended
<1> QED
  BY <1>1, <1>2

-----------------------------------------------------------------------------
(* Over the behaviours of the panel.                                         *)

ProbePart == part = "probe" => ProbeInv

LEMMA ProbePlaced == ProbePart /\ [Next]_vars => ProbePart'
<1> SUFFICES ASSUME ProbePart, [Next]_vars, part' = "probe" PROVE ProbeInv'
  BY DEF ProbePart
<1>1. CASE Next
  <2>1. part = "probe" BY <1>1 DEF Next
  <2>2. Probe!Next BY <1>1, <2>1 DEF Next
  <2> QED BY <2>1, <2>2, ProbeStep DEF ProbePart
<1>2. CASE UNCHANGED vars
  <2>1. part = "probe" /\ UNCHANGED Probe!vars
    BY <1>2 DEF vars, probeVars, Probe!vars, Probe!process
  <2> QED BY <2>1, ProbeStep DEF ProbePart
<1> QED
  BY <1>1, <1>2

(* A probe that ends by whatever comes first blames the destination only for  *)
(* what it was given the time to do over a proved route, leaves nothing open, *)
(* and its result is accepted as evidence, for any addresses, resolvers and   *)
(* timers.                                                                    *)
THEOREM ProbeStaysSound == Spec => []ProbeSound
<1>1. Init => ProbePart
  BY ProbeInit DEF Init, ProbePart
<1>2. ProbePart => ProbeSound
  BY DEF ProbePart, ProbeInv, Settled, ProbeSound
<1> QED
  BY <1>1, <1>2, ProbePlaced, PTL DEF Spec

-----------------------------------------------------------------------------
(* The coverage: the inductive invariant.                                    *)

Bodies == {Coverage!Absent, <<"covers">>}
             \cup ProviderContents \cup GeoContents \cup CustomContents
Versions == [content : Bodies, stamp : Nat, fresh : BOOLEAN]
Copies == [content : Bodies, stamp : Nat] \cup {Coverage!Unread}
Validated == [phase : {"reading", "probing", "early", "failed", "decided"},
              inputs : Coverage!Routings, custom : BOOLEAN, todo : Seq(Coverage!Files),
              open : Int, read : [Coverage!Files -> Copies],
              verdict : {"none", "covered", "incomplete", "uncovered"}]

CoverageTypes ==
    /\ routing \in Coverage!Routings /\ managed \in BOOLEAN
    /\ files \in [Coverage!Files -> Versions]
    /\ run.phase = "idle" \/ run \in Validated

\* A copy is of the present or of an earlier version, and a version has one content.
Version(f) ==
    \/ run.read[f] = Coverage!Unread
    \/ /\ run.read[f].stamp <= files[f].stamp
       /\ run.read[f].stamp = files[f].stamp => run.read[f].content = files[f].content
Copied == run.phase # "idle" => \A f \in Coverage!Files : Version(f)

Waiting == run.phase = "reading" /\ run.open # -1 => run.todo # <<>>

Probed ==
    run.phase = "probing" =>
       Coverage!Verdict(Coverage!Sources(run.inputs, run.custom, run.read)) = "uncovered"

CoverageInv == CoverageTypes /\ Copied /\ Waiting /\ Probed /\ Coverage!UncoveredNow

-----------------------------------------------------------------------------
\* The providers of a routing in some order.
LEMMA Listing ==
    ASSUME NEW ps \in SUBSET Providers
    PROVE  Coverage!SetToSeq(ps) \in Seq(Providers)
<1>1. IsFiniteSet(ps) BY CoverageAssumption, FS_Subset
<1>2. Cardinality(ps) \in Nat
      /\ ExistsBijection(1..Cardinality(ps), ps)
  BY <1>1, FS_CardinalityType
<1>3. PICK f \in [1..Cardinality(ps) -> ps] : Coverage!IsInjective(f)
  BY <1>2 DEF ExistsBijection, Bijection, Injection, IsInjective, Coverage!IsInjective
<1>4. Coverage!SetToSeq(ps) \in [1..Cardinality(ps) -> ps]
  BY <1>3, Zenon DEF Coverage!SetToSeq, Coverage!Cardinality, Cardinality
<1> QED
  BY <1>2, <1>4

LEMMA Ordered ==
    ASSUME NEW r \in Coverage!Routings
    PROVE  /\ r.providers \in Seq(Providers) /\ r.exit \in BOOLEAN /\ r.geosite \in BOOLEAN
           /\ ~r.exit => r.providers = <<>>
<1>1. Coverage!Orders \subseteq Seq(Providers)
  BY Listing DEF Coverage!Orders
<1>2. CASE r \in [providers : Coverage!Orders, always : {{}}, inline : {"covers", "silent"},
                  geosite : BOOLEAN, exit : {TRUE}]
  BY <1>1, <1>2
<1>3. CASE r \in [providers : Coverage!Orders, always : {Providers}, inline : {"silent"},
                  geosite : {FALSE}, exit : {TRUE}]
  BY <1>1, <1>3
<1>4. CASE r = [providers |-> <<>>, always |-> {}, inline |-> "silent", geosite |-> FALSE,
                exit |-> FALSE]
  BY <1>4
<1> QED
  BY <1>2, <1>3, <1>4 DEF Coverage!Routings

LEMMA CoverageInit == Coverage!Init => CoverageInv
<1> SUFFICES ASSUME Coverage!Init PROVE CoverageInv
  OBVIOUS
<1>1. run.phase = "idle" /\ routing \in Coverage!Routings /\ managed \in BOOLEAN
  BY DEF Coverage!Init
<1>2. files \in [Coverage!Files -> Versions]
  <2> DEFINE read == Coverage!Named(routing, managed) \ Coverage!PassedOver(routing)
             skipped == Coverage!PassedOver(routing)
  <2>1. PICK given \in [read -> UNION {Coverage!Contents(f) : f \in read}] :
           /\ \A f \in read : given[f] \in Coverage!Contents(f)
           /\ files = [f \in Coverage!Files |->
                         [content |-> IF f \in read THEN given[f]
                                      ELSE IF f \in skipped THEN <<"covers">>
                                      ELSE Coverage!Absent,
                          stamp |-> 0, fresh |-> TRUE]]
    BY DEF Coverage!Init
  <2>2. \A f : Coverage!Contents(f) \subseteq Bodies
    BY DEF Coverage!Contents, Bodies
  <2>3. \A f \in read : given[f] \in Bodies BY <2>1, <2>2
  <2>4. Coverage!Absent \in Bodies /\ <<"covers">> \in Bodies BY DEF Bodies
  <2> HIDE DEF read, skipped
  <2> QED BY <2>1, <2>3, <2>4 DEF Versions
<1> QED
  BY <1>1, <1>2 DEF CoverageInv, CoverageTypes, Copied, Waiting, Probed, Coverage!UncoveredNow

\* The files of a run, in the order they are read.
LEMMA Reading ==
    ASSUME NEW r \in Coverage!Routings, NEW custom \in BOOLEAN
    PROVE  /\ Coverage!Bounded(r) \in Seq(Providers)
           /\ Coverage!Reads(r, custom) \in Seq(Coverage!Files)
           /\ Len(r.providers) <= Limit => Coverage!Bounded(r) = r.providers
<1>1. r.providers \in Seq(Providers) BY Ordered
<1> DEFINE n == IF Len(r.providers) > Limit THEN Limit ELSE Len(r.providers)
<1>2. n \in Nat /\ n <= Len(r.providers) BY <1>1, CoverageAssumption
<1>3. Coverage!Bounded(r) = SubSeq(r.providers, 1, n) BY DEF Coverage!Bounded
<1>4. Coverage!Bounded(r) \in Seq(Providers)
  <2> HIDE DEF n
  <2> QED BY <1>1, <1>2, <1>3
<1>5. Len(r.providers) <= Limit => Coverage!Bounded(r) = r.providers
  BY <1>1, <1>3, CoverageAssumption
<1>6. Coverage!Bounded(r) \in Seq(Coverage!Files)
  BY <1>4 DEF Coverage!Files
<1>7. Coverage!Reads(r, custom) \in Seq(Coverage!Files)
  <2> DEFINE g == IF r.geosite THEN <<Coverage!Lower, Coverage!Upper>> ELSE <<>>
             c == IF custom THEN <<Coverage!Custom>> ELSE <<>>
  <2>1. g \in Seq(Coverage!Files) /\ c \in Seq(Coverage!Files)
    <3>1. {Coverage!Lower, Coverage!Upper, Coverage!Custom} \subseteq Coverage!Files
      BY DEF Coverage!Files
    <3> HIDE DEF Coverage!Files, Coverage!Lower, Coverage!Upper, Coverage!Custom
    <3> QED BY <3>1
  <2>2. Coverage!Reads(r, custom) = Coverage!Bounded(r) \o g \o c
    BY DEF Coverage!Reads
  <2> HIDE DEF g, c
  <2> QED BY <1>6, <2>1, <2>2
<1> QED
  BY <1>4, <1>5, <1>7

LEMMA Beginning == ASSUME CoverageInv, Coverage!Begin PROVE CoverageInv'
<1> USE DEF CoverageInv
<1> DEFINE c == managed /\ routing.exit
<1>1. run' = [phase |-> "reading", inputs |-> routing, custom |-> c,
              todo |-> Coverage!Reads(routing, c), open |-> -1,
              read |-> [f \in Coverage!Files |-> Coverage!Unread], verdict |-> "none"]
  BY DEF Coverage!Begin, Coverage!Target
<1>2. UNCHANGED <<files, routing, managed, changes>> BY DEF Coverage!Begin
<1>3. c \in BOOLEAN /\ routing \in Coverage!Routings BY Ordered DEF CoverageTypes
<1>4. Coverage!Reads(routing, c) \in Seq(Coverage!Files) BY <1>3, Reading
<1>5. [f \in Coverage!Files |-> Coverage!Unread] \in [Coverage!Files -> Copies] BY DEF Copies
<1> HIDE DEF c
<1>6. run' \in Validated BY <1>1, <1>3, <1>4, <1>5 DEF Validated
<1>7. CoverageTypes' BY <1>2, <1>6 DEF CoverageTypes
<1>8. Copied' BY <1>1 DEF Copied, Version
<1> QED
  BY <1>1, <1>7, <1>8 DEF Waiting, Probed, Coverage!UncoveredNow

LEMMA Opening == ASSUME CoverageInv, Coverage!Open PROVE CoverageInv'
<1> USE DEF CoverageInv
<1>1. /\ run.phase = "reading" /\ run.todo # <<>>
      /\ run' = [run EXCEPT !.open = files[Head(run.todo)].stamp]
      /\ UNCHANGED <<files, routing, managed, changes>>
  BY DEF Coverage!Open
<1>2. run \in Validated BY <1>1 DEF CoverageTypes
<1>3. files[Head(run.todo)].stamp \in Int
  <2>1. Head(run.todo) \in Coverage!Files BY <1>1, <1>2 DEF Validated
  <2>2. files[Head(run.todo)] \in Versions BY <2>1 DEF CoverageTypes
  <2> QED BY <2>2 DEF Versions
<1>4. run' \in Validated /\ run'.phase = "reading" /\ run'.read = run.read
      /\ run'.todo = run.todo
  BY <1>1, <1>2, <1>3 DEF Validated
<1>5. CoverageTypes' BY <1>1, <1>4 DEF CoverageTypes
<1>6. Copied' BY <1>1, <1>4 DEF Copied, Version
<1> QED
  BY <1>1, <1>4, <1>5, <1>6 DEF Waiting, Probed, Coverage!UncoveredNow

\* What is kept of a file has the identity it had before and has after the reading.
LEMMA Loading == ASSUME CoverageInv, Coverage!Load PROVE CoverageInv'
<1> USE DEF CoverageInv
<1> DEFINE h == Head(run.todo)
           got == Coverage!Loaded(h)
<1>1. /\ run.phase = "reading" /\ run.open # -1
      /\ run' = [run EXCEPT !.open = -1, !.todo = Tail(run.todo), !.read[h] = got]
      /\ UNCHANGED <<files, routing, managed, changes>>
  BY DEF Coverage!Load
<1>2. run \in Validated BY <1>1 DEF CoverageTypes
<1>3. run.todo # <<>> /\ h \in Coverage!Files /\ Tail(run.todo) \in Seq(Coverage!Files)
  BY <1>1, <1>2 DEF Waiting, Validated
<1>4. files[h] \in Versions BY <1>3 DEF CoverageTypes
<1>5. got = Coverage!Unread
      \/ got = [content |-> files[h].content, stamp |-> files[h].stamp]
  BY DEF Coverage!Loaded
<1>6. got \in Copies BY <1>4, <1>5 DEF Versions, Copies
<1> HIDE DEF h, got
<1>7. /\ run'.phase = "reading" /\ run'.open = -1
      /\ run'.read = [run.read EXCEPT ![h] = got]
      /\ run'.todo = Tail(run.todo)
      /\ run'.inputs = run.inputs /\ run'.custom = run.custom /\ run'.verdict = run.verdict
  BY <1>1, <1>2 DEF Validated
<1>8. run' \in Validated
  <2>1. [run.read EXCEPT ![h] = got] \in [Coverage!Files -> Copies]
    BY <1>2, <1>3, <1>6 DEF Validated
  <2>2. ASSUME NEW n \in Int, NEW t \in Seq(Coverage!Files),
               NEW g \in [Coverage!Files -> Copies]
        PROVE  [run EXCEPT !.open = n, !.todo = t, !.read = g] \in Validated
    BY <1>2, <2>2 DEF Validated
  <2>3. run' = [run EXCEPT !.open = -1, !.todo = Tail(run.todo),
                           !.read = [run.read EXCEPT ![h] = got]]
    BY <1>1
  <2>4. -1 \in Int OBVIOUS
  <2> QED BY <1>3, <2>1, <2>2, <2>3, <2>4, Zenon
<1>9. CoverageTypes' BY <1>1, <1>8 DEF CoverageTypes
<1>10. Copied'
  <2> SUFFICES ASSUME NEW f \in Coverage!Files PROVE Version(f)'
    BY DEF Copied
  <2>1. Version(f) BY <1>1 DEF Copied
  <2>2. run.read \in [Coverage!Files -> Copies] BY <1>2 DEF Validated
  <2>3. CASE f = h
    <3>1. run'.read[f] = got BY <1>7, <2>2, <2>3
    <3>2. files[h].stamp <= files[h].stamp BY <1>4 DEF Versions
    <3> QED BY <1>1, <1>5, <2>3, <3>1, <3>2 DEF Version
  <2>4. CASE f # h
    <3>1. run'.read[f] = run.read[f] BY <1>7, <2>2, <2>4
    <3> QED BY <1>1, <2>1, <3>1 DEF Version
  <2> QED BY <2>3, <2>4
<1> QED
  BY <1>7, <1>9, <1>10 DEF Waiting, Probed, Coverage!UncoveredNow

LEMMA Judging == ASSUME CoverageInv, Coverage!Preflight PROVE CoverageInv'
<1> USE DEF CoverageInv
<1> DEFINE v == Coverage!Verdict(Coverage!Sources(run.inputs, run.custom, run.read))
<1>1. /\ run.phase = "reading"
      /\ run' = [run EXCEPT !.verdict = v, !.phase =
                                CASE v = "covered"                       -> "early"
                                  [] v = "uncovered" /\ Coverage!Target -> "probing"
                                  [] OTHER                               -> "failed"]
      /\ UNCHANGED <<files, routing, managed, changes>>
  BY DEF Coverage!Preflight
<1>2. run \in Validated BY <1>1 DEF CoverageTypes
<1>3. v \in {"covered", "incomplete", "uncovered"} BY DEF Coverage!Verdict
<1> HIDE DEF v
<1>4. PICK p \in {"probing", "early", "failed"} :
         /\ run' = [run EXCEPT !.verdict = v, !.phase = p]
         /\ p = "probing" => v = "uncovered"
  BY <1>1, <1>3
<1>5. /\ run' \in Validated /\ run'.phase = p /\ run'.read = run.read
      /\ run'.inputs = run.inputs /\ run'.custom = run.custom
  BY <1>2, <1>3, <1>4 DEF Validated
<1>6. CoverageTypes' BY <1>1, <1>5 DEF CoverageTypes
<1>7. Copied' BY <1>1, <1>5 DEF Copied, Version
<1>8. Probed' BY <1>4, <1>5 DEF Probed, v
<1> QED
  BY <1>5, <1>6, <1>7, <1>8 DEF Waiting, Coverage!UncoveredNow

-----------------------------------------------------------------------------
(* When nothing changed, what was read is what the files say.                *)

LEMMA Unchanged ==
    ASSUME CoverageInv, run.phase = "probing", Coverage!IsCurrent
    PROVE  Coverage!Verdict(Coverage!Actual) = "uncovered"
<1> USE DEF CoverageInv
<1> DEFINE S == Coverage!Sources(run.inputs, run.custom, run.read)
           R == run.inputs
<1>1. run \in Validated /\ R = routing /\ R \in Coverage!Routings
  BY DEF CoverageTypes, Coverage!IsCurrent
<1>2. "covers" \notin S /\ "incomplete" \notin S
  BY DEF Probed, Coverage!Verdict
<1>3. ASSUME NEW f \in Coverage!Files, Coverage!SameFile(f), run.read[f] # Coverage!Unread
      PROVE  Coverage!Now(f).content = run.read[f].content
  <2>1. Version(f) BY <1>3 DEF Copied
  <2>2. files[f].content = run.read[f].content
    BY <1>3, <2>1 DEF Version, Coverage!SameFile
  <2> QED BY <1>3, <2>2 DEF Coverage!Now, Coverage!SameFile
<1>4. ASSUME R.exit PROVE Coverage!Bounded(R) = R.providers /\ R.providers \in Seq(Providers)
  <2>1. ~(Len(R.providers) > Limit) BY <1>2, <1>4 DEF Coverage!Sources
  <2>2. R.providers \in Seq(Providers) BY <1>1, Ordered
  <2>3. Len(R.providers) <= Limit BY <2>1, <2>2, CoverageAssumption
  <2> QED BY <1>1, <2>2, <2>3, Reading
<1>5. ASSUME R.exit, NEW p \in Coverage!Range(R.providers)
      PROVE  Coverage!ProviderSays(Coverage!Now(p).content, FALSE) \in S
  <2>1. p \in Coverage!Files BY <1>4, <1>5 DEF Coverage!Files, Coverage!Range
  <2>2. p \in Coverage!Range(Coverage!Bounded(R)) BY <1>4, <1>5
  <2>3. Coverage!ProviderSays(run.read[p].content, FALSE) \in S
    BY <1>5, <2>2 DEF Coverage!Sources
  <2>4. run.read[p] # Coverage!Unread
    <3>1. SUFFICES ASSUME run.read[p].content = Coverage!Absent PROVE FALSE
      BY DEF Coverage!Unread
    <3>2. Coverage!ProviderSays(run.read[p].content, FALSE) = "incomplete"
      BY <3>1 DEF Coverage!ProviderSays
    <3> QED BY <1>2, <2>3, <3>2
  <2>5. Coverage!SameFile(p)
    BY <2>2, <2>4 DEF Coverage!IsCurrent, Coverage!ProvidersCurrent
  <2>6. Coverage!Now(p).content = run.read[p].content BY <1>3, <2>1, <2>4, <2>5
  <2> QED BY <2>3, <2>6
<1>6. ASSUME R.geosite
      PROVE  Coverage!GeositeSays(Coverage!Selected(Coverage!Now(Coverage!Lower),
                                                    Coverage!Now(Coverage!Upper)).content)
             = Coverage!GeositeSays(Coverage!Selected(run.read[Coverage!Lower],
                                                      run.read[Coverage!Upper]).content)
  <2>1. ASSUME NEW f \in {Coverage!Lower, Coverage!Upper}
        PROVE  Coverage!Now(f).content = run.read[f].content
    <3>1. f \in Coverage!Files BY DEF Coverage!Files
    <3>2. IF run.read[f] = Coverage!Unread THEN files[f].content = Coverage!Absent
          ELSE Coverage!SameFile(f)
      BY <1>6 DEF Coverage!IsCurrent, Coverage!GeositeCurrent
    <3>3. CASE run.read[f] = Coverage!Unread
      BY <3>2, <3>3 DEF Coverage!Now, Coverage!Readable
    <3>4. CASE run.read[f] # Coverage!Unread BY <1>3, <3>1, <3>2, <3>4
    <3> QED BY <3>3, <3>4
  <2> QED BY <2>1 DEF Coverage!Selected
<1>7. ASSUME run.custom
      PROVE  Coverage!Now(Coverage!Custom).content = run.read[Coverage!Custom].content
  <2>1. Coverage!SameFile(Coverage!Custom) /\ Coverage!Custom \in Coverage!Files
    BY <1>7 DEF Coverage!IsCurrent, Coverage!Files
  <2>2. files[Coverage!Custom].stamp \in Nat
    <3>1. files[Coverage!Custom] \in Versions BY <2>1 DEF CoverageTypes
    <3> QED BY <3>1 DEF Versions
  <2>3. run.read[Coverage!Custom] # Coverage!Unread
    BY <2>1, <2>2 DEF Coverage!SameFile, Coverage!Unread
  <2> QED BY <1>3, <2>1, <2>3
<1> DEFINE N == [f \in Coverage!Files |-> Coverage!Now(f)]
<1>8. Coverage!Sources(R, run.custom, N) \subseteq S
  <2>1. \A p \in Coverage!Range(Coverage!Bounded(R)) :
           R.exit => Coverage!ProviderSays(N[p].content, FALSE) \in S
    <3> SUFFICES ASSUME R.exit, NEW p \in Coverage!Range(R.providers)
                 PROVE  Coverage!ProviderSays(N[p].content, FALSE) \in S
      BY <1>4
    <3>1. p \in Coverage!Files BY <1>4 DEF Coverage!Files, Coverage!Range
    <3> QED BY <1>5, <3>1
  <2>2. R.exit => Coverage!GeositeVerdict(R, N) = Coverage!GeositeVerdict(R, run.read)
    BY <1>6 DEF Coverage!GeositeVerdict, Coverage!Files
  <2>3. run.custom => N[Coverage!Custom].content = run.read[Coverage!Custom].content
    BY <1>7 DEF Coverage!Files
  <2> HIDE DEF N
  <2>4. R.exit => ~(Len(R.providers) > Limit) BY <1>2 DEF Coverage!Sources
  <2>5. /\ R.exit => R.inline \in S /\ Coverage!GeositeVerdict(R, run.read) \subseteq S
        /\ run.custom => Coverage!ProviderSays(run.read[Coverage!Custom].content, TRUE) \in S
    BY DEF Coverage!Sources
  <2> HIDE DEF S
  <2> QED BY <2>1, <2>2, <2>3, <2>4, <2>5 DEF Coverage!Sources
<1>9. \A p \in Coverage!Range(routing.providers) :
         Coverage!ProviderSays(Coverage!Now(p).content, FALSE) \in S
  <2>1. CASE R.exit BY <1>1, <1>5, <2>1
  <2>2. CASE ~R.exit
    <3>1. routing.providers = <<>> BY <1>1, <2>2, Ordered
    <3> QED BY <3>1 DEF Coverage!Range
  <2> QED BY <1>1, <2>1, <2>2
<1>10. Coverage!Actual \subseteq S
  <2> HIDE DEF S
  <2>1. Coverage!Emitted(routing) \ Coverage!PassedOver(routing)
        \subseteq Coverage!Range(routing.providers)
    BY DEF Coverage!Emitted, Coverage!PassedOver
  <2> QED BY <1>1, <1>8, <1>9, <2>1 DEF Coverage!Actual
<1> HIDE DEF S
<1> QED
  BY <1>2, <1>10 DEF Coverage!Verdict

LEMMA ActualKept ==
    ASSUME UNCHANGED <<files, routing>>, run'.custom = run.custom
    PROVE  Coverage!Actual' = Coverage!Actual
<1>1. \A f : Coverage!Now(f)' = Coverage!Now(f)
  BY DEF Coverage!Now, Coverage!Readable
<1>2. [f \in Coverage!Files |-> Coverage!Now(f)]' = [f \in Coverage!Files |-> Coverage!Now(f)]
  BY <1>1
<1> DEFINE looked == Coverage!Emitted(routing) \ Coverage!PassedOver(routing)
<1>3. {Coverage!ProviderSays(Coverage!Now(p).content, FALSE) : p \in looked}'
      = {Coverage!ProviderSays(Coverage!Now(p).content, FALSE) : p \in looked}
  BY <1>1
<1> QED
  BY <1>2, <1>3 DEF Coverage!Actual

LEMMA Finishing == ASSUME CoverageInv, Coverage!Finish PROVE CoverageInv'
<1> USE DEF CoverageInv
<1>1. /\ run.phase = "probing"
      /\ run' = [run EXCEPT !.phase = IF Coverage!IsCurrent THEN "decided" ELSE "failed"]
      /\ UNCHANGED <<files, routing, managed, changes>>
  BY DEF Coverage!Finish
<1>2. run \in Validated BY <1>1 DEF CoverageTypes
<1>3. /\ run' \in Validated /\ run'.phase \in {"decided", "failed"} /\ run'.read = run.read
      /\ run'.custom = run.custom /\ run'.phase = "decided" => Coverage!IsCurrent
  BY <1>1, <1>2 DEF Validated
<1>4. CoverageTypes' BY <1>1, <1>3 DEF CoverageTypes
<1>5. Copied' BY <1>1, <1>3 DEF Copied, Version
<1>6. Coverage!Actual' = Coverage!Actual BY <1>1, <1>3, ActualKept
<1>7. Coverage!UncoveredNow'
  BY <1>1, <1>3, <1>6, Unchanged DEF Coverage!UncoveredNow
<1> QED
  BY <1>3, <1>4, <1>5, <1>7 DEF Waiting, Probed

\* A version that comes later than a copy is another version.
LEMMA Changing ==
    ASSUME CoverageInv,
           \/ \E f \in Coverage!Files : Coverage!FileChanges(f)
           \/ \E p \in Providers : Coverage!FileAges(p)
           \/ Coverage!RoutingChanges \/ Coverage!ManagedChanges
    PROVE  CoverageInv'
<1> USE DEF CoverageInv
<1>1. run.phase \in {"reading", "probing"} /\ run' = run
  BY DEF Coverage!FileChanges, Coverage!FileAges, Coverage!RoutingChanges,
         Coverage!ManagedChanges, Coverage!Change, Coverage!InProgress
<1>2. run \in Validated BY <1>1 DEF CoverageTypes
<1>3. Waiting' /\ Probed' /\ Coverage!UncoveredNow'
  BY <1>1 DEF Waiting, Probed, Coverage!UncoveredNow
<1>4. ASSUME NEW f \in Coverage!Files, NEW v \in Versions,
             files' = [files EXCEPT ![f] = v], v.stamp >= files[f].stamp,
             v.stamp = files[f].stamp => v.content = files[f].content,
             UNCHANGED <<routing, managed>>
      PROVE  CoverageTypes' /\ Copied'
  <2>1. CoverageTypes' BY <1>1, <1>4 DEF CoverageTypes
  <2>2. Copied'
    <3> SUFFICES ASSUME NEW g \in Coverage!Files PROVE Version(g)'
      BY DEF Copied
    <3>1. Version(g) BY <1>1 DEF Copied
    <3>2. CASE g # f BY <1>1, <1>4, <3>1, <3>2 DEF Version, CoverageTypes
    <3>3. CASE g = f
      <4>1. files'[g] = v BY <1>4, <3>3 DEF CoverageTypes
      <4>2. files[g] \in Versions /\ run.read[g] \in Copies
        BY <1>2 DEF CoverageTypes, Validated
      <4>3. v.stamp \in Nat /\ files[g].stamp \in Nat BY <1>4, <4>2 DEF Versions
      <4>4. run.read[g] = Coverage!Unread \/ run.read[g].stamp \in Nat BY <4>2 DEF Copies
      <4> QED BY <1>1, <1>4, <3>1, <3>3, <4>1, <4>3, <4>4 DEF Version
    <3> QED BY <3>2, <3>3
  <2> QED BY <2>1, <2>2
<1>5. CASE \E f \in Coverage!Files : Coverage!FileChanges(f)
  <2>1. PICK f \in Coverage!Files, c \in Bodies :
           /\ files' = [files EXCEPT ![f] = [content |-> c, stamp |-> files[f].stamp + 1,
                                             fresh |-> TRUE]]
           /\ UNCHANGED <<routing, managed>>
    BY <1>5 DEF Coverage!FileChanges, Coverage!Contents, Bodies
  <2>2. files[f].stamp \in Nat
    <3>1. files[f] \in Versions BY DEF CoverageTypes
    <3> QED BY <3>1 DEF Versions
  <2> DEFINE v == [content |-> c, stamp |-> files[f].stamp + 1, fresh |-> TRUE]
  <2>3. v \in Versions /\ v.stamp = files[f].stamp + 1 BY <2>2 DEF Versions
  <2>4. files' = [files EXCEPT ![f] = v] BY <2>1
  <2> HIDE DEF v
  <2>5. v.stamp >= files[f].stamp /\ v.stamp # files[f].stamp BY <2>2, <2>3
  <2>6. CoverageTypes' /\ Copied' BY <1>4, <2>1, <2>3, <2>4, <2>5
  <2> QED BY <1>3, <2>6
<1>6. CASE \E p \in Providers : Coverage!FileAges(p)
  <2>1. PICK f \in Coverage!Files :
           files' = [files EXCEPT ![f].fresh = FALSE] /\ UNCHANGED <<routing, managed>>
    BY <1>6 DEF Coverage!FileAges, Coverage!Files
  <2>2. files[f] \in Versions BY DEF CoverageTypes
  <2> DEFINE v == [files[f] EXCEPT !.fresh = FALSE]
  <2>3. v \in Versions /\ v.stamp = files[f].stamp /\ v.content = files[f].content
        /\ v.stamp \in Nat
    BY <2>2 DEF Versions
  <2>4. files' = [files EXCEPT ![f] = v] BY <2>1
  <2> HIDE DEF v
  <2>5. v.stamp >= files[f].stamp BY <2>3
  <2>6. CoverageTypes' /\ Copied' BY <1>4, <2>1, <2>3, <2>4, <2>5
  <2> QED BY <1>3, <2>6
<1>7. CASE Coverage!RoutingChanges \/ Coverage!ManagedChanges
  <2>1. /\ files' = files /\ routing' \in Coverage!Routings /\ managed' \in BOOLEAN
    BY <1>7 DEF Coverage!RoutingChanges, Coverage!ManagedChanges, CoverageTypes
  <2>2. CoverageTypes' BY <1>1, <2>1 DEF CoverageTypes
  <2>3. Copied' BY <1>1, <2>1 DEF Copied, Version
  <2> QED BY <1>3, <2>2, <2>3
<1> QED
  BY <1>5, <1>6, <1>7

LEMMA CoverageStep == CoverageInv /\ [Coverage!Next]_Coverage!vars => CoverageInv'
<1> SUFFICES ASSUME CoverageInv, [Coverage!Next]_Coverage!vars PROVE CoverageInv'
  OBVIOUS
<1>1. CASE Coverage!Next
  <2>1. CASE Coverage!Begin BY <2>1, Beginning
  <2>2. CASE Coverage!Open BY <2>2, Opening
  <2>3. CASE Coverage!Load BY <2>3, Loading
  <2>4. CASE Coverage!Preflight BY <2>4, Judging
  <2>5. CASE Coverage!Finish BY <2>5, Finishing
  <2>6. CASE \/ \E f \in Coverage!Files : Coverage!FileChanges(f)
             \/ \E p \in Providers : Coverage!FileAges(p)
             \/ Coverage!RoutingChanges \/ Coverage!ManagedChanges
    BY <2>6, Changing
  <2> QED BY <1>1, <2>1, <2>2, <2>3, <2>4, <2>5, <2>6 DEF Coverage!Next
<1>2. CASE UNCHANGED Coverage!vars
  <2>1. UNCHANGED <<files, routing, managed, run>> BY <1>2 DEF Coverage!vars
  <2>2. CoverageTypes' /\ Copied' /\ Waiting'
    BY <2>1 DEF CoverageInv, CoverageTypes, Copied, Version, Waiting
  <2>3. Coverage!Actual' = Coverage!Actual BY <2>1, ActualKept
  <2>4. Probed' /\ Coverage!UncoveredNow'
    BY <2>1, <2>3 DEF CoverageInv, Probed, Coverage!UncoveredNow
  <2> QED BY <2>2, <2>4 DEF CoverageInv
<1> QED
  BY <1>1, <1>2

CoveragePart == part = "coverage" => CoverageInv

LEMMA CoveragePlaced == CoveragePart /\ [Next]_vars => CoveragePart'
<1> SUFFICES ASSUME CoveragePart, [Next]_vars, part' = "coverage" PROVE CoverageInv'
  BY DEF CoveragePart
<1>1. CASE Next
  <2>1. part = "coverage" BY <1>1 DEF Next
  <2>2. Coverage!Next BY <1>1, <2>1 DEF Next
  <2> QED BY <2>1, <2>2, CoverageStep DEF CoveragePart
<1>2. CASE UNCHANGED vars
  <2>1. part = "coverage" /\ UNCHANGED Coverage!vars
    BY <1>2 DEF vars, coverageVars, Coverage!vars
  <2> QED BY <2>1, CoverageStep DEF CoveragePart
<1> QED
  BY <1>1, <1>2

(* A domain is only decided on as uncovered when, at that moment, every rule  *)
(* file of a channel other than Default says nothing of it, for any           *)
(* providers, any contents of the files, any limit and any number of changes  *)
(* while they are read and while the probes run. The lists that only Default  *)
(* has are excepted: the coverage passes over them (coverage.ts:227, 313).    *)
THEOREM DecisionStaysGrounded == Spec => []DecisionGrounded
<1>1. Init => CoveragePart
  BY CoverageInit DEF Init, CoveragePart
<1>2. CoveragePart => DecisionGrounded
  BY DEF CoveragePart, CoverageInv, DecisionGrounded
<1> QED
  BY <1>1, <1>2, CoveragePlaced, PTL DEF Spec

-----------------------------------------------------------------------------
(* The validation: the inductive invariant.                                  *)

CandidateFields == {"status", "scope", "next", "lease", "generation", "streak", "decided"}
RunFields == {"fqdn", "generation", "age", "since", "status", "category"}
JobFields == {"fqdn", "scope", "streak", "generation", "phase", "left"}
Rows == [fqdn : Domains, scope : Validation!Scopes, streak : Nat]

Database ==
    /\ DOMAIN candidates = Domains
    /\ \A f \in Domains :
         /\ DOMAIN candidates[f] = CandidateFields
         /\ candidates[f].scope \in Validation!Scopes /\ candidates[f].streak \in Nat
    /\ IsFiniteSet(runs)
    /\ \A r \in runs : DOMAIN r = RunFields /\ r.since \in Nat

Processes ==
    /\ IsFiniteSet(jobs)
    /\ \A j \in jobs :
         /\ DOMAIN j = JobFields /\ j.fqdn \in Domains /\ j.streak \in Nat
         /\ j.phase \in {"executing", "closing", "abandoned"}
    /\ DOMAIN active = {"due", "workers", "aborted", "running"}
    /\ active.due \in Seq(Rows) /\ active.workers \in Nat
    /\ DOMAIN scheduler = {"on", "failed", "timer", "asked"}

\* A worker has one execution; one that is abandoned is not replaced, and no run
\* begins after it.
Staffed ==
    /\ Cardinality(Validation!Busy) <= active.workers
    /\ Cardinality(jobs \ Validation!Busy) + active.workers <= Concurrency
    /\ ~active.running => active.workers = 0
    /\ jobs # Validation!Busy => scheduler.failed /\ ~scheduler.on

\* A domain is due once, and not while it is executed.
Apart ==
    /\ \A i, k \in DOMAIN active.due : active.due[i].fqdn = active.due[k].fqdn => i = k
    /\ \A i \in DOMAIN active.due, j \in jobs : active.due[i].fqdn # j.fqdn
    /\ \A j, k \in jobs : j.fqdn = k.fqdn => j = k

\* The failures of the last OpenFor, with what may still fail.
Young == {s \in Validation!Failures : s.since < OpenFor}
Window(r) == {s \in Validation!Failures : r.since - OpenFor < s.since /\ s.since <= r.since}
Circuited ==
    /\ Cardinality(Young) + Cardinality(Validation!Executing) < Threshold + Concurrency
    /\ \A r \in Validation!Failures : Cardinality(Window(r)) < Threshold + Concurrency

Single ==
    \A r, s \in runs :
        r.status = "running" /\ s.status = "running" /\ r.fqdn = s.fqdn => r = s
Fitting ==
    \A f \in Domains :
        candidates[f].status \in Validation!Verdicts => candidates[f].decided = candidates[f].scope

ValidationInv == Database /\ Processes /\ Staffed /\ Apart /\ Circuited /\ Single /\ Fitting

-----------------------------------------------------------------------------
(* Counting.                                                                 *)

LEMMA Counted == \A S : Validation!Cardinality(S) = Cardinality(S)
  BY Zenon DEF Validation!Cardinality, Cardinality

LEMMA Fewer ==
    ASSUME NEW S, IsFiniteSet(S), NEW T, T \subseteq S
    PROVE  /\ IsFiniteSet(T) /\ Cardinality(T) \in Nat /\ Cardinality(S) \in Nat
           /\ Cardinality(T) <= Cardinality(S)
  BY FS_Subset, FS_CardinalityType

LEMMA OneMore ==
    ASSUME NEW S, IsFiniteSet(S), NEW x, NEW T, T \subseteq S \cup {x}
    PROVE  /\ IsFiniteSet(T) /\ Cardinality(T) \in Nat /\ Cardinality(S) \in Nat
           /\ Cardinality(T) <= Cardinality(S) + 1
<1>1. IsFiniteSet(S \cup {x}) /\ Cardinality(S \cup {x}) <= Cardinality(S) + 1
      /\ Cardinality(S) \in Nat
  BY FS_AddElement, FS_CardinalityType
<1> QED
  BY <1>1, Fewer

LEMMA OneLess ==
    ASSUME NEW S, IsFiniteSet(S), NEW x \in S, NEW T, T \subseteq S \ {x}
    PROVE  /\ IsFiniteSet(T) /\ Cardinality(T) \in Nat /\ Cardinality(S) \in Nat
           /\ Cardinality(T) + 1 <= Cardinality(S)
<1>1. IsFiniteSet(S \ {x}) /\ Cardinality(S \ {x}) = Cardinality(S) - 1
      /\ Cardinality(S) \in Nat
  BY FS_RemoveElement, FS_CardinalityType
<1> QED
  BY <1>1, Fewer

LEMMA NoMoreImages ==
    ASSUME NEW S, IsFiniteSet(S), NEW g, NEW T, T \subseteq {g[x] : x \in S}
    PROVE  /\ IsFiniteSet(T) /\ Cardinality(T) \in Nat /\ Cardinality(S) \in Nat
           /\ Cardinality(T) <= Cardinality(S)
<1> DEFINE U == {g[x] : x \in S}
           f == [x \in S |-> g[x]]
<1>1. f \in Surjection(S, U) BY DEF Surjection
<1>2. IsFiniteSet(U) /\ Cardinality(U) <= Cardinality(S) BY <1>1, FS_Surjection
<1> HIDE DEF U
<1> QED
  BY <1>2, Fewer, FS_CardinalityType DEF U

LEMMA Least ==
    ASSUME NEW T \in SUBSET Nat, T # {}
    PROVE  \E x \in T : \A y \in T : x <= y
<1> DEFINE R == {p \in Nat \X Nat : p[1] < p[2]}
<1>1. IsWellFoundedOn(R, Nat)
  <2>1. R = OpToRel(<, Nat) BY DEF OpToRel
  <2> QED BY <2>1, NatLessThanWellFounded
<1>2. \E x \in T : \A y \in T : ~(<<y, x>> \in R)
  <2> HIDE DEF R
  <2> QED BY <1>1, WFMin
<1>3. PICK x \in T : \A y \in T : <<y, x>> \notin R BY <1>2
<1>4. ASSUME NEW y \in T PROVE x <= y
  <2>1. ~(<<y, x>>[1] < <<y, x>>[2]) BY <1>3
  <2> QED BY <2>1
<1> QED BY <1>4

LEMMA Youngest ==
    ASSUME NEW S, S # {}, \A s \in S : s.since \in Nat
    PROVE  \E y \in S : \A s \in S : y.since <= s.since
<1> DEFINE T == {s.since : s \in S}
<1>1. T \in SUBSET Nat /\ T # {} OBVIOUS
<1>2. PICK n \in T : \A m \in T : n <= m
  <2> HIDE DEF T
  <2> QED BY <1>1, Least
<1> QED
  BY <1>2

-----------------------------------------------------------------------------
(* The circuit.                                                              *)

\* While it lets a validation through, fewer than the threshold are young.
LEMMA ClosedCircuit ==
    ASSUME Database, ~Validation!CircuitOpen PROVE Cardinality(Young) < Threshold
<1>1. /\ IsFiniteSet(Validation!Failures) /\ IsFiniteSet(Young)
      /\ \A r \in Validation!Failures : r.since \in Nat
  <2>1. Young \subseteq Validation!Failures /\ Validation!Failures \subseteq runs
    BY DEF Young, Validation!Failures
  <2> QED BY <2>1, Fewer DEF Database
<1>2. SUFFICES ASSUME Cardinality(Young) >= Threshold PROVE FALSE
  BY <1>1, ValidationAssumption, FS_CardinalityType
<1>3. Young # {} BY <1>2, FS_EmptySet, ValidationAssumption
<1>4. PICK y \in Young : \A s \in Young : y.since <= s.since
  BY <1>1, <1>3, Youngest DEF Young
<1> DEFINE W == {s \in Validation!Failures : y.since <= s.since /\ s.since <= y.since + OpenFor}
<1>5. Young \subseteq W
  BY <1>1, <1>4, ValidationAssumption DEF Young
<1>6. IsFiniteSet(W) BY <1>1, Fewer
<1>7. Cardinality(W) >= Threshold
  <2> HIDE DEF W
  <2> QED BY <1>2, <1>5, <1>6, Fewer, ValidationAssumption
<1>8. y \in Validation!Triggers BY <1>4, <1>7, Counted DEF Validation!Triggers, Young
<1> QED
  BY <1>4, <1>8 DEF Validation!CircuitOpen, Young

LEMMA Sizes ==
    ASSUME Database
    PROVE  /\ IsFiniteSet(Validation!Failures) /\ IsFiniteSet(Young)
           /\ Cardinality(Young) \in Nat
           /\ \A r \in Validation!Failures :
                 r.since \in Nat /\ IsFiniteSet(Window(r)) /\ Cardinality(Window(r)) \in Nat
<1>1. Validation!Failures \subseteq runs BY DEF Validation!Failures
<1>2. IsFiniteSet(Validation!Failures) BY <1>1, Fewer DEF Database
<1>3. Young \subseteq Validation!Failures BY DEF Young
<1>4. \A r : Window(r) \subseteq Validation!Failures BY DEF Window
<1>5. \A r : IsFiniteSet(Window(r)) /\ Cardinality(Window(r)) \in Nat
  BY <1>2, <1>4, Fewer
<1> QED
  BY <1>1, <1>2, <1>3, <1>5, Fewer DEF Database

LEMMA Quiet ==
    ASSUME Database, Circuited, Database', Validation!Failures' \subseteq Validation!Failures,
           Cardinality(Validation!Executing') <= Cardinality(Validation!Executing),
           Cardinality(Validation!Executing') \in Nat, Cardinality(Validation!Executing) \in Nat
    PROVE  Circuited'
<1>1. Young' \subseteq Young BY DEF Young
<1>2. Cardinality(Young') <= Cardinality(Young) /\ Cardinality(Young') \in Nat
      /\ Cardinality(Young) \in Nat
  BY <1>1, Sizes, Fewer
<1>3. ASSUME NEW r \in Validation!Failures' PROVE Cardinality(Window(r)') < Threshold + Concurrency
  <2>1. r \in Validation!Failures /\ Window(r)' \subseteq Window(r) BY DEF Window
  <2>2. Cardinality(Window(r)) < Threshold + Concurrency BY <2>1 DEF Circuited
  <2>3. IsFiniteSet(Window(r)) BY <2>1, Sizes
  <2> QED BY <2>1, <2>2, <2>3, Fewer, ValidationAssumption
<1> QED
  BY <1>2, <1>3, ValidationAssumption DEF Circuited

\* One more failure takes the place of what could still fail.
LEMMA OneFails ==
    ASSUME Database, Circuited, Database', NEW x, x.since = 0,
           Validation!Failures' \subseteq Validation!Failures \cup {x},
           Cardinality(Validation!Executing') + 1 <= Cardinality(Validation!Executing),
           Cardinality(Validation!Executing') \in Nat, Cardinality(Validation!Executing) \in Nat
    PROVE  Circuited'
<1>1. Young' \subseteq Young \cup {x} BY DEF Young
<1>2. Cardinality(Young') <= Cardinality(Young) + 1 /\ Cardinality(Young') \in Nat
      /\ Cardinality(Young) \in Nat /\ IsFiniteSet(Young')
  BY <1>1, Sizes, OneMore
<1>3. Cardinality(Young') + Cardinality(Validation!Executing') < Threshold + Concurrency
  BY <1>2, ValidationAssumption DEF Circuited
<1>4. Cardinality(Young') < Threshold + Concurrency
  BY <1>2, <1>3, ValidationAssumption
<1>5. \A r \in Validation!Failures' : r.since \in Nat
  <2>1. Validation!Failures' \subseteq runs' BY DEF Validation!Failures
  <2> QED BY <2>1 DEF Database
<1>6. ASSUME NEW r \in Validation!Failures' PROVE Cardinality(Window(r)') < Threshold + Concurrency
  <2>1. CASE r.since < OpenFor
    <3>1. Window(r)' \subseteq Young' BY <1>5, <2>1, ValidationAssumption DEF Window, Young
    <3> QED BY <1>2, <1>4, <3>1, Fewer, ValidationAssumption
  <2>2. CASE r.since >= OpenFor /\ r \in Validation!Failures
    <3>1. Window(r)' \subseteq Window(r)
      BY <1>5, <2>2, ValidationAssumption DEF Window
    <3>2. Cardinality(Window(r)) < Threshold + Concurrency BY <2>2 DEF Circuited
    <3>3. IsFiniteSet(Window(r)) BY <2>2, Sizes
    <3> QED BY <3>1, <3>2, <3>3, Fewer, ValidationAssumption
  <2>3. CASE r.since >= OpenFor /\ r = x
    <3>1. Window(r)' = {} BY <1>5, <2>3, ValidationAssumption DEF Window
    <3>2. Cardinality(Window(r)') = 0 BY <3>1, FS_EmptySet
    <3> QED BY <3>2, ValidationAssumption
  <2> QED BY <1>5, <2>1, <2>2, <2>3, ValidationAssumption
<1> QED
  BY <1>3, <1>6 DEF Circuited

\* A validation begins while the circuit is closed.
LEMMA OneBegins ==
    ASSUME Database, Circuited, Database', ~Validation!CircuitOpen,
           Validation!Failures' \subseteq Validation!Failures,
           Cardinality(Validation!Executing') \in Nat,
           Cardinality(Validation!Executing') <= Concurrency
    PROVE  Circuited'
<1>1. Young' \subseteq Young BY DEF Young
<1>2. Cardinality(Young') <= Cardinality(Young) /\ Cardinality(Young') \in Nat
      /\ Cardinality(Young) \in Nat
  BY <1>1, Sizes, Fewer
<1>3. Cardinality(Young) < Threshold BY ClosedCircuit
<1>4. ASSUME NEW r \in Validation!Failures' PROVE Cardinality(Window(r)') < Threshold + Concurrency
  <2>1. r \in Validation!Failures /\ Window(r)' \subseteq Window(r) BY DEF Window
  <2>2. Cardinality(Window(r)) < Threshold + Concurrency BY <2>1 DEF Circuited
  <2>3. IsFiniteSet(Window(r)) BY <2>1, Sizes
  <2> QED BY <2>1, <2>2, <2>3, Fewer, ValidationAssumption
<1> QED
  BY <1>2, <1>3, <1>4, ValidationAssumption DEF Circuited

\* Time passes for all failures alike.
LEMMA AllAge ==
    ASSUME Database, Circuited, Database', NEW g,
           \A r \in Validation!Failures' : \E o \in Validation!Failures :
              r = g[o] /\ r.since = o.since + 1,
           Cardinality(Validation!Executing') <= Cardinality(Validation!Executing),
           Cardinality(Validation!Executing') \in Nat, Cardinality(Validation!Executing) \in Nat
    PROVE  Circuited'
<1>0. \A o \in Validation!Failures : o.since \in Nat BY Sizes
<1>1. Young' \subseteq {g[o] : o \in Young}
  <2> SUFFICES ASSUME NEW r \in Young' PROVE r \in {g[o] : o \in Young}
    OBVIOUS
  <2>1. PICK o \in Validation!Failures : r = g[o] /\ r.since = o.since + 1 BY DEF Young
  <2>2. o \in Young BY <1>0, <2>1, ValidationAssumption DEF Young
  <2> QED BY <2>1, <2>2
<1>2. Cardinality(Young') <= Cardinality(Young) /\ Cardinality(Young') \in Nat
      /\ Cardinality(Young) \in Nat
  <2>1. IsFiniteSet(Young) BY Sizes
  <2> QED BY <1>1, <2>1, NoMoreImages
<1>3. ASSUME NEW r \in Validation!Failures' PROVE Cardinality(Window(r)') < Threshold + Concurrency
  <2>1. PICK o \in Validation!Failures : r = g[o] /\ r.since = o.since + 1 OBVIOUS
  <2>2. Window(r)' \subseteq {g[s] : s \in Window(o)}
    <3> SUFFICES ASSUME NEW t \in Window(r)' PROVE t \in {g[s] : s \in Window(o)}
      OBVIOUS
    <3>1. PICK s \in Validation!Failures : t = g[s] /\ t.since = s.since + 1 BY DEF Window
    <3>2. s \in Window(o) BY <1>0, <2>1, <3>1, ValidationAssumption DEF Window
    <3> QED BY <3>1, <3>2
  <2>3. Cardinality(Window(o)) < Threshold + Concurrency BY DEF Circuited
  <2>4. IsFiniteSet(Window(o)) BY Sizes
  <2> QED BY <2>2, <2>3, <2>4, NoMoreImages, ValidationAssumption
<1> QED
  BY <1>2, <1>3, ValidationAssumption DEF Circuited

-----------------------------------------------------------------------------
(* The database.                                                             *)

\* Runs that are ended: what runs is what ran, what fails is what is ended so.
LEMMA EndingRuns ==
    ASSUME Database, NEW olds, olds \subseteq runs,
           NEW status \in {"completed", "failed", "cancelled"}, NEW category
    PROVE  LET kept == Validation!Replaced(olds, status, category) IN
           /\ IsFiniteSet(kept)
           /\ \A r \in kept : DOMAIN r = RunFields /\ r.since \in Nat
           /\ \A r \in kept : r.status = "running" => r \in runs \ olds
           /\ \A r \in kept : r \in runs \/ \E o \in olds :
                 /\ r = Validation!Ended(o, status, category)
                 /\ r.status = status /\ r.since = 0
<1> DEFINE kept == Validation!Replaced(olds, status, category)
           g == [o \in olds |-> Validation!Ended(o, status, category)]
           ended == {g[o] : o \in olds}
<1>1. kept = (runs \ olds) \cup ended BY DEF Validation!Replaced
<1>2. IsFiniteSet(olds) /\ IsFiniteSet(runs \ olds) BY Fewer DEF Database
<1>3. IsFiniteSet(ended)
  <2> HIDE DEF g
  <2> QED BY <1>2, NoMoreImages
<1>4. ASSUME NEW o \in olds
      PROVE  /\ DOMAIN Validation!Ended(o, status, category) = RunFields
             /\ Validation!Ended(o, status, category).since = 0
             /\ Validation!Ended(o, status, category).status = status
  <2>1. DOMAIN o = RunFields BY DEF Database
  <2> QED BY <2>1 DEF Validation!Ended, RunFields
<1>5. IsFiniteSet(kept)
  <2> HIDE DEF kept, ended
  <2> QED BY <1>1, <1>2, <1>3, FS_Union
<1>6. \A r \in kept : r \in runs \ olds \/ \E o \in olds : r = Validation!Ended(o, status, category)
  BY <1>1
<1> HIDE DEF kept, g, ended
<1>7. \A r \in kept : DOMAIN r = RunFields /\ r.since \in Nat
  BY <1>4, <1>6 DEF Database
<1>8. \A r \in kept : r.status = "running" => r \in runs \ olds
  BY <1>4, <1>6
<1> QED
  BY <1>4, <1>5, <1>6, <1>7, <1>8 DEF kept

\* A run that ends without a failure or with one.
LEMMA RunEnding ==
    ASSUME Database, Single, NEW job, NEW status \in {"completed", "failed", "cancelled"},
           NEW category, runs' = Validation!Replaced(Validation!RunOf(job), status, category)
    PROVE  /\ IsFiniteSet(runs') /\ \A r \in runs' : DOMAIN r = RunFields /\ r.since \in Nat
           /\ Single'
           /\ status # "failed" => Validation!Failures' \subseteq Validation!Failures
           /\ \E x : x.since = 0 /\ Validation!Failures' \subseteq Validation!Failures \cup {x}
<1> DEFINE olds == Validation!RunOf(job)
<1>1. olds \subseteq runs /\ \A r, s \in olds : r = s
  BY DEF Validation!RunOf, Validation!Running, Single
<1> HIDE DEF olds
<1>2. runs' = Validation!Replaced(olds, status, category) BY DEF olds
<1>3. /\ IsFiniteSet(runs') /\ \A r \in runs' : DOMAIN r = RunFields /\ r.since \in Nat
      /\ \A r \in runs' : r.status = "running" => r \in runs \ olds
      /\ \A r \in runs' : r \in runs \/ \E o \in olds :
            /\ r = Validation!Ended(o, status, category)
            /\ r.status = status /\ r.since = 0
  BY <1>1, <1>2, EndingRuns
<1>4. Single' BY <1>3 DEF Single
<1>5. \A r \in Validation!Failures' : r \in Validation!Failures \/ \E o \in olds :
         /\ r = Validation!Ended(o, status, category)
         /\ r.status = status /\ r.since = 0 /\ status = "failed"
  BY <1>3 DEF Validation!Failures
<1>6. \E x : x.since = 0 /\ Validation!Failures' \subseteq Validation!Failures \cup {x}
  <2>1. CASE Validation!Failures' \subseteq Validation!Failures
    <3>1. [since |-> 0].since = 0 OBVIOUS
    <3> QED BY <2>1, <3>1
  <2>2. CASE ~(Validation!Failures' \subseteq Validation!Failures)
    <3>1. PICK x \in Validation!Failures' : x \notin Validation!Failures BY <2>2
    <3>2. x.since = 0 /\ \E o \in olds : x = Validation!Ended(o, status, category)
      BY <1>5, <3>1
    <3>3. \A r \in Validation!Failures' : r \in Validation!Failures \/ r = x
      BY <1>1, <1>5, <3>2
    <3> QED BY <3>2, <3>3
  <2> QED BY <2>1, <2>2
<1> QED
  BY <1>3, <1>4, <1>5, <1>6

\* A candidate that is written to and keeps its scope, or loses its verdict.
LEMMA Writing ==
    ASSUME Database, Fitting, NEW f \in Domains, NEW c, DOMAIN c = CandidateFields,
           c.scope \in Validation!Scopes, c.streak \in Nat,
           c.status \in Validation!Verdicts => c.decided = c.scope,
           candidates' = [candidates EXCEPT ![f] = c]
    PROVE  /\ DOMAIN candidates' = Domains
           /\ \A g \in Domains :
                 /\ DOMAIN candidates'[g] = CandidateFields
                 /\ candidates'[g].scope \in Validation!Scopes /\ candidates'[g].streak \in Nat
           /\ Fitting'
<1>1. DOMAIN candidates' = Domains
      /\ \A g \in Domains : candidates'[g] = IF g = f THEN c ELSE candidates[g]
  BY DEF Database
<1> QED
  BY <1>1 DEF Database, Fitting

-----------------------------------------------------------------------------
(* The executions that end.                                                  *)

\* failDomainValidationRun.
LEMMA Failing ==
    ASSUME Database, Single, Fitting, NEW job, job.fqdn \in Domains,
           NEW status \in {"failed", "cancelled"}, NEW category, NEW streak \in Nat,
           Validation!Fail(job, status, category, streak)
    PROVE  /\ Database' /\ Single' /\ Fitting'
           /\ \E x : x.since = 0 /\ Validation!Failures' \subseteq Validation!Failures \cup {x}
<1>1. CASE Validation!Holds(job)
  <2> DEFINE c == [candidates[job.fqdn] EXCEPT !.status = "pending",
                     !.next = Validation!BackoffOf(streak), !.streak = streak, !.lease = NoLease]
  <2>1. /\ runs' = Validation!Replaced(Validation!RunOf(job), status, category)
        /\ candidates' = [candidates EXCEPT ![job.fqdn] = c]
    BY <1>1 DEF Validation!Fail
  <2>2. /\ DOMAIN c = CandidateFields /\ c.scope \in Validation!Scopes /\ c.streak \in Nat
        /\ c.status = "pending"
    BY DEF Database, CandidateFields
  <2> HIDE DEF c
  <2>3. "pending" \notin Validation!Verdicts BY DEF Validation!Verdicts
  <2> QED BY <2>1, <2>2, <2>3, Writing, RunEnding DEF Database
<1>2. CASE ~Validation!Holds(job)
  <2>1. UNCHANGED <<candidates, runs>> BY <1>2 DEF Validation!Fail, Validation!database
  <2>2. [since |-> 0].since = 0 /\ Validation!Failures' = Validation!Failures
    BY <2>1 DEF Validation!Failures
  <2>3. Validation!Failures' \subseteq Validation!Failures \cup {[since |-> 0]} BY <2>2
  <2> QED BY <2>1, <2>2, <2>3 DEF Database, Single, Fitting
<1> QED
  BY <1>1, <1>2

\* completeDomainValidationRun, for a decision about the scope of the candidate.
LEMMA Completing ==
    ASSUME Database, Single, Fitting, NEW job, job.fqdn \in Domains,
           NEW judged \in Validation!Verdicts, Validation!Fits(job),
           Validation!Complete(job, judged)
    PROVE  /\ Database' /\ Single' /\ Fitting'
           /\ Validation!Failures' \subseteq Validation!Failures
<1> DEFINE c == [candidates[job.fqdn] EXCEPT !.status = judged, !.next = Cooldown, !.streak = 0,
                     !.lease = NoLease, !.decided = job.scope]
<1>1. /\ runs' = Validation!Replaced(Validation!RunOf(job), "completed", "none")
      /\ candidates' = [candidates EXCEPT ![job.fqdn] = c]
  BY DEF Validation!Complete
<1>2. /\ DOMAIN c = CandidateFields /\ c.scope \in Validation!Scopes /\ c.streak \in Nat
      /\ c.decided = c.scope
  BY DEF Database, CandidateFields, Validation!Fits
<1> HIDE DEF c
<1> QED
  BY <1>1, <1>2, Writing, RunEnding DEF Database

\* An execution is over, and its worker looks for the next; or it goes on in
\* another phase, without being able to fail a run.
LEMMA Leaving ==
    ASSUME Processes, Staffed, Apart, NEW job \in jobs, jobs' = jobs \ {job},
           UNCHANGED <<scheduler, active>>
    PROVE  Processes' /\ Staffed' /\ Apart'
<1>1. Validation!Busy' \subseteq Validation!Busy
      /\ (jobs \ Validation!Busy)' \subseteq jobs \ Validation!Busy
  BY DEF Validation!Busy
<1>2. IsFiniteSet(jobs') /\ IsFiniteSet(Validation!Busy)
      /\ IsFiniteSet(jobs \ Validation!Busy)
  <2>1. Validation!Busy \subseteq jobs BY DEF Validation!Busy
  <2> QED BY <2>1, Fewer DEF Processes
<1>3. Processes' BY <1>2 DEF Processes
<1>4. /\ Cardinality(Validation!Busy') <= Cardinality(Validation!Busy)
      /\ Cardinality(Validation!Busy') \in Nat /\ Cardinality(Validation!Busy) \in Nat
  BY <1>1, <1>2, Fewer
<1>5. /\ Cardinality((jobs \ Validation!Busy)') <= Cardinality(jobs \ Validation!Busy)
      /\ Cardinality((jobs \ Validation!Busy)') \in Nat
      /\ Cardinality(jobs \ Validation!Busy) \in Nat
  BY <1>1, <1>2, Fewer
<1>6. jobs' # Validation!Busy' => jobs # Validation!Busy
  BY DEF Validation!Busy
<1>7. Staffed'
  <2>1. Cardinality(Validation!Busy') <= active'.workers
    BY <1>4 DEF Staffed, Processes
  <2>2. Cardinality((jobs \ Validation!Busy)') + active'.workers <= Concurrency
    BY <1>5, ValidationAssumption DEF Staffed, Processes
  <2> QED BY <1>6, <2>1, <2>2 DEF Staffed
<1>8. Apart' BY DEF Apart
<1> QED
  BY <1>3, <1>7, <1>8

LEMMA Executions ==
    ASSUME Processes
    PROVE  /\ IsFiniteSet(Validation!Executing) /\ Cardinality(Validation!Executing) \in Nat
           /\ Validation!Executing \subseteq Validation!Busy
           /\ IsFiniteSet(Validation!Busy) /\ Cardinality(Validation!Busy) \in Nat
           /\ IsFiniteSet(jobs \ Validation!Busy)
           /\ Cardinality(jobs \ Validation!Busy) \in Nat
<1>1. /\ Validation!Executing \subseteq jobs /\ Validation!Busy \subseteq jobs
      /\ Validation!Executing \subseteq Validation!Busy
  BY DEF Validation!Executing, Validation!Busy
<1> QED
  BY <1>1, Fewer DEF Processes

LEMMA Over ==
    ASSUME ValidationInv, Validation!Decides \/ Validation!Throws PROVE ValidationInv'
<1> USE DEF ValidationInv
<1>1. PICK job \in Validation!Executing :
         /\ jobs' = jobs \ {job} /\ UNCHANGED <<scheduler, active>>
         /\ \/ \E judged \in Validation!Verdicts :
                 Validation!Fits(job) /\ Validation!Complete(job, judged)
            \/ \E category : Validation!Fail(job, "failed", category, Validation!Longer(job.streak))
  <2>1. CASE Validation!Decides BY <2>1 DEF Validation!Decides
  <2>2. CASE Validation!Throws BY <2>2 DEF Validation!Throws
  <2> QED BY <2>1, <2>2
<1>2. job \in jobs /\ job.fqdn \in Domains /\ Validation!Longer(job.streak) \in Nat
  BY DEF Validation!Executing, Processes, Validation!Longer
<1>3. Processes' /\ Staffed' /\ Apart' BY <1>1, <1>2, Leaving
<1>4. Validation!Executing' \subseteq Validation!Executing \ {job}
  BY <1>1 DEF Validation!Executing
<1>5. /\ Cardinality(Validation!Executing') + 1 <= Cardinality(Validation!Executing)
      /\ Cardinality(Validation!Executing') \in Nat
      /\ Cardinality(Validation!Executing) \in Nat
  BY <1>4, Executions, OneLess
<1>6. CASE \E category :
              Validation!Fail(job, "failed", category, Validation!Longer(job.streak))
  <2>1. /\ Database' /\ Single' /\ Fitting'
        /\ \E x : x.since = 0 /\ Validation!Failures' \subseteq Validation!Failures \cup {x}
    BY <1>2, <1>6, Failing
  <2>2. Circuited' BY <1>5, <2>1, OneFails
  <2> QED BY <1>3, <2>1, <2>2
<1>7. CASE \E judged \in Validation!Verdicts :
              Validation!Fits(job) /\ Validation!Complete(job, judged)
  <2>1. /\ Database' /\ Single' /\ Fitting'
        /\ Validation!Failures' \subseteq Validation!Failures
    BY <1>2, <1>7, Completing
  <2>2. Circuited' BY <1>5, <2>1, Quiet
  <2> QED BY <1>3, <2>1, <2>2
<1> QED
  BY <1>1, <1>6, <1>7

LEMMA GivingUp == ASSUME ValidationInv, Validation!GivesUp PROVE ValidationInv'
<1> USE DEF ValidationInv
<1>1. PICK job \in Validation!Executing :
         /\ jobs' = (jobs \ {job}) \cup {[job EXCEPT !.phase = "closing", !.left = CleanupTimeout]}
         /\ UNCHANGED <<scheduler, active>>
         /\ IF active.aborted
            THEN Validation!Fail(job, "cancelled", "shutdown", job.streak)
            ELSE Validation!Fail(job, "failed", "infrastructure-failure",
                                 Validation!Longer(job.streak))
  BY DEF Validation!GivesUp
<1>2. job \in jobs /\ job.fqdn \in Domains /\ job.streak \in Nat
      /\ Validation!Longer(job.streak) \in Nat /\ DOMAIN job = JobFields
      /\ job.phase = "executing"
  BY DEF Validation!Executing, Processes, Validation!Longer
<1>4. /\ Database' /\ Single' /\ Fitting'
      /\ \E x : x.since = 0 /\ Validation!Failures' \subseteq Validation!Failures \cup {x}
  <2>1. CASE active.aborted
    <3>1. Validation!Fail(job, "cancelled", "shutdown", job.streak) BY <1>1, <2>1
    <3> QED BY <1>2, <3>1, Failing
  <2>2. CASE ~active.aborted
    <3>1. Validation!Fail(job, "failed", "infrastructure-failure", Validation!Longer(job.streak))
      BY <1>1, <2>2
    <3> QED BY <1>2, <3>1, Failing
  <2> QED BY <2>1, <2>2
<1> DEFINE k == [job EXCEPT !.phase = "closing", !.left = CleanupTimeout]
<1>5. /\ DOMAIN k = JobFields /\ k.fqdn = job.fqdn /\ k.streak = job.streak
      /\ k.phase = "closing"
  BY <1>2 DEF JobFields
<1>6. jobs' = (jobs \ {job}) \cup {k} BY <1>1
<1> HIDE DEF k
<1>7. Validation!Executing' \subseteq Validation!Executing \ {job}
  BY <1>5, <1>6 DEF Validation!Executing
<1>8. /\ Cardinality(Validation!Executing') + 1 <= Cardinality(Validation!Executing)
      /\ Cardinality(Validation!Executing') \in Nat
      /\ Cardinality(Validation!Executing) \in Nat
  BY <1>7, Executions, OneLess
<1>9. Circuited' BY <1>4, <1>8, OneFails
<1>10. Processes'
  <2>1. IsFiniteSet(jobs')
    <3>1. jobs' \subseteq jobs \cup {k} BY <1>6
    <3> QED BY <3>1, OneMore DEF Processes
  <2> QED BY <1>1, <1>2, <1>5, <1>6, <2>1 DEF Processes
<1>11. Staffed'
  <2>1. Validation!Busy' = (Validation!Busy \ {job}) \cup {k} /\ job \in Validation!Busy
        /\ (jobs \ Validation!Busy)' \subseteq jobs \ Validation!Busy
    BY <1>2, <1>5, <1>6 DEF Validation!Busy
  <2>2. /\ IsFiniteSet(Validation!Busy \ {job})
        /\ Cardinality(Validation!Busy \ {job}) + 1 <= Cardinality(Validation!Busy)
        /\ Cardinality(Validation!Busy \ {job}) \in Nat /\ Cardinality(Validation!Busy) \in Nat
    BY <2>1, Executions, OneLess
  <2>3. Cardinality(Validation!Busy') <= Cardinality(Validation!Busy \ {job}) + 1
        /\ Cardinality(Validation!Busy') \in Nat
    BY <2>1, <2>2, OneMore
  <2>4. /\ Cardinality((jobs \ Validation!Busy)') <= Cardinality(jobs \ Validation!Busy)
        /\ Cardinality((jobs \ Validation!Busy)') \in Nat
        /\ Cardinality(jobs \ Validation!Busy) \in Nat
    BY <2>1, Executions, Fewer
  <2>5. Cardinality(Validation!Busy') <= active'.workers
    BY <1>1, <2>2, <2>3 DEF Staffed, Processes
  <2>6. Cardinality((jobs \ Validation!Busy)') + active'.workers <= Concurrency
    BY <1>1, <2>4, ValidationAssumption DEF Staffed, Processes
  <2>7. jobs' # Validation!Busy' => jobs # Validation!Busy
    BY <1>2, <1>5, <1>6 DEF Validation!Busy
  <2> QED BY <1>1, <2>5, <2>6, <2>7 DEF Staffed
<1>12. Apart' BY <1>1, <1>2, <1>5, <1>6 DEF Apart
<1> QED
  BY <1>4, <1>9, <1>10, <1>11, <1>12

-----------------------------------------------------------------------------
(* The scheduler.                                                            *)

\* What is due is listed once for each domain.
LEMMA Listed ==
    ASSUME NEW cs, \A f \in Domains : cs[f].scope \in Validation!Scopes /\ cs[f].streak \in Nat,
           NEW due \in Validation!DueLists(cs)
    PROVE  /\ due \in Seq(Rows)
           /\ \A i, k \in DOMAIN due : due[i].fqdn = due[k].fqdn => i = k
<1> DEFINE S == Validation!DueDomains(cs)
           n == Cardinality(S)
<1>1. S \subseteq Domains BY DEF Validation!DueDomains
<1>2. n \in Nat BY <1>1, Fewer, ValidationAssumption
<1>3. PICK order \in Validation!SetToSeqs(S) :
         due = [i \in DOMAIN order |-> [fqdn |-> order[i], scope |-> cs[order[i]].scope,
                                        streak |-> cs[order[i]].streak]]
  BY DEF Validation!DueLists
<1>4. Validation!Cardinality(S) = n BY Counted
<1> HIDE DEF S, n
<1>5. order \in [1..n -> S] /\ \A i, j \in 1..n : i # j => order[i] # order[j]
  BY <1>4 DEF Validation!SetToSeqs
<1>6. \A i \in 1..n : order[i] \in Domains BY <1>1, <1>5
<1>7. due \in [1..n -> Rows]
  BY <1>3, <1>5, <1>6 DEF Rows
<1>8. \A i \in 1..n : due[i].fqdn = order[i] BY <1>3, <1>5
<1>9. \A i, k \in DOMAIN due : due[i].fqdn = due[k].fqdn => i = k
  BY <1>5, <1>7, <1>8
<1> QED
  BY <1>2, <1>7, <1>9

\* recoverExpiredDomainValidationRuns.
LEMMA Maintaining ==
    ASSUME Database, Single, Fitting, Validation!RunMaintenance
    PROVE  /\ Database' /\ Single' /\ Fitting'
           /\ Validation!Failures' \subseteq Validation!Failures
           /\ candidates' = Validation!RecoveredCandidates
<1> DEFINE olds == Validation!Orphans
<1>1. runs' = Validation!Replaced(olds, "cancelled", "lease-lost")
      /\ candidates' = Validation!RecoveredCandidates
  BY DEF Validation!RunMaintenance
<1>2. olds \subseteq runs BY DEF Validation!Orphans
<1> HIDE DEF olds
<1>3. /\ IsFiniteSet(runs') /\ \A r \in runs' : DOMAIN r = RunFields /\ r.since \in Nat
      /\ \A r \in runs' : r.status = "running" => r \in runs \ olds
      /\ \A r \in runs' : r \in runs \/ r.status = "cancelled"
  BY <1>1, <1>2, EndingRuns
<1>4. Single' /\ Validation!Failures' \subseteq Validation!Failures
  BY <1>3 DEF Single, Validation!Failures
<1>5. /\ DOMAIN candidates' = Domains
      /\ \A f \in Domains :
            \/ candidates'[f] = candidates[f]
            \/ candidates'[f] = [candidates[f] EXCEPT !.status = "pending", !.lease = NoLease,
                                                      !.next = 0]
  BY <1>1 DEF Validation!RecoveredCandidates
<1>6. \A f \in Domains :
         /\ DOMAIN candidates'[f] = CandidateFields
         /\ candidates'[f].scope = candidates[f].scope
         /\ candidates'[f].streak = candidates[f].streak
         /\ candidates'[f] = candidates[f] \/ candidates'[f].status = "pending"
  BY <1>5 DEF Database, CandidateFields
<1>7. Fitting' BY <1>6 DEF Fitting, Validation!Verdicts
<1> QED
  BY <1>1, <1>3, <1>4, <1>5, <1>6, <1>7 DEF Database

LEMMA Unmoved ==
    ASSUME Processes, Staffed, Apart, jobs' = jobs, DOMAIN active' = DOMAIN active,
           active'.due = active.due, active'.workers = active.workers,
           active'.running = active.running, DOMAIN scheduler' = DOMAIN scheduler,
           scheduler.failed /\ ~scheduler.on => scheduler'.failed /\ ~scheduler'.on
    PROVE  Processes' /\ Staffed' /\ Apart'
<1>1. Validation!Busy' = Validation!Busy BY DEF Validation!Busy
<1>2. Processes' BY DEF Processes
<1>3. Apart' BY DEF Apart
<1>4. Staffed'
  <2>1. jobs' # Validation!Busy' => scheduler'.failed /\ ~scheduler'.on BY <1>1 DEF Staffed
  <2> QED BY <1>1, <2>1 DEF Staffed
<1> QED
  BY <1>2, <1>3, <1>4

\* Nothing is executed when a run begins.
LEMMA Nobody ==
    ASSUME Processes, Staffed, scheduler.on, ~active.running PROVE jobs = {}
<1>1. jobs = Validation!Busy BY DEF Staffed
<1>2. Cardinality(Validation!Busy) <= 0 BY DEF Staffed
<1>3. Cardinality(Validation!Busy) = 0 /\ IsFiniteSet(Validation!Busy)
  BY <1>2, Executions
<1> QED
  BY <1>1, <1>3, FS_EmptySet

LEMMA Executed ==
    ASSUME Processes, jobs' = jobs
    PROVE  /\ Cardinality(Validation!Executing') <= Cardinality(Validation!Executing)
           /\ Cardinality(Validation!Executing') \in Nat
           /\ Cardinality(Validation!Executing) \in Nat
<1>1. Validation!Executing' = Validation!Executing BY DEF Validation!Executing
<1> QED
  BY <1>1, Executions

LEMMA RunBeginning == ASSUME ValidationInv, Validation!RunBegins PROVE ValidationInv'
<1> USE DEF ValidationInv
<1>1. /\ scheduler.on /\ ~active.running /\ Validation!RunMaintenance /\ jobs' = jobs
      /\ \E request : scheduler' = [scheduler EXCEPT !.asked = scheduler.asked \ {request}]
  BY DEF Validation!RunBegins, Validation!MayBegin
<1>2. PICK due \in IF policy.enabled /\ ~Validation!CircuitOpen
                   THEN Validation!DueLists(Validation!RecoveredCandidates) ELSE {<<>>} :
         active' = [due |-> due, aborted |-> FALSE, running |-> TRUE,
                    workers |-> IF Len(due) < Concurrency THEN Len(due) ELSE Concurrency]
  BY DEF Validation!RunBegins
<1>3. /\ Database' /\ Single' /\ Fitting' /\ Validation!Failures' \subseteq Validation!Failures
      /\ candidates' = Validation!RecoveredCandidates
  BY <1>1, Maintaining
<1>4. due \in Seq(Rows) /\ \A i, k \in DOMAIN due : due[i].fqdn = due[k].fqdn => i = k
  <2>1. CASE due \in Validation!DueLists(Validation!RecoveredCandidates)
    <3> DEFINE cs == Validation!RecoveredCandidates
    <3>1. \A f \in Domains : cs[f].scope \in Validation!Scopes /\ cs[f].streak \in Nat
      BY <1>3 DEF Database
    <3> HIDE DEF cs
    <3>2. due \in Validation!DueLists(cs) BY <2>1 DEF cs
    <3> QED BY <3>1, <3>2, Listed
  <2>2. CASE due = <<>> BY <2>2
  <2> QED BY <1>2, <2>1, <2>2
<1>5. jobs = {} BY <1>1, Nobody
<1>6. Circuited' BY <1>1, <1>3, Executed, Quiet
<1>7. DOMAIN scheduler' = DOMAIN scheduler BY <1>1
<1>8. /\ DOMAIN active' = {"due", "workers", "aborted", "running"} /\ active'.due = due
      /\ active'.workers \in Nat /\ active'.workers <= Concurrency /\ active'.running
  BY <1>2, <1>4, ValidationAssumption
<1>9. Processes' BY <1>1, <1>4, <1>7, <1>8 DEF Processes
<1>10. Staffed'
  <2>1. Validation!Busy' = {} /\ jobs' = {} BY <1>1, <1>5 DEF Validation!Busy
  <2>2. Cardinality({}) = 0 BY FS_EmptySet
  <2>3. Cardinality(jobs' \ Validation!Busy') = 0 BY <2>1, <2>2
  <2> QED BY <1>8, <2>1, <2>2, <2>3, ValidationAssumption DEF Staffed
<1>11. Apart' BY <1>1, <1>4, <1>5, <1>8 DEF Apart
<1> QED
  BY <1>3, <1>6, <1>9, <1>10, <1>11

LEMMA DatabaseKept ==
    ASSUME Database, Single, Fitting, UNCHANGED <<candidates, runs>>
    PROVE  /\ Database' /\ Single' /\ Fitting'
           /\ Validation!Failures' \subseteq Validation!Failures
  BY DEF Database, Single, Fitting, Validation!Failures

LEMMA RunEnded == ASSUME ValidationInv, Validation!RunEnds PROVE ValidationInv'
<1> USE DEF ValidationInv
<1>1. /\ active.workers = 0 /\ active' = Validation!NoRun /\ jobs' = jobs
      /\ UNCHANGED <<candidates, runs>>
      /\ scheduler' = scheduler \/ scheduler' = [scheduler EXCEPT !.timer = Pulse]
  BY DEF Validation!RunEnds, Validation!database
<1>2. /\ DOMAIN active' = {"due", "workers", "aborted", "running"} /\ active'.due = <<>>
      /\ active'.workers = 0 /\ ~active'.running
  BY <1>1 DEF Validation!NoRun
<1>3. DOMAIN scheduler' = DOMAIN scheduler /\ scheduler'.failed = scheduler.failed
      /\ scheduler'.on = scheduler.on
  BY <1>1 DEF Processes
<1>4. Processes' BY <1>1, <1>2, <1>3 DEF Processes
<1>5. Apart' BY <1>1, <1>2 DEF Apart
<1>6. Staffed'
  <2>1. Validation!Busy' = Validation!Busy BY <1>1 DEF Validation!Busy
  <2>2. Cardinality(Validation!Busy') <= active'.workers
        /\ Cardinality((jobs \ Validation!Busy)') + active'.workers <= Concurrency
    BY <1>1, <1>2, <2>1 DEF Staffed
  <2>3. jobs' # Validation!Busy' => scheduler'.failed /\ ~scheduler'.on
    BY <1>1, <1>3, <2>1 DEF Staffed
  <2> QED BY <1>2, <2>2, <2>3 DEF Staffed
<1> QED
  BY <1>1, <1>4, <1>5, <1>6, DatabaseKept, Executed, Quiet

LEMMA WorkerLeaving == ASSUME ValidationInv, Validation!Leaves PROVE ValidationInv'
<1> USE DEF ValidationInv
<1>1. /\ active.running /\ active.workers > Cardinality(Validation!Busy)
      /\ active' = [active EXCEPT !.workers = active.workers - 1]
      /\ UNCHANGED <<candidates, runs, scheduler, jobs>>
  BY Counted DEF Validation!Leaves, Validation!Free, Validation!WorkerReturns, Validation!database
<1>2. /\ DOMAIN active' = DOMAIN active /\ active'.due = active.due
      /\ active'.workers = active.workers - 1 /\ active'.running = active.running
      /\ active'.workers \in Nat
  <2>1. active.workers - 1 \in Nat BY <1>1, Executions DEF Processes
  <2>2. DOMAIN active' = DOMAIN active /\ active'.due = active.due
        /\ active'.workers = active.workers - 1
    BY <1>1 DEF Processes
  <2>3. active'.running = active.running BY <1>1 DEF Processes
  <2> QED BY <2>1, <2>2, <2>3
<1>3. Processes' BY <1>1, <1>2 DEF Processes
<1>4. Apart' BY <1>1, <1>2 DEF Apart
<1>5. Staffed'
  <2>1. Validation!Busy' = Validation!Busy BY <1>1 DEF Validation!Busy
  <2>2. Cardinality(Validation!Busy') <= active'.workers
        /\ Cardinality((jobs \ Validation!Busy)') + active'.workers <= Concurrency
    BY <1>1, <1>2, <2>1, Executions, ValidationAssumption DEF Staffed, Processes
  <2>3. jobs' # Validation!Busy' => scheduler'.failed /\ ~scheduler'.on
    BY <1>1, <2>1 DEF Staffed
  <2> QED BY <1>1, <1>2, <2>2, <2>3 DEF Staffed
<1> QED
  BY <1>1, <1>3, <1>4, <1>5, DatabaseKept, Executed, Quiet

\* claimDomainValidationRun.
LEMMA Claiming ==
    ASSUME Database, Single, Fitting, NEW f \in Domains, Validation!Claim(f)
    PROVE  /\ Database' /\ Single' /\ Fitting'
           /\ Validation!Failures' \subseteq Validation!Failures
<1> DEFINE olds == Validation!Running(f)
           kept == Validation!Replaced(olds, "cancelled", "lease-lost")
           new == [fqdn |-> f, generation |-> Validation!NextGeneration(f), age |-> 0, since |-> 0,
                   status |-> "running", category |-> "none"]
           c == [candidates[f] EXCEPT !.status = "pending", !.lease = Lease,
                                      !.generation = Validation!NextGeneration(f)]
<1>1. runs' = kept \cup {new} /\ candidates' = [candidates EXCEPT ![f] = c]
  BY DEF Validation!Claim
<1>2. olds \subseteq runs /\ \A r \in runs : r.status = "running" /\ r.fqdn = f => r \in olds
  BY DEF Validation!Running
<1>3. /\ DOMAIN new = RunFields /\ new.since = 0 /\ new.status = "running" /\ new.fqdn = f
  BY DEF RunFields
<1>4. /\ DOMAIN c = CandidateFields /\ c.scope \in Validation!Scopes /\ c.streak \in Nat
      /\ c.status = "pending"
  BY DEF Database, CandidateFields
<1> HIDE DEF olds, new, c
<1>5. /\ IsFiniteSet(kept) /\ \A r \in kept : DOMAIN r = RunFields /\ r.since \in Nat
      /\ \A r \in kept : r.status = "running" => r \in runs \ olds
      /\ \A r \in kept : r \in runs \/ r.status = "cancelled"
  BY <1>2, EndingRuns
<1> HIDE DEF kept
<1>6. /\ IsFiniteSet(runs') /\ \A r \in runs' : DOMAIN r = RunFields /\ r.since \in Nat
  BY <1>1, <1>3, <1>5, FS_AddElement
<1>7. Single' BY <1>1, <1>2, <1>3, <1>5 DEF Single
<1>8. Validation!Failures' \subseteq Validation!Failures
  BY <1>1, <1>3, <1>5 DEF Validation!Failures
<1>9. "pending" \notin Validation!Verdicts BY DEF Validation!Verdicts
<1> QED
  BY <1>1, <1>4, <1>6, <1>7, <1>8, <1>9, Writing DEF Database

LEMMA Taking == ASSUME ValidationInv, Validation!Take PROVE ValidationInv'
<1> USE DEF ValidationInv
<1> DEFINE row == Head(active.due)
           new == [fqdn |-> row.fqdn, scope |-> row.scope, streak |-> row.streak,
                   generation |-> Validation!NextGeneration(row.fqdn),
                   phase |-> "executing", left |-> WorkTimeout]
<1>1. /\ active.running /\ active.workers > Cardinality(Validation!Busy)
      /\ ~Validation!CircuitOpen /\ active.due # <<>>
      /\ active' = [active EXCEPT !.due = Tail(active.due)]
      /\ scheduler' = scheduler
      /\ \/ Validation!Claim(row.fqdn) /\ jobs' = jobs \cup {new}
         \/ UNCHANGED <<candidates, runs, jobs>>
  BY Counted DEF Validation!Take, Validation!Free, Validation!database
<1>2. row \in Rows /\ Tail(active.due) \in Seq(Rows) BY <1>1 DEF Processes
<1>3. row.fqdn \in Domains /\ row.streak \in Nat BY <1>2 DEF Rows
<1>4. /\ DOMAIN active' = DOMAIN active /\ active'.due = Tail(active.due)
      /\ active'.workers = active.workers /\ active'.running = active.running
  BY <1>1 DEF Processes
<1>5. /\ \A i \in DOMAIN active'.due : i + 1 \in DOMAIN active.due
                                       /\ active'.due[i] = active.due[i + 1]
      /\ 1 \in DOMAIN active.due /\ row = active.due[1]
      /\ DOMAIN active'.due \subseteq Nat /\ \A i \in DOMAIN active'.due : i # 0
  BY <1>1, <1>4 DEF Processes
<1>6. /\ DOMAIN new = JobFields /\ new.fqdn = row.fqdn /\ new.streak = row.streak
      /\ new.phase = "executing"
  BY DEF JobFields
<1> HIDE DEF row, new
<1>7. \A i, k \in DOMAIN active'.due : active'.due[i].fqdn = active'.due[k].fqdn => i = k
  <2> SUFFICES ASSUME NEW i \in DOMAIN active'.due, NEW k \in DOMAIN active'.due,
                      active'.due[i].fqdn = active'.due[k].fqdn
               PROVE  i = k
    OBVIOUS
  <2>1. i + 1 = k + 1 BY <1>5 DEF Apart
  <2> QED BY <2>1, <1>5
<1>8. CASE UNCHANGED <<candidates, runs, jobs>>
  <2>1. Processes' BY <1>1, <1>2, <1>4, <1>8 DEF Processes
  <2>2. \A i \in DOMAIN active'.due, j \in jobs' : active'.due[i].fqdn # j.fqdn
    BY <1>5, <1>8 DEF Apart
  <2>3. Apart' BY <1>7, <1>8, <2>2 DEF Apart
  <2>4. Validation!Busy' = Validation!Busy BY <1>8 DEF Validation!Busy
  <2>5. Staffed' BY <1>1, <1>4, <1>8, <2>4 DEF Staffed
  <2> QED BY <1>8, <2>1, <2>3, <2>5, DatabaseKept, Executed, Quiet
<1>9. CASE Validation!Claim(row.fqdn) /\ jobs' = jobs \cup {new}
  <2>1. /\ Database' /\ Single' /\ Fitting'
        /\ Validation!Failures' \subseteq Validation!Failures
    BY <1>3, <1>9, Claiming
  <2>2. IsFiniteSet(jobs') BY <1>9, FS_AddElement DEF Processes
  <2>3. Processes' BY <1>1, <1>2, <1>3, <1>4, <1>6, <1>9, <2>2 DEF Processes
  <2>4. \A j \in jobs : j.fqdn # row.fqdn BY <1>5 DEF Apart
  <2>5. \A i \in DOMAIN active'.due : active'.due[i].fqdn # row.fqdn
    <3> SUFFICES ASSUME NEW i \in DOMAIN active'.due, active'.due[i].fqdn = row.fqdn PROVE FALSE
      OBVIOUS
    <3>1. i + 1 = 1 BY <1>5 DEF Apart
    <3> QED BY <3>1, <1>5
  <2>6. \A i \in DOMAIN active'.due, j \in jobs : active'.due[i].fqdn # j.fqdn
    BY <1>5 DEF Apart
  <2>7. Apart' BY <1>6, <1>7, <1>9, <2>4, <2>5, <2>6 DEF Apart
  <2>8. Validation!Busy' \subseteq Validation!Busy \cup {new}
        /\ (jobs \ Validation!Busy)' \subseteq jobs \ Validation!Busy
    BY <1>6, <1>9 DEF Validation!Busy
  <2>9. Cardinality(Validation!Busy') <= Cardinality(Validation!Busy) + 1
        /\ Cardinality(Validation!Busy') \in Nat /\ Cardinality(Validation!Busy) \in Nat
    BY <2>8, Executions, OneMore
  <2>10. Cardinality((jobs \ Validation!Busy)') <= Cardinality(jobs \ Validation!Busy)
         /\ Cardinality((jobs \ Validation!Busy)') \in Nat
         /\ Cardinality(jobs \ Validation!Busy) \in Nat
    BY <2>8, Executions, Fewer
  <2>11. Cardinality(Validation!Busy') <= active.workers
    BY <1>1, <2>9 DEF Processes
  <2>12. Cardinality((jobs \ Validation!Busy)') + active.workers <= Concurrency
    BY <2>10, ValidationAssumption DEF Staffed, Processes
  <2>13. jobs' # Validation!Busy' => jobs # Validation!Busy
    BY <1>6, <1>9 DEF Validation!Busy
  <2>14. Staffed' BY <1>1, <1>4, <2>11, <2>12, <2>13 DEF Staffed
  <2>15. Cardinality(Validation!Executing') \in Nat
         /\ Cardinality(Validation!Executing') <= Concurrency
    <3>1. Validation!Executing' \subseteq Validation!Busy' /\ IsFiniteSet(Validation!Busy')
      BY <2>8, Executions, OneMore DEF Validation!Executing, Validation!Busy
    <3>2. Cardinality(Validation!Executing') <= Cardinality(Validation!Busy')
          /\ Cardinality(Validation!Executing') \in Nat
      BY <3>1, Fewer
    <3> QED BY <2>9, <2>10, <2>11, <2>12, <3>2, ValidationAssumption DEF Processes
  <2>16. Circuited' BY <1>1, <2>1, <2>15, OneBegins
  <2> QED BY <2>1, <2>3, <2>7, <2>14, <2>16
<1> QED
  BY <1>1, <1>8, <1>9

LEMMA Abandoning == ASSUME ValidationInv, Validation!CleanupExpires PROVE ValidationInv'
<1> USE DEF ValidationInv
<1>1. PICK job \in jobs :
         /\ job.phase = "closing"
         /\ jobs' = (jobs \ {job}) \cup {[job EXCEPT !.phase = "abandoned"]}
         /\ scheduler' = [Validation!Asleep EXCEPT !.failed = TRUE, !.timer = Pulse]
         /\ active' = [active EXCEPT !.aborted = TRUE, !.workers = active.workers - 1]
         /\ UNCHANGED <<candidates, runs>>
  BY DEF Validation!CleanupExpires, Validation!database
<1> DEFINE k == [job EXCEPT !.phase = "abandoned"]
<1>2. /\ DOMAIN k = JobFields /\ k.fqdn = job.fqdn /\ k.streak = job.streak
      /\ k.phase = "abandoned"
  BY <1>1 DEF JobFields, Processes
<1>3. jobs' = (jobs \ {job}) \cup {k} BY <1>1
<1> HIDE DEF k
<1>4. /\ DOMAIN scheduler' = {"on", "failed", "timer", "asked"}
      /\ scheduler'.failed /\ ~scheduler'.on
  BY <1>1 DEF Validation!Asleep
<1>5. Validation!Busy' \subseteq Validation!Busy \ {job} /\ job \in Validation!Busy
      /\ (jobs \ Validation!Busy)' \subseteq (jobs \ Validation!Busy) \cup {k}
  BY <1>1, <1>2, <1>3 DEF Validation!Busy
<1>6. /\ Cardinality(Validation!Busy') + 1 <= Cardinality(Validation!Busy)
      /\ Cardinality(Validation!Busy') \in Nat /\ Cardinality(Validation!Busy) \in Nat
  BY <1>5, Executions, OneLess
<1>7. /\ Cardinality((jobs \ Validation!Busy)') <= Cardinality(jobs \ Validation!Busy) + 1
      /\ Cardinality((jobs \ Validation!Busy)') \in Nat
      /\ Cardinality(jobs \ Validation!Busy) \in Nat
  BY <1>5, Executions, OneMore
<1>8. active.workers - 1 \in Nat /\ active.running /\ active.workers \in Nat
  BY <1>6 DEF Staffed, Processes
<1>9. /\ DOMAIN active' = {"due", "workers", "aborted", "running"}
      /\ active'.due = active.due /\ active'.workers = active.workers - 1
  BY <1>1 DEF Processes
<1>10. active'.running = active.running BY <1>1 DEF Processes
<1>11. IsFiniteSet(jobs')
  <2>1. jobs' \subseteq jobs \cup {k} BY <1>3
  <2> QED BY <2>1, OneMore DEF Processes
<1>12. Processes' BY <1>2, <1>3, <1>4, <1>8, <1>9, <1>11 DEF Processes
<1>13. Staffed'
  <2>1. Cardinality(Validation!Busy') <= active'.workers
    BY <1>6, <1>8, <1>9 DEF Staffed
  <2>2. Cardinality((jobs \ Validation!Busy)') + active'.workers <= Concurrency
    BY <1>7, <1>8, <1>9, ValidationAssumption DEF Staffed
  <2> QED BY <1>4, <1>8, <1>10, <2>1, <2>2 DEF Staffed
<1>14. Apart' BY <1>2, <1>3, <1>9 DEF Apart
<1>15. Validation!Executing' \subseteq Validation!Executing
  BY <1>2, <1>3 DEF Validation!Executing
<1>16. /\ Cardinality(Validation!Executing') <= Cardinality(Validation!Executing)
       /\ Cardinality(Validation!Executing') \in Nat
       /\ Cardinality(Validation!Executing) \in Nat
  BY <1>15, Executions, Fewer
<1> QED
  BY <1>1, <1>12, <1>13, <1>14, <1>16, DatabaseKept, Quiet

LEMMA Settlement ==
    ASSUME ValidationInv, Validation!Settles \/ Validation!Crash PROVE ValidationInv'
<1> USE DEF ValidationInv
<1>1. CASE Validation!Settles
  <2>1. PICK job \in jobs : /\ jobs' = jobs \ {job}
                            /\ UNCHANGED <<candidates, runs, scheduler, active>>
    BY <1>1 DEF Validation!Settles, Validation!database
  <2>2. Processes' /\ Staffed' /\ Apart' BY <2>1, Leaving
  <2>3. Validation!Executing' \subseteq Validation!Executing
    BY <2>1 DEF Validation!Executing
  <2>4. /\ Cardinality(Validation!Executing') <= Cardinality(Validation!Executing)
        /\ Cardinality(Validation!Executing') \in Nat
        /\ Cardinality(Validation!Executing) \in Nat
    BY <2>3, Executions, Fewer
  <2> QED BY <2>1, <2>2, <2>4, DatabaseKept, Quiet
<1>2. CASE Validation!Crash
  <2>1. /\ scheduler' = Validation!Asleep /\ active' = Validation!NoRun /\ jobs' = {}
        /\ UNCHANGED <<candidates, runs>>
    BY <1>2 DEF Validation!Crash, Validation!database
  <2>2. /\ DOMAIN active' = {"due", "workers", "aborted", "running"} /\ active'.due = <<>>
        /\ active'.workers = 0 /\ ~active'.running
        /\ DOMAIN scheduler' = {"on", "failed", "timer", "asked"}
    BY <2>1 DEF Validation!NoRun, Validation!Asleep
  <2>3. Validation!Busy' = {} /\ Validation!Executing' = {} /\ jobs' \ Validation!Busy' = {}
    BY <2>1 DEF Validation!Busy, Validation!Executing
  <2>4. Cardinality({}) = 0 /\ IsFiniteSet({}) BY FS_EmptySet
  <2>5. Processes' BY <2>1, <2>2, <2>4 DEF Processes
  <2>6. Staffed' BY <2>1, <2>2, <2>3, <2>4, ValidationAssumption DEF Staffed
  <2>7. Apart' BY <2>1, <2>2 DEF Apart
  <2>8. Cardinality(Validation!Executing) \in Nat BY Executions
  <2>9. /\ Cardinality(Validation!Executing') <= Cardinality(Validation!Executing)
        /\ Cardinality(Validation!Executing') \in Nat
    BY <2>3, <2>4, <2>8
  <2> QED BY <2>1, <2>5, <2>6, <2>7, <2>8, <2>9, DatabaseKept, Quiet
<1> QED
  BY <1>1, <1>2

\* What only the scheduler or the policy knows of.
LEMMA Steering ==
    ASSUME ValidationInv,
           \/ Validation!Start \/ Validation!Stop \/ Validation!PulseFires
           \/ Validation!Maintains \/ Validation!ChangeSettings
    PROVE  ValidationInv'
<1> USE DEF ValidationInv
<1>1. jobs' = jobs
  BY DEF Validation!Start, Validation!Stop, Validation!PulseFires, Validation!Maintains,
         Validation!ChangeSettings
<1>2. DOMAIN active' = DOMAIN active /\ active'.due = active.due
      /\ active'.workers = active.workers /\ active'.running = active.running
  <2>1. active' = active \/ active' = [active EXCEPT !.aborted = active.running]
    BY DEF Validation!Start, Validation!Stop, Validation!PulseFires, Validation!Maintains,
           Validation!ChangeSettings
  <2>2. CASE active' = active BY <2>2
  <2>3. CASE active' = [active EXCEPT !.aborted = active.running]
    <3> DEFINE a == active.running
    <3>1. active' = [active EXCEPT !.aborted = a] BY <2>3
    <3> HIDE DEF a
    <3> QED BY <3>1 DEF Processes
  <2> QED BY <2>1, <2>2, <2>3
<1>3. DOMAIN scheduler' = DOMAIN scheduler
      /\ (scheduler.failed /\ ~scheduler.on => scheduler'.failed /\ ~scheduler'.on)
  <2>1. CASE Validation!Start
    BY <2>1 DEF Validation!Start, Validation!Asleep, Processes
  <2>2. CASE Validation!Stop
    BY <2>2 DEF Validation!Stop, Validation!Asleep, Processes
  <2>3. CASE Validation!PulseFires \/ Validation!Maintains
    <3>1. \/ \E a : scheduler' = [scheduler EXCEPT !.timer = Validation!NoTimer, !.asked = a]
          \/ scheduler' = [scheduler EXCEPT !.timer = Pulse]
      BY <2>3 DEF Validation!PulseFires, Validation!Maintains
    <3> QED BY <3>1 DEF Processes
  <2>4. CASE Validation!ChangeSettings BY <2>4 DEF Validation!ChangeSettings
  <2> QED BY <2>1, <2>2, <2>3, <2>4
<1>4. Processes' /\ Staffed' /\ Apart' BY <1>1, <1>2, <1>3, Unmoved
<1>5. Database' /\ Single' /\ Fitting' /\ Validation!Failures' \subseteq Validation!Failures
  <2>1. CASE Validation!Maintains
    BY <2>1, Maintaining DEF Validation!Maintains
  <2>2. CASE ~Validation!Maintains
    <3>1. UNCHANGED <<candidates, runs>>
      BY <2>2 DEF Validation!Start, Validation!Stop, Validation!PulseFires,
                  Validation!ChangeSettings, Validation!database
    <3> QED BY <3>1, DatabaseKept
  <2> QED BY <2>1, <2>2
<1> QED
  BY <1>1, <1>4, <1>5, Executed, Quiet

-----------------------------------------------------------------------------
(* What is observed and chosen.                                              *)

LEMMA Cancelling ==
    ASSUME Database, Single, NEW olds, olds \subseteq runs, NEW category,
           runs' = Validation!Replaced(olds, "cancelled", category)
    PROVE  /\ IsFiniteSet(runs') /\ \A r \in runs' : DOMAIN r = RunFields /\ r.since \in Nat
           /\ Single' /\ Validation!Failures' \subseteq Validation!Failures
<1>1. /\ IsFiniteSet(runs') /\ \A r \in runs' : DOMAIN r = RunFields /\ r.since \in Nat
      /\ \A r \in runs' : r.status = "running" => r \in runs \ olds
      /\ \A r \in runs' : r \in runs \/ r.status = "cancelled"
  BY EndingRuns
<1> QED
  BY <1>1 DEF Single, Validation!Failures

LEMMA Observing ==
    ASSUME ValidationInv, NEW f \in Domains, Validation!Observe(f) \/ Validation!SelectScope(f)
    PROVE  ValidationInv'
<1> USE DEF ValidationInv
<1>1. UNCHANGED <<active, jobs>>
      /\ (scheduler' = scheduler \/ \E a : scheduler' = [scheduler EXCEPT !.asked = a])
  <2>1. CASE Validation!Observe(f)
    <3>1. UNCHANGED <<active, jobs>> BY <2>1 DEF Validation!Observe
    <3>2. scheduler' = scheduler
          \/ scheduler' = [scheduler EXCEPT !.asked = scheduler.asked \cup {"wake"}]
      BY <2>1 DEF Validation!Observe
    <3> QED BY <3>1, <3>2
  <2>2. CASE Validation!SelectScope(f) BY <2>2 DEF Validation!SelectScope
  <2> QED BY <2>1, <2>2
<1>2. DOMAIN scheduler' = DOMAIN scheduler
      /\ (scheduler.failed /\ ~scheduler.on => scheduler'.failed /\ ~scheduler'.on)
  BY <1>1 DEF Processes
<1>3. Processes' /\ Staffed' /\ Apart' BY <1>1, <1>2, Unmoved
<1>4. \/ runs' = runs
      \/ runs' = Validation!Replaced(Validation!Running(f), "cancelled", "policy-changed")
  BY DEF Validation!Observe, Validation!SelectScope
<1>5. /\ IsFiniteSet(runs') /\ \A r \in runs' : DOMAIN r = RunFields /\ r.since \in Nat
      /\ Single' /\ Validation!Failures' \subseteq Validation!Failures
  <2>1. CASE runs' = runs BY <2>1 DEF Database, Single, Validation!Failures
  <2>2. CASE runs' = Validation!Replaced(Validation!Running(f), "cancelled", "policy-changed")
    <3>1. Validation!Running(f) \subseteq runs BY DEF Validation!Running
    <3> QED BY <2>2, <3>1, Cancelling
  <2> QED BY <1>4, <2>1, <2>2
<1>6. \/ candidates' = candidates
      \/ candidates' = [candidates EXCEPT ![f] =
            [candidates[f] EXCEPT !.status = "excluded", !.next = 0, !.lease = NoLease]]
      \/ candidates' = [candidates EXCEPT ![f] =
            [candidates[f] EXCEPT !.status = "queued", !.next = 0, !.lease = NoLease]]
      \/ candidates' = [candidates EXCEPT ![f] =
            [candidates[f] EXCEPT !.scope = IF candidates[f].scope = "site" THEN "exact" ELSE "site",
               !.status = "queued", !.next = 0, !.streak = 0, !.lease = NoLease]]
  BY DEF Validation!Observe, Validation!SelectScope
<1>7. candidates' = candidates \/ \E c :
         /\ DOMAIN c = CandidateFields /\ c.scope \in Validation!Scopes /\ c.streak \in Nat
         /\ c.status \notin Validation!Verdicts
         /\ candidates' = [candidates EXCEPT ![f] = c]
  <2>1. /\ DOMAIN candidates[f] = CandidateFields /\ candidates[f].scope \in Validation!Scopes
        /\ candidates[f].streak \in Nat
    BY DEF Database
  <2> DEFINE c1 == [candidates[f] EXCEPT !.status = "excluded", !.next = 0, !.lease = NoLease]
             c2 == [candidates[f] EXCEPT !.status = "queued", !.next = 0, !.lease = NoLease]
             c3 == [candidates[f] EXCEPT
                      !.scope = IF candidates[f].scope = "site" THEN "exact" ELSE "site",
                      !.status = "queued", !.next = 0, !.streak = 0, !.lease = NoLease]
             Good(c) == /\ DOMAIN c = CandidateFields /\ c.scope \in Validation!Scopes
                        /\ c.streak \in Nat /\ c.status \notin Validation!Verdicts
  <2>2. Good(c1) BY <2>1 DEF CandidateFields, Validation!Verdicts
  <2>3. Good(c2) BY <2>1 DEF CandidateFields, Validation!Verdicts
  <2>4. Good(c3) BY <2>1 DEF CandidateFields, Validation!Verdicts, Validation!Scopes
  <2>5. \/ candidates' = candidates \/ candidates' = [candidates EXCEPT ![f] = c1]
        \/ candidates' = [candidates EXCEPT ![f] = c2]
        \/ candidates' = [candidates EXCEPT ![f] = c3]
    BY <1>6
  <2> HIDE DEF c1, c2, c3
  <2> QED BY <2>2, <2>3, <2>4, <2>5
<1>8. Database' /\ Fitting'
  <2>1. CASE candidates' = candidates BY <1>5, <2>1 DEF Database, Fitting
  <2>2. CASE candidates' # candidates BY <1>5, <1>7, <2>2, Writing DEF Database
  <2> QED BY <2>1, <2>2
<1> QED
  BY <1>1, <1>3, <1>5, <1>8, Executed, Quiet

-----------------------------------------------------------------------------
(* Time.                                                                     *)

LEMMA Passing == ASSUME ValidationInv, Validation!Tick PROVE ValidationInv'
<1> USE DEF ValidationInv
<1> DEFINE g == [o \in runs |-> Validation!Older(o)]
           h == [j \in jobs |-> [j EXCEPT !.left = Validation!Down(j.left)]]
<1>1. /\ candidates' = [f \in Domains |->
            [candidates[f] EXCEPT !.next = Validation!Down(candidates[f].next),
               !.lease = IF candidates[f].lease = NoLease THEN candidates[f].lease
                         ELSE Validation!Down(candidates[f].lease)]]
      /\ runs' = {r \in {Validation!Older(o) : o \in runs} : Validation!Remembered(r)}
      /\ scheduler' = [scheduler EXCEPT !.timer = Validation!Down(scheduler.timer)]
      /\ jobs' = {[j EXCEPT !.left = Validation!Down(j.left)] : j \in jobs}
      /\ active' = active
  BY DEF Validation!Tick
<1>2. runs' \subseteq {g[o] : o \in runs} /\ jobs' = {h[j] : j \in jobs}
  BY <1>1
<1>3. ASSUME NEW o \in runs
      PROVE  /\ DOMAIN g[o] = RunFields /\ g[o].fqdn = o.fqdn /\ g[o].status = o.status
             /\ g[o].category = o.category /\ g[o].since \in Nat
             /\ g[o].since = IF o.status = "running" THEN o.since ELSE o.since + 1
  <2>1. PICK a : Validation!Older(o) =
           [o EXCEPT !.age = a, !.since = IF o.status = "running" THEN o.since ELSE o.since + 1]
    BY DEF Validation!Older
  <2>2. g[o] = Validation!Older(o) OBVIOUS
  <2>3. DOMAIN o = RunFields /\ o.since \in Nat BY DEF Database
  <2> HIDE DEF g
  <2> QED BY <2>1, <2>2, <2>3 DEF RunFields
<1>4. ASSUME NEW j \in jobs
      PROVE  /\ DOMAIN h[j] = JobFields /\ h[j].fqdn = j.fqdn /\ h[j].streak = j.streak
             /\ h[j].phase = j.phase
  BY DEF Processes, JobFields
<1> HIDE DEF g, h
<1>0. active' = active BY <1>1
<1>5. IsFiniteSet(runs') BY <1>2, NoMoreImages DEF Database
<1>6. DOMAIN candidates' = Domains
      /\ \A f \in Domains :
            /\ DOMAIN candidates'[f] = DOMAIN candidates[f]
            /\ candidates'[f].scope = candidates[f].scope
            /\ candidates'[f].streak = candidates[f].streak
            /\ candidates'[f].status = candidates[f].status
            /\ candidates'[f].decided = candidates[f].decided
  BY <1>1 DEF Database, CandidateFields
<1>7. Database' BY <1>2, <1>3, <1>5, <1>6 DEF Database
<1>8. Fitting' BY <1>6 DEF Fitting
<1>9. Single' BY <1>2, <1>3 DEF Single
<1>10. IsFiniteSet(jobs') BY <1>2, NoMoreImages DEF Processes
<1>11. DOMAIN scheduler' = DOMAIN scheduler /\ scheduler'.failed = scheduler.failed
       /\ scheduler'.on = scheduler.on
  BY <1>1 DEF Processes
<1>12. Processes' BY <1>0, <1>2, <1>4, <1>10, <1>11 DEF Processes
<1>13. Apart' BY <1>0, <1>2, <1>4 DEF Apart
<1>14. /\ Validation!Busy' \subseteq {h[j] : j \in Validation!Busy}
       /\ (jobs \ Validation!Busy)' \subseteq {h[j] : j \in jobs \ Validation!Busy}
       /\ Validation!Executing' \subseteq {h[j] : j \in Validation!Executing}
  BY <1>2, <1>4 DEF Validation!Busy, Validation!Executing
<1>15. /\ Cardinality(Validation!Busy') <= Cardinality(Validation!Busy)
       /\ Cardinality(Validation!Busy') \in Nat /\ Cardinality(Validation!Busy) \in Nat
  BY <1>14, Executions, NoMoreImages
<1>16. /\ Cardinality((jobs \ Validation!Busy)') <= Cardinality(jobs \ Validation!Busy)
       /\ Cardinality((jobs \ Validation!Busy)') \in Nat
       /\ Cardinality(jobs \ Validation!Busy) \in Nat
  BY <1>14, Executions, NoMoreImages
<1>17. /\ Cardinality(Validation!Executing') <= Cardinality(Validation!Executing)
       /\ Cardinality(Validation!Executing') \in Nat
       /\ Cardinality(Validation!Executing) \in Nat
  BY <1>14, Executions, NoMoreImages
<1>18. Staffed'
  <2>1. Cardinality(Validation!Busy') <= active'.workers
    BY <1>0, <1>15 DEF Staffed, Processes
  <2>2. Cardinality((jobs \ Validation!Busy)') + active'.workers <= Concurrency
    BY <1>0, <1>16, ValidationAssumption DEF Staffed, Processes
  <2>3. jobs' # Validation!Busy' => jobs # Validation!Busy
    BY <1>2, <1>4 DEF Validation!Busy
  <2> QED BY <1>0, <1>11, <2>1, <2>2, <2>3 DEF Staffed
<1>19. \A r \in Validation!Failures' : \E o \in Validation!Failures :
          r = g[o] /\ r.since = o.since + 1
  <2> SUFFICES ASSUME NEW r \in Validation!Failures'
               PROVE  \E o \in Validation!Failures : r = g[o] /\ r.since = o.since + 1
    OBVIOUS
  <2>1. PICK o \in runs : r = g[o] BY <1>2 DEF Validation!Failures
  <2>2. /\ o.status = "failed" /\ o.category \in Validation!Counted
        /\ r.since = o.since + 1 /\ r.since <= 2 * OpenFor /\ o.since \in Nat
    BY <1>3, <2>1 DEF Validation!Failures, Database
  <2>3. o.since <= 2 * OpenFor BY <2>2, ValidationAssumption
  <2> QED BY <2>1, <2>2, <2>3 DEF Validation!Failures
<1>20. Circuited' BY <1>7, <1>17, <1>19, AllAge
<1> QED
  BY <1>7, <1>8, <1>9, <1>12, <1>13, <1>18, <1>20

-----------------------------------------------------------------------------
LEMMA ValidationInit == Validation!Init => ValidationInv
<1> SUFFICES ASSUME Validation!Init PROVE ValidationInv
  OBVIOUS
<1>1. PICK barred : candidates = [f \in Domains |-> IF f \in barred
                      THEN [Validation!Queued EXCEPT !.status = "excluded"]
                      ELSE Validation!Queued]
  BY DEF Validation!Init
<1>2. /\ runs = {} /\ jobs = {} /\ scheduler = Validation!Asleep
      /\ active = Validation!NoRun
  BY DEF Validation!Init
<1>3. /\ DOMAIN candidates = Domains
      /\ \A f \in Domains :
            /\ DOMAIN candidates[f] = CandidateFields /\ candidates[f].scope = "site"
            /\ candidates[f].streak = 0 /\ candidates[f].status \in {"queued", "excluded"}
  BY <1>1 DEF Validation!Queued, CandidateFields
<1>4. IsFiniteSet({}) /\ Cardinality({}) = 0 BY FS_EmptySet
<1>5. Database BY <1>2, <1>3, <1>4 DEF Database, Validation!Scopes
<1>6. /\ DOMAIN active = {"due", "workers", "aborted", "running"} /\ active.due = <<>>
      /\ active.workers = 0 /\ ~active.running
      /\ DOMAIN scheduler = {"on", "failed", "timer", "asked"}
  BY <1>2 DEF Validation!NoRun, Validation!Asleep
<1>7. Processes BY <1>2, <1>4, <1>6 DEF Processes
<1>8. Validation!Busy = {} /\ Validation!Executing = {} /\ jobs \ Validation!Busy = {}
      /\ Validation!Failures = {}
  BY <1>2 DEF Validation!Busy, Validation!Executing, Validation!Failures
<1>9. Staffed BY <1>2, <1>4, <1>6, <1>8, ValidationAssumption DEF Staffed
<1>10. Apart BY <1>2, <1>6 DEF Apart
<1>11. Circuited
  <2>1. Young = {} BY <1>8 DEF Young
  <2> QED BY <1>4, <1>8, <2>1, ValidationAssumption DEF Circuited
<1>12. Single /\ Fitting BY <1>2, <1>3 DEF Single, Fitting, Validation!Verdicts
<1> QED
  BY <1>5, <1>7, <1>9, <1>10, <1>11, <1>12 DEF ValidationInv

LEMMA ValidationStep ==
    ValidationInv /\ [Validation!Next]_Validation!vars => ValidationInv'
<1> SUFFICES ASSUME ValidationInv, [Validation!Next]_Validation!vars PROVE ValidationInv'
  OBVIOUS
<1>1. CASE Validation!Next
  <2>1. CASE Validation!RunBegins BY <2>1, RunBeginning
  <2>2. CASE Validation!RunEnds BY <2>2, RunEnded
  <2>3. CASE Validation!Leaves BY <2>3, WorkerLeaving
  <2>4. CASE Validation!Take BY <2>4, Taking
  <2>5. CASE Validation!GivesUp BY <2>5, GivingUp
  <2>6. CASE Validation!Settles \/ Validation!Crash BY <2>6, Settlement
  <2>7. CASE \/ Validation!Start \/ Validation!Stop \/ Validation!PulseFires
             \/ Validation!Maintains \/ Validation!ChangeSettings
    BY <2>7, Steering
  <2>8. CASE Validation!Decides \/ Validation!Throws BY <2>8, Over
  <2>9. CASE Validation!CleanupExpires BY <2>9, Abandoning
  <2>10. CASE \E f \in Domains : Validation!Observe(f) \/ Validation!SelectScope(f)
    BY <2>10, Observing
  <2>11. CASE Validation!Tick BY <2>11, Passing
  <2> QED
    BY <1>1, <2>1, <2>2, <2>3, <2>4, <2>5, <2>6, <2>7, <2>8, <2>9, <2>10, <2>11
    DEF Validation!Next
<1>2. CASE UNCHANGED Validation!vars
  <2>1. UNCHANGED <<candidates, runs, scheduler, active, jobs>>
    BY <1>2 DEF Validation!vars
  <2> QED BY <2>1, DatabaseKept, Executed, Quiet, Unmoved DEF ValidationInv
<1> QED
  BY <1>1, <1>2

ValidationPart == part = "validation" => ValidationInv

LEMMA ValidationPlaced == ValidationPart /\ [Next]_vars => ValidationPart'
<1> SUFFICES ASSUME ValidationPart, [Next]_vars, part' = "validation" PROVE ValidationInv'
  BY DEF ValidationPart
<1>1. CASE Next
  <2>1. part = "validation" BY <1>1 DEF Next
  <2>2. Validation!Next BY <1>1, <2>1 DEF Next
  <2> QED BY <2>1, <2>2, ValidationStep DEF ValidationPart
<1>2. CASE UNCHANGED vars
  <2>1. part = "validation" /\ UNCHANGED Validation!vars
    BY <1>2 DEF vars, validationVars, Validation!vars
  <2> QED BY <2>1, ValidationStep DEF ValidationPart
<1> QED
  BY <1>1, <1>2

LEMMA ValidationSound == ValidationInv => Validation!WorkBounded /\ Validation!VerdictFits
<1> SUFFICES ASSUME ValidationInv PROVE Validation!WorkBounded /\ Validation!VerdictFits
  OBVIOUS
<1> USE DEF ValidationInv
<1>1. Cardinality(jobs) <= Concurrency
  <2>1. jobs = Validation!Busy \cup (jobs \ Validation!Busy) BY DEF Validation!Busy
  <2>2. Validation!Busy \cap (jobs \ Validation!Busy) = {} OBVIOUS
  <2>3. Cardinality(Validation!Busy \cup (jobs \ Validation!Busy))
        = Cardinality(Validation!Busy) + Cardinality(jobs \ Validation!Busy)
          - Cardinality(Validation!Busy \cap (jobs \ Validation!Busy))
    BY Executions, FS_Union
  <2>4. Cardinality({}) = 0 BY FS_EmptySet
  <2>5. Cardinality(jobs) = Cardinality(Validation!Busy) + Cardinality(jobs \ Validation!Busy)
    BY <2>1, <2>2, <2>3, <2>4, Executions
  <2> QED BY <2>5, Executions, ValidationAssumption DEF Staffed, Processes
<1>2. Validation!WorkBounded
  BY <1>1, Counted DEF Validation!WorkBounded, Apart, Circuited, Window
<1>3. ASSUME NEW f \in Domains PROVE Cardinality(Validation!Running(f)) <= 1
  <2>1. \A r, s \in Validation!Running(f) : r = s BY DEF Validation!Running, Single
  <2>2. CASE Validation!Running(f) = {} BY <2>2, FS_EmptySet
  <2>3. CASE Validation!Running(f) # {}
    <3>1. PICK r : Validation!Running(f) = {r} BY <2>1, <2>3
    <3>2. Cardinality({r}) = 1 BY FS_Singleton
    <3> HIDE DEF ValidationInv
    <3> QED BY <3>1, <3>2
  <2> QED BY <2>2, <2>3
<1>4. Validation!VerdictFits
  BY <1>3, Counted DEF Validation!VerdictFits, Fitting
<1> QED
  BY <1>2, <1>4

(* However often the process crashes and its settings change, validations     *)
(* never exceed their concurrency, no domain is executed twice at a time, the *)
(* circuit lets no more through than its threshold and what was running, and  *)
(* a stored verdict is about the scope the candidate proposes, for any        *)
(* domains, workers, durations, threshold and number of changes.              *)
THEOREM ValidationStaysBounded == Spec => []ValidationBounded
<1>1. Init => ValidationPart
  BY ValidationInit DEF Init, ValidationPart
<1>2. ValidationPart => ValidationBounded
  BY ValidationSound DEF ValidationPart, ValidationBounded
<1> QED
  BY <1>1, <1>2, ValidationPlaced, PTL DEF Spec

-----------------------------------------------------------------------------
(* The records: the rows of the database, and the pass of the retention.     *)

Tracked == [status : Records!Statuses, review : {"active", "rejected"}, seen : Nat,
            lease : Nat \cup {NoLease}, run : Nat]
Logged == [id : 1..RecordRuns, domain : RecordDomains,
           status : {"running", "completed", "cancelled"}, finished : Nat \cup {NoLease}]

\* The rows of a database refer to one another as its keys say.
Tidy(cs, rs, as, ds) ==
    /\ cs \in [RecordDomains -> Tracked \cup {NoLease}]
    /\ \A r \in rs : r \in Logged /\ cs[r.domain] # NoLease
    /\ \A r, q \in rs : r.id = q.id => r = q
    /\ \A a \in as : a.at \in Nat /\ \E r \in rs : r.id = a.run
    /\ \A c \in ds : /\ c.domain \in RecordDomains /\ cs[c.domain] # NoLease
                     /\ c.id \in 0..RecordRuns
TidyDb(db) == Tidy(db.candidates, db.runs, db.attempts, db.decisions)

Gone(db, d, cutoff) == db.candidates[d].seen < cutoff /\ ~Records!Leased(db.candidates[d], now)
Awake(db) == \A r \in db.runs : r.status = "running" => Records!Leased(db.candidates[r.domain], now)

LEMMA NoneTracked == NoLease \notin Tracked
BY RecordsAssumption DEF Tracked, Records!Statuses

\* A run knows its domain.
LEMMA DomainKnown ==
    ASSUME NEW db, \A r, q \in db.runs : r.id = q.id => r = q, NEW r \in db.runs
    PROVE  Records!DomainOf(db, r.id) = r.domain
BY DEF Records!DomainOf

\* A pass of recovery leaves a run to a live lease of its own only.
LEMMA Recovering ==
    ASSUME now \in Nat, Tidy(candidates, runs, attempts, decisions),
           NEW db, db = Records!DbOf([d \in RecordDomains |-> Records!Recovered(d)],
                          (runs \ Records!Orphans) \cup {Records!Abandoned(r) : r \in Records!Orphans},
                          attempts, decisions)
    PROVE  TidyDb(db) /\ Awake(db)
<1> DEFINE cs == [d \in RecordDomains |-> Records!Recovered(d)]
           rs == (runs \ Records!Orphans) \cup {Records!Abandoned(r) : r \in Records!Orphans}
<1>1. \A d \in RecordDomains :
         /\ Records!Recovered(d) \in Tracked \cup {NoLease}
         /\ Records!Recovered(d) = NoLease <=> candidates[d] = NoLease
  <2> SUFFICES ASSUME NEW d \in RecordDomains
               PROVE  /\ Records!Recovered(d) \in Tracked \cup {NoLease}
                      /\ Records!Recovered(d) = NoLease <=> candidates[d] = NoLease
    OBVIOUS
  <2>1. candidates[d] \in Tracked \cup {NoLease}
    BY DEF Tidy
  <2>2. CASE Records!Recovered(d) = candidates[d]
    BY <2>1, <2>2
  <2>3. CASE candidates[d] # NoLease
             /\ Records!Recovered(d) = [candidates[d] EXCEPT !.status = "pending", !.lease = NoLease]
    <3>1. candidates[d] \in Tracked
      BY <2>1, <2>3
    <3>2. Records!Recovered(d) \in Tracked
      BY <2>3, <3>1 DEF Tracked, Records!Statuses
    <3> QED BY <2>3, <3>2, NoneTracked
  <2> QED BY <2>2, <2>3 DEF Records!Recovered
<1>2. Records!Orphans \subseteq runs
  BY DEF Records!Orphans
<1>3. \A r \in Records!Orphans :
         /\ Records!Abandoned(r) \in Logged /\ Records!Abandoned(r).id = r.id
         /\ Records!Abandoned(r).domain = r.domain /\ Records!Abandoned(r).status = "cancelled"
  <2> SUFFICES ASSUME NEW r \in Records!Orphans
               PROVE  /\ Records!Abandoned(r) \in Logged /\ Records!Abandoned(r).id = r.id
                      /\ Records!Abandoned(r).domain = r.domain
                      /\ Records!Abandoned(r).status = "cancelled"
    OBVIOUS
  <2>1. r \in Logged /\ candidates[r.domain] \in Tracked
    BY <1>2 DEF Tidy, Logged
  <2> DEFINE c == candidates[r.domain]
             over == IF c.run = r.id /\ c.lease # NoLease THEN Records!Min({now, c.lease}) ELSE now
  <2>2. over \in Nat
    <3>1. \A a, b \in Nat : Records!Min({a, b}) \in Nat
      <4> SUFFICES ASSUME NEW a \in Nat, NEW b \in Nat PROVE Records!Min({a, b}) \in Nat
        OBVIOUS
      <4>1. \E x \in {a, b} : \A y \in {a, b} : x <= y
        OBVIOUS
      <4> QED BY <4>1 DEF Records!Min
    <3> QED BY <2>1, <3>1 DEF Tracked
  <2>3. Records!Abandoned(r) = [r EXCEPT !.status = "cancelled", !.finished = over]
    BY DEF Records!Abandoned
  <2> HIDE DEF over
  <2> QED BY <2>1, <2>2, <2>3 DEF Logged
<1>4. \A r \in rs : r \in Logged /\ candidates[r.domain] # NoLease
  BY <1>2, <1>3 DEF Tidy
<1>5. \A r \in rs : \E old \in runs :
         /\ old.id = r.id
         /\ old \in Records!Orphans => r = Records!Abandoned(old)
         /\ old \notin Records!Orphans => r = old
  BY <1>2, <1>3
<1>6. \A r, q \in rs : r.id = q.id => r = q
  <2> SUFFICES ASSUME NEW r \in rs, NEW q \in rs, r.id = q.id PROVE r = q
    OBVIOUS
  <2> HIDE DEF rs
  <2>1. PICK a \in runs : /\ a.id = r.id
                          /\ a \in Records!Orphans => r = Records!Abandoned(a)
                          /\ a \notin Records!Orphans => r = a
    BY <1>5
  <2>2. PICK b \in runs : /\ b.id = q.id
                          /\ b \in Records!Orphans => q = Records!Abandoned(b)
                          /\ b \notin Records!Orphans => q = b
    BY <1>5
  <2>3. a = b
    BY <2>1, <2>2 DEF Tidy
  <2> QED BY <2>1, <2>2, <2>3
<1>7. \A r \in runs : \E new \in rs : new.id = r.id
  BY <1>3
<1>8. /\ db.candidates = cs
      /\ db.runs = {r \in rs : cs[r.domain] # NoLease}
      /\ db.attempts = {a \in attempts : \E r \in rs : r.id = a.run /\ cs[r.domain] # NoLease}
      /\ db.decisions = {c \in decisions : cs[c.domain] # NoLease}
  BY DEF Records!DbOf
<1>9. \A r \in rs : r.domain \in RecordDomains
  BY <1>4 DEF Logged
<1>10. \A r \in rs : cs[r.domain] # NoLease
  BY <1>1, <1>4, <1>9
<1> HIDE DEF rs
<1>11. db.runs = rs
  BY <1>8, <1>10
<1>12. cs \in [RecordDomains -> Tracked \cup {NoLease}]
  BY <1>1
<1>13. \A c \in decisions : cs[c.domain] # NoLease /\ c.domain \in RecordDomains /\ c.id \in 0..RecordRuns
  BY <1>1 DEF Tidy
<1>14. \A a \in attempts : a.at \in Nat /\ \E r \in rs : r.id = a.run
  BY <1>7 DEF Tidy
<1>15. TidyDb(db)
  <2> HIDE DEF cs
  <2> QED BY <1>4, <1>6, <1>8, <1>10, <1>11, <1>12, <1>13, <1>14 DEF TidyDb, Tidy
<1>16. ASSUME NEW r \in rs, r.status = "running" PROVE Records!Leased(cs[r.domain], now)
  <2>1. r \in runs \ Records!Orphans
    BY <1>3, <1>16 DEF rs
  <2>2. Records!Leased(candidates[r.domain], now) /\ candidates[r.domain].run = r.id
    BY <1>16, <2>1 DEF Records!Orphans
  <2>3. \A other \in Records!Orphans : other.id # r.id
    BY <1>2, <2>1 DEF Tidy
  <2>4. Records!Recovered(r.domain) = candidates[r.domain]
    BY <2>2, <2>3 DEF Records!Recovered
  <2> QED BY <1>9, <2>2, <2>4
<1>17. Awake(db)
  BY <1>8, <1>11, <1>16 DEF Awake
<1> QED BY <1>15, <1>17

\* What an outdated candidate leaves: of its rows, none.
LEMMA StaleCut ==
    ASSUME NEW db, TidyDb(db), Awake(db), NEW cutoff,
           NEW db1, db1 = Records!WithoutStale(db, cutoff)
    PROVE  /\ TidyDb(db1)
           /\ db1.candidates = db.candidates
           /\ db1.runs = {r \in db.runs : ~Gone(db, r.domain, cutoff)}
           /\ db1.attempts = {a \in db.attempts : ~Gone(db, Records!DomainOf(db, a.run), cutoff)}
           /\ db1.decisions = {c \in db.decisions : ~Gone(db, c.domain, cutoff)}
<1> DEFINE rs == {r \in db.runs : r.status # "running" => ~Records!Stale(db, r.domain, cutoff)}
           as == {a \in db.attempts : ~Records!Stale(db, Records!DomainOf(db, a.run), cutoff)}
           ds == {c \in db.decisions : ~Records!Stale(db, c.domain, cutoff)}
<1>1. \A d : Records!Stale(db, d, cutoff) <=> Gone(db, d, cutoff)
  BY DEF Records!Stale, Gone, Awake
<1>2. rs = {r \in db.runs : ~Gone(db, r.domain, cutoff)}
  BY <1>1 DEF Awake, Gone
<1>3. as = {a \in db.attempts : ~Gone(db, Records!DomainOf(db, a.run), cutoff)}
  BY <1>1
<1>4. ds = {c \in db.decisions : ~Gone(db, c.domain, cutoff)}
  BY <1>1
<1>5. /\ db1.candidates = db.candidates
      /\ db1.runs = {r \in rs : db.candidates[r.domain] # NoLease}
      /\ db1.attempts = {a \in as : \E r \in rs : r.id = a.run /\ db.candidates[r.domain] # NoLease}
      /\ db1.decisions = {c \in ds : db.candidates[c.domain] # NoLease}
  BY DEF Records!WithoutStale, Records!DbOf
<1>6. \A r \in rs : db.candidates[r.domain] # NoLease
  BY <1>2 DEF TidyDb, Tidy
<1>7. \A c \in ds : db.candidates[c.domain] # NoLease
  BY <1>4 DEF TidyDb, Tidy
<1>8. \A a \in as : \E r \in rs : r.id = a.run /\ db.candidates[r.domain] # NoLease
  <2> SUFFICES ASSUME NEW a \in as PROVE \E r \in rs : r.id = a.run
    BY <1>6
  <2>1. PICK r \in db.runs : r.id = a.run
    BY DEF TidyDb, Tidy
  <2>2. Records!DomainOf(db, a.run) = r.domain
    <3>1. \A p, q \in db.runs : p.id = q.id => p = q
      BY DEF TidyDb, Tidy
    <3>2. Records!DomainOf(db, r.id) = r.domain
      BY <3>1, DomainKnown
    <3> QED BY <2>1, <3>2
  <2>3. ~Gone(db, r.domain, cutoff)
    BY <1>3, <2>2
  <2> QED BY <1>2, <2>1, <2>3
<1>9. rs \subseteq db.runs /\ as \subseteq db.attempts /\ ds \subseteq db.decisions
  OBVIOUS
<1> HIDE DEF rs, as, ds
<1>10. db1.runs = rs /\ db1.attempts = as /\ db1.decisions = ds
  BY <1>5, <1>6, <1>7, <1>8
<1>11. TidyDb(db1)
  BY <1>5, <1>8, <1>9, <1>10 DEF TidyDb, Tidy
<1> QED BY <1>2, <1>3, <1>4, <1>5, <1>10, <1>11

\* Evidence past its time goes with the runs that have no other, unless they are held.
LEMMA AgedCut ==
    ASSUME NEW db, TidyDb(db), NEW cutoff \in Int,
           NEW db2, db2 = Records!WithoutAged(db, cutoff)
    PROVE  /\ TidyDb(db2)
           /\ db2.candidates = db.candidates
           /\ db2.runs \subseteq db.runs
           /\ \A r \in db.runs : r.status = "running" \/ Records!Protected(db, r.domain) => r \in db2.runs
           /\ db2.attempts = {a \in db.attempts : ~Records!AgedAttempt(db, a, cutoff)}
           /\ db2.decisions = {c \in db.decisions :
                                 ~(c.at < cutoff /\ ~Records!Protected(db, c.domain))}
<1> DEFINE as == {a \in db.attempts : ~Records!AgedAttempt(db, a, cutoff)}
           rs == {r \in db.runs : ~(/\ r.status # "running" /\ r.finished < cutoff
                                    /\ ~Records!Protected(db, r.domain)
                                    /\ ~\E a \in as : a.run = r.id /\ a.at >= cutoff)}
           ds == {c \in db.decisions : ~(c.at < cutoff /\ ~Records!Protected(db, c.domain))}
<1>1. /\ db2.candidates = db.candidates
      /\ db2.runs = {r \in rs : db.candidates[r.domain] # NoLease}
      /\ db2.attempts = {a \in as : \E r \in rs : r.id = a.run /\ db.candidates[r.domain] # NoLease}
      /\ db2.decisions = {c \in ds : db.candidates[c.domain] # NoLease}
  BY DEF Records!WithoutAged, Records!DbOf
<1>2. \A r \in rs : db.candidates[r.domain] # NoLease
  BY DEF TidyDb, Tidy
<1>3. \A c \in ds : db.candidates[c.domain] # NoLease
  BY DEF TidyDb, Tidy
<1>4. \A a \in as : \E r \in rs : r.id = a.run /\ db.candidates[r.domain] # NoLease
  <2> SUFFICES ASSUME NEW a \in as PROVE \E r \in rs : r.id = a.run
    BY <1>2
  <2>1. PICK r \in db.runs : r.id = a.run
    BY DEF TidyDb, Tidy
  <2>2. Records!DomainOf(db, a.run) = r.domain
    <3>1. \A p, q \in db.runs : p.id = q.id => p = q
      BY DEF TidyDb, Tidy
    <3>2. Records!DomainOf(db, r.id) = r.domain
      BY <3>1, DomainKnown
    <3> QED BY <2>1, <3>2
  <2>3. a.at >= cutoff \/ Records!Protected(db, r.domain)
    <3>1. a.at \in Nat
      BY DEF TidyDb, Tidy
    <3>2. ~(a.at < cutoff) \/ Records!Protected(db, r.domain)
      BY <2>2 DEF Records!AgedAttempt
    <3> QED BY <3>1, <3>2
  <2>4. r \in rs
    BY <2>1, <2>3
  <2> QED BY <2>1, <2>4
<1>5. rs \subseteq db.runs /\ \A r \in db.runs :
         r.status = "running" \/ Records!Protected(db, r.domain) => r \in rs
  OBVIOUS
<1>6. db2.runs = rs /\ db2.attempts = as /\ db2.decisions = ds
  <2> HIDE DEF rs, as, ds
  <2> QED BY <1>1, <1>2, <1>3, <1>4
<1>7. db2.runs \subseteq db.runs /\ \A r \in db.runs :
         r.status = "running" \/ Records!Protected(db, r.domain) => r \in db2.runs
  <2> HIDE DEF rs
  <2> QED BY <1>5, <1>6
<1>8. rs \subseteq db.runs /\ as \subseteq db.attempts /\ ds \subseteq db.decisions
  OBVIOUS
<1>9. TidyDb(db2)
  <2> HIDE DEF rs, as, ds
  <2> QED BY <1>1, <1>4, <1>6, <1>8 DEF TidyDb, Tidy
<1> QED BY <1>1, <1>6, <1>7, <1>9

\* A candidate out of sight goes when nothing is left of it.
LEMMA UnseenCut ==
    ASSUME NEW db, TidyDb(db), NEW cutoff,
           NEW db3, db3 = Records!WithoutUnseen(db, cutoff)
    PROVE  /\ \A d \in RecordDomains :
                 db3.candidates[d] =
                    IF /\ db.candidates[d] # NoLease /\ Gone(db, d, cutoff)
                       /\ \A r \in db.runs : r.domain # d
                       /\ \A c \in db.decisions : c.domain # d
                    THEN NoLease ELSE db.candidates[d]
           /\ TidyDb(db3)
           /\ db3.runs = db.runs /\ db3.attempts = db.attempts /\ db3.decisions = db.decisions
<1> DEFINE cs == [d \in RecordDomains |->
                    IF /\ db.candidates[d] # NoLease
                       /\ db.candidates[d].seen < cutoff /\ ~Records!Protected(db, d)
                       /\ ~\E r \in db.runs : r.domain = d
                       /\ ~\E c \in db.decisions : c.domain = d
                    THEN NoLease ELSE db.candidates[d]]
<1>1. \A d \in RecordDomains :
         cs[d] = IF /\ db.candidates[d] # NoLease /\ Gone(db, d, cutoff)
                    /\ \A r \in db.runs : r.domain # d
                    /\ \A c \in db.decisions : c.domain # d
                 THEN NoLease ELSE db.candidates[d]
  BY DEF Gone, Records!Protected
<1>2. cs \in [RecordDomains -> Tracked \cup {NoLease}]
  BY DEF TidyDb, Tidy
<1>3. /\ db3.candidates = cs
      /\ db3.runs = {r \in db.runs : cs[r.domain] # NoLease}
      /\ db3.attempts = {a \in db.attempts : \E r \in db.runs : r.id = a.run /\ cs[r.domain] # NoLease}
      /\ db3.decisions = {c \in db.decisions : cs[c.domain] # NoLease}
  BY DEF Records!WithoutUnseen, Records!DbOf
<1>4. \A r \in db.runs : r.domain \in RecordDomains /\ db.candidates[r.domain] # NoLease
  BY DEF TidyDb, Tidy, Logged
<1>5. \A c \in db.decisions : c.domain \in RecordDomains /\ db.candidates[c.domain] # NoLease
  BY DEF TidyDb, Tidy
<1>6. (\A r \in db.runs : cs[r.domain] # NoLease) /\ (\A c \in db.decisions : cs[c.domain] # NoLease)
  <2> HIDE DEF cs
  <2> QED BY <1>1, <1>4, <1>5
<1>7. \A a \in db.attempts : \E r \in db.runs : r.id = a.run
  BY DEF TidyDb, Tidy
<1> HIDE DEF cs
<1>8. db3.runs = db.runs /\ db3.attempts = db.attempts /\ db3.decisions = db.decisions
  BY <1>3, <1>6, <1>7
<1>9. TidyDb(db3)
  BY <1>2, <1>3, <1>6, <1>8 DEF TidyDb, Tidy
<1> QED BY <1>1, <1>3, <1>8, <1>9

\* A pass over a database whose running validations hold a lease is exact.
Exact(db, kept, cutoff) ==
    LET dropped(d, at) == ~Records!Protected(db, d) /\ (Gone(db, d, cutoff) \/ at < cutoff) IN
    /\ \A d \in RecordDomains :
          kept.candidates[d] # NoLease <=> db.candidates[d] # NoLease /\ ~Gone(db, d, cutoff)
    /\ kept.attempts = {a \in db.attempts : ~dropped(Records!DomainOf(db, a.run), a.at)}
    /\ kept.decisions = {c \in db.decisions : ~dropped(c.domain, c.at)}
    /\ \A r \in db.runs : Records!Protected(db, r.domain) => r \in kept.runs
    /\ \A r \in kept.runs : r.status = "running" => Records!Protected(db, r.domain)

LEMMA PruneExact ==
    ASSUME NEW db, TidyDb(db), Awake(db), NEW cutoff \in Int,
           NEW kept, kept = Records!WithoutUnseen(
                        Records!WithoutAged(Records!WithoutStale(db, cutoff), cutoff), cutoff)
    PROVE  TidyDb(kept) /\ Exact(db, kept, cutoff)
<1> DEFINE db1 == Records!WithoutStale(db, cutoff)
           db2 == Records!WithoutAged(db1, cutoff)
<1>1. /\ TidyDb(db1) /\ db1.candidates = db.candidates
      /\ db1.runs = {r \in db.runs : ~Gone(db, r.domain, cutoff)}
      /\ db1.attempts = {a \in db.attempts : ~Gone(db, Records!DomainOf(db, a.run), cutoff)}
      /\ db1.decisions = {c \in db.decisions : ~Gone(db, c.domain, cutoff)}
  BY StaleCut
<1> HIDE DEF db1
<1>2. /\ TidyDb(db2) /\ db2.candidates = db1.candidates
      /\ db2.runs \subseteq db1.runs
      /\ \A r \in db1.runs : r.status = "running" \/ Records!Protected(db1, r.domain) => r \in db2.runs
      /\ db2.attempts = {a \in db1.attempts : ~Records!AgedAttempt(db1, a, cutoff)}
      /\ db2.decisions = {c \in db1.decisions : ~(c.at < cutoff /\ ~Records!Protected(db1, c.domain))}
  BY <1>1, AgedCut
<1> HIDE DEF db2
<1>3. kept = Records!WithoutUnseen(db2, cutoff)
  BY DEF db1, db2
<1>4. /\ TidyDb(kept)
      /\ \A d \in RecordDomains :
            kept.candidates[d] =
               IF /\ db2.candidates[d] # NoLease /\ Gone(db2, d, cutoff)
                  /\ \A r \in db2.runs : r.domain # d
                  /\ \A c \in db2.decisions : c.domain # d
               THEN NoLease ELSE db2.candidates[d]
      /\ kept.runs = db2.runs /\ kept.attempts = db2.attempts /\ kept.decisions = db2.decisions
  BY <1>2, <1>3, UnseenCut
<1>5. \A d : /\ Gone(db1, d, cutoff) <=> Gone(db, d, cutoff)
             /\ Gone(db2, d, cutoff) <=> Gone(db, d, cutoff)
             /\ Records!Protected(db1, d) <=> Records!Protected(db, d)
             /\ Gone(db, d, cutoff) => ~Records!Protected(db, d)
  BY <1>1, <1>2 DEF Gone, Records!Protected
<1>6. ASSUME NEW d \in RecordDomains
      PROVE  kept.candidates[d] # NoLease <=> db.candidates[d] # NoLease /\ ~Gone(db, d, cutoff)
  <2>1. Gone(db, d, cutoff) => /\ \A r \in db2.runs : r.domain # d
                               /\ \A c \in db2.decisions : c.domain # d
    BY <1>1, <1>2
  <2> QED BY <1>1, <1>2, <1>4, <1>5, <2>1
<1>7. \A a \in db1.attempts : Records!DomainOf(db1, a.run) = Records!DomainOf(db, a.run)
  <2> SUFFICES ASSUME NEW a \in db1.attempts
               PROVE  Records!DomainOf(db1, a.run) = Records!DomainOf(db, a.run)
    OBVIOUS
  <2>1. PICK r \in db1.runs : r.id = a.run
    BY <1>1 DEF TidyDb, Tidy
  <2>2. r \in db.runs
    BY <1>1, <2>1
  <2>3. /\ \A p, q \in db.runs : p.id = q.id => p = q
        /\ \A p, q \in db1.runs : p.id = q.id => p = q
    BY <1>1 DEF TidyDb, Tidy
  <2>4. Records!DomainOf(db, r.id) = r.domain /\ Records!DomainOf(db1, r.id) = r.domain
    BY <2>2, <2>3, DomainKnown
  <2> QED BY <2>1, <2>4
<1>8. kept.attempts = {a \in db.attempts :
         ~(~Records!Protected(db, Records!DomainOf(db, a.run))
           /\ (Gone(db, Records!DomainOf(db, a.run), cutoff) \/ a.at < cutoff))}
  <2>1. \A a : a \in kept.attempts <=>
           a \in db1.attempts /\ ~(a.at < cutoff /\ ~Records!Protected(db1, Records!DomainOf(db1, a.run)))
    BY <1>2, <1>4 DEF Records!AgedAttempt
  <2>2. \A a : a \in kept.attempts <=>
           a \in db1.attempts /\ ~(a.at < cutoff /\ ~Records!Protected(db, Records!DomainOf(db, a.run)))
    BY <1>5, <1>7, <2>1
  <2> QED BY <1>1, <1>5, <2>2
<1>9. kept.decisions = {c \in db.decisions :
         ~(~Records!Protected(db, c.domain) /\ (Gone(db, c.domain, cutoff) \/ c.at < cutoff))}
  BY <1>1, <1>2, <1>4, <1>5
<1>10. \A r \in db.runs : Records!Protected(db, r.domain) => r \in kept.runs
  BY <1>1, <1>2, <1>4, <1>5
<1>11. \A r \in kept.runs : r.status = "running" => Records!Protected(db, r.domain)
  BY <1>1, <1>2, <1>4 DEF Awake, Records!Protected
<1> QED BY <1>4, <1>6, <1>8, <1>9, <1>10, <1>11 DEF Exact

\* The greatest number of a run, as the next one is made from it.
LEMMA GreatestNumber ==
    ASSUME NEW bound \in Nat, NEW T, T \subseteq 0..bound, T # {}
    PROVE  Records!Max(T) \in T /\ \A x \in T : x <= Records!Max(T)
<1> DEFINE Gaps == {gap \in 0..bound : bound - gap \in T}
<1>1. \A x \in T : x \in 0..bound /\ bound - x \in 0..bound /\ bound - (bound - x) = x
  OBVIOUS
<1>2. Gaps \in SUBSET Nat /\ Gaps # {}
  <2>1. PICK x \in T : TRUE
    OBVIOUS
  <2>2. bound - x \in Gaps
    BY <1>1
  <2>3. Gaps \subseteq 0..bound
    OBVIOUS
  <2>4. 0..bound \subseteq Nat
    OBVIOUS
  <2> HIDE DEF Gaps
  <2> QED BY <2>2, <2>3, <2>4
<1>3. PICK gap \in Gaps : \A other \in Gaps : gap <= other
  <2> HIDE DEF Gaps
  <2> QED BY <1>2, Least
<1>4. \A x \in T : bound - x \in Gaps
  BY <1>1
<1>5. \A x \in T : bound - gap >= x
  <2> SUFFICES ASSUME NEW x \in T PROVE bound - gap >= x
    OBVIOUS
  <2>1. gap \in 0..bound /\ gap <= bound - x /\ x \in 0..bound
    BY <1>1, <1>3, <1>4
  <2> QED BY <2>1
<1>6. bound - gap \in T
  BY <1>3
<1>7. \E x \in T : \A y \in T : x >= y
  <2> HIDE DEF Gaps
  <2> QED BY <1>5, <1>6
<1>8. Records!Max(T) \in T /\ \A y \in T : Records!Max(T) >= y
  BY <1>7 DEF Records!Max
<1>9. \A x \in T : x \in Int
  BY <1>1
<1> QED BY <1>8, <1>9

RecordsInv == now \in Nat /\ Tidy(candidates, runs, attempts, decisions) /\ Records!RetentionExact

LEMMA RecordsInit == Records!Init => RecordsInv
BY RecordsAssumption DEF Records!Init, RecordsInv, Tidy, Records!RetentionExact

LEMMA Maintained ==
    ASSUME RecordsInv, Records!RunMaintenance
    PROVE  RecordsInv'
<1> DEFINE cutoff == now - RecordRetention
           db == Records!DbOf([d \in RecordDomains |-> Records!Recovered(d)],
                     (runs \ Records!Orphans) \cup {Records!Abandoned(r) : r \in Records!Orphans},
                     attempts, decisions)
           kept == Records!WithoutUnseen(
                      Records!WithoutAged(Records!WithoutStale(db, cutoff), cutoff), cutoff)
<1>1. TidyDb(db) /\ Awake(db)
  BY Recovering DEF RecordsInv
<1>2. cutoff \in Int
  BY RecordsAssumption DEF RecordsInv
<1>3. PICK prune \in {FALSE, cutoff >= 0} :
         /\ candidates' = (IF prune THEN kept ELSE db).candidates
         /\ runs' = (IF prune THEN kept ELSE db).runs
         /\ attempts' = (IF prune THEN kept ELSE db).attempts
         /\ decisions' = (IF prune THEN kept ELSE db).decisions
         /\ cut' = IF prune THEN [before |-> db, cutoff |-> cutoff] ELSE NoLease
  BY DEF Records!RunMaintenance
<1>4. now' = now
  BY DEF Records!RunMaintenance
<1> HIDE DEF db, cutoff
<1>5. TidyDb(kept) /\ Exact(db, kept, cutoff)
  BY <1>1, <1>2, PruneExact
<1> HIDE DEF kept
<1>6. CASE prune
  <2>1. /\ candidates' = kept.candidates /\ runs' = kept.runs
        /\ attempts' = kept.attempts /\ decisions' = kept.decisions
        /\ cut' = [before |-> db, cutoff |-> cutoff]
    BY <1>3, <1>6
  <2>2. Records!RetentionExact'
    BY <1>4, <1>5, <2>1 DEF Exact, Records!RetentionExact, Gone, Records!Stored,
       Records!Protected, Records!DomainOf, Records!Leased
  <2> QED BY <1>4, <1>5, <2>1, <2>2 DEF RecordsInv, TidyDb, Tidy
<1>7. CASE ~prune
  <2>1. /\ candidates' = db.candidates /\ runs' = db.runs
        /\ attempts' = db.attempts /\ decisions' = db.decisions /\ cut' = NoLease
    BY <1>3, <1>7
  <2>2. Records!RetentionExact'
    BY <2>1 DEF Records!RetentionExact
  <2> QED BY <1>1, <1>4, <2>1, <2>2 DEF RecordsInv, TidyDb, Tidy
<1> QED BY <1>6, <1>7

\* Every other step writes to one candidate and its rows.
LEMMA Written ==
    ASSUME RecordsInv, NEW d \in RecordDomains, NEW row \in Tracked,
           candidates' = [candidates EXCEPT ![d] = row],
           \A r \in runs' : r \in Logged /\ candidates'[r.domain] # NoLease,
           \A r, q \in runs' : r.id = q.id => r = q,
           \A r \in runs : \E q \in runs' : q.id = r.id,
           \A a \in attempts' : \/ a \in attempts
                                \/ a.at \in Nat /\ \E r \in runs' : r.id = a.run,
           \A c \in decisions' : c \in decisions \/ (c.domain = d /\ c.id \in 0..RecordRuns),
           now' = now, cut' = NoLease
    PROVE  RecordsInv'
<1>1. candidates' \in [RecordDomains -> Tracked \cup {NoLease}]
  BY DEF RecordsInv, Tidy
<1>2. \A e \in RecordDomains : candidates[e] # NoLease => candidates'[e] # NoLease
  BY NoneTracked DEF RecordsInv, Tidy
<1>3. \A c \in decisions' : /\ c.domain \in RecordDomains /\ candidates'[c.domain] # NoLease
                            /\ c.id \in 0..RecordRuns
  <2>1. candidates'[d] # NoLease
    BY NoneTracked DEF RecordsInv, Tidy
  <2> QED BY <1>2, <2>1 DEF RecordsInv, Tidy
<1>4. \A a \in attempts' : a.at \in Nat /\ \E r \in runs' : r.id = a.run
  BY DEF RecordsInv, Tidy
<1>5. Records!RetentionExact'
  BY DEF Records!RetentionExact
<1> QED BY <1>1, <1>3, <1>4, <1>5 DEF RecordsInv, Tidy

\* Runs that are cancelled stay the runs they are.
LEMMA CancelKeeps ==
    ASSUME RecordsInv, NEW rs, rs \subseteq runs, NEW left, left = Records!Cancelled(rs, now)
    PROVE  /\ \A r \in left : r \in Logged /\ \E old \in runs : old.id = r.id /\ old.domain = r.domain
           /\ \A r, q \in left : r.id = q.id => r = q
           /\ \A r \in runs : \E q \in left : q.id = r.id
<1> DEFINE Stopped(r) == [r EXCEPT !.status = "cancelled", !.finished = now]
<1>1. \A r \in runs : /\ Stopped(r) \in Logged /\ Stopped(r).id = r.id /\ Stopped(r).domain = r.domain
                      /\ r \in Logged
  BY DEF RecordsInv, Tidy, Logged
<1>2. left = (runs \ rs) \cup {Stopped(r) : r \in rs}
  BY DEF Records!Cancelled
<1> HIDE DEF Stopped
<1>3. \A r \in left : \E old \in runs : /\ old.id = r.id /\ old.domain = r.domain
                                        /\ r = IF old \in rs THEN Stopped(old) ELSE old
  BY <1>1, <1>2
<1>4. ASSUME NEW r \in left, NEW q \in left, r.id = q.id PROVE r = q
  <2>1. PICK a \in runs : a.id = r.id /\ r = IF a \in rs THEN Stopped(a) ELSE a
    BY <1>3
  <2>2. PICK b \in runs : b.id = q.id /\ q = IF b \in rs THEN Stopped(b) ELSE b
    BY <1>3
  <2>3. a = b
    BY <1>4, <2>1, <2>2 DEF RecordsInv, Tidy
  <2> QED BY <2>1, <2>2, <2>3
<1>5. \A r \in left : r \in Logged
  BY <1>1, <1>3
<1>6. \A r \in runs : \E q \in left : q.id = r.id
  BY <1>1, <1>2
<1> QED BY <1>3, <1>4, <1>5, <1>6

LEMMA CandidateOf ==
    ASSUME RecordsInv, NEW d \in RecordDomains, candidates[d] # NoLease
    PROVE  candidates[d] \in Tracked
BY DEF RecordsInv, Tidy

LEMMA RunsStay ==
    ASSUME RecordsInv, NEW d \in RecordDomains, NEW row \in Tracked,
           candidates' = [candidates EXCEPT ![d] = row], runs' = runs
    PROVE  /\ \A r \in runs' : r \in Logged /\ candidates'[r.domain] # NoLease
           /\ \A r, q \in runs' : r.id = q.id => r = q
           /\ \A r \in runs : \E q \in runs' : q.id = r.id
<1>1. \A r \in runs : r \in Logged /\ r.domain \in RecordDomains /\ candidates[r.domain] # NoLease
  BY DEF RecordsInv, Tidy, Logged
<1>2. \A e \in RecordDomains : candidates[e] # NoLease => candidates'[e] # NoLease
  BY NoneTracked DEF RecordsInv, Tidy
<1> QED BY <1>1, <1>2 DEF RecordsInv, Tidy

LEMMA Noticed ==
    ASSUME RecordsInv, NEW d \in RecordDomains, Records!Observe(d)
    PROVE  RecordsInv'
<1> DEFINE row == IF candidates[d] = NoLease
                  THEN [status |-> "queued", review |-> "active", seen |-> now,
                        lease |-> NoLease, run |-> 0]
                  ELSE [candidates[d] EXCEPT !.seen = now]
<1>1. row \in Tracked
  BY CandidateOf DEF RecordsInv, Tracked, Records!Statuses
<1>2. /\ candidates' = [candidates EXCEPT ![d] = row] /\ cut' = NoLease
      /\ now' = now /\ runs' = runs /\ attempts' = attempts /\ decisions' = decisions
  BY DEF Records!Observe
<1> HIDE DEF row
<1> QED BY <1>1, <1>2, RunsStay, Written

LEMMA Reviewed ==
    ASSUME RecordsInv, NEW d \in RecordDomains, Records!Review(d)
    PROVE  RecordsInv'
<1>1. candidates[d] \in Tracked
  BY CandidateOf DEF Records!Review, Records!Stored
<1>2. PICK row \in Tracked : candidates' = [candidates EXCEPT ![d] = row]
  <2>1. CASE candidates' = [candidates EXCEPT ![d].review = "rejected"]
    <3>1. [candidates[d] EXCEPT !.review = "rejected"] \in Tracked
      BY <1>1 DEF Tracked
    <3> QED BY <2>1, <3>1
  <2>2. ASSUME NEW status \in {"queued", "excluded"},
               candidates' = [candidates EXCEPT ![d].review = "active", ![d].lease = NoLease,
                                                ![d].status = status]
        PROVE  \E row \in Tracked : candidates' = [candidates EXCEPT ![d] = row]
    <3>1. [candidates[d] EXCEPT !.review = "active", !.lease = NoLease, !.status = status]
             \in Tracked
      BY <1>1 DEF Tracked, Records!Statuses
    <3>2. candidates' = [candidates EXCEPT ![d] =
             [candidates[d] EXCEPT !.review = "active", !.lease = NoLease, !.status = status]]
      BY <1>1, <2>2 DEF RecordsInv, Tidy
    <3> QED BY <3>1, <3>2
  <2> QED BY <2>1, <2>2 DEF Records!Review
<1>3. /\ cut' = NoLease /\ now' = now /\ runs' = runs /\ attempts' = attempts
      /\ decisions' = decisions
  BY DEF Records!Review
<1> QED BY <1>2, <1>3, RunsStay, Written

LEMMA CancelledStay ==
    ASSUME RecordsInv, NEW d \in RecordDomains, NEW row \in Tracked,
           candidates' = [candidates EXCEPT ![d] = row],
           NEW rs, rs \subseteq runs, NEW left, left = Records!Cancelled(rs, now)
    PROVE  /\ \A r \in left : r \in Logged /\ candidates'[r.domain] # NoLease
           /\ \A r, q \in left : r.id = q.id => r = q
           /\ \A r \in runs : \E q \in left : q.id = r.id
           /\ \A r \in left : \E old \in runs : old.id = r.id
<1>1. \A r \in runs : r.domain \in RecordDomains /\ candidates[r.domain] # NoLease
  BY DEF RecordsInv, Tidy, Logged
<1>2. \A e \in RecordDomains : candidates[e] # NoLease => candidates'[e] # NoLease
  BY NoneTracked DEF RecordsInv, Tidy
<1>3. /\ \A r \in left : r \in Logged /\ \E old \in runs : old.id = r.id /\ old.domain = r.domain
      /\ \A r, q \in left : r.id = q.id => r = q
      /\ \A r \in runs : \E q \in left : q.id = r.id
  BY CancelKeeps
<1> QED BY <1>1, <1>2, <1>3

LEMMA Resettled ==
    ASSUME RecordsInv, NEW d \in RecordDomains, Records!ChangeSettings(d)
    PROVE  RecordsInv'
<1>1. candidates[d] \in Tracked
  BY CandidateOf DEF Records!ChangeSettings, Records!Stored
<1>2. PICK status \in {"queued", "excluded"} :
         candidates' = [candidates EXCEPT ![d].status = status, ![d].lease = NoLease]
  BY DEF Records!ChangeSettings
<1> DEFINE row == [candidates[d] EXCEPT !.status = status, !.lease = NoLease]
<1>3. row \in Tracked
  BY <1>1 DEF Tracked, Records!Statuses
<1>4. candidates' = [candidates EXCEPT ![d] = row]
  BY <1>1, <1>2 DEF RecordsInv, Tidy
<1> HIDE DEF row
<1>5. /\ cut' = NoLease /\ now' = now /\ attempts' = attempts /\ decisions' = decisions
      /\ runs' = Records!Cancelled(Records!Running(d), now)
  BY DEF Records!ChangeSettings
<1>6. Records!Running(d) \subseteq runs
  BY DEF Records!Running
<1> DEFINE left == Records!Cancelled(Records!Running(d), now)
<1> HIDE DEF left
<1>8. /\ \A r \in left : r \in Logged /\ candidates'[r.domain] # NoLease
      /\ \A r, q \in left : r.id = q.id => r = q
      /\ \A r \in runs : \E q \in left : q.id = r.id
      /\ \A r \in left : \E old \in runs : old.id = r.id
  BY <1>3, <1>4, <1>6, CancelledStay DEF left
<1>7. /\ \A r \in runs' : r \in Logged /\ candidates'[r.domain] # NoLease
      /\ \A r, q \in runs' : r.id = q.id => r = q
      /\ \A r \in runs : \E q \in runs' : q.id = r.id
  BY <1>5, <1>8 DEF left
<1> QED BY <1>3, <1>4, <1>5, <1>7, Written

LEMMA Claimed ==
    ASSUME RecordsInv, NEW d \in RecordDomains, Records!Claim(d)
    PROVE  RecordsInv'
<1> DEFINE numbers == {r.id : r \in runs} \cup {c.id : c \in decisions} \cup {0}
           id == Records!Max(numbers) + 1
           left == Records!Cancelled(Records!Running(d), now)
           new == [id |-> id, domain |-> d, status |-> "running", finished |-> NoLease]
           row == [candidates[d] EXCEPT !.status = "pending", !.lease = now + RecordLease,
                                        !.run = id]
<1>1. candidates[d] \in Tracked /\ id <= RecordRuns
  BY CandidateOf DEF Records!Claim, Records!Stored
<1>2. numbers \subseteq 0..RecordRuns /\ numbers # {}
  BY RecordsAssumption DEF RecordsInv, Tidy, Logged
<1>3. Records!Max(numbers) \in numbers /\ \A x \in numbers : x <= Records!Max(numbers)
  <2> HIDE DEF numbers
  <2> QED BY <1>2, RecordsAssumption, GreatestNumber
<1>4. \A r \in runs : r.id \in numbers
  OBVIOUS
<1>5. /\ candidates' = [candidates EXCEPT ![d].status = "pending",
                           ![d].lease = now + RecordLease, ![d].run = id]
      /\ runs' = left \cup {new} /\ cut' = NoLease /\ now' = now
      /\ attempts' = attempts /\ decisions' = decisions
  BY DEF Records!Claim
<1> HIDE DEF numbers
<1>6. id \in 1..RecordRuns /\ \A r \in runs : r.id # id
  <2>1. \A r \in runs : r.id \in Int
    BY DEF RecordsInv, Tidy, Logged
  <2> DEFINE top == Records!Max(numbers)
  <2>2. top \in 0..RecordRuns /\ \A x \in numbers : x <= top
    BY <1>2, <1>3
  <2> HIDE DEF top
  <2>3. top + 1 \in 1..RecordRuns
    BY <1>1, <2>2, RecordsAssumption DEF top
  <2>4. \A r \in runs : r.id # top + 1
    BY <1>4, <2>1, <2>2
  <2> QED BY <2>3, <2>4 DEF top
<1> HIDE DEF id
<1>7. row \in Tracked
  <2>1. now + RecordLease \in Nat /\ id \in Nat
    BY <1>6, RecordsAssumption DEF RecordsInv
  <2> QED BY <1>1, <2>1 DEF Tracked, Records!Statuses
<1>8. candidates' = [candidates EXCEPT ![d] = row]
  BY <1>1, <1>5 DEF RecordsInv, Tidy
<1> HIDE DEF row, left
<1>9. /\ \A r \in left : r \in Logged /\ candidates'[r.domain] # NoLease
      /\ \A r, q \in left : r.id = q.id => r = q
      /\ \A r \in runs : \E q \in left : q.id = r.id
      /\ \A r \in left : \E old \in runs : old.id = r.id
  <2>1. Records!Running(d) \subseteq runs
    BY DEF Records!Running
  <2> QED BY <1>7, <1>8, <2>1, CancelledStay DEF left
<1>10. new \in Logged /\ new.id = id /\ new.domain = d
  BY <1>6 DEF Logged
<1>11. candidates'[d] # NoLease
  BY <1>7, <1>8, NoneTracked DEF RecordsInv, Tidy
<1> HIDE DEF new
<1>12. /\ \A r \in runs' : r \in Logged /\ candidates'[r.domain] # NoLease
       /\ \A r, q \in runs' : r.id = q.id => r = q
       /\ \A r \in runs : \E q \in runs' : q.id = r.id
  <2>1. \A r \in left : r.id # new.id
    BY <1>6, <1>9, <1>10
  <2>2. \A r \in runs' : r \in left \/ r = new
    BY <1>5
  <2>3. \A r \in left : r \in runs'
    BY <1>5
  <2>4. \A r \in runs' : r \in Logged /\ candidates'[r.domain] # NoLease
    BY <1>9, <1>10, <1>11, <2>2
  <2>5. \A r, q \in runs' : r.id = q.id => r = q
    BY <1>9, <2>1, <2>2
  <2>6. \A r \in runs : \E q \in runs' : q.id = r.id
    BY <1>9, <2>3
  <2> QED BY <2>4, <2>5, <2>6
<1> QED BY <1>5, <1>7, <1>8, <1>12, Written

LEMMA Concluded ==
    ASSUME RecordsInv, NEW r \in runs, Records!Complete(r)
    PROVE  RecordsInv'
<1> DEFINE d == r.domain
           over == [r EXCEPT !.status = "completed", !.finished = now]
<1>1. r \in Logged /\ d \in RecordDomains /\ candidates[d] \in Tracked
  BY CandidateOf DEF RecordsInv, Tidy, Logged
<1>2. PICK status \in {"pending", "confirmed", "blocked"}, whole \in BOOLEAN :
         /\ decisions' = decisions \cup {[id |-> r.id, domain |-> d, at |-> now,
                                          status |-> status, whole |-> whole]}
         /\ candidates' = [candidates EXCEPT ![d].status = status, ![d].lease = NoLease]
  BY DEF Records!Complete
<1>3. /\ attempts' = attempts \cup {[run |-> r.id, at |-> now]}
      /\ runs' = (runs \ {r}) \cup {over} /\ cut' = NoLease /\ now' = now
  BY DEF Records!Complete
<1> DEFINE row == [candidates[d] EXCEPT !.status = status, !.lease = NoLease]
<1>4. row \in Tracked
  BY <1>1 DEF Tracked, Records!Statuses
<1>5. candidates' = [candidates EXCEPT ![d] = row]
  BY <1>1, <1>2 DEF RecordsInv, Tidy
<1>6. over \in Logged /\ over.id = r.id /\ over.domain = d
  BY <1>1 DEF RecordsInv, Logged
<1>7. \A q \in runs : /\ q \in Logged /\ q.domain \in RecordDomains
                      /\ candidates[q.domain] # NoLease
  BY DEF RecordsInv, Tidy, Logged
<1>8. \A e \in RecordDomains : candidates[e] # NoLease => candidates'[e] # NoLease
  BY <1>4, <1>5, NoneTracked DEF RecordsInv, Tidy
<1> HIDE DEF over, row, d
<1>9. /\ \A q \in runs' : q \in Logged /\ candidates'[q.domain] # NoLease
      /\ \A p, q \in runs' : p.id = q.id => p = q
      /\ \A q \in runs : \E p \in runs' : p.id = q.id
  <2>1. \A p, q \in runs : p.id = q.id => p = q
    BY DEF RecordsInv, Tidy
  <2> QED BY <1>1, <1>3, <1>6, <1>7, <1>8, <2>1 DEF d
<1>10. \A a \in attempts' : \/ a \in attempts
                            \/ a.at \in Nat /\ \E q \in runs' : q.id = a.run
  BY <1>3, <1>6 DEF RecordsInv
<1>11. \A c \in decisions' : c \in decisions \/ (c.domain = d /\ c.id \in 0..RecordRuns)
  BY <1>1, <1>2 DEF Logged
<1> QED BY <1>1, <1>3, <1>4, <1>5, <1>9, <1>10, <1>11, Written

LEMMA RecordsStep ==
    ASSUME RecordsInv, Records!Next
    PROVE  RecordsInv'
<1>1. CASE Records!Tick
  BY <1>1 DEF Records!Tick, Records!database, RecordsInv, Tidy, Records!RetentionExact
<1> QED BY <1>1, Maintained, Noticed, Claimed, Reviewed, Resettled, Concluded DEF Records!Next

RecordsPart == part = "records" => RecordsInv

LEMMA RecordsPlaced == RecordsPart /\ [Next]_vars => RecordsPart'
<1> SUFFICES ASSUME RecordsPart, [Next]_vars, part' = "records" PROVE RecordsInv'
  BY DEF RecordsPart
<1>1. CASE Next
  <2>1. part = "records"
    BY <1>1 DEF Next
  <2>2. Records!Next
    BY <1>1, <2>1 DEF Next
  <2> QED BY <2>1, <2>2, RecordsStep DEF RecordsPart
<1>2. CASE UNCHANGED vars
  <2>1. /\ UNCHANGED <<now, candidates, runs, attempts, decisions, cut>>
        /\ part = "records"
    BY <1>2 DEF vars, recordVars
  <2>2. RecordsInv
    BY <2>1 DEF RecordsPart
  <2>3. Tidy(candidates, runs, attempts, decisions)' /\ now' \in Nat
    BY <2>1, <2>2 DEF RecordsInv, Tidy
  <2>4. Records!RetentionExact' <=> Records!RetentionExact
    BY <2>1 DEF Records!RetentionExact, Records!Stored, Records!Protected, Records!DomainOf,
                Records!Leased
  <2> QED BY <2>2, <2>3, <2>4 DEF RecordsInv
<1> QED BY <1>1, <1>2

\* Whatever was claimed, concluded, cancelled or rejected before, and whatever crashed, a
\* pass of the retention leaves nothing of a candidate out of sight and no older evidence,
\* unless a live lease holds it, and takes nothing else (service.ts).
THEOREM RetentionStaysExact == Spec => [](part = "records" => Records!RetentionExact)
<1>1. Init => RecordsPart
  BY RecordsInit DEF Init, RecordsPart
<1>2. RecordsPart => (part = "records" => Records!RetentionExact)
  BY DEF RecordsPart, RecordsInv
<1> QED
  BY <1>1, <1>2, RecordsPlaced, PTL DEF Spec

=============================================================================
