----------------------------- MODULE HttpsProbe -----------------------------
(* One probe of a domain over HTTPS, direct or through the validation proxy *)
(* of the engine (modules/domain-intelligence/probe.ts): the resolution by  *)
(* several resolvers (resolver.ts), the hops with their timers and sockets, *)
(* the redirects, and the proof that the tunnel of a hop is carried by the  *)
(* target group (clients/mihomo.ts).                                        *)
(* The timer over a whole hop has the length of the attempt's deadline and  *)
(* starts later, so only the deadline is kept. Names are reduced to whether *)
(* they are the observed one, responses to what is decided on them.         *)
EXTENDS Integers, FiniteSets, Sequences

CONSTANTS
    Public4, Public6,  \* public addresses, numbers in the order they sort in
    Resolvers, Quorum,
    ResolverTimeout, ConnectTimeout, ProofTimeout, TotalTimeout,
    MaxRedirects,
    MaxTunnels         \* bound: connections the engine lists

VARIABLES
    probe,     \* direction, phase, origin, redirects, index, address, available
    timers,    \* what is left of the timers
    transport, \* what is open of the sockets and requests of the hop
    proof,     \* "none", "running", "passed", "failed"
    baseline,  \* the connections listed before the tunnel of the hop
    tunnels,   \* every connection of the engine to the addresses, in order
    listener,  \* the group the engine routes the validation listener to
    refused,   \* the resolver's proxy answered 403 or 407
    history,   \* of this hop: how long it took, where its tunnel led, whether
               \* another validation opened one to the same address
    verdict    \* the result, while and after it is settled

process == <<probe, timers, transport, proof, baseline, refused, history, verdict>>
vars    == <<process, tunnels, listener>>

Addresses == Public4 \cup Public6
Groups    == {"target", "other"}
Off       == -1
Down(t)   == IF t > 0 THEN t - 1 ELSE t
Undecided == [category |-> "none", address |-> 0, available |-> 0, origin |-> "own"]

NewHop    == [age |-> 0, route |-> "none", crowded |-> FALSE]

\* QUALIFYING_DIRECT_FAILURE_CATEGORIES; dns_failure has no address.
Blaming == {"connect_timeout", "tls_timeout", "tls_handshake_reset",
            "connection_reset_before_http"}

Proxied == probe.direction = "proxy"
Resolving == probe.phase = "resolving"
InHop   == probe.phase \in {"connecting", "route-proof", "tls", "awaiting-http"}
Ended   == probe.phase = "done"

-----------------------------------------------------------------------------
(* Results. Whatever comes first settles a hop; what comes later finds it    *)
(* settled. A result waits for the proof that still runs.                    *)

Result(category) ==
    [category |-> category, address |-> probe.address, available |-> probe.available,
     origin |-> probe.origin]

EndsNow ==                                    \* mutant: the proof is left behind
    /\ probe' = [probe EXCEPT !.phase = "done"]
    /\ transport' = {}
    /\ UNCHANGED proof

Ends ==
    /\ probe' = [probe EXCEPT !.phase = IF proof = "running" THEN "settling" ELSE "done"]
    /\ transport' = {}
    /\ UNCHANGED proof

Settle(category) ==
    /\ Ends
    /\ verdict' = Result(category)
    /\ timers'  = [timers EXCEPT !.connect = Off, !.resolver = Off]
    /\ UNCHANGED <<baseline, tunnels, listener, refused, history>>

\* The proof was aborted with the hop, or fails or passes meanwhile.
ProofSettles ==
    /\ probe.phase = "settling"
    /\ proof' = "failed"
    /\ probe' = [probe EXCEPT !.phase = "done"]
    /\ UNCHANGED <<timers, transport, baseline, tunnels, listener, refused, history, verdict>>

CallerAborts ==
    /\ probe.phase \notin {"settling", "done"}
    /\ Settle("aborted")

DeadlineAsPhase ==                            \* mutant: blames the phase it is in
    /\ timers.attempt = 0
    /\ probe.phase \notin {"settling", "done"}
    /\ Settle(CASE probe.phase = "connecting" -> "connect_timeout"
                [] probe.phase = "tls"        -> "tls_timeout"
                [] OTHER                      -> "total_timeout")

DeadlinePasses ==
    /\ timers.attempt = 0
    /\ probe.phase \notin {"settling", "done"}
    /\ Settle("total_timeout")

-----------------------------------------------------------------------------
(* Resolution.                                                               *)

\* queryResolver: what one query for one family may return.
Replies(family) ==
    [found : SUBSET family, rejected : BOOLEAN, failed : {FALSE}]
       \cup {[found |-> {}, rejected |-> FALSE, failed |-> TRUE]}

\* resolveOne.
Outcome(a, b) ==
    LET found == a.found \cup b.found
    IN  [found    |-> found,
         rejected |-> a.rejected \/ b.rejected,
         status   |-> IF found # {} THEN "resolved"
                      ELSE IF a.rejected \/ b.rejected THEN "unsafe"
                      ELSE IF a.failed \/ b.failed THEN "failed" ELSE "negative"]

Outcomes == {Outcome(a, b) : a \in Replies(Public4), b \in Replies(Public6)}

Resolved(outcomes) == {r \in Resolvers : outcomes[r].status = "resolved"}

\* The addresses of a hop, without those of the family that has no egress.
Usable(outcomes) == Public4 \cap UNION {outcomes[r].found : r \in Resolvers}

\* The address of the attempt: the sorted addresses, one after the other.
Chosen(usable) ==
    {a \in usable : Cardinality({b \in usable : b < a}) = probe.index % Cardinality(usable)}

\* The hop before its request: connections are only listed for a proof.
Prepared(address, available) ==
    [probe EXCEPT !.address = address, !.available = available,
                  !.phase = IF Proxied THEN "preparing" ELSE "connecting"]

ResolutionFails(outcomes) ==
    LET negative == \A r \in Resolvers : outcomes[r].status = "negative"
    IN  IF \E r \in Resolvers : outcomes[r].rejected THEN "unsafe_address"
        ELSE IF Cardinality(Resolved(outcomes)) < Quorum
             THEN IF negative THEN "dns_failure" ELSE "infrastructure_error"
        ELSE IF Usable(outcomes) = {} THEN "ipv6_unavailable" ELSE "none"

\* resolvePublicAddresses: a query that is open when the time is over has failed.
ResolversAnswer ==
    /\ Resolving
    /\ \E outcomes \in [Resolvers -> Outcomes] :
         LET failure == IF refused THEN "proxy_auth_failure" ELSE ResolutionFails(outcomes)
             usable  == Usable(outcomes)
         IN  \/ failure # "none" /\ Settle(failure)
             \/ /\ failure = "none"
                /\ \E a \in Chosen(usable) : probe' = Prepared(a, Cardinality(usable))
                /\ timers' = [timers EXCEPT !.resolver = Off,
                                            !.connect = IF Proxied THEN Off ELSE ConnectTimeout]
                /\ transport' = IF Proxied THEN {} ELSE {"request"}
                /\ history' = NewHop
                /\ UNCHANGED <<proof, baseline, tunnels, listener, refused, verdict>>

\* A fetch of the proxied resolver is refused; the resource remembers it.
ProxyRefusesResolver ==
    /\ Resolving /\ Proxied /\ ~refused
    /\ refused' = TRUE
    /\ UNCHANGED <<probe, timers, transport, proof, baseline, tunnels, listener, history, verdict>>

-----------------------------------------------------------------------------
(* The hop.                                                                  *)

Tunnel(by, group, address) == [by |-> by, group |-> group, address |-> address]
Closed == Tunnel("nobody", "none", 0)
Listed == {i \in DOMAIN tunnels : tunnels[i] # Closed}

\* prepareForcedRouteProof, and the CONNECT it is made before.
Prepare ==
    /\ probe.phase = "preparing"
    /\ \/ /\ baseline'  = Listed
          /\ probe'     = [probe EXCEPT !.phase = "connecting"]
          /\ timers'    = [timers EXCEPT !.connect = ConnectTimeout]
          /\ transport' = {"proxy"}
          /\ UNCHANGED <<proof, tunnels, listener, refused, history, verdict>>
       \/ Settle("infrastructure_error")

\* The engine opens the tunnel and answers the CONNECT.
Tunnelled ==
    /\ Proxied /\ probe.phase = "connecting" /\ Len(tunnels) < MaxTunnels
    /\ tunnels'   = Append(tunnels, Tunnel("hop", listener, probe.address))
    /\ probe'     = [probe EXCEPT !.phase = "route-proof"]
    /\ proof'     = "running"
    /\ timers'    = [timers EXCEPT !.proof = ProofTimeout]
    /\ transport' = transport \cup {"tunnel"}
    /\ history'   = [history EXCEPT !.route = listener]
    /\ UNCHANGED <<baseline, listener, refused, verdict>>

ConnectRefused ==
    /\ Proxied /\ probe.phase = "connecting"
    /\ \E category \in {"proxy_auth_failure", "network_error"} : Settle(category)

\* A connection of the validation listener, to the address, in the target group.
Proves(t) == t.address = probe.address /\ t.group = "target"

AnyProves == {i \in Listed : Proves(tunnels[i])}    \* mutant: no baseline
Matching  == {i \in Listed \ baseline : Proves(tunnels[i])}

\* The verifier finds the connection; TLS starts over the tunnel.
ProofPasses ==
    /\ proof = "running" /\ probe.phase = "route-proof"
    /\ Matching # {}
    /\ proof'     = "passed"
    /\ probe'     = [probe EXCEPT !.phase = "tls"]
    /\ transport' = transport \cup {"secure"}
    /\ timers'    = [timers EXCEPT !.proof = Off]
    /\ UNCHANGED <<baseline, tunnels, listener, refused, history, verdict>>

\* The list cannot be fetched, or the time of the proof is over.
ProofFails ==
    /\ proof = "running" /\ probe.phase = "route-proof"
    /\ probe'     = [probe EXCEPT !.phase = "done"]
    /\ proof'     = "failed"
    /\ verdict'   = Result("route_proof_failure")
    /\ transport' = {}
    /\ timers'    = [timers EXCEPT !.proof = Off, !.connect = Off]
    /\ UNCHANGED <<baseline, tunnels, listener, refused, history>>

Connected ==
    /\ ~Proxied /\ probe.phase = "connecting"
    /\ probe' = [probe EXCEPT !.phase = "tls"]
    /\ UNCHANGED <<timers, transport, proof, baseline, tunnels, listener, refused, history, verdict>>

Secured ==
    /\ probe.phase = "tls"
    /\ probe'     = [probe EXCEPT !.phase = "awaiting-http"]
    /\ timers'    = [timers EXCEPT !.connect = Off]
    /\ transport' = transport \cup {"request"}
    /\ UNCHANGED <<proof, baseline, tunnels, listener, refused, history, verdict>>

\* classifyNetworkError.
Classified(reset) ==
    CASE probe.phase = "tls" -> IF reset THEN "tls_handshake_reset" ELSE "tls_error"
      [] probe.phase = "awaiting-http" /\ reset -> "connection_reset_before_http"
      [] OTHER -> "network_error"

Breaks ==
    /\ InHop
    /\ \E reset \in BOOLEAN : Settle(Classified(reset))

ConnectTimesOut ==
    /\ InHop /\ timers.connect = 0
    /\ Settle(CASE probe.phase = "connecting"  -> "connect_timeout"
                [] probe.phase = "route-proof" -> "route_proof_failure"
                [] OTHER                       -> "tls_timeout")

Responds ==
    /\ probe.phase = "awaiting-http"
    /\ \E category \in {"http_response", "unsafe_redirect", "network_error"} : Settle(category)

CountKept(o)  == [probe EXCEPT !.phase = "resolving", !.origin = o, !.address = 0]  \* mutant
NextTarget(o) ==
    [probe EXCEPT !.phase = "resolving", !.origin = o, !.address = 0, !.available = 0]

\* A redirect to another or the same name: a new hop begins with a resolution.
Redirected ==
    /\ probe.phase = "awaiting-http"
    /\ \/ probe.redirects >= MaxRedirects /\ Settle("redirect_limit")
       \/ /\ probe.redirects < MaxRedirects
          /\ \E o \in {"own", "other"} :
               probe' = [NextTarget(o) EXCEPT !.redirects = @ + 1]
          /\ timers'    = [timers EXCEPT !.resolver = ResolverTimeout]
          /\ transport' = {}
          /\ proof'     = "none"
          /\ history'   = NewHop
          /\ UNCHANGED <<baseline, tunnels, listener, refused, verdict>>

-----------------------------------------------------------------------------
\* Other validations open connections, the engine closes some, and a reload
\* changes where the listener leads. Those of users never come by the listener.
OtherTunnel ==
    /\ Proxied /\ ~Ended /\ Len(tunnels) < MaxTunnels
    /\ \E a \in Public4 :
         /\ tunnels' = Append(tunnels, Tunnel("other", listener, a))
         /\ history' = [history EXCEPT !.crowded = @ \/ a = probe.address]
    /\ UNCHANGED <<probe, timers, transport, proof, baseline, refused, verdict, listener>>

TunnelCloses ==
    /\ ~Ended
    /\ \E i \in Listed :
         /\ tunnels[i].by = "hop" /\ i \notin baseline => "tunnel" \notin transport
         /\ tunnels' = [tunnels EXCEPT ![i] = Closed]
    /\ UNCHANGED <<process, listener>>

Reload ==
    /\ Proxied /\ ~Ended
    /\ \E g \in Groups \ {listener} : listener' = g
    /\ UNCHANGED <<process, tunnels>>

Overdue ==
    \/ ~Ended /\ probe.phase # "settling" /\ timers.attempt = 0
    \/ InHop /\ timers.connect = 0
    \/ Resolving /\ timers.resolver = 0
    \/ proof = "running" /\ timers.proof = 0
    \/ probe.phase = "settling"

Tick ==
    /\ ~Ended /\ ~Overdue
    /\ timers' = [t \in DOMAIN timers |-> Down(timers[t])]
    /\ history' = [history EXCEPT !.age = IF InHop THEN @ + 1 ELSE @]
    /\ UNCHANGED <<probe, transport, proof, baseline, tunnels, listener, refused, verdict>>

Init ==
    /\ \E d \in {"direct", "proxy"}, i \in 0..1 :
         probe = [direction |-> d, phase |-> "resolving", origin |-> "own", redirects |-> 0,
                  index |-> i, address |-> 0, available |-> 0]
    /\ timers = [attempt |-> TotalTimeout, resolver |-> ResolverTimeout, connect |-> Off,
                 proof |-> Off]
    /\ transport = {} /\ proof = "none" /\ baseline = {}
    /\ tunnels = <<>> /\ listener \in Groups
    /\ refused = FALSE /\ history = NewHop /\ verdict = Undecided

Next ==
    \/ ResolversAnswer \/ ProxyRefusesResolver
    \/ Prepare \/ Tunnelled \/ ConnectRefused \/ ProofPasses \/ ProofFails \/ ProofSettles
    \/ Connected \/ Secured \/ Breaks \/ ConnectTimesOut \/ Responds \/ Redirected
    \/ CallerAborts \/ DeadlinePasses
    \/ OtherTunnel \/ TunnelCloses \/ Reload \/ Tick

Spec == Init /\ [][Next]_vars

-----------------------------------------------------------------------------
(* A destination is only blamed for a timeout after its hop was given the   *)
(* whole connect timeout, however much of the deadline the resolution and    *)
(* the redirects used, and never through a tunnel that was not proved.       *)
BlamesDestination ==
    /\ verdict.category \in {"connect_timeout", "tls_timeout"} => history.age >= ConnectTimeout
    /\ Proxied /\ verdict.category \in Blaming \ {"connect_timeout"} => proof = "passed"

(* A response through the proxy is only counted when the tunnel of this hop  *)
(* was led to the target group, whatever connections of earlier hops and of  *)
(* users are listed and whenever the engine is reloaded; only another        *)
(* validation of the same address can stand in for it.                       *)
RouteProved ==
    Proxied /\ verdict.category = "http_response" => history.route = "target" \/ history.crowded

(* Whatever hop, redirect or timer a probe ends in, the decision accepts its *)
(* result as evidence: an address only with a count, none after a failed     *)
(* resolution, one for every failure that is blamed on the destination. One  *)
(* refused result would block the domain for as long as it is kept.          *)
Acceptable(v) ==
    /\ v.address \in Addresses \cup {0} /\ (v.address = 0 <=> v.available = 0)
    /\ v.category = "dns_failure" => v.address = 0
    /\ v.category \in Blaming \cup {"http_response"} => v.address # 0
EvidenceAccepted == verdict.category \in {"none", "aborted"} \/ Acceptable(verdict)

(* When the probe returns nothing of it is open or running.                  *)
NothingLeft == Ended => transport = {} /\ proof # "running"
=============================================================================
