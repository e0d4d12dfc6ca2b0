--------------------------- MODULE DomainEvidence ---------------------------
(* The evidence on one domain and what is decided from it: a pair of probes *)
(* for each validation (modules/domain-intelligence/executor.ts), kept over *)
(* the window, and the decision over the pairs (decision.ts).               *)
(* The resolvers give the observed name up to two addresses. What a scope   *)
(* covers (model.ts) is reduced to the origins "own", "sub" (of the same    *)
(* registrable site) and "foreign". The policy is one its schema accepts.   *)
(* Times are kept as ages; what is older than the window is not read again. *)
EXTENDS Integers, Sequences, FiniteSets, FiniteSetsExt, SequencesExt

CONSTANTS
    Window,            \* validationWindowHours
    Spacing,           \* minimumAttemptSpacingMinutes
    DirectRequired,    \* directAttemptsRequired
    ProxyRequired,     \* minimumProxySuccesses
    MaxAttempts, MaxFaults  \* bounds: pairs kept, pairs that are not as usual

VARIABLES
    scope,    \* the selected scope of the candidate
    attempts, \* the pairs of attempts of the window, the oldest first
    run,      \* the execution: its age, the index of the address, its scope
    decision,
    faults

vars == <<scope, attempts, run, decision, faults>>

Scopes    == {"exact", "site"}
Origins   == {"own", "sub", "foreign"}
Idle      == [phase |-> "idle", age |-> 0, index |-> 0, scope |-> "exact"]
Undecided == [status |-> "none", reasons |-> {}]
NoAddress == 0

\* QUALIFYING_DIRECT_FAILURE_CATEGORIES: timeouts and resets of an address, and
\* "dns" for the agreement of the resolvers that the name does not exist.
Qualifies(a) == a.category \in {"failure", "dns"}

-----------------------------------------------------------------------------
(* decision.ts                                                               *)

\* candidateRuleCoversFqdn: whether the rule would cover where a probe ended.
CoversFqdn(s, origin) == origin = "own" \/ (s = "site" /\ origin = "sub")

Qualifying(pairs, s) ==
    SelectSeq(pairs, LAMBDA a : Qualifies(a) /\ CoversFqdn(s, a.origin))

\* DiversityState: the set of the addresses of a chain, or Multiple.
Multiple == {-1}
AddAddress(state, address) ==
    IF address = NoAddress \/ state = Multiple THEN state
    ELSE IF state = {} THEN {address}
    ELSE IF state = {address} THEN state ELSE Multiple

InitialState(address) == IF address = NoAddress THEN {} ELSE {address}

\* The map of a position keeps the longest chain of each state.
Longest(pairs) ==
    {p \in pairs : \A q \in pairs : q.state = p.state => q.count <= p.count}

Follows(a, b)   == a.age - b.age >= Spacing

\* evaluateSpacedEvidence: statesByEnd.
Chains(pairs) ==
    LET ends[i \in DOMAIN pairs] ==
          Longest({[state |-> InitialState(pairs[i].address), count |-> 1]}
             \cup UNION {{[state |-> AddAddress(c.state, pairs[i].address),
                           count |-> c.count + 1] : c \in ends[j]}
                           : j \in {k \in 1..(i - 1) : Follows(pairs[k], pairs[i])}})
    IN  UNION {ends[i] : i \in DOMAIN pairs}

MaximumCount(chains) == Max({c.count : c \in chains} \cup {0})
MaximumDiverse(chains) == MaximumCount({c \in chains : c.state = Multiple})

\* decideCandidate: the reasons over what the execution read.
DirectReasons(qualifying) ==
    LET chains  == Chains(qualifying)
        several == \E i \in DOMAIN qualifying : qualifying[i].available > 1
    IN  (IF Len(qualifying) < DirectRequired THEN {"insufficient-direct-failures"}
         ELSE IF MaximumCount(chains) < DirectRequired THEN {"direct-failures-not-spaced"} ELSE {})
        \cup (IF several /\ MaximumDiverse(chains) < DirectRequired
              THEN {"direct-address-diversity-missing"} ELSE {})

ProxyReasons(pairs) ==
    LET Some(c)   == \E i \in DOMAIN pairs : pairs[i].proxy = c
        successes == SelectSeq(pairs, LAMBDA a : a.proxy = "response")
    IN  (IF Some("failure") THEN {"proxy-unstable"} ELSE {})
        \cup (IF Some("uncertain") THEN {"proxy-evidence-uncertain"} ELSE {})
        \cup (IF Len(successes) < ProxyRequired THEN {"insufficient-proxy-successes"} ELSE {})

\* What other components say at the moment of the decision.
Circumstances == {"observer-unhealthy", "insufficient-observations", "candidate-excluded",
                  "already-covered"}

Blocking == {"observer-unhealthy", "candidate-excluded", "already-covered",
             "proxy-unstable", "proxy-evidence-uncertain"}

StatusFor(reasons) ==
    IF reasons \cap Blocking # {} THEN "blocked"
    ELSE IF reasons # {} THEN "pending" ELSE "confirmed"

Decide(s, pairs, circumstances) ==
    LET reasons == circumstances \cup DirectReasons(Qualifying(pairs, s)) \cup ProxyReasons(pairs)
    IN  [status |-> StatusFor(reasons), reasons |-> reasons]

-----------------------------------------------------------------------------
(* executor.ts                                                               *)

\* The attempts of the window give the index of the address. A domain that is
\* covered already is decided on without a probe.
Begin ==
    /\ run.phase = "idle" /\ Len(attempts) < MaxAttempts
    /\ \A i \in DOMAIN attempts : attempts[i].age > 0
    /\ \/ /\ run' = [phase |-> "probing", age |-> 0, scope |-> scope, index |-> Len(attempts)]
          /\ decision' = Undecided
       \/ /\ decision' = Decide(scope, attempts, {"already-covered"})
          /\ UNCHANGED run
    /\ UNCHANGED <<scope, attempts, faults>>

DirectResults ==
    [category : {"failure"}, origin : {"own", "sub"}, available : {1, 2}]
       \cup [category : {"dns"}, origin : {"own"}, available : {0}]
       \cup [category : {"other"}, origin : {"foreign"}, available : {0}]

\* probeHttps: the address of a result is the one its index selects.
Attempt(r, p) ==
    [age |-> run.age, category |-> r.category, origin |-> r.origin, available |-> r.available,
     address |-> IF r.available = 0 THEN NoAddress ELSE 1 + (run.index % r.available),
     proxy |-> p]

\* The pair is over: the decision counts it with what is in the window by now,
\* and is stored with it, or refused with it when the claim was lost meanwhile.
Conclude ==
    /\ run.phase = "probing"
    /\ \E r \in DirectResults, p \in {"response", "failure", "uncertain"},
          circumstances \in {{}} \cup {{c} : c \in Circumstances}, stored \in BOOLEAN :
         LET pairs == Append(attempts, Attempt(r, p))
             usual == p = "response" /\ circumstances = {} /\ stored
         IN  /\ \/ usual /\ UNCHANGED faults
                \/ ~usual /\ faults < MaxFaults /\ faults' = faults + 1
             /\ decision' = IF stored THEN Decide(run.scope, pairs, circumstances) ELSE Undecided
             /\ attempts' = IF stored THEN pairs ELSE attempts
    /\ run' = Idle
    /\ UNCHANGED scope

\* A systemic failure of one probe aborts the other, and nothing is kept.
Abandon ==
    /\ run.phase = "probing"
    /\ run' = Idle
    /\ UNCHANGED <<scope, attempts, decision, faults>>

\* The administrator selects another scope: the claim of a run is fenced by it.
Rescope ==
    /\ run.phase = "idle"
    /\ \E s \in Scopes \ {scope} : scope' = s
    /\ decision' = Undecided
    /\ UNCHANGED <<attempts, run, faults>>

\* A pair of probes ends within its timeout, less than a tick of the window.
Older(a) == [a EXCEPT !.age = @ + 1]
Tick ==
    /\ run.age = 0 /\ attempts # <<>>
    /\ attempts' = SelectSeq([i \in DOMAIN attempts |-> Older(attempts[i])],
                             LAMBDA a : a.age <= Window)
    /\ run' = IF run.phase = "probing" THEN Older(run) ELSE run
    /\ decision' = Undecided
    /\ UNCHANGED <<scope, faults>>

Init ==
    /\ scope \in Scopes /\ attempts = <<>>
    /\ run = Idle /\ decision = Undecided /\ faults = 0

Next == Begin \/ Conclude \/ Abandon \/ Rescope \/ Tick

Spec == Init /\ [][Next]_vars

-----------------------------------------------------------------------------
(* What a confirmation needs, said of sets instead of chains.                *)

Evidence ==
    {i \in DOMAIN attempts : Qualifies(attempts[i]) /\ CoversFqdn(scope, attempts[i].origin)}
Spaced(S) == \A i, j \in S : i < j => attempts[i].age - attempts[j].age >= Spacing
Diverse(S) == Cardinality({attempts[i].address : i \in S} \ {NoAddress}) > 1
Convincing ==
    \E S \in SUBSET Evidence :
       /\ Cardinality(S) >= DirectRequired /\ Spaced(S)
       /\ (\E i \in Evidence : attempts[i].available > 1) => Diverse(S)
ProxySound ==
    /\ Len(attempts) >= ProxyRequired
    /\ \A i \in DOMAIN attempts : attempts[i].proxy = "response"

(* A domain is confirmed exactly when nothing else speaks against it and,    *)
(* within the window that ends at the decision, enough failures of names the *)
(* rule would cover are spaced from one another, with two addresses among    *)
(* those spaced failures if the name ever had two, and every probe through   *)
(* the proxy was answered.                                                   *)
EvidenceEarned ==
    decision.status # "none" =>
       (decision.status = "confirmed" <=>
          decision.reasons \cap Circumstances = {} /\ Convincing /\ ProxySound)
=============================================================================
