------------------------------ MODULE MCPanel ------------------------------
(***************************************************************************)
(* What the panel decides on evidence it gathers while the world moves:    *)
(* the observations, the runs of the validation, one probe, the coverage   *)
(* and the decision of the domain intelligence, and what it keeps and      *)
(* reports of them. A behaviour is a behaviour of one of them, the part;   *)
(* the variables of the others are off.                                    *)
(***************************************************************************)
EXTENDS Integers, Sequences, FiniteSets, TLC

CONSTANTS
    Domains, NoLease, Lease, WorkTimeout, CleanupTimeout, Pulse, OpenFor, Threshold,
    RateWindow, MaximumStarts, Concurrency, Cooldown, MaxBackoff, Generations,
    MaxStreak, MaxChanges,                                              \* Validation
    Conns,                                                              \* Observations
    Public4, Public6, Resolvers, Quorum, ResolverTimeout, ConnectTimeout,
    ProofTimeout, TotalTimeout, MaxRedirects, MaxTunnels,               \* Probe
    Providers, ProviderContents, GeoContents, CustomContents, Limit,    \* Coverage
    RecordDomains, RecordRetention, RecordLease, RecordTime, RecordRuns \* Records

\* Zero is the absence of an address.
ASSUME ProbeAssumption ==
    /\ IsFiniteSet(Public4) /\ 0 \notin Public4
    /\ ResolverTimeout \in Nat /\ ConnectTimeout \in Nat /\ ProofTimeout \in Nat
    /\ TotalTimeout \in Nat
ASSUME ValidationAssumption ==
    /\ IsFiniteSet(Domains) /\ OpenFor \in Nat
    /\ Threshold \in Nat \ {0} /\ Concurrency \in Nat
ASSUME CoverageAssumption == IsFiniteSet(Providers) /\ Limit \in Nat
\* What stands for no candidate is none.
ASSUME RecordsAssumption ==
    /\ RecordRetention \in Nat /\ RecordLease \in Nat /\ RecordRuns \in Nat
    /\ NoLease \notin [status : {"queued", "pending", "confirmed", "blocked", "excluded"},
                       review : {"active", "rejected"}, seen : Nat,
                       lease : Nat \cup {NoLease}, run : Nat]

VARIABLES
    part,
    policy, scheduler, active, jobs,                                    \* Validation
    conns, running, pending, recent, pulse, fetch, health,
    rows, daily, candidate, pruned,                                     \* Observations
    probe, timers, transport, proof, baseline, tunnels, listener,
    refused, history, verdict,                                          \* Probe
    files, routing, managed,                                            \* Coverage
    scope, decision,                                                    \* Evidence
    decisions, cut,                                                     \* Records, Reports
    candidates, runs, attempts, now, changes, faults, run               \* of several

validationVars  == <<policy, scheduler, active, jobs>>
observationVars == <<conns, running, pending, recent, pulse, fetch, health, rows,
                     daily, candidate, pruned>>
probeVars       == <<probe, timers, transport, proof, baseline, tunnels, listener,
                     refused, history, verdict>>
coverageVars    == <<files, routing, managed>>
evidenceVars    == <<scope, decision>>
recordVars      == <<decisions, cut>>
vars == <<part, validationVars, observationVars, probeVars, coverageVars, evidenceVars,
          recordVars, candidates, runs, attempts, now, changes, faults, run>>

\* What the files may hold: lists of rules that cover the domain or are silent.
SomeProviderContents == {<<"covers">>, <<"silent">>, <<"silent", "bad">>}
SomeGeoContents      == {<<"silent">>, <<"silent", "covers">>}
SomeCustomContents   == {<<>>, <<"covers">>}

Validation == INSTANCE DomainValidation
Observations == INSTANCE DomainObservations WITH Window <- 2,
                 Delay <- 1, Day <- 2, Retention <- 2, Recent <- 3, Minimum <- 2,
                 QueueCapacity <- 2, RecentCapacity <- 4, WaitingCapacity <- 3,
                 MaxTime <- 3, MaxFaults <- 1
Probe == INSTANCE HttpsProbe
Coverage == INSTANCE DomainCoverage
Evidence == INSTANCE DomainEvidence WITH Window <- 3, Spacing <- 2, DirectRequired <- 2,
                 ProxyRequired <- 2, MaxAttempts <- 4, MaxFaults <- 1

\* One domain over time, and the reports over several at one moment.
Records == INSTANCE DomainReport WITH Domains <- RecordDomains, Retention <- RecordRetention,
              Lease <- RecordLease, Limit <- 1, PageSize <- 1, MaxTime <- RecordTime,
              MaxRuns <- RecordRuns, None <- NoLease
Reports == INSTANCE DomainReport WITH Domains <- 1..3, Retention <- 1, Lease <- 1, Limit <- 1,
              PageSize <- 1, MaxTime <- 0, MaxRuns <- 2, None <- NoLease

ValidationOff ==
    /\ policy = 0 /\ scheduler = 0 /\ active = 0 /\ jobs = 0
ObservationsOff ==
    /\ conns = 0 /\ running = 0 /\ pending = 0 /\ recent = 0 /\ pulse = 0
    /\ fetch = 0 /\ health = 0 /\ rows = 0 /\ daily = 0 /\ candidate = 0
    /\ pruned = 0
ProbeOff ==
    /\ probe = 0 /\ timers = 0 /\ transport = 0 /\ proof = 0 /\ baseline = 0
    /\ tunnels = 0 /\ listener = 0 /\ refused = 0 /\ history = 0 /\ verdict = 0
CoverageOff == files = 0 /\ routing = 0 /\ managed = 0
EvidenceOff == scope = 0 /\ decision = 0
RecordsOff == decisions = 0 /\ cut = 0

Init ==
    \/ /\ part = "validation" /\ Validation!Init
       /\ ObservationsOff /\ ProbeOff /\ CoverageOff /\ EvidenceOff /\ RecordsOff
       /\ attempts = 0 /\ now = 0 /\ faults = 0 /\ run = 0
    \/ /\ part = "observations" /\ Observations!Init
       /\ ValidationOff /\ ProbeOff /\ CoverageOff /\ EvidenceOff /\ RecordsOff
       /\ candidates = 0 /\ runs = 0 /\ attempts = 0 /\ changes = 0 /\ run = 0
    \/ /\ part = "probe" /\ Probe!Init
       /\ ValidationOff /\ ObservationsOff /\ CoverageOff /\ EvidenceOff /\ RecordsOff
       /\ candidates = 0 /\ runs = 0 /\ attempts = 0 /\ now = 0 /\ changes = 0
       /\ faults = 0 /\ run = 0
    \/ /\ part = "coverage" /\ Coverage!Init
       /\ ValidationOff /\ ObservationsOff /\ ProbeOff /\ EvidenceOff /\ RecordsOff
       /\ candidates = 0 /\ runs = 0 /\ attempts = 0 /\ now = 0 /\ faults = 0
    \/ /\ part = "evidence" /\ Evidence!Init
       /\ ValidationOff /\ ObservationsOff /\ ProbeOff /\ CoverageOff /\ RecordsOff
       /\ candidates = 0 /\ runs = 0 /\ now = 0 /\ changes = 0
    \/ /\ \/ part = "records" /\ Records!Init
          \/ part = "reports" /\ Reports!Init
       /\ ValidationOff /\ ObservationsOff /\ ProbeOff /\ CoverageOff /\ EvidenceOff
       /\ faults = 0 /\ run = 0

Next ==
    /\ part' = part
    /\ \/ /\ part = "validation" /\ Validation!Next
          /\ UNCHANGED <<observationVars, probeVars, coverageVars, evidenceVars, recordVars,
                         attempts, now, faults, run>>
       \/ /\ part = "observations" /\ Observations!Next
          /\ UNCHANGED <<validationVars, probeVars, coverageVars, evidenceVars, recordVars,
                         candidates, runs, attempts, changes, run>>
       \/ /\ part = "probe" /\ Probe!Next
          /\ UNCHANGED <<validationVars, observationVars, coverageVars, evidenceVars,
                         recordVars, candidates, runs, attempts, now, changes, faults, run>>
       \/ /\ part = "coverage" /\ Coverage!Next
          /\ UNCHANGED <<validationVars, observationVars, probeVars, evidenceVars, recordVars,
                         candidates, runs, attempts, now, faults>>
       \/ /\ part = "evidence" /\ Evidence!Next
          /\ UNCHANGED <<validationVars, observationVars, probeVars, coverageVars, recordVars,
                         candidates, runs, now, changes>>
       \/ /\ \/ part = "records" /\ Records!Next
             \/ part = "reports" /\ Reports!Next
          /\ UNCHANGED <<validationVars, observationVars, probeVars, coverageVars,
                         evidenceVars, faults, run>>

Spec == Init /\ [][Next]_vars

\* Domains and connections are interchangeable.
Symmetry == Permutations(Domains) \cup Permutations(Conns)

-----------------------------------------------------------------------------
(* However often the process crashes and its settings change, validations    *)
(* never exceed their concurrency and their circuit, and a stored verdict is *)
(* about the scope the candidate proposes.                                   *)
ValidationBounded ==
    part = "validation" => Validation!WorkBounded /\ Validation!VerdictFits

(* A connection seen by the log and by the snapshots, late, twice, or over   *)
(* midnight is counted once, and the parser is only called broken over       *)
(* connections it could have read; and a domain is confirmed exactly when    *)
(* spaced, diverse failures and sound successes are in the window of the     *)
(* decision.                                                                 *)
EvidenceHonest ==
    /\ part = "observations" => Observations!CountsHonest /\ Observations!DriftEarned
    /\ part = "evidence" => Evidence!EvidenceEarned

(* A probe that ends by whatever comes first blames the destination only for *)
(* what it was given the time to do over a proved route, and leaves nothing  *)
(* open.                                                                     *)
ProbeSound ==
    part = "probe" =>
       /\ Probe!BlamesDestination /\ Probe!RouteProved /\ Probe!NothingLeft
       /\ Probe!EvidenceAccepted

(* A domain is only decided on as uncovered when, at that moment, no rule    *)
(* file of a channel other than Default covers it, although files are        *)
(* replaced while they are read. The lists that only Default has are not     *)
(* looked at: a domain they cover is decided on all the same.                *)
DecisionGrounded == part = "coverage" => Coverage!UncoveredNow

(* Nothing is kept for longer than it should be: a run that was interrupted  *)
(* is ended within its lease, a pulse and one run of the scheduler; the      *)
(* retention takes what is past its time, and nothing a validation on its    *)
(* way or a candidate in sight still stands on; and the two reports, which   *)
(* count and list the same records by different queries, agree on each.      *)
RecordsKept ==
    /\ part = "validation" => Validation!RunsEnd
    /\ part = "records" => Records!RetentionExact /\ Records!ReportsAgree
    /\ part = "reports" => Reports!ReportsAgree
=============================================================================
