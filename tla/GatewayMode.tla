------------------------------ MODULE GatewayMode ------------------------------
(* The connection mode of the panel (modules/gateway/service.ts, settings.ts, *)
(* readiness.ts, network-bootstrap.ts): proxy or TUN, and the resolver of the *)
(* home network. A change is staged in its turn in the queue of applies, and  *)
(* undone by a second apply when anything about it fails. ConfigApply models  *)
(* what an apply does to the files and the credentials; here it is its steps. *)
EXTENDS Integers, Sequences

CONSTANTS
    Requests,   \* changes of the mode in flight
    Own, Home,  \* resolvers: the panel's own address, one in the home network
    None,
    MaxChanges, \* bound: changes asked for
    MaxFaults   \* bound: lost replies, engine restarts, crashes, other faults

\* A call is not the absence of one, and the panel's address is one.
ASSUME NoneAssumption == None \notin Requests /\ None # Own

VARIABLES
    form,       \* what is persisted: "basic" nothing, "legacy", "current"
    settings,   \* internal.networkSettings: [mode, dns]
    state,      \* internal.gatewayApplyState
    pending,    \* an apply is in the journal
    file,       \* the accepted configuration, None before the first
    engine,     \* what the engine runs, None when it is down
    queue,      \* applies that wait for their turn
    job,        \* the apply that has it
    calls,      \* what each request is doing
    password,   \* ADMIN_PASSWORD is set
    site,       \* [local: one network namespace, tun: the kernel allows it,
                \* answers: the home resolver works]
    agreed,     \* history: the settings the administrator knows of, from the
                \* answer to a change that overlapped with no other, or None
    changes, faults

vars == <<form, settings, state, pending, file, engine, queue, job, calls, password, site,
          agreed, changes, faults>>
persisted == <<form, settings, state, pending, file>>
outside   == <<password, site>>

Modes    == {"proxy", "tun"}
Settings == [mode : Modes, dns : {None, Own, Home}]
Default  == [mode |-> "proxy", dns |-> None]

\* A configuration: the settings it was generated from, and whether they were
\* saved, without which it has no listener and no TUN section.
Generated(s, prepared) == [mode |-> s.mode, dns |-> s.dns, prepared |-> prepared]
Prepared == form # "basic"
Tuns(c)  == c # None /\ c.mode = "tun"

Free == [kind |-> "none", of |-> None, pc |-> "free", candidate |-> None, undo |-> None,
         before |-> FALSE]
Idle == [pc |-> "idle", next |-> Default, previous |-> Default]
AtRest == job = Free /\ queue = <<>> /\ \A r \in Requests : calls[r].pc = "idle"

-----------------------------------------------------------------------------
(* configureGateway.                                                         *)

\* initializeNetworkSettings: the legacy keys become the settings, in one
\* transaction with the channels, which RoutingConfig models.
Initialized == form' = "current"

\* Mutant: what a change replaces is not kept.
ReadsNext(r, next) == next

\* What a failure restores is read before the change waits for its turn.
Previous(r, next) == settings

ConfigureGateway(r) ==
    /\ calls[r].pc = "idle" /\ changes < MaxChanges /\ changes' = changes + 1
    /\ \E next \in Settings :
         /\ next.mode = "tun" => password                      \* else BAD_REQUEST
         /\ calls' = [calls EXCEPT ![r] = [pc |-> "applies", next |-> next,
                                           previous |-> Previous(r, next)]]
    /\ Initialized
    /\ queue' = Append(queue, [kind |-> "stage", of |-> r])
    /\ agreed' = IF \E o \in Requests : calls[o].pc # "idle" THEN None ELSE settings
    /\ UNCHANGED <<settings, state, pending, file, engine, job, faults>> /\ UNCHANGED outside

\* The answer of the apply: more to prove, done, or undone.
Answer(r, applied) ==
    LET call == calls[r]
        tested == call.next.dns # None /\ call.next.dns # call.previous.dns
    IN  CASE call.pc = "undoes"             -> "failed"
          [] call.pc # "undoes" /\ ~applied -> "fails"
          [] OTHER                          -> IF tested THEN "tests" ELSE "done"

Told(r, verdict) ==
    agreed' = IF agreed # None /\ verdict = "done" THEN calls[r].next ELSE agreed

Ended(r, verdict) ==
    /\ calls' = IF verdict \in {"tests", "fails"} THEN [calls EXCEPT ![r].pc = verdict]
                ELSE [calls EXCEPT ![r] = Idle]
    /\ Told(r, verdict)

\* A fresh name asks the resolver that was chosen, past every cache.
TestsResolver(r) ==
    /\ calls[r].pc = "tests"
    /\ Ended(r, IF engine # None /\ engine.dns = Home /\ site.answers THEN "done" ELSE "fails")
    /\ UNCHANGED <<persisted, engine, queue, job, changes, faults>> /\ UNCHANGED outside

\* The catch block: the settings are written at once, the apply waits its turn.
Restores(r) ==
    /\ calls[r].pc = "fails"
    /\ settings' = calls[r].previous
    /\ calls' = [calls EXCEPT ![r].pc = "undoes"]
    /\ queue' = Append(queue, [kind |-> "force", of |-> r])
    /\ UNCHANGED <<form, state, pending, file, engine, job, agreed, changes, faults>>
    /\ UNCHANGED outside

-----------------------------------------------------------------------------
(* One apply (nodes/service.ts applyConfigSerialized).                       *)

\* assertIndependentLocalDns: the listener never asks itself.
Independent(s) == s.dns # Own

Ends(applied) ==
    /\ job' = Free
    /\ IF job.of = None THEN UNCHANGED <<calls, agreed>> ELSE Ended(job.of, Answer(job.of, applied))

Takes ==
    /\ job = Free /\ queue # <<>>
    /\ job' = [Free EXCEPT !.kind = Head(queue).kind, !.of = Head(queue).of, !.pc = "stages"]
    /\ queue' = Tail(queue)
    /\ UNCHANGED <<persisted, engine, calls, agreed, changes, faults>> /\ UNCHANGED outside

\* The journal and the staged settings are one transaction, that a resolver
\* which is the panel itself undoes; the configuration is generated from what
\* is saved then.
Stages ==
    LET next == IF job.kind = "stage" THEN calls[job.of].next ELSE settings IN
    /\ job.pc = "stages"
    /\ IF job.kind = "stage" /\ ~Independent(next)
       THEN Ends(FALSE) /\ UNCHANGED <<settings, pending>>
       ELSE /\ settings' = next /\ pending' = TRUE
            /\ job' = [job EXCEPT !.pc = "checks", !.undo = settings, !.before = pending,
                                  !.candidate = Generated(next, Prepared)]
            /\ UNCHANGED <<calls, agreed>>
    /\ UNCHANGED <<form, state, file, engine, queue, changes, faults>> /\ UNCHANGED outside

Failed    == state' = (IF job.candidate.prepared THEN "failed" ELSE state)
Unchanged ==
    /\ job.kind = "other" /\ ~job.before /\ file = job.candidate
    /\ job.candidate.prepared => state = "applied"
Safe ==
    job.candidate.prepared =>
       (job.candidate.mode = "tun" => password) /\ Independent(job.candidate)

\* What fails before the engine is asked is undone at once, when there is
\* something staged: a missing password, a resolver, a list that cannot be read.
Checks ==
    /\ job.pc = "checks"
    /\ \/ /\ Safe /\ Unchanged /\ pending' = FALSE /\ Ends(TRUE)
          /\ UNCHANGED <<settings, state, faults>>
       \/ /\ Safe /\ ~Unchanged /\ job' = [job EXCEPT !.pc = "reloads"]
          /\ UNCHANGED <<settings, state, pending, calls, agreed, faults>>
       \/ /\ IF Safe THEN faults < MaxFaults /\ faults' = faults + 1 ELSE faults' = faults
          /\ Failed /\ Ends(FALSE)
          /\ IF job.kind = "stage"
             THEN settings' = job.undo /\ pending' = job.before
             ELSE UNCHANGED <<settings, pending>>
    /\ UNCHANGED <<form, file, engine, queue, changes>> /\ UNCHANGED outside

\* The engine takes the candidate, refuses it, or its reply is lost.
Reloads ==
    /\ job.pc = "reloads"
    /\ \/ /\ engine # None /\ engine' = job.candidate
          /\ job' = [job EXCEPT !.pc = IF job.candidate.prepared THEN "runtime" ELSE "commits"]
          /\ UNCHANGED <<state, calls, agreed, faults>>
       \/ /\ engine = None \/ faults < MaxFaults
          /\ faults' = IF engine = None THEN faults ELSE faults + 1
          /\ engine' \in {engine, IF engine = None THEN None ELSE job.candidate}
          /\ Failed /\ Ends(FALSE)
    /\ UNCHANGED <<form, settings, pending, file, queue, changes>> /\ UNCHANGED outside

\* A failed verification gives the engine the accepted file back, if it can.
GivesBack ==
    /\ Failed /\ Ends(FALSE)
    /\ engine' \in {engine, IF engine # None /\ file # None THEN file ELSE engine}

\* What the kernel shows of the TUN device.
Device == Tuns(engine) /\ site.tun

\* assertGatewayNetworkActivated: the runtime, then the interfaces.
Runtime(c) ==
    /\ engine # None /\ engine.mode = c.mode /\ engine.prepared
    /\ c.mode = "tun" => site.local /\ Device
    /\ c.mode = "proxy" /\ site.local => ~Device

VerifiesRuntime ==
    /\ job.pc = "runtime"
    /\ IF Runtime(job.candidate)
       THEN job' = [job EXCEPT !.pc = "listener"] /\ UNCHANGED <<state, engine, calls, agreed>>
       ELSE GivesBack
    /\ UNCHANGED <<form, settings, pending, file, queue, changes, faults>> /\ UNCHANGED outside

\* The listeners answer over UDP and TCP with fake addresses.
VerifiesListener ==
    /\ job.pc = "listener"
    /\ IF engine # None /\ engine.prepared
       THEN job' = [job EXCEPT !.pc = "commits"] /\ UNCHANGED <<state, engine, calls, agreed>>
       ELSE GivesBack
    /\ UNCHANGED <<form, settings, pending, file, queue, changes, faults>> /\ UNCHANGED outside

Commits ==
    /\ job.pc = "commits"
    /\ file' = job.candidate /\ pending' = FALSE
    /\ state' = IF job.candidate.prepared THEN "applied" ELSE state
    /\ Ends(TRUE)
    /\ UNCHANGED <<form, settings, engine, queue, changes, faults>> /\ UNCHANGED outside

-----------------------------------------------------------------------------
(* The rest of the world.                                                    *)

Fault == faults < MaxFaults /\ faults' = faults + 1

\* Another change of channels, sources or settings.
OtherApply ==
    /\ Fault /\ queue' = Append(queue, [kind |-> "other", of |-> None])
    /\ UNCHANGED <<persisted, engine, job, calls, agreed, changes>> /\ UNCHANGED outside

EngineStops ==
    /\ Fault /\ engine # None /\ engine' = None
    /\ UNCHANGED <<persisted, queue, job, calls, agreed, changes>> /\ UNCHANGED outside

\* It starts with the file; the hub sees it again and forces an apply.
EngineStarts ==
    /\ engine = None /\ file # None /\ engine' = file
    /\ queue' = Append(queue, [kind |-> "force", of |-> None])
    /\ UNCHANGED <<persisted, job, calls, agreed, changes, faults>> /\ UNCHANGED outside

\* The process dies and starts again (validateGatewayStartup); its first
\* connection forces an apply.
Restarted ==
    /\ job' = Free /\ calls' = [r \in Requests |-> Idle]
    /\ queue' = <<[kind |-> "force", of |-> None]>>
    /\ agreed' = IF AtRest THEN agreed ELSE None

Crash ==
    /\ Fault /\ Restarted
    /\ UNCHANGED <<persisted, engine, changes>> /\ UNCHANGED outside

\* assertGatewaySecurity in bootstrapNetwork, for the settings and for the file.
Secured(p) == ~p => settings.mode # "tun" /\ ~Tuns(file)

\* The deployment is made anew, maybe without a password. bootstrapNetwork
\* runs before the engine: it migrates, refuses what is not safe, keeps an
\* accepted file, and writes one when there is none or only a basic one.
Redeploy(p) ==
    /\ Fault /\ Secured(p) /\ Independent(settings)
    /\ file # None /\ ~file.prepared => settings.mode = "proxy"
    /\ Restarted /\ Initialized
    /\ file' = IF file # None /\ file.prepared THEN file ELSE Generated(settings, TRUE)
    /\ engine' = file' /\ password' = p
    /\ UNCHANGED <<settings, state, pending, site, changes>>

\* The device can no longer be created, or the home resolver stops answering.
SiteChanges ==
    /\ Fault
    /\ site' \in {[site EXCEPT !.tun = ~@], [site EXCEPT !.answers = ~@]}
    /\ UNCHANGED <<persisted, engine, queue, job, calls, password, agreed, changes>>

Init ==
    /\ form \in {"basic", "legacy", "current"}
    /\ password \in BOOLEAN
    /\ settings \in {Default} \cup
          (IF form # "basic" /\ password THEN {[mode |-> "tun", dns |-> None]} ELSE {})
    /\ \/ file = None /\ settings = Default
       \/ file = Generated(settings, Prepared)
    /\ engine = file /\ pending = FALSE
    /\ state = IF Prepared /\ file # None THEN "applied" ELSE "unknown"
    /\ queue = <<>> /\ job = Free /\ calls = [r \in Requests |-> Idle]
    /\ site \in [local : BOOLEAN, tun : {TRUE}, answers : {TRUE}]
    /\ settings.mode = "tun" => site.local
    /\ agreed = settings /\ changes = 0 /\ faults = 0

Next ==
    \/ \E r \in Requests : ConfigureGateway(r) \/ TestsResolver(r) \/ Restores(r)
    \/ Takes \/ Stages \/ Checks \/ Reloads \/ VerifiesRuntime \/ VerifiesListener \/ Commits
    \/ OtherApply \/ EngineStops \/ EngineStarts \/ Crash \/ SiteChanges
    \/ \E p \in BOOLEAN : Redeploy(p)

Spec == Init /\ [][Next]_vars

-----------------------------------------------------------------------------
(* Once nothing is in flight and the last apply is recorded as applied, the  *)
(* settings the panel shows are those of the accepted file, which the engine *)
(* runs whenever it is up.                                                   *)
ModeAgrees ==
    AtRest /\ ~pending /\ state = "applied" =>
       /\ file = Generated(settings, TRUE)
       /\ engine \in {None, file}

(* Whatever a change met on its way, the administrator finds the settings    *)
(* the last change was acknowledged with, and those from before when it      *)
(* failed, as long as no two changes overlapped and no crash came between.   *)
ChangeKept == AtRest /\ agreed # None => settings = agreed

(* The engine never captures the network of a panel without a password, and  *)
(* the accepted file never makes its resolver ask itself.                    *)
TunGuarded ==
    /\ Tuns(engine) => password
    /\ file # None => file.dns # Own
=============================================================================
