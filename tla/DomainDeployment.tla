-------------------------- MODULE DomainDeployment --------------------------
(* Who may use the managed rule provider, and when domain intelligence may  *)
(* run: the coordinator that suspends collection around every configuration *)
(* apply (modules/domain-intelligence/runtime.ts, instance.ts), the         *)
(* controller that proves the provider live in the engine                   *)
(* (deployment-controller.ts, activation.ts), the provisioner that          *)
(* publishes the capability (provisioning.ts), the lifecycle that retries   *)
(* a failed start (deployment-lifecycle.ts) and their wiring                *)
(* (logs/singleton.ts, deployment-production.ts,                            *)
(* apply-operation-production.ts).                                          *)
(* The transitions wait in ops, the tail of the coordinator. An epoch or a  *)
(* generation is only ever compared with the current one: a transition      *)
(* keeps whether its own is still current (gen, act, epoch). The worker     *)
(* runs reconciliations, settings changes and rule operations one at a      *)
(* time, so that one reconciliation never supersedes another. What an apply *)
(* does to the files is in ConfigApply, a rule operation in DomainRuleOps.  *)
EXTENDS Integers, Sequences

CONSTANTS
    Groups,     \* proxy groups the managed rules may be routed to
    NoGroup,    \* no target channel, or one without nodes
    Unknown,    \* no expected rule count
    MaxOps,     \* bound on the transitions waiting or in progress
    MaxRules,   \* bound on the rules in the file
    MaxChanges  \* bound on edits, failures and reconnections

VARIABLES
    mode,        \* DOMAIN_RULES_MODE
    settings,    \* [enabled, target]: the settings and channels in the database
    store,       \* [rules, known, writing]: rules in the file, its marker, a write in progress
    engine,      \* [rules, route]: the rules loaded and the group they are routed to
    provisioned, \* storeProvisioned
    expected,    \* expectedProviderRuleCount
    active,      \* managedProviderActive
    capability,  \* whether the capability says apply is available
    ops,
    life,        \* DomainIntelligenceRuntimeLifecycle.state
    coordinator, \* [recovery, verified, stopped]
    recovery,    \* recoveryNeeded of the deployment lifecycle
    first,       \* the handler of the first connection to the engine
    changes

controller == <<provisioned, expected, active, capability>>
world      == <<mode, settings, store>>
vars == <<mode, settings, store, engine, provisioned, expected, active, capability,
          ops, life, coordinator, recovery, first, changes>>

Change == changes < MaxChanges /\ changes' = changes + 1
Steady == changes' = changes
\* A failure: the boot, which happens once, may fail beyond the bound.
Fault  == IF first = "no" THEN Steady ELSE Change
op     == Head(ops)
Wants  == settings.enabled

\* Transitions whose generation, activation or capability epoch ended.
Unfenced(s)  == s   \* mutant: a later call does not overtake the ones that wait
StaleGen(s)  == [i \in DOMAIN s |-> [s[i] EXCEPT !.gen = FALSE]]
StaleAct(s)  == [i \in DOMAIN s |-> [s[i] EXCEPT !.act = FALSE]]
StaleCap(s)  ==
    IF mode = "report" THEN s ELSE [i \in DOMAIN s |-> [s[i] EXCEPT !.epoch = FALSE]]
StaleBoth(s) == StaleAct(StaleCap(s))

\* The transition in progress keeps its own epochs.
KeepHead(s, o) == <<o>> \o Tail(s)

-----------------------------------------------------------------------------
(* The synchronous part of a call: collection is suspended and everything   *)
(* that was proved before is withdrawn.                                     *)

NewOp(kind) ==
    [kind |-> kind, pc |-> "wait", gen |-> TRUE, act |-> TRUE, epoch |-> TRUE,
     suspended |-> IF life = "disabled" /\ ~coordinator.stopped THEN "yes" ELSE "waiting",
     expects |-> Unknown, target |-> NoGroup, saw |-> 0, managed |-> FALSE,
     forced |-> FALSE, applied |-> FALSE, sure |-> FALSE]

\* runConfigApply and reconcile of the coordinator, over the transitions s.
Enter(s, kind) ==
    /\ Len(ops) < MaxOps
    /\ ops' = Append(StaleGen(s), NewOp(kind))
    /\ coordinator' = [coordinator EXCEPT !.recovery = FALSE]
    /\ life' = IF life = "disabled" /\ ~coordinator.stopped THEN life ELSE "stopping"

WorkerFree ==
    /\ ~store.writing
    /\ \A i \in DOMAIN ops : ops[i].kind = "apply"

CallReconcile ==
    /\ WorkerFree /\ ~coordinator.stopped
    /\ Enter(StaleBoth(ops), "reconcile")
    /\ active' = FALSE
    /\ capability' = FALSE
    /\ recovery' = FALSE

\* An ordinary change of channels or sources, saved and then applied.
CallApply ==
    /\ Change
    /\ \E target \in Groups \cup {NoGroup} : settings' = [settings EXCEPT !.target = target]
    /\ Enter(StaleBoth(ops), "apply")
    /\ active' = FALSE
    /\ UNCHANGED <<mode, store, engine, provisioned, expected, capability, recovery, first>>

CallSettings ==
    /\ Change /\ WorkerFree
    /\ \E enabled \in BOOLEAN, target \in Groups \cup {NoGroup} :
         settings' = [enabled |-> enabled, target |-> target]
    /\ Enter(ops, "settings")
    /\ UNCHANGED <<mode, store, engine, controller, recovery, first>>

\* commitPrepared withdraws the proof, then writes the file.
Invalidated ==
    /\ active' = FALSE
    /\ capability' = FALSE
    /\ ops' = StaleBoth(ops)

WriteRule ==
    /\ WorkerFree /\ mode = "apply" /\ capability /\ ~coordinator.stopped
    /\ Change
    /\ Invalidated
    /\ \/ store.rules < MaxRules
          /\ store' = [store EXCEPT !.rules = @ + 1, !.writing = TRUE, !.known = TRUE]
       \/ UNCHANGED store      \* the write fails
    /\ UNCHANGED <<mode, settings, engine, provisioned, expected, life, coordinator,
                   recovery, first>>

CallActivate ==
    /\ store.writing
    /\ store' = [store EXCEPT !.writing = FALSE]
    /\ expected' = store.rules
    /\ Enter(StaleBoth(ops), "rules")
    /\ active' = FALSE
    /\ UNCHANGED <<mode, settings, engine, provisioned, capability, recovery, first>>
    /\ Steady

Reconnect ==
    /\ first = "done"
    /\ Change
    /\ CallReconcile
    /\ UNCHANGED <<world, engine, provisioned, expected, first>>

\* onFirstConnect: the deployment first, then the runtime; a deployment that
\* fails ends the handler.
FirstConnect ==
    /\ first = "no" /\ WorkerFree /\ ~coordinator.stopped
    /\ \/ recovery /\ CallReconcile /\ first' = "deployment"
       \/ ~recovery /\ first' = "runtime"
          /\ UNCHANGED <<active, capability, ops, life, coordinator, recovery>>
    /\ UNCHANGED <<world, engine, provisioned, expected>> /\ Steady

FirstRuntime ==
    /\ first = "runtime" /\ ops = <<>>
    /\ first' = "done"
    /\ IF coordinator.recovery /\ ~coordinator.stopped THEN Enter(ops, "settings")
       ELSE UNCHANGED <<ops, life, coordinator>>
    /\ UNCHANGED <<world, engine, controller, recovery>> /\ Steady

AfterReconcile(ok) ==
    IF first # "deployment" THEN first ELSE IF ok THEN "runtime" ELSE "done"

\* setEnabled(false): every stop asked for ends together.
SuspensionEnds ==
    /\ life = "stopping"
    /\ \E ok \in BOOLEAN :
         /\ IF ok THEN Steady ELSE Fault
         /\ life' = IF ok THEN "disabled" ELSE "failed"
         /\ ops' = [i \in DOMAIN ops |->
                      IF ops[i].suspended # "waiting" THEN ops[i]
                      ELSE [ops[i] EXCEPT !.suspended = IF ok THEN "yes" ELSE "failed"]]
    /\ UNCHANGED <<world, engine, controller, coordinator, recovery, first>>

Shutdown ==
    /\ ~coordinator.stopped
    /\ Change
    /\ coordinator' = [recovery |-> FALSE, verified |-> coordinator.verified, stopped |-> TRUE]
    /\ recovery' = FALSE
    /\ ops' = StaleGen(ops)
    /\ life' = "stopping"
    /\ UNCHANGED <<world, engine, controller, first>>

-----------------------------------------------------------------------------
(* The end of a transition.                                                  *)

\* requiresRecovery of the deployment lifecycle.
Requires(applied, verified) ==
    \/ ~applied \/ ~verified
    \/ provisioned' /\ ~active'
    \/ mode = "apply" /\ ~capability'

\* A reconciliation that throws is to be retried.
Retried(o) == IF o.kind = "reconcile" THEN ~coordinator.stopped ELSE recovery

\* The transition throws: what it had reserved is revoked when still current,
\* and a runtime that should run is remembered.
Throws(o, started) ==
    LET mine == o.epoch /\ o.kind # "reconcile"
    IN  /\ ops' = IF mine THEN Tail(StaleCap(ops)) ELSE Tail(ops)
        /\ capability' = (capability /\ ~mine /\ o.kind # "rules")
        /\ coordinator' = IF started /\ o.gen THEN [coordinator EXCEPT !.recovery = Wants]
                          ELSE coordinator
        /\ recovery' = Retried(o)
        /\ first' = IF o.kind = "reconcile" THEN AfterReconcile(FALSE) ELSE first

\* finishTransition.
Finishes(o, applied, verified, sure) ==
    LET current   == o.gen /\ ~coordinator.stopped
        effective == current /\ applied /\ (Wants => settings.target # NoGroup /\ verified)
        enables   == effective /\ Wants
        blocked   == enables /\ life # "disabled"
    IN  /\ coordinator' = [coordinator EXCEPT
             !.verified = verified,
             !.recovery = IF current THEN Wants /\ (~effective \/ blocked) ELSE @]
        /\ life' = IF ~enables THEN life ELSE IF blocked THEN "stopping" ELSE "enabled"
        /\ recovery' = IF o.kind = "reconcile" /\ ~coordinator.stopped
                       THEN Requires(applied, sure) ELSE recovery
        /\ first' = IF o.kind = "reconcile" THEN AfterReconcile(TRUE) ELSE first

\* applyExternal after the apply of o: a result that proved nothing is applied
\* again by force before the runtime may resume.
Settled(o, applied, sure) ==
    LET before   == coordinator.verified
        verified == IF ~applied \/ o.forced THEN applied /\ sure ELSE sure \/ before
    IN  IF o.kind = "settings" THEN applied /\ sure ELSE verified

Again(o, applied, sure) ==
    /\ o.kind \in {"apply", "rules"} /\ ~o.forced
    /\ applied /\ ~sure /\ ~coordinator.verified /\ Wants

-----------------------------------------------------------------------------
(* applyManagedConfig: resolve the target, apply, prove the provider.        *)

Target(o) == IF provisioned' THEN settings.target ELSE NoGroup

\* The direct apply of o starts.
Applying(o, pc) ==
    [o EXCEPT !.pc = pc, !.target = Target(o), !.managed = provisioned', !.saw = store.rules]

\* Start(o): o applies, or throws because a store known to exist is not provisioned.
StartOrThrow(o, s, started) ==
    IF ~provisioned' /\ store.known
    THEN /\ ops' = Tail(s)
         /\ capability' = (capability /\ o.kind = "reconcile")
         /\ coordinator' = [coordinator EXCEPT
              !.verified = @ /\ o.kind # "settings",
              !.recovery = IF o.gen THEN Wants ELSE @]
         /\ recovery' = Retried(o)
         /\ first' = IF o.kind = "reconcile" THEN AfterReconcile(FALSE) ELSE first
    ELSE /\ ops' = KeepHead(s, Applying(o, "apply"))
         /\ UNCHANGED <<capability, coordinator, recovery, first>>

Turn == ops # <<>> /\ op.pc = "wait" /\ op.suspended # "waiting"

\* The suspension failed, or the process is shutting down.
Refused ==
    /\ Turn
    /\ op.suspended = "failed" \/ coordinator.stopped
    /\ IF op.kind = "settings"
       THEN ops' = Tail(ops) /\ UNCHANGED <<capability, coordinator, recovery, first>>
       ELSE Throws(op, FALSE)
    /\ UNCHANGED <<world, engine, provisioned, expected, active, life>> /\ Steady

Ready == Turn /\ op.suspended = "yes" /\ ~coordinator.stopped

BeginApply ==
    /\ Ready /\ op.kind \in {"apply", "rules"}
    /\ UNCHANGED provisioned
    /\ StartOrThrow([op EXCEPT !.expects = expected], ops, TRUE)
    /\ UNCHANGED <<world, engine, expected, active, life>> /\ Steady

\* applyCurrentConfig reserves its own epochs when its turn comes.
BeginSettings ==
    /\ Ready /\ op.kind = "settings"
    /\ active' = FALSE
    /\ UNCHANGED provisioned
    /\ StartOrThrow([op EXCEPT !.expects = expected, !.act = TRUE, !.epoch = TRUE],
                    StaleBoth(ops), TRUE)
    /\ UNCHANGED <<world, engine, expected, life>> /\ Steady

\* A reconciliation that another change has overtaken applies nothing.
BeginReconcile ==
    /\ Ready /\ op.kind = "reconcile"
    /\ IF ~op.act
       THEN /\ ops' = Tail(ops)
            /\ UNCHANGED controller
            /\ Finishes(op, FALSE, FALSE, FALSE)
       ELSE /\ UNCHANGED <<active, life>>
            /\ \/ /\ mode = "apply"
                  /\ provisioned' = FALSE /\ expected' = Unknown /\ capability' = FALSE
                  /\ ops' = KeepHead(StaleCap(ops), [op EXCEPT !.pc = "provision", !.epoch = TRUE])
                  /\ UNCHANGED <<coordinator, recovery, first>>
               \/ /\ mode = "report"
                  /\ provisioned' = store.known
                  /\ expected' = IF store.known THEN store.rules ELSE Unknown
                  /\ StartOrThrow(op, ops, TRUE)
    /\ UNCHANGED <<world, engine>> /\ Steady

\* provisionStore: creates or attests the file. An overtaken one goes on
\* without publishing anything.
Provision ==
    /\ ops # <<>> /\ op.pc = "provision"
    /\ \E ok \in BOOLEAN :
         IF ok
         THEN /\ Steady
              /\ provisioned' = TRUE /\ expected' = store.rules
              /\ store' = [store EXCEPT !.known = TRUE]
              /\ ops' = KeepHead(ops, Applying([op EXCEPT !.expects =
                                        IF op.epoch THEN store.rules ELSE Unknown], "apply"))
              /\ UNCHANGED <<capability, coordinator, recovery, first>>
         ELSE /\ Fault
              /\ UNCHANGED <<provisioned, expected, store>>
              /\ StartOrThrow(op, ops, TRUE)
    /\ UNCHANGED <<mode, settings, engine, active, life>>

-----------------------------------------------------------------------------
\* The apply ended with result [applied, sure] in controller state active'.
Conclude(o, s, applied, sure) ==
    IF Again(o, applied, sure)
    THEN /\ ops' = KeepHead(s, [Applying(o, "apply") EXCEPT !.forced = TRUE,
                                    !.applied = FALSE, !.sure = FALSE, !.expects = expected])
         /\ UNCHANGED <<coordinator, recovery, first, life>>
    ELSE /\ ops' = Tail(s)
         /\ LET forcedFails == o.forced /\ ~(applied /\ sure)
            IN  Finishes(o, applied /\ ~forcedFails, Settled(o, applied, sure),
                         Settled(o, applied, sure))

Publishes(o) == o.kind # "reconcile"

\* A failed transition revokes the capability only while its epoch is current.
NoneRevoked(o, revokes) == FALSE   \* mutant: a failure leaves the capability as it is
Revokes(o, revokes)     == revokes /\ o.epoch

\* Without a proof: the provider is inactive, and the capability with it.
Unproved(o, revokes, applied, sure) ==
    LET mine == Revokes(o, revokes)
    IN  /\ active' = IF o.act \/ Again(o, applied, sure) THEN FALSE ELSE active
        /\ capability' = (capability /\ ~mine)
        /\ Conclude(o, IF mine THEN StaleCap(ops) ELSE ops, applied, sure)

Loads(o) == {[rules |-> n, route |-> o.target] : n \in {o.saw, store.rules}}

ApplyEnds ==
    /\ ops # <<>> /\ op.pc = "apply"
    /\ UNCHANGED <<provisioned, expected>>
    /\ \E sure \in BOOLEAN :
         \* reloaded, or a file that has not changed
         /\ IF sure THEN engine' \in Loads(op)
            ELSE op.kind = "apply" /\ ~op.forced /\ engine.route = op.target /\ UNCHANGED engine
         /\ IF op.target # NoGroup
            THEN /\ ops' = KeepHead(ops, [op EXCEPT !.pc = "prove", !.applied = TRUE, !.sure = sure])
                 /\ UNCHANGED <<active, capability, life, coordinator, recovery, first>>
            ELSE Unproved(op, Publishes(op) /\ op.managed, TRUE, sure)
    /\ UNCHANGED world /\ Steady

\* The engine refuses, or takes the file and the answer is lost.
ApplyFails ==
    /\ ops # <<>> /\ op.pc = "apply"
    /\ Fault
    /\ UNCHANGED <<provisioned, expected>>
    /\ engine' \in {engine} \cup Loads(op)
    /\ \/ Unproved(op, Publishes(op) /\ op.managed, FALSE, FALSE)
       \/ Throws(op, TRUE) /\ UNCHANGED <<active, life>>
    /\ UNCHANGED world

\* verifyManagedDomainRuleActivation: the provider is loaded and routed first.
\* The count of its rules is all that tells one file from another.
Proved(o) ==
    /\ engine.route = o.target
    /\ o.expects # Unknown => engine.rules = o.expects

Prove ==
    /\ ops # <<>> /\ op.pc = "prove"
    /\ Proved(op)
    /\ UNCHANGED <<provisioned, expected>>
    /\ LET current == op.act /\ (mode = "report" \/ op.epoch)
       IN  /\ active' = IF Again(op, op.applied, op.sure) THEN FALSE ELSE active \/ current
           /\ capability' = IF mode = "report" THEN capability ELSE capability \/ current
           /\ Conclude(op, IF current /\ Publishes(op)
                           THEN KeepHead(StaleCap(ops), op) ELSE ops, op.applied, op.sure)
    /\ UNCHANGED <<world, engine>> /\ Steady

ProofFails ==
    /\ ops # <<>> /\ op.pc = "prove"
    /\ IF Proved(op) THEN Fault ELSE Steady
    /\ UNCHANGED <<provisioned, expected>>
    /\ Unproved(op, Publishes(op), op.applied, op.sure)
    /\ UNCHANGED <<world, engine>>

-----------------------------------------------------------------------------
\* The boot: the process knows nothing yet and reconciles first.
Init ==
    /\ mode \in {"apply", "report"}
    /\ settings \in [enabled : BOOLEAN, target : Groups \cup {NoGroup}]
    /\ store \in [rules : {1}, known : BOOLEAN, writing : {FALSE}]
    /\ engine \in [rules : {0, 1}, route : Groups \cup {NoGroup}]
    /\ provisioned = FALSE /\ expected = Unknown
    /\ active = FALSE /\ capability = FALSE
    /\ life = "stopping"
    /\ ops = <<[kind |-> "reconcile", pc |-> "wait", gen |-> TRUE, act |-> TRUE,
                epoch |-> TRUE, suspended |-> "waiting", expects |-> Unknown,
                target |-> NoGroup, saw |-> 0, managed |-> FALSE, forced |-> FALSE,
                applied |-> FALSE, sure |-> FALSE]>>
    /\ coordinator = [recovery |-> FALSE, verified |-> FALSE, stopped |-> FALSE]
    /\ recovery = FALSE /\ first = "no" /\ changes = 0

Steps ==
    \/ Refused \/ BeginApply \/ BeginSettings \/ BeginReconcile \/ Provision
    \/ ApplyEnds \/ Prove \/ ProofFails \/ SuspensionEnds \/ CallActivate

Next ==
    \/ CallApply \/ CallSettings \/ WriteRule \/ Reconnect \/ Shutdown
    \/ FirstConnect \/ FirstRuntime \/ ApplyFails \/ Steps

Spec     == Init /\ [][Next]_vars
LiveSpec == Spec /\ WF_vars(Steps) /\ WF_vars(FirstConnect) /\ WF_vars(FirstRuntime)

-----------------------------------------------------------------------------
TypeOK ==
    /\ mode \in {"apply", "report"} /\ life \in {"stopping", "failed", "disabled", "enabled"}
    /\ store.rules \in 1..MaxRules /\ engine.rules \in 0..MaxRules
    /\ settings.target \in Groups \cup {NoGroup} /\ engine.route \in Groups \cup {NoGroup}
    /\ {provisioned, active, capability, recovery} \subseteq BOOLEAN
    /\ first \in {"no", "deployment", "runtime", "done"}
    /\ Len(ops) <= MaxOps /\ changes \in 0..MaxChanges

(* The provider is only called active while the engine holds the rules that  *)
(* are in the file and routes them to the chosen channel, whatever overtakes *)
(* a proof while it is being made. A change of the settings alone withdraws  *)
(* the proof when its turn comes, and not at all when collection could not   *)
(* be suspended for it; and until the activation of a written rule is asked  *)
(* for, another apply proves the rules that were there before the write.     *)
ActiveIsLive ==
    active => /\ engine.rules = store.rules \/ store.writing
              /\ \/ engine.route = settings.target
                 \/ \E i \in DOMAIN ops : ops[i].kind = "settings" /\ ops[i].pc = "wait"
                 \/ life = "failed" \/ coordinator.stopped

(* At rest the capability is only offered over rules the engine has loaded:  *)
(* what a transition revokes or publishes late, after another has overtaken  *)
(* it, never outlives it.                                                    *)
CapabilityProved ==
    capability /\ ops = <<>> /\ ~store.writing =>
       provisioned /\ engine.rules = store.rules

(* Collection and validation only run between transitions, for settings that *)
(* ask for them, over a route the engine was seen to take.                   *)
RunsOnlyVerified ==
    life = "enabled" =>
       ops = <<>> /\ settings.enabled /\ settings.target # NoGroup /\ coordinator.verified

(* A boot that failed in any way, because the engine was not there, the file *)
(* could not be provisioned or collection did not stop, is repaired by the   *)
(* first connection to the engine, unless something else changes meanwhile:  *)
(* collection runs when the settings ask for it.                             *)
Resumed ==
    \/ changes > 0
    \/ ops = <<>> /\ (settings.enabled /\ settings.target # NoGroup => life = "enabled")
FirstConnectResumes == first = "no" ~> Resumed
=============================================================================
