--------------------------- MODULE ChannelControl ---------------------------
(***************************************************************************)
(* Channel control (modules/channels/controller.ts, registry.ts): on every *)
(* poll of the engine the registry ticks one controller per live channel,  *)
(* and the controller selects a node in the channel's engine group as the  *)
(* channel's policy says. A tick works on the rows and on the view read at *)
(* the start of its run, and awaits the engine several times.              *)
(*                                                                         *)
(* LiveHub.start polls at once and arms the first timer, so that the first *)
(* poll and those of the loop may overlap: Pollers holds one or both.      *)
(*                                                                         *)
(* Time is abstracted to whether a channel's check interval, or its hold   *)
(* window, has passed. Latencies are abstracted to which nodes answer: the *)
(* order in which nodes that answer are preferred is left open. The        *)
(* decision log and the reason kept with the row decide nothing and are    *)
(* left out, and so is ChannelBox: it is refreshed from the run's rows just *)
(* before each tick, so that a tick always reads the policy of its run.    *)
(***************************************************************************)
EXTENDS Naturals, FiniteSets

CONSTANTS
    Channels, DefaultChannel, Nodes,
    Pollers, Loop,   \* polls that may be in flight; Loop is the one that repeats
    Policies,        \* the policies an administrator sets
    NoPolicy, NoNode, NoController,
    Threshold,       \* failureThreshold of a sticky policy
    MaxEdits,        \* bound: changes of channel rows in a behaviour
    MaxFaults        \* bound: nodes that change health, failed engine requests

AllPolicies ==
    [kind : {"speed", "optimal"}, pin : {NoNode}, fallback : {FALSE}]
    \cup [kind : {"sticky"}, pin : {NoNode}, fallback : {FALSE}]
    \cup [kind : {"manual"}, pin : Nodes, fallback : BOOLEAN]

ASSUME ChannelAssumption ==
    /\ DefaultChannel \in Channels /\ Loop \in Pollers
    /\ NoNode \notin Nodes /\ NoPolicy \notin AllPolicies
    /\ Nodes # {}
    /\ Policies \subseteq AllPolicies /\ Policies # {}
    /\ Threshold \in Nat \ {0} /\ MaxEdits \in Nat /\ MaxFaults \in Nat

\* The private fields of a ChannelController. checked: less than the interval has
\* passed since lastCheck. held: the age of heldSince. Misses are counted up to
\* the threshold, beyond which the code tells no more.
Controllers ==
    [failures : 0..Threshold, checked : BOOLEAN, held : {"none", "young", "old"},
     cleared : Nodes \cup {NoNode}]

\* A channel without a controller has none of them.
ASSUME NoControllerAssumption == NoController \notin Controllers

\* An engine group: what it routes through, its pin, and the selection the engine
\* keeps across reloads. A channel has no group until the apply that adds it.
Groups ==
    [type : {"absent", "url-test", "select"}, now : Nodes \cup {NoNode},
     fixed : Nodes \cup {NoNode}, stored : Nodes \cup {NoNode}]

VARIABLES
    row,      \* policy of each channel; NoPolicy when removed or disabled
    group,    \* the engine's groups
    alive,    \* nodes that answer
    ctl,      \* ControllerRegistry.controllers
    job,      \* the poll in flight of each poller
    session,  \* history: how often a channel's controller was reset
    streak,   \* history: the node last probed by a sticky tick, its misses in a row
    misses,   \* history: misses probed and observed since the last reset or success
    edits, faults

history == <<session, streak, misses>>
vars == <<row, group, alive, ctl, job, session, streak, misses, edits, faults>>

Fault == faults < MaxFaults /\ faults' = faults + 1

FreshController == [failures |-> 0, checked |-> FALSE, held |-> "none", cleared |-> NoNode]
NoGroup == [type |-> "absent", now |-> NoNode, fixed |-> NoNode, stored |-> NoNode]
GroupType(policy) ==
    CASE policy = NoPolicy -> "absent" [] policy.kind = "speed" -> "url-test" [] OTHER -> "select"

\* A poll: the rows and the view its run works on, and the tick in flight: its
\* channel, what it is about to select or clear, the controller it holds when the
\* registry has dropped it, and the session it began in.
Idle ==
    [pc |-> "idle", todo |-> {}, rows |-> [c \in Channels |-> NoPolicy],
     view |-> [c \in Channels |-> NoGroup], reach |-> {},
     c |-> DefaultChannel, target |-> NoNode, own |-> NoController, began |-> 0]

Policy(p) == job[p].rows[job[p].c]
Active(p) == job[p].view[job[p].c].now
Ctl(p) == IF job[p].own = NoController THEN ctl[job[p].c] ELSE job[p].own

----------------------------------------------------------------------------
Init ==
    /\ row \in [Channels -> Policies \cup {NoPolicy}]
    /\ row[DefaultChannel] # NoPolicy
    /\ \E n, kept \in Nodes \cup {NoNode} :
          /\ kept = NoNode \/ kept = n
          /\ group = [c \in Channels |->
                IF row[c] = NoPolicy THEN NoGroup
                ELSE [type |-> GroupType(row[c]), now |-> n, stored |-> kept,
                      fixed |-> IF row[c].kind = "speed" THEN kept ELSE NoNode]]
    /\ alive = Nodes
    /\ ctl = [c \in Channels |-> NoController]
    /\ job = [p \in Pollers |-> Idle]
    /\ session = [c \in Channels |-> 0]
    /\ streak = [c \in Channels |-> [node |-> NoNode, n |-> 0]]
    /\ misses = [c \in Channels |-> 0]
    /\ edits = 0 /\ faults = 0

----------------------------------------------------------------------------
(* The administrator *)

Edit(c, policy) ==
    /\ edits < MaxEdits /\ edits' = edits + 1
    /\ row' = [row EXCEPT ![c] = policy]
    /\ session' = [session EXCEPT ![c] = @ + 1]
    /\ misses' = [misses EXCEPT ![c] = 0]
    /\ UNCHANGED <<group, alive, job, streak, faults>>

\* ChannelController.reset
ResetState(c) == IF ctl[c] = NoController THEN NoController ELSE FreshController

\* channels.setPolicy: the row, then registry.reset.
SetPolicy(c, policy) ==
    /\ row[c] # NoPolicy
    /\ Edit(c, policy) /\ ctl' = [ctl EXCEPT ![c] = ResetState(c)]

\* A channel is disabled or deleted, enabled or created.
Remove(c) == c # DefaultChannel /\ row[c] # NoPolicy /\ Edit(c, NoPolicy) /\ UNCHANGED ctl
Add(c, policy) == row[c] = NoPolicy /\ Edit(c, policy) /\ UNCHANGED ctl

----------------------------------------------------------------------------
(* The engine *)

\* The apply that follows an edit gives each group the type of its policy; a
\* stored selection becomes the pin of a url-test group.
Loaded(c) ==
    LET g == group[c]
        type == GroupType(row[c])
    IN IF type = "absent" THEN NoGroup
       ELSE [type |-> type, stored |-> g.stored,
             fixed |-> IF type = "url-test" THEN g.stored ELSE NoNode,
             now |-> IF g.stored # NoNode THEN g.stored
                     ELSE IF g.now # NoNode THEN g.now ELSE CHOOSE n \in Nodes : TRUE]

Reload ==
    /\ \E c \in Channels : group[c].type # GroupType(row[c])
    /\ group' = [c \in Channels |-> Loaded(c)]
    /\ UNCHANGED <<row, alive, ctl, job, history, edits, faults>>

\* A url-test group races freely unless it is pinned to a node that answers.
Race(c) ==
    /\ group[c].type = "url-test" /\ group[c].fixed \notin alive
    /\ \E n \in alive \ {group[c].now} : group' = [group EXCEPT ![c].now = n]
    /\ UNCHANGED <<row, alive, ctl, job, history, edits, faults>>

NodeChanges ==
    /\ Fault
    /\ \E n \in Nodes : alive' = IF n \in alive THEN alive \ {n} ELSE alive \cup {n}
    /\ UNCHANGED <<row, group, ctl, job, history, edits>>

----------------------------------------------------------------------------
(* Time *)

\* The check interval, or the hold window, of a channel passes.
Elapse(c) ==
    /\ ctl[c] # NoController /\ ctl[c].checked
    /\ ctl' = [ctl EXCEPT ![c].checked = FALSE]
    /\ UNCHANGED <<row, group, alive, job, history, edits, faults>>

HoldEnds(c) ==
    /\ ctl[c] # NoController /\ ctl[c].held = "young"
    /\ ctl' = [ctl EXCEPT ![c].held = "old"]
    /\ UNCHANGED <<row, group, alive, job, history, edits, faults>>

----------------------------------------------------------------------------
(* ControllerRegistry.runOnce *)

EndOfJob(p) == IF p = Loop THEN Idle ELSE [Idle EXCEPT !.pc = "ended"]

\* listChannels, before the view is fetched.
StartRun(p) ==
    /\ job[p].pc = "idle"
    /\ job' = [job EXCEPT ![p].pc = "fetch", ![p].rows = row,
                          ![p].todo = {c \in Channels : row[c] # NoPolicy}]
    /\ UNCHANGED <<row, group, alive, ctl, history, edits, faults>>

\* fetchProxies: the groups and the last delays, or nothing of this run happens.
Fetch(p) ==
    /\ job[p].pc = "fetch"
    /\ \/ /\ job' = [job EXCEPT ![p].pc = "next", ![p].reach = alive,
                        ![p].view = [c \in Channels |->
                            IF c \in job[p].todo THEN [group[c] EXCEPT !.stored = NoNode] ELSE NoGroup]]
          /\ UNCHANGED faults
       \/ Fault /\ job' = [job EXCEPT ![p] = EndOfJob(p)]
    /\ UNCHANGED <<row, group, alive, ctl, history, edits>>

\* Controllers of channels that were not live when the run began are dropped; a
\* tick of the other poll goes on with the one it holds.
EndRun(p) ==
    LET gone == {c \in Channels : job[p].rows[c] = NoPolicy}
        Dropped(q) == job[q].pc \notin {"idle", "ended", "fetch", "next"} /\ job[q].c \in gone
                      /\ job[q].own = NoController
    IN /\ job[p].pc = "next" /\ job[p].todo = {}
       /\ ctl' = [c \in Channels |-> IF c \in gone THEN NoController ELSE ctl[c]]
       /\ job' = [q \in Pollers |->
              IF q = p THEN EndOfJob(p)
              ELSE IF Dropped(q) THEN [job[q] EXCEPT !.own = ctl[job[q].c]] ELSE job[q]]
       /\ UNCHANGED <<row, group, alive, history, edits, faults>>

\* A tick goes on to an await with its controller in the given state.
Await(p, label, n, state) ==
    IF job[p].own = NoController
    THEN /\ job' = [job EXCEPT ![p].pc = label, ![p].target = n]
         /\ ctl' = [ctl EXCEPT ![job[p].c] = state]
    ELSE /\ job' = [job EXCEPT ![p].pc = label, ![p].target = n, ![p].own = state]
         /\ UNCHANGED ctl

\* The tick is over: the run goes on with the next channel.
Done(p, state) ==
    /\ job' = [job EXCEPT ![p] = [@ EXCEPT !.pc = "next", !.target = NoNode, !.c = DefaultChannel,
                                          !.own = NoController, !.began = 0]]
    /\ ctl' = IF job[p].own = NoController THEN [ctl EXCEPT ![job[p].c] = state] ELSE ctl

\* controllerFor, and a tick that returns, or awaits, without having awaited.
Current(c) == IF ctl[c] = NoController THEN FreshController ELSE ctl[c]

Return(p, c, state) ==
    job' = [job EXCEPT ![p].todo = @ \ {c}] /\ ctl' = [ctl EXCEPT ![c] = state]

Begin(p, c, label, n, state) ==
    /\ job' = [job EXCEPT ![p] = [@ EXCEPT !.pc = label, !.todo = job[p].todo \ {c}, !.c = c, !.target = n,
                                          !.began = session[c]]]
    /\ ctl' = [ctl EXCEPT ![c] = state]

\* Mutant: a pin is remembered as cleared before the engine confirms it.
TickSpeedEager(p, c) ==
    LET fixed == job[p].view[c].fixed
        state == Current(c)
    IN IF fixed = NoNode THEN Return(p, c, [state EXCEPT !.cleared = NoNode])
       ELSE IF fixed = state.cleared THEN Return(p, c, state)
       ELSE Begin(p, c, "clear", fixed, [state EXCEPT !.cleared = fixed])

\* toGroupView: whether the view shows the channel's group.
HasGroup(p, c) == job[p].view[c].type # "absent"

\* A speed channel must race: a leftover pin is cleared, once as long as it is
\* seen without interruption.
TickSpeed(p, c) ==
    LET fixed == job[p].view[c].fixed
        state == Current(c)
    IN IF fixed = NoNode THEN Return(p, c, [state EXCEPT !.cleared = NoNode])
       ELSE IF fixed = state.cleared THEN Return(p, c, state)
       ELSE Begin(p, c, "clear", fixed, state)

\* Mutant: a channel that holds a node is not pinned again.
TickManualOnce(p, c, state) ==
    LET policy == job[p].rows[c]
    IN IF policy.fallback THEN Begin(p, c, "probePin", NoNode, state)
       ELSE IF job[p].view[c].now # policy.pin /\ state.held = "none"
            THEN Begin(p, c, "select", policy.pin, state)
       ELSE Return(p, c, state)

\* The manual policy probes its pin when it may fall back from it.
TickManual(p, c, state) ==
    LET policy == job[p].rows[c]
    IN IF policy.fallback THEN Begin(p, c, "probePin", NoNode, state)
       ELSE IF job[p].view[c].now # policy.pin THEN Begin(p, c, "select", policy.pin, state)
       ELSE Return(p, c, state)

\* The optimal policy decides on the measured delays. A node that stopped
\* answering is left at once for one that answers; otherwise the scores, left
\* open here, may favour another node that answers.
TickOptimal(p, c, state) ==
    LET active == job[p].view[c].now
        others == job[p].reach \ {active}
    IN \/ active = NoNode /\ \E n \in Nodes : Begin(p, c, "select", n, state)
       \/ active # NoNode /\ \E n \in others : Begin(p, c, "select", n, state)
       \/ active # NoNode /\ (others = {} \/ active \in job[p].reach) /\ Return(p, c, state)

\* The sticky policy adopts the selection it finds; when it was held long enough
\* it is picked anew, otherwise only its health is probed.
TickSticky(p, c, state) ==
    LET held == IF state.held = "none" THEN "young" ELSE state.held
    IN IF job[p].view[c].now = NoNode THEN Begin(p, c, "pickFirst", NoNode, state)
       ELSE Begin(p, c, IF held = "old" THEN "pickAnew" ELSE "probe", NoNode, [state EXCEPT !.held = held])

\* Policies other than speed act once per interval; a group that is not there has
\* no candidates.
Tick(p) ==
    /\ job[p].pc = "next"
    /\ \E c \in job[p].todo : \E state \in {[Current(c) EXCEPT !.checked = TRUE]} :
          LET kind == job[p].rows[c].kind
          IN \/ kind = "speed" /\ TickSpeed(p, c)
             \/ kind # "speed" /\ Current(c).checked /\ Return(p, c, Current(c))
             \/ /\ kind # "speed" /\ ~Current(c).checked
                /\ \/ kind = "manual"  /\ TickManual(p, c, state)
                   \/ kind \in {"optimal", "sticky"} /\ ~HasGroup(p, c) /\ Return(p, c, state)
                   \/ kind = "optimal" /\ HasGroup(p, c) /\ TickOptimal(p, c, state)
                   \/ kind = "sticky"  /\ HasGroup(p, c) /\ TickSticky(p, c, state)
    /\ UNCHANGED <<row, group, alive, session, streak, misses, edits, faults>>

----------------------------------------------------------------------------
(* The awaits of a tick *)

\* A failed engine request throws, and the registry swallows it.
Throws(p) == Fault /\ Done(p, Ctl(p)) /\ UNCHANGED group

\* clearFixed, then lastClearedFixed. A select group has nothing to clear.
Clear(p) ==
    LET c == job[p].c
    IN /\ job[p].pc = "clear"
       /\ \/ /\ group' = IF group[c].type = "url-test"
                         THEN [group EXCEPT ![c].fixed = NoNode, ![c].stored = NoNode] ELSE group
             /\ Done(p, [Ctl(p) EXCEPT !.cleared = job[p].target])
             /\ UNCHANGED faults
          \/ Throws(p)
       /\ UNCHANGED <<row, alive, history, edits>>

\* pickBest: a node that answers, the first candidate when none does.
Best(names) == IF names \cap alive # {} THEN names \cap alive ELSE names

\* What a sticky tick leaves counted after apply: nothing, unless the channel was
\* deleted meanwhile: its reason cannot be recorded then, and the tick throws.
CountedAnew(p) == {0} \cup (IF row[job[p].c] = NoPolicy THEN {Ctl(p).failures} ELSE {})

\* apply: the selection is requested only when it changes.
Apply(p, n, state) ==
    IF n = Active(p) THEN Done(p, [state EXCEPT !.held = "young"]) ELSE Await(p, "select", n, state)

ProbePin(p) ==
    LET pin == Policy(p).pin
    IN /\ job[p].pc = "probePin"
       /\ IF pin \notin alive /\ HasGroup(p, job[p].c) /\ Nodes # {pin}
          THEN Await(p, "pickOther", NoNode, Ctl(p))
          ELSE IF Active(p) # pin THEN Await(p, "select", pin, Ctl(p)) ELSE Done(p, Ctl(p))
       /\ UNCHANGED <<row, group, alive, history, edits, faults>>

PickOther(p) ==
    /\ job[p].pc = "pickOther"
    /\ \E n \in Best(Nodes \ {Policy(p).pin}) : Apply(p, n, Ctl(p))
    /\ UNCHANGED <<row, group, alive, history, edits, faults>>

PickFirst(p) ==
    /\ job[p].pc = "pickFirst"
    /\ \E n \in Best(Nodes) : Apply(p, n, Ctl(p))
    /\ UNCHANGED <<row, group, alive, history, edits, faults>>

\* A held node that stays the best is held for another window and probed.
PickAnew(p) ==
    /\ job[p].pc = "pickAnew"
    /\ \E n \in Best(Nodes) :
          IF n # Active(p) THEN Apply(p, n, Ctl(p))
          ELSE Await(p, "probe", NoNode, [Ctl(p) EXCEPT !.held = "young"])
    /\ UNCHANGED <<row, group, alive, history, edits, faults>>

\* Mutant: an answer does not interrupt the count.
NeverForgiven(failures, answered) ==
    IF answered \/ failures = Threshold THEN failures ELSE failures + 1

\* Misses in a row, up to the threshold.
Counted(failures, answered) ==
    IF answered THEN 0 ELSE IF failures = Threshold THEN failures ELSE failures + 1

ProbeActive(p) ==
    LET c == job[p].c
        answered == Active(p) \in alive
    IN /\ job[p].pc = "probe"
       /\ \E failures \in {Counted(Ctl(p).failures, answered)} :
             LET state == [Ctl(p) EXCEPT !.failures = failures]
             IN IF failures = Threshold THEN Await(p, "pickNext", NoNode, state) ELSE Done(p, state)
       /\ streak' = [streak EXCEPT ![c] =
              [node |-> Active(p),
               n |-> IF answered THEN 0
                     ELSE IF @.node = Active(p) /\ @.n < Threshold THEN @.n + 1
                     ELSE IF @.node = Active(p) THEN @.n ELSE 1]]
       /\ misses' = [misses EXCEPT ![c] =
              IF answered THEN 0
              ELSE IF job[p].began = session[c] /\ @ < Threshold THEN @ + 1 ELSE @]
       /\ UNCHANGED <<row, group, alive, session, edits, faults>>

\* Mutant: the node that failed stays the first candidate.
Unfiltered(p) == {Active(p)}

\* Where a failover may go: anywhere else, nowhere when there is no other node.
Alternatives(p) == IF Nodes = {Active(p)} THEN Nodes ELSE Nodes \ {Active(p)}

PickNext(p) ==
    /\ job[p].pc = "pickNext"
    /\ \E n \in Best(Alternatives(p)) :
          IF n = Active(p)
          THEN \E k \in CountedAnew(p) : Done(p, [Ctl(p) EXCEPT !.held = "young", !.failures = k])
          ELSE Await(p, "select", n, Ctl(p))
    /\ UNCHANGED <<row, group, alive, history, edits, faults>>

\* A selection in a url-test group pins it.
Selected(p) ==
    LET n == job[p].target
    IN [group EXCEPT ![job[p].c] =
          [@ EXCEPT !.now = n, !.stored = n, !.fixed = IF group[job[p].c].type = "url-test" THEN n ELSE NoNode]]

\* What apply and its caller do after the selection: a sticky tick starts counting
\* anew, a manual or optimal one leaves the count alone.
Select(p) ==
    /\ job[p].pc = "select"
    /\ \/ /\ group[job[p].c].type # "absent" /\ group' = Selected(p)
          /\ \E k \in IF Policy(p).kind = "sticky" THEN CountedAnew(p) ELSE {Ctl(p).failures} :
                Done(p, [Ctl(p) EXCEPT !.held = "young", !.failures = k])
          /\ UNCHANGED faults
       \/ Throws(p)
       \/ group[job[p].c].type = "absent" /\ Done(p, Ctl(p)) /\ UNCHANGED <<group, faults>>
    /\ UNCHANGED <<row, alive, history, edits>>

----------------------------------------------------------------------------
Administrator ==
    \E c \in Channels : Remove(c) \/ \E policy \in Policies : SetPolicy(c, policy) \/ Add(c, policy)
Engine == Reload \/ NodeChanges \/ \E c \in Channels : Race(c)
Time == \E c \in Channels : Elapse(c) \/ HoldEnds(c)
Poll(p) ==
    \/ StartRun(p) \/ Fetch(p) \/ Tick(p) \/ EndRun(p)
    \/ Clear(p) \/ ProbePin(p) \/ PickOther(p) \/ PickFirst(p) \/ PickAnew(p)
    \/ ProbeActive(p) \/ PickNext(p) \/ Select(p)

Next == Administrator \/ Engine \/ Time \/ \E p \in Pollers : Poll(p)

Spec == Init /\ [][Next]_vars

\* The live loop re-arms its timer after every poll and every request has a
\* timeout; intervals pass; an edit is followed by its apply.
Fairness ==
    /\ \A p \in Pollers : WF_vars(Poll(p))
    /\ \A c \in Channels : WF_vars(Elapse(c))
    /\ WF_vars(Reload)
LiveSpec == Spec /\ Fairness

----------------------------------------------------------------------------
(* Properties *)

\* Every variable stays in its type, and a tick in flight has a controller.
TypeOK ==
    /\ row \in [Channels -> Policies \cup {NoPolicy}] /\ row[DefaultChannel] # NoPolicy
    /\ group \in [Channels -> Groups] /\ alive \subseteq Nodes
    /\ ctl \in [Channels -> Controllers \cup {NoController}]
    /\ \A p \in Pollers :
          /\ job[p].todo \subseteq Channels /\ job[p].reach \subseteq Nodes
          /\ job[p].rows \in [Channels -> Policies \cup {NoPolicy}]
          /\ job[p].view \in [Channels -> Groups]
          /\ job[p].c \in Channels /\ job[p].target \in Nodes \cup {NoNode}
          /\ job[p].pc \notin {"idle", "ended", "fetch", "next"} => Ctl(p) \in Controllers
    /\ edits \in Nat /\ faults \in Nat

\* With the polls of one loop only: a sticky channel nobody reconfigured leaves a
\* node only after as many misses in a row of that very node as its policy says.
FailoverEarned ==
    [][\A p \in Pollers :
          job[p].pc = "probe" /\ job'[p].pc = "pickNext" /\ session[job[p].c] = 0
            => streak'[job[p].c].n = Threshold]_vars

\* However a tick of an older policy was interrupted, a channel pinned for good is
\* routed through its pin for good.
PinConverges ==
    \A c \in Channels, n \in Nodes :
        <>[](row[c] = [kind |-> "manual", pin |-> n, fallback |-> FALSE]) => <>[](group[c].now = n)

\* A sticky, optimal or falling back channel ends up on a node that answers, when
\* there is one.
DeadNodeLeft ==
    \A c \in Channels :
        <>[](row[c] # NoPolicy /\ (row[c].kind \in {"sticky", "optimal"} \/ row[c].fallback))
            => <>[](alive # {} => group[c].now \in alive)

\* A channel of the speed policy ends up racing, whatever selections earlier
\* policies left behind.
SpeedRaces ==
    \A c \in Channels :
        <>[](row[c] # NoPolicy /\ row[c].kind = "speed") => <>[](group[c].fixed = NoNode)

\* router.ts: the state of the previous policy session does not leak into the new
\* one; a failure counted was observed under the present policy.
NoLeak == \A c \in Channels : ctl[c] # NoController => ctl[c].failures <= misses[c]

=============================================================================
