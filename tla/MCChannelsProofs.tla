-------------------------- MODULE MCChannelsProofs --------------------------
(***************************************************************************)
(* A failover is earned, for every set of channels, nodes and policies and *)
(* every threshold, as long as there is one loop of polls (FailoverEarned) *)
(* - and so in the part of MCChannels that has one loop (FailoversEarned). *)
(***************************************************************************)
EXTENDS MCChannels, TLAPS

OneLoop == Pollers = {Loop}

----------------------------------------------------------------------------
(* The inductive invariant *)

AnyRow  == AllPolicies \cup {NoPolicy}
AnyNode == Nodes \cup {NoNode}
PCs == {"idle", "ended", "fetch", "next", "clear", "probePin", "pickOther", "pickFirst",
        "pickAnew", "probe", "pickNext", "select"}
Jobs ==
    [pc : PCs, todo : SUBSET Channels, rows : [Channels -> AnyRow], view : [Channels -> Groups],
     reach : SUBSET Nodes, c : Channels, target : AnyNode,
     own : Controllers \cup {NoController}, began : Nat]

Types ==
    /\ row \in [Channels -> AnyRow] /\ group \in [Channels -> Groups] /\ alive \in SUBSET Nodes
    /\ ctl \in [Channels -> Controllers \cup {NoController}]
    /\ job \in [Pollers -> Jobs]
    /\ session \in [Channels -> Nat]
    /\ streak \in [Channels -> [node : AnyNode, n : 0..Threshold]]

\* The poll of the loop, and whether one of its ticks waits for the engine.
J == job[Loop]
InFlight == J.pc \notin {"idle", "ended", "fetch", "next"}

\* A sticky channel that nobody reconfigured.
Kept(c) == session[c] = 0 /\ row[c] # NoPolicy /\ row[c].kind = "sticky"

\* A run works on the rows of the channels that nobody reconfigured, takes each channel
\* once, and keeps the controller it has begun with.
RunOK ==
    /\ J.own = NoController /\ J.pc # "ended"
    /\ J.pc # "idle" => \A c \in Channels : session[c] = 0 => J.rows[c] = row[c]
    /\ \A c \in J.todo : J.rows[c] # NoPolicy
    /\ InFlight => J.c \notin J.todo /\ J.rows[J.c] # NoPolicy /\ ctl[J.c] \in Controllers
    /\ J.pc \in {"pickFirst", "pickAnew", "probe", "pickNext"} => J.rows[J.c].kind = "sticky"
    /\ J.pc \in {"pickAnew", "probe"} => J.view[J.c].now # NoNode

\* Nobody else selects in the group of such a channel: what the run has seen there is so.
Seen ==
    J.pc \notin {"idle", "fetch"} =>
       \A c \in Channels : Kept(c) /\ (c \in J.todo \/ (InFlight /\ c = J.c))
                             => J.view[c].now \in {NoNode, group[c].now}

\* Its group keeps what it selected over every reload.
Selects ==
    \A c \in Channels : Kept(c) =>
       group[c].type = "select" /\ group[c].stored \in {NoNode, group[c].now}

\* The misses a controller counts are of the node its group is on, one after another.
Counts ==
    \A c \in Channels : Kept(c) /\ ctl[c] # NoController =>
       /\ ctl[c].failures <= streak[c].n
       /\ ctl[c].failures > 0 => streak[c].node = group[c].now /\ group[c].now # NoNode

IInv == Types /\ RunOK /\ Seen /\ Selects /\ Counts

\* A failover takes as many misses in a row of the node it leaves as the policy says.
Earned ==
    J.pc = "probe" /\ J'.pc = "pickNext" /\ session[J.c] = 0 => streak'[J.c].n = Threshold

\* Only the loop polls.
LEMMA TheLoop ==
    ASSUME OneLoop PROVE Loop \in Pollers /\ \A p \in Pollers : p = Loop
BY DEF OneLoop

\* A poll at rest is one of the polls, and so is the controller of a new channel.
LEMMA Resting == Idle \in Jobs /\ FreshController \in Controllers
<1>1. NoGroup \in Groups BY DEF NoGroup, Groups
<1>2. FreshController \in Controllers
  BY ChannelAssumption DEF FreshController, Controllers
<1> QED BY <1>1, <1>2, ChannelAssumption DEF Idle, Jobs, PCs, AnyRow, AnyNode

LEMMA Initially == OneLoop /\ Init => IInv
<1> SUFFICES ASSUME OneLoop, Init PROVE IInv OBVIOUS
<1> PICK n \in AnyNode, kept \in AnyNode :
          /\ kept = NoNode \/ kept = n
          /\ group = [c \in Channels |->
                IF row[c] = NoPolicy THEN NoGroup
                ELSE [type |-> GroupType(row[c]), now |-> n, stored |-> kept,
                      fixed |-> IF row[c].kind = "speed" THEN kept ELSE NoNode]]
  BY DEF Init, AnyNode
<1>1. \A c \in Channels :
         /\ group[c] = IF row[c] = NoPolicy THEN NoGroup
                       ELSE [type |-> GroupType(row[c]), now |-> n, stored |-> kept,
                             fixed |-> IF row[c].kind = "speed" THEN kept ELSE NoNode]
         /\ ctl[c] = NoController
  BY DEF Init
<1>2. J = Idle BY TheLoop DEF Init, J
<1>3. Types
  <2>1. group \in [Channels -> Groups]
    BY <1>1 DEF Groups, NoGroup, AnyNode, GroupType
  <2>2. row \in [Channels -> AnyRow]
    BY ChannelAssumption DEF Init, AnyRow
  <2>3. job \in [Pollers -> Jobs] BY Resting DEF Init
  <2>4. streak \in [Channels -> [node : AnyNode, n : 0..Threshold]]
    BY ChannelAssumption DEF Init, AnyNode
  <2> QED BY <2>1, <2>2, <2>3, <2>4 DEF Init, Types
<1>4. RunOK /\ Seen BY <1>2 DEF RunOK, Seen, InFlight, Idle
<1>5. Selects BY <1>1 DEF Selects, Kept, GroupType
<1>6. Counts BY <1>1 DEF Counts
<1> QED BY <1>3, <1>4, <1>5, <1>6 DEF IInv

----------------------------------------------------------------------------
(* Steps that are not of a poll *)

LEMMA AdministratorKeeps ==
    ASSUME OneLoop, IInv, Administrator PROVE IInv'
<1> USE DEF IInv, Types
<1> PICK c \in Channels, policy \in AnyRow :
        Edit(c, policy) /\ (UNCHANGED ctl \/ ctl' = [ctl EXCEPT ![c] = ResetState(c)])
  BY ChannelAssumption DEF Administrator, Remove, SetPolicy, Add, AnyRow
<1>1. /\ row' = [row EXCEPT ![c] = policy] /\ session' = [session EXCEPT ![c] = @ + 1]
      /\ UNCHANGED <<group, alive, job, streak, J>>
  BY DEF Edit, J
<1>2. \A d \in Channels :
         /\ session'[d] = 0 => d # c /\ session[d] = 0 /\ row'[d] = row[d] /\ ctl'[d] = ctl[d]
         /\ ctl[d] \in Controllers => ctl'[d] \in Controllers
         /\ Kept(d)' => Kept(d)
  BY <1>1, Resting, NoControllerAssumption DEF Kept, ResetState
<1>3. Types'
  BY <1>1, Resting DEF ResetState
<1>4. J \in Jobs BY TheLoop DEF J
<1>5. RunOK'
  <2>1. InFlight' <=> InFlight BY <1>1 DEF InFlight
  <2> QED BY <1>1, <1>2, <1>4, <2>1 DEF RunOK, Jobs
<1>6. Seen' BY <1>1, <1>2 DEF Seen, InFlight
<1>7. Selects' BY <1>1, <1>2 DEF Selects
<1>8. Counts' BY <1>1, <1>2 DEF Counts, Kept
<1> QED BY <1>3, <1>5, <1>6, <1>7, <1>8

LEMMA EngineKeeps ==
    ASSUME OneLoop, IInv, Engine PROVE IInv'
<1> USE DEF IInv, Types
<1>1. UNCHANGED <<row, ctl, job, session, streak, J>>
  BY DEF Engine, Reload, NodeChanges, Race, history, J
<1>2. J \in Jobs BY TheLoop DEF J
<1>3. RunOK' BY <1>1, <1>2 DEF RunOK, InFlight, Jobs
<1>4. ASSUME Types', \A c \in Channels : Kept(c) =>
                /\ group'[c].type = "select" /\ group'[c].stored \in {NoNode, group'[c].now}
                /\ group[c].now # NoNode => group'[c].now = group[c].now
      PROVE  IInv'
  <2>1. \A c \in Channels : Kept(c)' <=> Kept(c) BY <1>1 DEF Kept
  <2>2. Selects' BY <1>4, <2>1 DEF Selects
  <2>3. Counts' BY <1>1, <1>4, <2>1 DEF Counts
  <2>4. Seen'
    <3>1. InFlight' <=> InFlight BY <1>1 DEF InFlight
    <3> QED BY <1>1, <1>2, <1>4, <2>1, <3>1 DEF Seen, Jobs
  <2> QED BY <1>3, <1>4, <2>2, <2>3, <2>4
<1>5. CASE Reload
  <2>1. \A c \in Channels : group'[c] = Loaded(c) BY <1>5 DEF Reload
  <2>2. \A c \in Channels : Loaded(c) \in Groups
    BY ChannelAssumption DEF Loaded, Groups, NoGroup, GroupType
  <2>3. Types' BY <1>1, <1>5, <2>2 DEF Reload
  <2>4. ASSUME NEW c \in Channels, Kept(c)
        PROVE  /\ group'[c].type = "select" /\ group'[c].stored \in {NoNode, group'[c].now}
               /\ group[c].now # NoNode => group'[c].now = group[c].now
    <3>1. GroupType(row[c]) = "select" BY <2>4 DEF Kept, GroupType
    <3>2. group[c].stored \in {NoNode, group[c].now} BY <2>4 DEF Selects
    <3>3. PICK n \in Nodes :
            Loaded(c) = [type |-> "select", stored |-> group[c].stored, fixed |-> NoNode,
                         now |-> IF group[c].stored # NoNode THEN group[c].stored
                                 ELSE IF group[c].now # NoNode THEN group[c].now ELSE n]
      BY <3>1, ChannelAssumption DEF Loaded
    <3> QED BY <2>1, <3>2, <3>3
  <2> QED BY <1>4, <2>3, <2>4
<1>6. CASE NodeChanges
  <2>1. Types' BY <1>1, <1>6 DEF NodeChanges
  <2> QED BY <1>4, <1>6, <2>1 DEF NodeChanges, Selects
<1>7. ASSUME NEW c \in Channels, Race(c) PROVE IInv'
  <2> PICK n \in alive : group' = [group EXCEPT ![c].now = n] BY <1>7 DEF Race
  <2>1. group[c].type = "url-test" BY <1>7 DEF Race
  <2>2. group'[c] \in Groups /\ \A d \in Channels : d # c => group'[d] = group[d]
    BY DEF Groups
  <2>3. Types' BY <1>1, <1>7, <2>2 DEF Race
  <2>4. ~Kept(c) BY <2>1 DEF Selects
  <2> QED BY <1>4, <2>2, <2>3, <2>4 DEF Selects
<1> QED BY <1>5, <1>6, <1>7 DEF Engine

\* A step that gives one channel a controller with the same count, or none.
LEMMA CountKept ==
    ASSUME Types, Counts, NEW x \in Channels, NEW state \in Controllers,
           ctl' = [ctl EXCEPT ![x] = state],
           state.failures = 0 \/ (ctl[x] # NoController /\ state.failures = ctl[x].failures),
           UNCHANGED <<row, session, streak>>,
           \A c \in Channels : group'[c].now = group[c].now
    PROVE  Counts'
<1>1. \A c \in Channels : (Kept(c)' <=> Kept(c)) /\ streak[c].n \in Nat BY DEF Kept, Types
<1>2. ctl'[x] = state /\ \A c \in Channels : c # x => ctl'[c] = ctl[c] BY DEF Types
<1> QED BY <1>1, <1>2 DEF Counts

LEMMA TimeKeeps ==
    ASSUME OneLoop, IInv, Time PROVE IInv'
<1> USE DEF IInv, Types
<1>1. UNCHANGED <<row, group, alive, job, session, streak, J>>
  BY DEF Time, Elapse, HoldEnds, history, J
<1> PICK c \in Channels : Elapse(c) \/ HoldEnds(c) BY DEF Time
<1> PICK state \in Controllers :
        /\ ctl' = [ctl EXCEPT ![c] = state]
        /\ ctl[c] # NoController /\ state.failures = ctl[c].failures
  <2>1. ctl[c] \in Controllers /\ ctl[c] # NoController BY DEF Elapse, HoldEnds
  <2>2. CASE Elapse(c)
    <3>1. [ctl[c] EXCEPT !.checked = FALSE] \in Controllers BY <2>1 DEF Controllers
    <3> QED BY <2>1, <2>2, <3>1 DEF Elapse, Controllers
  <2>3. CASE HoldEnds(c)
    <3>1. [ctl[c] EXCEPT !.held = "old"] \in Controllers BY <2>1 DEF Controllers
    <3> QED BY <2>1, <2>3, <3>1 DEF HoldEnds, Controllers
  <2> QED BY <2>2, <2>3
<1>2. Types' BY <1>1
<1>3. J \in Jobs BY TheLoop DEF J
<1>4. RunOK' BY <1>1, <1>3 DEF RunOK, InFlight, Jobs
<1>5. Seen' /\ Selects' BY <1>1 DEF Seen, Selects, Kept, InFlight
<1>6. Counts' BY <1>1, CountKept
<1> QED BY <1>2, <1>4, <1>5, <1>6

----------------------------------------------------------------------------
(* What a step of the loop does to its poll *)

\* The awaits of a tick, and where it may wait for a channel it has these rows of.
Going == {"clear", "probePin", "pickOther", "pickFirst", "pickAnew", "probe", "pickNext", "select"}
Fits(label, c) ==
    /\ label \in {"pickFirst", "pickAnew", "probe", "pickNext"} => J.rows[c].kind = "sticky"
    /\ label \in {"pickAnew", "probe"} => J.view[c].now # NoNode

\* Nothing happened to the rows, and the groups are on the nodes they were on but
\* for that of one channel.
Elsewhere(x) ==
    /\ UNCHANGED <<row, alive, session>>
    /\ group' \in [Channels -> Groups]
    /\ \A c \in Channels \ {x} : group'[c].now = group[c].now

\* A step of a tick leaves a poll in order, and one channel's controller in a state.
Left(x, state) ==
    /\ job' \in [Pollers -> Jobs] /\ ctl' \in [Channels -> Controllers \cup {NoController}]
    /\ ctl' = [ctl EXCEPT ![x] = state]
    /\ RunOK' /\ Seen'

LEMMA AwaitStep ==
    ASSUME OneLoop, Types, RunOK, Seen, InFlight,
           NEW label \in Going, NEW n \in AnyNode, NEW state \in Controllers,
           Await(Loop, label, n, state), Fits(label, J.c),
           UNCHANGED <<row, group, alive, session>>
    PROVE  Left(J.c, state) /\ J'.pc = label
<1>1. J \in Jobs /\ J.own = NoController BY TheLoop DEF J, Types, RunOK
<1>2. /\ job' = [job EXCEPT ![Loop].pc = label, ![Loop].target = n]
      /\ ctl' = [ctl EXCEPT ![J.c] = state]
  BY <1>1 DEF Await, J
<1>3. J' = [J EXCEPT !.pc = label, !.target = n] BY <1>2, TheLoop DEF J, Types
<1>4. J' \in Jobs BY <1>1, <1>3 DEF Jobs, Going, PCs
<1>5. job' \in [Pollers -> Jobs]
  <2>1. job' = [job EXCEPT ![Loop] = J'] BY <1>2, <1>3, TheLoop DEF J, Types
  <2> QED BY <1>4, <2>1 DEF Types
<1>6. /\ J'.pc = label /\ J'.todo = J.todo /\ J'.rows = J.rows /\ J'.view = J.view
      /\ J'.c = J.c /\ J'.own = J.own /\ InFlight'
  BY <1>1, <1>3 DEF Jobs, InFlight, Going
<1>7. RunOK'
  <2>1. J.c \in Channels /\ ctl'[J.c] = state /\ J.pc # "idle"
    BY <1>1, <1>2 DEF Jobs, Types, InFlight
  <2> QED BY <1>1, <1>6, <2>1 DEF RunOK, Fits, Going
<1>8. Seen'
  <2>1. \A c \in Channels : Kept(c)' <=> Kept(c) BY DEF Kept
  <2> QED BY <1>6, <2>1 DEF Seen, InFlight
<1> QED BY <1>1, <1>2, <1>5, <1>6, <1>7, <1>8 DEF Left, Types, Jobs

LEMMA DoneStep ==
    ASSUME OneLoop, Types, RunOK, Seen, InFlight, NEW state \in Controllers,
           Done(Loop, state), Elsewhere(J.c)
    PROVE  Left(J.c, state) /\ J'.pc = "next"
<1>1. J \in Jobs /\ J.own = NoController BY TheLoop DEF J, Types, RunOK
<1>2. /\ job' = [job EXCEPT ![Loop] = [@ EXCEPT !.pc = "next", !.target = NoNode,
                          !.c = DefaultChannel, !.own = NoController, !.began = 0]]
      /\ ctl' = [ctl EXCEPT ![J.c] = state]
  BY <1>1 DEF Done, J
<1>3. J' = [J EXCEPT !.pc = "next", !.target = NoNode,
                     !.c = DefaultChannel, !.own = NoController, !.began = 0]
  BY <1>2, TheLoop DEF J, Types
<1>4. J' \in Jobs BY <1>1, <1>3, ChannelAssumption DEF Jobs, PCs, AnyNode
<1>5. job' \in [Pollers -> Jobs]
  <2>1. job' = [job EXCEPT ![Loop] = J'] BY <1>2, <1>3, TheLoop DEF J, Types
  <2> QED BY <1>4, <2>1 DEF Types
<1>6. /\ J'.pc = "next" /\ J'.todo = J.todo /\ J'.rows = J.rows /\ J'.view = J.view
      /\ J'.own = NoController /\ ~InFlight'
  BY <1>1, <1>3 DEF Jobs, InFlight
<1>7. RunOK' BY <1>6 DEF RunOK, InFlight, Elsewhere
<1>8. Seen'
  <2>1. \A c \in Channels : Kept(c)' <=> Kept(c) BY DEF Kept, Elsewhere
  <2>2. J.c \notin J.todo BY DEF RunOK
  <2>3. \A c \in J.todo : c \in Channels /\ group'[c].now = group[c].now
    BY <1>1, <2>2 DEF Jobs, Elsewhere
  <2>4. J.pc \notin {"idle", "fetch"} BY DEF InFlight
  <2> QED BY <1>6, <2>1, <2>3, <2>4 DEF Seen
<1> QED BY <1>1, <1>2, <1>5, <1>6, <1>7, <1>8 DEF Left, Types, Jobs

LEMMA ReturnStep ==
    ASSUME OneLoop, Types, RunOK, Seen, J.pc = "next",
           NEW c \in J.todo, NEW state \in Controllers,
           Return(Loop, c, state), UNCHANGED <<row, group, alive, session>>
    PROVE  Left(c, state) /\ J'.pc = "next"
<1>1. J \in Jobs BY TheLoop DEF J, Types
<1>2. J' = [J EXCEPT !.todo = @ \ {c}] BY TheLoop DEF J, Types, Return
<1>3. J' \in Jobs BY <1>1, <1>2 DEF Jobs
<1>4. job' \in [Pollers -> Jobs]
  <2>1. job' = [job EXCEPT ![Loop] = J'] BY <1>2, TheLoop DEF J, Types, Return
  <2> QED BY <1>3, <2>1 DEF Types
<1>5. /\ J'.pc = "next" /\ J'.todo = J.todo \ {c} /\ J'.rows = J.rows /\ J'.view = J.view
      /\ J'.own = J.own /\ ~InFlight'
  BY <1>1, <1>2 DEF Jobs, InFlight
<1>6. RunOK' BY <1>5 DEF RunOK, InFlight
<1>7. Seen'
  <2>1. \A d \in Channels : Kept(d)' <=> Kept(d) BY DEF Kept
  <2> QED BY <1>5, <2>1 DEF Seen
<1> QED BY <1>1, <1>4, <1>5, <1>6, <1>7 DEF Left, Types, Jobs, Return

LEMMA BeginStep ==
    ASSUME OneLoop, Types, RunOK, Seen, J.pc = "next",
           NEW c \in J.todo, NEW label \in Going, NEW n \in AnyNode, NEW state \in Controllers,
           Begin(Loop, c, label, n, state), Fits(label, c),
           UNCHANGED <<row, group, alive, session>>
    PROVE  Left(c, state) /\ J'.pc = label
<1>1. J \in Jobs /\ c \in Channels /\ session[c] \in Nat
  BY TheLoop DEF J, Types, Jobs
<1>2. J' = [J EXCEPT !.pc = label, !.todo = @ \ {c}, !.c = c, !.target = n, !.began = session[c]]
  BY TheLoop DEF J, Types, Begin
<1>3. J' \in Jobs BY <1>1, <1>2 DEF Jobs, Going, PCs
<1>4. job' \in [Pollers -> Jobs]
  <2>1. job' = [job EXCEPT ![Loop] = J'] BY <1>2, TheLoop DEF J, Types, Begin
  <2> QED BY <1>3, <2>1 DEF Types
<1>5. /\ J'.pc = label /\ J'.todo = J.todo \ {c} /\ J'.rows = J.rows /\ J'.view = J.view
      /\ J'.c = c /\ J'.own = J.own
  BY <1>1, <1>2 DEF Jobs
<1>6. RunOK'
  <2>1. ctl'[c] \in Controllers BY <1>1 DEF Begin, Types
  <2> QED BY <1>1, <1>5, <2>1 DEF RunOK, Fits, Going
<1>7. Seen'
  <2>1. \A d \in Channels : Kept(d)' <=> Kept(d) BY DEF Kept
  <2> QED BY <1>5, <2>1 DEF Seen
<1> QED BY <1>1, <1>4, <1>5, <1>6, <1>7 DEF Left, Types, Begin

----------------------------------------------------------------------------
(* The steps of the poll *)

\* The controller, the policy and the view a tick in flight works with.
LEMMA Holding ==
    ASSUME OneLoop, Types, RunOK, InFlight
    PROVE  /\ J \in Jobs /\ J.c \in Channels
           /\ Ctl(Loop) = ctl[J.c] /\ Ctl(Loop) \in Controllers /\ Ctl(Loop) # NoController
           /\ Policy(Loop) = J.rows[J.c] /\ Policy(Loop) \in AllPolicies
           /\ Policy(Loop).pin \in AnyNode
           /\ Active(Loop) = J.view[J.c].now /\ Active(Loop) \in AnyNode
<1>1. J \in Jobs BY TheLoop DEF J, Types
<1>2. J.c \in Channels /\ J.rows[J.c] \in AnyRow /\ J.rows[J.c] # NoPolicy
      /\ J.view[J.c] \in Groups
  BY <1>1 DEF Jobs, RunOK
<1>3. J.rows[J.c] \in AllPolicies /\ J.rows[J.c].pin \in AnyNode
  BY <1>2 DEF AnyRow, AllPolicies, AnyNode
<1>4. Ctl(Loop) = ctl[J.c] /\ ctl[J.c] \in Controllers BY DEF Ctl, J, RunOK
<1> QED BY <1>1, <1>2, <1>3, <1>4, NoControllerAssumption DEF Policy, Active, J, Groups, AnyNode

\* A step of a tick that selects nothing and probes nothing.
LEMMA Quiet ==
    ASSUME IInv, NEW x \in Channels, NEW state \in Controllers, Left(x, state),
           UNCHANGED <<row, group, alive, session, streak>>,
           state.failures = 0 \/ (ctl[x] # NoController /\ state.failures = ctl[x].failures)
    PROVE  IInv'
<1> USE DEF IInv
<1>1. Types' BY DEF Types, Left
<1>2. Selects' BY DEF Selects, Kept
<1>3. Counts' BY CountKept DEF Left
<1> QED BY <1>1, <1>2, <1>3 DEF Left

LEMMA AwaitKeeps ==
    ASSUME OneLoop, IInv, InFlight,
           NEW label \in Going, NEW n \in AnyNode, NEW state \in Controllers,
           state.failures = Ctl(Loop).failures,
           Await(Loop, label, n, state), Fits(label, J.c),
           UNCHANGED <<row, group, alive, session, streak>>
    PROVE  IInv'
<1>1. Types /\ RunOK /\ Seen BY DEF IInv
<1>2. Left(J.c, state) BY <1>1, AwaitStep
<1> QED BY <1>1, <1>2, Holding, Quiet

LEMMA DoneKeeps ==
    ASSUME OneLoop, IInv, InFlight, NEW state \in Controllers,
           state.failures \in {0, Ctl(Loop).failures},
           Done(Loop, state), UNCHANGED <<row, group, alive, session, streak>>
    PROVE  IInv'
<1>1. Types /\ RunOK /\ Seen BY DEF IInv
<1>2. Elsewhere(J.c) BY <1>1 DEF Elsewhere, Types
<1>3. Left(J.c, state) BY <1>1, <1>2, DoneStep
<1> QED BY <1>1, <1>3, Holding, Quiet

LEMMA ApplyKeeps ==
    ASSUME OneLoop, IInv, InFlight, NEW n \in Nodes,
           Apply(Loop, n, Ctl(Loop)), UNCHANGED <<row, group, alive, session, streak>>
    PROVE  IInv'
<1>1. Types /\ RunOK BY DEF IInv
<1>2. Ctl(Loop) \in Controllers BY <1>1, Holding
<1>3. [Ctl(Loop) EXCEPT !.held = "young"] \in Controllers
      /\ [Ctl(Loop) EXCEPT !.held = "young"].failures = Ctl(Loop).failures
  BY <1>2 DEF Controllers
<1>4. CASE n = Active(Loop) BY <1>3, <1>4, DoneKeeps DEF Apply
<1>5. CASE n # Active(Loop)
  <2>1. Await(Loop, "select", n, Ctl(Loop)) BY <1>5 DEF Apply
  <2>2. "select" \in Going /\ n \in AnyNode /\ Fits("select", J.c)
    BY DEF Going, AnyNode, Fits
  <2> QED BY <1>2, <2>1, <2>2, AwaitKeeps
<1> QED BY <1>4, <1>5

LEMMA StartRunKeeps ==
    ASSUME OneLoop, IInv, StartRun(Loop) PROVE IInv' /\ J.pc = "idle"
<1> USE DEF IInv
<1> DEFINE live == {c \in Channels : row[c] # NoPolicy}
<1>1. J \in Jobs /\ J.pc = "idle" BY TheLoop DEF J, Types, StartRun
<1>2. J' = [J EXCEPT !.pc = "fetch", !.rows = row, !.todo = live]
  BY TheLoop DEF J, Types, StartRun
<1>3. J' \in Jobs BY <1>1, <1>2 DEF Jobs, PCs, Types
<1>4. job' = [job EXCEPT ![Loop] = J'] BY <1>2, TheLoop DEF J, Types, StartRun
<1>5. UNCHANGED <<row, group, alive, ctl, session, streak>> BY DEF StartRun, history
<1>6. Types' BY <1>3, <1>4, <1>5 DEF Types
<1>7. RunOK' /\ Seen'
  <2>1. J'.pc = "fetch" /\ J'.rows = row /\ J'.todo = live /\ J'.own = NoController
    BY <1>1, <1>2 DEF Jobs, RunOK
  <2> QED BY <1>5, <2>1 DEF RunOK, Seen, InFlight
<1>8. Selects' /\ Counts' BY <1>5 DEF Selects, Counts, Kept
<1> QED BY <1>1, <1>6, <1>7, <1>8

\* The poll comes to rest, and every controller stays as it is or is dropped.
LEMMA RestKeeps ==
    ASSUME OneLoop, IInv, J' = Idle, job' \in [Pollers -> Jobs],
           ctl' \in [Channels -> Controllers \cup {NoController}],
           \A c \in Channels : ctl'[c] \in {ctl[c], NoController},
           UNCHANGED <<row, group, alive, session, streak>>
    PROVE  IInv'
<1> USE DEF IInv
<1>1. Types' BY DEF Types
<1>2. RunOK' /\ Seen' BY DEF RunOK, Seen, InFlight, Idle
<1>3. Selects' /\ Counts' BY DEF Selects, Counts, Kept
<1> QED BY <1>1, <1>2, <1>3

LEMMA FetchKeeps ==
    ASSUME OneLoop, IInv, Fetch(Loop) PROVE IInv' /\ J.pc = "fetch"
<1> USE DEF IInv
<1>1. J \in Jobs /\ J.pc = "fetch" BY TheLoop DEF J, Types, Fetch
<1>2. UNCHANGED <<row, group, alive, ctl, session, streak>> BY DEF Fetch, history
<1>3. CASE job' = [job EXCEPT ![Loop] = EndOfJob(Loop)]
  <2>1. J' = Idle /\ job' \in [Pollers -> Jobs]
    BY <1>3, TheLoop, Resting DEF EndOfJob, J, Types
  <2> QED BY <1>1, <1>2, <2>1, RestKeeps DEF Types
<1>4. CASE \E view \in {[c \in Channels |->
                IF c \in job[Loop].todo THEN [group[c] EXCEPT !.stored = NoNode] ELSE NoGroup]} :
            job' = [job EXCEPT ![Loop].pc = "next", ![Loop].reach = alive, ![Loop].view = view]
  <2> DEFINE view == [c \in Channels |->
                 IF c \in J.todo THEN [group[c] EXCEPT !.stored = NoNode] ELSE NoGroup]
  <2>1. \A c \in Channels : /\ view[c] \in Groups
                            /\ c \in J.todo => view[c].now = group[c].now
    BY DEF Types, Groups, NoGroup
  <2>2. view \in [Channels -> Groups] BY <2>1
  <2>3. job' = [job EXCEPT ![Loop].pc = "next", ![Loop].reach = alive, ![Loop].view = view]
    BY <1>4 DEF J
  <2> HIDE DEF view
  <2>4. J' = [J EXCEPT !.pc = "next", !.reach = alive, !.view = view]
    BY <2>3, TheLoop DEF J, Types
  <2>5. J' \in Jobs BY <1>1, <2>2, <2>4 DEF Jobs, PCs, Types
  <2>6. job' = [job EXCEPT ![Loop] = J'] BY <2>3, <2>4, TheLoop DEF J, Types
  <2>7. Types' BY <1>2, <2>5, <2>6 DEF Types
  <2>8. /\ J'.pc = "next" /\ J'.rows = J.rows /\ J'.todo = J.todo /\ J'.own = J.own
        /\ J'.view = view
    BY <1>1, <2>4 DEF Jobs
  <2>9. RunOK' BY <1>1, <1>2, <2>8 DEF RunOK, InFlight
  <2>10. Seen' BY <1>2, <2>1, <2>8 DEF Seen, InFlight
  <2>11. Selects' /\ Counts' BY <1>2 DEF Selects, Counts, Kept
  <2> QED BY <1>1, <2>7, <2>9, <2>10, <2>11
<1> QED BY <1>3, <1>4 DEF Fetch

LEMMA EndRunKeeps ==
    ASSUME OneLoop, IInv, EndRun(Loop) PROVE IInv' /\ J.pc = "next"
<1> USE DEF IInv
<1>1. J.pc = "next" /\ UNCHANGED <<row, group, alive, session, streak>>
  BY DEF EndRun, history, J
<1>2. J' = Idle /\ job' \in [Pollers -> Jobs]
  BY TheLoop, Resting DEF EndRun, EndOfJob, J
<1>3. /\ ctl' \in [Channels -> Controllers \cup {NoController}]
      /\ \A c \in Channels : ctl'[c] \in {ctl[c], NoController}
  BY DEF EndRun, Types
<1> QED BY <1>1, <1>2, <1>3, RestKeeps

\* A tick that returns, or begins to wait, with the count its controller has.
LEMMA TickKeeps ==
    ASSUME OneLoop, IInv, Tick(Loop) PROVE IInv' /\ J.pc = "next"
<1> USE DEF IInv
<1>1. J \in Jobs /\ J.pc = "next" /\ UNCHANGED <<row, group, alive, session, streak>>
  BY TheLoop DEF J, Types, Tick
<1> SUFFICES IInv' BY <1>1
<1> DEFINE Ticks(c, state) ==
        LET kind == J.rows[c].kind
        IN \/ kind = "speed" /\ TickSpeed(Loop, c)
           \/ kind # "speed" /\ Current(c).checked /\ Return(Loop, c, Current(c))
           \/ /\ kind # "speed" /\ ~Current(c).checked
              /\ \/ kind = "manual"  /\ TickManual(Loop, c, state)
                 \/ kind \in {"optimal", "sticky"} /\ ~HasGroup(Loop, c) /\ Return(Loop, c, state)
                 \/ kind = "optimal" /\ HasGroup(Loop, c) /\ TickOptimal(Loop, c, state)
                 \/ kind = "sticky"  /\ HasGroup(Loop, c) /\ TickSticky(Loop, c, state)
<1> PICK c \in J.todo : \E state \in {[Current(c) EXCEPT !.checked = TRUE]} : Ticks(c, state)
  BY DEF Tick, J
<1> PICK state \in {[Current(c) EXCEPT !.checked = TRUE]} : Ticks(c, state)
  OBVIOUS
<1>2. c \in Channels /\ J.rows[c] \in AllPolicies /\ J.view[c] \in Groups
  BY <1>1 DEF Jobs, AnyRow, RunOK
<1> DEFINE Same(s) == /\ s \in Controllers
                      /\ s.failures = 0 \/ (ctl[c] # NoController /\ s.failures = ctl[c].failures)
<1>3. Same(Current(c)) BY <1>2, Resting DEF Current, Types, FreshController
<1>4. \A b \in BOOLEAN : Same([Current(c) EXCEPT !.checked = b])
  BY <1>3 DEF Controllers
<1>5. \A h \in {"none", "young", "old"} :
         Same([[Current(c) EXCEPT !.checked = TRUE] EXCEPT !.held = h])
  BY <1>3 DEF Controllers
<1>6. \A n \in Nodes \cup {NoNode} : Same([Current(c) EXCEPT !.cleared = n])
  BY <1>3 DEF Controllers
<1>7. state = [Current(c) EXCEPT !.checked = TRUE] /\ Same(state) BY <1>4
<1>8. ASSUME NEW s, Same(s), Return(Loop, c, s) PROVE IInv'
  <2>1. Left(c, s) BY <1>1, <1>8, ReturnStep
  <2> QED BY <1>1, <1>2, <1>8, <2>1, Quiet
<1>9. ASSUME NEW s, Same(s), NEW label \in Going, NEW n \in AnyNode, Fits(label, c),
             Begin(Loop, c, label, n, s)
      PROVE  IInv'
  <2>1. Left(c, s) BY <1>1, <1>9, BeginStep
  <2> QED BY <1>1, <1>2, <1>9, <2>1, Quiet
<1>10. \A label \in {"clear", "probePin", "select"} : label \in Going /\ Fits(label, c)
  BY DEF Going, Fits
<1> HIDE DEF Same, IInv
<1>11. CASE TickSpeed(Loop, c)
  <2>1. J.view[c].fixed \in AnyNode BY <1>2 DEF Groups, AnyNode
  <2>2. \/ \E s \in {[Current(c) EXCEPT !.cleared = NoNode], Current(c)} : Return(Loop, c, s)
        \/ Begin(Loop, c, "clear", J.view[c].fixed, Current(c))
    BY <1>11 DEF TickSpeed, J
  <2> QED BY <1>3, <1>6, <1>8, <1>9, <1>10, <2>1, <2>2
<1>12. CASE TickManual(Loop, c, state)
  <2>1. J.rows[c].pin \in AnyNode /\ NoNode \in AnyNode BY <1>2 DEF AllPolicies, AnyNode
  <2>2. \/ Begin(Loop, c, "probePin", NoNode, state)
        \/ Begin(Loop, c, "select", J.rows[c].pin, state)
        \/ Return(Loop, c, state)
    BY <1>12 DEF TickManual, J
  <2> QED BY <1>7, <1>8, <1>9, <1>10, <2>1, <2>2
<1>13. CASE TickOptimal(Loop, c, state)
  <2>1. (\E n \in AnyNode : Begin(Loop, c, "select", n, state)) \/ Return(Loop, c, state)
    BY <1>1, <1>13 DEF TickOptimal, AnyNode, J, Jobs
  <2> QED BY <1>7, <1>8, <1>9, <1>10, <2>1
<1>14. CASE J.rows[c].kind = "sticky" /\ TickSticky(Loop, c, state)
  <2>1. state.held \in {"none", "young", "old"} BY <1>7 DEF Same, Controllers
  <2>2. CASE J.view[c].now = NoNode
    <3>1. Begin(Loop, c, "pickFirst", NoNode, state) BY <1>14, <2>2 DEF TickSticky, J
    <3>2. "pickFirst" \in Going /\ Fits("pickFirst", c) /\ NoNode \in AnyNode
      BY <1>14 DEF Going, Fits, AnyNode
    <3> QED BY <1>7, <1>9, <3>1, <3>2
  <2>3. CASE J.view[c].now # NoNode
    <3>1. PICK held \in {"none", "young", "old"}, label \in {"pickAnew", "probe"} :
              Begin(Loop, c, label, NoNode, [state EXCEPT !.held = held])
      BY <1>14, <2>1, <2>3 DEF TickSticky, J
    <3>2. label \in Going /\ Fits(label, c) /\ NoNode \in AnyNode
      BY <1>14, <2>3 DEF Going, Fits, AnyNode
    <3>3. Same([state EXCEPT !.held = held]) BY <1>5, <1>7
    <3> QED BY <1>9, <3>1, <3>2, <3>3
  <2> QED BY <2>2, <2>3
<1> QED BY <1>1, <1>3, <1>7, <1>8, <1>11, <1>12, <1>13, <1>14

\* A failed request.
LEMMA ThrowsKeeps ==
    ASSUME OneLoop, IInv, InFlight, Throws(Loop), UNCHANGED <<row, alive, session, streak>>
    PROVE  IInv'
BY Holding, DoneKeeps DEF IInv, Throws

\* A step of the loop that ends a tick and changes the group of its channel.
LEMMA ChangeKeeps ==
    ASSUME OneLoop, IInv, InFlight, NEW state \in Controllers, Done(Loop, state), Elsewhere(J.c),
           UNCHANGED streak, Selects',
           Kept(J.c) => \/ state.failures = 0
                        \/ state.failures = ctl[J.c].failures /\ group'[J.c].now = group[J.c].now
    PROVE  IInv'
<1> USE DEF IInv
<1>1. J.c \in Channels /\ ctl[J.c] # NoController BY Holding
<1>2. Left(J.c, state) BY DoneStep
<1>3. Types' BY <1>2 DEF Types, Left, Elsewhere
<1>4. Counts'
  <2>1. \A c \in Channels : (Kept(c)' <=> Kept(c)) /\ streak[c].n \in Nat
    BY DEF Kept, Types, Elsewhere
  <2>2. ctl'[J.c] = state /\ \A c \in Channels : c # J.c => ctl'[c] = ctl[c]
    BY <1>2 DEF Left, Types
  <2> QED BY <1>1, <2>1, <2>2 DEF Counts, Elsewhere
<1> QED BY <1>2, <1>3, <1>4 DEF Left

LEMMA ClearKeeps ==
    ASSUME OneLoop, IInv, Clear(Loop) PROVE IInv' /\ J.pc = "clear"
<1> USE DEF IInv
<1>1. J.pc = "clear" /\ InFlight /\ UNCHANGED <<row, alive, session, streak>>
  BY DEF Clear, history, J, InFlight
<1>2. J \in Jobs /\ J.c \in Channels /\ Ctl(Loop) = ctl[J.c] /\ Ctl(Loop) \in Controllers
  BY <1>1, Holding
<1>3. CASE Throws(Loop) BY <1>1, <1>3, ThrowsKeeps
<1>4. CASE /\ group' = IF group[J.c].type = "url-test"
                       THEN [group EXCEPT ![J.c].fixed = NoNode, ![J.c].stored = NoNode] ELSE group
           /\ Done(Loop, [Ctl(Loop) EXCEPT !.cleared = J.target])
  <2>1. [Ctl(Loop) EXCEPT !.cleared = J.target] \in Controllers
        /\ [Ctl(Loop) EXCEPT !.cleared = J.target].failures = ctl[J.c].failures
    BY <1>2 DEF Controllers, Jobs, AnyNode
  <2>2. /\ group' \in [Channels -> Groups] /\ \A c \in Channels : group'[c].now = group[c].now
        /\ \A c \in Channels : group[c].type = "select" => group'[c] = group[c]
    <3>1. ASSUME NEW g \in Groups
          PROVE  LET cleared == [g EXCEPT !.fixed = NoNode, !.stored = NoNode]
                 IN  cleared \in Groups /\ cleared.now = g.now
      BY <3>1 DEF Groups
    <3>2. group[J.c] \in Groups BY <1>2 DEF Types
    <3> QED BY <1>2, <1>4, <3>1, <3>2 DEF Types
  <2>3. Elsewhere(J.c) BY <1>1, <2>2 DEF Elsewhere
  <2>4. Selects' BY <1>1, <2>2 DEF Selects, Kept
  <2> QED BY <1>1, <1>2, <1>4, <2>1, <2>2, <2>3, <2>4, ChangeKeeps
<1> QED BY <1>1, <1>3, <1>4 DEF Clear, J

LEMMA SelectKeeps ==
    ASSUME OneLoop, IInv, Select(Loop) PROVE IInv' /\ J.pc = "select"
<1> USE DEF IInv
<1>1. J.pc = "select" /\ InFlight /\ UNCHANGED <<row, alive, session, streak>>
  BY DEF Select, history, J, InFlight
<1>2. /\ J \in Jobs /\ J.c \in Channels /\ J.target \in AnyNode
      /\ Ctl(Loop) = ctl[J.c] /\ Ctl(Loop) \in Controllers /\ Policy(Loop) = J.rows[J.c]
  BY <1>1, Holding DEF Jobs
<1>3. CASE Throws(Loop) BY <1>1, <1>3, ThrowsKeeps
<1>4. CASE Done(Loop, Ctl(Loop)) /\ UNCHANGED group BY <1>1, <1>2, <1>4, DoneKeeps
<1>5. CASE /\ group' = Selected(Loop)
           /\ \E k \in IF Policy(Loop).kind = "sticky" THEN CountedAnew(Loop) ELSE {Ctl(Loop).failures} :
                 Done(Loop, [Ctl(Loop) EXCEPT !.held = "young", !.failures = k])
  <2> PICK k \in IF Policy(Loop).kind = "sticky" THEN CountedAnew(Loop) ELSE {Ctl(Loop).failures} :
               Done(Loop, [Ctl(Loop) EXCEPT !.held = "young", !.failures = k])
    BY <1>5
  <2>1. k \in 0..Threshold BY <1>2, ChannelAssumption DEF CountedAnew, Controllers
  <2>2. /\ [Ctl(Loop) EXCEPT !.held = "young", !.failures = k] \in Controllers
        /\ [Ctl(Loop) EXCEPT !.held = "young", !.failures = k].failures = k
    BY <1>2, <2>1 DEF Controllers
  <2>3. Kept(J.c) => k = 0
    BY <1>1, <1>2 DEF Kept, RunOK, CountedAnew, InFlight, J
  <2>4. PICK fixed \in AnyNode :
            group' = [group EXCEPT ![J.c] =
                         [@ EXCEPT !.now = J.target, !.stored = J.target, !.fixed = fixed]]
    BY <1>2, <1>5 DEF Selected, J, AnyNode
  <2>5. /\ group' \in [Channels -> Groups]
        /\ \A c \in Channels : c # J.c => group'[c] = group[c]
        /\ group'[J.c].type = group[J.c].type /\ group'[J.c].stored = group'[J.c].now
    <3>1. group[J.c] \in Groups BY <1>2 DEF Types
    <3>2. group'[J.c] = [group[J.c] EXCEPT !.now = J.target, !.stored = J.target, !.fixed = fixed]
      BY <1>2, <2>4 DEF Types
    <3>3. group'[J.c] \in Groups BY <1>2, <3>1, <3>2 DEF Groups, AnyNode
    <3> QED BY <1>2, <2>4, <3>1, <3>2, <3>3 DEF Types, Groups
  <2>6. Elsewhere(J.c) BY <1>1, <2>5 DEF Elsewhere
  <2>7. Selects' BY <1>1, <2>5 DEF Selects, Kept
  <2> QED BY <1>1, <2>2, <2>3, <2>6, <2>7, ChangeKeeps
<1> QED BY <1>1, <1>3, <1>4, <1>5 DEF Select, J

\* Picking and probing, but for the probe of the held node.
LEMMA PickKeeps ==
    ASSUME OneLoop, IInv,
           ProbePin(Loop) \/ PickOther(Loop) \/ PickFirst(Loop) \/ PickAnew(Loop) \/ PickNext(Loop)
    PROVE  IInv' /\ J.pc # "probe"
<1>1. /\ J.pc \in {"probePin", "pickOther", "pickFirst", "pickAnew", "pickNext"} /\ InFlight
      /\ UNCHANGED <<row, group, alive, session, streak>>
  BY DEF ProbePin, PickOther, PickFirst, PickAnew, PickNext, history, J, InFlight
<1> SUFFICES IInv' BY <1>1
<1>2. Types /\ RunOK BY DEF IInv
<1>3. /\ Ctl(Loop) \in Controllers /\ Policy(Loop) \in AllPolicies
      /\ Policy(Loop).pin \in AnyNode
      /\ Active(Loop) \in AnyNode /\ Active(Loop) = J.view[J.c].now
  BY <1>1, <1>2, Holding
<1>4. \A names \in SUBSET Nodes : Best(names) \subseteq Nodes BY DEF Best
<1>5. [Ctl(Loop) EXCEPT !.held = "young"] \in Controllers
      /\ [Ctl(Loop) EXCEPT !.held = "young"].failures = Ctl(Loop).failures
  BY <1>3 DEF Controllers
<1>6. \A label \in {"pickOther", "select"} : label \in Going /\ Fits(label, J.c)
  BY DEF Going, Fits
<1>7. NoNode \in AnyNode /\ \A n \in Nodes : n \in AnyNode BY DEF AnyNode
<1>8. CASE ProbePin(Loop)
  <2>1. \/ Await(Loop, "pickOther", NoNode, Ctl(Loop))
        \/ Await(Loop, "select", Policy(Loop).pin, Ctl(Loop))
        \/ Done(Loop, Ctl(Loop))
    BY <1>8 DEF ProbePin
  <2> QED BY <1>1, <1>3, <1>6, <1>7, <2>1, AwaitKeeps, DoneKeeps
<1>9. CASE PickOther(Loop)
  <2>1. \E n \in Nodes : Apply(Loop, n, Ctl(Loop)) BY <1>4, <1>9 DEF PickOther
  <2> QED BY <1>1, <2>1, ApplyKeeps
<1>10. CASE PickFirst(Loop)
  <2>1. \E n \in Nodes : Apply(Loop, n, Ctl(Loop)) BY <1>4, <1>10 DEF PickFirst
  <2> QED BY <1>1, <2>1, ApplyKeeps
<1>11. CASE PickAnew(Loop)
  <2>1. \/ \E n \in Nodes : Apply(Loop, n, Ctl(Loop))
        \/ Await(Loop, "probe", NoNode, [Ctl(Loop) EXCEPT !.held = "young"])
    BY <1>4, <1>11 DEF PickAnew
  <2>2. "probe" \in Going /\ Fits("probe", J.c)
    BY <1>2, <1>11 DEF Going, Fits, RunOK, PickAnew, J
  <2> QED BY <1>1, <1>5, <1>7, <2>1, <2>2, ApplyKeeps, AwaitKeeps
<1>12. CASE PickNext(Loop)
  <2>1. Alternatives(Loop) \in SUBSET Nodes BY DEF Alternatives
  <2>2. PICK n \in Nodes :
            IF n = Active(Loop)
            THEN \E k \in CountedAnew(Loop) :
                    Done(Loop, [Ctl(Loop) EXCEPT !.held = "young", !.failures = k])
            ELSE Await(Loop, "select", n, Ctl(Loop))
    BY <1>4, <1>12, <2>1 DEF PickNext
  <2>3. CASE Await(Loop, "select", n, Ctl(Loop))
    BY <1>1, <1>3, <1>6, <1>7, <2>3, AwaitKeeps
  <2>4. ASSUME NEW k \in CountedAnew(Loop),
               Done(Loop, [Ctl(Loop) EXCEPT !.held = "young", !.failures = k])
        PROVE  IInv'
    <3>1. k \in {0, Ctl(Loop).failures} BY DEF CountedAnew
    <3>2. /\ [Ctl(Loop) EXCEPT !.held = "young", !.failures = k] \in Controllers
          /\ [Ctl(Loop) EXCEPT !.held = "young", !.failures = k].failures = k
      <4>1. k \in 0..Threshold BY <1>3, <3>1, ChannelAssumption DEF Controllers
      <4> QED BY <1>3, <4>1 DEF Controllers
    <3> QED BY <1>1, <2>4, <3>1, <3>2, DoneKeeps
  <2> QED BY <2>2, <2>3, <2>4
<1> QED BY <1>8, <1>9, <1>10, <1>11, <1>12

\* The probe of the held node: the misses counted are misses in a row, and the
\* threshold is reached by as many of the node the channel is on.
LEMMA ProbeKeeps ==
    ASSUME OneLoop, IInv, ProbeActive(Loop) PROVE IInv' /\ Earned
<1> USE DEF IInv
<1> DEFINE c == J.c
           active == J.view[c].now
           failures == Counted(ctl[c].failures, active \in alive)
           state == [ctl[c] EXCEPT !.failures = failures]
           missed == IF active \in alive THEN 0
                     ELSE IF streak[c].node = active /\ streak[c].n < Threshold THEN streak[c].n + 1
                     ELSE IF streak[c].node = active THEN streak[c].n ELSE 1
<1>1. J.pc = "probe" /\ InFlight /\ UNCHANGED <<row, group, alive, session>>
  BY DEF ProbeActive, J, InFlight
<1>2. /\ J \in Jobs /\ c \in Channels /\ Ctl(Loop) = ctl[c] /\ Active(Loop) = active
      /\ ctl[c] \in Controllers /\ active \in AnyNode /\ ctl[c] # NoController
      /\ J.rows[c] # NoPolicy /\ J.rows[c].kind = "sticky" /\ active # NoNode
  BY <1>1, Holding DEF RunOK
<1>3. /\ streak' = [streak EXCEPT ![c] = [node |-> active, n |-> missed]]
      /\ IF failures = Threshold THEN Await(Loop, "pickNext", NoNode, state) ELSE Done(Loop, state)
  BY <1>2, Zenon DEF ProbeActive, J
<1>4. ctl[c].failures \in 0..Threshold /\ streak[c].n \in 0..Threshold /\ Threshold \in Nat \ {0}
  BY <1>2, ChannelAssumption DEF Controllers, Types
<1>5. failures \in 0..Threshold /\ missed \in 0..Threshold BY <1>4 DEF Counted
<1>6. state \in Controllers /\ state.failures = failures BY <1>2, <1>5 DEF Controllers
<1>7. Kept(c) => failures <= missed /\ active = group[c].now
  <2>1. Kept(c) => active = group[c].now BY <1>1, <1>2 DEF Seen
  <2>2. Kept(c) => ctl[c].failures <= streak[c].n /\ (ctl[c].failures > 0 => streak[c].node = active)
    BY <1>2, <2>1 DEF Counts
  <2> QED BY <1>4, <2>1, <2>2 DEF Counted
<1>8. session[c] = 0 => Kept(c) BY <1>1, <1>2 DEF Kept, RunOK
<1>9. streak'[c] = [node |-> active, n |-> missed]
      /\ \A d \in Channels : d # c => streak'[d] = streak[d]
  BY <1>2, <1>3 DEF Types
<1> HIDE DEF c, active, failures, state, missed
<1>10. Left(c, state) /\ (J'.pc = "pickNext" => failures = Threshold)
  <2>1. CASE failures = Threshold
    <3>1. "pickNext" \in Going /\ NoNode \in AnyNode /\ Fits("pickNext", c)
      BY <1>2 DEF Going, AnyNode, Fits
    <3> QED BY <1>1, <1>3, <1>6, <2>1, <3>1, AwaitStep DEF c
  <2>2. CASE failures # Threshold
    <3>1. Elsewhere(c) BY <1>1 DEF Elsewhere, Types
    <3> QED BY <1>1, <1>3, <1>6, <2>2, <3>1, DoneStep DEF c
  <2> QED BY <2>1, <2>2
<1>11. Types'
  <2>1. streak' \in [Channels -> [node : AnyNode, n : 0..Threshold]]
    BY <1>2, <1>3, <1>5 DEF Types
  <2> QED BY <1>1, <1>10, <2>1 DEF Types, Left
<1>12. Selects' BY <1>1 DEF Selects, Kept
<1>13. Counts'
  <2>1. \A d \in Channels : Kept(d)' <=> Kept(d) BY <1>1 DEF Kept
  <2>2. ctl'[c] = state /\ \A d \in Channels : d # c => ctl'[d] = ctl[d]
    BY <1>2, <1>10 DEF Left, Types
  <2>3. ASSUME NEW d \in Channels, Kept(d)', ctl'[d] # NoController
        PROVE  /\ ctl'[d].failures <= streak'[d].n
               /\ ctl'[d].failures > 0 => streak'[d].node = group'[d].now /\ group'[d].now # NoNode
    <3>1. CASE d = c BY <1>1, <1>2, <1>6, <1>7, <1>9, <2>1, <2>2, <2>3, <3>1
    <3>2. CASE d # c BY <1>1, <1>9, <2>1, <2>2, <2>3, <3>2 DEF Counts
    <3> QED BY <3>1, <3>2
  <2> QED BY <2>3 DEF Counts
<1>14. Earned BY <1>4, <1>5, <1>7, <1>8, <1>9, <1>10 DEF Earned, c
<1> QED BY <1>10, <1>11, <1>12, <1>13, <1>14 DEF Left

----------------------------------------------------------------------------
(* The theorems *)

\* Every step keeps the invariant, and a step from the probe to the choice of the
\* next node is earned.
LEMMA Inductive == OneLoop /\ IInv /\ [Next]_vars => IInv' /\ Earned
<1> SUFFICES ASSUME OneLoop, IInv, [Next]_vars PROVE IInv' /\ Earned OBVIOUS
<1>1. ASSUME IInv', J' = J PROVE IInv' /\ Earned BY <1>1 DEF Earned
<1>2. ASSUME IInv', J.pc # "probe" PROVE IInv' /\ Earned BY <1>2 DEF Earned
<1>3. CASE Administrator
  <2>1. J' = J
    BY <1>3 DEF Administrator, Remove, SetPolicy, Add, Edit, J
  <2> QED BY <1>1, <1>3, <2>1, AdministratorKeeps
<1>4. CASE Engine
  <2>1. J' = J BY <1>4 DEF Engine, Reload, NodeChanges, Race, J
  <2> QED BY <1>1, <1>4, <2>1, EngineKeeps
<1>5. CASE Time
  <2>1. J' = J BY <1>5 DEF Time, Elapse, HoldEnds, J
  <2> QED BY <1>1, <1>5, <2>1, TimeKeeps
<1>6. CASE \E p \in Pollers : Poll(p)
  <2>1. Poll(Loop) BY <1>6, TheLoop
  <2>2. CASE StartRun(Loop) BY <1>2, <2>2, StartRunKeeps
  <2>3. CASE Fetch(Loop) BY <1>2, <2>3, FetchKeeps
  <2>4. CASE Tick(Loop) BY <1>2, <2>4, TickKeeps
  <2>5. CASE EndRun(Loop) BY <1>2, <2>5, EndRunKeeps
  <2>6. CASE Clear(Loop) BY <1>2, <2>6, ClearKeeps
  <2>7. CASE ProbePin(Loop) \/ PickOther(Loop) \/ PickFirst(Loop) \/ PickAnew(Loop) \/ PickNext(Loop)
    BY <1>2, <2>7, PickKeeps
  <2>8. CASE ProbeActive(Loop) BY <2>8, ProbeKeeps
  <2>9. CASE Select(Loop) BY <1>2, <2>9, SelectKeeps
  <2> QED BY <2>1, <2>2, <2>3, <2>4, <2>5, <2>6, <2>7, <2>8, <2>9 DEF Poll
<1>7. CASE UNCHANGED vars
  <2>1. IInv' /\ J' = J
    BY <1>7 DEF vars, history, IInv, Types, RunOK, Seen, Selects, Counts, Kept, InFlight, J
  <2> QED BY <1>1, <2>1
<1> QED BY <1>3, <1>4, <1>5, <1>6, <1>7 DEF Next

\* With the polls of one loop, the poll works on the rows and groups of the channels
\* nobody reconfigured, and a controller never counts more misses than its node had.
THEOREM Invariance == OneLoop => (Spec => []IInv)
<1> SUFFICES ASSUME OneLoop PROVE Spec => []IInv OBVIOUS
<1>1. Init => IInv BY Initially
<1>2. IInv /\ [Next]_vars => IInv' BY Inductive
<1> QED BY <1>1, <1>2, PTL DEF Spec

\* A sticky channel nobody reconfigured leaves a node only after as many misses in a
\* row of that very node as its policy says, however many channels there are.
THEOREM FailoverIsEarned == OneLoop => (Spec => FailoverEarned)
<1> SUFFICES ASSUME OneLoop PROVE Spec => FailoverEarned OBVIOUS
<1>1. ASSUME IInv, [Next]_vars
      PROVE  [\A p \in Pollers :
                 job[p].pc = "probe" /\ job'[p].pc = "pickNext" /\ session[job[p].c] = 0
                   => streak'[job[p].c].n = Threshold]_vars
  BY <1>1, Inductive, TheLoop DEF Earned, J
<1>2. Init => IInv BY Initially
<1>3. IInv /\ [Next]_vars => IInv' BY Inductive
<1> QED BY <1>1, <1>2, <1>3, PTL DEF Spec, FailoverEarned

\* So it is in the part of MCChannels with one loop.
THEOREM FailoversAreEarned ==
    OneLoop /\ Loop = loop /\ Channels = {ch} => (PartSpec => FailoversEarned)
<1> SUFFICES ASSUME OneLoop, Loop = loop, Channels = {ch} PROVE PartSpec => FailoversEarned
  OBVIOUS
<1> DEFINE Inv == part = "loop" => IInv
<1>1. PartInit => Inv BY Initially DEF PartInit
<1>2. Inv /\ [PartNext]_partVars => Inv'
  <2> SUFFICES ASSUME Inv, [PartNext]_partVars, part' = "loop" PROVE IInv' OBVIOUS
  <2>1. part = "loop" /\ [Next]_vars BY DEF PartNext, partVars
  <2> QED BY <2>1, Inductive
<1>3. ASSUME Inv, [PartNext]_partVars
      PROVE  [part = "loop" /\ job[loop].pc = "probe" /\ job'[loop].pc = "pickNext"
                 /\ session[ch] = 0 => streak'[ch].n = Threshold]_vars
  <2> SUFFICES ASSUME part = "loop", job[loop].pc = "probe", job'[loop].pc = "pickNext",
                      session[ch] = 0
               PROVE  streak'[ch].n = Threshold
    OBVIOUS
  <2>1. IInv /\ [Next]_vars BY <1>3 DEF PartNext, partVars
  <2>2. J.c = ch BY <2>1, TheLoop DEF IInv, Types, J, Jobs
  <2> QED BY <2>1, <2>2, Inductive DEF Earned, J
<1> QED BY <1>1, <1>2, <1>3, PTL DEF PartSpec, FailoversEarned
=============================================================================
