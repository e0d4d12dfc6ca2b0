----------------------- MODULE DomainDeploymentProofs -----------------------
(***************************************************************************)
(* Proofs about DomainDeployment, for every set of groups, any number of   *)
(* transitions waiting for each other and without a bound on the changes:  *)
(* what is called proved stays so, whatever overtakes its proof.           *)
(***************************************************************************)
EXTENDS DomainDeployment, TLAPS

Kinds == {"reconcile", "apply", "settings", "rules"}
Routes == Groups \cup {NoGroup}
Transitions ==
    [kind : Kinds, pc : {"wait", "provision", "apply", "prove"},
     gen : BOOLEAN, act : BOOLEAN, epoch : BOOLEAN,
     suspended : {"waiting", "yes", "failed"}, expects : Nat \cup {Unknown},
     target : Routes, saw : Nat, managed : BOOLEAN, forced : BOOLEAN,
     applied : BOOLEAN, sure : BOOLEAN]

Values ==
    /\ mode \in {"apply", "report"} /\ life \in {"stopping", "failed", "disabled", "enabled"}
    /\ settings \in [enabled : BOOLEAN, target : Routes]
    /\ store \in [rules : Nat, known : BOOLEAN, writing : BOOLEAN]
    /\ engine \in [rules : Nat, route : Routes]
    /\ provisioned \in BOOLEAN /\ expected \in Nat \cup {Unknown}
    /\ active \in BOOLEAN /\ capability \in BOOLEAN
    /\ coordinator \in [recovery : BOOLEAN, verified : BOOLEAN, stopped : BOOLEAN]
    /\ recovery \in BOOLEAN
Types == Values /\ ops \in Seq(Transitions)

-----------------------------------------------------------------------------
(* The inductive invariant                                                   *)

\* Only the first transition is in progress, with collection suspended, and only
\* the last one is of the current generation; collection stays suspended for it.
InOrder ==
    /\ \A i \in 2..Len(ops) : ops[i].pc = "wait"
    /\ \A i \in 1..(Len(ops) - 1) : ~ops[i].gen
    /\ \A i \in 1..Len(ops) :
          /\ ops[i].pc # "wait" => ops[i].suspended = "yes"
          /\ ops[i].gen /\ ops[i].suspended = "yes" /\ ~coordinator.stopped => life = "disabled"

\* What the controller knows of the file.
Knows ==
    /\ provisioned => expected # Unknown /\ (expected = store.rules \/ store.writing)
    /\ active => provisioned
    /\ capability => provisioned /\ mode = "apply"

\* An epoch ends no later than the activation it belongs to; and what a waiting
\* transition has withdrawn is not back while its own activation is current.
Fenced ==
    /\ mode = "apply" => \A i \in 1..Len(ops) : ops[i].epoch => ops[i].act
    /\ \A i \in 1..Len(ops) :
          ops[i].pc = "wait" /\ ops[i].act /\ ops[i].kind # "settings" =>
             /\ ~active
             /\ ops[i].kind = "reconcile" => ~capability
             /\ \A j \in 1..(i - 1) : ~ops[j].act

\* The transition in progress: what it has read and what it has withdrawn.
Provisioning(o) ==
    o.pc = "provision" =>
       /\ o.kind = "reconcile" /\ mode = "apply" /\ ~provisioned /\ ~active /\ ~capability
       /\ o.act => o.epoch
Applies(o) == o.pc \in {"apply", "prove"}
Holds(o) ==
    Applies(o) =>
       /\ o.managed = provisioned
       /\ o.target # NoGroup => provisioned
       /\ o.pc = "prove" => o.target # NoGroup
       /\ o.kind = "reconcile" => ~capability /\ ~active
       /\ o.saw # store.rules => ~capability /\ ~active /\ ~o.act
       /\ o.act /\ provisioned =>
             store.writing \/ o.expects = store.rules
                \/ (mode = "report" /\ o.kind = "reconcile" /\ (o.pc = "prove" => engine.rules = store.rules))
InProgress == ops # <<>> => Provisioning(ops[1]) /\ Holds(ops[1])

\* A change of the settings alone is in force when its turn comes.
Excused ==
    \/ life = "failed" \/ coordinator.stopped
    \/ \E i \in 1..Len(ops) : ops[i].kind = "settings" /\ ops[i].pc = "wait" /\ ops[i].suspended # "failed"

Routed ==
    /\ active => engine.route = settings.target \/ Excused
    /\ ops # <<>> => LET o == ops[1]
                     IN Applies(o) /\ provisioned /\ (o.act \/ active) => o.target = settings.target \/ Excused

\* Rules the engine has not loaded are owed by a transition that will revoke the
\* capability or publish it over them.
Owes(o) == o.epoch /\ (o.kind \in {"apply", "rules"} \/ (o.kind = "settings" /\ o.pc # "wait"))
Loaded ==
    /\ active => engine.rules = store.rules \/ store.writing
    /\ capability /\ ~store.writing /\ engine.rules # store.rules => \E i \in 1..Len(ops) : Owes(ops[i])

IInv == Types /\ InOrder /\ Knows /\ Fenced /\ InProgress /\ Routed /\ Loaded /\ RunsOnlyVerified

-----------------------------------------------------------------------------
(* The operators on the transitions                                          *)

\* What ends an epoch changes nothing else of a transition.
Same(b, a) ==
    /\ b.kind = a.kind /\ b.pc = a.pc /\ b.suspended = a.suspended /\ b.expects = a.expects
    /\ b.target = a.target /\ b.saw = a.saw /\ b.managed = a.managed /\ b.forced = a.forced
    /\ b.applied = a.applied /\ b.sure = a.sure

LEMMA StaleGenShape ==
    ASSUME NEW s \in Seq(Transitions)
    PROVE  /\ StaleGen(s) \in Seq(Transitions) /\ Len(StaleGen(s)) = Len(s)
           /\ \A i \in 1..Len(s) : /\ Same(StaleGen(s)[i], s[i])
                                   /\ StaleGen(s)[i].gen = FALSE /\ StaleGen(s)[i].act = s[i].act
                                   /\ StaleGen(s)[i].epoch = s[i].epoch
<1>1. Len(s) \in Nat /\ DOMAIN s = 1..Len(s) /\ \A i \in 1..Len(s) : s[i] \in Transitions
  OBVIOUS
<1>2. \A i \in 1..Len(s) : StaleGen(s)[i] \in Transitions
  BY <1>1 DEF StaleGen, Transitions
<1>3. StaleGen(s) \in Seq(Transitions) /\ Len(StaleGen(s)) = Len(s)
  BY <1>1, <1>2 DEF StaleGen
<1> QED BY <1>1, <1>3 DEF StaleGen, Same, Transitions

LEMMA StaleActShape ==
    ASSUME NEW s \in Seq(Transitions)
    PROVE  /\ StaleAct(s) \in Seq(Transitions) /\ Len(StaleAct(s)) = Len(s)
           /\ \A i \in 1..Len(s) : /\ Same(StaleAct(s)[i], s[i])
                                   /\ StaleAct(s)[i].act = FALSE /\ StaleAct(s)[i].gen = s[i].gen
                                   /\ StaleAct(s)[i].epoch = s[i].epoch
<1>1. Len(s) \in Nat /\ DOMAIN s = 1..Len(s) /\ \A i \in 1..Len(s) : s[i] \in Transitions
  OBVIOUS
<1>2. \A i \in 1..Len(s) : StaleAct(s)[i] \in Transitions
  BY <1>1 DEF StaleAct, Transitions
<1>3. StaleAct(s) \in Seq(Transitions) /\ Len(StaleAct(s)) = Len(s)
  BY <1>1, <1>2 DEF StaleAct
<1> QED BY <1>1, <1>3 DEF StaleAct, Same, Transitions

LEMMA StaleCapShape ==
    ASSUME NEW s \in Seq(Transitions), mode \in {"apply", "report"}
    PROVE  /\ StaleCap(s) \in Seq(Transitions) /\ Len(StaleCap(s)) = Len(s)
           /\ \A i \in 1..Len(s) : /\ Same(StaleCap(s)[i], s[i])
                                   /\ StaleCap(s)[i].gen = s[i].gen /\ StaleCap(s)[i].act = s[i].act
                                   /\ mode = "apply" => StaleCap(s)[i].epoch = FALSE
                                   /\ mode = "report" => StaleCap(s)[i].epoch = s[i].epoch
<1>1. CASE mode = "report"
  BY <1>1 DEF StaleCap, Same
<1>2. CASE mode = "apply"
  <2>1. Len(s) \in Nat /\ DOMAIN s = 1..Len(s) /\ \A i \in 1..Len(s) : s[i] \in Transitions
    OBVIOUS
  <2>2. StaleCap(s) = [i \in DOMAIN s |-> [s[i] EXCEPT !.epoch = FALSE]]
    BY <1>2 DEF StaleCap
  <2> DEFINE c == [i \in DOMAIN s |-> [s[i] EXCEPT !.epoch = FALSE]]
  <2>3. \A i \in 1..Len(s) : c[i] \in Transitions
    BY <2>1 DEF Transitions
  <2>4. StaleCap(s) \in Seq(Transitions) /\ Len(StaleCap(s)) = Len(s)
    BY <2>1, <2>2, <2>3
  <2> QED BY <1>2, <2>1, <2>2, <2>4 DEF Same, Transitions
<1> QED BY <1>1, <1>2

LEMMA StaleBothShape ==
    ASSUME NEW s \in Seq(Transitions), mode \in {"apply", "report"}
    PROVE  /\ StaleBoth(s) \in Seq(Transitions) /\ Len(StaleBoth(s)) = Len(s)
           /\ \A i \in 1..Len(s) : /\ Same(StaleBoth(s)[i], s[i])
                                   /\ StaleBoth(s)[i].gen = s[i].gen /\ StaleBoth(s)[i].act = FALSE
                                   /\ mode = "apply" => StaleBoth(s)[i].epoch = FALSE
                                   /\ mode = "report" => StaleBoth(s)[i].epoch = s[i].epoch
<1>1. /\ StaleCap(s) \in Seq(Transitions) /\ Len(StaleCap(s)) = Len(s)
      /\ \A i \in 1..Len(s) : /\ Same(StaleCap(s)[i], s[i])
                              /\ StaleCap(s)[i].gen = s[i].gen /\ StaleCap(s)[i].act = s[i].act
                              /\ mode = "apply" => StaleCap(s)[i].epoch = FALSE
                              /\ mode = "report" => StaleCap(s)[i].epoch = s[i].epoch
  BY StaleCapShape
<1> DEFINE c == StaleCap(s)
<1> HIDE DEF c
<1>2. /\ StaleAct(c) \in Seq(Transitions) /\ Len(StaleAct(c)) = Len(c)
      /\ \A i \in 1..Len(c) : /\ Same(StaleAct(c)[i], c[i])
                              /\ StaleAct(c)[i].act = FALSE /\ StaleAct(c)[i].gen = c[i].gen
                              /\ StaleAct(c)[i].epoch = c[i].epoch
  BY <1>1, StaleActShape DEF c
<1>3. StaleBoth(s) = StaleAct(c)
  BY DEF StaleBoth, c
<1> QED BY <1>1, <1>2, <1>3 DEF c, Same

LEMMA KeepHeadShape ==
    ASSUME NEW s \in Seq(Transitions), s # <<>>, NEW o \in Transitions
    PROVE  /\ KeepHead(s, o) \in Seq(Transitions) /\ Len(KeepHead(s, o)) = Len(s)
           /\ KeepHead(s, o)[1] = o /\ KeepHead(s, o) # <<>>
           /\ \A i \in 2..Len(s) : KeepHead(s, o)[i] = s[i]
<1>1. /\ Tail(s) \in Seq(Transitions) /\ Len(Tail(s)) = Len(s) - 1 /\ Len(s) \in Nat /\ Len(s) >= 1
      /\ \A i \in 1..(Len(s) - 1) : Tail(s)[i] = s[i + 1]
  OBVIOUS
<1>2. <<o>> \in Seq(Transitions) /\ Len(<<o>>) = 1 /\ <<o>>[1] = o
  OBVIOUS
<1> DEFINE h == <<o>>  t == Tail(s)
<1> HIDE DEF h, t
<1>3. /\ h \o t \in Seq(Transitions) /\ Len(h \o t) = 1 + Len(t)
      /\ (h \o t)[1] = h[1] /\ \A i \in 2..(1 + Len(t)) : (h \o t)[i] = t[i - 1]
  BY <1>1, <1>2 DEF h, t
<1> QED BY <1>1, <1>2, <1>3 DEF KeepHead, h, t

LEMMA TailShape ==
    ASSUME NEW s \in Seq(Transitions), s # <<>>
    PROVE  /\ Tail(s) \in Seq(Transitions) /\ Len(Tail(s)) = Len(s) - 1 /\ Len(s) \in Nat \ {0}
           /\ \A i \in 1..Len(Tail(s)) : Tail(s)[i] = s[i + 1]
           /\ Head(s) = s[1] /\ s[1] \in Transitions
  OBVIOUS

LEMMA AppendShape ==
    ASSUME NEW s \in Seq(Transitions), NEW o \in Transitions
    PROVE  /\ Append(s, o) \in Seq(Transitions) /\ Len(Append(s, o)) = Len(s) + 1
           /\ \A i \in 1..Len(s) : Append(s, o)[i] = s[i]
           /\ Append(s, o)[Len(s) + 1] = o
  OBVIOUS


-----------------------------------------------------------------------------
(* What a step does to the transitions: it ends epochs, and appends one      *)
(* transition, replaces the first one or drops it.                           *)

Weaker(b, a) ==
    /\ Same(b, a)
    /\ (b.gen => a.gen) /\ (b.act => a.act) /\ (b.epoch => a.epoch)
    /\ mode = "apply" /\ b.epoch => b.act = a.act
Kept(t, s) ==
    /\ t \in Seq(Transitions) /\ Len(t) = Len(s)
    /\ \A i \in 1..Len(s) : Weaker(t[i], s[i])

LEMMA KeptItself == ASSUME NEW s \in Seq(Transitions) PROVE Kept(s, s)
BY DEF Kept, Weaker, Same

LEMMA KeptStaleGen == ASSUME NEW s \in Seq(Transitions) PROVE Kept(StaleGen(s), s)
BY StaleGenShape DEF Kept, Weaker

LEMMA KeptStaleCap ==
    ASSUME NEW s \in Seq(Transitions), mode \in {"apply", "report"} PROVE Kept(StaleCap(s), s)
BY StaleCapShape DEF Kept, Weaker

LEMMA KeptStaleBoth ==
    ASSUME NEW s \in Seq(Transitions), mode \in {"apply", "report"} PROVE Kept(StaleBoth(s), s)
<1> DEFINE t == StaleBoth(s)
<1>1. /\ t \in Seq(Transitions) /\ Len(t) = Len(s)
      /\ \A i \in 1..Len(s) : /\ Same(t[i], s[i])
                              /\ t[i].gen = s[i].gen /\ t[i].act = FALSE
                              /\ mode = "apply" => t[i].epoch = FALSE
                              /\ mode = "report" => t[i].epoch = s[i].epoch
  BY StaleBothShape
<1> HIDE DEF t
<1> SUFFICES Kept(t, s)
  BY DEF t
<1> QED BY <1>1 DEF Kept, Weaker

LEMMA KeptTwice ==
    ASSUME NEW r, NEW s, NEW t, Kept(s, r), Kept(t, s) PROVE Kept(t, r)
BY DEF Kept, Weaker, Same

LEMMA KeptHead ==
    ASSUME NEW r \in Seq(Transitions), NEW s, Kept(s, r), r # <<>>
    PROVE  Kept(KeepHead(s, r[1]), r)
<1>1. s \in Seq(Transitions) /\ s # <<>> /\ r[1] \in Transitions /\ Len(r) \in Nat \ {0}
  BY DEF Kept
<1> DEFINE t == KeepHead(s, r[1])
<1>2. /\ t \in Seq(Transitions) /\ Len(t) = Len(s) /\ t[1] = r[1]
      /\ \A i \in 2..Len(s) : t[i] = s[i]
  BY <1>1, KeepHeadShape
<1> HIDE DEF t
<1>3. \A i \in 1..Len(r) : Weaker(t[i], r[i])
  BY <1>1, <1>2 DEF Kept, Weaker, Same
<1>4. Kept(t, r)
  BY <1>2, <1>3 DEF Kept
<1> QED BY <1>4 DEF t

LEMMA HeadShape ==
    ASSUME Types, ops # <<>>
    PROVE  /\ op = ops[1] /\ op \in Transitions /\ Len(ops) \in Nat \ {0}
           /\ ops \in Seq(Transitions)
BY DEF Types, Values, op

-----------------------------------------------------------------------------
\* The first transition ends, and with it what only it stood for.
OwnExcuse == op.kind = "settings" /\ op.pc = "wait" /\ op.suspended # "failed"

LEMMA Dropped ==
    ASSUME Types, InOrder, Fenced, ops # <<>>, mode' = mode, NEW s, Kept(s, ops), ops' = Tail(s),
           life' = life \/ (op.gen /\ op.suspended = "yes" /\ ~coordinator.stopped),
           coordinator'.stopped = coordinator.stopped,
           active' => active \/ op.act, capability' => capability \/ op.act
    PROVE  /\ ops' \in Seq(Transitions) /\ Len(ops') = Len(ops) - 1
           /\ \A i \in 1..Len(ops') : Weaker(ops'[i], ops[i + 1])
           /\ \A i \in 1..Len(ops') : ops'[i] = s[i + 1]
           /\ InOrder' /\ InProgress' /\ Fenced'
           /\ Excused => OwnExcuse \/ Excused'
           /\ ops' # <<>> => ~Applies(ops'[1])
           /\ op.gen => ops' = <<>>
<1>1. op = ops[1] /\ op \in Transitions /\ Len(ops) \in Nat \ {0} /\ ops \in Seq(Transitions)
  BY HeadShape
<1>2. s \in Seq(Transitions) /\ s # <<>> /\ Len(s) = Len(ops)
  BY <1>1 DEF Kept
<1>3. /\ ops' \in Seq(Transitions) /\ Len(ops') = Len(ops) - 1
      /\ \A i \in 1..Len(ops') : ops'[i] = s[i + 1]
  BY <1>1, <1>2, TailShape
<1>4. \A i \in 1..Len(ops') : Weaker(ops'[i], ops[i + 1])
  BY <1>1, <1>3 DEF Kept
<1>5. \A i \in 1..Len(ops') : ops[i + 1].pc = "wait" /\ ops[i + 1] \in Transitions
  BY <1>1, <1>3 DEF InOrder
<1>6. op.gen => Len(ops) = 1
  <2> SUFFICES ASSUME op.gen, Len(ops) # 1 PROVE FALSE
    OBVIOUS
  <2>1. \A n \in Nat \ {0} : n # 1 => 1 \in 1..(n - 1)
    OBVIOUS
  <2>2. 1 \in 1..(Len(ops) - 1)
    BY <1>1, <2>1, Zenon
  <2> QED BY <1>1, <2>2 DEF InOrder
<1>7. op.gen => ops' = <<>>
  BY <1>1, <1>3, <1>6
<1>8. InOrder'
  <2>1. \A i \in 1..Len(ops') : ops'[i].pc = "wait"
    BY <1>4, <1>5 DEF Weaker, Same
  <2>2. \A i \in 1..(Len(ops') - 1) : ~ops'[i].gen
    BY <1>1, <1>3, <1>4 DEF Weaker, InOrder
  <2>3. ASSUME NEW i \in 1..Len(ops'), ops'[i].gen, ops'[i].suspended = "yes", ~coordinator'.stopped
        PROVE  life' = "disabled"
    <3>1. ops[i + 1].gen /\ ops[i + 1].suspended = "yes" /\ i + 1 \in 1..Len(ops)
      BY <1>1, <1>3, <1>4, <2>3 DEF Weaker, Same
    <3>2. ~op.gen
      BY <1>1, <1>3, <1>6
    <3> QED BY <3>1, <3>2, <2>3 DEF InOrder
  <2> QED BY <1>1, <1>3, <2>1, <2>2, <2>3 DEF InOrder
<1>9. ops' # <<>> => 1 \in 1..Len(ops') /\ ops'[1].pc = "wait"
  <2>1. ops' # <<>> => 1 \in 1..Len(ops')
    BY <1>3
  <2> QED BY <2>1, <1>4, <1>5 DEF Weaker, Same
<1>10. InProgress'
  BY <1>9 DEF InProgress, Provisioning, Holds, Applies
<1>11. Fenced'
  <2>1. mode' = "apply" => \A i \in 1..Len(ops') : ops'[i].epoch => ops'[i].act
    BY <1>1, <1>3, <1>4, <1>5 DEF Fenced, Weaker
  <2>2. ASSUME NEW i \in 1..Len(ops'), ops'[i].act, ops'[i].kind # "settings"
        PROVE  /\ ~active' /\ (ops'[i].kind = "reconcile" => ~capability')
               /\ \A j \in 1..(i - 1) : ~ops'[j].act
    <3>1. /\ ops[i + 1].act /\ ops[i + 1].kind = ops'[i].kind /\ ops[i + 1].pc = "wait"
          /\ i + 1 \in 1..Len(ops)
      BY <1>1, <1>3, <1>4, <1>5, <2>2 DEF Weaker, Same
    <3>2. /\ ~active /\ (ops[i + 1].kind = "reconcile" => ~capability)
          /\ \A j \in 1..i : ~ops[j].act
      BY <1>1, <3>1, <2>2 DEF Fenced
    <3>3. ~op.act
      BY <1>1, <3>2
    <3>4. \A j \in 1..(i - 1) : ~ops'[j].act
      BY <1>1, <1>3, <1>4, <3>2 DEF Weaker
    <3> QED BY <3>1, <3>2, <3>3, <3>4
  <2> QED BY <2>1, <2>2 DEF Fenced
<1>12. Excused => OwnExcuse \/ Excused'
  <2> SUFFICES ASSUME Excused, ~OwnExcuse PROVE Excused'
    OBVIOUS
  <2>1. CASE coordinator.stopped
    BY <2>1 DEF Excused
  <2>2. CASE life = "failed" /\ ~coordinator.stopped
    <3>1. life' = life
      BY <1>1, <2>2 DEF InOrder
    <3> QED BY <3>1, <2>2 DEF Excused
  <2>3. CASE \E i \in 1..Len(ops) :
               ops[i].kind = "settings" /\ ops[i].pc = "wait" /\ ops[i].suspended # "failed"
    <3>1. PICK i \in 1..Len(ops) :
               ops[i].kind = "settings" /\ ops[i].pc = "wait" /\ ops[i].suspended # "failed"
      BY <2>3
    <3>2. i # 1
      BY <1>1, <3>1 DEF OwnExcuse
    <3>3. i - 1 \in 1..Len(ops') /\ (i - 1) + 1 = i
      BY <1>1, <1>3, <3>2
    <3>4. Weaker(ops'[i - 1], ops[i])
      BY <1>4, <3>3
    <3> QED BY <3>1, <3>3, <3>4 DEF Excused, Weaker, Same
  <2> QED BY <2>1, <2>2, <2>3 DEF Excused
<1> QED BY <1>3, <1>4, <1>7, <1>8, <1>9, <1>10, <1>11, <1>12 DEF Applies

\* The first transition goes on, or starts over.
LEMMA Replaced ==
    ASSUME Types, InOrder, Fenced, ops # <<>>, mode' = mode, NEW s, Kept(s, ops),
           NEW o \in Transitions, ops' = KeepHead(s, o),
           o.pc # "wait", o.gen = op.gen, o.suspended = "yes", op.suspended = "yes",
           mode = "apply" /\ o.epoch => o.act,
           o.act => op.act \/ \A i \in 1..Len(s) : ~s[i].act,
           life' = life, coordinator'.stopped = coordinator.stopped,
           active' => active \/ op.act, capability' => capability \/ op.act
    PROVE  /\ ops' \in Seq(Transitions) /\ Len(ops') = Len(ops) /\ ops' # <<>> /\ ops'[1] = o
           /\ \A i \in 2..Len(ops) : Weaker(ops'[i], ops[i]) /\ ops'[i] = s[i]
           /\ InOrder' /\ Fenced'
           /\ Excused => OwnExcuse \/ Excused'
<1>1. op = ops[1] /\ op \in Transitions /\ Len(ops) \in Nat \ {0} /\ ops \in Seq(Transitions)
  BY HeadShape
<1>2. s \in Seq(Transitions) /\ s # <<>> /\ Len(s) = Len(ops)
  BY <1>1 DEF Kept
<1>3. /\ ops' \in Seq(Transitions) /\ Len(ops') = Len(ops) /\ ops' # <<>> /\ ops'[1] = o
      /\ \A i \in 2..Len(ops) : ops'[i] = s[i]
  <2> DEFINE t == KeepHead(s, o)
  <2>1. /\ t \in Seq(Transitions) /\ Len(t) = Len(s) /\ t[1] = o /\ t # <<>>
        /\ \A i \in 2..Len(s) : t[i] = s[i]
    BY <1>2, KeepHeadShape
  <2>2. ops' = t
    OBVIOUS
  <2> HIDE DEF t
  <2> QED BY <1>2, <2>1, <2>2
<1>4. \A i \in 2..Len(ops) : Weaker(ops'[i], ops[i])
  BY <1>1, <1>3 DEF Kept
<1>5. \A i \in 2..Len(ops) : ops[i].pc = "wait" /\ ops'[i].pc = "wait"
  BY <1>1, <1>4 DEF InOrder, Weaker, Same
<1>6. InOrder'
  <2>1. \A i \in 1..(Len(ops) - 1) : ~ops'[i].gen
    BY <1>1, <1>3, <1>4 DEF Weaker, InOrder
  <2>2. ASSUME NEW i \in 1..Len(ops), ops'[i].gen, ops'[i].suspended = "yes", ~coordinator'.stopped
        PROVE  life' = "disabled"
    <3>1. ops[i].gen /\ ops[i].suspended = "yes"
      BY <1>1, <1>3, <1>4, <2>2 DEF Weaker, Same
    <3> QED BY <3>1, <2>2 DEF InOrder
  <2>3. \A i \in 1..Len(ops) : ops'[i].pc # "wait" => ops'[i].suspended = "yes"
    BY <1>1, <1>3, <1>5
  <2> QED BY <1>3, <1>5, <2>1, <2>2, <2>3 DEF InOrder
<1>7. Fenced'
  <2>1. mode' = "apply" => \A i \in 1..Len(ops') : ops'[i].epoch => ops'[i].act
    BY <1>1, <1>3, <1>4 DEF Fenced, Weaker
  <2>2. ASSUME NEW i \in 1..Len(ops'), ops'[i].act, ops'[i].kind # "settings", ops'[i].pc = "wait"
        PROVE  /\ ~active' /\ (ops'[i].kind = "reconcile" => ~capability')
               /\ \A j \in 1..(i - 1) : ~ops'[j].act
    <3>1. i \in 2..Len(ops)
      BY <1>1, <1>3, <2>2
    <3>2. ops[i].act /\ ops[i].kind = ops'[i].kind /\ ops[i].pc = "wait" /\ s[i].act
      BY <1>3, <1>4, <3>1, <2>2 DEF Weaker, Same
    <3>3. /\ ~active /\ (ops[i].kind = "reconcile" => ~capability)
          /\ \A j \in 1..(i - 1) : ~ops[j].act
      BY <1>1, <3>1, <3>2, <2>2 DEF Fenced
    <3>4. ~op.act
      BY <1>1, <3>1, <3>3
    <3>5. ~o.act
      BY <1>1, <1>2, <3>1, <3>2, <3>4
    <3>6. \A j \in 1..(i - 1) : ~ops'[j].act
      BY <1>1, <1>3, <1>4, <3>1, <3>3, <3>5 DEF Weaker
    <3> QED BY <3>2, <3>3, <3>4, <3>6
  <2> QED BY <2>1, <2>2 DEF Fenced
<1>8. Excused => OwnExcuse \/ Excused'
  <2> SUFFICES ASSUME Excused, ~OwnExcuse, ~coordinator.stopped, life # "failed" PROVE Excused'
    BY DEF Excused
  <2>1. PICK i \in 1..Len(ops) :
             ops[i].kind = "settings" /\ ops[i].pc = "wait" /\ ops[i].suspended # "failed"
    BY DEF Excused
  <2>2. i \in 2..Len(ops)
    BY <1>1, <2>1 DEF OwnExcuse
  <2>3. Weaker(ops'[i], ops[i]) /\ i \in 1..Len(ops')
    BY <1>3, <1>4, <2>2
  <2> QED BY <2>1, <2>3 DEF Excused, Weaker, Same
<1> QED BY <1>3, <1>4, <1>6, <1>7, <1>8

\* A call appends a transition. What the ones before it had proved is withdrawn
\* with it, unless it changes the settings alone.
LEMMA Entered ==
    ASSUME Types, InOrder, Fenced, mode' = mode, NEW t, Kept(t, ops),
           \A i \in 1..Len(ops) : ~t[i].gen,
           NEW k \in Kinds, ops' = Append(t, NewOp(k)),
           coordinator'.stopped = coordinator.stopped,
           life' = IF life = "disabled" /\ ~coordinator.stopped THEN life ELSE "stopping",
           active' => active, capability' => capability,
           k # "settings" => ~active' /\ \A i \in 1..Len(ops) : ~t[i].act,
           k = "reconcile" => ~capability'
    PROVE  /\ ops' \in Seq(Transitions) /\ Len(ops') = Len(ops) + 1 /\ ops' # <<>>
           /\ \A i \in 1..Len(ops) : Weaker(ops'[i], ops[i]) /\ ops'[i] = t[i]
           /\ ops'[Len(ops) + 1] = NewOp(k)
           /\ InOrder' /\ Fenced' /\ RunsOnlyVerified'
           /\ k = "settings" => Excused'
<1>1. Len(ops) \in Nat /\ ops \in Seq(Transitions)
  BY DEF Types, Values
<1> DEFINE n == NewOp(k)
<1>2. /\ n \in Transitions /\ n.kind = k /\ n.pc = "wait" /\ n.act /\ n.epoch /\ n.gen
      /\ n.suspended = IF life = "disabled" /\ ~coordinator.stopped THEN "yes" ELSE "waiting"
  BY DEF NewOp, Transitions, Routes
<1> HIDE DEF n
<1>3. /\ t \in Seq(Transitions) /\ Len(t) = Len(ops)
      /\ \A i \in 1..Len(ops) : Weaker(t[i], ops[i])
  BY DEF Kept
<1>4. /\ ops' \in Seq(Transitions) /\ Len(ops') = Len(ops) + 1 /\ ops' # <<>>
      /\ \A i \in 1..Len(ops) : ops'[i] = t[i]
      /\ ops'[Len(ops) + 1] = n
  <2>1. ops' = Append(t, n)
    BY DEF n
  <2>2. /\ ops' \in Seq(Transitions) /\ Len(ops') = Len(t) + 1
        /\ \A i \in 1..Len(t) : ops'[i] = t[i]
        /\ ops'[Len(t) + 1] = n
    BY <1>2, <1>3, <2>1, AppendShape
  <2> QED BY <1>1, <1>3, <2>2
<1>5. InOrder'
  <2>1. \A i \in 2..Len(ops') : ops'[i].pc = "wait"
    BY <1>1, <1>2, <1>3, <1>4 DEF InOrder, Weaker, Same
  <2>2. \A i \in 1..Len(ops') : ops'[i].pc # "wait" => ops'[i].suspended = "yes"
    BY <1>1, <1>2, <1>3, <1>4 DEF InOrder, Weaker, Same
  <2>3. ASSUME NEW i \in 1..Len(ops'), ops'[i].gen, ops'[i].suspended = "yes", ~coordinator'.stopped
        PROVE  life' = "disabled"
    <3>1. i = Len(ops) + 1
      BY <1>1, <1>4, <2>3
    <3> QED BY <1>2, <1>4, <3>1, <2>3
  <2> QED BY <1>1, <1>4, <2>1, <2>2, <2>3 DEF InOrder
<1>6. Fenced'
  <2>1. mode' = "apply" => \A i \in 1..Len(ops') : ops'[i].epoch => ops'[i].act
    BY <1>1, <1>2, <1>3, <1>4 DEF Fenced, Weaker
  <2>2. ASSUME NEW i \in 1..Len(ops'), ops'[i].act, ops'[i].kind # "settings", ops'[i].pc = "wait"
        PROVE  /\ ~active' /\ (ops'[i].kind = "reconcile" => ~capability')
               /\ \A j \in 1..(i - 1) : ~ops'[j].act
    <3>1. CASE i = Len(ops) + 1
      BY <1>1, <1>2, <1>4, <3>1, <2>2
    <3>2. CASE i \in 1..Len(ops)
      <4>1. ops[i].act /\ ops[i].kind = ops'[i].kind /\ ops[i].pc = "wait"
        BY <1>3, <1>4, <3>2, <2>2 DEF Weaker, Same
      <4>2. /\ ~active /\ (ops[i].kind = "reconcile" => ~capability)
            /\ \A j \in 1..(i - 1) : ~ops[j].act
        BY <4>1, <3>2, <2>2 DEF Fenced
      <4>3. \A j \in 1..(i - 1) : ~ops'[j].act
        BY <1>1, <1>3, <1>4, <3>2, <4>2 DEF Weaker
      <4> QED BY <4>1, <4>2, <4>3
    <3> QED BY <1>1, <1>4, <3>1, <3>2
  <2> QED BY <2>1, <2>2 DEF Fenced
<1>7. k = "settings" => Excused'
  <2>1. Len(ops) + 1 \in 1..Len(ops')
    BY <1>1, <1>4
  <2> QED BY <1>2, <1>4, <2>1 DEF Excused
<1>8. RunsOnlyVerified'
  BY DEF RunsOnlyVerified
<1> QED BY <1>3, <1>4, <1>5, <1>6, <1>7, <1>8 DEF n

-----------------------------------------------------------------------------
(* The calls                                                                 *)

\* The transition in progress goes on, whatever it has lost meanwhile.
LEMMA GoesOn ==
    ASSUME InProgress, ops # <<>>, Weaker(ops'[1], ops[1]),
           mode' = mode, provisioned' = provisioned, active' => active, capability' => capability,
           ops'[1].act => store' = store /\ engine' = engine /\ ops'[1].epoch = ops[1].epoch,
           store'.rules = store.rules \/ (~active' /\ ~capability' /\ ~ops'[1].act)
    PROVE  InProgress'
<1> DEFINE a == ops[1]
<1>1. /\ a'.kind = a.kind /\ a'.pc = a.pc /\ a'.expects = a.expects /\ a'.target = a.target
      /\ a'.saw = a.saw /\ a'.managed = a.managed /\ (a'.act => a.act)
      /\ a'.act => store' = store /\ engine' = engine /\ a'.epoch = a.epoch
      /\ store'.rules = store.rules \/ (~active' /\ ~capability' /\ ~a'.act)
  BY DEF Weaker, Same
<1>2. Provisioning(a) /\ Holds(a)
  BY DEF InProgress
<1> SUFFICES Provisioning(a)' /\ Holds(a)'
  BY DEF InProgress
<1> HIDE DEF a
<1>3. Provisioning(a)'
  BY <1>1, <1>2 DEF Provisioning
<1>4. CASE a'.act
  BY <1>1, <1>2, <1>3, <1>4 DEF Holds, Applies
<1>5. CASE ~a'.act
  BY <1>1, <1>2, <1>3, <1>5 DEF Holds, Applies
<1> QED BY <1>4, <1>5

LEMMA Withdrawn ==
    ASSUME Types
    PROVE  LET t == StaleGen(StaleBoth(ops))
           IN  /\ Kept(t, ops)
               /\ \A i \in 1..Len(ops) : /\ ~t[i].gen /\ ~t[i].act
                                         /\ mode = "apply" => ~t[i].epoch
<1> DEFINE b == StaleBoth(ops)  t == StaleGen(b)
<1>1. ops \in Seq(Transitions) /\ mode \in {"apply", "report"}
  BY DEF Types, Values
<1>2. /\ b \in Seq(Transitions) /\ Len(b) = Len(ops) /\ Kept(b, ops)
      /\ \A i \in 1..Len(ops) : ~b[i].act /\ (mode = "apply" => ~b[i].epoch)
  BY <1>1, StaleBothShape, KeptStaleBoth
<1> HIDE DEF b
<1>3. /\ Len(t) = Len(b) /\ Kept(t, b)
      /\ \A i \in 1..Len(b) : ~t[i].gen /\ t[i].act = b[i].act /\ t[i].epoch = b[i].epoch
  BY <1>2, StaleGenShape, KeptStaleGen
<1> HIDE DEF t
<1>4. Kept(t, ops)
  BY <1>2, <1>3, KeptTwice
<1> QED BY <1>2, <1>3, <1>4 DEF t, b

LEMMA Overtakes ==
    ASSUME IInv, NEW k \in {"reconcile", "apply", "rules"}, Enter(StaleBoth(ops), k),
           mode' = mode, engine' = engine, provisioned' = provisioned,
           ~active', active' \in BOOLEAN, capability' \in BOOLEAN, capability' => capability,
           k = "reconcile" => ~capability',
           settings' \in [enabled : BOOLEAN, target : Routes],
           store' \in [rules : Nat, known : BOOLEAN, writing : BOOLEAN], store'.rules = store.rules,
           expected' \in Nat \cup {Unknown}, recovery' \in BOOLEAN,
           provisioned' => expected' # Unknown /\ (expected' = store'.rules \/ store'.writing)
    PROVE  IInv'
<1> DEFINE t == StaleGen(StaleBoth(ops))
<1>1. /\ Kept(t, ops)
      /\ \A i \in 1..Len(ops) : /\ ~t[i].gen /\ ~t[i].act /\ (mode = "apply" => ~t[i].epoch)
  BY Withdrawn DEF IInv
<1>2. /\ ops' = Append(t, NewOp(k)) /\ coordinator' = [coordinator EXCEPT !.recovery = FALSE]
      /\ life' = IF life = "disabled" /\ ~coordinator.stopped THEN life ELSE "stopping"
  BY DEF Enter
<1> HIDE DEF t
<1>3. Types /\ InOrder /\ Knows /\ Fenced /\ InProgress
  BY DEF IInv
<1>4. /\ coordinator' \in [recovery : BOOLEAN, verified : BOOLEAN, stopped : BOOLEAN]
      /\ coordinator'.stopped = coordinator.stopped
  BY <1>2, <1>3 DEF Types, Values
<1>5. k \in Kinds /\ k # "settings"
  BY DEF Kinds
<1>6. /\ ops' \in Seq(Transitions) /\ Len(ops') = Len(ops) + 1 /\ ops' # <<>>
      /\ \A i \in 1..Len(ops) : Weaker(ops'[i], ops[i]) /\ ops'[i] = t[i]
      /\ ops'[Len(ops) + 1] = NewOp(k)
      /\ InOrder' /\ Fenced' /\ RunsOnlyVerified'
  BY <1>1, <1>2, <1>3, <1>4, <1>5, Entered
<1>7. Len(ops) \in Nat /\ (ops # <<>> => 1 \in 1..Len(ops)) /\ (ops = <<>> => Len(ops) = 0)
  BY <1>3 DEF Types, Values
<1>8. Types'
  BY <1>2, <1>3, <1>4, <1>6 DEF Types, Values
<1>9. Knows'
  BY <1>3 DEF Knows
<1>10. InProgress' /\ (Applies(ops'[1]) => ~ops'[1].act)
  <2>1. CASE ops = <<>>
    BY <1>6, <1>7, <2>1 DEF InProgress, Provisioning, Holds, Applies, NewOp
  <2>2. CASE ops # <<>>
    <3>1. Weaker(ops'[1], ops[1]) /\ ~ops'[1].act
      BY <1>1, <1>6, <1>7, <2>2
    <3> QED BY <3>1, <2>2, <1>3, GoesOn
  <2> QED BY <2>1, <2>2
<1>11. Routed'
  BY <1>10 DEF Routed, Applies
<1>12. Loaded'
  <2> SUFFICES ASSUME capability' PROVE \E i \in 1..Len(ops') : Owes(ops'[i])
    BY DEF Loaded
  <2>1. Owes(NewOp(k)) /\ Len(ops) + 1 \in 1..Len(ops')
    BY <1>6, <1>7 DEF Owes, NewOp
  <2> QED BY <2>1, <1>6
<1> QED BY <1>6, <1>8, <1>9, <1>10, <1>11, <1>12 DEF IInv

\* A change of the settings, or the recovery of the runtime.
LEMMA Proposes ==
    ASSUME IInv, Enter(ops, "settings"), UNCHANGED <<mode, store, engine, controller, recovery>>,
           settings' \in [enabled : BOOLEAN, target : Routes]
    PROVE  IInv'
<1> DEFINE t == StaleGen(ops)  k == "settings"
<1>1. Types /\ InOrder /\ Knows /\ Fenced /\ InProgress /\ Loaded /\ ops \in Seq(Transitions)
  BY DEF IInv, Types, Values
<1>2. /\ Kept(t, ops)
      /\ \A i \in 1..Len(ops) : ~t[i].gen /\ t[i].act = ops[i].act /\ t[i].epoch = ops[i].epoch
  BY <1>1, StaleGenShape, KeptStaleGen
<1>3. /\ ops' = Append(t, NewOp(k)) /\ coordinator' = [coordinator EXCEPT !.recovery = FALSE]
      /\ life' = IF life = "disabled" /\ ~coordinator.stopped THEN life ELSE "stopping"
  BY DEF Enter
<1> HIDE DEF t
<1>4. /\ coordinator' \in [recovery : BOOLEAN, verified : BOOLEAN, stopped : BOOLEAN]
      /\ coordinator'.stopped = coordinator.stopped
  BY <1>1, <1>3 DEF Types, Values
<1>5. mode' = mode /\ store' = store /\ engine' = engine /\ provisioned' = provisioned
      /\ expected' = expected /\ active' = active /\ capability' = capability /\ recovery' = recovery
  BY DEF controller
<1>6. /\ ops' \in Seq(Transitions) /\ Len(ops') = Len(ops) + 1 /\ ops' # <<>>
      /\ \A i \in 1..Len(ops) : Weaker(ops'[i], ops[i]) /\ ops'[i] = t[i]
      /\ ops'[Len(ops) + 1] = NewOp(k)
      /\ InOrder' /\ Fenced' /\ RunsOnlyVerified' /\ Excused'
  BY <1>1, <1>2, <1>3, <1>4, <1>5, Entered DEF Kinds
<1>7. Len(ops) \in Nat /\ (ops # <<>> => 1 \in 1..Len(ops)) /\ (ops = <<>> => Len(ops) = 0)
  BY <1>1
<1>8. Types'
  BY <1>1, <1>3, <1>4, <1>5, <1>6 DEF Types, Values
<1>9. Knows'
  BY <1>1, <1>5 DEF Knows
<1>10. InProgress'
  <2>1. CASE ops = <<>>
    BY <1>6, <1>7, <2>1 DEF InProgress, Provisioning, Holds, Applies, NewOp
  <2>2. CASE ops # <<>>
    <3>1. Weaker(ops'[1], ops[1]) /\ ops'[1].epoch = ops[1].epoch
      BY <1>2, <1>6, <1>7, <2>2
    <3> QED BY <3>1, <2>2, <1>1, <1>5, GoesOn
  <2> QED BY <2>1, <2>2
<1>11. Routed'
  BY <1>6 DEF Routed
<1>12. Loaded'
  <2> SUFFICES ASSUME capability, ~store.writing, engine.rules # store.rules
               PROVE  \E i \in 1..Len(ops') : Owes(ops'[i])
    BY <1>1, <1>5 DEF Loaded
  <2>1. PICK i \in 1..Len(ops) : Owes(ops[i])
    BY <1>1 DEF Loaded
  <2>2. Owes(ops'[i]) /\ i \in 1..Len(ops')
    BY <1>2, <1>6, <1>7, <2>1 DEF Owes, Weaker, Same
  <2> QED BY <2>2
<1> QED BY <1>6, <1>8, <1>9, <1>10, <1>11, <1>12 DEF IInv

LEMMA Reconciles ==
    ASSUME IInv, CallReconcile, UNCHANGED <<world, engine, provisioned, expected>>
    PROVE  IInv'
<1>1. /\ Enter(StaleBoth(ops), "reconcile") /\ ~active' /\ active' \in BOOLEAN
      /\ ~capability' /\ capability' \in BOOLEAN /\ recovery' \in BOOLEAN
      /\ mode' = mode /\ settings' = settings /\ store' = store /\ engine' = engine
      /\ provisioned' = provisioned /\ expected' = expected
  BY DEF CallReconcile, world
<1>2. Types /\ Knows
  BY DEF IInv
<1>3. /\ settings \in [enabled : BOOLEAN, target : Routes] /\ expected \in Nat \cup {Unknown}
      /\ store \in [rules : Nat, known : BOOLEAN, writing : BOOLEAN]
      /\ provisioned => expected # Unknown /\ (expected = store.rules \/ store.writing)
  BY <1>2 DEF Types, Values, Knows
<1> QED BY <1>1, <1>3, Overtakes

LEMMA CallApplyStep == ASSUME IInv, CallApply PROVE IInv'
<1>1. Types /\ Knows
  BY DEF IInv
<1>2. /\ settings' \in [enabled : BOOLEAN, target : Routes] /\ expected' \in Nat \cup {Unknown}
      /\ store' \in [rules : Nat, known : BOOLEAN, writing : BOOLEAN] /\ store' = store
      /\ provisioned' => expected' # Unknown /\ (expected' = store'.rules \/ store'.writing)
      /\ mode' = mode /\ engine' = engine /\ provisioned' = provisioned /\ capability' = capability
      /\ capability' \in BOOLEAN /\ recovery' \in BOOLEAN /\ ~active' /\ active' \in BOOLEAN
  BY <1>1 DEF Types, Values, Knows, CallApply, Routes
<1>3. Enter(StaleBoth(ops), "apply")
  BY DEF CallApply
<1> QED BY <1>2, <1>3, Overtakes

LEMMA CallActivateStep == ASSUME IInv, CallActivate, Unknown \notin Nat PROVE IInv'
<1>1. Types
  BY DEF IInv
<1>2. /\ settings' \in [enabled : BOOLEAN, target : Routes] /\ expected' \in Nat
      /\ store' \in [rules : Nat, known : BOOLEAN, writing : BOOLEAN] /\ store'.rules = store.rules
      /\ expected' = store'.rules
      /\ mode' = mode /\ engine' = engine /\ provisioned' = provisioned /\ capability' = capability
      /\ capability' \in BOOLEAN /\ recovery' \in BOOLEAN /\ ~active' /\ active' \in BOOLEAN
  BY <1>1 DEF Types, Values, CallActivate
<1>3. Enter(StaleBoth(ops), "rules")
  BY DEF CallActivate
<1> QED BY <1>2, <1>3, Overtakes

LEMMA CallSettingsStep == ASSUME IInv, CallSettings PROVE IInv'
<1>1. settings' \in [enabled : BOOLEAN, target : Routes]
  BY DEF CallSettings, Routes
<1> QED BY <1>1, Proposes DEF CallSettings

LEMMA FirstRuntimeStep == ASSUME IInv, FirstRuntime PROVE IInv'
<1>1. UNCHANGED <<mode, settings, store, engine, controller, recovery>>
  BY DEF FirstRuntime, world
<1>2. settings' \in [enabled : BOOLEAN, target : Routes]
  BY <1>1 DEF IInv, Types, Values
<1>3. CASE Enter(ops, "settings")
  BY <1>1, <1>2, <1>3, Proposes
<1>4. CASE UNCHANGED <<ops, life, coordinator>>
  BY <1>1, <1>4 DEF IInv, Types, Values, InOrder, Knows, Fenced, InProgress, Provisioning, Holds, Applies,
     Routed, Excused, Loaded, Owes, RunsOnlyVerified, controller
<1> QED BY <1>3, <1>4 DEF FirstRuntime

LEMMA FirstConnectStep == ASSUME IInv, FirstConnect PROVE IInv'
<1>1. UNCHANGED <<world, engine, provisioned, expected>>
  BY DEF FirstConnect
<1>2. CASE CallReconcile
  BY <1>1, <1>2, Reconciles
<1>3. CASE UNCHANGED <<active, capability, ops, life, coordinator, recovery>>
  BY <1>1, <1>3 DEF IInv, Types, Values, InOrder, Knows, Fenced, InProgress, Provisioning, Holds, Applies,
     Routed, Excused, Loaded, Owes, RunsOnlyVerified, world
<1> QED BY <1>2, <1>3 DEF FirstConnect

\* The file is written: nothing that was proved before counts any more.
LEMMA WriteRuleStep == ASSUME IInv, WriteRule PROVE IInv'
<1>1. Types /\ InOrder /\ Knows /\ Fenced /\ InProgress /\ RunsOnlyVerified /\ ops \in Seq(Transitions)
      /\ mode \in {"apply", "report"}
  BY DEF IInv, Types, Values
<1>2. /\ mode' = mode /\ settings' = settings /\ engine' = engine /\ provisioned' = provisioned
      /\ expected' = expected /\ life' = life /\ coordinator' = coordinator /\ recovery' = recovery
      /\ ~active' /\ ~capability' /\ active' \in BOOLEAN /\ capability' \in BOOLEAN
      /\ store' \in [rules : Nat, known : BOOLEAN, writing : BOOLEAN]
      /\ store' = store \/ store'.writing
  <2>1. store \in [rules : Nat, known : BOOLEAN, writing : BOOLEAN]
    BY <1>1 DEF Types, Values
  <2>2. \/ store' = [store EXCEPT !.rules = @ + 1, !.writing = TRUE, !.known = TRUE]
        \/ store' = store
    BY DEF WriteRule
  <2>3. store.rules + 1 \in Nat
    BY <2>1
  <2> DEFINE w == [store EXCEPT !.rules = @ + 1, !.writing = TRUE, !.known = TRUE]
  <2>5. w = [store EXCEPT !.rules = store.rules + 1, !.writing = TRUE, !.known = TRUE]
    BY <2>1
  <2>6. w \in [rules : Nat, known : BOOLEAN, writing : BOOLEAN]
    BY <2>1, <2>3, <2>5
  <2>7. w.writing = TRUE
    BY <2>1, <2>5
  <2>4. /\ store' \in [rules : Nat, known : BOOLEAN, writing : BOOLEAN]
        /\ store' = store \/ store'.writing
    BY <2>1, <2>2, <2>6, <2>7
  <2> QED BY <2>4 DEF WriteRule, Invalidated
<1> DEFINE t == StaleBoth(ops)
<1>3. /\ t \in Seq(Transitions) /\ Len(t) = Len(ops) /\ Kept(t, ops)
      /\ \A i \in 1..Len(ops) : ~t[i].act /\ (mode = "apply" => ~t[i].epoch)
  BY <1>1, StaleBothShape, KeptStaleBoth
<1>4. ops' = t
  BY DEF WriteRule, Invalidated
<1> HIDE DEF t
<1>5. \A i \in 1..Len(ops) : Weaker(ops'[i], ops[i]) /\ ~ops'[i].act /\ (mode = "apply" => ~ops'[i].epoch)
  BY <1>3, <1>4 DEF Kept
<1>6. Len(ops) \in Nat /\ ops' \in Seq(Transitions) /\ Len(ops') = Len(ops)
      /\ (ops = <<>> <=> Len(ops) = 0) /\ (ops' = <<>> <=> Len(ops') = 0)
  BY <1>1, <1>3, <1>4
<1>7. Types'
  BY <1>1, <1>2, <1>6 DEF Types, Values
<1>8. InOrder'
  <2>1. \A i \in 2..Len(ops') : ops'[i].pc = "wait"
    BY <1>1, <1>5, <1>6 DEF InOrder, Weaker, Same
  <2>2. \A i \in 1..(Len(ops') - 1) : ~ops'[i].gen
    BY <1>1, <1>5, <1>6 DEF InOrder, Weaker
  <2>3. \A i \in 1..Len(ops') :
          /\ ops'[i].pc # "wait" => ops'[i].suspended = "yes"
          /\ ops'[i].gen /\ ops'[i].suspended = "yes" /\ ~coordinator'.stopped => life' = "disabled"
    BY <1>1, <1>2, <1>5, <1>6 DEF InOrder, Weaker, Same
  <2> QED BY <2>1, <2>2, <2>3 DEF InOrder
<1>9. Knows'
  BY <1>1, <1>2 DEF Knows
<1>10. Fenced'
  BY <1>2, <1>5, <1>6 DEF Fenced
<1>11. InProgress'
  <2> SUFFICES ASSUME ops # <<>> PROVE InProgress'
    BY <1>6 DEF InProgress
  <2>1. Weaker(ops'[1], ops[1]) /\ ~ops'[1].act
    BY <1>5, <1>6
  <2> QED BY <2>1, <1>1, <1>2, GoesOn
<1>12. Routed'
  BY <1>2, <1>5, <1>6 DEF Routed
<1>13. Loaded'
  BY <1>2 DEF Loaded
<1>14. RunsOnlyVerified'
  BY <1>1, <1>2, <1>6 DEF RunsOnlyVerified
<1> QED BY <1>7, <1>8, <1>9, <1>10, <1>11, <1>12, <1>13, <1>14 DEF IInv

LEMMA ShutdownStep == ASSUME IInv, Shutdown PROVE IInv'
<1>1. Types /\ InOrder /\ Knows /\ Fenced /\ InProgress /\ Loaded /\ ops \in Seq(Transitions)
  BY DEF IInv, Types, Values
<1>2. /\ mode' = mode /\ settings' = settings /\ store' = store /\ engine' = engine
      /\ provisioned' = provisioned /\ expected' = expected /\ active' = active
      /\ capability' = capability /\ life' = "stopping" /\ recovery' = FALSE
      /\ coordinator' = [recovery |-> FALSE, verified |-> coordinator.verified, stopped |-> TRUE]
      /\ ops' = StaleGen(ops)
  BY DEF Shutdown, world, controller
<1>3. /\ ops' \in Seq(Transitions) /\ Len(ops') = Len(ops) /\ Kept(ops', ops)
      /\ \A i \in 1..Len(ops) : ~ops'[i].gen /\ ops'[i].act = ops[i].act /\ ops'[i].epoch = ops[i].epoch
  BY <1>1, <1>2, StaleGenShape, KeptStaleGen
<1>4. \A i \in 1..Len(ops) : Weaker(ops'[i], ops[i])
  BY <1>3 DEF Kept
<1>5. Len(ops) \in Nat /\ (ops = <<>> <=> Len(ops) = 0) /\ (ops' = <<>> <=> Len(ops') = 0)
  BY <1>1, <1>3
<1>6. Types'
  BY <1>1, <1>2, <1>3 DEF Types, Values
<1>7. InOrder'
  <2>1. \A i \in 2..Len(ops') : ops'[i].pc = "wait"
    BY <1>1, <1>3, <1>4, <1>5 DEF InOrder, Weaker, Same
  <2>2. \A i \in 1..Len(ops') : ops'[i].pc # "wait" => ops'[i].suspended = "yes"
    BY <1>1, <1>3, <1>4, <1>5 DEF InOrder, Weaker, Same
  <2> QED BY <2>1, <2>2, <1>3, <1>5 DEF InOrder
<1>8. Knows'
  BY <1>1, <1>2 DEF Knows
<1>9. Fenced'
  <2>1. mode' = "apply" => \A i \in 1..Len(ops') : ops'[i].epoch => ops'[i].act
    BY <1>1, <1>2, <1>3 DEF Fenced
  <2>2. ASSUME NEW i \in 1..Len(ops), ops'[i].act, ops'[i].kind # "settings", ops'[i].pc = "wait"
        PROVE  /\ ~active' /\ (ops'[i].kind = "reconcile" => ~capability')
               /\ \A j \in 1..(i - 1) : ~ops'[j].act
    <3>1. ops[i].act /\ ops[i].kind = ops'[i].kind /\ ops[i].pc = "wait"
      BY <1>3, <1>4, <2>2 DEF Weaker, Same
    <3> QED BY <3>1, <2>2, <1>1, <1>2, <1>3, <1>5 DEF Fenced
  <2> QED BY <2>1, <2>2, <1>3 DEF Fenced
<1>10. InProgress'
  <2> SUFFICES ASSUME ops # <<>> PROVE InProgress'
    BY <1>3, <1>5 DEF InProgress
  <2>1. Weaker(ops'[1], ops[1]) /\ ops'[1].epoch = ops[1].epoch
    BY <1>3, <1>4, <1>5
  <2> QED BY <2>1, <1>1, <1>2, GoesOn
<1>11. Routed'
  BY <1>2 DEF Routed, Excused
<1>12. Loaded'
  BY <1>1, <1>2, <1>3, <1>4 DEF Loaded, Owes, Weaker, Same
<1>13. RunsOnlyVerified'
  BY <1>2 DEF RunsOnlyVerified
<1> QED BY <1>6, <1>7, <1>8, <1>9, <1>10, <1>11, <1>12, <1>13 DEF IInv

\* Collection has stopped for every transition that was waiting for it, or not.
LEMMA SuspensionEndsStep == ASSUME IInv, SuspensionEnds PROVE IInv'
<1>1. Types /\ InOrder /\ Knows /\ Fenced /\ InProgress /\ Routed /\ Loaded /\ ops \in Seq(Transitions)
  BY DEF IInv, Types, Values
<1>2. /\ mode' = mode /\ settings' = settings /\ store' = store /\ engine' = engine
      /\ provisioned' = provisioned /\ expected' = expected /\ active' = active
      /\ capability' = capability /\ recovery' = recovery /\ coordinator' = coordinator
      /\ life = "stopping"
  BY DEF SuspensionEnds, world, controller
<1>3. PICK ok \in BOOLEAN :
         /\ life' = IF ok THEN "disabled" ELSE "failed"
         /\ ops' = [i \in DOMAIN ops |->
                      IF ops[i].suspended # "waiting" THEN ops[i]
                      ELSE [ops[i] EXCEPT !.suspended = IF ok THEN "yes" ELSE "failed"]]
  BY DEF SuspensionEnds
<1>4. Len(ops) \in Nat /\ DOMAIN ops = 1..Len(ops) /\ \A i \in 1..Len(ops) : ops[i] \in Transitions
  BY <1>1
<1>5. \A i \in 1..Len(ops) :
         /\ ops'[i] \in Transitions
         /\ ops'[i].kind = ops[i].kind /\ ops'[i].pc = ops[i].pc /\ ops'[i].gen = ops[i].gen
         /\ ops'[i].act = ops[i].act /\ ops'[i].epoch = ops[i].epoch
         /\ ops'[i].suspended = IF ops[i].suspended # "waiting" THEN ops[i].suspended
                                ELSE IF ok THEN "yes" ELSE "failed"
         /\ ops[i].pc # "wait" => ops'[i] = ops[i]
  <2> SUFFICES ASSUME NEW i \in 1..Len(ops)
               PROVE  /\ ops'[i] \in Transitions
                      /\ ops'[i].kind = ops[i].kind /\ ops'[i].pc = ops[i].pc
                      /\ ops'[i].gen = ops[i].gen
                      /\ ops'[i].act = ops[i].act /\ ops'[i].epoch = ops[i].epoch
                      /\ ops'[i].suspended = IF ops[i].suspended # "waiting" THEN ops[i].suspended
                                             ELSE IF ok THEN "yes" ELSE "failed"
                      /\ ops[i].pc # "wait" => ops'[i] = ops[i]
    OBVIOUS
  <2>1. ops[i].pc # "wait" => ops[i].suspended = "yes"
    BY <1>1 DEF InOrder
  <2>2. ops'[i] = IF ops[i].suspended # "waiting" THEN ops[i]
                  ELSE [ops[i] EXCEPT !.suspended = IF ok THEN "yes" ELSE "failed"]
    BY <1>3, <1>4
  <2>3. ops[i] \in Transitions
    BY <1>4
  <2> QED BY <2>1, <2>2, <2>3 DEF Transitions
<1>6. ops' \in Seq(Transitions) /\ Len(ops') = Len(ops) /\ (ops = <<>> <=> ops' = <<>>)
  <2> DEFINE f == [i \in DOMAIN ops |->
                      IF ops[i].suspended # "waiting" THEN ops[i]
                      ELSE [ops[i] EXCEPT !.suspended = IF ok THEN "yes" ELSE "failed"]]
  <2>1. ops' = f /\ DOMAIN f = 1..Len(ops)
    BY <1>3, <1>4
  <2>2. \A i \in 1..Len(ops) : f[i] \in Transitions
    BY <1>5, <2>1
  <2> HIDE DEF f
  <2>3. f \in [1..Len(ops) -> Transitions]
    BY <2>1, <2>2, <1>3, <1>4 DEF f
  <2> QED BY <2>1, <2>3, <1>4
<1>7. Types'
  BY <1>1, <1>2, <1>3, <1>6 DEF Types, Values
<1>8. InOrder'
  <2>1. \A i \in 2..Len(ops') : ops'[i].pc = "wait"
    BY <1>1, <1>4, <1>5, <1>6 DEF InOrder
  <2>2. \A i \in 1..(Len(ops') - 1) : ~ops'[i].gen
    BY <1>1, <1>4, <1>5, <1>6 DEF InOrder
  <2>3. \A i \in 1..Len(ops') :
          /\ ops'[i].pc # "wait" => ops'[i].suspended = "yes"
          /\ ops'[i].gen /\ ops'[i].suspended = "yes" /\ ~coordinator'.stopped => life' = "disabled"
    BY <1>1, <1>2, <1>3, <1>5, <1>6 DEF InOrder
  <2> QED BY <2>1, <2>2, <2>3 DEF InOrder
<1>9. Knows'
  BY <1>1, <1>2 DEF Knows
<1>10. Fenced'
  <2>1. mode' = "apply" => \A i \in 1..Len(ops') : ops'[i].epoch => ops'[i].act
    BY <1>1, <1>2, <1>5, <1>6 DEF Fenced
  <2>2. \A i \in 1..Len(ops') :
          ops'[i].pc = "wait" /\ ops'[i].act /\ ops'[i].kind # "settings" =>
             /\ ~active'
             /\ ops'[i].kind = "reconcile" => ~capability'
             /\ \A j \in 1..(i - 1) : ~ops'[j].act
    BY <1>1, <1>2, <1>4, <1>5, <1>6 DEF Fenced
  <2> QED BY <2>1, <2>2 DEF Fenced
<1>11. ops # <<>> => 1 \in 1..Len(ops)
  BY <1>1
<1>12. InProgress'
  BY <1>1, <1>2, <1>5, <1>6, <1>11 DEF InProgress, Provisioning, Holds, Applies
<1>13. Excused => Excused'
  BY <1>2, <1>3, <1>5, <1>6 DEF Excused
<1>14. Routed'
  BY <1>1, <1>2, <1>5, <1>6, <1>11, <1>13 DEF Routed, Applies
<1>15. Loaded'
  BY <1>1, <1>2, <1>5, <1>6 DEF Loaded, Owes
<1>16. RunsOnlyVerified'
  BY <1>3 DEF RunsOnlyVerified
<1> QED BY <1>7, <1>8, <1>9, <1>10, <1>12, <1>14, <1>15, <1>16 DEF IInv

-----------------------------------------------------------------------------
(* The end of a transition                                                   *)

\* A transition that is over leaves what it had proved to nobody: what it does to
\* the controller, the engine and the runtime is all that has to be looked at.
LEMMA Ends ==
    ASSUME IInv, ops # <<>>, NEW s, Kept(s, ops), ops' = Tail(s),
           mode' = mode, settings' = settings, store' = store,
           Values', Knows', OwnExcuse => coordinator.stopped \/ ~active',
           life' = life \/ (op.gen /\ op.suspended = "yes" /\ ~coordinator.stopped),
           coordinator'.stopped = coordinator.stopped,
           active' => active \/ op.act, capability' => capability \/ op.act,
           active' => engine'.route = settings.target \/ Excused,
           active' => engine'.rules = store.rules \/ store.writing,
           capability' /\ ~store.writing /\ engine'.rules # store.rules =>
              \E i \in 2..Len(ops) : Owes(s[i]),
           life' = "enabled" => op.gen /\ settings.enabled /\ settings.target # NoGroup
                                /\ coordinator'.verified
    PROVE  IInv'
<1>1. Types /\ InOrder /\ Fenced
  BY DEF IInv
<1>2. /\ ops' \in Seq(Transitions) /\ Len(ops') = Len(ops) - 1
      /\ \A i \in 1..Len(ops') : ops'[i] = s[i + 1]
      /\ InOrder' /\ InProgress' /\ Fenced'
      /\ Excused => OwnExcuse \/ Excused'
      /\ ops' # <<>> => ~Applies(ops'[1])
      /\ op.gen => ops' = <<>>
  BY <1>1, Dropped
<1>3. Len(ops) \in Nat
  BY <1>1 DEF Types, Values
<1>4. Routed'
  <2>1. coordinator.stopped => Excused'
    BY DEF Excused
  <2> QED BY <1>2, <2>1 DEF Routed, Applies
<1>5. Loaded'
  <2> SUFFICES ASSUME capability', ~store.writing, engine'.rules # store.rules
               PROVE  \E i \in 1..Len(ops') : Owes(ops'[i])
    BY DEF Loaded
  <2>1. PICK i \in 2..Len(ops) : Owes(s[i])
    OBVIOUS
  <2>2. i - 1 \in 1..Len(ops') /\ ops'[i - 1] = s[i]
    BY <1>2, <1>3
  <2> QED BY <2>1, <2>2
<1>6. RunsOnlyVerified'
  BY <1>2 DEF RunsOnlyVerified
<1> QED BY <1>2, <1>4, <1>5, <1>6 DEF IInv, Types

-----------------------------------------------------------------------------
(* The start of a transition                                                 *)

\* The first transition applies the configuration: n is what it then holds.
LEMMA StartsApply ==
    ASSUME IInv, ops # <<>>, op.suspended = "yes", NEW s, Kept(s, ops),
           NEW n \in Transitions, ops' = KeepHead(s, n), n.pc = "apply",
           n.target = (IF provisioned' THEN settings.target ELSE NoGroup),
           n.managed = provisioned', n.saw = store.rules, n.kind = op.kind,
           n.gen = op.gen, n.suspended = "yes",
           mode = "apply" /\ n.epoch => n.act,
           n.act => op.act \/ \A i \in 1..Len(s) : ~s[i].act,
           mode' = mode, settings' = settings, store'.rules = store.rules,
           store'.writing = store.writing, Values', Knows',
           life' = life, coordinator'.stopped = coordinator.stopped,
           active' => active \/ op.act, capability' => capability \/ op.act, OwnExcuse => ~active',
           active' => engine'.route = settings.target \/ Excused,
           active' => engine'.rules = store.rules \/ store.writing,
           capability' /\ ~store.writing /\ engine'.rules # store.rules =>
              Owes(n) \/ \E i \in 2..Len(ops) : Owes(s[i]),
           n.kind = "reconcile" => ~capability' /\ ~active',
           n.act /\ provisioned' => \/ store.writing \/ n.expects = store.rules
                                    \/ mode = "report" /\ n.kind = "reconcile"
    PROVE  IInv'
<1>1. Types /\ InOrder /\ Fenced /\ RunsOnlyVerified
  BY DEF IInv
<1>2. /\ ops' \in Seq(Transitions) /\ Len(ops') = Len(ops) /\ ops' # <<>> /\ ops'[1] = n
      /\ \A i \in 2..Len(ops) : Weaker(ops'[i], ops[i]) /\ ops'[i] = s[i]
      /\ InOrder' /\ Fenced'
      /\ Excused => OwnExcuse \/ Excused'
  BY <1>1, Replaced
<1>3. Len(ops) \in Nat \ {0}
  BY HeadShape, <1>1
<1>4. InProgress'
  BY <1>2 DEF InProgress, Provisioning, Holds
<1>5. Routed'
  BY <1>2 DEF Routed
<1>6. Loaded'
  <2> SUFFICES ASSUME capability', ~store.writing, engine'.rules # store.rules
               PROVE  \E i \in 1..Len(ops') : Owes(ops'[i])
    BY DEF Loaded
  <2>1. CASE Owes(n)
    BY <2>1, <1>2, <1>3
  <2>2. CASE \E i \in 2..Len(ops) : Owes(s[i])
    BY <2>2, <1>2, <1>3
  <2> QED BY <2>1, <2>2
<1>7. RunsOnlyVerified'
  BY <1>1 DEF RunsOnlyVerified
<1> QED BY <1>2, <1>4, <1>5, <1>6, <1>7 DEF IInv, Types

\* A transition that applies or cannot: o is the transition as its turn begins.
LEMMA StartsOrThrows ==
    ASSUME IInv, ops # <<>>, op.suspended = "yes", NEW s, Kept(s, ops),
           NEW o \in Transitions, StartOrThrow(o, s, TRUE), o.kind = op.kind, o.gen = op.gen,
           o.suspended = "yes",
           mode = "apply" /\ o.epoch => o.act,
           o.act => op.act \/ \A i \in 1..Len(s) : ~s[i].act,
           mode' = mode, settings' = settings, store' = store, engine' = engine, life' = life,
           provisioned' \in BOOLEAN, expected' \in Nat \cup {Unknown}, active' \in BOOLEAN,
           provisioned' => expected' # Unknown /\ (expected' = store.rules \/ store.writing),
           active' => active /\ provisioned', capability => provisioned',
           OwnExcuse => ~active',
           o.kind = "reconcile" => ~capability /\ ~active',
           capability /\ ~store.writing /\ engine.rules # store.rules =>
              o.epoch \/ \E i \in 2..Len(ops) : Owes(s[i]),
           o.act /\ provisioned' => \/ store.writing \/ o.expects = store.rules
                                    \/ mode = "report" /\ o.kind = "reconcile"
    PROVE  IInv'
<1>1. Types /\ Values /\ InOrder /\ Knows /\ Routed /\ Loaded /\ RunsOnlyVerified
  BY DEF IInv, Types
<1>2. op \in Transitions /\ op.kind \in Kinds
  BY <1>1, HeadShape DEF Transitions
<1>3. CASE ~provisioned' /\ store.known
  <2>1. /\ ops' = Tail(s) /\ capability' = (capability /\ o.kind = "reconcile")
        /\ coordinator' = [coordinator EXCEPT !.verified = @ /\ o.kind # "settings",
                                              !.recovery = IF o.gen THEN Wants ELSE @]
        /\ recovery' = Retried(o)
    BY <1>3 DEF StartOrThrow
  <2>2. ~capability' /\ capability' \in BOOLEAN /\ ~active'
    BY <1>3, <2>1
  <2>3. /\ coordinator' \in [recovery : BOOLEAN, verified : BOOLEAN, stopped : BOOLEAN]
        /\ coordinator'.stopped = coordinator.stopped /\ recovery' \in BOOLEAN
    BY <1>1, <2>1 DEF Values, Wants, Retried
  <2>4. Values'
    BY <1>1, <2>2, <2>3 DEF Values
  <2>5. Knows'
    BY <2>2, <1>3 DEF Knows
  <2>6. life' # "enabled"
    BY <1>1 DEF RunsOnlyVerified
  <2> QED BY <2>1, <2>2, <2>3, <2>4, <2>5, <2>6, Ends
<1>4. CASE ~(~provisioned' /\ store.known)
  <2> DEFINE n == Applying(o, "apply")
  <2>1. /\ ops' = KeepHead(s, n)
        /\ capability' = capability /\ coordinator' = coordinator /\ recovery' = recovery
    BY <1>4 DEF StartOrThrow
  <2>2. /\ n \in Transitions /\ n.pc = "apply" /\ n.managed = provisioned' /\ n.saw = store.rules
        /\ n.target = (IF provisioned' THEN settings.target ELSE NoGroup)
        /\ n.kind = o.kind /\ n.gen = o.gen /\ n.act = o.act /\ n.epoch = o.epoch
        /\ n.suspended = o.suspended /\ n.expects = o.expects
    BY <1>1 DEF Applying, Target, Values, Transitions, Routes
  <2> HIDE DEF n
  <2>3. Values'
    BY <1>1, <2>1 DEF Values
  <2>4. Knows'
    BY <1>1, <2>1 DEF Knows
  <2>5. capability' /\ ~store.writing /\ engine'.rules # store.rules =>
           Owes(n) \/ \E i \in 2..Len(ops) : Owes(s[i])
    <3> SUFFICES ASSUME capability, ~store.writing, engine.rules # store.rules,
                        ~\E i \in 2..Len(ops) : Owes(s[i])
                 PROVE  Owes(n)
      BY <2>1
    <3>1. n.epoch /\ n.kind \in {"apply", "settings", "rules"}
      BY <1>2, <2>2 DEF Kinds
    <3> QED BY <3>1, <2>2 DEF Owes
  <2>6. active' => engine'.route = settings.target \/ Excused
    BY <1>1 DEF Routed
  <2>7. active' => engine'.rules = store.rules \/ store.writing
    BY <1>1 DEF Loaded
  <2> QED BY <2>1, <2>2, <2>3, <2>4, <2>5, <2>6, <2>7, StartsApply
<1> QED BY <1>3, <1>4

LEMMA BeginApplyStep == ASSUME IInv, BeginApply PROVE IInv'
<1> DEFINE o == [op EXCEPT !.expects = expected]
<1>1. Types /\ Values /\ Knows /\ Fenced /\ Loaded
  BY DEF IInv, Types
<1>2. /\ ops # <<>> /\ op.suspended = "yes" /\ ~coordinator.stopped /\ op.kind \in {"apply", "rules"}
      /\ provisioned' = provisioned /\ mode' = mode /\ settings' = settings /\ store' = store
      /\ engine' = engine /\ life' = life /\ expected' = expected /\ active' = active
      /\ StartOrThrow(o, ops, TRUE)
  BY DEF BeginApply, Ready, Turn, world
<1>3. op = ops[1] /\ op \in Transitions /\ Len(ops) \in Nat \ {0} /\ ops \in Seq(Transitions)
  BY <1>1, <1>2, HeadShape
<1>4. /\ o \in Transitions /\ o.kind = op.kind /\ o.gen = op.gen /\ o.act = op.act
      /\ o.epoch = op.epoch /\ o.suspended = "yes" /\ o.expects = expected
  BY <1>1, <1>2, <1>3 DEF Transitions, Values
<1> HIDE DEF o
<1>5. Kept(ops, ops)
  BY <1>3, KeptItself
<1>6. mode = "apply" /\ o.epoch => o.act
  <2>1. 1 \in 1..Len(ops)
    BY <1>3
  <2> QED BY <2>1, <1>1, <1>3, <1>4 DEF Fenced
<1>7. capability /\ ~store.writing /\ engine.rules # store.rules =>
         o.epoch \/ \E i \in 2..Len(ops) : Owes(ops[i])
  <2> SUFFICES ASSUME capability, ~store.writing, engine.rules # store.rules
               PROVE  o.epoch \/ \E i \in 2..Len(ops) : Owes(ops[i])
    OBVIOUS
  <2>1. PICK i \in 1..Len(ops) : Owes(ops[i])
    BY <1>1 DEF Loaded
  <2>2. CASE i = 1
    BY <2>1, <2>2, <1>3, <1>4 DEF Owes
  <2> QED BY <2>1, <2>2, <1>3
<1>8. /\ provisioned \in BOOLEAN /\ expected \in Nat \cup {Unknown} /\ active \in BOOLEAN
      /\ provisioned => expected # Unknown /\ (expected = store.rules \/ store.writing)
      /\ (active => provisioned) /\ (capability => provisioned)
  BY <1>1 DEF Values, Knows
<1>9. ~OwnExcuse /\ o.kind # "reconcile"
  BY <1>2, <1>4 DEF OwnExcuse
<1> QED BY <1>1, <1>2, <1>4, <1>5, <1>6, <1>7, <1>8, <1>9, StartsOrThrows

LEMMA BeginSettingsStep == ASSUME IInv, BeginSettings PROVE IInv'
<1> DEFINE o == [op EXCEPT !.expects = expected, !.act = TRUE, !.epoch = TRUE]
           s == StaleBoth(ops)
<1>1. Types /\ Values /\ Knows
  BY DEF IInv, Types
<1>2. /\ ops # <<>> /\ op.suspended = "yes" /\ ~coordinator.stopped /\ op.kind = "settings"
      /\ provisioned' = provisioned /\ mode' = mode /\ settings' = settings /\ store' = store
      /\ engine' = engine /\ life' = life /\ expected' = expected /\ ~active' /\ active' \in BOOLEAN
      /\ StartOrThrow(o, s, TRUE)
  BY DEF BeginSettings, Ready, Turn, world
<1>3. op = ops[1] /\ op \in Transitions /\ Len(ops) \in Nat \ {0} /\ ops \in Seq(Transitions)
  BY <1>1, <1>2, HeadShape
<1>4. /\ o \in Transitions /\ o.kind = op.kind /\ o.gen = op.gen /\ o.act /\ o.epoch
      /\ o.suspended = "yes" /\ o.expects = expected
  BY <1>1, <1>2, <1>3 DEF Transitions, Values
<1>5. Kept(s, ops) /\ \A i \in 1..Len(s) : ~s[i].act
  BY <1>1, <1>3, StaleBothShape, KeptStaleBoth DEF Values
<1> HIDE DEF o, s
<1>6. /\ provisioned \in BOOLEAN /\ expected \in Nat \cup {Unknown}
      /\ provisioned => expected # Unknown /\ (expected = store.rules \/ store.writing)
      /\ (capability => provisioned)
  BY <1>1 DEF Values, Knows
<1>7. o.kind # "reconcile"
  BY <1>2, <1>4
<1> QED BY <1>2, <1>4, <1>5, <1>6, <1>7, StartsOrThrows

LEMMA Finished ==
    ASSUME Values, NEW o \in Transitions, NEW applied \in BOOLEAN, NEW verified \in BOOLEAN,
           NEW sure \in BOOLEAN, Finishes(o, applied, verified, sure)
    PROVE  /\ coordinator' \in [recovery : BOOLEAN, verified : BOOLEAN, stopped : BOOLEAN]
           /\ coordinator'.stopped = coordinator.stopped
           /\ life' \in {"stopping", "failed", "disabled", "enabled"} /\ recovery' \in BOOLEAN
           /\ life' = life \/ (o.gen /\ ~coordinator.stopped)
           /\ life' = "enabled" => \/ life = "enabled"
                                   \/ /\ o.gen /\ settings.enabled /\ settings.target # NoGroup
                                      /\ coordinator'.verified
<1> DEFINE current   == o.gen /\ ~coordinator.stopped
           effective == current /\ applied /\ (Wants => settings.target # NoGroup /\ verified)
           enables   == effective /\ Wants
           blocked   == enables /\ life # "disabled"
<1>1. /\ coordinator' = [coordinator EXCEPT
             !.verified = verified,
             !.recovery = IF current THEN Wants /\ (~effective \/ blocked) ELSE @]
      /\ life' = IF ~enables THEN life ELSE IF blocked THEN "stopping" ELSE "enabled"
      /\ recovery' = IF o.kind = "reconcile" /\ ~coordinator.stopped
                     THEN Requires(applied, sure) ELSE recovery
  BY DEF Finishes
<1>2. /\ coordinator \in [recovery : BOOLEAN, verified : BOOLEAN, stopped : BOOLEAN]
      /\ Wants \in BOOLEAN /\ Wants = settings.enabled
      /\ life \in {"stopping", "failed", "disabled", "enabled"} /\ recovery \in BOOLEAN
  BY DEF Values, Wants
<1>3. /\ enables => o.gen /\ ~coordinator.stopped /\ Wants /\ settings.target # NoGroup /\ verified
      /\ current \in BOOLEAN /\ effective \in BOOLEAN /\ blocked \in BOOLEAN /\ enables \in BOOLEAN
  BY <1>2
<1>4. Requires(applied, sure) \in BOOLEAN
  BY DEF Requires
<1> HIDE DEF current, effective, enables, blocked
<1>5. (IF current THEN Wants /\ (~effective \/ blocked) ELSE coordinator.recovery) \in BOOLEAN
  BY <1>2, <1>3
<1>6. /\ coordinator' \in [recovery : BOOLEAN, verified : BOOLEAN, stopped : BOOLEAN]
      /\ coordinator'.stopped = coordinator.stopped /\ coordinator'.verified = verified
  BY <1>1, <1>2, <1>5
<1> QED BY <1>1, <1>2, <1>3, <1>4, <1>6

LEMMA BeginReconcileStep == ASSUME IInv, BeginReconcile, Unknown \notin Nat PROVE IInv'
<1>1. Types /\ Values /\ Knows /\ Fenced /\ Routed /\ Loaded /\ RunsOnlyVerified /\ InOrder
  BY DEF IInv, Types
<1>2. /\ ops # <<>> /\ op.suspended = "yes" /\ ~coordinator.stopped /\ op.kind = "reconcile"
      /\ op.pc = "wait" /\ mode' = mode /\ settings' = settings /\ store' = store /\ engine' = engine
  BY DEF BeginReconcile, Ready, Turn, world
<1>3. op = ops[1] /\ op \in Transitions /\ Len(ops) \in Nat \ {0} /\ ops \in Seq(Transitions)
      /\ 1 \in 1..Len(ops)
  BY <1>1, <1>2, HeadShape
<1>4. Kept(ops, ops)
  BY <1>3, KeptItself
<1>5. ~OwnExcuse
  BY <1>2 DEF OwnExcuse
<1>6. op.act => ~active /\ ~capability
  BY <1>1, <1>2, <1>3 DEF Fenced
<1>7. CASE ~op.act
  <2>1. /\ ops' = Tail(ops) /\ UNCHANGED controller /\ Finishes(op, FALSE, FALSE, FALSE)
    BY <1>7 DEF BeginReconcile
  <2>2. provisioned' = provisioned /\ expected' = expected /\ active' = active /\ capability' = capability
    BY <2>1 DEF controller
  <2>3. /\ coordinator' \in [recovery : BOOLEAN, verified : BOOLEAN, stopped : BOOLEAN]
        /\ coordinator'.stopped = coordinator.stopped
        /\ life' \in {"stopping", "failed", "disabled", "enabled"} /\ recovery' \in BOOLEAN
        /\ life' = life \/ (op.gen /\ ~coordinator.stopped)
        /\ life' = "enabled" => \/ life = "enabled"
                                \/ /\ op.gen /\ settings.enabled /\ settings.target # NoGroup
                                   /\ coordinator'.verified
    BY <1>1, <1>3, <2>1, Finished
  <2>4. Values'
    BY <1>1, <1>2, <2>2, <2>3 DEF Values
  <2>5. Knows'
    BY <1>1, <1>2, <2>2 DEF Knows
  <2>6. capability' /\ ~store.writing /\ engine'.rules # store.rules =>
           \E i \in 2..Len(ops) : Owes(ops[i])
    <3> SUFFICES ASSUME capability, ~store.writing, engine.rules # store.rules
                 PROVE  \E i \in 2..Len(ops) : Owes(ops[i])
      BY <1>2, <2>2
    <3>1. PICK i \in 1..Len(ops) : Owes(ops[i])
      BY <1>1 DEF Loaded
    <3>2. i # 1
      BY <1>2, <1>3, <3>1 DEF Owes
    <3> QED BY <3>1, <3>2, <1>3
  <2>7. active' => engine'.route = settings.target \/ Excused
    BY <1>1, <1>2, <2>2 DEF Routed
  <2>8. active' => engine'.rules = store.rules \/ store.writing
    BY <1>1, <1>2, <2>2 DEF Loaded
  <2>9. life # "enabled"
    BY <1>1, <1>2 DEF RunsOnlyVerified
  <2> QED BY <1>2, <1>4, <1>5, <2>1, <2>2, <2>3, <2>4, <2>5, <2>6, <2>7, <2>8, <2>9, Ends
<1>8. CASE op.act /\ mode = "apply"
  <2> DEFINE o == [op EXCEPT !.pc = "provision", !.epoch = TRUE]  s == StaleCap(ops)
  <2>1. /\ ~provisioned' /\ provisioned' \in BOOLEAN /\ expected' = Unknown
        /\ ~capability' /\ capability' \in BOOLEAN
        /\ ops' = KeepHead(s, o) /\ coordinator' = coordinator /\ recovery' = recovery
        /\ active' = active /\ life' = life
    BY <1>8 DEF BeginReconcile
  <2>2. /\ o \in Transitions /\ o.pc = "provision" /\ o.kind = "reconcile" /\ o.gen = op.gen
        /\ o.act = op.act /\ o.epoch /\ o.suspended = "yes"
    BY <1>2, <1>3 DEF Transitions
  <2>3. Kept(s, ops)
    BY <1>1, <1>3, KeptStaleCap DEF Values
  <2> HIDE DEF o, s
  <2>4. /\ ops' \in Seq(Transitions) /\ ops' # <<>> /\ ops'[1] = o /\ InOrder' /\ Fenced'
    BY <1>1, <1>2, <1>8, <2>1, <2>2, <2>3, Replaced
  <2>5. ~active'
    BY <1>6, <1>8, <2>1
  <2>6. Types'
    BY <1>1, <1>2, <2>1, <2>4 DEF Types, Values
  <2>7. Knows'
    BY <2>1, <2>5 DEF Knows
  <2>8. InProgress'
    BY <1>2, <1>8, <2>1, <2>2, <2>4, <2>5 DEF InProgress, Provisioning, Holds, Applies
  <2>9. Routed' /\ Loaded'
    BY <2>1, <2>2, <2>4, <2>5 DEF Routed, Loaded, Applies
  <2>10. RunsOnlyVerified'
    BY <1>1, <1>2, <2>1 DEF RunsOnlyVerified
  <2> QED BY <2>4, <2>6, <2>7, <2>8, <2>9, <2>10 DEF IInv
<1>9. CASE op.act /\ mode = "report"
  <2>1. /\ provisioned' = store.known /\ expected' = IF store.known THEN store.rules ELSE Unknown
        /\ active' = active /\ life' = life /\ StartOrThrow(op, ops, TRUE)
    BY <1>9 DEF BeginReconcile
  <2>2. ~active' /\ active' \in BOOLEAN /\ ~capability
    BY <1>1, <1>6, <1>9, <2>1 DEF Values
  <2>3. /\ provisioned' \in BOOLEAN /\ expected' \in Nat \cup {Unknown}
        /\ provisioned' => expected' # Unknown /\ (expected' = store.rules \/ store.writing)
    BY <1>1, <2>1 DEF Values
  <2>4. mode # "apply"
    BY <1>9
  <2> QED BY <1>2, <1>3, <1>4, <1>9, <2>1, <2>2, <2>3, <2>4, StartsOrThrows
<1> QED BY <1>1, <1>7, <1>8, <1>9 DEF Values

LEMMA ProvisionStep == ASSUME IInv, Provision, Unknown \notin Nat PROVE IInv'
<1>1. Types /\ Values /\ Knows /\ Fenced /\ Routed /\ Loaded /\ InOrder /\ InProgress
  BY DEF IInv, Types
<1>2. /\ ops # <<>> /\ op.pc = "provision" /\ mode' = mode /\ settings' = settings
      /\ engine' = engine /\ active' = active /\ life' = life
  BY DEF Provision
<1>3. op = ops[1] /\ op \in Transitions /\ Len(ops) \in Nat \ {0} /\ ops \in Seq(Transitions)
      /\ 1 \in 1..Len(ops)
  BY <1>1, <1>2, HeadShape
<1>4. Kept(ops, ops)
  BY <1>3, KeptItself
<1>5. /\ op.kind = "reconcile" /\ mode = "apply" /\ ~provisioned /\ ~active /\ ~capability
      /\ (op.act => op.epoch) /\ (op.epoch => op.act) /\ op.suspended = "yes"
  BY <1>1, <1>2, <1>3 DEF InProgress, Provisioning, Fenced, InOrder
<1>6. ~OwnExcuse
  BY <1>5 DEF OwnExcuse
<1>7. CASE /\ provisioned' = TRUE /\ expected' = store.rules
           /\ store' = [store EXCEPT !.known = TRUE]
           /\ ops' = KeepHead(ops, Applying([op EXCEPT !.expects =
                                        IF op.epoch THEN store.rules ELSE Unknown], "apply"))
           /\ UNCHANGED <<capability, coordinator, recovery, first>>
  <2> DEFINE e == [op EXCEPT !.expects = IF op.epoch THEN store.rules ELSE Unknown]
             n == Applying(e, "apply")
  <2>6. /\ e \in Transitions /\ e.kind = op.kind /\ e.gen = op.gen /\ e.act = op.act
        /\ e.epoch = op.epoch /\ e.suspended = op.suspended
        /\ (op.epoch => e.expects = store.rules)
    <3>1. (IF op.epoch THEN store.rules ELSE Unknown) \in Nat \cup {Unknown}
      BY <1>1 DEF Values
    <3> QED BY <1>3, <3>1 DEF Transitions
  <2> HIDE DEF e
  <2>1. /\ n \in Transitions /\ n.pc = "apply" /\ n.managed = provisioned' /\ n.saw = store.rules
        /\ n.target = (IF provisioned' THEN settings.target ELSE NoGroup)
        /\ n.kind = op.kind /\ n.gen = op.gen /\ n.act = op.act /\ n.epoch = op.epoch
        /\ n.suspended = op.suspended /\ (op.epoch => n.expects = store.rules)
    BY <1>1, <1>7, <2>6 DEF Applying, Target, Values, Transitions, Routes
  <2> HIDE DEF n
  <2>2. ops' = KeepHead(ops, n)
    BY <1>7 DEF n, e
  <2>3. /\ store' \in [rules : Nat, known : BOOLEAN, writing : BOOLEAN]
        /\ store'.rules = store.rules /\ store'.writing = store.writing
    BY <1>1, <1>7 DEF Values
  <2>4. Values' /\ store.rules \in Nat
    BY <1>1, <1>2, <1>7, <2>3 DEF Values
  <2>5. Knows'
    BY <1>2, <1>5, <1>7, <2>3, <2>4 DEF Knows
  <2>7. /\ ~active' /\ ~capability' /\ coordinator' = coordinator
        /\ n.act => n.expects = store.rules
        /\ n.epoch => n.act
    BY <1>2, <1>5, <1>7, <2>1
  <2> QED BY <1>2, <1>4, <1>5, <1>6, <2>1, <2>2, <2>3, <2>4, <2>5, <2>7, StartsApply
<1>8. CASE UNCHANGED <<provisioned, expected, store>> /\ StartOrThrow(op, ops, TRUE)
  <2>1. provisioned \in BOOLEAN /\ expected \in Nat \cup {Unknown} /\ active \in BOOLEAN
    BY <1>1 DEF Values
  <2> QED BY <1>2, <1>3, <1>4, <1>5, <1>6, <1>8, <2>1, StartsOrThrows
<1> QED BY <1>7, <1>8 DEF Provision

-----------------------------------------------------------------------------
(* The apply and the proof                                                   *)

LEMMA Throwing ==
    ASSUME IInv, ops # <<>>, NEW started, Throws(op, started),
           mode' = mode, settings' = settings, store' = store, provisioned' = provisioned,
           expected' = expected, active' = active, life' = life,
           engine' \in [rules : Nat, route : Routes], ~OwnExcuse,
           active => engine'.route = settings.target \/ Excused,
           active => engine'.rules = store.rules \/ store.writing,
           capability /\ ~store.writing /\ engine'.rules # store.rules =>
              \E i \in 1..Len(ops) : Owes(ops[i])
    PROVE  IInv'
<1> DEFINE mine == op.epoch /\ op.kind # "reconcile"
           s == IF mine THEN StaleCap(ops) ELSE ops
<1>1. Types /\ Values /\ Knows /\ RunsOnlyVerified
  BY DEF IInv, Types
<1>2. op = ops[1] /\ op \in Transitions /\ Len(ops) \in Nat \ {0} /\ ops \in Seq(Transitions)
  BY <1>1, HeadShape
<1>3. /\ ops' = Tail(s)
      /\ capability' = (capability /\ ~mine /\ op.kind # "rules")
      /\ coordinator' = IF started /\ op.gen THEN [coordinator EXCEPT !.recovery = Wants]
                        ELSE coordinator
      /\ recovery' = Retried(op)
  BY DEF Throws
<1>4. Kept(s, ops)
  BY <1>1, <1>2, KeptItself, KeptStaleCap DEF Values
<1>5. Values'
  <2>1. coordinator' \in [recovery : BOOLEAN, verified : BOOLEAN, stopped : BOOLEAN]
    BY <1>1, <1>3 DEF Values, Wants
  <2>2. recovery' \in BOOLEAN /\ capability' \in BOOLEAN
    BY <1>1, <1>3 DEF Values, Retried
  <2> QED BY <1>1, <2>1, <2>2 DEF Values
<1>6. coordinator'.stopped = coordinator.stopped
  BY <1>1, <1>3 DEF Values
<1>7. Knows'
  BY <1>1, <1>3 DEF Knows
<1>8. capability' /\ ~store.writing /\ engine'.rules # store.rules => \E i \in 2..Len(ops) : Owes(s[i])
  <2> SUFFICES ASSUME capability', ~store.writing, engine'.rules # store.rules
               PROVE  \E i \in 2..Len(ops) : Owes(s[i])
    OBVIOUS
  <2>1. capability /\ ~mine
    BY <1>3
  <2>2. PICK i \in 1..Len(ops) : Owes(ops[i])
    BY <2>1
  <2>3. i # 1
    BY <1>2, <2>1, <2>2 DEF Owes
  <2> QED BY <1>2, <2>1, <2>2, <2>3
<1>9. life' # "enabled"
  BY <1>1 DEF RunsOnlyVerified
<1>10. capability' => capability
  BY <1>3
<1> HIDE DEF s, mine
<1> QED BY <1>3, <1>4, <1>5, <1>6, <1>7, <1>8, <1>9, <1>10, Ends

LEMMA RefusedStep == ASSUME IInv, Refused PROVE IInv'
<1>1. Types /\ Values /\ Knows /\ Routed /\ Loaded /\ RunsOnlyVerified
  BY DEF IInv, Types
<1>2. /\ ops # <<>> /\ op.pc = "wait" /\ (op.suspended = "failed" \/ coordinator.stopped)
      /\ mode' = mode /\ settings' = settings /\ store' = store /\ engine' = engine
      /\ provisioned' = provisioned /\ expected' = expected /\ active' = active /\ life' = life
  BY DEF Refused, Turn, world
<1>3. op = ops[1] /\ op \in Transitions /\ Len(ops) \in Nat \ {0} /\ ops \in Seq(Transitions)
  BY <1>1, <1>2, HeadShape
<1>4. /\ active => engine'.route = settings.target \/ Excused
      /\ active => engine'.rules = store.rules \/ store.writing
      /\ capability /\ ~store.writing /\ engine'.rules # store.rules =>
            \E i \in 1..Len(ops) : Owes(ops[i])
  BY <1>1, <1>2 DEF Routed, Loaded
<1>5. CASE op.kind = "settings"
  <2>1. /\ ops' = Tail(ops) /\ capability' = capability /\ coordinator' = coordinator
        /\ recovery' = recovery
    BY <1>5 DEF Refused
  <2>2. Kept(ops, ops)
    BY <1>3, KeptItself
  <2>3. OwnExcuse => coordinator.stopped
    BY <1>2 DEF OwnExcuse
  <2>4. Values'
    BY <1>1, <1>2, <2>1 DEF Values
  <2>5. Knows'
    BY <1>1, <1>2, <2>1 DEF Knows
  <2>6. capability' /\ ~store.writing /\ engine'.rules # store.rules =>
           \E i \in 2..Len(ops) : Owes(ops[i])
    <3> SUFFICES ASSUME capability, ~store.writing, engine'.rules # store.rules
                 PROVE  \E i \in 2..Len(ops) : Owes(ops[i])
      BY <2>1
    <3>1. PICK i \in 1..Len(ops) : Owes(ops[i])
      BY <1>4
    <3>2. i # 1
      BY <1>2, <1>3, <1>5, <3>1 DEF Owes
    <3> QED BY <1>3, <3>1, <3>2
  <2>7. life' # "enabled"
    BY <1>1, <1>2 DEF RunsOnlyVerified
  <2> QED BY <1>2, <1>4, <2>1, <2>2, <2>3, <2>4, <2>5, <2>6, <2>7, Ends
<1>6. CASE op.kind # "settings"
  <2>1. Throws(op, FALSE)
    BY <1>6 DEF Refused
  <2>2. ~OwnExcuse
    BY <1>6 DEF OwnExcuse
  <2>3. engine' \in [rules : Nat, route : Routes]
    BY <1>1, <1>2 DEF Values
  <2> QED BY <1>2, <1>4, <2>1, <2>2, <2>3, Throwing
<1> QED BY <1>5, <1>6

\* The result of an apply, in the state of the controller it has led to.
LEMMA Concluded ==
    ASSUME IInv, ops # <<>>, Applies(op), NEW s, Kept(s, ops),
           NEW applied \in BOOLEAN, NEW sure \in BOOLEAN, Conclude(op, s, applied, sure),
           mode' = mode, settings' = settings, store' = store, provisioned' = provisioned,
           expected' = expected, engine' \in [rules : Nat, route : Routes],
           active' \in BOOLEAN, capability' \in BOOLEAN,
           active' => active \/ op.act, capability' => capability \/ op.act,
           active' => provisioned, capability' => provisioned /\ mode = "apply",
           Again(op, applied, sure) => ~active',
           active' => engine'.route = settings.target \/ Excused,
           active' => engine'.rules = store.rules \/ store.writing,
           capability' /\ ~store.writing /\ engine'.rules # store.rules =>
              \E i \in 2..Len(ops) : Owes(s[i])
    PROVE  IInv'
<1>1. Types /\ Values /\ Knows /\ RunsOnlyVerified /\ InOrder /\ Fenced
  BY DEF IInv, Types
<1>2. op = ops[1] /\ op \in Transitions /\ Len(ops) \in Nat \ {0} /\ ops \in Seq(Transitions)
      /\ 1 \in 1..Len(ops)
  BY <1>1, HeadShape
<1>3. op.pc # "wait" /\ op.suspended = "yes" /\ ~OwnExcuse
  BY <1>1, <1>2 DEF Applies, InOrder, OwnExcuse
<1>4. Knows'
  BY <1>1 DEF Knows
<1>5. life # "enabled"
  BY <1>1 DEF RunsOnlyVerified
<1>6. CASE Again(op, applied, sure)
  <2> DEFINE a == Applying(op, "apply")
             n == [a EXCEPT !.forced = TRUE, !.applied = FALSE, !.sure = FALSE, !.expects = expected]
  <2>1. ops' = KeepHead(s, n) /\ coordinator' = coordinator /\ recovery' = recovery /\ life' = life
    BY <1>6 DEF Conclude
  <2>2. /\ a \in Transitions /\ a.pc = "apply" /\ a.managed = provisioned' /\ a.saw = store.rules
        /\ a.target = (IF provisioned' THEN settings.target ELSE NoGroup)
        /\ a.kind = op.kind /\ a.gen = op.gen /\ a.act = op.act /\ a.epoch = op.epoch
        /\ a.suspended = op.suspended
    <3>1. provisioned' \in BOOLEAN /\ store.rules \in Nat /\ settings.target \in Routes
      BY <1>1 DEF Values
    <3>2. Target(op) \in Routes
      BY <3>1 DEF Target, Routes
    <3>3. a = [op EXCEPT !.pc = "apply", !.target = Target(op), !.managed = provisioned',
                         !.saw = store.rules]
      BY DEF Applying
    <3>4. Target(op) = IF provisioned' THEN settings.target ELSE NoGroup
      BY DEF Target
    <3> HIDE DEF a
    <3> QED BY <1>2, <3>1, <3>2, <3>3, <3>4 DEF Transitions
  <2> HIDE DEF a
  <2>3. /\ n \in Transitions /\ n.pc = "apply" /\ n.managed = provisioned' /\ n.saw = store.rules
        /\ n.target = (IF provisioned' THEN settings.target ELSE NoGroup)
        /\ n.kind = op.kind /\ n.gen = op.gen /\ n.act = op.act /\ n.epoch = op.epoch
        /\ n.suspended = "yes" /\ n.expects = expected
    BY <1>1, <1>3, <2>2 DEF Values, Transitions
  <2> HIDE DEF n
  <2>4. Values'
    BY <1>1, <2>1 DEF Values
  <2>5. mode = "apply" /\ n.epoch => n.act
    BY <1>1, <1>2, <2>3 DEF Fenced
  <2>6. n.kind # "reconcile"
    BY <1>6, <2>3 DEF Again
  <2>7. provisioned' => store.writing \/ n.expects = store.rules
    BY <1>1, <2>3 DEF Knows
  <2> QED BY <1>3, <1>4, <1>6, <2>1, <2>3, <2>4, <2>5, <2>6, <2>7, StartsApply
<1>7. CASE ~Again(op, applied, sure)
  <2> DEFINE fails == op.forced /\ ~(applied /\ sure)
             done  == applied /\ ~fails
             seen  == Settled(op, applied, sure)
  <2>1. ops' = Tail(s) /\ Finishes(op, done, seen, seen)
    BY <1>7 DEF Conclude
  <2>2. done \in BOOLEAN /\ seen \in BOOLEAN
    BY <1>1 DEF Settled, Values
  <2> HIDE DEF done, seen
  <2>3. /\ coordinator' \in [recovery : BOOLEAN, verified : BOOLEAN, stopped : BOOLEAN]
        /\ coordinator'.stopped = coordinator.stopped
        /\ life' \in {"stopping", "failed", "disabled", "enabled"} /\ recovery' \in BOOLEAN
        /\ life' = life \/ (op.gen /\ ~coordinator.stopped)
        /\ life' = "enabled" => \/ life = "enabled"
                                \/ /\ op.gen /\ settings.enabled /\ settings.target # NoGroup
                                   /\ coordinator'.verified
    BY <1>1, <1>2, <2>1, <2>2, Finished
  <2>4. Values'
    BY <1>1, <2>3 DEF Values
  <2> QED BY <1>3, <1>4, <1>5, <2>1, <2>3, <2>4, Ends
<1> QED BY <1>6, <1>7

\* What the engine holds once the apply in progress has reached it.
LEMMA Loading ==
    ASSUME IInv, ops # <<>>, Applies(op), engine' \in {engine} \cup Loads(op)
    PROVE  /\ engine' \in [rules : Nat, route : Routes]
           /\ active => engine'.route = settings.target \/ Excused
           /\ active => engine'.rules = store.rules \/ store.writing
           /\ capability /\ ~store.writing /\ engine'.rules # store.rules =>
                 \E i \in 1..Len(ops) : Owes(ops[i])
<1>1. Types /\ Values /\ Knows /\ Routed /\ Loaded /\ InProgress
  BY DEF IInv, Types
<1>2. op = ops[1] /\ op \in Transitions
  BY <1>1, HeadShape
<1>3. op.saw # store.rules => ~capability /\ ~active
  BY <1>1, <1>2 DEF InProgress, Holds
<1>4. provisioned /\ active => op.target = settings.target \/ Excused
  BY <1>1, <1>2 DEF Routed
<1>5. CASE engine' = engine
  BY <1>1, <1>5 DEF Values, Routed, Loaded
<1>6. CASE engine' \in Loads(op)
  <2>1. PICK r \in {op.saw, store.rules} : engine' = [rules |-> r, route |-> op.target]
    BY <1>6 DEF Loads
  <2>2. op.saw \in Nat /\ op.target \in Routes /\ store.rules \in Nat
    BY <1>1, <1>2 DEF Transitions, Values
  <2>3. engine' \in [rules : Nat, route : Routes] /\ engine'.rules = r /\ engine'.route = op.target
    BY <2>1, <2>2
  <2> QED BY <1>1, <1>3, <1>4, <2>1, <2>3 DEF Knows
<1> QED BY <1>5, <1>6

\* Without a proof nothing is published, and what it would have covered is revoked.
LEMMA UnprovedEnds ==
    ASSUME IInv, ops # <<>>, Applies(op), NEW revokes \in BOOLEAN,
           NEW applied \in BOOLEAN, NEW sure \in BOOLEAN, Unproved(op, revokes, applied, sure),
           capability /\ op.kind # "reconcile" => revokes,
           mode' = mode, settings' = settings, store' = store, provisioned' = provisioned,
           expected' = expected, engine' \in [rules : Nat, route : Routes],
           active => engine'.route = settings.target \/ Excused,
           active => engine'.rules = store.rules \/ store.writing,
           capability /\ ~store.writing /\ engine'.rules # store.rules =>
              \E i \in 1..Len(ops) : Owes(ops[i])
    PROVE  IInv'
<1> DEFINE mine == Revokes(op, revokes)
           s == IF mine THEN StaleCap(ops) ELSE ops
<1>1. Types /\ Values /\ Knows /\ InProgress
  BY DEF IInv, Types
<1>2. op = ops[1] /\ op \in Transitions /\ Len(ops) \in Nat \ {0} /\ ops \in Seq(Transitions)
  BY <1>1, HeadShape
<1>3. /\ active' = IF op.act \/ Again(op, applied, sure) THEN FALSE ELSE active
      /\ capability' = (capability /\ ~mine)
      /\ Conclude(op, s, applied, sure)
  BY DEF Unproved
<1>4. Kept(s, ops)
  BY <1>1, <1>2, KeptItself, KeptStaleCap DEF Values
<1>5. /\ active' \in BOOLEAN /\ capability' \in BOOLEAN /\ (active' => active)
      /\ (capability' => capability) /\ (Again(op, applied, sure) => ~active')
  BY <1>1, <1>3 DEF Values
<1>6. (active => provisioned) /\ (capability => provisioned /\ mode = "apply")
  BY <1>1 DEF Knows
<1>7. capability' /\ ~store.writing /\ engine'.rules # store.rules => \E i \in 2..Len(ops) : Owes(s[i])
  <2> SUFFICES ASSUME capability', ~store.writing, engine'.rules # store.rules
               PROVE  \E i \in 2..Len(ops) : Owes(s[i])
    OBVIOUS
  <2>1. capability /\ ~mine
    BY <1>3
  <2>2. op.kind # "reconcile"
    BY <1>1, <1>2, <2>1 DEF InProgress, Holds
  <2>3. ~op.epoch
    BY <2>1, <2>2 DEF Revokes
  <2>4. PICK i \in 1..Len(ops) : Owes(ops[i])
    BY <2>1
  <2>5. i # 1
    BY <1>2, <2>3, <2>4 DEF Owes
  <2> QED BY <1>2, <2>1, <2>4, <2>5
<1> HIDE DEF s, mine
<1> QED BY <1>3, <1>4, <1>5, <1>6, <1>7, Concluded

LEMMA ApplyEndsStep == ASSUME IInv, ApplyEnds PROVE IInv'
<1>1. Types /\ Values /\ Knows /\ InProgress /\ InOrder /\ Fenced /\ Routed /\ Loaded /\ RunsOnlyVerified
  BY DEF IInv, Types
<1>2. /\ ops # <<>> /\ op.pc = "apply" /\ mode' = mode /\ settings' = settings /\ store' = store
      /\ provisioned' = provisioned /\ expected' = expected
  BY DEF ApplyEnds, world
<1>3. op = ops[1] /\ op \in Transitions /\ Len(ops) \in Nat \ {0} /\ ops \in Seq(Transitions)
      /\ 1 \in 1..Len(ops)
  BY <1>1, <1>2, HeadShape
<1>4. PICK sure \in BOOLEAN :
         /\ IF sure THEN engine' \in Loads(op)
            ELSE op.kind = "apply" /\ ~op.forced /\ engine.route = op.target /\ UNCHANGED engine
         /\ IF op.target # NoGroup
            THEN /\ ops' = KeepHead(ops, [op EXCEPT !.pc = "prove", !.applied = TRUE, !.sure = sure])
                 /\ UNCHANGED <<active, capability, life, coordinator, recovery, first>>
            ELSE Unproved(op, Publishes(op) /\ op.managed, TRUE, sure)
  BY DEF ApplyEnds
<1>5. Applies(op) /\ op.suspended = "yes" /\ ~OwnExcuse
  BY <1>1, <1>2, <1>3 DEF Applies, InOrder, OwnExcuse
<1>6. /\ engine' \in [rules : Nat, route : Routes]
      /\ active => engine'.route = settings.target \/ Excused
      /\ active => engine'.rules = store.rules \/ store.writing
      /\ capability /\ ~store.writing /\ engine'.rules # store.rules =>
            \E i \in 1..Len(ops) : Owes(ops[i])
  BY <1>2, <1>4, <1>5, Loading
<1>7. /\ op.managed = provisioned
      /\ op.target # NoGroup => provisioned
      /\ op.kind = "reconcile" => ~capability /\ ~active
      /\ op.saw # store.rules => ~capability /\ ~active /\ ~op.act
      /\ op.act /\ provisioned => store.writing \/ op.expects = store.rules
                                  \/ (mode = "report" /\ op.kind = "reconcile")
  BY <1>1, <1>3, <1>5 DEF InProgress, Holds
<1>8. CASE op.target = NoGroup
  <2>1. Unproved(op, Publishes(op) /\ op.managed, TRUE, sure)
    BY <1>4, <1>8
  <2>2. (Publishes(op) /\ op.managed) \in BOOLEAN
    BY <1>1, <1>7 DEF Publishes, Values
  <2>3. capability /\ op.kind # "reconcile" => Publishes(op) /\ op.managed
    BY <1>1, <1>7 DEF Publishes, Knows
  <2> HIDE DEF Publishes
  <2> QED BY <1>2, <1>5, <1>6, <2>1, <2>2, <2>3, UnprovedEnds
<1>9. CASE op.target # NoGroup
  <2> DEFINE o == [op EXCEPT !.pc = "prove", !.applied = TRUE, !.sure = sure]
  <2>1. /\ ops' = KeepHead(ops, o) /\ active' = active /\ capability' = capability
        /\ life' = life /\ coordinator' = coordinator /\ recovery' = recovery
    BY <1>4, <1>9
  <2>2. /\ o \in Transitions /\ o.pc = "prove" /\ o.kind = op.kind /\ o.gen = op.gen
        /\ o.act = op.act /\ o.epoch = op.epoch /\ o.suspended = "yes" /\ o.expects = op.expects
        /\ o.target = op.target /\ o.saw = op.saw /\ o.managed = op.managed
    BY <1>3, <1>5 DEF Transitions
  <2> HIDE DEF o
  <2>3. Kept(ops, ops)
    BY <1>3, KeptItself
  <2>4. mode = "apply" /\ o.epoch => o.act
    BY <1>1, <1>3, <2>2 DEF Fenced
  <2>5. /\ ops' \in Seq(Transitions) /\ Len(ops') = Len(ops) /\ ops' # <<>> /\ ops'[1] = o
        /\ \A i \in 2..Len(ops) : ops'[i] = ops[i]
        /\ InOrder' /\ Fenced' /\ (Excused => Excused')
    BY <1>1, <1>2, <1>5, <2>1, <2>2, <2>3, <2>4, Replaced
  <2>6. Types'
    BY <1>1, <1>2, <1>6, <2>1, <2>5 DEF Types, Values
  <2>7. Knows'
    BY <1>1, <1>2, <2>1 DEF Knows
  <2>8. InProgress'
    <3>1. op.kind = "reconcile" /\ op.act => engine'.rules = store.rules
      BY <1>4, <1>7 DEF Loads
    <3> QED BY <1>2, <1>7, <1>9, <2>1, <2>2, <2>5, <3>1 DEF InProgress, Provisioning, Holds, Applies
  <2>9. Routed'
    BY <1>1, <1>2, <1>3, <1>5, <1>6, <2>1, <2>2, <2>5 DEF Routed
  <2>10. Loaded'
    <3> SUFFICES ASSUME capability, ~store.writing, engine'.rules # store.rules
                 PROVE  \E i \in 1..Len(ops') : Owes(ops'[i])
      BY <1>2, <1>6, <2>1 DEF Loaded
    <3>1. PICK i \in 1..Len(ops) : Owes(ops[i])
      BY <1>6
    <3>2. CASE i = 1
      <4>1. Owes(o)
        BY <1>3, <3>1, <3>2, <2>2 DEF Owes
      <4> QED BY <4>1, <1>3, <2>5
    <3>3. CASE i # 1
      BY <1>3, <3>1, <3>3, <2>5
    <3> QED BY <3>2, <3>3
  <2>11. RunsOnlyVerified'
    BY <1>1, <1>2, <2>1 DEF RunsOnlyVerified
  <2> QED BY <2>5, <2>6, <2>7, <2>8, <2>9, <2>10, <2>11 DEF IInv
<1> QED BY <1>8, <1>9

LEMMA ApplyFailsStep == ASSUME IInv, ApplyFails PROVE IInv'
<1>1. Types /\ Values /\ Knows /\ InProgress /\ InOrder
  BY DEF IInv, Types
<1>2. /\ ops # <<>> /\ op.pc = "apply" /\ mode' = mode /\ settings' = settings /\ store' = store
      /\ provisioned' = provisioned /\ expected' = expected /\ engine' \in {engine} \cup Loads(op)
  BY DEF ApplyFails, world
<1>3. op = ops[1] /\ op \in Transitions
  BY <1>1, <1>2, HeadShape
<1>4. Applies(op) /\ ~OwnExcuse
  BY <1>2 DEF Applies, OwnExcuse
<1>5. /\ engine' \in [rules : Nat, route : Routes]
      /\ active => engine'.route = settings.target \/ Excused
      /\ active => engine'.rules = store.rules \/ store.writing
      /\ capability /\ ~store.writing /\ engine'.rules # store.rules =>
            \E i \in 1..Len(ops) : Owes(ops[i])
  BY <1>2, <1>4, Loading
<1>6. op.managed = provisioned
  BY <1>1, <1>2, <1>3, <1>4 DEF InProgress, Holds
<1>7. CASE Unproved(op, Publishes(op) /\ op.managed, FALSE, FALSE)
  <2>1. (Publishes(op) /\ op.managed) \in BOOLEAN
    BY <1>1, <1>6 DEF Publishes, Values
  <2>2. capability /\ op.kind # "reconcile" => Publishes(op) /\ op.managed
    BY <1>1, <1>6 DEF Publishes, Knows
  <2> HIDE DEF Publishes
  <2> QED BY <1>2, <1>4, <1>5, <1>7, <2>1, <2>2, UnprovedEnds
<1>8. CASE Throws(op, TRUE) /\ UNCHANGED <<active, life>>
  BY <1>2, <1>4, <1>5, <1>8, Throwing
<1> QED BY <1>7, <1>8 DEF ApplyFails

\* What is proved while its epochs are current is what the engine holds.
LEMMA ProveStep == ASSUME IInv, Prove, Unknown \notin Nat PROVE IInv'
<1> DEFINE current == op.act /\ (mode = "report" \/ op.epoch)
           s == IF current /\ Publishes(op) THEN KeepHead(StaleCap(ops), op) ELSE ops
<1>1. Types /\ Values /\ Knows /\ InProgress /\ Fenced /\ Routed /\ Loaded
  BY DEF IInv, Types
<1>2. /\ ops # <<>> /\ op.pc = "prove" /\ mode' = mode /\ settings' = settings /\ store' = store
      /\ provisioned' = provisioned /\ expected' = expected /\ engine' = engine /\ Proved(op)
      /\ active' = IF Again(op, op.applied, op.sure) THEN FALSE ELSE active \/ current
      /\ capability' = IF mode = "report" THEN capability ELSE capability \/ current
      /\ Conclude(op, s, op.applied, op.sure)
  BY DEF Prove, world
<1>3. op = ops[1] /\ op \in Transitions /\ Len(ops) \in Nat \ {0} /\ ops \in Seq(Transitions)
      /\ 1 \in 1..Len(ops)
  BY <1>1, <1>2, HeadShape
<1>4. Applies(op) /\ op.applied \in BOOLEAN /\ op.sure \in BOOLEAN
      /\ op.act \in BOOLEAN /\ op.epoch \in BOOLEAN
  BY <1>2, <1>3 DEF Applies, Transitions
<1>5. Kept(s, ops)
  <2>1. Kept(StaleCap(ops), ops)
    BY <1>1, <1>3, KeptStaleCap DEF Values
  <2>2. Kept(KeepHead(StaleCap(ops), op), ops)
    BY <1>2, <1>3, <2>1, KeptHead
  <2> QED BY <1>3, <2>2, KeptItself
<1>6. /\ provisioned
      /\ op.act => \/ store.writing \/ op.expects = store.rules
                   \/ mode = "report" /\ engine.rules = store.rules
  BY <1>1, <1>2, <1>3, <1>4 DEF InProgress, Holds
<1>7. op.act => engine.rules = store.rules \/ store.writing
  BY <1>1, <1>2, <1>6 DEF Proved, Values
<1>8. op.act => engine.route = settings.target \/ Excused
  BY <1>1, <1>2, <1>3, <1>4, <1>6 DEF Routed, Proved
<1>9. /\ active' \in BOOLEAN /\ capability' \in BOOLEAN
      /\ active' => active \/ op.act
      /\ capability' => capability \/ op.act
      /\ Again(op, op.applied, op.sure) => ~active'
  BY <1>1, <1>2, <1>4 DEF Values
<1>10. capability' => mode = "apply"
  BY <1>1, <1>2 DEF Values, Knows
<1>11. active' => engine.route = settings.target \/ Excused
  BY <1>1, <1>8, <1>9 DEF Routed
<1>12. active' => engine.rules = store.rules \/ store.writing
  BY <1>1, <1>7, <1>9 DEF Loaded
<1>13. capability' /\ ~store.writing /\ engine.rules # store.rules => \E i \in 2..Len(ops) : Owes(s[i])
  <2> SUFFICES ASSUME capability', ~store.writing, engine.rules # store.rules
               PROVE  \E i \in 2..Len(ops) : Owes(s[i])
    OBVIOUS
  <2>1. capability /\ ~op.act
    BY <1>7, <1>9
  <2>2. PICK i \in 1..Len(ops) : Owes(ops[i])
    BY <1>1, <2>1 DEF Loaded
  <2>3. ~op.epoch
    BY <1>1, <1>3, <1>10, <2>1 DEF Fenced
  <2>4. i # 1
    BY <1>3, <2>2, <2>3 DEF Owes
  <2>5. s = ops
    BY <2>1
  <2> QED BY <1>3, <2>2, <2>4, <2>5
<1>14. engine \in [rules : Nat, route : Routes]
  BY <1>1 DEF Values
<1> HIDE DEF s, current
<1> QED BY <1>2, <1>4, <1>5, <1>6, <1>9, <1>10, <1>11, <1>12, <1>13, <1>14, Concluded

LEMMA ProofFailsStep == ASSUME IInv, ProofFails PROVE IInv'
<1>1. Types /\ Values /\ Knows /\ Routed /\ Loaded
  BY DEF IInv, Types
<1>2. /\ ops # <<>> /\ op.pc = "prove" /\ mode' = mode /\ settings' = settings /\ store' = store
      /\ provisioned' = provisioned /\ expected' = expected /\ engine' = engine
      /\ Unproved(op, Publishes(op), op.applied, op.sure)
  BY DEF ProofFails, world
<1>3. op = ops[1] /\ op \in Transitions
  BY <1>1, <1>2, HeadShape
<1>4. /\ Applies(op) /\ op.applied \in BOOLEAN /\ op.sure \in BOOLEAN
      /\ Publishes(op) \in BOOLEAN /\ (op.kind # "reconcile" => Publishes(op))
  BY <1>2, <1>3 DEF Applies, Transitions, Publishes
<1>5. /\ engine' \in [rules : Nat, route : Routes]
      /\ active => engine'.route = settings.target \/ Excused
      /\ active => engine'.rules = store.rules \/ store.writing
      /\ capability /\ ~store.writing /\ engine'.rules # store.rules =>
            \E i \in 1..Len(ops) : Owes(ops[i])
  BY <1>1, <1>2 DEF Values, Routed, Loaded
<1> QED BY <1>2, <1>4, <1>5, UnprovedEnds

-----------------------------------------------------------------------------
(* The theorems                                                              *)

\* No count of rules is the value that stands for none (expectedProviderRuleCount
\* is a number or null).
CountsKnown == Unknown \notin Nat

\* The boot: one reconciliation waits for collection to stop.
THEOREM Initially == CountsKnown /\ Init => IInv
<1> SUFFICES ASSUME CountsKnown, Init PROVE IInv
  OBVIOUS
<1> DEFINE o == [kind |-> "reconcile", pc |-> "wait", gen |-> TRUE, act |-> TRUE,
                 epoch |-> TRUE, suspended |-> "waiting", expects |-> Unknown,
                 target |-> NoGroup, saw |-> 0, managed |-> FALSE, forced |-> FALSE,
                 applied |-> FALSE, sure |-> FALSE]
<1>1. /\ o \in Transitions /\ o.kind = "reconcile" /\ o.pc = "wait" /\ o.suspended = "waiting"
      /\ o.gen = TRUE /\ o.act = TRUE
  BY DEF Transitions, Kinds, Routes
<1>2. ops = <<o>>
  BY DEF Init
<1> HIDE DEF o
<1>3. ops \in Seq(Transitions) /\ Len(ops) = 1 /\ ops[1] = o /\ ops # <<>>
  BY <1>1, <1>2
<1>4. /\ provisioned = FALSE /\ active = FALSE /\ capability = FALSE /\ life = "stopping"
      /\ coordinator = [recovery |-> FALSE, verified |-> FALSE, stopped |-> FALSE]
  BY DEF Init
<1>5. Types
  <2>1. /\ mode \in {"apply", "report"} /\ settings \in [enabled : BOOLEAN, target : Routes]
        /\ life = "stopping" /\ recovery = FALSE /\ expected = Unknown
    BY DEF Init, Routes
  <2>2. store \in [rules : Nat, known : BOOLEAN, writing : BOOLEAN]
    <3>1. store \in [rules : {1}, known : BOOLEAN, writing : {FALSE}]
      BY DEF Init
    <3>2. store = [rules |-> store.rules, known |-> store.known, writing |-> store.writing]
      BY <3>1
    <3>3. store.rules = 1 /\ store.known \in BOOLEAN /\ store.writing \in BOOLEAN
      BY <3>1
    <3>4. store.rules \in Nat
      BY <3>3
    <3> QED BY <3>2, <3>3, <3>4
  <2>3. engine \in [rules : Nat, route : Routes]
    <3>1. engine \in [rules : {0, 1}, route : Routes]
      BY DEF Init, Routes
    <3>2. engine = [rules |-> engine.rules, route |-> engine.route]
      BY <3>1
    <3>3. engine.rules \in {0, 1} /\ engine.route \in Routes
      BY <3>1
    <3>4. engine.rules \in Nat
      BY <3>3
    <3> QED BY <3>2, <3>3, <3>4
  <2> QED BY <1>3, <1>4, <2>1, <2>2, <2>3 DEF Types, Values
<1>6. InOrder /\ Fenced
  BY <1>1, <1>3, <1>4 DEF InOrder, Fenced
<1>7. Knows /\ Routed /\ Loaded /\ RunsOnlyVerified
  BY <1>4 DEF Knows, Routed, Loaded, RunsOnlyVerified
<1>8. InProgress
  BY <1>1, <1>3 DEF InProgress, Provisioning, Holds, Applies
<1> QED BY <1>5, <1>6, <1>7, <1>8 DEF IInv

\* Every step keeps the invariant.
THEOREM Inductive == CountsKnown /\ IInv /\ [Next]_vars => IInv'
<1> SUFFICES ASSUME CountsKnown, IInv, [Next]_vars PROVE IInv'
  OBVIOUS
<1> USE DEF CountsKnown
<1>1. CASE CallApply     BY <1>1, CallApplyStep
<1>2. CASE CallSettings  BY <1>2, CallSettingsStep
<1>3. CASE WriteRule     BY <1>3, WriteRuleStep
<1>4. CASE Reconnect
  BY <1>4, Reconciles DEF Reconnect
<1>5. CASE Shutdown      BY <1>5, ShutdownStep
<1>6. CASE FirstConnect  BY <1>6, FirstConnectStep
<1>7. CASE FirstRuntime  BY <1>7, FirstRuntimeStep
<1>8. CASE ApplyFails    BY <1>8, ApplyFailsStep
<1>9. CASE Refused       BY <1>9, RefusedStep
<1>10. CASE BeginApply     BY <1>10, BeginApplyStep
<1>11. CASE BeginSettings  BY <1>11, BeginSettingsStep
<1>12. CASE BeginReconcile BY <1>12, BeginReconcileStep
<1>13. CASE Provision      BY <1>13, ProvisionStep
<1>14. CASE ApplyEnds      BY <1>14, ApplyEndsStep
<1>15. CASE Prove          BY <1>15, ProveStep
<1>16. CASE ProofFails     BY <1>16, ProofFailsStep
<1>17. CASE SuspensionEnds BY <1>17, SuspensionEndsStep
<1>18. CASE CallActivate   BY <1>18, CallActivateStep
<1>19. CASE UNCHANGED vars
  BY <1>19 DEF vars, IInv, Types, Values, InOrder, Knows, Fenced, InProgress, Provisioning, Holds,
     Applies, Routed, Excused, Loaded, Owes, RunsOnlyVerified
<1> QED BY <1>1, <1>2, <1>3, <1>4, <1>5, <1>6, <1>7, <1>8, <1>9, <1>10, <1>11, <1>12, <1>13,
           <1>14, <1>15, <1>16, <1>17, <1>18, <1>19 DEF Next, Steps

\* What the invariant says of the controller to those who use the rules.
THEOREM Consequences == IInv => ActiveIsLive /\ CapabilityProved /\ RunsOnlyVerified
<1> SUFFICES ASSUME IInv PROVE ActiveIsLive /\ CapabilityProved /\ RunsOnlyVerified
  OBVIOUS
<1>1. Types /\ Knows /\ Routed /\ Loaded /\ RunsOnlyVerified
  BY DEF IInv
<1>2. DOMAIN ops = 1..Len(ops) /\ (ops = <<>> => 1..Len(ops) = {})
  BY <1>1 DEF Types
<1>3. ActiveIsLive
  BY <1>1, <1>2 DEF ActiveIsLive, Routed, Excused, Loaded
<1>4. CapabilityProved
  BY <1>1, <1>2 DEF CapabilityProved, Knows, Loaded
<1> QED BY <1>1, <1>3, <1>4

THEOREM Invariance == CountsKnown => (Spec => []IInv)
<1> SUFFICES ASSUME CountsKnown PROVE Spec => []IInv
  OBVIOUS
<1>1. Init => IInv
  BY Initially
<1>2. IInv /\ [Next]_vars => IInv'
  BY Inductive
<1> QED BY <1>1, <1>2, PTL DEF Spec

\* A provider that is called active is the one the engine has loaded and routes
\* (the managedProviderActive of deployment-controller.ts), for every set of groups
\* and whatever overtakes a proof while it is made.
THEOREM ActiveProviderIsLive == CountsKnown => (Spec => []ActiveIsLive)
<1>1. IInv => ActiveIsLive
  BY Consequences
<1> QED BY <1>1, Invariance, PTL

\* Between transitions the capability covers rules the engine has loaded.
THEOREM CapabilityIsProved == CountsKnown => (Spec => []CapabilityProved)
<1>1. IInv => CapabilityProved
  BY Consequences
<1> QED BY <1>1, Invariance, PTL

\* Collection never runs during a transition, nor over a route that was not verified.
THEOREM RuntimeRunsVerified == CountsKnown => (Spec => []RunsOnlyVerified)
<1>1. IInv => RunsOnlyVerified
  BY Consequences
<1> QED BY <1>1, Invariance, PTL
=============================================================================
