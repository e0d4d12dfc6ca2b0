---------------------------- MODULE MCSetupProofs ----------------------------
(* What is set up, for any requests, resolvers, links, values, providers,    *)
(* routings and bounds: the mode is what was last agreed on, an acknowledged *)
(* answer of the decoder and a source that was stored are the caller's own,  *)
(* and what the diagnosis says of routes is so when it says it.              *)
EXTENDS MCSetup, FiniteSetTheorems, WellFoundedInduction, NaturalsInduction, TLAPS

-----------------------------------------------------------------------------
(* The connection mode: the inductive invariant.                            *)

Configurations == [mode : Modes, dns : {None, Own, Home}, prepared : BOOLEAN]
Items == [kind : {"stage", "force", "other"}, of : Requests \cup {None}]
Steps == {"free", "stages", "checks", "reloads", "runtime", "listener", "commits"}
Applies == [kind : {"none", "stage", "force", "other"}, of : Requests \cup {None}, pc : Steps,
            candidate : Configurations \cup {None}, undo : Settings \cup {None}, before : BOOLEAN]
Changes == [pc : {"idle", "applies", "tests", "fails", "undoes"}, next : Settings,
            previous : Settings]

Types ==
    /\ form \in {"basic", "legacy", "current"} /\ settings \in Settings
    /\ state \in {"applied", "failed", "unknown"} /\ pending \in BOOLEAN
    /\ file \in Configurations \cup {None} /\ engine \in Configurations \cup {None}
    /\ queue \in Seq(Items) /\ job \in Applies /\ calls \in [Requests -> Changes]
    /\ password \in BOOLEAN

\* The apply has staged its settings; it has asked the engine; the engine took it.
Staged   == job.pc \in {"checks", "reloads", "runtime", "listener", "commits"}
Reloaded == job.pc \in {"reloads", "runtime", "listener", "commits"}
Taken    == job.pc \in {"runtime", "listener", "commits"}

\* An apply that waits or works for a change is the one that change waits for.
Owed(item, asked) ==
    /\ item.kind = "stage" => item.of # None /\ asked[item.of].pc = "applies"
    /\ item.kind = "force" /\ item.of # None => asked[item.of].pc = "undoes"
    /\ item.kind \in {"other", "none"} => item.of = None

Accounted ==
    /\ \A n \in DOMAIN queue : Owed(queue[n], calls)
    /\ \A m, n \in DOMAIN queue : queue[m].of = queue[n].of => m = n \/ queue[n].of = None
    /\ Owed(job, calls)
    /\ \A n \in DOMAIN queue : job.of = queue[n].of => job.of = None
    /\ job.pc = "free" => job = Free

\* Before the settings are saved nothing but the default is generated or applied.
Basic ==
    /\ form = "basic" => /\ settings = Default /\ state # "applied"
                         /\ \A r \in Requests : calls[r].pc = "idle"
                         /\ Staged => ~job.candidate.prepared
    /\ Staged =>
         /\ job.candidate \in Configurations /\ pending /\ job.undo \in Settings
         /\ ~job.candidate.prepared =>
              /\ state # "applied" /\ job.kind # "stage"
              /\ job.candidate.mode = "proxy" /\ job.candidate.dns # Own

\* What runs, or will, neither captures without a password nor asks itself.
Sound(c) == c # None => (c.mode = "tun" => password) /\ c.dns # Own
Guarded  == Sound(file) /\ Sound(engine) /\ (Reloaded => Sound(job.candidate))

\* Of one change that nobody overlaps: what is saved at each of its steps.
Active(r) == calls[r].pc # "idle"
Saves(r, s) ==
    /\ calls[r].previous = agreed
    /\ calls[r].pc = "applies" =>
         s = IF job.of = r /\ Staged THEN calls[r].next ELSE agreed
    /\ calls[r].pc = "applies" /\ job.of = r /\ Staged => job.undo = agreed
    /\ calls[r].pc = "tests"  => s = calls[r].next
    /\ calls[r].pc = "fails"  => s \in {agreed, calls[r].next}
    /\ calls[r].pc = "undoes" => s = agreed
Kept ==
    agreed # None =>
       /\ \A r, o \in Requests : Active(r) /\ Active(o) => r = o
       /\ (\A r \in Requests : ~Active(r)) => settings = agreed
       /\ \A r \in Requests : Active(r) => Saves(r, settings)

\* What was recorded as applied is so, or an apply that corrects it is due.
Forced ==
    \/ \E n \in DOMAIN queue : queue[n].kind = "force"
    \/ job.kind = "force" /\ job.pc = "stages"
Live(s) == file = Generated(s, TRUE) /\ engine \in {None, file}
Recorded ==
    /\ job.pc \in {"free", "stages"} /\ ~pending /\ state = "applied" => Forced \/ Live(settings)
    /\ job.pc = "checks" /\ job.kind = "other" /\ ~job.before /\ state = "applied" =>
         Forced \/ Live(job.undo)
    /\ Staged => Forced \/ job.candidate = Generated(settings, job.candidate.prepared)
    /\ Taken => Forced \/ engine \in {None, job.candidate}

IInv == Types /\ Accounted /\ Basic /\ Guarded /\ Kept /\ Recorded

-----------------------------------------------------------------------------
Verdicts == {"tests", "fails", "done", "failed"}

LEMMA Records ==
    /\ Default \in Settings /\ Free \in Applies /\ Idle \in Changes
    /\ \A s \in Settings, p \in BOOLEAN : Generated(s, p) \in Configurations
BY DEF Default, Settings, Modes, Free, Applies, Steps, Idle, Changes, Generated, Configurations

\* The end of an apply is the verdict on the change it was for, if any.
LEMMA Ending ==
    ASSUME NEW applied \in BOOLEAN, Ends(applied)
    PROVE  /\ job' = Free
           /\ job.of = None => UNCHANGED <<calls, agreed>>
           /\ job.of # None => \E v \in Verdicts :
                /\ Ended(job.of, v)
                /\ v = "failed" <=> calls[job.of].pc = "undoes"
                /\ v \in {"tests", "done"} => applied
<1>1. CASE job.of = None BY <1>1 DEF Ends
<1>2. CASE job.of # None
  <2> DEFINE v == Answer(job.of, applied)
  <2>1. v \in Verdicts /\ (v = "failed" <=> calls[job.of].pc = "undoes")
          /\ (v \in {"tests", "done"} => applied)
    BY DEF Answer, Verdicts
  <2>2. job' = Free /\ Ended(job.of, v) BY <1>2 DEF Ends
  <2> HIDE DEF v
  <2> QED BY <1>2, <2>1, <2>2
<1> QED BY <1>1, <1>2

\* A verdict types and accounts for the change it is on, and for no other.
LEMMA EndedCalls ==
    ASSUME Types, NEW r \in Requests, NEW v \in Verdicts, Ended(r, v)
    PROVE  /\ calls' \in [Requests -> Changes]
           /\ \A o \in Requests \ {r} : calls'[o] = calls[o]
           /\ v \in {"tests", "fails"} =>
                /\ calls'[r].pc = v /\ calls'[r].next = calls[r].next
                /\ calls'[r].previous = calls[r].previous
           /\ v \in {"done", "failed"} => calls'[r].pc = "idle"
<1>1. CASE v \in {"tests", "fails"}
  <2>1. calls' = [calls EXCEPT ![r].pc = v] BY <1>1 DEF Ended
  <2>2. v \in {"idle", "applies", "tests", "fails", "undoes"} BY <1>1
  <2> QED BY <1>1, <2>1, <2>2 DEF Types, Changes
<1>2. CASE v \notin {"tests", "fails"}
  <2>1. calls' = [calls EXCEPT ![r] = Idle] BY <1>2 DEF Ended
  <2>2. Idle.pc = "idle" BY DEF Idle
  <2> QED BY <1>2, <2>1, <2>2, Records DEF Types
<1> QED BY <1>1, <1>2

LEMMA EndingCalls ==
    ASSUME Types, NEW applied \in BOOLEAN, Ends(applied)
    PROVE  /\ calls' \in [Requests -> Changes] /\ job' \in Applies
           /\ \A o \in Requests \ {job.of} : calls'[o] = calls[o]
           /\ \A o \in Requests : calls[o].pc = "idle" /\ o # job.of => calls'[o].pc = "idle"
<1>1. job.of \in Requests \cup {None} BY DEF Types, Applies
<1> QED BY <1>1, Ending, EndedCalls, Records, NoneAssumption DEF Types

-----------------------------------------------------------------------------
LEMMA TypesKept == IInv /\ [Next]_vars => Types'
<1> SUFFICES ASSUME IInv, [Next]_vars PROVE Types' OBVIOUS
<1> USE DEF IInv
<1>1. ASSUME NEW r \in Requests, ConfigureGateway(r) PROVE Types'
  <2>1. PICK next \in Settings :
           calls' = [calls EXCEPT ![r] = [pc |-> "applies", next |-> next, previous |-> settings]]
    BY <1>1 DEF ConfigureGateway, Previous
  <2>2. calls' \in [Requests -> Changes] BY <2>1 DEF Types, Changes
  <2>3. queue' \in Seq(Items)
    <3>1. [kind |-> "stage", of |-> r] \in Items BY DEF Items
    <3> QED BY <1>1, <3>1 DEF ConfigureGateway, Types
  <2> QED BY <1>1, <2>2, <2>3 DEF ConfigureGateway, Types, Initialized, outside
<1>2. ASSUME NEW r \in Requests, TestsResolver(r) PROVE Types'
  <2>1. PICK v \in Verdicts : Ended(r, v) BY <1>2 DEF TestsResolver, Verdicts
  <2>2. calls' \in [Requests -> Changes] BY <2>1, EndedCalls
  <2> QED BY <1>2, <2>2 DEF TestsResolver, Types, persisted, outside
<1>3. ASSUME NEW r \in Requests, Restores(r) PROVE Types'
  <2>1. calls' \in [Requests -> Changes] /\ settings' \in Settings
    BY <1>3 DEF Restores, Types, Changes
  <2>2. queue' \in Seq(Items)
    <3>1. [kind |-> "force", of |-> r] \in Items BY DEF Items
    <3> QED BY <1>3, <3>1 DEF Restores, Types
  <2> QED BY <1>3, <2>1, <2>2 DEF Restores, Types, outside
<1>4. ASSUME Takes PROVE Types'
  <2>1. Head(queue) \in Items /\ Tail(queue) \in Seq(Items) BY <1>4 DEF Takes, Types
  <2>2. job' \in Applies BY <1>4, <2>1 DEF Takes, Applies, Items, Free, Steps
  <2> QED BY <1>4, <2>1, <2>2 DEF Takes, Types, persisted, outside
<1>5. ASSUME Stages PROVE Types'
  <2>1. CASE Ends(FALSE) /\ UNCHANGED <<settings, pending>>
    BY <1>5, <2>1, EndingCalls DEF Stages, Types, outside
  <2>2. CASE ~(Ends(FALSE) /\ UNCHANGED <<settings, pending>>)
    <3> DEFINE next == IF job.kind = "stage" THEN calls[job.of].next ELSE settings
    <3>1. settings' = next /\ pending' = TRUE /\ UNCHANGED <<calls, agreed>>
          /\ job' = [job EXCEPT !.pc = "checks", !.undo = settings, !.before = pending,
                                !.candidate = Generated(next, Prepared)]
      BY <1>5, <2>2 DEF Stages
    <3>2. next \in Settings
      BY NoneAssumption DEF Types, Applies, Changes, Accounted, Owed
    <3>3. Generated(next, Prepared) \in Configurations BY <3>2, Records DEF Prepared
    <3>4. job' \in Applies BY <3>1, <3>3 DEF Types, Applies, Steps
    <3> QED BY <1>5, <3>1, <3>2, <3>4 DEF Stages, Types, outside
  <2> QED BY <2>1, <2>2
<1>6. ASSUME Checks PROVE Types'
  <2>1. settings' \in Settings /\ pending' \in BOOLEAN /\ state' \in {"applied", "failed", "unknown"}
    BY <1>6 DEF Checks, Types, Basic, Staged, Failed, Applies
  <2>2. calls' \in [Requests -> Changes] /\ job' \in Applies
    <3>1. CASE Ends(TRUE) \/ Ends(FALSE) BY <3>1, EndingCalls
    <3>2. CASE job' = [job EXCEPT !.pc = "reloads"] /\ UNCHANGED calls
      BY <3>2 DEF Types, Applies, Steps
    <3> QED BY <1>6, <3>1, <3>2 DEF Checks
  <2> QED BY <1>6, <2>1, <2>2 DEF Checks, Types, outside
<1>7. ASSUME Reloads PROVE Types'
  <2>1. engine' \in Configurations \cup {None} /\ state' \in {"applied", "failed", "unknown"}
    BY <1>7 DEF Reloads, Types, Basic, Staged, Failed
  <2>2. calls' \in [Requests -> Changes] /\ job' \in Applies
    <3>1. CASE Ends(FALSE) BY <3>1, EndingCalls
    <3>2. CASE job' = [job EXCEPT !.pc = IF job.candidate.prepared THEN "runtime" ELSE "commits"]
               /\ UNCHANGED calls
      BY <3>2 DEF Types, Applies, Steps
    <3> QED BY <1>7, <3>1, <3>2 DEF Reloads
  <2> QED BY <1>7, <2>1, <2>2 DEF Reloads, Types, outside
<1>8. ASSUME VerifiesRuntime \/ VerifiesListener PROVE Types'
  <2>1. engine' \in Configurations \cup {None} /\ state' \in {"applied", "failed", "unknown"}
    BY <1>8 DEF VerifiesRuntime, VerifiesListener, GivesBack, Types, Failed
  <2>2. calls' \in [Requests -> Changes] /\ job' \in Applies
    <3>1. CASE Ends(FALSE) BY <3>1, EndingCalls
    <3>2. CASE \E p \in Steps : job' = [job EXCEPT !.pc = p] /\ UNCHANGED calls
      BY <3>2 DEF Types, Applies
    <3> QED BY <1>8, <3>1, <3>2 DEF VerifiesRuntime, VerifiesListener, GivesBack, Steps
  <2> QED BY <1>8, <2>1, <2>2 DEF VerifiesRuntime, VerifiesListener, Types, outside
<1>9. ASSUME Commits PROVE Types'
  <2>1. file' \in Configurations \cup {None} /\ state' \in {"applied", "failed", "unknown"}
    BY <1>9 DEF Commits, Types, Applies
  <2> QED BY <1>9, <2>1, EndingCalls DEF Commits, Types, outside
<1>10. ASSUME OtherApply PROVE Types'
  <2>1. [kind |-> "other", of |-> None] \in Items BY DEF Items
  <2> QED BY <1>10, <2>1 DEF OtherApply, Types, persisted, outside
<1>11. ASSUME EngineStops \/ SiteChanges PROVE Types'
  BY <1>11 DEF EngineStops, SiteChanges, Types, persisted, outside
<1>12. ASSUME EngineStarts PROVE Types'
  <2>1. [kind |-> "force", of |-> None] \in Items BY DEF Items
  <2> QED BY <1>12, <2>1 DEF EngineStarts, Types, persisted, outside
<1>13. ASSUME Restarted PROVE /\ queue' \in Seq(Items) /\ job' \in Applies
                              /\ calls' \in [Requests -> Changes]
  <2>1. [kind |-> "force", of |-> None] \in Items BY DEF Items
  <2> QED BY <1>13, <2>1, Records DEF Restarted
<1>14. ASSUME Crash PROVE Types'
  BY <1>13, <1>14 DEF Crash, Types, persisted, outside
<1>15. ASSUME NEW p \in BOOLEAN, Redeploy(p) PROVE Types'
  BY <1>13, <1>15, Records DEF Redeploy, Types, Initialized
<1>16. CASE UNCHANGED vars BY <1>16 DEF vars, Types
<1> QED BY <1>1, <1>2, <1>3, <1>4, <1>5, <1>6, <1>7, <1>8, <1>9, <1>10, <1>11, <1>12, <1>14,
           <1>15, <1>16 DEF Next

-----------------------------------------------------------------------------
\* What the queue becomes when an apply is asked for, and when one has its turn.
LEMMA Appended ==
    ASSUME NEW S, NEW q \in Seq(S), NEW x \in S
    PROVE  LET all == Append(q, x)
           IN  /\ DOMAIN q \subseteq DOMAIN all /\ Len(q) + 1 \in DOMAIN all
               /\ all[Len(q) + 1] = x /\ Len(q) + 1 \notin DOMAIN q
               /\ \A n \in DOMAIN q : all[n] = q[n]
               /\ \A n \in DOMAIN all : n \in DOMAIN q \/ n = Len(q) + 1
OBVIOUS

LEMMA Tailed ==
    ASSUME NEW S, NEW q \in Seq(S), q # <<>>
    PROVE  /\ 1 \in DOMAIN q /\ Head(q) = q[1] /\ Tail(q) \in Seq(S)
           /\ \A n \in DOMAIN Tail(q) : n \in Nat /\ n + 1 \in DOMAIN q /\ n + 1 # 1 /\ Tail(q)[n] = q[n + 1]
           /\ \A n \in DOMAIN q : n # 1 => n - 1 \in DOMAIN Tail(q) /\ Tail(q)[n - 1] = q[n]
OBVIOUS

\* No apply waits or works for a change that waits for none.
LEMMA Unowed ==
    ASSUME IInv, NEW r \in Requests, calls[r].pc \notin {"applies", "undoes"}
    PROVE  job.of # r /\ \A n \in DOMAIN queue : queue[n].of # r
<1>1. Owed(job, calls) /\ job.kind \in {"none", "stage", "force", "other"}
  BY DEF IInv, Accounted, Types, Applies
<1>2. job.of # r BY <1>1, NoneAssumption DEF Owed
<1>3. ASSUME NEW n \in DOMAIN queue PROVE queue[n].of # r
  <2>1. Owed(queue[n], calls) BY DEF IInv, Accounted
  <2>2. queue[n] \in Items BY DEF IInv, Types
  <2> QED BY <2>1, <2>2, NoneAssumption DEF Owed, Items
<1> QED BY <1>2, <1>3

\* The end of an apply, and a step of it, leave the others accounted for.
LEMMA EndingAccounted ==
    ASSUME IInv, NEW applied \in BOOLEAN, Ends(applied), UNCHANGED queue
    PROVE  Accounted'
<1>1. job' = Free BY Ending
<1>2. Owed(Free, calls') BY DEF Owed, Free
<1>3. \A o \in Requests \ {job.of} : calls'[o] = calls[o] BY EndingCalls DEF IInv
<1>4. ASSUME NEW n \in DOMAIN queue PROVE Owed(queue[n], calls')
  <2>1. Owed(queue[n], calls) /\ (job.of = queue[n].of => job.of = None) BY DEF IInv, Accounted
  <2>2. queue[n] \in Items BY DEF IInv, Types
  <2>3. CASE queue[n].of = None
    <3>1. queue[n].kind # "stage" BY <2>1, <2>3 DEF Owed
    <3> QED BY <2>3, <3>1 DEF Owed
  <2>4. CASE queue[n].of # None
    <3>1. queue[n].of # job.of /\ queue[n].of \in Requests \cup {None} BY <2>1, <2>2, <2>4 DEF Items
    <3>2. Owed(queue[n], calls') BY <2>1, <3>1, <1>3, <2>2, <2>4 DEF Owed, Items
    <3> QED BY <3>2
  <2> QED BY <2>3, <2>4
<1>5. Free.of = None BY DEF Free
<1> QED BY <1>1, <1>2, <1>4, <1>5 DEF Accounted, IInv

LEMMA MovingAccounted ==
    ASSUME IInv, UNCHANGED <<queue, calls>>, job'.of = job.of, job'.kind = job.kind,
           job'.pc # "free"
    PROVE  Accounted'
BY DEF IInv, Accounted, Owed

LEMMA AskedAccounted ==
    ASSUME IInv, NEW x \in Items, queue' = Append(queue, x), UNCHANGED job, Owed(x, calls'), Owed(job, calls'),
           \A n \in DOMAIN queue : Owed(queue[n], calls'),
           x.of # None => job.of # x.of /\ \A n \in DOMAIN queue : queue[n].of # x.of
    PROVE  Accounted'
<1>1. queue \in Seq(Items) BY DEF IInv, Types
<1>2. /\ DOMAIN queue \subseteq DOMAIN queue' /\ queue'[Len(queue) + 1] = x
      /\ \A n \in DOMAIN queue : queue'[n] = queue[n]
      /\ \A n \in DOMAIN queue' : n \in DOMAIN queue \/ n = Len(queue) + 1
  BY <1>1, Appended
<1>3. \A n \in DOMAIN queue' : Owed(queue'[n], calls') BY <1>2
<1>4. \A m, n \in DOMAIN queue' : queue'[m].of = queue'[n].of => m = n \/ queue'[n].of = None
  BY <1>2 DEF IInv, Accounted
<1>5. \A n \in DOMAIN queue' : job.of = queue'[n].of => job.of = None
  BY <1>2 DEF IInv, Accounted
<1> QED BY <1>3, <1>4, <1>5 DEF IInv, Accounted

LEMMA AccountedKept == IInv /\ [Next]_vars => Accounted'
<1> SUFFICES ASSUME IInv, [Next]_vars PROVE Accounted' OBVIOUS
<1>0. /\ Owed(job, calls) /\ job.of \in Requests \cup {None}
      /\ \A n \in DOMAIN queue : Owed(queue[n], calls) /\ queue[n].of \in Requests \cup {None}
    <2>1. \A n \in DOMAIN queue : queue[n] \in Items BY DEF IInv, Types
  <2> QED BY <2>1 DEF IInv, Accounted, Types, Applies, Items
<1>1. ASSUME NEW r \in Requests, ConfigureGateway(r) PROVE Accounted'
  <2>1. \A o \in Requests \ {r} : calls'[o] = calls[o] BY <1>1 DEF ConfigureGateway, IInv, Types
  <2>2. calls'[r].pc = "applies" BY <1>1 DEF ConfigureGateway, IInv, Types
  <2>3. job.of # r /\ \A n \in DOMAIN queue : queue[n].of # r
    BY <1>1, Unowed DEF ConfigureGateway
  <2>4. Owed(job, calls') /\ UNCHANGED job
    BY <1>0, <1>1, <2>1, <2>3, NoneAssumption DEF Owed, ConfigureGateway
  <2>5. \A n \in DOMAIN queue : Owed(queue[n], calls')
    BY <1>0, <2>1, <2>3 DEF Owed
  <2> DEFINE x == [kind |-> "stage", of |-> r]
  <2>6. x \in Items /\ Owed(x, calls') /\ x.of = r BY <2>2, NoneAssumption DEF Items, Owed
  <2>7. queue' = Append(queue, x) BY <1>1 DEF ConfigureGateway
  <2> QED BY <2>3, <2>4, <2>5, <2>6, <2>7, AskedAccounted
<1>2. ASSUME NEW r \in Requests, TestsResolver(r) PROVE Accounted'
  <2>1. PICK v \in Verdicts : Ended(r, v) BY <1>2 DEF TestsResolver, Verdicts
  <2>2. \A o \in Requests \ {r} : calls'[o] = calls[o] BY <2>1, EndedCalls DEF IInv
  <2>3. job.of # r /\ \A n \in DOMAIN queue : queue[n].of # r BY <1>2, Unowed DEF TestsResolver
  <2>4. Owed(job, calls') /\ UNCHANGED <<job, queue>>
    BY <1>0, <1>2, <2>2, <2>3 DEF Owed, TestsResolver
  <2>5. \A n \in DOMAIN queue : Owed(queue[n], calls') BY <1>0, <2>2, <2>3 DEF Owed
  <2> QED BY <2>4, <2>5 DEF IInv, Accounted
<1>3. ASSUME NEW r \in Requests, Restores(r) PROVE Accounted'
  <2>1. \A o \in Requests \ {r} : calls'[o] = calls[o] BY <1>3 DEF Restores, IInv, Types
  <2>2. calls'[r].pc = "undoes" BY <1>3 DEF Restores, IInv, Types, Changes
  <2>3. job.of # r /\ \A n \in DOMAIN queue : queue[n].of # r BY <1>3, Unowed DEF Restores
  <2>4. Owed(job, calls') /\ UNCHANGED job BY <1>0, <1>3, <2>1, <2>3 DEF Owed, Restores
  <2>5. \A n \in DOMAIN queue : Owed(queue[n], calls') BY <1>0, <2>1, <2>3 DEF Owed
  <2> DEFINE x == [kind |-> "force", of |-> r]
  <2>6. x \in Items /\ Owed(x, calls') /\ x.of = r BY <2>2, NoneAssumption DEF Items, Owed
  <2>7. queue' = Append(queue, x) BY <1>3 DEF Restores
  <2> QED BY <2>3, <2>4, <2>5, <2>6, <2>7, AskedAccounted
<1>4. ASSUME Takes PROVE Accounted'
  <2>1. queue \in Seq(Items) /\ queue # <<>> BY <1>4 DEF Takes, IInv, Types
  <2>2. /\ 1 \in DOMAIN queue /\ Head(queue) = queue[1]
        /\ \A n \in DOMAIN queue' : n \in Nat /\ n + 1 \in DOMAIN queue /\ n + 1 # 1
                                    /\ queue'[n] = queue[n + 1]
    BY <1>4, <2>1, Tailed DEF Takes
  <2>3. /\ job'.kind = queue[1].kind /\ job'.of = queue[1].of /\ job'.pc = "stages"
        /\ UNCHANGED calls
    BY <1>4, <2>2 DEF Takes, Free
  <2>4. Owed(job', calls') BY <1>0, <2>2, <2>3 DEF Owed
  <2>5. \A n \in DOMAIN queue' : Owed(queue'[n], calls') BY <1>0, <2>2, <2>3 DEF Owed
  <2>6. \A m, n \in DOMAIN queue' : queue'[m].of = queue'[n].of => m = n \/ queue'[n].of = None
    <3> SUFFICES ASSUME NEW m \in DOMAIN queue', NEW n \in DOMAIN queue',
                        queue'[m].of = queue'[n].of, queue'[n].of # None
                 PROVE  m = n OBVIOUS
    <3>1. m + 1 = n + 1 BY <2>2 DEF IInv, Accounted
    <3> QED BY <2>2, <3>1
  <2>7. \A n \in DOMAIN queue' : job'.of = queue'[n].of => job'.of = None
    BY <2>2, <2>3 DEF IInv, Accounted
  <2> QED BY <2>3, <2>4, <2>5, <2>6, <2>7 DEF Accounted
<1>5. ASSUME \/ Stages \/ Checks \/ Reloads \/ VerifiesRuntime \/ VerifiesListener \/ Commits
      PROVE  Accounted'
  <2>1. UNCHANGED queue
    BY <1>5 DEF Stages, Checks, Reloads, VerifiesRuntime, VerifiesListener, Commits
  <2>2. CASE Ends(TRUE) \/ Ends(FALSE) BY <2>1, <2>2, EndingAccounted
  <2>3. CASE ~Ends(TRUE) /\ ~Ends(FALSE)
    <3>1. UNCHANGED calls /\ job'.of = job.of /\ job'.kind = job.kind /\ job'.pc # "free"
      BY <1>5, <2>3 DEF Stages, Checks, Reloads, VerifiesRuntime, VerifiesListener, Commits,
                        GivesBack, IInv, Types, Applies
    <3> QED BY <2>1, <3>1, MovingAccounted
  <2> QED BY <2>2, <2>3
<1>6. ASSUME OtherApply \/ EngineStarts PROVE Accounted'
  <2>1. PICK k \in {"other", "force"} : queue' = Append(queue, [kind |-> k, of |-> None])
    BY <1>6 DEF OtherApply, EngineStarts
  <2>2. UNCHANGED <<job, calls>> BY <1>6 DEF OtherApply, EngineStarts
  <2> DEFINE x == [kind |-> k, of |-> None]
  <2>3. x \in Items /\ Owed(x, calls') /\ x.of = None BY DEF Items, Owed
  <2>4. Owed(job, calls') /\ \A n \in DOMAIN queue : Owed(queue[n], calls') BY <1>0, <2>2 DEF Owed
  <2> HIDE DEF x
  <2> QED BY <2>1, <2>2, <2>3, <2>4, AskedAccounted DEF x
<1>7. ASSUME EngineStops \/ SiteChanges \/ UNCHANGED vars PROVE Accounted'
  BY <1>7 DEF EngineStops, SiteChanges, vars, IInv, Accounted, Owed
<1>8. ASSUME Restarted PROVE Accounted'
  <2>1. job' = Free /\ Owed(Free, calls') /\ Free.of = None BY <1>8 DEF Restarted, Owed, Free
  <2> DEFINE x == [kind |-> "force", of |-> None]
  <2>2. DOMAIN queue' = {1} /\ queue'[1] = x BY <1>8 DEF Restarted
  <2>3. Owed(x, calls') /\ x.of = None BY DEF Owed
  <2> HIDE DEF x
  <2> QED BY <2>1, <2>2, <2>3 DEF Accounted
<1> QED BY <1>1, <1>2, <1>3, <1>4, <1>5, <1>6, <1>7, <1>8 DEF Next, Crash, Redeploy

-----------------------------------------------------------------------------
LEMMA BasicKept == IInv /\ [Next]_vars => Basic'
<1> SUFFICES ASSUME IInv, [Next]_vars PROVE Basic' OBVIOUS
<1>0. Types /\ Basic /\ Owed(job, calls) /\ job.of \in Requests \cup {None}
      /\ job.kind \in {"none", "stage", "force", "other"}
  BY DEF IInv, Accounted, Types, Applies
\* While nothing is saved no apply is for a change.
<1>1. form = "basic" => job.of = None /\ job.kind # "stage" BY <1>0 DEF Basic, Owed
<1>2. ASSUME NEW applied \in BOOLEAN, Ends(applied), UNCHANGED <<form, settings>>,
             form = "basic" => state' # "applied"
      PROVE  Basic'
  <2>1. job' = Free /\ (form = "basic" => UNCHANGED calls) BY <1>1, <1>2, Ending
  <2> QED BY <1>0, <1>2, <2>1 DEF Basic, Staged, Free
<1>3. ASSUME \E r \in Requests : ConfigureGateway(r) PROVE Basic'
  BY <1>0, <1>3 DEF ConfigureGateway, Initialized, Basic, Staged
<1>4. ASSUME \E r \in Requests : TestsResolver(r) \/ Restores(r) PROVE Basic'
  BY <1>0, <1>4 DEF TestsResolver, Restores, persisted, Basic, Staged
<1>5. ASSUME Takes PROVE Basic'
  BY <1>0, <1>5 DEF Takes, persisted, Basic, Staged, Free
<1>6. ASSUME Stages PROVE Basic'
  <2>1. CASE Ends(FALSE) /\ UNCHANGED <<settings, pending>>
    BY <1>0, <1>2, <1>6, <2>1 DEF Stages, Basic
  <2>2. CASE ~(Ends(FALSE) /\ UNCHANGED <<settings, pending>>)
    <3> DEFINE next == IF job.kind = "stage" THEN calls[job.of].next ELSE settings
    <3>1. settings' = next /\ pending' = TRUE /\ UNCHANGED <<form, state, calls>>
          /\ job' = [job EXCEPT !.pc = "checks", !.undo = settings, !.before = pending,
                                !.candidate = Generated(next, Prepared)]
      BY <1>6, <2>2 DEF Stages
    <3>2. next \in Settings BY <1>0, NoneAssumption DEF Types, Changes, Owed
    <3>3. Generated(next, Prepared) \in Configurations BY <3>2, Records DEF Prepared
    <3>4. job'.candidate = Generated(next, Prepared) /\ job'.undo = settings /\ job'.kind = job.kind
          /\ job'.pc = "checks"
      BY <1>0, <3>1 DEF Types, Applies
    <3>5. form = "basic" => next = Default BY <1>0, <1>1 DEF Basic
    <3>6. Generated(next, Prepared).prepared = (form # "basic") BY DEF Generated, Prepared
    <3>7. form = "basic" => /\ Generated(next, Prepared).mode = "proxy"
                            /\ Generated(next, Prepared).dns # Own
      BY <3>5, NoneAssumption DEF Generated, Default
    <3>8. settings \in Settings BY <1>0 DEF Types
    <3> HIDE DEF next
    <3> QED BY <1>0, <1>1, <3>1, <3>3, <3>4, <3>5, <3>6, <3>7, <3>8 DEF Basic, Staged
  <2> QED BY <2>1, <2>2
<1>7. ASSUME Checks PROVE Basic'
  <2>1. CASE Ends(TRUE) \/ Ends(FALSE)
    <3>1. form = "basic" => UNCHANGED settings /\ state' # "applied"
      BY <1>0, <1>1, <1>7 DEF Checks, Basic, Failed, Ends, Free
    <3>2. job' = Free /\ (form = "basic" => UNCHANGED calls) BY <1>1, <2>1, Ending
    <3> QED BY <1>0, <1>7, <3>1, <3>2 DEF Checks, Basic, Staged, Free
  <2>2. CASE ~Ends(TRUE) /\ ~Ends(FALSE)
    <3>1. job' = [job EXCEPT !.pc = "reloads"] /\ UNCHANGED <<form, settings, state, pending, calls>>
          /\ job.pc = "checks"
      BY <1>7, <2>2 DEF Checks
    <3> QED BY <1>0, <3>1 DEF Basic, Staged, Types, Applies
  <2> QED BY <2>1, <2>2
<1>8. ASSUME Reloads PROVE Basic'
  <2>1. CASE Ends(FALSE) /\ Failed
    BY <1>0, <1>2, <1>8, <2>1 DEF Reloads, Basic, Failed
  <2>2. CASE ~(Ends(FALSE) /\ Failed)
    <3>1. /\ job' = [job EXCEPT !.pc = IF job.candidate.prepared THEN "runtime" ELSE "commits"]
          /\ UNCHANGED <<form, settings, state, pending, calls>> /\ job.pc = "reloads"
      BY <1>8, <2>2 DEF Reloads
    <3> QED BY <1>0, <3>1 DEF Basic, Staged, Types, Applies
  <2> QED BY <2>1, <2>2
<1>9. ASSUME VerifiesRuntime \/ VerifiesListener PROVE Basic'
  <2>1. CASE GivesBack
    BY <1>0, <1>2, <1>9, <2>1 DEF VerifiesRuntime, VerifiesListener, GivesBack, Basic, Failed
  <2>2. CASE ~GivesBack
    <3>1. /\ \E p \in {"listener", "commits"} : job' = [job EXCEPT !.pc = p]
          /\ UNCHANGED <<form, settings, state, pending, calls>>
          /\ job.pc \in {"runtime", "listener"}
      BY <1>9, <2>2 DEF VerifiesRuntime, VerifiesListener
    <3> QED BY <1>0, <3>1 DEF Basic, Staged, Types, Applies
  <2> QED BY <2>1, <2>2
<1>10. ASSUME Commits PROVE Basic'
  <2>1. Staged BY <1>10 DEF Commits, Staged
  <2> QED BY <1>0, <1>2, <1>10, <2>1 DEF Commits, Basic
<1>11. ASSUME OtherApply \/ EngineStops \/ EngineStarts \/ SiteChanges \/ UNCHANGED vars PROVE Basic'
  BY <1>0, <1>11 DEF OtherApply, EngineStops, EngineStarts, SiteChanges, vars, persisted, outside,
                     Basic, Staged
<1>12. ASSUME Crash \/ \E p \in BOOLEAN : Redeploy(p) PROVE Basic'
  <2>1. /\ job'.pc = "free" /\ \A r \in Requests : calls'[r].pc = "idle"
        /\ form' = "current" \/ UNCHANGED <<form, settings, state>>
    <3>1. Restarted BY <1>12 DEF Crash, Redeploy
    <3>2. Idle.pc = "idle" /\ Free.pc = "free" BY DEF Idle, Free
    <3>3. form' = "current" \/ UNCHANGED <<form, settings, state>>
      BY <1>12 DEF Crash, Redeploy, Initialized, persisted
    <3> QED BY <3>1, <3>2, <3>3 DEF Restarted
  <2> QED BY <1>0, <2>1 DEF Basic, Staged
<1> QED BY <1>3, <1>4, <1>5, <1>6, <1>7, <1>8, <1>9, <1>10, <1>11, <1>12 DEF Next

-----------------------------------------------------------------------------
LEMMA GuardedKept == IInv /\ [Next]_vars => Guarded'
<1> SUFFICES ASSUME IInv, [Next]_vars PROVE Guarded' OBVIOUS
<1>0. Types /\ Basic /\ Guarded BY DEF IInv
<1>1. ASSUME UNCHANGED <<file, engine, password>>,
             \/ UNCHANGED job \/ job'.pc \in {"free", "stages", "checks"}
             \/ Reloaded /\ job'.candidate = job.candidate
      PROVE  Guarded'
  BY <1>0, <1>1 DEF Guarded, Reloaded, Sound
<1>2. ASSUME \E r \in Requests : ConfigureGateway(r) \/ TestsResolver(r) \/ Restores(r)
      PROVE  Guarded'
  BY <1>1, <1>2 DEF ConfigureGateway, TestsResolver, Restores, persisted, outside
<1>3. ASSUME Takes \/ Stages PROVE Guarded'
  <2>1. UNCHANGED <<file, engine, password>> BY <1>3 DEF Takes, Stages, persisted, outside
  <2>2. job'.pc \in {"free", "stages", "checks"}
    <3>1. CASE Takes BY <3>1 DEF Takes, Free
    <3>2. CASE job' = Free BY <3>2 DEF Free
    <3>3. CASE Stages /\ job' # Free
      <4>1. job' = [job EXCEPT !.pc = "checks", !.undo = settings, !.before = pending,
                               !.candidate = job'.candidate]
        BY <1>0, <3>3 DEF Stages, Ends, Types, Applies
      <4> QED BY <1>0, <4>1 DEF Types, Applies
    <3> QED BY <1>3, <3>1, <3>2, <3>3
  <2> QED BY <1>1, <2>1, <2>2
<1>4. ASSUME Checks PROVE Guarded'
  <2>1. CASE job' = Free BY <1>1, <1>4, <2>1 DEF Checks, Free, outside
  <2>2. CASE job' # Free
    <3>1. Safe /\ job' = [job EXCEPT !.pc = "reloads"] /\ UNCHANGED <<file, engine, password>>
          /\ job.pc = "checks"
      BY <1>4, <2>2 DEF Checks, Ends, outside
    <3>2. Sound(job.candidate) BY <1>0, <3>1 DEF Safe, Independent, Sound, Basic, Staged
    <3>3. job'.candidate = job.candidate BY <1>0, <3>1 DEF Types, Applies
    <3> QED BY <1>0, <3>1, <3>2, <3>3 DEF Guarded, Sound
  <2> QED BY <2>1, <2>2
<1>5. ASSUME Reloads PROVE Guarded'
  <2>1. Sound(job.candidate) /\ UNCHANGED <<file, password>>
    BY <1>0, <1>5 DEF Reloads, Guarded, Reloaded, outside
  <2>2. engine' \in {engine, job.candidate} BY <1>5 DEF Reloads
  <2>3. job'.candidate = job.candidate \/ job' = Free
    BY <1>0, <1>5 DEF Reloads, Ends, Types, Applies
  <2> QED BY <1>0, <2>1, <2>2, <2>3 DEF Guarded, Reloaded, Sound, Free
<1>6. ASSUME VerifiesRuntime \/ VerifiesListener PROVE Guarded'
  <2>1. Sound(job.candidate) /\ UNCHANGED <<file, password>>
    BY <1>0, <1>6 DEF VerifiesRuntime, VerifiesListener, Guarded, Reloaded, outside
  <2>2. engine' \in {engine, file} BY <1>6 DEF VerifiesRuntime, VerifiesListener, GivesBack
  <2>3. job'.candidate = job.candidate \/ job' = Free
    BY <1>0, <1>6 DEF VerifiesRuntime, VerifiesListener, GivesBack, Ends, Types, Applies
  <2> QED BY <1>0, <2>1, <2>2, <2>3 DEF Guarded, Reloaded, Sound, Free
<1>7. ASSUME Commits PROVE Guarded'
  BY <1>0, <1>7 DEF Commits, Guarded, Reloaded, Sound, Ends, Free, outside
<1>8. ASSUME OtherApply \/ SiteChanges \/ UNCHANGED vars PROVE Guarded'
  BY <1>1, <1>8 DEF OtherApply, SiteChanges, vars, persisted, outside
<1>9. ASSUME EngineStops \/ EngineStarts PROVE Guarded'
  BY <1>0, <1>9 DEF EngineStops, EngineStarts, persisted, outside, Guarded, Reloaded, Sound
<1>10. ASSUME Crash PROVE Guarded'
  BY <1>1, <1>10 DEF Crash, Restarted, persisted, outside, Free
<1>11. ASSUME NEW p \in BOOLEAN, Redeploy(p) PROVE Guarded'
  <2>1. /\ ~p => settings.mode # "tun" /\ ~Tuns(file)
        /\ settings.dns # Own
        /\ file' = IF file # None /\ file.prepared THEN file ELSE Generated(settings, TRUE)
        /\ engine' = file' /\ password' = p /\ job' = Free
    BY <1>11 DEF Redeploy, Secured, Independent, Restarted
  <2>2. Sound(file)' BY <1>0, <2>1 DEF Sound, Guarded, Generated, Tuns
  <2> QED BY <2>1, <2>2 DEF Guarded, Sound, Reloaded, Free
<1> QED BY <1>2, <1>3, <1>4, <1>5, <1>6, <1>7, <1>8, <1>9, <1>10, <1>11 DEF Next

-----------------------------------------------------------------------------
\* A verdict on the only change in flight leaves saved what it says.
LEMMA VerdictKept ==
    ASSUME IInv, agreed # None, NEW r \in Requests, Active(r), NEW v \in Verdicts, Ended(r, v),
           v \in {"tests", "done"} => settings' = calls[r].next,
           v = "fails" => settings' \in {agreed, calls[r].next},
           v = "failed" => settings' = agreed,
           ~(job'.of = r /\ Staged'), job'.of = None \/ job'.of # r
    PROVE  Kept'
<1>1. /\ \A o \in Requests \ {r} : ~Active(o)
      /\ calls[r].previous = agreed
  BY DEF IInv, Kept, Saves
<1>2. /\ \A o \in Requests \ {r} : ~Active(o)'
      /\ v \in {"tests", "fails"} =>
           /\ calls'[r].pc = v /\ calls'[r].next = calls[r].next /\ calls'[r].previous = agreed
      /\ v \in {"done", "failed"} => ~Active(r)'
  BY <1>1, EndedCalls DEF IInv, Active
<1>3. agreed' = IF v = "done" THEN calls[r].next ELSE agreed BY DEF Ended, Told
<1>4. CASE v \in {"tests", "fails"}
  <2>1. Saves(r, settings)' BY <1>2, <1>3, <1>4 DEF Saves
  <2>2. Active(r)' BY <1>2, <1>4 DEF Active
  <2> QED BY <1>2, <2>1, <2>2 DEF Kept
<1>5. CASE v = "done"
  <2>1. settings' = agreed' BY <1>3, <1>5
  <2>2. \A o \in Requests : ~Active(o)' BY <1>2, <1>5
  <2> QED BY <2>1, <2>2 DEF Kept
<1>6. CASE v = "failed"
  <2>1. settings' = agreed' BY <1>3, <1>6
  <2>2. \A o \in Requests : ~Active(o)' BY <1>2, <1>6
  <2> QED BY <2>1, <2>2 DEF Kept
<1> QED BY <1>4, <1>5, <1>6 DEF Verdicts

\* The change a staged apply is for is the one in flight, when there is but one.
LEMMA EndingKept ==
    ASSUME IInv, NEW applied \in BOOLEAN, Ends(applied), Staged,
           \/ settings' = settings
           \/ ~applied /\ job.kind = "stage" /\ settings' = job.undo
    PROVE  Kept'
<1>1. job' = Free /\ Free.of = None /\ ~Staged' BY Ending DEF Free, Staged
<1>2. Owed(job, calls) /\ job.of \in Requests \cup {None}
      /\ job.kind \in {"none", "stage", "force", "other"}
  BY DEF IInv, Accounted, Types, Applies
<1>3. CASE job.of = None
  <2>1. job.kind # "stage" BY <1>2, <1>3 DEF Owed
  <2>2. UNCHANGED <<calls, agreed, settings>> BY <1>3, <2>1, Ending
  <2> QED BY <1>1, <1>3, <2>2, NoneAssumption DEF IInv, Kept, Saves, Active
<1>4. CASE job.of # None
  <2> DEFINE r == job.of
  <2>1. r \in Requests /\ calls[r].pc \in {"applies", "undoes"}
        /\ (calls[r].pc = "undoes" => job.kind = "force")
        /\ (calls[r].pc = "applies" => job.kind = "stage")
    BY <1>2, <1>4 DEF Owed
  <2>2. PICK v \in Verdicts : /\ Ended(r, v)
                              /\ v = "failed" <=> calls[r].pc = "undoes"
                              /\ v \in {"tests", "done"} => applied
    BY <1>4, Ending
  <2>3. CASE agreed = None
    <3>1. agreed' = None BY <2>2, <2>3 DEF Ended, Told
    <3> QED BY <3>1 DEF Kept
  <2>4. CASE agreed # None
    <3>1. Active(r) /\ Saves(r, settings) BY <2>1, <2>4 DEF IInv, Kept, Active
    <3>2. CASE calls[r].pc = "undoes"
      <4>1. v = "failed" /\ settings' = agreed BY <2>1, <2>2, <3>1, <3>2 DEF Saves
      <4> QED BY <1>1, <2>1, <2>2, <2>4, <3>1, <4>1, VerdictKept, NoneAssumption
    <3>3. CASE calls[r].pc = "applies"
      <4>1. settings = calls[r].next /\ job.undo = agreed BY <3>1, <3>3 DEF Saves
      <4>2. v # "failed" BY <2>2, <3>3
      <4>3. /\ v \in {"tests", "done"} => settings' = calls[r].next
            /\ v = "fails" => settings' \in {agreed, calls[r].next}
        BY <2>2, <4>1
      <4> HIDE DEF r
      <4> QED BY <1>1, <2>1, <2>2, <2>4, <3>1, <4>2, <4>3, VerdictKept, NoneAssumption
    <3> QED BY <2>1, <3>2, <3>3
  <2> QED BY <2>3, <2>4
<1> QED BY <1>3, <1>4

LEMMA KeptKept == IInv /\ [Next]_vars => Kept'
<1> SUFFICES ASSUME IInv, [Next]_vars PROVE Kept' OBVIOUS
<1>0. /\ Types /\ Kept /\ Owed(job, calls) /\ job.of \in Requests \cup {None}
      /\ job.pc = "free" => job = Free
  BY DEF IInv, Accounted, Types, Applies
<1>1. ASSUME UNCHANGED <<settings, calls, agreed>>,
             \/ UNCHANGED job
             \/ Staged /\ Staged' /\ job'.of = job.of /\ job'.undo = job.undo
             \/ ~Staged /\ ~Staged'
      PROVE  Kept'
  <2>1. CASE UNCHANGED job BY <1>0, <1>1, <2>1 DEF Kept, Saves, Active, Staged
  <2>2. CASE Staged /\ Staged' /\ job'.of = job.of /\ job'.undo = job.undo
    BY <1>0, <1>1, <2>2 DEF Kept, Saves, Active
  <2>3. CASE ~Staged /\ ~Staged' BY <1>0, <1>1, <2>3 DEF Kept, Saves, Active
  <2> QED BY <1>1, <2>1, <2>2, <2>3
<1>2. ASSUME NEW r \in Requests, ConfigureGateway(r) PROVE Kept'
  <2>1. CASE agreed' = None BY <2>1 DEF Kept
  <2>2. CASE agreed' # None
    <3>1. agreed' = settings /\ UNCHANGED <<settings, job>>
          /\ \A o \in Requests : calls[o].pc = "idle"
      BY <1>2, <2>2 DEF ConfigureGateway
    <3>2. /\ \A o \in Requests \ {r} : calls'[o] = calls[o]
          /\ calls'[r].pc = "applies" /\ calls'[r].previous = settings
      BY <1>0, <1>2 DEF ConfigureGateway, Previous, Types
    <3>3. job.of # r BY <3>1, Unowed
    <3> QED BY <2>2, <3>1, <3>2, <3>3 DEF Kept, Saves, Active
  <2> QED BY <2>1, <2>2
<1>3. ASSUME NEW r \in Requests, TestsResolver(r) PROVE Kept'
  <2>1. PICK v \in {"done", "fails"} : Ended(r, v) BY <1>3 DEF TestsResolver
  <2>2. calls[r].pc = "tests" /\ UNCHANGED <<settings, job>> BY <1>3 DEF TestsResolver, persisted
  <2>3. CASE agreed = None
    <3>1. agreed' = None BY <2>1, <2>3 DEF Ended, Told
    <3> QED BY <3>1 DEF Kept
  <2>4. CASE agreed # None
    <3>1. Active(r) /\ settings = calls[r].next BY <1>0, <2>2, <2>4 DEF Kept, Saves, Active
    <3>2. job.of # r BY <2>2, Unowed
    <3>3. v \in Verdicts /\ v # "failed" BY DEF Verdicts
    <3> QED BY <2>1, <2>2, <2>4, <3>1, <3>2, <3>3, VerdictKept
  <2> QED BY <2>3, <2>4
<1>4. ASSUME NEW r \in Requests, Restores(r) PROVE Kept'
  <2>1. CASE agreed = None BY <1>4, <2>1 DEF Restores, Kept
  <2>2. CASE agreed # None
    <3>1. Active(r) /\ calls[r].previous = agreed /\ \A o \in Requests \ {r} : ~Active(o)
      BY <1>0, <1>4, <2>2 DEF Restores, Kept, Saves, Active
    <3>2. /\ \A o \in Requests \ {r} : ~Active(o)'
          /\ Active(r)' /\ calls'[r].pc = "undoes" /\ calls'[r].previous = calls[r].previous
      BY <1>0, <1>4, <3>1 DEF Restores, Types, Changes, Active
    <3>3. settings' = agreed /\ agreed' = agreed BY <1>4, <3>1 DEF Restores
    <3> QED BY <3>1, <3>2, <3>3 DEF Kept, Saves
  <2> QED BY <2>1, <2>2
<1>5. ASSUME Takes PROVE Kept'
  <2>1. ~Staged /\ ~Staged' BY <1>5 DEF Takes, Staged, Free
  <2> QED BY <1>1, <1>5, <2>1 DEF Takes, persisted
<1>6. ASSUME Stages PROVE Kept'
  <2>1. CASE Ends(FALSE) /\ job.kind = "stage" /\ UNCHANGED settings
    <3> DEFINE r == job.of
    <3>1. r \in Requests /\ r # None /\ calls[r].pc = "applies" BY <1>0, <2>1 DEF Owed
    <3>2. PICK v \in Verdicts : /\ Ended(r, v)
                                /\ v = "failed" <=> calls[r].pc = "undoes"
                                /\ v \in {"tests", "done"} => FALSE
      BY <2>1, <3>1, Ending
    <3>3. v = "fails" BY <3>1, <3>2 DEF Verdicts
    <3>4. job' = Free /\ Free.of = None /\ ~Staged'
      <4>1. job' = Free BY <2>1, Ending
      <4> QED BY <4>1 DEF Free, Staged
    <3>5. CASE agreed = None
      <4>1. agreed' = None BY <3>2, <3>5 DEF Ended, Told
      <4> QED BY <4>1 DEF Kept
    <3>6. CASE agreed # None
      <4>1. Active(r) /\ settings = agreed
        BY <1>0, <1>6, <3>1, <3>6 DEF Kept, Saves, Active, Stages, Staged
      <4> HIDE DEF r
      <4> QED BY <2>1, <3>1, <3>2, <3>3, <3>4, <3>6, <4>1, VerdictKept
    <3> QED BY <3>5, <3>6
  <2>2. CASE ~(Ends(FALSE) /\ job.kind = "stage" /\ UNCHANGED settings)
    <3> DEFINE next == IF job.kind = "stage" THEN calls[job.of].next ELSE settings
    <3>1. /\ settings' = next /\ UNCHANGED <<calls, agreed>> /\ job.pc = "stages"
          /\ job' = [job EXCEPT !.pc = "checks", !.undo = settings, !.before = pending,
                                !.candidate = Generated(next, Prepared)]
      BY <1>6, <2>2 DEF Stages
    <3>2. ~Staged /\ Staged' /\ job'.of = job.of /\ job'.undo = settings
      BY <1>0, <3>1 DEF Staged, Types, Applies
    <3> SUFFICES ASSUME agreed # None PROVE Kept' BY <3>1 DEF Kept
    <3>3. /\ \A r, o \in Requests : Active(r) /\ Active(o) => r = o
          /\ (\A r \in Requests : ~Active(r)) => settings = agreed
          /\ \A r \in Requests : Active(r) => Saves(r, settings)
      BY <1>0 DEF Kept
    <3>4. CASE job.kind = "stage"
      <4>1. /\ job.of \in Requests /\ Active(job.of) /\ calls[job.of].pc = "applies"
            /\ settings' = calls[job.of].next
        BY <1>0, <3>1, <3>4 DEF Owed, Active
      <4>2. calls[job.of].previous = agreed /\ settings = agreed
        BY <3>2, <3>3, <4>1 DEF Saves
      <4>3. \A o \in Requests : Active(o) => o = job.of BY <3>3, <4>1
      <4>4. Saves(job.of, settings)' BY <3>1, <3>2, <4>1, <4>2 DEF Saves
      <4> QED BY <3>1, <3>2, <3>3, <4>1, <4>3, <4>4 DEF Kept, Active
    <3>5. CASE job.kind # "stage"
      <4>1. settings' = settings BY <3>1, <3>5
      <4>2. \A r \in Requests : job.of = r => calls[r].pc # "applies"
        BY <1>0, <3>5, NoneAssumption DEF Owed, Types, Applies
      <4> QED BY <3>1, <3>2, <3>3, <4>1, <4>2 DEF Kept, Saves, Active
    <3> QED BY <3>4, <3>5
  <2> QED BY <2>1, <2>2
<1>7. ASSUME Checks PROVE Kept'
  <2>1. job.pc = "checks" /\ Staged BY <1>7 DEF Checks, Staged
  <2>2. CASE Ends(TRUE) /\ UNCHANGED settings BY <2>1, <2>2, EndingKept
  <2>3. CASE /\ Ends(FALSE)
             /\ \/ UNCHANGED settings
                \/ job.kind = "stage" /\ settings' = job.undo
    BY <2>1, <2>3, EndingKept
  <2>4. CASE job' = [job EXCEPT !.pc = "reloads"] /\ UNCHANGED <<settings, calls, agreed>>
    <3>1. job'.of = job.of /\ job'.undo = job.undo /\ Staged'
      BY <1>0, <2>4 DEF Types, Applies, Staged
    <3> QED BY <1>1, <2>1, <2>4, <3>1
  <2> QED BY <1>7, <2>2, <2>3, <2>4 DEF Checks
<1>8. ASSUME Reloads \/ VerifiesRuntime \/ VerifiesListener \/ Commits PROVE Kept'
  <2>1. Staged /\ UNCHANGED settings
    BY <1>8 DEF Reloads, VerifiesRuntime, VerifiesListener, Commits, Staged
  <2>2. CASE Ends(TRUE) \/ Ends(FALSE) BY <2>1, <2>2, EndingKept
  <2>3. CASE \E p \in {"runtime", "listener", "commits"} :
               job' = [job EXCEPT !.pc = p] /\ UNCHANGED <<calls, agreed>>
    <3>1. job'.of = job.of /\ job'.undo = job.undo /\ Staged'
      BY <1>0, <2>3 DEF Types, Applies, Staged
    <3> QED BY <1>1, <2>1, <2>3, <3>1
  <2> QED BY <1>8, <2>2, <2>3 DEF Reloads, VerifiesRuntime, VerifiesListener, GivesBack, Commits
<1>9. ASSUME \/ OtherApply \/ EngineStops \/ EngineStarts \/ SiteChanges \/ UNCHANGED vars
      PROVE  Kept'
  <2>1. UNCHANGED <<settings, calls, agreed, job>>
    BY <1>9 DEF OtherApply, EngineStops, EngineStarts, SiteChanges, vars, persisted
  <2> QED BY <1>1, <2>1
<1>10. ASSUME Crash \/ \E p \in BOOLEAN : Redeploy(p) PROVE Kept'
  <2>1. Restarted /\ UNCHANGED settings BY <1>10 DEF Crash, Redeploy, persisted
  <2>2. \A r \in Requests : ~Active(r)'
    <3>1. Idle.pc = "idle" BY DEF Idle
    <3> QED BY <2>1, <3>1 DEF Restarted, Active
  <2>3. agreed' # None => settings' = agreed'
    BY <1>0, <2>1 DEF Restarted, AtRest, Kept, Active
  <2> QED BY <2>2, <2>3 DEF Kept
<1> QED BY <1>2, <1>3, <1>4, <1>5, <1>6, <1>7, <1>8, <1>9, <1>10 DEF Next

-----------------------------------------------------------------------------
LEMMA AskedForced ==
    ASSUME Types, UNCHANGED job, NEW x \in Items, queue' = Append(queue, x)
    PROVE  (Forced => Forced') /\ (x.kind = "force" => Forced')
<1>1. queue \in Seq(Items) BY DEF Types
<1>2. /\ DOMAIN queue \subseteq DOMAIN queue' /\ Len(queue) + 1 \in DOMAIN queue'
      /\ queue'[Len(queue) + 1] = x /\ \A n \in DOMAIN queue : queue'[n] = queue[n]
  BY <1>1, Appended
<1> QED BY <1>2 DEF Forced

LEMMA RecordedKept == IInv /\ [Next]_vars => Recorded'
<1> SUFFICES ASSUME IInv, [Next]_vars PROVE Recorded' OBVIOUS
<1>0. Types /\ Basic /\ Recorded BY DEF IInv
\* An apply that ends without a commit of its candidate.
<1>1. ASSUME Staged, job' = Free, state' # "applied" PROVE Recorded'
  BY <1>1 DEF Recorded, Staged, Taken, Free
<1>2. ASSUME Staged, Failed PROVE state' # "applied" BY <1>0, <1>2 DEF Basic, Failed
<1>3. ASSUME NEW x \in Items, queue' = Append(queue, x),
             UNCHANGED <<settings, state, pending, file, job>>, engine' = engine \/ x.kind = "force"
      PROVE  Recorded'
  <2>1. (Forced => Forced') /\ (x.kind = "force" => Forced') BY <1>0, <1>3, AskedForced
  <2> QED BY <1>0, <1>3, <2>1 DEF Recorded, Live, Staged, Taken
<1>4. ASSUME NEW r \in Requests, ConfigureGateway(r) PROVE Recorded'
  <2>1. [kind |-> "stage", of |-> r] \in Items BY DEF Items
  <2> QED BY <1>3, <1>4, <2>1 DEF ConfigureGateway
<1>5. ASSUME NEW r \in Requests, TestsResolver(r) PROVE Recorded'
  BY <1>0, <1>5 DEF TestsResolver, persisted, Recorded, Live, Forced, Staged, Taken
<1>6. ASSUME NEW r \in Requests, Restores(r) PROVE Recorded'
  <2> DEFINE x == [kind |-> "force", of |-> r]
  <2>1. x \in Items /\ x.kind = "force" BY DEF Items
  <2>2. Forced' BY <1>0, <1>6, <2>1, AskedForced DEF Restores
  <2> QED BY <2>2 DEF Recorded
<1>7. ASSUME Takes PROVE Recorded'
  <2>1. queue \in Seq(Items) /\ queue # <<>> BY <1>0, <1>7 DEF Takes, Types
  <2>2. /\ Head(queue) = queue[1] /\ queue' = Tail(queue)
        /\ \A n \in DOMAIN queue : n # 1 => n - 1 \in DOMAIN Tail(queue) /\ Tail(queue)[n - 1] = queue[n]
    BY <1>7, <2>1, Tailed DEF Takes
  <2>3. /\ job'.kind = queue[1].kind /\ job'.pc = "stages" /\ job.pc = "free"
        /\ UNCHANGED <<settings, state, pending, file, engine>>
    BY <1>7, <2>2 DEF Takes, Free, persisted
  <2>4. Forced => Forced' BY <2>2, <2>3 DEF Forced
  <2> QED BY <1>0, <2>3, <2>4 DEF Recorded, Live, Staged, Taken
<1>8. ASSUME Stages PROVE Recorded'
  <2>1. CASE Ends(FALSE) /\ job.kind = "stage" /\ UNCHANGED <<settings, pending>>
    <3>1. job' = Free /\ job.pc = "stages" BY <1>8, <2>1, Ending DEF Stages
    <3>2. Forced => Forced' BY <1>8, <2>1 DEF Forced, Stages
    <3> QED BY <1>0, <1>8, <2>1, <3>1, <3>2 DEF Recorded, Live, Staged, Taken, Stages, Free
  <2>2. CASE ~(Ends(FALSE) /\ job.kind = "stage" /\ UNCHANGED <<settings, pending>>)
    <3> DEFINE next == IF job.kind = "stage" THEN calls[job.of].next ELSE settings
    <3>1. /\ settings' = next /\ pending' = TRUE /\ job.pc = "stages"
          /\ UNCHANGED <<state, file, engine, queue>>
          /\ job' = [job EXCEPT !.pc = "checks", !.undo = settings, !.before = pending,
                                !.candidate = Generated(next, Prepared)]
      BY <1>8, <2>2 DEF Stages
    <3>2. /\ job'.pc = "checks" /\ job'.kind = job.kind /\ job'.undo = settings
          /\ job'.before = pending /\ job'.candidate = Generated(settings', Prepared)
      BY <1>0, <3>1 DEF Types, Applies
    <3>3. job'.candidate = Generated(settings', job'.candidate.prepared)
      BY <3>2 DEF Generated
    <3>4. job.kind # "force" /\ Forced => Forced' BY <3>1 DEF Forced
    <3>5. job'.kind = "other" /\ ~job'.before /\ state' = "applied" => Forced' \/ Live(job.undo)'
      BY <1>0, <3>1, <3>2, <3>4 DEF Recorded, Live
    <3> QED BY <3>1, <3>2, <3>3, <3>5 DEF Recorded, Staged, Taken
  <2> QED BY <2>1, <2>2
<1>9. ASSUME Checks PROVE Recorded'
  <2>1. /\ job.pc = "checks" /\ Staged /\ UNCHANGED <<file, engine, queue>>
        /\ job \in Applies /\ (Forced => Forced')
    BY <1>0, <1>9 DEF Checks, Staged, Forced, Types
  <2>2. CASE Unchanged /\ Ends(TRUE) /\ UNCHANGED <<settings, state>>
    <3>1. job' = Free BY <2>2, Ending
    <3>2. state = "applied" => Forced \/ Live(settings)
      <4> SUFFICES ASSUME state = "applied", ~Forced PROVE Live(settings) OBVIOUS
      <4>1. Live(job.undo) /\ job.candidate = Generated(settings, job.candidate.prepared)
        BY <1>0, <2>1, <2>2 DEF Recorded, Unchanged
      <4>2. job.candidate.prepared
        BY <2>2, <4>1 DEF Live, Generated, Unchanged
      <4>3. job.candidate.prepared = TRUE BY <1>0, <2>1, <4>2 DEF Basic, Configurations
      <4> QED BY <2>2, <4>1, <4>3 DEF Live, Unchanged
    <3> QED BY <2>1, <2>2, <3>1, <3>2 DEF Recorded, Live, Staged, Taken, Free
  <2>3. CASE Ends(FALSE) /\ Failed
    <3>1. job' = Free BY <2>3, Ending
    <3> QED BY <1>1, <1>2, <2>1, <2>3, <3>1
  <2>4. CASE job' = [job EXCEPT !.pc = "reloads"] /\ UNCHANGED <<settings, state, pending>>
    <3>1. job'.pc = "reloads" /\ job'.candidate = job.candidate BY <2>1, <2>4 DEF Applies
    <3> QED BY <1>0, <2>1, <2>4, <3>1 DEF Recorded, Staged, Taken
  <2> QED BY <1>9, <2>2, <2>3, <2>4 DEF Checks
<1>10. ASSUME Reloads \/ VerifiesRuntime \/ VerifiesListener PROVE Recorded'
  <2>1. /\ Staged /\ UNCHANGED <<file, queue, settings>> /\ job \in Applies /\ (Forced => Forced')
    BY <1>0, <1>10 DEF Reloads, VerifiesRuntime, VerifiesListener, Staged, Forced, Types
  <2>2. CASE Ends(FALSE) /\ Failed
    <3>1. job' = Free BY <2>2, Ending
    <3> QED BY <1>1, <1>2, <2>1, <2>2, <3>1
  <2>3. CASE /\ \E p \in {"runtime", "listener", "commits"} : job' = [job EXCEPT !.pc = p]
             /\ \/ engine' = job.candidate
                \/ Taken /\ UNCHANGED engine
    <3>1. job'.pc \in {"runtime", "listener", "commits"} /\ job'.candidate = job.candidate
      BY <2>1, <2>3 DEF Applies
    <3> QED BY <1>0, <2>1, <2>3, <3>1 DEF Recorded, Staged, Taken
  <2> QED BY <1>10, <2>2, <2>3 DEF Reloads, VerifiesRuntime, VerifiesListener, GivesBack, Taken
<1>11. ASSUME Commits PROVE Recorded'
  <2>1. /\ Staged /\ Taken /\ UNCHANGED <<engine, queue, settings>> /\ (Forced => Forced')
        /\ file' = job.candidate /\ Ends(TRUE)
        /\ state' = IF job.candidate.prepared THEN "applied" ELSE state
    BY <1>11 DEF Commits, Staged, Taken, Forced
  <2>2. job' = Free BY <2>1, Ending
  <2>3. CASE ~job.candidate.prepared
    <3>1. state' # "applied" BY <1>0, <2>1, <2>3 DEF Basic
    <3> QED BY <1>1, <2>1, <2>2, <3>1
  <2>4. CASE job.candidate.prepared
    <3>1. job.candidate.prepared = TRUE BY <1>0, <2>1, <2>4 DEF Basic, Configurations
    <3>2. \/ Forced
          \/ job.candidate = Generated(settings, TRUE) /\ engine \in {None, job.candidate}
      <4>1. /\ Forced \/ job.candidate = Generated(settings, job.candidate.prepared)
            /\ Forced \/ engine \in {None, job.candidate}
        BY <1>0, <2>1 DEF Recorded
      <4>2. Generated(settings, job.candidate.prepared) = Generated(settings, TRUE) BY <3>1
      <4> QED BY <4>1, <4>2
    <3> QED BY <2>1, <2>2, <3>2 DEF Recorded, Live, Staged, Taken, Free
  <2> QED BY <2>3, <2>4
<1>12. ASSUME OtherApply PROVE Recorded'
  <2>1. [kind |-> "other", of |-> None] \in Items BY DEF Items
  <2> QED BY <1>3, <1>12, <2>1 DEF OtherApply, persisted
<1>13. ASSUME EngineStarts PROVE Recorded'
  <2> DEFINE x == [kind |-> "force", of |-> None]
  <2>1. x \in Items /\ x.kind = "force" BY DEF Items
  <2>2. Forced' BY <1>0, <1>13, <2>1, AskedForced DEF EngineStarts
  <2> QED BY <2>2 DEF Recorded
<1>14. ASSUME EngineStops \/ SiteChanges \/ UNCHANGED vars PROVE Recorded'
  BY <1>0, <1>14 DEF EngineStops, SiteChanges, vars, persisted, Recorded, Live, Forced, Staged, Taken
<1>15. ASSUME Restarted PROVE Recorded'
  <2>1. 1 \in DOMAIN queue' /\ queue'[1].kind = "force" BY <1>15 DEF Restarted
  <2> QED BY <2>1 DEF Recorded, Forced
<1> QED BY <1>4, <1>5, <1>6, <1>7, <1>8, <1>9, <1>10, <1>11, <1>12, <1>13, <1>14, <1>15
        DEF Next, Crash, Redeploy

-----------------------------------------------------------------------------
LEMMA ModeInit == Init => IInv
<1> SUFFICES ASSUME Init PROVE IInv OBVIOUS
<1>0. /\ queue = <<>> /\ job = Free /\ calls = [r \in Requests |-> Idle] /\ agreed = settings
      /\ engine = file /\ pending = FALSE /\ password \in BOOLEAN
      /\ form \in {"basic", "legacy", "current"}
      /\ state = IF Prepared /\ file # None THEN "applied" ELSE "unknown"
      /\ settings \in {Default} \cup
           (IF form # "basic" /\ password THEN {[mode |-> "tun", dns |-> None]} ELSE {})
      /\ file = None \/ file = Generated(settings, Prepared)
  BY DEF Init
<1>1. settings \in Settings /\ settings.dns = None /\ (settings.mode = "tun" => password)
      /\ (form = "basic" => settings = Default)
  BY <1>0 DEF Default, Settings, Modes
<1>2. Free.pc = "free" /\ Free.of = None /\ Free.kind = "none" /\ Idle.pc = "idle"
  BY DEF Free, Idle
<1>3. Types
  <2>1. Prepared \in BOOLEAN BY DEF Prepared
  <2>2. file \in Configurations \cup {None} BY <1>0, <1>1, <2>1, Records
  <2>3. state \in {"applied", "failed", "unknown"} BY <1>0
  <2>4. queue \in Seq(Items) /\ calls \in [Requests -> Changes] BY <1>0, Records
  <2> QED BY <1>0, <1>1, <2>2, <2>3, <2>4, Records DEF Types
<1>4. Accounted BY <1>0, <1>2 DEF Accounted, Owed
<1>5. Basic BY <1>0, <1>1, <1>2 DEF Basic, Staged, Prepared
<1>6. Guarded
  <2>1. file # None => file.mode = settings.mode /\ file.dns = None BY <1>0, <1>1 DEF Generated
  <2> QED BY <1>0, <1>1, <1>2, <2>1, NoneAssumption DEF Guarded, Sound, Reloaded
<1>7. Kept BY <1>0, <1>2 DEF Kept, Active
<1>8. Recorded
  <2>1. state = "applied" => file = Generated(settings, TRUE) BY <1>0 DEF Prepared, Generated
  <2> QED BY <1>0, <1>2, <2>1 DEF Recorded, Live, Staged, Taken
<1> QED BY <1>3, <1>4, <1>5, <1>6, <1>7, <1>8 DEF IInv

LEMMA ModeStep == IInv /\ [Next]_vars => IInv'
BY TypesKept, AccountedKept, BasicKept, GuardedKept, KeptKept, RecordedKept DEF IInv

LEMMA ModeHolds == IInv => ModeAgrees /\ ChangeKept /\ TunGuarded
<1> SUFFICES ASSUME IInv PROVE ModeAgrees /\ ChangeKept /\ TunGuarded OBVIOUS
<1>1. ModeAgrees
  <2> SUFFICES ASSUME AtRest, ~pending, state = "applied"
               PROVE  file = Generated(settings, TRUE) /\ engine \in {None, file}
    BY DEF ModeAgrees
  <2>1. queue = <<>> /\ job.pc = "free" BY DEF AtRest, Free
  <2>2. ~Forced BY <2>1 DEF Forced
  <2> QED BY <2>1, <2>2 DEF IInv, Recorded, Live
<1>2. ChangeKept BY DEF IInv, Kept, ChangeKept, AtRest, Active
<1>3. TunGuarded BY DEF IInv, Guarded, Sound, TunGuarded, Tuns
<1> QED BY <1>1, <1>2, <1>3

-----------------------------------------------------------------------------
(* The decoder: what runs, what is captured and what is read are of the call *)
(* whose turn it is, and whatever an earlier one left is gone by then.       *)

Decodes == {"cleanup", "remove", "flag", "launch", "poll", "kill", "reply"}
Runs    == pc \in {"poll", "kill"}

Decoding ==
    /\ client \in [Links -> {"idle", "waiting", "answered", "failed", "left"}]
    /\ answer \in [Links -> Links \cup {None}]
    /\ happ \in [link : Links \cup {None}, asked : Int]
    /\ queue \subseteq Links
    /\ IF holder = None THEN pc = "free" ELSE holder \in Links /\ pc \in Decodes

OwnRun ==
    /\ Runs => happ.link = holder /\ (inject => holder \in Bound)
    /\ pc = "launch" => (inject => holder \in Bound)
    /\ ~Runs => happ.link = None /\ flows = {}
    /\ \A f \in flows : f.link = holder /\ (f.device => holder \in Bound)
    /\ pc \in {"flag", "launch", "poll", "kill"} => result \in {None, "half", holder}
    /\ pc \in {"flag", "launch", "poll", "kill", "reply"} => got \in {None, holder}
    /\ \A c \in Links : client[c] = "answered" => answer[c] = c

LEMMA DecoderInit == Decoder!Init => Decoding /\ OwnRun
<1> SUFFICES ASSUME Decoder!Init PROVE Decoding /\ OwnRun
  OBVIOUS
<1>1. happ = [link |-> None, asked |-> 0] BY DEF Decoder!Init, Decoder!Stopped
<1>2. Decoding
  <2>1. happ \in [link : Links \cup {None}, asked : Int] BY <1>1
  <2>2. /\ client \in [Links -> {"idle", "waiting", "answered", "failed", "left"}]
        /\ answer \in [Links -> Links \cup {None}]
    BY DEF Decoder!Init
  <2> QED BY <2>1, <2>2 DEF Decoder!Init, Decoding
<1>3. OwnRun BY <1>1 DEF Decoder!Init, OwnRun, Runs
<1> QED BY <1>2, <1>3

LEMMA DecoderStep ==
    ASSUME Decoding, OwnRun, Decoder!Next
    PROVE  Decoding' /\ OwnRun'
<1> USE DEF Runs, Decodes
<1>1. CASE \E c \in Links : Decoder!Send(c) \/ Decoder!GivesUp(c)
  <2>1. PICK c \in Links, s \in {"waiting", "left"} : client' = [client EXCEPT ![c] = s]
    BY <1>1 DEF Decoder!Send, Decoder!GivesUp
  <2>2. queue' \subseteq Links BY <1>1 DEF Decoder!Send, Decoder!GivesUp, Decoding
  <2>3. UNCHANGED <<answer, holder, pc, got, result, inject, happ, flows>>
    BY <1>1 DEF Decoder!Send, Decoder!GivesUp
  <2> QED BY <2>1, <2>2, <2>3 DEF Decoding, OwnRun
<1>2. CASE \E c \in Links : Decoder!Lock(c)
  BY <1>2, LinksAssumption DEF Decoder!Lock, Decoding, OwnRun
<1>3. CASE Decoder!Cleanup
  BY <1>3, LinksAssumption DEF Decoder!Cleanup, Decoder!Kill, Decoder!Stopped, Decoding, OwnRun
<1>4. CASE Decoder!Remove BY <1>4 DEF Decoder!Remove, Decoding, OwnRun
<1>11. CASE Decoder!SetFlag
  <2>1. inject' => holder \in Bound
    <3>1. inject' = (holder \in Bound) \/ inject' = FALSE
      BY <1>11 DEF Decoder!SetFlag, Decoder!Flag
    <3> QED BY <3>1
  <2> QED BY <1>11, <2>1 DEF Decoder!SetFlag, Decoding, OwnRun
<1>5. CASE Decoder!Launch BY <1>5 DEF Decoder!Launch, Decoding, OwnRun
<1>6. CASE Decoder!Poll
  BY <1>6, LinksAssumption DEF Decoder!Poll, Decoding, OwnRun
<1>7. CASE Decoder!KillAgain
  BY <1>7, LinksAssumption DEF Decoder!KillAgain, Decoder!Kill, Decoder!Stopped, Decoding, OwnRun
<1>8. CASE Decoder!Reply
  <2>1. holder \in Links /\ pc = "reply" BY <1>8, LinksAssumption DEF Decoder!Reply, Decoding
  <2>2. /\ client' \in [Links -> {"idle", "waiting", "answered", "failed", "left"}]
        /\ answer' \in [Links -> Links \cup {None}]
    BY <1>8, <2>1 DEF Decoder!Reply, Decoding, OwnRun
  <2>3. \A c \in Links : client'[c] = "answered" => answer'[c] = c
    BY <1>8, <2>1 DEF Decoder!Reply, Decoding, OwnRun
  <2> QED BY <1>8, <2>1, <2>2, <2>3 DEF Decoder!Reply, Decoding, OwnRun
<1>9. CASE Decoder!Request
  <2>1. Runs BY <1>9 DEF Decoder!Request, OwnRun
  <2>2. /\ happ'.link = happ.link /\ happ' \in [link : Links \cup {None}, asked : Int]
        /\ flows' = flows \cup {[link |-> happ.link, device |-> inject]}
        /\ UNCHANGED <<client, answer, queue, holder, pc, got, result, inject>>
    BY <1>9 DEF Decoder!Request, Decoding
  <2> QED BY <2>1, <2>2 DEF Decoding, OwnRun
<1>10. CASE Decoder!Response
  <2>1. PICK f \in flows : result' \in {result, "half", f.link} /\ flows' \subseteq flows
    BY <1>10 DEF Decoder!Response
  <2>2. UNCHANGED <<client, answer, queue, holder, pc, got, inject, happ>>
    BY <1>10 DEF Decoder!Response
  <2>3. f.link = holder /\ Runs BY DEF OwnRun
  <2> QED BY <2>1, <2>2, <2>3 DEF Decoding, OwnRun
<1> QED BY <1>1, <1>2, <1>3, <1>4, <1>5, <1>6, <1>7, <1>8, <1>9, <1>10, <1>11
        DEF Decoder!Next, Decoder!Server

LEMMA DecoderOwn == Decoding /\ OwnRun => Decoder!OwnAnswer
BY DEF OwnRun, Decoder!OwnAnswer

-----------------------------------------------------------------------------
(* The sources: rows, calls and what the last apply wrote.                   *)

LEMMA Least ==
    ASSUME NEW T \in SUBSET Nat, T # {}
    PROVE  \E x \in T : \A y \in T : x <= y
<1> DEFINE R == {p \in Nat \X Nat : p[1] < p[2]}
<1>1. IsWellFoundedOn(R, Nat)
  <2>1. R = OpToRel(<, Nat) BY DEF OpToRel
  <2> QED BY <2>1, NatLessThanWellFounded
<1>2. \E x \in T : \A y \in T : ~(<<y, x>> \in R)
  <2> HIDE DEF R
  <2> QED BY <1>1, WFMin
<1>3. PICK x \in T : \A y \in T : <<y, x>> \notin R BY <1>2
<1>4. ASSUME NEW y \in T PROVE x <= y
  <2>1. ~(<<y, x>>[1] < <<y, x>>[2]) BY <1>3
  <2> QED BY <2>1
<1> QED BY <1>4

LEMMA Greatest ==
    ASSUME NEW S \in SUBSET Nat, S # {}, NEW n \in Nat, \A x \in S : x <= n
    PROVE  Intake!Max(S) \in S /\ \A x \in S : x <= Intake!Max(S)
<1> DEFINE T == {m \in Nat : \A x \in S : x <= m}
<1>1. T \in SUBSET Nat /\ n \in T OBVIOUS
<1>2. PICK m \in T : \A y \in T : m <= y
  <2> HIDE DEF T
  <2> QED BY <1>1, Least
<1>3. m \in S
  <2> SUFFICES ASSUME m \notin S PROVE FALSE OBVIOUS
  <2>1. \A x \in S : x < m BY <1>2
  <2>2. m - 1 \in Nat /\ \A x \in S : x <= m - 1
    <3>1. PICK x \in S : TRUE OBVIOUS
    <3> QED BY <1>2, <2>1, <3>1
  <2>3. m - 1 \in T BY <2>2
  <2> QED BY <1>2, <2>2, <2>3
<1>4. \E x \in S : \A y \in S : x >= y BY <1>2, <1>3
<1> QED BY <1>4 DEF Intake!Max

IsRow(x)  == x = [value |-> x.value, sub |-> x.sub, nodes |-> x.nodes, order |-> x.order]
IsCall(c) == c = [pc |-> c.pc, of |-> c.of, id |-> c.id, nodes |-> c.nodes, sub |-> c.sub,
                  clash |-> c.clash]
IsSound(c) == IsCall(c) /\ (c.pc = "store" => c.nodes # <<>>)

\* An addition that checked its value, and that nothing overtook since.
Alone(c) == c.id = 0 /\ c.pc \in {"decode", "fetch", "store"} /\ ~c.clash

Stored ==
    /\ nextId \in Nat \ {0}
    /\ DOMAIN rows \subseteq 1 .. nextId - 1
    /\ \A i \in DOMAIN rows :
         IsRow(rows[i]) /\ rows[i].nodes # <<>> /\ rows[i].order \in 0 .. nextId - 2
    /\ \A i, j \in DOMAIN rows : rows[i].order = rows[j].order => i = j
    /\ DOMAIN calls = Requests /\ calls = [r \in Requests |-> calls[r]]
    /\ \A r \in Requests : IsSound(calls[r])

Checked == \A r \in Requests : Alone(calls[r]) => \A i \in DOMAIN rows : rows[i].value # calls[r].of
Written == (\A r \in Requests : calls[r].pc # "apply") /\ file # None => file = Intake!Collected(rows)

TakenIn == Stored /\ Checked /\ Intake!OnceEach /\ Written

LEMMA IntakeInit == Intake!Init => TakenIn
<1> SUFFICES ASSUME Intake!Init PROVE TakenIn OBVIOUS
<1>1. rows = <<>> /\ DOMAIN rows = {} /\ nextId = 1 BY DEF Intake!Init
<1>2. calls = [r \in Requests |-> Intake!Idle] /\ Intake!Idle.pc = "idle" /\ IsSound(Intake!Idle)
  BY DEF Intake!Init, Intake!Idle, IsSound, IsCall
<1>3. file = Intake!Collected(rows) BY DEF Intake!Init
<1> QED BY <1>1, <1>2, <1>3 DEF TakenIn, Stored, Checked, Written, Intake!OnceEach, Intake!Ids, Alone

LEMMA Ingested ==
    ASSUME NEW v, NEW row
    PROVE  LET c == Intake!Ingest(v, row)
           IN  /\ IsSound(c) /\ c.pc \in {"idle", "decode", "fetch", "store"}
               /\ c.pc # "idle" => c.id = row /\ c.of = v.id /\ c.clash = FALSE
<1> DEFINE c == Intake!Ingest(v, row)
           nodes == Intake!ParseLocally(v)
<1>1. CASE Intake!Kind(v) = "error" \/ c = Intake!Idle
  <2>1. c = Intake!Idle BY <1>1 DEF Intake!Ingest
  <2> QED BY <2>1 DEF Intake!Idle, IsSound, IsCall
<1>2. CASE Intake!Kind(v) = "happ"
  <2>1. c = [pc |-> "decode", of |-> v.id, id |-> row, nodes |-> <<>>, sub |-> None, clash |-> FALSE]
    BY <1>2 DEF Intake!Ingest, Intake!Idle
  <2> QED BY <2>1 DEF IsSound, IsCall
<1>3. CASE Intake!Kind(v) = "sub" /\ v.url # None
  <2>1. c = [pc |-> "fetch", of |-> v.id, id |-> row, nodes |-> <<>>, sub |-> v.url, clash |-> FALSE]
    BY <1>3 DEF Intake!Ingest, Intake!Idle
  <2> QED BY <2>1 DEF IsSound, IsCall
<1>4. CASE /\ Intake!Kind(v) \notin {"error", "happ"} /\ ~(Intake!Kind(v) = "sub" /\ v.url # None)
           /\ c # Intake!Idle
  <2>1. /\ nodes # <<>>
        /\ c = [pc |-> "store", of |-> v.id, id |-> row, nodes |-> nodes, sub |-> None, clash |-> FALSE]
    <3> HIDE DEF nodes
    <3> QED BY <1>4 DEF Intake!Ingest, Intake!Idle, nodes
  <2> HIDE DEF nodes
  <2> QED BY <2>1 DEF IsSound, IsCall
<1> QED BY <1>1, <1>2, <1>3, <1>4

LEMMA TakenNodes ==
    ASSUME NEW call, IsCall(call), NEW fetched
    PROVE  LET c == Intake!Taken(call, fetched)
           IN  /\ IsSound(c) /\ c.pc \in {"idle", "store"}
               /\ c.pc = "store" => c.id = call.id /\ c.of = call.of /\ c.clash = call.clash
<1> DEFINE nodes == IF call.nodes # <<>> THEN call.nodes ELSE fetched
<1>1. CASE nodes = <<>>
  <2>1. Intake!Taken(call, fetched) = Intake!Idle BY <1>1 DEF Intake!Taken
  <2> QED BY <2>1 DEF Intake!Idle, IsSound, IsCall
<1>2. CASE nodes # <<>>
  <2>1. Intake!Taken(call, fetched) =
          [pc |-> "store", of |-> call.of, id |-> call.id, nodes |-> nodes, sub |-> call.sub,
           clash |-> call.clash]
    <3> HIDE DEF nodes
    <3> QED BY <1>2 DEF Intake!Taken, IsCall, nodes
  <2> HIDE DEF nodes
  <2> QED BY <1>2, <2>1 DEF IsSound, IsCall
<1> QED BY <1>1, <1>2

LEMMA ApplyingCall == IsSound(Intake!Applying) /\ Intake!Applying.pc = "apply"
<1>1. IsCall(Intake!Idle) BY DEF Intake!Idle, IsCall
<1>2. Intake!Applying = [pc |-> "apply", of |-> Intake!Idle.of, id |-> Intake!Idle.id,
                         nodes |-> Intake!Idle.nodes, sub |-> Intake!Idle.sub,
                         clash |-> Intake!Idle.clash]
  BY <1>1 DEF Intake!Applying, IsCall
<1> QED BY <1>2 DEF IsSound, IsCall

\* A call goes on without touching the rows.
LEMMA CallMoves ==
    ASSUME TakenIn, UNCHANGED <<rows, nextId, file, strayed>>, NEW r \in Requests, NEW c,
           calls' = [calls EXCEPT ![r] = c], calls[r].pc # "apply", IsSound(c),
           Alone(c) => \A i \in DOMAIN rows : rows[i].value # c.of
    PROVE  TakenIn'
<1>1. /\ calls'[r] = c /\ \A o \in Requests \ {r} : calls'[o] = calls[o]
      /\ DOMAIN calls' = Requests /\ calls' = [o \in Requests |-> calls'[o]]
  BY DEF TakenIn, Stored
<1>2. Stored' BY <1>1 DEF TakenIn, Stored
<1>3. Checked' BY <1>1 DEF TakenIn, Checked
<1>4. Intake!OnceEach' BY DEF TakenIn, Intake!OnceEach, Intake!Ids
<1>5. Written' BY <1>1 DEF TakenIn, Written
<1> QED BY <1>2, <1>3, <1>4, <1>5 DEF TakenIn

\* A row is stored for a call, and what an apply will write is no longer written.
LEMMA NewRow ==
    ASSUME TakenIn, NEW r \in Requests, Intake!StoreNew(r)
    PROVE  TakenIn'
<1> DEFINE call == calls[r]
           last == IF DOMAIN rows = {} THEN -1 ELSE Intake!Max({rows[i].order : i \in DOMAIN rows})
<1>0. /\ call.pc = "store" /\ call.id = 0 /\ IsSound(call) /\ UNCHANGED file
      /\ calls = [o \in Requests |-> calls[o]]
  BY DEF Intake!StoreNew, TakenIn, Stored
<1>1. CASE UNCHANGED <<rows, nextId, strayed>> /\ calls' = [calls EXCEPT ![r] = Intake!Idle]
  <2>1. IsSound(Intake!Idle) /\ ~Alone(Intake!Idle) BY DEF Intake!Idle, IsSound, IsCall, Alone
  <2> HIDE DEF last
  <2> QED BY <1>0, <1>1, <2>1, CallMoves DEF Intake!Frame
<1>2. CASE ~(UNCHANGED <<rows, nextId, strayed>> /\ calls' = [calls EXCEPT ![r] = Intake!Idle])
  <2> DEFINE new == [value |-> call.of, sub |-> call.sub, nodes |-> call.nodes, order |-> last + 1]
  <2>1. /\ call.sub # None => \A i \in DOMAIN rows : rows[i].sub # call.sub
        /\ rows' = [i \in DOMAIN rows \cup {nextId} |-> IF i # nextId THEN rows[i] ELSE new]
        /\ nextId' = nextId + 1
        /\ calls' = [o \in Requests |->
                       IF o = r THEN Intake!Applying
                       ELSE [calls[o] EXCEPT !.clash = @ \/ (calls[o].id = 0 /\ calls[o].of = call.of)]]
        /\ strayed' = IF call.clash THEN strayed \cup {nextId} ELSE strayed
    BY <1>2 DEF Intake!StoreNew, Intake!Ids, Intake!Clashing
  <2>2. last + 1 \in 0 .. nextId' - 2 /\ \A i \in DOMAIN rows : rows[i].order < last + 1
    <3>1. CASE DOMAIN rows = {} BY <2>1, <3>1 DEF TakenIn, Stored
    <3>2. CASE DOMAIN rows # {}
      <4> DEFINE S == {rows[i].order : i \in DOMAIN rows}
      <4>1. S \in SUBSET Nat /\ S # {} /\ nextId - 2 \in Nat /\ \A x \in S : x <= nextId - 2
        BY <3>2 DEF TakenIn, Stored
      <4>2. last = Intake!Max(S) BY <3>2
      <4>3. \A i \in DOMAIN rows : rows[i].order \in S OBVIOUS
      <4> HIDE DEF S, last
      <4>4. last \in S /\ \A x \in S : x <= last BY <4>1, <4>2, Greatest
      <4> QED BY <2>1, <4>1, <4>3, <4>4 DEF TakenIn, Stored
    <3> QED BY <3>1, <3>2
  <2> HIDE DEF last
  <2>3. /\ nextId \notin DOMAIN rows /\ DOMAIN rows' = DOMAIN rows \cup {nextId}
        /\ rows'[nextId] = new /\ \A i \in DOMAIN rows : rows'[i] = rows[i]
    BY <2>1 DEF TakenIn, Stored
  <2>4. /\ DOMAIN calls' = Requests /\ calls' = [o \in Requests |-> calls'[o]]
        /\ calls'[r] = Intake!Applying
        /\ \A o \in Requests \ {r} :
             /\ IsSound(calls'[o]) /\ calls'[o].of = calls[o].of
             /\ Alone(calls'[o]) => Alone(calls[o]) /\ calls[o].of # call.of
    <3>1. ASSUME NEW o \in Requests \ {r}
          PROVE  /\ IsSound(calls'[o]) /\ calls'[o].of = calls[o].of
                 /\ Alone(calls'[o]) => Alone(calls[o]) /\ calls[o].of # call.of
      <4> DEFINE flag == calls[o].clash \/ (calls[o].id = 0 /\ calls[o].of = call.of)
      <4>1. IsSound(calls[o]) BY DEF TakenIn, Stored
      <4>2. calls'[o] = [pc |-> calls[o].pc, of |-> calls[o].of, id |-> calls[o].id,
                         nodes |-> calls[o].nodes, sub |-> calls[o].sub, clash |-> flag]
        BY <2>1, <4>1 DEF IsSound, IsCall
      <4>3. flag <=> (calls[o].clash \/ (calls[o].id = 0 /\ calls[o].of = call.of)) OBVIOUS
      <4> HIDE DEF flag
      <4> QED BY <4>1, <4>2, <4>3 DEF IsSound, IsCall, Alone
    <3> QED BY <2>1, <3>1
  <2>5. IsSound(Intake!Applying) /\ Intake!Applying.pc = "apply" BY ApplyingCall
  <2>6. IsRow(new) /\ new.nodes # <<>> /\ new.order = last + 1 /\ new.value = call.of
        /\ new.sub = call.sub
    BY <1>0 DEF IsRow, IsSound
  <2> HIDE DEF new
  <2>7. Stored'
    <3>1. nextId' \in Nat \ {0} /\ DOMAIN rows' \subseteq 1 .. nextId' - 1
      BY <2>1, <2>3 DEF TakenIn, Stored
    <3>2. \A i \in DOMAIN rows' :
            IsRow(rows'[i]) /\ rows'[i].nodes # <<>> /\ rows'[i].order \in 0 .. nextId' - 2
      <4>1. \A i \in DOMAIN rows : rows[i].order \in 0 .. nextId' - 2 BY <2>1 DEF TakenIn, Stored
      <4> QED BY <2>2, <2>3, <2>6, <4>1 DEF TakenIn, Stored
    <3>3. \A i, j \in DOMAIN rows' : rows'[i].order = rows'[j].order => i = j
      <4>1. \A i \in DOMAIN rows : rows[i].order \in Int /\ rows[i].order # last + 1
        BY <2>2 DEF TakenIn, Stored
      <4> QED BY <2>3, <2>6, <4>1 DEF TakenIn, Stored
    <3>4. \A o \in Requests : IsSound(calls'[o]) BY <2>4, <2>5
    <3> QED BY <2>4, <3>1, <3>2, <3>3, <3>4 DEF Stored
  <2>8. Checked'
    <3>1. ~Alone(calls'[r]) BY <2>4, <2>5 DEF Alone
    <3> QED BY <2>3, <2>4, <2>6, <3>1 DEF Checked, TakenIn
  <2>9. Intake!OnceEach'
    <3> SUFFICES ASSUME NEW i \in DOMAIN rows', NEW j \in DOMAIN rows', i # j,
                        i \notin strayed', j \notin strayed'
                 PROVE  /\ rows'[i].value # rows'[j].value
                        /\ rows'[i].sub # None => rows'[i].sub # rows'[j].sub
      BY DEF Intake!OnceEach, Intake!Ids
    <3>1. i \notin strayed /\ j \notin strayed /\ (nextId \in {i, j} => ~call.clash)
      BY <2>1
    <3>2. nextId \in {i, j} => \A k \in DOMAIN rows : rows[k].value # call.of
      BY <1>0, <3>1 DEF TakenIn, Checked, Alone
    <3>3. CASE i # nextId /\ j # nextId
      BY <2>3, <3>1, <3>3 DEF TakenIn, Intake!OnceEach, Intake!Ids
    <3>4. CASE i = nextId \/ j = nextId BY <2>1, <2>3, <2>6, <3>2, <3>4
    <3> QED BY <3>3, <3>4
  <2>10. Written' BY <2>4, <2>5 DEF Written
  <2> QED BY <2>7, <2>8, <2>9, <2>10 DEF TakenIn
<1> QED BY <1>1, <1>2

\* What replaces rows by rows of the same sources, or takes some away.
LEMMA RowsChange ==
    ASSUME TakenIn, UNCHANGED <<nextId, file>>, strayed \subseteq strayed', NEW r \in Requests,
           calls' = [calls EXCEPT ![r] = Intake!Applying],
           DOMAIN rows' \subseteq DOMAIN rows,
           \A i \in DOMAIN rows' :
             /\ IsRow(rows'[i]) /\ rows'[i].nodes # <<>> /\ rows'[i].order \in 0 .. nextId - 2
             /\ rows'[i].value = rows[i].value
             /\ rows'[i].sub # rows[i].sub => i \in strayed',
           \A i, j \in DOMAIN rows' : rows'[i].order = rows'[j].order => i = j
    PROVE  TakenIn'
<1>1. /\ calls'[r] = Intake!Applying /\ \A o \in Requests \ {r} : calls'[o] = calls[o]
      /\ DOMAIN calls' = Requests /\ calls' = [o \in Requests |-> calls'[o]]
  BY DEF TakenIn, Stored
<1>2. Stored' BY <1>1, ApplyingCall DEF TakenIn, Stored
<1>3. Checked' BY <1>1, ApplyingCall DEF TakenIn, Checked, Alone
<1>4. Intake!OnceEach' BY DEF TakenIn, Intake!OnceEach, Intake!Ids
<1>5. Written' BY <1>1, ApplyingCall DEF Written
<1> QED BY <1>2, <1>3, <1>4, <1>5 DEF TakenIn

LEMMA RefreshedRow ==
    ASSUME TakenIn, NEW r \in Requests, Intake!StoreRefreshed(r)
    PROVE  TakenIn'
<1> DEFINE call == calls[r]
<1>0. call.pc = "store" /\ call.nodes # <<>> /\ UNCHANGED <<nextId, file>>
      /\ calls' = [calls EXCEPT ![r] = Intake!Applying]
  BY DEF Intake!StoreRefreshed, TakenIn, Stored, IsSound
<1>1. CASE call.id \notin DOMAIN rows
  <2>1. UNCHANGED <<rows, strayed>> BY <1>1 DEF Intake!StoreRefreshed, Intake!Ids
  <2> QED BY <1>0, <2>1, RowsChange DEF TakenIn, Stored
<1>2. CASE call.id \in DOMAIN rows
  <2>1. /\ rows' = [rows EXCEPT ![call.id].sub = call.sub, ![call.id].nodes = call.nodes]
        /\ strayed' = IF rows[call.id].sub # call.sub THEN strayed \cup {call.id} ELSE strayed
    BY <1>2 DEF Intake!StoreRefreshed, Intake!Ids
  <2>2. /\ DOMAIN rows' = DOMAIN rows /\ \A i \in DOMAIN rows : i # call.id => rows'[i] = rows[i]
        /\ rows'[call.id] = [rows[call.id] EXCEPT !.sub = call.sub, !.nodes = call.nodes]
    BY <1>2, <2>1
  <2>3. rows'[call.id] = [value |-> rows[call.id].value, sub |-> call.sub, nodes |-> call.nodes,
                          order |-> rows[call.id].order]
    BY <1>2, <2>2 DEF TakenIn, Stored, IsRow
  <2>4. \A i \in DOMAIN rows' :
          /\ IsRow(rows'[i]) /\ rows'[i].nodes # <<>> /\ rows'[i].order = rows[i].order
          /\ rows'[i].value = rows[i].value
          /\ rows'[i].sub # rows[i].sub => i \in strayed'
    <3> SUFFICES ASSUME NEW i \in DOMAIN rows'
                 PROVE  /\ IsRow(rows'[i]) /\ rows'[i].nodes # <<>>
                        /\ rows'[i].order = rows[i].order /\ rows'[i].value = rows[i].value
                        /\ rows'[i].sub # rows[i].sub => i \in strayed'
      OBVIOUS
    <3>1. CASE i = call.id BY <1>0, <2>1, <2>3, <3>1 DEF IsRow
    <3>2. CASE i # call.id BY <2>2, <3>2 DEF TakenIn, Stored
    <3> QED BY <3>1, <3>2
  <2>5. \A i \in DOMAIN rows : rows[i].order \in 0 .. nextId - 2 BY DEF TakenIn, Stored
  <2>6. \A i, j \in DOMAIN rows' : rows'[i].order = rows'[j].order => i = j
    BY <2>2, <2>4 DEF TakenIn, Stored
  <2>7. strayed \subseteq strayed' BY <2>1
  <2> QED BY <1>0, <2>2, <2>4, <2>5, <2>6, <2>7, RowsChange
<1> QED BY <1>1, <1>2

\* A permutation of the rows numbers each of them, and no two alike.
LEMMA Numbered ==
    ASSUME NEW S, IsFiniteSet(S), NEW ids \in Intake!SetToSeqs(S)
    PROVE  /\ \A i \in S : (CHOOSE n \in DOMAIN ids : ids[n] = i) \in 1 .. Cardinality(S)
           /\ \A i \in S : ids[CHOOSE n \in DOMAIN ids : ids[n] = i] = i
<1> DEFINE D == 1 .. Cardinality(S)
<1>1. Cardinality(S) \in Nat /\ IsFiniteSet(D) /\ Cardinality(D) = Cardinality(S)
  BY FS_CardinalityType, FS_Interval
<1>2. ids \in [D -> S] /\ \A m, n \in D : m # n => ids[m] # ids[n]
  <2>1. Intake!SetToSeqs(S) = {f \in [D -> S] : \A m, n \in D : m # n => f[m] # f[n]}
    BY DEF Intake!SetToSeqs, Intake!Cardinality, Cardinality
  <2> HIDE DEF D
  <2> QED BY <2>1
<1>3. ids \in Injection(D, S) BY <1>2 DEF Injection, IsInjective
<1>4. ids \in Surjection(D, S) BY <1>1, <1>3, FS_Injection
<1>5. \A i \in S : \E n \in D : ids[n] = i BY <1>4 DEF Surjection
<1>6. DOMAIN ids = D BY <1>2
<1> HIDE DEF D
<1> QED BY <1>5, <1>6 DEF D

LEMMA ReorderedRows ==
    ASSUME TakenIn, NEW r \in Requests, Intake!ReorderSources(r)
    PROVE  TakenIn'
<1>1. IsFiniteSet(DOMAIN rows) /\ Cardinality(DOMAIN rows) <= nextId - 1
  <2>1. nextId - 1 \in Nat /\ DOMAIN rows \in SUBSET (1 .. nextId - 1) BY DEF TakenIn, Stored
  <2>2. IsFiniteSet(1 .. nextId - 1) /\ Cardinality(1 .. nextId - 1) = nextId - 1
    BY <2>1, FS_Interval
  <2> QED BY <2>1, <2>2, FS_Subset
<1>2. PICK ids \in Intake!SetToSeqs(DOMAIN rows) :
         rows' = [i \in DOMAIN rows |->
                    [rows[i] EXCEPT !.order = (CHOOSE n \in DOMAIN ids : ids[n] = i) - 1]]
  BY DEF Intake!ReorderSources, Intake!Ids
<1> DEFINE place(i) == CHOOSE n \in DOMAIN ids : ids[n] = i
<1>3. /\ \A i \in DOMAIN rows : place(i) \in 1 .. Cardinality(DOMAIN rows)
      /\ \A i \in DOMAIN rows : ids[place(i)] = i
  BY <1>1, Numbered
<1>4. Cardinality(DOMAIN rows) \in Nat /\ nextId \in Nat
  BY <1>1, FS_CardinalityType DEF TakenIn, Stored
<1> HIDE DEF place
<1>5. DOMAIN rows' = DOMAIN rows /\ \A i \in DOMAIN rows :
        rows'[i] = [value |-> rows[i].value, sub |-> rows[i].sub, nodes |-> rows[i].nodes,
                    order |-> place(i) - 1]
  BY <1>2 DEF TakenIn, Stored, IsRow, place
<1>6. \A i \in DOMAIN rows' :
        /\ IsRow(rows'[i]) /\ rows'[i].nodes # <<>> /\ rows'[i].order \in 0 .. nextId - 2
        /\ rows'[i].value = rows[i].value /\ rows'[i].sub = rows[i].sub
  <2>1. \A i \in DOMAIN rows : place(i) - 1 \in 0 .. nextId - 2 BY <1>1, <1>3, <1>4
  <2> QED BY <1>5, <2>1 DEF IsRow, TakenIn, Stored
<1>7. \A i, j \in DOMAIN rows' : rows'[i].order = rows'[j].order => i = j
  <2> SUFFICES ASSUME NEW i \in DOMAIN rows, NEW j \in DOMAIN rows,
                      place(i) - 1 = place(j) - 1
               PROVE  i = j
    BY <1>5
  <2>1. place(i) = place(j) BY <1>3, <1>4
  <2> QED BY <1>3, <2>1
<1> QED BY <1>5, <1>6, <1>7, RowsChange DEF Intake!ReorderSources

LEMMA IntakeStep == TakenIn /\ Intake!Next => TakenIn'
<1> SUFFICES ASSUME TakenIn, Intake!Next PROVE TakenIn' OBVIOUS
<1>1. CASE Intake!World
  BY <1>1 DEF Intake!World, TakenIn, Stored, Checked, Written, Intake!OnceEach, Intake!Ids
<1>2. ASSUME NEW r \in Requests, Intake!AddSource(r) PROVE TakenIn'
  <2>1. PICK v \in values :
           /\ \A i \in DOMAIN rows : rows[i].value # v.id
           /\ calls' = [calls EXCEPT ![r] = Intake!Ingest(v, 0)]
    BY <1>2 DEF Intake!AddSource, Intake!Ids
  <2>2. Alone(Intake!Ingest(v, 0)) => \A i \in DOMAIN rows : rows[i].value # Intake!Ingest(v, 0).of
    BY <2>1, Ingested DEF Alone
  <2> QED BY <1>2, <2>1, <2>2, Ingested, CallMoves DEF Intake!AddSource
<1>3. ASSUME NEW r \in Requests, Intake!RefreshSource(r) PROVE TakenIn'
  <2>1. PICK i \in DOMAIN rows :
           calls' = [calls EXCEPT ![r] = Intake!Ingest(Intake!Value(rows[i].value), i)]
    BY <1>3 DEF Intake!RefreshSource, Intake!Ids
  <2>2. i # 0 BY DEF TakenIn, Stored
  <2>3. PICK v : v = Intake!Value(rows[i].value) OBVIOUS
  <2>4. calls' = [calls EXCEPT ![r] = Intake!Ingest(v, i)] BY <2>1, <2>3
  <2>5. ~Alone(Intake!Ingest(v, i))
    <3> DEFINE c == Intake!Ingest(v, i)
    <3>1. c.pc # "idle" => c.id = i /\ c.of = v.id BY Ingested
    <3> HIDE DEF c
    <3>2. ~Alone(c) BY <2>2, <3>1 DEF Alone
    <3> QED BY <3>2 DEF c
  <2> QED BY <1>3, <2>4, <2>5, Ingested, CallMoves DEF Intake!RefreshSource
<1>4. ASSUME NEW r \in Requests, Intake!RemoveSource(r) PROVE TakenIn'
  <2>1. PICK i \in DOMAIN rows : rows' = [j \in DOMAIN rows \ {i} |-> rows[j]]
    BY <1>4 DEF Intake!RemoveSource, Intake!Ids
  <2>2. DOMAIN rows' \subseteq DOMAIN rows /\ \A j \in DOMAIN rows' : rows'[j] = rows[j] BY <2>1
  <2>3. \A j \in DOMAIN rows' :
          /\ IsRow(rows'[j]) /\ rows'[j].nodes # <<>> /\ rows'[j].order \in 0 .. nextId - 2
          /\ rows'[j].value = rows[j].value /\ rows'[j].sub = rows[j].sub
    BY <2>2 DEF TakenIn, Stored
  <2>4. \A j, k \in DOMAIN rows' : rows'[j].order = rows'[k].order => j = k
    BY <2>2 DEF TakenIn, Stored
  <2> QED BY <1>4, <2>2, <2>3, <2>4, RowsChange DEF Intake!RemoveSource
<1>5. ASSUME NEW r \in Requests, Intake!Decoded(r) PROVE TakenIn'
  <2>1. IsCall(calls[r]) /\ calls = [o \in Requests |-> calls[o]] /\ calls[r].pc = "decode"
    BY <1>5 DEF TakenIn, Stored, IsSound, Intake!Decoded
  <2>2. CASE calls' = [calls EXCEPT ![r] = Intake!Idle]
    <3>1. IsSound(Intake!Idle) /\ ~Alone(Intake!Idle) BY DEF Intake!Idle, IsSound, IsCall, Alone
    <3> QED BY <1>5, <2>1, <2>2, <3>1, CallMoves DEF Intake!Decoded
  <2>3. CASE calls' # [calls EXCEPT ![r] = Intake!Idle]
    <3>1. PICK url, nodes : calls' = [calls EXCEPT ![r].pc = "fetch", ![r].sub = url,
                                                   ![r].nodes = nodes]
      BY <1>5, <2>3 DEF Intake!Decoded
    <3> DEFINE c == [pc |-> "fetch", of |-> calls[r].of, id |-> calls[r].id, nodes |-> nodes,
                     sub |-> url, clash |-> calls[r].clash]
    <3>2. calls' = [calls EXCEPT ![r] = c]
      <4>1. /\ DOMAIN calls' = Requests /\ \A o \in Requests \ {r} : calls'[o] = calls[o]
            /\ calls' = [o \in Requests |-> calls'[o]]
            /\ calls'[r] = [calls[r] EXCEPT !.pc = "fetch", !.sub = url, !.nodes = nodes]
        BY <2>1, <3>1
      <4>2. calls'[r] = c BY <2>1, <4>1 DEF IsCall
      <4> HIDE DEF c
      <4> QED BY <2>1, <4>1, <4>2
    <3>3. IsSound(c) /\ (Alone(c) => Alone(calls[r]) /\ c.of = calls[r].of)
      BY <2>1 DEF IsSound, IsCall, Alone
    <3> HIDE DEF c
    <3> QED BY <1>5, <2>1, <3>2, <3>3, CallMoves DEF Intake!Decoded, TakenIn, Checked
  <2> QED BY <2>2, <2>3
<1>6. ASSUME NEW r \in Requests, Intake!Fetched(r) PROVE TakenIn'
  <2>1. PICK fetched : calls' = [calls EXCEPT ![r] = Intake!Taken(calls[r], fetched)]
    BY <1>6 DEF Intake!Fetched
  <2> DEFINE c == Intake!Taken(calls[r], fetched)
  <2>2. IsCall(calls[r]) /\ calls[r].pc = "fetch"
    BY <1>6 DEF TakenIn, Stored, IsSound, Intake!Fetched
  <2>3. IsSound(c) /\ (Alone(c) => Alone(calls[r]) /\ c.of = calls[r].of)
    BY <2>2, TakenNodes DEF Alone
  <2> HIDE DEF c
  <2> QED BY <1>6, <2>1, <2>2, <2>3, CallMoves DEF Intake!Fetched, TakenIn, Checked, c
<1>7. ASSUME NEW r \in Requests, Intake!Apply(r) PROVE TakenIn'
  <2>1. /\ calls' = [calls EXCEPT ![r] = Intake!Idle] /\ UNCHANGED <<rows, nextId, strayed>>
        /\ file' \in {Intake!Collected(rows), None}
    BY <1>7 DEF Intake!Apply
  <2>2. IsSound(Intake!Idle) /\ ~Alone(Intake!Idle) BY DEF Intake!Idle, IsSound, IsCall, Alone
  <2>3. /\ calls'[r] = Intake!Idle /\ \A o \in Requests \ {r} : calls'[o] = calls[o]
        /\ DOMAIN calls' = Requests /\ calls' = [o \in Requests |-> calls'[o]]
    BY <2>1 DEF TakenIn, Stored
  <2>4. Stored' BY <2>1, <2>2, <2>3 DEF TakenIn, Stored
  <2>5. Checked' BY <2>1, <2>2, <2>3 DEF TakenIn, Checked
  <2>6. Intake!OnceEach' BY <2>1 DEF TakenIn, Intake!OnceEach, Intake!Ids
  <2>7. Written' BY <2>1 DEF Written
  <2> QED BY <2>4, <2>5, <2>6, <2>7 DEF TakenIn
<1> QED BY <1>1, <1>2, <1>3, <1>4, <1>5, <1>6, <1>7, NewRow, RefreshedRow, ReorderedRows
        DEF Intake!Next

LEMMA IntakeKept == TakenIn => Intake!OnceEach /\ Intake!KeepsNodes
<1> SUFFICES ASSUME TakenIn PROVE Intake!KeepsNodes BY DEF TakenIn
<1>1. (\A r \in Requests : calls[r].pc = "idle") => \A r \in Requests : calls[r].pc # "apply"
  OBVIOUS
<1> QED BY <1>1 DEF TakenIn, Stored, Written, Intake!KeepsNodes, Intake!Ids

-----------------------------------------------------------------------------
(* The diagnosis: what a run has read is still so when it answers, unless an *)
(* apply came between, which shows in the revision.                          *)

LeafOf(e, name) == Diagnosis!ResolveActiveLeaf(e.members, name)
IsRun(r) == r = [pc |-> r.pc, before |-> r.before, known |-> r.known, list |-> r.list,
                 members |-> r.members, inventory |-> r.inventory, target |-> r.target,
                 result |-> r.result]
IsAnswer(c) == c = [result |-> c.result, revision |-> c.revision, known |-> c.known]
IsResult(x) == x = [state |-> x.state, claim |-> x.claim, fallback |-> x.fallback]

\* The groups are the names of all channels and two more; without nodes they are direct.
Grouped ==
    /\ engine = [config |-> engine.config, inventory |-> engine.inventory, mode |-> engine.mode,
                 members |-> engine.members]
    /\ engine.config \in Routings /\ saved \in Routings
    /\ IsFiniteSet(DOMAIN engine.members) /\ "G" \in DOMAIN engine.members
    /\ "DIRECT" \notin DOMAIN engine.members
    /\ \A config \in Routings : Diagnosis!Names(config) \subseteq DOMAIN engine.members
    /\ ~engine.inventory => \A g \in DOMAIN engine.members : engine.members[g] = "DIRECT"

Counted ==
    /\ apply = [revision |-> apply.revision, pc |-> apply.pc, queued |-> apply.queued]
    /\ apply.revision \in Nat
    /\ run # None => IsRun(run) /\ run.before.revision \in Nat
                                /\ run.before.revision <= apply.revision
    /\ cache # None => IsAnswer(cache) /\ cache.revision \in Nat
                                       /\ cache.revision <= apply.revision

\* A result that holds of the engine as it is.
Passed(e, claim) ==
    claim.node = "DIRECT" /\ claim.route \in Diagnosis!Names(e.config)
                         /\ claim.route # Diagnosis!Carrier(e)
Tells(e, said) ==
    /\ said.claim.node \in {None, Diagnosis!Leaf(e)} \/ Passed(e, said.claim)
    /\ said.fallback \in {None, LeafOf(e, Diagnosis!Target(e))}
Confirmed(said) == IsResult(said) /\ (said.state = "ready" => said.fallback # None)

Untouched(a, revision) == a.pc = "idle" /\ revision = a.revision
RunKept ==
    run # None =>
       /\ run.pc = "done" => Confirmed(run.result)
       /\ run.known /\ ~run.before.inProgress /\ Untouched(apply, run.before.revision) =>
            /\ run.pc \in {"rules", "jobs"} =>
                 run.list = engine.config /\ run.members = engine.members
                                          /\ run.inventory = engine.inventory
            /\ run.pc = "jobs" => run.target \in {None, Diagnosis!Target(engine)}
            /\ run.pc = "done" => Tells(engine, run.result)
CacheKept ==
    cache # None =>
       /\ Confirmed(cache.result)
       /\ cache.known /\ Untouched(apply, cache.revision) => Tells(engine, cache.result)

Diagnosed == Grouped /\ Counted /\ RunKept /\ CacheKept /\ Diagnosis!DiagnosticsTrue

\* Without nodes every name that leads anywhere leads out directly.
LEMMA DirectLeaf ==
    ASSUME NEW members, IsFiniteSet(DOMAIN members), "G" \in DOMAIN members,
           "DIRECT" \notin DOMAIN members, \A g \in DOMAIN members : members[g] = "DIRECT",
           NEW name \in DOMAIN members \cup {"DIRECT"}
    PROVE  Diagnosis!ResolveActiveLeaf(members, name) = "DIRECT"
<1> DEFINE N == Diagnosis!Cardinality(DOMAIN members)
           Go(f) == [k \in 0..N |->
                        IF k = 0 THEN name
                        ELSE IF f[k - 1] \in DOMAIN members THEN members[f[k - 1]] ELSE f[k - 1]]
           w == [k \in 0..N |-> IF k = 0 THEN name ELSE "DIRECT"]
           after == CHOOSE f : f = Go(f)
<1>1. N \in Nat /\ N # 0
  <2>1. N = Cardinality(DOMAIN members) BY Zenon DEF Diagnosis!Cardinality, Cardinality
  <2> QED BY <2>1, FS_CardinalityType, FS_EmptySet
<1> HIDE DEF N
<1>2. w = Go(w)
  <2>1. ASSUME NEW k \in 0..N PROVE w[k] = Go(w)[k]
    <3>1. CASE k = 0 BY <3>1
    <3>2. CASE k # 0
      <4>1. k - 1 \in 0..N BY <3>2, <1>1
      <4>2. w[k - 1] \in DOMAIN members \cup {"DIRECT"} BY <4>1
      <4>3. Go(w)[k] = "DIRECT" BY <3>2, <4>2
      <4> QED BY <3>2, <4>3
    <3> QED BY <3>1, <3>2
  <2> QED BY <2>1
<1>3. after = Go(after) BY <1>2
<1> HIDE DEF after
<1>4. ASSUME NEW k \in 0..N PROVE after[k] = IF k = 0 THEN name ELSE
                IF after[k - 1] \in DOMAIN members THEN members[after[k - 1]] ELSE after[k - 1]
  BY <1>3
<1> HIDE DEF Go
<1>5. \A k \in 1..N : after[k] = "DIRECT"
  <2> DEFINE T == {k \in 1..N : after[k] # "DIRECT"}
  <2> SUFFICES ASSUME T # {} PROVE FALSE OBVIOUS
  <2>1. T \in SUBSET Nat OBVIOUS
  <2>2. PICK k \in T : \A y \in T : k <= y
    <3> HIDE DEF T
    <3> QED BY <2>1, Least
  <2>3. k \in 0..N /\ k # 0 /\ k - 1 \in 0..N BY <1>1
  <2>4. after[k - 1] \in DOMAIN members \cup {"DIRECT"}
    <3>1. CASE k = 1
      <4>1. after[0] = name BY <1>1, <1>4
      <4> QED BY <3>1, <4>1
    <3>2. CASE k # 1
      <4>1. k - 1 \in 1..N /\ k - 1 \notin T BY <2>2, <2>3, <3>2
      <4> QED BY <4>1
    <3> QED BY <3>1, <3>2
  <2>5. after[k] = "DIRECT" BY <1>4, <2>3, <2>4
  <2> QED BY <2>5
<1>6. after[N] = "DIRECT" BY <1>1, <1>5
<1>7. Diagnosis!ResolveActiveLeaf(members, name) =
        IF after[N] \in DOMAIN members THEN None ELSE after[N]
  <2> DEFINE turn[k \in 0..N] ==
                 IF k = 0 THEN name
                 ELSE IF turn[k - 1] \in DOMAIN members THEN members[turn[k - 1]] ELSE turn[k - 1]
  <2>2. Diagnosis!ResolveActiveLeaf(members, name) =
          IF turn[N] \in DOMAIN members THEN None ELSE turn[N]
    BY Zenon DEF Diagnosis!ResolveActiveLeaf, N
  <2>3. turn = after
    BY DEF after, Go
  <2> QED BY <2>2, <2>3
<1> QED BY <1>6, <1>7

\* The first channel in the order of priority that claims the traffic.
Claims(n) ==
    LET chan == engine.config.channels[n] IN chan.certain \/ chan.lists = "hit"
First(n) ==
    /\ n \in DOMAIN engine.config.channels /\ Claims(n)
    /\ \A m \in DOMAIN engine.config.channels : Claims(m) => n <= m

LEMMA Channels ==
    ASSUME Grouped
    PROVE  LET chans == engine.config.channels IN
           /\ Len(chans) \in Nat /\ DOMAIN chans = 1..Len(chans)
           /\ \A m, n \in DOMAIN chans : chans[m].name = chans[n].name => m = n
           /\ \A n \in DOMAIN chans :
                /\ chans[n].name \notin {"G", "DIRECT"} /\ chans[n].target \in {"proxy", "direct"}
                /\ chans[n].name \in Diagnosis!Names(engine.config)
                /\ chans[n].name \in DOMAIN engine.members
<1> DEFINE chans == engine.config.channels
           S == {chans[n] : n \in DOMAIN chans}
<1>1. chans \in Seq(S) BY RoutingsAssumption DEF Grouped
<1>2. \A n \in DOMAIN chans : chans[n].name \in Diagnosis!Names(engine.config)
  BY DEF Diagnosis!Names
<1>3. Len(chans) \in Nat /\ DOMAIN chans = 1..Len(chans)
  <2> HIDE DEF S
  <2> QED BY <1>1
<1> QED BY <1>2, <1>3, RoutingsAssumption DEF Grouped

\* The claim the page makes.
LEMMA Attributed ==
    ASSUME Grouped, NEW target
    PROVE  LET claim == Diagnosis!ExternalRouteAttribution(engine.config, engine.members, target)
               chans == engine.config.channels
           IN  \/ claim.node = None
               \/ /\ target # None /\ engine.config.first = "none"
                  /\ \A n \in DOMAIN chans : ~Claims(n)
                  /\ claim.node = LeafOf(engine, target)
               \/ /\ target # None /\ engine.config.first = "none"
                  /\ \E n \in DOMAIN chans :
                       /\ First(n) /\ claim.route = chans[n].name
                       /\ claim.node = IF chans[n].target = "direct" THEN "DIRECT"
                                       ELSE LeafOf(engine, chans[n].name)
<1> DEFINE claim == Diagnosis!ExternalRouteAttribution(engine.config, engine.members, target)
           chans == engine.config.channels
           Sure(k) == \A m \in 1..(k - 1) : chans[m].lists = "none"
           hits == {n \in DOMAIN chans : chans[n].certain}
           n == CHOOSE h \in hits : \A k \in hits : h <= k
           hit == chans[n]
<1>1. claim = IF target = None \/ engine.config.first # "none" THEN Diagnosis!Unconfirmed
              ELSE IF hits # {}
                   THEN IF ~Sure(n) THEN Diagnosis!Unconfirmed
                        ELSE [route |-> hit.name,
                              node  |-> IF hit.target = "direct" THEN "DIRECT" ELSE LeafOf(engine, hit.name)]
                   ELSE IF ~Sure(Len(chans) + 1) THEN Diagnosis!Unconfirmed
                        ELSE [route |-> "G", node |-> LeafOf(engine, target)]
  BY Zenon DEF Diagnosis!ExternalRouteAttribution, LeafOf
<1>2. Diagnosis!Unconfirmed.node = None BY DEF Diagnosis!Unconfirmed
<1>3. hits # {} => n \in hits /\ \A k \in hits : n <= k
  <2>1. hits \in SUBSET Nat BY Channels
  <2> HIDE DEF hits
  <2>2. hits # {} => \E h \in hits : \A k \in hits : h <= k BY <2>1, Least
  <2> QED BY <2>2
<1> HIDE DEF n, claim
<1>4. CASE target = None \/ engine.config.first # "none" 
  <2>1. claim.node = None BY <1>1, <1>2, <1>4
  <2> QED BY <2>1 DEF claim
<1>5. CASE target # None /\ engine.config.first = "none" /\ hits # {}
  <2>1. CASE ~Sure(n) 
    <3>1. claim.node = None BY <1>1, <1>2, <1>5, <2>1
    <3> QED BY <3>1 DEF claim
  <2>2. CASE Sure(n)
    <3>1. claim.route = hit.name
          /\ claim.node = IF hit.target = "direct" THEN "DIRECT" ELSE LeafOf(engine, hit.name)
      BY <1>1, <1>5, <2>2
    <3>2. First(n)
      <4>1. n \in DOMAIN chans /\ Claims(n) BY <1>3, <1>5 DEF Claims
      <4>2. ASSUME NEW m \in DOMAIN chans, Claims(m), ~(n <= m) PROVE FALSE
        <5>1. m \in 1..(n - 1) BY <4>1, <4>2, Channels
        <5>2. m \notin hits BY <1>3, <1>5, <4>2
        <5> QED BY <2>2, <4>2, <5>1, <5>2 DEF Claims
      <4> QED BY <4>1, <4>2 DEF First
    <3> QED BY <1>5, <3>1, <3>2 DEF First, claim
  <2> QED BY <2>1, <2>2
<1>6. CASE target # None /\ engine.config.first = "none" /\ hits = {}
  <2>1. CASE ~Sure(Len(chans) + 1) 
    <3>1. claim.node = None BY <1>1, <1>2, <1>6, <2>1
    <3> QED BY <3>1 DEF claim
  <2>2. CASE Sure(Len(chans) + 1)
    <3>1. claim.node = LeafOf(engine, target) BY <1>1, <1>6, <2>2
    <3>2. ASSUME NEW m \in DOMAIN chans PROVE ~Claims(m)
      <4>1. m \in 1..(Len(chans) + 1 - 1) BY Channels
      <4> QED BY <1>6, <2>2, <4>1 DEF Claims
    <3> QED BY <1>6, <3>1, <3>2 DEF claim
  <2> QED BY <2>1, <2>2
<1> QED BY <1>4, <1>5, <1>6 DEF claim

\* What carries the traffic: the first claim, or a proxy channel where a direct one is first.
LEMMA Carried ==
    ASSUME Grouped
    PROVE  LET chans == engine.config.channels
               carrier == Diagnosis!Carrier(engine)
           IN  /\ ~engine.inventory /\ ~engine.config.direct => carrier = "G"
               /\ (\A n \in DOMAIN chans : ~Claims(n)) => carrier = "G"
               /\ \A n \in DOMAIN chans :
                    (engine.inventory \/ engine.config.direct) /\ engine.config.first # "hit" /\ First(n) =>
                       \/ carrier = chans[n].name
                       \/ chans[n].target = "direct" /\ carrier # chans[n].name
<1> DEFINE chans == engine.config.channels
           carrier == Diagnosis!Carrier(engine)
           claims(ns) == {n \in ns : chans[n].certain \/ chans[n].lists = "hit"}
           proxies == claims(Diagnosis!ProxyOf(engine.config))
           hits == IF proxies # {} THEN proxies ELSE claims(Diagnosis!DirectOf(engine.config))
           best == CHOOSE n \in hits : \A m \in hits : n <= m
<1>1. carrier = IF (engine.inventory \/ engine.config.direct) /\ engine.config.first # "hit" /\ hits # {}
                THEN chans[best].name ELSE "G"
  BY Zenon DEF Diagnosis!Carrier
<1>2. \A n : n \in proxies <=> n \in DOMAIN chans /\ chans[n].target = "proxy" /\ Claims(n)
  BY DEF Diagnosis!ProxyOf, Claims
<1>3. \A n : n \in claims(Diagnosis!DirectOf(engine.config)) <=>
             n \in DOMAIN chans /\ chans[n].target = "direct" /\ Claims(n)
  BY DEF Diagnosis!DirectOf, Claims
<1> HIDE DEF proxies, claims
<1>4. hits \subseteq DOMAIN chans /\ \A n \in hits : Claims(n) BY <1>2, <1>3
<1>5. (\A n \in DOMAIN chans : ~Claims(n)) => hits = {} BY <1>4
<1>6. ASSUME NEW n \in DOMAIN chans, First(n),
             engine.inventory \/ engine.config.direct, engine.config.first # "hit"
      PROVE  carrier = chans[n].name \/ (chans[n].target = "direct" /\ carrier # chans[n].name)
  <2>1. Claims(n) /\ \A m \in hits : n <= m BY <1>4, <1>6 DEF First
  <2>2. \A m \in hits : m \in Nat BY <1>4, Channels
  <2>3. n \in Nat BY Channels
  <2>4. CASE n \in hits
    <3>1. best \in hits /\ \A m \in hits : best <= m
      <4> HIDE DEF hits
      <4> QED BY <2>1, <2>4
    <3>2. best = n
      <4> HIDE DEF best, hits
      <4> QED BY <2>1, <2>2, <2>3, <2>4, <3>1
    <3> QED BY <1>1, <1>6, <2>4, <3>2
  <2>5. CASE n \notin hits
    <3>1. proxies # {} /\ chans[n].target = "direct"
      BY <1>2, <1>3, <2>1, <2>5, Channels
    <3>2. hits # {} BY <3>1
    <3>3. best \in hits
      <4>1. hits \in SUBSET Nat BY <2>2
      <4>2. \E m \in hits : \A k \in hits : m <= k
        <5> HIDE DEF hits
        <5> QED BY <3>2, <4>1, Least
      <4> HIDE DEF hits
      <4> QED BY <4>2
    <3>4. best \in DOMAIN chans /\ best # n
      <4> HIDE DEF best, hits
      <4> QED BY <1>4, <2>5, <3>3
    <3>5. chans[best].name # chans[n].name
      <4> HIDE DEF best, hits
      <4> QED BY <3>4, Channels
    <3>6. carrier = chans[best].name BY <1>1, <1>6, <3>2
    <3> QED BY <3>1, <3>5, <3>6
  <2> QED BY <2>4, <2>5
<1> HIDE DEF hits, best
<1>7. ~engine.inventory /\ ~engine.config.direct => carrier = "G" BY <1>1
<1>8. (\A n \in DOMAIN chans : ~Claims(n)) => carrier = "G" BY <1>1, <1>5
<1> QED BY <1>6, <1>7, <1>8 DEF carrier

\* The node of the claim is the one the traffic leaves by, unless a proxy channel takes it
\* before the direct one the page names.
LEMMA ClaimTells ==
    ASSUME Grouped, engine.mode = "rule", NEW target \in {None, Diagnosis!Target(engine)},
           engine.inventory \/ target = "DIRECT"
    PROVE  LET claim == Diagnosis!ExternalRouteAttribution(engine.config, engine.members, target)
           IN  claim.node \in {None, Diagnosis!Leaf(engine)} \/ Passed(engine, claim)
<1> DEFINE claim == Diagnosis!ExternalRouteAttribution(engine.config, engine.members, target)
           chans == engine.config.channels
           carrier == Diagnosis!Carrier(engine)
<1>1. Diagnosis!Leaf(engine) =
         IF carrier = "G"
         THEN LeafOf(engine, IF engine.config.first = "hit" THEN "G" ELSE Diagnosis!Target(engine))
         ELSE IF \E n \in Diagnosis!DirectOf(engine.config) : chans[n].name = carrier
              THEN "DIRECT" ELSE LeafOf(engine, carrier)
  BY Zenon DEF Diagnosis!Leaf, LeafOf
<1> HIDE DEF claim, carrier
<1>2. CASE claim.node = None BY <1>2 DEF claim
<1>3. CASE target # None /\ engine.config.first = "none" /\ claim.node = LeafOf(engine, target)
           /\ \A n \in DOMAIN chans : ~Claims(n)
  <2>1. carrier = "G" BY <1>3, Carried DEF carrier
  <2> QED BY <1>1, <1>3, <2>1 DEF claim
<1>4. ASSUME target # None, engine.config.first = "none",
             NEW n \in DOMAIN chans, First(n), claim.route = chans[n].name,
             claim.node = IF chans[n].target = "direct" THEN "DIRECT" ELSE LeafOf(engine, chans[n].name)
      PROVE  claim.node = Diagnosis!Leaf(engine) \/ Passed(engine, claim)
  <2>1. target = Diagnosis!Target(engine) BY <1>4
  <2>2. chans[n].name \in DOMAIN engine.members /\ chans[n].name # "G"
        /\ chans[n].name \in Diagnosis!Names(engine.config)
        /\ chans[n].target \in {"proxy", "direct"}
    BY Channels
  <2>3. CASE ~engine.inventory /\ ~engine.config.direct
    <3>1. carrier = "G" /\ Diagnosis!Target(engine) = "DIRECT"
      BY <2>3, Carried DEF carrier, Diagnosis!Target
    <3>2. \A name \in DOMAIN engine.members \cup {"DIRECT"} : LeafOf(engine, name) = "DIRECT"
      BY <2>3, DirectLeaf DEF Grouped, LeafOf
    <3>3. Diagnosis!Leaf(engine) = "DIRECT" BY <1>1, <1>4, <3>1, <3>2
    <3>4. claim.node = "DIRECT" BY <1>4, <2>2, <3>2
    <3> QED BY <3>3, <3>4
  <2>4. CASE engine.inventory \/ engine.config.direct
    <3>1. carrier = chans[n].name \/ (chans[n].target = "direct" /\ carrier # chans[n].name)
      <4>1. engine.config.first # "hit" BY <1>4
      <4> QED BY <1>4, <2>4, <4>1, Carried DEF carrier
    <3>2. CASE carrier = chans[n].name
      <4>1. (\E m \in Diagnosis!DirectOf(engine.config) : chans[m].name = carrier) <=>
               chans[n].target = "direct"
        BY <3>2, <1>4, Channels DEF Diagnosis!DirectOf
      <4> QED BY <1>1, <1>4, <2>2, <3>2, <4>1
    <3>3. CASE chans[n].target = "direct" /\ carrier # chans[n].name
      BY <1>4, <2>2, <3>3 DEF Passed, carrier
    <3> QED BY <3>1, <3>2, <3>3
  <2> QED BY <2>3, <2>4
<1>5. \/ claim.node = None
      \/ target # None /\ engine.config.first = "none" /\ claim.node = LeafOf(engine, target)
           /\ \A n \in DOMAIN chans : ~Claims(n)
      \/ /\ target # None /\ engine.config.first = "none"
         /\ \E n \in DOMAIN chans :
               /\ First(n) /\ claim.route = chans[n].name
               /\ claim.node = IF chans[n].target = "direct" THEN "DIRECT"
                               ELSE LeafOf(engine, chans[n].name)
  BY Attributed DEF claim
<1> QED BY <1>2, <1>3, <1>4, <1>5 DEF claim

LEMMA GroupedKept == ASSUME Grouped, Diagnosis!Next PROVE Grouped'
<1>1. CASE Diagnosis!Save BY <1>1 DEF Diagnosis!Save, Grouped
<1>2. CASE Diagnosis!Load BY <1>2 DEF Diagnosis!Load, Grouped
<1>3. CASE Diagnosis!Switch
  <2>1. PICK node \in Nodes : engine' = [engine EXCEPT !.members["AUTO"] = node]
    BY <1>3 DEF Diagnosis!Switch
  <2>2. /\ engine' = [config |-> engine.config, inventory |-> engine.inventory,
                      mode |-> engine.mode, members |-> engine'.members]
        /\ DOMAIN engine'.members = DOMAIN engine.members
    BY <2>1 DEF Grouped
  <2>3. engine.inventory /\ saved' = saved BY <1>3 DEF Diagnosis!Switch
  <2>4. engine'.config = engine.config /\ engine'.inventory = engine.inventory
        /\ engine'.mode = engine.mode
    BY <2>2
  <2> QED BY <2>2, <2>3, <2>4 DEF Grouped
<1>4. CASE engine' = engine /\ saved' = saved BY <1>4 DEF Grouped
<1> QED
  BY <1>1, <1>2, <1>3, <1>4
  DEF Diagnosis!Next, Diagnosis!Applied, Diagnosis!View, Diagnosis!Rules, Diagnosis!Jobs,
      Diagnosis!Finish, Diagnosis!Expire, Diagnosis!Ask

\* An apply that begins, goes on or ends touches whatever was begun before it.
LEMMA Touching ==
    ASSUME Counted, Diagnosis!Save \/ Diagnosis!Load \/ Diagnosis!Applied,
           NEW revision \in Nat, revision <= apply.revision
    PROVE  ~Untouched(apply', revision)
<1>1. CASE Diagnosis!Save BY <1>1 DEF Diagnosis!Save, Diagnosis!Begun, Counted, Untouched
<1>2. CASE Diagnosis!Load BY <1>2 DEF Diagnosis!Load, Counted, Untouched
<1>3. CASE Diagnosis!Applied
  BY <1>3 DEF Diagnosis!Applied, Diagnosis!Begun, Counted, Untouched
<1> QED BY <1>1, <1>2, <1>3

LEMMA JobsTell ==
    ASSUME Grouped, Counted, RunKept, Diagnosis!Jobs
    PROVE  RunKept' /\ IsRun(run') /\ run'.before = run.before
<1>1. PICK external \in {"ok", "failed"}, read \in BOOLEAN, others \in BOOLEAN,
           through \in {{"ok"}, {"failed"}, {"ok", "failed"}} :
        LET direct == run.target = "DIRECT"
            traced == run.inventory \/ direct
            o == [up |-> TRUE, external |-> IF traced THEN external ELSE "skipped",
                  through |-> through \cup {"skipped" : n \in {m \in Diagnosis!Rows(run) :
                                                               Diagnosis!Skipped(run, m)}},
                  others |-> {IF read THEN "ok" ELSE "failed", IF others THEN "ok" ELSE "failed"}]
            said == [state |-> Diagnosis!DerivedState(o, run.inventory, direct),
                     claim |-> IF o.external = "ok"
                               THEN Diagnosis!ExternalRouteAttribution(run.list, run.members, run.target)
                               ELSE Diagnosis!Unconfirmed,
                     fallback |-> Diagnosis!RowNode(run, "G")]
        IN  run' = [Diagnosis!Done(IF read /\ engine.mode # "rule" THEN Diagnosis!Withdrawn(said)
                                   ELSE said)
                      EXCEPT !.known = @ /\ (engine.mode = "rule" \/ read)]
  BY DEF Diagnosis!Jobs
<1> DEFINE direct == run.target = "DIRECT"
           traced == run.inventory \/ direct
           o == [up |-> TRUE, external |-> IF traced THEN external ELSE "skipped",
                 through |-> through \cup {"skipped" : n \in {m \in Diagnosis!Rows(run) :
                                                              Diagnosis!Skipped(run, m)}},
                 others |-> {IF read THEN "ok" ELSE "failed", IF others THEN "ok" ELSE "failed"}]
           claim == IF o.external = "ok"
                    THEN Diagnosis!ExternalRouteAttribution(run.list, run.members, run.target)
                    ELSE Diagnosis!Unconfirmed
           said == [state |-> Diagnosis!DerivedState(o, run.inventory, direct),
                    claim |-> claim, fallback |-> Diagnosis!RowNode(run, "G")]
           given == IF read /\ engine.mode # "rule" THEN Diagnosis!Withdrawn(said) ELSE said
<1>2. run' = [Diagnosis!Done(given) EXCEPT !.known = @ /\ (engine.mode = "rule" \/ read)]
  BY <1>1
<1> HIDE DEF given, said
<1>3. /\ run'.result = given /\ run'.before = run.before /\ run'.pc = "done"
      /\ run'.known = (run.known /\ (engine.mode = "rule" \/ read))
  BY <1>2 DEF Diagnosis!Done, Diagnosis!Blank
<1>4. said.state = "ready" => said.fallback # None
  <2> SUFFICES ASSUME said.fallback = None PROVE said.state # "ready" OBVIOUS
  <2>1. Diagnosis!RowNode(run, "G") = None BY DEF said
  <2>2. "G" \in Diagnosis!Rows(run) /\ Diagnosis!Skipped(run, "G")
    BY <2>1 DEF Diagnosis!Rows, Diagnosis!Skipped
  <2>3. "skipped" \in o.through BY <2>2
  <2>4. Diagnosis!Required(o) # {"ok"} BY <2>3 DEF Diagnosis!Required
  <2> HIDE DEF o
  <2>5. Diagnosis!DerivedState(o, run.inventory, direct) # "ready"
    BY <2>4 DEF Diagnosis!DerivedState
  <2> QED BY <2>5 DEF said
<1>5. Confirmed(given)
  <2>1. IsResult(said) BY DEF said, IsResult
  <2>2. CASE read /\ engine.mode # "rule"
    BY <2>1, <2>2 DEF given, Diagnosis!Withdrawn, Confirmed, IsResult
  <2>3. CASE ~(read /\ engine.mode # "rule")
    BY <1>4, <2>1, <2>3 DEF given, Confirmed
  <2> QED BY <2>2, <2>3
<1>6. ASSUME run.known, engine.mode = "rule" \/ read, ~run.before.inProgress,
             Untouched(apply, run.before.revision)
      PROVE  Tells(engine, given)
  <2>1. /\ run.list = engine.config /\ run.members = engine.members
        /\ run.inventory = engine.inventory
        /\ run.target \in {None, Diagnosis!Target(engine)}
    BY <1>6 DEF RunKept, Diagnosis!Jobs
  <2>2. CASE read /\ engine.mode # "rule"
    <3>1. given.claim.node = None /\ given.fallback = None
      BY <2>2 DEF given, said, Diagnosis!Withdrawn, Diagnosis!Unconfirmed
    <3> QED BY <3>1 DEF Tells
  <2>3. CASE ~(read /\ engine.mode # "rule")
    <3>1. given = said /\ engine.mode = "rule" BY <1>6, <2>3 DEF given
    <3>2. said.fallback \in {None, LeafOf(engine, Diagnosis!Target(engine))}
      BY <2>1 DEF said, Diagnosis!RowNode, LeafOf
    <3>3. claim.node \in {None, Diagnosis!Leaf(engine)} \/ Passed(engine, claim)
      <4>1. CASE o.external = "ok"
        <5>1. engine.inventory \/ run.target = "DIRECT" BY <2>1, <4>1
        <5> QED BY <2>1, <3>1, <4>1, <5>1, ClaimTells
      <4>2. CASE o.external # "ok" BY <4>2 DEF Diagnosis!Unconfirmed
      <4> QED BY <4>1, <4>2
    <3>4. said.claim = claim BY DEF said
    <3> QED BY <3>1, <3>2, <3>3, <3>4 DEF Tells
  <2> QED BY <2>2, <2>3
<1>7. UNCHANGED <<engine, apply>> BY DEF Diagnosis!Jobs
<1>8. ASSUME run'.known, ~run.before.inProgress, Untouched(apply', run.before.revision)
      PROVE  Tells(engine', given)
  <2>1. Untouched(apply, run.before.revision)
    BY <1>3, <1>7, <1>8 DEF Untouched
  <2>2. Tells(engine, given) BY <1>3, <1>6, <1>8, <2>1
  <2> QED BY <1>7, <2>2
<1>9. IsRun(run') BY <1>2 DEF Diagnosis!Done, Diagnosis!Blank, IsRun
<1>10. run'.result = given /\ Confirmed(given) /\ run'.pc = "done" BY <1>3, <1>5
<1> HIDE DEF given
<1> QED BY <1>3, <1>8, <1>9, <1>10 DEF RunKept

LEMMA CountedKept == ASSUME Grouped, Counted, RunKept, Diagnosis!Next PROVE Counted'
<1> DEFINE Later == /\ apply' = [revision |-> apply'.revision, pc |-> apply'.pc,
                                queued |-> apply'.queued]
                    /\ apply'.revision \in Nat /\ apply.revision <= apply'.revision
<1>1. Later /\ UNCHANGED <<run, cache>> => Counted'
  BY DEF Counted, IsRun, IsAnswer
<1>2. CASE Diagnosis!Save
  <2>1. CASE apply.pc = "idle" BY <1>1, <1>2, <2>1 DEF Diagnosis!Save, Diagnosis!Begun, Counted
  <2>2. CASE apply.pc # "idle" BY <1>1, <1>2, <2>2 DEF Diagnosis!Save, Counted
  <2> QED BY <2>1, <2>2
<1>3. CASE Diagnosis!Applied \/ Diagnosis!Load
  <2>1. CASE Diagnosis!Load BY <1>1, <2>1 DEF Diagnosis!Load, Counted
  <2>2. CASE Diagnosis!Applied /\ apply.queued
    BY <1>1, <2>2 DEF Diagnosis!Applied, Diagnosis!Begun, Counted
  <2>3. CASE Diagnosis!Applied /\ ~apply.queued
    <3>1. apply' = [revision |-> apply.revision + 1, pc |-> "idle", queued |-> apply.queued]
      BY <2>3 DEF Diagnosis!Applied, Counted
    <3>2. /\ apply'.revision = apply.revision + 1 /\ apply'.pc = "idle"
          /\ apply'.queued = apply.queued
      BY <3>1
    <3>3. apply.revision \in Nat BY DEF Counted
    <3>4. Later BY <3>1, <3>2, <3>3
    <3>5. UNCHANGED <<run, cache>> BY <2>3 DEF Diagnosis!Applied
    <3> QED BY <1>1, <3>4, <3>5
  <2> QED BY <1>3, <2>1, <2>2, <2>3
<1>4. CASE Diagnosis!Switch
  BY <1>4 DEF Diagnosis!Switch, Diagnosis!Moved, Counted, IsRun, IsAnswer
<1>5. CASE Diagnosis!View
  <2>1. UNCHANGED <<apply, cache>> /\ run # None BY <1>5 DEF Diagnosis!View
  <2>2. IsRun(run') /\ run'.before = run.before
    BY <1>5 DEF Diagnosis!View, Diagnosis!Done, Diagnosis!Blank, Counted, IsRun
  <2> QED BY <2>1, <2>2 DEF Counted, IsAnswer
<1>6. CASE Diagnosis!Rules
  <2>1. UNCHANGED <<apply, cache>> /\ run # None BY <1>6 DEF Diagnosis!Rules
  <2>2. IsRun(run') /\ run'.before = run.before
    BY <1>6 DEF Diagnosis!Rules, Counted, IsRun
  <2> QED BY <2>1, <2>2 DEF Counted, IsAnswer
<1>7. CASE Diagnosis!Jobs
  <2>1. UNCHANGED <<apply, cache>> /\ run # None BY <1>7 DEF Diagnosis!Jobs
  <2>2. IsRun(run') /\ run'.before = run.before BY <1>7, JobsTell
  <2> QED BY <2>1, <2>2 DEF Counted, IsAnswer
<1>8. CASE Diagnosis!Finish
  BY <1>8 DEF Diagnosis!Finish, Counted, IsAnswer
<1>9. CASE Diagnosis!Expire BY <1>9 DEF Diagnosis!Expire, Counted, IsRun
<1>10. ASSUME NEW forced \in BOOLEAN, Diagnosis!Ask(forced) PROVE Counted'
  <2>1. UNCHANGED <<apply, cache>>
    BY <1>10 DEF Diagnosis!Ask, Diagnosis!Start
  <2>2. run' = run \/ (IsRun(run') /\ run'.before.revision = apply.revision)
    <3>1. run' = run \/ Diagnosis!Start BY <1>10 DEF Diagnosis!Ask
    <3>2. CASE Diagnosis!Start
      BY <3>2 DEF Diagnosis!Start, Diagnosis!Blank, Diagnosis!ApplyState, IsRun
    <3> QED BY <3>1, <3>2
  <2> QED BY <2>1, <2>2 DEF Counted, IsAnswer
<1> QED
  BY <1>2, <1>3, <1>4, <1>5, <1>6, <1>7, <1>8, <1>9, <1>10 DEF Diagnosis!Next

LEMMA RunStep == ASSUME Grouped, Counted, RunKept, Diagnosis!Next PROVE RunKept'
<1>1. CASE Diagnosis!Save \/ Diagnosis!Load \/ Diagnosis!Applied
  <2>1. run' = run BY <1>1 DEF Diagnosis!Save, Diagnosis!Load, Diagnosis!Applied
  <2>2. run # None => ~Untouched(apply', run.before.revision) BY <1>1, Touching DEF Counted
  <2> QED BY <2>1, <2>2 DEF RunKept
<1>2. CASE Diagnosis!Switch
  <2>1. CASE run = None BY <1>2, <2>1 DEF Diagnosis!Switch, Diagnosis!Moved, RunKept
  <2>2. CASE run # None
    <3>1. run' = [run EXCEPT !.known = FALSE]
      BY <1>2, <2>2 DEF Diagnosis!Switch, Diagnosis!Moved
    <3>2. ~run'.known /\ run'.pc = run.pc /\ run'.result = run.result
      BY <2>2, <3>1 DEF Counted, IsRun
    <3> QED BY <2>2, <3>2 DEF RunKept
  <2> QED BY <2>1, <2>2
<1>3. CASE Diagnosis!View
  <2>1. run # None /\ UNCHANGED engine BY <1>3 DEF Diagnosis!View
  <2>2. CASE run' = [run EXCEPT !.pc = "rules", !.list = saved, !.members = engine.members,
                               !.inventory = engine.inventory, !.known = (saved = engine.config)]
    <3>1. /\ run'.pc = "rules" /\ run'.list = saved /\ run'.members = engine.members
          /\ run'.inventory = engine.inventory
      BY <2>1, <2>2 DEF Counted, IsRun
    <3>2. run'.known = (saved = engine.config) BY <2>1, <2>2 DEF Counted, IsRun
    <3>3. run'.known => run'.list = engine.config BY <3>1, <3>2
    <3> QED BY <2>1, <3>1, <3>3 DEF RunKept
  <2>3. ASSUME NEW said \in {Diagnosis!Down, Diagnosis!Fatal}, run' = Diagnosis!Done(said)
        PROVE  RunKept'
    <3>1. run'.pc = "done" /\ run'.result = said
      BY <2>3 DEF Diagnosis!Done, Diagnosis!Blank
    <3>2. Confirmed(said) /\ said.claim.node = None /\ said.fallback = None
      BY <2>3 DEF Diagnosis!Down, Diagnosis!Fatal, Diagnosis!Unconfirmed, Confirmed, IsResult
    <3> QED BY <3>1, <3>2 DEF RunKept, Tells
  <2> QED BY <1>3, <2>2, <2>3 DEF Diagnosis!View
<1>4. CASE Diagnosis!Rules
  <2>1. /\ run # None /\ UNCHANGED <<engine, apply>> /\ run.pc = "rules"
        /\ \E target \in {Diagnosis!Target(engine), None} :
             run' = [run EXCEPT !.pc = "jobs", !.target = target]
    BY <1>4 DEF Diagnosis!Rules
  <2>2. /\ run'.pc = "jobs" /\ run'.target \in {None, Diagnosis!Target(engine)}
        /\ run'.list = run.list /\ run'.members = run.members
        /\ run'.inventory = run.inventory /\ run'.before = run.before /\ run'.known = run.known
    BY <2>1 DEF Counted, IsRun
  <2> QED BY <2>1, <2>2 DEF RunKept
<1>5. CASE Diagnosis!Jobs BY <1>5, JobsTell
<1>6. CASE Diagnosis!Finish BY <1>6 DEF Diagnosis!Finish, RunKept
<1>7. CASE Diagnosis!Expire BY <1>7 DEF Diagnosis!Expire, RunKept
<1>8. ASSUME NEW forced \in BOOLEAN, Diagnosis!Ask(forced) PROVE RunKept'
  <2>1. UNCHANGED <<engine, apply>> /\ (run' = run \/ Diagnosis!Start)
    BY <1>8 DEF Diagnosis!Ask
  <2>2. CASE Diagnosis!Start
    <3>1. run'.pc = "checks" BY <2>2 DEF Diagnosis!Start, Diagnosis!Blank
    <3> QED BY <3>1 DEF RunKept
  <2>3. CASE run' = run BY <2>1, <2>3 DEF RunKept
  <2> QED BY <2>1, <2>2, <2>3
<1> QED BY <1>1, <1>2, <1>3, <1>4, <1>5, <1>6, <1>7, <1>8 DEF Diagnosis!Next

\* A run that nothing overtook answers, and is kept, with what is so.
LEMMA CacheStep == ASSUME Counted, RunKept, CacheKept, Diagnosis!Next PROVE CacheKept'
<1>1. CASE Diagnosis!Save \/ Diagnosis!Load \/ Diagnosis!Applied
  <2>1. cache' = cache BY <1>1 DEF Diagnosis!Save, Diagnosis!Load, Diagnosis!Applied
  <2>2. cache # None => ~Untouched(apply', cache.revision) BY <1>1, Touching DEF Counted
  <2> QED BY <2>1, <2>2 DEF CacheKept
<1>2. CASE Diagnosis!Switch
  <2>1. CASE cache = None BY <1>2, <2>1 DEF Diagnosis!Switch, Diagnosis!Moved, CacheKept
  <2>2. CASE cache # None
    <3>1. cache' = [cache EXCEPT !.known = FALSE]
      BY <1>2, <2>2 DEF Diagnosis!Switch, Diagnosis!Moved
    <3>2. ~cache'.known /\ cache'.result = cache.result
      BY <2>2, <3>1 DEF Counted, IsAnswer
    <3> QED BY <2>2, <3>2 DEF CacheKept
  <2> QED BY <2>1, <2>2
<1>3. CASE UNCHANGED <<cache, engine, apply>> BY <1>3 DEF CacheKept
<1>4. CASE Diagnosis!Finish
  <2>1. run # None /\ run.pc = "done" /\ UNCHANGED <<engine, apply>>
    BY <1>4 DEF Diagnosis!Finish
  <2>2. CASE Diagnosis!Overtaken(run.before, Diagnosis!ApplyState)
    BY <1>4, <2>2 DEF Diagnosis!Finish, CacheKept
  <2>3. CASE ~Diagnosis!Overtaken(run.before, Diagnosis!ApplyState)
    <3>1. cache' = [result |-> run.result, revision |-> apply.revision, known |-> run.known]
      BY <1>4, <2>3 DEF Diagnosis!Finish
    <3>2. ~run.before.inProgress /\ Untouched(apply, run.before.revision)
      BY <2>3 DEF Diagnosis!Overtaken, Diagnosis!ApplyState, Untouched
    <3>3. Confirmed(run.result) /\ (run.known => Tells(engine, run.result))
      BY <2>1, <3>2 DEF RunKept
    <3> QED BY <2>1, <3>1, <3>3 DEF CacheKept
  <2> QED BY <2>2, <2>3
<1>5. CASE Diagnosis!Expire BY <1>5 DEF Diagnosis!Expire, CacheKept
<1> QED
  BY <1>1, <1>2, <1>3, <1>4, <1>5
  DEF Diagnosis!Next, Diagnosis!View, Diagnosis!Rules, Diagnosis!Jobs, Diagnosis!Ask,
      Diagnosis!Start

LEMMA AnswerGiven ==
    ASSUME NEW said, NEW known, Confirmed(said), known => Tells(engine, said),
           answer' = Diagnosis!Given(said, known)
    PROVE  Diagnosis!DiagnosticsTrue'
<1>1. /\ answer'.result = said /\ answer'.leaf = Diagnosis!Leaf(engine)
      /\ answer'.fallback = LeafOf(engine, Diagnosis!Target(engine))
      /\ answer'.known = (known /\ ~Diagnosis!Outranked(said.claim))
  BY Zenon DEF Diagnosis!Given, LeafOf
<1>2. answer'.known => known /\ ~Passed(engine, said.claim)
  BY <1>1 DEF Diagnosis!Outranked, Passed
<1> QED BY <1>1, <1>2 DEF Diagnosis!DiagnosticsTrue, Tells, Confirmed

LEMMA AnswerStep ==
    ASSUME Counted, RunKept, CacheKept, Diagnosis!Next PROVE Diagnosis!DiagnosticsTrue'
<1>1. CASE answer' = None BY <1>1 DEF Diagnosis!DiagnosticsTrue
<1>2. CASE Diagnosis!Finish
  <2>1. run # None /\ run.pc = "done" /\ Confirmed(run.result)
    BY <1>2 DEF Diagnosis!Finish, RunKept
  <2>2. CASE Diagnosis!Overtaken(run.before, Diagnosis!ApplyState)
    <3> DEFINE said == Diagnosis!Withdrawn(run.result)
    <3>1. answer' = Diagnosis!Given(said, run.known) BY <1>2, <2>2 DEF Diagnosis!Finish
    <3>2. Confirmed(said) /\ said.claim.node = None /\ said.fallback = None
      <4>1. said = [state |-> IF run.result.state = "ready" THEN "partial" ELSE run.result.state,
                    claim |-> Diagnosis!Unconfirmed, fallback |-> None]
        <5> DEFINE x == run.result
                   state_ == IF x.state = "ready" THEN "partial" ELSE x.state
        <5>1. x = [state |-> x.state, claim |-> x.claim, fallback |-> x.fallback]
          BY <2>1 DEF Confirmed, IsResult
        <5>2. said = [x EXCEPT !.claim = Diagnosis!Unconfirmed, !.fallback = None, !.state = state_]
          BY <5>1 DEF Diagnosis!Withdrawn
        <5> HIDE DEF state_
        <5>3. said = [state |-> state_, claim |-> Diagnosis!Unconfirmed, fallback |-> None]
          BY <5>1, <5>2
        <5> QED BY <5>3 DEF state_
      <4> HIDE DEF said
      <4> QED BY <4>1 DEF Diagnosis!Unconfirmed, Confirmed, IsResult
    <3>3. Tells(engine, said) BY <3>2 DEF Tells
    <3> HIDE DEF said
    <3> QED BY <3>1, <3>2, <3>3, AnswerGiven
  <2>3. CASE ~Diagnosis!Overtaken(run.before, Diagnosis!ApplyState)
    <3>1. answer' = Diagnosis!Given(run.result, run.known)
      BY <1>2, <2>3 DEF Diagnosis!Finish
    <3>2. ~run.before.inProgress /\ Untouched(apply, run.before.revision)
      BY <2>3 DEF Diagnosis!Overtaken, Diagnosis!ApplyState, Untouched
    <3>3. run.known => Tells(engine, run.result) BY <2>1, <3>2 DEF RunKept
    <3> QED BY <2>1, <3>1, <3>3, AnswerGiven
  <2> QED BY <2>2, <2>3
<1>3. ASSUME NEW forced \in BOOLEAN, Diagnosis!Ask(forced), answer' # None
      PROVE  Diagnosis!DiagnosticsTrue'
  <2>1. Diagnosis!Fresh /\ answer' = Diagnosis!Given(cache.result, cache.known)
    BY <1>3 DEF Diagnosis!Ask, Diagnosis!Start
  <2>2. cache # None /\ Untouched(apply, cache.revision)
    BY <2>1 DEF Diagnosis!Fresh, Diagnosis!ApplyState, Untouched
  <2>3. Confirmed(cache.result) /\ (cache.known => Tells(engine, cache.result))
    BY <2>2 DEF CacheKept
  <2> QED BY <2>1, <2>3, AnswerGiven
<1> QED
  BY <1>1, <1>2, <1>3
  DEF Diagnosis!Next, Diagnosis!Save, Diagnosis!Load, Diagnosis!Applied, Diagnosis!Switch,
      Diagnosis!View, Diagnosis!Rules, Diagnosis!Jobs, Diagnosis!Expire

LEMMA DiagnosisStep == ASSUME Diagnosed, Diagnosis!Next PROVE Diagnosed'
BY GroupedKept, CountedKept, RunStep, CacheStep, AnswerStep DEF Diagnosed

LEMMA DiagnosisInit == ASSUME Diagnosis!Init PROVE Diagnosed
<1> DEFINE all == {Diagnosis!Names(c) : c \in Routings}
           groups == {"G", "AUTO"} \cup UNION all
<1>1. /\ run = None /\ cache = None /\ answer = None
      /\ apply = [revision |-> 0, pc |-> "idle", queued |-> FALSE]
  BY DEF Diagnosis!Init
<1>2. Counted /\ RunKept /\ CacheKept /\ Diagnosis!DiagnosticsTrue
  BY <1>1 DEF Counted, RunKept, CacheKept, Diagnosis!DiagnosticsTrue
<1>3. \A c \in Routings : IsFiniteSet(Diagnosis!Names(c)) /\ "DIRECT" \notin Diagnosis!Names(c)
  <2> SUFFICES ASSUME NEW c \in Routings
               PROVE  IsFiniteSet(Diagnosis!Names(c)) /\ "DIRECT" \notin Diagnosis!Names(c)
    OBVIOUS
  <2> DEFINE chans == c.channels
             S == {chans[n] : n \in DOMAIN chans}
             f == [n \in 1..Len(chans) |-> chans[n].name]
  <2>1. chans \in Seq(S) BY RoutingsAssumption
  <2>2. Len(chans) \in Nat /\ DOMAIN chans = 1..Len(chans)
    <3> HIDE DEF S, chans
    <3> QED BY <2>1
  <2>3. f \in Surjection(1..Len(chans), Diagnosis!Names(c))
    BY <2>2 DEF Surjection, Diagnosis!Names
  <2>4. IsFiniteSet(1..Len(chans)) BY <2>2, FS_Interval
  <2>5. IsFiniteSet(Diagnosis!Names(c))
    <3> HIDE DEF f
    <3> QED BY <2>3, <2>4, FS_Surjection
  <2>6. "DIRECT" \notin Diagnosis!Names(c) BY RoutingsAssumption DEF Diagnosis!Names
  <2> QED BY <2>5, <2>6
<1>4. IsFiniteSet(groups)
  <2>1. [c \in Routings |-> Diagnosis!Names(c)] \in Surjection(Routings, all) BY DEF Surjection
  <2>2. IsFiniteSet(all)
    <3> HIDE DEF all
    <3> QED BY <2>1, RoutingsAssumption, FS_Surjection
  <2>3. \A T \in all : IsFiniteSet(T) BY <1>3
  <2>4. IsFiniteSet(UNION all)
    <3> HIDE DEF all
    <3> QED BY <2>2, <2>3, FS_UNION
  <2>5. IsFiniteSet({"G", "AUTO"})
    <3>1. {"G", "AUTO"} = {"G"} \cup {"AUTO"} OBVIOUS
    <3>2. IsFiniteSet({"G"}) BY FS_Singleton
    <3> QED BY <3>1, <3>2, FS_AddElement
  <2> HIDE DEF all
  <2> QED BY <2>4, <2>5, FS_Union
<1>5. PICK inventory \in BOOLEAN, how \in {"rule", "global"} :
         engine = [config |-> saved, inventory |-> inventory, mode |-> how,
                   members |-> [g \in groups |->
                      CASE ~inventory                -> "DIRECT"
                        [] inventory /\ g = "AUTO"   -> CHOOSE n \in Nodes : TRUE
                        [] inventory /\ g # "AUTO"   -> "AUTO"]]
  BY DEF Diagnosis!Init
<1>6. /\ engine = [config |-> engine.config, inventory |-> engine.inventory,
                   mode |-> engine.mode, members |-> engine.members]
      /\ engine.config = saved /\ saved \in Routings
      /\ DOMAIN engine.members = groups
      /\ ~engine.inventory => \A g \in groups : engine.members[g] = "DIRECT"
  BY <1>5 DEF Diagnosis!Init
<1>7. "G" \in groups /\ "DIRECT" \notin groups /\ \A c \in Routings : Diagnosis!Names(c) \subseteq groups
  BY <1>3
<1> HIDE DEF groups
<1> QED BY <1>2, <1>4, <1>6, <1>7 DEF Diagnosed, Grouped

LEMMA DiagnosisStutter ==
    ASSUME Diagnosed, UNCHANGED <<saved, engine, apply, run, cache, answer>> PROVE Diagnosed'
BY DEF Diagnosed, Grouped, Counted, RunKept, CacheKept, Diagnosis!DiagnosticsTrue

-----------------------------------------------------------------------------
(* A behaviour of MCSetup is one of its parts.                               *)

Placed ==
    /\ part = "mode"    => IInv
    /\ part = "decoder" => Decoding /\ OwnRun
    /\ part = "intake"  => TakenIn
    /\ part = "diagnosis" => Diagnosed

LEMMA PlacedInit == PartInit => Placed
<1> SUFFICES ASSUME PartInit PROVE Placed OBVIOUS
<1>1. /\ part = "mode" => Init
      /\ part = "decoder" => Decoder!Init
      /\ part = "intake" => Intake!Init
      /\ part = "diagnosis" => Diagnosis!Init
  BY DEF PartInit
<1> QED BY <1>1, ModeInit, DecoderInit, IntakeInit, DiagnosisInit DEF Placed

LEMMA PlacedStep == Placed /\ [PartNext]_partVars => Placed'
<1> SUFFICES ASSUME Placed, [PartNext]_partVars PROVE Placed' OBVIOUS
<1>1. CASE UNCHANGED partVars
  <2>1. UNCHANGED <<part, vars, decoderVars, answer, intakeVars, diagnosisVars>>
    BY <1>1 DEF partVars, vars, modeVars, decoderVars, intakeVars, diagnosisVars
  <2>2. IInv => IInv' BY <2>1, ModeStep
  <2>3. Decoding /\ OwnRun => Decoding' /\ OwnRun'
    BY <2>1 DEF vars, decoderVars, Decoding, OwnRun, Runs
  <2>4. TakenIn => TakenIn'
    BY <2>1 DEF vars, intakeVars, TakenIn, Stored, Checked, Written, Intake!OnceEach, Intake!Ids
  <2>5. Diagnosed => Diagnosed'
    BY <2>1, DiagnosisStutter DEF vars, diagnosisVars
  <2> QED BY <2>1, <2>2, <2>3, <2>4, <2>5 DEF Placed
<1>2. CASE PartNext
  <2>1. /\ part' = part
        /\ part = "mode" => Next
        /\ part = "decoder" => Decoder!Next
        /\ part = "intake" => Intake!Next
        /\ part = "diagnosis" => Diagnosis!Next
    BY <1>2 DEF PartNext
  <2> QED BY <2>1, ModeStep, DecoderStep, IntakeStep, DiagnosisStep DEF Placed
<1> QED BY <1>1, <1>2

\* What the settings, the accepted file, the engine and the administrator know of the
\* connection mode agrees, whatever fails, restarts or overlaps (gateway/service.ts).
THEOREM ModeStaysSound == PartSpec => []ModeSound
<1>1. Placed => ModeSound BY ModeHolds DEF Placed, ModeSound
<1> QED BY <1>1, PlacedInit, PlacedStep, PTL DEF PartSpec

\* The answers of the decoder, and the sources that are stored, are the caller's own, once
\* each and with nodes (happ-decoder/server.py, sources/service.ts).
THEOREM IntakeStaysSound == PartSpec => []IntakeSound
<1>1. Placed => IntakeSound BY DecoderOwn, IntakeKept DEF Placed, IntakeSound
<1> QED BY <1>1, PlacedInit, PlacedStep, PTL DEF PartSpec

\* What the diagnosis says of routes and nodes is so when it says it, unless something
\* happened that it cannot know of (diagnostics/service.ts).
THEOREM DiagnosisStaysTrue == PartSpec => []DiagnosticsTrue
<1>1. Placed => DiagnosticsTrue BY DEF Placed, DiagnosticsTrue, Diagnosed
<1> QED BY <1>1, PlacedInit, PlacedStep, PTL DEF PartSpec
=============================================================================
