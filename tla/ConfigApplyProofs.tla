------------------------- MODULE ConfigApplyProofs -------------------------
(***************************************************************************)
(* Proofs about ConfigApply, for every set of data and secrets and without *)
(* a bound on requests or faults: the journal always allows a recovery,    *)
(* and no rotation of the secret locks the panel out.                      *)
(***************************************************************************)
EXTENDS ConfigApply, TLAPS

LEMMA RestingAttempt == NoAttempt \in Attempts
BY ConstantsAssumption DEF NoAttempt, Attempts, Plain, Requests, Routes

LEMMA RequestTypes ==
    /\ Plain \in Requests /\ Forced \in Requests
    /\ \A r \in Routes : ToRoute(r) \in Requests
    /\ \A s \in Secrets \ {NoAuth} : ToSecret(s) \in Requests
BY ConstantsAssumption DEF Plain, Forced, ToRoute, ToSecret, Requests, Routes

\* The journal operations return journals.
LEMMA JournalTypes ==
    ASSUME NEW j \in Journals \cup {NoJournal}, NEW f \in Content \cup {NoFile},
           NEW r \in Routes
    PROVE  /\ Provable(j, f) => BegunJournal(j, f, r) \in Journals
           /\ \A c \in Content : j # NoJournal => WithCandidate(j, c, r) \in Journals
<1>1. Provable(j, f) => BegunJournal(j, f, r) \in Journals
  BY ConstantsAssumption
     DEF Provable, BegunJournal, AcceptedIdentity, Journals, Identities
<1>2. ASSUME NEW c \in Content, j # NoJournal
      PROVE  WithCandidate(j, c, r) \in Journals
  BY <1>2 DEF WithCandidate, Journals, Identities
<1> QED BY <1>1, <1>2

\* What the bootstrap may leave in the rotation journal.
LEMMA BootRotationType ==
    ASSUME TypeOK
    PROVE  /\ BootRotation \in Rotations \cup {NoRotation}
           /\ KnownSecrets(BootRotation, confirmed) \subseteq Secrets
           /\ CandidateSecret \in Secrets
           /\ KnownSecrets(rotation, confirmed) \subseteq Secrets
BY ConstantsAssumption
   DEF TypeOK, BootRotation, KnownSecrets, CandidateSecret, Rotations

\* Updates of an attempt.
LEMMA AttemptTypes ==
    ASSUME NEW a \in Attempts
    PROVE  /\ \A b \in BOOLEAN : /\ [a EXCEPT !.landed = b] \in Attempts
                                 /\ [a EXCEPT !.activated = b] \in Attempts
                                 /\ [a EXCEPT !.rollbackSafe = b] \in Attempts
                                 /\ [a EXCEPT !.restoreFailed = b] \in Attempts
           /\ \A c \in Content, safe \in BOOLEAN, b \in BOOLEAN :
                  [a EXCEPT !.content = c, !.rollbackSafe = safe, !.activated = b] \in Attempts
BY DEF Attempts

-----------------------------------------------------------------------------
(* The inductive invariant *)

\* An identity carries the route of its own bytes.
OwnContext(j) ==
    j # NoJournal =>
        /\ j.accepted.hash # NoFile => j.accepted.route = j.accepted.hash.route
        /\ j.candidate # NoCandidate =>
              j.candidate.hash \in Content /\ j.candidate.route = j.candidate.hash.route

\* What an attempt knows of the state it started from and may go back to.
AttemptKeepsPast ==
    pc # "idle" =>
        /\ up
        /\ journal # NoJournal
        /\ journal.accepted.hash = att.prevContent
        /\ OwnContext(att.prevJournal)
        /\ Provable(att.prevJournal, att.prevContent)
        /\ att.prevContent # NoFile =>
              RecoveryRoute(att.prevJournal, att.prevContent, att.oldRoute) = att.prevContent.route
        /\ att.content # NoFile /\ att.content.route = route
        /\ att.req.kind # "route" => att.oldRoute = route

\* Which bytes are on disk and in the journal, by the place the attempt has reached.
ByPlace ==
    /\ pc \in {"prepare", "confirmSkip", "skip", "record", "reload", "verify", "revert",
               "replace", "restoreEngine", "undo"} => file = att.prevContent
    /\ pc \in {"confirmSkip", "skip", "confirm", "settle", "finish"} => file = att.content
    /\ pc \in {"reload", "verify", "revert", "replace", "confirm", "settle", "finish"} =>
          journal.candidate # NoCandidate /\ journal.candidate.hash = att.content
    /\ pc \in {"reload", "verify", "revert", "replace", "confirm"} => att.activated
    /\ pc = "prepare" \/ (pc = "fail" /\ ~att.activated) => file = att.prevContent
    /\ pc = "prepare" => ~att.activated
    /\ pc \in {"revert", "restoreEngine"} => att.prevContent # NoFile
    /\ pc = "confirmSkip" => rotation # NoRotation

IInv ==
    /\ TypeOK
    /\ JournalProvesFile
    /\ RecoveryContext
    /\ OwnContext(journal)
    /\ AttemptKeepsPast
    /\ ByPlace

THEOREM Initially == Init => IInv
<1> SUFFICES ASSUME Init PROVE IInv
  OBVIOUS
<1>1. file \in Content \cup {NoFile} /\ queue \in Seq(Requests)
  BY ConstantsAssumption DEF Init, Content
<1>2. TypeOK
  BY <1>1, RestingAttempt, ConstantsAssumption DEF Init, TypeOK, PCs
<1>3. JournalProvesFile /\ RecoveryContext /\ OwnContext(journal) /\ AttemptKeepsPast /\ ByPlace
  BY DEF Init, JournalProvesFile, Provable, RecoveryContext, RecoveryRoute, OwnContext,
         AttemptKeepsPast, ByPlace
<1> QED BY <1>2, <1>3 DEF IInv

THEOREM Inductive == IInv /\ [Next]_vars => IInv'
<1> SUFFICES ASSUME IInv, [Next]_vars PROVE IInv'
  OBVIOUS
<1> USE DEF IInv, durable, secrets, engine, budget
<1>1. CASE Boot
  <2>1. att' \in Attempts
    BY <1>1
       DEF Boot, TypeOK
  <2>2. TypeOK'
    BY <1>1, <2>1, BootRotationType, RequestTypes
       DEF Boot, TypeOK
  <2>3. JournalProvesFile' /\ RecoveryContext' /\ OwnContext(journal)'
    BY <1>1, ConstantsAssumption
       DEF Boot, TypeOK, JournalProvesFile, Provable, RecoveryContext, RecoveryRoute, AcceptedIdentity, OwnContext, AttemptKeepsPast, ByPlace
  <2>4. AttemptKeepsPast' /\ ByPlace'
    BY <1>1, ConstantsAssumption
       DEF Boot, TypeOK, JournalProvesFile, Provable, RecoveryContext, RecoveryRoute, AcceptedIdentity, OwnContext, AttemptKeepsPast, ByPlace
  <2> QED BY <2>2, <2>3, <2>4
<1>2. CASE Bootstrap
  <2> DEFINE secret    == IF BootRotation = NoRotation THEN confirmed ELSE BootRotation.next
             generated == [data |-> data, route |-> route, secret |-> secret]
             Publish(c) ==
               /\ journal' = IF journal = NoJournal THEN NoJournal
                             ELSE WithCandidate(BegunJournal(journal, file, route), c, route)
               /\ file' \in {file, c}
  <2>1. secret \in Secrets
    BY BootRotationType, ConstantsAssumption DEF TypeOK, Rotations
  <2>2. generated \in Content /\ generated.route = route
    BY <2>1 DEF TypeOK, Content
  <2>3. ASSUME file # NoFile, journal = NoJournal
        PROVE  [file EXCEPT !.secret = secret] \in Content /\ [file EXCEPT !.secret = secret].route = route
    BY <2>1, <2>3 DEF TypeOK, Content, RecoveryContext, RecoveryRoute
  <2>4. (\E c \in Content : c.route = route /\ Publish(c)) \/ UNCHANGED <<journal, file>>
    <3> HIDE DEF generated, secret, Publish
    <3>1. Publish(generated) \/ (file # NoFile /\ journal = NoJournal /\ Publish([file EXCEPT !.secret = secret]))
              \/ UNCHANGED <<journal, file>>
      BY <1>2 DEF Bootstrap, Publish, generated, secret
    <3> QED BY <3>1, <2>2, <2>3
  <2>5. /\ rotation' \in Rotations \cup {NoRotation}
        /\ UNCHANGED <<data, route, confirmed, gwState, engine, up, outage, known, queue, pc, att, budget>>
        /\ pc = "idle"
    BY <1>2, BootRotationType DEF Bootstrap, AttemptKeepsPast
  <2>6. CASE UNCHANGED <<journal, file>>
    BY <2>5, <2>6 DEF TypeOK, JournalProvesFile, Provable, RecoveryContext, RecoveryRoute, AcceptedIdentity, OwnContext,
           AttemptKeepsPast, ByPlace
  <2>7. ASSUME NEW c \in Content, c.route = route, Publish(c)
        PROVE  IInv'
    <3>1. CASE journal = NoJournal
      BY <2>5, <2>7, <3>1, ConstantsAssumption DEF TypeOK, JournalProvesFile, Provable, RecoveryContext, RecoveryRoute, AcceptedIdentity, OwnContext,
           AttemptKeepsPast, ByPlace
    <3>2. CASE journal # NoJournal
      <4> DEFINE j == BegunJournal(journal, file, route)
      <4>1. /\ j \in Journals /\ j.accepted.hash = file
            /\ file # NoFile => j.accepted.route = file.route
        BY <3>2, JournalTypes, ConstantsAssumption DEF TypeOK, BegunJournal, JournalProvesFile, Provable, RecoveryContext, RecoveryRoute, AcceptedIdentity, OwnContext,
           AttemptKeepsPast, ByPlace
      <4> HIDE DEF j
      <4>2. /\ journal' \in Journals /\ journal'.accepted = j.accepted
            /\ journal'.candidate = [hash |-> c, route |-> route]
            /\ journal'.candidate \in Identities
        <5>1. journal' = WithCandidate(j, c, route)
          BY <2>7, <3>2 DEF j
        <5> QED BY <5>1, <4>1 DEF WithCandidate, Journals, Identities, TypeOK
      <4>3. TypeOK'
        BY <2>5, <2>7, <4>2 DEF TypeOK
      <4>4. journal' # NoJournal /\ journal'.candidate # NoCandidate
        BY <4>2, ConstantsAssumption
      <4> QED BY <2>5, <2>7, <4>1, <4>2, <4>3, <4>4 DEF JournalProvesFile, Provable, RecoveryContext, RecoveryRoute, AcceptedIdentity, OwnContext,
           AttemptKeepsPast, ByPlace
    <3> QED BY <3>1, <3>2
  <2> QED BY <2>4, <2>6, <2>7
<1>3. CASE Crash
  <2>1. att' \in Attempts
    BY <1>3, RestingAttempt
       DEF Crash, TypeOK, Done
  <2>2. TypeOK'
    <3>1. queue' \in Seq(Requests) /\ pc' \in PCs
      BY <1>3 DEF Crash, Done, PCs
    <3>2. faults' \in Nat
      BY <1>3 DEF Crash, Fault, TypeOK
    <3> QED BY <1>3, <2>1, <3>1, <3>2 DEF Crash, TypeOK
  <2>3. JournalProvesFile' /\ RecoveryContext' /\ OwnContext(journal)'
    BY <1>3, ConstantsAssumption
       DEF Crash, TypeOK, JournalProvesFile, Provable, RecoveryContext, RecoveryRoute, AcceptedIdentity, OwnContext, AttemptKeepsPast, ByPlace, Done
  <2>4. AttemptKeepsPast' /\ ByPlace'
    BY <1>3, ConstantsAssumption
       DEF Crash, TypeOK, JournalProvesFile, Provable, RecoveryContext, RecoveryRoute, AcceptedIdentity, OwnContext, AttemptKeepsPast, ByPlace, Done
  <2> QED BY <2>2, <2>3, <2>4
<1>4. CASE EngineRestart
  <2>1. att' \in Attempts
    BY <1>4
       DEF EngineRestart, TypeOK
  <2>2. TypeOK'
    BY <1>4, <2>1
       DEF EngineRestart, TypeOK, Fault, Content
  <2>3. JournalProvesFile' /\ RecoveryContext' /\ OwnContext(journal)'
    BY <1>4, ConstantsAssumption
       DEF EngineRestart, TypeOK, JournalProvesFile, Provable, RecoveryContext, RecoveryRoute, AcceptedIdentity, OwnContext, AttemptKeepsPast, ByPlace
  <2>4. AttemptKeepsPast' /\ ByPlace'
    BY <1>4, ConstantsAssumption
       DEF EngineRestart, TypeOK, JournalProvesFile, Provable, RecoveryContext, RecoveryRoute, AcceptedIdentity, OwnContext, AttemptKeepsPast, ByPlace
  <2> QED BY <2>2, <2>3, <2>4
<1>5. CASE Reconnect
  <2>1. att' \in Attempts
    BY <1>5
       DEF Reconnect, TypeOK
  <2>2. TypeOK'
    <3>1. queue' \in Seq(Requests)
      BY <1>5, RequestTypes DEF Reconnect, TypeOK
    <3> QED BY <1>5, <2>1, <3>1 DEF Reconnect, TypeOK
  <2>3. JournalProvesFile' /\ RecoveryContext' /\ OwnContext(journal)'
    BY <1>5, ConstantsAssumption
       DEF Reconnect, TypeOK, JournalProvesFile, Provable, RecoveryContext, RecoveryRoute, AcceptedIdentity, OwnContext, AttemptKeepsPast, ByPlace
  <2>4. AttemptKeepsPast' /\ ByPlace'
    BY <1>5, ConstantsAssumption
       DEF Reconnect, TypeOK, JournalProvesFile, Provable, RecoveryContext, RecoveryRoute, AcceptedIdentity, OwnContext, AttemptKeepsPast, ByPlace
  <2> QED BY <2>2, <2>3, <2>4
<1>6. CASE EditData
  <2>1. att' \in Attempts
    BY <1>6
       DEF EditData, TypeOK, Submit
  <2>2. TypeOK'
    BY <1>6, <2>1, RequestTypes
       DEF EditData, TypeOK, Submit
  <2>3. JournalProvesFile' /\ RecoveryContext' /\ OwnContext(journal)'
    BY <1>6, ConstantsAssumption
       DEF EditData, TypeOK, JournalProvesFile, Provable, RecoveryContext, RecoveryRoute, AcceptedIdentity, OwnContext, AttemptKeepsPast, ByPlace, Submit
  <2>4. AttemptKeepsPast' /\ ByPlace'
    BY <1>6, ConstantsAssumption
       DEF EditData, TypeOK, JournalProvesFile, Provable, RecoveryContext, RecoveryRoute, AcceptedIdentity, OwnContext, AttemptKeepsPast, ByPlace, Submit
  <2> QED BY <2>2, <2>3, <2>4
<1>7. CASE SetRoute
  <2>1. att' \in Attempts
    BY <1>7
       DEF SetRoute, TypeOK, Submit
  <2>2. TypeOK'
    BY <1>7, <2>1, RequestTypes
       DEF SetRoute, TypeOK, Submit
  <2>3. JournalProvesFile' /\ RecoveryContext' /\ OwnContext(journal)'
    BY <1>7, ConstantsAssumption
       DEF SetRoute, TypeOK, JournalProvesFile, Provable, RecoveryContext, RecoveryRoute, AcceptedIdentity, OwnContext, AttemptKeepsPast, ByPlace, Submit
  <2>4. AttemptKeepsPast' /\ ByPlace'
    BY <1>7, ConstantsAssumption
       DEF SetRoute, TypeOK, JournalProvesFile, Provable, RecoveryContext, RecoveryRoute, AcceptedIdentity, OwnContext, AttemptKeepsPast, ByPlace, Submit
  <2> QED BY <2>2, <2>3, <2>4
<1>8. CASE SetSecret
  <2>1. att' \in Attempts
    BY <1>8
       DEF SetSecret, TypeOK, Submit
  <2>2. TypeOK'
    BY <1>8, <2>1, RequestTypes
       DEF SetSecret, TypeOK, Submit
  <2>3. JournalProvesFile' /\ RecoveryContext' /\ OwnContext(journal)'
    BY <1>8, ConstantsAssumption
       DEF SetSecret, TypeOK, JournalProvesFile, Provable, RecoveryContext, RecoveryRoute, AcceptedIdentity, OwnContext, AttemptKeepsPast, ByPlace, Submit
  <2>4. AttemptKeepsPast' /\ ByPlace'
    BY <1>8, ConstantsAssumption
       DEF SetSecret, TypeOK, JournalProvesFile, Provable, RecoveryContext, RecoveryRoute, AcceptedIdentity, OwnContext, AttemptKeepsPast, ByPlace, Submit
  <2> QED BY <2>2, <2>3, <2>4
<1>9. CASE ReloadRequest
  <2>1. att' \in Attempts
    BY <1>9
       DEF ReloadRequest, TypeOK, Submit
  <2>2. TypeOK'
    BY <1>9, <2>1, RequestTypes
       DEF ReloadRequest, TypeOK, Submit
  <2>3. JournalProvesFile' /\ RecoveryContext' /\ OwnContext(journal)'
    BY <1>9, ConstantsAssumption
       DEF ReloadRequest, TypeOK, JournalProvesFile, Provable, RecoveryContext, RecoveryRoute, AcceptedIdentity, OwnContext, AttemptKeepsPast, ByPlace, Submit
  <2>4. AttemptKeepsPast' /\ ByPlace'
    BY <1>9, ConstantsAssumption
       DEF ReloadRequest, TypeOK, JournalProvesFile, Provable, RecoveryContext, RecoveryRoute, AcceptedIdentity, OwnContext, AttemptKeepsPast, ByPlace, Submit
  <2> QED BY <2>2, <2>3, <2>4
<1>10. CASE BeginApply
  <2> DEFINE req == Head(queue)
             creates == req.kind = "secret" /\ rotation = NoRotation
  <2>1. /\ req \in Requests /\ queue' \in Seq(Requests)
    BY <1>10 DEF BeginApply, TypeOK
  <2>2. /\ route' \in Routes /\ rotation' \in Rotations \cup {NoRotation}
        /\ known' \subseteq Secrets /\ creates \in BOOLEAN
    BY <1>10, <2>1, ConstantsAssumption DEF BeginApply, TypeOK, Requests, Rotations, KnownSecrets, Routes
  <2>3. [data |-> data, route |-> route', secret |-> NoAuth] \in Content
    BY <2>2, ConstantsAssumption DEF TypeOK, Content
  <2>4. /\ att' \in Attempts
        /\ att'.prevContent = file /\ att'.prevJournal = journal /\ att'.oldRoute = route
        /\ att'.activated = FALSE /\ att'.content # NoFile /\ att'.content.route = route'
        /\ att'.req = req
    <3> DEFINE c == [data |-> data, route |-> route', secret |-> NoAuth]
    <3>1. att' = [NoAttempt EXCEPT
                    !.req = req, !.prevJournal = journal, !.prevContent = file,
                    !.content = c, !.oldRoute = route, !.created = creates]
      BY <1>10 DEF BeginApply
    <3>2. c.route = route' /\ c # NoFile
      BY <2>3, ConstantsAssumption
    <3> HIDE DEF c, creates, req
    <3> QED BY <2>1, <2>2, <2>3, <3>1, <3>2 DEF TypeOK, Attempts, NoAttempt, c
  <2>5. TypeOK'
    BY <1>10, <2>1, <2>2, <2>4, JournalTypes DEF BeginApply, TypeOK, PCs
  <2>6. /\ journal' \in Journals /\ journal' # NoJournal
        /\ journal'.accepted.hash = file /\ journal'.candidate = NoCandidate
        /\ file # NoFile => journal'.accepted.route = file.route
    <3>1. journal' = BegunJournal(journal, file, route)
      BY <1>10 DEF BeginApply
    <3> QED BY <3>1, JournalTypes, ConstantsAssumption
            DEF BegunJournal, TypeOK, JournalProvesFile, Provable, RecoveryContext, RecoveryRoute, AcceptedIdentity, OwnContext,
           AttemptKeepsPast, ByPlace
  <2>7. file' = file /\ pc' = "prepare" /\ up' /\ (req.kind # "route" => route' = route)
    BY <1>10 DEF BeginApply
  <2>8. JournalProvesFile' /\ RecoveryContext' /\ OwnContext(journal)'
    BY <2>6, <2>7 DEF JournalProvesFile, Provable, RecoveryContext, RecoveryRoute, AcceptedIdentity, OwnContext,
           AttemptKeepsPast, ByPlace
  <2>9. AttemptKeepsPast' /\ ByPlace'
    BY <2>4, <2>6, <2>7 DEF JournalProvesFile, Provable, RecoveryContext, RecoveryRoute, AcceptedIdentity, OwnContext,
           AttemptKeepsPast, ByPlace
  <2> QED BY <2>5, <2>8, <2>9
<1>11. CASE RejectApply
  <2>1. att' \in Attempts
    BY <1>11
       DEF RejectApply, TypeOK
  <2>2. TypeOK'
    BY <1>11, <2>1
       DEF RejectApply, TypeOK
  <2>3. JournalProvesFile' /\ RecoveryContext' /\ OwnContext(journal)'
    BY <1>11, ConstantsAssumption
       DEF RejectApply, TypeOK, JournalProvesFile, Provable, RecoveryContext, RecoveryRoute, AcceptedIdentity, OwnContext, AttemptKeepsPast, ByPlace
  <2>4. AttemptKeepsPast' /\ ByPlace'
    BY <1>11, ConstantsAssumption
       DEF RejectApply, TypeOK, JournalProvesFile, Provable, RecoveryContext, RecoveryRoute, AcceptedIdentity, OwnContext, AttemptKeepsPast, ByPlace
  <2> QED BY <2>2, <2>3, <2>4
<1>12. CASE PrepareSecret
  <2> DEFINE content == [att.content EXCEPT !.secret = CandidateSecret]
             noop    == IsNoOp(att, content)
  <2>1. /\ content \in Content /\ content # NoFile /\ content.route = route
        /\ noop \in BOOLEAN /\ (noop => file = content)
    BY <1>12, BootRotationType, ConstantsAssumption
       DEF PrepareSecret, IsNoOp, TypeOK, Attempts, Content, AttemptKeepsPast
  <2>2. PICK safe \in BOOLEAN : Prepared(safe)
    BY <1>12 DEF PrepareSecret
  <2> HIDE DEF content, noop
  <2>3. /\ att' = [att EXCEPT !.content = content, !.rollbackSafe = safe, !.activated = noop]
        /\ pc' = IF ~noop THEN "record" ELSE IF rotation = NoRotation THEN "skip" ELSE "confirmSkip"
    BY <2>2 DEF Prepared, content, noop
  <2>4. att' \in Attempts
    BY <2>1, <2>3, AttemptTypes DEF TypeOK
  <2>5. TypeOK'
    <3>1. pc' \in PCs
      BY <2>3 DEF PCs
    <3>3. UNCHANGED faults \/ Probe(rotation.next, TRUE) \/ Probe(rotation.next, FALSE)
      BY <1>12 DEF PrepareSecret
    <3>4. faults' \in Nat
      BY <3>3 DEF Probe, Fault, TypeOK
    <3>2. known' \subseteq Secrets
      BY <1>12, BootRotationType DEF PrepareSecret, TypeOK
    <3> QED BY <1>12, <2>4, <3>1, <3>2, <3>4 DEF PrepareSecret, TypeOK
  <2>6. /\ att'.content = content /\ att'.prevContent = att.prevContent
        /\ att'.prevJournal = att.prevJournal /\ att'.oldRoute = att.oldRoute /\ att'.req = att.req
    BY <2>3 DEF TypeOK, Attempts
  <2>7. /\ pc = "prepare" /\ UNCHANGED <<up, journal, file, route, rotation>>
    BY <1>12 DEF PrepareSecret
  <2>8. JournalProvesFile' /\ RecoveryContext' /\ OwnContext(journal)'
    BY <2>7 DEF JournalProvesFile, Provable, RecoveryContext, RecoveryRoute, AcceptedIdentity, OwnContext,
           AttemptKeepsPast, ByPlace
  <2>9. AttemptKeepsPast' /\ ByPlace'
    BY <2>1, <2>3, <2>6, <2>7 DEF JournalProvesFile, Provable, RecoveryContext, RecoveryRoute, AcceptedIdentity, OwnContext,
           AttemptKeepsPast, ByPlace
  <2> QED BY <2>5, <2>8, <2>9
<1>13. CASE PrepareFails
  <2>1. att' \in Attempts
    BY <1>13, AttemptTypes
       DEF PrepareFails, TypeOK
  <2>2. TypeOK'
    BY <1>13, <2>1, BootRotationType
       DEF PrepareFails, TypeOK, Fault, PCs
  <2>3. JournalProvesFile' /\ RecoveryContext' /\ OwnContext(journal)'
    BY <1>13, ConstantsAssumption
       DEF PrepareFails, TypeOK, JournalProvesFile, Provable, RecoveryContext, RecoveryRoute, AcceptedIdentity, OwnContext, AttemptKeepsPast, ByPlace, Attempts
  <2>4. AttemptKeepsPast' /\ ByPlace'
    BY <1>13, ConstantsAssumption
       DEF PrepareFails, TypeOK, JournalProvesFile, Provable, RecoveryContext, RecoveryRoute, AcceptedIdentity, OwnContext, AttemptKeepsPast, ByPlace, Attempts
  <2> QED BY <2>2, <2>3, <2>4
<1>14. CASE ConfirmSkip
  <2>1. att' \in Attempts
    BY <1>14
       DEF ConfirmSkip, TypeOK, To
  <2>2. TypeOK'
    BY <1>14, <2>1
       DEF ConfirmSkip, TypeOK, To, Fault, Probe, FinalizeRotation, Rotations, PCs, ByPlace
  <2>3. JournalProvesFile' /\ RecoveryContext' /\ OwnContext(journal)'
    BY <1>14, ConstantsAssumption
       DEF ConfirmSkip, TypeOK, JournalProvesFile, Provable, RecoveryContext, RecoveryRoute, AcceptedIdentity, OwnContext, AttemptKeepsPast, ByPlace, To
  <2>4. AttemptKeepsPast' /\ ByPlace'
    BY <1>14, ConstantsAssumption
       DEF ConfirmSkip, TypeOK, JournalProvesFile, Provable, RecoveryContext, RecoveryRoute, AcceptedIdentity, OwnContext, AttemptKeepsPast, ByPlace, To
  <2> QED BY <2>2, <2>3, <2>4
<1>15. CASE Skip
  <2>1. att' \in Attempts
    BY <1>15, RestingAttempt
       DEF Skip, TypeOK, Done
  <2>2. TypeOK'
    BY <1>15, <2>1
       DEF Skip, TypeOK, Done, PCs
  <2>3. JournalProvesFile' /\ RecoveryContext' /\ OwnContext(journal)'
    BY <1>15, ConstantsAssumption
       DEF Skip, TypeOK, JournalProvesFile, Provable, RecoveryContext, RecoveryRoute, AcceptedIdentity, OwnContext, AttemptKeepsPast, ByPlace, Done
  <2>4. AttemptKeepsPast' /\ ByPlace'
    BY <1>15, ConstantsAssumption
       DEF Skip, TypeOK, JournalProvesFile, Provable, RecoveryContext, RecoveryRoute, AcceptedIdentity, OwnContext, AttemptKeepsPast, ByPlace, Done
  <2> QED BY <2>2, <2>3, <2>4
<1>16. CASE Record
  <2>1. att' \in Attempts
    BY <1>16, AttemptTypes
       DEF Record, TypeOK
  <2>2. TypeOK'
    BY <1>16, <2>1, JournalTypes
       DEF Record, TypeOK, AttemptKeepsPast, PCs, Attempts
  <2>3. /\ att.content \in Content /\ att.content.route = route /\ journal \in Journals
        /\ pc = "record" /\ pc' = "reload" /\ UNCHANGED <<up, file, route, rotation>>
    BY <1>16 DEF Record, TypeOK, Attempts, AttemptKeepsPast
  <2>4. /\ journal' # NoJournal /\ journal'.accepted = journal.accepted
        /\ journal'.candidate = [hash |-> att.content, route |-> route]
        /\ journal'.candidate # NoCandidate
    <3>1. journal' = WithCandidate(journal, att.content, route)
      BY <1>16 DEF Record
    <3>2. journal' \in Journals
      BY <2>3, <3>1, JournalTypes DEF TypeOK, AttemptKeepsPast
    <3>3. [hash |-> att.content, route |-> route] \in Identities
      BY <2>3 DEF Identities, TypeOK
    <3> QED BY <2>3, <3>1, <3>2, <3>3, ConstantsAssumption DEF WithCandidate, Journals
  <2>5. /\ att'.content = att.content /\ att'.prevContent = att.prevContent /\ att'.activated
        /\ att'.prevJournal = att.prevJournal /\ att'.oldRoute = att.oldRoute /\ att'.req = att.req
    BY <1>16 DEF Record, TypeOK, Attempts
  <2>6. JournalProvesFile' /\ RecoveryContext' /\ OwnContext(journal)'
    BY <2>3, <2>4 DEF JournalProvesFile, Provable, RecoveryContext, RecoveryRoute, AcceptedIdentity, OwnContext,
           AttemptKeepsPast, ByPlace
  <2>7. AttemptKeepsPast' /\ ByPlace'
    BY <2>3, <2>4, <2>5 DEF JournalProvesFile, Provable, RecoveryContext, RecoveryRoute, AcceptedIdentity, OwnContext,
           AttemptKeepsPast, ByPlace
  <2> QED BY <2>2, <2>6, <2>7
<1>17. CASE ReloadSucceeds
  <2>1. att' \in Attempts
    BY <1>17
       DEF ReloadSucceeds, TypeOK, To
  <2>2. TypeOK'
    BY <1>17, <2>1
       DEF ReloadSucceeds, TypeOK, To, PCs
  <2>3. JournalProvesFile' /\ RecoveryContext' /\ OwnContext(journal)'
    BY <1>17, ConstantsAssumption
       DEF ReloadSucceeds, TypeOK, JournalProvesFile, Provable, RecoveryContext, RecoveryRoute, AcceptedIdentity, OwnContext, AttemptKeepsPast, ByPlace, To
  <2>4. AttemptKeepsPast' /\ ByPlace'
    BY <1>17, ConstantsAssumption
       DEF ReloadSucceeds, TypeOK, JournalProvesFile, Provable, RecoveryContext, RecoveryRoute, AcceptedIdentity, OwnContext, AttemptKeepsPast, ByPlace, To
  <2> QED BY <2>2, <2>3, <2>4
<1>18. CASE ReloadFails
  <2>1. att' \in Attempts
    BY <1>18, RestingAttempt
       DEF ReloadFails, TypeOK, To, Done
  <2>2. TypeOK'
    BY <1>18, <2>1
       DEF ReloadFails, TypeOK, To, Done, PCs, Fault
  <2>3. JournalProvesFile' /\ RecoveryContext' /\ OwnContext(journal)'
    BY <1>18, ConstantsAssumption
       DEF ReloadFails, TypeOK, JournalProvesFile, Provable, RecoveryContext, RecoveryRoute, AcceptedIdentity, OwnContext, AttemptKeepsPast, ByPlace, To, Done
  <2>4. AttemptKeepsPast' /\ ByPlace'
    BY <1>18, ConstantsAssumption
       DEF ReloadFails, TypeOK, JournalProvesFile, Provable, RecoveryContext, RecoveryRoute, AcceptedIdentity, OwnContext, AttemptKeepsPast, ByPlace, To, Done
  <2> QED BY <2>2, <2>3, <2>4
<1>19. CASE Verify
  <2>1. att' \in Attempts
    BY <1>19, AttemptTypes
       DEF Verify, TypeOK, To
  <2>2. TypeOK'
    BY <1>19, <2>1
       DEF Verify, TypeOK, Fault, To, PCs
  <2>3. JournalProvesFile' /\ RecoveryContext' /\ OwnContext(journal)'
    BY <1>19, ConstantsAssumption
       DEF Verify, TypeOK, JournalProvesFile, Provable, RecoveryContext, RecoveryRoute, AcceptedIdentity, OwnContext, AttemptKeepsPast, ByPlace, To, Attempts
  <2>4. AttemptKeepsPast' /\ ByPlace'
    BY <1>19, ConstantsAssumption
       DEF Verify, TypeOK, JournalProvesFile, Provable, RecoveryContext, RecoveryRoute, AcceptedIdentity, OwnContext, AttemptKeepsPast, ByPlace, To, Attempts
  <2> QED BY <2>2, <2>3, <2>4
<1>20. CASE Revert
  <2>1. att' \in Attempts
    BY <1>20
       DEF Revert, TypeOK, To
  <2>2. TypeOK'
    BY <1>20, <2>1
       DEF Revert, TypeOK, Fault, To, PCs
  <2>3. JournalProvesFile' /\ RecoveryContext' /\ OwnContext(journal)'
    BY <1>20, ConstantsAssumption
       DEF Revert, TypeOK, JournalProvesFile, Provable, RecoveryContext, RecoveryRoute, AcceptedIdentity, OwnContext, AttemptKeepsPast, ByPlace, To
  <2>4. AttemptKeepsPast' /\ ByPlace'
    BY <1>20, ConstantsAssumption
       DEF Revert, TypeOK, JournalProvesFile, Provable, RecoveryContext, RecoveryRoute, AcceptedIdentity, OwnContext, AttemptKeepsPast, ByPlace, To
  <2> QED BY <2>2, <2>3, <2>4
<1>21. CASE Replace
  <2>1. att' \in Attempts
    BY <1>21
       DEF Replace, TypeOK, To
  <2>2. TypeOK'
    BY <1>21, <2>1
       DEF Replace, TypeOK, AttemptKeepsPast, Attempts, To, PCs
  <2>3. JournalProvesFile' /\ RecoveryContext' /\ OwnContext(journal)'
    BY <1>21, ConstantsAssumption
       DEF Replace, TypeOK, JournalProvesFile, Provable, RecoveryContext, RecoveryRoute, AcceptedIdentity, OwnContext, AttemptKeepsPast, ByPlace, To, Attempts
  <2>4. AttemptKeepsPast' /\ ByPlace'
    BY <1>21, ConstantsAssumption
       DEF Replace, TypeOK, JournalProvesFile, Provable, RecoveryContext, RecoveryRoute, AcceptedIdentity, OwnContext, AttemptKeepsPast, ByPlace, To, Attempts
  <2> QED BY <2>2, <2>3, <2>4
<1>22. CASE Confirm
  <2>1. att' \in Attempts
    BY <1>22, RestingAttempt
       DEF Confirm, TypeOK, To, Done
  <2>2. TypeOK'
    BY <1>22, <2>1
       DEF Confirm, TypeOK, To, Done, Fault, Probe, FinalizeRotation, Rotations, PCs
  <2>3. JournalProvesFile' /\ RecoveryContext' /\ OwnContext(journal)'
    BY <1>22, ConstantsAssumption
       DEF Confirm, TypeOK, JournalProvesFile, Provable, RecoveryContext, RecoveryRoute, AcceptedIdentity, OwnContext, AttemptKeepsPast, ByPlace, To, Done
  <2>4. AttemptKeepsPast' /\ ByPlace'
    BY <1>22, ConstantsAssumption
       DEF Confirm, TypeOK, JournalProvesFile, Provable, RecoveryContext, RecoveryRoute, AcceptedIdentity, OwnContext, AttemptKeepsPast, ByPlace, To, Done
  <2> QED BY <2>2, <2>3, <2>4
<1>23. CASE Settle
  <2>1. att' \in Attempts
    BY <1>23
       DEF Settle, TypeOK, To
  <2>2. TypeOK'
    BY <1>23, <2>1
       DEF Settle, TypeOK, To, PCs
  <2>3. JournalProvesFile' /\ RecoveryContext' /\ OwnContext(journal)'
    BY <1>23, ConstantsAssumption
       DEF Settle, TypeOK, JournalProvesFile, Provable, RecoveryContext, RecoveryRoute, AcceptedIdentity, OwnContext, AttemptKeepsPast, ByPlace, To
  <2>4. AttemptKeepsPast' /\ ByPlace'
    BY <1>23, ConstantsAssumption
       DEF Settle, TypeOK, JournalProvesFile, Provable, RecoveryContext, RecoveryRoute, AcceptedIdentity, OwnContext, AttemptKeepsPast, ByPlace, To
  <2> QED BY <2>2, <2>3, <2>4
<1>24. CASE Finish
  <2>1. att' \in Attempts
    BY <1>24, RestingAttempt
       DEF Finish, TypeOK, Done
  <2>2. TypeOK'
    BY <1>24, <2>1
       DEF Finish, TypeOK, Done, PCs
  <2>3. JournalProvesFile' /\ RecoveryContext' /\ OwnContext(journal)'
    BY <1>24, ConstantsAssumption
       DEF Finish, TypeOK, JournalProvesFile, Provable, RecoveryContext, RecoveryRoute, AcceptedIdentity, OwnContext, AttemptKeepsPast, ByPlace, Done
  <2>4. AttemptKeepsPast' /\ ByPlace'
    BY <1>24, ConstantsAssumption
       DEF Finish, TypeOK, JournalProvesFile, Provable, RecoveryContext, RecoveryRoute, AcceptedIdentity, OwnContext, AttemptKeepsPast, ByPlace, Done
  <2> QED BY <2>2, <2>3, <2>4
<1>25. CASE EngineLoads
  <2>1. att' \in Attempts
    BY <1>25, AttemptTypes
       DEF EngineLoads, TypeOK
  <2>2. TypeOK'
    BY <1>25, <2>1
       DEF EngineLoads, TypeOK, EngineReloads, InFlight, AttemptKeepsPast, Content, Attempts, ByPlace
  <2>3. JournalProvesFile' /\ RecoveryContext' /\ OwnContext(journal)'
    BY <1>25, ConstantsAssumption
       DEF EngineLoads, TypeOK, JournalProvesFile, Provable, RecoveryContext, RecoveryRoute, AcceptedIdentity, OwnContext, AttemptKeepsPast, ByPlace, Attempts
  <2>4. AttemptKeepsPast' /\ ByPlace'
    BY <1>25, ConstantsAssumption
       DEF EngineLoads, TypeOK, JournalProvesFile, Provable, RecoveryContext, RecoveryRoute, AcceptedIdentity, OwnContext, AttemptKeepsPast, ByPlace, Attempts
  <2> QED BY <2>2, <2>3, <2>4
<1>26. CASE Fail
  <2>1. att' \in Attempts
    BY <1>26, RestingAttempt
       DEF Fail, TypeOK, To, Done
  <2>2. TypeOK'
    BY <1>26, <2>1
       DEF Fail, TypeOK, To, Done, PCs
  <2>3. JournalProvesFile' /\ RecoveryContext' /\ OwnContext(journal)'
    BY <1>26, ConstantsAssumption
       DEF Fail, TypeOK, JournalProvesFile, Provable, RecoveryContext, RecoveryRoute, AcceptedIdentity, OwnContext, AttemptKeepsPast, ByPlace, To, Done, RollsBack, RollbackOnFailure
  <2>4. AttemptKeepsPast' /\ ByPlace'
    BY <1>26, ConstantsAssumption
       DEF Fail, TypeOK, JournalProvesFile, Provable, RecoveryContext, RecoveryRoute, AcceptedIdentity, OwnContext, AttemptKeepsPast, ByPlace, To, Done, RollsBack, RollbackOnFailure
  <2> QED BY <2>2, <2>3, <2>4
<1>27. CASE RestoreFile
  <2>1. att' \in Attempts
    BY <1>27, AttemptTypes
       DEF RestoreFile, TypeOK
  <2>2. TypeOK'
    BY <1>27, <2>1
       DEF RestoreFile, TypeOK, PCs, Attempts
  <2>3. JournalProvesFile' /\ RecoveryContext' /\ OwnContext(journal)'
    BY <1>27, ConstantsAssumption
       DEF RestoreFile, TypeOK, JournalProvesFile, Provable, RecoveryContext, RecoveryRoute, AcceptedIdentity, OwnContext, AttemptKeepsPast, ByPlace, Attempts
  <2>4. AttemptKeepsPast' /\ ByPlace'
    BY <1>27, ConstantsAssumption
       DEF RestoreFile, TypeOK, JournalProvesFile, Provable, RecoveryContext, RecoveryRoute, AcceptedIdentity, OwnContext, AttemptKeepsPast, ByPlace, Attempts
  <2> QED BY <2>2, <2>3, <2>4
<1>28. CASE RestoreEngine
  <2>1. att' \in Attempts
    BY <1>28, AttemptTypes
       DEF RestoreEngine, TypeOK
  <2>2. TypeOK'
    BY <1>28, <2>1
       DEF RestoreEngine, TypeOK, Fault, PCs
  <2>3. JournalProvesFile' /\ RecoveryContext' /\ OwnContext(journal)'
    BY <1>28, ConstantsAssumption
       DEF RestoreEngine, TypeOK, JournalProvesFile, Provable, RecoveryContext, RecoveryRoute, AcceptedIdentity, OwnContext, AttemptKeepsPast, ByPlace, Attempts
  <2>4. AttemptKeepsPast' /\ ByPlace'
    BY <1>28, ConstantsAssumption
       DEF RestoreEngine, TypeOK, JournalProvesFile, Provable, RecoveryContext, RecoveryRoute, AcceptedIdentity, OwnContext, AttemptKeepsPast, ByPlace, Attempts
  <2> QED BY <2>2, <2>3, <2>4
<1>29. CASE Undo
  <2>1. att' \in Attempts
    BY <1>29, RestingAttempt
       DEF Undo, TypeOK, Done
  <2>2. TypeOK'
    BY <1>29, <2>1, JournalTypes
       DEF Undo, TypeOK, Done, UndoneJournal, JournalProvesFile, Attempts, Rotations, PCs
  <2>3. /\ pc = "undo" /\ pc' = "idle" /\ UNCHANGED <<up, file>> /\ file = att.prevContent
        /\ journal # NoJournal /\ journal' = UndoneJournal(att) /\ route' = att.oldRoute
    BY <1>29 DEF Undo, Done, AttemptKeepsPast, ByPlace
  <2>4. CASE att.restoreFailed
    <3>1. /\ journal' \in Journals /\ journal' # NoJournal
          /\ journal'.accepted.hash = file /\ journal'.candidate = NoCandidate
          /\ file # NoFile => journal'.accepted.route = file.route
      BY <2>3, <2>4, JournalTypes, ConstantsAssumption
         DEF UndoneJournal, BegunJournal, TypeOK, JournalProvesFile, Provable, RecoveryContext, RecoveryRoute, AcceptedIdentity, OwnContext,
           AttemptKeepsPast, ByPlace
    <3> QED BY <2>2, <2>3, <3>1 DEF JournalProvesFile, Provable, RecoveryContext, RecoveryRoute, AcceptedIdentity, OwnContext,
           AttemptKeepsPast, ByPlace
  <2>5. CASE ~att.restoreFailed
    <3>1. journal' = att.prevJournal
      BY <2>3, <2>5 DEF UndoneJournal
    <3> QED BY <2>2, <2>3, <3>1 DEF JournalProvesFile, Provable, RecoveryContext, RecoveryRoute, AcceptedIdentity, OwnContext,
           AttemptKeepsPast, ByPlace
  <2> QED BY <2>4, <2>5 DEF TypeOK, Attempts
<1>30. CASE UNCHANGED vars
  BY <1>30 DEF vars, TypeOK, JournalProvesFile, Provable, RecoveryContext, RecoveryRoute, AcceptedIdentity, OwnContext, AttemptKeepsPast, ByPlace
<1> QED
  BY <1>1, <1>2, <1>3, <1>4, <1>5, <1>6, <1>7, <1>8, <1>9, <1>10, <1>11, <1>12, <1>13, <1>14, <1>15, <1>16, <1>17, <1>18, <1>19, <1>20, <1>21, <1>22, <1>23, <1>24, <1>25, <1>26, <1>27, <1>28, <1>29, <1>30 DEF Next, Processes, Clients, Apply, Recover

-----------------------------------------------------------------------------
\* The invariant holds in every reachable state: its conjuncts on the attempt are
\* what makes the three properties below survive a step.
THEOREM Invariance == Spec => []IInv
<1>1. Init => IInv
  BY Initially
<1>2. IInv /\ [Next]_vars => IInv'
  BY Inductive
<1> QED BY <1>1, <1>2, PTL DEF Spec

\* Every variable keeps its type (the locals of applyConfigSerialized included).
THEOREM TypeCorrect == Spec => []TypeOK
<1>1. IInv => TypeOK
  BY DEF IInv
<1> QED BY <1>1, Invariance, PTL

\* Boot is never refused over an interrupted operation: wherever the server or
\* the engine stops, the bytes of config.yaml are an identity of the journal.
THEOREM RecoveryNeverBlocked == Spec => []JournalProvesFile
<1>1. IInv => JournalProvesFile
  BY DEF IInv
<1> QED BY <1>1, Invariance, PTL

\* Recovery validates the accepted file in the context it was generated under.
THEOREM RecoveryInContext == Spec => []RecoveryContext
<1>1. IInv => RecoveryContext
  BY DEF IInv
<1> QED BY <1>1, Invariance, PTL

----------------------------------------------------------------------------
(* A rotation of the engine secret never locks the panel out: the inductive *)
(* invariant behind CredentialKept, on top of the one above.                 *)

\* The secrets the database can still produce; the engine of a file without a secret
\* accepts any of them.
Recoverable == KnownSecrets(rotation, confirmed) \cup {NoAuth}

\* What the engine accepts, and would accept after a restart, is recoverable, and the
\* client of a running server tries all of it.
Reachable ==
    /\ rotation # NoRotation => rotation.prev = confirmed
    /\ cred \in Recoverable
    /\ file # NoFile => file.secret \in Recoverable
    /\ up => known = KnownSecrets(rotation, confirmed)

\* So is what an attempt may still send to the engine, or put back.
AttemptReachable ==
    /\ pc \in {"confirmSkip", "skip", "record", "reload", "verify", "revert", "replace",
               "confirm", "settle", "finish"} => att.content.secret = CandidateSecret
    /\ pc \notin {"idle", "skip", "settle", "finish"} /\ att.prevContent # NoFile =>
          att.prevContent.secret \in Recoverable

\* A rotation is taken back only while the engine cannot have seen it.
UndoneUnseen ==
    /\ pc # "idle" /\ att.created => att.req.kind = "secret"
    /\ pc \in {"restoreFile", "restoreEngine"} => att.req.kind = "route"
    /\ pc = "undo" /\ att.created => ~att.activated
    /\ pc # "idle" /\ att.created /\ ~att.activated =>
          /\ cred \in {confirmed, NoAuth}
          /\ file # NoFile => file.secret \in {confirmed, NoAuth}

SecretInv == Reachable /\ AttemptReachable /\ UndoneUnseen

LEMMA SecretInitially == Init => SecretInv
BY DEF Init, SecretInv, Reachable, AttemptReachable, UndoneUnseen, Recoverable, KnownSecrets

\* Steps that touch neither the secrets nor the attempt.
LEMMA Undisturbed ==
    SecretInv /\ UNCHANGED <<confirmed, rotation, file, cred, up, known, pc, att>> => SecretInv'
BY DEF SecretInv, Reachable, AttemptReachable, UndoneUnseen, Recoverable, KnownSecrets, CandidateSecret

\* The start and the end of processes.
LEMMA ProcessesKeepSecrets == IInv /\ SecretInv /\ Processes => SecretInv'
<1> SUFFICES ASSUME IInv, SecretInv, Processes PROVE SecretInv'
  OBVIOUS
<1> USE DEF IInv, SecretInv, durable, secrets, engine, budget
<1>1. CASE Boot
  BY <1>1, ConstantsAssumption
     DEF Boot, BootRotation, TypeOK, AttemptKeepsPast, ByPlace, Reachable, AttemptReachable,
         UndoneUnseen,
         Recoverable, KnownSecrets
<1>2. CASE Bootstrap
  <2> DEFINE secret    == IF BootRotation = NoRotation THEN confirmed ELSE BootRotation.next
             generated == [data |-> data, route |-> route, secret |-> secret]
  <2>1. pc = "idle" /\ ~up /\ rotation' = BootRotation /\ UNCHANGED <<confirmed, cred, up, known, pc, att>>
    BY <1>2 DEF Bootstrap, AttemptKeepsPast
  <2>2. secret \in Recoverable' /\ Recoverable \subseteq Recoverable'
    BY <2>1, ConstantsAssumption DEF BootRotation, Recoverable, KnownSecrets, Reachable
  <2>3. file' # NoFile => file'.secret \in Recoverable'
    <3> HIDE DEF secret
    <3>1. file' \in {file, generated, [file EXCEPT !.secret = secret]}
      BY <1>2 DEF Bootstrap, secret
    <3>2. file # NoFile => [file EXCEPT !.secret = secret].secret = secret
      BY DEF TypeOK, Content
    <3>3. CASE file = NoFile
      <4>1. file' \in {file, generated}
        BY <1>2, <3>3 DEF Bootstrap, secret
      <4> QED BY <2>2, <3>3, <4>1
    <3>4. CASE file # NoFile
      <4>1. file.secret \in Recoverable'
        BY <2>2, <3>4 DEF Reachable
      <4>2. file'.secret \in {file.secret, secret}
        <5> DEFINE again == [file EXCEPT !.secret = secret]
        <5>1. generated.secret = secret /\ again.secret = secret /\ file' \in {file, generated, again}
          BY <3>1, <3>2, <3>4
        <5> HIDE DEF generated, again
        <5> QED BY <5>1
      <4> QED BY <2>2, <4>1, <4>2
    <3> QED BY <3>3, <3>4
  <2>4. rotation' # NoRotation => rotation'.prev = confirmed'
    BY <2>1 DEF BootRotation, Reachable
  <2> QED BY <2>1, <2>2, <2>3, <2>4 DEF Reachable, AttemptReachable, UndoneUnseen
<1>3. CASE Crash
  BY <1>3, ConstantsAssumption
     DEF Crash, Done, NoAttempt, TypeOK, AttemptKeepsPast, ByPlace, Reachable, AttemptReachable,
         UndoneUnseen,
         Recoverable, KnownSecrets
<1>4. CASE EngineRestart
  BY <1>4, ConstantsAssumption
     DEF EngineRestart, CandidateSecret, TypeOK, AttemptKeepsPast, ByPlace, Reachable,
         AttemptReachable, UndoneUnseen,
         Recoverable, KnownSecrets
<1>5. CASE Reconnect
  BY <1>5, Undisturbed DEF Reconnect
<1> QED BY <1>1, <1>2, <1>3, <1>4, <1>5 DEF Processes

\* One apply, from its transaction to its result.
LEMMA ApplyKeepsSecrets == IInv /\ SecretInv /\ Apply => SecretInv'
<1> SUFFICES ASSUME IInv, SecretInv, Apply PROVE SecretInv'
  OBVIOUS
<1> USE DEF IInv, SecretInv, durable, secrets, engine, budget
<1>1. CASE BeginApply
  BY <1>1, ConstantsAssumption
     DEF BeginApply, NoAttempt, TypeOK, AttemptKeepsPast, ByPlace, Reachable, AttemptReachable,
         UndoneUnseen,
         Recoverable, KnownSecrets
<1>2. CASE RejectApply
  BY <1>2, Undisturbed DEF RejectApply
<1>3. CASE PrepareSecret
  <2>1. PICK safe \in BOOLEAN : Prepared(safe)
    BY <1>3 DEF PrepareSecret
  <2>2. /\ att'.content.secret = CandidateSecret /\ att'.prevContent = att.prevContent
        /\ att'.created = att.created /\ att'.req = att.req
    <3> DEFINE c == [att.content EXCEPT !.secret = CandidateSecret]
    <3>1. c.secret = CandidateSecret
      BY <1>3 DEF PrepareSecret, AttemptKeepsPast, TypeOK, Attempts, Content
    <3>2. att' = [att EXCEPT !.content = c, !.rollbackSafe = safe, !.activated = IsNoOp(att, c)]
      BY <2>1 DEF Prepared
    <3> HIDE DEF c
    <3> QED BY <3>1, <3>2 DEF TypeOK, Attempts
  <2>3. /\ UNCHANGED <<confirmed, rotation, file, cred, up>> /\ pc = "prepare"
        /\ known' = IF rotation = NoRotation THEN known ELSE KnownSecrets(rotation, confirmed)
        /\ pc' \in {"record", "skip", "confirmSkip"}
    BY <1>3, <2>1 DEF PrepareSecret, Prepared
  <2>4. Reachable'
    BY <2>3 DEF Reachable, Recoverable, KnownSecrets
  <2>5. AttemptReachable'
    BY <2>2, <2>3 DEF AttemptReachable, Recoverable, KnownSecrets, CandidateSecret
  <2>6. att.created => cred \in {confirmed, NoAuth} /\ (file # NoFile => file.secret \in {confirmed, NoAuth})
    BY <2>3 DEF UndoneUnseen, ByPlace
  <2>7. UndoneUnseen'
    BY <2>2, <2>3, <2>6 DEF UndoneUnseen
  <2> QED BY <2>4, <2>5, <2>7
<1>4. CASE PrepareFails
  <2>1. PICK safe \in BOOLEAN : att' = [att EXCEPT !.rollbackSafe = safe]
    BY <1>4 DEF PrepareFails
  <2>2. UNCHANGED <<att.content, att.prevContent, att.created, att.req, att.activated>>
    BY <2>1 DEF TypeOK, Attempts
  <2>3. /\ UNCHANGED <<confirmed, rotation, file, cred, up>> /\ pc = "prepare" /\ pc' = "fail"
        /\ known' = IF rotation = NoRotation THEN known ELSE KnownSecrets(rotation, confirmed)
    BY <1>4 DEF PrepareFails
  <2> QED BY <2>2, <2>3 DEF Reachable, AttemptReachable, UndoneUnseen, Recoverable, KnownSecrets
<1>5. CASE ConfirmSkip
  BY <1>5, ConstantsAssumption
     DEF ConfirmSkip, FinalizeRotation, Probe, Authenticates, To, CandidateSecret, TypeOK,
         AttemptKeepsPast, ByPlace, Reachable, AttemptReachable, UndoneUnseen,
         Recoverable, KnownSecrets
<1>6. CASE Skip
  BY <1>6, ConstantsAssumption
     DEF Skip, Done, NoAttempt, TypeOK, AttemptKeepsPast, ByPlace, Reachable, AttemptReachable,
         UndoneUnseen,
         Recoverable, KnownSecrets
<1>7. CASE Record
  BY <1>7, ConstantsAssumption
     DEF Record, CandidateSecret, TypeOK, AttemptKeepsPast, ByPlace, Reachable, AttemptReachable,
         UndoneUnseen,
         Recoverable, KnownSecrets
<1>8. CASE ReloadSucceeds
  BY <1>8, ConstantsAssumption
     DEF ReloadSucceeds, To, CandidateSecret, TypeOK, AttemptKeepsPast, ByPlace, Reachable,
         AttemptReachable, UndoneUnseen,
         Recoverable, KnownSecrets
<1>9. CASE ReloadFails
  BY <1>9, ConstantsAssumption
     DEF ReloadFails, To, Done, NoAttempt, TypeOK, AttemptKeepsPast, ByPlace, Reachable,
         AttemptReachable, UndoneUnseen,
         Recoverable, KnownSecrets
<1>10. CASE Verify
  <2>1. /\ UNCHANGED <<confirmed, rotation, file, cred, up, known>> /\ pc = "verify"
        /\ pc' \in {"replace", "revert", "fail"}
        /\ att' \in {att, [att EXCEPT !.landed = FALSE]}
    BY <1>10 DEF Verify, To
  <2>2. UNCHANGED <<att.content, att.prevContent, att.created, att.req, att.activated>>
    BY <2>1 DEF TypeOK, Attempts
  <2> QED BY <2>1, <2>2
          DEF Reachable, AttemptReachable, UndoneUnseen, Recoverable, KnownSecrets, CandidateSecret
<1>11. CASE Revert
  BY <1>11, ConstantsAssumption
     DEF Revert, To, CandidateSecret, TypeOK, AttemptKeepsPast, ByPlace, Reachable,
         AttemptReachable, UndoneUnseen,
         Recoverable, KnownSecrets
<1>12. CASE Replace
  BY <1>12, ConstantsAssumption
     DEF Replace, To, CandidateSecret, TypeOK, AttemptKeepsPast, ByPlace, Reachable,
         AttemptReachable, UndoneUnseen,
         Recoverable, KnownSecrets
<1>13. CASE Confirm
  BY <1>13, ConstantsAssumption
     DEF Confirm, FinalizeRotation, Probe, Authenticates, To, Done, NoAttempt, CandidateSecret,
         TypeOK, AttemptKeepsPast, ByPlace, Reachable, AttemptReachable, UndoneUnseen,
         Recoverable, KnownSecrets
<1>14. CASE Settle
  BY <1>14, ConstantsAssumption
     DEF Settle, To, CandidateSecret, TypeOK, AttemptKeepsPast, ByPlace, Reachable,
         AttemptReachable, UndoneUnseen,
         Recoverable, KnownSecrets
<1>15. CASE Finish
  BY <1>15, ConstantsAssumption
     DEF Finish, Done, NoAttempt, TypeOK, AttemptKeepsPast, ByPlace, Reachable, AttemptReachable,
         UndoneUnseen,
         Recoverable, KnownSecrets
<1> QED BY <1>1, <1>2, <1>3, <1>4, <1>5, <1>6, <1>7, <1>8, <1>9, <1>10, <1>11, <1>12, <1>13,
           <1>14, <1>15 DEF Apply

\* The engine and the catch block.
LEMMA RecoverKeepsSecrets == IInv /\ SecretInv /\ (EngineLoads \/ Recover) => SecretInv'
<1> SUFFICES ASSUME IInv, SecretInv, EngineLoads \/ Recover PROVE SecretInv'
  OBVIOUS
<1> USE DEF IInv, SecretInv, durable, secrets, engine, budget
<1>1. CASE EngineLoads
  BY <1>1, ConstantsAssumption
     DEF EngineLoads, EngineReloads, InFlight, CandidateSecret, Rotations, TypeOK,
         AttemptKeepsPast, ByPlace, Reachable, AttemptReachable, UndoneUnseen,
         Recoverable, KnownSecrets
<1>2. CASE Fail
  BY <1>2, ConstantsAssumption
     DEF Fail, To, Done, NoAttempt, RollsBack, RollbackOnFailure, Staged, TypeOK, AttemptKeepsPast,
         ByPlace, Reachable, AttemptReachable, UndoneUnseen,
         Recoverable, KnownSecrets
<1>3. CASE RestoreFile
  BY <1>3, ConstantsAssumption
     DEF RestoreFile, TypeOK, AttemptKeepsPast, ByPlace, Reachable, AttemptReachable, UndoneUnseen,
         Recoverable, KnownSecrets
<1>4. CASE RestoreEngine
  <2>1. /\ UNCHANGED <<confirmed, rotation, file, cred, up, known>> /\ pc = "restoreEngine"
        /\ pc' = "undo" /\ att' \in {att, [att EXCEPT !.restoreFailed = TRUE]}
    BY <1>4 DEF RestoreEngine
  <2>2. UNCHANGED <<att.content, att.prevContent, att.created, att.req, att.activated>>
    BY <2>1 DEF TypeOK, Attempts
  <2>3. ~att.created
    BY <2>1 DEF UndoneUnseen
  <2> QED BY <2>1, <2>2, <2>3 DEF Reachable, AttemptReachable, UndoneUnseen, Recoverable, KnownSecrets
<1>5. CASE Undo
  BY <1>5, ConstantsAssumption
     DEF Undo, Done, NoAttempt, TypeOK, AttemptKeepsPast, ByPlace, Reachable, AttemptReachable,
         UndoneUnseen,
         Recoverable, KnownSecrets
<1> QED BY <1>1, <1>2, <1>3, <1>4, <1>5 DEF Recover

\* What the engine accepts, and may come to accept, is recoverable from the database in every state.
THEOREM SecretInvariance == Spec => []SecretInv
<1>1. IInv /\ SecretInv /\ [Next]_vars => SecretInv'
  <2>1. SecretInv /\ (Clients \/ UNCHANGED vars) => SecretInv'
    BY Undisturbed DEF Clients, EditData, SetRoute, SetSecret, ReloadRequest, Submit, engine, vars
  <2> QED BY <2>1, ProcessesKeepSecrets, ApplyKeepsSecrets, RecoverKeepsSecrets DEF Next
<1> QED BY <1>1, SecretInitially, Invariance, PTL DEF Spec

\* Whatever rotations, crashes, lost replies and engine restarts happen, the database and
\* the client of a running server hold a credential the engine accepts.
THEOREM NeverLockedOut == Spec => []CredentialKept
<1>1. IInv /\ SecretInv => CredentialKept
  BY DEF IInv, SecretInv, Reachable, Recoverable, KnownSecrets, CredentialKept, Authenticates
<1> QED BY <1>1, Invariance, SecretInvariance, PTL

-----------------------------------------------------------------------------
(***************************************************************************)
(* What a closed journal means: the engine runs the accepted file          *)
(* (EngineAgrees, VerifiedIsLive, AcceptedFileKept), and that file is the  *)
(* one the saved settings generate (NoEditLost); and that this is what an  *)
(* abstract agreement of the three stores promises.                        *)
(***************************************************************************)

\* The engine runs these bytes, or a reload that will repair it is due.
Runs(bytes) == running = bytes \/ RepairDue

\* A candidate the engine has taken is what it runs.
CandidateRuns ==
    (\/ pc \in {"verify", "replace", "confirm", "settle", "finish"}
     \/ pc = "reload" /\ att.landed) => Runs(att.content)

\* Before its activation an attempt finds the engine as the last completed one left it,
\* unless it is itself the reload that repairs the engine.
PastRuns ==
    (/\ pc # "idle" /\ (~att.activated \/ pc \in {"confirmSkip", "skip"})
     /\ att.prevJournal = NoJournal /\ att.prevContent # NoFile /\ att.req # Forced)
    => Runs(att.prevContent)

\* An attempt taken back has brought the engine back, or remembers that it failed to.
RestoredRuns ==
    (/\ att.prevContent # NoFile
     /\ \/ pc = "restoreEngine" /\ att.landed
        \/ pc = "undo" /\ att.activated /\ ~att.restoreFailed)
    => Runs(att.prevContent)

\* Only a staged mutation is taken back, and only a change of route after its activation;
\* only an attempt without a past to repair is skipped.
TakenBack ==
    /\ pc \in {"restoreFile", "restoreEngine", "undo"} => Staged(att.req)
    /\ pc \in {"restoreFile", "restoreEngine"} => att.activated
    /\ pc \in {"confirmSkip", "skip"} => att.prevJournal = NoJournal /\ att.req # Forced
    /\ pc \in {"prepare", "confirmSkip", "skip", "record"} => ~att.landed

EngineInv == EngineAgrees /\ CandidateRuns /\ PastRuns /\ RestoredRuns /\ TakenBack

LEMMA EngineInitially == Init => EngineInv
BY DEF Init, EngineInv, EngineAgrees, CandidateRuns, PastRuns, RestoredRuns, TakenBack

----------------------------------------------------------------------------
(* The reload that will repair the engine *)

\* A request behind the others leaves a queued reload in the queue.
LEMMA QueueGrows ==
    ASSUME TypeOK, NEW req \in Requests, queue' = Append(queue, req)
    PROVE  (ForceQueued => ForceQueued') /\ (req = Forced => ForceQueued')
<1>1. /\ Len(queue') = Len(queue) + 1
      /\ queue'[Len(queue) + 1] = req
      /\ \A i \in 1..Len(queue) : queue'[i] = queue[i]
  BY DEF TypeOK
<1>2. Len(queue) \in Nat
  BY DEF TypeOK
<1> QED BY <1>1, <1>2 DEF ForceQueued

\* An apply that is not itself the reload leaves it in the queue.
LEMMA QueueShrinks ==
    ASSUME TypeOK, queue # <<>>, Head(queue) # Forced, queue' = Tail(queue)
    PROVE  ForceQueued => ForceQueued'
<1> SUFFICES ASSUME NEW i \in 1..Len(queue), queue[i] = Forced PROVE ForceQueued'
  BY DEF ForceQueued
<1>1. /\ Len(queue) \in Nat /\ Len(queue') = Len(queue) - 1
      /\ \A k \in 1..Len(queue') : queue'[k] = queue[k + 1]
      /\ Head(queue) = queue[1]
  BY DEF TypeOK
<1>2. i - 1 \in 1..Len(queue') /\ queue'[i - 1] = Forced
  BY <1>1
<1> QED BY <1>2 DEF ForceQueued

\* Steps that touch neither the attempt, the journal nor the engine, and lose no reload.
LEMMA EngineUndisturbed ==
    /\ EngineInv /\ (RepairDue => RepairDue')
    /\ UNCHANGED <<journal, file, running, up, pc, att>>
    => EngineInv'
BY DEF EngineInv, EngineAgrees, CandidateRuns, PastRuns, RestoredRuns, TakenBack, Runs

----------------------------------------------------------------------------
(* Every step keeps the invariant *)

\* The start and the end of processes.
LEMMA ProcessesKeepEngine == IInv /\ EngineInv /\ Processes => EngineInv'
<1> SUFFICES ASSUME IInv, EngineInv, Processes PROVE EngineInv'
  OBVIOUS
<1> USE DEF IInv, EngineInv, durable, secrets, engine, budget
<1>1. CASE Boot
  <2>1. ForceQueued'
    BY <1>1 DEF Boot, ForceQueued
  <2> QED BY <1>1, <2>1
          DEF Boot, AttemptKeepsPast, EngineAgrees, CandidateRuns, PastRuns, RestoredRuns, TakenBack, RepairDue
<1>2. CASE Bootstrap
  BY <1>2 DEF Bootstrap, AttemptKeepsPast, EngineAgrees, CandidateRuns, PastRuns, RestoredRuns, TakenBack
<1>3. CASE Crash
  BY <1>3 DEF Crash, Done, EngineAgrees, CandidateRuns, PastRuns, RestoredRuns, TakenBack
<1>4. CASE EngineRestart
  BY <1>4 DEF EngineRestart, AttemptKeepsPast, EngineAgrees, CandidateRuns, PastRuns, RestoredRuns,
              TakenBack, Runs, RepairDue
<1>5. CASE Reconnect
  <2>1. ForceQueued'
    BY <1>5, QueueGrows, RequestTypes DEF Reconnect
  <2> QED BY <1>5, <2>1, EngineUndisturbed DEF Reconnect, RepairDue
<1> QED BY <1>1, <1>2, <1>3, <1>4, <1>5 DEF Processes

\* Requests queue up behind a reload that is due.
LEMMA ClientsKeepEngine == IInv /\ EngineInv /\ Clients => EngineInv'
<1> SUFFICES ASSUME IInv, EngineInv, Clients PROVE EngineInv'
  OBVIOUS
<1>1. PICK req \in Requests : Submit(req)
  BY RequestTypes DEF Clients, EditData, SetRoute, SetSecret, ReloadRequest
<1>2. RepairDue => RepairDue'
  BY <1>1, QueueGrows DEF Submit, IInv, RepairDue
<1> QED BY <1>1, <1>2, EngineUndisturbed DEF Submit, engine

\* One apply, from its transaction to its result.
LEMMA ApplyKeepsEngine == IInv /\ EngineInv /\ Apply => EngineInv'
<1> SUFFICES ASSUME IInv, EngineInv, Apply PROVE EngineInv'
  OBVIOUS
<1> USE DEF IInv, EngineInv, durable, secrets, engine, budget
<1>1. CASE BeginApply
  <2>1. /\ pc' = "prepare" /\ up /\ UNCHANGED <<file, running, outage>>
        /\ queue # <<>> /\ queue' = Tail(queue)
        /\ journal' = BegunJournal(journal, file, route) /\ Provable(journal, file)
        /\ att'.req = Head(queue) /\ att'.prevJournal = journal /\ att'.prevContent = file
        /\ ~att'.activated /\ ~att'.landed
    BY <1>1 DEF BeginApply, NoAttempt
  <2>2. journal' # NoJournal
    BY <2>1, JournalTypes, ConstantsAssumption DEF TypeOK
  <2>3. Head(queue) # Forced /\ RepairDue => RepairDue'
    BY <2>1, QueueShrinks DEF RepairDue
  <2> QED BY <2>1, <2>2, <2>3
          DEF EngineAgrees, CandidateRuns, PastRuns, RestoredRuns, TakenBack, Runs
<1>2. CASE RejectApply
  <2>1. Head(queue) # Forced
    BY <1>2 DEF RejectApply, StageAllowed, Forced
  <2>2. RepairDue => RepairDue'
    BY <1>2, <2>1, QueueShrinks DEF RejectApply, RepairDue
  <2> QED BY <1>2, <2>2, EngineUndisturbed DEF RejectApply
<1>3. CASE PrepareSecret
  <2>1. PICK safe \in BOOLEAN : Prepared(safe)
    BY <1>3 DEF PrepareSecret
  <2> DEFINE c == [att.content EXCEPT !.secret = CandidateSecret]
             noop == IsNoOp(att, c)
  <2>2. /\ att' = [att EXCEPT !.content = c, !.rollbackSafe = safe, !.activated = noop]
        /\ pc' = IF ~noop THEN "record" ELSE IF rotation = NoRotation THEN "skip" ELSE "confirmSkip"
    BY <2>1 DEF Prepared
  <2>3. noop => att.prevJournal = NoJournal /\ att.req # Forced
    BY DEF IsNoOp, IsForced, Forced
  <2> HIDE DEF noop, c
  <2>4. /\ UNCHANGED <<att.req, att.prevJournal, att.prevContent, att.landed>>
        /\ att'.activated = noop
    BY <2>2 DEF TypeOK, Attempts
  <2>5. UNCHANGED <<journal, file, running, up, outage, queue>> /\ pc = "prepare" /\ ~att.activated
    BY <1>3 DEF PrepareSecret, ByPlace
  <2> QED BY <2>2, <2>3, <2>4, <2>5
          DEF EngineAgrees, CandidateRuns, PastRuns, RestoredRuns, TakenBack, Runs, RepairDue, ForceQueued
<1>4. CASE PrepareFails
  <2>1. PICK safe \in BOOLEAN : att' = [att EXCEPT !.rollbackSafe = safe]
    BY <1>4 DEF PrepareFails
  <2>2. UNCHANGED <<att.req, att.prevJournal, att.prevContent, att.activated>>
    BY <2>1 DEF TypeOK, Attempts
  <2>3. UNCHANGED <<journal, file, running, up, outage, queue>> /\ pc = "prepare" /\ pc' = "fail"
    BY <1>4 DEF PrepareFails
  <2> QED BY <2>2, <2>3
          DEF EngineAgrees, CandidateRuns, PastRuns, RestoredRuns, TakenBack, Runs, RepairDue, ForceQueued
<1>5. CASE ConfirmSkip
  <2>1. pc = "confirmSkip" /\ pc' \in {"skip", "record"}
        /\ UNCHANGED <<journal, file, running, up, outage, queue, att>>
    BY <1>5 DEF ConfirmSkip, To
  <2> QED BY <2>1 
          DEF EngineAgrees, CandidateRuns, PastRuns, RestoredRuns, TakenBack, Runs, RepairDue, ForceQueued
<1>6. CASE Skip
  <2>1. file = att.prevContent /\ file = att.content /\ pc = "skip"
    BY <1>6 DEF Skip, ByPlace
  <2>2. file # NoFile => Runs(file)
    BY <2>1 DEF PastRuns, TakenBack
  <2> QED BY <1>6, <2>2
          DEF Skip, Done, EngineAgrees, CandidateRuns, PastRuns, RestoredRuns, TakenBack, Runs, RepairDue,
              ForceQueued
<1>7. CASE Record
  <2>1. UNCHANGED att.landed /\ att'.activated
    BY <1>7 DEF Record, TypeOK, Attempts
  <2>2. /\ journal' = WithCandidate(journal, att.content, route)
        /\ UNCHANGED <<file, running, up, outage, queue>> /\ pc = "record" /\ pc' = "reload"
    BY <1>7 DEF Record
  <2>3. journal \in Journals /\ att.content \in Content /\ route \in Routes
    BY <2>2 DEF AttemptKeepsPast, TypeOK, Attempts
  <2>4. journal' # NoJournal
    BY <2>2, <2>3, JournalTypes, ConstantsAssumption
  <2> QED BY <2>1, <2>2, <2>4
          DEF EngineAgrees, CandidateRuns, PastRuns, RestoredRuns, TakenBack
<1>8. CASE ReloadSucceeds
  BY <1>8 DEF ReloadSucceeds, To, ByPlace, EngineAgrees, CandidateRuns, PastRuns, RestoredRuns, TakenBack,
              Runs, RepairDue, ForceQueued
<1>9. CASE ReloadFails
  BY <1>9 DEF ReloadFails, To, Done, ByPlace, AttemptKeepsPast, EngineAgrees, CandidateRuns, PastRuns,
              RestoredRuns, TakenBack
<1>10. CASE Verify
  <2>1. /\ UNCHANGED <<journal, file, running, up, outage, queue>> /\ pc = "verify"
        /\ pc' \in {"replace", "revert", "fail"}
        /\ att' \in {att, [att EXCEPT !.landed = FALSE]}
    BY <1>10 DEF Verify, To
  <2>2. /\ UNCHANGED <<att.content, att.prevContent, att.prevJournal, att.req, att.activated>>
        /\ att.activated /\ journal # NoJournal
    BY <2>1 DEF TypeOK, Attempts, ByPlace, AttemptKeepsPast
  <2> QED BY <2>1, <2>2
          DEF EngineAgrees, CandidateRuns, PastRuns, RestoredRuns, TakenBack, Runs, RepairDue, ForceQueued
<1>11. CASE Revert
  BY <1>11 DEF Revert, To, ByPlace, AttemptKeepsPast, EngineAgrees, CandidateRuns, PastRuns, RestoredRuns,
               TakenBack
<1>12. CASE Replace
  BY <1>12 DEF Replace, To, ByPlace, AttemptKeepsPast, EngineAgrees, CandidateRuns, PastRuns, RestoredRuns,
               TakenBack, Runs, RepairDue, ForceQueued
<1>13. CASE Confirm
  <2>1. /\ UNCHANGED <<journal, file, running, up, outage, queue>> /\ pc = "confirm"
        /\ (pc' \in {"settle", "fail"} /\ att' = att) \/ pc' = "idle"
        /\ att.activated /\ journal # NoJournal
    BY <1>13 DEF Confirm, To, Done, ByPlace, AttemptKeepsPast
  <2> QED BY <2>1
          DEF EngineAgrees, CandidateRuns, PastRuns, RestoredRuns, TakenBack, Runs, RepairDue, ForceQueued
<1>14. CASE Settle
  BY <1>14 DEF Settle, To, AttemptKeepsPast, EngineAgrees, CandidateRuns, PastRuns, RestoredRuns,
               TakenBack, Runs, RepairDue, ForceQueued
<1>15. CASE Finish
  BY <1>15 DEF Finish, Done, ByPlace, EngineAgrees, CandidateRuns, PastRuns, RestoredRuns, TakenBack,
               Runs, RepairDue, ForceQueued
<1> QED BY <1>1, <1>2, <1>3, <1>4, <1>5, <1>6, <1>7, <1>8, <1>9, <1>10, <1>11, <1>12, <1>13,
           <1>14, <1>15 DEF Apply

\* The engine and the catch block.
LEMMA RecoverKeepsEngine == IInv /\ EngineInv /\ (EngineLoads \/ Recover) => EngineInv'
<1> SUFFICES ASSUME IInv, EngineInv, EngineLoads \/ Recover PROVE EngineInv'
  OBVIOUS
<1> USE DEF IInv, EngineInv, durable, secrets, engine, budget
<1>1. CASE EngineLoads
  <2>1. /\ UNCHANGED <<journal, file, up, pc>> /\ pc \in {"reload", "revert", "restoreEngine"}
        /\ running' = InFlight /\ att' = [att EXCEPT !.landed = TRUE]
    BY <1>1 DEF EngineLoads, EngineReloads
  <2>2. /\ UNCHANGED <<att.content, att.prevContent, att.prevJournal, att.req, att.activated>>
        /\ att.activated /\ journal # NoJournal
    BY <2>1 DEF TypeOK, Attempts, ByPlace, AttemptKeepsPast, TakenBack
  <2> QED BY <2>1, <2>2
          DEF InFlight, EngineAgrees, CandidateRuns, PastRuns, RestoredRuns, TakenBack, Runs
<1>2. CASE Fail
  <2>1. /\ UNCHANGED <<journal, file, running, up, outage, queue>> /\ pc = "fail" /\ journal # NoJournal
        /\ \/ RollbackOnFailure(att.req) /\ att.activated /\ pc' = "restoreFile" /\ att' = att
           \/ RollsBack(att) /\ ~att.activated /\ pc' = "undo" /\ att' = att
           \/ pc' = "idle"
    BY <1>2 DEF Fail, To, Done, RollsBack, AttemptKeepsPast
  <2>2. RollbackOnFailure(att.req) \/ RollsBack(att) => Staged(att.req)
    BY DEF RollbackOnFailure, RollsBack, Staged
  <2> QED BY <2>1, <2>2
          DEF EngineAgrees, CandidateRuns, PastRuns, RestoredRuns, TakenBack, Runs, RepairDue, ForceQueued
<1>3. CASE RestoreFile
  <2>1. /\ UNCHANGED <<journal, running, up, outage, queue>> /\ pc = "restoreFile" /\ journal # NoJournal
        /\ pc' = IF att.prevContent = NoFile THEN "undo" ELSE "restoreEngine"
        /\ UNCHANGED <<att.prevContent, att.req, att.activated>> /\ ~att'.landed
    BY <1>3 DEF RestoreFile, TypeOK, Attempts, AttemptKeepsPast
  <2> QED BY <2>1
          DEF EngineAgrees, CandidateRuns, PastRuns, RestoredRuns, TakenBack
<1>4. CASE RestoreEngine
  <2>1. /\ UNCHANGED <<journal, file, running, up, outage, queue>> /\ pc = "restoreEngine" /\ pc' = "undo"
        /\ journal # NoJournal
        /\ (att.landed /\ att' = att) \/ att' = [att EXCEPT !.restoreFailed = TRUE]
    BY <1>4 DEF RestoreEngine, AttemptKeepsPast
  <2>2. /\ UNCHANGED <<att.prevContent, att.req, att.activated>>
        /\ att.landed \/ att'.restoreFailed
    BY <2>1 DEF TypeOK, Attempts
  <2> QED BY <2>1, <2>2
          DEF EngineAgrees, CandidateRuns, PastRuns, RestoredRuns, TakenBack, Runs, RepairDue, ForceQueued
<1>5. CASE Undo
  <2>1. /\ UNCHANGED <<file, running, up, outage, queue>> /\ pc = "undo" /\ pc' = "idle"
        /\ journal' = UndoneJournal(att) /\ file = att.prevContent
        /\ Staged(att.req) /\ JournalProvesFile
    BY <1>5 DEF Undo, Done, ByPlace, TakenBack
  <2>2. att.req # Forced
    BY <2>1 DEF Staged, Forced
  <2>3. att.restoreFailed => journal' # NoJournal
    BY <2>1, JournalTypes, ConstantsAssumption DEF UndoneJournal, TypeOK, JournalProvesFile
  <2>4. ~att.restoreFailed => journal' = att.prevJournal
    BY <2>1 DEF UndoneJournal
  <2>5. journal' = NoJournal /\ file # NoFile => Runs(file)
    BY <2>1, <2>2, <2>3, <2>4 DEF PastRuns, RestoredRuns
  <2> QED BY <2>1, <2>5
          DEF EngineAgrees, CandidateRuns, PastRuns, RestoredRuns, TakenBack, Runs, RepairDue, ForceQueued
<1> QED BY <1>1, <1>2, <1>3, <1>4, <1>5 DEF Recover

----------------------------------------------------------------------------
(* The theorems *)

\* What the engine runs, or a reload that repairs it, accounts for every journal in every state.
THEOREM EngineInvariance == Spec => []EngineInv
<1>1. IInv /\ EngineInv /\ [Next]_vars => EngineInv'
  <2>1. EngineInv /\ UNCHANGED vars => EngineInv'
    BY EngineUndisturbed DEF vars, RepairDue, ForceQueued
  <2> QED BY <2>1, ProcessesKeepEngine, ClientsKeepEngine, ApplyKeepsEngine, RecoverKeepsEngine DEF Next
<1> QED BY <1>1, EngineInitially, Invariance, PTL DEF Spec

\* No journal means nothing to replay: the engine runs the accepted file, or its repair is due.
THEOREM ClosedJournalIsLive == Spec => []EngineAgrees
<1>1. EngineInv => EngineAgrees
  BY DEF EngineInv
<1> QED BY <1>1, EngineInvariance, PTL

\* An apply reports verified only bytes that are durable and live.
THEOREM VerifiedMeansLive == Spec => []VerifiedIsLive
<1>1. IInv /\ EngineInv => VerifiedIsLive
  BY DEF IInv, ByPlace, EngineInv, CandidateRuns, Runs, VerifiedIsLive
<1> QED BY <1>1, Invariance, EngineInvariance, PTL

\* A running server replaces the accepted file only by bytes the engine took, or puts it back.
THEOREM AcceptedFileSurvives == Spec => AcceptedFileKept
<1> DEFINE Kept == up /\ file' # file => file' = att.prevContent \/ running = file' \/ RepairDue
<1>1. IInv /\ EngineInv /\ [Next]_vars => [Kept]_vars
  <2> SUFFICES ASSUME IInv, EngineInv, Next, up, file' # file
               PROVE  file' = att.prevContent \/ running = file' \/ RepairDue
    BY DEF Kept
  <2>1. Replace \/ RestoreFile
    BY DEF Next, Processes, Boot, Bootstrap, Crash, EngineRestart, Reconnect, Clients, EditData, SetRoute,
           SetSecret, ReloadRequest, Submit, Apply, BeginApply, RejectApply, PrepareSecret, PrepareFails,
           ConfirmSkip, Skip, Record, ReloadSucceeds, ReloadFails, Verify, Revert, Confirm, Settle, Finish,
           EngineLoads, Recover, Fail, RestoreEngine, Undo, durable
  <2>2. CASE Replace
    BY <2>2 DEF Replace, EngineInv, CandidateRuns, Runs
  <2>3. CASE RestoreFile
    BY <2>3 DEF RestoreFile
  <2> QED BY <2>1, <2>2, <2>3
<1> QED BY <1>1, Invariance, EngineInvariance, PTL DEF Spec, AcceptedFileKept

----------------------------------------------------------------------------
(* No edit is lost *)

\* An apply that keeps its journal open when it fails is due: whatever is saved by then
\* will be generated again.
RegenerationDue == outage \/ \E i \in 1..Len(queue) : ~Staged(queue[i])

\* A closed journal leaves a file that is up to date, or about to be replaced.
SavedIsFile == up /\ journal = NoJournal => file = Desired \/ RegenerationDue

\* An attempt generates from data that are current, or about to be generated again.
AttemptCurrent ==
    pc # "idle" => att.content.data = data \/ RegenerationDue

\* The file a staged attempt may be taken back to is up to date with what it staged undone.
PastCurrent ==
    (/\ pc \notin {"idle", "skip", "settle", "finish"} /\ Staged(att.req)
     /\ att.prevJournal = NoJournal)
    => \/ RegenerationDue
       \/ att.prevContent = [data |-> data, route |-> att.oldRoute,
                             secret |-> IF att.created THEN confirmed ELSE CandidateSecret]

EditInv == SavedIsFile /\ AttemptCurrent /\ PastCurrent

LEMMA EditInitially == Init => EditInv
BY DEF Init, EditInv, SavedIsFile, AttemptCurrent, PastCurrent

\* Only a staged request leaves the queue without an apply that keeps its journal.
LEMMA RegenerationQueued ==
    ASSUME TypeOK
    PROVE  /\ \A req \in Requests : queue' = Append(queue, req) =>
                 /\ UNCHANGED outage /\ RegenerationDue => RegenerationDue'
                 /\ ~Staged(req) => RegenerationDue'
           /\ queue # <<>> /\ queue' = Tail(queue) /\ UNCHANGED outage /\ Staged(Head(queue)) =>
                 (RegenerationDue => RegenerationDue')
<1>1. ASSUME NEW req \in Requests, queue' = Append(queue, req)
      PROVE  /\ UNCHANGED outage /\ RegenerationDue => RegenerationDue'
             /\ ~Staged(req) => RegenerationDue'
  <2>1. /\ Len(queue) \in Nat /\ Len(queue') = Len(queue) + 1
        /\ queue'[Len(queue) + 1] = req
        /\ \A i \in 1..Len(queue) : queue'[i] = queue[i]
    BY <1>1 DEF TypeOK
  <2>2. Len(queue) + 1 \in 1..Len(queue') /\ 1..Len(queue) \subseteq 1..Len(queue')
    BY <2>1
  <2> HIDE <1>1
  <2> QED BY <2>1, <2>2 DEF RegenerationDue, Staged
<1>2. ASSUME queue # <<>>, queue' = Tail(queue), UNCHANGED outage, Staged(Head(queue)),
             NEW i \in 1..Len(queue), ~Staged(queue[i])
      PROVE  RegenerationDue'
  <2>1. /\ Len(queue) \in Nat /\ Len(queue') = Len(queue) - 1
        /\ \A k \in 1..Len(queue') : queue'[k] = queue[k + 1]
        /\ Head(queue) = queue[1]
    BY <1>2 DEF TypeOK
  <2>2. i # 1
    BY <1>2, <2>1
  <2>3. i - 1 \in 1..Len(queue') /\ queue'[i - 1] = queue[i]
    BY <2>1, <2>2
  <2> QED BY <1>2, <2>3 DEF RegenerationDue, Staged
<1> QED BY <1>1, <1>2 DEF RegenerationDue

\* The start and the end of processes, and the requests of the administrator.
LEMMA EnvironmentKeepsEdits == IInv /\ EditInv /\ (Processes \/ Clients) => EditInv'
<1> SUFFICES ASSUME IInv, EditInv, Processes \/ Clients PROVE EditInv'
  OBVIOUS
<1> USE DEF IInv, EditInv, durable, secrets, engine, budget
<1>1. CASE Boot
  <2>1. RegenerationDue'
    BY <1>1 DEF Boot, RegenerationDue, Staged, Forced
  <2> QED BY <2>1 DEF SavedIsFile, AttemptCurrent, PastCurrent
<1>2. CASE Bootstrap
  BY <1>2 DEF Bootstrap, AttemptKeepsPast, SavedIsFile, AttemptCurrent, PastCurrent
<1>3. CASE Crash
  BY <1>3 DEF Crash, Done, SavedIsFile, AttemptCurrent, PastCurrent
<1>4. CASE EngineRestart
  BY <1>4 DEF EngineRestart, AttemptKeepsPast, SavedIsFile, AttemptCurrent, PastCurrent, RegenerationDue
<1>5. CASE Reconnect
  <2>1. RegenerationDue'
    BY <1>5, RegenerationQueued, RequestTypes DEF Reconnect, Staged, Forced
  <2> QED BY <2>1 DEF SavedIsFile, AttemptCurrent, PastCurrent
<1>6. CASE EditData
  <2>1. RegenerationDue'
    BY <1>6, RegenerationQueued, RequestTypes DEF EditData, Submit, Staged, Plain
  <2> QED BY <2>1 DEF SavedIsFile, AttemptCurrent, PastCurrent
<1>7. CASE SetRoute \/ SetSecret \/ ReloadRequest
  <2>1. PICK req \in Requests : Submit(req) /\ UNCHANGED data
    BY <1>7, RequestTypes DEF SetRoute, SetSecret, ReloadRequest
  <2>2. RegenerationDue => RegenerationDue'
    BY <2>1, RegenerationQueued DEF Submit
  <2> QED BY <2>1, <2>2
          DEF Submit, SavedIsFile, AttemptCurrent, PastCurrent, Desired, CandidateSecret
<1> QED BY <1>1, <1>2, <1>3, <1>4, <1>5, <1>6, <1>7 DEF Processes, Clients

\* Steps of an attempt that leave its record, the journal and the saved settings alone, or end it
\* with the journal open.
LEMMA AttemptGoesOn ==
    /\ EditInv /\ pc # "idle" /\ journal' # NoJournal
    /\ UNCHANGED <<data, confirmed, rotation, outage, queue>>
    /\ \/ /\ UNCHANGED <<att.content, att.prevContent, att.prevJournal, att.oldRoute, att.created, att.req>>
          /\ pc' # "idle" /\ pc \notin {"skip", "settle", "finish"}
       \/ pc' = "idle"
    => EditInv'
BY DEF EditInv, SavedIsFile, AttemptCurrent, PastCurrent, RegenerationDue, CandidateSecret

\* The file of an attempt that completes is the one the saved settings generate.
LEMMA CompletedIsDesired ==
    ASSUME IInv, SecretInv, EditInv, pc \in {"skip", "finish"}
    PROVE  file = Desired \/ RegenerationDue
<1>1. att.content \in Content /\ att.content.route = route /\ file = att.content
  BY DEF IInv, TypeOK, Attempts, AttemptKeepsPast, ByPlace
<1>2. att.content.secret = CandidateSecret
  BY DEF SecretInv, AttemptReachable
<1>3. att.content.data = data \/ RegenerationDue
  BY DEF EditInv, AttemptCurrent
<1> QED BY <1>1, <1>2, <1>3 DEF Content, Desired

\* One apply, from its transaction to its result.
LEMMA ApplyKeepsEdits == IInv /\ SecretInv /\ EditInv /\ Apply => EditInv'
<1> SUFFICES ASSUME IInv, SecretInv, EditInv, Apply PROVE EditInv'
  OBVIOUS
<1> USE DEF IInv, durable, secrets, engine, budget
<1>1. CASE BeginApply
  <2> DEFINE req     == Head(queue)
             creates == req.kind = "secret" /\ rotation = NoRotation
  <2>1. /\ pc' = "prepare" /\ up /\ UNCHANGED <<data, confirmed, file, outage>>
        /\ queue # <<>> /\ queue' = Tail(queue)
        /\ journal' = BegunJournal(journal, file, route) /\ Provable(journal, file)
        /\ rotation' = IF creates THEN [next |-> req.secret, prev |-> confirmed] ELSE rotation
        /\ att'.req = req /\ att'.prevJournal = journal /\ att'.prevContent = file
        /\ att'.oldRoute = route /\ att'.created = creates /\ att'.content.data = data
    BY <1>1 DEF BeginApply, NoAttempt
  <2>2. journal' # NoJournal
    BY <2>1, JournalTypes, ConstantsAssumption DEF TypeOK
  <2>3. Staged(req) /\ RegenerationDue => RegenerationDue'
    BY <2>1, RegenerationQueued
  <2>4. Staged(req) /\ journal = NoJournal => RegenerationDue' \/ file = Desired
    BY <2>1, <2>3 DEF EditInv, SavedIsFile
  <2>5. IF creates THEN CandidateSecret = confirmed ELSE CandidateSecret' = CandidateSecret
    BY <2>1 DEF CandidateSecret
  <2> HIDE DEF req, creates
  <2>6. PastCurrent'
    BY <2>1, <2>4, <2>5 DEF PastCurrent, Desired
  <2> QED BY <2>1, <2>2, <2>6 DEF EditInv, SavedIsFile, AttemptCurrent
<1>2. CASE RejectApply
  <2>1. RegenerationDue => RegenerationDue'
    BY <1>2, RegenerationQueued DEF RejectApply, StageAllowed, Staged
  <2> QED BY <1>2, <2>1
          DEF RejectApply, EditInv, SavedIsFile, AttemptCurrent, PastCurrent, Desired, CandidateSecret
<1>3. CASE PrepareSecret
  <2>1. PICK safe \in BOOLEAN : Prepared(safe)
    BY <1>3 DEF PrepareSecret
  <2> DEFINE c == [att.content EXCEPT !.secret = CandidateSecret]
  <2>2. /\ att' = [att EXCEPT !.content = c, !.rollbackSafe = safe, !.activated = IsNoOp(att, c)]
        /\ pc' \in {"record", "skip", "confirmSkip"}
    BY <2>1 DEF Prepared
  <2>3. c.data = att.content.data
    BY <1>3 DEF PrepareSecret, AttemptKeepsPast, TypeOK, Attempts, Content
  <2> HIDE DEF c
  <2>4. /\ att'.content.data = att.content.data
        /\ UNCHANGED <<att.prevContent, att.prevJournal, att.oldRoute, att.created, att.req>>
    BY <2>2, <2>3 DEF TypeOK, Attempts
  <2>5. UNCHANGED <<data, route, confirmed, rotation, journal, file, up, outage, queue>>
        /\ pc = "prepare"
    BY <1>3 DEF PrepareSecret
  <2> QED BY <2>2, <2>4, <2>5 DEF EditInv, SavedIsFile, AttemptCurrent, PastCurrent, RegenerationDue,
                                  CandidateSecret, AttemptKeepsPast
<1>4. CASE PrepareFails
  <2>1. PICK safe \in BOOLEAN : att' = [att EXCEPT !.rollbackSafe = safe]
    BY <1>4 DEF PrepareFails
  <2>2. UNCHANGED <<att.content, att.prevContent, att.prevJournal, att.oldRoute, att.created, att.req>>
    BY <2>1 DEF TypeOK, Attempts
  <2> QED BY <1>4, <2>2, AttemptGoesOn DEF PrepareFails, AttemptKeepsPast
<1>5. CASE ConfirmSkip
  <2>1. /\ UNCHANGED <<data, route, journal, file, up, outage, queue, att>> /\ pc = "confirmSkip"
        /\ pc' = "skip" \/ (pc' = "record" /\ UNCHANGED <<confirmed, rotation>>)
    BY <1>5 DEF ConfirmSkip, To
  <2> QED BY <2>1 DEF EditInv, SavedIsFile, AttemptCurrent, PastCurrent, RegenerationDue,
                      CandidateSecret, AttemptKeepsPast
<1>6. CASE Skip \/ Finish
  <2>1. /\ UNCHANGED <<data, route, confirmed, rotation, file, outage, queue>> /\ pc' = "idle"
        /\ pc \in {"skip", "finish"}
    BY <1>6 DEF Skip, Finish, Done
  <2>2. file' = Desired' \/ RegenerationDue'
    BY <2>1, CompletedIsDesired DEF Desired, CandidateSecret, RegenerationDue
  <2> QED BY <2>1, <2>2 DEF EditInv, SavedIsFile, AttemptCurrent, PastCurrent
<1>7. CASE Record
  <2>1. journal' = WithCandidate(journal, att.content, route) /\ pc = "record" /\ pc' = "reload"
        /\ UNCHANGED <<data, confirmed, rotation, outage, queue>>
        /\ att' = [att EXCEPT !.activated = TRUE]
    BY <1>7 DEF Record
  <2>2. journal \in Journals /\ att.content \in Content /\ route \in Routes
    BY <2>1 DEF AttemptKeepsPast, TypeOK, Attempts
  <2>3. journal' # NoJournal
    BY <2>1, <2>2, JournalTypes, ConstantsAssumption
  <2>4. UNCHANGED <<att.content, att.prevContent, att.prevJournal, att.oldRoute, att.created, att.req>>
    BY <2>1 DEF TypeOK, Attempts
  <2> QED BY <2>1, <2>3, <2>4, AttemptGoesOn
<1>8. CASE ReloadSucceeds \/ ReloadFails \/ Revert \/ Replace
  BY <1>8, AttemptGoesOn DEF ReloadSucceeds, ReloadFails, Revert, Replace, To, Done, AttemptKeepsPast
<1>9. CASE Verify
  <2>1. /\ UNCHANGED <<data, confirmed, rotation, journal, outage, queue>> /\ pc = "verify"
        /\ pc' # "idle" /\ att' \in {att, [att EXCEPT !.landed = FALSE]}
    BY <1>9 DEF Verify, To
  <2>2. UNCHANGED <<att.content, att.prevContent, att.prevJournal, att.oldRoute, att.created, att.req>>
    BY <2>1 DEF TypeOK, Attempts
  <2> QED BY <2>1, <2>2, AttemptGoesOn DEF AttemptKeepsPast
<1>10. CASE Confirm
  <2>1. /\ UNCHANGED <<data, route, journal, file, up, outage, queue>> /\ pc = "confirm"
        /\ \/ pc' = "settle" /\ UNCHANGED att
           \/ pc' \in {"fail", "idle"} /\ UNCHANGED <<confirmed, rotation>> /\ (pc' = "fail" => UNCHANGED att)
    BY <1>10 DEF Confirm, To, Done
  <2> QED BY <2>1 DEF EditInv, SavedIsFile, AttemptCurrent, PastCurrent, RegenerationDue,
                      CandidateSecret, AttemptKeepsPast
<1>11. CASE Settle
  BY <1>11 DEF Settle, To, EditInv, SavedIsFile, AttemptCurrent, PastCurrent, RegenerationDue, AttemptKeepsPast
<1> QED BY <1>1, <1>2, <1>3, <1>4, <1>5, <1>6, <1>7, <1>8, <1>9, <1>10, <1>11 DEF Apply

\* The engine and the catch block.
LEMMA RecoverKeepsEdits == IInv /\ SecretInv /\ EditInv /\ EngineInv /\ (EngineLoads \/ Recover) => EditInv'
<1> SUFFICES ASSUME IInv, SecretInv, EditInv, EngineInv, EngineLoads \/ Recover PROVE EditInv'
  OBVIOUS
<1> USE DEF IInv, durable, secrets, engine, budget
<1>1. CASE EngineLoads \/ RestoreFile \/ RestoreEngine
  <2>1. /\ UNCHANGED <<data, confirmed, rotation, journal, outage, queue>>
        /\ pc \in {"reload", "revert", "restoreFile", "restoreEngine"} /\ pc' # "idle"
        /\ \/ UNCHANGED att
           \/ \E b \in BOOLEAN : att' = [att EXCEPT !.landed = b]
           \/ att' = [att EXCEPT !.restoreFailed = TRUE]
    BY <1>1 DEF EngineLoads, RestoreFile, RestoreEngine
  <2>2. UNCHANGED <<att.content, att.prevContent, att.prevJournal, att.oldRoute, att.created, att.req>>
    BY <2>1 DEF TypeOK, Attempts
  <2> QED BY <2>1, <2>2, AttemptGoesOn DEF AttemptKeepsPast
<1>2. CASE Fail
  BY <1>2, AttemptGoesOn DEF Fail, To, Done, AttemptKeepsPast
<1>3. CASE Undo
  <2>1. /\ UNCHANGED <<data, confirmed, file, up, outage, queue>> /\ pc = "undo" /\ pc' = "idle"
        /\ route' = IF att.req.kind = "route" THEN att.oldRoute ELSE route
        /\ IF att.created /\ rotation # NoRotation THEN rotation' = NoRotation ELSE UNCHANGED rotation
        /\ journal' = UndoneJournal(att)
    BY <1>3 DEF Undo, Done
  <2>2. file = att.prevContent /\ Staged(att.req) /\ route' = att.oldRoute
    BY <2>1 DEF EngineInv, TakenBack, ByPlace, AttemptKeepsPast
  <2>3. CandidateSecret' = IF att.created THEN confirmed ELSE CandidateSecret
    BY <2>1 DEF CandidateSecret
  <2>4. journal' = NoJournal => att.prevJournal = NoJournal
    BY <2>1, JournalTypes, ConstantsAssumption DEF UndoneJournal, TypeOK, JournalProvesFile
  <2>5. journal' = NoJournal => file' = Desired' \/ RegenerationDue'
    BY <2>1, <2>2, <2>3, <2>4 DEF EditInv, PastCurrent, Desired, RegenerationDue
  <2> QED BY <2>1, <2>5 DEF EditInv, SavedIsFile, AttemptCurrent, PastCurrent
<1> QED BY <1>1, <1>2, <1>3 DEF Recover

\* A closed journal leaves a file that the saved settings generate, or an apply that will.
THEOREM EditInvariance == Spec => []EditInv
<1>1. IInv /\ SecretInv /\ EngineInv /\ EditInv /\ [Next]_vars => EditInv'
  <2>1. EditInv /\ UNCHANGED vars => EditInv'
    BY DEF vars, EditInv, SavedIsFile, AttemptCurrent, PastCurrent, RegenerationDue, Desired, CandidateSecret
  <2> QED BY <2>1, EnvironmentKeepsEdits, ApplyKeepsEdits, RecoverKeepsEdits DEF Next
<1> QED BY <1>1, EditInitially, Invariance, SecretInvariance, EngineInvariance, PTL DEF Spec

\* When every apply has returned and no journal is left, the accepted file is what the saved
\* settings generate.
THEOREM SavedEditsReachTheFile == Spec => []NoEditLost
<1>1. EditInv => NoEditLost
  BY DEF EditInv, SavedIsFile, RegenerationDue, NoEditLost
<1> QED BY <1>1, EditInvariance, PTL

----------------------------------------------------------------------------
(* ConfigApply implements AgreedConfig: every step of an apply, of a crash, *)
(* of a restart or of a request is a step of the agreement of the three      *)
(* stores, or leaves it alone.                                               *)

\* The saved settings always generate a configuration.
LEMMA DesiredType ==
    ASSUME TypeOK
    PROVE  Desired \in Content
BY BootRotationType DEF TypeOK, Desired, Content

\* The same of the next state, which no type of this one speaks of.
LEMMA DesiredNextType ==
    ASSUME TypeOK'
    PROVE  Desired' \in Content
<1>1. CandidateSecret' \in Secrets
  BY ConstantsAssumption DEF TypeOK, CandidateSecret, Rotations
<1> QED BY <1>1 DEF TypeOK, Desired, Content

\* At rest the three stores agree: what the invariants make of a closed journal.
LEMMA RestAgrees ==
    ASSUME TypeOK, EngineInv, EditInv, AtRest
    PROVE  file = Desired /\ running = file
<1>1. file = Desired
  BY DEF EditInv, SavedIsFile, RegenerationDue, AtRest
<1>2. file # NoFile
  BY <1>1, DesiredType, ConstantsAssumption
<1>3. ~RepairDue
  BY DEF AtRest, RepairDue, ForceQueued
<1> QED BY <1>1, <1>2, <1>3 DEF EngineInv, EngineAgrees, AtRest

LEMMA RestAgreesNext ==
    ASSUME TypeOK', EngineInv', EditInv', AtRest'
    PROVE  file' = Desired' /\ running' = file'
<1>1. file' = Desired'
  BY DEF EditInv, SavedIsFile, RegenerationDue, AtRest
<1>2. file' # NoFile
  BY <1>1, DesiredNextType, ConstantsAssumption
<1>3. ~RepairDue'
  BY DEF AtRest, RepairDue, ForceQueued
<1> QED BY <1>1, <1>2, <1>3 DEF EngineInv, EngineAgrees, AtRest

-----------------------------------------------------------------------------
(* What a step does to the file and to the engine                            *)

\* A step leaves both alone, or it writes the file, or loads the engine, and
\* then something is open before and after it; a restart of the engine opens.
StoresMove ==
    \/ UNCHANGED <<file, running>>
    \/ ~AtRest /\ ~AtRest' /\ UNCHANGED running /\ file' \in Content \cup {NoFile}
    \/ ~AtRest' /\ running' = file /\ UNCHANGED <<file, data, route, confirmed, rotation>>
    \/ /\ ~AtRest /\ ~AtRest' /\ running' \in Content \cup {NoFile}
       /\ UNCHANGED <<file, data, route, confirmed, rotation>>

LEMMA ProcessesMove == IInv /\ TypeOK' /\ Processes => StoresMove
<1> SUFFICES ASSUME IInv, TypeOK', Processes PROVE StoresMove
  OBVIOUS
<1> USE DEF StoresMove, durable, engine, budget
<1>1. CASE Boot
  BY <1>1 DEF Boot
<1>2. CASE Bootstrap
  <2>1. ~up /\ ~up' /\ UNCHANGED running
    BY <1>2 DEF Bootstrap
  <2> QED BY <2>1 DEF AtRest, TypeOK
<1>3. CASE Crash
  BY <1>3 DEF Crash
<1>4. CASE EngineRestart
  <2>1. ~AtRest'
    BY <1>4 DEF EngineRestart, AtRest, IInv, TypeOK
  <2> QED BY <1>4, <2>1 DEF EngineRestart
<1>5. CASE Reconnect
  BY <1>5 DEF Reconnect
<1> QED BY <1>1, <1>2, <1>3, <1>4, <1>5 DEF Processes

LEMMA ApplyMoves == IInv /\ TypeOK' /\ (Apply \/ EngineLoads \/ Recover) => StoresMove
<1> SUFFICES ASSUME IInv, TypeOK', Apply \/ EngineLoads \/ Recover PROVE StoresMove
  OBVIOUS
<1> USE DEF StoresMove, durable, engine, secrets, budget
<1>1. CASE Replace
  <2>1. ~AtRest /\ ~AtRest' /\ UNCHANGED running
    BY <1>1 DEF Replace, AtRest, To
  <2> QED BY <2>1 DEF TypeOK
<1>2. CASE RestoreFile
  <2>1. ~AtRest /\ ~AtRest' /\ UNCHANGED running
    BY <1>2 DEF RestoreFile, AtRest
  <2> QED BY <2>1 DEF TypeOK
<1>3. CASE EngineLoads
  <2>1. ~AtRest /\ ~AtRest' /\ UNCHANGED <<file, data, route, confirmed, rotation>>
    BY <1>3 DEF EngineLoads, AtRest
  <2> QED BY <2>1 DEF TypeOK
<1>4. CASE BeginApply \/ RejectApply \/ PrepareSecret \/ PrepareFails
  BY <1>4 DEF BeginApply, RejectApply, PrepareSecret, PrepareFails
<1>5. CASE ConfirmSkip \/ Skip \/ Record \/ ReloadSucceeds \/ ReloadFails
  BY <1>5 DEF ConfirmSkip, Skip, Record, ReloadSucceeds, ReloadFails
<1>6. CASE Verify \/ Revert \/ Confirm \/ Settle \/ Finish
  BY <1>6 DEF Verify, Revert, Confirm, Settle, Finish
<1>7. CASE Fail \/ RestoreEngine \/ Undo
  BY <1>7 DEF Fail, RestoreEngine, Undo
<1> QED BY <1>1, <1>2, <1>3, <1>4, <1>5, <1>6, <1>7 DEF Apply, Recover

LEMMA StepMoves == IInv /\ TypeOK' /\ Next => StoresMove
<1>1. IInv /\ Clients => StoresMove
  BY DEF Clients, EditData, SetRoute, SetSecret, ReloadRequest, Submit, StoresMove, engine
<1> QED BY <1>1, ProcessesMove, ApplyMoves DEF Next

\* Nothing but a request, a crash or a restart happens at rest, and each opens.
LEMMA RestOpens == IInv /\ AtRest /\ Next => ~AtRest'
<1> SUFFICES ASSUME IInv, AtRest, Next PROVE ~AtRest'
  OBVIOUS
<1>1. up /\ pc = "idle" /\ queue = <<>> /\ ~outage
  BY DEF AtRest
<1>2. CASE Processes
  BY <1>1, <1>2
     DEF Processes, Boot, Bootstrap, Crash, EngineRestart, Reconnect, AtRest
<1>3. CASE Clients
  <2>1. PICK req : queue' = Append(queue, req)
    BY <1>3 DEF Clients, EditData, SetRoute, SetSecret, ReloadRequest, Submit
  <2>2. queue' # <<>>
    BY <1>1, <2>1
  <2> QED BY <2>2 DEF AtRest
<1>4. CASE Apply \/ EngineLoads \/ Recover
  BY <1>1, <1>4
     DEF Apply, BeginApply, RejectApply, PrepareSecret, PrepareFails, ConfirmSkip, Skip,
         Record, ReloadSucceeds, ReloadFails, Verify, Revert, Replace, Confirm, Settle,
         Finish, EngineLoads, Recover, Fail, RestoreFile, RestoreEngine, Undo
<1> QED BY <1>2, <1>3, <1>4 DEF Next

-----------------------------------------------------------------------------
(* The refinement                                                            *)

LEMMA StepImplements ==
    ASSUME IInv, TypeOK', EngineInv', EditInv', [Next]_vars
    PROVE  [Agreement!Next]_(Agreement!vars)
<1>1. CASE UNCHANGED vars
  BY <1>1 DEF vars, Agreement!vars, Desired, CandidateSecret, AtRest
<1>2. CASE Next
  <2>1. StoresMove /\ (AtRest => ~AtRest')
    BY <1>2, StepMoves, RestOpens
  <2>2. Desired' \in Content
    BY DesiredNextType
  <2>3. CASE AtRest'
    <3>1. file' = Desired' /\ running' = file'
      BY <2>3, RestAgreesNext
    <3>2. UNCHANGED <<file, running>> /\ ~AtRest
      BY <2>1, <2>3 DEF StoresMove
    <3>3. Agreement!Close
      BY <2>3, <3>1, <3>2 DEF Agreement!Close
    <3> QED BY <3>3 DEF Agreement!Next
  <2>4. CASE ~AtRest'
    <3>1. CASE UNCHANGED <<file, running>>
      <4>1. Agreement!Change
        BY <2>2, <2>4, <3>1 DEF Agreement!Change
      <4> QED BY <4>1 DEF Agreement!Next
    <3>2. CASE ~AtRest /\ UNCHANGED running /\ file' \in Content \cup {NoFile}
      <4>1. Agreement!Accept
        BY <2>2, <2>4, <3>2 DEF Agreement!Accept
      <4> QED BY <4>1 DEF Agreement!Next
    <3>3. CASE running' = file /\ UNCHANGED <<file, data, route, confirmed, rotation>>
      <4>1. Desired' = Desired
        BY <3>3 DEF Desired, CandidateSecret
      <4>2. Agreement!Restart
        BY <2>4, <3>3, <4>1 DEF Agreement!Restart
      <4> QED BY <4>2 DEF Agreement!Next
    <3>4. CASE /\ ~AtRest /\ running' \in Content \cup {NoFile}
               /\ UNCHANGED <<file, data, route, confirmed, rotation>>
      <4>1. Desired' = Desired
        BY <3>4 DEF Desired, CandidateSecret
      <4>2. Agreement!Load
        BY <2>4, <3>4, <4>1 DEF Agreement!Load
      <4> QED BY <4>2 DEF Agreement!Next
    <3> QED BY <2>1, <3>1, <3>2, <3>3, <3>4 DEF StoresMove
  <2> QED BY <2>3, <2>4
<1> QED BY <1>1, <1>2

\* The recoverable apply implements the agreement of settings, file and engine.
THEOREM ApplyImplementsAgreement == Spec => ImplementsAgreement
<1>1. Init => Agreement!Init
  <2> SUFFICES ASSUME Init PROVE Agreement!Init
    OBVIOUS
  <2>1. TypeOK
    BY Initially DEF IInv
  <2>2. ~AtRest
    BY DEF Init, AtRest
  <2> QED BY <2>1, <2>2, DesiredType DEF Agreement!Init, Init, TypeOK
<1>2. IInv /\ IInv' /\ EngineInv' /\ EditInv' /\ [Next]_vars
          => [Agreement!Next]_(Agreement!vars)
  BY StepImplements DEF IInv
<1> QED BY <1>1, <1>2, Invariance, EngineInvariance, EditInvariance, PTL
       DEF Spec, ImplementsAgreement, Agreement!Spec

\* What the agreement gives a reader: whenever nothing is due or in progress, the engine
\* runs the accepted file and that file is what the saved settings generate.
THEOREM RestIsAgreed == Spec => []Agreement!Agreed
<1>1. Agreement!Init => Agreement!Agreed
  BY DEF Agreement!Init, Agreement!Agreed
<1>2. Agreement!Agreed /\ [Agreement!Next]_(Agreement!vars) => Agreement!Agreed'
  BY DEF Agreement!Agreed, Agreement!Next, Agreement!vars, Agreement!Change,
         Agreement!Restart, Agreement!Load, Agreement!Accept, Agreement!Close
<1> QED BY <1>1, <1>2, ApplyImplementsAgreement, PTL
       DEF ImplementsAgreement, Agreement!Spec
============================================================================
