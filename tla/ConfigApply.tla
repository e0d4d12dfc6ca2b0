---------------------------- MODULE ConfigApply ----------------------------
(***************************************************************************)
(* Recoverable configuration application (docs/adr/0007): the serialized   *)
(* apply of nodes/service.ts, its durable journal                          *)
(* (nodes/config-apply-journal.ts), the rotation of the engine secret      *)
(* (settings/secret-rotation.ts), the offline bootstrap                    *)
(* (network-bootstrap.ts) and the boot of the server (index.ts), against   *)
(* an external mihomo engine.                                              *)
(*                                                                         *)
(* Three stores cannot commit together: SQLite (the desired settings and   *)
(* the journal), the accepted file config.yaml, and the engine's running   *)
(* configuration.  A step of this module ends where the code awaits, or    *)
(* where it has just made one durable write, so that a crash of the server *)
(* or a restart of the engine falls between any two of them.               *)
(***************************************************************************)
EXTENDS Naturals, Sequences

CONSTANTS
    Data,        \* what channels, pools and sources contribute to a config
    Legacy,      \* data as the pre-TUN generator laid it out
    Secrets,     \* engine credentials
    NoAuth,      \* the blank secret: the engine then accepts any credential
    FreshSecret, \* what randomBytes yields when no secret was ever stored
    NoFile, NoJournal, NoRotation, NoCandidate,
    MaxEdits,    \* bound: administrator requests in a behaviour
    MaxFaults    \* bound: lost responses, failed checks, crashes, restarts

Routes == {"proxy", "direct"}

\* The generated YAML. It carries the secret, so its SHA-256 tells secrets apart.
Content == [data : Data, route : Routes, secret : Secrets]

\* configIdentitySchema: a hash (here the bytes themselves: SHA-256 is taken to
\* be injective) and the Default route those bytes were generated under.
Identities == [hash : Content \cup {NoFile}, route : Routes]
Journals == [accepted : Identities, candidate : Identities \cup {NoCandidate}]
Rotations == [next : Secrets, prev : Secrets]

ASSUME ConstantsAssumption ==
    /\ Legacy \subseteq Data
    /\ NoAuth \in Secrets
    /\ FreshSecret \in Secrets \ {NoAuth}
    /\ NoFile \notin Content
    /\ NoJournal \notin Journals
    /\ NoRotation \notin Rotations
    /\ NoCandidate \notin Identities
    /\ MaxEdits \in Nat
    /\ MaxFaults \in Nat

\* The callers of applyConfig, by the options they pass.
Requests == [kind : {"plain", "force"}, route : {"proxy"}, secret : {NoAuth}]
       \cup [kind : {"route"}, route : Routes, secret : {NoAuth}]
       \cup [kind : {"secret"}, route : {"proxy"}, secret : Secrets \ {NoAuth}]

Plain     == [kind |-> "plain", route |-> "proxy", secret |-> NoAuth]
Forced    == [kind |-> "force", route |-> "proxy", secret |-> NoAuth]
ToRoute(r)  == [kind |-> "route", route |-> r, secret |-> NoAuth]
ToSecret(s) == [kind |-> "secret", route |-> "proxy", secret |-> s]

IsForced(req)             == req.kind \in {"force", "route"}
RollbackOnFailure(req) == req.kind = "route"
Staged(req)            == req.kind \in {"route", "secret"}

VARIABLES
    data, route,  \* desired settings (SQLite)
    confirmed,    \* the confirmed engine secret (SQLite)
    rotation,     \* internal.mihomoSecretRotation (SQLite)
    journal,      \* internal.configApply (SQLite)
    gwState,      \* internal.gatewayApplyState (SQLite); "basic" without connection settings
    file,         \* config.yaml, the accepted payload
    running,      \* what the engine runs
    cred,         \* the credential the engine accepts
    up,           \* the server process runs
    outage,       \* the live loop has an engine reconnect still to report
    known,        \* the client's primary and fallback credential
    queue,        \* configApplyTail: applies waiting for their turn
    pc,           \* where the apply in progress is
    att,          \* the apply in progress
    edits, faults \* how much of the two bounds is used

durable  == <<data, route, confirmed, rotation, journal, gwState, file>>
secrets  == <<confirmed, rotation, known>>
engine   == <<running, cred>>
budget   == <<edits, faults>>
vars == <<data, route, confirmed, rotation, journal, gwState, file, running,
          cred, up, outage, known, queue, pc, att, edits, faults>>

\* The record applyConfigSerialized keeps in its locals.
Attempts ==
    [req : Requests, prevJournal : Journals \cup {NoJournal},
     prevContent : Content \cup {NoFile}, content : Content \cup {NoFile},
     oldRoute : Routes, created : BOOLEAN, activated : BOOLEAN,
     rollbackSafe : BOOLEAN, landed : BOOLEAN, restoreFailed : BOOLEAN]

PCs == {"idle", "prepare", "confirmSkip", "skip", "record", "reload", "verify",
        "revert", "replace", "confirm", "settle", "finish",
        "fail", "restoreFile", "restoreEngine", "undo"}

\* The places where the apply awaits: only there do other handlers run.
AwaitPoints == {"idle", "prepare", "confirmSkip", "reload", "verify", "revert",
                "confirm", "restoreEngine"}

----------------------------------------------------------------------------
(* The journal *)

\* readConfigApplyRecovery accepts the bytes on disk.
Provable(j, f) ==
    j # NoJournal =>
        f = j.accepted.hash \/ (j.candidate # NoCandidate /\ f = j.candidate.hash)

\* Mutant: the candidate is taken for accepted without comparing hashes.
CandidateIdentity(j, f) == j.candidate

AcceptedIdentity(j, f) ==
    IF f = j.accepted.hash THEN j.accepted ELSE j.candidate

\* The route the accepted bytes are validated against.
RecoveryRoute(j, f, r) == IF j = NoJournal THEN r ELSE AcceptedIdentity(j, f).route

\* Mutant: the previous proof is copied instead of rebased on the current bytes.
CopiedJournal(j, f, r) ==
    [accepted  |-> IF j = NoJournal THEN [hash |-> f, route |-> r] ELSE j.accepted,
     candidate |-> NoCandidate]

\* beginConfigApply; r is the route before the staged mutation of the same
\* transaction.
BegunJournal(j, f, r) ==
    [accepted  |-> IF j = NoJournal THEN [hash |-> f, route |-> r] ELSE AcceptedIdentity(j, f),
     candidate |-> NoCandidate]

\* Mutant: the candidate inherits the validation context of the accepted file.
WithInheritedContext(j, c, r) ==
    [j EXCEPT !.candidate = [hash |-> c, route |-> j.accepted.route]]

\* recordConfigApplyCandidate
WithCandidate(j, c, r) == [j EXCEPT !.candidate = [hash |-> c, route |-> r]]

ExpectedHash(j) == IF j.candidate = NoCandidate THEN j.accepted.hash ELSE j.candidate.hash

(* The secret *)

Authenticates(s) == cred = NoAuth \/ s = cred

CandidateSecret == IF rotation = NoRotation THEN confirmed ELSE rotation.next

KnownSecrets(rot, conf) == IF rot = NoRotation THEN {conf} ELSE {rot.next, rot.prev}

\* prepareMihomoSecretForBootstrap: a database without a secret begins a rotation.
BootRotation ==
    IF rotation = NoRotation /\ confirmed = NoAuth
    THEN [next |-> FreshSecret, prev |-> confirmed]
    ELSE rotation

\* finalizeRotation: the journal is promoted in one transaction, then the client.
FinalizeRotation ==
    /\ confirmed' = rotation.next
    /\ rotation' = NoRotation
    /\ known' = {rotation.next}

\* beginMihomoSecretRotation refuses a second, different rotation.
StageAllowed(req) ==
    req.kind = "secret" /\ rotation # NoRotation => rotation.next = req.secret

----------------------------------------------------------------------------
(* Choices of applyConfigSerialized *)

\* Connection settings exist (prepared deployment). Only then is gwState recorded.
Gateway == gwState # "basic"

\* The byte-identical skip.
IsNoOp(a, c) ==
    /\ ~IsForced(a.req)
    /\ a.prevJournal = NoJournal
    /\ Gateway => gwState = "applied"
    /\ file = c

\* Mutant: every failure before activation closes its journal.
RollsBackUnstaged(a) ==
    \/ RollbackOnFailure(a.req)
    \/ ~a.activated /\ a.rollbackSafe

\* Whether the catch block undoes the staged mutation.
RollsBack(a) ==
    \/ RollbackOnFailure(a.req)
    \/ ~a.activated /\ a.rollbackSafe /\ Staged(a.req)

\* A failed activation throws for these callers; the others report "saved".
Throws(a) == Gateway \/ RollbackOnFailure(a.req)

\* The bytes of the reload request in flight.
InFlight == IF pc = "reload" THEN att.content ELSE att.prevContent

EngineReloads(c) ==
    /\ running' = c
    /\ cred' \in {cred, c.secret}  \* mihomo may keep the old credential until it restarts

Fault == faults < MaxFaults /\ faults' = faults + 1

NoAttempt ==
    [req |-> Plain, prevJournal |-> NoJournal, prevContent |-> NoFile,
     content |-> NoFile,
     oldRoute |-> "proxy", created |-> FALSE, activated |-> FALSE,
     rollbackSafe |-> TRUE, landed |-> FALSE, restoreFailed |-> FALSE]

Done == pc' = "idle" /\ att' = NoAttempt
To(label) == pc' = label /\ UNCHANGED att

----------------------------------------------------------------------------
\* An installation at rest: no file yet, or one the engine runs, generated by
\* this version or by the pre-TUN one; the server has not started.
Init ==
    /\ data \in Data \ Legacy
    /\ route \in Routes
    /\ confirmed \in Secrets
    /\ rotation = NoRotation
    /\ journal = NoJournal
    /\ gwState \in {"unknown", "basic"}
    /\ file \in {NoFile} \cup [data : {data} \cup Legacy, route : {route}, secret : {confirmed}]
    /\ running = file
    /\ cred = confirmed
    /\ up = FALSE /\ outage = FALSE /\ known = {} /\ queue = <<>>
    /\ pc = "idle" /\ att = NoAttempt
    /\ edits = 0 /\ faults = 0

----------------------------------------------------------------------------
(* Processes starting and stopping *)

\* index.ts: the bytes must be provable, the credentials are restored, and a
\* forced apply is the first in the queue.
Boot ==
    /\ ~up
    /\ Provable(journal, file)
    /\ up' = TRUE
    /\ rotation' = BootRotation
    /\ known' = KnownSecrets(BootRotation, confirmed)
    /\ queue' = <<Forced>>
    /\ UNCHANGED <<data, route, confirmed, journal, gwState, file, engine, outage, pc, att, budget>>

\* bootstrapNetwork, offline, before the engine starts: keep provable bytes,
\* else publish a replacement. A stop before the rename leaves the database
\* prepared and the file as it was.
Bootstrap ==
    /\ Gateway /\ ~up
    /\ Provable(journal, file)
    /\ rotation' = BootRotation
    /\ LET secret    == IF BootRotation = NoRotation THEN confirmed ELSE BootRotation.next
           generated == [data |-> data, route |-> route, secret |-> secret]
           Publish(c) ==
               /\ journal' = IF journal = NoJournal THEN NoJournal
                             ELSE WithCandidate(BegunJournal(journal, file, route), c, route)
               /\ file' \in {file, c}
       IN \/ /\ file = NoFile
             /\ Publish(generated)
          \/ /\ file # NoFile
             /\ file.data \in Legacy
             /\ Publish(generated)
          \/ /\ file # NoFile
             /\ file.data \notin Legacy
             /\ file.route = "direct" => RecoveryRoute(journal, file, route) = "direct"
             /\ IF journal = NoJournal /\ file.secret # secret
                THEN Publish([file EXCEPT !.secret = secret])
                ELSE UNCHANGED <<journal, file>>
    /\ UNCHANGED <<data, route, confirmed, gwState, engine, up, outage, known, queue, pc, att, budget>>

\* The process dies: the queue, the apply in progress and the client's
\* credentials are lost.
Crash ==
    /\ up /\ Fault
    /\ up' = FALSE /\ outage' = FALSE /\ known' = {} /\ queue' = <<>>
    /\ Done
    /\ UNCHANGED <<durable, engine, edits>>

\* mihomo restarts on the file; the live loop of a running server will see it.
EngineRestart ==
    /\ Fault
    /\ file # NoFile
    /\ running' = file /\ cred' = file.secret
    /\ outage' = up
    /\ UNCHANGED <<durable, up, known, queue, pc, att, edits>>

\* onReconnect
Reconnect ==
    /\ up /\ outage /\ pc \in AwaitPoints
    /\ outage' = FALSE
    /\ queue' = Append(queue, Forced)
    /\ UNCHANGED <<durable, engine, up, known, pc, att, budget>>

----------------------------------------------------------------------------
(* Requests of the administrator *)

Submit(req) ==
    /\ up /\ pc \in AwaitPoints /\ edits < MaxEdits
    /\ edits' = edits + 1
    /\ queue' = Append(queue, req)
    /\ UNCHANGED <<route, confirmed, rotation, journal, gwState, file, engine, up,
                   outage, known, pc, att, faults>>

\* Channel, pool and source edits change the database before they apply.
EditData      == \E d \in Data \ Legacy : data' = d /\ Submit(Plain)
SetRoute      == \E r \in Routes : Submit(ToRoute(r)) /\ UNCHANGED data
SetSecret     == \E s \in Secrets \ {NoAuth} : Submit(ToSecret(s)) /\ UNCHANGED data
ReloadRequest == Submit(Forced) /\ UNCHANGED data

----------------------------------------------------------------------------
(* One apply, from its transaction to its result *)

\* The transaction that writes the journal and runs stageConfigMutation, and
\* the inputs collected right after it.
BeginApply ==
    /\ up /\ pc = "idle" /\ queue # <<>>
    /\ LET req     == Head(queue)
           creates == req.kind = "secret" /\ rotation = NoRotation
       IN /\ Provable(journal, file) /\ StageAllowed(req)
          /\ queue' = Tail(queue)
          /\ journal' = BegunJournal(journal, file, route)
          /\ route' = IF req.kind = "route" THEN req.route ELSE route
          /\ rotation' = IF creates THEN [next |-> req.secret, prev |-> confirmed] ELSE rotation
          /\ known' = IF req.kind = "secret" THEN KnownSecrets(rotation', confirmed) ELSE known
          /\ att' = [NoAttempt EXCEPT
                        !.req = req, !.prevJournal = journal, !.prevContent = file,
                        !.content = [data |-> data, route |-> route', secret |-> NoAuth],
                        !.oldRoute = route, !.created = creates]
    /\ pc' = "prepare"
    /\ UNCHANGED <<data, confirmed, gwState, file, engine, up, outage, budget>>

\* The transaction aborts: another rotation is in progress.
RejectApply ==
    /\ up /\ pc = "idle" /\ queue # <<>>
    /\ ~StageAllowed(Head(queue))
    /\ queue' = Tail(queue)
    /\ UNCHANGED <<durable, engine, up, outage, known, pc, att, budget>>

\* Mutant: an answer of any kind counts as authenticated.
ProbeTrusting(s, answer) == answer /\ UNCHANGED faults

\* prepareMihomoSecretForConfig probes the new credential, then the old one; a
\* probe of a good credential may time out.
Probe(s, answer) ==
    IF answer THEN Authenticates(s) /\ UNCHANGED faults
    ELSE IF Authenticates(s) THEN Fault ELSE UNCHANGED faults

Prepared(safe) ==
    LET content == [att.content EXCEPT !.secret = CandidateSecret]
        noop    == IsNoOp(att, content)
    IN /\ att' = [att EXCEPT !.content = content, !.rollbackSafe = safe, !.activated = noop]
       /\ pc' = IF ~noop THEN "record"
                ELSE IF rotation = NoRotation THEN "skip" ELSE "confirmSkip"

PrepareSecret ==
    /\ pc = "prepare"
    /\ known' = IF rotation = NoRotation THEN known ELSE KnownSecrets(rotation, confirmed)
    /\ \/ rotation = NoRotation /\ Prepared(TRUE) /\ UNCHANGED faults
       \/ rotation # NoRotation /\ Probe(rotation.next, TRUE) /\ Prepared(FALSE)
       \/ rotation # NoRotation /\ Probe(rotation.next, FALSE)
            /\ Authenticates(rotation.prev) /\ Prepared(TRUE)
    /\ UNCHANGED <<durable, engine, up, outage, queue, edits>>

\* Neither credential answers, or the desired settings do not generate.
PrepareFails ==
    /\ pc = "prepare"
    /\ Fault
    /\ known' = IF rotation = NoRotation THEN known ELSE KnownSecrets(rotation, confirmed)
    /\ \E safe \in {TRUE} \cup {rotation = NoRotation \/ ~Authenticates(rotation.next)} :
           att' = [att EXCEPT !.rollbackSafe = safe]
    /\ pc' = "fail"
    /\ UNCHANGED <<durable, engine, up, outage, queue, edits>>

\* confirmPendingMihomoSecretRotation on the skip path.
ConfirmSkip ==
    /\ pc = "confirmSkip"
    /\ \/ Probe(rotation.next, TRUE) /\ FinalizeRotation /\ To("skip")
       \/ Probe(rotation.next, FALSE) /\ UNCHANGED secrets /\ To("record")
    /\ UNCHANGED <<data, route, journal, gwState, file, engine, up, outage, queue, edits>>

Skip ==
    /\ pc = "skip"
    /\ file = ExpectedHash(journal)
    /\ journal' = NoJournal
    /\ Done
    /\ UNCHANGED <<data, route, gwState, file, engine, up, outage, secrets, queue, budget>>

\* Mutant: the candidate is written over config.yaml before the reload.
RecordInPlace ==
    /\ pc = "record"
    /\ journal' = WithCandidate(journal, att.content, route)
    /\ att' = [att EXCEPT !.activated = TRUE]
    /\ pc' = "reload"
    /\ file' = att.content
    /\ UNCHANGED <<data, route, gwState, engine, up, outage, secrets, queue, budget>>

\* The candidate is proved before config.yaml.pending is written; nothing reads
\* the pending file but the rename of Replace.
Record ==
    /\ pc = "record"
    /\ journal' = WithCandidate(journal, att.content, route)
    /\ att' = [att EXCEPT !.activated = TRUE]
    /\ pc' = "reload"
    /\ UNCHANGED <<data, route, gwState, file, engine, up, outage, secrets, queue, budget>>

\* The engine takes the request in flight.
EngineLoads ==
    /\ pc \in {"reload", "revert", "restoreEngine"}
    /\ ~att.landed
    /\ \E s \in known : Authenticates(s)
    /\ EngineReloads(InFlight)
    /\ att' = [att EXCEPT !.landed = TRUE]
    /\ UNCHANGED <<durable, up, outage, known, queue, pc, budget>>

\* Mutant: a reload without a response is taken for a success.
ReloadAssumed ==
    /\ pc = "reload"
    /\ To(IF Gateway THEN "verify" ELSE "replace")
    /\ UNCHANGED <<durable, engine, up, outage, known, queue, budget>>

ReloadSucceeds ==
    /\ pc = "reload" /\ att.landed
    /\ To(IF Gateway THEN "verify" ELSE "replace")
    /\ UNCHANGED <<durable, engine, up, outage, known, queue, budget>>

\* Rejected, timed out, or the response was lost after the engine took it.
ReloadFails ==
    /\ pc = "reload"
    /\ Fault
    /\ IF Throws(att) THEN To("fail") ELSE Done
    /\ UNCHANGED <<durable, engine, up, outage, known, queue, edits>>

\* waitForPrivateProvidersLoaded and assertGatewayNetworkActivated
Verify ==
    /\ pc = "verify"
    /\ \/ To("replace") /\ UNCHANGED faults
       \/ /\ Fault
          /\ IF file # NoFile
             THEN pc' = "revert" /\ att' = [att EXCEPT !.landed = FALSE]
             ELSE To("fail")
    /\ UNCHANGED <<durable, engine, up, outage, known, queue, edits>>

\* The reload of the previous file is best effort: its error is swallowed.
Revert ==
    /\ pc = "revert"
    /\ IF att.landed THEN UNCHANGED faults ELSE Fault
    /\ To("fail")
    /\ UNCHANGED <<durable, engine, up, outage, known, queue, edits>>

Replace ==
    /\ pc = "replace"
    /\ file' = att.content
    /\ To("confirm")
    /\ UNCHANGED <<data, route, journal, gwState, engine, up, outage, secrets, queue, budget>>

Confirm ==
    /\ pc = "confirm"
    /\ \/ rotation = NoRotation /\ UNCHANGED <<secrets, faults>> /\ To("settle")
       \/ rotation # NoRotation /\ Probe(rotation.next, TRUE) /\ FinalizeRotation /\ To("settle")
       \/ /\ rotation # NoRotation /\ Probe(rotation.next, FALSE)
          /\ UNCHANGED secrets
          /\ IF Throws(att) THEN To("fail") ELSE Done
    /\ UNCHANGED <<data, route, journal, gwState, file, engine, up, outage, queue, edits>>

\* recordGatewayApply(db, "applied")
Settle ==
    /\ pc = "settle"
    /\ gwState' = IF Gateway THEN "applied" ELSE gwState
    /\ To("finish")
    /\ UNCHANGED <<data, route, journal, file, engine, up, outage, secrets, queue, budget>>

\* finishConfigApply
Finish ==
    /\ pc = "finish"
    /\ file = ExpectedHash(journal)
    /\ journal' = NoJournal
    /\ Done
    /\ UNCHANGED <<data, route, gwState, file, engine, up, outage, secrets, queue, budget>>

----------------------------------------------------------------------------
(* The catch block *)

\* recordGatewayApply(db, "failed"), then what there is to undo. An attempt that
\* undoes nothing keeps its journal: the next apply must reload.
Fail ==
    /\ pc = "fail"
    /\ gwState' = IF Gateway THEN "failed" ELSE gwState
    /\ IF RollbackOnFailure(att.req) /\ att.activated THEN To("restoreFile")
       ELSE IF RollsBack(att) THEN To("undo")
       ELSE Done
    /\ UNCHANGED <<data, route, journal, file, engine, up, outage, secrets, queue, budget>>

RestoreFile ==
    /\ pc = "restoreFile"
    /\ file' = att.prevContent
    /\ att' = [att EXCEPT !.landed = FALSE]
    /\ pc' = IF att.prevContent = NoFile THEN "undo" ELSE "restoreEngine"
    /\ UNCHANGED <<data, route, journal, gwState, engine, up, outage, secrets, queue, budget>>

RestoreEngine ==
    /\ pc = "restoreEngine"
    /\ \/ att.landed /\ UNCHANGED <<att, faults>>
       \/ Fault /\ att' = [att EXCEPT !.restoreFailed = TRUE]
    /\ pc' = "undo"
    /\ UNCHANGED <<durable, engine, up, outage, known, queue, edits>>

\* Mutant: a failed restore of the engine leaves no proof behind.
UndoneJournalForgotten(a) == a.prevJournal

\* The journal an undone attempt leaves: the preceding one, or, when the engine
\* may still run the candidate, a fresh one that forces the next reload.
UndoneJournal(a) ==
    IF a.restoreFailed THEN BegunJournal(journal, file, route) ELSE a.prevJournal

Undo ==
    /\ pc = "undo"
    /\ route' = IF att.req.kind = "route" THEN att.oldRoute ELSE route
    /\ IF att.created /\ rotation # NoRotation
       THEN rotation' = NoRotation /\ known' = {rotation.prev}
       ELSE UNCHANGED <<rotation, known>>
    /\ journal' = UndoneJournal(att)
    /\ Done
    /\ UNCHANGED <<data, confirmed, gwState, file, engine, up, outage, queue, budget>>

----------------------------------------------------------------------------
Processes == Boot \/ Bootstrap \/ Crash \/ EngineRestart \/ Reconnect
Clients   == EditData \/ SetRoute \/ SetSecret \/ ReloadRequest
Apply     == \/ BeginApply \/ RejectApply \/ PrepareSecret \/ PrepareFails
             \/ ConfirmSkip \/ Skip \/ Record \/ ReloadSucceeds \/ ReloadFails
             \/ Verify \/ Revert \/ Replace \/ Confirm \/ Settle \/ Finish
Recover   == Fail \/ RestoreFile \/ RestoreEngine \/ Undo

Next == Processes \/ Clients \/ Apply \/ EngineLoads \/ Recover

Spec == Init /\ [][Next]_vars

\* What goes on by itself: the event loop runs what is ready, and the engine takes
\* what it is sent.
Progress == Apply \/ EngineLoads \/ Recover

----------------------------------------------------------------------------
(* Properties *)

\* Every variable stays in its type, and what an attempt remembers with it.
TypeOK ==
    /\ data \in Data /\ route \in Routes /\ confirmed \in Secrets
    /\ rotation \in Rotations \cup {NoRotation}
    /\ journal \in Journals \cup {NoJournal}
    /\ gwState \in {"unknown", "applied", "failed", "basic"}
    /\ file \in Content \cup {NoFile} /\ running \in Content \cup {NoFile}
    /\ cred \in Secrets
    /\ up \in BOOLEAN /\ outage \in BOOLEAN
    /\ known \subseteq Secrets /\ queue \in Seq(Requests)
    /\ pc \in PCs /\ att \in Attempts
    /\ edits \in Nat /\ faults \in Nat

ForceQueued == \E i \in 1..Len(queue) : queue[i] = Forced

\* A reload that will repair the engine is due.
RepairDue == outage \/ ForceQueued

Desired == [data |-> data, route |-> route, secret |-> CandidateSecret]

\* Whatever the interleaving of writes, crashes and rollbacks, the bytes of
\* config.yaml are the journal's accepted or candidate identity, so the checks
\* of readConfigApplyRecovery never refuse an interrupted operation at boot.
JournalProvesFile == Provable(journal, file)

\* The Default route recovery validates the accepted file against is the one the
\* file was generated under, even while SQLite already holds another desired route.
RecoveryContext == file # NoFile => RecoveryRoute(journal, file, route) = file.route

\* No journal means nothing to replay: the engine runs the accepted file, or a
\* forced reload is already on its way. This is what makes the byte-identical
\* skip of applyConfigSerialized safe.
EngineAgrees ==
    up /\ journal = NoJournal /\ file # NoFile => running = file \/ RepairDue

\* activationVerified: true is returned only for bytes that are both durable and
\* live, unless the engine restarted meanwhile and its repair is due.
VerifiedIsLive ==
    pc \in {"settle", "finish"} => file = att.content /\ (running = file \/ RepairDue)

\* When every apply has returned and no journal is left, the accepted file is the
\* one the saved settings generate: no edit made during another apply is lost.
NoEditLost ==
    up /\ pc = "idle" /\ queue = <<>> /\ ~outage /\ journal = NoJournal => file = Desired

\* At every instant SQLite holds a credential the engine accepts, and so does the
\* client of a running server: a rotation never locks the panel out.
CredentialKept ==
    /\ \E s \in KnownSecrets(rotation, confirmed) : Authenticates(s)
    /\ up => \E s \in known : Authenticates(s)

\* A running server replaces config.yaml by bytes the engine has taken, or puts
\* the previous bytes back: a failed reload never costs the accepted file.
AcceptedFileKept ==
    [][up /\ file' # file => file' = att.prevContent \/ running = file' \/ RepairDue]_vars

\* Database, file and engine are together again; only a credential the engine has
\* not picked up yet may keep the journal open.
Converged ==
    /\ running = Desired /\ file = Desired
    /\ journal = NoJournal \/ rotation # NoRotation

\* Nothing is due or in progress, and no journal asks for a replay.
AtRest ==
    /\ up /\ ~outage
    /\ pc = "idle" /\ queue = <<>>
    /\ journal = NoJournal

\* What this module implements: settings, file and engine part only while a change
\* is open, and no crash, rollback, lost reply or restart closes it before they
\* agree again.
Agreement == INSTANCE AgreedConfig WITH
                 Configs  <- Content \cup {NoFile},
                 wanted   <- Desired,
                 accepted <- file,
                 live     <- running,
                 open     <- ~AtRest

ImplementsAgreement == Agreement!Spec

=============================================================================
