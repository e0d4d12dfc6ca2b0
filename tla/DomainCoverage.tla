--------------------------- MODULE DomainCoverage ---------------------------
(* Whether the routing already covers a domain (modules/domain-intelligence/ *)
(* coverage.ts, geosite.ts, production.ts): the rule files of the engine and *)
(* of the panel are read while other processes replace them, and the verdict *)
(* of a validation is only kept when nothing it was read from has changed    *)
(* during the probes.                                                        *)
(* A rule either covers the domain or is silent about it. The identity of a  *)
(* file (inode, size, times) is a stamp that every change renews. Of the     *)
(* lists of the routing, those of the Default channel are rules of the       *)
(* engine which the coverage passes over.                                    *)
EXTENDS Integers, Sequences, SequencesExt

CONSTANTS
    Providers, ProviderContents, \* rule providers and what their files may hold
    GeoContents,                 \* what geosite.dat may hold
    CustomContents,              \* what custom.txt may hold
    Limit,                       \* MAX_ACTIVE_PROVIDER_COUNT
    MaxChanges                   \* bound: changes by other processes

VARIABLES
    files,   \* content and identity
    routing, \* the inputs of the active routing
    managed, \* managedProviderActive
    run,     \* the validation
    changes

vars == <<files, routing, managed, run, changes>>

Lower  == "geosite.dat"
Upper  == "GeoSite.dat"
Custom == "custom.txt"
Files  == Providers \cup {Lower, Upper, Custom}
Absent == <<"absent">>
Unread == [content |-> Absent, stamp |-> -1]

\* What a list of rules says: it is "incomplete" as a whole for one bad entry.
Says(entries) ==
    IF "bad" \in Range(entries) THEN "incomplete"
    ELSE IF "covers" \in Range(entries) THEN "covers" ELSE "silent"

-----------------------------------------------------------------------------
(* The rules in a file.                                                      *)

\* parseProvider: an empty list is only a list for the managed provider.
ProviderSays(content, allowEmpty) ==
    IF content = Absent \/ (content = <<>> /\ ~allowEmpty) THEN "incomplete"
    ELSE Says(SelectSeq(content, LAMBDA e : e # "irrelevant"))

\* decodeActiveGeositeCategories: the file is a list of categories, "other" or,
\* for the one asked for, what its rules say. A category that comes twice and a
\* broken file leave it opaque.
GeositeSays(content) ==
    LET asked == SelectSeq(content, LAMBDA site : site \in {"covers", "silent", "bad"})
    IN  IF content = Absent \/ Len(asked) # 1 \/ "broken" \in Range(content)
        THEN "incomplete"
        ELSE Says(asked)

\* selectGeositeCandidate: one spelling, and no other.
Selected(lower, upper) ==
    IF lower.content # Absent /\ upper.content = Absent THEN lower
    ELSE IF upper.content # Absent /\ lower.content = Absent THEN upper ELSE Unread

-----------------------------------------------------------------------------
(* coverageModelFromActiveChannels and evaluateDomainCoverage over what was  *)
(* read of the files. The lists of Default, inputs.always, are skipped: only *)
(* those of the other channels, inputs.providers, are looked at.             *)

Bounded(inputs) == SubSeq(inputs.providers, 1, IF Len(inputs.providers) > Limit THEN Limit
                                               ELSE Len(inputs.providers))

GeositeVerdict(inputs, read) ==
    IF inputs.geosite
    THEN {GeositeSays(Selected(read[Lower], read[Upper]).content)}
    ELSE {}

Sources(inputs, custom, read) ==
    (IF inputs.exit
     THEN {inputs.inline} \cup GeositeVerdict(inputs, read)
            \cup {ProviderSays(read[p].content, FALSE) : p \in Range(Bounded(inputs))}
            \cup (IF Len(inputs.providers) > Limit THEN {"incomplete"} ELSE {})
     ELSE {})
    \cup (IF custom THEN {ProviderSays(read[Custom].content, TRUE)} ELSE {})

\* The order of the sources only decides which match is named.
Verdict(sources) ==
    IF "covers" \in sources THEN "covered"
    ELSE IF "incomplete" \in sources THEN "incomplete" ELSE "uncovered"

-----------------------------------------------------------------------------
(* The validation: executor.ts, around its probes.                           *)

\* createCoverageSnapshot: the files in the order they are read. The lists of
\* Default are not among them, unless another channel has them too.
Reads(inputs, custom) ==
    Bounded(inputs) \o (IF inputs.geosite THEN <<Lower, Upper>> ELSE <<>>)
       \o (IF custom THEN <<Custom>> ELSE <<>>)

Target == routing.exit   \* hasManagedDomainRuleProviderTarget

Begin ==
    /\ run.phase = "idle"
    /\ run' = [phase |-> "reading", inputs |-> routing, custom |-> managed /\ Target,
               todo |-> Reads(routing, managed /\ Target), open |-> -1,
               read |-> [f \in Files |-> Unread], verdict |-> "none"]
    /\ UNCHANGED <<files, routing, managed, changes>>

\* readBoundedProvider, readGeositeFile: the identity before,
Open ==
    /\ run.phase = "reading" /\ run.todo # <<>> /\ run.open = -1
    /\ run' = [run EXCEPT !.open = files[Head(run.todo)].stamp]
    /\ UNCHANGED <<files, routing, managed, changes>>

Readable(f) == files[f].content # Absent /\ (f \in Providers => files[f].fresh)

\* the content, and the identity after it.
Loaded(f) ==
    IF Readable(f) /\ files[f].stamp = run.open
    THEN [content |-> files[f].content, stamp |-> run.open]
    ELSE Unread

Load ==
    /\ run.phase = "reading" /\ run.open # -1
    /\ run' = [run EXCEPT !.open = -1, !.todo = Tail(@),
                          !.read[Head(run.todo)] = Loaded(Head(run.todo))]
    /\ UNCHANGED <<files, routing, managed, changes>>

\* The verdict before the probes; only an uncovered domain is probed, and only
\* over a target that has nodes.
Preflight ==
    /\ run.phase = "reading" /\ run.todo = <<>>
    /\ LET verdict == Verdict(Sources(run.inputs, run.custom, run.read))
       IN  run' = [run EXCEPT !.verdict = verdict,
                              !.phase = CASE verdict = "covered"              -> "early"
                                          [] verdict = "uncovered" /\ Target -> "probing"
                                          [] OTHER                            -> "failed"]
    /\ UNCHANGED <<files, routing, managed, changes>>

SameFile(f) == files[f].stamp = run.read[f].stamp /\ Readable(f)

\* A source that was not read is not looked at again: it made the verdict
\* incomplete. Of the two spellings both must be as they were.
ProvidersCurrent ==
    \A p \in Range(Bounded(run.inputs)) : run.read[p] # Unread => SameFile(p)

GeositeCurrent ==
    run.inputs.geosite =>
       /\ Selected(run.read[Lower], run.read[Upper]) # Unread
       /\ \A f \in {Lower, Upper} :
            IF run.read[f] = Unread THEN files[f].content = Absent ELSE SameFile(f)

FilesCurrent == ProvidersCurrent /\ GeositeCurrent    \* mutant: custom.txt is left out
IsCurrent ==
    /\ ProvidersCurrent /\ GeositeCurrent
    /\ run.custom => SameFile(Custom)
    /\ routing = run.inputs

Finish ==
    /\ run.phase = "probing"
    /\ run' = [run EXCEPT !.phase = IF IsCurrent THEN "decided" ELSE "failed"]
    /\ UNCHANGED <<files, routing, managed, changes>>

-----------------------------------------------------------------------------
(* The engine refreshes the files of its providers and its geosite data, the *)
(* rule worker replaces custom.txt, the administrator changes the routing.   *)

InProgress == run.phase \in {"reading", "probing"}
Change     == InProgress /\ changes < MaxChanges /\ changes' = changes + 1

Contents(f) ==
    {Absent} \cup (IF f \in Providers THEN ProviderContents
                   ELSE IF f = Custom THEN CustomContents ELSE GeoContents)

\* The lists the engine has rules of: those of every channel, Default included.
Emitted(r) == Range(r.providers) \cup r.always

\* The ones the coverage does not look at: those that only Default has.
PassedOver(r) == r.always \ Range(r.providers)

\* The files the routing and the settings name; the others are left alone, and
\* so are the lists that are passed over, which cover the domain.
Named(r, m) ==
    (IF r.exit THEN Emitted(r) \cup (IF r.geosite THEN {Lower, Upper} ELSE {}) ELSE {})
    \cup (IF m /\ r.exit THEN {Custom} ELSE {})

FileChanges(f) ==
    /\ Change /\ f \in Named(routing, managed) \ PassedOver(routing)
    /\ \E c \in Contents(f) :
         files' = [files EXCEPT ![f] = [content |-> c, stamp |-> @.stamp + 1, fresh |-> TRUE]]
    /\ UNCHANGED <<routing, managed, run>>

\* The file of a provider reaches MAX_PROVIDER_CACHE_AGE_MS.
FileAges(p) ==
    /\ Change /\ files[p].fresh /\ p \in Named(routing, managed) \ PassedOver(routing)
    /\ files' = [files EXCEPT ![p].fresh = FALSE]
    /\ UNCHANGED <<routing, managed, run>>

Orders == {SetToSeq(ps) : ps \in SUBSET Providers}

\* Default has lists only where no other rule can hide what they say.
Routings ==
    [providers : Orders, always : {{}}, inline : {"covers", "silent"}, geosite : BOOLEAN,
     exit : {TRUE}]
       \cup [providers : Orders, always : {Providers}, inline : {"silent"},
             geosite : {FALSE}, exit : {TRUE}]
       \cup {[providers |-> <<>>, always |-> {}, inline |-> "silent", geosite |-> FALSE,
              exit |-> FALSE]}

RoutingChanges ==
    /\ Change
    /\ \E r \in Routings \ {routing} : routing' = r
    /\ UNCHANGED <<files, managed, run>>

ManagedChanges ==
    /\ Change
    /\ managed' = ~managed
    /\ UNCHANGED <<files, routing, run>>

Init ==
    /\ routing \in Routings /\ managed \in BOOLEAN
    /\ LET read == Named(routing, managed) \ PassedOver(routing)
       IN  \E given \in [read -> UNION {Contents(f) : f \in read}] :
             /\ \A f \in read : given[f] \in Contents(f)
             /\ files = [f \in Files |->
                           [content |-> IF f \in read THEN given[f]
                                        ELSE IF f \in PassedOver(routing) THEN <<"covers">>
                                        ELSE Absent,
                            stamp |-> 0, fresh |-> TRUE]]
    /\ run = [phase |-> "idle"] /\ changes = 0

Next ==
    \/ Begin \/ Open \/ Load \/ Preflight \/ Finish
    \/ \E f \in Files : FileChanges(f)
    \/ \E p \in Providers : FileAges(p)
    \/ RoutingChanges \/ ManagedChanges

Spec == Init /\ [][Next]_vars

-----------------------------------------------------------------------------
\* What the files say at this moment, without the bound on providers.
Now(f) == IF Readable(f) THEN [content |-> files[f].content, stamp |-> 0] ELSE Unread

Actual ==
    Sources(routing, run.custom, [f \in Files |-> Now(f)])
       \cup {ProviderSays(Now(p).content, FALSE) : p \in Emitted(routing) \ PassedOver(routing)}

(* When a domain is decided on as uncovered, then at the moment the probes   *)
(* are over every rule source of a channel other than Default was read       *)
(* whole, is unchanged and fresh, and says nothing of the domain: no         *)
(* replaced file, torn read, aged cache, second spelling or provider beyond  *)
(* the limit goes unnoticed. Two exceptions. A domain that only a list of    *)
(* Default holds is decided on as uncovered although the engine has a rule   *)
(* for it (coverage.ts:227 and 313 against multiConfig.ts:303). And the      *)
(* managed provider may have become active since the run began.              *)
UncoveredNow ==
    run.phase = "decided" => Verdict(Actual) = "uncovered"

=============================================================================
