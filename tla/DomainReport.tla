---------------------------- MODULE DomainReport ----------------------------
(* What the database keeps of the domains, for how long, and what the       *)
(* reports say of it (modules/domain-intelligence/service.ts, report.ts,    *)
(* domain-intelligence-cli.ts): the retention pass of the scheduler, the    *)
(* overview, which counts in the database, and the listing, page by page.   *)
(* A domain is a number, in the order of the names. When a validation is    *)
(* due, and the rates it keeps to, are in DomainValidation.                 *)
EXTENDS Integers, Sequences, FiniteSets, FiniteSetsExt, SequencesExt

CONSTANTS
    Domains,
    Retention,       \* DOMAIN_OPERATIONAL_RETENTION_DAYS
    Lease,
    Limit, PageSize, \* rows of a page of the listing, of the decisions of the overview
    MaxTime,         \* bound: the clock
    MaxRuns,         \* bound: validations
    MaxChanges,      \* bound: restored candidates and changes of settings
    None

VARIABLES
    now,
    candidates, \* domain -> None or [status, review, seen, lease, run]
    runs,       \* [id, domain, status, finished]
    attempts,   \* [run, at]
    decisions,  \* [id, domain, at, status, whole]: whole when it can be read
    cut,        \* what a retention pass has just found and left, None otherwise
    changes

database == <<candidates, runs, attempts, decisions>>
vars     == <<now, database, cut, changes>>

Statuses == {"queued", "pending", "confirmed", "blocked", "excluded"}
Stored   == {d \in Domains : candidates[d] # None}
RunIds   == {r.id : r \in runs}

-----------------------------------------------------------------------------
(* What happens to a candidate.                                              *)

Leased(c, at) == c.lease # None /\ c.lease > at
Running(d)    == {r \in runs : r.domain = d /\ r.status = "running"}
Cancelled(rs, at) ==
    (runs \ rs) \cup {[r EXCEPT !.status = "cancelled", !.finished = at] : r \in rs}
Change == changes < MaxChanges /\ changes' = changes + 1

\* queueDomainCandidate: what the settings exclude has been excluded when they were
\* changed, and is not taken in anew.
Observe(d) ==
    /\ candidates' = [candidates EXCEPT ![d] =
         IF @ = None THEN [status |-> "queued", review |-> "active", seen |-> now,
                           lease |-> None, run |-> 0]
         ELSE [@ EXCEPT !.seen = now]]
    /\ cut' = None /\ UNCHANGED <<now, runs, attempts, decisions, changes>>

\* claimDomainValidationRun
Claim(d) ==
    LET id == Max({r.id : r \in runs} \cup {c.id : c \in decisions} \cup {0}) + 1 IN
    /\ d \in Stored /\ id <= MaxRuns
    /\ candidates[d].review = "active" /\ candidates[d].status # "excluded"
    /\ ~Leased(candidates[d], now)
    /\ candidates' = [candidates EXCEPT ![d].status = "pending", ![d].lease = now + Lease,
                                        ![d].run = id]
    /\ runs' = Cancelled(Running(d), now)
               \cup {[id |-> id, domain |-> d, status |-> "running", finished |-> None]}
    /\ cut' = None /\ UNCHANGED <<now, attempts, decisions, changes>>

\* completeDomainValidationRun: the attempts, the run, the decision and the
\* candidate. The row may have been written in a form this version cannot read.
Complete(r) ==
    LET d == r.domain IN
    /\ r.status = "running" /\ Leased(candidates[d], now) /\ candidates[d].run = r.id
    /\ candidates[d].status # "excluded"
    /\ attempts' = attempts \cup {[run |-> r.id, at |-> now]}
    /\ runs' = (runs \ {r}) \cup {[r EXCEPT !.status = "completed", !.finished = now]}
    /\ \E status \in {"pending", "confirmed", "blocked"}, whole \in BOOLEAN :
         /\ decisions' = decisions \cup {[id |-> r.id, domain |-> d, at |-> now,
                                          status |-> status, whole |-> whole]}
         /\ candidates' = [candidates EXCEPT ![d].status = status, ![d].lease = None]
    /\ cut' = None /\ UNCHANGED <<now, changes>>

\* setDomainCandidateRejection
Review(d) ==
    /\ d \in Stored
    /\ \/ /\ candidates[d].review = "active" /\ candidates[d].status # "excluded"
          /\ UNCHANGED changes
          /\ candidates' = [candidates EXCEPT ![d].review = "rejected"]
       \/ /\ candidates[d].review = "rejected" /\ Change
          /\ ~Leased(candidates[d], now) /\ Running(d) = {}
          /\ \E status \in {"queued", "excluded"} :
               candidates' = [candidates EXCEPT ![d].review = "active", ![d].lease = None,
                                                ![d].status = status]
    /\ cut' = None /\ UNCHANGED <<now, runs, attempts, decisions>>

\* setDomainIntelligenceReportSettings, for a domain it changes.
ChangeSettings(d) ==
    /\ d \in Stored /\ Change
    /\ \E status \in {"queued", "excluded"} :
         candidates' = [candidates EXCEPT ![d].status = status, ![d].lease = None]
    /\ runs' = Cancelled(Running(d), now)
    /\ cut' = None /\ UNCHANGED <<now, attempts, decisions>>

-----------------------------------------------------------------------------
(* runMaintenance: recoverExpiredDomainValidationRuns, then                  *)
(* pruneDomainIntelligence.                                                  *)

Orphans ==
    {r \in runs : /\ r.status = "running"
                  /\ ~Leased(candidates[r.domain], now) \/ candidates[r.domain].run # r.id}

Recovered(d) ==
    LET c == candidates[d] IN
    IF c # None /\ c.lease # None /\ c.status # "excluded" /\ (\E r \in Orphans : r.id = c.run)
    THEN [c EXCEPT !.status = "pending", !.lease = None] ELSE c

\* Deletions cascade: of a candidate to its runs and decisions, of a run to its
\* attempts.
DbOf(cs, rs, as, ds) ==
    [candidates |-> cs,
     runs       |-> {r \in rs : cs[r.domain] # None},
     attempts   |-> {a \in as : \E r \in rs : r.id = a.run /\ cs[r.domain] # None},
     decisions  |-> {c \in ds : cs[c.domain] # None}]

\* A candidate out of sight, with no validation on its way.
Stale(db, d, cutoff) ==
    /\ db.candidates[d].seen < cutoff /\ ~Leased(db.candidates[d], now)
    /\ ~\E r \in db.runs : r.domain = d /\ r.status = "running"

Protected(db, d) == Leased(db.candidates[d], now)
DomainOf(db, run) == (CHOOSE r \in db.runs : r.id = run).domain

WithoutStale(db, cutoff) ==
    DbOf(db.candidates,
         {r \in db.runs : r.status # "running" => ~Stale(db, r.domain, cutoff)},
         {a \in db.attempts : ~Stale(db, DomainOf(db, a.run), cutoff)},
         {c \in db.decisions : ~Stale(db, c.domain, cutoff)})

AgedAttemptAny(db, a, cutoff) == a.at < cutoff   \* mutant
AgedAttempt(db, a, cutoff) == a.at < cutoff /\ ~Protected(db, DomainOf(db, a.run))

WithoutAged(db, cutoff) ==
    LET as == {a \in db.attempts : ~AgedAttempt(db, a, cutoff)} IN
    DbOf(db.candidates,
         {r \in db.runs : ~(/\ r.status # "running" /\ r.finished < cutoff
                            /\ ~Protected(db, r.domain)
                            /\ ~\E a \in as : a.run = r.id /\ a.at >= cutoff)},
         as,
         {c \in db.decisions : ~(c.at < cutoff /\ ~Protected(db, c.domain))})

WithoutUnseen(db, cutoff) ==
    DbOf([d \in Domains |->
            IF /\ db.candidates[d] # None
               /\ db.candidates[d].seen < cutoff /\ ~Protected(db, d)
               /\ ~\E r \in db.runs : r.domain = d
               /\ ~\E c \in db.decisions : c.domain = d
            THEN None ELSE db.candidates[d]],
         db.runs, db.attempts, db.decisions)

\* A run is over when its lease was, as long as the candidate has its lease.
Abandoned(r) ==
    LET c == candidates[r.domain] IN
    [r EXCEPT !.status = "cancelled",
              !.finished = IF c.run = r.id /\ c.lease # None THEN Min({now, c.lease}) ELSE now]

\* The pass prunes once in DOMAIN_RETENTION_INTERVAL_MS.
RunMaintenance ==
    LET cutoff == now - Retention
        db == DbOf([d \in Domains |-> Recovered(d)],
                   (runs \ Orphans) \cup {Abandoned(r) : r \in Orphans}, attempts, decisions)
        pruned == WithoutUnseen(WithoutAged(WithoutStale(db, cutoff), cutoff), cutoff)
    IN  /\ \E prune \in {FALSE, cutoff >= 0} :
             LET kept == IF prune THEN pruned ELSE db IN
             /\ candidates' = kept.candidates /\ runs' = kept.runs
             /\ attempts' = kept.attempts /\ decisions' = kept.decisions
             /\ cut' = IF prune THEN [before |-> db, cutoff |-> cutoff] ELSE None
        /\ UNCHANGED <<now, changes>>

-----------------------------------------------------------------------------
(* What the reports say.                                                     *)

Later(a, b) == a.at > b.at \/ (a.at = b.at /\ a.id > b.id)

\* The decision without a newer one, as the queries of both reports find it.
Latest(d) ==
    {c \in decisions : c.domain = d /\ ~\E e \in decisions : e.domain = d /\ Later(e, c)}

Terminal(d) == candidates[d].status \in {"confirmed", "blocked"}

\* parseRawReportDecision, and the agreement with a terminal candidate.
Readable(d, c) == c.whole /\ (Terminal(d) => c.status = candidates[d].status)

\* The page of up to size of the domains after the cursor.
PageAfter(ds, cursor, size) ==
    LET rest == SetToSortSeq({d \in ds : d > cursor}, <)
    IN  SubSeq(rest, 1, Min({size, Len(rest)}))

\* getDomainIntelligenceOverview: its loop over the decisions.
DecisionPages[cursor \in {0} \cup Domains] ==
    LET page == PageAfter({d \in Stored : Latest(d) # {}}, cursor, PageSize)
    IN  IF Len(page) < PageSize THEN page ELSE page \o DecisionPages[page[Len(page)]]

Count(seq, Holds(_)) == Len(SelectSeq(seq, Holds))
Table(Holds(_)) == Cardinality({d \in Stored : Holds(d)})

Overview ==
    LET active(d)  == candidates[d].review = "active"
        blocked(d) == active(d) /\ candidates[d].status = "blocked"
        missing(d) == Terminal(d) /\ Latest(d) = {}
        unread(d)  == \A c \in Latest(d) : ~Readable(d, c)
        unproved(d) == blocked(d) /\ missing(d)
        told(d)    == blocked(d) /\ ~unread(d)
        untold(d)  == blocked(d) /\ unread(d)
        policy(d)  == active(d) /\ candidates[d].status = "excluded"
        pages      == DecisionPages[0]
        reasons    == [rejected |-> Table(LAMBDA d : candidates[d].review = "rejected"),
                       policy   |-> Table(policy),
                       evidence |-> Table(unproved) + Count(pages, untold),
                       decision |-> Count(pages, told)]
        excluded   == reasons.rejected + reasons.policy + reasons.evidence + reasons.decision
    IN  [reasons   |-> reasons,
         candidate |-> Cardinality(Stored) - excluded,
         exclusion |-> excluded,
         missing   |-> Table(missing),
         invalid   |-> Count(pages, unread)]

\* listDomainCandidateReport: an item, and a page of the view.
Item(d) ==
    LET c    == candidates[d]
        read == {e \in Latest(d) : Readable(d, e)}
    IN  [domain |-> d,
         bucket |-> IF c.review = "rejected" \/ c.status \in {"blocked", "excluded"}
                    THEN "exclusion" ELSE "candidate",
         reason |-> CASE c.review = "rejected" -> "rejected"
                      [] c.review = "active" /\ c.status = "excluded" -> "policy"
                      [] c.review = "active" /\ c.status = "blocked" ->
                           IF read # {} THEN "decision" ELSE "evidence"
                      [] OTHER -> None,
         issue  |-> IF Latest(d) = {} THEN (IF Terminal(d) THEN "missing" ELSE None)
                    ELSE IF read = {} THEN "invalid" ELSE None]

InView(d, view) ==
    CASE view = "candidates" -> /\ candidates[d].review = "active"
                                /\ candidates[d].status \in {"queued", "pending", "confirmed"}
      [] view = "exclusions" -> \/ candidates[d].review = "rejected"
                                \/ candidates[d].status \in {"blocked", "excluded"}
      [] OTHER -> TRUE

Listed(view, cursor) ==
    LET ds   == {d \in Stored : InView(d, view)}
        rows == PageAfter(ds, cursor, Limit + 1)
        page == SubSeq(rows, 1, Min({Limit, Len(rows)}))
    IN  [items |-> [i \in DOMAIN page |-> Item(page[i])],
         next  |-> IF Len(rows) > Limit THEN page[Len(page)] ELSE None]

\* readNextCandidatePage and its loop; an error is <<None>>.
Views == {"all", "candidates", "exclusions"}
Pages[view \in Views, cursor \in {0} \cup Domains] ==
    LET page == Listed(view, cursor)
    IN  IF page.next = None THEN page.items
        ELSE IF page.next <= cursor \/ page.items = <<>> THEN <<None>>
        ELSE page.items \o Pages[view, page.next]

\* paginateDomainCandidateReport: no candidate comes twice.
Checked(all) ==
    IF None \in Range(all) \/ ~IsInjective([i \in DOMAIN all |-> all[i].domain])
    THEN <<None>> ELSE all
Paginated(view) == Checked(Pages[view, 0])

-----------------------------------------------------------------------------
Tick ==
    /\ now < MaxTime /\ now' = now + 1
    /\ cut' = None /\ UNCHANGED <<database, changes>>

Init ==
    /\ now = 0 /\ changes = 0 /\ cut = None
    /\ candidates = [d \in Domains |-> None]
    /\ runs = {} /\ attempts = {} /\ decisions = {}

Next ==
    \/ RunMaintenance \/ Tick
    \/ \E d \in Domains : Observe(d) \/ Claim(d) \/ Review(d) \/ ChangeSettings(d)
    \/ \E r \in runs : Complete(r)

Spec == Init /\ [][Next]_vars

-----------------------------------------------------------------------------
(* The counts of the overview are those of what is listed, in every view,    *)
(* for each reason and each gap in the evidence, although one is counted in  *)
(* the database and the other row by row: readDomainIntelligenceReport-      *)
(* Snapshot never fails, and lists every candidate once.                     *)
ReportsAgree ==
    \A all \in {Paginated("all")}, o \in {Overview} :
        /\ [i \in DOMAIN all |-> all[i].domain] = SetToSortSeq(Stored, <)
        /\ o.candidate = Len(Paginated("candidates"))
        /\ o.exclusion = Len(Paginated("exclusions"))
        /\ \A reason \in DOMAIN o.reasons :
             o.reasons[reason] = Count(all, LAMBDA item : item.reason = reason)
        /\ o.missing = Count(all, LAMBDA item : item.issue = "missing")
        /\ o.invalid = Count(all, LAMBDA item : item.issue = "invalid")
        /\ \A i \in DOMAIN all : (all[i].bucket = "exclusion") <=> (all[i].reason # None)

(* A retention pass leaves nothing of a candidate out of sight and no older  *)
(* evidence, unless a live lease holds it, whatever crashed before; and it   *)
(* takes nothing else: neither what a validation on its way has counted nor  *)
(* the evidence of a candidate still in sight.                               *)
RetentionExact ==
    cut # None =>
       LET db == cut.before
           held(d) == Protected(db, d)
           gone(d) == ~held(d) /\ db.candidates[d].seen < cut.cutoff
           dropped(d, at) == ~held(d) /\ (gone(d) \/ at < cut.cutoff)
           was == {d \in Domains : db.candidates[d] # None}
       IN  /\ Stored = {d \in was : ~gone(d)}
           /\ attempts = {a \in db.attempts : ~dropped(DomainOf(db, a.run), a.at)}
           /\ decisions = {c \in db.decisions : ~dropped(c.domain, c.at)}
           /\ \A r \in db.runs : held(r.domain) => r \in runs
           /\ \A r \in runs : r.status = "running" => held(r.domain)
=============================================================================
