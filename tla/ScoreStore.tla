----------------------------- MODULE ScoreStore -----------------------------
(***************************************************************************)
(* The persisted scores and the two programs that write them: the command  *)
(* `replay score`, and the API handler of a role override, which changes   *)
(* the override file, the report, the scores and the review of a match     *)
(* under snapshots that a failure restores.  No lock keeps them apart.     *)
(*                                                                         *)
(* An override is the number of the request that set it, metrics are the   *)
(* number of the run that computed them: a row is what the scores of a     *)
(* match were made from.                                                   *)
(***************************************************************************)
EXTENDS Naturals, Sequences, FiniteSets

CONSTANTS
    MatchCount,     \* matches of the data root, in the order of their ids
    Call,           \* numbers of the override requests
    Target,         \* the match each of them is about
    MaxTogether,    \* bound on the programs at work at one time
    MaxScores,      \* bound on score commands,
    MaxOutside,     \* ... on re-analyses and commits of other reviewers,
    MaxFailures,    \* ... on failed writes and killed processes,
    MaxEvents       \* ... and on all of these

Match == 1..MatchCount

ASSUME ConstantsAssumption ==
    /\ MatchCount \in Nat
    /\ Call \subseteq Nat \ {0}
    /\ Target \in [Call -> Match]
    /\ {MaxTogether, MaxScores, MaxOutside, MaxFailures, MaxEvents} \subseteq Nat

VARIABLES
    verified, metrics,      \* what the runner left: status and metrics
    catalog,                \* the matches catalog.json lists as verified
    overrides,              \* role-overrides-effective.json
    report,                 \* the override each report was built with
    scores,                 \* scores.json of each match
    corpus,                 \* scores-corpus.json
    review, audit,          \* the corrections of each match, and the log
    desk,                   \* the review store's transaction under way
    call,                   \* the handlers
    command,                \* the score command
    bounds,
    acked,                  \* commits of other reviewers, acknowledged
    found,                  \* the files as each handler found them
    met,                    \* who was at work while a handler was
    writer                  \* who wrote the scores last, and not in turns

analysis == <<verified, metrics>>
reviews == <<review, audit>>
persisted == <<catalog, overrides, report, scores, corpus, reviews>>
programs == <<call, command, desk>>
history == <<acked, found, met, writer>>
vars == <<analysis, persisted, programs, history, bounds>>

NoRow == [metrics |-> 0, role |-> 0]
NoRows == [m \in Match |-> NoRow]
NoCorpus == [exists |-> FALSE, rows |-> NoRows]
NoFiles == [overrides |-> [m \in Match |-> 0], report |-> 0, scores |-> NoRow,
            corpus |-> NoCorpus, review |-> <<>>, audit |-> <<>>]
NoCall == [at |-> "new", before |-> NoFiles, kept |-> NoFiles.overrides, rows |-> NoRows,
           next |-> 0]

\* roleMutationPaths: what a handler may touch, in the order it is read and
\* put back; without the corpus it is a slip.
Files_NotCorpus == <<"overrides", "report", "scores", "review", "audit">>

Files == <<"overrides", "report", "scores", "corpus", "review", "audit">>

\* A slip: the document of the review is taken for absent.
Snapshot_NoReview(m) == [overrides |-> overrides, report |-> report[m], scores |-> scores[m],
                         corpus |-> corpus, review |-> <<>>, audit |-> audit]

Snapshot(m) == [overrides |-> overrides, report |-> report[m], scores |-> scores[m],
                corpus |-> corpus, review |-> review[m], audit |-> audit]

\* BuildCorpusFromStore: the verified rows of the catalog, with the metrics
\* and the effective overrides on disk now; a row without its role is a slip.
Rows_WithoutRole == [m \in Match |-> IF m \in catalog THEN [metrics |-> metrics[m]] ELSE NoRow]

Rows == [m \in Match |-> IF m \in catalog
                         THEN [metrics |-> metrics[m], role |-> overrides[m]]
                         ELSE NoRow]

\* A data root that was run, and scored or not yet.
Init ==
    /\ verified \in [Match -> BOOLEAN] /\ metrics = [m \in Match |-> 1]
    /\ catalog = {m \in Match : verified[m]}
    /\ overrides = [m \in Match |-> 0] /\ report = [m \in Match |-> 0]
    /\ \/ scores = NoRows /\ corpus = NoCorpus
       \/ scores = Rows /\ corpus = [exists |-> TRUE, rows |-> Rows]
    /\ review = [m \in Match |-> <<>>] /\ audit = <<>>
    /\ call = [c \in Call |-> NoCall]
    /\ command = [at |-> "idle", rows |-> NoRows, next |-> 0]
    /\ desk = {} /\ acked = {}
    /\ found = [c \in Call |-> [NoFiles EXCEPT !.scores = NoRows]]
    /\ met = [c \in Call |-> {}] /\ writer = {0}
    /\ bounds = [scores |-> 0, reruns |-> 0, regrades |-> 0, reviews |-> 0,
                 failures |-> 0]

Handled == {"new", "200", "500", "stuck", "cut"}
Busy == {c \in Call : call[c].at \notin Handled}
Quiet == command.at = "idle" /\ Busy = {} /\ desk = {}

Entry(by, n) == [by |-> by, number |-> n]
Outside == {t \in desk : t.entry.by = "review"}
MayBegin ==
    Cardinality(Busy) + Cardinality(Outside) + (IF command.at = "idle" THEN 0 ELSE 1)
        < MaxTogether

Outsiders == bounds.reruns + bounds.regrades + bounds.reviews
Spend(b) ==
    /\ bounds.scores + Outsiders + bounds.failures < MaxEvents
    /\ bounds' = [bounds EXCEPT ![b] = @ + 1]
SpendScore == bounds.scores < MaxScores /\ Spend("scores")
SpendOutside(b) == Outsiders < MaxOutside /\ Spend(b)
SpendFailure == bounds.failures < MaxFailures /\ Spend("failures")
Goto(c, at) == call' = [call EXCEPT ![c].at = at]
End(c, at) == call' = [call EXCEPT ![c] = [NoCall EXCEPT !.at = at]]

\* The history: these handlers met someone; this program, 0 for the command,
\* writes scores, after it has written those of `next`.
Meet(handlers, who) ==
    met' = [c \in Call |-> IF c \in handlers THEN met[c] \cup {who} ELSE met[c]]
Writes(p, next) == writer' = IF next = 0 \/ writer = {p} THEN {p} ELSE {}

-----------------------------------------------------------------------------
(* scoring.ComputeAndPersist                                               *)

\* The matches whose scores are written: members only, in order.
Following(rows, k) == {m \in Match : m > k /\ rows[m] # NoRow}
Least(S) == CHOOSE m \in S : \A n \in S : m <= n

\* PreflightPersistedScores: every copy in the corpus is the match's own,
\* and every match's scores are in the corpus.
Preflight ==
    IF corpus.exists THEN corpus.rows = scores ELSE scores = NoRows

-----------------------------------------------------------------------------
(* replay score                                                            *)

ScoreBegins ==
    /\ command.at = "idle" /\ MayBegin
    /\ SpendScore
    /\ IF Preflight
       THEN /\ catalog' = {m \in Match : verified[m]}
            /\ command' = [command EXCEPT !.at = "read"]
            /\ Meet(Busy, "score")
       ELSE UNCHANGED <<catalog, command, met>>
    /\ UNCHANGED <<analysis, overrides, report, scores, corpus, reviews, call, desk,
                   acked, found, writer>>

ScoreReads ==
    /\ command.at = "read"
    /\ command' = [at |-> "write", rows |-> Rows, next |-> 0]
    /\ UNCHANGED <<analysis, persisted, call, desk, history, bounds>>

ScoreWrites ==
    /\ command.at = "write"
    /\ LET left == Following(command.rows, command.next) IN
       IF left # {}
       THEN LET m == Least(left) IN
            /\ scores' = [scores EXCEPT ![m] = command.rows[m]]
            /\ command' = [command EXCEPT !.next = m]
            /\ UNCHANGED corpus
       ELSE /\ corpus' = [exists |-> TRUE, rows |-> command.rows]
            /\ command' = [at |-> "idle", rows |-> NoRows, next |-> 0]
            /\ UNCHANGED scores
    /\ Writes(0, command.next)
    /\ UNCHANGED <<analysis, catalog, overrides, report, reviews, call, desk, bounds,
                   acked, found, met>>

\* A write fails, or the process is killed.
ScoreStops ==
    /\ command.at # "idle"
    /\ SpendFailure
    /\ command' = [at |-> "idle", rows |-> NoRows, next |-> 0]
    /\ UNCHANGED <<analysis, persisted, call, desk, history>>

-----------------------------------------------------------------------------
(* Server.handleRoleOverrides                                              *)

\* The requests are numbered in the order they arrive.
Begin(c) ==
    /\ call[c].at = "new" /\ MayBegin
    /\ \A d \in Call : d < c => call[d].at # "new"
    /\ Goto(c, "snapshot")
    /\ found' = [found EXCEPT ![c] = [Snapshot(Target[c]) EXCEPT !.scores = scores]]
    /\ met' = [d \in Call |->
                 IF d = c THEN (IF Busy = {} THEN {} ELSE {"override"})
                               \cup (IF command.at = "idle" THEN {} ELSE {"score"})
                 ELSE IF d \in Busy THEN met[d] \cup {"override"} ELSE met[d]]
    /\ UNCHANGED <<analysis, persisted, command, desk, acked, writer, bounds>>

\* snapshotFiles: one file after the other, before the first write.
TakeSnapshot(c) ==
    LET n == call[c].next + 1 IN
    /\ call[c].at = "snapshot"
    /\ call' = [call EXCEPT ![c].before[Files[n]] = Snapshot(Target[c])[Files[n]],
                            ![c].next = n,
                            ![c].at = IF n = Len(Files) THEN "load" ELSE @]
    /\ UNCHANGED <<analysis, persisted, command, desk, history, bounds>>

LoadOverrides(c) ==
    /\ call[c].at = "load"
    /\ call' = [call EXCEPT ![c].at = "override", ![c].kept = overrides]
    /\ UNCHANGED <<analysis, persisted, command, desk, history, bounds>>

WriteOverride(c) ==
    /\ call[c].at = "override"
    /\ overrides' = [call[c].kept EXCEPT ![Target[c]] = c]
    /\ Goto(c, "report")
    /\ UNCHANGED <<analysis, catalog, report, scores, corpus, reviews, command, desk,
                   history, bounds>>

\* rebuildAndPersistReport, with the overrides on disk.
RebuildReport(c) ==
    /\ call[c].at = "report"
    /\ report' = [report EXCEPT ![Target[c]] = overrides[Target[c]]]
    /\ Goto(c, "read")
    /\ UNCHANGED <<analysis, catalog, overrides, scores, corpus, reviews, command, desk,
                   history, bounds>>

\* A slip: the rows are read from the snapshot of the overrides.
ReadRows_Stale(c) ==
    /\ call[c].at = "read"
    /\ call' = [call EXCEPT ![c].at = "write", ![c].next = 0,
            ![c].rows = [m \in Match |-> IF m \in catalog
                         THEN [metrics |-> metrics[m], role |-> call[c].kept[m]]
                         ELSE NoRow]]
    /\ UNCHANGED <<analysis, persisted, command, desk, history, bounds>>

ReadRows(c) ==
    /\ call[c].at = "read"
    /\ call' = [call EXCEPT ![c].at = "write", ![c].rows = Rows, ![c].next = 0]
    /\ UNCHANGED <<analysis, persisted, command, desk, history, bounds>>

\* A slip: of the scores, those of the request's match are written.
WriteScores_OwnMatch(c) ==
    /\ call[c].at = "write"
    /\ LET rows == call[c].rows  m == Target[c] IN
       /\ scores' = [scores EXCEPT ![m] = IF rows[m] # NoRow THEN rows[m] ELSE @]
       /\ corpus' = [exists |-> TRUE, rows |-> rows]
    /\ Goto(c, "correct")
    /\ Writes(c, 0)
    /\ UNCHANGED <<analysis, catalog, overrides, report, reviews, command, desk, bounds,
                   acked, found, met>>

WriteScores(c) ==
    /\ call[c].at = "write"
    /\ LET left == Following(call[c].rows, call[c].next) IN
       IF left # {}
       THEN LET m == Least(left) IN
            /\ scores' = [scores EXCEPT ![m] = call[c].rows[m]]
            /\ call' = [call EXCEPT ![c].next = m]
            /\ UNCHANGED corpus
       ELSE /\ corpus' = [exists |-> TRUE, rows |-> call[c].rows]
            /\ Goto(c, "correct")
            /\ UNCHANGED scores
    /\ Writes(c, call[c].next)
    /\ UNCHANGED <<analysis, catalog, overrides, report, reviews, command, desk, bounds,
                   acked, found, met>>

\* Under the review store's mutex a transaction reads document and log, ...
Opened(entry, m) == [entry |-> entry, match |-> m, review |-> review[m], audit |-> audit]

\* ... and commits them with its entry, in one step (see ReviewCommit).
Commit(t) ==
    /\ review' = [review EXCEPT ![t.match] = Append(t.review, t.entry)]
    /\ audit' = Append(t.audit, t.entry)
    /\ desk' = {}

\* Reviews.AddAuthoritative
Correct(c) ==
    /\ call[c].at = "correct" /\ desk = {}
    /\ desk' = {Opened(Entry("override", c), Target[c])}
    /\ Goto(c, "commit")
    /\ UNCHANGED <<analysis, persisted, command, history, bounds>>

\* The correction is committed, then 200.
Corrected(c) ==
    /\ call[c].at = "commit"
    /\ \E t \in desk : t.entry = Entry("override", c) /\ Commit(t)
    /\ End(c, "200")
    /\ UNCHANGED <<analysis, catalog, overrides, report, scores, corpus, command, history,
                   bounds>>

\* Any write fails; the review store undoes its own.
Fails(c) ==
    /\ call[c].at \in {"override", "report", "read", "write", "correct", "commit"}
    /\ SpendFailure
    /\ desk' = {t \in desk : t.entry # Entry("override", c)}
    /\ call' = [call EXCEPT ![c].at = "undo", ![c].next = 0]
    /\ UNCHANGED <<analysis, persisted, command, history>>

\* restoreSnapshots: one file after the other, whatever is there now and
\* without the review store's mutex.
Restore(c) ==
    LET n == call[c].next + 1  f == Files[n]  before == call[c].before  m == Target[c] IN
    /\ call[c].at = "undo"
    /\ overrides' = IF f = "overrides" THEN before.overrides ELSE overrides
    /\ report' = IF f = "report" THEN [report EXCEPT ![m] = before.report] ELSE report
    /\ scores' = IF f = "scores" THEN [scores EXCEPT ![m] = before.scores] ELSE scores
    /\ corpus' = IF f = "corpus" THEN before.corpus ELSE corpus
    /\ review' = IF f = "review" THEN [review EXCEPT ![m] = before.review] ELSE review
    /\ audit' = IF f = "audit" THEN before.audit ELSE audit
    /\ IF n = Len(Files) THEN End(c, "500") ELSE call' = [call EXCEPT ![c].next = n]
    /\ UNCHANGED <<analysis, catalog, command, desk, history, bounds>>

\* The restoration stops at its first error, which the handler ignores: the
\* client is told 500 too.
RestoreFails(c) ==
    /\ call[c].at = "undo"
    /\ SpendFailure
    /\ End(c, "stuck")
    /\ UNCHANGED <<analysis, persisted, command, desk, history>>

ServerDies ==
    /\ Busy # {} \/ desk # {}
    /\ SpendFailure
    /\ call' = [c \in Call |-> IF call[c].at \in Handled THEN call[c]
                               ELSE [NoCall EXCEPT !.at = "cut"]]
    /\ desk' = {}
    /\ UNCHANGED <<analysis, persisted, command, history>>

Handle(c) ==
    \/ Begin(c) \/ TakeSnapshot(c) \/ LoadOverrides(c) \/ WriteOverride(c)
    \/ RebuildReport(c) \/ ReadRows(c) \/ WriteScores(c) \/ Correct(c) \/ Corrected(c)
    \/ Fails(c) \/ Restore(c) \/ RestoreFails(c)

-----------------------------------------------------------------------------
(* The rest of the system                                                  *)

\* Another reviewer's mutation of a match: read, ...
Review(m) ==
    /\ MayBegin /\ desk = {}
    /\ SpendOutside("reviews")
    /\ desk' = {Opened(Entry("review", bounds.reviews), m)}
    /\ UNCHANGED <<analysis, persisted, call, command, history>>

\* ... committed and acknowledged, while those handlers were at work.
Reviewed ==
    \E t \in Outside :
        /\ Commit(t)
        /\ acked' = acked \cup {[match |-> t.match, entry |-> t.entry, during |-> Busy]}
        /\ Meet(Busy, "review")
        /\ UNCHANGED <<analysis, catalog, overrides, report, scores, corpus, call, command,
                       found, writer, bounds>>

\* The runner analyses a match again; its report has the roles of the
\* manifest. It passes the gates, or no longer does.
Rerun(m) ==
    /\ MayBegin
    /\ \/ /\ SpendOutside("reruns")
          /\ metrics' = [metrics EXCEPT ![m] = @ + 1] /\ UNCHANGED verified
       \/ /\ SpendOutside("regrades")
          /\ verified' = [verified EXCEPT ![m] = ~ @] /\ UNCHANGED metrics
    /\ report' = [report EXCEPT ![m] = 0]
    /\ Meet({c \in Busy : Target[c] = m}, "runner")
    /\ UNCHANGED <<catalog, overrides, scores, corpus, reviews, programs, acked, found, writer>>

RebuildCatalog ==
    /\ MayBegin
    /\ catalog # {m \in Match : verified[m]}
    /\ catalog' = {m \in Match : verified[m]}
    /\ UNCHANGED <<analysis, overrides, report, scores, corpus, reviews, programs, history,
                   bounds>>

Next ==
    \/ ScoreBegins \/ ScoreReads \/ ScoreWrites \/ ScoreStops
    \/ \E c \in Call : Handle(c)
    \/ ServerDies \/ RebuildCatalog \/ Reviewed
    \/ \E m \in Match : Review(m) \/ Rerun(m)

Spec == Init /\ [][Next]_vars

-----------------------------------------------------------------------------
Row == [metrics : Nat, role : Call \cup {0}]

TypeOK ==
    /\ catalog \subseteq Match
    /\ overrides \in [Match -> Call \cup {0}] /\ report \in [Match -> Call \cup {0}]
    /\ scores \in [Match -> Row] /\ corpus.rows \in [Match -> Row]
    /\ command.at \in {"idle", "read", "write"}
    /\ \A c \in Call : call[c].at \in Handled \cup
            {"snapshot", "load", "override", "report", "read", "write", "correct", "commit",
             "undo"}
    /\ met \in [Call -> SUBSET {"override", "score", "review", "runner"}]
    /\ Cardinality(desk) <= 1

\* No other program that changes overrides or scores was at work meanwhile.
Unmixed(c) == met[c] \cap {"override", "score"} = {}

(***************************************************************************)
(* An acknowledged override that no other writer met is effective at any   *)
(* time, until another override of its match comes: it is in the override  *)
(* file, and where scores and corpus know the match they were made from it. *)
(* Others may overlap, fail, be restored or killed as they like, and an    *)
(* override of the same match that no other writer met and that was        *)
(* refused changes nothing of that (handleRoleOverrides: load, write,      *)
(* recompute, restore).                                                    *)
(***************************************************************************)
AckedIsEffective ==
    \A c \in Call : call[c].at = "200" /\ Unmixed(c) =>
        LET m == Target[c] IN
        (\A d \in Call : d > c /\ Target[d] = m =>
             call[d].at = "new" \/ (call[d].at = "500" /\ Unmixed(d))) =>
            /\ overrides[m] = c
            /\ corpus.exists
            /\ corpus.rows[m] # NoRow => corpus.rows[m].role = c /\ scores[m].role = c

\* Who but the handler writes each of its files.
Writers == [overrides |-> {"override"}, report |-> {"override", "runner"},
            scores |-> {"override", "score"}, corpus |-> {"override", "score"},
            review |-> {"override", "review"}, audit |-> {"override", "review"}]

(***************************************************************************)
(* An override that is refused leaves nothing behind: override file,       *)
(* report, scores of its match, corpus, review and log are, each, as the   *)
(* request found it, unless one who writes that file was at work meanwhile *)
(* (snapshotFiles, restoreSnapshots).                                      *)
(***************************************************************************)
RefusedLeavesNothing ==
    [][\A c \in Call : call[c].at # "500" /\ call'[c].at = "500" =>
          LET m == Target[c]  was == [found[c] EXCEPT !.scores = @[m]] IN
          \A f \in DOMAIN Writers :
              met[c] \cap Writers[f] = {} => Snapshot(m)'[f] = was[f]]_vars

(***************************************************************************)
(* Scoring can be repeated: when nobody writes the scores, the next score  *)
(* run passes its own preflight, whatever overrides, re-analyses and score *)
(* runs there were, as long as all of them succeeded, no match changed its *)
(* status, and whoever wrote the scores last was not interrupted in it by  *)
(* another writer (ComputeAndPersist, PreflightPersistedScores).           *)
(***************************************************************************)
ScoresAgree ==
    Quiet /\ writer # {} /\ bounds.failures = 0 /\ bounds.regrades = 0 => Preflight

(***************************************************************************)
(* An acknowledged override takes effect: when nobody is at work, the      *)
(* override file has it, unless another override of its match came.        *)
(***************************************************************************)
AckedOverrideKept ==
    Quiet => \A c \in Call : call[c].at = "200" /\
        (\A d \in Call \ {c} : Target[d] = Target[c] => call[d].at = "new")
            => overrides[Target[c]] = c

\* A handler that failed, restored or not.
Failed(c) == call[c].at \in {"undo", "500", "stuck", "cut"}

(***************************************************************************)
(* The log is immutable: what another reviewer was told is recorded stays  *)
(* in the review and in the log, whatever overrides come, overlap and      *)
(* fail.  Except: an override that was at work as it was committed, and    *)
(* failed, may have taken it back (restoreSnapshots has no lock).          *)
(***************************************************************************)
AckedReviewKept ==
    \A a \in acked : (\A c \in a.during : ~Failed(c)) =>
        /\ \E i \in DOMAIN review[a.match] : review[a.match][i] = a.entry
        /\ \E i \in DOMAIN audit : audit[i] = a.entry

(***************************************************************************)
(* Nothing that was acknowledged is undone by what others do or fail to    *)
(* do: neither an override nor a review.                                   *)
(***************************************************************************)
AckedKept == AckedIsEffective /\ AckedReviewKept
=============================================================================
