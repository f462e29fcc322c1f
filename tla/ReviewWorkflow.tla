--------------------------- MODULE ReviewWorkflow ---------------------------
(***************************************************************************)
(* The review of one match as its reviewers see it: corrections, phase     *)
(* operations, category decisions and the final sign-off, each checked     *)
(* against the revision the reviewer's form was rendered with              *)
(* (internal/replay/review, called by the handlers of internal/replay/api).*)
(*                                                                         *)
(* A mutation is one step here: ReviewCommit shows that document and audit *)
(* log change together.  The handlers resolve the machine's analysis from  *)
(* its files BEFORE they call the store, outside its mutex, and the        *)
(* replay runner, a process of its own, may replace the analysis at any    *)
(* time.                                                                   *)
(***************************************************************************)
EXTENDS Naturals, Sequences, SequencesExt

CONSTANTS
    Caller,         \* reviewers
    Edits,          \* the contents an edited phase stream may have
    Analyses,       \* analyses of the match: [sha, category, eligible]
    LegacyDocs,     \* documents of earlier schemas the store may start with
    MaxCommits      \* bound on committed mutations

VARIABLES
    doc,            \* corrections.json
    machine,        \* the analysis in phases.json, input.json, verification.json
    form,           \* form[c]: the revision c's page shows
    context,        \* context[c]: the analysis c's handler has read, or none
    commits,
    expired         \* history: revisions superseded by a correction or decision

workflowVars == <<doc, machine, form, context, commits, expired>>

-----------------------------------------------------------------------------
(* Documents.                                                              *)

\* Machine streams and edited ones; all that matters of a stream is what it
\* covers and whether it is the machine's.
Stream == [end : {a.eligible : a \in Analyses}, edit : Edits \cup {"machine"}]
MachineStream(a) == [end |-> a.eligible, edit |-> "machine"]
NoOverlay == [end |-> 0, edit |-> "none"]

\* A revision is a hash of the content: as good as the content itself.  A
\* migrated decision carries a marker in its place, an old one nothing.
NoRevision == [kind |-> "none"]
Marker == [kind |-> "marker"]
Usable(rev) == rev.kind = "rev"

\* revisionOfReview.  A document that was never stored hashes nil lists,
\* which a stored one never has again.
Revision_NoCorrections(d) ==    \* a slip: corrections are not hashed
    [kind |-> "rev",
     of   |-> [status |-> d.status, corrections |-> <<>>,
               phases |-> d.phases, overlay |-> d.overlay,
               decisions |-> d.decisions, finals |-> d.finals,
               current |-> d.current, stored |-> d.stored]]

Revision(d) ==
    [kind |-> "rev",
     of   |-> [status |-> d.status, corrections |-> d.corrections,
               phases |-> d.phases, overlay |-> d.overlay,
               decisions |-> d.decisions, finals |-> d.finals,
               current |-> d.current, stored |-> d.stored]]

FreshDoc ==
    LET d == [schema |-> "absent", status |-> "pending", corrections |-> <<>>,
              phases |-> <<>>, overlay |-> NoOverlay, decisions |-> <<>>,
              finals |-> <<>>, current |-> 0, stored |-> FALSE, rev |-> NoRevision]
    IN  [d EXCEPT !.rev = Revision(d)]

\* A slip: a mutation does not invalidate.
InvalidateFinal_Never(d) == d

\* invalidateFinal: whatever was signed is not what is there any more.
InvalidateFinal(d) ==
    IF d.current # 0 \/ d.status = "reviewed"
    THEN [d EXCEPT !.current = 0, !.status = "in_progress"]
    ELSE d

InProgress(d) == [d EXCEPT !.status = IF @ = "pending" THEN "in_progress" ELSE @]

\* HasUsableCategoryDecisionRevision.
HasUsableDecision(d) ==
    /\ d.decisions # <<>> /\ Usable(Last(d.decisions).rev)
    /\ d.current # 0 => /\ d.current \in DOMAIN d.finals
                        /\ Usable(d.finals[d.current].decision.rev)

\* migrateMissingDecisionRevisions.
Mark(decision) == [decision EXCEPT !.rev = IF @ = NoRevision THEN Marker ELSE @]
MarkMissing(d) ==
    [d EXCEPT !.decisions = [i \in DOMAIN d.decisions |-> Mark(d.decisions[i])],
              !.finals = [i \in DOMAIN d.finals |-> [d.finals[i] EXCEPT !.decision = Mark(@)]]]

Current == {"v3_seen_by_v4", "v4"}

\* loadUnlocked: a document of an earlier schema is migrated in memory, and
\* an approval that no usable decision backs is withdrawn.
Load(d) ==
    IF d.schema = "absent" THEN d
    ELSE LET marked == IF d.schema \in Current THEN d ELSE MarkMissing(d)
             doubtful == (d.status = "reviewed" \/ d.current # 0)
                           /\ (d.schema = "v1" \/ ~ HasUsableDecision(marked))
             checked == IF doubtful THEN InvalidateFinal(marked) ELSE marked
             r == [checked EXCEPT
                     !.status = IF @ = "reviewed" /\ checked.current = 0
                                THEN "in_progress" ELSE @,
                     !.schema = "v4", !.stored = TRUE]
         IN  IF ~ Usable(d.rev) \/ d.schema \notin Current \/ doubtful
             THEN [r EXCEPT !.rev = Revision(r)]
             ELSE r

NextFinal_Late(d) == Len(d.finals) + 2    \* a slip: numbered after the append

\* Final snapshots are numbered from 1.
NextFinal(d) == Len(d.finals) + 1

EffectiveStream(d, a) == IF d.overlay # NoOverlay THEN d.overlay ELSE MachineStream(a)

-----------------------------------------------------------------------------
(* Documents of earlier schemas: no revision was kept with a decision, so  *)
(* none is usable, whatever was signed.  A correction of a phase, which    *)
(* migrateV1 would replay, is not among them.                              *)
LegacyDecision == [sha : STRING, category : STRING, rev : {NoRevision, Marker}]
LegacyFinal == [sha : STRING, signed : {NoRevision}, stream : Stream, decision : LegacyDecision]
LegacyDoc ==
    [schema : {"v1", "v2", "v3", "v3_seen_by_v4"},
     status : {"pending", "in_progress", "reviewed"},
     corrections : Seq(Caller), phases : Seq([by : Caller, after : Stream]),
     overlay : Stream \cup {NoOverlay},
     decisions : Seq(LegacyDecision), finals : Seq(LegacyFinal),
     current : Nat, stored : {TRUE}, rev : {NoRevision}]

ASSUME WorkflowAssumption ==
    /\ MaxCommits \in Nat
    /\ LegacyDocs \subseteq LegacyDoc
    /\ \A d \in LegacyDocs : d.current \in 0..Len(d.finals)

NoAnalysis == [sha |-> "none", category |-> "none", eligible |-> 0]

WorkflowInit ==
    /\ doc \in {FreshDoc} \cup LegacyDocs
    /\ machine \in Analyses
    /\ form = [c \in Caller |-> NoRevision]
    /\ context = [c \in Caller |-> NoAnalysis]
    /\ commits = 0
    /\ expired = {}

\* The reviewer's page shows the current document.
Render(c) ==
    /\ form' = [form EXCEPT ![c] = Load(doc).rev]
    /\ UNCHANGED <<doc, machine, context, commits, expired>>

\* The handler resolves the machine's side of the mutation.
ReadContext(c) ==
    /\ context' = [context EXCEPT ![c] = machine]
    /\ UNCHANGED <<doc, machine, form, commits, expired>>

\* The runner analyses the match again, under another algorithm version.
Reanalyse(a) ==
    /\ a # machine
    /\ machine' = a
    /\ UNCHANGED <<doc, form, context, commits, expired>>

\* The end of every mutation: the document r is committed with its revision.
Commit(r) ==
    /\ commits < MaxCommits
    /\ commits' = commits + 1
    /\ doc' = [r EXCEPT !.rev = Revision(r), !.schema = "v4"]
    /\ UNCHANGED <<machine, form, context>>

Expire == expired' = expired \cup {Load(doc).rev}

\* AddAuthoritative: an event or role correction, whatever the form shows.
AddAuthoritative(c) ==
    LET r == Load(doc) IN
    /\ Commit(InProgress(InvalidateFinal([r EXCEPT !.corrections = Append(@, c)])))
    /\ Expire

\* ApplyPhaseOp: an operation that ends in a stream covering the match.
ApplyPhaseOp(c, after) ==
    LET r == Load(doc) IN
    /\ form[c] = r.rev
    /\ context[c] # NoAnalysis
    /\ after.end = context[c].eligible
    /\ Commit(InProgress(InvalidateFinal(
          [r EXCEPT !.phases = Append(@, [by |-> c, after |-> after]), !.overlay = after])))
    /\ Expire

\* SetEffectivePhases: no revision asked for, nothing validated.
SetEffectivePhases(stream) ==
    /\ Commit(InvalidateFinal([Load(doc) EXCEPT !.overlay = stream]))
    /\ UNCHANGED expired

SetReviewStatus(c, status) ==
    LET r == Load(doc) IN
    /\ form[c] = r.rev
    /\ status = "reviewed" => /\ r.current \in DOMAIN r.finals
                              /\ HasUsableDecision(r)
    /\ Commit([r EXCEPT !.status = status,
                        !.current = IF status = "reviewed" THEN @ ELSE 0])
    /\ UNCHANGED expired

DecideCategory(c) ==
    LET r == Load(doc) IN
    /\ form[c] = r.rev
    /\ context[c] # NoAnalysis
    /\ Commit(InProgress(InvalidateFinal(
          [r EXCEPT !.decisions = Append(@, [sha |-> context[c].sha,
                                             category |-> context[c].category,
                                             rev |-> r.rev])])))
    /\ Expire

FinalizeReview(c) ==
    LET r == Load(doc)
        ctx == context[c]
        stream == EffectiveStream(r, ctx)
    IN
    /\ form[c] = r.rev
    /\ ctx # NoAnalysis
    /\ r.decisions # <<>>
    /\ stream.end = ctx.eligible
    /\ Usable(Last(r.decisions).rev)
    /\ Last(r.decisions).sha = ctx.sha
    /\ Last(r.decisions).category = ctx.category
    /\ Commit([r EXCEPT
                 !.finals = Append(@, [sha |-> ctx.sha, signed |-> r.rev,
                                       stream |-> stream,
                                       decision |-> Last(r.decisions)]),
                 !.current = NextFinal(r),
                 !.status = "reviewed"])
    /\ Expire

\* MigrateV1 stores the document in the current schema, without an audit entry.
MigrateV1 ==
    /\ doc' = [Load(doc) EXCEPT !.schema = "v4"]
    /\ UNCHANGED <<machine, form, context, commits, expired>>

WorkflowNext ==
    \/ \E c \in Caller :
        \/ Render(c) \/ ReadContext(c)
        \/ AddAuthoritative(c) \/ DecideCategory(c) \/ FinalizeReview(c)
        \/ \E after \in Stream : ApplyPhaseOp(c, after)
        \/ \E s \in {"pending", "in_progress", "reviewed"} : SetReviewStatus(c, s)
    \/ \E s \in Stream : SetEffectivePhases(s)
    \/ \E a \in Analyses : Reanalyse(a)
    \/ MigrateV1

WorkflowSpec == WorkflowInit /\ [][WorkflowNext]_workflowVars

-----------------------------------------------------------------------------
WorkflowTypeOK ==
    /\ doc.schema \in {"absent", "v1", "v2", "v3"} \cup Current
    /\ doc.status \in {"pending", "in_progress", "reviewed"}
    /\ doc.overlay \in Stream \cup {NoOverlay}
    /\ doc.current \in 0..Len(doc.finals)
    /\ doc.rev.kind \in {"none", "marker", "rev"}
    /\ machine \in Analyses
    /\ \A c \in Caller : context[c] \in Analyses \cup {NoAnalysis}
    /\ commits \in 0..MaxCommits

(***************************************************************************)
(* A review that counts as reviewed is exactly the one that was signed:    *)
(* since the signature no correction, phase operation, overlay or decision *)
(* entered the document, and the decision that was signed is the last one  *)
(* and rests on a revision, never on a migration marker.                   *)
(***************************************************************************)
SignedIsCurrent ==
    LET d == Load(doc) IN
    d.status = "reviewed" =>
        /\ d.current \in DOMAIN d.finals
        /\ LET final == d.finals[d.current]
               signed == final.signed.of
           IN  /\ final.signed.kind = "rev"
               /\ signed.corrections = d.corrections
               /\ signed.phases = d.phases
               /\ signed.overlay = d.overlay
               /\ signed.decisions = d.decisions
               /\ final.decision = Last(d.decisions)
               /\ Usable(final.decision.rev)
               /\ d.overlay # NoOverlay => final.stream = d.overlay

(***************************************************************************)
(* A form rendered before a correction, phase operation, decision or       *)
(* sign-off is stale for good: no later sequence of operations brings its  *)
(* revision back.                                                          *)
(***************************************************************************)
ExpiredStaysStale == Load(doc).rev \notin expired
=============================================================================
