-------------------------- MODULE MCReviewWorkflow --------------------------
(* Two reviewers, two analyses of one replay that differ in the eligible   *)
(* time, and the documents earlier schemas left behind.                    *)
EXTENDS ReviewWorkflow, TLC

CONSTANTS c1, c2

A1 == [sha |-> "sha1", category |-> "long", eligible |-> 1]
A2 == [sha |-> "sha1", category |-> "long", eligible |-> 2]
MCAnalyses == {A1, A2}

\* A sign-off of schema v3: its decision names no revision.
Decision(rev) == [sha |-> "sha1", category |-> "long", rev |-> rev]
Signed(schema, rev) ==
    [FreshDoc EXCEPT
        !.schema = schema, !.status = "reviewed", !.stored = TRUE,
        !.decisions = <<Decision(rev)>>,
        !.finals = <<[sha |-> "sha1", signed |-> NoRevision,
                      stream |-> MachineStream(A1), decision |-> Decision(rev)]>>,
        !.current = 1,
        !.rev = NoRevision]
\* A reviewed flag of schema v1 or v2: nothing was signed.
Flagged(schema) ==
    [FreshDoc EXCEPT !.schema = schema, !.status = "reviewed", !.stored = TRUE,
                     !.rev = NoRevision]

MCLegacyDocs ==
    {Signed("v3", NoRevision), Signed("v3_seen_by_v4", Marker),
     Flagged("v1"), Flagged("v2")}

Reviewers == Permutations(Caller)
=============================================================================
