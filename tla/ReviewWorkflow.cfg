SPECIFICATION WorkflowSpec
CONSTANTS
    c1 = c1
    c2 = c2
    Caller = {c1, c2}
    Edits = {"edit"}
    Analyses <- MCAnalyses
    LegacyDocs <- MCLegacyDocs
    MaxCommits = 3
SYMMETRY Reviewers
INVARIANTS WorkflowTypeOK SignedIsCurrent ExpiredStaysStale
CHECK_DEADLOCK FALSE
