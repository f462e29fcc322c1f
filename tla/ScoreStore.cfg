SPECIFICATION Spec
CONSTANTS
    MatchCount = 2
    Call = {1, 2}
    Target <- Targets
    MaxTogether = 2
    MaxScores = 1
    MaxOutside = 1
    MaxFailures = 2
    MaxEvents = 2
INVARIANTS
    TypeOK
    AckedKept
    ScoresAgree
PROPERTIES
    RefusedLeavesNothing
CHECK_DEADLOCK FALSE
