SPECIFICATION Spec
CONSTANTS
    MatchCount = 2
    Call = {1, 2}
    Target <- Targets
    MaxTogether = 2
    MaxScores = 0
    MaxOutside = 0
    MaxFailures = 0
    MaxEvents = 0
INVARIANTS
    AckedOverrideKept
CHECK_DEADLOCK FALSE
