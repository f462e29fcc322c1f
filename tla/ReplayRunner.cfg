SPECIFICATION FairSpec
CONSTANTS
    None = None
    good = good
    uncalibrated = uncalibrated
    full = full
    partial = partial
    old = old
    new = new
    Demo = {good, uncalibrated}
    Registry = {full, partial}
    Closure = {old, new}
    Config <- Settings
    GateOf <- AllGates
    Complete <- Full
    MaxRuns = 2
    MaxEvents = 2
INVARIANTS
    TypeOK
    CompletePublished
PROPERTIES
    VerifiedIsEarned
    RunEnds
CHECK_DEADLOCK FALSE
