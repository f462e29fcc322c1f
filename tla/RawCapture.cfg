SPECIFICATION FairSpec
CONSTANTS
    g1 = g1
    g2 = g2
    bad = bad
    Request = {g1, g2, bad}
    Invalid = {bad}
    Nobody = Nobody
    MaxFaults = 1
    MaxRuns = 2
INVARIANTS TypeOK EvidenceTruthful ProjectedOnceInOrder DrainedBeforeClose
PROPERTIES StopsWhenAsked
CHECK_DEADLOCK FALSE
