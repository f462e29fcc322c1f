SPECIFICATION FairSpec
CONSTANTS
    m1 = m1
    m2 = m2
    r1 = r1
    r2 = r2
    r3 = r3
    Match = {m1, m2}
    Request = {r1, r2, r3}
    MatchOf <- MCMatchOf
    NoTx = NoTx
    Boot = Boot
    UnlinkSyncMayFail = FALSE
    CrashKinds = {"kill"}
    MaxFaults = 3
    MaxCrashes = 2
INVARIANTS TypeOK SplitNeverServed
PROPERTIES LedgerSpec CallsEnd
CHECK_DEADLOCK FALSE
