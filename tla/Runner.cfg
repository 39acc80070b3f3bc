CONSTANTS
    Deadline = 2
    MaxI64 = 3
    Goal = {"g"}
    ClockValue = {0, 2, 3}
    MaxServed = 6
SPECIFICATION FairSpec
INVARIANTS
    StreamsDecode
    SelfReplay
    EvidenceBelongs
    VerdictMatchesBuild
    EarlyVerdictIsFinal
    HealthyAdapterAccepted
PROPERTY
    Settles
CHECK_DEADLOCK FALSE
