SPECIFICATION HostSpec
CONSTANTS
    Delivery <- MCDelivery
    MaxDeliveries = 3
    MemorySize = 12
    MaxTransfer = 11
    MaxEmittedBytes = 11
    MaxLogLines = 1
    MaxLogBytes = 0
    MaxDraws = 1
    MaxEvents = 13
    PerTick = 4
    EchoBytes = 1
    Fleets <- MCFleets
    LastIndex <- MCLastIndex
    TravelTicks <- MCTravelTicks
    Delay <- MCDelay
    Threshold <- MCThreshold
    MaxCycles = 3
    ScenarioTicks = 20
    HeartbeatPeriod = 4
    Participant = {"p", "q"}
    Gaps = {0, 2}
    MaxRecords = 5
    Status = {1, 2}
    MaxPublished = 2
    MaxEmitted = 3
INVARIANTS
    ReplayCommitsTheRun
    ArrivalOrderIrrelevant
    FourWayAgreement
    ReorderIsLifecycle
    HashOrderIsReplayOrder
    ScoreMeansAgreement
PROPERTY AdvancesWithinGrant
CHECK_DEADLOCK FALSE
