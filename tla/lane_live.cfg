SPECIFICATION FairSpec
CONSTANTS
    Venue = "bybit"
    Levels = {l1}
    Skips = {1, 2}
    SnapshotLag = 0
    TopLevels = 1
    MaxSeq = 3
    WireCap = 2
    RawCap = 9
    QueueSize = 1
    MaxBookAge = 0
    MaxTime = 2
    FaultKinds = {"disconnect", "redeliver", "other_lane"}
    MaxFaults = 1
INVARIANTS QuietReadyBookIsCurrent InvalidBookIsRepairable
PROPERTIES  StaleLiftedOnlyByEvent AgedBookIsMarked
