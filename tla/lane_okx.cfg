SPECIFICATION HistorySpec
CONSTANTS
    Venue = "okx"
    Levels = {l1}
    Skips = {1, 2}
    SnapshotLag = 0
    TopLevels = 1
    MaxSeq = 4
    WireCap = 3
    RawCap = 1
    QueueSize = 1
    MaxBookAge = 0
    MaxTime = 0
    FaultKinds = {"disconnect", "malformed", "redeliver", "other_lane"}
    MaxFaults = 1
INVARIANTS TypeOK ChainInv ReadyBookIsVenueImage FreshAfterGap
PROPERTY ImplementsContract
