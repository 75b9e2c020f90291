SPECIFICATION Spec
CONSTANTS
    Venue = "binance"
    Levels = {l1}
    Skips = {1}
    SnapshotLag = 1
    TopLevels = 1
    MaxSeq = 4
    WireCap = 2
    RawCap = 1
    QueueSize = 1
    MaxBookAge = 0
    MaxTime = 0
    FaultKinds = {}
    MaxFaults = 0
INVARIANT ReadyBookLacksOnlyDepth
