SPECIFICATION Spec
CONSTANTS
    Venue = "binance"
    Levels = {l1, l2}
    Skips = {1, 2}
    SnapshotLag = 0
    TopLevels = 1
    MaxSeq = 3
    WireCap = 2
    RawCap = 1
    QueueSize = 1
    MaxBookAge = 0
    MaxTime = 0
    FaultKinds = {"disconnect", "malformed", "redeliver"}
    MaxFaults = 1
INVARIANT ReadyBookLacksOnlyDepth
PROPERTY ImplementsContract
SYMMETRY Symmetry
