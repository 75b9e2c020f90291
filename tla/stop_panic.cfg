SPECIFICATION Spec
CONSTANTS
    a1 = a1
    a2 = a2
    Adapters = {a1, a2}
    Seed <- MCSeed
    MaxEvents = 0
    RawCap = 1
    QueueSize = 1
    FaultKinds = {}
    MaxFaults = 0
    MaxFrames = 2
    MaxTrades = 1
    MaxRuns = 1
INVARIANT StopPersists
CHECK_DEADLOCK FALSE
