SPECIFICATION FairSpec
CONSTANTS
    a1 = a1
    a2 = a2
    Adapters = {a1, a2}
    Seed <- MCSeed
    MaxEvents = 0
    RawCap = 1
    QueueSize = 1
    FaultKinds = {"crash", "append", "save"}
    MaxFaults = 1
    MaxFrames = 2
    MaxTrades = 1
    MaxRuns = 2
INVARIANTS TypeOK SavedPortfolioIsFinal StoredFillsExplainBalances JournalTrailsByOnePerWriter WriterOrderIsKept
PROPERTY StopsAfterSignal
CHECK_DEADLOCK FALSE
