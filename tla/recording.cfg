SPECIFICATION Spec
CONSTANTS
    Levels = {l1}
    Feeds = {"okx", "binance"}
    Skips = {2}
    RawCap = 1
    QueueSize = 1
    MaxQuoteAge = 0
    MaxEmits = 3
    MaxTime = 1
INVARIANTS TypeOK ReplayRetracesLive RecordedBeforeApplied ReplayIsNotBehind
CHECK_DEADLOCK FALSE
