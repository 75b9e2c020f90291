SPECIFICATION Spec
CONSTANTS
    Levels = {l1}
    Feeds = {"okx", "binance"}
    Skips = {2}
    RawCap = 1
    QueueSize = 1
    MaxQuoteAge = 0
    MaxEmits = 2
    MaxTime = 1
INVARIANT ReplaysAgree
CHECK_DEADLOCK FALSE
