SPECIFICATION Spec
CONSTANTS
    Scale = 1
    TradeQty = 2
    TakerBps <- MCTakerBps
    SlippageBps = 0
    MinProfit = 0
    MinEdgeBps = 3
    MaxTradeNotional = 60
    MaxVenueExposure = 30
    MaxSymbolExposure = 0
    MaxTotalExposure = 60
    MinExpectedEdge = 0
    DailyLossLimit = 30
    MaxOutstanding = 2
    MaxConsecutiveFails = 2
    VenueOrder <- MCVenueOrder
    Views <- MCViews
    InitialQuote <- MCQuote
    InitialBase <- MCBase
    Policy = "parallel"
    MaxScans = 1
INVARIANT FilledTradeSettles
