SPECIFICATION AnalysisSpec
CONSTANTS
    Settings <- B3Settings
    Rules <- B3Rules
    Mature = FALSE
    Bars <- ChartBars
    Warmups <- ChartWarmups
    Contexts <- ChartContexts
    MaxBars = 5
    Rows <- TradeRows
    Envs <- Surroundings
    Feeds <- FeedRows
INVARIANTS SignalsFollowBars ReadyTradeIsConfirmed SurfacesAgree ReadyIsSound FallbackNeverTrades
CHECK_DEADLOCK FALSE
