CONSTANTS
    Tickers = {1, 2, 3}
    HoldTopN = 2
    PriceTables <- TwoTables
    Capital = 17
    Slippage = 1
    MaxRebalances = 2
    MaxCrashes = 1
    MaxClock = 1
    Spacing = 500
    Below = 5
    Above = 6
    GapWidth = 400
    CondorGap = 500
    MaxLoss = 700
    MaxLossPerSide = 450
    MinHalf = 5
    AtmPct = 5
    FarPct = 30
    FarDistance = 20000
    WingMille = 5
    MonthOf <- MCMonthOf
    Markets <- MCMarkets
    MonthlyCap = 300
    DayKinds <- MCDayKinds
    EdgeMonth <- MCEdgeMonth
    Specs <- MCSpecs
    VixThreshold = 20
    Thresholds <- MCThresholds
    CapThreshold <- MCCapThreshold
    ClosePaths <- MCClosePaths
    Months = 6
    Column <- MCColumn
    Benchmark = 1
    Lookback = 2
    Skip = 1
    TopN = 2
    CarryMonth <- MCCarryMonth
    CarryMoves <- MCCarryMoves
    MonthlyMaxLoss = 4
    Rows = 11
    DailySteps <- MCDailySteps
    MonthlySteps <- MCMonthlySteps
    Benchmarks <- MCBenchmarks
    MaxStreak = 2
SPECIFICATION Spec
INVARIANTS
    PilotTypeOK
    CashCoversBuys
    BooksExplained
    FillsKept
    LossBounded
    MonthCapKept
    VerdictsAgree
    NoLookAhead
    OverlayRight
    PicksAgree
    CarryAccounted
    PromotionRight
CHECK_DEADLOCK FALSE
