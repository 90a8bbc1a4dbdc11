CONSTANTS
    Horizon = 5
    TradingDays <- Trading
    HalfDays <- Half
    MonthOf <- TwoMonths
    Pnls <- WinOrLose
    MonthlyStop = TRUE
    SkipHalfDays = TRUE
    MaxConsecutive = 2
    MaxFaults = 2
SPECIFICATION FairSpec
INVARIANTS
    StaleRowsReported
    BreakerRight
PROPERTIES
    GateKept
    NoSessionForfeited
    OwnDateOnly
    ShutdownEnds
