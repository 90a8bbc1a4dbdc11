CONSTANTS
    N = 4
    Strike <- FourStrikes
    Quotes = {5, 120, 520, 615, 900}
    PopLimits = {500500, 501000}
    MaxLoss = 780
    Ratios = {0, 1}
    RatioDen = 10
SPECIFICATION Spec
INVARIANTS
    LongStrikeRight
    ShortStrikeRight
    WidestWhenArbitrageFree
    LimitLeavesProfit
    RatioAlmostKept
    LossAlmostCapped
