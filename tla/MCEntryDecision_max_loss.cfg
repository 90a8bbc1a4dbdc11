CONSTANTS
    N = 4
    Strike <- FourStrikes
    Quotes = {5, 120, 900}
    PopLimits = {501000}
    MaxLoss = 780
    Ratios = {0, 1}
    RatioDen = 10
SPECIFICATION Spec
INVARIANT LossCapped
