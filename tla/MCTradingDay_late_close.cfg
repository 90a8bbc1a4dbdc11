CONSTANTS
    Spreads = {s1}
    NoSpread = none
    MaxOrders = 3
    MaxFaults = 0
    Faults = {}
SPECIFICATION Spec
INVARIANT SettledMeansHeld
