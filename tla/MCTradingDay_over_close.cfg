CONSTANTS
    Spreads = {s1}
    NoSpread = none
    MaxOrders = 3
    MaxFaults = 1
    Faults = {"crash"}
SPECIFICATION Spec
INVARIANT NeverOverClosed
