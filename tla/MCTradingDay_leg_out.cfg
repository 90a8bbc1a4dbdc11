CONSTANTS
    Spreads = {s1}
    NoSpread = none
    MaxOrders = 4
    MaxFaults = 2
    Faults = {"leg", "crash"}
SPECIFICATION Spec
INVARIANT NoEntryAfterLegOut
