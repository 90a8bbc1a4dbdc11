CONSTANTS
    Spreads = {s1}
    NoSpread = none
    MaxOrders = 3
    MaxFaults = 1
    Faults = {"late_fill"}
SPECIFICATION Spec
INVARIANT AtMostOneFilledEntry
