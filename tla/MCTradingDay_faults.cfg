CONSTANTS
    Spreads = {s1}
    NoSpread = none
    MaxOrders = 4
    MaxFaults = 3
    Faults <- AllFaults
SPECIFICATION Spec
INVARIANTS
    IInv
    StoppedMeansClosed
PROPERTIES
    LifecycleKept
    NoReentry
    CloseOnlyOpenRow
    ArmedForGood
