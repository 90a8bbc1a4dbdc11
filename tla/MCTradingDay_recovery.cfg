CONSTANTS
    Spreads = {s1, s2}
    NoSpread = none
    MaxOrders = 4
    MaxFaults = 3
    Faults <- RecoverableFaults
SPECIFICATION FairSpec
INVARIANTS
    AtMostOneFilledEntry
    OneWorkingCombo
    PositionHasRow
    NoUnattendedEntry
PROPERTIES
    DayEnds
