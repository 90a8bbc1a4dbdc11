CONSTANTS
    CloseTime = 24
    LatestSec = 4
    Grace = 3
    MaxBlind = 10
    MaxReconnects = 2
    EmitEvery = 2
    ReconnectSec = 3
    MaxRestarts = 2
SPECIFICATION FairSpec
INVARIANTS
    BlindnessBounded
    FlattenOnlyWhenBlind
    FiredOnlyAfterBreakeven
    ArmedSurvives
PROPERTIES
    MonitorReturns
