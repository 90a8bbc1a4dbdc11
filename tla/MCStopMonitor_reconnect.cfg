CONSTANTS
    CloseTime = 24
    LatestSec = 4
    Grace = 3
    MaxBlind = 3
    MaxReconnects = 2
    EmitEvery = 2
    ReconnectSec = 3
    MaxRestarts = 2
SPECIFICATION Spec
INVARIANT ReconnectFirst
