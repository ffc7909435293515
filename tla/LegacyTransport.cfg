SPECIFICATION LegacyFairSpec
CONSTANTS
    MaxConns = 2
    MaxFrames = 2
    MaxLate = 1
    MaxCloses = 1
    MaxReconnects = 1
INVARIANTS
    OneSender
    NothingLeftBehind
    WireInOrder
    CloseIsAnswered
PROPERTIES
    FirstCloseReturns
CHECK_DEADLOCK FALSE
