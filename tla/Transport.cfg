SPECIFICATION FairSpec
CONSTANTS
    KeyMsgs = {press, release}
    OtherMsgs = {speak}
    Backoff <- Schedule
    MaxBuffer = 2
    MaxWire = 4
    MaxOpened = 3
CHECK_DEADLOCK FALSE
INVARIANTS TypeOK ReportedOnce KeysReachWire StopIsFinal
PROPERTIES BackoffEscalates StopReturnsEventually Redials ImplementsLink
