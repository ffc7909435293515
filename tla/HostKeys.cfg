SPECIFICATION FairSpec
CONSTANTS
    NoTransport = NoTransport
    Keys = {ins, ctrl, c}
    Sticky = {ins, ctrl}
    OrcaMods = {ins}
    Ctrls = {ctrl}
    Shifts = {}
    Alts = {}
    OwnCtrl = {c}
    OwnCtrlShift = {}
    OwnAlt = {}
    Transports = {t1, t2}
    MaxIdle = 2
INVARIANTS HeldIsAccounted OwnCommandsNotFired DrainPending
PROPERTIES LinkLossReleases
