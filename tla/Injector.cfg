SPECIFICATION Spec
CONSTANTS
    Keys = {shift, fn, a}
    Sticky = {shift, fn}
    Named = {shift, fn, a}
    Coded = {shift, a}
    Installed = {"xdotool", "ydotool"}
    NoKey = NoKey
    NoBackend = NoBackend
    MaxQueue = 2
INVARIANTS TypeOK NothingStuck GivesUpInTime
