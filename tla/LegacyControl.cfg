SPECIFICATION FairSpec
CONSTANTS
    a = a
    t = t
    Keys <- MCKeys
    Mapped <- MCMapped
    ToggleKeys <- MCShortcutKeys
    CloseKeys <- MCShortcutKeys
    OtherKeys <- MCShortcutKeys
    MaxWire = 1
    Setups <- MCSetups
    MaxFaults = 2
INVARIANTS
    DownIsAccounted
    NothingHeldUnlinked
PROPERTIES
    RefusalIsFinal
    KeysComeUp
