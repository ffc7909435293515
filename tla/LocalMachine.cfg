SPECIFICATION FairSpec
CONSTANTS
    Keys = {a}
    Setups <- MCSetups
    MaxFaults = 0
PROPERTIES
    DisconnectCompletes
CHECK_DEADLOCK FALSE
