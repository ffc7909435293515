SPECIFICATION FairSpec
CONSTANTS
    Clients = {c1, c2, c3}
    Channels = {k1}
    Talkers = {c1}
    MaxRelays = 1
    MaxStarts = 2
    NoChannel = NoChannel
INVARIANTS
    NoGhosts
    RosterComplete
    RelayExact
PROPERTIES
    DeparturesComplete
CHECK_DEADLOCK FALSE
