SPECIFICATION Spec
CONSTANTS
    Slots = {1, 2}
    Conns = {1, 2}
    Peers = 2
    MaxSends = 2
    MaxFetches = 1
    MaxMessages = 0
    MaxLosses = 1
INVARIANTS
    TypeOK
    OkMeansRelayed
    HistorySound
PROPERTIES
    CallsReturn
CHECK_DEADLOCK FALSE
