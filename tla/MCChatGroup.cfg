SPECIFICATION Spec
CONSTANTS
    Devices = {a, b}
    MaxSends = 3
    MaxRedeliveries = 1
    MaxLosses = 1
SYMMETRY Symmetry
INVARIANTS
    TypeOK
    ShownOnce
    SerialChatInSync
    EpochPerText
CHECK_DEADLOCK FALSE
