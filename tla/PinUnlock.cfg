SPECIFICATION PinFairSpec
CONSTANTS
    Devices = {d1, d2}
    NServers = 3
    Threshold = 2
    WrongPinLimit = 2
    Wrong24WordLimit = 1
    Wrong12WordLimit = 1
INVARIANTS
    VerdictIsTrue
    GuessesBounded
PROPERTIES
    PinNeverUnescalates
    UnlockReturns
