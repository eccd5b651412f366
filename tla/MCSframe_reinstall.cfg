SPECIFICATION Spec
CONSTANTS
    alice = alice
    bob = bob
    Members <- MCMembers
    Senders <- MCSenders
    CacheSize = 3
    Width = 2
    EpochMod = 4
    Jumps <- Again
    MaxEpoch = 3
    MaxCounter = 1
    MaxSent = 2
    MaxGarbled = 0
    NoKey = NoKey
INVARIANTS
    NoReplay
CHECK_DEADLOCK FALSE
