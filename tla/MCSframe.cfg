SPECIFICATION Spec
CONSTANTS
    alice = alice
    bob = bob
    Members <- MCMembers
    Senders <- MCSenders
    CacheSize = 2
    Width = 2
    EpochMod = 3
    Jumps <- ByOne
    MaxEpoch = 4
    MaxCounter = 3
    MaxSent = 3
    MaxGarbled = 1
    NoKey = NoKey
INVARIANTS
    NoReplay
    EpochsAgree
    KeysDieWithEpoch
    FreshFramesOpen
CHECK_DEADLOCK FALSE
