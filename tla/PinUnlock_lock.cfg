SPECIFICATION PinSpec
CONSTANTS
    Devices = {d1}
    NServers = 3
    Threshold = 2
    WrongPinLimit = 2
    Wrong24WordLimit = 1
    Wrong12WordLimit = 1
PROPERTIES
    WrongPinsLock
