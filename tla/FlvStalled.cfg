SPECIFICATION FairSpec
CONSTANTS
    Protocol = {"flv"}
    GopMax = 2
    FlvMax = 2
    SrtMax = 1
    WhepMax = 3
    MaxMessages = 4
PROPERTIES
    SlowIsDisconnected
CHECK_DEADLOCK FALSE
