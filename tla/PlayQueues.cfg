SPECIFICATION FairSpec
CONSTANTS
    Protocol = {"flv", "srt", "whep"}
    GopMax = 2
    FlvMax = 2
    SrtMax = 1
    WhepMax = 3
    MaxMessages = 4
INVARIANTS
    TypeOK
    FlvNoSkip
    KeyBeforeDelta
    LateCallerConfigured
PROPERTIES
    LetGo
CHECK_DEADLOCK FALSE
