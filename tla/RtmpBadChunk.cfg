SPECIFICATION FairSpec
CONSTANTS
    Key = {k1}
    NoKey = NoKey
    Session = {s1}
    NoSession = NoSession
    Callback = {}
    CallbackId = {}
    GopMax = 1
    MediaKinds = {}
    Publishers = {s1}
    Players = {}
    Operators = {}
    BadChunkSize = TRUE
PROPERTIES
    SlotReleased
CHECK_DEADLOCK FALSE
