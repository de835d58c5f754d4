SPECIFICATION FairSpec
CONSTANTS
    Key = {k1}
    NoKey = NoKey
    Session = {s1}
    NoSession = NoSession
    Callback = {}
    CallbackId = {}
    GopMax = 1
    MediaKinds = {"key"}
    Publishers = {s1}
    Players = {s1}
    Operators = {op}
    BadChunkSize = TRUE
PROPERTIES
    StoppedSessionEnds
CHECK_DEADLOCK FALSE
