SPECIFICATION Spec
CONSTANTS
    Key = {k1}
    NoKey = NoKey
    Session = {s1, s2}
    NoSession = NoSession
    Callback = {}
    CallbackId = {}
    GopMax = 1
    MediaKinds = {"data"}
    Publishers = {s1, s2}
    Players = {s2}
    Operators = {}
    BadChunkSize = FALSE
PROPERTIES
    ImplementsClients
CHECK_DEADLOCK FALSE
