SPECIFICATION Spec
CONSTANTS
    Key = {k1}
    NoKey = NoKey
    Session = {}
    NoSession = NoSession
    Callback = {c1, c2}
    CallbackId = {1}
    GopMax = 1
    Ingests = {}
    Counted = {}
    MediaKinds = {}
    IngestSource <- MCSource
    IdOf <- MCCollidingIds
INVARIANTS
    EveryViewerRegistered
CHECK_DEADLOCK FALSE
