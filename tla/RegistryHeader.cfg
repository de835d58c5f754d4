SPECIFICATION Spec
CONSTANTS
    Key = {k1}
    NoKey = NoKey
    Session = {}
    NoSession = NoSession
    Callback = {c1}
    CallbackId = {c1}
    GopMax = 2
    Ingests = {"srt"}
    Counted = {}
    MediaKinds = {"header", "key", "delta"}
    IngestSource <- MCSource
    IdOf <- MCDistinctIds
INVARIANTS
    HeaderKept
CHECK_DEADLOCK FALSE
