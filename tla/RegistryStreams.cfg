SPECIFICATION FairSpec
CONSTANTS
    Key = {k1}
    NoKey = NoKey
    Session = {s1}
    NoSession = NoSession
    Callback = {c1}
    CallbackId = {c1}
    GopMax = 2
    Ingests = {"srt", "whip"}
    Counted = {c1}
    MediaKinds = {"header", "key"}
    IngestSource <- MCSource
    IdOf <- MCDistinctIds
INVARIANTS
    AttachedStaysRegistered
    GopStartsAtKeyframe
PROPERTIES
    UnusedIsReclaimed
CHECK_DEADLOCK FALSE
