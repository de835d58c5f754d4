SPECIFICATION Spec
CONSTANTS
    Key = {k1, k2}
    NoKey = NoKey
    Session = {s1, s2}
    NoSession = NoSession
    Callback = {c1}
    CallbackId = {c1}
    GopMax = 1
    Ingests = {}
    Counted = {}
    MediaKinds = {"data"}
    IngestSource <- MCSource
    IdOf <- MCDistinctIds
SYMMETRY MCSymmetry
INVARIANTS
    TypeOK
    AttachedStaysRegistered
    PublisherKeepsSlot
CHECK_DEADLOCK FALSE
