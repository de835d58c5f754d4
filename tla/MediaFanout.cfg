SPECIFICATION FairSpec
CONSTANTS
    Feeder = {f1, f2}
    Viewer = {rtsp, whep}
    TwoStep = {rtsp}
    Detachable = {whep}
    GopMax = 2
    MaxMessages = 3
INVARIANTS
    TypeOK
    NoGap
    LiveInOrder
PROPERTIES
    ImplementsFanout
    Delivered
CHECK_DEADLOCK FALSE
