SPECIFICATION Spec
CONSTANTS
    User = {u1, u2}
    QueueMax = 1
    CacheMax = 2
    EncGop = 2
    MaxGen = 2
    MaxCalls = 3
    MaxSockets = 3
    RtpClock = 32
    Word = 8
    MaxComposition = 4
    MinInterval = 1
    MaxInterval = 1
    DefaultInterval = 1
    SdpIntervals = {2, 5}
    AudioGap = 3
    MaxUnits = 4
    MaxFaults = 1
    MaxPayload = 4
    NalLengths = {3, 5}
    CacheLen = 2
    MaxMessages = 3
    Stream = {c1, c2}
    Escape = 3
    Clock = 8
    Sizes = {1, 2}
    Times = {0, 2, 4}
    Lengths = {0, 2}
    MaxSent = 3
    Conn = {h1}
    MaxBody = 2
    HlsKey = {"live/a", "live/a/b"}
    HlsNames <- NestedNames
    Caller = {a, b}
    MaxStarts = 2
    RecordingKey = {k1, k2}
    Starter = {s1, s2}
    MaxRecorders = 3
    EventKey = {k1}
    Reporter = {r1, r2}
    Idle = Idle
INVARIANTS
    InUseIsShared
    FirstIsKey
    JoinEnds
    EndedIsQuiet
    DamageConfined
    OnTime
    PlayedInOrder
    FrameOnWire
    ReadsWhatIsWritten
    DoesWhatIsAsked
    NoMutualWait
    OneFfmpeg
    OneRecorder
    ReportedOnce
PROPERTIES
    WholeGop
CHECK_DEADLOCK FALSE
