SPECIFICATION FairSpec
CONSTANTS
    Kind = {"offer", "whep", "whip"}
    Transcoded = {"whep"}
    MaxOpens = 1
INVARIANTS
    CallbackOwned
    ClosedIsQuiet
PROPERTIES
    LostIsReclaimed
CHECK_DEADLOCK FALSE
