\* Three requests; IMS Connect takes two sessions at a time.
SPECIFICATION Spec
CONSTANTS
    Requests = {r1, r2, r3}
    Connections = {c1, c2, c3}
    SessionLimit = 2
    Served = {"type2", "region"}
    isSessionTemp = {}
    NoRequest = NoRequest
    NoConnection = NoConnection
SYMMETRY Symmetry
INVARIANTS
    TypeOK
    OwnAnswer
    AtMostOnce
    InUseWhileAwaiting
    FreeWhenReplied
    SuccessOverSoundConnection
PROPERTIES
    NoCommandAfterError
CHECK_DEADLOCK FALSE
