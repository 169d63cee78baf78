\* Connections as the servlet creates them: used once, never flagged temporary.
SPECIFICATION Spec
CONSTANTS
    Requests = {r1, r2}
    Connections = {c1, c2}
    SessionLimit = 2
    Served = {"type2"}
    isSessionTemp = {}
    NoRequest = NoRequest
    NoConnection = NoConnection
SYMMETRY Symmetry
INVARIANTS
    OneTimeSessionIsDisconnected
CHECK_DEADLOCK FALSE
