\* Two requests to the other kinds of method, over connections of which one is flagged
\* temporary; fair threads, an unfair OM, and room for one session.
SPECIFICATION FairSpec
CONSTANTS
    Requests = {r1, r2}
    Connections = {c1, c2, c3}
    SessionLimit = 1
    Served = {"tranQuery", "start", "region"}
    isSessionTemp = {c3}
    NoRequest = NoRequest
    NoConnection = NoConnection
INVARIANT TemporaryIsDisconnected
PROPERTIES
    KeepsPromise
    KeepsPromiseFairly
    Replied
CHECK_DEADLOCK FALSE
