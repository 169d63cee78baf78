SPECIFICATION Spec
CONSTANTS
    Methods <- OnlyStopRegion
    MaxGiven <- GivenAtOnce
    Lists <- TwoValueLists
    Routes <- NoRoutes
INVARIANT StopsNamedRegions
CHECK_DEADLOCK FALSE
