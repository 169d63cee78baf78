SPECIFICATION Spec
CONSTANTS
    Methods <- OnlyCreateTran
    MaxGiven <- GivenAtOnce
    Lists <- TwoValueLists
    Routes <- NoRoutes
INVARIANT EveryParameterIsSaid
CHECK_DEADLOCK FALSE
