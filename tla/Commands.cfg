SPECIFICATION Spec
CONSTANTS
    Methods <- AllMethods
    MaxGiven <- GivenAtOnce
    Lists <- SomeLists
    Routes <- SomeRoutes
INVARIANTS
    TypeOK
    ParametersAreSaid
    WordsAreSeparated
    EssentialCommandIsExtracted
    BadValuesAreRefused
CHECK_DEADLOCK FALSE
