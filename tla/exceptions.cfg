SPECIFICATION ExceptionSpec
CONSTANTS
    N = 3
    T = 2
CONSTRAINTS
    StopAtHazard
    NoReader
INVARIANTS
    FlagInUse
PROPERTIES
    StatusRight
