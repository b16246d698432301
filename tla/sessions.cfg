SPECIFICATION Spec
CONSTANTS
    N = 4
    T = 2
CONSTRAINTS
    StopAtHazard
    OneBusy
INVARIANTS
    
    TableExact
PROPERTIES
    HaltReturnsToCaller
    ImplementsSessions
