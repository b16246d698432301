SPECIFICATION Spec
CONSTANTS
    N = 4
    T = 2
    FD = 4
    File = {f}
    Length = 2
    Request = {1, 2}
CONSTRAINTS
    StopAtHazard
INVARIANTS
    
    ReadsSequential
PROPERTIES
    Isolation
