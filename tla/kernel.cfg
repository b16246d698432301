SPECIFICATION Spec
CONSTANTS
    N = 3
    T = 2
INVARIANTS
    TypeOK
    Reserve
    TerminalsInUse
    
