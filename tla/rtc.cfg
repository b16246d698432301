SPECIFICATION FairSpec
CONSTANTS
    Program = {p, q}
    NoProgram = NoProgram
    Frequency <- AllFrequencies
    MaxSeen = 1
INVARIANTS
    PortsPaired
    NoEarlyReturn
    
PROPERTIES
    SomeoneReturns
