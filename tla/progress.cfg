SPECIFICATION FairSpec
CONSTANTS
    N = 3
    T = 2
CONSTRAINTS
    StopAtHazard
PROPERTIES
    RoundRobin
    HaltCompletes
