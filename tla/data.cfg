SPECIFICATION Spec
CONSTANTS
    BLOCK_SIZE = 2
    Blocks = 3
    data_count = 2
    Lengths <- AllLengths
    Request = {0, 1, 3, 5}
INVARIANTS
    GivesFile
    FailsOnBad
PROPERTIES
    GivesAll
