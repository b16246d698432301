SPECIFICATION CommandSpec
CONSTANTS
    FILENAME_LEN = 2
    Letter = {x, y}
    MaxEntries = 2
    T = 2
    MAX_CMD_LENGTH = 2
    MAX_LINE = 3
SYMMETRY
    Letters
CONSTRAINTS
    StopAtHazard
INVARIANTS
    ListedOpens
    FoundByName
    ProgramAsTyped
    GivenOwnArgument
