SPECIFICATION ConsoleSpec
CONSTANTS
    T = 2
    B = 2
    Letter = {"x"}
    Sizes = {1, 3}
    MaxKeys = 3
    MaxSum = 4
    NUM_ROWS = 2
    NUM_COLS = 2
    TAB = 2
CONSTRAINTS
    StopAtHazard
VIEW
    WithoutStalePage
INVARIANTS
    LineShown
    PromptKept
