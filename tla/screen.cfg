SPECIFICATION Spec
CONSTANTS
    TERMINAL_NUM = 2
    NUM_ROWS = 2
    NUM_COLS = 2
    TAB = 2
    Glyph = {"x"}
CONSTRAINTS
    StopAtHazard
    OneAtATime
VIEW
    WithoutStalePage
INVARIANTS
    CursorFollows
    

    
