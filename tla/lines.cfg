SPECIFICATION FairSpec
CONSTANTS
    T = 2
    B = 2
    Letter = {"x"}
    Sizes = {1, 3}
    TAB = 4
    MaxKeys = 3
    MaxSum = 3
CONSTRAINTS
    StopAtHazard
INVARIANTS
    BufferHoldsLine
PROPERTIES
    LineIsTyped
    LineDelivered
