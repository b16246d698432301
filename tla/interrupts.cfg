SPECIFICATION FairSpec
CONSTANTS
    LetterKey = {"l"}
    OtherKey = {"1"}
    MaxHeld = 2
    MaxCodes = 2
CONSTRAINTS
    StopAtHazard
INVARIANTS
    NoneInService
    LinesReady
    ModifiersFollow
PROPERTIES
    KeyAsMeant
    KeysTaken
    ClockGoesOn
