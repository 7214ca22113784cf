\* Two themes and four turns over however many games they make; one rival.
CONSTANTS
    Themes <- TwoThemes
    MaxAnger = 3
    AngerLoseAt = 2
    StartAnger = 1
    Drift = 1
    ConfirmTurns = 2
    AutoDoneTurns = 3
    History = 2
    OptionCount = 1
    Rivals = {1}
    Limit = 1
    Games = 2
    Turns = 4
SPECIFICATION FairSpec
INVARIANTS
    ThemesAreTrue
    PromptIsTrue
    EndingsAreTrue
PROPERTIES
    TurnsAreKept
CHECK_DEADLOCK FALSE
