\* One account: two predictors of two commands each, two sockets, two buildings.
CONSTANTS
    MaxPending = 1
    MaxFrame = 2
    Redundant = 1
    TickLen = 1
    MaxStep = 3
    BudgetCap = 4
    Dts = {5}
    MaxSeq = 2
    MaxPredictors = 2
    MaxConns = 2
    MaxUp = 2
    MaxDown = 1
    MaxWorlds = 2
SPECIFICATION FairSpec
INVARIANTS
    IntakeIsSound
    NumbersAreSound
PROPERTIES
    IntakeSpec
    KeptUntilStepped
    HeadIsStepped
CHECK_DEADLOCK FALSE
