\* Two accounts, a queue of one, two processes over one database, and three days of
\* which the second cannot be drawn.
CONSTANTS
    Accounts = {1, 2}
    Admins = {b1}
    MaxOccupants = 2
    SavesBuffer = 1
    Grace = 1
    Thin = {2}
    MaxDay = 3
    MaxShifts = 2
    MaxInstalls = 1
    MaxBoots = 2
SPECIFICATION FairSpec
INVARIANTS
    ShiftsAreSound
PROPERTIES
    FloorStandsStill
    QueuedIsWritten
    AbandonedShiftEnds
    EveryDayIsDealtWith
CHECK_DEADLOCK FALSE
