\* One or two desks, two people, three inputs.
CONSTANTS
    OfficeW = 120
    OfficeH = 140
    PlayerRadius = 7
    BossRadius = 8
    NavCell = 10
    MinGap = 30
    SpotClear = 10
    PlaceStep = 15
    Sides <- OneDesk
    Wishes = 2
    MinSolids = 2
    FixedPoints <- Catalogue
    Desks = 2
    Staff = {1, 2}
    PlayerSpawn <- AtPlayerSpawn
    BossSpawn <- AtBossSpawn
    ChaserSpawn <- AtChaserSpawn
    SpawnPoints <- Spawns
    SpawnTries = 1
    SpawnFromBoss = 90
    SpawnFromEachOther = 30
    WalkStep = 13
    SlowStep = 10
    BossStep = 15
    DrunkStep = 7
    CatchReach = 24
    ChaserReach = 19
    PropReach = 25
    CatchRewindMax = 8
    RenderDelay = 4
    Lags = {3}
    BottleSpots <- Bottles
    HookahSpots <- Hookahs
    BottleReturn = 2
    HookahReturn = 3
    DrunkFor = 2
    CloudFor = 2
    SlowFor = 2
    RedirectFor = 3
    RedirectCooldown = 4
    RouterFor = 2
    RouterCooldown = 4
    AbandonGrace = 2
    Inputs = 3
    InputEvery = 2
SPECIFICATION OfficeFairSpec
INVARIANTS
    StepIsSound
PROPERTIES
    NobodyIsCheated
    StandingIsReached
CHECK_DEADLOCK FALSE
