\* A line of three points, a queue of one, a database that may refuse.
CONSTANTS
    Far = 2
    TiredFrom = 1
    SavesBuffer = 1
    Grace = 1
    Failing = TRUE
SPECIFICATION FairSpec
INVARIANTS
    DeparturesAreSound
PROPERTIES
    PlacesAreKept
    AwayIsSettled
