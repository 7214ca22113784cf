\* One socket, two queued frames, a bucket of one token.
CONSTANTS
    SendBuffer = 2
    Burst = 1
SPECIFICATION FairSpec
INVARIANTS
    ReasonIsHeard
PROPERTIES
    AskedIsHeard
    ServeReturns
CHECK_DEADLOCK FALSE
