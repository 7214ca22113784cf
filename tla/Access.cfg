\* One account with two sessions and two sockets, one kick queued.
CONSTANTS
    a = a
    s1 = s1
    s2 = s2
    c1 = c1
    c2 = c2
    Sockets = {c1, c2}
    Sessions = {s1, s2}
    AccountOf <- OneAccount
    KickBuffer = 1
SPECIFICATION FairSpec
INVARIANTS
    KicksAreKept
PROPERTIES
    SweepClosesOnlyLapsed
    UnauthorizedIsCut
