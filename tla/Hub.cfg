\* Three sockets, two of one account, of which one is refused; eviction at the first overflow.
CONSTANTS
    c1 = c1
    c2 = c2
    c3 = c3
    a1 = a1
    a2 = a2
    r1 = r1
    Conns <- MCConns
    Accounts <- MCAccounts
    Rooms <- MCRooms
    AccountID <- MCAccountID
    Room <- MCRoom
    MaxTotal = 2
    MaxPerAccount = 1
    SendBuffer = 1
    MaxOverflows = 1
    PublishBuffer = 1
    KickBuffer = 1
SPECIFICATION FairSpec
INVARIANTS
    RegistryIsSound
    NobodyIsDropped
PROPERTIES
    RegistrySpec
    KickReaches
    HandlersComeBack
