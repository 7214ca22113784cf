\* Two places, three accounts and a connection for each.
CONSTANTS
    a1 = a1
    a2 = a2
    a3 = a3
    c1 = c1
    c2 = c2
    c3 = c3
    NoOne = NoOne
    Conns = {c1, c2, c3}
    AccountOf <- MCAccountOf
    MaxOccupants = 2
    AbandonGrace = 1
    MaxWorlds = 2
    MaxJoins = 3
    MaxPurges = 1
SPECIFICATION Spec
SYMMETRY Symmetry
INVARIANTS
    RosterIsSound
PROPERTIES
    ConnectedStay
