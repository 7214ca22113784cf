\* The owner at work, a newcomer who may be forgotten and come back, two admin requests.
CONSTANTS
    root = root
    owner = owner
    Nobody = Nobody
    NoId = NoId
    i1 = i1
    i2 = i2
    p1 = p1
    r1 = r1
    r2 = r2
    Ids = {root, i1, i2}
    People = {p1}
    Requests = {r1, r2}
SYMMETRY Symmetry
SPECIFICATION Spec
INVARIANTS
    AccountsAreSound
PROPERTIES
    LoginKeepsStanding
