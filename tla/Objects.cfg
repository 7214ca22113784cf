\* Two players, two places of one hiding place each, a crate of two, a deposit each.
CONSTANTS
    Players = {p, q}
    Locations = {yard, wood}
    Spots = {bush}
    Stock = 2
    MaxLitter = 1
    PerLocation = 2
SPECIFICATION FairObjects
INVARIANTS
    WorldIsStocked
    CacheIsTrue
PROPERTIES
    CacheIsPutRight
