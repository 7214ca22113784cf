\* Two handlers, two places, three hours: long enough to die and be raised.
CONSTANTS
    Handlers = {a, b}
    Hours = 3
    Places = {yard, wood}
    Default = yard
    Top = 4
    HpStart = 4
    BeerStart = 2
    Empty = 1
    Full = 2
    Needs = 1
    CounterMax = 2
    Requests = 3
SYMMETRY HandlerSymmetry
SPECIFICATION PetsSpec
INVARIANTS
    ClosedForm
    StoryIsOne
