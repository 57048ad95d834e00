SPECIFICATION Spec
CONSTANTS
    s1 = s1
    c1 = c1
    c2 = c2
    before = before
    after = after
    Screens = {s1}
    CallIds = {c1, c2}
    Slots = {before, after}
    MaxWrites = 4
SYMMETRY Symmetry
INVARIANT AtRestAgrees
PROPERTY UpToDateEditKeeps
