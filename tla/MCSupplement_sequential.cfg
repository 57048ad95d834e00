CONSTANTS
    Requests = {r1}
    Sessions = {s1, s2}
    Prices = {40, 100, 160, 230}
    Base = 100
    MaxCounted = 300
    MaxCredited = 120
    FirstSession = FirstSession
    NoSession = NoSession
SPECIFICATION Spec
SYMMETRY Symmetry
INVARIANTS
    NothingForgotten
    LinkIsAccepted
PROPERTY
    DueIsOwed
