CONSTANTS
    Requests = {r1}
    Sessions = {s1, s2}
    Prices = {49, 120}
    Percent = 50
    MaxRows = 2
    MaxForms = 2
    MaxAborts = 1
    NoSession = NoSession
SPECIFICATION Spec
SYMMETRY Symmetry
CONSTRAINT FewAtATime
CHECK_DEADLOCK FALSE
INVARIANTS
    CaptureHasReason
    PaidIsCollected
    PartsOfOneTotal
    PaidDepositCaptures
