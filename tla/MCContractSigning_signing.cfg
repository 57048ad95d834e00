CONSTANTS
    Requests = {r1, r2}
    Versions = {v1, v2}
    Terms = {t1, t2}
    Clients = {c1, c2}
    MaxLinks = 2
    MaxAborts = 1
    None = None
SPECIFICATION Spec
SYMMETRY Symmetry
CONSTRAINTS
    DiesOrOverlaps
    SameTerms
CHECK_DEADLOCK FALSE
INVARIANTS
    SignedWasPaidAndComplete
    ArchiveBearsTheSignatures
    StaleIsReported
    CopyIsMailed
PROPERTIES
    SignedStaysSigned
    SignedOnce
