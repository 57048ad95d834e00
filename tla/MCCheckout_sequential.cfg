CONSTANTS
    Requests = {r1}
    Pollers = {}
    Sessions = {s1, s2, s3}
    Prices = {0, 49, 50, 80}
    HasDeposit = TRUE
    MaxHolds = 3
    MaxAborts = 0
    NoSession = NoSession
SPECIFICATION Spec
SYMMETRY Symmetry
INVARIANTS
    ClosedLinkIsPaid
    PendingMeansUnpaid
    NoOrphanHold
    BaselineIsTheSettledPayment
