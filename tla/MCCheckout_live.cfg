CONSTANTS
    Requests = {r1, p1}
    Pollers = {p1}
    Sessions = {s1}
    Prices = {50, 80}
    HasDeposit = TRUE
    MaxHolds = 1
    MaxAborts = 2
    NoSession = NoSession
SPECIFICATION FairSpec
PROPERTIES
    CaptureIsEarned
    KeepsLedger
    PaidIsCaptured
