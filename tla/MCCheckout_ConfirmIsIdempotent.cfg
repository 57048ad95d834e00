CONSTANTS
    Requests = {r1}
    Pollers = {}
    Sessions = {s1}
    Prices = {50, 80}
    HasDeposit = FALSE
    MaxHolds = 0
    MaxAborts = 0
    NoSession = NoSession
SPECIFICATION FairSpec
PROPERTY
    ConfirmIsIdempotent
