CONSTANTS
    x1 = x1
    x2 = x2
    x3 = x3
    x4 = x4
    Reservations = {x1, x2, x3, x4}
    Requests = {r1}
    Price <- FourPrices
    Granted <- TwoCredits
    MaxCredits = 5
    MaxSessions = 3
    NoReservation = NoReservation
SPECIFICATION Spec
INVARIANTS
    LedgerBalanced
    OldestFirst
    PaidInFull
PROPERTIES
    IssuedCreditIsBacked
