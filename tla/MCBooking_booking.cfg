SPECIFICATION BookingSpec
CONSTANTS
    r1 = r1
    b1 = b1
    b2 = b2
    x1 = x1
    Requests = {r1}
    Reservations = {b1, b2}
    Rentals = {x1}
    Days = {0, 1}
    LastDay = 1
    Stock = 1
    MaxAborts = 1
SYMMETRY Symmetry
CONSTRAINT StockOrCoupon
INVARIANT BookingTypeOK
 
INVARIANT JournalOnce
INVARIANT AlignedAlone
