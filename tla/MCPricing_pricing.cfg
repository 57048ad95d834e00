SPECIFICATION Spec
CONSTANTS
    m = m
    e = e
    NoValue = NoValue
    Bookings = {1, 2, 3}
    Clients <- SomeClients
    Rank <- ReverseRank
    Starts <- Slots
    Month <- Months
    Year <- Years
    From = 0
    Until = 3
    MaxFull = 1
    Off <- Tenths
    Rates <- Catalogue
    Forms <- SomeForms
    MaxChanges = 1
CHECK_DEADLOCK FALSE
INVARIANT ExtraUseIsDegraded
INVARIANT ScreensAgree
INVARIANT QuoteNearPrice
