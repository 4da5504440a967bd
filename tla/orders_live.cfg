\* No restart, no error: every committed fill is booked and announced, and what
\* happens to one order does not disturb the other.
SPECIFICATION FairSpec
CONSTANTS
    a = a
    b = b
    Orders = {a, b}
    Book <- MixedBook
    Quotes = {1, 3}
    MaxCrashes = 0
    MaxFailures = 0
CHECK_DEADLOCK FALSE
INVARIANTS
    AcceptedBeforeOutcome
PROPERTIES
    FillReachesClient
    NoMarketableOrderRests
    ImplementsFairSettlement
