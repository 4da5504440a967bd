\* One failed booking and the committed fill is never booked.
SPECIFICATION FairSpec
CONSTANTS
    a = a
    b = b
    Orders = {a}
    Book <- StopBook
    Quotes = {0, 1, 3}
    MaxCrashes = 0
    MaxFailures = 1
CHECK_DEADLOCK FALSE
PROPERTIES
    FillReachesPortfolio
