SPECIFICATION Spec
CONSTANTS
    infy = infy
    tcs = tcs
    Symbols = {infy}
    Sessions = {s1}
    Quotes <- TwoQuotes
    Lots = {1, 2, 3}
    Products = {"MIS", "NRML"}
    Kinds = {"order", "fill", "closeall", "summary", "addcapital", "setcapital", "resetcapital", "resetaccount"}
    DefaultCapital <- Capital
    Amounts <- Deposits
    ExposurePercent = 95
    MaxRequests = 4
    MaxResting = 1
CHECK_DEADLOCK FALSE
INVARIANTS
    RealisedMatchesTrades
    SharesAreCounted
