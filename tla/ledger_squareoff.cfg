SPECIFICATION Spec
CONSTANTS
    infy = infy
    tcs = tcs
    Symbols = {infy}
    Sessions = {s1}
    Quotes <- TwoQuotes
    Lots = {1}
    Products = {"MIS"}
    Kinds = {"order", "closeall"}
    DefaultCapital <- Capital
    Amounts <- Deposits
    ExposurePercent = 95
    MaxRequests = 2
    MaxResting = 0
CHECK_DEADLOCK FALSE
PROPERTIES
    CloseAllFlattens
