SPECIFICATION Spec
CONSTANTS
    infy = infy
    tcs = tcs
    Symbols = {infy}
    Sessions = {s1}
    Quotes <- TwoQuotes
    Lots = {1, 2}
    Products = {"CNC"}
    Kinds = {"order", "fill", "closeall", "summary", "addcapital", "setcapital", "resetcapital", "resetaccount"}
    DefaultCapital <- Capital
    Amounts <- Deposits
    ExposurePercent = 95
    MaxRequests = 5
    MaxResting = 1
CHECK_DEADLOCK FALSE
INVARIANTS
    TypeOK
    NeverShort
PROPERTIES
    CloseAllFlattens
