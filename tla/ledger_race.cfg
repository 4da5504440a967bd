SPECIFICATION Spec
CONSTANTS
    infy = infy
    tcs = tcs
    Symbols = {infy, tcs}
    Sessions = {s1, s2}
    Quotes <- TwoQuotes
    Lots = {2}
    Products = {"CNC"}
    Kinds = {"order"}
    DefaultCapital <- Capital
    Amounts <- Deposits
    ExposurePercent = 95
    MaxRequests = 2
    MaxResting = 0
CHECK_DEADLOCK FALSE
PROPERTIES
    BuyIsPaidFor
