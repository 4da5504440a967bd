\* One order that grows too old.
SPECIFICATION FairSpec
CONSTANTS
    bought = bought
    sold = sold
    stop = stop
    nifty = nifty
    Orders = {sold}
    Book <- OneOrder
    Contracts = {nifty}
    Quotes <- TwoQuotes
    InitialCash = 6
PROPERTIES
    OldOrdersExpire
