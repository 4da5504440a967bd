\* Requests, cancellations and sweeps of three orders in one contract.
SPECIFICATION FairSpec
CONSTANTS
    bought = bought
    sold = sold
    stop = stop
    nifty = nifty
    Orders = {bought, sold, stop}
    Book <- ThreeOrders
    Contracts = {nifty}
    Quotes <- TwoQuotes
    InitialCash = 6
INVARIANTS
    TypeOK
    FilledAtMostOnce
    PositionIsSumOfFills
PROPERTIES
    MarketableOrderFills
