\* A resting stop-limit sale, or a limit order either path can fill; two restarts
\* and two database errors anywhere.
SPECIFICATION Spec
CONSTRAINT AtMostOnePlaced
CONSTANTS
    a = a
    b = b
    Orders = {a, b}
    Book <- OneOfTwoBook
    Quotes = {0, 1, 3}
    MaxCrashes = 2
    MaxFailures = 2
CHECK_DEADLOCK FALSE
INVARIANTS
    TypeOK
    SettledAtMostOnce
    SettledOnlyIfFilled
    FillsAccountedFor
    FilledWithinLimit
PROPERTIES
    NoReopen
    ImplementsSettlement
