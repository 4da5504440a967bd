\* The sweep overwrites a cancellation (or a cancellation a fill).
SPECIFICATION Spec
CONSTANTS
    a = a
    b = b
    Orders = {a}
    Book <- StopBook
    Quotes = {0, 1, 3}
    MaxCrashes = 0
    MaxFailures = 0
CHECK_DEADLOCK FALSE
PROPERTIES
    OutcomeIsFinal
