--------------------------- MODULE MCFuturesTrading ---------------------------
(* Small books of futures orders for model checking FuturesTrading. *)
EXTENDS FuturesTrading, TLC

CONSTANTS bought, sold, stop, nifty

Entry(type, side, quantity, limit, trigger) ==
    [type |-> type, side |-> side, contract |-> nifty, quantity |-> quantity,
     price |-> limit, trigger |-> trigger]

\* A purchase, a limit sale that is larger, and a stop that buys again or first:
\* positions open, grow, turn and close, on arrival and in the sweep.
ThreeOrders ==
    (bought :> Entry("MARKET", "BUY", 1, NoPrice, NoPrice)) @@
    (sold :> Entry("LIMIT", "SELL", 2, 20, NoPrice)) @@
    (stop :> Entry("STOP_LOSS_LIMIT", "BUY", 1, 20, 10))

\* One order that only has to grow old.
OneOrder == sold :> Entry("LIMIT", "SELL", 1, 20, NoPrice)

TwoQuotes == {10, 20}
=============================================================================
