-------------------------- MODULE MCOrderExecution --------------------------
(* Small books of orders for model checking OrderExecution. *)
EXTENDS OrderExecution, TLC

CONSTANTS a, b

Entry(type, side, product, limit, trigger) ==
    [type |-> type, side |-> side, product |-> product,
     price |-> limit, trigger |-> trigger]

\* A delivery sale behind a stop-limit whose limit the market can pass: every
\* branch of _evaluate_order() is reached by one order.
StopBook == a :> Entry("STOP_LOSS_LIMIT", "SELL", "CNC", 2, 3)

\* That order, or a limit sale that fills on arrival or rests. The constraint
\* explores the union of the two single-order instances, each with restarts and
\* errors.
OneOfTwoBook == StopBook @@ (b :> Entry("LIMIT", "SELL", "CNC", 2, NoPrice))
AtMostOnePlaced == Cardinality({o \in Orders : request[o] # "none"}) <= 1

\* A market order next to a resting one.
MixedBook ==
    (a :> Entry("MARKET", "BUY", "MIS", NoPrice, NoPrice)) @@
    (b :> Entry("LIMIT", "SELL", "NRML", 2, NoPrice))
=============================================================================
