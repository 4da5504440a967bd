---------------------------- MODULE OrderTriggers ----------------------------
(***************************************************************************)
(* When does an order fill, and at what price?  The code answers this in   *)
(* two places: place_order() for an order that is marketable on arrival,   *)
(* and OrderExecutionWorker._evaluate_order() for an order that rests.     *)
(* A price is a natural number of ticks; NoPrice stands for a column that  *)
(* is NULL (and for a quote that is missing or not positive).              *)
(***************************************************************************)
EXTENDS Integers

NoPrice == 0

Sides == {"BUY", "SELL"}
Products == {"CNC", "MIS", "NRML"}
RestingTypes == {"LIMIT", "STOP_LOSS", "STOP_LOSS_LIMIT"}
OrderTypes == {"MARKET"} \cup RestingTypes

\* The immutable columns of a row of the orders table that decide its fate.
OrderSpec == [type: OrderTypes, side: Sides, product: Products,
              price: Nat, trigger: Nat]

(***************************************************************************)
(* The three comparisons.  "At or better" is what a limit asks of the      *)
(* market; "trigger hit" is what a stop asks of it.                        *)
(***************************************************************************)
AtOrBetter(side, p, limit) ==
    \/ side = "BUY"  /\ p <= limit
    \/ side = "SELL" /\ p >= limit

TriggerHit(side, p, trigger) ==
    \/ side = "BUY"  /\ p >= trigger
    \/ side = "SELL" /\ p <= trigger

\* trigger = trigger_price or order_price
EffectiveTrigger(o) == IF o.trigger # NoPrice THEN o.trigger ELSE o.price

\* place_order: a MARKET order, and a LIMIT order the market already meets,
\* fill inside the request at the current price; stops always rest.
FillsOnArrival(o, p) ==
    \/ o.type = "MARKET"
    \/ o.type = "LIMIT" /\ AtOrBetter(o.side, p, o.price)

\* _evaluate_order: should this resting order fill at quote p?
ShouldFill(o, p) ==
    /\ p > 0
    /\ \/ /\ o.type = "LIMIT"
          /\ o.price # NoPrice
          /\ AtOrBetter(o.side, p, o.price)
       \/ /\ o.type \in {"STOP_LOSS", "STOP_LOSS_LIMIT"}
          /\ EffectiveTrigger(o) # NoPrice
          /\ TriggerHit(o.side, p, EffectiveTrigger(o))

\* Mutant: a triggered stop-limit always fills at the market price.
FillAtMarket(o, p) == p

\* _evaluate_order: the market price, except that a triggered stop-limit
\* whose limit the market has already passed fills at the limit.
FillPrice(o, p) ==
    IF /\ o.type = "STOP_LOSS_LIMIT"
       /\ o.price # NoPrice
       /\ ~ AtOrBetter(o.side, p, o.price)
    THEN o.price
    ELSE p

\* An order whose type carries a limit never pays more (receives less) than it.
RespectsLimit(o, fill) ==
    o.type \in {"LIMIT", "STOP_LOSS_LIMIT"} /\ o.price # NoPrice
        => AtOrBetter(o.side, fill, o.price)
=============================================================================
