------------------------------ MODULE OptionsBook ------------------------------
(***************************************************************************)
(* The paper orders and positions of the options page                          *)
(* (stores/useOptionsStore.js): kept in the browser's storage, numbered by         *)
(* counters that are not.                                                     *)
(***************************************************************************)
EXTENDS Integers, Sequences

CONSTANTS OptionLegs,     \* what may be ordered: an option, an expiry, a side
          MaxPlaced,      \* bound: orders
          MaxReloads      \* bound: loads of the page

ASSUME BookAssumption == MaxPlaced \in Nat

VARIABLES optPositions,   \* rows of a number, a leg and lots
          optOrders,
          orderId, posId, \* the counters
          netLots,        \* the lots opened of each less those of the rows closed
          doubled,        \* two positions have been given one number
          reloads

bookVars == <<optPositions, optOrders, orderId, posId, netLots, doubled, reloads>>

BookInit ==
  /\ optPositions = {} /\ optOrders = <<>> /\ orderId = 1 /\ posId = 1
  /\ netLots = [k \in OptionLegs |-> 0] /\ doubled = FALSE /\ reloads = 0

AddPositionAnew(leg) ==
  /\ optPositions' = optPositions \cup {[id |-> posId, leg |-> leg, lots |-> 1]}
  /\ posId' = posId + 1
\* Added to the position of the same option, expiry and side, and what becomes of it
\* is written to every row with its number.
AddLots(first) ==
  /\ optPositions' = {IF p.id # first.id THEN p ELSE [p EXCEPT !.lots = first.lots + 1] :
                        p \in optPositions}
  /\ UNCHANGED posId
AddPosition(leg) ==
  \/ \E p \in optPositions : p.leg = leg /\ AddLots(p)
  \/ (\A p \in optPositions : p.leg # leg) /\ AddPositionAnew(leg)

\* The page does not name the type of order where the store looks for it: the order
\* is kept as pending, and the page adds the position itself.
HandlePlaceOrder ==
  /\ Len(optOrders) < MaxPlaced
  /\ \E leg \in OptionLegs :
       /\ optOrders' = <<[id |-> orderId, status |-> "PENDING"]>> \o optOrders /\ orderId' = orderId + 1
       /\ AddPosition(leg)
       /\ netLots' = [netLots EXCEPT ![leg] = @ + 1]
       /\ doubled' = (doubled \/ \E p, q \in optPositions' : p # q /\ p.id = q.id)
  /\ UNCHANGED reloads

\* Every position of the number goes.
ClosePosition ==
  /\ \E p \in optPositions :
       /\ optPositions' = {q \in optPositions : q.id # p.id}
       /\ netLots' = [netLots EXCEPT ![p.leg] = @ - p.lots]
  /\ UNCHANGED <<optOrders, orderId, posId, doubled, reloads>>

\* Another load: the rows are read back, the counters start anew.
LoadStore ==
  /\ reloads < MaxReloads /\ reloads' = reloads + 1 /\ orderId' = 1 /\ posId' = 1
  /\ UNCHANGED <<optPositions, optOrders, netLots, doubled>>

BookNext == HandlePlaceOrder \/ ClosePosition \/ LoadStore
BookSpec == BookInit /\ [][BookNext]_bookVars
-----------------------------------------------------------------------------
BookTypeOK ==
  /\ optPositions \subseteq [id : 1 .. MaxPlaced, leg : OptionLegs, lots : 1 .. MaxPlaced]
  /\ \A i \in DOMAIN optOrders : optOrders[i].id \in 1 .. MaxPlaced
  /\ {orderId, posId} \subseteq 1 .. MaxPlaced + 1 /\ doubled \in BOOLEAN

\* The positions hold the lots ordered less those closed, one row of each, until a
\* number is given twice, which takes another load of the page
\* (useOptionsStore.js:4-5, 33-84).
LotsHeld ==
  /\ \A p, q \in optPositions : p.leg = q.leg => p = q
  /\ doubled => reloads > 0
  /\ doubled \/ \A k \in OptionLegs :
       \/ \E p \in optPositions : p.leg = k /\ netLots[k] = p.lots
       \/ (\A p \in optPositions : p.leg # k) /\ netLots[k] = 0
=============================================================================
