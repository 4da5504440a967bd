--------------------------- MODULE FillSettlement ---------------------------
(***************************************************************************)
(* What the trading engine, the order worker and the portfolio worker owe  *)
(* a user together.  An order is filled once.  Its fill is either booked   *)
(* in the same step (place_order() fills and books in one transaction) or  *)
(* it is owed for a while (the sweep commits a batch of fills, and the     *)
(* portfolio worker books them one by one).  A fill is booked once.        *)
(***************************************************************************)
EXTENDS Naturals

CONSTANT Orders

VARIABLES
    filled,      \* orders that the database has held as FILLED
    bookings     \* how often the fill of each order has been booked

v == <<filled, bookings>>

Init ==
    /\ filled = {}
    /\ bookings = [o \in Orders |-> 0]

FillAndBook(o) ==
    /\ o \notin filled
    /\ bookings[o] = 0
    /\ filled' = filled \cup {o}
    /\ bookings' = [bookings EXCEPT ![o] = 1]

FillBatch(batch) ==
    /\ batch \cap filled = {}
    /\ filled' = filled \cup batch
    /\ UNCHANGED bookings

BookOwed(o) ==
    /\ o \in filled
    /\ bookings[o] = 0
    /\ bookings' = [bookings EXCEPT ![o] = 1]
    /\ UNCHANGED filled

Next ==
    \/ \E o \in Orders : FillAndBook(o) \/ BookOwed(o)
    \/ \E batch \in SUBSET Orders : FillBatch(batch)

Spec == Init /\ [][Next]_v

\* What is owed is booked in the end.
FairSpec == Spec /\ \A o \in Orders : WF_v(BookOwed(o))
=============================================================================
