-------------------------------- MODULE OrderLots --------------------------------
(***************************************************************************)
(* The realised profit that the orders page derives from the orders it has     *)
(* (pages/OrdersPage.jsx): the fills of a company, in the order of their times, *)
(* close the open lots of the other side, oldest first.                       *)
(***************************************************************************)
EXTENDS Integers, Sequences, SequencesExt

CONSTANTS Prices2,      \* prices of fills, paise
          MaxLot,       \* bound: shares of an order
          MaxFills      \* bound: orders of the company

ASSUME LotsAssumption == Prices2 \subseteq Int /\ MaxLot \in Nat /\ MaxFills \in Nat

VARIABLE fills    \* the orders the server has given, newest first

OrderRows == [side : {"BUY", "SELL"}, qty : 1 .. MaxLot, price : Prices2,
              status : {"FILLED", "CANCELLED"}, ts : Nat, uid : Int]

LotsInit == fills = <<>>

\* A refresh brings one more order: filled later than the others or in the same
\* second as the last, or not filled at all.
NewOrder(ts) ==
  \E side \in {"BUY", "SELL"}, qty \in 1 .. MaxLot, price \in Prices2,
     status \in {"FILLED", "CANCELLED"} :
    fills' = <<[side |-> side, qty |-> qty, price |-> price, status |-> status, ts |-> ts,
               uid |-> IF ts = Len(fills) + 1 THEN ts ELSE -Len(fills)]>> \o fills

OrderArrives ==
  /\ Len(fills) < MaxFills /\ (fills # <<>> => fills[1].status = "FILLED")
  /\ \/ NewOrder(Len(fills) + 1)
     \/ fills # <<>> /\ NewOrder(fills[1].ts)

LotsNext == OrderArrives
LotsSpec == LotsInit /\ [][LotsNext]_fills
-----------------------------------------------------------------------------
Earlier(a, b) == a.ts < b.ts \/ (a.ts = b.ts /\ a.uid < b.uid)
\* The orders from the first to the last; no two have one uid.
InTime ==
  CHOOSE s \in [DOMAIN fills -> ToSet(fills)] :
    \A i, j \in DOMAIN fills : i < j => Earlier(s[i], s[j])

Smaller(a, b) == IF a < b THEN a ELSE b

\* One lot closed as far as acc.left goes; sign is that of a gain when the price
\* of the closing order is above the lot's.
CloseLot(acc, lot, price, sign) ==
  LET c == Smaller(acc.left, lot.qty)
  IN [left |-> acc.left - c, realized |-> acc.realized + sign * (price - lot.price) * c,
      rest |-> IF lot.qty > c THEN Append(acc.rest, [lot EXCEPT !.qty = @ - c]) ELSE acc.rest]

MatchedNewest(lots, qty, price, sign) ==
  LET Step(acc, lot) == CloseLot(acc, lot, price, sign)
      m == FoldLeft(Step, [left |-> qty, realized |-> 0, rest |-> <<>>], Reverse(lots))
  IN [m EXCEPT !.rest = Reverse(@)]
\* An order of qty shares against the lots, the oldest first.
Matched(lots, qty, price, sign) ==
  LET Step(acc, lot) == CloseLot(acc, lot, price, sign)
  IN FoldLeft(Step, [left |-> qty, realized |-> 0, rest |-> <<>>], lots)
NewLot(left, price) == IF left > 0 THEN <<[qty |-> left, price |-> price]>> ELSE <<>>

EmptyBook == [longs |-> <<>>, shorts |-> <<>>, pnl |-> <<>>]

\* What is left of an order opens a lot of its own side.
BookOrder(book, order) ==
  IF order.status # "FILLED" THEN book
  ELSE LET buys == order.side = "BUY"
           m == Matched(IF buys THEN book.shorts ELSE book.longs, order.qty, order.price,
                        IF buys THEN -1 ELSE 1)
           new == NewLot(m.left, order.price)
       IN [longs |-> IF buys THEN book.longs \o new ELSE m.rest,
           shorts |-> IF buys THEN m.rest ELSE book.shorts \o new,
           pnl |-> Append(book.pnl, m.realized)]

Books == FoldLeft(BookOrder, EmptyBook, InTime)
DerivedRealizedPnl == LET Plus(x, y) == x + y IN FoldLeft(Plus, 0, Books.pnl)
-----------------------------------------------------------------------------
LotsTypeOK == fills \in Seq(OrderRows)

\* The prices of the shares of one side, one by one.
SharePrices(side) ==
  LET Shares(acc, o) ==
        IF o.status = "FILLED" /\ o.side = side THEN acc \o [k \in 1 .. o.qty |-> o.price] ELSE acc
  IN FoldLeft(Shares, <<>>, InTime)

\* The derived profit is that of the k-th share sold against the k-th share bought,
\* whichever came first, through every mix of longs and shorts; what remains open
\* is on one side only (OrdersPage.jsx:243-303).
RealisedPairsShares ==
  LET bought == SharePrices("BUY")
      sold == SharePrices("SELL")
      pairs == 1 .. Smaller(Len(bought), Len(sold))
      Gain2(acc, k) == acc + sold[k] - bought[k]
      book == Books
  IN /\ DerivedRealizedPnl = FoldLeft(Gain2, 0, [k \in pairs |-> k])
     /\ book.longs = <<>> \/ book.shorts = <<>>
=============================================================================
