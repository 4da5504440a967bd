----------------------------- MODULE FillBooking -----------------------------
(***************************************************************************)
(* The bookkeeping of a fill.  A ledger is what one user has in the        *)
(* database: a row of `portfolios` and at most one row of `holdings` per   *)
(* symbol (the index ix_holdings_portfolio_symbol is unique).  There are   *)
(* two routines that book a fill, _update_portfolio_on_fill() of           *)
(* trading_engine.py and the handlers of portfolio_worker.py, and they do  *)
(* not agree; each is an operator from ledgers to ledgers here, together   *)
(* with the recalculation it ends with.                                    *)
(*                                                                         *)
(* Amounts are integers.  An average price is rounded where it is computed *)
(* (the code rounds it when the row is written), and a fifth of a price is *)
(* taken to be exact, so instances use prices that 5 divides.              *)
(***************************************************************************)
EXTENDS Integers, FiniteSets, Functions, RowWrites

CONSTANT Symbols

NoHolding == [stored |-> FALSE, quantity |-> 0, avg |-> 0,
              invested |-> 0, value |-> 0, price |-> 0]

\* A holding that was just opened with q shares (q < 0: a short) at price p.
Opened(q, p) == [stored |-> TRUE, quantity |-> q, avg |-> p,
                 invested |-> p * q, value |-> p * q, price |-> p]

\* The same holding with q shares left at its average price, last seen at p.
Reduced(h, q, p) == [stored |-> h.stored, quantity |-> q, avg |-> h.avg,
                     invested |-> h.avg * q, value |-> p * q, price |-> p]

Rounded(n, d) == IF d > 0 THEN (2 * n + d) \div (2 * d)
                          ELSE (-d - 2 * n) \div (-2 * d)

\* q more shares at p, averaged with what the row held.
Averaged(h, q, p) ==
    LET total == h.quantity + q
        cost  == h.avg * h.quantity + p * q
    IN  [stored |-> h.stored, quantity |-> total, avg |-> Rounded(cost, total),
         invested |-> cost, value |-> p * total, price |-> p]

\* The ledger after cash and gain, with h as the holding of symbol y.
Posted(l, cash, gain, y, h) ==
    [cash |-> l.cash + cash, invested |-> l.invested, pnl |-> l.pnl + gain,
     rows |-> [l.rows EXCEPT ![y] = h]]

Stored(rows)     == {s \in Symbols : rows[s].stored}
Open(rows)       == {s \in Symbols : rows[s].quantity # 0}
Invested(rows)   == SumFunction([s \in Symbols |-> rows[s].invested])
Value(rows)      == SumFunction([s \in Symbols |-> rows[s].value])
Cost(rows)       == SumFunction([s \in Symbols |-> rows[s].avg * rows[s].quantity])

Smaller(a, b) == IF a < b THEN a ELSE b

\* MIS blocks a fifth of the price, the other products all of it.
Margin(product, p) == IF product = "MIS" THEN p \div 5 ELSE p

\* _normalize_available_capital(), the same in three files.
Normalized(cash, equity, holdings) == IF holdings = {} THEN equity ELSE Smaller(cash, equity)

\* The ledger with its rows revalued and its totals computed from holdings.
Totalled(l, rows, invested, equity, holdings) ==
    [cash |-> Normalized(l.cash, equity, holdings), invested |-> invested,
     pnl |-> l.pnl, rows |-> rows]

(***************************************************************************)
(* trading_engine.py.  `db.delete(holding)` is a coroutine that is never   *)
(* awaited in this routine, so a row whose shares are all gone is not      *)
(* deleted: a sold-out row stays with quantity 0 and its last values, and  *)
(* a short that is bought back in full stays as it was.                    *)
(***************************************************************************)

\* Every branch that adds a row while one is stored breaks the unique index.
InsertsTwice(l, o) ==
    LET h == l.rows[o.symbol]
    IN  /\ h.stored
        /\ \/ o.side = "BUY"  /\ h.quantity <= 0 /\ o.quantity > -h.quantity
           \/ o.side = "SELL" /\ h.quantity < o.quantity

BuyToOpen(l, o, p) ==
    LET h == l.rows[o.symbol]
    IN  Posted(l, -(p * o.quantity), 0, o.symbol,
               IF h.quantity > 0 THEN Averaged(h, o.quantity, p) ELSE Opened(o.quantity, p))

\* Mutant: the profit of the part bought back is not realised.
BuyToCoverWithoutGain(l, o, p) ==
    LET h == l.rows[o.symbol]
    IN  Posted(l, Margin(o.product, h.avg) * o.quantity, 0, o.symbol,
               IF h.quantity + o.quantity < 0
               THEN Reduced(h, h.quantity + o.quantity, p) ELSE h)

BuyToCover(l, o, p) ==
    LET h    == l.rows[o.symbol]
        gain == (h.avg - p) * o.quantity
    IN  Posted(l, Margin(o.product, h.avg) * o.quantity + gain, gain, o.symbol,
               IF h.quantity + o.quantity < 0
               THEN Reduced(h, h.quantity + o.quantity, p) ELSE h)

\* Mutant: a row to be deleted is not updated first.
SellToCloseKeepsRow(l, o, p) ==
    LET h == l.rows[o.symbol]
    IN  Posted(l, p * o.quantity, (p - h.avg) * o.quantity, o.symbol,
               IF h.quantity > o.quantity
               THEN Reduced(h, h.quantity - o.quantity, p) ELSE h)

\* Mutant: what a partial sale brings is taken off what the shares cost.
SellToCloseAtPrice(l, o, p) ==
    LET h == l.rows[o.symbol]
    IN  Posted(l, p * o.quantity, (p - h.avg) * o.quantity, o.symbol,
               IF h.quantity > o.quantity
               THEN [Reduced(h, h.quantity - o.quantity, p) EXCEPT
                        !.invested = h.invested - p * o.quantity]
               ELSE [h EXCEPT !.quantity = 0])

SellToClose(l, o, p) ==
    LET h == l.rows[o.symbol]
    IN  Posted(l, p * o.quantity, (p - h.avg) * o.quantity, o.symbol,
               IF h.quantity > o.quantity
               THEN Reduced(h, h.quantity - o.quantity, p)
               ELSE [h EXCEPT !.quantity = 0])

SellToOpen(l, o, p) ==
    Posted(l, -(Margin(o.product, p) * o.quantity), 0, o.symbol, Opened(-o.quantity, p))

\* _recalculate_portfolio(): over every stored row, the empty ones included.
Recalculated(l, base) ==
    LET equity == base + l.pnl + Value(l.rows) - Invested(l.rows)
    IN  Totalled(l, l.rows, Invested(l.rows), equity, Stored(l.rows))

\* What a fill that InsertsTwice does not refuse makes of the ledger.
BookedInline(l, o, p, base) ==
    LET h == l.rows[o.symbol]
        booked == CASE o.side = "BUY"  /\ h.quantity < 0           -> BuyToCover(l, o, p)
                    [] o.side = "BUY"  /\ h.quantity >= 0          -> BuyToOpen(l, o, p)
                    [] o.side = "SELL" /\ h.quantity >= o.quantity -> SellToClose(l, o, p)
                    [] o.side = "SELL" /\ h.quantity < o.quantity  -> SellToOpen(l, o, p)
    IN  Recalculated(booked, base)

(***************************************************************************)
(* portfolio_worker.py.  A purchase takes at most the cash there is, and a *)
(* sale at most the shares there are; an emptied row is really deleted.    *)
(***************************************************************************)

\* The average of no shares at all is a division by zero.
DividesByZero(l, o) == /\ o.side = "BUY" /\ l.rows[o.symbol].stored
                       /\ l.rows[o.symbol].quantity + o.quantity = 0

\* The shares a SELL really sells: none without a long position.
Sold(l, o) == IF l.rows[o.symbol].quantity <= 0 THEN 0
              ELSE Smaller(o.quantity, l.rows[o.symbol].quantity)

HandleBuy(l, o, p) ==
    LET h == l.rows[o.symbol]
    IN  Posted(l, -Smaller(p * o.quantity, l.cash), 0, o.symbol,
               IF h.stored THEN Averaged(h, o.quantity, p) ELSE Opened(o.quantity, p))

\* The holding once n of its shares are sold; its price is not touched.
Depleted(h, n, p) == IF h.quantity = n THEN NoHolding
                     ELSE [Reduced(h, h.quantity - n, p) EXCEPT !.price = h.price]

\* Mutant: profit is computed for the quantity ordered, not for the one sold.
HandleSellOrderedProfit(l, o, p) ==
    LET h == l.rows[o.symbol]
        n == Sold(l, o)
    IN  IF n = 0 THEN l
        ELSE Posted(l, p * n, (p - h.avg) * o.quantity, o.symbol, Depleted(h, n, p))

HandleSell(l, o, p) ==
    LET h == l.rows[o.symbol]
        n == Sold(l, o)
    IN  IF n = 0 THEN l
        ELSE Posted(l, p * n, (p - h.avg) * n, o.symbol, Depleted(h, n, p))

\* _recalculate_totals(): rows are valued at the quote, or at cost without one.
RecalculatedAt(l, quotes, base) ==
    LET At(s) == IF quotes[s] # 0 THEN quotes[s] ELSE l.rows[s].avg
        rows  == [s \in Symbols |-> IF l.rows[s].stored /\ quotes[s] # 0
                                    THEN [l.rows[s] EXCEPT !.price = quotes[s]]
                                    ELSE l.rows[s]]
        value == SumFunction([s \in Symbols |-> At(s) * rows[s].quantity])
        equity == base + l.pnl + value - Cost(rows)
    IN  Totalled(l, rows, Cost(rows), equity, Stored(rows))

BookedByWorker(l, o, p, quotes, base) ==
    RecalculatedAt(IF o.side = "BUY" THEN HandleBuy(l, o, p) ELSE HandleSell(l, o, p),
                   quotes, base)

(***************************************************************************)
(* portfolio_service.py: reading the summary writes it back, over the rows *)
(* that hold shares only.                                                  *)
(***************************************************************************)
Summarised(l, quotes, base) ==
    LET At(s)  == IF quotes[s] # 0 THEN quotes[s] ELSE l.rows[s].avg
        rows   == [s \in Symbols |->
                     IF s \in Open(l.rows)
                     THEN Reduced(l.rows[s], l.rows[s].quantity, At(s))
                     ELSE l.rows[s]]
        value  == SumFunction([s \in Open(rows) |-> rows[s].value])
        equity == base + l.pnl + value - Cost(rows)
    IN  Totalled(l, rows, Cost(rows), equity, Open(rows))

\* A session's changes to a row of `holdings`, written over the row.
WriteRow(now, was, is) ==
    IF ~is.stored /\ was.stored THEN NoHolding
    ELSE [stored   |-> Write(now.stored, was.stored, is.stored),
          quantity |-> Write(now.quantity, was.quantity, is.quantity),
          avg      |-> Write(now.avg, was.avg, is.avg),
          invested |-> Write(now.invested, was.invested, is.invested),
          value    |-> Write(now.value, was.value, is.value),
          price    |-> Write(now.price, was.price, is.price)]

Written(now, was, is) ==
    [cash     |-> Write(now.cash, was.cash, is.cash),
     invested |-> Write(now.invested, was.invested, is.invested),
     pnl      |-> Write(now.pnl, was.pnl, is.pnl),
     rows     |-> [s \in Symbols |-> WriteRow(now.rows[s], was.rows[s], is.rows[s])]]

\* An UPDATE of a row that is gone, or an INSERT of one that has appeared, is
\* an error, and the session is rolled back.
WriteFails(now, was, is) ==
    \E s \in Symbols : /\ is.rows[s] # was.rows[s]
                       /\ now.rows[s].stored # was.rows[s].stored
                       /\ is.rows[s].stored
=============================================================================
