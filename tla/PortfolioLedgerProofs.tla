------------------------- MODULE PortfolioLedgerProofs -------------------------
(***************************************************************************)
(* What holds of the ledger for any symbols, prices, quantities and        *)
(* capital.  For any number of sessions: delivery orders never leave a     *)
(* user owing shares, and every amount stays a whole number.  For a        *)
(* session that nothing else interleaves with: the kill switch leaves no   *)
(* delivery position open, the realised profit is what the trades brought, *)
(* and a purchase stays within the limit of the risk engine.               *)
(***************************************************************************)
EXTENDS PortfolioLedger, SumTheorems, TLAPS

\* A row of `holdings` that owes nothing.
Shelf == [stored : BOOLEAN, quantity : Nat, avg : Int,
          invested : Int, value : Int, price : Int]

LongRows == [Symbols -> Shelf]

\* A ledger with such rows; its other columns hold anything.
Long(l) ==
    /\ l = [cash |-> l.cash, invested |-> l.invested, pnl |-> l.pnl, rows |-> l.rows]
    /\ l.rows \in LongRows

(***************************************************************************)
(* What the bookkeeping does to one holding                                *)
(***************************************************************************)

\* A rounded average is a whole number of ticks.
LEMMA RoundedInt == ASSUME NEW n \in Int, NEW d \in Nat \ {0}
                    PROVE  Rounded(n, d) \in Int
  BY DEF Rounded

\* Amounts are whole numbers: a product of two of them is one.
LEMMA ProductInt == ASSUME NEW i \in Int, NEW j \in Int PROVE i * j \in Int
  OBVIOUS

\* A newly opened long position is on the shelf.
LEMMA OpenedLong == ASSUME NEW q \in Nat, NEW p \in Int PROVE Opened(q, p) \in Shelf
  BY ProductInt DEF Opened, Shelf

\* So is what is left of one, however much it is.
LEMMA ReducedLong == ASSUME NEW h \in Shelf, NEW q \in Nat, NEW p \in Int
                     PROVE  Reduced(h, q, p) \in Shelf
  <1>1. h.avg * q \in Int /\ p * q \in Int
    BY ProductInt DEF Shelf
  <1> QED
    BY <1>1 DEF Reduced, Shelf

\* And one to which shares are added.
LEMMA AveragedLong == ASSUME NEW h \in Shelf, NEW q \in Nat \ {0}, NEW p \in Int
                      PROVE  Averaged(h, q, p) \in Shelf
  <1> DEFINE total == h.quantity + q
             cost  == h.avg * h.quantity + p * q
  <1>1. total \in Nat \ {0}
    BY DEF Shelf
  <1>2. cost \in Int /\ p * total \in Int
    <2>1. h.avg * h.quantity \in Int
      BY ProductInt DEF Shelf
    <2>2. p * q \in Int
      BY ProductInt
    <2> QED
      BY <1>1, <2>1, <2>2, ProductInt
  <1>3. Rounded(cost, total) \in Int
    BY <1>1, <1>2, RoundedInt
  <1> QED
    BY <1>1, <1>2, <1>3 DEF Averaged, Shelf

\* The empty row is on the shelf.
LEMMA NoHoldingLong == NoHolding \in Shelf
  BY DEF NoHolding, Shelf

(***************************************************************************)
(* What it does to a ledger                                                *)
(***************************************************************************)

\* Posting a long holding keeps the ledger long.
LEMMA PostedLong == ASSUME NEW l, Long(l), NEW y \in Symbols, NEW h \in Shelf,
                           NEW cash, NEW gain
                    PROVE  Long(Posted(l, cash, gain, y, h))
  BY DEF Long, Posted, LongRows

\* The totals do not matter.
LEMMA TotalledLong == ASSUME NEW l, NEW rows \in LongRows,
                             NEW invested, NEW equity, NEW holdings
                      PROVE  Long(Totalled(l, rows, invested, equity, holdings))
  BY DEF Totalled, Long

\* Recalculating the portfolio does not touch the rows.
LEMMA RecalculatedLong == ASSUME NEW l, Long(l), NEW b PROVE Long(Recalculated(l, b))
  BY TotalledLong DEF Recalculated, Long

\* A delivery order: a purchase, or a sale of shares that are there.
Delivery(l, o) == /\ o.symbol \in Symbols
                  /\ o.side \in {"BUY", "SELL"}
                  /\ o.quantity \in Nat
                  /\ o.side = "BUY"  => o.quantity > 0 \/ l.rows[o.symbol].quantity = 0
                  /\ o.side = "SELL" => l.rows[o.symbol].quantity >= o.quantity

\* The fill routine of trading_engine.py keeps a ledger long.
LEMMA BookedInlineLong ==
    ASSUME NEW l, Long(l), NEW o, Delivery(l, o), NEW p \in Int, NEW b
    PROVE  Long(BookedInline(l, o, p, b))
  <1> DEFINE h == l.rows[o.symbol]
  <1>0. h \in Shelf /\ h.quantity \in Nat /\ o.symbol \in Symbols
    BY DEF Long, LongRows, Delivery, Shelf
  <1>1. CASE o.side = "BUY"
    <2>1. (IF h.quantity > 0 THEN Averaged(h, o.quantity, p) ELSE Opened(o.quantity, p)) \in Shelf
      BY <1>0, <1>1, AveragedLong, OpenedLong DEF Delivery
    <2>2. Long(BuyToOpen(l, o, p))
      BY <1>0, <2>1, PostedLong DEF BuyToOpen
    <2>3. BookedInline(l, o, p, b) = Recalculated(BuyToOpen(l, o, p), b)
      BY <1>0, <1>1 DEF BookedInline
    <2> QED
      BY <2>2, <2>3, RecalculatedLong
  <1>2. CASE o.side = "SELL"
    <2>1. (IF h.quantity > o.quantity THEN Reduced(h, h.quantity - o.quantity, p)
           ELSE [h EXCEPT !.quantity = 0]) \in Shelf
      <3>1. CASE h.quantity > o.quantity
        <4>1. h.quantity - o.quantity \in Nat
          BY <1>0, <3>1 DEF Delivery
        <4> QED
          BY <1>0, <3>1, <4>1, ReducedLong
      <3>2. CASE ~(h.quantity > o.quantity)
        BY <1>0, <3>2 DEF Shelf
      <3> QED
        BY <3>1, <3>2
    <2>2. Long(SellToClose(l, o, p))
      BY <1>0, <2>1, PostedLong DEF SellToClose
    <2>3. BookedInline(l, o, p, b) = Recalculated(SellToClose(l, o, p), b)
      BY <1>0, <1>2 DEF BookedInline, Delivery
    <2> QED
      BY <2>2, <2>3, RecalculatedLong
  <1> QED
    BY <1>1, <1>2 DEF Delivery

\* The handlers of portfolio_worker.py too: a sale takes what is there.
LEMMA HandledLong ==
    ASSUME NEW l, Long(l), NEW o, o.symbol \in Symbols, o.quantity \in Nat \ {0},
           NEW p \in Int
    PROVE  Long(HandleBuy(l, o, p)) /\ Long(HandleSell(l, o, p))
  <1> DEFINE h == l.rows[o.symbol]
             n == Sold(l, o)
  <1>0. h \in Shelf /\ h.quantity \in Nat
    BY DEF Long, LongRows, Shelf
  <1>1. Long(HandleBuy(l, o, p))
    <2>1. (IF h.stored THEN Averaged(h, o.quantity, p) ELSE Opened(o.quantity, p)) \in Shelf
      BY <1>0, AveragedLong, OpenedLong
    <2> QED
      BY <2>1, PostedLong DEF HandleBuy
  <1>2. n \in Nat /\ n <= h.quantity
    BY <1>0 DEF Sold, Smaller
  <1>3. Depleted(h, n, p) \in Shelf
    <2>1. CASE h.quantity = n
      BY <2>1, NoHoldingLong DEF Depleted
    <2>2. CASE h.quantity # n
      <3>1. h.quantity - n \in Nat
        BY <1>0, <1>2
      <3>2. Reduced(h, h.quantity - n, p) \in Shelf
        BY <1>0, <3>1, ReducedLong
      <3>3. [Reduced(h, h.quantity - n, p) EXCEPT !.price = h.price] \in Shelf
        BY <1>0, <3>2 DEF Shelf
      <3> QED
        BY <2>2, <3>3 DEF Depleted
    <2> QED
      BY <2>1, <2>2
  <1>4. Long(HandleSell(l, o, p))
    BY <1>3, PostedLong DEF HandleSell
  <1> QED
    BY <1>1, <1>4

\* What a session has for quotes.
Seen == [Symbols -> Nat]

\* Valuing the rows at quotes keeps them long.
LEMMA RecalculatedAtLong ==
    ASSUME NEW l, Long(l), NEW quotes \in Seen, NEW b
    PROVE  Long(RecalculatedAt(l, quotes, b))
  <1> DEFINE rows == [s \in Symbols |-> IF l.rows[s].stored /\ quotes[s] # 0
                                        THEN [l.rows[s] EXCEPT !.price = quotes[s]]
                                        ELSE l.rows[s]]
  <1>1. rows \in LongRows
    BY DEF Long, LongRows, Shelf, Seen
  <1> QED
    BY <1>1, TotalledLong DEF RecalculatedAt

\* A fill booked by the worker keeps a ledger long.
LEMMA BookedByWorkerLong ==
    ASSUME NEW l, Long(l), NEW o, o.symbol \in Symbols, o.quantity \in Nat \ {0},
           NEW p \in Int, NEW quotes \in Seen, NEW b
    PROVE  Long(BookedByWorker(l, o, p, quotes, b))
  BY HandledLong, RecalculatedAtLong DEF BookedByWorker

\* And so does reading the summary.
LEMMA SummarisedLong ==
    ASSUME NEW l, Long(l), NEW quotes \in Seen, NEW b
    PROVE  Long(Summarised(l, quotes, b))
  <1> DEFINE At(s) == IF quotes[s] # 0 THEN quotes[s] ELSE l.rows[s].avg
             rows  == [s \in Symbols |-> IF s \in Open(l.rows)
                                         THEN Reduced(l.rows[s], l.rows[s].quantity, At(s))
                                         ELSE l.rows[s]]
  <1>1. ASSUME NEW s \in Symbols PROVE rows[s] \in Shelf
    <2>1. l.rows[s] \in Shelf /\ l.rows[s].quantity \in Nat /\ At(s) \in Int
      BY DEF Long, LongRows, Shelf, Seen
    <2>2. Reduced(l.rows[s], l.rows[s].quantity, At(s)) \in Shelf
      BY <2>1, ReducedLong
    <2> QED
      BY <2>1, <2>2
  <1>2. rows \in LongRows
    BY <1>1 DEF LongRows
  <1> QED
    BY <1>2, TotalledLong DEF Summarised

\* Writing one long ledger over another, as the ORM does, gives a long one.
LEMMA WrittenLong ==
    ASSUME NEW now, Long(now), NEW was, Long(was), NEW is, Long(is)
    PROVE  Long(Written(now, was, is))
  <1>1. ASSUME NEW s \in Symbols
        PROVE  WriteRow(now.rows[s], was.rows[s], is.rows[s]) \in Shelf
    <2>1. now.rows[s] \in Shelf /\ was.rows[s] \in Shelf /\ is.rows[s] \in Shelf
      BY DEF Long, LongRows
    <2> QED
      BY <2>1, NoHoldingLong DEF WriteRow, Write, Shelf
  <1> QED
    BY <1>1 DEF Written, Long, LongRows

(***************************************************************************)
(* The inductive invariant                                                 *)
(***************************************************************************)

\* A session has long ledgers in hand; a sale that passed the checks is one of
\* shares that the session itself has read.
SessionLong(s) ==
    /\ s = [stage |-> s.stage, job |-> s.job, read |-> s.read, base |-> s.base,
            seen |-> s.seen, was |-> s.was, todo |-> s.todo, earned |-> s.earned]
    /\ Long(s.read) /\ Long(s.was)
    /\ s.seen \subseteq Symbols /\ s.todo \subseteq Symbols
    /\ s.job.kind \in {"order", "fill"} => s.job.order \in Orders /\ s.job.price \in Quotes
    /\ (s.stage = "ready" /\ s.job.kind = "order" /\ s.job.order.side = "SELL") =>
           /\ s.job.order.symbol \in s.seen
           /\ s.read.rows[s.job.order.symbol].quantity >= s.job.order.quantity

DeliveryInv ==
    /\ Long(ledger)
    /\ session = [x \in Sessions |-> session[x]]
    /\ \A x \in Sessions : SessionLong(session[x])
    /\ resting \subseteq Orders

\* A new account owes nothing, and neither does a session that is not open.
LEMMA StartLong == Long(EmptyLedger) /\ SessionLong(Closed)
  <1>1. Long(EmptyLedger)
    BY NoHoldingLong DEF EmptyLedger, Long, LongRows
  <1>2. SessionLong(Closed)
    BY <1>1 DEF Closed, Opening, SessionLong
  <1> QED
    BY <1>1, <1>2

\* What a session sees of the holdings is long.
LEMMA ViewLong == ASSUME Long(ledger), NEW s, SessionLong(s)
                  PROVE  /\ Long(View(s)) /\ Long(OnlySeen(s))
                         /\ \A y \in s.seen : View(s).rows[y] = s.read.rows[y]
  <1> DEFINE V == [y \in Symbols |-> IF y \in s.seen THEN s.read.rows[y] ELSE ledger.rows[y]]
             W == [y \in Symbols |-> IF y \in s.seen THEN s.read.rows[y] ELSE NoHolding]
  <1>1. V \in LongRows /\ W \in LongRows
    BY NoHoldingLong DEF Long, LongRows, SessionLong
  <1>2. View(s) = [s.read EXCEPT !.rows = V] /\ OnlySeen(s) = [s.read EXCEPT !.rows = W]
    BY DEF View, OnlySeen
  <1>3. Long(s.read)
    BY DEF SessionLong
  <1> HIDE DEF V, W
  <1>4. Long([s.read EXCEPT !.rows = V]) /\ Long([s.read EXCEPT !.rows = W])
    BY <1>1, <1>3 DEF Long
  <1>5. View(s).rows = V
    BY <1>2, <1>3 DEF Long
  <1> QED
    BY <1>2, <1>4, <1>5 DEF V, SessionLong

\* Whatever one session becomes, and whatever it writes, if both are long.
LEMMA OneSession ==
    ASSUME DeliveryInv, NEW x \in Sessions, NEW s, SessionLong(s),
           session' = [session EXCEPT ![x] = s],
           Long(ledger'), resting' \subseteq Orders
    PROVE  DeliveryInv'
  <1>1. session' = [y \in Sessions |-> IF y = x THEN s ELSE session[y]]
    BY DEF DeliveryInv
  <1>2. \A y \in Sessions : SessionLong(session'[y])
    BY <1>1 DEF DeliveryInv
  <1>3. session' = [y \in Sessions |-> session'[y]]
    BY <1>1
  <1> QED
    BY <1>2, <1>3 DEF DeliveryInv, SessionLong, Long, LongRows

\* A session that ends without writing.
LEMMA AbandonStep == ASSUME DeliveryInv, NEW x \in Sessions, Abandon(x) PROVE DeliveryInv'
  BY StartLong, OneSession DEF Abandon, Close, DeliveryInv

\* A session opens on a long ledger.
LEMMA BeginStep ==
    ASSUME DeliveryInv, NEW x \in Sessions, NEW what, Begin(x, what), ledger' = ledger,
           resting' \subseteq Orders,
           what.kind \in {"order", "fill"} => what.order \in Orders /\ what.price \in Quotes
    PROVE  DeliveryInv'
  <1>1. SessionLong(Opening(what, ledger, base))
    BY DEF SessionLong, Opening, DeliveryInv
  <1> QED
    BY <1>1, OneSession DEF Begin, DeliveryInv
(***************************************************************************)
(* One lemma per action                                                    *)
(***************************************************************************)

\* Opening a session, for whatever it is.
LEMMA BeginsStep ==
    ASSUME DeliveryInv, NEW x \in Sessions,
           BeginOrder(x) \/ BeginFill(x) \/ BeginOther(x) \/ BeginCapital(x)
    PROVE  DeliveryInv'
  <1>1. CASE BeginOrder(x)
    <2>1. PICK o \in Orders, p \in Quotes :
             Begin(x, [kind |-> "order", order |-> o, price |-> p])
      BY <1>1 DEF BeginOrder
    <2> QED
      BY <1>1, <2>1, BeginStep DEF BeginOrder, DeliveryInv
  <1>2. CASE BeginFill(x)
    <2>1. PICK o \in resting, p \in Quotes :
             /\ Begin(x, [kind |-> "fill", order |-> o, price |-> p])
             /\ resting' = resting \ {o}
      BY <1>2 DEF BeginFill
    <2>2. o \in Orders /\ resting' \subseteq Orders
      BY <2>1 DEF DeliveryInv
    <2> QED
      BY <1>2, <2>1, <2>2, BeginStep DEF BeginFill
  <1>3. CASE BeginOther(x)
    <2>1. PICK k \in {"closeall", "summary", "resetaccount", "resetcapital"} :
             Begin(x, [kind |-> k])
      BY <1>3 DEF BeginOther
    <2> QED
      BY <1>3, <2>1, BeginStep DEF BeginOther, DeliveryInv
  <1>4. CASE BeginCapital(x)
    <2>1. PICK k \in {"addcapital", "setcapital"}, a \in Amounts :
             Begin(x, [kind |-> k, amount |-> a])
      BY <1>4 DEF BeginCapital
    <2> QED
      BY <1>4, <2>1, BeginStep DEF BeginCapital, DeliveryInv
  <1> QED
    BY <1>1, <1>2, <1>3, <1>4

\* Reading the holdings, for a session that is not an order's.
LEMMA RememberLong ==
    ASSUME Long(ledger), NEW s, SessionLong(s),
           NEW seen \in SUBSET Symbols, NEW todo \in SUBSET Symbols
    PROVE  /\ s.job.kind # "order" => SessionLong(Remember(s, seen, todo))
           /\ Long([s.read EXCEPT !.rows = ledger.rows])
           /\ [s.read EXCEPT !.rows = ledger.rows].rows = ledger.rows
  <1>1. Long([s.read EXCEPT !.rows = ledger.rows])
        /\ [s.read EXCEPT !.rows = ledger.rows].rows = ledger.rows
    BY DEF Long, SessionLong
  <1> QED
    BY <1>1 DEF SessionLong, Remember

\* The checks of place_order(): a delivery sale is of shares read with them.
LEMMA CheckOrderStep ==
    ASSUME Products \subseteq {"CNC"}, DeliveryInv, NEW x \in Sessions, CheckOrder(x)
    PROVE  DeliveryInv'
  <1> DEFINE s == session[x]
             o == s.job.order
             r == Remember(s, {o.symbol} \cap Stored(ledger.rows), {})
  <1>1. /\ Long(ledger) /\ SessionLong(s) /\ resting \subseteq Orders
        /\ s.job.kind = "order" /\ o \in Orders /\ ledger' = ledger
    BY DEF DeliveryInv, CheckOrder, SessionLong
  <1>2. o.product = "CNC" /\ o.side \in {"BUY", "SELL"} /\ o.symbol \in Symbols
    BY <1>1 DEF Orders
  <1>3. CASE /\ CapitalAllows(s)
             /\ session' = [session EXCEPT ![x] = r]
             /\ resting' = resting
    <2>1. o.side = "SELL" => /\ ledger.rows[o.symbol].stored
                             /\ ledger.rows[o.symbol].quantity >= o.quantity
      BY <1>2, <1>3 DEF CapitalAllows
    <2>2. o.side = "SELL" => o.symbol \in {o.symbol} \cap Stored(ledger.rows)
      BY <1>2, <2>1 DEF Stored
    <2>3. /\ Long([s.read EXCEPT !.rows = ledger.rows])
          /\ [s.read EXCEPT !.rows = ledger.rows].rows = ledger.rows
      BY <1>1, <1>2, RememberLong
    <2>4. SessionLong(r)
      BY <1>1, <1>2, <2>1, <2>2, <2>3 DEF SessionLong, Remember
    <2> QED
      BY <1>1, <1>3, <2>4, OneSession
  <1>4. CASE resting' = resting \cup {o} /\ Close(x)
    BY <1>1, <1>4, StartLong, OneSession DEF Close
  <1>5. CASE resting' = resting /\ Close(x)
    BY <1>1, <1>5, StartLong, OneSession DEF Close
  <1> QED
    BY <1>3, <1>4, <1>5 DEF CheckOrder

\* An order is of some shares, at a price.
LEMMA OrderFacts ==
    ASSUME NEW o \in Orders, NEW p \in Quotes
    PROVE  /\ o.symbol \in Symbols /\ o.side \in {"BUY", "SELL"}
           /\ o.quantity \in Nat /\ o.quantity > 0 /\ p \in Int
  <1>1. Lots \subseteq Nat \ {0} /\ Quotes \subseteq Nat \ {0}
    BY LedgerAssumption
  <1>2. o.quantity \in Lots /\ o.symbol \in Symbols /\ o.side \in {"BUY", "SELL"}
    BY DEF Orders
  <1>3. o.quantity \in Nat \ {0} /\ p \in Nat
    BY <1>1, <1>2
  <1>4. o.quantity \in Nat /\ o.quantity > 0 /\ p \in Int
    BY <1>3
  <1> QED
    BY <1>2, <1>4

\* Quotes, or their absence, are numbers.
LEMMA QuotesSeen == [Symbols -> Quotes \cup {NoQuote}] \subseteq Seen
  <1>1. Quotes \cup {NoQuote} \subseteq Nat
    BY LedgerAssumption DEF NoQuote
  <1> QED
    BY <1>1 DEF Seen

\* A fill on arrival.
LEMMA BookInlineStep ==
    ASSUME DeliveryInv, NEW x \in Sessions, BookInline(x)
    PROVE  DeliveryInv'
  <1> DEFINE s == session[x]
             o == s.job.order
             is == BookedInline(View(s), o, s.job.price, base)
  <1>1. /\ Long(ledger) /\ SessionLong(s) /\ resting \subseteq Orders
        /\ s.job.kind = "order" /\ s.stage = "ready"
        /\ o \in Orders /\ s.job.price \in Quotes
    BY DEF DeliveryInv, BookInline, SessionLong
  <1>2. CASE InlineFails(s)
    BY <1>2, AbandonStep DEF BookInline
  <1>3. CASE ~InlineFails(s)
    <2>1. Long(View(s))
      BY <1>1, ViewLong
    <2>2. /\ o.symbol \in Symbols /\ o.side \in {"BUY", "SELL"}
          /\ o.quantity \in Nat /\ o.quantity > 0 /\ s.job.price \in Int
      BY <1>1, OrderFacts
    <2>3. o.side = "SELL" => View(s).rows[o.symbol].quantity >= o.quantity
      BY <1>1, ViewLong DEF SessionLong
    <2>4. Long(is)
      BY <2>1, <2>2, <2>3, BookedInlineLong DEF Delivery
    <2>5. Long(ledger')
      BY <1>1, <1>3, <2>1, <2>4, WrittenLong DEF BookInline, Commit
    <2> QED
      BY <1>1, <1>3, <2>5, StartLong, OneSession DEF BookInline, Close
  <1> QED
    BY <1>2, <1>3

\* The worker opens its session on the row of the order's symbol.
LEMMA ReadHoldingStep ==
    ASSUME DeliveryInv, NEW x \in Sessions, ReadHolding(x)
    PROVE  DeliveryInv'
  <1> DEFINE s == session[x]
             seen == {s.job.order.symbol} \cap Stored(ledger.rows)
  <1>1. Long(ledger) /\ SessionLong(s) /\ resting \subseteq Orders /\ s.job.kind = "fill"
    BY DEF DeliveryInv, ReadHolding
  <1>2. seen \in SUBSET Symbols
    BY DEF Stored
  <1>3. SessionLong(Remember(s, seen, {}))
    BY <1>1, <1>2, RememberLong
  <1> QED
    BY <1>1, <1>3, OneSession DEF ReadHolding

\* A fill booked by the worker.
LEMMA BookByWorkerStep ==
    ASSUME DeliveryInv, NEW x \in Sessions, BookByWorker(x)
    PROVE  DeliveryInv'
  <1> DEFINE s == session[x]
             o == s.job.order
  <1>1. /\ Long(ledger) /\ SessionLong(s) /\ resting \subseteq Orders
        /\ o \in Orders /\ s.job.price \in Quotes
    BY DEF DeliveryInv, BookByWorker, SessionLong
  <1>2. PICK quotes \in [Symbols -> Quotes \cup {NoQuote}] :
           IF WorkerFails(s, quotes) THEN Abandon(x)
           ELSE /\ Commit(s, WorkerBooks(s, quotes))
                /\ Close(x)
                /\ UNCHANGED resting
    BY DEF BookByWorker
  <1>3. CASE WorkerFails(s, quotes)
    BY <1>2, <1>3, AbandonStep
  <1>4. CASE ~WorkerFails(s, quotes)
    <2>1. Long(View(s)) /\ quotes \in Seen
      BY <1>1, ViewLong, QuotesSeen
    <2>2. o.symbol \in Symbols /\ o.quantity \in Nat \ {0} /\ s.job.price \in Int
      BY <1>1, OrderFacts
    <2>3. Long(WorkerBooks(s, quotes))
      BY <2>1, <2>2, BookedByWorkerLong, RecalculatedAtLong DEF WorkerBooks
    <2>4. Long(ledger')
      BY <1>1, <1>2, <1>4, <2>1, <2>3, WrittenLong DEF Commit
    <2> QED
      BY <1>1, <1>2, <1>4, <2>4, StartLong, OneSession DEF Close
  <1> QED
    BY <1>3, <1>4

\* The kill switch reads what there is to close.
LEMMA ReadPositionsStep ==
    ASSUME DeliveryInv, NEW x \in Sessions, ReadPositions(x)
    PROVE  DeliveryInv'
  <1> DEFINE s == session[x]
             open == Open(ledger.rows)
  <1>1. Long(ledger) /\ SessionLong(s) /\ resting \subseteq Orders /\ s.job.kind = "closeall"
    BY DEF DeliveryInv, ReadPositions
  <1>2. open \in SUBSET Symbols
    BY DEF Open
  <1>3. SessionLong(IF open = {} THEN Closed ELSE Remember(s, open, open))
    BY <1>1, <1>2, RememberLong, StartLong
  <1> QED
    BY <1>1, <1>3, OneSession DEF ReadPositions

\* Closing a long position sells what there is of it.
LEMMA CloseOneStep ==
    ASSUME DeliveryInv, NEW x \in Sessions, CloseOne(x)
    PROVE  DeliveryInv'
  <1> DEFINE s == session[x]
             l == View(s)
  <1>1. /\ Long(ledger) /\ SessionLong(s) /\ resting \subseteq Orders
        /\ s.job.kind = "closeall" /\ ledger' = ledger /\ resting' = resting
    BY DEF DeliveryInv, CloseOne
  <1>2. PICK y \in s.todo, q \in Quotes \cup {NoQuote} :
           session' = [session EXCEPT ![x] =
              [stage |-> "closing", job |-> s.job,
               read |-> BookedInline(l, ClosingOrder(l, y), ClosePrice(l.rows[y], q), base),
               base |-> s.base, seen |-> Symbols,
               was |-> IF s.stage = "ready" THEN l ELSE s.was,
               todo |-> s.todo \ {y},
               earned |-> s.earned + Proceeds(ClosingOrder(l, y).side,
                                              ClosingOrder(l, y).quantity,
                                              ClosePrice(l.rows[y], q))]]
    BY DEF CloseOne
  <1> DEFINE o == ClosingOrder(l, y)
             p == ClosePrice(l.rows[y], q)
             is == BookedInline(l, o, p, base)
             e == s.earned + Proceeds(o.side, o.quantity, p)
  <1>3. Long(l) /\ y \in Symbols
    BY <1>1, ViewLong DEF SessionLong
  <1>4. l.rows[y] \in Shelf /\ l.rows[y].quantity \in Nat
    BY <1>3 DEF Long, LongRows, Shelf
  <1>5. p \in Int
    <2>1. q \in Nat
      <3>1. Quotes \cup {NoQuote} \subseteq Nat
        BY LedgerAssumption DEF NoQuote
      <3> QED
        BY <3>1
    <2> QED
      BY <1>4, <2>1 DEF ClosePrice, Shelf
  <1>6. Delivery(l, o)
    BY <1>3, <1>4 DEF Delivery, ClosingOrder
  <1>7. Long(is)
    BY <1>3, <1>5, <1>6, BookedInlineLong
  <1>8. Long(IF s.stage = "ready" THEN l ELSE s.was)
    BY <1>1, <1>3 DEF SessionLong
  <1> DEFINE n == [stage |-> "closing", job |-> s.job, read |-> is,
                   base |-> s.base, seen |-> Symbols,
                   was |-> IF s.stage = "ready" THEN l ELSE s.was,
                   todo |-> s.todo \ {y}, earned |-> e]
  <1>9. session' = [session EXCEPT ![x] = n]
    BY <1>2
  <1>10. SessionLong(n)
    <2>1. s.todo \subseteq Symbols
      BY <1>1 DEF SessionLong
    <2> HIDE DEF is, e, l
    <2> QED
      BY <1>1, <1>7, <1>8, <2>1 DEF SessionLong
  <1> HIDE DEF n
  <1> QED
    BY <1>1, <1>9, <1>10, OneSession

\* All positions closed, the session commits.
LEMMA EndClosingStep ==
    ASSUME DeliveryInv, NEW x \in Sessions, EndClosing(x)
    PROVE  DeliveryInv'
  <1> DEFINE s == session[x]
  <1>1. Long(ledger) /\ SessionLong(s) /\ resting \subseteq Orders
    BY DEF DeliveryInv
  <1>2. CASE Abandon(x)
    BY <1>2, AbandonStep
  <1>3. CASE ledger' = Written(ledger, s.was, s.read) /\ Close(x) /\ UNCHANGED resting
    <2>1. Long(ledger')
      BY <1>1, <1>3, WrittenLong DEF SessionLong
    <2> QED
      BY <1>1, <1>3, <2>1, StartLong, OneSession DEF Close
  <1> QED
    BY <1>2, <1>3 DEF EndClosing

\* Reading the summary and writing it back.
LEMMA SummaryStep ==
    ASSUME DeliveryInv, NEW x \in Sessions, ReadSummary(x) \/ WriteSummary(x)
    PROVE  DeliveryInv'
  <1> DEFINE s == session[x]
             l == OnlySeen(s)
  <1>1. Long(ledger) /\ SessionLong(s) /\ resting \subseteq Orders
    BY DEF DeliveryInv
  <1>2. CASE ReadSummary(x)
    <2>1. Open(ledger.rows) \in SUBSET Symbols
      BY DEF Open
    <2>2. SessionLong(Remember(s, Open(ledger.rows), {}))
      BY <1>1, <1>2, <2>1, RememberLong DEF ReadSummary
    <2> QED
      BY <1>1, <1>2, <2>2, OneSession DEF ReadSummary
  <1>3. CASE WriteSummary(x)
    <2>1. PICK quotes \in [Symbols -> Quotes \cup {NoQuote}] :
             \/ Abandon(x)
             \/ /\ ledger' = Written(ledger, l, Summarised(l, quotes, s.base))
                /\ Close(x)
                /\ UNCHANGED resting
      BY <1>3 DEF WriteSummary
    <2>2. Long(l) /\ quotes \in Seen
      BY <1>1, ViewLong, QuotesSeen
    <2>3. Long(Written(ledger, l, Summarised(l, quotes, s.base)))
      BY <1>1, <2>2, SummarisedLong, WrittenLong
    <2> QED
      BY <1>1, <2>1, <2>3, AbandonStep, StartLong, OneSession DEF Close
  <1> QED
    BY <1>2, <1>3

\* The capital requests do not touch the shares.
LEMMA ChangeCapitalStep ==
    ASSUME DeliveryInv, NEW x \in Sessions, ChangeCapital(x)
    PROVE  DeliveryInv'
  <1> DEFINE s == session[x]
  <1>1. Long(ledger) /\ SessionLong(s) /\ Long(s.read) /\ resting \subseteq Orders
    BY DEF DeliveryInv, SessionLong
  <1>2. PICK is : /\ \/ is = [s.read EXCEPT !.cash = @ + s.job.amount]
                     \/ is = [s.read EXCEPT !.cash = s.job.amount]
                     \/ is = [cash |-> DefaultCapital, invested |-> s.read.invested,
                              pnl |-> 0, rows |-> s.read.rows]
                  /\ ledger' = Written(ledger, s.read, is)
                  /\ Close(x)
                  /\ UNCHANGED resting
    BY DEF ChangeCapital
  <1>3. Long(is)
    BY <1>1, <1>2 DEF Long
  <1>4. Long(ledger')
    BY <1>1, <1>2, <1>3, WrittenLong
  <1> QED
    BY <1>1, <1>2, <1>4, StartLong, OneSession DEF Close

\* A full account reset leaves an empty ledger.
LEMMA ResetAccountStep ==
    ASSUME DeliveryInv, NEW x \in Sessions, ResetAccount(x)
    PROVE  DeliveryInv'
  <1>1. CASE Abandon(x)
    BY <1>1, AbandonStep
  <1>2. CASE ~linked /\ ~Abandon(x)
    <2>1. PICK c, i, g : ledger' = [cash |-> c, invested |-> i, pnl |-> g,
                                    rows |-> EmptyLedger.rows]
      BY <1>2 DEF ResetAccount
    <2>2. Long(ledger')
      BY <2>1, StartLong DEF Long
    <2>3. session' = [y \in Sessions |->
                         IF y = x \/ session[y].job.kind = "fill" THEN Closed
                                                                 ELSE session[y]]
      BY <1>2 DEF ResetAccount
    <2>4. \A y \in Sessions : SessionLong(session'[y])
      BY <2>3, StartLong DEF DeliveryInv
    <2>5. session' = [y \in Sessions |-> session'[y]]
      BY <2>3
    <2>6. resting' \subseteq Orders
      BY <1>2 DEF ResetAccount
    <2> QED
      BY <2>2, <2>4, <2>5, <2>6 DEF DeliveryInv, SessionLong, Long, LongRows
  <1> QED
    BY <1>1, <1>2 DEF ResetAccount

(***************************************************************************)
(* The theorem                                                             *)
(***************************************************************************)

\* Every step keeps it.
LEMMA DeliveryStep ==
    ASSUME Products \subseteq {"CNC"}, DeliveryInv, [Next]_vars
    PROVE  DeliveryInv'
  <1>1. CASE UNCHANGED vars
    BY <1>1 DEF vars, DeliveryInv, SessionLong, Long, LongRows
  <1>2. CASE Next
    <2>1. PICK x \in Sessions :
             \/ BeginOrder(x) \/ BeginFill(x) \/ BeginOther(x) \/ BeginCapital(x)
             \/ CheckOrder(x) \/ BookInline(x)
             \/ ReadHolding(x) \/ BookByWorker(x)
             \/ ReadPositions(x) \/ CloseOne(x) \/ EndClosing(x)
             \/ ReadSummary(x) \/ WriteSummary(x)
             \/ ChangeCapital(x) \/ ResetAccount(x)
      BY <1>2 DEF Next
    <2>2. CASE BeginOrder(x) \/ BeginFill(x) \/ BeginOther(x) \/ BeginCapital(x)
      BY <2>2, BeginsStep
    <2>3. CASE CheckOrder(x)
      BY <2>3, CheckOrderStep
    <2>4. CASE BookInline(x)
      BY <2>4, BookInlineStep
    <2>5. CASE ReadHolding(x)
      BY <2>5, ReadHoldingStep
    <2>6. CASE BookByWorker(x)
      BY <2>6, BookByWorkerStep
    <2>7. CASE ReadPositions(x)
      BY <2>7, ReadPositionsStep
    <2>8. CASE CloseOne(x)
      BY <2>8, CloseOneStep
    <2>9. CASE EndClosing(x)
      BY <2>9, EndClosingStep
    <2>10. CASE ReadSummary(x) \/ WriteSummary(x)
      BY <2>10, SummaryStep
    <2>11. CASE ChangeCapital(x)
      BY <2>11, ChangeCapitalStep
    <2>12. CASE ResetAccount(x)
      BY <2>12, ResetAccountStep
    <2> QED
      BY <2>1, <2>2, <2>3, <2>4, <2>5, <2>6, <2>7, <2>8, <2>9, <2>10, <2>11, <2>12
  <1> QED
    BY <1>1, <1>2

\* With delivery orders only, no holding is ever negative: not for any number
\* of sessions whose reads and writes interleave, nor for any prices, quantities
\* and capital requests.  CNC sells what is held when it is checked
\* (trading_engine.py), the worker what is held when it books (portfolio_worker.py).
THEOREM DeliveryNeverShort ==
    ASSUME Products \subseteq {"CNC"}
    PROVE  Spec => []NeverShort
  <1>1. Init => DeliveryInv
    BY StartLong DEF Init, DeliveryInv
  <1>2. DeliveryInv /\ [Next]_vars => DeliveryInv'
    BY DeliveryStep
  <1>3. DeliveryInv => NeverShort
    BY DEF DeliveryInv, NeverShort, Long, LongRows, Shelf
  <1> QED
    BY <1>1, <1>2, <1>3, PTL DEF Spec

(***************************************************************************)
(* Every amount is a whole number.  What has to be shown is that nothing is *)
(* divided by zero: an average is taken only of some shares.                *)
(***************************************************************************)
Portfolios == [Symbols -> Rows]

LEMMA RoundedWhole ==
    ASSUME NEW n \in Int, NEW d \in Int \ {0}
    PROVE  Rounded(n, d) \in Int
  <1>1. CASE d > 0
    <2>1. 2 * n + d \in Int /\ 2 * d \in Nat \ {0}
      BY <1>1
    <2>2. (2 * n + d) \div (2 * d) \in Int
      BY <2>1
    <2> QED
      BY <1>1, <2>2 DEF Rounded
  <1>2. CASE ~(d > 0)
    <2>1. -d - 2 * n \in Int /\ -2 * d \in Nat \ {0}
      BY <1>2
    <2>2. (-d - 2 * n) \div (-2 * d) \in Int
      BY <2>1
    <2> QED
      BY <1>2, <2>2 DEF Rounded
  <1> QED
    BY <1>1, <1>2

LEMMA OpenedWhole == ASSUME NEW q \in Int, NEW p \in Int PROVE Opened(q, p) \in Rows
  BY ProductInt DEF Opened, Rows

LEMMA ReducedWhole == ASSUME NEW h \in Rows, NEW q \in Int, NEW p \in Int
                      PROVE  Reduced(h, q, p) \in Rows
  <1>1. h.avg * q \in Int /\ p * q \in Int
    BY ProductInt DEF Rows
  <1> QED
    BY <1>1 DEF Reduced, Rows

LEMMA AveragedWhole == ASSUME NEW h \in Rows, NEW q \in Int, NEW p \in Int, h.quantity + q # 0
                       PROVE  Averaged(h, q, p) \in Rows
  <1> DEFINE total == h.quantity + q
             cost  == h.avg * h.quantity + p * q
  <1>1. total \in Int \ {0}
    BY DEF Rows
  <1>2. cost \in Int /\ p * total \in Int
    <2>1. h.avg * h.quantity \in Int /\ p * q \in Int
      BY ProductInt DEF Rows
    <2> QED
      BY <1>1, <2>1, ProductInt
  <1>3. Rounded(cost, total) \in Int
    BY <1>1, <1>2, RoundedWhole
  <1> HIDE DEF total, cost
  <1>4. [stored |-> h.stored, quantity |-> total, avg |-> Rounded(cost, total),
         invested |-> cost, value |-> p * total, price |-> p] \in Rows
    BY <1>1, <1>2, <1>3 DEF Rows
  <1> QED
    BY <1>4 DEF Averaged, total, cost

LEMMA NoHoldingWhole == NoHolding \in Rows
  BY DEF NoHolding, Rows

LEMMA PostedWhole == ASSUME NEW l \in Ledgers, NEW y \in Symbols, NEW h \in Rows,
                            NEW cash \in Int, NEW gain \in Int
                     PROVE  Posted(l, cash, gain, y, h) \in Ledgers
  BY DEF Posted, Ledgers

\* A column summed over the rows.
LEMMA ColumnWhole == ASSUME NEW f \in [Symbols -> Int] PROVE SumFunction(f) \in Int
  <1>1. IsFiniteSet(Symbols) /\ DOMAIN f = Symbols /\ \A s \in Symbols : f[s] \in Int
    BY LedgerAssumption
  <1> QED
    BY <1>1, SumInt DEF SumFunction

LEMMA TotalsWhole == ASSUME NEW rows \in Portfolios
                     PROVE  Invested(rows) \in Int /\ Value(rows) \in Int /\ Cost(rows) \in Int
  <1>1. /\ [s \in Symbols |-> rows[s].invested] \in [Symbols -> Int]
        /\ [s \in Symbols |-> rows[s].value] \in [Symbols -> Int]
    BY DEF Portfolios, Rows
  <1>2. [s \in Symbols |-> rows[s].avg * rows[s].quantity] \in [Symbols -> Int]
    <2>1. \A s \in Symbols : rows[s].avg * rows[s].quantity \in Int
      BY ProductInt DEF Portfolios, Rows
    <2> QED
      BY <2>1
  <1> QED
    BY <1>1, <1>2, ColumnWhole DEF Invested, Value, Cost

LEMMA TotalledWhole == ASSUME NEW l \in Ledgers, NEW rows \in Portfolios, NEW invested \in Int,
                              NEW equity \in Int, NEW holdings
                       PROVE  Totalled(l, rows, invested, equity, holdings) \in Ledgers
  <1>1. Normalized(l.cash, equity, holdings) \in Int
    BY DEF Normalized, Smaller, Ledgers
  <1> QED
    BY <1>1 DEF Totalled, Ledgers, Portfolios

LEMMA RecalculatedWhole == ASSUME NEW l \in Ledgers, NEW b \in Int
                           PROVE  Recalculated(l, b) \in Ledgers
  <1>1. l.rows \in Portfolios /\ l.pnl \in Int
    BY DEF Ledgers, Portfolios
  <1>2. Invested(l.rows) \in Int /\ Value(l.rows) \in Int
    BY <1>1, TotalsWhole
  <1>3. b + l.pnl + Value(l.rows) - Invested(l.rows) \in Int
    BY <1>1, <1>2
  <1> QED
    BY <1>1, <1>2, <1>3, TotalledWhole DEF Recalculated

\* An order that the fill routine can book: who buys more, buys some.
Bookable(l, o) == /\ o.symbol \in Symbols
                  /\ o.side \in {"BUY", "SELL"}
                  /\ o.quantity \in Int
                  /\ o.side = "BUY" /\ l.rows[o.symbol].quantity > 0 => o.quantity > 0

LEMMA MarginWhole == ASSUME NEW product, NEW p \in Int PROVE Margin(product, p) \in Int
  BY DEF Margin

LEMMA BookedInlineWhole ==
    ASSUME NEW l \in Ledgers, NEW o, Bookable(l, o), NEW p \in Int, NEW b \in Int
    PROVE  BookedInline(l, o, p, b) \in Ledgers
  <1> DEFINE h == l.rows[o.symbol]
             q == o.quantity
  <1>0. /\ h \in Rows /\ h.quantity \in Int /\ h.avg \in Int /\ q \in Int /\ o.symbol \in Symbols
        /\ o.side \in {"BUY", "SELL"}
    BY DEF Ledgers, Bookable, Rows
  <1>1. CASE o.side = "BUY" /\ h.quantity < 0
    <2>1. /\ (IF h.quantity + q < 0 THEN Reduced(h, h.quantity + q, p) ELSE h) \in Rows
      BY <1>0, ReducedWhole
    <2>2. Margin(o.product, h.avg) * q \in Int /\ (h.avg - p) * q \in Int
      BY <1>0, MarginWhole, ProductInt
    <2>3. Margin(o.product, h.avg) * q + (h.avg - p) * q \in Int
      BY <2>2
    <2>4. BuyToCover(l, o, p) \in Ledgers
      BY <1>0, <2>1, <2>2, <2>3, PostedWhole DEF BuyToCover
    <2>5. BookedInline(l, o, p, b) = Recalculated(BuyToCover(l, o, p), b)
      BY <1>0, <1>1 DEF BookedInline
    <2> QED
      BY <2>4, <2>5, RecalculatedWhole
  <1>2. CASE o.side = "BUY" /\ h.quantity >= 0
    <2>1. (IF h.quantity > 0 THEN Averaged(h, q, p) ELSE Opened(q, p)) \in Rows
      <3>1. CASE h.quantity > 0
        <4>1. h.quantity + q # 0
          BY <1>0, <1>2, <3>1 DEF Bookable
        <4> QED
          BY <1>0, <3>1, <4>1, AveragedWhole
      <3>2. CASE ~(h.quantity > 0)
        BY <1>0, <3>2, OpenedWhole
      <3> QED
        BY <3>1, <3>2
    <2>2. -(p * q) \in Int
      BY <1>0, ProductInt
    <2>3. BuyToOpen(l, o, p) \in Ledgers
      BY <1>0, <2>1, <2>2, PostedWhole DEF BuyToOpen
    <2>4. BookedInline(l, o, p, b) = Recalculated(BuyToOpen(l, o, p), b)
      BY <1>0, <1>2 DEF BookedInline
    <2> QED
      BY <2>3, <2>4, RecalculatedWhole
  <1>3. CASE o.side = "SELL" /\ h.quantity >= q
    <2>1. (IF h.quantity > q THEN Reduced(h, h.quantity - q, p)
           ELSE [h EXCEPT !.quantity = 0]) \in Rows
      <3>1. Reduced(h, h.quantity - q, p) \in Rows
        BY <1>0, ReducedWhole
      <3>2. [h EXCEPT !.quantity = 0] \in Rows
        BY <1>0 DEF Rows
      <3> QED
        BY <3>1, <3>2
    <2>2. p * q \in Int /\ (p - h.avg) * q \in Int
      BY <1>0, ProductInt
    <2>3. SellToClose(l, o, p) \in Ledgers
      BY <1>0, <2>1, <2>2, PostedWhole DEF SellToClose
    <2>4. BookedInline(l, o, p, b) = Recalculated(SellToClose(l, o, p), b)
      BY <1>0, <1>3 DEF BookedInline
    <2> QED
      BY <2>3, <2>4, RecalculatedWhole
  <1>4. CASE o.side = "SELL" /\ h.quantity < q
    <2>1. Opened(-q, p) \in Rows /\ -(Margin(o.product, p) * q) \in Int
      BY <1>0, OpenedWhole, MarginWhole, ProductInt
    <2>2. SellToOpen(l, o, p) \in Ledgers
      BY <1>0, <2>1, PostedWhole DEF SellToOpen
    <2>3. BookedInline(l, o, p, b) = Recalculated(SellToOpen(l, o, p), b)
      BY <1>0, <1>4 DEF BookedInline
    <2> QED
      BY <2>2, <2>3, RecalculatedWhole
  <1> QED
    BY <1>0, <1>1, <1>2, <1>3, <1>4

LEMMA HandledWhole ==
    ASSUME NEW l \in Ledgers, NEW o, o.symbol \in Symbols, o.quantity \in Nat \ {0}, NEW p \in Int
    PROVE  /\ o.side = "BUY" /\ ~DividesByZero(l, o) => HandleBuy(l, o, p) \in Ledgers
           /\ HandleSell(l, o, p) \in Ledgers
  <1> DEFINE h == l.rows[o.symbol]
             q == o.quantity
             n == Sold(l, o)
  <1>0. h \in Rows /\ h.quantity \in Int /\ h.avg \in Int /\ h.price \in Int /\ q \in Int
        /\ l.cash \in Int
    BY DEF Ledgers, Rows
  <1>1. ASSUME o.side = "BUY", ~DividesByZero(l, o) PROVE HandleBuy(l, o, p) \in Ledgers
    <2>1. (IF h.stored THEN Averaged(h, q, p) ELSE Opened(q, p)) \in Rows
      <3>1. CASE h.stored
        <4>1. h.quantity + q # 0
          BY <1>1, <3>1 DEF DividesByZero
        <4> QED
          BY <1>0, <3>1, <4>1, AveragedWhole
      <3>2. CASE ~h.stored
        BY <1>0, <3>2, OpenedWhole
      <3> QED
        BY <3>1, <3>2
    <2>2. -Smaller(p * q, l.cash) \in Int
      <3>1. p * q \in Int
        BY <1>0, ProductInt
      <3> QED
        BY <1>0, <3>1 DEF Smaller
    <2> QED
      BY <2>1, <2>2, PostedWhole DEF HandleBuy
  <1>2. n \in Int
    BY <1>0 DEF Sold, Smaller
  <1>3. Depleted(h, n, p) \in Rows
    <2>1. CASE h.quantity = n
      BY <2>1, NoHoldingWhole DEF Depleted
    <2>2. CASE h.quantity # n
      <3>1. Reduced(h, h.quantity - n, p) \in Rows
        BY <1>0, <1>2, ReducedWhole
      <3>2. [Reduced(h, h.quantity - n, p) EXCEPT !.price = h.price] \in Rows
        BY <1>0, <3>1 DEF Rows
      <3> QED
        BY <2>2, <3>2 DEF Depleted
    <2> QED
      BY <2>1, <2>2
  <1>4. p * n \in Int /\ (p - h.avg) * n \in Int
    BY <1>0, <1>2, ProductInt
  <1>5. HandleSell(l, o, p) \in Ledgers
    BY <1>3, <1>4, PostedWhole DEF HandleSell
  <1> QED
    BY <1>1, <1>5

LEMMA RecalculatedAtWhole ==
    ASSUME NEW l \in Ledgers, NEW quotes \in Seen, NEW b \in Int
    PROVE  RecalculatedAt(l, quotes, b) \in Ledgers
  <1> DEFINE At(s) == IF quotes[s] # 0 THEN quotes[s] ELSE l.rows[s].avg
             rows == [s \in Symbols |-> IF l.rows[s].stored /\ quotes[s] # 0
                                        THEN [l.rows[s] EXCEPT !.price = quotes[s]]
                                        ELSE l.rows[s]]
             f == [s \in Symbols |-> At(s) * rows[s].quantity]
             value == SumFunction(f)
  <1>1. rows \in Portfolios
    BY DEF Ledgers, Rows, Portfolios, Seen
  <1>2. f \in [Symbols -> Int]
    <2>1. ASSUME NEW s \in Symbols PROVE At(s) * rows[s].quantity \in Int
      <3>1. At(s) \in Int
        BY DEF Ledgers, Rows, Seen
      <3>2. rows[s].quantity \in Int
        BY <1>1 DEF Portfolios, Rows
      <3> QED
        BY <3>1, <3>2, ProductInt
    <2> QED
      BY <2>1
  <1> HIDE DEF rows, f
  <1>3. value \in Int /\ Cost(rows) \in Int /\ l.pnl \in Int
    BY <1>1, <1>2, ColumnWhole, TotalsWhole DEF Ledgers
  <1>4. b + l.pnl + value - Cost(rows) \in Int
    BY <1>3
  <1>5. Totalled(l, rows, Cost(rows), b + l.pnl + value - Cost(rows), Stored(rows)) \in Ledgers
    BY <1>1, <1>3, <1>4, TotalledWhole
  <1> QED
    BY <1>5 DEF RecalculatedAt, rows, f

LEMMA BookedByWorkerWhole ==
    ASSUME NEW l \in Ledgers, NEW o, o.symbol \in Symbols, o.side \in {"BUY", "SELL"},
           o.quantity \in Nat \ {0}, ~DividesByZero(l, o),
           NEW p \in Int, NEW quotes \in Seen, NEW b \in Int
    PROVE  BookedByWorker(l, o, p, quotes, b) \in Ledgers
  BY HandledWhole, RecalculatedAtWhole DEF BookedByWorker

LEMMA SummarisedWhole ==
    ASSUME NEW l \in Ledgers, NEW quotes \in Seen, NEW b \in Int
    PROVE  Summarised(l, quotes, b) \in Ledgers
  <1> DEFINE At(s) == IF quotes[s] # 0 THEN quotes[s] ELSE l.rows[s].avg
             rows  == [s \in Symbols |-> IF s \in Open(l.rows)
                                         THEN Reduced(l.rows[s], l.rows[s].quantity, At(s))
                                         ELSE l.rows[s]]
             f == [s \in Open(rows) |-> rows[s].value]
             g == [s \in Open(l.rows) |-> rows[s].value]
  <1>1. ASSUME NEW s \in Symbols PROVE rows[s] \in Rows
    <2>1. l.rows[s] \in Rows /\ l.rows[s].quantity \in Int /\ At(s) \in Int
      BY DEF Ledgers, Rows, Seen
    <2>2. Reduced(l.rows[s], l.rows[s].quantity, At(s)) \in Rows
      BY <2>1, ReducedWhole
    <2> QED
      BY <2>1, <2>2
  <1>2. rows \in Portfolios
    BY <1>1 DEF Portfolios
  <1> HIDE DEF rows
  <1>3. SumFunction(f) \in Int
    <2>1. IsFiniteSet(Open(rows)) /\ DOMAIN f = Open(rows)
      <3>1. IsFiniteSet(Symbols) /\ Open(rows) \subseteq Symbols
        BY LedgerAssumption DEF Open
      <3> QED
        BY <3>1, FS_Subset
    <2>2. \A s \in Open(rows) : f[s] \in Int
      BY <1>2 DEF Open, Portfolios, Rows
    <2> HIDE DEF f
    <2> QED
      BY <2>1, <2>2, SumInt DEF SumFunction
  <1>4. Cost(rows) \in Int /\ l.pnl \in Int
    BY <1>2, TotalsWhole DEF Ledgers
  <1> DEFINE v == SumFunction(f)
  <1>5. b + l.pnl + v - Cost(rows) \in Int
    <2> HIDE DEF v
    <2>1. v \in Int
      BY <1>3 DEF v
    <2> QED
      BY <1>4, <2>1
  <1>6. Totalled(l, rows, Cost(rows), b + l.pnl + v - Cost(rows), Open(rows)) \in Ledgers
    BY <1>2, <1>4, <1>5, TotalledWhole
  <1> QED
    BY <1>6 DEF Summarised, rows

LEMMA WrittenWhole ==
    ASSUME NEW now \in Ledgers, NEW was \in Ledgers, NEW is \in Ledgers
    PROVE  Written(now, was, is) \in Ledgers
  <1>1. ASSUME NEW s \in Symbols
        PROVE  WriteRow(now.rows[s], was.rows[s], is.rows[s]) \in Rows
    <2>1. now.rows[s] \in Rows /\ was.rows[s] \in Rows /\ is.rows[s] \in Rows
      BY DEF Ledgers
    <2> QED
      BY <2>1, NoHoldingWhole DEF WriteRow, Write, Rows
  <1>2. /\ Write(now.cash, was.cash, is.cash) \in Int
        /\ Write(now.invested, was.invested, is.invested) \in Int
        /\ Write(now.pnl, was.pnl, is.pnl) \in Int
    BY DEF Write, Ledgers
  <1> QED
    BY <1>1, <1>2 DEF Written, Ledgers

(***************************************************************************)
(* TypeOK, step by step                                                    *)
(***************************************************************************)
LEMMA ConstantsWhole ==
    /\ DefaultCapital \in Int /\ Amounts \subseteq Int
    /\ Quotes \cup {NoQuote} \subseteq Nat /\ Quotes \subseteq Int
  BY LedgerAssumption DEF NoQuote

LEMMA EmptyWhole == EmptyLedger \in Ledgers /\ Closed \in OpenSessions
  <1>1. EmptyLedger \in Ledgers
    BY ConstantsWhole, NoHoldingWhole DEF EmptyLedger, Ledgers
  <1> QED
    BY <1>1 DEF Closed, OpenSessions, Jobs

\* What a job is for, by its kind.
LEMMA JobFields ==
    ASSUME NEW j \in Jobs
    PROVE  /\ j.kind \in {"order", "fill"} => j.order \in Orders /\ j.price \in Quotes
           /\ j.kind \in {"addcapital", "setcapital"} => j.amount \in Amounts
  BY DEF Jobs

LEMMA SessionWhole ==
    ASSUME TypeOK, NEW x \in Sessions
    PROVE  /\ session[x] \in OpenSessions /\ session[x].job \in Jobs
           /\ session[x].read \in Ledgers /\ session[x].was \in Ledgers
           /\ session[x].base \in Int /\ session[x].earned \in Int
           /\ session[x].seen \subseteq Symbols /\ session[x].todo \subseteq Symbols
  BY DEF TypeOK, OpenSessions

LEMMA ViewWhole ==
    ASSUME TypeOK, NEW x \in Sessions
    PROVE  View(session[x]) \in Ledgers /\ OnlySeen(session[x]) \in Ledgers
  <1> DEFINE s == session[x]
             V == [y \in Symbols |-> IF y \in s.seen THEN s.read.rows[y] ELSE ledger.rows[y]]
             W == [y \in Symbols |-> IF y \in s.seen THEN s.read.rows[y] ELSE NoHolding]
  <1>1. s.read \in Ledgers /\ ledger \in Ledgers
    BY SessionWhole DEF TypeOK
  <1>2. V \in [Symbols -> Rows] /\ W \in [Symbols -> Rows]
    BY <1>1, NoHoldingWhole DEF Ledgers
  <1>3. View(s) = [s.read EXCEPT !.rows = V] /\ OnlySeen(s) = [s.read EXCEPT !.rows = W]
    BY DEF View, OnlySeen
  <1> HIDE DEF V, W
  <1> QED
    BY <1>1, <1>2, <1>3 DEF Ledgers

\* Whatever a step writes, if it is whole.
LEMMA StepWhole ==
    ASSUME TypeOK, NEW x \in Sessions, NEW s \in OpenSessions,
           session' = [session EXCEPT ![x] = s],
           ledger' \in Ledgers, base' \in Int, flow' \in Int, resting' \subseteq Orders,
           linked' \in BOOLEAN, covered' \in BOOLEAN, requests' \in 0..MaxRequests
    PROVE  TypeOK'
  <1>1. session' \in [Sessions -> OpenSessions]
    BY DEF TypeOK
  <1> QED
    BY <1>1 DEF TypeOK, OpenSessions, Jobs, Ledgers, Rows, Orders

LEMMA AbandonWhole == ASSUME TypeOK, NEW x \in Sessions, Abandon(x) PROVE TypeOK'
  BY EmptyWhole, StepWhole DEF Abandon, Close, TypeOK

LEMMA BeginWhole ==
    ASSUME TypeOK, NEW x \in Sessions, NEW what \in Jobs, Begin(x, what),
           resting' \subseteq Orders, UNCHANGED <<ledger, base, linked, flow, covered>>
    PROVE  TypeOK'
  <1>1. Opening(what, ledger, base) \in OpenSessions
    BY DEF Opening, OpenSessions, TypeOK
  <1>2. requests' \in 0..MaxRequests
    BY LedgerAssumption DEF Begin, TypeOK
  <1> QED
    BY <1>1, <1>2, StepWhole DEF Begin, TypeOK

LEMMA BeginsWhole ==
    ASSUME TypeOK, NEW x \in Sessions,
           BeginOrder(x) \/ BeginFill(x) \/ BeginOther(x) \/ BeginCapital(x)
    PROVE  TypeOK'
  <1>1. CASE BeginOrder(x)
    <2>1. PICK o \in Orders, p \in Quotes :
             Begin(x, [kind |-> "order", order |-> o, price |-> p])
      BY <1>1 DEF BeginOrder
    <2>2. [kind |-> "order", order |-> o, price |-> p] \in Jobs
      BY DEF Jobs
    <2> QED
      BY <1>1, <2>1, <2>2, BeginWhole DEF BeginOrder, TypeOK
  <1>2. CASE BeginFill(x)
    <2>1. PICK o \in resting, p \in Quotes :
             /\ Begin(x, [kind |-> "fill", order |-> o, price |-> p])
             /\ resting' = resting \ {o}
      BY <1>2 DEF BeginFill
    <2>2. o \in Orders /\ resting' \subseteq Orders
      BY <2>1 DEF TypeOK
    <2>3. [kind |-> "fill", order |-> o, price |-> p] \in Jobs
      BY <2>2 DEF Jobs
    <2> QED
      BY <1>2, <2>1, <2>2, <2>3, BeginWhole DEF BeginFill, TypeOK
  <1>3. CASE BeginOther(x)
    <2>1. PICK k \in {"closeall", "summary", "resetaccount", "resetcapital"} :
             Begin(x, [kind |-> k])
      BY <1>3 DEF BeginOther
    <2>2. [kind |-> k] \in Jobs
      BY DEF Jobs
    <2> QED
      BY <1>3, <2>1, <2>2, BeginWhole DEF BeginOther, TypeOK
  <1>4. CASE BeginCapital(x)
    <2>1. PICK k \in {"addcapital", "setcapital"}, a \in Amounts :
             Begin(x, [kind |-> k, amount |-> a])
      BY <1>4 DEF BeginCapital
    <2>2. [kind |-> k, amount |-> a] \in Jobs
      BY DEF Jobs
    <2> QED
      BY <1>4, <2>1, <2>2, BeginWhole DEF BeginCapital, TypeOK
  <1> QED
    BY <1>1, <1>2, <1>3, <1>4

LEMMA RememberWhole ==
    ASSUME TypeOK, NEW x \in Sessions,
           NEW seen \in SUBSET Symbols, NEW todo \in SUBSET Symbols
    PROVE  Remember(session[x], seen, todo) \in OpenSessions
  <1>1. [session[x].read EXCEPT !.rows = ledger.rows] \in Ledgers
    BY SessionWhole DEF TypeOK, Ledgers
  <1> QED
    BY <1>1, SessionWhole DEF Remember, OpenSessions

LEMMA ReadsWhole ==
    ASSUME TypeOK, NEW x \in Sessions,
           CheckOrder(x) \/ ReadHolding(x) \/ ReadPositions(x) \/ ReadSummary(x)
    PROVE  TypeOK'
  <1> DEFINE s == session[x]
  <1>1. CASE CheckOrder(x)
    <2> DEFINE seen == {s.job.order.symbol} \cap Stored(ledger.rows)
    <2>1. /\ UNCHANGED <<ledger, base, linked, requests, flow, covered>>
          /\ \/ session' = [session EXCEPT ![x] = Remember(s, seen, {})] /\ resting' = resting
             \/ Close(x) /\ resting' = resting \cup {s.job.order}
             \/ Close(x) /\ resting' = resting
          /\ s.job.kind = "order"
      BY <1>1 DEF CheckOrder
    <2>2. s.job.order \in Orders
      BY <2>1, SessionWhole, JobFields
    <2>3. resting' \subseteq Orders
      BY <2>1, <2>2 DEF TypeOK
    <2>4. seen \in SUBSET Symbols
      BY DEF Stored
    <2>5. Remember(s, seen, {}) \in OpenSessions
      BY <2>4, RememberWhole
    <2> HIDE DEF s, seen
    <2> QED
      BY <2>1, <2>3, <2>5, EmptyWhole, StepWhole DEF Close, TypeOK
  <1>2. CASE ReadHolding(x)
    <2> DEFINE seen == {s.job.order.symbol} \cap Stored(ledger.rows)
    <2>1. seen \in SUBSET Symbols
      BY DEF Stored
    <2>2. Remember(s, seen, {}) \in OpenSessions
      BY <2>1, RememberWhole
    <2> QED
      BY <1>2, <2>2, StepWhole DEF ReadHolding, TypeOK
  <1>3. CASE ReadPositions(x)
    <2> DEFINE open == Open(ledger.rows)
    <2>1. open \in SUBSET Symbols
      BY DEF Open
    <2>2. (IF open = {} THEN Closed ELSE Remember(s, open, open)) \in OpenSessions
      BY <2>1, RememberWhole, EmptyWhole
    <2> QED
      BY <1>3, <2>2, StepWhole DEF ReadPositions, TypeOK
  <1>4. CASE ReadSummary(x)
    <2>1. Open(ledger.rows) \in SUBSET Symbols
      BY DEF Open
    <2>2. Remember(s, Open(ledger.rows), {}) \in OpenSessions
      BY <2>1, RememberWhole
    <2> QED
      BY <1>4, <2>2, StepWhole DEF ReadSummary, TypeOK
  <1> QED
    BY <1>1, <1>2, <1>3, <1>4

LEMMA ProceedsWhole == ASSUME NEW side, NEW n \in Int, NEW p \in Int PROVE Proceeds(side, n, p) \in Int
  BY ProductInt DEF Proceeds

LEMMA BookInlineWhole ==
    ASSUME TypeOK, NEW x \in Sessions, BookInline(x)
    PROVE  TypeOK'
  <1> DEFINE s == session[x]
             o == s.job.order
             p == s.job.price
             is == BookedInline(View(s), o, p, base)
  <1>1. o \in Orders /\ p \in Quotes
    BY SessionWhole, JobFields DEF BookInline
  <1>2. /\ o.symbol \in Symbols /\ o.side \in {"BUY", "SELL"} /\ o.quantity \in Int
        /\ o.quantity > 0 /\ p \in Int
    BY <1>1, OrderFacts
  <1>3. CASE InlineFails(s)
    BY <1>3, AbandonWhole DEF BookInline
  <1>4. CASE ~InlineFails(s)
    <2>1. /\ ledger' = Written(ledger, View(s), is)
          /\ flow' = flow + Proceeds(o.side, o.quantity, p)
          /\ covered' = (covered \/ CoversShort(View(s), o))
          /\ session' = [session EXCEPT ![x] = Closed]
          /\ UNCHANGED <<base, resting, linked, requests>>
      BY <1>4 DEF BookInline, Commit, Close
    <2>2. View(s) \in Ledgers /\ Bookable(View(s), o)
      BY <1>2, ViewWhole DEF Bookable
    <2>3. is \in Ledgers
      BY <1>2, <2>2, BookedInlineWhole DEF TypeOK
    <2>4. ledger' \in Ledgers
      BY <2>1, <2>2, <2>3, WrittenWhole DEF TypeOK
    <2>5. flow' \in Int
      BY <1>2, <2>1, ProceedsWhole DEF TypeOK
    <2>6. covered' \in BOOLEAN
      BY <2>1, Zenon
    <2> QED
      BY <2>1, <2>4, <2>5, <2>6, EmptyWhole, StepWhole DEF TypeOK
  <1> QED
    BY <1>3, <1>4

LEMMA BookByWorkerWhole ==
    ASSUME TypeOK, NEW x \in Sessions, BookByWorker(x)
    PROVE  TypeOK'
  <1> DEFINE s == session[x]
             o == s.job.order
             p == s.job.price
  <1>1. o \in Orders /\ p \in Quotes
    BY SessionWhole, JobFields DEF BookByWorker
  <1>2. /\ o.symbol \in Symbols /\ o.side \in {"BUY", "SELL"} /\ o.quantity \in Nat \ {0}
        /\ p \in Int
    BY <1>1, OrderFacts
  <1>3. PICK quotes \in [Symbols -> Quotes \cup {NoQuote}] :
           IF WorkerFails(s, quotes) THEN Abandon(x)
           ELSE /\ ledger' = Written(ledger, View(s), WorkerBooks(s, quotes))
                /\ linked' = TRUE
                /\ flow' = flow + Proceeds(o.side, WorkerTraded(s), p)
                /\ session' = [session EXCEPT ![x] = Closed]
                /\ UNCHANGED <<base, resting, requests, covered>>
    BY DEF BookByWorker, Commit, Close
  <1>4. CASE WorkerFails(s, quotes)
    BY <1>3, <1>4, AbandonWhole
  <1>5. CASE ~WorkerFails(s, quotes)
    <2>1. View(s) \in Ledgers /\ quotes \in Seen /\ base \in Int /\ flow \in Int
      BY ViewWhole, QuotesSeen DEF TypeOK
    <2>2. ~DividesByZero(View(s), o)
      BY <1>5 DEF WorkerFails
    <2>3. WorkerBooks(s, quotes) \in Ledgers
      BY <1>2, <2>1, <2>2, BookedByWorkerWhole, RecalculatedAtWhole DEF WorkerBooks
    <2>4. ledger' \in Ledgers
      BY <1>3, <1>5, <2>1, <2>3, WrittenWhole DEF TypeOK
    <2>5. WorkerTraded(s) \in Int
      <3>1. View(s).rows[o.symbol].quantity \in Int
        BY <1>2, <2>1 DEF Ledgers, Rows
      <3>2. Sold(View(s), o) \in Int
        BY <1>2, <3>1 DEF Sold, Smaller
      <3> QED
        BY <1>2, <3>2 DEF WorkerTraded
    <2>6. flow' \in Int
      BY <1>2, <1>3, <1>5, <2>1, <2>5, ProceedsWhole
    <2> QED
      BY <1>3, <1>5, <2>4, <2>6, EmptyWhole, StepWhole DEF TypeOK
  <1> QED
    BY <1>4, <1>5

LEMMA CloseOneWhole ==
    ASSUME TypeOK, NEW x \in Sessions, CloseOne(x)
    PROVE  TypeOK'
  <1> DEFINE s == session[x]
             l == View(s)
  <1>1. PICK y \in s.todo, q \in Quotes \cup {NoQuote} :
           session' = [session EXCEPT ![x] =
              [stage |-> "closing", job |-> s.job,
               read |-> BookedInline(l, ClosingOrder(l, y), ClosePrice(l.rows[y], q), base),
               base |-> s.base, seen |-> Symbols,
               was |-> IF s.stage = "ready" THEN l ELSE s.was,
               todo |-> s.todo \ {y},
               earned |-> s.earned + Proceeds(ClosingOrder(l, y).side,
                                              ClosingOrder(l, y).quantity,
                                              ClosePrice(l.rows[y], q))]]
    BY DEF CloseOne
  <1> DEFINE o == ClosingOrder(l, y)
             p == ClosePrice(l.rows[y], q)
             earned == s.earned + Proceeds(o.side, o.quantity, p)
             is == BookedInline(l, o, p, base)
             was == IF s.stage = "ready" THEN l ELSE s.was
  <1>2. l \in Ledgers /\ y \in Symbols /\ base \in Int
    BY ViewWhole, SessionWhole DEF TypeOK
  <1>3. l.rows[y] \in Rows /\ l.rows[y].quantity \in Int
    BY <1>2 DEF Ledgers, Rows
  <1>4. p \in Int
    BY <1>3, ConstantsWhole DEF ClosePrice, Rows, NoQuote
  <1>5. Bookable(l, o) /\ o.quantity \in Int
    BY <1>2, <1>3 DEF Bookable, ClosingOrder
  <1>6. is \in Ledgers
    BY <1>2, <1>4, <1>5, BookedInlineWhole
  <1>7. earned \in Int
    BY <1>4, <1>5, ProceedsWhole, SessionWhole
  <1>8. was \in Ledgers
    BY <1>2, SessionWhole
  <1> DEFINE new == [stage |-> "closing", job |-> s.job, read |-> is, base |-> s.base,
                     seen |-> Symbols, was |-> was, todo |-> s.todo \ {y}, earned |-> earned]
  <1>9. session' = [session EXCEPT ![x] = new]
    BY <1>1
  <1>10. s.job \in Jobs /\ s.base \in Int /\ s.todo \subseteq Symbols
    BY SessionWhole
  <1>11. UNCHANGED <<ledger, base, resting, linked, requests, flow, covered>>
    BY DEF CloseOne
  <1> HIDE DEF s, l, o, p, earned, is, was
  <1>12. new \in OpenSessions
    BY <1>6, <1>7, <1>8, <1>10 DEF OpenSessions
  <1> HIDE DEF new
  <1> QED
    BY <1>9, <1>11, <1>12, StepWhole DEF TypeOK

LEMMA EndClosingWhole ==
    ASSUME TypeOK, NEW x \in Sessions, EndClosing(x)
    PROVE  TypeOK'
  <1> DEFINE s == session[x]
  <1>1. CASE Abandon(x)
    BY <1>1, AbandonWhole
  <1>2. CASE ~Abandon(x)
    <2>1. /\ ledger' = Written(ledger, s.was, s.read)
          /\ linked' = TRUE
          /\ flow' = flow + s.earned
          /\ covered' = (covered \/ \E y \in Symbols : s.was.rows[y].quantity < 0)
          /\ session' = [session EXCEPT ![x] = Closed]
          /\ UNCHANGED <<base, resting, requests>>
      BY <1>2 DEF EndClosing, Close
    <2>2. ledger' \in Ledgers /\ flow' \in Int
      BY <2>1, SessionWhole, WrittenWhole DEF TypeOK
    <2>3. covered' \in BOOLEAN
      BY <2>1, Zenon
    <2> QED
      BY <2>1, <2>2, <2>3, EmptyWhole, StepWhole DEF TypeOK
  <1> QED
    BY <1>1, <1>2

LEMMA WriteSummaryWhole ==
    ASSUME TypeOK, NEW x \in Sessions, WriteSummary(x)
    PROVE  TypeOK'
  <1> DEFINE s == session[x]
             l == OnlySeen(s)
  <1>1. CASE Abandon(x)
    BY <1>1, AbandonWhole
  <1>2. CASE ~Abandon(x)
    <2>1. PICK quotes \in [Symbols -> Quotes \cup {NoQuote}] :
             /\ ledger' = Written(ledger, l, Summarised(l, quotes, s.base))
             /\ session' = [session EXCEPT ![x] = Closed]
             /\ UNCHANGED <<base, resting, linked, requests, flow, covered>>
      BY <1>2 DEF WriteSummary, Close
    <2>2. l \in Ledgers /\ quotes \in Seen /\ s.base \in Int
      BY ViewWhole, SessionWhole, QuotesSeen
    <2>3. ledger' \in Ledgers
      BY <2>1, <2>2, SummarisedWhole, WrittenWhole DEF TypeOK
    <2> QED
      BY <2>1, <2>3, EmptyWhole, StepWhole DEF TypeOK
  <1> QED
    BY <1>1, <1>2

\* What a capital request makes of the portfolio and the capital it read.
ChangedLedger(s) ==
    CASE s.job.kind = "addcapital"   -> [s.read EXCEPT !.cash = s.read.cash + s.job.amount]
      [] s.job.kind = "setcapital"   -> [s.read EXCEPT !.cash = s.job.amount]
      [] s.job.kind = "resetcapital" -> [cash |-> DefaultCapital, invested |-> s.read.invested,
                                         pnl |-> 0, rows |-> s.read.rows]

ChangedBase(s) ==
    CASE s.job.kind = "addcapital"   -> s.base + s.job.amount
      [] s.job.kind = "setcapital"   -> s.job.amount
      [] s.job.kind = "resetcapital" -> DefaultCapital

LEMMA ChangeCapitalWhole ==
    ASSUME TypeOK, NEW x \in Sessions, ChangeCapital(x)
    PROVE  TypeOK'
  <1> DEFINE s == session[x]
  <1>1. /\ s.job.kind \in {"addcapital", "setcapital", "resetcapital"}
        /\ ledger' = Written(ledger, s.read, ChangedLedger(s))
        /\ base' = Write(base, s.base, ChangedBase(s))
        /\ IF s.job.kind = "resetcapital"
           THEN flow' = -Cost(ledger.rows) /\ covered' = FALSE
           ELSE UNCHANGED <<flow, covered>>
        /\ session' = [session EXCEPT ![x] = Closed]
        /\ UNCHANGED <<resting, linked, requests>>
    BY DEF ChangeCapital, Close, ChangedLedger, ChangedBase
  <1>2. s.read \in Ledgers /\ s.base \in Int /\ DefaultCapital \in Int
    BY SessionWhole, ConstantsWhole
  <1>3. s.job.kind \in {"addcapital", "setcapital"} => s.job.amount \in Int
    BY SessionWhole, JobFields, ConstantsWhole
  <1>4. ChangedLedger(s) \in Ledgers /\ ChangedBase(s) \in Int
    <2>1. CASE s.job.kind = "addcapital"
      <3>1. s.job.amount \in Int /\ s.read.cash \in Int
        BY <1>2, <1>3, <2>1 DEF Ledgers
      <3>2. s.read.cash + s.job.amount \in Int /\ s.base + s.job.amount \in Int
        BY <1>2, <3>1
      <3>3. /\ ChangedLedger(s) = [s.read EXCEPT !.cash = s.read.cash + s.job.amount]
            /\ ChangedBase(s) = s.base + s.job.amount
        BY <2>1 DEF ChangedLedger, ChangedBase
      <3> DEFINE c == s.read.cash + s.job.amount
      <3>4. [s.read EXCEPT !.cash = c] \in Ledgers
        <4>1. c \in Int
          BY <3>2
        <4> HIDE DEF c
        <4> QED
          BY <1>2, <4>1 DEF Ledgers
      <3> QED
        BY <3>2, <3>3, <3>4
    <2>2. CASE s.job.kind = "setcapital"
      <3>1. s.job.amount \in Int
        BY <1>3, <2>2
      <3>2. ChangedLedger(s) = [s.read EXCEPT !.cash = s.job.amount] /\ ChangedBase(s) = s.job.amount
        BY <2>2 DEF ChangedLedger, ChangedBase
      <3> QED
        BY <1>2, <3>1, <3>2 DEF Ledgers
    <2>3. CASE s.job.kind = "resetcapital"
      <3>1. /\ ChangedLedger(s) = [cash |-> DefaultCapital, invested |-> s.read.invested,
                                   pnl |-> 0, rows |-> s.read.rows]
            /\ ChangedBase(s) = DefaultCapital
        BY <2>3 DEF ChangedLedger, ChangedBase
      <3> QED
        BY <1>2, <3>1 DEF Ledgers
    <2> QED
      BY <1>1, <2>1, <2>2, <2>3
  <1>5. ledger' \in Ledgers
    BY <1>1, <1>2, <1>4, WrittenWhole DEF TypeOK
  <1>6. base' \in Int
    BY <1>1, <1>2, <1>4 DEF Write, TypeOK
  <1>7. flow' \in Int /\ covered' \in BOOLEAN
    <2>1. Cost(ledger.rows) \in Int
      BY TotalsWhole DEF TypeOK, Ledgers, Portfolios
    <2>2. flow' \in Int
      <3>1. flow \in Int /\ -Cost(ledger.rows) \in Int
        BY <2>1 DEF TypeOK
      <3> QED
        BY <1>1, <3>1
    <2>3. covered' \in BOOLEAN
      <3>1. CASE s.job.kind = "resetcapital"
        BY <1>1, <3>1
      <3>2. CASE s.job.kind # "resetcapital"
        <4>1. covered' = covered
          BY <1>1, <3>2
        <4>2. covered \in BOOLEAN
          BY DEF TypeOK
        <4> QED
          BY <4>1, <4>2, Zenon
      <3> QED
        BY <3>1, <3>2
    <2> QED
      BY <2>2, <2>3
  <1> QED
    BY <1>1, <1>5, <1>6, <1>7, EmptyWhole, StepWhole DEF TypeOK

LEMMA ResetAccountWhole ==
    ASSUME TypeOK, NEW x \in Sessions, ResetAccount(x)
    PROVE  TypeOK'
  <1> DEFINE s == session[x]
  <1>1. CASE Abandon(x)
    BY <1>1, AbandonWhole
  <1>2. CASE ~Abandon(x)
    <2>1. /\ ledger' = [cash     |-> Write(ledger.cash, s.read.cash, DefaultCapital),
                        invested |-> Write(ledger.invested, s.read.invested, 0),
                        pnl      |-> Write(ledger.pnl, s.read.pnl, 0),
                        rows     |-> EmptyLedger.rows]
          /\ base' = Write(base, s.base, DefaultCapital)
          /\ resting' = {} /\ flow' = 0 /\ covered' = FALSE
          /\ session' = [y \in Sessions |->
                           IF y = x \/ session[y].job.kind = "fill" THEN Closed ELSE session[y]]
          /\ UNCHANGED <<linked, requests>>
      BY <1>2 DEF ResetAccount
    <2>2. ledger \in Ledgers /\ s.read \in Ledgers /\ s.base \in Int /\ DefaultCapital \in Int
      BY SessionWhole, ConstantsWhole DEF TypeOK
    <2>3. /\ Write(ledger.cash, s.read.cash, DefaultCapital) \in Int
          /\ Write(ledger.invested, s.read.invested, 0) \in Int
          /\ Write(ledger.pnl, s.read.pnl, 0) \in Int
          /\ EmptyLedger.rows \in [Symbols -> Rows]
      BY <2>2, EmptyWhole DEF Write, Ledgers
    <2>4. ledger' \in Ledgers
      BY <2>1, <2>3 DEF Ledgers
    <2>5. base' \in Int
      BY <2>1, <2>2 DEF Write, TypeOK
    <2>6. session' \in [Sessions -> OpenSessions]
      BY <2>1, EmptyWhole DEF TypeOK
    <2>7. resting' \subseteq Orders /\ flow' \in Int
      BY <2>1
    <2>8. covered' \in BOOLEAN
      BY <2>1, Zenon
    <2>9. linked' \in BOOLEAN /\ requests' \in 0..MaxRequests
      BY <2>1 DEF TypeOK
    <2> QED
      BY <2>4, <2>5, <2>6, <2>7, <2>8, <2>9 DEF TypeOK
  <1> QED
    BY <1>1, <1>2

\* Every step keeps the types.
LEMMA TypedStep == ASSUME TypeOK, [Next]_vars PROVE TypeOK'
  <1>1. CASE UNCHANGED vars
    BY <1>1 DEF vars, TypeOK, OpenSessions, Jobs, Ledgers, Rows, Orders
  <1>2. ASSUME NEW x \in Sessions,
               BeginOrder(x) \/ BeginFill(x) \/ BeginOther(x) \/ BeginCapital(x)
        PROVE  TypeOK'
    BY <1>2, BeginsWhole
  <1>3. ASSUME NEW x \in Sessions,
               CheckOrder(x) \/ ReadHolding(x) \/ ReadPositions(x) \/ ReadSummary(x)
        PROVE  TypeOK'
    BY <1>3, ReadsWhole
  <1>4. ASSUME NEW x \in Sessions, BookInline(x) \/ BookByWorker(x) PROVE TypeOK'
    BY <1>4, BookInlineWhole, BookByWorkerWhole
  <1>5. ASSUME NEW x \in Sessions, CloseOne(x) \/ EndClosing(x) PROVE TypeOK'
    BY <1>5, CloseOneWhole, EndClosingWhole
  <1>6. ASSUME NEW x \in Sessions, WriteSummary(x) PROVE TypeOK'
    BY <1>6, WriteSummaryWhole
  <1>7. ASSUME NEW x \in Sessions, ChangeCapital(x) \/ ResetAccount(x) PROVE TypeOK'
    BY <1>7, ChangeCapitalWhole, ResetAccountWhole
  <1> QED
    BY <1>1, <1>2, <1>3, <1>4, <1>5, <1>6, <1>7 DEF Next

\* It all starts whole.
LEMMA StartsTyped == ASSUME Init PROVE TypeOK
  <1>1. requests = 0 => requests \in 0..MaxRequests
    BY LedgerAssumption
  <1>2. ledger \in Ledgers /\ base \in Int /\ flow \in Int /\ resting \subseteq Orders
    BY EmptyWhole, ConstantsWhole DEF Init
  <1>3. linked \in BOOLEAN /\ covered \in BOOLEAN /\ requests \in 0..MaxRequests
    BY <1>1 DEF Init
  <1>4. session \in [Sessions -> OpenSessions]
    BY EmptyWhole DEF Init
  <1> QED
    BY <1>2, <1>3, <1>4 DEF TypeOK

\* TypeOK: every amount of the portfolio, the holdings and the sessions stays a
\* whole number, whatever the sessions interleave.  No step averages over no
\* shares at all: of the two routines that book a fill one refuses it
\* (portfolio_worker.py, the division that raises), and the other never gets
\* there (trading_engine.py averages only with a long position).
THEOREM LedgerTyped == Spec => []TypeOK
  <1>1. Init => TypeOK
    BY StartsTyped
  <1>2. TypeOK /\ [Next]_vars => TypeOK'
    BY TypedStep
  <1> QED
    BY <1>1, <1>2, PTL DEF Spec

(***************************************************************************)
(* The kill switch and the auto square-off, when nothing else writes       *)
(***************************************************************************)

\* A session that closes positions has still to close whatever is open in what
\* it would leave behind, and the database is still as it found it.
Flattening(s) ==
    /\ (s.stage = "ready" /\ s.job.kind = "closeall") =>
           s.read.rows = ledger.rows /\ Open(ledger.rows) \subseteq s.todo
    /\ s.stage = "closing" =>
           /\ s.was.rows = ledger.rows /\ s.seen = Symbols
           /\ Open(s.read.rows) \subseteq s.todo

FlatInv == DeliveryInv /\ \A x \in Sessions : Flattening(session[x])

\* An order for the whole of a long position leaves none of it.
LEMMA ClosedRow ==
    ASSUME NEW l, l.rows \in Portfolios, NEW y \in Symbols, l.rows[y].quantity >= 0,
           NEW p, NEW b
    PROVE  Open(BookedInline(l, ClosingOrder(l, y), p, b).rows) \subseteq Open(l.rows) \ {y}
  <1> DEFINE o == ClosingOrder(l, y)
             h == l.rows[y]
             q == h.quantity
  <1>1. l.rows \in Portfolios /\ h \in Rows /\ q \in Nat
    BY DEF Portfolios, Rows
  <1>2. o.symbol = y /\ o.quantity = q /\ o.side = (IF q > 0 THEN "SELL" ELSE "BUY")
    BY <1>1 DEF ClosingOrder
  <1>3. PICK g : g.quantity = 0 /\ BookedInline(l, o, p, b).rows = [l.rows EXCEPT ![y] = g]
    <2>1. CASE q > 0
      <3>1. BookedInline(l, o, p, b) = Recalculated(SellToClose(l, o, p), b)
        BY <1>1, <1>2, <2>1 DEF BookedInline
      <3>2. SellToClose(l, o, p).rows = [l.rows EXCEPT ![y] = [h EXCEPT !.quantity = 0]]
        BY <1>1, <1>2 DEF SellToClose, Posted
      <3>3. [h EXCEPT !.quantity = 0].quantity = 0
        BY <1>1 DEF Rows
      <3>4. BookedInline(l, o, p, b).rows = SellToClose(l, o, p).rows
        BY <3>1 DEF Recalculated, Totalled
      <3> HIDE DEF o, h, q
      <3> QED
        BY <3>2, <3>3, <3>4
    <2>2. CASE ~(q > 0)
      <3>1. q = 0
        BY <1>1, <2>2
      <3>2. BookedInline(l, o, p, b) = Recalculated(BuyToOpen(l, o, p), b)
        BY <1>1, <1>2, <3>1 DEF BookedInline
      <3>3. BuyToOpen(l, o, p).rows = [l.rows EXCEPT ![y] = Opened(0, p)]
        BY <1>1, <1>2, <3>1 DEF BuyToOpen, Posted
      <3>4. Opened(0, p).quantity = 0
        BY DEF Opened
      <3>5. BookedInline(l, o, p, b).rows = BuyToOpen(l, o, p).rows
        BY <3>2 DEF Recalculated, Totalled
      <3> HIDE DEF o, h, q
      <3> QED
        BY <3>3, <3>4, <3>5
    <2> QED
      BY <2>1, <2>2
  <1> DEFINE rows == BookedInline(l, o, p, b).rows
  <1>4. \A z \in Symbols : z = y => rows[z].quantity = 0
    BY <1>1, <1>3 DEF Portfolios
  <1>5. \A z \in Symbols : z # y => rows[z] = l.rows[z]
    BY <1>1, <1>3 DEF Portfolios
  <1> HIDE DEF rows
  <1>6. Open(rows) \subseteq Open(l.rows) \ {y}
    BY <1>4, <1>5 DEF Open
  <1> QED
    BY <1>6 DEF rows

\* Closing one position leaves the others to be closed.
LEMMA CloseOneFlattens ==
    ASSUME NEW x \in Sessions, FlatInv, CloseOne(x)
    PROVE  Flattening(session[x])' /\ ledger' = ledger
  <1> DEFINE s == session[x]
             l == View(s)
  <1>1. /\ Long(ledger) /\ SessionLong(s) /\ Flattening(s)
        /\ s.job.kind = "closeall" /\ s.stage \in {"ready", "closing"}
        /\ ledger' = ledger
    BY DEF DeliveryInv, CloseOne, FlatInv
  <1>2. PICK y \in s.todo, q \in Quotes \cup {NoQuote} :
           session' = [session EXCEPT ![x] =
              [stage |-> "closing", job |-> s.job,
               read |-> BookedInline(l, ClosingOrder(l, y), ClosePrice(l.rows[y], q), base),
               base |-> s.base, seen |-> Symbols,
               was |-> IF s.stage = "ready" THEN l ELSE s.was,
               todo |-> s.todo \ {y},
               earned |-> s.earned + Proceeds(ClosingOrder(l, y).side,
                                              ClosingOrder(l, y).quantity,
                                              ClosePrice(l.rows[y], q))]]
    BY DEF CloseOne
  <1> DEFINE p == ClosePrice(l.rows[y], q)
  <1>3. Long(l) /\ y \in Symbols /\ \A z \in s.seen : l.rows[z] = s.read.rows[z]
    BY <1>1, ViewLong DEF SessionLong
  <1>4. /\ l.rows \in LongRows /\ ledger.rows \in LongRows /\ s.read.rows \in LongRows
    BY <1>1, <1>3 DEF Long, SessionLong
  <1>5. s.stage = "ready" => l.rows = ledger.rows
    <2> SUFFICES ASSUME s.stage = "ready" PROVE l.rows = ledger.rows
      OBVIOUS
    <2>1. s.read.rows = ledger.rows
      BY <1>1 DEF Flattening
    <2>2. l.rows = [z \in Symbols |-> IF z \in s.seen THEN s.read.rows[z] ELSE ledger.rows[z]]
      BY <1>1 DEF View, SessionLong, Long
    <2> HIDE DEF l
    <2> QED
      BY <1>4, <2>1, <2>2 DEF LongRows
  <1>6. s.stage = "closing" => l.rows = s.read.rows
    <2> SUFFICES ASSUME s.stage = "closing" PROVE l.rows = s.read.rows
      OBVIOUS
    <2>1. \A z \in Symbols : l.rows[z] = s.read.rows[z]
      BY <1>1, <1>3 DEF Flattening
    <2> HIDE DEF l
    <2> QED
      BY <1>4, <2>1 DEF LongRows
  <1>7. Open(l.rows) \subseteq s.todo
    BY <1>1, <1>5, <1>6 DEF Flattening
  <1>8. Open(BookedInline(l, ClosingOrder(l, y), p, base).rows) \subseteq s.todo \ {y}
    <2>1. l.rows \in Portfolios /\ l.rows[y].quantity >= 0
      BY <1>3, <1>4 DEF LongRows, Shelf, Portfolios, Rows
    <2> QED
      BY <1>3, <1>7, <2>1, ClosedRow
  <1>9. (IF s.stage = "ready" THEN l ELSE s.was).rows = ledger.rows
    BY <1>1, <1>5 DEF Flattening
  <1> DEFINE is == BookedInline(l, ClosingOrder(l, y), p, base)
             was == IF s.stage = "ready" THEN l ELSE s.was
             e == s.earned + Proceeds(ClosingOrder(l, y).side, ClosingOrder(l, y).quantity, p)
             n == [stage |-> "closing", job |-> s.job, read |-> is, base |-> s.base,
                   seen |-> Symbols, was |-> was, todo |-> s.todo \ {y}, earned |-> e]
  <1>10. session'[x] = n
    BY <1>2 DEF FlatInv, DeliveryInv
  <1>11. /\ n.stage = "closing" /\ n.was.rows = ledger.rows /\ n.seen = Symbols
         /\ Open(n.read.rows) \subseteq n.todo
    BY <1>8, <1>9
  <1> HIDE DEF n
  <1> QED
    BY <1>1, <1>10, <1>11 DEF Flattening

\* When all is closed, the session writes that nothing is open.
LEMMA EndClosingFlattens ==
    ASSUME NEW x \in Sessions, FlatInv, EndClosing(x)
    PROVE  Open(ledger'.rows) = {} /\ session' = [session EXCEPT ![x] = Closed]
  <1> DEFINE s == session[x]
  <1>1. /\ Long(ledger) /\ SessionLong(s)
        /\ s.was.rows = ledger.rows /\ Open(s.read.rows) = {}
    BY DEF DeliveryInv, EndClosing, FlatInv, Flattening
  <1>2. ~WriteFails(ledger, s.was, s.read)
    BY <1>1 DEF WriteFails
  <1>3. ledger' = Written(ledger, s.was, s.read) /\ session' = [session EXCEPT ![x] = Closed]
    BY <1>2 DEF EndClosing, Close
  <1>4. ASSUME NEW y \in Symbols
        PROVE  WriteRow(ledger.rows[y], s.was.rows[y], s.read.rows[y]).quantity = 0
    <2>1. s.read.rows[y].quantity = 0
      BY <1>1 DEF Open
    <2>2. ledger.rows[y].quantity = s.was.rows[y].quantity
      BY <1>1
    <2> QED
      BY <2>1, <2>2 DEF WriteRow, Write, NoHolding
  <1> QED
    BY <1>3, <1>4 DEF Written, Open

\* A session that ends, begins or reads for something else closes nothing.
LEMMA OtherwiseFlat ==
    ASSUME NEW x \in Sessions, FlatInv,
           \/ BeginOrder(x) \/ BeginFill(x) \/ BeginOther(x) \/ BeginCapital(x)
           \/ CheckOrder(x) \/ BookInline(x)
           \/ ReadHolding(x) \/ BookByWorker(x)
           \/ ReadSummary(x) \/ WriteSummary(x)
           \/ ChangeCapital(x) \/ ResetAccount(x)
    PROVE  session[x].stage # "closing" /\ Flattening(session[x])'
  <1>0. session = [y \in Sessions |-> session[y]]
    BY DEF FlatInv, DeliveryInv
  <1>1. CASE BeginOrder(x) \/ BeginFill(x) \/ BeginOther(x) \/ BeginCapital(x)
    <2>1. PICK what : Begin(x, what)
      BY <1>1 DEF BeginOrder, BeginFill, BeginOther, BeginCapital
    <2>2. session'[x].stage = "begun" /\ session[x].stage = "closed"
      BY <1>0, <2>1 DEF Begin, Opening, Closed
    <2> QED
      BY <2>2 DEF Flattening
  <1>2. CASE CheckOrder(x) \/ ReadHolding(x) \/ ReadSummary(x)
    <2>1. /\ session[x].stage = "begun" /\ session[x].job.kind # "closeall"
          /\ \/ session'[x] = Closed
             \/ \E seen : session'[x] = Remember(session[x], seen, {})
      BY <1>0, <1>2 DEF CheckOrder, ReadHolding, ReadSummary, Close
    <2>2. \/ session'[x].stage = "closed"
          \/ session'[x].stage = "ready" /\ session'[x].job.kind # "closeall"
      <3>1. \A s, seen : /\ Remember(s, seen, {}).stage = "ready"
                         /\ Remember(s, seen, {}).job = s.job
        BY DEF Remember
      <3>2. Closed.stage = "closed"
        BY DEF Closed
      <3> QED
        BY <2>1, <3>1, <3>2, Zenon
    <2> QED
      BY <2>1, <2>2 DEF Flattening
  <1>3. CASE BookInline(x) \/ BookByWorker(x) \/ WriteSummary(x) \/ ChangeCapital(x)
             \/ ResetAccount(x)
    <2>1. session[x].stage \in {"ready", "begun"} /\ session'[x] = Closed
      BY <1>0, <1>3 DEF BookInline, BookByWorker, WriteSummary, ChangeCapital, ResetAccount,
                        Abandon, Close
    <2> QED
      BY <2>1 DEF Flattening, Closed
  <1> QED
    BY <1>1, <1>2, <1>3

\* With delivery orders only and nothing else at work on the account, the kill
\* switch and the auto square-off leave no position open, however many there
\* were, at whatever prices, and whether or not there is a quote for them.  Of
\* shorts this is false (run ledger_squareoff), and a purchase of another symbol
\* between the reading of the positions and the first booking stays open.
THEOREM DeliveryFlattens ==
    ASSUME Products \subseteq {"CNC"}, NEW s0, Sessions = {s0}
    PROVE  Spec => CloseAllFlattens
  <1>1. Init => FlatInv
    BY StartLong DEF Init, FlatInv, DeliveryInv, Flattening, Closed
  <1>2. FlatInv /\ [Next]_vars =>
            /\ FlatInv'
            /\ (session[s0].stage = "closing" /\ session'[s0].stage = "closed") =>
                   Open(ledger'.rows) = {}
    <2> SUFFICES ASSUME FlatInv, [Next]_vars
                 PROVE  /\ Flattening(session[s0])'
                        /\ (session[s0].stage = "closing" /\ session'[s0].stage = "closed") =>
                               Open(ledger'.rows) = {}
      BY DeliveryStep DEF FlatInv
    <2>0. s0 \in Sessions /\ session = [y \in Sessions |-> session[y]]
          /\ Flattening(session[s0])
      BY DEF FlatInv, DeliveryInv
    <2>1. CASE UNCHANGED vars
      BY <2>0, <2>1 DEF vars, Flattening
    <2>2. CASE ReadPositions(s0)
      <3>1. session[s0].stage = "begun"
        BY <2>2 DEF ReadPositions
      <3>2. /\ ledger' = ledger
            /\ \/ session'[s0] = Closed
               \/ session'[s0] = Remember(session[s0], Open(ledger.rows), Open(ledger.rows))
        BY <2>0, <2>2 DEF ReadPositions
      <3>3. [session[s0].read EXCEPT !.rows = ledger.rows].rows = ledger.rows
        BY <2>0 DEF FlatInv, DeliveryInv, SessionLong, Long
      <3>4. CASE session'[s0] = Closed
        BY <3>1, <3>4 DEF Closed, Flattening
      <3>5. CASE session'[s0] = Remember(session[s0], Open(ledger.rows), Open(ledger.rows))
        <4>1. /\ session'[s0].stage = "ready" /\ session'[s0].todo = Open(ledger.rows)
              /\ session'[s0].read = [session[s0].read EXCEPT !.rows = ledger.rows]
          BY <3>5 DEF Remember
        <4>2. session'[s0].read.rows = ledger.rows
          BY <3>3, <4>1
        <4> QED
          BY <3>1, <3>2, <4>1, <4>2 DEF Flattening
      <3> QED
        BY <3>2, <3>4, <3>5
    <2>3. CASE CloseOne(s0)
      <3>1. session'[s0].stage = "closing"
        BY <2>0, <2>3 DEF CloseOne
      <3> QED
        BY <2>0, <2>3, <3>1, CloseOneFlattens
    <2>4. CASE EndClosing(s0)
      <3>1. session'[s0] = Closed /\ Open(ledger'.rows) = {}
        BY <2>0, <2>4, EndClosingFlattens
      <3> QED
        BY <3>1 DEF Flattening, Closed
    <2>5. CASE ~ReadPositions(s0) /\ ~CloseOne(s0) /\ ~EndClosing(s0) /\ Next
      <3>1. \/ BeginOrder(s0) \/ BeginFill(s0) \/ BeginOther(s0) \/ BeginCapital(s0)
            \/ CheckOrder(s0) \/ BookInline(s0)
            \/ ReadHolding(s0) \/ BookByWorker(s0)
            \/ ReadSummary(s0) \/ WriteSummary(s0)
            \/ ChangeCapital(s0) \/ ResetAccount(s0)
        BY <2>5 DEF Next
      <3> QED
        BY <2>0, <3>1, OtherwiseFlat
    <2> QED
      BY <2>1, <2>2, <2>3, <2>4, <2>5
  <1>3. FlatInv /\ [Next]_vars =>
            [\A x \in Sessions :
                (session[x].stage = "closing" /\ session'[x].stage = "closed") =>
                    Open(ledger'.rows) = {}]_vars
    BY <1>2
  <1> QED
    BY <1>1, <1>2, <1>3, PTL DEF Spec, CloseAllFlattens

(***************************************************************************)
(* The realised profit is what the trades brought.  An average that had to *)
(* be rounded loses or makes a few paise, so this is claimed where it did  *)
(* not: where a row that holds shares says it cost quantity times average. *)
(***************************************************************************)
AveragesExact ==
    \A y \in Symbols : ledger.rows[y].quantity # 0 =>
        ledger.rows[y].invested = ledger.rows[y].avg * ledger.rows[y].quantity

Worth(h) == h.avg * h.quantity

\* A row that is not there holds nothing.
Emptied(rows) == \A y \in Symbols : ~rows[y].stored => rows[y].quantity = 0

LEMMA WorthWhole == ASSUME NEW h \in Rows PROVE Worth(h) \in Int
  BY ProductInt DEF Worth, Rows

LEMMA CostIsWorth ==
    ASSUME NEW rows \in Portfolios
    PROVE  Cost(rows) = SumFunctionOnSet([y \in Symbols |-> Worth(rows[y])], Symbols)
  BY DEF Cost, Worth, SumFunction

\* The same holdings cost the same.
LEMMA CostSame ==
    ASSUME NEW rows \in Portfolios, NEW others \in Portfolios,
           \A y \in Symbols : Worth(others[y]) = Worth(rows[y])
    PROVE  Cost(others) = Cost(rows)
  <1> DEFINE f == [y \in Symbols |-> Worth(rows[y])]
             g == [y \in Symbols |-> Worth(others[y])]
  <1>1. \A y \in Symbols : f[y] \in Int /\ g[y] = f[y]
    BY WorthWhole DEF Portfolios
  <1> HIDE DEF f, g
  <1>2. SumFunctionOnSet(g, Symbols) = SumFunctionOnSet(f, Symbols)
    BY <1>1, SumAgrees, LedgerAssumption
  <1> QED
    BY <1>2, CostIsWorth DEF f, g

\* One other holding changes the cost by the difference.
LEMMA CostChanged ==
    ASSUME NEW rows \in Portfolios, NEW y \in Symbols, NEW h \in Rows
    PROVE  /\ [rows EXCEPT ![y] = h] \in Portfolios
           /\ Cost([rows EXCEPT ![y] = h]) = Cost(rows) - Worth(rows[y]) + Worth(h)
  <1> DEFINE others == [rows EXCEPT ![y] = h]
             f == [z \in Symbols |-> Worth(rows[z])]
             g == [z \in Symbols |-> Worth(others[z])]
  <1>1. others \in Portfolios /\ others[y] = h /\ \A z \in Symbols \ {y} : others[z] = rows[z]
    BY DEF Portfolios
  <1> HIDE DEF others
  <1>2. \A z \in Symbols : f[z] \in Int
    BY WorthWhole DEF Portfolios
  <1>3. g[y] = Worth(h) /\ g[y] \in Int /\ f[y] = Worth(rows[y])
    BY <1>1, WorthWhole
  <1>4. \A z \in Symbols \ {y} : g[z] = f[z]
    BY <1>1
  <1> HIDE DEF f, g
  <1>5. SumFunctionOnSet(g, Symbols) = SumFunctionOnSet(f, Symbols) - f[y] + g[y]
    BY <1>2, <1>3, <1>4, SumChange, LedgerAssumption
  <1>6. Cost(others) = Cost(rows) - Worth(rows[y]) + Worth(h)
    BY <1>1, <1>3, <1>5, CostIsWorth DEF f, g
  <1> QED
    BY <1>1, <1>6 DEF others

\* Ledger is has been traded from l: one sale or purchase brought earned.
Traded(l, is, y, earned) ==
    /\ is \in Ledgers
    /\ is.pnl - Cost(is.rows) = l.pnl - Cost(l.rows) + earned
    /\ \A z \in Symbols \ {y} : is.rows[z].stored = l.rows[z].stored
                                /\ is.rows[z].quantity = l.rows[z].quantity
    /\ is.rows[y].stored \/ is.rows[y].quantity = 0

\* One row is replaced, and the profit is what its worth and the trade leave.
LEMMA OneRowTraded ==
    ASSUME NEW l \in Ledgers, NEW is \in Ledgers, NEW y \in Symbols, NEW h \in Rows,
           NEW gain \in Int, NEW earned \in Int,
           is.pnl = l.pnl + gain, is.rows = [l.rows EXCEPT ![y] = h],
           gain - Worth(h) = earned - Worth(l.rows[y]),
           h.stored \/ h.quantity = 0
    PROVE  Traded(l, is, y, earned)
  <1>1. l.rows \in Portfolios /\ l.pnl \in Int
    BY DEF Ledgers, Portfolios
  <1>2. Cost(is.rows) = Cost(l.rows) - Worth(l.rows[y]) + Worth(h)
    BY <1>1, CostChanged
  <1>3. Cost(l.rows) \in Int /\ Worth(l.rows[y]) \in Int /\ Worth(h) \in Int
    BY <1>1, TotalsWhole, WorthWhole DEF Portfolios
  <1>4. is.pnl - Cost(is.rows) = l.pnl - Cost(l.rows) + earned
    BY <1>1, <1>2, <1>3
  <1> QED
    BY <1>1, <1>4 DEF Traded, Portfolios

\* A fill on arrival brings what the trade brings, unless it buys back exactly
\* what is short.  A purchase that averages is taken where the average is exact.
LEMMA InlineTrades ==
    ASSUME NEW l \in Ledgers, NEW o, Bookable(l, o), o.quantity \in Nat, NEW p \in Int, NEW b \in Int,
           l.rows[o.symbol].stored \/ l.rows[o.symbol].quantity = 0,
           ~InsertsTwice(l, o), ~CoversShort(l, o),
           LET g == BookedInline(l, o, p, b).rows[o.symbol]
           IN  o.side = "BUY" /\ l.rows[o.symbol].quantity > 0 => g.invested = Worth(g)
    PROVE  Traded(l, BookedInline(l, o, p, b), o.symbol, Proceeds(o.side, o.quantity, p))
  <1> DEFINE y  == o.symbol
             h  == l.rows[y]
             n  == o.quantity
             is == BookedInline(l, o, p, b)
             earned == Proceeds(o.side, n, p)
  <1>0. /\ h \in Rows /\ h.quantity \in Int /\ h.avg \in Int /\ n \in Nat /\ y \in Symbols
        /\ o.side \in {"BUY", "SELL"} /\ n * p \in Int /\ l.pnl \in Int
    BY ProductInt DEF Ledgers, Bookable, Rows
  <1>1. is \in Ledgers /\ earned \in Int
    BY <1>0, BookedInlineWhole, ProceedsWhole
  <1>2. CASE o.side = "BUY" /\ h.quantity < 0
    <2> DEFINE gain == (h.avg - p) * n
               g == Reduced(h, h.quantity + n, p)
    <2>1. h.stored /\ h.quantity + n < 0
      BY <1>0, <1>2 DEF InsertsTwice, CoversShort
    <2>2. g \in Rows /\ g.stored /\ gain \in Int
      <3>1. g \in Rows
        BY <1>0, ReducedWhole
      <3>2. g.stored
        BY <2>1 DEF Reduced
      <3>3. gain \in Int
        BY <1>0, ProductInt
      <3> QED
        BY <3>1, <3>2, <3>3
    <2>3. is = Recalculated(BuyToCover(l, o, p), b)
      BY <1>0, <1>2 DEF BookedInline
    <2>4. is.pnl = l.pnl + gain /\ is.rows = [l.rows EXCEPT ![y] = g]
      BY <1>0, <2>1, <2>3 DEF Recalculated, Totalled, BuyToCover, Posted
    <2>5. gain - Worth(g) = earned - Worth(h)
      <3>1. Worth(g) = h.avg * (h.quantity + n) /\ earned = -(n * p)
        BY <1>2 DEF Worth, Reduced, Proceeds
      <3>2. \A a, i, j, k \in Int : (a - k) * j - a * (i + j) = -(j * k) - a * i
        OBVIOUS
      <3> QED
        BY <1>0, <3>1, <3>2 DEF Worth
    <2> HIDE DEF g, gain, is, earned, h, n, y
    <2> QED
      BY <1>0, <1>1, <2>2, <2>4, <2>5, OneRowTraded DEF h, is, earned, n, y
  <1>3. CASE o.side = "BUY" /\ h.quantity = 0
    <2> DEFINE g == Opened(n, p)
    <2>1. g \in Rows /\ g.stored
      BY <1>0, OpenedWhole DEF Opened
    <2>2. is = Recalculated(BuyToOpen(l, o, p), b)
      BY <1>0, <1>3 DEF BookedInline
    <2>3. is.pnl = l.pnl + 0 /\ is.rows = [l.rows EXCEPT ![y] = g]
      BY <1>0, <1>3, <2>2 DEF Recalculated, Totalled, BuyToOpen, Posted
    <2>4. 0 - Worth(g) = earned - Worth(h)
      <3>1. Worth(g) = p * n /\ earned = -(n * p) /\ Worth(h) = h.avg * 0
        BY <1>3 DEF Worth, Opened, Proceeds
      <3>2. \A a, j, k \in Int : 0 - k * j = -(j * k) - a * 0
        OBVIOUS
      <3> QED
        BY <1>0, <3>1, <3>2
    <2> HIDE DEF g, is, earned, h, n, y
    <2> QED
      BY <1>0, <1>1, <2>1, <2>3, <2>4, OneRowTraded DEF h, is, earned, n, y
  <1>4. CASE o.side = "BUY" /\ h.quantity > 0
    <2> DEFINE g == Averaged(h, n, p)
    <2>1. h.stored /\ h.quantity + n # 0
      BY <1>0, <1>4
    <2>2. g \in Rows /\ g.stored
      <3>1. g \in Rows
        BY <1>0, <2>1, AveragedWhole
      <3>2. g.stored
        BY <2>1 DEF Averaged
      <3> QED
        BY <3>1, <3>2
    <2>3. is = Recalculated(BuyToOpen(l, o, p), b)
      BY <1>0, <1>4 DEF BookedInline
    <2>4. is.pnl = l.pnl + 0 /\ is.rows = [l.rows EXCEPT ![y] = g]
      BY <1>0, <1>4, <2>3 DEF Recalculated, Totalled, BuyToOpen, Posted
    <2>5. 0 - Worth(g) = earned - Worth(h)
      <3>1. is.rows[y] = g
        BY <1>0, <2>4 DEF Ledgers
      <3>2. g.invested = Worth(g)
        BY <1>4, <3>1
      <3>3. g.invested = Worth(h) + p * n /\ earned = -(n * p)
        BY <1>4 DEF Worth, Averaged, Proceeds
      <3>4. Worth(h) \in Int /\ p * n = n * p
        BY <1>0, WorthWhole
      <3> HIDE DEF g, h, earned
      <3> QED
        BY <1>0, <3>2, <3>3, <3>4
    <2> HIDE DEF g, is, earned, h, n, y
    <2> QED
      BY <1>0, <1>1, <2>2, <2>4, <2>5, OneRowTraded DEF h, is, earned, n, y
  <1>5. CASE o.side = "SELL" /\ h.quantity >= n
    <2> DEFINE gain == (p - h.avg) * n
               g == IF h.quantity > n THEN Reduced(h, h.quantity - n, p)
                                      ELSE [h EXCEPT !.quantity = 0]
    <2>1. g \in Rows /\ gain \in Int
      <3>1. Reduced(h, h.quantity - n, p) \in Rows
        BY <1>0, ReducedWhole
      <3>2. [h EXCEPT !.quantity = 0] \in Rows
        BY <1>0 DEF Rows
      <3> QED
        BY <1>0, <3>1, <3>2, ProductInt
    <2>2. g.stored \/ g.quantity = 0
      BY <1>0 DEF Reduced, Rows
    <2>3. is = Recalculated(SellToClose(l, o, p), b)
      BY <1>0, <1>5 DEF BookedInline
    <2>4. is.pnl = l.pnl + gain /\ is.rows = [l.rows EXCEPT ![y] = g]
      BY <1>0, <2>3 DEF Recalculated, Totalled, SellToClose, Posted
    <2>5. gain - Worth(g) = earned - Worth(h)
      <3>1. Worth(g) = h.avg * (h.quantity - n)
        <4>1. CASE h.quantity > n
          BY <4>1 DEF Worth, Reduced
        <4>2. CASE ~(h.quantity > n)
          <5>1. h.quantity - n = 0
            BY <1>0, <1>5, <4>2
          <5>2. Worth(g) = h.avg * 0
            BY <1>0, <4>2 DEF Worth, Rows
          <5> QED
            BY <5>1, <5>2
        <4> QED
          BY <4>1, <4>2
      <3>2. earned = n * p
        BY <1>5 DEF Proceeds
      <3>3. \A a, i, j, k \in Int : (k - a) * j - a * (i - j) = j * k - a * i
        OBVIOUS
      <3> HIDE DEF g
      <3> QED
        BY <1>0, <3>1, <3>2, <3>3 DEF Worth
    <2> HIDE DEF g, gain, is, earned, h, n, y
    <2> QED
      BY <1>0, <1>1, <2>1, <2>2, <2>4, <2>5, OneRowTraded DEF h, is, earned, n, y
  <1>6. CASE o.side = "SELL" /\ h.quantity < n
    <2> DEFINE g == Opened(-n, p)
    <2>1. h.quantity = 0
      BY <1>0, <1>6 DEF InsertsTwice
    <2>2. g \in Rows /\ g.stored
      BY <1>0, OpenedWhole DEF Opened
    <2>3. is = Recalculated(SellToOpen(l, o, p), b)
      BY <1>0, <1>6 DEF BookedInline
    <2>4. is.pnl = l.pnl + 0 /\ is.rows = [l.rows EXCEPT ![y] = g]
      BY <1>0, <2>3 DEF Recalculated, Totalled, SellToOpen, Posted
    <2>5. 0 - Worth(g) = earned - Worth(h)
      <3>1. Worth(g) = p * (-n) /\ earned = n * p /\ Worth(h) = h.avg * 0
        BY <1>6, <2>1 DEF Worth, Opened, Proceeds
      <3>2. \A a, j, k \in Int : 0 - k * (-j) = j * k - a * 0
        OBVIOUS
      <3>3. 0 - p * (-n) = n * p - h.avg * 0
        BY <1>0, <3>2
      <3> QED
        BY <3>1, <3>3
    <2> HIDE DEF g, is, earned, h, n, y
    <2> QED
      BY <1>0, <1>1, <2>2, <2>4, <2>5, OneRowTraded DEF h, is, earned, n, y
  <1> QED
    BY <1>0, <1>2, <1>3, <1>4, <1>5, <1>6

\* The same holdings, whatever they are valued at.
SameTrades(rows, others) ==
    \A z \in Symbols : /\ others[z].stored = rows[z].stored
                       /\ others[z].quantity = rows[z].quantity
                       /\ others[z].avg = rows[z].avg

LEMMA SameTradesCost ==
    ASSUME NEW rows \in Portfolios, NEW others \in Portfolios, SameTrades(rows, others)
    PROVE  Cost(others) = Cost(rows)
  <1>1. \A y \in Symbols : Worth(others[y]) = Worth(rows[y])
    BY DEF SameTrades, Worth
  <1> QED
    BY <1>1, CostSame

\* Looking the prices up changes no holding.
LEMMA RecalculatedAtSame ==
    ASSUME NEW l \in Ledgers, NEW quotes \in Seen, NEW b \in Int
    PROVE  LET is == RecalculatedAt(l, quotes, b)
           IN  /\ is.pnl = l.pnl /\ SameTrades(l.rows, is.rows)
               /\ \A z \in Symbols : is.rows[z].invested = l.rows[z].invested
  <1> DEFINE is == RecalculatedAt(l, quotes, b)
  <1>1. /\ is.pnl = l.pnl
        /\ is.rows = [s \in Symbols |-> IF l.rows[s].stored /\ quotes[s] # 0
                                        THEN [l.rows[s] EXCEPT !.price = quotes[s]]
                                        ELSE l.rows[s]]
    BY DEF RecalculatedAt, Totalled
  <1>2. ASSUME NEW z \in Symbols
        PROVE  /\ is.rows[z].stored = l.rows[z].stored /\ is.rows[z].quantity = l.rows[z].quantity
               /\ is.rows[z].avg = l.rows[z].avg /\ is.rows[z].invested = l.rows[z].invested
    <2>1. l.rows[z] \in Rows
      BY DEF Ledgers
    <2>2. is.rows[z] = l.rows[z] \/ is.rows[z] = [l.rows[z] EXCEPT !.price = quotes[z]]
      BY <1>1
    <2> HIDE DEF is
    <2> QED
      BY <2>1, <2>2 DEF Rows
  <1> QED
    BY <1>1, <1>2 DEF SameTrades

LEMMA SummarisedSame ==
    ASSUME NEW l \in Ledgers, NEW quotes \in Seen, NEW b \in Int
    PROVE  LET is == Summarised(l, quotes, b)
           IN  is.pnl = l.pnl /\ SameTrades(l.rows, is.rows)
  <1> DEFINE is == Summarised(l, quotes, b)
             At(s) == IF quotes[s] # 0 THEN quotes[s] ELSE l.rows[s].avg
  <1>1. /\ is.pnl = l.pnl
        /\ is.rows = [s \in Symbols |-> IF s \in Open(l.rows)
                                        THEN Reduced(l.rows[s], l.rows[s].quantity, At(s))
                                        ELSE l.rows[s]]
    BY DEF Summarised, Totalled
  <1>2. ASSUME NEW z \in Symbols
        PROVE  /\ is.rows[z].stored = l.rows[z].stored /\ is.rows[z].quantity = l.rows[z].quantity
               /\ is.rows[z].avg = l.rows[z].avg
    <2>1. is.rows[z] = l.rows[z] \/ is.rows[z] = Reduced(l.rows[z], l.rows[z].quantity, At(z))
      BY <1>1
    <2> HIDE DEF is
    <2> QED
      BY <2>1 DEF Reduced
  <1> QED
    BY <1>1, <1>2 DEF SameTrades

\* What has been traded stays traded when the prices are looked up.
LEMMA TradedAt ==
    ASSUME NEW l \in Ledgers, NEW m \in Ledgers, NEW y \in Symbols, NEW earned \in Int,
           Traded(l, m, y, earned), NEW quotes \in Seen, NEW b \in Int
    PROVE  Traded(l, RecalculatedAt(m, quotes, b), y, earned)
  <1> DEFINE is == RecalculatedAt(m, quotes, b)
  <1>1. is \in Ledgers
    BY RecalculatedAtWhole
  <1>2. is.pnl = m.pnl /\ SameTrades(m.rows, is.rows)
    BY RecalculatedAtSame
  <1> HIDE DEF is
  <1>3. is.rows \in Portfolios /\ m.rows \in Portfolios
    BY <1>1 DEF Ledgers, Portfolios
  <1>4. Cost(is.rows) = Cost(m.rows)
    BY <1>2, <1>3, SameTradesCost
  <1>5. Traded(l, is, y, earned)
    BY <1>1, <1>2, <1>4 DEF Traded, SameTrades
  <1> QED
    BY <1>5 DEF is

\* A fill of the sweep brings what the worker trades of it.
LEMMA WorkerTrades ==
    ASSUME NEW l \in Ledgers, NEW o, o.symbol \in Symbols, o.side \in {"BUY", "SELL"},
           o.quantity \in Nat \ {0}, ~DividesByZero(l, o), NEW p \in Int,
           NEW quotes \in Seen, NEW b \in Int,
           l.rows[o.symbol].stored \/ l.rows[o.symbol].quantity = 0,
           LET g == BookedByWorker(l, o, p, quotes, b).rows[o.symbol]
           IN  o.side = "BUY" /\ l.rows[o.symbol].stored => g.invested = Worth(g)
    PROVE  Traded(l, BookedByWorker(l, o, p, quotes, b), o.symbol,
                  Proceeds(o.side, IF o.side = "BUY" THEN o.quantity ELSE Sold(l, o), p))
  <1> DEFINE y == o.symbol
             h == l.rows[y]
             q == o.quantity
             n == Sold(l, o)
             earned == Proceeds(o.side, IF o.side = "BUY" THEN q ELSE n, p)
  <1>0. /\ h \in Rows /\ h.quantity \in Int /\ h.avg \in Int /\ q \in Nat /\ q # 0 /\ y \in Symbols
        /\ l.pnl \in Int /\ q * p \in Int /\ h.price \in Int
    BY ProductInt DEF Ledgers, Rows
  <1>1. n \in Int /\ earned \in Int
    <2>1. n \in Int
      BY <1>0 DEF Sold, Smaller
    <2> HIDE DEF n
    <2> QED
      BY <1>0, <2>1, ProceedsWhole
  <1>2. CASE o.side = "BUY"
    <2> DEFINE m == HandleBuy(l, o, p)
               g == IF h.stored THEN Averaged(h, q, p) ELSE Opened(q, p)
               is == RecalculatedAt(m, quotes, b)
    <2>1. m \in Ledgers
      BY <1>0, <1>2, HandledWhole
    <2>2. m.pnl = l.pnl + 0 /\ m.rows = [l.rows EXCEPT ![y] = g]
      BY <1>0 DEF HandleBuy, Posted
    <2>3. m.rows[y] = g
      BY <1>0, <2>2 DEF Ledgers
    <2>4. g \in Rows
      BY <1>0, <2>1, <2>3 DEF Ledgers
    <2>5. g.stored
      BY DEF Averaged, Opened
    <2>6. BookedByWorker(l, o, p, quotes, b) = is
      BY <1>2 DEF BookedByWorker
    <2>7. 0 - Worth(g) = earned - Worth(h)
      <3>0. earned = -(q * p)
        BY <1>2 DEF Proceeds
      <3>1. CASE h.stored
        <4>1. g.invested = Worth(h) + p * q
          BY <3>1 DEF Averaged, Worth
        <4>2. is.rows[y].invested = Worth(is.rows[y])
          BY <1>2, <2>6, <3>1
        <4>3. is.rows[y].invested = g.invested /\ Worth(is.rows[y]) = Worth(g)
          BY <1>0, <2>1, <2>3, RecalculatedAtSame DEF SameTrades, Worth
        <4>4. Worth(h) \in Int /\ p * q = q * p
          BY <1>0, WorthWhole
        <4> HIDE DEF g, h, earned, is, q, y
        <4>5. Worth(g) = Worth(h) + p * q
          BY <4>1, <4>2, <4>3
        <4> QED
          BY <1>0, <3>0, <4>4, <4>5
      <3>2. CASE ~h.stored
        <4>1. Worth(g) = p * q /\ Worth(h) = h.avg * 0
          BY <3>2 DEF Opened, Worth
        <4>2. \A a, j, k \in Int : 0 - k * j = -(j * k) - a * 0
          OBVIOUS
        <4>3. 0 - p * q = -(q * p) - h.avg * 0
          BY <1>0, <4>2
        <4> QED
          BY <3>0, <4>1, <4>3
      <3> QED
        BY <3>1, <3>2
    <2> HIDE DEF g, m, earned, h, n, y
    <2>8. Traded(l, m, y, earned)
      BY <1>0, <1>1, <2>1, <2>2, <2>4, <2>5, <2>7, OneRowTraded DEF h
    <2>9. Traded(l, is, y, earned)
      BY <1>0, <1>1, <2>1, <2>8, TradedAt
    <2> QED
      BY <2>6, <2>9 DEF earned, n, y
  <1>3. CASE o.side = "SELL"
    <2> DEFINE m == HandleSell(l, o, p)
               g == Depleted(h, n, p)
               gain == (p - h.avg) * n
               is == RecalculatedAt(m, quotes, b)
    <2>1. m \in Ledgers
      BY <1>0, HandledWhole
    <2>2. BookedByWorker(l, o, p, quotes, b) = is
      BY <1>3 DEF BookedByWorker
    <2>3. earned = n * p
      BY <1>3 DEF Proceeds
    <2>4. Traded(l, m, y, earned)
      <3>1. CASE n = 0
        <4>1. m = l /\ earned = 0
          BY <2>3, <3>1 DEF HandleSell
        <4>2. l.rows \in Portfolios
          BY DEF Ledgers, Portfolios
        <4>3. Cost(l.rows) \in Int
          BY <4>2, TotalsWhole
        <4> HIDE DEF m, earned
        <4> QED
          BY <1>0, <4>1, <4>3 DEF Traded
      <3>2. CASE n # 0
        <4>1. m.pnl = l.pnl + gain /\ m.rows = [l.rows EXCEPT ![y] = g]
          BY <3>2 DEF HandleSell, Posted
        <4>2. g \in Rows
          BY <1>0, <2>1, <4>1 DEF Ledgers
        <4>3. h.stored
          BY <1>0, <3>2 DEF Sold
        <4>4. g.stored \/ g.quantity = 0
          BY <4>3 DEF Depleted, NoHolding, Reduced
        <4>5. Worth(g) = h.avg * (h.quantity - n)
          <5>1. CASE h.quantity = n
            <6>1. Worth(g) = 0 * 0 /\ h.quantity - n = 0
              BY <1>0, <5>1 DEF Worth, Depleted, NoHolding
            <6> QED
              BY <1>0, <6>1
          <5>2. CASE h.quantity # n
            BY <5>2 DEF Worth, Depleted, Reduced
          <5> QED
            BY <5>1, <5>2
        <4>6. gain - Worth(g) = earned - Worth(h)
          <5>1. \A a, i, j, k \in Int : (k - a) * j - a * (i - j) = j * k - a * i
            OBVIOUS
          <5> HIDE DEF g, n
          <5> QED
            BY <1>0, <1>1, <2>3, <4>5, <5>1 DEF Worth
        <4>7. gain \in Int
          BY <1>0, <1>1, ProductInt
        <4> HIDE DEF m, g, gain, earned, h, n, y
        <4> QED
          BY <1>0, <1>1, <2>1, <4>1, <4>2, <4>4, <4>6, <4>7, OneRowTraded DEF h
      <3> QED
        BY <3>1, <3>2
    <2> HIDE DEF m, earned, h, n, y
    <2>5. Traded(l, is, y, earned)
      BY <1>0, <1>1, <2>1, <2>4, TradedAt
    <2> QED
      BY <1>3, <2>2, <2>5 DEF earned, n, y
  <1> QED
    BY <1>2, <1>3

\* Writing over the ledger one has read is writing the ledger.
LEMMA WrittenOver ==
    ASSUME NEW now \in Ledgers, NEW was \in Ledgers, NEW is \in Ledgers,
           was.rows = now.rows, was.pnl = now.pnl, Emptied(is.rows)
    PROVE  LET new == Written(now, was, is)
           IN  /\ new \in Ledgers /\ new.pnl = is.pnl
               /\ Cost(new.rows) = Cost(is.rows) /\ Emptied(new.rows)
               /\ \A y \in Symbols : is.rows[y].stored => new.rows[y] = is.rows[y]
               /\ \A y \in Symbols : new.rows[y] \in {is.rows[y], NoHolding}
  <1> DEFINE new == Written(now, was, is)
  <1>1. new \in Ledgers
    BY WrittenWhole
  <1>2. /\ new.pnl = Write(now.pnl, was.pnl, is.pnl)
        /\ \A y \in Symbols : new.rows[y] = WriteRow(now.rows[y], was.rows[y], is.rows[y])
    BY DEF Written
  <1>3. new.pnl = is.pnl
    BY <1>2 DEF Write
  <1>4. ASSUME NEW y \in Symbols
        PROVE  \/ new.rows[y] = is.rows[y]
               \/ ~is.rows[y].stored /\ new.rows[y] = NoHolding
    <2>1. was.rows[y] = now.rows[y] /\ is.rows[y] \in Rows
      BY DEF Ledgers
    <2>2. CASE ~is.rows[y].stored /\ was.rows[y].stored
      BY <1>2, <2>2 DEF WriteRow
    <2>3. CASE ~(~is.rows[y].stored /\ was.rows[y].stored)
      <3> DEFINE n == now.rows[y]
                 i == is.rows[y]
      <3>1. new.rows[y] = [stored   |-> Write(n.stored, n.stored, i.stored),
                           quantity |-> Write(n.quantity, n.quantity, i.quantity),
                           avg      |-> Write(n.avg, n.avg, i.avg),
                           invested |-> Write(n.invested, n.invested, i.invested),
                           value    |-> Write(n.value, n.value, i.value),
                           price    |-> Write(n.price, n.price, i.price)]
        BY <1>2, <2>1, <2>3 DEF WriteRow
      <3>2. \A c, d : Write(c, c, d) = d
        BY DEF Write
      <3>3. new.rows[y] = [stored   |-> i.stored, quantity |-> i.quantity, avg |-> i.avg,
                           invested |-> i.invested, value |-> i.value, price |-> i.price]
        BY <3>1, <3>2
      <3> HIDE DEF new, n
      <3> QED
        BY <2>1, <3>3 DEF Rows
    <2> QED
      BY <2>2, <2>3
  <1> HIDE DEF new
  <1>5. ASSUME NEW y \in Symbols
        PROVE  /\ Worth(new.rows[y]) = Worth(is.rows[y])
               /\ ~new.rows[y].stored => new.rows[y].quantity = 0
               /\ is.rows[y].stored => new.rows[y] = is.rows[y]
    <2>1. CASE new.rows[y] = is.rows[y]
      BY <2>1 DEF Emptied
    <2>2. CASE ~is.rows[y].stored /\ new.rows[y] = NoHolding
      <3>1. is.rows[y].quantity = 0 /\ is.rows[y].avg \in Int
        BY <2>2 DEF Emptied, Ledgers, Rows
      <3>2. \A a \in Int : a * 0 = 0
        OBVIOUS
      <3>3. Worth(is.rows[y]) = 0
        BY <3>1, <3>2 DEF Worth
      <3>4. Worth(NoHolding) = 0 /\ NoHolding.quantity = 0
        BY DEF Worth, NoHolding
      <3> QED
        BY <2>2, <3>3, <3>4
    <2> QED
      BY <1>4, <2>1, <2>2
  <1>6. new.rows \in Portfolios /\ is.rows \in Portfolios
    BY <1>1 DEF new, Ledgers, Portfolios
  <1>7. Cost(new.rows) = Cost(is.rows)
    BY <1>5, <1>6, CostSame
  <1>8. Emptied(new.rows)
    BY <1>5 DEF Emptied
  <1> QED
    BY <1>1, <1>3, <1>4, <1>5, <1>7, <1>8 DEF new

\* A session that has traded nothing leaves the trades alone.
LEMMA WrittenSame ==
    ASSUME NEW now \in Ledgers, NEW was \in Ledgers, NEW is \in Ledgers,
           SameTrades(was.rows, is.rows)
    PROVE  LET new == Written(now, was, is)
           IN  /\ SameTrades(now.rows, new.rows)
               /\ is.pnl = was.pnl => new.pnl = now.pnl
  <1> DEFINE new == Written(now, was, is)
  <1>1. /\ new.pnl = Write(now.pnl, was.pnl, is.pnl)
        /\ \A y \in Symbols : new.rows[y] = WriteRow(now.rows[y], was.rows[y], is.rows[y])
    BY DEF Written
  <1>2. ASSUME NEW y \in Symbols
        PROVE  /\ new.rows[y].stored = now.rows[y].stored
               /\ new.rows[y].quantity = now.rows[y].quantity
               /\ new.rows[y].avg = now.rows[y].avg
    <2>1. /\ is.rows[y].stored = was.rows[y].stored /\ is.rows[y].quantity = was.rows[y].quantity
          /\ is.rows[y].avg = was.rows[y].avg
      BY DEF SameTrades
    <2>2. ~(~is.rows[y].stored /\ was.rows[y].stored)
      BY <2>1
    <2>3. WriteRow(now.rows[y], was.rows[y], is.rows[y]) =
          [stored   |-> Write(now.rows[y].stored, was.rows[y].stored, is.rows[y].stored),
           quantity |-> Write(now.rows[y].quantity, was.rows[y].quantity, is.rows[y].quantity),
           avg      |-> Write(now.rows[y].avg, was.rows[y].avg, is.rows[y].avg),
           invested |-> Write(now.rows[y].invested, was.rows[y].invested, is.rows[y].invested),
           value    |-> Write(now.rows[y].value, was.rows[y].value, is.rows[y].value),
           price    |-> Write(now.rows[y].price, was.rows[y].price, is.rows[y].price)]
      BY <2>2 DEF WriteRow
    <2>4. \A c, d : Write(c, d, d) = c
      BY DEF Write
    <2> QED
      BY <1>1, <2>1, <2>3, <2>4
  <1>3. is.pnl = was.pnl => new.pnl = now.pnl
    BY <1>1 DEF Write
  <1> QED
    BY <1>2, <1>3 DEF SameTrades

\* Trading one row leaves no row that is gone with shares.
LEMMA TradedEmptied ==
    ASSUME NEW l, NEW is, NEW y, NEW earned, Traded(l, is, y, earned), Emptied(l.rows)
    PROVE  Emptied(is.rows)
  <1> SUFFICES ASSUME NEW z \in Symbols, ~is.rows[z].stored PROVE is.rows[z].quantity = 0
    BY DEF Emptied
  <1>1. CASE z = y
    BY <1>1 DEF Traded
  <1>2. CASE z # y
    BY <1>2 DEF Traded, Emptied
  <1> QED
    BY <1>1, <1>2

\* Buying back exactly what is short leaves every row as it was.
LEMMA CoveredStays ==
    ASSUME NEW l \in Ledgers, NEW o, o.symbol \in Symbols, o.quantity \in Int, CoversShort(l, o),
           NEW p, NEW b
    PROVE  BookedInline(l, o, p, b).rows = l.rows
  <1> DEFINE h == l.rows[o.symbol]
  <1>1. /\ o.side = "BUY" /\ h.quantity < 0 /\ h.quantity + o.quantity = 0
        /\ h.quantity \in Int
    BY DEF CoversShort, Ledgers, Rows
  <1>2. BookedInline(l, o, p, b) = Recalculated(BuyToCover(l, o, p), b)
    BY <1>1 DEF BookedInline
  <1>3. BuyToCover(l, o, p).rows = [l.rows EXCEPT ![o.symbol] = h]
    BY <1>1 DEF BuyToCover, Posted
  <1>4. [l.rows EXCEPT ![o.symbol] = h] = l.rows
    BY DEF Ledgers
  <1> QED
    BY <1>2, <1>3, <1>4 DEF Recalculated, Totalled

NoShorts(rows) == \A y \in Symbols : rows[y].quantity >= 0

\* What a session has read is what is there, and one that closes positions keeps
\* the balance in what it would write; unless it closes shorts.
Balanced(s) ==
    /\ s.stage \in {"begun", "ready"} => s.read.pnl = ledger.pnl
    /\ s.stage = "ready" => s.read.rows = ledger.rows /\ s.earned = 0
    /\ (s.stage = "ready" /\ s.job.kind \in {"order", "fill"}) =>
           s.seen = {s.job.order.symbol} \cap Stored(ledger.rows)
    /\ s.stage = "closing" =>
           /\ s.was.rows = ledger.rows /\ s.was.pnl = ledger.pnl
           /\ s.seen = Symbols /\ Emptied(s.read.rows)
           /\ NoShorts(s.was.rows) =>
                  /\ NoShorts(s.read.rows)
                  /\ s.read.pnl - Cost(s.read.rows) = s.was.pnl - Cost(s.was.rows) + s.earned

ProfitInv ==
    /\ TypeOK
    /\ Emptied(ledger.rows) /\ RealisedMatchesTrades
    /\ \A x \in Sessions : Balanced(session[x])

\* Alone, a session that is ready sees the ledger as it is.
LEMMA ViewAlone ==
    ASSUME TypeOK, NEW x \in Sessions, Balanced(session[x]), session[x].stage = "ready"
    PROVE  /\ View(session[x]) \in Ledgers
           /\ View(session[x]).rows = ledger.rows /\ View(session[x]).pnl = ledger.pnl
  <1> DEFINE s == session[x]
  <1>1. s.read \in Ledgers /\ ledger \in Ledgers /\ s.read.rows = ledger.rows
        /\ s.read.pnl = ledger.pnl
    BY SessionWhole DEF TypeOK, Balanced
  <1>2. [y \in Symbols |-> IF y \in s.seen THEN s.read.rows[y] ELSE ledger.rows[y]] = ledger.rows
    BY <1>1 DEF Ledgers
  <1>3. View(s) = [s.read EXCEPT !.rows = ledger.rows]
    BY <1>2 DEF View
  <1>4. View(s) \in Ledgers
    BY ViewWhole
  <1> HIDE DEF s
  <1> QED
    BY <1>1, <1>3, <1>4 DEF s, Ledgers

LEMMA OpeningBalanced ==
    ASSUME ProfitInv, NEW x \in Sessions,
           BeginOrder(x) \/ BeginFill(x) \/ BeginOther(x) \/ BeginCapital(x)
    PROVE  Balanced(session[x])' /\ Emptied(ledger.rows)' /\ RealisedMatchesTrades'
  <1>1. PICK what : Begin(x, what)
    BY DEF BeginOrder, BeginFill, BeginOther, BeginCapital
  <1>2. UNCHANGED <<ledger, flow, covered>>
    BY DEF BeginOrder, BeginFill, BeginOther, BeginCapital
  <1>3. session'[x] = Opening(what, ledger, base)
    BY <1>1 DEF Begin, ProfitInv, TypeOK
  <1>4. session'[x].stage = "begun" /\ session'[x].read.pnl = ledger.pnl
    BY <1>3 DEF Opening
  <1>5. Balanced(session[x])'
    BY <1>2, <1>4 DEF Balanced
  <1> QED
    BY <1>2, <1>5 DEF ProfitInv, Emptied, RealisedMatchesTrades, Cost

LEMMA AbandonBalanced ==
    ASSUME ProfitInv, NEW x \in Sessions, Abandon(x)
    PROVE  Balanced(session[x])' /\ Emptied(ledger.rows)' /\ RealisedMatchesTrades'
  <1>1. session'[x] = Closed /\ UNCHANGED <<ledger, flow, covered>>
    BY DEF Abandon, Close, ProfitInv, TypeOK
  <1>2. Balanced(session[x])'
    BY <1>1 DEF Balanced, Closed
  <1> QED
    BY <1>1, <1>2 DEF ProfitInv, Emptied, RealisedMatchesTrades, Cost

\* Reading the holdings.
LEMMA RememberBalanced ==
    ASSUME ProfitInv, NEW x \in Sessions, session[x].stage = "begun",
           NEW seen, NEW todo, session'[x] = Remember(session[x], seen, todo),
           session[x].job.kind \in {"order", "fill"} =>
               seen = {session[x].job.order.symbol} \cap Stored(ledger.rows),
           UNCHANGED ledger
    PROVE  Balanced(session[x])'
  <1> DEFINE s == session[x]
             r == Remember(s, seen, todo)
  <1>1. s.read \in Ledgers /\ s.read.pnl = ledger.pnl
    BY SessionWhole DEF ProfitInv, Balanced
  <1>2. /\ r.stage = "ready" /\ r.job = s.job /\ r.seen = seen /\ r.earned = 0
        /\ r.read = [s.read EXCEPT !.rows = ledger.rows]
    BY DEF Remember
  <1>3. r.read.rows = ledger.rows /\ r.read.pnl = ledger.pnl
    BY <1>1, <1>2 DEF Ledgers
  <1>4. session'[x] = r
    OBVIOUS
  <1> HIDE DEF r
  <1>5. /\ session'[x].stage = "ready" /\ session'[x].earned = 0
        /\ session'[x].read.rows = ledger'.rows /\ session'[x].read.pnl = ledger'.pnl
    BY <1>2, <1>3, <1>4
  <1>6. session'[x].job.kind \in {"order", "fill"} =>
            session'[x].seen = {session'[x].job.order.symbol} \cap Stored(ledger'.rows)
    BY <1>2, <1>4
  <1> QED
    BY <1>5, <1>6 DEF Balanced

LEMMA ReadingBalanced ==
    ASSUME ProfitInv, NEW x \in Sessions,
           CheckOrder(x) \/ ReadHolding(x) \/ ReadPositions(x) \/ ReadSummary(x)
    PROVE  Balanced(session[x])' /\ Emptied(ledger.rows)' /\ RealisedMatchesTrades'
  <1> DEFINE s == session[x]
             own == {s.job.order.symbol} \cap Stored(ledger.rows)
             open == Open(ledger.rows)
  <1>1. s.stage = "begun" /\ UNCHANGED <<ledger, flow, covered>>
    BY DEF CheckOrder, ReadHolding, ReadPositions, ReadSummary
  <1>2. \/ session'[x] = Closed
        \/ session'[x] = Remember(s, own, {})
        \/ s.job.kind \in {"closeall", "summary"} /\ session'[x] = Remember(s, open, open)
        \/ s.job.kind \in {"closeall", "summary"} /\ session'[x] = Remember(s, open, {})
    BY DEF CheckOrder, ReadHolding, ReadPositions, ReadSummary, Close, ProfitInv, TypeOK
  <1>3. Balanced(session[x])'
    <2>1. CASE session'[x] = Closed
      BY <2>1 DEF Balanced, Closed
    <2>2. CASE session'[x] = Remember(s, own, {})
      BY <1>1, <2>2, RememberBalanced
    <2>3. CASE s.job.kind \in {"closeall", "summary"} /\ session'[x] = Remember(s, open, open)
      BY <1>1, <2>3, RememberBalanced
    <2>4. CASE s.job.kind \in {"closeall", "summary"} /\ session'[x] = Remember(s, open, {})
      BY <1>1, <2>4, RememberBalanced
    <2> QED
      BY <1>2, <2>1, <2>2, <2>3, <2>4
  <1> QED
    BY <1>1, <1>3 DEF ProfitInv, Emptied, RealisedMatchesTrades, Cost

\* Whoever buys more shares than there are has some in the end.
LEMMA AveragedStored ==
    ASSUME NEW l \in Ledgers, NEW o, Bookable(l, o), o.quantity \in Nat,
           l.rows[o.symbol].stored \/ l.rows[o.symbol].quantity = 0,
           o.side = "BUY", l.rows[o.symbol].quantity > 0, NEW p, NEW b
    PROVE  LET g == BookedInline(l, o, p, b).rows[o.symbol]
           IN  g.stored /\ g.quantity # 0
  <1> DEFINE h == l.rows[o.symbol]
             g == Averaged(h, o.quantity, p)
             is == BookedInline(l, o, p, b)
  <1>1. h.quantity \in Int /\ h.stored /\ o.quantity \in Nat /\ h.quantity + o.quantity # 0
    BY DEF Ledgers, Rows, Bookable
  <1>2. is = Recalculated(BuyToOpen(l, o, p), b)
    BY <1>1 DEF BookedInline
  <1>3. is.rows = [l.rows EXCEPT ![o.symbol] = g]
    BY <1>2 DEF Recalculated, Totalled, BuyToOpen, Posted
  <1>4. is.rows[o.symbol] = g
    BY <1>3 DEF Ledgers, Bookable
  <1>5. g.stored /\ g.quantity # 0
    BY <1>1 DEF Averaged
  <1> QED
    BY <1>4, <1>5

\* A fill on arrival leaves no row that is gone with shares, exact or not.
LEMMA InlineEmptied ==
    ASSUME NEW l \in Ledgers, NEW o, Bookable(l, o), o.quantity \in Nat, NEW p \in Int, NEW b \in Int,
           Emptied(l.rows), ~InsertsTwice(l, o), ~CoversShort(l, o)
    PROVE  Emptied(BookedInline(l, o, p, b).rows)
  <1> DEFINE y  == o.symbol
             h  == l.rows[y]
             is == BookedInline(l, o, p, b)
  <1>1. /\ h.stored \/ h.quantity = 0
        /\ y \in Symbols /\ h \in Rows
    BY DEF Emptied, Bookable, Ledgers
  <1>2. CASE o.side = "BUY" /\ h.quantity > 0
    <2>1. is.rows[y].stored
      BY <1>1, <1>2, AveragedStored
    <2>2. \A z \in Symbols \ {y} : is.rows[z] = l.rows[z]
      <3>1. is = Recalculated(BuyToOpen(l, o, p), b)
        BY <1>1, <1>2 DEF BookedInline, Rows
      <3>2. is.rows = BuyToOpen(l, o, p).rows
        BY <3>1 DEF Recalculated, Totalled
      <3> HIDE DEF is
      <3>3. \E g : BuyToOpen(l, o, p).rows = [l.rows EXCEPT ![y] = g]
        BY DEF BuyToOpen, Posted
      <3> QED
        BY <3>2, <3>3 DEF Ledgers
    <2> HIDE DEF is
    <2>3. Emptied(is.rows)
      BY <2>1, <2>2 DEF Emptied
    <2> QED
      BY <2>3 DEF is
  <1>3. CASE ~(o.side = "BUY" /\ h.quantity > 0)
    <2>1. Traded(l, is, y, Proceeds(o.side, o.quantity, p))
      BY <1>1, <1>3, InlineTrades
    <2> HIDE DEF is
    <2>2. Emptied(is.rows)
      BY <2>1, TradedEmptied, Zenon
    <2> QED
      BY <2>2 DEF is
  <1> QED
    BY <1>2, <1>3

\* Whoever adds to a stored row has some in the end.
LEMMA BoughtStored ==
    ASSUME NEW l \in Ledgers, NEW o, o.symbol \in Symbols, o.side = "BUY", o.quantity \in Nat \ {0},
           ~DividesByZero(l, o), l.rows[o.symbol].stored, NEW p \in Int, NEW quotes \in Seen,
           NEW b \in Int
    PROVE  LET is == BookedByWorker(l, o, p, quotes, b)
           IN  /\ is.rows[o.symbol].stored /\ is.rows[o.symbol].quantity # 0
               /\ \A z \in Symbols : z # o.symbol => is.rows[z].stored = l.rows[z].stored
                                                     /\ is.rows[z].quantity = l.rows[z].quantity
  <1> DEFINE h == l.rows[o.symbol]
             g == Averaged(h, o.quantity, p)
             m == HandleBuy(l, o, p)
             is == RecalculatedAt(m, quotes, b)
  <1>1. m \in Ledgers
    BY HandledWhole
  <1>2. BookedByWorker(l, o, p, quotes, b) = is
    BY DEF BookedByWorker
  <1>3. m.rows = [l.rows EXCEPT ![o.symbol] = g]
    BY DEF HandleBuy, Posted
  <1>4. m.rows[o.symbol] = g /\ \A z \in Symbols : z # o.symbol => m.rows[z] = l.rows[z]
    BY <1>3 DEF Ledgers
  <1>5. g.stored /\ g.quantity # 0
    <2>1. h.quantity + o.quantity # 0
      BY DEF DividesByZero
    <2> QED
      BY <2>1 DEF Averaged
  <1>6. SameTrades(m.rows, is.rows)
    BY <1>1, RecalculatedAtSame
  <1> HIDE DEF g, m, is
  <1> QED
    BY <1>2, <1>4, <1>5, <1>6 DEF SameTrades

\* A trade booked over the ledger it was computed from.
LEMMA TradeBooked ==
    ASSUME ledger \in Ledgers, Emptied(ledger.rows), RealisedMatchesTrades, flow \in Int,
           NEW l \in Ledgers, l.rows = ledger.rows, l.pnl = ledger.pnl,
           NEW is, NEW y, NEW earned \in Int, Traded(l, is, y, earned),
           ledger' = Written(ledger, l, is), flow' = flow + earned, covered => covered'
    PROVE  Emptied(ledger.rows)' /\ RealisedMatchesTrades'
  <1>1. is \in Ledgers /\ Emptied(is.rows)
    <2>1. is \in Ledgers
      BY DEF Traded
    <2>2. Emptied(l.rows)
      OBVIOUS
    <2>3. Emptied(is.rows)
      BY <2>2, TradedEmptied, Zenon
    <2> QED
      BY <2>1, <2>3
  <1>2. /\ Emptied(ledger'.rows) /\ ledger'.pnl = is.pnl /\ Cost(ledger'.rows) = Cost(is.rows)
    BY <1>1, WrittenOver
  <1>3. /\ is.pnl \in Int /\ l.pnl \in Int /\ Cost(is.rows) \in Int /\ Cost(l.rows) \in Int
    BY <1>1, TotalsWhole DEF Ledgers, Portfolios
  <1>4. covered \/ l.pnl = flow + Cost(l.rows)
    BY DEF RealisedMatchesTrades
  <1>5. is.pnl - Cost(is.rows) = l.pnl - Cost(l.rows) + earned
    BY DEF Traded
  <1>6. covered' \/ is.pnl = flow' + Cost(is.rows)
    BY <1>3, <1>4, <1>5
  <1>7. covered' \/ ledger'.pnl = flow' + Cost(ledger'.rows)
    BY <1>2, <1>6
  <1> QED
    BY <1>2, <1>7 DEF Emptied, RealisedMatchesTrades, Cost

\* A fill on arrival that is booked brings what the trade brings.
LEMMA InlineExact ==
    ASSUME ProfitInv, NEW x \in Sessions, BookInline(x), AveragesExact', ~InlineFails(session[x]),
           ~CoversShort(View(session[x]), session[x].job.order)
    PROVE  LET s  == session[x]
               o  == s.job.order
               l  == View(s)
               is == BookedInline(l, o, s.job.price, base)
           IN  /\ l \in Ledgers /\ is \in Ledgers /\ Emptied(is.rows)
               /\ Traded(l, is, o.symbol, Proceeds(o.side, o.quantity, s.job.price))
               /\ (o.side = "BUY" /\ l.rows[o.symbol].quantity > 0) =>
                      is.rows[o.symbol].invested = Worth(is.rows[o.symbol])
  <1> DEFINE s == session[x]
             o == s.job.order
             p == s.job.price
             l == View(s)
             is == BookedInline(l, o, p, base)
             earned == Proceeds(o.side, o.quantity, p)
  <1>0. TypeOK /\ Balanced(s) /\ s.stage = "ready" /\ base \in Int /\ flow \in Int
        /\ ledger \in Ledgers
    BY DEF BookInline, ProfitInv, TypeOK
  <1>1. /\ o.symbol \in Symbols /\ o.side \in {"BUY", "SELL"} /\ o.quantity \in Nat \ {0}
        /\ p \in Int
    <2>1. o \in Orders /\ p \in Quotes
      BY <1>0, SessionWhole, JobFields DEF BookInline
    <2> QED
      BY <2>1, OrderFacts
  <1>2. ledger' = Written(ledger, l, is)
    BY DEF BookInline, Commit
  <1>3. l \in Ledgers /\ l.rows = ledger.rows /\ l.pnl = ledger.pnl
    BY <1>0, ViewAlone
  <1>4. Bookable(l, o) /\ is \in Ledgers
    <2>1. Bookable(l, o)
      BY <1>1 DEF Bookable
    <2> QED
      BY <1>0, <1>1, <1>3, <2>1, BookedInlineWhole
  <1>5. l.rows[o.symbol].stored \/ l.rows[o.symbol].quantity = 0
    BY <1>1, <1>3 DEF ProfitInv, Emptied
  <1>6. ~InsertsTwice(l, o)
    BY DEF InlineFails
  <1>7. Emptied(is.rows)
    BY <1>0, <1>1, <1>3, <1>4, <1>5, <1>6, InlineEmptied DEF ProfitInv
  <1>8. ASSUME o.side = "BUY", l.rows[o.symbol].quantity > 0
        PROVE  is.rows[o.symbol].invested = Worth(is.rows[o.symbol])
    <2>1. /\ is.rows[o.symbol].stored /\ is.rows[o.symbol].quantity # 0
      BY <1>1, <1>3, <1>4, <1>5, <1>8, AveragedStored
    <2>2. ledger'.rows[o.symbol] = is.rows[o.symbol]
      <3> HIDE DEF l, is, o
      <3> QED
        BY <1>0, <1>1, <1>2, <1>3, <1>4, <1>7, <2>1, WrittenOver
    <2> QED
      BY <1>1, <2>1, <2>2 DEF AveragesExact, Worth
  <1>9. Traded(l, is, o.symbol, earned)
    BY <1>0, <1>1, <1>3, <1>4, <1>5, <1>6, <1>8, InlineTrades
  <1> QED
    BY <1>3, <1>4, <1>7, <1>8, <1>9

\* The fill of an order that was executed on arrival.
LEMMA BookInlineBalanced ==
    ASSUME ProfitInv, NEW x \in Sessions, BookInline(x), AveragesExact'
    PROVE  Balanced(session[x])' /\ Emptied(ledger.rows)' /\ RealisedMatchesTrades'
  <1> DEFINE s == session[x]
             o == s.job.order
             p == s.job.price
             l == View(s)
             is == BookedInline(l, o, p, base)
             earned == Proceeds(o.side, o.quantity, p)
  <1>0. TypeOK /\ Balanced(s) /\ s.stage = "ready" /\ base \in Int /\ flow \in Int
        /\ ledger \in Ledgers
    BY DEF BookInline, ProfitInv, TypeOK
  <1>1. /\ o.symbol \in Symbols /\ o.side \in {"BUY", "SELL"} /\ o.quantity \in Nat \ {0}
        /\ p \in Int
    <2>1. o \in Orders /\ p \in Quotes
      BY <1>0, SessionWhole, JobFields DEF BookInline
    <2> QED
      BY <2>1, OrderFacts
  <1>2. CASE InlineFails(s)
    BY <1>2, AbandonBalanced DEF BookInline
  <1>3. CASE ~InlineFails(s)
    <2>1. /\ ledger' = Written(ledger, l, is)
          /\ flow' = flow + earned
          /\ covered' = (covered \/ CoversShort(l, o))
          /\ session' = [session EXCEPT ![x] = Closed]
      BY <1>3 DEF BookInline, Commit, Close
    <2>2. l \in Ledgers /\ l.rows = ledger.rows /\ l.pnl = ledger.pnl
      BY <1>0, ViewAlone
    <2>3. Bookable(l, o) /\ earned \in Int
      BY <1>1, ProceedsWhole DEF Bookable
    <2>4. is \in Ledgers
      BY <1>0, <1>1, <2>2, <2>3, BookedInlineWhole
    <2>5. Emptied(ledger'.rows) /\ (covered' \/ ledger'.pnl = flow' + Cost(ledger'.rows))
      <3>1. CASE CoversShort(l, o)
        <4>1. is.rows = l.rows
          BY <1>1, <2>2, <3>1, CoveredStays
        <4>2. Emptied(is.rows)
          BY <2>2, <4>1 DEF ProfitInv
        <4>3. Emptied(ledger'.rows)
          BY <1>0, <2>1, <2>2, <2>4, <4>2, WrittenOver
        <4>4. covered'
          BY <2>1, <3>1
        <4> QED
          BY <4>3, <4>4
      <3>2. CASE ~CoversShort(l, o)
        <4>5. Traded(l, is, o.symbol, earned)
          BY <1>3, <3>2, InlineExact
        <4>6. covered => covered'
          BY <2>1
        <4> HIDE DEF l, is, earned
        <4> QED
          BY <1>0, <2>1, <2>2, <2>3, <4>5, <4>6, TradeBooked
             DEF ProfitInv, Emptied, RealisedMatchesTrades, Cost
      <3> QED
        BY <3>1, <3>2
    <2>6. Balanced(session[x])'
      BY <2>1 DEF Balanced, Closed, ProfitInv, TypeOK
    <2> QED
      BY <2>5, <2>6 DEF Emptied, RealisedMatchesTrades, Cost
  <1> QED
    BY <1>2, <1>3

\* A fill of the sweep that is booked brings what the worker trades of it.
LEMMA WorkerExact ==
    ASSUME ProfitInv, NEW x \in Sessions, session[x].stage = "ready", session[x].job.kind = "fill",
           NEW quotes \in [Symbols -> Quotes \cup {NoQuote}], ~WorkerFails(session[x], quotes),
           ledger' = Written(ledger, View(session[x]), WorkerBooks(session[x], quotes)),
           AveragesExact'
    PROVE  LET s  == session[x]
               o  == s.job.order
               l  == View(s)
               is == WorkerBooks(s, quotes)
               earned == Proceeds(o.side, WorkerTraded(s), s.job.price)
           IN  /\ l \in Ledgers /\ is \in Ledgers /\ earned \in Int
               /\ Emptied(is.rows) /\ Traded(l, is, o.symbol, earned)
               /\ (o.side = "BUY" /\ l.rows[o.symbol].stored) =>
                      is.rows[o.symbol].invested = Worth(is.rows[o.symbol])
  <1> DEFINE s == session[x]
             o == s.job.order
             y == o.symbol
             p == s.job.price
             l == View(s)
             is == WorkerBooks(s, quotes)
             earned == Proceeds(o.side, WorkerTraded(s), p)
  <1>0. TypeOK /\ Balanced(s) /\ s.stage = "ready" /\ base \in Int /\ flow \in Int
        /\ ledger \in Ledgers
    BY DEF ProfitInv, TypeOK
  <1>1. /\ y \in Symbols /\ o.side \in {"BUY", "SELL"} /\ o.quantity \in Nat \ {0}
        /\ p \in Int
    <2>1. o \in Orders /\ p \in Quotes
      BY <1>0, SessionWhole, JobFields
    <2> QED
      BY <2>1, OrderFacts
  <1>2. ledger' = Written(ledger, l, is)
    OBVIOUS
  <1>3. /\ l \in Ledgers /\ l.rows = ledger.rows /\ l.pnl = ledger.pnl /\ quotes \in Seen
        /\ l.rows[y].stored \/ l.rows[y].quantity = 0
        /\ l.rows[y] \in Rows
    BY <1>0, <1>1, ViewAlone, QuotesSeen DEF ProfitInv, Emptied, Ledgers
  <1>4. ~DividesByZero(l, o)
    BY DEF WorkerFails
  <1>5. y \in s.seen <=> l.rows[y].stored
    BY <1>0, <1>1, <1>3 DEF Balanced, Stored
  <1>6. Sold(l, o) \in Int
    <2>1. l.rows[y].quantity \in Int
      BY <1>3 DEF Rows
    <2> HIDE DEF l, o
    <2> QED
      BY <1>1, <2>1 DEF Sold, Smaller, y
  <1>7. earned \in Int /\ is \in Ledgers
    <2>1. WorkerTraded(s) \in Int
      BY <1>1, <1>6 DEF WorkerTraded
    <2>2. is \in Ledgers
      BY <1>0, <1>1, <1>3, <1>4, BookedByWorkerWhole, RecalculatedAtWhole DEF WorkerBooks
    <2> QED
      BY <1>1, <2>1, <2>2, ProceedsWhole
  <1>8. ASSUME o.side = "BUY", l.rows[y].stored
        PROVE  is.rows[y].invested = Worth(is.rows[y])
    <2>0. is = BookedByWorker(l, o, p, quotes, base)
      BY <1>8 DEF WorkerBooks
    <2>a. /\ is.rows[y].stored /\ is.rows[y].quantity # 0
          /\ \A z \in Symbols : z # y => is.rows[z].stored = l.rows[z].stored
                                         /\ is.rows[z].quantity = l.rows[z].quantity
      <3> HIDE DEF l, o, p, is
      <3> QED
        BY <1>0, <1>1, <1>3, <1>4, <1>8, <2>0, BoughtStored
    <2>1. is.rows[y].stored /\ is.rows[y].quantity # 0
      BY <2>a
    <2>2. \A z \in Symbols : z # y => is.rows[z].stored = l.rows[z].stored
                                      /\ is.rows[z].quantity = l.rows[z].quantity
      BY <2>a
    <2>3. Emptied(is.rows)
      BY <1>3, <2>1, <2>2 DEF ProfitInv, Emptied
    <2>4. ledger'.rows[y] = is.rows[y]
      <3> HIDE DEF l, is, y
      <3> QED
        BY <1>0, <1>1, <1>2, <1>3, <1>7, <2>1, <2>3, WrittenOver
    <2> QED
      BY <1>1, <2>1, <2>4 DEF AveragesExact, Worth
  <1>9. Traded(l, is, y, earned)
    <2>1. CASE o.side = "SELL" /\ y \notin s.seen
      <3>1. is = RecalculatedAt(l, quotes, base) /\ WorkerTraded(s) = 0
        BY <2>1 DEF WorkerBooks, WorkerTraded
      <3>2. earned = 0
        BY <1>1, <2>1, <3>1 DEF Proceeds
      <3>3. Traded(l, l, y, 0)
        <4>1. Cost(l.rows) \in Int /\ l.pnl \in Int
          BY <1>3, TotalsWhole DEF Ledgers, Portfolios
        <4> QED
          BY <1>3, <4>1 DEF Traded
      <3>4. Traded(l, RecalculatedAt(l, quotes, base), y, 0)
        <4> HIDE DEF l, y
        <4> QED
          BY <1>0, <1>1, <1>3, <3>3, TradedAt
      <3> QED
        BY <3>1, <3>2, <3>4
    <2>2. CASE ~(o.side = "SELL" /\ y \notin s.seen)
      <3>1. is = BookedByWorker(l, o, p, quotes, base)
        BY <2>2 DEF WorkerBooks
      <3>2. WorkerTraded(s) = IF o.side = "BUY" THEN o.quantity ELSE Sold(l, o)
        <4>1. CASE o.side = "BUY"
          BY <4>1 DEF WorkerTraded
        <4>2. CASE o.side = "SELL"
          <5>1. ~(s.job.order.side = "BUY") /\ ~(s.job.order.symbol \notin s.seen)
            BY <2>2, <4>2
          <5> QED
            BY <4>2, <5>1 DEF WorkerTraded
        <4> QED
          BY <1>1, <4>1, <4>2
      <3>4. Traded(l, BookedByWorker(l, o, p, quotes, base), y,
                   Proceeds(o.side, IF o.side = "BUY" THEN o.quantity ELSE Sold(l, o), p))
        <4> HIDE DEF l, o, p
        <4> QED
          BY <1>0, <1>1, <1>3, <1>4, <1>8, <3>1, WorkerTrades
      <3> QED
        BY <3>1, <3>2, <3>4
    <2> QED
      BY <2>1, <2>2
  <1>10. Emptied(is.rows)
    <2>1. Emptied(l.rows)
      BY <1>3 DEF ProfitInv
    <2> HIDE DEF l, is, y, earned
    <2> QED
      BY <1>9, <2>1, TradedEmptied, Zenon
  <1> QED
    BY <1>3, <1>7, <1>8, <1>9, <1>10

\* The fill that the portfolio worker books.
LEMMA BookByWorkerBalanced ==
    ASSUME ProfitInv, NEW x \in Sessions, BookByWorker(x), AveragesExact'
    PROVE  Balanced(session[x])' /\ Emptied(ledger.rows)' /\ RealisedMatchesTrades'
  <1> DEFINE s == session[x]
             o == s.job.order
             y == o.symbol
             p == s.job.price
             l == View(s)
  <1>0. TypeOK /\ Balanced(s) /\ s.stage = "ready" /\ base \in Int /\ flow \in Int
        /\ ledger \in Ledgers
    BY DEF BookByWorker, ProfitInv, TypeOK
  <1>1. /\ y \in Symbols /\ o.side \in {"BUY", "SELL"} /\ o.quantity \in Nat \ {0}
        /\ p \in Int
    <2>1. o \in Orders /\ p \in Quotes
      BY <1>0, SessionWhole, JobFields DEF BookByWorker
    <2> QED
      BY <2>1, OrderFacts
  <1>2. PICK quotes \in [Symbols -> Quotes \cup {NoQuote}] :
           IF WorkerFails(s, quotes) THEN Abandon(x)
           ELSE /\ ledger' = Written(ledger, l, WorkerBooks(s, quotes))
                /\ flow' = flow + Proceeds(o.side, WorkerTraded(s), p)
                /\ session' = [session EXCEPT ![x] = Closed]
                /\ UNCHANGED covered
    BY DEF BookByWorker, Commit, Close
  <1>3. CASE WorkerFails(s, quotes)
    BY <1>2, <1>3, AbandonBalanced
  <1>4. CASE ~WorkerFails(s, quotes)
    <2> DEFINE is == WorkerBooks(s, quotes)
               earned == Proceeds(o.side, WorkerTraded(s), p)
    <2>1. /\ ledger' = Written(ledger, l, is) /\ flow' = flow + earned
          /\ session' = [session EXCEPT ![x] = Closed] /\ covered' = covered
      BY <1>2, <1>4
    <2>2. l \in Ledgers /\ l.rows = ledger.rows /\ l.pnl = ledger.pnl
      BY <1>0, ViewAlone
    <2>6. earned \in Int /\ is \in Ledgers /\ Traded(l, is, y, earned)
      BY <1>0, <1>4, <2>1, WorkerExact DEF BookByWorker
    <2>8. Emptied(ledger.rows)' /\ RealisedMatchesTrades'
      <3> HIDE DEF l, is, y, earned
      <3> QED
        BY <1>0, <2>1, <2>2, <2>6, TradeBooked DEF ProfitInv
    <2>9. Balanced(session[x])'
      BY <2>1 DEF Balanced, Closed, ProfitInv, TypeOK
    <2> QED
      BY <2>8, <2>9
  <1> QED
    BY <1>3, <1>4

\* Closing one position: an exact sale, or an exact purchase of what is short.
LEMMA CloseOneBalanced ==
    ASSUME ProfitInv, NEW x \in Sessions, CloseOne(x)
    PROVE  Balanced(session[x])' /\ Emptied(ledger.rows)' /\ RealisedMatchesTrades'
  <1> DEFINE s == session[x]
             l == View(s)
  <1>0. /\ TypeOK /\ Balanced(s) /\ s.stage \in {"ready", "closing"} /\ base \in Int
        /\ ledger \in Ledgers /\ UNCHANGED <<ledger, flow, covered>>
    BY DEF CloseOne, ProfitInv, TypeOK
  <1>1. PICK y \in s.todo, q \in Quotes \cup {NoQuote} :
           session' = [session EXCEPT ![x] =
              [stage |-> "closing", job |-> s.job,
               read |-> BookedInline(l, ClosingOrder(l, y), ClosePrice(l.rows[y], q), base),
               base |-> s.base, seen |-> Symbols,
               was |-> IF s.stage = "ready" THEN l ELSE s.was,
               todo |-> s.todo \ {y},
               earned |-> s.earned + Proceeds(ClosingOrder(l, y).side,
                                              ClosingOrder(l, y).quantity,
                                              ClosePrice(l.rows[y], q))]]
    BY DEF CloseOne
  <1> DEFINE o == ClosingOrder(l, y)
             p == ClosePrice(l.rows[y], q)
             e == Proceeds(o.side, o.quantity, p)
             is == BookedInline(l, o, p, base)
             was == IF s.stage = "ready" THEN l ELSE s.was
  <1>2. l \in Ledgers /\ y \in Symbols
    BY <1>0, ViewWhole, SessionWhole
  <1>3. l.rows[y] \in Rows /\ l.rows[y].quantity \in Int
    BY <1>2 DEF Ledgers, Rows
  <1>4. p \in Int
    BY <1>3, ConstantsWhole DEF ClosePrice, Rows, NoQuote
  <1>5. /\ Bookable(l, o) /\ o.quantity \in Nat /\ o.symbol = y
        /\ ~(o.side = "BUY" /\ l.rows[y].quantity > 0)
        /\ ~InsertsTwice(l, o)
        /\ l.rows[y].quantity >= 0 => ~CoversShort(l, o)
    BY <1>2, <1>3 DEF Bookable, ClosingOrder, InsertsTwice, CoversShort
  <1>6. is \in Ledgers /\ e \in Int /\ s.earned \in Int
    BY <1>0, <1>2, <1>4, <1>5, BookedInlineWhole, ProceedsWhole, SessionWhole
  <1>7. s.stage = "ready" => l.rows = ledger.rows /\ l.pnl = ledger.pnl /\ s.earned = 0
    BY <1>0, ViewAlone DEF Balanced
  <1>8. s.stage = "closing" => l.rows = s.read.rows /\ l.pnl = s.read.pnl
    <2> SUFFICES ASSUME s.stage = "closing" PROVE l.rows = s.read.rows /\ l.pnl = s.read.pnl
      OBVIOUS
    <2>1. s.read \in Ledgers /\ s.seen = Symbols
      BY <1>0, SessionWhole DEF Balanced
    <2>2. [z \in Symbols |-> IF z \in s.seen THEN s.read.rows[z] ELSE ledger.rows[z]]
          = s.read.rows
      BY <2>1 DEF Ledgers
    <2>3. l = [s.read EXCEPT !.rows = s.read.rows]
      BY <2>2 DEF View
    <2> HIDE DEF l, s
    <2> QED
      BY <2>1, <2>3 DEF Ledgers
  <1>9. Emptied(l.rows)
    BY <1>0, <1>7, <1>8 DEF ProfitInv, Balanced
  <1>10. was.rows = ledger.rows /\ was.pnl = ledger.pnl
    BY <1>0, <1>7 DEF Balanced
  <1>11. Emptied(is.rows)
    <2>1. CASE CoversShort(l, o)
      <3>1. is.rows = l.rows
        BY <1>2, <1>3, <1>5, <2>1, CoveredStays
      <3> QED
        BY <1>9, <3>1
    <2>2. CASE ~CoversShort(l, o)
      BY <1>0, <1>2, <1>4, <1>5, <1>9, <2>2, InlineEmptied
    <2> QED
      BY <2>1, <2>2
  <1>12. ASSUME NoShorts(was.rows)
         PROVE  /\ NoShorts(is.rows)
                /\ is.pnl - Cost(is.rows) = was.pnl - Cost(was.rows) + (s.earned + e)
    <2>1. /\ NoShorts(l.rows)
          /\ l.pnl - Cost(l.rows) = was.pnl - Cost(was.rows) + s.earned
      <3>1. CASE s.stage = "ready"
        <4>1. was = l /\ s.earned = 0
          BY <1>7, <3>1
        <4>2. l.pnl \in Int /\ Cost(l.rows) \in Int
          BY <1>2, TotalsWhole DEF Ledgers, Portfolios
        <4> HIDE DEF l, was
        <4> QED
          BY <1>12, <4>1, <4>2
      <3>2. CASE s.stage = "closing"
        <4>1. was = s.was
          BY <3>2
        <4>2. NoShorts(s.was.rows) =>
                  /\ NoShorts(s.read.rows)
                  /\ s.read.pnl - Cost(s.read.rows) = s.was.pnl - Cost(s.was.rows) + s.earned
          BY <1>0, <3>2 DEF Balanced
        <4> HIDE DEF l, was
        <4> QED
          BY <1>8, <1>12, <3>2, <4>1, <4>2
      <3> QED
        BY <1>0, <3>1, <3>2
    <2>2. l.rows[y].quantity >= 0 /\ ~CoversShort(l, o)
      BY <1>2, <1>5, <2>1 DEF NoShorts
    <2>3. l.rows[y].stored \/ l.rows[y].quantity = 0
      BY <1>2, <1>9 DEF Emptied
    <2>4. Traded(l, is, y, e)
      <3> HIDE DEF l, o, p
      <3> QED
        BY <1>0, <1>2, <1>4, <1>5, <2>2, <2>3, InlineTrades
    <2>5. is.rows[y].quantity = 0
      <3>1. l.rows \in Portfolios
        BY <1>2 DEF Ledgers, Portfolios
      <3>2. Open(is.rows) \subseteq Open(l.rows) \ {y}
        <4> HIDE DEF l, p
        <4> QED
          BY <1>2, <2>2, <3>1, ClosedRow
      <3> QED
        BY <1>2, <3>2 DEF Open
    <2> HIDE DEF l, o, p, e, is, was
    <2>6. NoShorts(is.rows)
      BY <2>1, <2>4, <2>5 DEF NoShorts, Traded
    <2>7. /\ is.pnl - Cost(is.rows) = l.pnl - Cost(l.rows) + e
      BY <2>4 DEF Traded
    <2>8. was.pnl - Cost(was.rows) \in Int
      <3>1. was \in Ledgers
        BY <1>0, <1>2, SessionWhole DEF was
      <3> QED
        BY <3>1, TotalsWhole DEF Ledgers, Portfolios
    <2> DEFINE c == was.pnl - Cost(was.rows)
               d == l.pnl - Cost(l.rows)
               f == is.pnl - Cost(is.rows)
    <2>9. f = c + (s.earned + e)
      <3>1. d = c + s.earned /\ f = d + e /\ c \in Int
        BY <2>1, <2>7, <2>8
      <3> HIDE DEF c, d, f
      <3> QED
        BY <1>6, <3>1
    <2> QED
      BY <2>6, <2>9
  <1> DEFINE n == [stage |-> "closing", job |-> s.job, read |-> is, base |-> s.base,
                   seen |-> Symbols, was |-> was, todo |-> s.todo \ {y},
                   earned |-> s.earned + e]
  <1>13. session'[x] = n
    BY <1>0, <1>1 DEF TypeOK
  <1>14. /\ n.stage = "closing" /\ n.was = was /\ n.seen = Symbols /\ n.read = is
         /\ n.earned = s.earned + e
    OBVIOUS
  <1>15. Balanced(session[x])'
    <2> HIDE DEF n, is, was, e, s
    <2>1. /\ session'[x].stage = "closing" /\ session'[x].was = was /\ session'[x].seen = Symbols
          /\ session'[x].read = is /\ session'[x].earned = s.earned + e
      BY <1>13, <1>14
    <2>2. was.rows = ledger'.rows /\ was.pnl = ledger'.pnl
      BY <1>0, <1>10
    <2> QED
      BY <1>11, <1>12, <2>1, <2>2 DEF Balanced, NoShorts, Emptied, Cost
  <1> QED
    BY <1>0, <1>15 DEF ProfitInv, Emptied, RealisedMatchesTrades, Cost

\* All positions closed, the session commits what they brought.
LEMMA EndClosingBalanced ==
    ASSUME ProfitInv, NEW x \in Sessions, EndClosing(x)
    PROVE  Balanced(session[x])' /\ Emptied(ledger.rows)' /\ RealisedMatchesTrades'
  <1> DEFINE s == session[x]
  <1>1. CASE Abandon(x)
    BY <1>1, AbandonBalanced
  <1>2. CASE ~Abandon(x)
    <2>1. /\ ledger' = Written(ledger, s.was, s.read)
          /\ flow' = flow + s.earned
          /\ covered' = (covered \/ \E y \in Symbols : s.was.rows[y].quantity < 0)
          /\ session' = [session EXCEPT ![x] = Closed]
          /\ s.stage = "closing"
      BY <1>2 DEF EndClosing, Close
    <2>2. /\ ledger \in Ledgers /\ s.was \in Ledgers /\ s.read \in Ledgers
          /\ flow \in Int /\ s.earned \in Int
      BY SessionWhole DEF ProfitInv, TypeOK
    <2>3. /\ s.was.rows = ledger.rows /\ s.was.pnl = ledger.pnl /\ Emptied(s.read.rows)
          /\ NoShorts(s.was.rows) =>
                s.read.pnl - Cost(s.read.rows) = s.was.pnl - Cost(s.was.rows) + s.earned
      BY <2>1 DEF ProfitInv, Balanced
    <2>4. /\ ledger'.pnl = s.read.pnl /\ Cost(ledger'.rows) = Cost(s.read.rows)
          /\ Emptied(ledger'.rows)
      BY <2>1, <2>2, <2>3, WrittenOver
    <2>5. covered' \/ (~covered /\ NoShorts(s.was.rows))
      <3>1. \A y \in Symbols : s.was.rows[y].quantity \in Int
        BY <2>2 DEF Ledgers, Rows
      <3>2. NoShorts(s.was.rows) \/ \E y \in Symbols : s.was.rows[y].quantity < 0
        BY <3>1 DEF NoShorts
      <3> QED
        BY <2>1, <3>2, Zenon
    <2>6. covered' \/ ledger'.pnl = flow' + Cost(ledger'.rows)
      <3>1. /\ Cost(s.read.rows) \in Int /\ Cost(s.was.rows) \in Int /\ s.read.pnl \in Int
        BY <2>2, TotalsWhole DEF Ledgers, Portfolios
      <3>2. covered \/ s.was.pnl = flow + Cost(s.was.rows)
        BY <2>3 DEF ProfitInv, RealisedMatchesTrades
      <3>3. ASSUME ~covered, NoShorts(s.was.rows)
            PROVE  s.read.pnl = flow + s.earned + Cost(s.read.rows)
        <4>1. s.read.pnl - Cost(s.read.rows) = flow + s.earned
          BY <2>2, <2>3, <3>1, <3>2, <3>3
        <4> HIDE DEF s
        <4> QED
          BY <2>2, <3>1, <4>1
      <3> HIDE DEF s
      <3>4. ASSUME ~covered, NoShorts(s.was.rows)
            PROVE  ledger'.pnl = flow' + Cost(ledger'.rows)
        BY <2>1, <2>4, <3>3, <3>4
      <3> QED
        BY <2>5, <3>4
    <2>7. Balanced(session[x])'
      BY <2>1 DEF Balanced, Closed, ProfitInv, TypeOK
    <2> QED
      BY <2>4, <2>6, <2>7 DEF Emptied, RealisedMatchesTrades, Cost
  <1> QED
    BY <1>1, <1>2

\* The same trades and the same profit are as well balanced as before.
LEMMA SameBalanced ==
    ASSUME ProfitInv, SameTrades(ledger.rows, ledger'.rows), ledger' \in Ledgers
    PROVE  Emptied(ledger'.rows) /\ Cost(ledger'.rows) = Cost(ledger.rows)
  <1>1. Emptied(ledger'.rows)
    BY DEF ProfitInv, Emptied, SameTrades
  <1>2. ledger.rows \in Portfolios /\ ledger'.rows \in Portfolios
    BY DEF ProfitInv, TypeOK, Ledgers, Portfolios
  <1> QED
    BY <1>1, <1>2, SameTradesCost

\* Writing the summary revalues, and trades nothing.
LEMMA WriteSummaryBalanced ==
    ASSUME ProfitInv, NEW x \in Sessions, WriteSummary(x)
    PROVE  Balanced(session[x])' /\ Emptied(ledger.rows)' /\ RealisedMatchesTrades'
  <1> DEFINE s == session[x]
             l == OnlySeen(s)
  <1>1. CASE Abandon(x)
    BY <1>1, AbandonBalanced
  <1>2. CASE ~Abandon(x)
    <2>1. PICK quotes \in [Symbols -> Quotes \cup {NoQuote}] :
             /\ ledger' = Written(ledger, l, Summarised(l, quotes, s.base))
             /\ session' = [session EXCEPT ![x] = Closed]
             /\ UNCHANGED <<flow, covered>>
      BY <1>2 DEF WriteSummary, Close
    <2> DEFINE is == Summarised(l, quotes, s.base)
    <2>2. /\ l \in Ledgers /\ quotes \in Seen /\ s.base \in Int /\ ledger \in Ledgers
      BY ViewWhole, SessionWhole, QuotesSeen DEF ProfitInv, TypeOK
    <2>3. is \in Ledgers /\ is.pnl = l.pnl /\ SameTrades(l.rows, is.rows)
      BY <2>2, SummarisedWhole, SummarisedSame
    <2> HIDE DEF l, is
    <2>4. ledger' = Written(ledger, l, is)
      BY <2>1 DEF is
    <2>5. /\ SameTrades(ledger.rows, ledger'.rows) /\ ledger'.pnl = ledger.pnl
          /\ ledger' \in Ledgers
      BY <2>2, <2>3, <2>4, WrittenSame, WrittenWhole
    <2>6. Emptied(ledger'.rows) /\ Cost(ledger'.rows) = Cost(ledger.rows)
      BY <2>5, SameBalanced
    <2>7. Balanced(session[x])'
      BY <2>1 DEF Balanced, Closed, ProfitInv, TypeOK
    <2> QED
      BY <2>1, <2>5, <2>6, <2>7 DEF Emptied, RealisedMatchesTrades, Cost, ProfitInv
  <1> QED
    BY <1>1, <1>2

\* The capital requests start the account of the profit again, or leave it.
LEMMA ChangeCapitalBalanced ==
    ASSUME ProfitInv, NEW x \in Sessions, ChangeCapital(x)
    PROVE  Balanced(session[x])' /\ Emptied(ledger.rows)' /\ RealisedMatchesTrades'
  <1> DEFINE s == session[x]
             is == ChangedLedger(s)
  <1>1. /\ s.job.kind \in {"addcapital", "setcapital", "resetcapital"} /\ s.stage = "begun"
        /\ ledger' = Written(ledger, s.read, is)
        /\ IF s.job.kind = "resetcapital"
           THEN flow' = -Cost(ledger.rows) /\ covered' = FALSE
           ELSE UNCHANGED <<flow, covered>>
        /\ session' = [session EXCEPT ![x] = Closed]
    BY DEF ChangeCapital, Close, ChangedLedger
  <1>2. /\ s.read \in Ledgers /\ ledger \in Ledgers /\ s.read.pnl = ledger.pnl
        /\ ledger.pnl \in Int
    BY <1>1, SessionWhole DEF ProfitInv, TypeOK, Balanced, Ledgers
  <1>3. ledger' \in Ledgers
    BY ChangeCapitalWhole DEF ProfitInv, TypeOK
  <1>4. /\ is.rows = s.read.rows
        /\ is.pnl = IF s.job.kind = "resetcapital" THEN 0 ELSE s.read.pnl
    <2>1. CASE s.job.kind = "addcapital"
      BY <1>2, <2>1 DEF ChangedLedger, Ledgers
    <2>2. CASE s.job.kind = "setcapital"
      BY <1>2, <2>2 DEF ChangedLedger, Ledgers
    <2>3. CASE s.job.kind = "resetcapital"
      BY <2>3 DEF ChangedLedger
    <2> QED
      BY <1>1, <2>1, <2>2, <2>3
  <1> HIDE DEF is
  <1>5. SameTrades(ledger.rows, ledger'.rows)
    <2>1. \A y \in Symbols :
             ledger'.rows[y] = WriteRow(ledger.rows[y], s.read.rows[y], s.read.rows[y])
      BY <1>1, <1>4 DEF Written
    <2>2. \A c, d : Write(c, d, d) = c
      BY DEF Write
    <2>3. \A h, g : /\ WriteRow(h, g, g).stored = h.stored
                    /\ WriteRow(h, g, g).quantity = h.quantity
                    /\ WriteRow(h, g, g).avg = h.avg
      BY <2>2 DEF WriteRow
    <2> QED
      BY <2>1, <2>3 DEF SameTrades
  <1>6. Emptied(ledger'.rows) /\ Cost(ledger'.rows) = Cost(ledger.rows)
    BY <1>3, <1>5, SameBalanced
  <1>7. ledger'.pnl = Write(ledger.pnl, s.read.pnl, is.pnl)
    BY <1>1 DEF Written
  <1>8. covered' \/ ledger'.pnl = flow' + Cost(ledger'.rows)
    <2>0. Cost(ledger.rows) \in Int
      BY <1>2, TotalsWhole DEF Ledgers, Portfolios
    <2>1. CASE s.job.kind = "resetcapital"
      <3>1. ledger'.pnl = 0
        BY <1>2, <1>4, <1>7, <2>1 DEF Write
      <3>2. flow' = -Cost(ledger.rows)
        BY <1>1, <2>1
      <3> QED
        BY <1>6, <2>0, <3>1, <3>2
    <2>2. CASE s.job.kind # "resetcapital"
      <3>1. ledger'.pnl = ledger.pnl
        BY <1>4, <1>7, <2>2 DEF Write
      <3>2. UNCHANGED <<flow, covered>>
        BY <1>1, <2>2
      <3> QED
        BY <1>6, <3>1, <3>2 DEF ProfitInv, RealisedMatchesTrades
    <2> QED
      BY <2>1, <2>2
  <1>9. Balanced(session[x])'
    BY <1>1 DEF Balanced, Closed, ProfitInv, TypeOK
  <1> QED
    BY <1>6, <1>8, <1>9 DEF Emptied, RealisedMatchesTrades, Cost

\* A new account has neither profit nor shares.
LEMMA EmptyBalanced == Emptied(EmptyLedger.rows) /\ Cost(EmptyLedger.rows) = 0
  <1> DEFINE f == [y \in Symbols |-> Worth(EmptyLedger.rows[y])]
  <1>1. Emptied(EmptyLedger.rows)
    BY DEF Emptied, EmptyLedger, NoHolding
  <1>2. \A y \in Symbols : f[y] = 0
    BY DEF EmptyLedger, NoHolding, Worth
  <1>3. Cost(EmptyLedger.rows) = SumFunctionOnSet(f, Symbols)
    BY EmptyWhole, CostIsWorth DEF Ledgers, Portfolios
  <1> HIDE DEF f
  <1> QED
    BY <1>1, <1>2, <1>3, SumZero, LedgerAssumption

LEMMA ResetAccountBalanced ==
    ASSUME ProfitInv, NEW x \in Sessions, ResetAccount(x)
    PROVE  Balanced(session[x])' /\ Emptied(ledger.rows)' /\ RealisedMatchesTrades'
  <1> DEFINE s == session[x]
  <1>1. CASE Abandon(x)
    BY <1>1, AbandonBalanced
  <1>2. CASE ~Abandon(x)
    <2>1. /\ ledger'.pnl = Write(ledger.pnl, s.read.pnl, 0)
          /\ ledger'.rows = EmptyLedger.rows /\ flow' = 0
          /\ session'[x] = Closed /\ s.stage = "begun"
      BY <1>2 DEF ResetAccount
    <2>2. ledger'.pnl = 0
      BY <2>1 DEF Write, ProfitInv, Balanced
    <2>3. Emptied(ledger'.rows) /\ ledger'.pnl = flow' + Cost(ledger'.rows)
      BY <2>1, <2>2, EmptyBalanced
    <2>4. Balanced(session[x])'
      BY <2>1 DEF Balanced, Closed
    <2> QED
      BY <2>3, <2>4 DEF Emptied, RealisedMatchesTrades, Cost
  <1> QED
    BY <1>1, <1>2

\* A new account is balanced.
LEMMA StartsBalanced == ASSUME Init PROVE ProfitInv
  <1>1. TypeOK
    BY StartsTyped
  <1>2. /\ ledger = EmptyLedger /\ flow = 0 /\ EmptyLedger.pnl = 0
        /\ \A x \in Sessions : session[x] = Closed
    BY DEF Init, EmptyLedger
  <1>3. Emptied(ledger.rows) /\ ledger.pnl = flow + Cost(ledger.rows)
    BY <1>2, EmptyBalanced
  <1>4. \A x \in Sessions : Balanced(session[x])
    BY <1>2 DEF Balanced, Closed
  <1> QED
    BY <1>1, <1>3, <1>4 DEF ProfitInv, RealisedMatchesTrades

\* Every step of a session alone keeps the balance.
LEMMA ProfitStep ==
    ASSUME NEW s0, Sessions = {s0}, ProfitInv, AveragesExact', [Next]_vars
    PROVE  ProfitInv'
  <1> SUFFICES Balanced(session[s0])' /\ Emptied(ledger.rows)' /\ RealisedMatchesTrades'
    BY TypedStep DEF ProfitInv
  <1>0. s0 \in Sessions
    OBVIOUS
  <1>1. CASE UNCHANGED vars
    <2>1. ledger' = ledger /\ session' = session /\ flow' = flow /\ covered' = covered
      BY <1>1 DEF vars
    <2>2. Balanced(session[s0]) /\ Emptied(ledger.rows) /\ RealisedMatchesTrades
      BY <1>0 DEF ProfitInv
    <2> QED
      BY <2>1, <2>2 DEF Balanced, Emptied, RealisedMatchesTrades, Cost, NoShorts, Stored
  <1>2. CASE BeginOrder(s0) \/ BeginFill(s0) \/ BeginOther(s0) \/ BeginCapital(s0)
    BY <1>0, <1>2, OpeningBalanced
  <1>3. CASE CheckOrder(s0) \/ ReadHolding(s0) \/ ReadPositions(s0) \/ ReadSummary(s0)
    BY <1>0, <1>3, ReadingBalanced
  <1>4. CASE BookInline(s0) \/ BookByWorker(s0)
    BY <1>0, <1>4, BookInlineBalanced, BookByWorkerBalanced
  <1>5. CASE CloseOne(s0) \/ EndClosing(s0)
    BY <1>0, <1>5, CloseOneBalanced, EndClosingBalanced
  <1>6. CASE WriteSummary(s0)
    BY <1>0, <1>6, WriteSummaryBalanced
  <1>7. CASE ChangeCapital(s0) \/ ResetAccount(s0)
    BY <1>0, <1>7, ChangeCapitalBalanced, ResetAccountBalanced
  <1> QED
    BY <1>1, <1>2, <1>3, <1>4, <1>5, <1>6, <1>7 DEF Next

\* While nothing else is at work on the account, the realised profit is what the
\* sales brought minus what the purchases cost, plus the cost of what is still
\* held or owed: for orders filled on arrival, fills of the sweep, closing
\* sessions, the summary and the capital requests, with any products, prices and
\* quantities.  The averages have to come out whole: the code rounds them when a
\* row is written, and what rounding takes is in no account.
THEOREM ProfitIsOfTrades ==
    ASSUME NEW s0, Sessions = {s0}
    PROVE  Spec /\ []AveragesExact => []RealisedMatchesTrades
  <1>1. Init => ProfitInv
    BY StartsBalanced
  <1>2. ProfitInv /\ AveragesExact' /\ [Next]_vars => ProfitInv'
    BY ProfitStep
  <1>3. ProfitInv => RealisedMatchesTrades
    BY DEF ProfitInv
  <1> QED
    BY <1>1, <1>2, <1>3, PTL DEF Spec

(***************************************************************************)
(* The total that the risk engine weighs.  What the rows say was invested  *)
(* is never less than what is held cost, while no average is negative.     *)
(***************************************************************************)
FairRow(h) == /\ ~h.stored => h.avg >= 0
              /\ h.avg >= 0 => h.invested >= Worth(h)
FairRows(rows) == \A y \in Symbols : FairRow(rows[y])
Sound(rows) == \A y \in Symbols : rows[y].avg >= 0
Fair(l) == FairRows(l.rows) /\ (Sound(l.rows) => l.invested >= Cost(l.rows))

\* Rows that are fair are worth no more than they say together.
LEMMA FairRowsAddUp ==
    ASSUME NEW rows \in Portfolios, FairRows(rows), Sound(rows)
    PROVE  Invested(rows) >= Cost(rows)
  <1> DEFINE f == [y \in Symbols |-> Worth(rows[y])]
             g == [y \in Symbols |-> rows[y].invested]
  <1>1. \A y \in Symbols : f[y] \in Int /\ g[y] \in Int /\ f[y] <= g[y]
    <2>1. ASSUME NEW y \in Symbols PROVE f[y] \in Int /\ g[y] \in Int /\ f[y] <= g[y]
      <3>1. rows[y] \in Rows /\ Worth(rows[y]) \in Int /\ rows[y].invested >= Worth(rows[y])
        BY WorthWhole DEF Portfolios, FairRows, FairRow, Sound
      <3> QED
        BY <3>1 DEF Rows
    <2> QED
      BY <2>1
  <1>2. Cost(rows) = SumFunctionOnSet(f, Symbols) /\ Invested(rows) = SumFunctionOnSet(g, Symbols)
    BY CostIsWorth DEF Invested, SumFunction
  <1> HIDE DEF f, g
  <1>3. SumFunctionOnSet(f, Symbols) <= SumFunctionOnSet(g, Symbols)
    BY <1>1, SumAtMost, LedgerAssumption
  <1>4. SumFunctionOnSet(f, Symbols) \in Int /\ SumFunctionOnSet(g, Symbols) \in Int
    BY <1>1, SumInt, LedgerAssumption
  <1> QED
    BY <1>2, <1>3, <1>4

LEMMA OpenedFair == ASSUME NEW q \in Int, NEW p \in Int PROVE FairRow(Opened(q, p))
  <1>1. p * q \in Int
    BY ProductInt
  <1> QED
    BY <1>1 DEF FairRow, Opened, Worth

LEMMA ReducedFair == ASSUME NEW h \in Rows, FairRow(h), NEW q \in Int, NEW p \in Int
                     PROVE  FairRow(Reduced(h, q, p))
  <1>1. h.avg * q \in Int
    BY ProductInt DEF Rows
  <1> QED
    BY <1>1 DEF FairRow, Reduced, Worth

LEMMA NoHoldingFair == FairRow(NoHolding)
  BY DEF FairRow, NoHolding, Worth

\* An averaged row is fair where the average is exact.
LEMMA AveragedFair ==
    ASSUME NEW h \in Rows, h.stored, NEW q \in Int, NEW p \in Int, h.quantity + q # 0,
           Averaged(h, q, p).invested = Worth(Averaged(h, q, p))
    PROVE  FairRow(Averaged(h, q, p))
  <1> DEFINE g == Averaged(h, q, p)
  <1>0. g.stored
    BY DEF Averaged
  <1>1. g \in Rows
    BY AveragedWhole
  <1>2. Worth(g) \in Int
    BY <1>1, WorthWhole
  <1> HIDE DEF g
  <1>3. g.invested = Worth(g)
    BY DEF g
  <1>4. FairRow(g)
    BY <1>0, <1>1, <1>2, <1>3 DEF FairRow
  <1> QED
    BY <1>4 DEF g

\* One fair row among fair rows.
LEMMA ExceptFair ==
    ASSUME NEW rows \in Portfolios, FairRows(rows), NEW y \in Symbols, NEW h, FairRow(h)
    PROVE  FairRows([rows EXCEPT ![y] = h])
  <1>1. ASSUME NEW z \in Symbols PROVE FairRow([rows EXCEPT ![y] = h][z])
    <2>1. CASE z = y
      BY <2>1 DEF Portfolios
    <2>2. CASE z # y
      BY <2>2 DEF Portfolios, FairRows
    <2> QED
      BY <2>1, <2>2
  <1> QED
    BY <1>1 DEF FairRows

\* A fill on arrival leaves fair rows, and counts them.
LEMMA InlineFair ==
    ASSUME NEW l \in Ledgers, NEW o, Bookable(l, o), o.quantity \in Nat, FairRows(l.rows),
           Emptied(l.rows), NEW p \in Int, NEW b \in Int,
           LET g == BookedInline(l, o, p, b).rows[o.symbol]
           IN  o.side = "BUY" /\ l.rows[o.symbol].quantity > 0 => g.invested = Worth(g)
    PROVE  Fair(BookedInline(l, o, p, b))
  <1> DEFINE y  == o.symbol
             h  == l.rows[y]
             n  == o.quantity
             is == BookedInline(l, o, p, b)
  <1>0. /\ h \in Rows /\ h.quantity \in Int /\ h.avg \in Int /\ n \in Nat /\ y \in Symbols
        /\ o.side \in {"BUY", "SELL"} /\ l.rows \in Portfolios /\ FairRow(h)
    BY DEF Ledgers, Bookable, Rows, Portfolios, FairRows
  <1>1. is \in Ledgers
    BY <1>0, BookedInlineWhole
  <1>2. PICK g : FairRow(g) /\ is.rows = [l.rows EXCEPT ![y] = g]
    <2>1. CASE o.side = "BUY" /\ h.quantity = 0
      <3>1. is = Recalculated(BuyToOpen(l, o, p), b)
        BY <1>0, <2>1 DEF BookedInline
      <3>2. is.rows = [l.rows EXCEPT ![y] = Opened(n, p)]
        BY <1>0, <2>1, <3>1 DEF Recalculated, Totalled, BuyToOpen, Posted
      <3>3. FairRow(Opened(n, p))
        BY <1>0, OpenedFair
      <3> HIDE DEF is
      <3> QED
        BY <3>2, <3>3
    <2>2. CASE o.side = "BUY" /\ h.quantity > 0
      <3> DEFINE g == Averaged(h, n, p)
      <3>1. is = Recalculated(BuyToOpen(l, o, p), b)
        BY <1>0, <2>2 DEF BookedInline
      <3>2. is.rows = [l.rows EXCEPT ![y] = g]
        BY <1>0, <2>2, <3>1 DEF Recalculated, Totalled, BuyToOpen, Posted
      <3>3. is.rows[y] = g
        BY <1>0, <3>2 DEF Ledgers
      <3>4. g.invested = Worth(g)
        BY <2>2, <3>3
      <3>5. h.quantity + n # 0 /\ h.stored
        BY <1>0, <2>2 DEF Emptied
      <3>6. FairRow(g)
        BY <1>0, <3>4, <3>5, AveragedFair
      <3> HIDE DEF is, g
      <3> QED
        BY <3>2, <3>6
    <2>3. CASE o.side = "BUY" /\ h.quantity < 0
      <3> DEFINE g == IF h.quantity + n < 0 THEN Reduced(h, h.quantity + n, p) ELSE h
      <3>1. is = Recalculated(BuyToCover(l, o, p), b)
        BY <1>0, <2>3 DEF BookedInline
      <3>2. is.rows = [l.rows EXCEPT ![y] = g]
        BY <1>0, <3>1 DEF Recalculated, Totalled, BuyToCover, Posted
      <3>3. FairRow(Reduced(h, h.quantity + n, p))
        BY <1>0, ReducedFair
      <3>4. FairRow(g)
        BY <1>0, <3>3
      <3> HIDE DEF is, g
      <3> QED
        BY <3>2, <3>4
    <2>4. CASE o.side = "SELL" /\ h.quantity >= n
      <3> DEFINE g == IF h.quantity > n THEN Reduced(h, h.quantity - n, p)
                                        ELSE [h EXCEPT !.quantity = 0]
      <3>1. is = Recalculated(SellToClose(l, o, p), b)
        BY <1>0, <2>4 DEF BookedInline
      <3>2. is.rows = [l.rows EXCEPT ![y] = g]
        BY <1>0, <3>1 DEF Recalculated, Totalled, SellToClose, Posted
      <3>3. FairRow(Reduced(h, h.quantity - n, p))
        BY <1>0, ReducedFair
      <3>4. FairRow([h EXCEPT !.quantity = 0])
        <4> DEFINE k == [h EXCEPT !.quantity = 0]
        <4>1. k.avg = h.avg /\ k.invested = h.invested /\ k.quantity = 0 /\ k.stored = h.stored
          BY <1>0 DEF Rows
        <4>2. \A i, j \in Nat : i * j >= 0
          OBVIOUS
        <4>3. ASSUME h.avg >= 0 PROVE h.invested >= 0
          <5>1. h.avg \in Nat /\ h.quantity \in Nat
            BY <1>0, <2>4, <4>3
          <5>2. Worth(h) >= 0 /\ Worth(h) \in Int /\ h.invested \in Int /\ h.invested >= Worth(h)
            BY <1>0, <4>2, <4>3, <5>1, WorthWhole DEF Worth, FairRow, Rows
          <5> QED
            BY <5>2
        <4>4. \A i \in Int : i * 0 = 0
          OBVIOUS
        <4>5. h.avg * 0 = 0
          BY <1>0, <4>4
        <4> HIDE DEF k
        <4>6. FairRow(k)
          BY <1>0, <4>1, <4>3, <4>5 DEF FairRow, Worth
        <4> QED
          BY <4>6 DEF k
      <3>5. FairRow(g)
        BY <3>3, <3>4
      <3> HIDE DEF is, g
      <3> QED
        BY <3>2, <3>5
    <2>5. CASE o.side = "SELL" /\ h.quantity < n
      <3>1. is = Recalculated(SellToOpen(l, o, p), b)
        BY <1>0, <2>5 DEF BookedInline
      <3>2. is.rows = [l.rows EXCEPT ![y] = Opened(-n, p)]
        BY <1>0, <3>1 DEF Recalculated, Totalled, SellToOpen, Posted
      <3>3. FairRow(Opened(-n, p))
        BY <1>0, OpenedFair
      <3> HIDE DEF is
      <3> QED
        BY <3>2, <3>3
    <2>6. \/ o.side = "BUY" /\ (h.quantity = 0 \/ h.quantity > 0 \/ h.quantity < 0)
          \/ o.side = "SELL" /\ (h.quantity >= n \/ h.quantity < n)
      BY <1>0
    <2> HIDE DEF is, h, n
    <2> QED
      BY <2>1, <2>2, <2>3, <2>4, <2>5, <2>6
  <1>3. is.invested = Invested(is.rows)
    <2>1. \A m : Recalculated(m, b).invested = Invested(m.rows)
                 /\ Recalculated(m, b).rows = m.rows
      BY DEF Recalculated, Totalled
    <2>2. \E m : is = Recalculated(m, b)
      BY DEF BookedInline
    <2> HIDE DEF is
    <2> QED
      BY <2>1, <2>2
  <1> HIDE DEF is
  <1>4. FairRows(is.rows) /\ is.rows \in Portfolios
    BY <1>0, <1>1, <1>2, ExceptFair DEF Ledgers, Portfolios
  <1>5. Fair(is)
    BY <1>3, <1>4, FairRowsAddUp DEF Fair
  <1> QED
    BY <1>5 DEF is

\* Looking the prices up leaves fair rows fair, and counts them at cost.
LEMMA RecalculatedAtFair ==
    ASSUME NEW l \in Ledgers, FairRows(l.rows), NEW quotes \in Seen, NEW b \in Int
    PROVE  Fair(RecalculatedAt(l, quotes, b))
  <1> DEFINE is == RecalculatedAt(l, quotes, b)
  <1>1. is.rows = [s \in Symbols |-> IF l.rows[s].stored /\ quotes[s] # 0
                                     THEN [l.rows[s] EXCEPT !.price = quotes[s]]
                                     ELSE l.rows[s]]
        /\ is.invested = Cost(is.rows)
    BY DEF RecalculatedAt, Totalled
  <1>2. is \in Ledgers
    BY RecalculatedAtWhole
  <1>3. ASSUME NEW z \in Symbols PROVE FairRow(is.rows[z])
    <2>1. l.rows[z] \in Rows /\ FairRow(l.rows[z]) /\ quotes[z] \in Nat
      BY DEF Ledgers, FairRows, Seen
    <2>2. is.rows[z] = l.rows[z] \/ is.rows[z] = [l.rows[z] EXCEPT !.price = quotes[z]]
      BY <1>1
    <2> HIDE DEF is
    <2>3. FairRow([l.rows[z] EXCEPT !.price = quotes[z]])
      BY <2>1 DEF FairRow, Rows, Worth
    <2> QED
      BY <2>1, <2>2, <2>3
  <1> HIDE DEF is
  <1>4. Cost(is.rows) \in Int
    BY <1>2, TotalsWhole DEF Ledgers, Portfolios
  <1>5. Fair(is)
    BY <1>1, <1>3, <1>4 DEF Fair, FairRows
  <1> QED
    BY <1>5 DEF is

\* What the worker books is fair as well.
LEMMA WorkerFair ==
    ASSUME NEW l \in Ledgers, NEW o, o.symbol \in Symbols, o.side \in {"BUY", "SELL"},
           o.quantity \in Nat \ {0}, ~DividesByZero(l, o), FairRows(l.rows),
           NEW p \in Int, NEW quotes \in Seen, NEW b \in Int,
           LET g == BookedByWorker(l, o, p, quotes, b).rows[o.symbol]
           IN  o.side = "BUY" /\ l.rows[o.symbol].stored => g.invested = Worth(g)
    PROVE  Fair(BookedByWorker(l, o, p, quotes, b))
  <1> DEFINE y == o.symbol
             h == l.rows[y]
             q == o.quantity
             n == Sold(l, o)
  <1>0. /\ h \in Rows /\ h.quantity \in Int /\ h.avg \in Int /\ y \in Symbols
        /\ l.rows \in Portfolios /\ FairRow(h) /\ q \in Int
    BY DEF Ledgers, Rows, Portfolios, FairRows
  <1>1. CASE o.side = "BUY"
    <2> DEFINE m == HandleBuy(l, o, p)
               g == IF h.stored THEN Averaged(h, q, p) ELSE Opened(q, p)
               is == RecalculatedAt(m, quotes, b)
    <2>1. m \in Ledgers
      BY <1>1, HandledWhole
    <2>2. m.rows = [l.rows EXCEPT ![y] = g]
      BY DEF HandleBuy, Posted
    <2>3. m.rows[y] = g
      BY <1>0, <2>2 DEF Ledgers
    <2>4. BookedByWorker(l, o, p, quotes, b) = is
      BY <1>1 DEF BookedByWorker
    <2>5. FairRow(g)
      <3>1. CASE h.stored
        <4>1. is.rows[y].invested = Worth(is.rows[y])
          BY <1>1, <2>4, <3>1
        <4>2. is.rows[y].invested = g.invested /\ Worth(is.rows[y]) = Worth(g)
          BY <1>0, <2>1, <2>3, RecalculatedAtSame DEF SameTrades, Worth
        <4>3. g = Averaged(h, q, p)
          BY <3>1
        <4>5. h.quantity + q # 0
          BY <1>1, <3>1 DEF DividesByZero
        <4> HIDE DEF g, is, h
        <4>4. Averaged(h, q, p).invested = Worth(Averaged(h, q, p))
          BY <4>1, <4>2, <4>3
        <4> QED
          BY <1>0, <3>1, <4>3, <4>4, <4>5, AveragedFair DEF h
      <3>2. CASE ~h.stored
        BY <3>2, OpenedFair
      <3> QED
        BY <3>1, <3>2
    <2>6. FairRows(m.rows)
      <3> HIDE DEF m, g
      <3> QED
        BY <1>0, <2>2, <2>5, ExceptFair
    <2> HIDE DEF m
    <2>7. Fair(is)
      BY <2>1, <2>6, RecalculatedAtFair
    <2> QED
      BY <2>4, <2>7
  <1>2. CASE o.side = "SELL"
    <2> DEFINE m == HandleSell(l, o, p)
               g == Depleted(h, n, p)
               is == RecalculatedAt(m, quotes, b)
    <2>1. m \in Ledgers
      BY HandledWhole
    <2>2. BookedByWorker(l, o, p, quotes, b) = is
      BY <1>2 DEF BookedByWorker
    <2>3. n \in Int
      BY <1>0 DEF Sold, Smaller
    <2>4. FairRow(g)
      <3>1. CASE h.quantity = n
        BY <3>1, NoHoldingFair DEF Depleted
      <3>2. CASE h.quantity # n
        <4> DEFINE r == Reduced(h, h.quantity - n, p)
                   k == [r EXCEPT !.price = h.price]
        <4>1. FairRow(r) /\ r \in Rows
          <5> HIDE DEF n
          <5>1. h.quantity - n \in Int
            BY <1>0, <2>3
          <5> QED
            BY <1>0, <5>1, ReducedFair, ReducedWhole
        <4>2. g = k
          BY <3>2 DEF Depleted
        <4> HIDE DEF r
        <4>3. /\ k.avg = r.avg /\ k.quantity = r.quantity /\ k.invested = r.invested
              /\ k.stored = r.stored
          BY <4>1 DEF Rows
        <4> HIDE DEF k, g, h
        <4> QED
          BY <1>0, <4>1, <4>2, <4>3 DEF FairRow, Worth
      <3> QED
        BY <3>1, <3>2
    <2>5. FairRows(m.rows)
      <3>1. CASE n = 0
        <4>1. m = l
          BY <3>1 DEF HandleSell
        <4> QED
          BY <4>1
      <3>2. CASE n # 0
        <4>1. m.rows = [l.rows EXCEPT ![y] = g]
          BY <3>2 DEF HandleSell, Posted
        <4> HIDE DEF m, g
        <4> QED
          BY <1>0, <2>4, <4>1, ExceptFair
      <3> QED
        BY <3>1, <3>2
    <2> HIDE DEF m
    <2>6. Fair(is)
      BY <2>1, <2>5, RecalculatedAtFair
    <2> QED
      BY <2>2, <2>6
  <1> QED
    BY <1>1, <1>2

\* What is written over the ledger that it was computed from is as fair.
LEMMA WrittenFair ==
    ASSUME NEW now \in Ledgers, NEW was \in Ledgers, NEW is \in Ledgers,
           was.rows = now.rows, was.pnl = now.pnl, was.invested = now.invested,
           Emptied(is.rows), Fair(is)
    PROVE  Fair(Written(now, was, is))
  <1> DEFINE new == Written(now, was, is)
  <1>1. /\ Cost(new.rows) = Cost(is.rows)
        /\ \A y \in Symbols : new.rows[y] \in {is.rows[y], NoHolding}
        /\ \A y \in Symbols : is.rows[y].stored => new.rows[y] = is.rows[y]
    BY WrittenOver
  <1>2. new.invested = is.invested
    BY DEF Written, Write
  <1> HIDE DEF new
  <1>3. FairRows(new.rows)
    BY <1>1, NoHoldingFair DEF Fair, FairRows
  <1>4. Sound(new.rows) => Sound(is.rows)
    <2> SUFFICES ASSUME Sound(new.rows), NEW y \in Symbols PROVE is.rows[y].avg >= 0
      BY DEF Sound
    <2>1. CASE is.rows[y].stored
      BY <1>1, <2>1 DEF Sound
    <2>2. CASE ~is.rows[y].stored
      BY <2>2 DEF Fair, FairRows, FairRow
    <2> QED
      BY <2>1, <2>2
  <1>5. Fair(new)
    BY <1>1, <1>2, <1>3, <1>4 DEF Fair
  <1> QED
    BY <1>5 DEF new

\* The summary revalues the rows that hold shares, and counts them at cost.
LEMMA SummaryFair ==
    ASSUME ledger \in Ledgers, Fair(ledger), NEW l \in Ledgers,
           l.rows = [y \in Symbols |-> IF y \in Open(ledger.rows) THEN ledger.rows[y] ELSE NoHolding],
           l.invested = ledger.invested, NEW quotes \in Seen, NEW b \in Int
    PROVE  Fair(Written(ledger, l, Summarised(l, quotes, b)))
  <1> DEFINE is == Summarised(l, quotes, b)
             new == Written(ledger, l, is)
             At(y) == IF quotes[y] # 0 THEN quotes[y] ELSE l.rows[y].avg
  <1>1. \A y \in Symbols : /\ ledger.rows[y] \in Rows /\ FairRow(ledger.rows[y])
                           /\ quotes[y] \in Nat /\ l.rows[y] \in Rows
    BY DEF Ledgers, Fair, FairRows, Seen
  <1>2. Open(l.rows) = Open(ledger.rows)
    BY DEF Open, NoHolding
  <1>3. /\ is.rows = [y \in Symbols |-> IF y \in Open(l.rows)
                                        THEN Reduced(l.rows[y], l.rows[y].quantity, At(y))
                                        ELSE l.rows[y]]
        /\ is.invested = Cost(is.rows)
    BY DEF Summarised, Totalled
  <1>4. /\ new.rows = [y \in Symbols |-> WriteRow(ledger.rows[y], l.rows[y], is.rows[y])]
        /\ new.invested = Write(ledger.invested, l.invested, is.invested)
    BY DEF Written
  <1>5. is \in Ledgers /\ SameTrades(l.rows, is.rows)
    BY SummarisedWhole, SummarisedSame
  <1>6. new \in Ledgers /\ SameTrades(ledger.rows, new.rows)
    <2> HIDE DEF is
    <2> QED
      BY <1>5, WrittenSame, WrittenWhole
  <1>7. ASSUME NEW y \in Symbols PROVE FairRow(new.rows[y])
    <2> DEFINE n == ledger.rows[y]
               r == Reduced(n, n.quantity, At(y))
    <2>1. CASE y \in Open(ledger.rows)
      <3>1. l.rows[y] = n /\ is.rows[y] = r
        BY <1>2, <1>3, <2>1
      <3>2. At(y) \in Int /\ n.quantity \in Int /\ r.stored = n.stored
        <4>1. n \in Rows /\ quotes[y] \in Nat
          BY <1>1
        <4>2. n.avg \in Int /\ n.quantity \in Int
          BY <4>1 DEF Rows
        <4> QED
          BY <3>1, <4>1, <4>2 DEF Reduced
      <3>3. FairRow(r)
        <4> HIDE DEF At, n
        <4> QED
          BY <1>1, <3>2, ReducedFair DEF n
      <3>4. new.rows[y] = WriteRow(n, n, r)
        BY <1>4, <3>1
      <3> HIDE DEF n, r, new, is
      <3>5. /\ new.rows[y].avg = Write(n.avg, n.avg, r.avg)
            /\ new.rows[y].quantity = Write(n.quantity, n.quantity, r.quantity)
            /\ new.rows[y].invested = Write(n.invested, n.invested, r.invested)
            /\ new.rows[y].stored = Write(n.stored, n.stored, r.stored)
        BY <3>2, <3>4 DEF WriteRow
      <3>6. \A c, d : Write(c, c, d) = d
        BY DEF Write
      <3> QED
        BY <3>3, <3>5, <3>6 DEF FairRow, Worth
    <2>2. CASE y \notin Open(ledger.rows)
      <3>1. is.rows[y] = l.rows[y]
        BY <1>2, <1>3, <2>2
      <3>2. new.rows[y] = WriteRow(n, l.rows[y], l.rows[y])
        BY <1>4, <3>1
      <3> HIDE DEF n, new, is
      <3>3. /\ new.rows[y].avg = Write(n.avg, l.rows[y].avg, l.rows[y].avg)
            /\ new.rows[y].quantity = Write(n.quantity, l.rows[y].quantity, l.rows[y].quantity)
            /\ new.rows[y].invested = Write(n.invested, l.rows[y].invested, l.rows[y].invested)
            /\ new.rows[y].stored = Write(n.stored, l.rows[y].stored, l.rows[y].stored)
        BY <3>2 DEF WriteRow
      <3>4. \A c, d : Write(c, d, d) = c
        BY DEF Write
      <3> QED
        BY <1>1, <3>3, <3>4 DEF FairRow, Worth, n
    <2> QED
      BY <2>1, <2>2
  <1>8. Cost(l.rows) = Cost(ledger.rows)
    <2>1. ASSUME NEW y \in Symbols PROVE Worth(l.rows[y]) = Worth(ledger.rows[y])
      <3>1. CASE y \in Open(ledger.rows)
        BY <3>1
      <3>2. CASE y \notin Open(ledger.rows)
        <4>1. ledger.rows[y].quantity = 0 /\ l.rows[y].quantity = 0
          BY <3>2 DEF Open, NoHolding
        <4>2. ledger.rows[y].avg \in Int /\ l.rows[y].avg \in Int
          BY <1>1 DEF Rows
        <4>3. \A a \in Int : a * 0 = 0
          OBVIOUS
        <4> QED
          BY <4>1, <4>2, <4>3 DEF Worth
      <3> QED
        BY <3>1, <3>2
    <2>2. l.rows \in Portfolios /\ ledger.rows \in Portfolios
      BY DEF Ledgers, Portfolios
    <2> QED
      BY <2>1, <2>2, CostSame
  <1> HIDE DEF is, new
  <1>9. Cost(is.rows) = Cost(ledger.rows) /\ Cost(new.rows) = Cost(ledger.rows)
    <2>1. /\ l.rows \in Portfolios /\ ledger.rows \in Portfolios /\ is.rows \in Portfolios
          /\ new.rows \in Portfolios
      BY <1>5, <1>6 DEF Ledgers, Portfolios
    <2> QED
      BY <1>5, <1>6, <1>8, <2>1, SameTradesCost
  <1>10. Fair(new)
    <2>1. new.invested = Cost(new.rows)
      BY <1>3, <1>4, <1>9 DEF Write
    <2>2. new.invested \in Int
      BY <1>6 DEF Ledgers
    <2> QED
      BY <1>7, <2>1, <2>2 DEF Fair, FairRows
  <1> QED
    BY <1>10 DEF new, is

\* What a session has read of the total is what is there, and one that closes
\* positions counts the shares in what it would write.
Weighed(s) ==
    /\ s.stage \in {"begun", "ready"} => s.read.invested = ledger.invested
    /\ (s.stage = "ready" /\ s.job.kind = "summary") => s.seen = Open(ledger.rows)
    /\ s.stage = "closing" => s.was.invested = ledger.invested /\ Fair(s.read)

CountedInv ==
    /\ ProfitInv
    /\ Fair(ledger)
    /\ \A x \in Sessions : Weighed(session[x])

\* A session that is closed has nothing to weigh.
LEMMA ClosedWeighed ==
    ASSUME ProfitInv, NEW x \in Sessions, session' = [session EXCEPT ![x] = Closed]
    PROVE  Weighed(session[x])'
  <1>1. session'[x] = Closed
    BY DEF ProfitInv, TypeOK
  <1> QED
    BY <1>1 DEF Weighed, Closed

LEMMA AbandonWeighed ==
    ASSUME CountedInv, NEW x \in Sessions, Abandon(x)
    PROVE  Weighed(session[x])' /\ Fair(ledger)'
  BY ClosedWeighed DEF Abandon, Close, CountedInv, Fair, FairRows, Sound, Cost

LEMMA OpeningWeighed ==
    ASSUME CountedInv, NEW x \in Sessions,
           BeginOrder(x) \/ BeginFill(x) \/ BeginOther(x) \/ BeginCapital(x)
    PROVE  Weighed(session[x])' /\ Fair(ledger)'
  <1>1. PICK what : Begin(x, what)
    BY DEF BeginOrder, BeginFill, BeginOther, BeginCapital
  <1>2. UNCHANGED ledger
    BY DEF BeginOrder, BeginFill, BeginOther, BeginCapital
  <1>3. session'[x] = Opening(what, ledger, base)
    BY <1>1 DEF Begin, CountedInv, ProfitInv, TypeOK
  <1>4. /\ session'[x].stage = "begun" /\ session'[x].read = ledger
    BY <1>3 DEF Opening
  <1>5. Weighed(session[x])'
    BY <1>2, <1>4 DEF Weighed
  <1> QED
    BY <1>2, <1>5 DEF CountedInv, Fair, FairRows, Sound, Cost

\* Reading the holdings.
LEMMA RememberWeighed ==
    ASSUME CountedInv, NEW x \in Sessions, session[x].stage = "begun",
           NEW seen, NEW todo, session'[x] = Remember(session[x], seen, todo),
           session[x].job.kind = "summary" => seen = Open(ledger.rows),
           UNCHANGED ledger
    PROVE  Weighed(session[x])'
  <1> DEFINE s == session[x]
             r == Remember(s, seen, todo)
  <1>1. s.read \in Ledgers /\ s.read.invested = ledger.invested
    BY SessionWhole DEF CountedInv, ProfitInv, Weighed
  <1>2. /\ r.stage = "ready" /\ r.job = s.job /\ r.seen = seen
        /\ r.read = [s.read EXCEPT !.rows = ledger.rows]
    BY DEF Remember
  <1>3. r.read.invested = s.read.invested
    BY <1>1, <1>2 DEF Ledgers
  <1>4. session'[x] = r
    OBVIOUS
  <1> HIDE DEF r
  <1>5. /\ session'[x].stage = "ready" /\ session'[x].job = s.job /\ session'[x].seen = seen
        /\ session'[x].read.invested = ledger'.invested
    BY <1>1, <1>2, <1>3, <1>4
  <1>6. (session'[x].job.kind = "summary") => session'[x].seen = Open(ledger'.rows)
    BY <1>5
  <1> QED
    BY <1>5, <1>6 DEF Weighed, Open

LEMMA ReadingWeighed ==
    ASSUME CountedInv, NEW x \in Sessions,
           CheckOrder(x) \/ ReadHolding(x) \/ ReadPositions(x) \/ ReadSummary(x)
    PROVE  Weighed(session[x])' /\ Fair(ledger)'
  <1> DEFINE s == session[x]
             own == {s.job.order.symbol} \cap Stored(ledger.rows)
             open == Open(ledger.rows)
  <1>1. s.stage = "begun" /\ UNCHANGED ledger
    BY DEF CheckOrder, ReadHolding, ReadPositions, ReadSummary
  <1>2. \/ session' = [session EXCEPT ![x] = Closed]
        \/ s.job.kind \in {"order", "fill"} /\ session'[x] = Remember(s, own, {})
        \/ s.job.kind \in {"closeall", "summary"} /\ session'[x] = Remember(s, open, open)
        \/ s.job.kind \in {"closeall", "summary"} /\ session'[x] = Remember(s, open, {})
    BY DEF CheckOrder, ReadHolding, ReadPositions, ReadSummary, Close, CountedInv, ProfitInv, TypeOK
  <1>3. Weighed(session[x])'
    <2>1. CASE session' = [session EXCEPT ![x] = Closed]
      BY <2>1, ClosedWeighed DEF CountedInv
    <2>2. CASE s.job.kind \in {"order", "fill"} /\ session'[x] = Remember(s, own, {})
      BY <1>1, <2>2, RememberWeighed
    <2>3. CASE s.job.kind \in {"closeall", "summary"} /\ session'[x] = Remember(s, open, open)
      BY <1>1, <2>3, RememberWeighed
    <2>4. CASE s.job.kind \in {"closeall", "summary"} /\ session'[x] = Remember(s, open, {})
      BY <1>1, <2>4, RememberWeighed
    <2> QED
      BY <1>2, <2>1, <2>2, <2>3, <2>4
  <1> QED
    BY <1>1, <1>3 DEF CountedInv, Fair, FairRows, Sound, Cost

\* What a session sees alone is the ledger.
LEMMA AloneFair ==
    ASSUME CountedInv, NEW x \in Sessions, session[x].stage = "ready"
    PROVE  LET l == View(session[x])
           IN  /\ l \in Ledgers /\ l.rows = ledger.rows /\ l.pnl = ledger.pnl
               /\ l.invested = ledger.invested /\ FairRows(l.rows)
  <1> DEFINE s == session[x]
             l == View(s)
  <1>1. l \in Ledgers /\ l.rows = ledger.rows /\ l.pnl = ledger.pnl
    BY ViewAlone DEF CountedInv, ProfitInv
  <1>2. l.invested = s.read.invested
    <2>1. s.read \in Ledgers
      BY SessionWhole DEF CountedInv, ProfitInv
    <2>2. \A rows : [s.read EXCEPT !.rows = rows].invested = s.read.invested
      BY <2>1 DEF Ledgers
    <2> QED
      BY <2>2 DEF View
  <1>3. s.read.invested = ledger.invested /\ FairRows(ledger.rows)
    BY DEF CountedInv, Weighed, Fair
  <1> HIDE DEF l
  <1>4. FairRows(l.rows)
    BY <1>1, <1>3
  <1> QED
    BY <1>1, <1>2, <1>3, <1>4 DEF l

\* A fill on arrival; one that buys back exactly what is short leaves every row.
LEMMA BookInlineWeighed ==
    ASSUME CountedInv, NEW x \in Sessions, BookInline(x), AveragesExact'
    PROVE  Weighed(session[x])' /\ Fair(ledger)'
  <1> DEFINE s == session[x]
             o == s.job.order
             p == s.job.price
             l == View(s)
             is == BookedInline(l, o, p, base)
  <1>1. CASE InlineFails(s)
    BY <1>1, AbandonWeighed DEF BookInline
  <1>2. CASE ~InlineFails(s)
    <2>1. /\ s.stage = "ready" /\ s.job.kind = "order" /\ ledger' = Written(ledger, l, is)
          /\ session' = [session EXCEPT ![x] = Closed]
          /\ base \in Int /\ ledger \in Ledgers
      BY <1>2 DEF BookInline, Commit, Close, CountedInv, ProfitInv, TypeOK
    <2>2. /\ o.symbol \in Symbols /\ o.side \in {"BUY", "SELL"} /\ o.quantity \in Nat
          /\ o.quantity > 0 /\ p \in Int
      <3>1. o \in Orders /\ p \in Quotes
        BY <2>1, SessionWhole, JobFields DEF CountedInv, ProfitInv
      <3>2. Quotes \subseteq Int
        BY LedgerAssumption
      <3> HIDE DEF o, p
      <3> QED
        BY <3>1, <3>2, OrderFacts
    <2>3. /\ l \in Ledgers /\ l.rows = ledger.rows /\ l.pnl = ledger.pnl
          /\ l.invested = ledger.invested /\ FairRows(l.rows)
      BY <2>1, AloneFair
    <2>4. Bookable(l, o)
      BY <2>2, <2>3 DEF Bookable
    <2>5. /\ is \in Ledgers /\ Emptied(is.rows)
          /\ (o.side = "BUY" /\ l.rows[o.symbol].quantity > 0) =>
                 is.rows[o.symbol].invested = Worth(is.rows[o.symbol])
      <3>1. CASE ~CoversShort(l, o)
        BY <1>2, <3>1, InlineExact DEF CountedInv
      <3>2. CASE CoversShort(l, o)
        <4>1. is.rows = l.rows
          BY <2>2, <2>3, <3>2, CoveredStays
        <4>2. is \in Ledgers
          BY <2>1, <2>2, <2>3, <2>4, BookedInlineWhole
        <4>3. Emptied(ledger.rows)
          BY DEF CountedInv, ProfitInv
        <4>4. l.rows[o.symbol].quantity < 0 /\ l.rows[o.symbol].quantity \in Int
          BY <2>2, <2>3, <3>2 DEF CoversShort, Ledgers, Rows
        <4> HIDE DEF is, l, o
        <4> QED
          BY <2>3, <4>1, <4>2, <4>3, <4>4
      <3> QED
        BY <3>1, <3>2
    <2>6. Fair(is)
      <3> HIDE DEF l, o, p
      <3> QED
        BY <2>1, <2>2, <2>3, <2>4, <2>5, InlineFair DEF CountedInv, ProfitInv
    <2>7. Fair(ledger')
      <3> HIDE DEF is, l
      <3> QED
        BY <2>1, <2>3, <2>5, <2>6, WrittenFair
    <2>8. Weighed(session[x])'
      BY <2>1, ClosedWeighed DEF CountedInv
    <2> QED
      BY <2>7, <2>8 DEF Fair, FairRows, Sound, Cost
  <1> QED
    BY <1>1, <1>2

LEMMA BookByWorkerWeighed ==
    ASSUME CountedInv, NEW x \in Sessions, BookByWorker(x), AveragesExact'
    PROVE  Weighed(session[x])' /\ Fair(ledger)'
  <1> DEFINE s == session[x]
             o == s.job.order
             p == s.job.price
             l == View(s)
  <1>1. PICK quotes \in [Symbols -> Quotes \cup {NoQuote}] :
           IF WorkerFails(s, quotes) THEN Abandon(x)
           ELSE /\ ledger' = Written(ledger, l, WorkerBooks(s, quotes))
                /\ session' = [session EXCEPT ![x] = Closed]
    BY DEF BookByWorker, Commit, Close
  <1>2. CASE WorkerFails(s, quotes)
    BY <1>1, <1>2, AbandonWeighed
  <1>3. CASE ~WorkerFails(s, quotes)
    <2> DEFINE is == WorkerBooks(s, quotes)
    <2>1. /\ ledger' = Written(ledger, l, is) /\ session' = [session EXCEPT ![x] = Closed]
          /\ s.stage = "ready" /\ s.job.kind = "fill" /\ base \in Int /\ ledger \in Ledgers
          /\ quotes \in Seen
      BY <1>1, <1>3, QuotesSeen DEF BookByWorker, CountedInv, ProfitInv, TypeOK
    <2>2. /\ o.symbol \in Symbols /\ o.side \in {"BUY", "SELL"}
          /\ o.quantity \in Nat \ {0} /\ p \in Int
      <3>1. o \in Orders /\ p \in Quotes
        BY <2>1, SessionWhole, JobFields DEF CountedInv, ProfitInv
      <3>2. Quotes \subseteq Int
        BY LedgerAssumption
      <3> HIDE DEF o, p
      <3> QED
        BY <3>1, <3>2, OrderFacts
    <2>3. /\ l \in Ledgers /\ l.rows = ledger.rows /\ l.pnl = ledger.pnl
          /\ l.invested = ledger.invested /\ FairRows(l.rows)
      BY <2>1, AloneFair
    <2>4. /\ is \in Ledgers /\ Emptied(is.rows)
          /\ (o.side = "BUY" /\ l.rows[o.symbol].stored) =>
                 is.rows[o.symbol].invested = Worth(is.rows[o.symbol])
      BY <1>3, <2>1, WorkerExact DEF CountedInv
    <2>5. Fair(is)
      <3>1. CASE o.side = "SELL" /\ o.symbol \notin s.seen
        <4>1. is = RecalculatedAt(l, quotes, base)
          BY <3>1 DEF WorkerBooks
        <4> QED
          BY <2>1, <2>3, <4>1, RecalculatedAtFair
      <3>2. CASE ~(o.side = "SELL" /\ o.symbol \notin s.seen)
        <4>1. is = BookedByWorker(l, o, p, quotes, base)
          BY <3>2 DEF WorkerBooks
        <4>2. ~DividesByZero(l, o)
          BY <1>3 DEF WorkerFails
        <4>3. (o.side = "BUY" /\ l.rows[o.symbol].stored) =>
                 LET g == BookedByWorker(l, o, p, quotes, base).rows[o.symbol]
                 IN  g.invested = Worth(g)
          BY <2>4, <4>1
        <4> HIDE DEF l, o, p
        <4>4. Fair(BookedByWorker(l, o, p, quotes, base))
          BY <2>1, <2>2, <2>3, <4>2, <4>3, WorkerFair
        <4> HIDE DEF is
        <4> QED
          BY <4>1, <4>4
      <3> QED
        BY <3>1, <3>2
    <2>6. Fair(ledger')
      <3> HIDE DEF is, l
      <3> QED
        BY <2>1, <2>3, <2>4, <2>5, WrittenFair
    <2>7. Weighed(session[x])'
      BY <2>1, ClosedWeighed DEF CountedInv
    <2> QED
      BY <2>6, <2>7 DEF Fair, FairRows, Sound, Cost
  <1> QED
    BY <1>2, <1>3

\* Closing a position sells what is long and buys back what is short, and
\* averages nothing.
LEMMA CloseOneWeighed ==
    ASSUME CountedInv, NEW x \in Sessions, CloseOne(x)
    PROVE  Weighed(session[x])' /\ Fair(ledger)'
  <1> DEFINE s == session[x]
             l == View(s)
  <1>0. /\ TypeOK /\ Balanced(s) /\ s.stage \in {"ready", "closing"} /\ base \in Int
        /\ ledger \in Ledgers /\ UNCHANGED ledger
    BY DEF CloseOne, CountedInv, ProfitInv, TypeOK
  <1>1. PICK y \in s.todo, q \in Quotes \cup {NoQuote} :
           session' = [session EXCEPT ![x] =
              [stage |-> "closing", job |-> s.job,
               read |-> BookedInline(l, ClosingOrder(l, y), ClosePrice(l.rows[y], q), base),
               base |-> s.base, seen |-> Symbols,
               was |-> IF s.stage = "ready" THEN l ELSE s.was,
               todo |-> s.todo \ {y},
               earned |-> s.earned + Proceeds(ClosingOrder(l, y).side,
                                              ClosingOrder(l, y).quantity,
                                              ClosePrice(l.rows[y], q))]]
    BY DEF CloseOne
  <1> DEFINE o == ClosingOrder(l, y)
             p == ClosePrice(l.rows[y], q)
             is == BookedInline(l, o, p, base)
             was == IF s.stage = "ready" THEN l ELSE s.was
  <1>2. l \in Ledgers /\ y \in Symbols
    BY <1>0, ViewWhole, SessionWhole
  <1>3. FairRows(l.rows) /\ Emptied(l.rows) /\ was.invested = ledger.invested
    <2>1. CASE s.stage = "ready"
      BY <2>1, AloneFair DEF CountedInv, ProfitInv
    <2>2. CASE s.stage = "closing"
      <3>1. l.rows = s.read.rows
        <4>1. s.read \in Ledgers /\ s.seen = Symbols
          BY <1>0, <2>2, SessionWhole DEF Balanced
        <4>2. [z \in Symbols |-> IF z \in s.seen THEN s.read.rows[z] ELSE ledger.rows[z]]
              = s.read.rows
          BY <4>1 DEF Ledgers
        <4>3. l = [s.read EXCEPT !.rows = s.read.rows]
          BY <4>2 DEF View
        <4> HIDE DEF l, s
        <4> QED
          BY <4>1, <4>3 DEF Ledgers
      <3>2. s.was.invested = ledger.invested /\ FairRows(s.read.rows)
            /\ Emptied(s.read.rows)
        BY <1>0, <2>2 DEF CountedInv, Weighed, Fair, Balanced
      <3> HIDE DEF l
      <3> QED
        BY <2>2, <3>1, <3>2
    <2> QED
      BY <1>0, <2>1, <2>2
  <1>4. p \in Int
    <2>1. l.rows[y].price \in Int /\ l.rows[y].avg \in Int
      BY <1>2 DEF Ledgers, Rows
    <2>2. q \in Int
      <3>1. Quotes \cup {NoQuote} \subseteq Int
        BY LedgerAssumption DEF NoQuote
      <3> QED
        BY <3>1
    <2> QED
      BY <2>1, <2>2 DEF ClosePrice
  <1>5. /\ Bookable(l, o) /\ o.quantity \in Nat /\ o.symbol = y
        /\ ~(o.side = "BUY" /\ l.rows[y].quantity > 0)
    <2>1. l.rows[y].quantity \in Int
      BY <1>2 DEF Ledgers, Rows
    <2> QED
      BY <1>2, <2>1 DEF Bookable, ClosingOrder
  <1>6. Fair(is)
    <2>1. o.side = "BUY" /\ l.rows[o.symbol].quantity > 0 =>
             BookedInline(l, o, p, base).rows[o.symbol].invested
             = Worth(BookedInline(l, o, p, base).rows[o.symbol])
      BY <1>5
    <2> HIDE DEF l, o, p
    <2> QED
      BY <1>0, <1>2, <1>3, <1>4, <1>5, <2>1, InlineFair
  <1> DEFINE n == [stage |-> "closing", job |-> s.job, read |-> is, base |-> s.base,
                   seen |-> Symbols, was |-> was, todo |-> s.todo \ {y},
                   earned |-> s.earned + Proceeds(o.side, o.quantity, p)]
  <1>7. session'[x] = n
    BY <1>0, <1>1 DEF TypeOK
  <1>8. n.stage = "closing" /\ n.was = was /\ n.read = is
    OBVIOUS
  <1>9. Weighed(session[x])'
    <2> HIDE DEF n, is, was
    <2>1. /\ session'[x].stage = "closing" /\ session'[x].was.invested = ledger'.invested
          /\ Fair(session'[x].read)
      BY <1>0, <1>3, <1>6, <1>7, <1>8
    <2> QED
      BY <2>1 DEF Weighed, Fair, FairRows, Sound, Cost
  <1> QED
    BY <1>0, <1>9 DEF CountedInv, Fair, FairRows, Sound, Cost

LEMMA EndClosingWeighed ==
    ASSUME CountedInv, NEW x \in Sessions, EndClosing(x)
    PROVE  Weighed(session[x])' /\ Fair(ledger)'
  <1> DEFINE s == session[x]
  <1>1. CASE Abandon(x)
    BY <1>1, AbandonWeighed
  <1>2. CASE ~Abandon(x)
    <2>1. /\ ledger' = Written(ledger, s.was, s.read)
          /\ session' = [session EXCEPT ![x] = Closed]
          /\ s.stage = "closing"
      BY <1>2 DEF EndClosing, Close
    <2>2. /\ ledger \in Ledgers /\ s.was \in Ledgers /\ s.read \in Ledgers
      BY SessionWhole DEF CountedInv, ProfitInv, TypeOK
    <2>3. /\ s.was.rows = ledger.rows /\ s.was.pnl = ledger.pnl /\ Emptied(s.read.rows)
          /\ s.was.invested = ledger.invested /\ Fair(s.read)
      BY <2>1 DEF CountedInv, ProfitInv, Balanced, Weighed
    <2>4. Fair(ledger')
      BY <2>1, <2>2, <2>3, WrittenFair
    <2>5. Weighed(session[x])'
      BY <2>1, ClosedWeighed DEF CountedInv
    <2> QED
      BY <2>4, <2>5 DEF Fair, FairRows, Sound, Cost
  <1> QED
    BY <1>1, <1>2

LEMMA WriteSummaryWeighed ==
    ASSUME CountedInv, NEW x \in Sessions, WriteSummary(x)
    PROVE  Weighed(session[x])' /\ Fair(ledger)'
  <1> DEFINE s == session[x]
             l == OnlySeen(s)
  <1>1. CASE Abandon(x)
    BY <1>1, AbandonWeighed
  <1>2. CASE ~Abandon(x)
    <2>1. PICK quotes \in [Symbols -> Quotes \cup {NoQuote}] :
             /\ ledger' = Written(ledger, l, Summarised(l, quotes, s.base))
             /\ session' = [session EXCEPT ![x] = Closed]
             /\ s.stage = "ready" /\ s.job.kind = "summary"
      BY <1>2 DEF WriteSummary, Close
    <2>2. /\ l \in Ledgers /\ quotes \in Seen /\ s.base \in Int /\ ledger \in Ledgers
          /\ s.read \in Ledgers
      BY ViewWhole, SessionWhole, QuotesSeen DEF CountedInv, ProfitInv, TypeOK
    <2>3. /\ s.read.rows = ledger.rows /\ s.read.invested = ledger.invested
          /\ s.seen = Open(ledger.rows)
      BY <2>1 DEF CountedInv, ProfitInv, Balanced, Weighed
    <2>4. /\ l.rows = [y \in Symbols |-> IF y \in Open(ledger.rows) THEN ledger.rows[y]
                                                                   ELSE NoHolding]
          /\ l.invested = ledger.invested
      <3>1. \A rows : [s.read EXCEPT !.rows = rows].rows = rows
                      /\ [s.read EXCEPT !.rows = rows].invested = s.read.invested
        BY <2>2 DEF Ledgers
      <3> QED
        BY <2>3, <3>1 DEF OnlySeen
    <2>5. Fair(ledger')
      <3>1. Fair(ledger)
        BY DEF CountedInv
      <3> HIDE DEF l
      <3> QED
        BY <2>1, <2>2, <2>4, <3>1, SummaryFair
    <2>6. Weighed(session[x])'
      BY <2>1, ClosedWeighed DEF CountedInv
    <2> QED
      BY <2>5, <2>6 DEF Fair, FairRows, Sound, Cost
  <1> QED
    BY <1>1, <1>2

\* The capital requests touch neither the rows nor what they are counted for.
LEMMA ChangeCapitalWeighed ==
    ASSUME CountedInv, NEW x \in Sessions, ChangeCapital(x)
    PROVE  Weighed(session[x])' /\ Fair(ledger)'
  <1> DEFINE s == session[x]
             is == ChangedLedger(s)
  <1>1. /\ s.job.kind \in {"addcapital", "setcapital", "resetcapital"} /\ s.stage = "begun"
        /\ ledger' = Written(ledger, s.read, is)
        /\ session' = [session EXCEPT ![x] = Closed]
    BY DEF ChangeCapital, Close, ChangedLedger
  <1>2. s.read \in Ledgers /\ ledger \in Ledgers
    BY SessionWhole DEF CountedInv, ProfitInv, TypeOK
  <1>3. is.rows = s.read.rows /\ is.invested = s.read.invested
    <2>1. CASE s.job.kind = "addcapital"
      BY <1>2, <2>1 DEF ChangedLedger, Ledgers
    <2>2. CASE s.job.kind = "setcapital"
      BY <1>2, <2>2 DEF ChangedLedger, Ledgers
    <2>3. CASE s.job.kind = "resetcapital"
      BY <2>3 DEF ChangedLedger
    <2> QED
      BY <1>1, <2>1, <2>2, <2>3
  <1> HIDE DEF is
  <1>4. ledger'.invested = ledger.invested
    BY <1>1, <1>3 DEF Written, Write
  <1>5. \A y \in Symbols : /\ ledger'.rows[y].avg = ledger.rows[y].avg
                           /\ ledger'.rows[y].quantity = ledger.rows[y].quantity
                           /\ ledger'.rows[y].invested = ledger.rows[y].invested
                           /\ ledger'.rows[y].price = ledger.rows[y].price
                           /\ ledger'.rows[y].stored = ledger.rows[y].stored
    <2>1. \A y \in Symbols :
             ledger'.rows[y] = WriteRow(ledger.rows[y], s.read.rows[y], s.read.rows[y])
      BY <1>1, <1>3 DEF Written
    <2>2. \A c, d : Write(c, d, d) = c
      BY DEF Write
    <2>3. \A h, g : /\ WriteRow(h, g, g).quantity = h.quantity
                    /\ WriteRow(h, g, g).avg = h.avg
                    /\ WriteRow(h, g, g).invested = h.invested
                    /\ WriteRow(h, g, g).price = h.price
                    /\ WriteRow(h, g, g).stored = h.stored
      BY <2>2 DEF WriteRow
    <2> QED
      BY <2>1, <2>3
  <1>6. ledger' \in Ledgers
    BY ChangeCapitalWhole DEF CountedInv, ProfitInv, TypeOK
  <1>7. Cost(ledger'.rows) = Cost(ledger.rows)
    <2>1. \A y \in Symbols : Worth(ledger'.rows[y]) = Worth(ledger.rows[y])
      BY <1>5 DEF Worth
    <2> QED
      BY <1>2, <1>6, <2>1, CostSame DEF Ledgers, Portfolios
  <1>8. Fair(ledger')
    <2>1. Fair(ledger)
      BY DEF CountedInv
    <2>2. ASSUME NEW y \in Symbols PROVE FairRow(ledger'.rows[y])
      <3>1. FairRow(ledger.rows[y])
        BY <2>1 DEF Fair, FairRows
      <3> QED
        BY <1>5, <3>1 DEF FairRow, Worth
    <2>3. Sound(ledger'.rows) => Sound(ledger.rows)
      BY <1>5 DEF Sound
    <2> QED
      BY <1>4, <1>7, <2>1, <2>2, <2>3 DEF Fair, FairRows
  <1>9. Weighed(session[x])'
    BY <1>1, ClosedWeighed DEF CountedInv
  <1> QED
    BY <1>8, <1>9 DEF Fair, FairRows, Sound, Cost

LEMMA EmptyFair == Fair(EmptyLedger)
  BY EmptyBalanced, NoHoldingFair DEF Fair, FairRows, EmptyLedger

LEMMA ResetAccountWeighed ==
    ASSUME CountedInv, NEW x \in Sessions, ResetAccount(x)
    PROVE  Weighed(session[x])' /\ Fair(ledger)'
  <1> DEFINE s == session[x]
  <1>1. CASE Abandon(x)
    BY <1>1, AbandonWeighed
  <1>2. CASE ~Abandon(x)
    <2>1. /\ ledger'.invested = Write(ledger.invested, s.read.invested, 0)
          /\ ledger'.rows = EmptyLedger.rows /\ session'[x] = Closed /\ s.stage = "begun"
      BY <1>2 DEF ResetAccount
    <2>2. ledger'.invested = 0
      BY <2>1 DEF Write, CountedInv, Weighed
    <2>3. Fair(ledger')
      BY <2>1, <2>2, EmptyFair DEF Fair, EmptyLedger
    <2>4. Weighed(session[x])'
      BY <2>1 DEF Weighed, Closed
    <2> QED
      BY <2>3, <2>4 DEF Fair, FairRows, Sound, Cost
  <1> QED
    BY <1>1, <1>2

LEMMA CountedStep ==
    ASSUME NEW s0, Sessions = {s0}, CountedInv, AveragesExact', [Next]_vars
    PROVE  CountedInv'
  <1> SUFFICES Weighed(session[s0])' /\ Fair(ledger)'
    BY ProfitStep DEF CountedInv
  <1>0. s0 \in Sessions
    OBVIOUS
  <1>1. CASE UNCHANGED vars
    <2>1. ledger' = ledger /\ session' = session
      BY <1>1 DEF vars
    <2>2. Weighed(session[s0]) /\ Fair(ledger)
      BY <1>0 DEF CountedInv
    <2> QED
      BY <2>1, <2>2 DEF Weighed, Fair, FairRows, Sound, Cost, Open
  <1>2. CASE BeginOrder(s0) \/ BeginFill(s0) \/ BeginOther(s0) \/ BeginCapital(s0)
    BY <1>0, <1>2, OpeningWeighed
  <1>3. CASE CheckOrder(s0) \/ ReadHolding(s0) \/ ReadPositions(s0) \/ ReadSummary(s0)
    BY <1>0, <1>3, ReadingWeighed
  <1>4. CASE BookInline(s0) \/ BookByWorker(s0)
    BY <1>0, <1>4, BookInlineWeighed, BookByWorkerWeighed
  <1>5. CASE CloseOne(s0) \/ EndClosing(s0)
    BY <1>0, <1>5, CloseOneWeighed, EndClosingWeighed
  <1>6. CASE WriteSummary(s0)
    BY <1>0, <1>6, WriteSummaryWeighed
  <1>7. CASE ChangeCapital(s0) \/ ResetAccount(s0)
    BY <1>0, <1>7, ChangeCapitalWeighed, ResetAccountWeighed
  <1> QED
    BY <1>1, <1>2, <1>3, <1>4, <1>5, <1>6, <1>7 DEF Next

\* The total that the risk engine weighs a purchase against never counts the
\* shares for less than they cost, for every kind of order and request, any number
\* of symbols, any prices, quantities and limit, while one session at a time is
\* open and averages are exact: the rows that are never deleted, the partial
\* sales, the shorts bought back in full and the four ways of recalculating the
\* totals leave nothing out.  Each row by itself says at least what it cost.
THEOREM SharesCounted ==
    ASSUME NEW s0, Sessions = {s0}
    PROVE  Spec /\ []AveragesExact => []SharesAreCounted
  <1>1. Init => CountedInv
    <2> SUFFICES ASSUME Init PROVE CountedInv
      OBVIOUS
    <2>1. ProfitInv
      BY StartsBalanced
    <2>2. ledger = EmptyLedger /\ \A x \in Sessions : session[x] = Closed
      BY DEF Init
    <2> QED
      BY <2>1, <2>2, EmptyFair DEF CountedInv, Weighed, Closed
  <1>2. CountedInv /\ AveragesExact' /\ [Next]_vars => CountedInv'
    BY CountedStep
  <1>3. CountedInv => SharesAreCounted
    BY DEF CountedInv, Fair, Sound, SharesAreCounted
  <1> QED
    BY <1>1, <1>2, <1>3, PTL DEF Spec
=============================================================================
