---------------------------- MODULE PortfolioLedger ----------------------------
(***************************************************************************)
(* One user's money and shares under everything that writes them: orders   *)
(* filled on arrival, fills of the order sweep booked by the portfolio     *)
(* worker, the kill switch and the auto square-off, the summary that the   *)
(* client polls, and the capital requests.                                 *)
(*                                                                         *)
(* Each of these is a database session that reads, waits (for a quote, for *)
(* the database) and writes what it computed from what it read.  Nothing   *)
(* locks a row that is read.  The first write of a session locks the row   *)
(* of `portfolios`, so from there to the commit sessions do exclude each   *)
(* other; a session that books one fill does both in one step here.        *)
(***************************************************************************)
EXTENDS FillBooking

CONSTANTS
    Sessions,        \* database sessions that may be open at once
    Quotes,          \* prices the market may show
    Lots,            \* quantities that may be ordered
    Products,        \* product types in use: "CNC", "MIS", "NRML"
    Kinds,           \* requests in use
    DefaultCapital,  \* what an account starts with
    Amounts,         \* what a user adds to the capital, or sets it to
    ExposurePercent, \* largest part of the capital that may be invested
    MaxRequests,     \* bound: requests and booked fills
    MaxResting       \* bound: orders resting or filled and not yet booked

AllKinds == {"order", "fill", "closeall", "summary",
             "addcapital", "setcapital", "resetcapital", "resetaccount"}

ASSUME LedgerAssumption ==
    /\ Quotes \subseteq Nat \ {0} /\ Lots \subseteq Nat \ {0}
    /\ Products \subseteq {"CNC", "MIS", "NRML"} /\ Kinds \subseteq AllKinds
    /\ DefaultCapital \in Nat /\ Amounts \subseteq Nat
    /\ IsFiniteSet(Symbols) /\ MaxRequests \in Nat

NoQuote == 0    \* no quote could be had
AtMarket == 0   \* the limit of a market order

Orders == [side : {"BUY", "SELL"}, symbol : Symbols, quantity : Lots,
           product : Products, limit : Quotes \cup {AtMarket}]

VARIABLES
    ledger,   \* the user's rows of `portfolios` and `holdings`
    base,     \* users.virtual_capital
    resting,  \* orders that rest, or were filled by the sweep and not yet booked
    linked,   \* some row of `transactions` names its order
    session,  \* what each open session is doing
    requests, \* bound: requests begun
    flow,     \* history: what all booked sales brought minus what purchases cost
    covered   \* history: some short was bought back in full by a request

vars == <<ledger, base, resting, linked, session, requests, flow, covered>>

EmptyLedger == [cash |-> DefaultCapital, invested |-> 0, pnl |-> 0,
                rows |-> [s \in Symbols |-> NoHolding]]

\* A session: the request it serves, what it has read, and for the kill switch
\* what it started from, what is still to be closed, and what sales brought.
Opening(what, l, b) ==
    [stage |-> "begun", job |-> what, read |-> l, base |-> b, seen |-> {},
     was |-> l, todo |-> {}, earned |-> 0]

Closed == [stage |-> "closed", job |-> [kind |-> "none"], read |-> EmptyLedger, base |-> 0,
           seen |-> {}, was |-> EmptyLedger, todo |-> {}, earned |-> 0]

Init ==
    /\ ledger = EmptyLedger
    /\ base = DefaultCapital
    /\ resting = {}
    /\ linked = FALSE
    /\ session = [x \in Sessions |-> Closed]
    /\ requests = 0
    /\ flow = 0
    /\ covered = FALSE

\* No session has written and not committed.
Unlocked == \A x \in Sessions : session[x].stage # "closing"

(***************************************************************************)
(* Opening a session, and what it reads                                    *)
(***************************************************************************)

\* The row of `portfolios` (and of `users`) is read first.
Begin(x, what) ==
    /\ session[x] = Closed
    /\ requests < MaxRequests
    /\ requests' = requests + 1
    /\ session' = [session EXCEPT ![x] = Opening(what, ledger, base)]

\* Mutant: neither the broker nor the client has a price, and nobody asks.
BeginOrderUnpriced(x) ==
    /\ "order" \in Kinds
    /\ \E o \in Orders, p \in Quotes \cup {NoQuote} :
          Begin(x, [kind |-> "order", order |-> o, price |-> p])
    /\ UNCHANGED <<ledger, base, resting, linked, flow, covered>>

BeginOrder(x) ==
    /\ "order" \in Kinds
    /\ \E o \in Orders, p \in Quotes :
          Begin(x, [kind |-> "order", order |-> o, price |-> p])
    /\ UNCHANGED <<ledger, base, resting, linked, flow, covered>>

\* One event after the other: the dispatcher waits for the handler.  What the
\* sweep saw of the holdings when it filled a sale may be out of date by now, so
\* nothing is asked of them here.
BeginFill(x) ==
    /\ \A y \in Sessions : session[y].job.kind # "fill"
    /\ \E o \in resting, p \in Quotes :
          /\ IF o.side = "BUY" THEN p <= o.limit ELSE p >= o.limit
          /\ Begin(x, [kind |-> "fill", order |-> o, price |-> p])
          /\ resting' = resting \ {o}
    /\ UNCHANGED <<ledger, base, linked, flow, covered>>

BeginOther(x) ==
    /\ \E k \in Kinds \cap {"closeall", "summary", "resetaccount", "resetcapital"} :
          Begin(x, [kind |-> k])
    /\ UNCHANGED <<ledger, base, resting, linked, flow, covered>>

BeginCapital(x) ==
    /\ \E k \in Kinds \cap {"addcapital", "setcapital"}, a \in Amounts :
          /\ k = "addcapital" => a > 0
          /\ Begin(x, [kind |-> k, amount |-> a])
    /\ UNCHANGED <<ledger, base, resting, linked, flow, covered>>

\* The rows of `holdings` are read later; a row once read is not refreshed.
Remember(s, symbols, todo) ==
    [stage |-> "ready", job |-> s.job, read |-> [s.read EXCEPT !.rows = ledger.rows],
     base |-> s.base, seen |-> symbols, was |-> s.was, todo |-> todo, earned |-> 0]

\* What session s has: the rows it read, and the others as they are now.
View(s) == [s.read EXCEPT !.rows = [y \in Symbols |-> IF y \in s.seen
                                                      THEN s.read.rows[y]
                                                      ELSE ledger.rows[y]]]

OnlySeen(s) == [s.read EXCEPT !.rows = [y \in Symbols |-> IF y \in s.seen
                                                          THEN s.read.rows[y]
                                                          ELSE NoHolding]]

\* The session ends; without writing anything, when it fails.
Close(x) == session' = [session EXCEPT ![x] = Closed]
Abandon(x) == Close(x) /\ UNCHANGED <<ledger, base, resting, linked, requests, flow, covered>>

(***************************************************************************)
(* place_order(): the checks, and what happens to an order that passes     *)
(***************************************************************************)
ExecutionPrice(s) == IF s.job.order.limit = AtMarket THEN s.job.price ELSE s.job.order.limit

\* RiskEngine._check_capital_exposure(), on the portfolio already read.
ExposureAllows(s) ==
    LET total == s.read.cash + s.read.invested
        added == ExecutionPrice(s) * s.job.order.quantity
    IN  \/ s.job.order.side # "BUY"
        \/ total <= 0
        \/ 100 * (s.read.invested + added) <= ExposurePercent * total

\* Mutant: delivery may be sold short as well.
CapitalAllowsShort(s) ==
    Margin(s.job.order.product, ExecutionPrice(s)) * s.job.order.quantity <= s.read.cash

\* BUY and uncovered SELL need cash (a fifth of it for MIS); CNC needs shares.
CapitalAllows(s) ==
    LET o       == s.job.order
        owned   == ledger.rows[o.symbol].stored /\ ledger.rows[o.symbol].quantity >= o.quantity
        needed  == Margin(o.product, ExecutionPrice(s)) * o.quantity
    IN  CASE o.side = "BUY"                       -> needed <= s.read.cash
          [] o.side = "SELL" /\ o.product = "CNC" -> owned
          [] OTHER                                -> owned \/ needed <= s.read.cash

Marketable(s) == \/ s.job.order.limit = AtMarket
                 \/ s.job.order.side = "BUY"  /\ s.job.order.limit >= s.job.price
                 \/ s.job.order.side = "SELL" /\ s.job.order.limit <= s.job.price

CheckOrder(x) ==
    LET s == session[x]
        accepted == ExposureAllows(s) /\ CapitalAllows(s)
    IN  /\ s.stage = "begun" /\ s.job.kind = "order"
        /\ \/ /\ accepted /\ Marketable(s)
              /\ session' = [session EXCEPT ![x] =
                    Remember(s, {s.job.order.symbol} \cap Stored(ledger.rows), {})]
              /\ UNCHANGED resting
           \/ /\ accepted /\ ~Marketable(s)
              /\ s.job.order \notin resting /\ Cardinality(resting) < MaxResting
              /\ resting' = resting \cup {s.job.order}
              /\ Close(x)
           \/ /\ ~accepted
              /\ Close(x)
              /\ UNCHANGED resting
        /\ UNCHANGED <<ledger, base, linked, requests, flow, covered>>

ReadHolding(x) ==
    LET s == session[x]
    IN  /\ s.stage = "begun" /\ s.job.kind = "fill"
        /\ session' = [session EXCEPT ![x] =
              Remember(s, {s.job.order.symbol} \cap Stored(ledger.rows), {})]
        /\ UNCHANGED <<ledger, base, resting, linked, requests, flow, covered>>

\* The row of the order's symbol was inserted by somebody else since.
Appeared(s) == /\ s.job.order.symbol \notin s.seen
               /\ ledger.rows[s.job.order.symbol].stored

\* What s changed in its view is written over the database.
Commit(s, is) == ledger' = Written(ledger, View(s), is)

\* What a sale of n shares at p brings, and a purchase costs.
Proceeds(side, n, p) == IF side = "SELL" THEN n * p ELSE -(n * p)

(***************************************************************************)
(* A fill on arrival, and a fill of the sweep                              *)
(***************************************************************************)
InlineFails(s) == \/ Appeared(s)
                  \/ InsertsTwice(View(s), s.job.order)
                  \/ WriteFails(ledger, View(s), BookedInline(View(s), s.job.order, s.job.price, base))

\* Buys back exactly what is short: the row stays as it was.
CoversShort(l, o) == /\ o.side = "BUY" /\ l.rows[o.symbol].quantity < 0
                     /\ l.rows[o.symbol].quantity + o.quantity = 0

BookInline(x) ==
    LET s == session[x]
    IN  /\ s.stage = "ready" /\ s.job.kind = "order"
        /\ Unlocked
        /\ IF InlineFails(s) THEN Abandon(x)
           ELSE /\ Commit(s, BookedInline(View(s), s.job.order, s.job.price, base))
                /\ flow' = flow + Proceeds(s.job.order.side, s.job.order.quantity, s.job.price)
                /\ covered' = (covered \/ CoversShort(View(s), s.job.order))
                /\ Close(x)
                /\ UNCHANGED <<base, resting, linked, requests>>

\* A SELL that found no row is not booked, even if there is one now.
WorkerBooks(s, quotes) ==
    IF s.job.order.side = "SELL" /\ s.job.order.symbol \notin s.seen
    THEN RecalculatedAt(View(s), quotes, base)
    ELSE BookedByWorker(View(s), s.job.order, s.job.price, quotes, base)

WorkerFails(s, quotes) ==
    \/ s.job.order.side = "BUY" /\ Appeared(s)
    \/ DividesByZero(View(s), s.job.order)
    \/ WriteFails(ledger, View(s), WorkerBooks(s, quotes))

WorkerTraded(s) ==
    IF s.job.order.side = "BUY" THEN s.job.order.quantity
    ELSE IF s.job.order.symbol \notin s.seen THEN 0
    ELSE Sold(View(s), s.job.order)

BookByWorker(x) ==
    LET s == session[x]
    IN  /\ s.stage = "ready" /\ s.job.kind = "fill"
        /\ Unlocked
        /\ \E quotes \in [Symbols -> Quotes \cup {NoQuote}] :
              IF WorkerFails(s, quotes) THEN Abandon(x)
              ELSE /\ Commit(s, WorkerBooks(s, quotes))
                   /\ linked' = TRUE
                   /\ flow' = flow + Proceeds(s.job.order.side, WorkerTraded(s), s.job.price)
                   /\ Close(x)
                   /\ UNCHANGED <<base, resting, requests, covered>>

(***************************************************************************)
(* close_all_positions() and _square_off_all(): all positions one by one   *)
(* in one session, each as an MIS order for the whole of it                *)
(***************************************************************************)
ReadPositions(x) ==
    LET s == session[x]
        open == Open(ledger.rows)
    IN  /\ s.stage = "begun" /\ s.job.kind = "closeall"
        /\ session' = [session EXCEPT ![x] =
              IF open = {} THEN Closed
              ELSE Remember(s, open, open)]
        /\ UNCHANGED <<ledger, base, resting, linked, requests, flow, covered>>

ClosingOrder(l, y) ==
    [side |-> IF l.rows[y].quantity > 0 THEN "SELL" ELSE "BUY", symbol |-> y,
     quantity |-> IF l.rows[y].quantity > 0 THEN l.rows[y].quantity ELSE -l.rows[y].quantity,
     product |-> "MIS", limit |-> AtMarket]

\* Without a quote, the price last seen, or else the average.
ClosePrice(h, q) == IF q # NoQuote THEN q ELSE IF h.price # 0 THEN h.price ELSE h.avg

\* From the first booking on the session holds the lock on the portfolio.
CloseOne(x) ==
    LET s == session[x]
        l == View(s)
    IN  /\ s.stage \in {"ready", "closing"} /\ s.job.kind = "closeall"
        /\ s.stage = "ready" => Unlocked
        /\ \E y \in s.todo, q \in Quotes \cup {NoQuote} :
              LET o == ClosingOrder(l, y)
                  p == ClosePrice(l.rows[y], q)
              IN  session' = [session EXCEPT ![x] =
                     [stage |-> "closing", job |-> s.job, read |-> BookedInline(l, o, p, base),
                      base |-> s.base, seen |-> Symbols,
                      was |-> IF s.stage = "ready" THEN l ELSE s.was,
                      todo |-> s.todo \ {y},
                      earned |-> s.earned + Proceeds(o.side, o.quantity, p)]]
        /\ UNCHANGED <<ledger, base, resting, linked, requests, flow, covered>>

EndClosing(x) ==
    LET s == session[x]
    IN  /\ s.stage = "closing" /\ s.todo = {}
        /\ \/ WriteFails(ledger, s.was, s.read) /\ Abandon(x)
           \/ /\ ~WriteFails(ledger, s.was, s.read)
              /\ ledger' = Written(ledger, s.was, s.read)
              /\ linked' = TRUE
              /\ flow' = flow + s.earned
              /\ covered' = (covered \/ \E y \in Symbols : s.was.rows[y].quantity < 0)
              /\ Close(x)
              /\ UNCHANGED <<base, resting, requests>>

(***************************************************************************)
(* get_portfolio_summary(), when it is not answered from the cache         *)
(***************************************************************************)
ReadSummary(x) ==
    LET s == session[x]
    IN  /\ s.stage = "begun" /\ s.job.kind = "summary"
        /\ session' = [session EXCEPT ![x] = Remember(s, Open(ledger.rows), {})]
        /\ UNCHANGED <<ledger, base, resting, linked, requests, flow, covered>>

WriteSummary(x) ==
    LET s == session[x]
        l == OnlySeen(s)
    IN  /\ s.stage = "ready" /\ s.job.kind = "summary"
        /\ Unlocked
        /\ \E quotes \in [Symbols -> Quotes \cup {NoQuote}] :
              LET is == Summarised(l, quotes, s.base)
              IN  \/ WriteFails(ledger, l, is) /\ Abandon(x)
                  \/ /\ ~WriteFails(ledger, l, is)
                     /\ ledger' = Written(ledger, l, is)
                     /\ Close(x)
                     /\ UNCHANGED <<base, resting, linked, requests, flow, covered>>

(***************************************************************************)
(* The capital requests                                                    *)
(***************************************************************************)
ChangeCapital(x) ==
    LET s == session[x]
        is == CASE s.job.kind = "addcapital"   -> [s.read EXCEPT !.cash = s.read.cash + s.job.amount]
                [] s.job.kind = "setcapital"   -> [s.read EXCEPT !.cash = s.job.amount]
                [] s.job.kind = "resetcapital" ->
                       [cash |-> DefaultCapital, invested |-> s.read.invested,
                        pnl |-> 0, rows |-> s.read.rows]
        isBase == CASE s.job.kind = "addcapital"   -> s.base + s.job.amount
                    [] s.job.kind = "setcapital"   -> s.job.amount
                    [] s.job.kind = "resetcapital" -> DefaultCapital
    IN  /\ s.stage = "begun" /\ s.job.kind \in {"addcapital", "setcapital", "resetcapital"}
        /\ Unlocked
        /\ ledger' = Written(ledger, s.read, is)
        /\ base' = Write(base, s.base, isBase)
        /\ IF s.job.kind = "resetcapital"
           THEN flow' = -Cost(ledger.rows) /\ covered' = FALSE
           ELSE UNCHANGED <<flow, covered>>
        /\ Close(x)
        /\ UNCHANGED <<resting, linked, requests>>

\* The orders are deleted before the transactions that refer to them.  A fill
\* that is being booked can no longer refer to its order, and fails.
ResetAccount(x) ==
    LET s == session[x]
    IN  /\ s.stage = "begun" /\ s.job.kind = "resetaccount"
        /\ Unlocked
        /\ \/ linked /\ Abandon(x)
           \/ /\ ~linked
              /\ ledger' = [cash     |-> Write(ledger.cash, s.read.cash, DefaultCapital),
                            invested |-> Write(ledger.invested, s.read.invested, 0),
                            pnl      |-> Write(ledger.pnl, s.read.pnl, 0),
                            rows     |-> EmptyLedger.rows]
              /\ base' = Write(base, s.base, DefaultCapital)
              /\ resting' = {}
              /\ flow' = 0
              /\ covered' = FALSE
              /\ session' = [y \in Sessions |->
                               IF y = x \/ session[y].job.kind = "fill" THEN Closed
                                                                      ELSE session[y]]
              /\ UNCHANGED <<linked, requests>>

Next ==
    \E x \in Sessions :
        \/ BeginOrder(x) \/ BeginFill(x) \/ BeginOther(x) \/ BeginCapital(x)
        \/ CheckOrder(x) \/ BookInline(x)
        \/ ReadHolding(x) \/ BookByWorker(x)
        \/ ReadPositions(x) \/ CloseOne(x) \/ EndClosing(x)
        \/ ReadSummary(x) \/ WriteSummary(x)
        \/ ChangeCapital(x) \/ ResetAccount(x)

Spec == Init /\ [][Next]_vars

(***************************************************************************)
(* Properties                                                              *)
(***************************************************************************)
Rows == [stored : BOOLEAN, quantity : Int, avg : Int, invested : Int, value : Int, price : Int]
Ledgers == [cash : Int, invested : Int, pnl : Int, rows : [Symbols -> Rows]]

Jobs == [kind : {"none", "closeall", "summary", "resetcapital", "resetaccount"}]
        \cup [kind : {"order", "fill"}, order : Orders, price : Quotes]
        \cup [kind : {"addcapital", "setcapital"}, amount : Amounts]

OpenSessions == [stage : {"closed", "begun", "ready", "closing"}, job : Jobs,
                 read : Ledgers, base : Int, seen : SUBSET Symbols,
                 was : Ledgers, todo : SUBSET Symbols, earned : Int]

\* Every variable has its type.
TypeOK ==
    /\ ledger \in Ledgers
    /\ base \in Int /\ flow \in Int
    /\ resting \subseteq Orders
    /\ linked \in BOOLEAN /\ covered \in BOOLEAN
    /\ session \in [Sessions -> OpenSessions]
    /\ requests \in 0..MaxRequests

\* Delivery orders alone never leave a user owing shares, whatever sells the same
\* shares at the same time: requests check what they hold (trading_engine.py
\* 141-155), the worker sells no more than there is (portfolio_worker.py 277-289),
\* and each writes a quantity it computed from what it had read.
NeverShort == \A s \in Symbols : ledger.rows[s].quantity >= 0

\* The realised profit in the portfolio is what sales brought in minus what
\* purchases cost, plus the cost of the shares still held or owed: no fill of
\* either routine, partial, clamped, averaged or closing, makes profit appear or
\* vanish.  The exception is a short that a request buys back in full.
RealisedMatchesTrades == covered \/ ledger.pnl = flow + Cost(ledger.rows)

\* The total that the risk engine weighs a purchase against (risk_engine.py 174)
\* never counts the shares for less than they cost, a short counting against it:
\* rows that were sold out and never deleted, partial sales, the two routines that
\* book a fill and their two recalculations, the summary and the capital requests
\* leave nothing out.  The exception is an average that the worker made negative,
\* by averaging a purchase with a short.
SharesAreCounted ==
    (\A s \in Symbols : ledger.rows[s].avg >= 0) => ledger.invested >= Cost(ledger.rows)

EndsOrder(x) == /\ session[x].stage = "ready" /\ session[x].job.kind = "order"
                /\ session'[x].stage = "closed"

\* The kill switch and the auto square-off leave no position open
\* (squareoff_worker.py 32: "Closes all open positions at 3:20 PM IST daily").
CloseAllFlattens ==
    [][\A x \in Sessions :
          (session[x].stage = "closing" /\ session'[x].stage = "closed") =>
              Open(ledger'.rows) = {}]_vars

\* A purchase on arrival costs its price in cash (ARCHITECTURE.md 671: "BUY:
\* Decrease available_capital").
BuyIsPaidFor ==
    [][\A x \in Sessions :
          (EndsOrder(x) /\ session[x].job.order.side = "BUY" /\ ledger' # ledger) =>
              ledger'.cash <= ledger.cash
                              - session[x].job.price * session[x].job.order.quantity]_vars
=============================================================================
