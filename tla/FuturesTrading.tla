---------------------------- MODULE FuturesTrading ----------------------------
(***************************************************************************)
(* Simulated futures of one user: requests that fill a market order at     *)
(* once, rest a conditional order or cancel one, and the worker that       *)
(* sweeps over the resting orders of a contract every five seconds.        *)
(*                                                                         *)
(* Requests and sweep are database sessions that read, wait and write      *)
(* (RowWrites).  The table `futures_positions` has no unique index, so two *)
(* sessions that both find no position each insert one.                    *)
(*                                                                         *)
(* The event of a fill, a cancellation or an expiry is never queued: the   *)
(* call of emit() has one argument too many and raises.  After a commit    *)
(* that changes nothing but the answer to the client; in the sweep it is   *)
(* caught for a fill, and undoes the whole sweep for an expiry.            *)
(*                                                                         *)
(* The lock that a written row carries until the commit only delays the    *)
(* other session; it waits no less here by being scheduled later.          *)
(***************************************************************************)
EXTENDS Integers, FiniteSets, Functions, Sequences, RowWrites

CONSTANTS
    Orders,       \* orders that may be placed
    Book,         \* their immutable columns
    Contracts,    \* contract symbols
    Quotes,       \* prices the market may show
    InitialCash   \* portfolios.available_capital at the start

NoPrice == 0      \* a NULL column, or no quote

OrderSpec == [type : {"MARKET", "LIMIT", "STOP_LOSS", "STOP_LOSS_LIMIT"},
              side : {"BUY", "SELL"}, contract : Contracts, quantity : Nat \ {0},
              price : Nat, trigger : Nat]

ASSUME FuturesAssumption ==
    /\ Quotes \subseteq Nat \ {0} /\ InitialCash \in Nat
    /\ IsFiniteSet(Orders) /\ Book \in [Orders -> OrderSpec]

Statuses == {"NEW", "OPEN", "FILLED", "CANCELLED", "EXPIRED"}

VARIABLES
    cash,        \* portfolios.available_capital
    positions,   \* per contract, its rows of `futures_positions`
    status,      \* futures_orders.status; "NEW" before there is a row
    aged,        \* orders more than seven days old
    quote,       \* what the market shows
    request,     \* the session that places a market order
    cancelling,  \* orders that a request has read and is about to cancel
    sweeping,    \* a sweep's session is open
    todo,        \* the orders it has still to look at
    filled,      \* those it has changed to FILLED
    view,        \* the portfolio and the positions it has read and changed
    fills,       \* history: committed fills of each order
    overlapped   \* history: two sessions that book fills were open at once

vars == <<cash, positions, status, aged, quote, request, cancelling,
          sweeping, todo, filled, view, fills, overlapped>>

worker == <<sweeping, todo, filled, view>>

(***************************************************************************)
(* What a fill does to a position and to the cash                          *)
(***************************************************************************)
Signed(o) == IF Book[o].side = "BUY" THEN Book[o].quantity ELSE -Book[o].quantity

Abs(n) == IF n < 0 THEN -n ELSE n

Opened(o, p) == [quantity |-> Signed(o), avg |-> p, realized |-> 0]

Adds(r, o) == \/ r.quantity > 0 /\ Book[o].side = "BUY"
              \/ r.quantity < 0 /\ Book[o].side = "SELL"

\* The average entry price after adding, rounded as the column is.
Averaged(r, o, p) ==
    LET total == Abs(r.quantity) + Book[o].quantity
        cost  == Abs(r.quantity) * r.avg + Book[o].quantity * p
    IN  (2 * cost + total) \div (2 * total)

\* As the code computes it: negated when the closing side is SELL.
Gain(r, o, p) == IF Book[o].side = "SELL" THEN -((p - r.avg) * Book[o].quantity)
                                          ELSE (p - r.avg) * Book[o].quantity

\* Anything that does not add counts as reducing: an order larger than the
\* position, or one that reopens a closed position, keeps the old average.
Adjusted(r, o, p) ==
    IF Adds(r, o)
    THEN [quantity |-> r.quantity + Signed(o), avg |-> Averaged(r, o, p), realized |-> r.realized]
    ELSE [quantity |-> r.quantity + Signed(o), avg |-> r.avg, realized |-> r.realized + Gain(r, o, p)]

\* The worker does not realise the profit of the fill that closes a position.
AdjustedByWorker(r, o, p) ==
    IF r.quantity + Signed(o) = 0 THEN [r EXCEPT !.quantity = 0] ELSE Adjusted(r, o, p)

Margin(o, p) == (p * Book[o].quantity) \div 10

\* Margin is taken for a new or growing position, and given back otherwise.
CashAfter(money, rows, o, p) ==
    IF rows = <<>> \/ Adds(rows[1], o) THEN money - Margin(o, p) ELSE money + Margin(o, p)

WriteRow(now, was, is) ==
    [quantity |-> Write(now.quantity, was.quantity, is.quantity),
     avg      |-> Write(now.avg, was.avg, is.avg),
     realized |-> Write(now.realized, was.realized, is.realized)]

(***************************************************************************)
(* The requests                                                            *)
(***************************************************************************)
NoRequest == [stage |-> "none", cash |-> 0, price |-> 0, rows |-> <<>>]

NoView == [loaded |-> FALSE, was |-> 0, cash |-> 0, read |-> {},
           old  |-> [c \in Contracts |-> <<>>],
           rows |-> [c \in Contracts |-> <<>>], added |-> [c \in Contracts |-> <<>>]]

Init ==
    /\ cash = InitialCash
    /\ positions = [c \in Contracts |-> <<>>]
    /\ status = [o \in Orders |-> "NEW"]
    /\ aged = {}
    /\ quote \in [Contracts -> Quotes \cup {NoPrice}]
    /\ request = [o \in Orders |-> NoRequest]
    /\ cancelling = {}
    /\ sweeping = FALSE /\ todo = {} /\ filled = {} /\ view = NoView
    /\ fills = [o \in Orders |-> 0]
    /\ overlapped = FALSE

\* The broker's quote or, without one, whatever the client says.
Priced(o, p) == quote[Book[o].contract] # NoPrice => p = quote[Book[o].contract]

ExecutionPrice(o, p) == IF Book[o].type = "MARKET" \/ Book[o].price = NoPrice
                        THEN p ELSE Book[o].price

WellFormed(o) == /\ Book[o].type = "LIMIT" => Book[o].price # NoPrice
                 /\ Book[o].type \in {"STOP_LOSS", "STOP_LOSS_LIMIT"} => Book[o].trigger # NoPrice

Affordable(o, p) == Margin(o, ExecutionPrice(o, p)) <= cash

PlaceResting(o) ==
    /\ status[o] = "NEW" /\ Book[o].type # "MARKET" /\ WellFormed(o)
    /\ \E p \in Quotes : Priced(o, p) /\ Affordable(o, p)
    /\ status' = [status EXCEPT ![o] = "OPEN"]
    /\ UNCHANGED <<cash, positions, aged, quote, request, cancelling, worker, fills>>

PlaceMarket(o) ==
    /\ status[o] = "NEW" /\ Book[o].type = "MARKET" /\ request[o] = NoRequest
    /\ \E p \in Quotes :
          /\ Priced(o, p) /\ Affordable(o, p)
          /\ request' = [request EXCEPT ![o] =
                [stage |-> "checked", cash |-> cash, price |-> p, rows |-> <<>>]]
    /\ UNCHANGED <<cash, positions, status, aged, quote, cancelling, worker, fills>>

\* scalar_one_or_none() raises when there is more than one row.
ReadPosition(o) ==
    LET rows == positions[Book[o].contract]
    IN  /\ request[o].stage = "checked"
        /\ request' = [request EXCEPT ![o] =
              IF Len(rows) > 1 THEN NoRequest
              ELSE [stage |-> "ready", cash |-> request[o].cash,
                    price |-> request[o].price, rows |-> rows]]
        /\ UNCHANGED <<cash, positions, status, aged, quote, cancelling, worker, fills>>

\* One commit, in _update_futures_position_on_fill(), for order and position.
BookMarket(o) ==
    LET r == request[o]
        c == Book[o].contract
    IN  /\ r.stage = "ready"
        /\ cash' = Write(cash, r.cash, CashAfter(r.cash, r.rows, o, r.price))
        /\ positions' = [positions EXCEPT ![c] =
              IF r.rows = <<>> THEN Append(@, Opened(o, r.price))
              ELSE [@ EXCEPT ![1] = WriteRow(positions[c][1], r.rows[1],
                                             Adjusted(r.rows[1], o, r.price))]]
        /\ status' = [status EXCEPT ![o] = "FILLED"]
        /\ fills' = [fills EXCEPT ![o] = @ + 1]
        /\ request' = [request EXCEPT ![o] = NoRequest]
        /\ UNCHANGED <<aged, quote, cancelling, worker>>

CancelRead(o) ==
    /\ status[o] = "OPEN" /\ o \notin cancelling
    /\ cancelling' = cancelling \cup {o}
    /\ UNCHANGED <<cash, positions, status, aged, quote, request, worker, fills>>

\* Mutant: a status that no code gives an order.
CancelAsRejected(o) ==
    /\ o \in cancelling
    /\ cancelling' = cancelling \ {o}
    /\ status' = [status EXCEPT ![o] = "REJECTED"]
    /\ UNCHANGED <<cash, positions, aged, quote, request, worker, fills>>

CancelCommit(o) ==
    /\ o \in cancelling
    /\ cancelling' = cancelling \ {o}
    /\ status' = [status EXCEPT ![o] = "CANCELLED"]
    /\ UNCHANGED <<cash, positions, aged, quote, request, worker, fills>>

(***************************************************************************)
(* The sweep                                                               *)
(***************************************************************************)

\* Mutant: a cancelled order is looked at as well.
SweepStartLax ==
    /\ ~sweeping
    /\ sweeping' = TRUE
    /\ todo' = {o \in Orders : status[o] \in {"OPEN", "CANCELLED"}}
    /\ filled' = {} /\ view' = NoView
    /\ UNCHANGED <<cash, positions, status, aged, quote, request, cancelling, fills>>

\* Mutant: only limit orders are looked at.
SweepStartWithoutStops ==
    /\ ~sweeping
    /\ sweeping' = TRUE
    /\ todo' = {o \in Orders : status[o] = "OPEN" /\ Book[o].type = "LIMIT"}
    /\ filled' = {} /\ view' = NoView
    /\ UNCHANGED <<cash, positions, status, aged, quote, request, cancelling, fills>>

SweepStart ==
    /\ ~sweeping
    /\ sweeping' = TRUE
    /\ todo' = {o \in Orders : status[o] = "OPEN"}
    /\ filled' = {} /\ view' = NoView
    /\ UNCHANGED <<cash, positions, status, aged, quote, request, cancelling, fills>>

\* A stop-limit without a limit compares with None, which raises and is caught.
ShouldFill(o, p) ==
    LET b == Book[o]
        AtLimit == IF b.side = "BUY" THEN p <= b.price ELSE p >= b.price
        Triggered == IF b.side = "BUY" THEN p >= b.trigger ELSE p <= b.trigger
    IN  /\ p # NoPrice
        /\ CASE b.type = "LIMIT"           -> AtLimit
             [] b.type = "STOP_LOSS"       -> Triggered
             [] b.type = "STOP_LOSS_LIMIT" -> b.price # NoPrice /\ Triggered /\ AtLimit
             [] b.type = "MARKET"          -> FALSE

SweepSkip(o) ==
    /\ o \in todo /\ o \notin aged
    /\ ~ShouldFill(o, quote[Book[o].contract])
    /\ todo' = todo \ {o}
    /\ UNCHANGED <<cash, positions, status, aged, quote, request, cancelling,
                   sweeping, filled, view, fills>>

\* The sweep's portfolio: read by the first fill, then kept.
Loaded == IF view.loaded THEN view
          ELSE [loaded |-> TRUE, was |-> cash, cash |-> cash, read |-> view.read,
                old |-> view.old, rows |-> view.rows, added |-> view.added]

\* Every fill selects the position again; a row that was read is not refreshed.
Selected(c) == IF view.added[c] # <<>> THEN view.added[c]
               ELSE IF c \in view.read THEN view.rows[c] ELSE positions[c]

\* The sweep's view once o is filled at p.  With two rows for the contract the
\* position cannot be updated; the exception is logged, and the fill stands.
ViewAfter(o, p) ==
    LET c    == Book[o].contract
        rows == Selected(c)
        v    == Loaded
    IN  IF Len(positions[c]) + Len(view.added[c]) > 1 THEN v
        ELSE [loaded |-> TRUE, was |-> v.was, cash |-> CashAfter(v.cash, rows, o, p),
              read |-> IF positions[c] # <<>> THEN v.read \cup {c} ELSE v.read,
              old  |-> IF c \in v.read THEN v.old ELSE [v.old EXCEPT ![c] = positions[c]],
              rows |-> IF positions[c] = <<>> THEN v.rows
                       ELSE [v.rows EXCEPT ![c] = <<AdjustedByWorker(rows[1], o, p)>>],
              added |-> IF positions[c] # <<>> THEN v.added
                        ELSE [v.added EXCEPT ![c] =
                                 <<IF rows = <<>> THEN Opened(o, p)
                                                  ELSE AdjustedByWorker(rows[1], o, p)>>]]

SweepFill(o) ==
    LET p == quote[Book[o].contract]
    IN  /\ o \in todo /\ o \notin aged
        /\ ShouldFill(o, p)
        /\ todo' = todo \ {o}
        /\ filled' = filled \cup {o}
        /\ view' = ViewAfter(o, p)
        /\ UNCHANGED <<cash, positions, status, aged, quote, request, cancelling,
                       sweeping, fills>>

\* Mutant: the positions that the sweep inserted survive its rollback.
SweepExpireKeepingPositions(o) ==
    /\ o \in todo /\ o \in aged
    /\ sweeping' = FALSE /\ todo' = {} /\ filled' = {} /\ view' = NoView
    /\ positions' = [c \in Contracts |-> positions[c] \o view.added[c]]
    /\ UNCHANGED <<cash, status, aged, quote, request, cancelling, fills>>

\* An order that is too old: marking it raises, and the sweep is rolled back.
SweepExpire(o) ==
    /\ o \in todo /\ o \in aged
    /\ sweeping' = FALSE /\ todo' = {} /\ filled' = {} /\ view' = NoView
    /\ UNCHANGED <<cash, positions, status, aged, quote, request, cancelling, fills>>

SweepCommit ==
    /\ sweeping /\ todo = {}
    /\ status' = [o \in Orders |-> IF o \in filled THEN "FILLED" ELSE status[o]]
    /\ fills' = [o \in Orders |-> IF o \in filled THEN fills[o] + 1 ELSE fills[o]]
    /\ cash' = Write(cash, view.was, view.cash)
    /\ positions' = [c \in Contracts |->
          (IF c \in view.read
           THEN [positions[c] EXCEPT ![1] = WriteRow(@, view.old[c][1], view.rows[c][1])]
           ELSE positions[c])
          \o view.added[c]]
    /\ sweeping' = FALSE /\ filled' = {} /\ view' = NoView
    /\ UNCHANGED <<aged, quote, request, cancelling, todo>>

(***************************************************************************)
(* The world                                                               *)
(***************************************************************************)
Age(o) ==
    /\ status[o] = "OPEN" /\ o \notin aged
    /\ aged' = aged \cup {o}
    /\ UNCHANGED <<cash, positions, status, quote, request, cancelling, worker, fills>>

Tick(c) ==
    /\ \E p \in Quotes \cup {NoPrice} : p # quote[c] /\ quote' = [quote EXCEPT ![c] = p]
    /\ UNCHANGED <<cash, positions, status, aged, request, cancelling, worker, fills>>

Requests == \E o \in Orders : \/ PlaceResting(o) \/ PlaceMarket(o)
                              \/ ReadPosition(o) \/ BookMarket(o)
                              \/ CancelRead(o) \/ CancelCommit(o)

SweepEvaluate == \E o \in Orders : SweepSkip(o) \/ SweepFill(o) \/ SweepExpire(o)

Sweep == SweepStart \/ SweepEvaluate \/ SweepCommit

World == (\E o \in Orders : Age(o)) \/ (\E c \in Contracts : Tick(c))

\* More than one session has read what a fill will change.
Overlapping == Cardinality({o \in Orders : request[o] # NoRequest})
               + (IF view.loaded THEN 1 ELSE 0) > 1

Next == /\ Requests \/ Sweep \/ World
        /\ overlapped' = (overlapped \/ Overlapping')

Spec == Init /\ [][Next]_vars

\* run() sweeps for ever, whatever a sweep raises.
FairSpec == Spec /\ WF_vars(SweepStart /\ Next) /\ WF_vars(SweepEvaluate /\ Next)
                 /\ WF_vars(SweepCommit /\ Next)

(***************************************************************************)
(* Properties                                                              *)
(***************************************************************************)
Rows == [quantity : Int, avg : Nat, realized : Int]

\* Every variable has its type.
TypeOK ==
    /\ cash \in Int
    /\ \A c \in Contracts : \A i \in 1..Len(positions[c]) : positions[c][i] \in Rows
    /\ status \in [Orders -> Statuses]
    /\ aged \subseteq Orders /\ cancelling \subseteq Orders
    /\ quote \in [Contracts -> Quotes \cup {NoPrice}]
    /\ todo \subseteq Orders /\ filled \subseteq Orders
    /\ sweeping \in BOOLEAN /\ view.loaded \in BOOLEAN
    /\ fills \in [Orders -> Nat] /\ overlapped \in BOOLEAN

\* No order is filled twice, although a cancellation may overwrite FILLED and a
\* fill CANCELLED: the sweep takes OPEN orders only (futures_order_worker.py 84),
\* and nothing makes an order OPEN again.
FilledAtMostOnce == \A o \in Orders : fills[o] <= 1

\* The position in a contract is the sum of the fills in it, through sweeps that
\* are rolled back, fills that reopen or turn a position, and cancellations that
\* cross a fill.  Not when two sessions that fill overlap: nothing prevents
\* their lost update (futures_trading_service.py 82, 221; futures_order_worker.py 201).
PositionIsSumOfFills ==
    overlapped \/ \A c \in Contracts :
        SumFunction([i \in 1..Len(positions[c]) |-> positions[c][i].quantity])
        = SumFunction([o \in {x \in Orders : Book[x].contract = c} |-> Signed(o) * fills[o]])

\* (futures_order_worker.py 44: "Fills orders when their conditions are met") An
\* order does not rest for ever while its condition holds, if none is too old.
MarketableOrderFills ==
    \A o \in Orders :
        ~<>[](/\ status[o] = "OPEN" /\ ShouldFill(o, quote[Book[o].contract])
              /\ \A x \in Orders : status[x] = "OPEN" => x \notin aged)

\* (futures_order_worker.py 25: "Orders older than this are expired automatically")
OldOrdersExpire ==
    \A o \in Orders : (status[o] = "OPEN" /\ o \in aged) ~> status[o] # "OPEN"
=============================================================================
