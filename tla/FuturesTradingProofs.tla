------------------------- MODULE FuturesTradingProofs -------------------------
(***************************************************************************)
(* Futures trading, for every book of orders: no order is filled twice,    *)
(* every variable keeps its type, and a position is the sum of its fills.  *)
(*                                                                         *)
(* Fills.  An order is in the hands of at most one writer that could fill  *)
(* it: a request owns the MARKET orders that are still NEW, the sweep      *)
(* those it read as OPEN, and neither hands one back once it is filled.    *)
(* Between the sweep's read and its commit a cancellation may change the   *)
(* status, so what the sweep holds is described by its fills.              *)
(*                                                                         *)
(* Positions.  The sum cannot be inductive over the tables alone: during a *)
(* sweep the fills are already in its session and not yet in the table.    *)
(* The invariant therefore speaks of two pairs at once, the committed rows *)
(* with the committed fills, and the rows the open session will leave with *)
(* the fills it will leave; the commit turns the second pair into the      *)
(* first.  It holds as long as no two sessions that fill were open at once.*)
(***************************************************************************)
EXTENDS FuturesTrading, SumTheorems, SequenceTheorems, TLAPS

\* Orders that a sweep has read and not yet committed or given up.
Held == todo \cup filled

HistoryOK == fills \in [Orders -> Nat] /\ \A o \in Orders : fills[o] <= 1

ShapeOK == /\ status \in [Orders -> Statuses]
           /\ DOMAIN request = Orders
           /\ Held \subseteq Orders /\ cancelling \subseteq Orders

\* An order that can still be filled has not been.
PendingUnfilled == \A o \in Orders : status[o] \in {"NEW", "OPEN"} => fills[o] = 0

HeldUnfilled == \A o \in Held : fills[o] = 0

\* What the sweep holds is an order that rests, or rested.
HeldPlaced == \A o \in Held : status[o] # "NEW"

CancellingPlaced == \A o \in cancelling : status[o] # "NEW"

\* A request that is still to fill an order is the one that creates it.
RequestsNew == \A o \in Orders :
    request[o].stage \in {"checked", "ready"} => status[o] = "NEW" /\ Book[o].type = "MARKET"

FillInv == /\ HistoryOK /\ ShapeOK /\ PendingUnfilled /\ HeldUnfilled
           /\ HeldPlaced /\ CancellingPlaced /\ RequestsNew

LEMMA FillInvInit == Init => FillInv
  BY DEF Init, FillInv, HistoryOK, ShapeOK, PendingUnfilled, HeldUnfilled, Held,
         HeldPlaced, CancellingPlaced, RequestsNew, NoRequest, Statuses

(***************************************************************************)
(* One lemma per kind of step                                              *)
(***************************************************************************)
LEMMA PlacingKeeps ==
  ASSUME FillInv, NEW o \in Orders, PlaceResting(o) \/ PlaceMarket(o) \/ ReadPosition(o)
  PROVE  FillInv'
<1>1. CASE PlaceResting(o)
  <2>1. Book[o].type # "MARKET" /\ status[o] = "NEW"
    BY <1>1 DEF PlaceResting
  <2>2. status' = [status EXCEPT ![o] = "OPEN"]
        /\ UNCHANGED <<request, cancelling, todo, filled, fills>>
    BY <1>1 DEF PlaceResting, worker
  <2>3. HistoryOK' /\ ShapeOK'
    BY <2>1, <2>2 DEF FillInv, HistoryOK, ShapeOK, Held, Statuses
  <2>4. PendingUnfilled' /\ HeldUnfilled' /\ HeldPlaced' /\ CancellingPlaced'
    BY <2>1, <2>2 DEF FillInv, ShapeOK, PendingUnfilled, HeldUnfilled, HeldPlaced,
                      CancellingPlaced, Held
  <2>5. RequestsNew'
    BY <2>1, <2>2 DEF FillInv, ShapeOK, RequestsNew
  <2> QED BY <2>3, <2>4, <2>5 DEF FillInv
<1>2. CASE PlaceMarket(o)
  <2>1. PICK r : request' = [request EXCEPT ![o] = r]
    BY <1>2 DEF PlaceMarket
  <2>2. status[o] = "NEW" /\ Book[o].type = "MARKET"
        /\ UNCHANGED <<status, cancelling, todo, filled, fills>>
    BY <1>2 DEF PlaceMarket, worker
  <2> QED BY <2>1, <2>2 DEF FillInv, HistoryOK, ShapeOK, PendingUnfilled, HeldUnfilled,
         HeldPlaced, CancellingPlaced, RequestsNew, Held
<1>3. CASE ReadPosition(o)
  <2>1. PICK r : request' = [request EXCEPT ![o] = r]
    BY <1>3 DEF ReadPosition
  <2>2. request[o].stage = "checked"
        /\ UNCHANGED <<status, cancelling, todo, filled, fills>>
    BY <1>3 DEF ReadPosition, worker
  <2> QED BY <2>1, <2>2 DEF FillInv, HistoryOK, ShapeOK, PendingUnfilled, HeldUnfilled,
         HeldPlaced, CancellingPlaced, RequestsNew, Held
<1> QED BY <1>1, <1>2, <1>3

\* The order is NEW, so neither the sweep nor a cancellation holds it.
LEMMA BookMarketKeeps ==
  ASSUME FillInv, NEW o \in Orders, BookMarket(o)
  PROVE  FillInv'
<1>1. /\ status' = [status EXCEPT ![o] = "FILLED"]
      /\ fills' = [fills EXCEPT ![o] = @ + 1]
      /\ request' = [request EXCEPT ![o] = NoRequest]
      /\ UNCHANGED <<cancelling, todo, filled>>
  BY DEF BookMarket, worker
<1>2. status[o] = "NEW"
  BY DEF BookMarket, FillInv, RequestsNew
<1>3. fills[o] = 0 /\ o \notin Held /\ o \notin cancelling
  BY <1>2 DEF FillInv, PendingUnfilled, HeldPlaced, CancellingPlaced
<1>4. ShapeOK' /\ HistoryOK'
  BY <1>1, <1>3 DEF FillInv, ShapeOK, HistoryOK, Held, Statuses
<1>5. PendingUnfilled' /\ HeldUnfilled' /\ HeldPlaced' /\ CancellingPlaced'
  BY <1>1, <1>3 DEF FillInv, ShapeOK, HistoryOK, PendingUnfilled, HeldUnfilled,
                    HeldPlaced, CancellingPlaced, Held
<1>6. RequestsNew'
  BY <1>1 DEF FillInv, ShapeOK, RequestsNew, NoRequest
<1> QED BY <1>4, <1>5, <1>6 DEF FillInv

\* A cancellation may overwrite FILLED, but never makes an order fillable.
LEMMA CancellingKeeps ==
  ASSUME FillInv, NEW o \in Orders, CancelRead(o) \/ CancelCommit(o)
  PROVE  FillInv'
<1>1. CASE CancelRead(o)
  BY <1>1 DEF CancelRead, worker, FillInv, HistoryOK, ShapeOK, PendingUnfilled, HeldUnfilled,
         HeldPlaced, CancellingPlaced, RequestsNew, Held
<1>2. CASE CancelCommit(o)
  <2>1. /\ status' = [status EXCEPT ![o] = "CANCELLED"]
        /\ cancelling' = cancelling \ {o}
        /\ UNCHANGED <<request, todo, filled, fills>>
    BY <1>2 DEF CancelCommit, worker
  <2>2. status[o] # "NEW"
    BY <1>2 DEF CancelCommit, FillInv, CancellingPlaced
  <2> QED BY <2>1, <2>2 DEF FillInv, Statuses, HistoryOK, ShapeOK, PendingUnfilled, HeldUnfilled,
         HeldPlaced, CancellingPlaced, RequestsNew, Held
<1> QED BY <1>1, <1>2

LEMMA SweepStartKeeps ==
  ASSUME FillInv, SweepStart
  PROVE  FillInv'
  BY DEF SweepStart, FillInv, HistoryOK, ShapeOK, PendingUnfilled, HeldUnfilled,
         HeldPlaced, CancellingPlaced, RequestsNew, Held

LEMMA EvaluateKeeps ==
  ASSUME FillInv, NEW o \in Orders, SweepSkip(o) \/ SweepFill(o) \/ SweepExpire(o)
  PROVE  FillInv'
<1>1. Held' \subseteq Held /\ UNCHANGED <<status, request, cancelling, fills>>
  BY DEF SweepSkip, SweepFill, SweepExpire, Held
<1> QED BY <1>1 DEF FillInv, HistoryOK, ShapeOK, PendingUnfilled, HeldUnfilled,
                    HeldPlaced, CancellingPlaced, RequestsNew

\* What the sweep fills it gives up in the same step.
LEMMA SweepCommitKeeps ==
  ASSUME FillInv, SweepCommit
  PROVE  FillInv'
<1>1. /\ status' = [o \in Orders |-> IF o \in filled THEN "FILLED" ELSE status[o]]
      /\ fills' = [o \in Orders |-> IF o \in filled THEN fills[o] + 1 ELSE fills[o]]
      /\ UNCHANGED <<request, cancelling>>
  BY DEF SweepCommit
<1>2. Held' = {} /\ filled \subseteq Held
  BY DEF SweepCommit, Held
<1>3. \A o \in filled : fills[o] = 0 /\ status[o] # "NEW"
  BY <1>2 DEF FillInv, HeldUnfilled, HeldPlaced
<1>4. HistoryOK' /\ ShapeOK'
  BY <1>1, <1>2, <1>3 DEF FillInv, HistoryOK, ShapeOK, Statuses
<1>5. PendingUnfilled' /\ HeldUnfilled' /\ HeldPlaced'
  BY <1>1, <1>2 DEF FillInv, ShapeOK, PendingUnfilled, HeldUnfilled, HeldPlaced
<1>6. CancellingPlaced' /\ RequestsNew'
  BY <1>1, <1>3 DEF FillInv, ShapeOK, CancellingPlaced, RequestsNew
<1> QED BY <1>4, <1>5, <1>6 DEF FillInv

LEMMA NextKeeps ==
  ASSUME FillInv, [Next]_vars
  PROVE  FillInv'
<1>1. CASE Requests
  BY <1>1, PlacingKeeps, BookMarketKeeps, CancellingKeeps DEF Requests
<1>2. CASE Sweep
  BY <1>2, SweepStartKeeps, EvaluateKeeps, SweepCommitKeeps DEF Sweep, SweepEvaluate
<1>3. CASE World \/ UNCHANGED vars
  <2>1. UNCHANGED <<status, request, cancelling, todo, filled, fills>>
    BY <1>3 DEF World, Age, Tick, worker, vars
  <2> QED BY <2>1 DEF FillInv, HistoryOK, ShapeOK, PendingUnfilled, HeldUnfilled,
         HeldPlaced, CancellingPlaced, RequestsNew, Held
<1> QED BY <1>1, <1>2, <1>3 DEF Next

\* No order is filled twice (futures_order_worker.py 84, 158; futures_trading_service.py
\* 135, 311): for any orders, contracts, prices and number of sessions.
THEOREM FuturesFilledAtMostOnce == Spec => []FilledAtMostOnce
<1>1. FillInv => FilledAtMostOnce
  BY DEF FillInv, HistoryOK, FilledAtMostOnce
<1>2. FillInv /\ [Next]_vars => FillInv'
  BY NextKeeps
<1> QED BY <1>1, <1>2, FillInvInit, PTL DEF Spec
-----------------------------------------------------------------------------
(***************************************************************************)
(* Rows                                                                    *)
(***************************************************************************)
\* What is used of sequences of rows.
LEMMA FirstRow ==
  ASSUME NEW S, NEW s \in Seq(S)
  PROVE  /\ Len(s) \in Nat /\ (s = <<>> <=> Len(s) = 0) /\ s # <<>> => s[1] \in S
         /\ DOMAIN s = 1 .. Len(s)
<1>1. Len(s) \in Nat /\ (s = <<>> <=> Len(s) = 0)
  BY EmptySeq, LenProperties
<1>2. s # <<>> => s[1] \in S
  BY <1>1, ElementOfSeq
<1> QED BY <1>1, <1>2, LenProperties

LEMMA FirstReplaced ==
  ASSUME NEW S, NEW s \in Seq(S), s # <<>>, NEW e \in S
  PROVE  /\ [s EXCEPT ![1] = e] \in Seq(S) /\ [s EXCEPT ![1] = e] # <<>>
         /\ Len([s EXCEPT ![1] = e]) = Len(s) /\ [s EXCEPT ![1] = e][1] = e
<1>1. Len(s) \in Nat /\ 1 \in 1 .. Len(s)
  BY FirstRow
<1>2. /\ [s EXCEPT ![1] = e] \in Seq(S) /\ Len([s EXCEPT ![1] = e]) = Len(s)
      /\ [s EXCEPT ![1] = e][1] = e
  BY <1>1, ExceptSeq
<1> QED BY <1>1, <1>2, FirstRow

LEMMA OneRow ==
  ASSUME NEW S, NEW e \in S
  PROVE  <<e>> \in Seq(S) /\ Len(<<e>>) = 1 /\ <<e>>[1] = e /\ <<e>> # <<>>
  OBVIOUS

LEMMA RowAdded ==
  ASSUME NEW S, NEW s \in Seq(S), NEW e \in S
  PROVE  /\ Append(s, e) \in Seq(S) /\ Append(s, e) # <<>>
         /\ s = <<>> => Append(s, e) = <<e>>
<1>1. Append(s, e) = s \o <<e>>
  BY AppendIsConcat
<1>2. Append(s, e) \in Seq(S) /\ Append(s, e) # <<>>
  BY AppendProperties
<1>3. s = <<>> => s \o <<e>> = <<e>>
  BY OneRow, ConcatEmptySeq
<1> QED BY <1>1, <1>2, <1>3

LEMMA RowsJoined ==
  ASSUME NEW S, NEW s \in Seq(S), NEW t \in Seq(S)
  PROVE  /\ s \o t \in Seq(S) /\ (s # <<>> => s \o t # <<>>)
         /\ s = <<>> => s \o t = t
         /\ t = <<>> => s \o t = s
  BY ConcatProperties, ConcatEmptySeq, ConcatEqualIffEmpty

LEMMA FillIsInt ==
  ASSUME NEW o \in Orders
  PROVE  /\ Book[o].quantity \in Nat \ {0} /\ Book[o].contract \in Contracts
         /\ Book[o].side \in {"BUY", "SELL"}
         /\ Signed(o) \in Int
<1>1. Book[o] \in OrderSpec
  BY FuturesAssumption
<1>2. Book[o].quantity \in Nat \ {0} /\ Book[o].contract \in Contracts
      /\ Book[o].side \in {"BUY", "SELL"}
  BY <1>1 DEF OrderSpec
<1> QED BY <1>2 DEF Signed

\* The average of a grown position is a price again.
LEMMA AverageIsPrice ==
  ASSUME NEW r \in Rows, NEW o \in Orders, NEW p \in Nat
  PROVE  Averaged(r, o, p) \in Nat
<1> DEFINE n == Abs(r.quantity)
           q == Book[o].quantity
           cost == n * r.avg + q * p
<1>1. r.quantity \in Int /\ r.avg \in Nat
  BY DEF Rows
<1>2. n \in Nat /\ q \in Nat \ {0}
  BY <1>1, FillIsInt DEF Abs
<1> HIDE DEF n, q
<1>3. n * r.avg \in Nat /\ q * p \in Nat
  BY <1>1, <1>2
<1>4. cost \in Nat
  BY <1>3
<1> HIDE DEF cost
<1>5. 2 * cost + (n + q) \in Nat /\ 2 * (n + q) \in Nat \ {0}
  BY <1>2, <1>4
<1>6. \A a \in Nat, b \in Nat \ {0} : a \div b \in Nat
  OBVIOUS
<1>7. (2 * cost + (n + q)) \div (2 * (n + q)) \in Nat
  BY <1>5, <1>6
<1> QED BY <1>7 DEF Averaged, n, q, cost

LEMMA GainIsInt ==
  ASSUME NEW r \in Rows, NEW o \in Orders, NEW p \in Nat
  PROVE  Gain(r, o, p) \in Int
<1> DEFINE q == Book[o].quantity
           d == p - r.avg
<1>1. d \in Int /\ q \in Int
  BY FillIsInt DEF Rows
<1> HIDE DEF q, d
<1>2. d * q \in Int /\ -(d * q) \in Int
  BY <1>1
<1> QED BY <1>2 DEF Gain, q, d

\* A fill makes a row of a row, and adds its signed quantity, whichever program
\* books it and whether it adds, reduces, turns or closes.
LEMMA AdjustedRow ==
  ASSUME NEW r \in Rows, NEW o \in Orders, NEW p \in Nat
  PROVE  /\ Adjusted(r, o, p) \in Rows /\ AdjustedByWorker(r, o, p) \in Rows
         /\ Adjusted(r, o, p).quantity = r.quantity + Signed(o)
         /\ AdjustedByWorker(r, o, p).quantity = r.quantity + Signed(o)
<1>1. r.quantity + Signed(o) \in Int /\ r.avg \in Nat /\ r.realized \in Int
  BY FillIsInt DEF Rows
<1>2. Averaged(r, o, p) \in Nat /\ Gain(r, o, p) \in Int
  BY AverageIsPrice, GainIsInt
<1>3. /\ Adjusted(r, o, p) \in Rows
      /\ Adjusted(r, o, p).quantity = r.quantity + Signed(o)
  BY <1>1, <1>2 DEF Adjusted, Rows
<1>4. CASE r.quantity + Signed(o) = 0
  BY <1>3, <1>4 DEF AdjustedByWorker, Rows
<1>5. CASE r.quantity + Signed(o) # 0
  BY <1>3, <1>5 DEF AdjustedByWorker
<1> QED BY <1>3, <1>4, <1>5

LEMMA OpenedRow ==
  ASSUME NEW o \in Orders, NEW p \in Nat
  PROVE  Opened(o, p) \in Rows /\ Opened(o, p).quantity = Signed(o)
  BY FillIsInt DEF Opened, Rows

LEMMA CashIsInt ==
  ASSUME NEW money \in Int, NEW rows, NEW o \in Orders, NEW p \in Nat
  PROVE  CashAfter(money, rows, o, p) \in Int
<1>1. Margin(o, p) \in Int
  <2> DEFINE q == Book[o].quantity
  <2>1. q \in Nat
    BY FillIsInt
  <2> HIDE DEF q
  <2>2. p * q \in Int
    BY <2>1
  <2>3. (p * q) \div 10 \in Int
    BY <2>2
  <2> QED BY <2>3 DEF Margin, q
<1> QED BY <1>1 DEF CashAfter

LEMMA WrittenRow ==
  ASSUME NEW now \in Rows, NEW was \in Rows, NEW is \in Rows
  PROVE  WriteRow(now, was, is) \in Rows /\ (now = was => WriteRow(now, was, is) = is)
  BY DEF WriteRow, Write, Rows
-----------------------------------------------------------------------------
(***************************************************************************)
(* Types.  The view's rows are those of contracts that have a position,    *)
(* and rows are never deleted, so its commit finds the row it has read.    *)
(***************************************************************************)
Requested == [stage : {"none", "checked", "ready"}, cash : Int, price : Nat, rows : Seq(Rows)]
Viewed == [loaded : BOOLEAN, was : Int, cash : Int, read : SUBSET Contracts,
           old : [Contracts -> Seq(Rows)], rows : [Contracts -> Seq(Rows)],
           added : [Contracts -> Seq(Rows)]]

WorldTyped == /\ aged \subseteq Orders /\ quote \in [Contracts -> Quotes \cup {NoPrice}]
              /\ sweeping \in BOOLEAN /\ overlapped \in BOOLEAN

BooksTyped == /\ cash \in Int /\ positions \in [Contracts -> Seq(Rows)]
              /\ request \in [Orders -> Requested] /\ view \in Viewed

RowsThere ==
    /\ \A c \in view.read : positions[c] # <<>> /\ view.old[c] # <<>> /\ view.rows[c] # <<>>
    /\ \A o \in Orders : request[o].stage = "ready" /\ request[o].rows # <<>>
                           => positions[Book[o].contract] # <<>>

TypeInv == FillInv /\ WorldTyped /\ BooksTyped /\ RowsThere

LEMMA NoViewTyped ==
  /\ NoView \in Viewed /\ ~NoView.loaded /\ NoView.read = {}
  /\ \A c \in Contracts : NoView.added[c] = <<>>
<1>1. <<>> \in Seq(Rows)
  BY EmptySeq
<1>2. [c \in Contracts |-> <<>>] \in [Contracts -> Seq(Rows)]
  BY <1>1
<1> QED BY <1>2 DEF NoView, Viewed

LEMMA NoRequestTyped == NoRequest \in Requested
  BY EmptySeq DEF NoRequest, Requested

LEMMA TypeInvInit == Init => TypeInv
<1> SUFFICES ASSUME Init PROVE TypeInv
  OBVIOUS
<1>1. cash \in Int /\ positions \in [Contracts -> Seq(Rows)] /\ request \in [Orders -> Requested]
  BY FuturesAssumption, EmptySeq, NoRequestTyped DEF Init
<1>2. WorldTyped
  BY DEF Init, WorldTyped
<1>3. view \in Viewed /\ RowsThere
  BY NoViewTyped DEF Init, RowsThere, NoRequest
<1> QED BY <1>1, <1>2, <1>3, FillInvInit DEF TypeInv, BooksTyped

\* A sweep that begins or is given up leaves an empty view.
LEMMA ViewClears ==
  ASSUME TypeInv, UNCHANGED <<cash, positions, request>>, view' = NoView
  PROVE  BooksTyped' /\ RowsThere'
  BY NoViewTyped DEF TypeInv, BooksTyped, RowsThere

LEMMA BookMarketTyped ==
  ASSUME TypeInv, NEW o \in Orders, BookMarket(o)
  PROVE  BooksTyped' /\ RowsThere'
<1> DEFINE c == Book[o].contract
           r == request[o]
           ps == IF r.rows = <<>> THEN Append(positions[c], Opened(o, r.price))
                 ELSE [positions[c] EXCEPT
                         ![1] = WriteRow(positions[c][1], r.rows[1], Adjusted(r.rows[1], o, r.price))]
<1>1. /\ r.stage = "ready" /\ cash' = Write(cash, r.cash, CashAfter(r.cash, r.rows, o, r.price))
      /\ positions' = [positions EXCEPT ![c] = ps]
      /\ request' = [request EXCEPT ![o] = NoRequest] /\ UNCHANGED view
  BY DEF BookMarket, worker
<1>2. r \in Requested /\ c \in Contracts /\ positions[c] \in Seq(Rows)
  BY FillIsInt DEF TypeInv, BooksTyped
<1>3. r.cash \in Int /\ r.price \in Nat /\ r.rows \in Seq(Rows)
  BY <1>2 DEF Requested
<1>4. cash' \in Int
  BY <1>1, <1>3, CashIsInt DEF TypeInv, BooksTyped, Write
<1>5. ps \in Seq(Rows) /\ ps # <<>>
  <2>1. CASE r.rows = <<>>
    BY <1>2, <1>3, <2>1, OpenedRow, RowAdded
  <2>2. CASE r.rows # <<>>
    <3>1. positions[c] # <<>>
      BY <1>1, <2>2 DEF TypeInv, RowsThere
    <3>2. positions[c][1] \in Rows /\ r.rows[1] \in Rows
      BY <1>2, <1>3, <2>2, <3>1, FirstRow
    <3>3. WriteRow(positions[c][1], r.rows[1], Adjusted(r.rows[1], o, r.price)) \in Rows
      BY <1>3, <3>2, AdjustedRow, WrittenRow
    <3>4. ps = [positions[c] EXCEPT
                  ![1] = WriteRow(positions[c][1], r.rows[1], Adjusted(r.rows[1], o, r.price))]
      BY <2>2
    <3> QED BY <1>2, <3>1, <3>3, <3>4, FirstReplaced
  <2> QED BY <2>1, <2>2
<1> HIDE DEF ps, c
<1>6. positions' \in [Contracts -> Seq(Rows)] /\ request' \in [Orders -> Requested]
  BY <1>1, <1>2, <1>5, NoRequestTyped DEF TypeInv, BooksTyped
<1>7. \A d \in Contracts : positions[d] # <<>> => positions'[d] # <<>>
  BY <1>1, <1>2, <1>5 DEF TypeInv, BooksTyped
<1>8. RowsThere'
  <2>1. ASSUME NEW x \in Orders, request'[x].stage = "ready", request'[x].rows # <<>>
        PROVE  positions'[Book[x].contract] # <<>>
    <3>1. x # o
      BY <1>1, <2>1 DEF NoRequest, TypeInv, BooksTyped
    <3>2. request'[x] = request[x]
      BY <1>1, <3>1 DEF TypeInv, BooksTyped
    <3> QED BY <1>7, <2>1, <3>2, FillIsInt DEF TypeInv, RowsThere
  <2>2. view.read \subseteq Contracts
    BY DEF TypeInv, BooksTyped, Viewed
  <2> QED BY <1>1, <1>7, <2>1, <2>2 DEF TypeInv, RowsThere
<1> QED BY <1>1, <1>4, <1>6, <1>8 DEF BooksTyped, TypeInv

\* What a fill of the sweep does to its view, with at most one row of the contract.
LEMMA ViewGrows ==
  ASSUME TypeInv, NEW o \in Orders, NEW p \in Nat,
         ~ (Len(positions[Book[o].contract]) + Len(view.added[Book[o].contract]) > 1)
  PROVE  LET c == Book[o].contract
             v == ViewAfter(o, p)
         IN /\ v \in Viewed /\ v.loaded
            /\ positions[c] # <<>> =>
                 /\ view.added[c] = <<>> /\ Selected(c) # <<>> /\ Selected(c)[1] \in Rows
                 /\ v.read = view.read \cup {c} /\ v.added = view.added
                 /\ v.rows = [view.rows EXCEPT ![c] = <<AdjustedByWorker(Selected(c)[1], o, p)>>]
                 /\ v.old = IF c \in view.read THEN view.old
                            ELSE [view.old EXCEPT ![c] = positions[c]]
            /\ positions[c] = <<>> =>
                 /\ c \notin view.read /\ v.read = view.read /\ v.rows = view.rows
                 /\ v.old = [view.old EXCEPT ![c] = positions[c]]
                 /\ Selected(c) = view.added[c]
                 /\ v.added = [view.added EXCEPT ![c] =
                                 <<IF view.added[c] = <<>> THEN Opened(o, p)
                                   ELSE AdjustedByWorker(view.added[c][1], o, p)>>]
<1> DEFINE c == Book[o].contract
           rows == Selected(c)
           v == ViewAfter(o, p)
<1>1. c \in Contracts /\ positions[c] \in Seq(Rows) /\ view \in Viewed
  BY FillIsInt DEF TypeInv, BooksTyped
<1>2. /\ view.read \subseteq Contracts /\ view.added \in [Contracts -> Seq(Rows)]
      /\ view.rows \in [Contracts -> Seq(Rows)] /\ view.old \in [Contracts -> Seq(Rows)]
      /\ view.was \in Int /\ view.cash \in Int
  BY <1>1 DEF Viewed
<1>3. view.added[c] \in Seq(Rows) /\ view.rows[c] \in Seq(Rows) /\ view.old[c] \in Seq(Rows)
  BY <1>1, <1>2
<1>4. positions[c] # <<>> => view.added[c] = <<>>
  <2>1. /\ Len(positions[c]) \in Nat /\ (positions[c] = <<>> <=> Len(positions[c]) = 0)
        /\ Len(view.added[c]) \in Nat /\ (view.added[c] = <<>> <=> Len(view.added[c]) = 0)
    BY <1>1, <1>3, FirstRow
  <2>2. ~ (Len(positions[c]) + Len(view.added[c]) > 1)
    OBVIOUS
  <2>3. \A m, n \in Nat : ~ (m + n > 1) /\ m # 0 => n = 0
    OBVIOUS
  <2> HIDE DEF c
  <2> QED BY <2>1, <2>2, <2>3
<1>5. c \in view.read => positions[c] # <<>> /\ view.rows[c] # <<>>
  BY DEF TypeInv, RowsThere
<1>6. /\ rows \in Seq(Rows)
      /\ positions[c] # <<>> => rows # <<>>
      /\ positions[c] = <<>> => rows = view.added[c]
  BY <1>1, <1>3, <1>4, <1>5 DEF Selected
<1>7. rows # <<>> => rows[1] \in Rows
  BY <1>6, FirstRow
<1>8. /\ Loaded \in Viewed /\ Loaded.loaded /\ Loaded.read = view.read /\ Loaded.old = view.old
      /\ Loaded.rows = view.rows /\ Loaded.added = view.added
  BY <1>1 DEF Loaded, Viewed, TypeInv, BooksTyped
<1> DEFINE row == AdjustedByWorker(rows[1], o, p)
           new == IF rows = <<>> THEN Opened(o, p) ELSE row
           read == IF positions[c] # <<>> THEN view.read \cup {c} ELSE view.read
           old == IF c \in view.read THEN view.old ELSE [view.old EXCEPT ![c] = positions[c]]
           changed == IF positions[c] = <<>> THEN view.rows ELSE [view.rows EXCEPT ![c] = <<row>>]
           added == IF positions[c] # <<>> THEN view.added ELSE [view.added EXCEPT ![c] = <<new>>]
<1>9. v = [loaded |-> TRUE, was |-> Loaded.was, cash |-> CashAfter(Loaded.cash, rows, o, p),
           read |-> read, old |-> old, rows |-> changed, added |-> added]
  BY <1>8 DEF ViewAfter
<1>10. (rows # <<>> => row \in Rows) /\ new \in Rows
  BY <1>7, AdjustedRow, OpenedRow
<1>11. CashAfter(Loaded.cash, rows, o, p) \in Int /\ Loaded.was \in Int
  <2>1. Loaded.cash \in Int /\ Loaded.was \in Int
    BY <1>8 DEF Viewed
  <2> QED BY <2>1, CashIsInt
<1> HIDE DEF row, new, c, rows, v
<1>12. read \subseteq Contracts /\ old \in [Contracts -> Seq(Rows)]
       /\ changed \in [Contracts -> Seq(Rows)] /\ added \in [Contracts -> Seq(Rows)]
  <2>1. read \subseteq Contracts /\ old \in [Contracts -> Seq(Rows)]
    BY <1>1, <1>2
  <2>2. changed \in [Contracts -> Seq(Rows)]
    BY <1>1, <1>2, <1>6, <1>10, OneRow
  <2>3. added \in [Contracts -> Seq(Rows)]
    BY <1>1, <1>2, <1>10, OneRow
  <2> QED BY <2>1, <2>2, <2>3
<1>13. v \in Viewed /\ v.loaded /\ v.read = read /\ v.old = old /\ v.rows = changed /\ v.added = added
  BY <1>9, <1>11, <1>12 DEF Viewed
<1>14. /\ positions[c] # <<>> =>
            /\ view.added[c] = <<>> /\ rows # <<>> /\ rows[1] \in Rows
            /\ v.read = view.read \cup {c} /\ v.added = view.added
            /\ v.rows = [view.rows EXCEPT ![c] = <<row>>]
            /\ v.old = old
       /\ positions[c] = <<>> =>
            /\ c \notin view.read /\ v.read = view.read /\ v.rows = view.rows
            /\ v.old = old /\ rows = view.added[c]
            /\ v.added = [view.added EXCEPT ![c] = <<new>>]
  BY <1>4, <1>5, <1>6, <1>7, <1>13
<1> QED BY <1>13, <1>14 DEF row, new, c, rows, v

LEMMA SweepFillTyped ==
  ASSUME TypeInv, NEW o \in Orders, SweepFill(o)
  PROVE  BooksTyped' /\ RowsThere'
<1> DEFINE c == Book[o].contract
           p == quote[c]
<1>1. view' = ViewAfter(o, p) /\ UNCHANGED <<cash, positions, request>> /\ p # NoPrice
  BY DEF SweepFill, ShouldFill
<1>2. c \in Contracts
  BY FillIsInt
<1>3. p \in Nat
  <2>1. p \in Quotes
    BY <1>1, <1>2 DEF TypeInv, WorldTyped
  <2> QED BY <2>1, FuturesAssumption
<1> HIDE DEF p
<1>4. CASE Len(positions[c]) + Len(view.added[c]) > 1
  <2>1. view' = Loaded
    BY <1>1, <1>4 DEF ViewAfter
  <2>2. /\ Loaded \in Viewed /\ Loaded.read = view.read /\ Loaded.old = view.old
        /\ Loaded.rows = view.rows
    BY DEF Loaded, Viewed, TypeInv, BooksTyped
  <2> QED BY <1>1, <2>1, <2>2 DEF TypeInv, BooksTyped, RowsThere
<1>5. CASE ~ (Len(positions[c]) + Len(view.added[c]) > 1)
  <2>1. view' \in Viewed
    BY <1>1, <1>3, <1>5, ViewGrows
  <2>2. BooksTyped'
    BY <1>1, <2>1 DEF TypeInv, BooksTyped
  <2>3. view.rows \in [Contracts -> Seq(Rows)] /\ view.old \in [Contracts -> Seq(Rows)]
        /\ view.read \subseteq Contracts
    BY DEF TypeInv, BooksTyped, Viewed
  <2>4. CASE positions[c] # <<>>
    <3>1. /\ view'.read = view.read \cup {c}
          /\ view'.rows = [view.rows EXCEPT ![c] = <<AdjustedByWorker(Selected(c)[1], o, p)>>]
          /\ view'.old = IF c \in view.read THEN view.old
                         ELSE [view.old EXCEPT ![c] = positions[c]]
      BY <1>1, <1>3, <1>5, <2>4, ViewGrows
    <3>2. ASSUME NEW d \in view'.read
          PROVE  positions'[d] # <<>> /\ view'.old[d] # <<>> /\ view'.rows[d] # <<>>
      BY <1>1, <1>2, <2>3, <2>4, <3>1, <3>2 DEF TypeInv, RowsThere
    <3> QED BY <1>1, <2>2, <3>2 DEF TypeInv, RowsThere
  <2>5. CASE positions[c] = <<>>
    <3>1. /\ c \notin view.read /\ view'.read = view.read /\ view'.rows = view.rows
          /\ view'.old = [view.old EXCEPT ![c] = positions[c]]
      BY <1>1, <1>3, <1>5, <2>5, ViewGrows
    <3>2. \A d \in view.read : view'.old[d] = view.old[d]
      BY <2>3, <3>1
    <3> QED BY <1>1, <2>2, <3>1, <3>2 DEF TypeInv, RowsThere
  <2> QED BY <2>4, <2>5
<1> QED BY <1>4, <1>5

\* The row of a contract after the commit.
Committed(c) ==
    (IF c \in view.read
     THEN [positions[c] EXCEPT ![1] = WriteRow(@, view.old[c][1], view.rows[c][1])]
     ELSE positions[c]) \o view.added[c]

LEMMA CommittedRows ==
  ASSUME TypeInv, NEW c \in Contracts
  PROVE  /\ Committed(c) \in Seq(Rows)
         /\ positions[c] # <<>> => Committed(c) # <<>>
         /\ c \notin view.read => Committed(c) = positions[c] \o view.added[c]
         /\ c \in view.read /\ view.added[c] = <<>> =>
              /\ Committed(c) # <<>> /\ Len(Committed(c)) = Len(positions[c])
              /\ Committed(c)[1] = WriteRow(positions[c][1], view.old[c][1], view.rows[c][1])
<1>1. /\ positions[c] \in Seq(Rows) /\ view.added[c] \in Seq(Rows)
      /\ view.old[c] \in Seq(Rows) /\ view.rows[c] \in Seq(Rows)
  BY DEF TypeInv, BooksTyped, Viewed
<1>2. CASE c \notin view.read
  BY <1>1, <1>2, RowsJoined DEF Committed
<1>3. CASE c \in view.read
  <2> DEFINE w == WriteRow(positions[c][1], view.old[c][1], view.rows[c][1])
             s == [positions[c] EXCEPT ![1] = w]
  <2>1. positions[c] # <<>> /\ view.old[c] # <<>> /\ view.rows[c] # <<>>
    BY <1>3 DEF TypeInv, RowsThere
  <2>2. w \in Rows
    BY <1>1, <2>1, FirstRow, WrittenRow
  <2>3. Committed(c) = s \o view.added[c]
    BY <1>3 DEF Committed
  <2> HIDE DEF w
  <2>4. s \in Seq(Rows) /\ s # <<>> /\ Len(s) = Len(positions[c]) /\ s[1] = w
    BY <1>1, <2>1, <2>2, FirstReplaced
  <2> HIDE DEF s
  <2>5. /\ s \o view.added[c] \in Seq(Rows) /\ s \o view.added[c] # <<>>
        /\ view.added[c] = <<>> => s \o view.added[c] = s
    BY <1>1, <2>4, RowsJoined
  <2> QED BY <1>3, <2>3, <2>4, <2>5 DEF w
<1> QED BY <1>2, <1>3

LEMMA SweepCommitTyped ==
  ASSUME TypeInv, SweepCommit
  PROVE  BooksTyped' /\ RowsThere'
<1>1. /\ cash' = Write(cash, view.was, view.cash) /\ view' = NoView /\ UNCHANGED request
      /\ positions' = [c \in Contracts |-> Committed(c)]
  BY DEF SweepCommit, Committed
<1>2. cash' \in Int
  BY <1>1 DEF TypeInv, BooksTyped, Viewed, Write
<1>3. positions' \in [Contracts -> Seq(Rows)]
  BY <1>1, CommittedRows
<1>4. \A c \in Contracts : positions[c] # <<>> => positions'[c] # <<>>
  BY <1>1, CommittedRows
<1> QED BY <1>1, <1>2, <1>3, <1>4, NoViewTyped, FillIsInt DEF TypeInv, BooksTyped, RowsThere

LEMMA ReadTyped ==
  ASSUME TypeInv, NEW o \in Orders, ReadPosition(o)
  PROVE  BooksTyped' /\ RowsThere'
<1> DEFINE rows == positions[Book[o].contract]
           r == IF Len(rows) > 1 THEN NoRequest
                ELSE [stage |-> "ready", cash |-> request[o].cash,
                      price |-> request[o].price, rows |-> rows]
<1>1. request' = [request EXCEPT ![o] = r] /\ UNCHANGED <<cash, positions, view>>
  BY DEF ReadPosition, worker
<1>2. request[o] \in Requested /\ rows \in Seq(Rows)
  BY FillIsInt DEF TypeInv, BooksTyped
<1>3. r \in Requested /\ (r = NoRequest \/ r.rows = positions[Book[o].contract])
  BY <1>2, NoRequestTyped DEF Requested
<1>4. r = NoRequest => r.stage # "ready"
  BY DEF NoRequest
<1> HIDE DEF r, rows
<1> QED BY <1>1, <1>3, <1>4 DEF TypeInv, BooksTyped, RowsThere

LEMMA PlaceMarketTyped ==
  ASSUME TypeInv, NEW o \in Orders, PlaceMarket(o)
  PROVE  BooksTyped' /\ RowsThere'
<1>1. PICK p \in Quotes : request' = [request EXCEPT ![o] =
            [stage |-> "checked", cash |-> cash, price |-> p, rows |-> <<>>]]
  BY DEF PlaceMarket
<1>2. UNCHANGED <<cash, positions, view>>
  BY DEF PlaceMarket, worker
<1> DEFINE r == [stage |-> "checked", cash |-> cash, price |-> p, rows |-> <<>>]
<1>3. r \in Requested /\ r.stage # "ready"
  BY FuturesAssumption, EmptySeq DEF Requested, TypeInv, BooksTyped
<1> HIDE DEF r
<1> QED BY <1>1, <1>2, <1>3 DEF TypeInv, BooksTyped, RowsThere, r

LEMMA TypeInvNext == TypeInv /\ [Next]_vars => TypeInv'
<1> SUFFICES ASSUME TypeInv, [Next]_vars PROVE TypeInv'
  OBVIOUS
<1>1. FillInv'
  BY NextKeeps DEF TypeInv
<1>2. overlapped' \in BOOLEAN
  BY DEF Next, Overlapping, vars, TypeInv, WorldTyped
<1>3. WorldTyped'
  <2>1. CASE Requests
    BY <1>2, <2>1 DEF Requests, PlaceResting, PlaceMarket, ReadPosition, BookMarket, CancelRead,
                      CancelCommit, worker, TypeInv, WorldTyped
  <2>2. CASE Sweep
    BY <1>2, <2>2 DEF Sweep, SweepEvaluate, SweepStart, SweepSkip, SweepFill, SweepExpire,
                      SweepCommit, TypeInv, WorldTyped
  <2>3. CASE World
    BY <1>2, <2>3 DEF World, Age, Tick, worker, TypeInv, WorldTyped
  <2>4. CASE UNCHANGED vars
    BY <2>4 DEF vars, TypeInv, WorldTyped
  <2> QED BY <2>1, <2>2, <2>3, <2>4 DEF Next
<1>4. BooksTyped' /\ RowsThere'
  <2>0. ASSUME UNCHANGED <<cash, positions, request, view>> PROVE BooksTyped' /\ RowsThere'
    BY <2>0 DEF TypeInv, BooksTyped, RowsThere
  <2>1. CASE Requests
    <3>1. PICK o \in Orders : \/ PlaceResting(o) \/ PlaceMarket(o) \/ ReadPosition(o)
                              \/ BookMarket(o) \/ CancelRead(o) \/ CancelCommit(o)
      BY <2>1 DEF Requests
    <3>2. CASE PlaceResting(o) \/ CancelRead(o) \/ CancelCommit(o)
      BY <2>0, <3>2 DEF PlaceResting, CancelRead, CancelCommit, worker
    <3> QED BY <3>1, <3>2, PlaceMarketTyped, ReadTyped, BookMarketTyped
  <2>2. CASE Sweep
    <3>1. CASE SweepStart
      BY <3>1, ViewClears DEF SweepStart
    <3>2. CASE SweepCommit
      BY <3>2, SweepCommitTyped
    <3>3. ASSUME NEW o \in Orders, SweepSkip(o) PROVE BooksTyped' /\ RowsThere'
      BY <2>0, <3>3 DEF SweepSkip
    <3>4. ASSUME NEW o \in Orders, SweepExpire(o) PROVE BooksTyped' /\ RowsThere'
      BY <3>4, ViewClears DEF SweepExpire
    <3>5. ASSUME NEW o \in Orders, SweepFill(o) PROVE BooksTyped' /\ RowsThere'
      BY <3>5, SweepFillTyped
    <3> QED BY <2>2, <3>1, <3>2, <3>3, <3>4, <3>5 DEF Sweep, SweepEvaluate
  <2>3. CASE World \/ UNCHANGED vars
    BY <2>0, <2>3 DEF World, Age, Tick, worker, vars
  <2> QED BY <2>1, <2>2, <2>3 DEF Next
<1> QED BY <1>1, <1>3, <1>4 DEF TypeInv

\* Every variable keeps its type: the rows stay rows of whole numbers, with a price that
\* is not negative, through averaging, turning and what an overlapping session writes over.
THEOREM FuturesTyped == Spec => []TypeOK
<1>1. TypeInv => TypeOK
  <2> SUFFICES ASSUME TypeInv PROVE TypeOK
    OBVIOUS
  <2>1. \A c \in Contracts : \A i \in 1 .. Len(positions[c]) : positions[c][i] \in Rows
    BY ElementOfSeq DEF TypeInv, BooksTyped
  <2>2. view.loaded \in BOOLEAN
    BY DEF TypeInv, BooksTyped, Viewed
  <2> QED BY <2>1, <2>2 DEF TypeInv, FillInv, HistoryOK, ShapeOK, Held, WorldTyped, BooksTyped,
                            TypeOK
<1> QED BY <1>1, TypeInvInit, TypeInvNext, PTL DEF Spec
-----------------------------------------------------------------------------
(***************************************************************************)
(* A position is the sum of its fills, as long as no two sessions that     *)
(* fill were open at once.  The session that is open has then read the     *)
(* rows as they are: a request that is ready holds the row it will write   *)
(* over, and the sweep's view holds the rows as they will be once its      *)
(* fills are committed.  So two sums are kept: that of the committed rows  *)
(* with the committed fills, and that of the rows of the view with these   *)
(* and the fills the sweep has still to commit.                            *)
(***************************************************************************)
OrdersOf(c) == {x \in Orders : Book[x].contract = c}
Shares(n, c) == SumFunctionOnSet([x \in Orders |-> Signed(x) * n[x]], OrdersOf(c))

Quantity(rows) == IF rows = <<>> THEN 0 ELSE rows[1].quantity

\* The rows of c as the open session will leave them, and the fills with them.
Coming(c) == IF c \in view.read THEN view.rows[c]
             ELSE IF view.added[c] # <<>> THEN view.added[c] ELSE positions[c]
Later == [x \in Orders |-> IF x \in filled THEN fills[x] + 1 ELSE fills[x]]

\* The quantity of at most one row is a number.
LEMMA RowQuantity ==
  ASSUME NEW s \in Seq(Rows)
  PROVE  Quantity(s) \in Int
<1>1. CASE s = <<>>
  BY <1>1 DEF Quantity
<1>2. CASE s # <<>>
  <2>1. s[1] \in Rows
    BY <1>2, FirstRow
  <2>2. \A r \in Rows : r.quantity \in Int
    BY DEF Rows
  <2>3. Quantity(s) = s[1].quantity
    BY <1>2 DEF Quantity
  <2> QED BY <2>1, <2>2, <2>3
<1> QED BY <1>1, <1>2

ClosedIsEmpty == ~view.loaded => view = NoView /\ filled = {}
FilledIsDone == todo \cap filled = {}

ReadyIsFresh == \A x \in Orders :
    request[x].stage = "ready" => request[x].rows = positions[Book[x].contract]

ViewIsFresh == \A c \in Contracts :
    /\ Len(view.added[c]) <= 1
    /\ view.added[c] # <<>> => positions[c] = <<>>
    /\ c \in view.read => view.old[c] = positions[c] /\ Len(view.rows[c]) = 1

SumsAgree == \A c \in Contracts :
    /\ Len(positions[c]) <= 1
    /\ Quantity(positions[c]) = Shares(fills, c)
    /\ Quantity(Coming(c)) = Shares(Later, c)

Alone == ~Overlapping /\ ReadyIsFresh /\ ViewIsFresh /\ SumsAgree

BooksInv == TypeInv /\ ClosedIsEmpty /\ FilledIsDone /\ (~overlapped => Alone)

\* One more fill of one order adds its signed quantity to the sum of its contract.
LEMMA SharesGrow ==
  ASSUME NEW n \in [Orders -> Nat], NEW o \in Orders, NEW c
  PROVE  Shares([n EXCEPT ![o] = @ + 1], c)
         = Shares(n, c) + (IF Book[o].contract = c THEN Signed(o) ELSE 0)
<1> DEFINE m == [n EXCEPT ![o] = @ + 1]
           f == [x \in Orders |-> Signed(x) * n[x]]
           g == [x \in Orders |-> Signed(x) * m[x]]
           S == OrdersOf(c)
<1>1. IsFiniteSet(S)
  BY FuturesAssumption, FS_Subset DEF OrdersOf
<1>2. \A x \in Orders : f[x] \in Int
  <2>1. ASSUME NEW x \in Orders PROVE f[x] \in Int
    <3>1. Signed(x) \in Int /\ n[x] \in Int
      BY FillIsInt
    <3>2. \A a, b \in Int : a * b \in Int
      OBVIOUS
    <3> QED BY <3>1, <3>2
  <2> QED BY <2>1
<1>3. g[o] = f[o] + Signed(o) /\ g[o] \in Int /\ Signed(o) \in Int
  <2>1. g[o] = Signed(o) * (n[o] + 1) /\ n[o] \in Int /\ Signed(o) \in Int
    BY FillIsInt
  <2>2. \A a, b \in Int : a * (b + 1) = a * b + a /\ a * b + a \in Int
    OBVIOUS
  <2> QED BY <2>1, <2>2
<1>4. \A x \in Orders \ {o} : g[x] = f[x]
  OBVIOUS
<1>5. Shares(m, c) = SumFunctionOnSet(g, S) /\ Shares(n, c) = SumFunctionOnSet(f, S)
  BY DEF Shares
<1>6. S \subseteq Orders /\ (o \in S <=> Book[o].contract = c)
  BY DEF OrdersOf
<1> HIDE DEF f, g, S, m
<1>7. SumFunctionOnSet(f, S) \in Int
  BY <1>1, <1>2, <1>6, SumInt
<1>8. CASE o \in S
  <2>1. SumFunctionOnSet(g, S) = SumFunctionOnSet(f, S) - f[o] + g[o]
    BY <1>1, <1>2, <1>3, <1>4, <1>6, <1>8, SumChange
  <2>2. f[o] \in Int
    BY <1>2
  <2> QED BY <1>3, <1>5, <1>6, <1>7, <1>8, <2>1, <2>2 DEF m
<1>9. CASE o \notin S
  <2>1. SumFunctionOnSet(g, S) = SumFunctionOnSet(f, S)
    BY <1>1, <1>2, <1>4, <1>6, <1>9, SumAgrees
  <2> QED BY <1>5, <1>6, <1>7, <1>9, <2>1 DEF m
<1> QED BY <1>8, <1>9

\* No fill, no shares.
LEMMA NoShares ==
  ASSUME NEW n, \A x \in Orders : n[x] = 0, NEW c
  PROVE  Shares(n, c) = 0
<1> DEFINE f == [x \in Orders |-> Signed(x) * n[x]]
<1>1. IsFiniteSet(OrdersOf(c))
  BY FuturesAssumption, FS_Subset DEF OrdersOf
<1>2. \A x \in OrdersOf(c) : f[x] = 0
  <2>1. \A a \in Int : a * 0 = 0
    OBVIOUS
  <2> QED BY <2>1, FillIsInt DEF OrdersOf
<1> HIDE DEF f
<1>3. SumFunctionOnSet(f, OrdersOf(c)) = 0
  BY <1>1, <1>2, SumZero
<1> QED BY <1>3 DEF Shares, f

\* What it means that no two sessions are open.
LEMMA OneSession ==
  ASSUME NEW req, NEW loaded \in BOOLEAN,
         ~ (Cardinality({x \in Orders : req[x] # NoRequest}) + (IF loaded THEN 1 ELSE 0) > 1)
  PROVE  /\ loaded => \A x \in Orders : req[x] = NoRequest
         /\ \A x, y \in Orders : req[x] # NoRequest /\ req[y] # NoRequest => x = y
<1> DEFINE S == {x \in Orders : req[x] # NoRequest}
<1>1. IsFiniteSet(S)
  BY FuturesAssumption, FS_Subset
<1>2. Cardinality(S) \in Nat
  BY <1>1, FS_CardinalityType
<1>3. Cardinality(S) = 0 \/ (Cardinality(S) = 1 /\ ~loaded)
  BY <1>2
<1>4. Cardinality(S) = 0 => S = {}
  BY <1>1, FS_EmptySet
<1>5. Cardinality(S) = 1 => \E x : S = {x}
  BY <1>1, FS_Singleton
<1> QED BY <1>3, <1>4, <1>5

LEMMA AloneMeans ==
  ASSUME BooksInv, ~overlapped
  PROVE  /\ Alone
         /\ view.loaded => \A x \in Orders : request[x] = NoRequest
         /\ \A x, y \in Orders : request[x] # NoRequest /\ request[y] # NoRequest => x = y
<1>1. Alone /\ view.loaded \in BOOLEAN
  BY DEF BooksInv, TypeInv, BooksTyped, Viewed
<1> QED BY <1>1, OneSession DEF Alone, Overlapping

LEMMA LaterTyped ==
  ASSUME BooksInv
  PROVE  /\ fills \in [Orders -> Nat] /\ Later \in [Orders -> Nat]
         /\ filled = {} => Later = fills
<1>1. fills \in [Orders -> Nat]
  BY DEF BooksInv, TypeInv, FillInv, HistoryOK
<1> QED BY <1>1 DEF Later

\* Without a view nothing is coming.
LEMMA NothingComes ==
  ASSUME BooksInv, ~view.loaded
  PROVE  view = NoView /\ filled = {} /\ Later = fills /\ \A c \in Contracts : Coming(c) = positions[c]
  BY LaterTyped, NoViewTyped DEF BooksInv, ClosedIsEmpty, Coming

LEMMA BooksInvInit == Init => BooksInv
<1> SUFFICES ASSUME Init PROVE BooksInv
  OBVIOUS
<1>1. TypeInv /\ ClosedIsEmpty /\ FilledIsDone
  BY TypeInvInit DEF Init, ClosedIsEmpty, FilledIsDone
<1>2. ~Overlapping
  <2>1. {x \in Orders : request[x] # NoRequest} = {}
    BY DEF Init
  <2>2. Cardinality({x \in Orders : request[x] # NoRequest}) = 0
    BY <2>1, FS_EmptySet
  <2> QED BY <2>2, NoViewTyped DEF Init, Overlapping
<1>3. ReadyIsFresh
  BY DEF Init, ReadyIsFresh, NoRequest
<1>4. ViewIsFresh
  <2>1. Len(<<>>) = 0
    OBVIOUS
  <2> QED BY <2>1, NoViewTyped DEF Init, ViewIsFresh
<1>5. SumsAgree
  <2> SUFFICES ASSUME NEW c \in Contracts
               PROVE  /\ Len(positions[c]) <= 1 /\ Quantity(positions[c]) = Shares(fills, c)
                      /\ Quantity(Coming(c)) = Shares(Later, c)
    BY DEF SumsAgree
  <2>1. positions[c] = <<>> /\ Coming(c) = <<>>
    BY NoViewTyped DEF Init, Coming
  <2>2. \A x \in Orders : fills[x] = 0 /\ Later[x] = 0
    BY DEF Init, Later
  <2>3. Shares(fills, c) = 0 /\ Shares(Later, c) = 0
    BY <2>2, NoShares
  <2> QED BY <2>1, <2>3 DEF Quantity
<1> QED BY <1>1, <1>2, <1>3, <1>4, <1>5 DEF BooksInv, Alone

\* A step that books nothing and reads no position: what was fresh stays fresh.
LEMMA NothingBooked ==
  ASSUME BooksInv, TypeInv', UNCHANGED <<positions, fills, view, filled>>,
         todo' \subseteq todo \/ filled = {},
         \A x \in Orders : request'[x].stage = "ready" =>
             request'[x] = request[x] \/ request'[x].rows = positions[Book[x].contract],
         ~overlapped' => ~overlapped /\ ~Overlapping'
  PROVE  BooksInv'
<1>1. ClosedIsEmpty' /\ FilledIsDone'
  BY DEF BooksInv, ClosedIsEmpty, FilledIsDone
<1>2. ASSUME ~overlapped' PROVE Alone'
  <2>1. Alone
    BY <1>2, AloneMeans
  <2>2. ReadyIsFresh'
    BY <2>1 DEF Alone, ReadyIsFresh
  <2>3. ViewIsFresh'
    BY <2>1 DEF Alone, ViewIsFresh
  <2>4. Later' = Later /\ (\A c \in Contracts : Coming(c)' = Coming(c))
    BY DEF Later, Coming
  <2>5. SumsAgree'
    BY <2>1, <2>4 DEF Alone, SumsAgree
  <2> QED BY <1>2, <2>2, <2>3, <2>5 DEF Alone
<1> QED BY <1>1, <1>2 DEF BooksInv

\* A sweep that begins, or is rolled back, leaves rows and fills as they were.
LEMMA SweepBeginsKeeps ==
  ASSUME BooksInv, TypeInv', view' = NoView, filled' = {},
         UNCHANGED <<positions, fills, request>>,
         ~overlapped' => ~overlapped /\ ~Overlapping'
  PROVE  BooksInv'
<1>1. ClosedIsEmpty' /\ FilledIsDone'
  BY DEF ClosedIsEmpty, FilledIsDone
<1>2. ASSUME ~overlapped' PROVE Alone'
  <2>1. Alone
    BY <1>2, AloneMeans
  <2>2. ReadyIsFresh'
    BY <2>1 DEF Alone, ReadyIsFresh
  <2>3. ViewIsFresh'
    <3>1. Len(<<>>) = 0
      OBVIOUS
    <3> QED BY <3>1, NoViewTyped DEF ViewIsFresh
  <2>4. \A c \in Contracts : Coming(c)' = positions[c]
    BY NoViewTyped DEF Coming
  <2>5. Later' = fills
    BY LaterTyped DEF Later
  <2>6. SumsAgree'
    BY <2>1, <2>4, <2>5 DEF Alone, SumsAgree
  <2> QED BY <1>2, <2>2, <2>3, <2>6 DEF Alone
<1> QED BY <1>1, <1>2 DEF BooksInv

\* A request that fills alone has read the row it writes over.
LEMMA BookMarketSums ==
  ASSUME BooksInv, TypeInv', NEW o \in Orders, BookMarket(o),
         ~overlapped' => ~overlapped /\ ~Overlapping'
  PROVE  BooksInv'
<1> DEFINE c == Book[o].contract
           r == request[o]
           ps == IF r.rows = <<>> THEN Append(positions[c], Opened(o, r.price))
                 ELSE [positions[c] EXCEPT
                         ![1] = WriteRow(positions[c][1], r.rows[1], Adjusted(r.rows[1], o, r.price))]
<1>1. /\ r.stage = "ready" /\ positions' = [positions EXCEPT ![c] = ps]
      /\ fills' = [fills EXCEPT ![o] = @ + 1]
      /\ request' = [request EXCEPT ![o] = NoRequest] /\ UNCHANGED <<view, todo, filled>>
  BY DEF BookMarket, worker
<1>2. ClosedIsEmpty' /\ FilledIsDone'
  BY <1>1 DEF BooksInv, ClosedIsEmpty, FilledIsDone
<1>3. ASSUME ~overlapped' PROVE Alone'
  <2>1. /\ Alone /\ (view.loaded => \A x \in Orders : request[x] = NoRequest)
        /\ \A x, y \in Orders : request[x] # NoRequest /\ request[y] # NoRequest => x = y
    BY <1>3, AloneMeans
  <2>2. request[o] # NoRequest
    BY <1>1 DEF NoRequest
  <2>3. ~view.loaded
    BY <2>1, <2>2
  <2>4. /\ view' = NoView /\ filled' = {} /\ ~view'.loaded
        /\ \A d \in Contracts : Coming(d)' = positions'[d]
    BY <1>1, <2>3, NothingComes, NoViewTyped DEF Coming
  <2>5. Later' = fills'
    BY <1>1, <2>4, LaterTyped DEF Later
  <2>6. c \in Contracts /\ positions \in [Contracts -> Seq(Rows)] /\ r.price \in Nat
    BY FillIsInt DEF BooksInv, TypeInv, BooksTyped, Requested
  <2>7. r.rows = positions[c] /\ Len(positions[c]) <= 1
    BY <1>1, <2>1, <2>6 DEF Alone, ReadyIsFresh, SumsAgree
  <2>8. ps # <<>> /\ Len(ps) <= 1 /\ Quantity(ps) = Quantity(positions[c]) + Signed(o)
    <3> DEFINE s == positions[c]
    <3>0. s \in Seq(Rows) /\ Signed(o) \in Int
      BY <2>6, FillIsInt
    <3>1. CASE s = <<>>
      <4>1. ps = <<Opened(o, r.price)>>
        BY <2>6, <2>7, <3>1, OpenedRow, RowAdded
      <4> QED BY <2>6, <3>0, <3>1, <4>1, OpenedRow, OneRow DEF Quantity
    <3>2. CASE s # <<>>
      <4>1. s[1] \in Rows
        BY <3>0, <3>2, FirstRow
      <4> DEFINE w == Adjusted(s[1], o, r.price)
      <4>2. w \in Rows /\ w.quantity = s[1].quantity + Signed(o)
        BY <2>6, <4>1, AdjustedRow
      <4>3. WriteRow(s[1], s[1], w) = w
        BY <4>1, <4>2, WrittenRow
      <4>4. ps = [s EXCEPT ![1] = w]
        BY <2>7, <3>2, <4>3
      <4> HIDE DEF w, ps, s
      <4>5. ps # <<>> /\ Len(ps) = Len(s) /\ ps[1] = w
        BY <3>0, <3>2, <4>2, <4>4, FirstReplaced
      <4> QED BY <2>7, <3>2, <4>2, <4>5 DEF Quantity, s
    <3> QED BY <3>1, <3>2
  <2> HIDE DEF ps
  <2>9. SumsAgree'
    <3> SUFFICES ASSUME NEW d \in Contracts
                 PROVE  /\ Len(positions'[d]) <= 1 /\ Quantity(positions'[d]) = Shares(fills', d)
      BY <2>4, <2>5 DEF SumsAgree
    <3>1. Len(positions[d]) <= 1 /\ Quantity(positions[d]) = Shares(fills, d)
      BY <2>1 DEF Alone, SumsAgree
    <3>2. Shares(fills', d) = Shares(fills, d) + (IF c = d THEN Signed(o) ELSE 0)
      BY <1>1, LaterTyped, SharesGrow
    <3>3. CASE d = c
      BY <1>1, <2>6, <2>8, <3>1, <3>2, <3>3
    <3>4. CASE d # c
      <4>1. positions'[d] = positions[d]
        BY <1>1, <2>6, <3>4
      <4>2. Quantity(positions[d]) \in Int
        BY <2>6, RowQuantity
      <4> QED BY <3>1, <3>2, <3>4, <4>1, <4>2
    <3> QED BY <3>3, <3>4
  <2>10. ReadyIsFresh'
    <3>1. \A x \in Orders : request'[x].stage # "ready"
      BY <1>1, <2>1, <2>2 DEF NoRequest, BooksInv, TypeInv, BooksTyped
    <3> QED BY <3>1 DEF ReadyIsFresh
  <2>11. ViewIsFresh'
    <3>1. Len(<<>>) = 0
      OBVIOUS
    <3> QED BY <2>4, <3>1, NoViewTyped DEF ViewIsFresh
  <2> QED BY <1>3, <2>9, <2>10, <2>11 DEF Alone
<1> QED BY <1>2, <1>3 DEF BooksInv

\* A fill of the sweep adds to what is coming; the fills of the sweep are one more.
LEMMA SweepFillSums ==
  ASSUME BooksInv, TypeInv', NEW o \in Orders, SweepFill(o),
         ~overlapped' => ~overlapped /\ ~Overlapping'
  PROVE  BooksInv'
<1> DEFINE c == Book[o].contract
           p == quote[c]
<1>1. /\ o \in todo /\ todo' = todo \ {o} /\ filled' = filled \cup {o} /\ p # NoPrice
      /\ view' = ViewAfter(o, p) /\ UNCHANGED <<positions, fills, request>>
  BY DEF SweepFill, ShouldFill
<1>2. c \in Contracts
  BY FillIsInt
<1>3. p \in Nat
  <2>1. p \in Quotes
    BY <1>1, <1>2 DEF BooksInv, TypeInv, WorldTyped
  <2> QED BY <2>1, FuturesAssumption
<1> HIDE DEF p
<1>4. o \notin filled /\ FilledIsDone'
  BY <1>1 DEF BooksInv, FilledIsDone
<1>5. ClosedIsEmpty'
  <2>1. CASE Len(positions[c]) + Len(view.added[c]) > 1
    <3>1. view'.loaded
      BY <1>1, <2>1 DEF ViewAfter, Loaded
    <3> QED BY <3>1 DEF ClosedIsEmpty
  <2>2. CASE ~ (Len(positions[c]) + Len(view.added[c]) > 1)
    <3>1. view'.loaded
      BY <1>1, <1>3, <2>2, ViewGrows DEF BooksInv
    <3> QED BY <3>1 DEF ClosedIsEmpty
  <2> QED BY <2>1, <2>2
<1>6. ASSUME ~overlapped' PROVE Alone'
  <2>1. Alone
    BY <1>6, AloneMeans
  <2>2. /\ positions[c] \in Seq(Rows) /\ view.added[c] \in Seq(Rows)
        /\ view.read \subseteq Contracts /\ view.added \in [Contracts -> Seq(Rows)]
        /\ view.rows \in [Contracts -> Seq(Rows)] /\ view.old \in [Contracts -> Seq(Rows)]
    BY <1>2 DEF BooksInv, TypeInv, BooksTyped, Viewed
  <2>3. ~ (Len(positions[c]) + Len(view.added[c]) > 1)
    <3>1. Len(positions[c]) <= 1 /\ Len(view.added[c]) <= 1
          /\ (view.added[c] # <<>> => positions[c] = <<>>)
      BY <1>2, <2>1 DEF Alone, SumsAgree, ViewIsFresh
    <3>2. /\ Len(positions[c]) \in Nat /\ (positions[c] = <<>> <=> Len(positions[c]) = 0)
          /\ Len(view.added[c]) \in Nat /\ (view.added[c] = <<>> <=> Len(view.added[c]) = 0)
      BY <2>2, FirstRow
    <3>3. \A m, n \in Nat : m <= 1 /\ n <= 1 /\ (n # 0 => m = 0) => ~ (m + n > 1)
      OBVIOUS
    <3> HIDE DEF c
    <3> QED BY <3>1, <3>2, <3>3
  <2>4. Shares(Later, c)' = Shares(Later, c) + Signed(o)
        /\ \A d \in Contracts : d # c => Shares(Later, d)' = Shares(Later, d)
    <3>1. Later' = [Later EXCEPT ![o] = @ + 1]
      BY <1>1, <1>4, LaterTyped DEF Later
    <3>2. \A d : Shares(Later', d) = Shares(Later, d) + (IF c = d THEN Signed(o) ELSE 0)
      <4>1. Later \in [Orders -> Nat]
        BY LaterTyped
      <4> HIDE DEF Later
      <4>2. \A d : Shares([Later EXCEPT ![o] = @ + 1], d)
                 = Shares(Later, d) + (IF Book[o].contract = d THEN Signed(o) ELSE 0)
        BY <4>1, SharesGrow
      <4> QED
        BY <3>1, <4>2
    <3>3. \A d \in Contracts : Shares(Later, d) = Quantity(Coming(d))
      BY <2>1 DEF Alone, SumsAgree
    <3>4. \A d \in Contracts : Quantity(Coming(d)) \in Int
      <4> SUFFICES ASSUME NEW d \in Contracts PROVE Quantity(Coming(d)) \in Int
        OBVIOUS
      <4>1. Coming(d) \in Seq(Rows)
        BY DEF BooksInv, TypeInv, BooksTyped, Viewed, Coming
      <4> QED BY <4>1, RowQuantity
    <3> QED BY <3>2, <3>3, <3>4
  <2>5. /\ Quantity(Coming(c)') = Quantity(Coming(c)) + Signed(o)
        /\ \A d \in Contracts \ {c} : Coming(d)' = Coming(d)
        /\ ViewIsFresh'
    <3>1. CASE positions[c] # <<>>
      <4> DEFINE row == AdjustedByWorker(Selected(c)[1], o, p)
      <4>1. /\ view.added[c] = <<>> /\ Selected(c) # <<>> /\ Selected(c)[1] \in Rows
            /\ view'.read = view.read \cup {c} /\ view'.added = view.added
            /\ view'.rows = [view.rows EXCEPT ![c] = <<row>>]
            /\ view'.old = IF c \in view.read THEN view.old
                           ELSE [view.old EXCEPT ![c] = positions[c]]
        BY <1>1, <1>3, <2>3, <3>1, ViewGrows DEF BooksInv
      <4>2. row \in Rows /\ row.quantity = Selected(c)[1].quantity + Signed(o)
        BY <1>3, <4>1, AdjustedRow
      <4> HIDE DEF row
      <4>3. Selected(c) = Coming(c)
        BY <4>1 DEF Selected, Coming
      <4>4. Coming(c)' = <<row>>
        BY <1>2, <2>2, <4>1 DEF Coming
      <4>5. \A d \in Contracts \ {c} : Coming(d)' = Coming(d)
        BY <1>1, <2>2, <4>1 DEF Coming
      <4>6. ViewIsFresh'
        <5> SUFFICES ASSUME NEW d \in Contracts
                     PROVE  /\ Len(view'.added[d]) <= 1
                            /\ view'.added[d] # <<>> => positions'[d] = <<>>
                            /\ d \in view'.read =>
                                 view'.old[d] = positions'[d] /\ Len(view'.rows[d]) = 1
          BY DEF ViewIsFresh
        <5>1. /\ Len(view.added[d]) <= 1
              /\ view.added[d] # <<>> => positions[d] = <<>>
              /\ d \in view.read => view.old[d] = positions[d] /\ Len(view.rows[d]) = 1
          BY <2>1 DEF Alone, ViewIsFresh
        <5>2. CASE d = c
          <6>1. view'.rows[c] = <<row>> /\ view'.old[c] = positions[c]
            BY <1>2, <2>2, <4>1, <5>1, <5>2
          <6> QED BY <1>1, <4>1, <4>2, <5>1, <5>2, <6>1, OneRow
        <5>3. CASE d # c
          BY <1>1, <2>2, <4>1, <5>1, <5>3
        <5> QED BY <5>2, <5>3
      <4>7. Quantity(<<row>>) = row.quantity
        BY <4>2, OneRow DEF Quantity
      <4>8. Quantity(Coming(c)) = Selected(c)[1].quantity
        BY <4>1, <4>3 DEF Quantity
      <4> QED BY <4>2, <4>4, <4>5, <4>6, <4>7, <4>8
    <3>2. CASE positions[c] = <<>>
      <4> DEFINE row == IF view.added[c] = <<>> THEN Opened(o, p)
                        ELSE AdjustedByWorker(view.added[c][1], o, p)
      <4>1. /\ c \notin view.read /\ view'.read = view.read /\ view'.rows = view.rows
            /\ view'.old = [view.old EXCEPT ![c] = positions[c]]
            /\ view'.added = [view.added EXCEPT ![c] = <<row>>]
        BY <1>1, <1>3, <2>3, <3>2, ViewGrows DEF BooksInv
      <4>2. Coming(c) = view.added[c]
        BY <3>2, <4>1 DEF Coming
      <4>3. row \in Rows /\ row.quantity = Quantity(view.added[c]) + Signed(o)
        <5>1. CASE view.added[c] = <<>>
          <6>1. row = Opened(o, p) /\ Quantity(view.added[c]) = 0
            BY <5>1 DEF Quantity
          <6> QED BY <1>3, <6>1, OpenedRow, FillIsInt
        <5>2. CASE view.added[c] # <<>>
          <6>1. view.added[c][1] \in Rows
            BY <2>2, <5>2, FirstRow
          <6> QED BY <1>3, <5>2, <6>1, AdjustedRow DEF Quantity
        <5> QED BY <5>1, <5>2
      <4> HIDE DEF row
      <4>4. Coming(c)' = <<row>>
        BY <1>2, <2>2, <4>1, <4>3, OneRow DEF Coming
      <4>5. \A d \in Contracts \ {c} : Coming(d)' = Coming(d)
        BY <1>1, <2>2, <4>1 DEF Coming
      <4>6. ViewIsFresh'
        <5> SUFFICES ASSUME NEW d \in Contracts
                     PROVE  /\ Len(view'.added[d]) <= 1
                            /\ view'.added[d] # <<>> => positions'[d] = <<>>
                            /\ d \in view'.read =>
                                 view'.old[d] = positions'[d] /\ Len(view'.rows[d]) = 1
          BY DEF ViewIsFresh
        <5>1. /\ Len(view.added[d]) <= 1
              /\ view.added[d] # <<>> => positions[d] = <<>>
              /\ d \in view.read => view.old[d] = positions[d] /\ Len(view.rows[d]) = 1
          BY <2>1 DEF Alone, ViewIsFresh
        <5>2. CASE d = c
          <6>1. view'.added[c] = <<row>> /\ Len(<<row>>) = 1
            BY <1>2, <2>2, <4>1, <4>3, OneRow
          <6>2. positions'[c] = <<>> /\ c \notin view'.read
            BY <1>1, <3>2, <4>1
          <6>3. Len(view'.added[c]) <= 1
            BY <6>1
          <6> QED BY <5>2, <6>2, <6>3
        <5>3. CASE d # c
          BY <1>1, <2>2, <4>1, <5>1, <5>3
        <5> QED BY <5>2, <5>3
      <4>7. Quantity(<<row>>) = row.quantity
        BY <4>3, OneRow DEF Quantity
      <4> QED BY <4>2, <4>3, <4>4, <4>5, <4>6, <4>7
    <3> QED BY <3>1, <3>2
  <2>6. SumsAgree'
    <3> SUFFICES ASSUME NEW d \in Contracts
                 PROVE  /\ Len(positions'[d]) <= 1 /\ Quantity(positions'[d]) = Shares(fills', d)
                        /\ Quantity(Coming(d)') = Shares(Later', d)
      BY DEF SumsAgree
    <3>1. /\ Len(positions[d]) <= 1 /\ Quantity(positions[d]) = Shares(fills, d)
          /\ Quantity(Coming(d)) = Shares(Later, d)
      BY <2>1 DEF Alone, SumsAgree
    <3>2. CASE d = c
      BY <1>1, <2>4, <2>5, <3>1, <3>2
    <3>3. CASE d # c
      BY <1>1, <2>4, <2>5, <3>1, <3>3
    <3> QED BY <3>2, <3>3
  <2>7. ReadyIsFresh'
    BY <1>1, <2>1 DEF Alone, ReadyIsFresh
  <2> QED BY <1>6, <2>5, <2>6, <2>7 DEF Alone
<1> QED BY <1>4, <1>5, <1>6 DEF BooksInv

\* The commit makes what was coming what there is, of rows and of fills.
LEMMA SweepCommitSums ==
  ASSUME BooksInv, TypeInv', SweepCommit, ~overlapped' => ~overlapped /\ ~Overlapping'
  PROVE  BooksInv'
<1>1. /\ positions' = [c \in Contracts |-> Committed(c)] /\ fills' = Later
      /\ filled' = {} /\ view' = NoView /\ UNCHANGED request
  BY DEF SweepCommit, Committed, Later
<1>2. ClosedIsEmpty' /\ FilledIsDone'
  BY <1>1 DEF ClosedIsEmpty, FilledIsDone
<1>3. ASSUME ~overlapped' PROVE Alone'
  <2>1. /\ Alone /\ (view.loaded => \A x \in Orders : request[x] = NoRequest)
    BY <1>3, AloneMeans
  <2>2. ASSUME NEW c \in Contracts
        PROVE  Len(Committed(c)) <= 1 /\ Quantity(Committed(c)) = Quantity(Coming(c))
    <3>0. /\ positions[c] \in Seq(Rows) /\ view.added[c] \in Seq(Rows)
          /\ view.old[c] \in Seq(Rows) /\ view.rows[c] \in Seq(Rows)
      BY DEF BooksInv, TypeInv, BooksTyped, Viewed
    <3>1. /\ Len(view.added[c]) <= 1
          /\ view.added[c] # <<>> => positions[c] = <<>>
          /\ c \in view.read => view.old[c] = positions[c] /\ Len(view.rows[c]) = 1
          /\ Len(positions[c]) <= 1
      BY <2>1 DEF Alone, ViewIsFresh, SumsAgree
    <3>2. CASE c \in view.read
      <4>1. positions[c] # <<>> /\ view.rows[c] # <<>> /\ view.added[c] = <<>>
        BY <3>1, <3>2 DEF BooksInv, TypeInv, RowsThere
      <4>2. /\ Committed(c) # <<>> /\ Len(Committed(c)) = Len(positions[c])
            /\ Committed(c)[1] = WriteRow(positions[c][1], view.old[c][1], view.rows[c][1])
        BY <3>2, <4>1, CommittedRows DEF BooksInv
      <4>3. positions[c][1] \in Rows /\ view.rows[c][1] \in Rows
        BY <3>0, <4>1, FirstRow
      <4>4. Committed(c)[1] = view.rows[c][1]
        BY <3>1, <3>2, <4>2, <4>3, WrittenRow
      <4> QED BY <3>1, <3>2, <4>1, <4>2, <4>4 DEF Quantity, Coming
    <3>3. CASE c \notin view.read
      <4>1. Committed(c) = positions[c] \o view.added[c]
        BY <3>3, CommittedRows DEF BooksInv
      <4>2. Committed(c) = Coming(c)
        <5>1. CASE view.added[c] = <<>>
          <6>1. positions[c] \o view.added[c] = positions[c]
            BY <3>0, <5>1, RowsJoined
          <6> QED BY <3>3, <4>1, <5>1, <6>1 DEF Coming
        <5>2. CASE view.added[c] # <<>>
          <6>1. positions[c] = <<>>
            BY <3>1, <5>2
          <6>2. positions[c] \o view.added[c] = view.added[c]
            BY <3>0, <6>1, RowsJoined
          <6> QED BY <3>3, <4>1, <5>2, <6>2 DEF Coming
        <5> QED BY <5>1, <5>2
      <4>3. Coming(c) \in {positions[c], view.added[c]}
        BY <3>3 DEF Coming
      <4> QED BY <3>1, <4>2, <4>3
    <3> QED BY <3>2, <3>3
  <2>3. \A c \in Contracts : Coming(c)' = positions'[c]
    BY <1>1, NoViewTyped DEF Coming
  <2>4. Later' = fills'
    BY <1>1, LaterTyped DEF Later
  <2>5. SumsAgree'
    <3> SUFFICES ASSUME NEW c \in Contracts
                 PROVE  /\ Len(positions'[c]) <= 1 /\ Quantity(positions'[c]) = Shares(fills', c)
      BY <2>3, <2>4 DEF SumsAgree
    <3>1. Quantity(Coming(c)) = Shares(Later, c)
      BY <2>1 DEF Alone, SumsAgree
    <3>2. positions'[c] = Committed(c)
      BY <1>1
    <3> QED BY <1>1, <2>2, <3>1, <3>2
  <2>6. ReadyIsFresh'
    <3> SUFFICES ASSUME NEW x \in Orders, request'[x].stage = "ready"
                 PROVE  request'[x].rows = positions'[Book[x].contract]
      BY DEF ReadyIsFresh
    <3> DEFINE c == Book[x].contract
    <3>1. request[x] # NoRequest
      BY <1>1 DEF NoRequest
    <3>2. ~view.loaded
      BY <2>1, <3>1
    <3>3. view = NoView
      BY <3>2, NothingComes
    <3>4. c \in Contracts /\ c \notin view.read /\ view.added[c] = <<>>
      BY <3>3, FillIsInt, NoViewTyped
    <3>5. positions[c] \in Seq(Rows) /\ view.added[c] \in Seq(Rows)
      BY <3>4 DEF BooksInv, TypeInv, BooksTyped, Viewed
    <3>6. Committed(c) = positions[c]
      <4> HIDE DEF c
      <4>1. Committed(c) = positions[c] \o view.added[c]
        BY <3>4, CommittedRows DEF BooksInv
      <4>2. positions[c] \o view.added[c] = positions[c]
        BY <3>4, <3>5, RowsJoined
      <4> QED BY <4>1, <4>2
    <3>7. positions'[c] = positions[c]
      BY <1>1, <3>4, <3>6
    <3>8. request[x].rows = positions[c]
      BY <1>1, <2>1 DEF Alone, ReadyIsFresh
    <3> QED BY <1>1, <3>7, <3>8
  <2>7. ViewIsFresh'
    <3>1. Len(<<>>) = 0
      OBVIOUS
    <3> QED BY <1>1, <3>1, NoViewTyped DEF ViewIsFresh
  <2> QED BY <1>3, <2>5, <2>6, <2>7 DEF Alone
<1> QED BY <1>2, <1>3 DEF BooksInv

LEMMA BooksInvNext == BooksInv /\ [Next]_vars => BooksInv'
<1> SUFFICES ASSUME BooksInv, [Next]_vars PROVE BooksInv'
  OBVIOUS
<1>1. TypeInv'
  BY TypeInvNext DEF BooksInv
<1>2. ~overlapped' => ~overlapped /\ ~Overlapping'
  <2>1. CASE Next
    BY <2>1 DEF Next
  <2>2. CASE UNCHANGED vars
    <3>1. ~overlapped => ~Overlapping
      BY DEF BooksInv, Alone
    <3>2. UNCHANGED <<overlapped, request, view>>
      BY <2>2 DEF vars, worker
    <3>3. Overlapping' = Overlapping
      BY <3>2 DEF Overlapping
    <3> QED BY <3>1, <3>2, <3>3
  <2> QED BY <2>1, <2>2
<1>3. CASE Requests
  <2>1. ASSUME NEW o \in Orders, PlaceResting(o) \/ CancelRead(o) \/ CancelCommit(o)
        PROVE  BooksInv'
    <3>1. UNCHANGED <<positions, fills, view, filled, todo, request>>
      BY <2>1 DEF PlaceResting, CancelRead, CancelCommit, worker
    <3> QED BY <1>1, <1>2, <3>1, NothingBooked
  <2>2. ASSUME NEW o \in Orders, PlaceMarket(o) PROVE BooksInv'
    <3>1. PICK p \in Quotes : request' = [request EXCEPT ![o] =
            [stage |-> "checked", cash |-> cash, price |-> p, rows |-> <<>>]]
      BY <2>2 DEF PlaceMarket
    <3>2. UNCHANGED <<positions, fills, view, filled, todo>>
      BY <2>2 DEF PlaceMarket, worker
    <3>3. \A x \in Orders : request'[x].stage = "ready" => request'[x] = request[x]
      BY <3>1 DEF BooksInv, TypeInv, BooksTyped
    <3> QED BY <1>1, <1>2, <3>2, <3>3, NothingBooked
  <2>3. ASSUME NEW o \in Orders, ReadPosition(o) PROVE BooksInv'
    <3> DEFINE r == IF Len(positions[Book[o].contract]) > 1 THEN NoRequest
                    ELSE [stage |-> "ready", cash |-> request[o].cash,
                          price |-> request[o].price, rows |-> positions[Book[o].contract]]
    <3>1. request' = [request EXCEPT ![o] = r] /\ UNCHANGED <<positions, fills, view, filled, todo>>
      BY <2>3 DEF ReadPosition, worker
    <3>2. r.stage = "ready" => r.rows = positions[Book[o].contract]
      BY DEF NoRequest
    <3> HIDE DEF r
    <3>3. \A x \in Orders : request'[x].stage = "ready" =>
             request'[x] = request[x] \/ request'[x].rows = positions[Book[x].contract]
      BY <3>1, <3>2 DEF BooksInv, TypeInv, BooksTyped
    <3> QED BY <1>1, <1>2, <3>1, <3>3, NothingBooked
  <2> QED BY <1>1, <1>2, <1>3, <2>1, <2>2, <2>3, BookMarketSums DEF Requests
<1>4. CASE Sweep
  <2>1. CASE SweepStart
    BY <1>1, <1>2, <2>1, SweepBeginsKeeps DEF SweepStart
  <2>2. CASE SweepCommit
    BY <1>1, <1>2, <2>2, SweepCommitSums
  <2>3. ASSUME NEW o \in Orders, SweepSkip(o) PROVE BooksInv'
    <3>1. UNCHANGED <<positions, fills, view, filled, request>> /\ todo' \subseteq todo
      BY <2>3 DEF SweepSkip
    <3> QED BY <1>1, <1>2, <3>1, NothingBooked
  <2>4. ASSUME NEW o \in Orders, SweepExpire(o) PROVE BooksInv'
    BY <1>1, <1>2, <2>4, SweepBeginsKeeps DEF SweepExpire
  <2> QED BY <1>1, <1>2, <1>4, <2>1, <2>2, <2>3, <2>4, SweepFillSums DEF Sweep, SweepEvaluate
<1>5. CASE World \/ UNCHANGED vars
  <2>1. UNCHANGED <<positions, fills, view, filled, todo, request>>
    BY <1>5 DEF World, Age, Tick, worker, vars
  <2> QED BY <1>1, <1>2, <2>1, NothingBooked
<1> QED BY <1>3, <1>4, <1>5 DEF Next

\* The sum over at most one row is the quantity of that row.
LEMMA SumOfRows ==
  ASSUME NEW rows \in Seq(Rows), Len(rows) <= 1
  PROVE  SumFunction([i \in 1 .. Len(rows) |-> rows[i].quantity]) = Quantity(rows)
<1> DEFINE f == [i \in 1 .. Len(rows) |-> rows[i].quantity]
<1>1. Len(rows) \in Nat /\ (rows = <<>> <=> Len(rows) = 0) /\ (rows # <<>> => rows[1] \in Rows)
  BY FirstRow
<1>2. SumFunction(f) = SumFunctionOnSet(f, 1 .. Len(rows))
  BY DEF SumFunction
<1>3. CASE rows = <<>>
  <2>1. 1 .. Len(rows) = {}
    BY <1>1, <1>3
  <2>2. SumFunctionOnSet(f, {}) = 0
    BY SumEmpty
  <2> QED BY <1>2, <1>3, <2>1, <2>2 DEF Quantity
<1>4. CASE rows # <<>>
  <2>1. Len(rows) = 1
    <3>1. \A n \in Nat : n <= 1 /\ n # 0 => n = 1
      OBVIOUS
    <3>2. Len(rows) \in Nat /\ Len(rows) # 0
      BY <1>1, <1>4
    <3> QED BY <3>1, <3>2
  <2>2. 1 .. Len(rows) = {1} /\ f[1] = rows[1].quantity
    BY <2>1
  <2>0. f[1] \in Int
    <3>1. \A r \in Rows : r.quantity \in Int
      BY DEF Rows
    <3>2. rows[1] \in Rows
      BY <1>1, <1>4
    <3> QED BY <2>2, <3>1, <3>2
  <2> HIDE DEF f
  <2>3. SumFunctionOnSet(f, {1}) = f[1] + SumFunctionOnSet(f, {1} \ {1})
    <3>1. IsFiniteSet({1}) /\ \A x \in {1} : f[x] \in Int
      BY <2>0, FS_Singleton
    <3> QED BY <3>1, SumRemove
  <2>4. SumFunctionOnSet(f, {1} \ {1}) = 0
    <3>1. {1} \ {1} = {}
      OBVIOUS
    <3> QED BY <3>1, SumEmpty
  <2>5. SumFunction(f) = f[1]
    <3>1. SumFunction(f) = SumFunctionOnSet(f, {1})
      BY <1>2, <2>2
    <3>2. f[1] + 0 = f[1]
      BY <2>0
    <3> QED BY <2>3, <2>4, <3>1, <3>2
  <2>6. SumFunction(f) = Quantity(rows)
    BY <1>4, <2>2, <2>5 DEF Quantity
  <2> QED BY <2>6 DEF f
<1> QED BY <1>3, <1>4

\* The sum over the orders of a contract, as the property writes it.
LEMMA SumOfFills ==
  ASSUME NEW n \in [Orders -> Nat], NEW c
  PROVE  SumFunction([x \in OrdersOf(c) |-> Signed(x) * n[x]]) = Shares(n, c)
<1> DEFINE f == [x \in OrdersOf(c) |-> Signed(x) * n[x]]
           g == [x \in Orders |-> Signed(x) * n[x]]
<1>1. IsFiniteSet(OrdersOf(c))
  BY FuturesAssumption, FS_Subset DEF OrdersOf
<1>2. \A x \in OrdersOf(c) : g[x] \in Int /\ f[x] = g[x]
  <2>1. \A a, b \in Int : a * b \in Int
    OBVIOUS
  <2> QED BY <2>1, FillIsInt DEF OrdersOf
<1>3. SumFunction(f) = SumFunctionOnSet(f, OrdersOf(c)) /\ Shares(n, c) = SumFunctionOnSet(g, OrdersOf(c))
  BY DEF SumFunction, Shares
<1> HIDE DEF f, g
<1>4. SumFunctionOnSet(f, OrdersOf(c)) = SumFunctionOnSet(g, OrdersOf(c))
  BY <1>1, <1>2, SumAgrees
<1> QED BY <1>3, <1>4 DEF f

\* The position in a contract is the sum of its fills, through sweeps that are rolled
\* back, fills that reopen or turn a position and cancellations that cross a fill, for
\* any book of orders, unless two sessions that fill were open at once
\* (futures_trading_service.py 221-311; futures_order_worker.py 84-282).
THEOREM PositionsAddUp == Spec => []PositionIsSumOfFills
<1>1. BooksInv => PositionIsSumOfFills
  <2> SUFFICES ASSUME BooksInv, ~overlapped, NEW c \in Contracts
               PROVE  SumFunction([i \in 1 .. Len(positions[c]) |-> positions[c][i].quantity])
                      = SumFunction([o \in OrdersOf(c) |-> Signed(o) * fills[o]])
    BY DEF PositionIsSumOfFills, OrdersOf
  <2>1. Len(positions[c]) <= 1 /\ Quantity(positions[c]) = Shares(fills, c)
    BY AloneMeans DEF Alone, SumsAgree
  <2>2. positions[c] \in Seq(Rows)
    BY DEF BooksInv, TypeInv, BooksTyped
  <2> QED BY <2>1, <2>2, SumOfRows, SumOfFills, LaterTyped
<1> QED BY <1>1, BooksInvInit, BooksInvNext, PTL DEF Spec
=============================================================================
