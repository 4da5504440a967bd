--------------------------- MODULE OrderExecution ---------------------------
(***************************************************************************)
(* The life of an equity order, from the HTTP request that places it to    *)
(* the update of the portfolio that pays for it.  Five actors share one    *)
(* process and one database:                                               *)
(*                                                                         *)
(*   requests    place_order() and cancel_order(), each in a database      *)
(*               session of its own                                        *)
(*   sweep       OrderExecutionWorker, which reads every OPEN order, fills *)
(*               or expires some, commits once and only then emits events  *)
(*   event bus   one FIFO queue, one dispatcher, handlers in sequence      *)
(*   portfolio   PortfolioRecalcWorker, the first handler of ORDER_FILLED  *)
(*   clients     the WebSocket manager, the last handler of every event    *)
(*                                                                         *)
(* Every await is a point where another actor may run, so an action below  *)
(* ends where the code awaits something another actor can observe.  The    *)
(* money and the shares are the subject of PortfolioLedger: here a fill is *)
(* "settled" once the transaction that books it has committed, and whether *)
(* a delivery (CNC) sale is covered by shares is left open.                *)
(***************************************************************************)
EXTENDS OrderTriggers, Sequences, FiniteSets

CONSTANTS
    Orders,          \* order identifiers
    Book,            \* the immutable columns of each order
    Quotes,          \* what the market data service can answer, NoPrice included
                     \* where it may have no answer
    MaxCrashes,      \* bound: process restarts
    MaxFailures      \* bound: database errors in the sweep and the handler

ASSUME BookAssumption   == Book \in [Orders -> OrderSpec]
ASSUME QuotesAssumption == Quotes \subseteq Nat
ASSUME BoundsAssumption == MaxCrashes \in Nat /\ MaxFailures \in Nat

Prices == Quotes \ {NoPrice}
Terminal == {"FILLED", "CANCELLED", "EXPIRED"}
Statuses == {"ABSENT", "OPEN"} \cup Terminal
EventTypes == {"ORDER_PLACED", "ORDER_FILLED", "ORDER_CANCELLED",
               "ORDER_EXPIRED", "PORTFOLIO_UPDATED"}
Sources == {"trading_engine", "order_execution_worker", "portfolio_worker"}
Events == [type: EventTypes, order: Orders, source: Sources]
Idle == [type |-> "NONE"]     \* the dispatcher waits in queue.get()

VARIABLES
    market,      \* MarketState, as far as orders care: open, closing, closed
    price,       \* the current quote; NoPrice when none is available
    aged,        \* orders whose created_at is past the expiry cutoff
    (* the orders table *)
    status,      \* committed status; "ABSENT" when there is no row
    filledAt,    \* committed filled_price
    (* requests in flight *)
    request,     \* place_order: none, flushed (inserted, uncommitted), done
    draft,       \* the uncommitted row of a flushed request
    cancelling,  \* cancel_order: none, read (saw OPEN), committed
    (* the sweep's session and local variables *)
    sweepPc,     \* idle, evaluating, committed
    todo,        \* orders read as OPEN and not evaluated yet
    found,       \* uncommitted status the sweep gave an order, or "none"
    foundAt,     \* uncommitted filled_price
    filledEvents,
    expiredEvents,
    (* the event bus *)
    queue,
    current,     \* the event being dispatched
    stage,       \* the handler whose turn it is: portfolio or client
    (* the effects *)
    settled,     \* how many committed transactions booked this order's fill
    told,        \* <<order, event type>> pairs delivered to the client
    (* history and bounds *)
    workerFilled, \* orders a sweep ever committed as FILLED
    crashes,
    failures

requestVars == <<request, draft>>
sweepVars   == <<sweepPc, todo, found, foundAt, filledEvents, expiredEvents>>
busVars     == <<queue, current, stage>>
tableVars   == <<status, filledAt>>
worldVars   == <<market, price, aged>>
effectVars  == <<settled, told, workerFilled>>
boundVars   == <<crashes, failures>>
programVars == <<tableVars, requestVars, cancelling, sweepVars, busVars,
                 effectVars, boundVars>>
vars == <<worldVars, programVars>>

NoDraft == [status |-> "ABSENT", at |-> NoPrice]
Drafts  == [status: Statuses, at: Nat]

TypeOK ==
    /\ market \in {"open", "closing", "closed"}
    /\ price \in Quotes
    /\ aged \subseteq Orders
    /\ status \in [Orders -> Statuses]
    /\ filledAt \in [Orders -> Nat]
    /\ request \in [Orders -> {"none", "flushed", "done"}]
    /\ draft \in [Orders -> Drafts]
    /\ cancelling \in [Orders -> {"none", "read", "committed"}]
    /\ sweepPc \in {"idle", "evaluating", "committed"}
    /\ todo \subseteq Orders
    /\ found \in [Orders -> {"none"} \cup Terminal]
    /\ foundAt \in [Orders -> Nat]
    /\ filledEvents \in Seq(Orders)
    /\ expiredEvents \in Seq(Orders)
    /\ queue \in Seq(Events)
    /\ current \in Events \cup {Idle}
    /\ stage \in {"portfolio", "client"}
    /\ stage = "portfolio" => current = Idle \/ current.type = "ORDER_FILLED"
    /\ settled \in [Orders -> Nat]
    /\ told \subseteq Orders \X EventTypes
    /\ workerFilled \subseteq Orders
    /\ crashes \in 0..MaxCrashes
    /\ failures \in 0..MaxFailures

Init ==
    /\ market \in {"open", "closing", "closed"}
    /\ price \in Quotes
    /\ aged = {}
    /\ status = [o \in Orders |-> "ABSENT"]
    /\ filledAt = [o \in Orders |-> NoPrice]
    /\ request = [o \in Orders |-> "none"]
    /\ draft = [o \in Orders |-> NoDraft]
    /\ cancelling = [o \in Orders |-> "none"]
    /\ sweepPc = "idle"
    /\ todo = {}
    /\ found = [o \in Orders |-> "none"]
    /\ foundAt = [o \in Orders |-> NoPrice]
    /\ filledEvents = << >>
    /\ expiredEvents = << >>
    /\ queue = << >>
    /\ current = Idle
    /\ stage = "portfolio"
    /\ settled = [o \in Orders |-> 0]
    /\ told = {}
    /\ workerFilled = {}
    /\ crashes = 0
    /\ failures = 0

Event(type, o, source) == [type |-> type, order |-> o, source |-> source]
Emit(type, o, source) == queue' = Append(queue, Event(type, o, source))

Trading == market \in {"open", "closing"}      \* is_trading_hours()
CanPlaceOrders == market = "open"              \* can_place_orders()

-----------------------------------------------------------------------------
(* The market and the clock, outside the program. *)

MarketTick ==
    /\ market' = CASE market = "open"    -> "closing"
                   [] market = "closing" -> "closed"
                   [] market = "closed"  -> "open"
    /\ UNCHANGED <<price, aged, programVars>>

Quote(p) ==
    /\ p # price
    /\ price' = p
    /\ UNCHANGED <<market, aged, programVars>>

\* Seven days pass over an order that is still resting.
Age(o) ==
    /\ status[o] = "OPEN"
    /\ o \notin aged
    /\ aged' = aged \cup {o}
    /\ UNCHANGED <<market, price, programVars>>

-----------------------------------------------------------------------------
(* place_order() and the commit that get_db() makes after the route returns *)

\* A limit order without a limit and a stop order without a trigger are refused.
WellFormed(o) ==
    /\ Book[o].type = "LIMIT" => Book[o].price # NoPrice
    /\ Book[o].type \in {"STOP_LOSS", "STOP_LOSS_LIMIT"} => Book[o].trigger # NoPrice

\* The row is flushed and the event is queued, both before the commit.  With
\* no quote the price the client sent is used.
PlaceFlush(o, p) ==
    /\ request[o] = "none"
    /\ CanPlaceOrders
    /\ WellFormed(o)
    /\ p \in Prices
    /\ price # NoPrice => p = price
    /\ request' = [request EXCEPT ![o] = "flushed"]
    /\ IF FillsOnArrival(Book[o], p)
       THEN /\ draft' = [draft EXCEPT ![o] = [status |-> "FILLED", at |-> p]]
            /\ Emit("ORDER_FILLED", o, "trading_engine")
       ELSE /\ draft' = [draft EXCEPT ![o] = [status |-> "OPEN", at |-> NoPrice]]
            /\ Emit("ORDER_PLACED", o, "trading_engine")
    /\ UNCHANGED <<worldVars, tableVars, cancelling, sweepVars, current,
                   stage, effectVars, boundVars>>

\* An immediate fill books its portfolio changes in the same transaction.
PlaceCommit(o) ==
    /\ request[o] = "flushed"
    /\ request' = [request EXCEPT ![o] = "done"]
    /\ draft' = [draft EXCEPT ![o] = NoDraft]
    /\ status' = [status EXCEPT ![o] = draft[o].status]
    /\ filledAt' = [filledAt EXCEPT ![o] = draft[o].at]
    /\ settled' = IF draft[o].status = "FILLED"
                  THEN [settled EXCEPT ![o] = @ + 1]
                  ELSE settled
    /\ UNCHANGED <<worldVars, cancelling, sweepVars, busVars, told,
                   workerFilled, boundVars>>

\* The commit fails; the event that is already queued stays there.
PlaceAbort(o) ==
    /\ request[o] = "flushed"
    /\ failures < MaxFailures
    /\ failures' = failures + 1
    /\ request' = [request EXCEPT ![o] = "done"]
    /\ draft' = [draft EXCEPT ![o] = NoDraft]
    /\ UNCHANGED <<worldVars, tableVars, cancelling, sweepVars, busVars,
                   effectVars, crashes>>

-----------------------------------------------------------------------------
(* cancel_order() *)

CancelRead(o) ==
    /\ cancelling[o] = "none"
    /\ status[o] = "OPEN"
    /\ cancelling' = [cancelling EXCEPT ![o] = "read"]
    /\ UNCHANGED <<worldVars, tableVars, requestVars, sweepVars, busVars,
                   effectVars, boundVars>>

\* UPDATE ... WHERE id = ...: whatever the status has become meanwhile.
CancelCommit(o) ==
    /\ cancelling[o] = "read"
    /\ cancelling' = [cancelling EXCEPT ![o] = "committed"]
    /\ status' = [status EXCEPT ![o] = "CANCELLED"]
    /\ UNCHANGED <<worldVars, filledAt, requestVars, sweepVars, busVars,
                   effectVars, boundVars>>

CancelEmit(o) ==
    /\ cancelling[o] = "committed"
    /\ cancelling' = [cancelling EXCEPT ![o] = "none"]
    /\ Emit("ORDER_CANCELLED", o, "trading_engine")
    /\ UNCHANGED <<worldVars, tableVars, requestVars, sweepVars, current,
                   stage, effectVars, boundVars>>

-----------------------------------------------------------------------------
(* OrderExecutionWorker._sweep() *)

StartWhen(allowed) ==
    /\ sweepPc = "idle"
    /\ allowed
    /\ \E o \in Orders : status[o] = "OPEN"
    /\ sweepPc' = "evaluating"
    /\ todo' = {o \in Orders : status[o] = "OPEN"}
    /\ UNCHANGED <<worldVars, tableVars, requestVars, cancelling, found, foundAt,
                   filledEvents, expiredEvents, busVars, effectVars, boundVars>>

\* Mutant: the sweep runs only while orders can be placed.
StartWhileOpen == StartWhen(CanPlaceOrders)

SweepStart == StartWhen(Trading)

SweepExpire(o) ==
    /\ o \in aged
    /\ found' = [found EXCEPT ![o] = "EXPIRED"]
    /\ expiredEvents' = Append(expiredEvents, o)
    /\ UNCHANGED <<foundAt, filledEvents>>

SweepFill(o) ==
    /\ o \notin aged
    /\ ShouldFill(Book[o], price)
    /\ found' = [found EXCEPT ![o] = "FILLED"]
    /\ foundAt' = [foundAt EXCEPT ![o] = FillPrice(Book[o], price)]
    /\ filledEvents' = Append(filledEvents, o)
    /\ UNCHANGED expiredEvents

RefuseAs(o, outcome) ==
    /\ o \notin aged
    /\ ShouldFill(Book[o], price)
    /\ Book[o].side = "SELL" /\ Book[o].product = "CNC"
    /\ found' = [found EXCEPT ![o] = outcome]
    /\ UNCHANGED <<foundAt, filledEvents, expiredEvents>>

\* Mutant: a status outside the vocabulary of the sweep.
RefuseAsRejected(o) == RefuseAs(o, "REJECTED")

\* A delivery sale the holding no longer covers is cancelled without an event.
SweepRefuse(o) == RefuseAs(o, "CANCELLED")

SweepLeave(o) ==
    /\ o \notin aged
    /\ ~ ShouldFill(Book[o], price)
    /\ UNCHANGED <<found, foundAt, filledEvents, expiredEvents>>

SweepEvaluate(o) ==
    /\ sweepPc = "evaluating"
    /\ o \in todo
    /\ todo' = todo \ {o}
    /\ SweepExpire(o) \/ SweepFill(o) \/ SweepRefuse(o) \/ SweepLeave(o)
    /\ UNCHANGED <<worldVars, tableVars, requestVars, cancelling, sweepPc,
                   busVars, effectVars, boundVars>>

\* One commit for the whole sweep; no row is read again before it is written.
SweepCommit ==
    /\ sweepPc = "evaluating"
    /\ todo = {}
    /\ sweepPc' = "committed"
    /\ status' = [o \in Orders |-> IF found[o] = "none" THEN status[o] ELSE found[o]]
    /\ filledAt' = [o \in Orders |-> IF found[o] = "FILLED" THEN foundAt[o]
                                     ELSE filledAt[o]]
    /\ found' = [o \in Orders |-> "none"]
    /\ foundAt' = [o \in Orders |-> NoPrice]
    /\ workerFilled' = workerFilled \cup {o \in Orders : found[o] = "FILLED"}
    /\ UNCHANGED <<worldVars, requestVars, cancelling, todo, filledEvents,
                   expiredEvents, busVars, settled, told, boundVars>>

\* The session is closed and the local variables of _sweep() are gone.
SweepForget ==
    /\ sweepPc' = "idle"
    /\ todo' = {}
    /\ found' = [o \in Orders |-> "none"]
    /\ foundAt' = [o \in Orders |-> NoPrice]
    /\ filledEvents' = << >>
    /\ expiredEvents' = << >>

SweepError ==
    /\ sweepPc = "evaluating"
    /\ failures < MaxFailures
    /\ failures' = failures + 1
    /\ UNCHANGED <<worldVars, filledAt, requestVars, cancelling, busVars,
                   effectVars, crashes>>

\* Mutant: the events of a sweep are emitted although its commit failed.
FailButEmit ==
    /\ SweepError
    /\ sweepPc' = "committed"
    /\ todo' = {}
    /\ found' = [o \in Orders |-> "none"]
    /\ UNCHANGED <<status, foundAt, filledEvents, expiredEvents>>

\* Mutant: the sweep undoes its changes by hand instead of rolling back.
FailAndReopen ==
    /\ SweepError
    /\ SweepForget
    /\ status' = [o \in Orders |-> IF found[o] = "none" THEN status[o] ELSE "OPEN"]

\* A database error anywhere before the commit rolls the whole sweep back.
SweepFail == SweepError /\ SweepForget /\ UNCHANGED status

Batch(type, list) ==
    [i \in DOMAIN list |-> Event(type, list[i], "order_execution_worker")]

EmitBatch(fills, expiries, keptFills) ==
    /\ sweepPc = "committed"
    /\ queue' = queue \o Batch("ORDER_FILLED", fills) \o Batch("ORDER_EXPIRED", expiries)
    /\ sweepPc' = "idle"
    /\ filledEvents' = keptFills
    /\ expiredEvents' = << >>
    /\ UNCHANGED <<worldVars, tableVars, requestVars, cancelling, todo, found,
                   foundAt, current, stage, effectVars, boundVars>>

\* Mutants: the list of fills outlives its sweep; only expiries are announced.
EmitAndKeep == EmitBatch(filledEvents, expiredEvents, filledEvents)
EmitExpiredOnly == EmitBatch(<< >>, expiredEvents, << >>)

\* put() on an unbounded queue never suspends: all the events go in at once.
SweepEmit == EmitBatch(filledEvents, expiredEvents, << >>)

-----------------------------------------------------------------------------
(* EventBus.run() and the handlers that main.py subscribes *)

HandOver(event, rest, handler) ==
    /\ current = Idle
    /\ queue # << >>
    /\ current' = event
    /\ queue' = rest
    /\ stage' = handler
    /\ UNCHANGED <<worldVars, tableVars, requestVars, cancelling, sweepVars,
                   effectVars, boundVars>>

FirstHandler(event) ==
    IF event.type = "ORDER_FILLED" THEN "portfolio" ELSE "client"

\* Mutants: a stack instead of a queue; the portfolio worker not subscribed.
DispatchLast ==
    LET last == queue[Len(queue)]
    IN  HandOver(last, SubSeq(queue, 1, Len(queue) - 1), FirstHandler(last))
DispatchToClient == HandOver(Head(queue), Tail(queue), "client")

\* Only ORDER_FILLED has the portfolio worker in front of the WebSocket manager.
Dispatch == HandOver(Head(queue), Tail(queue), FirstHandler(Head(queue)))

PortfolioTurn(source) ==
    /\ current # Idle
    /\ stage = "portfolio"
    /\ current.source = source
    /\ stage' = "client"

BookFill ==
    /\ settled' = [settled EXCEPT ![current.order] = @ + 1]
    /\ Emit("PORTFOLIO_UPDATED", current.order, "portfolio_worker")
    /\ UNCHANGED <<worldVars, tableVars, requestVars, cancelling, sweepVars,
                   current, told, workerFilled, boundVars>>

\* on_order_filled() for a fill of the sweep: one transaction, then an event.
SettleFill == PortfolioTurn("order_execution_worker") /\ BookFill

\* Any exception is logged and the transaction rolled back; nothing is retried.
SettleFail ==
    /\ PortfolioTurn("order_execution_worker")
    /\ failures < MaxFailures
    /\ failures' = failures + 1
    /\ UNCHANGED <<worldVars, tableVars, requestVars, cancelling, sweepVars,
                   queue, current, effectVars, crashes>>

\* Mutant: the fills of place_order() are booked a second time.
SettleAgain == PortfolioTurn("trading_engine") /\ BookFill

\* A fill of place_order() is taken to be booked: read the portfolio, announce it.
SettleSkip ==
    /\ PortfolioTurn("trading_engine")
    /\ Emit("PORTFOLIO_UPDATED", current.order, "portfolio_worker")
    /\ UNCHANGED <<worldVars, tableVars, requestVars, cancelling, sweepVars,
                   current, effectVars, boundVars>>

\* WebSocketManager.on_order_event() / on_portfolio_event()
Notify ==
    /\ current # Idle
    /\ stage = "client"
    /\ told' = told \cup {<<current.order, current.type>>}
    /\ current' = Idle
    /\ stage' = "portfolio"
    /\ UNCHANGED <<worldVars, tableVars, requestVars, cancelling, sweepVars,
                   queue, settled, workerFilled, boundVars>>

-----------------------------------------------------------------------------
\* The process restarts: the database survives, everything in memory is gone.
Crash ==
    /\ crashes < MaxCrashes
    /\ crashes' = crashes + 1
    /\ request' = [o \in Orders |-> IF request[o] = "flushed" THEN "done" ELSE request[o]]
    /\ draft' = [o \in Orders |-> NoDraft]
    /\ cancelling' = [o \in Orders |-> "none"]
    /\ SweepForget
    /\ queue' = << >>
    /\ current' = Idle
    /\ stage' = "portfolio"
    /\ UNCHANGED <<worldVars, tableVars, effectVars, failures>>

World == MarketTick \/ (\E p \in Quotes : Quote(p)) \/ (\E o \in Orders : Age(o))
Place(o) == (\E p \in Prices : PlaceFlush(o, p)) \/ PlaceCommit(o) \/ PlaceAbort(o)
Cancel(o) == CancelRead(o) \/ CancelCommit(o) \/ CancelEmit(o)
Sweep == SweepStart \/ (\E o \in Orders : SweepEvaluate(o)) \/ SweepCommit \/ SweepFail \/ SweepEmit
Bus == Dispatch \/ SettleFill \/ SettleFail \/ SettleSkip \/ Notify

Next ==
    \/ World
    \/ \E o \in Orders : Place(o) \/ Cancel(o)
    \/ Sweep
    \/ Bus
    \/ Crash

Spec == Init /\ [][Next]_vars

(***************************************************************************)
(* Fairness.  The sweep is a loop that sleeps and starts again, whatever   *)
(* it raised; the dispatcher is a loop that awaits one event after the     *)
(* other.  Nobody promises that a client places or cancels, that the       *)
(* market moves, or that anything fails.                                   *)
(***************************************************************************)
Fairness ==
    /\ WF_vars(SweepStart)
    /\ WF_vars(\E o \in Orders : SweepEvaluate(o))
    /\ WF_vars(SweepCommit)
    /\ WF_vars(SweepEmit)
    /\ WF_vars(Bus)

FairSpec == Spec /\ Fairness

-----------------------------------------------------------------------------
(* Safety *)

\* The shares of an order change hands at most once, whichever of the two
\* paths books them: inside place_order(), or the sweep, the event bus and the
\* portfolio worker one after the other, with restarts and rollbacks between.
SettledAtMostOnce == \A o \in Orders : settled[o] <= 1

\* Nothing is booked for an order the database never held as FILLED: the event
\* that triggers the booking is emitted after the sweep's commit.  (FILLED may
\* since have been overwritten, hence the history variable.)
SettledOnlyIfFilled ==
    \A o \in Orders : settled[o] > 0 => o \in workerFilled \/ status[o] = "FILLED"

(***************************************************************************)
(* Why: the fill of the sweep is a token that travels from the sweep's     *)
(* list of events through the queue to the dispatcher's hand.              *)
(***************************************************************************)
IsWorkerFill(e, o) ==
    e.type = "ORDER_FILLED" /\ e.source = "order_execution_worker" /\ e.order = o

InBatch(o) == sweepPc = "committed" /\ \E i \in 1..Len(filledEvents) : filledEvents[i] = o
InQueue(o) == \E i \in 1..Len(queue) : IsWorkerFill(queue[i], o)
InHand(o)  == current # Idle /\ stage = "portfolio" /\ IsWorkerFill(current, o)

\* No list holds two tokens of one order.
BatchDistinct ==
    \A i, j \in 1..Len(filledEvents) : filledEvents[i] = filledEvents[j] => i = j

QueueDistinct ==
    \A o \in Orders : \A i, j \in 1..Len(queue) :
        IsWorkerFill(queue[i], o) /\ IsWorkerFill(queue[j], o) => i = j

\* A token stands for a committed fill that is not booked, in one place.
TokensAreOwed ==
    \A o \in Orders :
        /\ InBatch(o) \/ InQueue(o) \/ InHand(o) => o \in workerFilled /\ settled[o] = 0
        /\ ~ (InBatch(o) /\ InQueue(o))
        /\ ~ (InBatch(o) /\ InHand(o))
        /\ ~ (InQueue(o) /\ InHand(o))

\* What the sweep is about to write was OPEN when it read it, so nobody has
\* filled it since: only a cancellation can have come in between.
SweepOwnsItsOrders ==
    /\ sweepPc # "evaluating" => todo = {} /\ \A o \in Orders : found[o] = "none"
    /\ sweepPc = "idle" => filledEvents = << >>
    /\ \A o \in Orders :
           o \in todo \/ found[o] # "none" =>
               /\ status[o] \in {"OPEN", "CANCELLED"}
               /\ o \notin workerFilled /\ settled[o] = 0
    /\ \A o \in todo : found[o] = "none"
    /\ sweepPc = "evaluating" =>
           \A i \in 1..Len(filledEvents) : found[filledEvents[i]] = "FILLED"

\* An order without a row, or resting, has not been filled by anybody; a
\* cancellation in flight does not hit an order that place_order() filled.
UnfilledOrders ==
    \A o \in Orders :
        /\ request[o] # "done" => status[o] = "ABSENT"
        /\ request[o] = "flushed" => draft[o].status \in {"OPEN", "FILLED"}
        /\ status[o] \in {"ABSENT", "OPEN"} => settled[o] = 0 /\ o \notin workerFilled
        /\ status[o] = "FILLED" => settled[o] > 0 \/ o \in workerFilled
        /\ cancelling[o] = "read" => /\ status[o] # "ABSENT"
                                     /\ settled[o] = 0 \/ o \in workerFilled

FillsAccountedFor ==
    /\ BatchDistinct
    /\ QueueDistinct
    /\ TokensAreOwed
    /\ SweepOwnsItsOrders
    /\ UnfilledOrders
    /\ SettledAtMostOnce
    /\ SettledOnlyIfFilled

\* Whatever the market does between the evaluation and the commit, the price
\* written to a filled order is no worse than its limit.
FilledWithinLimit ==
    \A o \in Orders : status[o] = "FILLED" => /\ filledAt[o] # NoPrice
                                              /\ RespectsLimit(Book[o], filledAt[o])

\* A client hears that a resting order was accepted before it hears that the
\* sweep filled or expired it, although the two come from different tasks: the
\* first event is queued before the row is visible to the sweep.  (A restart
\* empties the queue, so this is a promise of one run of the process.)
AcceptedBeforeOutcome ==
    crashes = 0 =>
        \A o \in Orders :
            (o \in workerFilled /\ <<o, "ORDER_FILLED">> \in told)
              \/ <<o, "ORDER_EXPIRED">> \in told
            => <<o, "ORDER_PLACED">> \in told

\* An order that left OPEN never comes back, although the sweep and a
\* cancellation write rows they read long ago.
NoReopen == [][\A o \in Orders : status[o] \in Terminal => status'[o] \in Terminal]_vars

\* (ARCHITECTURE.md, orders table) The four outcomes are alternatives: the one
\* an order reaches first is final.
OutcomeIsFinal ==
    [][\A o \in Orders : status[o] \in Terminal => status'[o] = status[o]]_vars

-----------------------------------------------------------------------------
(* Liveness *)

\* (event_bus.py: events are never lost) A fill the sweep committed is booked.
FillReachesPortfolio ==
    \A o \in Orders : o \in workerFilled ~> settled[o] > 0

\* The owner of an order the sweep filled is told of the fill and of the new
\* state of the portfolio.
FillReachesClient ==
    \A o \in Orders : o \in workerFilled ~>
        {<<o, "ORDER_FILLED">>, <<o, "PORTFOLIO_UPDATED">>} \subseteq told

\* While the exchange trades and the market meets an order's condition, the
\* order cannot rest for ever.
NoMarketableOrderRests ==
    \A o \in Orders :
        ~ <>[](status[o] = "OPEN" /\ Trading /\ ShouldFill(Book[o], price))

-----------------------------------------------------------------------------
(* What the two paths together promise, stated without sessions, queues or   *)
(* handlers: see FillSettlement.                                             *)

Settlement == INSTANCE FillSettlement WITH
    filled   <- workerFilled \cup {o \in Orders : status[o] = "FILLED"},
    bookings <- settled

\* Every step of the program, restarts and errors included, is a step of
\* FillSettlement: fills are booked one at a time, never before they are
\* committed, never twice, and a booking is never undone.
ImplementsSettlement == Settlement!Spec

\* With no restart and no failed booking the program also keeps the promise
\* that whatever is owed is booked in the end.
ImplementsFairSettlement == Settlement!FairSpec
=============================================================================
