# A TLA+ model of AlphaSync

AlphaSync is a paper-trading platform: a FastAPI backend (`src/backend`) in one
process with one Postgres database, and a React application (`src/frontend`)
that keeps stores of its own in each browser.  This directory holds TLA+
specifications of both, TLC configurations that check them on small instances,
and theorems that TLAPS proves for instances of any size.  The source is the
reference; line numbers in `PROJECT.json` lead from each definition to the code
it models.

Sections 3 to 5 are the backend, section 6 is the browser, section 7 is what is
proved, section 8 what was found.

## 1. Inventory

### Backend

| Component | State it keeps | Operations | Interacts through |
|---|---|---|---|
| Order requests (`services/trading_engine.py`, `routes/orders.py`) | rows of `orders` | `place_order`, `cancel_order`, close-all | a database session per request, the event bus |
| Order sweep (`workers/order_worker.py`) | local lists of one sweep | every 5 s: expire, fill, refuse or leave each OPEN order, one commit, then events | its own session, the event bus |
| Event bus (`core/event_bus.py`) | an unbounded in-memory FIFO queue | `emit`, `emit_nowait`, one dispatcher that calls the handlers of an event one after the other | handlers wired in `main.py` |
| Portfolio worker (`workers/portfolio_worker.py`) | rows of `portfolios`, `holdings`, `transactions` | `on_order_filled` | its own session, the event bus |
| WebSocket manager (`websocket/manager.py`) | connections, subscriptions | deliver events to their user | event bus |
| Portfolio ledger (fill routine of `trading_engine.py`, `portfolio_worker.py`, `services/portfolio_service.py`, `routes/portfolio.py`) | cash, holdings, margin, profit | fill inline, fill by event, summarise, add, set and reset capital | the database, two caches |
| Square-off (`workers/squareoff_worker.py`) | a flag per day | close every holding at 15:20 | the fill routine |
| Risk engine (`engines/risk_engine.py`) | limits, a cache per day | checks before an order | called by `place_order` |
| Market session (`engines/market_session.py`) | none (clock) | is trading, can place | called by all |
| Market data (`services/market_data.py`, `providers/`) | quotes, requests in flight | quote or nothing | called by all |
| Futures (`services/futures_trading_service.py`, `workers/futures_order_worker.py`) | `futures_orders`, `futures_positions` | place, cancel, sweep | database, event bus |
| ZeroLoss (`strategies/zeroloss`) | positions in memory, counters | scan, monitor, force-close, stop | `place_order`, database, socket |
| Algo worker (`workers/algo_worker.py`) | positions in memory | evaluate strategies, trade | `place_order` |
| Broker sessions (`services/broker_session.py`, `master_session.py`) | registry of providers | connect, destroy, health check | database, market data |
| Accounts (`routes/auth.py`, `otp_service.py`, `admin_*`) | users, one-time codes, two-factor secrets | register, verify, approve, expire | database, email |
| Caches, rate limiter, watchlists | in memory, Redis or the database | get, set, invalidate | several |

All tasks run on one asyncio event loop.  Between two awaits nothing else runs;
at an await anything may.  The database is READ COMMITTED, and the ORM writes
rows by primary key without looking at the version it read.  There are no
tests in the repository.

### Browser

| Component | State it keeps | Operations | Interacts through |
|---|---|---|---|
| Session (`stores/useAuthStore.js`, `services/api.js`, the guards in `App.jsx`, sign-in, verification and status pages) | the store's user, `localStorage`, the identity provider's own user | five handlers that sign in, a listener, synchronisation, forced logout, redirects | identity provider, `POST /auth/sync`, every other page |
| Administration console (`pages/AdminPanelPage.jsx`) | stage, filter, rows, dialogs | bootstrap, two factors, table, changes of users and admins | `/admin`, `sessionStorage` |
| Feed (`hooks/useWebSocket.js`) | a socket, a retry timer and a queue of subscriptions per hook | connect, retry, subscribe, clean up | market store, server |
| Quotes and portfolio (`useLivePortfolio.js`, the market and portfolio stores) | prices, holdings, totals | ticks, polls, refreshes | feed, HTTP |
| Candles (`hooks/useMarketData.js`) | one request, a retry timer, a cache | fetch, retry, abort, pause | HTTP |
| Chart (`ZebuLiveChart.jsx`, `strategy/indicators`) | bars, lines, a pane | candles, live price, toggles | candles, quotes |
| Strategies (`strategy/`) | what is enabled, the last verdict | run, weigh | chart |
| Watchlists (`useWatchlistStore.js`) | lists, active list, prices | optimistic edits, loads, price fetches in three stages | `localStorage`, HTTP |
| Search (`Navbar.jsx`, `AddSymbolModal.jsx`) | text, timer, results | type, choose | HTTP |
| Order panel (`useOrders.js`, `OrderPanel.jsx`) | form, dialog, an order under way | place, confirm, switch product | portfolio store, `POST /orders` |
| Orders page (`OrdersPage.jsx`) | view, cancellations under way | filter, cancel, derive profit | portfolio store |
| Algo page, ZeroLoss page, futures page, options page, settings | cards; a mirror of the server's strategy; contracts and orders; chain, form and book; profile, photo and capital | commands and refreshes, several unanswered at once | HTTP, socket, `localStorage` |

A handler of the browser runs until it awaits.  An answer that comes later finds
whatever the user, a timer, the socket or another answer has made of the state
in the meantime, and most answers are never taken back.

### What is hard, and what makes each part correct

* **A fill is booked exactly once.**  Two paths fill an order.  `place_order`
  books shares and cash in the request's own transaction.  The sweep commits
  FILLED first, and the booking travels as an event through memory to a second
  transaction.  A booking must never happen twice, or without a fill; restarts
  and errors may fall between any two steps.  *(OrderExecution)*
* **An order's status** is written by three tasks that read it earlier: a
  terminal status must not be undone.  *(OrderExecution)*
* **Announcements** reach the client in an order it can make sense of, and do
  reach it.  *(OrderExecution)*
* **A limit is a limit**, whatever the quote does during a sweep.
  *(OrderTriggers, OrderExecution)*
* **Profit is what trades brought**, whichever of the two fill routines booked
  them, and whatever the square-off, the summary and the capital requests do in
  between; nobody owes shares by delivery orders; a squared-off book is flat.
  These sessions read, wait for a quote and then write.  *(PortfolioLedger)*
* **A futures position is the sum of its fills**, no order fills twice, an order
  whose condition holds fills, one that is too old expires, and one bad order
  must not stop the sweep.  *(FuturesTrading)*
* **Nobody is let in who has not verified an address**, the guards never send a
  browser round in a circle, and the spinner ends, although sign-in handlers
  and the listener overtake each other.  *(BrowserSession)*
* **The page shows what is chosen on it**: candles, results, contracts, option
  chains, orders, cards, profile and capital, with answers of former choices
  under way.  *(ChartData, SymbolSearch, Futures..., Options..., AlgoStrategies,
  ProfileForm, CapitalForm)*
* **What is shown before the server has agreed** is undone correctly when it
  does not.  *(WatchlistSync, OrdersPage)*
* **A view that is fed twice**, by events and by refreshes, agrees with the
  server in the end.  *(LiveQuotes, ZeroLossPanel)*
* **A delivery sale is covered** by holdings that the panel has not sold already.
  *(OrderTicket)*
* **What is drawn at bars that are over does not change**, and arithmetic on
  odd candles stays on its scales.  *(PriceChart, Indicators)*

`PROJECT.json` lists the hazards with their lines under `hazards`.

## 2. Plan, and where it stands

1. Orders, settlement and its abstract contract, with proofs: done.
2. The ledger, its two fill routines, and proofs of all its properties: done.
3. Futures, with proofs of its safety: done.
4. The browser: session, administration, feed, quotes, chart, strategies,
   watchlists, order panel, orders page, algo, ZeroLoss, futures, options,
   search and settings: done, with a theorem for each safety property and for
   the types of the whole.

What a further step could take: the order calls of the ZeroLoss controller (its
positions against the holdings in the ledger, section 9), `get_holdings` and the
risk checks on open orders and daily loss, and the registry of broker sessions.

Recursion, where needed, is written as recursive functions or folds so that
every module stays open to proof.

## 3. Order execution

### Modules

| Module | What it is |
|---|---|
| `OrderTriggers` | when an order fills and at what price; pure operators |
| `OrderExecution` | requests, sweep, bus, settlement and notification as one state machine |
| `FillSettlement` | what the two paths promise together: filled orders, bookings, nothing else |
| `MCOrderExecution` | order books for TLC |
| `OrderExecutionProofs` | the theorems |

### State and actions

| Code | Model |
|---|---|
| committed row of `orders` | `status`, `filledAt`; the immutable columns are `Book[o]` |
| request of `place_order` up to the flush, and `get_db`'s commit after the route | `PlaceFlush`, then `PlaceCommit` or `PlaceAbort`; the uncommitted row is `draft` |
| `cancel_order`: read, write and commit, emit | `CancelRead`, `CancelCommit`, `CancelEmit` |
| `_sweep`: select, loop over rows, commit, emit | `SweepStart`, `SweepEvaluate` (one per row, each with its own quote), `SweepCommit`, `SweepEmit`; any exception is `SweepFail` |
| rows of the sweep's session changed and not committed | `found`, `foundAt`; the lists of events are `filledEvents`, `expiredEvents` |
| `asyncio.Queue` and the dispatcher | `queue`, `current`, `stage` (whose turn it is among the handlers) |
| `on_order_filled` | `SettleFill`, `SettleFail`, or `SettleSkip` for a fill of `place_order` |
| `on_order_event`, `on_portfolio_event` | `Notify`, recorded in `told` |
| restart | `Crash`: everything but `status`, `filledAt`, `settled` (and the histories) is lost |
| market clock, quotes, seven days passing | `MarketTick`, `Quote`, `Age` |

Choices that a reader should know:

* A price is a number of ticks; 0 stands for a NULL column and for a quote that
  is missing.  Only comparisons of prices matter here.
* Whether a delivery sale is covered by shares is left open: both branches of
  the check in `_evaluate_order` are always possible.
* A request that is refused (validation, risk, capital, holdings) changes
  nothing and is the request not being made.  The market-hours check and the
  flush are one step: the session can close between them in the code, which
  changes no property below.
* At most one cancellation per order is in flight at a time, and an order is
  placed once.
* `settled` counts committed transactions that book an order's fill;
  `workerFilled` is a history variable (FILLED can be overwritten).
* `_commit_with_retry` retries only SQLite lock errors; the model's commit
  succeeds or fails.
* `check_pending_orders` is called by nobody and is not modelled.

### What each run checks

Bounds: `MaxCrashes`, `MaxFailures` (database errors in a request's commit, the
sweep or the handler), the number of orders and of quotes.  Nothing else is
bounded: the queue is as long as the events in flight.

| Run | Instance | Shows |
|---|---|---|
| `orders_restart` | one of two orders, a stop-limit whose quotes trigger it inside and outside its limit, or a limit that fills on arrival or rests; 2 restarts, 2 errors | `TypeOK`, `SettledAtMostOnce` whichever path fills it, `SettledOnlyIfFilled`, the inductive `FillsAccountedFor`, `FilledWithinLimit`, `NoReopen`, and that the program implements `FillSettlement` |
| `orders_live` | two different orders, fair scheduling, no failures | `AcceptedBeforeOutcome`, `FillReachesClient`, `NoMarketableOrderRests`, and that the program implements `FillSettlement` with its fairness |
| `orders_outcome` | violated | `OutcomeIsFinal`: a cancellation and a fill overwrite each other |
| `orders_lost_fill` | violated | `FillReachesPortfolio`: one failed handler call, and a fill is never booked |

`orders_restart` has a constraint, `AtMostOnePlaced`, so that its states are the union of those
of two instances with one order each.

Why these bounds are enough: every property speaks of one order, or of one
order and the events of another.  Two restarts and two errors let a second
failure hit the recovery from the first (a restart after a rolled-back sweep, a
failed handler after a restart).  The quotes are chosen on both sides of the
trigger and of the limit.  What the bounds leave out is covered by the proofs,
which bound nothing.

`CHECK_DEADLOCK FALSE`: without an order in flight and with the market closed
the program really does wait for the world; when all orders are done it may do so
for ever.

### Fairness

`OrderExecutionWorker.run` is a loop that catches every exception and sleeps for
a fixed time, and `EventBus.run` is a loop over a queue: when a step of theirs
stays possible it is eventually taken, which is weak fairness of `SweepStart`,
of evaluating the next row, of `SweepCommit`, of `SweepEmit` and of the
dispatcher.  Nothing is assumed of clients, of the market, or of failures.
`NoMarketableOrderRests` is stated so that it does not depend on the market: it
says that no order can stay OPEN for ever *while* its condition holds and the
exchange trades.

## 4. The portfolio ledger

### Modules

| Module | What it is |
|---|---|
| `FillBooking` | the arithmetic of a fill on a ledger (cash, realised profit, one row per symbol), once as `trading_engine.py` does it and once as `portfolio_worker.py` does, the recalculations both end with, and how the ORM writes a changed row; pure operators |
| `PortfolioLedger` | everything that writes one user's ledger, as sessions that read, wait and write |
| `MCPortfolioLedger` | prices and capital for TLC |
| `SumTheorems` | sums over finite sets and folds of sequences, for proofs (also used for futures and the browser) |
| `PortfolioLedgerProofs` | the theorems |

### State and actions

| Code | Model |
|---|---|
| rows of `portfolios` and `holdings`, `users.virtual_capital` | `ledger`, `base` |
| orders that rest, or are filled by the sweep and wait for the worker | `resting` |
| rows of `transactions` | `linked`: whether one names its order |
| a database session: its request, the rows it read, the rows it computed | `session` |
| `place_order` up to the read of the portfolio; its checks; the booking of a fill on arrival and the commit | `BeginOrder`, `CheckOrder`, `BookInline` |
| `on_order_filled` for a fill of the sweep | `BeginFill`, `ReadHolding`, `BookByWorker` |
| `close_all_positions`, `_square_off_all` | `BeginOther`, `ReadPositions`, one `CloseOne` per position, `EndClosing` |
| `get_portfolio_summary` | `BeginOther`, `ReadSummary`, `WriteSummary` |
| `add_capital`, `set_capital`, `reset_capital` | `BeginCapital` or `BeginOther`, then `ChangeCapital` |
| `reset_account` | `BeginOther`, `ResetAccount` |

Choices that a reader should know:

* A session keeps what it has read: the ORM does not refresh a row it holds.  At
  the end it writes the columns it changed, with the values it computed, over
  whatever the row is by then (`Written`); an update of a row that is gone or an
  insert of one that has appeared is an error and rolls everything back.
* The first write of a session locks the row of `portfolios` until its commit.  A
  session that books one fill writes and commits in one step; the kill switch
  writes after its first position, and excludes the others from there on
  (`Unlocked`).
* A deletion that is not awaited does nothing.  That is how `db.delete(holding)`
  is called in `_update_portfolio_on_fill` (lines 357, 446, 470), and how
  `BuyToCover` and `SellToClose` treat it; `portfolio_worker.py` awaits it.
* The two reads of one holding in `place_order` (check, booking) are one step.
* Every fetch of a quote may give any price or none.  A fill of the sweep comes
  at any price its limit admits, and coverage at that earlier moment is not
  asked for.  Resting orders are limit orders; that they may be cancelled or
  expire instead is in `OrderExecution`.
* A failure of the database between two steps
  abandons the session, which is the session not being opened.
* Two history variables: `flow`, what booked sales brought minus what purchases
  cost, and `covered`, which marks the one fault (a short bought back in full by
  a request, below) that `RealisedMatchesTrades` has to except.

### What each run checks

| Run | Instance | Shows |
|---|---|---|
| `ledger_delivery` | delivery orders, every kind of request, five requests, one session at a time | `TypeOK`, `NeverShort`, `CloseAllFlattens` |
| `ledger_margin` | intraday and carried-forward orders, every kind of request, four requests | `RealisedMatchesTrades` when positions go short, are averaged into by one routine and covered by the other; `SharesAreCounted`: the total that the risk engine weighs leaves out none of the shares held |
| `ledger_squareoff` | violated | `CloseAllFlattens`: a short, and the kill switch |
| `ledger_race` | violated | `BuyIsPaidFor`: two purchases that read the same cash |

Several sessions that interleave are in `ledger_race`; that they leave nobody short by delivery
orders is a theorem (`DeliveryNeverShort`, section 7), for any number of them.

Why these bounds are enough: two prices make a profit and a loss; quantities 1
to 3 make a sale partial, exact or too large for what is held, and a purchase average
into a short or turn it; four requests are
enough to open, add, reduce and close, five to do something to the closed
position.  One symbol is enough where the property speaks of one row or of a sum
of rows that are treated alike.  Prices are multiples of 75600, so that averages
of averages and a fifth of a price are whole numbers; otherwise the rounding of
a column to two decimals would show as a difference of a tick.  `MaxRequests` and
`MaxResting` are the only bounds.

`CHECK_DEADLOCK FALSE`: the requests are bounded, and when they are used up
nothing happens.  The ledger has no liveness of its own: that a fill is booked
at all is `FillReachesPortfolio` of `OrderExecution`.

What shorts break, and why.  The risk engine weighs `total_invested`, a signed
sum.  A short sale on margin takes a fifth of its value from the cash and all of it from
that sum, so after one larger than the cash the "capital" is below zero, the ratio is set to
0 (`risk_engine.py` 178) and nothing stops a purchase but the cash it needs.  No
property states a limit of exposure, then: with delivery orders alone one would hold, and
say nothing of this.  What does hold of that sum, with every kind of order, is
`SharesAreCounted`: it is at least what the signed positions cost, although rows are
kept after they are sold out or bought back, and four routines write it, each in its own
way.  A short bought back in full keeps its row, so the
kill switch does not flatten it (`ledger_squareoff`).

## 5. Futures

### Modules

| Module | What it is |
|---|---|
| `RowWrites` | how the ORM writes a column (also used by `FillBooking`) |
| `FuturesTrading` | requests, sweep, positions and cash of one user |
| `MCFuturesTrading` | order books for TLC |
| `FuturesTradingProofs` | the theorems |

### State and actions

| Code | Model |
|---|---|
| rows of `futures_orders`; the immutable columns | `status`; `Book[o]` |
| rows of `futures_positions` | `positions`: a sequence of rows per contract, because no index makes them unique |
| `portfolios.available_capital` | `cash` |
| `place_futures_order` of a resting order | `PlaceResting` |
| `place_futures_order` of a market order: the checks, the read of the position, the booking and its commit | `PlaceMarket`, `ReadPosition`, `BookMarket` |
| `cancel_futures_order`: read, write and commit | `CancelRead`, `CancelCommit` |
| `_sweep`: select, one `_evaluate_order` per row, commit | `SweepStart`, then `SweepSkip`, `SweepFill` or `SweepExpire` per order, `SweepCommit` |
| rows that the sweep's session has read and changed | `filled`, `view` |
| quotes, seven days passing | `Tick`, `Age` |

Choices that a reader should know:

* `emit()` takes one argument and is called with two.  After a commit that
  changes only the answer; for a fill in the sweep it is caught after the fill;
  for an expiry it undoes the sweep, so `SweepExpire` is a rollback.  No event
  ever reaches the bus, and there is none in the model.
* `scalar_one_or_none` raises when it finds two rows: the request gives up
  (`ReadPosition`), the sweep fills the order and leaves the position alone
  (`ViewAfter`).
* The sweep reads the portfolio at its first fill and keeps it; it selects the
  position at each fill, but the ORM does not refresh a row it already holds.
* A request that is refused changes nothing and is not a step.  A request may
  also stop between two of its steps for ever.
* `overlapped` is a history variable: two sessions that book fills were open
  at once.  `fills` counts committed fills.

### What each run checks

| Run | Instance | Shows |
|---|---|---|
| `futures_sweep` | a market purchase of 1, a limit sale of 2 and a stop-limit purchase of 1 in one contract, two quotes or none | `TypeOK`, `FilledAtMostOnce`, `PositionIsSumOfFills`, `MarketableOrderFills` |
| `futures_expiry` | violated | `OldOrdersExpire`: one order that is too old rests for ever |

The three orders open a position on either side, add to it, turn it, close it
and reopen the closed row, on arrival and in the sweep, two of them in one sweep.
Each order is placed once; nothing else is bounded.  One contract is
enough: contracts share only the cash, which no property constrains.

Fairness: `FuturesOrderExecutionWorker.run` is a loop that catches every
exception and sleeps five seconds, all day; so a sweep starts, evaluates the
next order and commits.  Nothing is assumed of clients or the market.
`MarketableOrderFills` excepts books in which an order is too old, because that
order undoes every sweep; `OldOrdersExpire` is the promise this breaks.

## 6. The browser

### Modules

| Module | Code | What it is |
|---|---|---|
| `BrowserSession` | `stores/useAuthStore.js`, `services/api.js`, `App.jsx`, `ProtectedRoute.jsx`, `AdminRoute.jsx`, sign-in, verification, status and admin-access pages | the session; a handler suspended at an await is a task, and an action runs one task to its next await |
| `AdminConsole` | `pages/AdminPanelPage.jsx`, `services/adminApi.js` | bootstrap, two factors, table, dialogs; a request under way is a job |
| `LiveSocket` | `hooks/useWebSocket.js` | two hooks, each with a socket, a retry timer and a queue, and one status |
| `LiveQuotes` | `hooks/useLivePortfolio.js`, market and portfolio stores, `cache/smart_cache.py`, `portfolio_service.py` | ticks, polls and refreshes that write the same prices and holdings, and the backend's short-lived copies of the portfolio that answer a refresh |
| `ChartData` | `hooks/useMarketData.js` | candle requests with cache, retry, abort and pause |
| `PriceChart` | `ZebuLiveChart.jsx` | the effects of one commit, in the order of their declaration |
| `Indicators` | `strategy/indicators/` | the chart's indicators; pure operators and recursive functions |
| `StrategyEngine` | `strategy/engine`, `strategy/strategies`, `useStrategyStore` | five strategies, the weighing of their verdicts, the switches |
| `WatchlistSync` | `stores/useWatchlistStore.js`, `Watchlist.jsx` | optimistic edits, loads and the server's answers |
| `WatchlistPrices` | `fetchPrices`, `TradingWorkspace.jsx` | the prices of the active list in three stages |
| `SymbolSearch` | `Navbar.jsx`, `AddSymbolModal.jsx` | delayed queries, answers in any order |
| `OrderTicket` | `hooks/useOrders.js`, `OrderPanel.jsx`, `PositionsPanel.jsx`, `MobileTradeBar.jsx` | the order panel, from the form to the refresh after an order |
| `OrderLots` | `OrdersPage.jsx` 198-310 | the profit derived from orders by matching lots |
| `OrdersPage` | `OrdersPage.jsx` | filters, and cancellations shown before they are granted |
| `AlgoStrategies` | `AlgoTradingPage.jsx` | cards, create form, edit dialog, log |
| `ZeroLossPanel` | `ZeroLossPage.jsx`, `useZeroLossStore.js`, `strategies/zeroloss/controller.py` | a strategy and its mirror, fed by socket and poll |
| `FuturesContracts`, `FuturesOrders` | `FuturesPage.jsx` | contracts and quotes of a symbol; the dialog and the list of orders |
| `OptionsDesk`, `OptionsBook` | `OptionsPage.jsx`, `OptionChain.jsx`, `useOptionsStore.js` | chain and form; paper orders and positions kept in the browser |
| `ProfileForm`, `CapitalForm` | `SettingsPage.jsx`, `routes/user.py`, `routes/portfolio.py` | details and photo; capital and the reset of the account |
| `MCBrowser` | | small values, and one behaviour of one component at a time |
| `BrowserProofs`, `WorkspaceProofs`, `WatchlistProofs`, `AnswersProofs` | | the theorems: session, orders page, panel, lots and options; feed, strategies, indicators and what they repaint; watchlists, and the types of the panels that load lists; answers and the whole browser |

How state and actions correspond to the code: a variable is a `useState`, a
`useRef` or a field of a store and mostly has its name; an action is a handler or
an effect, from its start to its first await; what follows the await is the action
that takes an element of the set (or the n-th of the sequence) of requests
under way.  Requests carry what their closure has captured: the symbol or form
of that time, the list to be restored if they fail.  Where a request has two
moments that matter, it is first *served* (the server changes or reads its own
state) and later *answered*.  Most answers come in any order; a failure is a
separate branch.

Ghost variables record a circumstance that a property must except, and never
guard an action: `sole`, `clean` (WatchlistSync), `excused`, `knew` (OrderTicket),
`restored` (OrdersPage), `stale`, `outrun` (AlgoStrategies), `overtaken`, `late`
(SymbolSearch), `unread` (FuturesOrders), `netLots`, `doubled` (OptionsBook),
`crossed`, `restored2` (ProfileForm), `unseen`, `behind` (CapitalForm).

### Choices that a reader should know

* **Session.**  The identity provider is external: it accepts or refuses a
  sign-in, and calls the listener before anything else happens.  A profile is
  what the guards distinguish.  A broker's connection is its outcome.
* **Portfolio.**  The summary and the holdings of a refresh are two requests, each
  answered by a copy of its own that lives 3 s or by the database, and then kept.  An
  order on arrival drops both copies before `get_db()` commits (`TradeBooked`, then
  `BookingEnds`), the worker and the kill switch after their commit (`TradeByWorker`).
  `totals` is the positions a summary is taken over, not its figures: a tick adds
  positions with their sign (`usePortfolioStore.js` 133) and the server adds their
  absolute values (`portfolio_service.py` 206), so the figures of the two never compare
  once there is a short (section 8).  Prices and totals of a read are of some earlier
  moment, hence any.
* **Chart.**  Prices are small integers; ratios are in percent, quotients are
  rounded down, and periods are `Span` and `AtrSpan` instead of 9 to 200.
* **Strategies** read a record of what the indicators say, so that a history of 60
  candles need not be enumerated; percentages are in hundredths.
* **Watchlists.**  Names and spellings of symbols are abstracted.  The server's
  upkeep of seeded lists at each load is reduced to making a list where there is
  none.  The order of overlapping renames and of rows is not kept.  A
  visit precedes the edits, which is a bound.
* **Order panel.**  A price is given or blank.  What other pages, the quick-order
  dialog and resting orders do to the holdings is `Elsewhere`, `QuickOrder`,
  `HandleCloseAll` and `RestingFills`.  The refresh after an order is answered with the
  holdings, or with a copy that somebody else's read made between the order's
  invalidation and its commit.
* **Orders page.**  Sorting, export, error texts and flashing rows are left out.
* **Algo page.**  A strategy is its type and whether its parameters were edited.
* **ZeroLoss.**  The log, the market regime and statistics are left out.  The switch
  starts and stops the server; a stop may close any of the open positions.
* **Futures.**  `Unlisted` are the symbols without contracts, for which no quotes are
  asked and those of the former symbol stay.  The two modules share only the chosen symbol, and each chooses
  one for itself.  Every committed request is answered with an error (section 5),
  which is the branch `Failed` of a call that is done.
* **Options.**  A strike is its underlying, a premium its type.  In the book an
  order is for one lot.
* **Settings.**  Name and phone are one value.  Each upload has an address
  of its own.  Only this page changes the profile and the capital.  The amount
  is one unit, and the fields that are emptied are left out.  The fetch of a
  profile without a phone is unreachable, because every answer of the server
  has one.  With `MaxReadings` 0 a button is pressed when no read is under way.
  The server's own read and write of the capital is one step here; how they
  overlap is in `PortfolioLedger`.
* **One component moves per behaviour.**  The components share no state that their
  models keep, so the product of their state spaces would show nothing more; the
  states of the run are the sum.  `BrowserTypeOK` checks the component that moves.

### What each run checks

| Run | Shows |
|---|---|
| `browser` | the 19 properties below |
| `browser_account` (violated) | `ProfileIsFirebaseUsers`: the answer of a synchronisation is stored whoever is signed in by then |

| Property | Says |
|---|---|
| `BrowserTypeOK` | types, and the relations of ghosts and counters that the others rely on |
| `RedirectsSettle` | from any page and with any profile, three redirects reach a page that renders |
| `UnverifiedStaysOut` | a password account whose address is not verified is never the application's user |
| `TrackedIsSubscribed` | an open socket has been asked for all that the user looks at, or the message is queued |
| `IndicatorsInBounds` | oscillators stay on their scales and channels around their middle, for rows of zeros and closes outside high and low |
| `NoRepaint` | what is drawn at the bars that are over stays, whatever a candle, a tick or a toggle does |
| `ChartAlwaysFills` | a symbol is not left with an empty chart before its attempts are over |
| `MirrorSymmetric` | mirrored candles give the opposite verdict with the same confidence |
| `AgreementHolds` | one more strategy that agrees or abstains leaves the verdict |
| `EditsReachServer` | overlapping edits and single refusals leave browser and server with the same lists |
| `OnlyRemovalsLoseActive` | only a refused removal can leave the panel without an active list, and a refused deletion only if it had been lost before |
| `ListGetsPriced` | a row of the active list gets its price, or requests are paused |
| `OwnSalesCounted` | a delivery sale on its way is covered by what the panel's own sales have left |
| `BooksAddUp` | the derived profit pairs the k-th share bought with the k-th sold; option positions hold the lots ordered less those closed |
| `ShownCancelledIsTrue` | an order shown as cancelled is, or its cancellation is on its way, or an older snapshot was put back |
| `AnswersBelong` | six views show what is chosen on them, or the user's own: candles, algo cards and log, search results, futures orders, profile and photo, capital |
| `BusyEnds` | spinners and disabled buttons come free: session, console, order, algo, futures, settings |
| `FeedRecovers` | the feed comes back after drops while it is wanted |
| `ViewsCatchUp` | portfolio (the holdings shown, and the positions the totals are of), ZeroLoss panel, contracts and option chain agree with the server, or the choice, for good in the end |

Bounds.  Every constant named `Max...` bounds presses of the user, events of the
world or faults; none bounds an answer.  Two symbols, lists, orders or
underlyings are what a late answer needs in order to be of another one; two
people are what a profile needs in order to be somebody else's; a second fault
or press is what it takes to meet the recovery from the first.  Three
keystrokes let the first text be typed again.  In the portfolio two events (trades,
ticks, failures, changes of the feed) and two refreshes under way let a second
trade fall between the two reads of one refresh while another waits for its answer.  The
histories of the chart hold a rising and a falling close, a candle whose close
is outside its range and rows of zeros; the readings of the strategies cross
trend, momentum and the four zones of the RSI.

`CHECK_DEADLOCK FALSE`: when the presses are used up and every answer has come
the application waits for its user.

### Fairness

| Assumed of | Because |
|---|---|
| `Notice`, `Answer`, `Resume` (session); `Answered` (console); `OrderMoves`; `AlgoServer`; `PlaceMoves`, `CancelMoves`, `ReadMoves`; `ProfileMoves`, `CapitalAnswered` | an HTTP request or a call of the identity provider is answered or fails, and the promise then runs its handler |
| `Network` | a socket opens or fails, and the retry timer fires |
| `StartRefresh`, `PollPrices`, `FetchAll`, `Refetch`, `RefreshChain` | `setInterval` |
| `HoldingsRead`, `RefreshLands`, `StageAnswered`, `PollServed`, `PollLands`, `FetchLands`, `ChainAnswered`, `SwitchServed`, `SwitchAnswered`, `HandleWsMessage`, `MonitorForgets` | the request is answered, the queue of messages is handled, the server's coroutine goes on |
| `TotalsExpire`, `HoldingsExpire` | a copy is not served after 3 s, and every 30 s is read anew |
| `DataMoves`, `SearchMoves`, `BackoffEnds`, `Reload` | a timer fires or a request ends |

Nothing is assumed of the user, of prices or of the order of answers.  Faults
that could prevent recovery for ever (drops, failures) are bounded; ticks and
presses are not required.

## 7. What is proved

`OrderExecutionProofs` proves, for every set of orders, every book, every set of
quotes and every bound:

| Theorem | Statement |
|---|---|
| `TypeCorrect` | `Spec => []TypeOK` |
| `EveryFillAccountedFor` | `Spec => []FillsAccountedFor` |
| `BookedAtMostOnce` | `Spec => []SettledAtMostOnce` |
| `BookedOnlyIfFilled` | `Spec => []SettledOnlyIfFilled` |
| `NeverReopened` | `Spec => NoReopen` |
| `RefinesSettlement` | `Spec => ImplementsSettlement` |
| `LimitsRespected` | `Spec => []FilledWithinLimit` |
| `AcceptanceHeardFirst` | `Spec => []AcceptedBeforeOutcome` |

Assumptions: `BookAssumption`, `QuotesAssumption` and `BoundsAssumption`, which
only give the constants their types.

`SettledAtMostOnce` is not inductive.  That the handler may add one to `settled`
is safe only because the event in its hand is the only one for that order, and
because the order has not been booked.  `FillsAccountedFor` says so: a fill of
the sweep is a token that is in exactly one place (the sweep's list, the queue,
the dispatcher's hand), and a token means "committed and not booked".  For the
token to be created only once, the orders the sweep is about to write must be
ones nobody has filled since it read them (`SweepOwnsItsOrders`), for which in
turn a row that is absent or OPEN must be unbooked (`UnfilledOrders`).  The
conjunction is preserved by every action, `TypeOK` being preserved first; TLC
checks it in a run before the proof relies on it.  The refinement maps
`filled` to the orders that are or once were FILLED and `bookings` to
`settled`; a sweep's commit is a `FillBatch`, `PlaceCommit` a `FillAndBook`,
`SettleFill` a `BookOwed`, and everything else stutters.

`LimitsRespected` (`Spec => []FilledWithinLimit`) rests on `FillsGood`: the
price at which a request, a sweep or the table has filled an order is one that
its limit admits, and only such a price is ever copied from one to the other.

`AcceptanceHeardFirst` is about the one queue of the bus: the notice of an
outcome of the sweep is behind the notice that the order was accepted, or that
one has been delivered.  The invariant `AcceptedInv` follows the second from the moment
the order rests in the table, before which no sweep can find it; an order that a
request fills never rests.  It is a promise of one run of the process, as the
property is: a restart empties the queue.

Only model-checked in order execution: liveness (`FillReachesClient`,
`NoMarketableOrderRests`, `ImplementsFairSettlement`), which needs `ENABLED` and
is out of the prover's reach.

`PortfolioLedgerProofs` proves, for any symbols, prices, quantities, limits and
capital, and without a bound on requests other than the constant `MaxRequests`:

| Theorem | Under | Statement |
|---|---|---|
| `LedgerTyped` | | `Spec => []TypeOK` |
| `DeliveryNeverShort` | delivery orders | `Spec => []NeverShort` |
| `DeliveryFlattens` | delivery orders, one session | `Spec => CloseAllFlattens` |
| `ProfitIsOfTrades` | one session | `Spec /\ []AveragesExact => []RealisedMatchesTrades` |
| `SharesCounted` | one session | `Spec /\ []AveragesExact => []SharesAreCounted` |

Assumption: `LedgerAssumption` (prices and quantities are positive, the kinds of
products and requests are known, the symbols are finitely many).  *Delivery
orders* is `Products \subseteq {"CNC"}`; what fails without it is in section 4.
*One session* is `Sessions = {s0}`: sessions that overlap overwrite each other's
cash and profit, as `ledger_race` shows, and a purchase committed while the kill
switch is at work stays open.  `AveragesExact` says that a row which holds shares
cost quantity times average: the columns round an average to two decimals, and
then the other theorems are off by what rounding took.  It is a condition on
prices and quantities, and the runs choose theirs so that it holds.

`NeverShort` is not inductive: a session could
write a negative quantity it has computed earlier.  `DeliveryInv` therefore says
the same of every ledger a session has in hand (`SessionLong`), and that a sale
that passed the check of `place_order` is of shares *this session read*, which is
what the subtraction will use, whatever the database holds by then.  Each lemma
about `FillBooking` says that one routine keeps a ledger long; `WrittenLong`, that
the ORM's column-wise overwrite of a long ledger by a long one gives a long one,
which is why lost updates cannot break it.

`DeliveryFlattens` adds `Flattening`: of a closing session whose rows are those
of the database, the positions not yet closed are among those it still has to
visit.  `ProfitIsOfTrades` rests on `ProfitInv`: a session that has read the
ledger has read the ledger of now, a row that is not stored holds nothing, and
the equation holds.  `Cost` is a sum over all symbols, and each booking changes
one term of it, so each routine needs one fact (`Traded`): profit and cost of
its own row change together by what the trade brings.  `InlineExact` and
`WorkerExact` prove that of the two routines, through partial, clamped, averaging and
turning fills.  `SharesCounted` is of every kind of order and adds `Fair`: every row
says at least what its signed shares cost, also one that was sold out or bought back
and kept, and so do the rows together (`FairRowsAddUp`); and `Weighed`: what an open
session has read of the ledger, and what one that closes positions would write over
it, is fair as well.  Each of the four routines that write the total then keeps it
(`InlineFair`, `WorkerFair`, `SummaryFair`, `RecalculatedAtFair`).  It excepts a negative
average, which the worker can make by averaging a purchase with a short.

`FuturesTradingProofs` proves, for every set of orders, contracts and prices:

| Theorem | Statement |
|---|---|
| `FuturesTyped` | `Spec => []TypeOK` |
| `FuturesFilledAtMostOnce` | `Spec => []FilledAtMostOnce` |
| `PositionsAddUp` | `Spec => []PositionIsSumOfFills` |

Assumption: `FuturesAssumption` (prices are positive, the orders are finitely
many and each is an order).  The sweep adds one to `fills` without
looking at the status again, so the invariant `FillInv` says who may still
fill an order: what the sweep holds has no fill (`HeldUnfilled`) and has been
placed (`HeldPlaced`), a request that fills one is the one that creates it
(`RequestsNew`), and whatever is NEW or OPEN is unfilled (`PendingUnfilled`).  A
cancellation may overwrite FILLED, and never makes an order fillable, because
what it writes is not NEW or OPEN (`CancellingPlaced`).

`PositionsAddUp` is about two sums,
one over the rows of a contract and one over all orders, each weighed by its
fills.  Its invariant `BooksInv` says so of the table and, unless sessions
overlapped (`Alone`), of the position the sweep's session would write (`Coming`)
with the fills it holds (`Later`): each fill adds the same to both sides, a
commit makes `Coming` the table, and a rollback forgets it.  Only model-checked: `MarketableOrderFills` (liveness).

`SumTheorems` has what these proofs need of sums: the library's `SumFunction` over a
finite set is a natural number (an integer), changes by the difference of one
term if one term changes, is at least each of its terms, is zero when every term
is, and is the same for functions that agree.  The induction theorems of the library
take the predicate as a parameter, which the provers cannot instantiate; here it
is a set (`NatSetInduction`, `FiniteSetInduction`), and that the fold is what its
recursive definition says follows from the existence of a function that satisfies
it (`PartSumsExist`).  `FoldFound` is the same for `FoldLeft` over a sequence: for a set
that the step does not leave, there is a function with the fold's equation, so
the fold has a course, a value after each element, along which one can go by
`NatSetInduction`.

The browser's components are proved about as specifications of their own, for
every value of their constants:

| Theorem | Statement | Inductive invariant |
|---|---|---|
| `WorkspaceProofs.OpenSocketTracks` | `SocketSpec => []TrackedIsSubscribed` | `Wired`: the types of socket, queue and subscriptions; the property itself is then inductive |
| `WorkspaceProofs.EngineTakesNoSide` | `EngineSpec => []MirrorSymmetric` | `EngineInv`: types, and what is shown is what the engine says of the candles and switches of now; the rest is arithmetic of the five strategies (`StrategySays`) and of the weighing (`VerdictMirrors`) |
| `WorkspaceProofs.AgreementNeverTurns` | `EngineSpec => AgreementHolds` | `EngineInv` again; a sum over the strategies that run grows by the term of the new one (`OneMoreBullish` and its mirror) |
| `WorkspaceProofs.IndicatorsBounded` | `ChartSpec => []IndicatorsInBounds` | `ChartSound`: the rows are candles and what is drawn of them are `Bars`, whose high and low span the close; explained below |
| `WorkspaceProofs.NothingRepaints` | `ChartSpec => NoRepaint` | `ChartHolds`: `ChartSound`; what is drawn was computed from bars that are those of now but for the last (`DrawingHolds`), and those bars are the normalised history but for the last; explained below |
| `BrowserProofs.UnverifiedNeverIn` | `SessionSpec => []UnverifiedStaysOut` | `SessionInv`: also the account in `localStorage` is verified, which a page load reads (`StoredVerified`), and so is that of every task that waits for a profile (`AskedVerified`) |
| `BrowserProofs.GuardsSettle` | `SessionSpec => []RedirectsSettle` | `Shaped`: every user in the store, in `localStorage` or with a task has a profile the server can give, for which the redirects are followed case by case (`GuardsLead`) |
| `BrowserProofs.CancelledRowsTrue` | `PageSpec => []ShownCancelledIsTrue` | `PageInv`: also what a refresh was served as cancelled still is (`RefreshIsTrue`), because no order leaves that status |
| `BrowserProofs.SalesCovered` | `TicketSpec => []OwnSalesCounted` | `TicketInv`: unless somebody else traded, the holdings shown are the server's, or the panel's own order is between its execution and its refresh, when no other can be sent (`PanelCounts`) |
| `BrowserProofs.RealisedPairs` | `LotsSpec => []RealisedPairsShares` | `LotsInv`: there is an order of time of the fills (a new one comes behind all that are earlier, `NewOrderKeeps`); the rest is what the folds compute, explained below |
| `BrowserProofs.PositionsHoldLots` | `BookSpec => []LotsHeld` | `BookInv`: before another load the numbers given are below the counter, so no two rows share one; a position has one row even when two do |
| `AnswersProofs.BooksAlwaysAddUp` | `BrowserSpec => []BooksAddUp` | both of these, in every behaviour of `MCBrowser` |
| `WatchlistProofs.OnlyRefusalsLoseActive` | `ListsSpec => OnlyRemovalsLoseActive` | `ListsShaped`: the types, and every request is well made: an addition carries one unsaved item with the number of the request, a removal one item, and a deletion leaves a list (`WellMade`).  Each action then keeps the active list or answers a refused edit (`PutBack`) |
| `WatchlistProofs.EditsReachTheServer` | `ListsSpec => []EditsReachServer` | `ListsShaped`, `Told` and `Fresh`, explained below |
| `AnswersProofs.ChartOfItsSymbol` | `DataSpec => []CandlesAreOfSymbol` | `ChartInv`: nothing is said of the symbol of a request or a retry; no retry is a first attempt (`RetryLater`), and only a first attempt or the answer for the selected key changes what is shown |
| `AnswersProofs.SearchOfItsText` | `SearchSpec => []SearchIsOfQuery` | `SearchInv`: the last request is that of the text, unless a timer is still to send it, and one that is late was marked so |
| `AnswersProofs.AnswersAlwaysBelong` | `BrowserSpec => []AnswersBelong` | `AnswersInv`: the two above and one each for algo cards, futures orders, profile and capital, in every behaviour of `MCBrowser`, where one component moves and the others rest |
| `AnswersProofs.BrowserTyped` | `BrowserSpec => []BrowserTypeOK` | `AllTyped`: of each of the 21 components what its type rests on; explained below |

Assumptions: `SocketAssumption`, `QuotesInNat`, `EngineAssumption`,
`ChartAssumption` (candles are of naturals, in the order of time, as
`normalizeCandles` sorts them, `useMarketData.js` 80; periods and live prices positive),
`ListsAssumption`, `LotsAssumption` (prices are integers, quantities natural), `SessionAssumption`,
`ProfileAssumption` (of any account the server may answer that its phone is known),
`TicketAssumption`, `AlgoAssumption`, `DetailsAssumption`, `CapitalAssumption`,
`ConsoleAssumption`, `DataAssumption`, `PageAssumption`, `BookAssumption`,
`OptionsAssumption` (each underlying has a date), `ContractsAssumption` and `ZeroAssumption`,
which name types, say that bounds are natural numbers, that sets of choices are finite or
not empty, and that the markers for "nobody" are nobody.

`EditsReachTheServer` speaks of the moment at which nothing is under way, and most
of what happens before disturbs both sides of its equation at once.  `Fresh` says
what is true meanwhile, as long as `clean`: the panel waits for one load that
nothing has overlapped (`Loading`), or it shows the database with the edits that
wait applied to it: lists without those being deleted, items with those being
added and without those being removed (`ShowsEdits`).  An
answer then moves an edit from the requests to the database and leaves what is
shown.  A refusal puts a snapshot back, so `EditsWaiting` says of a request that
no other has overlapped that its snapshot is the database (`PutsBack`).  The
exception is a row that was not saved when it was removed: the server does not
know the item, refuses, and the snapshot is not what it has.  That request cannot have
been alone, since the addition was under way, so the panel will not be `clean`
(`Doomed`).  `Told` has what numbers mean: every request and everything stored has a
number of its own below `nextId` (`Numbered`, `Shelved`), and what a request sent
alone has been served is still what is stored (`AskedAlone`).

`RealisedPairs` is about folds over the orders: the lots, the profits, and the
prices share by share.  `Paired` relates the three after each order.  With `m` the
shares of the side that has fewer, the open lots of a side are its shares from `m + 1` on,
one run of equal prices for each lot (`Spans`), and the profits so far add up to
what the first `m` of both bring (`Brings`).  Only one side has lots, then.  An
order goes through the lots of the other side (`MatchTakes`, itself an induction
over them): it realises the difference to the next shares of that side, and what
is left of it becomes a lot of its own (`OwnSpans`), so `Paired` holds with its
shares appended (`BookKeepsPairs`, once for each side by `BalancedBack`).  The theorem
needs no bound on the orders and nothing of their times but that an order of time
exists.

`IndicatorsBounded` needs next to nothing of the chart and much of the indicators.
Normalisation makes a bar of every row it keeps (`NormalizedAreBars`), a live price
leaves it one (`MovedAreBars`), and nothing else writes the bars.  Then each
indicator is taken by itself, for any bars and any period: a close is within the
span of its window (`WindowSpan`), a part of a sum at most all of it
(`ShareInPercent`), a directional movement at most the true range
(`TrueRangeReaches`), whose smoothed sums then compare the same way
(`WilderSumsGrow`), and an average is between the bounds of what it averages
(`AverageBetween`, `WilderBetween`).  A smoothed line is a recursive function
over an interval.  That it has the values its equation says follows, as for the folds,
from the existence of a function with that equation: `IntervalRecursion` builds it
for a step that stays in a set (`StaysIn`), and `IntervalInduction` goes along it.
The arithmetic is that of the model, whole numbers rounded down, which keeps a quotient
between whole bounds.  In it the clamp of the RSI's pane to 0 and 100 (`ZebuLiveChart.jsx` 703) never
acts.

`NothingRepaints` compares two drawings, so it is about pairs.  Two sequences of bars are
twins up to `k` if their first `k` bars are the same (`TwinBars`), and of every
indicator it is proved that from twins it draws the same lines up to `k`
(`AllLinesSame`, one lemma for each indicator: `EmaOfPacked`, `WmaOfPacked` and the like).
That is where an indicator that looked ahead would fail.  A live price moves the last bar alone and a toggle or
a theme draws again from bars that differ at most there (`Ended`).  What is left is a
history that goes on: `normalizeChartCandles` drops odd rows, keeps one bar of each time,
in the order of time, and repairs its high and low, so a later row could change an earlier bar.  `NormalizedKeeps` shows that with the rows in order of
time all bars but the last stay, because a new row's rank by time is behind the others
(`RankKeeps`).

`BrowserTyped` is more than a list of domains, because few of the types are inductive.
What a response may hold depends on what was asked, what a refresh brings on what was
sold, and a counter on what it counts.  So `AllTyped` adds for each component what its
type rests on: every holding is at most one share and `MaxQty` for each settled order
(`TicketTyped`); the numbers of the option orders and positions are at most one more than the orders placed
(`BookTyped`); there are no more bars than rows (`ChartTyped`); every request of the
console, of the ZeroLoss panel and of the search is of a form that the page makes (`Asked`, `PollOk`,
`SwitchOk`, `SentSearches`); the hooks mounted and those that were unmounted with a socket on its way
are at most the moves made (`SocketTyped`); and the users in the store,
in `localStorage` and in the dialog have a profile the server can give
(`SessionTyped`).

Only model-checked in the browser is all
liveness (`ChartAlwaysFills`, `ListGetsPriced`, `BusyEnds`, `FeedRecovers`,
`ViewsCatchUp`).

## 8. Where code and documents disagree

Shown by a run (`findings` in `PROJECT.json`): a status that is not final; a fill
that is lost when its handler fails; a short that the kill switch and the
square-off leave open; a purchase that is not paid for when another one read
the same cash; a futures order that is too old and never expires.

Seen while modelling, and part of the model without a run of their own:

* An inline fill can be announced, with the old portfolio, before it is committed
  (`trading_engine.py` 246).
* After a holding is sold out on arrival its row stays with quantity 0.  The next
  purchase on arrival fails on the unique index (`InsertsTwice`), and the row's
  last values are still summed, so cash differs from equity with nothing held,
  against `portfolio_service.py` 38 (`Recalculated`).
* `reset_account` deletes orders before the transactions that refer to them, which
  Postgres refuses once the worker, the kill switch or the square-off has booked
  a fill (`ResetAccount`).
* A limit purchase that exactly covers a short is a division by zero in
  `portfolio_worker.py` 224, and the fill is lost (`DividesByZero`).
* Two first fills of a futures contract insert two positions; from then on its
  market orders fail and its sweep fills do not move a position
  (`futures_trading_service.py` 229, `futures_order_worker.py` 256).
* The limit of exposure is 95 percent (`risk_engine.py` 38).  `README.md` 624 says "80% | Always
  keep 20% cash reserve" and `ARCHITECTURE.md` 687 "Max (invested / total capital) | 80%", and
  `RISK_MAX_PORTFOLIO_EXPOSURE = 0.80` (`config/settings.py` 75) is read by nobody.  After a short
  larger than the cash there is no limit at all (`ExposureAllows`, section 4), against
  `risk_engine.py` 168: "Reject if total portfolio exposure would exceed limit."
* An order on arrival drops the copies of the portfolio "so the next API fetch is fresh"
  (`trading_engine.py` 509) before it is committed: a read in between keeps the positions of
  before it, and answers with them for up to 3 s (`TradeBooked`).
* Futures: margin is returned at the exit price, also for the part of an order
  that turns a position, and for one that reopens a closed row (277); realised
  profit has the opposite sign, for longs and shorts (254); the sweep
  realises nothing when it closes a position (`futures_order_worker.py` 237); a
  stop-limit without a limit never fills (150).
* Every futures request that succeeds is answered with an error, because `emit()`
  raises after the commit (`futures_trading_service.py` 154, 185, 322).

In the browser, shown by a run: a profile that a late synchronisation stores
after a logout or for another account.  Seen while modelling:

* Session: after a Google popup is closed `auth_intent` stays `register`
  (`useAuthStore.js` 169, 178); a forced logout leaves the admin's token in
  `sessionStorage` (`api.js` 82-89); the retry after a 401 has no limit (66-68).
* Administration: a change of the filter runs the whole bootstrap again
  (`AdminPanelPage.jsx` 541); details and rows of an earlier choice may land last
  (473, 501).
* Feed: two hooks write one status; the subscription of the commodities page is
  lost at a reconnect.
* Portfolio: a poll sent while the feed was down is applied over a newer tick in the
  holdings, which the check at `useLivePortfolio.js` 33 is there to prevent
  (`PollAnswered`); the totals of the server add shorts, those of a tick subtract them
  (`portfolio_service.py` 206, `usePortfolioStore.js` 133), so with a short they jump at
  every refresh and tick.
* Chart: with a fresh cache the candles of another interval may be shown
  (`useMarketData.js` 154; the symbol is right); attempts end after 8 s while requests
  pause for 30 s (163); the RSI pane is a tick late (`ZebuLiveChart.jsx` 698-727);
  the ATR line throws with few candles (`atr.js` 19-25); TEMA is misaligned
  (`tema.js` 22).
* Strategies: when none is enabled the engine runs all (`strategyEngine.js` 47-50);
  the badge keeps the verdict of a dock that was closed (`StrategyDock.jsx` 236-241).
* Watchlists: `toast.info` does not exist, so adding a duplicate throws (373); a
  successful deletion stores the lists of before (347); a row that has not been
  saved cannot be removed (461); the server deletes a user's list named like a
  legacy default (`routes/watchlist.py` 203).
* Orders: the trigger and limit price typed for a former symbol are sent for the
  next (`OrderPanel.jsx` 90-98); the "Yes" of a cancellation stays for an order
  that was filled meanwhile (`OrdersPage.jsx` 1004-1015); the list is cut at 100
  orders, so the derived profit is wrong beyond (`routes/orders.py` 103).
* A saved strategy closes the dialog of another one; the notice of an order is
  shown only when the bar first sees it (`Navbar.jsx` 165-205), and "Market Opened"
  at every load in trading hours (136-250); the ZeroLoss chip on the trading page
  never polls (`ChartHeader.jsx` 38-43).
* Futures page: positions read fields the server does not send (about 511); a
  limit order without a price sends 0 (69).
* Options page: a late answer asked without an expiry may choose one that the
  present underlying lacks (106, 129-134); the strike of a former underlying can
  be ordered until the new chain lands (156-167, 195-226); the refresh of each
  minute resets the form (156-167); the CE/PE button keeps the premium of the
  other (247); `orderData.orderType` is undefined, so paper orders stay PENDING
  (`useOptionsStore.js` 17-60); ids restart at 1, so a close may remove two
  positions (4-5, 79-84).
* Settings: any change of the store's user resets what is being typed
  (`SettingsPage.jsx` 631-643); a failed upload restores the photo captured before
  another upload succeeded (246); overlapping requests for capital leave the
  former amount shown until the next read (407-447).

## 9. Not modelled

Each component that is left out is listed in `PROJECT.json` with the reason; in
short:

* **Unreachable code**: `RegisterPage.jsx`, `TradingModeSelectPage.jsx`,
  `TradingTerminalPage.jsx`, `DashboardPage.jsx`, `FuturesPage.tsx`,
  `useFuturesWebSocket.ts`, `hooks/useSearch.js`, `check_pending_orders`.
* **Views without state of their own**: portfolio, market, commodities and dashboard
  pages, side bar, styles.
* **Rest of settings**: theme and notice preferences in `localStorage`, the list of
  sessions, password mail.  **Rest of the broker pages**: login dialog and callback,
  whose outcome is in `BrowserSession`.
* **ZeroLoss controller beyond what its page sees, and the algo worker**: scores,
  trailing stops and signals are floating-point statistics over live candles.  Two
  of their hazards remain for a later model together with the ledger: the
  controller drops a position from memory although the forced close failed
  (`controller.py` 1116), and a forced close and the monitor may close one position
  twice (178).
* **Broker sessions, token encryption, parsing of external feeds**: their behaviour
  is that of services the repository does not describe.
* **Rate limiter and the other caches**: what they refuse, or serve late, is the failed
  request and the late answer that the clients are modelled with.  The two caches of the
  portfolio are in `LiveQuotes`.
* **Email, schema creation, logging**: input and output.
