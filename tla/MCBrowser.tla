------------------------------ MODULE MCBrowser ------------------------------
(***************************************************************************)
(* The components of the browser application, one behaviour of one of them   *)
(* at a time: they share no state that their models keep, so the states of    *)
(* the run are the sum of theirs.                                            *)
(***************************************************************************)
EXTENDS BrowserSession, AdminConsole, LiveSocket, LiveQuotes, PriceChart, ChartData, StrategyEngine,
        WatchlistSync, WatchlistPrices, OrderTicket, OrderLots, OrdersPage, AlgoStrategies,
        ZeroLossPanel, SymbolSearch, FuturesContracts, FuturesOrders, OptionsDesk, OptionsBook,
        ProfileForm, CapitalForm

Parts == {"session", "console", "socket", "quotes", "chart", "data", "engine",
          "lists", "prices", "ticket", "lots", "orders", "algo", "zero",
          "search", "contracts", "futures", "options", "book", "profile", "capital"}

VARIABLE part   \* the component that moves in this behaviour

MCProfiles ==
  [status : {"active"}, active : {"yes"}, role : {"user"}, phone : BOOLEAN]
  \cup {[status |-> "missing", active |-> "missing", role |-> "admin", phone |-> TRUE],
        [status |-> "active", active |-> "no", role |-> "user", phone |-> TRUE]}

\* Candles: with a rising and a falling close, a lonely one, rows of zeros and
\* rows whose close is outside their high and low.
C(o, h, l, c, v) == [open |-> o, high |-> h, low |-> l, close |-> c, volume |-> v]
Rows(s) == [i \in 1 .. Len(s) |-> [time |-> i, bar |-> s[i]]]
MCShapes == {C(100, 110, 95, 108, 2), C(108, 104, 107, 98, 1), C(100, 900, 90, 95, 1)}
MCHistories ==
  {Rows(<<C(100, 110, 95, 108, 2), C(108, 104, 107, 98, 1), C(98, 101, 92, 94, 0)>>),
   Rows(<<C(100, 110, 95, 108, 2), C(0, 0, 0, 0, 1), C(108, 104, 107, 98, 1),
          C(98, 101, 92, 94, 0), C(95, 99, 95, 99, 3), C(99, 120, 98, 118, 2)>>)}

\* Readings that pull the trend (t) and the momentum (u) to one side or apart, at
\* each zone of the RSI; and two of too few candles for some strategies.
Reading(t, u, r) ==
  [bars |-> 60, spread |-> t * 40, spreadBefore |-> t * 30, adx |-> IF t = 0 THEN 12 ELSE 32,
   rsi |-> r, vwap |-> u * 60, band |-> 50 + 45 * u, sma |-> t * 25, slope |-> u,
   ema |-> u * 15, macd |-> u, di |-> t, expands |-> u = t]
MCMarkets ==
  {Reading(t, u, r) : t \in -1 .. 1, u \in -1 .. 1,
     r \in {<<50, 51, 52>>, <<59, 58, 57>>, <<73, 71, 70>>, <<20, 24, 26>>}}
  \cup {[Reading(1, 0, <<29, 28, 27>>) EXCEPT !.bars = 26, !.spreadBefore = -2],
        [Reading(-1, 0, <<71, 72, 73>>) EXCEPT !.bars = 35, !.spreadBefore = 2, !.band = 95]}

MCDetails ==
  [o \in OrderIds |->
     IF o = CHOOSE x \in OrderIds : TRUE
     THEN [side |-> "BUY", product |-> "MIS", source |-> "algo", age |-> "today"]
     ELSE [side |-> "SELL", product |-> "CNC", source |-> "manual", age |-> "week"]]
View(tab, source, range, side, product) ==
  [tab |-> tab, source |-> source, range |-> range, side |-> side, product |-> product]
MCViews == {View("all", "all", "today", "all", "all"),
            View("pending", "manual", "week", "SELL", "CNC")}

\* One of the underlyings has no weekly expiry.
MCDates ==
  [u \in Underlyings |-> IF u = CHOOSE x \in Underlyings : TRUE THEN <<"week", "month">> ELSE <<"month">>]

\* Where a component that does not move has several initial states, it has one.
ConsoleStill == ~adminToken /\ ~hasTwoFactor /\ trueLevel = "root"
ChartStill == chartSymbol = CHOOSE x \in Symbols : TRUE
DataStill == selected = CHOOSE k \in CacheKeys : TRUE
ListsStill == shelves = <<>>
PricesStill == viewed = (CHOOSE t \in Tabs : TRUE) /\ contents = [t \in Tabs |-> {}]
PageStill == pageView = (CHOOSE v \in Views : TRUE) /\ realOrders = [o \in OrderIds |-> "absent"]
ZeroStill == zero = Off
SearchStill == box = "navbar"
SessionStill == \A w \in People \ Google : mail[w] = "none"

BrowserInit ==
  /\ part \in Parts
  /\ SessionInit /\ (part # "session" => SessionStill)
  /\ ConsoleInit /\ (part # "console" => ConsoleStill)
  /\ SocketInit
  /\ QuotesInit
  /\ ChartInit /\ (part # "chart" => ChartStill)
  /\ DataInit /\ (part # "data" => DataStill)
  /\ EngineInit
  /\ ListsInit /\ (part # "lists" => ListsStill)
  /\ PricesInit /\ (part # "prices" => PricesStill)
  /\ TicketInit /\ LotsInit
  /\ PageInit /\ (part # "orders" => PageStill)
  /\ AlgoInit
  /\ ZeroInit /\ (part # "zero" => ZeroStill)
  /\ SearchInit /\ (part # "search" => SearchStill)
  /\ ContractsInit /\ FutOrdersInit /\ OptionsInit /\ BookInit
  /\ ProfileInit /\ CapitalInit

BrowserNext ==
  /\ UNCHANGED part
  /\ IF part = "session" THEN SessionNext ELSE UNCHANGED sessionVars
  /\ IF part = "console" THEN ConsoleNext ELSE UNCHANGED consoleVars
  /\ IF part = "socket" THEN SocketNext ELSE UNCHANGED socketVars
  /\ IF part = "quotes" THEN QuotesNext ELSE UNCHANGED quoteVars
  /\ IF part = "chart" THEN ChartNext ELSE UNCHANGED chartVars
  /\ IF part = "data" THEN DataNext ELSE UNCHANGED dataVars
  /\ IF part = "engine" THEN EngineNext ELSE UNCHANGED engineVars
  /\ IF part = "lists" THEN ListsNext ELSE UNCHANGED listVars
  /\ IF part = "prices" THEN PricesNext ELSE UNCHANGED priceVars
  /\ IF part = "ticket" THEN TicketNext ELSE UNCHANGED ticketVars
  /\ IF part = "lots" THEN LotsNext ELSE UNCHANGED fills
  /\ IF part = "orders" THEN PageNext ELSE UNCHANGED pageVars
  /\ IF part = "algo" THEN AlgoNext ELSE UNCHANGED algoVars
  /\ IF part = "zero" THEN ZeroNext ELSE UNCHANGED zeroVars
  /\ IF part = "search" THEN SearchNext ELSE UNCHANGED searchVars
  /\ IF part = "contracts" THEN ContractsNext ELSE UNCHANGED contractVars
  /\ IF part = "futures" THEN FutOrdersNext ELSE UNCHANGED futOrderVars
  /\ IF part = "options" THEN OptionsNext ELSE UNCHANGED optionVars
  /\ IF part = "book" THEN BookNext ELSE UNCHANGED bookVars
  /\ IF part = "profile" THEN ProfileNext ELSE UNCHANGED profileVars
  /\ IF part = "capital" THEN CapitalNext ELSE UNCHANGED capitalVars

browserVars ==
  <<part, sessionVars, consoleVars, socketVars, quoteVars, chartVars, dataVars, engineVars,
    listVars, priceVars, ticketVars, fills, pageVars, algoVars, zeroVars, searchVars,
    contractVars, futOrderVars, optionVars, bookVars, profileVars, capitalVars>>

\* The fairness each component states, for the component that moves.
SessionFair ==
  /\ WF_sessionVars(part = "session" /\ Notice)
  /\ WF_sessionVars(part = "session" /\ notified = fbUser /\ Answer)
  /\ WF_sessionVars(part = "session" /\ notified = fbUser /\ Resume)

ConsoleFair == WF_consoleVars(part = "console" /\ Answered)

SocketFair == WF_socketVars(part = "socket" /\ Network)

QuotesFair ==
  /\ WF_quoteVars(part = "quotes" /\ StartRefresh)
  /\ WF_quoteVars(part = "quotes" /\ HoldingsRead)
  /\ WF_quoteVars(part = "quotes" /\ RefreshLands)
  /\ WF_quoteVars(part = "quotes" /\ TotalsExpire)
  /\ WF_quoteVars(part = "quotes" /\ HoldingsExpire)

DataFair == WF_dataVars(part = "data" /\ DataMoves)

PricesFair ==
  /\ WF_priceVars(part = "prices" /\ PollPrices)
  /\ WF_priceVars(part = "prices" /\ StageAnswered)
  /\ WF_priceVars(part = "prices" /\ BackoffEnds)

TicketFair == WF_ticketVars(part = "ticket" /\ OrderMoves)

AlgoFair == WF_algoVars(part = "algo" /\ AlgoServer)

ZeroFair ==
  /\ WF_zeroVars(part = "zero" /\ MonitorForgets)
  /\ WF_zeroVars(part = "zero" /\ SwitchServed)
  /\ WF_zeroVars(part = "zero" /\ SwitchAnswered)
  /\ WF_zeroVars(part = "zero" /\ FetchAll)
  /\ WF_zeroVars(part = "zero" /\ PollServed)
  /\ WF_zeroVars(part = "zero" /\ PollLands)
  /\ WF_zeroVars(part = "zero" /\ HandleWsMessage)

SearchFair == WF_searchVars(part = "search" /\ SearchMoves)

FuturesFair ==
  /\ WF_contractVars(part = "contracts" /\ Refetch)
  /\ WF_contractVars(part = "contracts" /\ FetchLands)
  /\ WF_futOrderVars(part = "futures" /\ PlaceMoves)
  /\ WF_futOrderVars(part = "futures" /\ CancelMoves)
  /\ WF_futOrderVars(part = "futures" /\ ReadMoves)

OptionsFair ==
  /\ WF_optionVars(part = "options" /\ RefreshChain)
  /\ WF_optionVars(part = "options" /\ ChainAnswered)

SettingsFair ==
  /\ WF_profileVars(part = "profile" /\ ProfileMoves)
  /\ WF_capitalVars(part = "capital" /\ CapitalAnswered)
  /\ WF_capitalVars(part = "capital" /\ Reload)

BrowserSpec ==
  /\ BrowserInit /\ [][BrowserNext]_browserVars
  /\ SessionFair /\ ConsoleFair /\ SocketFair /\ QuotesFair /\ DataFair
  /\ PricesFair /\ TicketFair /\ AlgoFair /\ ZeroFair /\ SearchFair /\ FuturesFair /\ OptionsFair
  /\ SettingsFair

BrowserTypeOK ==
  CASE part = "session" -> SessionTypeOK [] part = "console" -> ConsoleTypeOK
    [] part = "socket" -> SocketTypeOK [] part = "quotes" -> QuotesTypeOK
    [] part = "chart" -> ChartTypeOK [] part = "data" -> DataTypeOK
    [] part = "engine" -> EngineTypeOK [] part = "lists" -> ListsTypeOK
    [] part = "prices" -> PricesTypeOK [] part = "ticket" -> TicketTypeOK
    [] part = "lots" -> LotsTypeOK [] part = "orders" -> PageTypeOK
    [] part = "algo" -> AlgoTypeOK [] part = "zero" -> ZeroTypeOK
    [] part = "search" -> SearchTypeOK [] part = "contracts" -> ContractsTypeOK
    [] part = "futures" -> FutOrdersTypeOK [] part = "options" -> OptionsTypeOK
    [] part = "book" -> BookTypeOK [] part = "profile" -> ProfileTypeOK
    [] part = "capital" -> CapitalTypeOK

\* What shows that it is busy ends: the spinner of the application
\* (useAuthStore.js:121-163), that of the administration page
\* (AdminPanelPage.jsx:521-543), the button of an order (useOrders.js:192-244), the cards
\* of the strategies (AlgoTradingPage.jsx:188-196), the button of an order of futures
\* (FuturesPage.jsx:61-80) and those of the settings (SettingsPage.jsx:259-273, 412-447, 676-693).
Busy ==
  \/ part = "session" /\ initializing
  \/ part = "console" /\ bootstrapping
  \/ part = "ticket" /\ order # NoOrder
  \/ part = "algo" /\ cardsLoading
  \/ part = "futures" /\ placing
  \/ part = "profile" /\ (saving \/ uploading)
  \/ part = "capital" /\ (loadingMark # "" \/ resetting)
BusyEnds == []<>~Busy

\* What a page shows when its answers have come is of what is chosen on it: candles
\* of the symbol (useMarketData.js:193-263), the strategies of the server and the log of
\* the card (AlgoTradingPage.jsx:188-265), the stocks of the text that is sought
\* (Navbar.jsx:273-291), the user's own orders of futures (FuturesPage.jsx:61-80, 240-249), and their
\* own profile and capital in the settings (SettingsPage.jsx:204-273, 407-447).
AnswersBelong ==
  CandlesAreOfSymbol /\ CardsAreTheServers /\ SearchIsOfQuery /\ OwnOrdersShown
  /\ OwnProfileShown /\ CapitalShown

\* A view that is fed by events and refreshes comes to agree with the server for good: the
\* portfolio with the totals of its holdings (usePortfolioStore.js:33-171), the panel of ZeroLoss
\* while its page is open (useZeroLossStore.js:26-178), the contracts of the chosen symbol (FuturesPage.jsx:207-266), the rows and the form of the chosen options (OptionsPage.jsx:94-167).
ViewsCatchUp ==
  /\ <>[](part = "quotes" => PortfolioShown)
  /\ PanelCatchesUp
  /\ <>[](part = "contracts" => ContractsShown)
  /\ <>[](part = "options" => ChainShown)

\* What a page adds up from the user's trades is theirs: the profit it derives takes as many
\* shares bought as sold (OrdersPage.jsx:243-310), the positions in options hold the lots
\* ordered less those closed (useOptionsStore.js:33-84).
BooksAddUp == RealisedPairsShares /\ LotsHeld

\* The chart of a symbol fills, or its attempts end (useMarketData.js:139-235).
ChartAlwaysFills == []<>(part = "data" => Filled)
=============================================================================
