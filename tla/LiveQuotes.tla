------------------------------ MODULE LiveQuotes ------------------------------
(***************************************************************************)
(* Quotes and holdings in the browser: ticks of the feed                     *)
(* (hooks/useWebSocket.js), the fallback poll and the periodic refresh       *)
(* (hooks/useLivePortfolio.js), the market store and the portfolio store      *)
(* they write, and the backend's short-lived copies of the portfolio that     *)
(* answer a refresh (cache/smart_cache.py). A request is answered at any      *)
(* later time.                                                               *)
(***************************************************************************)
EXTENDS Integers, FiniteSets

CONSTANTS
  Companies,  \* what may be held
  DualListed, \* those quoted on both exchanges
  Marks,      \* prices
  MaxTicks,   \* bound: ticks, trades and requests
  MaxWaiting  \* bound: requests of a kind that wait at once

ASSUME QuotesInNat ==
  /\ Marks \subseteq Nat \ {0} /\ Marks # {} /\ MaxTicks \in Nat
  /\ IsFiniteSet(Companies) /\ Companies # {} /\ DualListed \subseteq Companies

VARIABLES
  quotes,     \* useMarketStore.symbols
  feedUp,     \* wsStatus is "connected"
  trading,    \* isMarketTradingRef
  owned,      \* the backend's holdings, as committed: quantities
  booking,    \* a trade place_order() has booked and not yet committed
  copies,     \* portfolio_cache and holdings_cache of this user: quantities
  holdings,   \* the store's: quantity and price
  totals,     \* the positions whose totals the store's summary shows
  polls,      \* price polls that wait: the prices they will bring
  refreshes,  \* refreshPortfolio() calls that wait: what they will bring
  ticks

backendVars == <<owned, booking, copies>>
quoteVars == <<quotes, feedUp, trading, owned, booking, copies, holdings, totals, polls,
               refreshes, ticks>>
-----------------------------------------------------------------------------
NoMark == 0
Quantities == {-1, 0, 1} \* no holding is quantity 0

Keys == [company : Companies, form : {"NS", "bare"}]
        \cup [company : DualListed, form : {"BO"}]

\* toSymbolAliases(): X and X.NS name each other; X.BO also names X.
Aliases(k) == {k, [k EXCEPT !.form = "bare"]} \cup
              (IF k.form = "bare" THEN {[k EXCEPT !.form = "NS"]} ELSE {})

NoEntry == [price |-> NoMark, live |-> FALSE, fresh |-> FALSE]
Entries == [price : Marks \cup {NoMark}, live : BOOLEAN, fresh : BOOLEAN]
Held == [quantity : Quantities, price : Marks]
Payloads == [Companies -> Held]

Positions == [Companies -> Quantities]
PositionsOf(hs) == [c \in Companies |-> hs[c].quantity]

NoTrade == [company |-> {}, quantity |-> 0]
Trades == [company : Companies, quantity : Quantities]

NoCopy == [c \in {} |-> 0]
Copied == Positions \cup {NoCopy}
NoCopies == [totals |-> NoCopy, holdings |-> NoCopy]

QuotesTypeOK ==
  /\ quotes \in [Keys -> Entries]
  /\ feedUp \in BOOLEAN /\ trading \in BOOLEAN
  /\ owned \in [Companies -> Quantities]
  /\ holdings \in Payloads
  /\ booking \in Trades \cup {NoTrade}
  /\ copies \in [totals : Copied, holdings : Copied]
  /\ totals \in Positions
  /\ \A p \in polls : DOMAIN p \subseteq Companies
  /\ refreshes \subseteq [totals : Positions, holdings : Copied]
  /\ ticks \in 0 .. MaxTicks

AnyMark == CHOOSE m \in Marks : TRUE

QuotesInit ==
  /\ quotes = [k \in Keys |-> NoEntry]
  /\ feedUp = FALSE
  /\ trading = TRUE
  /\ owned = [c \in Companies |-> 0]
  /\ holdings = [c \in Companies |-> [quantity |-> 0, price |-> AnyMark]]
  /\ totals = owned /\ booking = NoTrade /\ copies = NoCopies
  /\ polls = {} /\ refreshes = {}
  /\ ticks = 0
-----------------------------------------------------------------------------
(* The stores *)

Happens == ticks < MaxTicks /\ ticks' = ticks + 1

\* updateQuote(): a poll skips the keys that a tick moved less than 5 s ago; when
\* no price changes nothing is stamped either.
Protected(e, live) == ~live /\ e.live /\ e.fresh

UpdateQuote(k, m, live) ==
  LET keys == {a \in Aliases(k) \cap Keys : ~Protected(quotes[a], live)}
  IN quotes' = IF \A a \in keys : quotes[a].price = m THEN quotes
               ELSE [a \in Keys |-> IF a \in keys
                       THEN [price |-> m, live |-> live, fresh |-> TRUE] ELSE quotes[a]]

Repriced(marks) ==
  [c \in Companies |-> IF c \in DOMAIN marks /\ holdings[c].quantity # 0
                       THEN [holdings[c] EXCEPT !.price = marks[c]] ELSE holdings[c]]

\* applyLiveQuote(): the prices of the holdings, and the totals from all of them; when
\* no holding is one of these companies nothing is written.
ApplyLiveQuotes(marks) ==
  /\ holdings' = Repriced(marks)
  /\ totals' = IF \E c \in DOMAIN marks : holdings[c].quantity # 0
               THEN PositionsOf(holdings) ELSE totals
-----------------------------------------------------------------------------
(* Ticks *)

\* applyIncomingQuote(): dropped outside trading hours. Only a tick of X or X.NS
\* reaches the holding X.
Tick(k, m) ==
  /\ Happens /\ feedUp /\ trading
  /\ UpdateQuote(k, m, TRUE)
  /\ IF k.form = "BO" THEN UNCHANGED <<holdings, totals>>
     ELSE ApplyLiveQuotes([c \in {k.company} |-> m])
  /\ UNCHANGED <<feedUp, trading, backendVars, polls, refreshes>>

FiveSecondsPass ==
  /\ \E k \in Keys : quotes[k].fresh
  /\ quotes' = [k \in Keys |-> [quotes[k] EXCEPT !.fresh = FALSE]]
  /\ UNCHANGED <<feedUp, trading, backendVars, holdings, totals, polls, refreshes, ticks>>

\* The socket opens or breaks; GET /health says whether the market trades.
FeedChanges ==
  /\ Happens
  /\ \/ feedUp' = ~feedUp /\ UNCHANGED trading
     \/ trading' = ~trading /\ UNCHANGED feedUp
  /\ UNCHANGED <<quotes, backendVars, holdings, totals, polls, refreshes>>
-----------------------------------------------------------------------------
(* Polls *)

\* pollHoldingPrices(): every 5 s, unless the feed is up, nothing is held, or the
\* requests are rate limited.
StartPoll ==
  LET held == {c \in Companies : holdings[c].quantity # 0}
  IN /\ Happens /\ ~feedUp /\ held # {} /\ Cardinality(polls) < MaxWaiting
     /\ \E m \in [held -> Marks] : polls' = polls \cup {m}
     /\ UNCHANGED <<quotes, feedUp, trading, backendVars, holdings, totals, refreshes>>

\* The answer is applied whatever the feed has become; or the request failed.
PollAnswered(m) ==
  /\ polls' = polls \ {m}
  /\ \/ /\ LET touched == {k \in Keys : k.form # "BO" /\ k.company \in DOMAIN m}
               news == {k \in touched : ~Protected(quotes[k], FALSE)}
               moved == {k \in news : \E a \in news : a.company = k.company
                                           /\ quotes[a].price # m[k.company]}
           IN quotes' = [k \in Keys |-> IF k \in moved
                 THEN [price |-> m[k.company], live |-> FALSE, fresh |-> TRUE]
                 ELSE quotes[k]]
        /\ ApplyLiveQuotes(m)
     \/ UNCHANGED <<quotes, holdings, totals>>
  /\ UNCHANGED <<feedUp, trading, backendVars, refreshes, ticks>>
-----------------------------------------------------------------------------
(* The backend's portfolio *)

shopVars == <<quotes, feedUp, trading, holdings, totals, polls, refreshes>>

\* _update_portfolio_on_fill() drops both copies while its trade is not committed:
\* whoever asks before the commit reads, and keeps, the positions of before it.
TradeBooked(c, q) ==
  /\ Happens /\ booking = NoTrade /\ q # owned[c]
  /\ booking' = [company |-> c, quantity |-> q]
  /\ copies' = NoCopies
  /\ UNCHANGED <<owned, shopVars>>

\* get_db() commits when the request ends, or rolls back.
BookingEnds ==
  /\ booking # NoTrade /\ booking' = NoTrade
  /\ \/ owned' = [owned EXCEPT ![booking.company] = booking.quantity]
     \/ UNCHANGED owned
  /\ UNCHANGED <<copies, shopVars, ticks>>

\* The portfolio worker and the kill switch drop the copies after their commit.
TradeByWorker(c, q) ==
  /\ Happens /\ booking = NoTrade /\ q # owned[c]
  /\ owned' = [owned EXCEPT ![c] = q]
  /\ copies' = NoCopies
  /\ UNCHANGED <<booking, shopVars>>

\* A copy lives 3 s.
TotalsExpire ==
  /\ copies.totals # NoCopy /\ copies' = [copies EXCEPT !.totals = NoCopy]
  /\ UNCHANGED <<owned, booking, shopVars, ticks>>

HoldingsExpire ==
  /\ copies.holdings # NoCopy /\ copies' = [copies EXCEPT !.holdings = NoCopy]
  /\ UNCHANGED <<owned, booking, shopVars, ticks>>
-----------------------------------------------------------------------------
(* Refreshes *)

storeVars == <<quotes, feedUp, trading, owned, booking, polls>>

\* get_portfolio_summary(): the copy, or the portfolio, which it keeps.
ServeTotals ==
  LET served == IF copies.totals # NoCopy THEN copies.totals ELSE owned
  IN /\ copies' = [copies EXCEPT !.totals = served]
     /\ refreshes' = refreshes \cup {[totals |-> served, holdings |-> NoCopy]}

\* refreshPortfolio(): at mount, every 30 s, after an order event or a placed
\* order; calls may overlap.
StartRefresh ==
  /\ Cardinality(refreshes) < MaxWaiting
  /\ ServeTotals /\ refreshes' # refreshes
  /\ UNCHANGED <<storeVars, holdings, totals, ticks>>

\* get_holdings() of the same request: the copy, or the holdings, which it keeps.
HoldingsServed(r) ==
  LET served == IF copies.holdings # NoCopy THEN copies.holdings ELSE owned
  IN /\ r.holdings = NoCopy
     /\ copies' = [copies EXCEPT !.holdings = served]
     /\ refreshes' = (refreshes \ {r}) \cup {[r EXCEPT !.holdings = served]}
     /\ UNCHANGED <<storeVars, holdings, totals, ticks>>

\* The prices that come with it are of some earlier moment: any.
RefreshAnswered(r) ==
  /\ r.holdings # NoCopy
  /\ refreshes' = refreshes \ {r}
  /\ \E m \in [Companies -> Marks] :
       holdings' = [c \in Companies |-> [quantity |-> r.holdings[c], price |-> m[c]]]
  /\ totals' = r.totals
  /\ UNCHANGED <<storeVars, copies, ticks>>

\* The summary request fails: holdings and summary stay.
RefreshFails(r) ==
  /\ Happens
  /\ refreshes' = refreshes \ {r}
  /\ UNCHANGED <<storeVars, copies, holdings, totals>>
-----------------------------------------------------------------------------
HoldingsRead == \E r \in refreshes : HoldingsServed(r)
RefreshLands == \E r \in refreshes : RefreshAnswered(r)

QuotesNext ==
  \/ \E k \in Keys, m \in Marks : Tick(k, m)
  \/ FiveSecondsPass \/ FeedChanges \/ StartPoll
  \/ \E m \in polls : PollAnswered(m)
  \/ \E c \in Companies, q \in Quantities : TradeBooked(c, q) \/ TradeByWorker(c, q)
  \/ BookingEnds \/ TotalsExpire \/ HoldingsExpire
  \/ StartRefresh \/ HoldingsRead \/ RefreshLands
  \/ \E r \in refreshes : RefreshFails(r)

\* The interval starts refreshes for ever, each is answered, and no copy lives for ever.
QuotesSpec ==
  /\ QuotesInit /\ [][QuotesNext]_quoteVars
  /\ WF_quoteVars(StartRefresh) /\ WF_quoteVars(HoldingsRead)
  /\ WF_quoteVars(RefreshLands)
  /\ WF_quoteVars(TotalsExpire) /\ WF_quoteVars(HoldingsExpire)
-----------------------------------------------------------------------------
(* Properties *)

\* Answers of overlapping refreshes arrive in any order, the totals and the holdings of
\* one answer come from two copies, which may be older than a trade they were dropped for
\* (trading_engine.py:509), and ticks add up what is shown at the time
\* (usePortfolioStore.js:33-171): the shares shown, and those whose totals are shown,
\* become those the backend has, for good.
PortfolioShown == totals = owned /\ PositionsOf(holdings) = owned
PortfolioCatchesUp == <>[]PortfolioShown
=============================================================================
