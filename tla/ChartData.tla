------------------------------- MODULE ChartData -------------------------------
(***************************************************************************)
(* The candles of the trading workspace (hooks/useMarketData.js): one request   *)
(* at a time, a retry timer, a cache shared by the symbols, and the pause of  *)
(* all requests after a 429 (services/api.js).                               *)
(***************************************************************************)
EXTENDS Integers, FiniteSets

CONSTANTS Charted,     \* the symbols the user looks at
          Periods,     \* the periods of the chart (CHART_PERIODS)
          NoCandles,
          MaxSelections \* bound: changes of the symbol or the period

ASSUME DataAssumption == MaxSelections \in Nat

VARIABLES selected,    \* selectedSymbol and chartPeriod, as a key of the cache
          candles,     \* the key the candles in the state were fetched for
          chartLoading, chartError,
          cache,       \* _candleCache: per key, with the age of what it holds
          request,     \* the request abortRef would abort
          retry,       \* candleRetryRef: the attempt the timer will make
          rateLimited, \* isRateLimited()
          quoteFails,  \* failCountRef
          sessionOpen, \* isMarketTrading
          gaveUp,      \* the attempts of the last fetch are over
          selections

dataVars == <<selected, candles, chartLoading, chartError, cache, request, retry,
              rateLimited, quoteFails, sessionOpen, gaveUp, selections>>

MaxCandleRetries == 3
CacheKeys == [symbol : Charted, period : Periods]
Ages == {"none", "stale", "fresh"}
Attempts == [key : CacheKeys, attempt : 0 .. MaxCandleRetries + 1]
NoTimer == [key |-> NoCandles, attempt |-> 0]

DataInit ==
  /\ selected \in CacheKeys
  /\ candles = NoCandles /\ chartLoading = TRUE /\ chartError = FALSE
  /\ cache = [k \in CacheKeys |-> "none"]
  /\ request = [key |-> selected, attempt |-> 0] /\ retry = NoTimer
  /\ rateLimited = FALSE /\ quoteFails = 0 /\ sessionOpen = TRUE
  /\ gaveUp = FALSE /\ selections = 0
-----------------------------------------------------------------------------
(* fetchCandles: key k and its attempt, where the state has candles c, the     *)
(* spinner s, the request req and the timer                                    *)

Skips(k, attempt) == attempt = 0 /\ cache[k] = "fresh"
Shown(k, attempt, c) == IF attempt = 0 /\ cache[k] # "none" THEN k ELSE c

\* The abort of a request of the same symbol ends the spinner, the new one's too.
Spins(k, attempt, req) ==
  attempt = 0 /\ cache[k] = "none" /\ (req = NoTimer \/ req.key.symbol # k.symbol)

FetchCandles(k, attempt, c, s, req, timer) ==
  /\ candles' = Shown(k, attempt, c)
  /\ \/ /\ Skips(k, attempt)
        /\ chartLoading' = FALSE /\ gaveUp' = FALSE
        /\ request' = req /\ retry' = timer
     \/ /\ ~Skips(k, attempt) /\ rateLimited /\ attempt <= MaxCandleRetries
        /\ chartLoading' = (s /\ (attempt > 0 \/ cache[k] = "none")) /\ gaveUp' = FALSE
        /\ request' = req /\ retry' = [key |-> k, attempt |-> attempt + 1]
     \/ /\ rateLimited /\ attempt > MaxCandleRetries
        /\ chartLoading' = FALSE /\ gaveUp' = TRUE
        /\ request' = req /\ retry' = timer
     \/ /\ ~Skips(k, attempt) /\ ~rateLimited
        /\ chartLoading' = Spins(k, attempt, req) /\ gaveUp' = FALSE
        /\ request' = [key |-> k, attempt |-> attempt] /\ retry' = timer

\* getLatestCachedCandlesForSymbol; the order of two ages that are alike is not
\* kept.
Cached(keys) ==
  LET of(age) == {k \in keys : cache[k] = age}
  IN IF of("fresh") # {} THEN of("fresh")
     ELSE IF of("stale") # {} THEN of("stale") ELSE {NoCandles}

Latest(symbol) == Cached({k \in CacheKeys : k.symbol = symbol})

\* The former symbol's request is aborted and its timer stopped; what the cache
\* has of the new symbol is shown, and the candles of the period are fetched.
ChangeKeepsCandles(symbol) ==
  LET k == [selected EXCEPT !.symbol = symbol]
  IN selected' = k /\ FetchCandles(k, 0, candles, TRUE, NoTimer, NoTimer)
ChangeKeepsTimer(symbol) ==
  LET k == [selected EXCEPT !.symbol = symbol]
  IN /\ selected' = k
     /\ \E c \in Latest(symbol) : FetchCandles(k, 0, c, c = NoCandles, NoTimer, retry)

ChangeTo(symbol) ==
  LET k == [selected EXCEPT !.symbol = symbol]
  IN /\ selected' = k
     /\ \E c \in Latest(symbol) : FetchCandles(k, 0, c, c = NoCandles, NoTimer, NoTimer)

SelectSymbol ==
  /\ selections < MaxSelections /\ selections' = selections + 1
  /\ \E symbol \in Charted \ {selected.symbol} : ChangeTo(symbol)
  /\ chartError' = FALSE
  /\ UNCHANGED <<cache, rateLimited, quoteFails, sessionOpen>>

\* The candles and the timer of the former period stay.
SelectPeriod ==
  /\ selections < MaxSelections /\ selections' = selections + 1
  /\ \E p \in Periods \ {selected.period} :
       /\ selected' = [selected EXCEPT !.period = p]
       /\ FetchCandles(selected', 0, candles, chartLoading, request, retry)
  /\ UNCHANGED <<cache, rateLimited, quoteFails, sessionOpen, chartError>>

RetryFires ==
  /\ retry # NoTimer
  /\ FetchCandles(retry.key, retry.attempt, candles, chartLoading, request, NoTimer)
  /\ UNCHANGED <<selected, chartError, cache, rateLimited, quoteFails, sessionOpen, selections>>
-----------------------------------------------------------------------------
(* What the server answers *)

\* An answer counts while its symbol is the current one.
Current == request # NoTimer /\ request.key.symbol = selected.symbol

CandlesAnswered ==
  /\ request # NoTimer /\ request' = NoTimer
  /\ IF Current
     THEN /\ candles' = request.key /\ cache' = [cache EXCEPT ![request.key] = "fresh"]
          /\ retry' = NoTimer /\ chartLoading' = FALSE
     ELSE UNCHANGED <<candles, cache, retry, chartLoading>>
  /\ UNCHANGED <<selected, chartError, rateLimited, quoteFails, sessionOpen, gaveUp, selections>>

\* A 429 pauses the requests; whatever the error, three more attempts follow.
CandlesFail ==
  /\ request # NoTimer /\ request' = NoTimer
  /\ rateLimited' \in {rateLimited, TRUE}
  /\ IF ~Current THEN UNCHANGED <<candles, chartLoading, chartError, gaveUp, retry>>
     ELSE IF request.attempt < MaxCandleRetries
     THEN /\ retry' = [request EXCEPT !.attempt = @ + 1]
          /\ UNCHANGED <<candles, chartLoading, chartError, gaveUp>>
     ELSE /\ candles' = NoCandles /\ chartLoading' = FALSE
          /\ chartError' = TRUE /\ gaveUp' = TRUE /\ UNCHANGED retry
  /\ UNCHANGED <<selected, cache, quoteFails, sessionOpen, selections>>

\* The quote of a poll; the third failure in a row counts as an error.
PollQuote ==
  /\ sessionOpen /\ ~rateLimited
  /\ \/ quoteFails' = 0 /\ chartError' = FALSE
     \/ /\ quoteFails' = IF quoteFails < 3 THEN quoteFails + 1 ELSE 3
        /\ chartError' = (chartError \/ quoteFails' = 3)
  /\ UNCHANGED <<selected, candles, chartLoading, cache, request, retry, rateLimited,
                 sessionOpen, gaveUp, selections>>

RefreshMarketSession ==
  /\ sessionOpen' = ~sessionOpen
  /\ UNCHANGED <<selected, candles, chartLoading, chartError, cache, request, retry,
                 rateLimited, quoteFails, gaveUp, selections>>

\* The pause of a 429 ends: after 30 seconds if the server names no time, when
\* the attempts of a fetch have been over for 20.
PauseEnds ==
  /\ rateLimited /\ rateLimited' = FALSE
  /\ UNCHANGED <<selected, candles, chartLoading, chartError, cache, request, retry,
                 quoteFails, sessionOpen, gaveUp, selections>>

CacheAges ==
  /\ \E k \in CacheKeys : cache[k] = "fresh" /\ cache' = [cache EXCEPT ![k] = "stale"]
  /\ UNCHANGED <<selected, candles, chartLoading, chartError, request, retry, rateLimited,
                 quoteFails, sessionOpen, gaveUp, selections>>

DataMoves == CandlesAnswered \/ CandlesFail \/ RetryFires

DataNext ==
  \/ DataMoves \/ SelectSymbol \/ SelectPeriod
  \/ PollQuote \/ RefreshMarketSession \/ PauseEnds \/ CacheAges

\* Requests end, one way or the other, and timers fire.
DataSpec == DataInit /\ [][DataNext]_dataVars /\ WF_dataVars(DataMoves)
-----------------------------------------------------------------------------
(* Correctness *)

DataTypeOK ==
  /\ selected \in CacheKeys /\ candles \in CacheKeys \cup {NoCandles}
  /\ chartLoading \in BOOLEAN /\ chartError \in BOOLEAN
  /\ cache \in [CacheKeys -> Ages]
  /\ request \in Attempts \cup {NoTimer} /\ retry \in Attempts \cup {NoTimer}
  /\ rateLimited \in BOOLEAN /\ quoteFails \in 0 .. 3 /\ sessionOpen \in BOOLEAN
  /\ gaveUp \in BOOLEAN /\ selections \in 0 .. MaxSelections

\* The chart never shows the candles of another symbol, whatever is answered
\* late, retried or cached (useMarketData.js:49, 199).
CandlesAreOfSymbol == candles # NoCandles => candles.symbol = selected.symbol

\* A symbol is not left with an empty chart before its attempts are over: they
\* are by the fourth failure, or when the limiter outlasts them (they end after
\* 8 seconds, useMarketData.js:163-175, and a pause after 30, api.js:48).
Filled == candles # NoCandles \/ gaveUp
ChartFills == []<>Filled
=============================================================================
