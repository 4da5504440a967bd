------------------------------ MODULE PriceChart ------------------------------
(***************************************************************************)
(* The price chart (ZebuLiveChart.jsx): the candles it is handed, the bars it *)
(* draws from them, the live price that moves the last bar, and the lines of   *)
(* the indicators. React runs the effects of one commit in the order of their *)
(* declaration: pane of the RSI, bars, live price, lines.                     *)
(***************************************************************************)
EXTENDS Indicators, SequencesExt

CONSTANTS Symbols,     \* what the chart may be asked to show
          Shapes,      \* the candles a history may hold, without their time
          Histories,   \* what the first answer for a symbol may be
          LivePrices,  \* prices the live feed may bring
          Span,        \* the period of the indicators (9 to 200 in the code)
          AtrSpan,     \* the one of the ATR line (14)
          MaxRows      \* bound: the rows of a history

VARIABLES chartSymbol, \* the symbol in the props
          history,     \* candles in the props: the rows of the server, in order
          chartBars,   \* candlesRef: the bars that are drawn
          active,      \* activeIndicators
          drawn,       \* the lines of the indicators, by name
          rsiPane,     \* the line in the pane of the RSI
          livePrice,   \* the live quote the chart may use; 0: none, or an old one
          crashed      \* an effect threw: the boundary shows its message instead

chartVars == <<chartSymbol, history, chartBars, active, drawn, rsiPane, livePrice,
               crashed>>

Candles == [open : Nat, high : Nat, low : Nat, close : Nat, volume : Nat]
CandleRows == [time : Nat, bar : Candles]

\* useMarketData.js:80 sorts what it hands on.
InOrderOfTime(rows) == \A i, j \in DOMAIN rows : i <= j => rows[i].time <= rows[j].time

ASSUME ChartAssumption ==
  /\ Shapes \subseteq Candles /\ Histories \subseteq Seq(CandleRows)
  /\ \A rows \in Histories : InOrderOfTime(rows)
  /\ LivePrices \subseteq Nat \ {0} /\ {Span, AtrSpan} \subseteq Nat \ {0}

Ids == {"price", "atr14", "rsi14"}   \* "price": every indicator but these two
-----------------------------------------------------------------------------
(* From the rows of the server to the bars *)

High(c) == Max({c.open, c.high, c.low, c.close})
Low(c) == Min({c.open, c.high, c.low, c.close})

\* Rows without a price, and wicks beyond six times the middle, are dropped.
Usable(c) ==
  /\ \A p \in {c.open, c.high, c.low, c.close} : p > 0
  /\ 2 * High(c) <= 6 * (c.open + c.close)
  /\ 12 * Low(c) >= c.open + c.close

\* The last usable row of a time counts.
NormalizedAsGiven(rows) ==
  LET good == {k \in 1 .. Len(rows) : Usable(rows[k].bar)}
      times == {rows[k].time : k \in good}
      Latest(t) == rows[Max({k \in good : rows[k].time = t})].bar
  IN [i \in 1 .. Cardinality(times) |->
        Latest(CHOOSE t \in times : Cardinality({u \in times : u <= t}) = i)]

\* The high and the low of a bar span its prices.
NormalizeChartCandles(rows) ==
  LET bars == NormalizedAsGiven(rows)
  IN [i \in DOMAIN bars |-> [bars[i] EXCEPT !.high = High(bars[i]), !.low = Low(bars[i])]]
-----------------------------------------------------------------------------
(* The lines *)

Line(f) == [line |-> f]

\* A line of two colours: each colour has some of its bars.
Colours(f) ==
  [up   |-> [i \in {j \in DOMAIN f : f[j].long} |-> f[i].value],
   down |-> [i \in {j \in DOMAIN f : ~f[j].long} |-> f[i].value]]

\* The lines of each indicator.
ComputeIndicatorData(cs) ==
  LET d == Closes(cs)
  IN [ema |-> Line(Ema(d, Span)), sma |-> Line(Sma(d, Span)), wma |-> Line(Wma(d, Span)),
      hma |-> Line(Hma(d, Span + 1)), dema |-> Line(Dema(d, Span)), tema |-> Line(Tema(d, Span)),
      vwap |-> Line(Vwap(cs)),
      bb |-> BollingerBands(d, Span, 2), keltner |-> KeltnerChannels(cs, Span),
      donchian |-> DonchianChannels(cs, Span), envelope |-> Envelope(d, Span, 25),
      supertrend |-> Colours(Supertrend(cs, Span, 3)), psar |-> Colours(Psar(cs)),
      ichimoku |-> Ichimoku(cs, Span - 1, Span, Span + 1),
      pivots |-> Restrict(PivotPoints(cs), {"pp", "r1", "r2", "s1", "s2"}),
      macd |-> Restrict(Macd(d, Span, Span + 1, 2), {"macd", "signal"}),
      stoch |-> Stochastic(cs, Span, 2, 2), cci |-> Line(Cci(cs, Span)),
      willr |-> Line(WilliamsR(cs, Span)), roc |-> Line(Roc(d, Span)), aroon |-> Aroon(cs, Span),
      adx |-> Adx(cs, Span), stddev |-> Line(StdDev(d, Span)),
      obv |-> Line(Obv(cs)), mfi |-> Line(Mfi(cs, Span)), cmf |-> Line(Cmf(cs, Span))]

\* atr() answers one value for each of its period's bars: with fewer candles it
\* is longer than they are, and the line reads the time of a candle that is not.
AtrThrows(cs) == Len(cs) \in 2 .. AtrSpan - 1

\* The pane of the RSI, between 0 and 100; without bars it is left as it is.
RsiPane(cs) == IF "rsi14" \in active /\ cs # << >> THEN Rsi(Closes(cs), Span) ELSE rsiPane

\* The effect of the lines: without bars, those drawn before stay.
DrawLines(ids, cs) ==
  IF cs = << >> THEN UNCHANGED <<drawn, crashed>>
  ELSE /\ crashed' = ("atr14" \in ids /\ AtrThrows(cs))
       /\ \E prices \in {IF "price" \in ids THEN ComputeIndicatorData(cs) ELSE << >>} :
            LET atr == {"atr14"} \cap IF AtrThrows(cs) THEN {} ELSE ids
            IN drawn' = [id \in DOMAIN prices \cup atr |->
                           IF id \in atr THEN Line(Atr(cs, AtrSpan)) ELSE prices[id]]

\* The live price becomes the close of the last bar; a jump is another symbol's.
Moved(cs, p) ==
  LET n == Len(cs)  c == cs[n]
      near == p # 0 /\ 100 * Abs(p - c.close) <= 35 * c.close
  IN IF n = 0 \/ ~near THEN cs
     ELSE [cs EXCEPT ![n] = [c EXCEPT !.close = p, !.high = Max({@, p}), !.low = Min({@, p})]]

\* The effects of a commit with new candles.
Show(rows, p) ==
  /\ history' = rows
  /\ chartBars' = Moved(NormalizeChartCandles(rows), p)
  /\ DrawLines(active, chartBars')
-----------------------------------------------------------------------------
(* What happens to the chart *)

ChartInit ==
  /\ chartSymbol \in Symbols
  /\ history = << >> /\ chartBars = << >>
  /\ active = {} /\ drawn = << >> /\ rsiPane = << >>
  /\ livePrice = 0 /\ crashed = FALSE

\* useMarketData answers: a history of the symbol, or one more row, of the
\* current time or of the next; or none, after its retries.
Answers ==
  Histories \cup {<< >>} \cup
  IF history = << >> \/ Len(history) >= MaxRows THEN {}
  ELSE LET now == history[Len(history)].time
       IN {Append(history, row) : row \in [time : {now, now + 1}, bar : Shapes]}

CandlesArrive ==
  /\ \E rows \in Answers : Show(rows, livePrice)
  /\ rsiPane' = RsiPane(chartBars)
  /\ UNCHANGED <<chartSymbol, active, livePrice>>

\* The RSI is drawn before the bar has moved.
LiveTick ==
  /\ livePrice' \in LivePrices
  /\ chartBars' = Moved(chartBars, livePrice')
  /\ rsiPane' = RsiPane(chartBars)
  /\ UNCHANGED <<chartSymbol, history, active, drawn, crashed>>

\* The socket drops, 90 seconds pass without a quote, or a poll answers.
FeedFades ==
  /\ livePrice # 0 /\ livePrice' = 0
  /\ rsiPane' \in {rsiPane, RsiPane(chartBars)}
  /\ UNCHANGED <<chartSymbol, history, chartBars, active, drawn, crashed>>

ToggleIndicator ==
  /\ \E id \in Ids :
       LET next == IF id \in active THEN active \ {id} ELSE active \cup {id}
       IN /\ active' = next
          /\ DrawLines(next, chartBars)
          /\ rsiPane' = IF id # "rsi14" THEN rsiPane
                        ELSE IF id \in next /\ chartBars # << >>
                        THEN Rsi(Closes(chartBars), Span) ELSE << >>
  /\ UNCHANGED <<chartSymbol, history, chartBars, livePrice>>

\* The chart is created anew, and drawn from the candles: the live price is lost.
ThemeChanges ==
  /\ chartBars' = NormalizeChartCandles(history)
  /\ IF chartBars' = << >> THEN drawn' = << >> /\ UNCHANGED crashed
     ELSE DrawLines(active, chartBars')
  /\ rsiPane' = IF chartBars = << >> THEN << >> ELSE RsiPane(chartBars)
  /\ UNCHANGED <<chartSymbol, history, active, livePrice>>

\* The chart is mounted anew for each symbol: no indicator is active. The bars
\* of its first candles, the former symbol's, are cleared in the same commit.
Mounted == active' = {} /\ drawn' = << >> /\ rsiPane' = << >>

SymbolChanges ==
  /\ \E s \in Symbols \ {chartSymbol} : chartSymbol' = s
  /\ livePrice' \in LivePrices \cup {0}
  /\ \E rows \in Histories \cup {<< >>} :
       /\ history' = rows
       /\ chartBars' = IF crashed THEN << >> ELSE Moved(NormalizeChartCandles(rows), livePrice')
  /\ Mounted /\ UNCHANGED crashed

\* The boundary around the chart shows its message, whatever the symbol, until
\* the user tries again: the chart is mounted, and cleared as for a new symbol,
\* but the candles are those it had, so that nothing draws them.
TryAgain ==
  /\ crashed' = FALSE
  /\ Mounted /\ chartBars' = << >>
  /\ UNCHANGED <<chartSymbol, history, livePrice>>

ChartNext ==
  \/ SymbolChanges
  \/ ~crashed /\ (CandlesArrive \/ LiveTick \/ FeedFades \/ ToggleIndicator \/ ThemeChanges)
  \/ crashed /\ TryAgain

ChartSpec == ChartInit /\ [][ChartNext]_chartVars
-----------------------------------------------------------------------------
(* Correctness *)

ChartTypeOK ==
  /\ chartSymbol \in Symbols /\ active \subseteq Ids /\ crashed \in BOOLEAN
  /\ DOMAIN rsiPane \subseteq Nat
  /\ Len(chartBars) <= Len(history)

Among(f, a, b) == \A i \in DOMAIN f : a <= f[i] /\ f[i] <= b
Ordered(lower, upper) == \A i \in DOMAIN lower \cap DOMAIN upper : lower[i] <= upper[i]

LinesInBounds(lines) ==
  /\ \A id \in {"stoch", "mfi", "adx", "aroon"} : \A line \in DOMAIN lines[id] :
       Among(lines[id][line], 0, 100)
  /\ Among(lines.willr.line, -100, 0) /\ Among(lines.cmf.line, -100, 100)
  /\ \A b \in {lines.bb, lines.keltner, lines.donchian, lines.envelope} :
       Ordered(b.lower, b.middle) /\ Ordered(b.middle, b.upper)
  /\ LET v == lines.pivots
     IN Ordered(v.s2, v.s1) /\ Ordered(v.s1, v.pp) /\ Ordered(v.pp, v.r1) /\ Ordered(v.r1, v.r2)

\* Whatever rows the server sends, the oscillators stay on their scales and the
\* channels around their middle (ZebuLiveChart.jsx:92-93 repairs the bars that the
\* indicators rely on).
IndicatorsInBounds ==
  /\ Among(rsiPane, 0, 100)
  /\ "ema" \in DOMAIN drawn => LinesInBounds(drawn)

\* The bars that are over: all but the last, which the live price moves. Of two
\* bars neither is: the SAR takes its side from the second.
Over == IF Len(chartBars) > 2 THEN 1 .. Len(chartBars) - 1 ELSE {}

\* No line repaints: a new candle, a live price, a change of the theme or of the
\* indicators leaves what was drawn at the bars that are over as it was.
NoRepaint ==
  [][(history # << >> /\ IsPrefix(history, history') /\ chartSymbol' = chartSymbol) =>
       \A id \in DOMAIN drawn \cap DOMAIN drawn' : \A line \in DOMAIN drawn[id] :
         \A i \in Over :
           /\ i \in DOMAIN drawn[id][line] <=> i \in DOMAIN drawn'[id][line]
           /\ i \in DOMAIN drawn[id][line] => drawn'[id][line][i] = drawn[id][line][i]]_chartVars
=============================================================================
