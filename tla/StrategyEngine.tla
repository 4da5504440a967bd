---------------------------- MODULE StrategyEngine ----------------------------
(***************************************************************************)
(* The strategies of the chart (strategy/), as functions of what the          *)
(* indicators read on the last candles, the engine that weighs them, and the  *)
(* store that hands its verdict from the dock to the badge on the chart.      *)
(* Percentages are in hundredths; a confidence is rounded as the code does.   *)
(***************************************************************************)
EXTENDS Integers, FiniteSets, Functions

CONSTANTS Markets,    \* what the indicators may read on the candles of a symbol
          NoMarket    \* no candles

\* Indicators now (and one candle before, where a strategy looks back); adx, rsi and
\* band are scales of a hundred, and rsi is of the last three candles.
MarketReadings ==
  [bars : Nat, spread : Int, spreadBefore : Int, adx : Int, rsi : [1 .. 3 -> Int],
   vwap : Int, band : Int, sma : Int, slope : Int, ema : Int, macd : Int, di : Int,
   expands : BOOLEAN]

ASSUME EngineAssumption == Markets \subseteq MarketReadings /\ NoMarket \notin Markets

VARIABLES market,     \* the candles in the props of the dock
          enabledMap, \* useStrategyStore: is a strategy enabled?
          stored,     \* localStorage: strategy_enabled
          engineOutput

engineVars == <<market, enabledMap, stored, engineOutput>>

Registry == {"ema-cross", "rsi-momentum", "vwap-bias", "golden-rsi", "trend-detector"}
Weight(id) == CASE id = "ema-cross" -> 25 [] id = "vwap-bias" -> 15 [] OTHER -> 20

Quotient(a, b) == (2 * a + b) \div (2 * b)   \* Math.round(a / b)
Size(x) == IF x < 0 THEN -x ELSE x
Least(a, b) == IF a < b THEN a ELSE b

Signal(s, c) == [signal |-> s, confidence |-> c]
Neutral == Signal("Neutral", 0)
Towards(x, c) == IF x > 0 THEN Signal("Bullish", c) ELSE Signal("Bearish", c)
-----------------------------------------------------------------------------
(* The registered strategies *)

\* EMA 9 against EMA 21, now and before, and the ADX.
EmaCross(m) ==
  LET wide == Size(m.spread) > 15
      crosses == \/ m.spreadBefore <= 0 /\ m.spread > 0
                 \/ m.spreadBefore >= 0 /\ m.spread < 0
  IN CASE m.bars < 30 -> Neutral
       [] m.bars >= 30 /\ crosses -> Towards(m.spread, IF m.adx > 20 THEN 88 ELSE 72)
       [] m.bars >= 30 /\ ~crosses /\ wide ->
            Towards(m.spread,
                    CASE m.adx > 30 -> Least(Quotient(6000 + 4 * Size(m.spread), 100), 82)
                      [] m.adx > 20 /\ m.adx <= 30 ->
                           Least(Quotient(5500 + 3 * Size(m.spread), 100), 72)
                      [] OTHER -> Least(Quotient(4500 + 2 * Size(m.spread), 100), 55))
       [] OTHER -> Neutral

Rising(r) == r[1] > r[2] /\ r[2] > r[3]
Falling(r) == r[1] < r[2] /\ r[2] < r[3]

\* At the extremes against the momentum, in between along with it.
RsiSignal(now, r, turnsUp) ==
  CASE now >= 75 -> Signal("Bearish", Least(70 + 2 * (now - 75), 92))
    [] now \in 70 .. 74 -> Signal("Bearish", IF Falling(r) THEN 72 ELSE 58)
    [] now \in 56 .. 69 -> Signal("Bullish", IF now > 58 /\ Rising(r) THEN 60 ELSE 45)
    [] now \in 45 .. 55 -> Neutral
    [] now \in 31 .. 44 -> Signal("Bearish", IF now < 42 /\ Falling(r) THEN 60 ELSE 45)
    [] now \in 26 .. 30 -> Signal("Bullish", IF turnsUp THEN 72 ELSE 58)
    [] now <= 25 -> Signal("Bullish", Least(70 + 2 * (25 - now), 92))

RsiMomentumFalling(m) ==
  IF m.bars < 20 THEN Neutral ELSE RsiSignal(m.rsi[1], m.rsi, Falling(m.rsi))
RsiMomentum(m) ==
  IF m.bars < 20 THEN Neutral ELSE RsiSignal(m.rsi[1], m.rsi, Rising(m.rsi))

\* The price against the VWAP, and its place within the Bollinger bands.
VwapBias(m) ==
  LET c == Least(Quotient(6500 + 3 * Size(m.vwap), 100), 85)
  IN CASE m.bars < 25 -> Neutral
       [] m.bars >= 25 /\ m.vwap > 50 /\ m.band > 60 ->
            Signal("Bullish", IF m.band > 80 THEN c ELSE 62)
       [] m.bars >= 25 /\ m.vwap < -50 /\ m.band < 40 ->
            Signal("Bearish", IF m.band < 20 THEN c ELSE 62)
       [] m.bars >= 25 /\ m.vwap <= 50 /\ m.band > 90 -> Signal("Bearish", 52)
       [] m.bars >= 25 /\ m.vwap >= -50 /\ m.band < 10 -> Signal("Bullish", 52)
       [] OTHER -> Neutral

\* The price against the SMA 50, the RSI and the slope of the EMA 9.
GoldenRsi(m) ==
  LET now == m.rsi[1]
      up == m.sma > 20 /\ now > 53
      down == m.sma < -20 /\ now < 47
  IN CASE m.bars < 55 -> Neutral
       [] m.bars >= 55 /\ up /\ Rising(m.rsi) /\ m.slope > 0 ->
            Signal("Bullish", IF now > 60 THEN 82 ELSE 70)
       [] m.bars >= 55 /\ down /\ Falling(m.rsi) /\ m.slope < 0 ->
            Signal("Bearish", IF now < 40 THEN 82 ELSE 70)
       [] m.bars >= 55 /\ up /\ (Rising(m.rsi) # (m.slope > 0)) -> Signal("Bullish", 58)
       [] m.bars >= 55 /\ down /\ (Falling(m.rsi) # (m.slope < 0)) -> Signal("Bearish", 58)
       [] OTHER -> Neutral

\* The price against the EMA 21, the sign of the MACD, and the side of the DI:
\* all three, or two of them, while the ADX says there is a trend.
TrendDetector(m) ==
  LET side == <<IF m.ema > 10 THEN 1 ELSE IF m.ema < -10 THEN -1 ELSE 0, m.macd, m.di>>
      Agree(way) == Cardinality({i \in 1 .. 3 : side[i] = way})
      full == CASE m.adx > 25 /\ m.expands -> 88
                [] (m.adx > 25) # m.expands -> 75
                [] OTHER -> 65
      Strength(way) == IF Agree(way) = 3 THEN full ELSE 55
  IN CASE m.bars < 40 \/ m.adx <= 15 -> Neutral
       [] m.bars >= 40 /\ m.adx > 15 /\ Agree(1) >= 2 -> Signal("Bullish", Strength(1))
       [] m.bars >= 40 /\ m.adx > 15 /\ Agree(-1) >= 2 -> Signal("Bearish", Strength(-1))
       [] OTHER -> Neutral

RunStrategy(id, m) ==
  CASE id = "ema-cross" -> EmaCross(m)
    [] id = "rsi-momentum" -> RsiMomentum(m)
    [] id = "vwap-bias" -> VwapBias(m)
    [] id = "golden-rsi" -> GoldenRsi(m)
    [] id = "trend-detector" -> TrendDetector(m)
-----------------------------------------------------------------------------
(* The engine *)

\* The weights are of the strategies on a side, and of their confidence.
Side(signals, way) == {id \in DOMAIN signals : signals[id].signal = way}
Weights(S) == SumFunctionOnSet([id \in Registry |-> Weight(id)], S)
Weighted(signals, S) ==
  SumFunctionOnSet([id \in DOMAIN signals |-> Weight(id) * signals[id].confidence], S)

\* One opinion is trusted less than two, and two less than three.
Trust(confidence, opinions) ==
  CASE opinions = 1 -> Quotient(7 * confidence, 10)
    [] opinions = 2 -> Quotient(85 * confidence, 100)
    [] OTHER -> confidence

Confidence(signals, S, opinions) ==
  Least(Trust(Quotient(Weighted(signals, S), Weights(S)), opinions), 92)

Says(way, c) == [overall |-> way, confidence |-> c]

\* The average of the opinions, weighted, must lean to the side of the majority;
\* active is the weight it is divided by.
Lean(signals, active) ==
  LET bulls == Side(signals, "Bullish")  bears == Side(signals, "Bearish")
      score == Weighted(signals, bulls) - Weighted(signals, bears)
      opinions == Cardinality(bulls \cup bears)
  IN CASE score > 15 * active /\ Cardinality(bulls) >= Cardinality(bears) ->
            Says("BULLISH", Confidence(signals, bulls, opinions))
       [] score < -15 * active /\ Cardinality(bears) >= Cardinality(bulls) ->
            Says("BEARISH", Confidence(signals, bears, opinions))
       [] OTHER -> Says("NEUTRAL", 0)

VerdictOfAll(signals) == Lean(signals, Weights(DOMAIN signals))
Verdict(signals) ==
  Lean(signals, Weights(Side(signals, "Bullish") \cup Side(signals, "Bearish")))

\* With no strategy enabled, all of them run.
RunEngine(enabled, m) ==
  Verdict([id \in IF enabled = {} THEN Registry ELSE enabled |-> RunStrategy(id, m)])
-----------------------------------------------------------------------------
(* The dock and its store *)

EnabledIds(map) == {id \in Registry : map[id]}

\* With no candles the engine has no signals, and the store keeps what it has.
Output(map, m) == IF m = NoMarket THEN engineOutput ELSE RunEngine(EnabledIds(map), m)

\* On the first visit the dock enables every strategy, and stores that.
EngineInit ==
  /\ market = NoMarket
  /\ enabledMap = [id \in Registry |-> TRUE]
  /\ stored = enabledMap
  /\ engineOutput = Says("NEUTRAL", 0)

ReloadWorkspace ==
  /\ market' = NoMarket
  /\ enabledMap' = stored
  /\ engineOutput' = Says("NEUTRAL", 0)
  /\ UNCHANGED stored

CandlesChange ==
  \E m \in Markets \cup {NoMarket} :
    /\ market' = m
    /\ engineOutput' = Output(enabledMap, m)
    /\ UNCHANGED <<enabledMap, stored>>

ToggleStrategy(id) ==
  /\ enabledMap' = [enabledMap EXCEPT ![id] = ~enabledMap[id]]
  /\ stored' = enabledMap'
  /\ engineOutput' = Output(enabledMap', market)
  /\ UNCHANGED market

EngineNext ==
  \/ ReloadWorkspace
  \/ CandlesChange
  \/ \E id \in Registry : ToggleStrategy(id)

EngineSpec == EngineInit /\ [][EngineNext]_engineVars
-----------------------------------------------------------------------------
EngineTypeOK ==
  /\ market \in Markets \cup {NoMarket}
  /\ enabledMap \in [Registry -> BOOLEAN]
  /\ stored \in [Registry -> BOOLEAN]
  /\ engineOutput \in [overall : {"BULLISH", "BEARISH", "NEUTRAL"}, confidence : 0 .. 92]

\* The same candles upside down: what was above is below.
Mirror(m) ==
  [bars |-> m.bars, spread |-> -m.spread, spreadBefore |-> -m.spreadBefore, adx |-> m.adx,
   rsi |-> [i \in 1 .. 3 |-> 100 - m.rsi[i]], vwap |-> -m.vwap, band |-> 100 - m.band,
   sma |-> -m.sma, slope |-> -m.slope, ema |-> -m.ema, macd |-> -m.macd, di |-> -m.di,
   expands |-> m.expands]

Opposite(v) ==
  Says(CASE v.overall = "BULLISH" -> "BEARISH" [] v.overall = "BEARISH" -> "BULLISH"
         [] OTHER -> "NEUTRAL", v.confidence)

\* The engine takes no side: on the mirrored candles it says the opposite, with
\* the same confidence (strategyEngine.js:42-137 and the five strategies).
MirrorSymmetric ==
  market # NoMarket =>
    RunEngine(EnabledIds(enabledMap), Mirror(market))
      = Opposite(RunEngine(EnabledIds(enabledMap), market))

\* Enabling one more strategy that agrees with the verdict on the chart, or that
\* has no opinion, leaves the verdict (strategyEngine.js:79-120: the average is
\* over the strategies with an opinion); the first one enabled replaces them all.
AgreementHolds ==
  [][\A id \in Registry :
       /\ market # NoMarket /\ UNCHANGED market
       /\ EnabledIds(enabledMap) # {}
       /\ ~enabledMap[id] /\ enabledMap'[id]
       /\ <<RunStrategy(id, market).signal, engineOutput.overall>>
            \in {<<"Bullish", "BULLISH">>, <<"Bearish", "BEARISH">>}
                 \cup {"Neutral"} \X {"BULLISH", "BEARISH", "NEUTRAL"}
       => engineOutput'.overall = engineOutput.overall]_engineVars
=============================================================================
