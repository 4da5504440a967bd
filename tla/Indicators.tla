------------------------------ MODULE Indicators ------------------------------
(***************************************************************************)
(* The chart's indicators (strategy/indicators/), as functions of a sequence  *)
(* of prices or of candles. An array with a prefix of NaN is a function on    *)
(* the indices that hold a number, counted from 1. Ratios are in percent, and *)
(* a quotient is rounded down.                                               *)
(***************************************************************************)
EXTENDS Integers, Sequences, FiniteSetsExt

Window(i, p) == i - p + 1 .. i
SumOver(d, W) == SumFunctionOnSet(d, W)
Average(d, W) == SumOver(d, W) \div Cardinality(W)
Abs(x) == IF x < 0 THEN -x ELSE x
Root(x) == CHOOSE r \in 0 .. x : r * r <= x /\ x < (r + 1) * (r + 1)

\* The numbers of a series without its NaN prefix, and back in their places
\* among n candles.
Packed(s) == LET n == Cardinality(DOMAIN s)
             IN IF n = 0 THEN << >>
                ELSE [j \in 1 .. n |-> s[Min(DOMAIN s) + j - 1]]
Aligned(s, shift) == [i \in {j + shift : j \in DOMAIN s} |-> s[i - shift]]

Minus(s, t) == [i \in DOMAIN s \cap DOMAIN t |-> s[i] - t[i]]
Closes(cs) == [i \in 1 .. Len(cs) |-> cs[i].close]
Typical(cs) == [i \in 1 .. Len(cs) |-> (cs[i].high + cs[i].low + cs[i].close) \div 3]
Volumes(cs) == [i \in 1 .. Len(cs) |-> cs[i].volume]
Money(cs) == [i \in 1 .. Len(cs) |-> Typical(cs)[i] * cs[i].volume]
Highest(cs, W) == Max({cs[j].high : j \in W})
Lowest(cs, W) == Min({cs[j].low : j \in W})

\* Wilder's average of a series, from index s on: of p values at first.
Wilder(x, s, p, n) ==
  LET a[i \in s .. n] == IF i = s THEN Average(x, Window(s, p))
                         ELSE (a[i - 1] * (p - 1) + x[i]) \div p
  IN a
-----------------------------------------------------------------------------
(* Moving averages *)

Sma(d, p) == [i \in p .. Len(d) |-> Average(d, Window(i, p))]

\* Seeded with the average of the first p values; k = 2 / (p + 1).
Ema(d, p) ==
  LET e[i \in p .. Len(d)] ==
        IF i = p THEN Average(d, 1 .. p)
        ELSE (2 * d[i] + (p - 1) * e[i - 1]) \div (p + 1)
  IN e

Wma(d, p) ==
  [i \in p .. Len(d) |->
     SumOver([j \in 1 .. p |-> d[i - p + j] * j], 1 .. p) \div ((p * (p + 1)) \div 2)]

Dema(d, p) ==
  LET e1 == Ema(d, p)
      e2 == Aligned(Ema(Packed(e1), p), p - 1)
  IN [i \in DOMAIN e2 |-> 2 * e1[i] - e2[i]]

\* e2 is read at the index j of e3, which counts from its first number.
Tema(d, p) ==
  LET e1 == Ema(d, p)
      e2 == Ema(Packed(e1), p)
      e3 == Ema(Packed(e2), p)
      first == 2 * p - 2
  IN [i \in {j + first : j \in DOMAIN e3 \cap DOMAIN e2} |->
        3 * e1[i] - 3 * e2[i - first] + e3[i - first]]

Rounded(p) == CHOOSE r \in 0 .. p : r * r - r < p /\ p <= r * r + r

Hma(d, p) ==
  LET half == Wma(d, p \div 2)
      full == Wma(d, p)
      diff == [i \in DOMAIN full \cap DOMAIN half |-> 2 * half[i] - full[i]]
      valid == Packed(diff)
  IN Aligned(Wma(valid, Rounded(p)), Len(d) - Len(valid))

VwapOfAll(cs) ==
  LET volume == SumOver(Volumes(cs), 1 .. Len(cs))
      money == SumOver(Money(cs), 1 .. Len(cs))
  IN [i \in 1 .. Len(cs) |-> IF volume = 0 THEN Typical(cs)[i] ELSE money \div volume]

Vwap(cs) ==
  [i \in 1 .. Len(cs) |->
     LET volume == SumOver(Volumes(cs), 1 .. i)
         money == SumOver(Money(cs), 1 .. i)
     IN IF volume = 0 THEN Typical(cs)[i] ELSE money \div volume]
-----------------------------------------------------------------------------
(* Bands and channels: [upper, middle, lower] *)

Deviation(d, W) ==
  LET mean == Average(d, W)
  IN Root(Average([j \in W |-> (d[j] - mean) * (d[j] - mean)], W))

StdDev(d, p) == [i \in p .. Len(d) |-> Deviation(d, Window(i, p))]

Around(middle, width) ==
  [upper  |-> [i \in DOMAIN middle \cap DOMAIN width |-> middle[i] + width[i]],
   middle |-> middle,
   lower  |-> [i \in DOMAIN middle \cap DOMAIN width |-> middle[i] - width[i]]]

BollingerBands(d, p, deviation) ==
  Around(Sma(d, p), [i \in p .. Len(d) |-> deviation * Deviation(d, Window(i, p))])

Envelope(d, p, permille) ==
  LET middle == Sma(d, p)
  IN [upper  |-> [i \in DOMAIN middle |-> (middle[i] * (1000 + permille)) \div 1000],
      middle |-> middle,
      lower  |-> [i \in DOMAIN middle |-> (middle[i] * (1000 - permille)) \div 1000]]

TrueRange(cs, i) ==
  LET h == cs[i].high  l == cs[i].low  before == cs[i - 1].close
  IN IF i = 1 THEN h - l ELSE Max({h - l, Abs(h - before), Abs(l - before)})

\* Fewer than p candles have none.
Atr(cs, p) ==
  IF Len(cs) < 2 THEN << >>
  ELSE Wilder([i \in 1 .. Len(cs) |-> TrueRange(cs, i)], p, p, Len(cs))

KeltnerChannels(cs, p) ==
  LET width == Atr(cs, p)
  IN Around(Ema(Closes(cs), p), [i \in DOMAIN width |-> (3 * width[i]) \div 2])

Midline(cs, p) ==
  [i \in p .. Len(cs) |->
     (Highest(cs, Window(i, p)) + Lowest(cs, Window(i, p))) \div 2]

DonchianChannels(cs, p) ==
  [upper  |-> [i \in p .. Len(cs) |-> Highest(cs, Window(i, p))],
   middle |-> Midline(cs, p),
   lower  |-> [i \in p .. Len(cs) |-> Lowest(cs, Window(i, p))]]
-----------------------------------------------------------------------------
(* Trend *)

Ichimoku(cs, tenkan, kijun, senkou) ==
  LET t == Midline(cs, tenkan)  k == Midline(cs, kijun)
  IN [tenkan |-> t, kijun |-> k, senkouB |-> Midline(cs, senkou),
      senkouA |-> [i \in DOMAIN t \cap DOMAIN k |-> (t[i] + k[i]) \div 2]]

\* The bands only ever tighten, whichever way the trend turns.
Supertrend(cs, p, multiplier) ==
  LET range == Atr(cs, p)
      mid(i) == (cs[i].high + cs[i].low) \div 2
      state[i \in DOMAIN range] ==
        LET up == mid(i) + multiplier * range[i]
            down == mid(i) - multiplier * range[i]
            upper == IF i = p THEN up ELSE Min({up, state[i - 1].upper})
            lower == IF i = p THEN down ELSE Max({down, state[i - 1].lower})
            long == IF i = p \/ state[i - 1].long THEN cs[i].close >= lower
                    ELSE cs[i].close > upper
        IN [upper |-> upper, lower |-> lower, long |-> long]
  IN [i \in DOMAIN range |->
        [long |-> state[i].long,
         value |-> IF state[i].long THEN state[i].lower ELSE state[i].upper]]

\* The acceleration factor, in percent, grows by 2 to at most 20.
Psar(cs) ==
  LET longAtFirst == cs[2].close > cs[1].close
      before(i) == {i - 1} \cup (IF i > 2 THEN {i - 2} ELSE {})
      state[i \in 1 .. Len(cs)] ==
        IF i = 1
        THEN [long |-> longAtFirst, factor |-> 2,
              extreme |-> IF longAtFirst THEN cs[1].high ELSE cs[1].low,
              sar |-> IF longAtFirst THEN cs[1].low ELSE cs[1].high]
        ELSE LET s == state[i - 1]
                 moved == s.sar + (s.factor * (s.extreme - s.sar)) \div 100
                 sar == IF s.long THEN Min({moved, Lowest(cs, before(i))})
                        ELSE Max({moved, Highest(cs, before(i))})
                 turns == IF s.long THEN cs[i].low < sar ELSE cs[i].high > sar
                 far == IF s.long THEN cs[i].high > s.extreme ELSE cs[i].low < s.extreme
                 reached == IF s.long # turns THEN cs[i].high ELSE cs[i].low
             IN IF turns
                THEN [long |-> ~s.long, factor |-> 2, extreme |-> reached, sar |-> s.extreme]
                ELSE [long |-> s.long, sar |-> sar,
                      extreme |-> IF far THEN reached ELSE s.extreme,
                      factor |-> IF far THEN Min({s.factor + 2, 20}) ELSE s.factor]
  IN IF Len(cs) < 2 THEN << >>
     ELSE [i \in 1 .. Len(cs) |-> [value |-> state[i].sar,
                                   long |-> i > 1 /\ state[i].long]]

PivotPoints(cs) ==
  LET Level(op(_, _)) == [i \in 2 .. Len(cs) |-> op(cs[i - 1], Typical(cs)[i - 1])]
  IN [pp |-> Level(LAMBDA c, p : p),
      r1 |-> Level(LAMBDA c, p : 2 * p - c.low),
      s1 |-> Level(LAMBDA c, p : 2 * p - c.high),
      r2 |-> Level(LAMBDA c, p : p + (c.high - c.low)),
      s2 |-> Level(LAMBDA c, p : p - (c.high - c.low)),
      r3 |-> Level(LAMBDA c, p : c.high + 2 * (p - c.low)),
      s3 |-> Level(LAMBDA c, p : c.low - 2 * (c.high - p))]
-----------------------------------------------------------------------------
(* Oscillators *)

\* The averages of gains and losses, as the share of the gains.
Rsi(d, p) ==
  LET gain == [i \in 2 .. Len(d) |-> Max({d[i] - d[i - 1], 0})]
      loss == [i \in 2 .. Len(d) |-> Max({d[i - 1] - d[i], 0})]
      g == Wilder(gain, p + 1, p, Len(d))
      l == Wilder(loss, p + 1, p, Len(d))
  IN [i \in p + 1 .. Len(d) |-> IF g[i] = 0 /\ l[i] = 0 THEN 50
                                ELSE (100 * g[i]) \div (g[i] + l[i])]

Macd(d, fast, slow, signal) ==
  LET line == Minus(Ema(d, fast), Ema(d, slow))
      valid == Packed(line)
      full == Aligned(Ema(valid, signal), Len(d) - Len(valid))
  IN [macd |-> line, signal |-> full, histogram |-> Minus(line, full)]

Stochastic(cs, k, d, slowing) ==
  LET raw == [i \in k .. Len(cs) |->
        LET hh == Highest(cs, Window(i, k))  ll == Lowest(cs, Window(i, k))
        IN IF hh = ll THEN 50 ELSE (100 * (cs[i].close - ll)) \div (hh - ll)]
      slow == [i \in k + slowing - 1 .. Len(cs) |-> Average(raw, Window(i, slowing))]
  IN [k |-> slow,
      d |-> [i \in k + slowing + d - 2 .. Len(cs) |-> Average(slow, Window(i, d))]]

\* A factor of 0.015: the result is rounded after the division by it.
Cci(cs, p) ==
  LET tp == Typical(cs)
  IN [i \in p .. Len(cs) |->
        LET mean == Average(tp, Window(i, p))
            dev == Average([j \in Window(i, p) |-> Abs(tp[j] - mean)], Window(i, p))
        IN IF dev = 0 THEN 0 ELSE (1000 * (tp[i] - mean)) \div (15 * dev)]

WilliamsR(cs, p) ==
  [i \in p .. Len(cs) |->
     LET hh == Highest(cs, Window(i, p))  ll == Lowest(cs, Window(i, p))
     IN IF hh = ll THEN 0 ELSE -((100 * (hh - cs[i].close)) \div (hh - ll))]

Roc(d, p) ==
  [i \in {j \in p + 1 .. Len(d) : d[j - p] # 0} |-> (100 * (d[i] - d[i - p])) \div d[i - p]]

\* How far into the window of p + 1 candles the first highest and lowest lie.
Aroon(cs, p) ==
  LET Since(i, S) == (100 * (Min(S) - (i - p))) \div p
      W(i) == Window(i, p + 1)
  IN [up |-> [i \in p + 1 .. Len(cs) |->
               Since(i, {j \in W(i) : cs[j].high = Highest(cs, W(i))})],
      down |-> [i \in p + 1 .. Len(cs) |->
               Since(i, {j \in W(i) : cs[j].low = Lowest(cs, W(i))})]]

\* Wilder's sum of a series that starts at the index 2.
WilderSum(x, p, n) ==
  LET s[i \in p + 1 .. n] == IF i = p + 1 THEN SumOver(x, Window(i, p))
                             ELSE s[i - 1] - s[i - 1] \div p + x[i]
  IN s

\* How far the candle i reaches beyond the former on one side, if further than on the other.
Movement(one, other) == IF one > other /\ one > 0 THEN one ELSE 0

\* The sums of the directional movements against the one of the ranges.
Adx(cs, p) ==
  LET n == Len(cs)
      up(i) == cs[i].high - cs[i - 1].high
      down(i) == cs[i - 1].low - cs[i].low
      total == WilderSum([i \in 2 .. n |-> TrueRange(cs, i)], p, n)
      Share(x) == LET s == WilderSum(x, p, n)
                  IN [i \in p + 1 .. n |-> IF total[i] = 0 THEN 0
                                           ELSE (100 * s[i]) \div total[i]]
      pdi == Share([i \in 2 .. n |-> Movement(up(i), down(i))])
      mdi == Share([i \in 2 .. n |-> Movement(down(i), up(i))])
      dx == [i \in p + 1 .. n |-> IF pdi[i] + mdi[i] = 0 THEN 0
               ELSE (100 * Abs(pdi[i] - mdi[i])) \div (pdi[i] + mdi[i])]
  IN [adx |-> Wilder(dx, 2 * p, p, n), plusDI |-> pdi, minusDI |-> mdi]
-----------------------------------------------------------------------------
(* Volume *)

Obv(cs) ==
  LET o[i \in 1 .. Len(cs)] ==
        CASE i = 1 -> cs[1].volume
          [] i > 1 /\ cs[i].close > cs[i - 1].close -> o[i - 1] + cs[i].volume
          [] i > 1 /\ cs[i].close < cs[i - 1].close -> o[i - 1] - cs[i].volume
          [] OTHER -> o[i - 1]
  IN o

\* Without a losing candle the ratio counts as 100, whatever the gain.
Mfi(cs, p) ==
  LET tp == Typical(cs)
      rises(W) == {j \in W : tp[j] > tp[j - 1]}
  IN [i \in p + 1 .. Len(cs) |->
        LET W == Window(i, p)
            pos == SumOver(Money(cs), rises(W))
            neg == SumOver(Money(cs), W \ rises(W))
        IN IF neg = 0 THEN 100 - 100 \div 101 ELSE (100 * pos) \div (pos + neg)]

Cmf(cs, p) ==
  LET clv(c) == IF c.high = c.low THEN 0
                ELSE (100 * ((c.close - c.low) - (c.high - c.close))) \div (c.high - c.low)
      flows == [i \in 1 .. Len(cs) |-> clv(cs[i]) * cs[i].volume]
  IN [i \in p .. Len(cs) |->
        LET volume == SumOver(Volumes(cs), Window(i, p))
        IN IF volume = 0 THEN 0 ELSE SumOver(flows, Window(i, p)) \div volume]
=============================================================================
