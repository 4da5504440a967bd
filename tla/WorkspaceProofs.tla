---------------------------- MODULE WorkspaceProofs ----------------------------
(***************************************************************************)
(* The trading workspace of the browser: what its sockets have asked for   *)
(* (LiveSocket), what its prices and holdings are (LiveQuotes), what the   *)
(* strategies of its chart say together (StrategyEngine), where the lines  *)
(* of its indicators stay and that they are not repainted (PriceChart),    *)
(* for every set of symbols, every candle and reading of the indicators,   *)
(* every bound.                                                            *)
(***************************************************************************)
EXTENDS LiveSocket, LiveQuotes, StrategyEngine, PriceChart, SumTheorems, SequenceTheorems,
        TLAPS
-----------------------------------------------------------------------------
(* The live feed *)

\* What the hooks keep, and that it holds all that is tracked.
Wired ==
  /\ socket \in [Hooks -> SocketStates]
  /\ outbox \in [Hooks -> SUBSET PageFeeds]
  /\ subscribed \in [Hooks -> SUBSET (Feeds \cup PageFeeds)]
  /\ tracked \subseteq Feeds
  /\ TrackedIsSubscribed

LEMMA WiredNext == Wired /\ [SocketNext]_socketVars => Wired'
<1> SUFFICES ASSUME Wired, [SocketNext]_socketVars PROVE Wired'
  OBVIOUS
<1> USE DEF Wired, TrackedIsSubscribed, Connects, SocketStates, Hooks
<1>1. CASE MountShell
  BY <1>1 DEF MountShell
<1>2. CASE MountPage
  BY <1>2 DEF MountPage
<1>3. CASE LeavePage
  BY <1>3 DEF LeavePage, Unmount
<1>4. CASE LeaveShell
  BY <1>4 DEF LeaveShell, Unmount
<1>5. ASSUME NEW h \in Hooks, SocketOpens(h) PROVE Wired'
  BY <1>5 DEF SocketOpens
<1>6. ASSUME NEW h \in Hooks, SocketCloses(h) PROVE Wired'
  BY <1>6 DEF SocketCloses
<1>7. ASSUME NEW h \in Hooks, Retry(h) PROVE Wired'
  BY <1>7 DEF Retry
<1>8. CASE GhostError
  BY <1>8 DEF GhostError
<1>9. ASSUME NEW S \in SUBSET Feeds, Track(S) PROVE Wired'
  BY <1>9 DEF Track
<1>10. CASE UNCHANGED socketVars
  BY <1>10 DEF socketVars
<1> QED
  BY <1>1, <1>2, <1>3, <1>4, <1>5, <1>6, <1>7, <1>8, <1>9, <1>10 DEF SocketNext, Network

\* An open socket of the quote feed has asked for everything that is looked at, held or
\* watched, for any number of symbols, failures and page visits
\* (useWebSocket.js:149-236).
THEOREM OpenSocketTracks == SocketSpec => []TrackedIsSubscribed
<1>1. SocketInit => Wired
  BY DEF SocketInit, Wired, TrackedIsSubscribed, SocketStates
<1>2. Wired => TrackedIsSubscribed
  BY DEF Wired
<1> QED
  BY <1>1, <1>2, WiredNext, PTL DEF SocketSpec
-----------------------------------------------------------------------------
(***************************************************************************)
(* The strategies of the chart.  What the engine says of the mirrored      *)
(* candles follows from what each strategy says of them: those for a rise  *)
(* and those for a fall change places, and keep their confidence.          *)
(***************************************************************************)
Opinions == {Neutral} \cup [signal : {"Bullish", "Bearish"}, confidence : 45 .. 92]

\* The opposite opinion, as sure.
Turned(s) ==
  Signal(IF s.signal = "Bullish" THEN "Bearish"
         ELSE IF s.signal = "Bearish" THEN "Bullish" ELSE s.signal, s.confidence)

LEMMA MirrorFields ==
  ASSUME NEW m \in MarketReadings
  PROVE  LET w == Mirror(m)
         IN /\ w.bars = m.bars /\ w.adx = m.adx /\ w.expands = m.expands
            /\ w.spread = -m.spread /\ w.spreadBefore = -m.spreadBefore
            /\ w.rsi \in [1 .. 3 -> Int] /\ \A i \in 1 .. 3 : w.rsi[i] = 100 - m.rsi[i]
            /\ w.vwap = -m.vwap /\ w.band = 100 - m.band /\ w.sma = -m.sma
            /\ w.slope = -m.slope /\ w.ema = -m.ema /\ w.macd = -m.macd /\ w.di = -m.di
            /\ w \in MarketReadings
BY DEF Mirror, MarketReadings

LEMMA SizeOf == \A a \in Int : Size(a) \in Nat /\ Size(-a) = Size(a)
BY DEF Size

\* Math.round of a whole number of hundredths.
LEMMA HundredthsRounded ==
  \A a \in Int, c \in Int : a >= 100 * c => Quotient(a, 100) \in Int /\ Quotient(a, 100) >= c
<1> SUFFICES ASSUME NEW a \in Int, NEW c \in Int, a >= 100 * c
             PROVE  Quotient(a, 100) \in Int /\ Quotient(a, 100) >= c
  OBVIOUS
<1>1. (2 * a + 100) \div 200 \in Int /\ (2 * a + 100) \div 200 >= c
  OBVIOUS
<1> QED
  BY <1>1 DEF Quotient

LEMMA EmaCrossSays ==
  ASSUME NEW m \in MarketReadings
  PROVE  EmaCross(m) \in Opinions /\ EmaCross(Mirror(m)) = Turned(EmaCross(m))
<1> DEFINE w == Mirror(m)
<1>1. /\ w.bars = m.bars /\ w.adx = m.adx
      /\ w.spread = -m.spread /\ w.spreadBefore = -m.spreadBefore
      /\ m.spread \in Int /\ m.spreadBefore \in Int /\ m.adx \in Int /\ m.bars \in Nat
  BY MirrorFields DEF MarketReadings
<1> HIDE DEF w
<1>2. Size(w.spread) = Size(m.spread) /\ Size(m.spread) \in Nat
  BY <1>1, SizeOf
<1> DEFINE x == Size(m.spread)
           big == Least(Quotient(6000 + 4 * x, 100), 82)
           mid == Least(Quotient(5500 + 3 * x, 100), 72)
           low == Least(Quotient(4500 + 2 * x, 100), 55)
           c == CASE m.adx > 30 -> big
                  [] m.adx > 20 /\ m.adx <= 30 -> mid
                  [] OTHER -> low
           d == IF m.adx > 20 THEN 88 ELSE 72
           crosses(z) == \/ z.spreadBefore <= 0 /\ z.spread > 0
                         \/ z.spreadBefore >= 0 /\ z.spread < 0
<1>3. big \in 45 .. 92 /\ mid \in 45 .. 92 /\ low \in 45 .. 92
  <2> DEFINE a1 == Quotient(6000 + 4 * x, 100)
             a2 == Quotient(5500 + 3 * x, 100)
             a3 == Quotient(4500 + 2 * x, 100)
  <2>1. a1 \in Int /\ a1 >= 60 /\ a2 \in Int /\ a2 >= 55 /\ a3 \in Int /\ a3 >= 45
    <3> HIDE DEF x
    <3>1. x \in Nat
      BY <1>2 DEF x
    <3>2. /\ 6000 + 4 * x \in Int /\ 6000 + 4 * x >= 100 * 60
          /\ 5500 + 3 * x \in Int /\ 5500 + 3 * x >= 100 * 55
          /\ 4500 + 2 * x \in Int /\ 4500 + 2 * x >= 100 * 45
      BY <3>1
    <3> QED
      BY <3>2, HundredthsRounded
  <2> HIDE DEF a1, a2, a3
  <2>2. Least(a1, 82) \in 45 .. 92 /\ Least(a2, 72) \in 45 .. 92 /\ Least(a3, 55) \in 45 .. 92
    BY <2>1 DEF Least
  <2> QED
    BY <2>2 DEF a1, a2, a3
<1>4. c \in 45 .. 92
  <2> HIDE DEF big, mid, low
  <2> QED
    BY <1>3
<1>5. d \in 45 .. 92
  BY <1>1
<1>6. EmaCross(m) = IF m.bars < 30 THEN Neutral
                    ELSE IF crosses(m) THEN Towards(m.spread, d)
                    ELSE IF x > 15 THEN Towards(m.spread, c) ELSE Neutral
  <2> HIDE DEF c, d, x
  <2> QED
    BY <1>1 DEF EmaCross, c, d, x
<1>7. EmaCross(w) = IF m.bars < 30 THEN Neutral
                    ELSE IF crosses(w) THEN Towards(w.spread, d)
                    ELSE IF x > 15 THEN Towards(w.spread, c) ELSE Neutral
  <2> HIDE DEF c, d, x
  <2> QED
    BY <1>1, <1>2 DEF EmaCross, c, d, x
<1>8. crosses(w) <=> crosses(m)
  BY <1>1
<1>9. /\ crosses(m) => m.spread # 0
      /\ x > 15 => m.spread # 0
  BY <1>1 DEF Size
<1> HIDE DEF c, d, x, crosses
<1>10. ASSUME NEW e \in 45 .. 92, m.spread # 0
       PROVE  Towards(m.spread, e) \in Opinions /\ Towards(w.spread, e) = Turned(Towards(m.spread, e))
  BY <1>1, <1>10 DEF Towards, Opinions, Turned, Signal
<1>11. Neutral \in Opinions /\ Neutral = Turned(Neutral)
  BY DEF Opinions, Neutral, Turned, Signal
<1> QED
  BY <1>4, <1>5, <1>6, <1>7, <1>8, <1>9, <1>10, <1>11 DEF w

LEMMA RsiTurns ==
  ASSUME NEW m \in MarketReadings
  PROVE  /\ Rising(Mirror(m).rsi) <=> Falling(m.rsi)
         /\ Falling(Mirror(m).rsi) <=> Rising(m.rsi)
<1>1. /\ m.rsi[1] \in Int /\ m.rsi[2] \in Int /\ m.rsi[3] \in Int
      /\ Mirror(m).rsi[1] = 100 - m.rsi[1] /\ Mirror(m).rsi[2] = 100 - m.rsi[2]
      /\ Mirror(m).rsi[3] = 100 - m.rsi[3]
  BY MirrorFields DEF MarketReadings
<1> QED
  BY <1>1 DEF Rising, Falling

\* Above 50 and below it the readings are met by each other's answers.
LEMMA RsiSignalSays ==
  ASSUME NEW now \in Int, NEW r, NEW q,
         Rising(q) <=> Falling(r), Falling(q) <=> Rising(r)
  PROVE  /\ RsiSignal(now, r, Rising(r)) \in Opinions
         /\ RsiSignal(100 - now, q, Rising(q)) = Turned(RsiSignal(now, r, Rising(r)))
<1> DEFINE s == RsiSignal(now, r, Rising(r))
           o == RsiSignal(100 - now, q, Rising(q))
<1>n. Neutral \in Opinions /\ Neutral = Turned(Neutral)
  BY DEF Opinions, Neutral, Turned, Signal
<1>o. ASSUME NEW c \in 45 .. 92
      PROVE  /\ Signal("Bullish", c) \in Opinions /\ Signal("Bearish", c) \in Opinions
             /\ Turned(Signal("Bullish", c)) = Signal("Bearish", c)
             /\ Turned(Signal("Bearish", c)) = Signal("Bullish", c)
  BY DEF Opinions, Turned, Signal
<1>1. CASE now >= 75
  <2> DEFINE c == Least(70 + 2 * (now - 75), 92)
  <2>1. c \in 45 .. 92
    BY <1>1 DEF Least
  <2>2. s = Signal("Bearish", c)
    BY <1>1 DEF RsiSignal
  <2>3. o = Signal("Bullish", c)
    <3>1. 100 - now <= 25 /\ 70 + 2 * (25 - (100 - now)) = 70 + 2 * (now - 75)
      BY <1>1
    <3> QED
      BY <3>1 DEF RsiSignal
  <2> QED
    BY <2>1, <2>2, <2>3, <1>o
<1>2. CASE now \in 70 .. 74
  <2> DEFINE c == IF Falling(r) THEN 72 ELSE 58
  <2>1. s = Signal("Bearish", c) /\ o = Signal("Bullish", c) /\ c \in 45 .. 92
    BY <1>2 DEF RsiSignal
  <2> QED
    BY <2>1, <1>o
<1>3. CASE now \in 56 .. 69
  <2> DEFINE c == IF now > 58 /\ Rising(r) THEN 60 ELSE 45
  <2>1. s = Signal("Bullish", c) /\ o = Signal("Bearish", c) /\ c \in 45 .. 92
    BY <1>3 DEF RsiSignal
  <2> QED
    BY <2>1, <1>o
<1>4. CASE now \in 45 .. 55
  <2>1. s = Neutral /\ o = Neutral
    BY <1>4 DEF RsiSignal
  <2> QED
    BY <2>1, <1>n
<1>5. CASE now \in 31 .. 44
  <2> DEFINE c == IF now < 42 /\ Falling(r) THEN 60 ELSE 45
  <2>1. s = Signal("Bearish", c) /\ o = Signal("Bullish", c) /\ c \in 45 .. 92
    BY <1>5 DEF RsiSignal
  <2> QED
    BY <2>1, <1>o
<1>6. CASE now \in 26 .. 30
  <2> DEFINE c == IF Rising(r) THEN 72 ELSE 58
  <2>1. s = Signal("Bullish", c) /\ o = Signal("Bearish", c) /\ c \in 45 .. 92
    BY <1>6 DEF RsiSignal
  <2> QED
    BY <2>1, <1>o
<1>7. CASE now <= 25
  <2> DEFINE c == Least(70 + 2 * (25 - now), 92)
  <2>1. c \in 45 .. 92
    BY <1>7 DEF Least
  <2>2. s = Signal("Bullish", c)
    BY <1>7 DEF RsiSignal
  <2>3. o = Signal("Bearish", c)
    <3>1. 100 - now >= 75 /\ 70 + 2 * ((100 - now) - 75) = 70 + 2 * (25 - now)
      BY <1>7
    <3> QED
      BY <3>1 DEF RsiSignal
  <2> QED
    BY <2>1, <2>2, <2>3, <1>o
<1> QED
  BY <1>1, <1>2, <1>3, <1>4, <1>5, <1>6, <1>7

LEMMA RsiMomentumSays ==
  ASSUME NEW m \in MarketReadings
  PROVE  RsiMomentum(m) \in Opinions /\ RsiMomentum(Mirror(m)) = Turned(RsiMomentum(m))
<1>1. m.rsi[1] \in Int /\ Mirror(m).rsi[1] = 100 - m.rsi[1] /\ Mirror(m).bars = m.bars
  BY MirrorFields DEF MarketReadings
<1>2. Neutral \in Opinions /\ Neutral = Turned(Neutral)
  BY DEF Opinions, Neutral, Turned, Signal
<1> QED
  BY <1>1, <1>2, RsiTurns, RsiSignalSays DEF RsiMomentum

LEMMA VwapBiasSays ==
  ASSUME NEW m \in MarketReadings
  PROVE  VwapBias(m) \in Opinions /\ VwapBias(Mirror(m)) = Turned(VwapBias(m))
<1> DEFINE w == Mirror(m)
           c == Least(Quotient(6500 + 3 * Size(m.vwap), 100), 85)
<1>1. /\ w.bars = m.bars /\ w.vwap = -m.vwap /\ w.band = 100 - m.band
      /\ m.vwap \in Int /\ m.band \in Int /\ m.bars \in Nat
  BY MirrorFields DEF MarketReadings
<1>2. Size(w.vwap) = Size(m.vwap) /\ Size(m.vwap) \in Nat
  BY <1>1, SizeOf
<1>3. c \in 45 .. 92
  <2> DEFINE x == Size(m.vwap)
             a == Quotient(6500 + 3 * x, 100)
  <2>1. a \in Int /\ a >= 65
    <3> HIDE DEF x
    <3>1. x \in Nat
      BY <1>2 DEF x
    <3>2. 6500 + 3 * x \in Int /\ 6500 + 3 * x >= 100 * 65
      BY <3>1
    <3> QED
      BY <3>2, HundredthsRounded
  <2> HIDE DEF a
  <2>2. Least(a, 85) \in 45 .. 92
    BY <2>1 DEF Least
  <2> QED
    BY <2>2 DEF a
<1>4. VwapBias(m) = CASE m.bars < 25 -> Neutral
       [] m.bars >= 25 /\ m.vwap > 50 /\ m.band > 60 ->
            Signal("Bullish", IF m.band > 80 THEN c ELSE 62)
       [] m.bars >= 25 /\ m.vwap < -50 /\ m.band < 40 ->
            Signal("Bearish", IF m.band < 20 THEN c ELSE 62)
       [] m.bars >= 25 /\ m.vwap <= 50 /\ m.band > 90 -> Signal("Bearish", 52)
       [] m.bars >= 25 /\ m.vwap >= -50 /\ m.band < 10 -> Signal("Bullish", 52)
       [] OTHER -> Neutral
  BY DEF VwapBias
<1>5. VwapBias(w) = CASE w.bars < 25 -> Neutral
       [] w.bars >= 25 /\ w.vwap > 50 /\ w.band > 60 ->
            Signal("Bullish", IF w.band > 80 THEN c ELSE 62)
       [] w.bars >= 25 /\ w.vwap < -50 /\ w.band < 40 ->
            Signal("Bearish", IF w.band < 20 THEN c ELSE 62)
       [] w.bars >= 25 /\ w.vwap <= 50 /\ w.band > 90 -> Signal("Bearish", 52)
       [] w.bars >= 25 /\ w.vwap >= -50 /\ w.band < 10 -> Signal("Bullish", 52)
       [] OTHER -> Neutral
  BY <1>2 DEF VwapBias
<1> HIDE DEF w, c
<1> QED
  <2>1. VwapBias(w) = Turned(VwapBias(m))
    BY <1>1, <1>4, <1>5 DEF Turned, Signal, Neutral
  <2>2. VwapBias(m) \in Opinions
    BY <1>1, <1>3, <1>4 DEF Opinions, Signal, Neutral
  <2> QED
    BY <2>1, <2>2 DEF w

LEMMA GoldenRsiSays ==
  ASSUME NEW m \in MarketReadings
  PROVE  GoldenRsi(m) \in Opinions /\ GoldenRsi(Mirror(m)) = Turned(GoldenRsi(m))
<1> DEFINE w == Mirror(m)
           r == Rising(m.rsi)
           f == Falling(m.rsi)
           now == m.rsi[1]
<1>1. /\ w.bars = m.bars /\ w.sma = -m.sma /\ w.slope = -m.slope /\ w.rsi[1] = 100 - now
      /\ m.sma \in Int /\ m.slope \in Int /\ now \in Int /\ m.bars \in Nat
      /\ (Rising(w.rsi) <=> f) /\ (Falling(w.rsi) <=> r)
  BY MirrorFields, RsiTurns DEF MarketReadings
<1>2. GoldenRsi(m) = IF m.bars < 55 THEN Neutral
         ELSE IF m.sma > 20 /\ now > 53 /\ r /\ m.slope > 0
              THEN Signal("Bullish", IF now > 60 THEN 82 ELSE 70)
         ELSE IF m.sma < -20 /\ now < 47 /\ f /\ m.slope < 0
              THEN Signal("Bearish", IF now < 40 THEN 82 ELSE 70)
         ELSE IF m.sma > 20 /\ now > 53 /\ ~(r <=> m.slope > 0) THEN Signal("Bullish", 58)
         ELSE IF m.sma < -20 /\ now < 47 /\ ~(f <=> m.slope < 0) THEN Signal("Bearish", 58)
         ELSE Neutral
  BY <1>1 DEF GoldenRsi, Rising, Falling
<1>3. GoldenRsi(w) = IF m.bars < 55 THEN Neutral
         ELSE IF w.sma > 20 /\ 100 - now > 53 /\ f /\ w.slope > 0
              THEN Signal("Bullish", IF 100 - now > 60 THEN 82 ELSE 70)
         ELSE IF w.sma < -20 /\ 100 - now < 47 /\ r /\ w.slope < 0
              THEN Signal("Bearish", IF 100 - now < 40 THEN 82 ELSE 70)
         ELSE IF w.sma > 20 /\ 100 - now > 53 /\ ~(f <=> w.slope > 0) THEN Signal("Bullish", 58)
         ELSE IF w.sma < -20 /\ 100 - now < 47 /\ ~(r <=> w.slope < 0) THEN Signal("Bearish", 58)
         ELSE Neutral
  BY <1>1 DEF GoldenRsi, Rising, Falling
<1> HIDE DEF w, r, f, now
<1>4. GoldenRsi(w) = Turned(GoldenRsi(m))
  BY <1>1, <1>2, <1>3 DEF Turned, Signal, Neutral
<1>5. GoldenRsi(m) \in Opinions
  BY <1>1, <1>2 DEF Opinions, Signal, Neutral
<1> QED
  BY <1>4, <1>5 DEF w

\* The sides of the trend: those of the one way are disjoint from those of the other, so
\* two of three cannot agree on both.
LEMMA SidesDisjoint ==
  ASSUME NEW A \in SUBSET (1 .. 3), NEW B \in SUBSET (1 .. 3), A \cap B = {}
  PROVE  /\ Cardinality(A) \in Nat /\ Cardinality(B) \in Nat
         /\ Cardinality(A) + Cardinality(B) <= 3
<1>1. IsFiniteSet(1 .. 3) /\ Cardinality(1 .. 3) = 3
  <2>1. 1 \in Int /\ 3 \in Int /\ ~ (1 > 3) /\ 3 - 1 + 1 = 3
    OBVIOUS
  <2> QED
    BY <2>1, FS_Interval, Zenon
<1>2. /\ IsFiniteSet(A) /\ IsFiniteSet(B) /\ Cardinality(A) \in Nat /\ Cardinality(B) \in Nat
  BY <1>1, FS_Subset, FS_CardinalityType
<1>3. /\ IsFiniteSet(A \cup B) /\ Cardinality(A \cup B) = Cardinality(A) + Cardinality(B) - Cardinality({})
  BY <1>2, FS_Union
<1>4. Cardinality(A \cup B) <= 3 /\ Cardinality({}) = 0
  <2>1. A \cup B \in SUBSET (1 .. 3)
    OBVIOUS
  <2>2. Cardinality(A \cup B) <= Cardinality(1 .. 3)
    BY <1>1, <2>1, FS_Subset
  <2>3. Cardinality({}) = 0
    BY FS_EmptySet
  <2> QED
    BY <1>1, <2>2, <2>3
<1> QED
  BY <1>2, <1>3, <1>4

LEMMA TrendDetectorSays ==
  ASSUME NEW m \in MarketReadings
  PROVE  TrendDetector(m) \in Opinions /\ TrendDetector(Mirror(m)) = Turned(TrendDetector(m))
<1> DEFINE w == Mirror(m)
           side(z) == <<IF z.ema > 10 THEN 1 ELSE IF z.ema < -10 THEN -1 ELSE 0, z.macd, z.di>>
           Agreed(z, way) == {i \in 1 .. 3 : side(z)[i] = way}
           full == CASE m.adx > 25 /\ m.expands -> 88
                     [] (m.adx > 25) # m.expands -> 75
                     [] OTHER -> 65
           Strength(n) == IF n = 3 THEN full ELSE 55
<1>1. /\ w.bars = m.bars /\ w.adx = m.adx /\ w.expands = m.expands
      /\ w.ema = -m.ema /\ w.macd = -m.macd /\ w.di = -m.di
      /\ m.ema \in Int /\ m.macd \in Int /\ m.di \in Int /\ m.bars \in Nat /\ m.adx \in Int
  BY MirrorFields DEF MarketReadings
<1>2. \A i \in 1 .. 3 : side(w)[i] = -side(m)[i] /\ side(m)[i] \in Int
  BY <1>1
<1>3. Agreed(w, 1) = Agreed(m, -1) /\ Agreed(w, -1) = Agreed(m, 1)
  <2> HIDE DEF side
  <2>1. \A i \in 1 .. 3 : (side(w)[i] = 1 <=> side(m)[i] = -1) /\ (side(w)[i] = -1 <=> side(m)[i] = 1)
    BY <1>2
  <2> QED
    BY <2>1
<1> DEFINE up == Cardinality(Agreed(m, 1))
           down == Cardinality(Agreed(m, -1))
<1>4. up \in Nat /\ down \in Nat /\ up + down <= 3
  <2> HIDE DEF side
  <2>1. Agreed(m, 1) \in SUBSET (1 .. 3) /\ Agreed(m, -1) \in SUBSET (1 .. 3)
        /\ Agreed(m, 1) \cap Agreed(m, -1) = {}
    OBVIOUS
  <2> HIDE DEF Agreed
  <2> QED
    BY <2>1, SidesDisjoint
<1>5. full \in 45 .. 92
  <2>1. CASE m.adx > 25 /\ m.expands
    BY <2>1
  <2>2. CASE ~(m.adx > 25 /\ m.expands) /\ ((m.adx > 25) # m.expands)
    BY <2>2
  <2>3. CASE ~(m.adx > 25 /\ m.expands) /\ ~((m.adx > 25) # m.expands)
    BY <2>3
  <2> QED
    BY <2>1, <2>2, <2>3
<1>6. TrendDetector(m) = CASE m.bars < 40 \/ m.adx <= 15 -> Neutral
       [] m.bars >= 40 /\ m.adx > 15 /\ up >= 2 -> Signal("Bullish", Strength(up))
       [] m.bars >= 40 /\ m.adx > 15 /\ down >= 2 -> Signal("Bearish", Strength(down))
       [] OTHER -> Neutral
  BY DEF TrendDetector
<1>7. TrendDetector(w) = CASE m.bars < 40 \/ m.adx <= 15 -> Neutral
       [] m.bars >= 40 /\ m.adx > 15 /\ down >= 2 -> Signal("Bullish", Strength(down))
       [] m.bars >= 40 /\ m.adx > 15 /\ up >= 2 -> Signal("Bearish", Strength(up))
       [] OTHER -> Neutral
  <2> DEFINE upW == Cardinality(Agreed(w, 1))
             downW == Cardinality(Agreed(w, -1))
             fullW == CASE w.adx > 25 /\ w.expands -> 88
                        [] (w.adx > 25) # w.expands -> 75
                        [] OTHER -> 65
             StrengthW(n) == IF n = 3 THEN fullW ELSE 55
  <2>1. TrendDetector(w) = CASE w.bars < 40 \/ w.adx <= 15 -> Neutral
       [] w.bars >= 40 /\ w.adx > 15 /\ upW >= 2 -> Signal("Bullish", StrengthW(upW))
       [] w.bars >= 40 /\ w.adx > 15 /\ downW >= 2 -> Signal("Bearish", StrengthW(downW))
       [] OTHER -> Neutral
    BY DEF TrendDetector
  <2>2. upW = down /\ downW = up
    <3> HIDE DEF Agreed
    <3> QED
      BY <1>3
  <2>3. fullW = full
    <3> HIDE DEF w
    <3> QED
      BY <1>1
  <2> HIDE DEF upW, downW, up, down, fullW, full, w
  <2> QED
    BY <2>1, <2>2, <2>3, <1>1
<1> HIDE DEF up, down, w, full
<1>8. Strength(up) \in 45 .. 92 /\ Strength(down) \in 45 .. 92
  BY <1>5
<1> HIDE DEF Strength
<1>9. TrendDetector(w) = Turned(TrendDetector(m))
  BY <1>1, <1>4, <1>6, <1>7 DEF Turned, Signal, Neutral
<1>10. TrendDetector(m) \in Opinions
  BY <1>1, <1>4, <1>6, <1>8 DEF Opinions, Signal, Neutral
<1> QED
  BY <1>9, <1>10 DEF w

LEMMA StrategySays ==
  ASSUME NEW m \in MarketReadings, NEW id \in Registry
  PROVE  RunStrategy(id, m) \in Opinions /\ RunStrategy(id, Mirror(m)) = Turned(RunStrategy(id, m))
<1>1. CASE id = "ema-cross"
  BY <1>1, EmaCrossSays DEF RunStrategy
<1>2. CASE id = "rsi-momentum"
  BY <1>2, RsiMomentumSays DEF RunStrategy
<1>3. CASE id = "vwap-bias"
  BY <1>3, VwapBiasSays DEF RunStrategy
<1>4. CASE id = "golden-rsi"
  BY <1>4, GoldenRsiSays DEF RunStrategy
<1>5. CASE id = "trend-detector"
  BY <1>5, TrendDetectorSays DEF RunStrategy
<1> QED
  BY <1>1, <1>2, <1>3, <1>4, <1>5 DEF Registry
-----------------------------------------------------------------------------
(* The engine: sums over the strategies of a side. *)

LEMMA RegistryFinite ==
  \A D \in SUBSET Registry : IsFiniteSet(D) /\ Cardinality(D) \in Nat
<1>1. IsFiniteSet({"ema-cross"}) /\ IsFiniteSet({"rsi-momentum"}) /\ IsFiniteSet({"vwap-bias"})
      /\ IsFiniteSet({"golden-rsi"}) /\ IsFiniteSet({"trend-detector"})
  BY FS_Singleton
<1>2. IsFiniteSet({"ema-cross"} \cup {"rsi-momentum"} \cup {"vwap-bias"} \cup {"golden-rsi"}
                  \cup {"trend-detector"})
  BY <1>1, FS_Union
<1>3. IsFiniteSet(Registry)
  <2>1. Registry = {"ema-cross"} \cup {"rsi-momentum"} \cup {"vwap-bias"} \cup {"golden-rsi"}
                   \cup {"trend-detector"}
    BY DEF Registry
  <2> QED
    BY <1>2, <2>1
<1> QED
  BY <1>3, FS_Subset, FS_CardinalityType

LEMMA WeightsOf == \A id \in Registry : Weight(id) \in 15 .. 25
BY DEF Weight, Registry

LEMMA WeightsNat ==
  ASSUME NEW S \in SUBSET Registry
  PROVE  Weights(S) \in Nat /\ \A id \in S : Weights(S) >= Weight(id)
<1> DEFINE f == [id \in Registry |-> Weight(id)]
<1>1. IsFiniteSet(S) /\ \A id \in S : f[id] \in Nat /\ f[id] = Weight(id)
  BY RegistryFinite, WeightsOf
<1> HIDE DEF f
<1>2. SumFunctionOnSet(f, S) \in Nat
  BY <1>1, SumNat
<1>3. \A id \in S : f[id] <= SumFunctionOnSet(f, S)
  BY <1>1, SumAtLeast
<1>4. Weights(S) = SumFunctionOnSet(f, S)
  BY DEF Weights, f
<1>5. \A id \in S : Weight(id) <= SumFunctionOnSet(f, S) /\ Weight(id) \in Nat
  BY <1>1, <1>3
<1> QED
  BY <1>2, <1>4, <1>5

LEMMA OpinionTyped ==
  ASSUME NEW o \in Opinions
  PROVE  /\ o.confidence \in 0 .. 92 /\ o.signal \in {"Neutral", "Bullish", "Bearish"}
         /\ o.signal # "Neutral" => o.confidence \in 45 .. 92
BY DEF Opinions, Neutral, Signal

LEMMA ProductNat == \A a, b \in Nat : a * b \in Nat
OBVIOUS

LEMMA WeightedNat ==
  ASSUME NEW D \in SUBSET Registry, NEW s \in [D -> Opinions], NEW S \in SUBSET D
  PROVE  Weighted(s, S) \in Nat
<1> DEFINE f == [id \in DOMAIN s |-> Weight(id) * s[id].confidence]
<1>1. IsFiniteSet(S)
  BY RegistryFinite
<1>2. \A id \in S : f[id] \in Nat
  <2> SUFFICES ASSUME NEW id \in S PROVE f[id] \in Nat
    OBVIOUS
  <2>1. id \in D /\ id \in Registry /\ DOMAIN s = D
    OBVIOUS
  <2>2. Weight(id) \in Nat /\ s[id].confidence \in Nat
    BY <2>1, WeightsOf, OpinionTyped
  <2>3. Weight(id) * s[id].confidence \in Nat
    BY <2>2, ProductNat
  <2> QED
    BY <2>1, <2>3
<1> HIDE DEF f
<1>3. SumFunctionOnSet(f, S) \in Nat
  BY <1>1, <1>2, SumNat
<1> QED
  BY <1>3 DEF Weighted, f

LEMMA VerdictMirrors ==
  ASSUME NEW D \in SUBSET Registry, NEW s \in [D -> Opinions], NEW t \in [D -> Opinions],
         \A id \in D : t[id] = Turned(s[id])
  PROVE  Verdict(t) = Opposite(Verdict(s))
<1> DEFINE up == Side(s, "Bullish")
           down == Side(s, "Bearish")
           weighed == Weights(up \cup down)
<1>0. DOMAIN s = D /\ DOMAIN t = D
  OBVIOUS
<1>1. \A id \in D : /\ t[id].confidence = s[id].confidence
                    /\ t[id].signal = "Bullish" <=> s[id].signal = "Bearish"
                    /\ t[id].signal = "Bearish" <=> s[id].signal = "Bullish"
  BY DEF Turned, Signal
<1>2. Side(t, "Bullish") = down /\ Side(t, "Bearish") = up
  BY <1>0, <1>1 DEF Side
<1>3. up \in SUBSET D /\ down \in SUBSET D
  BY <1>0 DEF Side
<1>4. \A S : Weighted(t, S) = Weighted(s, S)
  <2>1. [id \in DOMAIN t |-> Weight(id) * t[id].confidence]
        = [id \in DOMAIN s |-> Weight(id) * s[id].confidence]
    BY <1>0, <1>1
  <2> QED
    BY <2>1 DEF Weighted
<1> HIDE DEF up, down
<1>5. \A S, n : Confidence(t, S, n) = Confidence(s, S, n)
  BY <1>4 DEF Confidence
<1> DEFINE a == Weighted(s, up)
           b == Weighted(s, down)
           n == Cardinality(up \cup down)
           bull == Cardinality(up)
           bear == Cardinality(down)
           cu == Confidence(s, up, n)
           cd == Confidence(s, down, n)
<1>6. a \in Nat /\ b \in Nat
  BY <1>3, WeightedNat
<1>7. weighed \in Nat /\ bull \in Nat /\ bear \in Nat
  BY <1>3, WeightsNat, RegistryFinite
<1>8. Verdict(s) = CASE a - b > 15 * weighed /\ bull >= bear -> Says("BULLISH", cu)
                     [] a - b < -15 * weighed /\ bear >= bull -> Says("BEARISH", cd)
                     [] OTHER -> Says("NEUTRAL", 0)
  BY DEF Verdict, Lean, up, down
<1>9. Verdict(t) = CASE b - a > 15 * weighed /\ bear >= bull -> Says("BULLISH", cd)
                     [] b - a < -15 * weighed /\ bull >= bear -> Says("BEARISH", cu)
                     [] OTHER -> Says("NEUTRAL", 0)
  <2>1. down \cup up = up \cup down
    OBVIOUS
  <2>2. Verdict(t) = Lean(t, weighed)
    BY <1>2, <2>1 DEF Verdict
  <2> HIDE DEF weighed
  <2>3. Lean(t, weighed) =
          CASE Weighted(t, down) - Weighted(t, up) > 15 * weighed /\ bear >= bull ->
                 Says("BULLISH", Confidence(t, down, Cardinality(down \cup up)))
            [] Weighted(t, down) - Weighted(t, up) < -15 * weighed /\ bull >= bear ->
                 Says("BEARISH", Confidence(t, up, Cardinality(down \cup up)))
            [] OTHER -> Says("NEUTRAL", 0)
    BY <1>2 DEF Lean
  <2>4. Weighted(t, down) = b /\ Weighted(t, up) = a
        /\ Confidence(t, down, Cardinality(down \cup up)) = cd
        /\ Confidence(t, up, Cardinality(down \cup up)) = cu
    BY <1>4, <1>5, <2>1
  <2> QED
    BY <2>2, <2>3, <2>4
<1> HIDE DEF a, b, n, bull, bear, cu, cd, weighed
<1> QED
  BY <1>6, <1>7, <1>8, <1>9 DEF Opposite, Says

\* Nothing weighed is nothing; so a side that outweighs the other is not empty.
LEMMA WeightedNothing ==
  ASSUME NEW s
  PROVE  Weighted(s, {}) = 0
BY SumEmpty DEF Weighted

LEMMA QuotientNat == \A x \in Nat, y \in Nat \ {0} : Quotient(x, y) \in Nat
<1> SUFFICES ASSUME NEW x \in Nat, NEW y \in Nat \ {0} PROVE Quotient(x, y) \in Nat
  OBVIOUS
<1>1. \A u \in Nat, v \in Nat \ {0} : u \div v \in Nat
  OBVIOUS
<1>2. 2 * x + y \in Nat /\ 2 * y \in Nat \ {0}
  OBVIOUS
<1> QED
  BY <1>1, <1>2 DEF Quotient

LEMMA ConfidenceTyped ==
  ASSUME NEW D \in SUBSET Registry, NEW s \in [D -> Opinions],
         NEW S \in SUBSET D, S # {}, NEW n \in Nat
  PROVE  Confidence(s, S, n) \in 0 .. 92
<1>1. Weighted(s, S) \in Nat
  BY WeightedNat
<1>2. Weights(S) \in Nat \ {0}
  <2>1. PICK id \in S : TRUE
    OBVIOUS
  <2>2. Weights(S) \in Nat /\ Weights(S) >= Weight(id) /\ Weight(id) \in 15 .. 25
    BY <2>1, WeightsNat, WeightsOf
  <2> QED
    BY <2>2
<1> DEFINE q == Quotient(Weighted(s, S), Weights(S))
<1>3. q \in Nat
  BY <1>1, <1>2, QuotientNat
<1> HIDE DEF q
<1>4. Trust(q, n) \in Nat
  <2>1. 7 * q \in Nat /\ 85 * q \in Nat /\ 10 \in Nat \ {0} /\ 100 \in Nat \ {0}
    BY <1>3
  <2>2. Quotient(7 * q, 10) \in Nat /\ Quotient(85 * q, 100) \in Nat
    BY <2>1, QuotientNat
  <2> QED
    BY <1>3, <2>2 DEF Trust
<1>5. Least(Trust(q, n), 92) \in 0 .. 92
  BY <1>4 DEF Least
<1> QED
  BY <1>5 DEF Confidence, q

LEMMA VerdictTyped ==
  ASSUME NEW D \in SUBSET Registry, NEW s \in [D -> Opinions]
  PROVE  Verdict(s) \in [overall : {"BULLISH", "BEARISH", "NEUTRAL"}, confidence : 0 .. 92]
<1> DEFINE up == Side(s, "Bullish")
           down == Side(s, "Bearish")
           weighed == Weights(up \cup down)
           a == Weighted(s, up)
           b == Weighted(s, down)
           n == Cardinality(up \cup down)
<1>1. up \in SUBSET D /\ down \in SUBSET D /\ up \cup down \in SUBSET Registry
  BY DEF Side
<1> HIDE DEF up, down
<1>2. a \in Nat /\ b \in Nat /\ weighed \in Nat /\ n \in Nat
  BY <1>1, WeightedNat, WeightsNat, RegistryFinite
<1>3. (a > 0 => up # {}) /\ (b > 0 => down # {})
  BY WeightedNothing
<1>4. Verdict(s) = CASE a - b > 15 * weighed /\ Cardinality(up) >= Cardinality(down) ->
                          Says("BULLISH", Confidence(s, up, n))
                     [] a - b < -15 * weighed /\ Cardinality(down) >= Cardinality(up) ->
                          Says("BEARISH", Confidence(s, down, n))
                     [] OTHER -> Says("NEUTRAL", 0)
  BY DEF Verdict, Lean, up, down
<1>5. /\ a - b > 15 * weighed => Confidence(s, up, n) \in 0 .. 92
      /\ a - b < -15 * weighed => Confidence(s, down, n) \in 0 .. 92
  <2> HIDE DEF a, b, n, weighed
  <2>1. (a - b > 15 * weighed => a > 0) /\ (a - b < -15 * weighed => b > 0)
    BY <1>2
  <2> QED
    BY <1>1, <1>2, <1>3, <2>1, ConfidenceTyped
<1> HIDE DEF a, b, n, weighed
<1> QED
  BY <1>2, <1>4, <1>5 DEF Says

\* One more for the side that leads, or for none, leaves it in the lead: what it adds to
\* the sum is at least fifteen times the weight that it adds.
LEMMA OneMoreNeutral ==
  ASSUME NEW D \in SUBSET Registry, NEW id \in Registry \ D, NEW s \in [D -> Opinions],
         NEW t \in [D \cup {id} -> Opinions], \A x \in D : t[x] = s[x],
         t[id].signal = "Neutral"
  PROVE  Verdict(t).overall = Verdict(s).overall
<1>1. Side(t, "Bullish") = Side(s, "Bullish") /\ Side(t, "Bearish") = Side(s, "Bearish")
  BY DEF Side
<1>2. ASSUME NEW S \in SUBSET D PROVE Weighted(t, S) = Weighted(s, S)
  <2> DEFINE f == [x \in DOMAIN s |-> Weight(x) * s[x].confidence]
             g == [x \in DOMAIN t |-> Weight(x) * t[x].confidence]
  <2>1. \A x \in S : f[x] \in Int /\ g[x] = f[x]
    <3> SUFFICES ASSUME NEW x \in S PROVE f[x] \in Int /\ g[x] = f[x]
      OBVIOUS
    <3>1. Weight(x) \in Int /\ s[x].confidence \in Int /\ x \in D
      BY WeightsOf, OpinionTyped
    <3>2. Weight(x) * s[x].confidence \in Int
      BY <3>1
    <3> QED
      BY <3>1, <3>2
  <2>2. IsFiniteSet(S)
    BY RegistryFinite
  <2> HIDE DEF f, g
  <2>3. SumFunctionOnSet(g, S) = SumFunctionOnSet(f, S)
    BY <2>1, <2>2, SumAgrees
  <2> QED
    BY <2>3 DEF Weighted, f, g
<1>3. Side(s, "Bullish") \in SUBSET D /\ Side(s, "Bearish") \in SUBSET D
  BY DEF Side
<1>4. /\ Weighted(t, Side(s, "Bullish")) = Weighted(s, Side(s, "Bullish"))
      /\ Weighted(t, Side(s, "Bearish")) = Weighted(s, Side(s, "Bearish"))
  BY <1>2, <1>3
<1> QED
  <2>1. Verdict(t) = Verdict(s)
    BY <1>1, <1>4 DEF Verdict, Lean, Confidence
  <2> QED
    BY <2>1

LEMMA OneMoreBullish ==
  ASSUME NEW D \in SUBSET Registry, NEW id \in Registry \ D, NEW s \in [D -> Opinions],
         NEW t \in [D \cup {id} -> Opinions], \A x \in D : t[x] = s[x],
         t[id].signal = "Bullish", Verdict(s).overall = "BULLISH"
  PROVE  Verdict(t).overall = "BULLISH"
<1> DEFINE up == Side(s, "Bullish")
           down == Side(s, "Bearish")
           weighed == Weights(up \cup down)
           a == Weighted(s, up)
           b == Weighted(s, down)
           w == Weight(id)
           c == t[id].confidence
           bull == Cardinality(up)
           bear == Cardinality(down)
<1>1. up \in SUBSET D /\ down \in SUBSET D /\ id \notin up /\ id \notin down
      /\ Side(t, "Bullish") = up \cup {id} /\ Side(t, "Bearish") = down
  BY DEF Side
<1>2. w \in 15 .. 25 /\ c \in 45 .. 92
  BY WeightsOf, OpinionTyped
<1> HIDE DEF up, down
<1> DEFINE g == [x \in DOMAIN t |-> Weight(x) * t[x].confidence]
           f == [x \in DOMAIN s |-> Weight(x) * s[x].confidence]
<1>3. /\ \A x \in D \cup {id} : g[x] \in Nat
      /\ \A x \in D : g[x] = f[x]
      /\ g[id] = w * c
  <2>1. ASSUME NEW x \in D \cup {id} PROVE g[x] \in Nat
    <3>1. Weight(x) \in Nat /\ t[x].confidence \in Nat
      BY WeightsOf, OpinionTyped
    <3>2. Weight(x) * t[x].confidence \in Nat
      BY <3>1, ProductNat
    <3> QED
      BY <3>2
  <2> QED
    BY <2>1
<1> HIDE DEF f, g
<1>4. ASSUME NEW S \in SUBSET D PROVE SumFunctionOnSet(g, S) = SumFunctionOnSet(f, S)
  <2>1. IsFiniteSet(S) /\ \A x \in S : f[x] \in Int /\ g[x] = f[x]
    BY <1>3, RegistryFinite
  <2> QED
    BY <2>1, SumAgrees
<1>5. Weighted(t, up \cup {id}) = w * c + a /\ Weighted(t, down) = b
  <2>1. IsFiniteSet(up) /\ \A x \in up \cup {id} : g[x] \in Int
    BY <1>1, <1>3, RegistryFinite
  <2>2. SumFunctionOnSet(g, up \cup {id}) = g[id] + SumFunctionOnSet(g, up)
    BY <1>1, <2>1, SumAddElement
  <2> QED
    BY <1>1, <1>3, <1>4, <2>2 DEF Weighted, f, g
<1>6. Weights((up \cup {id}) \cup down) = w + weighed
  <2> DEFINE h == [x \in Registry |-> Weight(x)]
  <2>1. IsFiniteSet(up \cup down) /\ id \notin up \cup down
    BY <1>1, RegistryFinite
  <2>2. \A x \in (up \cup down) \cup {id} : h[x] \in Int
    BY <1>1, WeightsOf
  <2>3. h[id] = w
    OBVIOUS
  <2> HIDE DEF h
  <2>4. SumFunctionOnSet(h, (up \cup down) \cup {id}) = h[id] + SumFunctionOnSet(h, up \cup down)
    BY <2>1, <2>2, SumAddElement
  <2>5. (up \cup {id}) \cup down = (up \cup down) \cup {id}
    OBVIOUS
  <2> QED
    BY <2>3, <2>4, <2>5 DEF Weights, h
<1>7. Cardinality(up \cup {id}) = bull + 1 /\ bull \in Nat /\ bear \in Nat
  BY <1>1, RegistryFinite, FS_AddElement
<1>8. a \in Nat /\ b \in Nat /\ weighed \in Nat
  <2>1. up \cup down \in SUBSET Registry
    BY <1>1
  <2> QED
    BY <1>1, <2>1, WeightedNat, WeightsNat
<1>9. a - b > 15 * weighed /\ bull >= bear
  <2>1. Verdict(s) = CASE a - b > 15 * weighed /\ bull >= bear ->
                            Says("BULLISH", Confidence(s, up, Cardinality(up \cup down)))
                       [] a - b < -15 * weighed /\ bear >= bull ->
                            Says("BEARISH", Confidence(s, down, Cardinality(up \cup down)))
                       [] OTHER -> Says("NEUTRAL", 0)
    BY DEF Verdict, Lean, up, down
  <2> HIDE DEF a, b, weighed, bull, bear
  <2> QED
    BY <2>1 DEF Says
<1> DEFINE more == Weights((up \cup {id}) \cup down)
           both == Cardinality((up \cup {id}) \cup down)
           lead == Weighted(t, up \cup {id}) - Weighted(t, down)
<1>10. Verdict(t) = CASE lead > 15 * more /\ Cardinality(up \cup {id}) >= bear ->
                            Says("BULLISH", Confidence(t, up \cup {id}, both))
                      [] lead < -15 * more /\ bear >= Cardinality(up \cup {id}) ->
                            Says("BEARISH", Confidence(t, down, both))
                      [] OTHER -> Says("NEUTRAL", 0)
  BY <1>1 DEF Verdict, Lean
<1>11. lead = w * c + a - b /\ more = w + weighed
  <2>1. w * c \in Nat
    BY <1>2, ProductNat
  <2> HIDE DEF a, b, weighed, w, c
  <2> QED
    BY <1>5, <1>6, <1>8, <2>1
<1>12. w * c >= 15 * w /\ w * c \in Nat
  <2> HIDE DEF w, c
  <2>1. \A x \in Nat, y \in Nat : y >= 15 => x * y >= 15 * x
    OBVIOUS
  <2> QED
    BY <1>2, <2>1, ProductNat
<1>13. lead > 15 * more /\ ~(lead < -15 * more)
  <2> DEFINE p == w * c
  <2>1. p \in Nat /\ p >= 15 * w /\ lead = p + a - b
    BY <1>11, <1>12
  <2> HIDE DEF p, w, a, b, weighed, lead, more
  <2> QED
    BY <1>2, <1>8, <1>9, <1>11, <2>1
<1>14. Cardinality(up \cup {id}) >= bear
  <2> HIDE DEF bull, bear
  <2> QED
    BY <1>7, <1>9
<1> HIDE DEF lead, more, both, bear
<1> QED
  BY <1>10, <1>13, <1>14 DEF Says

\* The mirror makes one case of the two.
LEMMA TurnedTyped == \A o \in Opinions : Turned(o) \in Opinions
BY DEF Opinions, Turned, Signal, Neutral

LEMMA OneMoreBearish ==
  ASSUME NEW D \in SUBSET Registry, NEW id \in Registry \ D, NEW s \in [D -> Opinions],
         NEW t \in [D \cup {id} -> Opinions], \A x \in D : t[x] = s[x],
         t[id].signal = "Bearish", Verdict(s).overall = "BEARISH"
  PROVE  Verdict(t).overall = "BEARISH"
<1> DEFINE u == [x \in D |-> Turned(s[x])]
           v == [x \in D \cup {id} |-> Turned(t[x])]
<1>1. u \in [D -> Opinions] /\ v \in [D \cup {id} -> Opinions]
      /\ (\A x \in D : u[x] = Turned(s[x])) /\ (\A x \in D \cup {id} : v[x] = Turned(t[x]))
  BY TurnedTyped
<1>2. \A x \in D : v[x] = u[x]
  BY <1>1
<1>3. v[id].signal = "Bullish"
  BY <1>1 DEF Turned, Signal
<1> HIDE DEF u, v
<1>4. D \cup {id} \in SUBSET Registry
  OBVIOUS
<1>5. Verdict(u) = Opposite(Verdict(s))
  BY <1>1, VerdictMirrors
<1>6. Verdict(v) = Opposite(Verdict(t))
  BY <1>1, <1>4, VerdictMirrors
<1>7. Verdict(u).overall = "BULLISH"
  BY <1>5 DEF Opposite, Says
<1>8. Verdict(v).overall = "BULLISH"
  BY <1>1, <1>2, <1>3, <1>7, OneMoreBullish
<1>9. Verdict(t).overall \in {"BULLISH", "BEARISH", "NEUTRAL"}
  BY <1>4, VerdictTyped
<1> QED
  BY <1>6, <1>8, <1>9 DEF Opposite, Says
-----------------------------------------------------------------------------
(* What the chart shows is what the engine says of the candles with the strategies that are
enabled; nothing is said before there are candles. *)

EngineInv ==
  /\ EngineTypeOK
  /\ market # NoMarket => engineOutput = RunEngine(EnabledIds(enabledMap), market)

\* The opinions of the strategies that run.
Considered(enabled) == IF enabled = {} THEN Registry ELSE enabled
SignalsOf(D, m) == [id \in D |-> RunStrategy(id, m)]

LEMMA RunningSays ==
  ASSUME NEW E \in SUBSET Registry, NEW m \in MarketReadings
  PROVE  /\ Considered(E) \in SUBSET Registry
         /\ SignalsOf(Considered(E), m) \in [Considered(E) -> Opinions]
         /\ RunEngine(E, m) = Verdict(SignalsOf(Considered(E), m))
<1>1. Considered(E) \in SUBSET Registry
  BY DEF Considered
<1>2. \A id \in Considered(E) : RunStrategy(id, m) \in Opinions
  BY <1>1, StrategySays
<1>3. SignalsOf(Considered(E), m) \in [Considered(E) -> Opinions]
  BY <1>2 DEF SignalsOf
<1>4. RunEngine(E, m) = Verdict(SignalsOf(Considered(E), m))
  BY DEF RunEngine, SignalsOf, Considered
<1> QED
  BY <1>1, <1>3, <1>4

Verdicts == [overall : {"BULLISH", "BEARISH", "NEUTRAL"}, confidence : 0 .. 92]

LEMMA EngineSays ==
  ASSUME NEW map, NEW m \in MarketReadings
  PROVE  RunEngine(EnabledIds(map), m) \in Verdicts
<1>1. EnabledIds(map) \in SUBSET Registry
  BY DEF EnabledIds
<1> QED
  BY <1>1, RunningSays, VerdictTyped DEF Verdicts

LEMMA EngineMirrors ==
  ASSUME NEW E \in SUBSET Registry, NEW m \in MarketReadings
  PROVE  RunEngine(E, Mirror(m)) = Opposite(RunEngine(E, m))
<1> DEFINE D == Considered(E)
           s == SignalsOf(D, m)
           t == SignalsOf(D, Mirror(m))
<1>1. Mirror(m) \in MarketReadings
  BY MirrorFields
<1>2. D \in SUBSET Registry /\ s \in [D -> Opinions] /\ t \in [D -> Opinions]
      /\ RunEngine(E, m) = Verdict(s) /\ RunEngine(E, Mirror(m)) = Verdict(t)
  BY <1>1, RunningSays
<1>3. \A id \in D : t[id] = Turned(s[id])
  BY <1>2, StrategySays DEF SignalsOf
<1> HIDE DEF D, s, t
<1> QED
  BY <1>2, <1>3, VerdictMirrors

LEMMA SilentVerdict == Says("NEUTRAL", 0) \in Verdicts
BY DEF Says, Verdicts

LEMMA EngineInvInit == EngineInit => EngineInv
BY SilentVerdict DEF EngineInit, EngineInv, EngineTypeOK, Verdicts

LEMMA EngineInvNext == EngineInv /\ [EngineNext]_engineVars => EngineInv'
<1> SUFFICES ASSUME EngineInv, [EngineNext]_engineVars PROVE EngineInv'
  OBVIOUS
<1>t. /\ market \in Markets \cup {NoMarket} /\ enabledMap \in [Registry -> BOOLEAN]
      /\ stored \in [Registry -> BOOLEAN] /\ engineOutput \in Verdicts
  BY DEF EngineInv, EngineTypeOK, Verdicts
<1>o. ASSUME NEW map, NEW m \in Markets \cup {NoMarket}
      PROVE  /\ Output(map, m) \in Verdicts
             /\ m # NoMarket => Output(map, m) = RunEngine(EnabledIds(map), m)
  BY <1>t, EngineAssumption, EngineSays DEF Output
<1>1. CASE ReloadWorkspace
  BY <1>1, <1>t, SilentVerdict DEF ReloadWorkspace, EngineInv, EngineTypeOK, Verdicts
<1>2. CASE CandlesChange
  <2>1. PICK m \in Markets \cup {NoMarket} :
          /\ market' = m /\ engineOutput' = Output(enabledMap, m)
          /\ UNCHANGED <<enabledMap, stored>>
    BY <1>2 DEF CandlesChange
  <2>2. engineOutput' \in Verdicts
        /\ (m # NoMarket => engineOutput' = RunEngine(EnabledIds(enabledMap), m))
    BY <2>1, <1>o
  <2> QED
    BY <1>t, <2>1, <2>2 DEF EngineInv, EngineTypeOK, Verdicts
<1>3. ASSUME NEW id \in Registry, ToggleStrategy(id) PROVE EngineInv'
  <2>1. /\ enabledMap' = [enabledMap EXCEPT ![id] = ~enabledMap[id]] /\ stored' = enabledMap'
        /\ engineOutput' = Output(enabledMap', market) /\ market' = market
    BY <1>3 DEF ToggleStrategy
  <2>2. enabledMap' \in [Registry -> BOOLEAN]
    BY <1>t, <2>1
  <2>3. engineOutput' \in Verdicts
        /\ (market # NoMarket => engineOutput' = RunEngine(EnabledIds(enabledMap'), market))
    BY <1>t, <2>1, <1>o
  <2> QED
    BY <1>t, <2>1, <2>2, <2>3 DEF EngineInv, EngineTypeOK, Verdicts
<1>4. CASE UNCHANGED engineVars
  BY <1>4 DEF engineVars, EngineInv, EngineTypeOK
<1> QED
  BY <1>1, <1>2, <1>3, <1>4 DEF EngineNext

\* The engine takes no side: on the candles upside down each strategy says the opposite
\* as surely, and so does the verdict, whatever the indicators read and whichever
\* strategies are enabled (strategyEngine.js:42-137 and the five strategies).
THEOREM EngineTakesNoSide == EngineSpec => []MirrorSymmetric
<1>1. EngineInv => MirrorSymmetric
  <2> SUFFICES ASSUME EngineInv, market # NoMarket
               PROVE  RunEngine(EnabledIds(enabledMap), Mirror(market))
                        = Opposite(RunEngine(EnabledIds(enabledMap), market))
    BY DEF MirrorSymmetric
  <2>1. market \in MarketReadings /\ EnabledIds(enabledMap) \in SUBSET Registry
    BY EngineAssumption DEF EngineInv, EngineTypeOK, EnabledIds
  <2> QED
    BY <2>1, EngineMirrors
<1> QED
  BY <1>1, EngineInvInit, EngineInvNext, PTL DEF EngineSpec

LEMMA AgreementKept ==
  ASSUME EngineInv, [EngineNext]_engineVars, NEW id \in Registry,
         market # NoMarket, UNCHANGED market, EnabledIds(enabledMap) # {},
         ~enabledMap[id], enabledMap'[id],
         <<RunStrategy(id, market).signal, engineOutput.overall>>
            \in {<<"Bullish", "BULLISH">>, <<"Bearish", "BEARISH">>}
                 \cup {"Neutral"} \X {"BULLISH", "BEARISH", "NEUTRAL"}
  PROVE  engineOutput'.overall = engineOutput.overall
<1> DEFINE D == EnabledIds(enabledMap)
           s == SignalsOf(D, market)
           t == SignalsOf(D \cup {id}, market)
<1>1. /\ market \in MarketReadings /\ D \in SUBSET Registry /\ id \in Registry \ D
      /\ enabledMap \in [Registry -> BOOLEAN]
  BY EngineAssumption DEF EngineInv, EngineTypeOK, EnabledIds
<1>2. PICK x \in Registry : ToggleStrategy(x)
  BY DEF EngineNext, ReloadWorkspace, CandlesChange, engineVars
<1>3. EnabledIds(enabledMap') = D \cup {id} /\ engineOutput' = RunEngine(D \cup {id}, market)
  <2>1. /\ enabledMap' = [enabledMap EXCEPT ![x] = ~enabledMap[x]]
        /\ engineOutput' = Output(enabledMap', market)
    BY <1>2 DEF ToggleStrategy
  <2>2. x = id
    BY <1>1, <2>1
  <2>3. EnabledIds(enabledMap') = D \cup {id}
    BY <1>1, <2>1, <2>2 DEF EnabledIds
  <2> QED
    BY <2>1, <2>3 DEF Output
<1>4. /\ engineOutput = Verdict(s) /\ s \in [D -> Opinions]
  <2>1. Considered(D) = D /\ engineOutput = RunEngine(D, market)
    BY DEF Considered, EngineInv
  <2> HIDE DEF D
  <2> QED
    BY <1>1, <2>1, RunningSays
<1>5. /\ engineOutput' = Verdict(t) /\ t \in [D \cup {id} -> Opinions]
  <2>1. D \cup {id} \in SUBSET Registry /\ Considered(D \cup {id}) = D \cup {id}
    BY <1>1 DEF Considered
  <2> HIDE DEF D
  <2> QED
    BY <1>1, <1>3, <2>1, RunningSays
<1>6. (\A y \in D : t[y] = s[y]) /\ t[id] = RunStrategy(id, market)
  BY DEF SignalsOf
<1> HIDE DEF D, s, t
<1>7. CASE t[id].signal = "Neutral"
  BY <1>1, <1>4, <1>5, <1>6, <1>7, OneMoreNeutral
<1>8. CASE t[id].signal = "Bullish" /\ Verdict(s).overall = "BULLISH"
  BY <1>1, <1>4, <1>5, <1>6, <1>8, OneMoreBullish
<1>9. CASE t[id].signal = "Bearish" /\ Verdict(s).overall = "BEARISH"
  BY <1>1, <1>4, <1>5, <1>6, <1>9, OneMoreBearish
<1> QED
  BY <1>4, <1>6, <1>7, <1>8, <1>9

\* Enabling one more strategy that agrees with the verdict on the chart, or has no
\* opinion, leaves the verdict, whatever the weights and the confidences add up to
\* (strategyEngine.js:79-120).
THEOREM AgreementNeverTurns == EngineSpec => AgreementHolds
<1>1. EngineInv /\ [EngineNext]_engineVars =>
        [\A id \in Registry :
           /\ market # NoMarket /\ UNCHANGED market
           /\ EnabledIds(enabledMap) # {}
           /\ ~enabledMap[id] /\ enabledMap'[id]
           /\ <<RunStrategy(id, market).signal, engineOutput.overall>>
                \in {<<"Bullish", "BULLISH">>, <<"Bearish", "BEARISH">>}
                     \cup {"Neutral"} \X {"BULLISH", "BEARISH", "NEUTRAL"}
           => engineOutput'.overall = engineOutput.overall]_engineVars
  BY AgreementKept
<1> QED
  BY <1>1, EngineInvInit, EngineInvNext, PTL DEF EngineSpec, AgreementHolds
-----------------------------------------------------------------------------
(* Quotients, greatest and least elements *)

\* What the whole quotient of two numbers is between.
LEMMA QuotientBounds ==
  ASSUME NEW a \in Int, NEW b \in Nat \ {0}, NEW q, q = a \div b
  PROVE  q \in Int /\ q * b <= a /\ a < (q + 1) * b
OBVIOUS

\* A product with a natural number keeps the order.
LEMMA ProductGrows ==
  ASSUME NEW a \in Int, NEW b \in Int, a <= b, NEW k \in Nat, NEW c, c = a * k, NEW d, d = b * k
  PROVE  c <= d
<1>1. b - a \in Nat
  OBVIOUS
<1>2. (b - a) * k \in Nat
  BY <1>1
<1>3. d - c = (b - a) * k
  OBVIOUS
<1> QED
  BY <1>2, <1>3

Between(x, lo, hi) == x \in Int /\ lo <= x /\ x <= hi
AllBetween(d, W, lo, hi) == \A j \in W : Between(d[j], lo, hi)
AllNat(d, W) == \A j \in W : d[j] \in Nat

\* A quotient is between two numbers if the dividend is between their multiples.
LEMMA QuotientBetween ==
  ASSUME NEW a \in Int, NEW b \in Nat \ {0}, NEW q, q = a \div b,
         NEW lo \in Int, NEW hi \in Int, lo * b <= a, a <= hi * b
  PROVE  Between(q, lo, hi)
<1>1. q \in Int /\ q * b <= a /\ a < (q + 1) * b
  BY QuotientBounds
<1>2. lo < q + 1
  <2>1. lo * b < (q + 1) * b
    BY <1>1
  <2> QED BY <1>1, <2>1
<1>3. q < hi + 1
  <2>1. q * b < (hi + 1) * b
    BY <1>1
  <2> QED BY <1>1, <2>1
<1> QED
  BY <1>1, <1>2, <1>3 DEF Between

\* The quotient of naturals is natural.
LEMMA QuotientIsNat ==
  ASSUME NEW a \in Nat, NEW b \in Nat \ {0}
  PROVE  a \div b \in Nat
<1>1. PICK q : q = a \div b
  OBVIOUS
<1>2. q \in Int /\ a < (q + 1) * b
  BY <1>1, QuotientBounds
<1> QED
  BY <1>1, <1>2

\* The greatest of a finite set of integers, and the least.
LEMMA MaxOfFinite ==
  ASSUME NEW S \in SUBSET Int, IsFiniteSet(S), S # {}
  PROVE  Max(S) \in S /\ \A y \in S : Max(S) >= y
<1> DEFINE F == {T \in SUBSET S : T # {} => \E x \in T : \A y \in T : x >= y}
<1>1. {} \in F
  OBVIOUS
<1>2. \A T \in SUBSET S : \A x \in S \ T : T \in F => T \cup {x} \in F
  OBVIOUS
<1> HIDE DEF F
<1>3. S \in F
  BY <1>1, <1>2, FiniteSetInduction
<1>4. \E x \in S : \A y \in S : x >= y
  BY <1>3 DEF F
<1> QED
  BY <1>4 DEF Max

LEMMA MinOfFinite ==
  ASSUME NEW S \in SUBSET Int, IsFiniteSet(S), S # {}
  PROVE  Min(S) \in S /\ \A y \in S : Min(S) <= y
<1> DEFINE F == {T \in SUBSET S : T # {} => \E x \in T : \A y \in T : x <= y}
<1>1. {} \in F
  OBVIOUS
<1>2. \A T \in SUBSET S : \A x \in S \ T : T \in F => T \cup {x} \in F
  OBVIOUS
<1> HIDE DEF F
<1>3. S \in F
  BY <1>1, <1>2, FiniteSetInduction
<1>4. \E x \in S : \A y \in S : x <= y
  BY <1>3 DEF F
<1> QED
  BY <1>4 DEF Min
-----------------------------------------------------------------------------
(* Averages *)

\* The sum of a constant is a product.
LEMMA SumOfConstant ==
  ASSUME NEW c \in Int, NEW f, NEW S, IsFiniteSet(S), \A x \in S : f[x] = c
  PROVE  SumFunctionOnSet(f, S) = c * Cardinality(S)
<1> DEFINE F == {T \in SUBSET S : SumFunctionOnSet(f, T) = c * Cardinality(T)}
<1>1. {} \in F
  BY SumEmpty, FS_EmptySet
<1>2. ASSUME NEW T \in SUBSET S, NEW x \in S \ T, T \in F PROVE T \cup {x} \in F
  <2>1. IsFiniteSet(T) /\ Cardinality(T) \in Nat
    BY FS_Subset, FS_CardinalityType
  <2>2. Cardinality(T \cup {x}) = Cardinality(T) + 1
    BY <2>1, FS_AddElement
  <2>3. SumFunctionOnSet(f, T \cup {x}) = f[x] + SumFunctionOnSet(f, T)
    BY <2>1, SumAddElement
  <2>4. f[x] = c /\ SumFunctionOnSet(f, T) = c * Cardinality(T)
    BY <1>2
  <2>5. c + c * Cardinality(T) = c * (Cardinality(T) + 1)
    BY <2>1
  <2> QED BY <2>2, <2>3, <2>4, <2>5
<1> HIDE DEF F
<1>3. S \in F
  BY <1>1, <1>2, FiniteSetInduction
<1> QED
  BY <1>3 DEF F

\* An average is between the bounds of what it averages.
LEMMA AverageBetween ==
  ASSUME NEW d, NEW W, IsFiniteSet(W), W # {}, NEW lo \in Int, NEW hi \in Int,
         AllBetween(d, W, lo, hi)
  PROVE  Between(Average(d, W), lo, hi)
<1> DEFINE low == [j \in W |-> lo]  high == [j \in W |-> hi]  n == Cardinality(W)
<1>1. n \in Nat \ {0}
  BY FS_CardinalityType, FS_EmptySet
<1>2. SumFunctionOnSet(low, W) = lo * n /\ SumFunctionOnSet(high, W) = hi * n
  <2>1. \A j \in W : low[j] = lo /\ high[j] = hi
    OBVIOUS
  <2> HIDE DEF low, high
  <2> QED BY <2>1, SumOfConstant
<1>3. SumFunctionOnSet(low, W) <= SumFunctionOnSet(d, W)
      /\ SumFunctionOnSet(d, W) <= SumFunctionOnSet(high, W)
  <2>1. \A j \in W : low[j] = lo /\ high[j] = hi
    OBVIOUS
  <2>2. \A j \in W : d[j] \in Int /\ lo <= d[j] /\ d[j] <= hi
    BY DEF AllBetween, Between
  <2> HIDE DEF low, high
  <2> QED BY <2>1, <2>2, SumAtMost
<1>4. SumFunctionOnSet(d, W) \in Int
  BY SumInt DEF AllBetween, Between
<1> HIDE DEF low, high, n
<1>5. PICK a \in Int : a = SumFunctionOnSet(d, W)
  BY <1>4
<1>6. Average(d, W) = a \div n
  BY <1>5 DEF Average, SumOver, n
<1>7. lo * n <= a /\ a <= hi * n
  BY <1>2, <1>3, <1>5
<1> QED
  BY <1>1, <1>6, <1>7, QuotientBetween

\* An average of integers is an integer, of naturals a natural number.
LEMMA AverageInt ==
  ASSUME NEW d, NEW W, IsFiniteSet(W), W # {}, \A j \in W : d[j] \in Int
  PROVE  Average(d, W) \in Int
<1>1. Cardinality(W) \in Nat \ {0}
  BY FS_CardinalityType, FS_EmptySet
<1>2. SumFunctionOnSet(d, W) \in Int
  BY SumInt
<1> QED
  BY <1>1, <1>2, QuotientBounds DEF Average, SumOver

LEMMA AverageNat ==
  ASSUME NEW d, NEW W, IsFiniteSet(W), W # {}, AllNat(d, W)
  PROVE  Average(d, W) \in Nat
<1>1. Cardinality(W) \in Nat \ {0}
  BY FS_CardinalityType, FS_EmptySet
<1>2. SumFunctionOnSet(d, W) \in Nat
  BY SumNat DEF AllNat
<1> QED
  BY <1>1, <1>2, QuotientIsNat DEF Average, SumOver

\* The window of p indices that ends at i.
LEMMA WindowIsFinite ==
  ASSUME NEW i \in Int, NEW p \in Nat \ {0}
  PROVE  /\ IsFiniteSet(Window(i, p)) /\ Window(i, p) # {} /\ i \in Window(i, p)
         /\ \A j \in Window(i, p) : j \in Int /\ i - p + 1 <= j /\ j <= i
         /\ Cardinality(Window(i, p)) = p
<1>1. i - p + 1 \in Int /\ i - p + 1 <= i
  OBVIOUS
<1>2. IsFiniteSet(i - p + 1 .. i) /\ Cardinality(i - p + 1 .. i) = i - (i - p + 1) + 1
  BY <1>1, FS_Interval
<1> QED
  BY <1>1, <1>2 DEF Window
-----------------------------------------------------------------------------
(* Series that are computed from each value to the next *)

\* A set that has the first index, and with each index the next.
Passes(G, s, n) ==
  /\ s <= n => s \in G
  /\ \A i \in s .. n : i # s /\ i - 1 \in G => i \in G

\* It has every index of the interval.
LEMMA IntervalInduction ==
  ASSUME NEW s \in Int, NEW n \in Int, NEW G, Passes(G, s, n)
  PROVE  \A i \in s .. n : i \in G
<1> DEFINE T == {m \in Nat : s + m <= n => s + m \in G}
<1>1. 0 \in T
  BY DEF Passes
<1>2. ASSUME NEW m \in T PROVE m + 1 \in T
  <2>1. m \in Nat /\ (s + m <= n => s + m \in G)
    BY <1>2
  <2>2. CASE s + (m + 1) <= n
    <3>1. PICK i \in s .. n : i = s + (m + 1) /\ i # s /\ i - 1 = s + m
      BY <2>1, <2>2
    <3>2. i - 1 \in G
      BY <2>1, <2>2, <3>1
    <3>3. i \in G
      BY <3>1, <3>2 DEF Passes
    <3> QED BY <2>1, <3>1, <3>3
  <2>3. CASE ~(s + (m + 1) <= n)
    BY <2>1, <2>3
  <2> QED BY <2>2, <2>3
<1> HIDE DEF T
<1>3. T = Nat
  BY <1>1, <1>2, NatSetInduction DEF T
<1>4. SUFFICES ASSUME NEW i \in s .. n PROVE i \in G
  OBVIOUS
<1>5. i - s \in Nat /\ s + (i - s) = i /\ i <= n
  BY <1>4
<1> QED
  BY <1>3, <1>5 DEF T

\* A function that has the base at s and makes each step of h after it.
Follows(g, s, n, base, h) ==
  \A i \in s .. n : g[i] = IF i = s THEN base ELSE h[<<g[i - 1], i>>]

\* The base is in V, and the step h does not leave it.
StaysIn(V, base, h, s, n) == base \in V /\ \A v \in V, i \in s .. n : h[<<v, i>>] \in V

\* There is such a function, with values in V.
LEMMA IntervalRecursion ==
  ASSUME NEW s \in Int, NEW n \in Int, NEW V, NEW base, NEW h, StaysIn(V, base, h, s, n)
  PROVE  \E g \in [s .. n -> V] : Follows(g, s, n, base, h)
<1> DEFINE T == {m \in Nat : s + m <= n =>
        \E g \in [s .. s + m -> V] : Follows(g, s, s + m, base, h)}
<1>1. 0 \in T
  <2>1. s + 0 = s /\ s .. s = {s}
    OBVIOUS
  <2> DEFINE g == [i \in {s} |-> base]
  <2>2. g \in [{s} -> V] /\ Follows(g, s, s, base, h)
    BY <2>1 DEF Follows, StaysIn
  <2> QED BY <2>1, <2>2
<1>2. ASSUME NEW m \in T PROVE m + 1 \in T
  <2>1. m \in Nat
    BY <1>2
  <2>2. SUFFICES ASSUME s + (m + 1) <= n
                 PROVE \E g \in [s .. s + (m + 1) -> V] : Follows(g, s, s + (m + 1), base, h)
    BY <2>1
  <2>3. s + m <= n
    BY <2>1, <2>2
  <2>4. PICK f \in [s .. s + m -> V] : Follows(f, s, s + m, base, h)
    BY <1>2, <2>3
  <2>5. PICK k : k = s + (m + 1)
    OBVIOUS
  <2>6. k \in s .. n /\ k # s /\ k - 1 \in s .. s + m /\ s + m = k - 1
        /\ s .. k = (s .. s + m) \cup {k} /\ k \notin s .. s + m
        /\ \A i \in s .. s + m : i # s => i - 1 \in s .. s + m
    BY <2>1, <2>2, <2>5
  <2>7. f[k - 1] \in V /\ h[<<f[k - 1], k>>] \in V
    BY <2>4, <2>6 DEF StaysIn
  <2> DEFINE g == [i \in s .. k |-> IF i = k THEN h[<<f[k - 1], k>>] ELSE f[i]]
  <2>8. g \in [s .. k -> V]
    BY <2>4, <2>6, <2>7
  <2>9. \A i \in s .. s + m : g[i] = f[i] /\ (i # s => g[i - 1] = f[i - 1])
    BY <2>6
  <2>10. g[k] = h[<<g[k - 1], k>>]
    BY <2>6, <2>9
  <2> HIDE DEF g
  <2>11. Follows(g, s, k, base, h)
    BY <2>4, <2>6, <2>9, <2>10 DEF Follows
  <2> QED BY <2>5, <2>8, <2>11
<1> HIDE DEF T
<1>3. T = Nat
  BY <1>1, <1>2, NatSetInduction DEF T
<1>4. CASE s <= n
  <2>1. PICK m \in Nat : s + m = n
    <3>1. n - s \in Nat /\ s + (n - s) = n
      BY <1>4
    <3> QED BY <3>1
  <2>2. m \in T
    BY <1>3
  <2>3. s + m <= n => \E g \in [s .. s + m -> V] : Follows(g, s, s + m, base, h)
    BY <2>2 DEF T
  <2> QED BY <2>1, <2>3
<1>5. CASE ~(s <= n)
  <2>1. s .. n = {}
    BY <1>5
  <2>2. PICK e : e = [i \in s .. n |-> base]
    OBVIOUS
  <2>3. e \in [s .. n -> V] /\ Follows(e, s, n, base, h)
    BY <2>1, <2>2 DEF Follows, StaysIn
  <2> QED BY <2>3
<1> QED
  BY <1>4, <1>5

\* What a Wilder average is at each index.
IsWilder(w, x, s, p, n) ==
  \A i \in s .. n :
    w[i] = IF i = s THEN Average(x, Window(s, p)) ELSE (w[i - 1] * (p - 1) + x[i]) \div p

\* It is computed as it is defined.
LEMMA WilderSteps ==
  ASSUME NEW x, NEW s \in Int, NEW p \in Nat \ {0}, NEW n \in Int,
         \A i \in s - p + 1 .. n : x[i] \in Int, NEW w, w = Wilder(x, s, p, n)
  PROVE  w \in [s .. n -> Int] /\ IsWilder(w, x, s, p, n)
<1>1. CASE s <= n
  <2>1. Average(x, Window(s, p)) \in Int
    <3>1. \A j \in Window(s, p) : x[j] \in Int
      BY <1>1 DEF Window
    <3> QED BY <3>1, WindowIsFinite, AverageInt
  <2> DEFINE h == [a \in Int \X (s .. n) |-> (a[1] * (p - 1) + x[a[2]]) \div p]
             base == Average(x, Window(s, p))
  <2>2. \A v \in Int, i \in s .. n : h[<<v, i>>] = (v * (p - 1) + x[i]) \div p /\
            h[<<v, i>>] \in Int
    <3> SUFFICES ASSUME NEW v \in Int, NEW i \in s .. n
            PROVE h[<<v, i>>] = (v * (p - 1) + x[i]) \div p /\ h[<<v, i>>] \in Int
      OBVIOUS
    <3>1. x[i] \in Int
      OBVIOUS
    <3>2. v * (p - 1) + x[i] \in Int
      BY <3>1
    <3> QED BY <3>1, <3>2, QuotientBounds
  <2> HIDE DEF h, base
  <2>3. PICK g \in [s .. n -> Int] : Follows(g, s, n, base, h)
    <3>1. StaysIn(Int, base, h, s, n)
      BY <2>1, <2>2 DEF base, StaysIn
    <3> QED BY <3>1, IntervalRecursion
  <2>4. \A i \in s .. n : g[i] = IF i = s THEN Average(x, Window(s, p))
            ELSE (g[i - 1] * (p - 1) + x[i]) \div p
    <3> SUFFICES ASSUME NEW i \in s .. n PROVE g[i] = IF i = s THEN base
            ELSE (g[i - 1] * (p - 1) + x[i]) \div p
      BY DEF base
    <3>1. i # s => i - 1 \in s .. n
      OBVIOUS
    <3>2. i # s => g[i - 1] \in Int
      BY <3>1
    <3>3. g[i] = IF i = s THEN base ELSE h[<<g[i - 1], i>>]
      BY <2>3 DEF Follows
    <3> QED BY <2>2, <3>2, <3>3
  <2>5. g = [i \in s .. n |-> IF i = s THEN Average(x, Window(s, p))
            ELSE (g[i - 1] * (p - 1) + x[i]) \div p]
    BY <2>4
  <2>6. w = [i \in s .. n |-> IF i = s THEN Average(x, Window(s, p))
            ELSE (w[i - 1] * (p - 1) + x[i]) \div p]
    BY <2>5 DEF Wilder
  <2>7. \A i \in s .. n : w[i] = IF i = s THEN Average(x, Window(s, p))
            ELSE (w[i - 1] * (p - 1) + x[i]) \div p
    BY <2>6
  <2> DEFINE G == {i \in s .. n : w[i] \in Int}
  <2>8. s \in G
    BY <1>1, <2>1, <2>7
  <2>9. ASSUME NEW i \in s .. n, i # s, i - 1 \in G PROVE i \in G
    <3>1. w[i - 1] \in Int /\ x[i] \in Int
      BY <2>9
    <3>2. w[i - 1] * (p - 1) + x[i] \in Int
      BY <3>1
    <3> QED BY <2>7, <2>9, <3>2, QuotientBounds
  <2> HIDE DEF G
  <2>10. \A i \in s .. n : i \in G
    BY <2>8, <2>9, IntervalInduction DEF Passes
  <2>11. DOMAIN w = s .. n
    BY <2>6
  <2>12. w = [i \in s .. n |-> w[i]]
    BY <2>6
  <2> QED BY <2>7, <2>10, <2>12 DEF G, IsWilder
<1>2. CASE ~(s <= n)
  <2>1. s .. n = {}
    BY <1>2
  <2>2. \E g : g = [i \in s .. n |-> IF i = s THEN Average(x, Window(s, p))
            ELSE (g[i - 1] * (p - 1) + x[i]) \div p]
    <3>1. [i \in {} |-> 0] = [i \in s .. n |-> IF i = s THEN Average(x, Window(s, p))
              ELSE ([j \in {} |-> 0][i - 1] * (p - 1) + x[i]) \div p]
      BY <2>1
    <3> QED BY <3>1
  <2>3. w = [i \in s .. n |-> IF i = s THEN Average(x, Window(s, p))
            ELSE (w[i - 1] * (p - 1) + x[i]) \div p]
    BY <2>2 DEF Wilder
  <2>4. w \in [s .. n -> Int]
    BY <2>1, <2>3
  <2> QED BY <2>1, <2>4 DEF IsWilder
<1> QED
  BY <1>1, <1>2

\* Naturals are closed under products and sums.
LEMMA NatStep ==
  ASSUME NEW a \in Nat, NEW b \in Nat, NEW c \in Nat
  PROVE  a * b + c \in Nat
<1>1. a * b \in Nat
  OBVIOUS
<1> QED
  BY <1>1

\* Of a natural series, it is natural.
LEMMA WilderNat ==
  ASSUME NEW x, NEW s \in Int, NEW p \in Nat \ {0}, NEW n \in Int,
         AllNat(x, s - p + 1 .. n), NEW w, w = Wilder(x, s, p, n)
  PROVE  w \in [s .. n -> Nat]
<1>1. \A i \in s - p + 1 .. n : x[i] \in Int
  BY DEF AllNat
<1>2. w \in [s .. n -> Int] /\ IsWilder(w, x, s, p, n)
  BY <1>1, WilderSteps
<1>3. \A i \in s .. n :
        w[i] = IF i = s THEN Average(x, Window(s, p)) ELSE (w[i - 1] * (p - 1) + x[i]) \div p
  BY <1>2 DEF IsWilder
<1> DEFINE G == {i \in s .. n : w[i] \in Nat}
<1>4. ASSUME s <= n PROVE s \in G
  <2>1. AllNat(x, Window(s, p))
    BY <1>4 DEF Window, AllNat
  <2>2. Average(x, Window(s, p)) \in Nat
    BY <2>1, WindowIsFinite, AverageNat
  <2> QED BY <1>3, <1>4, <2>2
<1>5. ASSUME NEW i \in s .. n, i # s, i - 1 \in G PROVE i \in G
  <2>1. w[i - 1] \in Nat /\ x[i] \in Nat /\ p - 1 \in Nat
    BY <1>5 DEF AllNat
  <2>2. w[i - 1] * (p - 1) + x[i] \in Nat
    BY <2>1, NatStep
  <2> QED BY <1>3, <1>5, <2>2, QuotientIsNat
<1> HIDE DEF G
<1>6. \A i \in s .. n : i \in G
  BY <1>4, <1>5, IntervalInduction DEF Passes
<1> QED
  BY <1>2, <1>6 DEF G

\* It stays between the bounds of its series.
LEMMA WilderBetween ==
  ASSUME NEW x, NEW s \in Int, NEW p \in Nat \ {0}, NEW n \in Int, NEW lo \in Int, NEW hi \in Int,
         AllBetween(x, s - p + 1 .. n, lo, hi),
         NEW w, w = Wilder(x, s, p, n)
  PROVE  w \in [s .. n -> Int] /\ \A i \in s .. n : Between(w[i], lo, hi)
<1>1. \A i \in s - p + 1 .. n : x[i] \in Int
  BY DEF AllBetween, Between
<1>2. w \in [s .. n -> Int] /\ IsWilder(w, x, s, p, n)
  BY <1>1, WilderSteps
<1>3. \A i \in s .. n :
        w[i] = IF i = s THEN Average(x, Window(s, p)) ELSE (w[i - 1] * (p - 1) + x[i]) \div p
  BY <1>2 DEF IsWilder
<1> DEFINE G == {i \in s .. n : Between(w[i], lo, hi)}
<1>4. ASSUME s <= n PROVE s \in G
  <2>1. AllBetween(x, Window(s, p), lo, hi)
    BY <1>4 DEF Window, AllBetween
  <2>2. Between(Average(x, Window(s, p)), lo, hi)
    BY <2>1, WindowIsFinite, AverageBetween
  <2> QED BY <1>3, <1>4, <2>2
<1>5. ASSUME NEW i \in s .. n, i # s, i - 1 \in G PROVE i \in G
  <2>1. /\ w[i - 1] \in Int /\ lo <= w[i - 1] /\ w[i - 1] <= hi
        /\ x[i] \in Int /\ lo <= x[i] /\ x[i] <= hi
    BY <1>5 DEF AllBetween, Between
  <2>2. PICK v \in Int : v = w[i - 1]
    BY <2>1
  <2>3. PICK y \in Int : y = x[i]
    BY <2>1
  <2>4. PICK m \in Int, l \in Int, h \in Int :
          m = v * (p - 1) /\ l = lo * (p - 1) /\ h = hi * (p - 1)
    OBVIOUS
  <2>5. l <= m /\ m <= h
    <3>1. p - 1 \in Nat /\ lo <= v /\ v <= hi
      BY <2>1, <2>2
    <3> QED BY <2>4, <3>1, ProductGrows
  <2>6. lo <= y /\ y <= hi
    BY <2>1, <2>3
  <2>7. m + y \in Int /\ l + lo <= m + y /\ m + y <= h + hi
    BY <2>5, <2>6
  <2>8. w[i] = (m + y) \div p
    BY <1>3, <1>5, <2>2, <2>3, <2>4
  <2>9. l + lo = lo * p /\ h + hi = hi * p
    BY <2>4
  <2> QED BY <2>7, <2>8, <2>9, QuotientBetween
<1> HIDE DEF G
<1>6. \A i \in s .. n : i \in G
  BY <1>4, <1>5, IntervalInduction DEF Passes
<1> QED
  BY <1>2, <1>6 DEF G
-----------------------------------------------------------------------------
(* Bars *)

\* The bars that the chart draws: whatever the server sent, the high and the low span the close.
Bars == {c \in Candles : c.low <= c.close /\ c.close <= c.high}

\* The greatest and the least of two or three numbers.
LEMMA MaxOfTwo ==
  ASSUME NEW a \in Int, NEW b \in Int, NEW m, m = Max({a, b})
  PROVE  m \in {a, b} /\ m >= a /\ m >= b
<1>1. \E x \in {a, b} : \A y \in {a, b} : x >= y
  OBVIOUS
<1> QED
  BY <1>1 DEF Max

LEMMA MinOfTwo ==
  ASSUME NEW a \in Int, NEW b \in Int, NEW m, m = Min({a, b})
  PROVE  m \in {a, b} /\ m <= a /\ m <= b
<1>1. \E x \in {a, b} : \A y \in {a, b} : x <= y
  OBVIOUS
<1> QED
  BY <1>1 DEF Min

LEMMA MaxOfThree ==
  ASSUME NEW a \in Int, NEW b \in Int, NEW c \in Int, NEW m, m = Max({a, b, c})
  PROVE  m \in {a, b, c} /\ m >= a /\ m >= b /\ m >= c
<1>1. \E x \in {a, b, c} : \A y \in {a, b, c} : x >= y
  OBVIOUS
<1> QED
  BY <1>1 DEF Max

\* A finite set has a finite image.
LEMMA ImageIsFinite ==
  ASSUME NEW f, NEW S, IsFiniteSet(S), NEW T, T = {f[x] : x \in S}
  PROVE  IsFiniteSet(T)
<1> DEFINE g == [x \in S |-> f[x]]
<1>1. g \in Surjection(S, T)
  BY DEF Surjection
<1> HIDE DEF g
<1> QED
  BY <1>1, FS_Surjection

\* The prices of a bar, and their order.
LEMMA BarFacts ==
  ASSUME NEW cs \in Seq(Bars), NEW i \in 1 .. Len(cs)
  PROVE  /\ cs[i].high \in Nat /\ cs[i].low \in Nat /\ cs[i].close \in Nat /\ cs[i].volume \in Nat
         /\ cs[i].low <= cs[i].close /\ cs[i].close <= cs[i].high /\ cs[i].low <= cs[i].high
<1>1. PICK c \in Bars : c = cs[i]
  OBVIOUS
<1>2. c.high \in Nat /\ c.low \in Nat /\ c.close \in Nat /\ c.volume \in Nat
  BY DEF Bars, Candles
<1>3. c.low <= c.close /\ c.close <= c.high
  BY DEF Bars
<1>4. c.low <= c.high
  BY <1>2, <1>3
<1> QED
  BY <1>1, <1>2, <1>3, <1>4

\* The highest and the lowest price of a window are reached in it and span its bars.
LEMMA WindowSpan ==
  ASSUME NEW cs \in Seq(Bars), NEW W \in SUBSET (1 .. Len(cs)), W # {}
  PROVE  /\ Highest(cs, W) \in Nat /\ Lowest(cs, W) \in Nat
         /\ \A j \in W : /\ Lowest(cs, W) <= cs[j].low /\ cs[j].high <= Highest(cs, W)
                         /\ Lowest(cs, W) <= cs[j].close /\ cs[j].close <= Highest(cs, W)
         /\ \E j \in W : cs[j].high = Highest(cs, W)
         /\ \E j \in W : cs[j].low = Lowest(cs, W)
         /\ Lowest(cs, W) <= Highest(cs, W)
<1> DEFINE H == {cs[j].high : j \in W}  L == {cs[j].low : j \in W}
<1>1. IsFiniteSet(W)
  <2>1. Len(cs) \in Nat
    OBVIOUS
  <2>2. IsFiniteSet(1 .. Len(cs))
    BY <2>1, FS_Interval
  <2> QED BY <2>2, FS_Subset
<1>2. IsFiniteSet(H) /\ IsFiniteSet(L)
  <2> DEFINE high == [j \in W |-> cs[j].high]  low == [j \in W |-> cs[j].low]
  <2>1. H = {high[j] : j \in W} /\ L = {low[j] : j \in W}
    OBVIOUS
  <2> HIDE DEF high, low, H, L
  <2> QED BY <1>1, <2>1, ImageIsFinite
<1>3. \A j \in W : /\ cs[j].high \in Nat /\ cs[j].low \in Nat /\ cs[j].close \in Nat
                   /\ cs[j].low <= cs[j].close /\ cs[j].close <= cs[j].high
  BY BarFacts
<1>4. H \in SUBSET Int /\ L \in SUBSET Int /\ H # {} /\ L # {}
  <2>1. \A j \in W : cs[j].high \in Int /\ cs[j].low \in Int
    BY <1>3
  <2>2. H \in SUBSET Int /\ L \in SUBSET Int
    BY <2>1, Zenon
  <2>3. PICK j \in W : TRUE
    OBVIOUS
  <2>4. cs[j].high \in H /\ cs[j].low \in L
    BY Zenon
  <2> QED BY <2>2, <2>4
<1>5. Highest(cs, W) \in H /\ \A y \in H : Highest(cs, W) >= y
  <2>1. Max(H) \in H /\ \A y \in H : Max(H) >= y
    <3> HIDE DEF H
    <3> QED BY <1>2, <1>4, MaxOfFinite
  <2> QED BY <2>1 DEF Highest
<1>6. Lowest(cs, W) \in L /\ \A y \in L : Lowest(cs, W) <= y
  <2>1. Min(L) \in L /\ \A y \in L : Min(L) <= y
    <3> HIDE DEF L
    <3> QED BY <1>2, <1>4, MinOfFinite
  <2> QED BY <2>1 DEF Lowest
<1>7. \A j \in W : Lowest(cs, W) <= cs[j].low /\ cs[j].high <= Highest(cs, W)
  BY <1>5, <1>6
<1>8. Highest(cs, W) \in Nat /\ Lowest(cs, W) \in Nat
  BY <1>3, <1>5, <1>6
<1>9. (\E j \in W : cs[j].high = Highest(cs, W)) /\ (\E j \in W : cs[j].low = Lowest(cs, W))
  BY <1>5, <1>6
<1> HIDE DEF H, L
<1>10. \A j \in W : Lowest(cs, W) <= cs[j].close /\ cs[j].close <= Highest(cs, W)
  BY <1>3, <1>7, <1>8
<1>11. Lowest(cs, W) <= Highest(cs, W)
  <2>1. PICK j \in W : TRUE
    OBVIOUS
  <2> QED BY <1>3, <1>8, <1>10, <2>1
<1> QED
  BY <1>7, <1>8, <1>9, <1>10, <1>11

\* The windows of the indicators lie among the bars.
LEMMA WindowAmong ==
  ASSUME NEW p \in Nat \ {0}, NEW n \in Nat, NEW i \in p .. n
  PROVE  /\ Window(i, p) \in SUBSET (1 .. n) /\ Window(i, p) # {} /\ i \in Window(i, p)
         /\ IsFiniteSet(Window(i, p)) /\ i \in 1 .. n
<1>1. \A j \in Window(i, p) : j \in 1 .. n
  BY DEF Window
<1> QED
  BY <1>1, WindowIsFinite

\* The closes of bars are a sequence of naturals.
LEMMA ClosesOfBars ==
  ASSUME NEW cs \in Seq(Bars)
  PROVE  Closes(cs) \in Seq(Nat) /\ Len(Closes(cs)) = Len(cs)
<1>1. Len(cs) \in Nat /\ \A i \in 1 .. Len(cs) : cs[i].close \in Nat
  BY BarFacts
<1> QED
  BY <1>1 DEF Closes

\* The typical price of a bar is between its low and its high.
LEMMA TypicalPrice ==
  ASSUME NEW cs \in Seq(Bars), NEW i \in 1 .. Len(cs), NEW t, t = Typical(cs)[i]
  PROVE  t \in Nat /\ cs[i].low <= t /\ t <= cs[i].high
<1>1. t = (cs[i].high + cs[i].low + cs[i].close) \div 3
  BY DEF Typical
<1>2. /\ cs[i].high \in Nat /\ cs[i].low \in Nat /\ cs[i].close \in Nat
      /\ cs[i].low <= cs[i].close /\ cs[i].close <= cs[i].high
  BY BarFacts
<1>3. PICK h \in Nat, l \in Nat, c \in Nat : h = cs[i].high /\ l = cs[i].low /\ c = cs[i].close
  BY <1>2
<1>4. t = (h + l + c) \div 3 /\ l <= c /\ c <= h
  BY <1>1, <1>2, <1>3
<1>5. h + l + c \in Nat /\ l * 3 <= h + l + c /\ h + l + c <= h * 3
  BY <1>4
<1>6. t \in Int /\ l <= t /\ t <= h
  BY <1>4, <1>5, QuotientBetween DEF Between
<1> QED
  BY <1>3, <1>6

\* The money and the volume of a bar are natural.
LEMMA SeriesOfBars ==
  ASSUME NEW cs \in Seq(Bars), NEW i \in 1 .. Len(cs)
  PROVE  Money(cs)[i] \in Nat /\ Volumes(cs)[i] \in Nat
<1>1. Typical(cs)[i] \in Nat /\ cs[i].volume \in Nat
  BY BarFacts, TypicalPrice
<1>2. Typical(cs)[i] * cs[i].volume \in Nat
  BY <1>1
<1> QED
  BY <1>1, <1>2 DEF Money, Volumes

\* The true range of a bar is natural and at least as far as the bar reaches beyond the former.
LEMMA TrueRangeReaches ==
  ASSUME NEW cs \in Seq(Bars), NEW i \in 1 .. Len(cs), NEW r, r = TrueRange(cs, i)
  PROVE  /\ r \in Nat
         /\ i # 1 => cs[i].high - cs[i - 1].high <= r /\ cs[i - 1].low - cs[i].low <= r
<1>1. PICK h \in Nat, l \in Nat : h = cs[i].high /\ l = cs[i].low /\ l <= h
  BY BarFacts
<1>2. CASE i = 1
  BY <1>1, <1>2 DEF TrueRange
<1>3. CASE i # 1
  <2>1. i - 1 \in 1 .. Len(cs)
    BY <1>3
  <2>2. PICK b \in Nat, bh \in Nat, bl \in Nat :
          b = cs[i - 1].close /\ bh = cs[i - 1].high /\ bl = cs[i - 1].low /\ bl <= b /\ b <= bh
    BY <2>1, BarFacts
  <2>3. PICK x \in Int, y \in Int, z \in Int :
          x = h - l /\ y = Abs(h - b) /\ z = Abs(l - b) /\ x >= 0 /\ y >= h - b /\ z >= b - l
                    /\ y >= 0 /\ z >= 0
    <3>1. h - l \in Int /\ h - l >= 0
      BY <1>1
    <3>2. Abs(h - b) \in Int /\ Abs(h - b) >= h - b /\ Abs(h - b) >= 0
      BY DEF Abs
    <3>3. Abs(l - b) \in Int /\ Abs(l - b) >= b - l /\ Abs(l - b) >= 0
      BY DEF Abs
    <3> QED BY <3>1, <3>2, <3>3
  <2>4. r = Max({x, y, z})
    BY <1>1, <1>3, <2>2, <2>3 DEF TrueRange
  <2>5. r \in {x, y, z} /\ r >= x /\ r >= y /\ r >= z
    BY <2>4, MaxOfThree
  <2>6. r \in Nat /\ h - bh <= r /\ bl - l <= r
    <3>1. r \in Nat
      BY <2>3, <2>5
    <3>2. h - b <= r /\ b - l <= r
      BY <2>3, <2>5, <3>1
    <3>3. bl <= b /\ b <= bh
      BY <2>2
    <3> QED BY <3>1, <3>2, <3>3
  <2> QED BY <1>1, <2>2, <2>6
<1> QED
  BY <1>2, <1>3
-----------------------------------------------------------------------------
(* Oscillators *)

\* A share of a sum is at most all of it.
LEMMA ShareInPercent ==
  ASSUME NEW a \in Nat, NEW b \in Nat, ~(a = 0 /\ b = 0)
  PROVE  Between((100 * a) \div (a + b), 0, 100)
<1>1. PICK c \in Nat \ {0} : c = a + b
  OBVIOUS
<1>2. PICK x \in Int, lo \in Int, hi \in Int :
        x = 100 * a /\ lo = 0 /\ hi = 100 /\ lo * c <= x /\ x <= hi * c
  <2>1. 100 * a \in Int /\ 0 * c <= 100 * a /\ 100 * a <= 100 * c
    BY <1>1
  <2> QED BY <2>1
<1>3. PICK q : q = x \div c
  OBVIOUS
<1>4. Between(q, lo, hi)
  BY <1>2, <1>3, QuotientBetween
<1> QED
  BY <1>1, <1>2, <1>3, <1>4

\* A part is at most all of its whole.
LEMMA PartInPercent ==
  ASSUME NEW a \in Nat, NEW b \in Nat \ {0}, a <= b
  PROVE  Between((100 * a) \div b, 0, 100)
<1>1. b - a \in Nat /\ a + (b - a) = b /\ ~(a = 0 /\ b - a = 0)
  OBVIOUS
<1> QED
  BY <1>1, ShareInPercent

\* The distances of a number between two others.
LEMMA Distances ==
  ASSUME NEW hh \in Nat, NEW ll \in Nat, hh # ll, NEW c \in Nat, ll <= c, c <= hh
  PROVE  /\ c - ll \in Nat /\ hh - c \in Nat /\ hh - ll \in Nat \ {0}
         /\ c - ll <= hh - ll /\ hh - c <= hh - ll
OBVIOUS

\* The RSI, the stochastic, Williams' %R and the Aroon are on their scales (rsi.js, stochastic.js,
\* williamsR.js, aroon.js).
LEMMA RsiOnScale ==
  ASSUME NEW d \in Seq(Nat), NEW p \in Nat \ {0}
  PROVE  Among(Rsi(d, p), 0, 100)
<1>1. PICK n \in Nat : n = Len(d)
  OBVIOUS
<1>2. PICK gain : gain = [i \in 2 .. n |-> Max({d[i] - d[i - 1], 0})]
  OBVIOUS
<1>3. PICK loss : loss = [i \in 2 .. n |-> Max({d[i - 1] - d[i], 0})]
  OBVIOUS
<1>4. ASSUME NEW i \in 2 .. n PROVE gain[i] \in Nat /\ loss[i] \in Nat
  <2>1. d[i] - d[i - 1] \in Int /\ d[i - 1] - d[i] \in Int
    <3>1. i \in 1 .. n /\ i - 1 \in 1 .. n
      OBVIOUS
    <3>2. d[i] \in Nat /\ d[i - 1] \in Nat
      BY <1>1, <3>1
    <3> QED BY <3>2
  <2>2. ASSUME NEW x \in Int PROVE Max({x, 0}) \in Nat
    <3>1. \E m \in {x, 0} : \A y \in {x, 0} : m >= y
      OBVIOUS
    <3>2. Max({x, 0}) \in {x, 0} /\ Max({x, 0}) >= 0
      BY <3>1 DEF Max
    <3> QED BY <3>2
  <2> QED BY <1>2, <1>3, <2>1, <2>2
<1>5. PICK s \in Int : s = p + 1 /\ s - p + 1 = 2
  OBVIOUS
<1>6. AllNat(gain, s - p + 1 .. n) /\ AllNat(loss, s - p + 1 .. n)
  BY <1>4, <1>5 DEF AllNat
<1>7. PICK g : g = Wilder(gain, s, p, n) /\ g \in [s .. n -> Nat]
  BY <1>6, WilderNat
<1>8. PICK l : l = Wilder(loss, s, p, n) /\ l \in [s .. n -> Nat]
  BY <1>6, WilderNat
<1>9. Rsi(d, p) = [i \in p + 1 .. n |-> IF g[i] = 0 /\ l[i] = 0 THEN 50
                                        ELSE (100 * g[i]) \div (g[i] + l[i])]
  BY <1>1, <1>2, <1>3, <1>5, <1>7, <1>8 DEF Rsi
<1>10. ASSUME NEW i \in p + 1 .. n
       PROVE  Between(Rsi(d, p)[i], 0, 100)
  <2>1. g[i] \in Nat /\ l[i] \in Nat
    BY <1>5, <1>7, <1>8
  <2>2. CASE g[i] = 0 /\ l[i] = 0
    BY <1>9, <2>2 DEF Between
  <2>3. CASE ~(g[i] = 0 /\ l[i] = 0)
    <3>1. Between((100 * g[i]) \div (g[i] + l[i]), 0, 100)
      BY <2>1, <2>3, ShareInPercent
    <3>2. Rsi(d, p)[i] = (100 * g[i]) \div (g[i] + l[i])
      BY <1>9, <2>3
    <3> QED BY <3>1, <3>2
  <2> QED BY <2>2, <2>3
<1>11. DOMAIN Rsi(d, p) = p + 1 .. n
  BY <1>9
<1> QED
  BY <1>10, <1>11 DEF Among, Between

LEMMA StochasticOnScale ==
  ASSUME NEW cs \in Seq(Bars), NEW k \in Nat \ {0}, NEW d \in Nat \ {0}, NEW slowing \in Nat \ {0}
  PROVE  \A line \in DOMAIN Stochastic(cs, k, d, slowing) :
           Among(Stochastic(cs, k, d, slowing)[line], 0, 100)
<1>1. PICK n \in Nat : n = Len(cs)
  OBVIOUS
<1>2. PICK raw : raw = [i \in k .. n |->
        IF Highest(cs, Window(i, k)) = Lowest(cs, Window(i, k)) THEN 50
        ELSE (100 * (cs[i].close - Lowest(cs, Window(i, k))))
             \div (Highest(cs, Window(i, k)) - Lowest(cs, Window(i, k)))]
  OBVIOUS
<1>3. ASSUME NEW i \in k .. n PROVE Between(raw[i], 0, 100)
  <2>1. Window(i, k) \in SUBSET (1 .. n) /\ Window(i, k) # {} /\ i \in Window(i, k)
    BY WindowAmong
  <2>2. PICK hh \in Nat, ll \in Nat, c \in Nat :
          hh = Highest(cs, Window(i, k)) /\ ll = Lowest(cs, Window(i, k)) /\ c = cs[i].close
          /\ ll <= c /\ c <= hh
    <3>1. i \in 1 .. n
      BY <2>1
    <3>2. cs[i].close \in Nat
      BY <1>1, <3>1, BarFacts
    <3> QED BY <1>1, <2>1, <3>2, WindowSpan
  <2>3. raw[i] = IF hh = ll THEN 50 ELSE (100 * (c - ll)) \div (hh - ll)
    BY <1>2, <2>2
  <2>4. CASE hh # ll
    <3>1. c - ll \in Nat /\ hh - ll \in Nat \ {0} /\ c - ll <= hh - ll
      BY <2>2, <2>4, Distances
    <3>2. PICK a \in Nat, b \in Nat \ {0} : a = c - ll /\ b = hh - ll /\ a <= b
      BY <3>1
    <3>3. raw[i] = (100 * a) \div b
      BY <2>3, <2>4, <3>2
    <3>4. Between((100 * a) \div b, 0, 100)
      BY <3>2, PartInPercent
    <3> QED BY <3>3, <3>4
  <2>5. Between(50, 0, 100)
    BY DEF Between
  <2> QED BY <2>3, <2>4, <2>5
<1>4. PICK slow : slow = [i \in k + slowing - 1 .. n |-> Average(raw, Window(i, slowing))]
  OBVIOUS
<1>5. ASSUME NEW i \in k + slowing - 1 .. n PROVE Between(slow[i], 0, 100)
  <2>1. \A j \in Window(i, slowing) : j \in k .. n
    BY DEF Window
  <2>2. AllBetween(raw, Window(i, slowing), 0, 100)
    BY <1>3, <2>1 DEF AllBetween
  <2>3. IsFiniteSet(Window(i, slowing)) /\ Window(i, slowing) # {}
    BY WindowIsFinite
  <2>4. PICK a : a = Average(raw, Window(i, slowing))
    OBVIOUS
  <2>5. Between(a, 0, 100)
    BY <2>2, <2>3, <2>4, AverageBetween
  <2> QED BY <1>4, <2>4, <2>5
<1>6. PICK signal : signal = [i \in k + slowing + d - 2 .. n |-> Average(slow, Window(i, d))]
  OBVIOUS
<1>7. ASSUME NEW i \in k + slowing + d - 2 .. n PROVE Between(signal[i], 0, 100)
  <2>1. \A j \in Window(i, d) : j \in k + slowing - 1 .. n
    BY DEF Window
  <2>2. AllBetween(slow, Window(i, d), 0, 100)
    BY <1>5, <2>1 DEF AllBetween
  <2>3. IsFiniteSet(Window(i, d)) /\ Window(i, d) # {}
    BY WindowIsFinite
  <2>4. PICK a : a = Average(slow, Window(i, d))
    OBVIOUS
  <2>5. Between(a, 0, 100)
    BY <2>2, <2>3, <2>4, AverageBetween
  <2> QED BY <1>6, <2>4, <2>5
<1>8. Stochastic(cs, k, d, slowing) = [k |-> slow, d |-> signal]
  BY <1>1, <1>2, <1>4, <1>6 DEF Stochastic
<1>9. Among(slow, 0, 100) /\ Among(signal, 0, 100)
  <2>1. DOMAIN slow = k + slowing - 1 .. n /\ DOMAIN signal = k + slowing + d - 2 .. n
    BY <1>4, <1>6
  <2> QED BY <1>5, <1>7, <2>1 DEF Among, Between
<1> QED
  BY <1>8, <1>9

LEMMA WilliamsROnScale ==
  ASSUME NEW cs \in Seq(Bars), NEW p \in Nat \ {0}
  PROVE  Among(WilliamsR(cs, p), -100, 0)
<1>1. PICK n \in Nat : n = Len(cs)
  OBVIOUS
<1>2. WilliamsR(cs, p) = [i \in p .. n |->
        IF Highest(cs, Window(i, p)) = Lowest(cs, Window(i, p)) THEN 0
        ELSE -((100 * (Highest(cs, Window(i, p)) - cs[i].close))
               \div (Highest(cs, Window(i, p)) - Lowest(cs, Window(i, p))))]
  BY <1>1 DEF WilliamsR
<1>3. ASSUME NEW i \in p .. n PROVE Between(WilliamsR(cs, p)[i], -100, 0)
  <2>1. Window(i, p) \in SUBSET (1 .. n) /\ Window(i, p) # {} /\ i \in Window(i, p)
    BY WindowAmong
  <2>2. PICK hh \in Nat, ll \in Nat, c \in Nat :
          hh = Highest(cs, Window(i, p)) /\ ll = Lowest(cs, Window(i, p)) /\ c = cs[i].close
          /\ ll <= c /\ c <= hh
    <3>1. i \in 1 .. n
      BY <2>1
    <3>2. cs[i].close \in Nat
      BY <1>1, <3>1, BarFacts
    <3> QED BY <1>1, <2>1, <3>2, WindowSpan
  <2>3. WilliamsR(cs, p)[i] = IF hh = ll THEN 0 ELSE -((100 * (hh - c)) \div (hh - ll))
    BY <1>2, <2>2
  <2>4. CASE hh # ll
    <3>1. hh - c \in Nat /\ hh - ll \in Nat \ {0} /\ hh - c <= hh - ll
      BY <2>2, <2>4, Distances
    <3>2. PICK q \in Int : q = (100 * (hh - c)) \div (hh - ll) /\ 0 <= q /\ q <= 100
      BY <3>1, PartInPercent DEF Between
    <3>3. -q \in Int /\ -100 <= -q /\ -q <= 0
      BY <3>2
    <3> QED BY <2>3, <2>4, <3>2, <3>3 DEF Between
  <2>5. Between(0, -100, 0)
    BY DEF Between
  <2> QED BY <2>3, <2>4, <2>5
<1>4. DOMAIN WilliamsR(cs, p) = p .. n
  BY <1>2
<1> QED
  BY <1>3, <1>4 DEF Among, Between

LEMMA AroonOnScale ==
  ASSUME NEW cs \in Seq(Bars), NEW p \in Nat \ {0}
  PROVE  \A line \in DOMAIN Aroon(cs, p) : Among(Aroon(cs, p)[line], 0, 100)
<1>1. PICK n \in Nat : n = Len(cs)
  OBVIOUS
<1>2. PICK up : up = [i \in p + 1 .. n |->
        (100 * (Min({j \in Window(i, p + 1) :
            cs[j].high = Highest(cs, Window(i, p + 1))}) - (i - p))) \div p]
  OBVIOUS
<1>3. PICK down : down = [i \in p + 1 .. n |->
        (100 * (Min({j \in Window(i, p + 1) :
            cs[j].low = Lowest(cs, Window(i, p + 1))}) - (i - p))) \div p]
  OBVIOUS
<1>4. ASSUME NEW i \in p + 1 .. n, NEW S \in SUBSET Window(i, p + 1), S # {}
      PROVE  Between((100 * (Min(S) - (i - p))) \div p, 0, 100)
  <2>1. IsFiniteSet(Window(i, p + 1)) /\ Window(i, p + 1) \in SUBSET Int
    BY WindowIsFinite
  <2>2. IsFiniteSet(S) /\ S \in SUBSET Int
    BY <2>1, FS_Subset
  <2>3. Min(S) \in S
    BY <1>4, <2>2, MinOfFinite
  <2>4. PICK m \in Int : m = Min(S) /\ i - p <= m /\ m <= i
    <3>1. Min(S) \in (i - (p + 1)) + 1 .. i
      BY <2>3 DEF Window
    <3> QED BY <3>1
  <2>5. m - (i - p) \in Nat /\ m - (i - p) <= p
    BY <2>4
  <2> QED BY <2>4, <2>5, PartInPercent
<1>5. ASSUME NEW i \in p + 1 .. n PROVE Between(up[i], 0, 100) /\ Between(down[i], 0, 100)
  <2>1. Window(i, p + 1) \in SUBSET (1 .. n) /\ Window(i, p + 1) # {}
    BY WindowAmong
  <2>2. (\E j \in Window(i, p + 1) : cs[j].high = Highest(cs, Window(i, p + 1)))
        /\ (\E j \in Window(i, p + 1) : cs[j].low = Lowest(cs, Window(i, p + 1)))
    BY <1>1, <2>1, WindowSpan
  <2>3. PICK highs, lows :
          /\ highs = {j \in Window(i, p + 1) : cs[j].high = Highest(cs, Window(i, p + 1))}
          /\ lows = {j \in Window(i, p + 1) : cs[j].low = Lowest(cs, Window(i, p + 1))}
    OBVIOUS
  <2>4. highs # {} /\ lows # {} /\ highs \in SUBSET Window(i, p + 1) /\
            lows \in SUBSET Window(i, p + 1)
    BY <2>2, <2>3
  <2>5. up[i] = (100 * (Min(highs) - (i - p))) \div p /\
            down[i] = (100 * (Min(lows) - (i - p))) \div p
    BY <1>2, <1>3, <2>3
  <2> QED BY <1>4, <2>4, <2>5
<1>6. Aroon(cs, p) = [up |-> up, down |-> down]
  BY <1>1, <1>2, <1>3 DEF Aroon
<1>7. DOMAIN up = p + 1 .. n /\ DOMAIN down = p + 1 .. n
  BY <1>2, <1>3
<1>8. Among(up, 0, 100) /\ Among(down, 0, 100)
  BY <1>5, <1>7 DEF Among, Between
<1> QED
  BY <1>6, <1>8
-----------------------------------------------------------------------------

\* Wilder's sum of naturals is computed as it is defined.
IsWilderSum(w, x, p, n) ==
  \A i \in p + 1 .. n :
    w[i] = IF i = p + 1 THEN SumOver(x, Window(i, p)) ELSE w[i - 1] - w[i - 1] \div p + x[i]

\* Taking the p-th part away keeps the order of naturals.
LEMMA DecayGrows ==
  ASSUME NEW a \in Nat, NEW b \in Nat, a <= b, NEW p \in Nat \ {0}
  PROVE  a - a \div p \in Nat /\ a - a \div p <= b - b \div p
<1>1. PICK q \in Nat, r \in Nat : q = a \div p /\ r = b \div p
  BY QuotientIsNat
<1>2. q * p <= a /\ a < (q + 1) * p /\ r * p <= b
  BY <1>1, QuotientBounds
<1>3. q <= a
  <2>1. PICK c \in Int, e \in Int : c = q * p /\ e = q * (p - 1) /\ c = q + e
    OBVIOUS
  <2>2. e \in Nat
    BY <2>1
  <2> QED BY <1>2, <2>1, <2>2
<1>4. r - q <= b - a
  <2>1. CASE r <= q
    BY <2>1
  <2>2. CASE q + 1 <= r
    <3>1. PICK k \in Nat : k = r - (q + 1)
      BY <2>2
    <3>2. r * p = (q + 1) * p + k * p
      <4>1. r = (q + 1) + k
        BY <3>1
      <4> QED BY <4>1
    <3>3. k <= k * p
      <4>1. k * p = k + k * (p - 1) /\ k * (p - 1) \in Nat
        OBVIOUS
      <4> QED BY <4>1
    <3>4. PICK u \in Int, v \in Int, w \in Int : u = (q + 1) * p /\ v = k * p /\ w = r * p
      OBVIOUS
    <3>5. w = u + v /\ k <= v /\ a < u /\ w <= b
      BY <1>2, <3>2, <3>3, <3>4
    <3> QED BY <3>1, <3>5
  <2> QED BY <2>1, <2>2
<1> QED
  BY <1>1, <1>3, <1>4

\* A smoothed sum is computed as it is defined, and is natural.
LEMMA WilderSumSteps ==
  ASSUME NEW x, NEW p \in Nat \ {0}, NEW n \in Nat, AllNat(x, 2 .. n), NEW w, w = WilderSum(x, p, n)
  PROVE  w \in [p + 1 .. n -> Nat] /\ IsWilderSum(w, x, p, n)
<1>1. PICK s \in Int : s = p + 1
  OBVIOUS
<1>2. PICK base \in Nat : s <= n => base = SumOver(x, Window(s, p))
  <2>1. ASSUME s <= n PROVE SumOver(x, Window(s, p)) \in Nat
    <3>1. \A j \in Window(s, p) : j \in 2 .. n
      BY <1>1, <2>1 DEF Window
    <3>2. \A j \in Window(s, p) : x[j] \in Nat
      BY <3>1 DEF AllNat
    <3> QED BY <3>2, WindowIsFinite, SumNat DEF SumOver
  <2> QED BY <2>1
<1>3. \A i \in s .. n : x[i] \in Nat /\ (i # s => i - 1 \in s .. n)
  BY <1>1 DEF AllNat
<1> DEFINE h == [a \in Nat \X (s .. n) |-> a[1] - a[1] \div p + x[a[2]]]
<1>4. \A v \in Nat, i \in s .. n : h[<<v, i>>] = v - v \div p + x[i]
  OBVIOUS
<1> HIDE DEF h
<1>5. StaysIn(Nat, base, h, s, n)
  <2> SUFFICES ASSUME NEW v \in Nat, NEW i \in s .. n PROVE h[<<v, i>>] \in Nat
    BY DEF StaysIn
  <2>1. v - v \div p \in Nat /\ x[i] \in Nat
    BY <1>3, DecayGrows
  <2>2. v - v \div p + x[i] \in Nat
    BY <2>1
  <2> QED BY <1>4, <2>2
<1>6. PICK g \in [s .. n -> Nat] : Follows(g, s, n, base, h)
  BY <1>5, IntervalRecursion
<1>7. g = [i \in s .. n |-> IF i = s THEN SumOver(x, Window(i, p))
          ELSE g[i - 1] - g[i - 1] \div p + x[i]]
  <2>1. ASSUME NEW i \in s .. n
        PROVE  g[i] = IF i = s THEN SumOver(x, Window(i, p)) ELSE g[i - 1] - g[i - 1] \div p + x[i]
    <3>1. CASE i = s
      <4>1. g[i] = base
        BY <1>6, <3>1 DEF Follows
      <4>2. s <= n
        BY <3>1
      <4> QED BY <1>2, <3>1, <4>1, <4>2
    <3>2. CASE i # s
      <4>1. g[i - 1] \in Nat
        BY <1>3, <3>2
      <4>2. g[i] = h[<<g[i - 1], i>>]
        BY <1>6, <3>2 DEF Follows
      <4> QED BY <1>4, <3>2, <4>1, <4>2
    <3> QED BY <3>1, <3>2
  <2> QED BY <2>1
<1>8. w = [i \in s .. n |-> IF i = s THEN SumOver(x, Window(i, p))
          ELSE w[i - 1] - w[i - 1] \div p + x[i]]
  BY <1>1, <1>7 DEF WilderSum
<1>9. IsWilderSum(w, x, p, n)
  BY <1>1, <1>8 DEF IsWilderSum
<1> DEFINE G == {i \in s .. n : w[i] \in Nat}
<1>10. ASSUME s <= n PROVE s \in G
  <2>1. s \in s .. n
    BY <1>10
  <2>2. w[s] = base
    BY <1>2, <1>8, <1>10, <2>1
  <2> QED BY <2>1, <2>2
<1>11. ASSUME NEW i \in s .. n, i # s, i - 1 \in G PROVE i \in G
  <2>1. PICK v \in Nat : v = w[i - 1]
    BY <1>11
  <2>2. w[i] = v - v \div p + x[i]
    BY <1>8, <1>11, <2>1
  <2>3. w[i] = h[<<v, i>>] /\ h[<<v, i>>] \in Nat
    BY <1>4, <1>5, <2>2 DEF StaysIn
  <2> QED BY <2>3
<1> HIDE DEF G
<1>12. \A i \in s .. n : i \in G
  <2>1. Passes(G, s, n)
    BY <1>10, <1>11 DEF Passes
  <2> QED BY <2>1, IntervalInduction
<1>13. \A i \in s .. n : w[i] \in Nat
  BY <1>12 DEF G
<1>14. w = [i \in s .. n |-> w[i]]
  BY <1>8
<1> QED
  BY <1>1, <1>9, <1>13, <1>14

\* Of two series, the one that is nowhere greater has the lesser sums.
LEMMA WilderSumsGrow ==
  ASSUME NEW x, NEW y, NEW p \in Nat \ {0}, NEW n \in Nat, AllNat(x, 2 .. n), AllNat(y, 2 .. n),
         \A i \in 2 .. n : x[i] <= y[i],
         NEW u, u = WilderSum(x, p, n), NEW v, v = WilderSum(y, p, n)
  PROVE  \A i \in p + 1 .. n : u[i] <= v[i]
<1>1. u \in [p + 1 .. n -> Nat] /\ IsWilderSum(u, x, p, n)
  BY WilderSumSteps
<1>2. v \in [p + 1 .. n -> Nat] /\ IsWilderSum(v, y, p, n)
  BY WilderSumSteps
<1> DEFINE G == {i \in p + 1 .. n : u[i] <= v[i]}
<1>3. ASSUME p + 1 <= n PROVE p + 1 \in G
  <2>1. p + 1 \in p + 1 .. n
    BY <1>3
  <2>2. PICK W : W = Window(p + 1, p)
    OBVIOUS
  <2>3. IsFiniteSet(W)
    BY <2>2, WindowIsFinite
  <2>4. \A j \in W : x[j] \in Int /\ y[j] \in Int /\ x[j] <= y[j]
    <3>1. \A j \in W : j \in 2 .. n
      BY <1>3, <2>2 DEF Window
    <3> QED BY <3>1 DEF AllNat
  <2>5. SumFunctionOnSet(x, W) <= SumFunctionOnSet(y, W)
    BY <2>3, <2>4, SumAtMost
  <2>6. u[p + 1] = SumFunctionOnSet(x, W) /\ v[p + 1] = SumFunctionOnSet(y, W)
    BY <1>1, <1>2, <2>1, <2>2 DEF IsWilderSum, SumOver
  <2> QED BY <2>1, <2>5, <2>6
<1>4. ASSUME NEW i \in p + 1 .. n, i # p + 1, i - 1 \in G PROVE i \in G
  <2>1. PICK a \in Nat, b \in Nat : a = u[i - 1] /\ b = v[i - 1] /\ a <= b
    BY <1>1, <1>2, <1>4
  <2>2. PICK c \in Nat, d \in Nat : c = x[i] /\ d = y[i] /\ c <= d
    BY DEF AllNat
  <2>3. u[i] = a - a \div p + c
    BY <1>1, <1>4, <2>1, <2>2 DEF IsWilderSum
  <2>4. v[i] = b - b \div p + d
    BY <1>2, <1>4, <2>1, <2>2 DEF IsWilderSum
  <2>5. a - a \div p \in Nat /\ a - a \div p <= b - b \div p
    BY <2>1, DecayGrows
  <2>6. b - b \div p \in Nat
    BY DecayGrows
  <2>7. PICK k \in Nat, m \in Nat : k = a - a \div p /\ m = b - b \div p /\ k <= m
    BY <2>5, <2>6
  <2>8. u[i] = k + c /\ v[i] = m + d
    BY <2>3, <2>4, <2>7
  <2> QED BY <2>2, <2>7, <2>8
<1> HIDE DEF G
<1>5. \A i \in p + 1 .. n : i \in G
  <2>1. Passes(G, p + 1, n)
    BY <1>3, <1>4 DEF Passes
  <2> QED BY <2>1, IntervalInduction
<1> QED
  BY <1>5 DEF G
\* The ADX and both of its directions are on the scale (adx.js): the movements of a bar are at
\* most its true range.
LEMMA AdxOnScale ==
  ASSUME NEW cs \in Seq(Bars), NEW p \in Nat \ {0}
  PROVE  \A line \in DOMAIN Adx(cs, p) : Among(Adx(cs, p)[line], 0, 100)
<1> DEFINE n == Len(cs)
           up(i) == cs[i].high - cs[i - 1].high
           down(i) == cs[i - 1].low - cs[i].low
           range == [i \in 2 .. n |-> TrueRange(cs, i)]
           plus == [i \in 2 .. n |-> Movement(up(i), down(i))]
           minus == [i \in 2 .. n |-> Movement(down(i), up(i))]
           total == WilderSum(range, p, n)
           sPlus == WilderSum(plus, p, n)
           sMinus == WilderSum(minus, p, n)
           pdi == [i \in p + 1 .. n |-> IF total[i] = 0 THEN 0 ELSE (100 * sPlus[i]) \div total[i]]
           mdi == [i \in p + 1 .. n |-> IF total[i] = 0 THEN 0 ELSE (100 * sMinus[i]) \div total[i]]
           dx == [i \in p + 1 .. n |-> IF pdi[i] + mdi[i] = 0 THEN 0
                          ELSE (100 * Abs(pdi[i] - mdi[i])) \div (pdi[i] + mdi[i])]
           adx == Wilder(dx, 2 * p, p, n)
<1>1. Adx(cs, p) = [adx |-> adx, plusDI |-> pdi, minusDI |-> mdi]
  BY DEF Adx
<1>2. n \in Nat /\ n = Len(cs)
  OBVIOUS
<1> HIDE DEF n, total, sPlus, sMinus, pdi, mdi, dx, adx
<1>3. \A i \in 2 .. n : /\ range[i] = TrueRange(cs, i)
                        /\ plus[i] = Movement(up(i), down(i)) /\ minus[i] = Movement(down(i), up(i))
  OBVIOUS
<1> HIDE DEF range, plus, minus
<1>5. ASSUME NEW i \in 2 .. n
      PROVE  /\ range[i] \in Nat /\ plus[i] \in Nat /\ minus[i] \in Nat
             /\ plus[i] <= range[i] /\ minus[i] <= range[i]
  <2>1. i \in 1 .. Len(cs) /\ i - 1 \in 1 .. Len(cs) /\ i # 1
    BY <1>2
  <2>2. PICK r \in Nat : r = range[i] /\ up(i) <= r /\ down(i) <= r
    BY <1>3, <2>1, TrueRangeReaches
  <2>3. PICK u \in Int, d \in Int : u = up(i) /\ d = down(i)
    <3>1. cs[i].high \in Nat /\ cs[i].low \in Nat
      BY <2>1, BarFacts
    <3>2. cs[i - 1].high \in Nat /\ cs[i - 1].low \in Nat
      BY <2>1, BarFacts
    <3>3. cs[i].high - cs[i - 1].high \in Int /\ cs[i - 1].low - cs[i].low \in Int
      BY <3>1, <3>2
    <3> QED BY <3>3
  <2>4. plus[i] = Movement(u, d) /\ minus[i] = Movement(d, u)
    BY <1>3, <2>3
  <2>5. u <= r /\ d <= r
    BY <2>2, <2>3
  <2>6. Movement(u, d) \in Nat /\ Movement(u, d) <= r /\ Movement(d, u) \in Nat /\
            Movement(d, u) <= r
    BY <2>5 DEF Movement
  <2> QED BY <2>2, <2>4, <2>6
<1>6. AllNat(range, 2 .. n) /\ AllNat(plus, 2 .. n) /\ AllNat(minus, 2 .. n)
  BY <1>5 DEF AllNat
<1>7. total = WilderSum(range, p, n) /\ total \in [p + 1 .. n -> Nat]
  BY <1>2, <1>6, WilderSumSteps DEF total
<1>8. sPlus = WilderSum(plus, p, n) /\ sPlus \in [p + 1 .. n -> Nat]
  BY <1>2, <1>6, WilderSumSteps DEF sPlus
<1>9. sMinus = WilderSum(minus, p, n) /\ sMinus \in [p + 1 .. n -> Nat]
  BY <1>2, <1>6, WilderSumSteps DEF sMinus
<1>10. \A i \in p + 1 .. n : sPlus[i] <= total[i]
  <2>1. \A i \in 2 .. n : plus[i] <= range[i]
    BY <1>5
  <2> QED BY <1>2, <1>6, <1>7, <1>8, <2>1, WilderSumsGrow
<1>11. \A i \in p + 1 .. n : sMinus[i] <= total[i]
  <2>1. \A i \in 2 .. n : minus[i] <= range[i]
    BY <1>5
  <2> QED BY <1>2, <1>6, <1>7, <1>9, <2>1, WilderSumsGrow
<1>12. pdi = [i \in p + 1 .. n |-> IF total[i] = 0 THEN 0 ELSE (100 * sPlus[i]) \div total[i]]
  BY DEF pdi
<1>13. mdi = [i \in p + 1 .. n |-> IF total[i] = 0 THEN 0 ELSE (100 * sMinus[i]) \div total[i]]
  BY DEF mdi
<1>14. ASSUME NEW i \in p + 1 .. n, NEW s \in Nat, s <= total[i], NEW q,
              q = IF total[i] = 0 THEN 0 ELSE (100 * s) \div total[i]
       PROVE  Between(q, 0, 100)
  <2>1. total[i] \in Nat
    BY <1>7
  <2>2. CASE total[i] = 0
    BY <1>14, <2>2 DEF Between
  <2>3. CASE total[i] # 0
    BY <1>14, <2>1, <2>3, PartInPercent
  <2> QED BY <2>2, <2>3
<1>15. ASSUME NEW i \in p + 1 .. n PROVE Between(pdi[i], 0, 100) /\ Between(mdi[i], 0, 100)
  <2>1. sPlus[i] \in Nat /\ sPlus[i] <= total[i]
    BY <1>8, <1>10
  <2>2. sMinus[i] \in Nat /\ sMinus[i] <= total[i]
    BY <1>9, <1>11
  <2>3. Between(pdi[i], 0, 100)
    BY <1>12, <1>14, <2>1
  <2>4. Between(mdi[i], 0, 100)
    BY <1>13, <1>14, <2>2
  <2> QED BY <2>3, <2>4
<1>16. dx = [i \in p + 1 .. n |-> IF pdi[i] + mdi[i] = 0 THEN 0
                          ELSE (100 * Abs(pdi[i] - mdi[i])) \div (pdi[i] + mdi[i])]
  BY DEF dx
<1>17. ASSUME NEW i \in p + 1 .. n PROVE Between(dx[i], 0, 100)
  <2>1. PICK a \in Nat, b \in Nat : a = pdi[i] /\ b = mdi[i]
    BY <1>15 DEF Between
  <2>2. dx[i] = IF a + b = 0 THEN 0 ELSE (100 * Abs(a - b)) \div (a + b)
    BY <1>16, <2>1
  <2>3. CASE a + b = 0
    BY <2>2, <2>3 DEF Between
  <2>4. CASE a + b # 0
    <3>1. Abs(a - b) \in Nat /\ Abs(a - b) <= a + b /\ a + b \in Nat \ {0}
      BY <2>4 DEF Abs
    <3> QED BY <2>2, <2>4, <3>1, PartInPercent
  <2> QED BY <2>3, <2>4
<1>18. PICK s \in Int : s = 2 * p /\ s - p + 1 = p + 1
  OBVIOUS
<1>19. AllBetween(dx, s - p + 1 .. n, 0, 100)
  BY <1>17, <1>18 DEF AllBetween
<1>20. adx = Wilder(dx, s, p, n)
  BY <1>18 DEF adx
<1>21. adx \in [s .. n -> Int] /\ \A i \in s .. n : Between(adx[i], 0, 100)
  <2>1. PICK lo \in Int, hi \in Int : lo = 0 /\ hi = 100
    OBVIOUS
  <2>2. AllBetween(dx, s - p + 1 .. n, lo, hi)
    BY <1>19, <2>1
  <2>3. n \in Int
    BY <1>2
  <2>4. adx \in [s .. n -> Int] /\ \A i \in s .. n : Between(adx[i], lo, hi)
    BY <1>20, <2>2, <2>3, WilderBetween
  <2> QED BY <2>1, <2>4
<1>22. Among(adx, 0, 100)
  BY <1>21 DEF Among, Between
<1>23. Among(pdi, 0, 100) /\ Among(mdi, 0, 100)
  BY <1>12, <1>13, <1>15 DEF Among, Between
<1> QED
  BY <1>1, <1>22, <1>23

\* The money flow index is on its scale (mfi.js).
LEMMA MfiOnScale ==
  ASSUME NEW cs \in Seq(Bars), NEW p \in Nat \ {0}
  PROVE  Among(Mfi(cs, p), 0, 100)
<1>1. PICK n \in Nat : n = Len(cs)
  OBVIOUS
<1>2. Mfi(cs, p) = [i \in p + 1 .. n |->
        IF SumOver(Money(cs), Window(i, p) \ {j \in Window(i, p) :
            Typical(cs)[j] > Typical(cs)[j - 1]}) = 0
        THEN 100 - 100 \div 101
        ELSE (100 * SumOver(Money(cs), {j \in Window(i, p) : Typical(cs)[j] > Typical(cs)[j - 1]}))
             \div (SumOver(Money(cs), {j \in Window(i, p) : Typical(cs)[j] > Typical(cs)[j - 1]})
                   + SumOver(Money(cs), Window(i, p) \ {j \in Window(i, p) :
                       Typical(cs)[j] > Typical(cs)[j - 1]}))]
  BY <1>1 DEF Mfi
<1>3. ASSUME NEW i \in p + 1 .. n PROVE Between(Mfi(cs, p)[i], 0, 100)
  <2>1. PICK W : W = Window(i, p)
    OBVIOUS
  <2>2. W \in SUBSET (1 .. n) /\ IsFiniteSet(W)
    BY <2>1, WindowAmong
  <2>3. PICK R \in SUBSET W : R = {j \in W : Typical(cs)[j] > Typical(cs)[j - 1]}
    OBVIOUS
  <2>4. ASSUME NEW S \in SUBSET W PROVE SumOver(Money(cs), S) \in Nat
    <3>1. IsFiniteSet(S)
      BY <2>2, FS_Subset
    <3>2. \A j \in S : Money(cs)[j] \in Nat
      BY <1>1, <2>2, SeriesOfBars
    <3> QED BY <3>1, <3>2, SumNat DEF SumOver
  <2>5. PICK a \in Nat, b \in Nat : a = SumOver(Money(cs), R) /\ b = SumOver(Money(cs), W \ R)
    BY <2>4
  <2>6. Mfi(cs, p)[i] = IF b = 0 THEN 100 - 100 \div 101 ELSE (100 * a) \div (a + b)
    BY <1>2, <2>1, <2>3, <2>5
  <2>7. CASE b = 0
    BY <2>6, <2>7 DEF Between
  <2>8. CASE b # 0
    BY <2>6, <2>8, ShareInPercent
  <2> QED BY <2>7, <2>8
<1>4. DOMAIN Mfi(cs, p) = p + 1 .. n
  BY <1>2
<1> QED
  BY <1>3, <1>4 DEF Among, Between

\* A multiple of every term is that multiple of the sum.
Scales(g, f, k, S) == \A x \in S : f[x] \in Int /\ g[x] = k * f[x]

\* The sum of a series times c is c times its sum.
LEMMA SumScaled ==
  ASSUME NEW f, NEW g, NEW k \in Int, NEW S, IsFiniteSet(S), Scales(g, f, k, S)
  PROVE  SumFunctionOnSet(g, S) = k * SumFunctionOnSet(f, S)
<1> DEFINE F == {T \in SUBSET S : SumFunctionOnSet(g, T) = k * SumFunctionOnSet(f, T)}
<1>1. {} \in F
  BY SumEmpty
<1>2. ASSUME NEW T \in SUBSET S, NEW x \in S \ T, T \in F PROVE T \cup {x} \in F
  <2>1. IsFiniteSet(T) /\ x \notin T
    BY FS_Subset
  <2>2. \A y \in T \cup {x} : f[y] \in Int /\ g[y] \in Int
    BY DEF Scales
  <2>3. PICK a \in Int, b \in Int : a = f[x] /\ b = SumFunctionOnSet(f, T)
    BY <2>1, <2>2, SumInt
  <2>4. SumFunctionOnSet(f, T \cup {x}) = a + b
    BY <2>1, <2>2, <2>3, SumAddElement
  <2>5. SumFunctionOnSet(g, T \cup {x}) = g[x] + SumFunctionOnSet(g, T)
    BY <2>1, <2>2, SumAddElement
  <2>6. g[x] = k * a /\ SumFunctionOnSet(g, T) = k * b
    BY <1>2, <2>3 DEF Scales
  <2>7. k * a + k * b = k * (a + b)
    OBVIOUS
  <2> QED BY <2>4, <2>5, <2>6, <2>7
<1> HIDE DEF F
<1>3. S \in F
  BY <1>1, <1>2, FiniteSetInduction
<1> QED
  BY <1>3 DEF F

\* The close is no further above the low than below the high, but for the span of both.
LEMMA CloseBalance ==
  ASSUME NEW h \in Nat, NEW l \in Nat, NEW c \in Nat, l <= c, c <= h,
         NEW b, b = h - l, NEW m, m = (c - l) - (h - c)
  PROVE  m \in Int /\ -b <= m /\ m <= b
OBVIOUS

\* The money flow of Chaikin is on its scale (cmf.js): a close is between its low and high.
LEMMA CmfOnScale ==
  ASSUME NEW cs \in Seq(Bars), NEW p \in Nat \ {0}
  PROVE  Among(Cmf(cs, p), -100, 100)
<1>1. PICK n \in Nat : n = Len(cs)
  OBVIOUS
<1> DEFINE clv(c) == IF c.high = c.low THEN 0
                     ELSE (100 * ((c.close - c.low) - (c.high - c.close))) \div (c.high - c.low)
<1>2. PICK flows : flows = [i \in 1 .. n |-> clv(cs[i]) * cs[i].volume]
  OBVIOUS
<1>3. ASSUME NEW i \in 1 .. n
      PROVE  /\ Volumes(cs)[i] \in Nat /\ flows[i] \in Int
             /\ -100 * Volumes(cs)[i] <= flows[i] /\ flows[i] <= 100 * Volumes(cs)[i]
  <2>1. PICK h \in Nat, l \in Nat, c \in Nat, v \in Nat :
          h = cs[i].high /\ l = cs[i].low /\ c = cs[i].close /\ v = cs[i].volume /\ l <= c /\ c <= h
    BY <1>1, BarFacts
  <2>2. PICK q : q = clv(cs[i])
    OBVIOUS
  <2>3. q = IF h = l THEN 0 ELSE (100 * ((c - l) - (h - c))) \div (h - l)
    BY <2>1, <2>2
  <2>4. Between(q, -100, 100)
    <3>1. CASE h = l
      BY <2>3, <3>1 DEF Between
    <3>2. CASE h # l
      <4>1. PICK b \in Nat \ {0} : b = h - l
        BY <2>1, <3>2, Distances
      <4>2. PICK m \in Int : m = (c - l) - (h - c) /\ -b <= m /\ m <= b
        <5>1. PICK m : m = (c - l) - (h - c)
          OBVIOUS
        <5>2. m \in Int /\ -b <= m /\ m <= b
          BY <2>1, <4>1, <5>1, CloseBalance
        <5> QED BY <5>1, <5>2
      <4>3. PICK a \in Int, lo \in Int, hi \in Int :
              a = 100 * m /\ lo = -100 /\ hi = 100
        OBVIOUS
      <4>4. lo * b <= a /\ a <= hi * b
        BY <4>2, <4>3
      <4>5. q = a \div b
        BY <2>3, <3>2, <4>1, <4>2, <4>3
      <4>6. Between(q, lo, hi)
        <5>1. PICK d : d = a \div b
          OBVIOUS
        <5>2. Between(d, lo, hi)
          BY <4>4, <5>1, QuotientBetween
        <5> QED BY <4>5, <5>1, <5>2
      <4> QED BY <4>3, <4>6
    <3> QED BY <3>1, <3>2
  <2>5. flows[i] = q * v /\ Volumes(cs)[i] = v
    BY <1>1, <1>2, <2>1, <2>2 DEF Volumes
  <2>6. PICK a \in Int, m \in Int, z \in Int : a = -100 * v /\ m = q * v /\ z = 100 * v
    BY <2>4 DEF Between
  <2>7. a <= m /\ m <= z
    <3>1. q \in Int /\ -100 <= q /\ q <= 100
      BY <2>4 DEF Between
    <3>2. PICK lo \in Int, hi \in Int : lo = -100 /\ hi = 100 /\ lo <= q /\ q <= hi /\
              a = lo * v /\ z = hi * v
      BY <2>6, <3>1
    <3> QED BY <2>6, <3>1, <3>2, ProductGrows
  <2> QED BY <2>5, <2>6, <2>7
<1> HIDE DEF clv
<1>4. Cmf(cs, p) = [i \in p .. n |-> IF SumOver(Volumes(cs), Window(i, p)) = 0 THEN 0
                                    ELSE SumOver(flows, Window(i, p))
                                        \div SumOver(Volumes(cs), Window(i, p))]
  BY <1>1, <1>2 DEF Cmf, clv
<1>5. ASSUME NEW i \in p .. n PROVE Between(Cmf(cs, p)[i], -100, 100)
  <2>1. PICK W : W = Window(i, p)
    OBVIOUS
  <2>2. W \in SUBSET (1 .. n) /\ IsFiniteSet(W)
    BY <2>1, WindowAmong
  <2>3. PICK vol : vol = Volumes(cs) /\ \A j \in W : vol[j] \in Nat /\ flows[j] \in Int
                     /\ -100 * vol[j] <= flows[j] /\ flows[j] <= 100 * vol[j]
    BY <1>3, <2>2
  <2>4. PICK low : low = [j \in W |-> -100 * vol[j]]
    OBVIOUS
  <2>5. PICK high : high = [j \in W |-> 100 * vol[j]]
    OBVIOUS
  <2>6. \A j \in W : vol[j] \in Int /\ low[j] = -100 * vol[j] /\ high[j] = 100 * vol[j]
    BY <2>3, <2>4, <2>5
  <2>7. PICK v \in Nat, f \in Int : v = SumFunctionOnSet(vol, W) /\ f = SumFunctionOnSet(flows, W)
    BY <2>2, <2>3, SumNat, SumInt
  <2>8. PICK lo \in Int, hi \in Int : lo = -100 /\ hi = 100
    OBVIOUS
  <2>9. Scales(low, vol, lo, W)
    BY <2>6, <2>8 DEF Scales
  <2>10. Scales(high, vol, hi, W)
    BY <2>6, <2>8 DEF Scales
  <2>11. SumFunctionOnSet(low, W) = lo * v
    BY <2>2, <2>7, <2>9, SumScaled
  <2>12. SumFunctionOnSet(high, W) = hi * v
    BY <2>2, <2>7, <2>10, SumScaled
  <2>13. \A j \in W : flows[j] \in Int /\ low[j] \in Int /\ high[j] \in Int /\
             low[j] <= flows[j] /\ flows[j] <= high[j]
    BY <2>3, <2>6
  <2>14. SumFunctionOnSet(low, W) <= f /\ f <= SumFunctionOnSet(high, W)
    BY <2>2, <2>7, <2>13, SumAtMost
  <2>15. lo * v <= f /\ f <= hi * v
    BY <2>11, <2>12, <2>14
  <2>16. Cmf(cs, p)[i] = IF v = 0 THEN 0 ELSE f \div v
    BY <1>4, <2>1, <2>3, <2>7 DEF SumOver
  <2>17. CASE v = 0
    BY <2>16, <2>17 DEF Between
  <2>18. CASE v # 0
    <3>1. Between(f \div v, lo, hi)
      BY <2>7, <2>15, <2>18, QuotientBetween
    <3> QED BY <2>8, <2>16, <2>18, <3>1
  <2> QED BY <2>17, <2>18
<1>6. DOMAIN Cmf(cs, p) = p .. n
  BY <1>4
<1> QED
  BY <1>5, <1>6 DEF Among, Between
-----------------------------------------------------------------------------
(* Bands and channels *)

InOrder(b) == Ordered(b.lower, b.middle) /\ Ordered(b.middle, b.upper)

\* A natural number has a root.
LEMMA RootNat == \A x \in Nat : Root(x) \in Nat
<1> DEFINE T == {x \in Nat : \E r \in 0 .. x : r * r <= x /\ x < (r + 1) * (r + 1)}
<1>1. 0 \in T
  OBVIOUS
<1>2. ASSUME NEW x \in T PROVE x + 1 \in T
  <2>1. PICK r \in 0 .. x : r * r <= x /\ x < (r + 1) * (r + 1)
    BY <1>2
  <2>2. CASE x + 1 < (r + 1) * (r + 1)
    <3>1. r \in 0 .. x + 1 /\ r * r <= x + 1
      BY <2>1
    <3> QED BY <2>2, <3>1
  <2>3. CASE ~(x + 1 < (r + 1) * (r + 1))
    <3>1. r + 1 \in 0 .. x + 1 /\ (r + 1) * (r + 1) <= x + 1
      BY <2>1, <2>3
    <3>2. (r + 1) * (r + 1) + 2 * r + 3 = (r + 1 + 1) * (r + 1 + 1)
      BY <2>1
    <3>3. x + 1 < (r + 1 + 1) * (r + 1 + 1)
      <4>1. PICK u \in Int, v \in Int : u = (r + 1) * (r + 1) /\ v = (r + 1 + 1) * (r + 1 + 1)
        OBVIOUS
      <4>2. x < u /\ u + 2 * r + 3 = v /\ r \in Nat
        BY <2>1, <3>2, <4>1
      <4> QED BY <4>1, <4>2
    <3>4. PICK k \in 0 .. x + 1 : k = r + 1
      BY <3>1
    <3>5. k * k <= x + 1 /\ x + 1 < (k + 1) * (k + 1)
      BY <3>1, <3>3, <3>4
    <3> QED BY <3>5
  <2> QED BY <2>2, <2>3
<1> HIDE DEF T
<1>3. T = Nat
  BY <1>1, <1>2, NatSetInduction DEF T
<1> SUFFICES ASSUME NEW x \in Nat PROVE Root(x) \in Nat
  OBVIOUS
<1>4. \E r \in 0 .. x : r * r <= x /\ x < (r + 1) * (r + 1)
  BY <1>3 DEF T
<1>5. Root(x) \in 0 .. x
  BY <1>4 DEF Root
<1> QED
  BY <1>5

\* Bands at a natural width around the middle are in order.
LEMMA AroundInOrder ==
  ASSUME NEW middle, NEW width, \A i \in DOMAIN middle : middle[i] \in Int,
         \A i \in DOMAIN width : width[i] \in Nat
  PROVE  InOrder(Around(middle, width))
<1>1. PICK upper : upper = [i \in DOMAIN middle \cap DOMAIN width |-> middle[i] + width[i]]
  OBVIOUS
<1>2. PICK lower : lower = [i \in DOMAIN middle \cap DOMAIN width |-> middle[i] - width[i]]
  OBVIOUS
<1>3. Around(middle, width) = [upper |-> upper, middle |-> middle, lower |-> lower]
  BY <1>1, <1>2 DEF Around
<1>4. ASSUME NEW i \in DOMAIN middle \cap DOMAIN width
      PROVE  lower[i] <= middle[i] /\ middle[i] <= upper[i]
  <2>1. middle[i] \in Int /\ width[i] \in Nat
    OBVIOUS
  <2>2. upper[i] = middle[i] + width[i] /\ lower[i] = middle[i] - width[i]
    BY <1>1, <1>2
  <2> QED BY <2>1, <2>2
<1>5. DOMAIN upper = DOMAIN middle \cap DOMAIN width /\
          DOMAIN lower = DOMAIN middle \cap DOMAIN width
  BY <1>1, <1>2
<1>6. Ordered(lower, middle) /\ Ordered(middle, upper)
  BY <1>4, <1>5 DEF Ordered
<1> QED
  BY <1>3, <1>6 DEF InOrder

\* The values of a natural series in a window are natural.
LEMMA WindowValues ==
  ASSUME NEW d \in Seq(Nat), NEW p \in Nat \ {0}, NEW i \in p .. Len(d)
  PROVE  /\ IsFiniteSet(Window(i, p)) /\ Window(i, p) # {}
         /\ \A j \in Window(i, p) : d[j] \in Nat
<1>1. PICK n \in Nat : n = Len(d)
  OBVIOUS
<1>2. Window(i, p) \in SUBSET (1 .. n) /\ IsFiniteSet(Window(i, p)) /\ Window(i, p) # {}
  BY <1>1, WindowAmong
<1>3. \A j \in 1 .. n : d[j] \in Nat
  BY <1>1
<1> QED
  BY <1>2, <1>3

\* The simple average of a natural series, and the deviation from it, are natural.
LEMMA SmaNat ==
  ASSUME NEW d \in Seq(Nat), NEW p \in Nat \ {0}
  PROVE  Sma(d, p) \in [p .. Len(d) -> Nat]
<1>1. ASSUME NEW i \in p .. Len(d) PROVE Average(d, Window(i, p)) \in Nat
  <2>1. AllNat(d, Window(i, p))
    BY WindowValues DEF AllNat
  <2> QED BY <2>1, WindowValues, AverageNat
<1> QED
  BY <1>1 DEF Sma

LEMMA DeviationNat ==
  ASSUME NEW d \in Seq(Nat), NEW p \in Nat \ {0}, NEW i \in p .. Len(d)
  PROVE  Deviation(d, Window(i, p)) \in Nat
<1>1. PICK W : W = Window(i, p) /\ IsFiniteSet(W) /\ W # {} /\ \A j \in W : d[j] \in Nat
  BY WindowValues
<1>2. PICK mean \in Int : mean = Average(d, W)
  BY <1>1, AverageInt
<1>3. PICK squares : squares = [j \in W |-> (d[j] - mean) * (d[j] - mean)]
  OBVIOUS
<1>4. AllNat(squares, W)
  <2> SUFFICES ASSUME NEW j \in W PROVE squares[j] \in Nat
    BY DEF AllNat
  <2>1. PICK x \in Int : x = d[j] - mean
    BY <1>1
  <2>2. x * x \in Nat
    OBVIOUS
  <2> QED BY <1>3, <2>1, <2>2
<1>5. Average(squares, W) \in Nat
  BY <1>1, <1>4, AverageNat
<1>6. Deviation(d, W) = Root(Average(squares, W))
  BY <1>2, <1>3 DEF Deviation
<1> QED
  BY <1>1, <1>5, <1>6, RootNat

\* The channels are in order (bollingerBands.js, keltner.js, donchian.js, envelope.js).
LEMMA BollingerInOrder ==
  ASSUME NEW d \in Seq(Nat), NEW p \in Nat \ {0}, NEW k \in Nat
  PROVE  InOrder(BollingerBands(d, p, k))
<1>1. PICK middle : middle = Sma(d, p) /\ middle \in [p .. Len(d) -> Nat]
  BY SmaNat
<1>2. PICK width : width = [i \in p .. Len(d) |-> k * Deviation(d, Window(i, p))]
  OBVIOUS
<1>3. BollingerBands(d, p, k) = Around(middle, width)
  BY <1>1, <1>2 DEF BollingerBands
<1>4. \A i \in DOMAIN middle : middle[i] \in Int
  BY <1>1
<1>5. \A i \in DOMAIN width : width[i] \in Nat
  <2> SUFFICES ASSUME NEW i \in p .. Len(d) PROVE width[i] \in Nat
    BY <1>2
  <2>1. Deviation(d, Window(i, p)) \in Nat
    BY DeviationNat
  <2>2. k * Deviation(d, Window(i, p)) \in Nat
    BY <2>1
  <2> QED BY <1>2, <2>2
<1> QED
  BY <1>3, <1>4, <1>5, AroundInOrder

\* The values of a sequence of integers in its windows.
LEMMA WindowInts ==
  ASSUME NEW d \in Seq(Int), NEW p \in Nat \ {0}, NEW i \in p .. Len(d)
  PROVE  /\ IsFiniteSet(Window(i, p)) /\ Window(i, p) # {}
         /\ \A j \in Window(i, p) : d[j] \in Int
<1>1. PICK n \in Nat : n = Len(d)
  OBVIOUS
<1>2. Window(i, p) \in SUBSET (1 .. n) /\ IsFiniteSet(Window(i, p)) /\ Window(i, p) # {}
  BY <1>1, WindowAmong
<1>3. \A j \in 1 .. n : d[j] \in Int
  BY <1>1
<1> QED
  BY <1>2, <1>3

\* What an exponential average is at each index.
IsEma(w, d, p, n) ==
  \A i \in p .. n :
    w[i] = IF i = p THEN Average(d, 1 .. p) ELSE (2 * d[i] + (p - 1) * w[i - 1]) \div (p + 1)

\* It is computed as it is defined, and of integers an integer.
LEMMA EmaSteps ==
  ASSUME NEW d \in Seq(Int), NEW p \in Nat \ {0}, NEW w, w = Ema(d, p)
  PROVE  w \in [p .. Len(d) -> Int] /\ IsEma(w, d, p, Len(d))
<1>1. PICK n \in Nat : n = Len(d)
  OBVIOUS
<1>2. PICK base \in Int : p <= n => base = Average(d, 1 .. p)
  <2>1. ASSUME p <= n PROVE Average(d, 1 .. p) \in Int
    <3>1. p \in p .. Len(d) /\ Window(p, p) = 1 .. p
      BY <1>1, <2>1 DEF Window
    <3>2. IsFiniteSet(1 .. p) /\ 1 .. p # {} /\ \A j \in 1 .. p : d[j] \in Int
      <4>1. PICK W : W = Window(p, p) /\ IsFiniteSet(W) /\ W # {} /\ \A j \in W : d[j] \in Int
        BY <3>1, WindowInts
      <4> QED BY <3>1, <4>1
    <3> QED BY <3>2, AverageInt
  <2> QED BY <2>1
<1>3. \A i \in p .. n : d[i] \in Int /\ (i # p => i - 1 \in p .. n)
  BY <1>1
<1> DEFINE h == [a \in Int \X (p .. n) |-> (2 * d[a[2]] + (p - 1) * a[1]) \div (p + 1)]
<1>4. \A v \in Int, i \in p .. n : h[<<v, i>>] = (2 * d[i] + (p - 1) * v) \div (p + 1)
  OBVIOUS
<1> HIDE DEF h
<1>5. StaysIn(Int, base, h, p, n)
  <2> SUFFICES ASSUME NEW v \in Int, NEW i \in p .. n PROVE h[<<v, i>>] \in Int
    BY DEF StaysIn
  <2>1. PICK a \in Int, b \in Nat \ {0} : a = 2 * d[i] + (p - 1) * v /\ b = p + 1
    BY <1>3
  <2>2. a \div b \in Int
    BY QuotientBounds
  <2> QED BY <1>4, <2>1, <2>2
<1>6. PICK g \in [p .. n -> Int] : Follows(g, p, n, base, h)
  BY <1>5, IntervalRecursion
<1>7. g = [i \in p .. n |-> IF i = p THEN Average(d, 1 .. p)
          ELSE (2 * d[i] + (p - 1) * g[i - 1]) \div (p + 1)]
  <2>1. ASSUME NEW i \in p .. n
        PROVE  g[i] = IF i = p THEN Average(d, 1 .. p)
            ELSE (2 * d[i] + (p - 1) * g[i - 1]) \div (p + 1)
    <3>1. CASE i = p
      <4>1. g[i] = base
        BY <1>6, <3>1 DEF Follows
      <4>2. p <= n
        BY <3>1
      <4> QED BY <1>2, <3>1, <4>1, <4>2
    <3>2. CASE i # p
      <4>1. g[i - 1] \in Int
        BY <1>3, <3>2
      <4>2. g[i] = h[<<g[i - 1], i>>]
        BY <1>6, <3>2 DEF Follows
      <4> QED BY <1>4, <3>2, <4>1, <4>2
    <3> QED BY <3>1, <3>2
  <2> QED BY <2>1
<1>8. w = [i \in p .. n |-> IF i = p THEN Average(d, 1 .. p)
          ELSE (2 * d[i] + (p - 1) * w[i - 1]) \div (p + 1)]
  BY <1>1, <1>7 DEF Ema
<1>9. IsEma(w, d, p, n)
  BY <1>8 DEF IsEma
<1> DEFINE G == {i \in p .. n : w[i] \in Int}
<1>10. ASSUME p <= n PROVE p \in G
  <2>1. p \in p .. n
    BY <1>10
  <2>2. w[p] = base
    BY <1>2, <1>8, <1>10, <2>1
  <2> QED BY <2>1, <2>2
<1>11. ASSUME NEW i \in p .. n, i # p, i - 1 \in G PROVE i \in G
  <2>1. PICK v \in Int : v = w[i - 1]
    BY <1>11
  <2>2. w[i] = h[<<v, i>>] /\ h[<<v, i>>] \in Int
    BY <1>4, <1>5, <1>8, <1>11, <2>1 DEF StaysIn
  <2> QED BY <2>2
<1> HIDE DEF G
<1>12. \A i \in p .. n : i \in G
  <2>1. Passes(G, p, n)
    BY <1>10, <1>11 DEF Passes
  <2> QED BY <2>1, IntervalInduction
<1>13. \A i \in p .. n : w[i] \in Int
  BY <1>12 DEF G
<1>14. w = [i \in p .. n |-> w[i]]
  BY <1>8
<1> QED
  BY <1>1, <1>9, <1>13, <1>14

\* The exponential average of a natural series is an integer.
LEMMA EmaInt ==
  ASSUME NEW d \in Seq(Nat), NEW p \in Nat \ {0}
  PROVE  Ema(d, p) \in [p .. Len(d) -> Int]
<1>1. d \in Seq(Int)
  OBVIOUS
<1> QED
  BY <1>1, EmaSteps

\* The average true range is natural.
LEMMA AtrNat ==
  ASSUME NEW cs \in Seq(Bars), NEW p \in Nat \ {0}, NEW w, w = Atr(cs, p)
  PROVE  \A i \in DOMAIN w : w[i] \in Nat
<1>1. CASE Len(cs) < 2
  BY <1>1 DEF Atr
<1>2. CASE ~(Len(cs) < 2)
  <2>1. PICK n \in Nat : n = Len(cs)
    OBVIOUS
  <2>2. PICK ranges : ranges = [i \in 1 .. n |-> TrueRange(cs, i)]
    OBVIOUS
  <2>3. \A i \in 1 .. n : ranges[i] \in Nat
    BY <2>1, <2>2, TrueRangeReaches
  <2>4. AllNat(ranges, p - p + 1 .. n)
    BY <2>3 DEF AllNat
  <2>5. w = Wilder(ranges, p, p, n)
    BY <1>2, <2>1, <2>2 DEF Atr
  <2>6. w \in [p .. n -> Nat]
    BY <2>4, <2>5, WilderNat
  <2> QED BY <2>6
<1> QED
  BY <1>1, <1>2

LEMMA KeltnerInOrder ==
  ASSUME NEW cs \in Seq(Bars), NEW p \in Nat \ {0}
  PROVE  InOrder(KeltnerChannels(cs, p))
<1>1. PICK d \in Seq(Nat) : d = Closes(cs)
  BY ClosesOfBars
<1>2. PICK middle : middle = Ema(d, p) /\ middle \in [p .. Len(d) -> Int]
  BY EmaInt
<1>3. PICK w : w = Atr(cs, p) /\ \A i \in DOMAIN w : w[i] \in Nat
  BY AtrNat
<1>4. PICK width : width = [i \in DOMAIN w |-> (3 * w[i]) \div 2]
  OBVIOUS
<1>5. \A i \in DOMAIN width : width[i] \in Nat
  <2> SUFFICES ASSUME NEW i \in DOMAIN w PROVE width[i] \in Nat
    BY <1>4
  <2>1. PICK x \in Nat : x = w[i]
    BY <1>3
  <2>2. (3 * x) \div 2 \in Nat
    OBVIOUS
  <2> QED BY <1>4, <2>1, <2>2
<1>6. \A i \in DOMAIN middle : middle[i] \in Int
  BY <1>2
<1>7. KeltnerChannels(cs, p) = Around(middle, width)
  BY <1>1, <1>2, <1>3, <1>4 DEF KeltnerChannels
<1> QED
  BY <1>5, <1>6, <1>7, AroundInOrder

LEMMA DonchianInOrder ==
  ASSUME NEW cs \in Seq(Bars), NEW p \in Nat \ {0}
  PROVE  InOrder(DonchianChannels(cs, p))
<1>1. PICK n \in Nat : n = Len(cs)
  OBVIOUS
<1>2. PICK upper : upper = [i \in p .. n |-> Highest(cs, Window(i, p))]
  OBVIOUS
<1>3. PICK lower : lower = [i \in p .. n |-> Lowest(cs, Window(i, p))]
  OBVIOUS
<1>4. PICK middle : middle = Midline(cs, p)
  OBVIOUS
<1>5. middle = [i \in p .. n |-> (Highest(cs, Window(i, p)) + Lowest(cs, Window(i, p))) \div 2]
  BY <1>1, <1>4 DEF Midline
<1>6. DonchianChannels(cs, p) = [upper |-> upper, middle |-> middle, lower |-> lower]
  BY <1>1, <1>2, <1>3, <1>4 DEF DonchianChannels
<1>7. ASSUME NEW i \in p .. n PROVE lower[i] <= middle[i] /\ middle[i] <= upper[i]
  <2>1. Window(i, p) \in SUBSET (1 .. n) /\ Window(i, p) # {}
    BY WindowAmong
  <2>2. PICK hh \in Nat, ll \in Nat :
          hh = Highest(cs, Window(i, p)) /\ ll = Lowest(cs, Window(i, p)) /\ ll <= hh
    BY <1>1, <2>1, WindowSpan
  <2>3. lower[i] = ll /\ upper[i] = hh /\ middle[i] = (hh + ll) \div 2
    BY <1>2, <1>3, <1>5, <2>2
  <2>4. ll <= (hh + ll) \div 2 /\ (hh + ll) \div 2 <= hh
    BY <2>2
  <2> QED BY <2>3, <2>4
<1>8. DOMAIN upper = p .. n /\ DOMAIN middle = p .. n /\ DOMAIN lower = p .. n
  BY <1>2, <1>3, <1>5
<1>9. Ordered(lower, middle) /\ Ordered(middle, upper)
  BY <1>7, <1>8 DEF Ordered
<1> QED
  BY <1>6, <1>9 DEF InOrder

LEMMA EnvelopeInOrder ==
  ASSUME NEW d \in Seq(Nat), NEW p \in Nat \ {0}
  PROVE  InOrder(Envelope(d, p, 25))
<1>1. PICK middle : middle = Sma(d, p) /\ middle \in [p .. Len(d) -> Nat]
  BY SmaNat
<1>2. PICK upper : upper = [i \in DOMAIN middle |-> (middle[i] * (1000 + 25)) \div 1000]
  OBVIOUS
<1>3. PICK lower : lower = [i \in DOMAIN middle |-> (middle[i] * (1000 - 25)) \div 1000]
  OBVIOUS
<1>4. Envelope(d, p, 25) = [upper |-> upper, middle |-> middle, lower |-> lower]
  BY <1>1, <1>2, <1>3 DEF Envelope
<1>5. ASSUME NEW i \in DOMAIN middle PROVE lower[i] <= middle[i] /\ middle[i] <= upper[i]
  <2>1. PICK m \in Nat : m = middle[i]
    BY <1>1
  <2>2. upper[i] = (m * 1025) \div 1000 /\ lower[i] = (m * 975) \div 1000
    BY <1>2, <1>3, <2>1
  <2>3. (m * 975) \div 1000 <= m /\ m <= (m * 1025) \div 1000
    OBVIOUS
  <2> QED BY <2>1, <2>2, <2>3
<1>6. DOMAIN upper = DOMAIN middle /\ DOMAIN lower = DOMAIN middle
  BY <1>2, <1>3
<1>7. Ordered(lower, middle) /\ Ordered(middle, upper)
  BY <1>5, <1>6 DEF Ordered
<1> QED
  BY <1>4, <1>7 DEF InOrder

PivotsInOrder(v) ==
  Ordered(v.s2, v.s1) /\ Ordered(v.s1, v.pp) /\ Ordered(v.pp, v.r1) /\ Ordered(v.r1, v.r2)

\* The levels of the pivots are in order (pivotPoints.js): a typical price is between the low
\* and the high of its bar.
LEMMA PivotLevels ==
  ASSUME NEW cs \in Seq(Bars)
  PROVE  PivotsInOrder(Restrict(PivotPoints(cs), {"pp", "r1", "r2", "s1", "s2"}))
<1> DEFINE n == Len(cs)
           v == PivotPoints(cs)
<1>1. /\ v.pp = [i \in 2 .. n |-> Typical(cs)[i - 1]]
      /\ v.r1 = [i \in 2 .. n |-> 2 * Typical(cs)[i - 1] - cs[i - 1].low]
      /\ v.s1 = [i \in 2 .. n |-> 2 * Typical(cs)[i - 1] - cs[i - 1].high]
      /\ v.r2 = [i \in 2 .. n |-> Typical(cs)[i - 1] + (cs[i - 1].high - cs[i - 1].low)]
      /\ v.s2 = [i \in 2 .. n |-> Typical(cs)[i - 1] - (cs[i - 1].high - cs[i - 1].low)]
  BY DEF PivotPoints
<1> HIDE DEF v
<1>2. ASSUME NEW i \in 2 .. n
      PROVE  /\ v.s2[i] <= v.s1[i] /\ v.s1[i] <= v.pp[i]
             /\ v.pp[i] <= v.r1[i] /\ v.r1[i] <= v.r2[i]
  <2>1. i - 1 \in 1 .. n /\ n \in Nat
    OBVIOUS
  <2>2. PICK h \in Nat, l \in Nat : h = cs[i - 1].high /\ l = cs[i - 1].low
    BY <2>1, BarFacts
  <2>3. PICK t \in Nat : t = Typical(cs)[i - 1] /\ l <= t /\ t <= h
    BY <2>1, <2>2, TypicalPrice
  <2>4. /\ v.pp[i] = t /\ v.r1[i] = 2 * t - l /\ v.s1[i] = 2 * t - h
        /\ v.r2[i] = t + (h - l) /\ v.s2[i] = t - (h - l)
    BY <1>1, <2>2, <2>3
  <2>5. t - (h - l) <= 2 * t - h /\ 2 * t - h <= t /\ t <= 2 * t - l /\ 2 * t - l <= t + (h - l)
    BY <2>3
  <2> QED BY <2>4, <2>5
<1>3. /\ DOMAIN v.pp = 2 .. n /\ DOMAIN v.r1 = 2 .. n /\ DOMAIN v.s1 = 2 .. n
      /\ DOMAIN v.r2 = 2 .. n /\ DOMAIN v.s2 = 2 .. n
  BY <1>1
<1>4. PivotsInOrder(v)
  BY <1>2, <1>3 DEF PivotsInOrder, Ordered
<1>5. PICK r : r = Restrict(v, {"pp", "r1", "r2", "s1", "s2"})
  OBVIOUS
<1>6. r.pp = v.pp /\ r.r1 = v.r1 /\ r.r2 = v.r2 /\ r.s1 = v.s1 /\ r.s2 = v.s2
  BY <1>5 DEF Restrict
<1>7. PivotsInOrder(r)
  BY <1>4, <1>6 DEF PivotsInOrder
<1> QED
  BY <1>5, <1>7 DEF v
-----------------------------------------------------------------------------
(* The lines that are drawn *)

\* All the lines of one drawing.
LEMMA LinesOfBars ==
  ASSUME NEW cs \in Seq(Bars)
  PROVE  LinesInBounds(ComputeIndicatorData(cs))
<1>1. PICK d \in Seq(Nat) : d = Closes(cs)
  BY ClosesOfBars
<1>2. Span \in Nat \ {0} /\ 2 \in Nat \ {0}
  BY ChartAssumption
<1>3. PICK lines : lines = ComputeIndicatorData(cs)
  OBVIOUS
<1>4. /\ lines["stoch"] = Stochastic(cs, Span, 2, 2) /\ lines["mfi"] = [line |-> Mfi(cs, Span)]
      /\ lines["adx"] = Adx(cs, Span) /\ lines["aroon"] = Aroon(cs, Span)
      /\ lines.willr = [line |-> WilliamsR(cs, Span)] /\ lines.cmf = [line |-> Cmf(cs, Span)]
      /\ lines.bb = BollingerBands(d, Span, 2) /\ lines.keltner = KeltnerChannels(cs, Span)
      /\ lines.donchian = DonchianChannels(cs, Span) /\ lines.envelope = Envelope(d, Span, 25)
      /\ lines.pivots = Restrict(PivotPoints(cs), {"pp", "r1", "r2", "s1", "s2"})
  BY <1>1, <1>3 DEF ComputeIndicatorData, Line
<1>5. \A line \in DOMAIN lines["stoch"] : Among(lines["stoch"][line], 0, 100)
  <2>1. PICK two \in Nat \ {0} : two = 2
    BY <1>2
  <2> QED BY <1>2, <1>4, <2>1, StochasticOnScale
<1>6. \A line \in DOMAIN lines["mfi"] : Among(lines["mfi"][line], 0, 100)
  BY <1>2, <1>4, MfiOnScale
<1>7. \A line \in DOMAIN lines["adx"] : Among(lines["adx"][line], 0, 100)
  BY <1>2, <1>4, AdxOnScale
<1>8. \A line \in DOMAIN lines["aroon"] : Among(lines["aroon"][line], 0, 100)
  BY <1>2, <1>4, AroonOnScale
<1>9. \A id \in {"stoch", "mfi", "adx", "aroon"} : \A line \in DOMAIN lines[id] :
        Among(lines[id][line], 0, 100)
  BY <1>5, <1>6, <1>7, <1>8
<1>10. Among(lines.willr.line, -100, 0) /\ Among(lines.cmf.line, -100, 100)
  BY <1>2, <1>4, WilliamsROnScale, CmfOnScale
<1>11. InOrder(lines.bb) /\ InOrder(lines.keltner) /\ InOrder(lines.donchian) /\
           InOrder(lines.envelope)
  BY <1>2, <1>4, BollingerInOrder, KeltnerInOrder, DonchianInOrder, EnvelopeInOrder
<1>12. \A b \in {lines.bb, lines.keltner, lines.donchian, lines.envelope} :
         Ordered(b.lower, b.middle) /\ Ordered(b.middle, b.upper)
  BY <1>11 DEF InOrder
<1>13. PivotsInOrder(lines.pivots)
  BY <1>4, PivotLevels
<1> QED
  BY <1>3, <1>9, <1>10, <1>12, <1>13 DEF LinesInBounds, PivotsInOrder
-----------------------------------------------------------------------------
(* The bars that are drawn *)

\* Of n numbers, there is one with i of them up to it.
LEMMA RankExists ==
  ASSUME NEW T \in SUBSET Int, IsFiniteSet(T), NEW i \in 1 .. Cardinality(T)
  PROVE  \E t \in T : Cardinality({u \in T : u <= t}) = i
<1> DEFINE S == {k \in Nat : k + 1 <= Cardinality(T) =>
        \E t \in T : Cardinality({u \in T : u <= t}) = k + 1}
<1>1. Cardinality(T) \in Nat
  BY FS_CardinalityType
<1>2. 0 \in S
  <2> SUFFICES ASSUME 0 + 1 <= Cardinality(T)
          PROVE \E t \in T : Cardinality({u \in T : u <= t}) = 0 + 1
    BY <1>1
  <2>1. T # {}
    BY <1>1, FS_EmptySet
  <2>2. PICK t \in Int : t = Min(T) /\ t \in T /\ \A u \in T : t <= u
    BY <2>1, MinOfFinite
  <2>3. ASSUME NEW u \in T, u <= t PROVE u = t
    <3>1. PICK w \in Int : w = u
      OBVIOUS
    <3>2. t <= w /\ w <= t
      BY <2>2, <2>3, <3>1
    <3>3. w = t
      BY <3>2
    <3> QED BY <3>1, <3>3
  <2>4. t <= t
    OBVIOUS
  <2>5. {u \in T : u <= t} = {t}
    BY <2>2, <2>3, <2>4
  <2>6. Cardinality({u \in T : u <= t}) = 1
    BY <2>5, FS_Singleton
  <2>7. 1 = 0 + 1
    OBVIOUS
  <2> QED BY <2>2, <2>6, <2>7
<1>3. ASSUME NEW k \in S PROVE k + 1 \in S
  <2>1. k \in Nat
    OBVIOUS
  <2>2. SUFFICES ASSUME (k + 1) + 1 <= Cardinality(T)
                 PROVE  \E t \in T : Cardinality({u \in T : u <= t}) = (k + 1) + 1
    BY <2>1
  <2>3. PICK t \in T : Cardinality({u \in T : u <= t}) = k + 1
    BY <1>1, <2>1, <2>2
  <2> DEFINE below == {u \in T : u <= t}  above == {u \in T : u > t}
  <2>4. above # {}
    <3>1. SUFFICES ASSUME above = {} PROVE FALSE
      OBVIOUS
    <3>2. ASSUME NEW u \in T PROVE u <= t
      <4>1. PICK w \in Int, z \in Int : w = u /\ z = t
        OBVIOUS
      <4>2. ~ (u > t)
        BY <3>1
      <4> QED BY <4>1, <4>2
    <3>3. below = T
      BY <3>2
    <3>4. PICK c \in Nat : c = Cardinality(T)
      BY <1>1
    <3>5. c = k + 1 /\ (k + 1) + 1 <= c
      BY <2>2, <2>3, <3>3, <3>4
    <3> QED BY <2>1, <3>5
  <2>5. IsFiniteSet(above) /\ above \in SUBSET Int /\ IsFiniteSet(below)
    BY FS_Subset
  <2>6. PICK m \in Int : m = Min(above) /\ m \in above /\ \A u \in above : m <= u
    BY <2>4, <2>5, MinOfFinite
  <2>7. m \in T /\ m > t /\ m \notin below
    BY <2>6
  <2>8. ASSUME NEW u \in T PROVE u <= m <=> u <= t \/ u = m
    <3>1. PICK w \in Int, z \in Int : w = u /\ z = t
      OBVIOUS
    <3>2. w > z => m <= w
      BY <2>6, <3>1
    <3>3. m > z
      BY <2>7, <3>1
    <3>4. w <= m <=> w <= z \/ w = m
      BY <3>2, <3>3
    <3> QED BY <3>1, <3>4
  <2>9. {u \in T : u <= m} = below \cup {m}
    BY <2>7, <2>8
  <2>10. Cardinality(below \cup {m}) = Cardinality(below) + 1
    BY <2>5, <2>7, FS_AddElement
  <2> QED BY <2>3, <2>7, <2>9, <2>10
<1> HIDE DEF S
<1>4. S = Nat
  BY <1>2, <1>3, NatSetInduction DEF S
<1>5. PICK k \in Nat : k + 1 = i
  <2>1. i - 1 \in Nat /\ (i - 1) + 1 = i
    BY <1>1
  <2> QED BY <2>1
<1>6. k + 1 <= Cardinality(T)
  BY <1>1, <1>5
<1> QED
  BY <1>4, <1>5, <1>6 DEF S

\* The rows that are kept are candles.
LEMMA AsGivenAreCandles ==
  ASSUME NEW rows \in Seq(CandleRows)
  PROVE  NormalizedAsGiven(rows) \in Seq(Candles)
<1>1. PICK n \in Nat : n = Len(rows)
  OBVIOUS
<1>2. PICK good : good = {k \in 1 .. n : Usable(rows[k].bar)}
  OBVIOUS
<1>3. PICK times : times = {rows[k].time : k \in good}
  OBVIOUS
<1>4. \A k \in 1 .. n : rows[k].time \in Nat /\ rows[k].bar \in Candles
  <2> SUFFICES ASSUME NEW k \in 1 .. n PROVE rows[k].time \in Nat /\ rows[k].bar \in Candles
    OBVIOUS
  <2>1. rows[k] \in CandleRows
    BY <1>1
  <2> QED BY <2>1 DEF CandleRows
<1>5. IsFiniteSet(good) /\ good \in SUBSET (1 .. n)
  <2>1. IsFiniteSet(1 .. n)
    BY FS_Interval
  <2> QED BY <1>2, <2>1, FS_Subset
<1>6. IsFiniteSet(times) /\ times \in SUBSET Int
  <2>1. PICK f : f = [k \in good |-> rows[k].time]
    OBVIOUS
  <2>2. times = {f[k] : k \in good}
    BY <1>3, <2>1
  <2>3. IsFiniteSet(times)
    BY <1>5, <2>2, ImageIsFinite
  <2> QED BY <1>3, <1>4, <1>5, <2>3
<1>7. PICK m \in Nat : m = Cardinality(times)
  BY <1>6, FS_CardinalityType
<1>8. NormalizedAsGiven(rows) =
        [i \in 1 .. m |->
           rows[Max({k \in good : rows[k].time =
                       CHOOSE t \in times : Cardinality({u \in times : u <= t}) = i})].bar]
  BY <1>1, <1>2, <1>3, <1>7 DEF NormalizedAsGiven
<1>9. ASSUME NEW i \in 1 .. m PROVE NormalizedAsGiven(rows)[i] \in Candles
  <2>1. PICK t : t = CHOOSE w \in times : Cardinality({u \in times : u <= w}) = i
    OBVIOUS
  <2>2. t \in times
    <3>1. \E u \in times : Cardinality({w \in times : w <= u}) = i
      BY <1>6, <1>7, RankExists
    <3> QED BY <2>1, <3>1
  <2>3. PICK K : K = {k \in good : rows[k].time = t}
    OBVIOUS
  <2>4. K # {} /\ K \in SUBSET good
    BY <1>3, <2>2, <2>3
  <2>5. IsFiniteSet(K) /\ K \in SUBSET Int
    <3>1. IsFiniteSet(K)
      BY <1>5, <2>4, FS_Subset
    <3>2. good \in SUBSET Int
      BY <1>5
    <3> QED BY <2>4, <3>1, <3>2
  <2>6. Max(K) \in good
    BY <2>4, <2>5, MaxOfFinite
  <2>7. NormalizedAsGiven(rows)[i] = rows[Max(K)].bar
    BY <1>8, <2>1, <2>3
  <2> QED BY <1>4, <1>5, <2>6, <2>7
<1>10. PICK f : f = NormalizedAsGiven(rows) /\ f \in [1 .. m -> Candles]
  BY <1>8, <1>9
<1> QED
  BY <1>10

\* Repaired, a candle is a bar: its high and its low span its close.
LEMMA SpannedIsBar ==
  ASSUME NEW c \in Candles
  PROVE  [c EXCEPT !.high = High(c), !.low = Low(c)] \in Bars
<1>1. c.open \in Nat /\ c.high \in Nat /\ c.low \in Nat /\ c.close \in Nat /\ c.volume \in Nat
  BY DEF Candles
<1>2. PICK P : P = {c.open, c.high, c.low, c.close}
  OBVIOUS
<1>3. IsFiniteSet(P)
  <2>1. IsFiniteSet({c.open})
    BY FS_Singleton
  <2>2. IsFiniteSet({c.open} \cup {c.high})
    BY <2>1, FS_AddElement
  <2>3. IsFiniteSet(({c.open} \cup {c.high}) \cup {c.low})
    BY <2>2, FS_AddElement
  <2>4. IsFiniteSet((({c.open} \cup {c.high}) \cup {c.low}) \cup {c.close})
    BY <2>3, FS_AddElement
  <2>5. P = (({c.open} \cup {c.high}) \cup {c.low}) \cup {c.close}
    BY <1>2
  <2> QED BY <2>4, <2>5
<1>4. P \in SUBSET Int /\ P # {} /\ c.close \in P /\ \A x \in P : x \in Nat
  BY <1>1, <1>2
<1>5. PICK h \in Nat : h = High(c) /\ c.close <= h
  <2>1. Max(P) \in P /\ \A y \in P : Max(P) >= y
    BY <1>3, <1>4, MaxOfFinite
  <2> QED BY <1>2, <1>4, <2>1 DEF High
<1>6. PICK l \in Nat : l = Low(c) /\ l <= c.close
  <2>1. Min(P) \in P /\ \A y \in P : Min(P) <= y
    BY <1>3, <1>4, MinOfFinite
  <2> QED BY <1>2, <1>4, <2>1 DEF Low
<1>7. [c EXCEPT !.high = h, !.low = l] \in Candles
  BY DEF Candles
<1>8. PICK b : b = [c EXCEPT !.high = h, !.low = l]
  OBVIOUS
<1>9. b.high = h /\ b.low = l /\ b.close = c.close
  BY <1>8 DEF Candles
<1> QED
  BY <1>5, <1>6, <1>7, <1>8, <1>9 DEF Bars

\* So the rows of the server become bars, and a live price leaves them bars.
LEMMA NormalizedAreBars ==
  ASSUME NEW rows \in Seq(CandleRows)
  PROVE  NormalizeChartCandles(rows) \in Seq(Bars)
<1>1. PICK given \in Seq(Candles) : given = NormalizedAsGiven(rows)
  BY AsGivenAreCandles
<1>2. PICK n \in Nat : n = Len(given) /\ DOMAIN given = 1 .. n
  OBVIOUS
<1>3. NormalizeChartCandles(rows) =
        [i \in DOMAIN given |-> [given[i] EXCEPT !.high = High(given[i]), !.low = Low(given[i])]]
  BY <1>1 DEF NormalizeChartCandles
<1>4. ASSUME NEW i \in 1 .. n PROVE NormalizeChartCandles(rows)[i] \in Bars
  <2>1. PICK c \in Candles : c = given[i]
    BY <1>2
  <2>2. NormalizeChartCandles(rows)[i] = [c EXCEPT !.high = High(c), !.low = Low(c)]
    BY <1>2, <1>3, <2>1
  <2> QED BY <2>2, SpannedIsBar
<1>5. PICK f : f = NormalizeChartCandles(rows) /\ f \in [1 .. n -> Bars]
  BY <1>2, <1>3, <1>4
<1> QED
  BY <1>5

LEMMA MovedAreBars ==
  ASSUME NEW cs \in Seq(Bars), NEW p \in Nat
  PROVE  Moved(cs, p) \in Seq(Bars)
<1>1. PICK n \in Nat : n = Len(cs)
  OBVIOUS
<1>2. CASE n # 0
  <2>1. PICK c \in Bars : c = cs[n]
    BY <1>1, <1>2
  <2>2. c \in Candles /\ c.high \in Nat /\ c.low \in Nat
    BY DEF Bars, Candles
  <2>3. PICK h \in Nat : h = Max({c.high, p}) /\ p <= h
    <3>1. PICK a \in Int, b \in Int : a = c.high /\ b = p /\ a \in Nat /\ b \in Nat
      BY <2>2
    <3>2. PICK m : m = Max({a, b})
      OBVIOUS
    <3>3. m \in {a, b} /\ m >= b
      BY <3>2, MaxOfTwo
    <3>4. m \in Nat
      BY <3>1, <3>3
    <3> QED BY <3>1, <3>2, <3>3, <3>4
  <2>4. PICK l \in Nat : l = Min({c.low, p}) /\ l <= p
    <3>1. PICK a \in Int, b \in Int : a = c.low /\ b = p /\ a \in Nat /\ b \in Nat
      BY <2>2
    <3>2. PICK m : m = Min({a, b})
      OBVIOUS
    <3>3. m \in {a, b} /\ m <= b
      BY <3>2, MinOfTwo
    <3>4. m \in Nat
      BY <3>1, <3>3
    <3> QED BY <3>1, <3>2, <3>3, <3>4
  <2>5. PICK b : b = [c EXCEPT !.close = p, !.high = Max({@, p}), !.low = Min({@, p})]
    OBVIOUS
  <2>6. b \in Bars
    <3>1. b = [c EXCEPT !.close = p, !.high = h, !.low = l]
      BY <2>2, <2>3, <2>4, <2>5 DEF Candles
    <3>2. b \in Candles /\ b.close = p /\ b.high = h /\ b.low = l
      BY <2>2, <3>1 DEF Candles
    <3> QED BY <2>3, <2>4, <3>2 DEF Bars
  <2>7. [cs EXCEPT ![n] = b] \in Seq(Bars)
    BY <1>1, <1>2, <2>6, ExceptSeq
  <2>8. Moved(cs, p) = cs \/ Moved(cs, p) = [cs EXCEPT ![n] = b]
    BY <1>1, <1>2, <2>1, <2>5 DEF Moved
  <2> QED BY <2>7, <2>8
<1>3. CASE n = 0
  BY <1>1, <1>3 DEF Moved
<1> QED
  BY <1>2, <1>3
-----------------------------------------------------------------------------
(* The chart *)

\* What the bounds rest on: the rows are candles, and what is drawn of them are bars.
ChartSound ==
  /\ history \in Seq(CandleRows) /\ chartBars \in Seq(Bars)
  /\ livePrice \in Nat
  /\ IndicatorsInBounds

\* What a commit shows.
LEMMA ShownAreBars ==
  ASSUME NEW rows \in Seq(CandleRows), NEW p \in Nat
  PROVE  Moved(NormalizeChartCandles(rows), p) \in Seq(Bars)
BY NormalizedAreBars, MovedAreBars

\* What the effect of the lines draws.
LEMMA DrawnInBounds ==
  ASSUME NEW ids, NEW cs \in Seq(Bars), DrawLines(ids, cs),
         "ema" \in DOMAIN drawn => LinesInBounds(drawn)
  PROVE  "ema" \in DOMAIN drawn' => LinesInBounds(drawn')
<1>1. CASE cs = << >>
  BY <1>1 DEF DrawLines
<1>2. CASE cs # << >>
  <2>1. PICK lines : lines = ComputeIndicatorData(cs)
    OBVIOUS
  <2>2. PICK prices : prices = IF "price" \in ids THEN lines ELSE << >>
    OBVIOUS
  <2>3. PICK atr : atr = {"atr14"} \cap IF AtrThrows(cs) THEN {} ELSE ids
    OBVIOUS
  <2>4. PICK line : line = Line(Atr(cs, AtrSpan))
    OBVIOUS
  <2>5. drawn' = [id \in DOMAIN prices \cup atr |-> IF id \in atr THEN line ELSE prices[id]]
    BY <1>2, <2>1, <2>2, <2>3, <2>4 DEF DrawLines
  <2>6. CASE "price" \in ids
    <3>1. prices = lines
      BY <2>2, <2>6
    <3>2. DOMAIN lines = {"ema", "sma", "wma", "hma", "dema", "tema", "vwap", "bb", "keltner",
                          "donchian", "envelope", "supertrend", "psar", "ichimoku", "pivots",
                          "macd", "stoch", "cci", "willr", "roc", "aroon", "adx", "stddev",
                          "obv", "mfi", "cmf"}
      BY <2>1 DEF ComputeIndicatorData
    <3>3. \A id \in DOMAIN lines : drawn'[id] = lines[id]
      BY <2>3, <2>5, <3>1, <3>2
    <3>4. LinesInBounds(lines)
      BY <2>1, LinesOfBars
    <3>5. /\ \A id \in {"stoch", "mfi", "adx", "aroon"} : drawn'[id] = lines[id]
          /\ drawn'.willr = lines.willr /\ drawn'.cmf = lines.cmf /\ drawn'.bb = lines.bb
          /\ drawn'.keltner = lines.keltner /\ drawn'.donchian = lines.donchian
          /\ drawn'.envelope = lines.envelope /\ drawn'.pivots = lines.pivots
      BY <3>2, <3>3
    <3> QED BY <3>4, <3>5 DEF LinesInBounds
  <2>7. CASE "price" \notin ids
    <3>1. DOMAIN prices = {}
      BY <2>2, <2>7
    <3>2. DOMAIN drawn' = DOMAIN prices \cup atr
      BY <2>5
    <3> QED BY <2>3, <3>1, <3>2
  <2> QED BY <2>6, <2>7
<1> QED
  BY <1>1, <1>2

\* What the pane of the RSI shows.
LEMMA PaneOnScale ==
  ASSUME NEW cs \in Seq(Bars), Among(rsiPane, 0, 100)
  PROVE  Among(RsiPane(cs), 0, 100) /\ Among(Rsi(Closes(cs), Span), 0, 100)
<1>1. Among(Rsi(Closes(cs), Span), 0, 100)
  BY ClosesOfBars, RsiOnScale, ChartAssumption
<1> QED
  BY <1>1 DEF RsiPane

\* No line is out of its bounds where none is drawn.
LEMMA NothingDrawn == Among(<< >>, 0, 100) /\ "ema" \notin DOMAIN << >>
BY DEF Among

\* What useMarketData may answer.
LEMMA AnswersAreRows ==
  ASSUME history \in Seq(CandleRows)
  PROVE  Answers \in SUBSET Seq(CandleRows)
<1>1. Histories \in SUBSET Seq(CandleRows) /\ Shapes \in SUBSET Candles
  BY ChartAssumption
<1>2. << >> \in Seq(CandleRows)
  OBVIOUS
<1>3. SUFFICES ASSUME NEW rows \in Answers PROVE rows \in Seq(CandleRows)
  OBVIOUS
<1>4. CASE rows \in Histories \cup {<< >>}
  BY <1>1, <1>2, <1>4
<1>5. CASE rows \notin Histories \cup {<< >>}
  <2>1. history # << >>
    BY <1>5 DEF Answers
  <2>2. PICK now : now = history[Len(history)].time
    OBVIOUS
  <2>3. now \in Nat
    <3>1. history[Len(history)] \in CandleRows
      BY <2>1
    <3> QED BY <2>2, <3>1 DEF CandleRows
  <2>4. rows \in {Append(history, row) : row \in [time : {now, now + 1}, bar : Shapes]}
    BY <1>5, <2>1, <2>2 DEF Answers
  <2>5. PICK row \in [time : {now, now + 1}, bar : Shapes] : rows = Append(history, row)
    BY <2>4
  <2>6. row \in CandleRows
    BY <1>1, <2>3 DEF CandleRows
  <2> QED BY <2>5, <2>6
<1> QED
  BY <1>4, <1>5

\* The empty sequence, of any kind.
LEMMA EmptySequence == \A S : << >> \in Seq(S)
OBVIOUS

\* The first state of the chart, and each of its steps.
LEMMA ChartStarts == ChartInit => ChartSound
<1> SUFFICES ASSUME ChartInit PROVE ChartSound
  OBVIOUS
<1>1. history = << >> /\ chartBars = << >> /\ livePrice = 0 /\ rsiPane = << >> /\ drawn = << >>
  BY DEF ChartInit
<1>2. IndicatorsInBounds
  BY <1>1, NothingDrawn DEF IndicatorsInBounds
<1> QED
  BY <1>1, <1>2 DEF ChartSound

LEMMA ChartSteps == ChartSound /\ [ChartNext]_chartVars => ChartSound'
<1> SUFFICES ASSUME ChartSound, [ChartNext]_chartVars PROVE ChartSound'
  OBVIOUS
<1>1. /\ history \in Seq(CandleRows) /\ chartBars \in Seq(Bars) /\ livePrice \in Nat
      /\ Among(rsiPane, 0, 100)
      /\ "ema" \in DOMAIN drawn => LinesInBounds(drawn)
  BY DEF ChartSound, IndicatorsInBounds
<1>2. SUFFICES /\ history' \in Seq(CandleRows) /\ chartBars' \in Seq(Bars) /\ livePrice' \in Nat
               /\ Among(rsiPane', 0, 100)
               /\ "ema" \in DOMAIN drawn' => LinesInBounds(drawn')
  BY DEF ChartSound, IndicatorsInBounds
<1>3. Among(RsiPane(chartBars), 0, 100) /\ Among(Rsi(Closes(chartBars), Span), 0, 100)
  BY <1>1, PaneOnScale
<1>4. /\ Histories \cup {<< >>} \in SUBSET Seq(CandleRows)
      /\ LivePrices \in SUBSET Nat
  BY ChartAssumption, EmptySequence
<1>5. << >> \in Seq(Bars)
  BY EmptySequence
<1>6. CASE SymbolChanges
  <2>1. livePrice' \in Nat
    BY <1>4, <1>6 DEF SymbolChanges
  <2>2. PICK rows \in Seq(CandleRows) :
          /\ history' = rows
          /\ chartBars' = IF crashed THEN << >> ELSE Moved(NormalizeChartCandles(rows), livePrice')
    BY <1>4, <1>6 DEF SymbolChanges
  <2>3. chartBars' \in Seq(Bars)
    BY <1>5, <2>1, <2>2, ShownAreBars
  <2>4. drawn' = << >> /\ rsiPane' = << >>
    BY <1>6 DEF SymbolChanges, Mounted
  <2> QED BY <2>1, <2>2, <2>3, <2>4, NothingDrawn
<1>7. CASE CandlesArrive
  <2>1. PICK rows \in Seq(CandleRows) : Show(rows, livePrice)
    BY <1>1, <1>7, AnswersAreRows DEF CandlesArrive
  <2>2. chartBars' \in Seq(Bars)
    BY <1>1, <2>1, ShownAreBars DEF Show
  <2>3. PICK cs \in Seq(Bars) : cs = chartBars' /\ DrawLines(active, cs)
    BY <2>1, <2>2 DEF Show
  <2>4. "ema" \in DOMAIN drawn' => LinesInBounds(drawn')
    BY <1>1, <2>3, DrawnInBounds
  <2>5. history' = rows /\ livePrice' = livePrice /\ rsiPane' = RsiPane(chartBars)
    BY <1>7, <2>1 DEF CandlesArrive, Show
  <2> QED BY <1>1, <1>3, <2>2, <2>4, <2>5
<1>8. CASE LiveTick
  <2>1. livePrice' \in Nat
    BY <1>4, <1>8 DEF LiveTick
  <2>2. chartBars' \in Seq(Bars)
    BY <1>1, <1>8, <2>1, MovedAreBars DEF LiveTick
  <2>3. history' = history /\ drawn' = drawn /\ rsiPane' = RsiPane(chartBars)
    BY <1>8 DEF LiveTick
  <2> QED BY <1>1, <1>3, <2>1, <2>2, <2>3
<1>9. CASE FeedFades
  <2>1. /\ livePrice' = 0 /\ rsiPane' \in {rsiPane, RsiPane(chartBars)}
        /\ history' = history /\ chartBars' = chartBars /\ drawn' = drawn
    BY <1>9 DEF FeedFades
  <2> QED BY <1>1, <1>3, <2>1
<1>10. CASE ToggleIndicator
  <2>1. PICK next : /\ DrawLines(next, chartBars)
                    /\ rsiPane' \in {rsiPane, Rsi(Closes(chartBars), Span), << >>}
    BY <1>10 DEF ToggleIndicator
  <2>2. "ema" \in DOMAIN drawn' => LinesInBounds(drawn')
    BY <1>1, <2>1, DrawnInBounds
  <2>3. history' = history /\ chartBars' = chartBars /\ livePrice' = livePrice
    BY <1>10 DEF ToggleIndicator
  <2> QED BY <1>1, <1>3, <2>1, <2>2, <2>3, NothingDrawn
<1>11. CASE ThemeChanges
  <2>1. PICK cs \in Seq(Bars) : cs = chartBars' /\ cs = NormalizeChartCandles(history)
    BY <1>1, <1>11, NormalizedAreBars DEF ThemeChanges
  <2>2. drawn' = << >> \/ DrawLines(active, cs)
    BY <1>11, <2>1 DEF ThemeChanges
  <2>3. "ema" \in DOMAIN drawn' => LinesInBounds(drawn')
    BY <1>1, <2>2, DrawnInBounds, NothingDrawn
  <2>4. history' = history /\ livePrice' = livePrice /\ rsiPane' \in {<< >>, RsiPane(chartBars)}
    BY <1>11 DEF ThemeChanges
  <2> QED BY <1>1, <1>3, <2>1, <2>3, <2>4, NothingDrawn
<1>12. CASE TryAgain
  <2>1. /\ drawn' = << >> /\ rsiPane' = << >> /\ chartBars' = << >>
        /\ history' = history /\ livePrice' = livePrice
    BY <1>12 DEF TryAgain, Mounted
  <2> QED BY <1>1, <1>5, <2>1, NothingDrawn
<1>13. CASE UNCHANGED chartVars
  BY <1>1, <1>13 DEF chartVars
<1> QED
  BY <1>6, <1>7, <1>8, <1>9, <1>10, <1>11, <1>12, <1>13 DEF ChartNext

(***************************************************************************)
(* Whatever candles the server sends, whatever the live feed brings and in *)
(* whatever order the user changes symbol, theme and indicators: the       *)
(* oscillators stay on their scales, and the channels and the pivots in    *)
(* order. All it takes is that ZebuLiveChart.jsx:92-93 spans the close of  *)
(* each bar by its high and its low, and :831-834 keeps that when the live *)
(* price moves the last one.                                               *)
(***************************************************************************)
THEOREM IndicatorsBounded == ChartSpec => []IndicatorsInBounds
<1>1. ChartSound => IndicatorsInBounds
  BY DEF ChartSound
<1> QED
  BY <1>1, ChartStarts, ChartSteps, PTL DEF ChartSpec
-----------------------------------------------------------------------------
(* What two drawings have in common *)

\* Two lines have the same values at the bars up to k.
Same(f, g, k) ==
  \A i \in 1 .. k : (i \in DOMAIN f <=> i \in DOMAIN g) /\ (i \in DOMAIN f => f[i] = g[i])

\* Two series have the same values in W.
AlikeOn(x, y, W) == \A j \in W : y[j] = x[j]

\* Two sequences of integers, the same up to k.
Twins(d, e, k) ==
  /\ d \in Seq(Int) /\ e \in Seq(Int) /\ k \in Int /\ k <= Len(d) /\ k <= Len(e)
  /\ \A j \in 1 .. k : e[j] = d[j]

\* Two lines from lo to n and to m, the same up to k.
Lines(f, g, lo, n, m, k) ==
  /\ f \in [lo .. n -> Int] /\ g \in [lo .. m -> Int]
  /\ \A i \in lo .. k : g[i] = f[i]

\* Lines that start at the same bar and do not end before k are the same if their values are.
LEMMA SameOnInterval ==
  ASSUME NEW lo \in Int, NEW n \in Int, NEW m \in Int, NEW k \in Int, k <= n, k <= m,
         NEW f, NEW g, DOMAIN f = lo .. n, DOMAIN g = lo .. m,
         \A i \in lo .. k : i >= 1 => g[i] = f[i]
  PROVE  Same(f, g, k)
<1> SUFFICES ASSUME NEW i \in 1 .. k
             PROVE  (i \in DOMAIN f <=> i \in DOMAIN g) /\ (i \in DOMAIN f => f[i] = g[i])
  BY DEF Same
<1>1. i \in lo .. n <=> i \in lo .. k
  OBVIOUS
<1>2. i \in lo .. m <=> i \in lo .. k
  OBVIOUS
<1> QED
  BY <1>1, <1>2

\* Lines of integers, too.
LEMMA SameLine ==
  ASSUME NEW lo \in Int, NEW n \in Int, NEW m \in Int, NEW k \in Int, k <= n, k <= m,
         NEW f, NEW g, Lines(f, g, lo, n, m, k)
  PROVE  Same(f, g, k)
<1>1. DOMAIN f = lo .. n /\ DOMAIN g = lo .. m /\ \A i \in lo .. k : i >= 1 => g[i] = f[i]
  BY DEF Lines
<1> QED
  BY <1>1, SameOnInterval

\* Sums, averages and deviations of the same values.
LEMMA SumsAlike ==
  ASSUME NEW x, NEW y, NEW W, IsFiniteSet(W), AlikeOn(x, y, W)
  PROVE  /\ SumOver(y, W) = SumOver(x, W) /\ Average(y, W) = Average(x, W)
         /\ Deviation(y, W) = Deviation(x, W)
<1>1. \A j \in W : y[j] = x[j]
  BY DEF AlikeOn
<1>2. SumOver(y, W) = SumOver(x, W)
  BY <1>1, SumOfSame DEF SumOver
<1>3. Average(y, W) = Average(x, W)
  BY <1>2 DEF Average
<1>4. PICK mean : mean = Average(x, W)
  OBVIOUS
<1>5. [j \in W |-> (y[j] - mean) * (y[j] - mean)] = [j \in W |-> (x[j] - mean) * (x[j] - mean)]
  BY <1>1
<1>6. Deviation(y, W) = Deviation(x, W)
  BY <1>3, <1>4, <1>5 DEF Deviation
<1> QED
  BY <1>2, <1>3, <1>6

\* The values of twins in the windows up to k.
LEMMA WindowTwins ==
  ASSUME NEW d, NEW e, NEW k, Twins(d, e, k), NEW p \in Nat \ {0}, NEW i \in p .. k
  PROVE  /\ AlikeOn(d, e, Window(i, p)) /\ IsFiniteSet(Window(i, p)) /\ Window(i, p) # {}
         /\ Window(i, p) \in SUBSET (1 .. k) /\ i \in 1 .. k
<1>1. k \in Int /\ k <= Len(d) /\ d \in Seq(Int)
  BY DEF Twins
<1>2. IsFiniteSet(Window(i, p)) /\ Window(i, p) # {}
  <2>1. i \in Int
    OBVIOUS
  <2> QED BY ONLY <2>1, p \in Nat \ {0}, WindowIsFinite
<1>3. \A j \in Window(i, p) : j \in 1 .. k
  BY <1>1 DEF Window
<1>4. \A j \in 1 .. k : d[j] \in Int /\ e[j] = d[j]
  BY <1>1 DEF Twins
<1>5. i \in 1 .. k
  BY <1>1
<1> QED
  BY <1>2, <1>3, <1>4, <1>5 DEF AlikeOn

\* The simple average.
LEMMA SmaLines ==
  ASSUME NEW d, NEW e, NEW k, Twins(d, e, k), NEW p \in Nat \ {0}
  PROVE  Lines(Sma(d, p), Sma(e, p), p, Len(d), Len(e), k)
<1>1. d \in Seq(Int) /\ e \in Seq(Int) /\ k <= Len(d) /\ k <= Len(e) /\ k \in Int
  BY DEF Twins
<1>2. ASSUME NEW c \in Seq(Int) PROVE Sma(c, p) \in [p .. Len(c) -> Int]
  <2>1. ASSUME NEW i \in p .. Len(c) PROVE Average(c, Window(i, p)) \in Int
    BY WindowInts, AverageInt
  <2> QED BY <2>1 DEF Sma
<1>3. ASSUME NEW i \in p .. k PROVE Sma(e, p)[i] = Sma(d, p)[i]
  <2>1. Average(e, Window(i, p)) = Average(d, Window(i, p))
    BY WindowTwins, SumsAlike
  <2>2. i \in p .. Len(d) /\ i \in p .. Len(e)
    BY <1>1
  <2> QED BY <2>1, <2>2 DEF Sma
<1> QED
  BY <1>1, <1>2, <1>3 DEF Lines

\* Two that start alike and step alike are alike.
StepAlike(f, g, lo, k) ==
  /\ lo <= k => g[lo] = f[lo]
  /\ \A i \in lo .. k : i # lo /\ g[i - 1] = f[i - 1] => g[i] = f[i]

\* So they are the same wherever they have a value.
LEMMA StepsAlike ==
  ASSUME NEW lo \in Int, NEW k \in Int, NEW f, NEW g, StepAlike(f, g, lo, k)
  PROVE  \A i \in lo .. k : g[i] = f[i]
<1> DEFINE G == {i \in lo .. k : g[i] = f[i]}
<1>1. lo <= k => lo \in G
  BY DEF StepAlike
<1>2. ASSUME NEW i \in lo .. k, i # lo, i - 1 \in G PROVE i \in G
  BY <1>2 DEF StepAlike
<1> HIDE DEF G
<1>3. \A i \in lo .. k : i \in G
  <2>1. Passes(G, lo, k)
    BY <1>1, <1>2 DEF Passes
  <2> QED BY <2>1, IntervalInduction
<1> QED
  BY <1>3 DEF G

\* The exponential average.
LEMMA EmaLines ==
  ASSUME NEW d, NEW e, NEW k, Twins(d, e, k), NEW p \in Nat \ {0}
  PROVE  Lines(Ema(d, p), Ema(e, p), p, Len(d), Len(e), k)
<1>1. d \in Seq(Int) /\ e \in Seq(Int) /\ k <= Len(d) /\ k <= Len(e) /\ k \in Int
  BY DEF Twins
<1>2. PICK f : f = Ema(d, p) /\ f \in [p .. Len(d) -> Int] /\ IsEma(f, d, p, Len(d))
  BY <1>1, EmaSteps
<1>3. PICK g : g = Ema(e, p) /\ g \in [p .. Len(e) -> Int] /\ IsEma(g, e, p, Len(e))
  BY <1>1, EmaSteps
<1>4. \A i \in p .. k : i \in p .. Len(d) /\ i \in p .. Len(e) /\ i \in 1 .. k
  BY <1>1
<1>5. \A i \in p .. k : e[i] = d[i]
  BY <1>4 DEF Twins
<1>6. ASSUME p <= k PROVE g[p] = f[p]
  <2>1. p \in p .. k /\ Window(p, p) = 1 .. p
    BY <1>1, <1>6 DEF Window
  <2>2. Average(e, Window(p, p)) = Average(d, Window(p, p))
    BY <2>1, WindowTwins, SumsAlike
  <2>3. f[p] = Average(d, 1 .. p) /\ g[p] = Average(e, 1 .. p)
    BY <1>2, <1>3, <1>4, <2>1 DEF IsEma
  <2> QED BY <2>1, <2>2, <2>3
<1>7. ASSUME NEW i \in p .. k, i # p /\ g[i - 1] = f[i - 1] PROVE g[i] = f[i]
  <2>1. f[i] = (2 * d[i] + (p - 1) * f[i - 1]) \div (p + 1)
    BY <1>2, <1>4, <1>7 DEF IsEma
  <2>2. g[i] = (2 * e[i] + (p - 1) * g[i - 1]) \div (p + 1)
    BY <1>3, <1>4, <1>7 DEF IsEma
  <2> QED BY <1>5, <1>7, <2>1, <2>2
<1>8. \A i \in p .. k : g[i] = f[i]
  <2>1. StepAlike(f, g, p, k)
    BY <1>6, <1>7 DEF StepAlike
  <2> QED BY <1>1, <2>1, StepsAlike
<1> QED
  BY <1>2, <1>3, <1>8 DEF Lines

\* A weighted average is an integer.
LEMMA WmaInt ==
  ASSUME NEW d \in Seq(Int), NEW p \in Nat \ {0}
  PROVE  Wma(d, p) \in [p .. Len(d) -> Int]
<1>1. PICK total \in Nat \ {0} : total = (p * (p + 1)) \div 2
  <2>1. PICK a \in Nat, c \in Int, two \in Nat \ {0} : a = p * (p + 1) /\ c = (p - 1) * p /\ two = 2
                                  /\ c >= 0 /\ a = c + 2 * p
    <3>1. p - 1 \in Nat /\ (p - 1) * p \in Nat /\ p * (p + 1) = (p - 1) * p + 2 * p
      OBVIOUS
    <3> QED BY <3>1
  <2>2. PICK q : q = a \div two
    OBVIOUS
  <2>3. q \in Int /\ a < (q + 1) * two
    BY <2>2, QuotientBounds
  <2>4. q >= 1
    BY <2>1, <2>3
  <2> QED BY <2>1, <2>2, <2>3, <2>4
<1>2. ASSUME NEW i \in p .. Len(d)
      PROVE  SumOver([j \in 1 .. p |-> d[i - p + j] * j], 1 .. p) \div total \in Int
  <2>1. PICK n \in Nat : n = Len(d) /\ \A j \in 1 .. n : d[j] \in Int
    OBVIOUS
  <2>2. PICK x : x = [j \in 1 .. p |-> d[i - p + j] * j]
    OBVIOUS
  <2>3. \A j \in 1 .. p : x[j] \in Int
    <3> SUFFICES ASSUME NEW j \in 1 .. p PROVE x[j] \in Int
      OBVIOUS
    <3>1. i - p + j \in 1 .. n
      BY <2>1
    <3>2. PICK v \in Int : v = d[i - p + j]
      BY <2>1, <3>1
    <3>3. v * j \in Int
      OBVIOUS
    <3> QED BY <2>2, <3>2, <3>3
  <2>4. SumOver(x, 1 .. p) \in Int
    <3>1. IsFiniteSet(1 .. p)
      BY FS_Interval
    <3> QED BY <2>3, <3>1, SumInt DEF SumOver
  <2> QED BY <2>2, <2>4, QuotientBounds
<1> QED
  BY <1>1, <1>2 DEF Wma

\* So the weighted averages of twins are the same.
LEMMA WmaLines ==
  ASSUME NEW d, NEW e, NEW k, Twins(d, e, k), NEW p \in Nat \ {0}
  PROVE  Lines(Wma(d, p), Wma(e, p), p, Len(d), Len(e), k)
<1>1. d \in Seq(Int) /\ e \in Seq(Int) /\ k <= Len(d) /\ k <= Len(e) /\ k \in Int
  BY DEF Twins
<1>2. ASSUME NEW i \in p .. k PROVE Wma(e, p)[i] = Wma(d, p)[i]
  <2>1. \A j \in 1 .. p : e[i - p + j] = d[i - p + j]
    <3> SUFFICES ASSUME NEW j \in 1 .. p PROVE e[i - p + j] = d[i - p + j]
      OBVIOUS
    <3>1. i - p + j \in 1 .. k
      BY <1>1
    <3> QED BY <3>1 DEF Twins
  <2>2. [j \in 1 .. p |-> e[i - p + j] * j] = [j \in 1 .. p |-> d[i - p + j] * j]
    BY <2>1
  <2>3. i \in p .. Len(d) /\ i \in p .. Len(e)
    BY <1>1
  <2> QED BY <2>2, <2>3 DEF Wma
<1> QED
  BY <1>1, <1>2, WmaInt DEF Lines

\* The numbers of a line that starts at lo, without its empty prefix.
IsPacked(s, f, lo, n) ==
  /\ s \in Seq(Int) /\ Len(s) = IF n < lo THEN 0 ELSE n - lo + 1
  /\ \A j \in 1 .. Len(s) : s[j] = f[lo + j - 1]

LEMMA PackedIs ==
  ASSUME NEW lo \in Nat \ {0}, NEW n \in Nat, NEW f \in [lo .. n -> Int], NEW s, s = Packed(f)
  PROVE  IsPacked(s, f, lo, n)
<1> SUFFICES /\ s \in Seq(Int) /\ Len(s) = IF n < lo THEN 0 ELSE n - lo + 1
             /\ \A j \in 1 .. Len(s) : s[j] = f[lo + j - 1]
  BY DEF IsPacked
<1>1. DOMAIN f = lo .. n
  OBVIOUS
<1>2. CASE n < lo
  <2>1. lo .. n = {}
    BY <1>2
  <2>2. Cardinality(DOMAIN f) = 0
    BY <1>1, <2>1, FS_EmptySet
  <2>3. s = << >>
    BY <2>2 DEF Packed
  <2> QED BY <1>2, <2>3
<1>3. CASE ~(n < lo)
  <2>1. PICK c \in Nat \ {0} : c = n - lo + 1
    BY <1>3
  <2>2. Cardinality(lo .. n) = c /\ IsFiniteSet(lo .. n)
    BY <1>3, <2>1, FS_Interval
  <2>3. Min(lo .. n) = lo
    <3>1. PICK a \in Int : a = Min(lo .. n) /\ a \in lo .. n /\ \A y \in lo .. n : a <= y
      <4>1. lo .. n \in SUBSET Int /\ lo .. n # {}
        BY <1>3
      <4> QED BY <2>2, <4>1, MinOfFinite
    <3>2. lo \in lo .. n
      BY <1>3
    <3> QED BY <3>1, <3>2
  <2>4. s = [j \in 1 .. c |-> f[lo + j - 1]]
    BY <1>1, <2>2, <2>3 DEF Packed
  <2>5. ASSUME NEW j \in 1 .. c PROVE f[lo + j - 1] \in Int
    <3>1. lo + j - 1 \in lo .. n
      BY <2>1
    <3> QED BY <3>1
  <2>6. s \in [1 .. c -> Int]
    BY <2>4, <2>5
  <2>7. s \in Seq(Int) /\ Len(s) = c
    BY <2>6
  <2> QED BY <1>3, <2>1, <2>4, <2>7
<1> QED
  BY <1>2, <1>3

LEMMA PackedLine ==
  ASSUME NEW lo \in Nat \ {0}, NEW n \in Nat, NEW f \in [lo .. n -> Int], NEW s, s = Packed(f)
  PROVE  /\ s \in Seq(Int) /\ Len(s) = IF n < lo THEN 0 ELSE n - lo + 1
         /\ \A j \in 1 .. Len(s) : s[j] = f[lo + j - 1]
<1>1. IsPacked(s, f, lo, n)
  BY PackedIs
<1> QED
  BY <1>1 DEF IsPacked

\* Of two lines, they are twins.
LEMMA PackedTwins ==
  ASSUME NEW lo \in Nat \ {0}, NEW n \in Nat, NEW m \in Nat, NEW k \in Int, k <= n, k <= m,
         NEW f, NEW g, Lines(f, g, lo, n, m, k), NEW h, h = k - lo + 1, lo <= n, lo <= m
  PROVE  Twins(Packed(f), Packed(g), h)
<1>1. f \in [lo .. n -> Int] /\ g \in [lo .. m -> Int] /\ \A i \in lo .. k : g[i] = f[i]
  BY DEF Lines
<1>2. PICK s : s = Packed(f) /\ s \in Seq(Int) /\ Len(s) = n - lo + 1
               /\ \A j \in 1 .. Len(s) : s[j] = f[lo + j - 1]
  <2>1. PICK s : s = Packed(f) /\ IsPacked(s, f, lo, n)
    BY <1>1, PackedIs
  <2> QED BY <2>1 DEF IsPacked
<1>3. PICK z : z = Packed(g) /\ z \in Seq(Int) /\ Len(z) = m - lo + 1
               /\ \A j \in 1 .. Len(z) : z[j] = g[lo + j - 1]
  <2>1. PICK z : z = Packed(g) /\ IsPacked(z, g, lo, m)
    BY <1>1, PackedIs
  <2> QED BY <2>1 DEF IsPacked
<1>4. h \in Int /\ h <= Len(s) /\ h <= Len(z)
  <2>1. PICK a \in Int, b \in Int : a = Len(s) /\ b = Len(z) /\ a = n - lo + 1 /\ b = m - lo + 1
    BY <1>2, <1>3
  <2> QED BY <2>1
<1>5. ASSUME NEW j \in 1 .. h PROVE z[j] = s[j]
  <2>1. j \in Int /\ 1 <= j /\ j <= h /\ h \in Int
    OBVIOUS
  <2>2. lo + j - 1 \in lo .. k
    BY <2>1
  <2>3. j \in 1 .. Len(s) /\ j \in 1 .. Len(z)
    BY <1>4, <2>1
  <2> QED BY <1>1, <1>2, <1>3, <2>2, <2>3
<1> QED
  BY <1>2, <1>3, <1>4, <1>5 DEF Twins

\* A line that is moved by a number of bars.
Shifted(a, f, lo, n, c) ==
  a \in [lo + c .. n + c -> Int] /\ \A i \in lo + c .. n + c : a[i] = f[i - c]

\* What a line that is shifted is.
LEMMA AlignedLine ==
  ASSUME NEW lo \in Int, NEW n \in Int, NEW f \in [lo .. n -> Int], NEW c \in Int,
         NEW a, a = Aligned(f, c)
  PROVE  Shifted(a, f, lo, n, c)
<1>1. {j + c : j \in DOMAIN f} = lo + c .. n + c
  <2>1. ASSUME NEW i \in lo + c .. n + c PROVE i \in {j + c : j \in lo .. n}
    <3>1. PICK j \in lo .. n : i = j + c
      <4>1. i - c \in lo .. n /\ i = (i - c) + c
        OBVIOUS
      <4> QED BY <4>1
    <3> QED BY <3>1
  <2>2. \A j \in lo .. n : j + c \in lo + c .. n + c
    OBVIOUS
  <2> QED BY <2>1, <2>2
<1>2. a = [i \in lo + c .. n + c |-> f[i - c]]
  BY <1>1 DEF Aligned
<1>3. \A i \in lo + c .. n + c : f[i - c] \in Int
  <2> SUFFICES ASSUME NEW i \in lo + c .. n + c PROVE f[i - c] \in Int
    OBVIOUS
  <2>1. i - c \in lo .. n
    OBVIOUS
  <2> QED BY <2>1
<1> QED
  BY <1>2, <1>3 DEF Shifted

\* Two lines that are moved alike.
LEMMA AlignedLines ==
  ASSUME NEW lo \in Int, NEW n \in Int, NEW m \in Int, NEW k \in Int, k <= n, k <= m,
         NEW f, NEW g, Lines(f, g, lo, n, m, k), NEW c \in Int
  PROVE  Lines(Aligned(f, c), Aligned(g, c), lo + c, n + c, m + c, k + c)
<1>1. f \in [lo .. n -> Int] /\ g \in [lo .. m -> Int] /\ \A i \in lo .. k : g[i] = f[i]
  BY DEF Lines
<1> DEFINE a == Aligned(f, c)  b == Aligned(g, c)
<1>2. Shifted(a, f, lo, n, c)
  <2>1. a = Aligned(f, c)
    OBVIOUS
  <2>2. f \in [lo .. n -> Int]
    BY <1>1
  <2> HIDE DEF a
  <2> QED BY <2>1, <2>2, AlignedLine
<1>3. Shifted(b, g, lo, m, c)
  <2>1. b = Aligned(g, c)
    OBVIOUS
  <2>2. g \in [lo .. m -> Int]
    BY <1>1
  <2> HIDE DEF b
  <2> QED BY <2>1, <2>2, AlignedLine
<1> HIDE DEF a, b
<1>4. ASSUME NEW i \in lo + c .. k + c PROVE b[i] = a[i]
  <2>1. i \in lo + c .. n + c /\ i \in lo + c .. m + c /\ i - c \in lo .. k
    OBVIOUS
  <2> QED BY <1>1, <1>2, <1>3, <2>1 DEF Shifted
<1> QED
  BY <1>2, <1>3, <1>4 DEF Lines, Shifted, a, b
-----------------------------------------------------------------------------
(* Averages of averages *)

\* Lines that start after k.
LEMMA SameLate ==
  ASSUME NEW k \in Int, NEW f, NEW g, \A i \in DOMAIN f : i > k, \A i \in DOMAIN g : i > k
  PROVE  Same(f, g, k)
<1> SUFFICES ASSUME NEW i \in 1 .. k PROVE i \notin DOMAIN f /\ i \notin DOMAIN g
  BY DEF Same
<1>1. ~(i > k)
  OBVIOUS
<1> QED
  BY <1>1

\* Where a line of the packed numbers of a line starts.
LEMMA RealignedStart ==
  ASSUME NEW lo \in Nat \ {0}, NEW n \in Nat, NEW f \in [lo .. n -> Int], NEW r \in Nat \ {0},
         NEW z \in [r .. Len(Packed(f)) -> Int], NEW c \in Int, lo <= n => c = lo - 1
  PROVE  \A i \in DOMAIN Aligned(z, c) : i \in Int /\ i >= r + lo - 1
<1>1. PICK q \in Nat : q = Len(Packed(f)) /\ q = IF n < lo THEN 0 ELSE n - lo + 1
  BY PackedLine
<1>2. Shifted(Aligned(z, c), z, r, q, c)
  BY <1>1, AlignedLine
<1>3. DOMAIN Aligned(z, c) = r + c .. q + c
  BY <1>2 DEF Shifted
<1>4. ASSUME NEW i \in r + c .. q + c PROVE i \in Int /\ i >= r + lo - 1
  <2>1. r <= q
    OBVIOUS
  <2>2. lo <= n
    BY <1>1, <2>1
  <2> QED BY <2>2
<1>5. \A i \in r + c .. q + c : i \in Int /\ i >= r + lo - 1
  BY <1>4
<1> QED
  BY <1>3, <1>5, Zenon

\* Two lines of packed twins, back in their places.
LEMMA RealignedSame ==
  ASSUME NEW lo \in Nat \ {0}, NEW n \in Nat, NEW m \in Nat, NEW k \in Int, k <= n, k <= m,
         NEW f, NEW g, Lines(f, g, lo, n, m, k), NEW r \in Nat \ {0},
         NEW z \in [r .. Len(Packed(f)) -> Int], NEW y \in [r .. Len(Packed(g)) -> Int],
         NEW h, h = k - lo + 1,
         lo <= n /\ lo <= m => Lines(z, y, r, Len(Packed(f)), Len(Packed(g)), h),
         NEW c \in Int, lo <= n => c = lo - 1, NEW b \in Int, lo <= m => b = lo - 1
  PROVE  Same(Aligned(z, c), Aligned(y, b), k)
<1>1. f \in [lo .. n -> Int] /\ g \in [lo .. m -> Int]
  BY DEF Lines
<1>2. CASE lo <= k
  <2>1. lo <= n /\ lo <= m /\ c = lo - 1 /\ b = c
    BY <1>2
  <2>2. PICK q \in Nat, o \in Nat : q = Len(Packed(f)) /\ o = Len(Packed(g))
                                    /\ q = n - lo + 1 /\ o = m - lo + 1
    <3>1. Len(Packed(f)) = n - lo + 1
      BY <1>1, <2>1, PackedLine
    <3>2. Len(Packed(g)) = m - lo + 1
      BY <1>1, <2>1, PackedLine
    <3>3. n - lo + 1 \in Nat /\ m - lo + 1 \in Nat
      BY <2>1
    <3> QED BY <3>1, <3>2, <3>3
  <2>3. Lines(z, y, r, q, o, h) /\ h \in Int /\ h <= q /\ h <= o
    BY <2>1, <2>2
  <2>4. Lines(Aligned(z, c), Aligned(y, c), r + c, q + c, o + c, h + c)
    BY ONLY <2>3, r \in Int, q \in Int, o \in Int, c \in Int, AlignedLines
  <2>5. q + c = n /\ o + c = m /\ h + c = k /\ r + c \in Int
    BY <2>1, <2>2
  <2>6. Same(Aligned(z, c), Aligned(y, c), k)
    <3>1. Lines(Aligned(z, c), Aligned(y, c), r + c, n, m, k)
      BY <2>4, <2>5
    <3>2. r + c \in Int /\ n \in Int /\ m \in Int /\ k \in Int /\ k <= n /\ k <= m
      BY <2>5
    <3> QED BY ONLY <3>1, <3>2, SameLine
  <2> QED BY <2>1, <2>6
<1>3. CASE ~(lo <= k)
  <2>1. \A i \in DOMAIN Aligned(z, c) : i \in Int /\ i >= r + lo - 1
    BY <1>1, RealignedStart
  <2>2. \A i \in DOMAIN Aligned(y, b) : i \in Int /\ i >= r + lo - 1
    BY <1>1, RealignedStart
  <2>3. \A i \in Int : i >= r + lo - 1 => i > k
    BY <1>3
  <2>4. \A i \in DOMAIN Aligned(z, c) : i > k
    BY <2>1, <2>3
  <2>5. \A i \in DOMAIN Aligned(y, b) : i > k
    BY <2>2, <2>3
  <2> QED BY <2>4, <2>5, SameLate
<1> QED
  BY <1>2, <1>3

\* Back in its place, an average of packed numbers starts r - 1 bars after them.
LEMMA EmaOfPackedStart ==
  ASSUME NEW lo \in Nat \ {0}, NEW n \in Nat, NEW f \in [lo .. n -> Int], NEW r \in Nat \ {0},
         NEW c \in Int, lo <= n => c = lo - 1
  PROVE  \A i \in DOMAIN Aligned(Ema(Packed(f), r), c) : i \in Int /\ i >= r + lo - 1
<1>1. PICK s \in Seq(Int) : s = Packed(f)
  BY PackedLine
<1>2. PICK z : z = Ema(s, r) /\ z \in [r .. Len(s) -> Int]
  BY EmaSteps
<1>3. \A i \in DOMAIN Aligned(z, c) : i \in Int /\ i >= r + lo - 1
  BY <1>1, <1>2, RealignedStart
<1> QED
  BY <1>1, <1>2, <1>3

\* The exponential average of the packed numbers of a line.
LEMMA EmaOfPacked ==
  ASSUME NEW lo \in Nat \ {0}, NEW n \in Nat, NEW m \in Nat, NEW k \in Int, k <= n, k <= m,
         NEW f, NEW g, Lines(f, g, lo, n, m, k), NEW r \in Nat \ {0},
         NEW c \in Int, lo <= n => c = lo - 1, NEW b \in Int, lo <= m => b = lo - 1
  PROVE  Same(Aligned(Ema(Packed(f), r), c), Aligned(Ema(Packed(g), r), b), k)
<1>1. f \in [lo .. n -> Int] /\ g \in [lo .. m -> Int]
  BY DEF Lines
<1>2. PICK s \in Seq(Int) : s = Packed(f)
  BY <1>1, PackedLine
<1>3. PICK u \in Seq(Int) : u = Packed(g)
  BY <1>1, PackedLine
<1>4. PICK z : z = Ema(s, r) /\ z \in [r .. Len(s) -> Int]
  BY <1>2, EmaSteps
<1>5. PICK y : y = Ema(u, r) /\ y \in [r .. Len(u) -> Int]
  BY <1>3, EmaSteps
<1>6. PICK h : h = k - lo + 1
  OBVIOUS
<1>7. ASSUME lo <= n, lo <= m PROVE Lines(z, y, r, Len(s), Len(u), h)
  <2>1. Twins(s, u, h)
    BY <1>2, <1>3, <1>6, <1>7, PackedTwins
  <2> QED BY <1>4, <1>5, <2>1, EmaLines
<1>8. Same(Aligned(z, c), Aligned(y, b), k)
  <2>1. /\ z \in [r .. Len(Packed(f)) -> Int] /\ y \in [r .. Len(Packed(g)) -> Int]
        /\ lo <= n /\ lo <= m => Lines(z, y, r, Len(Packed(f)), Len(Packed(g)), h)
    BY <1>2, <1>3, <1>4, <1>5, <1>7
  <2>2. h = k - lo + 1 /\ h \in Int
    BY <1>6
  <2> QED BY <2>1, <2>2, RealignedSame
<1> QED
  BY <1>2, <1>3, <1>4, <1>5, <1>8

\* The double exponential average (dema.js).
LEMMA DemaSame ==
  ASSUME NEW d, NEW e, NEW k, Twins(d, e, k), NEW p \in Nat \ {0}
  PROVE  Same(Dema(d, p), Dema(e, p), k)
<1>1. d \in Seq(Int) /\ e \in Seq(Int) /\ k <= Len(d) /\ k <= Len(e) /\ k \in Int
  BY DEF Twins
<1>2. PICK n \in Nat, m \in Nat : n = Len(d) /\ m = Len(e)
  BY <1>1
<1>3. PICK f, g : f = Ema(d, p) /\ g = Ema(e, p) /\ Lines(f, g, p, n, m, k)
  BY <1>2, EmaLines
<1>4. PICK c \in Int : c = p - 1
  OBVIOUS
<1>5. PICK a : a = Aligned(Ema(Packed(f), p), c)
  OBVIOUS
<1>6. PICK b : b = Aligned(Ema(Packed(g), p), c)
  OBVIOUS
<1>7. Same(a, b, k) /\ \A i \in DOMAIN a : i \in Int /\ i >= p + p - 1
  <2>1. Same(a, b, k)
    BY <1>1, <1>2, <1>3, <1>4, <1>5, <1>6, EmaOfPacked
  <2>2. f \in [p .. n -> Int]
    BY <1>3 DEF Lines
  <2>3. \A i \in DOMAIN a : i \in Int /\ i >= p + p - 1
    BY <1>4, <1>5, <2>2, EmaOfPackedStart
  <2> QED BY <2>1, <2>3
<1>8. Dema(d, p) = [i \in DOMAIN a |-> 2 * f[i] - a[i]]
  BY <1>3, <1>4, <1>5 DEF Dema
<1>9. Dema(e, p) = [i \in DOMAIN b |-> 2 * g[i] - b[i]]
  BY <1>3, <1>4, <1>6 DEF Dema
<1> SUFFICES ASSUME NEW i \in 1 .. k
             PROVE  /\ i \in DOMAIN Dema(d, p) <=> i \in DOMAIN Dema(e, p)
                    /\ i \in DOMAIN Dema(d, p) => Dema(d, p)[i] = Dema(e, p)[i]
  BY DEF Same
<1>10. (i \in DOMAIN a <=> i \in DOMAIN b) /\ (i \in DOMAIN a => a[i] = b[i])
  BY <1>7 DEF Same
<1>11. i \in DOMAIN a => g[i] = f[i]
  <2> SUFFICES ASSUME i \in DOMAIN a PROVE g[i] = f[i]
    OBVIOUS
  <2>1. i \in p .. k
    BY <1>1, <1>7
  <2> QED BY <1>3, <2>1 DEF Lines
<1> QED
  BY <1>8, <1>9, <1>10, <1>11

\* The triple one (tema.js).
LEMMA TemaSame ==
  ASSUME NEW d, NEW e, NEW k, Twins(d, e, k), NEW p \in Nat \ {0}
  PROVE  Same(Tema(d, p), Tema(e, p), k)
<1> DEFINE Triple(f, u, v, first) ==
             [i \in {j + first : j \in DOMAIN v \cap DOMAIN u} |->
                3 * f[i] - 3 * u[i - first] + v[i - first]]
<1>1. d \in Seq(Int) /\ e \in Seq(Int) /\ k <= Len(d) /\ k <= Len(e) /\ k \in Int
  BY DEF Twins
<1>2. PICK n \in Nat, m \in Nat : n = Len(d) /\ m = Len(e) /\ k <= n /\ k <= m
  BY <1>1
<1>3. PICK f, g : f = Ema(d, p) /\ g = Ema(e, p) /\ Lines(f, g, p, n, m, k)
  BY <1>2, EmaLines
<1>4. PICK first \in Int : first = 2 * p - 2
  OBVIOUS
<1>5. f \in [p .. n -> Int] /\ g \in [p .. m -> Int]
  BY <1>3 DEF Lines
<1>6. PICK s, u : s \in Seq(Int) /\ s = Packed(f) /\ u = Ema(s, p) /\ u \in [p .. Len(s) -> Int]
  <2>1. Packed(f) \in Seq(Int)
    BY <1>5, PackedLine
  <2> QED BY <2>1, EmaSteps
<1>7. PICK z, y : z \in Seq(Int) /\ z = Packed(g) /\ y = Ema(z, p) /\ y \in [p .. Len(z) -> Int]
  <2>1. Packed(g) \in Seq(Int)
    BY <1>5, PackedLine
  <2> QED BY <2>1, EmaSteps
<1>8. PICK s2, v : s2 \in Seq(Int) /\ s2 = Packed(u) /\ v = Ema(s2, p) /\ v \in [p .. Len(s2) -> Int]
  <2>1. Packed(u) \in Seq(Int)
    <3>1. PICK q \in Nat : q = Len(s)
      BY <1>6
    <3> QED BY <1>6, <3>1, PackedLine
  <2> QED BY <2>1, EmaSteps
<1>9. PICK z2, x : z2 \in Seq(Int) /\ z2 = Packed(y) /\ x = Ema(z2, p) /\ x \in [p .. Len(z2) -> Int]
  <2>1. Packed(y) \in Seq(Int)
    <3>1. PICK q \in Nat : q = Len(z)
      BY <1>7
    <3> QED BY <1>7, <3>1, PackedLine
  <2> QED BY <2>1, EmaSteps
<1>10. Tema(d, p) = Triple(f, u, v, first) /\ Tema(e, p) = Triple(g, y, x, first)
  BY <1>3, <1>4, <1>6, <1>7, <1>8, <1>9 DEF Tema
<1>20. ASSUME NEW o1 \in Int, NEW o2 \in Int, NEW j \in Int, NEW i, i = j + first
       PROVE  i \in {l + first : l \in (p .. o2) \cap (p .. o1)} <=> j \in p .. o2 /\ j \in p .. o1
  <2>1. \A l \in (p .. o2) \cap (p .. o1) : l + first = i => l = j
    BY <1>20
  <2> QED BY <1>20, <2>1
<1>11. CASE k < 3 * p - 2
  <2>1. ASSUME NEW i, i \in DOMAIN Triple(f, u, v, first) PROVE i > k
    <3>1. PICK j \in DOMAIN v : i = j + first
      BY <2>1
    <3>2. j \in Int /\ j >= p
      BY <1>8, <3>1
    <3> QED BY <1>1, <1>4, <1>11, <3>1, <3>2
  <2>2. ASSUME NEW i, i \in DOMAIN Triple(g, y, x, first) PROVE i > k
    <3>1. PICK j \in DOMAIN x : i = j + first
      BY <2>2
    <3>2. j \in Int /\ j >= p
      BY <1>9, <3>1
    <3> QED BY <1>1, <1>4, <1>11, <3>1, <3>2
  <2> HIDE DEF Triple
  <2> QED BY <1>1, <1>10, <2>1, <2>2, SameLate
<1>12. CASE ~(k < 3 * p - 2)
  <2>1. PICK h \in Int, h2 \in Int : h = k - p + 1 /\ h2 = h - p + 1
    BY <1>1
  <2>2. p <= k /\ p <= n /\ p <= m /\ p <= h /\ p <= h2
    BY <1>1, <1>2, <1>12, <2>1
  <2>3. Twins(s, z, h)
    BY <1>1, <1>2, <1>3, <1>6, <1>7, <2>1, <2>2, PackedTwins
  <2>4. PICK q \in Nat, o \in Nat : q = Len(s) /\ o = Len(z) /\ h <= q /\ h <= o
    <3>1. Len(s) \in Nat /\ Len(z) \in Nat
      OBVIOUS
    <3> QED BY <2>3, <3>1 DEF Twins
  <2>5. Lines(u, y, p, q, o, h)
    BY <1>6, <1>7, <2>3, <2>4, EmaLines
  <2>6. Twins(s2, z2, h2)
    <3>1. p <= q /\ p <= o
      <4>1. p \in Int /\ p <= h /\ h <= q /\ h <= o
        BY <2>2, <2>4
      <4> QED BY ONLY <4>1, h \in Int, q \in Nat, o \in Nat
    <3> QED BY <1>8, <1>9, <2>1, <2>4, <2>5, <3>1, PackedTwins
  <2>7. PICK q2 \in Nat, o2 \in Nat : q2 = Len(s2) /\ o2 = Len(z2) /\ h2 <= q2 /\ h2 <= o2
    BY <2>6 DEF Twins
  <2>8. Lines(v, x, p, q2, o2, h2)
    BY <1>8, <1>9, <2>6, <2>7, EmaLines
  <2> SUFFICES ASSUME NEW i \in 1 .. k
               PROVE  /\ i \in DOMAIN Triple(f, u, v, first) <=> i \in DOMAIN Triple(g, y, x, first)
                      /\ i \in DOMAIN Triple(f, u, v, first)
                         => Triple(f, u, v, first)[i] = Triple(g, y, x, first)[i]
    <3> HIDE DEF Triple
    <3> QED BY <1>10 DEF Same
  <2>9. PICK j \in Int : j = i - first /\ i = j + first /\ j <= h2 /\ j <= h
    BY <1>1, <1>4, <2>1
  <2>10. DOMAIN u = p .. q /\ DOMAIN v = p .. q2 /\ DOMAIN y = p .. o /\ DOMAIN x = p .. o2
    BY <2>5, <2>8 DEF Lines
  <2>11. i \in DOMAIN Triple(f, u, v, first) <=> j \in p .. q2 /\ j \in p .. q
    <3>1. DOMAIN Triple(f, u, v, first) = {l + first : l \in (p .. q2) \cap (p .. q)}
      BY <2>10
    <3>2. i = j + first
      BY <2>9
    <3> HIDE DEF Triple
    <3> QED BY <1>20, <3>1, <3>2
  <2>12. i \in DOMAIN Triple(g, y, x, first) <=> j \in p .. o2 /\ j \in p .. o
    <3>1. DOMAIN Triple(g, y, x, first) = {l + first : l \in (p .. o2) \cap (p .. o)}
      BY <2>10
    <3>2. i = j + first
      BY <2>9
    <3> HIDE DEF Triple
    <3> QED BY <1>20, <3>1, <3>2
  <2>13. (j \in p .. q2 /\ j \in p .. q <=> p <= j) /\ (j \in p .. o2 /\ j \in p .. o <=> p <= j)
    BY <2>4, <2>7, <2>9
  <2>14. ASSUME p <= j PROVE Triple(f, u, v, first)[i] = Triple(g, y, x, first)[i]
    <3>1. j \in p .. h /\ j \in p .. h2 /\ i \in p .. k
      BY <1>1, <1>4, <2>9, <2>14
    <3>2. g[i] = f[i] /\ y[j] = u[j] /\ x[j] = v[j]
      BY <1>3, <2>5, <2>8, <3>1 DEF Lines
    <3>3. i \in DOMAIN Triple(f, u, v, first) /\ i \in DOMAIN Triple(g, y, x, first)
      <4> HIDE DEF Triple
      <4> QED BY <2>11, <2>12, <2>13, <2>14
    <3>4. Triple(f, u, v, first)[i] = 3 * f[i] - 3 * u[j] + v[j]
      BY <2>9, <3>3
    <3>5. Triple(g, y, x, first)[i] = 3 * g[i] - 3 * y[j] + x[j]
      BY <2>9, <3>3
    <3> QED BY <3>2, <3>4, <3>5
  <2> HIDE DEF Triple
  <2> QED BY <2>11, <2>12, <2>13, <2>14
<1> QED
  BY <1>11, <1>12

\* The rounded root of a number is positive.
LEMMA RoundedPositive == \A p \in Nat \ {0} : Rounded(p) \in Nat \ {0}
<1> DEFINE T == {x \in Nat : \E r \in 0 .. x + 1 : r * r - r < x + 1 /\ x + 1 <= r * r + r}
<1>1. 0 \in T
  <2>1. PICK r \in 0 .. 0 + 1 : r = 1
    OBVIOUS
  <2>2. r * r - r < 0 + 1 /\ 0 + 1 <= r * r + r
    BY <2>1
  <2> QED BY <2>2
<1>2. ASSUME NEW x \in T PROVE x + 1 \in T
  <2>1. PICK r \in 0 .. x + 1 : r * r - r < x + 1 /\ x + 1 <= r * r + r
    BY <1>2
  <2>2. PICK v \in Int : v = r * r
    OBVIOUS
  <2>3. CASE (x + 1) + 1 <= v + r
    <3>1. r \in 0 .. (x + 1) + 1 /\ r * r - r < (x + 1) + 1 /\ (x + 1) + 1 <= r * r + r
      BY <2>1, <2>2, <2>3
    <3> QED BY <3>1
  <2>4. CASE ~((x + 1) + 1 <= v + r)
    <3>1. PICK z \in 0 .. (x + 1) + 1 : z = r + 1
      BY <2>1
    <3>2. z * z = v + 2 * r + 1
      BY <2>2, <3>1
    <3>3. z * z - z < (x + 1) + 1 /\ (x + 1) + 1 <= z * z + z
      BY <2>1, <2>2, <2>4, <3>1, <3>2
    <3> QED BY <3>3
  <2> QED BY <2>3, <2>4
<1> HIDE DEF T
<1>3. T = Nat
  BY <1>1, <1>2, NatSetInduction DEF T
<1> SUFFICES ASSUME NEW p \in Nat \ {0} PROVE Rounded(p) \in Nat \ {0}
  OBVIOUS
<1>4. PICK x \in Nat : x + 1 = p
  <2>1. p - 1 \in Nat /\ (p - 1) + 1 = p
    OBVIOUS
  <2> QED BY <2>1
<1>5. \E r \in 0 .. p : r * r - r < p /\ p <= r * r + r
  BY <1>3, <1>4 DEF T
<1>6. PICK r \in 0 .. p : r = Rounded(p) /\ p <= r * r + r
  BY <1>5 DEF Rounded
<1>7. r # 0
  BY <1>6
<1> QED
  BY <1>6, <1>7

\* The weighted average of the packed numbers of a line.
LEMMA WmaOfPacked ==
  ASSUME NEW lo \in Nat \ {0}, NEW n \in Nat, NEW m \in Nat, NEW k \in Int, k <= n, k <= m,
         NEW f, NEW g, Lines(f, g, lo, n, m, k), NEW r \in Nat \ {0},
         NEW c \in Int, lo <= n => c = lo - 1, NEW b \in Int, lo <= m => b = lo - 1
  PROVE  Same(Aligned(Wma(Packed(f), r), c), Aligned(Wma(Packed(g), r), b), k)
<1>1. f \in [lo .. n -> Int] /\ g \in [lo .. m -> Int]
  BY DEF Lines
<1>2. PICK s \in Seq(Int) : s = Packed(f)
  BY <1>1, PackedLine
<1>3. PICK u \in Seq(Int) : u = Packed(g)
  BY <1>1, PackedLine
<1>4. PICK z : z = Wma(s, r) /\ z \in [r .. Len(s) -> Int]
  BY <1>2, WmaInt
<1>5. PICK y : y = Wma(u, r) /\ y \in [r .. Len(u) -> Int]
  BY <1>3, WmaInt
<1>6. PICK h : h = k - lo + 1
  OBVIOUS
<1>7. ASSUME lo <= n, lo <= m PROVE Lines(z, y, r, Len(s), Len(u), h)
  <2>1. Twins(s, u, h)
    BY <1>2, <1>3, <1>6, <1>7, PackedTwins
  <2> QED BY <1>4, <1>5, <2>1, WmaLines
<1>8. Same(Aligned(z, c), Aligned(y, b), k)
  <2>1. /\ z \in [r .. Len(Packed(f)) -> Int] /\ y \in [r .. Len(Packed(g)) -> Int]
        /\ lo <= n /\ lo <= m => Lines(z, y, r, Len(Packed(f)), Len(Packed(g)), h)
    BY <1>2, <1>3, <1>4, <1>5, <1>7
  <2>2. h = k - lo + 1 /\ h \in Int
    BY <1>6
  <2> QED BY <2>1, <2>2, RealignedSame
<1> QED
  BY <1>2, <1>3, <1>4, <1>5, <1>8

\* How far the packed numbers of a line are moved: as far as the line starts.
LEMMA MovedBack ==
  ASSUME NEW lo \in Nat \ {0}, NEW n \in Nat, NEW f \in [lo .. n -> Int],
         NEW c, c = n - Len(Packed(f))
  PROVE  c \in Int /\ (lo <= n => c = lo - 1)
<1>1. PICK q \in Nat : q = Len(Packed(f)) /\ q = IF n < lo THEN 0 ELSE n - lo + 1
  BY PackedLine
<1> QED
  BY <1>1

\* Hull's average (hma.js).
LEMMA HmaSame ==
  ASSUME NEW d, NEW e, NEW k, Twins(d, e, k), NEW p \in Nat, p >= 2
  PROVE  Same(Hma(d, p), Hma(e, p), k)
<1>1. d \in Seq(Int) /\ e \in Seq(Int) /\ k <= Len(d) /\ k <= Len(e) /\ k \in Int
  BY DEF Twins
<1>2. PICK n \in Nat, m \in Nat : n = Len(d) /\ m = Len(e) /\ k <= n /\ k <= m
  BY <1>1
<1>3. PICK h \in Nat \ {0} : h = p \div 2 /\ h <= p
  OBVIOUS
<1>4. p \in Nat \ {0}
  OBVIOUS
<1>5. PICK f, g : f = Wma(d, p) /\ g = Wma(e, p) /\ Lines(f, g, p, n, m, k)
  BY <1>2, <1>4, WmaLines
<1>6. PICK u, v : u = Wma(d, h) /\ v = Wma(e, h) /\ Lines(u, v, h, n, m, k)
  BY <1>2, WmaLines
<1>7. PICK x : x = [i \in DOMAIN f \cap DOMAIN u |-> 2 * u[i] - f[i]]
  OBVIOUS
<1>8. PICK y : y = [i \in DOMAIN g \cap DOMAIN v |-> 2 * v[i] - g[i]]
  OBVIOUS
<1>9. Lines(x, y, p, n, m, k)
  <2>1. DOMAIN f \cap DOMAIN u = p .. n /\ DOMAIN g \cap DOMAIN v = p .. m
    BY <1>3, <1>5, <1>6 DEF Lines
  <2>2. \A i \in p .. n : f[i] \in Int /\ u[i] \in Int
    BY <1>3, <1>5, <1>6 DEF Lines
  <2>3. \A i \in p .. m : g[i] \in Int /\ v[i] \in Int
    BY <1>3, <1>5, <1>6 DEF Lines
  <2>4. x \in [p .. n -> Int] /\ y \in [p .. m -> Int]
    BY <1>7, <1>8, <2>1, <2>2, <2>3
  <2>5. ASSUME NEW i \in p .. k PROVE y[i] = x[i]
    <3>1. i \in h .. k /\ i \in p .. n /\ i \in p .. m
      BY <1>1, <1>2, <1>3
    <3>2. g[i] = f[i] /\ v[i] = u[i]
      BY <1>5, <1>6, <3>1 DEF Lines
    <3> QED BY <1>7, <1>8, <2>1, <3>1, <3>2
  <2> QED BY <2>4, <2>5 DEF Lines
<1>10. x \in [p .. n -> Int] /\ y \in [p .. m -> Int]
  BY <1>9 DEF Lines
<1>11. PICK r \in Nat \ {0} : r = Rounded(p)
  BY <1>4, RoundedPositive
<1>12. PICK c \in Int : c = n - Len(Packed(x)) /\ (p <= n => c = p - 1)
  BY <1>4, <1>10, MovedBack
<1>13. PICK b \in Int : b = m - Len(Packed(y)) /\ (p <= m => b = p - 1)
  BY <1>4, <1>10, MovedBack
<1>14. Hma(d, p) = Aligned(Wma(Packed(x), r), c)
  BY <1>2, <1>3, <1>5, <1>6, <1>7, <1>11, <1>12 DEF Hma
<1>15. Hma(e, p) = Aligned(Wma(Packed(y), r), b)
  BY <1>2, <1>3, <1>5, <1>6, <1>8, <1>11, <1>13 DEF Hma
<1>16. Same(Aligned(Wma(Packed(x), r), c), Aligned(Wma(Packed(y), r), b), k)
  <2>1. /\ n \in Nat /\ m \in Nat /\ k \in Int /\ k <= n /\ k <= m
        /\ p <= n => c = p - 1
        /\ p <= m => b = p - 1
    BY <1>1, <1>2, <1>12, <1>13
  <2> QED BY <1>4, <1>9, <2>1, WmaOfPacked
<1> QED
  BY <1>14, <1>15, <1>16
-----------------------------------------------------------------------------
(* Bands and channels of the same prices *)

\* All the lines of an indicator.
SameLines(L, M, k) == DOMAIN L = DOMAIN M /\ \A line \in DOMAIN L : Same(L[line], M[line], k)

\* The difference of two lines.
LEMMA MinusLines ==
  ASSUME NEW lo \in Int, NEW hi \in Int, lo <= hi, NEW n \in Int, NEW m \in Int,
         NEW k \in Int, k <= n, k <= m,
         NEW f, NEW g, Lines(f, g, lo, n, m, k), NEW u, NEW v, Lines(u, v, hi, n, m, k)
  PROVE  Lines(Minus(f, u), Minus(g, v), hi, n, m, k)
<1>1. /\ f \in [lo .. n -> Int] /\ u \in [hi .. n -> Int]
      /\ g \in [lo .. m -> Int] /\ v \in [hi .. m -> Int]
  BY DEF Lines
<1>2. Minus(f, u) = [i \in hi .. n |-> f[i] - u[i]]
  <2>1. DOMAIN f \cap DOMAIN u = hi .. n
    BY <1>1
  <2> QED BY <2>1 DEF Minus
<1>3. Minus(g, v) = [i \in hi .. m |-> g[i] - v[i]]
  <2>1. DOMAIN g \cap DOMAIN v = hi .. m
    BY <1>1
  <2> QED BY <2>1 DEF Minus
<1>4. \A i \in hi .. n : f[i] - u[i] \in Int
  <2>1. \A i \in hi .. n : f[i] \in Int /\ u[i] \in Int
    BY <1>1
  <2> QED BY <2>1
<1>5. \A i \in hi .. m : g[i] - v[i] \in Int
  <2>1. \A i \in hi .. m : g[i] \in Int /\ v[i] \in Int
    BY <1>1
  <2> QED BY <2>1
<1>6. ASSUME NEW i \in hi .. k PROVE Minus(g, v)[i] = Minus(f, u)[i]
  <2>1. i \in hi .. n /\ i \in hi .. m /\ i \in lo .. k
    OBVIOUS
  <2>2. g[i] = f[i] /\ v[i] = u[i]
    BY <2>1 DEF Lines
  <2> QED BY <1>2, <1>3, <2>1, <2>2
<1> QED
  BY <1>2, <1>3, <1>4, <1>5, <1>6 DEF Lines

\* The MACD and its signal (macd.js).
LEMMA MacdSame ==
  ASSUME NEW d, NEW e, NEW k, Twins(d, e, k), NEW a \in Nat \ {0}, NEW b \in Nat \ {0}, a <= b,
         NEW r \in Nat \ {0}
  PROVE  SameLines(Restrict(Macd(d, a, b, r), {"macd", "signal"}),
                   Restrict(Macd(e, a, b, r), {"macd", "signal"}), k)
<1>1. d \in Seq(Int) /\ e \in Seq(Int) /\ k <= Len(d) /\ k <= Len(e) /\ k \in Int
  BY DEF Twins
<1>2. PICK n \in Nat, m \in Nat : n = Len(d) /\ m = Len(e) /\ k <= n /\ k <= m
  BY <1>1
<1>3. PICK f, g : f = Minus(Ema(d, a), Ema(d, b)) /\ g = Minus(Ema(e, a), Ema(e, b))
                  /\ Lines(f, g, b, n, m, k)
  <2>1. Lines(Ema(d, a), Ema(e, a), a, n, m, k)
    BY <1>2, EmaLines
  <2>2. Lines(Ema(d, b), Ema(e, b), b, n, m, k)
    BY <1>2, EmaLines
  <2>3. Lines(Minus(Ema(d, a), Ema(d, b)), Minus(Ema(e, a), Ema(e, b)), b, n, m, k)
    <3>1. a \in Int /\ b \in Int /\ n \in Int /\ m \in Int /\ k \in Int
      BY <1>1
    <3> QED BY <1>2, <2>1, <2>2, <3>1, MinusLines
  <2> QED BY <2>3
<1>4. f \in [b .. n -> Int] /\ g \in [b .. m -> Int]
  BY <1>3 DEF Lines
<1>5. PICK c \in Int : c = n - Len(Packed(f)) /\ (b <= n => c = b - 1)
  BY <1>4, MovedBack
<1>6. PICK h \in Int : h = m - Len(Packed(g)) /\ (b <= m => h = b - 1)
  BY <1>4, MovedBack
<1>7. PICK x, y : x = Aligned(Ema(Packed(f), r), c) /\ y = Aligned(Ema(Packed(g), r), h)
  OBVIOUS
<1>8. Same(x, y, k) /\ Same(f, g, k)
  <2>1. Same(Aligned(Ema(Packed(f), r), c), Aligned(Ema(Packed(g), r), h), k)
    <3>1. Lines(f, g, b, n, m, k) /\ k \in Int /\ k <= n /\ k <= m
      BY <1>1, <1>2, <1>3
    <3>2. (b <= n => c = b - 1) /\ (b <= m => h = b - 1)
      BY <1>5, <1>6
    <3> QED BY <3>1, <3>2, EmaOfPacked
  <2>2. Same(f, g, k)
    BY <1>1, <1>2, <1>3, SameLine
  <2> QED BY <1>7, <2>1, <2>2
<1>9. Restrict(Macd(d, a, b, r), {"macd", "signal"})
        = [line \in {"macd", "signal"} |-> IF line = "macd" THEN f ELSE x]
  <2>1. Macd(d, a, b, r) = [macd |-> f, signal |-> x, histogram |-> Minus(f, x)]
    BY <1>2, <1>3, <1>5, <1>7 DEF Macd
  <2> QED BY <2>1 DEF Restrict
<1>10. Restrict(Macd(e, a, b, r), {"macd", "signal"})
        = [line \in {"macd", "signal"} |-> IF line = "macd" THEN g ELSE y]
  <2>1. Macd(e, a, b, r) = [macd |-> g, signal |-> y, histogram |-> Minus(g, y)]
    BY <1>2, <1>3, <1>6, <1>7 DEF Macd
  <2> QED BY <2>1 DEF Restrict
<1> QED
  BY <1>8, <1>9, <1>10 DEF SameLines

\* Bands around a line.
LEMMA AroundSame ==
  ASSUME NEW lo \in Int, NEW n \in Int, NEW m \in Int, NEW k \in Int, k <= n, k <= m,
         NEW f, NEW g, Lines(f, g, lo, n, m, k), NEW u, NEW v, Lines(u, v, lo, n, m, k)
  PROVE  SameLines(Around(f, u), Around(g, v), k)
<1>1. /\ DOMAIN f = lo .. n /\ DOMAIN u = lo .. n
      /\ DOMAIN g = lo .. m /\ DOMAIN v = lo .. m
  BY DEF Lines
<1>2. PICK up, down : /\ up = [i \in lo .. n |-> f[i] + u[i]]
                      /\ down = [i \in lo .. n |-> f[i] - u[i]]
  OBVIOUS
<1>3. PICK high, low : /\ high = [i \in lo .. m |-> g[i] + v[i]]
                       /\ low = [i \in lo .. m |-> g[i] - v[i]]
  OBVIOUS
<1>4. Around(f, u) = [upper |-> up, middle |-> f, lower |-> down]
  BY <1>1, <1>2 DEF Around
<1>5. Around(g, v) = [upper |-> high, middle |-> g, lower |-> low]
  BY <1>1, <1>3 DEF Around
<1>6. ASSUME NEW i \in lo .. k PROVE high[i] = up[i] /\ low[i] = down[i]
  <2>1. i \in lo .. n /\ i \in lo .. m
    OBVIOUS
  <2>2. g[i] = f[i] /\ v[i] = u[i]
    BY DEF Lines
  <2> QED BY <1>2, <1>3, <2>1, <2>2
<1>7. Same(up, high, k)
  BY <1>2, <1>3, <1>6, SameOnInterval
<1>8. Same(down, low, k)
  BY <1>2, <1>3, <1>6, SameOnInterval
<1>9. Same(f, g, k)
  BY SameLine
<1> QED
  BY <1>4, <1>5, <1>7, <1>8, <1>9 DEF SameLines

\* The standard deviation (stdDev.js).
LEMMA StdDevInt ==
  ASSUME NEW d \in Seq(Int), NEW p \in Nat \ {0}, NEW i \in p .. Len(d)
  PROVE  Deviation(d, Window(i, p)) \in Nat
<1>1. PICK W : W = Window(i, p) /\ IsFiniteSet(W) /\ W # {} /\ \A j \in W : d[j] \in Int
  BY WindowInts
<1>2. PICK mean \in Int : mean = Average(d, W)
  BY <1>1, AverageInt
<1>3. PICK squares : squares = [j \in W |-> (d[j] - mean) * (d[j] - mean)]
  OBVIOUS
<1>4. AllNat(squares, W)
  <2> SUFFICES ASSUME NEW j \in W PROVE squares[j] \in Nat
    BY DEF AllNat
  <2>1. PICK x \in Int : x = d[j] - mean
    BY <1>1
  <2>2. x * x \in Nat
    OBVIOUS
  <2> QED BY <1>3, <2>1, <2>2
<1>5. Average(squares, W) \in Nat
  BY <1>1, <1>4, AverageNat
<1>6. Deviation(d, W) = Root(Average(squares, W))
  BY <1>2, <1>3 DEF Deviation
<1> QED
  BY <1>1, <1>5, <1>6, RootNat

\* The standard deviation.
LEMMA StdDevLines ==
  ASSUME NEW d, NEW e, NEW k, Twins(d, e, k), NEW p \in Nat \ {0}
  PROVE  Lines(StdDev(d, p), StdDev(e, p), p, Len(d), Len(e), k)
<1>1. d \in Seq(Int) /\ e \in Seq(Int) /\ k <= Len(d) /\ k <= Len(e) /\ k \in Int
  BY DEF Twins
<1>2. ASSUME NEW c \in Seq(Int) PROVE StdDev(c, p) \in [p .. Len(c) -> Int]
  <2>1. ASSUME NEW i \in p .. Len(c) PROVE Deviation(c, Window(i, p)) \in Int
    BY StdDevInt
  <2> QED BY <2>1 DEF StdDev
<1>3. ASSUME NEW i \in p .. k PROVE StdDev(e, p)[i] = StdDev(d, p)[i]
  <2>1. Deviation(e, Window(i, p)) = Deviation(d, Window(i, p))
    BY WindowTwins, SumsAlike
  <2>2. i \in p .. Len(d) /\ i \in p .. Len(e)
    BY <1>1
  <2> QED BY <2>1, <2>2 DEF StdDev
<1> QED
  BY <1>1, <1>2, <1>3 DEF Lines

\* Bollinger's bands and the envelope (bollingerBands.js, envelope.js).
LEMMA BollingerSame ==
  ASSUME NEW d, NEW e, NEW k, Twins(d, e, k), NEW p \in Nat \ {0}, NEW c \in Nat
  PROVE  SameLines(BollingerBands(d, p, c), BollingerBands(e, p, c), k)
<1>1. d \in Seq(Int) /\ e \in Seq(Int) /\ k <= Len(d) /\ k <= Len(e) /\ k \in Int
  BY DEF Twins
<1>2. PICK n \in Nat, m \in Nat : n = Len(d) /\ m = Len(e) /\ k <= n /\ k <= m
  BY <1>1
<1>3. PICK u, v : /\ u = [i \in p .. n |-> c * Deviation(d, Window(i, p))]
                  /\ v = [i \in p .. m |-> c * Deviation(e, Window(i, p))]
  OBVIOUS
<1>4. \A i \in p .. n : u[i] \in Int
  <2> SUFFICES ASSUME NEW i \in p .. n PROVE u[i] \in Int
    OBVIOUS
  <2>1. PICK x \in Nat : x = Deviation(d, Window(i, p))
    BY <1>1, <1>2, StdDevInt
  <2>2. c * x \in Int
    OBVIOUS
  <2> QED BY <1>3, <2>1, <2>2
<1>5. \A i \in p .. m : v[i] \in Int
  <2> SUFFICES ASSUME NEW i \in p .. m PROVE v[i] \in Int
    OBVIOUS
  <2>1. PICK x \in Nat : x = Deviation(e, Window(i, p))
    BY <1>1, <1>2, StdDevInt
  <2>2. c * x \in Int
    OBVIOUS
  <2> QED BY <1>3, <2>1, <2>2
<1>6. ASSUME NEW i \in p .. k PROVE v[i] = u[i]
  <2>1. Deviation(e, Window(i, p)) = Deviation(d, Window(i, p))
    BY WindowTwins, SumsAlike
  <2>2. i \in p .. n /\ i \in p .. m
    BY <1>1, <1>2
  <2> QED BY <1>3, <2>1, <2>2
<1>7. Lines(u, v, p, n, m, k)
  BY <1>3, <1>4, <1>5, <1>6 DEF Lines
<1>8. Lines(Sma(d, p), Sma(e, p), p, n, m, k)
  BY <1>2, SmaLines
<1>9. BollingerBands(d, p, c) = Around(Sma(d, p), u)
  BY <1>2, <1>3 DEF BollingerBands
<1>10. BollingerBands(e, p, c) = Around(Sma(e, p), v)
  BY <1>2, <1>3 DEF BollingerBands
<1> QED
  BY <1>1, <1>2, <1>7, <1>8, <1>9, <1>10, AroundSame

\* The envelope (envelope.js).
LEMMA EnvelopeSame ==
  ASSUME NEW d, NEW e, NEW k, Twins(d, e, k), NEW p \in Nat \ {0}, NEW c \in Nat
  PROVE  SameLines(Envelope(d, p, c), Envelope(e, p, c), k)
<1>1. d \in Seq(Int) /\ e \in Seq(Int) /\ k <= Len(d) /\ k <= Len(e) /\ k \in Int
  BY DEF Twins
<1>2. PICK n \in Nat, m \in Nat : n = Len(d) /\ m = Len(e) /\ k <= n /\ k <= m
  BY <1>1
<1>3. PICK f, g : f = Sma(d, p) /\ g = Sma(e, p) /\ Lines(f, g, p, n, m, k)
  BY <1>2, SmaLines
<1>4. DOMAIN f = p .. n /\ DOMAIN g = p .. m
  BY <1>3 DEF Lines
<1>5. PICK up, down : /\ up = [i \in p .. n |-> (f[i] * (1000 + c)) \div 1000]
                      /\ down = [i \in p .. n |-> (f[i] * (1000 - c)) \div 1000]
  OBVIOUS
<1>6. PICK high, low : /\ high = [i \in p .. m |-> (g[i] * (1000 + c)) \div 1000]
                       /\ low = [i \in p .. m |-> (g[i] * (1000 - c)) \div 1000]
  OBVIOUS
<1>7. Envelope(d, p, c) = [upper |-> up, middle |-> f, lower |-> down]
  BY <1>3, <1>4, <1>5 DEF Envelope
<1>8. Envelope(e, p, c) = [upper |-> high, middle |-> g, lower |-> low]
  BY <1>3, <1>4, <1>6 DEF Envelope
<1>9. ASSUME NEW i \in p .. k PROVE high[i] = up[i] /\ low[i] = down[i]
  <2>1. i \in p .. n /\ i \in p .. m
    BY <1>1, <1>2
  <2>2. g[i] = f[i]
    BY <1>3 DEF Lines
  <2> QED BY <1>5, <1>6, <2>1, <2>2
<1>10. DOMAIN up = p .. n /\ DOMAIN down = p .. n /\ DOMAIN high = p .. m /\ DOMAIN low = p .. m
  BY <1>5, <1>6
<1>11. Same(up, high, k) /\ Same(down, low, k)
  <2>1. p \in Int /\ n \in Int /\ m \in Int
    OBVIOUS
  <2>2. Same(up, high, k)
    BY <1>1, <1>2, <1>9, <1>10, <2>1, SameOnInterval
  <2>3. Same(down, low, k)
    BY <1>1, <1>2, <1>9, <1>10, <2>1, SameOnInterval
  <2> QED BY <2>2, <2>3
<1>12. Same(f, g, k)
  BY <1>1, <1>2, <1>3, SameLine
<1> QED
  BY <1>7, <1>8, <1>11, <1>12 DEF SameLines

\* The rate of change (roc.js).
LEMMA RocSame ==
  ASSUME NEW d, NEW e, NEW k, Twins(d, e, k), NEW p \in Nat \ {0}
  PROVE  Same(Roc(d, p), Roc(e, p), k)
<1>1. d \in Seq(Int) /\ e \in Seq(Int) /\ k <= Len(d) /\ k <= Len(e) /\ k \in Int
  BY DEF Twins
<1> SUFFICES ASSUME NEW i \in 1 .. k
             PROVE  /\ i \in DOMAIN Roc(d, p) <=> i \in DOMAIN Roc(e, p)
                    /\ i \in DOMAIN Roc(d, p) => Roc(d, p)[i] = Roc(e, p)[i]
  BY DEF Same
<1>2. i \in Int /\ 1 <= i /\ i <= k /\ i <= Len(d) /\ i <= Len(e)
  BY <1>1
<1>3. i \in DOMAIN Roc(d, p) <=> p + 1 <= i /\ d[i - p] # 0
  BY <1>1, <1>2 DEF Roc
<1>4. i \in DOMAIN Roc(e, p) <=> p + 1 <= i /\ e[i - p] # 0
  BY <1>1, <1>2 DEF Roc
<1>5. e[i] = d[i]
  BY DEF Twins
<1>6. p + 1 <= i => e[i - p] = d[i - p]
  <2>1. p + 1 <= i => i - p \in 1 .. k
    BY <1>1, <1>2
  <2> QED BY <2>1 DEF Twins
<1>7. i \in DOMAIN Roc(d, p) => Roc(d, p)[i] = (100 * (d[i] - d[i - p])) \div d[i - p]
  BY DEF Roc
<1>8. i \in DOMAIN Roc(e, p) => Roc(e, p)[i] = (100 * (e[i] - e[i - p])) \div e[i - p]
  BY DEF Roc
<1> QED
  BY <1>3, <1>4, <1>5, <1>6, <1>7, <1>8
-----------------------------------------------------------------------------
(* The indicators of the same bars *)

\* Two sequences of bars, the same up to k: what was drawn, and what is.
TwinBars(cs, es, k) ==
  /\ cs \in Seq(Bars) /\ es \in Seq(Bars) /\ k \in Nat /\ 2 <= k /\ k <= Len(cs) /\ k <= Len(es)
  /\ \A j \in 1 .. k : es[j] = cs[j]

\* Their closes, typical prices, volumes and money are twins.
LEMMA ClosesTwins ==
  ASSUME NEW cs, NEW es, NEW k, TwinBars(cs, es, k)
  PROVE  Twins(Closes(cs), Closes(es), k) /\ Len(Closes(cs)) = Len(cs) /\ Len(Closes(es)) = Len(es)
<1>1. cs \in Seq(Bars) /\ es \in Seq(Bars) /\ k \in Nat /\ k <= Len(cs) /\ k <= Len(es)
  BY DEF TwinBars
<1>2. PICK d \in Seq(Int) : d = Closes(cs) /\ Len(d) = Len(cs)
  BY <1>1, ClosesOfBars
<1>3. PICK e \in Seq(Int) : e = Closes(es) /\ Len(e) = Len(es)
  BY <1>1, ClosesOfBars
<1>4. ASSUME NEW j \in 1 .. k PROVE e[j] = d[j]
  <2>1. j \in 1 .. Len(cs) /\ j \in 1 .. Len(es) /\ es[j] = cs[j]
    BY <1>1 DEF TwinBars
  <2> QED BY <1>2, <1>3, <2>1 DEF Closes
<1>5. Twins(d, e, k)
  BY <1>1, <1>2, <1>3, <1>4 DEF Twins
<1> QED
  BY <1>2, <1>3, <1>5

\* They are sequences of integers.
LEMMA TypicalInts ==
  ASSUME NEW cs \in Seq(Bars)
  PROVE  /\ Typical(cs) \in Seq(Int) /\ Len(Typical(cs)) = Len(cs)
         /\ Volumes(cs) \in Seq(Int) /\ Len(Volumes(cs)) = Len(cs)
         /\ Money(cs) \in Seq(Int) /\ Len(Money(cs)) = Len(cs)
<1>1. PICK n \in Nat : n = Len(cs)
  OBVIOUS
<1>2. DOMAIN Typical(cs) = 1 .. n /\ DOMAIN Volumes(cs) = 1 .. n /\ DOMAIN Money(cs) = 1 .. n
  BY <1>1 DEF Typical, Volumes, Money
<1>3. \A i \in 1 .. n : Typical(cs)[i] \in Int
  BY <1>1, TypicalPrice
<1>4. \A i \in 1 .. n : Volumes(cs)[i] \in Int /\ Money(cs)[i] \in Int
  BY <1>1, SeriesOfBars
<1>5. PICK a : a = Typical(cs)
  OBVIOUS
<1>6. a = [i \in 1 .. n |-> a[i]]
  BY <1>1, <1>5 DEF Typical
<1>7. a \in [1 .. n -> Int] /\ a \in Seq(Int) /\ Len(a) = n
  <2>1. a \in [1 .. n -> Int]
    BY <1>3, <1>5, <1>6
  <2> QED BY <2>1
<1>8. PICK b : b = Volumes(cs)
  OBVIOUS
<1>9. b = [i \in 1 .. n |-> b[i]]
  BY <1>1, <1>8 DEF Volumes
<1>10. b \in [1 .. n -> Int] /\ b \in Seq(Int) /\ Len(b) = n
  <2>1. b \in [1 .. n -> Int]
    BY <1>4, <1>8, <1>9
  <2> QED BY <2>1
<1>11. PICK c : c = Money(cs)
  OBVIOUS
<1>12. c = [i \in 1 .. n |-> c[i]]
  BY <1>1, <1>11 DEF Money
<1>13. c \in [1 .. n -> Int] /\ c \in Seq(Int) /\ Len(c) = n
  <2>1. c \in [1 .. n -> Int]
    BY <1>4, <1>11, <1>12
  <2> QED BY <2>1
<1> QED
  BY <1>1, <1>5, <1>7, <1>8, <1>10, <1>11, <1>13

\* So they are twins.
LEMMA SeriesTwins ==
  ASSUME NEW cs, NEW es, NEW k, TwinBars(cs, es, k)
  PROVE  /\ Twins(Typical(cs), Typical(es), k) /\ Twins(Volumes(cs), Volumes(es), k)
         /\ Twins(Money(cs), Money(es), k)
<1>1. cs \in Seq(Bars) /\ es \in Seq(Bars) /\ k \in Nat /\ k <= Len(cs) /\ k <= Len(es)
  BY DEF TwinBars
<1>2. ASSUME NEW j \in 1 .. k
      PROVE  /\ Typical(es)[j] = Typical(cs)[j] /\ Volumes(es)[j] = Volumes(cs)[j]
             /\ Money(es)[j] = Money(cs)[j]
  <2>1. j \in 1 .. Len(cs) /\ j \in 1 .. Len(es) /\ es[j] = cs[j]
    BY <1>1 DEF TwinBars
  <2>2. Typical(es)[j] = Typical(cs)[j] /\ Volumes(es)[j] = Volumes(cs)[j]
    BY <2>1 DEF Typical, Volumes
  <2>3. Money(es)[j] = Money(cs)[j]
    BY <2>1, <2>2 DEF Money
  <2> QED BY <2>2, <2>3
<1>3. Twins(Typical(cs), Typical(es), k)
  BY <1>1, <1>2, TypicalInts DEF Twins
<1>4. Twins(Volumes(cs), Volumes(es), k)
  BY <1>1, <1>2, TypicalInts DEF Twins
<1>5. Twins(Money(cs), Money(es), k)
  BY <1>1, <1>2, TypicalInts DEF Twins
<1> QED
  BY <1>3, <1>4, <1>5

\* The extremes of the same bars.
LEMMA ExtremesAlike ==
  ASSUME NEW cs, NEW es, NEW W, \A j \in W : es[j] = cs[j]
  PROVE  Highest(es, W) = Highest(cs, W) /\ Lowest(es, W) = Lowest(cs, W)
<1>1. {es[j].high : j \in W} = {cs[j].high : j \in W}
  OBVIOUS
<1>2. {es[j].low : j \in W} = {cs[j].low : j \in W}
  OBVIOUS
<1> QED
  BY <1>1, <1>2 DEF Highest, Lowest

\* The extremes of a window that ends by k.
LEMMA WindowExtremes ==
  ASSUME NEW cs, NEW es, NEW k, TwinBars(cs, es, k), NEW p \in Nat, NEW i \in p .. k, i >= 1
  PROVE  /\ i \in 1 .. k /\ i \in p .. Len(cs) /\ i \in p .. Len(es) /\ es[i] = cs[i]
         /\ Highest(es, Window(i, p)) = Highest(cs, Window(i, p))
         /\ Lowest(es, Window(i, p)) = Lowest(cs, Window(i, p))
         /\ Window(i, p) \in SUBSET (1 .. k)
<1>1. cs \in Seq(Bars) /\ es \in Seq(Bars) /\ k \in Nat /\ k <= Len(cs) /\ k <= Len(es)
  BY DEF TwinBars
<1>2. i \in 1 .. k /\ i \in p .. Len(cs) /\ i \in p .. Len(es)
  BY <1>1
<1>3. \A j \in Window(i, p) : j \in 1 .. k
  BY <1>1 DEF Window
<1>4. \A j \in Window(i, p) : es[j] = cs[j]
  BY <1>3 DEF TwinBars
<1>5. es[i] = cs[i]
  BY <1>2 DEF TwinBars
<1>6. Window(i, p) \in SUBSET (1 .. k)
  BY <1>3
<1> QED
  BY <1>2, <1>4, <1>5, <1>6, ExtremesAlike

\* Lines of the bars that start at p are the same if their values are.
LEMMA SameFrom ==
  ASSUME NEW cs, NEW es, NEW k, TwinBars(cs, es, k), NEW p \in Int,
         NEW f, NEW g, DOMAIN f = p .. Len(cs), DOMAIN g = p .. Len(es),
         \A i \in p .. k : i >= 1 => g[i] = f[i]
  PROVE  Same(f, g, k)
<1>1. PICK n \in Int, m \in Int, h \in Int : /\ n = Len(cs) /\ m = Len(es) /\ h = k
                                             /\ h <= n /\ h <= m
  BY DEF TwinBars
<1> QED
  BY <1>1, SameOnInterval

\* The middle of the extremes.
LEMMA MidlineSame ==
  ASSUME NEW cs, NEW es, NEW k, TwinBars(cs, es, k), NEW p \in Nat
  PROVE  /\ Same(Midline(cs, p), Midline(es, p), k)
         /\ DOMAIN Midline(cs, p) = p .. Len(cs) /\ DOMAIN Midline(es, p) = p .. Len(es)
<1>1. DOMAIN Midline(cs, p) = p .. Len(cs) /\ DOMAIN Midline(es, p) = p .. Len(es)
  BY DEF Midline
<1>2. ASSUME NEW i \in p .. k, i >= 1 PROVE Midline(es, p)[i] = Midline(cs, p)[i]
  BY <1>2, WindowExtremes DEF Midline
<1> QED
  BY <1>1, <1>2, SameFrom

\* Donchian's channels and the cloud (donchian.js, ichimoku.js).
LEMMA DonchianSame ==
  ASSUME NEW cs, NEW es, NEW k, TwinBars(cs, es, k), NEW p \in Nat
  PROVE  SameLines(DonchianChannels(cs, p), DonchianChannels(es, p), k)
<1>1. PICK up, low : /\ up = [i \in p .. Len(cs) |-> Highest(cs, Window(i, p))]
                     /\ low = [i \in p .. Len(cs) |-> Lowest(cs, Window(i, p))]
  OBVIOUS
<1>2. PICK high, down : /\ high = [i \in p .. Len(es) |-> Highest(es, Window(i, p))]
                        /\ down = [i \in p .. Len(es) |-> Lowest(es, Window(i, p))]
  OBVIOUS
<1>3. ASSUME NEW i \in p .. k, i >= 1 PROVE high[i] = up[i] /\ down[i] = low[i]
  BY <1>1, <1>2, <1>3, WindowExtremes
<1>4. /\ DOMAIN up = p .. Len(cs) /\ DOMAIN low = p .. Len(cs)
      /\ DOMAIN high = p .. Len(es) /\ DOMAIN down = p .. Len(es)
  BY <1>1, <1>2
<1>5. Same(up, high, k)
  BY <1>3, <1>4, SameFrom
<1>6. Same(low, down, k)
  BY <1>3, <1>4, SameFrom
<1>7. Same(Midline(cs, p), Midline(es, p), k)
  BY MidlineSame
<1>8. DonchianChannels(cs, p) = [upper |-> up, middle |-> Midline(cs, p), lower |-> low]
  BY <1>1 DEF DonchianChannels
<1>9. DonchianChannels(es, p) = [upper |-> high, middle |-> Midline(es, p), lower |-> down]
  BY <1>2 DEF DonchianChannels
<1> QED
  BY <1>5, <1>6, <1>7, <1>8, <1>9 DEF SameLines

\* The cloud (ichimoku.js).
LEMMA IchimokuSame ==
  ASSUME NEW cs, NEW es, NEW k, TwinBars(cs, es, k), NEW a \in Nat, NEW b \in Nat, NEW c \in Nat
  PROVE  SameLines(Ichimoku(cs, a, b, c), Ichimoku(es, a, b, c), k)
<1>1. PICK f, g : f = Midline(cs, a) /\ g = Midline(es, a) /\ Same(f, g, k)
  BY MidlineSame
<1>2. PICK u, v : u = Midline(cs, b) /\ v = Midline(es, b) /\ Same(u, v, k)
  BY MidlineSame
<1>3. PICK x : x = [i \in DOMAIN f \cap DOMAIN u |-> (f[i] + u[i]) \div 2]
  OBVIOUS
<1>4. PICK y : y = [i \in DOMAIN g \cap DOMAIN v |-> (g[i] + v[i]) \div 2]
  OBVIOUS
<1>5. Same(x, y, k)
  <2> SUFFICES ASSUME NEW i \in 1 .. k
               PROVE  (i \in DOMAIN x <=> i \in DOMAIN y) /\ (i \in DOMAIN x => x[i] = y[i])
    BY DEF Same
  <2>1. (i \in DOMAIN f <=> i \in DOMAIN g) /\ (i \in DOMAIN f => f[i] = g[i])
    BY <1>1 DEF Same
  <2>2. (i \in DOMAIN u <=> i \in DOMAIN v) /\ (i \in DOMAIN u => u[i] = v[i])
    BY <1>2 DEF Same
  <2> QED BY <1>3, <1>4, <2>1, <2>2
<1>6. Same(Midline(cs, c), Midline(es, c), k)
  BY MidlineSame
<1>7. Ichimoku(cs, a, b, c) = [tenkan |-> f, kijun |-> u, senkouB |-> Midline(cs, c), senkouA |-> x]
  BY <1>1, <1>2, <1>3 DEF Ichimoku
<1>8. Ichimoku(es, a, b, c) = [tenkan |-> g, kijun |-> v, senkouB |-> Midline(es, c), senkouA |-> y]
  BY <1>1, <1>2, <1>4 DEF Ichimoku
<1> QED
  BY <1>1, <1>2, <1>5, <1>6, <1>7, <1>8 DEF SameLines

\* The levels of the pivots (pivotPoints.js).
LEMMA PivotsSame ==
  ASSUME NEW cs, NEW es, NEW k, TwinBars(cs, es, k)
  PROVE  SameLines(Restrict(PivotPoints(cs), {"pp", "r1", "r2", "s1", "s2"}),
                   Restrict(PivotPoints(es), {"pp", "r1", "r2", "s1", "s2"}), k)
<1> DEFINE v == PivotPoints(cs)  w == PivotPoints(es)
<1>1. /\ v.pp = [i \in 2 .. Len(cs) |-> Typical(cs)[i - 1]]
      /\ v.r1 = [i \in 2 .. Len(cs) |-> 2 * Typical(cs)[i - 1] - cs[i - 1].low]
      /\ v.s1 = [i \in 2 .. Len(cs) |-> 2 * Typical(cs)[i - 1] - cs[i - 1].high]
      /\ v.r2 = [i \in 2 .. Len(cs) |-> Typical(cs)[i - 1] + (cs[i - 1].high - cs[i - 1].low)]
      /\ v.s2 = [i \in 2 .. Len(cs) |-> Typical(cs)[i - 1] - (cs[i - 1].high - cs[i - 1].low)]
  BY DEF PivotPoints
<1>2. /\ w.pp = [i \in 2 .. Len(es) |-> Typical(es)[i - 1]]
      /\ w.r1 = [i \in 2 .. Len(es) |-> 2 * Typical(es)[i - 1] - es[i - 1].low]
      /\ w.s1 = [i \in 2 .. Len(es) |-> 2 * Typical(es)[i - 1] - es[i - 1].high]
      /\ w.r2 = [i \in 2 .. Len(es) |-> Typical(es)[i - 1] + (es[i - 1].high - es[i - 1].low)]
      /\ w.s2 = [i \in 2 .. Len(es) |-> Typical(es)[i - 1] - (es[i - 1].high - es[i - 1].low)]
  BY DEF PivotPoints
<1> HIDE DEF v, w
<1>3. ASSUME NEW i \in 2 .. k, i >= 1
      PROVE  /\ w.pp[i] = v.pp[i] /\ w.r1[i] = v.r1[i] /\ w.s1[i] = v.s1[i]
             /\ w.r2[i] = v.r2[i] /\ w.s2[i] = v.s2[i]
  <2>1. i - 1 \in 1 .. k /\ i \in 2 .. Len(cs) /\ i \in 2 .. Len(es)
    BY DEF TwinBars
  <2>2. es[i - 1] = cs[i - 1]
    BY <2>1 DEF TwinBars
  <2>3. Typical(es)[i - 1] = Typical(cs)[i - 1]
    BY <2>1, SeriesTwins DEF Twins
  <2> QED BY <1>1, <1>2, <2>1, <2>2, <2>3
<1>4. /\ DOMAIN v.pp = 2 .. Len(cs) /\ DOMAIN v.r1 = 2 .. Len(cs) /\ DOMAIN v.s1 = 2 .. Len(cs)
      /\ DOMAIN v.r2 = 2 .. Len(cs) /\ DOMAIN v.s2 = 2 .. Len(cs)
  BY <1>1
<1>5. /\ DOMAIN w.pp = 2 .. Len(es) /\ DOMAIN w.r1 = 2 .. Len(es) /\ DOMAIN w.s1 = 2 .. Len(es)
      /\ DOMAIN w.r2 = 2 .. Len(es) /\ DOMAIN w.s2 = 2 .. Len(es)
  BY <1>2
<1>6. PICK two \in Int : two = 2
  OBVIOUS
<1>7. Same(v.pp, w.pp, k)
  BY <1>3, <1>4, <1>5, <1>6, SameFrom
<1>8. Same(v.r1, w.r1, k)
  BY <1>3, <1>4, <1>5, <1>6, SameFrom
<1>9. Same(v.s1, w.s1, k)
  BY <1>3, <1>4, <1>5, <1>6, SameFrom
<1>10. Same(v.r2, w.r2, k)
  BY <1>3, <1>4, <1>5, <1>6, SameFrom
<1>11. Same(v.s2, w.s2, k)
  BY <1>3, <1>4, <1>5, <1>6, SameFrom
<1>12. PICK r, q : /\ r = Restrict(v, {"pp", "r1", "r2", "s1", "s2"})
                   /\ q = Restrict(w, {"pp", "r1", "r2", "s1", "s2"})
  OBVIOUS
<1>13. /\ r = [line \in {"pp", "r1", "r2", "s1", "s2"} |-> v[line]]
       /\ q = [line \in {"pp", "r1", "r2", "s1", "s2"} |-> w[line]]
  BY <1>12 DEF Restrict
<1>14. SameLines(r, q, k)
  BY <1>7, <1>8, <1>9, <1>10, <1>11, <1>13 DEF SameLines
<1> QED
  BY <1>12, <1>14 DEF v, w

\* The stochastic and Williams' %R (stochastic.js, williamsR.js).
LEMMA StochasticSame ==
  ASSUME NEW cs, NEW es, NEW k, TwinBars(cs, es, k), NEW p \in Nat \ {0}, NEW d \in Nat \ {0},
         NEW slowing \in Nat \ {0}
  PROVE  SameLines(Stochastic(cs, p, d, slowing), Stochastic(es, p, d, slowing), k)
<1>1. k \in Nat /\ k <= Len(cs) /\ k <= Len(es)
  BY DEF TwinBars
<1> DEFINE Raw(c) == [i \in p .. Len(c) |->
        IF Highest(c, Window(i, p)) = Lowest(c, Window(i, p)) THEN 50
        ELSE (100 * (c[i].close - Lowest(c, Window(i, p))))
             \div (Highest(c, Window(i, p)) - Lowest(c, Window(i, p)))]
<1>2. PICK x, y : x = Raw(cs) /\ y = Raw(es)
  OBVIOUS
<1>3. ASSUME NEW i \in p .. k PROVE y[i] = x[i]
  <2>1. i >= 1 /\ p \in Nat
    BY <1>1
  <2> QED BY <1>2, <2>1, WindowExtremes
<1> HIDE DEF Raw
<1>4. PICK u, v : /\ u = [i \in p + slowing - 1 .. Len(cs) |-> Average(x, Window(i, slowing))]
                  /\ v = [i \in p + slowing - 1 .. Len(es) |-> Average(y, Window(i, slowing))]
  OBVIOUS
<1>5. ASSUME NEW i \in p + slowing - 1 .. k PROVE v[i] = u[i]
  <2>1. i \in p + slowing - 1 .. Len(cs) /\ i \in p + slowing - 1 .. Len(es) /\ i \in Int
    BY <1>1
  <2>2. \A j \in Window(i, slowing) : j \in p .. k
    BY <1>1, <2>1 DEF Window
  <2>3. AlikeOn(x, y, Window(i, slowing))
    BY <1>3, <2>2 DEF AlikeOn
  <2>4. Average(y, Window(i, slowing)) = Average(x, Window(i, slowing))
    BY <2>1, <2>3, WindowIsFinite, SumsAlike
  <2> QED BY <1>4, <2>1, <2>4
<1>6. PICK f, g : /\ f = [i \in p + slowing + d - 2 .. Len(cs) |-> Average(u, Window(i, d))]
                  /\ g = [i \in p + slowing + d - 2 .. Len(es) |-> Average(v, Window(i, d))]
  OBVIOUS
<1>7. ASSUME NEW i \in p + slowing + d - 2 .. k PROVE g[i] = f[i]
  <2>1. i \in p + slowing + d - 2 .. Len(cs) /\ i \in p + slowing + d - 2 .. Len(es) /\ i \in Int
    BY <1>1
  <2>2. \A j \in Window(i, d) : j \in p + slowing - 1 .. k
    BY <1>1, <2>1 DEF Window
  <2>3. AlikeOn(u, v, Window(i, d))
    BY <1>5, <2>2 DEF AlikeOn
  <2>4. Average(v, Window(i, d)) = Average(u, Window(i, d))
    BY <2>1, <2>3, WindowIsFinite, SumsAlike
  <2> QED BY <1>6, <2>1, <2>4
<1>8. Same(u, v, k)
  <2>1. p + slowing - 1 \in Int /\ DOMAIN u = p + slowing - 1 .. Len(cs)
        /\ DOMAIN v = p + slowing - 1 .. Len(es)
    BY <1>4
  <2> QED BY <1>5, <2>1, SameFrom
<1>9. Same(f, g, k)
  <2>1. p + slowing + d - 2 \in Int /\ DOMAIN f = p + slowing + d - 2 .. Len(cs)
        /\ DOMAIN g = p + slowing + d - 2 .. Len(es)
    BY <1>6
  <2> QED BY <1>7, <2>1, SameFrom
<1>10. Stochastic(cs, p, d, slowing) = [k |-> u, d |-> f]
  BY <1>2, <1>4, <1>6 DEF Stochastic, Raw
<1>11. Stochastic(es, p, d, slowing) = [k |-> v, d |-> g]
  BY <1>2, <1>4, <1>6 DEF Stochastic, Raw
<1> QED
  BY <1>8, <1>9, <1>10, <1>11 DEF SameLines

\* Williams' range (williamsR.js).
LEMMA WilliamsRSame ==
  ASSUME NEW cs, NEW es, NEW k, TwinBars(cs, es, k), NEW p \in Nat \ {0}
  PROVE  Same(WilliamsR(cs, p), WilliamsR(es, p), k)
<1>1. DOMAIN WilliamsR(cs, p) = p .. Len(cs) /\ DOMAIN WilliamsR(es, p) = p .. Len(es)
  BY DEF WilliamsR
<1>2. ASSUME NEW i \in p .. k, i >= 1 PROVE WilliamsR(es, p)[i] = WilliamsR(cs, p)[i]
  BY <1>2, WindowExtremes DEF WilliamsR
<1> QED
  BY <1>1, <1>2, SameFrom

\* The commodity channel index (cci.js).
LEMMA CciSame ==
  ASSUME NEW cs, NEW es, NEW k, TwinBars(cs, es, k), NEW p \in Nat \ {0}
  PROVE  Same(Cci(cs, p), Cci(es, p), k)
<1>1. DOMAIN Cci(cs, p) = p .. Len(cs) /\ DOMAIN Cci(es, p) = p .. Len(es)
  BY DEF Cci
<1>2. PICK x, y : x = Typical(cs) /\ y = Typical(es) /\ Twins(x, y, k)
  BY SeriesTwins
<1> DEFINE Of(t, W, i) ==
             IF Average([j \in W |-> Abs(t[j] - Average(t, W))], W) = 0 THEN 0
             ELSE (1000 * (t[i] - Average(t, W)))
                  \div (15 * Average([j \in W |-> Abs(t[j] - Average(t, W))], W))
<1>3. Cci(cs, p) = [i \in p .. Len(cs) |-> Of(x, Window(i, p), i)]
  BY <1>2 DEF Cci
<1>4. Cci(es, p) = [i \in p .. Len(es) |-> Of(y, Window(i, p), i)]
  BY <1>2 DEF Cci
<1>5. ASSUME NEW i \in p .. k, i >= 1 PROVE Cci(es, p)[i] = Cci(cs, p)[i]
  <2>1. PICK W : /\ W = Window(i, p) /\ AlikeOn(x, y, W) /\ IsFiniteSet(W) /\ i \in W
                 /\ i \in p .. Len(cs) /\ i \in p .. Len(es)
    <3>1. i \in p .. Len(cs) /\ i \in p .. Len(es) /\ i \in Int
      BY DEF TwinBars
    <3> QED BY <1>2, <3>1, WindowTwins, WindowIsFinite
  <2>2. PICK mean : mean = Average(x, W) /\ mean = Average(y, W)
    BY <2>1, SumsAlike
  <2>3. [j \in W |-> Abs(y[j] - mean)] = [j \in W |-> Abs(x[j] - mean)]
    BY <2>1 DEF AlikeOn
  <2>4. y[i] = x[i]
    BY <2>1 DEF AlikeOn
  <2>5. [j \in W |-> Abs(y[j] - Average(y, W))] = [j \in W |-> Abs(x[j] - Average(x, W))]
    BY <2>2, <2>3
  <2>6. Of(y, W, i) = Of(x, W, i)
    BY <2>2, <2>4, <2>5
  <2> HIDE DEF Of
  <2> QED BY <1>3, <1>4, <2>1, <2>6
<1> QED
  BY <1>1, <1>5, SameFrom

\* Aroon (aroon.js).
LEMMA AroonSame ==
  ASSUME NEW cs, NEW es, NEW k, TwinBars(cs, es, k), NEW p \in Nat \ {0}
  PROVE  SameLines(Aroon(cs, p), Aroon(es, p), k)
<1> DEFINE At(c, S, i) == (100 * (Min(S) - (i - p))) \div p
           Tops(c, W) == {j \in W : c[j].high = Highest(c, W)}
           Lows(c, W) == {j \in W : c[j].low = Lowest(c, W)}
<1>1. PICK u, v : /\ u = [i \in p + 1 .. Len(cs) |-> At(cs, Tops(cs, Window(i, p + 1)), i)]
                  /\ v = [i \in p + 1 .. Len(cs) |-> At(cs, Lows(cs, Window(i, p + 1)), i)]
  OBVIOUS
<1>2. PICK x, y : /\ x = [i \in p + 1 .. Len(es) |-> At(es, Tops(es, Window(i, p + 1)), i)]
                  /\ y = [i \in p + 1 .. Len(es) |-> At(es, Lows(es, Window(i, p + 1)), i)]
  OBVIOUS
<1>3. Aroon(cs, p) = [up |-> u, down |-> v]
  BY <1>1 DEF Aroon
<1>4. Aroon(es, p) = [up |-> x, down |-> y]
  BY <1>2 DEF Aroon
<1>5. ASSUME NEW i \in p + 1 .. k, i >= 1 PROVE x[i] = u[i] /\ y[i] = v[i]
  <2>1. PICK W : /\ W = Window(i, p + 1) /\ W \in SUBSET (1 .. k)
                 /\ Highest(es, W) = Highest(cs, W) /\ Lowest(es, W) = Lowest(cs, W)
                 /\ i \in p + 1 .. Len(cs) /\ i \in p + 1 .. Len(es)
    <3>1. p + 1 \in Nat
      OBVIOUS
    <3> QED BY <1>5, <3>1, WindowExtremes
  <2>2. \A j \in W : es[j] = cs[j]
    BY <2>1 DEF TwinBars
  <2>3. Tops(es, W) = Tops(cs, W) /\ Lows(es, W) = Lows(cs, W)
    BY <2>1, <2>2
  <2> QED BY <1>1, <1>2, <2>1, <2>3
<1>6. /\ DOMAIN u = p + 1 .. Len(cs) /\ DOMAIN v = p + 1 .. Len(cs) /\ p + 1 \in Int
      /\ DOMAIN x = p + 1 .. Len(es) /\ DOMAIN y = p + 1 .. Len(es)
  BY <1>1, <1>2
<1>7. Same(u, x, k)
  BY <1>5, <1>6, SameFrom
<1>8. Same(v, y, k)
  BY <1>5, <1>6, SameFrom
<1> QED
  BY <1>3, <1>4, <1>7, <1>8 DEF SameLines
-----------------------------------------------------------------------------
(* Wilder's averages of the same bars *)

\* Wilder's averages of two series that are the same up to k.
Ints(x, lo, n) == \A j \in lo .. n : x[j] \in Int

\* They are the same up to k.
LEMMA WilderLines ==
  ASSUME NEW x, NEW y, NEW p \in Nat \ {0}, NEW s \in Int, NEW n \in Int, NEW m \in Int,
         NEW k \in Int, k <= n, k <= m, NEW lo, lo = s - p + 1, Ints(x, lo, n), Ints(y, lo, m),
         AlikeOn(x, y, lo .. k)
  PROVE  Lines(Wilder(x, s, p, n), Wilder(y, s, p, m), s, n, m, k)
<1>1. PICK f : f = Wilder(x, s, p, n) /\ f \in [s .. n -> Int] /\ IsWilder(f, x, s, p, n)
  <2>1. \A i \in s - p + 1 .. n : x[i] \in Int
    BY DEF Ints
  <2> QED BY <2>1, WilderSteps
<1>2. PICK g : g = Wilder(y, s, p, m) /\ g \in [s .. m -> Int] /\ IsWilder(g, y, s, p, m)
  <2>1. \A i \in s - p + 1 .. m : y[i] \in Int
    BY DEF Ints
  <2> QED BY <2>1, WilderSteps
<1>3. \A i \in s .. k : i \in s .. n /\ i \in s .. m /\ i \in lo .. k
  OBVIOUS
<1>4. ASSUME s <= k PROVE g[s] = f[s]
  <2>1. \A j \in Window(s, p) : j \in lo .. k
    BY <1>4 DEF Window
  <2>2. AlikeOn(x, y, Window(s, p))
    BY <2>1 DEF AlikeOn
  <2>3. Average(y, Window(s, p)) = Average(x, Window(s, p))
    BY <2>2, WindowIsFinite, SumsAlike
  <2>4. s \in s .. k
    BY <1>4
  <2> QED BY <1>1, <1>2, <1>3, <2>3, <2>4 DEF IsWilder
<1>5. ASSUME NEW i \in s .. k, i # s /\ g[i - 1] = f[i - 1] PROVE g[i] = f[i]
  <2>1. y[i] = x[i]
    BY <1>3 DEF AlikeOn
  <2>2. f[i] = (f[i - 1] * (p - 1) + x[i]) \div p
    BY <1>1, <1>3, <1>5 DEF IsWilder
  <2>3. g[i] = (g[i - 1] * (p - 1) + y[i]) \div p
    BY <1>2, <1>3, <1>5 DEF IsWilder
  <2> QED BY <1>5, <2>1, <2>2, <2>3
<1>6. \A i \in s .. k : g[i] = f[i]
  <2>1. StepAlike(f, g, s, k)
    BY <1>4, <1>5 DEF StepAlike
  <2> QED BY ONLY <2>1, s \in Int, k \in Int, StepsAlike
<1> QED
  BY <1>1, <1>2, <1>6 DEF Lines

\* The true ranges of the same bars.
LEMMA TrueRangeAlike ==
  ASSUME NEW cs, NEW es, NEW k, TwinBars(cs, es, k), NEW i \in 1 .. k
  PROVE  TrueRange(es, i) = TrueRange(cs, i)
<1>1. es[i] = cs[i]
  BY DEF TwinBars
<1>2. CASE i = 1
  BY <1>1, <1>2 DEF TrueRange
<1>3. CASE i # 1
  <2>1. i - 1 \in 1 .. k
    BY <1>3 DEF TwinBars
  <2>2. es[i - 1] = cs[i - 1]
    BY <2>1 DEF TwinBars
  <2> QED BY <1>1, <2>2 DEF TrueRange
<1> QED
  BY <1>2, <1>3

\* The average true range (atr.js).
LEMMA AtrLines ==
  ASSUME NEW cs, NEW es, NEW k, TwinBars(cs, es, k), NEW p \in Nat \ {0}
  PROVE  Lines(Atr(cs, p), Atr(es, p), p, Len(cs), Len(es), k)
<1>1. /\ cs \in Seq(Bars) /\ es \in Seq(Bars) /\ k \in Nat /\ 2 <= k /\ k <= Len(cs)
      /\ k <= Len(es)
  BY DEF TwinBars
<1>2. PICK n \in Nat, m \in Nat : n = Len(cs) /\ m = Len(es) /\ k <= n /\ k <= m
  BY <1>1
<1>3. PICK x : x = [i \in 1 .. n |-> TrueRange(cs, i)]
  OBVIOUS
<1>4. PICK y : y = [i \in 1 .. m |-> TrueRange(es, i)]
  OBVIOUS
<1>5. \A i \in 1 .. n : x[i] \in Int
  BY <1>1, <1>2, <1>3, TrueRangeReaches
<1>6. \A i \in 1 .. m : y[i] \in Int
  BY <1>1, <1>2, <1>4, TrueRangeReaches
<1>7. ASSUME NEW i \in 1 .. k PROVE y[i] = x[i]
  <2>1. i \in 1 .. n /\ i \in 1 .. m
    BY <1>1, <1>2
  <2> QED BY <1>3, <1>4, <2>1, TrueRangeAlike
<1>8. PICK one \in Int : one = 1 /\ one = p - p + 1
  OBVIOUS
<1>9. Ints(x, one, n) /\ Ints(y, one, m) /\ AlikeOn(x, y, one .. k)
  BY <1>5, <1>6, <1>7, <1>8 DEF Ints, AlikeOn
<1>10. Lines(Wilder(x, p, p, n), Wilder(y, p, p, m), p, n, m, k)
  <2>1. p \in Int /\ n \in Int /\ m \in Int /\ k \in Int
    BY <1>1
  <2> QED BY <1>2, <1>8, <1>9, <2>1, WilderLines
<1>11. Atr(cs, p) = Wilder(x, p, p, n)
  BY <1>1, <1>2, <1>3 DEF Atr
<1>12. Atr(es, p) = Wilder(y, p, p, m)
  BY <1>1, <1>2, <1>4 DEF Atr
<1> QED
  BY <1>2, <1>10, <1>11, <1>12

\* Keltner's channels (keltner.js).
LEMMA KeltnerSame ==
  ASSUME NEW cs, NEW es, NEW k, TwinBars(cs, es, k), NEW p \in Nat \ {0}
  PROVE  SameLines(KeltnerChannels(cs, p), KeltnerChannels(es, p), k)
<1>1. /\ cs \in Seq(Bars) /\ es \in Seq(Bars) /\ k \in Nat /\ 2 <= k /\ k <= Len(cs)
      /\ k <= Len(es)
  BY DEF TwinBars
<1>2. PICK n \in Nat, m \in Nat : n = Len(cs) /\ m = Len(es) /\ k <= n /\ k <= m
  BY <1>1
<1>3. PICK f, g : f = Ema(Closes(cs), p) /\ g = Ema(Closes(es), p) /\ Lines(f, g, p, n, m, k)
  BY <1>2, ClosesTwins, EmaLines
<1>4. PICK u, v : u = Atr(cs, p) /\ v = Atr(es, p) /\ Lines(u, v, p, n, m, k)
  BY <1>2, AtrLines
<1>5. PICK x : x = [i \in DOMAIN u |-> (3 * u[i]) \div 2]
  OBVIOUS
<1>6. PICK y : y = [i \in DOMAIN v |-> (3 * v[i]) \div 2]
  OBVIOUS
<1>7. Lines(x, y, p, n, m, k)
  <2>1. u \in [p .. n -> Int] /\ v \in [p .. m -> Int]
    BY <1>4 DEF Lines
  <2>2. \A a \in Int : (3 * a) \div 2 \in Int
    OBVIOUS
  <2>3. x \in [p .. n -> Int] /\ y \in [p .. m -> Int]
    BY <1>5, <1>6, <2>1, <2>2
  <2>4. ASSUME NEW i \in p .. k PROVE y[i] = x[i]
    <3>1. i \in p .. n /\ i \in p .. m
      BY <1>1, <1>2
    <3>2. v[i] = u[i]
      BY <1>4 DEF Lines
    <3> QED BY <1>5, <1>6, <2>1, <3>1, <3>2
  <2> QED BY <2>3, <2>4 DEF Lines
<1>8. KeltnerChannels(cs, p) = Around(f, x)
  BY <1>3, <1>4, <1>5 DEF KeltnerChannels
<1>9. KeltnerChannels(es, p) = Around(g, y)
  BY <1>3, <1>4, <1>6 DEF KeltnerChannels
<1> QED
  <2>1. p \in Int /\ n \in Int /\ m \in Int /\ k \in Int
    BY <1>1
  <2> QED BY <1>2, <1>3, <1>7, <1>8, <1>9, <2>1, AroundSame

\* Lines of naturals, the same up to k.
NatLines(f, g, lo, n, m, k) ==
  /\ f \in [lo .. n -> Nat] /\ g \in [lo .. m -> Nat]
  /\ \A i \in lo .. k : g[i] = f[i]

\* Wilder's sums of two natural series that are the same up to k.
LEMMA WilderSumLines ==
  ASSUME NEW x, NEW y, NEW p \in Nat \ {0}, NEW n \in Nat, NEW m \in Nat, NEW k \in Nat,
         k <= n, k <= m, AllNat(x, 2 .. n), AllNat(y, 2 .. m), AlikeOn(x, y, 2 .. k)
  PROVE  NatLines(WilderSum(x, p, n), WilderSum(y, p, m), p + 1, n, m, k)
<1>1. PICK f : f = WilderSum(x, p, n) /\ f \in [p + 1 .. n -> Nat] /\ IsWilderSum(f, x, p, n)
  BY WilderSumSteps
<1>2. PICK g : g = WilderSum(y, p, m) /\ g \in [p + 1 .. m -> Nat] /\ IsWilderSum(g, y, p, m)
  BY WilderSumSteps
<1>3. PICK s \in Int : s = p + 1
  OBVIOUS
<1>4. \A i \in s .. k : i \in p + 1 .. n /\ i \in p + 1 .. m /\ i \in 2 .. k
  BY <1>3
<1>5. ASSUME s <= k PROVE g[s] = f[s]
  <2>1. \A j \in Window(s, p) : j \in 2 .. k
    BY <1>3, <1>5 DEF Window
  <2>2. AlikeOn(x, y, Window(s, p))
    BY <2>1 DEF AlikeOn
  <2>3. SumOver(y, Window(s, p)) = SumOver(x, Window(s, p))
    BY <2>2, WindowIsFinite, SumsAlike
  <2>4. s \in s .. k
    BY <1>5
  <2> QED BY <1>1, <1>2, <1>3, <1>4, <2>3, <2>4 DEF IsWilderSum
<1>6. ASSUME NEW i \in s .. k, i # s /\ g[i - 1] = f[i - 1] PROVE g[i] = f[i]
  <2>1. y[i] = x[i]
    BY <1>4 DEF AlikeOn
  <2>2. f[i] = f[i - 1] - f[i - 1] \div p + x[i]
    BY <1>1, <1>3, <1>4, <1>6 DEF IsWilderSum
  <2>3. g[i] = g[i - 1] - g[i - 1] \div p + y[i]
    BY <1>2, <1>3, <1>4, <1>6 DEF IsWilderSum
  <2> QED BY <1>6, <2>1, <2>2, <2>3
<1>7. \A i \in s .. k : g[i] = f[i]
  <2>1. StepAlike(f, g, s, k)
    BY <1>5, <1>6 DEF StepAlike
  <2>2. k \in Int
    OBVIOUS
  <2> QED BY <2>1, <2>2, StepsAlike
<1> QED
  BY <1>1, <1>2, <1>3, <1>7 DEF NatLines

\* The parts of the ADX: movements, true ranges, and the shares of their sums.
Rises(cs) ==
  [i \in 2 .. Len(cs) |-> Movement(cs[i].high - cs[i - 1].high, cs[i - 1].low - cs[i].low)]
Falls(cs) ==
  [i \in 2 .. Len(cs) |-> Movement(cs[i - 1].low - cs[i].low, cs[i].high - cs[i - 1].high)]
Ranges(cs) == [i \in 2 .. Len(cs) |-> TrueRange(cs, i)]
ShareOf(s, total, lo, n) ==
  [i \in lo .. n |-> IF total[i] = 0 THEN 0 ELSE (100 * s[i]) \div total[i]]
Imbalance(a, b, lo, n) ==
  [i \in lo .. n |-> IF a[i] + b[i] = 0 THEN 0 ELSE (100 * Abs(a[i] - b[i])) \div (a[i] + b[i])]
DirectionOf(x, cs, p) ==
  ShareOf(WilderSum(x, p, Len(cs)), WilderSum(Ranges(cs), p, Len(cs)), p + 1, Len(cs))

\* The ADX is computed from its parts (adx.js).
LEMMA AdxParts ==
  ASSUME NEW cs, NEW p, NEW a, NEW b, a = DirectionOf(Rises(cs), cs, p),
         b = DirectionOf(Falls(cs), cs, p)
  PROVE  Adx(cs, p) = [adx |-> Wilder(Imbalance(a, b, p + 1, Len(cs)), 2 * p, p, Len(cs)),
                       plusDI |-> a, minusDI |-> b]
<1>1. Adx(cs, p) =
        [adx |-> Wilder(Imbalance(DirectionOf(Rises(cs), cs, p), DirectionOf(Falls(cs), cs, p),
                                  p + 1, Len(cs)), 2 * p, p, Len(cs)),
         plusDI |-> DirectionOf(Rises(cs), cs, p), minusDI |-> DirectionOf(Falls(cs), cs, p)]
  BY DEF Adx, DirectionOf, ShareOf, Imbalance, Rises, Falls, Ranges
<1> QED
  BY <1>1

\* The movements and ranges of the same bars.
LEMMA MovementsAlike ==
  ASSUME NEW cs, NEW es, NEW k, TwinBars(cs, es, k)
  PROVE  /\ AllNat(Rises(cs), 2 .. Len(cs)) /\ AllNat(Falls(cs), 2 .. Len(cs))
         /\ AllNat(Ranges(cs), 2 .. Len(cs))
         /\ AllNat(Rises(es), 2 .. Len(es)) /\ AllNat(Falls(es), 2 .. Len(es))
         /\ AllNat(Ranges(es), 2 .. Len(es))
         /\ AlikeOn(Rises(cs), Rises(es), 2 .. k) /\ AlikeOn(Falls(cs), Falls(es), 2 .. k)
         /\ AlikeOn(Ranges(cs), Ranges(es), 2 .. k)
<1>1. /\ cs \in Seq(Bars) /\ es \in Seq(Bars) /\ k \in Nat /\ 2 <= k /\ k <= Len(cs)
      /\ k <= Len(es)
  BY DEF TwinBars
<1>2. ASSUME NEW bs \in Seq(Bars), NEW i \in 2 .. Len(bs)
      PROVE  /\ Rises(bs)[i] \in Nat /\ Falls(bs)[i] \in Nat /\ Ranges(bs)[i] \in Nat
  <2>1. i \in 1 .. Len(bs) /\ i - 1 \in 1 .. Len(bs)
    OBVIOUS
  <2>2. /\ bs[i].high \in Nat /\ bs[i].low \in Nat
    BY <2>1, BarFacts
  <2>3. /\ bs[i - 1].high \in Nat /\ bs[i - 1].low \in Nat
    BY <2>1, BarFacts
  <2>4. PICK u \in Int, d \in Int :
          u = bs[i].high - bs[i - 1].high /\ d = bs[i - 1].low - bs[i].low
    BY <2>2, <2>3
  <2>5. Movement(u, d) \in Nat /\ Movement(d, u) \in Nat
    BY DEF Movement
  <2>6. Rises(bs)[i] = Movement(u, d) /\ Falls(bs)[i] = Movement(d, u)
    BY <2>4 DEF Rises, Falls
  <2>7. Ranges(bs)[i] \in Nat
    BY <2>1, TrueRangeReaches DEF Ranges
  <2> QED BY <2>5, <2>6, <2>7
<1>3. ASSUME NEW i \in 2 .. k
      PROVE  /\ Rises(es)[i] = Rises(cs)[i] /\ Falls(es)[i] = Falls(cs)[i]
             /\ Ranges(es)[i] = Ranges(cs)[i]
  <2>1. i \in 1 .. k /\ i - 1 \in 1 .. k /\ i \in 2 .. Len(cs) /\ i \in 2 .. Len(es)
    BY <1>1
  <2>2. es[i] = cs[i] /\ es[i - 1] = cs[i - 1]
    BY <2>1 DEF TwinBars
  <2>3. TrueRange(es, i) = TrueRange(cs, i)
    BY <2>1, TrueRangeAlike
  <2> QED BY <2>1, <2>2, <2>3 DEF Rises, Falls, Ranges
<1> QED
  BY <1>1, <1>2, <1>3 DEF AllNat, AlikeOn

\* A direction of the same bars.
LEMMA DirectionLines ==
  ASSUME NEW cs, NEW es, NEW k, TwinBars(cs, es, k), NEW p \in Nat \ {0}, NEW x, NEW y,
         AllNat(x, 2 .. Len(cs)), AllNat(y, 2 .. Len(es)), AlikeOn(x, y, 2 .. k)
  PROVE  NatLines(DirectionOf(x, cs, p), DirectionOf(y, es, p), p + 1, Len(cs), Len(es), k)
<1>1. /\ cs \in Seq(Bars) /\ es \in Seq(Bars) /\ k \in Nat /\ 2 <= k /\ k <= Len(cs)
      /\ k <= Len(es)
  BY DEF TwinBars
<1>2. PICK n \in Nat, m \in Nat : n = Len(cs) /\ m = Len(es) /\ k <= n /\ k <= m
  BY <1>1
<1>3. PICK s, t : /\ s = WilderSum(x, p, n) /\ t = WilderSum(y, p, m)
                  /\ NatLines(s, t, p + 1, n, m, k)
  <2>1. k \in Nat /\ AllNat(x, 2 .. n) /\ AllNat(y, 2 .. m)
    BY <1>1, <1>2
  <2> QED BY <1>2, <2>1, WilderSumLines
<1>4. PICK u, v : /\ u = WilderSum(Ranges(cs), p, n) /\ v = WilderSum(Ranges(es), p, m)
                  /\ NatLines(u, v, p + 1, n, m, k)
  <2>1. /\ k \in Nat /\ AllNat(Ranges(cs), 2 .. n) /\ AllNat(Ranges(es), 2 .. m)
        /\ AlikeOn(Ranges(cs), Ranges(es), 2 .. k)
    BY <1>1, <1>2, MovementsAlike
  <2> QED BY <1>2, <2>1, WilderSumLines
<1>5. ASSUME NEW a \in Nat, NEW b \in Nat PROVE (IF b = 0 THEN 0 ELSE (100 * a) \div b) \in Nat
  <2>1. CASE b = 0
    BY <2>1
  <2>2. CASE b # 0
    <3>1. 100 * a \in Nat /\ b \in Nat \ {0}
      BY <2>2
    <3>2. (100 * a) \div b \in Nat
      BY <3>1, QuotientIsNat
    <3> QED BY <2>2, <3>2
  <2> QED BY <2>1, <2>2
<1>6. /\ DirectionOf(x, cs, p) = ShareOf(s, u, p + 1, n)
      /\ DirectionOf(y, es, p) = ShareOf(t, v, p + 1, m)
  BY <1>2, <1>3, <1>4 DEF DirectionOf
<1>7. ShareOf(s, u, p + 1, n) \in [p + 1 .. n -> Nat]
  <2>1. \A i \in p + 1 .. n : s[i] \in Nat /\ u[i] \in Nat
    BY <1>3, <1>4 DEF NatLines
  <2>2. \A i \in p + 1 .. n : (IF u[i] = 0 THEN 0 ELSE (100 * s[i]) \div u[i]) \in Nat
    BY <2>1, <1>5
  <2> QED BY <2>2 DEF ShareOf
<1>8. ShareOf(t, v, p + 1, m) \in [p + 1 .. m -> Nat]
  <2>1. \A i \in p + 1 .. m : t[i] \in Nat /\ v[i] \in Nat
    BY <1>3, <1>4 DEF NatLines
  <2>2. \A i \in p + 1 .. m : (IF v[i] = 0 THEN 0 ELSE (100 * t[i]) \div v[i]) \in Nat
    BY <2>1, <1>5
  <2> QED BY <2>2 DEF ShareOf
<1>9. ASSUME NEW i \in p + 1 .. k
      PROVE  ShareOf(t, v, p + 1, m)[i] = ShareOf(s, u, p + 1, n)[i]
  <2>1. i \in p + 1 .. n /\ i \in p + 1 .. m
    BY <1>1, <1>2
  <2>2. t[i] = s[i] /\ v[i] = u[i]
    BY <1>3, <1>4 DEF NatLines
  <2> QED BY <2>1, <2>2 DEF ShareOf
<1> QED
  BY <1>2, <1>6, <1>7, <1>8, <1>9 DEF NatLines

\* The imbalance of two directions.
LEMMA ImbalanceLines ==
  ASSUME NEW lo \in Int, NEW n \in Int, NEW m \in Int, NEW k \in Int, k <= n, k <= m,
         NEW a, NEW c, NatLines(a, c, lo, n, m, k), NEW b, NEW d, NatLines(b, d, lo, n, m, k)
  PROVE  Lines(Imbalance(a, b, lo, n), Imbalance(c, d, lo, m), lo, n, m, k)
<1>1. ASSUME NEW x \in Nat, NEW y \in Nat
      PROVE  (IF x + y = 0 THEN 0 ELSE (100 * Abs(x - y)) \div (x + y)) \in Int
  <2>1. CASE x + y = 0
    BY <2>1
  <2>2. CASE x + y # 0
    <3>1. Abs(x - y) \in Int
      BY DEF Abs
    <3>2. PICK q \in Int : q = 100 * Abs(x - y)
      BY <3>1
    <3>3. q \div (x + y) \in Int
      BY <2>2
    <3> QED BY <2>2, <3>2, <3>3
  <2> QED BY <2>1, <2>2
<1>2. Imbalance(a, b, lo, n) \in [lo .. n -> Int]
  <2>1. \A i \in lo .. n : a[i] \in Nat /\ b[i] \in Nat
    BY DEF NatLines
  <2>2. \A i \in lo .. n :
          (IF a[i] + b[i] = 0 THEN 0 ELSE (100 * Abs(a[i] - b[i])) \div (a[i] + b[i])) \in Int
    BY <1>1, <2>1
  <2> QED BY <2>2 DEF Imbalance
<1>3. Imbalance(c, d, lo, m) \in [lo .. m -> Int]
  <2>1. \A i \in lo .. m : c[i] \in Nat /\ d[i] \in Nat
    BY DEF NatLines
  <2>2. \A i \in lo .. m :
          (IF c[i] + d[i] = 0 THEN 0 ELSE (100 * Abs(c[i] - d[i])) \div (c[i] + d[i])) \in Int
    BY <1>1, <2>1
  <2> QED BY <2>2 DEF Imbalance
<1>4. ASSUME NEW i \in lo .. k PROVE Imbalance(c, d, lo, m)[i] = Imbalance(a, b, lo, n)[i]
  <2>1. i \in lo .. n /\ i \in lo .. m
    OBVIOUS
  <2>2. c[i] = a[i] /\ d[i] = b[i]
    BY DEF NatLines
  <2> QED BY <2>1, <2>2 DEF Imbalance
<1> QED
  BY <1>2, <1>3, <1>4 DEF Lines

\* Lines of naturals that are the same up to k draw the same.
LEMMA SameNatLine ==
  ASSUME NEW lo \in Int, NEW n \in Int, NEW m \in Int, NEW k \in Int, k <= n, k <= m,
         NEW f, NEW g, NatLines(f, g, lo, n, m, k)
  PROVE  Same(f, g, k)
<1>1. DOMAIN f = lo .. n /\ DOMAIN g = lo .. m /\ \A i \in lo .. k : i >= 1 => g[i] = f[i]
  BY DEF NatLines
<1> QED
  BY <1>1, SameOnInterval

\* The ADX and its directions (adx.js).
LEMMA AdxSame ==
  ASSUME NEW cs, NEW es, NEW k, TwinBars(cs, es, k), NEW p \in Nat \ {0}
  PROVE  SameLines(Adx(cs, p), Adx(es, p), k)
<1>1. /\ cs \in Seq(Bars) /\ es \in Seq(Bars) /\ k \in Nat /\ 2 <= k /\ k <= Len(cs)
      /\ k <= Len(es)
  BY DEF TwinBars
<1>2. PICK n \in Int, m \in Int, lo \in Int, s \in Int :
        n = Len(cs) /\ m = Len(es) /\ k <= n /\ k <= m /\ lo = p + 1 /\ s = 2 * p
  BY <1>1
<1>3. PICK a, c : /\ a = DirectionOf(Rises(cs), cs, p) /\ c = DirectionOf(Rises(es), es, p)
                  /\ NatLines(a, c, lo, n, m, k)
  BY <1>2, MovementsAlike, DirectionLines
<1>4. PICK b, d : /\ b = DirectionOf(Falls(cs), cs, p) /\ d = DirectionOf(Falls(es), es, p)
                  /\ NatLines(b, d, lo, n, m, k)
  BY <1>2, MovementsAlike, DirectionLines
<1>5. PICK x, y : x = Imbalance(a, b, lo, n) /\ y = Imbalance(c, d, lo, m)
  OBVIOUS
<1>6. Lines(x, y, lo, n, m, k)
  <2>1. k \in Int
    BY <1>1
  <2> QED BY <1>2, <1>3, <1>4, <1>5, <2>1, ImbalanceLines
<1>7. PICK u, v : u = Wilder(x, s, p, n) /\ v = Wilder(y, s, p, m)
  OBVIOUS
<1>8. Lines(u, v, s, n, m, k)
  <2>1. Ints(x, lo, n) /\ Ints(y, lo, m) /\ AlikeOn(x, y, lo .. k)
    BY <1>6 DEF Lines, Ints, AlikeOn
  <2>2. k \in Int /\ lo = s - p + 1
    BY <1>1, <1>2
  <2> QED BY <1>2, <1>7, <2>1, <2>2, WilderLines
<1>9. Adx(cs, p) = [adx |-> u, plusDI |-> a, minusDI |-> b]
  BY <1>2, <1>3, <1>4, <1>5, <1>7, AdxParts
<1>10. Adx(es, p) = [adx |-> v, plusDI |-> c, minusDI |-> d]
  BY <1>2, <1>3, <1>4, <1>5, <1>7, AdxParts
<1>11. Same(u, v, k)
  <2>1. k \in Int
    BY <1>1
  <2> QED BY <1>2, <1>8, <2>1, SameLine
<1>12. Same(a, c, k) /\ Same(b, d, k)
  <2>1. k \in Int
    BY <1>1
  <2> QED BY <1>2, <1>3, <1>4, <2>1, SameNatLine
<1> QED
  BY <1>9, <1>10, <1>11, <1>12 DEF SameLines
-----------------------------------------------------------------------------
(* Volumes of the same bars *)

\* What the volume of a bar adds to the balance.
BalanceAfter(o, cs, i) ==
  IF cs[i].close > cs[i - 1].close THEN o + cs[i].volume
  ELSE IF cs[i].close < cs[i - 1].close THEN o - cs[i].volume ELSE o

\* The balance of volume is computed as it is defined (obv.js).
LEMMA ObvSteps ==
  ASSUME NEW cs \in Seq(Bars), NEW n \in Nat, n = Len(cs), n >= 1, NEW w, w = Obv(cs)
  PROVE  /\ w = [i \in 1 .. n |-> w[i]]
         /\ \A i \in 1 .. n : w[i] = IF i = 1 THEN cs[1].volume ELSE BalanceAfter(w[i - 1], cs, i)
<1>1. \A i \in 1 .. n : cs[i].close \in Nat /\ cs[i].volume \in Nat
  BY BarFacts
<1>2. PICK base \in Int : base = cs[1].volume
  <2>1. 1 \in 1 .. n
    OBVIOUS
  <2>2. cs[1].volume \in Nat
    BY ONLY <1>1, <2>1
  <2> QED BY <2>2
<1> DEFINE h == [a \in Int \X (1 .. n) |-> BalanceAfter(a[1], cs, a[2])]
<1>3. \A v \in Int, i \in 1 .. n : h[<<v, i>>] = BalanceAfter(v, cs, i)
  OBVIOUS
<1> HIDE DEF h
<1>4. StaysIn(Int, base, h, 1, n)
  <2> SUFFICES ASSUME NEW v \in Int, NEW i \in 1 .. n PROVE BalanceAfter(v, cs, i) \in Int
    BY <1>3 DEF StaysIn
  <2>1. v + cs[i].volume \in Int /\ v - cs[i].volume \in Int
    BY <1>1
  <2> QED BY <2>1 DEF BalanceAfter
<1>5. PICK one \in Int : one = 1
  OBVIOUS
<1>6. PICK g \in [one .. n -> Int] : Follows(g, one, n, base, h)
  BY <1>4, <1>5, IntervalRecursion
<1>7. g = [i \in 1 .. Len(cs) |->
            CASE i = 1 -> cs[1].volume
              [] i > 1 /\ cs[i].close > cs[i - 1].close -> g[i - 1] + cs[i].volume
              [] i > 1 /\ cs[i].close < cs[i - 1].close -> g[i - 1] - cs[i].volume
              [] OTHER -> g[i - 1]]
  <2>1. ASSUME NEW i \in 1 .. n
        PROVE  g[i] = CASE i = 1 -> cs[1].volume
              [] i > 1 /\ cs[i].close > cs[i - 1].close -> g[i - 1] + cs[i].volume
              [] i > 1 /\ cs[i].close < cs[i - 1].close -> g[i - 1] - cs[i].volume
              [] OTHER -> g[i - 1]
    <3>1. CASE i = 1
      <4>1. g[i] = base
        BY <1>5, <1>6, <3>1 DEF Follows
      <4> QED BY <1>2, <3>1, <4>1
    <3>2. CASE i # 1
      <4>1. i - 1 \in 1 .. n /\ i > 1
        BY <3>2
      <4>2. g[i - 1] \in Int
        BY <1>5, <1>6, <4>1
      <4>3. g[i] = h[<<g[i - 1], i>>]
        BY <1>5, <1>6, <3>2 DEF Follows
      <4>4. g[i] = BalanceAfter(g[i - 1], cs, i)
        BY <1>3, <4>2, <4>3
      <4>5. cs[i].close \in Nat /\ cs[i - 1].close \in Nat
        BY <1>1, <4>1
      <4> QED BY <3>2, <4>1, <4>4, <4>5 DEF BalanceAfter
    <3> QED BY <3>1, <3>2
  <2>2. g = [i \in 1 .. n |-> g[i]]
    BY <1>5, <1>6
  <2> QED BY <2>1, <2>2
<1> DEFINE F(o) == [i \in 1 .. Len(cs) |->
            CASE i = 1 -> cs[1].volume
              [] i > 1 /\ cs[i].close > cs[i - 1].close -> o[i - 1] + cs[i].volume
              [] i > 1 /\ cs[i].close < cs[i - 1].close -> o[i - 1] - cs[i].volume
              [] OTHER -> o[i - 1]]
<1>10. w = CHOOSE o : o = F(o)
  BY Zenon DEF Obv
<1>11. g = F(g)
  BY <1>7, Zenon
<1> HIDE DEF F
<1>12. w = F(w)
  BY <1>10, <1>11
<1>8. w = [i \in 1 .. Len(cs) |->
            CASE i = 1 -> cs[1].volume
              [] i > 1 /\ cs[i].close > cs[i - 1].close -> w[i - 1] + cs[i].volume
              [] i > 1 /\ cs[i].close < cs[i - 1].close -> w[i - 1] - cs[i].volume
              [] OTHER -> w[i - 1]]
  BY <1>12, Zenon DEF F
<1>9. ASSUME NEW i \in 1 .. n
      PROVE  w[i] = IF i = 1 THEN cs[1].volume ELSE BalanceAfter(w[i - 1], cs, i)
  <2>1. w[i] = CASE i = 1 -> cs[1].volume
              [] i > 1 /\ cs[i].close > cs[i - 1].close -> w[i - 1] + cs[i].volume
              [] i > 1 /\ cs[i].close < cs[i - 1].close -> w[i - 1] - cs[i].volume
              [] OTHER -> w[i - 1]
    BY <1>8
  <2>2. CASE i = 1
    BY <2>1, <2>2
  <2>3. CASE i # 1
    <3>1. i - 1 \in 1 .. n /\ i > 1
      BY <2>3
    <3>2. cs[i].close \in Nat /\ cs[i - 1].close \in Nat
      BY <1>1, <3>1
    <3> QED BY <2>1, <2>3, <3>1, <3>2 DEF BalanceAfter
  <2> QED BY <2>2, <2>3
<1> QED
  BY <1>8, <1>9

\* The balance of volume.
LEMMA ObvSame ==
  ASSUME NEW cs, NEW es, NEW k, TwinBars(cs, es, k)
  PROVE  Same(Obv(cs), Obv(es), k)
<1>1. /\ cs \in Seq(Bars) /\ es \in Seq(Bars) /\ k \in Nat /\ 2 <= k /\ k <= Len(cs)
      /\ k <= Len(es)
  BY DEF TwinBars
<1>2. PICK n \in Nat, m \in Nat : n = Len(cs) /\ m = Len(es) /\ k <= n /\ k <= m /\ 1 <= n /\ 1 <= m
  BY <1>1
<1>3. PICK f : /\ f = Obv(cs) /\ f = [i \in 1 .. n |-> f[i]]
               /\ \A i \in 1 .. n :
                    f[i] = IF i = 1 THEN cs[1].volume ELSE BalanceAfter(f[i - 1], cs, i)
  BY <1>1, <1>2, ObvSteps
<1>4. PICK g : /\ g = Obv(es) /\ g = [i \in 1 .. m |-> g[i]]
               /\ \A i \in 1 .. m :
                    g[i] = IF i = 1 THEN es[1].volume ELSE BalanceAfter(g[i - 1], es, i)
  BY <1>1, <1>2, ObvSteps
<1>5. PICK one \in Int : one = 1
  OBVIOUS
<1>6. \A i \in 1 .. k : i \in 1 .. n /\ i \in 1 .. m /\ es[i] = cs[i]
  BY <1>1, <1>2 DEF TwinBars
<1>7. g[1] = f[1]
  <2>1. 1 \in 1 .. n /\ 1 \in 1 .. m /\ es[1] = cs[1]
    <3>1. 1 \in 1 .. k
      BY <1>1
    <3> QED BY <1>6, <3>1
  <2>2. f[1] = cs[1].volume
    BY <1>3, <2>1
  <2>3. g[1] = es[1].volume
    BY <1>4, <2>1
  <2> QED BY <2>1, <2>2, <2>3
<1>8. ASSUME NEW i \in 1 .. k, i # 1 /\ g[i - 1] = f[i - 1] PROVE g[i] = f[i]
  <2>1. i - 1 \in 1 .. k
    BY <1>1, <1>8
  <2>2. es[i] = cs[i] /\ es[i - 1] = cs[i - 1]
    BY <1>6, <2>1
  <2>3. BalanceAfter(g[i - 1], es, i) = BalanceAfter(f[i - 1], cs, i)
    BY <1>8, <2>2 DEF BalanceAfter
  <2>4. f[i] = BalanceAfter(f[i - 1], cs, i)
    BY <1>3, <1>6, <1>8
  <2>5. g[i] = BalanceAfter(g[i - 1], es, i)
    BY <1>4, <1>6, <1>8
  <2> QED BY <2>3, <2>4, <2>5
<1>9. \A i \in one .. k : g[i] = f[i]
  <2>1. StepAlike(f, g, one, k)
    BY <1>5, <1>7, <1>8 DEF StepAlike
  <2>2. k \in Int
    BY <1>1
  <2> QED BY ONLY <2>1, <2>2, one \in Int, StepsAlike
<1>10. DOMAIN f = one .. Len(cs) /\ DOMAIN g = one .. Len(es)
  BY <1>2, <1>3, <1>4, <1>5
<1>11. Same(f, g, k)
  BY <1>5, <1>9, <1>10, SameFrom
<1> QED
  BY <1>3, <1>4, <1>11

\* The money flow index: rising and falling candles of the window (mfi.js).
LEMMA MfiSame ==
  ASSUME NEW cs, NEW es, NEW k, TwinBars(cs, es, k), NEW p \in Nat \ {0}
  PROVE  Same(Mfi(cs, p), Mfi(es, p), k)
<1>1. /\ cs \in Seq(Bars) /\ es \in Seq(Bars) /\ k \in Nat /\ 2 <= k /\ k <= Len(cs)
      /\ k <= Len(es)
  BY DEF TwinBars
<1> DEFINE Up(c, W) == {j \in W : Typical(c)[j] > Typical(c)[j - 1]}
           Ratio(pos, neg) == IF neg = 0 THEN 100 - 100 \div 101 ELSE (100 * pos) \div (pos + neg)
           Flow(c, W) == Ratio(SumOver(Money(c), Up(c, W)), SumOver(Money(c), W \ Up(c, W)))
<1>2. Mfi(cs, p) = [i \in p + 1 .. Len(cs) |-> Flow(cs, Window(i, p))]
  BY DEF Mfi
<1>3. Mfi(es, p) = [i \in p + 1 .. Len(es) |-> Flow(es, Window(i, p))]
  BY DEF Mfi
<1>4. PICK lo \in Int : lo = p + 1
  OBVIOUS
<1>5. ASSUME NEW i \in lo .. k, i >= 1 PROVE Mfi(es, p)[i] = Mfi(cs, p)[i]
  <2>1. PICK W : W = Window(i, p)
    OBVIOUS
  <2>2. \A j \in W : j \in 1 .. k /\ j - 1 \in 1 .. k
    BY <1>1, <1>4, <2>1 DEF Window
  <2>3. \A j \in 1 .. k : Typical(es)[j] = Typical(cs)[j] /\ Money(es)[j] = Money(cs)[j]
    BY SeriesTwins DEF Twins
  <2>4. Up(es, W) = Up(cs, W) /\ Up(cs, W) \in SUBSET W
    BY <2>2, <2>3
  <2>5. IsFiniteSet(W)
    BY <1>4, <2>1, WindowIsFinite
  <2>6. ASSUME NEW S \in SUBSET W PROVE SumOver(Money(es), S) = SumOver(Money(cs), S)
    <3>1. IsFiniteSet(S)
      BY <2>5, FS_Subset
    <3>2. AlikeOn(Money(cs), Money(es), S)
      BY <2>2, <2>3 DEF AlikeOn
    <3> QED BY <3>1, <3>2, SumsAlike
  <2> HIDE DEF Up, Ratio
  <2>7. W \ Up(cs, W) \in SUBSET W
    OBVIOUS
  <2>8. Flow(es, W) = Flow(cs, W)
    BY <2>4, <2>6, <2>7
  <2>9. i \in p + 1 .. Len(cs) /\ i \in p + 1 .. Len(es)
    BY <1>1, <1>4
  <2> QED BY <1>2, <1>3, <2>1, <2>8, <2>9
<1> HIDE DEF Flow
<1>6. DOMAIN Mfi(cs, p) = lo .. Len(cs) /\ DOMAIN Mfi(es, p) = lo .. Len(es)
  BY <1>2, <1>3, <1>4
<1> QED
  BY <1>5, <1>6, SameFrom

\* The money flow of Chaikin (cmf.js).
LEMMA CmfSame ==
  ASSUME NEW cs, NEW es, NEW k, TwinBars(cs, es, k), NEW p \in Nat \ {0}
  PROVE  Same(Cmf(cs, p), Cmf(es, p), k)
<1>1. /\ cs \in Seq(Bars) /\ es \in Seq(Bars) /\ k \in Nat /\ 2 <= k /\ k <= Len(cs)
      /\ k <= Len(es)
  BY DEF TwinBars
<1> DEFINE clv(c) == IF c.high = c.low THEN 0
                     ELSE (100 * ((c.close - c.low) - (c.high - c.close))) \div (c.high - c.low)
           Ratio(flow, volume) == IF volume = 0 THEN 0 ELSE flow \div volume
<1>2. PICK x, y : /\ x = [i \in 1 .. Len(cs) |-> clv(cs[i]) * cs[i].volume]
                  /\ y = [i \in 1 .. Len(es) |-> clv(es[i]) * es[i].volume]
  OBVIOUS
<1>3. Cmf(cs, p) = [i \in p .. Len(cs) |->
        Ratio(SumOver(x, Window(i, p)), SumOver(Volumes(cs), Window(i, p)))]
  BY <1>2 DEF Cmf
<1>4. Cmf(es, p) = [i \in p .. Len(es) |->
        Ratio(SumOver(y, Window(i, p)), SumOver(Volumes(es), Window(i, p)))]
  BY <1>2 DEF Cmf
<1> HIDE DEF clv, Ratio
<1>5. ASSUME NEW i \in p .. k, i >= 1 PROVE Cmf(es, p)[i] = Cmf(cs, p)[i]
  <2>1. PICK W : W = Window(i, p)
    OBVIOUS
  <2>2. \A j \in W : j \in 1 .. k
    BY <1>1, <2>1 DEF Window
  <2>3. \A j \in 1 .. k : j \in 1 .. Len(cs) /\ j \in 1 .. Len(es) /\ es[j] = cs[j]
    BY <1>1 DEF TwinBars
  <2>4. \A j \in 1 .. k : y[j] = x[j]
    BY <1>2, <2>3
  <2>5. \A j \in 1 .. k : Volumes(es)[j] = Volumes(cs)[j]
    BY SeriesTwins DEF Twins
  <2>6. IsFiniteSet(W) /\ AlikeOn(x, y, W) /\ AlikeOn(Volumes(cs), Volumes(es), W)
    <3>1. IsFiniteSet(W)
      BY <2>1, WindowIsFinite
    <3>2. AlikeOn(x, y, W)
      BY <2>2, <2>4 DEF AlikeOn
    <3>3. AlikeOn(Volumes(cs), Volumes(es), W)
      BY <2>2, <2>5 DEF AlikeOn
    <3> QED BY <3>1, <3>2, <3>3
  <2>7. SumOver(y, W) = SumOver(x, W) /\ SumOver(Volumes(es), W) = SumOver(Volumes(cs), W)
    BY <2>6, SumsAlike
  <2>8. i \in p .. Len(cs) /\ i \in p .. Len(es)
    BY <1>1
  <2> QED BY <1>3, <1>4, <2>1, <2>7, <2>8
<1>6. DOMAIN Cmf(cs, p) = p .. Len(cs) /\ DOMAIN Cmf(es, p) = p .. Len(es)
  BY <1>3, <1>4
<1> QED
  BY <1>5, <1>6, SameFrom

\* The average price of the volume so far (vwap.js).
LEMMA VwapSame ==
  ASSUME NEW cs, NEW es, NEW k, TwinBars(cs, es, k)
  PROVE  Same(Vwap(cs), Vwap(es), k)
<1>1. /\ cs \in Seq(Bars) /\ es \in Seq(Bars) /\ k \in Nat /\ 2 <= k /\ k <= Len(cs)
      /\ k <= Len(es)
  BY DEF TwinBars
<1> DEFINE Ratio(typical, money, volume) == IF volume = 0 THEN typical ELSE money \div volume
<1>2. Vwap(cs) = [i \in 1 .. Len(cs) |->
        Ratio(Typical(cs)[i], SumOver(Money(cs), 1 .. i), SumOver(Volumes(cs), 1 .. i))]
  BY DEF Vwap
<1>3. Vwap(es) = [i \in 1 .. Len(es) |->
        Ratio(Typical(es)[i], SumOver(Money(es), 1 .. i), SumOver(Volumes(es), 1 .. i))]
  BY DEF Vwap
<1> HIDE DEF Ratio
<1>4. PICK one \in Int : one = 1
  OBVIOUS
<1>5. ASSUME NEW i \in one .. k, i >= 1 PROVE Vwap(es)[i] = Vwap(cs)[i]
  <2>1. PICK W : W = 1 .. i
    OBVIOUS
  <2>2. i \in 1 .. k /\ IsFiniteSet(W) /\ \A j \in W : j \in 1 .. k
    <3>1. i \in Int
      BY <1>4
    <3> QED BY <1>1, <1>4, <2>1, <3>1, FS_Interval
  <2>3. \A j \in 1 .. k : /\ Typical(es)[j] = Typical(cs)[j] /\ Volumes(es)[j] = Volumes(cs)[j]
                          /\ Money(es)[j] = Money(cs)[j]
    BY SeriesTwins DEF Twins
  <2>4. AlikeOn(Money(cs), Money(es), W) /\ AlikeOn(Volumes(cs), Volumes(es), W)
    BY <2>2, <2>3 DEF AlikeOn
  <2>5. SumOver(Money(es), W) = SumOver(Money(cs), W)
        /\ SumOver(Volumes(es), W) = SumOver(Volumes(cs), W)
    BY <2>2, <2>4, SumsAlike
  <2>6. i \in 1 .. Len(cs) /\ i \in 1 .. Len(es)
    BY <1>1, <2>2
  <2> QED BY <1>2, <1>3, <2>1, <2>2, <2>3, <2>5, <2>6
<1>6. DOMAIN Vwap(cs) = one .. Len(cs) /\ DOMAIN Vwap(es) = one .. Len(es)
  BY <1>2, <1>3, <1>4
<1> QED
  BY <1>5, <1>6, SameFrom
-----------------------------------------------------------------------------
(* Trends of the same bars *)

\* The bands and the side of the trend at its first bar, and at one after the state s.
TrendFrom(cs, range, multiplier, i) ==
  LET up == (cs[i].high + cs[i].low) \div 2 + multiplier * range[i]
      down == (cs[i].high + cs[i].low) \div 2 - multiplier * range[i]
  IN [upper |-> up, lower |-> down, long |-> cs[i].close >= down]
TrendAfter(s, cs, range, multiplier, i) ==
  LET up == (cs[i].high + cs[i].low) \div 2 + multiplier * range[i]
      down == (cs[i].high + cs[i].low) \div 2 - multiplier * range[i]
      upper == Min({up, s.upper})
      lower == Max({down, s.lower})
  IN [upper |-> upper, lower |-> lower,
      long |-> IF s.long THEN cs[i].close >= lower ELSE cs[i].close > upper]
Trends == [upper : Int, lower : Int, long : BOOLEAN]

\* What is drawn of the states.
TrendLine(st, D) ==
  [i \in D |-> [long |-> st[i].long, value |-> IF st[i].long THEN st[i].lower ELSE st[i].upper]]

\* The states of the trend.
AreTrends(st, cs, range, multiplier, p, n) ==
  \A i \in p .. n : st[i] = IF i = p THEN TrendFrom(cs, range, multiplier, i)
                            ELSE TrendAfter(st[i - 1], cs, range, multiplier, i)

\* They stay integers.
LEMMA TrendInts ==
  ASSUME NEW cs \in Seq(Bars), NEW i \in 1 .. Len(cs), NEW range, range[i] \in Int,
         NEW multiplier \in Int
  PROVE  /\ TrendFrom(cs, range, multiplier, i) \in Trends
         /\ \A s \in Trends : TrendAfter(s, cs, range, multiplier, i) \in Trends
<1>1. PICK up \in Int, down \in Int :
        /\ up = (cs[i].high + cs[i].low) \div 2 + multiplier * range[i]
        /\ down = (cs[i].high + cs[i].low) \div 2 - multiplier * range[i]
  <2>1. cs[i].high \in Nat /\ cs[i].low \in Nat
    BY BarFacts
  <2>2. PICK a \in Int : a = (cs[i].high + cs[i].low) \div 2
    BY <2>1
  <2>3. PICK b \in Int : b = multiplier * range[i]
    OBVIOUS
  <2> QED BY <2>2, <2>3
<1>2. TrendFrom(cs, range, multiplier, i) \in Trends
  <2>1. (cs[i].close >= down) \in BOOLEAN
    OBVIOUS
  <2> QED BY <1>1, <2>1 DEF TrendFrom, Trends
<1>3. ASSUME NEW s \in Trends PROVE TrendAfter(s, cs, range, multiplier, i) \in Trends
  <2>1. s.upper \in Int /\ s.lower \in Int
    BY DEF Trends
  <2>2. PICK upper \in Int, lower \in Int :
          upper = Min({up, s.upper}) /\ lower = Max({down, s.lower})
    <3>1. Min({up, s.upper}) \in {up, s.upper}
      BY <2>1, MinOfTwo
    <3>2. Max({down, s.lower}) \in {down, s.lower}
      BY <2>1, MaxOfTwo
    <3> QED BY <2>1, <3>1, <3>2
  <2>3. (IF s.long THEN cs[i].close >= lower ELSE cs[i].close > upper) \in BOOLEAN
    <3> DEFINE up2 == cs[i].close >= lower  down2 == cs[i].close > upper
    <3>1. up2 \in BOOLEAN /\ down2 \in BOOLEAN
      OBVIOUS
    <3> HIDE DEF up2, down2
    <3>2. (IF s.long THEN up2 ELSE down2) \in BOOLEAN
      BY ONLY <3>1
    <3> QED BY <3>2 DEF up2, down2
  <2> QED BY <1>1, <2>2, <2>3 DEF TrendAfter, Trends
<1> QED
  BY <1>2, <1>3

\* The trend is computed as it is defined (supertrend.js).
LEMMA SupertrendSteps ==
  ASSUME NEW cs \in Seq(Bars), NEW p \in Nat \ {0}, NEW multiplier \in Int, NEW n \in Int,
         n = Len(cs), NEW range, range = Atr(cs, p), range \in [p .. n -> Int]
  PROVE  \E st : /\ AreTrends(st, cs, range, multiplier, p, n)
                 /\ Supertrend(cs, p, multiplier) = TrendLine(st, p .. n)
<1>1. ASSUME NEW i \in p .. n
      PROVE  /\ TrendFrom(cs, range, multiplier, i) \in Trends
             /\ \A s \in Trends : TrendAfter(s, cs, range, multiplier, i) \in Trends
  <2>1. i \in 1 .. Len(cs) /\ range[i] \in Int
    OBVIOUS
  <2> QED BY <2>1, TrendInts
<1>2. PICK base \in Trends : p <= n => base = TrendFrom(cs, range, multiplier, p)
  <2>1. CASE p <= n
    <3>1. p \in p .. n
      BY <2>1
    <3> QED BY <1>1, <3>1
  <2>2. CASE ~(p <= n)
    <3>1. [upper |-> 0, lower |-> 0, long |-> TRUE] \in Trends
      BY DEF Trends
    <3> QED BY <2>2, <3>1
  <2> QED BY <2>1, <2>2
<1> DEFINE h == [a \in Trends \X (p .. n) |-> TrendAfter(a[1], cs, range, multiplier, a[2])]
<1>3. \A s \in Trends, i \in p .. n : h[<<s, i>>] = TrendAfter(s, cs, range, multiplier, i)
  OBVIOUS
<1> HIDE DEF h
<1>4. StaysIn(Trends, base, h, p, n)
  BY <1>1, <1>3 DEF StaysIn
<1>5. PICK g \in [p .. n -> Trends] : Follows(g, p, n, base, h)
  <2>1. p \in Int
    OBVIOUS
  <2> QED BY <1>4, <2>1, IntervalRecursion
<1>6. AreTrends(g, cs, range, multiplier, p, n)
  <2> SUFFICES ASSUME NEW i \in p .. n
               PROVE  g[i] = IF i = p THEN TrendFrom(cs, range, multiplier, i)
                             ELSE TrendAfter(g[i - 1], cs, range, multiplier, i)
    BY DEF AreTrends
  <2>1. CASE i = p
    <3>1. g[i] = base
      BY <1>5, <2>1 DEF Follows
    <3>2. p <= n
      BY <2>1
    <3> QED BY <1>2, <2>1, <3>1, <3>2
  <2>2. CASE i # p
    <3>1. i - 1 \in p .. n
      BY <2>2
    <3>2. g[i - 1] \in Trends
      BY <3>1
    <3>3. g[i] = h[<<g[i - 1], i>>]
      BY <1>5, <2>2 DEF Follows
    <3> QED BY <1>3, <2>2, <3>2, <3>3
  <2> QED BY <2>1, <2>2
<1> DEFINE mid(i) == (cs[i].high + cs[i].low) \div 2
           E(r, o, i) ==
             LET up == mid(i) + multiplier * r[i]
                 down == mid(i) - multiplier * r[i]
                 upper == IF i = p THEN up ELSE Min({up, o[i - 1].upper})
                 lower == IF i = p THEN down ELSE Max({down, o[i - 1].lower})
                 long == IF i = p \/ o[i - 1].long THEN cs[i].close >= lower
                         ELSE cs[i].close > upper
             IN [upper |-> upper, lower |-> lower, long |-> long]
           F(r, o) == [i \in DOMAIN r |-> E(r, o, i)]
           st(r) == CHOOSE o : o = F(r, o)
<1>7. Supertrend(cs, p, multiplier) = TrendLine(st(range), DOMAIN range)
  <2>1. Supertrend(cs, p, multiplier) = TrendLine(st(Atr(cs, p)), DOMAIN Atr(cs, p))
    BY DEF Supertrend, TrendLine
  <2> HIDE DEF st
  <2> QED BY <2>1
<1>8. ASSUME NEW o, NEW i
      PROVE  E(range, o, i) = IF i = p THEN TrendFrom(cs, range, multiplier, i)
                       ELSE TrendAfter(o[i - 1], cs, range, multiplier, i)
  <2>1. CASE i = p
    BY <2>1 DEF TrendFrom
  <2>2. CASE i # p
    BY <2>2 DEF TrendAfter
  <2> QED BY <2>1, <2>2
<1> HIDE DEF E
<1>9. g = F(range, g)
  <2>1. \A i \in p .. n : g[i] = E(range, g, i)
    BY <1>6, <1>8 DEF AreTrends
  <2>2. DOMAIN range = p .. n
    OBVIOUS
  <2> QED BY <2>1, <2>2
<1>10. st(range) = F(range, st(range))
  <2> HIDE DEF F
  <2> QED BY <1>9
<1>11. AreTrends(st(range), cs, range, multiplier, p, n)
  <2>1. PICK s : s = st(range) /\ s = F(range, s)
    BY <1>10
  <2>2. \A i \in p .. n : s[i] = E(range, s, i)
    BY <2>1
  <2> QED BY <1>8, <2>1, <2>2 DEF AreTrends
<1> QED
  <2>1. DOMAIN range = p .. n
    OBVIOUS
  <2> QED BY <1>7, <1>11, <2>1

\* The colours of a line that is the same up to k.
LEMMA ColoursSame ==
  ASSUME NEW f, NEW g, NEW k, Same(f, g, k)
  PROVE  SameLines(Colours(f), Colours(g), k)
<1>1. PICK u, v : u = Colours(f) /\ v = Colours(g)
  OBVIOUS
<1>2. /\ u.up = [i \in {j \in DOMAIN f : f[j].long} |-> f[i].value]
      /\ u.down = [i \in {j \in DOMAIN f : ~f[j].long} |-> f[i].value]
      /\ v.up = [i \in {j \in DOMAIN g : g[j].long} |-> g[i].value]
      /\ v.down = [i \in {j \in DOMAIN g : ~g[j].long} |-> g[i].value]
      /\ DOMAIN u = {"up", "down"} /\ DOMAIN v = {"up", "down"}
  BY <1>1 DEF Colours
<1>3. Same(u.up, v.up, k)
  BY <1>2 DEF Same
<1>4. Same(u.down, v.down, k)
  BY <1>2 DEF Same
<1> QED
  BY <1>1, <1>2, <1>3, <1>4 DEF SameLines

\* The trend of the same bars (supertrend.js).
LEMMA SupertrendSame ==
  ASSUME NEW cs, NEW es, NEW k, TwinBars(cs, es, k), NEW p \in Nat \ {0}, NEW multiplier \in Int
  PROVE  SameLines(Colours(Supertrend(cs, p, multiplier)),
                   Colours(Supertrend(es, p, multiplier)), k)
<1>1. /\ cs \in Seq(Bars) /\ es \in Seq(Bars) /\ k \in Nat /\ 2 <= k /\ k <= Len(cs)
      /\ k <= Len(es)
  BY DEF TwinBars
<1>2. PICK n \in Int, m \in Int : n = Len(cs) /\ m = Len(es) /\ k <= n /\ k <= m
  BY <1>1
<1>3. PICK u, v : u = Atr(cs, p) /\ v = Atr(es, p) /\ Lines(u, v, p, n, m, k)
  BY <1>2, AtrLines
<1>4. u \in [p .. n -> Int] /\ v \in [p .. m -> Int]
  BY <1>3 DEF Lines
<1>5. PICK s : /\ AreTrends(s, cs, u, multiplier, p, n)
               /\ Supertrend(cs, p, multiplier) = TrendLine(s, p .. n)
  <2>1. cs \in Seq(Bars) /\ n \in Int /\ n = Len(cs) /\ u = Atr(cs, p) /\ u \in [p .. n -> Int]
    BY <1>1, <1>2, <1>3, <1>4
  <2> QED BY ONLY <2>1, p \in Nat \ {0}, multiplier \in Int, SupertrendSteps
<1>6. PICK r : /\ AreTrends(r, es, v, multiplier, p, m)
               /\ Supertrend(es, p, multiplier) = TrendLine(r, p .. m)
  <2>1. es \in Seq(Bars) /\ m \in Int /\ m = Len(es) /\ v = Atr(es, p) /\ v \in [p .. m -> Int]
    BY <1>1, <1>2, <1>3, <1>4
  <2> QED BY ONLY <2>1, p \in Nat \ {0}, multiplier \in Int, SupertrendSteps
<1>7. ASSUME NEW i \in p .. k
      PROVE  i \in p .. n /\ i \in p .. m /\ es[i] = cs[i] /\ v[i] = u[i]
  <2>1. i \in p .. n /\ i \in p .. m /\ i \in 1 .. k
    BY <1>1, <1>2
  <2> QED BY <1>3, <2>1 DEF Lines, TwinBars
<1>8. ASSUME p <= k PROVE r[p] = s[p]
  <2>1. p \in p .. k
    BY <1>1, <1>8
  <2>2. p \in p .. n /\ p \in p .. m /\ es[p] = cs[p] /\ v[p] = u[p]
    BY <1>7, <2>1
  <2>3. s[p] = TrendFrom(cs, u, multiplier, p) /\ r[p] = TrendFrom(es, v, multiplier, p)
    BY <1>5, <1>6, <2>2 DEF AreTrends
  <2> QED BY <2>2, <2>3 DEF TrendFrom
<1>9. ASSUME NEW i \in p .. k, i # p /\ r[i - 1] = s[i - 1] PROVE r[i] = s[i]
  <2>1. s[i] = TrendAfter(s[i - 1], cs, u, multiplier, i)
    BY <1>5, <1>7, <1>9 DEF AreTrends
  <2>2. r[i] = TrendAfter(s[i - 1], es, v, multiplier, i)
    BY <1>6, <1>7, <1>9 DEF AreTrends
  <2>3. TrendAfter(s[i - 1], es, v, multiplier, i) = TrendAfter(s[i - 1], cs, u, multiplier, i)
    BY <1>7 DEF TrendAfter
  <2> QED BY <2>1, <2>2, <2>3
<1>10. \A i \in p .. k : r[i] = s[i]
  <2>1. StepAlike(s, r, p, k)
    BY <1>8, <1>9 DEF StepAlike
  <2>2. k \in Int /\ p \in Int
    BY <1>1
  <2> QED BY ONLY <2>1, <2>2, StepsAlike
<1>11. PICK f, g : f = TrendLine(s, p .. n) /\ g = TrendLine(r, p .. m)
  OBVIOUS
<1>12. ASSUME NEW i \in p .. k PROVE g[i] = f[i]
  BY <1>7, <1>10, <1>11 DEF TrendLine
<1>13. DOMAIN f = p .. n /\ DOMAIN g = p .. m
  BY <1>11 DEF TrendLine
<1>14. Same(f, g, k)
  <2>1. k \in Int /\ p \in Int
    BY <1>1
  <2> QED BY <1>2, <1>12, <1>13, <2>1, SameOnInterval
<1> QED
  BY <1>5, <1>6, <1>11, <1>14, ColoursSame

\* The states of the parabolic SAR: at the first bar, and after the state s.
Before(i) == {i - 1} \cup (IF i > 2 THEN {i - 2} ELSE {})
SarFrom(cs) ==
  LET longAtFirst == cs[2].close > cs[1].close
  IN [long |-> longAtFirst, factor |-> 2,
      extreme |-> IF longAtFirst THEN cs[1].high ELSE cs[1].low,
      sar |-> IF longAtFirst THEN cs[1].low ELSE cs[1].high]
SarNow(s, cs, i) ==
  LET moved == s.sar + (s.factor * (s.extreme - s.sar)) \div 100
  IN IF s.long THEN Min({moved, Lowest(cs, Before(i))}) ELSE Max({moved, Highest(cs, Before(i))})
SarTurns(s, cs, i) ==
  IF s.long THEN cs[i].low < SarNow(s, cs, i) ELSE cs[i].high > SarNow(s, cs, i)
SarFar(s, cs, i) == IF s.long THEN cs[i].high > s.extreme ELSE cs[i].low < s.extreme
SarReached(s, cs, i) == IF s.long # SarTurns(s, cs, i) THEN cs[i].high ELSE cs[i].low
SarAfter(s, cs, i) ==
  IF SarTurns(s, cs, i)
  THEN [long |-> ~s.long, factor |-> 2, extreme |-> SarReached(s, cs, i), sar |-> s.extreme]
  ELSE [long |-> s.long, sar |-> SarNow(s, cs, i),
        extreme |-> IF SarFar(s, cs, i) THEN SarReached(s, cs, i) ELSE s.extreme,
        factor |-> IF SarFar(s, cs, i) THEN Min({s.factor + 2, 20}) ELSE s.factor]
Sars == [long : BOOLEAN, factor : Int, extreme : Int, sar : Int]

\* They stay integers.
LEMMA SarInts ==
  ASSUME NEW cs \in Seq(Bars), NEW n \in Nat, n = Len(cs), 2 <= n
  PROVE  /\ SarFrom(cs) \in Sars
         /\ \A i \in 2 .. n, s \in Sars : SarAfter(s, cs, i) \in Sars
<1>1. \A i \in 1 .. n : cs[i].high \in Int /\ cs[i].low \in Int
  BY BarFacts
<1>2. SarFrom(cs) \in Sars
  <2>1. 1 \in 1 .. n
    OBVIOUS
  <2>2. cs[1].high \in Int /\ cs[1].low \in Int
    BY ONLY <1>1, <2>1
  <2> DEFINE up == cs[2].close > cs[1].close
  <2>3. up \in BOOLEAN
    OBVIOUS
  <2>4. SarFrom(cs) = [long |-> up, factor |-> 2, extreme |-> IF up THEN cs[1].high ELSE cs[1].low,
                       sar |-> IF up THEN cs[1].low ELSE cs[1].high]
    BY DEF SarFrom
  <2> HIDE DEF up
  <2> QED BY <2>2, <2>3, <2>4 DEF Sars
<1>3. ASSUME NEW i \in 2 .. n, NEW s \in Sars PROVE SarAfter(s, cs, i) \in Sars
  <2>1. s.factor \in Int /\ s.extreme \in Int /\ s.sar \in Int /\ s.long \in BOOLEAN
    BY DEF Sars
  <2>2. Before(i) \in SUBSET (1 .. n) /\ Before(i) # {}
    <3>1. i - 1 \in 1 .. n /\ (i > 2 => i - 2 \in 1 .. n)
      OBVIOUS
    <3> QED BY <3>1 DEF Before
  <2>3. Highest(cs, Before(i)) \in Int /\ Lowest(cs, Before(i)) \in Int
    <3>1. Highest(cs, Before(i)) \in Nat /\ Lowest(cs, Before(i)) \in Nat
      BY <2>2, WindowSpan
    <3> QED BY <3>1
  <2>4. SarNow(s, cs, i) \in Int
    <3>1. PICK moved \in Int : moved = s.sar + (s.factor * (s.extreme - s.sar)) \div 100
      <4>1. PICK a \in Int : a = s.factor * (s.extreme - s.sar)
        BY <2>1
      <4>2. a \div 100 \in Int
        OBVIOUS
      <4> QED BY <2>1, <4>1, <4>2
    <3>2. PICK x \in Int, y \in Int : x = Lowest(cs, Before(i)) /\ y = Highest(cs, Before(i))
      BY <2>3
    <3>3. Min({moved, x}) \in {moved, x} /\ Max({moved, y}) \in {moved, y}
      BY MinOfTwo, MaxOfTwo
    <3> QED BY <3>1, <3>2, <3>3 DEF SarNow
  <2>5. SarReached(s, cs, i) \in Int
    BY <1>1 DEF SarReached
  <2>6. Min({s.factor + 2, 20}) \in Int
    <3>1. PICK a \in Int, b \in Int : a = s.factor + 2 /\ b = 20
      BY <2>1
    <3>2. Min({a, b}) \in {a, b}
      BY MinOfTwo
    <3> QED BY <3>1, <3>2
  <2>7. (~s.long) \in BOOLEAN
    OBVIOUS
  <2>8. CASE SarTurns(s, cs, i)
    BY <2>1, <2>5, <2>7, <2>8 DEF SarAfter, Sars
  <2>9. CASE ~SarTurns(s, cs, i)
    BY <2>1, <2>4, <2>5, <2>6, <2>9 DEF SarAfter, Sars
  <2> QED BY <2>8, <2>9
<1> QED
  BY <1>2, <1>3

\* The parabolic SAR is computed as it is defined (parabolicSar.js).
SarLine(st, n) == [i \in 1 .. n |-> [value |-> st[i].sar, long |-> i > 1 /\ st[i].long]]
AreSars(st, cs, n) ==
  \A i \in 1 .. n : st[i] = IF i = 1 THEN SarFrom(cs) ELSE SarAfter(st[i - 1], cs, i)

\* There are such states, and the line is drawn of them.
LEMMA PsarSteps ==
  ASSUME NEW cs \in Seq(Bars), NEW n \in Nat, n = Len(cs), 2 <= n
  PROVE  \E st : AreSars(st, cs, n) /\ Psar(cs) = SarLine(st, n)
<1>1. PICK base \in Sars : base = SarFrom(cs)
  BY SarInts
<1> DEFINE h == [a \in Sars \X (1 .. n) |-> IF a[2] = 1 THEN base ELSE SarAfter(a[1], cs, a[2])]
<1>2. \A s \in Sars, i \in 1 .. n : h[<<s, i>>] = IF i = 1 THEN base ELSE SarAfter(s, cs, i)
  OBVIOUS
<1> HIDE DEF h
<1>3. PICK one \in Int : one = 1
  OBVIOUS
<1>4. StaysIn(Sars, base, h, one, n)
  <2> SUFFICES ASSUME NEW s \in Sars, NEW i \in 1 .. n PROVE h[<<s, i>>] \in Sars
    BY <1>3 DEF StaysIn
  <2>1. CASE i = 1
    BY <1>2, <2>1
  <2>2. CASE i # 1
    <3>1. i \in 2 .. n
      BY <2>2
    <3>2. SarAfter(s, cs, i) \in Sars
      BY <3>1, SarInts
    <3> QED BY <1>2, <2>2, <3>2
  <2> QED BY <2>1, <2>2
<1>5. PICK g \in [one .. n -> Sars] : Follows(g, one, n, base, h)
  BY <1>4, IntervalRecursion
<1>6. AreSars(g, cs, n)
  <2> SUFFICES ASSUME NEW i \in 1 .. n
               PROVE  g[i] = IF i = 1 THEN SarFrom(cs) ELSE SarAfter(g[i - 1], cs, i)
    BY DEF AreSars
  <2>1. CASE i = 1
    <3>1. g[i] = base
      BY <1>3, <1>5, <2>1 DEF Follows
    <3> QED BY <1>1, <2>1, <3>1
  <2>2. CASE i # 1
    <3>1. i - 1 \in one .. n
      BY <1>3, <2>2
    <3>2. g[i - 1] \in Sars
      BY <1>5, <3>1
    <3>3. g[i] = h[<<g[i - 1], i>>]
      BY <1>3, <1>5, <2>2 DEF Follows
    <3> QED BY <1>2, <2>2, <3>2, <3>3
  <2> QED BY <2>1, <2>2
<1> DEFINE longAtFirst == cs[2].close > cs[1].close
           before(i) == {i - 1} \cup (IF i > 2 THEN {i - 2} ELSE {})
           E(o, i) ==
        IF i = 1
        THEN [long |-> longAtFirst, factor |-> 2,
              extreme |-> IF longAtFirst THEN cs[1].high ELSE cs[1].low,
              sar |-> IF longAtFirst THEN cs[1].low ELSE cs[1].high]
        ELSE LET s == o[i - 1]
                 moved == s.sar + (s.factor * (s.extreme - s.sar)) \div 100
                 sar == IF s.long THEN Min({moved, Lowest(cs, before(i))})
                        ELSE Max({moved, Highest(cs, before(i))})
                 turns == IF s.long THEN cs[i].low < sar ELSE cs[i].high > sar
                 far == IF s.long THEN cs[i].high > s.extreme ELSE cs[i].low < s.extreme
                 reached == IF s.long # turns THEN cs[i].high ELSE cs[i].low
             IN IF turns
                THEN [long |-> ~s.long, factor |-> 2, extreme |-> reached, sar |-> s.extreme]
                ELSE [long |-> s.long, sar |-> sar,
                      extreme |-> IF far THEN reached ELSE s.extreme,
                      factor |-> IF far THEN Min({s.factor + 2, 20}) ELSE s.factor]
           F(o) == [i \in 1 .. Len(cs) |-> E(o, i)]
           st == CHOOSE o : o = F(o)
<1>7. Psar(cs) = SarLine(st, Len(cs))
  <2>1. Psar(cs) = IF Len(cs) < 2 THEN << >> ELSE SarLine(st, Len(cs))
    BY DEF Psar, SarLine
  <2>2. ~(Len(cs) < 2)
    OBVIOUS
  <2> HIDE DEF st
  <2> QED BY <2>1, <2>2
<1>8. ASSUME NEW o, NEW i
      PROVE  E(o, i) = IF i = 1 THEN SarFrom(cs) ELSE SarAfter(o[i - 1], cs, i)
  BY DEF SarFrom, SarAfter, SarNow, SarTurns, SarFar, SarReached, Before
<1> HIDE DEF E
<1>9. g = F(g)
  <2>1. \A i \in 1 .. n : g[i] = E(g, i)
    BY <1>6, <1>8 DEF AreSars
  <2> QED BY <1>3, <2>1
<1>10. st = F(st)
  <2> HIDE DEF F
  <2> QED BY <1>9
<1>11. AreSars(st, cs, n)
  <2>1. PICK s : s = st /\ s = F(s)
    BY <1>10
  <2>2. \A i \in 1 .. n : s[i] = E(s, i)
    BY <2>1
  <2> QED BY <1>8, <2>1, <2>2 DEF AreSars
<1> QED
  BY <1>7, <1>11

\* The SAR of the same bars.
LEMMA PsarSame ==
  ASSUME NEW cs, NEW es, NEW k, TwinBars(cs, es, k)
  PROVE  SameLines(Colours(Psar(cs)), Colours(Psar(es)), k)
<1>1. /\ cs \in Seq(Bars) /\ es \in Seq(Bars) /\ k \in Nat /\ 2 <= k /\ k <= Len(cs)
      /\ k <= Len(es)
  BY DEF TwinBars
<1>2. PICK n \in Nat, m \in Nat : n = Len(cs) /\ m = Len(es) /\ k <= n /\ k <= m /\ 2 <= n /\ 2 <= m
  BY <1>1
<1>3. PICK s : AreSars(s, cs, n) /\ Psar(cs) = SarLine(s, n)
  BY <1>1, <1>2, PsarSteps
<1>4. PICK r : AreSars(r, es, m) /\ Psar(es) = SarLine(r, m)
  BY <1>1, <1>2, PsarSteps
<1>5. PICK one \in Int : one = 1
  OBVIOUS
<1>6. \A i \in 1 .. k : i \in 1 .. n /\ i \in 1 .. m /\ es[i] = cs[i]
  BY <1>1, <1>2 DEF TwinBars
<1>7. r[1] = s[1]
  <2>1. 1 \in 1 .. k /\ 2 \in 1 .. k
    BY <1>1
  <2>2. 1 \in 1 .. n /\ 1 \in 1 .. m /\ es[1] = cs[1] /\ es[2] = cs[2]
    BY <1>6, <2>1
  <2>3. s[1] = SarFrom(cs)
    BY <1>3, <2>2 DEF AreSars
  <2>4. r[1] = SarFrom(es)
    BY <1>4, <2>2 DEF AreSars
  <2> QED BY <2>2, <2>3, <2>4 DEF SarFrom
<1>8. ASSUME NEW i \in 1 .. k, i # 1 /\ r[i - 1] = s[i - 1] PROVE r[i] = s[i]
  <2>1. s[i] = SarAfter(s[i - 1], cs, i)
    BY <1>3, <1>6, <1>8 DEF AreSars
  <2>2. r[i] = SarAfter(s[i - 1], es, i)
    BY <1>4, <1>6, <1>8 DEF AreSars
  <2>3. \A j \in Before(i) : j \in 1 .. k
    BY <1>1, <1>8 DEF Before
  <2>4. \A j \in Before(i) : es[j] = cs[j]
    BY <1>6, <2>3
  <2>5. /\ Highest(es, Before(i)) = Highest(cs, Before(i))
        /\ Lowest(es, Before(i)) = Lowest(cs, Before(i))
    BY <2>4, ExtremesAlike
  <2>6. es[i] = cs[i]
    BY <1>6
  <2>7. PICK v : v = s[i - 1]
    OBVIOUS
  <2>8. SarNow(v, es, i) = SarNow(v, cs, i)
    BY <2>5 DEF SarNow
  <2>9. SarTurns(v, es, i) = SarTurns(v, cs, i)
    BY <2>6, <2>8 DEF SarTurns
  <2>10. SarFar(v, es, i) = SarFar(v, cs, i) /\ SarReached(v, es, i) = SarReached(v, cs, i)
    BY <2>6, <2>9 DEF SarFar, SarReached
  <2>11. SarAfter(v, es, i) = SarAfter(v, cs, i)
    BY <2>8, <2>9, <2>10 DEF SarAfter
  <2> QED BY <2>1, <2>2, <2>7, <2>11
<1>9. \A i \in one .. k : r[i] = s[i]
  <2>1. StepAlike(s, r, one, k)
    BY <1>5, <1>7, <1>8 DEF StepAlike
  <2>2. k \in Int
    BY <1>1
  <2> QED BY ONLY <2>1, <2>2, one \in Int, StepsAlike
<1>10. PICK f, g : f = SarLine(s, n) /\ g = SarLine(r, m)
  OBVIOUS
<1>11. ASSUME NEW i \in one .. k, i >= 1 PROVE g[i] = f[i]
  BY <1>5, <1>6, <1>9, <1>10 DEF SarLine
<1>12. DOMAIN f = one .. Len(cs) /\ DOMAIN g = one .. Len(es)
  BY <1>2, <1>5, <1>10 DEF SarLine
<1>13. Same(f, g, k)
  BY <1>11, <1>12, SameFrom
<1> QED
  BY <1>3, <1>4, <1>10, <1>13, ColoursSame
-----------------------------------------------------------------------------
(* The lines of the same bars *)

\* A line by itself.
LEMMA LineSame ==
  ASSUME NEW f, NEW g, NEW k, Same(f, g, k)
  PROVE  SameLines(Line(f), Line(g), k)
BY DEF SameLines, Line

\* The lines of two drawings that have the same indicators are the same up to k.
SameDrawing(L, M, k) == DOMAIN L = DOMAIN M /\ \A id \in DOMAIN L : SameLines(L[id], M[id], k)

\* Whatever the bars after k are, each indicator draws the same up to k.
LEMMA AllLinesSame ==
  ASSUME NEW cs, NEW es, NEW k, TwinBars(cs, es, k)
  PROVE  SameDrawing(ComputeIndicatorData(cs), ComputeIndicatorData(es), k)
<1>1. /\ cs \in Seq(Bars) /\ es \in Seq(Bars) /\ k \in Nat /\ 2 <= k /\ k <= Len(cs)
      /\ k <= Len(es)
  BY DEF TwinBars
<1>2. PICK n \in Int, m \in Int : n = Len(cs) /\ m = Len(es) /\ k <= n /\ k <= m
  BY <1>1
<1>3. PICK d, e : d = Closes(cs) /\ e = Closes(es) /\ Twins(d, e, k) /\ Len(d) = n /\ Len(e) = m
  BY <1>2, ClosesTwins
<1>4. PICK p \in Nat \ {0} : p = Span
  BY ChartAssumption
<1>5. PICK two \in Nat \ {0}, three \in Int, half \in Nat, more \in Nat \ {0} :
        two = 2 /\ three = 3 /\ half = 25 /\ more = p + 1
  OBVIOUS
<1>6. PICK less \in Nat : less = p - 1
  OBVIOUS
<1>7. ASSUME NEW f, NEW g, NEW lo \in Int, Lines(f, g, lo, n, m, k)
      PROVE  SameLines(Line(f), Line(g), k)
  <2>1. k \in Int
    BY <1>1
  <2>2. Same(f, g, k)
    BY ONLY <1>2, <1>7, <2>1, lo \in Int, n \in Int, m \in Int, SameLine
  <2> QED BY <2>2, LineSame
<1>8. /\ SameLines(Line(Ema(d, p)), Line(Ema(e, p)), k)
      /\ SameLines(Line(Sma(d, p)), Line(Sma(e, p)), k)
      /\ SameLines(Line(Wma(d, p)), Line(Wma(e, p)), k)
      /\ SameLines(Line(StdDev(d, p)), Line(StdDev(e, p)), k)
  <2>1. p \in Int
    OBVIOUS
  <2>2. Lines(Ema(d, p), Ema(e, p), p, n, m, k)
    BY <1>3, EmaLines
  <2>3. Lines(Sma(d, p), Sma(e, p), p, n, m, k)
    BY <1>3, SmaLines
  <2>4. Lines(Wma(d, p), Wma(e, p), p, n, m, k)
    BY <1>3, WmaLines
  <2>5. Lines(StdDev(d, p), StdDev(e, p), p, n, m, k)
    BY <1>3, StdDevLines
  <2> QED BY <1>7, <2>1, <2>2, <2>3, <2>4, <2>5
<1>9. SameLines(Line(Hma(d, more)), Line(Hma(e, more)), k)
  <2>1. more \in Nat /\ more >= 2
    BY <1>5
  <2> QED BY <1>3, <2>1, HmaSame, LineSame
<1>10. /\ SameLines(Line(Dema(d, p)), Line(Dema(e, p)), k)
       /\ SameLines(Line(Tema(d, p)), Line(Tema(e, p)), k)
       /\ SameLines(Line(Roc(d, p)), Line(Roc(e, p)), k)
  BY <1>3, DemaSame, TemaSame, RocSame, LineSame
<1>11. /\ SameLines(BollingerBands(d, p, two), BollingerBands(e, p, two), k)
       /\ SameLines(Envelope(d, p, half), Envelope(e, p, half), k)
       /\ SameLines(Restrict(Macd(d, p, more, two), {"macd", "signal"}),
                    Restrict(Macd(e, p, more, two), {"macd", "signal"}), k)
  <2>1. SameLines(BollingerBands(d, p, two), BollingerBands(e, p, two), k)
    <3>1. two \in Nat
      OBVIOUS
    <3> QED BY <1>3, <3>1, BollingerSame
  <2>2. SameLines(Envelope(d, p, half), Envelope(e, p, half), k)
    BY <1>3, EnvelopeSame
  <2>3. p <= more
    BY <1>5
  <2>4. SameLines(Restrict(Macd(d, p, more, two), {"macd", "signal"}),
                  Restrict(Macd(e, p, more, two), {"macd", "signal"}), k)
    BY <1>3, <2>3, MacdSame
  <2> QED BY <2>1, <2>2, <2>4
<1>12. /\ SameLines(Line(Vwap(cs)), Line(Vwap(es)), k)
       /\ SameLines(Line(Obv(cs)), Line(Obv(es)), k)
  BY VwapSame, ObvSame, LineSame
<1>13. /\ SameLines(Line(Cci(cs, p)), Line(Cci(es, p)), k)
       /\ SameLines(Line(WilliamsR(cs, p)), Line(WilliamsR(es, p)), k)
       /\ SameLines(Line(Mfi(cs, p)), Line(Mfi(es, p)), k)
       /\ SameLines(Line(Cmf(cs, p)), Line(Cmf(es, p)), k)
  BY CciSame, WilliamsRSame, MfiSame, CmfSame, LineSame
<1>14. /\ SameLines(KeltnerChannels(cs, p), KeltnerChannels(es, p), k)
       /\ SameLines(Aroon(cs, p), Aroon(es, p), k)
       /\ SameLines(Adx(cs, p), Adx(es, p), k)
  BY KeltnerSame, AroonSame, AdxSame
<1>15. /\ SameLines(DonchianChannels(cs, p), DonchianChannels(es, p), k)
       /\ SameLines(Ichimoku(cs, less, p, more), Ichimoku(es, less, p, more), k)
  <2>1. p \in Nat /\ more \in Nat
    OBVIOUS
  <2> QED BY <2>1, DonchianSame, IchimokuSame
<1>16. /\ SameLines(Colours(Supertrend(cs, p, three)), Colours(Supertrend(es, p, three)), k)
       /\ SameLines(Colours(Psar(cs)), Colours(Psar(es)), k)
       /\ SameLines(Restrict(PivotPoints(cs), {"pp", "r1", "r2", "s1", "s2"}),
                    Restrict(PivotPoints(es), {"pp", "r1", "r2", "s1", "s2"}), k)
       /\ SameLines(Stochastic(cs, p, two, two), Stochastic(es, p, two, two), k)
  BY SupertrendSame, PsarSame, PivotsSame, StochasticSame
<1>17. PICK L, M : L = ComputeIndicatorData(cs) /\ M = ComputeIndicatorData(es)
  OBVIOUS
<1> DEFINE names == {"ema", "sma", "wma", "hma", "dema", "tema", "vwap", "bb", "keltner",
             "donchian", "envelope", "supertrend", "psar", "ichimoku", "pivots", "macd", "stoch",
             "cci", "willr", "roc", "aroon", "adx", "stddev", "obv", "mfi", "cmf"}
<1>18. DOMAIN L = names /\ DOMAIN M = names
  BY <1>17 DEF ComputeIndicatorData
<1>19. /\ L.ema = Line(Ema(d, p)) /\ L.sma = Line(Sma(d, p)) /\ L.wma = Line(Wma(d, p))
       /\ L.hma = Line(Hma(d, more)) /\ L.dema = Line(Dema(d, p)) /\ L.tema = Line(Tema(d, p))
       /\ L.vwap = Line(Vwap(cs)) /\ L.bb = BollingerBands(d, p, two)
       /\ L.keltner = KeltnerChannels(cs, p) /\ L.donchian = DonchianChannels(cs, p)
       /\ L.envelope = Envelope(d, p, half) /\ L.supertrend = Colours(Supertrend(cs, p, three))
       /\ L.psar = Colours(Psar(cs)) /\ L.ichimoku = Ichimoku(cs, less, p, more)
       /\ L.pivots = Restrict(PivotPoints(cs), {"pp", "r1", "r2", "s1", "s2"})
       /\ L.macd = Restrict(Macd(d, p, more, two), {"macd", "signal"})
       /\ L.stoch = Stochastic(cs, p, two, two) /\ L.cci = Line(Cci(cs, p))
       /\ L.willr = Line(WilliamsR(cs, p)) /\ L.roc = Line(Roc(d, p)) /\ L.aroon = Aroon(cs, p)
       /\ L.adx = Adx(cs, p) /\ L.stddev = Line(StdDev(d, p)) /\ L.obv = Line(Obv(cs))
       /\ L.mfi = Line(Mfi(cs, p)) /\ L.cmf = Line(Cmf(cs, p))
  BY <1>3, <1>4, <1>5, <1>6, <1>17 DEF ComputeIndicatorData
<1>20. /\ M.ema = Line(Ema(e, p)) /\ M.sma = Line(Sma(e, p)) /\ M.wma = Line(Wma(e, p))
       /\ M.hma = Line(Hma(e, more)) /\ M.dema = Line(Dema(e, p)) /\ M.tema = Line(Tema(e, p))
       /\ M.vwap = Line(Vwap(es)) /\ M.bb = BollingerBands(e, p, two)
       /\ M.keltner = KeltnerChannels(es, p) /\ M.donchian = DonchianChannels(es, p)
       /\ M.envelope = Envelope(e, p, half) /\ M.supertrend = Colours(Supertrend(es, p, three))
       /\ M.psar = Colours(Psar(es)) /\ M.ichimoku = Ichimoku(es, less, p, more)
       /\ M.pivots = Restrict(PivotPoints(es), {"pp", "r1", "r2", "s1", "s2"})
       /\ M.macd = Restrict(Macd(e, p, more, two), {"macd", "signal"})
       /\ M.stoch = Stochastic(es, p, two, two) /\ M.cci = Line(Cci(es, p))
       /\ M.willr = Line(WilliamsR(es, p)) /\ M.roc = Line(Roc(e, p)) /\ M.aroon = Aroon(es, p)
       /\ M.adx = Adx(es, p) /\ M.stddev = Line(StdDev(e, p)) /\ M.obv = Line(Obv(es))
       /\ M.mfi = Line(Mfi(es, p)) /\ M.cmf = Line(Cmf(es, p))
  BY <1>3, <1>4, <1>5, <1>6, <1>17 DEF ComputeIndicatorData
<1>21. \A id \in names : SameLines(L[id], M[id], k)
  BY <1>8, <1>9, <1>10, <1>11, <1>12, <1>13, <1>14, <1>15, <1>16, <1>19, <1>20
<1> HIDE DEF names
<1> QED
  BY <1>17, <1>18, <1>21 DEF SameDrawing
-----------------------------------------------------------------------------
(* Rows that go on *)

\* Of a finite set of numbers, no two have as many up to them.
LEMMA RankUnique ==
  ASSUME NEW T \in SUBSET Int, IsFiniteSet(T), NEW a \in T, NEW b \in T,
         Cardinality({u \in T : u <= a}) = Cardinality({u \in T : u <= b})
  PROVE  a = b
<1>1. ASSUME NEW x \in T, NEW y \in T, x <= y,
             Cardinality({u \in T : u <= x}) = Cardinality({u \in T : u <= y})
      PROVE  x = y
  <2>1. PICK A, B : A = {u \in T : u <= x} /\ B = {u \in T : u <= y}
    OBVIOUS
  <2>2. A \in SUBSET B
    <3>1. ASSUME NEW u \in T, u <= x PROVE u <= y
      <4>1. PICK p \in Int, q \in Int, r \in Int : p = u /\ q = x /\ r = y
        OBVIOUS
      <4> QED BY <1>1, <3>1, <4>1
    <3> QED BY <2>1, <3>1
  <2>3. IsFiniteSet(B)
    BY <2>1, FS_Subset
  <2>4. B = A
    BY <1>1, <2>1, <2>2, <2>3, FS_Subset
  <2>5. y \in B
    BY <2>1
  <2>6. y <= x
    BY <2>1, <2>4, <2>5
  <2>7. PICK q \in Int, r \in Int : q = x /\ r = y
    OBVIOUS
  <2> QED BY <1>1, <2>6, <2>7
<1>2. PICK p \in Int, q \in Int : p = a /\ q = b
  OBVIOUS
<1>3. p <= q \/ q <= p
  OBVIOUS
<1> QED
  BY <1>1, <1>2, <1>3

\* Greater numbers do not change which one has i up to it.
Ranked(T, i) == CHOOSE w \in T : Cardinality({u \in T : u <= w}) = i

\* The one among the lesser stays.
LEMMA RankKeeps ==
  ASSUME NEW T \in SUBSET Int, NEW S \in SUBSET T, IsFiniteSet(T),
         \A u \in T \ S, w \in S : u > w, NEW i \in 1 .. Cardinality(S)
  PROVE  /\ Ranked(T, i) = Ranked(S, i) /\ Ranked(S, i) \in S
         /\ i < Cardinality(S) => \E u \in S : u > Ranked(S, i)
         /\ Cardinality(S) <= Cardinality(T) /\ Cardinality(S) \in Nat /\ Cardinality(T) \in Nat
<1>1. /\ IsFiniteSet(S) /\ Cardinality(S) \in Nat /\ Cardinality(T) \in Nat
      /\ Cardinality(S) <= Cardinality(T)
  BY FS_Subset, FS_CardinalityType
<1>2. S \in SUBSET Int
  OBVIOUS
<1>3. \E w \in S : Cardinality({u \in S : u <= w}) = i
  BY <1>1, <1>2, RankExists
<1>4. PICK x : x = Ranked(S, i) /\ x \in S /\ Cardinality({u \in S : u <= x}) = i
  BY <1>3 DEF Ranked
<1>5. {u \in T : u <= x} = {u \in S : u <= x}
  <2>1. ASSUME NEW u \in T, u <= x PROVE u \in S
    <3>1. PICK p \in Int, q \in Int : p = u /\ q = x
      BY <1>4
    <3>2. ~(p > q)
      BY <2>1, <3>1
    <3> QED BY <1>4, <3>1, <3>2
  <2> QED BY <2>1
<1>6. Cardinality({u \in T : u <= x}) = i
  BY <1>4, <1>5
<1>7. PICK y : y = Ranked(T, i) /\ y \in T /\ Cardinality({u \in T : u <= y}) = i
  <2>1. \E w \in T : Cardinality({u \in T : u <= w}) = i
    BY <1>4, <1>6
  <2> QED BY <2>1 DEF Ranked
<1>8. y = x
  <2>1. x \in T
    BY <1>4
  <2> QED BY <1>6, <1>7, <2>1, RankUnique
<1>9. ASSUME i < Cardinality(S) PROVE \E u \in S : u > x
  <2>1. SUFFICES ASSUME \A u \in S : ~(u > x) PROVE FALSE
    OBVIOUS
  <2>2. ASSUME NEW u \in S PROVE u <= x
    <3>1. PICK p \in Int, q \in Int : p = u /\ q = x
      BY <1>4
    <3>2. ~(p > q)
      BY <2>1, <3>1
    <3> QED BY <3>1, <3>2
  <2>3. {u \in S : u <= x} = S
    BY <2>2
  <2>4. Cardinality(S) = i
    BY <1>4, <2>3
  <2> QED BY <1>1, <1>9, <2>4
<1> QED
  BY <1>1, <1>4, <1>7, <1>8, <1>9

\* All but the last of the bars stay what they are.
Keeps(bs, es) == Len(bs) <= Len(es) /\ \A j \in 1 .. Len(bs) - 1 : es[j] = bs[j]

\* The usable rows, and their times.
GoodOf(rows) == {k \in 1 .. Len(rows) : Usable(rows[k].bar)}
TimesOf(rows) == {rows[k].time : k \in GoodOf(rows)}
LatestAt(rows, w) == Max({k \in GoodOf(rows) : rows[k].time = w})

\* The rows that are kept, by these names.
LEMMA AsGivenByRank ==
  ASSUME NEW rows
  PROVE  NormalizedAsGiven(rows) =
           [i \in 1 .. Cardinality(TimesOf(rows)) |->
              rows[LatestAt(rows, Ranked(TimesOf(rows), i))].bar]
BY DEF NormalizedAsGiven, GoodOf, TimesOf, LatestAt, Ranked

\* They are finitely many.
LEMMA TimesAreFinite ==
  ASSUME NEW rows \in Seq(CandleRows)
  PROVE  TimesOf(rows) \in SUBSET Int /\ IsFiniteSet(TimesOf(rows))
<1>1. PICK n \in Nat : n = Len(rows)
  OBVIOUS
<1>2. \A k \in 1 .. n : rows[k].time \in Int
  <2> SUFFICES ASSUME NEW k \in 1 .. n PROVE rows[k].time \in Int
    OBVIOUS
  <2>1. rows[k] \in CandleRows
    BY <1>1
  <2> QED BY <2>1 DEF CandleRows
<1>3. GoodOf(rows) \in SUBSET (1 .. n) /\ IsFiniteSet(GoodOf(rows))
  <2>1. IsFiniteSet(1 .. n) /\ GoodOf(rows) \in SUBSET (1 .. n)
    BY <1>1, FS_Interval DEF GoodOf
  <2> QED BY <2>1, FS_Subset
<1>4. PICK f : f = [k \in GoodOf(rows) |-> rows[k].time]
  OBVIOUS
<1>5. TimesOf(rows) = {f[k] : k \in GoodOf(rows)}
  BY <1>4 DEF TimesOf
<1>6. IsFiniteSet(TimesOf(rows))
  BY <1>3, <1>5, ImageIsFinite
<1> QED
  BY <1>2, <1>3, <1>6 DEF TimesOf

\* A history that goes on, in the order of time, keeps its bars.
LEMMA AsGivenKeeps ==
  ASSUME NEW rows \in Seq(CandleRows), NEW more \in Seq(CandleRows), IsPrefix(rows, more),
         InOrderOfTime(more)
  PROVE  Keeps(NormalizedAsGiven(rows), NormalizedAsGiven(more))
<1>1. PICK n \in Nat, m \in Nat : n = Len(rows) /\ m = Len(more) /\ n <= m
  BY DEF IsPrefix
<1>2. ASSUME NEW j \in 1 .. n PROVE j \in 1 .. m /\ more[j] = rows[j]
  <2>1. SubSeq(rows, 1, n) = SubSeq(more, 1, n)
    BY <1>1 DEF IsPrefix
  <2>2. SubSeq(rows, 1, n)[j] = rows[j]
    BY <1>1
  <2>3. SubSeq(more, 1, n)[j] = more[j]
    BY <1>1
  <2> QED BY <1>1, <2>1, <2>2, <2>3
<1>3. PICK G, H : G = GoodOf(rows) /\ H = GoodOf(more)
  OBVIOUS
<1>4. PICK S, T : S = TimesOf(rows) /\ T = TimesOf(more)
  OBVIOUS
<1>5. G \in SUBSET (1 .. n) /\ H \in SUBSET (1 .. m) /\ \A j \in 1 .. n : j \in G <=> j \in H
  BY <1>1, <1>2, <1>3 DEF GoodOf
<1>6. S = {rows[j].time : j \in G} /\ T = {more[j].time : j \in H}
  BY <1>3, <1>4 DEF TimesOf
<1>7. S \in SUBSET T /\ T \in SUBSET Int /\ IsFiniteSet(T) /\ S \in SUBSET Int
  <2>1. S \in SUBSET T
    BY <1>2, <1>5, <1>6
  <2> QED BY <1>4, <2>1, TimesAreFinite
<1>8. ASSUME NEW j \in H, j \notin G, NEW w \in S PROVE more[j].time >= w /\ more[j].time \in T
  <2>1. PICK g \in G : w = rows[g].time
    BY <1>6
  <2>2. g \in 1 .. n /\ j \in 1 .. m /\ j \notin 1 .. n
    BY <1>5, <1>8
  <2>3. g \in 1 .. m /\ g <= j
    BY <1>1, <2>2
  <2>4. DOMAIN more = 1 .. m
    BY <1>1
  <2>5. more[g].time <= more[j].time
    BY <2>2, <2>3, <2>4 DEF InOrderOfTime
  <2>6. more[g].time = w
    BY <1>2, <2>1, <2>2
  <2>7. more[j].time \in T
    BY <1>6, <1>8
  <2>8. PICK a \in Int, b \in Int : a = w /\ b = more[j].time
    BY <1>7, <2>7
  <2> QED BY <2>5, <2>6, <2>7, <2>8
<1>9. \A u \in T \ S, w \in S : u > w
  <2> SUFFICES ASSUME NEW u \in T, u \notin S, NEW w \in S PROVE u > w
    OBVIOUS
  <2>1. PICK j \in H : u = more[j].time
    BY <1>6
  <2>2. j \notin G
    BY <1>2, <1>5, <1>6, <2>1
  <2>3. u >= w
    BY <1>8, <2>1, <2>2
  <2>4. PICK a \in Int, b \in Int : a = u /\ b = w /\ a # b
    BY <1>7
  <2> QED BY <2>3, <2>4
<1>10. PICK c \in Nat, d \in Nat : c = Cardinality(S) /\ d = Cardinality(T) /\ c <= d
  <2>1. IsFiniteSet(S)
    BY <1>7, FS_Subset
  <2> QED BY <1>7, <2>1, FS_Subset, FS_CardinalityType
<1>11. PICK bs : /\ bs = NormalizedAsGiven(rows)
                 /\ bs = [i \in 1 .. c |-> rows[LatestAt(rows, Ranked(S, i))].bar]
  BY <1>4, <1>10, AsGivenByRank
<1>12. PICK es : /\ es = NormalizedAsGiven(more)
                 /\ es = [i \in 1 .. d |-> more[LatestAt(more, Ranked(T, i))].bar]
  BY <1>4, <1>10, AsGivenByRank
<1>13. Len(bs) = c /\ Len(es) = d
  BY <1>11, <1>12
<1>14. ASSUME NEW i \in 1 .. c - 1 PROVE es[i] = bs[i]
  <2>1. i \in 1 .. c /\ i \in 1 .. d /\ i < c
    BY <1>10
  <2>2. PICK w \in S : Ranked(T, i) = w /\ Ranked(S, i) = w /\ \E u \in S : u > w
    <3>1. T \in SUBSET Int /\ S \in SUBSET T /\ IsFiniteSet(T)
      BY <1>7
    <3>2. i \in 1 .. Cardinality(S) /\ i < Cardinality(S)
      BY <1>10, <2>1
    <3>3. /\ Ranked(T, i) = Ranked(S, i) /\ Ranked(S, i) \in S
          /\ \E u \in S : u > Ranked(S, i)
      BY ONLY <1>9, <3>1, <3>2, RankKeeps
    <3> QED BY <3>3
  <2>3. PICK K : K = {j \in G : rows[j].time = w}
    OBVIOUS
  <2>4. PICK L : L = {j \in H : more[j].time = w}
    OBVIOUS
  <2>5. ASSUME NEW j \in L PROVE j \in G
    <3>1. SUFFICES ASSUME j \notin G PROVE FALSE
      OBVIOUS
    <3>2. PICK u \in S : u > w
      BY <2>2
    <3>3. more[j].time >= u
      BY <1>8, <2>4, <3>1
    <3>4. PICK a \in Int, b \in Int : a = u /\ b = w
      BY <1>7
    <3> QED BY <2>4, <3>2, <3>3, <3>4
  <2>6. K = L
    BY <1>2, <1>5, <2>3, <2>4, <2>5
  <2>7. K # {} /\ K \in SUBSET (1 .. n) /\ IsFiniteSet(K)
    <3>1. K # {} /\ K \in SUBSET (1 .. n)
      BY <1>5, <1>6, <2>3
    <3>2. IsFiniteSet(1 .. n)
      BY FS_Interval
    <3> QED BY <3>1, <3>2, FS_Subset
  <2>8. Max(K) \in 1 .. n
    <3>1. K \in SUBSET Int
      BY <2>7
    <3> QED BY <2>7, <3>1, MaxOfFinite
  <2>9. LatestAt(rows, w) = Max(K) /\ LatestAt(more, w) = Max(K)
    BY <1>3, <2>3, <2>4, <2>6 DEF LatestAt
  <2>10. bs[i] = rows[Max(K)].bar /\ es[i] = more[Max(K)].bar
    BY <1>11, <1>12, <2>1, <2>2, <2>9
  <2> QED BY <1>2, <2>8, <2>10
<1> QED
  BY <1>10, <1>11, <1>12, <1>13, <1>14 DEF Keeps

\* Repairing the bars keeps that.
LEMMA NormalizedKeeps ==
  ASSUME NEW rows \in Seq(CandleRows), NEW more \in Seq(CandleRows), IsPrefix(rows, more),
         InOrderOfTime(more)
  PROVE  Keeps(NormalizeChartCandles(rows), NormalizeChartCandles(more))
<1>1. PICK bs \in Seq(Candles), es \in Seq(Candles) :
        bs = NormalizedAsGiven(rows) /\ es = NormalizedAsGiven(more) /\ Keeps(bs, es)
  BY AsGivenAreCandles, AsGivenKeeps
<1>2. PICK n \in Nat, m \in Nat : n = Len(bs) /\ m = Len(es) /\ n <= m
  BY <1>1 DEF Keeps
<1>3. PICK b : b = NormalizeChartCandles(rows)
  OBVIOUS
<1>4. PICK e : e = NormalizeChartCandles(more)
  OBVIOUS
<1>5. b = [i \in DOMAIN bs |-> [bs[i] EXCEPT !.high = High(bs[i]), !.low = Low(bs[i])]]
  BY <1>1, <1>3 DEF NormalizeChartCandles
<1>6. e = [i \in DOMAIN es |-> [es[i] EXCEPT !.high = High(es[i]), !.low = Low(es[i])]]
  BY <1>1, <1>4 DEF NormalizeChartCandles
<1>7. DOMAIN bs = 1 .. n /\ DOMAIN es = 1 .. m /\ Len(b) = n /\ Len(e) = m
  <2>1. DOMAIN bs = 1 .. n /\ DOMAIN es = 1 .. m
    BY <1>2
  <2>2. b \in Seq(Bars) /\ e \in Seq(Bars)
    BY <1>3, <1>4, NormalizedAreBars
  <2>3. DOMAIN b = 1 .. n /\ DOMAIN e = 1 .. m
    BY <1>5, <1>6, <2>1
  <2> QED BY <2>1, <2>2, <2>3
<1>8. ASSUME NEW i \in 1 .. n - 1 PROVE e[i] = b[i]
  <2>1. es[i] = bs[i] /\ i \in 1 .. n /\ i \in 1 .. m
    BY <1>1, <1>2 DEF Keeps
  <2> QED BY <1>5, <1>6, <1>7, <2>1
<1> QED
  BY <1>2, <1>3, <1>4, <1>7, <1>8 DEF Keeps

\* A live price moves the last bar only.
LEMMA MovedKeeps ==
  ASSUME NEW cs \in Seq(Bars), NEW p \in Nat
  PROVE  Keeps(cs, Moved(cs, p)) /\ Len(Moved(cs, p)) = Len(cs)
<1>1. PICK n \in Nat : n = Len(cs)
  OBVIOUS
<1>2. PICK b : Moved(cs, p) = cs \/ (n # 0 /\ Moved(cs, p) = [cs EXCEPT ![n] = b])
  BY <1>1 DEF Moved
<1>3. Len([cs EXCEPT ![n] = b]) = n /\ \A j \in 1 .. n - 1 : [cs EXCEPT ![n] = b][j] = cs[j]
  BY <1>1
<1> QED
  BY <1>1, <1>2, <1>3 DEF Keeps
-----------------------------------------------------------------------------
(* What is drawn, and of what *)

\* The same bars but for the last.
Ended(bs, es) == Len(bs) = Len(es) /\ Keeps(bs, es)

\* The lines are those that the bars cs give.
DrawnFrom(lines, cs) ==
  \A id \in DOMAIN lines :
    \/ id \in DOMAIN ComputeIndicatorData(cs) /\ lines[id] = ComputeIndicatorData(cs)[id]
    \/ id = "atr14" /\ lines[id] = Line(Atr(cs, AtrSpan))

\* Bars are the rows', and the lines the bars', but for what a live price has moved since.
DrawingHolds(rows, bs, lines) ==
  /\ InOrderOfTime(rows)
  /\ bs # << >> => /\ Ended(NormalizeChartCandles(rows), bs)
                   /\ \E cs \in Seq(Bars) : Ended(cs, bs) /\ DrawnFrom(lines, cs)

ChartHolds == ChartSound /\ DrawingHolds(history, chartBars, drawn)

\* Bars that are, but for the last, those of others are those of any third.
LEMMA EndedMeets ==
  ASSUME NEW a \in Seq(Bars), NEW b \in Seq(Bars), NEW c \in Seq(Bars), Ended(a, b), Ended(b, c)
  PROVE  Ended(a, c)
<1>1. PICK n \in Nat : n = Len(a) /\ n = Len(b) /\ n = Len(c)
  BY DEF Ended
<1>2. \A j \in 1 .. n - 1 : b[j] = a[j] /\ c[j] = b[j]
  BY <1>1 DEF Ended, Keeps
<1> QED
  BY <1>1, <1>2 DEF Ended, Keeps

\* The bars are the same as themselves.
LEMMA EndedItself ==
  ASSUME NEW a \in Seq(Bars)
  PROVE  Ended(a, a)
BY DEF Ended, Keeps

\* What the effect of the lines draws, it draws from the bars.
LEMMA DrawsFrom ==
  ASSUME NEW ids, NEW cs, cs # << >>, DrawLines(ids, cs)
  PROVE  DrawnFrom(drawn', cs)
<1>1. PICK prices : prices = IF "price" \in ids THEN ComputeIndicatorData(cs) ELSE << >>
  OBVIOUS
<1>2. PICK atr : atr = {"atr14"} \cap IF AtrThrows(cs) THEN {} ELSE ids
  OBVIOUS
<1>3. drawn' = [id \in DOMAIN prices \cup atr |->
                  IF id \in atr THEN Line(Atr(cs, AtrSpan)) ELSE prices[id]]
  BY <1>1, <1>2 DEF DrawLines
<1>4. ASSUME NEW id \in DOMAIN drawn'
      PROVE  \/ id \in DOMAIN ComputeIndicatorData(cs) /\ drawn'[id] = ComputeIndicatorData(cs)[id]
             \/ id = "atr14" /\ drawn'[id] = Line(Atr(cs, AtrSpan))
  <2>1. CASE id \in atr
    BY <1>2, <1>3, <2>1
  <2>2. CASE id \notin atr
    <3>1. id \in DOMAIN prices /\ drawn'[id] = prices[id]
      BY <1>3, <2>2
    <3>2. CASE "price" \in ids
      BY <1>1, <3>1, <3>2
    <3>3. CASE "price" \notin ids
      <4>1. DOMAIN prices = {}
        BY <1>1, <3>3
      <4> QED BY <3>1, <4>1
    <3> QED BY <3>2, <3>3
  <2> QED BY <2>1, <2>2
<1> QED
  BY <1>4 DEF DrawnFrom

\* No line yet: whatever the bars.
LEMMA NothingDrawnFrom ==
  ASSUME NEW cs
  PROVE  DrawnFrom(<< >>, cs)
BY DEF DrawnFrom

\* What useMarketData answers is in the order of time.
LEMMA AnswersInOrder ==
  ASSUME history \in Seq(CandleRows), InOrderOfTime(history), NEW rows \in Answers
  PROVE  InOrderOfTime(rows)
<1>1. CASE rows \in Histories \cup {<< >>}
  <2>1. InOrderOfTime(<< >>)
    BY DEF InOrderOfTime
  <2> QED BY <1>1, <2>1, ChartAssumption
<1>2. CASE rows \notin Histories \cup {<< >>}
  <2>1. history # << >>
    BY <1>2 DEF Answers
  <2>2. PICK n \in Nat \ {0} : n = Len(history) /\ DOMAIN history = 1 .. n
    BY <2>1
  <2>3. PICK now : now = history[n].time
    OBVIOUS
  <2>4. rows \in {Append(history, row) : row \in [time : {now, now + 1}, bar : Shapes]}
    BY <1>2, <2>1, <2>2, <2>3 DEF Answers
  <2>5. PICK row \in [time : {now, now + 1}, bar : Shapes] : rows = Append(history, row)
    BY <2>4
  <2>6. \A j \in 1 .. n : history[j].time \in Nat /\ history[j].time <= now
    <3> SUFFICES ASSUME NEW j \in 1 .. n
                 PROVE  history[j].time \in Nat /\ history[j].time <= now
      OBVIOUS
    <3>1. history[j] \in CandleRows
      BY <2>2
    <3>2. j <= n /\ n \in 1 .. n
      OBVIOUS
    <3> QED BY <2>2, <2>3, <3>1, <3>2 DEF CandleRows, InOrderOfTime
  <2>7. now \in Nat
    BY <2>3, <2>6
  <2>8. row.time \in Nat /\ now <= row.time
    BY <2>5, <2>7
  <2>9. DOMAIN rows = 1 .. n + 1 /\ rows[n + 1] = row /\ \A j \in 1 .. n : rows[j] = history[j]
    BY <2>2, <2>5
  <2> SUFFICES ASSUME NEW i \in 1 .. n + 1, NEW j \in 1 .. n + 1, i <= j
               PROVE  rows[i].time <= rows[j].time
    BY <2>9 DEF InOrderOfTime
  <2>10. CASE j \in 1 .. n
    <3>1. i \in 1 .. n
      BY <2>10
    <3>2. history[i].time <= history[j].time
      BY <2>2, <2>10, <3>1 DEF InOrderOfTime
    <3> QED BY <2>9, <2>10, <3>1, <3>2
  <2>11. CASE j = n + 1
    <3>1. CASE i = n + 1
      BY <2>8, <2>9, <2>11, <3>1
    <3>2. CASE i \in 1 .. n
      <4>1. PICK a \in Nat, b \in Nat, c \in Nat :
              a = history[i].time /\ b = now /\ c = row.time /\ a <= b /\ b <= c
        BY <2>6, <2>7, <2>8, <3>2
      <4> QED BY <2>9, <2>11, <3>2, <4>1
    <3> QED BY <3>1, <3>2
  <2> QED BY <2>10, <2>11
<1> QED
  BY <1>1, <1>2

\* What is shown of new rows.
LEMMA ShownHolds ==
  ASSUME NEW rows \in Seq(CandleRows), NEW p \in Nat
  PROVE  Ended(NormalizeChartCandles(rows), Moved(NormalizeChartCandles(rows), p))
BY NormalizedAreBars, MovedKeeps DEF Ended

\* The first state, and each step.
LEMMA ChartHoldsFirst == ChartInit => ChartHolds
<1> SUFFICES ASSUME ChartInit PROVE ChartHolds
  OBVIOUS
<1>1. history = << >> /\ chartBars = << >>
  BY DEF ChartInit
<1>2. DrawingHolds(history, chartBars, drawn)
  BY <1>1 DEF DrawingHolds, InOrderOfTime
<1> QED
  BY <1>2, ChartStarts DEF ChartHolds

\* Each step of the chart leaves that so.
LEMMA ChartHoldsOn == ChartHolds /\ [ChartNext]_chartVars => ChartHolds'
<1> SUFFICES ASSUME ChartHolds, [ChartNext]_chartVars PROVE ChartHolds'
  OBVIOUS
<1>1. /\ history \in Seq(CandleRows) /\ chartBars \in Seq(Bars) /\ livePrice \in Nat
      /\ InOrderOfTime(history)
  BY DEF ChartHolds, ChartSound, DrawingHolds
<1>2. /\ history' \in Seq(CandleRows) /\ chartBars' \in Seq(Bars) /\ livePrice' \in Nat
      /\ ChartSound'
  BY ChartSteps DEF ChartHolds, ChartSound
<1>3. SUFFICES DrawingHolds(history', chartBars', drawn')
  BY <1>2 DEF ChartHolds
<1>4. chartBars # << >> =>
        /\ Ended(NormalizeChartCandles(history), chartBars)
        /\ \E cs \in Seq(Bars) : Ended(cs, chartBars) /\ DrawnFrom(drawn, cs)
  BY DEF ChartHolds, DrawingHolds
<1>5. ASSUME DrawnFrom(drawn', chartBars') \/ chartBars' = << >>, InOrderOfTime(history'),
             chartBars' # << >> => Ended(NormalizeChartCandles(history'), chartBars')
      PROVE  DrawingHolds(history', chartBars', drawn')
  BY <1>2, <1>5, EndedItself DEF DrawingHolds
<1>6. CASE SymbolChanges
  <2>1. PICK rows \in Histories \cup {<< >>} :
          /\ history' = rows
          /\ chartBars' = IF crashed THEN << >> ELSE Moved(NormalizeChartCandles(rows), livePrice')
    BY <1>6 DEF SymbolChanges
  <2>2. InOrderOfTime(rows)
    <3>1. InOrderOfTime(<< >>)
      BY DEF InOrderOfTime
    <3> QED BY <3>1, ChartAssumption
  <2>3. chartBars' # << >> => Ended(NormalizeChartCandles(history'), chartBars')
    BY <1>2, <2>1, ShownHolds
  <2>4. DrawnFrom(drawn', chartBars')
    BY <1>6, NothingDrawnFrom DEF SymbolChanges, Mounted
  <2> QED BY <1>5, <2>1, <2>2, <2>3, <2>4
<1>7. CASE CandlesArrive
  <2>1. PICK rows \in Answers : Show(rows, livePrice)
    BY <1>7 DEF CandlesArrive
  <2>2. InOrderOfTime(rows) /\ history' = rows
    BY <1>1, <2>1, AnswersInOrder DEF Show
  <2>3. Ended(NormalizeChartCandles(history'), chartBars')
    BY <1>1, <1>2, <2>1, <2>2, ShownHolds DEF Show
  <2>4. DrawnFrom(drawn', chartBars') \/ chartBars' = << >>
    <3>1. DrawLines(active, chartBars')
      BY <2>1 DEF Show
    <3> QED BY <3>1, DrawsFrom
  <2> QED BY <1>5, <2>2, <2>3, <2>4
<1>8. CASE LiveTick
  <2>1. chartBars' = Moved(chartBars, livePrice') /\ history' = history /\ drawn' = drawn
    BY <1>8 DEF LiveTick
  <2>2. Ended(chartBars, chartBars')
    BY <1>1, <1>2, <2>1, MovedKeeps DEF Ended
  <2>3. ASSUME chartBars' # << >>
        PROVE  /\ Ended(NormalizeChartCandles(history), chartBars')
               /\ \E cs \in Seq(Bars) : Ended(cs, chartBars') /\ DrawnFrom(drawn, cs)
    <3>1. chartBars # << >>
      <4>1. Len(chartBars) = Len(chartBars')
        BY <2>2 DEF Ended
      <4> QED BY <1>1, <1>2, <2>3, <4>1
    <3>2. Ended(NormalizeChartCandles(history), chartBars')
      BY <1>1, <1>2, <1>4, <2>2, <3>1, NormalizedAreBars, EndedMeets
    <3>3. PICK cs \in Seq(Bars) : Ended(cs, chartBars) /\ DrawnFrom(drawn, cs)
      BY <1>4, <3>1
    <3>4. Ended(cs, chartBars')
      BY <1>1, <1>2, <2>2, <3>3, EndedMeets
    <3> QED BY <3>2, <3>3, <3>4
  <2> QED BY <1>1, <2>1, <2>3 DEF DrawingHolds
<1>9. CASE FeedFades
  BY <1>1, <1>4, <1>9 DEF FeedFades, DrawingHolds
<1>10. CASE ToggleIndicator
  <2>1. chartBars' = chartBars /\ history' = history
    BY <1>10 DEF ToggleIndicator
  <2>2. PICK next : DrawLines(next, chartBars)
    BY <1>10 DEF ToggleIndicator
  <2>3. DrawnFrom(drawn', chartBars) \/ chartBars = << >>
    BY <2>2, DrawsFrom
  <2> QED BY <1>1, <1>4, <1>5, <2>1, <2>3
<1>11. CASE ThemeChanges
  <2>1. chartBars' = NormalizeChartCandles(history) /\ history' = history
    BY <1>11 DEF ThemeChanges
  <2>2. Ended(NormalizeChartCandles(history'), chartBars')
    BY <1>2, <2>1, EndedItself
  <2>3. DrawnFrom(drawn', chartBars') \/ chartBars' = << >>
    <3>1. chartBars' # << >> => DrawLines(active, chartBars')
      BY <1>11 DEF ThemeChanges
    <3> QED BY <3>1, DrawsFrom
  <2> QED BY <1>1, <1>5, <2>1, <2>2, <2>3
<1>12. CASE TryAgain
  BY <1>1, <1>12 DEF TryAgain, DrawingHolds
<1>13. CASE UNCHANGED chartVars
  BY <1>1, <1>4, <1>13 DEF chartVars, DrawingHolds
<1> QED
  BY <1>6, <1>7, <1>8, <1>9, <1>10, <1>11, <1>12, <1>13 DEF ChartNext

\* The line of the true ranges.
LEMMA AtrSame ==
  ASSUME NEW cs, NEW es, NEW k, TwinBars(cs, es, k)
  PROVE  SameLines(Line(Atr(cs, AtrSpan)), Line(Atr(es, AtrSpan)), k)
<1>1. PICK n \in Int, m \in Int, h \in Int :
        n = Len(cs) /\ m = Len(es) /\ h = k /\ h <= n /\ h <= m
  BY DEF TwinBars
<1>2. PICK p \in Nat \ {0} : p = AtrSpan
  BY ChartAssumption
<1>3. PICK f, g : f = Atr(cs, p) /\ g = Atr(es, p) /\ Lines(f, g, p, n, m, h)
  BY <1>1, AtrLines
<1>4. Same(f, g, k)
  <2>1. p \in Int
    OBVIOUS
  <2> QED BY <1>1, <1>3, <2>1, SameLine
<1> QED
  BY <1>2, <1>3, <1>4, LineSame

\* Two drawings, of bars of which the second are the first's and more: the lines that both have
\* are the same at the bars that are over.
LEMMA LinesKeep ==
  ASSUME NEW bs \in Seq(Bars), Len(bs) > 2, NEW cs \in Seq(Bars), Ended(cs, bs),
         NEW es \in Seq(Bars), Keeps(bs, es), NEW L, DrawnFrom(L, cs), NEW M, DrawnFrom(M, es),
         NEW id \in DOMAIN L \cap DOMAIN M
  PROVE  SameLines(L[id], M[id], Len(bs) - 1)
<1>1. PICK n \in Nat : n = Len(bs) /\ n = Len(cs) /\ n <= Len(es) /\ n > 2
  BY DEF Ended, Keeps
<1>2. PICK k \in Nat : k = n - 1 /\ 2 <= k
  BY <1>1
<1>3. TwinBars(cs, es, k)
  <2>1. \A j \in 1 .. k : bs[j] = cs[j] /\ es[j] = bs[j]
    BY <1>1, <1>2 DEF Ended, Keeps
  <2> QED BY <1>1, <1>2, <2>1 DEF TwinBars
<1>4. SameDrawing(ComputeIndicatorData(cs), ComputeIndicatorData(es), k)
  BY <1>3, AllLinesSame
<1>5. /\ "atr14" \notin DOMAIN ComputeIndicatorData(cs)
      /\ "atr14" \notin DOMAIN ComputeIndicatorData(es)
  BY DEF ComputeIndicatorData
<1>6. CASE id = "atr14"
  <2>1. L[id] = Line(Atr(cs, AtrSpan)) /\ M[id] = Line(Atr(es, AtrSpan))
    BY <1>5, <1>6 DEF DrawnFrom
  <2> QED BY <1>1, <1>2, <1>3, <2>1, AtrSame
<1>7. CASE id # "atr14"
  <2>1. /\ id \in DOMAIN ComputeIndicatorData(cs) /\ L[id] = ComputeIndicatorData(cs)[id]
        /\ M[id] = ComputeIndicatorData(es)[id]
    BY <1>7 DEF DrawnFrom
  <2> QED BY <1>1, <1>2, <1>4, <2>1 DEF SameDrawing
<1> QED
  BY <1>6, <1>7

\* What a step leaves of the drawing.
LEMMA NothingMoves ==
  ASSUME ChartHolds, [ChartNext]_chartVars, history # << >>, IsPrefix(history, history'),
         chartSymbol' = chartSymbol, NEW id \in DOMAIN drawn \cap DOMAIN drawn',
         Len(chartBars) > 2
  PROVE  SameLines(drawn[id], drawn'[id], Len(chartBars) - 1)
<1>1. /\ history \in Seq(CandleRows) /\ chartBars \in Seq(Bars) /\ livePrice \in Nat
  BY DEF ChartHolds, ChartSound
<1>2. ChartHolds'
  BY ChartHoldsOn
<1>3. /\ history' \in Seq(CandleRows) /\ chartBars' \in Seq(Bars) /\ livePrice' \in Nat
      /\ InOrderOfTime(history')
  BY <1>2 DEF ChartHolds, ChartSound, DrawingHolds
<1>4. PICK n \in Nat : n = Len(chartBars) /\ n > 2
  BY <1>1
<1>5. chartBars # << >>
  BY <1>4
<1>6. Ended(NormalizeChartCandles(history), chartBars)
  BY <1>5 DEF ChartHolds, DrawingHolds
<1>7. PICK cs \in Seq(Bars) : Ended(cs, chartBars) /\ DrawnFrom(drawn, cs)
  BY <1>5 DEF ChartHolds, DrawingHolds
<1>8. ASSUME drawn' = drawn PROVE SameLines(drawn[id], drawn'[id], Len(chartBars) - 1)
  BY <1>8 DEF SameLines, Same
<1>9. drawn' # << >>
  <2>1. DOMAIN << >> = {}
    OBVIOUS
  <2> QED BY <2>1
<1>10. ASSUME DrawnFrom(drawn', chartBars'), Keeps(chartBars, chartBars')
       PROVE  SameLines(drawn[id], drawn'[id], Len(chartBars) - 1)
  <2>1. Len(chartBars) > 2
    OBVIOUS
  <2> QED BY <1>1, <1>3, <1>7, <1>10, <2>1, LinesKeep
<1>11. CASE SymbolChanges
  BY <1>11 DEF SymbolChanges
<1>12. CASE CandlesArrive
  <2>1. PICK rows : Show(rows, livePrice)
    BY <1>12 DEF CandlesArrive
  <2>2. /\ history' = rows /\ chartBars' = Moved(NormalizeChartCandles(rows), livePrice)
        /\ DrawLines(active, chartBars')
    BY <2>1 DEF Show
  <2>3. CASE chartBars' = << >>
    BY <1>8, <2>2, <2>3 DEF DrawLines
  <2>4. CASE chartBars' # << >>
    <3>1. DrawnFrom(drawn', chartBars')
      BY <2>2, <2>4, DrawsFrom
    <3>2. PICK b, e : b = NormalizeChartCandles(history) /\ e = NormalizeChartCandles(history')
      OBVIOUS
    <3>3. Keeps(b, e) /\ Ended(b, chartBars)
      BY <1>1, <1>3, <1>6, <3>2, NormalizedKeeps
    <3>4. e \in Seq(Bars) /\ b \in Seq(Bars)
      BY <1>1, <1>3, <3>2, NormalizedAreBars
    <3>5. Ended(e, chartBars')
      BY <1>1, <1>3, <2>2, <3>2, ShownHolds
    <3>6. Keeps(chartBars, chartBars')
      <4>1. PICK m \in Nat : m = Len(e) /\ m = Len(chartBars') /\ n = Len(b) /\ n <= m
        BY <1>3, <1>4, <3>3, <3>4, <3>5 DEF Ended, Keeps
      <4>2. \A j \in 1 .. n - 1 : j \in 1 .. m - 1 /\ chartBars[j] = b[j] /\ e[j] = b[j]
        BY <1>4, <3>3, <4>1 DEF Ended, Keeps
      <4>3. \A j \in 1 .. m - 1 : chartBars'[j] = e[j]
        BY <3>5, <4>1 DEF Ended, Keeps
      <4> QED BY <1>4, <4>1, <4>2, <4>3 DEF Keeps
    <3> QED BY <1>10, <3>1, <3>6
  <2> QED BY <2>3, <2>4
<1>13. CASE LiveTick
  BY <1>8, <1>13 DEF LiveTick
<1>14. CASE FeedFades
  BY <1>8, <1>14 DEF FeedFades
<1>15. CASE ToggleIndicator
  <2>1. chartBars' = chartBars
    BY <1>15 DEF ToggleIndicator
  <2>2. PICK next : DrawLines(next, chartBars)
    BY <1>15 DEF ToggleIndicator
  <2>3. DrawnFrom(drawn', chartBars')
    BY <1>5, <2>1, <2>2, DrawsFrom
  <2>4. Keeps(chartBars, chartBars')
    BY <1>1, <2>1 DEF Keeps
  <2> QED BY <1>10, <2>3, <2>4
<1>16. CASE ThemeChanges
  <2>1. chartBars' = NormalizeChartCandles(history)
    BY <1>16 DEF ThemeChanges
  <2>2. chartBars' # << >> /\ DrawLines(active, chartBars')
    BY <1>9, <1>16 DEF ThemeChanges
  <2>3. DrawnFrom(drawn', chartBars')
    BY <2>2, DrawsFrom
  <2>4. Keeps(chartBars, chartBars')
    <3>1. \A j \in 1 .. n - 1 : chartBars[j] = chartBars'[j]
      BY <1>4, <1>6, <2>1 DEF Ended, Keeps
    <3>2. Len(chartBars') = n
      BY <1>4, <1>6, <2>1 DEF Ended
    <3> QED BY <1>4, <3>1, <3>2 DEF Keeps
  <2> QED BY <1>10, <2>3, <2>4
<1>17. CASE TryAgain
  BY <1>9, <1>17 DEF TryAgain, Mounted
<1>18. CASE UNCHANGED chartVars
  BY <1>8, <1>18 DEF chartVars
<1> QED
  BY <1>11, <1>12, <1>13, <1>14, <1>15, <1>16, <1>17, <1>18 DEF ChartNext

\* What it says of each bar that is over.
LEMMA PointsStay ==
  ASSUME ChartHolds, [ChartNext]_chartVars, history # << >>, IsPrefix(history, history'),
         chartSymbol' = chartSymbol, NEW id \in DOMAIN drawn \cap DOMAIN drawn',
         NEW line \in DOMAIN drawn[id], NEW i \in Over
  PROVE  /\ i \in DOMAIN drawn[id][line] <=> i \in DOMAIN drawn'[id][line]
         /\ i \in DOMAIN drawn[id][line] => drawn'[id][line][i] = drawn[id][line][i]
<1>1. Len(chartBars) > 2 /\ i \in 1 .. Len(chartBars) - 1
  BY DEF Over
<1>2. SameLines(drawn[id], drawn'[id], Len(chartBars) - 1)
  BY <1>1, NothingMoves
<1>3. Same(drawn[id][line], drawn'[id][line], Len(chartBars) - 1)
  BY <1>2 DEF SameLines
<1> QED
  BY <1>1, <1>3 DEF Same

(***************************************************************************)
(* No line repaints: as long as the server's rows go on where they were,   *)
(* and whatever the live feed, the theme and the toggles do meanwhile,     *)
(* every indicator keeps what it drew at the bars that are over. Each of   *)
(* them looks back only (strategy/indicators/), the live price moves the   *)
(* last bar alone (ZebuLiveChart.jsx:826-838), and a later row never takes *)
(* the place of an earlier time, since useMarketData.js:80 sorts the       *)
(* candles.                                                                *)
(***************************************************************************)
THEOREM NothingRepaints == ChartSpec => NoRepaint
<1>1. ChartHolds /\ [ChartNext]_chartVars =>
        [(history # << >> /\ IsPrefix(history, history') /\ chartSymbol' = chartSymbol) =>
           \A id \in DOMAIN drawn \cap DOMAIN drawn' : \A line \in DOMAIN drawn[id] :
             \A i \in Over :
               /\ i \in DOMAIN drawn[id][line] <=> i \in DOMAIN drawn'[id][line]
               /\ i \in DOMAIN drawn[id][line]
                    => drawn'[id][line][i] = drawn[id][line][i]]_chartVars
  BY PointsStay
<1> QED
  BY <1>1, ChartHoldsFirst, ChartHoldsOn, PTL DEF ChartSpec, NoRepaint

-----------------------------------------------------------------------------
(* The live feed, in full: its counts *)

\* A hook is in use since a move that has not been taken back, and a socket that is
\* closed while it connects belongs to such a move.
SocketTyped == SocketTypeOK /\ ghosts + Cardinality(mounted) <= moves /\ visits <= moves

LEMMA HooksCount ==
  \A H \in SUBSET Hooks : IsFiniteSet(H) /\ Cardinality(H) \in Nat
<1>1. IsFiniteSet(Hooks)
  <2>1. IsFiniteSet({"shell"})
    BY FS_Singleton
  <2>2. IsFiniteSet({"shell"} \cup {"page"})
    BY <2>1, FS_AddElement
  <2> QED BY <2>2 DEF Hooks
<1> QED
  BY <1>1, FS_Subset, FS_CardinalityType

LEMMA SocketTypedInit == SocketInit => SocketTyped
<1>1. Cardinality({}) = 0
  BY FS_EmptySet
<1>2. 0 \in 0 .. MaxMoves /\ 0 \in 0 .. MaxDrops
  BY SocketAssumption
<1> QED
  BY <1>1, <1>2 DEF SocketInit, SocketTyped, SocketTypeOK, SocketStates, WsStatuses, Hooks

LEMMA SocketTypedNext == SocketTyped /\ [SocketNext]_socketVars => SocketTyped'
<1> SUFFICES ASSUME SocketTyped, [SocketNext]_socketVars PROVE SocketTyped'
  OBVIOUS
<1>0. /\ mounted \subseteq Hooks /\ socket \in [Hooks -> SocketStates] /\ retryTimer \subseteq Hooks
      /\ outbox \in [Hooks -> SUBSET PageFeeds]
      /\ subscribed \in [Hooks -> SUBSET (Feeds \cup PageFeeds)]
      /\ tracked \subseteq Feeds /\ wsStatus \in WsStatuses
  BY DEF SocketTyped, SocketTypeOK
<1>1. /\ ghosts \in Nat /\ moves \in 0 .. MaxMoves /\ drops \in 0 .. MaxDrops /\ visits \in Nat
      /\ ghosts + Cardinality(mounted) <= moves /\ visits <= moves
      /\ MaxMoves \in Nat /\ MaxDrops \in Nat /\ Cardinality(mounted) \in Nat
  BY <1>0, SocketAssumption, HooksCount DEF SocketTyped, SocketTypeOK
<1> DEFINE Counts == /\ ghosts' \in Nat /\ moves' \in 0 .. MaxMoves /\ drops' \in 0 .. MaxDrops
                     /\ visits' \in Nat
                     /\ ghosts' + Cardinality(mounted') <= moves' /\ visits' <= moves'
           Sets == /\ mounted' \subseteq Hooks /\ socket' \in [Hooks -> SocketStates]
                   /\ retryTimer' \subseteq Hooks /\ outbox' \in [Hooks -> SUBSET PageFeeds]
                   /\ subscribed' \in [Hooks -> SUBSET (Feeds \cup PageFeeds)]
                   /\ tracked' \subseteq Feeds /\ wsStatus' \in WsStatuses
<1>2. SUFFICES Counts /\ Sets
  <2>1. ASSUME Counts, Sets PROVE SocketTyped'
    <3>1. Cardinality(mounted') \in Nat
      BY <2>1, HooksCount
    <3>2. ghosts' \in 0 .. MaxMoves /\ visits' \in 0 .. MaxMoves
      BY <1>1, <2>1, <3>1
    <3> QED BY <2>1, <3>2 DEF SocketTyped, SocketTypeOK
  <2> QED BY <2>1
<1>3. UNCHANGED <<ghosts, moves, visits, mounted>> /\ drops' \in 0 .. MaxDrops => Counts
  BY <1>1
<1> HIDE DEF Counts
<1>4. ASSUME NEW h \in Hooks PROVE Cardinality(mounted \cup {h}) <= Cardinality(mounted) + 1
                                   /\ Cardinality(mounted \cup {h}) \in Nat
  BY <1>0, <1>1, HooksCount, FS_AddElement
<1>5. ASSUME NEW h \in Hooks, Move, mounted' = mounted \cup {h}, UNCHANGED <<ghosts, drops>>,
             visits' \in {visits, visits + 1}
      PROVE  Counts
  BY <1>1, <1>4, <1>5 DEF Move, Counts
<1>6. ASSUME NEW H \in SUBSET mounted, Move, Unmount(H)
      PROVE  Counts /\ Sets
  <2> DEFINE G == {h \in H : socket[h] = "connecting"}
  <2>1. G \in SUBSET H /\ H \in SUBSET Hooks /\ mounted \in SUBSET Hooks
    BY <1>0
  <2>2. Cardinality(G) <= Cardinality(H) /\ Cardinality(G) \in Nat /\ Cardinality(H) \in Nat
    BY <2>1, HooksCount, FS_Subset
  <2>3. Cardinality(mounted \ H) = Cardinality(mounted) - Cardinality(H)
    <3>1. mounted \cap H = H
      OBVIOUS
    <3> QED BY <2>1, <3>1, HooksCount, FS_Difference
  <2>4. Counts
    BY <1>1, <1>6, <2>2, <2>3 DEF Unmount, Move, Counts
  <2> HIDE DEF G
  <2>5. Sets
    BY <1>0, <1>6 DEF Unmount, SocketStates
  <2> QED BY <2>4, <2>5
<1>7. CASE MountShell
  BY <1>0, <1>5, <1>7 DEF MountShell, Connects, SocketStates, WsStatuses, Hooks
<1>8. CASE MountPage
  BY <1>0, <1>5, <1>8 DEF MountPage, Connects, SocketStates, WsStatuses, Hooks
<1>9. CASE LeavePage
  BY <1>6, <1>9 DEF LeavePage
<1>10. CASE LeaveShell
  BY <1>6, <1>10 DEF LeaveShell
<1>11. ASSUME NEW h \in Hooks, SocketOpens(h) PROVE Counts /\ Sets
  BY <1>0, <1>1, <1>3, <1>11 DEF SocketOpens, SocketStates, WsStatuses
<1>12. ASSUME NEW h \in Hooks, SocketCloses(h) PROVE Counts /\ Sets
  BY <1>0, <1>1, <1>3, <1>12 DEF SocketCloses, SocketStates, WsStatuses
<1>13. ASSUME NEW h \in Hooks, Retry(h) PROVE Counts /\ Sets
  BY <1>0, <1>1, <1>3, <1>13 DEF Retry, Connects, SocketStates, WsStatuses
<1>14. CASE GhostError
  BY <1>0, <1>1, <1>14 DEF GhostError, WsStatuses, Counts
<1>15. ASSUME NEW S \in SUBSET Feeds, Track(S) PROVE Counts /\ Sets
  BY <1>0, <1>1, <1>15 DEF Track, Move, Counts
<1>16. CASE UNCHANGED socketVars
  BY <1>0, <1>1, <1>3, <1>16 DEF socketVars
<1> QED
  BY <1>7, <1>8, <1>9, <1>10, <1>11, <1>12, <1>13, <1>14, <1>15, <1>16 DEF SocketNext, Network

-----------------------------------------------------------------------------
(* The quotes and the portfolio, in full *)

\* A poll that waits brings prices of companies, and a refresh the portfolio of a moment.
PollAnswers == UNION {[D -> Marks] : D \in SUBSET Companies}

RefreshCalls == [totals : Positions, holdings : Copied]

QuotesTyped ==
  /\ quotes \in [Keys -> Entries]
  /\ feedUp \in BOOLEAN /\ trading \in BOOLEAN
  /\ owned \in Positions /\ totals \in Positions
  /\ booking \in Trades \cup {NoTrade}
  /\ copies \in [totals : Copied, holdings : Copied]
  /\ holdings \in Payloads
  /\ polls \subseteq PollAnswers /\ refreshes \subseteq RefreshCalls
  /\ ticks \in 0 .. MaxTicks

LEMMA QuotesTypedShows == QuotesTyped => QuotesTypeOK
<1>1. \A p \in PollAnswers : DOMAIN p \subseteq Companies
  BY DEF PollAnswers
<1> QED
  BY <1>1 DEF QuotesTyped, QuotesTypeOK, Positions, RefreshCalls

LEMMA PositionsTyped == \A hs \in Payloads : PositionsOf(hs) \in Positions
  BY DEF PositionsOf, Positions, Payloads, Held

LEMMA QuotesTypedInit == QuotesInit => QuotesTyped
<1> SUFFICES ASSUME QuotesInit PROVE QuotesTyped
  OBVIOUS
<1>1. NoEntry \in Entries
  BY DEF NoEntry, Entries
<1>2. AnyMark \in Marks
  BY QuotesInNat DEF AnyMark
<1>3. [quantity |-> 0, price |-> AnyMark] \in Held
  BY <1>2 DEF Held, Quantities
<1>4. holdings \in Payloads
  BY <1>3 DEF QuotesInit, Payloads
<1>5. ticks \in 0 .. MaxTicks
  BY QuotesInNat DEF QuotesInit
<1>6. quotes \in [Keys -> Entries]
  BY <1>1 DEF QuotesInit
<1>7. owned \in Positions /\ totals \in Positions /\ feedUp \in BOOLEAN /\ trading \in BOOLEAN
  BY DEF QuotesInit, Quantities, Positions
<1>8. /\ polls = {} /\ refreshes = {} /\ booking = NoTrade
      /\ copies \in [totals : Copied, holdings : Copied]
  BY DEF QuotesInit, NoCopies, Copied
<1> QED
  BY <1>4, <1>5, <1>6, <1>7, <1>8 DEF QuotesTyped

LEMMA RepricedTyped ==
  ASSUME holdings \in Payloads, NEW m \in PollAnswers
  PROVE  Repriced(m) \in Payloads
<1>1. ASSUME NEW c \in Companies
      PROVE  (IF c \in DOMAIN m /\ holdings[c].quantity # 0
              THEN [holdings[c] EXCEPT !.price = m[c]] ELSE holdings[c]) \in Held
  <2>1. holdings[c] \in Held
    BY DEF Payloads
  <2>2. c \in DOMAIN m => m[c] \in Marks
    BY DEF PollAnswers
  <2> QED BY <2>1, <2>2 DEF Held
<1> QED
  BY <1>1 DEF Repriced, Payloads

LEMMA QuotesTypedNext == QuotesTyped /\ [QuotesNext]_quoteVars => QuotesTyped'
<1> SUFFICES ASSUME QuotesTyped, [QuotesNext]_quoteVars PROVE QuotesTyped'
  OBVIOUS
<1>0. /\ quotes \in [Keys -> Entries]
      /\ feedUp \in BOOLEAN /\ trading \in BOOLEAN
      /\ owned \in Positions /\ totals \in Positions
      /\ booking \in Trades \cup {NoTrade}
      /\ copies \in [totals : Copied, holdings : Copied]
      /\ holdings \in Payloads
      /\ polls \subseteq PollAnswers /\ refreshes \subseteq RefreshCalls
      /\ ticks \in 0 .. MaxTicks
  BY DEF QuotesTyped
<1>1. Happens => ticks' \in 0 .. MaxTicks
  <2>1. MaxTicks \in Nat
    BY QuotesInNat
  <2> QED BY <1>0, <2>1 DEF Happens
<1>2. ASSUME NEW marks \in PollAnswers, ApplyLiveQuotes(marks)
      PROVE  holdings' \in Payloads /\ totals' \in Positions
  BY <1>0, <1>2, PositionsTyped, RepricedTyped DEF ApplyLiveQuotes
<1>3. ASSUME NEW k \in Keys, NEW m \in Marks, Tick(k, m) PROVE QuotesTyped'
  <2>1. quotes' \in [Keys -> Entries]
    <3>1. [price |-> m, live |-> TRUE, fresh |-> TRUE] \in Entries
      BY DEF Entries
    <3> QED BY <1>0, <1>3, <3>1 DEF Tick, UpdateQuote
  <2>2. [c \in {k.company} |-> m] \in PollAnswers
    <3>1. PICK D \in SUBSET Companies : D = {k.company}
      BY QuotesInNat DEF Keys
    <3>2. [c \in D |-> m] \in [D -> Marks]
      OBVIOUS
    <3> QED BY <3>1, <3>2 DEF PollAnswers
  <2>3. holdings' \in Payloads /\ totals' \in Positions
    BY <1>0, <1>2, <1>3, <2>2 DEF Tick
  <2> QED BY <1>0, <1>1, <1>3, <2>1, <2>3 DEF Tick, backendVars, QuotesTyped
<1>4. CASE FiveSecondsPass
  <2>1. quotes' \in [Keys -> Entries]
    <3>1. \A k \in Keys : [quotes[k] EXCEPT !.fresh = FALSE] \in Entries
      BY <1>0 DEF Entries
    <3> QED BY <1>4, <3>1 DEF FiveSecondsPass
  <2> QED BY <1>0, <1>4, <2>1 DEF FiveSecondsPass, backendVars, QuotesTyped
<1>5. CASE FeedChanges
  BY <1>0, <1>1, <1>5 DEF FeedChanges, backendVars, QuotesTyped
<1>6. CASE StartPoll
  <2>1. PICK m \in PollAnswers : polls' = polls \cup {m}
    <3>1. {c \in Companies : holdings[c].quantity # 0} \in SUBSET Companies
      OBVIOUS
    <3> QED BY <1>6, <3>1 DEF StartPoll, PollAnswers
  <2> QED BY <1>0, <1>1, <1>6, <2>1 DEF StartPoll, backendVars, QuotesTyped
<1>7. ASSUME NEW m \in polls, PollAnswered(m) PROVE QuotesTyped'
  <2>1. quotes' \in [Keys -> Entries]
    <3>1. ASSUME NEW moved \in SUBSET Keys, \A k \in moved : k.company \in DOMAIN m
          PROVE  [k \in Keys |-> IF k \in moved
                    THEN [price |-> m[k.company], live |-> FALSE, fresh |-> TRUE]
                    ELSE quotes[k]] \in [Keys -> Entries]
      <4>1. \A c \in DOMAIN m : m[c] \in Marks
        BY <1>0 DEF PollAnswers
      <4>2. \A k \in moved : [price |-> m[k.company], live |-> FALSE, fresh |-> TRUE] \in Entries
        BY <3>1, <4>1 DEF Entries
      <4> QED BY <1>0, <4>2
    <3>2. CASE UNCHANGED quotes
      BY <1>0, <3>2
    <3>3. CASE ~UNCHANGED quotes
      <4> DEFINE touched == {k \in Keys : k.form # "BO" /\ k.company \in DOMAIN m}
                 news == {k \in touched : ~Protected(quotes[k], FALSE)}
                 moved == {k \in news : \E a \in news : a.company = k.company
                                             /\ quotes[a].price # m[k.company]}
      <4>1. moved \in SUBSET Keys /\ \A k \in moved : k.company \in DOMAIN m
        OBVIOUS
      <4>2. quotes' = [k \in Keys |-> IF k \in moved
                    THEN [price |-> m[k.company], live |-> FALSE, fresh |-> TRUE]
                    ELSE quotes[k]]
        BY <1>7, <3>3 DEF PollAnswered
      <4> HIDE DEF moved
      <4> QED BY <3>1, <4>1, <4>2
    <3> QED BY <3>2, <3>3
  <2>2. holdings' \in Payloads /\ totals' \in Positions
    <3>1. ApplyLiveQuotes(m) \/ UNCHANGED <<holdings, totals>>
      BY <1>7 DEF PollAnswered
    <3> QED BY <1>0, <1>2, <3>1
  <2>3. polls' \subseteq PollAnswers
    BY <1>0, <1>7 DEF PollAnswered
  <2>4. UNCHANGED <<feedUp, trading, owned, booking, copies, refreshes, ticks>>
    BY <1>7 DEF PollAnswered, backendVars
  <2> QED BY <1>0, <2>1, <2>2, <2>3, <2>4 DEF QuotesTyped
<1>8. ASSUME NEW c \in Companies, NEW q \in Quantities, TradeBooked(c, q) \/ TradeByWorker(c, q)
      PROVE  QuotesTyped'
  <2>1. [company |-> c, quantity |-> q] \in Trades /\ [owned EXCEPT ![c] = q] \in Positions
    BY <1>0 DEF Trades, Positions
  <2>2. NoCopies \in [totals : Copied, holdings : Copied]
    BY DEF NoCopies, Copied
  <2> QED
    BY <1>0, <1>1, <1>8, <2>1, <2>2 DEF TradeBooked, TradeByWorker, shopVars, QuotesTyped
<1>9. CASE BookingEnds
  <2>1. booking \in Trades => [owned EXCEPT ![booking.company] = booking.quantity] \in Positions
    BY <1>0 DEF Trades, Positions
  <2> QED BY <1>0, <1>9, <2>1 DEF BookingEnds, shopVars, QuotesTyped
<1>10. CASE TotalsExpire \/ HoldingsExpire
  <2>1. copies' \in [totals : Copied, holdings : Copied]
    BY <1>0, <1>10 DEF TotalsExpire, HoldingsExpire, Copied
  <2> QED BY <1>0, <1>10, <2>1 DEF TotalsExpire, HoldingsExpire, shopVars, QuotesTyped
<1>11. CASE StartRefresh
  <2>1. PICK served \in Positions :
          /\ copies' = [copies EXCEPT !.totals = served]
          /\ refreshes' = refreshes \cup {[totals |-> served, holdings |-> NoCopy]}
    BY <1>0, <1>11 DEF StartRefresh, ServeTotals, Copied
  <2>2. copies' \in [totals : Copied, holdings : Copied]
    BY <1>0, <2>1 DEF Copied
  <2>3. refreshes' \subseteq RefreshCalls
    BY <1>0, <2>1 DEF RefreshCalls, Copied
  <2> QED BY <1>0, <1>11, <2>2, <2>3 DEF StartRefresh, storeVars, QuotesTyped
<1>12. ASSUME NEW call \in refreshes, HoldingsServed(call) PROVE QuotesTyped'
  <2>1. PICK served \in Positions :
          /\ copies' = [copies EXCEPT !.holdings = served]
          /\ refreshes' = (refreshes \ {call}) \cup {[call EXCEPT !.holdings = served]}
    BY <1>0, <1>12 DEF HoldingsServed, Copied
  <2>2. copies' \in [totals : Copied, holdings : Copied]
    BY <1>0, <2>1 DEF Copied
  <2>3. refreshes' \subseteq RefreshCalls
    <3>1. [call EXCEPT !.holdings = served] \in RefreshCalls
      BY <1>0 DEF RefreshCalls, Copied
    <3> QED BY <1>0, <2>1, <3>1
  <2> QED BY <1>0, <1>12, <2>2, <2>3 DEF HoldingsServed, storeVars, QuotesTyped
<1>13. ASSUME NEW call \in refreshes, RefreshAnswered(call) PROVE QuotesTyped'
  <2>1. call.totals \in Positions /\ call.holdings \in Positions
    BY <1>0, <1>13 DEF RefreshAnswered, RefreshCalls, Copied
  <2>2. PICK m \in [Companies -> Marks] :
          holdings' = [c \in Companies |-> [quantity |-> call.holdings[c], price |-> m[c]]]
    BY <1>13 DEF RefreshAnswered
  <2>3. holdings' \in Payloads
    BY <2>1, <2>2 DEF Payloads, Held, Positions
  <2> QED BY <1>0, <1>13, <2>1, <2>3 DEF RefreshAnswered, storeVars, QuotesTyped
<1>14. ASSUME NEW call \in refreshes, RefreshFails(call) PROVE QuotesTyped'
  BY <1>0, <1>1, <1>14 DEF RefreshFails, storeVars, QuotesTyped
<1>15. CASE UNCHANGED quoteVars
  BY <1>0, <1>15 DEF quoteVars, QuotesTyped
<1> QED
  BY <1>3, <1>4, <1>5, <1>6, <1>7, <1>8, <1>9, <1>10, <1>11, <1>12, <1>13, <1>14, <1>15
  DEF QuotesNext, HoldingsRead, RefreshLands

-----------------------------------------------------------------------------
(* The chart, in full *)

\* A bar stands for the rows of its time, so there are no more bars than rows.
LEMMA BarsNoMoreThanRows ==
  ASSUME NEW rows \in Seq(CandleRows)
  PROVE  Len(NormalizeChartCandles(rows)) <= Len(rows)
<1> DEFINE good == {k \in 1 .. Len(rows) : Usable(rows[k].bar)}
           times == {rows[k].time : k \in good}
           n == Len(rows)
<1>1. n \in Nat /\ IsFiniteSet(1 .. n) /\ Cardinality(1 .. n) = n
  <2>1. n \in Nat
    BY LenProperties
  <2> HIDE DEF n
  <2> QED BY <2>1, FS_Interval
<1>2. good \subseteq 1 .. n
  OBVIOUS
<1>3. IsFiniteSet(good) /\ Cardinality(good) <= n
  BY <1>1, <1>2, FS_Subset
<1>4. times = {rows[k].time : k \in good}
  OBVIOUS
<1> HIDE DEF good, n
<1>5. IsFiniteSet(times) /\ Cardinality(times) <= Cardinality(good)
  <2> DEFINE f == [k \in good |-> rows[k].time]
  <2>1. f \in Surjection(good, times)
    BY <1>4 DEF Surjection
  <2> HIDE DEF f
  <2> QED BY <1>3, <2>1, FS_Surjection
<1>6. Cardinality(times) \in Nat /\ Cardinality(good) \in Nat
  BY <1>3, <1>5, FS_CardinalityType
<1> HIDE DEF times
<1>7. PICK m \in Nat : m = Cardinality(times) /\ m <= n
  BY <1>1, <1>3, <1>5, <1>6
<1>8. DOMAIN NormalizedAsGiven(rows) = 1 .. m
  BY <1>7 DEF NormalizedAsGiven, good, times
<1>9. DOMAIN NormalizeChartCandles(rows) = 1 .. m
  BY <1>8 DEF NormalizeChartCandles
<1>10. NormalizeChartCandles(rows) \in Seq(Bars)
  BY NormalizedAreBars
<1>11. Len(NormalizeChartCandles(rows)) = m
  BY <1>7, <1>9, <1>10, LenProperties
<1> QED BY <1>7, <1>11 DEF n

LEMMA MovedAsMany ==
  ASSUME NEW cs \in Seq(Bars), NEW p \in Nat
  PROVE  Len(Moved(cs, p)) = Len(cs)
<1>1. Moved(cs, p) \in Seq(Bars) /\ DOMAIN Moved(cs, p) = DOMAIN cs
  BY MovedAreBars DEF Moved
<1> QED BY <1>1, LenProperties

LEMMA RsiOfBars ==
  ASSUME NEW cs
  PROVE  DOMAIN Rsi(Closes(cs), Span) \subseteq Nat
<1>1. Span \in Nat
  BY ChartAssumption
<1>2. DOMAIN Rsi(Closes(cs), Span) = Span + 1 .. Len(Closes(cs))
  BY DEF Rsi
<1>3. \A a \in Nat : \A b : a + 1 .. b \subseteq Nat
  OBVIOUS
<1> QED BY <1>1, <1>2, <1>3

ChartTyped == ChartSound /\ ChartTypeOK

LEMMA ChartTypedFirst == ChartInit => ChartTyped
<1> SUFFICES ASSUME ChartInit PROVE ChartTyped
  OBVIOUS
<1>1. ChartSound
  BY ChartStarts
<1>2. Len(chartBars) = 0 /\ Len(history) = 0 /\ DOMAIN rsiPane = {}
  BY DEF ChartInit
<1>3. Len(chartBars) <= Len(history) /\ DOMAIN rsiPane \subseteq Nat
  BY <1>2
<1> QED BY <1>1, <1>3 DEF ChartTyped, ChartInit, ChartTypeOK

LEMMA CommitTyped ==
  ASSUME NEW ids, NEW cs, DrawLines(ids, cs), crashed \in BOOLEAN
  PROVE  crashed' \in BOOLEAN
BY DEF DrawLines

LEMMA ChartTypedOn == ChartTyped /\ [ChartNext]_chartVars => ChartTyped'
<1> SUFFICES ASSUME ChartTyped, [ChartNext]_chartVars PROVE ChartTyped'
  OBVIOUS
<1>1. ChartSound' /\ ChartSound
  BY ChartSteps DEF ChartTyped
<1>t. /\ chartSymbol \in Symbols /\ active \subseteq Ids /\ crashed \in BOOLEAN
      /\ DOMAIN rsiPane \subseteq Nat /\ Len(chartBars) <= Len(history)
      /\ history \in Seq(CandleRows) /\ chartBars \in Seq(Bars) /\ livePrice \in Nat
      /\ history' \in Seq(CandleRows) /\ chartBars' \in Seq(Bars) /\ livePrice' \in Nat
  BY <1>1 DEF ChartTyped, ChartTypeOK, ChartSound
<1>b. /\ Len(chartBars) \in Nat /\ Len(history) \in Nat /\ Len(history') \in Nat
      /\ Len(<< >>) = 0 /\ DOMAIN << >> = {}
  BY <1>t, LenProperties
<1>r. DOMAIN RsiPane(chartBars) \subseteq Nat
  BY <1>t, RsiOfBars DEF RsiPane
<1>n. \A p \in Nat : Len(Moved(NormalizeChartCandles(history'), p)) <= Len(history')
  BY <1>t, BarsNoMoreThanRows, NormalizedAreBars, MovedAsMany
<1>2. CASE SymbolChanges
  <2>1. /\ chartSymbol' \in Symbols /\ active' = {} /\ rsiPane' = << >> /\ crashed' = crashed
        /\ \E rows \in Histories \cup {<< >>} :
             /\ history' = rows
             /\ chartBars' = IF crashed THEN << >>
                             ELSE Moved(NormalizeChartCandles(rows), livePrice')
    BY <1>2 DEF SymbolChanges, Mounted
  <2>2. chartBars' = << >> \/ chartBars' = Moved(NormalizeChartCandles(history'), livePrice')
    BY <2>1
  <2>3. Len(chartBars') <= Len(history')
    BY <1>b, <1>n, <1>t, <2>2
  <2> QED BY <1>1, <1>b, <1>t, <2>1, <2>3 DEF ChartTyped, ChartTypeOK
<1>3. CASE CandlesArrive
  <2>1. PICK rows \in Answers : Show(rows, livePrice)
    BY <1>3 DEF CandlesArrive
  <2>2. chartBars' = Moved(NormalizeChartCandles(history'), livePrice)
        /\ DrawLines(active, chartBars')
    BY <2>1 DEF Show
  <2>3. crashed' \in BOOLEAN
    BY <1>t, <2>2, CommitTyped
  <2>4. Len(chartBars') <= Len(history')
    BY <1>n, <1>t, <2>2
  <2>5. rsiPane' = RsiPane(chartBars) /\ UNCHANGED <<chartSymbol, active>>
    BY <1>3 DEF CandlesArrive
  <2> QED BY <1>1, <1>r, <1>t, <2>3, <2>4, <2>5 DEF ChartTyped, ChartTypeOK
<1>4. CASE LiveTick \/ FeedFades
  <2>1. /\ chartBars' = chartBars \/ chartBars' = Moved(chartBars, livePrice')
        /\ rsiPane' \in {rsiPane, RsiPane(chartBars)}
        /\ UNCHANGED <<chartSymbol, history, active, crashed>>
    BY <1>4 DEF LiveTick, FeedFades
  <2>2. Len(chartBars') = Len(chartBars)
    BY <1>t, <2>1, MovedAsMany
  <2> QED BY <1>1, <1>r, <1>t, <2>1, <2>2 DEF ChartTyped, ChartTypeOK
<1>5. CASE ToggleIndicator
  <2>1. PICK id \in Ids :
          LET next == IF id \in active THEN active \ {id} ELSE active \cup {id}
          IN /\ active' = next
             /\ DrawLines(next, chartBars)
             /\ rsiPane' = IF id # "rsi14" THEN rsiPane
                           ELSE IF id \in next /\ chartBars # << >>
                           THEN Rsi(Closes(chartBars), Span) ELSE << >>
    BY <1>5 DEF ToggleIndicator
  <2>2. active' \subseteq Ids /\ DrawLines(active', chartBars)
    BY <1>t, <2>1
  <2>3. crashed' \in BOOLEAN
    BY <1>t, <2>2, CommitTyped
  <2>4. DOMAIN rsiPane' \subseteq Nat
    BY <1>b, <1>t, <2>1, RsiOfBars
  <2>5. UNCHANGED <<chartSymbol, history, chartBars>>
    BY <1>5 DEF ToggleIndicator
  <2> QED BY <1>1, <1>t, <2>2, <2>3, <2>4, <2>5 DEF ChartTyped, ChartTypeOK
<1>6. CASE ThemeChanges
  <2>1. /\ chartBars' = NormalizeChartCandles(history) /\ UNCHANGED <<chartSymbol, history, active>>
        /\ rsiPane' \in {<< >>, RsiPane(chartBars)}
        /\ crashed' = crashed \/ DrawLines(active, chartBars')
    BY <1>6 DEF ThemeChanges
  <2>2. crashed' \in BOOLEAN
    BY <1>t, <2>1, CommitTyped
  <2>3. Len(chartBars') <= Len(history')
    BY <1>t, <2>1, BarsNoMoreThanRows
  <2> QED BY <1>1, <1>b, <1>r, <1>t, <2>1, <2>2, <2>3 DEF ChartTyped, ChartTypeOK
<1>7. CASE TryAgain
  <2>1. /\ crashed' = FALSE /\ active' = {} /\ rsiPane' = << >> /\ chartBars' = << >>
        /\ UNCHANGED <<chartSymbol, history>>
    BY <1>7 DEF TryAgain, Mounted
  <2>2. Len(chartBars') <= Len(history') /\ DOMAIN rsiPane' = {}
    BY <1>b, <2>1
  <2> QED BY <1>1, <1>t, <2>1, <2>2 DEF ChartTyped, ChartTypeOK
<1>8. CASE UNCHANGED chartVars
  BY <1>1, <1>t, <1>8 DEF chartVars, ChartTyped, ChartTypeOK
<1> QED
  BY <1>2, <1>3, <1>4, <1>5, <1>6, <1>7, <1>8 DEF ChartNext

=============================================================================
