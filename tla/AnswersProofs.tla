----------------------------- MODULE AnswersProofs -----------------------------
(***************************************************************************)
(* Answers that come late.  Six parts of the browser ask the server and    *)
(* show what is answered: the candles of the chart, the cards of the       *)
(* strategies, the search boxes, the orders of futures, the profile and    *)
(* the capital.  In each of them an invariant says who still owes the page *)
(* what it lacks, for any number of requests, in any order of their        *)
(* answers and with any lost.                                              *)
(*                                                                         *)
(* Then the theorems on the behaviours of the whole browser: these         *)
(* answers, what its pages add up from the user's trades (BrowserProofs),  *)
(* and the types of all its components, each proved beside its other       *)
(* invariants.                                                             *)
(***************************************************************************)
EXTENDS MCBrowser, BrowserProofs, WorkspaceProofs, WatchlistProofs, SequenceTheorems,
        FiniteSetTheorems, TLAPS

(***************************************************************************)
(* The chart.  A request and a retry outlive the choice they were made     *)
(* for, so nothing is said of the symbol they ask for: only the choice of  *)
(* a symbol, the first attempt of its fetch and an answer for the selected *)
(* symbol change what is shown, and no retry is a first attempt            *)
(* (RetryLater).                                                           *)
(***************************************************************************)
Asks(r) == r # NoTimer => r \in [key : CacheKeys, attempt : Nat]
RetryLater(r) == r # NoTimer => r.attempt # 0
ShowsOf(c, symbol) == c # NoCandles => c.symbol = symbol

ChartInv ==
  /\ selected \in CacheKeys /\ candles \in CacheKeys \cup {NoCandles}
  /\ Asks(request) /\ Asks(retry) /\ RetryLater(retry)
  /\ ShowsOf(candles, selected.symbol)

\* Whatever branch a fetch takes, it shows the symbol asked for, or nothing, if
\* that is what it began with.
LEMMA FetchShows ==
  ASSUME NEW k \in CacheKeys, NEW c \in CacheKeys \cup {NoCandles}, NEW attempt \in Nat,
         NEW s, NEW req, NEW later, FetchCandles(k, attempt, c, s, req, later),
         Asks(req), Asks(later), RetryLater(later), ShowsOf(c, k.symbol)
  PROVE  /\ candles' \in CacheKeys \cup {NoCandles} /\ ShowsOf(candles', k.symbol)
         /\ Asks(request') /\ Asks(retry') /\ RetryLater(retry')
<1>1. candles' \in {k, c}
  BY DEF FetchCandles, Shown
<1>2. retry' = later \/ retry' = [key |-> k, attempt |-> attempt + 1]
  BY DEF FetchCandles
<1>3. request' = req \/ request' = [key |-> k, attempt |-> attempt]
  BY DEF FetchCandles
<1> QED
  BY <1>1, <1>2, <1>3 DEF Asks, RetryLater, ShowsOf

\* Only the first attempt of a fetch shows what the cache has.
LEMMA RetryShowsNothing ==
  ASSUME NEW k \in CacheKeys, NEW attempt \in Nat \ {0}, NEW s, NEW req, NEW later,
         FetchCandles(k, attempt, candles, s, req, later),
         Asks(req), Asks(later), RetryLater(later)
  PROVE  candles' = candles /\ Asks(request') /\ Asks(retry') /\ RetryLater(retry')
<1>1. candles' = candles
  BY DEF FetchCandles, Shown
<1>2. retry' = later \/ retry' = [key |-> k, attempt |-> attempt + 1]
  BY DEF FetchCandles
<1>3. request' = req \/ request' = [key |-> k, attempt |-> attempt]
  BY DEF FetchCandles
<1> QED
  BY <1>1, <1>2, <1>3 DEF Asks, RetryLater

LEMMA NoTimerAsks == Asks(NoTimer) /\ RetryLater(NoTimer)
BY DEF Asks, RetryLater

LEMMA ChartInvInit == DataInit => ChartInv
BY NoTimerAsks DEF DataInit, ChartInv, Asks, ShowsOf

LEMMA ChartInvNext == ChartInv /\ [DataNext]_dataVars => ChartInv'
<1> SUFFICES ASSUME ChartInv, [DataNext]_dataVars PROVE ChartInv'
  OBVIOUS
<1>1. CASE SelectSymbol
  <2>1. PICK symbol \in Charted \ {selected.symbol} : ChangeTo(symbol)
    BY <1>1 DEF SelectSymbol
  <2> DEFINE k == [selected EXCEPT !.symbol = symbol]
  <2>2. k \in CacheKeys /\ k.symbol = symbol
    BY DEF ChartInv, CacheKeys
  <2>3. PICK c \in Latest(symbol) : FetchCandles(k, 0, c, c = NoCandles, NoTimer, NoTimer)
    BY <2>1 DEF ChangeTo
  <2>4. c \in CacheKeys \cup {NoCandles} /\ ShowsOf(c, symbol)
    BY DEF Latest, Cached, ShowsOf
  <2>5. selected' = k
    BY <2>1 DEF ChangeTo
  <2> HIDE DEF k
  <2> QED
    BY <2>2, <2>3, <2>4, <2>5, FetchShows, NoTimerAsks DEF ChartInv
<1>2. CASE SelectPeriod
  <2>1. PICK p \in Periods \ {selected.period} :
          /\ selected' = [selected EXCEPT !.period = p]
          /\ FetchCandles(selected', 0, candles, chartLoading, request, retry)
    BY <1>2 DEF SelectPeriod
  <2>2. selected' \in CacheKeys /\ selected'.symbol = selected.symbol
    BY <2>1 DEF ChartInv, CacheKeys
  <2> QED
    BY <2>1, <2>2, FetchShows DEF ChartInv
<1>3. CASE RetryFires
  <2>1. /\ retry # NoTimer /\ UNCHANGED selected
        /\ FetchCandles(retry.key, retry.attempt, candles, chartLoading, request, NoTimer)
    BY <1>3 DEF RetryFires
  <2>2. retry.key \in CacheKeys /\ retry.attempt \in Nat \ {0}
    BY <2>1 DEF ChartInv, Asks, RetryLater
  <2>3. candles' = candles /\ Asks(request') /\ Asks(retry') /\ RetryLater(retry')
    BY <2>1, <2>2, RetryShowsNothing, NoTimerAsks DEF ChartInv
  <2> QED
    BY <2>1, <2>3 DEF ChartInv
<1>4. CASE CandlesAnswered
  <2>1. UNCHANGED selected /\ request # NoTimer /\ request' = NoTimer
    BY <1>4 DEF CandlesAnswered
  <2>2. \/ candles' = request.key /\ retry' = NoTimer /\ request.key.symbol = selected.symbol
        \/ UNCHANGED <<candles, retry>>
    BY <1>4 DEF CandlesAnswered, Current
  <2> QED
    BY <2>1, <2>2, NoTimerAsks DEF ChartInv, Asks, ShowsOf
<1>5. CASE CandlesFail
  <2>1. UNCHANGED selected /\ request # NoTimer /\ request' = NoTimer
    BY <1>5 DEF CandlesFail
  <2>2. candles' \in {candles, NoCandles}
        /\ retry' \in {retry, [request EXCEPT !.attempt = @ + 1]}
    BY <1>5 DEF CandlesFail
  <2>3. request \in [key : CacheKeys, attempt : Nat]
    BY <2>1 DEF ChartInv, Asks
  <2>4. LET r == [request EXCEPT !.attempt = @ + 1] IN Asks(r) /\ RetryLater(r)
    BY <2>3 DEF Asks, RetryLater
  <2> QED
    BY <2>1, <2>2, <2>4, NoTimerAsks DEF ChartInv, ShowsOf
<1>6. CASE PollQuote \/ RefreshMarketSession \/ PauseEnds \/ CacheAges \/ UNCHANGED dataVars
  BY <1>6 DEF PollQuote, RefreshMarketSession, PauseEnds, CacheAges, dataVars, ChartInv
<1> QED
  BY <1>1, <1>2, <1>3, <1>4, <1>5, <1>6 DEF DataNext, DataMoves

\* The chart never shows the candles of another symbol, however late an answer,
\* a retry or the cache is (useMarketData.js:49, 199).
THEOREM ChartOfItsSymbol == DataSpec => []CandlesAreOfSymbol
<1>1. ChartInv => CandlesAreOfSymbol
  BY DEF ChartInv, ShowsOf, CandlesAreOfSymbol
<1> QED
  BY <1>1, ChartInvInit, ChartInvNext, PTL DEF DataSpec

-----------------------------------------------------------------------------
(***************************************************************************)
(* The search boxes.  The text was sent by the timer that ended last, so   *)
(* its request is the last of those under way, or it was answered; all     *)
(* others came before it and are marked as late by its answer.             *)
(***************************************************************************)
Searches == [of : Words \cup {NoWord}, late : BOOLEAN]

RequestUnderWay == searches # <<>> /\ searches[Len(searches)].of = query
RequestAnswered ==
  /\ \A i \in 1 .. Len(searches) : searches[i].late
  /\ overtaken \/ results \in {query, NoWord}
  /\ ~isSearching

SearchInv ==
  /\ query \in Words \cup {NoWord} /\ timer \in Words \cup {NoWord}
  /\ searches \in Seq(Searches)
  /\ timer \in {query, NoWord}
  /\ timer = NoWord /\ query # NoWord => RequestUnderWay \/ RequestAnswered

LEMMA Removed ==
  ASSUME NEW S, NEW s \in Seq(S), NEW i \in 1 .. Len(s)
  PROVE  /\ RemoveAt(s, i) \in Seq(S) /\ Len(RemoveAt(s, i)) = Len(s) - 1
         /\ \A j \in 1 .. i - 1 : RemoveAt(s, i)[j] = s[j]
         /\ \A j \in i .. Len(s) - 1 : RemoveAt(s, i)[j] = s[j + 1]
<1> DEFINE a == SubSeq(s, 1, i - 1)
           b == SubSeq(s, i + 1, Len(s))
<1>1. Len(s) \in Nat /\ \A j \in 1 .. Len(s) : s[j] \in S
  BY LenProperties, ElementOfSeq
<1>2. /\ a \in Seq(S) /\ Len(a) = i - 1
      /\ \A j \in 1 .. i - 1 : a[j] = s[j]
  <2>1. \A j \in 1 .. i - 1 : s[j] \in S
    BY <1>1
  <2>2. /\ a \in Seq(S) /\ Len(a) = IF 1 <= i - 1 THEN (i - 1) - 1 + 1 ELSE 0
        /\ \A j \in 1 .. (i - 1) - 1 + 1 : a[j] = s[1 + j - 1]
    BY <2>1, SubSeqProperties
  <2> QED
    BY <2>2
<1>3. /\ b \in Seq(S) /\ Len(b) = Len(s) - i
      /\ \A j \in 1 .. Len(s) - i : b[j] = s[i + j]
  <2>1. \A j \in i + 1 .. Len(s) : s[j] \in S
    BY <1>1
  <2>2. /\ b \in Seq(S) /\ Len(b) = IF i + 1 <= Len(s) THEN Len(s) - (i + 1) + 1 ELSE 0
        /\ \A j \in 1 .. Len(s) - (i + 1) + 1 : b[j] = s[(i + 1) + j - 1]
    BY <1>1, <2>1, SubSeqProperties
  <2> QED
    BY <1>1, <2>2
<1> HIDE DEF a, b
<1>4. /\ a \o b \in Seq(S) /\ Len(a \o b) = Len(a) + Len(b)
      /\ \A j \in 1 .. Len(a) + Len(b) : (a \o b)[j] = IF j <= Len(a) THEN a[j] ELSE b[j - Len(a)]
  BY <1>2, <1>3, ConcatProperties
<1>5. RemoveAt(s, i) = a \o b
  BY DEF RemoveAt, a, b
<1> DEFINE r == a \o b
<1>6. r \in Seq(S) /\ Len(r) = Len(s) - 1
  BY <1>1, <1>2, <1>3, <1>4
<1>7. ASSUME NEW j \in 1 .. i - 1 PROVE r[j] = s[j]
  BY <1>1, <1>2, <1>3, <1>4
<1>8. ASSUME NEW j \in i .. Len(s) - 1 PROVE r[j] = s[j + 1]
  <2>1. r[j] = b[j - (i - 1)] /\ j - (i - 1) \in 1 .. Len(s) - i
    BY <1>1, <1>2, <1>3, <1>4
  <2>2. i + (j - (i - 1)) = j + 1
    BY <1>1
  <2> QED
    BY <1>3, <2>1, <2>2
<1> QED
  BY <1>5, <1>6, <1>7, <1>8

LEMMA SearchInvInit == SearchInit => SearchInv
<1>1. <<>> \in Seq(Searches)
  BY EmptySeq
<1> QED
  BY <1>1 DEF SearchInit, SearchInv

\* A changed or renewed text waits for its timer.
LEMMA SearchedKeeps ==
  ASSUME SearchInv, NEW word \in Words \cup {NoWord}, NEW focused, NEW suggested,
         Searched(word, focused, suggested), UNCHANGED searches
  PROVE  SearchInv'
BY DEF SearchInv, Searched

LEMMA BoxUnchanged ==
  SearchInv /\ UNCHANGED <<query, results, timer, searches, isSearching, overtaken>> => SearchInv'
BY DEF SearchInv, RequestUnderWay, RequestAnswered

LEMMA AnsweredKeeps == SearchInv /\ SearchAnswered => SearchInv'
<1> SUFFICES ASSUME SearchInv, SearchAnswered PROVE SearchInv'
  OBVIOUS
<1>1. PICK i \in DOMAIN searches, found \in BOOLEAN :
        /\ searches' = RemoveAt([j \in DOMAIN searches |->
                                   [searches[j] EXCEPT !.late = @ \/ j < i]], i)
        /\ results' = IF found THEN searches[i].of ELSE NoWord
        /\ isSearching' = FALSE /\ overtaken' = searches[i].late
        /\ UNCHANGED <<query, timer>>
  BY DEF SearchAnswered
<1> DEFINE n == Len(searches)
           marked == [j \in DOMAIN searches |-> [searches[j] EXCEPT !.late = @ \/ j < i]]
<1>2. n \in Nat /\ DOMAIN searches = 1 .. n /\ \A j \in 1 .. n : searches[j] \in Searches
  BY LenProperties, ElementOfSeq DEF SearchInv
<1>3. \A j \in 1 .. n : /\ marked[j] \in Searches /\ marked[j].of = searches[j].of
                        /\ j < i => marked[j].late
                        /\ searches[j].late => marked[j].late
  <2>1. SUFFICES ASSUME NEW j \in 1 .. n
                 PROVE  /\ marked[j] \in Searches /\ marked[j].of = searches[j].of
                        /\ j < i => marked[j].late
                        /\ searches[j].late => marked[j].late
    OBVIOUS
  <2> DEFINE late == searches[j].late \/ j < i
  <2>2. marked[j] = [searches[j] EXCEPT !.late = late]
    BY <1>2
  <2>3. late \in BOOLEAN /\ (j < i => late) /\ (searches[j].late => late)
    BY Zenon
  <2> HIDE DEF marked, late
  <2>4. marked[j] \in Searches /\ marked[j].of = searches[j].of /\ marked[j].late = late
    BY <1>2, <2>2, <2>3 DEF Searches
  <2> QED
    BY <2>3, <2>4, Zenon
<1>4. marked \in Seq(Searches) /\ Len(marked) = n
  <2>1. marked \in [1 .. n -> Searches]
    BY <1>2, <1>3
  <2> HIDE DEF marked, n
  <2>2. marked \in Seq(Searches)
    BY <1>2, <2>1, SeqDef
  <2> QED
    BY <1>2, <2>1, <2>2, LenProperties
<1> HIDE DEF marked
<1>5. /\ searches' \in Seq(Searches) /\ Len(searches') = n - 1
      /\ \A j \in 1 .. i - 1 : searches'[j] = marked[j]
      /\ \A j \in i .. n - 1 : searches'[j] = marked[j + 1]
  <2>1. i \in 1 .. Len(marked) /\ searches' = RemoveAt(marked, i)
    BY <1>1, <1>2, <1>4 DEF marked
  <2> HIDE DEF n
  <2> QED
    BY <1>4, <2>1, Removed
<1>6. SUFFICES ASSUME timer = NoWord, query # NoWord
               PROVE  RequestUnderWay' \/ RequestAnswered'
  BY <1>1, <1>5 DEF SearchInv
<1>7. CASE RequestUnderWay /\ i = n
  <2>1. results' \in {query, NoWord} /\ UNCHANGED query
    BY <1>1, <1>7 DEF RequestUnderWay
  <2>2. \A j \in 1 .. n - 1 : searches'[j].late
    <3>1. i = n /\ \A j \in 1 .. n - 1 : j < i /\ j \in 1 .. n /\ searches'[j] = marked[j]
      BY <1>2, <1>5, <1>7
    <3> QED
      BY <1>3, <3>1
  <2>3. Len(searches') = n - 1 /\ ~isSearching'
    BY <1>1, <1>5
  <2> HIDE DEF n
  <2> QED
    BY <2>1, <2>2, <2>3 DEF RequestAnswered
<1>8. CASE RequestUnderWay /\ i # n
  <2>1. i \in 1 .. n - 1 /\ n - 1 \in i .. n - 1
    BY <1>1, <1>2, <1>8
  <2>2. searches'[n - 1] = marked[n]
    BY <1>2, <1>5, <2>1
  <2>3. searches'[n - 1].of = query
    BY <1>2, <1>3, <1>8, <2>2 DEF RequestUnderWay
  <2>4. searches' # <<>>
    BY <1>2, <1>5, <2>1, EmptySeq
  <2> QED
    BY <1>1, <1>5, <2>3, <2>4 DEF RequestUnderWay
<1>9. CASE RequestAnswered
  <2>1. overtaken'
    BY <1>1, <1>2, <1>9 DEF RequestAnswered
  <2>2. \A j \in 1 .. n - 1 : searches'[j].late
    <3>1. \A j \in 1 .. n : marked[j].late
      BY <1>3, <1>9 DEF RequestAnswered
    <3>2. ASSUME NEW j \in 1 .. n - 1
          PROVE  searches'[j] = marked[j] \/ searches'[j] = marked[j + 1]
      <4>1. j \in 1 .. i - 1 \/ j \in i .. n - 1
        BY <1>1, <1>2
      <4> HIDE DEF n
      <4> QED
        BY <1>5, <4>1
    <3>3. \A j \in 1 .. n - 1 : j \in 1 .. n /\ j + 1 \in 1 .. n
      BY <1>2
    <3> HIDE DEF n
    <3> QED
      BY <3>1, <3>2, <3>3
  <2> QED
    BY <1>1, <1>5, <2>1, <2>2 DEF RequestAnswered
<1> QED
  BY <1>6, <1>7, <1>8, <1>9 DEF SearchInv

LEMMA TimerKeeps == SearchInv /\ TimerEnds => SearchInv'
<1> SUFFICES ASSUME SearchInv, TimerEnds PROVE SearchInv'
  OBVIOUS
<1> DEFINE asking == [of |-> timer, late |-> FALSE]
<1>1. /\ timer # NoWord /\ timer' = NoWord /\ UNCHANGED query
      /\ searches' = Append(searches, asking)
  BY DEF TimerEnds
<1>2. asking \in Searches
  BY DEF SearchInv, Searches
<1> HIDE DEF asking
<1>3. /\ searches' \in Seq(Searches) /\ Len(searches') = Len(searches) + 1
      /\ searches'[Len(searches) + 1] = asking
  BY <1>1, <1>2, AppendProperties DEF SearchInv
<1>4. Len(searches) \in Nat
  BY LenProperties DEF SearchInv
<1>5. searches' # <<>>
  BY <1>3, <1>4, EmptySeq
<1>6. asking.of = query
  BY <1>1 DEF SearchInv, asking
<1> QED
  BY <1>1, <1>3, <1>5, <1>6 DEF SearchInv, RequestUnderWay

LEMMA SearchInvNext == SearchInv /\ [SearchNext]_searchVars => SearchInv'
<1> SUFFICES ASSUME SearchInv, [SearchNext]_searchVars PROVE SearchInv'
  OBVIOUS
<1>1. NoWord \in Words \cup {NoWord} /\ query \in Words \cup {NoWord}
  BY DEF SearchInv
<1>2. CASE TypeQuery
  BY <1>2, SearchedKeeps DEF TypeQuery
<1>3. CASE OpenDialog \/ SelectResult
  BY <1>1, <1>3, SearchedKeeps DEF OpenDialog, SelectResult
<1>4. CASE CloseSearch
  BY <1>1, <1>4, SearchedKeeps, BoxUnchanged DEF CloseSearch
<1>5. CASE PopularAnswered
  BY <1>1, <1>5, SearchedKeeps, BoxUnchanged DEF PopularAnswered
<1>6. CASE FocusSearch
  BY <1>6 DEF FocusSearch, SearchInv
<1>7. CASE UNCHANGED searchVars
  BY <1>7, BoxUnchanged DEF searchVars
<1> QED
  BY <1>2, <1>3, <1>4, <1>5, <1>6, <1>7, TimerKeeps, AnsweredKeeps DEF SearchNext, SearchMoves

LEMMA SearchInvShows == SearchInv => SearchIsOfQuery
  BY DEF SearchInv, SearchIsOfQuery, RequestUnderWay, RequestAnswered

\* Once nothing is under way, what a search box shows was found for its text,
\* unless an earlier request was answered last, and its spinner has ended
\* (AddSymbolModal.jsx:39-60, Navbar.jsx:273-291).
THEOREM SearchOfItsText == SearchSpec => []SearchIsOfQuery
<1> QED
  BY SearchInvShows, SearchInvInit, SearchInvNext, PTL DEF SearchSpec

-----------------------------------------------------------------------------
(***************************************************************************)
(* The cards of the strategies.  Whatever the server has changed is still  *)
(* owed to the page: by the answer of the request that changed it, or by   *)
(* the load that this answer began; unless that answer was lost.  Likewise *)
(* for the log of the card chosen.                                         *)
(***************************************************************************)
AlgoAsks == [kind : Kinds2, of : Bots \cup {NoBot}, state : {"sent", "done", "refused"},
             served : Cards, n : 0 .. MaxCommands]

CardsOwed == \E r \in asked : r.kind = "load" \/ (r.kind # "logs" /\ r.state = "done")
LogsOwed == \E r \in asked : r.kind = "logs"

AlgoInv ==
  /\ AlgoTypeOK /\ asked \subseteq AlgoAsks /\ commands \in 0 .. MaxCommands
  /\ stale \/ cards = bots \/ CardsOwed
  /\ outrun \/ logsOf = selectedBot \/ LogsOwed

\* The strategies of the server, as a function of those there are.
LEMMA CardsAre ==
  ASSUME NEW f
  PROVE  f \in Cards <=> /\ DOMAIN f \subseteq Bots
                         /\ f \in [DOMAIN f -> [active : BOOLEAN, edited : BOOLEAN]]
BY DEF Cards

LEMMA FormsAre ==
  ASSUME NEW f
  PROVE  f \in BotForms <=> \E o \in BOOLEAN, t \in Types : f = [open |-> o, type |-> t, params |-> t]
BY DEF BotForms

LEMMA FirstFormIs == FirstForm \in BotForms
<1>1. FALSE \in BOOLEAN /\ "SMA_CROSSOVER" \in Types
  BY DEF Types
<1> QED
  BY <1>1, FormsAre DEF FirstForm

LEMMA NoCardsAre == NoCards \in Cards
BY CardsAre DEF NoCards

LEMMA AlgoInvInit == AlgoInit => AlgoInv
<1> SUFFICES ASSUME AlgoInit PROVE AlgoInv
  OBVIOUS
<1>1. cards \in Cards /\ bots \in Cards
  <2>1. (CHOOSE x \in Bots : TRUE) \in Bots
    BY AlgoAssumption
  <2> QED
    BY <2>1, NoCardsAre, CardsAre DEF AlgoInit
<1>2. asked = {Ask2("load", NoBot)} /\ commands = 0
  BY DEF AlgoInit
<1>3. asked \subseteq AlgoAsks /\ CardsOwed
  BY <1>2, NoCardsAre, AlgoAssumption DEF Ask2, AlgoAsks, Kinds2, CardsOwed
<1>4. AlgoTypeOK
  <2>1. \A r \in asked : r.kind \in Kinds2 /\ r.of \in Bots \cup {NoBot} /\ r.served \in Cards
    BY <1>3 DEF AlgoAsks
  <2> QED
    BY <1>1, <2>1, FirstFormIs DEF AlgoInit, AlgoTypeOK
<1> QED
  BY <1>2, <1>3, <1>4, AlgoAssumption DEF AlgoInit, AlgoInv

\* A request more owes no less.
LEMMA MoreAsked ==
  ASSUME AlgoInv, NEW kind \in Kinds2, NEW of \in Bots \cup {NoBot}, Command(kind, of)
  PROVE  /\ asked' \subseteq AlgoAsks /\ commands' \in 0 .. MaxCommands /\ commands' = commands + 1
         /\ CardsOwed => CardsOwed'
         /\ LogsOwed \/ kind = "logs" => LogsOwed'
<1> DEFINE new == [Ask2(kind, of) EXCEPT !.n = commands + 1]
<1>1. commands' = commands + 1 /\ commands' \in 0 .. MaxCommands /\ asked' = asked \cup {new}
  BY AlgoAssumption DEF Command, AlgoInv
<1>2. new = [kind |-> kind, of |-> of, state |-> "sent", served |-> NoCards, n |-> commands + 1]
  BY DEF Ask2
<1>3. new \in AlgoAsks /\ new.kind = kind
  BY <1>1, <1>2, NoCardsAre DEF AlgoAsks
<1> HIDE DEF new
<1> QED
  BY <1>1, <1>3 DEF AlgoInv, CardsOwed, LogsOwed

LEMMA AlgoPageKeeps ==
  ASSUME AlgoInv,
         ToggleForm \/ ChooseType \/ HandleCreate \/ HandleToggle \/ HandleDelete \/ OpenEdit
         \/ CloseEdit \/ SubmitEdit \/ LoadLogs \/ CloseLogs \/ UNCHANGED algoVars
  PROVE  AlgoInv'
<1>1. CASE HandleCreate
  BY <1>1, MoreAsked DEF HandleCreate, AlgoInv, AlgoTypeOK, Kinds2, AlgoAsks
<1>0. DOMAIN cards \subseteq Bots
  BY CardsAre DEF AlgoInv, AlgoTypeOK
<1>2. CASE HandleToggle
  <2>1. PICK b \in DOMAIN cards : Command("toggle", b)
    BY <1>2 DEF HandleToggle
  <2>2. UNCHANGED <<cards, bots, cardsLoading, creating, editStrategy, selectedBot, logsOf, stale,
                    outrun, failures>>
    BY <1>2 DEF HandleToggle
  <2>3. "toggle" \in Kinds2 /\ b \in Bots \cup {NoBot}
    BY <1>0 DEF Kinds2
  <2> QED
    BY <2>1, <2>2, <2>3, MoreAsked DEF AlgoInv, AlgoTypeOK, AlgoAsks
<1>3. CASE HandleDelete
  <2>1. PICK b \in DOMAIN cards : Command("delete", b)
    BY <1>3 DEF HandleDelete
  <2>2. UNCHANGED <<cards, bots, cardsLoading, creating, editStrategy, selectedBot, logsOf, stale,
                    outrun, failures>>
    BY <1>3 DEF HandleDelete
  <2>3. "delete" \in Kinds2 /\ b \in Bots \cup {NoBot}
    BY <1>0 DEF Kinds2
  <2> QED
    BY <2>1, <2>2, <2>3, MoreAsked DEF AlgoInv, AlgoTypeOK, AlgoAsks
<1>4. CASE SubmitEdit
  <2>1. /\ Command("update", editStrategy.of) /\ editStrategy # NoEdit
        /\ editStrategy' = [editStrategy EXCEPT !.saving = commands']
        /\ UNCHANGED <<cards, bots, cardsLoading, creating, selectedBot, logsOf, stale, outrun,
                       failures>>
    BY <1>4 DEF SubmitEdit
  <2>2. editStrategy \in [of : Bots, saving : 0 .. MaxCommands]
    BY <2>1 DEF AlgoInv, AlgoTypeOK
  <2>3. "update" \in Kinds2 /\ editStrategy.of \in Bots \cup {NoBot}
    BY <2>2 DEF Kinds2
  <2>4. /\ asked' \subseteq AlgoAsks /\ commands' \in 0 .. MaxCommands
        /\ (CardsOwed => CardsOwed') /\ (LogsOwed => LogsOwed')
    BY <2>1, <2>3, MoreAsked
  <2>5. editStrategy' \in [of : Bots, saving : 0 .. MaxCommands]
    BY <2>1, <2>2, <2>4
  <2> QED
    BY <2>1, <2>4, <2>5 DEF AlgoInv, AlgoTypeOK, AlgoAsks
<1>5. CASE LoadLogs
  <2>1. PICK b \in DOMAIN cards : selectedBot' = b /\ Command("logs", b)
    BY <1>5 DEF LoadLogs
  <2>2. UNCHANGED <<cards, bots, cardsLoading, creating, editStrategy, logsOf, stale, outrun,
                    failures>>
    BY <1>5 DEF LoadLogs
  <2>3. "logs" \in Kinds2 /\ b \in Bots \cup {NoBot}
    BY <1>0 DEF Kinds2
  <2> QED
    BY <2>1, <2>2, <2>3, MoreAsked DEF AlgoInv, AlgoTypeOK, AlgoAsks
<1>6. CASE ToggleForm \/ ChooseType
  <2>1. creating' \in BotForms
    <3>1. CASE ToggleForm
      <4>1. PICK o \in BOOLEAN, t \in Types : creating = [open |-> o, type |-> t, params |-> t]
        BY FormsAre DEF AlgoInv, AlgoTypeOK
      <4>2. creating' = [creating EXCEPT !.open = ~o]
        BY <3>1, <4>1 DEF ToggleForm
      <4>3. creating' = [open |-> ~o, type |-> t, params |-> t] /\ (~o) \in BOOLEAN
        BY <4>1, <4>2
      <4> QED
        BY <4>3, FormsAre
    <3>2. CASE ChooseType
      BY <3>2, FormsAre DEF ChooseType, HandleTypeChange
    <3> QED
      BY <1>6, <3>1, <3>2
  <2>2. UNCHANGED <<cards, bots, cardsLoading, editStrategy, selectedBot, logsOf, asked, stale,
                    outrun, commands, failures>>
    BY <1>6 DEF ToggleForm, ChooseType
  <2> QED
    BY <2>1, <2>2 DEF AlgoInv, AlgoTypeOK, CardsOwed, LogsOwed
<1>7. CASE OpenEdit \/ CloseEdit \/ CloseLogs \/ UNCHANGED algoVars
  <2>1. editStrategy' \in {NoEdit} \cup [of : Bots, saving : 0 .. MaxCommands]
    BY <1>0, <1>7, AlgoAssumption
    DEF OpenEdit, CloseEdit, CloseLogs, algoVars, AlgoInv, AlgoTypeOK
  <2>2. /\ UNCHANGED <<cards, bots, cardsLoading, creating, asked, stale, outrun, commands, failures>>
        /\ UNCHANGED <<selectedBot, logsOf>> \/ (selectedBot' = NoBot /\ logsOf' = NoBot)
    BY <1>7 DEF OpenEdit, CloseEdit, CloseLogs, algoVars
  <2> QED
    BY <2>1, <2>2 DEF AlgoInv, AlgoTypeOK, CardsOwed, LogsOwed
<1> QED
  BY <1>1, <1>2, <1>3, <1>4, <1>5, <1>6, <1>7

\* The server changes nothing but by a request that stays, as done.
LEMMA ServedKeeps ==
  ASSUME AlgoInv, NEW r \in asked, Served(r)
  PROVE  AlgoInv'
<1> DEFINE Next2(b) == /\ asked' = (asked \ {r}) \cup {b} /\ b \in AlgoAsks /\ b.kind = r.kind
                       /\ r.kind = "load" \/ bots' = bots \/ (b.state = "done" /\ r.kind # "logs")
                       /\ bots' \in Cards
<1>0. r \in AlgoAsks /\ bots \in Cards /\ r.state = "sent"
  BY DEF AlgoInv, AlgoTypeOK, Served
<1>1. \E b : Next2(b)
  <2>1. CASE r.kind = "load" /\ UNCHANGED bots
             /\ asked' = (asked \ {r}) \cup {[r EXCEPT !.state = "done", !.served = bots]}
    <3> DEFINE b == [r EXCEPT !.state = "done", !.served = bots]
    <3>1. b \in AlgoAsks /\ b.kind = r.kind
      BY <1>0 DEF AlgoAsks
    <3> QED
      BY <1>0, <2>1, <3>1
  <2>2. CASE \E done \in BOOLEAN : Serve(r, done) /\ bots' \in Cards
                                   /\ (bots' = bots \/ (done /\ r.kind # "logs"))
    <3>1. PICK done \in BOOLEAN : Serve(r, done) /\ bots' \in Cards
                                  /\ (bots' = bots \/ (done /\ r.kind # "logs"))
      BY <2>2
    <3> DEFINE b == [r EXCEPT !.state = IF done THEN "done" ELSE "refused"]
    <3>2. b \in AlgoAsks /\ b.kind = r.kind /\ (done => b.state = "done")
      BY <1>0 DEF AlgoAsks
    <3>3. asked' = (asked \ {r}) \cup {b}
      BY <3>1 DEF Serve
    <3> HIDE DEF b
    <3> QED
      BY <3>1, <3>2, <3>3
  <2>3. CASE r.kind = "logs" /\ UNCHANGED bots /\ Serve(r, TRUE)
    BY <1>0, <2>2, <2>3
  <2>4. CASE /\ r.kind = "create"
             /\ IF Bots \subseteq DOMAIN bots THEN UNCHANGED bots /\ Serve(r, FALSE)
                ELSE \E b \in Bots \ DOMAIN bots :
                       /\ bots' = [x \in DOMAIN bots \cup {b} |->
                                     IF x = b THEN [active |-> FALSE, edited |-> FALSE] ELSE bots[x]]
                       /\ Serve(r, TRUE)
    <3>1. CASE Bots \subseteq DOMAIN bots
      BY <1>0, <2>2, <2>4, <3>1
    <3>2. CASE ~ (Bots \subseteq DOMAIN bots)
      <4>1. PICK b \in Bots \ DOMAIN bots :
              /\ bots' = [x \in DOMAIN bots \cup {b} |->
                            IF x = b THEN [active |-> FALSE, edited |-> FALSE] ELSE bots[x]]
              /\ Serve(r, TRUE)
        BY <2>4, <3>2
      <4>2. DOMAIN bots' \subseteq Bots
        BY <1>0, <4>1, CardsAre
      <4>3. bots' \in [DOMAIN bots' -> [active : BOOLEAN, edited : BOOLEAN]]
        BY <1>0, <4>1, CardsAre
      <4>4. bots' \in Cards
        BY <4>2, <4>3, CardsAre
      <4> QED
        BY <2>2, <2>4, <4>1, <4>4
    <3> QED
      BY <3>1, <3>2
  <2>5. CASE /\ r.kind = "delete"
             /\ LET done == r.of \in DOMAIN bots /\ ~bots[r.of].active
                IN /\ bots' = IF done THEN [x \in DOMAIN bots \ {r.of} |-> bots[x]] ELSE bots
                   /\ Serve(r, done)
    <3> DEFINE done == r.of \in DOMAIN bots /\ ~bots[r.of].active
    <3>1. /\ bots' = IF done THEN [x \in DOMAIN bots \ {r.of} |-> bots[x]] ELSE bots
          /\ Serve(r, done)
      BY <2>5
    <3>2. done \in BOOLEAN
      OBVIOUS
    <3>3. bots' \in Cards
      <4>1. CASE done
        <5>1. bots' = [x \in DOMAIN bots \ {r.of} |-> bots[x]]
          BY <3>1, <4>1
        <5>2. /\ DOMAIN bots' \subseteq Bots
              /\ bots' \in [DOMAIN bots' -> [active : BOOLEAN, edited : BOOLEAN]]
          BY <1>0, <5>1, CardsAre
        <5> QED
          BY <5>2, CardsAre
      <4>2. CASE ~done
        BY <1>0, <3>1, <4>2
      <4> QED
        BY <4>1, <4>2
    <3>4. bots' = bots \/ done
      BY <3>1
    <3> HIDE DEF done
    <3> QED
      BY <2>2, <2>5, <3>1, <3>2, <3>3, <3>4
  <2>6. CASE /\ r.kind \in {"toggle", "update"}
             /\ bots' = IF r.of \notin DOMAIN bots THEN bots
                        ELSE IF r.kind = "toggle" THEN [bots EXCEPT ![r.of].active = ~@]
                        ELSE [bots EXCEPT ![r.of].edited = TRUE]
             /\ Serve(r, r.of \in DOMAIN bots)
    <3> DEFINE done == r.of \in DOMAIN bots
    <3>1. done \in BOOLEAN /\ Serve(r, done) /\ (bots' = bots \/ done) /\ r.kind # "logs"
      BY <2>6
    <3>2. bots' \in Cards
      <4>1. CASE ~done
        BY <1>0, <2>6, <4>1
      <4>2. CASE done
        <5>1. bots' = [bots EXCEPT ![r.of].active = ~@] \/ bots' = [bots EXCEPT ![r.of].edited = TRUE]
          BY <2>6, <4>2
        <5>0. bots \in [DOMAIN bots -> [active : BOOLEAN, edited : BOOLEAN]]
          BY <1>0, CardsAre
        <5>2. /\ DOMAIN bots' = DOMAIN bots
              /\ bots' \in [DOMAIN bots -> [active : BOOLEAN, edited : BOOLEAN]]
          <6>1. CASE bots' = [bots EXCEPT ![r.of].active = ~@]
            <7>1. bots' = [bots EXCEPT ![r.of] = [bots[r.of] EXCEPT !.active = ~bots[r.of].active]]
              BY <5>0, <6>1
            <7>2. [bots[r.of] EXCEPT !.active = ~bots[r.of].active] \in [active : BOOLEAN, edited : BOOLEAN]
              BY <4>2, <5>0
            <7> QED
              BY <4>2, <5>0, <7>1, <7>2
          <6>2. CASE bots' = [bots EXCEPT ![r.of].edited = TRUE]
            <7>1. [bots[r.of] EXCEPT !.edited = TRUE] \in [active : BOOLEAN, edited : BOOLEAN]
              BY <4>2, <5>0
            <7> QED
              BY <4>2, <5>0, <6>2, <7>1
          <6> QED
            BY <5>1, <6>1, <6>2
        <5> QED
          BY <1>0, <5>2, CardsAre
      <4> QED
        BY <4>1, <4>2
    <3> HIDE DEF done
    <3> QED
      BY <2>2, <3>1, <3>2
  <2> QED
    BY <2>1, <2>3, <2>4, <2>5, <2>6 DEF Served
<1>2. PICK b : Next2(b)
  BY <1>1
<1>3. /\ CardsOwed => CardsOwed'
      /\ bots' = bots \/ CardsOwed'
  <2>1. ASSUME NEW q \in asked, q.kind = "load" \/ (q.kind # "logs" /\ q.state = "done")
        PROVE  CardsOwed'
    <3>1. CASE q # r
      BY <1>2, <2>1, <3>1 DEF CardsOwed
    <3>2. CASE q = r
      BY <1>0, <1>2, <2>1, <3>2 DEF CardsOwed
    <3> QED
      BY <3>1, <3>2
  <2>2. bots' = bots \/ CardsOwed'
    BY <1>2 DEF CardsOwed
  <2> QED
    BY <2>1, <2>2 DEF CardsOwed
<1>4. LogsOwed => LogsOwed'
  BY <1>2 DEF LogsOwed
<1>5. UNCHANGED <<cards, cardsLoading, creating, editStrategy, selectedBot, logsOf, stale, outrun,
                  commands, failures>>
  BY DEF Served
<1>6. asked' \subseteq AlgoAsks /\ bots' \in Cards
  BY <1>2 DEF AlgoInv
<1>7. AlgoTypeOK'
  BY <1>5, <1>6 DEF AlgoInv, AlgoTypeOK, AlgoAsks
<1> QED
  BY <1>3, <1>4, <1>5, <1>6, <1>7 DEF AlgoInv

\* The answer of a change begins a load; one that is lost or refused is owned up to.
LEMMA AlgoAnsweredKeeps == AlgoInv /\ AlgoAnswered => AlgoInv'
<1> SUFFICES ASSUME AlgoInv, AlgoAnswered PROVE AlgoInv'
  OBVIOUS
<1>1. PICK r \in asked :
        /\ (r.state = "done" /\ (CardsLoaded(r) \/ LogsLoaded(r) \/ Changed(r))) \/ Refused(r)
        /\ UNCHANGED <<bots, commands>>
  BY DEF AlgoAnswered
<1>2. r \in AlgoAsks /\ bots \in Cards
  BY DEF AlgoInv, AlgoTypeOK
<1>3. CASE CardsLoaded(r)
  <2>1. r.kind = "load" /\ asked' = asked \ {r} /\ cards' = r.served /\ cardsLoading' = FALSE
        /\ stale' = (r.served # bots)
        /\ UNCHANGED <<bots, commands, creating, editStrategy, selectedBot, logsOf, outrun>>
    BY <1>1, <1>3 DEF CardsLoaded
  <2>2. cards' \in Cards /\ stale' \in BOOLEAN /\ (stale' \/ cards' = bots')
    BY <1>2, <2>1 DEF AlgoAsks
  <2>3. LogsOwed => LogsOwed'
    BY <2>1 DEF LogsOwed
  <2> QED
    BY <2>1, <2>2, <2>3 DEF AlgoInv, AlgoTypeOK
<1>4. CASE LogsLoaded(r)
  <2>1. r.kind = "logs" /\ asked' = asked \ {r} /\ logsOf' = r.of /\ outrun' = (r.of # selectedBot)
        /\ UNCHANGED <<bots, commands, cards, cardsLoading, creating, editStrategy, selectedBot, stale>>
    BY <1>1, <1>4 DEF LogsLoaded
  <2>2. logsOf' \in Bots \cup {NoBot} /\ outrun' \in BOOLEAN /\ (outrun' \/ logsOf' = selectedBot')
    BY <1>2, <2>1 DEF AlgoAsks
  <2>3. CardsOwed => CardsOwed'
    BY <2>1 DEF CardsOwed
  <2> QED
    BY <2>1, <2>2, <2>3 DEF AlgoInv, AlgoTypeOK
<1>5. CASE Changed(r)
  <2> DEFINE b == [Ask2("load", NoBot) EXCEPT !.n = r.n]
  <2>1. /\ asked' = (asked \ {r}) \cup {b}
        /\ creating' = IF r.kind = "create" THEN FirstForm ELSE creating
        /\ editStrategy' = IF r.kind = "update" THEN NoEdit ELSE editStrategy
        /\ UNCHANGED <<bots, commands, cards, cardsLoading, selectedBot, logsOf, stale, outrun>>
        /\ r.kind # "logs"
    BY <1>1, <1>5 DEF Changed, LoadStrategies
  <2>2. b = [kind |-> "load", of |-> NoBot, state |-> "sent", served |-> NoCards, n |-> r.n]
    BY DEF Ask2
  <2>3. b \in AlgoAsks /\ b.kind = "load"
    BY <1>2, <2>2, NoCardsAre DEF AlgoAsks, Kinds2
  <2> HIDE DEF b
  <2>4. CardsOwed' /\ (LogsOwed => LogsOwed')
    BY <2>1, <2>3 DEF CardsOwed, LogsOwed
  <2>5. creating' \in BotForms
    BY <2>1, FirstFormIs DEF AlgoInv, AlgoTypeOK
  <2>6. asked' \subseteq AlgoAsks
    BY <2>1, <2>3 DEF AlgoInv
  <2> QED
    BY <2>1, <2>4, <2>5, <2>6 DEF AlgoInv, AlgoTypeOK, AlgoAsks
<1>6. CASE Refused(r)
  <2>1. /\ asked' = asked \ {r}
        /\ cardsLoading' = (cardsLoading /\ r.kind # "load")
        /\ stale' = (stale \/ r.kind = "load" \/ (r.state = "done" /\ r.kind # "logs"))
        /\ outrun' = (outrun \/ r.kind = "logs")
        /\ editStrategy' = IF r.kind = "update" /\ editStrategy.saving = r.n
                           THEN [editStrategy EXCEPT !.saving = 0] ELSE editStrategy
        /\ UNCHANGED <<bots, commands, cards, creating, selectedBot, logsOf>>
    BY <1>1, <1>6 DEF Refused
  <2>2. CardsOwed => CardsOwed' \/ stale'
    BY <2>1 DEF CardsOwed
  <2>3. LogsOwed => LogsOwed' \/ outrun'
    BY <2>1 DEF LogsOwed
  <2>4. editStrategy' \in {NoEdit} \cup [of : Bots, saving : 0 .. MaxCommands]
    BY <2>1, AlgoAssumption DEF AlgoInv, AlgoTypeOK, NoEdit
  <2>5. {cardsLoading', stale', outrun'} \subseteq BOOLEAN
    BY <2>1
  <2>6. (stale => stale') /\ (outrun => outrun')
    BY <2>1
  <2> QED
    BY <2>1, <2>2, <2>3, <2>4, <2>5, <2>6 DEF AlgoInv, AlgoTypeOK, AlgoAsks
<1> QED
  BY <1>1, <1>3, <1>4, <1>5, <1>6

LEMMA AlgoInvNext == AlgoInv /\ [AlgoNext]_algoVars => AlgoInv'
  BY AlgoPageKeeps, ServedKeeps, AlgoAnsweredKeeps DEF AlgoNext, AlgoServer

LEMMA AlgoInvShows == AlgoInv => CardsAreTheServers
  BY DEF AlgoInv, CardsOwed, LogsOwed, CardsAreTheServers

-----------------------------------------------------------------------------
(***************************************************************************)
(* The user's orders of futures.  What the list lacks is still to be heard *)
(* of: by the answer of a request that the server has done, or by a fetch. *)
(***************************************************************************)
FutCalls == [kind : {"place", "cancel"}, of : Tickets, type : {"MARKET", "LIMIT"},
             state : {"sent", "done", "refused"}]
FutReads == [served : BOOLEAN, book : TicketBooks]

FutOrdersInv ==
  /\ FutOrdersTypeOK /\ calls \subseteq FutCalls /\ reads \in Seq(FutReads)
  /\ unread \/ ordersShown = futOrders \/ reads # <<>> \/ \E c \in calls : c.state = "done"

LEMMA NoTicketsAre == NoTickets \in TicketBooks /\ [served |-> FALSE, book |-> NoTickets] \in FutReads
BY DEF NoTickets, TicketBooks, FutReads

LEMMA FutOrdersInvInit == FutOrdersInit => FutOrdersInv
<1> SUFFICES ASSUME FutOrdersInit PROVE FutOrdersInv
  OBVIOUS
<1> DEFINE first == [served |-> FALSE, book |-> NoTickets]
<1>1. first \in FutReads
  BY NoTicketsAre
<1>2. reads = <<first>>
  BY DEF FutOrdersInit
<1> HIDE DEF first
<1>3. reads \in Seq(FutReads) /\ \A i \in DOMAIN reads : reads[i] \in FutReads
  BY <1>1, <1>2
<1> QED
  BY <1>3, NoTicketsAre DEF FutOrdersInit, FutOrdersInv, FutOrdersTypeOK, FutReads, NoModal

\* A fetch more.
LEMMA FetchIsUnderWay ==
  ASSUME reads \in Seq(FutReads), FetchPositionsOrders
  PROVE  reads' \in Seq(FutReads) /\ reads' # <<>>
<1> DEFINE new == [served |-> FALSE, book |-> NoTickets]
<1>1. new \in FutReads /\ reads' = Append(reads, new)
  BY NoTicketsAre DEF FetchPositionsOrders
<1> HIDE DEF new
<1>2. reads' \in Seq(FutReads) /\ Len(reads') = Len(reads) + 1 /\ Len(reads) \in Nat
  BY <1>1, AppendProperties, LenProperties
<1> QED
  BY <1>2, EmptySeq

LEMMA ReadsAre ==
  ASSUME NEW s \in Seq(FutReads)
  PROVE  \A i \in DOMAIN s : s[i] \in FutReads
BY ElementOfSeq, LenProperties

\* What a step has to keep, apart from the orders themselves.
LEMMA FutOrdersKept ==
  ASSUME {futOrders', ordersShown'} \subseteq TicketBooks, {placing', unread'} \subseteq BOOLEAN,
         orderModal' \in [open : BOOLEAN, type : {"MARKET", "LIMIT"}],
         calls' \subseteq FutCalls, reads' \in Seq(FutReads),
         unread' \/ ordersShown' = futOrders' \/ reads' # <<>> \/ \E c \in calls' : c.state = "done"
  PROVE  FutOrdersInv'
<1>1. \A i \in DOMAIN reads' : reads'[i] \in FutReads
  BY ReadsAre
<1>2. \A c \in calls' : c.of \in Tickets /\ c.state \in {"sent", "done", "refused"}
  BY DEF FutCalls
<1> QED
  BY <1>1, <1>2 DEF FutOrdersInv, FutOrdersTypeOK, FutReads

LEMMA FutPageKeeps ==
  ASSUME FutOrdersInv,
         ChooseSymbol \/ OpenOrder \/ SetOrderType \/ CloseModal \/ HandlePlace \/ HandleCancel
         \/ SweepFills \/ UNCHANGED futOrderVars
  PROVE  FutOrdersInv'
<1>0. /\ {futOrders, ordersShown} \subseteq TicketBooks /\ {placing, unread} \subseteq BOOLEAN
      /\ orderModal \in [open : BOOLEAN, type : {"MARKET", "LIMIT"}]
      /\ calls \subseteq FutCalls /\ reads \in Seq(FutReads)
      /\ unread \/ ordersShown = futOrders \/ reads # <<>> \/ \E c \in calls : c.state = "done"
  BY DEF FutOrdersInv, FutOrdersTypeOK
<1>1. CASE ChooseSymbol
  BY <1>0, <1>1, FetchIsUnderWay, FutOrdersKept DEF ChooseSymbol
<1>2. CASE OpenOrder \/ SetOrderType \/ CloseModal \/ UNCHANGED futOrderVars
  <2>1. orderModal' \in [open : BOOLEAN, type : {"MARKET", "LIMIT"}]
    <3>1. orderModal' = [open |-> TRUE, type |-> "MARKET"] \/ orderModal' = NoModal
          \/ orderModal' = [orderModal EXCEPT !.type = "LIMIT"] \/ orderModal' = orderModal
      BY <1>2 DEF OpenOrder, SetOrderType, CloseModal, futOrderVars
    <3>2. /\ [open |-> TRUE, type |-> "MARKET"] \in [open : BOOLEAN, type : {"MARKET", "LIMIT"}]
          /\ NoModal \in [open : BOOLEAN, type : {"MARKET", "LIMIT"}]
      BY DEF NoModal
    <3>3. [orderModal EXCEPT !.type = "LIMIT"] \in [open : BOOLEAN, type : {"MARKET", "LIMIT"}]
      BY <1>0
    <3> QED
      BY <1>0, <3>1, <3>2, <3>3
  <2>2. UNCHANGED <<futOrders, ordersShown, reads, placing, calls, unread>>
    BY <1>2 DEF OpenOrder, SetOrderType, CloseModal, futOrderVars
  <2> QED
    BY <1>0, <2>1, <2>2, FutOrdersKept
<1>3. CASE HandlePlace \/ HandleCancel
  <2>1. PICK kind \in {"place", "cancel"}, t \in Tickets, type \in {"MARKET", "LIMIT"} :
          Call(kind, t, type)
    <3>1. orderModal.type \in {"MARKET", "LIMIT"}
      BY <1>0
    <3> QED
      BY <1>3, <3>1 DEF HandlePlace, HandleCancel
  <2>2. /\ UNCHANGED <<futOrders, ordersShown, reads, orderModal, unread>>
        /\ placing' \in BOOLEAN
    BY <1>0, <1>3 DEF HandlePlace, HandleCancel
  <2> DEFINE new == [kind |-> kind, of |-> t, type |-> type, state |-> "sent"]
  <2>3. new \in FutCalls /\ calls' = calls \cup {new}
    BY <2>1 DEF Call, FutCalls
  <2> HIDE DEF new
  <2> QED
    BY <1>0, <2>2, <2>3, FutOrdersKept
<1>4. CASE SweepFills
  <2>1. PICK t \in Tickets : futOrders' = [futOrders EXCEPT ![t] = "filled"]
    BY <1>4 DEF SweepFills
  <2>2. futOrders' \in TicketBooks
    BY <1>0, <2>1 DEF TicketBooks
  <2> QED
    BY <1>0, <1>4, <2>2, FutOrdersKept DEF SweepFills
<1> QED
  BY <1>1, <1>2, <1>3, <1>4

\* A request that the server has done stays to be answered.
LEMMA CallServedKeeps ==
  ASSUME FutOrdersInv, NEW c \in calls, CallServed(c)
  PROVE  FutOrdersInv'
<1>0. /\ {futOrders, ordersShown} \subseteq TicketBooks /\ {placing, unread} \subseteq BOOLEAN
      /\ orderModal \in [open : BOOLEAN, type : {"MARKET", "LIMIT"}]
      /\ calls \subseteq FutCalls /\ reads \in Seq(FutReads)
      /\ unread \/ ordersShown = futOrders \/ reads # <<>> \/ \E x \in calls : x.state = "done"
  BY DEF FutOrdersInv, FutOrdersTypeOK
<1>1. c \in FutCalls /\ c.state = "sent"
  BY <1>0 DEF CallServed
<1>2. UNCHANGED <<ordersShown, reads, orderModal, placing, unread, misses, readings>>
  BY DEF CallServed
<1>3. PICK b \in FutCalls :
        /\ calls' = (calls \ {c}) \cup {b} /\ futOrders' \in TicketBooks
        /\ futOrders' = futOrders \/ b.state = "done"
  <2>1. [c EXCEPT !.state = "done"] \in FutCalls /\ [c EXCEPT !.state = "done"].state = "done"
        /\ [c EXCEPT !.state = "refused"] \in FutCalls
    BY <1>1 DEF FutCalls
  <2>2. CASE /\ \E s \in Fate(c) : futOrders' = [futOrders EXCEPT ![c.of] = s]
             /\ calls' = (calls \ {c}) \cup {[c EXCEPT !.state = "done"]}
    <3>1. PICK s \in Fate(c) : futOrders' = [futOrders EXCEPT ![c.of] = s]
      BY <2>2
    <3>2. s \in {"open", "filled", "cancelled"}
      BY DEF Fate
    <3>3. futOrders' \in TicketBooks
      BY <1>0, <3>1, <3>2 DEF TicketBooks
    <3> QED
      BY <2>1, <2>2, <3>3
  <2>3. CASE UNCHANGED futOrders /\ calls' = (calls \ {c}) \cup {[c EXCEPT !.state = "refused"]}
    BY <1>0, <2>1, <2>3
  <2> QED
    BY <2>2, <2>3 DEF CallServed
<1>4. (\E x \in calls : x.state = "done") => \E x \in calls' : x.state = "done"
  BY <1>1, <1>3
<1>5. calls' \subseteq FutCalls
  BY <1>0, <1>3
<1>6. futOrders' = futOrders \/ \E x \in calls' : x.state = "done"
  BY <1>3
<1> QED
  BY <1>0, <1>2, <1>3, <1>4, <1>5, <1>6, FutOrdersKept

\* Its answer begins a fetch, or is lost.
LEMMA CallAnsweredKeeps ==
  ASSUME FutOrdersInv, NEW c \in calls, CallAnswered(c)
  PROVE  FutOrdersInv'
<1>0. /\ {futOrders, ordersShown} \subseteq TicketBooks /\ {placing, unread} \subseteq BOOLEAN
      /\ orderModal \in [open : BOOLEAN, type : {"MARKET", "LIMIT"}]
      /\ calls \subseteq FutCalls /\ reads \in Seq(FutReads)
      /\ unread \/ ordersShown = futOrders \/ reads # <<>> \/ \E x \in calls : x.state = "done"
  BY DEF FutOrdersInv, FutOrdersTypeOK
<1>1. /\ calls' = calls \ {c} /\ placing' = (placing /\ c.kind # "place")
      /\ UNCHANGED <<futOrders, ordersShown>>
  BY DEF CallAnswered
<1>2. CASE Done(c)
  <2>1. reads' \in Seq(FutReads) /\ reads' # <<>>
    BY <1>0, <1>2, FetchIsUnderWay DEF Done
  <2>2. orderModal' \in [open : BOOLEAN, type : {"MARKET", "LIMIT"}] /\ UNCHANGED unread
    BY <1>0, <1>2 DEF Done, NoModal
  <2> QED
    BY <1>0, <1>1, <2>1, <2>2, FutOrdersKept
<1>3. CASE Failed(c)
  <2>1. UNCHANGED <<reads, orderModal>> /\ unread' \in BOOLEAN
        /\ (unread' \/ (UNCHANGED unread /\ c.state = "refused"))
    BY <1>0, <1>3 DEF Failed
  <2>2. unread' \/ ((\E x \in calls : x.state = "done") => \E x \in calls' : x.state = "done")
    BY <1>1, <2>1
  <2> QED
    BY <1>0, <1>1, <2>1, <2>2, FutOrdersKept
<1> QED
  BY <1>2, <1>3 DEF CallAnswered

\* A fetch brings the orders as they are, or marks the list as unread.
LEMMA ReadMovesKeeps == FutOrdersInv /\ ReadMoves => FutOrdersInv'
<1> SUFFICES ASSUME FutOrdersInv, ReadMoves PROVE FutOrdersInv'
  OBVIOUS
<1>0. /\ {futOrders, ordersShown} \subseteq TicketBooks /\ {placing, unread} \subseteq BOOLEAN
      /\ orderModal \in [open : BOOLEAN, type : {"MARKET", "LIMIT"}]
      /\ calls \subseteq FutCalls /\ reads \in Seq(FutReads)
      /\ unread \/ ordersShown = futOrders \/ reads # <<>> \/ \E c \in calls : c.state = "done"
  BY DEF FutOrdersInv, FutOrdersTypeOK
<1>1. CASE ReadServed
  <2>1. PICK i \in DOMAIN reads :
          reads' = [reads EXCEPT ![i] = [served |-> TRUE, book |-> futOrders]]
    BY <1>1 DEF ReadServed
  <2> DEFINE b == [served |-> TRUE, book |-> futOrders]
  <2>2. b \in FutReads /\ i \in 1 .. Len(reads) /\ reads' = [reads EXCEPT ![i] = b]
    BY <1>0, <2>1, LenProperties DEF FutReads
  <2> HIDE DEF b
  <2>3. reads' \in Seq(FutReads) /\ Len(reads') = Len(reads)
    BY <1>0, <2>2, ExceptSeq
  <2>4. reads' # <<>>
    BY <1>0, <2>2, <2>3, EmptySeq, LenProperties
  <2> QED
    BY <1>0, <1>1, <2>3, <2>4, FutOrdersKept DEF ReadServed
<1>2. CASE ReadLands
  <2>1. PICK i \in DOMAIN reads :
          /\ reads' = RemoveAt(reads, i)
          /\ \/ /\ reads[i].served /\ ordersShown' = reads[i].book
                /\ unread' = (reads[i].book # futOrders) /\ UNCHANGED misses
             \/ misses < MaxMisses /\ misses' = misses + 1 /\ unread' = TRUE /\ UNCHANGED ordersShown
          /\ UNCHANGED <<futOrders, orderModal, placing, calls, readings>>
    BY <1>2 DEF ReadLands
  <2>2. reads[i] \in FutReads /\ i \in 1 .. Len(reads)
    BY <1>0, ReadsAre, LenProperties
  <2>3. reads' \in Seq(FutReads)
    BY <1>0, <2>1, <2>2, Removed
  <2>4. ordersShown' \in TicketBooks /\ unread' \in BOOLEAN /\ (unread' \/ ordersShown' = futOrders')
    BY <1>0, <2>1, <2>2 DEF FutReads
  <2> QED
    BY <1>0, <2>1, <2>3, <2>4, FutOrdersKept
<1> QED
  BY <1>1, <1>2 DEF ReadMoves

LEMMA FutOrdersInvNext == FutOrdersInv /\ [FutOrdersNext]_futOrderVars => FutOrdersInv'
  BY FutPageKeeps, CallServedKeeps, CallAnsweredKeeps, ReadMovesKeeps
  DEF FutOrdersNext, PlaceMoves, CancelMoves

LEMMA FutOrdersInvShows == FutOrdersInv => OwnOrdersShown
  BY DEF FutOrdersInv, OwnOrdersShown

-----------------------------------------------------------------------------
(***************************************************************************)
(* The user's own profile.  The requests that the server has carried out   *)
(* after the latest that was heard of (newest) are all still under way, so *)
(* what the server has and the page has not is what they carry: if none of *)
(* them is a save, the details agree, and if none is of a photo, the       *)
(* photos do.  The answer of a save agrees in this way with what came      *)
(* after it. An answer that comes after a later one marks the page as      *)
(* crossed, and so nothing is claimed while such an answer is under way.   *)
(***************************************************************************)
Pictures == Photos \cup {NoPhoto}
ProfileAsks == [id : Nat, kind : {"save", "upload", "remove"}, carries : Details2 \cup Pictures,
                before : Pictures, here : BOOLEAN, n : Nat, answer : Accounts2]

ProfileTyped ==
  /\ ProfileTypeOK /\ sent \subseteq ProfileAsks /\ asks \in Nat /\ served \in Nat
  /\ \A q \in sent : q.carries \in IF q.kind = "save" THEN Details2 ELSE Pictures

\* Requests have numbers of their own, none that of the latest heard of.
OwnNumbers ==
  /\ \A q \in sent : q.n # 0 => q.n # newest
  /\ \A q, r \in sent : q.n # 0 /\ q.n = r.n => q = r

Later2(m) == {q \in sent : q.n > m}
SameDetails(d, m) == (\A q \in Later2(m) : q.kind # "save") => account.details = d
SamePhoto(p, m) == (\A q \in Later2(m) : q.kind = "save") => account.photo = p

HeardInOrder == ~crossed /\ \A q \in sent : q.n = 0 \/ q.n > newest
KnownAgrees == HeardInOrder => SameDetails(known.details, newest) /\ SamePhoto(known.photo, newest)
AnswersAgree ==
  \A q \in Later2(newest) :
    IF q.kind = "save" THEN SameDetails(q.answer.details, q.n) /\ SamePhoto(q.answer.photo, q.n)
    ELSE SamePhoto(q.carries, q.n)

PreviewFollows ==
  restored2 \/ preview = known.photo \/ \E q \in sent : q.kind = "upload" /\ q.here

ProfileInv == ProfileTyped /\ OwnNumbers /\ KnownAgrees /\ AnswersAgree /\ PreviewFollows

LEMMA ProfileInvInit == ProfileInit => ProfileInv
<1> SUFFICES ASSUME ProfileInit PROVE ProfileInv
  OBVIOUS
<1>1. (CHOOSE d \in Details2 : TRUE) \in Details2
  BY DetailsAssumption
<1>2. account \in Accounts2 /\ account.photo \in Pictures /\ account.details \in Details2
  BY <1>1 DEF ProfileInit, Accounts2, Pictures
<1>3. ProfileTyped
  <2>1. /\ known = account /\ typed = account.details /\ preview = account.photo
        /\ sent = {} /\ asks = 0 /\ served = 0 /\ newest = 0
        /\ saving = FALSE /\ uploading = FALSE /\ crossed = FALSE /\ restored2 = FALSE
    BY DEF ProfileInit
  <2>2. {saving, uploading, crossed, restored2} \subseteq BOOLEAN
    BY <2>1
  <2> QED
    BY <1>2, <2>1, <2>2 DEF ProfileTyped, ProfileTypeOK, Pictures
<1> QED
  BY <1>3 DEF ProfileInit, ProfileInv, OwnNumbers, KnownAgrees, AnswersAgree, PreviewFollows,
              SameDetails, SamePhoto, Later2

\* A request that the server has not carried out says nothing yet.
LEMMA SendKeeps ==
  ASSUME ProfileInv, NEW kind \in {"save", "upload", "remove"},
         NEW carries \in IF kind = "save" THEN Details2 ELSE Pictures,
         SendProfile(kind, carries), UNCHANGED <<account, known, newest, served, crossed>>
  PROVE  /\ sent' \subseteq ProfileAsks /\ asks' \in Nat
         /\ \A q \in sent' : q.carries \in IF q.kind = "save" THEN Details2 ELSE Pictures
         /\ \A q \in sent' : q.kind \in {"save", "upload", "remove"} /\ q.n \in 0 .. served
         /\ OwnNumbers' /\ KnownAgrees' /\ AnswersAgree'
         /\ sent \subseteq sent'
         /\ \E q \in sent' : q.kind = kind /\ q.here
<1> DEFINE new == SentProfile(kind, carries)
<1>1. sent' = sent \cup {new} /\ asks' = asks + 1
  BY DEF SendProfile
<1>2. new = [id |-> asks, kind |-> kind, carries |-> carries, before |-> known.photo,
             here |-> TRUE, n |-> 0, answer |-> account]
  BY DEF SentProfile
<1>3. /\ new \in ProfileAsks /\ new.n = 0 /\ new.kind = kind /\ new.carries = carries /\ new.here
      /\ known \in Accounts2 /\ account \in Accounts2 /\ served \in Nat /\ newest \in Nat
  <2>1. /\ known \in Accounts2 /\ account \in Accounts2 /\ served \in Nat /\ newest \in Nat
        /\ asks \in Nat
    BY DEF ProfileInv, ProfileTyped, ProfileTypeOK
  <2>2. known.photo \in Pictures
    BY <2>1 DEF Accounts2, Pictures
  <2> QED
    BY <1>2, <2>1, <2>2 DEF ProfileAsks
<1> HIDE DEF new
<1>4. \A m \in Nat : Later2(m)' = Later2(m)
  BY <1>1, <1>3 DEF Later2
<1>5. \A q \in sent : q.n \in Nat
  BY DEF ProfileInv, ProfileTyped, ProfileAsks
<1>6. KnownAgrees'
  <2>1. Later2(newest)' = Later2(newest)
    BY <1>3, <1>4
  <2> QED
    BY <1>1, <2>1 DEF ProfileInv, KnownAgrees, HeardInOrder, SameDetails, SamePhoto
<1>7. AnswersAgree'
  <2>1. Later2(newest)' = Later2(newest)
    BY <1>3, <1>4
  <2>2. \A q \in Later2(newest) : Later2(q.n)' = Later2(q.n)
    BY <1>4, <1>5 DEF Later2
  <2> QED
    BY <2>1, <2>2 DEF ProfileInv, AnswersAgree, SameDetails, SamePhoto
<1>8. OwnNumbers'
  BY <1>1, <1>3 DEF ProfileInv, OwnNumbers
<1> QED
  BY <1>1, <1>3, <1>6, <1>7, <1>8 DEF ProfileInv, ProfileTyped, ProfileTypeOK

LEMMA ProfilePageKeeps ==
  ASSUME ProfileInv, TypeDetails \/ SaveProfile \/ ProcessFile \/ HandleRemove \/ UNCHANGED profileVars
  PROVE  ProfileInv'
<1>0. typed \in Details2 /\ NoPhoto \in Pictures
  BY DEF ProfileInv, ProfileTyped, ProfileTypeOK, Pictures
<1>1. CASE TypeDetails \/ UNCHANGED profileVars
  <2>1. /\ UNCHANGED <<account, known, saving, preview, uploading, sent, asks, served, newest, crossed,
                       restored2, spoiled>>
        /\ typed' \in Details2
    BY <1>0, <1>1 DEF TypeDetails, profileVars
  <2>2. ProfileTyped'
    BY <2>1 DEF ProfileInv, ProfileTyped, ProfileTypeOK
  <2>3. \A m : Later2(m)' = Later2(m)
    BY <2>1 DEF Later2
  <2> QED
    BY <2>1, <2>2, <2>3 DEF ProfileInv, OwnNumbers, KnownAgrees, HeardInOrder, AnswersAgree,
                            PreviewFollows, SameDetails, SamePhoto
<1>2. CASE SaveProfile
  <2>1. SendProfile("save", typed) /\ saving' = TRUE
        /\ UNCHANGED <<account, known, typed, preview, uploading, served, newest, crossed, restored2>>
    BY <1>2 DEF SaveProfile
  <2> QED
    BY <1>0, <2>1, SendKeeps DEF ProfileInv, ProfileTyped, ProfileTypeOK, PreviewFollows
<1>3. CASE ProcessFile
  <2>1. PICK file \in Photos : preview' = file /\ SendProfile("upload", file)
    BY <1>3 DEF ProcessFile
  <2>2. /\ uploading' = TRUE /\ restored2' = FALSE
        /\ UNCHANGED <<account, known, typed, saving, served, newest, crossed>>
    BY <1>3 DEF ProcessFile
  <2>3. file \in Pictures
    BY DEF Pictures
  <2> QED
    BY <2>1, <2>2, <2>3, SendKeeps DEF ProfileInv, ProfileTyped, ProfileTypeOK, PreviewFollows, Pictures
<1>4. CASE HandleRemove
  <2>1. /\ SendProfile("remove", NoPhoto) /\ uploading' = TRUE
        /\ UNCHANGED <<account, known, typed, saving, preview, served, newest, crossed, restored2>>
    BY <1>4 DEF HandleRemove
  <2> QED
    BY <1>0, <2>1, SendKeeps DEF ProfileInv, ProfileTyped, ProfileTypeOK, PreviewFollows
<1> QED
  BY <1>1, <1>2, <1>3, <1>4

\* A new panel: the requests of the old one keep their order and what they carry.
LEMMA SwitchKeeps == ProfileInv /\ SwitchTab => ProfileInv'
<1> SUFFICES ASSUME ProfileInv, SwitchTab PROVE ProfileInv'
  OBVIOUS
<1> DEFINE left(q) == [q EXCEPT !.here = q.kind = "save"]
<1>1. /\ preview' = known.photo /\ uploading' = FALSE /\ restored2' = FALSE
      /\ sent' = {left(q) : q \in sent}
      /\ UNCHANGED <<account, known, typed, saving, asks, served, newest, crossed, spoiled>>
  BY DEF SwitchTab
<1>2. \A q \in sent : /\ left(q) \in ProfileAsks /\ left(q).kind = q.kind /\ left(q).n = q.n
                      /\ left(q).carries = q.carries /\ left(q).answer = q.answer
  BY DEF ProfileInv, ProfileTyped, ProfileAsks
<1>3. known \in Accounts2 /\ known.photo \in Pictures /\ known.photo \in Photos \cup {NoPhoto}
  BY DEF ProfileInv, ProfileTyped, ProfileTypeOK, Accounts2, Pictures
<1> HIDE DEF left
<1>4. ASSUME NEW p \in sent' PROVE \E q \in sent : p = left(q)
  BY <1>1
<1>5. ProfileTyped'
  <2>1. {saving', uploading', crossed', restored2'} \subseteq BOOLEAN
    BY <1>1 DEF ProfileInv, ProfileTyped, ProfileTypeOK
  <2>2. /\ sent' \subseteq ProfileAsks
        /\ \A p \in sent' : p.carries \in IF p.kind = "save" THEN Details2 ELSE Pictures
        /\ \A p \in sent' : p.kind \in {"save", "upload", "remove"} /\ p.n \in 0 .. served
    BY <1>2, <1>4 DEF ProfileInv, ProfileTyped, ProfileTypeOK
  <2> QED
    BY <1>1, <1>3, <2>1, <2>2 DEF ProfileInv, ProfileTyped, ProfileTypeOK
<1>6. OwnNumbers'
  BY <1>1, <1>2 DEF ProfileInv, OwnNumbers
<1>7. \A m : Later2(m)' = {left(q) : q \in Later2(m)}
  BY <1>1, <1>2 DEF Later2
<1>8. \A d, p, m : /\ SameDetails(d, m) => SameDetails(d, m)'
                   /\ SamePhoto(p, m) => SamePhoto(p, m)'
  <2> TAKE d, p, m
  <2>1. Later2(m)' = {left(q) : q \in Later2(m)}
    BY <1>7
  <2>2. \A q \in Later2(m) : left(q) \in Later2(m)' /\ left(q).kind = q.kind
    BY <1>2, <2>1 DEF Later2
  <2> QED
    BY <1>1, <2>2 DEF SameDetails, SamePhoto
<1>9. KnownAgrees'
  <2>1. HeardInOrder' => HeardInOrder
    BY <1>1, <1>2 DEF HeardInOrder
  <2> QED
    BY <1>1, <1>8, <2>1 DEF ProfileInv, KnownAgrees
<1>10. AnswersAgree'
  <2> SUFFICES ASSUME NEW p \in Later2(newest)'
               PROVE  IF p.kind = "save"
                      THEN SameDetails(p.answer.details, p.n)' /\ SamePhoto(p.answer.photo, p.n)'
                      ELSE SamePhoto(p.carries, p.n)'
    BY <1>1 DEF AnswersAgree
  <2>1. PICK q \in Later2(newest) : p = left(q)
    BY <1>1, <1>7
  <2>2. p.kind = q.kind /\ p.n = q.n /\ p.carries = q.carries /\ p.answer = q.answer
    BY <1>2, <2>1 DEF Later2
  <2> QED
    BY <1>8, <2>2 DEF ProfileInv, AnswersAgree
<1> QED
  BY <1>1, <1>5, <1>6, <1>9, <1>10 DEF ProfileInv, PreviewFollows

\* The server carries out a request after all others.
LEMMA ProfileServedKeeps == ProfileInv /\ ProfileServed => ProfileInv'
<1> SUFFICES ASSUME ProfileInv, ProfileServed PROVE ProfileInv'
  OBVIOUS
<1>1. PICK q \in sent :
        /\ q.n = 0
        /\ account' = IF q.kind = "save" THEN [account EXCEPT !.details = q.carries]
                                         ELSE [account EXCEPT !.photo = q.carries]
        /\ served' = served + 1
        /\ sent' = (sent \ {q}) \cup {[q EXCEPT !.n = served + 1, !.answer = account']}
        /\ UNCHANGED <<known, typed, saving, preview, uploading, asks, newest, crossed, restored2>>
  BY DEF ProfileServed
<1> DEFINE b == [q EXCEPT !.n = served + 1, !.answer = account']
<1>2. /\ q \in ProfileAsks /\ served \in Nat /\ newest \in 0 .. served /\ account \in Accounts2
      /\ q.carries \in IF q.kind = "save" THEN Details2 ELSE Pictures
      /\ \A r \in sent : r \in ProfileAsks /\ r.n \in 0 .. served
  BY DEF ProfileInv, ProfileTyped, ProfileTypeOK
<1>3. /\ account' \in Accounts2
      /\ q.kind = "save" => account'.photo = account.photo
      /\ q.kind # "save" => account'.details = account.details /\ account'.photo = q.carries
  BY <1>1, <1>2 DEF Accounts2, Pictures
<1>4. /\ b \in ProfileAsks /\ b.n = served + 1 /\ b.answer = account' /\ b.kind = q.kind
      /\ b.carries = q.carries /\ b.here = q.here
  <2>1. ASSUME NEW n \in Nat, NEW a \in Accounts2
        PROVE  LET r == [q EXCEPT !.n = n, !.answer = a]
               IN /\ r \in ProfileAsks /\ r.n = n /\ r.answer = a /\ r.kind = q.kind
                  /\ r.carries = q.carries /\ r.here = q.here
    BY <1>2 DEF ProfileAsks
  <2>2. served + 1 \in Nat
    BY <1>2
  <2> QED
    BY <1>3, <2>1, <2>2
<1>5. sent' = (sent \ {q}) \cup {b}
  BY <1>1
<1> HIDE DEF b
<1>6. ProfileTyped'
  BY <1>1, <1>2, <1>3, <1>4, <1>5 DEF ProfileInv, ProfileTyped, ProfileTypeOK
<1>7. OwnNumbers'
  BY <1>1, <1>2, <1>4, <1>5 DEF ProfileInv, OwnNumbers
<1>8. /\ \A m \in 0 .. served : Later2(m)' = Later2(m) \cup {b}
      /\ Later2(served + 1)' = {}
  BY <1>1, <1>2, <1>4, <1>5 DEF Later2
<1>9. \A m \in 0 .. served : \A d, p : /\ SameDetails(d, m) => SameDetails(d, m)'
                                       /\ SamePhoto(p, m) => SamePhoto(p, m)'
  <2> TAKE m \in 0 .. served
  <2>1. Later2(m)' = Later2(m) \cup {b}
    BY <1>8
  <2> QED
    BY <1>3, <1>4, <2>1 DEF SameDetails, SamePhoto
<1>10. KnownAgrees'
  <2>1. HeardInOrder' => HeardInOrder
    BY <1>1, <1>5 DEF HeardInOrder
  <2> QED
    BY <1>1, <1>2, <1>9, <2>1 DEF ProfileInv, KnownAgrees
<1>11. AnswersAgree'
  <2> SUFFICES ASSUME NEW p \in Later2(newest)'
               PROVE  IF p.kind = "save"
                      THEN SameDetails(p.answer.details, p.n)' /\ SamePhoto(p.answer.photo, p.n)'
                      ELSE SamePhoto(p.carries, p.n)'
    BY <1>1 DEF AnswersAgree
  <2>1. CASE p = b
    BY <1>3, <1>4, <1>8, <2>1 DEF SameDetails, SamePhoto
  <2>2. CASE p # b
    <3>1. p \in Later2(newest) /\ p.n \in 0 .. served
      BY <1>1, <1>2, <1>5, <2>2 DEF Later2
    <3> QED
      BY <1>9, <3>1 DEF ProfileInv, AnswersAgree
  <2> QED
    BY <2>1, <2>2
<1>12. PreviewFollows'
  <2>1. (\E r \in sent : r.kind = "upload" /\ r.here) => \E r \in sent' : r.kind = "upload" /\ r.here
    BY <1>4, <1>5
  <2> QED
    BY <1>1, <2>1 DEF ProfileInv, PreviewFollows
<1> QED
  BY <1>6, <1>7, <1>10, <1>11, <1>12 DEF ProfileInv

\* What any end of a request leaves: the server is as it was, and one request fewer.
LEMMA SettlingKeeps ==
  ASSUME ProfileInv, NEW q \in sent, Settles(q), sent' = sent \ {q}, UNCHANGED <<account, served>>
  PROVE  /\ newest' \in 0 .. served /\ newest' >= newest /\ newest' >= q.n
         /\ q.n > newest => newest' = q.n
         /\ OwnNumbers' /\ AnswersAgree'
         /\ \A m \in Nat : q.n <= m => Later2(m)' = Later2(m)
<1>1. /\ served \in Nat /\ newest \in 0 .. served
      /\ \A r \in sent : r.n \in 0 .. served
  BY DEF ProfileInv, ProfileTyped, ProfileTypeOK
<1>2. /\ newest' \in 0 .. served /\ newest' >= newest /\ newest' >= q.n
      /\ newest' = newest \/ newest' = q.n
      /\ q.n > newest => newest' = q.n
  BY <1>1 DEF Settles
<1>3. OwnNumbers'
  BY <1>1, <1>2 DEF ProfileInv, OwnNumbers
<1>4. \A m \in Nat : q.n <= m => Later2(m)' = Later2(m)
  BY <1>1 DEF Later2
<1>5. AnswersAgree'
  <2> SUFFICES ASSUME NEW p \in Later2(newest)'
               PROVE  IF p.kind = "save"
                      THEN SameDetails(p.answer.details, p.n)' /\ SamePhoto(p.answer.photo, p.n)'
                      ELSE SamePhoto(p.carries, p.n)'
    BY DEF AnswersAgree
  <2>1. p \in Later2(newest) /\ p.n \in Nat /\ q.n <= p.n
    BY <1>1, <1>2 DEF Later2
  <2>2. Later2(p.n)' = Later2(p.n)
    BY <1>4, <2>1
  <2> QED
    BY <2>1, <2>2 DEF ProfileInv, AnswersAgree, SameDetails, SamePhoto
<1> QED
  BY <1>2, <1>3, <1>4, <1>5

\* The answer of a save brings what agreed with it; that of a photo, the photo.
LEMMA ProfileAnsweredKeeps == ProfileInv /\ ProfileAnswered => ProfileInv'
<1> SUFFICES ASSUME ProfileInv, ProfileAnswered PROVE ProfileInv'
  OBVIOUS
<1>1. PICK q \in sent :
        /\ q.n > 0 /\ sent' = sent \ {q}
        /\ IF q.kind = "save" THEN SaveAnswered(q) ELSE PhotoAnswered(q)
        /\ UNCHANGED <<account, asks, served, spoiled>>
  BY DEF ProfileAnswered
<1>2. /\ q \in ProfileAsks /\ served \in Nat /\ newest \in 0 .. served /\ q.n \in 1 .. served
      /\ q.carries \in IF q.kind = "save" THEN Details2 ELSE Pictures
      /\ known \in Accounts2 /\ account \in Accounts2 /\ q.answer \in Accounts2
      /\ q.n # newest /\ \A r \in sent : r.n \in 0 .. served
  BY <1>1 DEF ProfileInv, ProfileTyped, ProfileTypeOK, OwnNumbers, ProfileAsks
<1>3. Settles(q) /\ crossed' = (q.n < newest \/ (crossed /\ q.kind # "save"))
  BY <1>1 DEF SaveAnswered, PhotoAnswered, Lands
<1>4. /\ newest' \in 0 .. served /\ newest' >= newest /\ newest' >= q.n
      /\ q.n > newest => newest' = q.n
      /\ OwnNumbers' /\ AnswersAgree'
      /\ \A m \in Nat : q.n <= m => Later2(m)' = Later2(m)
  BY <1>1, <1>3, SettlingKeeps
<1>5. CASE q.kind = "save"
  <2>1. /\ known' = q.answer /\ typed' = q.answer.details /\ saving' = FALSE /\ UNCHANGED uploading
        /\ IF q.answer.photo # known.photo
           THEN preview' = q.answer.photo /\ restored2' = FALSE ELSE UNCHANGED <<preview, restored2>>
    BY <1>1, <1>5 DEF SaveAnswered, UpdateUser
  <2>2. KnownAgrees'
    <3> SUFFICES ASSUME HeardInOrder'
                 PROVE  SameDetails(known.details, newest)' /\ SamePhoto(known.photo, newest)'
      BY DEF KnownAgrees
    <3>0. ~crossed'
      BY DEF HeardInOrder
    <3>1. q.n > newest /\ newest' = q.n
      <4>1. ~(q.n < newest)
        BY <1>3, <3>0, Zenon
      <4> QED
        BY <1>2, <1>4, <4>1
    <3>2. SameDetails(q.answer.details, q.n) /\ SamePhoto(q.answer.photo, q.n)
      BY <1>5, <3>1 DEF ProfileInv, AnswersAgree, Later2
    <3>3. Later2(q.n)' = Later2(q.n)
      BY <1>2, <1>4
    <3> QED
      BY <1>1, <2>1, <3>1, <3>2, <3>3 DEF SameDetails, SamePhoto
  <2>3. PreviewFollows'
    <3>1. (\E r \in sent : r.kind = "upload" /\ r.here) => \E r \in sent' : r.kind = "upload" /\ r.here
      BY <1>1, <1>5
    <3> QED
      BY <2>1, <3>1 DEF ProfileInv, PreviewFollows
  <2>4. q.answer.details \in Details2 /\ q.answer.photo \in Photos \cup {NoPhoto}
    BY <1>2 DEF Accounts2
  <2>5. /\ preview' \in Photos \cup {NoPhoto}
        /\ {saving', uploading', crossed', restored2'} \subseteq BOOLEAN
    BY <1>3, <2>1, <2>4 DEF ProfileInv, ProfileTyped, ProfileTypeOK
  <2>6. ProfileTyped'
    BY <1>1, <1>2, <1>4, <2>1, <2>4, <2>5 DEF ProfileInv, ProfileTyped, ProfileTypeOK
  <2> QED
    BY <1>4, <2>2, <2>3, <2>6 DEF ProfileInv
<1>6. CASE q.kind # "save"
  <2>1. /\ known' = [known EXCEPT !.photo = q.carries] /\ typed' = known'.details
        /\ IF q.here \/ q.carries # known.photo
           THEN preview' = q.carries /\ restored2' = FALSE ELSE UNCHANGED <<preview, restored2>>
        /\ uploading' = (uploading /\ ~q.here) /\ UNCHANGED saving
    BY <1>1, <1>6 DEF PhotoAnswered, UpdateUser
  <2>2. /\ known' \in Accounts2 /\ known'.photo = q.carries /\ known'.details = known.details
        /\ known.details \in Details2 /\ q.carries \in Photos \cup {NoPhoto}
    BY <1>2, <1>6, <2>1 DEF Accounts2, Pictures
  <2>3. KnownAgrees'
    <3> SUFFICES ASSUME HeardInOrder'
                 PROVE  SameDetails(known.details, newest)' /\ SamePhoto(known.photo, newest)'
      BY DEF KnownAgrees
    <3>0. ~crossed'
      BY DEF HeardInOrder
    <3>1. q.n > newest /\ newest' = q.n /\ ~crossed
      <4>1. ~(q.n < newest) /\ ~crossed
        BY <1>3, <1>6, <3>0, Zenon
      <4> QED
        BY <1>2, <1>4, <4>1
    <3>2. \A r \in sent : r = q \/ r.n = 0 \/ r.n > q.n
      BY <1>1, <3>1 DEF HeardInOrder
    <3>3. HeardInOrder
      BY <1>2, <3>1, <3>2 DEF HeardInOrder
    <3>4. Later2(newest) = Later2(q.n) \cup {q} /\ Later2(q.n)' = Later2(q.n)
      BY <1>2, <1>4, <3>1, <3>2 DEF Later2
    <3>5. SamePhoto(q.carries, q.n)
      BY <1>6, <3>1 DEF ProfileInv, AnswersAgree, Later2
    <3>6. SameDetails(known.details, newest)
      BY <3>3 DEF ProfileInv, KnownAgrees
    <3> QED
      BY <1>1, <1>6, <2>2, <3>1, <3>4, <3>5, <3>6 DEF SameDetails, SamePhoto
  <2>4. PreviewFollows'
    <3>1. CASE q.here \/ q.carries # known.photo
      BY <2>1, <2>2, <3>1 DEF PreviewFollows
    <3>2. CASE ~q.here /\ q.carries = known.photo
      <4>1. (\E r \in sent : r.kind = "upload" /\ r.here) => \E r \in sent' : r.kind = "upload" /\ r.here
        BY <1>1, <3>2
      <4> QED
        BY <2>1, <2>2, <3>2, <4>1 DEF ProfileInv, PreviewFollows
    <3> QED
      BY <3>1, <3>2
  <2>5. /\ preview' \in Photos \cup {NoPhoto}
        /\ {saving', uploading', crossed', restored2'} \subseteq BOOLEAN
    BY <1>3, <2>1, <2>2 DEF ProfileInv, ProfileTyped, ProfileTypeOK
  <2>6. ProfileTyped'
    BY <1>1, <1>2, <1>4, <2>1, <2>2, <2>5 DEF ProfileInv, ProfileTyped, ProfileTypeOK
  <2> QED
    BY <1>4, <2>3, <2>4, <2>6 DEF ProfileInv
<1> QED
  BY <1>5, <1>6

\* A lost answer of what was carried out crosses the page; a refusal changes nothing.
LEMMA ProfileRefusedKeeps == ProfileInv /\ ProfileRefused => ProfileInv'
<1> SUFFICES ASSUME ProfileInv, ProfileRefused PROVE ProfileInv'
  OBVIOUS
<1>1. PICK q \in sent :
        /\ sent' = sent \ {q}
        /\ Settles(q) /\ crossed' = (crossed \/ q.n > 0)
        /\ IF q.kind = "save" THEN saving' = FALSE /\ UNCHANGED <<preview, uploading, restored2>>
           ELSE /\ UNCHANGED saving /\ PutBack(q) /\ uploading' = (uploading /\ ~q.here)
        /\ UNCHANGED <<account, known, typed, asks, served>>
  BY DEF ProfileRefused
<1>2. /\ q \in ProfileAsks /\ served \in Nat /\ newest \in 0 .. served /\ q.n \in 0 .. served
      /\ q.before \in Photos \cup {NoPhoto}
  BY <1>1 DEF ProfileInv, ProfileTyped, ProfileTypeOK, ProfileAsks, Pictures
<1>4. /\ newest' \in 0 .. served /\ newest' >= newest /\ newest' >= q.n
      /\ OwnNumbers' /\ AnswersAgree'
      /\ \A m \in Nat : q.n <= m => Later2(m)' = Later2(m)
  BY <1>1, SettlingKeeps
<1>5. KnownAgrees'
  <2> SUFFICES ASSUME HeardInOrder'
               PROVE  SameDetails(known.details, newest)' /\ SamePhoto(known.photo, newest)'
    BY DEF KnownAgrees
  <2>0. ~crossed'
    BY DEF HeardInOrder
  <2>1. q.n = 0 /\ ~crossed
    <3>1. ~(crossed \/ q.n > 0)
      BY <1>1, <2>0, Zenon
    <3> QED
      BY <1>2, <3>1
  <2>2. newest' = newest
    BY <1>1, <1>2, <2>1 DEF Settles
  <2>3. Later2(newest)' = Later2(newest)
    BY <1>2, <1>4, <2>1, <2>2
  <2>4. HeardInOrder
    BY <1>1, <2>1, <2>2 DEF HeardInOrder
  <2> QED
    BY <1>1, <2>2, <2>3, <2>4 DEF ProfileInv, KnownAgrees, SameDetails, SamePhoto
<1>6. PreviewFollows'
  <2>1. CASE q.kind = "upload" /\ q.here
    BY <1>1, <2>1 DEF PutBack, PreviewFollows
  <2>2. CASE ~(q.kind = "upload" /\ q.here)
    <3>1. UNCHANGED <<preview, restored2>>
      BY <1>1, <2>2 DEF PutBack
    <3>2. (\E r \in sent : r.kind = "upload" /\ r.here) => \E r \in sent' : r.kind = "upload" /\ r.here
      BY <1>1, <2>2
    <3> QED
      BY <1>1, <3>1, <3>2 DEF ProfileInv, PreviewFollows
  <2> QED
    BY <2>1, <2>2
<1>7. /\ preview' \in Photos \cup {NoPhoto}
      /\ {saving', uploading', crossed', restored2'} \subseteq BOOLEAN
  BY <1>1, <1>2 DEF ProfileInv, ProfileTyped, ProfileTypeOK, PutBack
<1>8. ProfileTyped'
  BY <1>1, <1>2, <1>4, <1>7 DEF ProfileInv, ProfileTyped, ProfileTypeOK
<1> QED
  BY <1>4, <1>5, <1>6, <1>8 DEF ProfileInv

LEMMA ProfileInvNext == ProfileInv /\ [ProfileNext]_profileVars => ProfileInv'
  BY ProfilePageKeeps, SwitchKeeps, ProfileServedKeeps, ProfileAnsweredKeeps, ProfileRefusedKeeps
  DEF ProfileNext, ProfileMoves

LEMMA ProfileInvShows == ProfileInv => OwnProfileShown
<1> SUFFICES ASSUME ProfileInv, sent = {}, ~crossed
             PROVE  known = account /\ (restored2 \/ preview = known.photo)
  BY DEF OwnProfileShown
<1>1. account.details = known.details /\ account.photo = known.photo
  BY DEF ProfileInv, KnownAgrees, HeardInOrder, SameDetails, SamePhoto, Later2
<1>2. known = account
  BY <1>1 DEF ProfileInv, ProfileTyped, ProfileTypeOK, Accounts2
<1> QED
  BY <1>2 DEF ProfileInv, PreviewFollows

-----------------------------------------------------------------------------
(***************************************************************************)
(* The capital of the account.  Between requests, the last read that was   *)
(* asked for is served what the capital is, and the panel shows it, or is  *)
(* marked as behind.  A request alone under way puts its mark on the       *)
(* panel, so that its answer asks for one more read; one of the whole      *)
(* account ends in a reload, which does too.                               *)
(***************************************************************************)
Deposits == [id : Nat, kind : {"add", "set", "reset", "account"}, amount : {0, Amount},
             here : BOOLEAN, carried : BOOLEAN]
Readings == [n : Nat, value : Nat \cup {NoCapital}]

CapitalTyped ==
  /\ CapitalTypeOK /\ deposits \subseteq Deposits /\ capReads \subseteq Readings
  /\ deposited \in Nat /\ readCount \in Nat

\* A request that is alone has its panel, and its mark there.
AloneIsMarked ==
  ~unseen => /\ \A p, q \in deposits : p = q
             /\ \A q \in deposits : q.here /\ (q.kind # "account" => loadingMark # "")

\* The last read brings the capital, or has.
LastReadBrings ==
  /\ \A r \in capReads : r.n = readCount => r.value \in {NoCapital, capital}
  /\ behind \/ shownCapital = capital \/ \E r \in capReads : r.n = readCount

CapitalInv ==
  /\ CapitalTyped /\ AloneIsMarked
  /\ deposits = {} /\ ~reloadDue /\ ~unseen => LastReadBrings

LEMMA CapitalInvInit == CapitalInit => CapitalInv
<1> SUFFICES ASSUME CapitalInit PROVE CapitalInv
  OBVIOUS
<1>1. capReads = {[n |-> 1, value |-> NoCapital]} /\ readCount = 1 /\ deposits = {}
  BY DEF CapitalInit, Reading2
<1>2. {resetting, reloadDue, unseen, behind} \subseteq BOOLEAN
  BY DEF CapitalInit
<1>3. CapitalTyped
  <2>1. capReads \subseteq Readings /\ \A r \in capReads : r.n \in 1 .. readCount
    BY <1>1 DEF Readings
  <2> QED
    <3>1. loadingMark \in Marks2
      BY DEF CapitalInit, Marks2
    <3>2. /\ capital \in Nat /\ shownCapital \in Nat \cup {NoCapital}
          /\ deposited \in Nat /\ readCount \in Nat
      BY CapitalAssumption DEF CapitalInit
    <3> QED
      BY <1>1, <1>2, <2>1, <3>1, <3>2 DEF CapitalTyped, CapitalTypeOK
<1>4. LastReadBrings
  BY <1>1 DEF LastReadBrings
<1> QED
  BY <1>1, <1>3, <1>4 DEF CapitalInv, AloneIsMarked

\* What a change of the mark asks for.
LEMMA MarkReads ==
  ASSUME CapitalTyped, NEW mark \in Marks2, Marked(mark)
  PROVE  /\ capReads' \subseteq Readings /\ readCount' \in Nat /\ loadingMark' = mark
         /\ \A r \in capReads' : r.n \in 1 .. readCount'
         /\ mark # loadingMark =>
              /\ \A r \in capReads' : r.n = readCount' => r.value = NoCapital
              /\ \E r \in capReads' : r.n = readCount'
<1> DEFINE new == Reading2(readCount + 1)
<1>1. readCount \in Nat /\ \A r \in capReads : r.n \in 1 .. readCount
  BY DEF CapitalTyped, CapitalTypeOK
<1>2. new \in Readings /\ new.n = readCount + 1 /\ new.value = NoCapital
  BY <1>1 DEF Reading2, Readings
<1>3. CASE mark # loadingMark
  <2>1. readCount' = readCount + 1 /\ capReads' = capReads \cup {new} /\ loadingMark' = mark
    BY <1>3 DEF Marked
  <2> HIDE DEF new
  <2> QED
    BY <1>1, <1>2, <2>1 DEF CapitalTyped
<1>4. CASE mark = loadingMark
  BY <1>1, <1>4 DEF Marked, CapitalTyped
<1> QED
  BY <1>3, <1>4

\* A request begins: while it is under way nothing is claimed of the reads.
LEMMA DepositBegins ==
  ASSUME CapitalInv, NEW kind \in {"add", "set", "reset", "account"}, NEW amount \in {0, Amount},
         Deposit(kind, amount), kind # "account" => loadingMark' = kind
  PROVE  /\ deposits' \subseteq Deposits /\ deposited' \in Nat /\ unseen' \in BOOLEAN
         /\ \A q \in deposits' : q.id \in 0 .. deposited'
         /\ AloneIsMarked' /\ deposits' # {}
<1> DEFINE new == [id |-> deposited, kind |-> kind, amount |-> amount, here |-> TRUE, carried |-> FALSE]
<1>1. /\ deposited' = deposited + 1 /\ deposits' = deposits \cup {new}
      /\ unseen' = (deposits # {} \/ (kind = "account" /\ unseen))
  BY DEF Deposit
<1>2. deposited \in Nat /\ \A q \in deposits : q.id \in 0 .. deposited
  BY DEF CapitalInv, CapitalTyped, CapitalTypeOK
<1>3. new \in Deposits /\ new.id = deposited /\ new.here /\ new.kind = kind
  BY <1>2 DEF Deposits
<1> HIDE DEF new
<1>4. AloneIsMarked'
  <2> SUFFICES ASSUME ~unseen'
               PROVE  /\ \A p, q \in deposits' : p = q
                      /\ \A q \in deposits' : q.here /\ (q.kind # "account" => loadingMark' # "")
    BY DEF AloneIsMarked
  <2>1. deposits = {}
    BY <1>1, Zenon
  <2> QED
    BY <1>1, <1>3, <2>1
<1>5. unseen' \in BOOLEAN
  BY <1>1
<1> QED
  BY <1>1, <1>2, <1>3, <1>4, <1>5 DEF CapitalInv, CapitalTyped

LEMMA HandleKeeps ==
  ASSUME CapitalInv,
         (\E kind \in {"add", "set", "reset"} : HandleCapital(kind)) \/ HandleResetAccount
  PROVE  CapitalInv'
<1>0. /\ CapitalTyped
      /\ capital \in Nat /\ shownCapital \in Nat \cup {NoCapital} /\ loadingMark \in Marks2
      /\ {resetting, reloadDue, unseen, behind} \subseteq BOOLEAN
      /\ capReads \subseteq Readings /\ readCount \in Nat
      /\ \A r \in capReads : r.n \in 1 .. readCount
  BY DEF CapitalInv, CapitalTyped, CapitalTypeOK
<1>1. ASSUME NEW kind \in {"add", "set", "reset"}, HandleCapital(kind) PROVE CapitalInv'
  <2>1. /\ Deposit(kind, Amount) /\ Marked(kind)
        /\ UNCHANGED <<capital, shownCapital, resetting, reloadDue, openings, refused2, behind>>
    BY <1>1 DEF HandleCapital
  <2>2. kind \in Marks2 /\ loadingMark' = kind
    BY <2>1 DEF Marked, Marks2
  <2>3. CapitalTyped'
    BY <1>0, <2>1, <2>2, DepositBegins, MarkReads DEF CapitalTyped, CapitalTypeOK
  <2> QED
    BY <2>1, <2>2, <2>3, DepositBegins DEF CapitalInv
<1>2. CASE HandleResetAccount
  <2>1. /\ Deposit("account", 0) /\ resetting' = TRUE
        /\ UNCHANGED <<capital, shownCapital, loadingMark, reloadDue, capReads, readCount, openings,
                       refused2, behind>>
    BY <1>2 DEF HandleResetAccount
  <2>2. CapitalTyped'
    BY <1>0, <2>1, DepositBegins DEF CapitalTyped, CapitalTypeOK
  <2> QED
    BY <2>1, <2>2, DepositBegins DEF CapitalInv
<1> QED
  BY <1>1, <1>2

\* A panel that opens asks for the capital, and knows of no request.
LEMMA OpenedKeeps ==
  ASSUME CapitalInv, Opened, UNCHANGED reloadDue \/ reloadDue' = FALSE,
         deposits' \subseteq Deposits, \A q \in deposits' : q.id \in 0 .. deposited,
         deposits = {} => deposits' = {}
  PROVE  CapitalInv'
<1>1. /\ shownCapital' = NoCapital /\ loadingMark' = "" /\ resetting' = FALSE
      /\ readCount' = readCount + 1 /\ capReads' = {Reading2(readCount + 1)} /\ behind' = FALSE
      /\ unseen' = (deposits # {}) /\ UNCHANGED <<capital, deposited>>
  BY DEF Opened
<1>2. /\ capital \in Nat /\ readCount \in Nat /\ deposited \in Nat /\ reloadDue \in BOOLEAN
  BY DEF CapitalInv, CapitalTyped, CapitalTypeOK
<1> DEFINE new == Reading2(readCount + 1)
<1>3. new \in Readings /\ new.n = readCount + 1 /\ new.value = NoCapital
  <2>1. readCount + 1 \in Nat
    BY <1>2
  <2> QED
    BY <2>1 DEF Reading2, Readings
<1>5. capReads' = {new}
  BY <1>1
<1> HIDE DEF new
<1>4. {resetting', reloadDue', unseen', behind'} \subseteq BOOLEAN
  BY <1>1, <1>2
<1>6. CapitalTyped'
  <2>1. /\ capReads' \subseteq Readings /\ readCount' \in Nat
        /\ \A r \in capReads' : r.n \in 1 .. readCount'
    <3>1. readCount' \in Nat /\ readCount + 1 \in 1 .. readCount'
      <4>1. \A n \in Nat : n + 1 \in Nat /\ n + 1 \in 1 .. n + 1
        OBVIOUS
      <4>2. readCount' = readCount + 1 /\ readCount \in Nat
        BY <1>1, <1>2
      <4> QED
        BY <4>1, <4>2
    <3> QED
      BY <1>3, <1>5, <3>1
  <2>2. loadingMark' \in Marks2
    BY <1>1 DEF Marks2
  <2> QED
    BY <1>1, <1>2, <1>4, <2>1, <2>2 DEF CapitalTyped, CapitalTypeOK
<1>7. AloneIsMarked'
  <2>1. unseen' \/ deposits' = {}
    BY <1>1
  <2> QED
    BY <2>1 DEF AloneIsMarked
<1>8. LastReadBrings'
  BY <1>1, <1>3, <1>5 DEF LastReadBrings
<1> QED
  BY <1>6, <1>7, <1>8 DEF CapitalInv

LEMMA ReopenKeeps == CapitalInv /\ (Reopen \/ Reload) => CapitalInv'
<1> SUFFICES ASSUME CapitalInv, Reopen \/ Reload PROVE CapitalInv'
  OBVIOUS
<1>1. \A q \in deposits : q \in Deposits /\ q.id \in 0 .. deposited
  BY DEF CapitalInv, CapitalTyped, CapitalTypeOK
<1>2. CASE Reopen
  <2> DEFINE Left(q) == [q EXCEPT !.here = FALSE]
  <2>1. \A q \in deposits : Left(q) \in Deposits /\ Left(q).id = q.id
    BY <1>1 DEF Deposits
  <2>2. Opened /\ UNCHANGED reloadDue /\ deposits' = {Left(q) : q \in deposits}
    BY <1>2 DEF Reopen
  <2> HIDE DEF Left
  <2> QED
    BY <1>1, <2>1, <2>2, OpenedKeeps
<1>3. CASE Reload
  <2> DEFINE Left(q) == [q EXCEPT !.here = FALSE, !.kind = IF @ = "account" THEN "reset" ELSE @]
  <2>1. \A q \in deposits : Left(q) \in Deposits /\ Left(q).id = q.id
    BY <1>1 DEF Deposits
  <2>2. Opened /\ reloadDue' = FALSE /\ deposits' = {Left(q) : q \in deposits}
    BY <1>3 DEF Reload
  <2> HIDE DEF Left
  <2> QED
    BY <1>1, <2>1, <2>2, OpenedKeeps
<1> QED
  BY <1>2, <1>3

LEMMA CapitalServedKeeps ==
  ASSUME CapitalInv, CapitalServed,
         UNCHANGED <<shownCapital, loadingMark, resetting, reloadDue, deposited,
                     readCount, openings, refused2, unseen, behind>>
  PROVE  CapitalInv'
<1>0. /\ capital \in Nat /\ shownCapital \in Nat \cup {NoCapital} /\ loadingMark \in Marks2
      /\ {resetting, reloadDue, unseen, behind} \subseteq BOOLEAN
      /\ deposits \subseteq Deposits /\ capReads \subseteq Readings
      /\ \A r \in capReads : r.n \in 1 .. readCount
      /\ \A q \in deposits : q.id \in 0 .. deposited
      /\ deposited \in Nat /\ readCount \in Nat
  BY DEF CapitalInv, CapitalTyped, CapitalTypeOK
<1>1. ASSUME NEW q \in deposits, UNCHANGED capReads,
             deposits' = (deposits \ {q}) \cup {[q EXCEPT !.carried = TRUE]},
             capital' = CASE q.kind = "add" -> capital + q.amount [] q.kind = "set" -> q.amount
                          [] OTHER -> Default
      PROVE  CapitalInv'
  <2> DEFINE b == [q EXCEPT !.carried = TRUE]
  <2>1. b \in Deposits /\ b.id = q.id /\ b.kind = q.kind /\ b.here = q.here
    BY <1>0 DEF Deposits
  <2>2. q.amount \in Nat
    BY <1>0 DEF Deposits, Amount
  <2>3. capital' \in Nat
    <3>1. CASE q.kind = "add"
      BY <1>0, <1>1, <2>2, <3>1
    <3>2. CASE q.kind = "set"
      BY <1>0, <1>1, <2>2, <3>2
    <3>3. CASE q.kind # "add" /\ q.kind # "set"
      BY <1>1, <3>3, CapitalAssumption
    <3> QED
      BY <3>1, <3>2, <3>3
  <2>4. deposits' = (deposits \ {q}) \cup {b}
    BY <1>1
  <2> HIDE DEF b
  <2>5. CapitalTyped'
    BY <1>0, <1>1, <2>1, <2>3, <2>4 DEF CapitalTyped, CapitalTypeOK
  <2>6. AloneIsMarked'
    BY <2>1, <2>4 DEF CapitalInv, AloneIsMarked
  <2>7. deposits' # {}
    BY <2>4
  <2> QED
    BY <2>5, <2>6, <2>7 DEF CapitalInv
<1>2. ASSUME NEW r \in capReads, r.value = NoCapital, UNCHANGED <<capital, deposits>>,
             capReads' = (capReads \ {r}) \cup {[r EXCEPT !.value = capital]}
      PROVE  CapitalInv'
  <2> DEFINE b == [r EXCEPT !.value = capital]
  <2>1. b \in Readings /\ b.n = r.n /\ b.value = capital
    BY <1>0 DEF Readings
  <2>2. capReads' = (capReads \ {r}) \cup {b}
    BY <1>2
  <2> HIDE DEF b
  <2>3. CapitalTyped'
    BY <1>0, <1>2, <2>1, <2>2 DEF CapitalTyped, CapitalTypeOK
  <2>4. LastReadBrings => LastReadBrings'
    BY <1>2, <2>1, <2>2 DEF LastReadBrings
  <2>5. AloneIsMarked'
    BY <1>2 DEF CapitalInv, AloneIsMarked
  <2> QED
    BY <1>2, <2>3, <2>4, <2>5 DEF CapitalInv
<1> QED
  BY <1>1, <1>2 DEF CapitalServed

\* The answer of the only request asks for a read, makes a reload due or is owned up to.
LEMMA DepositAnsweredKeeps == CapitalInv /\ DepositAnswered => CapitalInv'
<1> SUFFICES ASSUME CapitalInv, DepositAnswered PROVE CapitalInv'
  OBVIOUS
<1>0. /\ capital \in Nat /\ shownCapital \in Nat \cup {NoCapital} /\ loadingMark \in Marks2
      /\ {resetting, reloadDue, unseen, behind} \subseteq BOOLEAN
      /\ deposits \subseteq Deposits /\ capReads \subseteq Readings
      /\ \A r \in capReads : r.n \in 1 .. readCount
      /\ \A q \in deposits : q.id \in 0 .. deposited
      /\ deposited \in Nat /\ readCount \in Nat /\ CapitalTyped
  BY DEF CapitalInv, CapitalTyped, CapitalTypeOK
<1>1. PICK q \in deposits :
        /\ deposits' = deposits \ {q}
        /\ \/ reloadDue' = (reloadDue \/ q.kind = "account") /\ UNCHANGED unseen
           \/ UNCHANGED reloadDue /\ unseen' = (unseen \/ q.kind = "account")
        /\ IF q.here /\ q.kind # "account" THEN Marked("")
           ELSE UNCHANGED <<loadingMark, capReads, readCount>>
        /\ resetting' = (resetting /\ ~(q.here /\ q.kind = "account"))
        /\ UNCHANGED <<capital, shownCapital, deposited, openings, behind>>
  BY DEF DepositAnswered
<1>2. "" \in Marks2
  BY DEF Marks2
<1>3. /\ capReads' \subseteq Readings /\ readCount' \in Nat /\ loadingMark' \in Marks2
      /\ \A r \in capReads' : r.n \in 1 .. readCount'
  BY <1>0, <1>1, <1>2, MarkReads
<1>4. {resetting', reloadDue', unseen', behind'} \subseteq BOOLEAN
  BY <1>0, <1>1
<1>5. CapitalTyped'
  BY <1>0, <1>1, <1>3, <1>4 DEF CapitalTyped, CapitalTypeOK
<1>6. /\ unseen => unseen'
      /\ q.kind = "account" => reloadDue' \/ unseen'
  <2>1. CASE reloadDue' = (reloadDue \/ q.kind = "account") /\ UNCHANGED unseen
    BY <2>1
  <2>2. CASE UNCHANGED reloadDue /\ unseen' = (unseen \/ q.kind = "account")
    BY <2>2
  <2> QED
    BY <1>1, <2>1, <2>2, Zenon
<1>7. AloneIsMarked'
  <2> SUFFICES ASSUME ~unseen' PROVE deposits' = {}
    BY DEF AloneIsMarked
  <2>1. ~unseen
    BY <1>6
  <2> QED
    BY <1>1, <2>1 DEF CapitalInv, AloneIsMarked
<1>8. ASSUME ~reloadDue', ~unseen' PROVE LastReadBrings'
  <2>1. q.kind # "account" /\ ~unseen
    BY <1>6, <1>8
  <2>2. q.here /\ loadingMark # ""
    BY <2>1 DEF CapitalInv, AloneIsMarked
  <2>3. Marked("")
    BY <1>1, <2>1, <2>2
  <2> QED
    BY <1>0, <1>2, <2>2, <2>3, MarkReads DEF LastReadBrings
<1> QED
  BY <1>5, <1>7, <1>8 DEF CapitalInv

LEMMA ReadingAnsweredKeeps == CapitalInv /\ ReadingAnswered => CapitalInv'
<1> SUFFICES ASSUME CapitalInv, ReadingAnswered PROVE CapitalInv'
  OBVIOUS
<1>0. /\ capital \in Nat /\ shownCapital \in Nat \cup {NoCapital} /\ loadingMark \in Marks2
      /\ {resetting, reloadDue, unseen, behind} \subseteq BOOLEAN
      /\ deposits \subseteq Deposits /\ capReads \subseteq Readings
      /\ \A r \in capReads : r.n \in 1 .. readCount
      /\ \A q \in deposits : q.id \in 0 .. deposited
      /\ deposited \in Nat /\ readCount \in Nat
  BY DEF CapitalInv, CapitalTyped, CapitalTypeOK
<1>1. PICK r \in capReads :
        /\ capReads' = capReads \ {r}
        /\ \/ /\ r.value # NoCapital /\ shownCapital' = r.value
              /\ behind' = (r.n # readCount)
           \/ /\ UNCHANGED shownCapital /\ behind' = (behind \/ r.n = readCount)
        /\ UNCHANGED <<capital, loadingMark, resetting, reloadDue, deposits, deposited, readCount,
                       openings, unseen>>
  BY DEF ReadingAnswered
<1>2. shownCapital' \in Nat \cup {NoCapital} /\ behind' \in BOOLEAN
  BY <1>0, <1>1 DEF Readings
<1>3. CapitalTyped'
  BY <1>0, <1>1, <1>2 DEF CapitalTyped, CapitalTypeOK
<1>4. AloneIsMarked'
  BY <1>1 DEF CapitalInv, AloneIsMarked
<1>5. ASSUME LastReadBrings PROVE LastReadBrings'
  <2>1. \A x \in capReads' : x.n = readCount' => x.value \in {NoCapital, capital'}
    BY <1>1, <1>5 DEF LastReadBrings
  <2>2. CASE r.value # NoCapital /\ shownCapital' = r.value /\ behind' = (r.n # readCount)
    <3>1. CASE r.n = readCount
      BY <1>1, <1>5, <2>1, <2>2, <3>1 DEF LastReadBrings
    <3>2. CASE r.n # readCount
      BY <2>1, <2>2, <3>2 DEF LastReadBrings
    <3> QED
      BY <3>1, <3>2
  <2>3. CASE UNCHANGED shownCapital /\ behind' = (behind \/ r.n = readCount)
    <3>1. CASE r.n = readCount
      BY <2>1, <2>3, <3>1 DEF LastReadBrings
    <3>2. CASE r.n # readCount
      <4>1. (\E x \in capReads : x.n = readCount) => \E x \in capReads' : x.n = readCount
        BY <1>1, <3>2
      <4>2. behind => behind'
        BY <2>3
      <4> QED
        BY <1>1, <1>5, <2>1, <2>3, <4>1, <4>2 DEF LastReadBrings
    <3> QED
      BY <3>1, <3>2
  <2> QED
    BY <1>1, <2>2, <2>3
<1> QED
  BY <1>1, <1>3, <1>4, <1>5 DEF CapitalInv

LEMMA CapitalInvNext == CapitalInv /\ [CapitalNext]_capitalVars => CapitalInv'
<1> SUFFICES ASSUME CapitalInv, [CapitalNext]_capitalVars PROVE CapitalInv'
  OBVIOUS
<1>1. CASE UNCHANGED capitalVars
  BY <1>1 DEF capitalVars, CapitalInv, CapitalTyped, CapitalTypeOK, AloneIsMarked, LastReadBrings
<1>2. CASE CapitalNext
  BY <1>2, HandleKeeps, ReopenKeeps, CapitalServedKeeps, DepositAnsweredKeeps, ReadingAnsweredKeeps
  DEF CapitalNext, CapitalAnswered, HandleAddCapital, HandleSetCapital, HandleResetCapital
<1> QED
  BY <1>1, <1>2

LEMMA CapitalInvShows == CapitalInv => CapitalShown
  BY DEF CapitalInv, LastReadBrings, CapitalShown

-----------------------------------------------------------------------------
(* The candles, in full *)

\* The requests and retries are of the attempts that are made.
Tries(r) == r \in Attempts \cup {NoTimer}

LEMMA TryMade ==
  ASSUME NEW k \in CacheKeys, NEW n \in 0 .. MaxCandleRetries + 1
  PROVE  Tries([key |-> k, attempt |-> n])
BY DEF Tries, Attempts

\* Whatever branch a fetch takes.
LEMMA FetchOfType ==
  ASSUME NEW k \in CacheKeys, NEW c \in CacheKeys \cup {NoCandles},
         NEW attempt \in 0 .. MaxCandleRetries + 1, NEW s \in BOOLEAN, NEW req, NEW later,
         Tries(req), Tries(later), FetchCandles(k, attempt, c, s, req, later)
  PROVE  /\ candles' \in CacheKeys \cup {NoCandles} /\ chartLoading' \in BOOLEAN
         /\ gaveUp' \in BOOLEAN /\ Tries(request') /\ Tries(retry')
<1>1. candles' \in {k, c}
  BY DEF FetchCandles, Shown
<1>2. \/ retry' = later
      \/ attempt <= MaxCandleRetries /\ retry' = [key |-> k, attempt |-> attempt + 1]
  BY DEF FetchCandles
<1>3. request' = req \/ request' = [key |-> k, attempt |-> attempt]
  BY DEF FetchCandles
<1>4. chartLoading' \in BOOLEAN /\ gaveUp' \in BOOLEAN
  BY DEF FetchCandles, Spins
<1>5. attempt <= MaxCandleRetries => attempt + 1 \in 0 .. MaxCandleRetries + 1
  BY DEF MaxCandleRetries
<1>6. Tries(request')
  BY <1>3, TryMade
<1>7. Tries(retry')
  BY <1>2, <1>5, TryMade
<1> QED
  BY <1>1, <1>4, <1>6, <1>7

LEMMA DataTypedInit == DataInit => DataTypeOK
<1> SUFFICES ASSUME DataInit PROVE DataTypeOK
  OBVIOUS
<1>1. [key |-> selected, attempt |-> 0] \in Attempts
  BY DEF DataInit, Attempts, MaxCandleRetries
<1>2. selections = 0 /\ 0 \in 0 .. MaxSelections
  BY DataAssumption DEF DataInit
<1>3. cache \in [CacheKeys -> Ages]
  BY DEF DataInit, Ages
<1>4. request \in Attempts \cup {NoTimer} /\ retry \in Attempts \cup {NoTimer}
  BY <1>1 DEF DataInit
<1>5. selected \in CacheKeys /\ candles \in CacheKeys \cup {NoCandles} /\ quoteFails \in 0 .. 3
  BY DEF DataInit
<1>6. {chartLoading, chartError, rateLimited, sessionOpen, gaveUp} \subseteq BOOLEAN
  BY DEF DataInit
<1> QED
  BY <1>2, <1>3, <1>4, <1>5, <1>6 DEF DataTypeOK

LEMMA DataTypedNext == DataTypeOK /\ [DataNext]_dataVars => DataTypeOK'
<1> SUFFICES ASSUME DataTypeOK, [DataNext]_dataVars PROVE DataTypeOK'
  OBVIOUS
<1>t. /\ selected \in CacheKeys /\ candles \in CacheKeys \cup {NoCandles}
      /\ chartLoading \in BOOLEAN /\ chartError \in BOOLEAN
      /\ cache \in [CacheKeys -> Ages]
      /\ Tries(request) /\ Tries(retry) /\ Tries(NoTimer)
      /\ rateLimited \in BOOLEAN /\ quoteFails \in 0 .. 3 /\ sessionOpen \in BOOLEAN
      /\ gaveUp \in BOOLEAN /\ selections \in 0 .. MaxSelections /\ MaxSelections \in Nat
  BY DataAssumption DEF DataTypeOK, Tries
<1>0. 0 \in 0 .. MaxCandleRetries + 1
  BY DEF MaxCandleRetries
<1>1. CASE SelectSymbol
  <2>1. PICK symbol \in Charted \ {selected.symbol} : ChangeTo(symbol)
    BY <1>1 DEF SelectSymbol
  <2> DEFINE k == [selected EXCEPT !.symbol = symbol]
  <2>2. k \in CacheKeys
    BY <1>t DEF CacheKeys
  <2>3. PICK c \in Latest(symbol) : FetchCandles(k, 0, c, c = NoCandles, NoTimer, NoTimer)
    BY <2>1 DEF ChangeTo
  <2>4. c \in CacheKeys \cup {NoCandles} /\ (c = NoCandles) \in BOOLEAN
    BY DEF Latest, Cached
  <2>5. selected' = k
    BY <2>1 DEF ChangeTo
  <2> HIDE DEF k
  <2>6. /\ candles' \in CacheKeys \cup {NoCandles} /\ chartLoading' \in BOOLEAN
        /\ gaveUp' \in BOOLEAN /\ Tries(request') /\ Tries(retry')
    BY <1>0, <1>t, <2>2, <2>3, <2>4, FetchOfType
  <2>7. selections' \in 0 .. MaxSelections /\ chartError' = FALSE
        /\ UNCHANGED <<cache, rateLimited, quoteFails, sessionOpen>>
    BY <1>1, <1>t DEF SelectSymbol
  <2> QED
    BY <1>t, <2>2, <2>5, <2>6, <2>7 DEF DataTypeOK, Tries
<1>2. CASE SelectPeriod
  <2>1. PICK p \in Periods \ {selected.period} :
          /\ selected' = [selected EXCEPT !.period = p]
          /\ FetchCandles(selected', 0, candles, chartLoading, request, retry)
    BY <1>2 DEF SelectPeriod
  <2>2. selected' \in CacheKeys
    BY <1>t, <2>1 DEF CacheKeys
  <2>3. /\ candles' \in CacheKeys \cup {NoCandles} /\ chartLoading' \in BOOLEAN
        /\ gaveUp' \in BOOLEAN /\ Tries(request') /\ Tries(retry')
    BY <1>0, <1>t, <2>1, <2>2, FetchOfType
  <2>4. selections' \in 0 .. MaxSelections
        /\ UNCHANGED <<cache, rateLimited, quoteFails, sessionOpen, chartError>>
    BY <1>2, <1>t DEF SelectPeriod
  <2> QED
    BY <1>t, <2>2, <2>3, <2>4 DEF DataTypeOK, Tries
<1>3. CASE RetryFires
  <2>1. /\ retry # NoTimer
        /\ FetchCandles(retry.key, retry.attempt, candles, chartLoading, request, NoTimer)
        /\ UNCHANGED <<selected, chartError, cache, rateLimited, quoteFails, sessionOpen,
                       selections>>
    BY <1>3 DEF RetryFires
  <2>2. retry.key \in CacheKeys /\ retry.attempt \in 0 .. MaxCandleRetries + 1
    BY <1>t, <2>1 DEF Tries, Attempts
  <2>3. /\ candles' \in CacheKeys \cup {NoCandles} /\ chartLoading' \in BOOLEAN
        /\ gaveUp' \in BOOLEAN /\ Tries(request') /\ Tries(retry')
    BY <1>t, <2>1, <2>2, FetchOfType
  <2> QED
    BY <1>t, <2>1, <2>3 DEF DataTypeOK, Tries
<1>4. CASE CandlesAnswered
  <2>1. request # NoTimer /\ request.key \in CacheKeys
    BY <1>4, <1>t DEF CandlesAnswered, Tries, Attempts
  <2>2. /\ request' = NoTimer
        /\ UNCHANGED <<selected, chartError, rateLimited, quoteFails, sessionOpen, gaveUp,
                       selections>>
        /\ candles' \in CacheKeys \cup {NoCandles} /\ retry' \in {NoTimer, retry}
        /\ chartLoading' \in BOOLEAN /\ cache' \in [CacheKeys -> Ages]
    BY <1>4, <1>t, <2>1 DEF CandlesAnswered, Ages
  <2> QED
    BY <1>t, <2>2 DEF DataTypeOK, Tries
<1>5. CASE CandlesFail
  <2>1. request \in Attempts
    BY <1>5, <1>t DEF CandlesFail, Tries
  <2>2. request.attempt < MaxCandleRetries => Tries([request EXCEPT !.attempt = @ + 1])
    BY <2>1 DEF Tries, Attempts, MaxCandleRetries
  <2>3. /\ request' = NoTimer /\ rateLimited' \in BOOLEAN
        /\ UNCHANGED <<selected, cache, quoteFails, sessionOpen, selections>>
        /\ candles' \in {candles, NoCandles} /\ chartLoading' \in BOOLEAN
        /\ chartError' \in BOOLEAN /\ gaveUp' \in BOOLEAN
        /\ \/ retry' = retry
           \/ request.attempt < MaxCandleRetries /\ retry' = [request EXCEPT !.attempt = @ + 1]
    BY <1>5, <1>t DEF CandlesFail
  <2>4. Tries(retry')
    BY <1>t, <2>2, <2>3
  <2> QED
    BY <1>t, <2>3, <2>4 DEF DataTypeOK, Tries
<1>6. CASE PollQuote
  <2>1. quoteFails' = 0 \/ quoteFails' = IF quoteFails < 3 THEN quoteFails + 1 ELSE 3
    BY <1>6 DEF PollQuote
  <2>2. quoteFails' \in 0 .. 3
    BY <1>t, <2>1
  <2>3. chartError' = FALSE \/ chartError' = (chartError \/ quoteFails' = 3)
    BY <1>6 DEF PollQuote
  <2>4. chartError' \in BOOLEAN
    BY <2>3
  <2> QED
    BY <1>6, <1>t, <2>2, <2>4 DEF PollQuote, DataTypeOK, Tries
<1>9. CASE RefreshMarketSession \/ PauseEnds
  BY <1>9 DEF RefreshMarketSession, PauseEnds, DataTypeOK
<1>7. CASE CacheAges
  BY <1>7, <1>t DEF CacheAges, DataTypeOK, Ages, Tries
<1>8. CASE UNCHANGED dataVars
  BY <1>8 DEF dataVars, DataTypeOK
<1> QED
  BY <1>1, <1>2, <1>3, <1>4, <1>5, <1>6, <1>7, <1>8, <1>9 DEF DataNext, DataMoves

-----------------------------------------------------------------------------
(* The search, in full *)

SentSearches == [of : Words, late : BOOLEAN]
SearchTyped == SearchTypeOK /\ searches \in Seq(SentSearches)

LEMMA SearchTypedInit == SearchInit => SearchTyped
<1>1. <<>> \in Seq(SentSearches) /\ DOMAIN <<>> = {}
  BY EmptySeq
<1> QED
  BY <1>1 DEF SearchInit, SearchTypeOK, SearchTyped

\* A changed or renewed text.
LEMMA SearchedTyped ==
  ASSUME SearchTyped, NEW word \in Words \cup {NoWord}, NEW focused \in BOOLEAN,
         NEW suggested, Searched(word, focused, suggested), UNCHANGED <<box, searches>>,
         isOpen' \in BOOLEAN, popular' \in {"none", "asked", "come"}
  PROVE  SearchTyped'
BY DEF SearchTyped, SearchTypeOK, Searched

LEMMA SearchAnsweredTyped == SearchTyped /\ SearchAnswered => SearchTyped'
<1> SUFFICES ASSUME SearchTyped, SearchAnswered PROVE SearchTyped'
  OBVIOUS
<1>1. PICK i \in DOMAIN searches, found \in BOOLEAN :
        /\ searches' = RemoveAt([j \in DOMAIN searches |->
                                   [searches[j] EXCEPT !.late = @ \/ j < i]], i)
        /\ results' = IF found THEN searches[i].of ELSE NoWord
        /\ isSearching' = FALSE /\ showResults' = (box = "navbar")
        /\ overtaken' = searches[i].late
        /\ UNCHANGED <<box, query, timer, isOpen, popular, keys>>
  BY DEF SearchAnswered
<1> DEFINE n == Len(searches)
           marked == [j \in DOMAIN searches |-> [searches[j] EXCEPT !.late = @ \/ j < i]]
<1>2. n \in Nat /\ DOMAIN searches = 1 .. n /\ \A j \in 1 .. n : searches[j] \in SentSearches
  BY LenProperties, ElementOfSeq DEF SearchTyped
<1>3. \A j \in 1 .. n : marked[j] \in SentSearches
  BY <1>2 DEF SentSearches
<1>4. marked \in Seq(SentSearches) /\ Len(marked) = n
  BY <1>2, <1>3, IsASeq
<1>5. searches' \in Seq(SentSearches)
  BY <1>1, <1>2, <1>4, Removed
<1>6. \A j \in DOMAIN searches' : searches'[j] \in SentSearches
  BY <1>5, ElementOfSeq, LenProperties
<1>7. searches[i].of \in Words /\ searches[i].late \in BOOLEAN
  BY <1>2 DEF SentSearches
<1> HIDE DEF marked
<1> QED
  BY <1>1, <1>5, <1>6, <1>7 DEF SearchTyped, SearchTypeOK, SentSearches

LEMMA SearchTypedNext == SearchTyped /\ [SearchNext]_searchVars => SearchTyped'
<1> SUFFICES ASSUME SearchTyped, [SearchNext]_searchVars PROVE SearchTyped'
  OBVIOUS
<1>1. /\ NoWord \in Words \cup {NoWord} /\ query \in Words \cup {NoWord}
      /\ isOpen \in BOOLEAN /\ popular \in {"none", "asked", "come"}
  BY DEF SearchTyped, SearchTypeOK
<1>2. CASE TypeQuery
  BY <1>1, <1>2, SearchedTyped DEF TypeQuery
<1>3. CASE OpenDialog
  BY <1>1, <1>3, SearchedTyped DEF OpenDialog
<1>4. CASE SelectResult
  <2>1. isOpen' \in BOOLEAN /\ Searched(NoWord, FALSE, popular) /\ UNCHANGED <<box, searches, popular>>
    BY <1>4 DEF SelectResult
  <2> QED BY <1>1, <2>1, SearchedTyped
<1>5. CASE CloseSearch
  <2>1. isOpen' = FALSE /\ UNCHANGED <<box, searches, popular>>
    BY <1>5 DEF CloseSearch
  <2>2. CASE Searched(NoWord, FALSE, popular)
    BY <1>1, <2>1, <2>2, SearchedTyped
  <2>3. CASE UNCHANGED <<query, results, timer, isSearching, overtaken, showResults>>
    BY <2>1, <2>3 DEF SearchTyped, SearchTypeOK
  <2> QED BY <1>5, <2>2, <2>3 DEF CloseSearch
<1>6. CASE PopularAnswered
  <2>1. popular' \in {"come", "none"} /\ UNCHANGED <<box, searches, isOpen>>
    BY <1>6 DEF PopularAnswered
  <2>2. CASE Searched(query, isOpen, "come")
    BY <1>1, <2>1, <2>2, SearchedTyped
  <2>3. CASE UNCHANGED <<query, results, timer, isSearching, overtaken, showResults>>
    BY <2>1, <2>3 DEF SearchTyped, SearchTypeOK
  <2> QED BY <1>6, <2>2, <2>3 DEF PopularAnswered
<1>7. CASE FocusSearch
  BY <1>7 DEF FocusSearch, SearchTyped, SearchTypeOK
<1>8. CASE TimerEnds
  <2> DEFINE asking == [of |-> timer, late |-> FALSE]
  <2>1. /\ searches' = Append(searches, asking) /\ timer' = NoWord
        /\ UNCHANGED <<box, query, results, isSearching, isOpen, showResults, popular, overtaken>>
    BY <1>8 DEF TimerEnds
  <2>2. asking \in SentSearches
    BY <1>8 DEF TimerEnds, SearchTyped, SearchTypeOK, SentSearches
  <2> HIDE DEF asking
  <2>3. searches' \in Seq(SentSearches)
    BY <2>1, <2>2, AppendProperties DEF SearchTyped
  <2>4. \A j \in DOMAIN searches' : searches'[j] \in SentSearches
    BY <2>3, ElementOfSeq, LenProperties
  <2> QED BY <2>1, <2>3, <2>4 DEF SearchTyped, SearchTypeOK, SentSearches
<1>9. CASE UNCHANGED searchVars
  BY <1>9 DEF searchVars, SearchTyped, SearchTypeOK
<1> QED
  BY <1>2, <1>3, <1>4, <1>5, <1>6, <1>7, <1>8, <1>9, SearchAnsweredTyped DEF SearchNext, SearchMoves

-----------------------------------------------------------------------------
(***************************************************************************)
(* All of them at once.                                                    *)
(***************************************************************************)
AnswersInv == /\ ChartInv /\ AlgoInv /\ SearchInv /\ FutOrdersInv /\ ProfileInv /\ CapitalInv

\* A step of the application is a step of each part, or leaves it as it is.
LEMMA PartsMove ==
  ASSUME [BrowserNext]_browserVars
  PROVE  /\ [DataNext]_dataVars /\ [AlgoNext]_algoVars /\ [SearchNext]_searchVars
         /\ [FutOrdersNext]_futOrderVars /\ [ProfileNext]_profileVars /\ [CapitalNext]_capitalVars
<1>1. CASE BrowserNext
  BY <1>1 DEF BrowserNext
<1>2. CASE UNCHANGED browserVars
  BY <1>2 DEF browserVars
<1> QED
  BY <1>1, <1>2

\* When its answers have come, a page shows what is chosen on it, and the user's own: the
\* chart, the strategies and their log, the search, the orders of futures, the profile and the
\* capital (useMarketData.js:193-263, AlgoTradingPage.jsx:188-265, Navbar.jsx:273-291,
\* FuturesPage.jsx:61-80, 240-249, SettingsPage.jsx:204-273, 407-447), for any number of
\* requests, answers in any order and losses.
THEOREM AnswersAlwaysBelong == BrowserSpec => []AnswersBelong
<1>1. BrowserInit => AnswersInv
  BY ChartInvInit, AlgoInvInit, SearchInvInit, FutOrdersInvInit, ProfileInvInit, CapitalInvInit
  DEF BrowserInit, AnswersInv
<1>2. AnswersInv /\ [BrowserNext]_browserVars => AnswersInv'
  BY PartsMove, ChartInvNext, AlgoInvNext, SearchInvNext, FutOrdersInvNext, ProfileInvNext,
     CapitalInvNext DEF AnswersInv
<1>3. AnswersInv => AnswersBelong
  <2>1. ChartInv => CandlesAreOfSymbol
    BY DEF ChartInv, ShowsOf, CandlesAreOfSymbol
  <2>2. SearchInv => SearchIsOfQuery
    BY SearchInvShows
  <2> QED
    BY <2>1, <2>2, AlgoInvShows, FutOrdersInvShows, ProfileInvShows, CapitalInvShows
    DEF AnswersInv, AnswersBelong
<1> QED
  BY <1>1, <1>2, <1>3, PTL DEF BrowserSpec

\* What the pages add up from the user's trades is theirs: the profit derived on the orders page
\* (OrdersPage.jsx:243-310) and the positions in options (useOptionsStore.js:33-84).
THEOREM BooksAlwaysAddUp == BrowserSpec => []BooksAddUp
<1> DEFINE Inv == LotsInv /\ BookInv
<1>1. BrowserInit => Inv
  BY LotsInvStart, BookStart DEF BrowserInit
<1>2. Inv /\ [BrowserNext]_browserVars => Inv'
  <2>1. [BrowserNext]_browserVars => [LotsNext]_fills /\ [BookNext]_bookVars
    BY DEF BrowserNext, browserVars
  <2> QED BY <2>1, LotsInvStep, BookStep
<1>3. Inv => BooksAddUp
  BY InvPairs, BookHolds DEF BooksAddUp
<1> QED
  BY <1>1, <1>2, <1>3, PTL DEF BrowserSpec

-----------------------------------------------------------------------------
(***************************************************************************)
(* The types.  What a step of a component may leave of a variable is       *)
(* seldom all that its type allows: each of these invariants keeps what    *)
(* the type rests on, of requests under way, of counters, of what was      *)
(* copied.                                                                 *)
(***************************************************************************)

\* The state of each component.
AllTyped ==
  /\ SessionInv /\ SessionTyped /\ ConsoleTyped /\ SocketTyped /\ QuotesTyped
  /\ ChartTyped /\ DataTypeOK /\ EngineInv /\ ListsShaped /\ PricesTypeOK
  /\ TicketInv /\ TicketTyped /\ LotsInv /\ PageInv /\ PageTyped /\ AlgoInv
  /\ ZeroTyped /\ SearchTyped /\ ContractsTyped /\ FutOrdersInv /\ OptionsTyped
  /\ BookTyped /\ ProfileInv /\ CapitalInv

\* A step of the browser is for each component a step of its own or none.
LEMMA EachMoves ==
  ASSUME [BrowserNext]_browserVars
  PROVE  /\ [SessionNext]_sessionVars /\ [ConsoleNext]_consoleVars /\ [SocketNext]_socketVars
         /\ [QuotesNext]_quoteVars /\ [ChartNext]_chartVars /\ [EngineNext]_engineVars
         /\ [ListsNext]_listVars /\ [PricesNext]_priceVars /\ [TicketNext]_ticketVars
         /\ [LotsNext]_fills /\ [PageNext]_pageVars /\ [ZeroNext]_zeroVars
         /\ [ContractsNext]_contractVars /\ [OptionsNext]_optionVars /\ [BookNext]_bookVars
         /\ UNCHANGED part
<1>1. CASE BrowserNext
  BY <1>1 DEF BrowserNext
<1>2. CASE UNCHANGED browserVars
  BY <1>2 DEF browserVars
<1> QED
  BY <1>1, <1>2

LEMMA AllTypedInit == BrowserInit => AllTyped
<1> SUFFICES ASSUME BrowserInit PROVE AllTyped
  OBVIOUS
<1>1. /\ SessionInit /\ ConsoleInit /\ SocketInit /\ QuotesInit /\ ChartInit /\ DataInit
      /\ EngineInit /\ ListsInit /\ PricesInit /\ TicketInit /\ LotsInit /\ PageInit
      /\ AlgoInit /\ ZeroInit /\ SearchInit /\ ContractsInit /\ FutOrdersInit /\ OptionsInit
      /\ BookInit /\ ProfileInit /\ CapitalInit
  BY DEF BrowserInit
<1> QED
  BY <1>1, SessionInitInv, SessionTypedInit, ConsoleTypedInit, SocketTypedInit, QuotesTypedInit,
     ChartTypedFirst, DataTypedInit, EngineInvInit, ShapedInit, PricesTypedInit, TicketInvInit,
     TicketTypedInit, LotsInvStart, PageInitInv, PageTypedInit, AlgoInvInit, ZeroTypedInit,
     SearchTypedInit, ContractsTypedInit, FutOrdersInvInit, OptionsTypedInit, BookTypedInit,
     ProfileInvInit, CapitalInvInit
  DEF AllTyped

LEMMA AllTypedNext == AllTyped /\ [BrowserNext]_browserVars => AllTyped'
<1> SUFFICES ASSUME AllTyped, [BrowserNext]_browserVars PROVE AllTyped'
  OBVIOUS
<1>1. SessionInv' /\ SessionTyped' /\ ConsoleTyped' /\ SocketTyped' /\ QuotesTyped'
  BY EachMoves, SessionNextInv, SessionTypedNext, ConsoleTypedNext, SocketTypedNext,
     QuotesTypedNext DEF AllTyped
<1>2. ChartTyped' /\ DataTypeOK' /\ EngineInv' /\ ListsShaped' /\ PricesTypeOK'
  BY EachMoves, PartsMove, ChartTypedOn, DataTypedNext, EngineInvNext, ShapedNext,
     PricesTypedNext DEF AllTyped
<1>3. TicketInv' /\ TicketTyped' /\ LotsInv' /\ PageInv' /\ PageTyped'
  BY EachMoves, TicketInvNext, TicketTypedNext, LotsInvStep, PageNextInv, PageTypedNext
  DEF AllTyped
<1>4. AlgoInv' /\ ZeroTyped' /\ SearchTyped' /\ ContractsTyped' /\ FutOrdersInv'
  BY EachMoves, PartsMove, AlgoInvNext, ZeroTypedNext, SearchTypedNext, ContractsTypedNext,
     FutOrdersInvNext DEF AllTyped
<1>5. OptionsTyped' /\ BookTyped' /\ ProfileInv' /\ CapitalInv'
  BY EachMoves, PartsMove, OptionsTypedNext, BookTypedNext, ProfileInvNext, CapitalInvNext
  DEF AllTyped
<1> QED
  BY <1>1, <1>2, <1>3, <1>4, <1>5 DEF AllTyped

LEMMA AllTypedShows ==
  ASSUME AllTyped
  PROVE  /\ SessionTypeOK /\ ConsoleTypeOK /\ SocketTypeOK /\ QuotesTypeOK /\ ChartTypeOK
         /\ DataTypeOK /\ EngineTypeOK /\ ListsTypeOK /\ PricesTypeOK /\ TicketTypeOK
         /\ LotsTypeOK /\ PageTypeOK /\ AlgoTypeOK /\ ZeroTypeOK /\ SearchTypeOK
         /\ ContractsTypeOK /\ FutOrdersTypeOK /\ OptionsTypeOK /\ BookTypeOK
         /\ ProfileTypeOK /\ CapitalTypeOK
<1>1. SessionTypeOK /\ TicketTypeOK /\ PageTypeOK /\ BookTypeOK
  BY SessionTypedShows, TicketTypedShows, PageTypedShows, BookTypedShows DEF AllTyped
<1>2. ConsoleTypeOK /\ SocketTypeOK /\ SearchTypeOK /\ ContractsTypeOK
  BY DEF AllTyped, ConsoleTyped, SocketTyped, SearchTyped, ContractsTyped
<1>3. QuotesTypeOK /\ OptionsTypeOK /\ ZeroTypeOK
  BY QuotesTypedShows, OptionsTypedShows, ZeroTypedShows DEF AllTyped
<1>4. ChartTypeOK /\ DataTypeOK /\ EngineTypeOK /\ PricesTypeOK /\ LotsTypeOK
  BY DEF AllTyped, ChartTyped, EngineInv, LotsInv, LotsTypeOK
<1>5. ListsTypeOK
  BY DEF AllTyped, ListsShaped, ListsTypeOK, Calls, Edits
<1>6. AlgoTypeOK /\ FutOrdersTypeOK
  BY DEF AllTyped, AlgoInv, FutOrdersInv
<1>7. ProfileTypeOK /\ CapitalTypeOK
  BY DEF AllTyped, ProfileInv, CapitalInv, ProfileTyped, CapitalTyped
<1> QED
  BY <1>1, <1>2, <1>3, <1>4, <1>5, <1>6, <1>7

\* Every component of the browser keeps its state within its type: its requests are of the
\* forms it makes, its pages those there are, its counters within what bounds them
\* (useAuthStore.js:121-163, AdminPanelPage.jsx:521-543, useMarketData.js:139-263,
\* useOrders.js:153-245, useOptionsStore.js:33-84), for every value of the constants.
THEOREM BrowserTyped == BrowserSpec => []BrowserTypeOK
<1>1. AllTyped /\ part \in Parts => BrowserTypeOK
  BY AllTypedShows DEF BrowserTypeOK, Parts
<1>2. BrowserInit => AllTyped /\ part \in Parts
  BY AllTypedInit DEF BrowserInit
<1>3. (AllTyped /\ part \in Parts) /\ [BrowserNext]_browserVars => (AllTyped /\ part \in Parts)'
  BY AllTypedNext, EachMoves
<1> QED
  BY <1>1, <1>2, <1>3, PTL DEF BrowserSpec
=============================================================================
