------------------------ MODULE OrderExecutionProofs ------------------------
(***************************************************************************)
(* Proofs about OrderExecution, for every set of orders, every book, every *)
(* set of quotes and every bound.                                          *)
(***************************************************************************)
EXTENDS OrderExecution, SequenceTheorems, TLAPS

LEMMA ConcatIndex ==
    ASSUME NEW S, NEW s \in Seq(S), NEW t \in Seq(S)
    PROVE  /\ s \o t \in Seq(S)
           /\ Len(s) \in Nat /\ Len(t) \in Nat
           /\ Len(s \o t) = Len(s) + Len(t)
           /\ \A i \in 1..Len(s) : (s \o t)[i] = s[i]
           /\ \A i \in Len(s)+1..Len(s)+Len(t) : (s \o t)[i] = t[i - Len(s)]
<1>1. s \o t \in Seq(S) /\ Len(s \o t) = Len(s) + Len(t) /\ Len(s) \in Nat /\ Len(t) \in Nat
  BY ConcatProperties, LenProperties
<1>2. \A i \in 1..Len(s) + Len(t) : (s \o t)[i] = IF i <= Len(s) THEN s[i] ELSE t[i - Len(s)]
  BY ConcatProperties
<1> QED
  BY <1>1, <1>2

LEMMA ConcatThree ==
    ASSUME NEW S, NEW s \in Seq(S), NEW t \in Seq(S), NEW u \in Seq(S),
           NEW m, NEW n, NEW k, m = Len(s), n = Len(t), k = Len(u)
    PROVE  /\ Len((s \o t) \o u) = m + n + k
           /\ \A i \in 1..m : ((s \o t) \o u)[i] = s[i]
           /\ \A i \in m+1..m+n : ((s \o t) \o u)[i] = t[i - m]
           /\ \A i \in m+n+1..m+n+k : ((s \o t) \o u)[i] = u[i - m - n]
<1> DEFINE q == s \o t
<1>1. /\ q \in Seq(S) /\ Len(q) = m + n
      /\ m \in Nat /\ n \in Nat
      /\ \A i \in 1..m : q[i] = s[i]
      /\ \A i \in m+1..m+n : q[i] = t[i - m]
  BY ConcatIndex
<1> HIDE DEF q
<1> DEFINE r == q \o u
<1>2. /\ Len(r) = Len(q) + Len(u) /\ Len(u) \in Nat
      /\ \A i \in 1..Len(q) : r[i] = q[i]
      /\ \A i \in Len(q)+1..Len(q)+Len(u) : r[i] = u[i - Len(q)]
  <2> HIDE DEF r
  <2>1. q \in Seq(S) /\ u \in Seq(S)
    BY <1>1
  <2> QED
    BY <2>1, ConcatIndex DEF r
<1> HIDE DEF r
<1>3. /\ Len(r) = (m + n) + k
      /\ \A i \in 1..(m + n) : r[i] = q[i]
      /\ \A i \in (m + n)+1..(m + n)+k : r[i] = u[i - (m + n)]
  BY <1>1, <1>2
<1>4. \A i \in 1..m : r[i] = s[i]
  BY <1>1, <1>3
<1>5. \A i \in m+1..m+n : r[i] = t[i - m]
  BY <1>1, <1>3
<1>6. ASSUME NEW i \in m+n+1..m+n+k PROVE r[i] = u[i - m - n]
  <2>1. i - (m + n) = i - m - n
    BY <1>1
  <2> QED
    BY <2>1, <1>1, <1>2, <1>3
<1>7. Len(r) = m + n + k
  BY <1>3
<1> QED
  BY <1>4, <1>5, <1>6, <1>7 DEF q, r

USE DEF Terminal, Statuses, worldVars, tableVars, requestVars, sweepVars, busVars,
        effectVars, boundVars, programVars, StartWhen, RefuseAs, SweepError,
        EmitBatch, Batch, HandOver, BookFill

LEMMA EventTyped ==
    ASSUME NEW type \in EventTypes, NEW o \in Orders, NEW source \in Sources
    PROVE  Event(type, o, source) \in Events
BY DEF Event, Events

LEMMA EmitTyped ==
    ASSUME queue \in Seq(Events),
           NEW type \in EventTypes, NEW o \in Orders, NEW source \in Sources,
           Emit(type, o, source)
    PROVE  queue' \in Seq(Events)
BY EventTyped, AppendProperties DEF Emit

\* The events of one kind that a sweep emits for the orders of a list.
LEMMA BatchTyped ==
    ASSUME NEW list \in Seq(Orders), NEW type \in EventTypes, NEW source \in Sources
    PROVE  /\ [i \in DOMAIN list |-> Event(type, list[i], source)] \in Seq(Events)
           /\ Len([i \in DOMAIN list |-> Event(type, list[i], source)]) = Len(list)
<1> DEFINE batch == [i \in DOMAIN list |-> Event(type, list[i], source)]
<1>1. Len(list) \in Nat /\ DOMAIN list = 1..Len(list)
  BY LenProperties
<1>2. \A i \in 1..Len(list) : list[i] \in Orders
  BY ElementOfSeq
<1>3. \A i \in 1..Len(list) : Event(type, list[i], source) \in Events
  BY <1>2, EventTyped
<1>4. batch \in [1..Len(list) -> Events]
  BY <1>1, <1>3
<1> HIDE DEF batch
<1>5. batch \in Seq(Events)
  BY <1>1, <1>4, SeqDef
<1>6. Len(batch) = Len(list)
  BY <1>1, <1>4, <1>5, LenProperties
<1> QED
  BY <1>5, <1>6 DEF batch

LEMMA FillPriceTyped ==
    ASSUME NEW o \in OrderSpec, NEW p \in Nat
    PROVE  FillPrice(o, p) \in Nat
BY DEF FillPrice, OrderSpec

LEMMA TypeInit == Init => TypeOK
BY BoundsAssumption, QuotesAssumption
   DEF Init, TypeOK, NoDraft, Drafts, NoPrice, Events, Prices

LEMMA TypeNext == TypeOK /\ [Next]_vars => TypeOK'
<1> USE DEF NoPrice
<1> SUFFICES ASSUME TypeOK, [Next]_vars PROVE TypeOK'
  OBVIOUS
<1>1. CASE World
  <2>1. market' \in {"open", "closing", "closed"} /\ price' \in Quotes /\ aged' \subseteq Orders
    BY <1>1 DEF TypeOK, World, MarketTick, Quote, Age
  <2>2. UNCHANGED programVars
    BY <1>1 DEF World, MarketTick, Quote, Age
  <2> QED
    BY <2>1, <2>2 DEF TypeOK, programVars
<1>2. ASSUME NEW o \in Orders, Place(o) PROVE TypeOK'
  <2>1. ASSUME NEW p \in Prices, PlaceFlush(o, p) PROVE TypeOK'
    <3>1. p \in Nat
      BY QuotesAssumption DEF Prices
    <3>2. queue' \in Seq(Events)
      BY <2>1, EmitTyped DEF TypeOK, PlaceFlush, EventTypes, Sources
    <3>3. /\ [status |-> "FILLED", at |-> p] \in Drafts
          /\ [status |-> "OPEN", at |-> NoPrice] \in Drafts
      BY <3>1 DEF Drafts
    <3>4. draft' \in [Orders -> Drafts]
      BY <2>1, <3>3 DEF TypeOK, PlaceFlush
    <3> QED
      BY <2>1, <3>2, <3>4 DEF TypeOK, PlaceFlush
  <2>2. CASE PlaceCommit(o)
    <3>1. draft[o].status \in Statuses /\ draft[o].at \in Nat
      BY DEF TypeOK, Drafts
    <3>2. NoDraft \in Drafts
      BY DEF NoDraft, Drafts
    <3>3. settled' \in [Orders -> Nat]
      BY <2>2 DEF TypeOK, PlaceCommit
    <3> QED
      BY <2>2, <3>1, <3>2, <3>3 DEF TypeOK, PlaceCommit
  <2>3. CASE PlaceAbort(o)
    BY <2>3, BoundsAssumption DEF TypeOK, PlaceAbort, Drafts, NoDraft
  <2> QED
    BY <1>2, <2>1, <2>2, <2>3 DEF Place
<1>3. ASSUME NEW o \in Orders, Cancel(o) PROVE TypeOK'
  <2>1. CASE CancelRead(o)
    BY <2>1 DEF TypeOK, CancelRead
  <2>2. CASE CancelCommit(o)
    BY <2>2 DEF TypeOK, CancelCommit
  <2>3. CASE CancelEmit(o)
    <3>1. queue' \in Seq(Events)
      BY <2>3, EmitTyped DEF TypeOK, CancelEmit, EventTypes, Sources
    <3> QED
      BY <2>3, <3>1 DEF TypeOK, CancelEmit
  <2> QED
    BY <1>3, <2>1, <2>2, <2>3 DEF Cancel
<1>4. CASE Sweep
  <2>1. CASE SweepStart
    BY <2>1 DEF TypeOK, SweepStart
  <2>2. ASSUME NEW o \in Orders, SweepEvaluate(o) PROVE TypeOK'
    <3> USE <2>2 DEF TypeOK, SweepEvaluate
    <3>1. CASE SweepExpire(o)
      BY <3>1 DEF SweepExpire
    <3>2. CASE SweepFill(o)
      <4>1. Book[o] \in OrderSpec /\ price \in Nat
        BY BookAssumption, QuotesAssumption
      <4>2. FillPrice(Book[o], price) \in Nat
        BY <4>1, FillPriceTyped
      <4> QED
        BY <3>2, <4>2 DEF SweepFill
    <3>3. CASE SweepRefuse(o)
      BY <3>3 DEF SweepRefuse
    <3>4. CASE SweepLeave(o)
      BY <3>4 DEF SweepLeave
    <3> QED
      BY <3>1, <3>2, <3>3, <3>4
  <2>3. CASE SweepCommit
    BY <2>3 DEF TypeOK, SweepCommit
  <2>4. CASE SweepFail
    BY <2>4, BoundsAssumption DEF TypeOK, SweepFail, SweepForget
  <2>5. CASE SweepEmit
    <3>1. queue' \in Seq(Events)
      <4> DEFINE fills == Batch("ORDER_FILLED", filledEvents)
                 expiries == Batch("ORDER_EXPIRED", expiredEvents)
      <4>1. filledEvents \in Seq(Orders) /\ expiredEvents \in Seq(Orders) /\ queue \in Seq(Events)
        BY DEF TypeOK
      <4>2. fills \in Seq(Events)
        BY <4>1, BatchTyped DEF EventTypes, Sources
      <4>3. expiries \in Seq(Events)
        BY <4>1, BatchTyped DEF EventTypes, Sources
      <4>4. queue' = queue \o fills \o expiries
        BY <2>5 DEF SweepEmit
      <4> HIDE DEF fills, expiries
      <4> QED
        BY <4>1, <4>2, <4>3, <4>4, ConcatProperties
    <3> QED
      BY <2>5, <3>1 DEF TypeOK, SweepEmit
  <2> QED
    BY <1>4, <2>1, <2>2, <2>3, <2>4, <2>5 DEF Sweep
<1>5. CASE Bus
  <2>1. CASE Dispatch
    <3>1. Head(queue) \in Events /\ queue' \in Seq(Events)
      BY <2>1, HeadTailProperties DEF TypeOK, Dispatch
    <3>2. /\ stage' \in {"portfolio", "client"}
          /\ stage' = "portfolio" => current'.type = "ORDER_FILLED"
      BY <2>1 DEF Dispatch, FirstHandler
    <3> QED
      BY <2>1, <3>1, <3>2 DEF TypeOK, Dispatch
  <2>2. CASE SettleFill
    <3>1. current.order \in Orders
      BY <2>2 DEF TypeOK, SettleFill, PortfolioTurn, Events
    <3>2. queue' \in Seq(Events)
      BY <2>2, <3>1, EmitTyped DEF TypeOK, SettleFill, EventTypes, Sources
    <3>3. settled' \in [Orders -> Nat]
      BY <2>2, <3>1 DEF TypeOK, SettleFill
    <3> QED
      BY <2>2, <3>2, <3>3 DEF TypeOK, SettleFill, PortfolioTurn
  <2>3. CASE SettleFail
    BY <2>3, BoundsAssumption DEF TypeOK, SettleFail, PortfolioTurn
  <2>4. CASE SettleSkip
    <3>1. current.order \in Orders
      BY <2>4 DEF TypeOK, SettleSkip, PortfolioTurn, Events
    <3>2. queue' \in Seq(Events)
      BY <2>4, <3>1, EmitTyped DEF TypeOK, SettleSkip, EventTypes, Sources
    <3> QED
      BY <2>4, <3>2 DEF TypeOK, SettleSkip, PortfolioTurn
  <2>5. CASE Notify
    <3>1. current.order \in Orders /\ current.type \in EventTypes
      BY <2>5 DEF TypeOK, Notify, Events
    <3> QED
      BY <2>5, <3>1 DEF TypeOK, Notify
  <2> QED
    BY <1>5, <2>1, <2>2, <2>3, <2>4, <2>5 DEF Bus
<1>6. CASE Crash
  BY <1>6, BoundsAssumption DEF TypeOK, Crash, SweepForget, NoDraft, Drafts
<1>7. CASE UNCHANGED vars
  BY <1>7 DEF TypeOK, vars
<1> QED
  BY <1>1, <1>2, <1>3, <1>4, <1>5, <1>6, <1>7 DEF Next

\* Every variable of every component keeps its type, whatever the interleaving.
THEOREM TypeCorrect == Spec => []TypeOK
BY TypeInit, TypeNext, PTL DEF Spec

-----------------------------------------------------------------------------
(***************************************************************************)
(* Every fill is booked at most once, and only if it was committed.        *)
(***************************************************************************)
Accounted == TypeOK /\ FillsAccountedFor

USE DEF IsWorkerFill

\* An event of another source puts no token into the queue.
LEMMA EmitOther ==
    ASSUME queue \in Seq(Events), QueueDistinct,
           NEW type \in EventTypes, NEW x \in Orders,
           NEW source \in {"trading_engine", "portfolio_worker"},
           Emit(type, x, source)
    PROVE  /\ QueueDistinct'
           /\ \A o \in Orders : InQueue(o)' <=> InQueue(o)
<1> DEFINE e == Event(type, x, source)
<1>1. /\ e \in Events
      /\ \A o : ~ IsWorkerFill(e, o)
  BY EventTyped DEF Event, Sources
<1>2. queue' = Append(queue, e)
  BY DEF Emit
<1> HIDE DEF e
<1>3. /\ Len(queue') = Len(queue) + 1 /\ Len(queue) \in Nat
      /\ \A i \in 1..Len(queue) : queue'[i] = queue[i]
      /\ queue'[Len(queue) + 1] = e
  BY <1>1, <1>2, AppendProperties, LenProperties
<1>4. ASSUME NEW i \in 1..Len(queue'), NEW o, IsWorkerFill(queue'[i], o)
      PROVE  i \in 1..Len(queue) /\ IsWorkerFill(queue[i], o)
  <2>1. i # Len(queue) + 1
    BY <1>1, <1>3, <1>4
  <2> QED
    BY <2>1, <1>3, <1>4
<1>5. QueueDistinct'
  BY <1>4 DEF QueueDistinct
<1>6. \A o \in Orders : InQueue(o)' => InQueue(o)
  BY <1>4 DEF InQueue
<1>7. \A o \in Orders : InQueue(o) => InQueue(o)'
  BY <1>3 DEF InQueue
<1> QED
  BY <1>5, <1>6, <1>7

\* Everything the accounting depends on.
ledgerVars == <<status, request, draft, cancelling, sweepPc, todo, found,
                filledEvents, busVars, settled, workerFilled>>

LEMMA AccountedUnchanged ==
    FillsAccountedFor /\ UNCHANGED ledgerVars => FillsAccountedFor'
BY DEF FillsAccountedFor, BatchDistinct, QueueDistinct, TokensAreOwed,
       SweepOwnsItsOrders, UnfilledOrders, SettledAtMostOnce,
       SettledOnlyIfFilled, InBatch, InQueue, InHand, ledgerVars

LEMMA AccountedInit == Init => FillsAccountedFor
<1> SUFFICES ASSUME Init PROVE FillsAccountedFor
  OBVIOUS
<1>1. Len(queue) = 0 /\ Len(filledEvents) = 0
  BY EmptySeq DEF Init
<1> QED
  BY <1>1 DEF Init, FillsAccountedFor, BatchDistinct, QueueDistinct,
       TokensAreOwed, SweepOwnsItsOrders, UnfilledOrders, SettledAtMostOnce,
       SettledOnlyIfFilled, InBatch, InQueue, InHand

LEMMA AccountedPlace ==
    ASSUME Accounted, NEW x \in Orders, Place(x)
    PROVE  FillsAccountedFor'
<1> USE DEF Accounted
<1>1. ASSUME NEW p \in Prices, PlaceFlush(x, p) PROVE FillsAccountedFor'
  <2>1. QueueDistinct' /\ \A o \in Orders : InQueue(o)' <=> InQueue(o)
    BY <1>1, EmitOther DEF TypeOK, FillsAccountedFor, PlaceFlush, EventTypes
  <2>2. \A o \in Orders : /\ InBatch(o)' <=> InBatch(o)
                          /\ InHand(o)' <=> InHand(o)
    BY <1>1 DEF InBatch, InHand, PlaceFlush
  <2>3. BatchDistinct' /\ TokensAreOwed' /\ SweepOwnsItsOrders'
    BY <1>1, <2>1, <2>2 DEF FillsAccountedFor, PlaceFlush, BatchDistinct,
         TokensAreOwed, SweepOwnsItsOrders
  <2>4. UnfilledOrders'
    BY <1>1 DEF TypeOK, FillsAccountedFor, UnfilledOrders, PlaceFlush
  <2>5. SettledAtMostOnce' /\ SettledOnlyIfFilled'
    BY <1>1 DEF FillsAccountedFor, SettledAtMostOnce, SettledOnlyIfFilled,
         PlaceFlush
  <2> QED
    BY <2>1, <2>3, <2>4, <2>5 DEF FillsAccountedFor
<1>2. CASE PlaceCommit(x)
  <2>1. status[x] = "ABSENT" /\ settled[x] = 0 /\ x \notin workerFilled
        /\ draft[x].status \in {"OPEN", "FILLED"}
    BY <1>2 DEF FillsAccountedFor, UnfilledOrders, PlaceCommit
  <2>2. \A o \in Orders : /\ InBatch(o)' <=> InBatch(o)
                          /\ InQueue(o)' <=> InQueue(o)
                          /\ InHand(o)' <=> InHand(o)
    BY <1>2 DEF InBatch, InQueue, InHand, PlaceCommit
  <2>3. BatchDistinct' /\ QueueDistinct'
    BY <1>2 DEF FillsAccountedFor, BatchDistinct, QueueDistinct, PlaceCommit
  <2>4. TokensAreOwed'
    BY <1>2, <2>1, <2>2 DEF TypeOK, FillsAccountedFor, TokensAreOwed, PlaceCommit
  <2>5. SweepOwnsItsOrders'
    BY <1>2, <2>1 DEF TypeOK, FillsAccountedFor, SweepOwnsItsOrders, PlaceCommit
  <2>6. UnfilledOrders'
    BY <1>2, <2>1 DEF TypeOK, FillsAccountedFor, UnfilledOrders, PlaceCommit
  <2>7. SettledAtMostOnce' /\ SettledOnlyIfFilled'
    BY <1>2, <2>1 DEF TypeOK, FillsAccountedFor, SettledAtMostOnce,
         SettledOnlyIfFilled, PlaceCommit
  <2> QED
    BY <2>3, <2>4, <2>5, <2>6, <2>7 DEF FillsAccountedFor
<1>3. CASE PlaceAbort(x)
  <2>1. \A o \in Orders : /\ InBatch(o)' <=> InBatch(o)
                          /\ InQueue(o)' <=> InQueue(o)
                          /\ InHand(o)' <=> InHand(o)
    BY <1>3 DEF InBatch, InQueue, InHand, PlaceAbort
  <2>2. BatchDistinct' /\ QueueDistinct' /\ TokensAreOwed' /\ SweepOwnsItsOrders'
        /\ SettledAtMostOnce' /\ SettledOnlyIfFilled'
    BY <1>3, <2>1 DEF FillsAccountedFor, BatchDistinct, QueueDistinct, TokensAreOwed,
         SweepOwnsItsOrders, SettledAtMostOnce, SettledOnlyIfFilled, PlaceAbort
  <2>3. UnfilledOrders'
    BY <1>3 DEF TypeOK, FillsAccountedFor, UnfilledOrders, PlaceAbort
  <2> QED
    BY <2>2, <2>3 DEF FillsAccountedFor
<1> QED
  BY <1>1, <1>2, <1>3 DEF Place

LEMMA AccountedCancel ==
    ASSUME Accounted, NEW x \in Orders, Cancel(x)
    PROVE  FillsAccountedFor'
<1> USE DEF Accounted
<1>1. CASE CancelRead(x)
  <2>1. UnfilledOrders'
    BY <1>1 DEF TypeOK, FillsAccountedFor, UnfilledOrders, CancelRead
  <2> QED
    BY <1>1, <2>1 DEF FillsAccountedFor, BatchDistinct, QueueDistinct, TokensAreOwed,
         SweepOwnsItsOrders, SettledAtMostOnce, SettledOnlyIfFilled, CancelRead,
         InBatch, InQueue, InHand
<1>2. CASE CancelCommit(x)
  <2>1. BatchDistinct' /\ QueueDistinct' /\ TokensAreOwed'
    BY <1>2 DEF FillsAccountedFor, BatchDistinct, QueueDistinct, TokensAreOwed,
         InBatch, InQueue, InHand, CancelCommit
  <2>2. SweepOwnsItsOrders'
    BY <1>2 DEF TypeOK, FillsAccountedFor, SweepOwnsItsOrders, CancelCommit
  <2>3. UnfilledOrders'
    BY <1>2 DEF TypeOK, FillsAccountedFor, UnfilledOrders, CancelCommit
  <2>4. SettledAtMostOnce' /\ SettledOnlyIfFilled'
    BY <1>2 DEF TypeOK, FillsAccountedFor, SettledAtMostOnce, SettledOnlyIfFilled,
         UnfilledOrders, CancelCommit
  <2> QED
    BY <2>1, <2>2, <2>3, <2>4 DEF FillsAccountedFor
<1>3. CASE CancelEmit(x)
  <2>1. QueueDistinct' /\ \A o \in Orders : InQueue(o)' <=> InQueue(o)
    BY <1>3, EmitOther DEF TypeOK, FillsAccountedFor, CancelEmit, EventTypes
  <2>2. \A o \in Orders : /\ InBatch(o)' <=> InBatch(o)
                          /\ InHand(o)' <=> InHand(o)
    BY <1>3 DEF InBatch, InHand, CancelEmit
  <2>3. BatchDistinct' /\ TokensAreOwed' /\ SweepOwnsItsOrders'
        /\ SettledAtMostOnce' /\ SettledOnlyIfFilled'
    BY <1>3, <2>1, <2>2 DEF FillsAccountedFor, CancelEmit, BatchDistinct,
         TokensAreOwed, SweepOwnsItsOrders, SettledAtMostOnce,
         SettledOnlyIfFilled
  <2>4. UnfilledOrders'
    BY <1>3 DEF TypeOK, FillsAccountedFor, UnfilledOrders, CancelEmit
  <2> QED
    BY <2>1, <2>3, <2>4 DEF FillsAccountedFor
<1> QED
  BY <1>1, <1>2, <1>3 DEF Cancel

\* A sweep that reads the OPEN orders takes possession of them.
LEMMA AccountedStart ==
    ASSUME Accounted, SweepStart
    PROVE  FillsAccountedFor'
<1> USE DEF Accounted
<1>1. filledEvents = << >> /\ Len(filledEvents) = 0
  BY EmptySeq DEF FillsAccountedFor, SweepOwnsItsOrders, SweepStart
<1>2. SweepOwnsItsOrders'
  BY <1>1 DEF FillsAccountedFor, SweepOwnsItsOrders, UnfilledOrders, SweepStart
<1>3. \A o \in Orders : ~ InBatch(o)'
  BY DEF InBatch, SweepStart
<1>4. TokensAreOwed'
  BY <1>3 DEF FillsAccountedFor, TokensAreOwed, InQueue, InHand, SweepStart
<1> QED
  BY <1>2, <1>4 DEF FillsAccountedFor, BatchDistinct, QueueDistinct, UnfilledOrders,
       SettledAtMostOnce, SettledOnlyIfFilled, SweepStart

LEMMA AccountedEvaluate ==
    ASSUME Accounted, NEW x \in Orders, SweepEvaluate(x)
    PROVE  FillsAccountedFor'
<1> USE DEF Accounted
<1>1. /\ filledEvents \in Seq(Orders)
      /\ x \in todo /\ found[x] = "none"
      /\ sweepPc = "evaluating" /\ sweepPc' = "evaluating"
      /\ todo' = todo \ {x}
      /\ found \in [Orders -> {"none"} \cup Terminal]
  BY DEF TypeOK, FillsAccountedFor, SweepOwnsItsOrders, SweepEvaluate
<1>2. \E verdict \in {"none"} \cup Terminal : found' = [found EXCEPT ![x] = verdict]
  <2>1. CASE SweepLeave(x)
    <3>1. found' = [found EXCEPT ![x] = "none"]
      BY <1>1, <2>1 DEF SweepLeave
    <3> QED
      BY <3>1
  <2> QED
    BY <2>1 DEF SweepEvaluate, SweepExpire, SweepFill, SweepRefuse
<1>3. \A i \in 1..Len(filledEvents) : filledEvents[i] # x
  BY <1>1 DEF FillsAccountedFor, SweepOwnsItsOrders
<1>4. \/ filledEvents' = filledEvents
      \/ filledEvents' = Append(filledEvents, x) /\ found'[x] = "FILLED"
  BY <1>1 DEF SweepEvaluate, SweepExpire, SweepFill, SweepRefuse, SweepLeave
<1>5. BatchDistinct' /\ \A i \in 1..Len(filledEvents') : found'[filledEvents'[i]] = "FILLED"
  <2>1. CASE filledEvents' = filledEvents
    BY <2>1, <1>1, <1>2, <1>3, ElementOfSeq DEF FillsAccountedFor, BatchDistinct, SweepOwnsItsOrders
  <2>2. CASE filledEvents' = Append(filledEvents, x) /\ found'[x] = "FILLED"
    <3>1. /\ Len(filledEvents) \in Nat
          /\ Len(filledEvents') = Len(filledEvents) + 1
          /\ \A i \in 1..Len(filledEvents) : filledEvents'[i] = filledEvents[i]
          /\ filledEvents'[Len(filledEvents) + 1] = x
      BY <2>2, <1>1, AppendProperties, LenProperties
    <3>2. BatchDistinct'
      BY <3>1, <1>3 DEF FillsAccountedFor, BatchDistinct
    <3>3. \A i \in 1..Len(filledEvents) : found'[filledEvents[i]] = "FILLED"
      BY <1>1, <1>2, <1>3, ElementOfSeq DEF FillsAccountedFor, SweepOwnsItsOrders
    <3> QED
      BY <2>2, <3>1, <3>2, <3>3
  <2> QED
    BY <1>4, <2>1, <2>2
<1>6. SweepOwnsItsOrders'
  <2>1. \A o \in Orders : o \in todo' \/ found'[o] # "none" => o \in todo \/ found[o] # "none"
    BY <1>1, <1>2
  <2>2. \A o \in todo' : found'[o] = "none"
    BY <1>1, <1>2 DEF TypeOK, FillsAccountedFor, SweepOwnsItsOrders
  <2> QED
    BY <1>1, <1>5, <2>1, <2>2 DEF FillsAccountedFor, SweepOwnsItsOrders, SweepEvaluate
<1>7. TokensAreOwed'
  BY <1>1 DEF FillsAccountedFor, TokensAreOwed, InBatch, InQueue, InHand, SweepEvaluate
<1> QED
  BY <1>5, <1>6, <1>7 DEF FillsAccountedFor, QueueDistinct, UnfilledOrders,
       SettledAtMostOnce, SettledOnlyIfFilled, SweepEvaluate

\* The commit turns every entry of the sweep's list into a token.
LEMMA AccountedCommit ==
    ASSUME Accounted, SweepCommit
    PROVE  FillsAccountedFor'
<1> USE DEF Accounted
<1>1. \A o \in Orders : found[o] # "none" =>
          status[o] \in {"OPEN", "CANCELLED"} /\ o \notin workerFilled /\ settled[o] = 0
  BY DEF FillsAccountedFor, SweepOwnsItsOrders
<1>2. \A o \in Orders : /\ InQueue(o)' <=> InQueue(o)
                        /\ InHand(o)' <=> InHand(o)
  BY DEF InQueue, InHand, SweepCommit
<1>3. \A o \in Orders : InBatch(o)' => found[o] = "FILLED"
  BY DEF InBatch, FillsAccountedFor, SweepOwnsItsOrders, SweepCommit
<1>4. TokensAreOwed'
  BY <1>1, <1>2, <1>3 DEF FillsAccountedFor, TokensAreOwed, SweepCommit
<1>5. SweepOwnsItsOrders'
  BY DEF SweepOwnsItsOrders, SweepCommit
<1>6. UnfilledOrders'
  BY <1>1 DEF TypeOK, FillsAccountedFor, UnfilledOrders, SweepCommit
<1>7. SettledAtMostOnce' /\ SettledOnlyIfFilled'
  BY <1>1 DEF FillsAccountedFor, SettledAtMostOnce, SettledOnlyIfFilled, SweepCommit
<1> QED
  BY <1>4, <1>5, <1>6, <1>7 DEF FillsAccountedFor, BatchDistinct, QueueDistinct, SweepCommit

LEMMA AccountedFail ==
    ASSUME Accounted, SweepFail
    PROVE  FillsAccountedFor'
<1> USE DEF Accounted, SweepFail, SweepForget
<1>1. Len(filledEvents') = 0
  BY EmptySeq
<1>2. \A o \in Orders : /\ ~ InBatch(o)'
                        /\ InQueue(o)' <=> InQueue(o)
                        /\ InHand(o)' <=> InHand(o)
  BY DEF InBatch, InQueue, InHand
<1>3. BatchDistinct' /\ TokensAreOwed' /\ SweepOwnsItsOrders'
  BY <1>1, <1>2 DEF FillsAccountedFor, BatchDistinct, TokensAreOwed, SweepOwnsItsOrders
<1> QED
  BY <1>3 DEF FillsAccountedFor, QueueDistinct, UnfilledOrders, SettledAtMostOnce,
       SettledOnlyIfFilled

\* The tokens move from the list to the end of the queue.
LEMMA AccountedEmit ==
    ASSUME Accounted, SweepEmit
    PROVE  FillsAccountedFor'
<1> USE DEF Accounted
<1> DEFINE n == Len(queue)
           f == Len(filledEvents)
           g == Len(expiredEvents)
           fills == Batch("ORDER_FILLED", filledEvents)
           expiries == Batch("ORDER_EXPIRED", expiredEvents)
<1>1. /\ filledEvents \in Seq(Orders) /\ expiredEvents \in Seq(Orders) /\ queue \in Seq(Events)
      /\ n \in Nat /\ f \in Nat /\ g \in Nat
      /\ DOMAIN filledEvents = 1..f /\ DOMAIN expiredEvents = 1..g
      /\ sweepPc = "committed"
  BY LenProperties DEF TypeOK, SweepEmit
<1>2. /\ fills \in Seq(Events) /\ Len(fills) = f
      /\ expiries \in Seq(Events) /\ Len(expiries) = g
  BY <1>1, BatchTyped DEF EventTypes, Sources
<1>3. queue' = (queue \o fills) \o expiries
  BY DEF SweepEmit
<1>4. /\ Len(queue') = n + f + g
      /\ \A i \in 1..n : queue'[i] = queue[i]
      /\ \A i \in n+1..n+f : queue'[i] = fills[i - n]
      /\ \A i \in n+f+1..n+f+g : queue'[i] = expiries[i - n - f]
  <2> HIDE DEF fills, expiries
  <2> QED
    BY <1>1, <1>2, <1>3, ConcatThree
<1>5. /\ \A i \in 1..f : fills[i] = Event("ORDER_FILLED", filledEvents[i], "order_execution_worker")
      /\ \A i \in 1..g : expiries[i] = Event("ORDER_EXPIRED", expiredEvents[i], "order_execution_worker")
  BY <1>1
<1>6. ASSUME NEW i \in 1..Len(queue'), NEW o \in Orders
      PROVE  IsWorkerFill(queue'[i], o) <=>
                \/ i \in 1..n /\ IsWorkerFill(queue[i], o)
                \/ i \in n+1..n+f /\ filledEvents[i - n] = o
  <2> HIDE DEF n, f, g, fills, expiries
  <2>1. CASE i \in 1..n
    BY <2>1, <1>1, <1>4
  <2>2. CASE i \in n+1..n+f
    <3>1. i - n \in 1..f
      BY <2>2, <1>1
    <3>2. queue'[i] = Event("ORDER_FILLED", filledEvents[i - n], "order_execution_worker")
      BY <2>2, <3>1, <1>4, <1>5
    <3> QED
      BY <2>2, <3>2, <1>1 DEF Event
  <2>3. CASE i \in n+f+1..n+f+g
    <3>1. i - n - f \in 1..g
      BY <2>3, <1>1
    <3>2. queue'[i] = Event("ORDER_EXPIRED", expiredEvents[i - n - f], "order_execution_worker")
      BY <2>3, <3>1, <1>4, <1>5
    <3> QED
      BY <2>3, <3>2, <1>1 DEF Event
  <2> QED
    BY <1>1, <1>4, <2>1, <2>2, <2>3
<1>7. \A o \in Orders : InBatch(o) <=> \E i \in n+1..n+f : filledEvents[i - n] = o
  <2>1. ASSUME NEW o \in Orders, NEW i \in 1..f, filledEvents[i] = o
        PROVE  n + i \in n+1..n+f /\ filledEvents[(n + i) - n] = o
    BY <1>1, <2>1
  <2>2. ASSUME NEW o \in Orders, NEW i \in n+1..n+f, filledEvents[i - n] = o
        PROVE  i - n \in 1..f
    BY <1>1
  <2> QED
    BY <1>1, <2>1, <2>2 DEF InBatch
<1>8. \A o \in Orders : InQueue(o)' <=> InQueue(o) \/ InBatch(o)
  <2> HIDE DEF n, f, g, fills, expiries
  <2>1. \A i \in 1..n : i \in 1..Len(queue')
    BY <1>1, <1>4
  <2>2. \A i \in n+1..n+f : i \in 1..Len(queue')
    BY <1>1, <1>4
  <2>3. \A o \in Orders : InQueue(o)' <=> \E i \in 1..Len(queue') : IsWorkerFill(queue'[i], o)
    BY DEF InQueue
  <2>4. \A o \in Orders : InQueue(o) <=> \E i \in 1..n : IsWorkerFill(queue[i], o)
    BY DEF InQueue, n
  <2> HIDE DEF IsWorkerFill
  <2> QED
    BY <1>6, <1>7, <2>1, <2>2, <2>3, <2>4
<1>9. QueueDistinct'
  <2> SUFFICES ASSUME NEW o \in Orders, NEW i \in 1..Len(queue'), NEW j \in 1..Len(queue'),
                      IsWorkerFill(queue'[i], o), IsWorkerFill(queue'[j], o)
               PROVE  i = j
    BY DEF QueueDistinct
  <2>1. /\ \/ i \in 1..n /\ IsWorkerFill(queue[i], o)
           \/ i \in n+1..n+f /\ filledEvents[i - n] = o
        /\ \/ j \in 1..n /\ IsWorkerFill(queue[j], o)
           \/ j \in n+1..n+f /\ filledEvents[j - n] = o
    BY <1>6
  <2>2. ~ (InBatch(o) /\ InQueue(o))
    BY DEF FillsAccountedFor, TokensAreOwed
  <2>3. CASE i \in 1..n /\ j \in 1..n
    BY <2>1, <2>3, <1>1 DEF FillsAccountedFor, QueueDistinct
  <2>4. CASE i \in n+1..n+f /\ j \in n+1..n+f
    <3>1. i - n \in 1..f /\ j - n \in 1..f /\ filledEvents[i - n] = filledEvents[j - n]
      BY <2>1, <2>4, <1>1
    <3>2. i - n = j - n
      BY <3>1 DEF FillsAccountedFor, BatchDistinct
    <3> QED
      BY <3>2, <2>4, <1>1
  <2>5. CASE i \in 1..n /\ j \in n+1..n+f
    BY <2>1, <2>2, <2>5, <1>1, <1>7 DEF InQueue
  <2>6. CASE i \in n+1..n+f /\ j \in 1..n
    BY <2>1, <2>2, <2>6, <1>1, <1>7 DEF InQueue
  <2> QED
    BY <2>1, <2>3, <2>4, <2>5, <2>6
<1>10. \A o \in Orders : ~ InBatch(o)' /\ (InHand(o)' <=> InHand(o))
  BY DEF InBatch, InHand, SweepEmit
<1>11. TokensAreOwed'
  BY <1>8, <1>10 DEF FillsAccountedFor, TokensAreOwed, SweepEmit
<1>12. BatchDistinct' /\ SweepOwnsItsOrders'
  <2>1. filledEvents' = << >> /\ Len(filledEvents') = 0
    BY EmptySeq DEF SweepEmit
  <2> QED
    BY <2>1 DEF FillsAccountedFor, BatchDistinct, SweepOwnsItsOrders, SweepEmit
<1> QED
  BY <1>9, <1>11, <1>12 DEF FillsAccountedFor, UnfilledOrders, SettledAtMostOnce,
       SettledOnlyIfFilled, SweepEmit

\* The dispatcher takes the first token into its hand.
LEMMA AccountedDispatch ==
    ASSUME Accounted, Dispatch
    PROVE  FillsAccountedFor'
<1> USE DEF Accounted
<1>1. /\ queue \in Seq(Events) /\ queue # << >>
      /\ queue' = Tail(queue) /\ current' = Head(queue) /\ current = Idle
  BY DEF TypeOK, Dispatch
<1>2. /\ Len(queue) \in Nat /\ Len(queue') = Len(queue) - 1 /\ Len(queue) >= 1
      /\ \A i \in 1..Len(queue') : queue'[i] = queue[i + 1]
      /\ Head(queue) = queue[1]
  BY <1>1, HeadTailProperties, LenProperties, EmptySeq
<1>3. QueueDistinct'
  <2> SUFFICES ASSUME NEW o \in Orders, NEW i \in 1..Len(queue'), NEW j \in 1..Len(queue'),
                      IsWorkerFill(queue'[i], o), IsWorkerFill(queue'[j], o)
               PROVE  i = j
    BY DEF QueueDistinct
  <2>1. i + 1 \in 1..Len(queue) /\ j + 1 \in 1..Len(queue)
    BY <1>2
  <2>2. IsWorkerFill(queue[i + 1], o) /\ IsWorkerFill(queue[j + 1], o)
    BY <1>2
  <2>3. i + 1 = j + 1
    BY <2>1, <2>2 DEF FillsAccountedFor, QueueDistinct
  <2> QED
    BY <2>3, <1>2
<1>4. \A o \in Orders : InQueue(o)' => InQueue(o)
  <2>1. ASSUME NEW o \in Orders, NEW i \in 1..Len(queue'), IsWorkerFill(queue'[i], o)
        PROVE  i + 1 \in 1..Len(queue) /\ IsWorkerFill(queue[i + 1], o)
    BY <1>2, <2>1
  <2> QED
    BY <2>1 DEF InQueue
<1>5. \A o \in Orders : InHand(o)' => InQueue(o)
  BY <1>1, <1>2 DEF InHand, InQueue
<1>6. \A o \in Orders : ~ (InQueue(o)' /\ InHand(o)')
  <2> SUFFICES ASSUME NEW o \in Orders, NEW i \in 1..Len(queue'),
                      IsWorkerFill(queue'[i], o), IsWorkerFill(current', o)
               PROVE  FALSE
    BY DEF InQueue, InHand
  <2>1. i + 1 \in 1..Len(queue) /\ 1 \in 1..Len(queue) /\ i + 1 # 1
    BY <1>2
  <2>2. IsWorkerFill(queue[i + 1], o) /\ IsWorkerFill(queue[1], o)
    BY <1>1, <1>2
  <2> QED
    BY <2>1, <2>2 DEF FillsAccountedFor, QueueDistinct
<1>7. \A o \in Orders : InBatch(o)' <=> InBatch(o)
  BY DEF InBatch, Dispatch
<1>8. TokensAreOwed'
  BY <1>4, <1>5, <1>6, <1>7 DEF FillsAccountedFor, TokensAreOwed, Dispatch
<1> QED
  BY <1>3, <1>8 DEF FillsAccountedFor, BatchDistinct, SweepOwnsItsOrders, UnfilledOrders,
       SettledAtMostOnce, SettledOnlyIfFilled, Dispatch

\* The token in the dispatcher's hand is spent on one booking.
LEMMA AccountedSettle ==
    ASSUME Accounted, SettleFill
    PROVE  FillsAccountedFor'
<1> USE DEF Accounted
<1> DEFINE x == current.order
<1>1. /\ current \in Events /\ x \in Orders
      /\ current # Idle /\ stage = "portfolio" /\ stage' = "client" /\ current' = current
      /\ current.source = "order_execution_worker"
      /\ settled' = [settled EXCEPT ![x] = @ + 1]
      /\ Emit("PORTFOLIO_UPDATED", x, "portfolio_worker")
  BY DEF TypeOK, SettleFill, PortfolioTurn, Events
<1>2. QueueDistinct' /\ \A o \in Orders : InQueue(o)' <=> InQueue(o)
  BY <1>1, EmitOther DEF TypeOK, FillsAccountedFor, EventTypes
<1>3. \A o \in Orders : ~ InHand(o)' /\ (InBatch(o)' <=> InBatch(o))
  BY <1>1 DEF InHand, InBatch, SettleFill
<1>4. CASE current.type = "ORDER_FILLED"
  <2>1. InHand(x)
    BY <1>1, <1>4 DEF InHand
  <2>2. x \in workerFilled /\ settled[x] = 0 /\ ~ InQueue(x) /\ ~ InBatch(x)
    BY <1>1, <2>1 DEF FillsAccountedFor, TokensAreOwed
  <2>3. status[x] \notin {"ABSENT", "OPEN"} /\ x \notin todo /\ found[x] = "none"
    BY <1>1, <2>2 DEF FillsAccountedFor, UnfilledOrders, SweepOwnsItsOrders
  <2> HIDE DEF x
  <2>4. settled'[x] = 1 /\ \A o \in Orders \ {x} : settled'[o] = settled[o]
    BY <1>1, <2>2 DEF TypeOK
  <2>5. TokensAreOwed'
    BY <1>2, <1>3, <2>2, <2>4 DEF FillsAccountedFor, TokensAreOwed, SettleFill
  <2>6. SweepOwnsItsOrders'
    BY <2>3, <2>4 DEF FillsAccountedFor, SweepOwnsItsOrders, SettleFill
  <2>7. UnfilledOrders'
    BY <2>2, <2>3, <2>4 DEF FillsAccountedFor, UnfilledOrders, SettleFill
  <2>8. SettledAtMostOnce' /\ SettledOnlyIfFilled'
    BY <2>2, <2>4 DEF FillsAccountedFor, SettledAtMostOnce, SettledOnlyIfFilled, SettleFill
  <2> QED
    BY <1>2, <2>5, <2>6, <2>7, <2>8 DEF FillsAccountedFor, BatchDistinct, SettleFill
<1> QED
  BY <1>1, <1>4 DEF TypeOK

\* The other turns of the dispatcher drop what it holds, or keep it from hand.
LEMMA AccountedTurn ==
    ASSUME Accounted, SettleFail \/ SettleSkip \/ Notify
    PROVE  FillsAccountedFor'
<1> USE DEF Accounted
<1>1. QueueDistinct' /\ \A o \in Orders : InQueue(o)' <=> InQueue(o)
  <2>1. CASE SettleSkip
    <3>1. current.order \in Orders
      BY <2>1 DEF TypeOK, SettleSkip, PortfolioTurn, Events
    <3> QED
      BY <2>1, <3>1, EmitOther DEF TypeOK, FillsAccountedFor, EventTypes, SettleSkip
  <2> QED
    BY <2>1 DEF FillsAccountedFor, QueueDistinct, InQueue, SettleFail, Notify
<1>2. \A o \in Orders : ~ InHand(o)' /\ (InBatch(o)' <=> InBatch(o))
  BY DEF InHand, InBatch, SettleFail, SettleSkip, Notify, PortfolioTurn
<1>3. UNCHANGED <<tableVars, requestVars, cancelling, sweepVars, settled, workerFilled>>
  BY DEF SettleFail, SettleSkip, Notify
<1>4. TokensAreOwed'
  BY <1>1, <1>2, <1>3 DEF FillsAccountedFor, TokensAreOwed
<1> QED
  BY <1>1, <1>3, <1>4 DEF FillsAccountedFor, BatchDistinct, SweepOwnsItsOrders,
       UnfilledOrders, SettledAtMostOnce, SettledOnlyIfFilled

\* A restart destroys every token.
LEMMA AccountedCrash ==
    ASSUME Accounted, Crash
    PROVE  FillsAccountedFor'
<1> USE DEF Accounted, Crash, SweepForget
<1>1. Len(queue') = 0 /\ Len(filledEvents') = 0
  BY EmptySeq
<1>2. \A o \in Orders : ~ InBatch(o)' /\ ~ InQueue(o)' /\ ~ InHand(o)'
  BY <1>1 DEF InBatch, InQueue, InHand
<1>3. BatchDistinct' /\ QueueDistinct'
  BY <1>1 DEF BatchDistinct, QueueDistinct
<1>4. TokensAreOwed' /\ SweepOwnsItsOrders'
  BY <1>1, <1>2 DEF TokensAreOwed, SweepOwnsItsOrders
<1>5. UnfilledOrders'
  BY DEF TypeOK, FillsAccountedFor, UnfilledOrders
<1> QED
  BY <1>3, <1>4, <1>5 DEF FillsAccountedFor, SettledAtMostOnce, SettledOnlyIfFilled

LEMMA AccountedNext == Accounted /\ [Next]_vars => Accounted'
<1> SUFFICES ASSUME Accounted, [Next]_vars PROVE Accounted'
  OBVIOUS
<1>1. TypeOK'
  BY TypeNext DEF Accounted
<1>2. FillsAccountedFor'
  <2>1. CASE World
    BY <2>1, AccountedUnchanged DEF Accounted, World, MarketTick, Quote, Age, ledgerVars
  <2>2. ASSUME NEW o \in Orders, Place(o) \/ Cancel(o) PROVE FillsAccountedFor'
    BY <2>2, AccountedPlace, AccountedCancel
  <2>3. CASE Sweep
    BY <2>3, AccountedStart, AccountedEvaluate, AccountedCommit, AccountedFail, AccountedEmit DEF Sweep
  <2>4. CASE Bus
    BY <2>4, AccountedDispatch, AccountedSettle, AccountedTurn DEF Bus
  <2>5. CASE Crash
    BY <2>5, AccountedCrash
  <2>6. CASE UNCHANGED vars
    BY <2>6, AccountedUnchanged DEF Accounted, vars, ledgerVars
  <2> QED
    BY <2>1, <2>2, <2>3, <2>4, <2>5, <2>6 DEF Next
<1> QED
  BY <1>1, <1>2 DEF Accounted

\* The token argument holds in every state of every instance.
THEOREM EveryFillAccountedFor == Spec => []FillsAccountedFor
<1>1. Init => Accounted
  BY TypeInit, AccountedInit DEF Accounted
<1>2. Accounted => FillsAccountedFor
  BY DEF Accounted
<1> QED
  BY <1>1, <1>2, AccountedNext, PTL DEF Spec

\* The shares of an order change hands at most once.
THEOREM BookedAtMostOnce == Spec => []SettledAtMostOnce
<1>1. FillsAccountedFor => SettledAtMostOnce
  BY DEF FillsAccountedFor
<1> QED
  BY <1>1, EveryFillAccountedFor, PTL

\* Nothing is booked for an order the database never held as FILLED.
THEOREM BookedOnlyIfFilled == Spec => []SettledOnlyIfFilled
<1>1. FillsAccountedFor => SettledOnlyIfFilled
  BY DEF FillsAccountedFor
<1> QED
  BY <1>1, EveryFillAccountedFor, PTL

-----------------------------------------------------------------------------
(* The outcome of an order, and the contract of FillSettlement. *)

\* An order that left OPEN never rests again.
THEOREM NeverReopened == Spec => NoReopen
<1>1. Accounted /\ [Next]_vars =>
        [\A o \in Orders : status[o] \in Terminal => status'[o] \in Terminal]_vars
  <2> SUFFICES ASSUME Accounted, Next, NEW o \in Orders, status[o] \in Terminal
               PROVE  status'[o] \in Terminal
    OBVIOUS
  <2> USE DEF Accounted
  <2>1. CASE World
    BY <2>1 DEF World, MarketTick, Quote, Age
  <2>2. ASSUME NEW x \in Orders, Place(x) PROVE status'[o] \in Terminal
    BY <2>2 DEF TypeOK, FillsAccountedFor, UnfilledOrders, Place, PlaceFlush, PlaceCommit, PlaceAbort
  <2>3. ASSUME NEW x \in Orders, Cancel(x) PROVE status'[o] \in Terminal
    BY <2>3 DEF TypeOK, Cancel, CancelRead, CancelCommit, CancelEmit
  <2>4. CASE Sweep
    BY <2>4 DEF TypeOK, Sweep, SweepStart, SweepEvaluate, SweepCommit, SweepFail, SweepEmit
  <2>5. CASE Bus
    BY <2>5 DEF Bus, Dispatch, SettleFill, SettleFail, SettleSkip, Notify
  <2>6. CASE Crash
    BY <2>6 DEF Crash
  <2> QED
    BY <2>1, <2>2, <2>3, <2>4, <2>5, <2>6 DEF Next
<1>2. Init => Accounted
  BY TypeInit, AccountedInit DEF Accounted
<1> QED
  BY <1>1, <1>2, AccountedNext, PTL DEF Spec, NoReopen

Filled == workerFilled \cup {o \in Orders : status[o] = "FILLED"}

LEMMA SettlementStutter ==
    ASSUME UNCHANGED <<status, settled, workerFilled>>
    PROVE  UNCHANGED Settlement!v
BY DEF Settlement!v

LEMMA SettlementStep ==
    ASSUME Accounted, [Next]_vars
    PROVE  [Settlement!Next]_(Settlement!v)
<1> USE DEF Accounted
<1>1. CASE World
  BY <1>1, SettlementStutter DEF World, MarketTick, Quote, Age
<1>2. ASSUME NEW x \in Orders, Place(x) PROVE [Settlement!Next]_(Settlement!v)
  <2>1. CASE PlaceCommit(x)
    <3>1. /\ status[x] = "ABSENT" /\ settled[x] = 0 /\ x \notin workerFilled
          /\ draft[x].status \in {"OPEN", "FILLED"}
          /\ status \in [Orders -> Statuses] /\ settled \in [Orders -> Nat]
          /\ status' = [status EXCEPT ![x] = draft[x].status]
          /\ workerFilled' = workerFilled
      BY <2>1 DEF TypeOK, FillsAccountedFor, UnfilledOrders, PlaceCommit
    <3>2. CASE draft[x].status = "FILLED"
      <4>1. Filled' = Filled \cup {x} /\ x \notin Filled
        BY <3>1, <3>2 DEF Filled
      <4>2. settled' = [settled EXCEPT ![x] = 1]
        BY <2>1, <3>1, <3>2 DEF PlaceCommit
      <4>3. Settlement!FillAndBook(x)
        BY <3>1, <4>1, <4>2 DEF Settlement!FillAndBook, Filled
      <4> QED
        BY <4>3 DEF Settlement!Next
    <3>3. CASE draft[x].status = "OPEN"
      <4>1. Filled' = Filled
        BY <3>1, <3>3 DEF Filled
      <4>2. settled' = settled
        BY <2>1, <3>3 DEF PlaceCommit
      <4> QED
        BY <4>1, <4>2 DEF Settlement!v, Filled
    <3> QED
      BY <3>1, <3>2, <3>3
  <2> QED
    BY <1>2, <2>1, SettlementStutter DEF Place, PlaceFlush, PlaceAbort
<1>3. ASSUME NEW x \in Orders, Cancel(x) PROVE [Settlement!Next]_(Settlement!v)
  <2>1. CASE CancelCommit(x)
    <3>1. status[x] # "FILLED" \/ x \in workerFilled
      BY <2>1 DEF TypeOK, FillsAccountedFor, UnfilledOrders, CancelCommit
    <3>2. Filled' = Filled /\ settled' = settled
      BY <2>1, <3>1 DEF TypeOK, Filled, CancelCommit
    <3> QED
      BY <3>2 DEF Settlement!v, Filled
  <2> QED
    BY <1>3, <2>1, SettlementStutter DEF Cancel, CancelRead, CancelEmit
<1>4. CASE Sweep
  <2>1. CASE SweepCommit
    <3>1. PICK batch \in SUBSET Orders : batch = {o \in Orders : found[o] = "FILLED"}
      OBVIOUS
    <3>2. \A o \in Orders : found[o] # "none" => status[o] # "FILLED" /\ o \notin workerFilled
      BY DEF FillsAccountedFor, SweepOwnsItsOrders
    <3>3. Filled' = Filled \cup batch /\ batch \cap Filled = {}
      BY <2>1, <3>1, <3>2 DEF TypeOK, Filled, SweepCommit
    <3>4. Settlement!FillBatch(batch)
      BY <2>1, <3>3 DEF Settlement!FillBatch, Filled, SweepCommit
    <3> QED
      BY <3>4 DEF Settlement!Next
  <2> QED
    BY <1>4, <2>1, SettlementStutter DEF Sweep, SweepStart, SweepEvaluate, SweepFail, SweepEmit
<1>5. CASE Bus
  <2>1. CASE SettleFill
    <3> DEFINE x == current.order
    <3>1. x \in Orders /\ InHand(x)
      BY <2>1 DEF TypeOK, SettleFill, PortfolioTurn, Events, InHand
    <3>2. x \in workerFilled /\ settled[x] = 0
      BY <3>1 DEF FillsAccountedFor, TokensAreOwed
    <3> HIDE DEF x
    <3>3. settled' = [settled EXCEPT ![x] = 1]
      BY <2>1, <3>1, <3>2 DEF TypeOK, SettleFill, x
    <3>4. Settlement!BookOwed(x)
      BY <2>1, <3>1, <3>2, <3>3 DEF Settlement!BookOwed, SettleFill
    <3> QED
      BY <3>1, <3>4 DEF Settlement!Next
  <2> QED
    BY <1>5, <2>1, SettlementStutter DEF Bus, Dispatch, SettleFail, SettleSkip, Notify
<1>6. CASE Crash
  BY <1>6, SettlementStutter DEF Crash
<1>7. CASE UNCHANGED vars
  BY <1>7, SettlementStutter DEF vars
<1> QED
  BY <1>1, <1>2, <1>3, <1>4, <1>5, <1>6, <1>7 DEF Next

\* Whatever fails or restarts, the program takes only steps of FillSettlement.
THEOREM RefinesSettlement == Spec => ImplementsSettlement
<1>1. Init => Accounted
  BY TypeInit, AccountedInit DEF Accounted
<1>2. Init => Settlement!Init
  BY DEF Init, Settlement!Init
<1>3. Accounted /\ [Next]_vars => [Settlement!Next]_(Settlement!v)
  BY SettlementStep
<1> QED
  BY <1>1, <1>2, <1>3, AccountedNext, PTL DEF Spec, ImplementsSettlement, Settlement!Spec

-----------------------------------------------------------------------------
(***************************************************************************)
(* A fill respects its limit.  The price is chosen long before it becomes  *)
(* part of a committed row, so the invariant says it of the three places   *)
(* that can hold a fill: a request's row, the sweep's row and the table.   *)
(***************************************************************************)
GoodFill(o, p) == p # NoPrice /\ RespectsLimit(Book[o], p)

FillsGood ==
    /\ \A o \in Orders : draft[o].status = "FILLED" => GoodFill(o, draft[o].at)
    /\ \A o \in Orders : found[o] = "FILLED" => GoodFill(o, foundAt[o])
    /\ \A o \in Orders : status[o] = "FILLED" => GoodFill(o, filledAt[o])

LEMMA ArrivalGood ==
    ASSUME NEW o \in Orders, NEW p \in Prices, FillsOnArrival(Book[o], p)
    PROVE  GoodFill(o, p)
BY BookAssumption, QuotesAssumption
   DEF GoodFill, FillsOnArrival, RespectsLimit, Prices, NoPrice, OrderSpec

LEMMA RestingGood ==
    ASSUME NEW o \in Orders, NEW p \in Quotes, ShouldFill(Book[o], p)
    PROVE  GoodFill(o, FillPrice(Book[o], p))
<1>1. /\ Book[o] \in OrderSpec
      /\ p \in Nat /\ p > 0
  BY BookAssumption, QuotesAssumption DEF ShouldFill
<1>2. CASE FillPrice(Book[o], p) = p
  <2>1. Book[o].type = "STOP_LOSS_LIMIT" /\ Book[o].price # NoPrice
          => AtOrBetter(Book[o].side, p, Book[o].price)
    BY <1>1, <1>2 DEF FillPrice, AtOrBetter, OrderSpec, Sides, NoPrice
  <2> QED
    BY <1>1, <1>2, <2>1 DEF GoodFill, ShouldFill, RespectsLimit, NoPrice
<1>3. CASE FillPrice(Book[o], p) = Book[o].price /\ Book[o].price # NoPrice
  BY <1>1, <1>3 DEF GoodFill, RespectsLimit, AtOrBetter, OrderSpec, Sides
<1> QED
  BY <1>2, <1>3 DEF FillPrice

LEMMA FillsGoodNext == TypeOK /\ FillsGood /\ [Next]_vars => FillsGood'
<1> SUFFICES ASSUME TypeOK, FillsGood, [Next]_vars PROVE FillsGood'
  OBVIOUS
<1>1. ASSUME UNCHANGED <<tableVars, draft, found, foundAt>> PROVE FillsGood'
  BY <1>1 DEF FillsGood
<1>2. ASSUME NEW o \in Orders, Place(o) PROVE FillsGood'
  <2>1. ASSUME NEW p \in Prices, PlaceFlush(o, p) PROVE FillsGood'
    <3>1. FillsOnArrival(Book[o], p) => GoodFill(o, p)
      BY ArrivalGood
    <3>2. \/ FillsOnArrival(Book[o], p) /\ draft' = [draft EXCEPT ![o] = [status |-> "FILLED", at |-> p]]
          \/ draft' = [draft EXCEPT ![o] = [status |-> "OPEN", at |-> NoPrice]]
      BY <2>1 DEF PlaceFlush
    <3>3. draft'[o].status = "FILLED" => GoodFill(o, draft'[o].at)
      BY <3>1, <3>2 DEF TypeOK
    <3>4. \A x \in Orders : x # o => draft'[x] = draft[x]
      BY <3>2 DEF TypeOK
    <3>5. \A x \in Orders : draft'[x].status = "FILLED" => GoodFill(x, draft'[x].at)
      BY <3>3, <3>4 DEF FillsGood
    <3> QED
      BY <2>1, <3>5 DEF FillsGood, PlaceFlush
  <2>2. CASE PlaceCommit(o)
    <3>1. draft[o].status = "FILLED" => GoodFill(o, draft[o].at)
      BY DEF FillsGood
    <3>2. \A x \in Orders : draft'[x] = IF x = o THEN NoDraft ELSE draft[x]
      BY <2>2 DEF TypeOK, PlaceCommit
    <3>3. \A x \in Orders : draft'[x].status = "FILLED" => GoodFill(x, draft'[x].at)
      BY <3>2 DEF FillsGood, NoDraft
    <3>4. \A x \in Orders : status'[x] = "FILLED" => GoodFill(x, filledAt'[x])
      BY <2>2, <3>1 DEF TypeOK, FillsGood, PlaceCommit
    <3> HIDE DEF GoodFill
    <3> QED
      BY <2>2, <3>3, <3>4 DEF FillsGood, PlaceCommit
  <2>3. CASE PlaceAbort(o)
    BY <2>3 DEF TypeOK, FillsGood, PlaceAbort, NoDraft
  <2> QED
    BY <1>2, <2>1, <2>2, <2>3 DEF Place
<1>3. ASSUME NEW o \in Orders, Cancel(o) PROVE FillsGood'
  <2>1. CASE CancelCommit(o)
    BY <2>1 DEF TypeOK, FillsGood, CancelCommit
  <2> QED
    BY <1>1, <1>3, <2>1 DEF Cancel, CancelRead, CancelEmit
<1>4. CASE Sweep
  <2>1. ASSUME NEW o \in Orders, SweepEvaluate(o) PROVE FillsGood'
    <3>1. CASE SweepFill(o)
      <4>1. GoodFill(o, FillPrice(Book[o], price))
        BY <3>1, RestingGood DEF TypeOK, SweepFill
      <4> QED
        BY <2>1, <3>1, <4>1 DEF TypeOK, FillsGood, SweepEvaluate, SweepFill
    <3>2. CASE SweepExpire(o) \/ SweepRefuse(o)
      BY <2>1, <3>2 DEF TypeOK, FillsGood, SweepEvaluate, SweepExpire, SweepRefuse
    <3> QED
      BY <1>1, <2>1, <3>1, <3>2 DEF SweepEvaluate, SweepLeave
  <2>2. CASE SweepCommit
    BY <2>2 DEF TypeOK, FillsGood, SweepCommit
  <2>3. CASE SweepFail
    BY <2>3 DEF TypeOK, FillsGood, SweepFail, SweepForget
  <2> QED
    BY <1>1, <1>4, <2>1, <2>2, <2>3 DEF Sweep, SweepStart, SweepEmit
<1>5. CASE Crash
  BY <1>5 DEF TypeOK, FillsGood, Crash, SweepForget, NoDraft
<1>6. CASE World \/ Bus \/ UNCHANGED vars
  BY <1>1, <1>6 DEF World, MarketTick, Quote, Age, Bus, Dispatch, SettleFill,
       SettleFail, SettleSkip, PortfolioTurn, Notify, vars
<1> QED
  BY <1>2, <1>3, <1>4, <1>5, <1>6 DEF Next

\* An order that carries a limit is never filled beyond it, whatever the
\* market does between the choice of the price and the commit that writes it.
THEOREM LimitsRespected == Spec => []FilledWithinLimit
<1>1. Init => FillsGood
  BY DEF Init, FillsGood, NoDraft
<1>2. FillsGood => FilledWithinLimit
  BY DEF FillsGood, GoodFill, FilledWithinLimit
<1> QED
  BY <1>1, <1>2, TypeInit, TypeNext, FillsGoodNext, PTL DEF Spec

-----------------------------------------------------------------------------
(***************************************************************************)
(* A client hears of the acceptance first.  Whatever rests, or rested and    *)
(* is on its way to an outcome, has its acceptance told, in hand or in the   *)
(* queue; and the queue holds it before the outcome.  A fill on arrival has  *)
(* the same type of event as one of the sweep, so the proof also keeps that  *)
(* an order filled on arrival never rests.                                   *)
(***************************************************************************)
Accepts(e, o)  == e.type = "ORDER_PLACED" /\ e.order = o
EndsRest(e, o) == /\ e.order = o
                  /\ \/ e.type = "ORDER_EXPIRED"
                     \/ e.type = "ORDER_FILLED" /\ e.source = "order_execution_worker"
FillsAtOnce(e, o) ==
    e.order = o /\ e.type = "ORDER_FILLED" /\ e.source # "order_execution_worker"

PlacedTold(o) == <<o, "ORDER_PLACED">> \in told
HeardBefore(o, j) ==
    \/ PlacedTold(o)
    \/ current # Idle /\ Accepts(current, o)
    \/ \E i \in 1..j-1 : Accepts(queue[i], o)
Announced(o) == HeardBefore(o, Len(queue) + 1)

Rested(o) ==
    \/ request[o] = "flushed" /\ draft[o].status = "OPEN"
    \/ status[o] = "OPEN" \/ o \in todo \/ found[o] # "none" \/ o \in workerFilled
    \/ \E i \in 1..Len(filledEvents) : filledEvents[i] = o
    \/ \E i \in 1..Len(expiredEvents) : expiredEvents[i] = o
NeverRests(o) == request[o] # "none" /\ ~ Rested(o)

RestIsAnnounced == \A o \in Orders : Rested(o) => request[o] # "none" /\ Announced(o)
QueueInOrder ==
    \A j \in 1..Len(queue) : \A o \in Orders :
        /\ EndsRest(queue[j], o) => HeardBefore(o, j)
        /\ FillsAtOnce(queue[j], o) => NeverRests(o)
HandInOrder ==
    current # Idle => \A o \in Orders : /\ EndsRest(current, o) => PlacedTold(o)
                                        /\ FillsAtOnce(current, o) => NeverRests(o)
ToldInOrder ==
    \A o \in Orders : /\ <<o, "ORDER_EXPIRED">> \in told => PlacedTold(o)
                      /\ <<o, "ORDER_FILLED">> \in told => PlacedTold(o) \/ NeverRests(o)

AcceptedFirst == RestIsAnnounced /\ QueueInOrder /\ HandInOrder /\ ToldInOrder

LEMMA AcceptedInit == Init => AcceptedFirst
<1> SUFFICES ASSUME Init PROVE AcceptedFirst
  OBVIOUS
<1>1. Len(<< >>) = 0
  OBVIOUS
<1>2. \A o \in Orders : ~ Rested(o)
  BY <1>1 DEF Init, Rested
<1> QED
  BY <1>1, <1>2 DEF Init, AcceptedFirst, RestIsAnnounced, QueueInOrder, HandInOrder, ToldInOrder

\* The queue keeps what it has and grows at its end, by outcomes of orders that are
\* announced and by fills of orders that never rest.
LEMMA QueueGrows ==
    ASSUME TypeOK, AcceptedFirst, queue' \in Seq(Events), UNCHANGED <<current, told>>,
           Len(queue) <= Len(queue'), \A i \in 1..Len(queue) : queue'[i] = queue[i],
           \A j \in Len(queue)+1..Len(queue') : \A o \in Orders :
               /\ EndsRest(queue'[j], o) => Announced(o)
               /\ FillsAtOnce(queue'[j], o) => NeverRests(o)',
           \A o \in Orders : Rested(o)' => Rested(o) \/ (request'[o] # "none" /\ Announced(o)'),
           \A o \in Orders : request[o] # "none" => request'[o] # "none",
           \A o \in Orders : NeverRests(o) => NeverRests(o)'
    PROVE  AcceptedFirst'
<1>1. Len(queue) \in Nat /\ Len(queue') \in Nat
  BY LenProperties DEF TypeOK
<1>2. \A o \in Orders : \A j \in 1..Len(queue)+1 : HeardBefore(o, j) => HeardBefore(o, j)'
  BY <1>1 DEF HeardBefore, PlacedTold
<1>3. \A o \in Orders : \A j \in Len(queue)+1..Len(queue')+1 : Announced(o) => HeardBefore(o, j)'
  BY <1>1 DEF Announced, HeardBefore, PlacedTold
<1>4. RestIsAnnounced'
  <2> SUFFICES ASSUME NEW o \in Orders, Rested(o)'
               PROVE  request'[o] # "none" /\ Announced(o)'
    BY DEF RestIsAnnounced
  <2>1. Announced(o) => Announced(o)'
    <3>1. Len(queue')+1 \in Len(queue)+1..Len(queue')+1
      BY <1>1
    <3> QED
      BY <1>3, <3>1 DEF Announced
  <2> QED
    BY <2>1 DEF AcceptedFirst, RestIsAnnounced
<1>5. QueueInOrder'
  <2> SUFFICES ASSUME NEW j \in 1..Len(queue'), NEW o \in Orders
               PROVE  /\ EndsRest(queue'[j], o) => HeardBefore(o, j)'
                      /\ FillsAtOnce(queue'[j], o) => NeverRests(o)'
    BY DEF QueueInOrder
  <2>1. CASE j \in 1..Len(queue)
    <3>1. queue'[j] = queue[j] /\ j \in 1..Len(queue)+1
      BY <1>1, <2>1
    <3>2. /\ EndsRest(queue[j], o) => HeardBefore(o, j)
          /\ FillsAtOnce(queue[j], o) => NeverRests(o)
      BY <2>1 DEF AcceptedFirst, QueueInOrder
    <3> QED
      BY <1>2, <3>1, <3>2
  <2>2. CASE j \in Len(queue)+1..Len(queue')
    <3>1. j \in Len(queue)+1..Len(queue')+1
      BY <1>1, <2>2
    <3> QED
      BY <1>3, <2>2, <3>1
  <2> QED
    BY <1>1, <2>1, <2>2
<1>6. HandInOrder' /\ ToldInOrder'
  BY DEF AcceptedFirst, HandInOrder, ToldInOrder, PlacedTold
<1> QED
  BY <1>4, <1>5, <1>6 DEF AcceptedFirst

\* A step that emits nothing, tells nothing, and makes no order rest.
LEMMA NothingEmitted ==
    ASSUME TypeOK, AcceptedFirst, UNCHANGED <<queue, current, told>>,
           \A o \in Orders : Rested(o)' => Rested(o),
           \A o \in Orders : request[o] # "none" => request'[o] # "none"
    PROVE  AcceptedFirst'
<1>1. Len(queue) \in Nat
  BY LenProperties DEF TypeOK
<1>2. queue' \in Seq(Events) /\ Len(queue) <= Len(queue') /\ \A j \in Len(queue)+1..Len(queue') : FALSE
  BY <1>1 DEF TypeOK
<1>3. \A o \in Orders : NeverRests(o) => NeverRests(o)'
  BY DEF NeverRests
<1> QED
  BY <1>2, <1>3, QueueGrows

\* A step that emits one event.
LEMMA OneEmitted ==
    ASSUME TypeOK, AcceptedFirst, NEW e \in Events, queue' = Append(queue, e),
           UNCHANGED <<current, told>>,
           \A o \in Orders : /\ ~ EndsRest(e, o)
                             /\ FillsAtOnce(e, o) => NeverRests(o)',
           \A o \in Orders : Rested(o)' => Rested(o) \/ (request'[o] # "none" /\ Accepts(e, o)),
           \A o \in Orders : request[o] # "none" => request'[o] # "none",
           \A o \in Orders : NeverRests(o) => NeverRests(o)'
    PROVE  AcceptedFirst'
<1>1. /\ queue' \in Seq(Events) /\ Len(queue') = Len(queue) + 1 /\ Len(queue) \in Nat
      /\ \A i \in 1..Len(queue) : queue'[i] = queue[i]
      /\ queue'[Len(queue) + 1] = e
  BY AppendProperties, LenProperties DEF TypeOK
<1>2. \A o \in Orders : Accepts(e, o) => Announced(o)'
  <2>1. Len(queue) + 1 \in 1..Len(queue') + 1 - 1
    BY <1>1
  <2> QED
    BY <1>1, <2>1 DEF Announced, HeardBefore
<1>3. \A j \in Len(queue)+1..Len(queue') : queue'[j] = e
  BY <1>1
<1> QED
  BY <1>1, <1>2, <1>3, QueueGrows

LEMMA AcceptedPlace ==
    ASSUME TypeOK, AcceptedFirst, NEW o \in Orders, Place(o)
    PROVE  AcceptedFirst'
<1>1. ASSUME NEW p \in Prices, PlaceFlush(o, p) PROVE AcceptedFirst'
  <2>0. /\ request[o] = "none" /\ request' = [request EXCEPT ![o] = "flushed"]
        /\ UNCHANGED <<status, todo, found, filledEvents, expiredEvents, workerFilled, current, told>>
    BY <1>1 DEF PlaceFlush
  <2>1. ~ Rested(o)
    BY <2>0 DEF AcceptedFirst, RestIsAnnounced
  <2>2. request'[o] = "flushed" /\ \A x \in Orders \ {o} : request'[x] = request[x]
    BY <2>0 DEF TypeOK
  <2>3. \A x \in Orders : NeverRests(x) => x # o
    BY <2>0 DEF NeverRests
  <2>4. CASE FillsOnArrival(Book[o], p)
    <3> DEFINE e == Event("ORDER_FILLED", o, "trading_engine")
    <3>1. queue' = Append(queue, e) /\ draft' = [draft EXCEPT ![o] = [status |-> "FILLED", at |-> p]]
      BY <1>1, <2>4 DEF PlaceFlush, Emit
    <3>2. e \in Events
      BY EventTyped DEF EventTypes, Sources
    <3>3. draft'[o].status = "FILLED" /\ \A x \in Orders \ {o} : draft'[x] = draft[x]
      BY <3>1 DEF TypeOK
    <3>4. \A x \in Orders : Rested(x)' => Rested(x)
      BY <2>0, <2>2, <3>3 DEF Rested
    <3>5. \A x \in Orders : ~ EndsRest(e, x) /\ (FillsAtOnce(e, x) => x = o)
      BY DEF EndsRest, FillsAtOnce, Event
    <3>6. NeverRests(o)'
      BY <2>1, <2>2, <3>4 DEF NeverRests
    <3>7. \A x \in Orders : NeverRests(x) => NeverRests(x)'
      BY <2>2, <2>3, <3>4 DEF NeverRests
    <3> HIDE DEF e
    <3> QED
      BY <2>0, <2>2, <3>1, <3>2, <3>4, <3>5, <3>6, <3>7, OneEmitted
  <2>5. CASE ~ FillsOnArrival(Book[o], p)
    <3> DEFINE e == Event("ORDER_PLACED", o, "trading_engine")
    <3>1. queue' = Append(queue, e) /\ draft' = [draft EXCEPT ![o] = [status |-> "OPEN", at |-> NoPrice]]
      BY <1>1, <2>5 DEF PlaceFlush, Emit
    <3>2. e \in Events
      BY EventTyped DEF EventTypes, Sources
    <3>3. \A x \in Orders \ {o} : draft'[x] = draft[x]
      BY <3>1 DEF TypeOK
    <3>4. \A x \in Orders \ {o} : Rested(x)' => Rested(x)
      BY <2>0, <2>2, <3>3 DEF Rested
    <3>5. \A x \in Orders : ~ EndsRest(e, x) /\ ~ FillsAtOnce(e, x)
      BY DEF EndsRest, FillsAtOnce, Event
    <3>6. Accepts(e, o)
      BY DEF Accepts, Event
    <3>7. \A x \in Orders : NeverRests(x) => NeverRests(x)'
      BY <2>2, <2>3, <3>4 DEF NeverRests
    <3> HIDE DEF e
    <3> QED
      BY <2>0, <2>2, <3>1, <3>2, <3>4, <3>5, <3>6, <3>7, OneEmitted
  <2> QED
    BY <2>4, <2>5
<1>2. CASE PlaceCommit(o)
  <2>1. /\ request[o] = "flushed" /\ request' = [request EXCEPT ![o] = "done"]
        /\ status' = [status EXCEPT ![o] = draft[o].status]
        /\ UNCHANGED <<todo, found, filledEvents, expiredEvents, workerFilled, queue, current, told>>
        /\ draft' = [draft EXCEPT ![o] = NoDraft]
    BY <1>2 DEF PlaceCommit
  <2>2. \A x \in Orders : request[x] # "none" => request'[x] # "none"
    BY <2>1 DEF TypeOK
  <2>3. /\ request'[o] = "done" /\ \A x \in Orders \ {o} : request'[x] = request[x]
        /\ status'[o] = draft[o].status /\ \A x \in Orders \ {o} : status'[x] = status[x]
        /\ \A x \in Orders \ {o} : draft'[x] = draft[x]
    BY <2>1 DEF TypeOK
  <2>4. \A x \in Orders : Rested(x)' => Rested(x)
    BY <2>1, <2>3 DEF Rested
  <2> QED
    BY <2>1, <2>2, <2>4, NothingEmitted
<1>3. CASE PlaceAbort(o)
  <2>1. /\ request' = [request EXCEPT ![o] = "done"]
        /\ draft' = [draft EXCEPT ![o] = NoDraft]
        /\ UNCHANGED <<status, todo, found, filledEvents, expiredEvents, workerFilled, queue, current, told>>
    BY <1>3 DEF PlaceAbort
  <2>2. /\ request'[o] = "done" /\ \A x \in Orders \ {o} : request'[x] = request[x]
        /\ \A x \in Orders \ {o} : draft'[x] = draft[x]
    BY <2>1 DEF TypeOK
  <2>3. \A x \in Orders : Rested(x)' => Rested(x)
    BY <2>1, <2>2 DEF Rested
  <2> QED
    BY <2>1, <2>2, <2>3, NothingEmitted
<1> QED
  BY <1>1, <1>2, <1>3 DEF Place

LEMMA AcceptedCancel ==
    ASSUME TypeOK, AcceptedFirst, NEW o \in Orders, Cancel(o)
    PROVE  AcceptedFirst'
<1>1. CASE CancelRead(o) \/ CancelCommit(o)
  <2>1. /\ UNCHANGED <<request, draft, todo, found, filledEvents, expiredEvents, workerFilled, queue,
                       current, told>>
        /\ \A x \in Orders : status'[x] = "OPEN" => status[x] = "OPEN"
    BY <1>1 DEF CancelRead, CancelCommit, TypeOK
  <2>2. \A x \in Orders : Rested(x)' => Rested(x)
    BY <2>1 DEF Rested
  <2> QED
    BY <2>1, <2>2, NothingEmitted
<1>2. CASE CancelEmit(o)
  <2> DEFINE e == Event("ORDER_CANCELLED", o, "trading_engine")
  <2>1. /\ queue' = Append(queue, e)
        /\ UNCHANGED <<request, draft, status, todo, found, filledEvents, expiredEvents, workerFilled,
                       current, told>>
    BY <1>2 DEF CancelEmit, Emit
  <2>2. e \in Events
    BY EventTyped DEF EventTypes, Sources
  <2>3. \A x \in Orders : ~ EndsRest(e, x) /\ ~ FillsAtOnce(e, x)
    BY DEF EndsRest, FillsAtOnce, Event
  <2>4. \A x \in Orders : Rested(x)' <=> Rested(x)
    BY <2>1 DEF Rested
  <2>5. \A x \in Orders : NeverRests(x)' <=> NeverRests(x)
    BY <2>1, <2>4 DEF NeverRests
  <2> HIDE DEF e
  <2> QED
    BY <2>1, <2>2, <2>3, <2>4, <2>5, OneEmitted
<1> QED
  BY <1>1, <1>2 DEF Cancel

\* The sweep gives an outcome to what it found resting only, and emits it at the end.
LEMMA AcceptedSweep ==
    ASSUME TypeOK, AcceptedFirst, Sweep
    PROVE  AcceptedFirst'
<1>0. /\ filledEvents \in Seq(Orders) /\ expiredEvents \in Seq(Orders)
      /\ Len(filledEvents) \in Nat /\ Len(expiredEvents) \in Nat
  BY LenProperties DEF TypeOK
<1>1. CASE SweepStart
  <2>1. /\ todo' = {x \in Orders : status[x] = "OPEN"}
        /\ UNCHANGED <<request, draft, status, found, filledEvents, expiredEvents, workerFilled, queue,
                       current, told>>
    BY <1>1 DEF SweepStart
  <2>2. \A x \in Orders : Rested(x)' => Rested(x)
    BY <2>1 DEF Rested
  <2> QED
    BY <2>1, <2>2, NothingEmitted
<1>2. ASSUME NEW o \in Orders, SweepEvaluate(o) PROVE AcceptedFirst'
  <2>1. /\ o \in todo /\ todo' = todo \ {o}
        /\ UNCHANGED <<request, draft, status, workerFilled, queue, current, told>>
    BY <1>2 DEF SweepEvaluate
  <2>2. Rested(o)
    BY <2>1 DEF Rested
  <2>3. \A x \in Orders \ {o} : found'[x] = found[x]
    BY <1>2 DEF SweepEvaluate, SweepExpire, SweepFill, SweepRefuse, SweepLeave, TypeOK
  <2>4. \/ filledEvents' = filledEvents \/ filledEvents' = Append(filledEvents, o)
    BY <1>2 DEF SweepEvaluate, SweepExpire, SweepFill, SweepRefuse, SweepLeave
  <2>5. \/ expiredEvents' = expiredEvents \/ expiredEvents' = Append(expiredEvents, o)
    BY <1>2 DEF SweepEvaluate, SweepExpire, SweepFill, SweepRefuse, SweepLeave
  <2>6. ASSUME NEW s \in Seq(Orders), NEW t, t = s \/ t = Append(s, o)
        PROVE  \A i \in 1..Len(t) : t[i] = o \/ \E j \in 1..Len(s) : s[j] = t[i]
    <3>1. CASE t = Append(s, o)
      <4>1. /\ Len(t) = Len(s) + 1 /\ Len(s) \in Nat
            /\ \A i \in 1..Len(s) : t[i] = s[i]
            /\ t[Len(s) + 1] = o
        BY <3>1, AppendProperties, LenProperties
      <4> QED
        BY <4>1
    <3> QED
      BY <2>6, <3>1
  <2>7. \A x \in Orders : Rested(x)' => Rested(x)
    <3> SUFFICES ASSUME NEW x \in Orders \ {o}, Rested(x)' PROVE Rested(x)
      BY <2>2
    <3>1. (\E i \in 1..Len(filledEvents') : filledEvents'[i] = x)
          => \E i \in 1..Len(filledEvents) : filledEvents[i] = x
      BY <1>0, <2>4, <2>6
    <3>2. (\E i \in 1..Len(expiredEvents') : expiredEvents'[i] = x)
          => \E i \in 1..Len(expiredEvents) : expiredEvents[i] = x
      BY <1>0, <2>5, <2>6
    <3> QED
      BY <2>1, <2>3, <3>1, <3>2 DEF Rested
  <2> QED
    BY <2>1, <2>7, NothingEmitted
<1>3. CASE SweepCommit
  <2>1. /\ status' = [x \in Orders |-> IF found[x] = "none" THEN status[x] ELSE found[x]]
        /\ found' = [x \in Orders |-> "none"]
        /\ workerFilled' = workerFilled \cup {x \in Orders : found[x] = "FILLED"}
        /\ UNCHANGED <<request, draft, todo, filledEvents, expiredEvents, queue, current, told>>
    BY <1>3 DEF SweepCommit
  <2>2. \A x \in Orders : found[x] # "OPEN"
    BY DEF TypeOK
  <2>3. \A x \in Orders : Rested(x)' => Rested(x)
    BY <2>1, <2>2 DEF Rested
  <2> QED
    BY <2>1, <2>3, NothingEmitted
<1>4. CASE SweepFail
  <2>1. /\ todo' = {} /\ found' = [x \in Orders |-> "none"]
        /\ filledEvents' = << >> /\ expiredEvents' = << >>
        /\ UNCHANGED <<request, draft, status, workerFilled, queue, current, told>>
    BY <1>4 DEF SweepFail, SweepForget
  <2>2. Len(<< >>) = 0
    OBVIOUS
  <2>3. \A x \in Orders : Rested(x)' => Rested(x)
    BY <2>1, <2>2 DEF Rested
  <2> QED
    BY <2>1, <2>3, NothingEmitted
<1>5. CASE SweepEmit
  <2> DEFINE fills == [i \in DOMAIN filledEvents |->
                         Event("ORDER_FILLED", filledEvents[i], "order_execution_worker")]
             ends == [i \in DOMAIN expiredEvents |->
                         Event("ORDER_EXPIRED", expiredEvents[i], "order_execution_worker")]
             m == Len(queue)
             n == Len(filledEvents)
             k == Len(expiredEvents)
  <2>1. /\ queue' = (queue \o fills) \o ends
        /\ filledEvents' = << >> /\ expiredEvents' = << >>
        /\ UNCHANGED <<request, draft, status, todo, found, workerFilled, current, told>>
    BY <1>5 DEF SweepEmit
  <2>2. /\ fills \in Seq(Events) /\ Len(fills) = n /\ ends \in Seq(Events) /\ Len(ends) = k
        /\ queue \in Seq(Events)
    BY <1>0, BatchTyped DEF EventTypes, Sources, TypeOK
  <2>3. DOMAIN filledEvents = 1..n /\ DOMAIN expiredEvents = 1..k
    BY <1>0, LenProperties
  <2>4. /\ \A i \in 1..n : fills[i] = Event("ORDER_FILLED", filledEvents[i], "order_execution_worker")
        /\ \A i \in 1..k : ends[i] = Event("ORDER_EXPIRED", expiredEvents[i], "order_execution_worker")
    BY <2>3
  <2>5. m \in Nat /\ n \in Nat /\ k \in Nat
    BY <1>0, LenProperties DEF TypeOK
  <2> HIDE DEF fills, ends
  <2>6. /\ Len(queue') = m + n + k
        /\ \A i \in 1..m : queue'[i] = queue[i]
        /\ \A i \in m+1..m+n : queue'[i] = fills[i - m]
        /\ \A i \in m+n+1..m+n+k : queue'[i] = ends[i - m - n]
    <3>1. m = Len(queue) /\ n = Len(fills) /\ k = Len(ends)
      BY <2>2
    <3>2. queue \in Seq(Events) /\ fills \in Seq(Events) /\ ends \in Seq(Events)
      BY <2>2
    <3> HIDE DEF m, n, k
    <3>3. /\ Len((queue \o fills) \o ends) = m + n + k
          /\ \A i \in 1..m : ((queue \o fills) \o ends)[i] = queue[i]
          /\ \A i \in m+1..m+n : ((queue \o fills) \o ends)[i] = fills[i - m]
          /\ \A i \in m+n+1..m+n+k : ((queue \o fills) \o ends)[i] = ends[i - m - n]
      BY <3>1, <3>2, ConcatThree
    <3> QED
      BY <3>3, <2>1
  <2>7. ASSUME NEW j \in m+1..m+n+k, NEW o \in Orders, queue'[j].order = o
        PROVE  Rested(o) /\ ~ FillsAtOnce(queue'[j], o)
    <3>1. CASE j \in m+1..m+n
      <4>1. j - m \in 1..n
        BY <2>5, <3>1
      <4>2. queue'[j] = Event("ORDER_FILLED", filledEvents[j - m], "order_execution_worker")
        BY <2>4, <2>6, <3>1, <4>1
      <4> QED
        BY <2>7, <4>1, <4>2 DEF Event, Rested, FillsAtOnce
    <3>2. CASE j \in m+n+1..m+n+k
      <4>1. j - m - n \in 1..k
        BY <2>5, <3>2
      <4>2. queue'[j] = Event("ORDER_EXPIRED", expiredEvents[j - m - n], "order_execution_worker")
        BY <2>4, <2>6, <3>2, <4>1
      <4> QED
        BY <2>7, <4>1, <4>2 DEF Event, Rested, FillsAtOnce
    <3> QED
      BY <2>5, <3>1, <3>2
  <2>8. \A j \in m+1..Len(queue') : \A o \in Orders :
           (EndsRest(queue'[j], o) => Announced(o)) /\ ~ FillsAtOnce(queue'[j], o)
    BY <2>6, <2>7 DEF EndsRest, FillsAtOnce, AcceptedFirst, RestIsAnnounced
  <2>9. \A x \in Orders : Rested(x)' => Rested(x)
    <3>1. Len(<< >>) = 0
      OBVIOUS
    <3> QED
      BY <2>1, <3>1 DEF Rested
  <2>10. \A x \in Orders : NeverRests(x) => NeverRests(x)'
    BY <2>1, <2>9 DEF NeverRests
  <2>11. queue' \in Seq(Events) /\ Len(queue) <= Len(queue')
    <3>1. queue \o fills \in Seq(Events)
      BY <2>2, ConcatProperties
    <3>2. queue' \in Seq(Events)
      BY <2>1, <2>2, <3>1, ConcatProperties
    <3> QED
      BY <2>5, <2>6, <3>2
  <2> QED
    BY <2>1, <2>6, <2>8, <2>9, <2>10, <2>11, QueueGrows
<1> QED
  BY <1>1, <1>2, <1>3, <1>4, <1>5 DEF Sweep

LEMMA AcceptedBus ==
    ASSUME TypeOK, AcceptedFirst, Bus
    PROVE  AcceptedFirst'
<1>1. CASE Dispatch
  <2>1. /\ current = Idle /\ queue # << >> /\ current' = Head(queue) /\ queue' = Tail(queue)
        /\ UNCHANGED <<request, draft, status, todo, found, filledEvents, expiredEvents, workerFilled,
                       told>>
    BY <1>1 DEF Dispatch
  <2>2. /\ Len(queue) \in Nat \ {0} /\ current' = queue[1] /\ current' \in Events
        /\ Len(queue') = Len(queue) - 1 /\ \A i \in 1..Len(queue') : queue'[i] = queue[i + 1]
    BY <2>1, HeadTailProperties, LenProperties, EmptySeq DEF TypeOK
  <2>3. current' # Idle
    <3>1. current'.type \in EventTypes /\ Idle.type \notin EventTypes
      BY <2>2 DEF Events, EventTypes, Idle
    <3> QED
      BY <3>1
  <2>4. \A x \in Orders : \A j \in 1..Len(queue) : HeardBefore(x, j + 1) => HeardBefore(x, j)'
    <3> SUFFICES ASSUME NEW x \in Orders, NEW j \in 1..Len(queue), HeardBefore(x, j + 1)
                 PROVE  HeardBefore(x, j)'
      OBVIOUS
    <3>1. PlacedTold(x) \/ \E i \in 1..j : Accepts(queue[i], x)
      BY <2>1, <2>2 DEF HeardBefore
    <3>2. CASE PlacedTold(x)
      BY <2>1, <3>2 DEF HeardBefore, PlacedTold
    <3>3. ASSUME NEW i \in 1..j, Accepts(queue[i], x) PROVE HeardBefore(x, j)'
      <4>1. CASE i = 1
        BY <2>2, <2>3, <3>3, <4>1 DEF HeardBefore
      <4>2. CASE i # 1
        <5>1. i - 1 \in 1..j-1 /\ i - 1 \in 1..Len(queue') /\ (i - 1) + 1 = i
          BY <2>2, <4>2
        <5>2. queue'[i - 1] = queue[i]
          BY <2>2, <5>1
        <5> QED
          BY <3>3, <5>1, <5>2 DEF HeardBefore
      <4> QED
        BY <4>1, <4>2
    <3> QED
      BY <3>1, <3>2, <3>3
  <2>5. \A x \in Orders : (Rested(x)' <=> Rested(x)) /\ (NeverRests(x)' <=> NeverRests(x))
    BY <2>1 DEF Rested, NeverRests
  <2>6. RestIsAnnounced'
    <3>1. Len(queue') + 1 = Len(queue) /\ Len(queue) \in 1..Len(queue)
      BY <2>2
    <3> QED
      BY <2>1, <2>4, <2>5, <3>1 DEF AcceptedFirst, RestIsAnnounced, Announced
  <2>7. QueueInOrder'
    <3> SUFFICES ASSUME NEW j \in 1..Len(queue'), NEW x \in Orders
                 PROVE  /\ EndsRest(queue'[j], x) => HeardBefore(x, j)'
                        /\ FillsAtOnce(queue'[j], x) => NeverRests(x)'
      BY DEF QueueInOrder
    <3>1. queue'[j] = queue[j + 1] /\ j + 1 \in 1..Len(queue) /\ j \in 1..Len(queue)
      BY <2>2
    <3>2. /\ EndsRest(queue[j + 1], x) => HeardBefore(x, j + 1)
          /\ FillsAtOnce(queue[j + 1], x) => NeverRests(x)
      BY <3>1 DEF AcceptedFirst, QueueInOrder
    <3> QED
      BY <2>4, <2>5, <3>1, <3>2
  <2>8. HandInOrder'
    <3> SUFFICES ASSUME NEW x \in Orders
                 PROVE  /\ EndsRest(current', x) => PlacedTold(x)'
                        /\ FillsAtOnce(current', x) => NeverRests(x)'
      BY DEF HandInOrder
    <3>1. 1 \in 1..Len(queue) /\ \A i \in 1..1-1 : FALSE
      BY <2>2
    <3>2. /\ EndsRest(queue[1], x) => HeardBefore(x, 1)
          /\ FillsAtOnce(queue[1], x) => NeverRests(x)
      BY <3>1 DEF AcceptedFirst, QueueInOrder
    <3>3. HeardBefore(x, 1) => PlacedTold(x)
      BY <2>1, <3>1 DEF HeardBefore
    <3> QED
      BY <2>1, <2>2, <2>5, <3>2, <3>3 DEF PlacedTold
  <2>9. ToldInOrder'
    BY <2>1, <2>5 DEF AcceptedFirst, ToldInOrder, PlacedTold
  <2> QED
    BY <2>6, <2>7, <2>8, <2>9 DEF AcceptedFirst
<1>2. CASE SettleFill \/ SettleSkip
  <2>0. current \in Events
    BY <1>2 DEF SettleFill, SettleSkip, PortfolioTurn, TypeOK
  <2> DEFINE e == Event("PORTFOLIO_UPDATED", current.order, "portfolio_worker")
  <2>1. /\ queue' = Append(queue, e)
        /\ UNCHANGED <<request, draft, status, todo, found, filledEvents, expiredEvents, workerFilled,
                       current, told>>
    BY <1>2 DEF SettleFill, SettleSkip, Emit
  <2>2. e \in Events
    <3>1. current.order \in Orders
      BY <2>0 DEF Events
    <3> QED
      BY <3>1, EventTyped DEF EventTypes, Sources
  <2>3. \A x \in Orders : ~ EndsRest(e, x) /\ ~ FillsAtOnce(e, x)
    BY DEF EndsRest, FillsAtOnce, Event
  <2>4. \A x \in Orders : (Rested(x)' <=> Rested(x)) /\ (NeverRests(x)' <=> NeverRests(x))
    BY <2>1 DEF Rested, NeverRests
  <2> HIDE DEF e
  <2> QED
    BY <2>1, <2>2, <2>3, <2>4, OneEmitted
<1>3. CASE SettleFail
  <2>1. UNCHANGED <<request, draft, status, todo, found, filledEvents, expiredEvents, workerFilled,
                    queue, current, told>>
    BY <1>3 DEF SettleFail
  <2>2. \A x \in Orders : Rested(x)' => Rested(x)
    BY <2>1 DEF Rested
  <2> QED
    BY <2>1, <2>2, NothingEmitted
<1>4. CASE Notify
  <2>1. /\ current # Idle /\ told' = told \cup {<<current.order, current.type>>} /\ current' = Idle
        /\ UNCHANGED <<request, draft, status, todo, found, filledEvents, expiredEvents, workerFilled,
                       queue>>
    BY <1>4 DEF Notify
  <2>2. current \in Events
    BY <2>1 DEF TypeOK
  <2>3. \A x \in Orders : (Rested(x)' <=> Rested(x)) /\ (NeverRests(x)' <=> NeverRests(x))
    BY <2>1 DEF Rested, NeverRests
  <2>4. \A x \in Orders : /\ PlacedTold(x) => PlacedTold(x)'
                          /\ Accepts(current, x) => PlacedTold(x)'
    BY <2>1 DEF PlacedTold, Accepts
  <2>5. \A x \in Orders : \A j : HeardBefore(x, j) => HeardBefore(x, j)'
    BY <2>1, <2>4 DEF HeardBefore
  <2>6. RestIsAnnounced'
    BY <2>1, <2>3, <2>5 DEF AcceptedFirst, RestIsAnnounced, Announced
  <2>7. QueueInOrder'
    BY <2>1, <2>3, <2>5 DEF AcceptedFirst, QueueInOrder
  <2>8. ToldInOrder'
    <3> SUFFICES ASSUME NEW x \in Orders
                 PROVE  /\ <<x, "ORDER_EXPIRED">> \in told' => PlacedTold(x)'
                        /\ <<x, "ORDER_FILLED">> \in told' => PlacedTold(x)' \/ NeverRests(x)'
      BY DEF ToldInOrder
    <3>1. /\ <<x, "ORDER_EXPIRED">> \in told => PlacedTold(x)
          /\ <<x, "ORDER_FILLED">> \in told => PlacedTold(x) \/ NeverRests(x)
      BY DEF AcceptedFirst, ToldInOrder
    <3>2. /\ EndsRest(current, x) => PlacedTold(x)
          /\ FillsAtOnce(current, x) => NeverRests(x)
      BY <2>1 DEF AcceptedFirst, HandInOrder
    <3>3. CASE current.order = x /\ current.type \in {"ORDER_EXPIRED", "ORDER_FILLED"}
      <4>1. EndsRest(current, x) \/ FillsAtOnce(current, x)
        BY <3>3 DEF EndsRest, FillsAtOnce
      <4>2. CASE current.type = "ORDER_EXPIRED"
        <5>1. EndsRest(current, x)
          BY <3>3, <4>2 DEF EndsRest
        <5> QED
          BY <2>4, <3>2, <5>1
      <4>3. CASE current.type = "ORDER_FILLED"
        <5>1. <<x, "ORDER_EXPIRED">> \in told' => <<x, "ORDER_EXPIRED">> \in told
          BY <2>1, <4>3
        <5> QED
          BY <2>3, <2>4, <3>1, <3>2, <4>1, <5>1
      <4> QED
        BY <3>3, <4>2, <4>3
    <3>4. CASE ~(current.order = x /\ current.type \in {"ORDER_EXPIRED", "ORDER_FILLED"})
      <4>1. /\ <<x, "ORDER_EXPIRED">> \in told' => <<x, "ORDER_EXPIRED">> \in told
            /\ <<x, "ORDER_FILLED">> \in told' => <<x, "ORDER_FILLED">> \in told
        BY <2>1, <3>4
      <4> QED
        BY <2>3, <2>4, <3>1, <4>1
    <3> QED
      BY <3>3, <3>4
  <2> QED
    BY <2>1, <2>6, <2>7, <2>8 DEF AcceptedFirst, HandInOrder
<1> QED
  BY <1>1, <1>2, <1>3, <1>4 DEF Bus

\* It is a promise of one run of the process: a restart empties the queue.
AcceptedInv == crashes = 0 => AcceptedFirst

LEMMA AcceptedNext == TypeOK /\ AcceptedInv /\ [Next]_vars => AcceptedInv'
<1> SUFFICES ASSUME TypeOK, AcceptedInv, [Next]_vars, crashes' = 0 PROVE AcceptedFirst'
  BY DEF AcceptedInv
<1>1. crashes' = crashes /\ ~ Crash
  <2>1. ~ Crash
    BY DEF Crash, TypeOK
  <2> QED
    BY <2>1 DEF Next, World, MarketTick, Quote, Age, Place, PlaceFlush, PlaceCommit, PlaceAbort,
       Cancel, CancelRead, CancelCommit, CancelEmit, Sweep, SweepStart, SweepEvaluate, SweepCommit,
       SweepFail, SweepEmit, Bus, Dispatch, SettleFill, SettleFail, SettleSkip, Notify, vars
<1>2. AcceptedFirst
  BY <1>1 DEF AcceptedInv
<1>3. CASE World \/ UNCHANGED vars
  <2>1. UNCHANGED <<request, draft, status, todo, found, filledEvents, expiredEvents, workerFilled,
                    queue, current, told>>
    BY <1>3 DEF World, MarketTick, Quote, Age, vars
  <2>2. \A x \in Orders : Rested(x)' => Rested(x)
    BY <2>1 DEF Rested
  <2> QED
    BY <1>2, <2>1, <2>2, NothingEmitted
<1> QED
  BY <1>1, <1>2, <1>3, AcceptedPlace, AcceptedCancel, AcceptedSweep, AcceptedBus DEF Next

\* In one run of the process nobody hears that a resting order was filled or expired
\* before its acceptance: the event is queued before the row is visible to the sweep
\* (trading_engine.py, order_execution_worker.py, event_bus.py).
THEOREM AcceptanceHeardFirst == Spec => []AcceptedBeforeOutcome
<1>1. Init => AcceptedInv
  BY AcceptedInit DEF AcceptedInv
<1>2. AcceptedInv => AcceptedBeforeOutcome
  BY DEF AcceptedInv, AcceptedFirst, ToldInOrder, NeverRests, Rested, PlacedTold, AcceptedBeforeOutcome
<1> QED
  BY <1>1, <1>2, TypeInit, TypeNext, AcceptedNext, PTL DEF Spec
=============================================================================
