----------------------------- MODULE WatchlistPrices -----------------------------
(***************************************************************************)
(* The prices of the active watchlist (fetchPrices of useWatchlistStore.js): one *)
(* fetch at a time asks for the list of the moment it began, in a batch, then   *)
(* the batch of what is missing, then quote by quote.                         *)
(***************************************************************************)
EXTENDS Integers, FiniteSets

CONSTANTS Tabs,       \* the watchlists
          Quoted      \* the companies on them

VARIABLES viewed,     \* the active list
          contents,   \* what is on each list
          batch,      \* inflightFetchPricesPromise: what it asks for and still lacks
          priced,     \* the companies with a price in the store
          backoff     \* isRateLimited()

priceVars == <<viewed, contents, batch, priced, backoff>>

LastStage == 3   \* the batch, the batch of what is missing, the quotes one by one
NoBatch == [want |-> {}, lacks |-> {}, stage |-> 0]

PricesInit ==
  /\ viewed \in Tabs /\ contents \in [Tabs -> SUBSET Quoted]
  /\ batch = NoBatch /\ priced = {} /\ backoff = FALSE
-----------------------------------------------------------------------------
\* A fetch that is under way serves the new caller too; none starts while the
\* requests are paused or for an empty list.
FetchPrices(tab) ==
  batch' = IF batch # NoBatch \/ backoff \/ contents'[tab] = {} THEN batch
           ELSE [want |-> contents'[tab], lacks |-> contents'[tab], stage |-> 1]

SetTab ==
  /\ viewed' \in Tabs \ {viewed}
  /\ UNCHANGED <<contents, priced, backoff>> /\ FetchPrices(viewed')

\* A change of the items fetches; so does the clock, every 15 seconds.
AddStock ==
  /\ \E s \in Quoted \ contents[viewed] :
       contents' = [contents EXCEPT ![viewed] = @ \cup {s}]
  /\ UNCHANGED <<viewed, priced, backoff>> /\ FetchPrices(viewed)

DropStock ==
  /\ \E s \in contents[viewed] : contents' = [contents EXCEPT ![viewed] = @ \ {s}]
  /\ UNCHANGED <<viewed, priced, backoff>> /\ FetchPrices(viewed)

PollPrices ==
  /\ batch = NoBatch /\ ~backoff /\ contents[viewed] # {}
  /\ UNCHANGED <<viewed, contents, priced, backoff>> /\ FetchPrices(viewed)

\* What a stage leaves without a quote of its own name.
Lacking == SUBSET batch.lacks

\* What came is merged at the end, over the prices of before.
Merge(lacks) == batch' = NoBatch /\ priced' = priced \cup (batch.want \ lacks)

StageStuck ==
  /\ batch # NoBatch
  /\ \E lacks \in Lacking :
       /\ backoff' \in {backoff, TRUE}
       /\ IF backoff' THEN UNCHANGED <<batch, priced>>
          ELSE IF lacks = {} \/ batch.stage = LastStage THEN Merge(lacks)
          ELSE batch' = [batch EXCEPT !.lacks = lacks, !.stage = @ + 1] /\ UNCHANGED priced
  /\ UNCHANGED <<viewed, contents>>
\* A stage asks for what is lacking; a pause of the requests ends the fetch.
StageAnswered ==
  /\ batch # NoBatch
  /\ \E lacks \in Lacking :
       /\ backoff' \in {backoff, TRUE}
       /\ IF lacks = {} \/ backoff' \/ batch.stage = LastStage THEN Merge(lacks)
          ELSE /\ batch' = [batch EXCEPT !.lacks = lacks, !.stage = @ + 1]
               /\ UNCHANGED priced
  /\ UNCHANGED <<viewed, contents>>

\* updatePrices: a tick of any company.
TickPrices ==
  /\ \E s \in Quoted : priced' = priced \cup {s}
  /\ UNCHANGED <<viewed, contents, batch, backoff>>

BackoffEnds ==
  /\ backoff /\ backoff' = FALSE /\ UNCHANGED <<viewed, contents, batch, priced>>

PricesNext == \/ SetTab \/ AddStock \/ DropStock \/ PollPrices
              \/ StageAnswered \/ TickPrices \/ BackoffEnds

PricesSpec ==
  /\ PricesInit /\ [][PricesNext]_priceVars
  /\ WF_priceVars(PollPrices) /\ WF_priceVars(StageAnswered) /\ WF_priceVars(BackoffEnds)
-----------------------------------------------------------------------------
PricesTypeOK ==
  /\ viewed \in Tabs /\ contents \in [Tabs -> SUBSET Quoted]
  /\ batch \in [want : SUBSET Quoted, lacks : SUBSET Quoted, stage : 0 .. LastStage]
  /\ priced \subseteq Quoted /\ backoff \in BOOLEAN

\* The prices of every company of the active list are asked for, also when the
\* fetch of another list was under way or the requests paused
\* (useWatchlistStore.js:494-675, TradingWorkspace.jsx:158-163).
ListGetsPriced ==
  \A s \in Quoted : []<>(s \in contents[viewed] => s \in batch.want)
=============================================================================
