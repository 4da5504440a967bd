----------------------------- MODULE FuturesContracts -----------------------------
(***************************************************************************)
(* The contracts of the futures page (pages/FuturesPage.jsx): those of a symbol *)
(* with their quotes and the spot price, fetched at each choice and every 30 s.  *)
(* No fetch is taken back: its answer is stored whatever is chosen by then.     *)
(***************************************************************************)
EXTENDS Integers, SequencesExt

CONSTANTS Futures,        \* the symbols that may be chosen
          Unlisted,       \* those without contracts
          NoFuture,
          MaxChoices,     \* bound: choices of a symbol
          MaxFetches,     \* bound: fetches under way
          MaxSlips        \* bound: fetches that fail

ASSUME ContractsAssumption == Futures # {} /\ Unlisted \subseteq Futures

VARIABLES futSymbol,
          contracts, contractQuotes, spot,   \* the symbol whose contracts, quotes, spot are shown
          futLoading, fetches, choices, slips

contractVars == <<futSymbol, contracts, contractQuotes, spot, futLoading, fetches, choices, slips>>

FetchContracts(symbol) ==
  /\ Len(fetches) < MaxFetches
  /\ fetches' = Append(fetches, [of |-> symbol, stage |-> "list"]) /\ futLoading' = TRUE

ContractsInit ==
  /\ futSymbol = (CHOOSE s \in Futures : TRUE) /\ contracts = NoFuture /\ contractQuotes = NoFuture
  /\ spot = NoFuture /\ futLoading = TRUE /\ fetches = <<[of |-> futSymbol, stage |-> "list"]>>
  /\ choices = 0 /\ slips = 0

\* What is shown is of no symbol until the first answer.
SetSymbol ==
  /\ choices < MaxChoices /\ choices' = choices + 1
  /\ \E s \in Futures \ {futSymbol} : futSymbol' = s /\ FetchContracts(s)
  /\ contracts' = NoFuture /\ contractQuotes' = NoFuture /\ spot' = NoFuture /\ UNCHANGED slips

RefetchFirst ==
  /\ FetchContracts(CHOOSE s \in Futures : TRUE)
  /\ UNCHANGED <<futSymbol, contracts, contractQuotes, spot, choices, slips>>

\* By the interval, whatever is under way; the button waits for the spinner.
Refetch == FetchContracts(futSymbol) /\ UNCHANGED <<futSymbol, contracts, contractQuotes, spot, choices, slips>>

\* The contracts come with the spot; where there are any their quotes are asked, else the
\* fetch ends and the quotes stay what they were.
ListLands(i) ==
  /\ fetches[i].stage = "list" /\ contracts' = fetches[i].of /\ spot' = fetches[i].of
  /\ \/ /\ fetches[i].of \notin Unlisted
        /\ fetches' = [fetches EXCEPT ![i].stage = "quotes"] /\ UNCHANGED futLoading
     \/ /\ fetches[i].of \in Unlisted
        /\ fetches' = RemoveAt(fetches, i) /\ futLoading' = FALSE
  /\ UNCHANGED <<contractQuotes, slips>>

\* The quotes that failed are none: those of before are gone, too.
QuotesLand(i) ==
  /\ fetches[i].stage = "quotes"
  /\ \/ contractQuotes' = fetches[i].of /\ UNCHANGED slips
     \/ slips < MaxSlips /\ slips' = slips + 1 /\ contractQuotes' = NoFuture
  /\ fetches' = RemoveAt(fetches, i) /\ futLoading' = FALSE /\ UNCHANGED <<contracts, spot>>

\* Without the list or the spot, what is shown stays.
FetchFails(i) ==
  /\ fetches[i].stage = "list" /\ slips < MaxSlips /\ slips' = slips + 1
  /\ fetches' = RemoveAt(fetches, i) /\ futLoading' = FALSE
  /\ UNCHANGED <<contracts, contractQuotes, spot>>

FetchLands ==
  /\ \E i \in DOMAIN fetches : ListLands(i) \/ QuotesLand(i) \/ FetchFails(i)
  /\ UNCHANGED <<futSymbol, choices>>

ContractsNext == SetSymbol \/ Refetch \/ FetchLands
ContractsSpec ==
  ContractsInit /\ [][ContractsNext]_contractVars /\ WF_contractVars(Refetch) /\ WF_contractVars(FetchLands)
-----------------------------------------------------------------------------
ContractsTypeOK ==
  /\ {contracts, contractQuotes, spot} \subseteq Futures \cup {NoFuture} /\ futSymbol \in Futures
  /\ futLoading \in BOOLEAN
  /\ \A i \in DOMAIN fetches : fetches[i] \in [of : Futures, stage : {"list", "quotes"}]

\* The contracts and spot of the chosen symbol come to be shown for good, and the quotes of
\* its contracts, whatever answers of a former one still land (FuturesPage.jsx:207-266).
ContractsShown ==
  /\ contracts = futSymbol /\ spot = futSymbol
  /\ futSymbol \in Unlisted \/ contractQuotes = futSymbol
ContractsCatchUp == <>[]ContractsShown
=============================================================================
