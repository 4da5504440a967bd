------------------------------ MODULE OptionsDesk ------------------------------
(***************************************************************************)
(* The options page (pages/OptionsPage.jsx): the chain of an underlying and an   *)
(* expiry, fetched at each choice and every minute, and the form of an order      *)
(* that each chain fills anew.  No fetch is taken back: the answer of a former    *)
(* underlying is stored, and without an expiry asked it also chooses one.        *)
(***************************************************************************)
EXTENDS Integers, SequencesExt

CONSTANTS Underlyings,
          DatesOf,        \* the expiries of each, nearest first
          NoDate, NoUnderlying,
          MaxChains,      \* bound: fetches under way
          MaxTurns,       \* bound: choices of an underlying, an expiry, an option
          MaxLosses       \* bound: fetches that fail

ASSUME OptionsAssumption ==
  Underlyings # {} /\ \A u \in Underlyings : 1 \in DOMAIN DatesOf[u]

VARIABLES underlying, expiry,
          expiryList,     \* the underlying whose expiries are offered
          optionChain,    \* the underlying and expiry whose rows are shown
          chains,         \* fetches under way
          optLoading,
          optForm,        \* the strike's underlying, the type, the side, the type its premium is of
          chainMenu,      \* the menu of a cell: the underlying of its row, and its type
          turns, losses

optionVars == <<underlying, expiry, expiryList, optionChain, chains, optLoading, optForm,
                chainMenu, turns, losses>>

Sides2 == {"CE", "PE"}
NoChain == [of |-> NoUnderlying, expiry |-> NoDate]
NoMenu == [of |-> NoUnderlying, type |-> "row"]
Form(of, type, side) == [strike |-> of, type |-> type, side |-> side, premium |-> type]

\* What the server sends: the nearest expiry, where the one asked for is not listed.
ChainOf(f) ==
  [of |-> f.of,
   expiry |-> IF f.expiry \in ToSet(DatesOf[f.of]) THEN f.expiry ELSE DatesOf[f.of][1]]

Fetching(list, of, date) ==
  Len(list) < MaxChains /\ chains' = Append(list, [of |-> of, expiry |-> date]) /\ optLoading' = TRUE

OptionsInit ==
  /\ underlying = (CHOOSE u \in Underlyings : TRUE) /\ expiry = NoDate
  /\ expiryList = NoUnderlying /\ optionChain = NoChain
  /\ chains = <<[of |-> underlying, expiry |-> NoDate]>> /\ optLoading = TRUE
  /\ optForm = Form(NoUnderlying, "CE", "BUY") /\ chainMenu = NoMenu /\ turns = 0 /\ losses = 0
-----------------------------------------------------------------------------
Turn == turns < MaxTurns /\ turns' = turns + 1

\* The form is filled once more from the rows of before, which then go.
SelectUnderlying ==
  /\ Turn /\ \E u \in Underlyings \ {underlying} : underlying' = u /\ Fetching(chains, u, NoDate)
  /\ expiry' = NoDate /\ expiryList' = NoUnderlying /\ optionChain' = NoChain /\ chainMenu' = NoMenu
  /\ optForm' = IF optionChain = NoChain THEN optForm ELSE Form(optionChain.of, "CE", "BUY")
  /\ UNCHANGED losses

\* A press closes the menu, too.
SelectExpiry ==
  /\ Turn /\ expiryList # NoUnderlying
  /\ \E d \in ToSet(DatesOf[expiryList]) \ {expiry} :
       expiry' = d /\ Fetching(chains, underlying, d)
  /\ chainMenu' = NoMenu /\ UNCHANGED <<underlying, expiryList, optionChain, optForm, losses>>

\* By the interval, and by the button unless it spins.
RefreshChain ==
  /\ Fetching(chains, underlying, expiry)
  /\ UNCHANGED <<underlying, expiry, expiryList, optionChain, optForm, chainMenu, turns, losses>>

\* A press on a price takes its row and premium into the form.
HandleSelectOption ==
  /\ Turn /\ optionChain # NoChain
  /\ \E type \in Sides2 : optForm' = Form(optionChain.of, type, "BUY")
  /\ chainMenu' = NoMenu
  /\ UNCHANGED <<underlying, expiry, expiryList, optionChain, chains, optLoading, losses>>

\* By a long press on a price; a right-click there is taken over by its row.
OpenContextMenu ==
  /\ Turn /\ optionChain # NoChain
  /\ \E type \in Sides2 \cup {"row"} : chainMenu' = [of |-> optionChain.of, type |-> type]
  /\ UNCHANGED <<underlying, expiry, expiryList, optionChain, chains, optLoading, optForm, losses>>

\* What the menu was opened on, whatever rows have come since; that of a row only closes.
RunContextAction ==
  /\ chainMenu # NoMenu /\ chainMenu' = NoMenu
  /\ IF chainMenu.type = "row" THEN UNCHANGED optForm
     ELSE \/ \E side \in {"BUY", "SELL"} : optForm' = Form(chainMenu.of, chainMenu.type, side)
          \/ UNCHANGED optForm
  /\ UNCHANGED <<underlying, expiry, expiryList, optionChain, chains, optLoading, turns, losses>>

\* The buttons of the type leave the premium as it is.
SetOptionType ==
  /\ Turn /\ \E type \in Sides2 \ {optForm.type} : optForm' = [optForm EXCEPT !.type = type]
  /\ chainMenu' = NoMenu
  /\ UNCHANGED <<underlying, expiry, expiryList, optionChain, chains, optLoading, losses>>
-----------------------------------------------------------------------------
\* The rows, the expiries and the form become those of the answer.  A fetch that
\* asked for no expiry chooses the nearest, and a choice is fetched in its turn.
ChainLands(i) ==
  LET f == chains[i]
  IN /\ optionChain' = ChainOf(f) /\ expiryList' = f.of /\ optForm' = Form(f.of, "CE", "BUY")
     /\ expiry' = IF f.expiry = NoDate THEN DatesOf[f.of][1] ELSE expiry
     /\ IF expiry' # expiry THEN Fetching(RemoveAt(chains, i), underlying, expiry')
        ELSE chains' = RemoveAt(chains, i) /\ optLoading' = FALSE
     /\ UNCHANGED losses

ChainFails(i) ==
  /\ losses < MaxLosses /\ losses' = losses + 1 /\ chains' = RemoveAt(chains, i) /\ optLoading' = FALSE
  /\ UNCHANGED <<optionChain, expiryList, optForm, expiry>>

ChainAnswered ==
  /\ \E i \in DOMAIN chains : ChainLands(i) \/ ChainFails(i)
  /\ UNCHANGED <<underlying, chainMenu, turns>>

OptionsNext ==
  \/ SelectUnderlying \/ SelectExpiry \/ RefreshChain \/ HandleSelectOption \/ OpenContextMenu
  \/ RunContextAction \/ SetOptionType \/ ChainAnswered

OptionsSpec ==
  OptionsInit /\ [][OptionsNext]_optionVars /\ WF_optionVars(RefreshChain) /\ WF_optionVars(ChainAnswered)
-----------------------------------------------------------------------------
Dates == UNION {ToSet(DatesOf[u]) : u \in Underlyings}

OptionsTypeOK ==
  /\ underlying \in Underlyings /\ expiry \in Dates \cup {NoDate}
  /\ {expiryList, optForm.strike, optionChain.of, chainMenu.of} \subseteq Underlyings \cup {NoUnderlying}
  /\ optForm.type \in Sides2 /\ optForm.premium \in Sides2 /\ optLoading \in BOOLEAN
  /\ \A i \in DOMAIN chains : chains[i].of \in Underlyings /\ chains[i].expiry \in Dates \cup {NoDate}

\* Whatever answers of former choices land, the rows, the expiries offered and the
\* strike of the form become for good those of the chosen underlying, and of the chosen
\* expiry unless an answer of another underlying has chosen one that this one has not
\* (OptionsPage.jsx:94-167).
ChainShown ==
  /\ optionChain.of = underlying /\ expiryList = underlying /\ optForm.strike = underlying
  /\ expiry # NoDate
  /\ expiry \in ToSet(DatesOf[underlying]) => optionChain.expiry = expiry
ChainCatchesUp == <>[]ChainShown
=============================================================================
