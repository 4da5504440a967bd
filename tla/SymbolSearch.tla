------------------------------ MODULE SymbolSearch ------------------------------
(***************************************************************************)
(* The two boxes in which a stock is looked for: that of the bar               *)
(* (components/layout/Navbar.jsx) and the dialog of the watchlists            *)
(* (components/trading/AddSymbolModal.jsx).  A key starts a timer that the next *)
(* one replaces; a request that has gone out is never taken back, and answers   *)
(* land in the order they come.                                              *)
(***************************************************************************)
EXTENDS Integers, SequencesExt

CONSTANTS Words,          \* what may be typed
          NoWord,         \* an empty box; no results
          MaxKeys         \* bound: keys typed

VARIABLES box,            \* "navbar" or "dialog": they differ in what surrounds the results
          query, results, \* the text, and the text whose results are shown
          timer,          \* the text the running timer will send
          searches,       \* requests under way, in the order sent, and whether a later one was answered
          isSearching,    \* the dialog's spinner
          isOpen,         \* the dialog is open; the field of the bar has the focus
          showResults,    \* the bar's list shows
          popular,        \* the stocks suggested: "none", "asked" or "come"
          overtaken,      \* the results shown came after those of a later request
          keys

searchVars == <<box, query, results, timer, searches, isSearching, isOpen, showResults, popular,
                overtaken, keys>>

SearchInit ==
  /\ box \in {"navbar", "dialog"} /\ query = NoWord /\ results = NoWord /\ timer = NoWord
  /\ searches = <<>> /\ isSearching = FALSE /\ isOpen = FALSE /\ showResults = FALSE
  /\ popular = (IF box = "navbar" THEN "asked" ELSE "none")
  /\ overtaken = FALSE /\ keys = 0

\* What follows a change of the text (of the focus, too, in the bar): the former
\* timer is dropped; an empty text clears the results, another starts a timer.
Searched(word, focused, suggested) ==
  /\ query' = word /\ timer' = word
  /\ isSearching' = (isSearching \/ (box = "dialog" /\ word # NoWord))
  /\ IF word = NoWord
     THEN /\ results' = NoWord /\ overtaken' = FALSE
          /\ showResults' = (box = "navbar" /\ focused /\ suggested = "come")
     ELSE UNCHANGED <<results, overtaken, showResults>>
-----------------------------------------------------------------------------
\* A key, the cross of the dialog, or another page, which empties the bar.
TypeQuery ==
  /\ isOpen /\ keys < MaxKeys /\ keys' = keys + 1
  /\ \E word \in (Words \cup {NoWord}) \ {query} : Searched(word, isOpen, popular)
  /\ UNCHANGED <<box, searches, isOpen, popular>>

\* The field of the bar gets the focus: its list shows if there is anything in it,
\* and the text is sought again.
FocusSearch ==
  /\ box = "navbar" /\ ~isOpen /\ isOpen' = TRUE /\ timer' = query
  /\ showResults' = (results # NoWord \/ popular = "come")
  /\ UNCHANGED <<box, query, results, searches, isSearching, popular, overtaken, keys>>

OpenDialog ==
  /\ box = "dialog" /\ ~isOpen /\ isOpen' = TRUE /\ Searched(NoWord, TRUE, popular)
  /\ UNCHANGED <<box, searches, popular, keys>>

\* Escape, a click elsewhere or a suggested stock empties the bar.  The
\* dialog keeps its text, and what it waits for, until it opens again.
CloseSearch ==
  /\ isOpen /\ isOpen' = FALSE
  /\ IF box = "navbar" THEN Searched(NoWord, FALSE, popular)
     ELSE UNCHANGED <<query, results, timer, isSearching, overtaken, showResults>>
  /\ UNCHANGED <<box, searches, popular, keys>>

\* A stock of the results is chosen: the bar closes, the dialog goes on, empty.
SelectResult ==
  /\ isOpen /\ query # NoWord /\ results # NoWord /\ (box = "navbar" => showResults)
  /\ (box = "dialog" => ~isSearching)
  /\ isOpen' = (box = "dialog") /\ Searched(NoWord, FALSE, popular)
  /\ UNCHANGED <<box, searches, popular, keys>>

TimerEnds ==
  /\ timer # NoWord /\ timer' = NoWord
  /\ searches' = Append(searches, [of |-> timer, late |-> FALSE])
  /\ UNCHANGED <<box, query, results, isSearching, isOpen, showResults, popular, overtaken,
                 keys>>

\* Stored whatever the text is by then.  A failure is an empty result.
SearchAnswered ==
  \E i \in DOMAIN searches, found \in BOOLEAN :
    /\ searches' = RemoveAt([j \in DOMAIN searches |->
                               [searches[j] EXCEPT !.late = @ \/ j < i]], i)
    /\ results' = IF found THEN searches[i].of ELSE NoWord
    /\ isSearching' = FALSE /\ showResults' = (box = "navbar") /\ overtaken' = searches[i].late
    /\ UNCHANGED <<box, query, timer, isOpen, popular, keys>>

\* The suggestions come, or never: the text of the bar is then sought again.
PopularAnswered ==
  /\ popular = "asked" /\ popular' \in {"come", "none"}
  /\ IF popular' = "come" THEN Searched(query, isOpen, "come")
     ELSE UNCHANGED <<query, results, timer, isSearching, overtaken, showResults>>
  /\ UNCHANGED <<box, searches, isOpen, keys>>

SearchMoves == TimerEnds \/ SearchAnswered

SearchNext ==
  \/ TypeQuery \/ FocusSearch \/ OpenDialog \/ CloseSearch \/ SelectResult \/ PopularAnswered
  \/ SearchMoves

SearchSpec == SearchInit /\ [][SearchNext]_searchVars /\ WF_searchVars(SearchMoves)
-----------------------------------------------------------------------------
SearchTypeOK ==
  /\ box \in {"navbar", "dialog"} /\ {query, results, timer} \subseteq Words \cup {NoWord}
  /\ {isSearching, isOpen, showResults, overtaken} \subseteq BOOLEAN
  /\ \A i \in DOMAIN searches : searches[i] \in [of : Words, late : BOOLEAN]
  /\ popular \in {"none", "asked", "come"}

\* Nothing is under way: the results are those of the text, or none, unless an
\* earlier request was answered after it; and the dialog does not spin over a text
\* (AddSymbolModal.jsx:39-60, Navbar.jsx:273-291).
SearchIsOfQuery ==
  timer = NoWord /\ searches = <<>> /\ query # NoWord =>
    /\ overtaken \/ results \in {query, NoWord}
    /\ ~isSearching
=============================================================================
