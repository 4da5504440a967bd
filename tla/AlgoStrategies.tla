----------------------------- MODULE AlgoStrategies -----------------------------
(***************************************************************************)
(* The page of the user's strategies (pages/AlgoTradingPage.jsx): cards of    *)
(* the strategies that the server runs, a form that creates one, a dialog that *)
(* edits one and the log of one.  Every change is asked of the server, and     *)
(* followed by a load of all cards.                                         *)
(***************************************************************************)
EXTENDS Integers, FiniteSets

CONSTANTS Bots,           \* the strategies
          NoBot,
          MaxCommands,    \* bound: requests of the user
          MaxFailures     \* bound: requests that fail
ASSUME AlgoAssumption == Bots # {} /\ MaxCommands \in Nat

VARIABLES cards,          \* what the page shows: the strategies, whether each runs, its settings
          bots,           \* the same in the database
          cardsLoading,
          creating,       \* the form: whether it shows, the type chosen and that of its parameters
          editStrategy,   \* the dialog: its strategy, and the request for which it says that it saves
          selectedBot, logsOf,
          asked,          \* requests under way
          stale,          \* the last load brought what was no longer so, or an answer was lost
          outrun,         \* the logs shown came after those of a later choice, or not at all
          commands, failures

algoVars == <<cards, bots, cardsLoading, creating, editStrategy, selectedBot, logsOf, asked,
              stale, outrun, commands, failures>>

Types == {"SMA_CROSSOVER", "RSI"}
BotForms == {[open |-> o, type |-> t, params |-> t] : o \in BOOLEAN, t \in Types}
Cards == UNION {[S -> [active : BOOLEAN, edited : BOOLEAN]] : S \in SUBSET Bots}
NoCards == [b \in {} |-> [active |-> FALSE, edited |-> FALSE]]
FirstForm == [open |-> FALSE, type |-> "SMA_CROSSOVER", params |-> "SMA_CROSSOVER"]
NoEdit == [of |-> NoBot, saving |-> 0]
Kinds2 == {"load", "create", "toggle", "delete", "update", "logs"}

\* A request: of whom, what the load was served, and its number.
Ask2(kind, of) == [kind |-> kind, of |-> of, state |-> "sent", served |-> NoCards, n |-> commands]

AlgoInit ==
  /\ cards = NoCards /\ bots = [b \in {CHOOSE x \in Bots : TRUE} |-> [active |-> FALSE, edited |-> FALSE]]
  /\ cardsLoading = TRUE /\ creating = FirstForm /\ editStrategy = NoEdit
  /\ selectedBot = NoBot /\ logsOf = NoBot /\ commands = 0
  /\ asked = {Ask2("load", NoBot)} /\ stale = FALSE /\ outrun = FALSE /\ failures = 0

Command(kind, of) ==
  /\ commands < MaxCommands /\ commands' = commands + 1
  /\ asked' = asked \cup {[Ask2(kind, of) EXCEPT !.n = commands + 1]}
-----------------------------------------------------------------------------
(* The page *)

\* The parameters become the defaults of the type.
HandleTypeChange(type) == creating' = [open |-> TRUE, type |-> type, params |-> type]

ToggleForm ==
  /\ ~cardsLoading
  /\ creating' = [creating EXCEPT !.open = ~@]
  /\ UNCHANGED <<cards, bots, cardsLoading, editStrategy, selectedBot, logsOf, asked, stale,
                 outrun, commands, failures>>

\* The select of the form; the templates of an empty page open the form as well.
ChooseType ==
  /\ ~cardsLoading /\ (creating.open \/ cards = NoCards)
  /\ \E type \in Types : HandleTypeChange(type)
  /\ UNCHANGED <<cards, bots, cardsLoading, editStrategy, selectedBot, logsOf, asked, stale,
                 outrun, commands, failures>>

\* The button stays free: a second press creates a second strategy.
HandleCreate ==
  /\ ~cardsLoading /\ creating.open /\ Command("create", NoBot)
  /\ UNCHANGED <<cards, bots, cardsLoading, creating, editStrategy, selectedBot, logsOf, stale,
                 outrun, failures>>

HandleToggle ==
  /\ ~cardsLoading /\ \E b \in DOMAIN cards : Command("toggle", b)
  /\ UNCHANGED <<cards, bots, cardsLoading, creating, editStrategy, selectedBot, logsOf, stale,
                 outrun, failures>>

HandleDelete ==
  /\ ~cardsLoading /\ \E b \in DOMAIN cards : ~cards[b].active /\ Command("delete", b)
  /\ UNCHANGED <<cards, bots, cardsLoading, creating, editStrategy, selectedBot, logsOf, stale,
                 outrun, failures>>

OpenEdit ==
  /\ ~cardsLoading /\ editStrategy = NoEdit
  /\ \E b \in DOMAIN cards : editStrategy' = [of |-> b, saving |-> 0]
  /\ UNCHANGED <<cards, bots, cardsLoading, creating, selectedBot, logsOf, asked, stale, outrun,
                 commands, failures>>

\* It closes while it saves, too.
CloseEdit ==
  /\ editStrategy # NoEdit /\ editStrategy' = NoEdit
  /\ UNCHANGED <<cards, bots, cardsLoading, creating, selectedBot, logsOf, asked, stale, outrun,
                 commands, failures>>

SubmitEdit ==
  /\ editStrategy # NoEdit /\ editStrategy.saving = 0 /\ Command("update", editStrategy.of)
  /\ editStrategy' = [editStrategy EXCEPT !.saving = commands']
  /\ UNCHANGED <<cards, bots, cardsLoading, creating, selectedBot, logsOf, stale, outrun, failures>>

\* The lines of the former choice stay until the answer.
LoadLogs ==
  /\ ~cardsLoading
  /\ \E b \in DOMAIN cards : selectedBot' = b /\ Command("logs", b)
  /\ UNCHANGED <<cards, bots, cardsLoading, creating, editStrategy, logsOf, stale, outrun, failures>>

CloseLogs ==
  /\ selectedBot # NoBot /\ selectedBot' = NoBot /\ logsOf' = NoBot
  /\ UNCHANGED <<cards, bots, cardsLoading, creating, editStrategy, asked, stale, outrun,
                 commands, failures>>
-----------------------------------------------------------------------------
(* The server: it deletes no strategy that runs. *)

Serve(r, done) == asked' = (asked \ {r}) \cup {[r EXCEPT !.state = IF done THEN "done" ELSE "refused"]}

Served(r) ==
  /\ r.state = "sent"
  /\ \/ /\ r.kind = "load" /\ UNCHANGED bots
        /\ asked' = (asked \ {r}) \cup {[r EXCEPT !.state = "done", !.served = bots]}
     \/ r.kind = "logs" /\ UNCHANGED bots /\ Serve(r, TRUE)
     \/ /\ r.kind = "create"
        /\ IF Bots \subseteq DOMAIN bots THEN UNCHANGED bots /\ Serve(r, FALSE)
           ELSE \E b \in Bots \ DOMAIN bots :
                  /\ bots' = [x \in DOMAIN bots \cup {b} |->
                                IF x = b THEN [active |-> FALSE, edited |-> FALSE] ELSE bots[x]]
                  /\ Serve(r, TRUE)
     \/ /\ r.kind = "delete"
        /\ LET done == r.of \in DOMAIN bots /\ ~bots[r.of].active
           IN /\ bots' = IF done THEN [x \in DOMAIN bots \ {r.of} |-> bots[x]] ELSE bots
              /\ Serve(r, done)
     \/ /\ r.kind \in {"toggle", "update"}
        /\ bots' = IF r.of \notin DOMAIN bots THEN bots
                   ELSE IF r.kind = "toggle" THEN [bots EXCEPT ![r.of].active = ~@]
                   ELSE [bots EXCEPT ![r.of].edited = TRUE]
        /\ Serve(r, r.of \in DOMAIN bots)
  /\ UNCHANGED <<cards, cardsLoading, creating, editStrategy, selectedBot, logsOf, stale, outrun,
                 commands, failures>>
-----------------------------------------------------------------------------
(* The answers *)

LoadStrategies(r) == asked' = (asked \ {r}) \cup {[Ask2("load", NoBot) EXCEPT !.n = r.n]}

CardsLoaded(r) ==
  /\ r.kind = "load" /\ asked' = asked \ {r}
  /\ cards' = r.served /\ cardsLoading' = FALSE /\ stale' = (r.served # bots)
  /\ UNCHANGED <<creating, editStrategy, selectedBot, logsOf, outrun>>

\* Whatever is selected by then.
LogsLoaded(r) ==
  /\ r.kind = "logs" /\ asked' = asked \ {r} /\ logsOf' = r.of /\ outrun' = (r.of # selectedBot)
  /\ UNCHANGED <<cards, cardsLoading, creating, editStrategy, selectedBot, stale>>

ChangedWithoutLoad(r) ==
  /\ r.kind \in {"create", "toggle", "delete", "update"} /\ asked' = asked \ {r}
  /\ creating' = IF r.kind = "create" THEN FirstForm ELSE creating
  /\ editStrategy' = IF r.kind = "update" THEN NoEdit ELSE editStrategy
  /\ UNCHANGED <<cards, cardsLoading, selectedBot, logsOf, stale, outrun>>
\* The form of a strategy created closes; so does the dialog after a save, whichever
\* strategy it is open for by then.
Changed(r) ==
  /\ r.kind \in {"create", "toggle", "delete", "update"} /\ LoadStrategies(r)
  /\ creating' = IF r.kind = "create" THEN FirstForm ELSE creating
  /\ editStrategy' = IF r.kind = "update" THEN NoEdit ELSE editStrategy
  /\ UNCHANGED <<cards, cardsLoading, selectedBot, logsOf, stale, outrun>>

\* Refused, or without an answer, whether the server has done it or not.  The
\* dialog that waits for it may save again.
Refused(r) ==
  /\ asked' = asked \ {r}
  /\ cardsLoading' = (cardsLoading /\ r.kind # "load")
  /\ stale' = (stale \/ r.kind = "load" \/ (r.state = "done" /\ r.kind # "logs"))
  /\ outrun' = (outrun \/ r.kind = "logs")
  /\ editStrategy' = IF r.kind = "update" /\ editStrategy.saving = r.n
                     THEN [editStrategy EXCEPT !.saving = 0] ELSE editStrategy
  /\ UNCHANGED <<cards, creating, selectedBot, logsOf>>

AlgoAnswered ==
  \E r \in asked :
    /\ \/ r.state = "done" /\ (CardsLoaded(r) \/ LogsLoaded(r) \/ Changed(r)) /\ UNCHANGED failures
       \/ r.state = "refused" /\ Refused(r) /\ UNCHANGED failures
       \/ failures < MaxFailures /\ failures' = failures + 1 /\ Refused(r)
    /\ UNCHANGED <<bots, commands>>

AlgoServer == (\E r \in asked : Served(r)) \/ AlgoAnswered

AlgoNext ==
  \/ ToggleForm \/ ChooseType \/ HandleCreate \/ HandleToggle \/ HandleDelete \/ OpenEdit
  \/ CloseEdit \/ SubmitEdit \/ LoadLogs \/ CloseLogs \/ AlgoServer

AlgoSpec == AlgoInit /\ [][AlgoNext]_algoVars /\ WF_algoVars(AlgoServer)
-----------------------------------------------------------------------------
AlgoTypeOK ==
  /\ {cards, bots} \subseteq Cards /\ {cardsLoading, stale, outrun} \subseteq BOOLEAN
  /\ creating \in BotForms
  /\ editStrategy \in {NoEdit} \cup [of : Bots, saving : 0 .. MaxCommands]
  /\ {selectedBot, logsOf} \subseteq Bots \cup {NoBot}
  /\ \A r \in asked : r.kind \in Kinds2 /\ r.of \in Bots \cup {NoBot} /\ r.served \in Cards

\* When nothing is under way the cards are the server's strategies, and the log that
\* of the card chosen, unless an answer was lost or came out of order
\* (AlgoTradingPage.jsx:188-265).
CardsAreTheServers ==
  asked = {} => /\ stale \/ cards = bots
                /\ outrun \/ logsOf = selectedBot
=============================================================================
