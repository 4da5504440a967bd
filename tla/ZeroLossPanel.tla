------------------------------ MODULE ZeroLossPanel ------------------------------
(***************************************************************************)
(* The page of the ZeroLoss strategy (pages/ZeroLossPage.jsx) and its store     *)
(* (stores/useZeroLossStore.js).  The store is fed twice: by the events of the   *)
(* server over the socket, on every page, and by polls of the whole state while *)
(* the strategy's own page is open.  The two race: the server tells that a       *)
(* position is closed before it forgets it.                                  *)
(***************************************************************************)
EXTENDS Integers, SequencesExt

CONSTANTS Scrips,         \* the symbols the strategy scans
          MaxEvents,      \* bound: events of the server
          MaxPolls,       \* bound: polls under way at once
          MaxFaults       \* bound: drops of the socket, failed requests, visits and presses

ASSUME ZeroAssumption == IsFiniteSet(Scrips)

VARIABLES zero,           \* the server: enabled, its positions, its readings
          closing,        \* positions told closed and not yet forgotten
          stopping,       \* the stop under way has told its closures
          panel,          \* the store: the same as zero
          loading, toggling,
          onPage,
          wire,           \* events on their way over the socket
          zeroPolls,          \* polls under way
          switches,       \* presses of the switch under way
          events, faults

zeroVars == <<zero, closing, stopping, panel, loading, toggling, onPage, wire,
              zeroPolls, switches, events, faults>>

States == [enabled : BOOLEAN, positions : SUBSET Scrips, confidence : SUBSET Scrips]
Off == [enabled |-> FALSE, positions |-> {}, confidence |-> {}]
NoAnswer == "none"

ZeroInit ==
  /\ zero \in {Off, [enabled |-> TRUE, positions |-> Scrips, confidence |-> Scrips]}
  /\ panel = Off /\ closing = {} /\ stopping = FALSE
  /\ loading = TRUE /\ toggling = FALSE /\ onPage = FALSE /\ wire = <<>> /\ zeroPolls = {}
  /\ switches = {} /\ events = 0 /\ faults = 0
-----------------------------------------------------------------------------
(* The strategy of the server *)

Tell(kind, told) == wire' = wire \o SetToSeq({[kind |-> kind, of |-> s] : s \in told})

\* A scan tells its reading, and may then enter a position.
Scan ==
  /\ zero.enabled /\ ~stopping /\ events < MaxEvents /\ events' = events + 1
  /\ \E s \in Scrips \ zero.positions :
       \/ zero' = [zero EXCEPT !.confidence = @ \cup {s}] /\ Tell("scan", {s})
       \/ /\ s \in zero.confidence /\ zero' = [zero EXCEPT !.positions = @ \cup {s}]
          /\ Tell("entry", {s})
  /\ UNCHANGED <<closing, stopping, panel, loading, toggling, onPage, zeroPolls, switches, faults>>

\* The monitor tells each closure, and forgets them all at its end.
MonitorCloses ==
  /\ zero.enabled /\ ~stopping /\ events < MaxEvents /\ events' = events + 1 /\ UNCHANGED zero
  /\ \E s \in zero.positions \ closing : closing' = closing \cup {s} /\ Tell("exit", {s})
  /\ UNCHANGED <<stopping, panel, loading, toggling, onPage, zeroPolls, switches, faults>>

MonitorForgets ==
  /\ closing # {} /\ ~stopping
  /\ zero' = [zero EXCEPT !.positions = @ \ closing] /\ closing' = {}
  /\ UNCHANGED <<stopping, panel, loading, toggling, onPage, wire, zeroPolls, switches,
                 events, faults>>
-----------------------------------------------------------------------------
(* The switch *)

HandleZeroToggle ==
  /\ onPage /\ ~loading /\ ~toggling /\ toggling' = TRUE
  /\ faults < MaxFaults /\ faults' = faults + 1
  /\ switches' = switches \cup {[answer |-> NoAnswer, mine |-> TRUE, n |-> faults]}
  /\ UNCHANGED <<zero, closing, stopping, panel, loading, onPage, wire, zeroPolls, events>>

Answer2(w, answer) == switches' = (switches \ {w}) \cup {[w EXCEPT !.answer = answer]}

\* It starts, unless the market is closed; or it tells the closure of every position
\* and then forgets those whose order was placed, one stop at a time.
SwitchServed ==
  \E w \in switches :
    /\ w.answer = NoAnswer
    /\ \/ /\ ~zero.enabled /\ ~stopping
          /\ \/ zero' = [zero EXCEPT !.enabled = TRUE] /\ Answer2(w, "on")
             \/ faults < MaxFaults /\ UNCHANGED zero /\ Answer2(w, "refused")
          /\ UNCHANGED <<closing, stopping, wire, events>>
       \/ /\ zero.enabled /\ ~stopping /\ stopping' = TRUE
          /\ \E done \in SUBSET zero.positions : closing' = done /\ Tell("exit", done)
          /\ UNCHANGED <<zero, switches, events>>
       \/ /\ stopping /\ stopping' = FALSE /\ closing' = {}
          /\ zero' = [zero EXCEPT !.enabled = FALSE, !.positions = @ \ closing]
          /\ Answer2(w, "off") /\ UNCHANGED <<wire, events>>
  /\ UNCHANGED <<panel, loading, toggling, onPage, zeroPolls, faults>>

\* A stop clears the positions shown.  The button of another visit stays as it is.
SwitchAnswered ==
  \E w \in switches :
    /\ w.answer # NoAnswer /\ switches' = switches \ {w}
    /\ panel' = IF w.answer = "on" THEN [panel EXCEPT !.enabled = TRUE]
                ELSE IF w.answer = "off" THEN [panel EXCEPT !.enabled = FALSE, !.positions = {}]
                ELSE panel
    /\ toggling' = (toggling /\ ~w.mine)
    /\ UNCHANGED <<zero, closing, stopping, loading, onPage, wire, zeroPolls, events, faults>>
-----------------------------------------------------------------------------
(* The page and its polls *)

Ask3 ==
  /\ Cardinality(zeroPolls) < MaxPolls
  /\ zeroPolls' = zeroPolls \cup {[served |-> FALSE, answer |-> Off,
                         n |-> CHOOSE k \in 1 .. MaxPolls : \A p \in zeroPolls : p.n # k]}

OpenPage ==
  /\ ~onPage /\ onPage' = TRUE /\ toggling' = FALSE /\ Ask3
  /\ UNCHANGED <<zero, closing, stopping, panel, loading, wire, switches, events, faults>>

LeavePage2 ==
  /\ onPage /\ onPage' = FALSE /\ faults < MaxFaults /\ faults' = faults + 1
  /\ switches' = {[w EXCEPT !.mine = FALSE] : w \in switches}
  /\ UNCHANGED <<zero, closing, stopping, panel, loading, toggling, wire, zeroPolls, events>>

\* Every 15 s, whether the last one was answered or not.
FetchAll ==
  /\ onPage /\ Ask3
  /\ UNCHANGED <<zero, closing, stopping, panel, loading, toggling, onPage, wire, switches,
                 events, faults>>

PollServed ==
  \E p \in zeroPolls :
    /\ ~p.served /\ zeroPolls' = (zeroPolls \ {p}) \cup {[p EXCEPT !.served = TRUE, !.answer = zero]}
    /\ UNCHANGED <<zero, closing, stopping, panel, loading, toggling, onPage, wire,
                   switches, events, faults>>

\* The part that failed leaves what is shown; the page shows itself in any case.
PollLands ==
  \E p \in zeroPolls :
    /\ zeroPolls' = zeroPolls \ {p} /\ loading' = FALSE
    /\ \/ p.served /\ panel' = p.answer /\ UNCHANGED faults
       \/ faults < MaxFaults /\ faults' = faults + 1 /\ UNCHANGED panel
    /\ UNCHANGED <<zero, closing, stopping, toggling, onPage, wire, switches, events>>
-----------------------------------------------------------------------------
(* The socket *)

\* A closure takes the position off the panel.
HandleWsMessage ==
  /\ wire # <<>> /\ wire' = Tail(wire)
  /\ LET e == Head(wire)
     IN /\ panel' = CASE e.kind = "scan" -> [panel EXCEPT !.confidence = @ \cup {e.of}]
                      [] e.kind = "entry" -> [panel EXCEPT !.positions = @ \cup {e.of}]
                      [] e.kind = "exit" -> [panel EXCEPT !.positions = @ \ {e.of}]
  /\ UNCHANGED <<zero, closing, stopping, loading, toggling, onPage, zeroPolls, switches, events, faults>>

SocketDrops ==
  /\ wire # <<>> /\ wire' = <<>> /\ faults < MaxFaults /\ faults' = faults + 1
  /\ UNCHANGED <<zero, closing, stopping, panel, loading, toggling, onPage, zeroPolls, switches,
                 events>>

ZeroNext ==
  \/ Scan \/ MonitorCloses \/ MonitorForgets \/ HandleZeroToggle \/ SwitchServed \/ SwitchAnswered
  \/ OpenPage \/ LeavePage2 \/ FetchAll \/ PollServed \/ PollLands
  \/ HandleWsMessage \/ SocketDrops

ZeroSpec ==
  /\ ZeroInit /\ [][ZeroNext]_zeroVars
  /\ WF_zeroVars(MonitorForgets) /\ WF_zeroVars(SwitchServed) /\ WF_zeroVars(SwitchAnswered)
  /\ WF_zeroVars(FetchAll) /\ WF_zeroVars(PollServed) /\ WF_zeroVars(PollLands)
  /\ WF_zeroVars(HandleWsMessage)
-----------------------------------------------------------------------------
ZeroTypeOK ==
  /\ {zero, panel} \subseteq States /\ closing \subseteq zero.positions
  /\ {stopping, loading, toggling, onPage} \subseteq BOOLEAN
  /\ \A p \in zeroPolls : p.answer \in States
  /\ \A w \in switches : w.answer \in {NoAnswer, "on", "off", "refused"}

\* Whatever was lost or overtaken, the open page comes to show the server's
\* strategy, and its switch comes free (useZeroLossStore.js:26-61, 89-178,
\* ZeroLossPage.jsx:161-187).
PanelCatchesUp == (<>[]onPage) => <>[](panel = zero /\ ~toggling)
=============================================================================
