------------------------------ MODULE FuturesOrders ------------------------------
(***************************************************************************)
(* The orders of the futures page (pages/FuturesPage.jsx): the dialog that      *)
(* places one and the list that cancels one.  The list is fetched at a choice of *)
(* a symbol and after a success on the page, and at no other time.             *)
(***************************************************************************)
EXTENDS Integers, SequencesExt

CONSTANTS Tickets,        \* the orders that can be placed
          MaxMisses,      \* bound: answers that are lost
          MaxReads        \* bound: choices of a symbol

VARIABLES futOrders,      \* the orders in the database
          ordersShown,
          reads,          \* fetches of the orders under way
          orderModal,     \* the dialog: whether it is open, and its type of order
          placing,        \* its button waits
          calls,          \* orders and cancellations under way
          unread,         \* an order moved since the fetch last shown, or that fetch was late
          misses, readings

futOrderVars == <<futOrders, ordersShown, reads, orderModal, placing, calls, unread, misses, readings>>

TicketBooks == [Tickets -> {"none", "open", "filled", "cancelled"}]
NoTickets == [t \in Tickets |-> "none"]
NoModal == [open |-> FALSE, type |-> "MARKET"]

FetchPositionsOrders == reads' = Append(reads, [served |-> FALSE, book |-> NoTickets])

FutOrdersInit ==
  /\ futOrders = NoTickets /\ ordersShown = NoTickets
  /\ reads = <<[served |-> FALSE, book |-> NoTickets]>>
  /\ orderModal = NoModal /\ placing = FALSE /\ calls = {} /\ unread = FALSE
  /\ misses = 0 /\ readings = 0
-----------------------------------------------------------------------------
(* The page *)

ChooseSymbol ==
  /\ readings < MaxReads /\ readings' = readings + 1 /\ FetchPositionsOrders
  /\ UNCHANGED <<futOrders, ordersShown, orderModal, placing, calls, unread, misses>>

\* Any contract listed; the form starts anew.
OpenOrder ==
  /\ ~orderModal.open /\ orderModal' = [open |-> TRUE, type |-> "MARKET"]
  /\ UNCHANGED <<futOrders, ordersShown, reads, placing, calls, unread, misses, readings>>

SetOrderType ==
  /\ orderModal.open /\ orderModal.type = "MARKET" /\ orderModal' = [orderModal EXCEPT !.type = "LIMIT"]
  /\ UNCHANGED <<futOrders, ordersShown, reads, placing, calls, unread, misses, readings>>

\* It closes while its order is under way, too.
CloseModal ==
  /\ orderModal.open /\ orderModal' = NoModal
  /\ UNCHANGED <<futOrders, ordersShown, reads, placing, calls, unread, misses, readings>>

Call(kind, t, type) == calls' = calls \cup {[kind |-> kind, of |-> t, type |-> type, state |-> "sent"]}

HandlePlace ==
  /\ orderModal.open /\ ~placing /\ placing' = TRUE
  /\ \E t \in Tickets : /\ futOrders[t] = "none" /\ \A c \in calls : c.of # t
                        /\ Call("place", t, orderModal.type)
  /\ UNCHANGED <<futOrders, ordersShown, reads, orderModal, unread, misses, readings>>

\* The row keeps its button until the list is fetched again.
HandleCancel ==
  /\ \E t \in Tickets : ordersShown[t] = "open" /\ Call("cancel", t, "LIMIT")
  /\ UNCHANGED <<futOrders, ordersShown, reads, orderModal, placing, unread, misses, readings>>
-----------------------------------------------------------------------------
(* The server *)

Fate(c) ==
  IF c.kind = "cancel" THEN IF futOrders[c.of] = "open" THEN {"cancelled"} ELSE {}
  ELSE IF c.type = "LIMIT" THEN {"open", "filled"} ELSE {"filled"}

\* A market order fills, a limit order rests unless it fills at once, an order at
\* rest is cancelled; or the request is refused.
CallServed(c) ==
  /\ c.state = "sent"
  /\ \/ /\ \E s \in Fate(c) : futOrders' = [futOrders EXCEPT ![c.of] = s]
        /\ calls' = (calls \ {c}) \cup {[c EXCEPT !.state = "done"]}
     \/ UNCHANGED futOrders /\ calls' = (calls \ {c}) \cup {[c EXCEPT !.state = "refused"]}
  /\ UNCHANGED <<ordersShown, reads, orderModal, placing, unread, misses, readings>>

\* An order at rest fills in the sweep of the server: the page is not told.
SweepFills ==
  /\ \E t \in Tickets : futOrders[t] = "open" /\ futOrders' = [futOrders EXCEPT ![t] = "filled"]
  /\ unread' = TRUE
  /\ UNCHANGED <<ordersShown, reads, orderModal, placing, calls, misses, readings>>

ReadServed ==
  \E i \in DOMAIN reads :
    /\ ~reads[i].served /\ reads' = [reads EXCEPT ![i] = [served |-> TRUE, book |-> futOrders]]
    /\ UNCHANGED <<futOrders, ordersShown, orderModal, placing, calls, unread, misses, readings>>
-----------------------------------------------------------------------------
(* The answers *)

DoneUnread(c) ==
  /\ c.state = "done" /\ UNCHANGED <<reads, unread, misses>>
  /\ orderModal' = IF c.kind = "place" THEN NoModal ELSE orderModal
\* The list is fetched again; the dialog closes, whichever contract it is for by then.
Done(c) ==
  /\ c.state = "done" /\ FetchPositionsOrders /\ UNCHANGED <<unread, misses>>
  /\ orderModal' = IF c.kind = "place" THEN NoModal ELSE orderModal

\* An error, which the server also gives for what it has done: no list is fetched.
Failed(c) ==
  /\ \/ c.state = "refused" /\ UNCHANGED <<unread, misses>>
     \/ c.state = "done" /\ misses < MaxMisses /\ misses' = misses + 1 /\ unread' = TRUE
  /\ UNCHANGED <<reads, orderModal>>

CallAnswered(c) ==
  /\ calls' = calls \ {c} /\ placing' = (placing /\ c.kind # "place")
  /\ Done(c) \/ Failed(c)
  /\ UNCHANGED <<futOrders, ordersShown, readings>>

\* A failure is silent.
ReadLands ==
  \E i \in DOMAIN reads :
    /\ reads' = RemoveAt(reads, i)
    /\ \/ /\ reads[i].served /\ ordersShown' = reads[i].book
          /\ unread' = (reads[i].book # futOrders) /\ UNCHANGED misses
       \/ misses < MaxMisses /\ misses' = misses + 1 /\ unread' = TRUE /\ UNCHANGED ordersShown
    /\ UNCHANGED <<futOrders, orderModal, placing, calls, readings>>

PlaceMoves == \E c \in calls : c.kind = "place" /\ (CallServed(c) \/ CallAnswered(c))
CancelMoves == \E c \in calls : c.kind = "cancel" /\ (CallServed(c) \/ CallAnswered(c))
ReadMoves == ReadServed \/ ReadLands

FutOrdersNext ==
  \/ ChooseSymbol \/ OpenOrder \/ SetOrderType \/ CloseModal \/ HandlePlace \/ HandleCancel
  \/ SweepFills \/ PlaceMoves \/ CancelMoves \/ ReadMoves

FutOrdersSpec ==
  /\ FutOrdersInit /\ [][FutOrdersNext]_futOrderVars
  /\ WF_futOrderVars(PlaceMoves) /\ WF_futOrderVars(CancelMoves) /\ WF_futOrderVars(ReadMoves)
-----------------------------------------------------------------------------
FutOrdersTypeOK ==
  /\ {futOrders, ordersShown} \subseteq TicketBooks /\ {placing, unread} \subseteq BOOLEAN
  /\ orderModal \in [open : BOOLEAN, type : {"MARKET", "LIMIT"}]
  /\ \A c \in calls : c.of \in Tickets /\ c.state \in {"sent", "done", "refused"}
  /\ \A i \in DOMAIN reads : reads[i] \in [served : BOOLEAN, book : TicketBooks]

\* When nothing is under way the orders shown are the user's, unless one moved by
\* itself, an answer was lost or an older list came last (FuturesPage.jsx:240-258, 304-312).
OwnOrdersShown == calls = {} /\ reads = <<>> => unread \/ ordersShown = futOrders
=============================================================================
