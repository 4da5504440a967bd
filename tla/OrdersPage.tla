------------------------------- MODULE OrdersPage -------------------------------
(***************************************************************************)
(* The orders page (pages/OrdersPage.jsx): a view of the orders in the store,   *)
(* and cancellations that are shown before the server has answered and put     *)
(* back the orders of before if it refuses.                                 *)
(***************************************************************************)
EXTENDS Integers, FiniteSets

CONSTANTS OrderIds,
          Details,      \* the side, product, source and age of each order
          Views,        \* the settings of the tabs and filters
          NoId,
          MaxCancels    \* bound: cancellations

ASSUME PageAssumption == MaxCancels \in Nat

VARIABLES shownOrders,    \* usePortfolioStore: the status of each order
          realOrders,     \* the database
          pageView,
          confirmCancelId, cancelLoadingId, editingRowId,
          cancelling,     \* DELETE requests: the order, and what was shown before
          refresh,        \* what a refresh was served
          restored,       \* since a refresh, a failure has put a cancelled row back
          cancelCount

pageVars == <<shownOrders, realOrders, pageView, confirmCancelId, cancelLoadingId,
              editingRowId, cancelling, refresh, restored, cancelCount>>

Statuses == {"absent", "OPEN", "FILLED", "CANCELLED"}
Books2 == [OrderIds -> Statuses]
NoRefresh == [o \in {} |-> "absent"]

\* The sets of statuses of the server's that a row can have.
StatusKind(status) ==
  CASE status = "OPEN" -> "pending" [] status = "FILLED" -> "filled"
    [] status = "CANCELLED" -> "rejected" [] OTHER -> "other"

\* Each range of dates holds the ages from today on to its own.
Span2(range) == CASE range = "today" -> {"today"} [] range = "week" -> {"today", "week"}
                  [] OTHER -> {"today", "week", "older"}
IsWithinDateRange(age, range) == age \in Span2(range)

FilteredBaseOrders(view) ==
  {o \in OrderIds :
     LET d == Details[o]
     IN /\ shownOrders[o] # "absent"
        /\ view.source \in {"all", d.source} /\ IsWithinDateRange(d.age, view.range)
        /\ view.side \in {"all", d.side} /\ view.product \in {"all", d.product}}

VisibleByTab(view) ==
  {o \in FilteredBaseOrders(view) : view.tab \in {"all", StatusKind(shownOrders[o])}}

PageInit ==
  /\ realOrders \in [OrderIds -> {"absent", "OPEN"}] /\ shownOrders = realOrders
  /\ pageView \in Views
  /\ confirmCancelId = NoId /\ cancelLoadingId = NoId /\ editingRowId = NoId
  /\ cancelling = {} /\ refresh = NoRefresh /\ restored = FALSE /\ cancelCount = 0
-----------------------------------------------------------------------------
(* The server, and the refreshes of the store *)

OrderMovesAt(o) ==
  \/ realOrders[o] = "absent" /\ \E s \in {"OPEN", "FILLED"} : realOrders' = [realOrders EXCEPT ![o] = s]
  \/ realOrders[o] = "OPEN" /\ realOrders' = [realOrders EXCEPT ![o] = "FILLED"]

ServerMoves ==
  /\ \E o \in OrderIds : OrderMovesAt(o)
  /\ UNCHANGED <<shownOrders, pageView, confirmCancelId, cancelLoadingId, editingRowId,
                 cancelling, refresh, restored, cancelCount>>

LoadOrders ==
  /\ refresh = NoRefresh /\ refresh' = realOrders
  /\ UNCHANGED <<shownOrders, realOrders, pageView, confirmCancelId, cancelLoadingId,
                 editingRowId, cancelling, restored, cancelCount>>

\* The orders replace those of the store, cancelled ones included.
OrdersLoaded ==
  /\ refresh # NoRefresh /\ refresh' = NoRefresh
  /\ \/ shownOrders' = refresh /\ restored' = FALSE
     \/ UNCHANGED <<shownOrders, restored>>
  /\ UNCHANGED <<realOrders, pageView, confirmCancelId, cancelLoadingId, editingRowId,
                 cancelling, cancelCount>>
-----------------------------------------------------------------------------
(* The page *)

ChangeView ==
  /\ pageView' \in Views \ {pageView}
  /\ UNCHANGED <<shownOrders, realOrders, confirmCancelId, cancelLoadingId, editingRowId,
                 cancelling, refresh, restored, cancelCount>>

\* The buttons of a pending row.
PendingRows == {o \in VisibleByTab(pageView) : StatusKind(shownOrders[o]) = "pending"}

PressCancel ==
  /\ \E o \in PendingRows \ {cancelLoadingId} :
       confirmCancelId' = IF confirmCancelId = o THEN NoId ELSE o
  /\ UNCHANGED <<shownOrders, realOrders, pageView, cancelLoadingId, editingRowId, cancelling,
                 refresh, restored, cancelCount>>

\* Saving a change only says that the server has no such request.
OpenModifyEditor ==
  /\ \E o \in PendingRows : editingRowId' = o /\ confirmCancelId' = NoId
  /\ UNCHANGED <<shownOrders, realOrders, pageView, cancelLoadingId, cancelling, refresh,
                 restored, cancelCount>>
CloseEditor ==
  /\ editingRowId # NoId /\ editingRowId' = NoId
  /\ UNCHANGED <<shownOrders, realOrders, pageView, confirmCancelId, cancelLoadingId,
                 cancelling, refresh, restored, cancelCount>>

DismissCancel ==
  /\ confirmCancelId \in VisibleByTab(pageView) /\ confirmCancelId' = NoId
  /\ UNCHANGED <<shownOrders, realOrders, pageView, cancelLoadingId, editingRowId, cancelling,
                 refresh, restored, cancelCount>>

\* The question stays open in a visible row, whatever became of the order; several
\* orders may be cancelled at once.
HandleCancelOrder ==
  /\ confirmCancelId \in VisibleByTab(pageView) /\ confirmCancelId' = NoId
  /\ cancelCount < MaxCancels /\ cancelCount' = cancelCount + 1
  /\ cancelLoadingId' = confirmCancelId
  /\ shownOrders' = [shownOrders EXCEPT ![confirmCancelId] = "CANCELLED"]
  /\ cancelling' = cancelling \cup
                     {[id |-> confirmCancelId, shown |-> shownOrders, n |-> cancelCount]}
  /\ UNCHANGED <<realOrders, pageView, editingRowId, refresh, restored>>

\* DELETE /orders/{id}: only an open order is cancelled.
CancelAnswered ==
  /\ \E r \in cancelling :
       /\ realOrders[r.id] = "OPEN"
       /\ realOrders' = [realOrders EXCEPT ![r.id] = "CANCELLED"]
       /\ cancelling' = cancelling \ {r}
  /\ cancelLoadingId' = NoId
  /\ UNCHANGED <<shownOrders, pageView, confirmCancelId, editingRowId, refresh, restored,
                 cancelCount>>

FailsKeepingRow ==
  /\ \E r \in cancelling, done \in BOOLEAN :
       /\ realOrders' = IF done /\ realOrders[r.id] = "OPEN"
                        THEN [realOrders EXCEPT ![r.id] = "CANCELLED"] ELSE realOrders
       /\ cancelling' = cancelling \ {r}
       /\ UNCHANGED shownOrders /\ restored' = (restored \/ cancelling' # {})
  /\ cancelLoadingId' = NoId
  /\ UNCHANGED <<pageView, confirmCancelId, editingRowId, refresh, cancelCount>>
\* Refused, or done and the answer lost: all orders are put back as they were shown
\* when the button was pressed.
CancelFails ==
  /\ \E r \in cancelling, done \in BOOLEAN :
       /\ realOrders' = IF done /\ realOrders[r.id] = "OPEN"
                        THEN [realOrders EXCEPT ![r.id] = "CANCELLED"] ELSE realOrders
       /\ cancelling' = cancelling \ {r} /\ shownOrders' = r.shown
       /\ restored' = (restored \/ \E o \in OrderIds :
                         r.shown[o] = "CANCELLED" /\ (o = r.id \/ shownOrders[o] # "CANCELLED"))
  /\ cancelLoadingId' = NoId
  /\ UNCHANGED <<pageView, confirmCancelId, editingRowId, refresh, cancelCount>>

PageNext ==
  \/ ServerMoves \/ LoadOrders \/ OrdersLoaded \/ ChangeView \/ PressCancel \/ OpenModifyEditor
  \/ CloseEditor \/ DismissCancel \/ HandleCancelOrder \/ CancelAnswered \/ CancelFails

PageSpec == PageInit /\ [][PageNext]_pageVars
-----------------------------------------------------------------------------
PageTypeOK ==
  /\ {shownOrders, realOrders} \subseteq Books2 /\ pageView \in Views
  /\ {confirmCancelId, cancelLoadingId, editingRowId} \subseteq OrderIds \cup {NoId}
  /\ \A r \in cancelling : r.id \in OrderIds /\ r.shown \in Books2
  /\ refresh \in Books2 \cup {NoRefresh} /\ restored \in BOOLEAN /\ cancelCount \in 0 .. MaxCancels

\* An order is shown cancelled that is not only while its own cancellation is under
\* way, or until the next refresh when the failure of a cancellation has put it back
\* (OrdersPage.jsx:554-588).
ShownCancelledIsTrue ==
  \A o \in OrderIds :
    shownOrders[o] = "CANCELLED" /\ realOrders[o] # "CANCELLED" =>
      restored \/ o \in {r.id : r \in cancelling}
=============================================================================
