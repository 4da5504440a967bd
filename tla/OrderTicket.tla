------------------------------- MODULE OrderTicket -------------------------------
(***************************************************************************)
(* The order panel (hooks/useOrders.js, components/trading/OrderPanel.jsx): a   *)
(* form, a dialog that confirms it, and an order that asks for the session,    *)
(* is posted and ends with a refresh of the portfolio, against which the next  *)
(* delivery sale is checked.                                                *)
(***************************************************************************)
EXTENDS Integers, FiniteSets

CONSTANTS Traded,      \* the symbols
          MaxQty,      \* bound: shares in the quantity field
          MaxTouches,  \* bound: changes of the form and of the session
          MaxOrders    \* bound: orders of this panel, and trades elsewhere

ASSUME TicketAssumption ==
  /\ Traded # {} /\ {MaxQty, MaxOrders} \subseteq Nat \ {0} /\ MaxTouches \in Nat

VARIABLES form,
          chosen,         \* the symbol of the panel
          confirmOpen,
          order,          \* the order under way
          marketOpen,
          shownHoldings,  \* usePortfolioStore: quantities
          realHoldings,   \* the database
          sync,           \* a refresh of useLivePortfolio: what it was served
          excused,        \* shown and real differ for another reason than own orders
          touches, orders

ticketVars == <<form, chosen, confirmOpen, order, marketOpen, shownHoldings, realHoldings,
                sync, excused, touches, orders>>

Stakes == [Traded -> -(2 * MaxOrders * MaxQty) .. 2 * MaxOrders * MaxQty]
NoHoldings == [s \in {} |-> 0]
ModeOf(product) == IF product = "CNC" THEN "DELIVERY" ELSE "INTRADAY"
Forms == {f \in [side : {"BUY", "SELL"}, type : {"MARKET", "LIMIT", "SL", "SL-M"},
                 mode : {"DELIVERY", "INTRADAY"}, product : {"MIS", "CNC", "NRML"},
                 quantity : 0 .. MaxQty, price : BOOLEAN, trigger : BOOLEAN] :
            f.mode = ModeOf(f.product)}
NoOrder == [stage |-> "none", symbol |-> CHOOSE s \in Traded : TRUE, side |-> "BUY",
            market |-> TRUE, product |-> "MIS", quantity |-> 0, knew |-> TRUE,
            served |-> NoHoldings]

\* Short positions are no holdings.
HoldingQty == IF shownHoldings[chosen] > 0 THEN shownHoldings[chosen] ELSE 0
Least2(a, b) == IF a < b THEN a ELSE b
DeliverySale(f) == f.side = "SELL" /\ f.mode = "DELIVERY"
SellBlocked == DeliverySale(form) /\ HoldingQty = 0
QtyExceedsHoldings == DeliverySale(form) /\ HoldingQty > 0 /\ form.quantity > HoldingQty

ResetForm == [side |-> "BUY", type |-> "MARKET", mode |-> "INTRADAY", product |-> "MIS",
              quantity |-> 1, price |-> FALSE, trigger |-> FALSE]

TicketInit ==
  /\ form = ResetForm /\ chosen = NoOrder.symbol /\ confirmOpen = FALSE /\ order = NoOrder
  /\ marketOpen = TRUE
  /\ realHoldings = [s \in Traded |-> IF s = chosen THEN 1 ELSE 0]
  /\ shownHoldings = realHoldings /\ sync = NoHoldings /\ excused = FALSE
  /\ touches = 0 /\ orders = 0
-----------------------------------------------------------------------------
(* The form: it stays open to changes under the dialog and during an order. *)

Touch(f) ==
  /\ touches < MaxTouches /\ touches' = touches + 1 /\ form' = f /\ f # form
  /\ UNCHANGED <<chosen, confirmOpen, order, marketOpen, shownHoldings, realHoldings, sync,
                 excused, orders>>

SetSide == \E side \in {"BUY", "SELL"} : Touch([form EXCEPT !.side = side])

\* Delivery caps a sale to what is held, if anything is.
Capped(f) ==
  IF DeliverySale(f) /\ HoldingQty > 0 THEN [f EXCEPT !.quantity = Least2(@, HoldingQty)] ELSE f
SetTradingMode(f, mode) ==
  Capped([f EXCEPT !.mode = mode, !.product = IF mode = "DELIVERY" THEN "CNC" ELSE "MIS"])

\* The buttons of the chart and of the small screen put the panel on their side,
\* and every change of the side puts it back to intraday.
OpenOnSide(side) == Touch([SetTradingMode(form, "INTRADAY") EXCEPT !.side = side])
PressTradeBar == \E side \in {"BUY", "SELL"} : OpenOnSide(side)

\* The notice of a sale without holdings offers intraday.
SwitchToIntraday == SellBlocked /\ Touch(SetTradingMode(form, "INTRADAY"))

\* The select knows MIS, CNC and NRML; an empty quantity counts as one.
HandleTradingTypeChange ==
  \E product \in {"MIS", "CNC", "NRML"} :
    LET f == [form EXCEPT !.product = product, !.mode = ModeOf(product)]
    IN Touch(IF DeliverySale(f) /\ f.quantity = 0 THEN Capped([f EXCEPT !.quantity = 1])
             ELSE Capped(f))

\* SL-M takes the current price, if there is one, for its trigger: there is no field for it.
HandleOrderTypeChange ==
  \E type \in {"MARKET", "LIMIT", "SL", "SL-M"}, quoted \in BOOLEAN :
    Touch([form EXCEPT !.type = type, !.trigger = @ \/ (type = "SL-M" /\ quoted)])

TypePrice ==
  \/ form.type = "LIMIT" /\ \E given \in BOOLEAN : Touch([form EXCEPT !.price = given])
  \/ form.type = "SL" /\ \E given \in BOOLEAN : Touch([form EXCEPT !.trigger = given])

\* Typed, stepped, or put to what is held; leaving the field makes it one or more.
TypeQuantity == \E q \in 0 .. MaxQty : Touch([form EXCEPT !.quantity = q])
PressMax == DeliverySale(form) /\ HoldingQty \in 1 .. MaxQty
            /\ Touch([form EXCEPT !.quantity = HoldingQty])

SelectSymbolToTrade ==
  /\ touches < MaxTouches /\ touches' = touches + 1
  /\ chosen' \in Traded \ {chosen}
  /\ UNCHANGED <<form, confirmOpen, order, marketOpen, shownHoldings, realHoldings, sync,
                 excused, orders>>
-----------------------------------------------------------------------------
(* The order *)

ValidateOrderForm(f) ==
  /\ f.quantity > 0 /\ (f.type = "LIMIT" => f.price)
  /\ (f.type \in {"SL", "SL-M"} => f.trigger)

\* Shown and real holdings: what is not this panel's own doing is excused.
Excuse(other) ==
  excused' = (shownHoldings' # realHoldings' /\ (excused \/ other))

PressPlace ==
  /\ order = NoOrder /\ ~SellBlocked /\ ~QtyExceedsHoldings /\ marketOpen
  /\ ~confirmOpen /\ confirmOpen' = TRUE
  /\ UNCHANGED <<form, chosen, order, marketOpen, shownHoldings, realHoldings, sync, excused,
                 touches, orders>>

CancelConfirm ==
  /\ confirmOpen /\ confirmOpen' = FALSE
  /\ UNCHANGED <<form, chosen, order, marketOpen, shownHoldings, realHoldings, sync, excused,
                 touches, orders>>

\* The checks of the dialog and of submitOrder, on the form as it is now.
HandleConfirm ==
  /\ confirmOpen /\ confirmOpen' = FALSE /\ order = NoOrder
  /\ ~SellBlocked /\ ~QtyExceedsHoldings
  /\ IF ~ValidateOrderForm(form) THEN UNCHANGED <<order, orders>>
     ELSE /\ orders < MaxOrders /\ orders' = orders + 1
          /\ order' = [stage |-> "session", symbol |-> chosen, side |-> form.side,
                       market |-> form.type = "MARKET", product |-> form.product,
                       quantity |-> form.quantity, knew |-> ~excused, served |-> NoHoldings]
  /\ UNCHANGED <<form, chosen, marketOpen, shownHoldings, realHoldings, sync, excused,
                 touches>>

\* GET /market/session: closed ends the order, no answer leaves it to the server.
SessionChecked ==
  /\ order.stage = "session"
  /\ \/ marketOpen' = FALSE /\ order' = NoOrder
     \/ marketOpen' \in {TRUE, marketOpen} /\ order' = [order EXCEPT !.stage = "post"]
  /\ UNCHANGED <<form, chosen, confirmOpen, shownHoldings, realHoldings, sync, excused,
                 touches, orders>>

\* POST /orders at the server: a market order fills, any other may.
Executed ==
  LET q == IF order.side = "BUY" THEN order.quantity ELSE -order.quantity
  IN [realHoldings EXCEPT ![order.symbol] = @ + q]

OrderPostedNotAwaited ==
  /\ order.stage = "post"
  /\ realHoldings' = realHoldings \/ realHoldings' = Executed
  /\ UNCHANGED <<form, chosen, confirmOpen, marketOpen, shownHoldings, sync, touches, orders>>
  /\ \/ order' = NoOrder /\ Excuse(TRUE)
     \/ /\ order.market => realHoldings' # realHoldings
        /\ order' = NoOrder /\ Excuse(FALSE)
\* Refused, or accepted and the answer lost, the form is free again at once; when
\* it comes, the portfolio is refreshed first. The backend drops its copy of the holdings
\* before the commit: one that somebody else made in between is of before the order.
OrderPosted ==
  /\ order.stage = "post"
  /\ realHoldings' = realHoldings \/ realHoldings' = Executed
  /\ UNCHANGED <<form, chosen, confirmOpen, marketOpen, shownHoldings, sync, touches, orders>>
  /\ \/ order' = NoOrder /\ Excuse(TRUE)
     \/ /\ order.market => realHoldings' # realHoldings
        /\ \E copy \in {NoHoldings, realHoldings} :
             order' = [order EXCEPT !.stage = "refresh", !.served = copy]
        /\ Excuse(FALSE)

\* get_holdings(): the copy, for its 3 s, or the holdings.
RefreshServed ==
  /\ order.stage = "refresh"
  /\ \E served \in {order.served, realHoldings} \ {NoHoldings} :
       order' = [order EXCEPT !.stage = "landing", !.served = served]
  /\ UNCHANGED <<form, chosen, confirmOpen, marketOpen, shownHoldings, realHoldings, sync,
                 excused, touches, orders>>

\* A refresh that fails leaves what was shown.
RefreshEnds ==
  /\ order.stage = "landing" /\ order' = NoOrder
  /\ \/ shownHoldings' = order.served /\ UNCHANGED realHoldings /\ Excuse(order.served # realHoldings)
     \/ UNCHANGED <<shownHoldings, realHoldings>> /\ Excuse(TRUE)
  /\ UNCHANGED <<form, chosen, confirmOpen, marketOpen, sync, touches, orders>>
-----------------------------------------------------------------------------
(* Besides the panel *)

\* The session is asked for every minute.
CheckSession ==
  /\ marketOpen' = ~marketOpen /\ touches < MaxTouches /\ touches' = touches + 1
  /\ UNCHANGED <<form, chosen, confirmOpen, order, shownHoldings, realHoldings, sync, excused,
                 orders>>

\* The refresh of every 30 seconds, whose answer may be older than the order's own.
SyncServed ==
  /\ sync = NoHoldings /\ sync' = realHoldings
  /\ UNCHANGED <<form, chosen, confirmOpen, order, marketOpen, shownHoldings, realHoldings,
                 excused, touches, orders>>

SyncLands ==
  /\ sync # NoHoldings /\ sync' = NoHoldings /\ shownHoldings' = sync
  /\ UNCHANGED realHoldings /\ Excuse(sync # realHoldings)
  /\ UNCHANGED <<form, chosen, confirmOpen, order, marketOpen, touches, orders>>

\* What changes the holdings without this panel.
Elsewhere(held) ==
  /\ orders < MaxOrders /\ orders' = orders + 1 /\ realHoldings' = held
  /\ order' = [order EXCEPT !.knew = @ /\ order = NoOrder]
  /\ UNCHANGED shownHoldings /\ Excuse(TRUE)
  /\ UNCHANGED <<form, chosen, confirmOpen, marketOpen, sync, touches>>

RestingFills == \E s \in Traded : Elsewhere([realHoldings EXCEPT ![s] = @ - 1])

\* SELL of a long row and EXIT of a short one open a panel of their own.
QuickOrder ==
  \E s \in Traded :
    /\ shownHoldings[s] # 0
    /\ LET q == IF shownHoldings[s] < 0 THEN 1 ELSE -1
       IN Elsewhere([realHoldings EXCEPT ![s] = @ + q])

\* CLOSE ALL, of the positions and of the chart.
HandleCloseAll == Elsewhere([s \in Traded |-> 0])

OrderMoves == SessionChecked \/ OrderPosted \/ RefreshServed \/ RefreshEnds

FormChanges ==
  \/ SetSide \/ PressTradeBar \/ SwitchToIntraday \/ HandleTradingTypeChange
  \/ HandleOrderTypeChange \/ TypePrice \/ TypeQuantity \/ PressMax \/ SelectSymbolToTrade

TicketNext ==
  \/ FormChanges \/ PressPlace \/ CancelConfirm \/ HandleConfirm \/ OrderMoves
  \/ CheckSession \/ SyncServed \/ SyncLands \/ RestingFills \/ QuickOrder \/ HandleCloseAll

TicketSpec == TicketInit /\ [][TicketNext]_ticketVars /\ WF_ticketVars(OrderMoves)
-----------------------------------------------------------------------------
TicketTypeOK ==
  /\ form \in Forms /\ chosen \in Traded /\ {confirmOpen, marketOpen, excused} \subseteq BOOLEAN
  /\ order.stage \in {"none", "session", "post", "refresh", "landing"}
  /\ {shownHoldings, realHoldings} \subseteq Stakes
  /\ sync \in Stakes \cup {NoHoldings}
  /\ touches \in 0 .. MaxTouches /\ orders \in 0 .. MaxOrders

\* A delivery sale on its way to the server never sells more than is held there,
\* whatever the form became meanwhile, as long as nobody else traded and no refresh was
\* lost, late or served from an older copy: the panel counts its own sales (useOrders.js:153-245).
OwnSalesCounted ==
  order.stage \in {"session", "post"} /\ order.side = "SELL" /\ order.product = "CNC"
  /\ order.knew => order.quantity <= realHoldings[order.symbol]
=============================================================================
