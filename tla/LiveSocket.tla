------------------------------ MODULE LiveSocket ------------------------------
(***************************************************************************)
(* The quote feed's connection (hooks/useWebSocket.js). The hook is mounted   *)
(* by AppShell as long as somebody is signed in, and a second time by        *)
(* CommoditiesPage: two sockets, each with its own retry timer and message    *)
(* queue, that write one status in the market store.                         *)
(***************************************************************************)
EXTENDS Naturals, FiniteSets

CONSTANTS
  Feeds,       \* symbols the user may look at, hold or watch
  PageFeeds,   \* symbols the commodities page subscribes to
  MaxDrops,    \* bound: connections that fail or break
  MaxMoves     \* bound: mounts, unmounts and changes of what is looked at

ASSUME SocketAssumption == MaxDrops \in Nat /\ MaxMoves \in Nat

Hooks == {"shell", "page"}

VARIABLES
  mounted,   \* the hooks in use
  socket,    \* each hook's socket
  retryTimer,\* hooks whose reconnect timer runs
  outbox,    \* symbols in subscribe messages queued by a hook
  subscribed,\* symbols the server was asked for on the hook's present socket
  tracked,   \* selected symbol, active watchlist and holdings
  wsStatus,  \* the store's status
  ghosts,    \* sockets closed while connecting whose error event is to come
  drops, moves, visits

socketVars == <<mounted, socket, retryTimer, outbox, subscribed, tracked,
                wsStatus, ghosts, drops, moves, visits>>
-----------------------------------------------------------------------------
SocketStates == {"none", "connecting", "open", "closed"}
WsStatuses == {"connecting", "connected", "disconnected", "error"}

SocketTypeOK ==
  /\ mounted \subseteq Hooks
  /\ socket \in [Hooks -> SocketStates]
  /\ retryTimer \subseteq Hooks
  /\ outbox \in [Hooks -> SUBSET PageFeeds]
  /\ subscribed \in [Hooks -> SUBSET (Feeds \cup PageFeeds)]
  /\ tracked \subseteq Feeds
  /\ wsStatus \in WsStatuses
  /\ ghosts \in 0 .. MaxMoves
  /\ drops \in 0 .. MaxDrops /\ moves \in 0 .. MaxMoves /\ visits \in 0 .. MaxMoves

SocketInit ==
  /\ mounted = {}
  /\ socket = [h \in Hooks |-> "none"]
  /\ retryTimer = {}
  /\ outbox = [h \in Hooks |-> {}]
  /\ subscribed = [h \in Hooks |-> {}]
  /\ tracked = {}
  /\ wsStatus = "disconnected"
  /\ ghosts = 0 /\ drops = 0 /\ moves = 0 /\ visits = 0
-----------------------------------------------------------------------------
Move == moves < MaxMoves /\ moves' = moves + 1

\* connect(): nothing while the present socket is connecting or open.
Connects(h, sockets) ==
  /\ socket' = [sockets EXCEPT ![h] = "connecting"]
  /\ subscribed' = [subscribed EXCEPT ![h] = {}]
  /\ wsStatus' = "connecting"

\* AppShell is shown; its hook connects.
MountShell ==
  /\ Move /\ "shell" \notin mounted
  /\ mounted' = mounted \cup {"shell"}
  /\ Connects("shell", socket)
  /\ UNCHANGED <<retryTimer, outbox, tracked, ghosts, drops, visits>>

\* The page's hook connects, then its effect subscribes: the socket is not open
\* yet, so the message is queued.
MountPage ==
  /\ Move /\ "shell" \in mounted /\ "page" \notin mounted
  /\ mounted' = mounted \cup {"page"}
  /\ Connects("page", socket)
  /\ outbox' = [outbox EXCEPT !["page"] = PageFeeds]
  /\ visits' = visits + 1
  /\ UNCHANGED <<retryTimer, tracked, ghosts, drops>>

\* Cleanup of the hooks H: timers cleared, sockets closed. A socket closed while
\* it connects still reports an error.
Unmount(H) ==
  /\ mounted' = mounted \ H
  /\ retryTimer' = retryTimer \ H
  /\ ghosts' = ghosts + Cardinality({h \in H : socket[h] = "connecting"})
  /\ socket' = [h \in Hooks |-> IF h \in H THEN "none" ELSE socket[h]]
  /\ subscribed' = [h \in Hooks |-> IF h \in H THEN {} ELSE subscribed[h]]
  /\ outbox' = [h \in Hooks |-> IF h \in H THEN {} ELSE outbox[h]]
  /\ UNCHANGED <<tracked, wsStatus, drops, visits>>

LeavePage == Move /\ "page" \in mounted /\ Unmount({"page"})
LeaveShell == Move /\ "shell" \in mounted /\ Unmount(mounted)

OpenForgetsTracked(h) ==
  /\ socket[h] = "connecting"
  /\ socket' = [socket EXCEPT ![h] = "open"]
  /\ wsStatus' = "connected"
  /\ subscribed' = [subscribed EXCEPT ![h] = outbox[h]]
  /\ outbox' = [outbox EXCEPT ![h] = {}]
  /\ UNCHANGED <<mounted, retryTimer, tracked, ghosts, drops, moves, visits>>

\* onopen: the queue is flushed, what is tracked is subscribed to.
SocketOpens(h) ==
  /\ socket[h] = "connecting"
  /\ socket' = [socket EXCEPT ![h] = "open"]
  /\ wsStatus' = "connected"
  /\ subscribed' = [subscribed EXCEPT ![h] = outbox[h] \cup tracked]
  /\ outbox' = [outbox EXCEPT ![h] = {}]
  /\ UNCHANGED <<mounted, retryTimer, tracked, ghosts, drops, moves, visits>>

DropsUnlessOpen(h) ==
  /\ drops < MaxDrops /\ drops' = drops + 1
  /\ socket[h] \in {"connecting", "open"}
  /\ socket' = [socket EXCEPT ![h] = "closed"]
  /\ subscribed' = [subscribed EXCEPT ![h] = {}]
  /\ wsStatus' = "disconnected"
  /\ retryTimer' = IF socket[h] = "open" THEN retryTimer \cup {h} ELSE retryTimer
  /\ UNCHANGED <<mounted, outbox, tracked, ghosts, moves, visits>>

DropsQuietly(h) ==
  /\ drops < MaxDrops /\ drops' = drops + 1
  /\ socket[h] \in {"connecting", "open"}
  /\ socket' = [socket EXCEPT ![h] = "closed"]
  /\ subscribed' = [subscribed EXCEPT ![h] = {}]
  /\ retryTimer' = retryTimer \cup {h}
  /\ UNCHANGED <<mounted, outbox, tracked, wsStatus, ghosts, moves, visits>>

\* onerror if any, then onclose: a retry is scheduled after the backoff.
SocketCloses(h) ==
  /\ drops < MaxDrops /\ drops' = drops + 1
  /\ socket[h] \in {"connecting", "open"}
  /\ socket' = [socket EXCEPT ![h] = "closed"]
  /\ subscribed' = [subscribed EXCEPT ![h] = {}]
  /\ wsStatus' = "disconnected"
  /\ retryTimer' = retryTimer \cup {h}
  /\ UNCHANGED <<mounted, outbox, tracked, ghosts, moves, visits>>

\* onerror does not ask whether its hook is still mounted; onclose does.
GhostError ==
  /\ ghosts > 0 /\ ghosts' = ghosts - 1
  /\ wsStatus' = "error"
  /\ UNCHANGED <<mounted, socket, retryTimer, outbox, subscribed, tracked, drops,
                 moves, visits>>

Retry(h) ==
  /\ h \in retryTimer
  /\ retryTimer' = retryTimer \ {h}
  /\ Connects(h, socket)
  /\ UNCHANGED <<mounted, outbox, tracked, ghosts, drops, moves, visits>>

\* The selected symbol, the active watchlist or the holdings change: every open
\* socket subscribes to what is tracked now; nobody unsubscribes.
Track(S) ==
  /\ Move /\ mounted # {} /\ S # tracked
  /\ tracked' = S
  /\ subscribed' = [h \in Hooks |-> IF socket[h] = "open" THEN subscribed[h] \cup S
                                    ELSE subscribed[h]]
  /\ UNCHANGED <<mounted, socket, retryTimer, outbox, wsStatus, ghosts, drops,
                 visits>>
-----------------------------------------------------------------------------
Network == \E h \in Hooks : SocketOpens(h) \/ SocketCloses(h) \/ Retry(h)

SocketNext ==
  \/ MountShell \/ MountPage \/ LeavePage \/ LeaveShell
  \/ Network \/ GhostError
  \/ \E S \in SUBSET Feeds : Track(S)

SocketSpec ==
  SocketInit /\ [][SocketNext]_socketVars /\ WF_socketVars(Network)
-----------------------------------------------------------------------------
(* Properties *)

\* Whatever was selected, watched or bought while the socket was connecting,
\* waiting for a retry or open, an open socket has asked for all of it.
TrackedIsSubscribed ==
  \A h \in Hooks : socket[h] = "open" => tracked \subseteq subscribed[h]

\* As long as only AppShell has used the hook, "connected" means that its socket
\* is open: useLivePortfolio stops polling on that word. (With the page's socket
\* the word may be wrong either way.)
StatusIsTheShells ==
  visits = 0 /\ ghosts = 0 /\ "shell" \in mounted /\ wsStatus = "connected" => socket["shell"] = "open"

\* A signed-in user whose connection broke is connected again, once the network
\* stays up: no order of errors, retries and page visits leaves the hook without
\* a socket and without a timer.
FeedRecovers == []<>("shell" \in mounted => socket["shell"] = "open")

\* useCommodityStore.js:32-33: "Called once on page mount. After that, WebSocket
\* ticks take over."
PageFeedsArrive == socket["page"] = "open" => PageFeeds \subseteq subscribed["page"]
=============================================================================
