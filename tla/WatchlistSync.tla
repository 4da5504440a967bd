------------------------------ MODULE WatchlistSync ------------------------------
(***************************************************************************)
(* The watchlists of the browser (stores/useWatchlistStore.js): edits are       *)
(* shown and kept in localStorage at once and sent to the server, which may    *)
(* refuse them, and a load replaces everything with what the server or         *)
(* localStorage had.                                                         *)
(***************************************************************************)
EXTENDS Integers, FiniteSets, SequencesExt

CONSTANTS Listed,      \* the companies, by symbol key
          NoStock,
          MaxEdits,    \* bound: edits of the user
          MaxMounts    \* bound: visits to the trading workspace

ASSUME ListsAssumption == Listed # {} /\ MaxEdits \in Nat /\ MaxMounts \in Nat

VARIABLES watchlists, activeId, isLoading,
          kept,        \* localStorage: the lists and the active one
          shelves,     \* the lists in the database
          requests,    \* what the server has to answer
          sole,        \* the id of a request that no other has overlapped
          clean,       \* no late load and no lost answer since the last load
          nextId, edits, mounts

listVars == <<watchlists, activeId, isLoading, kept, shelves, requests, sole, clean, nextId,
              edits, mounts>>

NoList == 0
LocalList == 1   \* an id that starts with local_
Item == [id : Nat, stock : Listed, saved : BOOLEAN]
ListIds(ls) == {ls[k].id : k \in DOMAIN ls}
Items(ls, l) == UNION {ls[k].items : k \in {j \in DOMAIN ls : ls[j].id = l}}
StocksOf(items) == {i.stock : i \in items}

Put(ls, l, i) ==
  [k \in DOMAIN ls |-> IF ls[k].id = l THEN [ls[k] EXCEPT !.items = @ \cup {i}] ELSE ls[k]]
Take(ls, l, i) ==
  [k \in DOMAIN ls |-> IF ls[k].id = l THEN [ls[k] EXCEPT !.items = @ \ {i}] ELSE ls[k]]
\* Ids are unique.
Without(ls, l) == RemoveAt(ls, CHOOSE k \in DOMAIN ls : ls[k].id = l)

\* The active list after a load: the one of localStorage if it is still there.
NextActive(ls, a) == IF a \in ListIds(ls) THEN a ELSE ls[1].id

ListsInit ==
  /\ watchlists = <<>> /\ activeId = NoList /\ isLoading = FALSE
  /\ \/ shelves = <<>> /\ kept = [lists |-> <<>>, active |-> NoList]
     \/ /\ LET s == CHOOSE t \in Listed : TRUE
            IN shelves = <<[id |-> 2, items |-> {}],
                           [id |-> 3, items |-> {[id |-> 0, stock |-> s, saved |-> TRUE]}]>>
        /\ kept \in [lists : {shelves}, active : {2, 3}]
  /\ requests = {} /\ sole = {} /\ clean = TRUE /\ nextId = 4 /\ edits = 0 /\ mounts = 0
-----------------------------------------------------------------------------
(* Requests *)

\* An edit of list l; what the panel showed goes with it where a refusal needs it.
Ask(op, l, item, shot, was) ==
  [id |-> nextId, op |-> op, list |-> l, stock |-> NoStock, item |-> item, shot |-> shot,
   was |-> was, cached |-> FALSE]

\* r is sent while the requests of rest wait.
SendTo(rest, r) ==
  /\ requests' = rest \cup {r} /\ sole' = IF rest = {} THEN {r.id} ELSE {}
  /\ clean' = (clean /\ \A q \in rest : "load" \notin {q.op, r.op})
  /\ nextId' = nextId + 1

\* Everything else that an edit leaves alone.
Edited == edits < MaxEdits /\ edits' = edits + 1 /\ UNCHANGED <<shelves, mounts>>

PersistToStorage == kept' = [lists |-> watchlists', active |-> activeId']
-----------------------------------------------------------------------------
(* Loading *)

\* What localStorage has is shown; the server is asked, for an item to add next
\* if stock is one.
LoadWatchlist(rest, stock) ==
  LET has == kept.lists # <<>>
  IN /\ isLoading' = TRUE
     /\ watchlists' = IF has THEN kept.lists ELSE watchlists
     /\ activeId' = IF has THEN NextActive(kept.lists, kept.active) ELSE activeId
     /\ SendTo(rest, [id |-> nextId, op |-> "load", list |-> NoList, stock |-> stock, item |-> {},
                      shot |-> <<>>, was |-> kept.active, cached |-> has])

\* A visit comes before the edits (a bound: a renaming that is refused loads too).
Mount ==
  /\ mounts < MaxMounts /\ mounts' = mounts + 1 /\ edits = 0
  /\ LoadWatchlist(requests, NoStock)
  /\ UNCHANGED <<kept, shelves, edits>>

\* GET /watchlist: the server makes a list where there is none.
LoadServed ==
  \E r \in requests :
    /\ r.op = "load" /\ r.shot = <<>>
    /\ shelves' = IF shelves = <<>> THEN <<[id |-> nextId, items |-> {}]>> ELSE shelves
    /\ nextId' = IF shelves = <<>> THEN nextId + 1 ELSE nextId
    /\ requests' = (requests \ {r}) \cup {[r EXCEPT !.shot = shelves']}
    /\ UNCHANGED <<watchlists, activeId, isLoading, kept, sole, clean, edits, mounts>>

\* addItem, into list l of ls: the temporary item is shown and kept before the
\* server is asked; a list of this browser has no server to ask.
AddTo(ls, l, stock, rest) ==
  LET temp == [id |-> nextId, stock |-> stock, saved |-> FALSE]
  IN /\ watchlists' = Put(ls, l, temp) /\ activeId' = l
     /\ PersistToStorage
     /\ IF l = LocalList
        THEN /\ requests' = rest /\ nextId' = nextId + 1 /\ UNCHANGED <<sole, clean>>
        ELSE SendTo(rest, Ask("add", l, {temp}, <<>>, NoList))

\* The server's lists replace all that is shown, and the active list is the one
\* localStorage had when the load began.
LoadAnswered ==
  \E r \in requests :
    LET ls == r.shot
        l == NextActive(ls, r.was)
    IN /\ r.op = "load" /\ ls # <<>>
       /\ isLoading' = FALSE
       /\ IF r.stock = NoStock \/ r.stock \in StocksOf(Items(ls, l))
          THEN /\ watchlists' = ls /\ activeId' = l /\ PersistToStorage
               /\ requests' = requests \ {r} /\ sole' = {} /\ clean' = (r.id \in sole)
               /\ UNCHANGED <<nextId>>
          ELSE AddTo(ls, l, r.stock, requests \ {r})
       /\ UNCHANGED <<shelves, edits, mounts>>

\* Without a copy in localStorage a list of this browser is made; the item to add
\* goes into the active list, if there is one.
LoadFailed ==
  \E r \in requests :
    LET ls == IF r.cached THEN watchlists
              ELSE <<[id |-> LocalList, items |-> {}]>>
        l == IF r.cached THEN activeId ELSE LocalList
    IN /\ r.op = "load" /\ isLoading' = FALSE
       /\ IF r.stock = NoStock \/ l \notin ListIds(ls) \/ r.stock \in StocksOf(Items(ls, l))
          THEN /\ watchlists' = ls /\ activeId' = l
               /\ kept' = IF r.cached THEN kept ELSE [lists |-> ls, active |-> l]
               /\ requests' = requests \ {r} /\ sole' = {} /\ clean' = FALSE
               /\ UNCHANGED <<nextId>>
          ELSE AddTo(ls, l, r.stock, requests \ {r})
       /\ UNCHANGED <<shelves, edits, mounts>>
-----------------------------------------------------------------------------
(* The operations of the store *)

SetActiveWatchlist(l) ==
  /\ activeId' = l
  /\ UNCHANGED <<watchlists, isLoading, shelves, requests, sole, clean, nextId, edits, mounts>>
  /\ PersistToStorage

CreateWatchlist ==
  /\ Edited /\ SendTo(requests, Ask("create", NoList, {}, <<>>, NoList))
  /\ UNCHANGED <<watchlists, activeId, isLoading, kept>>

\* The name, which is not kept here, is shown at once.
RenameWatchlist(l) ==
  /\ Edited /\ UNCHANGED <<watchlists, activeId, isLoading>>
  /\ IF l = LocalList THEN PersistToStorage /\ UNCHANGED <<requests, sole, clean, nextId>>
     ELSE SendTo(requests, Ask("rename", l, {}, <<>>, NoList)) /\ UNCHANGED kept

\* The last list stays; the first of the others becomes active.
Deleted(l) ==
  /\ watchlists' = Without(watchlists, l)
  /\ IF l = LocalList THEN PersistToStorage /\ UNCHANGED <<requests, sole, clean, nextId>>
     ELSE /\ SendTo(requests, Ask("delete", l, {}, watchlists, activeId))
          /\ UNCHANGED kept
DeleteKeepsActive(l) ==
  /\ Edited /\ Len(watchlists) > 1
  /\ UNCHANGED <<activeId, isLoading>> /\ Deleted(l)
DeleteWatchlist(l) ==
  /\ Edited /\ Len(watchlists) > 1
  /\ activeId' = IF activeId = l THEN Without(watchlists, l)[1].id ELSE activeId
  /\ UNCHANGED isLoading /\ Deleted(l)

\* addItem: with no list a load comes first; a company that is there is not added again.
AddItem(stock) ==
  /\ Edited
  /\ IF watchlists = <<>> \/ activeId = NoList
     THEN LoadWatchlist(requests, stock) /\ UNCHANGED <<kept>>
     ELSE /\ activeId \in ListIds(watchlists)
          /\ stock \notin StocksOf(Items(watchlists, activeId))
          /\ AddTo(watchlists, activeId, stock, requests) /\ UNCHANGED isLoading

\* removeItem: the lists as they were are put back if the server refuses.
RemoveItem(i) ==
  /\ Edited
  /\ watchlists' = Take(watchlists, activeId, i) /\ UNCHANGED activeId
  /\ IF activeId = LocalList THEN UNCHANGED <<requests, sole, clean, nextId>>
     ELSE SendTo(requests, Ask("remove", activeId, {i}, watchlists, activeId))
  /\ PersistToStorage /\ UNCHANGED <<isLoading>>

\* The order of the items is not kept here.
ReorderItems ==
  /\ UNCHANGED <<watchlists, activeId, isLoading, shelves, requests, sole, clean, nextId, edits,
                 mounts>>
  /\ PersistToStorage
-----------------------------------------------------------------------------
(* The controls of the panel *)

SelectTab == \E l \in ListIds(watchlists) \ {activeId} : SetActiveWatchlist(l)
SubmitCreate == CreateWatchlist
CommitRename == \E l \in ListIds(watchlists) : RenameWatchlist(l)
PressDelete == \E l \in ListIds(watchlists) : DeleteWatchlist(l)
\* A dragged row is dropped on another, not while the skeleton shows.
DropRow == ~isLoading /\ Cardinality(Items(watchlists, activeId)) > 1 /\ ReorderItems

\* The dialog offers what a search found and the list lacks; a row removes itself;
\* the star of the chart and of the search does the one or the other.
IsAdded(stock) == stock \in StocksOf(Items(watchlists, activeId))
AddFromDialog == \E stock \in Listed : ~IsAdded(stock) /\ AddItem(stock)
RemoveRow == \E i \in Items(watchlists, activeId) : RemoveItem(i)
ToggleStar ==
  \E stock \in Listed :
    IF IsAdded(stock)
    THEN RemoveItem(CHOOSE i \in Items(watchlists, activeId) : i.stock = stock)
    ELSE AddItem(stock)
-----------------------------------------------------------------------------
(* What the server answers to an edit *)

\* The server knows lists and items by ids of its own.
Accepts(r) ==
  \/ r.op = "create"
  \/ r.op \in {"rename", "delete"} /\ r.list \in ListIds(shelves)
  \/ /\ r.op = "add" /\ r.list \in ListIds(shelves)
     /\ StocksOf(r.item) \cap StocksOf(Items(shelves, r.list)) = {}
  \/ r.op = "remove" /\ r.item \subseteq Items(shelves, r.list)

Saved(r) == CHOOSE i \in [id : {r.id}, stock : StocksOf(r.item), saved : {TRUE}] : TRUE
Created(r) == [id |-> r.id, items |-> {}]

Effect(r) ==
  CASE r.op = "create" -> Append(shelves, Created(r))
    [] r.op = "rename" -> shelves
    [] r.op = "delete" -> Without(shelves, r.list)
    [] r.op = "add"    -> Put(shelves, r.list, Saved(r))
    [] r.op = "remove" -> Take(shelves, r.list, CHOOSE i \in r.item : TRUE)

\* The temporary item becomes the server's, where it still is shown.
SwappedWhereActive(r) ==
  IF ~(r.item \subseteq Items(watchlists, activeId)) THEN watchlists
  ELSE Put(Take(watchlists, activeId, CHOOSE i \in r.item : TRUE), activeId, Saved(r))
Swapped(r) ==
  IF ~(r.item \subseteq Items(watchlists, r.list)) THEN watchlists
  ELSE Put(Take(watchlists, r.list, CHOOSE i \in r.item : TRUE), r.list, Saved(r))

\* A deletion keeps the lists that remained when it was sent.
EditAnswered ==
  \E r \in requests :
    /\ r.op # "load" /\ Accepts(r)
    /\ shelves' = Effect(r) /\ requests' = requests \ {r} /\ sole' = {}
    /\ watchlists' = CASE r.op = "create" -> Append(watchlists, Created(r))
                       [] r.op = "add" -> Swapped(r)
                       [] OTHER -> watchlists
    /\ activeId' = IF r.op = "create" THEN r.id ELSE activeId
    /\ CASE r.op = "delete" ->
              kept' = [lists |-> Without(r.shot, r.list),
                       active |-> IF r.was = r.list THEN Without(r.shot, r.list)[1].id ELSE r.was]
         [] r.op = "remove" -> UNCHANGED kept
         [] OTHER -> PersistToStorage
    /\ UNCHANGED <<isLoading, clean, nextId, edits, mounts>>

\* Refused, or done by the server although its answer is lost: the edit is undone
\* in the browser, each kind in its own way.
EditFails ==
  \E r \in requests, done \in BOOLEAN :
    /\ r.op # "load" /\ (done => Accepts(r))
    /\ shelves' = IF done THEN Effect(r) ELSE shelves
    /\ UNCHANGED <<edits, mounts>>
    /\ IF r.op = "rename" THEN LoadWatchlist(requests \ {r}, NoStock) /\ UNCHANGED kept
       ELSE /\ requests' = requests \ {r} /\ sole' = {}
            /\ clean' = (clean /\ r.id \in sole /\ ~done)
            /\ UNCHANGED <<isLoading, nextId>>
            /\ CASE r.op = "create" -> UNCHANGED <<watchlists, activeId, kept>>
                 [] r.op = "delete" ->
                      watchlists' = r.shot /\ activeId' = r.was /\ UNCHANGED kept
                 [] r.op = "add" ->
                      /\ watchlists' = Take(watchlists, r.list, CHOOSE i \in r.item : TRUE)
                      /\ UNCHANGED activeId /\ PersistToStorage
                 [] r.op = "remove" ->
                      /\ watchlists' = r.shot /\ UNCHANGED activeId
                      /\ kept' = [lists |-> r.shot, active |-> r.was]

ListsNext ==
  \/ Mount \/ LoadServed \/ LoadAnswered \/ LoadFailed
  \/ SelectTab \/ SubmitCreate \/ CommitRename \/ PressDelete \/ DropRow
  \/ AddFromDialog \/ RemoveRow \/ ToggleStar \/ EditAnswered \/ EditFails

ListsSpec == ListsInit /\ [][ListsNext]_listVars
-----------------------------------------------------------------------------
Lists == Seq([id : Nat, items : SUBSET Item])

ListsTypeOK ==
  /\ watchlists \in Lists /\ shelves \in Lists /\ kept \in [lists : Lists, active : Nat]
  /\ activeId \in Nat /\ nextId \in Nat /\ edits \in 0 .. MaxEdits /\ mounts \in 0 .. MaxMounts
  /\ {isLoading, clean} \subseteq BOOLEAN
  /\ \A r \in requests : r.op \in {"load", "create", "rename", "delete", "add", "remove"}

\* Edits that overlapped each other, and an edit that was refused alone, leave the
\* browser with the lists of the server once all is answered
\* (useWatchlistStore.js:241-470).
EditsReachServer ==
  clean /\ requests = {} /\ mounts > 0 =>
    /\ ListIds(watchlists) = ListIds(shelves)
    /\ \A l \in ListIds(shelves) : Items(watchlists, l) = Items(shelves, l)

\* The active list is one of the lists, unless a refusal has put back what was
\* there before: the lists before a removal, or, with a deletion, an active list
\* that was lost already when it was pressed (useWatchlistStore.js:329-354, 465).
\* A deletion that is granted, a load or a late answer never leaves the panel
\* without one.
OnlyRemovalsLoseActive ==
  [][(activeId \in ListIds(watchlists) /\ activeId' \notin ListIds(watchlists')) =>
       \/ "remove" \in {r.op : r \in requests \ requests'}
       \/ \E r \in requests \ requests' :
            r.op = "delete" /\ r.was \notin ListIds(r.shot)]_listVars
=============================================================================
