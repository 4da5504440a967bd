---------------------------- MODULE WatchlistProofs ----------------------------
(***************************************************************************)
(* The watchlists of the browser, for any companies, any number of lists,  *)
(* edits, visits and requests, in any order of their answers and with any  *)
(* of them refused or lost: what is shown is what the server has once all  *)
(* is answered (EditsReachTheServer), and only what a refusal puts back    *)
(* leaves the panel without an active list (OnlyRefusalsLoseActive).       *)
(*                                                                         *)
(* Then the types of the other panels that poll or ask for lists: prices,  *)
(* administration, futures, options and ZeroLoss (used by BrowserTyped).   *)
(***************************************************************************)
EXTENDS WatchlistSync, WatchlistPrices, AdminConsole, OptionsDesk, ZeroLossPanel, FuturesContracts,
        SequenceTheorems, FiniteSetTheorems, TLAPS

(***************************************************************************)
(* The lists of the panel and of the server.                               *)
(***************************************************************************)
Distinct(ls) == \A i, j \in DOMAIN ls : ls[i].id = ls[j].id => i = j

LEMMA ListsAre ==
  ASSUME NEW ls \in Lists
  PROVE  /\ Len(ls) \in Nat /\ DOMAIN ls = 1 .. Len(ls)
         /\ ls = <<>> <=> Len(ls) = 0
         /\ \A k \in DOMAIN ls : /\ ls[k] = [id |-> ls[k].id, items |-> ls[k].items]
                                 /\ ls[k].id \in Nat /\ ls[k].items \subseteq Item
<1>1. ls \in Seq([id : Nat, items : SUBSET Item])
  BY DEF Lists
<1>2. Len(ls) \in Nat /\ DOMAIN ls = 1 .. Len(ls) /\ (ls = <<>> <=> Len(ls) = 0)
  BY <1>1, EmptySeq, LenProperties
<1>3. \A k \in DOMAIN ls : ls[k] \in [id : Nat, items : SUBSET Item]
  BY <1>1, ElementOfSeq, <1>2
<1> QED
  BY <1>2, <1>3

\* A function on an initial part of the numbers is such a sequence.
LEMMA ListsMade ==
  ASSUME NEW n \in Nat, NEW f, f = [k \in 1 .. n |-> f[k]],
         \A k \in 1 .. n : f[k] \in [id : Nat, items : SUBSET Item]
  PROVE  f \in Lists /\ Len(f) = n
<1>1. f \in [1 .. n -> [id : Nat, items : SUBSET Item]]
  OBVIOUS
<1>2. f \in Seq([id : Nat, items : SUBSET Item])
  BY <1>1, SeqDef
<1> QED
  BY <1>1, <1>2, LenProperties DEF Lists

LEMMA ItemsAre ==
  \A ls, l, i : i \in Items(ls, l) <=> \E k \in DOMAIN ls : ls[k].id = l /\ i \in ls[k].items
  BY DEF Items

LEMMA IdsAre ==
  \A ls, l : l \in ListIds(ls) <=> \E k \in DOMAIN ls : ls[k].id = l
  BY DEF ListIds

LEMMA ItemsTyped ==
  ASSUME NEW ls \in Lists
  PROVE  /\ ListIds(ls) \subseteq Nat
         /\ \A l : Items(ls, l) \subseteq Item
         /\ \A l : l \notin ListIds(ls) => Items(ls, l) = {}
         /\ ls # <<>> => ls[1].id \in ListIds(ls)
<1>1. ListIds(ls) \subseteq Nat /\ \A l : Items(ls, l) \subseteq Item
  BY ListsAre, ItemsAre, IdsAre
<1>2. ASSUME NEW l, l \notin ListIds(ls) PROVE Items(ls, l) = {}
  BY <1>2, ItemsAre, IdsAre
<1>3. ls # <<>> => 1 \in DOMAIN ls
  BY ListsAre
<1> QED
  BY <1>1, <1>2, <1>3, IdsAre

\* Of the active list after a load there is one.
LEMMA NextActiveIsThere ==
  ASSUME NEW ls \in Lists, ls # <<>>, NEW a
  PROVE  NextActive(ls, a) \in ListIds(ls)
  BY ItemsTyped DEF NextActive

\* Lists of the same names whose items are related in the same way.
LEMMA SameNames ==
  ASSUME NEW ls, NEW ms, DOMAIN ms = DOMAIN ls, \A k \in DOMAIN ls : ms[k].id = ls[k].id
  PROVE  /\ ListIds(ms) = ListIds(ls)
         /\ Distinct(ls) => Distinct(ms)
         /\ \A l : (\A k \in DOMAIN ls : ls[k].id = l => ms[k].items = ls[k].items)
                 => Items(ms, l) = Items(ls, l)
<1>1. \A l : l \in ListIds(ms) <=> l \in ListIds(ls)
  BY IdsAre
<1>2. ListIds(ms) = ListIds(ls)
  BY <1>1
<1>3. ASSUME NEW l, \A k \in DOMAIN ls : ls[k].id = l => ms[k].items = ls[k].items
      PROVE  Items(ms, l) = Items(ls, l)
  <2>1. \A i : i \in Items(ms, l) <=> i \in Items(ls, l)
    BY <1>3, ItemsAre
  <2> QED
    BY <2>1
<1> QED
  BY <1>2, <1>3 DEF Distinct

\* An item that is put into a list is in it, and nothing else changes.
LEMMA PutItem ==
  ASSUME NEW ls \in Lists, NEW l, NEW i \in Item
  PROVE  /\ Put(ls, l, i) \in Lists /\ Len(Put(ls, l, i)) = Len(ls)
         /\ ListIds(Put(ls, l, i)) = ListIds(ls)
         /\ Distinct(ls) => Distinct(Put(ls, l, i))
         /\ \A m : m # l => Items(Put(ls, l, i), m) = Items(ls, m)
         /\ l \in ListIds(ls) => Items(Put(ls, l, i), l) = Items(ls, l) \cup {i}
         /\ l \notin ListIds(ls) => Items(Put(ls, l, i), l) = Items(ls, l)
<1> DEFINE new == Put(ls, l, i)
           n == Len(ls)
<1>1. /\ n \in Nat /\ DOMAIN ls = 1 .. n
      /\ \A k \in 1 .. n : /\ ls[k] = [id |-> ls[k].id, items |-> ls[k].items]
                           /\ ls[k].id \in Nat /\ ls[k].items \subseteq Item
  BY ListsAre
<1>a. new = [k \in 1 .. n |-> IF ls[k].id = l THEN [ls[k] EXCEPT !.items = ls[k].items \cup {i}]
                              ELSE ls[k]]
  BY <1>1 DEF Put
<1>2. DOMAIN new = 1 .. n /\ new = [k \in 1 .. n |-> new[k]]
  BY <1>a
<1>3. ASSUME NEW k \in 1 .. n
      PROVE  /\ new[k].id = ls[k].id
             /\ ls[k].id = l => new[k].items = ls[k].items \cup {i}
             /\ ls[k].id # l => new[k].items = ls[k].items
             /\ new[k] \in [id : Nat, items : SUBSET Item]
  <2>1. CASE ls[k].id = l
    <3>1. new[k] = [id |-> ls[k].id, items |-> ls[k].items \cup {i}]
      BY <1>1, <1>a, <2>1
    <3>2. ls[k].items \cup {i} \in SUBSET Item
      BY <1>1
    <3> HIDE DEF new, n
    <3> QED
      BY <1>1, <2>1, <3>1, <3>2
  <2>2. CASE ls[k].id # l
    <3>1. new[k] = ls[k]
      BY <1>1, <1>a, <2>2
    <3> HIDE DEF new, n
    <3> QED
      BY <1>1, <2>2, <3>1
  <2> QED
    BY <2>1, <2>2
<1> HIDE DEF new, n
<1>7. new \in Lists /\ Len(new) = n
  BY <1>1, <1>2, <1>3, ListsMade
<1>8. ListIds(new) = ListIds(ls) /\ (Distinct(ls) => Distinct(new))
  BY <1>1, <1>2, <1>3, SameNames
<1>10. ASSUME NEW m, m # l \/ l \notin ListIds(ls) PROVE Items(new, m) = Items(ls, m)
  <2>1. \A k \in DOMAIN ls : ls[k].id = m => new[k].items = ls[k].items
    BY <1>1, <1>3, <1>10, IdsAre
  <2>2. DOMAIN new = DOMAIN ls /\ \A k \in DOMAIN ls : new[k].id = ls[k].id
    BY <1>1, <1>2, <1>3
  <2> QED
    BY <2>1, <2>2, SameNames
<1>11. ASSUME l \in ListIds(ls) PROVE Items(new, l) = Items(ls, l) \cup {i}
  <2>1. PICK j \in 1 .. n : ls[j].id = l
    BY <1>1, <1>11, IdsAre
  <2>2. i \in Items(new, l)
    <3>1. new[j].id = l /\ i \in new[j].items
      BY <1>3, <2>1
    <3> QED
      BY <1>2, <3>1, ItemsAre
  <2>3. ASSUME NEW x \in Items(new, l) PROVE x \in Items(ls, l) \cup {i}
    <3>1. PICK h \in DOMAIN new : new[h].id = l /\ x \in new[h].items
      BY ItemsAre
    <3>2. h \in 1 .. n /\ ls[h].id = l /\ x \in ls[h].items \cup {i}
      BY <1>2, <1>3, <3>1
    <3> QED
      BY <1>1, <3>2, ItemsAre
  <2>4. ASSUME NEW x \in Items(ls, l) PROVE x \in Items(new, l)
    BY <1>1, <1>2, <1>3, ItemsAre
  <2> QED
    BY <2>2, <2>3, <2>4
<1> QED
  BY <1>7, <1>8, <1>10, <1>11 DEF new, n

\* An item that is taken out of a list is gone from it, and nothing else changes.
LEMMA TakeItem ==
  ASSUME NEW ls \in Lists, NEW l, NEW i
  PROVE  /\ Take(ls, l, i) \in Lists /\ Len(Take(ls, l, i)) = Len(ls)
         /\ ListIds(Take(ls, l, i)) = ListIds(ls)
         /\ Distinct(ls) => Distinct(Take(ls, l, i))
         /\ \A m : m # l => Items(Take(ls, l, i), m) = Items(ls, m)
         /\ Items(Take(ls, l, i), l) = Items(ls, l) \ {i}
<1> DEFINE new == Take(ls, l, i)
           n == Len(ls)
<1>1. /\ n \in Nat /\ DOMAIN ls = 1 .. n
      /\ \A k \in 1 .. n : /\ ls[k] = [id |-> ls[k].id, items |-> ls[k].items]
                           /\ ls[k].id \in Nat /\ ls[k].items \subseteq Item
  BY ListsAre
<1>a. new = [k \in 1 .. n |-> IF ls[k].id = l THEN [ls[k] EXCEPT !.items = ls[k].items \ {i}]
                              ELSE ls[k]]
  BY <1>1 DEF Take
<1>2. DOMAIN new = 1 .. n /\ new = [k \in 1 .. n |-> new[k]]
  BY <1>a
<1>3. ASSUME NEW k \in 1 .. n
      PROVE  /\ new[k].id = ls[k].id
             /\ ls[k].id = l => new[k].items = ls[k].items \ {i}
             /\ ls[k].id # l => new[k].items = ls[k].items
             /\ new[k] \in [id : Nat, items : SUBSET Item]
  <2>1. CASE ls[k].id = l
    <3>1. new[k] = [id |-> ls[k].id, items |-> ls[k].items \ {i}]
      BY <1>1, <1>a, <2>1
    <3>2. ls[k].items \ {i} \in SUBSET Item
      BY <1>1
    <3> HIDE DEF new, n
    <3> QED
      BY <1>1, <2>1, <3>1, <3>2
  <2>2. CASE ls[k].id # l
    <3>1. new[k] = ls[k]
      BY <1>1, <1>a, <2>2
    <3> HIDE DEF new, n
    <3> QED
      BY <1>1, <2>2, <3>1
  <2> QED
    BY <2>1, <2>2
<1> HIDE DEF new, n
<1>7. new \in Lists /\ Len(new) = n
  BY <1>1, <1>2, <1>3, ListsMade
<1>8. ListIds(new) = ListIds(ls) /\ (Distinct(ls) => Distinct(new))
  BY <1>1, <1>2, <1>3, SameNames
<1>10. ASSUME NEW m, m # l PROVE Items(new, m) = Items(ls, m)
  <2>1. \A k \in DOMAIN ls : ls[k].id = m => new[k].items = ls[k].items
    BY <1>1, <1>3, <1>10
  <2>2. DOMAIN new = DOMAIN ls /\ \A k \in DOMAIN ls : new[k].id = ls[k].id
    BY <1>1, <1>2, <1>3
  <2> QED
    BY <2>1, <2>2, SameNames
<1>11. Items(new, l) = Items(ls, l) \ {i}
  <2>1. \A x : x \in Items(new, l) <=> x \in Items(ls, l) /\ x # i
    BY <1>1, <1>2, <1>3, ItemsAre
  <2> QED
    BY <2>1
<1> QED
  BY <1>7, <1>8, <1>10, <1>11 DEF new, n

\* Without one of its lists a panel has the others.
LEMMA WithoutList ==
  ASSUME NEW ls \in Lists, NEW l \in ListIds(ls)
  PROVE  /\ Without(ls, l) \in Lists /\ Len(Without(ls, l)) = Len(ls) - 1
         /\ ListIds(ls) \ {l} \subseteq ListIds(Without(ls, l))
         /\ ListIds(Without(ls, l)) \subseteq ListIds(ls)
         /\ Distinct(ls) =>
              /\ Distinct(Without(ls, l)) /\ ListIds(Without(ls, l)) = ListIds(ls) \ {l}
              /\ \A m : m # l => Items(Without(ls, l), m) = Items(ls, m)
<1> DEFINE new == Without(ls, l)
           n == Len(ls)
           k == CHOOSE j \in DOMAIN ls : ls[j].id = l
           LS == [id : Nat, items : SUBSET Item]
<1>1. /\ n \in Nat /\ DOMAIN ls = 1 .. n
      /\ \A j \in 1 .. n : ls[j] \in LS
  BY ListsAre
<1>2. k \in 1 .. n /\ ls[k].id = l
  BY <1>1, IdsAre
<1>3. new = SubSeq(ls, 1, k - 1) \o SubSeq(ls, k + 1, n)
  BY DEF Without, RemoveAt
<1> HIDE DEF k, n, LS, new
<1> DEFINE front == SubSeq(ls, 1, k - 1)
           back == SubSeq(ls, k + 1, n)
<1>5. /\ front \in Seq(LS) /\ Len(front) = k - 1 /\ \A j \in 1 .. k - 1 : front[j] = ls[j]
  <2>1. \A j \in 1 .. k - 1 : ls[j] \in LS
    BY <1>1, <1>2
  <2>2. /\ front \in Seq(LS)
        /\ Len(front) = IF 1 <= k - 1 THEN k - 1 - 1 + 1 ELSE 0
        /\ \A j \in 1 .. k - 1 - 1 + 1 : front[j] = ls[1 + j - 1]
    BY <1>2, <2>1, SubSeqProperties
  <2> HIDE DEF front
  <2>3. k - 1 - 1 + 1 = k - 1 /\ \A j \in 1 .. k - 1 : 1 + j - 1 = j
    BY <1>2
  <2> QED
    BY <1>2, <2>2, <2>3
<1>6. /\ back \in Seq(LS) /\ Len(back) = n - k /\ \A j \in 1 .. n - k : back[j] = ls[k + j]
  <2>1. \A j \in k + 1 .. n : ls[j] \in LS
    BY <1>1, <1>2
  <2>2. /\ back \in Seq(LS)
        /\ Len(back) = IF k + 1 <= n THEN n - (k + 1) + 1 ELSE 0
        /\ \A j \in 1 .. n - (k + 1) + 1 : back[j] = ls[k + 1 + j - 1]
    BY <1>1, <1>2, <2>1, SubSeqProperties
  <2> HIDE DEF back
  <2>3. n - (k + 1) + 1 = n - k /\ \A j \in 1 .. n - k : k + 1 + j - 1 = k + j
    BY <1>1, <1>2
  <2> QED
    BY <1>1, <1>2, <2>2, <2>3
<1>7. /\ new \in Seq(LS) /\ Len(new) = n - 1
      /\ \A j \in 1 .. n - 1 : new[j] = IF j < k THEN ls[j] ELSE ls[j + 1]
  <2> HIDE DEF front, back
  <2>1. /\ front \o back \in Seq(LS) /\ Len(front \o back) = (k - 1) + (n - k)
        /\ \A j \in 1 .. (k - 1) + (n - k) :
             (front \o back)[j] = IF j <= k - 1 THEN front[j] ELSE back[j - (k - 1)]
    BY <1>5, <1>6, ConcatProperties
  <2>2. (k - 1) + (n - k) = n - 1
    BY <1>1, <1>2
  <2>3. new = front \o back
    BY <1>3 DEF front, back
  <2>4. ASSUME NEW j \in 1 .. n - 1, j < k PROVE new[j] = ls[j]
    <3>1. j <= k - 1 /\ j \in 1 .. k - 1
      BY <1>1, <1>2, <2>4
    <3> QED
      BY <1>5, <2>1, <2>2, <2>3, <3>1
  <2>5. ASSUME NEW j \in 1 .. n - 1, ~(j < k) PROVE new[j] = ls[j + 1]
    <3>1. ~(j <= k - 1) /\ j - (k - 1) \in 1 .. n - k /\ k + (j - (k - 1)) = j + 1
      BY <1>1, <1>2, <2>5
    <3>2. new[j] = back[j - (k - 1)]
      BY <2>1, <2>2, <2>3, <3>1
    <3>3. back[j - (k - 1)] = ls[k + (j - (k - 1))]
      BY <1>6, <3>1
    <3> QED
      BY <3>1, <3>2, <3>3
  <2> QED
    BY <2>1, <2>2, <2>3, <2>4, <2>5
<1> HIDE DEF front, back
<1>8. new \in Lists /\ DOMAIN new = 1 .. n - 1
  BY <1>7, LenProperties DEF Lists, LS
\* The numbers of the lists in the new panel.
<1>9. ASSUME NEW j \in 1 .. n, j # k
      PROVE  \E h \in 1 .. n - 1 : new[h] = ls[j]
  <2>1. CASE j < k
    <3>1. j \in 1 .. n - 1
      BY <1>1, <1>2, <2>1
    <3> QED
      BY <1>7, <2>1, <3>1
  <2>2. CASE j > k
    <3>1. j - 1 \in 1 .. n - 1 /\ ~(j - 1 < k) /\ j - 1 + 1 = j
      BY <1>1, <1>2, <2>2
    <3>2. new[j - 1] = ls[j]
      BY <1>7, <3>1
    <3> QED
      BY <3>1, <3>2
  <2> QED
    BY <1>2, <1>9, <2>1, <2>2
<1>10. ASSUME NEW h \in 1 .. n - 1
       PROVE  \E j \in 1 .. n : j # k /\ new[h] = ls[j]
  <2>1. CASE h < k
    BY <1>1, <1>2, <1>7, <2>1
  <2>2. CASE ~(h < k)
    <3>1. h + 1 \in 1 .. n /\ h + 1 # k
      BY <1>1, <1>2, <2>2
    <3> QED
      BY <1>7, <2>2, <3>1
  <2> QED
    BY <2>1, <2>2
<1>11. ListIds(ls) \ {l} \subseteq ListIds(new) /\ ListIds(new) \subseteq ListIds(ls)
  <2>1. ASSUME NEW m \in ListIds(ls), m # l PROVE m \in ListIds(new)
    <3>1. PICK j \in 1 .. n : ls[j].id = m
      BY <1>1, IdsAre
    <3>2. j # k
      BY <1>2, <2>1, <3>1
    <3> QED
      BY <1>8, <1>9, <3>1, <3>2, IdsAre
  <2>2. ASSUME NEW m \in ListIds(new) PROVE m \in ListIds(ls)
    BY <1>1, <1>8, <1>10, IdsAre
  <2> QED
    BY <2>1, <2>2
<1>12. ASSUME Distinct(ls)
       PROVE  /\ Distinct(new) /\ ListIds(new) = ListIds(ls) \ {l}
              /\ \A m : m # l => Items(new, m) = Items(ls, m)
  <2>1. \A j \in 1 .. n : ls[j].id = l => j = k
    BY <1>1, <1>2, <1>12 DEF Distinct
  <2>2. l \notin ListIds(new)
    <3>1. ASSUME NEW h \in 1 .. n - 1 PROVE new[h].id # l
      BY <1>10, <2>1
    <3> QED
      BY <1>8, <3>1, IdsAre
  <2>3. ASSUME NEW g \in 1 .. n - 1, NEW h \in 1 .. n - 1, new[g].id = new[h].id PROVE g = h
    <3> DEFINE At(j) == IF j < k THEN j ELSE j + 1
    <3>1. \A j \in 1 .. n - 1 : At(j) \in 1 .. n /\ new[j] = ls[At(j)]
      BY <1>1, <1>2, <1>7
    <3>2. At(g) = At(h)
      <4>1. At(g) \in DOMAIN ls /\ At(h) \in DOMAIN ls /\ ls[At(g)].id = ls[At(h)].id
        BY <1>1, <2>3, <3>1
      <4> HIDE DEF At
      <4> QED
        BY <1>12, <4>1 DEF Distinct
    <3> QED
      BY <1>1, <1>2, <3>2
  <2>4. Distinct(new)
    BY <1>8, <2>3 DEF Distinct
  <2>5. ASSUME NEW m, m # l PROVE Items(new, m) = Items(ls, m)
    <3>1. ASSUME NEW i \in Items(new, m) PROVE i \in Items(ls, m)
      BY <1>1, <1>8, <1>10, ItemsAre
    <3>2. ASSUME NEW i \in Items(ls, m) PROVE i \in Items(new, m)
      <4>1. PICK j \in 1 .. n : ls[j].id = m /\ i \in ls[j].items
        BY <1>1, ItemsAre
      <4>2. j # k
        BY <1>2, <2>5, <4>1
      <4> QED
        BY <1>8, <1>9, <4>1, <4>2, ItemsAre
    <3> QED
      BY <3>1, <3>2
  <2> QED
    BY <1>11, <2>2, <2>4, <2>5
<1> QED
  BY <1>7, <1>8, <1>11, <1>12 DEF new, n

\* A new list is empty.
LEMMA NewList ==
  ASSUME NEW ls \in Lists, NEW r, r.id \in Nat
  PROVE  /\ Append(ls, Created(r)) \in Lists /\ Append(ls, Created(r)) # <<>>
         /\ ListIds(Append(ls, Created(r))) = ListIds(ls) \cup {r.id}
         /\ \A m : Items(Append(ls, Created(r)), m) = Items(ls, m)
         /\ (Distinct(ls) /\ r.id \notin ListIds(ls)) => Distinct(Append(ls, Created(r)))
<1> DEFINE new == Append(ls, Created(r))
           n == Len(ls)
           LS == [id : Nat, items : SUBSET Item]
<1>1. n \in Nat /\ DOMAIN ls = 1 .. n /\ \A j \in 1 .. n : ls[j] \in LS
  BY ListsAre
<1>2. Created(r) \in LS /\ Created(r).id = r.id /\ Created(r).items = {}
  BY DEF Created
<1>3. ls \in Seq(LS)
  BY DEF Lists
<1> HIDE DEF LS, n
<1>4. /\ new \in Seq(LS) /\ new # <<>> /\ Len(new) = n + 1
      /\ \A j \in 1 .. n : new[j] = ls[j]
  BY <1>2, <1>3, AppendProperties DEF n
<1>5. new[n + 1] = Created(r)
  BY <1>2, <1>3, AppendProperties DEF n
<1> HIDE DEF new
<1>6. DOMAIN new = 1 .. n + 1 /\ new \in Lists
  BY <1>4, LenProperties DEF Lists, LS
<1>7. \A j \in 1 .. n + 1 : j \in 1 .. n \/ j = n + 1
  BY <1>1
<1>8. 1 .. n \subseteq 1 .. n + 1 /\ n + 1 \in 1 .. n + 1
  BY <1>1
<1>9. ListIds(new) = ListIds(ls) \cup {r.id}
  <2>1. ASSUME NEW m \in ListIds(new) PROVE m \in ListIds(ls) \cup {r.id}
    BY <1>1, <1>2, <1>4, <1>5, <1>6, <1>7, IdsAre
  <2>2. ASSUME NEW m \in ListIds(ls) PROVE m \in ListIds(new)
    BY <1>1, <1>4, <1>6, <1>8, IdsAre
  <2>3. r.id \in ListIds(new)
    BY <1>2, <1>5, <1>6, <1>8, IdsAre
  <2> QED
    BY <2>1, <2>2, <2>3
<1>10. ASSUME NEW m PROVE Items(new, m) = Items(ls, m)
  <2>1. ASSUME NEW i \in Items(new, m) PROVE i \in Items(ls, m)
    BY <1>1, <1>2, <1>4, <1>5, <1>6, <1>7, ItemsAre
  <2>2. ASSUME NEW i \in Items(ls, m) PROVE i \in Items(new, m)
    BY <1>1, <1>4, <1>6, <1>8, ItemsAre
  <2> QED
    BY <2>1, <2>2
<1>11. ASSUME Distinct(ls), r.id \notin ListIds(ls) PROVE Distinct(new)
  <2>1. \A j \in 1 .. n : ls[j].id # r.id
    BY <1>1, <1>11, IdsAre
  <2> QED
    BY <1>1, <1>2, <1>4, <1>5, <1>6, <1>7, <1>11, <2>1 DEF Distinct
<1> QED
  BY <1>4, <1>6, <1>9, <1>10, <1>11 DEF new

-----------------------------------------------------------------------------
(* What every state of the watchlists is. *)

Edits == {"create", "rename", "delete", "add", "remove"}
Calls == [id : Nat, op : Edits \cup {"load"}, list : Nat, stock : Listed \cup {NoStock},
          item : SUBSET Item, shot : Lists, was : Nat, cached : BOOLEAN]

\* The temporary item of an addition has the number of its request, a removal is of one
\* item, and a deletion leaves a list.
WellMade(r) ==
  /\ r.op = "add" => \E i \in Item : r.item = {i} /\ i.id = r.id /\ ~i.saved
  /\ r.op = "remove" => \E i \in Item : r.item = {i}
  /\ r.op = "delete" => r.list \in ListIds(r.shot) /\ Len(r.shot) > 1

ListsShaped ==
  /\ watchlists \in Lists /\ shelves \in Lists /\ kept \in [lists : Lists, active : Nat]
  /\ activeId \in Nat /\ nextId \in Nat /\ edits \in 0 .. MaxEdits /\ mounts \in 0 .. MaxMounts
  /\ isLoading \in BOOLEAN /\ clean \in BOOLEAN
  /\ \A r \in requests : r \in Calls /\ WellMade(r)

\* What is sent is a request with the next number.
New(r) == r \in Calls /\ r.id = nextId /\ WellMade(r) /\ (r.op = "load" => r.shot = <<>>)

LEMMA EmptyLists == <<>> \in Lists
  BY DEF Lists

LEMMA NewLoad ==
  ASSUME ListsShaped, NEW k \in Listed \cup {NoStock}, NEW w \in Nat, NEW c \in BOOLEAN
  PROVE  New([id |-> nextId, op |-> "load", list |-> NoList, stock |-> k, item |-> {},
              shot |-> <<>>, was |-> w, cached |-> c])
  BY EmptyLists DEF ListsShaped, Edits, NoList, New, WellMade, Calls

LEMMA NewEdit ==
  ASSUME ListsShaped, NEW op \in Edits, NEW l \in Nat, NEW i \in SUBSET Item, NEW ls \in Lists,
         NEW w \in Nat,
         op = "add" => \E t \in Item : i = {t} /\ t.id = nextId /\ ~t.saved,
         op = "remove" => \E t \in Item : i = {t},
         op = "delete" => l \in ListIds(ls) /\ Len(ls) > 1
  PROVE  /\ New(Ask(op, l, i, ls, w))
         /\ LET r == Ask(op, l, i, ls, w)
            IN r.op = op /\ r.list = l /\ r.item = i /\ r.shot = ls /\ r.was = w
<1> DEFINE r == Ask(op, l, i, ls, w)
<1>1. r \in Calls
  BY DEF ListsShaped, Edits, Ask, Calls
<1>2. r.id = nextId /\ r.op = op /\ r.list = l /\ r.item = i /\ r.shot = ls /\ r.was = w
  BY DEF Ask
<1>3. op # "load"
  BY DEF Edits
<1> QED
  BY <1>1, <1>2, <1>3 DEF New, WellMade

\* A list that is created or renamed.
LEMMA NewName ==
  ASSUME ListsShaped, NEW op \in {"create", "rename"}, NEW l \in Nat
  PROVE  New(Ask(op, l, {}, <<>>, NoList)) /\ Ask(op, l, {}, <<>>, NoList).op = op
<1> DEFINE r == Ask(op, l, {}, <<>>, NoList)
<1>1. op \in Edits /\ op # "add" /\ op # "remove" /\ op # "delete" /\ op # "load"
  BY DEF Edits
<1>2. r \in Calls
  <2>1. /\ nextId \in Nat /\ NoList \in Nat /\ {} \in SUBSET Item /\ op \in Edits \cup {"load"}
        /\ NoStock \in Listed \cup {NoStock} /\ FALSE \in BOOLEAN
    BY <1>1 DEF ListsShaped, NoList
  <2> QED BY <2>1, EmptyLists DEF Ask, Calls
<1>3. r.id = nextId /\ r.op = op
  BY DEF Ask
<1> HIDE DEF r
<1>4. New(r)
  BY <1>1, <1>2, <1>3 DEF New, WellMade
<1> QED
  BY <1>3, <1>4 DEF r

\* What the store sends while the requests of rest wait.
Sends(rest, r) == rest \subseteq requests /\ New(r) /\ SendTo(rest, r)

LEMMA SendsShaped ==
  ASSUME ListsShaped, NEW rest, NEW r, Sends(rest, r)
  PROVE  /\ nextId' \in Nat /\ clean' \in BOOLEAN
         /\ \A q \in requests' : q \in Calls /\ WellMade(q)
<1> USE DEF Sends, SendTo
<1>1. nextId' \in Nat /\ \A q \in requests' : q \in Calls /\ WellMade(q)
  BY DEF ListsShaped, New
<1>2. clean' \in BOOLEAN
  BY Zenon
<1> QED
  BY <1>1, <1>2

LEMMA LoadSends ==
  ASSUME ListsShaped, NEW rest, rest \subseteq requests, NEW k \in Listed \cup {NoStock},
         LoadWatchlist(rest, k)
  PROVE  /\ \E r : Sends(rest, r) /\ r.op = "load" /\ r.stock = k
         /\ watchlists' \in Lists /\ activeId' \in Nat /\ isLoading' \in BOOLEAN
         /\ activeId \in ListIds(watchlists) => activeId' \in ListIds(watchlists')
<1> DEFINE has == kept.lists # <<>>
           r == [id |-> nextId, op |-> "load", list |-> NoList, stock |-> k, item |-> {},
                 shot |-> <<>>, was |-> kept.active, cached |-> has]
<1>1. kept.lists \in Lists /\ kept.active \in Nat
  BY DEF ListsShaped
<1>2. New(r) /\ r.op = "load" /\ r.stock = k
  BY <1>1, NewLoad
<1>3. Sends(rest, r)
  BY <1>2, Zenon DEF LoadWatchlist, Sends
<1>4. CASE has
  <2>1. watchlists' = kept.lists /\ activeId' = NextActive(kept.lists, kept.active)
        /\ isLoading' = TRUE
    BY <1>4 DEF LoadWatchlist
  <2> QED
    BY <1>1, <1>2, <1>3, <1>4, <2>1, NextActiveIsThere, ItemsTyped
<1>5. CASE ~has
  <2>1. watchlists' = watchlists /\ activeId' = activeId /\ isLoading' = TRUE
    BY <1>5 DEF LoadWatchlist
  <2> QED
    BY <1>2, <1>3, <2>1 DEF ListsShaped
<1> QED
  BY <1>4, <1>5

Temp(k) == [id |-> nextId, stock |-> k, saved |-> FALSE]

LEMMA AddSends ==
  ASSUME ListsShaped, NEW ls \in Lists, NEW l \in Nat, NEW k \in Listed, NEW rest,
         rest \subseteq requests, AddTo(ls, l, k, rest)
  PROVE  /\ Temp(k) \in Item /\ watchlists' = Put(ls, l, Temp(k)) /\ activeId' = l
         /\ watchlists' \in Lists /\ ListIds(watchlists') = ListIds(ls)
         /\ kept' = [lists |-> watchlists', active |-> activeId']
         /\ l = LocalList =>
              requests' = rest /\ nextId' = nextId + 1 /\ sole' = sole /\ clean' = clean
         /\ l # LocalList =>
              \E r : Sends(rest, r) /\ r.op = "add" /\ r.list = l /\ r.item = {Temp(k)}
<1>1. Temp(k) \in Item /\ Temp(k).id = nextId /\ ~Temp(k).saved
  BY DEF Temp, Item, ListsShaped
<1>2. watchlists' = Put(ls, l, Temp(k)) /\ activeId' = l
      /\ kept' = [lists |-> watchlists', active |-> activeId']
  BY DEF AddTo, PersistToStorage, Temp
<1>3. ASSUME l # LocalList
      PROVE  \E r : Sends(rest, r) /\ r.op = "add" /\ r.list = l /\ r.item = {Temp(k)}
  <2> DEFINE r == Ask("add", l, {Temp(k)}, <<>>, NoList)
  <2>1. SendTo(rest, r)
    BY <1>3 DEF AddTo, Temp
  <2>2. New(r) /\ r.op = "add" /\ r.list = l /\ r.item = {Temp(k)}
    BY <1>1, NewEdit, EmptyLists DEF Edits, NoList
  <2> HIDE DEF r
  <2> QED
    BY <2>1, <2>2 DEF Sends
<1>4. l = LocalList =>
        requests' = rest /\ nextId' = nextId + 1 /\ sole' = sole /\ clean' = clean
  BY DEF AddTo
<1> QED
  BY <1>1, <1>2, <1>3, <1>4, PutItem

LEMMA SavedIs ==
  ASSUME NEW r \in Calls, WellMade(r), r.op = "add"
  PROVE  Saved(r) \in Item /\ Saved(r).id = r.id /\ Saved(r).saved
<1> DEFINE S == [id : {r.id}, stock : StocksOf(r.item), saved : {TRUE}]
<1>1. PICK t \in Item : r.item = {t}
  BY DEF WellMade
<1>2. t.stock \in StocksOf(r.item) /\ StocksOf(r.item) \subseteq Listed
  BY <1>1 DEF StocksOf, Item
<1>3. [id |-> r.id, stock |-> t.stock, saved |-> TRUE] \in S
  BY <1>2
<1>4. Saved(r) \in S
  BY <1>3, Zenon DEF Saved
<1>5. r.id \in Nat
  BY DEF Calls
<1> QED
  BY <1>2, <1>4, <1>5 DEF Item

LEMMA EffectOf ==
  ASSUME NEW r
  PROVE  /\ r.op = "create" => Effect(r) = Append(shelves, Created(r))
         /\ r.op = "rename" => Effect(r) = shelves
         /\ r.op = "delete" => Effect(r) = Without(shelves, r.list)
         /\ r.op = "add" => Effect(r) = Put(shelves, r.list, Saved(r))
         /\ r.op = "remove" => Effect(r) = Take(shelves, r.list, CHOOSE i \in r.item : TRUE)
  BY DEF Effect

LEMMA EffectShaped ==
  ASSUME ListsShaped, NEW r \in requests, r.op # "load", Accepts(r)
  PROVE  Effect(r) \in Lists
<1>1. /\ r.op \in Edits /\ WellMade(r) /\ shelves \in Lists /\ r.id \in Nat
      /\ r.op = "delete" => r.list \in ListIds(shelves)
  BY DEF ListsShaped, Calls, Accepts
<1>2. CASE r.op = "create"
  BY <1>1, <1>2, EffectOf, NewList
<1>3. CASE r.op = "rename"
  BY <1>1, <1>3, EffectOf
<1>4. CASE r.op = "delete"
  BY <1>1, <1>4, EffectOf, WithoutList
<1>5. CASE r.op = "add"
  BY <1>1, <1>5, EffectOf, SavedIs, PutItem DEF ListsShaped
<1>6. CASE r.op = "remove"
  BY <1>1, <1>6, EffectOf, TakeItem
<1> QED
  BY <1>1, <1>2, <1>3, <1>4, <1>5, <1>6 DEF Edits

\* An item swapped for that of the server leaves the lists.
LEMMA SwapShaped ==
  ASSUME ListsShaped, NEW r \in requests, r.op = "add"
  PROVE  Swapped(r) \in Lists /\ ListIds(Swapped(r)) = ListIds(watchlists)
<1> DEFINE taken == Take(watchlists, r.list, CHOOSE i \in r.item : TRUE)
<1>1. watchlists \in Lists /\ Saved(r) \in Item
  BY SavedIs DEF ListsShaped
<1>2. taken \in Lists /\ ListIds(taken) = ListIds(watchlists)
  BY <1>1, TakeItem
<1>3. /\ Put(taken, r.list, Saved(r)) \in Lists
      /\ ListIds(Put(taken, r.list, Saved(r))) = ListIds(taken)
  BY <1>1, <1>2, PutItem
<1>4. Swapped(r) = watchlists \/ Swapped(r) = Put(taken, r.list, Saved(r))
  BY DEF Swapped
<1> QED
  BY <1>1, <1>2, <1>3, <1>4

\* The active list is one of the lists after a step as before it.
ActiveKept == activeId \in ListIds(watchlists) => activeId' \in ListIds(watchlists')
RefusalPutsBack ==
  \E r \in requests \ requests' :
    r.op = "remove" \/ (r.op = "delete" /\ r.was \notin ListIds(r.shot))

LEMMA EmptyPanel ==
  LET ls == <<[id |-> LocalList, items |-> {}]>>
  IN ls \in Lists /\ LocalList \in ListIds(ls) /\ ListIds(ls) = {LocalList}
<1> DEFINE ls == <<[id |-> LocalList, items |-> {}]>>
<1>1. ls \in Lists /\ DOMAIN ls = {1} /\ ls[1].id = LocalList
  BY DEF Lists, LocalList
<1> QED
  BY <1>1 DEF ListIds

LEMMA MountShaped == ListsShaped /\ Mount => ListsShaped' /\ ActiveKept
<1> SUFFICES ASSUME ListsShaped, Mount PROVE ListsShaped' /\ ActiveKept
  OBVIOUS
<1>1. /\ LoadWatchlist(requests, NoStock) /\ mounts' \in 0 .. MaxMounts
      /\ kept' = kept /\ shelves' = shelves /\ edits' = edits
  BY ListsAssumption DEF Mount, ListsShaped
<1>2. /\ \E r : Sends(requests, r)
      /\ watchlists' \in Lists /\ activeId' \in Nat /\ isLoading' \in BOOLEAN
      /\ ActiveKept
  BY <1>1, LoadSends DEF ActiveKept
<1> QED
  BY <1>1, <1>2, SendsShaped DEF ListsShaped

LEMMA LoadServedShaped == ListsShaped /\ LoadServed => ListsShaped' /\ ActiveKept
<1> SUFFICES ASSUME ListsShaped, LoadServed PROVE ListsShaped' /\ ActiveKept
  OBVIOUS
<1>1. PICK r \in requests :
        /\ r.op = "load"
        /\ shelves' = IF shelves = <<>> THEN <<[id |-> nextId, items |-> {}]>> ELSE shelves
        /\ nextId' = IF shelves = <<>> THEN nextId + 1 ELSE nextId
        /\ requests' = (requests \ {r}) \cup {[r EXCEPT !.shot = shelves']}
        /\ UNCHANGED <<watchlists, activeId, isLoading, kept, sole, clean, edits, mounts>>
  BY DEF LoadServed
<1>2. nextId' \in Nat /\ shelves' \in Lists
  <2>1. <<[id |-> nextId, items |-> {}]>> \in Lists
    BY DEF ListsShaped, Lists
  <2> QED
    BY <1>1, <2>1 DEF ListsShaped
<1>3. [r EXCEPT !.shot = shelves'] \in Calls /\ WellMade([r EXCEPT !.shot = shelves'])
  <2>1. r \in Calls
    BY DEF ListsShaped
  <2>2. [r EXCEPT !.shot = shelves'] \in Calls
    BY <1>2, <2>1 DEF Calls
  <2>3. [r EXCEPT !.shot = shelves'].op = "load"
    BY <1>1, <2>1 DEF Calls
  <2> QED
    BY <2>2, <2>3 DEF WellMade
<1>4. ListsShaped'
  BY <1>1, <1>2, <1>3 DEF ListsShaped
<1> QED
  BY <1>1, <1>4 DEF ActiveKept

LEMMA LoadAnsweredShaped == ListsShaped /\ LoadAnswered => ListsShaped' /\ ActiveKept
<1> SUFFICES ASSUME ListsShaped, LoadAnswered PROVE ListsShaped' /\ ActiveKept
  OBVIOUS
<1> DEFINE L(r) == NextActive(r.shot, r.was)
           Plain(r) == r.stock = NoStock \/ r.stock \in StocksOf(Items(r.shot, L(r)))
<1>1. PICK r \in requests :
        /\ r.shot # <<>> /\ isLoading' = FALSE
        /\ Plain(r) => /\ watchlists' = r.shot /\ activeId' = L(r) /\ PersistToStorage
                       /\ requests' = requests \ {r} /\ clean' = (r.id \in sole)
                       /\ nextId' = nextId
        /\ ~Plain(r) => AddTo(r.shot, L(r), r.stock, requests \ {r})
        /\ UNCHANGED <<shelves, edits, mounts>>
  BY DEF LoadAnswered
<1>2. r.shot \in Lists /\ r.stock \in Listed \cup {NoStock}
  BY DEF ListsShaped, Calls
<1>3. L(r) \in ListIds(r.shot) /\ L(r) \in Nat
  BY <1>1, <1>2, NextActiveIsThere, ItemsTyped
<1>4. CASE Plain(r)
  <2>1. /\ watchlists' = r.shot /\ activeId' = L(r) /\ PersistToStorage
        /\ requests' = requests \ {r} /\ clean' = (r.id \in sole) /\ nextId' = nextId
    BY <1>1, <1>4
  <2> HIDE DEF Plain, L
  <2>2. clean' \in BOOLEAN
    <3>1. (r.id \in sole) \in BOOLEAN
      OBVIOUS
    <3>2. clean' = (r.id \in sole)
      BY <2>1
    <3> QED
      BY <3>1, <3>2, Zenon
  <2>3. watchlists' \in Lists /\ activeId' \in Nat /\ kept' \in [lists : Lists, active : Nat]
    BY <1>2, <1>3, <2>1 DEF PersistToStorage
  <2> QED
    BY <1>1, <1>3, <2>1, <2>2, <2>3 DEF ListsShaped, ActiveKept
<1>5. CASE ~Plain(r)
  <2>1. r.stock \in Listed /\ AddTo(r.shot, L(r), r.stock, requests \ {r})
    BY <1>1, <1>2, <1>5
  <2> HIDE DEF Plain, L
  <2> DEFINE rest == requests \ {r}
  <2>2. /\ activeId' = L(r) /\ watchlists' \in Lists /\ ListIds(watchlists') = ListIds(r.shot)
        /\ kept' = [lists |-> watchlists', active |-> activeId']
        /\ L(r) = LocalList => requests' = rest /\ nextId' = nextId + 1 /\ clean' = clean
        /\ L(r) # LocalList => \E q : Sends(rest, q)
    BY <1>2, <1>3, <2>1, AddSends
  <2>3. /\ nextId' \in Nat /\ clean' \in BOOLEAN
        /\ \A q \in requests' : q \in Calls /\ WellMade(q)
    BY <2>2, SendsShaped DEF ListsShaped
  <2> QED
    BY <1>1, <1>3, <2>2, <2>3 DEF ListsShaped, ActiveKept
<1> QED
  BY <1>4, <1>5

LEMMA LoadFailedShaped == ListsShaped /\ LoadFailed => ListsShaped' /\ ActiveKept
<1> SUFFICES ASSUME ListsShaped, LoadFailed PROVE ListsShaped' /\ ActiveKept
  OBVIOUS
<1> DEFINE Shot(r) == IF r.cached THEN watchlists ELSE <<[id |-> LocalList, items |-> {}]>>
           L(r) == IF r.cached THEN activeId ELSE LocalList
           Plain(r) == \/ r.stock = NoStock \/ L(r) \notin ListIds(Shot(r))
                       \/ r.stock \in StocksOf(Items(Shot(r), L(r)))
<1>1. PICK r \in requests :
        /\ isLoading' = FALSE
        /\ Plain(r) => /\ watchlists' = Shot(r) /\ activeId' = L(r)
                       /\ kept' = IF r.cached THEN kept ELSE [lists |-> Shot(r), active |-> L(r)]
                       /\ requests' = requests \ {r} /\ clean' = FALSE /\ nextId' = nextId
        /\ ~Plain(r) => AddTo(Shot(r), L(r), r.stock, requests \ {r})
        /\ UNCHANGED <<shelves, edits, mounts>>
  BY DEF LoadFailed
<1>2. r.stock \in Listed \cup {NoStock}
  BY DEF ListsShaped, Calls
<1>3. /\ Shot(r) \in Lists /\ L(r) \in Nat
      /\ activeId \in ListIds(watchlists) => L(r) \in ListIds(Shot(r))
  BY EmptyPanel DEF ListsShaped, LocalList
<1>4. CASE Plain(r)
  <2>1. /\ watchlists' = Shot(r) /\ activeId' = L(r)
        /\ kept' = IF r.cached THEN kept ELSE [lists |-> Shot(r), active |-> L(r)]
        /\ requests' = requests \ {r} /\ clean' = FALSE /\ nextId' = nextId
    BY <1>1, <1>4
  <2> HIDE DEF Plain, L, Shot
  <2> QED
    BY <1>1, <1>3, <2>1 DEF ListsShaped, ActiveKept
<1>5. CASE ~Plain(r)
  <2>1. /\ r.stock \in Listed /\ AddTo(Shot(r), L(r), r.stock, requests \ {r})
        /\ L(r) \in ListIds(Shot(r))
    BY <1>1, <1>2, <1>5
  <2> HIDE DEF Plain, L, Shot
  <2> DEFINE rest == requests \ {r}
  <2>2. /\ activeId' = L(r) /\ watchlists' \in Lists /\ ListIds(watchlists') = ListIds(Shot(r))
        /\ kept' = [lists |-> watchlists', active |-> activeId']
        /\ L(r) = LocalList => requests' = rest /\ nextId' = nextId + 1 /\ clean' = clean
        /\ L(r) # LocalList => \E q : Sends(rest, q)
    BY <1>3, <2>1, AddSends
  <2>3. /\ nextId' \in Nat /\ clean' \in BOOLEAN
        /\ \A q \in requests' : q \in Calls /\ WellMade(q)
    BY <2>2, SendsShaped DEF ListsShaped
  <2> QED
    BY <1>1, <1>3, <2>1, <2>2, <2>3 DEF ListsShaped, ActiveKept
<1> QED
  BY <1>4, <1>5

LEMMA EditedIs ==
  ASSUME ListsShaped, Edited
  PROVE  edits' \in 0 .. MaxEdits /\ shelves' = shelves /\ mounts' = mounts
  BY ListsAssumption DEF ListsShaped, Edited

LEMMA PanelShaped == ListsShaped /\ (SelectTab \/ DropRow) => ListsShaped' /\ ActiveKept
<1> USE DEF ListsShaped, ActiveKept, PersistToStorage
<1>1. ASSUME ListsShaped, NEW l \in ListIds(watchlists), SetActiveWatchlist(l)
      PROVE  ListsShaped' /\ ActiveKept
  <2>1. l \in Nat
    BY <1>1, ItemsTyped
  <2> QED
    BY <1>1, <2>1 DEF SetActiveWatchlist
<1>2. ASSUME ListsShaped, ReorderItems PROVE ListsShaped' /\ ActiveKept
  BY <1>2 DEF ReorderItems
<1> QED
  BY <1>1, <1>2 DEF SelectTab, DropRow

LEMMA CreateShaped == ListsShaped /\ SubmitCreate => ListsShaped' /\ ActiveKept
<1> SUFFICES ASSUME ListsShaped, SubmitCreate PROVE ListsShaped' /\ ActiveKept
  OBVIOUS
<1> DEFINE r == Ask("create", NoList, {}, <<>>, NoList)
<1>1. SendTo(requests, r) /\ Edited /\ UNCHANGED <<watchlists, activeId, isLoading, kept>>
  BY DEF SubmitCreate, CreateWatchlist
<1>2. Sends(requests, r)
  <2>1. NoList \in Nat
    BY DEF NoList
  <2>2. New(r)
    BY <2>1, NewName
  <2> QED BY <1>1, <2>2 DEF Sends
<1> QED
  BY <1>1, <1>2, SendsShaped, EditedIs DEF ListsShaped, ActiveKept

LEMMA RenameShaped == ListsShaped /\ CommitRename => ListsShaped' /\ ActiveKept
<1> SUFFICES ASSUME ListsShaped, NEW l \in ListIds(watchlists), RenameWatchlist(l)
             PROVE  ListsShaped' /\ ActiveKept
  BY DEF CommitRename
<1> DEFINE r == Ask("rename", l, {}, <<>>, NoList)
<1>1. Edited /\ UNCHANGED <<watchlists, activeId, isLoading>>
  BY DEF RenameWatchlist
<1>2. l \in Nat
  BY ItemsTyped DEF ListsShaped
<1>3. CASE l = LocalList
  BY <1>1, <1>3, EditedIs DEF RenameWatchlist, ListsShaped, ActiveKept, PersistToStorage
<1>4. CASE l # LocalList
  <2>1. SendTo(requests, r) /\ kept' = kept
    BY <1>4 DEF RenameWatchlist
  <2>2. New(r)
    BY <1>2, NewName
  <2>3. Sends(requests, r)
    BY <2>1, <2>2 DEF Sends
  <2> QED
    BY <1>1, <2>1, <2>3, SendsShaped, EditedIs DEF ListsShaped, ActiveKept
<1> QED
  BY <1>3, <1>4

LEMMA DeleteShaped == ListsShaped /\ PressDelete => ListsShaped' /\ ActiveKept
<1> SUFFICES ASSUME ListsShaped, NEW l \in ListIds(watchlists), DeleteWatchlist(l)
             PROVE  ListsShaped' /\ ActiveKept
  BY DEF PressDelete
<1> DEFINE r == Ask("delete", l, {}, watchlists, activeId)
           left == Without(watchlists, l)
<1>1. /\ Edited /\ Len(watchlists) > 1 /\ watchlists' = left /\ isLoading' = isLoading
      /\ activeId' = IF activeId = l THEN left[1].id ELSE activeId
  BY DEF DeleteWatchlist, Deleted
<1>2. /\ left \in Lists /\ ListIds(watchlists) \ {l} \subseteq ListIds(left)
      /\ left[1].id \in ListIds(left)
  <2>1. /\ left \in Lists /\ ListIds(watchlists) \ {l} \subseteq ListIds(left)
        /\ Len(left) = Len(watchlists) - 1
    BY WithoutList DEF ListsShaped
  <2>2. left # <<>>
    BY <1>1, <2>1, ListsAre DEF ListsShaped
  <2> QED
    BY <2>1, <2>2, ItemsTyped
<1>3. l \in Nat /\ activeId' \in Nat /\ ActiveKept
  BY <1>1, <1>2, ItemsTyped DEF ListsShaped, ActiveKept
<1> HIDE DEF left
<1>4. CASE l = LocalList
  <2>1. UNCHANGED <<requests, nextId, clean>> /\ PersistToStorage
    BY <1>4 DEF DeleteWatchlist, Deleted
  <2> QED
    BY <1>1, <1>2, <1>3, <2>1, EditedIs DEF ListsShaped, PersistToStorage
<1>5. CASE l # LocalList
  <2>1. SendTo(requests, r) /\ kept' = kept
    BY <1>5 DEF DeleteWatchlist, Deleted
  <2>2. Sends(requests, r)
    BY <1>1, <1>3, <2>1, NewEdit DEF Edits, Sends, ListsShaped
  <2>3. isLoading' \in BOOLEAN
    BY <1>1 DEF ListsShaped
  <2> QED
    BY <1>1, <1>2, <1>3, <2>1, <2>2, <2>3, SendsShaped, EditedIs DEF ListsShaped
<1> QED
  BY <1>4, <1>5

LEMMA AddShaped ==
  ASSUME ListsShaped, NEW k \in Listed, AddItem(k)
  PROVE  ListsShaped' /\ ActiveKept
<1>1. edits' \in 0 .. MaxEdits /\ shelves' = shelves /\ mounts' = mounts
  BY EditedIs DEF AddItem
<1>2. CASE watchlists = <<>> \/ activeId = NoList
  <2>1. LoadWatchlist(requests, k) /\ kept' = kept
    BY <1>2 DEF AddItem
  <2>2. /\ \E r : Sends(requests, r)
        /\ watchlists' \in Lists /\ activeId' \in Nat /\ isLoading' \in BOOLEAN /\ ActiveKept
    BY <2>1, LoadSends DEF ActiveKept
  <2> QED
    BY <1>1, <2>1, <2>2, SendsShaped DEF ListsShaped
<1>3. CASE ~(watchlists = <<>> \/ activeId = NoList)
  <2>1. /\ activeId \in ListIds(watchlists) /\ isLoading' = isLoading
        /\ AddTo(watchlists, activeId, k, requests)
    BY <1>3 DEF AddItem
  <2>2. /\ activeId' = activeId /\ watchlists' \in Lists
        /\ ListIds(watchlists') = ListIds(watchlists)
        /\ kept' = [lists |-> watchlists', active |-> activeId']
        /\ activeId = LocalList =>
             requests' = requests /\ nextId' = nextId + 1 /\ clean' = clean
        /\ activeId # LocalList => \E q : Sends(requests, q)
    BY <2>1, AddSends DEF ListsShaped
  <2>3. /\ nextId' \in Nat /\ clean' \in BOOLEAN
        /\ \A q \in requests' : q \in Calls /\ WellMade(q)
    BY <2>2, SendsShaped DEF ListsShaped
  <2> QED
    BY <1>1, <2>1, <2>2, <2>3 DEF ListsShaped, ActiveKept
<1> QED
  BY <1>2, <1>3

LEMMA RemoveShaped ==
  ASSUME ListsShaped, NEW i \in Item, RemoveItem(i)
  PROVE  ListsShaped' /\ ActiveKept
<1> DEFINE r == Ask("remove", activeId, {i}, watchlists, activeId)
<1>1. /\ Edited /\ watchlists' = Take(watchlists, activeId, i) /\ PersistToStorage
      /\ activeId' = activeId /\ isLoading' = isLoading
  BY DEF RemoveItem
<1>2. watchlists' \in Lists /\ ActiveKept
  BY <1>1, TakeItem DEF ListsShaped, ActiveKept
<1>3. CASE activeId = LocalList
  <2>1. UNCHANGED <<requests, nextId, clean>>
    BY <1>3 DEF RemoveItem
  <2> QED
    BY <1>1, <1>2, <2>1, EditedIs DEF ListsShaped, PersistToStorage
<1>4. CASE activeId # LocalList
  <2>1. SendTo(requests, r)
    BY <1>4 DEF RemoveItem
  <2>2. Sends(requests, r)
    BY <2>1, NewEdit DEF Edits, Sends, ListsShaped
  <2>3. isLoading' \in BOOLEAN /\ kept' \in [lists : Lists, active : Nat] /\ activeId' \in Nat
    BY <1>1, <1>2 DEF ListsShaped, PersistToStorage
  <2> QED
    BY <1>1, <1>2, <2>2, <2>3, SendsShaped, EditedIs DEF ListsShaped
<1> QED
  BY <1>3, <1>4

\* What the controls add and remove.
LEMMA Pressed ==
  ASSUME ListsShaped, AddFromDialog \/ RemoveRow \/ ToggleStar
  PROVE  \/ \E k \in Listed : AddItem(k)
         \/ \E i \in Items(watchlists, activeId) : RemoveItem(i)
<1>1. CASE AddFromDialog
  BY <1>1 DEF AddFromDialog
<1>2. CASE RemoveRow
  BY <1>2 DEF RemoveRow
<1>3. CASE ToggleStar
  <2>1. PICK k \in Listed :
          IF IsAdded(k) THEN RemoveItem(CHOOSE i \in Items(watchlists, activeId) : i.stock = k)
          ELSE AddItem(k)
    BY <1>3 DEF ToggleStar
  <2>2. CASE IsAdded(k)
    <3>1. \E i \in Items(watchlists, activeId) : i.stock = k
      BY <2>2 DEF IsAdded, StocksOf
    <3>2. (CHOOSE i \in Items(watchlists, activeId) : i.stock = k) \in Items(watchlists, activeId)
      BY <3>1, Zenon
    <3> QED
      BY <2>1, <2>2, <3>2
  <2> QED
    BY <2>1, <2>2
<1> QED
  BY <1>1, <1>2, <1>3

LEMMA PressedShaped ==
  ListsShaped /\ (AddFromDialog \/ RemoveRow \/ ToggleStar) => ListsShaped' /\ ActiveKept
<1>1. ListsShaped => Items(watchlists, activeId) \subseteq Item
  BY ItemsTyped DEF ListsShaped
<1> QED
  BY <1>1, Pressed, AddShaped, RemoveShaped

LEMMA AnsweredShaped == ListsShaped /\ EditAnswered => ListsShaped' /\ ActiveKept
<1> SUFFICES ASSUME ListsShaped, EditAnswered PROVE ListsShaped' /\ ActiveKept
  OBVIOUS
<1> DEFINE D(r) == Without(r.shot, r.list)
<1>1. PICK r \in requests :
        /\ r.op # "load" /\ Accepts(r)
        /\ shelves' = Effect(r) /\ requests' = requests \ {r}
        /\ watchlists' = CASE r.op = "create" -> Append(watchlists, Created(r))
                           [] r.op = "add" -> Swapped(r)
                           [] OTHER -> watchlists
        /\ activeId' = IF r.op = "create" THEN r.id ELSE activeId
        /\ CASE r.op = "delete" ->
                  kept' = [lists |-> D(r),
                           active |-> IF r.was = r.list THEN D(r)[1].id ELSE r.was]
             [] r.op = "remove" -> UNCHANGED kept
             [] OTHER -> PersistToStorage
        /\ UNCHANGED <<isLoading, clean, nextId, edits, mounts>>
  BY DEF EditAnswered
<1>2. r \in Calls /\ WellMade(r) /\ r.id \in Nat /\ r.shot \in Lists /\ r.was \in Nat
  BY DEF ListsShaped, Calls
<1>3. shelves' \in Lists
  BY <1>1, EffectShaped
<1>4. watchlists' \in Lists /\ activeId' \in Nat /\ ActiveKept
  <2>1. CASE r.op = "create"
    BY <1>1, <1>2, <2>1, NewList DEF ListsShaped, ActiveKept
  <2>2. CASE r.op = "add"
    BY <1>1, <2>2, SwapShaped DEF ListsShaped, ActiveKept
  <2>3. CASE r.op \notin {"create", "add"}
    BY <1>1, <2>3 DEF ListsShaped, ActiveKept
  <2> QED
    BY <2>1, <2>2, <2>3
<1>5. kept' \in [lists : Lists, active : Nat]
  <2>1. CASE r.op = "delete"
    <3>1. D(r) \in Lists /\ D(r) # <<>>
      BY <1>2, <2>1, WithoutList, ListsAre DEF WellMade
    <3>2. D(r)[1].id \in Nat
      BY <3>1, ItemsTyped
    <3>3. kept' = [lists |-> D(r), active |-> IF r.was = r.list THEN D(r)[1].id ELSE r.was]
      BY <1>1, <2>1
    <3> HIDE DEF D
    <3> QED
      BY <1>2, <3>1, <3>2, <3>3
  <2>2. CASE r.op = "remove"
    BY <1>1, <2>2 DEF ListsShaped
  <2>3. CASE r.op \notin {"delete", "remove"}
    <3>1. PersistToStorage
      BY <1>1, <2>3
    <3> QED
      BY <1>4, <3>1 DEF PersistToStorage
  <2> QED
    BY <2>1, <2>2, <2>3
<1>6. isLoading' \in BOOLEAN /\ clean' \in BOOLEAN
  BY <1>1 DEF ListsShaped
<1> QED
  BY <1>1, <1>3, <1>4, <1>5, <1>6 DEF ListsShaped

LEMMA FailsShaped == ListsShaped /\ EditFails => ListsShaped' /\ (ActiveKept \/ RefusalPutsBack)
<1> SUFFICES ASSUME ListsShaped, EditFails PROVE ListsShaped' /\ (ActiveKept \/ RefusalPutsBack)
  OBVIOUS
<1>1. PICK r \in requests, done \in BOOLEAN :
        /\ r.op # "load" /\ (done => Accepts(r))
        /\ shelves' = IF done THEN Effect(r) ELSE shelves
        /\ UNCHANGED <<edits, mounts>>
        /\ IF r.op = "rename" THEN LoadWatchlist(requests \ {r}, NoStock) /\ UNCHANGED kept
           ELSE /\ requests' = requests \ {r}
                /\ clean' = (clean /\ r.id \in sole /\ ~done)
                /\ UNCHANGED <<isLoading, nextId>>
                /\ CASE r.op = "create" -> UNCHANGED <<watchlists, activeId, kept>>
                     [] r.op = "delete" ->
                          watchlists' = r.shot /\ activeId' = r.was /\ UNCHANGED kept
                     [] r.op = "add" ->
                          /\ watchlists' = Take(watchlists, r.list, CHOOSE i \in r.item : TRUE)
                          /\ UNCHANGED activeId /\ PersistToStorage
                     [] r.op = "remove" ->
                          /\ watchlists' = r.shot /\ UNCHANGED activeId
                          /\ kept' = [lists |-> r.shot, active |-> r.was]
  BY DEF EditFails
<1>2. r.op \in Edits /\ r.shot \in Lists /\ r.was \in Nat
  BY <1>1 DEF ListsShaped, Calls
<1>3. shelves' \in Lists /\ edits' \in 0 .. MaxEdits /\ mounts' \in 0 .. MaxMounts
  BY <1>1, EffectShaped DEF ListsShaped
<1>4. CASE r.op = "rename"
  <2>1. LoadWatchlist(requests \ {r}, NoStock) /\ kept' = kept
    BY <1>1, <1>4
  <2>2. /\ \E q : Sends(requests \ {r}, q)
        /\ watchlists' \in Lists /\ activeId' \in Nat /\ isLoading' \in BOOLEAN /\ ActiveKept
    BY <2>1, LoadSends DEF ActiveKept
  <2> QED
    BY <1>3, <2>1, <2>2, SendsShaped DEF ListsShaped
<1>5. CASE r.op # "rename"
  <2>1. /\ requests' = requests \ {r} /\ nextId' = nextId /\ isLoading' \in BOOLEAN
        /\ clean' = (clean /\ r.id \in sole /\ ~done)
    BY <1>1, <1>5 DEF ListsShaped
  <2>2. clean' \in BOOLEAN
    <3>1. (clean /\ r.id \in sole /\ ~done) \in BOOLEAN
      OBVIOUS
    <3>2. clean' = (clean /\ r.id \in sole /\ ~done)
      BY <2>1
    <3> QED
      BY <3>1, <3>2, Zenon
  <2>3. /\ watchlists' \in Lists /\ activeId' \in Nat /\ kept' \in [lists : Lists, active : Nat]
        /\ ActiveKept \/ RefusalPutsBack
    <3>1. CASE r.op = "create"
      BY <1>1, <3>1 DEF ListsShaped, ActiveKept
    <3>2. CASE r.op = "delete"
      <4>1. watchlists' = r.shot /\ activeId' = r.was /\ kept' = kept
        BY <1>1, <3>2
      <4>2. ActiveKept \/ RefusalPutsBack
        BY <2>1, <3>2, <4>1 DEF ActiveKept, RefusalPutsBack
      <4> QED
        BY <1>2, <4>1, <4>2 DEF ListsShaped
    <3>3. CASE r.op = "add"
      <4>1. /\ watchlists' = Take(watchlists, r.list, CHOOSE i \in r.item : TRUE)
            /\ activeId' = activeId /\ PersistToStorage
        BY <1>1, <3>3
      <4> QED
        BY <4>1, TakeItem DEF ListsShaped, ActiveKept, PersistToStorage
    <3>4. CASE r.op = "remove"
      <4>1. /\ watchlists' = r.shot /\ activeId' = activeId
            /\ kept' = [lists |-> r.shot, active |-> r.was]
        BY <1>1, <3>4
      <4>2. RefusalPutsBack
        BY <2>1, <3>4 DEF RefusalPutsBack
      <4> QED
        BY <1>2, <4>1, <4>2 DEF ListsShaped
    <3> QED
      BY <1>2, <1>5, <3>1, <3>2, <3>3, <3>4 DEF Edits
  <2> QED
    BY <1>3, <2>1, <2>2, <2>3 DEF ListsShaped
<1> QED
  BY <1>4, <1>5

LEMMA ShapedInit == ListsInit => ListsShaped
<1> SUFFICES ASSUME ListsInit PROVE ListsShaped
  OBVIOUS
<1>1. <<>> \in Lists
  BY EmptyLists
<1>2. ASSUME NEW s \in Listed
      PROVE  <<[id |-> 2, items |-> {}],
               [id |-> 3, items |-> {[id |-> 0, stock |-> s, saved |-> TRUE]}]>> \in Lists
  BY DEF Lists, Item
<1>3. (CHOOSE t \in Listed : TRUE) \in Listed
  BY ListsAssumption
<1>4. watchlists \in Lists /\ shelves \in Lists /\ kept \in [lists : Lists, active : Nat]
  <2> DEFINE s == CHOOSE t \in Listed : TRUE
             two == <<[id |-> 2, items |-> {}],
                      [id |-> 3, items |-> {[id |-> 0, stock |-> s, saved |-> TRUE]}]>>
  <2>1. two \in Lists
    BY <1>2, <1>3
  <2>2. /\ watchlists = <<>>
        /\ \/ shelves = <<>> /\ kept = [lists |-> <<>>, active |-> NoList]
           \/ shelves = two /\ kept \in [lists : {shelves}, active : {2, 3}]
    BY DEF ListsInit
  <2> HIDE DEF two
  <2> QED
    BY <1>1, <2>1, <2>2 DEF NoList
<1>5. activeId \in Nat /\ nextId \in Nat /\ edits \in 0 .. MaxEdits /\ mounts \in 0 .. MaxMounts
  BY ListsAssumption DEF ListsInit, NoList
<1>6. isLoading \in BOOLEAN /\ clean \in BOOLEAN /\ requests = {}
  BY DEF ListsInit
<1> QED
  BY <1>4, <1>5, <1>6 DEF ListsShaped

LEMMA ShapedNext == ListsShaped /\ [ListsNext]_listVars => ListsShaped' /\ (ActiveKept \/ RefusalPutsBack)
<1>1. ListsShaped /\ UNCHANGED listVars => ListsShaped' /\ ActiveKept
  BY DEF listVars, ListsShaped, ActiveKept
<1> QED
  BY <1>1, MountShaped, LoadServedShaped, LoadAnsweredShaped, LoadFailedShaped, PanelShaped,
     CreateShaped, RenameShaped, DeleteShaped, PressedShaped, AnsweredShaped, FailsShaped
  DEF ListsNext

\* The active list is one of the lists unless a refusal puts back what was there before,
\* for any number of lists, edits and requests and whatever the order of the answers
\* (useWatchlistStore.js:329-354, 465).
THEOREM OnlyRefusalsLoseActive == ListsSpec => OnlyRemovalsLoseActive
<1>1. ListsShaped /\ [ListsNext]_listVars =>
        /\ ListsShaped'
        /\ [(activeId \in ListIds(watchlists) /\ activeId' \notin ListIds(watchlists')) =>
              \/ "remove" \in {r.op : r \in requests \ requests'}
              \/ \E r \in requests \ requests' :
                   r.op = "delete" /\ r.was \notin ListIds(r.shot)]_listVars
  BY ShapedNext DEF ActiveKept, RefusalPutsBack
<1> QED
  BY <1>1, ShapedInit, PTL DEF ListsSpec, OnlyRemovalsLoseActive
-----------------------------------------------------------------------------
(***************************************************************************)
(* That the panel ends with the lists of the server: what is shown are the *)
(* lists of the server with the edits that wait, for as long as nothing    *)
(* else was loaded.                                                        *)
(***************************************************************************)
Pending(op) == {r \in requests : r.op = op}

NumberedLists ==
  /\ nextId > LocalList
  /\ \A r \in requests : LocalList < r.id /\ r.id < nextId
  /\ \A q, r \in requests : q.id = r.id => q = r

\* What the database has is known to the browser by other ids than what it asks for.
Shelved ==
  /\ Distinct(shelves)
  /\ \A l \in ListIds(shelves) :
       /\ LocalList < l /\ l < nextId /\ \A r \in Pending("create") : r.id # l
       /\ \A i \in Items(shelves, l) :
            i.saved /\ i.id < nextId /\ \A r \in Pending("add") : r.id # i.id

AskedAlone ==
  \A r \in requests : r.id \in sole =>
    requests = {r} /\ (r.op = "load" /\ r.shot # <<>> => r.shot = shelves)

Told == NumberedLists /\ Shelved /\ AskedAlone

LEMMA ToldSends ==
  ASSUME ListsShaped, Told, NEW rest, NEW r, Sends(rest, r), shelves' = shelves
  PROVE  Told'
<1>1. /\ rest \subseteq requests /\ r \in Calls /\ r.id = nextId
      /\ r.op = "load" => r.shot = <<>>
      /\ requests' = rest \cup {r} /\ sole' = (IF rest = {} THEN {r.id} ELSE {})
      /\ nextId' = nextId + 1
  BY DEF Sends, New, SendTo
<1>2. nextId \in Nat /\ nextId > LocalList /\ LocalList \in Nat
  BY DEF ListsShaped, Told, NumberedLists, LocalList
<1>3. /\ \A q \in requests : q.id \in Nat /\ LocalList < q.id /\ q.id < nextId
      /\ \A p, q \in requests : p.id = q.id => p = q
  BY DEF ListsShaped, Calls, Told, NumberedLists
<1>4. NumberedLists'
  <2>1. \A q \in requests' : LocalList < q.id /\ q.id < nextId'
    BY <1>1, <1>2, <1>3
  <2>2. \A p, q \in requests' : p.id = q.id => p = q
    BY <1>1, <1>2, <1>3
  <2> QED
    BY <1>1, <1>2, <2>1, <2>2 DEF NumberedLists
<1>5. Shelved'
  <2>1. \A q \in requests' : q \in requests \/ q.id = nextId
    BY <1>1
  <2>2. ASSUME NEW l \in ListIds(shelves)
        PROVE  /\ LocalList < l /\ l < nextId' /\ \A q \in Pending("create")' : q.id # l
    <3>1. l \in Nat /\ LocalList < l /\ l < nextId /\ \A q \in Pending("create") : q.id # l
      BY ItemsTyped DEF ListsShaped, Told, Shelved
    <3> QED
      BY <1>1, <1>2, <2>1, <3>1 DEF Pending
  <2>3. ASSUME NEW l \in ListIds(shelves), NEW i \in Items(shelves, l)
        PROVE  i.saved /\ i.id < nextId' /\ \A q \in Pending("add")' : q.id # i.id
    <3>1. i.saved /\ i.id < nextId /\ \A q \in Pending("add") : q.id # i.id
      BY DEF Told, Shelved
    <3>2. i.id \in Nat
      BY ItemsTyped DEF ListsShaped, Item
    <3> QED
      BY <1>1, <1>2, <2>1, <3>1, <3>2 DEF Pending
  <2> QED
    BY <2>2, <2>3 DEF Told, Shelved
<1>6. AskedAlone'
  BY <1>1 DEF AskedAlone
<1> QED
  BY <1>4, <1>5, <1>6 DEF Told

LEMMA ToldQuiet ==
  ASSUME ListsShaped, Told, requests' \subseteq requests, sole' \subseteq sole, shelves' = shelves,
         nextId' \in {nextId, nextId + 1}
  PROVE  Told'
<1>1. /\ nextId \in Nat /\ nextId > LocalList
      /\ \A q \in requests : q.id \in Nat /\ LocalList < q.id /\ q.id < nextId
      /\ \A p, q \in requests : p.id = q.id => p = q
  BY DEF ListsShaped, Calls, Told, NumberedLists
<1>2. NumberedLists'
  BY <1>1 DEF NumberedLists, LocalList
<1>3. Shelved'
  <2>1. ASSUME NEW l \in ListIds(shelves)
        PROVE  /\ LocalList < l /\ l < nextId' /\ \A q \in Pending("create")' : q.id # l
               /\ \A i \in Items(shelves, l) :
                    i.saved /\ i.id < nextId' /\ \A q \in Pending("add")' : q.id # i.id
    <3>1. l \in Nat /\ \A i \in Items(shelves, l) : i.id \in Nat
      BY ItemsTyped DEF ListsShaped, Item
    <3>2. /\ LocalList < l /\ l < nextId /\ \A q \in Pending("create") : q.id # l
          /\ \A i \in Items(shelves, l) :
               i.saved /\ i.id < nextId /\ \A q \in Pending("add") : q.id # i.id
      BY DEF Told, Shelved
    <3> QED
      BY <1>1, <3>1, <3>2 DEF Pending
  <2> QED
    BY <2>1 DEF Told, Shelved
<1>4. AskedAlone'
  BY DEF Told, AskedAlone
<1> QED
  BY <1>2, <1>3, <1>4 DEF Told

LEMMA ToldEffect ==
  ASSUME ListsShaped, Told, NEW r \in requests, r.op # "load", Accepts(r), shelves' = Effect(r),
         requests' = requests \ {r}, sole' = {}, nextId' = nextId
  PROVE  Told'
<1>1. /\ nextId \in Nat /\ nextId > LocalList
      /\ \A q \in requests : q.id \in Nat /\ LocalList < q.id /\ q.id < nextId
      /\ \A p, q \in requests : p.id = q.id => p = q
  BY DEF ListsShaped, Calls, Told, NumberedLists
<1>2. r \in Calls /\ WellMade(r) /\ r.op \in Edits /\ shelves \in Lists /\ Distinct(shelves)
  BY DEF ListsShaped, Calls, Told, Shelved
<1>3. NumberedLists' /\ AskedAlone'
  BY <1>1 DEF NumberedLists, AskedAlone
<1>4. \A q \in requests' : q \in requests /\ q.id # r.id
  BY <1>1
<1>5. \A l \in ListIds(shelves) :
        /\ LocalList < l /\ l < nextId /\ \A q \in Pending("create") : q.id # l
        /\ \A i \in Items(shelves, l) :
             i.saved /\ i.id < nextId /\ \A q \in Pending("add") : q.id # i.id
  BY DEF Told, Shelved
<1>6. \A op : Pending(op)' \subseteq Pending(op)
  BY DEF Pending
<1>7. CASE r.op \in {"rename", "delete", "remove"}
  <2>1. /\ Distinct(shelves') /\ ListIds(shelves') \subseteq ListIds(shelves)
        /\ \A l \in ListIds(shelves') : Items(shelves', l) \subseteq Items(shelves, l)
    <3>1. CASE r.op = "rename"
      BY <1>2, <3>1, EffectOf
    <3>2. CASE r.op = "delete"
      <4>1. r.list \in ListIds(shelves)
        BY <3>2 DEF Accepts
      <4>2. shelves' = Without(shelves, r.list)
        BY <3>2, EffectOf
      <4>3. /\ Distinct(shelves') /\ ListIds(shelves') = ListIds(shelves) \ {r.list}
            /\ \A m : m # r.list => Items(shelves', m) = Items(shelves, m)
        BY <1>2, <4>1, <4>2, WithoutList
      <4> QED
        BY <4>3
    <3>3. CASE r.op = "remove"
      <4> DEFINE i == CHOOSE i \in r.item : TRUE
      <4>1. shelves' = Take(shelves, r.list, i)
        BY <3>3, EffectOf
      <4> HIDE DEF i
      <4>2. Distinct(shelves') /\ ListIds(shelves') = ListIds(shelves)
        BY <1>2, <4>1, TakeItem
      <4>3. ASSUME NEW l PROVE Items(shelves', l) \subseteq Items(shelves, l)
        <5>1. CASE l = r.list
          BY <1>2, <4>1, <5>1, TakeItem
        <5>2. CASE l # r.list
          BY <1>2, <4>1, <5>2, TakeItem
        <5> QED
          BY <5>1, <5>2
      <4> QED
        BY <4>2, <4>3
    <3> QED
      BY <1>7, <3>1, <3>2, <3>3
  <2> QED
    BY <1>3, <1>5, <1>6, <2>1 DEF Told, Shelved
<1>8. CASE r.op = "create"
  <2>1. r \in Pending("create") /\ r.id \in Nat /\ r.id \notin ListIds(shelves)
    BY <1>1, <1>5, <1>8 DEF Pending
  <2>a. shelves' = Append(shelves, Created(r))
    BY <1>8, EffectOf
  <2>2. /\ Distinct(shelves') /\ ListIds(shelves') = ListIds(shelves) \cup {r.id}
        /\ \A l : Items(shelves', l) = Items(shelves, l)
    BY <1>2, <2>1, <2>a, NewList
  <2>3. Items(shelves, r.id) = {}
    BY <1>2, <2>1, ItemsTyped
  <2>4. ASSUME NEW l \in ListIds(shelves')
        PROVE  /\ LocalList < l /\ l < nextId' /\ \A q \in Pending("create")' : q.id # l
               /\ \A i \in Items(shelves', l) :
                    i.saved /\ i.id < nextId' /\ \A q \in Pending("add")' : q.id # i.id
    <3>1. CASE l \in ListIds(shelves)
      BY <1>5, <1>6, <2>2, <3>1
    <3>2. CASE l = r.id
      BY <1>1, <1>4, <2>2, <2>3, <3>2 DEF Pending
    <3> QED
      BY <2>2, <3>1, <3>2
  <2> QED
    BY <1>3, <2>2, <2>4 DEF Told, Shelved
<1>9. CASE r.op = "add"
  <2>1. Saved(r) \in Item /\ Saved(r).id = r.id /\ Saved(r).saved
    BY <1>2, <1>9, SavedIs
  <2>2. shelves' = Put(shelves, r.list, Saved(r)) /\ r.list \in ListIds(shelves)
    BY <1>9, EffectOf DEF Accepts
  <2>3. Distinct(shelves') /\ ListIds(shelves') = ListIds(shelves)
    BY <1>2, <2>1, <2>2, PutItem
  <2>4. ASSUME NEW l, NEW i \in Items(shelves', l) PROVE i \in Items(shelves, l) \/ i = Saved(r)
    <3>1. CASE l = r.list
      BY <1>2, <2>1, <2>2, <2>4, <3>1, PutItem
    <3>2. CASE l # r.list
      BY <1>2, <2>1, <2>2, <2>4, <3>2, PutItem
    <3> QED
      BY <3>1, <3>2
  <2>5. ASSUME NEW l \in ListIds(shelves'), NEW i \in Items(shelves', l)
        PROVE  i.saved /\ i.id < nextId' /\ \A q \in Pending("add")' : q.id # i.id
    <3>1. CASE i \in Items(shelves, l)
      BY <1>5, <1>6, <2>3, <3>1
    <3>2. CASE i = Saved(r)
      BY <1>1, <1>4, <2>1, <3>2 DEF Pending
    <3> QED
      BY <2>4, <3>1, <3>2
  <2> QED
    BY <1>3, <1>5, <1>6, <2>3, <2>5 DEF Told, Shelved
<1> QED
  BY <1>2, <1>7, <1>8, <1>9 DEF Edits

\* Nothing is sent and nothing was answered.
Kept ==
  /\ requests' = requests /\ sole' = sole /\ clean' = clean
  /\ nextId' \in {nextId, nextId + 1}

\* What the user does sends a request or changes this browser alone.
LEMMA PanelAsks ==
  ASSUME ListsShaped, SelectTab \/ DropRow
  PROVE  Kept /\ shelves' = shelves /\ mounts' = mounts
  BY DEF SelectTab, DropRow, SetActiveWatchlist, ReorderItems, Kept

LEMMA CreateAsks ==
  ASSUME ListsShaped, SubmitCreate
  PROVE  /\ \E r : Sends(requests, r) /\ r.op = "create"
         /\ UNCHANGED <<watchlists, activeId, shelves, mounts>>
<1> DEFINE r == Ask("create", NoList, {}, <<>>, NoList)
<1>1. /\ SendTo(requests, r) /\ Edited /\ watchlists' = watchlists /\ activeId' = activeId
  BY DEF SubmitCreate, CreateWatchlist
<1>2. New(r) /\ r.op = "create"
  <2>1. NoList \in Nat
    BY DEF NoList
  <2> QED BY <2>1, NewName
<1> HIDE DEF r
<1> QED
  BY <1>1, <1>2, EditedIs DEF Sends

LEMMA RenameAsks ==
  ASSUME ListsShaped, CommitRename
  PROVE  /\ Kept \/ \E r : Sends(requests, r) /\ r.op = "rename"
         /\ UNCHANGED <<watchlists, activeId, shelves, mounts>>
<1>1. PICK l \in ListIds(watchlists) : RenameWatchlist(l)
  BY DEF CommitRename
<1> DEFINE r == Ask("rename", l, {}, <<>>, NoList)
<1>2. /\ Edited /\ watchlists' = watchlists /\ activeId' = activeId
      /\ l = LocalList => UNCHANGED <<requests, sole, clean, nextId>>
      /\ l # LocalList => SendTo(requests, r)
  BY <1>1 DEF RenameWatchlist
<1>3. l \in Nat
  BY ItemsTyped DEF ListsShaped
<1>4. New(r) /\ r.op = "rename"
  BY <1>3, NewName
<1> HIDE DEF r
<1>5. l = LocalList => Kept
  BY <1>2 DEF Kept
<1> QED
  BY <1>2, <1>4, <1>5, EditedIs DEF Sends

LEMMA DeleteAsks ==
  ASSUME ListsShaped, PressDelete
  PROVE  \E l \in ListIds(watchlists) :
           /\ Len(watchlists) > 1 /\ watchlists' = Without(watchlists, l)
           /\ activeId' = (IF activeId = l THEN Without(watchlists, l)[1].id ELSE activeId)
           /\ l = LocalList => Kept
           /\ l # LocalList =>
                \E r : /\ Sends(requests, r) /\ r.op = "delete" /\ r.list = l
                       /\ r.shot = watchlists /\ r.was = activeId
           /\ shelves' = shelves /\ mounts' = mounts
<1>1. PICK l \in ListIds(watchlists) : DeleteWatchlist(l)
  BY DEF PressDelete
<1> DEFINE r == Ask("delete", l, {}, watchlists, activeId)
<1>2. /\ Edited /\ Len(watchlists) > 1 /\ watchlists' = Without(watchlists, l)
      /\ activeId' = (IF activeId = l THEN Without(watchlists, l)[1].id ELSE activeId)
      /\ l = LocalList => UNCHANGED <<requests, sole, clean, nextId>>
      /\ l # LocalList => SendTo(requests, r)
  BY <1>1 DEF DeleteWatchlist, Deleted
<1>3. l \in Nat
  BY ItemsTyped DEF ListsShaped
<1>4. New(r) /\ r.op = "delete" /\ r.list = l /\ r.shot = watchlists /\ r.was = activeId
  BY <1>2, <1>3, NewEdit DEF Edits, ListsShaped
<1> HIDE DEF r
<1>5. l = LocalList => Kept
  BY <1>2 DEF Kept
<1>6. l # LocalList =>
        \E q : /\ Sends(requests, q) /\ q.op = "delete" /\ q.list = l
               /\ q.shot = watchlists /\ q.was = activeId
  BY <1>2, <1>4 DEF Sends
<1> QED
  BY <1>2, <1>5, <1>6, EditedIs

LEMMA RemoveAsks ==
  ASSUME ListsShaped, NEW i \in Item, RemoveItem(i)
  PROVE  /\ watchlists' = Take(watchlists, activeId, i) /\ activeId' = activeId
         /\ activeId = LocalList => Kept
         /\ activeId # LocalList =>
              \E r : /\ Sends(requests, r) /\ r.op = "remove" /\ r.list = activeId
                     /\ r.item = {i} /\ r.shot = watchlists /\ r.was = activeId
         /\ shelves' = shelves /\ mounts' = mounts
<1> DEFINE r == Ask("remove", activeId, {i}, watchlists, activeId)
<1>1. /\ Edited /\ watchlists' = Take(watchlists, activeId, i) /\ activeId' = activeId
      /\ activeId = LocalList => UNCHANGED <<requests, sole, clean, nextId>>
      /\ activeId # LocalList => SendTo(requests, r)
  BY DEF RemoveItem
<1>2. /\ New(r) /\ r.op = "remove" /\ r.list = activeId
      /\ r.item = {i} /\ r.shot = watchlists /\ r.was = activeId
  BY NewEdit DEF Edits, ListsShaped
<1> HIDE DEF r
<1>3. activeId = LocalList => Kept
  BY <1>1 DEF Kept
<1>4. activeId # LocalList =>
        \E q : /\ Sends(requests, q) /\ q.op = "remove" /\ q.list = activeId
               /\ q.item = {i} /\ q.shot = watchlists /\ q.was = activeId
  BY <1>1, <1>2 DEF Sends
<1> QED
  BY <1>1, <1>3, <1>4, EditedIs

LEMMA AddAsks ==
  ASSUME ListsShaped, NEW k \in Listed, AddItem(k)
  PROVE  /\ shelves' = shelves /\ mounts' = mounts
         /\ \/ /\ watchlists = <<>> \/ activeId = NoList
               /\ \E r : Sends(requests, r) /\ r.op = "load"
            \/ /\ activeId \in ListIds(watchlists)
               /\ AddTo(watchlists, activeId, k, requests)
               /\ activeId = LocalList => Kept
               /\ activeId # LocalList =>
                    \E r : /\ Sends(requests, r) /\ r.op = "add" /\ r.list = activeId
                           /\ r.item = {Temp(k)}
<1>1. shelves' = shelves /\ mounts' = mounts
  BY EditedIs DEF AddItem
<1>2. CASE watchlists = <<>> \/ activeId = NoList
  <2>1. LoadWatchlist(requests, k)
    BY <1>2 DEF AddItem
  <2> QED
    BY <1>1, <1>2, <2>1, LoadSends
<1>3. CASE ~(watchlists = <<>> \/ activeId = NoList)
  <2>1. activeId \in ListIds(watchlists) /\ AddTo(watchlists, activeId, k, requests)
    BY <1>3 DEF AddItem
  <2>2. /\ activeId = LocalList =>
             requests' = requests /\ nextId' = nextId + 1 /\ sole' = sole /\ clean' = clean
        /\ activeId # LocalList =>
             \E r : Sends(requests, r) /\ r.op = "add" /\ r.list = activeId /\ r.item = {Temp(k)}
    <3>1. watchlists \in Lists /\ activeId \in Nat /\ requests \subseteq requests
      BY DEF ListsShaped
    <3> QED
      BY <2>1, <3>1, AddSends
  <2>3. activeId = LocalList => Kept
    BY <2>2 DEF Kept
  <2> QED
    BY <1>1, <2>1, <2>2, <2>3
<1> QED
  BY <1>2, <1>3

\* What a load that fails or is answered leaves to ask.
LEMMA AddsAfterLoad ==
  ASSUME ListsShaped, NEW ls \in Lists, NEW l \in Nat, NEW k \in Listed, NEW r \in requests,
         AddTo(ls, l, k, requests \ {r})
  PROVE  \/ \E q : Sends(requests \ {r}, q)
         \/ /\ requests' = requests \ {r} /\ sole' = sole /\ clean' = clean
            /\ nextId' = nextId + 1
<1> DEFINE rest == requests \ {r}
<1>1. rest \subseteq requests
  OBVIOUS
<1>2. /\ l = LocalList =>
           requests' = rest /\ nextId' = nextId + 1 /\ sole' = sole /\ clean' = clean
      /\ l # LocalList => \E q : Sends(rest, q)
  BY <1>1, AddSends
<1> QED
  BY <1>2

LEMMA LoadsAnswered ==
  ASSUME ListsShaped, LoadAnswered
  PROVE  \E r \in requests :
           /\ r.op = "load" /\ r.shot # <<>> /\ shelves' = shelves /\ mounts' = mounts
           /\ \/ /\ watchlists' = r.shot /\ activeId' = NextActive(r.shot, r.was)
                 /\ requests' = requests \ {r} /\ sole' = {} /\ clean' = (r.id \in sole)
                 /\ nextId' = nextId
              \/ /\ r.stock # NoStock
                 /\ \/ \E q : Sends(requests \ {r}, q)
                    \/ /\ requests' = requests \ {r} /\ sole' = sole /\ clean' = clean
                       /\ nextId' = nextId + 1
<1> DEFINE L(r) == NextActive(r.shot, r.was)
           Plain(r) == r.stock = NoStock \/ r.stock \in StocksOf(Items(r.shot, L(r)))
<1>1. PICK r \in requests :
        /\ r.op = "load" /\ r.shot # <<>> /\ isLoading' = FALSE
        /\ Plain(r) => /\ watchlists' = r.shot /\ activeId' = L(r)
                       /\ requests' = requests \ {r} /\ sole' = {} /\ clean' = (r.id \in sole)
                       /\ nextId' = nextId
        /\ ~Plain(r) => AddTo(r.shot, L(r), r.stock, requests \ {r})
        /\ UNCHANGED <<shelves, edits, mounts>>
  BY DEF LoadAnswered
<1>2. r.shot \in Lists /\ r.stock \in Listed \cup {NoStock}
  BY DEF ListsShaped, Calls
<1>3. L(r) \in Nat
  BY <1>1, <1>2, NextActiveIsThere, ItemsTyped
<1>4. CASE Plain(r)
  BY <1>1, <1>4
<1>5. CASE ~Plain(r)
  <2>1. r.stock \in Listed /\ r.stock # NoStock /\ AddTo(r.shot, L(r), r.stock, requests \ {r})
    BY <1>1, <1>2, <1>5
  <2> HIDE DEF Plain, L
  <2>2. \/ \E q : Sends(requests \ {r}, q)
        \/ /\ requests' = requests \ {r} /\ sole' = sole /\ clean' = clean
           /\ nextId' = nextId + 1
    BY <1>2, <1>3, <2>1, AddsAfterLoad
  <2> QED
    BY <1>1, <2>1, <2>2
<1> QED
  BY <1>4, <1>5

LEMMA LoadsFailed ==
  ASSUME ListsShaped, LoadFailed
  PROVE  \E r \in requests :
           /\ r.op = "load" /\ shelves' = shelves /\ mounts' = mounts
           /\ \/ /\ requests' = requests \ {r} /\ sole' = {} /\ clean' = FALSE
                 /\ nextId' = nextId
              \/ /\ r.stock # NoStock
                 /\ \/ \E q : Sends(requests \ {r}, q)
                    \/ /\ requests' = requests \ {r} /\ sole' = sole /\ clean' = clean
                       /\ nextId' = nextId + 1
<1> DEFINE Shot(r) == IF r.cached THEN watchlists ELSE <<[id |-> LocalList, items |-> {}]>>
           L(r) == IF r.cached THEN activeId ELSE LocalList
           Plain(r) == \/ r.stock = NoStock \/ L(r) \notin ListIds(Shot(r))
                       \/ r.stock \in StocksOf(Items(Shot(r), L(r)))
<1>1. PICK r \in requests :
        /\ r.op = "load"
        /\ Plain(r) => /\ requests' = requests \ {r} /\ sole' = {} /\ clean' = FALSE
                       /\ nextId' = nextId
        /\ ~Plain(r) => AddTo(Shot(r), L(r), r.stock, requests \ {r})
        /\ UNCHANGED <<shelves, edits, mounts>>
  BY DEF LoadFailed
<1>2. r.stock \in Listed \cup {NoStock}
  BY DEF ListsShaped, Calls
<1>3. Shot(r) \in Lists /\ L(r) \in Nat
  BY EmptyPanel DEF ListsShaped, LocalList
<1>4. CASE Plain(r)
  BY <1>1, <1>4
<1>5. CASE ~Plain(r)
  <2>1. /\ r.stock \in Listed /\ r.stock # NoStock
        /\ AddTo(Shot(r), L(r), r.stock, requests \ {r})
    BY <1>1, <1>2, <1>5
  <2> HIDE DEF Plain, L, Shot
  <2>2. \/ \E q : Sends(requests \ {r}, q)
        \/ /\ requests' = requests \ {r} /\ sole' = sole /\ clean' = clean
           /\ nextId' = nextId + 1
    BY <1>3, <2>1, AddsAfterLoad
  <2> QED
    BY <1>1, <2>1, <2>2
<1> QED
  BY <1>4, <1>5

LEMMA ServedTold ==
  ASSUME ListsShaped, Told, LoadServed
  PROVE  Told'
<1>1. PICK r \in requests :
        /\ r.op = "load" /\ r.shot = <<>>
        /\ shelves' = IF shelves = <<>> THEN <<[id |-> nextId, items |-> {}]>> ELSE shelves
        /\ nextId' = IF shelves = <<>> THEN nextId + 1 ELSE nextId
        /\ requests' = (requests \ {r}) \cup {[r EXCEPT !.shot = shelves']}
        /\ UNCHANGED <<watchlists, activeId, isLoading, kept, sole, clean, edits, mounts>>
  BY DEF LoadServed
<1> DEFINE r1 == [r EXCEPT !.shot = shelves']
<1>2. /\ nextId \in Nat /\ nextId > LocalList
      /\ \A q \in requests : q.id \in Nat /\ LocalList < q.id /\ q.id < nextId
      /\ \A p, q \in requests : p.id = q.id => p = q
  BY DEF ListsShaped, Calls, Told, NumberedLists
<1>3. r1.id = r.id /\ r1.op = "load" /\ r1.shot = shelves'
  <2>1. r \in Calls
    BY DEF ListsShaped
  <2> QED
    BY <1>1, <2>1 DEF Calls
<1> HIDE DEF r1
<1>4. \A q \in requests' : q \in requests \/ q = r1
  BY <1>1 DEF r1
<1>5. nextId' \in {nextId, nextId + 1} /\ nextId \in Nat
  BY <1>1, <1>2
<1>6. NumberedLists'
  <2>1. \A q \in requests' : LocalList < q.id /\ q.id < nextId'
    BY <1>2, <1>3, <1>4, <1>5 DEF LocalList
  <2>2. \A q \in requests' : q = r1 \/ (q \in requests /\ q # r)
    BY <1>1 DEF r1
  <2>3. \A p, q \in requests' : p.id = q.id => p = q
    BY <1>2, <1>3, <2>2
  <2>4. nextId' > LocalList
    BY <1>2, <1>5 DEF LocalList
  <2> QED
    BY <2>1, <2>3, <2>4 DEF NumberedLists
<1>7. \A op : op # "load" => Pending(op)' = Pending(op)
  <2>1. ASSUME NEW op, op # "load" PROVE Pending(op)' = Pending(op)
    <3>1. \A q : q \in Pending(op)' <=> q \in Pending(op)
      BY <1>1, <1>3, <2>1 DEF Pending, r1
    <3> QED
      BY <3>1
  <2> QED
    BY <2>1
<1>8. Shelved'
  <2>1. CASE shelves # <<>>
    <3>1. shelves' = shelves /\ nextId' = nextId
      BY <1>1, <2>1
    <3> QED
      BY <1>7, <3>1 DEF Told, Shelved
  <2>2. CASE shelves = <<>>
    <3>1. shelves' = <<[id |-> nextId, items |-> {}]>> /\ nextId' = nextId + 1
      BY <1>1, <2>2
    <3>2. /\ DOMAIN shelves' = {1} /\ shelves'[1].id = nextId /\ shelves'[1].items = {}
      BY <3>1
    <3>3. ListIds(shelves') = {nextId} /\ Items(shelves', nextId) = {}
      <4>1. \A l : l \in ListIds(shelves') <=> l = nextId
        BY <3>2, IdsAre
      <4>2. \A i : i \notin Items(shelves', nextId)
        BY <3>2, ItemsAre
      <4> QED
        BY <4>1, <4>2
    <3>4. Distinct(shelves')
      BY <3>2 DEF Distinct
    <3>5. \A q \in Pending("create")' : q.id # nextId
      BY <1>2, <1>7 DEF Pending
    <3>6. LocalList < nextId /\ nextId < nextId'
      BY <1>2, <3>1 DEF LocalList
    <3> QED
      BY <3>3, <3>4, <3>5, <3>6 DEF Shelved
  <2> QED
    BY <2>1, <2>2
<1>9. AskedAlone'
  <2>1. ASSUME NEW q \in requests', q.id \in sole
        PROVE  requests' = {q} /\ (q.shot # <<>> => q.shot = shelves' \/ q.op # "load")
    <3>1. CASE q = r1
      <4>1. requests = {r}
        BY <1>1, <1>3, <2>1, <3>1 DEF Told, AskedAlone
      <4> QED
        BY <1>1, <1>3, <3>1, <4>1 DEF r1
    <3>2. CASE q \in requests /\ q # r
      BY <1>1, <2>1, <3>2 DEF Told, AskedAlone
    <3> QED
      BY <1>1, <3>1, <3>2 DEF r1
  <2> QED
    BY <1>1, <2>1 DEF AskedAlone
<1> QED
  BY <1>6, <1>8, <1>9 DEF Told

\* The requests but r wait and the shelves are as they were.
LEMMA RestTold ==
  ASSUME ListsShaped, Told, NEW r, shelves' = shelves,
         \/ \E q : Sends(requests \ {r}, q)
         \/ requests' = requests \ {r} /\ sole' \in {sole, {}} /\ nextId' \in {nextId, nextId + 1}
  PROVE  Told'
<1>1. CASE \E q : Sends(requests \ {r}, q)
  BY <1>1, ToldSends
<1>2. CASE requests' = requests \ {r} /\ sole' \in {sole, {}} /\ nextId' \in {nextId, nextId + 1}
  BY <1>2, ToldQuiet
<1> QED
  BY <1>1, <1>2

LEMMA PressTold ==
  ASSUME ListsShaped, Told, shelves' = shelves, Kept \/ \E r : Sends(requests, r)
  PROVE  Told'
<1>1. CASE Kept
  BY <1>1, ToldQuiet DEF Kept
<1>2. CASE \E r : Sends(requests, r)
  BY <1>2, ToldSends
<1> QED
  BY <1>1, <1>2

\* A refused edit, as the requests and the shelves see it.
LEMMA FailsAsk ==
  ASSUME ListsShaped, EditFails
  PROVE  \E r \in requests :
           /\ r.op # "load" /\ mounts' = mounts
           /\ \/ r.op = "rename" /\ shelves' = shelves /\ \E q :
                   Sends(requests \ {r}, q) /\ q.op = "load" /\ q.stock = NoStock
              \/ /\ r.op # "rename" /\ requests' = requests \ {r} /\ sole' = {}
                 /\ nextId' = nextId
                 /\ \/ shelves' = Effect(r) /\ Accepts(r) /\ clean' = FALSE
                    \/ shelves' = shelves /\ clean' = (clean /\ r.id \in sole)
                 /\ r.op = "create" => watchlists' = watchlists /\ activeId' = activeId
                 /\ r.op = "delete" => watchlists' = r.shot /\ activeId' = r.was
                 /\ r.op = "add" =>
                      /\ watchlists' = Take(watchlists, r.list, CHOOSE i \in r.item : TRUE)
                      /\ activeId' = activeId
                 /\ r.op = "remove" => watchlists' = r.shot /\ activeId' = activeId
<1>1. PICK r \in requests, done \in BOOLEAN :
        /\ r.op # "load" /\ (done => Accepts(r)) /\ mounts' = mounts
        /\ shelves' = IF done THEN Effect(r) ELSE shelves
        /\ r.op = "rename" => LoadWatchlist(requests \ {r}, NoStock)
        /\ r.op # "rename" =>
             /\ requests' = requests \ {r} /\ sole' = {} /\ nextId' = nextId
             /\ clean' = (clean /\ r.id \in sole /\ ~done)
             /\ r.op = "create" => watchlists' = watchlists /\ activeId' = activeId
             /\ r.op = "delete" => watchlists' = r.shot /\ activeId' = r.was
             /\ r.op = "add" =>
                  /\ watchlists' = Take(watchlists, r.list, CHOOSE i \in r.item : TRUE)
                  /\ activeId' = activeId
             /\ r.op = "remove" => watchlists' = r.shot /\ activeId' = activeId
  BY DEF EditFails
<1>2. CASE r.op = "rename"
  <2>1. shelves' = shelves
    BY <1>1, <1>2, EffectOf
  <2>2. \E q : Sends(requests \ {r}, q) /\ q.op = "load" /\ q.stock = NoStock
    BY <1>1, <1>2, LoadSends
  <2> QED
    BY <1>1, <1>2, <2>1, <2>2
<1>3. CASE r.op # "rename"
  <2>1. CASE done
    <3>1. shelves' = Effect(r) /\ Accepts(r) /\ clean' = FALSE
      BY <1>1, <1>3, <2>1
    <3> QED
      BY <1>1, <1>3, <3>1
  <2>2. CASE ~done
    <3>1. shelves' = shelves /\ clean' = (clean /\ r.id \in sole)
      BY <1>1, <1>3, <2>2
    <3> QED
      BY <1>1, <1>3, <3>1
  <2> QED
    BY <2>1, <2>2
<1> QED
  BY <1>2, <1>3

LEMMA ToldNext == ListsShaped /\ Told /\ [ListsNext]_listVars => Told'
<1> SUFFICES ASSUME ListsShaped, Told, [ListsNext]_listVars PROVE Told'
  OBVIOUS
<1>1. CASE Mount
  <2>1. LoadWatchlist(requests, NoStock) /\ shelves' = shelves
    BY <1>1 DEF Mount
  <2>2. \E r : Sends(requests, r)
    BY <2>1, LoadSends
  <2> QED
    BY <2>1, <2>2, PressTold
<1>2. CASE LoadServed
  BY <1>2, ServedTold
<1>3. CASE LoadAnswered
  BY <1>3, LoadsAnswered, RestTold
<1>4. CASE LoadFailed
  BY <1>4, LoadsFailed, RestTold
<1>5. CASE SelectTab \/ DropRow
  BY <1>5, PanelAsks, PressTold
<1>6. CASE SubmitCreate
  BY <1>6, CreateAsks, PressTold
<1>7. CASE CommitRename
  BY <1>7, RenameAsks, PressTold
<1>8. CASE PressDelete
  BY <1>8, DeleteAsks, PressTold
<1>9. CASE AddFromDialog \/ RemoveRow \/ ToggleStar
  <2>1. ASSUME NEW k \in Listed, AddItem(k) PROVE Told'
    BY <2>1, AddAsks, PressTold
  <2>2. ASSUME NEW i \in Items(watchlists, activeId), RemoveItem(i) PROVE Told'
    <3>1. i \in Item
      BY ItemsTyped DEF ListsShaped
    <3> QED
      BY <2>2, <3>1, RemoveAsks, PressTold
  <2> QED
    BY <1>9, <2>1, <2>2, Pressed
<1>10. CASE EditAnswered
  BY <1>10, ToldEffect DEF EditAnswered
<1>11. CASE EditFails
  BY <1>11, FailsAsk, RestTold, ToldEffect
<1>12. CASE UNCHANGED listVars
  BY <1>12, ToldQuiet DEF listVars
<1> QED
  BY <1>1, <1>2, <1>3, <1>4, <1>5, <1>6, <1>7, <1>8, <1>9, <1>10, <1>11, <1>12 DEF ListsNext

\* A load that nothing overlapped and that has nothing to add.
Loading == \E r \in requests : requests = {r} /\ r.op = "load" /\ r.id \in sole /\ r.stock = NoStock

\* The removal of an item that the server does not know; it can only be refused.
Doomed == \E r \in Pending("remove") : r.id \notin sole /\ \E i \in r.item : ~i.saved

\* Item i of list l with the edits that wait.
ShownItem(l, i) ==
  /\ \/ i \in Items(shelves, l)
     \/ \E r \in Pending("add") : r.list = l /\ i \in r.item
  /\ \A r \in Pending("remove") : r.list = l => i \notin r.item

ShowsEdits ==
  /\ Distinct(watchlists) /\ watchlists # <<>> /\ activeId # NoList
  /\ ListIds(watchlists) = {l \in ListIds(shelves) : \A r \in Pending("delete") : r.list # l}
  /\ \A l \in ListIds(watchlists) : \A i : i \in Items(watchlists, l) <=> ShownItem(l, i)

SameLists(ls, ms) ==
  /\ ListIds(ls) = ListIds(ms)
  /\ \A l \in ListIds(ls) : Items(ls, l) = Items(ms, l)

\* What a refusal puts back.
PutsBack(r) ==
  SameLists(r.shot, shelves) /\ Distinct(r.shot) /\ r.shot # <<>> /\ r.was # NoList

EditsWaiting ==
  /\ \A r \in Pending("delete") :
       /\ r.list \in ListIds(shelves)
       /\ \A q \in Pending("delete") : q.list = r.list => q = r
  /\ \A r \in Pending("add") : r.list < nextId /\ \A q \in Pending("create") : q.id # r.list
  /\ \A r \in Pending("remove") : \A i \in r.item :
       i.saved /\ i.id < nextId /\ \A q \in Pending("add") : q.id # i.id
  /\ \A r \in Pending("delete") \cup Pending("remove") : r.id \in sole => PutsBack(r)

Followed == ShowsEdits /\ EditsWaiting

Fresh ==
  clean /\ mounts > 0 => Loading \/ (Pending("load") = {} /\ (Doomed \/ Followed))

\* A load that leaves the panel clean is sent alone.
LEMMA LoadFresh ==
  ASSUME NEW rest, NEW r, Sends(rest, r), r.op = "load", clean'
  PROVE  rest = {} /\ (r.stock = NoStock => Loading')
<1>1. /\ requests' = rest \cup {r} /\ sole' = (IF rest = {} THEN {r.id} ELSE {})
      /\ \A q \in rest : "load" \notin {q.op, r.op}
  BY DEF Sends, SendTo
<1> QED
  BY <1>1 DEF Loading

\* An edit that leaves the panel clean is sent while no load waits.
LEMMA SendFresh ==
  ASSUME ListsShaped, Told, Fresh, NEW r, Sends(requests, r), r.op # "load", clean', mounts' > 0,
         mounts' = mounts
  PROVE  Pending("load")' = {} /\ (Doomed' \/ Followed)
<1>1. /\ requests' = requests \cup {r} /\ sole' = (IF requests = {} THEN {r.id} ELSE {})
      /\ \A q \in requests : q.op # "load"
      /\ clean /\ r.id = nextId
  BY DEF Sends, SendTo, New
<1>2. Pending("load") = {} /\ Pending("load")' = {}
  BY <1>1 DEF Pending
<1>3. Doomed \/ Followed
  BY <1>1 DEF Fresh, Loading
<1>4. ASSUME Doomed PROVE Doomed'
  <2>1. PICK q \in requests : q.op = "remove" /\ \E i \in q.item : ~i.saved
    BY <1>4 DEF Doomed, Pending
  <2>2. sole' = {}
    BY <1>1, <2>1
  <2> QED
    BY <1>1, <2>1, <2>2 DEF Doomed, Pending
<1> QED
  BY <1>2, <1>3, <1>4

\* A step of this browser alone, that sends nothing.
LEMMA KeptFresh ==
  ASSUME Fresh, Kept, mounts' = mounts, clean', mounts' > 0
  PROVE  Loading' \/ (Pending("load")' = {} /\ (Doomed' \/ Followed))
<1>1. Loading => Loading'
  BY DEF Kept, Loading
<1>2. Doomed => Doomed'
  BY DEF Kept, Doomed, Pending
<1>3. Pending("load") = {} => Pending("load")' = {}
  BY DEF Kept, Pending
<1> QED
  BY <1>1, <1>2, <1>3 DEF Fresh, Kept

LEMMA ShelfIds ==
  ASSUME ListsShaped, Told, ShowsEdits
  PROVE  \A l \in ListIds(watchlists) :
           l \in ListIds(shelves) /\ l \in Nat /\ LocalList < l /\ l < nextId /\ l # NoList
<1>1. ASSUME NEW l \in ListIds(watchlists) PROVE l \in ListIds(shelves) /\ l \in Nat
  BY ItemsTyped DEF ListsShaped, ShowsEdits
<1>2. \A l \in ListIds(shelves) : LocalList < l /\ l < nextId
  BY DEF Told, Shelved
<1> QED
  BY <1>1, <1>2 DEF LocalList, NoList

\* The edits that wait go on waiting while the shelves are as they were.
LEMMA WaitingKept ==
  ASSUME ListsShaped, EditsWaiting, requests' \subseteq requests, sole' \subseteq sole,
         shelves' = shelves, nextId' \in {nextId, nextId + 1}
  PROVE  EditsWaiting'
<1>1. \A op : Pending(op)' \subseteq Pending(op)
  BY DEF Pending
<1>2. /\ nextId \in Nat
      /\ \A op : \A r \in Pending(op) : r.list \in Nat /\ \A i \in r.item : i.id \in Nat
  BY DEF ListsShaped, Calls, Item, Pending
<1>3. \A r : PutsBack(r) => PutsBack(r)'
  BY DEF PutsBack
<1>4. \A r \in Pending("delete")' :
        /\ r.list \in ListIds(shelves')
        /\ \A q \in Pending("delete")' : q.list = r.list => q = r
  BY <1>1 DEF EditsWaiting
<1>5. \A r \in Pending("add")' :
        r.list < nextId' /\ \A q \in Pending("create")' : q.id # r.list
  BY <1>1, <1>2 DEF EditsWaiting
<1>6. \A r \in Pending("remove")' : \A i \in r.item :
        i.saved /\ i.id < nextId' /\ \A q \in Pending("add")' : q.id # i.id
  BY <1>1, <1>2 DEF EditsWaiting
<1>7. \A r \in Pending("delete")' \cup Pending("remove")' : r.id \in sole' => PutsBack(r)'
  BY <1>1, <1>3 DEF EditsWaiting
<1> QED
  BY <1>4, <1>5, <1>6, <1>7 DEF EditsWaiting

LEMMA WaitingSends ==
  ASSUME ListsShaped, Told, EditsWaiting, NEW r, Sends(requests, r), shelves' = shelves,
         r.op = "delete" =>
           r.list \in ListIds(shelves) /\ \A q \in Pending("delete") : q.list # r.list,
         r.op = "add" => r.list < nextId /\ \A q \in Pending("create") : q.id # r.list,
         r.op = "remove" =>
           \A i \in r.item : i.saved /\ i.id < nextId /\ \A q \in Pending("add") : q.id # i.id,
         r.op \in {"delete", "remove"} /\ requests = {} => PutsBack(r)
  PROVE  EditsWaiting'
<1>1. /\ requests' = requests \cup {r} /\ sole' = (IF requests = {} THEN {r.id} ELSE {})
      /\ nextId' = nextId + 1 /\ r.id = nextId /\ r \in Calls
  BY DEF Sends, SendTo, New
<1>2. /\ nextId \in Nat
      /\ \A op : \A q \in Pending(op) :
           q.list \in Nat /\ q.id < nextId /\ \A i \in q.item : i.id \in Nat
      /\ r.list \in Nat /\ \A i \in r.item : i.id \in Nat
  BY <1>1 DEF ListsShaped, Calls, Item, Pending, Told, NumberedLists
<1>3. \A op : \A q \in Pending(op)' : q \in Pending(op) \/ (q = r /\ q.op = op)
  BY <1>1 DEF Pending
<1>4. \A q \in Pending("delete")' :
        /\ q.list \in ListIds(shelves')
        /\ \A p \in Pending("delete")' : p.list = q.list => p = q
  <2>1. \A q \in Pending("delete")' : q \in Pending("delete") \/ (q = r /\ r.op = "delete")
    BY <1>3
  <2> QED
    BY <2>1 DEF EditsWaiting
<1>5. \A q \in Pending("add")' :
        q.list < nextId' /\ \A p \in Pending("create")' : p.id # q.list
  <2>1. \A q \in Pending("add")' : q \in Pending("add") \/ (q = r /\ r.op = "add")
    BY <1>3
  <2>2. \A q \in Pending("create")' : q \in Pending("create") \/ (q = r /\ r.op = "create")
    BY <1>3
  <2>3. \A q \in Pending("add")' : q.list < nextId /\ q.list \in Nat
    BY <1>2, <2>1 DEF EditsWaiting
  <2>4. \A q \in Pending("add")' : \A p \in Pending("create")' : p.id # q.list
    BY <1>1, <1>2, <2>1, <2>2, <2>3 DEF EditsWaiting
  <2> QED
    BY <1>1, <1>2, <2>3, <2>4
<1>6. \A q \in Pending("remove")' : \A i \in q.item :
        i.saved /\ i.id < nextId' /\ \A p \in Pending("add")' : p.id # i.id
  <2>1. \A q \in Pending("remove")' : q \in Pending("remove") \/ (q = r /\ r.op = "remove")
    BY <1>3
  <2>2. \A q \in Pending("add")' : q \in Pending("add") \/ q.id = nextId
    BY <1>1, <1>3
  <2>3. \A q \in Pending("remove")' : \A i \in q.item :
          i.saved /\ i.id < nextId /\ i.id \in Nat /\ \A p \in Pending("add") : p.id # i.id
    BY <1>2, <2>1 DEF EditsWaiting
  <2> QED
    BY <1>1, <1>2, <2>2, <2>3
<1>7. \A q \in Pending("delete")' \cup Pending("remove")' : q.id \in sole' => PutsBack(q)'
  <2>1. ASSUME NEW q \in Pending("delete")' \cup Pending("remove")', q.id \in sole'
        PROVE  PutsBack(q)'
    <3>1. requests = {} /\ q = r /\ r.op \in {"delete", "remove"}
      BY <1>1, <2>1 DEF Pending
    <3> QED
      BY <3>1 DEF PutsBack
  <2> QED
    BY <2>1
<1> QED
  BY <1>4, <1>5, <1>6, <1>7 DEF EditsWaiting

LEMMA PanelFollows ==
  ASSUME ListsShaped, Told, Followed, SelectTab \/ DropRow
  PROVE  Followed'
<1>1. /\ watchlists' = watchlists /\ shelves' = shelves /\ requests' = requests /\ sole' = sole
      /\ nextId' = nextId
      /\ activeId' = activeId \/ activeId' \in ListIds(watchlists)
  BY DEF SelectTab, DropRow, SetActiveWatchlist, ReorderItems
<1>2. EditsWaiting'
  BY <1>1, WaitingKept DEF Followed
<1>3. activeId' # NoList
  BY <1>1, ShelfIds DEF Followed, ShowsEdits
<1> QED
  BY <1>1, <1>2, <1>3 DEF Followed, ShowsEdits, Pending, ShownItem

\* The lists and items shown depend on what waits to be deleted, added and removed.
LEMMA SentShown ==
  ASSUME NEW r, Sends(requests, r), shelves' = shelves
  PROVE  /\ r.op # "delete" => Pending("delete")' = Pending("delete")
         /\ r.op = "delete" => Pending("delete")' = Pending("delete") \cup {r}
         /\ r.op \notin {"add", "remove"} => \A l, i : ShownItem(l, i)' <=> ShownItem(l, i)
         /\ r.op = "add" => \A l, i :
              ShownItem(l, i)' <=>
                /\ \/ i \in Items(shelves, l)
                   \/ \E q \in Pending("add") : q.list = l /\ i \in q.item
                   \/ r.list = l /\ i \in r.item
                /\ \A q \in Pending("remove") : q.list = l => i \notin q.item
         /\ r.op = "remove" => \A l, i :
              ShownItem(l, i)' <=> ShownItem(l, i) /\ ~(r.list = l /\ i \in r.item)
<1>1. requests' = requests \cup {r}
  BY DEF Sends, SendTo
<1>2. \A op : Pending(op)' = IF r.op = op THEN Pending(op) \cup {r} ELSE Pending(op)
  BY <1>1 DEF Pending
<1>3. \A l, i : ShownItem(l, i)' <=>
        /\ \/ i \in Items(shelves, l)
           \/ \E q \in Pending("add")' : q.list = l /\ i \in q.item
        /\ \A q \in Pending("remove")' : q.list = l => i \notin q.item
  BY DEF ShownItem
<1>4. /\ r.op # "delete" => Pending("delete")' = Pending("delete")
      /\ r.op = "delete" => Pending("delete")' = Pending("delete") \cup {r}
  BY <1>2
<1>5. r.op # "add" => Pending("add")' = Pending("add")
  BY <1>2
<1>6. r.op # "remove" => Pending("remove")' = Pending("remove")
  BY <1>2
<1>7. ASSUME r.op = "add", NEW l, NEW i
      PROVE  ShownItem(l, i)' <=>
                /\ \/ i \in Items(shelves, l)
                   \/ \E q \in Pending("add") : q.list = l /\ i \in q.item
                   \/ r.list = l /\ i \in r.item
                /\ \A q \in Pending("remove") : q.list = l => i \notin q.item
  <2>1. Pending("add")' = Pending("add") \cup {r}
    BY <1>2, <1>7
  <2> QED
    BY <1>3, <1>6, <1>7, <2>1
<1>8. ASSUME r.op = "remove", NEW l, NEW i
      PROVE  ShownItem(l, i)' <=> ShownItem(l, i) /\ ~(r.list = l /\ i \in r.item)
  <2>1. Pending("remove")' = Pending("remove") \cup {r}
    BY <1>2, <1>8
  <2> QED
    BY <1>3, <1>5, <1>8, <2>1 DEF ShownItem
<1>9. r.op \notin {"add", "remove"} => \A l, i : ShownItem(l, i)' <=> ShownItem(l, i)
  BY <1>3, <1>5, <1>6 DEF ShownItem
<1> QED
  BY <1>4, <1>7, <1>8, <1>9

LEMMA NamesFollow ==
  ASSUME ListsShaped, Told, Followed, NEW r, Sends(requests, r), r.op \in {"create", "rename"},
         UNCHANGED <<watchlists, activeId, shelves>>
  PROVE  Followed'
<1>1. EditsWaiting'
  BY WaitingSends DEF Followed
<1>2. Pending("delete")' = Pending("delete") /\ \A l, i : ShownItem(l, i)' <=> ShownItem(l, i)
  BY SentShown
<1>3. ShowsEdits'
  BY <1>2 DEF Followed, ShowsEdits
<1> QED
  BY <1>1, <1>3 DEF Followed

\* With nothing to wait for the panel has the lists of the server.
LEMMA ShowsServer ==
  ASSUME ShowsEdits, \A r \in requests : r.op \notin {"delete", "add", "remove"}
  PROVE  SameLists(watchlists, shelves)
<1>1. Pending("delete") = {} /\ Pending("add") = {} /\ Pending("remove") = {}
  BY DEF Pending
<1>2. ListIds(watchlists) = ListIds(shelves)
  BY <1>1 DEF ShowsEdits
<1>3. ASSUME NEW l \in ListIds(watchlists) PROVE Items(watchlists, l) = Items(shelves, l)
  <2>1. \A i : i \in Items(watchlists, l) <=> i \in Items(shelves, l)
    BY <1>1 DEF ShowsEdits, ShownItem
  <2> QED
    BY <2>1
<1> QED
  BY <1>2, <1>3 DEF SameLists

LEMMA DeleteFollows ==
  ASSUME ListsShaped, Told, Followed, NEW l \in ListIds(watchlists), NEW r, Sends(requests, r),
         r.op = "delete", r.list = l, r.shot = watchlists, r.was = activeId,
         Len(watchlists) > 1, watchlists' = Without(watchlists, l), shelves' = shelves,
         activeId' = (IF activeId = l THEN Without(watchlists, l)[1].id ELSE activeId)
  PROVE  Followed'
<1> DEFINE left == Without(watchlists, l)
<1>1. watchlists \in Lists /\ Distinct(watchlists) /\ watchlists # <<>> /\ activeId # NoList
  BY DEF ListsShaped, Followed, ShowsEdits
<1>2. /\ left \in Lists /\ Len(left) = Len(watchlists) - 1 /\ Distinct(left)
      /\ ListIds(left) = ListIds(watchlists) \ {l}
      /\ \A m : m # l => Items(left, m) = Items(watchlists, m)
  BY <1>1, WithoutList
<1>3. left # <<>> /\ left[1].id \in ListIds(left)
  <2>1. left # <<>>
    BY <1>1, <1>2, ListsAre
  <2> QED
    BY <1>2, <2>1, ItemsTyped
<1>4. activeId' # NoList
  <2>1. left[1].id # NoList
    BY <1>2, <1>3, ShelfIds DEF Followed
  <2> QED
    BY <1>1, <2>1
<1> HIDE DEF left
<1>5. /\ Pending("delete")' = Pending("delete") \cup {r}
      /\ \A m, i : ShownItem(m, i)' <=> ShownItem(m, i)
  BY SentShown
<1>6. /\ ListIds(watchlists) = {m \in ListIds(shelves) : \A q \in Pending("delete") : q.list # m}
      /\ \A m \in ListIds(watchlists) : \A i : i \in Items(watchlists, m) <=> ShownItem(m, i)
  BY DEF Followed, ShowsEdits
<1>7. watchlists' = left
  BY DEF left
<1>8. ListIds(watchlists') =
        {m \in ListIds(shelves') : \A q \in Pending("delete")' : q.list # m}
  BY <1>2, <1>5, <1>6, <1>7
<1>9. \A m \in ListIds(watchlists') : \A i : i \in Items(watchlists', m) <=> ShownItem(m, i)'
  BY <1>2, <1>5, <1>6, <1>7
<1>10. EditsWaiting'
  <2>1. requests = {} => PutsBack(r)
    BY <1>1, ShowsServer DEF PutsBack, Followed
  <2>2. r.list \in ListIds(shelves) /\ \A q \in Pending("delete") : q.list # r.list
    BY <1>6
  <2> QED
    BY <2>1, <2>2, WaitingSends DEF Followed
<1> QED
  BY <1>2, <1>3, <1>4, <1>7, <1>8, <1>9, <1>10 DEF Followed, ShowsEdits

LEMMA AddFollows ==
  ASSUME ListsShaped, Told, Followed, NEW k \in Listed, activeId \in ListIds(watchlists),
         AddTo(watchlists, activeId, k, requests), NEW r, Sends(requests, r),
         r.op = "add", r.list = activeId, r.item = {Temp(k)}, shelves' = shelves
  PROVE  Followed'
<1> DEFINE l == activeId
           t == Temp(k)
<1>1. /\ watchlists \in Lists /\ l \in Nat /\ requests \subseteq requests
      /\ Distinct(watchlists) /\ l # NoList
  BY DEF ListsShaped, Followed, ShowsEdits
<1>2. t \in Item /\ watchlists' = Put(watchlists, l, t) /\ activeId' = l
  BY <1>1, AddSends
<1>3. t.id = nextId /\ ~t.saved
  BY DEF Temp
<1> HIDE DEF l, t
<1>4. /\ watchlists' \in Lists /\ Len(watchlists') = Len(watchlists)
      /\ ListIds(watchlists') = ListIds(watchlists) /\ Distinct(watchlists')
      /\ \A m : m # l => Items(watchlists', m) = Items(watchlists, m)
      /\ Items(watchlists', l) = Items(watchlists, l) \cup {t}
  BY <1>1, <1>2, PutItem DEF l
<1>5. watchlists' # <<>>
  BY <1>1, <1>4, ListsAre DEF Followed, ShowsEdits
<1>6. /\ ListIds(watchlists) = {m \in ListIds(shelves) : \A q \in Pending("delete") : q.list # m}
      /\ \A m \in ListIds(watchlists) : \A i : i \in Items(watchlists, m) <=> ShownItem(m, i)
  BY DEF Followed, ShowsEdits
<1>7. /\ Pending("delete")' = Pending("delete")
      /\ \A m, i : ShownItem(m, i)' <=>
           /\ \/ i \in Items(shelves, m)
              \/ \E q \in Pending("add") : q.list = m /\ i \in q.item
              \/ l = m /\ i = t
           /\ \A q \in Pending("remove") : q.list = m => i \notin q.item
  BY SentShown DEF l, t
<1>8. \A q \in Pending("remove") : t \notin q.item
  BY <1>3 DEF Followed, EditsWaiting
<1>9. ASSUME NEW m \in ListIds(watchlists'), NEW i
      PROVE  i \in Items(watchlists', m) <=> ShownItem(m, i)'
  <2>1. i \in Items(watchlists', m) <=> (i \in Items(watchlists, m) \/ (m = l /\ i = t))
    BY <1>4
  <2>2. i \in Items(watchlists, m) <=> ShownItem(m, i)
    BY <1>4, <1>6
  <2>3. ShownItem(m, i)' <=> (ShownItem(m, i) \/ (m = l /\ i = t))
    <3>1. ShownItem(m, i) <=>
            /\ \/ i \in Items(shelves, m)
               \/ \E q \in Pending("add") : q.list = m /\ i \in q.item
            /\ \A q \in Pending("remove") : q.list = m => i \notin q.item
      BY DEF ShownItem
    <3>2. ShownItem(m, i)' <=>
            /\ \/ i \in Items(shelves, m)
               \/ \E q \in Pending("add") : q.list = m /\ i \in q.item
               \/ l = m /\ i = t
            /\ \A q \in Pending("remove") : q.list = m => i \notin q.item
      BY <1>7
    <3>3. i = t => \A q \in Pending("remove") : q.list = m => i \notin q.item
      BY <1>8
    <3> QED BY <3>1, <3>2, <3>3
  <2> QED
    BY <2>1, <2>2, <2>3
<1>10. EditsWaiting'
  <2>1. l < nextId /\ \A q \in Pending("create") : q.id # l
    BY ShelfIds DEF Followed, Told, Shelved, l
  <2> QED
    BY <2>1, WaitingSends DEF Followed, l
<1> QED
  BY <1>1, <1>2, <1>4, <1>5, <1>6, <1>7, <1>9, <1>10 DEF Followed, ShowsEdits

\* The removal of a temporary item waits with its addition, and the server will not
\* know the item.
LEMMA RemoveFollows ==
  ASSUME ListsShaped, Told, Followed, NEW i \in Items(watchlists, activeId), NEW r,
         Sends(requests, r), r.op = "remove", r.list = activeId, r.item = {i},
         r.shot = watchlists, r.was = activeId, watchlists' = Take(watchlists, activeId, i),
         activeId' = activeId, shelves' = shelves
  PROVE  Doomed' \/ Followed'
<1> DEFINE l == activeId
<1>1. /\ watchlists \in Lists /\ Distinct(watchlists) /\ watchlists # <<>> /\ l # NoList
  BY DEF ListsShaped, Followed, ShowsEdits
<1>2. l \in ListIds(watchlists)
  BY <1>1, ItemsTyped
<1> HIDE DEF l
<1>3. /\ ListIds(watchlists) = {m \in ListIds(shelves) : \A q \in Pending("delete") : q.list # m}
      /\ \A m \in ListIds(watchlists) : \A j : j \in Items(watchlists, m) <=> ShownItem(m, j)
  BY DEF Followed, ShowsEdits
<1>4. \/ i \in Items(shelves, l)
      \/ \E q \in Pending("add") : i \in q.item
  BY <1>2, <1>3 DEF ShownItem, l
<1>5. CASE i \in Items(shelves, l)
  <2>1. i.saved /\ i.id < nextId /\ \A q \in Pending("add") : q.id # i.id
    BY <1>2, <1>3, <1>5 DEF Told, Shelved
  <2>2. /\ watchlists' \in Lists /\ Len(watchlists') = Len(watchlists)
        /\ ListIds(watchlists') = ListIds(watchlists) /\ Distinct(watchlists')
        /\ \A m : m # l => Items(watchlists', m) = Items(watchlists, m)
        /\ Items(watchlists', l) = Items(watchlists, l) \ {i}
    BY <1>1, TakeItem DEF l
  <2>3. watchlists' # <<>>
    BY <1>1, <2>2, ListsAre
  <2>4. /\ Pending("delete")' = Pending("delete")
        /\ \A m, j : ShownItem(m, j)' <=> ShownItem(m, j) /\ ~(l = m /\ j = i)
    BY SentShown DEF l
  <2>5. \A m \in ListIds(watchlists') : \A j : j \in Items(watchlists', m) <=> ShownItem(m, j)'
    BY <1>3, <2>2, <2>4
  <2>6. EditsWaiting'
    <3>1. requests = {} => PutsBack(r)
      BY <1>1, ShowsServer DEF PutsBack, Followed, l
    <3> QED
      BY <2>1, <3>1, WaitingSends DEF Followed
  <2> QED
    BY <1>1, <1>3, <2>2, <2>3, <2>4, <2>5, <2>6 DEF Followed, ShowsEdits, l
<1>6. CASE \E q \in Pending("add") : i \in q.item
  <2>1. requests # {} /\ ~i.saved
    BY <1>6 DEF Pending, ListsShaped, WellMade
  <2>2. r \in requests' /\ sole' = {}
    BY <2>1 DEF Sends, SendTo
  <2> QED
    BY <2>1, <2>2 DEF Doomed, Pending
<1> QED
  BY <1>4, <1>5, <1>6

\* What is shown without the request that was answered.
LEMMA GoneShown ==
  ASSUME NEW r \in requests, requests' = requests \ {r}
  PROVE  /\ \A op : Pending(op)' = Pending(op) \ {r}
         /\ \A op : r.op # op => Pending(op)' = Pending(op)
         /\ \A l, i : ShownItem(l, i)' <=>
              /\ \/ i \in Items(shelves', l)
                 \/ \E q \in Pending("add")' : q.list = l /\ i \in q.item
              /\ \A q \in Pending("remove")' : q.list = l => i \notin q.item
<1>1. \A op : Pending(op)' = Pending(op) \ {r}
  BY DEF Pending
<1>2. \A op : r.op # op => Pending(op)' = Pending(op)
  BY DEF Pending
<1>3. \A l, i : ShownItem(l, i)' <=>
        /\ \/ i \in Items(shelves', l)
           \/ \E q \in Pending("add")' : q.list = l /\ i \in q.item
        /\ \A q \in Pending("remove")' : q.list = l => i \notin q.item
  BY DEF ShownItem
<1> QED
  BY <1>1, <1>2, <1>3

LEMMA WaitingAnswered ==
  ASSUME ListsShaped, Told, EditsWaiting, NEW r \in requests, r.op # "load", Accepts(r),
         shelves' = Effect(r), requests' = requests \ {r}, sole' = {}, nextId' = nextId
  PROVE  EditsWaiting'
<1>1. /\ \A op : Pending(op)' = Pending(op) \ {r}
  BY GoneShown
<1>2. r \in Calls /\ WellMade(r) /\ r.op \in Edits /\ shelves \in Lists /\ Distinct(shelves)
  BY DEF ListsShaped, Calls, Told, Shelved
<1>3. ASSUME NEW q \in Pending("delete")' PROVE q.list \in ListIds(shelves')
  <2>1. q \in Pending("delete") /\ q # r /\ q.list \in ListIds(shelves)
    BY <1>1 DEF EditsWaiting
  <2>2. CASE r.op = "create"
    <3>1. shelves' = Append(shelves, Created(r)) /\ r.id \in Nat
      BY <1>2, <2>2, EffectOf DEF Calls
    <3> QED
      BY <1>2, <2>1, <3>1, NewList
  <2>3. CASE r.op = "rename"
    BY <2>1, <2>3, EffectOf
  <2>4. CASE r.op = "delete"
    <3>1. r.list \in ListIds(shelves) /\ q.list # r.list
      BY <2>1, <2>4 DEF Accepts, EditsWaiting, Pending
    <3>2. shelves' = Without(shelves, r.list)
      BY <2>4, EffectOf
    <3> QED
      BY <1>2, <2>1, <3>1, <3>2, WithoutList
  <2>5. CASE r.op = "add"
    <3>1. shelves' = Put(shelves, r.list, Saved(r)) /\ Saved(r) \in Item
      BY <1>2, <2>5, EffectOf, SavedIs
    <3> QED
      BY <1>2, <2>1, <3>1, PutItem
  <2>6. CASE r.op = "remove"
    BY <1>2, <2>1, <2>6, EffectOf, TakeItem
  <2> QED
    BY <1>2, <2>2, <2>3, <2>4, <2>5, <2>6 DEF Edits
<1>4. /\ \A q \in Pending("delete")' : \A p \in Pending("delete")' : p.list = q.list => p = q
      /\ \A q \in Pending("add")' :
           q.list < nextId' /\ \A p \in Pending("create")' : p.id # q.list
      /\ \A q \in Pending("remove")' : \A i \in q.item :
           i.saved /\ i.id < nextId' /\ \A p \in Pending("add")' : p.id # i.id
  BY <1>1 DEF EditsWaiting
<1> QED
  BY <1>3, <1>4 DEF EditsWaiting

LEMMA CreatedFollows ==
  ASSUME ListsShaped, Told, Followed, NEW r \in requests, r.op = "create",
         shelves' = Append(shelves, Created(r)), requests' = requests \ {r},
         watchlists' = Append(watchlists, Created(r)), activeId' = r.id
  PROVE  ShowsEdits'
<1>1. /\ watchlists \in Lists /\ Distinct(watchlists) /\ shelves \in Lists /\ r.id \in Nat
      /\ r.id # NoList
  BY DEF ListsShaped, Followed, ShowsEdits, Calls, Told, NumberedLists, LocalList, NoList
<1>2. r \in Pending("create") /\ r.id \notin ListIds(shelves)
  BY DEF Pending, Told, Shelved
<1>3. /\ ListIds(watchlists) = {m \in ListIds(shelves) : \A q \in Pending("delete") : q.list # m}
      /\ \A m \in ListIds(watchlists) : \A i : i \in Items(watchlists, m) <=> ShownItem(m, i)
  BY DEF Followed, ShowsEdits
<1>4. r.id \notin ListIds(watchlists)
  BY <1>2, <1>3
<1>5. /\ watchlists' # <<>> /\ Distinct(watchlists')
      /\ ListIds(watchlists') = ListIds(watchlists) \cup {r.id}
      /\ \A m : Items(watchlists', m) = Items(watchlists, m)
  BY <1>1, <1>4, NewList
<1>6. /\ ListIds(shelves') = ListIds(shelves) \cup {r.id}
      /\ \A m : Items(shelves', m) = Items(shelves, m)
  BY <1>1, <1>2, NewList
<1>7. /\ Pending("delete")' = Pending("delete") /\ Pending("add")' = Pending("add")
      /\ Pending("remove")' = Pending("remove")
      /\ \A l, i : ShownItem(l, i)' <=>
           /\ \/ i \in Items(shelves', l)
              \/ \E q \in Pending("add")' : q.list = l /\ i \in q.item
           /\ \A q \in Pending("remove")' : q.list = l => i \notin q.item
  BY GoneShown
<1>8. \A m, i : ShownItem(m, i)' <=> ShownItem(m, i)
  BY <1>6, <1>7 DEF ShownItem
<1>9. /\ \A q \in Pending("delete") : q.list # r.id
      /\ \A q \in Pending("add") : q.list # r.id
  BY <1>2 DEF Followed, EditsWaiting
<1>10. ListIds(watchlists') =
         {m \in ListIds(shelves') : \A q \in Pending("delete")' : q.list # m}
  BY <1>3, <1>5, <1>6, <1>7, <1>9
<1>11. Items(watchlists, r.id) = {} /\ Items(shelves, r.id) = {}
  BY <1>1, <1>2, <1>4, ItemsTyped
<1>12. \A m \in ListIds(watchlists') : \A i : i \in Items(watchlists', m) <=> ShownItem(m, i)'
  <2>1. ASSUME NEW m \in ListIds(watchlists'), NEW i
        PROVE  i \in Items(watchlists, m) <=> ShownItem(m, i)
    <3>1. CASE m \in ListIds(watchlists)
      BY <1>3, <3>1
    <3>2. CASE m = r.id
      BY <1>9, <1>11, <3>2 DEF ShownItem
    <3> QED
      BY <1>5, <3>1, <3>2
  <2> QED
    BY <1>5, <1>8, <2>1
<1> QED
  BY <1>1, <1>5, <1>10, <1>12 DEF ShowsEdits

LEMMA DeletedFollows ==
  ASSUME ListsShaped, Told, Followed, NEW r \in requests, r.op = "delete", Accepts(r),
         shelves' = Without(shelves, r.list), requests' = requests \ {r},
         watchlists' = watchlists, activeId' = activeId
  PROVE  ShowsEdits'
<1>1. shelves \in Lists /\ Distinct(shelves) /\ r.list \in ListIds(shelves)
  BY DEF ListsShaped, Told, Shelved, Accepts
<1>2. /\ ListIds(shelves') = ListIds(shelves) \ {r.list}
      /\ \A m : m # r.list => Items(shelves', m) = Items(shelves, m)
  BY <1>1, WithoutList
<1>3. /\ ListIds(watchlists) = {m \in ListIds(shelves) : \A q \in Pending("delete") : q.list # m}
      /\ \A m \in ListIds(watchlists) : \A i : i \in Items(watchlists, m) <=> ShownItem(m, i)
  BY DEF Followed, ShowsEdits
<1>4. /\ Pending("delete")' = Pending("delete") \ {r} /\ Pending("add")' = Pending("add")
      /\ Pending("remove")' = Pending("remove") /\ r \in Pending("delete")
      /\ \A l, i : ShownItem(l, i)' <=>
           /\ \/ i \in Items(shelves', l)
              \/ \E q \in Pending("add")' : q.list = l /\ i \in q.item
           /\ \A q \in Pending("remove")' : q.list = l => i \notin q.item
  BY GoneShown DEF Pending
<1>5. ListIds(watchlists') =
         {m \in ListIds(shelves') : \A q \in Pending("delete")' : q.list # m}
  BY <1>2, <1>3, <1>4
<1>6. \A m \in ListIds(watchlists) : m # r.list
  BY <1>3, <1>4
<1>7. \A m \in ListIds(watchlists) : \A i : ShownItem(m, i)' <=> ShownItem(m, i)
  BY <1>2, <1>4, <1>6 DEF ShownItem
<1> QED
  BY <1>3, <1>5, <1>7 DEF Followed, ShowsEdits

\* The saved item stands where the temporary one stood.
LEMMA AddedFollows ==
  ASSUME ListsShaped, Told, Followed, NEW r \in requests, r.op = "add", Accepts(r),
         shelves' = Put(shelves, r.list, Saved(r)), requests' = requests \ {r},
         watchlists' = Swapped(r), activeId' = activeId
  PROVE  ShowsEdits'
<1> DEFINE l == r.list
           s == Saved(r)
           t == CHOOSE i \in r.item : TRUE
<1>1. /\ watchlists \in Lists /\ Distinct(watchlists) /\ shelves \in Lists
      /\ r \in Calls /\ WellMade(r) /\ watchlists # <<>> /\ l \in ListIds(shelves)
  BY DEF ListsShaped, Followed, ShowsEdits, Accepts
<1>2. s \in Item /\ s.id = r.id /\ s.saved
  BY <1>1, SavedIs
<1>3. r.item = {t} /\ t \in Item /\ t.id = r.id /\ ~t.saved
  <2>1. PICK i \in Item : r.item = {i} /\ i.id = r.id /\ ~i.saved
    BY <1>1 DEF WellMade
  <2>2. t = i
    BY <2>1
  <2> HIDE DEF t
  <2> QED
    BY <2>1, <2>2
<1>4. /\ ListIds(watchlists) = {m \in ListIds(shelves) : \A q \in Pending("delete") : q.list # m}
      /\ \A m \in ListIds(watchlists) : \A i : i \in Items(watchlists, m) <=> ShownItem(m, i)
  BY DEF Followed, ShowsEdits
<1>5. /\ ListIds(shelves') = ListIds(shelves)
      /\ \A m : m # l => Items(shelves', m) = Items(shelves, m)
      /\ Items(shelves', l) = Items(shelves, l) \cup {s}
  BY <1>1, <1>2, PutItem
<1>6. /\ Pending("delete")' = Pending("delete") /\ Pending("add")' = Pending("add") \ {r}
      /\ Pending("remove")' = Pending("remove") /\ r \in Pending("add")
      /\ \A m, i : ShownItem(m, i)' <=>
           /\ \/ i \in Items(shelves', m)
              \/ \E q \in Pending("add")' : q.list = m /\ i \in q.item
           /\ \A q \in Pending("remove")' : q.list = m => i \notin q.item
  BY GoneShown DEF Pending
<1>7. \A q \in Pending("remove") : s \notin q.item /\ t \notin q.item
  BY <1>2, <1>3, <1>6 DEF Followed, EditsWaiting
<1>8. \A q \in Pending("add") \ {r} : t \notin q.item
  BY <1>3, <1>6 DEF Pending, ListsShaped, WellMade, Told, NumberedLists
<1>9. t \notin Items(shelves, l)
  BY <1>1, <1>3 DEF Told, Shelved
<1>10. Swapped(r) = IF t \in Items(watchlists, l) THEN Put(Take(watchlists, l, t), l, s)
                    ELSE watchlists
  BY <1>3 DEF Swapped
<1> HIDE DEF s, t
<1>11. CASE l \in ListIds(watchlists)
  <2> DEFINE taken == Take(watchlists, l, t)
  <2>1. t \in Items(watchlists, l)
    BY <1>3, <1>4, <1>6, <1>7, <1>11 DEF ShownItem
  <2>2. watchlists' = Put(taken, l, s)
    BY <1>10, <2>1
  <2>3. /\ taken \in Lists /\ Len(taken) = Len(watchlists) /\ Distinct(taken)
        /\ ListIds(taken) = ListIds(watchlists)
        /\ \A m : m # l => Items(taken, m) = Items(watchlists, m)
        /\ Items(taken, l) = Items(watchlists, l) \ {t}
    BY <1>1, TakeItem
  <2> HIDE DEF taken
  <2>4. /\ watchlists' \in Lists /\ Len(watchlists') = Len(watchlists) /\ Distinct(watchlists')
        /\ ListIds(watchlists') = ListIds(watchlists)
        /\ \A m : m # l => Items(watchlists', m) = Items(watchlists, m)
        /\ Items(watchlists', l) = (Items(watchlists, l) \ {t}) \cup {s}
    BY <1>2, <1>11, <2>2, <2>3, PutItem
  <2>5. watchlists' # <<>>
    BY <1>1, <2>4, ListsAre
  <2>6. ASSUME NEW m \in ListIds(watchlists), NEW i
        PROVE  i \in Items(watchlists', m) <=> ShownItem(m, i)'
    <3>1. i \in Items(watchlists, m) <=> ShownItem(m, i)
      BY <1>4
    <3>2. CASE m # l
      <4>1. ShownItem(m, i)' <=> ShownItem(m, i)
        BY <1>5, <1>6, <3>2 DEF ShownItem
      <4> QED
        BY <2>4, <3>1, <3>2, <4>1
    <3>3. CASE m = l
      <4>1. i \in Items(watchlists', m) <=> i = s \/ (i # t /\ ShownItem(l, i))
        BY <2>4, <3>1, <3>3
      <4>2. ShownItem(l, i)' <=> i = s \/ (i # t /\ ShownItem(l, i))
        <5>1. CASE i = s
          BY <1>5, <1>6, <1>7, <5>1
        <5>2. CASE i = t /\ i # s
          BY <1>5, <1>6, <1>8, <1>9, <5>2
        <5>3. CASE i # t /\ i # s
          <6>1. i \in Items(shelves', l) <=> i \in Items(shelves, l)
            BY <1>5, <5>3
          <6>2. (\E q \in Pending("add")' : q.list = l /\ i \in q.item)
                  <=> (\E q \in Pending("add") : q.list = l /\ i \in q.item)
            BY <1>3, <1>6, <5>3
          <6> QED
            BY <1>6, <5>3, <6>1, <6>2 DEF ShownItem
        <5> QED
          BY <5>1, <5>2, <5>3
      <4> QED
        BY <3>3, <4>1, <4>2
    <3> QED
      BY <3>2, <3>3
  <2>7. activeId' # NoList
    BY DEF Followed, ShowsEdits
  <2> QED
    BY <1>4, <1>5, <1>6, <2>4, <2>5, <2>6, <2>7 DEF ShowsEdits
<1>12. CASE l \notin ListIds(watchlists)
  <2>1. watchlists' = watchlists
    BY <1>1, <1>10, <1>12, ItemsTyped
  <2>2. \A m \in ListIds(watchlists) : \A i : ShownItem(m, i)' <=> ShownItem(m, i)
    BY <1>5, <1>6, <1>12 DEF ShownItem
  <2>3. activeId' # NoList
    BY DEF Followed, ShowsEdits
  <2> QED
    BY <1>1, <1>4, <1>5, <1>6, <2>1, <2>2, <2>3 DEF ShowsEdits
<1> QED
  BY <1>11, <1>12

LEMMA RemovedFollows ==
  ASSUME ListsShaped, Told, Followed, NEW r \in requests, r.op = "remove", Accepts(r),
         shelves' = Take(shelves, r.list, CHOOSE i \in r.item : TRUE),
         requests' = requests \ {r}, watchlists' = watchlists, activeId' = activeId
  PROVE  ShowsEdits'
<1> DEFINE l == r.list
           t == CHOOSE i \in r.item : TRUE
<1>1. shelves \in Lists /\ r.item = {t} /\ t \in Items(shelves, l)
  <2>1. PICK i \in Item : r.item = {i}
    BY DEF ListsShaped, WellMade
  <2>2. t = i
    BY <2>1
  <2>3. r.item \subseteq Items(shelves, l)
    BY DEF Accepts
  <2> HIDE DEF t
  <2> QED
    BY <2>1, <2>2, <2>3 DEF ListsShaped
<1>a. shelves' = Take(shelves, l, t)
  OBVIOUS
<1> HIDE DEF t
<1>2. /\ ListIds(shelves') = ListIds(shelves)
      /\ \A m : m # l => Items(shelves', m) = Items(shelves, m)
      /\ Items(shelves', l) = Items(shelves, l) \ {t}
  BY <1>1, <1>a, TakeItem
<1>3. /\ ListIds(watchlists) = {m \in ListIds(shelves) : \A q \in Pending("delete") : q.list # m}
      /\ \A m \in ListIds(watchlists) : \A i : i \in Items(watchlists, m) <=> ShownItem(m, i)
  BY DEF Followed, ShowsEdits
<1>4. /\ Pending("delete")' = Pending("delete") /\ Pending("add")' = Pending("add")
      /\ Pending("remove")' = Pending("remove") \ {r} /\ r \in Pending("remove")
      /\ \A m, i : ShownItem(m, i)' <=>
           /\ \/ i \in Items(shelves', m)
              \/ \E q \in Pending("add")' : q.list = m /\ i \in q.item
           /\ \A q \in Pending("remove")' : q.list = m => i \notin q.item
  BY GoneShown DEF Pending
<1>5. t.saved
  BY <1>1, <1>4 DEF Followed, EditsWaiting
<1>6. \A q \in Pending("add") : t \notin q.item
  BY <1>5 DEF ListsShaped, WellMade, Pending
<1>7. ASSUME NEW m \in ListIds(watchlists), NEW i PROVE ShownItem(m, i)' <=> ShownItem(m, i)
  <2>1. CASE m # l
    BY <1>2, <1>4, <2>1 DEF ShownItem
  <2>2. CASE m = l /\ i = t
    BY <1>1, <1>2, <1>4, <1>6, <2>2 DEF ShownItem
  <2>3. CASE m = l /\ i # t
    <3>1. i \in Items(shelves', m) <=> i \in Items(shelves, m)
      BY <1>2, <2>3
    <3>2. (\A q \in Pending("remove")' : q.list = m => i \notin q.item)
            <=> (\A q \in Pending("remove") : q.list = m => i \notin q.item)
      BY <1>1, <1>4, <2>3
    <3> QED
      BY <1>4, <3>1, <3>2 DEF ShownItem
  <2> QED
    BY <2>1, <2>2, <2>3
<1>8. ListIds(watchlists') =
        {m \in ListIds(shelves') : \A q \in Pending("delete")' : q.list # m}
  <2>1. ListIds(watchlists') = ListIds(watchlists) /\ ListIds(shelves') = ListIds(shelves)
    BY <1>2
  <2>2. Pending("delete")' = Pending("delete")
    BY <1>4
  <2>3. ListIds(watchlists) =
          {m \in ListIds(shelves) : \A q \in Pending("delete") : q.list # m}
    BY <1>3
  <2>4. \A m : m \in ListIds(watchlists')
                <=> m \in ListIds(shelves') /\ \A q \in Pending("delete")' : q.list # m
    BY <2>1, <2>2, <2>3
  <2> QED
    BY <2>4
<1>9. Distinct(watchlists') /\ watchlists' # <<>> /\ activeId' # NoList
  BY DEF Followed, ShowsEdits
<1>10. \A m \in ListIds(watchlists') : \A i : i \in Items(watchlists', m) <=> ShownItem(m, i)'
  BY <1>3, <1>7
<1> QED
  BY <1>8, <1>9, <1>10 DEF ShowsEdits

\* A load that nothing overlapped leaves the lists of the server.
LEMMA LoadedFollows ==
  ASSUME ListsShaped, Told, NEW r \in requests, r.op = "load", r.shot # <<>>, r.id \in sole,
         requests' = requests \ {r}, shelves' = shelves, watchlists' = r.shot,
         activeId' = NextActive(r.shot, r.was)
  PROVE  Pending("load")' = {} /\ Followed'
<1>1. requests = {r} /\ r.shot = shelves /\ shelves \in Lists
  BY DEF Told, AskedAlone, ListsShaped
<1>2. requests' = {} /\ \A op : Pending(op)' = {}
  BY <1>1 DEF Pending
<1>3. activeId' \in ListIds(shelves) /\ activeId' # NoList
  <2>1. activeId' \in ListIds(shelves)
    BY <1>1, NextActiveIsThere
  <2>2. \A l \in ListIds(shelves) : LocalList < l
    BY DEF Told, Shelved
  <2> QED
    BY <2>1, <2>2 DEF LocalList, NoList
<1>4. \A l, i : ShownItem(l, i)' <=> i \in Items(shelves', l)
  BY <1>2 DEF ShownItem
<1>5. Distinct(watchlists') /\ watchlists' = shelves' /\ watchlists' # <<>>
  BY <1>1 DEF Told, Shelved
<1>6. ShowsEdits'
  BY <1>2, <1>3, <1>4, <1>5 DEF ShowsEdits
<1>7. EditsWaiting'
  BY <1>2 DEF EditsWaiting
<1> QED
  BY <1>2, <1>6, <1>7 DEF Followed

\* An edit that is refused alone leaves the lists of the server.
LEMMA RefusedFollows ==
  ASSUME ListsShaped, Told, Followed, NEW r \in requests, r.op \notin {"load", "rename"},
         r.id \in sole, requests' = requests \ {r}, shelves' = shelves,
         r.op = "create" => watchlists' = watchlists /\ activeId' = activeId,
         r.op = "delete" => watchlists' = r.shot /\ activeId' = r.was,
         r.op = "add" =>
           /\ watchlists' = Take(watchlists, r.list, CHOOSE i \in r.item : TRUE)
           /\ activeId' = activeId,
         r.op = "remove" => watchlists' = r.shot /\ activeId' = activeId
  PROVE  Followed'
<1>1. requests = {r} /\ r.op \in Edits /\ watchlists \in Lists /\ WellMade(r)
  BY DEF Told, AskedAlone, ListsShaped, Calls
<1>2. requests' = {} /\ \A op : Pending(op)' = {}
  BY <1>1 DEF Pending
<1>3. EditsWaiting'
  BY <1>2 DEF EditsWaiting
<1>4. \A l, i : ShownItem(l, i)' <=> i \in Items(shelves', l)
  BY <1>2 DEF ShownItem
<1>5. Distinct(watchlists) /\ watchlists # <<>> /\ activeId # NoList
  BY DEF Followed, ShowsEdits
<1>6. /\ Distinct(watchlists') /\ watchlists' # <<>> /\ activeId' # NoList
      /\ SameLists(watchlists', shelves)
  <2>1. CASE r.op = "create"
    BY <1>1, <1>5, <2>1, ShowsServer DEF Followed
  <2>2. CASE r.op \in {"delete", "remove"}
    <3>1. PutsBack(r)
      BY <2>2 DEF Followed, EditsWaiting, Pending
    <3> QED
      BY <1>5, <2>2, <3>1 DEF PutsBack
  <2>3. CASE r.op = "add"
    <3> DEFINE t == CHOOSE i \in r.item : TRUE
               l == r.list
    <3>1. r.item = {t} /\ ~t.saved
      <4>1. PICK i \in Item : r.item = {i} /\ ~i.saved
        BY <1>1, <2>3 DEF WellMade
      <4>2. t = i
        BY <4>1
      <4> HIDE DEF t
      <4> QED
        BY <4>1, <4>2
    <3>2. watchlists' = Take(watchlists, l, t) /\ activeId' = activeId
      BY <2>3
    <3> HIDE DEF t
    <3>3. /\ watchlists' \in Lists /\ Len(watchlists') = Len(watchlists)
          /\ ListIds(watchlists') = ListIds(watchlists) /\ Distinct(watchlists')
          /\ \A m : m # l => Items(watchlists', m) = Items(watchlists, m)
          /\ Items(watchlists', l) = Items(watchlists, l) \ {t}
      BY <1>1, <1>5, <3>2, TakeItem
    <3>4. watchlists' # <<>>
      BY <1>1, <1>5, <3>3, ListsAre
    <3>5. Pending("add") = {r} /\ Pending("remove") = {} /\ Pending("delete") = {}
      BY <1>1, <2>3 DEF Pending
    <3>6. ListIds(watchlists) = ListIds(shelves)
      BY <3>5 DEF Followed, ShowsEdits
    <3>7. ASSUME NEW m \in ListIds(watchlists) PROVE Items(watchlists', m) = Items(shelves, m)
      <4>1. \A i : i \in Items(watchlists, m) <=> i \in Items(shelves, m) \/ (m = l /\ i = t)
        BY <3>1, <3>5 DEF Followed, ShowsEdits, ShownItem
      <4>2. t \notin Items(shelves, m)
        BY <3>1, <3>6 DEF Told, Shelved
      <4>3. \A i : i \in Items(watchlists', m)
                     <=> i \in Items(watchlists, m) /\ ~(m = l /\ i = t)
        BY <3>3
      <4>4. \A i : i \in Items(watchlists', m) <=> i \in Items(shelves, m)
        BY <4>1, <4>2, <4>3
      <4> QED
        BY <4>4
    <3> QED
      BY <1>5, <3>2, <3>3, <3>4, <3>6, <3>7 DEF SameLists
  <2> QED
    BY <1>1, <2>1, <2>2, <2>3 DEF Edits
<1>7. ShowsEdits'
  BY <1>2, <1>4, <1>6 DEF ShowsEdits, SameLists
<1> QED
  BY <1>3, <1>7 DEF Followed

Settled == Loading \/ (Pending("load") = {} /\ (Doomed \/ Followed))

LEMMA PressFresh ==
  ASSUME ListsShaped, Told, Fresh,
         SubmitCreate \/ CommitRename \/ PressDelete \/ SelectTab \/ DropRow,
         clean', mounts' > 0
  PROVE  Settled'
<1>1. CASE SelectTab \/ DropRow
  <2>1. Loading' \/ (Pending("load")' = {} /\ (Doomed' \/ Followed))
    BY <1>1, PanelAsks, KeptFresh
  <2> QED
    BY <1>1, <2>1, PanelFollows DEF Settled
<1>2. CASE SubmitCreate
  <2>1. PICK r : Sends(requests, r) /\ r.op = "create"
    BY <1>2, CreateAsks
  <2>2. UNCHANGED <<watchlists, activeId, shelves, mounts>>
    BY <1>2, CreateAsks
  <2>3. Pending("load")' = {} /\ (Doomed' \/ Followed)
    BY <2>1, <2>2, SendFresh
  <2> QED
    BY <2>1, <2>2, <2>3, NamesFollow DEF Settled
<1>3. CASE CommitRename
  <2>1. UNCHANGED <<watchlists, activeId, shelves, mounts>>
    BY <1>3, RenameAsks
  <2>2. CASE Kept
    <3>1. Loading' \/ (Pending("load")' = {} /\ (Doomed' \/ Followed))
      BY <2>1, <2>2, KeptFresh
    <3>2. Followed => Followed'
      BY <2>1, <2>2, WaitingKept DEF Kept, Followed, ShowsEdits, ShownItem, Pending
    <3> QED
      BY <3>1, <3>2 DEF Settled
  <2>3. ASSUME NEW r, Sends(requests, r), r.op = "rename" PROVE Settled'
    <3>1. Pending("load")' = {} /\ (Doomed' \/ Followed)
      BY <2>1, <2>3, SendFresh
    <3> QED
      BY <2>1, <2>3, <3>1, NamesFollow DEF Settled
  <2> QED
    BY <1>3, <2>2, <2>3, RenameAsks
<1>4. CASE PressDelete
  <2>1. PICK l \in ListIds(watchlists) :
          /\ Len(watchlists) > 1 /\ watchlists' = Without(watchlists, l)
          /\ activeId' = (IF activeId = l THEN Without(watchlists, l)[1].id ELSE activeId)
          /\ l = LocalList => Kept
          /\ l # LocalList =>
               \E r : /\ Sends(requests, r) /\ r.op = "delete" /\ r.list = l
                      /\ r.shot = watchlists /\ r.was = activeId
          /\ shelves' = shelves /\ mounts' = mounts
    BY <1>4, DeleteAsks
  <2>2. CASE l = LocalList
    <3>1. Loading' \/ (Pending("load")' = {} /\ (Doomed' \/ Followed))
      BY <2>1, <2>2, KeptFresh
    <3>2. ~Followed
      BY <2>2, ShelfIds DEF Followed, LocalList
    <3> QED
      BY <3>1, <3>2 DEF Settled
  <2>3. CASE l # LocalList
    <3>1. PICK r : /\ Sends(requests, r) /\ r.op = "delete" /\ r.list = l
                   /\ r.shot = watchlists /\ r.was = activeId
      BY <2>1, <2>3
    <3>2. Pending("load")' = {} /\ (Doomed' \/ Followed)
      BY <2>1, <3>1, SendFresh
    <3>3. Followed => Followed'
      BY <2>1, <3>1, DeleteFollows
    <3> QED
      BY <3>2, <3>3 DEF Settled
  <2> QED
    BY <2>2, <2>3
<1> QED
  BY <1>1, <1>2, <1>3, <1>4

LEMMA AddFresh ==
  ASSUME ListsShaped, Told, Fresh, NEW k \in Listed, AddItem(k), clean', mounts' > 0
  PROVE  Settled'
<1>1. shelves' = shelves /\ mounts' = mounts
  BY AddAsks
<1>2. CASE /\ watchlists = <<>> \/ activeId = NoList
           /\ \E r : Sends(requests, r) /\ r.op = "load"
  <2>1. PICK r : Sends(requests, r) /\ r.op = "load"
    BY <1>2
  <2>2. requests = {} /\ clean
    BY <2>1, LoadFresh DEF Sends, SendTo
  <2>3. Followed
    BY <1>1, <2>2 DEF Fresh, Loading, Doomed, Pending
  <2> QED
    BY <1>2, <2>3 DEF Followed, ShowsEdits
<1>3. CASE /\ activeId \in ListIds(watchlists)
           /\ AddTo(watchlists, activeId, k, requests)
           /\ activeId = LocalList => Kept
           /\ activeId # LocalList =>
                \E r : /\ Sends(requests, r) /\ r.op = "add" /\ r.list = activeId
                       /\ r.item = {Temp(k)}
  <2>1. CASE activeId = LocalList
    <3>1. Loading' \/ (Pending("load")' = {} /\ (Doomed' \/ Followed))
      BY <1>1, <1>3, <2>1, KeptFresh
    <3>2. ~Followed
      BY <1>3, <2>1, ShelfIds DEF Followed, LocalList
    <3> QED
      BY <3>1, <3>2 DEF Settled
  <2>2. CASE activeId # LocalList
    <3>1. PICK r : /\ Sends(requests, r) /\ r.op = "add" /\ r.list = activeId
                   /\ r.item = {Temp(k)}
      BY <1>3, <2>2
    <3>2. Pending("load")' = {} /\ (Doomed' \/ Followed)
      BY <1>1, <3>1, SendFresh
    <3>3. Followed => Followed'
      BY <1>1, <1>3, <3>1, AddFollows
    <3> QED
      BY <3>2, <3>3 DEF Settled
  <2> QED
    BY <2>1, <2>2
<1> QED
  BY <1>2, <1>3, AddAsks

LEMMA RemoveFresh ==
  ASSUME ListsShaped, Told, Fresh, NEW i \in Items(watchlists, activeId), RemoveItem(i),
         clean', mounts' > 0
  PROVE  Settled'
<1>1. i \in Item /\ activeId \in ListIds(watchlists)
  BY ItemsTyped DEF ListsShaped
<1>2. /\ watchlists' = Take(watchlists, activeId, i) /\ activeId' = activeId
      /\ activeId = LocalList => Kept
      /\ activeId # LocalList =>
           \E r : /\ Sends(requests, r) /\ r.op = "remove" /\ r.list = activeId
                  /\ r.item = {i} /\ r.shot = watchlists /\ r.was = activeId
      /\ shelves' = shelves /\ mounts' = mounts
  BY <1>1, RemoveAsks
<1>3. CASE activeId = LocalList
  <2>1. Loading' \/ (Pending("load")' = {} /\ (Doomed' \/ Followed))
    BY <1>2, <1>3, KeptFresh
  <2>2. ~Followed
    BY <1>1, <1>3, ShelfIds DEF Followed, LocalList
  <2> QED
    BY <2>1, <2>2 DEF Settled
<1>4. CASE activeId # LocalList
  <2>1. PICK r : /\ Sends(requests, r) /\ r.op = "remove" /\ r.list = activeId
                 /\ r.item = {i} /\ r.shot = watchlists /\ r.was = activeId
    BY <1>2, <1>4
  <2>2. Pending("load")' = {} /\ (Doomed' \/ Followed)
    BY <1>2, <2>1, SendFresh
  <2>3. Followed => Doomed' \/ Followed'
    BY <1>2, <2>1, RemoveFollows
  <2> QED
    BY <2>2, <2>3 DEF Settled
<1> QED
  BY <1>3, <1>4

LEMMA AnsweredFresh ==
  ASSUME ListsShaped, Told, Fresh, EditAnswered, clean', mounts' > 0
  PROVE  Settled'
<1>1. PICK r \in requests :
        /\ r.op # "load" /\ Accepts(r)
        /\ shelves' = Effect(r) /\ requests' = requests \ {r} /\ sole' = {}
        /\ watchlists' = CASE r.op = "create" -> Append(watchlists, Created(r))
                           [] r.op = "add" -> Swapped(r)
                           [] OTHER -> watchlists
        /\ activeId' = IF r.op = "create" THEN r.id ELSE activeId
        /\ clean' = clean /\ nextId' = nextId /\ mounts' = mounts
  BY DEF EditAnswered
<1>2. r.op \in Edits
  BY <1>1 DEF ListsShaped, Calls
<1>3. Pending("load") = {} /\ (Doomed \/ Followed) /\ Pending("load")' = {}
  BY <1>1 DEF Fresh, Loading, Pending
<1>4. ASSUME Doomed PROVE Doomed'
  <2>1. PICK q \in requests : q.op = "remove" /\ \E i \in q.item : ~i.saved
    BY <1>4 DEF Doomed, Pending
  <2>2. q # r
    <3>1. ASSUME q = r PROVE FALSE
      <4>1. q.item \subseteq Items(shelves, q.list)
        BY <1>1, <2>1, <3>1 DEF Accepts
      <4>2. q.list \in ListIds(shelves)
        BY <2>1, <4>1, ItemsTyped DEF ListsShaped
      <4> QED
        BY <2>1, <4>1, <4>2 DEF Told, Shelved
    <3> QED
      BY <3>1
  <2> QED
    BY <1>1, <2>1, <2>2 DEF Doomed, Pending
<1>5. ASSUME Followed PROVE Followed'
  <2>1. EditsWaiting'
    BY <1>1, <1>5, WaitingAnswered DEF Followed
  <2>2. ShowsEdits'
    <3>1. CASE r.op = "create"
      <4>1. /\ shelves' = Append(shelves, Created(r)) /\ activeId' = r.id
            /\ watchlists' = Append(watchlists, Created(r))
        BY <1>1, <3>1, EffectOf
      <4> QED
        BY <1>1, <1>5, <3>1, <4>1, CreatedFollows
    <3>2. CASE r.op = "rename"
      <4>1. shelves' = shelves /\ watchlists' = watchlists /\ activeId' = activeId
        BY <1>1, <3>2, EffectOf
      <4>2. \A op \in {"delete", "add", "remove"} : Pending(op)' = Pending(op)
        BY <1>1, <3>2, GoneShown
      <4> QED
        BY <1>5, <4>1, <4>2 DEF Followed, ShowsEdits, ShownItem
    <3>3. CASE r.op = "delete"
      <4>1. /\ shelves' = Without(shelves, r.list) /\ activeId' = activeId
            /\ watchlists' = watchlists
        BY <1>1, <3>3, EffectOf
      <4> QED
        BY <1>1, <1>5, <3>3, <4>1, DeletedFollows
    <3>4. CASE r.op = "add"
      <4>1. /\ shelves' = Put(shelves, r.list, Saved(r)) /\ activeId' = activeId
            /\ watchlists' = Swapped(r)
        BY <1>1, <3>4, EffectOf
      <4> QED
        BY <1>1, <1>5, <3>4, <4>1, AddedFollows
    <3>5. CASE r.op = "remove"
      <4>1. /\ shelves' = Take(shelves, r.list, CHOOSE i \in r.item : TRUE)
            /\ watchlists' = watchlists /\ activeId' = activeId
        BY <1>1, <3>5, EffectOf
      <4> QED
        BY <1>1, <1>5, <3>5, <4>1, RemovedFollows
    <3> QED
      BY <1>2, <3>1, <3>2, <3>3, <3>4, <3>5 DEF Edits
  <2> QED
    BY <2>1, <2>2 DEF Followed
<1> QED
  BY <1>3, <1>4, <1>5 DEF Settled

LEMMA FailsFresh ==
  ASSUME ListsShaped, Told, Fresh, EditFails, clean', mounts' > 0
  PROVE  Settled'
<1>1. PICK r \in requests :
        /\ r.op # "load" /\ mounts' = mounts
        /\ \/ r.op = "rename" /\ shelves' = shelves /\ \E q :
                Sends(requests \ {r}, q) /\ q.op = "load" /\ q.stock = NoStock
           \/ /\ r.op # "rename" /\ requests' = requests \ {r} /\ sole' = {}
              /\ nextId' = nextId
              /\ \/ shelves' = Effect(r) /\ Accepts(r) /\ clean' = FALSE
                 \/ shelves' = shelves /\ clean' = (clean /\ r.id \in sole)
              /\ r.op = "create" => watchlists' = watchlists /\ activeId' = activeId
              /\ r.op = "delete" => watchlists' = r.shot /\ activeId' = r.was
              /\ r.op = "add" =>
                   /\ watchlists' = Take(watchlists, r.list, CHOOSE i \in r.item : TRUE)
                   /\ activeId' = activeId
              /\ r.op = "remove" => watchlists' = r.shot /\ activeId' = activeId
  BY FailsAsk
<1>2. CASE r.op = "rename"
  <2>1. PICK q : Sends(requests \ {r}, q) /\ q.op = "load" /\ q.stock = NoStock
    BY <1>1, <1>2
  <2> QED
    BY <2>1, LoadFresh DEF Settled
<1>3. CASE r.op # "rename"
  <2>1. shelves' = shelves /\ clean /\ r.id \in sole /\ requests' = requests \ {r}
    BY <1>1, <1>3
  <2>2. requests = {r}
    BY <2>1 DEF Told, AskedAlone
  <2>3. Pending("load")' = {}
    BY <2>1, <2>2 DEF Pending
  <2>4. Followed
    BY <1>1, <2>1, <2>2 DEF Fresh, Loading, Doomed, Pending
  <2>5. Followed'
    BY <1>1, <1>3, <2>1, <2>4, RefusedFollows
  <2> QED
    BY <2>3, <2>5 DEF Settled
<1> QED
  BY <1>2, <1>3

LEMMA LoadsFresh ==
  ASSUME ListsShaped, Told, Fresh, Mount \/ LoadServed \/ LoadAnswered \/ LoadFailed,
         clean', mounts' > 0
  PROVE  Settled'
<1>1. CASE Mount
  <2>1. LoadWatchlist(requests, NoStock)
    BY <1>1 DEF Mount
  <2> QED
    BY <2>1, LoadSends, LoadFresh DEF Settled
<1>2. CASE LoadServed
  <2>1. PICK r \in requests :
          /\ r.op = "load" /\ clean' = clean /\ sole' = sole /\ mounts' = mounts
          /\ requests' = (requests \ {r}) \cup {[r EXCEPT !.shot = shelves']}
    BY <1>2 DEF LoadServed
  <2> DEFINE r1 == [r EXCEPT !.shot = shelves']
  <2>2. r1.id = r.id /\ r1.op = r.op /\ r1.stock = r.stock
    <3>1. r \in Calls
      BY DEF ListsShaped
    <3> QED
      BY <3>1 DEF Calls
  <2>3. requests = {r} /\ r.id \in sole /\ r.stock = NoStock
    BY <2>1 DEF Fresh, Loading, Pending
  <2>4. requests' = {r1}
    BY <2>1, <2>3
  <2> HIDE DEF r1
  <2>5. Loading'
    BY <2>1, <2>2, <2>3, <2>4 DEF Loading
  <2> QED
    BY <2>5 DEF Settled
<1>3. CASE LoadAnswered
  <2>1. PICK r \in requests :
           /\ r.op = "load" /\ r.shot # <<>> /\ shelves' = shelves /\ mounts' = mounts
           /\ \/ /\ watchlists' = r.shot /\ activeId' = NextActive(r.shot, r.was)
                 /\ requests' = requests \ {r} /\ sole' = {} /\ clean' = (r.id \in sole)
                 /\ nextId' = nextId
              \/ /\ r.stock # NoStock
                 /\ \/ \E q : Sends(requests \ {r}, q)
                    \/ /\ requests' = requests \ {r} /\ sole' = sole /\ clean' = clean
                       /\ nextId' = nextId + 1
    BY <1>3, LoadsAnswered
  <2>2. CASE r.stock # NoStock /\ clean
    BY <2>1, <2>2 DEF Fresh, Loading, Pending
  <2>3. CASE ~(r.stock # NoStock /\ clean)
    <3>1. (\E q : Sends(requests \ {r}, q)) => clean
      BY DEF Sends, SendTo
    <3>2. /\ watchlists' = r.shot /\ activeId' = NextActive(r.shot, r.was)
          /\ requests' = requests \ {r} /\ r.id \in sole
      BY <2>1, <2>3, <3>1
    <3> QED
      BY <2>1, <3>2, LoadedFollows DEF Settled
  <2> QED
    BY <2>2, <2>3
<1>4. CASE LoadFailed
  <2>1. PICK r \in requests :
           /\ r.op = "load" /\ shelves' = shelves /\ mounts' = mounts
           /\ \/ /\ requests' = requests \ {r} /\ sole' = {} /\ clean' = FALSE
                 /\ nextId' = nextId
              \/ /\ r.stock # NoStock
                 /\ \/ \E q : Sends(requests \ {r}, q)
                    \/ /\ requests' = requests \ {r} /\ sole' = sole /\ clean' = clean
                       /\ nextId' = nextId + 1
    BY <1>4, LoadsFailed
  <2>2. clean /\ r.stock # NoStock
    BY <2>1 DEF Sends, SendTo
  <2> QED
    BY <2>1, <2>2 DEF Fresh, Loading, Pending
<1> QED
  BY <1>1, <1>2, <1>3, <1>4

LEMMA FreshNext == ListsShaped /\ Told /\ Fresh /\ [ListsNext]_listVars => Fresh'
<1> SUFFICES ASSUME ListsShaped, Told, Fresh, [ListsNext]_listVars, clean', mounts' > 0
             PROVE  Settled'
  BY DEF Fresh, Settled
<1>1. CASE AddFromDialog \/ RemoveRow \/ ToggleStar
  BY <1>1, Pressed, AddFresh, RemoveFresh
<1>2. CASE UNCHANGED listVars
  BY <1>2 DEF listVars, Fresh, Settled, Loading, Doomed, Followed, ShowsEdits, EditsWaiting,
              PutsBack, Pending, ShownItem
<1> QED
  BY <1>1, <1>2, PressFresh, AnsweredFresh, FailsFresh, LoadsFresh DEF ListsNext

LEMMA ToldInit == ListsInit => Told /\ Fresh
<1> SUFFICES ASSUME ListsInit PROVE Told /\ Fresh
  OBVIOUS
<1>1. requests = {} /\ nextId = 4 /\ mounts = 0
  BY DEF ListsInit
<1>2. NumberedLists /\ AskedAlone /\ Fresh
  BY <1>1 DEF NumberedLists, AskedAlone, Fresh, LocalList
<1>3. CASE shelves = <<>>
  <2>1. ListIds(shelves) = {} /\ Distinct(shelves)
    BY <1>3 DEF ListIds, Distinct
  <2> QED
    BY <1>2, <2>1 DEF Told, Shelved
<1>4. CASE shelves # <<>>
  <2> DEFINE s == CHOOSE t \in Listed : TRUE
             i == [id |-> 0, stock |-> s, saved |-> TRUE]
  <2>1. shelves = <<[id |-> 2, items |-> {}], [id |-> 3, items |-> {i}]>>
    BY <1>4 DEF ListsInit
  <2>2. i.saved /\ i.id = 0
    OBVIOUS
  <2> HIDE DEF i
  <2>3. /\ DOMAIN shelves = {1, 2} /\ shelves[1].id = 2 /\ shelves[2].id = 3
        /\ shelves[1].items = {} /\ shelves[2].items = {i}
    BY <2>1
  <2>4. Distinct(shelves)
    BY <2>3 DEF Distinct
  <2>5. \A l \in ListIds(shelves) : l \in {2, 3} /\ \A j \in Items(shelves, l) : j = i
    BY <2>3, IdsAre, ItemsAre
  <2>6. \A op : Pending(op) = {}
    BY <1>1 DEF Pending
  <2> QED
    BY <1>1, <1>2, <2>2, <2>4, <2>5, <2>6 DEF Told, Shelved, LocalList
<1> QED
  BY <1>3, <1>4

\* Once all is answered the panel has the lists of the server.
LEMMA SettledReaches == ListsShaped /\ Fresh => EditsReachServer
<1> SUFFICES ASSUME ListsShaped, Fresh, clean, requests = {}, mounts > 0
             PROVE  /\ ListIds(watchlists) = ListIds(shelves)
                    /\ \A l \in ListIds(shelves) : Items(watchlists, l) = Items(shelves, l)
  BY DEF EditsReachServer
<1>1. Followed
  BY DEF Fresh, Loading, Doomed, Pending
<1> QED
  BY <1>1, ShowsServer DEF Followed, SameLists

\* Edits that overlapped each other, and an edit refused alone, leave the browser with the
\* lists of the server once all is answered, for any number of them
\* (useWatchlistStore.js:241-470).
THEOREM EditsReachTheServer == ListsSpec => []EditsReachServer
<1>1. ListsInit => ListsShaped /\ Told /\ Fresh
  BY ShapedInit, ToldInit
<1>2. ListsShaped /\ Told /\ Fresh /\ [ListsNext]_listVars => (ListsShaped /\ Told /\ Fresh)'
  BY ShapedNext, ToldNext, FreshNext
<1>3. ListsShaped /\ Told /\ Fresh => EditsReachServer
  BY SettledReaches
<1> QED
  BY <1>1, <1>2, <1>3, PTL DEF ListsSpec

-----------------------------------------------------------------------------
(* The administration console *)

\* What a request is about: a page of the table, a user, or nothing.
Asked(j) ==
  /\ j \in Job
  /\ j.kind \in {"refresh", "reload", "verified"} => j.about \in Filters
  /\ j.kind \in {"detail", "act"} => j.about \in Accounts \cup {NoAccount}

ConsoleTyped == ConsoleTypeOK /\ \A j \in jobs : Asked(j)

LEMMA ConsoleTypedInit == ConsoleInit => ConsoleTyped
<1> SUFFICES ASSUME ConsoleInit PROVE ConsoleTyped
  OBVIOUS
<1>1. Bootstrap \in Job /\ Asked(Bootstrap)
  BY DEF ConsoleInit, Bootstrap, Request, Job, Kinds, Asked
<1>2. 0 \in 0 .. MaxClicks
  BY ConsoleAssumption
<1> QED
  BY <1>1, <1>2 DEF ConsoleInit, ConsoleTyped, ConsoleTypeOK, Levels, Filters

\* The requests that the page makes are of these forms.
LEMMA RequestsAsk ==
  ASSUME ConsoleTyped
  PROVE  /\ \A k \in Kinds, f \in Filters, t \in BOOLEAN :
              k \notin {"detail", "act"} => Asked([kind |-> k, about |-> f, token |-> t])
         /\ \A k \in Kinds, a \in Accounts \cup {NoAccount}, t \in BOOLEAN :
              k \notin {"refresh", "reload", "verified"}
                => Asked([kind |-> k, about |-> a, token |-> t])
         /\ \A who \in Accounts \cup {NoAccount} :
              \A d \in DetailJob("dashboard", who) :
                 Asked(d) /\ d.kind = "detail" /\ Asked([d EXCEPT !.token = TRUE])
         /\ Asked(Bootstrap) /\ adminToken \in BOOLEAN /\ filter \in Filters
<1>1. adminToken \in BOOLEAN /\ filter \in Filters
  BY DEF ConsoleTyped, ConsoleTypeOK
<1>2. \A k \in Kinds, f \in Filters, t \in BOOLEAN :
              k \notin {"detail", "act"} => Asked([kind |-> k, about |-> f, token |-> t])
  BY DEF Asked, Job
<1>3. \A k \in Kinds, a \in Accounts \cup {NoAccount}, t \in BOOLEAN :
              k \notin {"refresh", "reload", "verified"}
                => Asked([kind |-> k, about |-> a, token |-> t])
  BY DEF Asked, Job
<1>4. ASSUME NEW who \in Accounts \cup {NoAccount}, NEW d \in DetailJob("dashboard", who)
      PROVE  Asked(d) /\ d.kind = "detail" /\ Asked([d EXCEPT !.token = TRUE])
  <2>1. d = [kind |-> "detail", about |-> who, token |-> adminToken]
    BY <1>4 DEF DetailJob, Request
  <2>2. Asked(d) /\ d.kind = "detail"
    BY <1>1, <1>3, <2>1 DEF Kinds
  <2>3. /\ [d EXCEPT !.token = TRUE] \in Job
        /\ [d EXCEPT !.token = TRUE].kind = d.kind
        /\ [d EXCEPT !.token = TRUE].about = d.about
    BY <2>2 DEF Asked, Job
  <2> QED BY <2>2, <2>3 DEF Asked
<1>5. Asked(Bootstrap)
  BY <1>1 DEF Bootstrap, Request, Asked, Job, Kinds
<1> QED
  BY <1>1, <1>2, <1>3, <1>4, <1>5

\* An answer.
LEMMA ConsoleAnswerTyped == ConsoleTyped /\ Answered => ConsoleTyped'
<1> SUFFICES ASSUME ConsoleTyped, NEW j \in jobs,
                    \/ SessionValidated(j) \/ StatusKnown(j) \/ Refreshed(j)
                    \/ SetupAnswered(j) \/ VerifyAnswered(j)
                    \/ DetailLoaded(j) \/ UserActionDone(j) \/ AdminsAnswered(j)
             PROVE  ConsoleTyped'
  BY DEF Answered
<1>0. /\ Asked(j) /\ adminToken \in BOOLEAN /\ filter \in Filters
      /\ modalUser \in Accounts \cup {NoAccount} /\ \A d \in jobs : Asked(d)
  BY DEF ConsoleTyped, ConsoleTypeOK
<1>1. (\A d \in jobs' : d \in jobs \/ Asked(d))
        => jobs' \subseteq Job /\ \A d \in jobs' : Asked(d)
  BY <1>0 DEF Asked
<1>11. /\ \A d \in DetailJob("dashboard", modalUser) : Asked(d)
       /\ \A d \in {[x EXCEPT !.token = TRUE] : x \in DetailJob("dashboard", modalUser)} : Asked(d)
  <2>1. \A d \in DetailJob("dashboard", modalUser) :
           Asked(d) /\ d.kind = "detail" /\ Asked([d EXCEPT !.token = TRUE])
    BY <1>0, RequestsAsk
  <2> QED BY <2>1
<1> USE DEF KeepsServer, KeepsDialogs, ResetToVerifyStage
<1>2. Finish(j, {}) => \A d \in jobs' : d \in jobs \/ Asked(d)
  BY DEF Finish
<1>3. CASE SessionValidated(j)
  <2>1. CASE Authorised(j)
    <3>1. Asked(Request("refresh", filter))
      BY <1>0, RequestsAsk DEF Request, Kinds
    <3>3. \A d \in jobs' : d \in jobs \/ Asked(d)
      BY <1>3, <1>11, <2>1, <3>1 DEF SessionValidated, Finish
    <3> QED BY <1>1, <1>3, <2>1, <3>3 DEF ConsoleTyped, ConsoleTypeOK, SessionValidated
  <2>2. CASE ~Authorised(j)
    <3>1. Asked([kind |-> "status", about |-> NoAccount, token |-> FALSE])
      BY RequestsAsk DEF Kinds
    <3>2. \A d \in jobs' : d \in jobs \/ Asked(d)
      BY <1>3, <2>2, <3>1 DEF SessionValidated, Finish
    <3> QED BY <1>1, <1>3, <2>2, <3>2 DEF ConsoleTyped, ConsoleTypeOK, SessionValidated
  <2> QED BY <2>1, <2>2
<1>4. CASE StatusKnown(j)
  BY <1>1, <1>2, <1>4 DEF ConsoleTyped, ConsoleTypeOK, StatusKnown, DetailShown
<1>5. CASE Refreshed(j)
  <2>1. j.about \in Filters
    BY <1>0, <1>5 DEF Refreshed, Asked
  <2> QED BY <1>1, <1>2, <1>5, <2>1 DEF ConsoleTyped, ConsoleTypeOK, Refreshed
<1>6. CASE SetupAnswered(j)
  BY <1>1, <1>2, <1>6 DEF ConsoleTyped, ConsoleTypeOK, SetupAnswered
<1>7. CASE VerifyAnswered(j)
  <2>1. \A d \in jobs' : d \in jobs \/ Asked(d)
    <3>1. Asked([kind |-> "verified", about |-> filter, token |-> TRUE])
      BY <1>0, RequestsAsk DEF Kinds
    <3> QED BY <1>2, <1>7, <1>11, <3>1 DEF VerifyAnswered, Finish
  <2>2. jobs' \subseteq Job /\ \A d \in jobs' : Asked(d)
    BY <1>1, <2>1
  <2>3. /\ adminToken' \in {adminToken, TRUE} /\ liveSession' \in {liveSession, TRUE}
        /\ authStage' \in {authStage, "dashboard"}
        /\ UNCHANGED <<hasTwoFactor, trueLevel, bootstrapping, adminLevel, filter, rows,
                       auditOpen, modalUser, detail, adminsOpen, clicks>>
    BY <1>7 DEF VerifyAnswered
  <2>4. /\ adminToken' \in BOOLEAN /\ liveSession' \in BOOLEAN
        /\ authStage' \in {"setup", "verify", "dashboard"}
    BY <2>3 DEF ConsoleTyped, ConsoleTypeOK
  <2>5. /\ hasTwoFactor' = hasTwoFactor /\ trueLevel' = trueLevel /\ rows' = rows
        /\ bootstrapping' = bootstrapping /\ adminLevel' = adminLevel /\ filter' = filter
        /\ auditOpen' = auditOpen /\ modalUser' = modalUser /\ detail' = detail
        /\ adminsOpen' = adminsOpen /\ clicks' = clicks
    BY <2>3
  <2> QED BY <2>2, <2>4, <2>5 DEF ConsoleTyped, ConsoleTypeOK
<1>8. CASE DetailLoaded(j)
  <2>1. j.about \in Accounts \cup {NoAccount}
    BY <1>0, <1>8 DEF DetailLoaded, Asked
  <2> QED BY <1>1, <1>2, <1>8, <2>1 DEF ConsoleTyped, ConsoleTypeOK, DetailLoaded
<1>9. CASE UserActionDone(j)
  <2>1. j.about \in Accounts \cup {NoAccount}
    BY <1>0, <1>9 DEF UserActionDone, Asked
  <2>2. Asked(Request("reload", filter)) /\ Asked(Request("detail", j.about))
    BY <1>0, <2>1, RequestsAsk DEF Request, Kinds
  <2>3. \A d \in jobs' : d \in jobs \/ Asked(d)
    BY <1>2, <1>9, <2>2 DEF UserActionDone, Finish
  <2> QED BY <1>1, <1>9, <2>3 DEF ConsoleTyped, ConsoleTypeOK, UserActionDone
<1>10. CASE AdminsAnswered(j)
  BY <1>1, <1>2, <1>10 DEF ConsoleTyped, ConsoleTypeOK, AdminsAnswered
<1> QED
  BY <1>3, <1>4, <1>5, <1>6, <1>7, <1>8, <1>9, <1>10

LEMMA ConsoleTypedNext == ConsoleTyped /\ [ConsoleNext]_consoleVars => ConsoleTyped'
<1> SUFFICES ASSUME ConsoleTyped, [ConsoleNext]_consoleVars PROVE ConsoleTyped'
  OBVIOUS
<1>0. /\ adminToken \in BOOLEAN /\ filter \in Filters
      /\ modalUser \in Accounts \cup {NoAccount} /\ \A j \in jobs : Asked(j)
  BY DEF ConsoleTyped, ConsoleTypeOK
<1>1. (\A d \in jobs' : d \in jobs \/ Asked(d))
        => jobs' \subseteq Job /\ \A d \in jobs' : Asked(d)
  BY <1>0 DEF Asked
<1>2. Click => clicks' \in 0 .. MaxClicks
  BY ConsoleAssumption DEF Click, ConsoleTyped, ConsoleTypeOK
<1>21. \A d \in {Bootstrap} : Asked(d)
  BY RequestsAsk
<1>3. BootstrapAgain => jobs' \subseteq Job /\ \A d \in jobs' : Asked(d)
  BY <1>1, <1>21 DEF BootstrapAgain
<1>4. ASSUME NEW kind \in Kinds, NEW about, Send(kind, about), Asked(Request(kind, about))
      PROVE  jobs' \subseteq Job /\ \A d \in jobs' : Asked(d)
  <2>1. \A d \in {Request(kind, about)} : Asked(d)
    BY <1>4
  <2> QED BY <1>1, <1>4, <2>1 DEF Send
<1>5. \A kind \in {"setup", "enable", "verify", "admins"} : kind \in Kinds /\ Asked(Request(kind, NoAccount))
  BY <1>0, RequestsAsk DEF Request, Kinds
<1> USE DEF KeepsServer, KeepsDialogs, ResetToVerifyStage
<1>6. CASE Answered
  BY <1>6, ConsoleAnswerTyped
<1>7. ASSUME NEW f \in Filters, ApplyFilter(f) PROVE ConsoleTyped'
  BY <1>2, <1>3, <1>7 DEF ConsoleTyped, ConsoleTypeOK, ApplyFilter, BootstrapAgain
<1>8. CASE ToggleAudit
  BY <1>2, <1>3, <1>8 DEF ConsoleTyped, ConsoleTypeOK, ToggleAudit, BootstrapAgain
<1>9. CASE NewProfile
  BY <1>2, <1>3, <1>9 DEF ConsoleTyped, ConsoleTypeOK, NewProfile, BootstrapAgain
<1>10. CASE PressSetup
  BY <1>2, <1>4, <1>5, <1>10 DEF ConsoleTyped, ConsoleTypeOK, PressSetup, Send
<1>11. CASE PressVerify
  BY <1>2, <1>4, <1>5, <1>11 DEF ConsoleTyped, ConsoleTypeOK, PressVerify, Send
<1>12. CASE PressRefresh
  <2>1. "reload" \in Kinds /\ Asked(Request("reload", filter))
    BY <1>0, RequestsAsk DEF Request, Kinds
  <2> QED BY <1>2, <1>4, <1>12, <2>1 DEF ConsoleTyped, ConsoleTypeOK, PressRefresh, Send
<1>13. ASSUME NEW a \in Accounts, OpenManageModal(a) PROVE ConsoleTyped'
  <2>1. \A d \in DetailJob("dashboard", a) : Asked(d)
    <3>1. a \in Accounts \cup {NoAccount}
      OBVIOUS
    <3> QED BY <3>1, RequestsAsk
  <2> QED BY <1>1, <1>2, <1>13, <2>1 DEF ConsoleTyped, ConsoleTypeOK, OpenManageModal
<1>14. CASE CloseManageModal
  BY <1>2, <1>14 DEF ConsoleTyped, ConsoleTypeOK, CloseManageModal
<1>15. CASE RunUserAction
  <2>1. "act" \in Kinds /\ Asked(Request("act", modalUser))
    BY <1>0, RequestsAsk DEF Request, Kinds
  <2> QED BY <1>2, <1>4, <1>15, <2>1 DEF ConsoleTyped, ConsoleTypeOK, RunUserAction, Send
<1>16. CASE OpenAdmins
  BY <1>2, <1>4, <1>5, <1>16 DEF ConsoleTyped, ConsoleTypeOK, OpenAdmins, Send
<1>17. CASE ManageAdmins
  BY <1>2, <1>4, <1>5, <1>17 DEF ConsoleTyped, ConsoleTypeOK, ManageAdmins, Send
<1>18. CASE EndAdminSession
  BY <1>2, <1>18 DEF ConsoleTyped, ConsoleTypeOK, EndAdminSession
<1>19. CASE SessionExpires
  <2>1. liveSession' \in BOOLEAN /\ trueLevel' \in Levels
    BY <1>19 DEF ConsoleTyped, ConsoleTypeOK, SessionExpires
  <2>2. /\ Click
        /\ UNCHANGED <<hasTwoFactor, bootstrapping, adminLevel, filter, rows, auditOpen, jobs>>
        /\ UNCHANGED <<adminToken, authStage, modalUser, detail, adminsOpen>>
    BY <1>19 DEF SessionExpires
  <2> QED BY <1>2, <2>1, <2>2 DEF ConsoleTyped, ConsoleTypeOK
<1>20. CASE UNCHANGED consoleVars
  BY <1>20 DEF consoleVars, ConsoleTyped, ConsoleTypeOK
<1> QED
  BY <1>6, <1>7, <1>8, <1>9, <1>10, <1>11, <1>12, <1>13, <1>14, <1>15, <1>16, <1>17, <1>18, <1>19,
     <1>20 DEF ConsoleNext, Clicked

-----------------------------------------------------------------------------
(* The prices of the watchlists *)

\* The prices of a watchlist.
LEMMA PricesTypedInit == PricesInit => PricesTypeOK
<1>1. NoBatch \in [want : SUBSET Quoted, lacks : SUBSET Quoted, stage : 0 .. LastStage]
  BY DEF NoBatch, LastStage
<1> QED
  BY <1>1 DEF PricesInit, PricesTypeOK

\* A fetch that starts asks for what is on the list.
LEMMA FetchTyped ==
  ASSUME PricesTypeOK, NEW tab \in Tabs, contents' \in [Tabs -> SUBSET Quoted], FetchPrices(tab)
  PROVE  batch' \in [want : SUBSET Quoted, lacks : SUBSET Quoted, stage : 0 .. LastStage]
<1>1. contents'[tab] \in SUBSET Quoted /\ 1 \in 0 .. LastStage
  BY DEF LastStage
<1> QED
  BY <1>1 DEF FetchPrices, PricesTypeOK

LEMMA PricesTypedNext == PricesTypeOK /\ [PricesNext]_priceVars => PricesTypeOK'
<1> SUFFICES ASSUME PricesTypeOK, [PricesNext]_priceVars PROVE PricesTypeOK'
  OBVIOUS
<1>0. /\ viewed \in Tabs /\ contents \in [Tabs -> SUBSET Quoted]
      /\ batch \in [want : SUBSET Quoted, lacks : SUBSET Quoted, stage : 0 .. LastStage]
      /\ priced \subseteq Quoted /\ backoff \in BOOLEAN
  BY DEF PricesTypeOK
<1>1. CASE SetTab
  BY <1>0, <1>1, FetchTyped DEF SetTab, PricesTypeOK
<1>2. CASE AddStock
  <2>1. contents' \in [Tabs -> SUBSET Quoted]
    BY <1>0, <1>2 DEF AddStock
  <2> QED BY <1>0, <1>2, <2>1, FetchTyped DEF AddStock, PricesTypeOK
<1>3. CASE DropStock
  <2>1. contents' \in [Tabs -> SUBSET Quoted]
    BY <1>0, <1>3 DEF DropStock
  <2> QED BY <1>0, <1>3, <2>1, FetchTyped DEF DropStock, PricesTypeOK
<1>4. CASE PollPrices
  BY <1>0, <1>4, FetchTyped DEF PollPrices, PricesTypeOK
<1>5. CASE StageAnswered
  <2>1. PICK lacks \in Lacking :
           /\ backoff' \in {backoff, TRUE}
           /\ IF lacks = {} \/ backoff' \/ batch.stage = LastStage THEN Merge(lacks)
              ELSE /\ batch' = [batch EXCEPT !.lacks = lacks, !.stage = @ + 1]
                   /\ UNCHANGED priced
    BY <1>5 DEF StageAnswered
  <2>2. lacks \in SUBSET Quoted /\ backoff' \in BOOLEAN
    BY <1>0, <2>1 DEF Lacking
  <2>3. CASE Merge(lacks)
    BY <1>0, <1>5, <2>2, <2>3 DEF Merge, StageAnswered, PricesTypeOK, NoBatch, LastStage
  <2>4. CASE /\ batch.stage # LastStage /\ UNCHANGED priced
             /\ batch' = [batch EXCEPT !.lacks = lacks, !.stage = @ + 1]
    <3>1. batch.stage + 1 \in 0 .. LastStage
      BY <1>0, <2>4 DEF LastStage
    <3> QED BY <1>0, <1>5, <2>2, <2>4, <3>1 DEF StageAnswered, PricesTypeOK
  <2> QED BY <2>1, <2>3, <2>4
<1>6. CASE TickPrices
  BY <1>0, <1>6 DEF TickPrices, PricesTypeOK
<1>7. CASE BackoffEnds
  BY <1>0, <1>7 DEF BackoffEnds, PricesTypeOK
<1>8. CASE UNCHANGED priceVars
  BY <1>0, <1>8 DEF priceVars, PricesTypeOK
<1> QED
  BY <1>1, <1>2, <1>3, <1>4, <1>5, <1>6, <1>7, <1>8 DEF PricesNext

-----------------------------------------------------------------------------
(* The contracts of futures *)

\* The fetches under way.
Fetches == [of : Futures, stage : {"list", "quotes"}]

ContractsTyped == ContractsTypeOK /\ fetches \in Seq(Fetches)

LEMMA ContractsTypedInit == ContractsInit => ContractsTyped
<1> SUFFICES ASSUME ContractsInit PROVE ContractsTyped
  OBVIOUS
<1>1. futSymbol \in Futures
  BY ContractsAssumption DEF ContractsInit
<1>2. [of |-> futSymbol, stage |-> "list"] \in Fetches
  BY <1>1 DEF Fetches
<1> QED
  BY <1>1, <1>2 DEF ContractsInit, ContractsTyped, ContractsTypeOK, Fetches

LEMMA ContractsTypedNext == ContractsTyped /\ [ContractsNext]_contractVars => ContractsTyped'
<1> SUFFICES ASSUME ContractsTyped, [ContractsNext]_contractVars PROVE ContractsTyped'
  OBVIOUS
<1>0. /\ {contracts, contractQuotes, spot} \subseteq Futures \cup {NoFuture} /\ futSymbol \in Futures
      /\ futLoading \in BOOLEAN /\ fetches \in Seq(Fetches)
  BY DEF ContractsTyped, ContractsTypeOK
<1>1. fetches' \in Seq(Fetches) => \A i \in DOMAIN fetches' : fetches'[i] \in Fetches
  OBVIOUS
<1>2. ASSUME NEW s \in Futures, FetchContracts(s)
      PROVE  fetches' \in Seq(Fetches) /\ futLoading' \in BOOLEAN
  <2>1. [of |-> s, stage |-> "list"] \in Fetches
    BY DEF Fetches
  <2> QED BY <1>0, <1>2, <2>1 DEF FetchContracts
<1>3. CASE SetSymbol
  BY <1>0, <1>1, <1>2, <1>3 DEF SetSymbol, ContractsTyped, ContractsTypeOK, Fetches
<1>4. CASE Refetch
  BY <1>0, <1>1, <1>2, <1>4 DEF Refetch, ContractsTyped, ContractsTypeOK, Fetches
<1>5. CASE FetchLands
  <2>1. PICK i \in DOMAIN fetches : ListLands(i) \/ QuotesLand(i) \/ FetchFails(i)
    BY <1>5 DEF FetchLands
  <2>2. fetches[i] \in Fetches /\ RemoveAt(fetches, i) \in Seq(Fetches)
    <3>1. i \in 1 .. Len(fetches)
      BY <1>0, <2>1
    <3> QED BY <1>0, <3>1 DEF RemoveAt
  <2>3. fetches[i].of \in Futures
    BY <2>2 DEF Fetches
  <2>4. [fetches EXCEPT ![i].stage = "quotes"] \in Seq(Fetches)
    <3>1. [fetches[i] EXCEPT !.stage = "quotes"] \in Fetches
      BY <2>2 DEF Fetches
    <3> QED BY <1>0, <2>1, <3>1
  <2>5. fetches' \in Seq(Fetches) /\ futLoading' \in BOOLEAN
    <3>1. CASE ListLands(i)
      BY <1>0, <2>2, <2>4, <3>1 DEF ListLands
    <3>2. CASE QuotesLand(i) \/ FetchFails(i)
      BY <1>0, <2>2, <3>2 DEF QuotesLand, FetchFails
    <3> QED BY <2>1, <3>1, <3>2
  <2>6. {contracts', contractQuotes', spot'} \subseteq Futures \cup {NoFuture} /\ futSymbol' \in Futures
    BY <1>0, <1>5, <2>1, <2>3 DEF ListLands, QuotesLand, FetchFails, FetchLands
  <2> QED BY <1>1, <2>5, <2>6 DEF ContractsTyped, ContractsTypeOK, Fetches
<1>6. CASE UNCHANGED contractVars
  BY <1>0, <1>1, <1>6 DEF contractVars, ContractsTyped, ContractsTypeOK, Fetches
<1> QED
  BY <1>3, <1>4, <1>5, <1>6 DEF ContractsNext

-----------------------------------------------------------------------------
(* The options desk *)

OptionFetches == [of : Underlyings, expiry : Dates \cup {NoDate}]
OptionForms == [strike : Underlyings \cup {NoUnderlying}, type : Sides2, side : {"BUY", "SELL"},
                premium : Sides2]

OptionsTyped ==
  /\ underlying \in Underlyings /\ expiry \in Dates \cup {NoDate}
  /\ {expiryList, optionChain.of, chainMenu.of} \subseteq Underlyings \cup {NoUnderlying}
  /\ optLoading \in BOOLEAN /\ chains \in Seq(OptionFetches) /\ optForm \in OptionForms
  /\ chainMenu.type \in Sides2 \cup {"row"}

LEMMA FormsTyped ==
  \A of \in Underlyings \cup {NoUnderlying}, type \in Sides2, side \in {"BUY", "SELL"} :
     Form(of, type, side) \in OptionForms
  BY DEF Form, OptionForms

LEMMA OptionsTypedShows == OptionsTyped => OptionsTypeOK
<1>1. chains \in Seq(OptionFetches)
        => \A i \in DOMAIN chains : chains[i].of \in Underlyings /\ chains[i].expiry \in Dates \cup {NoDate}
  <2> SUFFICES ASSUME chains \in Seq(OptionFetches), NEW i \in DOMAIN chains
               PROVE  chains[i].of \in Underlyings /\ chains[i].expiry \in Dates \cup {NoDate}
    OBVIOUS
  <2>1. chains[i] \in OptionFetches
    OBVIOUS
  <2> QED BY <2>1 DEF OptionFetches
<1>2. optForm \in OptionForms => /\ optForm.strike \in Underlyings \cup {NoUnderlying}
                                 /\ optForm.type \in Sides2 /\ optForm.premium \in Sides2
  BY DEF OptionForms
<1> QED
  BY <1>1, <1>2 DEF OptionsTyped, OptionsTypeOK

LEMMA OptionsTypedInit == OptionsInit => OptionsTyped
<1> SUFFICES ASSUME OptionsInit PROVE OptionsTyped
  OBVIOUS
<1>1. underlying \in Underlyings
  BY OptionsAssumption DEF OptionsInit
<1>2. [of |-> underlying, expiry |-> NoDate] \in OptionFetches
  BY <1>1 DEF OptionFetches
<1>3. chains \in Seq(OptionFetches)
  BY <1>2 DEF OptionsInit
<1>4. optForm \in OptionForms
  BY FormsTyped DEF OptionsInit, Sides2
<1> QED
  BY <1>1, <1>3, <1>4 DEF OptionsTyped, OptionsInit, NoChain, NoMenu

LEMMA DatesAre == \A u \in Underlyings : ToSet(DatesOf[u]) \subseteq Dates /\ DatesOf[u][1] \in Dates
<1> SUFFICES ASSUME NEW u \in Underlyings
             PROVE  ToSet(DatesOf[u]) \subseteq Dates /\ DatesOf[u][1] \in Dates
  OBVIOUS
<1>1. ToSet(DatesOf[u]) \subseteq Dates
  BY DEF Dates
<1>2. DatesOf[u][1] \in ToSet(DatesOf[u])
  BY OptionsAssumption DEF ToSet
<1> QED BY <1>1, <1>2

LEMMA OptionsTypedNext == OptionsTyped /\ [OptionsNext]_optionVars => OptionsTyped'
<1> SUFFICES ASSUME OptionsTyped, [OptionsNext]_optionVars PROVE OptionsTyped'
  OBVIOUS
<1>0. /\ underlying \in Underlyings /\ expiry \in Dates \cup {NoDate}
      /\ {expiryList, optionChain.of, chainMenu.of} \subseteq Underlyings \cup {NoUnderlying}
      /\ optLoading \in BOOLEAN /\ chains \in Seq(OptionFetches) /\ optForm \in OptionForms
      /\ chainMenu.type \in Sides2 \cup {"row"}
  BY DEF OptionsTyped
<1>2. ASSUME NEW list \in Seq(OptionFetches), NEW u \in Underlyings, NEW d \in Dates \cup {NoDate},
             Fetching(list, u, d)
      PROVE  chains' \in Seq(OptionFetches) /\ optLoading' \in BOOLEAN
  <2>1. [of |-> u, expiry |-> d] \in OptionFetches
    BY DEF OptionFetches
  <2> QED BY <1>2, <2>1 DEF Fetching
<1>3. /\ NoChain.of = NoUnderlying /\ NoMenu.of = NoUnderlying
      /\ NoMenu.type \in Sides2 \cup {"row"} /\ "CE" \in Sides2
  BY DEF NoChain, NoMenu, Sides2
<1>4. CASE SelectUnderlying
  <2>1. PICK u \in Underlyings : underlying' = u /\ Fetching(chains, u, NoDate)
    BY <1>4 DEF SelectUnderlying
  <2>2. chains' \in Seq(OptionFetches) /\ optLoading' \in BOOLEAN
    BY <1>0, <1>2, <2>1
  <2>3. optForm' \in OptionForms
    BY <1>0, <1>3, <1>4, FormsTyped DEF SelectUnderlying
  <2> QED BY <1>0, <1>3, <1>4, <2>1, <2>2, <2>3 DEF OptionsTyped, SelectUnderlying
<1>5. CASE SelectExpiry
  <2>1. PICK d \in ToSet(DatesOf[expiryList]) : expiry' = d /\ Fetching(chains, underlying, d)
    BY <1>5 DEF SelectExpiry
  <2>2. d \in Dates
    BY <1>0, <1>5, <2>1, DatesAre DEF SelectExpiry
  <2>3. chains' \in Seq(OptionFetches) /\ optLoading' \in BOOLEAN
    BY <1>0, <1>2, <2>1, <2>2
  <2> QED BY <1>0, <1>3, <1>5, <2>1, <2>2, <2>3 DEF OptionsTyped, SelectExpiry
<1>6. CASE RefreshChain
  <2>1. chains' \in Seq(OptionFetches) /\ optLoading' \in BOOLEAN
    BY <1>0, <1>2, <1>6 DEF RefreshChain
  <2> QED BY <1>0, <1>6, <2>1 DEF OptionsTyped, RefreshChain
<1>7. CASE HandleSelectOption
  <2>1. optForm' \in OptionForms
    BY <1>0, <1>7, FormsTyped DEF HandleSelectOption
  <2> QED BY <1>0, <1>3, <1>7, <2>1 DEF OptionsTyped, HandleSelectOption
<1>8. CASE OpenContextMenu
  BY <1>0, <1>8 DEF OptionsTyped, OpenContextMenu
<1>9. CASE RunContextAction
  <2>1. optForm' \in OptionForms
    BY <1>0, <1>9, FormsTyped DEF RunContextAction
  <2> QED BY <1>0, <1>3, <1>9, <2>1 DEF OptionsTyped, RunContextAction
<1>10. CASE SetOptionType
  <2>1. optForm' \in OptionForms
    BY <1>0, <1>10 DEF SetOptionType, OptionForms
  <2> QED BY <1>0, <1>3, <1>10, <2>1 DEF OptionsTyped, SetOptionType
<1>11. CASE ChainAnswered
  <2>1. PICK i \in DOMAIN chains : ChainLands(i) \/ ChainFails(i)
    BY <1>11 DEF ChainAnswered
  <2>2. chains[i] \in OptionFetches /\ RemoveAt(chains, i) \in Seq(OptionFetches)
    <3>1. i \in 1 .. Len(chains)
      BY <1>0, <2>1
    <3> QED BY <1>0, <3>1 DEF RemoveAt
  <2>3. CASE ChainLands(i)
    <3>1. chains[i].of \in Underlyings /\ chains[i].expiry \in Dates \cup {NoDate}
      BY <2>2 DEF OptionFetches
    <3>2. expiry' \in Dates \cup {NoDate}
      BY <1>0, <2>3, <3>1, DatesAre DEF ChainLands
    <3>3. chains' \in Seq(OptionFetches) /\ optLoading' \in BOOLEAN
      BY <1>0, <1>2, <2>2, <2>3, <3>2 DEF ChainLands
    <3>4. optForm' \in OptionForms
      BY <1>3, <2>3, <3>1, FormsTyped DEF ChainLands
    <3>5. optionChain'.of \in Underlyings /\ expiryList' \in Underlyings
      BY <2>3, <3>1 DEF ChainLands, ChainOf
    <3> QED BY <1>0, <1>11, <3>2, <3>3, <3>4, <3>5 DEF OptionsTyped, ChainAnswered
  <2>4. CASE ChainFails(i)
    BY <1>0, <1>11, <2>2, <2>4 DEF OptionsTyped, ChainAnswered, ChainFails
  <2> QED BY <2>1, <2>3, <2>4
<1>12. CASE UNCHANGED optionVars
  BY <1>0, <1>12 DEF OptionsTyped, optionVars
<1> QED
  BY <1>4, <1>5, <1>6, <1>7, <1>8, <1>9, <1>10, <1>11, <1>12 DEF OptionsNext

-----------------------------------------------------------------------------
(* The panel of ZeroLoss *)

ZeroEvents == [kind : {"scan", "entry", "exit"}, of : Scrips]
PollOk(p) == p \in [served : BOOLEAN, answer : States, n : {p.n}]
SwitchOk(w) ==
  w \in [answer : {NoAnswer, "on", "off", "refused"}, mine : BOOLEAN, n : {w.n}]

ZeroTyped ==
  /\ zero \in States /\ panel \in States /\ closing \in SUBSET zero.positions
  /\ stopping \in BOOLEAN /\ loading \in BOOLEAN /\ toggling \in BOOLEAN /\ onPage \in BOOLEAN
  /\ wire \in Seq(ZeroEvents)
  /\ \A p \in zeroPolls : PollOk(p)
  /\ \A w \in switches : SwitchOk(w)

LEMMA ZeroTypedShows == ZeroTyped => ZeroTypeOK
<1>1. \A p : PollOk(p) => p.answer \in States
  BY DEF PollOk
<1>2. \A w : SwitchOk(w) => w.answer \in {NoAnswer, "on", "off", "refused"}
  BY DEF SwitchOk
<1> QED
  BY <1>1, <1>2 DEF ZeroTyped, ZeroTypeOK

LEMMA ZeroTypedInit == ZeroInit => ZeroTyped
<1> SUFFICES ASSUME ZeroInit PROVE ZeroTyped
  OBVIOUS
<1>1. /\ Off \in States
      /\ [enabled |-> TRUE, positions |-> Scrips, confidence |-> Scrips] \in States
  BY DEF Off, States
<1>2. zero \in States /\ panel \in States /\ closing \in SUBSET zero.positions
  BY <1>1 DEF ZeroInit
<1>3. stopping \in BOOLEAN /\ loading \in BOOLEAN /\ toggling \in BOOLEAN /\ onPage \in BOOLEAN
  BY DEF ZeroInit
<1>4. wire \in Seq(ZeroEvents) /\ zeroPolls = {} /\ switches = {}
  BY DEF ZeroInit
<1> QED
  BY <1>2, <1>3, <1>4 DEF ZeroTyped

\* What is told is a sequence of events.
LEMMA TellTyped ==
  ASSUME wire \in Seq(ZeroEvents), NEW kind \in {"scan", "entry", "exit"}, NEW told \in SUBSET Scrips,
         Tell(kind, told)
  PROVE  wire' \in Seq(ZeroEvents)
<1>1. PICK E : E = {[kind |-> kind, of |-> s] : s \in told}
  OBVIOUS
<1>2. IsFiniteSet(E) /\ E \in SUBSET ZeroEvents
  <2>1. IsFiniteSet(told)
    BY ZeroAssumption, FS_Subset
  <2>2. E \in SUBSET ZeroEvents
    BY <1>1 DEF ZeroEvents
  <2> DEFINE f == [s \in told |-> [kind |-> kind, of |-> s]]
  <2>3. f \in Surjection(told, E)
    BY <1>1 DEF Surjection
  <2> QED BY <2>1, <2>2, <2>3, FS_Surjection
<1>3. PICK n \in Nat : n = Cardinality(E) /\ ExistsBijection(1 .. n, E)
  BY <1>2, FS_CardinalityType
<1>4. \E f \in [1 .. n -> E] : IsInjective(f)
  BY <1>3 DEF ExistsBijection, Bijection, Injection, Surjection, IsInjective
<1>5. SetToSeq(E) \in [1 .. n -> E]
  BY <1>3, <1>4 DEF SetToSeq
<1>6. SetToSeq(E) \in Seq(ZeroEvents)
  <2>1. PICK f \in [1 .. n -> ZeroEvents] : f = SetToSeq(E)
    BY <1>2, <1>5
  <2>2. f \in Seq(ZeroEvents)
    OBVIOUS
  <2> QED BY <2>1, <2>2
<1> QED
  BY <1>1, <1>6 DEF Tell

LEMMA ZeroTypedNext == ZeroTyped /\ [ZeroNext]_zeroVars => ZeroTyped'
<1> SUFFICES ASSUME ZeroTyped, [ZeroNext]_zeroVars PROVE ZeroTyped'
  OBVIOUS
<1>0. /\ zero \in States /\ panel \in States /\ closing \in SUBSET zero.positions
      /\ stopping \in BOOLEAN /\ loading \in BOOLEAN /\ toggling \in BOOLEAN /\ onPage \in BOOLEAN
      /\ wire \in Seq(ZeroEvents)
      /\ \A p \in zeroPolls : PollOk(p)
      /\ \A w \in switches : SwitchOk(w)
  BY DEF ZeroTyped
<1>00. zero.positions \in SUBSET Scrips /\ zero.confidence \in SUBSET Scrips
  BY <1>0 DEF States
<1>2. CASE Scan
  <2>1. PICK s \in Scrips \ zero.positions :
          \/ zero' = [zero EXCEPT !.confidence = @ \cup {s}] /\ Tell("scan", {s})
          \/ zero' = [zero EXCEPT !.positions = @ \cup {s}] /\ Tell("entry", {s})
    BY <1>2 DEF Scan
  <2>2. wire' \in Seq(ZeroEvents)
    BY <1>0, <2>1, TellTyped
  <2>3. zero' \in States /\ closing \in SUBSET zero'.positions
    BY <1>0, <2>1 DEF States
  <2> QED BY <1>0, <1>2, <2>2, <2>3 DEF ZeroTyped, Scan
<1>3. CASE MonitorCloses
  <2>1. PICK s \in zero.positions : closing' = closing \cup {s} /\ Tell("exit", {s})
    BY <1>3 DEF MonitorCloses
  <2>2. wire' \in Seq(ZeroEvents)
    BY <1>0, <1>00, <2>1, TellTyped
  <2> QED BY <1>0, <1>3, <2>1, <2>2 DEF ZeroTyped, MonitorCloses
<1>4. CASE MonitorForgets
  <2>1. zero' \in States
    BY <1>0, <1>4 DEF MonitorForgets, States
  <2> QED BY <1>0, <1>4, <2>1 DEF ZeroTyped, MonitorForgets
<1>5. CASE HandleZeroToggle
  <2>1. SwitchOk([answer |-> NoAnswer, mine |-> TRUE, n |-> faults])
    BY DEF SwitchOk
  <2> QED BY <1>0, <1>5, <2>1 DEF ZeroTyped, HandleZeroToggle
<1>6. CASE SwitchServed
  <2>1. PICK w \in switches :
    /\ \/ /\ ~zero.enabled /\ ~stopping
          /\ \/ zero' = [zero EXCEPT !.enabled = TRUE] /\ Answer2(w, "on")
             \/ faults < MaxFaults /\ UNCHANGED zero /\ Answer2(w, "refused")
          /\ UNCHANGED <<closing, stopping, wire, events>>
       \/ /\ zero.enabled /\ ~stopping /\ stopping' = TRUE
          /\ \E done \in SUBSET zero.positions : closing' = done /\ Tell("exit", done)
          /\ UNCHANGED <<zero, switches, events>>
       \/ /\ stopping /\ stopping' = FALSE /\ closing' = {}
          /\ zero' = [zero EXCEPT !.enabled = FALSE, !.positions = @ \ closing]
          /\ Answer2(w, "off") /\ UNCHANGED <<wire, events>>
    /\ UNCHANGED <<panel, loading, toggling, onPage, zeroPolls, faults>>
    BY <1>6 DEF SwitchServed
  <2>2. \A a \in {"on", "refused", "off"} : Answer2(w, a) => \A x \in switches' : SwitchOk(x)
    <3> SUFFICES ASSUME NEW a \in {"on", "refused", "off"}, Answer2(w, a)
                 PROVE  \A x \in switches' : SwitchOk(x)
      OBVIOUS
    <3>1. SwitchOk([w EXCEPT !.answer = a])
      BY <1>0, <2>1 DEF SwitchOk
    <3> QED BY <1>0, <3>1 DEF Answer2
  <2>3. CASE ~zero.enabled /\ ~stopping
    <3>1. zero' \in States /\ zero'.positions = zero.positions
      BY <1>0, <2>1, <2>3 DEF States
    <3>2. \A x \in switches' : SwitchOk(x)
      BY <2>1, <2>2, <2>3
    <3> QED BY <1>0, <2>1, <2>3, <3>1, <3>2 DEF ZeroTyped
  <2>4. CASE zero.enabled /\ ~stopping
    <3>1. PICK done \in SUBSET zero.positions : closing' = done /\ Tell("exit", done)
      BY <2>1, <2>4
    <3>2. wire' \in Seq(ZeroEvents)
      BY <1>0, <1>00, <3>1, TellTyped
    <3> QED BY <1>0, <2>1, <2>4, <3>1, <3>2 DEF ZeroTyped
  <2>5. CASE stopping
    <3>1. zero' \in States
      BY <1>0, <2>1, <2>5 DEF States
    <3>2. \A x \in switches' : SwitchOk(x)
      BY <2>1, <2>2, <2>5
    <3> QED BY <1>0, <2>1, <2>5, <3>1, <3>2 DEF ZeroTyped
  <2> QED BY <2>3, <2>4, <2>5
<1>7. CASE SwitchAnswered
  <2>1. panel' \in States
    BY <1>0, <1>7 DEF SwitchAnswered, States
  <2> QED BY <1>0, <1>7, <2>1 DEF ZeroTyped, SwitchAnswered
<1>8. Ask3 => \A p \in zeroPolls' : PollOk(p)
  <2> SUFFICES ASSUME Ask3 PROVE \A p \in zeroPolls' : PollOk(p)
    OBVIOUS
  <2>1. PICK k : zeroPolls' = zeroPolls \cup {[served |-> FALSE, answer |-> Off, n |-> k]}
    BY DEF Ask3
  <2>2. PollOk([served |-> FALSE, answer |-> Off, n |-> k])
    BY DEF PollOk, Off, States
  <2> QED BY <1>0, <2>1, <2>2
<1>9. CASE OpenPage
  BY <1>0, <1>8, <1>9 DEF ZeroTyped, OpenPage
<1>10. CASE LeavePage2
  <2>1. \A w \in switches : SwitchOk([w EXCEPT !.mine = FALSE])
    BY <1>0 DEF SwitchOk
  <2> QED BY <1>0, <1>10, <2>1 DEF ZeroTyped, LeavePage2
<1>11. CASE FetchAll
  BY <1>0, <1>8, <1>11 DEF ZeroTyped, FetchAll
<1>12. CASE PollServed
  <2>1. \A p \in zeroPolls : PollOk([p EXCEPT !.served = TRUE, !.answer = zero])
    BY <1>0 DEF PollOk
  <2> QED BY <1>0, <1>12, <2>1 DEF ZeroTyped, PollServed
<1>13. CASE PollLands
  <2>1. \A p \in zeroPolls : p.answer \in States
    BY <1>0 DEF PollOk
  <2> QED BY <1>0, <1>13, <2>1 DEF ZeroTyped, PollLands
<1>14. CASE HandleWsMessage
  <2>1. PICK e \in ZeroEvents : e = Head(wire) /\ wire' = Tail(wire) /\ wire # << >>
    BY <1>0, <1>14 DEF HandleWsMessage
  <2>2. wire' \in Seq(ZeroEvents)
    BY <1>0, <2>1
  <2>3. panel' \in States
    <3>1. panel' = CASE e.kind = "scan" -> [panel EXCEPT !.confidence = @ \cup {e.of}]
                      [] e.kind = "entry" -> [panel EXCEPT !.positions = @ \cup {e.of}]
                      [] e.kind = "exit" -> [panel EXCEPT !.positions = @ \ {e.of}]
      BY <1>14, <2>1 DEF HandleWsMessage
    <3>2. e.kind \in {"scan", "entry", "exit"} /\ e.of \in Scrips
      BY <2>1 DEF ZeroEvents
    <3>3. CASE e.kind = "scan"
      BY <1>0, <3>1, <3>2, <3>3 DEF States
    <3>4. CASE e.kind = "entry"
      BY <1>0, <3>1, <3>2, <3>4 DEF States
    <3>5. CASE e.kind = "exit"
      BY <1>0, <3>1, <3>2, <3>5 DEF States
    <3> QED BY <3>2, <3>3, <3>4, <3>5
  <2> QED BY <1>0, <1>14, <2>2, <2>3 DEF ZeroTyped, HandleWsMessage
<1>15. CASE SocketDrops
  BY <1>0, <1>15 DEF ZeroTyped, SocketDrops
<1>16. CASE UNCHANGED zeroVars
  BY <1>0, <1>16 DEF ZeroTyped, zeroVars
<1> QED
  BY <1>2, <1>3, <1>4, <1>5, <1>6, <1>7, <1>9, <1>10, <1>11, <1>12, <1>13, <1>14, <1>15, <1>16
  DEF ZeroNext
=============================================================================
