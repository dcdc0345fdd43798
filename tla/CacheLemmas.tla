---------------------------- MODULE CacheLemmas ----------------------------
(***************************************************************************)
(* Lemmas for the proof that the cache is sound (CacheProofs).             *)
(*                                                                         *)
(* The cached nodes, in the order in which they were last used, are the    *)
(* list that head, tail, c_prev and c_next make: IsList says so of every   *)
(* node and its neighbours, and the lemmas say what moving a node to the   *)
(* front, adding one and taking one out do to it.  Then the inductive      *)
(* invariant, and how the actions count the pages.                         *)
(***************************************************************************)
EXTENDS LRUCache, FiniteSetTheorems, TLAPS

\* With the nodes of S ordered by r: n was used last, or longest ago; m was used
\* right after n.
Newest(S, r, n) == \A q \in S : r[q] <= r[n]
Oldest(S, r, n) == \A q \in S : r[n] <= r[q]
Follows(S, r, m, n) == r[n] < r[m] /\ \A q \in S : r[q] <= r[n] \/ r[m] <= r[q]

\* The nodes of S, the one used last at the head, are linked through their cache
\* nodes: k are the key page nodes, d the cache nodes.
HeadOK(S, r, k, h) == (h = Null /\ S = {}) \/ \E n \in S : h = k[n].cnode /\ Newest(S, r, n)
TailOK(S, r, k, l) == (l = Null /\ S = {}) \/ \E n \in S : l = k[n].cnode /\ Oldest(S, r, n)
PrevOK(S, r, k, p, n) ==
    (p = Null /\ Newest(S, r, n)) \/ \E m \in S : p = k[m].cnode /\ Follows(S, r, m, n)
NextOK(S, r, k, q, n) ==
    (q = Null /\ Oldest(S, r, n)) \/ \E m \in S : q = k[m].cnode /\ Follows(S, r, n, m)
Linked(S, r, k, d) ==
    \A n \in S : /\ PrevOK(S, r, k, d[k[n].cnode].prev, n)
                 /\ NextOK(S, r, k, d[k[n].cnode].next, n)

\* r tells the nodes of S apart, and so do their cache nodes.
Ordered(S, r, k) ==
    /\ S \in SUBSET Nodes /\ r \in [Nodes -> Nat]
    /\ \A n \in S : k[n].cnode \in Cnodes
    /\ \A m, n \in S : m # n => r[m] # r[n] /\ k[m].cnode # k[n].cnode

IsList(S, r, k, d, h, l) ==
    Ordered(S, r, k) /\ HeadOK(S, r, k, h) /\ TailOK(S, r, k, l) /\ Linked(S, r, k, d)

\* r2 orders the nodes of S as r does.
SameOrder(S, r, r2) == \A a, b \in S : r2[a] <= r2[b] <=> r[a] <= r[b]

\* Recent numbers the nodes of S in the order of their last use, and puts n last.
LEMMA RecentFacts ==
    ASSUME CacheAssumption, recency \in [Nodes -> Nat], NEW n, NEW S \in SUBSET Nodes
    PROVE  /\ Recent(n, S) \in [Nodes -> Nat]
           /\ \A m \in Nodes : Recent(n, S)[m] > 0 <=> m = n \/ m \in S
           /\ SameOrder(S \ {n}, recency, Recent(n, S))
           /\ n \in Nodes => \A m \in S \ {n} : Recent(n, S)[m] < Recent(n, S)[n]
<1> DEFINE T == S \ {n}
           older(m) == {x \in T : recency[x] < recency[m]}
           r == Recent(n, S)
<1>1. IsFiniteSet(T) /\ Cardinality(T) \in Nat
  <2>1. IsFiniteSet(Nodes) /\ T \in SUBSET Nodes
    BY DEF CacheAssumption
  <2> QED
    BY <2>1, FS_Subset, FS_CardinalityType
<1>2. \A m : /\ IsFiniteSet(older(m)) /\ Cardinality(older(m)) \in Nat
             /\ m \in T => Cardinality(older(m)) < Cardinality(T)
  <2> TAKE m
  <2>1. older(m) \in SUBSET T
    OBVIOUS
  <2>2. /\ IsFiniteSet(older(m)) /\ Cardinality(older(m)) <= Cardinality(T)
        /\ Cardinality(T) = Cardinality(older(m)) => T = older(m)
    BY <1>1, <2>1, FS_Subset
  <2>3. Cardinality(older(m)) \in Nat
    BY <2>2, FS_CardinalityType
  <2>4. m \in T => m \notin older(m)
    OBVIOUS
  <2> HIDE DEF older, T
  <2> QED
    BY <1>1, <2>2, <2>3, <2>4
<1>3. \A a, b \in T : recency[a] < recency[b] => Cardinality(older(a)) < Cardinality(older(b))
  <2> TAKE a, b \in T
  <2> HAVE recency[a] < recency[b]
  <2>1. older(a) \in SUBSET older(b) /\ a \in older(b) /\ a \notin older(a)
    OBVIOUS
  <2>2. /\ Cardinality(older(a)) <= Cardinality(older(b))
        /\ Cardinality(older(b)) = Cardinality(older(a)) => older(b) = older(a)
    BY <1>2, <2>1, FS_Subset, Zenon
  <2> HIDE DEF older
  <2> QED
    BY <1>2, <2>1, <2>2
<1>4. \A a, b \in T : recency[a] = recency[b] => older(a) = older(b)
  OBVIOUS
<1>5. r = [m \in Nodes |-> IF m = n THEN Cardinality(T) + 1
                           ELSE IF m \in S THEN Cardinality(older(m)) + 1 ELSE 0]
  BY Zenon DEF Recent
<1>6. \A m \in T : m \in Nodes /\ m # n /\ m \in S /\ recency[m] \in Nat
  OBVIOUS
<1>7. \A m \in Nodes : m \in S /\ m # n => m \in T
  OBVIOUS
<1> HIDE DEF T, older, r
<1>8. r \in [Nodes -> Nat] /\ \A m \in Nodes : r[m] > 0 <=> m = n \/ m \in S
  BY <1>1, <1>2, <1>5
<1>9. \A m \in T : r[m] = Cardinality(older(m)) + 1
  BY <1>5, <1>6
<1>10. SameOrder(T, recency, r)
  <2> SUFFICES ASSUME NEW a \in T, NEW b \in T PROVE r[a] <= r[b] <=> recency[a] <= recency[b]
    BY DEF SameOrder
  <2>1. recency[a] < recency[b] \/ recency[a] = recency[b] \/ recency[b] < recency[a]
    BY <1>6
  <2> QED
    BY <1>2, <1>3, <1>4, <1>6, <1>9, <2>1
<1>11. n \in Nodes => \A m \in T : r[m] < r[n]
  <2>1. n \in Nodes => r[n] = Cardinality(T) + 1
    BY <1>5
  <2> QED
    BY <1>1, <1>2, <1>9, <2>1
<1> QED
  BY <1>8, <1>10, <1>11 DEF T, r

-----------------------------------------------------------------------------
(* The list                                                                 *)

\* A node is used: it moves to the front, and unless it was the first or the last
\* one its neighbours are linked with each other (LRUCache::touch).
Moved(S, r, k, d, h, n, x, p, q, r2, d2) ==
    /\ n \in S /\ x = k[n].cnode
    /\ r2 \in [Nodes -> Nat] /\ SameOrder(S \ {n}, r, r2) /\ \A m \in S \ {n} : r2[m] < r2[n]
    /\ p = d[x].prev /\ q = d[x].next /\ p # Null /\ q # Null
    /\ d2[x].prev = Null /\ d2[x].next = h
    /\ \A y \in Cnodes \ {x} :
         /\ d2[y].prev = IF y = h THEN x ELSE IF y = q THEN p ELSE d[y].prev
         /\ d2[y].next = IF y = p THEN q ELSE d[y].next
LEMMA MovedToFront ==
    ASSUME CacheAssumption, NEW S, NEW r, NEW k, NEW d, NEW h, NEW l, IsList(S, r, k, d, h, l),
           NEW n, NEW x, NEW p, NEW q, NEW r2, NEW d2, Moved(S, r, k, d, h, n, x, p, q, r2, d2)
    PROVE  IsList(S, r2, k, d2, x, l)
<1>0. Moved(S, r, k, d, h, n, x, p, q, r2, d2)
  OBVIOUS
<1>1. /\ S \in SUBSET Nodes /\ r \in [Nodes -> Nat] /\ Null \notin Cnodes
      /\ \A m \in S : k[m].cnode \in Cnodes
      /\ \A m, j \in S : m # j => r[m] # r[j] /\ k[m].cnode # k[j].cnode
  BY DEF IsList, Ordered, CacheAssumption
<1>2. \A a \in S : r[a] \in Nat /\ r2[a] \in Nat
  BY <1>0, <1>1 DEF Moved
<1>3. PICK mp \in S : p = k[mp].cnode /\ Follows(S, r, mp, n)
  BY <1>0 DEF Moved, IsList, Linked, PrevOK
<1>4. PICK mq \in S : q = k[mq].cnode /\ Follows(S, r, n, mq)
  BY <1>0 DEF Moved, IsList, Linked, NextOK
<1>5. PICK f \in S : h = k[f].cnode /\ Newest(S, r, f)
  BY DEF IsList, HeadOK
<1>6. f # n /\ mp # n /\ mq # n /\ mq # mp /\ f # mq
  BY <1>0, <1>2, <1>3, <1>4, <1>5 DEF Moved, Follows, Newest
<1>7. \A a, b \in S \ {n} : r2[a] <= r2[b] <=> r[a] <= r[b]
  BY <1>0 DEF Moved, SameOrder
<1>8. Ordered(S, r2, k)
  BY <1>0, <1>1, <1>2, <1>7 DEF Moved, Ordered
<1>9. Newest(S, r2, n) /\ Follows(S, r2, n, f)
  BY <1>0, <1>2, <1>5, <1>6, <1>7 DEF Moved, Newest, Follows
<1>10. \A a, b \in S \ {n} : Follows(S, r, a, b) => Follows(S, r2, a, b)
  BY <1>0, <1>2, <1>7 DEF Moved, Follows
<1>11. Follows(S, r2, mp, mq)
  <2>1. \A o \in S \ {n} : r[o] <= r[mq] \/ r[mp] <= r[o]
    BY <1>0, <1>1, <1>2, <1>3, <1>4 DEF Moved, Follows
  <2>2. r[mq] < r[mp]
    BY <1>0, <1>2, <1>3, <1>4 DEF Moved, Follows
  <2> QED
    BY <1>0, <1>2, <1>6, <1>7, <2>1, <2>2 DEF Moved, Follows
<1>12. HeadOK(S, r2, k, x)
  BY <1>0, <1>9 DEF Moved, HeadOK
<1>13. TailOK(S, r2, k, l)
  <2>1. PICK e \in S : l = k[e].cnode /\ Oldest(S, r, e)
    BY DEF IsList, TailOK
  <2>2. e # n
    BY <1>2, <1>4, <2>1 DEF Oldest, Follows
  <2>3. Oldest(S, r2, e)
    BY <1>0, <1>2, <1>7, <2>1, <2>2 DEF Moved, Oldest
  <2> QED
    BY <2>1, <2>3 DEF TailOK
<1>14. ASSUME NEW a \in S PROVE PrevOK(S, r2, k, d2[k[a].cnode].prev, a)
  <2>1. CASE a = n
    BY <1>0, <1>9, <2>1 DEF Moved, PrevOK
  <2>2. CASE a = f
    <3>1. d2[k[a].cnode].prev = x
      BY <1>0, <1>1, <1>5, <1>6, <2>2 DEF Moved
    <3> QED
      BY <1>0, <1>9, <2>2, <3>1 DEF Moved, PrevOK
  <2>3. CASE a = mq
    <3>1. d2[k[a].cnode].prev = p
      BY <1>0, <1>1, <1>4, <1>5, <1>6, <2>3 DEF Moved
    <3> QED
      BY <1>3, <1>11, <2>3, <3>1 DEF PrevOK
  <2>4. CASE a \notin {n, f, mq}
    <3>1. d2[k[a].cnode].prev = d[k[a].cnode].prev
      BY <1>0, <1>1, <1>4, <1>5, <2>4 DEF Moved
    <3>2. ~Newest(S, r, a)
      BY <1>1, <1>2, <1>5, <2>4 DEF Newest
    <3>3. PICK m \in S : d[k[a].cnode].prev = k[m].cnode /\ Follows(S, r, m, a)
      BY <3>2 DEF IsList, Linked, PrevOK
    <3>4. m # n
      BY <1>1, <1>2, <1>4, <2>4, <3>3 DEF Follows
    <3> QED
      BY <1>10, <2>4, <3>1, <3>3, <3>4 DEF PrevOK
  <2> QED
    BY <2>1, <2>2, <2>3, <2>4
<1>15. ASSUME NEW a \in S PROVE NextOK(S, r2, k, d2[k[a].cnode].next, a)
  <2>1. CASE a = n
    BY <1>0, <1>5, <1>9, <2>1 DEF Moved, NextOK
  <2>2. CASE a = mp
    <3>1. d2[k[a].cnode].next = q
      BY <1>0, <1>1, <1>3, <1>6, <2>2 DEF Moved
    <3> QED
      BY <1>4, <1>11, <2>2, <3>1 DEF NextOK
  <2>3. CASE a \notin {n, mp}
    <3>1. d2[k[a].cnode].next = d[k[a].cnode].next
      BY <1>0, <1>1, <1>3, <2>3 DEF Moved
    <3>2. CASE d[k[a].cnode].next = Null /\ Oldest(S, r, a)
      <4>1. Oldest(S, r2, a)
        BY <1>0, <1>2, <1>7, <2>3, <3>2 DEF Moved, Oldest
      <4> QED
        BY <3>1, <3>2, <4>1 DEF NextOK
    <3>3. ASSUME NEW m \in S, d[k[a].cnode].next = k[m].cnode, Follows(S, r, a, m)
          PROVE  NextOK(S, r2, k, d2[k[a].cnode].next, a)
      <4>1. m # n
        BY <1>1, <1>2, <1>3, <2>3, <3>3 DEF Follows
      <4> QED
        BY <1>10, <2>3, <3>1, <3>3, <4>1 DEF NextOK
    <3> QED
      BY <3>2, <3>3 DEF IsList, Linked, NextOK
  <2> QED
    BY <2>1, <2>2, <2>3
<1> QED
  BY <1>8, <1>12, <1>13, <1>14, <1>15 DEF IsList, Linked

\* The list stands for any numbering that orders its nodes in the same way.
LEMMA SameList ==
    ASSUME NEW S, NEW r, NEW k, NEW d, NEW h, NEW l, IsList(S, r, k, d, h, l),
           NEW r2 \in [Nodes -> Nat], SameOrder(S, r, r2)
    PROVE  IsList(S, r2, k, d, h, l)
<1>1. \A a \in S : r[a] \in Nat /\ r2[a] \in Nat
  BY DEF IsList, Ordered
<1>2. \A a, b \in S : r2[a] <= r2[b] <=> r[a] <= r[b]
  BY DEF SameOrder
<1>3. Ordered(S, r2, k)
  BY <1>1, <1>2 DEF IsList, Ordered
<1>4. \A a \in S : /\ Newest(S, r, a) => Newest(S, r2, a)
                   /\ Oldest(S, r, a) => Oldest(S, r2, a)
  BY <1>2 DEF Newest, Oldest
<1>5. \A a, b \in S : Follows(S, r, a, b) => Follows(S, r2, a, b)
  BY <1>1, <1>2 DEF Follows
<1>6. HeadOK(S, r2, k, h) /\ TailOK(S, r2, k, l)
  BY <1>4 DEF IsList, HeadOK, TailOK
<1>7. ASSUME NEW a \in S
      PROVE  PrevOK(S, r2, k, d[k[a].cnode].prev, a) /\ NextOK(S, r2, k, d[k[a].cnode].next, a)
  <2>1. PrevOK(S, r, k, d[k[a].cnode].prev, a) /\ NextOK(S, r, k, d[k[a].cnode].next, a)
    BY DEF IsList, Linked
  <2> QED
    BY <1>4, <1>5, <2>1 DEF PrevOK, NextOK
<1> QED
  BY <1>3, <1>6, <1>7 DEF IsList, Linked

\* A node that was not in the list becomes its first one (LRUCache::add).
Pushed(S, r, k, d, h, n, x, r2, d2) ==
    /\ n \in Nodes \ S /\ x \in Cnodes /\ x = k[n].cnode /\ \A m \in S : k[m].cnode # x
    /\ r2 \in [Nodes -> Nat] /\ SameOrder(S, r, r2) /\ \A m \in S : r2[m] < r2[n]
    /\ d2[x].prev = Null /\ d2[x].next = h
    /\ \A y \in Cnodes \ {x} :
         /\ d2[y].prev = IF y = h THEN x ELSE d[y].prev
         /\ d2[y].next = d[y].next
LEMMA PutInFront ==
    ASSUME CacheAssumption, NEW S, NEW r, NEW k, NEW d, NEW h, NEW l, IsList(S, r, k, d, h, l),
           NEW n, NEW x, NEW r2, NEW d2, Pushed(S, r, k, d, h, n, x, r2, d2)
    PROVE  IsList(S \cup {n}, r2, k, d2, x, IF h = Null THEN x ELSE l)
<1> DEFINE T == S \cup {n}
           l2 == IF h = Null THEN x ELSE l
<1>0. Pushed(S, r, k, d, h, n, x, r2, d2)
  OBVIOUS
<1>1. /\ S \in SUBSET Nodes /\ Null \notin Cnodes
      /\ \A m \in S : k[m].cnode \in Cnodes
      /\ \A m, j \in S : m # j => k[m].cnode # k[j].cnode
  BY DEF IsList, Ordered, CacheAssumption
<1>2. IsList(S, r2, k, d, h, l)
  BY <1>0, SameList DEF Pushed
<1>3. \A a \in T : r2[a] \in Nat
  BY <1>0, <1>1 DEF Pushed
<1>4. Ordered(T, r2, k)
  BY <1>0, <1>1, <1>2, <1>3 DEF Pushed, IsList, Ordered
<1>5. Newest(T, r2, n)
  BY <1>0, <1>3 DEF Pushed, Newest
<1>6. \A a, b \in S : Follows(S, r2, a, b) => Follows(T, r2, a, b)
  BY <1>0, <1>3 DEF Pushed, Follows
<1>7. \A a \in S : Newest(S, r2, a) => Follows(T, r2, n, a)
  BY <1>0, <1>3 DEF Pushed, Newest, Follows
<1>8. \A a \in S : Oldest(S, r2, a) => Oldest(T, r2, a)
  BY <1>0, <1>3 DEF Pushed, Oldest
<1>9. HeadOK(T, r2, k, x)
  BY <1>0, <1>5 DEF Pushed, HeadOK
<1>10. TailOK(T, r2, k, l2)
  <2>1. CASE h = Null
    <3>1. S = {}
      BY <1>1, <1>2, <2>1 DEF IsList, HeadOK
    <3>2. Oldest(T, r2, n)
      BY <1>3, <3>1 DEF Oldest
    <3> QED
      BY <1>0, <2>1, <3>2 DEF Pushed, TailOK
  <2>2. CASE h # Null
    <3>1. S # {}
      BY <1>2, <2>2 DEF IsList, HeadOK
    <3>2. PICK e \in S : l = k[e].cnode /\ Oldest(S, r2, e)
      BY <1>2, <3>1 DEF IsList, TailOK
    <3> QED
      BY <1>8, <2>2, <3>2, Zenon DEF TailOK
  <2> QED
    BY <2>1, <2>2
<1>11. ASSUME NEW a \in T PROVE PrevOK(T, r2, k, d2[k[a].cnode].prev, a)
  <2>1. CASE a = n
    BY <1>0, <1>5, <2>1 DEF Pushed, PrevOK
  <2>2. CASE a \in S /\ k[a].cnode = h
    <3>1. Newest(S, r2, a)
      <4>1. PICK f \in S : h = k[f].cnode /\ Newest(S, r2, f)
        BY <1>2, <2>2 DEF IsList, HeadOK
      <4> QED
        BY <1>1, <2>2, <4>1
    <3>2. d2[k[a].cnode].prev = x
      BY <1>0, <1>1, <2>2 DEF Pushed
    <3> QED
      BY <1>0, <1>7, <2>2, <3>1, <3>2, Zenon DEF Pushed, PrevOK
  <2>3. CASE a \in S /\ k[a].cnode # h
    <3>1. d2[k[a].cnode].prev = d[k[a].cnode].prev
      BY <1>0, <1>1, <2>3 DEF Pushed
    <3>2. ~Newest(S, r2, a)
      <4>1. PICK f \in S : h = k[f].cnode /\ Newest(S, r2, f)
        BY <1>2, <2>3 DEF IsList, HeadOK
      <4>2. f # a /\ r2[f] # r2[a]
        BY <1>2, <2>3, <4>1 DEF IsList, Ordered
      <4> QED
        BY <1>3, <2>3, <4>1, <4>2 DEF Newest
    <3>3. PICK m \in S : d[k[a].cnode].prev = k[m].cnode /\ Follows(S, r2, m, a)
      BY <1>2, <2>3, <3>2 DEF IsList, Linked, PrevOK
    <3> QED
      BY <1>6, <2>3, <3>1, <3>3, Zenon DEF PrevOK
  <2> QED
    BY <2>1, <2>2, <2>3
<1>12. ASSUME NEW a \in T PROVE NextOK(T, r2, k, d2[k[a].cnode].next, a)
  <2>1. CASE a = n
    <3>1. CASE h = Null
      <4>1. S = {}
        BY <1>1, <1>2, <3>1 DEF IsList, HeadOK
      <4>2. Oldest(T, r2, n)
        BY <1>3, <4>1 DEF Oldest
      <4> QED
        BY <1>0, <2>1, <3>1, <4>2 DEF Pushed, NextOK
    <3>2. CASE h # Null
      <4>1. PICK f \in S : h = k[f].cnode /\ Newest(S, r2, f)
        BY <1>2, <3>2 DEF IsList, HeadOK
      <4> QED
        BY <1>0, <1>7, <2>1, <4>1, Zenon DEF Pushed, NextOK
    <3> QED
      BY <3>1, <3>2
  <2>2. CASE a \in S
    <3>1. d2[k[a].cnode].next = d[k[a].cnode].next
      BY <1>0, <1>1, <2>2 DEF Pushed
    <3>2. NextOK(S, r2, k, d[k[a].cnode].next, a)
      BY <1>2, <2>2 DEF IsList, Linked
    <3> QED
      BY <1>6, <1>8, <2>2, <3>1, <3>2, Zenon DEF NextOK
  <2> QED
    BY <2>1, <2>2
<1> QED
  BY <1>4, <1>9, <1>10, <1>11, <1>12, Zenon DEF IsList, Linked

\* A node is taken out of the list, wherever it stands (LRUCache::free, removeLast).
Unlinked(S, r, k, d, n, x, p, q, r2, k2, d2) ==
    /\ n \in S /\ x = k[n].cnode /\ p = d[x].prev /\ q = d[x].next
    /\ \A m \in S \ {n} : k2[m].cnode = k[m].cnode
    /\ r2 \in [Nodes -> Nat] /\ SameOrder(S \ {n}, r, r2)
    /\ \A y \in Cnodes \ {x} :
         /\ d2[y].prev = IF y = q THEN p ELSE d[y].prev
         /\ d2[y].next = IF y = p THEN q ELSE d[y].next
LEMMA TakenOut ==
    ASSUME CacheAssumption, NEW S, NEW r, NEW k, NEW d, NEW h, NEW l, IsList(S, r, k, d, h, l),
           NEW n, NEW x, NEW p, NEW q, NEW r2, NEW k2, NEW d2,
           Unlinked(S, r, k, d, n, x, p, q, r2, k2, d2)
    PROVE  IsList(S \ {n}, r2, k2, d2, IF p = Null THEN q ELSE h, IF q = Null THEN p ELSE l)
<1>0. Unlinked(S, r, k, d, n, x, p, q, r2, k2, d2)
  OBVIOUS
<1> DEFINE T == S \ {n}
           h2 == IF p = Null THEN q ELSE h
           l2 == IF q = Null THEN p ELSE l
<1>1. /\ S \in SUBSET Nodes /\ r \in [Nodes -> Nat] /\ Null \notin Cnodes
      /\ \A m \in S : k[m].cnode \in Cnodes
      /\ \A m, j \in S : m # j => r[m] # r[j] /\ k[m].cnode # k[j].cnode
  BY DEF IsList, Ordered, CacheAssumption
<1>2. /\ \A a \in S : r[a] \in Nat /\ r2[a] \in Nat
      /\ \A a, b \in T : r2[a] <= r2[b] <=> r[a] <= r[b]
  BY <1>0, <1>1 DEF Unlinked, SameOrder
<1>3. Ordered(T, r2, k2)
  BY <1>0, <1>1, <1>2 DEF Unlinked, Ordered
<1>4. PrevOK(S, r, k, p, n) /\ NextOK(S, r, k, q, n)
  BY <1>0 DEF Unlinked, IsList, Linked
<1>5. \A a \in T : /\ Newest(S, r, a) => Newest(T, r2, a)
                   /\ Oldest(S, r, a) => Oldest(T, r2, a)
  BY <1>2 DEF Newest, Oldest
<1>6. \A a, b \in T : Follows(S, r, a, b) => Follows(T, r2, a, b)
  BY <1>2 DEF Follows
<1>7. \A a \in T : Follows(S, r, a, n) /\ Oldest(S, r, n) => Oldest(T, r2, a)
  <2> SUFFICES ASSUME NEW a \in T, Follows(S, r, a, n), Oldest(S, r, n), NEW b \in T
               PROVE  r2[a] <= r2[b]
    BY DEF Oldest
  <2>1. r[b] # r[n] /\ r[n] <= r[b]
    BY <1>0, <1>1 DEF Unlinked, Oldest
  <2> QED
    BY <1>0, <1>2, <2>1 DEF Unlinked, Follows
<1>8. \A a \in T : Follows(S, r, n, a) /\ Newest(S, r, n) => Newest(T, r2, a)
  <2> SUFFICES ASSUME NEW a \in T, Follows(S, r, n, a), Newest(S, r, n), NEW b \in T
               PROVE  r2[b] <= r2[a]
    BY DEF Newest
  <2>1. r[b] # r[n] /\ r[b] <= r[n]
    BY <1>0, <1>1 DEF Unlinked, Newest
  <2> QED
    BY <1>0, <1>2, <2>1 DEF Unlinked, Follows
<1>9. \A a, b \in T : Follows(S, r, a, n) /\ Follows(S, r, n, b) => Follows(T, r2, a, b)
  <2> SUFFICES ASSUME NEW a \in T, NEW b \in T, Follows(S, r, a, n), Follows(S, r, n, b)
               PROVE  Follows(T, r2, a, b)
    BY Zenon
  <2>1. r[b] < r[a] /\ \A o \in T : r[o] <= r[b] \/ r[a] <= r[o]
    BY <1>0, <1>1, <1>2 DEF Unlinked, Follows
  <2> QED
    BY <1>2, <2>1 DEF Follows
<1>10. \A a, b \in S : /\ Follows(S, r, a, n) /\ Follows(S, r, b, n) => a = b
                       /\ Follows(S, r, n, a) /\ Follows(S, r, n, b) => a = b
  BY <1>0, <1>1, <1>2 DEF Unlinked, Follows
<1>11. HeadOK(T, r2, k2, h2)
  <2>1. CASE p # Null
    <3>1. PICK m \in S : p = k[m].cnode /\ Follows(S, r, m, n)
      BY <1>4, <2>1 DEF PrevOK
    <3>2. PICK f \in S : h = k[f].cnode /\ Newest(S, r, f)
      BY DEF IsList, HeadOK
    <3>3. f # n
      BY <1>2, <3>1, <3>2 DEF Newest, Follows
    <3> QED
      BY <1>0, <1>5, <2>1, <3>2, <3>3, Zenon DEF Unlinked, HeadOK
  <2>2. CASE p = Null
    <3>1. Newest(S, r, n)
      BY <1>1, <1>4, <2>2 DEF PrevOK
    <3>2. CASE q = Null
      <4>1. Oldest(S, r, n)
        BY <1>1, <1>4, <3>2 DEF NextOK
      <4>2. T = {}
        <5>1. ASSUME NEW a \in T PROVE FALSE
          BY <1>0, <1>1, <1>2, <3>1, <4>1 DEF Unlinked, Newest, Oldest
        <5> QED
          BY <5>1
      <4> QED
        BY <2>2, <3>2, <4>2 DEF HeadOK
    <3>3. CASE q # Null
      <4>1. PICK m \in S : q = k[m].cnode /\ Follows(S, r, n, m)
        BY <1>4, <3>3 DEF NextOK
      <4>2. m # n
        BY <1>2, <4>1 DEF Follows
      <4> QED
        BY <1>0, <1>8, <2>2, <3>1, <4>1, <4>2, Zenon DEF Unlinked, HeadOK
    <3> QED
      BY <3>2, <3>3
  <2> QED
    BY <2>1, <2>2
<1>12. TailOK(T, r2, k2, l2)
  <2>1. CASE q # Null
    <3>1. PICK m \in S : q = k[m].cnode /\ Follows(S, r, n, m)
      BY <1>4, <2>1 DEF NextOK
    <3>2. PICK f \in S : l = k[f].cnode /\ Oldest(S, r, f)
      BY DEF IsList, TailOK
    <3>3. f # n
      BY <1>2, <3>1, <3>2 DEF Oldest, Follows
    <3> QED
      BY <1>0, <1>5, <2>1, <3>2, <3>3, Zenon DEF Unlinked, TailOK
  <2>2. CASE q = Null
    <3>1. Oldest(S, r, n)
      BY <1>1, <1>4, <2>2 DEF NextOK
    <3>2. CASE p = Null
      <4>1. Newest(S, r, n)
        BY <1>1, <1>4, <3>2 DEF PrevOK
      <4>2. T = {}
        <5>1. ASSUME NEW a \in T PROVE FALSE
          BY <1>0, <1>1, <1>2, <3>1, <4>1 DEF Unlinked, Newest, Oldest
        <5> QED
          BY <5>1
      <4> QED
        BY <2>2, <3>2, <4>2 DEF TailOK
    <3>3. CASE p # Null
      <4>1. PICK m \in S : p = k[m].cnode /\ Follows(S, r, m, n)
        BY <1>4, <3>3 DEF PrevOK
      <4>2. m # n
        BY <1>2, <4>1 DEF Follows
      <4> QED
        BY <1>0, <1>7, <2>2, <3>1, <4>1, <4>2, Zenon DEF Unlinked, TailOK
    <3> QED
      BY <3>2, <3>3
  <2> QED
    BY <2>1, <2>2
<1>13. ASSUME NEW a \in T PROVE PrevOK(T, r2, k2, d2[k2[a].cnode].prev, a)
  <2>0. k2[a].cnode = k[a].cnode /\ k[a].cnode \in Cnodes \ {x}
    BY <1>0, <1>1 DEF Unlinked
  <2>1. CASE k[a].cnode = q
    <3>1. Follows(S, r, n, a) /\ d2[k2[a].cnode].prev = p
      <4>1. Follows(S, r, n, a)
        BY <1>1, <1>4, <2>0, <2>1, Zenon DEF NextOK
      <4>2. d2[k2[a].cnode].prev = p
        BY <1>0, <2>0, <2>1, Zenon DEF Unlinked
      <4> QED
        BY <4>1, <4>2
    <3>2. CASE p = Null
      <4>1. Newest(S, r, n)
        BY <1>1, <1>4, <3>2 DEF PrevOK
      <4>2. Newest(T, r2, a)
        BY <1>8, <3>1, <4>1
      <4> QED
        BY <3>1, <3>2, <4>2, Zenon DEF PrevOK
    <3>3. CASE p # Null
      <4>1. PICK m \in S : p = k[m].cnode /\ Follows(S, r, m, n)
        BY <1>4, <3>3 DEF PrevOK
      <4>2. m # n
        BY <1>2, <4>1 DEF Follows
      <4> QED
        BY <1>0, <1>9, <3>1, <4>1, <4>2, Zenon DEF Unlinked, PrevOK
    <3> QED
      BY <3>2, <3>3
  <2>2. CASE k[a].cnode # q
    <3>1. d2[k2[a].cnode].prev = d[k[a].cnode].prev /\ PrevOK(S, r, k, d[k[a].cnode].prev, a)
      BY <1>0, <2>0, <2>2, Zenon DEF Unlinked, IsList, Linked
    <3>2. CASE d[k[a].cnode].prev = Null /\ Newest(S, r, a)
      BY <1>5, <3>1, <3>2, Zenon DEF PrevOK
    <3>3. ASSUME NEW m \in S, d[k[a].cnode].prev = k[m].cnode, Follows(S, r, m, a)
          PROVE  PrevOK(T, r2, k2, d2[k2[a].cnode].prev, a)
      <4>1. m # n
        <5>1. ASSUME m = n PROVE FALSE
          <6>1. ~Oldest(S, r, n)
            BY <1>2, <3>3, <5>1 DEF Oldest, Follows
          <6>2. PICK j \in S : q = k[j].cnode /\ Follows(S, r, n, j)
            BY <1>4, <6>1 DEF NextOK
          <6> QED
            BY <1>10, <2>2, <3>3, <5>1, <6>2
        <5> QED
          BY <5>1
      <4> QED
        BY <1>0, <1>6, <3>1, <3>3, <4>1, Zenon DEF Unlinked, PrevOK
    <3> QED
      BY <3>1, <3>2, <3>3, Zenon DEF PrevOK
  <2> QED
    BY <2>1, <2>2
<1>14. ASSUME NEW a \in T PROVE NextOK(T, r2, k2, d2[k2[a].cnode].next, a)
  <2>0. k2[a].cnode = k[a].cnode /\ k[a].cnode \in Cnodes \ {x}
    BY <1>0, <1>1 DEF Unlinked
  <2>1. CASE k[a].cnode = p
    <3>1. Follows(S, r, a, n) /\ d2[k2[a].cnode].next = q
      <4>1. Follows(S, r, a, n)
        BY <1>1, <1>4, <2>0, <2>1, Zenon DEF PrevOK
      <4>2. d2[k2[a].cnode].next = q
        BY <1>0, <2>0, <2>1, Zenon DEF Unlinked
      <4> QED
        BY <4>1, <4>2
    <3>2. CASE q = Null
      <4>1. Oldest(S, r, n)
        BY <1>1, <1>4, <3>2 DEF NextOK
      <4>2. Oldest(T, r2, a)
        BY <1>7, <3>1, <4>1, Zenon
      <4> QED
        BY <3>1, <3>2, <4>2 DEF NextOK
    <3>3. CASE q # Null
      <4>1. PICK m \in S : q = k[m].cnode /\ Follows(S, r, n, m)
        BY <1>4, <3>3 DEF NextOK
      <4>2. m # n
        BY <1>2, <4>1 DEF Follows
      <4> QED
        BY <1>0, <1>9, <3>1, <4>1, <4>2, Zenon DEF Unlinked, NextOK
    <3> QED
      BY <3>2, <3>3
  <2>2. CASE k[a].cnode # p
    <3>1. d2[k2[a].cnode].next = d[k[a].cnode].next /\ NextOK(S, r, k, d[k[a].cnode].next, a)
      BY <1>0, <2>0, <2>2, Zenon DEF Unlinked, IsList, Linked
    <3>2. CASE d[k[a].cnode].next = Null /\ Oldest(S, r, a)
      BY <1>5, <3>1, <3>2, Zenon DEF NextOK
    <3>3. ASSUME NEW m \in S, d[k[a].cnode].next = k[m].cnode, Follows(S, r, a, m)
          PROVE  NextOK(T, r2, k2, d2[k2[a].cnode].next, a)
      <4>1. m # n
        <5>1. ASSUME m = n PROVE FALSE
          <6>1. ~Newest(S, r, n)
            BY <1>2, <3>3, <5>1 DEF Newest, Follows
          <6>2. PICK j \in S : p = k[j].cnode /\ Follows(S, r, j, n)
            BY <1>4, <6>1 DEF PrevOK
          <6> QED
            BY <1>10, <2>2, <3>3, <5>1, <6>2
        <5> QED
          BY <5>1
      <4> QED
        BY <1>0, <1>6, <3>1, <3>3, <4>1, Zenon DEF Unlinked, NextOK
    <3> QED
      BY <3>1, <3>2, <3>3, Zenon DEF NextOK
  <2> QED
    BY <2>1, <2>2
<1> QED
  BY <1>3, <1>11, <1>12, <1>13, <1>14, Zenon DEF IsList, Linked

\* The links of the nodes of S are all that matters of k and d.
Alike(S, k, d, k2, d2) ==
    \A m \in S : /\ k2[m].cnode = k[m].cnode
                 /\ d2[k[m].cnode].prev = d[k[m].cnode].prev
                 /\ d2[k[m].cnode].next = d[k[m].cnode].next
LEMMA SameLinks ==
    ASSUME NEW S, NEW r, NEW k, NEW d, NEW h, NEW l, IsList(S, r, k, d, h, l),
           NEW k2, NEW d2, Alike(S, k, d, k2, d2)
    PROVE  IsList(S, r, k2, d2, h, l)
<1>0. Alike(S, k, d, k2, d2)
  OBVIOUS
<1>1. Ordered(S, r, k2)
  BY <1>0 DEF Alike, IsList, Ordered
<1>2. HeadOK(S, r, k2, h) /\ TailOK(S, r, k2, l)
  BY <1>0 DEF Alike, IsList, HeadOK, TailOK
<1>3. ASSUME NEW a \in S
      PROVE  PrevOK(S, r, k2, d2[k2[a].cnode].prev, a) /\ NextOK(S, r, k2, d2[k2[a].cnode].next, a)
  <2>1. PrevOK(S, r, k, d[k[a].cnode].prev, a) /\ NextOK(S, r, k, d[k[a].cnode].next, a)
    BY DEF IsList, Linked
  <2> QED
    BY <1>0, <2>1 DEF Alike, PrevOK, NextOK
<1> QED
  BY <1>1, <1>2, <1>3 DEF IsList, Linked

-----------------------------------------------------------------------------
(* The inductive invariant.  Base holds whatever was touched or evicted;    *)
(* the rest until the list is upset.                                        *)

Labels == {"idle", "node", "evict", "page", "add", "using", "free", "freed"}

\* No two threads work on one node; a thread that reads a page in works on a
\* node without one and holds a cache node until it has added it; one that frees
\* a node holds what it read of it.
ThreadsOK ==
    /\ \A t \in Threads : /\ pc[t] = "idle" <=> node[t] = Null
                          /\ pc[t] \in {"page", "add"} <=> cn[t] # Null
                          /\ pc[t] = "free" <=> fcn[t] # Null
                          /\ pc[t] \in {"node", "evict", "page", "freed"} => kpn[node[t]].cnode = Null
    /\ \A t, u \in Threads : t # u /\ node[t] = node[u] => node[t] = Null

InFree(n) == \E t \in Threads : pc[t] = "freed" /\ node[t] = n
Paged ==
    \A n \in Nodes : /\ kpn[n].cnode # Null => kpn[n].page /\ kpn[n].exists
                     /\ kpn[n].page => kpn[n].cnode # Null \/ InFree(n)

Base ==
    /\ CacheTypeOK /\ pc \in [Threads -> Labels] /\ recency \in [Nodes -> Nat]
    /\ PagesConserved /\ Paged /\ ThreadsOK

\* A node with a cache node is in the list or about to be added to it.
InAdd(n) == \E t \in Threads : pc[t] = "add" /\ node[t] = n
Held ==
    \A n \in Nodes : kpn[n].cnode # Null =>
      /\ n \in Cached \/ InAdd(n)
      /\ c[kpn[n].cnode].kpn = n /\ c[kpn[n].cnode].alloc

\* The cache node a thread holds is its own.
Making ==
    /\ \A x \in Cnodes : ~c[x].alloc => c[x].kpn = Null
    /\ \A t \in Threads : /\ pc[t] = "page" => c[cn[t]].kpn = Null /\ c[cn[t]].alloc
                          /\ pc[t] = "add" => cn[t] = kpn[node[t]].cnode /\ node[t] \notin Cached
    /\ \A t, u \in Threads : t # u /\ cn[t] = cn[u] => cn[t] = Null

Queue == IsList(Cached, recency, kpn, c, head, tail)

Sorted == lru /\ Held /\ Making /\ Queue

\* The cache node that free() read is still the one of its node, in the list.
Freeing == \A t \in Threads : pc[t] = "free" => fcn[t] = kpn[node[t]].cnode /\ node[t] \in Cached

CacheInv == Base /\ (~Upset => Sorted /\ Freeing)

\* Pages are counted: a node gains one or loses one, or none does.
LEMMA PagesCounted ==
    ASSUME CacheAssumption, NEW f \in 0 .. max, NEW P \in SUBSET Nodes, f + Cardinality(P) = max,
           NEW f2, NEW P2,
           \/ P2 = P /\ f2 = f
           \/ f > 0 /\ f2 = f - 1 /\ \E n \in Nodes \ P : P2 = P \cup {n}
           \/ f2 = f + 1 /\ \E n \in P : P2 = P \ {n}
    PROVE  f2 \in 0 .. max /\ f2 + Cardinality(P2) = max
<1>1. IsFiniteSet(P) /\ Cardinality(P) \in Nat /\ max \in Nat
  BY FS_Subset, FS_CardinalityType DEF CacheAssumption
<1>2. CASE P2 = P /\ f2 = f
  BY <1>1, <1>2
<1>3. CASE f > 0 /\ f2 = f - 1 /\ \E n \in Nodes \ P : P2 = P \cup {n}
  <2>1. Cardinality(P2) = Cardinality(P) + 1
    BY <1>1, <1>3, FS_AddElement
  <2> QED
    BY <1>1, <1>3, <2>1
<1>4. CASE f2 = f + 1 /\ \E n \in P : P2 = P \ {n}
  <2>1. Cardinality(P2) = Cardinality(P) - 1
    BY <1>1, <1>4, FS_RemoveElement
  <2>2. IsFiniteSet(P2) /\ Cardinality(P2) \in Nat
    BY <1>1, <1>4, FS_Subset, FS_CardinalityType
  <2> QED
    BY <1>1, <1>4, <2>1, <2>2
<1> QED
  BY <1>2, <1>3, <1>4

\* Whatever happens to a page, a node or a thread, the pages add up: getPage
\* takes one for a node that has none, removeLast and free give back the one of
\* the node they take.
LEMMA PagesStep ==
    ASSUME CacheAssumption, Base, CacheNext
    PROVE  freePages' \in 0 .. max /\ PagesConserved'
<1> DEFINE P == {n \in Nodes : kpn[n].page}
<1>1. /\ freePages \in 0 .. max /\ freePages + Cardinality(P) = max /\ P \in SUBSET Nodes
      /\ kpn \in [Nodes -> [exists : BOOLEAN, page : BOOLEAN, cnode : Cnodes \cup {Null}]]
      /\ c \in [Cnodes -> [alloc : BOOLEAN, kpn : Nodes \cup {Null},
                           prev : Cnodes \cup {Null}, next : Cnodes \cup {Null}]]
      /\ tail \in Cnodes \cup {Null} /\ node \in [Threads -> Nodes \cup {Null}]
      /\ Null \notin Nodes \cup Cnodes
  BY DEF Base, CacheTypeOK, PagesConserved, CacheAssumption
<1>2. \/ P' = P /\ freePages' = freePages
      \/ freePages > 0 /\ freePages' = freePages - 1 /\ \E n \in Nodes \ P : P' = P \cup {n}
      \/ freePages' = freePages + 1 /\ \E n \in P : P' = P \ {n}
  <2>1. ASSUME UNCHANGED <<kpn, freePages>> PROVE P' = P /\ freePages' = freePages
    BY <2>1
  <2>2. ASSUME NEW n \in Nodes, freePages' = PageFreed(n),
               \/ kpn' = [kpn EXCEPT ![n] = NoNode]
               \/ kpn' = Evicted(n)
        PROVE  <1>2
    <3>1. P' = P \ {n}
      BY <1>1, <2>2 DEF Evicted, NoNode
    <3>2. CASE n \in P
      BY <2>2, <3>1, <3>2 DEF PageFreed
    <3>3. CASE n \notin P
      BY <2>2, <3>1, <3>3 DEF PageFreed
    <3> QED
      BY <3>2, <3>3
  <2> SUFFICES ASSUME NEW t \in Threads,
                      \/ \E n \in Nodes : touch(t, n) \/ miss(t, n)
                      \/ getCacheNode(t) \/ callocFails(t) \/ removeLast(t)
                      \/ getPage(t) \/ getPageFails(t)
                      \/ add(t) \/ Done(t)
                      \/ Free(t) \/ FreeCnode(t) \/ FreePage(t) \/ FreeEvicted(t)
               PROVE  <1>2
    BY DEF CacheNext
  <2>3. ASSUME NEW n \in Nodes, touch(t, n) \/ miss(t, n) PROVE <1>2
    BY <2>1, <2>3, Zenon DEF touch, miss
  <2>4. CASE getCacheNode(t) \/ callocFails(t) \/ getPageFails(t) \/ add(t) \/ Done(t) \/ Free(t)
    BY <2>1, <2>4 DEF getCacheNode, callocFails, getPageFails, add, Done, Free
  <2>5. CASE removeLast(t)
    <3>1. CASE tail = Null \/ c[tail].kpn = Null
      BY <2>1, <2>5, <3>1, Zenon DEF removeLast
    <3>2. CASE tail # Null /\ c[tail].kpn # Null
      <4>1. c[tail].kpn \in Nodes
        BY <1>1, <3>2
      <4>2. freePages' = PageFreed(c[tail].kpn) /\ kpn' = Evicted(c[tail].kpn)
        BY <2>5, <3>2 DEF removeLast
      <4> QED
        BY <2>2, <4>1, <4>2, Zenon
    <3> QED
      BY <3>1, <3>2, Zenon
  <2>6. CASE getPage(t)
    <3>1. node[t] \in Nodes /\ node[t] \notin P
      <4>1. node[t] \in Nodes
        BY <1>1, <2>6 DEF getPage, Base, ThreadsOK
      <4>2. kpn[node[t]].cnode = Null /\ ~InFree(node[t])
        BY <2>6, <4>1, <1>1 DEF getPage, Base, ThreadsOK, InFree
      <4> QED
        BY <4>1, <4>2 DEF Base, Paged
    <3>2. CASE freePages = 0
      BY <2>1, <2>6, <3>2 DEF getPage
    <3>3. CASE freePages # 0
      <4>1. kpn' = [kpn EXCEPT ![node[t]] = [exists |-> TRUE, page |-> TRUE, cnode |-> cn[t]]]
        BY <2>6, <3>3 DEF getPage
      <4>2. P' = P \cup {node[t]}
        BY <1>1, <3>1, <4>1
      <4> QED
        BY <1>1, <2>6, <3>1, <3>3, <4>2 DEF getPage, PageTaken
    <3> QED
      BY <3>2, <3>3
  <2>7. CASE FreePage(t)
    <3>1. node[t] \in Nodes
      BY <1>1, <2>7, Zenon DEF FreePage, Base, ThreadsOK
    <3> QED
      BY <2>2, <2>7, <3>1, Zenon DEF FreePage
  <2>8. CASE FreeCnode(t)
    <3>1. node[t] \in Nodes
      BY <1>1, <2>8, Zenon DEF FreeCnode, Base, ThreadsOK
    <3>2. kpn' = [kpn EXCEPT ![node[t]].cnode = Null] /\ freePages' = freePages
      BY <2>8, Zenon DEF FreeCnode
    <3>3. \A n \in Nodes : kpn'[n].page = kpn[n].page
      BY <1>1, <3>1, <3>2
    <3> QED
      BY <3>2, <3>3
  <2>9. CASE FreeEvicted(t)
    <3>1. node[t] \in Nodes
      BY <1>1, <2>9 DEF FreeEvicted, Base, ThreadsOK
    <3>2. ~InFree(node[t])
      BY <1>1, <2>9, <3>1 DEF FreeEvicted, Base, ThreadsOK, InFree
    <3>3. node[t] \notin P
      BY <2>9, <3>1, <3>2, Zenon DEF FreeEvicted, Base, Paged
    <3>4. P' = P
      BY <1>1, <2>9, <3>1, <3>3 DEF FreeEvicted, NoNode
    <3> QED
      BY <2>9, <3>4 DEF FreeEvicted
  <2> QED
    BY <2>3, <2>4, <2>5, <2>6, <2>7, <2>8, <2>9, Zenon
<1>3. freePages' \in 0 .. max /\ freePages' + Cardinality(P') = max
  <2>1. PICK P2 : P2 = P'
    BY Zenon
  <2>2. freePages' \in 0 .. max /\ freePages' + Cardinality(P2) = max
    <3>1. \/ P2 = P /\ freePages' = freePages
          \/ freePages > 0 /\ freePages' = freePages - 1 /\ \E n \in Nodes \ P : P2 = P \cup {n}
          \/ freePages' = freePages + 1 /\ \E n \in P : P2 = P \ {n}
      BY <1>2, <2>1
    <3> HIDE DEF P
    <3> QED
      BY <1>1, <3>1, PagesCounted
  <2> QED
    BY <2>1, <2>2
<1> QED
  BY <1>3 DEF PagesConserved
=============================================================================
