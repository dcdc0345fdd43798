---------------------------- MODULE CacheProofs ----------------------------
(***************************************************************************)
(* CacheSound for every set of threads, key page nodes and cache nodes and *)
(* every size of the pool.  Every step keeps Base, whatever was touched or *)
(* evicted.  Until the list is upset, every step keeps the cached nodes    *)
(* the list in the order of their use, and a thread that is between two    *)
(* steps of get() or free() has what it needs to take the next (Sorted,    *)
(* Freeing).                                                               *)
(***************************************************************************)
EXTENDS CacheLemmas

\* Every action keeps Base.
LEMMA BaseStep ==
    ASSUME CacheAssumption, Base, CacheNext
    PROVE  Base'
<1> DEFINE Fields == [alloc : BOOLEAN, kpn : Nodes \cup {Null},
                      prev : Cnodes \cup {Null}, next : Cnodes \cup {Null}]
           KFields == [exists : BOOLEAN, page : BOOLEAN, cnode : Cnodes \cup {Null}]
           Types == /\ num' \in Int /\ head' \in Cnodes \cup {Null} /\ tail' \in Cnodes \cup {Null}
                    /\ c' \in [Cnodes -> Fields] /\ kpn' \in [Nodes -> KFields]
                    /\ node' \in [Threads -> Nodes \cup {Null}] /\ cn' \in [Threads -> Cnodes \cup {Null}]
                    /\ fcn' \in [Threads -> Cnodes \cup {Null}]
                    /\ lru' \in BOOLEAN /\ touchedLast' \in BOOLEAN /\ raced' \in BOOLEAN
                    /\ pc' \in [Threads -> Labels] /\ recency' \in [Nodes -> Nat]
<1>1. /\ num \in Int /\ head \in Cnodes \cup {Null} /\ tail \in Cnodes \cup {Null}
      /\ c \in [Cnodes -> Fields] /\ kpn \in [Nodes -> KFields]
      /\ node \in [Threads -> Nodes \cup {Null}] /\ cn \in [Threads -> Cnodes \cup {Null}]
      /\ fcn \in [Threads -> Cnodes \cup {Null}]
      /\ lru \in BOOLEAN /\ touchedLast \in BOOLEAN /\ raced \in BOOLEAN
      /\ pc \in [Threads -> Labels] /\ recency \in [Nodes -> Nat]
      /\ Null \notin Nodes \cup Cnodes /\ Paged /\ ThreadsOK
  BY DEF Base, CacheTypeOK, CacheAssumption
<1>2. \A n, S : S \in SUBSET Nodes => Recent(n, S) \in [Nodes -> Nat]
  BY <1>1, RecentFacts, Zenon
<1>3. Cached \in SUBSET Nodes
  BY DEF Cached
<1> SUFFICES ASSUME NEW t \in Threads,
                    \/ \E n \in Nodes : touch(t, n) \/ miss(t, n)
                    \/ getCacheNode(t) \/ callocFails(t) \/ removeLast(t)
                    \/ getPage(t) \/ getPageFails(t)
                    \/ add(t) \/ Done(t)
                    \/ Free(t) \/ FreeCnode(t) \/ FreePage(t) \/ FreeEvicted(t)
             PROVE  Types /\ Paged' /\ ThreadsOK'
  BY PagesStep DEF CacheNext, Base, CacheTypeOK
<1>4. ASSUME NEW n \in Nodes, touch(t, n) PROVE Types /\ Paged' /\ ThreadsOK'
  <2>1. ThreadsOK' /\ Paged'
    <3>1. /\ pc[t] = "idle" /\ (\A u \in Threads : node[u] # n)
          /\ node' = [node EXCEPT ![t] = n] /\ kpn' = kpn /\ cn' = cn /\ fcn' = fcn
      BY <1>4, Zenon DEF touch
    <3>2. CASE kpn[n].page /\ kpn[n].cnode # Null
      <4>1. pc' = [pc EXCEPT ![t] = "using"]
        BY <1>4, <3>2, Zenon DEF touch, Goto
      <4> QED
        BY <1>1, <3>1, <4>1 DEF ThreadsOK, Paged, InFree, Labels
    <3>3. CASE ~(kpn[n].page /\ kpn[n].cnode # Null)
      <4>1. pc' = [pc EXCEPT ![t] = "node"] /\ kpn[n].cnode = Null
        BY <1>1, <1>4, <3>3, Zenon DEF touch, Goto, Paged
      <4> QED
        BY <1>1, <3>1, <4>1 DEF ThreadsOK, Paged, InFree, Labels
    <3> QED
      BY <3>2, <3>3
  <2>2. c' \in [Cnodes -> Fields] /\ head' \in Cnodes \cup {Null}
    <3>1. CASE kpn[n].page /\ kpn[n].cnode # Null /\ c[kpn[n].cnode].prev # Null
      <4> DEFINE x == kpn[n].cnode
      <4>1. x \in Cnodes /\ c[x].prev \in Cnodes /\ c[x].next \in Cnodes \cup {Null} /\ head \in Cnodes
        BY <1>1, <1>4, <3>1, Zenon DEF touch
      <4>2. Touched(x) \in [Cnodes -> Fields]
        <5> DEFINE p == c[x].prev
                   q == c[x].next
                   d == [c EXCEPT ![p].next = q]
        <5>1. d \in [Cnodes -> Fields]
          BY <1>1, <4>1
        <5>2. Touched(x) = [d EXCEPT ![IF q = Null THEN p ELSE q].prev = IF q = Null THEN @ ELSE p]
          BY Zenon DEF Touched
        <5> HIDE DEF d, p, q
        <5>3. p \in Cnodes /\ q \in Cnodes \cup {Null}
          BY <4>1 DEF p, q
        <5> QED
          BY <5>1, <5>2, <5>3
      <4>3. /\ head' = x
            /\ c' = [[Touched(x) EXCEPT ![x].prev = Null, ![x].next = head] EXCEPT ![head].prev = x]
        BY <1>4, <3>1, Zenon DEF touch
      <4> HIDE DEF x
      <4> QED
        BY <4>1, <4>2, <4>3
    <3>2. CASE ~(kpn[n].page /\ kpn[n].cnode # Null /\ c[kpn[n].cnode].prev # Null)
      BY <1>1, <1>4, <3>2, Zenon DEF touch
    <3> QED
      BY <3>1, <3>2
  <2>3. /\ num' \in Int /\ tail' \in Cnodes \cup {Null} /\ kpn' \in [Nodes -> KFields]
        /\ node' \in [Threads -> Nodes \cup {Null}] /\ cn' \in [Threads -> Cnodes \cup {Null}]
        /\ fcn' \in [Threads -> Cnodes \cup {Null}]
        /\ lru' \in BOOLEAN /\ touchedLast' \in BOOLEAN /\ raced' \in BOOLEAN
        /\ pc' \in [Threads -> Labels] /\ recency' \in [Nodes -> Nat]
    <3>1. recency' \in [Nodes -> Nat] /\ touchedLast' \in BOOLEAN
      <4>1. recency' = Recent(n, Cached) \/ recency' = recency
        BY <1>4, Zenon DEF touch
      <4>2. touchedLast' = (touchedLast \/ c[kpn[n].cnode].next = Null) \/ touchedLast' = touchedLast
        BY <1>4, Zenon DEF touch
      <4>3. Recent(n, Cached) \in [Nodes -> Nat]
        BY <1>2, <1>3
      <4>4. (touchedLast \/ c[kpn[n].cnode].next = Null) \in BOOLEAN
        OBVIOUS
      <4>5. recency' \in [Nodes -> Nat]
        BY <1>1, <4>1, <4>3
      <4>6. touchedLast' \in BOOLEAN
        BY <1>1, <4>2, <4>4, Zenon
      <4> QED
        BY <4>5, <4>6
    <3>2. /\ num' \in Int /\ tail' \in Cnodes \cup {Null} /\ kpn' \in [Nodes -> KFields]
          /\ node' \in [Threads -> Nodes \cup {Null}] /\ cn' \in [Threads -> Cnodes \cup {Null}]
          /\ fcn' \in [Threads -> Cnodes \cup {Null}] /\ lru' \in BOOLEAN /\ raced' \in BOOLEAN
      BY <1>1, <1>4, Zenon DEF touch
    <3>3. pc' \in [Threads -> Labels]
      BY <1>1, <1>4, Zenon DEF touch, Goto, Labels
    <3> QED
      BY <3>1, <3>2, <3>3
  <2> QED
    BY <2>1, <2>2, <2>3
<1>5. ASSUME NEW n \in Nodes, miss(t, n) PROVE Types /\ Paged' /\ ThreadsOK'
  <2>1. kpn[n].cnode = Null
    BY <1>1, <1>5 DEF miss, Paged
  <2> QED
    BY <1>1, <1>5, <2>1 DEF miss, Goto, ThreadsOK, Paged, InFree, Labels, list, ghosts
<1>6. CASE getCacheNode(t)
  <2>1. CASE num >= max
    <3>1. /\ pc[t] = "node" /\ pc' = [pc EXCEPT ![t] = "evict"]
          /\ UNCHANGED <<c, cn, fcn, num, head, tail, kpn, node, recency, lru, touchedLast, raced>>
      BY <1>6, <2>1 DEF getCacheNode, Goto, ghosts
    <3>2. ThreadsOK' /\ Paged'
      BY <1>1, <3>1 DEF ThreadsOK, Paged, InFree, Labels
    <3>3. pc' \in [Threads -> Labels]
      BY <1>1, <3>1 DEF Labels
    <3> QED
      BY <1>1, <3>1, <3>2, <3>3
  <2>2. CASE ~(num >= max)
    <3>1. PICK x \in Cnodes : /\ c' = [c EXCEPT ![x].alloc = TRUE]
                              /\ cn' = [cn EXCEPT ![t] = x]
      BY <1>6, <2>2, Zenon DEF getCacheNode
    <3>2. c' \in [Cnodes -> Fields]
      BY <1>1, <3>1, Zenon
    <3>3. /\ pc[t] = "node" /\ pc' = [pc EXCEPT ![t] = "page"]
          /\ UNCHANGED <<fcn, num, head, tail, kpn, node, recency, lru, touchedLast, raced>>
      BY <1>6, <2>2 DEF getCacheNode, Goto, ghosts
    <3>4. ThreadsOK' /\ Paged'
      BY <1>1, <3>1, <3>3 DEF ThreadsOK, Paged, InFree, Labels
    <3>5. cn' \in [Threads -> Cnodes \cup {Null}] /\ pc' \in [Threads -> Labels]
      BY <1>1, <3>1, <3>3 DEF Labels
    <3> QED
      BY <1>1, <3>2, <3>3, <3>4, <3>5
  <2> QED
    BY <2>1, <2>2
<1>7. CASE callocFails(t) \/ Done(t)
  <2>1. /\ pc' = [pc EXCEPT ![t] = "idle"] /\ node' = [node EXCEPT ![t] = Null]
        /\ cn' = [cn EXCEPT ![t] = Null]
        /\ UNCHANGED <<fcn, num, head, tail, c, kpn, recency, lru, touchedLast, raced>>
        /\ pc[t] \in {"node", "using"}
    <3>1. CASE callocFails(t)
      BY <3>1 DEF callocFails, Refuse, Goto, list, ghosts
    <3>2. CASE Done(t)
      <4>1. cn[t] = Null
        BY <1>1, <3>2 DEF Done, ThreadsOK
      <4> QED
        BY <1>1, <3>2, <4>1 DEF Done, Goto, list, ghosts
    <3> QED
      BY <1>7, <3>1, <3>2
  <2>2. ThreadsOK' /\ Paged'
    BY <1>1, <2>1 DEF ThreadsOK, Paged, InFree, Labels
  <2> QED
    BY <1>1, <2>1, <2>2 DEF Labels
<1>8. CASE removeLast(t)
  <2>1. CASE tail = Null
    <3>1. /\ pc' = [pc EXCEPT ![t] = "idle"] /\ node' = [node EXCEPT ![t] = Null]
          /\ cn' = [cn EXCEPT ![t] = Null]
          /\ UNCHANGED <<fcn, num, head, tail, c, kpn, recency, lru, touchedLast, raced>>
          /\ pc[t] = "evict"
      BY <1>8, <2>1 DEF removeLast, Refuse, Goto, list, ghosts
    <3>2. ThreadsOK' /\ Paged'
      BY <1>1, <3>1 DEF ThreadsOK, Paged, InFree, Labels
    <3> QED
      BY <1>1, <3>1, <3>2 DEF Labels
  <2>2. CASE tail # Null
    <3> DEFINE p == c[tail].prev
               n == c[tail].kpn
    <3>1. tail \in Cnodes /\ p \in Cnodes \cup {Null} /\ n \in Nodes \cup {Null}
      BY <1>1, <2>2
    <3>2. c' \in [Cnodes -> Fields]
      <4>1. c' = [[c EXCEPT ![IF p = Null THEN tail ELSE p].next = Null]
                           EXCEPT ![tail] = [NoCnode EXCEPT !.alloc = TRUE]]
        BY <1>8, <2>2 DEF removeLast
      <4>2. [NoCnode EXCEPT !.alloc = TRUE] \in Fields
        BY Zenon DEF NoCnode
      <4>3. [c EXCEPT ![IF p = Null THEN tail ELSE p].next = Null] \in [Cnodes -> Fields]
        BY <1>1, <3>1
      <4> QED
        BY <4>1, <4>2, <4>3, Zenon
    <3>3. /\ kpn' \in [Nodes -> KFields] /\ Paged'
          /\ \A m \in Nodes : kpn[m].cnode = Null => kpn'[m].cnode = Null
      <4>0. \A m : InFree(m) => InFree(m)'
        <5>1. pc' = [pc EXCEPT ![t] = "page"] /\ node' = node /\ pc[t] = "evict"
          BY <1>8, <2>2 DEF removeLast, Goto
        <5> QED
          BY <1>1, <5>1 DEF InFree
      <4>1. CASE n = Null
        BY <1>1, <1>8, <2>2, <4>0, <4>1 DEF removeLast, Paged
      <4>2. CASE n # Null
        <5>1. kpn' = [kpn EXCEPT ![n].page = FALSE, ![n].cnode = Null] /\ n \in Nodes
          BY <1>8, <2>2, <3>1, <4>2 DEF removeLast, Evicted
        <5> HIDE DEF n
        <5>2. kpn' \in [Nodes -> KFields]
          BY <1>1, <5>1, Zenon
        <5>3. \A m \in Nodes \ {n} : kpn'[m] = kpn[m]
          BY <1>1, <5>1
        <5>4. kpn'[n].page = FALSE /\ kpn'[n].cnode = Null
          BY <1>1, <5>1
        <5> QED
          BY <1>1, <4>0, <5>2, <5>3, <5>4, Zenon DEF Paged
      <4> QED
        BY <4>1, <4>2
    <3>4. recency' \in [Nodes -> Nat] /\ lru' \in BOOLEAN /\ raced' \in BOOLEAN
      <4>0. raced' \in BOOLEAN
        <5>1. raced' = (raced \/ \E u \in Threads : pc[u] = "free" /\ fcn[u] = tail)
          BY <1>8, <2>2 DEF removeLast
        <5> QED
          BY <1>1, <5>1, Zenon
      <4>1. \/ recency' = recency /\ lru' = lru
            \/ /\ recency' = Recent(Null, Cached \ {n})
               /\ lru' = \A m \in Cached : recency[n] <= recency[m]
        BY <1>8, <2>2, Zenon DEF removeLast
      <4>2. Recent(Null, Cached \ {n}) \in [Nodes -> Nat]
        BY <1>2, <1>3
      <4> QED
        BY <1>1, <4>0, <4>1, <4>2, Zenon
    <3>5. /\ pc' = [pc EXCEPT ![t] = "page"] /\ node' = node /\ cn' = [cn EXCEPT ![t] = tail]
          /\ pc[t] = "evict" /\ touchedLast' = touchedLast /\ tail' = p /\ num' = num - 1
          /\ head' = (IF p = Null THEN Null ELSE head) /\ fcn' = fcn
      BY <1>8, <2>2 DEF removeLast, Goto
    <3>6. ThreadsOK'
      BY <1>1, <2>2, <3>3, <3>5 DEF ThreadsOK, Labels
    <3> QED
      BY <1>1, <3>1, <3>2, <3>3, <3>4, <3>5, <3>6 DEF Labels
  <2> QED
    BY <2>1, <2>2
<1>9. CASE getPage(t) \/ getPageFails(t)
  <2>1. cn[t] \in Cnodes /\ node[t] \in Nodes
    BY <1>1, <1>9 DEF getPage, getPageFails, ThreadsOK
  <2>2. CASE getPageFails(t) \/ freePages = 0
    <3>1. /\ c' = [c EXCEPT ![cn[t]] = NoCnode] /\ Refuse(t)
          /\ UNCHANGED <<num, head, tail, kpn, freePages, fcn, recency, lru, touchedLast, raced>>
          /\ pc[t] = "page"
      BY <1>9, <2>2 DEF getPage, getPageFails, ghosts
    <3>2. NoCnode \in Fields
      BY DEF NoCnode
    <3>3. c' \in [Cnodes -> Fields]
      BY <1>1, <3>1, <3>2, Zenon
    <3> QED
      BY <1>1, <3>1, <3>3 DEF Refuse, Goto, ThreadsOK, Paged, InFree, Labels
  <2>3. CASE getPage(t) /\ freePages # 0
    <3>1. /\ kpn' = [kpn EXCEPT ![node[t]] = [exists |-> TRUE, page |-> TRUE, cnode |-> cn[t]]]
          /\ c' = [c EXCEPT ![cn[t]].kpn = node[t]]
          /\ pc' = [pc EXCEPT ![t] = "add"] /\ pc[t] = "page"
          /\ UNCHANGED <<node, cn, fcn, num, head, tail, recency, lru, touchedLast, raced>>
      BY <2>3 DEF getPage, Goto, ghosts
    <3>2. c' \in [Cnodes -> Fields] /\ kpn' \in [Nodes -> KFields]
      BY <1>1, <2>1, <3>1, Zenon
    <3>3. Paged'
      BY <1>1, <2>1, <3>1 DEF Paged, InFree
    <3>4. ThreadsOK'
      BY <1>1, <2>1, <3>1 DEF ThreadsOK, Labels
    <3> QED
      BY <1>1, <3>1, <3>2, <3>3, <3>4 DEF Labels
  <2> QED
    BY <1>9, <2>2, <2>3
<1>10. CASE add(t)
  <2>1. cn[t] \in Cnodes /\ node[t] \in Nodes
    BY <1>1, <1>10 DEF add, ThreadsOK
  <2>2. c' \in [Cnodes -> Fields]
    <3> DEFINE x == cn[t]
    <3>1. c' = [[c EXCEPT ![x].prev = Null, ![x].next = head]
                   EXCEPT ![IF head = Null THEN x ELSE head].prev = IF head = Null THEN @ ELSE x]
      BY <1>10 DEF add
    <3>3. x \in Cnodes /\ (head # Null => head \in Cnodes)
      BY <1>1, <2>1
    <3>2. [c EXCEPT ![x].prev = Null, ![x].next = head] \in [Cnodes -> Fields]
      <4>1. c \in [Cnodes -> Fields] /\ head \in Cnodes \cup {Null}
        BY <1>1
      <4> HIDE DEF x
      <4> QED
        BY <3>3, <4>1, Zenon
    <3> HIDE DEF x
    <3> QED
      BY <3>1, <3>2, <3>3
  <2>3. recency' \in [Nodes -> Nat]
    BY <1>2, <1>3, <1>10, <2>1 DEF add
  <2>4. ThreadsOK' /\ Paged'
    BY <1>1, <1>10, <2>1 DEF add, Goto, ThreadsOK, Paged, InFree, Labels
  <2>5. /\ pc' = [pc EXCEPT ![t] = "using"] /\ cn' = [cn EXCEPT ![t] = Null]
        /\ head' = cn[t] /\ tail' = (IF head = Null THEN cn[t] ELSE tail) /\ num' = num + 1
        /\ UNCHANGED <<kpn, node, fcn, lru, touchedLast, raced>>
    BY <1>10 DEF add, Goto
  <2> QED
    BY <1>1, <2>1, <2>2, <2>3, <2>4, <2>5 DEF Labels
<1>11. CASE FreeCnode(t)
  <2> DEFINE n == node[t]
             x == fcn[t]
             p == c[x].prev
             q == c[x].next
             d == [c EXCEPT ![x] = NoCnode]
             e == IF p = Null THEN d ELSE [d EXCEPT ![p].next = q]
  <2>1. n \in Nodes
    BY <1>1, <1>11, Zenon DEF FreeCnode, ThreadsOK
  <2>2. x \in Cnodes
    BY <1>1, <1>11, <2>1, Zenon DEF FreeCnode, ThreadsOK
  <2>3. p \in Cnodes \cup {Null} /\ q \in Cnodes \cup {Null}
    BY <1>1, <2>2
  <2>4. c' \in [Cnodes -> Fields]
    <3>1. c' = IF q = Null THEN e ELSE [e EXCEPT ![q].prev = p]
      BY <1>11, Zenon DEF FreeCnode
    <3>2. d \in [Cnodes -> Fields]
      <4>1. NoCnode \in Fields
        BY DEF NoCnode
      <4> QED
        BY <1>1, <2>2, <4>1
    <3> HIDE DEF d, p, q
    <3>3. e \in [Cnodes -> Fields]
      BY <2>3, <3>2
    <3> HIDE DEF e
    <3> QED
      BY <2>3, <3>1, <3>3
  <2>5. /\ kpn' = [kpn EXCEPT ![n].cnode = Null] /\ pc[t] = "free" /\ pc' = [pc EXCEPT ![t] = "freed"]
        /\ node' = node /\ cn' = cn /\ fcn' = [fcn EXCEPT ![t] = Null]
    BY <1>11, Zenon DEF FreeCnode, Goto
  <2>6. /\ kpn' \in [Nodes -> KFields] /\ kpn'[n].cnode = Null
        /\ \A m \in Nodes \ {n} : kpn'[m] = kpn[m]
    BY <1>1, <2>1, <2>5
  <2>7. Paged'
    <3>1. \A m : InFree(m) \/ m = n => InFree(m)'
      BY <1>1, <2>5 DEF InFree
    <3> HIDE DEF n
    <3>2. \A m \in Nodes \ {n} :
            /\ kpn'[m].cnode # Null => kpn'[m].page /\ kpn'[m].exists
            /\ kpn'[m].page => kpn'[m].cnode # Null \/ InFree(m)'
      BY <1>1, <2>6, <3>1 DEF Paged
    <3> QED
      BY <2>6, <3>1, <3>2 DEF Paged
  <2>8. recency' \in [Nodes -> Nat]
    BY <1>2, <1>3, <1>11, Zenon DEF FreeCnode
  <2>9. ThreadsOK'
    <3>1. \A m \in Nodes : kpn[m].cnode = Null => kpn'[m].cnode = Null
      BY <2>6
    <3>2. \A u \in Threads : /\ u # t => pc'[u] = pc[u] /\ fcn'[u] = fcn[u]
                             /\ u = t => pc'[u] = "freed" /\ fcn'[u] = Null
      BY <1>1, <2>5
    <3>3. \A u \in Threads : pc'[u] \in {"node", "evict", "page", "freed"} => kpn'[node'[u]].cnode = Null
      BY <1>1, <2>1, <2>5, <2>6, <3>1, <3>2 DEF ThreadsOK
    <3>4. \A u \in Threads : /\ pc'[u] = "idle" <=> node'[u] = Null
                             /\ pc'[u] \in {"page", "add"} <=> cn'[u] # Null
                             /\ pc'[u] = "free" <=> fcn'[u] # Null
      BY <1>1, <2>1, <2>5, <3>2 DEF ThreadsOK
    <3> QED
      BY <1>1, <2>5, <3>3, <3>4, Zenon DEF ThreadsOK
  <2>10. /\ num' \in Int /\ head' \in Cnodes \cup {Null} /\ tail' \in Cnodes \cup {Null}
         /\ lru' \in BOOLEAN /\ touchedLast' \in BOOLEAN /\ raced' \in BOOLEAN
    BY <1>1, <1>11, <2>3, Zenon DEF FreeCnode
  <2>11. /\ node' \in [Threads -> Nodes \cup {Null}] /\ cn' \in [Threads -> Cnodes \cup {Null}]
         /\ fcn' \in [Threads -> Cnodes \cup {Null}] /\ pc' \in [Threads -> Labels]
    BY <1>1, <2>5 DEF Labels
  <2> QED
    BY <2>4, <2>6, <2>7, <2>8, <2>9, <2>10, <2>11
<1>12. CASE FreeEvicted(t) \/ FreePage(t)
  <2>1. /\ kpn' = [kpn EXCEPT ![node[t]] = NoNode] /\ pc' = [pc EXCEPT ![t] = "idle"]
        /\ node' = [node EXCEPT ![t] = Null] /\ pc[t] \in {"using", "freed"}
        /\ UNCHANGED <<num, head, tail, c, cn, fcn, recency, lru, touchedLast, raced>>
    BY <1>12 DEF FreeEvicted, FreePage, Goto, list, ghosts
  <2>2. node[t] \in Nodes
    BY <1>1, <2>1, Zenon DEF ThreadsOK
  <2>3. /\ kpn' \in [Nodes -> KFields] /\ kpn'[node[t]] = NoNode
        /\ \A m \in Nodes \ {node[t]} : kpn'[m] = kpn[m]
    BY <1>1, <2>1, <2>2 DEF NoNode
  <2>4. Paged'
    <3>1. \A m \in Nodes \ {node[t]} : InFree(m) => InFree(m)'
      BY <1>1, <2>1 DEF InFree
    <3> QED
      BY <1>1, <2>3, <3>1 DEF Paged, NoNode
  <2>5. ThreadsOK'
    <3>1. \A m \in Nodes : kpn[m].cnode = Null => kpn'[m].cnode = Null
      BY <2>3 DEF NoNode
    <3> QED
      BY <1>1, <2>1, <2>2, <3>1 DEF ThreadsOK, Labels
  <2> QED
    BY <1>1, <2>1, <2>3, <2>4, <2>5 DEF Labels
<1>13. CASE Free(t)
  <2>1. node[t] \in Nodes
    BY <1>1, <1>13, Zenon DEF Free, ThreadsOK
  <2>2. kpn[node[t]].cnode \in Cnodes
    BY <1>1, <1>13, <2>1, Zenon DEF Free
  <2>3. /\ pc[t] = "using" /\ pc' = [pc EXCEPT ![t] = "free"]
        /\ fcn' = [fcn EXCEPT ![t] = kpn[node[t]].cnode]
        /\ UNCHANGED <<num, head, tail, c, kpn, node, cn, recency, lru, touchedLast, raced>>
    BY <1>13 DEF Free, Goto, list, ghosts
  <2>4. Paged'
    BY <1>1, <2>3 DEF Paged, InFree
  <2>5. ThreadsOK'
    BY <1>1, <2>2, <2>3 DEF ThreadsOK, Labels
  <2> QED
    BY <1>1, <2>2, <2>3, <2>4, <2>5 DEF Labels
<1> QED
  BY <1>4, <1>5, <1>6, <1>7, <1>8, <1>9, <1>10, <1>11, <1>12, <1>13, Zenon

-----------------------------------------------------------------------------
(* The list, until it is upset                                              *)

\* The code's assignments to c_prev, c_next and c_kpn of one cache node.
CRecords == [Cnodes -> [alloc : BOOLEAN, kpn : Nodes \cup {Null},
                        prev : Cnodes \cup {Null}, next : Cnodes \cup {Null}]]
SetPrev(d, x, v) == [d EXCEPT ![x].prev = v]
SetNext(d, x, v) == [d EXCEPT ![x].next = v]
PrevSet(d, x, v, d2) ==
    /\ d2 \in CRecords
    /\ \A y \in Cnodes : /\ d2[y].prev = IF y = x THEN v ELSE d[y].prev
                         /\ d2[y].next = d[y].next
                         /\ d2[y].kpn = d[y].kpn /\ d2[y].alloc = d[y].alloc
NextSet(d, x, v, d2) ==
    /\ d2 \in CRecords
    /\ \A y \in Cnodes : /\ d2[y].next = IF y = x THEN v ELSE d[y].next
                         /\ d2[y].prev = d[y].prev
                         /\ d2[y].kpn = d[y].kpn /\ d2[y].alloc = d[y].alloc
LEMMA SetLinks ==
    ASSUME NEW d \in CRecords, NEW x \in Cnodes, NEW v \in Cnodes \cup {Null}
    PROVE  PrevSet(d, x, v, SetPrev(d, x, v)) /\ NextSet(d, x, v, SetNext(d, x, v))
<1>1. SetPrev(d, x, v) \in CRecords /\ SetNext(d, x, v) \in CRecords
  BY DEF CRecords, SetPrev, SetNext
<1>2. ASSUME NEW y \in Cnodes
      PROVE  /\ SetPrev(d, x, v)[y] = IF y = x THEN [d[x] EXCEPT !.prev = v] ELSE d[y]
             /\ SetNext(d, x, v)[y] = IF y = x THEN [d[x] EXCEPT !.next = v] ELSE d[y]
  BY DEF CRecords, SetPrev, SetNext
<1>3. d[x] \in [alloc : BOOLEAN, kpn : Nodes \cup {Null},
                prev : Cnodes \cup {Null}, next : Cnodes \cup {Null}]
  BY DEF CRecords
<1> QED
  BY <1>1, <1>2, <1>3 DEF PrevSet, NextSet

\* What Base and Sorted say of the variables, for the steps below.
Known ==
    /\ Cached \in SUBSET Nodes /\ Null \notin Nodes \cup Cnodes
    /\ head \in Cnodes \cup {Null} /\ tail \in Cnodes \cup {Null}
    /\ c \in [Cnodes -> [alloc : BOOLEAN, kpn : Nodes \cup {Null},
                         prev : Cnodes \cup {Null}, next : Cnodes \cup {Null}]]
    /\ kpn \in [Nodes -> [exists : BOOLEAN, page : BOOLEAN, cnode : Cnodes \cup {Null}]]
    /\ node \in [Threads -> Nodes \cup {Null}] /\ cn \in [Threads -> Cnodes \cup {Null}]
    /\ pc \in [Threads -> Labels] /\ recency \in [Nodes -> Nat]
    /\ \A n \in Cached : kpn[n].cnode \in Cnodes
    /\ \A m, n \in Nodes : m # n /\ kpn[m].cnode = kpn[n].cnode => kpn[n].cnode = Null

\* They follow from the types and from each node's cache node pointing back at it.
LEMMA SortedFacts ==
    ASSUME CacheAssumption, Base, Sorted
    PROVE  Known
<1>1. \A n \in Cached : kpn[n].cnode \in Cnodes
  BY Zenon DEF Sorted, Queue, IsList, Ordered
<1>2. \A m, n \in Nodes : m # n /\ kpn[m].cnode = kpn[n].cnode => kpn[n].cnode = Null
  BY Zenon DEF Sorted, Held
<1> QED
  BY <1>1, <1>2 DEF Known, Base, CacheTypeOK, CacheAssumption, Cached

\* A step of a thread that has no cache node and does not touch the list keeps
\* Sorted: miss, calloc failing, Done, free of an evicted page, and the
\* beginning of get.
LEMMA StepAside ==
    ASSUME CacheAssumption, Base, Sorted, NEW t \in Threads,
           pc[t] \notin {"page", "add"}, NEW a \in Labels \ {"page", "add"}, NEW m,
           pc' = [pc EXCEPT ![t] = a], node' = [node EXCEPT ![t] = m], cn' = [cn EXCEPT ![t] = Null],
           UNCHANGED <<head, tail, c, recency, lru>>,
           \A n \in Nodes : kpn'[n].cnode = kpn[n].cnode
    PROVE  Sorted'
<1>1. /\ Cached' = Cached /\ Cached \in SUBSET Nodes
      /\ pc \in [Threads -> Labels] /\ node \in [Threads -> Nodes \cup {Null}]
      /\ cn \in [Threads -> Cnodes \cup {Null}]
      /\ \A u \in Threads : pc[u] \in {"page", "add"} <=> cn[u] # Null
      /\ \A u \in Threads : pc[u] = "idle" <=> node[u] = Null
  BY SortedFacts DEF Known, Cached, Base, ThreadsOK
<1>2. \A n \in Nodes : InAdd(n) => InAdd(n)'
  BY <1>1 DEF InAdd
<1>3. Held'
  BY <1>1, <1>2 DEF Sorted, Held
<1>4. \A u \in Threads : u # t => pc'[u] = pc[u] /\ node'[u] = node[u] /\ cn'[u] = cn[u]
  BY <1>1
<1>5. pc'[t] = a /\ cn'[t] = Null
  BY <1>1
<1>6. Making'
  <2>1. \A u \in Threads : pc[u] = "add" => node[u] \in Nodes
    BY <1>1
  <2>2. ASSUME NEW u \in Threads
        PROVE  /\ pc'[u] = "page" => c'[cn'[u]].kpn = Null /\ c'[cn'[u]].alloc
               /\ pc'[u] = "add" => cn'[u] = kpn'[node'[u]].cnode /\ node'[u] \notin Cached'
    BY <1>1, <1>4, <1>5, <2>1 DEF Sorted, Making, Labels
  <2>3. ASSUME NEW u \in Threads, NEW v \in Threads, u # v, cn'[u] = cn'[v] PROVE cn'[u] = Null
    BY <1>1, <1>4, <1>5, <2>3 DEF Sorted, Making
  <2> QED
    BY <2>2, <2>3 DEF Sorted, Making
<1>7. IsList(Cached, recency, kpn', c', head, tail)
  <2>1. Alike(Cached, kpn, c, kpn', c') /\ IsList(Cached, recency, kpn, c, head, tail)
    BY <1>1, Zenon DEF Alike, Sorted, Queue
  <2> QED
    BY <2>1, SameLinks
<1> QED
  BY <1>1, <1>3, <1>6, <1>7, Zenon DEF Sorted, Queue

\* getCacheNode takes a cache node nobody has.
LEMMA AllocStep ==
    ASSUME CacheAssumption, Base, Sorted, NEW t \in Threads, pc[t] = "node",
           NEW x \in Cnodes, ~c[x].alloc,
           c' = [c EXCEPT ![x].alloc = TRUE], cn' = [cn EXCEPT ![t] = x],
           pc' = [pc EXCEPT ![t] = "page"],
           UNCHANGED <<head, tail, kpn, node, recency, lru>>
    PROVE  Sorted'
<1>0. Known
  BY SortedFacts
<1>1. Cached' = Cached
  BY DEF Cached
<1>2. /\ \A y \in Cnodes : /\ c'[y].kpn = c[y].kpn /\ c'[y].prev = c[y].prev
                           /\ c'[y].next = c[y].next
                           /\ c[y].alloc \/ y = x => c'[y].alloc
                           /\ y # x => c'[y].alloc = c[y].alloc
      /\ c[x].kpn = Null
  <2>1. c'[x] = [c[x] EXCEPT !.alloc = TRUE] /\ \A y \in Cnodes \ {x} : c'[y] = c[y]
    BY <1>0 DEF Known
  <2>2. c[x].kpn = Null
    BY DEF Sorted, Making
  <2>3. /\ c'[x].kpn = c[x].kpn /\ c'[x].prev = c[x].prev /\ c'[x].next = c[x].next
        /\ c'[x].alloc
    BY <1>0, <2>1 DEF Known
  <2> QED
    BY <2>1, <2>2, <2>3, Zenon
<1>3. \A u \in Threads : /\ u # t => pc'[u] = pc[u] /\ cn'[u] = cn[u]
                         /\ pc[u] \in {"page", "add"} <=> cn[u] # Null
                         /\ pc[u] = "idle" <=> node[u] = Null
  BY DEF Base, ThreadsOK
<1>4. pc'[t] = "page" /\ cn'[t] = x
  BY <1>0 DEF Known, Labels
<1>5. \A u \in Threads : cn[u] # x
  BY <1>0, <1>3 DEF Known, Sorted, Making, Held
<1>6. \A n \in Nodes : InAdd(n) => InAdd(n)'
  BY <1>3 DEF InAdd
<1>7. Held'
  BY <1>1, <1>2, <1>6 DEF Sorted, Held
<1>8. Making'
  <2>1. \A y \in Cnodes : ~c'[y].alloc => c'[y].kpn = Null
    BY <1>2 DEF Sorted, Making
  <2>2. ASSUME NEW u \in Threads
        PROVE  /\ pc'[u] = "page" => c'[cn'[u]].kpn = Null /\ c'[cn'[u]].alloc
               /\ pc'[u] = "add" => cn'[u] = kpn'[node'[u]].cnode /\ node'[u] \notin Cached'
    <3>1. CASE u = t
      BY <1>2, <1>4, <3>1, Zenon
    <3>2. CASE u # t
      BY <1>1, <1>2, <1>3, <3>2 DEF Sorted, Making
    <3> QED
      BY <3>1, <3>2
  <2>3. ASSUME NEW u \in Threads, NEW v \in Threads, u # v, cn'[u] = cn'[v] PROVE cn'[u] = Null
    BY <1>3, <1>4, <1>5, <2>3 DEF Sorted, Making
  <2> QED
    BY <2>1, <2>2, <2>3 DEF Making
<1>9. IsList(Cached, recency, kpn, c', head, tail)
  <2>1. Alike(Cached, kpn, c, kpn, c')
    BY <1>2 DEF Alike
  <2>2. IsList(Cached, recency, kpn, c, head, tail)
    BY DEF Sorted, Queue
  <2> QED
    BY <2>1, <2>2, SameLinks
<1> QED
  BY <1>1, <1>7, <1>8, <1>9 DEF Sorted, Queue

\* getPage gives the node of the thread its page and its cache node.
LEMMA PageStep ==
    ASSUME CacheAssumption, Base, Sorted, NEW t \in Threads, pc[t] = "page",
           kpn' = [kpn EXCEPT ![node[t]] = [exists |-> TRUE, page |-> TRUE, cnode |-> cn[t]]],
           c' = [c EXCEPT ![cn[t]].kpn = node[t]], pc' = [pc EXCEPT ![t] = "add"],
           UNCHANGED <<head, tail, node, cn, recency, lru>>
    PROVE  Sorted'
<1>0. Known
  BY SortedFacts
<1> DEFINE n == node[t]
           x == cn[t]
<1>1. Cached' = Cached
  BY DEF Cached
<1>2. \A u \in Threads : /\ pc[u] \in {"page", "add"} <=> cn[u] # Null
                         /\ pc[u] = "idle" <=> node[u] = Null
                         /\ u # t => cn[u] # x /\ node[u] # n
  BY DEF Base, ThreadsOK, Sorted, Making
<1>3. n \in Nodes /\ x \in Cnodes /\ kpn[n].cnode = Null /\ n \notin Cached
  BY <1>0, <1>2 DEF Known, Base, ThreadsOK
<1>4. c[x].kpn = Null /\ c[x].alloc
  BY DEF Sorted, Making
<1>5. /\ \A y \in Cnodes : /\ c'[y].prev = c[y].prev /\ c'[y].next = c[y].next
                           /\ c'[y].alloc = c[y].alloc
                           /\ c'[y].kpn = IF y = x THEN n ELSE c[y].kpn
      /\ \A m \in Nodes : kpn'[m].cnode = IF m = n THEN x ELSE kpn[m].cnode
  BY <1>0, <1>3 DEF Known
<1>6. \A u \in Threads : pc'[u] = IF u = t THEN "add" ELSE pc[u]
  BY <1>0 DEF Known
<1>7. \A m \in Nodes : InAdd(m) \/ m = n => InAdd(m)'
  BY <1>6 DEF InAdd
<1> HIDE DEF n, x
<1>8. \A m \in Nodes : m # n /\ kpn[m].cnode # Null => kpn[m].cnode # x
  BY <1>0, <1>4 DEF Known, Sorted, Held
<1>9. Held'
  <2> SUFFICES ASSUME NEW m \in Nodes, kpn'[m].cnode # Null
               PROVE  /\ m \in Cached' \/ InAdd(m)'
                      /\ c'[kpn'[m].cnode].kpn = m /\ c'[kpn'[m].cnode].alloc
    BY DEF Held
  <2>1. CASE m = n
    BY <1>3, <1>4, <1>5, <1>7, <2>1
  <2>2. CASE m # n
    <3>1. kpn'[m].cnode = kpn[m].cnode /\ kpn[m].cnode \in Cnodes \ {x}
      BY <1>0, <1>5, <1>8, <2>2 DEF Known
    <3> QED
      BY <1>1, <1>5, <1>7, <3>1 DEF Sorted, Held
  <2> QED
    BY <2>1, <2>2
<1>10. Making'
  <2>1. \A y \in Cnodes : ~c'[y].alloc => c'[y].kpn = Null
    BY <1>4, <1>5 DEF Sorted, Making
  <2>2. ASSUME NEW u \in Threads
        PROVE  /\ pc'[u] = "page" => c'[cn'[u]].kpn = Null /\ c'[cn'[u]].alloc
               /\ pc'[u] = "add" => cn'[u] = kpn'[node'[u]].cnode /\ node'[u] \notin Cached'
    <3>1. CASE u = t
      BY <1>1, <1>3, <1>5, <1>6, <3>1 DEF n, x
    <3>2. CASE u # t
      BY <1>0, <1>1, <1>2, <1>5, <1>6, <3>2 DEF Known, Sorted, Making
    <3> QED
      BY <3>1, <3>2
  <2>3. \A u, v \in Threads : u # v /\ cn'[u] = cn'[v] => cn'[u] = Null
    BY DEF Sorted, Making
  <2> QED
    BY <2>1, <2>2, <2>3 DEF Making
<1>11. IsList(Cached, recency, kpn', c', head, tail)
  <2>1. Alike(Cached, kpn, c, kpn', c')
    BY <1>0, <1>3, <1>5 DEF Known, Alike
  <2>2. IsList(Cached, recency, kpn, c, head, tail)
    BY DEF Sorted, Queue
  <2> QED
    BY <2>1, <2>2, SameLinks
<1> QED
  BY <1>1, <1>9, <1>10, <1>11 DEF Sorted, Queue

\* getPage gives up: the cache node of the thread is freed.
LEMMA GiveUpStep ==
    ASSUME CacheAssumption, Base, Sorted, NEW t \in Threads, pc[t] = "page",
           c' = [c EXCEPT ![cn[t]] = NoCnode], Refuse(t),
           UNCHANGED <<head, tail, kpn, recency, lru>>
    PROVE  Sorted'
<1>0. Known
  BY SortedFacts
<1> DEFINE x == cn[t]
<1>1. Cached' = Cached
  BY DEF Cached
<1>2. \A u \in Threads : /\ pc[u] \in {"page", "add"} <=> cn[u] # Null
                         /\ pc[u] = "idle" <=> node[u] = Null
                         /\ u # t => cn[u] # x
  BY DEF Base, ThreadsOK, Sorted, Making
<1>3. x \in Cnodes /\ c[x].kpn = Null
  BY <1>0, <1>2 DEF Known, Sorted, Making
<1>4. c'[x] = NoCnode /\ \A y \in Cnodes \ {x} : c'[y] = c[y]
  BY <1>0, <1>3 DEF Known
<1>5. \A u \in Threads : /\ u # t => pc'[u] = pc[u] /\ cn'[u] = cn[u] /\ node'[u] = node[u]
                         /\ u = t => pc'[u] = "idle" /\ cn'[u] = Null
  BY <1>0 DEF Known, Refuse, Goto, Labels
<1>6. \A m \in Nodes : InAdd(m) => InAdd(m)'
  BY <1>5 DEF InAdd
<1> HIDE DEF x
<1>7. \A m \in Nodes : kpn[m].cnode # Null => kpn[m].cnode \in Cnodes \ {x}
  BY <1>0, <1>3 DEF Known, Sorted, Held
<1>8. Held'
  BY <1>1, <1>4, <1>6, <1>7 DEF Sorted, Held
<1>9. Making'
  <2>1. \A y \in Cnodes : ~c'[y].alloc => c'[y].kpn = Null
    BY <1>4 DEF Sorted, Making, NoCnode
  <2>2. ASSUME NEW u \in Threads
        PROVE  /\ pc'[u] = "page" => c'[cn'[u]].kpn = Null /\ c'[cn'[u]].alloc
               /\ pc'[u] = "add" => cn'[u] = kpn'[node'[u]].cnode /\ node'[u] \notin Cached'
    <3>1. CASE u = t
      BY <1>5, <3>1
    <3>2. CASE u # t
      BY <1>1, <1>2, <1>4, <1>5, <3>2 DEF Sorted, Making
    <3> QED
      BY <3>1, <3>2
  <2>3. ASSUME NEW u \in Threads, NEW v \in Threads, u # v, cn'[u] = cn'[v] PROVE cn'[u] = Null
    BY <1>5, <2>3 DEF Sorted, Making
  <2> QED
    BY <2>1, <2>2, <2>3 DEF Making
<1>10. IsList(Cached, recency, kpn, c', head, tail)
  <2>1. Alike(Cached, kpn, c, kpn, c')
    BY <1>0, <1>4, <1>7 DEF Known, Alike
  <2>2. IsList(Cached, recency, kpn, c, head, tail)
    BY DEF Sorted, Queue
  <2> QED
    BY <2>1, <2>2, SameLinks
<1> QED
  BY <1>1, <1>8, <1>9, <1>10 DEF Sorted, Queue

\* add puts the node of the thread in front.
LEMMA AddStep ==
    ASSUME CacheAssumption, Base, Sorted, NEW t \in Threads, add(t)
    PROVE  Sorted'
<1>0. Known
  BY SortedFacts
<1> DEFINE n == node[t]
           x == cn[t]
           r == Recent(n, Cached \cup {n})
<1>1. \A u \in Threads : /\ pc[u] \in {"page", "add"} <=> cn[u] # Null
                         /\ pc[u] = "idle" <=> node[u] = Null
                         /\ u # t => cn[u] # x /\ node[u] # n
  BY DEF Base, ThreadsOK, Sorted, Making, add
<1>2. n \in Nodes \ Cached /\ x \in Cnodes /\ x = kpn[n].cnode /\ pc[t] = "add"
  BY <1>0, <1>1 DEF Known, Sorted, Making, add
<1>3. /\ r \in [Nodes -> Nat] /\ SameOrder(Cached, recency, r)
      /\ \A m \in Nodes : r[m] > 0 <=> m \in Cached \cup {n}
      /\ \A m \in Cached : r[m] < r[n]
  <2>1. (Cached \cup {n}) \ {n} = Cached /\ Cached \cup {n} \in SUBSET Nodes
    BY <1>0, <1>2 DEF Known
  <2> DEFINE S == Cached \cup {n}
  <2>2. /\ r \in [Nodes -> Nat]
        /\ \A m \in Nodes : r[m] > 0 <=> m = n \/ m \in S
        /\ SameOrder(S \ {n}, recency, r)
        /\ n \in Nodes => \A m \in S \ {n} : r[m] < r[n]
    <3> HIDE DEF S
    <3>1. S \in SUBSET Nodes /\ recency \in [Nodes -> Nat]
      BY <1>0, <2>1 DEF Known, S
    <3>2. r = Recent(n, S)
      BY DEF S
    <3> HIDE DEF r, n
    <3> QED
      BY <3>1, <3>2, RecentFacts, Zenon
  <2> QED
    BY <1>2, <2>1, <2>2, Zenon
<1>4. /\ recency' = r /\ head' = x /\ tail' = (IF head = Null THEN x ELSE tail)
      /\ UNCHANGED <<kpn, node, lru>>
      /\ pc' = [pc EXCEPT ![t] = "using"] /\ cn' = [cn EXCEPT ![t] = Null]
      /\ c' = [[c EXCEPT ![x].prev = Null, ![x].next = head]
                  EXCEPT ![IF head = Null THEN x ELSE head].prev = IF head = Null THEN @ ELSE x]
  BY DEF add, Goto
<1> HIDE DEF r, n, x
<1>5. Cached' = Cached \cup {n}
  BY <1>2, <1>3, <1>4 DEF Cached
<1>6. \A m \in Cached : kpn[m].cnode # x
  BY <1>0, <1>2 DEF Known
<1>7. head # x
  BY <1>0, <1>2, <1>6 DEF Known, Sorted, Queue, IsList, HeadOK
<1>8. /\ c'[x].prev = Null /\ c'[x].next = head
      /\ \A y \in Cnodes : c'[y].kpn = c[y].kpn /\ c'[y].alloc = c[y].alloc
      /\ \A y \in Cnodes \ {x} : /\ c'[y].prev = IF y = head THEN x ELSE c[y].prev
                                 /\ c'[y].next = c[y].next
  <2> DEFINE d == SetNext(SetPrev(c, x, Null), x, head)
  <2>1. c \in CRecords /\ x \in Cnodes /\ head \in Cnodes \cup {Null} /\ Null \notin Cnodes
    BY <1>0, <1>2 DEF Known, CRecords
  <2>2. /\ d \in CRecords /\ d[x].prev = Null /\ d[x].next = head
        /\ \A y \in Cnodes : d[y].kpn = c[y].kpn /\ d[y].alloc = c[y].alloc
        /\ \A y \in Cnodes \ {x} : d[y].prev = c[y].prev /\ d[y].next = c[y].next
    <3> DEFINE e == SetPrev(c, x, Null)
    <3>1. PrevSet(c, x, Null, e)
      BY <2>1, SetLinks
    <3> HIDE DEF e
    <3>2. e \in CRecords
      BY <3>1 DEF PrevSet
    <3>3. NextSet(e, x, head, d)
      BY <2>1, <3>2, SetLinks DEF e
    <3> HIDE DEF d
    <3> QED
      BY <2>1, <3>1, <3>3 DEF PrevSet, NextSet
  <2>3. c' = IF head = Null THEN d ELSE SetPrev(d, head, x)
    <3>1. c' = [d EXCEPT ![IF head = Null THEN x ELSE head].prev = IF head = Null THEN @ ELSE x]
      BY <1>4 DEF SetPrev, SetNext
    <3> HIDE DEF d
    <3>2. CASE head = Null
      <4>1. c' = [d EXCEPT ![x].prev = @]
        BY <3>1, <3>2
      <4> QED
        BY <2>1, <2>2, <3>2, <4>1 DEF CRecords
    <3>3. CASE head # Null
      BY <3>1, <3>3 DEF SetPrev
    <3> QED
      BY <3>2, <3>3
  <2> HIDE DEF d
  <2> QED
    <3>1. CASE head = Null
      BY <2>1, <2>2, <2>3, <3>1
    <3>2. CASE head # Null
      <4>1. c' = SetPrev(d, head, x) /\ head \in Cnodes
        BY <2>1, <2>3, <3>2
      <4>2. PrevSet(d, head, x, c')
        BY <2>1, <2>2, <4>1, SetLinks
      <4> QED
        BY <1>7, <2>1, <2>2, <4>2 DEF PrevSet
    <3> QED
      BY <3>1, <3>2
<1>9. IsList(Cached \cup {n}, r, kpn, c', x, IF head = Null THEN x ELSE tail)
  <2>1. IsList(Cached, recency, kpn, c, head, tail)
    BY DEF Sorted, Queue
  <2>2. Pushed(Cached, recency, kpn, c, head, n, x, r, c')
    BY <1>2, <1>3, <1>6, <1>8 DEF Pushed
  <2> QED
    BY <2>1, <2>2, PutInFront, Zenon
<1>10. \A u \in Threads : /\ u # t => pc'[u] = pc[u] /\ cn'[u] = cn[u]
                          /\ u = t => pc'[u] = "using" /\ cn'[u] = Null
  BY <1>0, <1>4 DEF Known
<1>11. \A m \in Nodes : InAdd(m) /\ m # n => InAdd(m)'
  BY <1>4, <1>10 DEF InAdd, n
<1>12. Held'
  <2> SUFFICES ASSUME NEW m \in Nodes, kpn[m].cnode # Null
               PROVE  /\ m \in Cached' \/ InAdd(m)'
                      /\ c'[kpn[m].cnode].kpn = m /\ c'[kpn[m].cnode].alloc
    BY <1>4, Zenon DEF Held
  <2>1. kpn[m].cnode \in Cnodes
    BY <1>0 DEF Known
  <2> QED
    BY <1>5, <1>8, <1>11, <2>1, Zenon DEF Sorted, Held
<1>13. Making'
  <2>1. \A y \in Cnodes : ~c'[y].alloc => c'[y].kpn = Null
    BY <1>8 DEF Sorted, Making
  <2>2. ASSUME NEW u \in Threads
        PROVE  /\ pc'[u] = "page" => c'[cn'[u]].kpn = Null /\ c'[cn'[u]].alloc
               /\ pc'[u] = "add" => cn'[u] = kpn'[node'[u]].cnode /\ node'[u] \notin Cached'
    <3>1. CASE u = t
      BY <1>10, <3>1
    <3>2. CASE u # t
      BY <1>0, <1>1, <1>4, <1>5, <1>8, <1>10, <3>2 DEF Known, Sorted, Making
    <3> QED
      BY <3>1, <3>2, Zenon
  <2>3. ASSUME NEW u \in Threads, NEW v \in Threads, u # v, cn'[u] = cn'[v] PROVE cn'[u] = Null
    BY <1>10, <2>3 DEF Sorted, Making
  <2> QED
    BY <2>1, <2>2, <2>3, Zenon DEF Making
<1> QED
  BY <1>4, <1>5, <1>9, <1>12, <1>13 DEF Sorted, Queue

\* removeLast takes the least recently used node out of the list, and the thread
\* keeps its cache node.
LEMMA RemoveLastStep ==
    ASSUME CacheAssumption, Base, Sorted, NEW t \in Threads, removeLast(t), tail # Null
    PROVE  Sorted'
<1>0. Known
  BY SortedFacts
<1> DEFINE p == c[tail].prev
           n == c[tail].kpn
           r == Recent(Null, Cached \ {n})
<1>1. n \in Cached /\ kpn[n].cnode = tail /\ Oldest(Cached, recency, n) /\ tail \in Cnodes
  <2>1. PICK m \in Cached : tail = kpn[m].cnode /\ Oldest(Cached, recency, m)
    BY DEF Sorted, Queue, IsList, TailOK
  <2>2. n = m
    BY <1>0, <2>1 DEF Known, Sorted, Held
  <2> QED
    BY <1>0, <2>1, <2>2 DEF Known
<1>2. c[tail].next = Null
  <2>1. NextOK(Cached, recency, kpn, c[tail].next, n)
    BY <1>1 DEF Sorted, Queue, IsList, Linked
  <2>2. ASSUME NEW m \in Cached, Follows(Cached, recency, n, m) PROVE FALSE
    <3>1. recency[n] \in Nat /\ recency[m] \in Nat
      BY <1>0, <1>1 DEF Known
    <3> QED
      BY <1>1, <2>2, <3>1 DEF Follows, Oldest
  <2> QED
    BY <2>1, <2>2 DEF NextOK
<1>3. /\ cn' = [cn EXCEPT ![t] = tail] /\ tail' = p /\ head' = (IF p = Null THEN Null ELSE head)
      /\ c' = [[c EXCEPT ![IF p = Null THEN tail ELSE p].next = Null]
                  EXCEPT ![tail] = [NoCnode EXCEPT !.alloc = TRUE]]
      /\ pc' = [pc EXCEPT ![t] = "page"] /\ node' = node /\ pc[t] = "evict"
  BY DEF removeLast, Goto
<1>4. n # Null
  BY <1>0, <1>1 DEF Known
<1>5. /\ kpn' = [kpn EXCEPT ![n].page = FALSE, ![n].cnode = Null]
      /\ lru' = (\A m \in Cached : recency[n] <= recency[m]) /\ recency' = r
  BY <1>4 DEF removeLast, Evicted
<1>6. /\ r \in [Nodes -> Nat] /\ SameOrder(Cached \ {n}, recency, r)
      /\ \A m \in Nodes : r[m] > 0 <=> m \in Cached \ {n}
  <2> DEFINE S == Cached \ {n}
  <2>1. S \in SUBSET Nodes /\ recency \in [Nodes -> Nat] /\ S \ {Null} = S /\ Null \notin Nodes
    BY <1>0 DEF Known
  <2>2. r = Recent(Null, S)
    OBVIOUS
  <2> HIDE DEF S, r
  <2>3. /\ r \in [Nodes -> Nat] /\ SameOrder(S \ {Null}, recency, r)
        /\ \A m \in Nodes : r[m] > 0 <=> m = Null \/ m \in S
    BY <2>1, <2>2, RecentFacts, Zenon
  <2>4. /\ SameOrder(S, recency, r) /\ \A m \in Nodes : r[m] > 0 <=> m \in S
    BY <2>1, <2>3, Zenon
  <2> QED
    BY <2>3, <2>4 DEF S
<1>7. p \in Cnodes \cup {Null}
  BY <1>0, <1>1 DEF Known
<1> HIDE DEF r, n, p
<1>8. Cached' = Cached \ {n}
  BY <1>5, <1>6 DEF Cached
<1>9. /\ c'[tail].kpn = Null /\ c'[tail].alloc
      /\ \A y \in Cnodes \ {tail} :
           /\ c'[y].next = IF y = p THEN Null ELSE c[y].next
           /\ c'[y].prev = c[y].prev /\ c'[y].kpn = c[y].kpn /\ c'[y].alloc = c[y].alloc
  <2> DEFINE a == IF p = Null THEN tail ELSE p
             d == SetNext(c, a, Null)
  <2>1. c \in CRecords /\ a \in Cnodes /\ tail \in Cnodes /\ Null \notin Cnodes
    BY <1>0, <1>1, <1>7 DEF Known, CRecords
  <2>2. c' = [d EXCEPT ![tail] = [NoCnode EXCEPT !.alloc = TRUE]]
    BY <1>3 DEF SetNext
  <2>3. NextSet(c, a, Null, d)
    <3> HIDE DEF a
    <3> QED
      BY <2>1, SetLinks
  <2> HIDE DEF d
  <2>4. c'[tail] = [NoCnode EXCEPT !.alloc = TRUE] /\ \A y \in Cnodes \ {tail} : c'[y] = d[y]
    BY <2>1, <2>2, <2>3 DEF NextSet, CRecords
  <2>5. c'[tail].kpn = Null /\ c'[tail].alloc
    BY <2>4 DEF NoCnode
  <2> QED
    BY <2>1, <2>3, <2>4, <2>5 DEF NextSet
<1>10. \A m \in Nodes : kpn'[m].cnode = IF m = n THEN Null ELSE kpn[m].cnode
  <2>1. kpn'[n].cnode = Null
    BY <1>0, <1>1, <1>5 DEF Known
  <2>2. \A m \in Nodes \ {n} : kpn'[m] = kpn[m]
    BY <1>0, <1>5 DEF Known
  <2> QED
    BY <2>1, <2>2
<1>11. IsList(Cached \ {n}, r, kpn', c', IF p = Null THEN Null ELSE head, p)
  <2>1. Unlinked(Cached, recency, kpn, c, n, tail, p, Null, r, kpn', c')
    BY <1>0, <1>1, <1>2, <1>6, <1>9, <1>10 DEF Known, Unlinked, p
  <2>2. IsList(Cached, recency, kpn, c, head, tail)
    BY DEF Sorted, Queue
  <2>3. IsList(Cached \ {n}, r, kpn', c', IF p = Null THEN Null ELSE head,
               IF Null = Null THEN p ELSE tail)
    BY <2>1, <2>2, TakenOut, Zenon
  <2> QED
    BY <2>3
<1>12. \A u \in Threads : /\ u # t => pc'[u] = pc[u] /\ cn'[u] = cn[u]
                          /\ u = t => pc'[u] = "page" /\ cn'[u] = tail
                          /\ pc[u] \in {"page", "add"} <=> cn[u] # Null
                          /\ pc[u] = "idle" <=> node[u] = Null
  BY <1>0, <1>3 DEF Known, Base, ThreadsOK
<1>13. \A u \in Threads : cn[u] # tail
  <2> SUFFICES ASSUME NEW u \in Threads, cn[u] = tail PROVE FALSE
    OBVIOUS
  <2>1. CASE pc[u] = "page"
    BY <1>0, <1>1, <2>1 DEF Known, Sorted, Making, n
  <2>2. CASE pc[u] = "add"
    <3>1. kpn[node[u]].cnode = tail /\ node[u] \notin Cached /\ node[u] \in Nodes
      BY <1>0, <1>12, <2>2 DEF Known, Sorted, Making
    <3> QED
      BY <1>0, <1>1, <3>1 DEF Known
  <2> QED
    BY <1>12, <2>1, <2>2
<1>14. \A m \in Nodes : InAdd(m) => InAdd(m)'
  BY <1>3, <1>12 DEF InAdd
<1>15. Held'
  <2> SUFFICES ASSUME NEW m \in Nodes, kpn'[m].cnode # Null
               PROVE  /\ m \in Cached' \/ InAdd(m)'
                      /\ c'[kpn'[m].cnode].kpn = m /\ c'[kpn'[m].cnode].alloc
    BY Zenon DEF Held
  <2>1. m # n /\ kpn'[m].cnode = kpn[m].cnode /\ kpn[m].cnode \in Cnodes \ {tail}
    BY <1>0, <1>1, <1>10, Zenon DEF Known
  <2> QED
    BY <1>8, <1>9, <1>14, <2>1 DEF Sorted, Held
<1>16. Making'
  <2>1. \A y \in Cnodes : ~c'[y].alloc => c'[y].kpn = Null
    BY <1>9 DEF Sorted, Making
  <2>2. ASSUME NEW u \in Threads
        PROVE  /\ pc'[u] = "page" => c'[cn'[u]].kpn = Null /\ c'[cn'[u]].alloc
               /\ pc'[u] = "add" => cn'[u] = kpn'[node'[u]].cnode /\ node'[u] \notin Cached'
    <3>1. CASE u = t
      BY <1>9, <1>12, <3>1
    <3>2. CASE u # t
      <4>1. pc'[u] = "page" => c'[cn'[u]].kpn = Null /\ c'[cn'[u]].alloc
        BY <1>0, <1>9, <1>12, <1>13, <3>2 DEF Known, Sorted, Making
      <4>2. ASSUME pc'[u] = "add"
            PROVE  cn'[u] = kpn'[node'[u]].cnode /\ node'[u] \notin Cached'
        <5>1. cn[u] = kpn[node[u]].cnode /\ node[u] \notin Cached /\ node[u] \in Nodes
          BY <1>0, <1>12, <3>2, <4>2 DEF Known, Sorted, Making
        <5> QED
          BY <1>1, <1>3, <1>8, <1>10, <1>12, <3>2, <5>1
      <4> QED
        BY <4>1, <4>2
    <3> QED
      BY <3>1, <3>2
  <2>3. ASSUME NEW u \in Threads, NEW v \in Threads, u # v, cn'[u] = cn'[v] PROVE cn'[u] = Null
    BY <1>12, <1>13, <2>3 DEF Sorted, Making
  <2> QED
    BY <2>1, <2>2, <2>3, Zenon DEF Making
<1>17. lru'
  BY <1>1, <1>5 DEF Oldest
<1> QED
  BY <1>3, <1>5, <1>8, <1>11, <1>15, <1>16, <1>17, Zenon DEF Sorted, Queue

\* free takes the node of the thread out of the list, wherever it is.
LEMMA FreeStep ==
    ASSUME CacheAssumption, Base, Sorted, Freeing, NEW t \in Threads, FreeCnode(t)
    PROVE  Sorted'
<1>0. Known
  BY SortedFacts
<1> DEFINE n == node[t]
           x == kpn[n].cnode
           p == c[x].prev
           q == c[x].next
           r == Recent(Null, Cached \ {n})
<1>1. \A u \in Threads : /\ pc[u] \in {"page", "add"} <=> cn[u] # Null
                         /\ pc[u] = "idle" <=> node[u] = Null
                         /\ u # t => node[u] # n
  BY Zenon DEF Base, ThreadsOK, FreeCnode
<1>2. /\ pc[t] = "free" /\ x # Null /\ cn' = cn /\ lru' = lru
      /\ pc' = [pc EXCEPT ![t] = "freed"] /\ node' = node
      /\ head' = (IF p = Null THEN q ELSE head) /\ tail' = (IF q = Null THEN p ELSE tail)
      /\ kpn' = [kpn EXCEPT ![n].cnode = Null] /\ recency' = r
      /\ c' = LET d == [c EXCEPT ![x] = NoCnode]
                  e == IF p = Null THEN d ELSE [d EXCEPT ![p].next = q]
              IN  IF q = Null THEN e ELSE [e EXCEPT ![q].prev = p]
  <2>1. fcn[t] = x /\ fcn[t] # Null
    BY Zenon DEF Base, ThreadsOK, Freeing, FreeCnode
  <2> QED
    BY <2>1, Zenon DEF FreeCnode, Goto
<1>3. n \in Cached /\ x \in Cnodes /\ c[x].kpn = n
  <2>1. n \in Nodes
    BY <1>0, <1>1, <1>2, Zenon DEF Known
  <2>2. ~InAdd(n)
    BY <1>1, <1>2, Zenon DEF InAdd
  <2> QED
    BY <1>0, <1>2, <2>1, <2>2, Zenon DEF Known, Sorted, Held
<1>4. p \in Cnodes \cup {Null} /\ q \in Cnodes \cup {Null}
  BY <1>0, <1>3 DEF Known
<1>5. /\ r \in [Nodes -> Nat] /\ SameOrder(Cached \ {n}, recency, r)
      /\ \A m \in Nodes : r[m] > 0 <=> m \in Cached \ {n}
  <2> DEFINE S == Cached \ {n}
  <2>1. S \in SUBSET Nodes /\ recency \in [Nodes -> Nat] /\ S \ {Null} = S /\ Null \notin Nodes
    BY <1>0 DEF Known
  <2>2. r = Recent(Null, S)
    OBVIOUS
  <2> HIDE DEF S, r
  <2>3. /\ r \in [Nodes -> Nat] /\ SameOrder(S \ {Null}, recency, r)
        /\ \A m \in Nodes : r[m] > 0 <=> m = Null \/ m \in S
    BY <2>1, <2>2, RecentFacts
  <2>4. /\ SameOrder(S, recency, r) /\ \A m \in Nodes : r[m] > 0 <=> m \in S
    BY <2>1, <2>3
  <2> QED
    BY <2>3, <2>4 DEF S
<1>6. x = kpn[n].cnode /\ p = c[x].prev /\ q = c[x].next /\ n = node[t]
  OBVIOUS
<1> HIDE DEF r, n, p, q, x
<1>7. Cached' = Cached \ {n}
  BY <1>2, <1>5 DEF Cached
<1>8. \A m \in Nodes : kpn'[m].cnode = IF m = n THEN Null ELSE kpn[m].cnode
  BY <1>0, <1>2, <1>3 DEF Known
<1>9. /\ c'[x].kpn = Null
      /\ \A y \in Cnodes \ {x} :
           /\ c'[y].prev = IF y = q THEN p ELSE c[y].prev
           /\ c'[y].next = IF y = p THEN q ELSE c[y].next
           /\ c'[y].kpn = c[y].kpn /\ c'[y].alloc = c[y].alloc
  <2> DEFINE d == [c EXCEPT ![x] = NoCnode]
             e == IF p = Null THEN d ELSE SetNext(d, p, q)
  <2>1. /\ c \in CRecords /\ x \in Cnodes /\ Null \notin Cnodes
        /\ p \in Cnodes \cup {Null} /\ q \in Cnodes \cup {Null}
    BY <1>0, <1>3, <1>4 DEF Known, CRecords
  <2>2. c' = IF q = Null THEN e ELSE SetPrev(e, q, p)
    BY <1>2 DEF SetNext, SetPrev
  <2>3. d \in CRecords /\ d[x].kpn = Null /\ \A y \in Cnodes \ {x} : d[y] = c[y]
    BY <2>1 DEF CRecords, NoCnode
  <2> HIDE DEF d
  <2>4. /\ e \in CRecords /\ e[x].kpn = Null
        /\ \A y \in Cnodes \ {x} :
             /\ e[y].prev = c[y].prev /\ e[y].next = IF y = p THEN q ELSE c[y].next
             /\ e[y].kpn = c[y].kpn /\ e[y].alloc = c[y].alloc
    <3>1. CASE p = Null
      BY <2>1, <2>3, <3>1
    <3>2. CASE p # Null
      <4>1. NextSet(d, p, q, e)
        BY <2>1, <2>3, <3>2, SetLinks
      <4> HIDE DEF e
      <4> QED
        BY <2>1, <2>3, <4>1 DEF NextSet
    <3> QED
      BY <3>1, <3>2, Zenon
  <2> HIDE DEF e
  <2>5. CASE q = Null
    BY <2>1, <2>2, <2>4, <2>5
  <2>6. CASE q # Null
    <3>1. PrevSet(e, q, p, c')
      BY <2>1, <2>2, <2>4, <2>6, SetLinks
    <3> QED
      BY <2>1, <2>4, <3>1 DEF PrevSet
  <2> QED
    BY <2>5, <2>6
<1>10. IsList(Cached \ {n}, r, kpn', c', IF p = Null THEN q ELSE head, IF q = Null THEN p ELSE tail)
  <2>1. Unlinked(Cached, recency, kpn, c, n, x, p, q, r, kpn', c')
    BY <1>0, <1>3, <1>5, <1>6, <1>8, <1>9 DEF Known, Unlinked
  <2>2. IsList(Cached, recency, kpn, c, head, tail)
    BY DEF Sorted, Queue
  <2> QED
    BY <2>1, <2>2, TakenOut, Zenon
<1>11. \A u \in Threads : /\ u # t => pc'[u] = pc[u] /\ node'[u] = node[u]
                          /\ u = t => pc'[u] = "freed"
  BY <1>0, <1>2 DEF Known, Labels
<1>12. \A m \in Nodes : InAdd(m) => InAdd(m)'
  BY <1>2, <1>11 DEF InAdd
<1>13. Held'
  <2> SUFFICES ASSUME NEW m \in Nodes, kpn'[m].cnode # Null
               PROVE  /\ m \in Cached' \/ InAdd(m)'
                      /\ c'[kpn'[m].cnode].kpn = m /\ c'[kpn'[m].cnode].alloc
    BY Zenon DEF Held
  <2>1. m # n /\ kpn'[m].cnode = kpn[m].cnode /\ kpn[m].cnode \in Cnodes \ {x}
    BY <1>0, <1>3, <1>6, <1>8 DEF Known
  <2> QED
    BY <1>7, <1>9, <1>12, <2>1 DEF Sorted, Held
<1>14. Making'
  <2>1. \A y \in Cnodes : ~c'[y].alloc => c'[y].kpn = Null
    BY <1>9 DEF Sorted, Making
  <2>2. ASSUME NEW u \in Threads
        PROVE  /\ pc'[u] = "page" => c'[cn'[u]].kpn = Null /\ c'[cn'[u]].alloc
               /\ pc'[u] = "add" => cn'[u] = kpn'[node'[u]].cnode /\ node'[u] \notin Cached'
    <3>1. CASE u = t
      BY <1>11, <3>1, Zenon
    <3>2. CASE u # t
      <4>1. ASSUME pc'[u] = "page" PROVE c'[cn'[u]].kpn = Null /\ c'[cn'[u]].alloc
        <5>1. cn[u] \in Cnodes /\ c[cn[u]].kpn = Null /\ c[cn[u]].alloc
          BY <1>0, <1>1, <1>11, <3>2, <4>1 DEF Known, Sorted, Making
        <5>2. cn[u] # x
          BY <1>0, <1>3, <5>1 DEF Known
        <5>3. cn'[u] = cn[u]
          BY <1>2
        <5> QED
          BY <1>9, <5>1, <5>2, <5>3
      <4>2. ASSUME pc'[u] = "add"
            PROVE  cn'[u] = kpn'[node'[u]].cnode /\ node'[u] \notin Cached'
        <5>1. cn[u] = kpn[node[u]].cnode /\ node[u] \notin Cached /\ node[u] \in Nodes
          BY <1>0, <1>1, <1>11, <3>2, <4>2 DEF Known, Sorted, Making
        <5> QED
          BY <1>2, <1>3, <1>7, <1>8, <1>11, <3>2, <5>1
      <4> QED
        BY <4>1, <4>2
    <3> QED
      BY <3>1, <3>2
  <2>3. \A u, v \in Threads : u # v /\ cn'[u] = cn'[v] => cn'[u] = Null
    BY <1>2 DEF Sorted, Making
  <2> QED
    BY <2>1, <2>2, <2>3 DEF Making
<1> QED
  BY <1>2, <1>7, <1>10, <1>13, <1>14 DEF Sorted, Queue

\* The nodes that are in the list after the order was renewed.
LEMMA Remembered ==
    ASSUME CacheAssumption, Known, NEW n, NEW S \in SUBSET Nodes, recency' = Recent(n, S)
    PROVE  S \subseteq Cached'
<1>1. \A m \in Nodes : Recent(n, S)[m] > 0 <=> m = n \/ m \in S
  BY RecentFacts, Zenon DEF Known
<1> QED
  BY <1>1 DEF Cached

\* touch moves a node from the middle of the list to the front; the first node
\* stays where it is.
LEMMA TouchStep ==
    ASSUME CacheAssumption, Base, Sorted, NEW t \in Threads, NEW n \in Nodes, touch(t, n),
           kpn[n].page, kpn[n].cnode # Null, ~touchedLast'
    PROVE  Sorted'
<1>0. Known
  BY SortedFacts
<1> DEFINE x == kpn[n].cnode
           p == c[x].prev
           q == c[x].next
           r == Recent(n, Cached)
<1>1. \A u \in Threads : /\ pc[u] \in {"page", "add"} <=> cn[u] # Null
                         /\ pc[u] = "idle" <=> node[u] = Null
                         /\ node[u] # n
  BY DEF Base, ThreadsOK, touch
<1>2. /\ pc[t] = "idle" /\ pc' = [pc EXCEPT ![t] = "using"] /\ node' = [node EXCEPT ![t] = n]
      /\ recency' = r
      /\ UNCHANGED <<tail, kpn, cn, lru>>
  BY DEF touch, Goto
<1>3. /\ p = Null => UNCHANGED <<c, head>>
      /\ p # Null => /\ head # Null /\ head' = x /\ touchedLast' = (touchedLast \/ q = Null)
                     /\ c' = [[Touched(x) EXCEPT ![x].prev = Null, ![x].next = head]
                                 EXCEPT ![head].prev = x]
  BY Zenon DEF touch
<1>4. n \in Cached /\ x \in Cnodes
  BY <1>0, <1>1 DEF Known, Sorted, Held, InAdd
<1>5. /\ r \in [Nodes -> Nat] /\ SameOrder(Cached \ {n}, recency, r)
      /\ \A m \in Nodes : r[m] > 0 <=> m \in Cached
      /\ \A m \in Cached \ {n} : r[m] < r[n]
  <2>1. Cached \in SUBSET Nodes /\ recency \in [Nodes -> Nat]
    BY <1>0 DEF Known
  <2> HIDE DEF r
  <2>2. /\ r \in [Nodes -> Nat] /\ SameOrder(Cached \ {n}, recency, r)
        /\ \A m \in Nodes : r[m] > 0 <=> m = n \/ m \in Cached
        /\ \A m \in Cached \ {n} : r[m] < r[n]
    BY <2>1, RecentFacts, Zenon DEF r
  <2> QED
    BY <1>4, <2>2
<1>6. /\ p \in Cnodes \cup {Null} /\ q \in Cnodes \cup {Null}
      /\ x = kpn[n].cnode /\ p = c[x].prev /\ q = c[x].next
  BY <1>0, <1>4 DEF Known
<1>7. PrevOK(Cached, recency, kpn, p, n) /\ IsList(Cached, recency, kpn, c, head, tail)
  BY <1>4, Zenon DEF Sorted, Queue, IsList, Linked
<1> HIDE DEF r, x, p, q
<1>8. Cached' = Cached
  BY <1>2, <1>5 DEF Cached
<1>9. /\ \A y \in Cnodes : c'[y].kpn = c[y].kpn /\ c'[y].alloc = c[y].alloc
      /\ IsList(Cached, r, kpn, c', head', tail)
  <2>1. CASE p = Null
    <3>1. Newest(Cached, recency, n)
      BY <1>0, <1>7, <2>1 DEF Known, PrevOK
    <3>2. \A m \in Cached \ {n} : recency[m] < recency[n]
      <4> SUFFICES ASSUME NEW m \in Cached \ {n} PROVE recency[m] < recency[n]
        OBVIOUS
      <4>1. recency[m] \in Nat /\ recency[n] \in Nat /\ recency[m] # recency[n]
        BY <1>4, <1>7 DEF IsList, Ordered
      <4>2. recency[m] <= recency[n]
        BY <3>1 DEF Newest
      <4> QED
        BY <4>1, <4>2
    <3>3. SameOrder(Cached, recency, r)
      <4>1. \A m \in Cached : recency[m] \in Nat /\ r[m] \in Nat
        BY <1>0, <1>5 DEF Known
      <4> QED
        BY <1>4, <1>5, <3>2, <4>1 DEF SameOrder
    <3>4. c' = c /\ head' = head
      BY <1>3, <2>1
    <3>5. IsList(Cached, r, kpn, c, head, tail)
      BY <1>5, <1>7, <3>3, SameList
    <3> QED
      BY <3>4, <3>5
  <2>2. CASE p # Null
    <3>1. q # Null
      BY <1>3, <2>2, Zenon
    <3>2. head # x
      <4>1. PICK f \in Cached : head = kpn[f].cnode /\ Newest(Cached, recency, f)
        BY <1>3, <1>4, <1>7, <2>2 DEF IsList, HeadOK
      <4>2. PICK m \in Cached : Follows(Cached, recency, m, n)
        BY <1>7, <2>2, Zenon DEF PrevOK
      <4>3. recency[f] \in Nat /\ recency[m] \in Nat /\ recency[n] \in Nat
        BY <1>0, <1>4 DEF Known
      <4>4. f # n
        BY <4>1, <4>2, <4>3 DEF Newest, Follows
      <4> QED
        BY <1>0, <1>4, <1>6, <4>1, <4>4 DEF Known
    <3>3. /\ c \in CRecords /\ x \in Cnodes /\ p \in Cnodes /\ q \in Cnodes /\ head \in Cnodes
          /\ Null \notin Cnodes
      BY <1>0, <1>3, <1>4, <1>6, <2>2, <3>1 DEF Known, CRecords
    <3> DEFINE d1 == SetNext(c, p, q)
               d2 == SetPrev(d1, q, p)
               d3 == SetPrev(d2, x, Null)
               d4 == SetNext(d3, x, head)
    <3>4. c' = SetPrev(d4, head, x)
      <4>1. Touched(x) = d2
        BY <1>6, <3>1 DEF Touched, SetNext, SetPrev
      <4>2. c' = [[d2 EXCEPT ![x].prev = Null, ![x].next = head] EXCEPT ![head].prev = x]
        BY <1>3, <2>2, <4>1
      <4> HIDE DEF d2
      <4> QED
        BY <4>2 DEF SetNext, SetPrev
    <3>5. NextSet(c, p, q, d1)
      BY <3>3, SetLinks
    <3> HIDE DEF d1
    <3>6. d1 \in CRecords
      BY <3>5 DEF NextSet
    <3>7. PrevSet(d1, q, p, d2)
      BY <3>3, <3>6, SetLinks
    <3> HIDE DEF d2
    <3>8. d2 \in CRecords
      BY <3>7 DEF PrevSet
    <3>9. PrevSet(d2, x, Null, d3)
      BY <3>3, <3>8, SetLinks
    <3> HIDE DEF d3
    <3>10. d3 \in CRecords
      BY <3>9 DEF PrevSet
    <3>11. NextSet(d3, x, head, d4)
      BY <3>3, <3>10, SetLinks
    <3> HIDE DEF d4
    <3>12. d4 \in CRecords
      BY <3>11 DEF NextSet
    <3>13. PrevSet(d4, head, x, c')
      BY <3>3, <3>4, <3>12, SetLinks
    <3>14. /\ \A y \in Cnodes : c'[y].kpn = c[y].kpn /\ c'[y].alloc = c[y].alloc
           /\ c'[x].prev = Null /\ c'[x].next = head
           /\ \A y \in Cnodes \ {x} :
                /\ c'[y].prev = IF y = head THEN x ELSE IF y = q THEN p ELSE c[y].prev
                /\ c'[y].next = IF y = p THEN q ELSE c[y].next
      <4>1. ASSUME NEW y \in Cnodes
            PROVE  /\ c'[y].prev = IF y = head THEN x ELSE d4[y].prev
                   /\ c'[y].next = d4[y].next
                   /\ c'[y].kpn = d4[y].kpn /\ c'[y].alloc = d4[y].alloc
        BY <3>13, Zenon DEF PrevSet
      <4>2. ASSUME NEW y \in Cnodes
            PROVE  /\ d4[y].next = IF y = x THEN head ELSE d3[y].next
                   /\ d4[y].prev = d3[y].prev
                   /\ d4[y].kpn = d3[y].kpn /\ d4[y].alloc = d3[y].alloc
        BY <3>11, Zenon DEF NextSet
      <4>3. ASSUME NEW y \in Cnodes
            PROVE  /\ d3[y].prev = IF y = x THEN Null ELSE d2[y].prev
                   /\ d3[y].next = d2[y].next
                   /\ d3[y].kpn = d2[y].kpn /\ d3[y].alloc = d2[y].alloc
        BY <3>9, Zenon DEF PrevSet
      <4>4. ASSUME NEW y \in Cnodes
            PROVE  /\ d2[y].prev = IF y = q THEN p ELSE c[y].prev
                   /\ d2[y].next = IF y = p THEN q ELSE c[y].next
                   /\ d2[y].kpn = c[y].kpn /\ d2[y].alloc = c[y].alloc
        <5>1. /\ d2[y].prev = IF y = q THEN p ELSE d1[y].prev
              /\ d2[y].next = d1[y].next
              /\ d2[y].kpn = d1[y].kpn /\ d2[y].alloc = d1[y].alloc
          BY <3>7, Zenon DEF PrevSet
        <5>2. /\ d1[y].next = IF y = p THEN q ELSE c[y].next
              /\ d1[y].prev = c[y].prev
              /\ d1[y].kpn = c[y].kpn /\ d1[y].alloc = c[y].alloc
          BY <3>5, Zenon DEF NextSet
        <5> QED
          BY <5>1, <5>2
      <4>5. \A y \in Cnodes : c'[y].kpn = c[y].kpn /\ c'[y].alloc = c[y].alloc
        BY <4>1, <4>2, <4>3, <4>4
      <4>6. c'[x].prev = Null /\ c'[x].next = head
        BY <3>2, <3>3, <4>1, <4>2, <4>3
      <4>7. ASSUME NEW y \in Cnodes \ {x}
            PROVE  /\ c'[y].prev = IF y = head THEN x ELSE IF y = q THEN p ELSE c[y].prev
                   /\ c'[y].next = IF y = p THEN q ELSE c[y].next
        BY <4>1, <4>2, <4>3, <4>4
      <4> QED
        BY <4>5, <4>6, <4>7, Zenon
    <3>15. Moved(Cached, recency, kpn, c, head, n, x, p, q, r, c')
      BY <1>4, <1>5, <1>6, <2>2, <3>1, <3>14, Zenon DEF Moved
    <3>16. IsList(Cached, r, kpn, c', x, tail)
      BY <1>7, <3>15, MovedToFront, Zenon
    <3> QED
      BY <1>3, <2>2, <3>14, <3>16
  <2> QED
    BY <2>1, <2>2, Zenon
<1>10. \A u \in Threads : /\ u # t => pc'[u] = pc[u] /\ node'[u] = node[u]
                          /\ u = t => pc'[u] = "using"
  BY <1>0, <1>2 DEF Known, Labels
<1>11. \A m \in Nodes : InAdd(m) => InAdd(m)'
  BY <1>2, <1>10 DEF InAdd
<1>12. Held'
  <2> SUFFICES ASSUME NEW m \in Nodes, kpn[m].cnode # Null
               PROVE  /\ m \in Cached' \/ InAdd(m)'
                      /\ c'[kpn[m].cnode].kpn = m /\ c'[kpn[m].cnode].alloc
    BY <1>2, Zenon DEF Held
  <2>1. kpn[m].cnode \in Cnodes
    BY <1>0 DEF Known
  <2> QED
    BY <1>8, <1>9, <1>11, <2>1, Zenon DEF Sorted, Held
<1>13. Making'
  <2>1. \A y \in Cnodes : ~c'[y].alloc => c'[y].kpn = Null
    BY <1>9, Zenon DEF Sorted, Making
  <2>2. ASSUME NEW u \in Threads
        PROVE  /\ pc'[u] = "page" => c'[cn'[u]].kpn = Null /\ c'[cn'[u]].alloc
               /\ pc'[u] = "add" => cn'[u] = kpn'[node'[u]].cnode /\ node'[u] \notin Cached'
    <3>1. CASE u = t
      BY <1>10, <3>1, Zenon
    <3>2. CASE u # t
      <4>1. pc'[u] = pc[u] /\ node'[u] = node[u] /\ cn'[u] = cn[u] /\ kpn' = kpn
        BY <1>2, <1>10, <3>2, Zenon
      <4>2. ASSUME pc[u] = "page" PROVE c'[cn'[u]].kpn = Null /\ c'[cn'[u]].alloc
        <5>1. cn[u] \in Cnodes /\ c[cn[u]].kpn = Null /\ c[cn[u]].alloc
          <6>1. cn[u] \in Cnodes
            BY <1>0, <1>1, <4>2 DEF Known
          <6> QED
            BY <4>2, <6>1, Zenon DEF Sorted, Making
        <5> QED
          BY <1>9, <4>1, <5>1, Zenon
      <4>3. ASSUME pc[u] = "add" PROVE cn'[u] = kpn'[node'[u]].cnode /\ node'[u] \notin Cached'
        <5>1. cn[u] = kpn[node[u]].cnode /\ node[u] \notin Cached
          BY <4>3, Zenon DEF Sorted, Making
        <5> QED
          BY <1>8, <4>1, <5>1
      <4> QED
        BY <4>1, <4>2, <4>3, Zenon
    <3> QED
      BY <3>1, <3>2, Zenon
  <2>3. \A u, v \in Threads : u # v /\ cn'[u] = cn'[v] => cn'[u] = Null
    BY <1>2 DEF Sorted, Making
  <2> QED
    BY <2>1, <2>2, <2>3, Zenon DEF Making
<1> QED
  BY <1>2, <1>8, <1>9, <1>12, <1>13 DEF Sorted, Queue

\* Until the list is upset, every action keeps it in order.
LEMMA SortedStep ==
    ASSUME CacheAssumption, Base, Sorted, Freeing, CacheNext, ~touchedLast'
    PROVE  Sorted'
<1>1. PICK t \in Threads :
        \/ \E n \in Nodes : touch(t, n) \/ miss(t, n)
        \/ getCacheNode(t) \/ callocFails(t) \/ removeLast(t)
        \/ getPage(t) \/ getPageFails(t)
        \/ add(t) \/ Done(t)
        \/ Free(t) \/ FreeCnode(t) \/ FreePage(t) \/ FreeEvicted(t)
  BY DEF CacheNext
<1>2. Known
  BY SortedFacts
<1>3. \A u \in Threads : /\ pc[u] \in {"page", "add"} <=> cn[u] # Null
                         /\ pc[u] = "idle" <=> node[u] = Null
  BY DEF Base, ThreadsOK
<1>4. node = [node EXCEPT ![t] = node[t]] /\ cn = [cn EXCEPT ![t] = cn[t]]
  BY <1>2 DEF Known
<1>5. ASSUME NEW n \in Nodes, touch(t, n) PROVE Sorted'
  <2>1. CASE kpn[n].page /\ kpn[n].cnode # Null
    BY <1>5, <2>1, TouchStep
  <2>2. CASE ~(kpn[n].page /\ kpn[n].cnode # Null)
    <3>1. /\ pc[t] = "idle" /\ pc' = [pc EXCEPT ![t] = "node"] /\ node' = [node EXCEPT ![t] = n]
          /\ UNCHANGED <<head, tail, c, recency, lru, kpn, cn>>
      BY <1>5, <2>2 DEF touch, Goto
    <3>2. cn' = [cn EXCEPT ![t] = Null]
      BY <1>3, <1>4, <3>1
    <3> QED
      BY <3>1, <3>2, StepAside, Zenon DEF Labels
  <2> QED
    BY <2>1, <2>2
<1>6. ASSUME NEW n \in Nodes, miss(t, n) PROVE Sorted'
  <2>1. /\ pc[t] = "idle" /\ pc' = [pc EXCEPT ![t] = "node"] /\ node' = [node EXCEPT ![t] = n]
        /\ UNCHANGED <<head, tail, c, recency, lru, kpn, cn>>
    BY <1>6 DEF miss, Goto, list, ghosts
  <2>2. cn' = [cn EXCEPT ![t] = Null]
    BY <1>3, <1>4, <2>1
  <2> QED
    BY <2>1, <2>2, StepAside, Zenon DEF Labels
<1>7. CASE getCacheNode(t)
  <2>1. CASE num >= max
    <3>1. /\ pc[t] = "node" /\ pc' = [pc EXCEPT ![t] = "evict"]
          /\ UNCHANGED <<head, tail, c, recency, lru, kpn, cn, node>>
      BY <1>7, <2>1 DEF getCacheNode, Goto, ghosts
    <3>2. cn' = [cn EXCEPT ![t] = Null] /\ node' = [node EXCEPT ![t] = node[t]]
      BY <1>3, <1>4, <3>1
    <3> QED
      BY <3>1, <3>2, StepAside, Zenon DEF Labels
  <2>2. CASE ~(num >= max)
    <3>1. PICK x \in Cnodes : /\ ~c[x].alloc /\ c' = [c EXCEPT ![x].alloc = TRUE]
                              /\ cn' = [cn EXCEPT ![t] = x]
      BY <1>7, <2>2, Zenon DEF getCacheNode
    <3>2. /\ pc[t] = "node" /\ pc' = [pc EXCEPT ![t] = "page"]
          /\ UNCHANGED <<head, tail, kpn, node, recency, lru>>
      BY <1>7, <2>2 DEF getCacheNode, Goto, ghosts
    <3> QED
      BY <3>1, <3>2, AllocStep, Zenon
  <2> QED
    BY <2>1, <2>2
<1>8. CASE callocFails(t)
  <2>1. /\ pc[t] = "node" /\ pc' = [pc EXCEPT ![t] = "idle"] /\ node' = [node EXCEPT ![t] = Null]
        /\ cn' = [cn EXCEPT ![t] = Null]
        /\ UNCHANGED <<head, tail, c, recency, lru, kpn>>
    BY <1>8 DEF callocFails, Refuse, Goto, list, ghosts
  <2> QED
    BY <2>1, StepAside, Zenon DEF Labels
<1>9. CASE removeLast(t)
  <2>1. CASE tail = Null
    <3>1. /\ pc[t] = "evict" /\ pc' = [pc EXCEPT ![t] = "idle"] /\ node' = [node EXCEPT ![t] = Null]
          /\ cn' = [cn EXCEPT ![t] = Null]
          /\ UNCHANGED <<head, tail, c, recency, lru, kpn>>
      BY <1>9, <2>1 DEF removeLast, Refuse, Goto, list, ghosts
    <3> QED
      BY <3>1, StepAside, Zenon DEF Labels
  <2>2. CASE tail # Null
    BY <1>9, <2>2, RemoveLastStep
  <2> QED
    BY <2>1, <2>2
<1>10. CASE getPage(t)
  <2>1. CASE freePages = 0
    BY <1>10, <2>1, GiveUpStep DEF getPage, ghosts
  <2>2. CASE freePages # 0
    BY <1>10, <2>2, PageStep DEF getPage, Goto, ghosts
  <2> QED
    BY <2>1, <2>2
<1>11. CASE getPageFails(t)
  BY <1>11, GiveUpStep, Zenon DEF getPageFails, ghosts
<1>12. CASE Done(t)
  <2>1. /\ pc[t] = "using" /\ pc' = [pc EXCEPT ![t] = "idle"] /\ node' = [node EXCEPT ![t] = Null]
        /\ UNCHANGED <<head, tail, c, recency, lru, kpn, cn>>
    BY <1>12 DEF Done, Goto, list, ghosts
  <2>2. cn' = [cn EXCEPT ![t] = Null]
    BY <1>3, <1>4, <2>1
  <2> QED
    BY <2>1, <2>2, StepAside, Zenon DEF Labels
<1>13. CASE FreeEvicted(t) \/ FreePage(t)
  <2>1. /\ pc[t] \in {"using", "freed"} /\ pc' = [pc EXCEPT ![t] = "idle"]
        /\ node' = [node EXCEPT ![t] = Null]
        /\ UNCHANGED <<head, tail, c, recency, lru, cn>>
        /\ kpn' = [kpn EXCEPT ![node[t]] = NoNode] /\ kpn[node[t]].cnode = Null
    BY <1>13 DEF FreeEvicted, FreePage, Goto, list, ghosts, Base, ThreadsOK
  <2>2. cn' = [cn EXCEPT ![t] = Null]
    BY <1>3, <1>4, <2>1
  <2>3. \A n \in Nodes : kpn'[n].cnode = kpn[n].cnode
    BY <1>2, <2>1 DEF Known, NoNode
  <2> QED
    BY <2>1, <2>2, <2>3, StepAside, Zenon DEF Labels
<1>14. CASE Free(t)
  <2>1. /\ pc[t] = "using" /\ pc' = [pc EXCEPT ![t] = "free"]
        /\ UNCHANGED <<head, tail, c, recency, lru, kpn, cn, node>>
    BY <1>14 DEF Free, Goto, list, ghosts
  <2>2. cn' = [cn EXCEPT ![t] = Null] /\ node' = [node EXCEPT ![t] = node[t]]
    BY <1>3, <1>4, <2>1
  <2> QED
    BY <2>1, <2>2, StepAside, Zenon DEF Labels
<1> QED
  BY <1>1, <1>5, <1>6, <1>7, <1>8, <1>9, <1>10, <1>11, <1>12, <1>13, <1>14, AddStep, FreeStep, Zenon

\* The cache node that free() read stays the one of its node, as long as no
\* thread evicts it: what other threads do leaves the node alone.
LEMMA FreeingKept ==
    ASSUME Base, Freeing, NEW t \in Threads, NEW a, a # "free", NEW m,
           pc' = [pc EXCEPT ![t] = a], node' = [node EXCEPT ![t] = m],
           \A u \in Threads \ {t} : fcn'[u] = fcn[u],
           \A u \in Threads \ {t} : pc[u] = "free" =>
             kpn'[node[u]].cnode = kpn[node[u]].cnode /\ node[u] \in Cached'
    PROVE  Freeing'
<1> SUFFICES ASSUME NEW u \in Threads, pc'[u] = "free"
             PROVE  fcn'[u] = kpn'[node'[u]].cnode /\ node'[u] \in Cached'
  BY DEF Freeing
<1>1. u # t /\ pc[u] = "free" /\ node'[u] = node[u]
  BY DEF Base, CacheTypeOK
<1> QED
  BY <1>1 DEF Freeing

\* Until the list is upset, every action keeps Freeing.
LEMMA FreeingStep ==
    ASSUME CacheAssumption, Base, Sorted, Freeing, CacheNext, ~raced'
    PROVE  Freeing'
<1>1. PICK t \in Threads :
        \/ \E n \in Nodes : touch(t, n) \/ miss(t, n)
        \/ getCacheNode(t) \/ callocFails(t) \/ removeLast(t)
        \/ getPage(t) \/ getPageFails(t)
        \/ add(t) \/ Done(t)
        \/ Free(t) \/ FreeCnode(t) \/ FreePage(t) \/ FreeEvicted(t)
  BY DEF CacheNext
<1>2. Known
  BY SortedFacts
<1>3. /\ node = [node EXCEPT ![t] = node[t]]
      /\ \A u \in Threads : pc[u] = "free" => node[u] \in Cached /\ fcn[u] = kpn[node[u]].cnode
      /\ \A u \in Threads \ {t} : node[u] = node[t] => node[u] = Null
      /\ \A u \in Threads : pc[u] = "idle" <=> node[u] = Null
  BY <1>2 DEF Known, Freeing, Base, ThreadsOK
<1>4. ASSUME NEW a, a # "free", NEW m, pc' = [pc EXCEPT ![t] = a], node' = [node EXCEPT ![t] = m],
             UNCHANGED <<fcn, kpn>>, Cached \subseteq Cached'
      PROVE  Freeing'
  BY <1>3, <1>4, FreeingKept, Zenon
<1>5. ASSUME NEW a, a # "free", NEW m, pc' = [pc EXCEPT ![t] = a], node' = [node EXCEPT ![t] = m],
             UNCHANGED fcn, Cached \subseteq Cached', node[t] \in Nodes,
             \A n \in Nodes \ {node[t]} : kpn'[n].cnode = kpn[n].cnode
      PROVE  Freeing'
  <2>1. \A u \in Threads \ {t} : pc[u] = "free" =>
          kpn'[node[u]].cnode = kpn[node[u]].cnode /\ node[u] \in Cached'
    BY <1>2, <1>3, <1>5 DEF Known
  <2> QED
    BY <1>5, <2>1, FreeingKept, Zenon
<1>6. ASSUME NEW n \in Nodes, touch(t, n) PROVE Freeing'
  <2>1. PICK a : a # "free" /\ pc' = [pc EXCEPT ![t] = a]
    BY <1>6, Zenon DEF touch, Goto
  <2>2. node' = [node EXCEPT ![t] = n] /\ UNCHANGED <<fcn, kpn>>
    BY <1>6, Zenon DEF touch
  <2>3. Cached \subseteq Cached'
    <3>1. CASE recency' = recency
      BY <3>1 DEF Cached
    <3>2. CASE recency' = Recent(n, Cached)
      BY <1>2, <3>2, Remembered DEF Known
    <3> QED
      BY <1>6, <3>1, <3>2, Zenon DEF touch
  <2> QED
    BY <1>4, <2>1, <2>2, <2>3, Zenon
<1>7. CASE \/ \E n \in Nodes : miss(t, n)
           \/ getCacheNode(t) \/ callocFails(t) \/ getPageFails(t) \/ Done(t)
           \/ removeLast(t) /\ tail = Null
           \/ getPage(t) /\ freePages = 0
  <2>1. UNCHANGED <<fcn, kpn, recency>>
    BY <1>7, Zenon DEF miss, getCacheNode, callocFails, getPageFails, Done, removeLast, getPage, list, ghosts
  <2>2. \E a, m : a # "free" /\ pc' = [pc EXCEPT ![t] = a] /\ node' = [node EXCEPT ![t] = m]
    <3>1. ASSUME NEW n \in Nodes, miss(t, n) PROVE <2>2
      BY <3>1, Zenon DEF miss, Goto
    <3>2. CASE getCacheNode(t)
      BY <1>3, <3>2, Zenon DEF getCacheNode, Goto
    <3>3. CASE callocFails(t) \/ getPageFails(t) \/ Done(t) \/ (removeLast(t) /\ tail = Null)
               \/ (getPage(t) /\ freePages = 0)
      <4>1. pc' = [pc EXCEPT ![t] = "idle"] /\ node' = [node EXCEPT ![t] = Null]
        BY <3>3, Zenon DEF callocFails, getPageFails, Done, removeLast, getPage, Refuse, Goto
      <4> QED
        BY <4>1, Zenon
    <3> QED
      BY <1>7, <3>1, <3>2, <3>3, Zenon
  <2>3. Cached \subseteq Cached'
    BY <2>1 DEF Cached
  <2> QED
    BY <1>4, <2>1, <2>2, <2>3, Zenon
<1>8. CASE removeLast(t) /\ tail # Null
  <2>1. PICK n \in Cached : tail = kpn[n].cnode
    BY <1>8 DEF Sorted, Queue, IsList, TailOK
  <2>2. c[tail].kpn = n /\ n \in Nodes /\ n # Null
    BY <1>2, <1>8, <2>1 DEF Known, Sorted, Held
  <2>3. /\ kpn' = [kpn EXCEPT ![n].page = FALSE, ![n].cnode = Null]
        /\ recency' = Recent(Null, Cached \ {n})
        /\ pc' = [pc EXCEPT ![t] = "page"] /\ node' = node /\ fcn' = fcn
        /\ raced' = (raced \/ \E u \in Threads : pc[u] = "free" /\ fcn[u] = tail)
    BY <1>8, <2>2, Zenon DEF removeLast, Evicted, Goto
  <2>4. \A u \in Threads : pc[u] = "free" => fcn[u] # tail
    BY <2>3, Zenon
  <2>5. \A u \in Threads : pc[u] = "free" => node[u] \in Cached \ {n}
    BY <1>3, <2>1, <2>4
  <2>6. Cached \ {n} \subseteq Cached'
    BY <1>2, <2>3, Remembered DEF Known
  <2>7. \A u \in Threads \ {t} : pc[u] = "free" =>
          kpn'[node[u]].cnode = kpn[node[u]].cnode /\ node[u] \in Cached'
    BY <1>2, <2>3, <2>5, <2>6 DEF Known
  <2>8. node' = [node EXCEPT ![t] = node[t]]
    BY <1>3, <2>3
  <2> QED
    BY <2>3, <2>7, <2>8, FreeingKept, Zenon
<1>9. CASE getPage(t) /\ freePages # 0
  <2>1. /\ kpn' = [kpn EXCEPT ![node[t]] = [exists |-> TRUE, page |-> TRUE, cnode |-> cn[t]]]
        /\ pc[t] = "page" /\ pc' = [pc EXCEPT ![t] = "add"] /\ UNCHANGED <<fcn, recency, node>>
    BY <1>9 DEF getPage, Goto, ghosts
  <2>2. node[t] \in Nodes /\ Cached' = Cached
    BY <1>2, <1>3, <2>1 DEF Known, Cached
  <2>3. \A n \in Nodes \ {node[t]} : kpn'[n].cnode = kpn[n].cnode
    BY <1>2, <2>1 DEF Known
  <2> QED
    BY <1>3, <1>5, <2>1, <2>2, <2>3, Zenon
<1>10. CASE add(t)
  <2>1. /\ pc' = [pc EXCEPT ![t] = "using"] /\ UNCHANGED <<fcn, kpn, node>>
        /\ recency' = Recent(node[t], Cached \cup {node[t]}) /\ pc[t] = "add"
    BY <1>10 DEF add, Goto
  <2>2. node[t] \in Nodes
    BY <1>2, <1>3, <2>1 DEF Known
  <2>3. Cached \subseteq Cached'
    BY <1>2, <2>1, <2>2, Remembered DEF Known
  <2> QED
    BY <1>3, <1>4, <2>1, <2>3, Zenon
<1>11. CASE Free(t)
  <2>1. /\ pc[t] = "using" /\ pc' = [pc EXCEPT ![t] = "free"] /\ kpn[node[t]].cnode # Null
        /\ fcn' = [fcn EXCEPT ![t] = kpn[node[t]].cnode] /\ UNCHANGED <<kpn, node, recency>>
    BY <1>11 DEF Free, Goto, ghosts
  <2>2. node[t] \in Nodes /\ Cached' = Cached /\ fcn \in [Threads -> Cnodes \cup {Null}]
    BY <1>2, <1>3, <2>1 DEF Known, Cached, Base, CacheTypeOK
  <2>3. node[t] \in Cached
    <3>1. ~InAdd(node[t])
      BY <1>2, <1>3, <2>1, <2>2 DEF InAdd, Known
    <3> QED
      BY <2>1, <2>2, <3>1 DEF Sorted, Held
  <2> QED
    BY <1>2, <1>3, <2>1, <2>2, <2>3 DEF Freeing, Known
<1>12. CASE FreeCnode(t)
  <2>1. /\ pc[t] = "free" /\ pc' = [pc EXCEPT ![t] = "freed"] /\ node' = node
        /\ kpn' = [kpn EXCEPT ![node[t]].cnode = Null] /\ fcn' = [fcn EXCEPT ![t] = Null]
        /\ recency' = Recent(Null, Cached \ {node[t]})
    BY <1>12, Zenon DEF FreeCnode, Goto
  <2>2. Cached \ {node[t]} \subseteq Cached' /\ node[t] \in Nodes
    BY <1>2, <1>3, <2>1, Remembered, Zenon DEF Known
  <2>3. \A u \in Threads \ {t} : pc[u] = "free" =>
          kpn'[node[u]].cnode = kpn[node[u]].cnode /\ node[u] \in Cached'
    <3> SUFFICES ASSUME NEW u \in Threads \ {t}, pc[u] = "free"
                 PROVE  kpn'[node[u]].cnode = kpn[node[u]].cnode /\ node[u] \in Cached'
      OBVIOUS
    <3>1. node[u] \in Cached \ {node[t]} /\ node[u] \in Nodes
      BY <1>2, <1>3 DEF Known
    <3> QED
      BY <1>2, <2>1, <2>2, <3>1 DEF Known
  <2>4. \A u \in Threads \ {t} : fcn'[u] = fcn[u]
    BY <2>1 DEF Base, CacheTypeOK
  <2> QED
    BY <1>3, <2>1, <2>3, <2>4, FreeingKept, Zenon
<1>13. CASE FreePage(t) \/ FreeEvicted(t)
  <2>1. /\ pc' = [pc EXCEPT ![t] = "idle"] /\ node' = [node EXCEPT ![t] = Null]
        /\ kpn' = [kpn EXCEPT ![node[t]] = NoNode] /\ UNCHANGED <<fcn, recency>>
        /\ pc[t] \in {"using", "freed"}
    BY <1>13 DEF FreePage, FreeEvicted, Goto, ghosts
  <2>2. node[t] \in Nodes /\ Cached' = Cached
    BY <1>2, <1>3, <2>1 DEF Known, Cached
  <2>3. \A n \in Nodes \ {node[t]} : kpn'[n].cnode = kpn[n].cnode
    BY <1>2, <2>1 DEF Known
  <2> QED
    BY <1>5, <2>1, <2>2, <2>3, Zenon
<1> QED
  BY <1>1, <1>6, <1>7, <1>8, <1>9, <1>10, <1>11, <1>12, <1>13, Zenon

-----------------------------------------------------------------------------

\* The cache as a whole: its pages add up to the pool, nodes and cache nodes
\* point at each other, no thread holds a freed cache node, and what is evicted is
\* the least recently used, until the list is upset.

\* LRUCache keeps CacheSound, whatever the threads, the nodes and the pool.
THEOREM CacheIsSound == CacheAssumption => (CacheSpec => []CacheSound)
<1> SUFFICES ASSUME CacheAssumption PROVE CacheSpec => []CacheSound
  OBVIOUS
<1>1. CacheInit => CacheInv
  <2> SUFFICES ASSUME CacheInit PROVE CacheInv
    OBVIOUS
  <2> USE DEF CacheInit
  <2>1. CacheTypeOK /\ pc \in [Threads -> Labels] /\ recency \in [Nodes -> Nat]
    <3>1. /\ NoCnode \in [alloc : BOOLEAN, kpn : Nodes \cup {Null},
                         prev : Cnodes \cup {Null}, next : Cnodes \cup {Null}]
          /\ NoNode \in [exists : BOOLEAN, page : BOOLEAN, cnode : Cnodes \cup {Null}]
      BY DEF NoCnode, NoNode
    <3>2. num \in Int /\ freePages \in 0 .. max
      BY DEF CacheAssumption
    <3> QED
      BY <3>1, <3>2, Zenon DEF CacheTypeOK, Labels
  <2>2. {n \in Nodes : kpn[n].page} = {}
    BY DEF NoNode
  <2>3. PagesConserved
    BY <2>2, FS_EmptySet DEF PagesConserved, CacheAssumption
  <2>4. Paged /\ ThreadsOK
    BY DEF Paged, ThreadsOK, NoNode
  <2>5. Cached = {}
    BY DEF Cached
  <2>6. Held /\ Making /\ Freeing
    BY <2>5 DEF Held, Making, Freeing, NoNode, NoCnode
  <2>7. Queue
    <3>1. IsList({}, recency, kpn, c, head, tail)
      BY <2>1 DEF IsList, Ordered, HeadOK, TailOK, Linked
    <3> QED
      BY <2>5, <3>1 DEF Queue
  <2> QED
    BY <2>1, <2>3, <2>4, <2>6, <2>7 DEF CacheInv, Base, Sorted
<1>2. CacheInv /\ [CacheNext]_cacheVars => CacheInv'
  <2> SUFFICES ASSUME CacheInv, [CacheNext]_cacheVars PROVE CacheInv'
    OBVIOUS
  <2>1. CASE CacheNext
    <3>1. Base'
      BY <2>1, BaseStep DEF CacheInv
    <3>2. ASSUME ~Upset' PROVE Sorted' /\ Freeing'
      <4>0. ~touchedLast' /\ ~raced'
        BY <3>2 DEF Upset
      <4>1. ASSUME NEW t \in Threads, NEW n \in Nodes, touch(t, n) PROVE ~touchedLast /\ ~raced
        <5>1. /\ \/ touchedLast' = touchedLast
                 \/ touchedLast' = (touchedLast \/ c[kpn[n].cnode].next = Null)
              /\ raced' = raced
          BY <4>1, Zenon DEF touch
        <5>2. touchedLast \in BOOLEAN /\ raced \in BOOLEAN
          BY DEF CacheInv, Base, CacheTypeOK
        <5> QED
          BY <4>0, <5>1, <5>2
      <4>2. ASSUME NEW t \in Threads, removeLast(t) PROVE ~touchedLast /\ ~raced
        <5>1. /\ touchedLast' = touchedLast
              /\ \/ raced' = raced
                 \/ raced' = (raced \/ \E u \in Threads : pc[u] = "free" /\ fcn[u] = tail)
          BY <4>2, Zenon DEF removeLast, ghosts
        <5>2. touchedLast \in BOOLEAN /\ raced \in BOOLEAN
          BY DEF CacheInv, Base, CacheTypeOK
        <5> QED
          BY <4>0, <5>1, <5>2
      <4>3. \/ \E t \in Threads : removeLast(t) \/ \E n \in Nodes : touch(t, n)
            \/ touchedLast' = touchedLast /\ raced' = raced
        <5>1. PICK t \in Threads :
                \/ \E n \in Nodes : touch(t, n) \/ miss(t, n)
                \/ getCacheNode(t) \/ callocFails(t) \/ removeLast(t)
                \/ getPage(t) \/ getPageFails(t)
                \/ add(t) \/ Done(t)
                \/ Free(t) \/ FreeCnode(t) \/ FreePage(t) \/ FreeEvicted(t)
          BY <2>1 DEF CacheNext
        <5>2. ASSUME UNCHANGED ghosts PROVE touchedLast' = touchedLast /\ raced' = raced
          BY <5>2 DEF ghosts
        <5> QED
          BY <5>1, <5>2, Zenon DEF miss, getCacheNode, callocFails, getPage, getPageFails,
                      add, Done, Free, FreeCnode, FreePage, FreeEvicted
      <4>4. ~Upset
        BY <4>0, <4>1, <4>2, <4>3, Zenon DEF Upset
      <4> QED
        BY <2>1, <4>0, <4>4, SortedStep, FreeingStep, Zenon DEF CacheInv
    <3> QED
      BY <3>1, <3>2, Zenon DEF CacheInv
  <2>2. CASE UNCHANGED cacheVars
    <3>1. UNCHANGED <<num, head, tail, c, kpn, freePages, pc, node, cn, fcn, recency, lru, touchedLast, raced>>
      BY <2>2 DEF cacheVars, list, ghosts
    <3>2. Base'
      BY <3>1, Zenon DEF CacheInv, Base, CacheTypeOK, PagesConserved, Paged, InFree, ThreadsOK
    <3>3. Cached' = Cached /\ \A n \in Nodes : InAdd(n)' <=> InAdd(n)
      BY <3>1, Zenon DEF Cached, InAdd
    <3>4. ~Upset => Sorted' /\ Freeing'
      BY <3>1, <3>3, Zenon DEF CacheInv, Sorted, Held, Making, Queue, Freeing
    <3> QED
      BY <3>1, <3>2, <3>4, Zenon DEF CacheInv, Upset
  <2> QED
    BY <2>1, <2>2
<1>3. CacheInv => CacheSound
  <2> SUFFICES ASSUME CacheInv PROVE CacheSound
    OBVIOUS
  <2>1. NodesLinked
    <3>1. ASSUME NEW n \in Nodes, \A t \in Threads : pc[t] = "freed" => node[t] # n
          PROVE  kpn[n].page <=> kpn[n].cnode # Null
      <4>1. ~InFree(n)
        BY <3>1 DEF InFree
      <4> QED
        BY <4>1, Zenon DEF CacheInv, Base, Paged
    <3>2. ~Upset => \A n \in Nodes : kpn[n].cnode # Null => c[kpn[n].cnode].kpn = n /\ c[kpn[n].cnode].alloc
      BY Zenon DEF CacheInv, Sorted, Held
    <3> QED
      BY <3>1, <3>2, Zenon DEF NodesLinked
  <2>2. ASSUME ~Upset
        PROVE  lru /\ Valid({tail} \cup {cn[t] : t \in Threads} \cup {fcn[t] : t \in Threads})
    <3>1. Sorted /\ Freeing /\ Base
      BY <2>2 DEF CacheInv
    <3>2. Known
      BY <3>1, SortedFacts
    <3>3. tail = Null \/ \E n \in Cached : tail = kpn[n].cnode
      BY <3>1 DEF Sorted, Queue, IsList, TailOK
    <3>4. \A n \in Nodes : kpn[n].cnode # Null => c[kpn[n].cnode].alloc
      BY <3>1 DEF Sorted, Held
    <3>5. tail # Null => c[tail].alloc
      BY <3>2, <3>3, <3>4 DEF Known
    <3>6. ASSUME NEW t \in Threads, cn[t] # Null PROVE c[cn[t]].alloc
      <4>1. pc[t] = "page" \/ pc[t] = "add"
        BY <3>1, <3>6 DEF Base, ThreadsOK
      <4>2. ASSUME pc[t] = "add" PROVE c[cn[t]].alloc
        <5>1. cn[t] = kpn[node[t]].cnode /\ node[t] \in Nodes
          BY <3>1, <3>2, <4>2 DEF Known, Base, ThreadsOK, Sorted, Making
        <5> QED
          BY <3>4, <3>6, <5>1
      <4> QED
        BY <3>1, <4>1, <4>2, Zenon DEF Sorted, Making
    <3>7. ASSUME NEW t \in Threads, fcn[t] # Null PROVE c[fcn[t]].alloc
      <4>1. pc[t] = "free"
        BY <3>1, <3>7 DEF Base, ThreadsOK
      <4>2. fcn[t] = kpn[node[t]].cnode /\ node[t] \in Nodes
        BY <3>1, <3>2, <4>1 DEF Freeing, Known
      <4> QED
        BY <3>4, <3>7, <4>2
    <3> QED
      BY <3>1, <3>5, <3>6, <3>7 DEF Sorted, Valid
  <2> QED
    BY <2>1, <2>2 DEF CacheInv, Base, CacheSound, EvictsLeastRecent
<1> QED
  BY <1>1, <1>2, <1>3, PTL DEF CacheSpec
=============================================================================
