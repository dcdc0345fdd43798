------------------------------ MODULE LRUCache ------------------------------
(***************************************************************************)
(* The cache of key pages (librdb/src/cache.cpp) as processKeyPages,       *)
(* addNewPage and remove of rdb.cpp use it.  A thread holds the lock of    *)
(* one hash entry and works on one of its key page nodes: it touches a     *)
(* node that exists, reads the page in again if it was evicted, or makes a *)
(* new node, uses the page, and may free the node.  Locking in the code is *)
(* per call: the choice between evicting and allocating, the eviction, the *)
(* page and the insertion are separate steps, and so are, in free(), the   *)
(* read of kpn_cnode, the unlinking and the return of the page.            *)
(*                                                                         *)
(* The list is modelled with its pointers, because the code does not keep  *)
(* tail up to date.  Pages are counted; which page is which is PageMgr.    *)
(***************************************************************************)
EXTENDS Integers, FiniteSets

CONSTANTS
    Threads,
    Nodes,        \* the key page nodes
    Cnodes,       \* the cache nodes calloc may return
    max,          \* the pages of the page manager
    Null

CacheAssumption ==
    /\ max \in Nat \ {0} /\ IsFiniteSet(Nodes)
    /\ Null \notin Nodes \cup Cnodes

VARIABLES
    num, head, tail,
    c,            \* the cache nodes: c_kpn, c_prev, c_next; NoCnode if freed
    kpn,          \* the key page nodes: whether they exist, kpn_kp, kpn_cnode
    freePages,    \* the free pages of the page manager
    pc, node, cn, \* of each thread: where it is, its node, its local cn
    fcn,          \* of each thread: the local cn of free()
    recency,      \* the cached nodes in the order they were last used
    lru,          \* whether the node evicted last was the least recently used
    touchedLast,  \* whether the last element of the list was ever touched
    raced         \* whether a cache node was evicted while free() held it

list == <<num, head, tail, c>>
ghosts == <<recency, lru, touchedLast, raced>>
cacheVars == <<list, kpn, freePages, pc, node, cn, fcn, ghosts>>

NoCnode == [alloc |-> FALSE, kpn |-> Null, prev |-> Null, next |-> Null]
NoNode  == [exists |-> FALSE, page |-> FALSE, cnode |-> Null]

CacheInit ==
    /\ num = 0 /\ head = Null /\ tail = Null
    /\ c = [x \in Cnodes |-> NoCnode]
    /\ kpn = [n \in Nodes |-> NoNode]
    /\ freePages = max
    /\ pc = [t \in Threads |-> "idle"]
    /\ node = [t \in Threads |-> Null]
    /\ cn = [t \in Threads |-> Null] /\ fcn = [t \in Threads |-> Null]
    /\ recency = [n \in Nodes |-> 0]
    /\ lru = TRUE /\ touchedLast = FALSE /\ raced = FALSE

Goto(t, l) == pc' = [pc EXCEPT ![t] = l]

\* the nodes in the order of their last use: n is now the most recent, or, with
\* n = Null, only the nodes of S are left
Recent(n, S) ==
    LET older(m) == Cardinality({x \in S \ {n} : recency[x] < recency[m]})
    IN  [m \in Nodes |-> IF m = n THEN Cardinality(S \ {n}) + 1
                         ELSE IF m \in S THEN older(m) + 1 ELSE 0]
Cached == {n \in Nodes : recency[n] > 0}

\* the cache nodes of S may be dereferenced.  A thread that would dereference
\* one that was freed stops: what the program does then is undefined
Valid(S) == \A x \in S \ {Null} : c[x].alloc

-----------------------------------------------------------------------------
(* LRUCache::touch                                                          *)

\* touch of cache node x when it is not at the head; tail is left alone
Touched(x) ==
    LET p == c[x].prev
        n == c[x].next
    IN  [c EXCEPT ![p].next = n,
                  ![IF n = Null THEN p ELSE n].prev = IF n = Null THEN @ ELSE p]

\* a thread starts on node n of a hash entry nobody else works on
touch(t, n) ==
    LET x == kpn[n].cnode
    IN  /\ pc[t] = "idle" /\ \A u \in Threads : node[u] # n
        /\ node' = [node EXCEPT ![t] = n]
        /\ kpn[n].exists
        /\ x # Null => Valid({c[x].prev, c[x].next, head})
        /\ IF kpn[n].page /\ x # Null
           THEN /\ Goto(t, "using")
                /\ recency' = Recent(n, Cached)
                /\ IF c[x].prev = Null
                   THEN UNCHANGED <<c, head, touchedLast>>
                   ELSE /\ head # Null
                        /\ touchedLast' = (touchedLast \/ c[x].next = Null)
                        /\ c' = [[Touched(x) EXCEPT ![x].prev = Null, ![x].next = head]
                                   EXCEPT ![head].prev = x]
                        /\ head' = x
           ELSE Goto(t, "node") /\ UNCHANGED <<c, head, recency, touchedLast>>
        /\ UNCHANGED <<num, tail, kpn, freePages, cn, fcn, lru, raced>>

\* a thread starts on a page that has no node yet
miss(t, n) ==
    /\ pc[t] = "idle" /\ \A u \in Threads : node[u] # n
    /\ ~kpn[n].exists
    /\ node' = [node EXCEPT ![t] = n]
    /\ Goto(t, "node")
    /\ UNCHANGED <<list, kpn, freePages, cn, fcn, ghosts>>

-----------------------------------------------------------------------------
(* LRUCache::get and LRUCache::update                                       *)

\* the call returns an error
Refuse(t) ==
    /\ Goto(t, "idle")
    /\ node' = [node EXCEPT ![t] = Null]
    /\ cn' = [cn EXCEPT ![t] = Null]

\* getCacheNode: num is read without the lock
getCacheNode(t) ==
    /\ pc[t] = "node"
    /\ IF num >= max
       THEN Goto(t, "evict") /\ UNCHANGED <<c, cn>>
       ELSE LET x == CHOOSE x \in Cnodes : ~c[x].alloc IN
            /\ \E y \in Cnodes : ~c[y].alloc
            /\ c' = [c EXCEPT ![x].alloc = TRUE]
            /\ cn' = [cn EXCEPT ![t] = x]
            /\ Goto(t, "page")
    /\ UNCHANGED <<num, head, tail, kpn, freePages, node, fcn, ghosts>>

\* getCacheNode: calloc returns 0
callocFails(t) ==
    /\ pc[t] = "node" /\ num < max
    /\ Refuse(t)
    /\ UNCHANGED <<list, kpn, freePages, fcn, ghosts>>

\* pageMgr->free and pageMgr->get; the node that lost its page
PageFreedNever(n) == freePages
PageFreed(n)      == IF kpn[n].page THEN freePages + 1 ELSE freePages
PageTaken         == freePages - 1
EvictedLinked(n)  == [kpn EXCEPT ![n].page = FALSE]
Evicted(n)        == [kpn EXCEPT ![n].page = FALSE, ![n].cnode = Null]

\* removeLast
removeLast(t) ==
    /\ pc[t] = "evict"
    /\ Valid({tail}) /\ (tail # Null => Valid({c[tail].prev}))
    /\ IF tail = Null
       THEN Refuse(t) /\ UNCHANGED <<list, kpn, freePages, ghosts>>
       ELSE LET p == c[tail].prev
                n == c[tail].kpn
            IN  /\ cn' = [cn EXCEPT ![t] = tail]
                /\ tail' = p
                /\ head' = IF p = Null THEN Null ELSE head
                /\ c' = [[c EXCEPT ![IF p = Null THEN tail ELSE p].next = Null]
                           EXCEPT ![tail] = [NoCnode EXCEPT !.alloc = TRUE]]
                /\ num' = num - 1
                /\ IF n = Null
                   THEN UNCHANGED <<kpn, freePages, lru, recency>>
                   ELSE /\ kpn' = Evicted(n)
                        /\ freePages' = PageFreed(n)
                        /\ lru' = \A m \in Cached : recency[n] <= recency[m]
                        /\ recency' = Recent(Null, Cached \ {n})
                /\ raced' = (raced \/ \E u \in Threads : pc[u] = "free" /\ fcn[u] = tail)
                /\ Goto(t, "page")
                /\ UNCHANGED <<node, touchedLast>>
    /\ UNCHANGED fcn

\* getPage: pageMgr->get, then the page is read from the key file; when there
\* is no page the cache node is freed
getPage(t) ==
    /\ pc[t] = "page" /\ Valid({cn[t]})
    /\ IF freePages = 0
       THEN /\ Refuse(t)
            /\ c' = [c EXCEPT ![cn[t]] = NoCnode]
            /\ UNCHANGED <<kpn, freePages>>
       ELSE /\ freePages' = PageTaken
            /\ kpn' = [kpn EXCEPT ![node[t]] = [exists |-> TRUE, page |-> TRUE, cnode |-> cn[t]]]
            /\ c' = [c EXCEPT ![cn[t]].kpn = node[t]]
            /\ Goto(t, "add")
            /\ UNCHANGED <<node, cn>>
    /\ UNCHANGED <<num, head, tail, fcn, ghosts>>

\* getPage: keyFile->read fails, the page and the cache node are freed
getPageFails(t) ==
    /\ pc[t] = "page" /\ Valid({cn[t]}) /\ freePages > 0
    /\ c' = [c EXCEPT ![cn[t]] = NoCnode]
    /\ Refuse(t)
    /\ UNCHANGED <<num, head, tail, kpn, freePages, fcn, ghosts>>

\* an add at the back of the list
addBehind(t) ==
    LET x == cn[t]
    IN  /\ pc[t] = "add" /\ Valid({x, tail})
        /\ c' = [[c EXCEPT ![x].prev = tail, ![x].next = Null]
                   EXCEPT ![IF tail = Null THEN x ELSE tail].next = IF tail = Null THEN @ ELSE x]
        /\ head' = IF head = Null THEN x ELSE head
        /\ tail' = x
        /\ num' = num + 1
        /\ cn' = [cn EXCEPT ![t] = Null]
        /\ recency' = Recent(node[t], Cached \cup {node[t]})
        /\ Goto(t, "using")
        /\ UNCHANGED <<kpn, freePages, node, fcn, lru, touchedLast, raced>>

add(t) ==
    LET x == cn[t]
    IN  /\ pc[t] = "add" /\ Valid({x, head})
        /\ c' = [[c EXCEPT ![x].prev = Null, ![x].next = head]
                   EXCEPT ![IF head = Null THEN x ELSE head].prev = IF head = Null THEN @ ELSE x]
        /\ tail' = IF head = Null THEN x ELSE tail
        /\ head' = x
        /\ num' = num + 1
        /\ cn' = [cn EXCEPT ![t] = Null]
        /\ recency' = Recent(node[t], Cached \cup {node[t]})
        /\ Goto(t, "using")
        /\ UNCHANGED <<kpn, freePages, node, fcn, lru, touchedLast, raced>>

-----------------------------------------------------------------------------
(* The thread is done with the page, or LRUCache::free                      *)

Done(t) ==
    /\ pc[t] = "using"
    /\ Goto(t, "idle")
    /\ node' = [node EXCEPT ![t] = Null]
    /\ UNCHANGED <<list, kpn, freePages, cn, fcn, ghosts>>

\* free(kpn): kpn_cnode is read without the lock
Free(t) ==
    /\ pc[t] = "using" /\ kpn[node[t]].cnode # Null
    /\ fcn' = [fcn EXCEPT ![t] = kpn[node[t]].cnode]
    /\ Goto(t, "free")
    /\ UNCHANGED <<list, kpn, freePages, node, cn, ghosts>>

\* free(cn): the list without the cache node that was read, whoever has it now;
\* num is left alone.  (The code sets kpn_cnode to 0 only after the page is
\* returned; the node is out of its entry's list, so nobody reads it before.)
FreeCnode(t) ==
    LET n == node[t]
        x == fcn[t]
        p == c[x].prev
        q == c[x].next
        d == [c EXCEPT ![x] = NoCnode]
        e == IF p = Null THEN d ELSE [d EXCEPT ![p].next = q]
    IN  /\ pc[t] = "free"
        /\ Valid({x, p, q})
        /\ c' = IF q = Null THEN e ELSE [e EXCEPT ![q].prev = p]
        /\ head' = IF p = Null THEN q ELSE head
        /\ tail' = IF q = Null THEN p ELSE tail
        /\ kpn' = [kpn EXCEPT ![n].cnode = Null]
        /\ recency' = Recent(Null, Cached \ {n})
        /\ fcn' = [fcn EXCEPT ![t] = Null]
        /\ Goto(t, "freed")
        /\ UNCHANGED <<num, freePages, node, cn, lru, touchedLast, raced>>

\* the page goes back to the pool, and the node is freed
FreePage(t) ==
    /\ pc[t] = "freed"
    /\ kpn' = [kpn EXCEPT ![node[t]] = NoNode]
    /\ freePages' = PageFreed(node[t])
    /\ Goto(t, "idle")
    /\ node' = [node EXCEPT ![t] = Null]
    /\ UNCHANGED <<list, cn, fcn, ghosts>>

\* the page was evicted meanwhile: LRUCache::free returns at once
FreeEvicted(t) ==
    /\ pc[t] = "using" /\ kpn[node[t]].cnode = Null
    /\ kpn' = [kpn EXCEPT ![node[t]] = NoNode]
    /\ Goto(t, "idle")
    /\ node' = [node EXCEPT ![t] = Null]
    /\ UNCHANGED <<list, freePages, cn, fcn, ghosts>>

CacheNext ==
    \E t \in Threads :
      \/ \E n \in Nodes : touch(t, n) \/ miss(t, n)
      \/ getCacheNode(t) \/ callocFails(t) \/ removeLast(t) \/ getPage(t) \/ getPageFails(t)
      \/ add(t) \/ Done(t) \/ Free(t) \/ FreeCnode(t) \/ FreePage(t) \/ FreeEvicted(t)

CacheSpec == CacheInit /\ [][CacheNext]_cacheVars

-----------------------------------------------------------------------------
(* Properties                                                               *)

CacheTypeOK ==
    /\ num \in Int /\ head \in Cnodes \cup {Null} /\ tail \in Cnodes \cup {Null}
    /\ c \in [Cnodes -> [alloc : BOOLEAN, kpn : Nodes \cup {Null},
                         prev : Cnodes \cup {Null}, next : Cnodes \cup {Null}]]
    /\ kpn \in [Nodes -> [exists : BOOLEAN, page : BOOLEAN, cnode : Cnodes \cup {Null}]]
    /\ freePages \in 0 .. max
    /\ node \in [Threads -> Nodes \cup {Null}]
    /\ cn \in [Threads -> Cnodes \cup {Null}] /\ fcn \in [Threads -> Cnodes \cup {Null}]
    /\ lru \in BOOLEAN /\ touchedLast \in BOOLEAN /\ raced \in BOOLEAN

\* No page of the pool is lost or counted twice: the free pages and the pages
\* of key page nodes make up the pool, whatever was evicted, refused or freed.
PagesConserved == freePages + Cardinality({n \in Nodes : kpn[n].page}) = max

\* The two things that break the list: the last element was touched (touch()
\* leaves tail where it is), or a cache node was evicted after free() read it and
\* before free() took the lock, and is freed while the evicting thread has it.
Upset == touchedLast \/ raced

\* A key page node and its cache node point at each other, and a node that is not
\* being freed has a page exactly as long as it has a cache node: touch and free
\* rely on it, until the list is upset.
NodesLinked ==
    ~Upset => \A n \in Nodes :
      /\ (\A t \in Threads : pc[t] = "freed" => node[t] # n) =>
           (kpn[n].page <=> kpn[n].cnode # Null)
      /\ kpn[n].cnode # Null => c[kpn[n].cnode].kpn = n /\ c[kpn[n].cnode].alloc

\* "the least recently used elememt is at the back of the list" (class
\* LRUCache): the element evicted is the least recently used one and no pointer
\* into the list (tail, or what free() or get() hold) is a freed cache node,
\* until the list is upset.
EvictsLeastRecent ==
    ~Upset => lru /\ Valid({tail} \cup {cn[t] : t \in Threads} \cup {fcn[t] : t \in Threads})

\* No page of the cache's pool is lost or counted twice; a key page node and its cache node
\* point at each other, no thread holds a freed cache node, and the page evicted is the
\* least recently used one, until the last element is touched or a page is evicted between
\* the two halves of free() (LRUCache::get, touch, free, removeLast).
CacheSound == CacheTypeOK /\ PagesConserved /\ NodesLinked /\ EvictsLeastRecent
=============================================================================
