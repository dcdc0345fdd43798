---------------------------- MODULE KeyPageList ----------------------------
(***************************************************************************)
(* The key page nodes of one hash entry (librdb/src/hashtable.cpp) while   *)
(* the cache takes pages away from them (cache.cpp) and processKeyPages,   *)
(* addNewPage and remove (rdb.cpp) walk, extend and cut the list.  A page  *)
(* that a walk evicts is one it needs no more, as if it were evicted       *)
(* between two operations, but addNewPage may evict the page it links the  *)
(* new one to.  The list is modelled with its pointers because             *)
(* LRUCache::update, which reads an evicted page in again, clears those of *)
(* the node.  An operation holds the lock of the entry and is one step; a  *)
(* page holds one key, so that page p stands for its key as well.          *)
(***************************************************************************)
EXTENDS Integers, FiniteSets

CONSTANTS
    MaxPage,      \* bound: the pages ever added to the entry
    Nodes,        \* bound: the key page nodes malloc may return
    Null

ListAssumption ==
    /\ MaxPage \in Nat
    /\ Null \notin Nodes

VARIABLES
    file,       \* the key pages of the entry on disk
    hent,       \* hash_entry_t: head, tail, offset
    kpn,        \* the key page nodes and the pages they hold
    aborted,    \* an ASSERT of remove failed
    evicted,    \* a page was evicted since the database was opened
    cut         \* a page was removed when another had been evicted

history == <<evicted, cut>>
vars    == <<file, hent, kpn, aborted, history>>

NoPage == -1
Pages  == 0 .. MaxPage
Offset == Pages \cup {NoPage}

Unwritten == [state |-> "unwritten", poff |-> NoPage, noff |-> NoPage]

\* kpoff is kpn_kpoff, loaded is kpn_kp # 0; then page, has, poff and noff
\* are what the page in memory holds
NoNode == [exists |-> FALSE, kpoff |-> NoPage, loaded |-> FALSE, prev |-> Null, next |-> Null,
           page |-> NoPage, has |-> FALSE, poff |-> NoPage, noff |-> NoPage]

NoEntry == [head |-> Null, tail |-> Null, offset |-> NoPage]

Init ==
    /\ file = [p \in Pages |-> Unwritten]
    /\ hent = NoEntry
    /\ kpn = [n \in Nodes |-> NoNode]
    /\ aborted = FALSE /\ evicted = FALSE /\ cut = FALSE

-----------------------------------------------------------------------------
(* The memory m is the entry and its nodes                                  *)

Memory == [hent |-> hent, kpn |-> kpn]

FreeNodes(m) == {n \in Nodes : ~m.kpn[n].exists}

\* the page at offset p is read into node r
Read(r, p, f) ==
    [r EXCEPT !.exists = TRUE, !.loaded = TRUE, !.kpoff = p, !.prev = Null, !.next = Null,
              !.page = p, !.has = f[p].state = "live", !.poff = f[p].poff, !.noff = f[p].noff]

\* HashTable::addKeyPageNode of node n for page p
addKeyPageNode(m, n, p, f) ==
    LET r == Read(NoNode, p, f)
    IN  IF m.hent.head = Null
        THEN [m EXCEPT !.kpn[n] = r, !.hent = [head |-> n, tail |-> n, offset |-> p]]
        ELSE [m EXCEPT !.kpn[n] = [r EXCEPT !.prev = m.hent.tail],
                       !.kpn[m.hent.tail].next = n, !.hent.tail = n]

\* HashTable::removeKeyPageNode of node n, which is freed
removeKeyPageNode(m, n) ==
    LET p == m.kpn[n].prev
        q == m.kpn[n].next
        k1 == [m.kpn EXCEPT ![n] = NoNode]
        k2 == IF p = Null THEN k1 ELSE [k1 EXCEPT ![p].next = q]
        k3 == IF q = Null THEN k2 ELSE [k2 EXCEPT ![q].prev = p]
    IN  [kpn  |-> k3,
         hent |-> [head   |-> IF p = Null THEN q ELSE m.hent.head,
                   tail   |-> IF q = Null THEN p ELSE m.hent.tail,
                   offset |-> IF p # Null THEN m.hent.offset
                              ELSE IF q = Null THEN NoPage ELSE m.kpn[q].kpoff]]

-----------------------------------------------------------------------------
(* processKeyPages, looking for the key of page p: the memory afterwards,   *)
(* the node the key was found in, and the last node before it               *)

Visited(m, n, last) == [mem |-> m, node |-> n, last |-> last]

\* pages without a node are not looked at
VisitNewNone(m, off, last, p) == Visited(m, Null, last)

\* the second loop: the pages from offset off on are given new nodes
RECURSIVE VisitNew(_, _, _, _)
VisitNew(m, off, last, p) ==
    IF off = NoPage THEN Visited(m, Null, last)
    ELSE LET n == CHOOSE n \in FreeNodes(m) : TRUE
             a == addKeyPageNode(m, n, off, file)
         IN  IF off = p /\ a.kpn[n].has THEN Visited(a, n, last)
             ELSE VisitNew(a, a.kpn[n].noff, n, p)

\* the first loop: the nodes of the list, an evicted page is read in again
RECURSIVE Visit(_, _, _, _, _)
Visit(m, off, n, last, p) ==
    IF off = NoPage \/ n = Null THEN VisitNew(m, off, last, p)
    ELSE LET a == IF m.kpn[n].loaded THEN m ELSE [m EXCEPT !.kpn[n] = Read(@, off, file)]
             r == a.kpn[n]
         IN  IF r.page = p /\ r.has THEN Visited(a, n, last)
             ELSE Visit(a, r.noff, r.next, n, p)

processKeyPages(m, p) == Visit(m, m.hent.offset, m.hent.head, Null, p)

-----------------------------------------------------------------------------
(* The operations.  Each may need a node for every page of the entry, twice *)
(* (bound: an operation begins only when there are that many).              *)

Live == {p \in Pages : file[p].state = "live"}

Written == {p \in Pages : file[p].state # "unwritten"}

HasNodes == ~aborted /\ Cardinality(FreeNodes(Memory)) > 2 * Cardinality(Written)

\* the memory is m afterwards
Becomes(m) == \E a \in {m} : hent' = a.hent /\ kpn' = a.kpn

\* Rdb::get, or a set of a key that exists, of the key of page p or of none
Lookup(p) ==
    /\ HasNodes
    /\ Becomes(processKeyPages(Memory, p).mem)
    /\ UNCHANGED <<file, aborted, history>>

\* LRUCache::removeLast takes the page of node n
removeLast(m, n) ==
    [m EXCEPT !.kpn[n] = [NoNode EXCEPT !.exists = TRUE, !.prev = m.kpn[n].prev,
                                        !.next = m.kpn[n].next]]

\* the last page of the walk, node l, is linked to page p (ki_lkp->kp_noff), which
\* is in the new node n.  If cache->get evicted that last page, which touch() left
\* behind tail, its memory is that of page p by now
LinkLast(m, l, n, p, evicts) ==
    IF l = Null THEN m
    ELSE IF evicts THEN [removeLast(m, l) EXCEPT !.kpn[n].noff = p]
    ELSE [m EXCEPT !.kpn[l].noff = p]

\* Rdb::set of a new key when every page is full: addNewPage
addNewPage(p, evicts) ==
    /\ HasNodes
    /\ file[p].state = "unwritten" /\ \A q \in Pages : q < p => file[q].state # "unwritten"
    /\ \E g \in {processKeyPages(Memory, NoPage)} :
       \E v \in {processKeyPages(g.mem, NoPage)} :
         LET l == v.last
             n == CHOOSE n \in FreeNodes(v.mem) : TRUE
             lkpoff == IF l = Null THEN NoPage ELSE v.mem.kpn[l].page
             f == [file EXCEPT ![p] = [state |-> "live", poff |-> lkpoff, noff |-> NoPage]]
         IN  /\ evicts => l # Null
             /\ file' = IF l = Null THEN f ELSE [f EXCEPT ![lkpoff].noff = p]
             /\ \E m \in {addKeyPageNode(v.mem, n, p, f)} : Becomes(LinkLast(m, l, n, p, evicts))
    /\ evicted' = (evicted \/ evicts)
    /\ UNCHANGED <<aborted, cut>>

\* keyFile->writeNextOffset and writePrevOffset of the neighbours of page p
\* that are in memory
NeighboursUnwritten(f, p, prev, next, r) == [f EXCEPT ![p].state = "deleted"]
Neighbours(f, p, prev, next, r) ==
    LET g == [f EXCEPT ![p].state = "deleted"]
        h == IF prev = Null THEN g ELSE [g EXCEPT ![r.poff].noff = r.noff]
    IN  IF next = Null THEN h ELSE [h EXCEPT ![r.noff].poff = r.poff]

\* the page after that of node n is given a node if it has none: the memory
\* then, and the node of that page
NextPage(m, n) ==
    IF m.kpn[n].noff # NoPage /\ m.kpn[n].next = Null
    THEN LET x == CHOOSE x \in FreeNodes(m) : TRUE
         IN  [mem |-> addKeyPageNode(m, x, m.kpn[n].noff, file), next |-> x]
    ELSE [mem |-> m, next |-> m.kpn[n].next]

\* page p, which is that of node n, is unlinked from the neighbours that are in
\* memory with their page
Unlink(m, n, q, p) ==
    LET r == m.kpn[n]
        WithPage(x, off) == IF off # NoPage /\ x # Null /\ m.kpn[x].loaded THEN x ELSE Null
        prev == WithPage(r.prev, r.poff)
        next == WithPage(q, r.noff)
        k1 == IF prev = Null THEN m ELSE [m EXCEPT !.kpn[prev].noff = r.noff]
        k2 == IF next = Null THEN k1 ELSE [k1 EXCEPT !.kpn[next].poff = r.poff]
    IN  /\ file' = Neighbours(file, p, prev, next, r)
        /\ \E k \in {k2} : Becomes(removeKeyPageNode(k, n))

\* Rdb::remove of the only key of page p (bound: it evicts no page itself; a removal
\* with a page evicted is modelled, and nothing is claimed of what follows it)
remove(p) ==
    /\ HasNodes
    /\ cut' = (cut \/ evicted) /\ UNCHANGED evicted
    /\ \E g \in {processKeyPages(Memory, p)} :
       \E d \in {processKeyPages(g.mem, p)} :
         IF g.node = Null
         THEN Becomes(g.mem) /\ UNCHANGED <<file, aborted>>
         ELSE IF g.node # d.node
         THEN aborted' = TRUE /\ UNCHANGED <<file, hent, kpn>>
         ELSE /\ \E a \in {NextPage(d.mem, d.node)} : Unlink(a.mem, d.node, a.next, p)
              /\ UNCHANGED aborted

\* LRUCache::removeLast takes the page of node n, for another hash entry
Evict(n) ==
    /\ ~aborted
    /\ kpn[n].exists /\ kpn[n].loaded
    /\ Becomes(removeLast(Memory, n))
    /\ evicted' = TRUE
    /\ UNCHANGED <<file, aborted, cut>>

\* Rdb::close and Rdb::open: populateHashTable keeps the first page it meets
FirstPage ==
    LET heads == {p \in Live : file[p].poff = NoPage}
    IN  IF heads = {} THEN NoPage ELSE CHOOSE p \in heads : \A q \in heads : p <= q

Reopen ==
    /\ ~aborted
    /\ hent' = [NoEntry EXCEPT !.offset = FirstPage]
    /\ kpn' = [n \in Nodes |-> NoNode]
    /\ evicted' = FALSE
    /\ UNCHANGED <<file, aborted, cut>>

Next ==
    \/ \E p \in Live \cup {NoPage} : Lookup(p)
    \/ \E p \in Pages, evicts \in BOOLEAN : addNewPage(p, evicts)
    \/ \E p \in Live : remove(p)
    \/ \E n \in Nodes : Evict(n)
    \/ Reopen

Spec == Init /\ [][Next]_vars

-----------------------------------------------------------------------------
(* Properties                                                               *)

\* The entry and its nodes point to nodes that exist, until a page is removed
\* while another is evicted.
TypeOK ==
    LET Pointer == {n \in Nodes : cut \/ kpn[n].exists} \cup {Null}
    IN  /\ file \in [Pages -> [state : {"unwritten", "live", "deleted"}, poff : Offset, noff : Offset]]
        /\ hent \in [head : Pointer, tail : Pointer, offset : Offset]
        /\ kpn \in [Nodes -> [exists : BOOLEAN, kpoff : Offset, loaded : BOOLEAN,
                              prev : Pointer, next : Pointer, page : Offset, has : BOOLEAN,
                              poff : Offset, noff : Offset]]
        /\ aborted \in BOOLEAN /\ evicted \in BOOLEAN /\ cut \in BOOLEAN

InMemory == {n \in Nodes : kpn[n].exists}

\* The list in memory mirrors the pages on disk, as long as nothing is
\* evicted: it starts at the offset of the entry, its pages are live and
\* different, they agree with the file, and a node's neighbours hold the
\* neighbouring pages (addKeyPageNode, removeKeyPageNode, Rdb::remove).  The
\* two walks of a remove then end at the same node, as its ASSERT "found and
\* deleted key page node mismatch" wants it.
ListMirrorsChain ==
    ~evicted /\ ~cut =>
    /\ ~aborted
    /\ hent.head # Null => kpn[hent.head].page = hent.offset
    /\ \A n \in InMemory :
         LET r == kpn[n] IN
         /\ file[r.page] = [state |-> "live", poff |-> r.poff, noff |-> r.noff]
         /\ r.prev = Null => hent.head = n /\ r.poff = NoPage
         /\ r.prev # Null => kpn[r.prev].next = n /\ kpn[r.prev].page = r.poff
         /\ r.next = Null => hent.tail = n
         /\ r.next # Null => kpn[r.next].prev = n /\ kpn[r.next].page = r.noff
         /\ \A o \in InMemory \ {n} : kpn[o].page # r.page

\* Every key that was set and not removed is found, whatever was evicted: in
\* spite of the links that LRUCache::update clears, the offsets in the pages
\* lead on.  Only the removal of a page while another is evicted breaks it.
EveryPageFound ==
    HasNodes /\ ~cut => \A p \in Live : processKeyPages(Memory, p).node # Null
=============================================================================
