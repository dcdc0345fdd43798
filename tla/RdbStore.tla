------------------------------ MODULE RdbStore ------------------------------
(***************************************************************************)
(* The operations of librdb on its files: Rdb::get, set and remove with    *)
(* processKeyPages and addNewPage (librdb/src/rdb.cpp), the key and value  *)
(* files (dbfiles.cpp), the undo stack (unwind.cpp) and populateHashTable. *)
(*                                                                         *)
(* The .idx file is an array of key pages; the pages of a hash entry form  *)
(* a doubly linked list.  The .db file is an array of value pages.  Every  *)
(* write to a file is a step of its own, so a crash or another thread can  *)
(* come between any two.  A thread works on a hash entry alone: the        *)
(* entry's lock is module HashTable.  The tree of keys within a page is a  *)
(* function from keys to value pages: the tree is module KeyRecords.  All  *)
(* pages of an entry fit in the cache.  The .fdp file is module            *)
(* FreeDiskPageMgr.                                                        *)
(***************************************************************************)
EXTENDS Integers, Sequences, FiniteSets, SequencesExt

CONSTANTS
    Threads,
    Keys, Vals, Buckets,
    Databases,           \* the databases considered and what happens to them
    MaxKeyPage,          \* bound: the last page of the .idx file
    MaxValuePage,        \* bound: the last page of the .db file
    NoValue

\* Of a database: the keys that fit in a page (NUM_OF_KEYS_IN_PAGE; with three
\* remove fails an ASSERT, see KeyRecords), the hash entry of each key, the
\* operations and values its callers use, whether the process crashes, and a
\* bound on the operations in which a write fails
ASSUME RdbAssumption ==
    /\ Databases \subseteq [keysPerPage : {1, 2}, hash : [Keys -> Buckets],
                            ops : SUBSET {"set", "remove"}, vals : SUBSET Vals,
                            crashes : BOOLEAN, faults : Nat]
    /\ MaxKeyPage \in Nat /\ MaxValuePage \in Nat
    /\ NoValue \notin Vals

VARIABLES
    db,          \* the database
    mode,        \* "up", "down", or the ASSERT that aborted the process
    kfile,       \* the key pages on disk
    ksize,       \* the pages in the .idx file
    vfile,       \* the value pages on disk
    vsize,       \* the pages in the .db file
    page,        \* the key pages in memory, by their offset
    list,        \* the key page nodes of each hash entry, in order
    offset,      \* the offset of the first page of each hash entry
    kfree,       \* the free key pages, a stack
    vfree,       \* the free value pages, a stack
    pc, req, ki, \* of each thread: where it is, its arguments, its key_info
    ustk,        \* of each thread: the undo stack, its top is the last
    acked,       \* for each key, the values a caller may expect
    failed,      \* the keys of the operations in which a write failed
    relinked,    \* the entries of removes taken back after their page was given back
    retried,     \* TRUE once one of those keys, or of those entries, was used again
    cut          \* the removes that a crash cut short: the key, and Beheaded

disk   == <<kfile, ksize, vfile, vsize>>
memory == <<page, list, offset, kfree, vfree>>
thread == <<pc, req, ki, ustk>>
vars   == <<db, mode, disk, memory, thread, acked, failed, relinked, retried, cut>>

KPages == 0 .. MaxKeyPage
VPages == 0 .. MaxValuePage
NoPage == -1                 \* the offset -1
Absent == -2                 \* the page has no record for the key

KeyPage ==
    [del : BOOLEAN, vcount : Nat, hash : Buckets,
     poff : KPages \cup {NoPage}, noff : KPages \cup {NoPage},
     voff : [Keys -> VPages \cup {NoPage, Absent}]]

\* a page that was never written
ZeroKeyPage ==
    [del |-> FALSE, vcount |-> 0, hash |-> CHOOSE b \in Buckets : TRUE,
     poff |-> 0, noff |-> 0, voff |-> [k \in Keys |-> Absent]]
ZeroValuePage == [del |-> FALSE, key |-> NoValue, val |-> NoValue]

\* page pg when it is free: one that is marked deleted, by an operation that can no
\* longer fail, is never read before it is written again, and what else is in it is
\* not kept
FreeKeyPage(pg)   == IF pg.del THEN [ZeroKeyPage EXCEPT !.del = TRUE] ELSE pg
FreeValuePage(pg) == IF pg.del THEN [ZeroValuePage EXCEPT !.del = TRUE] ELSE pg

NoReq == [op |-> "none", key |-> NoValue, val |-> NoValue]
NoKi  == [voff |-> NoPage, kp |-> NoPage, lkp |-> NoPage]

\* the hash entry of key k
Hash(k) == db.hash[k]

Init ==
    /\ db \in Databases
    /\ mode = "down"
    /\ kfile = [p \in KPages |-> ZeroKeyPage] /\ ksize = 0
    /\ vfile = [p \in VPages |-> ZeroValuePage] /\ vsize = 0
    /\ page = [p \in KPages |-> ZeroKeyPage]
    /\ list = [b \in Buckets |-> << >>]
    /\ offset = [b \in Buckets |-> NoPage]
    /\ kfree = << >> /\ vfree = << >>
    /\ pc = [t \in Threads |-> "idle"]
    /\ req = [t \in Threads |-> NoReq]
    /\ ki = [t \in Threads |-> NoKi]
    /\ ustk = [t \in Threads |-> << >>]
    /\ acked = [k \in Keys |-> {NoValue}]
    /\ failed = << >> /\ relinked = {} /\ retried = FALSE /\ cut = {}

-----------------------------------------------------------------------------
(* Walking the key pages of a hash entry: the nodes in memory first, then   *)
(* the pages on disk that the last one leads to                             *)

Loaded(b) == Range(list[b])

PageOf(b, p) == IF p \in Loaded(b) THEN page[p] ELSE kfile[p]

\* the pages reached from page p when pg holds the key pages
Follow(p, pg) ==
    LET next == [q \in KPages \cup {NoPage} |-> IF q = NoPage THEN NoPage ELSE pg[q].noff]
        nth[n \in 1 .. MaxKeyPage + 1] == IF n = 1 THEN p ELSE next[nth[n - 1]]
    IN  SelectSeq([n \in 1 .. MaxKeyPage + 1 |-> nth[n]], LAMBDA q : q # NoPage)

Pages(b) == [p \in KPages |-> PageOf(b, p)]

Walk(b) ==
    LET ends == {i \in DOMAIN list[b] : page[list[b][i]].noff = NoPage}
    IN  CASE list[b] = << >> -> Follow(offset[b], kfile)
          [] ends # {}       -> SubSeq(list[b], 1, CHOOSE i \in ends : \A j \in ends : i <= j)
          [] OTHER           -> list[b] \o Follow(page[Last(list[b])].noff, kfile)

\* the position in s of the first page with a record for k, or 0
FirstWith(s, k, pg) ==
    LET has == {i \in DOMAIN s : pg[s[i]].voff[k] # Absent}
    IN  IF has = {} THEN 0 ELSE CHOOSE i \in has : \A j \in has : i <= j

\* where processKeyPages(GET) finds k: a position in Walk(b), or 0
Find(b, k) == FirstWith(Walk(b), k, Pages(b))

\* the nodes and pages in memory after the first n pages were visited
Load(b, n) ==
    /\ list' = [list EXCEPT ![b] = IF n <= Len(@) THEN @ ELSE SubSeq(Walk(b), 1, n)]
    /\ page' = [p \in KPages |-> IF p \in Range(SubSeq(Walk(b), 1, n)) THEN PageOf(b, p)
                                                                     ELSE page[p]]

Busy(b) == \E t \in Threads : pc[t] # "idle" /\ Hash(req[t].key) = b

MayBegin(t, op, b) ==
    /\ mode = "up" /\ pc[t] = "idle" /\ op \in db.ops /\ ~Busy(b)

-----------------------------------------------------------------------------
(* Taking and freeing disk pages: FreeDiskPageMgr::get and free             *)

TopOf(stack)  == Last(stack)
Taken(stack)  == IF Len(stack) = 1 THEN <<stack[1] + 1>> ELSE Front(stack)
\* a page is taken, its write fails and it is freed again
Returned(stack) == Append(Taken(stack), TopOf(stack))
Grown(size, p) == IF p >= size THEN p + 1 ELSE size

PutRecord(pg, k, v) ==
    [pg EXCEPT !.voff[k] = v, !.vcount = IF pg.voff[k] = Absent THEN @ + 1 ELSE @]
RemoveRecordKept(pg, k) ==
    [pg EXCEPT !.vcount = @ - 1]
RemoveRecord(pg, k) ==
    [pg EXCEPT !.voff[k] = Absent, !.vcount = @ - 1]

Goto(t, l) == pc' = [pc EXCEPT ![t] = l]

\* an entry of the undo stack: what the failure of a later step takes back
Undo(op, file, off, arg) == [op |-> op, file |-> file, off |-> off, arg |-> arg]
Record(t, u) == ustk' = [ustk EXCEPT ![t] = Append(@, u)]

\* the operation returns to its caller, which may now expect a value of v
Return(t, v) ==
    /\ pc' = [pc EXCEPT ![t] = "idle"]
    /\ req' = [req EXCEPT ![t] = NoReq]
    /\ ki' = [ki EXCEPT ![t] = NoKi]
    /\ ustk' = [ustk EXCEPT ![t] = << >>]
    /\ acked' = [acked EXCEPT ![req[t].key] = v]

-----------------------------------------------------------------------------
(* Rdb::get, under the read lock                                            *)

\* the ASSERTs on a value page that a key record leads to
ValueCheck(k, voff) ==
    CASE voff = NoPage          -> "value page offset is not set"
      [] vfile[voff].del        -> "value is already deleted"
      [] vfile[voff].key # k    -> "key mismatch"
      [] OTHER                  -> "up"

get(k) ==
    LET b == Hash(k)
        n == Find(b, k)
    IN  /\ mode = "up" /\ ~Busy(b)
        /\ Load(b, IF n = 0 THEN Len(Walk(b)) ELSE n)
        /\ mode' = IF n = 0 THEN "up"
                   ELSE ValueCheck(k, PageOf(b, Walk(b)[n]).voff[k])
        /\ UNCHANGED <<disk, offset, kfree, vfree, thread, acked, failed>>

-----------------------------------------------------------------------------
(* Rdb::set, under the write lock                                           *)

SetBegin(t, k, v, updater) ==
    LET b == Hash(k)
        n == Find(b, k)
    IN  /\ MayBegin(t, "set", b) /\ v \in db.vals
        /\ Load(b, IF n = 0 THEN Len(Walk(b)) ELSE n)
        /\ req' = [req EXCEPT ![t] = [op |-> "set", key |-> k, val |-> v]]
        /\ IF n = 0
           THEN Goto(t, "value") /\ UNCHANGED <<ki, mode>>
           ELSE LET voff == PageOf(b, Walk(b)[n]).voff[k] IN
                /\ ki' = [ki EXCEPT ![t].voff = voff]
                /\ Goto(t, "overwrite")
                /\ mode' = IF updater \/ voff = NoPage THEN ValueCheck(k, voff) ELSE "up"
        /\ UNCHANGED <<disk, offset, kfree, vfree, ustk, acked, failed>>

\* the key exists: valueFile->write(ki.ki_voff, &vp)
SetOverwrite(t) ==
    /\ mode = "up" /\ pc[t] = "overwrite"
    /\ vfile' = [vfile EXCEPT ![ki[t].voff] =
                   [del |-> FALSE, key |-> req[t].key, val |-> req[t].val]]
    /\ Return(t, {req[t].val})
    /\ UNCHANGED <<mode, kfile, ksize, vsize, memory, failed>>

\* the record is given a value page that is never written
SetValueUnwritten(t) ==
    /\ mode = "up" /\ pc[t] = "value" /\ TopOf(vfree) \in VPages
    /\ vfree' = Taken(vfree)
    /\ ki' = [ki EXCEPT ![t].voff = TopOf(vfree)]
    /\ Goto(t, "index")
    /\ UNCHANGED <<mode, disk, page, list, offset, kfree, req, ustk, acked, failed>>

\* the key is new: valueFile->write(&ki.ki_voff, &vp), and its undo
SetValue(t) ==
    LET p == TopOf(vfree)
    IN  /\ mode = "up" /\ pc[t] = "value" /\ p \in VPages
        /\ vfree' = Taken(vfree)
        /\ vfile' = [vfile EXCEPT ![p] =
                       [del |-> FALSE, key |-> req[t].key, val |-> req[t].val]]
        /\ vsize' = Grown(vsize, p)
        /\ ki' = [ki EXCEPT ![t].voff = p]
        /\ ustk' = [ustk EXCEPT ![t] = <<Undo("free", "v", p, 0), Undo("flags", "v", p, TRUE)>>]
        /\ Goto(t, "index")
        /\ UNCHANGED <<mode, kfile, ksize, page, list, offset, kfree, req, acked, failed>>

\* the pages of the entry with room for a record, by their position
Room(b) == {i \in DOMAIN list[b] : page[list[b][i]].vcount < db.keysPerPage}

\* processKeyPages(SET): the record goes into the first page with room
SetIndex(t) ==
    LET k == req[t].key
        b == Hash(k)
        i == CHOOSE i \in Room(b) : \A j \in Room(b) : i <= j
        p == list[b][i]
    IN  /\ mode = "up" /\ pc[t] = "index" /\ Room(b) # {}
        /\ page' = [page EXCEPT ![p] = PutRecord(@, k, ki[t].voff)]
        /\ kfile' = [kfile EXCEPT ![p] = page'[p]]
        /\ Return(t, {req[t].val})
        /\ UNCHANGED <<mode, ksize, vfile, vsize, list, offset, kfree, vfree, failed>>

\* the last page of the entry, ki_lkpoff
LastPage(b) == IF list[b] = << >> THEN NoPage ELSE Last(list[b])

NewPage(t) ==
    PutRecord([ZeroKeyPage EXCEPT !.hash = Hash(req[t].key), !.noff = NoPage,
                                  !.poff = LastPage(Hash(req[t].key))],
              req[t].key, ki[t].voff)

\* addNewPage: the new page is written; it is the first of its entry, or the
\* last page is linked to it next
SetNewPage(t) ==
    LET b == Hash(req[t].key)
        p == TopOf(kfree)
    IN  /\ mode = "up" /\ pc[t] = "index" /\ Room(b) = {} /\ p \in KPages
        /\ kfree' = Taken(kfree)
        /\ page' = [page EXCEPT ![p] = NewPage(t)]
        /\ kfile' = [kfile EXCEPT ![p] = NewPage(t)]
        /\ ksize' = Grown(ksize, p)
        /\ IF list[b] = << >>
           THEN /\ list' = [list EXCEPT ![b] = <<p>>]
                /\ offset' = [offset EXCEPT ![b] = p]
                /\ Return(t, {req[t].val})
           ELSE /\ Goto(t, "link")
                /\ ki' = [ki EXCEPT ![t].kp = p, ![t].lkp = LastPage(b)]
                /\ UNCHANGED <<list, offset, req, ustk, acked>>
        /\ UNCHANGED <<mode, vfile, vsize, vfree, failed>>

\* the last page is linked to the new one in memory alone
SetLinkUnwritten(t) ==
    /\ mode = "up" /\ pc[t] = "link"
    /\ page' = [page EXCEPT ![ki[t].lkp].noff = ki[t].kp]
    /\ list' = [list EXCEPT ![Hash(req[t].key)] = Append(@, ki[t].kp)]
    /\ Return(t, {req[t].val})
    /\ UNCHANGED <<mode, disk, offset, kfree, vfree, failed>>

\* addNewPage: keyFile->writeNextOffset(ki->ki_lkpoff, ki->ki_lkp, pageOffset)
SetLink(t) ==
    LET b == Hash(req[t].key)
        l == ki[t].lkp
    IN  /\ mode = "up" /\ pc[t] = "link"
        /\ kfile' = [kfile EXCEPT ![l].noff = ki[t].kp]
        /\ page' = [page EXCEPT ![l].noff = ki[t].kp]
        /\ list' = [list EXCEPT ![b] = Append(@, ki[t].kp)]
        /\ Return(t, {req[t].val})
        /\ UNCHANGED <<mode, ksize, vfile, vsize, offset, kfree, vfree, failed>>

-----------------------------------------------------------------------------
(* Rdb::remove, under the write lock                                        *)

\* the key is located; a key that is not there is E_not_found
RemoveBegin(t, k) ==
    LET b == Hash(k)
        n == Find(b, k)
        p == Walk(b)[n]
    IN  /\ MayBegin(t, "remove", b)
        /\ Load(b, IF n = 0 THEN Len(Walk(b)) ELSE n)
        /\ IF n = 0
           THEN UNCHANGED <<mode, pc, req, ki>>
           ELSE /\ req' = [req EXCEPT ![t] = [op |-> "remove", key |-> k, val |-> NoValue]]
                /\ ki' = [ki EXCEPT ![t] = [voff |-> PageOf(b, p).voff[k], kp |-> p, lkp |-> NoPage]]
                /\ Goto(t, "mark")
                /\ mode' = IF ki'[t].voff = NoPage THEN "value page offset is not set" ELSE "up"
        /\ UNCHANGED <<disk, offset, kfree, vfree, ustk, acked, failed>>

\* valueFile->writeFlags(ki.ki_voff, 0, VPAGE_DELETED)
RemoveMark(t) ==
    /\ mode = "up" /\ pc[t] = "mark"
    /\ vfile' = [vfile EXCEPT ![ki[t].voff].del = TRUE]
    /\ Record(t, Undo("flags", "v", ki[t].voff, FALSE))
    /\ Goto(t, "unindex")
    /\ UNCHANGED <<mode, kfile, ksize, vsize, memory, req, ki, acked, failed>>

\* the position of the thread's key page among the nodes of its entry
Node(t) == CHOOSE i \in DOMAIN list[Hash(req[t].key)] : list[Hash(req[t].key)][i] = ki[t].kp

\* processKeyPages(DEL), with keys left in the page: the page is written
RemoveUnindex(t) ==
    LET p == ki[t].kp
    IN  /\ mode = "up" /\ pc[t] = "unindex" /\ page[p].vcount > 1
        /\ page' = [page EXCEPT ![p] = RemoveRecord(@, req[t].key)]
        /\ kfile' = [kfile EXCEPT ![p] = page'[p]]
        /\ Goto(t, "free")
        /\ UNCHANGED <<mode, ksize, vfile, vsize, list, offset, kfree, vfree,
                       req, ki, ustk, acked, failed>>

\* processKeyPages(DEL) of the last key: the page is not written.  The next
\* page is loaded if it was not.
RemoveLast(t) ==
    LET p == ki[t].kp
        b == Hash(req[t].key)
        n == page[p].noff
    IN  /\ mode = "up" /\ pc[t] = "unindex" /\ page[p].vcount <= 1
        /\ IF n # NoPage /\ Node(t) = Len(list[b])
           THEN /\ list' = [list EXCEPT ![b] = Append(@, n)]
                /\ page' = [page EXCEPT ![p] = RemoveRecord(@, req[t].key), ![n] = kfile[n]]
           ELSE /\ page' = [page EXCEPT ![p] = RemoveRecord(@, req[t].key)]
                /\ UNCHANGED list
        /\ Goto(t, "delete page")
        /\ UNCHANGED <<mode, disk, offset, kfree, vfree, req, ki, ustk, acked, failed>>

\* KeyFile::writeFlags: an int is written over kp_flags and kp_vcount
FlagsUnwritten(pg, del) == pg
FlagsWritten(pg, del) == [pg EXCEPT !.del = del, !.vcount = 0]

\* keyFile->writeFlags(..., KPAGE_DELETED)
RemoveDeletePage(t) ==
    LET p == ki[t].kp
    IN  /\ mode = "up" /\ pc[t] = "delete page"
        /\ kfile' = [kfile EXCEPT ![p] = FlagsWritten(@, TRUE)]
        /\ page' = [page EXCEPT ![p].del = TRUE]
        /\ Record(t, Undo("flags", "k", p, FALSE))
        /\ Goto(t, "unlink next")
        /\ UNCHANGED <<mode, ksize, vfile, vsize, list, offset, kfree, vfree,
                       req, ki, acked, failed>>

HasPrev(t) == page[ki[t].kp].poff # NoPage /\ Node(t) > 1
HasNext(t) == page[ki[t].kp].noff # NoPage
PrevNode(t) == list[Hash(req[t].key)][Node(t) - 1]
NextNode(t) == list[Hash(req[t].key)][Node(t) + 1]

\* the undo of the write to the previous page: its next offset before
NextUndoLost(t) == Undo("noff", "k", PrevNode(t), NoPage)
NextUndo(t)     == Undo("noff", "k", PrevNode(t), page[PrevNode(t)].noff)

\* keyFile->writeNextOffset(prev_kpoff, prev_kp, next_kpoff)
RemoveUnlinkNext(t) ==
    LET pg == page[ki[t].kp]
    IN  /\ mode = "up" /\ pc[t] = "unlink next" /\ HasPrev(t)
        /\ kfile' = [kfile EXCEPT ![pg.poff].noff = pg.noff]
        /\ page' = [page EXCEPT ![PrevNode(t)].noff = pg.noff]
        /\ Record(t, NextUndo(t))
        /\ Goto(t, "unlink prev")
        /\ UNCHANGED <<mode, ksize, vfile, vsize, list, offset, kfree, vfree,
                       req, ki, acked, failed>>

AtUnlinkPrev(t) == pc[t] = "unlink prev" \/ (pc[t] = "unlink next" /\ ~HasPrev(t))

\* keyFile->writePrevOffset(next_kpoff, next_kp, prev_kpoff)
RemoveUnlinkPrev(t) ==
    LET pg == page[ki[t].kp]
    IN  /\ mode = "up" /\ AtUnlinkPrev(t) /\ HasNext(t)
        /\ kfile' = [kfile EXCEPT ![pg.noff].poff = pg.poff]
        /\ page' = [page EXCEPT ![NextNode(t)].poff = pg.poff]
        /\ Record(t, Undo("poff", "k", NextNode(t), page[NextNode(t)].poff))
        /\ Goto(t, "drop page")
        /\ UNCHANGED <<mode, ksize, vfile, vsize, list, offset, kfree, vfree,
                       req, ki, acked, failed>>

\* removeKeyPageNode, cache->free and keyFile->freePage
RemoveDropPage(t) ==
    LET b == Hash(req[t].key)
        l == RemoveAt(list[b], Node(t))
    IN  /\ mode = "up" /\ (pc[t] = "drop page" \/ (AtUnlinkPrev(t) /\ ~HasNext(t)))
        /\ list' = [list EXCEPT ![b] = l]
        /\ offset' = IF Node(t) > 1 THEN offset
                     ELSE [offset EXCEPT ![b] = IF l = << >> THEN NoPage ELSE l[1]]
        /\ page' = [page EXCEPT ![ki[t].kp] = ZeroKeyPage]
        /\ kfree' = Append(kfree, ki[t].kp)
        /\ Goto(t, "free")
        /\ UNCHANGED <<mode, disk, vfree, req, ki, ustk, acked, failed>>

\* the value page is marked deleted and never given back
RemoveFreeValueNever(t) ==
    /\ mode = "up" /\ pc[t] = "free"
    /\ Return(t, {NoValue})
    /\ UNCHANGED <<mode, disk, memory, failed>>

\* valueFile->freePage(ki.ki_voff)
RemoveFreeValue(t) ==
    /\ mode = "up" /\ pc[t] = "free"
    /\ vfree' = Append(vfree, ki[t].voff)
    /\ vfile' = [vfile EXCEPT ![ki[t].voff] = FreeValuePage(@)]
    /\ kfile' = [kfile EXCEPT ![ki[t].kp] =
                   IF \E u \in Threads \ {t} : ki[u].kp = ki[t].kp THEN @ ELSE FreeKeyPage(@)]
    /\ Return(t, {NoValue})
    /\ UNCHANGED <<mode, ksize, vsize, page, list, offset, kfree, failed>>

-----------------------------------------------------------------------------
(* Rdb::open, Rdb::close and a crash of the process                         *)

\* the pages of S below the end of the file, the end of the file first
Scanned(size, S) == <<size>> \o SetToSortSeq({p \in S : p < size}, <)

KeyPageIsFree(p) == kfile[p].del \/ kfile[p].vcount <= 0

\* the first page of each entry that populateHashTable meets
FirstPage(b) ==
    LET heads == {p \in KPages : p < ksize /\ ~KeyPageIsFree(p)
                                 /\ kfile[p].poff = NoPage /\ kfile[p].hash = b}
    IN  IF heads = {} THEN NoPage ELSE CHOOSE p \in heads : \A q \in heads : p <= q

\* bound: a database in which a write failed, or a remove was cut short, is not
\* opened again
open ==
    /\ mode = "down" /\ failed = << >> /\ cut = {}
    /\ mode' = "up"
    /\ offset' = [b \in Buckets |-> FirstPage(b)]
    /\ kfree' = Scanned(ksize, {p \in KPages : KeyPageIsFree(p)})
    /\ vfree' = Scanned(vsize, {p \in VPages : vfile[p].del})
    /\ UNCHANGED <<disk, page, list, thread, acked, failed>>

\* the memory of the process is gone
Gone ==
    /\ mode' = "down"
    /\ page' = [p \in KPages |-> ZeroKeyPage]
    /\ list' = [b \in Buckets |-> << >>]
    /\ offset' = [b \in Buckets |-> NoPage]
    /\ kfree' = << >> /\ vfree' = << >>
    /\ UNCHANGED <<disk, failed>>

close ==
    /\ mode = "up" /\ \A t \in Threads : pc[t] = "idle"
    /\ Gone
    /\ UNCHANGED <<thread, acked>>

\* a remove has marked the first page of its entry deleted, and the next page is
\* not the first one yet
Beheaded(t) == pc[t] \in {"unlink next", "unlink prev"} /\ ~HasPrev(t) /\ HasNext(t)

\* the operation a thread was in may or may not have taken effect
Crash ==
    /\ mode = "up" /\ db.crashes
    /\ Gone
    /\ pc' = [t \in Threads |-> "idle"]
    /\ req' = [t \in Threads |-> NoReq]
    /\ ki' = [t \in Threads |-> NoKi]
    /\ ustk' = [t \in Threads |-> << >>]
    /\ acked' = [k \in Keys |-> acked[k] \cup
                   {req[t].val : t \in {u \in Threads : pc[u] # "idle" /\ req[u].key = k}}]
    /\ cut' = {[key |-> req[t].key, beheaded |-> Beheaded(t)] :
                 t \in {u \in Threads : pc[u] # "idle" /\ req[u].op = "remove"}}

-----------------------------------------------------------------------------
(* A write that fails, and UnwindStack::execute, which takes back the steps  *)
(* that preceded it                                                         *)

Fault(t) ==
    /\ mode = "up" /\ Len(failed) < db.faults
    /\ failed' = Append(failed, req[t].key)

\* the operation returns an error and the caller expects what it did before
ReturnError(t) == Return(t, acked[req[t].key])

\* valueFile->write in place, the get() of its page manager, or the first
\* writeFlags of remove: nothing to undo
FirstWriteFails(t) ==
    /\ pc[t] \in {"overwrite", "value", "mark"} /\ Fault(t)
    /\ ReturnError(t)
    /\ UNCHANGED <<mode, disk, memory>>

\* ValueFile::write(int64_t *) frees the page it took and returns E_ok; the
\* offset stays -1
SetValueFails(t) ==
    /\ pc[t] = "value" /\ TopOf(vfree) \in VPages /\ Fault(t)
    /\ ustk' = [ustk EXCEPT ![t] = <<Undo("free", "v", NoPage, 0), Undo("flags", "v", NoPage, TRUE)>>]
    /\ vfree' = Returned(vfree)
    /\ Goto(t, "index")
    /\ UNCHANGED <<mode, disk, page, list, offset, kfree, req, ki, acked>>

\* processKeyPages(SET) fails to write the page; the record stays in memory
SetIndexFails(t) ==
    LET b == Hash(req[t].key)
        i == CHOOSE i \in Room(b) : \A j \in Room(b) : i <= j
    IN  /\ pc[t] = "index" /\ Room(b) # {} /\ Fault(t)
        /\ page' = [page EXCEPT ![list[b][i]] = PutRecord(@, req[t].key, ki[t].voff)]
        /\ Goto(t, "unwind")
        /\ UNCHANGED <<mode, disk, list, offset, kfree, vfree, req, ki, ustk, acked>>

\* addNewPage fails to write the new page, or to link it: cache->free(kpn)
SetNewPageFails(t) ==
    /\ \/ /\ pc[t] = "index" /\ Room(Hash(req[t].key)) = {} /\ TopOf(kfree) \in KPages
          /\ kfree' = Returned(kfree)
          /\ UNCHANGED <<page, ustk>>
       \/ /\ pc[t] = "link"
          /\ page' = [page EXCEPT ![ki[t].kp] = ZeroKeyPage]
          /\ ustk' = [ustk EXCEPT ![t] = @ \o <<Undo("free", "k", ki[t].kp, 0),
                                               Undo("flags", "k", ki[t].kp, TRUE)>>]
          /\ UNCHANGED kfree
    /\ Fault(t)
    /\ Goto(t, "unwind")
    /\ UNCHANGED <<mode, disk, list, offset, vfree, req, ki, acked>>

\* processKeyPages(DEL) fails to write the page, which an ASSERT forbids
RemoveUnindexFails(t) ==
    /\ pc[t] = "unindex" /\ page[ki[t].kp].vcount > 1
    /\ Fault(t)
    /\ page' = [page EXCEPT ![ki[t].kp] = RemoveRecord(@, req[t].key)]
    /\ mode' = "unable to delete the key"
    /\ UNCHANGED <<disk, list, offset, kfree, vfree, thread, acked>>

\* a write to the key page that became empty, or to a neighbour, fails
RemovePageFails(t) ==
    /\ \/ pc[t] = "delete page"
       \/ pc[t] = "unlink next" /\ HasPrev(t)
       \/ AtUnlinkPrev(t) /\ HasNext(t)
    /\ Fault(t)
    /\ Goto(t, "unwind")
    /\ UNCHANGED <<mode, disk, memory, req, ki, ustk, acked>>

\* valueFile->freePage fails, when a key page that became empty is given back
\* already.  That of the key file cannot: its page manager has no file.
RemoveFreeValueFails(t) ==
    /\ pc[t] = "free" /\ Fault(t)
    /\ Goto(t, "unwind")
    /\ relinked' = IF ki[t].kp \in Loaded(Hash(req[t].key)) THEN relinked
                   ELSE relinked \cup {Hash(req[t].key)}
    /\ UNCHANGED <<mode, disk, memory, req, ki, ustk, acked>>

\* one entry of the undo stack
execute(t) ==
    LET u == Last(ustk[t])
    IN  /\ mode = "up" /\ pc[t] = "unwind" /\ ustk[t] # << >>
        /\ ustk' = [ustk EXCEPT ![t] = Front(@)]
        /\ mode' = IF u.off = NoPage THEN "failed to unwind operation" ELSE "up"
        /\ vfile' = IF u.file = "k" \/ u.off = NoPage THEN vfile
                    ELSE [vfile EXCEPT ![u.off] = IF u.op = "flags" THEN [@ EXCEPT !.del = u.arg]
                                                  ELSE FreeValuePage(@)]
        /\ kfile' = IF u.file = "v" THEN kfile
                    ELSE CASE u.op = "flags" -> [kfile EXCEPT ![u.off] = FlagsWritten(@, u.arg)]
                           [] u.op = "noff"  -> [kfile EXCEPT ![u.off].noff = u.arg]
                           [] u.op = "poff"  -> [kfile EXCEPT ![u.off].poff = u.arg]
                           [] OTHER          -> [kfile EXCEPT ![u.off] = FreeKeyPage(@)]
        /\ page' = IF u.file = "v" THEN page
                   ELSE CASE u.op = "flags" -> [page EXCEPT ![u.off].del = u.arg]
                          [] u.op = "noff"  -> [page EXCEPT ![u.off].noff = u.arg]
                          [] u.op = "poff"  -> [page EXCEPT ![u.off].poff = u.arg]
                          [] OTHER          -> page
        /\ vfree' = IF u.op = "free" /\ u.file = "v" THEN Append(vfree, u.off) ELSE vfree
        /\ kfree' = IF u.op = "free" /\ u.file = "k" THEN Append(kfree, u.off) ELSE kfree
        /\ UNCHANGED <<ksize, vsize, list, offset, pc, req, ki, acked, failed>>

\* a write of the undo stack fails, which an ASSERT forbids
executeFails(t) ==
    /\ mode = "up" /\ pc[t] = "unwind" /\ ustk[t] # << >>
    /\ mode' = "failed to unwind operation"
    /\ UNCHANGED <<disk, memory, thread, acked, failed>>

\* the undo stack is empty: the error goes to the caller
Unwound(t) ==
    /\ mode = "up" /\ pc[t] = "unwind" /\ ustk[t] = << >>
    /\ ReturnError(t)
    /\ UNCHANGED <<mode, disk, memory, failed>>

FailedStep(t) ==
    \/ FirstWriteFails(t) \/ SetValueFails(t) \/ SetIndexFails(t) \/ SetNewPageFails(t)
    \/ RemoveUnindexFails(t) \/ RemovePageFails(t) \/ execute(t) \/ executeFails(t)
    \/ Unwound(t)

-----------------------------------------------------------------------------
Step(t) ==
    \/ \E k \in Keys : RemoveBegin(t, k)
    \/ \E k \in Keys, v \in Vals, u \in BOOLEAN : SetBegin(t, k, v, u)
    \/ SetOverwrite(t) \/ SetValue(t) \/ SetIndex(t) \/ SetNewPage(t) \/ SetLink(t)
    \/ RemoveMark(t) \/ RemoveUnindex(t) \/ RemoveLast(t) \/ RemoveDeletePage(t)
    \/ RemoveUnlinkNext(t) \/ RemoveUnlinkPrev(t) \/ RemoveDropPage(t)
    \/ RemoveFreeValue(t)

\* bound: a behaviour is followed until the key of a failed operation is tried
\* again, or an entry of relinked is used again
Next ==
    /\ ~retried /\ UNCHANGED db
    /\ \/ Crash /\ UNCHANGED relinked
       \/ /\ UNCHANGED cut
          /\ \/ \E t \in Threads : RemoveFreeValueFails(t)
             \/ /\ UNCHANGED relinked
                /\ \/ open \/ close
                   \/ \E k \in Keys : get(k)
                   \/ \E t \in Threads : Step(t) \/ FailedStep(t)
    /\ retried' = \/ \E t \in Threads : /\ pc[t] = "idle" /\ pc'[t] # "idle"
                                         /\ \/ req'[t].key \in Range(failed)
                                            \/ Hash(req'[t].key) \in relinked
                  \/ \E b \in relinked : list'[b] # list[b]

Spec == Init /\ [][Next]_vars

-----------------------------------------------------------------------------
(* Properties                                                               *)

TypeOK ==
    /\ mode \in {"up", "down", "value page offset is not set",
                 "value is already deleted", "key mismatch",
                 "unable to delete the key", "failed to unwind operation"}
    /\ kfile \in [KPages -> KeyPage] /\ page \in [KPages -> KeyPage]
    /\ vfile \in [VPages -> [del : BOOLEAN, key : Keys \cup {NoValue}, val : Vals \cup {NoValue}]]
    /\ ksize \in 0 .. MaxKeyPage + 1 /\ vsize \in 0 .. MaxValuePage + 1
    /\ list \in [Buckets -> Seq(KPages)]
    /\ offset \in [Buckets -> KPages \cup {NoPage}]
    /\ kfree \in Seq(0 .. MaxKeyPage + 1) /\ vfree \in Seq(0 .. MaxValuePage + 1)
    /\ acked \in [Keys -> SUBSET (Vals \cup {NoValue})]
    /\ failed \in Seq(Keys) /\ relinked \in SUBSET Buckets
    /\ cut \in SUBSET [key : Keys, beheaded : BOOLEAN]

\* what a value page holds for key k
Content(k, voff) ==
    IF voff = Absent THEN NoValue
    ELSE IF voff = NoPage \/ vfile[voff].del \/ vfile[voff].key # k THEN "bad"
    ELSE vfile[voff].val

Lookup(s, k, pg) ==
    LET n == FirstWith(s, k, pg)
    IN  IF n = 0 THEN NoValue ELSE Content(k, pg[s[n]].voff[k])

\* the value get() would return now, and the one it would after a restart
Visible(k) == Lookup(Walk(Hash(k)), k, Pages(Hash(k)))
DiskPath(b) == Follow(FirstPage(b), kfile)
Durable(k) == Lookup(DiskPath(Hash(k)), k, kfile)

\* Read your writes: whenever no operation is under way on a hash entry, a
\* lookup of each of its keys gives the value of the last set or remove that
\* returned, whatever other threads do to other entries and however often the
\* database is closed and opened in between (Rdb::get, set, remove).
ReadsLastWrite ==
    (mode = "up" /\ failed = << >>) =>
      \A k \in Keys : ~Busy(Hash(k)) => Visible(k) \in acked[k]

\* Write-through: whenever no operation is under way on a hash entry, the key
\* pages in memory and the files agree on every key of the entry, so a restart
\* at that moment loses nothing.
DiskAgrees ==
    (mode = "up" /\ failed = << >>) =>
      \A k \in Keys : ~Busy(Hash(k)) => Durable(k) = Visible(k)

Occurrences(s, p) == Cardinality({i \in DOMAIN s : s[i] = p})

\* Page accounting: unless the process crashed or a write failed, when no
\* operation is under way every page of the two files below the end-of-file
\* entry is in exactly one place - once on its free stack, or in the list of
\* exactly one hash entry (key pages), or in the record of exactly one key
\* (value pages).
PagesAccounted ==
    (mode = "up" /\ ~db.crashes /\ failed = << >> /\ \A t \in Threads : pc[t] = "idle") =>
      /\ \A p \in 0 .. kfree[1] - 1 :
           Occurrences(kfree, p)
             + Cardinality({b \in Buckets : p \in Range(Walk(b))}) = 1
      /\ \A p \in 0 .. vfree[1] - 1 :
           Occurrences(vfree, p)
             + Cardinality({k \in Keys : \E q \in Range(Walk(Hash(k))) :
                              PageOf(Hash(k), q).voff[k] = p}) = 1

\* The two together; and no assertion of the store fails before a write does.
FilesAgree == DiskAgrees /\ PagesAccounted /\ (failed = << >> => mode \in {"up", "down"})

\* A failed operation harms no other key of the open database, neither when the
\* undo stack has taken it back nor while other keys are set and removed later
\* (UnwindStack, Rdb::set, Rdb::remove) - until its own key is tried again.  The
\* undo stack frees the value page of a failed set and leaves the record in the
\* key page in memory; a later remove or set of the key marks or overwrites that
\* page, which may be another key's by then.  A remove that fails in the freePage
\* of the value file has given its key page back, and the undo leads the chain to
\* that page again: there it is the use of the same hash entry that does harm.
FailureSparesOthers ==
    (mode = "up" /\ failed # << >> /\ ~retried) =>
      \A k \in Keys \ Range(failed) : ~Busy(Hash(k)) => Visible(k) \in acked[k]

\* The same of the files: an operation that was taken back has restored the
\* flags it wrote ("restoring flags", unwind.cpp), and a restart finds every
\* other key.
UndoRestoresFiles ==
    (mode = "up" /\ failed # << >>) =>
      \A k \in Keys \ Range(failed) : ~Busy(Hash(k)) => Durable(k) \in acked[k]

\* A restart reads what was acknowledged: an acknowledged set survives a crash
\* inside any set, of this key or another, and a crash inside the remove of
\* another key, at any of its writes but one: between marking the first page of
\* the entry deleted and making the next page the first one, all keys of the
\* entry are lost.  Of the key that was being removed nothing is said: its record
\* may lead to a value page that is marked deleted (Rdb::set, Rdb::remove,
\* populateHashTable).
AckedSurvives ==
    db.crashes =>
      \A k \in Keys :
        Busy(Hash(k)) \/ Durable(k) \in acked[k]
        \/ \E c \in cut : c.key = k \/ (c.beheaded /\ Hash(c.key) = Hash(k))

\* the databases whose callers only set
SetsOnly == db.crashes /\ db.ops = {"set"}

KV == INSTANCE KeyValueStore
        WITH map   <- [k \in Keys |-> IF SetsOnly THEN Durable(k) ELSE NoValue],
             asked <- [k \in Keys |-> {req[t].val : t \in {u \in Threads : req[u].key = k}}]

\* A set is atomic on disk: whatever a crash cuts short, what a restart would
\* read changes one key at a time, and only to the value that a set of that key
\* under way was given - the value page is written before the key page that
\* refers to it, and a new key page before the link to it (Rdb::set,
\* Rdb::addNewPage).  A remove is not atomic, see AckedSurvives.
CrashAtomic == KV!Spec
=============================================================================
