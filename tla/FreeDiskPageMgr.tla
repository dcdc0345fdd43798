-------------------------- MODULE FreeDiskPageMgr --------------------------
(***************************************************************************)
(* The free disk page manager of librdb (librdb/src/fdpmgr.cpp), with the  *)
(* page file it serves (KeyFile or ValueFile of dbfiles.cpp) and the scan  *)
(* that rebuilds it when the database is opened (populateFreePages and     *)
(* populateHashTable of rdb.cpp).                                          *)
(*                                                                         *)
(* A disk offset is a page number: the code asserts that every offset is a *)
(* multiple of the page size.  The threads are the callers: a thread takes *)
(* a page, writes it, and later marks a page deleted and gives it back.    *)
(***************************************************************************)
EXTENDS Integers, Sequences, FiniteSets, Stacks

CONSTANTS
    Threads,       \* the threads that set and remove keys
    MaxPage,       \* bound: no page beyond this one is ever handed out
    ZeroIsFree,    \* TRUE for the key file: a never-written (zero) page in
                   \* the file is free; FALSE for the value file: it is live
    FileBacked,    \* TRUE for the value file: the stack is mirrored in .fdp
    MaxFaults,     \* bound: the disk operations that fail
    ShortWrites,   \* TRUE when a failing append may leave part of an entry
    FailingReads   \* TRUE when a read of the .fdp file may fail

ASSUME BoundsAssumption == MaxPage \in Nat /\ MaxFaults \in Nat
ASSUME FlagsAssumption ==
    /\ ZeroIsFree \in BOOLEAN
    /\ FileBacked \in BOOLEAN
    /\ ShortWrites \in BOOLEAN
    /\ FailingReads \in BOOLEAN

VARIABLES
    mode,            \* "up", "down" (closed or crashed), "aborted" (ASSERT)
    nextFreeOffset,  \* the stack of free pages, its top is the last element
    fsize,           \* the entries the manager believes the .fdp file has
    file,            \* the whole entries of the .fdp file
    torn,            \* TRUE when part of an entry follows them
    size,            \* the pages in the page file
    cut,             \* TRUE when the last of them is not there in whole
    flags,           \* what is on disk for each page
    got,             \* the page a thread took and has not written yet
    dropped,         \* the page a thread marked deleted and has not freed yet
    held,            \* the pages whose contents are in use
    faults           \* the disk operations that have failed so far

mgr  == <<nextFreeOffset, fsize, file, torn>>
disk == <<size, cut, flags>>
vars == <<mode, mgr, disk, got, dropped, held, faults>>

NoPage == -1
Pages  == 0 .. MaxPage

TypeOK ==
    /\ mode \in {"up", "down", "aborted"}
    /\ nextFreeOffset \in Seq(Int)
    /\ fsize \in Int
    /\ file \in Seq(Int)
    /\ torn \in BOOLEAN
    /\ size \in Nat
    /\ cut \in BOOLEAN
    /\ flags \in [Pages -> {"zero", "live", "deleted"}]
    /\ got \in [Threads -> Pages \cup {NoPage}]
    /\ dropped \in [Threads -> Pages \cup {NoPage}]
    /\ held \subseteq Pages
    /\ faults \in 0 .. MaxFaults

Init ==
    /\ mode = "down"
    /\ nextFreeOffset = << >>
    /\ fsize = 0
    /\ file = << >>
    /\ torn = FALSE
    /\ size = 0
    /\ cut = FALSE
    /\ flags = [p \in Pages |-> "zero"]
    /\ got = [t \in Threads |-> NoPage]
    /\ dropped = [t \in Threads |-> NoPage]
    /\ held = {}
    /\ faults = 0

-----------------------------------------------------------------------------
(* The .fdp file.  Its file pointer is behind the entries the manager      *)
(* knows of, fsize: there may be more, which a failed read did not reach.  *)
(* An append that lands behind part of an entry is out of step with the    *)
(* reader, which then sees an offset made of two halves: a page number far *)
(* beyond the end of the page file.                                        *)

\* n disk operations fail
Fail(n) == faults + n <= MaxFaults /\ faults' = faults + n

Misread(p) == 2 * (MaxPage + 1) + p

\* addOffsetToFile succeeds: write() at the file pointer
addOffsetToFile(p) ==
    IF FileBacked
    THEN /\ fsize' = fsize + 1
         /\ file' = Append(SubSeq(file, 1, fsize), IF torn THEN Misread(p) ELSE p)
                       \o SubSeq(file, fsize + 2, Len(file))
         /\ UNCHANGED torn
    ELSE UNCHANGED <<fsize, file, torn>>

\* addOffsetToFile fails on a file of whole entries es, of which the manager
\* knows n: nothing, or part of the entry, reaches the file (bound: only the end
\* of the file is torn)
addOffsetFails(es, n, partial) ==
    /\ FileBacked
    /\ fsize' = n
    /\ file' = es
    /\ \/ torn' = partial
       \/ ShortWrites /\ n = Len(es) /\ torn' = TRUE

\* truncate() refuses a negative size, so removing fails on fsize = 0
CanRemove == ~FileBacked \/ fsize > 0

\* removeOffsetFromFile succeeds: truncate() also drops a partial entry and the
\* entries behind the last one the manager knows of
Truncated == SubSeq(file, 1, fsize - 1)

removeOffsetFromFile ==
    IF FileBacked
    THEN /\ fsize' = fsize - 1
         /\ file' = Truncated
         /\ torn' = FALSE
    ELSE UNCHANGED <<fsize, file, torn>>

-----------------------------------------------------------------------------
(* FreeDiskPageMgr::get and KeyFile/ValueFile::write(int64_t *, ...)        *)

\* the offset get() returns, and the stack without it
OffsetPlusOne == Top(nextFreeOffset) + 1
Offset        == Top(nextFreeOffset)
RestUnpopped  == nextFreeOffset
Rest          == Pop(nextFreeOffset)

\* get() with other pages below the top of the stack
GetRecycled(t) ==
    /\ mode = "up" /\ got[t] = NoPage /\ dropped[t] = NoPage
    /\ Len(nextFreeOffset) > 1
    /\ Top(nextFreeOffset) \in Pages
    /\ CanRemove
    /\ nextFreeOffset' = Rest
    /\ removeOffsetFromFile
    /\ got' = [got EXCEPT ![t] = Offset]
    /\ UNCHANGED <<mode, disk, dropped, held, faults>>

\* a get() that extends the page file whatever else is free
GetFreshEagerly(t) ==
    /\ mode = "up" /\ got[t] = NoPage /\ dropped[t] = NoPage
    /\ nextFreeOffset # << >> /\ nextFreeOffset[1] \in Pages
    /\ nextFreeOffset' = [nextFreeOffset EXCEPT ![1] = @ + 1]
    /\ got' = [got EXCEPT ![t] = nextFreeOffset[1]]
    /\ UNCHANGED <<mode, fsize, file, torn, disk, dropped, held, faults>>

\* get() of the only entry, the end of the page file: the page after it
\* takes its place on the stack and in the .fdp file
GetFresh(t) ==
    /\ mode = "up" /\ got[t] = NoPage /\ dropped[t] = NoPage
    /\ Len(nextFreeOffset) = 1
    /\ Top(nextFreeOffset) \in Pages
    /\ CanRemove
    /\ nextFreeOffset' = <<Top(nextFreeOffset) + 1>>
    /\ IF FileBacked
       THEN /\ fsize' = fsize
            /\ file' = Append(Truncated, Top(nextFreeOffset) + 1)
            /\ torn' = FALSE
       ELSE UNCHANGED <<fsize, file, torn>>
    /\ got' = [got EXCEPT ![t] = Offset]
    /\ UNCHANGED <<mode, disk, dropped, held, faults>>

\* get() whose append fails after the truncate: "undo push", "undo pop"
\* put the stack back, nothing puts the .fdp file back
GetFreshFails(t) ==
    /\ mode = "up" /\ got[t] = NoPage /\ dropped[t] = NoPage
    /\ Len(nextFreeOffset) = 1
    /\ CanRemove
    /\ addOffsetFails(Truncated, fsize - 1, FALSE)
    /\ Fail(1)
    /\ UNCHANGED <<mode, nextFreeOffset, disk, got, dropped, held>>

\* the page write that follows get(), KeyFile/ValueFile::write; a page
\* written beyond the end of the file leaves zero pages in between
WritePage(t) ==
    /\ mode = "up" /\ got[t] # NoPage
    /\ flags' = [flags EXCEPT ![got[t]] = "live"]
    /\ size' = IF got[t] >= size THEN got[t] + 1 ELSE size
    /\ cut' = (cut /\ got[t] < size - 1)
    /\ held' = held \cup {got[t]}
    /\ got' = [got EXCEPT ![t] = NoPage]
    /\ UNCHANGED <<mode, mgr, dropped, faults>>

\* the page write fails, having written nothing or a part of the page that has
\* the page header in it, and fdpMgr->free(newOffset) follows
WritePageFails(t) ==
    /\ mode = "up" /\ got[t] # NoPage
    /\ \/ UNCHANGED disk
       \/ /\ flags' = [flags EXCEPT ![got[t]] = "live"]
          /\ size' = IF got[t] >= size THEN got[t] + 1 ELSE size
          /\ cut' = (cut \/ got[t] >= size)
    /\ \/ /\ nextFreeOffset' = Push(nextFreeOffset, got[t])
          /\ addOffsetToFile(got[t])
          /\ Fail(1)
       \/ /\ addOffsetFails(file, fsize, torn)
          /\ Fail(2)
          /\ UNCHANGED nextFreeOffset
    /\ got' = [got EXCEPT ![t] = NoPage]
    /\ UNCHANGED <<mode, dropped, held>>

-----------------------------------------------------------------------------
(* Giving a page back: writeFlags(..., DELETED), then freePage              *)

DropPage(t, p) ==
    /\ mode = "up" /\ got[t] = NoPage /\ dropped[t] = NoPage
    /\ p \in held
    /\ flags' = [flags EXCEPT ![p] = "deleted"]
    /\ dropped' = [dropped EXCEPT ![t] = p]
    /\ held' = held \ {p}
    /\ UNCHANGED <<mode, mgr, size, cut, got, faults>>

FreePage(t) ==
    /\ mode = "up" /\ dropped[t] # NoPage
    /\ nextFreeOffset' = Push(nextFreeOffset, dropped[t])
    /\ addOffsetToFile(dropped[t])
    /\ dropped' = [dropped EXCEPT ![t] = NoPage]
    /\ UNCHANGED <<mode, disk, got, held, faults>>

\* free() whose append fails: "undo push"; the page stays marked deleted
FreePageFails(t) ==
    /\ mode = "up" /\ dropped[t] # NoPage
    /\ addOffsetFails(file, fsize, torn)
    /\ Fail(1)
    /\ dropped' = [dropped EXCEPT ![t] = NoPage]
    /\ UNCHANGED <<mode, nextFreeOffset, disk, got, held>>

-----------------------------------------------------------------------------
(* Closing, crashing and opening the database                               *)

Stop ==
    /\ mode = "up"
    /\ mode' = "down"
    /\ got' = [t \in Threads |-> NoPage]
    /\ dropped' = [t \in Threads |-> NoPage]
    /\ UNCHANGED <<mgr, disk, held, faults>>

\* the scan finds page p of the page file free
FoundDeleted(p) == flags[p] = "deleted"
FoundFree(p) == flags[p] = "deleted" \/ (ZeroIsFree /\ flags[p] = "zero")

\* the pages of S in the order the scan meets them
InScanOrder(S) ==
    {s \in [1 .. Cardinality(S) -> S] :
        /\ \A i, j \in DOMAIN s : i < j => s[i] < s[j]
        /\ \A p \in S : \E i \in DOMAIN s : s[i] = p}

\* the stack after the scan: the end of the page file, then the free pages
ScannedStacks ==
    {<<size>> \o s : s \in InScanOrder({p \in Pages : p < size /\ FoundFree(p)})}

\* init() returns E_ok with k entries on the stack: the next one is there in
\* part, or cannot be read (bound: not in a file that is torn as well)
InitReads(k) ==
    /\ FileBacked
    /\ \/ torn /\ k = Len(file) /\ UNCHANGED faults
       \/ FailingReads /\ ~torn /\ k \in 0 .. Len(file) /\ Fail(1)

\* init() reads the .fdp file to its end and returns E_eof_detected, or there
\* is no .fdp file: the page file is scanned
Scans == ~FileBacked \/ ~torn

\* the scan: the .fdp file is emptied first and receives every page that goes on
\* the stack
OpenByScan ==
    /\ mode # "up"
    /\ Scans /\ ~cut
    /\ nextFreeOffset' \in ScannedStacks
    /\ IF FileBacked
       THEN /\ file' = nextFreeOffset'
            /\ fsize' = Len(nextFreeOffset')
       ELSE UNCHANGED <<file, fsize>>
    /\ mode' = "up"
    /\ UNCHANGED <<torn, disk, got, dropped, held, faults>>

\* a write to the .fdp file, or a read of the page file, fails during the scan
\* and open() returns the error
OpenByScanFails ==
    /\ mode # "up"
    /\ Scans /\ ~cut
    /\ \E s \in ScannedStacks : \E n \in 0 .. Len(s) - 1 :
          addOffsetFails(SubSeq(s, 1, n), n, FALSE)
    /\ Fail(1)
    /\ mode' = "down"
    /\ UNCHANGED <<nextFreeOffset, disk, got, dropped, held>>

\* init() returns E_ok: what was read is the stack, and the file pointer is
\* where the reading stopped
OpenFromFile ==
    /\ mode # "up"
    /\ \E k \in 1 .. Len(file) :
          /\ InitReads(k)
          /\ nextFreeOffset' = SubSeq(file, 1, k)
          /\ fsize' = k
    /\ mode' = "up"
    /\ UNCHANGED <<file, torn, disk, got, dropped, held>>

\* an ASSERT of free() fails.  init() returned E_ok with an empty stack:
\* valueFile->size() is called but vfsize stays -1, which is not an offset.  Or
\* the page file ends within a page, and its size is not aligned
OpenAborts ==
    /\ mode # "up"
    /\ \/ InitReads(0)
       \/ Scans /\ cut /\ UNCHANGED faults
    /\ mode' = "aborted"
    /\ UNCHANGED <<mgr, disk, got, dropped, held>>

Next ==
    \/ \E t \in Threads :
         \/ GetRecycled(t) \/ GetFresh(t) \/ GetFreshFails(t)
         \/ WritePage(t) \/ WritePageFails(t)
         \/ \E p \in Pages : DropPage(t, p)
         \/ FreePage(t) \/ FreePageFails(t)
    \/ Stop \/ OpenByScan \/ OpenByScanFails \/ OpenFromFile \/ OpenAborts

Spec == Init /\ [][Next]_vars

-----------------------------------------------------------------------------
(* Properties                                                               *)

IsFree(p) == InStack(p, nextFreeOffset)

Distinct(s) == \A i, j \in 1 .. Len(s) : s[i] = s[j] => i = j

\* what thread t took or is about to free is its own: not free, not in use
Private(t, p) ==
    p # NoPage => ~IsFree(p) /\ p \notin held
               /\ \A u \in Threads \ {t} : p \notin {got[u], dropped[u]}

\* No page is handed out twice: a page in use, taken by a thread or about to
\* be freed is not on the free stack of an open database, no page is on the
\* stack twice, and two threads never hold the same page.  This covers get()
\* racing get() and free(), the undo paths of fdpmgr.cpp, and the stack that
\* rdb.cpp rebuilds from the page flags after a crash.
NoDoubleAllocation ==
    mode = "up" =>
      /\ \A p \in held : ~IsFree(p)
      /\ \A t \in Threads : Private(t, got[t]) /\ Private(t, dropped[t])
      /\ Distinct(nextFreeOffset)

\* No page is lost: every page before the end-of-file entry at the bottom of
\* the stack is free, in use, or in the hands of a thread.  For the key file,
\* where the scan takes a never-written page for a free one, this survives a
\* crash between get() and the page write.
NoLostPage ==
    mode = "up" =>
      \A p \in 0 .. nextFreeOffset[1] - 1 :
        \/ IsFree(p) \/ p \in held
        \/ \E t \in Threads : p \in {got[t], dropped[t]}

\* The file grows only when nothing is free: the page file is extended (get()
\* returns the end of the file) only if no other page is on the stack, so a
\* freed page is reused before the file grows ("free disk pages can be
\* reused", fdpmgr.h).
ReuseBeforeGrowth ==
    [][\A t \in Threads :
         (got[t] = NoPage /\ got'[t] # NoPage /\ got'[t] >= nextFreeOffset[1])
           => \A p \in Pages : IsFree(p) => p = got'[t]]_vars

\* The ASSERTs of FreeDiskPageMgr::free, "invalid offset (%d) specified" and
\* "offset (%d) is not correctly aligned", fail only in a database on which a
\* disk operation failed before: no order of gets, frees, crashes and reopens
\* frees the offset -1 or leaves a page file that cannot be opened.
FreedOffsetIsValid == mode = "aborted" => faults > 0
=============================================================================
