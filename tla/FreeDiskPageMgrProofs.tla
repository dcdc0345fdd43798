----------------------- MODULE FreeDiskPageMgrProofs -----------------------
(***************************************************************************)
(* NoDoubleAllocation for every number of threads, pages and disk faults,  *)
(* provided that a failing append to the .fdp file leaves nothing behind   *)
(* and that the reads of that file succeed (WholeFile).                    *)
(*                                                                         *)
(* NoDoubleAllocation is not inductive.  A fresh page is safe to hand out  *)
(* only because the bottom of the stack is an upper bound of every other   *)
(* page number in circulation (Watermark), and the stack that the scan     *)
(* rebuilds is safe only because a page in use is marked live on disk      *)
(* (HeldIsLive) and lies within the page file.                             *)
(***************************************************************************)
EXTENDS FreeDiskPageMgr, SequenceTheorems, FiniteSetTheorems, TLAPS

-----------------------------------------------------------------------------
(* Stacks                                                                   *)

\* Pushing keeps the entries below the new top where they are
\* (std::stack::push).
LEMMA PushFacts ==
    ASSUME NEW s \in Seq(Int), NEW e \in Int
    PROVE  /\ Push(s, e) \in Seq(Int)
           /\ Len(Push(s, e)) = Len(s) + 1
           /\ \A i \in 1 .. Len(s) : Push(s, e)[i] = s[i]
           /\ Push(s, e)[Len(s) + 1] = e
  BY DEF Push

\* Popping keeps the entries below the top where they are (std::stack::pop).
LEMMA PopFacts ==
    ASSUME NEW s \in Seq(Int), Len(s) >= 1
    PROVE  /\ Pop(s) \in Seq(Int)
           /\ Len(Pop(s)) = Len(s) - 1
           /\ \A i \in 1 .. Len(s) - 1 : Pop(s)[i] = s[i]
           /\ Top(s) \in Int
<1> DEFINE n == Len(s) - 1
<1>1. n \in Nat /\ \A i \in 1 .. n : s[i] \in Int
  OBVIOUS
<1>2. Top(s) \in Int
  BY DEF Top
<1>3. \A i \in 1 .. n : SubSeq(s, 1, n)[i] = s[i]
  OBVIOUS
<1> HIDE DEF n
<1>4. /\ SubSeq(s, 1, n) \in Seq(Int)
      /\ Len(SubSeq(s, 1, n)) = IF 1 <= n THEN n - 1 + 1 ELSE 0
  BY <1>1, SubSeqProperties
<1>5. Len(SubSeq(s, 1, n)) = n
  BY <1>1, <1>4
<1> QED
  BY <1>2, <1>3, <1>4, <1>5 DEF n, Pop

\* An element of a pushed stack was there before or is the one pushed.
LEMMA InPushed ==
    ASSUME NEW s \in Seq(Int), NEW e \in Int, NEW x
    PROVE  InStack(x, Push(s, e)) <=> (InStack(x, s) \/ x = e)
<1> DEFINE r == Push(s, e)
<1>0. Len(s) \in Nat
  OBVIOUS
<1>1. /\ Len(r) = Len(s) + 1
      /\ \A i \in 1 .. Len(s) : r[i] = s[i]
      /\ r[Len(s) + 1] = e
  BY PushFacts, Zenon
<1> HIDE DEF r
<1>2. ASSUME InStack(x, s) PROVE InStack(x, r)
  <2>1. PICK i \in 1 .. Len(s) : s[i] = x
    BY <1>2 DEF InStack
  <2>2. i \in 1 .. Len(r) /\ r[i] = x
    BY <1>0, <1>1, <2>1
  <2> QED
    BY <2>2 DEF InStack
<1>3. InStack(e, r)
  <2>1. Len(s) + 1 \in 1 .. Len(r)
    BY <1>0, <1>1
  <2> QED
    BY <1>1, <2>1 DEF InStack
<1>4. ASSUME InStack(x, r) PROVE InStack(x, s) \/ x = e
  <2>1. PICK i \in 1 .. Len(r) : r[i] = x
    BY <1>4 DEF InStack
  <2>2. CASE i = Len(s) + 1
    BY <1>1, <2>1, <2>2
  <2>3. CASE i # Len(s) + 1
    <3>1. i \in 1 .. Len(s) /\ s[i] = x
      BY <1>0, <1>1, <2>1, <2>3
    <3> QED
      BY <3>1 DEF InStack
  <2> QED
    BY <2>2, <2>3
<1> QED
  BY <1>2, <1>3, <1>4 DEF r

\* An element of a popped stack was on the stack.
LEMMA InPopped ==
    ASSUME NEW s \in Seq(Int), Len(s) >= 1, NEW x, InStack(x, Pop(s))
    PROVE  InStack(x, s)
<1>1. PICK i \in 1 .. Len(Pop(s)) : Pop(s)[i] = x
  BY DEF InStack
<1>2. /\ Len(Pop(s)) = Len(s) - 1
      /\ \A j \in 1 .. Len(s) - 1 : Pop(s)[j] = s[j]
  BY PopFacts, Zenon
<1>3. i \in 1 .. Len(s) /\ s[i] = x
  BY <1>1, <1>2
<1> QED
  BY <1>3 DEF InStack

-----------------------------------------------------------------------------
(* No page is handed out twice                                              *)

\* The bottom of the stack bounds every other page in circulation.
Watermark ==
    mode = "up" =>
      /\ Len(nextFreeOffset) >= 1
      /\ nextFreeOffset[1] >= size
      /\ \A i \in 2 .. Len(nextFreeOffset) :
           nextFreeOffset[i] \in Pages /\ nextFreeOffset[i] < nextFreeOffset[1]
      /\ \A t \in Threads :
           /\ got[t] < nextFreeOffset[1]
           /\ dropped[t] < nextFreeOffset[1]

\* A page in use is marked live and lies within the page file.
HeldIsLive == \A p \in held : flags[p] = "live" /\ p < size

\* A thread has one page in hand at most, and none when the database is not
\* open.
OneInHand ==
    \A t \in Threads :
      /\ got[t] = NoPage \/ dropped[t] = NoPage
      /\ mode # "up" => got[t] = NoPage /\ dropped[t] = NoPage

\* The .fdp file holds whole entries, as many as fsize says.
WholeFile == ~ShortWrites /\ ~FailingReads
FileType == fsize \in Int /\ file \in Seq(Int) /\ torn \in BOOLEAN
FileOK   == torn = FALSE /\ (FileBacked => fsize = Len(file))

\* The types of everything but the .fdp file and the fault counter.
PageType ==
    /\ mode \in {"up", "down", "aborted"}
    /\ nextFreeOffset \in Seq(Int)
    /\ size \in Nat
    /\ flags \in [Pages -> {"zero", "live", "deleted"}]
    /\ got \in [Threads -> Pages \cup {NoPage}]
    /\ dropped \in [Threads -> Pages \cup {NoPage}]
    /\ held \subseteq Pages

\* The inductive invariant: one part about the .fdp file, one about the pages.
PageInv ==
    /\ PageType
    /\ Watermark
    /\ HeldIsLive
    /\ OneInHand
    /\ NoDoubleAllocation

FileInv == FileType /\ FileOK /\ cut \in BOOLEAN /\ faults \in 0 .. MaxFaults

IInv == FileInv /\ PageInv

-----------------------------------------------------------------------------
(* The stack that populateFreePages and populateHashTable rebuild           *)

\* A scanned stack: the end of the page file at the bottom, above it distinct
\* pages of the file that the scan found free.
LEMMA ScanFacts ==
    ASSUME TypeOK, NEW s \in ScannedStacks
    PROVE  /\ s \in Seq(Int)
           /\ Len(s) >= 1
           /\ s[1] = size
           /\ \A i \in 2 .. Len(s) :
                s[i] \in Pages /\ s[i] < size /\ FoundFree(s[i])
           /\ \A i, j \in 1 .. Len(s) : s[i] = s[j] => i = j
<1> DEFINE S == {p \in Pages : p < size /\ FoundFree(p)}
<1>1. Cardinality(S) \in Nat
  <2>1. IsFiniteSet(Pages)
    BY FS_Interval, BoundsAssumption DEF Pages
  <2>2. IsFiniteSet(S)
    BY <2>1, FS_Subset
  <2> QED
    BY <2>2, FS_CardinalityType
<1>2. PICK r \in InScanOrder(S) : s = <<size>> \o r
  BY DEF ScannedStacks
<1> HIDE DEF S
<1>3. /\ r \in [1 .. Cardinality(S) -> S]
      /\ \A i, j \in DOMAIN r : i < j => r[i] < r[j]
  BY <1>2 DEF InScanOrder
<1>4. S \subseteq Int
  BY BoundsAssumption DEF S, Pages
<1>5. r \in Seq(Int) /\ Len(r) = Cardinality(S)
  <2>1. r \in Seq(S)
    BY <1>1, <1>3, SeqDef
  <2>2. r \in Seq(Int)
    BY <2>1, <1>4, SeqMonotonic
  <2>3. DOMAIN r = 1 .. Len(r) /\ Len(r) \in Nat
    BY <2>1, LenProperties
  <2>4. DOMAIN r = 1 .. Cardinality(S)
    BY <1>3
  <2> QED
    BY <2>2, <2>3, <2>4, <1>1
<1>6. size \in Int
  BY DEF TypeOK
<1>7. /\ s \in Seq(Int)
      /\ Len(s) = 1 + Len(r)
      /\ s[1] = size
      /\ \A i \in 2 .. Len(s) : s[i] = r[i - 1]
  BY <1>2, <1>5, <1>6
<1>8. \A i \in 1 .. Len(r) : r[i] \in S
  BY <1>3, <1>5
<1>9. \A i \in 2 .. Len(s) : s[i] \in Pages /\ s[i] < size /\ FoundFree(s[i])
  <2> SUFFICES ASSUME NEW i \in 2 .. Len(s)
               PROVE  s[i] \in S
    BY DEF S
  <2>1. i - 1 \in 1 .. Len(r)
    BY <1>7, <1>5
  <2> QED
    BY <2>1, <1>7, <1>8
<1>10. \A i, j \in 1 .. Len(r) : i < j => r[i] < r[j]
  BY <1>3, <1>5
<1>11. \A i, j \in 1 .. Len(s) : i < j => s[i] # s[j]
  <2> SUFFICES ASSUME NEW i \in 1 .. Len(s), NEW j \in 1 .. Len(s), i < j
               PROVE  s[i] # s[j]
    OBVIOUS
  <2>1. CASE i = 1
    BY <2>1, <1>7, <1>9, <1>6, <1>5, BoundsAssumption DEF Pages
  <2>2. CASE i # 1
    BY <2>2, <1>7, <1>10, <1>8, <1>4, <1>5
  <2> QED
    BY <2>1, <2>2
<1>12. \A i, j \in 1 .. Len(s) : s[i] = s[j] => i = j
  <2>1. \A i, j \in 1 .. Len(s) : i < j \/ j < i \/ i = j
    BY <1>5, <1>7
  <2> QED
    BY <1>11, <2>1
<1> QED
  BY <1>5, <1>7, <1>9, <1>12

-----------------------------------------------------------------------------
(* The .fdp file stays in step with fsize whatever happens to it            *)

\* Appending an entry (addOffsetToFile) keeps the file whole.
LEMMA AddOffsetFile ==
    ASSUME FileType, FileOK, NEW p \in Int, addOffsetToFile(p)
    PROVE  FileType' /\ FileOK'
<1>1. CASE FileBacked
  <2>1. fsize = Len(file) /\ file \in Seq(Int) /\ torn = FALSE /\ fsize \in Int
    BY <1>1 DEF FileType, FileOK
  <2>2. SubSeq(file, 1, fsize) = file /\ SubSeq(file, fsize + 2, Len(file)) = << >>
    BY <2>1
  <2>3. file' = Append(file, p) \o << >> /\ fsize' = fsize + 1 /\ torn' = FALSE
    BY <1>1, <2>1, <2>2, Zenon DEF addOffsetToFile
  <2>4. file' \in Seq(Int) /\ fsize' = Len(file') /\ fsize' \in Int
    BY <2>1, <2>3
  <2> QED
    BY <2>3, <2>4, Zenon DEF FileType, FileOK
<1>2. CASE ~FileBacked
  BY <1>2 DEF FileType, FileOK, addOffsetToFile
<1> QED
  BY <1>1, <1>2

\* An append that fails without a short write keeps the file whole.
LEMMA AddFailsFile ==
    ASSUME WholeFile, NEW es \in Seq(Int), NEW n, n = Len(es), addOffsetFails(es, n, FALSE)
    PROVE  FileType' /\ FileOK'
<1>1. fsize' = Len(es) /\ file' = es
  BY DEF addOffsetFails
<1>2. torn' = FALSE
  BY FlagsAssumption, Zenon DEF addOffsetFails, WholeFile
<1>3. Len(es) \in Int
  OBVIOUS
<1> QED
  BY <1>1, <1>2, <1>3 DEF FileType, FileOK

\* The file without its last entry (file::truncate).
LEMMA TruncatedFile ==
    ASSUME FileType, FileOK, FileBacked, CanRemove
    PROVE  Truncated \in Seq(Int) /\ Len(Truncated) = fsize - 1 /\ fsize - 1 \in Nat
<1>1. fsize = Len(file) /\ file \in Seq(Int) /\ Len(file) >= 1
  BY DEF FileType, FileOK, CanRemove
<1> QED
  BY <1>1, PopFacts DEF Truncated, Pop

\* Truncating the last entry (removeOffsetFromFile) keeps the file whole.
LEMMA RemoveOffsetFile ==
    ASSUME FileType, FileOK, CanRemove, removeOffsetFromFile
    PROVE  FileType' /\ FileOK'
<1>1. CASE FileBacked
  <2>1. fsize' = fsize - 1 /\ file' = Truncated /\ torn' = FALSE
    BY <1>1, Zenon DEF removeOffsetFromFile
  <2>2. fsize' = Len(file') /\ fsize' \in Int /\ file' \in Seq(Int)
    BY <1>1, <2>1, TruncatedFile
  <2> QED
    BY <2>1, <2>2, Zenon DEF FileType, FileOK
<1>2. CASE ~FileBacked
  BY <1>2 DEF FileType, FileOK, removeOffsetFromFile
<1> QED
  BY <1>1, <1>2

-----------------------------------------------------------------------------
(* One lemma per kind of step                                               *)

\* Taking the top of a stack of several pages (GetRecycled).
LEMMA RecycledPages ==
    ASSUME PageInv, NEW t \in Threads, GetRecycled(t)
    PROVE  PageInv'
<1> DEFINE s == nextFreeOffset
<1> DEFINE p == Top(s)
<1>1. /\ mode = "up" /\ mode' = "up"
      /\ got[t] = NoPage /\ dropped[t] = NoPage
      /\ Len(s) > 1 /\ p \in Pages
      /\ nextFreeOffset' = Pop(s)
      /\ got' = [got EXCEPT ![t] = p]
      /\ UNCHANGED <<size, flags, dropped, held>>
  BY DEF GetRecycled, disk, Offset, Rest
<1>2. s \in Seq(Int) /\ Len(s) \in Nat
  BY DEF PageInv, PageType
<1>3. /\ Pop(s) \in Seq(Int)
      /\ Len(Pop(s)) = Len(s) - 1
      /\ \A i \in 1 .. Len(s) - 1 : Pop(s)[i] = s[i]
  <2>1. Len(s) >= 1
    BY <1>1, <1>2
  <2> QED
    BY <2>1, <1>2, PopFacts, Zenon
<1>4. PageType'
  BY <1>1, <1>3 DEF PageInv, PageType
<1>5. p = s[Len(s)] /\ s[1] \in Int /\ p < s[1]
  BY <1>1, <1>2 DEF PageInv, Watermark, Top
<1>6. Watermark'
  BY <1>1, <1>2, <1>3, <1>5 DEF PageInv, PageType, Watermark
<1>7. HeldIsLive' /\ OneInHand'
  BY <1>1 DEF PageInv, PageType, HeldIsLive, OneInHand
<1>8. NoDoubleAllocation'
  <2>1. \A x : InStack(x, Pop(s)) => InStack(x, s)
    BY <1>1, <1>2, InPopped
  <2>2. InStack(p, s)
    BY <1>1, <1>2, <1>5 DEF InStack
  <2>3. ~InStack(p, Pop(s))
    BY <1>1, <1>2, <1>3, <1>5 DEF PageInv, NoDoubleAllocation, Distinct, InStack
  <2>4. p # NoPage /\ NoPage \notin Pages
    BY <1>1 DEF Pages, NoPage
  <2> QED
    BY <1>1, <1>2, <1>3, <2>1, <2>2, <2>3, <2>4
       DEF PageInv, PageType, NoDoubleAllocation, Private, Distinct, IsFree, OneInHand
<1> QED
  BY <1>4, <1>6, <1>7, <1>8 DEF PageInv

\* Taking the end of the page file (GetFresh).
LEMMA FreshPages ==
    ASSUME PageInv, NEW t \in Threads, GetFresh(t)
    PROVE  PageInv'
<1> DEFINE s == nextFreeOffset
<1> DEFINE p == s[1]
<1>1. /\ mode = "up" /\ mode' = "up"
      /\ got[t] = NoPage /\ dropped[t] = NoPage
      /\ Len(s) = 1 /\ p \in Pages
      /\ nextFreeOffset' = <<p + 1>>
      /\ got' = [got EXCEPT ![t] = p]
      /\ UNCHANGED <<size, flags, dropped, held>>
  BY DEF GetFresh, disk, Top, Offset
<1>2. p \in Int /\ p # NoPage
  BY <1>1 DEF Pages, NoPage
<1>3. /\ nextFreeOffset' \in Seq(Int) /\ Len(nextFreeOffset') = 1
      /\ nextFreeOffset'[1] = p + 1
  BY <1>1, <1>2
<1>4. PageType'
  BY <1>1, <1>3 DEF PageInv, PageType
<1>5. \A x \in Int : x < p => x < p + 1
  BY <1>2
<1>6. Watermark'
  BY <1>1, <1>2, <1>3, BoundsAssumption DEF PageInv, PageType, Watermark, Pages, NoPage
<1>7. HeldIsLive' /\ OneInHand'
  BY <1>1 DEF PageInv, PageType, HeldIsLive, OneInHand
<1>8. NoDoubleAllocation'
  <2>1. InStack(p, s) /\ \A x : InStack(x, nextFreeOffset') <=> x = p + 1
    BY <1>1, <1>3 DEF InStack
  <2>2. \A q \in held : q < p
    BY <1>1, <1>2, BoundsAssumption DEF PageInv, PageType, HeldIsLive, Watermark, Pages
  <2>3. \A u \in Threads : got[u] < p /\ dropped[u] < p /\ got[u] \in Int /\ dropped[u] \in Int
    BY <1>1, BoundsAssumption DEF PageInv, PageType, Watermark, Pages, NoPage
  <2>4. \A q \in held : q \in Int
    BY BoundsAssumption DEF PageInv, PageType, Pages
  <2>5. \A x \in Int : x < p => ~InStack(x, nextFreeOffset') /\ x # p
    BY <1>2, <2>1
  <2>6. ~InStack(p, nextFreeOffset')
    BY <1>2, <2>1
  <2>7. \A q \in held' : ~IsFree(q)'
    BY <1>1, <2>2, <2>4, <2>5 DEF IsFree
  <2>8. p \notin held /\ \A u \in Threads : p \notin {got[u], dropped[u]}
    BY <2>2, <2>3, <2>4, <2>5
  <2>9. \A u \in Threads : Private(u, got[u])' /\ Private(u, dropped[u])'
    BY <1>1, <1>2, <2>3, <2>5, <2>6, <2>8
       DEF PageInv, PageType, NoDoubleAllocation, Private, IsFree
  <2>10. Distinct(nextFreeOffset')
    BY <1>3 DEF Distinct
  <2> QED
    BY <2>7, <2>9, <2>10 DEF NoDoubleAllocation
<1> QED
  BY <1>4, <1>6, <1>7, <1>8 DEF PageInv

\* Writing a page that was taken (WritePage).
LEMMA WrittenPages ==
    ASSUME PageInv, NEW t \in Threads, WritePage(t)
    PROVE  PageInv'
<1> DEFINE p == got[t]
<1>1. /\ mode = "up" /\ mode' = "up" /\ p # NoPage
      /\ flags' = [flags EXCEPT ![p] = "live"]
      /\ size' = IF p >= size THEN p + 1 ELSE size
      /\ held' = held \cup {p}
      /\ got' = [got EXCEPT ![t] = NoPage]
      /\ UNCHANGED <<nextFreeOffset, dropped>>
  BY DEF WritePage, mgr
<1>2. p \in Pages /\ p \in Nat /\ size \in Nat /\ size' \in Nat
  BY <1>1, BoundsAssumption DEF PageInv, PageType, Pages
<1>3. p < nextFreeOffset[1] /\ p < size' /\ size <= size' /\ size' <= nextFreeOffset[1]
  <2>1. p < nextFreeOffset[1] /\ size <= nextFreeOffset[1] /\ nextFreeOffset[1] \in Int
    BY <1>1 DEF PageInv, PageType, Watermark
  <2> QED
    BY <1>1, <1>2, <2>1
<1>4. PageType'
  BY <1>1, <1>2 DEF PageInv, PageType
<1>5. Watermark'
  <2>1. NoPage < nextFreeOffset[1] /\ nextFreeOffset[1] \in Int
    BY <1>1, <1>2, <1>3 DEF NoPage, PageInv, PageType, Watermark
  <2> QED
    BY <1>1, <1>2, <1>3, <2>1 DEF PageInv, PageType, Watermark
<1>6. HeldIsLive'
  <2> SUFFICES ASSUME NEW q \in held'
               PROVE  flags'[q] = "live" /\ q < size'
    BY DEF HeldIsLive
  <2>1. CASE q = p
    BY <1>1, <1>2, <1>3, <2>1 DEF PageInv, PageType
  <2>2. CASE q # p
    <3>1. q \in held /\ q \in Pages
      BY <1>1, <2>2 DEF PageInv, PageType
    <3>2. q \in Int
      BY <3>1, BoundsAssumption DEF Pages
    <3> QED
      BY <1>1, <1>2, <1>3, <2>2, <3>1, <3>2 DEF PageInv, PageType, HeldIsLive
  <2> QED
    BY <2>1, <2>2
<1>7. OneInHand'
  BY <1>1 DEF PageInv, PageType, OneInHand
<1>8. NoDoubleAllocation'
  BY <1>1, <1>2 DEF PageInv, PageType, NoDoubleAllocation, Private, Distinct, IsFree, OneInHand
<1> QED
  BY <1>4, <1>5, <1>6, <1>7, <1>8 DEF PageInv

\* Marking a page in use deleted (DropPage).
LEMMA DroppedPages ==
    ASSUME PageInv, NEW t \in Threads, NEW p \in Pages, DropPage(t, p)
    PROVE  PageInv'
<1>1. /\ mode = "up" /\ mode' = "up"
      /\ got[t] = NoPage /\ dropped[t] = NoPage
      /\ p \in held
      /\ flags' = [flags EXCEPT ![p] = "deleted"]
      /\ dropped' = [dropped EXCEPT ![t] = p]
      /\ held' = held \ {p}
      /\ UNCHANGED <<nextFreeOffset, size, got>>
  BY DEF DropPage, mgr
<1>2. p \in Int /\ p # NoPage
  BY BoundsAssumption DEF Pages, NoPage
<1>3. PageType'
  BY <1>1 DEF PageInv, PageType
<1>4. p < size /\ size <= nextFreeOffset[1] /\ nextFreeOffset[1] \in Int /\ size \in Int
  BY <1>1 DEF PageInv, PageType, HeldIsLive, Watermark
<1>5. Watermark'
  BY <1>1, <1>2, <1>4 DEF PageInv, PageType, Watermark
<1>6. HeldIsLive' /\ OneInHand'
  BY <1>1 DEF PageInv, PageType, HeldIsLive, OneInHand
<1>7. NoDoubleAllocation'
  BY <1>1, <1>2 DEF PageInv, PageType, NoDoubleAllocation, Private, Distinct, IsFree, OneInHand
<1> QED
  BY <1>3, <1>5, <1>6, <1>7 DEF PageInv

\* Pushing a page that a thread had in hand, whatever else happens to the
\* page file within its end (FreePage, WritePageFails).
LEMMA PushedPages ==
    ASSUME PageInv, NEW t \in Threads, NEW p \in Pages,
           mode = "up", mode' = "up",
           p \in {got[t], dropped[t]},
           nextFreeOffset' = Push(nextFreeOffset, p),
           got' = [got EXCEPT ![t] = NoPage],
           dropped' = [dropped EXCEPT ![t] = NoPage],
           held' = held,
           flags' \in [Pages -> {"zero", "live", "deleted"}],
           \A q \in Pages \ {p} : flags'[q] = flags[q],
           size' \in Nat, size <= size', size' <= nextFreeOffset[1]
    PROVE  PageInv'
<1> DEFINE s == nextFreeOffset
<1>1. p \in Int /\ p # NoPage /\ NoPage \notin Pages
  BY BoundsAssumption DEF Pages, NoPage
<1>2. s \in Seq(Int) /\ Len(s) \in Nat /\ Len(s) >= 1 /\ s[1] \in Int
  BY DEF PageInv, PageType, Watermark
<1>3. /\ Push(s, p) \in Seq(Int)
      /\ Len(Push(s, p)) = Len(s) + 1
      /\ \A i \in 1 .. Len(s) : Push(s, p)[i] = s[i]
      /\ Push(s, p)[Len(s) + 1] = p
  BY <1>1, <1>2, PushFacts, Zenon
<1>4. \A x : InStack(x, Push(s, p)) <=> (InStack(x, s) \/ x = p)
  BY <1>1, <1>2, InPushed, Zenon
<1>5. p < s[1] /\ NoPage < s[1] /\ ~InStack(p, s) /\ p \notin held
  BY <1>1, <1>2 DEF PageInv, PageType, Watermark, NoDoubleAllocation, Private, IsFree, NoPage
<1>6. PageType'
  BY <1>3 DEF PageInv, PageType
<1>7. Watermark'
  <2>1. Push(s, p)[1] = s[1] /\ Len(Push(s, p)) >= 1
    BY <1>2, <1>3
  <2>2. \A i \in 2 .. Len(Push(s, p)) : Push(s, p)[i] \in Pages /\ Push(s, p)[i] < s[1]
    <3> SUFFICES ASSUME NEW i \in 2 .. Len(Push(s, p))
                 PROVE  Push(s, p)[i] \in Pages /\ Push(s, p)[i] < s[1]
      OBVIOUS
    <3>1. CASE i = Len(s) + 1
      BY <1>3, <1>5, <3>1
    <3>2. CASE i # Len(s) + 1
      <4>1. i \in 2 .. Len(s) /\ i \in 1 .. Len(s)
        BY <1>2, <1>3, <3>2
      <4> QED
        BY <1>3, <4>1 DEF PageInv, Watermark
    <3> QED
      BY <3>1, <3>2
  <2>3. \A u \in Threads : got'[u] < s[1] /\ dropped'[u] < s[1]
    BY <1>5 DEF PageInv, PageType, Watermark
  <2> QED
    BY <2>1, <2>2, <2>3, <1>2 DEF Watermark
<1>8. HeldIsLive'
  <2> SUFFICES ASSUME NEW q \in held
               PROVE  flags'[q] = "live" /\ q < size'
    BY DEF HeldIsLive
  <2>1. q \in Pages /\ q # p /\ q \in Int /\ q < size /\ flags[q] = "live"
    BY <1>5, BoundsAssumption DEF PageInv, PageType, HeldIsLive, Pages
  <2> QED
    BY <2>1 DEF PageInv, PageType
<1>9. OneInHand'
  BY DEF PageInv, PageType, OneInHand
<1>10. NoDoubleAllocation'
  <2>1. \A q \in held' : ~IsFree(q)'
    BY <1>4, <1>5 DEF PageInv, NoDoubleAllocation, IsFree
  <2>2. \A u \in Threads \ {t} : got[u] # p /\ dropped[u] # p
    BY <1>1 DEF PageInv, NoDoubleAllocation, Private
  <2>3. \A u \in Threads : Private(u, got[u])' /\ Private(u, dropped[u])'
    BY <1>1, <1>4, <2>2 DEF PageInv, PageType, NoDoubleAllocation, Private, IsFree
  <2>4. Distinct(nextFreeOffset')
    <3> SUFFICES ASSUME NEW i \in 1 .. Len(s) + 1, NEW j \in 1 .. Len(s) + 1,
                        i < j, Push(s, p)[i] = Push(s, p)[j]
                 PROVE  FALSE
      BY <1>2, <1>3 DEF Distinct
    <3>1. i \in 1 .. Len(s) /\ Push(s, p)[i] = s[i]
      BY <1>2, <1>3
    <3>2. CASE j = Len(s) + 1
      BY <1>3, <1>5, <3>1, <3>2 DEF InStack
    <3>3. CASE j # Len(s) + 1
      <4>1. j \in 1 .. Len(s) /\ i # j
        BY <1>2, <3>3
      <4>2. s[i] = s[j]
        BY <1>3, <3>1, <4>1
      <4> QED
        BY <3>1, <4>1, <4>2 DEF PageInv, NoDoubleAllocation, Distinct
    <3> QED
      BY <3>2, <3>3
  <2> QED
    BY <2>1, <2>3, <2>4 DEF NoDoubleAllocation
<1> QED
  BY <1>6, <1>7, <1>8, <1>9, <1>10 DEF PageInv

\* Losing the page in hand: a failed free, a failed write whose page cannot be
\* freed, a failed get, closing or crashing.
LEMMA ForgottenPages ==
    ASSUME PageInv,
           mode' \in {"up", "down"}, mode' = "up" => mode = "up",
           nextFreeOffset' = nextFreeOffset,
           held' = held,
           got' \in [Threads -> Pages \cup {NoPage}],
           dropped' \in [Threads -> Pages \cup {NoPage}],
           \A u \in Threads :
              /\ got'[u] \in {got[u], NoPage}
              /\ dropped'[u] \in {dropped[u], NoPage}
              /\ mode' # "up" => got'[u] = NoPage /\ dropped'[u] = NoPage,
           flags' \in [Pages -> {"zero", "live", "deleted"}],
           \A q \in held : flags'[q] = flags[q],
           size' \in Nat, size <= size',
           mode' = "up" => size' <= nextFreeOffset[1]
    PROVE  PageInv'
<1>1. PageType'
  BY DEF PageInv, PageType
<1>2. HeldIsLive' /\ OneInHand'
  <2>1. OneInHand'
    BY DEF PageInv, OneInHand
  <2>2. \A q \in held : q \in Int /\ q < size /\ flags[q] = "live"
    BY BoundsAssumption DEF PageInv, PageType, HeldIsLive, Pages
  <2>3. HeldIsLive'
    BY <2>2 DEF PageInv, PageType, HeldIsLive
  <2> QED
    BY <2>1, <2>3
<1>3. Watermark'
  <2> SUFFICES ASSUME mode' = "up"
               PROVE  Watermark'
    BY DEF Watermark
  <2>1. nextFreeOffset[1] \in Int /\ NoPage < nextFreeOffset[1]
    BY DEF PageInv, PageType, Watermark, NoPage
  <2> QED
    BY <2>1 DEF PageInv, PageType, Watermark
<1>4. NoDoubleAllocation'
  BY DEF PageInv, PageType, NoDoubleAllocation, Private, Distinct, IsFree
<1> QED
  BY <1>1, <1>2, <1>3, <1>4 DEF PageInv

\* Rebuilding the stack from the page flags (OpenByScan).
LEMMA ScannedPages ==
    ASSUME TypeOK, PageInv, OpenByScan
    PROVE  PageInv'
<1> DEFINE s == nextFreeOffset'
<1>1. /\ mode # "up" /\ mode' = "up"
      /\ s \in ScannedStacks
      /\ UNCHANGED <<size, flags, got, dropped, held>>
  BY DEF OpenByScan, disk
<1>2. /\ s \in Seq(Int)
      /\ Len(s) >= 1
      /\ s[1] = size
      /\ \A i \in 2 .. Len(s) :
           s[i] \in Pages /\ s[i] < size /\ FoundFree(s[i])
      /\ Distinct(s)
  BY <1>1, ScanFacts, Zenon DEF Distinct
<1>3. PageType'
  BY <1>1, <1>2 DEF PageInv, PageType
<1>4. \A t \in Threads : got'[t] = NoPage /\ dropped'[t] = NoPage
  BY <1>1 DEF PageInv, OneInHand
<1>5. Watermark'
  <2>1. size \in Nat /\ NoPage < size
    BY DEF PageInv, PageType, NoPage
  <2> QED
    BY <1>1, <1>2, <1>4, <2>1 DEF Watermark
<1>6. HeldIsLive' /\ OneInHand'
  BY <1>1, <1>4 DEF PageInv, HeldIsLive, OneInHand
<1>7. NoDoubleAllocation'
  <2>1. \A q \in held' : ~IsFree(q)'
    <3> SUFFICES ASSUME NEW q \in held, InStack(q, s)
                 PROVE  FALSE
      BY <1>1 DEF IsFree
    <3>1. flags[q] = "live" /\ q < size /\ q \in Int /\ size \in Int
      BY BoundsAssumption DEF PageInv, PageType, HeldIsLive, Pages
    <3>2. PICK i \in 1 .. Len(s) : s[i] = q
      BY DEF InStack
    <3>3. i \in 2 .. Len(s)
      BY <1>2, <3>1, <3>2
    <3>4. FoundFree(q)
      BY <1>2, <3>2, <3>3
    <3> QED
      BY <3>1, <3>4 DEF FoundFree
  <2> QED
    BY <1>2, <1>4, <2>1 DEF NoDoubleAllocation, Private
<1> QED
  BY <1>3, <1>5, <1>6, <1>7 DEF PageInv

-----------------------------------------------------------------------------
(* The invariant is inductive                                               *)

\* A fresh database satisfies the invariant.
LEMMA InitIInv == Init => IInv
<1> SUFFICES ASSUME Init PROVE IInv
  OBVIOUS
<1>1. FileInv
  <2>1. torn = FALSE /\ torn \in BOOLEAN /\ cut \in BOOLEAN
    BY Zenon DEF Init
  <2>2. fsize = 0 /\ file = << >> /\ faults \in 0 .. MaxFaults
    BY BoundsAssumption DEF Init
  <2> QED
    BY <2>1, <2>2 DEF FileInv, FileType, FileOK
<1>2. PageType
  BY DEF Init, PageType, NoPage
<1>3. Watermark /\ HeldIsLive /\ OneInHand /\ NoDoubleAllocation
  BY DEF Init, Watermark, HeldIsLive, OneInHand, NoDoubleAllocation
<1> QED
  BY <1>1, <1>2, <1>3 DEF IInv, PageInv

\* The two halves of the invariant give the type invariant.
LEMMA IInvType == IInv <=> IInv /\ TypeOK
  BY DEF IInv, FileInv, FileType, PageInv, PageType, TypeOK

\* Every step of every thread, and closing, crashing and opening, keep the
\* .fdp half of the invariant.
LEMMA FileStep ==
    ASSUME WholeFile, IInv, Next
    PROVE  FileInv'
<1>0. /\ FileType /\ FileOK /\ faults \in 0 .. MaxFaults /\ cut \in BOOLEAN
      /\ nextFreeOffset \in Seq(Int) /\ torn = FALSE
  BY DEF IInv, FileInv, FileOK, PageInv, PageType
<1>1. ASSUME NEW n \in {1, 2}, Fail(n) PROVE faults' \in 0 .. MaxFaults
  BY <1>0, <1>1, BoundsAssumption DEF Fail
<1>2. ASSUME NEW t \in Threads, GetRecycled(t) PROVE FileInv'
  BY <1>0, <1>2, RemoveOffsetFile DEF GetRecycled, FileInv, disk
<1>3. ASSUME NEW t \in Threads, GetFresh(t) PROVE FileInv'
  <2>1. CASE ~FileBacked
    BY <1>0, <1>3, <2>1 DEF GetFresh, FileInv, FileType, FileOK, disk
  <2>2. CASE FileBacked
    <3>1. /\ fsize' = fsize /\ torn' = FALSE /\ faults' = faults
          /\ file' = Append(Truncated, Top(nextFreeOffset) + 1)
          /\ Top(nextFreeOffset) \in Pages
          /\ CanRemove /\ cut' = cut
      BY <1>3, <2>2, Zenon DEF GetFresh, disk
    <3>2. fsize \in Int
      BY <1>0 DEF FileType
    <3>3. Truncated \in Seq(Int) /\ Len(Truncated) = fsize - 1
      BY <1>0, <2>2, <3>1, TruncatedFile
    <3>4. Top(nextFreeOffset) + 1 \in Int
      BY <3>1, BoundsAssumption DEF Pages
    <3>5. fsize' = Len(file') /\ fsize' \in Int /\ file' \in Seq(Int)
      BY <3>1, <3>2, <3>3, <3>4
    <3> QED
      BY <1>0, <3>1, <3>5, Zenon DEF FileInv, FileType, FileOK
  <2> QED
    BY <2>1, <2>2
<1>4. ASSUME NEW t \in Threads, GetFreshFails(t) PROVE FileInv'
  <2>1. FileBacked /\ CanRemove /\ addOffsetFails(Truncated, fsize - 1, FALSE)
    BY <1>4 DEF GetFreshFails, addOffsetFails
  <2>2. Truncated \in Seq(Int) /\ fsize - 1 = Len(Truncated)
    BY <1>0, <2>1, TruncatedFile
  <2>3. FileType' /\ FileOK'
    BY <2>1, <2>2, AddFailsFile
  <2>4. cut' = cut
    BY <1>4 DEF GetFreshFails, disk
  <2> QED
    BY <1>0, <1>1, <1>4, <2>3, <2>4 DEF GetFreshFails, FileInv
<1>5. ASSUME NEW t \in Threads, WritePage(t) PROVE FileInv'
  <2>1. cut' \in BOOLEAN
    BY <1>5, Zenon DEF WritePage
  <2> QED
    BY <1>0, <1>5, <2>1 DEF WritePage, mgr, FileInv, FileType, FileOK
<1>6. ASSUME NEW t \in Threads, WritePageFails(t) PROVE FileInv'
  <2>1. got[t] \in Int
    BY BoundsAssumption DEF IInv, PageInv, PageType, Pages, NoPage
  <2>0. cut' \in BOOLEAN
    <3>1. CASE UNCHANGED disk
      BY <1>0, <3>1 DEF disk
    <3>2. CASE cut' = (cut \/ got[t] >= size)
      BY <3>2, Zenon
    <3> QED
      BY <1>6, <3>1, <3>2, Zenon DEF WritePageFails
  <2>2. CASE addOffsetToFile(got[t]) /\ Fail(1)
    BY <1>0, <1>1, <2>0, <2>1, <2>2, AddOffsetFile DEF FileInv
  <2>3. CASE addOffsetFails(file, fsize, torn) /\ Fail(2)
    <3>1. addOffsetFails(file, fsize, FALSE) /\ file \in Seq(Int) /\ fsize = Len(file)
      BY <1>0, <2>3 DEF FileType, FileOK, addOffsetFails
    <3> QED
      BY <1>1, <2>0, <2>3, <3>1, AddFailsFile DEF FileInv
  <2> QED
    BY <1>6, <2>2, <2>3 DEF WritePageFails
<1>7. ASSUME NEW t \in Threads, NEW p \in Pages, DropPage(t, p) PROVE FileInv'
  BY <1>0, <1>7 DEF DropPage, mgr, FileInv, FileType, FileOK
<1>8. ASSUME NEW t \in Threads, FreePage(t) PROVE FileInv'
  <2>1. dropped[t] \in Int
    BY BoundsAssumption DEF IInv, PageInv, PageType, Pages, NoPage
  <2> QED
    BY <1>0, <1>8, <2>1, AddOffsetFile DEF FreePage, FileInv, disk
<1>9. ASSUME NEW t \in Threads, FreePageFails(t) PROVE FileInv'
  <2>1. /\ addOffsetFails(file, fsize, FALSE) /\ file \in Seq(Int) /\ fsize = Len(file)
        /\ Fail(1) /\ cut' = cut
    BY <1>0, <1>9 DEF FreePageFails, FileType, FileOK, addOffsetFails, disk
  <2> QED
    BY <1>0, <1>1, <2>1, AddFailsFile DEF FileInv
<1>10. ASSUME Stop PROVE FileInv'
  BY <1>0, <1>10 DEF Stop, mgr, disk, FileInv, FileType, FileOK
<1>11. ASSUME OpenByScan PROVE FileInv'
  <2>1. nextFreeOffset' \in Seq(Int) /\ Len(nextFreeOffset') \in Int
    BY <1>11, IInvType, ScanFacts DEF OpenByScan
  <2>2. CASE FileBacked
    BY <1>0, <1>11, <2>1, <2>2 DEF OpenByScan, FileInv, FileType, FileOK, disk
  <2>3. CASE ~FileBacked
    BY <1>0, <1>11, <2>3 DEF OpenByScan, FileInv, FileType, FileOK, disk
  <2> QED
    BY <2>2, <2>3
<1>12. ASSUME OpenByScanFails PROVE FileInv'
  <2>1. PICK s \in ScannedStacks :
          \E n \in 0 .. Len(s) - 1 : addOffsetFails(SubSeq(s, 1, n), n, FALSE)
    BY <1>12 DEF OpenByScanFails
  <2>2. PICK n \in 0 .. Len(s) - 1 : addOffsetFails(SubSeq(s, 1, n), n, FALSE)
    BY <2>1
  <2>3. s \in Seq(Int)
    BY IInvType, ScanFacts
  <2>4. n \in Int /\ \A i \in 1 .. n : s[i] \in Int
    BY <2>3
  <2>5. SubSeq(s, 1, n) \in Seq(Int) /\ n = Len(SubSeq(s, 1, n))
    BY <2>3, <2>4, SubSeqProperties
  <2>6. cut' = cut /\ Fail(1)
    BY <1>12 DEF OpenByScanFails, disk
  <2> QED
    BY <1>0, <1>1, <2>2, <2>5, <2>6, AddFailsFile DEF FileInv
<1>13. ~OpenFromFile
  BY <1>0 DEF OpenFromFile, InitReads, WholeFile
<1>14. ASSUME OpenAborts PROVE FileInv'
  <2>1. UNCHANGED <<fsize, file, torn, cut, faults>>
    BY <1>0, <1>14 DEF OpenAborts, InitReads, WholeFile, mgr, disk
  <2> QED
    BY <1>0, <2>1 DEF FileInv, FileType, FileOK
<1> QED
  BY <1>2, <1>3, <1>4, <1>5, <1>6, <1>7, <1>8, <1>9, <1>10, <1>11, <1>12, <1>13, <1>14
     DEF Next

\* Every step keeps the half of the invariant about the pages.
LEMMA PageStep ==
    ASSUME IInv, Next, WholeFile
    PROVE  PageInv'
<1>0. PageInv /\ PageType /\ TypeOK
  BY IInvType DEF IInv, PageInv
<1>1. ASSUME NEW t \in Threads, GetRecycled(t) PROVE PageInv'
  BY <1>0, <1>1, RecycledPages
<1>2. ASSUME NEW t \in Threads, GetFresh(t) PROVE PageInv'
  BY <1>0, <1>2, FreshPages
<1>3. ASSUME NEW t \in Threads, GetFreshFails(t) PROVE PageInv'
  <2>1. mode = "up" /\ UNCHANGED <<mode, nextFreeOffset, size, flags, got, dropped, held>>
    BY <1>3 DEF GetFreshFails, disk
  <2> QED
    BY <1>0, <2>1 DEF PageInv, PageType, Watermark, HeldIsLive, OneInHand,
                      NoDoubleAllocation, Private, Distinct, IsFree
<1>4. ASSUME NEW t \in Threads, WritePage(t) PROVE PageInv'
  BY <1>0, <1>4, WrittenPages
<1>5. ASSUME NEW t \in Threads, WritePageFails(t) PROVE PageInv'
  <2> DEFINE p == got[t]
  <2>1. /\ mode = "up" /\ mode' = mode /\ p \in Pages /\ p \in Nat
        /\ got' = [got EXCEPT ![t] = NoPage] /\ UNCHANGED <<dropped, held>>
    BY <1>0, <1>5, BoundsAssumption DEF WritePageFails, PageType, Pages
  <2>2. dropped' = [dropped EXCEPT ![t] = NoPage]
    BY <1>0, <2>1, BoundsAssumption DEF PageInv, PageType, OneInHand, Pages, NoPage
  <2>3. p < nextFreeOffset[1] /\ size <= nextFreeOffset[1] /\ nextFreeOffset[1] \in Int
    BY <1>0, <2>1 DEF PageInv, PageType, Watermark
  <2>4. /\ flags' \in [Pages -> {"zero", "live", "deleted"}]
        /\ \A q \in Pages \ {p} : flags'[q] = flags[q]
        /\ size' \in Nat /\ size <= size' /\ size' <= nextFreeOffset[1]
    BY <1>0, <1>5, <2>1, <2>3 DEF WritePageFails, PageType, disk
  <2>5. CASE nextFreeOffset' = Push(nextFreeOffset, p)
    BY <1>0, <2>1, <2>2, <2>4, <2>5, PushedPages
  <2>6. CASE nextFreeOffset' = nextFreeOffset
    <3>1. p \notin held
      BY <1>0, <2>1, BoundsAssumption DEF PageInv, NoDoubleAllocation, Private, Pages, NoPage
    <3>2. \A q \in held : flags'[q] = flags[q]
      BY <1>0, <2>4, <3>1 DEF PageType
    <3>3. /\ got' \in [Threads -> Pages \cup {NoPage}]
          /\ dropped' \in [Threads -> Pages \cup {NoPage}]
          /\ \A u \in Threads : /\ got'[u] \in {got[u], NoPage}
                                /\ dropped'[u] \in {dropped[u], NoPage}
      BY <1>0, <2>1 DEF PageType
    <3> QED
      BY <1>0, <2>1, <2>4, <2>6, <3>2, <3>3, ForgottenPages
  <2> QED
    BY <1>5, <2>5, <2>6 DEF WritePageFails
<1>6. ASSUME NEW t \in Threads, NEW p \in Pages, DropPage(t, p) PROVE PageInv'
  BY <1>0, <1>6, DroppedPages
<1>7. ASSUME NEW t \in Threads, FreePage(t) PROVE PageInv'
  <2> DEFINE p == dropped[t]
  <2>1. /\ mode = "up" /\ mode' = "up" /\ p \in Pages
        /\ nextFreeOffset' = Push(nextFreeOffset, p)
        /\ dropped' = [dropped EXCEPT ![t] = NoPage]
        /\ UNCHANGED <<got, held, size, flags>>
    BY <1>0, <1>7 DEF FreePage, PageType, disk
  <2>2. got' = [got EXCEPT ![t] = NoPage]
    BY <1>0, <2>1, BoundsAssumption DEF PageInv, PageType, OneInHand, Pages, NoPage
  <2>3. /\ flags' \in [Pages -> {"zero", "live", "deleted"}]
        /\ \A q \in Pages \ {p} : flags'[q] = flags[q]
        /\ size' \in Nat /\ size <= size' /\ size' <= nextFreeOffset[1]
    BY <1>0, <2>1 DEF PageInv, PageType, Watermark
  <2> QED
    BY <1>0, <2>1, <2>2, <2>3, PushedPages
<1>8. ASSUME NEW t \in Threads, FreePageFails(t) PROVE PageInv'
  <2>1. /\ mode = "up" /\ mode' = "up" /\ nextFreeOffset' = nextFreeOffset
        /\ dropped' = [dropped EXCEPT ![t] = NoPage]
        /\ UNCHANGED <<got, held, size, flags>>
    BY <1>0, <1>8 DEF FreePageFails, disk
  <2>2. /\ got' \in [Threads -> Pages \cup {NoPage}]
        /\ dropped' \in [Threads -> Pages \cup {NoPage}]
        /\ \A u \in Threads : /\ got'[u] \in {got[u], NoPage}
                              /\ dropped'[u] \in {dropped[u], NoPage}
    BY <1>0, <2>1 DEF PageType
  <2>3. /\ flags' \in [Pages -> {"zero", "live", "deleted"}]
        /\ \A q \in held : flags'[q] = flags[q]
        /\ size' \in Nat /\ size <= size' /\ size' <= nextFreeOffset[1]
    BY <1>0, <2>1 DEF PageInv, PageType, Watermark
  <2> QED
    BY <1>0, <2>1, <2>2, <2>3, ForgottenPages
<1>9. ASSUME Stop PROVE PageInv'
  <2>1. /\ mode' = "down" /\ nextFreeOffset' = nextFreeOffset
        /\ UNCHANGED <<held, size, flags>>
        /\ got' \in [Threads -> Pages \cup {NoPage}]
        /\ dropped' \in [Threads -> Pages \cup {NoPage}]
        /\ \A u \in Threads : got'[u] = NoPage /\ dropped'[u] = NoPage
    BY <1>9 DEF Stop, mgr, disk
  <2>2. /\ flags' \in [Pages -> {"zero", "live", "deleted"}]
        /\ \A q \in held : flags'[q] = flags[q]
        /\ size' \in Nat /\ size <= size'
    BY <1>0, <2>1 DEF PageType
  <2> QED
    BY <1>0, <2>1, <2>2, ForgottenPages
<1>10. ASSUME OpenByScan PROVE PageInv'
  BY <1>0, <1>10, ScannedPages
<1>11. ASSUME OpenByScanFails PROVE PageInv'
  <2>1. /\ mode # "up" /\ mode' = "down"
        /\ UNCHANGED <<nextFreeOffset, size, flags, got, dropped, held>>
    BY <1>11 DEF OpenByScanFails, disk
  <2> QED
    BY <1>0, <2>1 DEF PageInv, PageType, Watermark, HeldIsLive, OneInHand,
                      NoDoubleAllocation
<1>12. ~OpenFromFile
  BY DEF IInv, FileInv, FileOK, OpenFromFile, InitReads, WholeFile
<1>13. ASSUME OpenAborts PROVE PageInv'
  <2>1. /\ mode # "up" /\ mode' = "aborted"
        /\ UNCHANGED <<nextFreeOffset, size, flags, got, dropped, held>>
    BY <1>13 DEF OpenAborts, mgr, disk
  <2> QED
    BY <1>0, <2>1 DEF PageInv, PageType, Watermark, HeldIsLive, OneInHand,
                      NoDoubleAllocation
<1> QED
  BY <1>1, <1>2, <1>3, <1>4, <1>5, <1>6, <1>7, <1>8, <1>9, <1>10, <1>11, <1>12, <1>13
     DEF Next

\* The invariant holds in every reachable state.
LEMMA AlwaysIInv == WholeFile => (Spec => []IInv)
<1> SUFFICES ASSUME WholeFile PROVE Spec => []IInv
  OBVIOUS
<1>1. Init => IInv
  BY InitIInv
<1>2. IInv /\ [Next]_vars => IInv'
  <2> SUFFICES ASSUME IInv, [Next]_vars PROVE IInv'
    OBVIOUS
  <2>1. CASE Next
    BY <2>1, FileStep, PageStep DEF IInv
  <2>2. CASE UNCHANGED vars
    BY <2>2 DEF vars, mgr, disk, IInv, FileInv, FileType, FileOK, PageInv, PageType,
       Watermark, HeldIsLive, OneInHand, NoDoubleAllocation, Private, Distinct, IsFree
  <2> QED
    BY <2>1, <2>2
<1> QED
  BY <1>1, <1>2, PTL DEF Spec

\* No page of the key or value file is ever handed out twice by
\* FreeDiskPageMgr::get, for every number of threads, pages and failing disk
\* operations, across crashes and reopens, as long as a failing append to the
\* .fdp file leaves no part of an entry behind and init() can read that file.
THEOREM NeverDoubleAllocated == WholeFile => (Spec => []NoDoubleAllocation)
<1>1. IInv => NoDoubleAllocation
  BY DEF IInv, PageInv
<1> QED
  BY <1>1, AlwaysIInv, PTL

\* Every variable of the free disk page manager keeps its type.
THEOREM TypeCorrect == WholeFile => (Spec => []TypeOK)
<1>1. IInv => TypeOK
  BY IInvType
<1> QED
  BY <1>1, AlwaysIInv, PTL

\* The ASSERTs of FreeDiskPageMgr::free fail only after a disk operation failed, for
\* every number of threads, pages and failures, short writes and failing reads
\* included: a file that is torn or cut, which is what open() may abort on, is the
\* work of an earlier failure, whatever the crashes and reopens in between.
THEOREM AbortsOnlyAfterFault == Spec => []FreedOffsetIsValid
<1> DEFINE Sound == faults = 0 => torn = FALSE /\ cut = FALSE /\ mode # "aborted"
<1> DEFINE Inv == faults \in Nat /\ Sound
<1>1. Init => Inv
  BY DEF Init
<1>2. Inv /\ [Next]_vars => Inv'
  <2> SUFFICES ASSUME Inv, [Next]_vars PROVE Inv'
    OBVIOUS
  <2>1. ASSUME NEW n \in {1, 2}, Fail(n) PROVE Inv'
    BY <2>1 DEF Fail
  <2>2. CASE \E t \in Threads : \/ GetFreshFails(t) \/ WritePageFails(t) \/ FreePageFails(t)
    BY <2>1, <2>2, Zenon DEF GetFreshFails, WritePageFails, FreePageFails
  <2>3. CASE OpenByScanFails
    BY <2>1, <2>3, Zenon DEF OpenByScanFails
  <2>4. ASSUME faults' = faults,
               torn' \in {torn, FALSE}, cut' = cut \/ cut' = FALSE,
               mode' \in {mode, "up", "down"}
        PROVE  Inv'
    BY <2>4
  <2>5. CASE \E t \in Threads : \/ GetRecycled(t) \/ GetFresh(t) \/ FreePage(t)
                                \/ \E p \in Pages : DropPage(t, p)
    <3>1. faults' = faults /\ torn' \in {torn, FALSE} /\ cut' = cut /\ mode' = mode
      BY <2>5, Zenon DEF GetRecycled, GetFresh, FreePage, DropPage, removeOffsetFromFile,
         addOffsetToFile, mgr, disk
    <3> QED
      BY <2>4, <3>1
  <2>6. CASE \E t \in Threads : WritePage(t)
    <3>1. faults' = faults /\ torn' = torn /\ mode' = mode
      BY <2>6 DEF WritePage, mgr
    <3>2. cut = FALSE => cut' = FALSE
      BY <2>6, Zenon DEF WritePage
    <3> QED
      BY <3>1, <3>2
  <2>7. CASE Stop \/ OpenByScan \/ UNCHANGED vars
    <3>1. /\ faults' = faults /\ torn' = torn /\ cut' = cut
          /\ mode' \in {mode, "up", "down"}
      BY <2>7, Zenon DEF Stop, OpenByScan, vars, mgr, disk
    <3> QED
      BY <2>4, <3>1
  <2>8. ASSUME NEW k, InitReads(k) PROVE Inv' \/ (faults' = faults /\ faults # 0)
    <3>1. CASE Fail(1)
      BY <3>1 DEF Fail
    <3>2. CASE torn /\ faults' = faults
      BY <3>2
    <3> QED
      BY <2>8, <3>1, <3>2, Zenon DEF InitReads
  <2>9. CASE OpenFromFile
    BY <2>8, <2>9 DEF OpenFromFile
  <2>10. CASE OpenAborts
    BY <2>8, <2>10 DEF OpenAborts
  <2> QED
    BY <2>2, <2>3, <2>5, <2>6, <2>7, <2>9, <2>10 DEF Next
<1>3. Inv => FreedOffsetIsValid
  BY DEF FreedOffsetIsValid
<1> QED
  BY <1>1, <1>2, <1>3, PTL DEF Spec

-----------------------------------------------------------------------------
(* Reuse                                                                    *)

\* FreeDiskPageMgr::get returns the end of the page file only when no other page is
\* free, for every number of threads, pages and failing disk operations: the entry at
\* the bottom of the stack is above every other (Watermark), so that a page at or
\* beyond it can only be that entry, which is taken when it is alone.
THEOREM ReusedBeforeGrowth == WholeFile => (Spec => ReuseBeforeGrowth)
<1> DEFINE Reuses == \A t \in Threads :
              (got[t] = NoPage /\ got'[t] # NoPage /\ got'[t] >= nextFreeOffset[1])
                => \A p \in Pages : IsFree(p) => p = got'[t]
<1>1. IInv /\ [Next]_vars => [Reuses]_vars
  <2> SUFFICES ASSUME IInv, Next,
                      NEW t \in Threads,
                      got[t] = NoPage, got'[t] # NoPage, got'[t] >= nextFreeOffset[1],
                      NEW p \in Pages, IsFree(p)
               PROVE  p = got'[t]
    OBVIOUS
  <2>1. /\ got \in [Threads -> Pages \cup {NoPage}]
        /\ nextFreeOffset \in Seq(Int)
    BY DEF IInv, PageInv, PageType
  <2>2. ASSUME NEW u \in Threads, GetRecycled(u) PROVE FALSE
    <3>1. /\ mode = "up" /\ Len(nextFreeOffset) > 1
          /\ got' = [got EXCEPT ![u] = nextFreeOffset[Len(nextFreeOffset)]]
      BY <2>2 DEF GetRecycled, Offset, Top
    <3>2. u = t
      BY <2>1, <3>1
    <3>3. /\ nextFreeOffset[Len(nextFreeOffset)] < nextFreeOffset[1]
          /\ nextFreeOffset[Len(nextFreeOffset)] \in Int /\ nextFreeOffset[1] \in Int
      BY <2>1, <3>1 DEF IInv, PageInv, Watermark
    <3> QED
      BY <2>1, <3>1, <3>2, <3>3
  <2>3. ASSUME NEW u \in Threads, GetFresh(u) PROVE p = got'[t]
    <3>1. /\ Len(nextFreeOffset) = 1
          /\ got' = [got EXCEPT ![u] = nextFreeOffset[1]]
      BY <2>3 DEF GetFresh, Offset, Top
    <3>2. u = t
      BY <2>1, <3>1
    <3> QED
      BY <2>1, <3>1, <3>2 DEF IsFree, InStack
  <2>4. ASSUME NEW u \in Threads,
               \/ GetFreshFails(u) \/ WritePage(u) \/ WritePageFails(u)
               \/ \E q \in Pages : DropPage(u, q)
               \/ FreePage(u) \/ FreePageFails(u)
        PROVE  got' = got \/ got' = [got EXCEPT ![u] = NoPage]
    BY <2>4, Zenon DEF GetFreshFails, WritePage, WritePageFails, DropPage, FreePage, FreePageFails
  <2>5. ASSUME Stop \/ OpenByScan \/ OpenByScanFails \/ OpenFromFile \/ OpenAborts
        PROVE  got' = got \/ got' = [u \in Threads |-> NoPage]
    BY <2>5, Zenon DEF Stop, OpenByScan, OpenByScanFails, OpenFromFile, OpenAborts
  <2>6. (\E u \in Threads : GetRecycled(u) \/ GetFresh(u)) \/ got'[t] = NoPage
    BY <2>1, <2>4, <2>5 DEF Next
  <2> QED
    BY <2>2, <2>3, <2>6
<1>2. (WholeFile => (Spec => []IInv)) => (WholeFile => (Spec => [][Reuses]_vars))
  BY <1>1, PTL DEF Spec
<1> QED
  BY <1>2, AlwaysIInv DEF ReuseBeforeGrowth
=============================================================================
