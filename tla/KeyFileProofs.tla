--------------------------- MODULE KeyFileProofs ---------------------------
(***************************************************************************)
(* The key file loses no page, for every number of threads and pages.      *)
(*                                                                         *)
(* The free pages of the key file are not kept on disk: populateHashTable  *)
(* finds them when it scans the file.  The invariant therefore says what   *)
(* the disk alone has to say while the database is closed, that a page     *)
(* marked live is in use, next to what the property says while it is open. *)
(***************************************************************************)
EXTENDS MCFreeDiskPageMgr, FreeDiskPageMgrProofs

\* Before the end-of-file entry every page is accounted for while the database is open
\* (NoLostPage), and the disk alone accounts for it when it is not: a page marked live
\* is in use, so that the scan puts every other page on the stack.
KeyInv ==
    /\ nextFreeOffset \in Seq(Int)
    /\ size \in 0 .. MaxPage + 1
    /\ flags \in [Pages -> {"zero", "live", "deleted"}]
    /\ got \in [Threads -> Pages \cup {NoPage}]
    /\ dropped \in [Threads -> Pages \cup {NoPage}]
    /\ held \subseteq Pages
    /\ faults = 0
    /\ \A p \in Pages : flags[p] = "live" => p \in held
    /\ mode = "up" => Len(nextFreeOffset) >= 1
    /\ NoLostPage

\* Pages that are accounted for stay so when each is still free, in use or in the hands
\* of a thread after the step, and the end-of-file entry is where it was.
LEMMA StillAccounted ==
    ASSUME NoLostPage, mode = "up", nextFreeOffset'[1] = nextFreeOffset[1],
           \A p \in Int :
              (\/ IsFree(p) \/ p \in held \/ \E t \in Threads : p \in {got[t], dropped[t]}) =>
              (\/ IsFree(p)' \/ p \in held' \/ \E t \in Threads : p \in {got'[t], dropped'[t]})
    PROVE  NoLostPage'
  BY DEF NoLostPage

\* Every step on the key file keeps the invariant.
LEMMA KeyStep ==
    ASSUME KeyInv, Key!Next
    PROVE  KeyInv'
<1> USE DEF NoPage, Key!NoPage
<1> DEFINE s == nextFreeOffset
<1> DEFINE TypeRest == /\ size' \in 0 .. MaxPage + 1
                       /\ flags' \in [Pages -> {"zero", "live", "deleted"}]
                       /\ got' \in [Threads -> Pages \cup {NoPage}]
                       /\ dropped' \in [Threads -> Pages \cup {NoPage}]
                       /\ held' \subseteq Pages
                       /\ faults' = 0
                       /\ \A p \in Pages : flags'[p] = "live" => p \in held'
<1>0. Pages = Key!Pages /\ Pages \subseteq Int /\ NoPage \notin Pages /\ MaxPage \in Nat
  BY BoundsAssumption DEF Pages, Key!Pages
<1>1. ASSUME NEW t \in Threads, Key!GetRecycled(t) PROVE KeyInv'
  <2>1. /\ mode = "up" /\ mode' = "up" /\ Len(s) > 1
        /\ Top(s) \in Pages
        /\ nextFreeOffset' = Pop(s)
        /\ got' = [got EXCEPT ![t] = Top(s)] /\ got[t] = NoPage
        /\ UNCHANGED <<size, flags, dropped, held, faults>>
    BY <1>0, <1>1 DEF Key!GetRecycled, Key!Rest, Key!Offset, Key!disk, Key!Top, Key!Pop, Top, Pop
  <2>2. /\ Pop(s) \in Seq(Int) /\ Len(Pop(s)) = Len(s) - 1
        /\ \A i \in 1 .. Len(s) - 1 : Pop(s)[i] = s[i]
    BY <2>1, PopFacts DEF KeyInv
  <2>3. TypeRest
    BY <2>1 DEF KeyInv
  <2>4. \A p : IsFree(p) => IsFree(p)' \/ p = Top(s)
    <3> SUFFICES ASSUME NEW i \in 1 .. Len(s), i # Len(s)
                 PROVE  i \in 1 .. Len(Pop(s)) /\ Pop(s)[i] = s[i]
      BY <2>1 DEF IsFree, InStack, Top
    <3> QED
      BY <2>1, <2>2 DEF KeyInv
  <2>5. \A p \in Int : p = Top(s) => p = got'[t]
    BY <2>1 DEF KeyInv
  <2>6. \A p \in Int, u \in Threads : p = got[u] => u = t \/ p = got'[u]
    BY <2>1 DEF KeyInv
  <2>7. nextFreeOffset'[1] = s[1] /\ Len(nextFreeOffset') >= 1
    BY <2>1, <2>2 DEF KeyInv
  <2>8. NoLostPage'
    BY <2>1, <2>4, <2>5, <2>6, <2>7 DEF KeyInv, NoLostPage
  <2> QED
    BY <2>1, <2>2, <2>3, <2>7, <2>8 DEF KeyInv
<1>2. ASSUME NEW t \in Threads, Key!GetFresh(t) PROVE KeyInv'
  <2>1. /\ mode = "up" /\ mode' = "up" /\ Len(s) = 1
        /\ s[1] \in Pages
        /\ nextFreeOffset' = <<s[1] + 1>>
        /\ got' = [got EXCEPT ![t] = s[1]] /\ got[t] = NoPage
        /\ UNCHANGED <<size, flags, dropped, held, faults>>
    BY <1>0, <1>2 DEF Key!GetFresh, Key!Offset, Key!disk, Key!Top
  <2>0. s[1] \in Int /\ s[1] + 1 \in Int
    <3>1. s[1] \in Int
      BY <1>0, <2>1
    <3> QED
      BY <3>1
  <2>2. /\ nextFreeOffset' \in Seq(Int) /\ Len(nextFreeOffset') = 1
        /\ nextFreeOffset'[1] = s[1] + 1
    BY <2>0, <2>1
  <2>3. TypeRest
    BY <2>1 DEF KeyInv
  <2>4. \A p : IsFree(p) => p = s[1]
    BY <2>1 DEF IsFree, InStack
  <2>5. got'[t] = s[1] /\ \A u \in Threads : u # t => got'[u] = got[u]
    BY <2>1 DEF KeyInv
  <2>6. \A p \in 0 .. s[1] : p = s[1] \/ p \in 0 .. s[1] - 1
    BY <2>0
  <2>7. ASSUME NEW p \in 0 .. s[1]
        PROVE  p \in held \/ \E u \in Threads : p \in {got'[u], dropped[u]}
    <3>1. CASE p = s[1]
      BY <2>5, <3>1
    <3>2. CASE p # s[1]
      <4>1. p \in held \/ \E u \in Threads : p \in {got[u], dropped[u]}
        BY <2>1, <2>4, <2>6, <3>2 DEF KeyInv, NoLostPage
      <4>2. p # NoPage
        BY <1>0, <2>1
      <4> QED
        BY <2>1, <2>5, <4>1, <4>2
    <3> QED
      BY <3>1, <3>2
  <2>8. NoLostPage'
    <3>1. nextFreeOffset'[1] - 1 = s[1]
      BY <2>0, <2>2
    <3> QED
      BY <2>1, <2>7, <3>1 DEF NoLostPage
  <2> QED
    BY <2>1, <2>2, <2>3, <2>8 DEF KeyInv
<1>3. ASSUME NEW t \in Threads, Key!WritePage(t) PROVE KeyInv'
  <2>1. /\ mode = "up" /\ mode' = "up" /\ got[t] # NoPage
        /\ flags' = [flags EXCEPT ![got[t]] = "live"]
        /\ size' = IF got[t] >= size THEN got[t] + 1 ELSE size
        /\ held' = held \cup {got[t]}
        /\ got' = [got EXCEPT ![t] = NoPage]
        /\ UNCHANGED <<nextFreeOffset, dropped, faults>>
    BY <1>3 DEF Key!WritePage, Key!mgr
  <2>2. got[t] \in Pages
    BY <2>1 DEF KeyInv
  <2>3. size' \in 0 .. MaxPage + 1
    BY <1>0, <2>1, <2>2 DEF KeyInv, Pages
  <2>4. TypeRest
    BY <2>1, <2>2, <2>3 DEF KeyInv
  <2>5. \A p, u \in Threads : p = got[u] => p = got'[u] \/ p \in held'
    BY <2>1 DEF KeyInv
  <2>6. NoLostPage'
    BY <2>1, <2>5, StillAccounted DEF KeyInv, IsFree
  <2> QED
    BY <2>1, <2>4, <2>6 DEF KeyInv
<1>4. ASSUME NEW t \in Threads, NEW q \in Pages, Key!DropPage(t, q) PROVE KeyInv'
  <2>1. /\ mode = "up" /\ mode' = "up" /\ dropped[t] = NoPage
        /\ flags' = [flags EXCEPT ![q] = "deleted"]
        /\ dropped' = [dropped EXCEPT ![t] = q]
        /\ held' = held \ {q}
        /\ UNCHANGED <<nextFreeOffset, size, got, faults>>
    BY <1>4 DEF Key!DropPage, Key!mgr
  <2>2. TypeRest
    BY <2>1 DEF KeyInv
  <2>3. dropped'[t] = q /\ \A u \in Threads : u # t => dropped'[u] = dropped[u]
    BY <2>1 DEF KeyInv
  <2>4. \A p \in 0 .. s[1] - 1 : p # NoPage
    BY DEF KeyInv
  <2>5. NoLostPage'
    BY <2>1, <2>3, <2>4 DEF KeyInv, NoLostPage, IsFree
  <2> QED
    BY <2>1, <2>2, <2>5 DEF KeyInv
<1>5. ASSUME NEW t \in Threads, Key!FreePage(t) PROVE KeyInv'
  <2>1. /\ mode = "up" /\ mode' = "up" /\ dropped[t] # NoPage
        /\ nextFreeOffset' = Push(s, dropped[t])
        /\ dropped' = [dropped EXCEPT ![t] = NoPage]
        /\ UNCHANGED <<size, flags, got, held, faults>>
    BY <1>5 DEF Key!FreePage, Key!disk, Key!Push, Push
  <2>2. dropped[t] \in Int
    BY <1>0, <2>1 DEF KeyInv
  <2>3. /\ nextFreeOffset' \in Seq(Int) /\ Len(nextFreeOffset') = Len(s) + 1
        /\ nextFreeOffset'[1] = s[1]
    <3>1. s \in Seq(Int) /\ Len(s) >= 1 /\ Len(s) \in Nat
      BY <2>1 DEF KeyInv
    <3>2. /\ nextFreeOffset' \in Seq(Int) /\ Len(nextFreeOffset') = Len(s) + 1
          /\ \A i \in 1 .. Len(s) : nextFreeOffset'[i] = s[i]
      BY <2>1, <2>2, <3>1, PushFacts, Zenon
    <3> QED
      BY <3>1, <3>2
  <2>4. \A p : IsFree(p) \/ p = dropped[t] => IsFree(p)'
    BY <2>1, <2>2, InPushed, Zenon DEF KeyInv, IsFree
  <2>5. TypeRest
    BY <2>1 DEF KeyInv
  <2>6. \A p, u \in Threads : p = dropped[u] => p = dropped[t] \/ p = dropped'[u]
    BY <2>1 DEF KeyInv
  <2>7. NoLostPage'
    BY <2>1, <2>3, <2>4, <2>6, StillAccounted DEF KeyInv
  <2> QED
    BY <2>1, <2>3, <2>5, <2>7 DEF KeyInv
<1>6. ASSUME Key!Stop PROVE KeyInv'
  BY <1>6 DEF Key!Stop, Key!mgr, Key!disk, KeyInv, NoLostPage
<1>7. ASSUME Key!OpenByScan PROVE KeyInv'
  <2> DEFINE S == {p \in Pages : p < size /\ Key!FoundFree(p)}
  <2>1. /\ mode' = "up"
        /\ nextFreeOffset' \in Key!ScannedStacks
        /\ UNCHANGED <<size, flags, got, dropped, held, faults>>
    BY <1>7 DEF Key!OpenByScan, Key!disk
  <2>2. PICK r \in Key!InScanOrder(S) : nextFreeOffset' = <<size>> \o r
    BY <1>0, <2>1 DEF Key!ScannedStacks
  <2>3. Cardinality(S) \in Nat /\ S \subseteq Int
    <3>1. IsFiniteSet(Pages)
      BY FS_Interval, BoundsAssumption DEF Pages
    <3>2. IsFiniteSet(S)
      BY <3>1, FS_Subset
    <3> QED
      BY <1>0, <3>2, FS_CardinalityType
  <2> HIDE DEF S
  <2>4. /\ r \in [1 .. Cardinality(S) -> S]
        /\ \A p \in S : \E i \in DOMAIN r : r[i] = p
    <3>1. Key!Cardinality(S) = Cardinality(S)
      BY DEF Key!Cardinality, Cardinality
    <3> QED
      BY <3>1 DEF Key!InScanOrder
  <2>5. r \in Seq(Int)
    <3>1. r \in Seq(S)
      BY <2>3, <2>4, SeqDef
    <3> QED
      BY <2>3, <3>1, SeqMonotonic
  <2>6. DOMAIN r = 1 .. Len(r) /\ Len(r) \in Nat
    BY <2>5, LenProperties
  <2>7. size \in Int
    BY DEF KeyInv
  <2>8. /\ nextFreeOffset' \in Seq(Int) /\ Len(nextFreeOffset') = 1 + Len(r)
        /\ nextFreeOffset'[1] = size
        /\ \A i \in 1 .. Len(r) : nextFreeOffset'[i + 1] = r[i]
    BY <2>2, <2>5, <2>6, <2>7
  <2>9. \A p \in S : IsFree(p)'
    <3> SUFFICES ASSUME NEW p \in S PROVE InStack(p, nextFreeOffset')
      BY DEF IsFree
    <3>1. PICK i \in 1 .. Len(r) : r[i] = p
      BY <2>4, <2>6
    <3>2. i + 1 \in 1 .. Len(nextFreeOffset') /\ nextFreeOffset'[i + 1] = p
      BY <2>6, <2>8, <3>1
    <3> QED
      BY <3>2 DEF InStack
  <2>10. \A p \in 0 .. size - 1 : p \in S \/ p \in held
    <3> SUFFICES ASSUME NEW p \in 0 .. size - 1 PROVE p \in S \/ p \in held
      OBVIOUS
    <3>1. p \in Pages /\ p < size
      BY <1>0 DEF KeyInv, Pages
    <3>2. flags[p] \in {"zero", "live", "deleted"}
      BY <3>1 DEF KeyInv
    <3> QED
      BY <3>1, <3>2 DEF KeyInv, S, Key!FoundFree
  <2>11. NoLostPage'
    BY <2>1, <2>8, <2>9, <2>10 DEF NoLostPage
  <2>12. TypeRest
    BY <2>1 DEF KeyInv
  <2> QED
    BY <2>1, <2>6, <2>8, <2>11, <2>12 DEF KeyInv
<1>8. ~Key!OpenByScanFails /\ ~Key!OpenFromFile
  BY DEF KeyInv, Key!OpenByScanFails, Key!OpenFromFile, Key!InitReads, Key!Fail
<1>10. ASSUME Key!OpenAborts PROVE KeyInv'
  BY <1>10 DEF Key!OpenAborts, Key!InitReads, Key!mgr, Key!disk, KeyInv, NoLostPage
<1>9. \A t \in Threads : ~Key!GetFreshFails(t) /\ ~Key!WritePageFails(t) /\ ~Key!FreePageFails(t)
  BY DEF KeyInv, Key!GetFreshFails, Key!WritePageFails, Key!FreePageFails, Key!Fail
<1> QED
  BY <1>0, <1>1, <1>2, <1>3, <1>4, <1>5, <1>6, <1>7, <1>8, <1>9, <1>10 DEF Key!Next

\* No page of the key file is lost for every number of threads and pages, across crashes
\* and reopens, while the disk operations on it succeed: the scan of populateHashTable
\* finds every page that is not in use, written or not.
THEOREM KeyFileKeepsPages == MCSpec => []KeyFileLosesNoPage
<1> DEFINE Inv == use = "key" => KeyInv
<1>1. MCInit => Inv
  BY BoundsAssumption DEF MCInit, Init, KeyInv, NoLostPage, Pages, NoPage
<1>2. Inv /\ [MCNext]_<<vars, use>> => Inv'
  <2> SUFFICES ASSUME Inv, [MCNext]_<<vars, use>>, use' = "key"
               PROVE  KeyInv'
    OBVIOUS
  <2>1. CASE MCNext
    BY <2>1, KeyStep DEF MCNext
  <2>2. CASE UNCHANGED <<vars, use>>
    BY <2>2 DEF vars, mgr, disk, KeyInv, NoLostPage, IsFree
  <2> QED
    BY <2>1, <2>2
<1>3. Inv => KeyFileLosesNoPage
  BY DEF KeyInv, KeyFileLosesNoPage
<1> QED
  BY <1>1, <1>2, <1>3, PTL DEF MCSpec
=============================================================================
