----------------------------- MODULE KeyRecords -----------------------------
(***************************************************************************)
(* The key records of a key page (librdb/src/keyrec.cpp): a binary search  *)
(* tree kept in the slots of an array, balanced by rotations.  A key is a  *)
(* number: keycmp is a total order.                                        *)
(***************************************************************************)
EXTENDS Integers, FiniteSets

CONSTANTS
    Keys,           \* the keys, ordered as keycmp orders them
    numOfKeys       \* the slots of the page

KeyRecordsAssumption ==
    /\ Keys \subseteq Nat /\ numOfKeys \in Nat \ {0}

VARIABLES
    kp,        \* the key page: its records, their count and the root
    removed,   \* of the last remove: the slots that get and remove returned,
               \* and whether the key had two subtrees; none at first
    contents   \* the offset last put for each key, Nil if it was removed

vars == <<kp, removed, contents>>

Nil   == -1
Slots == 0 .. numOfKeys - 1

\* InitKeyRecord
FreeRecord == [inuse |-> FALSE, height |-> 1, left |-> Nil, right |-> Nil,
               key |-> 0, voff |-> Nil]

Init ==
    /\ kp = [keys |-> [i \in Slots |-> FreeRecord], vcount |-> 0, root |-> Nil]
    /\ removed = << >>
    /\ contents = [k \in Keys |-> Nil]

-----------------------------------------------------------------------------
(* A page is p; an operation on a subtree gives the page after it, the new  *)
(* root of the subtree and the slot it reports                              *)

Result(p, root, idx) == [page |-> p, root |-> root, idx |-> idx]

FreeSlots(p) == {i \in Slots : ~p.keys[i].inuse}

\* getKeyRecord: the first free slot, or Nil
getKeyRecord(p, k, v) ==
    IF FreeSlots(p) = {} THEN Result(p, Nil, Nil)
    ELSE LET i == CHOOSE i \in FreeSlots(p) : \A j \in FreeSlots(p) : i <= j IN
         Result([p EXCEPT !.keys[i] = [FreeRecord EXCEPT !.inuse = TRUE, !.key = k, !.voff = v],
                          !.vcount = @ + 1],
                i, i)

freeKeyRecordUncounted(p, i) == [p EXCEPT !.keys[i] = FreeRecord]
freeKeyRecord(p, i) == [p EXCEPT !.keys[i] = FreeRecord, !.vcount = @ - 1]

HeightOf(p, i) == IF i = Nil THEN 0 ELSE p.keys[i].height

balanceFactor(p, i) ==
    IF i = Nil THEN 0
    ELSE HeightOf(p, p.keys[i].left) - HeightOf(p, p.keys[i].right)

Larger(a, b) == IF a < b THEN b ELSE a

heightUnchanged(p, i) == p
height(p, i) ==
    IF i = Nil THEN p
    ELSE [p EXCEPT !.keys[i].height =
            1 + Larger(HeightOf(p, p.keys[i].left), HeightOf(p, p.keys[i].right))]

rotateLeft(p, root) ==
    LET pivot == p.keys[root].right
        q == [p EXCEPT !.keys[root].right = p.keys[pivot].left, !.keys[pivot].left = root]
    IN  Result(height(height(q, root), pivot), pivot, Nil)

rotateRight(p, root) ==
    LET pivot == p.keys[root].left
        q == [p EXCEPT !.keys[root].left = p.keys[pivot].right, !.keys[pivot].right = root]
    IN  Result(height(height(q, root), pivot), pivot, Nil)

rotateLeftRight(p, root) ==
    LET r == rotateLeft(p, p.keys[root].left)
    IN  rotateRight([r.page EXCEPT !.keys[root].left = r.root], root)

rotateRightLeft(p, root) ==
    LET r == rotateRight(p, p.keys[root].right)
    IN  rotateLeft([r.page EXCEPT !.keys[root].right = r.root], root)

\* a balanceTree that rotates once where two rotations are needed
balanceTreeOnce(p, root, idx) ==
    LET bf == balanceFactor(p, root)
        r  == CASE bf = -2 -> rotateLeft(p, root)
                [] bf = 2  -> rotateRight(p, root)
                [] OTHER   -> Result(p, root, Nil)
    IN  Result(r.page, r.root, idx)

balanceTree(p, root, idx) ==
    LET bf == balanceFactor(p, root)
        rf == balanceFactor(p, p.keys[root].right)
        lf == balanceFactor(p, p.keys[root].left)
        r  == CASE bf = -2 /\ rf = -1 -> rotateLeft(p, root)
                [] bf = -2 /\ rf = 1  -> rotateRightLeft(p, root)
                [] bf = 2  /\ lf = -1 -> rotateLeftRight(p, root)
                [] bf = 2  /\ lf = 1  -> rotateRight(p, root)
                [] OTHER              -> Result(p, root, Nil)
    IN  Result(r.page, r.root, idx)

-----------------------------------------------------------------------------
(* The operations on the subtree at root                                    *)

RECURSIVE get(_, _, _)
get(p, root, k) ==
    IF root = Nil \/ p.keys[root].key = k THEN root
    ELSE get(p, IF k < p.keys[root].key THEN p.keys[root].left ELSE p.keys[root].right, k)

\* the left, or right, subtree of root was replaced by r: height, balanceTree
LeftReplaced(r, root) ==
    balanceTree(height([r.page EXCEPT !.keys[root].left = r.root], root), root, r.idx)
RightReplaced(r, root) ==
    balanceTree(height([r.page EXCEPT !.keys[root].right = r.root], root), root, r.idx)

RECURSIVE put(_, _, _, _)
put(p, root, k, v) ==
    IF root = Nil THEN getKeyRecord(p, k, v)
    ELSE LET rec == p.keys[root] IN
         CASE k < rec.key -> LeftReplaced(put(p, rec.left, k, v), root)
           [] k = rec.key -> balanceTree(height([p EXCEPT !.keys[root].voff = v], root), root, root)
           [] k > rec.key -> RightReplaced(put(p, rec.right, k, v), root)

RECURSIVE maxKey(_, _)
maxKey(p, root) ==
    IF root # Nil /\ p.keys[root].right # Nil THEN maxKey(p, p.keys[root].right) ELSE root

\* the slot reported is that of the subtree
UnlinkedMisreported(p, root, s) ==
    LET q == height(freeKeyRecord(p, root), s)
    IN  IF s = Nil THEN Result(q, s, s) ELSE balanceTree(q, s, s)

\* the record at root is freed and its only subtree s takes its place
Unlinked(p, root, s) ==
    LET q == height(freeKeyRecord(p, root), s)
    IN  IF s = Nil THEN Result(q, s, root) ELSE balanceTree(q, s, root)

RECURSIVE removeMax(_, _)
removeMax(p, root) ==
    IF p.keys[root].right = Nil THEN Unlinked(p, root, p.keys[root].left)
    ELSE RightReplaced(removeMax(p, p.keys[root].right), root)

\* the record at root is overwritten with that of slot i
KeyMoved(p, root, i)  == [p EXCEPT !.keys[root].key = p.keys[i].key]
Overwrite(p, root, i) ==
    [p EXCEPT !.keys[root].key = p.keys[i].key, !.keys[root].voff = p.keys[i].voff]

RECURSIVE remove(_, _, _)
remove(p, root, k) ==
    IF root = Nil THEN Result(p, Nil, Nil)
    ELSE LET rec == p.keys[root] IN
         CASE k < rec.key -> LeftReplaced(remove(p, rec.left, k), root)
           [] k > rec.key -> RightReplaced(remove(p, rec.right, k), root)
           [] OTHER ->
                IF rec.left = Nil THEN Unlinked(p, root, rec.right)
                ELSE IF rec.right = Nil THEN Unlinked(p, root, rec.left)
                ELSE LeftReplaced(removeMax(Overwrite(p, root, maxKey(p, rec.left)), rec.left), root)

-----------------------------------------------------------------------------
(* KeyRecords::put and KeyRecords::remove, as processKeyPages calls them:    *)
(* put when kp_vcount < NUM_OF_KEYS_IN_PAGE, remove after get               *)

\* two keys never share a value page: the value page of key k is page k
VoffOf(k) == k

Put(k) ==
    LET v == VoffOf(k)
        r == put(kp, kp.root, k, v)
    IN  /\ kp.vcount < numOfKeys
        /\ kp' = [r.page EXCEPT !.root = r.root]
        /\ contents' = [contents EXCEPT ![k] = v]
        /\ UNCHANGED removed

Remove(k) ==
    LET r == remove(kp, kp.root, k)
        i == get(kp, kp.root, k)
    IN  /\ kp' = [r.page EXCEPT !.root = r.root]
        /\ removed' = <<i, r.idx, i # Nil /\ Nil \notin {kp.keys[i].left, kp.keys[i].right}>>
        /\ contents' = [contents EXCEPT ![k] = Nil]

Next == \E k \in Keys : Remove(k) \/ Put(k)

Spec == Init /\ [][Next]_vars

-----------------------------------------------------------------------------
(* Properties                                                               *)

TypeOK ==
    /\ kp.keys \in [Slots -> [inuse : BOOLEAN, height : 1 .. numOfKeys,
                              left : Slots \cup {Nil}, right : Slots \cup {Nil},
                              key : Keys \cup {0}, voff : Keys \cup {Nil}]]
    /\ kp.vcount \in 0 .. numOfKeys
    /\ kp.root \in Slots \cup {Nil}

Found(i) == IF i = Nil THEN Nil ELSE kp.keys[i].voff

\* The tree is a map: get finds exactly the keys that were put and not removed,
\* with the value offset last put, through every rotation and through the
\* removal of a key with two subtrees (KeyRecords::get, put, remove).
GetsLastPut == \A k \in Keys : Found(get(kp, kp.root, k)) = contents[k]

\* the slots of the subtree at i
RECURSIVE Subtree(_)
Subtree(i) ==
    IF i = Nil THEN {} ELSE {i} \cup Subtree(kp.keys[i].left) \cup Subtree(kp.keys[i].right)

\* No slot is lost or used twice: the slots marked in use are the slots of the
\* tree, and kp_vcount, by which processKeyPages decides that a page is full
\* or empty, is their number.
SlotsAccounted ==
    /\ Subtree(kp.root) = Slots \ FreeSlots(kp)
    /\ kp.vcount = Cardinality(Subtree(kp.root))

RECURSIVE TrueHeight(_)
TrueHeight(i) ==
    IF i = Nil THEN 0
    ELSE 1 + Larger(TrueHeight(kp.keys[i].left), TrueHeight(kp.keys[i].right))

\* The height a record keeps, from which the balance factors are computed, is
\* the height of its subtree.
HeightsRight == \A i \in Subtree(kp.root) : kp.keys[i].height = TrueHeight(i)

\* As long as keys are only put, the page is a balanced AVL tree (the comment
\* of class KeyRecords): the subtrees of a record differ by at most one in
\* height.  balanceTree does not keep this when keys are removed.
PutsKeepBalance ==
    removed = << >> => \A i \in Subtree(kp.root) : balanceFactor(kp, i) \in -1 .. 1

\* remove reports the slot where get found the key, as the ASSERT "found and
\* deleted key index mismatch" of Rdb::remove wants it, unless the record had
\* two subtrees: then another record took its slot and that one was freed.
ReportsSlotFound ==
    removed # << >> /\ ~removed[3] => removed[1] = removed[2]
=============================================================================
