------------------------------ MODULE JsonValue ------------------------------
(***************************************************************************)
(* The value class of libjson (json.h, json.cpp): a tagged union that owns *)
(* its string, object or array on the heap, with deep copies, moves and    *)
(* members that are values themselves; null, booleans and numbers own      *)
(* nothing.  An operation that reads freed memory, a null pointer or a     *)
(* member an array does not have ends the behaviour.                       *)
(***************************************************************************)
EXTENDS Integers, FiniteSets, SequencesExt

CONSTANTS
    Vars,          \* variables of type value
    Addrs,         \* addresses, numbered: the memory there is
    MaxKeys,       \* keys, or indexes, of members
    MaxDepth,      \* bound: how deep values are nested
    Scalars        \* values that own no memory

VARIABLES
    val,           \* the variables
    heap,          \* what is allocated: a string, or the members of a container
    broken,        \* an operation read freed memory or a null pointer
    want,          \* history: the value each variable was given
    leaked         \* history: memory moved into itself

vars == <<val, heap, broken, want, leaked>>

Nil == 0
Null == [type |-> "null", ptr |-> Nil]
Free == [live |-> FALSE, kids |-> <<>>]
Block(kids) == [live |-> TRUE, kids |-> kids]
Containers == {"object", "array"}
Owns(v) == v.type \in Containers \cup {"string"}
Keys == 1..MaxKeys

\* A place: a variable, or a member of the container it holds.
Self == 0
Places == Vars \X (Keys \cup {Self})
Exists(p) == p[2] = Self \/ (val[p[1]].type \in Containers /\ val[p[1]].ptr # Nil
                             /\ p[2] \in DOMAIN heap[val[p[1]].ptr].kids)
At(p) == IF p[2] = Self THEN val[p[1]] ELSE heap[val[p[1]].ptr].kids[p[2]]

\* The addresses of a value, and the value as a tree.
RECURSIVE Reach(_, _)
Reach(h, v) ==
    IF ~Owns(v) \/ v.ptr = Nil THEN {}
    ELSE {v.ptr} \cup UNION {Reach(h, h[v.ptr].kids[k]) : k \in DOMAIN h[v.ptr].kids}

\* Moved: a value has given its memory away, and keeps its type.
RECURSIVE Tree(_, _)
Tree(h, v) ==
    IF ~Owns(v) THEN [type |-> v.type]
    ELSE IF v.ptr = Nil THEN [type |-> "moved"]
    ELSE [type |-> v.type, kids |-> [k \in DOMAIN h[v.ptr].kids |-> Tree(h, h[v.ptr].kids[k])]]

RECURSIVE HasMoved(_)
HasMoved(t) == t.type = "moved" \/ ("kids" \in DOMAIN t /\ \E k \in DOMAIN t.kids : HasMoved(t.kids[k]))

RECURSIVE Depth(_)
Depth(t) == IF "kids" \notin DOMAIN t THEN 0 ELSE 1 + Max({0} \cup {Depth(t.kids[k]) : k \in DOMAIN t.kids})

-----------------------------------------------------------------------------
\* clean(): the memory of a value is deleted, all of it.
clean(h, v) == [a \in Reach(h, v) |-> Free] @@ h

\* An address for a new block.
Unused(h) == {a \in Addrs : ~h[a].live}
Room(h, n) == Cardinality(Unused(h)) >= n
NewAddr(h) == CHOOSE a \in Unused(h) : \A b \in Unused(h) : a <= b

\* copy(): the heap with a copy of v in it, members first, and the copy.
RECURSIVE copy(_, _)
copy(h, v) ==
    IF ~Owns(v) THEN [heap |-> h, val |-> v]
    ELSE LET kids == h[v.ptr].kids
             keys == SetToSeq(DOMAIN kids)
             done == FoldLeft(LAMBDA acc, k :
                                 LET c == copy(acc.heap, kids[k])
                                 IN [heap |-> c.heap, kids |-> (k :> c.val) @@ acc.kids],
                              [heap |-> h, kids |-> <<>>], keys)
             a == NewAddr(done.heap)
         IN [heap |-> [done.heap EXCEPT ![a] = Block(done.kids)], val |-> [v EXCEPT !.ptr = a]]

\* Mutant: the source of a move keeps its pointer.
MovedKeeps(v) == v

\* move(): what the source is left with.
moved(v) == IF Owns(v) THEN [v EXCEPT !.ptr = Nil] ELSE v

\* The variables, and the heap, with v at place p.
ValWith(w, p, v) == IF p[2] = Self THEN [w EXCEPT ![p[1]] = v] ELSE w
HeapWith(h, p, v) ==
    IF p[2] = Self THEN h ELSE [h EXCEPT ![val[p[1]].ptr].kids = (p[2] :> v) @@ @]
Put(h, p, v) == val' = ValWith(val, p, v) /\ heap' = HeapWith(h, p, v)

\* History: the tree t is put at place p, or becomes that of a new member.
PutTree(w, p, t) ==
    IF p[2] = Self THEN [w EXCEPT ![p[1]] = t]
    ELSE [w EXCEPT ![p[1]].kids = (p[2] :> t) @@ @]
TreeAt(p) == IF p[2] = Self THEN want[p[1]] ELSE want[p[1]].kids[p[2]]

-----------------------------------------------------------------------------
Init ==
    /\ val = [x \in Vars |-> Null] /\ heap = [a \in Addrs |-> Free] /\ broken = FALSE
    /\ want = [x \in Vars |-> [type |-> "null"]] /\ leaked = {}

\* operator= of nullptr, a boolean or a number, and the destructor.
AssignScalar(p, s) ==
    /\ Exists(p)
    /\ Put(clean(heap, At(p)), p, [type |-> s, ptr |-> Nil])
    /\ want' = PutTree(want, p, [type |-> s])
    /\ UNCHANGED <<broken, leaked>>

\* operator= of a string, of an object without members, of an array of nulls.
AssignNew(p, type, ks) ==
    /\ Exists(p)
    /\ \E h \in {clean(heap, At(p))} :
          /\ Room(h, 1)
          /\ Put([h EXCEPT ![NewAddr(h)] = Block([k \in ks |-> Null])], p, [type |-> type, ptr |-> NewAddr(h)])
    /\ want' = PutTree(want, p, [type |-> type, kids |-> [k \in ks |-> [type |-> "null"]]])
    /\ UNCHANGED <<broken, leaked>>

\* operator= of a string that string_unescape refuses: the exception leaves the type without
\* the string.
AssignRefused(p) ==
    /\ Exists(p)
    /\ Put(clean(heap, At(p)), p, [type |-> "string", ptr |-> Nil])
    /\ want' = PutTree(want, p, [type |-> "moved"])
    /\ UNCHANGED <<broken, leaked>>

Breaks == broken' = TRUE /\ UNCHANGED <<val, heap, want, leaked>>

\* operator[] on a value of that type: an object gets the member it lacks, as null.
Member(x, k) ==
    LET v == val[x] IN
    IF v.ptr = Nil \/ (v.type = "array" /\ k \notin DOMAIN heap[v.ptr].kids) THEN Breaks
    ELSE /\ k \notin DOMAIN heap[v.ptr].kids
         /\ heap' = [heap EXCEPT ![v.ptr].kids = (k :> Null) @@ @]
         /\ want' = PutTree(want, <<x, k>>, [type |-> "null"])
         /\ UNCHANGED <<val, broken, leaked>>

\* operator[] on a value of another type, which becomes an object with a null member, or an
\* array without the member that is then read.
Become(x, type, k) ==
    IF type = "array" THEN Breaks
    ELSE /\ \E h \in {clean(heap, val[x])} :
               /\ Room(h, 1)
               /\ heap' = [h EXCEPT ![NewAddr(h)] = Block(k :> Null)]
               /\ val' = [val EXCEPT ![x] = [type |-> type, ptr |-> NewAddr(h)]]
         /\ want' = PutTree(want, <<x, Self>>, [type |-> type, kids |-> k :> [type |-> "null"]])
         /\ UNCHANGED <<broken, leaked>>

Index(x, type, k) == IF val[x].type = type THEN Member(x, k) ELSE Become(x, type, k)

\* One place is inside the value at another.
Inside(p, q) == p[1] = q[1] /\ p[2] # Self /\ q[2] = Self

\* operator=(const value &): clean() and the new type come before the source is read.  A
\* source inside the target is freed by then; a target inside the source is a null pointer.
CopyAssign(to, from) ==
    /\ Exists(to) /\ Exists(from) /\ to # from
    /\ IF HasMoved(Tree(heap, At(from))) \/ Inside(from, to) \/ Inside(to, from)
       THEN Breaks
       ELSE /\ \E h \in {clean(heap, At(to))} :
               /\ Room(h, Cardinality(Reach(h, At(from))))
               /\ \E c \in {copy(h, At(from))} : Put(c.heap, to, c.val)
            /\ want' = PutTree(want, to, TreeAt(from))
            /\ UNCHANGED <<broken, leaked>>

\* operator=(value &&).  A value moved into its own member is lost with it.
MoveAssign(to, from) ==
    /\ Exists(to) /\ Exists(from) /\ to # from
    /\ IF Inside(from, to) THEN Breaks
       ELSE \E h \in {HeapWith(clean(heap, At(to)), to, Null)}, v \in {At(from)} :
            /\ val' = ValWith(ValWith(val, to, v), from, moved(v))
            /\ heap' = HeapWith(HeapWith(h, to, v), from, moved(v))
            /\ leaked' = IF Inside(to, from) THEN leaked \cup Reach(h, v) ELSE leaked
            /\ want' = IF Inside(to, from) THEN [want EXCEPT ![from[1]] = [type |-> "moved"]]
                       ELSE IF Owns(v) THEN PutTree(PutTree(want, to, TreeAt(from)), from, [type |-> "moved"])
                       ELSE PutTree(want, to, TreeAt(from))
            /\ UNCHANGED broken

\* Behaviours are followed up to the first that is undefined, or loses memory.
Next ==
    /\ ~broken /\ leaked = {}
    /\ \/ \E p \in Places : \/ \E s \in Scalars : AssignScalar(p, s)
                            \/ AssignNew(p, "string", {}) \/ AssignNew(p, "object", {})
                            \/ \E n \in 0..MaxKeys : AssignNew(p, "array", 1..n)
                            \/ AssignRefused(p)
       \/ \E x \in Vars, type \in Containers, k \in Keys : Index(x, type, k)
       \/ \E p, q \in Places : CopyAssign(p, q) \/ MoveAssign(p, q)
    /\ \A x \in Vars : Depth(want'[x]) <= MaxDepth

Spec == Init /\ [][Next]_vars

-----------------------------------------------------------------------------
\* Every piece of memory has one owner: no two values share a string or a container, none
\* points to memory that was deleted, and none is left behind except by a value that was
\* moved into itself (json.cpp:293, 317, 356).
OwnedOnce ==
    LET direct == {x \in Vars : Owns(val[x]) /\ val[x].ptr # Nil}
        all == UNION {Reach(heap, val[x]) : x \in Vars}
        nested == {<<a, k>> \in all \X Keys : k \in DOMAIN heap[a].kids /\ heap[a].kids[k].ptr # Nil}
    IN /\ \A a \in Addrs : heap[a].live <=> a \in all \cup leaked
       /\ Cardinality(direct) + Cardinality(nested) = Cardinality(all)

\* A value is what was assigned to it last, whatever is then done to the values it was
\* copied from or to (json.cpp:464, 477).
ValuesIndependent == \A x \in Vars : Tree(heap, val[x]) = want[x]

=============================================================================
