------------------------------ MODULE PageMgr ------------------------------
(***************************************************************************)
(* The in-memory page manager of librdb (librdb/src/pagemgr.cpp): one pool *)
(* of memory cut into pages, handed out to the LRU cache.  A mutex makes   *)
(* get() and free() atomic.  An address is its page number in the pool;    *)
(* the pool may end with part of a page.                                   *)
(***************************************************************************)
EXTENDS Integers, Sequences, Stacks

CONSTANTS
    NumOfPages,    \* poolSize / pageSize
    PartialPage    \* TRUE when poolSize is not a multiple of pageSize

ASSUME PoolAssumption == NumOfPages \in Nat /\ PartialPage \in BOOLEAN

VARIABLES
    nextFreePage,    \* the stack of addresses, its top is the last element
    numOfFreePages,
    allocated,       \* the pages the client has
    answer           \* what the latest get() returned

vars == <<nextFreePage, numOfFreePages, allocated, answer>>

NoPage == -1                       \* the null pointer
Pages  == 0 .. NumOfPages - 1

\* the address of page p is below pool + poolSize
InPool(p) == p < NumOfPages \/ (PartialPage /\ p = NumOfPages)

TypeOK ==
    /\ nextFreePage \in Seq(Int)
    /\ numOfFreePages \in Nat
    /\ allocated \subseteq Pages
    /\ answer \in Pages \cup {NoPage}

Init ==
    /\ nextFreePage = <<0>>
    /\ numOfFreePages = NumOfPages
    /\ allocated = {}
    /\ answer = NoPage

CanGet          == nextFreePage # << >> /\ numOfFreePages > 0

\* the stack after addr was popped: when it is empty, the page after addr
\* takes its place, whether addr was the last page ever handed out or not
RefillNever(addr, rest) == rest
Refill(addr, rest) ==
    IF rest = << >> /\ InPool(addr + 1) THEN <<addr + 1>> ELSE rest

\* get() returns a page
get ==
    /\ CanGet
    /\ LET addr == Top(nextFreePage)
       IN  /\ nextFreePage' = Refill(addr, Pop(nextFreePage))
           /\ allocated' = allocated \cup {addr}
           /\ answer' = addr
    /\ numOfFreePages' = numOfFreePages - 1

\* get() returns a null pointer
getFails ==
    /\ ~CanGet
    /\ answer' = NoPage
    /\ UNCHANGED <<nextFreePage, numOfFreePages, allocated>>

\* free() of a page the client has
free(p) ==
    /\ p \in allocated
    /\ nextFreePage' = Push(nextFreePage, p)
    /\ numOfFreePages' = numOfFreePages + 1
    /\ allocated' = allocated \ {p}
    /\ UNCHANGED answer

Next ==
    \/ get
    \/ getFails
    \/ \E p \in Pages : free(p)

Spec == Init /\ [][Next]_vars

-----------------------------------------------------------------------------
(* Properties                                                               *)

\* The page manager implements the abstract allocator: get() never returns a
\* page that is in use, although addresses of pages in use come to rest at
\* the bottom of the stack, and it returns null only when no page is left.
PA == INSTANCE PageAllocator WITH Page <- Pages, used <- allocated
Allocates == PA!Spec
=============================================================================
