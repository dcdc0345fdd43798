--------------------------- MODULE PageAllocator ---------------------------
(***************************************************************************)
(* What the page manager of librdb promises its only client, the LRU cache *)
(* of key pages: get() returns a page nobody else has, and returns a null  *)
(* pointer only when every page of the pool is in use.                     *)
(***************************************************************************)
CONSTANTS Page,    \* the pages of the pool
          NoPage   \* the null pointer

VARIABLES used,    \* the pages the client has
          answer   \* what the latest get() returned

vars == <<used, answer>>

Init == used = {} /\ answer = NoPage

Alloc(p) ==
    /\ p \notin used
    /\ used' = used \cup {p}
    /\ answer' = p

Exhausted ==
    /\ used = Page
    /\ answer' = NoPage
    /\ UNCHANGED used

Release(p) ==
    /\ p \in used
    /\ used' = used \ {p}
    /\ UNCHANGED answer

Next ==
    \/ \E p \in Page : Alloc(p) \/ Release(p)
    \/ Exhausted

Spec == Init /\ [][Next]_vars
=============================================================================
