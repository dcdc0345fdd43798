----------------------------- MODULE TaskQueue -----------------------------
(***************************************************************************)
(* What the thread pool of libcom promises a caller of submit(): a task    *)
(* that is accepted is run once, or dropped when the pool is stopped       *)
(* first; a task submitted after that is dropped at once.  A dropped task  *)
(* never runs, and the caller's future then reports a broken promise.      *)
(***************************************************************************)
CONSTANT Tasks

VARIABLES open, status

vars == <<open, status>>

Init == open = TRUE /\ status = [x \in Tasks |-> "new"]

Become(x, from, to) ==
    /\ status[x] = from
    /\ status' = [status EXCEPT ![x] = to]
    /\ UNCHANGED open

Accept(x) == open /\ Become(x, "new", "accepted")
Start(x)  == open /\ Become(x, "accepted", "running")
Finish(x) == Become(x, "running", "finished")
Refuse(x) == ~open /\ Become(x, "new", "dropped")

\* everything that has not been started is dropped
Close ==
    /\ open' = FALSE
    /\ status' = [x \in Tasks |-> IF status[x] = "accepted" THEN "dropped" ELSE status[x]]

Next ==
    \/ Close
    \/ \E x \in Tasks : Accept(x) \/ Start(x) \/ Finish(x) \/ Refuse(x)

Spec == Init /\ [][Next]_vars
=============================================================================
