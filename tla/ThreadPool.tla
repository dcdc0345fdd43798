----------------------------- MODULE ThreadPool -----------------------------
(***************************************************************************)
(* sync_queue and thread_pool of libcom/include/thrdpool.h: workers wait   *)
(* on a queue of tasks, submit() puts a task there and notifies one        *)
(* worker, stop() invalidates the queue, notifies all and joins them.      *)
(*                                                                         *)
(* What runs under m_lock is one step.  A worker in the wait of get() is   *)
(* "waiting" until it is notified, or wakes for no reason; it is then      *)
(* "woken" until it has the lock again and looks at the queue.             *)
(***************************************************************************)
EXTENDS Integers, Sequences, FiniteSets

CONSTANTS
    Workers,        \* the threads of a pool that is large enough
    Tasks,
    SizeMax,        \* the largest size_t
    Concurrency     \* what std::thread::hardware_concurrency() may return

ASSUME PoolAssumption ==
    /\ IsFiniteSet(Workers) /\ Workers = 1 .. Cardinality(Workers)
    /\ SizeMax \in Nat /\ Concurrency \subseteq 0 .. SizeMax

VARIABLES
    hc,             \* the hardware concurrency
    m_done, m_valid, m_waiting,
    m_queue,        \* the tasks in the queue
    pc, task,       \* of each worker: where it is, the task it runs
    stopper,        \* stop(): "no", "invalidate", "join", "returned"
    started,        \* the tasks in the order they were started
    accepted,       \* the tasks in the order they were put in the queue
    finished, dropped

queue   == <<m_valid, m_waiting, m_queue>>
history == <<started, accepted, finished, dropped>>
vars    == <<hc, m_done, queue, pc, task, stopper, history>>

NoTask == "none"

\* thread_pool(): size_t arithmetic
ThreadCount(n) ==
    LET h == (n - 1) % (SizeMax + 1)
    IN  IF h <= 0 THEN 1 ELSE h

Init ==
    /\ hc \in Concurrency
    /\ m_done = FALSE /\ m_valid = TRUE /\ m_waiting = 0
    /\ m_queue = << >>
    /\ pc = [w \in Workers |-> IF w <= ThreadCount(hc) THEN "loop" ELSE "absent"]
    /\ task = [w \in Workers |-> NoTask]
    /\ stopper = "no"
    /\ started = << >> /\ accepted = << >> /\ finished = {} /\ dropped = {}

-----------------------------------------------------------------------------
(* The workers                                                              *)

\* while (!m_done)
Loop(w) ==
    /\ pc[w] = "loop"
    /\ pc' = [pc EXCEPT ![w] = IF m_done THEN "exited" ELSE "get"]
    /\ UNCHANGED <<hc, m_done, queue, task, stopper, history>>

\* the predicate get() waits for
Ready == ~m_valid \/ m_queue # << >>

\* a get() that takes the newest element
FetchLast(w) ==
    IF m_valid /\ m_queue # << >>
    THEN /\ task' = [task EXCEPT ![w] = m_queue[Len(m_queue)]]
         /\ m_queue' = SubSeq(m_queue, 1, Len(m_queue) - 1)
         /\ started' = Append(started, m_queue[Len(m_queue)])
         /\ pc' = [pc EXCEPT ![w] = "run"]
    ELSE /\ pc' = [pc EXCEPT ![w] = "loop"]
         /\ UNCHANGED <<task, m_queue, started>>

\* the rest of get(): an element, or false
Fetch(w) ==
    IF m_valid /\ m_queue # << >>
    THEN /\ task' = [task EXCEPT ![w] = Head(m_queue)]
         /\ m_queue' = Tail(m_queue)
         /\ started' = Append(started, Head(m_queue))
         /\ pc' = [pc EXCEPT ![w] = "run"]
    ELSE /\ pc' = [pc EXCEPT ![w] = "loop"]
         /\ UNCHANGED <<task, m_queue, started>>

\* get(): the lock is free, the worker goes on at once or waits
get(w) ==
    /\ pc[w] = "get"
    /\ IF Ready
       THEN Fetch(w) /\ UNCHANGED m_waiting
       ELSE /\ m_waiting' = m_waiting + 1
            /\ pc' = [pc EXCEPT ![w] = "waiting"]
            /\ UNCHANGED <<task, m_queue, started>>
    /\ UNCHANGED <<hc, m_done, m_valid, stopper, accepted, finished, dropped>>

\* Mutant: a woken worker does not give back the count of the wait.
WakeUncounted(w) ==
    /\ pc[w] = "woken"
    /\ Ready /\ Fetch(w)
    /\ UNCHANGED <<hc, m_done, m_valid, m_waiting, stopper, accepted, finished, dropped>>

\* a worker that was woken has the lock and evaluates the predicate again
Wake(w) ==
    /\ pc[w] = "woken"
    /\ IF Ready
       THEN Fetch(w) /\ m_waiting' = m_waiting - 1
       ELSE /\ pc' = [pc EXCEPT ![w] = "waiting"]
            /\ UNCHANGED <<task, m_queue, m_waiting, started>>
    /\ UNCHANGED <<hc, m_done, m_valid, stopper, accepted, finished, dropped>>

SpuriousWakeup(w) ==
    /\ pc[w] = "waiting"
    /\ pc' = [pc EXCEPT ![w] = "woken"]
    /\ UNCHANGED <<hc, m_done, queue, task, stopper, history>>

\* (fcn)(): the packaged task stores its result or its exception
Run(w) ==
    /\ pc[w] = "run"
    /\ finished' = finished \cup {task[w]}
    /\ task' = [task EXCEPT ![w] = NoTask]
    /\ pc' = [pc EXCEPT ![w] = "loop"]
    /\ UNCHANGED <<hc, m_done, queue, stopper, started, accepted, dropped>>

-----------------------------------------------------------------------------
(* submit() and stop()                                                      *)

Waiting == {w \in Workers : pc[w] = "waiting"}

notify_none == UNCHANGED pc
notify_one ==
    IF Waiting = {} THEN UNCHANGED pc
    ELSE \E w \in Waiting : pc' = [pc EXCEPT ![w] = "woken"]

notify_all_none == UNCHANGED pc
notify_all == pc' = [w \in Workers |-> IF w \in Waiting THEN "woken" ELSE pc[w]]

New(x) == x \notin finished \cup dropped /\ \A i \in 1 .. Len(accepted) : accepted[i] # x

\* submit(): m_queue.put(fcn)
submit(x) ==
    /\ New(x)
    /\ IF m_valid
       THEN /\ m_queue' = Append(m_queue, x)
            /\ accepted' = Append(accepted, x)
            /\ notify_one
            /\ UNCHANGED dropped
       ELSE /\ dropped' = dropped \cup {x}
            /\ UNCHANGED <<m_queue, accepted, pc>>
    /\ UNCHANGED <<hc, m_done, m_valid, m_waiting, task, stopper, started, finished>>

stop ==
    /\ stopper = "no" /\ ~m_done
    /\ m_done' = TRUE
    /\ stopper' = "invalidate"
    /\ UNCHANGED <<hc, queue, pc, task, history>>

\* what is still in the queue is dropped
Drained(q) == {q[i] : i \in 1 .. Len(q)}

invalidateUndrained ==
    /\ stopper = "invalidate"
    /\ m_valid' = FALSE
    /\ notify_all
    /\ stopper' = "join"
    /\ UNCHANGED <<hc, m_done, m_waiting, m_queue, task, history>>

invalidate ==
    /\ stopper = "invalidate"
    /\ m_valid' = FALSE
    /\ m_queue' = << >>
    /\ dropped' = dropped \cup Drained(m_queue)
    /\ notify_all
    /\ stopper' = "join"
    /\ UNCHANGED <<hc, m_done, m_waiting, task, started, accepted, finished>>

\* every thread is joined
join ==
    /\ stopper = "join"
    /\ \A w \in Workers : pc[w] \in {"exited", "absent"}
    /\ stopper' = "returned"
    /\ UNCHANGED <<hc, m_done, queue, pc, task, history>>

Worker(w) == Loop(w) \/ get(w) \/ Wake(w) \/ Run(w)

Next ==
    \/ \E w \in Workers : Worker(w) \/ SpuriousWakeup(w)
    \/ \E x \in Tasks : submit(x)
    \/ stop \/ invalidate \/ join

Spec == Init /\ [][Next]_vars

\* every thread that can go on does, and a task ends
Fairness ==
    /\ \A w \in Workers : WF_vars(Worker(w))
    /\ WF_vars(invalidate \/ join)

FairSpec == Spec /\ Fairness

-----------------------------------------------------------------------------
(* Properties                                                               *)

TypeOK ==
    /\ hc \in Concurrency /\ m_done \in BOOLEAN /\ m_valid \in BOOLEAN
    /\ m_waiting \in Nat
    /\ m_queue \in Seq(Tasks) /\ started \in Seq(Tasks) /\ accepted \in Seq(Tasks)
    /\ pc \in [Workers -> {"absent", "loop", "get", "waiting", "woken", "run", "exited"}]
    /\ task \in [Workers -> Tasks \cup {NoTask}]
    /\ stopper \in {"no", "invalidate", "join", "returned"}
    /\ finished \subseteq Tasks /\ dropped \subseteq Tasks

\* threads_waiting() tells the workers that wait, spurious wakeups and all.
WaitingCounted == m_waiting = Cardinality({w \in Workers : pc[w] \in {"waiting", "woken"}})

\* Tasks are started in the order in which they were submitted; until the pool
\* is stopped, those not started are in the queue.
StartedInOrder ==
    /\ Len(started) <= Len(accepted)
    /\ started = SubSeq(accepted, 1, Len(started))
    /\ m_valid => started \o m_queue = accepted

\* threads_waiting() tells the workers that wait, through spurious wakeups and the
\* end of the pool, and tasks are started in the order in which submit() accepted
\* them (sync_queue::get, put).
PoolSound == TypeOK /\ WaitingCounted /\ StartedInOrder

InSeq(x, s) == \E i \in 1 .. Len(s) : s[i] = x

StatusOf(x) ==
    IF x \in finished          THEN "finished"
    ELSE IF x \in dropped      THEN "dropped"
    ELSE IF InSeq(x, started)  THEN "running"
    ELSE IF InSeq(x, accepted) THEN "accepted"
    ELSE "new"

TQ == INSTANCE TaskQueue WITH open <- m_valid, status <- [x \in Tasks |-> StatusOf(x)]

\* The pool runs every accepted task once or, when it is stopped first, never.
RunsTasks == TQ!Spec

\* stop() returns: no worker sleeps through it, whatever it was doing.
StopReturns == stopper = "invalidate" ~> stopper = "returned"

\* An accepted task is run, or dropped by stop(): no notification is lost on a
\* worker that is about to sleep, or taken by one that does not need it.
TaskEnds == \A x \in Tasks : InSeq(x, accepted) ~> x \in finished \cup dropped
=============================================================================
