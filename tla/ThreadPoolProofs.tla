-------------------------- MODULE ThreadPoolProofs --------------------------
(***************************************************************************)
(* The thread pool, for every number of workers and tasks: the count of    *)
(* waiting workers, the order in which tasks are started, and that the     *)
(* pool runs an accepted task once or drops it (TaskQueue).                *)
(*                                                                         *)
(* The invariant states the order element by element, in Order; Fates says *)
(* what has become of each task.  A task is accepted once, so a worker     *)
(* that runs it is the only one, and one that was dropped was not started. *)
(***************************************************************************)
EXTENDS ThreadPool, FiniteSetTheorems, SequenceTheorems, TLAPS

\* The workers that m_waiting counts.
Sleepers == {w \in Workers : pc[w] \in {"waiting", "woken"}}

\* What was started, then what is in the queue, is what was accepted.
Order ==
    /\ Len(started) <= Len(accepted)
    /\ \A i \in 1 .. Len(started) : started[i] = accepted[i]
    /\ m_valid =>
         /\ Len(accepted) = Len(started) + Len(m_queue)
         /\ \A i \in 1 .. Len(m_queue) : m_queue[i] = accepted[Len(started) + i]
    /\ \A i, j \in 1 .. Len(accepted) : accepted[i] = accepted[j] => i = j

\* What has become of the tasks.
Fates ==
    /\ m_valid => dropped = {}
    /\ ~m_valid => \A x \in Tasks : InSeq(x, accepted) => InSeq(x, started) \/ x \in dropped
    /\ \A x \in finished : InSeq(x, started)
    /\ \A x \in dropped : ~InSeq(x, started)
    /\ \A w \in Workers : pc[w] = "run" =>
         task[w] \in Tasks /\ InSeq(task[w], started) /\ task[w] \notin finished
    /\ \A w, v \in Workers : pc[w] = "run" /\ pc[v] = "run" /\ task[w] = task[v] => w = v

\* The queue is valid until stop() invalidates it.
Valid == stopper \in {"no", "invalidate"} => m_valid

IInv == TypeOK /\ WaitingCounted /\ Order /\ Fates /\ Valid

\* A task in a sequence that another is appended to.
LEMMA InAppend ==
    ASSUME NEW s \in Seq(Tasks), NEW e \in Tasks, NEW x
    PROVE  InSeq(x, Append(s, e)) <=> InSeq(x, s) \/ x = e
<1>1. /\ Len(s) \in Nat /\ Len(Append(s, e)) = Len(s) + 1
      /\ \A i \in 1 .. Len(s) : Append(s, e)[i] = s[i]
      /\ Append(s, e)[Len(s) + 1] = e
  BY AppendProperties, LenProperties
<1>2. \A i \in 1 .. Len(s) + 1 : i \in 1 .. Len(s) \/ i = Len(s) + 1
  BY <1>1
<1>3. Len(s) + 1 \in 1 .. Len(s) + 1 /\ \A i \in 1 .. Len(s) : i \in 1 .. Len(s) + 1
  BY <1>1
<1> QED
  BY <1>1, <1>2, <1>3 DEF InSeq

\* What was started was accepted.
LEMMA StartedAccepted ==
    ASSUME TypeOK, Order, NEW x, InSeq(x, started)
    PROVE  InSeq(x, accepted)
<1>1. Len(started) \in Nat /\ Len(accepted) \in Nat
  BY LenProperties DEF TypeOK
<1>2. PICK i \in 1 .. Len(started) : started[i] = x
  BY DEF InSeq
<1>3. i \in 1 .. Len(accepted) /\ accepted[i] = x
  BY <1>1, <1>2 DEF Order
<1> QED
  BY <1>3 DEF InSeq

\* The order element by element is the order of StartedInOrder.
LEMMA OrderOfTasks == TypeOK /\ Order => StartedInOrder
<1> SUFFICES ASSUME TypeOK, Order PROVE StartedInOrder
  OBVIOUS
<1>1. /\ started \in Seq(Tasks) /\ accepted \in Seq(Tasks) /\ m_queue \in Seq(Tasks)
      /\ Len(started) \in Nat /\ Len(accepted) \in Nat /\ Len(m_queue) \in Nat
  BY LenProperties DEF TypeOK
<1>2. started = SubSeq(accepted, 1, Len(started))
  <2> DEFINE p == SubSeq(accepted, 1, Len(started))
  <2>1. \A i \in 1 .. Len(started) : accepted[i] \in Tasks
    BY <1>1, ElementOfSeq DEF Order
  <2>2. /\ p \in Seq(Tasks)
        /\ Len(p) = (IF 1 <= Len(started) THEN Len(started) - 1 + 1 ELSE 0)
        /\ \A i \in 1 .. Len(started) - 1 + 1 : p[i] = accepted[1 + i - 1]
    <3>1. 1 \in Int /\ Len(started) \in Int
      BY <1>1
    <3> QED
      BY <2>1, <3>1, SubSeqProperties
  <2>3. Len(p) = Len(started)
    BY <1>1, <2>2
  <2>4. \A i \in 1 .. Len(started) : started[i] = p[i]
    <3> HIDE DEF p
    <3> SUFFICES ASSUME NEW i \in 1 .. Len(started) PROVE started[i] = p[i]
      OBVIOUS
    <3>1. i \in 1 .. Len(started) - 1 + 1 /\ 1 + i - 1 = i
      BY <1>1
    <3> QED
      BY <2>2, <3>1 DEF Order
  <2> QED
    <3> HIDE DEF p
    <3>1. started = p
      BY <1>1, <2>2, <2>3, <2>4, SeqEqual
    <3> QED
      BY <3>1 DEF p
<1>3. ASSUME m_valid PROVE started \o m_queue = accepted
  <2> DEFINE c == started \o m_queue
  <2>1. /\ c \in Seq(Tasks) /\ Len(c) = Len(started) + Len(m_queue)
        /\ \A i \in 1 .. Len(started) + Len(m_queue) :
             c[i] = IF i <= Len(started) THEN started[i] ELSE m_queue[i - Len(started)]
    BY <1>1, ConcatProperties
  <2>2. \A i \in 1 .. Len(c) : c[i] = accepted[i]
    <3> HIDE DEF c
    <3> SUFFICES ASSUME NEW i \in 1 .. Len(c) PROVE c[i] = accepted[i]
      OBVIOUS
    <3>1. CASE i <= Len(started)
      BY <1>1, <2>1, <3>1 DEF Order
    <3>2. CASE ~(i <= Len(started))
      <4>1. /\ i - Len(started) \in 1 .. Len(m_queue)
            /\ Len(started) + (i - Len(started)) = i
        BY <1>1, <2>1, <3>2
      <4>2. c[i] = m_queue[i - Len(started)]
        BY <2>1, <3>2
      <4>3. m_queue[i - Len(started)] = accepted[Len(started) + (i - Len(started))]
        BY <1>3, <4>1 DEF Order
      <4> QED
        BY <4>1, <4>2, <4>3
    <3> QED
      BY <3>1, <3>2
  <2>3. Len(c) = Len(accepted)
    BY <1>3, <2>1 DEF Order
  <2> QED
    <3> HIDE DEF c
    <3>1. c = accepted
      BY <1>1, <2>1, <2>2, <2>3, SeqEqual
    <3> QED
      BY <3>1 DEF c
<1> QED
  BY <1>2, <1>3 DEF StartedInOrder, Order

\* A pool that was just made.
LEMMA InitIInv == Init => IInv /\ TQ!Init
<1> SUFFICES ASSUME Init PROVE IInv /\ TQ!Init
  OBVIOUS
<1>1. /\ started = << >> /\ accepted = << >> /\ m_queue = << >> /\ << >> \in Seq(Tasks)
      /\ Len(<< >>) = 0 /\ 1 .. 0 = {}
  BY EmptySeq DEF Init
<1>2. TypeOK
  BY <1>1 DEF Init, TypeOK
<1>3. WaitingCounted
  <2>1. {w \in Workers : pc[w] \in {"waiting", "woken"}} = {}
    BY DEF Init
  <2> QED
    BY <2>1, FS_EmptySet DEF Init, WaitingCounted
<1>4. \A x : ~InSeq(x, started) /\ ~InSeq(x, accepted)
  BY <1>1 DEF InSeq
<1>5. Order
  BY <1>1 DEF Order
<1>6. Fates
  BY <1>4 DEF Init, Fates
<1>7. TQ!Init
  <2>1. \A x \in Tasks : StatusOf(x) = "new"
    BY <1>4 DEF Init, StatusOf
  <2> QED
    BY <2>1 DEF Init, TQ!Init
<1> QED
  BY <1>2, <1>3, <1>5, <1>6, <1>7 DEF IInv, Init, Valid

-----------------------------------------------------------------------------
(* The count of the workers that wait                                       *)

\* There are finitely many workers that wait (thread_pool::thread_pool).
LEMMA SleepersFinite == IsFiniteSet(Sleepers) /\ Cardinality(Sleepers) \in Nat
<1>1. IsFiniteSet(Workers) /\ Sleepers \in SUBSET Workers
  BY PoolAssumption DEF Sleepers
<1> QED
  BY <1>1, FS_Subset, FS_CardinalityType

\* Nobody begins or ends to wait.
LEMMA SameSleepers ==
    ASSUME WaitingCounted, m_waiting' = m_waiting, Sleepers' = Sleepers
    PROVE  WaitingCounted'
BY DEF WaitingCounted, Sleepers

\* A worker begins to wait.
LEMMA MoreSleepers ==
    ASSUME WaitingCounted, m_waiting' = m_waiting + 1, NEW w, w \notin Sleepers,
           Sleepers' = Sleepers \cup {w}
    PROVE  WaitingCounted' /\ m_waiting' \in Nat
<1>1. Cardinality(Sleepers \cup {w}) = Cardinality(Sleepers) + 1
  BY SleepersFinite, FS_AddElement
<1>2. m_waiting = Cardinality(Sleepers) /\ (WaitingCounted' <=> m_waiting' = Cardinality(Sleepers'))
  BY DEF WaitingCounted, Sleepers
<1> QED
  BY <1>1, <1>2, SleepersFinite

\* A worker ends to wait.
LEMMA FewerSleepers ==
    ASSUME WaitingCounted, m_waiting' = m_waiting - 1, NEW w, w \in Sleepers,
           Sleepers' = Sleepers \ {w}
    PROVE  WaitingCounted' /\ m_waiting' \in Nat
<1>1. Cardinality(Sleepers \ {w}) = Cardinality(Sleepers) - 1
  BY SleepersFinite, FS_RemoveElement
<1>2. Cardinality(Sleepers) # 0
  BY SleepersFinite, FS_EmptySet
<1>3. m_waiting = Cardinality(Sleepers) /\ (WaitingCounted' <=> m_waiting' = Cardinality(Sleepers'))
  BY DEF WaitingCounted, Sleepers
<1> QED
  BY <1>1, <1>2, <1>3, SleepersFinite

-----------------------------------------------------------------------------
(* What becomes of the tasks                                                *)

\* A step that touches neither the queue nor a task.
LEMMA Quiet ==
    ASSUME TypeOK, Order, Fates, UNCHANGED <<m_valid, m_queue, task, history>>,
           \A w \in Workers : pc'[w] = "run" <=> pc[w] = "run"
    PROVE  Order' /\ Fates' /\ UNCHANGED TQ!vars
<1>1. /\ m_valid' = m_valid /\ m_queue' = m_queue /\ task' = task /\ started' = started
      /\ accepted' = accepted /\ finished' = finished /\ dropped' = dropped
  BY DEF history
<1>2. Order'
  BY <1>1 DEF Order
<1>3. Fates'
  BY <1>1 DEF Fates, InSeq
<1>4. UNCHANGED TQ!vars
  BY <1>1 DEF TQ!vars, StatusOf, InSeq
<1> QED
  BY <1>2, <1>3, <1>4

\* get() takes the task at the head of the queue.
LEMMA TakesHead ==
    ASSUME TypeOK, Order, Fates, NEW w \in Workers, pc[w] # "run",
           m_valid, m_queue # << >>, Fetch(w),
           UNCHANGED <<m_valid, accepted, finished, dropped>>
    PROVE  /\ m_queue' \in Seq(Tasks) /\ started' \in Seq(Tasks)
           /\ task' \in [Workers -> Tasks \cup {NoTask}]
           /\ pc' = [pc EXCEPT ![w] = "run"]
           /\ Order' /\ Fates' /\ TQ!Next
<1> DEFINE h == Head(m_queue)
<1>1. /\ task' = [task EXCEPT ![w] = h] /\ m_queue' = Tail(m_queue)
      /\ started' = Append(started, h) /\ pc' = [pc EXCEPT ![w] = "run"]
      /\ m_valid' = m_valid /\ accepted' = accepted /\ finished' = finished /\ dropped' = dropped
  BY DEF Fetch
<1>2. /\ m_queue \in Seq(Tasks) /\ started \in Seq(Tasks) /\ accepted \in Seq(Tasks)
      /\ Len(m_queue) \in Nat /\ Len(started) \in Nat /\ Len(accepted) \in Nat
  BY LenProperties DEF TypeOK
<1>3. /\ h \in Tasks /\ Tail(m_queue) \in Seq(Tasks) /\ Len(Tail(m_queue)) = Len(m_queue) - 1
      /\ \A i \in 1 .. Len(Tail(m_queue)) : Tail(m_queue)[i] = m_queue[i + 1]
      /\ Len(m_queue) >= 1 /\ h = m_queue[1]
  <2>1. Len(m_queue) \in Nat \ {0}
    BY <1>2, EmptySeq
  <2>2. h = m_queue[1]
    BY <1>2
  <2> QED
    BY <1>2, <2>1, <2>2, HeadTailProperties
<1>4. /\ Append(started, h) \in Seq(Tasks) /\ Len(Append(started, h)) = Len(started) + 1
      /\ \A i \in 1 .. Len(started) : Append(started, h)[i] = started[i]
      /\ Append(started, h)[Len(started) + 1] = h
  BY <1>2, <1>3, AppendProperties
<1>5. /\ Len(accepted) = Len(started) + Len(m_queue)
      /\ h = accepted[Len(started) + 1] /\ Len(started) + 1 \in 1 .. Len(accepted)
  <2>1. 1 \in 1 .. Len(m_queue)
    BY <1>2, <1>3
  <2>2. Len(accepted) = Len(started) + Len(m_queue) /\ m_queue[1] = accepted[Len(started) + 1]
    BY <2>1 DEF Order
  <2> QED
    BY <1>2, <1>3, <2>2
<1>6. InSeq(h, accepted) /\ ~InSeq(h, started)
  <2>1. InSeq(h, accepted)
    BY <1>5 DEF InSeq
  <2>2. ASSUME NEW i \in 1 .. Len(started), started[i] = h PROVE FALSE
    <3>1. i \in 1 .. Len(accepted) /\ accepted[i] = h /\ i # Len(started) + 1
      BY <1>2, <1>5, <2>2 DEF Order
    <3> QED
      BY <1>5, <3>1 DEF Order
  <2> QED
    BY <2>1, <2>2 DEF InSeq
<1>7. \A x : InSeq(x, started') <=> InSeq(x, started) \/ x = h
  BY <1>1, <1>2, <1>3, InAppend
<1>8. Order'
  <2>1. Len(started') <= Len(accepted') /\ Len(accepted') = Len(started') + Len(m_queue')
    BY <1>1, <1>2, <1>3, <1>4, <1>5
  <2>2. \A i \in 1 .. Len(started') : started'[i] = accepted'[i]
    <3> SUFFICES ASSUME NEW i \in 1 .. Len(started) + 1 PROVE Append(started, h)[i] = accepted[i]
      BY <1>1, <1>4
    <3>1. i \in 1 .. Len(started) \/ i = Len(started) + 1
      BY <1>2
    <3> QED
      BY <1>4, <1>5, <3>1 DEF Order
  <2>3. \A i \in 1 .. Len(m_queue') : m_queue'[i] = accepted'[Len(started') + i]
    <3> SUFFICES ASSUME NEW i \in 1 .. Len(Tail(m_queue))
                 PROVE  Tail(m_queue)[i] = accepted[Len(started) + 1 + i]
      BY <1>1, <1>4
    <3>1. i + 1 \in 1 .. Len(m_queue) /\ Len(started) + (i + 1) = Len(started) + 1 + i
      BY <1>2, <1>3
    <3>2. m_queue[i + 1] = accepted[Len(started) + (i + 1)]
      BY <3>1 DEF Order
    <3> QED
      BY <1>3, <3>1, <3>2
  <2>4. \A i, j \in 1 .. Len(accepted') : accepted'[i] = accepted'[j] => i = j
    BY <1>1 DEF Order
  <2> QED
    BY <2>1, <2>2, <2>3, <2>4 DEF Order
<1>9. Fates'
  <2>1. dropped = {} /\ \A x \in finished : InSeq(x, started)
    BY DEF Fates
  <2>2. /\ m_valid' => dropped' = {}
        /\ m_valid'
        /\ \A x \in finished' : InSeq(x, started')
        /\ \A x \in dropped' : ~InSeq(x, started')
    BY <1>1, <1>7, <2>1
  <2>3. /\ \A v \in Workers \ {w} : pc'[v] = pc[v] /\ task'[v] = task[v]
        /\ task'[w] = h
    BY <1>1 DEF TypeOK
  <2>4. h \notin finished
    BY <1>6, <2>1
  <2>5. \A v \in Workers : pc'[v] = "run" =>
          task'[v] \in Tasks /\ InSeq(task'[v], started') /\ task'[v] \notin finished'
    BY <1>1, <1>3, <1>7, <2>3, <2>4 DEF Fates
  <2>6. \A v \in Workers \ {w} : pc[v] = "run" => task[v] # h
    BY <1>6 DEF Fates
  <2>7. \A u, v \in Workers : pc'[u] = "run" /\ pc'[v] = "run" /\ task'[u] = task'[v] => u = v
    BY <2>3, <2>6 DEF Fates
  <2> QED
    BY <2>2, <2>5, <2>7 DEF Fates
<1>10. TQ!Start(h)
  <2>1. \A x : x = h => StatusOf(x) = "accepted" /\ StatusOf(x)' = "running"
    <3>1. h \notin finished /\ h \notin dropped
      BY <1>6 DEF Fates
    <3> QED
      BY <1>1, <1>6, <1>7, <3>1 DEF StatusOf
  <2>2. \A x \in Tasks \ {h} : StatusOf(x)' = StatusOf(x)
    BY <1>1, <1>7 DEF StatusOf
  <2>3. [x \in Tasks |-> StatusOf(x)]' = [[x \in Tasks |-> StatusOf(x)] EXCEPT ![h] = "running"]
    BY <1>3, <2>1, <2>2
  <2> QED
    BY <1>1, <1>3, <2>1, <2>3 DEF TQ!Start, TQ!Become
<1>11. TQ!Next
  BY <1>3, <1>10 DEF TQ!Next
<1> QED
  BY <1>1, <1>3, <1>4, <1>8, <1>9, <1>11 DEF TypeOK

\* A task ends, and its worker was the only one to run it.
LEMMA RunStep ==
    ASSUME IInv, NEW w \in Workers, Run(w)
    PROVE  IInv' /\ TQ!Next
<1>1. TypeOK /\ WaitingCounted /\ Order /\ Fates /\ Valid
  BY DEF IInv
<1>2. /\ pc[w] = "run" /\ finished' = finished \cup {task[w]}
      /\ task' = [task EXCEPT ![w] = NoTask] /\ pc' = [pc EXCEPT ![w] = "loop"]
      /\ m_valid' = m_valid /\ m_waiting' = m_waiting /\ m_queue' = m_queue
      /\ started' = started /\ accepted' = accepted /\ dropped' = dropped
      /\ hc' = hc /\ m_done' = m_done /\ stopper' = stopper
  BY DEF Run, queue
<1> DEFINE k == task[w]
<1>3. k \in Tasks /\ InSeq(k, started) /\ k \notin finished /\ k \notin dropped
  BY <1>1, <1>2 DEF Fates
<1>4. TypeOK'
  BY <1>1, <1>2, <1>3 DEF TypeOK
<1>5. WaitingCounted'
  <2>1. Sleepers' = Sleepers
    BY <1>1, <1>2 DEF Sleepers, TypeOK
  <2> QED
    BY <1>1, <1>2, <2>1, SameSleepers
<1>6. Order'
  BY <1>1, <1>2 DEF Order
<1>7. \A x : InSeq(x, started') = InSeq(x, started) /\ InSeq(x, accepted') = InSeq(x, accepted)
  BY <1>2 DEF InSeq
<1>8. Fates'
  <2>1. /\ m_valid' => dropped' = {}
        /\ ~m_valid' => \A x \in Tasks : InSeq(x, accepted') => InSeq(x, started') \/ x \in dropped'
        /\ \A x \in finished' : InSeq(x, started')
        /\ \A x \in dropped' : ~InSeq(x, started')
    BY <1>1, <1>2, <1>3, <1>7 DEF Fates
  <2>2. /\ pc'[w] # "run"
        /\ \A v \in Workers \ {w} : pc'[v] = pc[v] /\ task'[v] = task[v]
        /\ \A v \in Workers \ {w} : pc[v] = "run" => task[v] # k
    BY <1>1, <1>2 DEF TypeOK, Fates
  <2>3. \A v \in Workers : pc'[v] = "run" =>
          task'[v] \in Tasks /\ InSeq(task'[v], started') /\ task'[v] \notin finished'
    BY <1>1, <1>2, <1>7, <2>2 DEF Fates
  <2>4. \A u, v \in Workers : pc'[u] = "run" /\ pc'[v] = "run" /\ task'[u] = task'[v] => u = v
    BY <1>1, <2>2 DEF Fates
  <2> QED
    BY <2>1, <2>3, <2>4 DEF Fates
<1>9. TQ!Finish(k)
  <2>1. \A x : x = k => StatusOf(x) = "running" /\ StatusOf(x)' = "finished"
    BY <1>2, <1>3, <1>7 DEF StatusOf
  <2>2. \A x \in Tasks : x # k => StatusOf(x)' = StatusOf(x)
    BY <1>2, <1>7 DEF StatusOf
  <2>3. [x \in Tasks |-> StatusOf(x)]' = [[x \in Tasks |-> StatusOf(x)] EXCEPT ![k] = "finished"]
    BY <1>3, <2>1, <2>2
  <2> QED
    BY <1>2, <1>3, <2>1, <2>3 DEF TQ!Finish, TQ!Become
<1> QED
  BY <1>1, <1>2, <1>3, <1>4, <1>5, <1>6, <1>8, <1>9 DEF IInv, Valid, TQ!Next

\* notify_one() and notify_all() wake workers: those counted stay counted.
LEMMA Notified ==
    ASSUME TypeOK, notify_one \/ notify_all \/ UNCHANGED pc
    PROVE  /\ pc' \in [Workers -> {"absent", "loop", "get", "waiting", "woken", "run", "exited"}]
           /\ Sleepers' = Sleepers
           /\ \A w \in Workers : pc'[w] = "run" <=> pc[w] = "run"
<1>1. CASE UNCHANGED pc
  BY <1>1 DEF TypeOK, Sleepers
<1>2. CASE \E w \in Waiting : pc' = [pc EXCEPT ![w] = "woken"]
  BY <1>2 DEF TypeOK, Sleepers, Waiting
<1>3. CASE notify_all
  BY <1>3 DEF TypeOK, Sleepers, Waiting, notify_all
<1> QED
  BY <1>1, <1>2, <1>3 DEF notify_one

\* submit() puts a task in the queue.
LEMMA AcceptStep ==
    ASSUME IInv, NEW x \in Tasks, submit(x), m_valid
    PROVE  IInv' /\ TQ!Next
<1>1. TypeOK /\ WaitingCounted /\ Order /\ Fates /\ Valid
  BY DEF IInv
<1>2. /\ New(x) /\ m_queue' = Append(m_queue, x) /\ accepted' = Append(accepted, x) /\ notify_one
      /\ dropped' = dropped /\ hc' = hc /\ m_done' = m_done /\ m_valid' = m_valid
      /\ m_waiting' = m_waiting /\ task' = task /\ stopper' = stopper /\ started' = started
      /\ finished' = finished
  BY DEF submit
<1>3. /\ m_queue \in Seq(Tasks) /\ started \in Seq(Tasks) /\ accepted \in Seq(Tasks)
      /\ Len(m_queue) \in Nat /\ Len(started) \in Nat /\ Len(accepted) \in Nat
  BY <1>1, LenProperties DEF TypeOK
<1>4. /\ Append(m_queue, x) \in Seq(Tasks) /\ Len(Append(m_queue, x)) = Len(m_queue) + 1
      /\ \A i \in 1 .. Len(m_queue) : Append(m_queue, x)[i] = m_queue[i]
      /\ Append(m_queue, x)[Len(m_queue) + 1] = x
  BY <1>3, AppendProperties
<1>5. /\ Append(accepted, x) \in Seq(Tasks) /\ Len(Append(accepted, x)) = Len(accepted) + 1
      /\ \A i \in 1 .. Len(accepted) : Append(accepted, x)[i] = accepted[i]
      /\ Append(accepted, x)[Len(accepted) + 1] = x
  BY <1>3, AppendProperties
<1>6. /\ pc' \in [Workers -> {"absent", "loop", "get", "waiting", "woken", "run", "exited"}]
      /\ Sleepers' = Sleepers
      /\ \A w \in Workers : pc'[w] = "run" <=> pc[w] = "run"
  BY <1>1, <1>2, Notified
<1>7. TypeOK' /\ WaitingCounted'
  <2>1. TypeOK'
    BY <1>1, <1>2, <1>4, <1>5, <1>6 DEF TypeOK
  <2> QED
    BY <1>1, <1>2, <1>6, <2>1, SameSleepers
<1>8. /\ x \notin finished /\ x \notin dropped /\ ~InSeq(x, accepted) /\ ~InSeq(x, started)
  <2>1. x \notin finished /\ x \notin dropped /\ ~InSeq(x, accepted)
    BY <1>2 DEF New, InSeq
  <2> QED
    BY <1>1, <2>1, StartedAccepted
<1>9. \A y : InSeq(y, accepted') <=> InSeq(y, accepted) \/ y = x
  BY <1>2, <1>3, InAppend
<1>10. Order'
  <2>1. /\ Len(started) <= Len(accepted) /\ Len(accepted) = Len(started) + Len(m_queue)
        /\ \A i \in 1 .. Len(started) : started[i] = accepted[i]
        /\ \A i \in 1 .. Len(m_queue) : m_queue[i] = accepted[Len(started) + i]
        /\ \A i, j \in 1 .. Len(accepted) : accepted[i] = accepted[j] => i = j
    BY <1>1 DEF Order
  <2>2. Len(started') <= Len(accepted') /\ Len(accepted') = Len(started') + Len(m_queue')
    BY <1>2, <1>3, <1>4, <1>5, <2>1
  <2>3. \A i \in 1 .. Len(started) : started[i] = Append(accepted, x)[i]
    BY <1>3, <1>5, <2>1
  <2>4. ASSUME NEW i \in 1 .. Len(m_queue) + 1
        PROVE  Append(m_queue, x)[i] = Append(accepted, x)[Len(started) + i]
    <3>1. CASE i = Len(m_queue) + 1
      <4>1. Len(started) + i = Len(accepted) + 1
        BY <1>3, <2>1, <3>1
      <4> QED
        BY <1>4, <1>5, <3>1, <4>1
    <3>2. CASE i # Len(m_queue) + 1
      <4>1. i \in 1 .. Len(m_queue) /\ Len(started) + i \in 1 .. Len(accepted)
        BY <1>3, <2>1, <3>2
      <4> QED
        BY <1>4, <1>5, <2>1, <4>1
    <3> QED
      BY <3>1, <3>2
  <2>5. \A i \in 1 .. Len(accepted) : accepted[i] # x
    BY <1>8 DEF InSeq
  <2>6. ASSUME NEW i \in 1 .. Len(accepted) + 1, NEW j \in 1 .. Len(accepted) + 1,
               Append(accepted, x)[i] = Append(accepted, x)[j]
        PROVE  i = j
    <3>1. /\ i \in 1 .. Len(accepted) \/ i = Len(accepted) + 1
          /\ j \in 1 .. Len(accepted) \/ j = Len(accepted) + 1
      BY <1>3
    <3> QED
      BY <1>5, <2>1, <2>5, <2>6, <3>1
  <2> QED
    BY <1>2, <1>4, <1>5, <2>2, <2>3, <2>4, <2>6 DEF Order
<1>11. Fates'
  <2>1. \A y : InSeq(y, started') <=> InSeq(y, started)
    BY <1>2 DEF InSeq
  <2> QED
    BY <1>1, <1>2, <1>6, <2>1 DEF Fates
<1>12. TQ!Accept(x)
  <2>1. \A y : InSeq(y, started') <=> InSeq(y, started)
    BY <1>2 DEF InSeq
  <2>2. StatusOf(x) = "new" /\ StatusOf(x)' = "accepted"
    BY <1>2, <1>8, <1>9, <2>1 DEF StatusOf
  <2>3. \A y \in Tasks : y # x => StatusOf(y)' = StatusOf(y)
    BY <1>2, <1>9, <2>1 DEF StatusOf
  <2>4. [y \in Tasks |-> StatusOf(y)]' = [[y \in Tasks |-> StatusOf(y)] EXCEPT ![x] = "accepted"]
    BY <2>2, <2>3
  <2> QED
    BY <1>2, <2>2, <2>4 DEF TQ!Accept, TQ!Become
<1> QED
  BY <1>1, <1>2, <1>7, <1>10, <1>11, <1>12 DEF IInv, Valid, TQ!Next

\* submit() after stop() drops the task.
LEMMA RefuseStep ==
    ASSUME IInv, NEW x \in Tasks, submit(x), ~m_valid
    PROVE  IInv' /\ TQ!Next
<1>1. TypeOK /\ WaitingCounted /\ Order /\ Fates /\ Valid
  BY DEF IInv
<1>2. /\ New(x) /\ dropped' = dropped \cup {x} /\ m_queue' = m_queue /\ accepted' = accepted
      /\ pc' = pc /\ hc' = hc /\ m_done' = m_done /\ m_valid' = m_valid
      /\ m_waiting' = m_waiting /\ task' = task /\ stopper' = stopper /\ started' = started
      /\ finished' = finished
  BY DEF submit
<1>3. /\ x \notin finished /\ x \notin dropped /\ ~InSeq(x, accepted) /\ ~InSeq(x, started)
  <2>1. x \notin finished /\ x \notin dropped /\ ~InSeq(x, accepted)
    BY <1>2 DEF New, InSeq
  <2> QED
    BY <1>1, <2>1, StartedAccepted
<1>4. \A y : (InSeq(y, started') <=> InSeq(y, started)) /\ (InSeq(y, accepted') <=> InSeq(y, accepted))
  BY <1>2 DEF InSeq
<1>5. TypeOK' /\ Order' /\ Valid'
  BY <1>1, <1>2 DEF TypeOK, Order, Valid
<1>6. WaitingCounted'
  BY <1>1, <1>2, SameSleepers DEF Sleepers
<1>7. Fates'
  BY <1>1, <1>2, <1>3, <1>4 DEF Fates
<1>8. TQ!Refuse(x)
  <2>1. StatusOf(x) = "new" /\ StatusOf(x)' = "dropped"
    BY <1>2, <1>3, <1>4 DEF StatusOf
  <2>2. \A y \in Tasks : y # x => StatusOf(y)' = StatusOf(y)
    BY <1>2, <1>4 DEF StatusOf
  <2>3. [y \in Tasks |-> StatusOf(y)]' = [[y \in Tasks |-> StatusOf(y)] EXCEPT ![x] = "dropped"]
    BY <2>1, <2>2
  <2> QED
    BY <1>2, <2>1, <2>3 DEF TQ!Refuse, TQ!Become
<1> QED
  BY <1>5, <1>6, <1>7, <1>8 DEF IInv, TQ!Next

\* stop() empties the queue: what was accepted and not started is dropped.
LEMMA InvalidateStep ==
    ASSUME IInv, invalidate
    PROVE  IInv' /\ TQ!Next
<1>1. TypeOK /\ WaitingCounted /\ Order /\ Fates /\ Valid
  BY DEF IInv
<1>2. /\ stopper = "invalidate" /\ m_valid' = FALSE /\ m_queue' = << >> /\ notify_all
      /\ dropped' = dropped \cup Drained(m_queue) /\ stopper' = "join"
      /\ hc' = hc /\ m_done' = m_done /\ m_waiting' = m_waiting /\ task' = task
      /\ started' = started /\ accepted' = accepted /\ finished' = finished
  BY DEF invalidate
<1>3. /\ m_queue \in Seq(Tasks) /\ started \in Seq(Tasks) /\ accepted \in Seq(Tasks)
      /\ Len(m_queue) \in Nat /\ Len(started) \in Nat /\ Len(accepted) \in Nat
  BY <1>1, LenProperties DEF TypeOK
<1>4. /\ m_valid /\ dropped = {}
      /\ Len(accepted) = Len(started) + Len(m_queue)
      /\ \A i \in 1 .. Len(started) : started[i] = accepted[i]
      /\ \A i \in 1 .. Len(m_queue) : m_queue[i] = accepted[Len(started) + i]
      /\ \A i, j \in 1 .. Len(accepted) : accepted[i] = accepted[j] => i = j
  BY <1>1, <1>2 DEF Valid, Order, Fates
<1>5. \A x : x \in Drained(m_queue) <=> InSeq(x, accepted) /\ ~InSeq(x, started)
  <2>1. ASSUME NEW i \in 1 .. Len(m_queue)
        PROVE  InSeq(m_queue[i], accepted) /\ ~InSeq(m_queue[i], started)
    <3>1. Len(started) + i \in 1 .. Len(accepted)
      BY <1>3, <1>4
    <3>2. \A j \in 1 .. Len(started) : j \in 1 .. Len(accepted) /\ j # Len(started) + i
      BY <1>3, <1>4
    <3> QED
      BY <1>4, <3>1, <3>2 DEF InSeq
  <2>2. ASSUME NEW i \in 1 .. Len(accepted), ~InSeq(accepted[i], started)
        PROVE  \E j \in 1 .. Len(m_queue) : m_queue[j] = accepted[i]
    <3>1. ~(i <= Len(started))
      BY <1>3, <1>4, <2>2 DEF InSeq
    <3>2. i - Len(started) \in 1 .. Len(m_queue) /\ Len(started) + (i - Len(started)) = i
      BY <1>3, <1>4, <3>1
    <3> QED
      BY <1>4, <3>2
  <2>3. ASSUME NEW x, x \in Drained(m_queue) PROVE InSeq(x, accepted) /\ ~InSeq(x, started)
    BY <2>1, <2>3 DEF Drained
  <2>4. ASSUME NEW x, InSeq(x, accepted), ~InSeq(x, started) PROVE x \in Drained(m_queue)
    <3>1. PICK i \in 1 .. Len(accepted) : accepted[i] = x
      BY <2>4 DEF InSeq
    <3> QED
      BY <2>2, <2>4, <3>1 DEF Drained
  <2> QED
    BY <2>3, <2>4
<1>6. \A y : (InSeq(y, started') <=> InSeq(y, started)) /\ (InSeq(y, accepted') <=> InSeq(y, accepted))
  BY <1>2 DEF InSeq
<1>7. /\ pc' \in [Workers -> {"absent", "loop", "get", "waiting", "woken", "run", "exited"}]
      /\ Sleepers' = Sleepers
      /\ \A w \in Workers : pc'[w] = "run" <=> pc[w] = "run"
  BY <1>1, <1>2, Notified
<1>8. TypeOK' /\ WaitingCounted' /\ Valid'
  <2>1. Drained(m_queue) \subseteq Tasks /\ << >> \in Seq(Tasks)
    BY <1>3, ElementOfSeq, EmptySeq DEF Drained
  <2>2. TypeOK'
    BY <1>1, <1>2, <1>7, <2>1 DEF TypeOK
  <2>3. WaitingCounted'
    BY <1>1, <1>2, <1>7, SameSleepers
  <2> QED
    BY <1>2, <2>2, <2>3 DEF Valid
<1>9. Order'
  BY <1>1, <1>2 DEF Order
<1>10. Fates'
  BY <1>1, <1>2, <1>4, <1>5, <1>6, <1>7 DEF Fates
<1>11. TQ!Close
  <2>1. \A x \in Tasks :
          StatusOf(x)' = IF StatusOf(x) = "accepted" THEN "dropped" ELSE StatusOf(x)
    <3> SUFFICES ASSUME NEW x \in Tasks
                 PROVE  StatusOf(x)' = IF StatusOf(x) = "accepted" THEN "dropped" ELSE StatusOf(x)
      OBVIOUS
    <3>1. x \in finished => InSeq(x, started)
      BY <1>1 DEF Fates
    <3>2. InSeq(x, started) => InSeq(x, accepted)
      BY <1>1, StartedAccepted
    <3> QED
      BY <1>2, <1>4, <1>5, <1>6, <3>1, <3>2 DEF StatusOf
  <2> QED
    BY <1>2, <2>1 DEF TQ!Close
<1> QED
  BY <1>8, <1>9, <1>10, <1>11 DEF IInv, TQ!Next

\* get(), before or after the wait: a task, or false when there is none.
LEMMA GetStep ==
    ASSUME IInv, NEW w \in Workers, get(w) \/ Wake(w)
    PROVE  IInv' /\ (TQ!Next \/ UNCHANGED TQ!vars)
<1>1. TypeOK /\ WaitingCounted /\ Order /\ Fates /\ Valid
  BY DEF IInv
<1>2. /\ hc' = hc /\ m_done' = m_done /\ m_valid' = m_valid /\ stopper' = stopper
      /\ accepted' = accepted /\ finished' = finished /\ dropped' = dropped
      /\ pc[w] \in {"get", "woken"}
  BY DEF get, Wake
<1>3. /\ pc[w] = "get" => w \notin Sleepers
      /\ pc[w] = "woken" => w \in Sleepers
  BY DEF Sleepers
<1>4. Valid'
  BY <1>1, <1>2 DEF Valid
\* the worker leaves the wait, if it was in it
<1>5. ASSUME NEW l \in {"run", "loop"}, pc' = [pc EXCEPT ![w] = l],
             \/ pc[w] = "get" /\ m_waiting' = m_waiting
             \/ pc[w] = "woken" /\ m_waiting' = m_waiting - 1
      PROVE  WaitingCounted' /\ m_waiting' \in Nat
  <2>1. CASE pc[w] = "get" /\ m_waiting' = m_waiting
    <3>1. Sleepers' = Sleepers
      BY <1>1, <1>5, <2>1 DEF TypeOK, Sleepers
    <3> QED
      BY <1>1, <2>1, <3>1, SameSleepers DEF TypeOK
  <2>2. CASE pc[w] = "woken" /\ m_waiting' = m_waiting - 1
    <3>1. Sleepers' = Sleepers \ {w}
      BY <1>1, <1>5, <2>2 DEF TypeOK, Sleepers
    <3> QED
      BY <1>1, <1>3, <2>2, <3>1, FewerSleepers
  <2> QED
    BY <1>5, <2>1, <2>2
<1>6. CASE Ready /\ m_valid /\ m_queue # << >>
  <2>1. /\ Fetch(w)
        /\ \/ pc[w] = "get" /\ m_waiting' = m_waiting
           \/ pc[w] = "woken" /\ m_waiting' = m_waiting - 1
    BY <1>6 DEF get, Wake
  <2>2. /\ m_queue' \in Seq(Tasks) /\ started' \in Seq(Tasks)
        /\ task' \in [Workers -> Tasks \cup {NoTask}]
        /\ pc' = [pc EXCEPT ![w] = "run"]
        /\ Order' /\ Fates' /\ TQ!Next
    BY <1>1, <1>2, <1>6, <2>1, TakesHead
  <2>3. WaitingCounted' /\ m_waiting' \in Nat
    BY <1>5, <2>1, <2>2
  <2>4. TypeOK'
    BY <1>1, <1>2, <2>2, <2>3 DEF TypeOK
  <2> QED
    BY <1>4, <2>2, <2>3, <2>4 DEF IInv
<1>7. CASE Ready /\ ~(m_valid /\ m_queue # << >>)
  <2>1. /\ Fetch(w)
        /\ \/ pc[w] = "get" /\ m_waiting' = m_waiting
           \/ pc[w] = "woken" /\ m_waiting' = m_waiting - 1
    BY <1>7 DEF get, Wake
  <2>2. pc' = [pc EXCEPT ![w] = "loop"] /\ UNCHANGED <<task, m_queue, started>>
    BY <1>7, <2>1 DEF Fetch
  <2>3. WaitingCounted' /\ m_waiting' \in Nat
    BY <1>5, <2>1, <2>2
  <2>4. \A v \in Workers : pc'[v] = "run" <=> pc[v] = "run"
    BY <1>1, <1>2, <2>2 DEF TypeOK
  <2>5. Order' /\ Fates' /\ UNCHANGED TQ!vars
    BY <1>1, <1>2, <2>2, <2>4, Quiet DEF history
  <2>6. TypeOK'
    BY <1>1, <1>2, <2>2, <2>3 DEF TypeOK
  <2> QED
    BY <1>4, <2>3, <2>5, <2>6 DEF IInv
<1>8. CASE ~Ready
  <2>1. /\ pc' = [pc EXCEPT ![w] = "waiting"] /\ UNCHANGED <<task, m_queue, started>>
        /\ \/ pc[w] = "get" /\ m_waiting' = m_waiting + 1
           \/ pc[w] = "woken" /\ m_waiting' = m_waiting
    BY <1>8 DEF get, Wake
  <2>2. WaitingCounted' /\ m_waiting' \in Nat
    <3>1. CASE pc[w] = "get" /\ m_waiting' = m_waiting + 1
      <4>1. Sleepers' = Sleepers \cup {w}
        BY <1>1, <2>1 DEF TypeOK, Sleepers
      <4> QED
        BY <1>1, <1>3, <3>1, <4>1, MoreSleepers
    <3>2. CASE pc[w] = "woken" /\ m_waiting' = m_waiting
      <4>1. Sleepers' = Sleepers
        BY <1>1, <2>1, <3>2 DEF TypeOK, Sleepers
      <4> QED
        BY <1>1, <3>2, <4>1, SameSleepers DEF TypeOK
    <3> QED
      BY <2>1, <3>1, <3>2
  <2>4. \A v \in Workers : pc'[v] = "run" <=> pc[v] = "run"
    BY <1>1, <1>2, <2>1 DEF TypeOK
  <2>5. Order' /\ Fates' /\ UNCHANGED TQ!vars
    BY <1>1, <1>2, <2>1, <2>4, Quiet DEF history
  <2>6. TypeOK'
    BY <1>1, <1>2, <2>1, <2>2 DEF TypeOK
  <2> QED
    BY <1>4, <2>2, <2>5, <2>6 DEF IInv
<1> QED
  BY <1>6, <1>7, <1>8

\* The other steps of a worker and of stop() leave the queue and the tasks alone.
LEMMA OtherStep ==
    ASSUME IInv,
           \/ \E w \in Workers : Loop(w) \/ SpuriousWakeup(w)
           \/ stop \/ join \/ UNCHANGED vars
    PROVE  IInv' /\ UNCHANGED TQ!vars
<1>1. TypeOK /\ WaitingCounted /\ Order /\ Fates /\ Valid
  BY DEF IInv
<1>2. /\ hc' = hc /\ m_valid' = m_valid /\ m_waiting' = m_waiting /\ m_queue' = m_queue
      /\ task' = task /\ UNCHANGED history
  BY DEF Loop, SpuriousWakeup, stop, join, vars, queue
<1>3. /\ pc' \in [Workers -> {"absent", "loop", "get", "waiting", "woken", "run", "exited"}]
      /\ Sleepers' = Sleepers
      /\ \A w \in Workers : pc'[w] = "run" <=> pc[w] = "run"
  <2>1. CASE \E w \in Workers : Loop(w) \/ SpuriousWakeup(w)
    BY <1>1, <2>1 DEF TypeOK, Sleepers, Loop, SpuriousWakeup
  <2>2. CASE stop \/ join \/ UNCHANGED vars
    BY <1>1, <2>2 DEF TypeOK, Sleepers, stop, join, vars
  <2> QED
    BY <2>1, <2>2
<1>4. /\ m_done' \in BOOLEAN /\ stopper' \in {"no", "invalidate", "join", "returned"}
      /\ Valid'
  BY <1>1, <1>2 DEF TypeOK, Valid, Loop, SpuriousWakeup, stop, join, vars
<1>5. TypeOK'
  BY <1>1, <1>2, <1>3, <1>4 DEF TypeOK, history
<1>6. WaitingCounted'
  BY <1>1, <1>2, <1>3, SameSleepers
<1>7. Order' /\ Fates' /\ UNCHANGED TQ!vars
  BY <1>1, <1>2, <1>3, Quiet
<1> QED
  BY <1>4, <1>5, <1>6, <1>7 DEF IInv

\* Every step keeps the inductive invariant and is a step of the abstract queue or none
\* (sync_queue::get, put, invalidate).
LEMMA NextStep ==
    ASSUME IInv, [Next]_vars
    PROVE  IInv' /\ [TQ!Next]_(TQ!vars)
BY RunStep, AcceptStep, RefuseStep, InvalidateStep, GetStep, OtherStep DEF Next, Worker

-----------------------------------------------------------------------------

\* threads_waiting() counts the workers that wait, and tasks are started in the
\* order in which submit() accepted them, whatever the number of workers
\* (sync_queue::get, put and invalidate, thread_pool).
THEOREM PoolIsSound == Spec => []PoolSound
<1>1. IInv => PoolSound
  BY OrderOfTasks DEF IInv, PoolSound
<1> QED
  BY <1>1, InitIInv, NextStep, PTL DEF Spec

\* The pool implements TaskQueue: a task that submit() accepts is run at most
\* once, by one worker, and none is started after stop() has dropped what was
\* in the queue.
THEOREM PoolRunsTasks == Spec => RunsTasks
BY InitIInv, NextStep, PTL DEF Spec, RunsTasks, TQ!Spec
=============================================================================
