---------------------------- MODULE SystemProofs ----------------------------
(***************************************************************************)
(* Mutual exclusion within a hash entry, and the life of the pooled locks, *)
(* for every number of threads, entries and lock objects.                  *)
(*                                                                         *)
(* The invariant ties the three places that know who is inside: the        *)
(* program counters, the grants of each pthread_rwlock and RWLock::cnt.    *)
(* That a lock goes back to the pool only when nobody uses it rests on     *)
(* Waiting: the thread that waits for a lock keeps the mutex, so no lock   *)
(* is ever returned to the pool under its feet.                            *)
(*                                                                         *)
(* And the loggers of the log manager, for every number of threads,        *)
(* loggers and records: ids are not given twice, and while the loggers do  *)
(* not go from some to none or back, all threads take the same branch of   *)
(* log() (Quiet).                                                          *)
(***************************************************************************)
EXTENDS HashTable, LogManager, FiniteSetTheorems, SequenceTheorems, TLAPS

-----------------------------------------------------------------------------
(* HashTable                                                                *)

\* The thread that waits for a read-write lock is the one with the mutex.
Waiting ==
    /\ \A t \in Threads : pc[t] = "wait" => mutex = t
    /\ mutex # None => pc[mutex] = "wait"

\* A thread in or before an entry has an entry, and the entry has a lock.
LockThere ==
    \A t \in Threads :
      pc[t] # "idle" => entry[t] \in Entries /\ rwlock[entry[t]] # None

\* The grants of a lock are the threads inside the entry that points to it.
GrantsMatch ==
    \A l \in RWLocks, t \in Threads :
      /\ t \in readers[l] <=>
           pc[t] = "in" /\ exclusive[t] = "shared" /\ rwlock[entry[t]] = l
      /\ writer[l] = t <=>
           pc[t] = "in" /\ exclusive[t] = "exclusive" /\ rwlock[entry[t]] = l

\* One writer, or readers.
OneWriter == \A l \in RWLocks : writer[l] # None => readers[l] = {}

\* RWLock::cnt counts the grants.
CountMatches ==
    \A l \in RWLocks :
      /\ IsFiniteSet(readers[l])
      /\ cnt[l] = Cardinality(readers[l]) + (IF writer[l] = None THEN 0 ELSE 1)

IInv ==
    /\ TypeOK
    /\ Waiting
    /\ LockThere
    /\ GrantsMatch
    /\ OneWriter
    /\ CountMatches
    /\ PooledLockUnused

\* A lock that is counted unused has no grants.
LEMMA UnusedLock ==
    ASSUME TypeOK, CountMatches, NEW l \in RWLocks, cnt[l] = 0
    PROVE  readers[l] = {} /\ writer[l] = None
<1>1. /\ IsFiniteSet(readers[l]) /\ Cardinality(readers[l]) \in Nat
      /\ cnt[l] = Cardinality(readers[l]) + (IF writer[l] = None THEN 0 ELSE 1)
  BY FS_CardinalityType DEF CountMatches
<1>2. writer[l] = None /\ Cardinality(readers[l]) = 0
  BY <1>1
<1> QED
  BY <1>1, <1>2, FS_EmptySet

\* A fresh hash table.
LEMMA InitIInv == Init => IInv
<1> SUFFICES ASSUME Init PROVE IInv
  OBVIOUS
<1>1. TypeOK
  BY DEF Init, TypeOK
<1>2. Waiting /\ LockThere /\ GrantsMatch /\ OneWriter
  BY NoneAssumption DEF Init, Waiting, LockThere, GrantsMatch, OneWriter
<1>3. CountMatches
  BY FS_EmptySet DEF Init, CountMatches
<1>4. PooledLockUnused
  BY DEF Init, PooledLockUnused
<1> QED
  BY <1>1, <1>2, <1>3, <1>4 DEF IInv

\* Taking the mutex, and a lock for an entry that has none.
LEMMA LockStep ==
    ASSUME IInv, NEW t \in Threads, NEW e \in Entries,
           NEW x \in {"shared", "exclusive"}, Lock(t, e, x)
    PROVE  IInv'
<1>0. /\ pc[t] = "idle" /\ mutex = None /\ mutex' = t
      /\ pc' = [pc EXCEPT ![t] = "wait"]
      /\ entry' = [entry EXCEPT ![t] = e]
      /\ exclusive' = [exclusive EXCEPT ![t] = x]
      /\ UNCHANGED <<cnt, readers, writer>>
  BY DEF Lock, lockvars
<1>1. TypeOK /\ Waiting /\ LockThere /\ GrantsMatch /\ CountMatches /\ OneWriter /\ PooledLockUnused
  BY DEF IInv
<1>2. \/ rwlock[e] # None /\ UNCHANGED <<rwlock, pool>>
      \/ rwlock[e] = None /\ pool # << >> /\ pool' = Tail(pool)
           /\ rwlock' = [rwlock EXCEPT ![e] = Head(pool)]
      \/ rwlock[e] = None /\ UNCHANGED pool /\ pool = << >>
           /\ \E l \in RWLocks : /\ \A f \in Entries : rwlock[f] # l
                                 /\ rwlock' = [rwlock EXCEPT ![e] = l]
  BY DEF Lock, PoolGet
<1>3. CASE rwlock[e] # None /\ UNCHANGED <<rwlock, pool>>
  <2>1. TypeOK'
    BY <1>0, <1>1, <1>3 DEF TypeOK
  <2>3. Waiting'
    BY <1>0, <1>1, <1>3, NoneAssumption DEF TypeOK, Waiting
  <2>4. LockThere'
    BY <1>0, <1>1, <1>3 DEF TypeOK, LockThere
  <2>2. GrantsMatch' /\ OneWriter' /\ CountMatches' /\ PooledLockUnused'
    BY <1>0, <1>1, <1>3 DEF TypeOK, GrantsMatch, OneWriter, CountMatches, PooledLockUnused
  <2> QED
    BY <2>1, <2>3, <2>4, <2>2 DEF IInv
<1>4. ASSUME NEW l \in RWLocks,
             rwlock[e] = None, rwlock' = [rwlock EXCEPT ![e] = l],
             \A f \in Entries : rwlock[f] # l,
             pool' \in Seq(RWLocks),
             PooledLockUnused'
      PROVE  IInv'
  <2>1. TypeOK' /\ Waiting' /\ LockThere'
    BY <1>0, <1>1, <1>4, NoneAssumption DEF IInv, TypeOK, Waiting, LockThere
  <2>2. \A u \in Threads : pc[u] # "idle" => entry[u] # e /\ entry[u] \in Entries
    BY <1>1, <1>4 DEF LockThere
  <2>3. GrantsMatch'
    BY <1>0, <1>1, <1>4, <2>2 DEF TypeOK, GrantsMatch
  <2>4. OneWriter' /\ CountMatches'
    BY <1>0, <1>1 DEF OneWriter, CountMatches
  <2> QED
    BY <1>4, <2>1, <2>3, <2>4 DEF IInv
<1>5. CASE rwlock[e] = None /\ pool # << >> /\ pool' = Tail(pool)
             /\ rwlock' = [rwlock EXCEPT ![e] = Head(pool)]
  <2> DEFINE l == Head(pool)
  <2>1. /\ pool \in Seq(RWLocks) /\ Len(pool) \in Nat /\ Len(pool) >= 1
        /\ l = pool[1] /\ l \in RWLocks
    BY <1>1, <1>5 DEF TypeOK
  <2>2. /\ Tail(pool) \in Seq(RWLocks) /\ Len(Tail(pool)) = Len(pool) - 1
        /\ \A i \in 1 .. Len(pool) - 1 : Tail(pool)[i] = pool[i + 1]
    BY <2>1
  <2>3. \A f \in Entries : rwlock[f] # l
    BY <1>1, <2>1 DEF PooledLockUnused
  <2>4. \A i \in 1 .. Len(pool) - 1 : i + 1 \in 1 .. Len(pool) /\ i + 1 # 1
    BY <2>1
  <2>5. \A i \in 1 .. Len(pool) - 1 : pool[i + 1] # l
    BY <1>1, <2>1, <2>4 DEF PooledLockUnused
  <2>6. \A i \in 1 .. Len(pool) - 1 :
          /\ cnt[pool[i + 1]] = 0 /\ readers[pool[i + 1]] = {} /\ writer[pool[i + 1]] = None
          /\ \A f \in Entries : rwlock'[f] # pool[i + 1]
    BY <1>1, <1>5, <2>1, <2>4, <2>5 DEF PooledLockUnused, TypeOK
  <2>7. \A i, j \in 1 .. Len(pool) - 1 : pool[i + 1] = pool[j + 1] => i = j
    BY <1>1, <2>1, <2>4 DEF PooledLockUnused
  <2>8. \A f, g \in Entries : rwlock'[f] = rwlock'[g] /\ rwlock'[f] # None => f = g
    BY <1>1, <1>5, <2>3 DEF PooledLockUnused, TypeOK
  <2>9. PooledLockUnused'
    <3>1. /\ 1 .. Len(pool') = 1 .. Len(pool) - 1
          /\ \A i \in 1 .. Len(pool) - 1 : pool'[i] = pool[i + 1]
      BY <1>5, <2>2
    <3>2. \A i \in 1 .. Len(pool') :
            /\ cnt'[pool'[i]] = 0 /\ readers'[pool'[i]] = {} /\ writer'[pool'[i]] = None
            /\ \A f \in Entries : rwlock'[f] # pool'[i]
      <4> SUFFICES ASSUME NEW i \in 1 .. Len(pool) - 1
                   PROVE  /\ cnt[pool'[i]] = 0 /\ readers[pool'[i]] = {}
                          /\ writer[pool'[i]] = None
                          /\ \A f \in Entries : rwlock'[f] # pool'[i]
        BY <1>0, <3>1, Zenon
      <4>1. pool'[i] = pool[i + 1]
        BY <3>1
      <4> QED
        BY <2>6, <4>1
    <3>3. \A i, j \in 1 .. Len(pool') : pool'[i] = pool'[j] => i = j
      BY <2>7, <3>1, Zenon
    <3> QED
      BY <2>8, <3>2, <3>3, Zenon DEF PooledLockUnused
  <2> QED
    BY <1>4, <1>5, <2>1, <2>2, <2>3, <2>9, Zenon
<1>6. CASE rwlock[e] = None /\ UNCHANGED pool /\ pool = << >>
           /\ \E l \in RWLocks : /\ \A f \in Entries : rwlock[f] # l
                                 /\ rwlock' = [rwlock EXCEPT ![e] = l]
  <2>1. PICK l \in RWLocks : /\ \A f \in Entries : rwlock[f] # l
                             /\ rwlock' = [rwlock EXCEPT ![e] = l]
    BY <1>6, Zenon
  <2>2. Len(pool') = 0 /\ pool' \in Seq(RWLocks)
    BY <1>6
  <2>3. PooledLockUnused'
    BY <1>1, <2>1, <2>2 DEF PooledLockUnused, TypeOK
  <2> QED
    BY <1>4, <1>6, <2>1, <2>2, <2>3, Zenon
<1> QED
  BY <1>2, <1>3, <1>5, <1>6

\* The lock is granted in read mode.
LEMMA RdlockStep ==
    ASSUME IInv, NEW t \in Threads, rdlock(t)
    PROVE  IInv'
<1> DEFINE l == rwlock[entry[t]]
<1>0. /\ pc[t] = "wait" /\ exclusive[t] = "shared" /\ writer[l] = None
      /\ readers' = [readers EXCEPT ![l] = @ \cup {t}]
      /\ cnt' = [cnt EXCEPT ![l] = @ + 1]
      /\ pc' = [pc EXCEPT ![t] = "in"] /\ mutex' = None
      /\ UNCHANGED <<rwlock, pool, entry, exclusive, writer>>
  BY DEF rdlock, Granted
<1>1. TypeOK /\ Waiting /\ LockThere /\ GrantsMatch /\ CountMatches /\ OneWriter /\ PooledLockUnused
  BY DEF IInv
<1>2. entry[t] \in Entries /\ l \in RWLocks /\ mutex = t
  BY <1>0, <1>1 DEF TypeOK, LockThere, Waiting
<1>3. TypeOK'
  BY <1>0, <1>1, <1>2 DEF TypeOK
<1>4. Waiting'
  BY <1>0, <1>1, <1>2 DEF TypeOK, Waiting
<1>5. LockThere'
  BY <1>0, <1>1, <1>2 DEF TypeOK, LockThere
<1>6. GrantsMatch'
  BY <1>0, <1>1, <1>2, NoneAssumption DEF TypeOK, GrantsMatch
<1>7. OneWriter'
  BY <1>0, <1>1, <1>2 DEF TypeOK, OneWriter
<1>8. CountMatches'
  <2>1. t \notin readers[l]
    BY <1>0, <1>1, <1>2 DEF GrantsMatch
  <2>2. /\ IsFiniteSet(readers[l] \cup {t})
        /\ Cardinality(readers[l] \cup {t}) = Cardinality(readers[l]) + 1
    BY <1>1, <1>2, <2>1, FS_AddElement, Zenon DEF CountMatches
  <2>3. cnt[l] = Cardinality(readers[l]) /\ Cardinality(readers[l]) \in Nat
    BY <1>0, <1>1, <1>2, FS_CardinalityType DEF CountMatches
  <2> QED
    BY <1>0, <1>1, <1>2, <2>2, <2>3 DEF TypeOK, CountMatches
<1>9. PooledLockUnused'
  BY <1>0, <1>1, <1>2 DEF TypeOK, PooledLockUnused
<1> QED
  BY <1>3, <1>4, <1>5, <1>6, <1>7, <1>8, <1>9 DEF IInv

\* The lock is granted in write mode.
LEMMA WrlockStep ==
    ASSUME IInv, NEW t \in Threads, wrlock(t)
    PROVE  IInv'
<1> DEFINE l == rwlock[entry[t]]
<1>0. /\ pc[t] = "wait" /\ exclusive[t] = "exclusive"
      /\ writer[l] = None /\ readers[l] = {}
      /\ writer' = [writer EXCEPT ![l] = t]
      /\ cnt' = [cnt EXCEPT ![l] = @ + 1]
      /\ pc' = [pc EXCEPT ![t] = "in"] /\ mutex' = None
      /\ UNCHANGED <<rwlock, pool, entry, exclusive, readers>>
  BY DEF wrlock, Granted
<1>1. TypeOK /\ Waiting /\ LockThere /\ GrantsMatch /\ CountMatches /\ OneWriter /\ PooledLockUnused
  BY DEF IInv
<1>2. entry[t] \in Entries /\ l \in RWLocks /\ mutex = t /\ t # None
  BY <1>0, <1>1, NoneAssumption DEF TypeOK, LockThere, Waiting
<1>3. TypeOK'
  BY <1>0, <1>1, <1>2 DEF TypeOK
<1>4. Waiting'
  BY <1>0, <1>1, <1>2 DEF TypeOK, Waiting
<1>5. LockThere'
  BY <1>0, <1>1, <1>2 DEF TypeOK, LockThere
<1>6. GrantsMatch'
  BY <1>0, <1>1, <1>2, NoneAssumption DEF TypeOK, GrantsMatch
<1>7. OneWriter'
  BY <1>0, <1>1, <1>2 DEF TypeOK, OneWriter
<1>8. CountMatches'
  <2>1. cnt[l] = Cardinality(readers[l]) /\ Cardinality(readers[l]) = 0
    BY <1>0, <1>1, <1>2, FS_EmptySet DEF CountMatches
  <2> QED
    BY <1>0, <1>1, <1>2, <2>1, Zenon DEF TypeOK, CountMatches
<1>9. PooledLockUnused'
  BY <1>0, <1>1, <1>2 DEF TypeOK, PooledLockUnused
<1> QED
  BY <1>3, <1>4, <1>5, <1>6, <1>7, <1>8, <1>9 DEF IInv

\* Returning the lock of an entry to the pool.
LEMMA PutBack ==
    ASSUME TypeOK, PooledLockUnused, NEW e \in Entries, NEW l \in RWLocks,
           rwlock[e] = l, PoolPut(e),
           cnt'[l] = 0, readers'[l] = {}, writer'[l] = None,
           \A k \in RWLocks \ {l} :
              cnt'[k] = cnt[k] /\ readers'[k] = readers[k] /\ writer'[k] = writer[k]
    PROVE  PooledLockUnused' /\ pool' \in Seq(RWLocks)
<1>1. /\ pool' = Append(pool, l) /\ rwlock' = [rwlock EXCEPT ![e] = None]
      /\ pool \in Seq(RWLocks) /\ Len(pool) \in Nat /\ l # None
  BY NoneAssumption DEF PoolPut, TypeOK
<1>2. /\ pool' \in Seq(RWLocks) /\ Len(pool') = Len(pool) + 1
      /\ \A i \in 1 .. Len(pool) : pool'[i] = pool[i] /\ pool[i] \in RWLocks
      /\ pool'[Len(pool) + 1] = l
  BY <1>1
<1>3. \A i \in 1 .. Len(pool') : i = Len(pool) + 1 \/ i \in 1 .. Len(pool)
  BY <1>1, <1>2
<1>4. \A i \in 1 .. Len(pool) : pool[i] # l
  BY DEF PooledLockUnused
<1>5. \A i \in 1 .. Len(pool') :
         cnt'[pool'[i]] = 0 /\ readers'[pool'[i]] = {} /\ writer'[pool'[i]] = None
  BY <1>2, <1>3, <1>4 DEF PooledLockUnused
<1>6. \A f \in Entries : rwlock'[f] # l
  BY <1>1 DEF PooledLockUnused, TypeOK
<1>7. \A i \in 1 .. Len(pool), f \in Entries : rwlock'[f] # pool[i]
  BY <1>1, <1>2, NoneAssumption DEF PooledLockUnused, TypeOK
<1>8. \A i \in 1 .. Len(pool'), f \in Entries : rwlock'[f] # pool'[i]
  BY <1>2, <1>3, <1>6, <1>7
<1>9. \A i, j \in 1 .. Len(pool') : pool'[i] = pool'[j] => i = j
  BY <1>2, <1>3, <1>4 DEF PooledLockUnused
<1>10. \A f, g \in Entries : rwlock'[f] = rwlock'[g] /\ rwlock'[f] # None => f = g
  BY <1>1 DEF PooledLockUnused, TypeOK
<1> QED
  BY <1>2, <1>5, <1>8, <1>9, <1>10 DEF PooledLockUnused

\* Releasing a read lock; the last reader returns the lock to the pool.
LEMMA RdunlockStep ==
    ASSUME IInv, NEW t \in Threads, rdunlock(t)
    PROVE  IInv'
<1> DEFINE e == entry[t]
<1> DEFINE l == rwlock[e]
<1>0. /\ pc[t] = "in" /\ exclusive[t] = "shared" /\ mutex = None
      /\ pc' = [pc EXCEPT ![t] = "idle"]
      /\ entry' = [entry EXCEPT ![t] = None]
      /\ UNCHANGED <<mutex, writer, exclusive>>
  BY DEF rdunlock
<1>1. TypeOK /\ Waiting /\ LockThere /\ GrantsMatch /\ CountMatches /\ OneWriter /\ PooledLockUnused
  BY DEF IInv
<1>2. e \in Entries /\ l \in RWLocks /\ l # None
  BY <1>0, <1>1, NoneAssumption DEF TypeOK, LockThere
<1>3. t \in readers[l] /\ writer[l] = None
  BY <1>0, <1>1, <1>2 DEF GrantsMatch, OneWriter
<1>4. /\ IsFiniteSet(readers[l] \ {t})
      /\ Cardinality(readers[l] \ {t}) = cnt[l] - 1
      /\ Cardinality(readers[l] \ {t}) \in Nat
  <2>1. IsFiniteSet(readers[l]) /\ cnt[l] = Cardinality(readers[l]) /\ cnt[l] \in Nat
    BY <1>1, <1>2, <1>3, FS_CardinalityType DEF CountMatches, TypeOK
  <2> QED
    BY <1>3, <2>1, FS_RemoveElement, FS_CardinalityType
<1>5. cnt[l] \in Nat /\ cnt[l] > 0
  BY <1>1, <1>2, <1>4 DEF TypeOK
<1>6. /\ cnt' = [cnt EXCEPT ![l] = @ - 1]
      /\ readers' = [readers EXCEPT ![l] = @ \ {t}]
      /\ IF cnt'[l] = 0 THEN PoolPut(e) ELSE UNCHANGED <<rwlock, pool>>
  BY <1>2, <1>5 DEF rdunlock
<1>7. cnt'[l] = cnt[l] - 1 /\ readers'[l] = readers[l] \ {t} /\ writer'[l] = None
  BY <1>0, <1>1, <1>2, <1>3, <1>6 DEF TypeOK
<1>8. CountMatches'
  BY <1>0, <1>1, <1>2, <1>3, <1>4, <1>6, <1>7 DEF TypeOK, CountMatches
<1>9. OneWriter'
  BY <1>0, <1>1, <1>2, <1>6 DEF TypeOK, OneWriter
<1>10. \A u \in Threads : pc[u] # "wait"
  BY <1>0, <1>1, NoneAssumption DEF Waiting
<1>11. Waiting'
  BY <1>0, <1>10, NoneAssumption DEF Waiting, IInv, TypeOK
<1>12. CASE cnt'[l] = 0
  <2>1. readers[l] = {t}
    <3>1. Cardinality(readers[l] \ {t}) = 0
      BY <1>4, <1>7, <1>12
    <3>2. readers[l] \ {t} = {}
      BY <1>4, <3>1, FS_EmptySet
    <3> QED
      BY <1>3, <3>2
  <2>2. \A u \in Threads \ {t} : pc[u] # "idle" => entry[u] # e /\ entry[u] \in Entries
    BY <1>1, <1>2, <1>3, <1>10, <2>1, NoneAssumption DEF GrantsMatch, LockThere, TypeOK
  <2>3. PoolPut(e) /\ rwlock' = [rwlock EXCEPT ![e] = None]
    BY <1>6, <1>12 DEF PoolPut
  <2>4. PooledLockUnused' /\ pool' \in Seq(RWLocks)
    <3>1. \A k \in RWLocks \ {l} :
            cnt'[k] = cnt[k] /\ readers'[k] = readers[k] /\ writer'[k] = writer[k]
      BY <1>0, <1>1, <1>6 DEF TypeOK
    <3>2. readers'[l] = {}
      BY <1>7, <2>1
    <3> QED
      BY <1>1, <1>2, <1>7, <1>12, <2>3, <3>1, <3>2, PutBack, Zenon
  <2>5. TypeOK'
    BY <1>0, <1>1, <1>2, <1>5, <1>6, <2>3, <2>4 DEF TypeOK
  <2>6. LockThere'
    BY <1>0, <1>1, <2>2, <2>3 DEF TypeOK, LockThere
  <2>7. GrantsMatch'
    <3> SUFFICES ASSUME NEW k \in RWLocks, NEW u \in Threads
                 PROVE  /\ u \in readers'[k] <=>
                             pc'[u] = "in" /\ exclusive'[u] = "shared" /\ rwlock'[entry'[u]] = k
                        /\ writer'[k] = u <=>
                             pc'[u] = "in" /\ exclusive'[u] = "exclusive" /\ rwlock'[entry'[u]] = k
      BY DEF GrantsMatch
    <3>1. CASE u = t
      BY <1>0, <1>1, <1>2, <1>6, <3>1, NoneAssumption DEF TypeOK, GrantsMatch
    <3>2. CASE u # t
      <4>1. pc'[u] = pc[u] /\ entry'[u] = entry[u] /\ exclusive'[u] = exclusive[u]
        BY <1>0, <1>1, <3>2 DEF TypeOK
      <4>2. pc[u] = "in" => rwlock'[entry[u]] = rwlock[entry[u]]
        BY <1>1, <2>2, <2>3, <3>2 DEF TypeOK
      <4>3. (u \in readers'[k] <=> u \in readers[k]) /\ writer'[k] = writer[k]
        BY <1>0, <1>1, <1>6, <3>2 DEF TypeOK
      <4> QED
        BY <1>1, <4>1, <4>2, <4>3 DEF GrantsMatch
    <3> QED
      BY <3>1, <3>2
  <2> QED
    BY <1>8, <1>9, <1>11, <2>4, <2>5, <2>6, <2>7 DEF IInv
<1>13. CASE cnt'[l] # 0
  <2>1. UNCHANGED <<rwlock, pool>>
    BY <1>6, <1>13
  <2>2. TypeOK'
    BY <1>0, <1>1, <1>2, <1>5, <1>6, <2>1 DEF TypeOK
  <2>3. LockThere'
    BY <1>0, <1>1, <2>1 DEF TypeOK, LockThere
  <2>4. GrantsMatch'
    BY <1>0, <1>1, <1>2, <1>6, <2>1, NoneAssumption DEF TypeOK, GrantsMatch
  <2>5. PooledLockUnused'
    BY <1>0, <1>1, <1>2, <1>6, <2>1 DEF TypeOK, PooledLockUnused
  <2> QED
    BY <1>8, <1>9, <1>11, <2>2, <2>3, <2>4, <2>5 DEF IInv
<1> QED
  BY <1>12, <1>13

\* Releasing a write lock always returns the lock to the pool.
LEMMA WrunlockStep ==
    ASSUME IInv, NEW t \in Threads, wrunlock(t)
    PROVE  IInv'
<1> DEFINE e == entry[t]
<1> DEFINE l == rwlock[e]
<1>0. /\ pc[t] = "in" /\ exclusive[t] = "exclusive" /\ mutex = None
      /\ pc' = [pc EXCEPT ![t] = "idle"]
      /\ entry' = [entry EXCEPT ![t] = None]
      /\ UNCHANGED <<mutex, readers, exclusive>>
  BY DEF wrunlock
<1>1. TypeOK /\ Waiting /\ LockThere /\ GrantsMatch /\ CountMatches /\ OneWriter /\ PooledLockUnused
  BY DEF IInv
<1>2. e \in Entries /\ l \in RWLocks /\ l # None /\ t # None
  BY <1>0, <1>1, NoneAssumption DEF TypeOK, LockThere
<1>3. writer[l] = t /\ readers[l] = {}
  BY <1>0, <1>1, <1>2 DEF GrantsMatch, OneWriter
<1>4. cnt[l] = 1
  <2>1. Cardinality(readers[l]) = 0
    BY <1>3, FS_EmptySet
  <2> QED
    BY <1>1, <1>2, <1>3, <2>1 DEF CountMatches
<1>5. /\ cnt' = [cnt EXCEPT ![l] = @ - 1]
      /\ writer' = [writer EXCEPT ![l] = None]
      /\ PoolPut(e) /\ rwlock' = [rwlock EXCEPT ![e] = None]
  BY <1>2, <1>4 DEF wrunlock, PoolPut
<1>6. cnt'[l] = 0 /\ readers'[l] = {} /\ writer'[l] = None
  BY <1>0, <1>1, <1>2, <1>3, <1>4, <1>5 DEF TypeOK
<1>7. \A u \in Threads : pc[u] # "wait"
  BY <1>0, <1>1, NoneAssumption DEF Waiting
<1>8. \A u \in Threads \ {t} : pc[u] # "idle" => entry[u] # e /\ entry[u] \in Entries
  BY <1>1, <1>2, <1>3, <1>7 DEF GrantsMatch, LockThere, TypeOK
<1>9. PooledLockUnused' /\ pool' \in Seq(RWLocks)
  <2>1. \A k \in RWLocks \ {l} :
          cnt'[k] = cnt[k] /\ readers'[k] = readers[k] /\ writer'[k] = writer[k]
    BY <1>0, <1>1, <1>5 DEF TypeOK
  <2> QED
    BY <1>1, <1>2, <1>5, <1>6, <2>1, PutBack, Zenon
<1>10. TypeOK'
  BY <1>0, <1>1, <1>2, <1>4, <1>5, <1>9 DEF TypeOK
<1>11. Waiting'
  BY <1>0, <1>1, <1>7, NoneAssumption DEF Waiting, TypeOK
<1>12. LockThere'
  BY <1>0, <1>1, <1>5, <1>8 DEF TypeOK, LockThere
<1>13. OneWriter'
  BY <1>0, <1>1, <1>5 DEF TypeOK, OneWriter
<1>14. CountMatches'
  <2>1. Cardinality(readers[l]) = 0
    BY <1>3, FS_EmptySet
  <2> SUFFICES ASSUME NEW k \in RWLocks
               PROVE  /\ IsFiniteSet(readers[k])
                      /\ cnt'[k] = Cardinality(readers[k]) + (IF writer'[k] = None THEN 0 ELSE 1)
    BY <1>0 DEF CountMatches
  <2>2. CASE k = l
    BY <1>1, <1>6, <2>1, <2>2 DEF CountMatches
  <2>3. CASE k # l
    <3>1. cnt'[k] = cnt[k] /\ writer'[k] = writer[k]
      BY <1>1, <1>5, <2>3 DEF TypeOK
    <3> QED
      BY <1>1, <3>1 DEF CountMatches
  <2> QED
    BY <2>2, <2>3
<1>15. GrantsMatch'
  <2> SUFFICES ASSUME NEW k \in RWLocks, NEW u \in Threads
               PROVE  /\ u \in readers'[k] <=>
                           pc'[u] = "in" /\ exclusive'[u] = "shared" /\ rwlock'[entry'[u]] = k
                      /\ writer'[k] = u <=>
                           pc'[u] = "in" /\ exclusive'[u] = "exclusive" /\ rwlock'[entry'[u]] = k
    BY DEF GrantsMatch
  <2>1. CASE u = t
    BY <1>0, <1>1, <1>2, <1>3, <1>5, <2>1, NoneAssumption DEF TypeOK, GrantsMatch
  <2>2. CASE u # t
    <3>1. pc'[u] = pc[u] /\ entry'[u] = entry[u] /\ exclusive'[u] = exclusive[u]
      BY <1>0, <1>1, <2>2 DEF TypeOK
    <3>2. pc[u] = "in" => rwlock'[entry[u]] = rwlock[entry[u]]
      BY <1>1, <1>5, <1>8, <2>2 DEF TypeOK
    <3>3. (writer'[k] = u <=> writer[k] = u) /\ readers'[k] = readers[k]
      BY <1>0, <1>1, <1>3, <1>5, <2>2, NoneAssumption DEF TypeOK
    <3> QED
      BY <1>1, <3>1, <3>2, <3>3 DEF GrantsMatch
  <2> QED
    BY <2>1, <2>2
<1> QED
  BY <1>9, <1>10, <1>11, <1>12, <1>13, <1>14, <1>15 DEF IInv

\* The invariant holds in every reachable state.
LEMMA AlwaysIInv == Spec => []IInv
<1>1. IInv /\ [Next]_vars => IInv'
  <2> SUFFICES ASSUME IInv, [Next]_vars PROVE IInv'
    OBVIOUS
  <2>1. CASE Next
    BY <2>1, LockStep, RdlockStep, WrlockStep, RdunlockStep, WrunlockStep DEF Next, Step
  <2>2. CASE UNCHANGED vars
    BY <2>2 DEF vars, lockvars, IInv, TypeOK, Waiting, LockThere, GrantsMatch, OneWriter,
                CountMatches, PooledLockUnused
  <2> QED
    BY <2>1, <2>2
<1> QED
  BY InitIInv, <1>1, PTL DEF Spec

\* For every number of threads and entries, an operation that holds the write
\* lock of a hash entry is alone in it.
THEOREM EntriesExclusive == Spec => []EntryExclusion
<1>1. IInv => EntryExclusion
  <2> SUFFICES ASSUME IInv,
                      NEW t \in Threads, NEW u \in Threads, t # u,
                      pc[t] = "in", pc[u] = "in", entry[t] = entry[u],
                      exclusive[t] = "exclusive"
               PROVE  FALSE
    BY DEF EntryExclusion, IInv, TypeOK
  <2> DEFINE l == rwlock[entry[t]]
  <2>1. l \in RWLocks /\ t # None
    BY NoneAssumption DEF IInv, TypeOK, LockThere
  <2>2. writer[l] = t /\ readers[l] = {}
    BY <2>1 DEF IInv, GrantsMatch, OneWriter
  <2>3. u \in readers[l] \/ writer[l] = u
    BY <2>1 DEF IInv, TypeOK, GrantsMatch
  <2> QED
    BY <2>2, <2>3
<1> QED
  BY <1>1, AlwaysIInv, PTL

\* For every number of threads and entries, a lock in the pool of hash table
\* locks is held by nobody and belongs to no entry.
THEOREM PooledLocksUnused == Spec => []PooledLockUnused
<1>1. IInv => PooledLockUnused
  BY DEF IInv
<1> QED
  BY <1>1, AlwaysIInv, PTL

\* For every number of threads and entries: the state of the table has its type,
\* entries are exclusive, and the locks in the pool are unused.
THEOREM LocksAlwaysSafe == Spec => []LocksSafe
<1>1. IInv => TypeOK
  BY DEF IInv
<1>2. TypeOK /\ EntryExclusion /\ PooledLockUnused => LocksSafe
  BY DEF LocksSafe
<1> QED
  BY <1>1, <1>2, AlwaysIInv, EntriesExclusive, PooledLocksUnused, PTL

-----------------------------------------------------------------------------
(* LogManager                                                               *)

\* The threads that may still make a default logger.
Makers == {t \in LogThreads : logPc[t] \in {"none", "make"}}

\* A removed logger is not registered, and its id is not given again.
Removed ==
    /\ m_loggers \cap freed = {}
    /\ freed \cap Loggers \subseteq 0 .. m_next_id - 1
    /\ bad \cap Loggers = {}

\* While the loggers do not go from some to none or back after the first record, all
\* threads are in the branch for some or in the one for none, and nothing deletes a
\* default logger.
Quiet ==
    ~upset =>
      /\ bad = {} /\ freed \subseteq Loggers
      /\ records = 0 => m_def_logger = Null /\ \A t \in LogThreads : logPc[t] = "idle"
      /\ m_loggers = {} => \A t \in LogThreads : logPc[t] \in {"idle", "none", "make", "use"}
      /\ m_loggers # {} => /\ m_def_logger = Null
                           /\ \A t \in LogThreads : logPc[t] \in {"idle", "some"}
      /\ \A t \in LogThreads : logPc[t] = "use" => m_def_logger # Null

\* A default logger is made for a record that found no logger.
ManagerInv ==
    /\ ManagerTypeOK /\ upset \in BOOLEAN
    /\ objects + Cardinality(Makers) <= records
    /\ Removed
    /\ Quiet

\* The makers are finitely many.
LEMMA MakersFinite ==
    ASSUME ManagerAssumption
    PROVE  /\ IsFiniteSet(Makers) /\ Cardinality(Makers) \in Nat
           /\ IsFiniteSet(Makers') /\ Cardinality(Makers') \in Nat
<1>1. Makers \in SUBSET LogThreads /\ Makers' \in SUBSET LogThreads /\ IsFiniteSet(LogThreads)
  BY DEF Makers, ManagerAssumption
<1>2. IsFiniteSet(Makers) /\ IsFiniteSet(Makers')
  BY <1>1, FS_Subset
<1> QED
  BY <1>2, FS_CardinalityType

\* A manager without loggers satisfies the invariant.
LEMMA ManagerInitInv ==
    ASSUME ManagerAssumption, ManagerInit
    PROVE  ManagerInv
<1>1. Makers = {}
  BY DEF Makers, ManagerInit
<1>2. objects + Cardinality(Makers) <= records
  BY <1>1, FS_EmptySet DEF ManagerInit
<1>3. ManagerTypeOK
  BY DEF ManagerInit, ManagerTypeOK, ManagerAssumption, Loggers, Defaults
<1> QED
  BY <1>2, <1>3, Zenon DEF ManagerInit, ManagerInv, Removed, Quiet, ManagerTypeOK

\* The steps of the program: add_logger, remove_logger, reset.
LEMMA ProgramStep ==
    ASSUME ManagerAssumption, ManagerInv,
           AddLogger \/ ResetAll
             \/ (\E id \in Loggers : RemoveLogger(id)) \/ UNCHANGED managerVars
    PROVE  ManagerInv'
<1> USE DEF ManagerInv
<1>r. records = 0 \/ records > 0
  BY DEF ManagerTypeOK, ManagerAssumption
<1>m. logPc' = logPc /\ objects' = objects /\ records' = records =>
        (objects + Cardinality(Makers) <= records)'
  <2> SUFFICES ASSUME logPc' = logPc, objects' = objects, records' = records
               PROVE  (objects + Cardinality(Makers) <= records)'
    OBVIOUS
  <2>1. Makers' = Makers
    BY DEF Makers
  <2> QED
    BY <2>1
<1>1. CASE AddLogger
  <2>1. ManagerTypeOK' /\ upset' \in BOOLEAN
    BY <1>1 DEF AddLogger, ManagerTypeOK, ManagerAssumption
  <2>2. Removed'
    BY <1>1 DEF AddLogger, ManagerTypeOK, ManagerAssumption, Removed, Loggers
  <2>3. Quiet'
    <3>1. ~upset' => ~upset /\ (records = 0 \/ m_loggers # {})
      BY <1>1, <1>r, Zenon DEF AddLogger
    <3>2. m_loggers' # {}
      BY <1>1 DEF AddLogger
    <3> QED
      BY <1>1, <3>1, <3>2 DEF AddLogger, Quiet
  <2> QED
    BY <1>1, <1>m, <2>1, <2>2, <2>3 DEF AddLogger
<1>2. CASE ResetAll
  <2>1. bad' = bad
    BY <1>2 DEF ResetAll, Removed
  <2> QED
    BY <1>2, <1>m, <2>1 DEF ResetAll, shared, ManagerTypeOK, Removed, Quiet
<1>3. ASSUME NEW id \in Loggers, RemoveLogger(id) PROVE ManagerInv'
  <2>1. ManagerTypeOK' /\ upset' \in BOOLEAN
    BY <1>3 DEF RemoveLogger, ManagerTypeOK
  <2>2. Removed'
    BY <1>3 DEF RemoveLogger, ManagerTypeOK, Removed
  <2>3. Quiet'
    <3>1. ~upset' => ~upset /\ (records = 0 \/ m_loggers' # {})
      BY <1>3, <1>r, Zenon DEF RemoveLogger
    <3>2. m_loggers # {}
      BY <1>3 DEF RemoveLogger
    <3> QED
      BY <1>3, <3>1, <3>2 DEF RemoveLogger, Quiet
  <2> QED
    BY <1>3, <1>m, <2>1, <2>2, <2>3 DEF RemoveLogger
<1>4. CASE UNCHANGED managerVars
  BY <1>4, <1>m DEF managerVars, shared, ManagerTypeOK, Removed, Quiet
<1> QED
  BY <1>1, <1>2, <1>3, <1>4

\* The steps of a thread in log(), for a logger that is registered or the default one.
LEMMA LogStep ==
    ASSUME ManagerAssumption, ManagerInv, NEW t \in LogThreads,
           \/ CallLoggers(t) \/ TestDefault(t) \/ MakeDefault(t)
           \/ UseDefault(t) \/ TestDelete(t) \/ DeleteDefault(t)
           \/ ClearDefault(t)
    PROVE  ManagerInv'
<1> USE DEF ManagerInv, Goto, shared
<1>f. /\ IsFiniteSet(Makers) /\ Cardinality(Makers) \in Nat
      /\ IsFiniteSet(Makers') /\ Cardinality(Makers') \in Nat
  BY MakersFinite
<1>d. Loggers \cap Defaults = {}
  BY DEF Loggers, Defaults, ManagerAssumption
<1>n. Null \notin Loggers /\ Null \notin Defaults
  BY DEF ManagerAssumption
<1>p. logPc \in [LogThreads -> {"idle", "none", "some", "make", "use", "delete", "clear"}]
  BY DEF ManagerTypeOK
<1>r. records \in Nat /\ objects \in Nat
  BY DEF ManagerTypeOK, ManagerAssumption
<1>1. CASE CallLoggers(t)
  <2>1. bad' = bad
    BY <1>1 DEF CallLoggers, Removed
  <2>2. ManagerTypeOK'
    BY <1>1, <2>1 DEF CallLoggers, ManagerTypeOK, ManagerAssumption
  <2>3. Cardinality(Makers') <= Cardinality(Makers) + 1
    <3>1. t \notin Makers /\ (Makers' = Makers \/ Makers' = Makers \cup {t})
      BY <1>1, <1>p DEF CallLoggers, Makers
    <3> QED
      BY <1>f, <3>1, FS_AddElement
  <2>4. Quiet'
    BY <1>1, <1>p, <1>r, <2>1 DEF CallLoggers, Quiet
  <2>5. Removed'
    BY <1>1, <2>1 DEF CallLoggers, Removed
  <2> QED
    BY <1>1, <1>f, <1>r, <2>2, <2>3, <2>4, <2>5 DEF CallLoggers
<1>2. CASE TestDefault(t)
  <2>1. ManagerTypeOK'
    BY <1>2 DEF TestDefault, ManagerTypeOK
  <2>2. Cardinality(Makers') <= Cardinality(Makers)
    <3>1. t \in Makers /\ (Makers' = Makers \/ Makers' = Makers \ {t})
      BY <1>2, <1>p DEF TestDefault, Makers
    <3> QED
      BY <1>f, <3>1, FS_RemoveElement
  <2>3. Quiet'
    BY <1>2, <1>p DEF TestDefault, Quiet
  <2>4. Removed'
    BY <1>2 DEF TestDefault, Removed
  <2> QED
    BY <1>2, <1>f, <1>r, <2>1, <2>2, <2>3, <2>4 DEF TestDefault
<1>3. CASE MakeDefault(t)
  <2>1. Cardinality(Makers') = Cardinality(Makers) - 1
    <3>1. t \in Makers /\ Makers' = Makers \ {t}
      BY <1>3, <1>p DEF MakeDefault, Makers
    <3> QED
      BY <1>f, <3>1, FS_RemoveElement
  <2>2. objects' + Cardinality(Makers') <= records' /\ objects < MaxRecords
    BY <1>3, <1>f, <1>r, <2>1 DEF MakeDefault, ManagerTypeOK, ManagerAssumption
  <2>3. m_def_logger' \in Defaults
    BY <1>3, <1>r, <2>2 DEF MakeDefault, Defaults, ManagerAssumption
  <2>4. ManagerTypeOK'
    BY <1>3, <1>r, <2>2, <2>3 DEF MakeDefault, ManagerTypeOK, ManagerAssumption
  <2>5. Quiet'
    BY <1>3, <1>p, <1>n, <2>3 DEF MakeDefault, Quiet
  <2>6. Removed'
    BY <1>3 DEF MakeDefault, Removed
  <2> QED
    BY <1>3, <2>2, <2>4, <2>5, <2>6 DEF MakeDefault
<1>4. CASE UseDefault(t)
  <2>1. Makers' = Makers
    BY <1>4, <1>p DEF UseDefault, Makers
  <2>2. ManagerTypeOK'
    BY <1>4 DEF UseDefault, ManagerTypeOK
  <2>3. ~upset => bad' = bad
    BY <1>4, <1>d DEF UseDefault, Quiet, ManagerTypeOK
  <2>4. Quiet'
    BY <1>4, <1>p, <2>3 DEF UseDefault, Quiet
  <2>5. Removed'
    BY <1>4, <1>d, <1>n DEF UseDefault, Removed, ManagerTypeOK
  <2> QED
    BY <1>4, <2>1, <2>2, <2>4, <2>5 DEF UseDefault
<1>5. CASE TestDelete(t)
  <2>1. Makers' = Makers
    BY <1>5, <1>p DEF TestDelete, Makers
  <2>2. ManagerTypeOK'
    BY <1>5 DEF TestDelete, ManagerTypeOK
  <2>3. Quiet'
    BY <1>5, <1>p DEF TestDelete, Quiet
  <2> QED
    BY <1>5, <2>1, <2>2, <2>3 DEF TestDelete, Removed
<1>6. CASE DeleteDefault(t)
  <2>1. Makers' = Makers
    BY <1>6, <1>p DEF DeleteDefault, Makers
  <2>2. ManagerTypeOK'
    BY <1>6 DEF DeleteDefault, ManagerTypeOK
  <2>3. upset /\ upset'
    BY <1>6 DEF DeleteDefault, Quiet
  <2>4. Removed'
    <3>1. /\ m_def_logger \notin Loggers
          /\ \A id \in m_loggers : id \in Loggers
      BY <1>d, <1>n DEF ManagerTypeOK, Loggers, ManagerAssumption
    <3> QED
      BY <1>6, <3>1 DEF DeleteDefault, Removed
  <2> QED
    BY <1>6, <2>1, <2>2, <2>3, <2>4 DEF DeleteDefault, Quiet
<1>7. CASE ClearDefault(t)
  <2>1. Makers' = Makers
    BY <1>7, <1>p DEF ClearDefault, Makers
  <2>2. ManagerTypeOK'
    BY <1>7 DEF ClearDefault, ManagerTypeOK
  <2>3. upset /\ upset'
    BY <1>7 DEF ClearDefault, Quiet
  <2> QED
    BY <1>7, <2>1, <2>2, <2>3 DEF ClearDefault, Removed, Quiet
<1> QED
  BY <1>1, <1>2, <1>3, <1>4, <1>5, <1>6, <1>7

\* A logger that was removed and deleted is never called again, and a default logger is used
\* after its deletion only when, after the first record, a first logger was added or a last
\* one removed: for every number of threads, loggers and records (manager::log, add_logger,
\* remove_logger, reset).
THEOREM LoggersStayAlive ==
    ManagerAssumption => (ManagerSpec => []LoggersAlive)
<1> SUFFICES ASSUME ManagerAssumption PROVE ManagerSpec => []LoggersAlive
  OBVIOUS
<1>1. ManagerInit => ManagerInv
  BY ManagerInitInv
<1>2. ManagerInv /\ [ManagerNext]_managerVars => ManagerInv'
  BY ProgramStep, LogStep DEF ManagerNext
<1>3. ManagerInv => LoggersAlive
  BY DEF ManagerInv, LoggersAlive, Removed, Quiet
<1> QED
  BY <1>1, <1>2, <1>3, PTL DEF ManagerSpec
=============================================================================
