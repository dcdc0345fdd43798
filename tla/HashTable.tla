----------------------------- MODULE HashTable -----------------------------
(***************************************************************************)
(* The locks of the hash table of librdb (librdb/src/hashtable.cpp,        *)
(* rwlock.cpp and HTLockGuard of hashtable.h).  Every operation on a key   *)
(* holds the read-write lock of the key's hash entry.  An entry has a lock *)
(* only while somebody uses it: locks come from a pool and go back to it,  *)
(* and one mutex guards the entries' lock pointers and the pool.           *)
(*                                                                         *)
(* rdlock and wrlock keep that mutex while they wait for the read-write    *)
(* lock: the mutex is a lock_guard that lives to the end of the function.  *)
(***************************************************************************)
EXTENDS Integers, Sequences, FiniteSets

CONSTANTS
    Threads,
    Entries,    \* the entries of the hash table
    RWLocks,    \* bound: the lock objects that can be created
    None        \* no thread, no lock

ASSUME NoneAssumption == None \notin Threads /\ None \notin RWLocks

VARIABLES
    mutex,      \* the thread that holds HashTable::mutex, or None
    rwlock,     \* the lock of each entry, or None
    pool,       \* RWLockPool: the list of locks not in use
    cnt,        \* RWLock::cnt of each lock
    readers,    \* the threads each pthread_rwlock is granted to in read mode
    writer,     \* the thread it is granted to in write mode, or None
    pc,         \* "idle", "wait" (in rdlock/wrlock), "in" (guard constructed)
    entry,      \* HTLockGuard::index of each thread
    exclusive   \* HTLockGuard::exclusive of each thread

lockvars == <<cnt, readers, writer>>
vars     == <<mutex, rwlock, pool, lockvars, pc, entry, exclusive>>

TypeOK ==
    /\ mutex \in Threads \cup {None}
    /\ rwlock \in [Entries -> RWLocks \cup {None}]
    /\ pool \in Seq(RWLocks)
    /\ cnt \in [RWLocks -> Nat]
    /\ readers \in [RWLocks -> SUBSET Threads]
    /\ writer \in [RWLocks -> Threads \cup {None}]
    /\ pc \in [Threads -> {"idle", "wait", "in"}]
    /\ entry \in [Threads -> Entries \cup {None}]
    /\ exclusive \in [Threads -> {"shared", "exclusive"}]

Init ==
    /\ mutex = None
    /\ rwlock = [e \in Entries |-> None]
    /\ pool = << >>
    /\ cnt = [l \in RWLocks |-> 0]
    /\ readers = [l \in RWLocks |-> {}]
    /\ writer = [l \in RWLocks |-> None]
    /\ pc = [t \in Threads |-> "idle"]
    /\ entry = [t \in Threads |-> None]
    /\ exclusive = [t \in Threads |-> "shared"]

-----------------------------------------------------------------------------
(* RWLockPool::get and put                                                  *)

InPool(l) == \E i \in 1 .. Len(pool) : pool[i] = l

\* the front of the pool, or a new lock when the pool is empty
PoolGet(e) ==
    IF pool # << >>
    THEN /\ rwlock' = [rwlock EXCEPT ![e] = Head(pool)]
         /\ pool' = Tail(pool)
    ELSE \E l \in RWLocks :
           /\ \A f \in Entries : rwlock[f] # l
           /\ rwlock' = [rwlock EXCEPT ![e] = l]
           /\ UNCHANGED pool

PoolPutKept(e) ==
    /\ pool' = Append(pool, rwlock[e])
    /\ UNCHANGED rwlock

PoolPut(e) ==
    /\ pool' = Append(pool, rwlock[e])
    /\ rwlock' = [rwlock EXCEPT ![e] = None]

-----------------------------------------------------------------------------
(* HashTable::rdlock and wrlock: first the mutex, and a lock for the entry;  *)
(* then, with the mutex, the read-write lock                                *)

Lock(t, e, x) ==
    /\ pc[t] = "idle" /\ mutex = None
    /\ IF rwlock[e] = None THEN PoolGet(e) ELSE UNCHANGED <<rwlock, pool>>
    /\ mutex' = t
    /\ pc' = [pc EXCEPT ![t] = "wait"]
    /\ entry' = [entry EXCEPT ![t] = e]
    /\ exclusive' = [exclusive EXCEPT ![t] = x]
    /\ UNCHANGED lockvars

Granted(t) ==
    /\ pc' = [pc EXCEPT ![t] = "in"]
    /\ mutex' = None
    /\ UNCHANGED <<rwlock, pool, entry, exclusive>>

rdlock(t) ==
    LET l == rwlock[entry[t]]
    IN  /\ pc[t] = "wait" /\ exclusive[t] = "shared"
        /\ writer[l] = None
        /\ readers' = [readers EXCEPT ![l] = @ \cup {t}]
        /\ cnt' = [cnt EXCEPT ![l] = @ + 1]
        /\ Granted(t)
        /\ UNCHANGED writer

wrlock(t) ==
    LET l == rwlock[entry[t]]
    IN  /\ pc[t] = "wait" /\ exclusive[t] = "exclusive"
        /\ writer[l] = None /\ readers[l] = {}
        /\ writer' = [writer EXCEPT ![l] = t]
        /\ cnt' = [cnt EXCEPT ![l] = @ + 1]
        /\ Granted(t)
        /\ UNCHANGED readers

-----------------------------------------------------------------------------
(* HashTable::rdunlock and wrunlock, from ~HTLockGuard                      *)

rdunlockUncounted(t) ==
    LET e == entry[t]
        l == rwlock[e]
    IN  /\ pc[t] = "in" /\ exclusive[t] = "shared" /\ mutex = None
        /\ l # None
        /\ cnt' = [cnt EXCEPT ![l] = @ - 1]
        /\ readers' = [readers EXCEPT ![l] = @ \ {t}]
        /\ PoolPut(e)
        /\ pc' = [pc EXCEPT ![t] = "idle"]
        /\ entry' = [entry EXCEPT ![t] = None]
        /\ UNCHANGED <<mutex, writer, exclusive>>

rdunlock(t) ==
    LET e == entry[t]
        l == rwlock[e]
    IN  /\ pc[t] = "in" /\ exclusive[t] = "shared" /\ mutex = None
        /\ IF l = None
           THEN UNCHANGED <<rwlock, pool, cnt, readers>>
           ELSE /\ IF cnt[l] > 0
                   THEN /\ cnt' = [cnt EXCEPT ![l] = @ - 1]
                        /\ readers' = [readers EXCEPT ![l] = @ \ {t}]
                   ELSE UNCHANGED <<cnt, readers>>
                /\ IF cnt'[l] = 0 THEN PoolPut(e) ELSE UNCHANGED <<rwlock, pool>>
        /\ pc' = [pc EXCEPT ![t] = "idle"]
        /\ entry' = [entry EXCEPT ![t] = None]
        /\ UNCHANGED <<mutex, writer, exclusive>>

wrunlock(t) ==
    LET e == entry[t]
        l == rwlock[e]
    IN  /\ pc[t] = "in" /\ exclusive[t] = "exclusive" /\ mutex = None
        /\ IF l = None
           THEN UNCHANGED <<rwlock, pool, cnt, writer>>
           ELSE /\ IF cnt[l] > 0
                   THEN /\ cnt' = [cnt EXCEPT ![l] = @ - 1]
                        /\ writer' = [writer EXCEPT ![l] = None]
                   ELSE UNCHANGED <<cnt, writer>>
                /\ PoolPut(e)
        /\ pc' = [pc EXCEPT ![t] = "idle"]
        /\ entry' = [entry EXCEPT ![t] = None]
        /\ UNCHANGED <<mutex, readers, exclusive>>

Step(t) ==
    \/ rdlock(t) \/ wrlock(t)
    \/ rdunlock(t) \/ wrunlock(t)

Next ==
    \E t \in Threads :
      \/ \E e \in Entries, x \in {"shared", "exclusive"} : Lock(t, e, x)
      \/ Step(t)

Spec == Init /\ [][Next]_vars

\* A thread that can go on does: the scheduler runs every runnable thread, and
\* an operation ends.
FairSpec == Spec /\ \A t \in Threads : WF_vars(Step(t))

-----------------------------------------------------------------------------
(* Properties                                                               *)

\* Two operations inside the same hash entry are both readers, although the
\* lock object behind the entry is taken from the pool and returned to it
\* while other threads come and go.
EntryExclusion ==
    \A t, u \in Threads :
      t # u /\ pc[t] = "in" /\ pc[u] = "in" /\ entry[t] = entry[u]
        => exclusive[t] = "shared" /\ exclusive[u] = "shared"

\* A lock in the pool is out of use: it is there once, no entry points to it,
\* nobody holds it, and its count is zero, so ~RWLock never fails its ASSERT
\* "someone is holding the lock"; and no two entries share a lock.
PooledLockUnused ==
    /\ \A i \in 1 .. Len(pool) :
         /\ cnt[pool[i]] = 0 /\ readers[pool[i]] = {} /\ writer[pool[i]] = None
         /\ \A e \in Entries : rwlock[e] # pool[i]
    /\ \A i, j \in 1 .. Len(pool) : pool[i] = pool[j] => i = j
    /\ \A e, f \in Entries : rwlock[e] = rwlock[f] /\ rwlock[e] # None => e = f

\* Both: the operations that lock an entry exclude each other, and the pool of locks stays
\* sound (HashTable::rdlock, wrlock, unlock).
LocksSafe == TypeOK /\ EntryExclusion /\ PooledLockUnused

\* rdlock and wrlock return: "Acquires read lock on hash table entry at the
\* specified index" (hashtable.cpp), in a library that "is thread-safe"
\* (librdb/README.md).
LockIsGranted == \A t \in Threads : pc[t] = "wait" ~> pc[t] = "in"
=============================================================================
