---------------------------- MODULE RdbLifecycle ----------------------------
(***************************************************************************)
(* Opening and closing a database while threads use it (Rdb::open, close   *)
(* and the entry and exit of get, set and remove in                        *)
(* librdb/src/rdb.cpp).  openMutex guards opened, opMutex guards opCount:  *)
(* open() and close() are one step each, and so are the two blocks that    *)
(* count an operation in and out.                                          *)
(*                                                                         *)
(* The hash table, the two files and the cache are one generation of       *)
(* objects that open() creates and close() deletes.                        *)
(***************************************************************************)
EXTENDS Integers, FiniteSets

CONSTANTS
    LifeThreads,
    MaxOpens        \* bound: how often open() creates the objects

LifecycleAssumption == IsFiniteSet(LifeThreads) /\ MaxOpens \in Nat

VARIABLES
    lifeOpened, opCount,
    made,           \* the generations of objects created so far
    hashTable,      \* the generation the pointers lead to, 0 for null
    live,           \* whether that generation still exists
    lifePc,         \* of each thread: "idle", "counted", "in", "out"
    guard,          \* of each thread: the generation its HTLockGuard holds
    lifeAborted,    \* HTLockGuard's ASSERT "invalid hash table" failed
    dangling,       \* an object was used after it was deleted
    misused         \* an operation was begun on a database that was not open

lifeVars == <<lifeOpened, opCount, made, hashTable, live, lifePc, guard, lifeAborted, dangling, misused>>

LifeInit ==
    /\ lifeOpened = FALSE /\ opCount = 0
    /\ made = 0 /\ hashTable = 0 /\ live = FALSE
    /\ lifePc = [t \in LifeThreads |-> "idle"]
    /\ guard = [t \in LifeThreads |-> 0]
    /\ lifeAborted = FALSE /\ dangling = FALSE /\ misused = FALSE

LifeGoto(t, l) == lifePc' = [lifePc EXCEPT ![t] = l]

-----------------------------------------------------------------------------
(* Rdb::open                                                                *)

open ==
    /\ ~lifeAborted /\ ~lifeOpened /\ made < MaxOpens
    /\ made' = made + 1
    /\ hashTable' = made'
    /\ live' = TRUE
    /\ lifeOpened' = TRUE
    /\ UNCHANGED <<opCount, lifePc, guard, lifeAborted, dangling, misused>>

\* populateHashTable or populateFreePages fails: the objects are deleted and
\* the pointers stay
openFails ==
    /\ ~lifeAborted /\ ~lifeOpened /\ made < MaxOpens
    /\ made' = made + 1
    /\ hashTable' = made'
    /\ live' = FALSE
    /\ UNCHANGED <<lifeOpened, opCount, lifePc, guard, lifeAborted, dangling, misused>>

-----------------------------------------------------------------------------
(* Rdb::close                                                               *)

\* nothing is counted in: the objects are deleted
CanCloseUncounted == lifeOpened
CanClose          == lifeOpened /\ opCount = 0

close ==
    /\ ~lifeAborted /\ CanClose
    /\ hashTable' = 0 /\ live' = FALSE
    /\ lifeOpened' = FALSE
    /\ UNCHANGED <<opCount, made, lifePc, guard, lifeAborted, dangling, misused>>

\* E_try_again
closeTriesAgain ==
    /\ ~lifeAborted /\ lifeOpened /\ opCount > 0
    /\ UNCHANGED lifeVars

-----------------------------------------------------------------------------
(* The frame of get, set and remove                                         *)

\* opCount++; opened is not looked at
OpBegin(t) ==
    /\ ~lifeAborted /\ lifePc[t] = "idle"
    /\ opCount' = opCount + 1
    /\ LifeGoto(t, "counted")
    /\ misused' = (misused \/ ~lifeOpened)
    /\ UNCHANGED <<lifeOpened, made, hashTable, live, guard, lifeAborted, dangling>>

\* HTLockGuard guard(hashTable, hindex, ...)
OpLock(t) ==
    /\ ~lifeAborted /\ lifePc[t] = "counted"
    /\ IF hashTable = 0
       THEN lifeAborted' = TRUE /\ UNCHANGED <<lifePc, guard, dangling>>
       ELSE /\ guard' = [guard EXCEPT ![t] = hashTable]
            /\ dangling' = (dangling \/ ~live)
            /\ LifeGoto(t, "in")
            /\ UNCHANGED lifeAborted
    /\ UNCHANGED <<lifeOpened, opCount, made, hashTable, live, misused>>

\* opCount--, before ~HTLockGuard
OpEnd(t) ==
    /\ ~lifeAborted /\ lifePc[t] = "in"
    /\ opCount' = opCount - 1
    /\ LifeGoto(t, "out")
    /\ UNCHANGED <<lifeOpened, made, hashTable, live, guard, lifeAborted, dangling, misused>>

\* ~HTLockGuard unlocks through the pointer the constructor was given
OpUnlock(t) ==
    /\ ~lifeAborted /\ lifePc[t] = "out"
    /\ dangling' = (dangling \/ guard[t] # hashTable \/ ~live)
    /\ guard' = [guard EXCEPT ![t] = 0]
    /\ LifeGoto(t, "idle")
    /\ UNCHANGED <<lifeOpened, opCount, made, hashTable, live, lifeAborted, misused>>

LifeNext ==
    \/ open \/ openFails \/ close \/ closeTriesAgain
    \/ \E t \in LifeThreads : OpBegin(t) \/ OpLock(t) \/ OpEnd(t) \/ OpUnlock(t)

LifeSpec == LifeInit /\ [][LifeNext]_lifeVars

-----------------------------------------------------------------------------
(* Properties                                                               *)

\* opCount is the number of operations between the two blocks that count them.
LifeTypeOK ==
    /\ lifeOpened \in BOOLEAN /\ live \in BOOLEAN
    /\ opCount \in 0 .. Cardinality(LifeThreads)
    /\ made \in 0 .. MaxOpens /\ hashTable \in 0 .. MaxOpens
    /\ lifePc \in [LifeThreads -> {"idle", "counted", "in", "out"}]
    /\ guard \in [LifeThreads -> 0 .. MaxOpens]
    /\ lifeAborted \in BOOLEAN /\ dangling \in BOOLEAN /\ misused \in BOOLEAN

\* An operation at work has its files, its cache and its hash table, as long as
\* none was ever begun on a database that is not open: no close() deletes them
\* under it, because the operation is counted (Rdb::close), and the ASSERT
\* "invalid hash table" of HTLockGuard holds.  A use after a close() can then
\* only be the unlock at the end of an operation, which is no longer counted.
WorksOnLiveObjects ==
    /\ LifeTypeOK
    /\ ~misused =>
         /\ ~lifeAborted
         /\ \A t \in LifeThreads : lifePc[t] \in {"counted", "in"} =>
              live /\ lifeOpened /\ (lifePc[t] = "in" => guard[t] = hashTable)
=============================================================================
