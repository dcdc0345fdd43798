------------------------------ MODULE MCStorage ------------------------------
(***************************************************************************)
(* The parts of librdb under the store, each on its own instance.  They    *)
(* share no state, so one run checks them all: a behaviour is one of the   *)
(* part that is chosen at first, while the others stay where they begin.   *)
(***************************************************************************)
EXTENDS PageMgr, LRUCache, RdbLifecycle, RdbRebuild, TLC

CONSTANTS
    Keys, numOfKeys,       \* of KeyRecords
    MaxPage, ListNodes     \* of KeyPageList

VARIABLES
    part,
    kp, removed, contents,
    entryFile, hent, listKpn, listAborted, evicted, cut

Records == INSTANCE KeyRecords
List == INSTANCE KeyPageList WITH Nodes <- ListNodes, file <- entryFile, kpn <- listKpn, aborted <- listAborted

ASSUME StorageAssumption ==
    /\ Records!KeyRecordsAssumption /\ CacheAssumption /\ List!ListAssumption
    /\ LifecycleAssumption /\ RebuildAssumption

recordsVars == <<kp, removed, contents>>
listVars    == <<entryFile, hent, listKpn, listAborted, evicted, cut>>
storageVars == <<part, vars, recordsVars, cacheVars, listVars, lifeVars, rebuildVars>>

StorageInit ==
    /\ part \in {"pages", "records", "cache", "list", "life", "rebuild"}
    /\ Init /\ Records!Init /\ CacheInit /\ List!Init /\ LifeInit /\ RebuildInit

StorageNext ==
    /\ \/ part = "pages" /\ Next /\ UNCHANGED <<recordsVars, cacheVars, listVars, lifeVars, rebuildVars>>
       \/ part = "records" /\ Records!Next /\ UNCHANGED <<vars, cacheVars, listVars, lifeVars, rebuildVars>>
       \/ part = "cache" /\ CacheNext /\ UNCHANGED <<vars, recordsVars, listVars, lifeVars, rebuildVars>>
       \/ part = "list" /\ List!Next /\ UNCHANGED <<vars, recordsVars, cacheVars, lifeVars, rebuildVars>>
       \/ part = "life" /\ LifeNext /\ UNCHANGED <<vars, recordsVars, cacheVars, listVars, rebuildVars>>
       \/ part = "rebuild" /\ RebuildNext /\ UNCHANGED <<vars, recordsVars, cacheVars, listVars, lifeVars>>
    /\ UNCHANGED part

StorageSpec == StorageInit /\ [][StorageNext]_storageVars

\* the threads of the cache are alike, and so are its key page nodes
Alike == Permutations(Threads) \cup Permutations(Nodes)

-----------------------------------------------------------------------------
\* KeyRecords::get finds exactly the keys that were put and not removed, with the value
\* offset last put, through every rotation and the removal of keys with two subtrees.
GetsLastPut == part = "records" => Records!GetsLastPut

\* The page's tree is sound: the slots in use are the slots of the tree and kp_vcount is
\* their number; the heights by which it is balanced are the heights of the subtrees; it
\* stays balanced while keys are only put; remove reports the slot where get found the key,
\* unless its record had two subtrees (KeyRecords::put, remove, balanceTree).
TreeSound == part = "records" =>
    /\ Records!TypeOK /\ Records!SlotsAccounted /\ Records!HeightsRight
    /\ Records!PutsKeepBalance /\ Records!ReportsSlotFound

\* Every key that was set and not removed is found through the list of an entry, whatever
\* was evicted, and the list mirrors the chain of pages on disk while nothing is
\* (Rdb::processKeyPages, addKeyPageNode, removeKeyPageNode).
EveryPageFound == part = "list" => List!TypeOK /\ List!EveryPageFound /\ List!ListMirrorsChain
=============================================================================
