------------------------- MODULE MCFreeDiskPageMgr -------------------------
(* The three uses of FreeDiskPageMgr for TLC: the value file with failing   *)
(* writes (the constants of the .cfg file), the value file with one write   *)
(* or read of the .fdp file that is cut short, and the key file, which has  *)
(* no .fdp file.                                                            *)
EXTENDS FreeDiskPageMgr

VARIABLE use

Torn == INSTANCE FreeDiskPageMgr
          WITH MaxFaults <- 1, ShortWrites <- TRUE, FailingReads <- TRUE
Key  == INSTANCE FreeDiskPageMgr
          WITH ZeroIsFree <- TRUE, FileBacked <- FALSE, MaxFaults <- 0,
               ShortWrites <- FALSE, FailingReads <- FALSE

MCInit == Init /\ use \in {"value", "torn", "key"}

MCNext ==
    /\ UNCHANGED use
    /\ \/ use = "value" /\ Next
       \/ use = "torn" /\ Torn!Next
       \/ use = "key" /\ Key!Next

MCSpec == MCInit /\ [][MCNext]_<<vars, use>>

\* No page of the key file is lost: NoLostPage, where a never-written page
\* counts as free when the file is scanned (populateHashTable).
KeyFileLosesNoPage == use = "key" => NoLostPage
=============================================================================
