----------------------------- MODULE RdbRebuild -----------------------------
(***************************************************************************)
(* Rdb::rebuild of librdb/src/rdb.cpp: the four files are renamed to their *)
(* backups, a new database is opened, every value page of the backed-up    *)
(* .db file that is not deleted is set again, and the backups are removed, *)
(* or moved back when something failed.  Renaming, opening and setting one *)
(* key are a step each; a step may fail and the process may crash.  The    *)
(* README says that nobody uses the database meanwhile; afterwards clients *)
(* open it and set keys.                                                   *)
(*                                                                         *)
(* A file is the set of the keys it holds; the .attr and .fdp files hold   *)
(* none.                                                                   *)
(***************************************************************************)
EXTENDS Integers, Sequences, Functions

CONSTANTS
    RebuiltKeys,
    Stored,        \* the keys in the database at the beginning
    MaxRebuilds,   \* bound: the calls of rebuild()
    MaxFaults,     \* bound: the steps that fail
    MaxCrashes,    \* bound: the crashes of the process
    None           \* no such file

RebuildAssumption ==
    /\ Stored \subseteq RebuiltKeys /\ \A s \in SUBSET RebuiltKeys : s # None
    /\ MaxRebuilds \in Nat /\ MaxFaults \in Nat /\ MaxCrashes \in Nat

VARIABLES
    file, bkup,    \* the files and their backups
    opened,
    attached,      \* the files that are open are the ones under their names
    rebuildPc,     \* "idle", or what rebuild() does next
    queue,         \* the files that it has still to rename or remove
    copied,        \* the keys already set in the new database
    acked,         \* the keys set by clients and those stored at first
    rebuilds, crashes,
    failed         \* the kinds of step that failed, in order

names       == <<file, bkup>>
bounds      == <<rebuilds, failed, crashes>>
rebuildVars == <<names, opened, attached, rebuildPc, queue, copied, acked, bounds>>

Files  == <<"idx", "db", "attr", "fdp">>
Names  == Range(Files)

\* the first n files, the last of them first
Backwards(n) == [i \in 1 .. n |-> Files[n - i + 1]]

RebuildInit ==
    /\ file = [f \in Names |-> IF f \in {"idx", "db"} THEN Stored ELSE {}]
    /\ bkup = [f \in Names |-> None]
    /\ opened = FALSE /\ attached = TRUE
    /\ rebuildPc = "idle" /\ queue = << >> /\ copied = {}
    /\ acked = Stored
    /\ rebuilds = 0 /\ failed = << >> /\ crashes = 0

Fault(step) == Len(failed) < MaxFaults /\ failed' = Append(failed, step)

\* open() creates the files that are missing
Opened == [f \in Names |-> IF file[f] = None THEN {} ELSE file[f]]

\* set() that returns E_ok: the key and its value are in the files.  A failing
\* write of a new value page is reported as a success, and set() puts the key all
\* the same
set(k, written) ==
    /\ file' = [file EXCEPT !["idx"] = @ \cup {k}, !["db"] = IF written THEN @ \cup {k} ELSE @]
    /\ IF written THEN UNCHANGED failed ELSE k \notin file["idx"] /\ Fault("value")

\* the new database is closed; clients have none of it open
Closed == opened' = FALSE /\ attached' = TRUE

-----------------------------------------------------------------------------
(* Rdb::rebuild                                                             *)

rebuild ==
    /\ rebuildPc = "idle" /\ ~opened /\ rebuilds < MaxRebuilds
    /\ rebuildPc' = "backup" /\ queue' = Files /\ copied' = {}
    /\ rebuilds' = rebuilds + 1
    /\ UNCHANGED <<names, opened, attached, acked, failed, crashes>>

\* rename() replaces a backup that is already there
backupFile ==
    /\ rebuildPc = "backup" /\ queue # << >> /\ file[Head(queue)] # None
    /\ bkup' = [bkup EXCEPT ![Head(queue)] = file[Head(queue)]]
    /\ file' = [file EXCEPT ![Head(queue)] = None]
    /\ queue' = Tail(queue)
    /\ UNCHANGED <<opened, attached, rebuildPc, copied, acked, bounds>>

\* the files already renamed, the latest first
BackedUpNone == << >>
BackedUp == Backwards(Len(Files) - Len(queue))

\* the rename fails, or the file is missing: those renamed are moved back
backupFails ==
    /\ rebuildPc = "backup" /\ queue # << >>
    /\ IF file[Head(queue)] = None THEN UNCHANGED failed ELSE Fault("backup")
    /\ rebuildPc' = "restore" /\ queue' = BackedUp
    /\ UNCHANGED <<names, opened, attached, copied, acked, rebuilds, crashes>>

\* open(), and the backup of the .db file is opened
OpenNew ==
    /\ rebuildPc = "backup" /\ queue = << >>
    /\ file' = Opened
    /\ opened' = TRUE /\ rebuildPc' = "copy"
    /\ UNCHANGED <<bkup, attached, queue, copied, acked, bounds>>

OpenNewFails ==
    /\ rebuildPc = "backup" /\ queue = << >> /\ Fault("open")
    /\ \E created \in SUBSET Names :
         file' = [f \in Names |-> IF f \in created THEN {} ELSE None]
    /\ rebuildPc' = "restore" /\ queue' = Backwards(Len(Files))
    /\ UNCHANGED <<bkup, opened, attached, copied, acked, rebuilds, crashes>>

\* vf.open() fails: the files are moved back, the new database stays open
OpenBackupFails ==
    /\ rebuildPc = "copy" /\ copied = {} /\ Fault("open backup")
    /\ rebuildPc' = "restore" /\ queue' = Backwards(Len(Files))
    /\ UNCHANGED <<names, opened, attached, copied, acked, rebuilds, crashes>>

\* set() of the next key of the backup
Copy(k, written) ==
    /\ rebuildPc = "copy" /\ k \in bkup["db"] \ copied
    /\ set(k, written)
    /\ copied' = copied \cup {k}
    /\ UNCHANGED <<bkup, opened, attached, rebuildPc, queue, acked, rebuilds, crashes>>

\* set() fails: close, and the files are moved back
CopyFails ==
    /\ rebuildPc = "copy" /\ bkup["db"] \ copied # {} /\ Fault("set")
    /\ Closed
    /\ rebuildPc' = "restore" /\ queue' = Backwards(Len(Files))
    /\ UNCHANGED <<names, copied, acked, rebuilds, crashes>>

\* the end of the backup: close, and the backups are removed
AllCopiedEarly == rebuildPc = "copy"
AllCopied      == rebuildPc = "copy" /\ bkup["db"] \subseteq copied
CopyEnds ==
    /\ AllCopied
    /\ Closed
    /\ rebuildPc' = "remove" /\ queue' = Backwards(Len(Files))
    /\ UNCHANGED <<names, copied, acked, bounds>>

\* what restoreFile fails to do is not noticed
restoreFile(fails) ==
    LET f == Head(queue)
    IN  /\ rebuildPc = "restore" /\ queue # << >>
        /\ IF fails THEN Fault("restore") ELSE UNCHANGED failed
        /\ IF fails \/ bkup[f] = None
           THEN UNCHANGED <<names, attached>>
           ELSE /\ file' = [file EXCEPT ![f] = bkup[f]]
                /\ bkup' = [bkup EXCEPT ![f] = None]
                /\ attached' = (attached /\ ~opened)
        /\ queue' = Tail(queue)
        /\ UNCHANGED <<opened, rebuildPc, copied, acked, rebuilds, crashes>>

removeBackupFile(fails) ==
    /\ rebuildPc = "remove" /\ queue # << >>
    /\ IF fails THEN Fault("remove") /\ UNCHANGED bkup
                ELSE bkup' = [bkup EXCEPT ![Head(queue)] = None] /\ UNCHANGED failed
    /\ queue' = Tail(queue)
    /\ UNCHANGED <<file, opened, attached, rebuildPc, copied, acked, rebuilds, crashes>>

Return ==
    /\ rebuildPc \in {"restore", "remove"} /\ queue = << >>
    /\ rebuildPc' = "idle"
    /\ UNCHANGED <<names, opened, attached, queue, copied, acked, bounds>>

-----------------------------------------------------------------------------
(* Clients, and a crash                                                     *)

ClientOpen ==
    /\ rebuildPc = "idle" /\ ~opened
    /\ file' = Opened
    /\ opened' = TRUE
    /\ UNCHANGED <<bkup, attached, rebuildPc, queue, copied, acked, bounds>>

ClientSet(k, written) ==
    /\ rebuildPc = "idle" /\ opened
    /\ IF attached THEN set(k, written) ELSE UNCHANGED <<file, failed>>
    /\ acked' = acked \cup {k}
    /\ UNCHANGED <<bkup, opened, attached, rebuildPc, queue, copied, rebuilds, crashes>>

ClientClose ==
    /\ rebuildPc = "idle" /\ opened
    /\ Closed
    /\ UNCHANGED <<names, rebuildPc, queue, copied, acked, bounds>>

Crash ==
    /\ crashes < MaxCrashes
    /\ crashes' = crashes + 1
    /\ Closed
    /\ rebuildPc' = "idle" /\ queue' = << >>
    /\ UNCHANGED <<names, copied, acked, rebuilds, failed>>

RebuildNext ==
    \/ rebuild \/ backupFile \/ backupFails \/ OpenNew \/ OpenNewFails \/ OpenBackupFails
    \/ (\E k \in RebuiltKeys, written \in BOOLEAN : Copy(k, written)) \/ CopyFails \/ CopyEnds
    \/ \E fails \in BOOLEAN : restoreFile(fails) \/ removeBackupFile(fails)
    \/ Return \/ ClientOpen \/ ClientClose \/ Crash
    \/ \E k \in RebuiltKeys, written \in BOOLEAN : ClientSet(k, written)

RebuildSpec == RebuildInit /\ [][RebuildNext]_rebuildVars

-----------------------------------------------------------------------------
(* Properties                                                               *)

\* The files of a database that is open exist.
RebuildTypeOK ==
    /\ opened => \A f \in Names : file[f] # None
    /\ file \in [Names -> {None} \cup SUBSET RebuiltKeys]
    /\ bkup \in [Names -> {None} \cup SUBSET RebuiltKeys]
    /\ opened \in BOOLEAN /\ attached \in BOOLEAN
    /\ rebuildPc \in {"idle", "backup", "copy", "restore", "remove"}
    /\ queue \in Seq(Names)
    /\ copied \subseteq RebuiltKeys /\ acked \subseteq RebuiltKeys
    /\ rebuilds \in 0 .. MaxRebuilds /\ Len(failed) <= MaxFaults /\ crashes \in 0 .. MaxCrashes

KeysOf(s) == IF s = None THEN {} ELSE s

\* no crash, no file that could not be opened or moved back, and no value whose
\* write failed unnoticed
Intact == crashes = 0 /\ Range(failed) \cap {"open backup", "restore", "value"} = {}

\* rebuild() loses no key, whether it succeeds or fails: when it has returned,
\* every key that was set is in the index and in the data file, unless it was
\* the opening of the backup or its way back that failed, or the write of a new
\* value, which ValueFile::write reports as a success.
KeysSurvive ==
    rebuildPc = "idle" /\ Intact => acked \subseteq KeysOf(file["idx"]) \cap KeysOf(file["db"])

\* Wherever a crash or a failing step stops the first rebuild(), every key and
\* its value are in the data file or in its backup, with the same exceptions.  A
\* second rebuild() after a crash would rename over that backup.
NothingLost ==
    Intact \/ (rebuilds <= 1 /\ Range(failed) \cap {"open backup", "value"} = {}) =>
      acked \subseteq KeysOf(file["db"]) \cup KeysOf(bkup["db"])

\* rebuild() loses no key: when it has returned every key is in the files, and wherever a
\* crash or a failing step stops the first one every key is in a file or its backup, unless
\* the backup could not be opened or moved back or the write of a value failed unnoticed.
RebuildKeepsKeys == RebuildTypeOK /\ KeysSurvive /\ NothingLost
=============================================================================
