--------------------------- MODULE StorageProofs ---------------------------
(***************************************************************************)
(* Three parts of librdb, for every set of keys, every pool of pages and   *)
(* every number of threads, faults and crashes.                            *)
(*                                                                         *)
(* rebuild() loses no key (RdbRebuild).                                    *)
(* The invariant says at which stage rebuild() is (Stages), and where the  *)
(* keys of a file are at each stage: in the file, in its backup, or copied *)
(* (Moving), and in the file once it is back (Back).  After a crash less   *)
(* is known: every key is in the data file or its backup (Somewhere).      *)
(*                                                                         *)
(* The page manager implements the abstract allocator (PageMgr).           *)
(* While the pool is being cut up (Growing), the bottom of the stack is    *)
(* the first page never handed out and everything above it was freed.      *)
(* Afterwards (Grown) only the top numOfFreePages entries are free pages:  *)
(* below them the stack may hold one address that is in use, or that is    *)
(* not a whole page, and the counter is what keeps get() away from it.     *)
(*                                                                         *)
(* An operation that is counted has the objects that close() deletes       *)
(* (RdbLifecycle): opCount is the number of operations between the blocks  *)
(* that count them, and those operations keep the database open.           *)
(***************************************************************************)
EXTENDS PageMgr, RdbLifecycle, RdbRebuild, SequenceTheorems, FiniteSetTheorems, TLAPS

-----------------------------------------------------------------------------
(* RdbRebuild                                                               *)

Holds(q, f) == \E i \in 1 .. Len(q) : q[i] = f
LastFiles(q) ==
    Len(q) \in 0 .. 4 /\ \A i \in 1 .. Len(q) : q[i] = Files[4 - Len(q) + i]
Distinct(q) == \A i, j \in 1 .. Len(q) : q[i] = q[j] => i = j

RebuildSteps == {"backup", "open", "open backup", "set", "value", "restore", "remove"}
Failed(step) == step \in Range(failed)
InFile(f)    == acked \subseteq KeysOf(file[f])
InBkup(f)    == acked \subseteq KeysOf(bkup[f])

\* Where rebuild() is: what it has still to rename are the last files, what it has to move
\* back are different files, and the database is open only where it copies, or for clients,
\* unless the backup could not be opened.
Stages ==
    /\ rebuildPc = "backup" =>
         ~opened /\ copied = {} /\ LastFiles(queue)
    /\ rebuildPc = "copy" => opened
    /\ rebuildPc = "restore" => Distinct(queue)
    /\ rebuilds = 0 => rebuildPc = "idle"
    /\ ~Failed("open backup") => attached /\ (opened => rebuildPc \in {"idle", "copy"})

\* Where the keys are while rebuild() moves file f away, and until it is moved back.
Moving(f) ==
    /\ rebuildPc = "backup" => IF Holds(queue, f) THEN InFile(f) ELSE InBkup(f)
    /\ rebuildPc = "copy" => InBkup(f) /\ copied \subseteq KeysOf(file[f])
    /\ rebuildPc = "restore" /\ Holds(queue, f) => InBkup(f)
    /\ rebuildPc = "remove" \/ rebuilds = 0 => InFile(f)

\* Once it is back.
Back(f) == rebuildPc = "idle" \/ (rebuildPc = "restore" /\ ~Holds(queue, f)) => InFile(f)

Somewhere == acked \subseteq KeysOf(file["db"]) \cup KeysOf(bkup["db"])

RebuildInv ==
    /\ RebuildTypeOK /\ failed \in Seq(RebuildSteps)
    /\ Stages
    /\ Intact => \A f \in {"idx", "db"} : Moving(f) /\ Back(f)
    /\ rebuilds <= 1 /\ ~Failed("open backup") /\ ~Failed("value") => Moving("db") /\ Somewhere

\* The names of the four files, in the order of their renaming (Rdb::rebuild).
LEMMA FileNames ==
    /\ Names = {"idx", "db", "attr", "fdp"}
    /\ Files \in Seq(Names) /\ Len(Files) = 4
    /\ Files[1] = "idx" /\ Files[2] = "db"
    /\ Files[3] = "attr" /\ Files[4] = "fdp"
  BY DEF Names, Files, Range

\* The files that were renamed, in the order in which they are moved back (Rdb::rebuild).
LEMMA ReversedFiles ==
    LET q == Backwards(Len(Files))
    IN  q \in Seq(Names) /\ Distinct(q) /\ \A f \in Names : Holds(q, f)
<1> DEFINE q == Backwards(Len(Files))
<1>1. q = [i \in 1 .. 4 |-> Files[(4 - i) + 1]]
  BY FileNames DEF Backwards
<1>2. q \in Seq(Names) /\ Len(q) = 4
  BY <1>1, FileNames
<1>3. q[1] = "fdp" /\ q[2] = "attr" /\ q[3] = "db" /\ q[4] = "idx"
  BY <1>1, FileNames
<1>4. Distinct(q)
  BY <1>2, <1>3 DEF Distinct
<1>5. \A f \in Names : Holds(q, f)
  BY <1>2, <1>3, FileNames DEF Holds
<1> QED
  BY <1>2, <1>4, <1>5

\* A queue without its head.
LEMMA QueueTail ==
    ASSUME NEW q \in Seq(Names), q # << >>
    PROVE  /\ Tail(q) \in Seq(Names) /\ Head(q) \in Names
           /\ Len(Tail(q)) = Len(q) - 1 /\ Len(q) \in Nat \ {0}
           /\ \A i \in 1 .. Len(Tail(q)) : Tail(q)[i] = q[i + 1]
           /\ \A f : Holds(q, f) <=> f = Head(q) \/ Holds(Tail(q), f)
           /\ Distinct(q) => Distinct(Tail(q)) /\ ~Holds(Tail(q), Head(q))
<1>1. /\ Tail(q) \in Seq(Names) /\ Head(q) \in Names /\ Head(q) = q[1]
      /\ Len(Tail(q)) = Len(q) - 1 /\ Len(q) \in Nat \ {0}
      /\ \A i \in 1 .. Len(Tail(q)) : Tail(q)[i] = q[i + 1]
  BY HeadTailProperties, LenProperties, EmptySeq
<1>2. ASSUME NEW f PROVE Holds(q, f) <=> f = Head(q) \/ Holds(Tail(q), f)
  <2>1. ASSUME Holds(q, f), f # Head(q) PROVE Holds(Tail(q), f)
    <3>1. PICK i \in 1 .. Len(q) : q[i] = f
      BY <2>1 DEF Holds
    <3>2. i - 1 \in 1 .. Len(Tail(q)) /\ Tail(q)[i - 1] = f
      BY <1>1, <2>1, <3>1
    <3> QED
      BY <3>2 DEF Holds
  <2>2. ASSUME Holds(Tail(q), f) PROVE Holds(q, f)
    <3>1. PICK i \in 1 .. Len(Tail(q)) : Tail(q)[i] = f
      BY <2>2 DEF Holds
    <3>2. i + 1 \in 1 .. Len(q) /\ q[i + 1] = f
      BY <1>1, <3>1
    <3> QED
      BY <3>2 DEF Holds
  <2>3. Holds(q, Head(q))
    BY <1>1 DEF Holds
  <2> QED
    BY <2>1, <2>2, <2>3
<1>3. ASSUME Distinct(q) PROVE Distinct(Tail(q)) /\ ~Holds(Tail(q), Head(q))
  <2>1. \A i \in 1 .. Len(Tail(q)) : i + 1 \in 1 .. Len(q) /\ Tail(q)[i] = q[i + 1] /\ i + 1 # 1
    BY <1>1
  <2>2. 1 \in 1 .. Len(q)
    BY <1>1
  <2>3. ~Holds(Tail(q), Head(q))
    BY <1>1, <1>3, <2>1, <2>2 DEF Distinct, Holds
  <2>4. ASSUME NEW i \in 1 .. Len(Tail(q)), NEW j \in 1 .. Len(Tail(q)), Tail(q)[i] = Tail(q)[j]
        PROVE  i = j
    <3>1. i + 1 = j + 1
      BY <1>3, <2>1, <2>4 DEF Distinct
    <3> QED
      BY <1>1, <3>1
  <2> QED
    BY <2>3, <2>4 DEF Distinct
<1> QED
  BY <1>1, <1>2, <1>3

\* The files renamed are those that are not in the queue any more.
LEMMA RenamedFiles ==
    ASSUME queue \in Seq(Names), LastFiles(queue)
    PROVE  /\ BackedUp \in Seq(Names) /\ Distinct(BackedUp)
           /\ \A f \in Names : Holds(BackedUp, f) <=> ~Holds(queue, f)
<1> DEFINE n == 4 - Len(queue)
           b == BackedUp
<1>1. n \in 0 .. 4 /\ Len(queue) \in 0 .. 4
  <2>1. Len(queue) \in 0 .. 4
    BY DEF LastFiles
  <2>2. \A k \in 0 .. 4 : 4 - k \in 0 .. 4
    OBVIOUS
  <2> QED
    BY <2>1, <2>2, Zenon
<1>3. b = [i \in 1 .. n |-> Files[(n - i) + 1]]
  BY FileNames DEF BackedUp, Backwards
<1>5. \A i \in 1 .. Len(queue) : queue[i] = Files[n + i]
  BY DEF LastFiles
<1> HIDE DEF n, b
<1>4. b \in Seq(Names) /\ Len(b) = n
  <2>1. \A i \in 1 .. n : Files[(n - i) + 1] \in Names
    BY <1>1, FileNames
  <2> QED
    BY <1>1, <1>3, <2>1
<1>6. \A i, j \in 1 .. 4 : Files[i] = Files[j] => i = j
  BY FileNames
<1>7. Distinct(b)
  <2>1. \A i \in 1 .. n : (n - i) + 1 \in 1 .. 4 /\ b[i] = Files[(n - i) + 1]
    BY <1>1, <1>3
  <2>2. \A i, j \in 1 .. n : (n - i) + 1 = (n - j) + 1 => i = j
    BY <1>1
  <2>3. ASSUME NEW i \in 1 .. n, NEW j \in 1 .. n, b[i] = b[j] PROVE i = j
    <3>1. Files[(n - i) + 1] = Files[(n - j) + 1]
      BY <2>1, <2>3
    <3>2. (n - i) + 1 = (n - j) + 1
      BY <1>6, <2>1, <3>1
    <3> QED
      BY <2>2, <3>2
  <2> QED
    BY <1>4, <2>3 DEF Distinct
<1>8. ASSUME NEW f \in Names PROVE Holds(b, f) <=> ~Holds(queue, f)
  <2>1. PICK k \in 1 .. 4 : Files[k] = f
    BY FileNames
  <2>2. CASE k <= n
    <3>1. (n - k) + 1 \in 1 .. n /\ b[(n - k) + 1] = f
      BY <1>1, <1>3, <2>1, <2>2
    <3>2. \A i \in 1 .. Len(queue) : n + i \in 1 .. 4 /\ n + i # k
      BY <1>1, <2>2 DEF n
    <3>3. ~Holds(queue, f)
      BY <1>5, <1>6, <2>1, <3>2 DEF Holds
    <3> QED
      BY <1>4, <3>1, <3>3 DEF Holds
  <2>3. CASE k > n
    <3>1. k - n \in 1 .. Len(queue) /\ queue[k - n] = f
      BY <1>1, <1>5, <2>1, <2>3 DEF n
    <3>2. \A i \in 1 .. n : (n - i) + 1 \in 1 .. 4 /\ (n - i) + 1 # k
      BY <1>1, <2>3
    <3>3. ~Holds(b, f)
      BY <1>3, <1>4, <1>6, <2>1, <3>2, Zenon DEF Holds
    <3> QED
      BY <3>1, <3>3 DEF Holds
  <2> QED
    BY <1>1, <2>2, <2>3
<1> QED
  BY <1>4, <1>7, <1>8 DEF b

\* What is in a sequence that something is appended to.
LEMMA AppendedRange ==
    ASSUME NEW S, NEW s \in Seq(S), NEW e \in S
    PROVE  /\ Append(s, e) \in Seq(S) /\ Len(Append(s, e)) = Len(s) + 1 /\ Len(s) \in Nat
           /\ Range(Append(s, e)) = Range(s) \cup {e}
<1>1. /\ Append(s, e) \in Seq(S) /\ Len(Append(s, e)) = Len(s) + 1 /\ Len(s) \in Nat
      /\ \A i \in 1 .. Len(s) : Append(s, e)[i] = s[i]
      /\ Append(s, e)[Len(s) + 1] = e
  BY AppendProperties, LenProperties
<1>2. DOMAIN s = 1 .. Len(s) /\ DOMAIN Append(s, e) = 1 .. Len(s) + 1
  BY <1>1, LenProperties
<1>3. /\ \A i \in 1 .. Len(s) + 1 : i \in 1 .. Len(s) \/ i = Len(s) + 1
      /\ \A i \in 1 .. Len(s) : i \in 1 .. Len(s) + 1
      /\ Len(s) + 1 \in 1 .. Len(s) + 1
  BY <1>1
<1> QED
  BY <1>1, <1>2, <1>3 DEF Range

\* A step that fails is remembered with those before it.
LEMMA FaultRecorded ==
    ASSUME RebuildAssumption, RebuildInv, NEW step \in RebuildSteps, Fault(step)
    PROVE  /\ failed' \in Seq(RebuildSteps) /\ Len(failed') <= MaxFaults
           /\ Failed(step)' /\ \A other : other # step => (Failed(other)' <=> Failed(other))
           /\ crashes' = crashes => (Intact' => Intact)
<1>1. failed \in Seq(RebuildSteps) /\ failed' = Append(failed, step) /\ Len(failed) < MaxFaults
  BY Zenon DEF RebuildInv, Fault
<1>2. /\ failed' \in Seq(RebuildSteps) /\ Len(failed') = Len(failed) + 1 /\ Len(failed) \in Nat
      /\ Range(failed') = Range(failed) \cup {step}
  BY <1>1, AppendedRange
<1>3. Len(failed') <= MaxFaults
  BY <1>1, <1>2 DEF RebuildAssumption
<1>4. Range(failed)' = Range(failed')
  BY DEF Range
<1>5. Failed(step)' /\ \A other : other # step => (Failed(other)' <=> Failed(other))
  BY <1>2, <1>4 DEF Failed
<1>6. crashes' = crashes => (Intact' => Intact)
  BY <1>2, <1>4, Zenon DEF Intact
<1> QED
  BY <1>2, <1>3, <1>5, <1>6

\* A database with its files satisfies the invariant.
LEMMA RebuildInitInv ==
    ASSUME RebuildAssumption, RebuildInit
    PROVE  RebuildInv
<1>1. RebuildTypeOK /\ failed \in Seq(RebuildSteps)
  <2>1. /\ file \in [Names -> {None} \cup SUBSET RebuiltKeys]
        /\ bkup \in [Names -> {None} \cup SUBSET RebuiltKeys]
    BY DEF RebuildInit, RebuildAssumption
  <2>2. /\ queue \in Seq(Names) /\ failed \in Seq(RebuildSteps) /\ Len(failed) = 0
        /\ 0 \in 0 .. MaxRebuilds /\ 0 \in 0 .. MaxCrashes /\ 0 <= MaxFaults
    BY DEF RebuildInit, RebuildAssumption
  <2> QED
    BY <2>1, <2>2, Zenon DEF RebuildInit, RebuildTypeOK, RebuildAssumption
<1>2. Stages
  BY DEF RebuildInit, Stages
<1>3. \A f \in {"idx", "db"} : InFile(f)
  BY FileNames DEF RebuildInit, InFile, KeysOf, RebuildAssumption
<1>4. \A f \in {"idx", "db"} : Moving(f) /\ Back(f)
  BY <1>3 DEF RebuildInit, Moving, Back
<1>5. Somewhere
  BY <1>3 DEF Somewhere, InFile
<1> QED
  BY <1>1, <1>2, <1>4, <1>5, Zenon DEF RebuildInv

\* What a step that records no fault leaves of the faults.
LEMMA FaultsKept ==
    ASSUME failed' = failed
    PROVE  /\ \A step : Failed(step)' <=> Failed(step)
           /\ crashes' = crashes => (Intact' <=> Intact)
  BY Zenon DEF Failed, Intact, Range

\* Renaming the files away: rebuild, backupFile and backupFails.
LEMMA BackupStep ==
    ASSUME RebuildAssumption, RebuildInv,
           rebuild \/ backupFile \/ backupFails
    PROVE  RebuildInv'
<1>i. /\ RebuildTypeOK /\ failed \in Seq(RebuildSteps) /\ Stages
      /\ Intact => \A f \in {"idx", "db"} : Moving(f) /\ Back(f)
      /\ rebuilds <= 1 /\ ~Failed("open backup") /\ ~Failed("value") => Moving("db") /\ Somewhere
  BY Zenon DEF RebuildInv
<1>n. {"idx", "db"} \subseteq Names
  BY FileNames
<1>t. /\ queue \in Seq(Names)
      /\ file \in [Names -> {None} \cup SUBSET RebuiltKeys]
      /\ bkup \in [Names -> {None} \cup SUBSET RebuiltKeys]
  BY <1>i, Zenon DEF RebuildTypeOK
<1>1. CASE rebuild
  <2>0. /\ rebuilds \in 0 .. MaxRebuilds /\ MaxRebuilds \in Nat
        /\ rebuilds < MaxRebuilds /\ rebuilds' = rebuilds + 1
    BY <1>i, <1>1, Zenon DEF rebuild, RebuildTypeOK, RebuildAssumption
  <2>3. rebuilds' # 0 /\ rebuilds' \in 0 .. MaxRebuilds /\ (rebuilds' <= 1 => rebuilds = 0 /\ rebuilds <= 1)
    BY <2>0
  <2>1. RebuildTypeOK'
    BY <1>i, <1>1, <2>3, FileNames, Zenon DEF rebuild, names, RebuildTypeOK
  <2>2. \A step : Failed(step)' <=> Failed(step)
    BY <1>1, FaultsKept DEF rebuild
  <2>4. LastFiles(Files)
    BY FileNames DEF LastFiles
  <2>5. Stages'
    BY <1>i, <1>1, <2>2, <2>3, <2>4, Zenon DEF rebuild, Stages
  <2>6. \A f \in {"idx", "db"} : Holds(Files, f)
    BY FileNames DEF Holds
  <2>7. ASSUME NEW f \in {"idx", "db"}, InFile(f) PROVE Moving(f)' /\ Back(f)'
    BY <1>1, <2>3, <2>6, <2>7 DEF rebuild, names, Moving, Back, InFile
  <2>8. Intact' => \A f \in {"idx", "db"} : InFile(f)
    BY <1>i, <1>1, FaultsKept, Zenon DEF rebuild, Back
  <2>9. rebuilds' <= 1 /\ ~Failed("open backup")' /\ ~Failed("value")' => InFile("db")
    BY <1>i, <2>2, <2>3, Zenon DEF Moving
  <2>10. InFile("db") => Somewhere'
    BY <1>1 DEF rebuild, names, InFile, Somewhere
  <2> QED
    BY <1>i, <1>1, <2>1, <2>5, <2>7, <2>8, <2>9, <2>10, Zenon DEF rebuild, RebuildInv
<1>2. CASE backupFile
  <2> DEFINE h == Head(queue)
  <2>1. /\ rebuildPc = "backup" /\ rebuildPc' = "backup" /\ queue # << >> /\ file[h] # None
        /\ bkup' = [bkup EXCEPT ![h] = file[h]] /\ file' = [file EXCEPT ![h] = None]
        /\ queue' = Tail(queue) /\ acked' = acked /\ failed' = failed
        /\ opened' = opened /\ attached' = attached /\ copied' = copied
        /\ rebuilds' = rebuilds /\ crashes' = crashes
    BY <1>2 DEF backupFile, bounds
  <2>2. h \in Names /\ ~opened /\ LastFiles(queue)
    BY <1>i, <1>t, <2>1, QueueTail, Zenon DEF Stages
  <2>q. Tail(queue) \in Seq(Names) /\ \A f : Holds(queue, f) <=> f = h \/ Holds(Tail(queue), f)
    BY <1>t, <2>1, QueueTail
  <2>3. RebuildTypeOK'
    BY <1>i, <2>1, <2>2, <2>q, Zenon DEF RebuildTypeOK
  <2>4. /\ \A step : Failed(step)' <=> Failed(step)
        /\ Intact' <=> Intact
    BY <2>1, FaultsKept
  <2>5. LastFiles(queue)' /\ ~Holds(Tail(queue), h)
    <3>1. /\ Len(queue) \in 1 .. 4 /\ Len(Tail(queue)) = Len(queue) - 1
          /\ \A i \in 1 .. Len(Tail(queue)) : Tail(queue)[i] = queue[i + 1]
      BY <1>t, <2>1, <2>2, QueueTail DEF LastFiles
    <3>2. PICK n \in 1 .. 4 : n = Len(queue)
      BY <3>1
    <3>3. \A i \in 1 .. n : queue[i] = Files[4 - n + i]
      BY <2>2, <3>2 DEF LastFiles
    <3>4. \A i \in 1 .. n - 1 : Tail(queue)[i] = Files[4 - (n - 1) + i]
      <4>1. ASSUME NEW i \in 1 .. n - 1
            PROVE  i + 1 \in 1 .. n /\ 4 - n + (i + 1) = 4 - (n - 1) + i
        OBVIOUS
      <4> QED
        BY <3>1, <3>2, <3>3, <4>1
    <3>5. LastFiles(Tail(queue))
      <4>1. Len(Tail(queue)) = n - 1 /\ n - 1 \in 0 .. 4
        BY <3>1, <3>2
      <4> QED
        BY <3>4, <4>1, Zenon DEF LastFiles
    <3>6. Distinct(queue)
      <4>1. \A i, j \in 1 .. 4 : Files[i] = Files[j] => i = j
        BY FileNames
      <4>2. ASSUME NEW i \in 1 .. n, NEW j \in 1 .. n, queue[i] = queue[j] PROVE i = j
        <5>1. 4 - n + i \in 1 .. 4 /\ 4 - n + j \in 1 .. 4
          OBVIOUS
        <5>2. 4 - n + i = 4 - n + j
          BY <3>3, <4>1, <4>2, <5>1
        <5> QED
          BY <5>2
      <4> QED
        BY <3>2, <4>2 DEF Distinct
    <3> QED
      BY <1>t, <2>1, <3>5, <3>6, QueueTail DEF LastFiles
  <2>6. Stages'
    BY <1>i, <2>1, <2>4, <2>5, Zenon DEF Stages
  <2> HIDE DEF h
  <2>7. ASSUME NEW f \in {"idx", "db"}, Moving(f) PROVE Moving(f)' /\ Back(f)'
    <3>1. rebuilds # 0
      BY <1>i, <2>1, Zenon DEF Stages
    <3>2. CASE f = h
      <4>1. InFile(f) /\ ~Holds(queue, f)'
        BY <2>1, <2>5, <2>q, <2>7, <3>2 DEF Moving
      <4>2. bkup'[f] = file[f]
        BY <1>n, <1>t, <2>1, <3>2
      <4>3. InBkup(f)'
        BY <2>1, <4>1, <4>2 DEF InFile, InBkup
      <4> QED
        BY <2>1, <3>1, <4>1, <4>3 DEF Moving, Back
    <3>3. CASE f # h
      <4>1. Holds(queue, f)' <=> Holds(queue, f)
        BY <2>1, <2>q, <3>3
      <4>2. bkup'[f] = bkup[f] /\ file'[f] = file[f]
        BY <1>n, <1>t, <2>1, <3>3
      <4>3. (InBkup(f)' <=> InBkup(f)) /\ (InFile(f)' <=> InFile(f))
        BY <2>1, <4>2 DEF InFile, InBkup
      <4> QED
        BY <2>1, <2>7, <3>1, <4>1, <4>3 DEF Moving, Back
    <3> QED
      BY <3>2, <3>3
  <2>8. Moving("db")' => Somewhere'
    BY <2>1 DEF Moving, Somewhere, InFile, InBkup
  <2> QED
    BY <1>i, <2>1, <2>3, <2>4, <2>6, <2>7, <2>8, Zenon DEF RebuildInv
<1>3. CASE backupFails
  <2>1. /\ rebuildPc = "backup" /\ rebuildPc' = "restore" /\ queue' = BackedUp /\ acked' = acked
        /\ file' = file /\ bkup' = bkup /\ opened' = opened /\ attached' = attached
        /\ copied' = copied /\ rebuilds' = rebuilds /\ crashes' = crashes
        /\ failed' = failed \/ Fault("backup")
    BY <1>3 DEF backupFails, names
  <2>2. LastFiles(queue) /\ ~opened
    BY <1>i, <2>1, Zenon DEF Stages
  <2>3. /\ queue' \in Seq(Names) /\ Distinct(queue)'
        /\ \A f \in Names : Holds(queue, f)' <=> ~Holds(queue, f)
    BY <1>t, <2>1, <2>2, RenamedFiles, Zenon DEF Distinct, Holds
  <2>4. /\ failed' \in Seq(RebuildSteps) /\ Len(failed') <= MaxFaults
        /\ (Failed("open backup")' <=> Failed("open backup"))
        /\ (Failed("value")' <=> Failed("value"))
        /\ Intact' => Intact
    <3>1. CASE failed' = failed
      BY <1>i, <2>1, <3>1, FaultsKept, Zenon DEF RebuildTypeOK
    <3>2. CASE Fault("backup")
      <4>1. "backup" \in RebuildSteps /\ "open backup" # "backup" /\ "value" # "backup"
        BY DEF RebuildSteps
      <4>2. /\ failed' \in Seq(RebuildSteps) /\ Len(failed') <= MaxFaults
            /\ \A other : other # "backup" => (Failed(other)' <=> Failed(other))
            /\ crashes' = crashes => (Intact' => Intact)
        BY <3>2, <4>1, FaultRecorded
      <4> QED
        BY <2>1, <4>1, <4>2, Zenon
    <3> QED
      BY <2>1, <3>1, <3>2, Zenon
  <2>5. RebuildTypeOK'
    BY <1>i, <2>1, <2>3, <2>4, Zenon DEF RebuildTypeOK
  <2>6. Stages'
    BY <1>i, <2>1, <2>2, <2>3, <2>4, Zenon DEF Stages
  <2>7. ASSUME NEW f \in {"idx", "db"}, Moving(f) PROVE Moving(f)' /\ Back(f)'
    <3>1. rebuilds # 0
      BY <1>i, <2>1, Zenon DEF Stages
    <3>2. Holds(queue, f)' <=> ~Holds(queue, f)
      BY <1>n, <2>3
    <3>3. (InBkup(f)' <=> InBkup(f)) /\ (InFile(f)' <=> InFile(f))
      BY <2>1 DEF InFile, InBkup
    <3> QED
      BY <2>1, <2>7, <3>1, <3>2, <3>3 DEF Moving, Back
  <2>8. Somewhere => Somewhere'
    BY <2>1 DEF Somewhere
  <2> QED
    BY <1>i, <2>1, <2>4, <2>5, <2>6, <2>7, <2>8, Zenon DEF RebuildInv
<1> QED
  BY <1>1, <1>2, <1>3

\* rebuild() gives up: all the files are to be moved back, and their backups hold the keys.
LEMMA GivingUp ==
    ASSUME rebuildPc' = "restore", queue' = Backwards(Len(Files)),
           acked' = acked, bkup' = bkup, rebuilds' = rebuilds, rebuilds # 0
    PROVE  /\ queue' \in Seq(Names) /\ Distinct(queue)'
           /\ \A f \in {"idx", "db"} : InBkup(f) => Moving(f)' /\ Back(f)'
           /\ InBkup("db") => Somewhere'
<1>1. /\ queue' \in Seq(Names) /\ Distinct(queue)'
      /\ \A f \in {"idx", "db"} : Holds(queue, f)'
  BY ReversedFiles, FileNames DEF Distinct, Holds
<1>2. ASSUME NEW f \in {"idx", "db"}, InBkup(f) PROVE Moving(f)' /\ Back(f)'
  <2>1. InBkup(f)'
    BY <1>2 DEF InBkup
  <2> QED
    BY <1>1, <2>1 DEF Moving, Back
<1>3. InBkup("db") => Somewhere'
  BY DEF InBkup, Somewhere
<1> QED
  BY <1>1, <1>2, <1>3

\* Opening the new database, and its failures.
LEMMA OpenStep ==
    ASSUME RebuildAssumption, RebuildInv,
           OpenNew \/ OpenNewFails \/ OpenBackupFails
    PROVE  RebuildInv'
<1>i. /\ RebuildTypeOK /\ failed \in Seq(RebuildSteps) /\ Stages
      /\ Intact => \A f \in {"idx", "db"} : Moving(f) /\ Back(f)
      /\ rebuilds <= 1 /\ ~Failed("open backup") /\ ~Failed("value") => Moving("db") /\ Somewhere
  BY Zenon DEF RebuildInv
<1>n. {"idx", "db"} \subseteq Names
  BY FileNames
<1>t. /\ queue \in Seq(Names) /\ copied \subseteq RebuiltKeys
      /\ file \in [Names -> {None} \cup SUBSET RebuiltKeys]
      /\ bkup \in [Names -> {None} \cup SUBSET RebuiltKeys]
      /\ None \notin SUBSET RebuiltKeys
  BY <1>i, Zenon DEF RebuildTypeOK, RebuildAssumption
<1>q. ASSUME rebuildPc = "backup", queue = << >>
      PROVE  \A f \in {"idx", "db"} : Moving(f) => InBkup(f)
  <2>1. Len(queue) = 0
    BY <1>q
  <2>2. \A f : ~Holds(queue, f)
    BY <2>1 DEF Holds
  <2> QED
    BY <1>q, <2>2 DEF Moving
<1>1. CASE OpenNew
  <2>1. /\ rebuildPc = "backup" /\ queue = << >> /\ rebuildPc' = "copy" /\ queue' = queue /\ opened' = TRUE
        /\ file' = Opened /\ bkup' = bkup /\ attached' = attached /\ copied' = copied
        /\ acked' = acked /\ rebuilds' = rebuilds /\ crashes' = crashes /\ failed' = failed
    BY <1>1 DEF OpenNew, bounds
  <2>2. /\ file' \in [Names -> {None} \cup SUBSET RebuiltKeys]
        /\ \A f \in Names : file'[f] # None
    BY <1>t, <2>1 DEF Opened
  <2>3. RebuildTypeOK'
    BY <1>i, <2>1, <2>2, Zenon DEF RebuildTypeOK
  <2>4. /\ \A step : Failed(step)' <=> Failed(step)
        /\ Intact' <=> Intact
    BY <2>1, FaultsKept
  <2>5. Stages' /\ rebuilds # 0 /\ copied = {}
    BY <1>i, <2>1, <2>4, Zenon DEF Stages
  <2>6. ASSUME NEW f \in {"idx", "db"}, Moving(f) PROVE Moving(f)' /\ Back(f)' /\ InBkup(f)
    <3>1. InBkup(f) /\ InBkup(f)'
      BY <1>q, <2>1, <2>6 DEF InBkup
    <3> QED
      BY <2>1, <2>5, <3>1 DEF Moving, Back
  <2>7. InBkup("db") => Somewhere'
    BY <2>1 DEF Somewhere, InBkup
  <2> QED
    BY <1>i, <2>1, <2>3, <2>4, <2>5, <2>6, <2>7, Zenon DEF RebuildInv
<1>2. CASE OpenNewFails
  <2>1. /\ rebuildPc = "backup" /\ queue = << >> /\ rebuildPc' = "restore"
        /\ queue' = Backwards(Len(Files)) /\ Fault("open")
        /\ bkup' = bkup /\ opened' = opened /\ attached' = attached /\ copied' = copied
        /\ acked' = acked /\ rebuilds' = rebuilds /\ crashes' = crashes
    BY <1>2 DEF OpenNewFails
  <2>2. PICK created \in SUBSET Names :
          file' = [f \in Names |-> IF f \in created THEN {} ELSE None]
    BY <1>2, Zenon DEF OpenNewFails
  <2>3. "open" \in RebuildSteps /\ "open backup" # "open" /\ "value" # "open"
    BY DEF RebuildSteps
  <2>4. /\ failed' \in Seq(RebuildSteps) /\ Len(failed') <= MaxFaults
        /\ \A other : other # "open" => (Failed(other)' <=> Failed(other))
        /\ Intact' => Intact
    BY <2>1, <2>3, FaultRecorded
  <2>5. rebuilds # 0 /\ ~opened
    BY <1>i, <2>1, Zenon DEF Stages
  <2>6. /\ queue' \in Seq(Names) /\ Distinct(queue)'
        /\ \A f \in {"idx", "db"} : InBkup(f) => Moving(f)' /\ Back(f)'
        /\ InBkup("db") => Somewhere'
    BY <2>1, <2>5, GivingUp
  <2>7. RebuildTypeOK'
    <3>1. file' \in [Names -> {None} \cup SUBSET RebuiltKeys]
      BY <2>2
    <3> QED
      BY <1>i, <2>1, <2>4, <2>5, <2>6, <3>1, Zenon DEF RebuildTypeOK
  <2>8. Stages'
    BY <1>i, <2>1, <2>3, <2>4, <2>5, <2>6, Zenon DEF Stages
  <2>9. \A f \in {"idx", "db"} : Moving(f) => InBkup(f)
    BY <1>q, <2>1
  <2> QED
    BY <1>i, <2>1, <2>3, <2>4, <2>6, <2>7, <2>8, <2>9, Zenon DEF RebuildInv
<1>3. CASE OpenBackupFails
  <2>1. /\ rebuildPc = "copy" /\ rebuildPc' = "restore"
        /\ queue' = Backwards(Len(Files)) /\ Fault("open backup")
        /\ file' = file /\ bkup' = bkup /\ opened' = opened /\ attached' = attached
        /\ copied' = copied /\ acked' = acked /\ rebuilds' = rebuilds /\ crashes' = crashes
    BY <1>3, Zenon DEF OpenBackupFails, names
  <2>2. /\ failed' \in Seq(RebuildSteps) /\ Len(failed') <= MaxFaults
        /\ Failed("open backup")' /\ ~Intact'
    <3>1. "open backup" \in RebuildSteps
      BY DEF RebuildSteps
    <3>2. /\ failed' \in Seq(RebuildSteps) /\ Len(failed') <= MaxFaults /\ Failed("open backup")'
      BY <2>1, <3>1, FaultRecorded, Zenon
    <3> QED
      BY <3>2, Zenon DEF Failed, Intact
  <2>3. rebuilds # 0
    BY <1>i, <2>1, Zenon DEF Stages
  <2>4. queue' \in Seq(Names) /\ Distinct(queue)'
    BY <2>1, <2>3, GivingUp, Zenon
  <2>5. RebuildTypeOK'
    BY <1>i, <2>1, <2>2, <2>4, Zenon DEF RebuildTypeOK
  <2>6. Stages'
    BY <1>i, <2>1, <2>2, <2>3, <2>4, Zenon DEF Stages
  <2> QED
    BY <2>2, <2>5, <2>6, Zenon DEF RebuildInv
<1> QED
  BY <1>1, <1>2, <1>3

\* What set() does to the files, whether the value was written or not.
LEMMA SetFiles ==
    ASSUME RebuildAssumption, RebuildInv, NEW k \in RebuiltKeys, NEW written \in BOOLEAN,
           set(k, written), \A f \in Names : file[f] # None
    PROVE  /\ file' \in [Names -> {None} \cup SUBSET RebuiltKeys]
           /\ \A f \in Names : file'[f] # None
           /\ \A f \in {"idx", "db"} : file'[f] = file[f] \/ file'[f] = file[f] \cup {k}
           /\ written => \A f \in {"idx", "db"} : file'[f] = file[f] \cup {k}
<1>1. {"idx", "db"} \subseteq Names
  BY FileNames
<1>2. /\ file \in [Names -> {None} \cup SUBSET RebuiltKeys] /\ None \notin SUBSET RebuiltKeys
      /\ \A f \in Names : file[f] \in SUBSET RebuiltKeys
  BY Zenon DEF RebuildInv, RebuildTypeOK, RebuildAssumption
<1>3. file' = [file EXCEPT !["idx"] = @ \cup {k}, !["db"] = IF written THEN @ \cup {k} ELSE @]
  BY DEF set
<1> QED
  BY <1>1, <1>2, <1>3

\* A value that set() could not write is remembered, as are the faults before it.
LEMMA SetFaults ==
    ASSUME RebuildAssumption, RebuildInv, NEW k, NEW written \in BOOLEAN,
           set(k, written), crashes' = crashes
    PROVE  /\ failed' \in Seq(RebuildSteps) /\ Len(failed') <= MaxFaults
           /\ Failed("open backup")' <=> Failed("open backup")
           /\ Failed("value")' <=> Failed("value") \/ ~written
           /\ Intact' => Intact /\ written
<1>1. CASE written
  <2>1. failed' = failed
    BY <1>1 DEF set
  <2> QED
    BY <1>1, <2>1, FaultsKept, Zenon DEF RebuildInv, RebuildTypeOK
<1>2. CASE ~written
  <2>1. Fault("value") /\ "value" \in RebuildSteps /\ "open backup" # "value"
    BY <1>2 DEF set, RebuildSteps
  <2>2. /\ failed' \in Seq(RebuildSteps) /\ Len(failed') <= MaxFaults /\ Failed("value")'
        /\ \A other : other # "value" => (Failed(other)' <=> Failed(other))
    BY <2>1, FaultRecorded, Zenon
  <2>3. ~Intact'
    BY <2>2, Zenon DEF Failed, Intact
  <2> QED
    BY <1>2, <2>1, <2>2, <2>3, Zenon
<1> QED
  BY <1>1, <1>2

\* Copying the keys, and its end.
LEMMA CopyStep ==
    ASSUME RebuildAssumption, RebuildInv,
           (\E k \in RebuiltKeys, written \in BOOLEAN : Copy(k, written)) \/ CopyFails \/ CopyEnds
    PROVE  RebuildInv'
<1>i. /\ RebuildTypeOK /\ failed \in Seq(RebuildSteps) /\ Stages
      /\ Intact => \A f \in {"idx", "db"} : Moving(f) /\ Back(f)
      /\ rebuilds <= 1 /\ ~Failed("open backup") /\ ~Failed("value") => Moving("db") /\ Somewhere
  BY Zenon DEF RebuildInv
<1>n. {"idx", "db"} \subseteq Names
  BY FileNames
<1>t. /\ queue \in Seq(Names) /\ copied \subseteq RebuiltKeys
      /\ file \in [Names -> {None} \cup SUBSET RebuiltKeys]
      /\ bkup \in [Names -> {None} \cup SUBSET RebuiltKeys]
      /\ None \notin SUBSET RebuiltKeys
  BY <1>i, Zenon DEF RebuildTypeOK, RebuildAssumption
<1>1. ASSUME NEW k \in RebuiltKeys, NEW written \in BOOLEAN, Copy(k, written) PROVE RebuildInv'
  <2>1. /\ rebuildPc = "copy" /\ rebuildPc' = rebuildPc /\ queue' = queue /\ opened' = opened /\ attached' = attached
        /\ bkup' = bkup /\ copied' = copied \cup {k}
        /\ acked' = acked /\ rebuilds' = rebuilds /\ crashes' = crashes /\ set(k, written)
    BY <1>1 DEF Copy
  <2>2. opened /\ \A f \in Names : file[f] # None /\ file[f] \in SUBSET RebuiltKeys
    BY <1>i, <1>t, <2>1, Zenon DEF Stages, RebuildTypeOK
  <2>3. /\ file' \in [Names -> {None} \cup SUBSET RebuiltKeys]
        /\ \A f \in Names : file'[f] # None
        /\ \A f \in {"idx", "db"} : file'[f] = file[f] \/ file'[f] = file[f] \cup {k}
        /\ written => \A f \in {"idx", "db"} : file'[f] = file[f] \cup {k}
    BY <2>1, <2>2, SetFiles
  <2>5. /\ failed' \in Seq(RebuildSteps) /\ Len(failed') <= MaxFaults
        /\ Failed("open backup")' <=> Failed("open backup")
        /\ Failed("value")' <=> Failed("value") \/ ~written
        /\ Intact' => Intact /\ written
    BY <2>1, SetFaults, Zenon
  <2>4. RebuildTypeOK'
    BY <1>i, <2>1, <2>3, <2>5, Zenon DEF RebuildTypeOK
  <2>6. Stages' /\ rebuilds # 0
    BY <1>i, <2>1, <2>5, Zenon DEF Stages
  <2>7. ASSUME NEW f \in {"idx", "db"}, Moving(f), written
        PROVE  Moving(f)' /\ Back(f)' /\ InBkup(f)'
    <3>1. copied' \subseteq KeysOf(file[f])'
      BY <1>n, <2>1, <2>2, <2>3, <2>7, Zenon DEF Moving, KeysOf
    <3>2. InBkup(f)'
      BY <2>1, <2>7 DEF Moving, InBkup
    <3> QED
      BY <2>1, <2>6, <3>1, <3>2, Zenon DEF Moving, Back
  <2>8. InBkup("db")' => Somewhere'
    BY DEF Somewhere, InBkup
  <2> QED
    BY <1>i, <2>1, <2>4, <2>5, <2>6, <2>7, <2>8, Zenon DEF RebuildInv
<1>2. CASE CopyFails
  <2>1. /\ rebuildPc = "copy" /\ rebuildPc' = "restore" /\ opened' = FALSE /\ attached' = TRUE
        /\ queue' = Backwards(Len(Files)) /\ Fault("set")
        /\ file' = file /\ bkup' = bkup /\ copied' = copied
        /\ acked' = acked /\ rebuilds' = rebuilds /\ crashes' = crashes
    BY <1>2 DEF CopyFails, Closed, names
  <2>2. "set" \in RebuildSteps /\ "open backup" # "set" /\ "value" # "set"
    BY DEF RebuildSteps
  <2>3. /\ failed' \in Seq(RebuildSteps) /\ Len(failed') <= MaxFaults
        /\ \A other : other # "set" => (Failed(other)' <=> Failed(other))
        /\ Intact' => Intact
    BY <2>1, <2>2, FaultRecorded
  <2>4. rebuilds # 0
    BY <1>i, <2>1, Zenon DEF Stages
  <2>5. /\ queue' \in Seq(Names) /\ Distinct(queue)'
        /\ \A f \in {"idx", "db"} : InBkup(f) => Moving(f)' /\ Back(f)'
        /\ InBkup("db") => Somewhere'
    BY <2>1, <2>4, GivingUp
  <2>6. RebuildTypeOK'
    BY <1>i, <2>1, <2>3, <2>5, Zenon DEF RebuildTypeOK
  <2>7. Stages'
    BY <2>1, <2>4, <2>5, Zenon DEF Stages
  <2>8. \A f \in {"idx", "db"} : Moving(f) => InBkup(f)
    BY <2>1 DEF Moving
  <2> QED
    BY <1>i, <2>1, <2>2, <2>3, <2>5, <2>6, <2>7, <2>8, Zenon DEF RebuildInv
<1>3. CASE CopyEnds
  <2>1. /\ rebuildPc = "copy" /\ rebuildPc' = "remove" /\ opened' = FALSE /\ attached' = TRUE
        /\ bkup["db"] \subseteq copied
        /\ queue' = Backwards(Len(Files))
        /\ file' = file /\ bkup' = bkup /\ copied' = copied /\ failed' = failed
        /\ acked' = acked /\ rebuilds' = rebuilds /\ crashes' = crashes
    BY <1>3 DEF CopyEnds, AllCopied, Closed, names, bounds
  <2>2. RebuildTypeOK'
    BY <1>i, <2>1, ReversedFiles, Zenon DEF RebuildTypeOK
  <2>3. /\ \A step : Failed(step)' <=> Failed(step)
        /\ Intact' <=> Intact
    BY <2>1, FaultsKept
  <2>4. Stages' /\ rebuilds # 0
    BY <1>i, <2>1, <2>3, Zenon DEF Stages
  <2>5. ASSUME NEW f \in {"idx", "db"}, Moving(f), Moving("db") PROVE Moving(f)' /\ Back(f)' /\ InFile(f)'
    <3>1. acked \subseteq copied
      BY <2>1, <2>5 DEF Moving, InBkup, KeysOf
    <3>2. InFile(f)'
      BY <2>1, <2>5, <3>1 DEF Moving, InFile
    <3> QED
      BY <2>1, <2>4, <3>2 DEF Moving, Back
  <2>6. InFile("db")' => Somewhere'
    BY DEF Somewhere, InFile
  <2> QED
    BY <1>i, <2>1, <2>2, <2>3, <2>4, <2>5, <2>6, Zenon DEF RebuildInv
<1> QED
  BY <1>1, <1>2, <1>3

\* Moving the files back, removing the backups, and the return.
LEMMA RestoreStep ==
    ASSUME RebuildAssumption, RebuildInv, NEW fails \in BOOLEAN,
           restoreFile(fails) \/ removeBackupFile(fails) \/ Return
    PROVE  RebuildInv'
<1>i. /\ RebuildTypeOK /\ failed \in Seq(RebuildSteps) /\ Stages
      /\ Intact => \A f \in {"idx", "db"} : Moving(f) /\ Back(f)
      /\ rebuilds <= 1 /\ ~Failed("open backup") /\ ~Failed("value") => Moving("db") /\ Somewhere
  BY Zenon DEF RebuildInv
<1>n. {"idx", "db"} \subseteq Names
  BY FileNames
<1>t. /\ queue \in Seq(Names) /\ copied \subseteq RebuiltKeys
      /\ file \in [Names -> {None} \cup SUBSET RebuiltKeys]
      /\ bkup \in [Names -> {None} \cup SUBSET RebuiltKeys]
      /\ None \notin SUBSET RebuiltKeys
  BY <1>i, Zenon DEF RebuildTypeOK, RebuildAssumption
<1>h. PICK h : h = Head(queue)
  OBVIOUS
<1>1. CASE restoreFile(fails)
  <2>1. /\ rebuildPc = "restore" /\ rebuildPc' = rebuildPc /\ queue # << >> /\ queue' = Tail(queue)
        /\ opened' = opened /\ copied' = copied /\ acked' = acked /\ rebuilds' = rebuilds
        /\ crashes' = crashes
        /\ IF fails THEN Fault("restore") ELSE failed' = failed
        /\ IF fails \/ bkup[h] = None
           THEN file' = file /\ bkup' = bkup /\ attached' = attached
           ELSE /\ file' = [file EXCEPT ![h] = bkup[h]]
                /\ bkup' = [bkup EXCEPT ![h] = None]
                /\ attached' = (attached /\ ~opened)
    BY <1>1, <1>h DEF restoreFile, names
  <2>2. rebuilds # 0 /\ Distinct(queue)
    BY <1>i, <2>1, Zenon DEF Stages
  <2>3. /\ h \in Names /\ queue' \in Seq(Names) /\ Distinct(queue)'
        /\ ~Holds(queue, h)' /\ Holds(queue, h)
        /\ \A f : f # h => (Holds(queue, f)' <=> Holds(queue, f))
    <3>1. /\ Tail(queue) \in Seq(Names) /\ h \in Names
          /\ \A f : Holds(queue, f) <=> f = h \/ Holds(Tail(queue), f)
          /\ Distinct(Tail(queue)) /\ ~Holds(Tail(queue), h)
      BY <1>h, <1>t, <2>1, <2>2, QueueTail
    <3> QED
      BY <2>1, <3>1
  <2>4. /\ failed' \in Seq(RebuildSteps) /\ Len(failed') <= MaxFaults
        /\ Failed("open backup")' <=> Failed("open backup")
        /\ Failed("value")' <=> Failed("value")
        /\ Intact' => Intact /\ ~fails
    <3>1. CASE fails
      <4>1. "restore" \in RebuildSteps /\ "open backup" # "restore" /\ "value" # "restore"
        BY DEF RebuildSteps
      <4>2. /\ failed' \in Seq(RebuildSteps) /\ Len(failed') <= MaxFaults /\ Failed("restore")'
            /\ \A other : other # "restore" => (Failed(other)' <=> Failed(other))
        BY <2>1, <3>1, <4>1, FaultRecorded
      <4>3. ~Intact'
        BY <4>2, Zenon DEF Failed, Intact
      <4> QED
        BY <4>1, <4>2, <4>3, Zenon
    <3>2. CASE ~fails
      BY <1>i, <2>1, <3>2, FaultsKept, Zenon DEF RebuildTypeOK
    <3> QED
      BY <3>1, <3>2, Zenon
  <2>5. /\ file' \in [Names -> {None} \cup SUBSET RebuiltKeys]
        /\ bkup' \in [Names -> {None} \cup SUBSET RebuiltKeys]
        /\ \A f \in Names : file[f] # None => file'[f] # None
    BY <1>t, <2>1, <2>3
  <2>6. attached' \in BOOLEAN
    BY <1>i, <2>1, Zenon DEF RebuildTypeOK
  <2>7. RebuildTypeOK'
    BY <1>i, <2>1, <2>3, <2>4, <2>5, <2>6, Zenon DEF RebuildTypeOK
  <2>8. Stages'
    BY <1>i, <2>1, <2>2, <2>3, <2>4, Zenon DEF Stages
  <2>9. ASSUME NEW f \in {"idx", "db"}, Moving(f) PROVE Moving(f)' /\ (Back(f) /\ ~fails => Back(f)')
    <3>1. CASE f = h
      <4>1. ~Holds(queue, f)' /\ InBkup(f)
        BY <2>1, <2>3, <2>9, <3>1 DEF Moving
      <4>2. ~fails => InFile(f)'
        BY <1>n, <1>t, <2>1, <3>1, <4>1 DEF InBkup, InFile, KeysOf
      <4> QED
        BY <2>1, <2>2, <4>1, <4>2 DEF Moving, Back
    <3>2. CASE f # h
      <4>1. (Holds(queue, f)' <=> Holds(queue, f)) /\ file'[f] = file[f] /\ bkup'[f] = bkup[f]
        BY <1>n, <1>t, <2>1, <2>3, <3>2
      <4>2. (InBkup(f)' <=> InBkup(f)) /\ (InFile(f)' <=> InFile(f))
        BY <2>1, <4>1 DEF InFile, InBkup
      <4> QED
        BY <2>1, <2>2, <2>9, <4>1, <4>2 DEF Moving, Back
    <3> QED
      BY <3>1, <3>2
  <2>10. Moving("db") /\ Somewhere => Somewhere'
    <3>1. CASE "db" = h
      <4>1. Moving("db") => InBkup("db")
        BY <2>1, <2>3, <3>1 DEF Moving
      <4> QED
        BY <1>n, <1>t, <2>1, <3>1, <4>1 DEF Somewhere, InBkup, KeysOf
    <3>2. CASE "db" # h
      <4>1. file'["db"] = file["db"] /\ bkup'["db"] = bkup["db"]
        BY <1>n, <1>t, <2>1, <3>2
      <4> QED
        BY <2>1, <4>1 DEF Somewhere
    <3> QED
      BY <3>1, <3>2
  <2> QED
    BY <1>i, <2>1, <2>4, <2>7, <2>8, <2>9, <2>10, Zenon DEF RebuildInv
<1>2. CASE removeBackupFile(fails)
  <2>1. /\ rebuildPc = "remove" /\ rebuildPc' = rebuildPc /\ queue # << >> /\ queue' = Tail(queue) /\ file' = file
        /\ opened' = opened /\ attached' = attached /\ copied' = copied /\ acked' = acked
        /\ rebuilds' = rebuilds /\ crashes' = crashes
        /\ IF fails THEN Fault("remove") /\ bkup' = bkup
                    ELSE bkup' = [bkup EXCEPT ![h] = None] /\ failed' = failed
    BY <1>2, <1>h DEF removeBackupFile
  <2>2. h \in Names /\ queue' \in Seq(Names)
    BY <1>h, <1>t, <2>1, QueueTail
  <2>3. /\ failed' \in Seq(RebuildSteps) /\ Len(failed') <= MaxFaults
        /\ Failed("open backup")' <=> Failed("open backup")
        /\ Failed("value")' <=> Failed("value")
        /\ Intact' => Intact
    <3>1. CASE fails
      <4>1. "remove" \in RebuildSteps /\ "open backup" # "remove" /\ "value" # "remove"
        BY DEF RebuildSteps
      <4>2. /\ failed' \in Seq(RebuildSteps) /\ Len(failed') <= MaxFaults
            /\ \A other : other # "remove" => (Failed(other)' <=> Failed(other))
            /\ Intact' => Intact
        BY <2>1, <3>1, <4>1, FaultRecorded
      <4> QED
        BY <4>1, <4>2, Zenon
    <3>2. CASE ~fails
      BY <1>i, <2>1, <3>2, FaultsKept, Zenon DEF RebuildTypeOK
    <3> QED
      BY <3>1, <3>2, Zenon
  <2>4. bkup' \in [Names -> {None} \cup SUBSET RebuiltKeys]
    BY <1>t, <2>1, <2>2
  <2>5. RebuildTypeOK'
    BY <1>i, <2>1, <2>2, <2>3, <2>4, Zenon DEF RebuildTypeOK
  <2>6. Stages'
    BY <1>i, <2>1, <2>3, Zenon DEF Stages
  <2>7. ASSUME NEW f \in {"idx", "db"}, Moving(f) PROVE Moving(f)' /\ Back(f)' /\ InFile(f)'
    <3>1. InFile(f)'
      BY <2>1, <2>7 DEF Moving, InFile
    <3> QED
      BY <2>1, <3>1 DEF Moving, Back
  <2>8. InFile("db")' => Somewhere'
    BY DEF Somewhere, InFile
  <2> QED
    BY <1>i, <2>1, <2>3, <2>5, <2>6, <2>7, <2>8, Zenon DEF RebuildInv
<1>3. CASE Return
  <2>1. /\ rebuildPc \in {"restore", "remove"} /\ queue = << >> /\ rebuildPc' = "idle" /\ queue' = queue
        /\ file' = file /\ bkup' = bkup /\ opened' = opened /\ attached' = attached
        /\ copied' = copied /\ acked' = acked /\ rebuilds' = rebuilds /\ crashes' = crashes
        /\ failed' = failed
    BY <1>3 DEF Return, names, bounds
  <2>2. \A f : ~Holds(queue, f)
    <3>1. Len(queue) = 0
      BY <2>1
    <3> QED
      BY <3>1 DEF Holds
  <2>3. RebuildTypeOK'
    BY <1>i, <2>1, Zenon DEF RebuildTypeOK
  <2>4. /\ \A step : Failed(step)' <=> Failed(step)
        /\ Intact' <=> Intact
    BY <2>1, FaultsKept
  <2>5. Stages' /\ rebuilds # 0
    BY <1>i, <2>1, <2>4, Zenon DEF Stages
  <2>6. ASSUME NEW f \in {"idx", "db"}, Moving(f) PROVE Moving(f)' /\ (Back(f) => Back(f)')
    <3>1. InFile(f)' <=> InFile(f)
      BY <2>1 DEF InFile
    <3> QED
      BY <2>1, <2>2, <2>5, <2>6, <3>1 DEF Moving, Back
  <2>7. Somewhere => Somewhere'
    BY <2>1 DEF Somewhere
  <2> QED
    BY <1>i, <2>1, <2>3, <2>4, <2>5, <2>6, <2>7, Zenon DEF RebuildInv
<1> QED
  BY <1>1, <1>2, <1>3

\* Clients and a crash.
LEMMA ClientStep ==
    ASSUME RebuildAssumption, RebuildInv,
           \/ ClientOpen \/ (\E k \in RebuiltKeys, written \in BOOLEAN : ClientSet(k, written)) \/ ClientClose
           \/ Crash \/ UNCHANGED rebuildVars
    PROVE  RebuildInv'
<1>i. /\ RebuildTypeOK /\ failed \in Seq(RebuildSteps) /\ Stages
      /\ Intact => \A f \in {"idx", "db"} : Moving(f) /\ Back(f)
      /\ rebuilds <= 1 /\ ~Failed("open backup") /\ ~Failed("value") => Moving("db") /\ Somewhere
  BY Zenon DEF RebuildInv
<1>n. {"idx", "db"} \subseteq Names
  BY FileNames
<1>t. /\ queue \in Seq(Names) /\ copied \subseteq RebuiltKeys
      /\ file \in [Names -> {None} \cup SUBSET RebuiltKeys]
      /\ bkup \in [Names -> {None} \cup SUBSET RebuiltKeys]
      /\ None \notin SUBSET RebuiltKeys
  BY <1>i, Zenon DEF RebuildTypeOK, RebuildAssumption
<1>1. CASE ClientOpen
  <2>1. /\ rebuildPc = "idle" /\ rebuildPc' = rebuildPc /\ queue' = queue /\ file' = Opened /\ opened' = TRUE
        /\ bkup' = bkup /\ attached' = attached /\ copied' = copied /\ acked' = acked
        /\ rebuilds' = rebuilds /\ crashes' = crashes /\ failed' = failed
    BY <1>1 DEF ClientOpen, bounds
  <2>2. /\ file' \in [Names -> {None} \cup SUBSET RebuiltKeys]
        /\ \A f \in Names : file'[f] # None
        /\ \A f \in Names : KeysOf(file'[f]) = KeysOf(file[f])
    BY <1>t, <2>1 DEF Opened, KeysOf
  <2>3. RebuildTypeOK'
    BY <1>i, <2>1, <2>2, Zenon DEF RebuildTypeOK
  <2>4. /\ \A step : Failed(step)' <=> Failed(step)
        /\ Intact' <=> Intact
    BY <2>1, FaultsKept
  <2>5. Stages'
    BY <1>i, <2>1, <2>4, Zenon DEF Stages
  <2>6. \A f \in {"idx", "db"} : InFile(f)' <=> InFile(f)
    BY <1>n, <2>1, <2>2 DEF InFile, KeysOf
  <2>7. ASSUME NEW f \in {"idx", "db"}, Moving(f) PROVE Moving(f)' /\ (Back(f) => Back(f)')
    BY <2>1, <2>6, <2>7 DEF Moving, Back
  <2>8. Somewhere => Somewhere'
    BY <1>n, <2>1, <2>2 DEF Somewhere, KeysOf
  <2> QED
    BY <1>i, <2>1, <2>3, <2>4, <2>5, <2>7, <2>8, Zenon DEF RebuildInv
<1>2. ASSUME NEW k \in RebuiltKeys, NEW written \in BOOLEAN, ClientSet(k, written) PROVE RebuildInv'
  <2>1. /\ rebuildPc = "idle" /\ rebuildPc' = rebuildPc /\ opened /\ opened' = opened /\ queue' = queue
        /\ IF attached THEN set(k, written) ELSE file' = file /\ failed' = failed
        /\ bkup' = bkup /\ attached' = attached /\ copied' = copied /\ acked' = acked \cup {k}
        /\ rebuilds' = rebuilds /\ crashes' = crashes
    BY <1>2 DEF ClientSet
  <2>2. \A f \in Names : file[f] # None /\ file[f] \in SUBSET RebuiltKeys
    BY <1>i, <1>t, <2>1, Zenon DEF RebuildTypeOK
  <2>3. /\ file' \in [Names -> {None} \cup SUBSET RebuiltKeys]
        /\ \A f \in Names : file'[f] # None
        /\ attached /\ written => \A f \in {"idx", "db"} : file'[f] = file[f] \cup {k}
    <3>1. CASE attached
      BY <2>1, <2>2, <3>1, SetFiles
    <3>2. CASE ~attached
      BY <1>t, <2>1, <2>2, <3>2
    <3> QED
      BY <3>1, <3>2
  <2>5. /\ failed' \in Seq(RebuildSteps) /\ Len(failed') <= MaxFaults
        /\ Failed("open backup")' <=> Failed("open backup")
        /\ attached => (Failed("value")' <=> Failed("value") \/ ~written)
        /\ Intact' => Intact
        /\ Intact' /\ attached => written
    <3>1. CASE attached
      BY <2>1, <3>1, SetFaults, Zenon
    <3>2. CASE ~attached
      BY <1>i, <2>1, <3>2, FaultsKept, Zenon DEF RebuildTypeOK
    <3> QED
      BY <3>1, <3>2, Zenon
  <2>4. RebuildTypeOK'
    <3>1. acked' \subseteq RebuiltKeys
      BY <1>i, <2>1, Zenon DEF RebuildTypeOK
    <3> QED
      BY <1>i, <2>1, <2>3, <2>5, <3>1, Zenon DEF RebuildTypeOK
  <2>6. Stages'
    BY <1>i, <2>1, <2>5, Zenon DEF Stages
  <2>7. ~Failed("open backup") => attached
    BY <1>i, Zenon DEF Stages
  <2>8. attached /\ written => \A f \in {"idx", "db"} : InFile(f) => InFile(f)'
    BY <1>n, <2>1, <2>2, <2>3, Zenon DEF InFile, KeysOf
  <2>9. ASSUME NEW f \in {"idx", "db"}, Moving(f), attached, written
        PROVE  Moving(f)' /\ (Back(f) => Back(f)')
    BY <2>1, <2>8, <2>9 DEF Moving, Back
  <2>10. attached /\ written /\ Somewhere => Somewhere'
    BY <1>n, <2>1, <2>2, <2>3 DEF Somewhere, KeysOf
  <2>11. Intact => ~Failed("open backup")
    BY Zenon DEF Intact, Failed
  <2> QED
    BY <1>i, <2>1, <2>4, <2>5, <2>6, <2>7, <2>9, <2>10, <2>11, Zenon DEF RebuildInv
<1>3. CASE ClientClose \/ Crash
  <2>1. /\ rebuildPc' = "idle" /\ opened' = FALSE /\ attached' = TRUE /\ queue' \in {queue, << >>}
        /\ file' = file /\ bkup' = bkup /\ copied' = copied /\ acked' = acked
        /\ rebuilds' = rebuilds /\ failed' = failed
        /\ \/ rebuildPc = "idle" /\ crashes' = crashes
           \/ crashes < MaxCrashes /\ crashes' = crashes + 1
    BY <1>3 DEF ClientClose, Crash, Closed, names, bounds
  <2>2. crashes' \in 0 .. MaxCrashes /\ (crashes' = 0 => rebuildPc = "idle" /\ crashes' = crashes)
    <3>1. crashes \in 0 .. MaxCrashes /\ MaxCrashes \in Nat
      BY <1>i, Zenon DEF RebuildTypeOK, RebuildAssumption
    <3>2. crashes' \in {crashes, crashes + 1} /\ (crashes' = crashes + 1 => crashes < MaxCrashes \/ rebuildPc = "idle")
      BY <2>1
    <3>3. CASE crashes' = crashes + 1 /\ crashes < MaxCrashes
      BY <3>1, <3>3
    <3>4. CASE rebuildPc = "idle" /\ crashes' = crashes
      BY <3>1, <3>4
    <3> QED
      BY <2>1, <3>3, <3>4
  <2>3. RebuildTypeOK'
    <3>1. queue' \in Seq(Names)
      <4>1. << >> \in Seq(Names)
        OBVIOUS
      <4> QED
        BY <1>t, <2>1, <4>1, Zenon
    <3> QED
      BY <1>i, <2>1, <2>2, <3>1, Zenon DEF RebuildTypeOK
  <2>4. /\ \A step : Failed(step)' <=> Failed(step)
        /\ Intact' => Intact /\ rebuildPc = "idle"
    BY <2>1, <2>2, FaultsKept, Zenon DEF Intact
  <2>5. Stages'
    BY <1>i, <2>1, Zenon DEF Stages
  <2>6. ASSUME NEW f \in {"idx", "db"}, Moving(f) PROVE Moving(f)' /\ (Back(f) /\ rebuildPc = "idle" => Back(f)')
    <3>1. InFile(f)' <=> InFile(f)
      BY <2>1 DEF InFile
    <3> QED
      BY <2>1, <2>6, <3>1 DEF Moving, Back
  <2>7. Somewhere => Somewhere'
    BY <2>1 DEF Somewhere
  <2> QED
    BY <1>i, <2>1, <2>3, <2>4, <2>5, <2>6, <2>7, Zenon DEF RebuildInv
<1>4. CASE UNCHANGED rebuildVars
  <2>1. /\ rebuildPc' = rebuildPc /\ opened' = opened /\ attached' = attached /\ queue' = queue
        /\ file' = file /\ bkup' = bkup /\ copied' = copied /\ acked' = acked
        /\ rebuilds' = rebuilds /\ failed' = failed /\ crashes' = crashes
    BY <1>4 DEF rebuildVars, names, bounds
  <2>2. RebuildTypeOK' /\ Stages'
    BY <1>i, <2>1, FaultsKept, Zenon DEF RebuildTypeOK, Stages
  <2>3. \A f : (Moving(f)' <=> Moving(f)) /\ (Back(f)' <=> Back(f))
    BY <2>1, Zenon DEF Moving, Back, InFile, InBkup
  <2>4. Somewhere' <=> Somewhere
    BY <2>1 DEF Somewhere
  <2> QED
    BY <1>i, <2>1, <2>2, <2>3, <2>4, FaultsKept, Zenon DEF RebuildInv
<1> QED
  BY <1>1, <1>2, <1>3, <1>4

\* The invariant implies the properties.
LEMMA RebuildInvImplies ==
    ASSUME RebuildInv
    PROVE  RebuildKeepsKeys
<1>1. KeysSurvive
  BY Zenon DEF RebuildInv, KeysSurvive, Back, InFile
<1>2. Intact => Somewhere
  <2>1. ASSUME Intact PROVE InFile("db") \/ InBkup("db")
    BY <2>1, Zenon DEF RebuildInv, RebuildTypeOK, Moving, Back
  <2> QED
    BY <2>1 DEF Somewhere, InFile, InBkup
<1>3. NothingLost
  BY <1>2, Zenon DEF RebuildInv, NothingLost, Somewhere, Failed
<1> QED
  BY <1>1, <1>3, Zenon DEF RebuildInv, RebuildKeepsKeys

\* rebuild() loses no key, whatever fails or crashes: when it has returned every key is in the
\* index and in the data file, unless the backup could not be opened or moved back, and until
\* a second rebuild() after a crash every key is in the data file or its backup: for every set
\* of keys and every number of rebuilds, faults and crashes (Rdb::rebuild, restoreFile).
THEOREM RebuildLosesNoKey ==
    RebuildAssumption => (RebuildSpec => []RebuildKeepsKeys)
<1> SUFFICES ASSUME RebuildAssumption PROVE RebuildSpec => []RebuildKeepsKeys
  OBVIOUS
<1>1. RebuildInit => RebuildInv
  BY RebuildInitInv
<1>2. RebuildInv /\ [RebuildNext]_rebuildVars => RebuildInv'
  BY BackupStep, OpenStep, CopyStep, RestoreStep, ClientStep, Zenon DEF RebuildNext
<1>3. RebuildInv => RebuildKeepsKeys
  BY RebuildInvImplies
<1> QED
  BY <1>1, <1>2, <1>3, PTL DEF RebuildSpec

-----------------------------------------------------------------------------
(* PageMgr                                                                  *)

\* Pushing keeps the entries below the new top where they are (PageMgr::free).
LEMMA PushFacts ==
    ASSUME NEW s \in Seq(Int), NEW e \in Int
    PROVE  /\ Push(s, e) \in Seq(Int)
           /\ Len(Push(s, e)) = Len(s) + 1
           /\ \A i \in 1 .. Len(s) : Push(s, e)[i] = s[i]
           /\ Push(s, e)[Len(s) + 1] = e
  BY DEF Push

\* Popping keeps the entries below the top where they are (PageMgr::get).
LEMMA PopFacts ==
    ASSUME NEW s \in Seq(Int), Len(s) >= 1
    PROVE  /\ Pop(s) \in Seq(Int)
           /\ Len(Pop(s)) = Len(s) - 1
           /\ \A i \in 1 .. Len(s) - 1 : Pop(s)[i] = s[i]
           /\ Top(s) \in Int
<1> DEFINE n == Len(s) - 1
<1>1. n \in Nat /\ \A i \in 1 .. n : s[i] \in Int
  OBVIOUS
<1>2. Top(s) \in Int
  BY DEF Top
<1>3. \A i \in 1 .. n : SubSeq(s, 1, n)[i] = s[i]
  OBVIOUS
<1> HIDE DEF n
<1>4. /\ SubSeq(s, 1, n) \in Seq(Int)
      /\ Len(SubSeq(s, 1, n)) = IF 1 <= n THEN n - 1 + 1 ELSE 0
  BY <1>1, SubSeqProperties
<1>5. Len(SubSeq(s, 1, n)) = n
  BY <1>1, <1>4
<1> QED
  BY <1>2, <1>3, <1>4, <1>5 DEF n, Pop

\* The entries of s above its first b are distinct, and they are the pages
\* below w that are not in a.
FreeAbove(s, a, b, w) ==
    /\ \A i \in b + 1 .. Len(s) : s[i] \in 0 .. w - 1 /\ s[i] \notin a
    /\ \A i, j \in b + 1 .. Len(s) : s[i] = s[j] => i = j
    /\ a \subseteq 0 .. w - 1
    /\ \A q \in 0 .. w - 1 : q \in a \/ \E i \in b + 1 .. Len(s) : s[i] = q

Growing ==
    /\ Len(nextFreePage) >= 1
    /\ nextFreePage[1] \in Pages
    /\ numOfFreePages = NumOfPages - nextFreePage[1] + Len(nextFreePage) - 1
    /\ FreeAbove(nextFreePage, allocated, 1, nextFreePage[1])

Grown ==
    /\ Len(nextFreePage) - numOfFreePages \in {0, 1}
    /\ FreeAbove(nextFreePage, allocated, Len(nextFreePage) - numOfFreePages, NumOfPages)

PoolInv == TypeOK /\ (Growing \/ Grown)

\* Taking the top of the stack.
LEMMA PopFree ==
    ASSUME NEW s \in Seq(Int), NEW a, NEW b \in Nat, NEW w \in Nat,
           FreeAbove(s, a, b, w), Len(s) > b
    PROVE  /\ Top(s) \in 0 .. w - 1 /\ Top(s) \notin a
           /\ FreeAbove(Pop(s), a \cup {Top(s)}, b, w)
<1>1. Len(s) \in Nat /\ Len(s) >= 1 /\ Top(s) = s[Len(s)]
  BY DEF Top
<1>2. /\ Pop(s) \in Seq(Int) /\ Len(Pop(s)) = Len(s) - 1
      /\ \A i \in 1 .. Len(s) - 1 : Pop(s)[i] = s[i]
  BY <1>1, PopFacts, Zenon
<1>3. Len(s) \in b + 1 .. Len(s) /\ \A i \in b + 1 .. Len(s) - 1 : i \in b + 1 .. Len(s) /\ i # Len(s)
  BY <1>1
<1>4. \A i \in b + 1 .. Len(s) - 1 : Pop(s)[i] = s[i]
  BY <1>1, <1>2
<1>5. Top(s) \in 0 .. w - 1 /\ Top(s) \notin a
  BY <1>1, <1>3 DEF FreeAbove
<1>6. \A i \in b + 1 .. Len(s) - 1 : s[i] # Top(s)
  BY <1>1, <1>3 DEF FreeAbove
<1>7. \A q \in 0 .. w - 1 : q \in a \cup {Top(s)} \/ \E i \in b + 1 .. Len(s) - 1 : s[i] = q
  BY <1>1 DEF FreeAbove
<1> DEFINE r == Pop(s)
<1> DEFINE t == Top(s)
<1>8. /\ \A i \in b + 1 .. Len(s) - 1 : r[i] \in 0 .. w - 1 /\ r[i] \notin a \cup {t}
      /\ \A i, j \in b + 1 .. Len(s) - 1 : r[i] = r[j] => i = j
      /\ a \cup {t} \subseteq 0 .. w - 1
  BY <1>3, <1>4, <1>5, <1>6, Zenon DEF FreeAbove
<1>9. \A q \in 0 .. w - 1 : q \in a \cup {t} \/ \E i \in b + 1 .. Len(s) - 1 : r[i] = q
  BY <1>4, <1>7, Zenon
<1>10. b + 1 .. Len(r) = b + 1 .. Len(s) - 1
  BY <1>2
<1>11. FreeAbove(r, a \cup {t}, b, w)
  BY <1>8, <1>9, <1>10, Zenon DEF FreeAbove
<1> QED
  BY <1>5, <1>11

\* Pushing a page that was in use.
LEMMA PushFree ==
    ASSUME NEW s \in Seq(Int), NEW a, NEW b \in Nat, NEW w \in Nat, NEW p \in a,
           FreeAbove(s, a, b, w), Len(s) >= b
    PROVE  FreeAbove(Push(s, p), a \ {p}, b, w)
<1>1. p \in 0 .. w - 1 /\ p \in Int
  BY DEF FreeAbove
<1>2. /\ Push(s, p) \in Seq(Int) /\ Len(Push(s, p)) = Len(s) + 1
      /\ \A i \in 1 .. Len(s) : Push(s, p)[i] = s[i]
      /\ Push(s, p)[Len(s) + 1] = p
  BY <1>1, PushFacts, Zenon
<1>3. /\ Len(s) + 1 \in b + 1 .. Len(s) + 1
      /\ \A i \in b + 1 .. Len(s) + 1 : i # Len(s) + 1 => i \in b + 1 .. Len(s) /\ i \in 1 .. Len(s)
      /\ \A i \in b + 1 .. Len(s) : i \in b + 1 .. Len(s) + 1 /\ i \in 1 .. Len(s)
  OBVIOUS
<1>4. \A i \in b + 1 .. Len(s) : s[i] # p
  BY DEF FreeAbove
<1> QED
  BY <1>1, <1>2, <1>3, <1>4, Zenon DEF FreeAbove

-----------------------------------------------------------------------------
(* Every step keeps the invariant and is a step of the abstract allocator   *)

\* The pool starts with one address on the stack and every page counted.
LEMMA PoolInit ==
    ASSUME NumOfPages \in Nat, Init
    PROVE  PoolInv /\ PA!Init
<1>1. TypeOK /\ PA!Init
  BY DEF Init, TypeOK, PA!Init
<1>2. /\ nextFreePage = <<0>> /\ Len(nextFreePage) = 1 /\ nextFreePage[1] = 0
      /\ numOfFreePages = NumOfPages /\ allocated = {} /\ NumOfPages \in Nat
  BY DEF Init
<1>3. CASE NumOfPages = 0
  BY <1>1, <1>2, <1>3 DEF PoolInv, Grown, FreeAbove
<1>4. CASE NumOfPages # 0
  BY <1>1, <1>2, <1>4 DEF PoolInv, Growing, FreeAbove, Pages
<1> QED
  BY <1>3, <1>4

\* get() hands out a page that is not in use.
LEMMA GetStep ==
    ASSUME NumOfPages \in Nat, PoolInv, get
    PROVE  PoolInv' /\ PA!Next
<1> DEFINE s == nextFreePage
<1> DEFINE p == Top(s)
<1>1. /\ s \in Seq(Int) /\ Len(s) \in Nat /\ Len(s) >= 1 /\ numOfFreePages \in Nat
      /\ numOfFreePages > 0 /\ NumOfPages \in Nat
      /\ allocated \subseteq Pages
  BY DEF PoolInv, TypeOK, get, CanGet
<1>2. /\ nextFreePage' = Refill(p, Pop(s))
      /\ allocated' = allocated \cup {p}
      /\ answer' = p
      /\ numOfFreePages' = numOfFreePages - 1
  BY DEF get
<1>3. /\ Pop(s) \in Seq(Int) /\ Len(Pop(s)) = Len(s) - 1
      /\ \A i \in 1 .. Len(s) - 1 : Pop(s)[i] = s[i]
  BY <1>1, PopFacts, Zenon
<1>4. Pop(s) = << >> <=> Len(s) = 1
  BY <1>1, <1>3
<1>5. ASSUME p \in Pages, p \notin allocated, Growing' \/ Grown'
      PROVE  PoolInv' /\ PA!Next
  <2>1. PA!Next
    BY <1>2, <1>5 DEF PA!Next, PA!Alloc
  <2>2. p \in Int /\ nextFreePage' \in Seq(Int)
    BY <1>2, <1>3, <1>5 DEF Refill, Pages
  <2>3. TypeOK'
    BY <1>1, <1>2, <1>5, <2>2 DEF TypeOK
  <2> QED
    BY <1>5, <2>1, <2>3 DEF PoolInv
<1>6. CASE Growing /\ Len(s) > 1
  <2>1. s[1] \in Pages /\ s[1] \in Nat /\ FreeAbove(s, allocated, 1, s[1])
    BY <1>6 DEF Growing, Pages
  <2>2. /\ p \in 0 .. s[1] - 1 /\ p \notin allocated
        /\ FreeAbove(Pop(s), allocated \cup {p}, 1, s[1])
    BY <1>1, <1>6, <2>1, PopFree, Zenon
  <2>3. p \in Pages
    BY <2>1, <2>2 DEF Pages
  <2>4. nextFreePage' = Pop(s) /\ nextFreePage'[1] = s[1] /\ Len(nextFreePage') = Len(s) - 1
    BY <1>1, <1>2, <1>3, <1>4, <1>6 DEF Refill
  <2>5. numOfFreePages' = NumOfPages - nextFreePage'[1] + Len(nextFreePage') - 1
    BY <1>1, <1>2, <1>6, <2>1, <2>4 DEF Growing
  <2>6. Growing'
    BY <1>1, <1>2, <1>6, <2>1, <2>2, <2>4, <2>5 DEF Growing
  <2> QED
    BY <1>5, <2>2, <2>3, <2>6
<1>7. CASE Growing /\ Len(s) = 1
  <2>1. /\ p = s[1] /\ p \in Pages /\ p \in Nat /\ p < NumOfPages
        /\ FreeAbove(s, allocated, 1, p) /\ numOfFreePages = NumOfPages - p
    BY <1>1, <1>7 DEF Growing, Pages, Top
  <2>2. p \notin allocated /\ allocated' = 0 .. p
    <3>1. 1 + 1 .. Len(s) = {}
      BY <1>7
    <3>2. allocated = 0 .. p - 1
      BY <2>1, <3>1, Zenon DEF FreeAbove
    <3> QED
      BY <1>2, <2>1, <3>2
  <2>3. Pop(s) = << >>
    BY <1>4, <1>7
  <2>4. CASE p + 1 < NumOfPages
    <3>1. /\ nextFreePage' = <<p + 1>>
          /\ Len(nextFreePage') = 1 /\ nextFreePage'[1] = p + 1
      BY <1>2, <2>3, <2>4 DEF Refill, InPool
    <3>2. FreeAbove(nextFreePage', allocated', 1, p + 1)
      BY <2>1, <2>2, <3>1 DEF FreeAbove
    <3>3. numOfFreePages' = NumOfPages - (p + 1) + 1 - 1 /\ p + 1 \in Pages
      BY <1>2, <2>1, <2>4 DEF Pages
    <3> QED
      BY <1>5, <2>1, <2>2, <3>1, <3>2, <3>3 DEF Growing
  <2>5. CASE ~(p + 1 < NumOfPages)
    <3>1. p + 1 = NumOfPages /\ numOfFreePages' = 0
      BY <1>1, <1>2, <2>1, <2>5
    <3>2. Len(nextFreePage') \in {0, 1}
      BY <1>2, <2>3 DEF Refill
    <3>3. FreeAbove(nextFreePage', allocated', Len(nextFreePage'), NumOfPages)
      BY <2>1, <2>2, <3>1, <3>2 DEF FreeAbove
    <3>4. Len(nextFreePage') - numOfFreePages' = Len(nextFreePage')
      BY <3>1, <3>2
    <3> QED
      BY <1>5, <2>1, <2>2, <3>2, <3>3, <3>4 DEF Grown
  <2> QED
    BY <2>4, <2>5
<1>8. CASE Grown
  <2> DEFINE b == Len(s) - numOfFreePages
  <2>1. b \in {0, 1} /\ b \in Nat /\ Len(s) > b /\ FreeAbove(s, allocated, b, NumOfPages)
    BY <1>1, <1>8 DEF Grown
  <2>2. /\ p \in 0 .. NumOfPages - 1 /\ p \notin allocated
        /\ FreeAbove(Pop(s), allocated', b, NumOfPages)
    BY <1>1, <1>2, <2>1, PopFree, Zenon
  <2>3. CASE nextFreePage' = Pop(s)
    <3>1. Len(nextFreePage') - numOfFreePages' = b
      BY <1>1, <1>2, <1>3, <2>3
    <3> QED
      BY <1>5, <2>1, <2>2, <2>3, <3>1 DEF Grown, Pages
  <2>4. CASE nextFreePage' # Pop(s)
    <3>0. Pop(s) = << >> /\ nextFreePage' = <<p + 1>>
      BY <1>2, <2>4 DEF Refill
    <3>1. Len(s) = 1 /\ nextFreePage' = <<p + 1>> /\ numOfFreePages' = 0 /\ b = 0
      <4>1. Len(s) = 1
        BY <1>4, <3>0, Zenon
      <4>2. \A n \in Nat : n > 0 /\ 1 - n \in {0, 1} => n = 1
        OBVIOUS
      <4>3. numOfFreePages = 1
        BY <1>1, <2>1, <4>1, <4>2, Zenon
      <4>4. numOfFreePages' = 0 /\ b = 0
        BY <1>2, <4>1, <4>3
      <4> QED
        BY <3>0, <4>1, <4>4, Zenon
    <3>2. Len(nextFreePage') = 1 /\ Len(nextFreePage') - numOfFreePages' = 1
      BY <3>1
    <3>3. allocated' = 0 .. NumOfPages - 1
      <4>1. b + 1 .. Len(Pop(s)) = {}
        BY <1>3, <3>1
      <4> QED
        BY <2>2, <4>1, Zenon DEF FreeAbove
    <3>4. FreeAbove(nextFreePage', allocated', 1, NumOfPages)
      BY <3>2, <3>3 DEF FreeAbove
    <3> QED
      BY <1>5, <2>2, <3>2, <3>4 DEF Grown, Pages
  <2> QED
    BY <2>3, <2>4
<1>9. Len(s) > 1 \/ Len(s) = 1
  <2>1. \A n \in Nat : n >= 1 => n > 1 \/ n = 1
    OBVIOUS
  <2> QED
    BY <1>1, <2>1, Zenon
<1> QED
  BY <1>6, <1>7, <1>8, <1>9, Zenon DEF PoolInv

\* get() returns null only when every page is in use.
LEMMA GetFailsStep ==
    ASSUME NumOfPages \in Nat, PoolInv, getFails
    PROVE  PoolInv' /\ PA!Next
<1>1. /\ nextFreePage \in Seq(Int) /\ Len(nextFreePage) \in Nat
      /\ numOfFreePages \in Nat /\ NumOfPages \in Nat
      /\ Len(nextFreePage) = 0 \/ numOfFreePages = 0
  BY DEF PoolInv, TypeOK, getFails, CanGet
<1>2. UNCHANGED <<nextFreePage, numOfFreePages, allocated>> /\ answer' = NoPage
  BY DEF getFails
<1>3. ~Growing
  BY <1>1 DEF Growing, Pages
<1>4. Grown /\ Len(nextFreePage) - numOfFreePages = Len(nextFreePage)
  BY <1>1, <1>3 DEF PoolInv, Grown
<1>5. FreeAbove(nextFreePage, allocated, Len(nextFreePage), NumOfPages)
  BY <1>4 DEF Grown
<1>6. allocated = Pages
  <2>1. Len(nextFreePage) + 1 .. Len(nextFreePage) = {}
    BY <1>1
  <2> QED
    BY <1>5, <2>1, Zenon DEF FreeAbove, Pages
<1>7. PA!Next
  BY <1>2, <1>6 DEF PA!Next, PA!Exhausted
<1> QED
  BY <1>2, <1>4, <1>7 DEF PoolInv, TypeOK, Grown

\* free() makes the page available again.
LEMMA FreeStep ==
    ASSUME NumOfPages \in Nat, PoolInv, NEW p \in Pages, free(p)
    PROVE  PoolInv' /\ PA!Next
<1> DEFINE s == nextFreePage
<1>1. /\ s \in Seq(Int) /\ Len(s) \in Nat /\ numOfFreePages \in Nat
      /\ NumOfPages \in Nat /\ p \in Int /\ p \in allocated
  BY DEF PoolInv, TypeOK, free, Pages
<1>2. /\ nextFreePage' = Push(s, p)
      /\ allocated' = allocated \ {p}
      /\ numOfFreePages' = numOfFreePages + 1
      /\ answer' = answer
  BY DEF free
<1>3. /\ Push(s, p) \in Seq(Int) /\ Len(Push(s, p)) = Len(s) + 1
      /\ \A i \in 1 .. Len(s) : Push(s, p)[i] = s[i]
  BY <1>1, PushFacts, Zenon
<1>4. PA!Next
  BY <1>1, <1>2 DEF PA!Next, PA!Release
<1>5. TypeOK'
  BY <1>1, <1>2, <1>3 DEF PoolInv, TypeOK
<1>6. CASE Growing
  <2>1. s[1] \in Pages /\ s[1] \in Nat /\ FreeAbove(s, allocated, 1, s[1]) /\ Len(s) >= 1
    BY <1>6 DEF Growing, Pages
  <2>2. FreeAbove(Push(s, p), allocated \ {p}, 1, s[1])
    BY <1>1, <2>1, PushFree, Zenon
  <2>3. Push(s, p)[1] = s[1]
    BY <1>1, <1>3, <2>1
  <2>4. Growing'
    BY <1>1, <1>2, <1>3, <1>6, <2>1, <2>2, <2>3 DEF Growing
  <2> QED
    BY <1>4, <1>5, <2>4 DEF PoolInv
<1>7. CASE Grown
  <2> DEFINE b == Len(s) - numOfFreePages
  <2>1. b \in {0, 1} /\ b \in Nat /\ Len(s) >= b /\ FreeAbove(s, allocated, b, NumOfPages)
    BY <1>1, <1>7 DEF Grown
  <2>2. FreeAbove(Push(s, p), allocated \ {p}, b, NumOfPages)
    BY <1>1, <2>1, PushFree, Zenon
  <2>3. Len(nextFreePage') - numOfFreePages' = b
    BY <1>1, <1>2, <1>3
  <2> QED
    BY <1>2, <1>4, <1>5, <2>1, <2>2, <2>3 DEF PoolInv, Grown
<1> QED
  BY <1>6, <1>7 DEF PoolInv

\* The page manager implements the abstract allocator: for every pool size,
\* whole pages or not, PageMgr::get never hands out a page that is in use and
\* returns null only when all of them are.
THEOREM ImplementsAllocator == Spec => Allocates
<1> SUFFICES ASSUME NumOfPages \in Nat PROVE Spec => Allocates
  BY PoolAssumption
<1>1. Init => PoolInv /\ PA!Init
  BY PoolInit
<1>2. PoolInv /\ [Next]_vars => PoolInv' /\ [PA!Next]_PA!vars
  <2> SUFFICES ASSUME PoolInv, [Next]_vars PROVE PoolInv' /\ [PA!Next]_PA!vars
    OBVIOUS
  <2>1. CASE Next
    BY <2>1, GetStep, GetFailsStep, FreeStep DEF Next
  <2>2. CASE UNCHANGED vars
    BY <2>2 DEF vars, PA!vars, PoolInv, TypeOK, Growing, Grown
  <2> QED
    BY <2>1, <2>2
<1> QED
  BY <1>1, <1>2, PTL DEF Spec, Allocates, PA!Spec

-----------------------------------------------------------------------------
(* RdbLifecycle                                                             *)

\* The operations that opCount counts.
Counted == {t \in LifeThreads : lifePc[t] \in {"counted", "in"}}

\* opCount is their number, an open database has its objects, and, unless an operation was
\* begun on a database that was not open, those counted keep it open.
LifeInv ==
    /\ LifeTypeOK
    /\ opCount = Cardinality(Counted)
    /\ lifeOpened => live /\ hashTable # 0
    /\ ~misused =>
         /\ ~lifeAborted
         /\ Counted # {} => lifeOpened
         /\ \A t \in LifeThreads : lifePc[t] = "in" => guard[t] = hashTable

\* The invariant implies the property.
LEMMA LifeInvImplies ==
    ASSUME LifeInv
    PROVE  WorksOnLiveObjects
  BY DEF LifeInv, WorksOnLiveObjects, Counted, LifeTypeOK

\* The operations counted are finitely many, at most as many as there are threads.
LEMMA CountedFinite ==
    ASSUME LifecycleAssumption
    PROVE  /\ IsFiniteSet(Counted) /\ Cardinality(Counted) \in 0 .. Cardinality(LifeThreads)
           /\ Cardinality(Counted) = 0 <=> Counted = {}
<1>1. Counted \in SUBSET LifeThreads /\ IsFiniteSet(LifeThreads)
  BY DEF Counted, LifecycleAssumption
<1>2. IsFiniteSet(Counted) /\ Cardinality(Counted) <= Cardinality(LifeThreads)
  BY <1>1, FS_Subset
<1>3. Cardinality(Counted) \in Nat /\ Cardinality(LifeThreads) \in Nat
  BY <1>1, <1>2, FS_CardinalityType
<1> QED
  BY <1>2, <1>3, FS_EmptySet

\* A database that was never opened satisfies the invariant.
LEMMA LifeInitInv ==
    ASSUME LifecycleAssumption, LifeInit
    PROVE  LifeInv
<1>1. Counted = {}
  BY DEF Counted, LifeInit
<1>2. opCount = Cardinality(Counted) /\ opCount \in 0 .. Cardinality(LifeThreads)
  BY <1>1, CountedFinite, FS_EmptySet DEF LifeInit
<1>z. 0 \in 0 .. MaxOpens
  BY DEF LifecycleAssumption
<1>3. LifeTypeOK
  BY <1>2, <1>z, Zenon DEF LifeInit, LifeTypeOK
<1> QED
  BY <1>1, <1>2, <1>3 DEF LifeInit, LifeInv

\* open(), close() and the frame of get, set and remove preserve the invariant: close() finds
\* opCount = 0 and so no operation counted, and an operation that begins while the database is
\* open is counted before anything can close it.
LEMMA LifeStep ==
    ASSUME LifecycleAssumption, LifeInv, [LifeNext]_lifeVars
    PROVE  LifeInv'
<1> USE DEF LifeInv
<1>f. /\ IsFiniteSet(Counted) /\ Cardinality(Counted) \in 0 .. Cardinality(LifeThreads)
      /\ Cardinality(Counted) = 0 <=> Counted = {}
  BY CountedFinite
<1>g. /\ IsFiniteSet(Counted') /\ Cardinality(Counted') \in 0 .. Cardinality(LifeThreads)
      /\ Cardinality(Counted') = 0 <=> Counted' = {}
  <2>1. Counted' \in SUBSET LifeThreads /\ IsFiniteSet(LifeThreads)
    BY DEF Counted, LifecycleAssumption
  <2>2. IsFiniteSet(Counted') /\ Cardinality(Counted') <= Cardinality(LifeThreads)
    BY <2>1, FS_Subset
  <2>3. Cardinality(Counted') \in Nat /\ Cardinality(LifeThreads) \in Nat
    BY <2>1, <2>2, FS_CardinalityType
  <2> QED
    BY <2>2, <2>3, FS_EmptySet
<1>z. 0 \in 0 .. MaxOpens
  BY DEF LifecycleAssumption
<1>1. CASE open
  <2>1. Counted' = Counted
    BY <1>1 DEF open, Counted
  <2>2. ~misused => Counted = {}
    BY <1>1 DEF open
  <2>3. LifeTypeOK'
    BY <1>1 DEF open, LifeTypeOK, LifecycleAssumption
  <2> QED
    BY <1>1, <2>1, <2>2, <2>3 DEF open, Counted, LifeTypeOK
<1>2. CASE openFails
  <2>1. Counted' = Counted
    BY <1>2 DEF openFails, Counted
  <2>2. ~misused => Counted = {}
    BY <1>2 DEF openFails
  <2>3. LifeTypeOK'
    <3>1. made' \in 0 .. MaxOpens
        BY <1>2 DEF openFails, LifeTypeOK, LifecycleAssumption
    <3> QED
        BY <1>2, <3>1, Zenon DEF openFails, LifeTypeOK
  <2> QED
    BY <1>2, <2>1, <2>2, <2>3 DEF openFails, Counted, LifeTypeOK
<1>3. CASE close
  <2>1. Counted' = Counted /\ Counted = {}
    BY <1>3, <1>f DEF close, CanClose, Counted
  <2>2. LifeTypeOK'
    BY <1>3, <1>z, Zenon DEF close, CanClose, LifeTypeOK
  <2> QED
    BY <1>3, <2>1, <2>2 DEF close, CanClose, Counted, LifeTypeOK
<1>4. CASE closeTriesAgain \/ UNCHANGED lifeVars
  BY <1>4 DEF closeTriesAgain, lifeVars, LifeTypeOK, Counted
<1>5. ASSUME NEW t \in LifeThreads, OpBegin(t) PROVE LifeInv'
  <2>1. t \notin Counted /\ Counted' = Counted \cup {t}
    BY <1>5 DEF OpBegin, LifeGoto, Counted, LifeTypeOK
  <2>2. Cardinality(Counted') = opCount'
    BY <1>5, <1>f, <2>1, FS_AddElement DEF OpBegin
  <2>3. LifeTypeOK'
    BY <1>5, <1>g, <2>2 DEF OpBegin, LifeGoto, LifeTypeOK
  <2>4. ~misused' => ~misused /\ lifeOpened
    BY <1>5, Zenon DEF OpBegin, LifeTypeOK
  <2> QED
    BY <1>5, <2>2, <2>3, <2>4 DEF OpBegin, LifeGoto, LifeTypeOK
<1>6. ASSUME NEW t \in LifeThreads, OpLock(t) PROVE LifeInv'
  <2>1. Counted' = Counted /\ Counted # {}
    BY <1>6 DEF OpLock, LifeGoto, Counted, LifeTypeOK
  <2>2. LifeTypeOK'
    BY <1>6, Zenon DEF OpLock, LifeGoto, LifeTypeOK
  <2>3. ~misused => lifeOpened /\ hashTable # 0
    BY <2>1
  <2> QED
    BY <1>6, <2>1, <2>2, <2>3 DEF OpLock, LifeGoto, LifeTypeOK
<1>7. ASSUME NEW t \in LifeThreads, OpEnd(t) PROVE LifeInv'
  <2>1. t \in Counted /\ Counted' = Counted \ {t}
    BY <1>7 DEF OpEnd, LifeGoto, Counted, LifeTypeOK
  <2>2. Cardinality(Counted') = opCount'
    BY <1>7, <1>f, <2>1, FS_RemoveElement DEF OpEnd
  <2>3. LifeTypeOK'
    BY <1>7, <1>g, <2>2 DEF OpEnd, LifeGoto, LifeTypeOK
  <2> QED
    BY <1>7, <2>1, <2>2, <2>3 DEF OpEnd, LifeGoto, LifeTypeOK
<1>8. ASSUME NEW t \in LifeThreads, OpUnlock(t) PROVE LifeInv'
  <2>1. Counted' = Counted
    BY <1>8 DEF OpUnlock, LifeGoto, Counted, LifeTypeOK
  <2>2. LifeTypeOK'
    <3>1. dangling' \in BOOLEAN
        BY <1>8 DEF OpUnlock
    <3> QED
        BY <1>8, <1>z, <3>1 DEF OpUnlock, LifeGoto, LifeTypeOK
  <2> QED
    BY <1>8, <2>1, <2>2 DEF OpUnlock, LifeGoto, LifeTypeOK
<1> QED
  BY <1>1, <1>2, <1>3, <1>4, <1>5, <1>6, <1>7, <1>8, Zenon DEF LifeNext

\* An operation that is counted works on objects that no close() has deleted, and the ASSERT
\* of HTLockGuard holds, while every operation begins on an open database: for every number of
\* threads and every number of opens (Rdb::open, close, get, set, remove).
THEOREM OperationsKeepObjects ==
    LifecycleAssumption => (LifeSpec => []WorksOnLiveObjects)
<1> SUFFICES ASSUME LifecycleAssumption PROVE LifeSpec => []WorksOnLiveObjects
  OBVIOUS
<1>1. LifeInit => LifeInv
  BY LifeInitInv
<1>2. LifeInv /\ [LifeNext]_lifeVars => LifeInv'
  BY LifeStep
<1>3. LifeInv => WorksOnLiveObjects
  BY LifeInvImplies
<1> QED
  BY <1>1, <1>2, <1>3, PTL DEF LifeSpec
=============================================================================
