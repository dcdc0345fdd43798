----------------------------- MODULE FileLogger -----------------------------
(***************************************************************************)
(* file_logger of liblog: the threads of a process log to one file, which  *)
(* is rotated daily or by its size; old files are purged when a file is    *)
(* opened.  A record is stamped when it is built and logged later, under   *)
(* m_file_lock, so records of two threads may be logged out of order.      *)
(*                                                                         *)
(* A file name is what the name format makes of it: a date if the format   *)
(* has %D, a sequence number if it has %N.  Every record has length 1.     *)
(* A file keeps its size and the second it was last written in, the way    *)
(* f_mtime does.                                                           *)
(***************************************************************************)
EXTENDS Naturals, FiniteSets, FiniteSetsExt, Functions

CONSTANTS
    Threads,
    RotationSize,   \* the size of the rotation scheme
    Argument,       \* the argument of the retention scheme
    SeqLimit,       \* the least sequence number of more than six digits
    DayLen,         \* the seconds of a day
    MonthLen,       \* the days of a month
    MaxClock,       \* bound: the seconds that pass
    MaxRecords,     \* bound: the records logged
    NoFile, NoRecord

VARIABLES
    conf,           \* what load() found in the configuration
    dir,            \* whether m_path exists
    files,          \* the log files: their size and f_mtime
    clock,
    m,              \* the members of the logger
    rec,            \* of each thread: the time stamp of its record
    made,           \* the records built so far
    tied,           \* an open() chose among files last written in one second
    late            \* a record was logged after one of a later day

vars == <<conf, dir, files, clock, m, rec, made, tied, late>>

Day(t) == t \div DayLen

\* rotation::string_to_scheme, retention::string_to_scheme, get_rotation and
\* get_retention: the schemes, for names that have the fields the rotation needs
Confs ==
    {c \in [rotation : SUBSET {"daily", "by_size"},
            retention : {"all", "last_n_files", "last_n_days"},
            format : SUBSET {"D", "N"}] :
        /\ "daily" \in c.rotation => "D" \in c.format
        /\ "by_size" \in c.rotation => "N" \in c.format}

NewLogger == [open |-> FALSE, name |-> NoFile, size |-> 0, seqno |-> 0, last_day |-> 0]

Init ==
    /\ conf \in Confs
    /\ dir \in BOOLEAN
    /\ files = << >>
    /\ clock = DayLen - 1
    /\ m = NewLogger
    /\ rec = [t \in Threads |-> NoRecord]
    /\ made = 0 /\ tied = FALSE /\ late = FALSE

-----------------------------------------------------------------------------
(* Names, and which of them the pattern of the directory matches            *)

\* name(lt): the fields the format has
Name(seqno, ts) ==
    [date |-> IF "D" \in conf.format THEN Day(ts) ELSE 0,
     seq  |-> IF "N" \in conf.format THEN seqno ELSE 0]

\* regex_pattern(): eight digits and six digits
Matching(fs) == {f \in DOMAIN fs : f.seq < SeqLimit}

rotate_daily(day) == "daily" \in conf.rotation /\ day % MonthLen # m.last_day

rotate_by_size(size) == "by_size" \in conf.rotation /\ size > RotationSize

\* name(fa, lt): the newest file if it can be used again
NameAfter(fa, ts) ==
    CASE fa = NoFile ->
            [m EXCEPT !.name = Name(m.seqno, ts)]
      [] fa # NoFile /\ "D" \in conf.format /\ fa.date # Day(ts) ->
            [m EXCEPT !.seqno = 0, !.name = Name(0, ts)]
      [] fa # NoFile /\ fa.date = Name(0, ts).date /\ "N" \in conf.format
                     /\ rotate_by_size(files[fa].size) ->
            [m EXCEPT !.seqno = fa.seq + 1, !.name = Name(fa.seq + 1, ts)]
      [] OTHER ->
            [m EXCEPT !.seqno = IF "N" \in conf.format THEN fa.seq ELSE @,
                      !.size = files[fa].size, !.name = fa]

-----------------------------------------------------------------------------
(* Opening, purging, rotating                                               *)

\* the files of the directory that open(lt) may find newest
Newest ==
    {f \in Matching(files) : \A g \in Matching(files) : files[f].mtime >= files[g].mtime}

\* a purge that keeps the files written longest ago
PurgeNewest ==
    {Restrict(files, kept) : kept \in
        {K \in SUBSET DOMAIN files :
            conf.retention = "last_n_files" =>
                /\ Cardinality(K) <= Argument
                /\ \A f \in K, g \in DOMAIN files \ K : files[f].mtime <= files[g].mtime}}

\* a purge that counts the file to be opened
PurgeOneMore ==
    {Restrict(files, kept) : kept \in
        IF conf.retention = "last_n_files"
        THEN {K \in SUBSET DOMAIN files : Cardinality(K) <= Argument + 1}
        ELSE {DOMAIN files}}

\* purge(): what is left.  The sort leaves files of the same second in any order.
purge ==
    LET old  == Matching(files)
        N    == IF Cardinality(old) < Argument THEN Cardinality(old) ELSE Argument
        left(K) == Restrict(files, (DOMAIN files \ old) \cup K)
    IN  CASE conf.retention = "last_n_files" ->
                {left(K) : K \in {S \in SUBSET old :
                    /\ Cardinality(S) = N
                    /\ \A f \in S, g \in old \ S : files[f].mtime >= files[g].mtime}}
          [] conf.retention = "last_n_days" ->
                {left({f \in old : files[f].mtime + Argument * DayLen >= clock})}
          [] OTHER -> {files}

\* open(): append to the file, made if there is none
OpenFile(fs, name) ==
    IF name \in DOMAIN fs THEN fs
    ELSE [f \in DOMAIN fs \cup {name} |->
            IF f = name THEN [size |-> 0, mtime |-> clock] ELSE fs[f]]

\* open() of lg with ts in hand, and then the write of log()
OpenAndWrite(lg, fs, ts) ==
    \/ /\ m' = [lg EXCEPT !.open = FALSE]                     \* open() fails
       /\ files' = fs
    \/ \E opened \in {[lg EXCEPT !.open = TRUE, !.last_day = Day(ts) % MonthLen]} :
       \/ /\ m' = [opened EXCEPT !.size = @ + 1]
          /\ files' = [OpenFile(fs, lg.name) EXCEPT
                         ![lg.name] = [size |-> @.size + 1, mtime |-> clock]]
       \/ /\ m' = opened                                      \* write() fails
          /\ files' = OpenFile(fs, lg.name)

\* open(lt)
Open(ts) ==
    \E fa \in IF Matching(files) = {} THEN {NoFile} ELSE Newest :
    \E lg \in {NameAfter(fa, ts)}, fs \in purge :
        /\ tied' = (tied \/ Cardinality(Newest) > 1)
        /\ OpenAndWrite(lg, fs, ts)

\* rotate(lt) when it does not rotate: the write of log() follows
Append(ts) ==
    \/ /\ m' = [m EXCEPT !.size = @ + 1]
       /\ files' = [files EXCEPT ![m.name] = [size |-> @.size + 1, mtime |-> clock]]
    \/ UNCHANGED <<m, files>>                                 \* write() fails

\* a rotate() that does not look at the day
RotateBySize(ts) ==
    /\ tied' = tied
    /\ IF rotate_by_size(m.size)
       THEN \E fs \in purge :
                OpenAndWrite([m EXCEPT !.open = FALSE, !.size = 0, !.seqno = @ + 1,
                                       !.name = Name(m.seqno + 1, ts)], fs, ts)
       ELSE Append(ts)

\* a rotate() that forgets to count on
RotateSameName(ts) ==
    /\ tied' = tied
    /\ IF rotate_by_size(m.size)
       THEN \E fs \in purge :
                OpenAndWrite([m EXCEPT !.open = FALSE, !.size = 0], fs, ts)
       ELSE Append(ts)

\* rotate(lt): close the file and open the next one
Rotate(ts) ==
    /\ tied' = tied
    /\ IF rotate_daily(Day(ts)) \/ rotate_by_size(m.size)
       THEN \E seqno \in {IF rotate_daily(Day(ts)) THEN 0 ELSE m.seqno + 1} :
            \E fs \in purge :
                OpenAndWrite([m EXCEPT !.open = FALSE, !.size = 0, !.seqno = seqno,
                                       !.name = Name(seqno, ts)], fs, ts)
       ELSE Append(ts)

-----------------------------------------------------------------------------
(* The calls                                                                *)

Tick ==
    /\ clock < MaxClock
    /\ clock' = clock + 1
    /\ UNCHANGED <<conf, dir, files, m, rec, made, tied, late>>

\* record::init(): the time stamp of the record
MakeRecord(t) ==
    /\ rec[t] = NoRecord /\ made < MaxRecords
    /\ rec' = [rec EXCEPT ![t] = clock]
    /\ made' = made + 1
    /\ UNCHANGED <<conf, dir, files, clock, m, tied, late>>

\* log() of a record severe enough to be logged
Log(t) ==
    /\ rec[t] # NoRecord
    /\ rec' = [rec EXCEPT ![t] = NoRecord]
    /\ late' = (late \/ (m.name # NoFile /\ m.name.date > Day(rec[t])))
    /\ IF m.open
       THEN Rotate(rec[t]) /\ dir' = dir
       ELSE \/ ~dir /\ UNCHANGED <<dir, files, m, tied>>     \* mkdir() not wanted, or fails
            \/ dir' = TRUE /\ Open(rec[t])                   \* it is there, or was made
    /\ UNCHANGED <<conf, clock, made>>

\* reset(), of manager::reset() after a fork
Reset ==
    /\ m.open
    /\ m' = [m EXCEPT !.open = FALSE, !.size = 0]
    /\ UNCHANGED <<conf, dir, files, clock, rec, made, tied, late>>

\* the process ends and another starts with the same configuration
Restart ==
    /\ m # NewLogger
    /\ m' = NewLogger
    /\ rec' = [t \in Threads |-> NoRecord]
    /\ UNCHANGED <<conf, dir, files, clock, made, tied, late>>

Next == Tick \/ Reset \/ Restart \/ \E t \in Threads : MakeRecord(t) \/ Log(t)

Spec == Init /\ [][Next]_vars

-----------------------------------------------------------------------------
(* Properties                                                               *)

Names == [date : 0 .. MaxClock \div DayLen, seq : 0 .. MaxRecords]

TypeOK ==
    /\ conf \in Confs /\ dir \in BOOLEAN
    /\ DOMAIN files \subseteq Names
    /\ \A f \in DOMAIN files : files[f].size \in 0 .. MaxRecords /\ files[f].mtime \in 0 .. MaxClock
    /\ clock \in 0 .. MaxClock
    /\ m.open \in BOOLEAN /\ m.name \in Names \cup {NoFile} /\ m.seqno \in 0 .. MaxRecords
    /\ m.size \in 0 .. MaxRecords /\ m.last_day \in 0 .. MonthLen - 1
    /\ rec \in [Threads -> 0 .. MaxClock \cup {NoRecord}]
    /\ made \in 0 .. MaxRecords /\ tied \in BOOLEAN /\ late \in BOOLEAN

\* No log file outgrows the rotation size by more than the record that crossed it.
\* "The sole purpose it to keep the log file size under control" (flogger.h:15).
SizeUnderControl ==
    "by_size" \in conf.rotation =>
        \A f \in DOMAIN files : files[f].size <= RotationSize + 1

\* Through rotations, failed opens, resets and restarts a log file never outgrows
\* the rotation size by more than one record, as long as no record was logged after
\* one of a later day and open(lt) never met two newest files of the same second.
SizeUnderControlInOrder == ~tied /\ ~late => SizeUnderControl

\* With last_n_files there are never more files than the purge keeps and the one
\* opened after it, whatever opens and writes failed (purge runs before open()).
FilesBounded ==
    conf.retention = "last_n_files" =>
        Cardinality(Matching(files)) <= Argument + 1

\* A file that was written in a later second than every other one survives every
\* purge that counts files: the newest records are never the ones removed.
NewestSurvives ==
    [][conf.retention = "last_n_files" =>
        \A f \in Matching(files) :
            (\A g \in Matching(files) \ {f} : files[g].mtime < files[f].mtime)
                => f \in DOMAIN files']_vars

\* the file is open since the same day of another month: rotate_daily, which looks
\* at the day of the month, does not see that the day has changed
SameDayOfMonth(ts) ==
    m.open /\ m.name.date # Day(ts) /\ m.name.date % MonthLen = Day(ts) % MonthLen

\* With daily rotation a record lands in a file of its own day, even when it is
\* logged after records of the next day (rotate_daily, name), but for one case: the
\* open file is of the same day of another month and nothing was logged since.
\* Then the record is appended to that file, unless its size makes it rotate.
LandsInItsDay ==
    [][\A t \in Threads :
        (Log(t) /\ "daily" \in conf.rotation /\ files' # files /\ m'.open)
            => \/ m'.name.date = Day(rec[t])
               \/ SameDayOfMonth(rec[t]) /\ m'.name = m.name]_vars

=============================================================================
