----------------------------- MODULE LogManager -----------------------------
(***************************************************************************)
(* snf::log::manager: threads log records while the program adds, removes  *)
(* and resets loggers.  The loggers are called under m_lock; the default   *)
(* logger, which is used while there is no other, is made, used and        *)
(* deleted without it, one access at a time.                               *)
(***************************************************************************)
EXTENDS Naturals, FiniteSets

CONSTANTS
    LogThreads,
    MaxLoggers,     \* bound: the loggers the program ever adds
    MaxRecords,     \* bound: the records logged
    Null

VARIABLES
    m_loggers,      \* the ids registered
    m_next_id,
    m_def_logger,   \* the object it points to, or Null
    objects,        \* the default loggers made so far
    freed,          \* the objects deleted: default loggers and removed loggers
    logPc,          \* of each thread: where it is; logger_cnt is in it
    records,        \* the records logged
    bad,            \* an object was used when it was deleted, or was Null
    upset           \* after the first record the loggers went from some to none or back

shared      == <<m_loggers, m_next_id>>
managerVars == <<shared, m_def_logger, objects, freed, logPc, records, bad, upset>>

Loggers  == 0 .. MaxLoggers - 1
Defaults == MaxLoggers .. MaxLoggers + MaxRecords - 1

ManagerAssumption ==
    /\ IsFiniteSet(LogThreads)
    /\ MaxLoggers \in Nat /\ MaxRecords \in Nat
    /\ Null \notin Loggers \cup Defaults

ManagerInit ==
    /\ m_loggers = {} /\ m_next_id = 0
    /\ m_def_logger = Null /\ objects = 0 /\ freed = {}
    /\ logPc = [t \in LogThreads |-> "idle"]
    /\ records = 0 /\ bad = {} /\ upset = FALSE

Goto(t, l) == logPc' = [logPc EXCEPT ![t] = l]

-----------------------------------------------------------------------------
(* log()                                                                    *)

\* the loop over m_loggers, under m_lock
CallLoggers(t) ==
    /\ logPc[t] = "idle" /\ records < MaxRecords
    /\ records' = records + 1
    /\ bad' = bad \cup (m_loggers \cap freed)
    /\ Goto(t, IF m_loggers = {} THEN "none" ELSE "some")
    /\ UNCHANGED <<shared, m_def_logger, objects, freed, upset>>

\* if (m_def_logger == nullptr)
TestDefault(t) ==
    /\ logPc[t] = "none"
    /\ Goto(t, IF m_def_logger = Null THEN "make" ELSE "use")
    /\ UNCHANGED <<shared, m_def_logger, objects, freed, records, bad, upset>>

\* m_def_logger = DBG_NEW console_logger
MakeDefault(t) ==
    /\ logPc[t] = "make"
    /\ objects' = objects + 1
    /\ m_def_logger' = MaxLoggers + objects
    /\ Goto(t, "use")
    /\ UNCHANGED <<shared, freed, records, bad, upset>>

\* m_def_logger->log(rec)
UseDefault(t) ==
    /\ logPc[t] = "use"
    /\ bad' = bad \cup ({m_def_logger} \cap (freed \cup {Null}))
    /\ Goto(t, "idle")
    /\ UNCHANGED <<shared, m_def_logger, objects, freed, records, upset>>

\* else if (m_def_logger)
TestDelete(t) ==
    /\ logPc[t] = "some"
    /\ Goto(t, IF m_def_logger = Null THEN "idle" ELSE "delete")
    /\ UNCHANGED <<shared, m_def_logger, objects, freed, records, bad, upset>>

\* delete m_def_logger
DeleteDefault(t) ==
    /\ logPc[t] = "delete"
    /\ bad' = bad \cup ({m_def_logger} \cap freed)
    /\ freed' = freed \cup ({m_def_logger} \ {Null})
    /\ Goto(t, "clear")
    /\ UNCHANGED <<shared, m_def_logger, objects, records, upset>>

\* m_def_logger = nullptr
ClearDefault(t) ==
    /\ logPc[t] = "clear"
    /\ m_def_logger' = Null
    /\ Goto(t, "idle")
    /\ UNCHANGED <<shared, objects, freed, records, bad, upset>>

-----------------------------------------------------------------------------
(* The program                                                              *)

\* add_logger(), and the add_logger() of load()
AddLogger ==
    /\ m_next_id < MaxLoggers
    /\ m_next_id' = m_next_id + 1
    /\ m_loggers' = m_loggers \cup {m_next_id}
    /\ upset' = (upset \/ (records > 0 /\ m_loggers = {}))
    /\ UNCHANGED <<m_def_logger, objects, freed, logPc, records, bad>>

\* a remove_logger() that takes the id for the number of loggers added before
RemoveNext(id) ==
    /\ id \in m_loggers
    /\ m_loggers' = m_loggers \ {id + 1}
    /\ freed' = freed \cup {id}
    /\ UNCHANGED <<m_next_id, m_def_logger, objects, logPc, records, bad, upset>>

\* remove_logger(), after which the program deletes the logger: the manager does not
RemoveLogger(id) ==
    /\ id \in m_loggers
    /\ m_loggers' = m_loggers \ {id}
    /\ freed' = freed \cup {id}
    /\ upset' = (upset \/ (records > 0 /\ m_loggers = {id}))
    /\ UNCHANGED <<m_next_id, m_def_logger, objects, logPc, records, bad>>

\* reset(): the loggers are called under m_lock
ResetAll ==
    /\ bad' = bad \cup (m_loggers \cap freed)
    /\ UNCHANGED <<shared, m_def_logger, objects, freed, logPc, records, upset>>

ManagerNext ==
    \/ AddLogger \/ ResetAll
    \/ \E id \in Loggers : RemoveLogger(id)
    \/ \E t \in LogThreads :
        \/ CallLoggers(t) \/ TestDefault(t) \/ MakeDefault(t) \/ UseDefault(t)
        \/ TestDelete(t) \/ DeleteDefault(t) \/ ClearDefault(t)

ManagerSpec == ManagerInit /\ [][ManagerNext]_managerVars

-----------------------------------------------------------------------------
(* Properties                                                               *)

ManagerTypeOK ==
    /\ m_loggers \subseteq 0 .. m_next_id - 1 /\ m_next_id \in 0 .. MaxLoggers
    /\ m_def_logger \in Defaults \cup {Null} /\ objects \in 0 .. MaxRecords
    /\ freed \subseteq Loggers \cup Defaults
    /\ logPc \in [LogThreads -> {"idle", "none", "some", "make", "use", "delete", "clear"}]
    /\ records \in 0 .. MaxRecords
    /\ bad \subseteq Loggers \cup Defaults \cup {Null}

\* A logger the program removed and deleted is never called again (log() and reset()
\* call loggers under m_lock), and a default logger is used after it was deleted only
\* when the program, after the first record, added a first or removed a last logger.
LoggersAlive ==
    /\ ManagerTypeOK
    /\ bad \cap Loggers = {}
    /\ bad # {} => upset
=============================================================================
