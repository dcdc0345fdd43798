------------------------------- MODULE MCSystem -------------------------------
(***************************************************************************)
(* The lock table, the two halves of liblog, the sockets and connections   *)
(* of libnet and the router of the HTTP server, each on its own instance.  *)
(* They share no state, so one run checks them all: a behaviour is one of  *)
(* the part that is chosen at first, while the others stay where they      *)
(* begin.                                                                  *)
(***************************************************************************)
EXTENDS HashTable, LogManager, TLC

CONSTANTS
    RotationSize, Argument, SeqLimit, DayLen, MonthLen, MaxClock,    \* of FileLogger
    MaxFileRecords, NoFile, NoRecord,
    Objs, Fds, Garbage,                                              \* of Socket
    Conns, Tls, Contexts, MaxContexts, MaxBytes,                     \* of Connection
    Literals, Regexes, MaxDepth, MaxAdds, Invalid                    \* of Router

VARIABLES
    part,
    conf, dir, files, clock, m, rec, made, tied, late,
    obj, krn, raw, opt, sockLast, lost, sockBotched,
    conn, tls, arg, io, botched, twice,
    m_root, added, last

File == INSTANCE FileLogger WITH Threads <- LogThreads, MaxRecords <- MaxFileRecords
Sock == INSTANCE Socket WITH last <- sockLast, botched <- sockBotched
Cnxn == INSTANCE Connection
Routes == INSTANCE Router

ASSUME SystemAssumption ==
    /\ {RotationSize, Argument, SeqLimit, DayLen, MonthLen} \subseteq Nat \ {0}
    /\ ManagerAssumption
    /\ 0 \notin Fds /\ Garbage \in Nat
    /\ {MaxDepth, MaxAdds} \subseteq Nat /\ Invalid \notin Literals \cup Regexes

fileVars    == <<conf, dir, files, clock, m, rec, made, tied, late>>
sockVars    == <<obj, krn, raw, opt, sockLast, lost, sockBotched>>
cnxnVars    == <<conn, tls, arg, io, botched, twice>>
routesVars  == <<m_root, added, last>>
systemVars  == <<part, vars, fileVars, managerVars, sockVars, cnxnVars, routesVars>>

\* the part starts in any of its initial states, the others in one
Parts == {"locks", "file", "manager", "sock", "cnxn", "routes"}
SystemInit ==
    /\ part \in Parts
    /\ Init /\ ManagerInit /\ Cnxn!Init /\ Routes!Init /\ File!Init /\ Sock!Init
    /\ part # "file" => conf = (CHOOSE cf \in File!Confs : TRUE) /\ dir
    /\ part # "sock" => opt.name = CHOOSE n \in Sock!Options : TRUE

SystemNext ==
    /\ \/ part = "locks" /\ Next /\ UNCHANGED <<fileVars, managerVars, sockVars, cnxnVars, routesVars>>
       \/ part = "file" /\ File!Next /\ UNCHANGED <<vars, managerVars, sockVars, cnxnVars, routesVars>>
       \/ part = "manager" /\ ManagerNext /\ UNCHANGED <<vars, fileVars, sockVars, cnxnVars, routesVars>>
       \/ part = "sock" /\ Sock!Next /\ UNCHANGED <<vars, fileVars, managerVars, cnxnVars, routesVars>>
       \/ part = "cnxn" /\ Cnxn!Next /\ UNCHANGED <<vars, fileVars, managerVars, sockVars, routesVars>>
       \/ part = "routes" /\ Routes!Next /\ UNCHANGED <<vars, fileVars, managerVars, sockVars, cnxnVars>>
    /\ UNCHANGED part

SystemSpec == SystemInit /\ [][SystemNext]_systemVars

\* connections are alike, and so are contexts; the threads that log and the socket objects are
\* the same model values as the connections: no behaviour has two of the three
Alike == Permutations(Conns) \cup Permutations(Contexts)

-----------------------------------------------------------------------------
\* With last_n_files there are never more log files than the purge keeps and the one opened
\* after it, whatever opens and writes failed; and through rotations, failed opens, resets and
\* restarts none outgrows the rotation size by more than a record, unless a record was logged
\* after one of a later day or two newest files were of the same second (file_logger::purge,
\* open, rotate).
LogFilesBounded == part = "file" => File!TypeOK /\ File!FilesBounded /\ File!SizeUnderControlInOrder

\* The newest log file survives every purge that counts files; and with daily rotation a
\* record lands in a file of its own day, unless the open file is of the same day of another
\* month, which is used on (file_logger::purge, rotate_daily, name).
RotationKeepsRecords == File!NewestSurvives /\ File!LandsInItsDay

\* No descriptor has two objects that will close it, none is closed that is not open, and an
\* open one is known to an object or the caller unless it was lost in one of three ways; an
\* option reads back as it was set, but for the seconds of short time-outs (socket's
\* constructors, operator=, close, linger, rcvtimeout).
SocketsSound == part = "sock" => Sock!ClosedOnce /\ Sock!LostOnlyWhere /\ Sock!OptionReadsBack

\* connect(), readn() and writen() leave the blocking mode as they found it, on success and on
\* error, unless fcntl() itself fails, or the getsockopt() that asks why a connection in
\* progress failed (socket::connect, readn, writen).
ModeRestored == Sock!ModeRestored

\* At most one context of a connection is flagged current, and it is the one in use; no SSL
\* object is deleted twice or shared; readn() and writen() succeed only when every byte was
\* transferred or the peer closed (connection::switch_context, operator=, readn, writen).
ConnectionsSound == part = "cnxn" => Cnxn!CurrentInUse /\ Cnxn!TlsOwnedOnce /\ Cnxn!BytesCounted

\* A request is answered from the first route of its path, literals win over parameters, and
\* it gets the parameters of its route unless the search had to back out of a segment
\* (request_router::add, handle).
RoutesAsAdded == part = "routes" => Routes!RoutesToFirst /\ Routes!LiteralsWin /\ Routes!ParamsOfRoute
=============================================================================
