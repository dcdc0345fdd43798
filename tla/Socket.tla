------------------------------- MODULE Socket -------------------------------
(***************************************************************************)
(* The socket class (libnet/src/sock.cpp): objects that own a descriptor   *)
(* of the kernel, their construction, moves, close() and destruction, the  *)
(* blocking mode that connect(), readn() and writen() change and restore,  *)
(* and the socket options.  One thread uses the objects; the kernel may    *)
(* fail any call.  Some behaviours follow one option of one socket, the    *)
(* others the life of the objects: the two do not influence each other.    *)
(***************************************************************************)
EXTENDS Integers, FiniteSets

CONSTANTS
    Objs,          \* socket objects, alive or not
    Fds,           \* descriptors of the kernel
    Garbage        \* seconds in a timeval that was not initialised

INVALID_SOCKET == 0

VARIABLES
    obj,           \* the objects: whether they are alive, m_sock and m_skip_close
    krn,           \* the descriptors: open, in blocking mode
    raw,           \* descriptors the program holds without an object
    opt,           \* the option followed: its name, what the kernel keeps, what was set
    last,          \* the last call: how it ended and, of one that may switch the mode, which
    lost,          \* history: open descriptors no object and no caller knows
    botched        \* history: an object kept a descriptor whose close() failed

vars == <<obj, krn, raw, opt, last, lost, botched>>

-----------------------------------------------------------------------------
Dead == [alive |-> FALSE, m_sock |-> INVALID_SOCKET, m_skip_close |-> FALSE]
Owner(fd) == [alive |-> TRUE, m_sock |-> fd, m_skip_close |-> FALSE]
Closed == [open |-> FALSE, blocking |-> TRUE]
Opened == [Closed EXCEPT !.open = TRUE]

Free == {fd \in Fds : ~krn[fd].open}
Alive == {o \in Objs : obj[o].alive}
Live == {o \in Alive : obj[o].m_sock # INVALID_SOCKET /\ krn[obj[o].m_sock].open}

Options == {"keepalive", "reuseaddr", "tcpnodelay", "linger", "rcvtimeo", "sndtimeo"}

Init ==
    /\ obj = [o \in Objs |-> Dead] /\ krn = [fd \in Fds |-> Closed]
    /\ raw = {} /\ lost = {} /\ botched = FALSE
    /\ opt \in [name : Options \cup {"none"}, kept : {<<0, 0>>}, set : {<<>>}]
    /\ last = [call |-> "none", fd |-> INVALID_SOCKET, end |-> "ok"]

Did(call, fd, end) ==
    /\ last.end \notin {"terminate", "crash"}
    /\ last' = [call |-> call, fd |-> fd, end |-> end]

\* A call that is not meant to touch the blocking mode for a while.
Ended(end) == Did("other", INVALID_SOCKET, end)

-----------------------------------------------------------------------------
\* socket(family, type): a new descriptor, or an exception and no object.
Create(o) ==
    /\ ~obj[o].alive
    /\ \/ /\ Ended("throw")
          /\ UNCHANGED <<obj, krn>>
       \/ \E fd \in Free :
             /\ Ended("ok")
             /\ krn' = [krn EXCEPT ![fd] = Opened]
             /\ obj' = [obj EXCEPT ![o] = Owner(fd)]
    /\ UNCHANGED <<raw, opt, lost, botched>>

\* A descriptor the program gets from elsewhere.
Obtain ==
    /\ \E fd \in Free :
          /\ Ended("ok")
          /\ krn' = [krn EXCEPT ![fd] = Opened]
          /\ raw' = raw \cup {fd}
    /\ UNCHANGED <<obj, opt, lost, botched>>

\* socket(sock_t, skip_close): when the type cannot be read or is neither stream nor
\* datagram the constructor throws, and its caller keeps the raw descriptor.  A caller
\* does not wrap a descriptor that an object has already.
FromRaw(o) ==
    /\ ~obj[o].alive
    /\ \E fd \in raw \ {obj[p].m_sock : p \in Alive}, skip \in BOOLEAN :
          \/ /\ Ended("throw") /\ UNCHANGED <<obj, raw>>
          \/ /\ Ended("ok")
             /\ obj' = [obj EXCEPT ![o] = [Owner(fd) EXCEPT !.m_skip_close = skip]]
             /\ raw' = IF skip THEN raw ELSE raw \ {fd}
    /\ UNCHANGED <<krn, opt, lost, botched>>

\* accept(): the new descriptor is lost when the constructor called with it throws.
Accept(o, listener) ==
    /\ ~obj[o].alive /\ listener \in Live
    /\ \/ /\ Ended("throw")
          /\ UNCHANGED <<obj, krn, lost>>
       \/ \E fd \in Free :
             /\ krn' = [krn EXCEPT ![fd] = Opened]
             /\ \/ /\ Ended("ok")
                   /\ obj' = [obj EXCEPT ![o] = Owner(fd)] /\ UNCHANGED lost
                \/ /\ Ended("throw")
                   /\ lost' = lost \cup {fd} /\ UNCHANGED obj
    /\ UNCHANGED <<raw, opt, botched>>

\* socketpair(): when the constructor of the second object throws, the first object is
\* destroyed and closes its descriptor; the second descriptor is lost.  When the
\* constructor of the first throws, both are.
SocketPair(o, p) ==
    /\ o # p /\ ~obj[o].alive /\ ~obj[p].alive
    /\ \E a, b \in Free :
          \/ /\ a # b /\ Ended("ok")
             /\ krn' = [krn EXCEPT ![a] = Opened, ![b] = Opened]
             /\ obj' = [obj EXCEPT ![o] = Owner(a), ![p] = Owner(b)]
             /\ UNCHANGED lost
          \/ /\ a # b /\ Ended("throw") /\ UNCHANGED obj
             /\ \E left \in {{b}, {a, b}} :
                   /\ krn' = [fd \in Fds |-> IF fd \in left THEN Opened ELSE krn[fd]]
                   /\ lost' = lost \cup left
    /\ UNCHANGED <<raw, opt, botched>>

\* Mutant: the moved-from object keeps its descriptor.
MovedFromKeeps(s) == obj[s]

\* What a moved-from object is left with.
MovedFrom(s) == [obj[s] EXCEPT !.m_sock = INVALID_SOCKET]

\* socket(socket &&).
MoveConstruct(o, s) ==
    /\ ~obj[o].alive /\ s \in Alive
    /\ Ended("ok")
    /\ obj' = [obj EXCEPT ![o] = obj[s], ![s] = MovedFrom(s)]
    /\ UNCHANGED <<krn, raw, opt, lost, botched>>

\* Descriptors of the kernel that nothing would name once object o names s's.
Dropped(o) ==
    {obj[o].m_sock} \ (raw \cup {obj[p].m_sock : p \in Alive \ {o}} \cup Free \cup {INVALID_SOCKET})

\* operator=(socket &&) takes the descriptor over without closing its own.
MoveAssign(o, s) ==
    /\ o \in Alive /\ s \in Alive \ {o}
    /\ Ended("ok")
    /\ lost' = lost \cup Dropped(o)
    /\ obj' = [obj EXCEPT ![o] = obj[s], ![s] = MovedFrom(s)]
    /\ UNCHANGED <<krn, raw, opt, botched>>

\* close() of a descriptor: it may fail, and the kernel may have released the descriptor
\* all the same; a descriptor that is not open always fails.
KernelClose(fd, ok) ==
    \/ /\ ok /\ krn[fd].open
       /\ krn' = [krn EXCEPT ![fd] = Closed]
       /\ raw' = raw \ {fd} /\ lost' = lost \ {fd}
    \/ ~ok /\ UNCHANGED <<krn, raw, lost>>
    \/ /\ ~ok /\ krn[fd].open
       /\ krn' = [krn EXCEPT ![fd] = Closed]
       /\ raw' = raw \ {fd} /\ lost' = lost \ {fd}

\* Mutant: m_sock is forgotten whether or not the call succeeds.
CloseForgets(o) ==
    /\ o \in Alive /\ obj[o].m_sock # INVALID_SOCKET
    /\ \E ok \in BOOLEAN :
          /\ Ended(IF ok THEN "ok" ELSE "throw")
          /\ KernelClose(obj[o].m_sock, ok)
    /\ obj' = [obj EXCEPT ![o].m_sock = INVALID_SOCKET]
    /\ UNCHANGED <<opt, botched>>

\* close(): m_sock is forgotten only when the call succeeds.
Close(o) ==
    /\ o \in Alive
    /\ IF obj[o].m_sock = INVALID_SOCKET
       THEN Ended("ok") /\ UNCHANGED <<obj, krn, raw, lost, botched>>
       ELSE \E ok \in BOOLEAN :
              /\ Ended(IF ok THEN "ok" ELSE "throw")
              /\ KernelClose(obj[o].m_sock, ok)
              /\ obj' = IF ok THEN [obj EXCEPT ![o].m_sock = INVALID_SOCKET] ELSE obj
              /\ botched' = (botched \/ ~ok)
    /\ UNCHANGED opt

\* ~socket(): close() unless m_skip_close; an exception out of a destructor terminates the
\* program.  With m_skip_close the descriptor stays with the caller.
Destroy(o) ==
    /\ o \in Alive
    /\ IF obj[o].m_skip_close \/ obj[o].m_sock = INVALID_SOCKET
       THEN /\ Ended("ok") /\ obj' = [obj EXCEPT ![o] = Dead]
            /\ UNCHANGED <<krn, raw, lost, botched>>
       ELSE \E ok \in BOOLEAN :
              /\ Ended(IF ok THEN "ok" ELSE "terminate")
              /\ KernelClose(obj[o].m_sock, ok)
              /\ obj' = IF ok THEN [obj EXCEPT ![o] = Dead] ELSE obj
              /\ botched' = (botched \/ ~ok)
    /\ UNCHANGED opt

-----------------------------------------------------------------------------
\* blocking(bool): fcntl twice; a call that changes nothing only reads the flags.
SetBlocking(o) ==
    /\ o \in Live
    /\ \E blk \in BOOLEAN, ok \in BOOLEAN :
          /\ Ended(IF ok THEN "ok" ELSE "sys")
          /\ krn' = [krn EXCEPT ![obj[o].m_sock].blocking = IF ok THEN blk ELSE @]
    /\ UNCHANGED <<obj, raw, opt, lost, botched>>

\* Mutant: an error path returns before the mode is restored.
SwitchedOnError(blk, timed, end) ==
    {[blocking |-> IF end = "ok" THEN blk ELSE blk /\ ~timed, end |-> end]}

\* Outcomes of a call that may switch the socket to non-blocking for its time-out: the
\* mode it leaves, and how it ends when `end` is its own outcome.  A failing fcntl throws,
\* either before anything is changed or when the mode should be restored.
restored(blk, timed, end) ==
    {[blocking |-> blk, end |-> end]} \cup
    (IF blk /\ timed THEN {[blocking |-> TRUE, end |-> "sys"], [blocking |-> FALSE, end |-> "sys"]}
     ELSE {})

\* How ::connect() and the poll() after it can go.  "now": connected at once; "refused": an
\* error other than in-progress; "later": in progress, then writable without error;
\* "failed": in progress, then an error or a time-out; "unknown": in progress, then
\* POLLERR, and error() cannot read SO_ERROR and throws.
Attempts == {"now", "refused", "later", "failed", "unknown"}

\* connect(): on a blocking socket every failure throws.  On a non-blocking one only an
\* attempt that is in progress is followed up; any other error is passed over.
connect_end(nonblocking, attempt) ==
    IF attempt = "failed" \/ (attempt = "refused" /\ ~nonblocking) THEN "connect" ELSE "ok"

\* The mode connect() leaves and how it ends: an exception of error() passes by the code
\* that restores the mode.
connected(blk, timed, attempt) ==
    IF attempt = "unknown" THEN {[blocking |-> blk /\ ~timed, end |-> "sockopt"]}
    ELSE restored(blk, timed, connect_end(timed \/ ~blk, attempt))

Connect(o) ==
    /\ o \in Live
    /\ LET fd == obj[o].m_sock IN
       \E timed \in BOOLEAN, attempt \in Attempts :
       \E out \in connected(krn[fd].blocking, timed, attempt) :
          /\ attempt \in {"later", "failed", "unknown"} => timed \/ ~krn[fd].blocking
          /\ Did("connect", fd, out.end)
          /\ krn' = [krn EXCEPT ![fd].blocking = out.blocking]
    /\ UNCHANGED <<obj, raw, opt, lost, botched>>

\* readn() and writen(): the loop is done with everything transferred or at end of file, or
\* ends on an error.  When a non-blocking socket is not ready in time, *oserr is read, which
\* is the null pointer by default: the program crashes.
Transfer(o) ==
    /\ o \in Live
    /\ LET fd == obj[o].m_sock IN
       \E timed \in BOOLEAN, end \in {"ok", "error", "not_ready", "crash"} :
          /\ end \in {"not_ready", "crash"} => timed \/ ~krn[fd].blocking
          /\ \/ end = "crash" /\ Did("transfer", fd, end) /\ UNCHANGED krn
             \/ /\ end # "crash"
                /\ \E out \in restored(krn[fd].blocking, timed, end) :
                      /\ Did("transfer", fd, out.end)
                      /\ krn' = [krn EXCEPT ![fd].blocking = out.blocking]
    /\ UNCHANGED <<obj, raw, opt, lost, botched>>

-----------------------------------------------------------------------------
\* The values the setters take: a flag, a linger type with its seconds, milliseconds.
Lingers == {<<"dflt", 0>>, <<"none", 0>>, <<"timed", 0>>, <<"timed", 60>>}
Values(name) ==
    CASE name = "linger" -> Lingers
      [] name \in {"rcvtimeo", "sndtimeo"} -> {<<0>>, <<1>>, <<999>>, <<1000>>, <<1001>>, <<60000>>}
      [] OTHER -> {<<0>>, <<1>>}

\* linger(type, to): l_onoff and l_linger; a timed linger without seconds is refused.
linger_of(v) == <<IF v[1] = "dflt" THEN 0 ELSE 1, v[2]>>

\* Mutant: the milliseconds are stored as microseconds.
TimevalMillis(to) == <<IF to > 1000 THEN to \div 1000 ELSE Garbage, to % 1000>>

\* rcvtimeout(to) and sndtimeout(to): seconds and microseconds; the seconds are not set for
\* a time-out of a second or less.
timeval_of(to) == <<IF to > 1000 THEN to \div 1000 ELSE Garbage, (to % 1000) * 1000>>

\* keepalive(bool), reuseaddr(bool) and tcpnodelay(bool).
flag_of(v) == <<v[1], 0>>

Kept(name, v) ==
    CASE name = "linger" -> linger_of(v)
      [] name \in {"rcvtimeo", "sndtimeo"} -> timeval_of(v[1])
      [] OTHER -> flag_of(v)

\* The getters.
linger(k) ==
    IF k[1] = 0 THEN <<"dflt", 0>>
    ELSE IF k[2] = 0 THEN <<"none", 0>> ELSE <<"timed", k[2]>>
timeout(k) == <<k[1] * 1000 + k[2] \div 1000>>
Read(name, k) ==
    CASE name = "linger" -> linger(k)
      [] name \in {"rcvtimeo", "sndtimeo"} -> timeout(k)
      [] OTHER -> <<k[1]>>

\* A setter of the option followed, on any live socket.
SetOption(o) ==
    /\ o \in Live
    /\ \E v \in Values(opt.name) :
          \/ /\ Ended("throw") /\ UNCHANGED opt
          \/ /\ v # <<"timed", 0>>
             /\ Ended("ok")
             /\ opt' = [opt EXCEPT !.kept = Kept(opt.name, v), !.set = v]
    /\ UNCHANGED <<obj, krn, raw, lost, botched>>

\* Following an option needs no more than an object to set it on.
Next ==
    \/ \E o \in Objs : Create(o)
    \/ opt.name # "none" /\ \E o \in Objs : SetOption(o)
    \/ opt.name = "none" /\ Obtain
    \/ opt.name = "none" /\ \E o \in Objs :
          \/ FromRaw(o) \/ Close(o) \/ Destroy(o)
          \/ SetBlocking(o) \/ Connect(o) \/ Transfer(o)
    \/ opt.name = "none" /\ \E o, s \in Objs :
          Accept(o, s) \/ SocketPair(o, s) \/ MoveConstruct(o, s) \/ MoveAssign(o, s)

Spec == Init /\ [][Next]_vars

-----------------------------------------------------------------------------
\* Objects that will close their descriptor.
Closers == {o \in Alive : ~obj[o].m_skip_close /\ obj[o].m_sock # INVALID_SOCKET}

\* No descriptor has two objects that will close it, however objects are created, moved
\* and destroyed, and no object will close a descriptor that is closed already: a second
\* close would hit whatever got the number next.  Except after a close() that failed,
\* which leaves the descriptor in the object (sock.cpp:1279, 266, 249).
ClosedOnce ==
    ~botched =>
        /\ \A o, p \in Closers : obj[o].m_sock = obj[p].m_sock => o = p
        /\ \A o \in Closers : krn[obj[o].m_sock].open

\* An open descriptor is known to an object or to the caller, or was lost in one of three
\* ways: assignment to an object that has an open one, and accept() or socketpair() whose
\* constructor throws (sock.cpp:285, 1058, 95).
LostOnlyWhere ==
    ~botched =>
      \A fd \in Fds : krn[fd].open => fd \in lost \cup raw \cup {obj[o].m_sock : o \in Alive}

\* connect(), readn() and writen() leave the blocking mode of the socket as they found it,
\* with or without a time-out, on success and on error, unless fcntl() itself fails, or
\* the getsockopt() that asks why a connection in progress failed (sock.cpp:939, 954,
\* 1130, 1206).
ModeRestored ==
    [][ (last'.call \in {"connect", "transfer"} /\ last'.end \notin {"sys", "sockopt"})
            => krn'[last'.fd].blocking = krn[last'.fd].blocking ]_vars

\* A getter returns what was set: flags, every linger type, and time-outs of more than a
\* second; of a shorter time-out only the milliseconds survive, because the seconds are
\* whatever was on the stack (sock.cpp:564, 614).
OptionReadsBack ==
    opt.set = <<>> \/
    LET got == Read(opt.name, opt.kept) IN
        IF opt.name \in {"rcvtimeo", "sndtimeo"} /\ opt.set[1] <= 1000
        THEN got[1] % 1000 = opt.set[1] % 1000
        ELSE got = opt.set

=============================================================================
