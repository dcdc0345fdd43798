----------------------------- MODULE Connection -----------------------------
(***************************************************************************)
(* The TLS connection class (libnet/src/cnxn.cpp): connection objects that *)
(* own an SSL object each, the SSL contexts of a server and the switch     *)
(* between them when a client names a server (SNI), and the loops of       *)
(* handshake(), readn() and writen() around SSL calls that want to be      *)
(* retried.  OpenSSL is external: a call has any of the outcomes that      *)
(* SSL_get_error() distinguishes.                                          *)
(***************************************************************************)
EXTENDS Integers, SequencesExt, FiniteSets

CONSTANTS
    Conns,         \* connection objects
    Tls,           \* SSL objects, numbered
    Contexts,      \* SSL contexts; the server named n has context n
    MaxContexts,   \* bound: contexts of a connection
    MaxBytes,      \* bound: bytes of a read or write
    Null

VARIABLES
    conn,          \* the objects: alive, m_mode, m_tls and m_contexts
    tls,           \* the SSL objects: live, the context in use, handshake done
    arg,           \* of each context, the argument of its SNI callback
    io,            \* the call in progress, or the last one
    botched,       \* history: a copy threw after the old SSL object was deleted, or
                   \* the SNI callback was given a connection without SSL object
    twice          \* history: an SSL object was deleted that was deleted before

vars == <<conn, tls, arg, io, botched, twice>>

-----------------------------------------------------------------------------
Dead == [alive |-> FALSE, m_mode |-> "server", m_tls |-> Null, m_contexts |-> <<>>]
NoTls == [live |-> FALSE, ctx |-> Null, done |-> FALSE]
Idle == [op |-> "none", conn |-> Null, left |-> 0, bytes |-> 0, closed |-> FALSE, ret |-> "ok"]

Alive == {c \in Conns : conn[c].alive}
Unused == {t \in Tls : ~tls[t].live /\ \A c \in Alive : conn[c].m_tls # t}
NewTls == {t \in Unused : \A u \in Unused : t <= u}
Looping == io.ret = "loop"
Busy == io.op # "none"
Usable(c) == c \in Alive /\ conn[c].m_tls # Null /\ tls[conn[c].m_tls].live

Init ==
    /\ conn = [c \in Conns |-> Dead] /\ tls = [t \in Tls |-> NoTls]
    /\ arg = [x \in Contexts |-> Null] /\ io = Idle
    /\ botched = FALSE /\ twice = FALSE

\* delete m_tls.
Delete(t, ts) == IF t = Null THEN ts ELSE [ts EXCEPT ![t] = NoTls]
Again(t) == twice \/ (t # Null /\ ~tls[t].live)

\* connection(mode, ctx).
Construct(c) ==
    /\ ~Busy /\ ~conn[c].alive
    /\ \E t \in NewTls, x \in Contexts, mode \in {"server", "client"} :
          /\ tls' = [tls EXCEPT ![t] = [live |-> TRUE, ctx |-> x, done |-> FALSE]]
          /\ conn' = [conn EXCEPT ![c] = [alive |-> TRUE, m_mode |-> mode, m_tls |-> t,
                                          m_contexts |-> <<[cur |-> TRUE, ctx |-> x]>>]]
    /\ UNCHANGED <<arg, io, botched, twice>>

\* A deep copy of s for c: SSL_dup(), or an exception.  A source that was moved from has
\* no SSL object, and copying it is undefined: callers do not.
CopyConstruct(c, s) ==
    /\ ~Busy /\ ~conn[c].alive /\ Usable(s)
    /\ \E t \in NewTls :
          /\ tls' = [tls EXCEPT ![t] = tls[conn[s].m_tls]]
          /\ conn' = [conn EXCEPT ![c] = [conn[s] EXCEPT !.m_tls = t]]
    /\ UNCHANGED <<arg, io, botched, twice>>

\* operator=(const connection &): the old SSL object is deleted first.  When the copy then
\* throws, m_tls still names it.
CopyAssign(c, s) ==
    /\ ~Busy /\ c \in Alive /\ c # s /\ Usable(s)
    /\ twice' = Again(conn[c].m_tls)
    /\ \/ \E t \in NewTls :
             /\ tls' = [Delete(conn[c].m_tls, tls) EXCEPT ![t] = tls[conn[s].m_tls]]
             /\ conn' = [conn EXCEPT ![c] = [conn[s] EXCEPT !.m_tls = t]]
             /\ UNCHANGED botched
       \/ /\ tls' = Delete(conn[c].m_tls, tls)
          /\ conn' = [conn EXCEPT ![c].m_mode = conn[s].m_mode]
          /\ botched' = TRUE
    /\ UNCHANGED <<arg, io>>

\* Mutant: the moved-from object keeps its SSL object.
MovedKeepsTls(s) == conn[s]

MovedFrom(s) == [conn[s] EXCEPT !.m_tls = Null, !.m_contexts = <<>>]

MoveConstruct(c, s) ==
    /\ ~Busy /\ ~conn[c].alive /\ s \in Alive
    /\ conn' = [conn EXCEPT ![c] = conn[s], ![s] = MovedFrom(s)]
    /\ UNCHANGED <<tls, arg, io, botched, twice>>

MoveAssign(c, s) ==
    /\ ~Busy /\ c \in Alive /\ s \in Alive \ {c}
    /\ twice' = Again(conn[c].m_tls)
    /\ tls' = Delete(conn[c].m_tls, tls)
    /\ conn' = [conn EXCEPT ![c] = conn[s], ![s] = MovedFrom(s)]
    /\ UNCHANGED <<arg, io, botched>>

Destroy(c) ==
    /\ ~Busy /\ c \in Alive
    /\ twice' = Again(conn[c].m_tls)
    /\ tls' = Delete(conn[c].m_tls, tls)
    /\ conn' = [conn EXCEPT ![c] = Dead]
    /\ UNCHANGED <<arg, io, botched>>

-----------------------------------------------------------------------------
\* add_context(): servers only.
AddContext(c) ==
    /\ ~Busy /\ Usable(c)
    /\ conn[c].m_mode = "server" /\ Len(conn[c].m_contexts) < MaxContexts
    /\ \E x \in Contexts :
          conn' = [conn EXCEPT ![c].m_contexts = Append(@, [cur |-> FALSE, ctx |-> x])]
    /\ UNCHANGED <<tls, arg, io, botched, twice>>

\* enable_sni(): this connection becomes the argument of the callback of its contexts.
EnableSni(c) ==
    /\ ~Busy /\ Usable(c) /\ conn[c].m_mode = "server"
    /\ arg' = [x \in Contexts |->
                 IF \E i \in 1..Len(conn[c].m_contexts) : conn[c].m_contexts[i].ctx = x
                 THEN c ELSE arg[x]]
    /\ UNCHANGED <<conn, tls, io, botched, twice>>

\* Mutant: the flag of the old context stays.
SwitchKeepsFlag(cs, name) ==
    LET hit == {i \in 1..Len(cs) : cs[i].ctx = name}
    IN IF hit = {} THEN [cs |-> cs, set |-> Null]
       ELSE [cs |-> [j \in 1..Len(cs) |-> [cs[j] EXCEPT !.cur = @ \/ j \in hit]], set |-> Null]

\* switch_context(name) on the contexts cs: the first whose certificate has the name is
\* made current.  The result is the contexts and the context to set, Null for none.
switch_context(cs, name) ==
    LET hit == {i \in 1..Len(cs) : cs[i].ctx = name}
        i == CHOOSE j \in hit : \A k \in hit : j <= k
    IN IF hit = {} \/ cs[i].cur THEN [cs |-> cs, set |-> Null]
       ELSE [cs |-> [j \in 1..Len(cs) |-> [cs[j] EXCEPT !.cur = (j = i)]], set |-> name]

\* sni_cb() in the handshake of connection c: the callback of the context in use gets that
\* context's argument, whatever connection that is.  set_context() may fail; the flags are
\* then all down.
SniCallback(c) ==
    /\ Looping /\ io.op = "handshake" /\ io.conn = c /\ conn[c].m_mode = "server"
    /\ \E s \in {arg[tls[conn[c].m_tls].ctx]} :
       /\ s \in Conns /\ Usable(s)
       /\ \E name \in Contexts :
          \E r \in {switch_context(conn[s].m_contexts, name)} :
             \/ /\ conn' = [conn EXCEPT ![s].m_contexts = r.cs]
                /\ tls' = IF r.set = Null THEN tls
                          ELSE [tls EXCEPT ![conn[s].m_tls].ctx = r.set]
             \/ /\ r.set # Null /\ UNCHANGED tls
                /\ conn' = [conn EXCEPT ![s].m_contexts =
                              [i \in 1..Len(@) |-> [@[i] EXCEPT !.cur = FALSE]]]
    /\ UNCHANGED <<arg, io, botched, twice>>

\* sni_cb() with an argument that was moved from or destroyed since it enabled SNI: the
\* context keeps it, and its m_tls is used all the same.
SniDangling(c) ==
    /\ Looping /\ io.op = "handshake" /\ io.conn = c /\ conn[c].m_mode = "server"
    /\ \E s \in Conns : s = arg[tls[conn[c].m_tls].ctx] /\ ~Usable(s)
    /\ botched' = TRUE
    /\ UNCHANGED <<conn, tls, arg, io, twice>>

-----------------------------------------------------------------------------
\* What SSL_get_error() makes of a call that returned 0 or less.
Outcomes == {"zero_return", "want", "syscall_eof", "syscall_os", "syscall_queue", "other"}

\* How waiting for the socket ends.
Polls == {"ready", "timeout", "error"}

\* Mutant: a time-out counts as success.
TimeoutIsFine(outcome, poll) ==
    IF outcome = "want" /\ poll # "ready" THEN "ok"
    ELSE IF outcome = "zero_return" THEN "ok" ELSE "throw"

\* handle_ssl_error(): what the call returns, or "throw".  A call that wants to be retried
\* waits for the socket first.
handle_ssl_error(outcome, poll) ==
    CASE outcome = "zero_return" -> "ok"
      [] outcome = "want" -> IF poll = "ready" THEN "loop"
                             ELSE IF poll = "timeout" THEN "timed_out" ELSE "syscall_failed"
      [] outcome = "syscall_eof" -> "syscall_failed"
      [] outcome = "syscall_os" -> "failed"
      [] OTHER -> "throw"

\* A call of handshake() begins, or of readn() or writen(), which loop in the same way.
Begin(c) ==
    /\ ~Busy /\ Usable(c)
    /\ \/ ~tls[conn[c].m_tls].done
          /\ io' = [Idle EXCEPT !.op = "handshake", !.conn = c, !.ret = "loop"]
       \/ \E n \in 1..MaxBytes :
             io' = [Idle EXCEPT !.op = "transfer", !.conn = c, !.left = n, !.ret = "loop"]
    /\ UNCHANGED <<conn, tls, arg, botched, twice>>

\* One turn of the loop of handshake(): SSL_connect() or SSL_accept().  Whatever is neither
\* success nor retryable ends the loop, and the function returns like after a success.
HandshakeStep ==
    /\ Looping /\ io.op = "handshake"
    /\ \/ /\ io' = [io EXCEPT !.ret = "ok"]
          /\ tls' = [tls EXCEPT ![conn[io.conn].m_tls].done = TRUE]
       \/ /\ \E outcome \in Outcomes, poll \in Polls :
                LET r == handle_ssl_error(outcome, poll) IN
                io' = [io EXCEPT !.ret = IF r \in {"loop", "throw"} THEN r ELSE "ok",
                                 !.closed = (outcome = "zero_return")]
          /\ UNCHANGED tls
    /\ UNCHANGED <<conn, arg, botched, twice>>

\* One turn of the loop of readn() or writen(): some bytes, or an error.
TransferStep ==
    /\ Looping /\ io.op = "transfer"
    /\ \/ \E k \in 1..io.left :
             io' = [io EXCEPT !.left = @ - k, !.bytes = @ + k,
                              !.ret = IF k = io.left THEN "ok" ELSE "loop"]
       \/ \E outcome \in Outcomes, poll \in Polls :
             io' = [io EXCEPT !.ret = handle_ssl_error(outcome, poll),
                              !.closed = (outcome = "zero_return")]
    /\ UNCHANGED <<conn, tls, arg, botched, twice>>

\* The call returns to its caller.
Return == Busy /\ ~Looping /\ io' = Idle /\ UNCHANGED <<conn, tls, arg, botched, twice>>

\* shutdown() and reset(): an error is thrown or dropped, the SSL object starts anew.
Reset(c) ==
    /\ ~Busy /\ Usable(c)
    /\ tls' = [tls EXCEPT ![conn[c].m_tls].done = FALSE]
    /\ UNCHANGED <<conn, arg, io, botched, twice>>

\* What is done with an object that lost its SSL object in a copy, or in a callback with an
\* object that is gone, is undefined.
Next ==
    /\ ~botched
    /\ \/ \E c \in Conns :
             \/ Construct(c) \/ Destroy(c) \/ AddContext(c) \/ EnableSni(c)
             \/ SniCallback(c) \/ SniDangling(c) \/ Begin(c) \/ Reset(c)
       \/ \E c, s \in Conns :
             CopyConstruct(c, s) \/ CopyAssign(c, s) \/ MoveConstruct(c, s) \/ MoveAssign(c, s)
       \/ HandshakeStep \/ TransferStep \/ Return

Spec == Init /\ [][Next]_vars

-----------------------------------------------------------------------------
\* At most one context of a connection is flagged current, and it is the one its SSL object
\* uses, through SNI switches that find nothing, find the current one or fail half-way
\* (switch_context, cnxn.cpp:111).
CurrentInUse ==
    \A c \in Conns : Usable(c) =>
        LET cs == conn[c].m_contexts
            cur == {i \in 1..Len(cs) : cs[i].cur}
        IN ~botched => Cardinality(cur) <= 1 /\ \A i \in cur : cs[i].ctx = tls[conn[c].m_tls].ctx

\* No SSL object is deleted twice and no two connections share one, whatever is copied,
\* moved and destroyed, unless a copy assignment threw (cnxn.cpp:302) or the SNI callback
\* was given a connection that is gone (cnxn.cpp:24).
TlsOwnedOnce ==
    ~botched =>
        /\ ~twice
        /\ \A c, d \in Alive : conn[c].m_tls = conn[d].m_tls /\ conn[c].m_tls # Null => c = d

\* readn() and writen() count the bytes that were transferred, and return success only when
\* all were, or the peer closed the TLS connection (cnxn.cpp:505, 565).
BytesCounted ==
    io.op = "transfer" /\ io.ret = "ok" => io.left = 0 \/ io.closed

\* handshake() throws if the TLS handshake fails (cnxn.cpp:460).
HandshakeReports ==
    io.op = "handshake" /\ io.ret = "ok" => tls[conn[io.conn].m_tls].done

=============================================================================
