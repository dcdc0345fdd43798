----------------------------- MODULE HttpServer -----------------------------
(***************************************************************************)
(* The HTTP server: server, accept_handler, read_handler and the two       *)
(* functions it runs in the thread pool, process_ssl_handshake and         *)
(* process_request, on the reactor.  What is followed is who owns the      *)
(* socket of a connection: a task of the pool, the handler in the reactor, *)
(* or nobody.  Sockets are file descriptors, which accept() uses again.    *)
(*                                                                         *)
(* The use of a freed object is recorded in undefined; the model then goes *)
(* on with what the code would do on memory that was not yet used again,   *)
(* or the program crashes; no more connections are accepted and no more    *)
(* requests are answered then.                                             *)
(***************************************************************************)
EXTENDS Reactor

Http      == 1
Https     == 2
Listeners == {Http, Https}
Clients   == Sockets \ Listeners

ASSUME ServerAssumption == Listeners \subseteq Sockets

VARIABLES
    main,           \* the program: start(), stop()
    pool,           \* m_thrdpool: "none", "running", "stopped"
    listening,      \* the listening sockets that are open
    open,           \* the client sockets that are open
    hnd,            \* of each client socket: the handler in the reactor
    tasks,          \* what was submitted to the pool and has not ended
    leaked,         \* sockets nobody will close
    plain,          \* a connection without TLS was accepted
    answered,       \* a request was answered and its handler registered again
    undefined       \* a freed object was used

svars == <<main, pool, listening, open, hnd, tasks, leaked, plain, answered, undefined>>
vars  == <<rvars, svars>>

NoHandler == [there |-> FALSE, dangling |-> FALSE, shutting_down |-> FALSE]
ReadHandler(dangling, shutting) ==
    [there |-> TRUE, dangling |-> dangling, shutting_down |-> shutting]
Task(kind, f, dangling) == [kind |-> kind, fd |-> f, dangling |-> dangling]

\* tasks that wait in the queue of the pool; those that run are "shaking" in
\* process_ssl_handshake(), "serving" in process_request(), or at its end, "free"
Waiting(t)   == t.kind \in {"handshake", "request"}
OnClient(t)  == t.kind \in {"shaking", "serving"}
Handshake(t) == t.kind \in {"handshake", "shaking"}
TaskKinds    == {"handshake", "shaking", "request", "serving", "free"}

\* the socket of f is freed: every other reference to it dangles
Dangle(f, ts) == {IF u.fd = f THEN [u EXCEPT !.dangling = TRUE] ELSE u : u \in ts}
DangleHandler(f) == [hnd EXCEPT ![f].dangling = @ \/ hnd[f].there]

Init ==
    /\ ReactorInit
    /\ main = "context" /\ pool = "none"
    /\ listening = {}
    /\ open = {} /\ hnd = [f \in Clients |-> NoHandler] /\ tasks = {} /\ leaked = {}
    /\ plain = FALSE /\ answered = FALSE /\ undefined = FALSE

-----------------------------------------------------------------------------
(* start() and stop()                                                       *)

\* start() up to the sockets: setup_context(), and the pool.  A start() after one that failed
\* replaces the pool, which has no tasks; one that succeeded or was stopped is not repeated.
SetupContext ==
    /\ main \in {"context", "failed"}
    /\ \/ main' = "failed" /\ UNCHANGED pool
       \/ main' = "http" /\ pool' = "running"
    /\ UNCHANGED <<rvars, listening, open, hnd, tasks, leaked, plain, answered, undefined>>

\* setup_socket(l), which fails while the port is in use, and the accept_handler
SetupSocket(l) ==
    /\ main = (IF l = Http THEN "http" ELSE "https")
    /\ \/ main' = "failed" /\ UNCHANGED <<rvars, listening>>
       \/ /\ l \notin listening
          /\ main' = (IF l = Http THEN "https" ELSE "started")
          /\ listening' = listening \cup {l}
          /\ AddHandler(l, "read", FALSE)
    /\ UNCHANGED <<pool, open, hnd, tasks, leaked, plain, answered, undefined>>

\* stop(), from the destructor also when start() was not called
StopServer ==
    /\ main \in {"context", "started", "failed"} /\ StopBegin
    /\ main' = "stop"
    /\ UNCHANGED <<pool, listening, open, hnd, tasks, leaked, plain, answered, undefined>>

ServerStopWrite == StopWrite /\ UNCHANGED svars

\* m_reactor.stop() returns
ServerStopEnd ==
    /\ StopEnd
    /\ main' = "poolstop"
    /\ UNCHANGED <<pool, listening, open, hnd, tasks, leaked, plain, answered, undefined>>

\* m_thrdpool->stop(): tasks that wait are dropped with the sockets they point to.  Without
\* a pool it is a call through a null pointer.
StopPool ==
    /\ main = "poolstop"
    /\ main' = (IF pool = "none" THEN "crashed" ELSE "joining")
    /\ pool' = (IF pool = "none" THEN pool ELSE "stopped")
    /\ tasks' = {t \in tasks : ~Waiting(t)}
    /\ leaked' = leaked \cup {t.fd : t \in {u \in tasks : Waiting(u)}}
    /\ UNCHANGED <<rvars, listening, open, hnd, plain, answered, undefined>>

\* it joins the workers, and so waits for the tasks that run; stop() returns
JoinPool ==
    /\ main = "joining" /\ tasks = {}
    /\ main' = "stopped"
    /\ UNCHANGED <<rvars, pool, listening, open, hnd, tasks, leaked, plain, answered, undefined>>

-----------------------------------------------------------------------------
(* The network                                                              *)

\* what poll() finds on s: connections to accept or not, what a client sent or that it
\* hung up, and always a socket that is closed
FoundOn(s, calls, sent) ==
    IF s = Pipe THEN IF pipe > 0 THEN {"read"} ELSE {}
    ELSE IF poll_vec[s] = {} THEN {}
    ELSE IF s \in Listeners THEN IF s \in calls THEN {"read"} ELSE {}
    ELSE IF s \in open THEN sent[s] ELSE {"invalid"}

ServerPoll ==
    /\ rpc = "poll"
    /\ \E calls \in SUBSET listening, sent \in [Clients -> {{}, {"read"}, {"hup"}}] :
          PollReady([s \in Watched |-> FoundOn(s, calls, sent)])
    /\ UNCHANGED svars

ServerLoop == Loop /\ UNCHANGED svars

ServerPollEnds == (PollTimeout \/ PollFails) /\ UNCHANGED svars

-----------------------------------------------------------------------------
(* The handlers                                                             *)

\* a socket without an event, or one whose handler was replaced or removed
ProcessIdle(s) ==
    /\ s = Pipe \/ ~(\E ei \in Range(m_handlers[s]) : Called(s, ei))
    /\ Process(s, [e \in Events |-> TRUE])
    /\ UNCHANGED svars

\* accept_handler of the https port
AcceptSecured ==
    /\ Https \in todo /\ \E ei \in Range(m_handlers[Https]) : Called(Https, ei)
    /\ \/ /\ ~undefined                                       \* bound
          /\ Process(Https, [e \in Events |-> TRUE])
          /\ \E f \in Clients \ open :
               /\ open' = open \cup {f}
               /\ tasks' = tasks \cup {Task("handshake", f, FALSE)}
          /\ UNCHANGED listening
       \/ /\ Process(Https, [e \in Events |-> FALSE])       \* accept() throws
          /\ listening' = listening \ {Https}
          /\ UNCHANGED <<open, tasks>>
    /\ UNCHANGED <<main, pool, hnd, leaked, plain, answered, undefined>>

\* accept_handler of the http port: it calls add_handler() under m_lock
AcceptPlain ==
    /\ Http \in todo
    /\ \/ /\ ~undefined                                       \* bound
          /\ ProcessAdds(Http)
          /\ \E f \in Clients \ open :
               /\ open' = open \cup {f}
               /\ leaked' = IF m_stopped THEN leaked \cup {f} ELSE leaked
          /\ plain' = TRUE
          /\ UNCHANGED listening
       \/ /\ \E ei \in Range(m_handlers[Http]) : Called(Http, ei)
          /\ Process(Http, [e \in Events |-> FALSE])        \* accept() throws
          /\ listening' = listening \ {Http}
          /\ UNCHANGED <<open, leaked, plain>>
    /\ UNCHANGED <<main, pool, hnd, tasks, answered, undefined>>

\* read_handler with its socket: a request for the pool, or the socket is closed
ReadEvent(f) ==
    /\ f \in todo /\ hnd[f].there /\ ~hnd[f].dangling
    /\ Process(f, [e \in Events |-> FALSE])
    /\ hnd' = [hnd EXCEPT ![f] = NoHandler]
    /\ \E ei \in Range(m_handlers[f]) :
          /\ Called(f, ei)
          /\ IF hnd[f].shutting_down \/ EventOf(f, ei) # "read"
             THEN open' = open \ {f} /\ tasks' = Dangle(f, tasks)
             ELSE tasks' = tasks \cup {Task("request", f, FALSE)} /\ UNCHANGED open
    /\ UNCHANGED <<main, pool, listening, leaked, plain, answered, undefined>>

\* read_handler whose socket was freed: it closes or submits what it finds there, and
\* its destructor frees the socket again
ReadFreed(f) ==
    /\ f \in todo /\ hnd[f].there /\ hnd[f].dangling
    /\ \E ei \in Range(m_handlers[f]) : Called(f, ei)
    /\ Process(f, [e \in Events |-> FALSE])
    /\ hnd' = [hnd EXCEPT ![f] = NoHandler]
    /\ tasks' \in {tasks, tasks \cup {Task("request", f, TRUE)}}
    /\ undefined' = TRUE
    /\ UNCHANGED <<main, pool, listening, open, leaked, plain, answered>>

-----------------------------------------------------------------------------
(* The tasks of the pool                                                    *)

\* add_handler() of a read_handler: a handler it replaces is freed, with its socket.  A
\* stopped reactor loses the handler.
Register(f, h) ==
    /\ AddHandler(f, "read", FALSE)
    /\ hnd' = [hnd EXCEPT ![f] = IF m_stopped THEN @ ELSE h]
    /\ undefined' = (undefined \/ (~m_stopped /\ hnd[f].there))

\* a worker takes a task
StartTask(t) ==
    /\ Waiting(t) /\ pool = "running"
    /\ tasks' = (tasks \ {t})
                    \cup {Task(IF Handshake(t) THEN "shaking" ELSE "serving", t.fd, t.dangling)}
    /\ UNCHANGED <<rvars, main, pool, listening, open, hnd, leaked, plain, answered, undefined>>

\* Mutant: a handshake that fails leaves the socket open.
HandshakeUnclosed(t) ==
    /\ t.kind = "shaking"
    /\ tasks' = tasks \ {t}
    /\ UNCHANGED <<rvars, main, pool, listening, open, hnd, leaked, plain, answered, undefined>>

\* Mutant: the task keeps the socket that it gives to the handler, and frees it at its end.
HandshakeKeeps(t) ==
    /\ t.kind = "shaking"
    /\ tasks' = (tasks \ {t}) \cup {Task("free", t.fd, FALSE)}
    /\ Register(t.fd, ReadHandler(FALSE, FALSE))
    /\ UNCHANGED <<main, pool, listening, open, leaked, plain, answered>>

\* process_ssl_handshake(): its end, which a silent client puts off for ever
RunHandshake(t) ==
    /\ t.kind = "shaking"
    /\ tasks' = tasks \ {t}
    /\ \/ open' = open \ {t.fd}                              \* it fails: sock is destroyed
          /\ UNCHANGED <<rvars, hnd, leaked, undefined>>
       \/ /\ Register(t.fd, ReadHandler(FALSE, FALSE))
          /\ leaked' = IF m_stopped THEN leaked \cup {t.fd} ELSE leaked
          /\ UNCHANGED open
    /\ UNCHANGED <<main, pool, listening, plain, answered>>

\* what process_request() has still to do after add_handler(); when another one is about to
\* free the same socket, the second to do so frees it again
ToFree(f) == Task("free", f, Task("free", f, FALSE) \in tasks)

\* process_request() up to add_handler(), which comes when the client has sent a request:
\* the handler gets sptr.get(), which sptr still owns.  An exception that is not caught
\* destroys both.
RunRequest(t) ==
    /\ t.kind = "serving"
    /\ \/ /\ ~t.dangling /\ ~undefined                       \* bound
          /\ \E shutting \in BOOLEAN : Register(t.fd, ReadHandler(FALSE, shutting))
          /\ tasks' = (tasks \ {t}) \cup {ToFree(t.fd)}
          /\ answered' = TRUE
          /\ UNCHANGED open
       \/ /\ ~t.dangling
          /\ tasks' = Dangle(t.fd, tasks \ {t}) /\ hnd' = DangleHandler(t.fd)
          /\ open' = open \ {t.fd}
          /\ UNCHANGED <<rvars, answered, undefined>>
       \/ /\ t.dangling
          /\ tasks' = tasks \ {t} /\ undefined' = TRUE
          /\ UNCHANGED <<rvars, open, hnd, answered>>
    /\ UNCHANGED <<main, pool, listening, leaked, plain>>

\* the end of process_request(): sptr closes and frees the socket
FreeSocket(t) ==
    /\ t.kind = "free"
    /\ IF t.dangling
       THEN tasks' = tasks \ {t} /\ undefined' = TRUE /\ UNCHANGED <<open, hnd>>
       ELSE /\ open' = open \ {t.fd}
            /\ hnd' = DangleHandler(t.fd) /\ tasks' = Dangle(t.fd, tasks \ {t})
            /\ UNCHANGED undefined
    /\ UNCHANGED <<rvars, main, pool, listening, leaked, plain, answered>>

-----------------------------------------------------------------------------

Main == SetupContext \/ StopServer \/ ServerStopWrite \/ ServerStopEnd \/ StopPool
        \/ JoinPool \/ \E l \in Listeners : SetupSocket(l)

Handlers ==
    \/ AcceptSecured \/ AcceptPlain
    \/ \E s \in todo : ProcessIdle(s)
    \/ \E f \in Clients : ReadEvent(f) \/ ReadFreed(f)

Pool == \E t \in tasks : StartTask(t) \/ RunHandshake(t) \/ RunRequest(t) \/ FreeSocket(t)

Running == rpc # "crashed" /\ main # "crashed"

Next ==
    /\ Running
    /\ Main \/ Handlers \/ Pool \/ ServerPoll \/ ServerLoop \/ ServerPollEnds

\* The threads run, and poll() returns when the socket pair can be read; nothing is
\* asked of the clients, for which handshakes and requests over TLS wait without a time-out,
\* and all the workers with them.  accept() may find no descriptor left.
Spec ==
    /\ Init /\ [][Next]_vars
    /\ WF_vars(Running /\ ServerLoop) /\ WF_vars(Running /\ pipe > 0 /\ ServerPoll)
    /\ WF_vars(Running /\ Handlers) /\ WF_vars(Running /\ \E t \in tasks : FreeSocket(t))
    /\ WF_vars(Running /\ (ServerStopWrite \/ ServerStopEnd \/ StopPool \/ JoinPool))

-----------------------------------------------------------------------------
(* Properties                                                               *)

TypeOK ==
    /\ ReactorTypeOK
    /\ main \in {"context", "http", "https", "started", "failed", "stop", "poolstop",
                 "joining", "stopped", "crashed"}
    /\ pool \in {"none", "running", "stopped"}
    /\ listening \subseteq Listeners
    /\ open \subseteq Clients /\ leaked \subseteq Clients
    /\ hnd \in [Clients -> [there : BOOLEAN, dangling : BOOLEAN, shutting_down : BOOLEAN]]
    /\ tasks \subseteq [kind : TaskKinds, fd : Clients, dangling : BOOLEAN]

\* those who would free the socket of f
Owners(f) ==
    {t \in tasks : t.fd = f /\ ~t.dangling}
        \cup (IF hnd[f].there /\ ~hnd[f].dangling THEN {hnd[f]} ELSE {})

\* The reactor waits for its own lock only after a connection without TLS came in, or
\* with a full socket pair.
StuckOnlyOnPlain == rpc = "stuck" => plain \/ pipe = MaxPipe

\* As long as no freed object was used, an open connection has one owner, a task of the
\* pool or a handler of the reactor, but for the time process_request() takes from
\* add_handler() to its end, and for what is lost when the reactor is stopped or waits
\* on its own lock; and that happens only as above.
OneOwner ==
    /\ TypeOK
    /\ StuckOnlyOnPlain
    /\ ~undefined =>
        \A f \in open \ leaked :
            \/ Cardinality(Owners(f)) = 1
            \/ Task("free", f, FALSE) \in tasks
            \/ rpc = "stuck"

\* A freed socket is used only after some request was answered: handshakes, failed
\* requests, hang-ups and a stop at any moment are safe.
FreedAfterAnswer == undefined => answered

\* stop() returns if start() succeeded, all connections accepted were secured, none was
\* answered, the socket pair never filled up and the program has not crashed; or else
\* thread_pool::stop() waits for ever for a worker that waits for what a client sends.
StopsIfSecured ==
    (main = "stop" /\ pool = "running")
        ~> (\/ main = "stopped" \/ plain \/ undefined \/ rpc = "crashed" \/ pipe = MaxPipe
            \/ [](main = "joining" /\ \E t \in tasks : OnClient(t)))
=============================================================================
