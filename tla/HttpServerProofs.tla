-------------------------- MODULE HttpServerProofs --------------------------
(***************************************************************************)
(* Who owns the socket of a connection, for every number of sockets and    *)
(* every size of the socket pair.                                          *)
(*                                                                         *)
(* An owner is live as long as nobody else freed the socket.  The          *)
(* invariant Owned says that, before a freed object is used, a live owner  *)
(* has an open socket, that tasks that have still to run and the handler   *)
(* exclude each other, and that a connection which nobody owns is leaked.  *)
(* Unanswered says that before the first answer nothing dangles at all.    *)
(* The reactor matters only for what its handlers and the socket pair hold.*)
(***************************************************************************)
EXTENDS HttpServer, FiniteSetTheorems, TLAPS

R == EvInfo("read", FALSE)

\* The server registers handlers of one kind; what poll() found in the socket pair is
\* still there when it is read.
ReactorOK ==
    /\ m_stopped \in BOOLEAN /\ pipe \in 0 .. MaxPipe
    /\ m_handlers \in [Watched -> {<< >>, <<R>>}]
    /\ rpc \in {"loop", "poll", "process", "exited", "failed", "stuck", "crashed"}
    /\ poll_vec \in [Watched -> SUBSET Events]
    /\ revents \in [Watched -> SUBSET (Events \cup Errors)]
    /\ todo \subseteq Watched /\ stopper \in {"no", "write", "wait", "returned"}
    /\ Pipe \in todo /\ revents[Pipe] # {} => pipe > 0

ServerOK ==
    /\ main \in {"context", "http", "https", "started", "failed", "stop", "poolstop",
                 "joining", "stopped", "crashed"}
    /\ pool \in {"none", "running", "stopped"}
    /\ listening \subseteq Listeners
    /\ open \subseteq Clients /\ leaked \subseteq Clients
    /\ hnd \in [Clients -> [there : BOOLEAN, dangling : BOOLEAN, shutting_down : BOOLEAN]]
    /\ tasks \subseteq [kind : TaskKinds, fd : Clients, dangling : BOOLEAN]

\* The handler of f is an owner; task t is one that has still to run.
LiveHandler(f) == hnd[f].there /\ ~hnd[f].dangling
ToRun(t)       == ~t.dangling /\ t.kind # "free"

\* A live owner has an open socket.
OwnersOpen ==
    /\ \A t \in tasks : ~t.dangling => t.fd \in open
    /\ \A f \in Clients : LiveHandler(f) => f \in open

\* Of the tasks still to run and the handler, one owns the socket.
OneToRun ==
    /\ \A t, u \in tasks : ToRun(t) /\ ToRun(u) /\ t.fd = u.fd => t = u
    /\ \A t \in tasks : ToRun(t) => ~LiveHandler(t.fd)

\* A handshake is over before there is a request whose task may free the socket.
HandshakeAlone ==
    \A t \in tasks : Handshake(t) =>
      /\ ~t.dangling
      /\ \A u \in tasks : u.kind = "free" /\ ~u.dangling => t.fd # u.fd

\* A connection without an owner is leaked, or the reactor waits for its own lock.
NoneLost ==
    \/ rpc = "stuck"
    \/ \A f \in open \ leaked : LiveHandler(f) \/ \E t \in tasks : t.fd = f /\ ~t.dangling

Owned == OwnersOpen /\ OneToRun /\ HandshakeAlone /\ NoneLost

\* Before the first answer nothing was freed that somebody still refers to.
Unanswered ==
    ~answered => /\ ~undefined
                 /\ \A t \in tasks : ~t.dangling /\ t.kind # "free"
                 /\ \A f \in Clients : hnd[f].there => ~hnd[f].dangling

IInv ==
    /\ ReactorOK
    /\ ServerOK
    /\ StuckOnlyOnPlain
    /\ undefined \in BOOLEAN /\ answered \in BOOLEAN /\ plain \in BOOLEAN
    /\ ~undefined => Owned
    /\ Unanswered

-----------------------------------------------------------------------------
(* The reactor                                                              *)

\* Of at most one ev_info, the one that is kept.
LEMMA KeptFacts ==
    ASSUME NEW h \in {<< >>, <<R>>}, NEW kept \in SUBSET DOMAIN h
    PROVE  Kept(h, kept) \in {<< >>, <<R>>}
<1>1. CASE kept = {}
  <2>1. Cardinality(kept) = 0 /\ 1 .. 0 = {}
    BY <1>1, FS_EmptySet
  <2>2. Kept(h, kept) = << >>
    BY <2>1 DEF Kept
  <2> QED
    BY <2>2
<1>2. CASE kept # {}
  <2>1. h = <<R>> /\ kept = {1}
    BY <1>2
  <2>2. Cardinality({1}) = 1 /\ {k \in {1} : k <= 1} = {1}
    <3>1. Cardinality({1}) = 1
      BY FS_Singleton, Zenon
    <3>2. {k \in {1} : k <= 1} = {1}
      OBVIOUS
    <3> QED
      BY <3>1, <3>2
  <2>3. (CHOOSE i \in {1} : Cardinality({k \in {1} : k <= i}) = 1) = 1
    BY <2>2
  <2>4. Kept(h, kept) = [n \in 1 .. 1 |-> R]
    BY <2>1, <2>2, <2>3 DEF Kept
  <2>5. [n \in 1 .. 1 |-> R] = <<R>>
    OBVIOUS
  <2> QED
    BY <2>4, <2>5
<1> QED
  BY <1>1, <1>2

\* process_poll_vector leaves a socket with the one handler it had or with none.
LEMMA AfterCallsFacts ==
    ASSUME ReactorOK, NEW s \in Watched, NEW ok
    PROVE  AfterCalls(s, ok) \in {<< >>, <<R>>}
<1> DEFINE h == m_handlers[s]
           renew(ei) == IF Called(s, ei) /\ ei.e \in revents[s] /\ revents[s] \cap Errors = {}
                        THEN [ei EXCEPT !.past = FALSE] ELSE ei
           kept == {i \in DOMAIN h : ~Called(s, h[i]) \/ ok[h[i].e]}
<1>1. h \in {<< >>, <<R>>}
  BY DEF ReactorOK
<1>2. renew(R) = R
  BY Zenon DEF R, EvInfo
<1>3. [i \in DOMAIN h |-> renew(h[i])] = h
  <2>1. \A i \in DOMAIN h : h[i] = R
    BY <1>1
  <2> HIDE DEF renew
  <2>2. \A i \in DOMAIN h : renew(h[i]) = h[i]
    BY <1>2, <2>1
  <2>3. h = [i \in DOMAIN h |-> h[i]]
    BY <1>1
  <2> QED
    BY <2>2, <2>3
<1>4. AfterCalls(s, ok) = Kept(h, kept)
  BY <1>3 DEF AfterCalls
<1> QED
  BY <1>1, <1>4, KeptFacts

\* A thread that waits for its own lock does so for ever, and a step other than that of
\* a handler which calls add_handler() makes it wait only when the socket pair is full.
Sticks ==
    /\ rpc = "stuck" => rpc' = "stuck"
    /\ rpc' = "stuck" => (rpc = "stuck" /\ pipe' >= pipe) \/ pipe' = MaxPipe

\* The socket pair is polled like the sockets of the server, and is none of them
\* (reactor::reactor).
LEMMA PipeWatched == Pipe \in Watched /\ Sockets \subseteq Watched /\ Pipe \notin Sockets
BY ReactorAssumption DEF Pipe, Watched

\* A step that leaves the reactor alone keeps what is known of it.
LEMMA SameReactor ==
    ASSUME ReactorOK, UNCHANGED rvars
    PROVE  ReactorOK' /\ Sticks
<1>1. pipe \in 0 .. MaxPipe /\ MaxPipe \in Nat
  BY ReactorAssumption DEF ReactorOK
<1> QED
  BY <1>1 DEF ReactorOK, Sticks, rvars

\* One socket of the poll vector is processed (reactor::process_poll_vector).
LEMMA ProcessStep ==
    ASSUME ReactorOK, NEW s \in Watched, NEW ok, Process(s, ok)
    PROVE  ReactorOK' /\ Sticks
<1>1. /\ rpc = "process" /\ s \in todo
      /\ todo' = todo \ {s} /\ revents' = [revents EXCEPT ![s] = {}]
      /\ m_handlers' = [m_handlers EXCEPT ![s] = AfterCalls(s, ok)]
      /\ pipe' = IF s = Pipe /\ revents[Pipe] # {} THEN pipe - 1 ELSE pipe
      /\ rpc' \in {"loop", "process", "crashed"}
      /\ UNCHANGED <<m_stopped, poll_vec, stopper>>
  BY DEF Process, First, Done, sockpair_handler, NextPc
<1>2. m_handlers' \in [Watched -> {<< >>, <<R>>}]
  BY <1>1, AfterCallsFacts DEF ReactorOK
<1>3. pipe' \in 0 .. MaxPipe
  <2>1. MaxPipe \in Nat
    BY ReactorAssumption
  <2> QED
    BY <1>1, <2>1 DEF ReactorOK
<1>4. Pipe \in todo' /\ revents'[Pipe] # {} => pipe' > 0
  BY <1>1, PipeWatched DEF ReactorOK
<1> QED
  BY <1>1, <1>2, <1>3, <1>4 DEF ReactorOK, Sticks

\* A handler that calls add_handler() from the reactor's thread waits for the lock its
\* thread holds, unless the reactor was stopped (reactor::add_handler).
LEMMA AddsStep ==
    ASSUME ReactorOK, NEW s \in Watched, ProcessAdds(s)
    PROVE  ReactorOK' /\ rpc # "stuck" /\ (~m_stopped => rpc' = "stuck")
           /\ (m_stopped => rpc' # "stuck")
<1>1. /\ rpc = "process"
      /\ IF m_stopped
         THEN /\ todo' = todo \ {s} /\ revents' = [revents EXCEPT ![s] = {}]
              /\ rpc' \in {"loop", "process"}
         ELSE rpc' = "stuck" /\ todo' = todo /\ revents' = revents
      /\ UNCHANGED <<m_stopped, m_handlers, pipe, poll_vec, stopper>>
  BY DEF ProcessAdds, First, Done, NextPc
<1>2. Pipe \in todo' /\ revents'[Pipe] # {} => pipe' > 0
  BY <1>1, PipeWatched DEF ReactorOK
<1> QED
  BY <1>1, <1>2 DEF ReactorOK

\* add_handler() from a thread of the pool leaves a socket with one handler
\* (reactor::add_handler).
LEMMA AddStep ==
    ASSUME ReactorOK, NEW s \in Sockets, AddHandler(s, "read", FALSE)
    PROVE  ReactorOK' /\ Sticks
<1>0. s \in Watched /\ MaxPipe \in Nat /\ pipe \in 0 .. MaxPipe
  BY PipeWatched, ReactorAssumption DEF ReactorOK
<1>1. CASE m_stopped
  <2>1. UNCHANGED rvars
    BY <1>1 DEF AddHandler
  <2> QED
    BY <1>0, <2>1 DEF ReactorOK, Sticks, rvars
<1>2. CASE ~m_stopped
  <2>1. /\ rpc \notin {"stuck", "crashed"}
        /\ IF pipe < MaxPipe THEN pipe' = pipe + 1 /\ rpc' = rpc
           ELSE pipe' = pipe /\ rpc' \in {"stuck", rpc}
        /\ m_handlers' = WithHandler(s, "read", FALSE)
        /\ UNCHANGED <<m_stopped, poll_vec, revents, todo, stopper>>
    BY <1>2 DEF AddHandler, Wake
  <2>2. m_handlers' \in [Watched -> {<< >>, <<R>>}]
    <3>1. m_handlers[s] \in {<< >>, <<R>>}
      BY <1>0 DEF ReactorOK
    <3>2. CASE m_handlers[s] = << >>
      <4>1. Append(<< >>, R) = <<R>>
        OBVIOUS
      <4> QED
        BY <1>0, <2>1, <3>2, <4>1, Zenon DEF ReactorOK, WithHandler, R
    <3>3. CASE m_handlers[s] = <<R>>
      <4>1. <<R>>[1] = R /\ 1 \in DOMAIN <<R>> /\ R.e = "read"
        BY DEF R, EvInfo
      <4>2. \E ei \in Range(m_handlers[s]) : ei.e = "read"
        BY <3>3, <4>1 DEF Range
      <4>3. WithHandler(s, "read", FALSE) = [m_handlers EXCEPT ![s] = m_handlers[s]]
        BY <4>2, Zenon DEF WithHandler
      <4> QED
        BY <2>1, <4>3, Zenon DEF ReactorOK
    <3> QED
      BY <3>1, <3>2, <3>3
  <2>3. pipe' \in 0 .. MaxPipe /\ pipe' >= pipe
    BY <1>0, <2>1
  <2>4. Sticks
    BY <1>0, <2>1 DEF Sticks
  <2>5. rpc' \in {"loop", "poll", "process", "exited", "failed", "stuck", "crashed"}
    BY <2>1 DEF ReactorOK
  <2>6. Pipe \in todo' /\ revents'[Pipe] # {} => pipe' > 0
    BY <1>0, <2>1, <2>3 DEF ReactorOK
  <2> QED
    BY <2>1, <2>2, <2>3, <2>4, <2>5, <2>6, Zenon DEF ReactorOK
<1> QED
  BY <1>1, <1>2

\* The reactor's thread builds the poll vector, or poll() times out or fails
\* (reactor::start).
LEMMA ThreadStep ==
    ASSUME ReactorOK, Loop \/ PollTimeout \/ PollFails
    PROVE  ReactorOK' /\ Sticks
<1>1. /\ rpc \in {"loop", "poll"} /\ rpc' \in {"loop", "poll", "exited", "failed"}
      /\ poll_vec' \in {poll_vec, set_poll_vector, NoEvents}
      /\ UNCHANGED <<m_stopped, m_handlers, pipe, revents, todo, stopper>>
  BY DEF Loop, PollTimeout, PollFails
<1>2. set_poll_vector \in [Watched -> SUBSET Events] /\ NoEvents \in [Watched -> SUBSET Events]
  <2>1. ASSUME NEW s \in Watched PROVE {ei.e : ei \in Range(m_handlers[s])} \subseteq Events
    <3>1. m_handlers[s] \in {<< >>, <<R>>}
      BY DEF ReactorOK
    <3>2. \A ei \in Range(m_handlers[s]) : ei = R
      BY <3>1 DEF Range
    <3>3. R.e = "read"
      BY DEF R, EvInfo
    <3> QED
      BY <3>2, <3>3 DEF Events
  <2> QED
    BY <2>1 DEF set_poll_vector, NoEvents
<1> QED
  BY <1>1, <1>2 DEF ReactorOK, Sticks

\* poll() finds what clients and stop() did to the sockets.
LEMMA PollStep ==
    ASSUME ReactorOK, ServerPoll
    PROVE  ReactorOK' /\ Sticks
<1> PICK calls \in SUBSET listening, sent \in [Clients -> {{}, {"read"}, {"hup"}}] :
      PollReady([s \in Watched |-> FoundOn(s, calls, sent)])
  BY DEF ServerPoll
<1> DEFINE found == [s \in Watched |-> FoundOn(s, calls, sent)]
<1>1. /\ rpc = "poll" /\ rpc' = "process"
      /\ found[Pipe] = IF pipe > 0 THEN poll_vec[Pipe] ELSE {}
      /\ revents' = found /\ todo' \subseteq Watched /\ poll_vec' = NoEvents
      /\ UNCHANGED <<m_stopped, m_handlers, pipe, stopper>>
  BY DEF PollReady
<1>2. found \in [Watched -> SUBSET (Events \cup Errors)]
  <2>1. \A s \in Watched : FoundOn(s, calls, sent) \in {{}, {"read"}, {"hup"}, {"invalid"}}
    BY DEF FoundOn, Watched, Clients
  <2> QED
    BY <2>1 DEF Events, Errors
<1> HIDE DEF found
<1>3. NoEvents \in [Watched -> SUBSET Events]
  BY DEF NoEvents
<1> QED
  BY <1>1, <1>2, <1>3 DEF ReactorOK, Sticks

\* The steps of reactor::stop.
LEMMA StopStep ==
    ASSUME ReactorOK, StopBegin \/ StopWrite \/ StopEnd
    PROVE  ReactorOK' /\ Sticks
<1>1. /\ pipe' \in {pipe, pipe + 1} /\ (pipe' # pipe => pipe < MaxPipe)
      /\ stopper' \in {"write", "wait", "returned"}
      /\ UNCHANGED <<m_handlers, rpc, poll_vec, revents, todo>>
  BY DEF StopBegin, StopWrite, StopEnd
<1>2. MaxPipe \in Nat /\ pipe \in 0 .. MaxPipe
  BY ReactorAssumption DEF ReactorOK
<1>3. pipe' \in 0 .. MaxPipe /\ pipe' >= pipe
  BY <1>1, <1>2
<1>4. m_stopped' \in BOOLEAN
  BY Zenon DEF StopBegin, StopWrite, StopEnd, ReactorOK
<1> QED
  BY <1>1, <1>2, <1>3, <1>4 DEF ReactorOK, Sticks

-----------------------------------------------------------------------------
(* The server                                                               *)

\* Only an accept without TLS makes the reactor's thread wait for itself
\* (accept_handler::operator()).
LEMMA StuckStep ==
    ASSUME IInv, ReactorOK', Sticks, plain => plain'
    PROVE  StuckOnlyOnPlain'
<1>1. MaxPipe \in Nat /\ pipe \in 0 .. MaxPipe /\ pipe' \in 0 .. MaxPipe
  BY ReactorAssumption DEF IInv, ReactorOK
<1> QED
  BY <1>1 DEF IInv, Sticks, StuckOnlyOnPlain

\* A step that changes neither owners nor what they own.
LEMMA SameOwners ==
    ASSUME IInv, ReactorOK', Sticks, ServerOK',
           UNCHANGED <<open, hnd, tasks, leaked, plain, answered, undefined>>
    PROVE  IInv'
<1>1. StuckOnlyOnPlain'
  BY StuckStep
<1>2. ~undefined' => Owned'
  BY DEF IInv, Owned, OwnersOpen, OneToRun, HandshakeAlone, NoneLost, LiveHandler, Sticks
<1>3. Unanswered'
  BY DEF IInv, Unanswered
<1> QED
  BY <1>1, <1>2, <1>3 DEF IInv

\* The server has not been started.
LEMMA InitIInv == Init => IInv
<1> SUFFICES ASSUME Init PROVE IInv
  OBVIOUS
<1>1. ReactorOK
  <2>1. MaxPipe \in Nat /\ 1 \in 0 .. MaxPipe
    BY ReactorAssumption
  <2> QED
    BY <2>1, Zenon DEF Init, ReactorInit, ReactorOK, NoEvents, R
<1>2. ServerOK
  BY DEF Init, ServerOK, NoHandler
<1> QED
  BY <1>1, <1>2, Zenon DEF Init, ReactorInit, IInv, StuckOnlyOnPlain, Owned, OwnersOpen, OneToRun,
    HandshakeAlone, NoneLost, Unanswered, LiveHandler, NoHandler

\* start(), stop(), the loop of the reactor, and sockets whose handlers are not called.
LEMMA MainStep ==
    ASSUME IInv,
           \/ SetupContext \/ StopServer \/ ServerStopWrite \/ ServerStopEnd \/ JoinPool
           \/ (\E l \in Listeners : SetupSocket(l))
           \/ (\E s \in todo : ProcessIdle(s))
           \/ ServerPoll \/ ServerLoop \/ ServerPollEnds \/ UNCHANGED vars
    PROVE  IInv'
<1>0. ReactorOK /\ ServerOK
  BY DEF IInv
<1>1. UNCHANGED <<open, hnd, tasks, leaked, plain, answered, undefined>>
  BY Zenon DEF SetupContext, StopServer, ServerStopWrite, ServerStopEnd, JoinPool, SetupSocket, ProcessIdle,
    ServerPoll, ServerLoop, ServerPollEnds, vars, svars
<1>2. ReactorOK' /\ Sticks
  <2>1. CASE SetupContext \/ JoinPool \/ UNCHANGED vars
    <3>1. UNCHANGED rvars
      BY <2>1 DEF SetupContext, JoinPool, vars
    <3> QED
      BY <1>0, <3>1, SameReactor
  <2>2. CASE StopServer \/ ServerStopWrite \/ ServerStopEnd
    BY <1>0, <2>2, StopStep DEF StopServer, ServerStopWrite, ServerStopEnd
  <2>3. ASSUME NEW l \in Listeners, SetupSocket(l) PROVE ReactorOK' /\ Sticks
    <3>1. UNCHANGED rvars \/ AddHandler(l, "read", FALSE)
      BY <2>3, Zenon DEF SetupSocket
    <3>2. l \in Sockets
      BY ServerAssumption
    <3> QED
      BY <1>0, <3>1, <3>2, AddStep, SameReactor, Zenon
  <2>4. ASSUME NEW s \in todo, ProcessIdle(s) PROVE ReactorOK' /\ Sticks
    <3>1. s \in Watched
      BY <1>0 DEF ReactorOK
    <3> QED
      BY <1>0, <2>4, <3>1, ProcessStep DEF ProcessIdle
  <2>5. CASE ServerPoll
    BY <1>0, <2>5, PollStep
  <2>6. CASE ServerLoop \/ ServerPollEnds
    BY <1>0, <2>6, ThreadStep DEF ServerLoop, ServerPollEnds
  <2> QED
    BY <2>1, <2>2, <2>3, <2>4, <2>5, <2>6
<1>3. ServerOK'
  <2>1. /\ main' \in {"context", "http", "https", "started", "failed", "stop", "poolstop",
                      "joining", "stopped", "crashed"}
        /\ pool' \in {"none", "running", "stopped"}
        /\ listening' \subseteq Listeners
    <3>1. CASE SetupContext \/ StopServer \/ ServerStopEnd \/ JoinPool
      BY <1>0, <3>1 DEF ServerOK, SetupContext, StopServer, ServerStopEnd, JoinPool
    <3>2. CASE \E l \in Listeners : SetupSocket(l)
      BY <1>0, <3>2, Zenon DEF ServerOK, SetupSocket
    <3>3. CASE UNCHANGED svars
      BY <1>0, <3>3 DEF ServerOK, svars
    <3> QED
      BY <3>1, <3>2, <3>3 DEF ServerStopWrite, ProcessIdle, ServerPoll, ServerLoop,
        ServerPollEnds, vars
  <2> QED
    BY <1>0, <1>1, <2>1 DEF ServerOK
<1> QED
  BY <1>1, <1>2, <1>3, SameOwners

\* accept_handler of the https port: the socket is new to everyone.
LEMMA AcceptSecuredStep ==
    ASSUME IInv, AcceptSecured
    PROVE  IInv'
<1>0. ReactorOK /\ ServerOK /\ Https \in Watched
  BY ServerAssumption, PipeWatched DEF IInv, Listeners
<1>1. /\ UNCHANGED <<main, pool, hnd, leaked, plain, answered, undefined>>
      /\ \E ok : Process(Https, ok)
  BY Zenon DEF AcceptSecured
<1>2. ReactorOK' /\ Sticks
  BY <1>0, <1>1, ProcessStep
<1>3. StuckOnlyOnPlain'
  BY <1>1, <1>2, StuckStep
<1>4. CASE listening' = listening \ {Https} /\ UNCHANGED <<open, tasks>>
  <2>1. ServerOK'
    BY <1>0, <1>1, <1>4 DEF ServerOK
  <2> QED
    BY <1>1, <1>2, <1>4, <2>1, SameOwners
<1>5. ASSUME NEW f \in Clients \ open, open' = open \cup {f}, listening' = listening,
             tasks' = tasks \cup {Task("handshake", f, FALSE)}
      PROVE  IInv'
  <2> DEFINE n == Task("handshake", f, FALSE)
  <2>0. n.kind = "handshake" /\ n.fd = f /\ n.dangling = FALSE
    BY DEF Task
  <2>1. n \in [kind : TaskKinds, fd : Clients, dangling : BOOLEAN]
    BY DEF Task, TaskKinds
  <2>2. ServerOK'
    BY <1>0, <1>1, <1>5, <2>1, Zenon DEF ServerOK
  <2> HIDE DEF n
  <2>3. tasks' = tasks \cup {n}
    BY <1>5 DEF n
  <2>4. ASSUME ~undefined PROVE Owned'
    <3>1. OwnersOpen /\ OneToRun /\ HandshakeAlone /\ NoneLost
      BY <2>4 DEF IInv, Owned
    <3>2. ~LiveHandler(f) /\ \A t \in tasks : ~t.dangling => t.fd # f
      BY <3>1 DEF OwnersOpen
    <3>3. \A g : LiveHandler(g)' <=> LiveHandler(g)
      BY <1>1 DEF LiveHandler
    <3>4. OwnersOpen'
      BY <1>5, <2>0, <2>3, <3>1, <3>3, Zenon DEF OwnersOpen
    <3>5. OneToRun'
      BY <2>0, <2>3, <3>1, <3>2, <3>3 DEF OneToRun, ToRun
    <3>6. HandshakeAlone'
      BY <2>0, <2>3, <3>1, <3>2 DEF HandshakeAlone, Handshake
    <3>7. NoneLost'
      BY <1>1, <1>2, <1>5, <2>0, <2>3, <3>1, <3>3, Zenon DEF NoneLost, Sticks
    <3> QED
      BY <3>4, <3>5, <3>6, <3>7 DEF Owned
  <2>5. Unanswered'
    BY <1>1, <2>0, <2>3 DEF IInv, Unanswered
  <2> QED
    BY <1>1, <1>2, <1>3, <2>2, <2>4, <2>5 DEF IInv
<1> QED
  BY <1>4, <1>5, Zenon DEF AcceptSecured

\* accept_handler of the http port: the reactor waits for its lock, or is stopped and the
\* socket is leaked.
LEMMA AcceptPlainStep ==
    ASSUME IInv, AcceptPlain
    PROVE  IInv'
<1>0. ReactorOK /\ ServerOK /\ Http \in Watched
  BY ServerAssumption, PipeWatched DEF IInv, Listeners
<1>1. UNCHANGED <<main, pool, hnd, tasks, answered, undefined>>
  BY DEF AcceptPlain
<1>2. ASSUME NEW ok, Process(Http, ok), listening' = listening \ {Http},
             UNCHANGED <<open, leaked, plain>>
      PROVE  IInv'
  <2>1. ReactorOK' /\ Sticks
    BY <1>0, <1>2, ProcessStep
  <2>2. ServerOK'
    BY <1>0, <1>1, <1>2 DEF ServerOK
  <2> QED
    BY <1>1, <1>2, <2>1, <2>2, SameOwners
<1>3. ASSUME ProcessAdds(Http), NEW f \in Clients \ open, open' = open \cup {f},
             leaked' = IF m_stopped THEN leaked \cup {f} ELSE leaked,
             plain' = TRUE, listening' = listening
      PROVE  IInv'
  <2>1. /\ ReactorOK' /\ rpc # "stuck"
        /\ (m_stopped => rpc' # "stuck") /\ (~m_stopped => rpc' = "stuck")
    BY <1>0, <1>3, AddsStep
  <2>2. ServerOK' /\ StuckOnlyOnPlain'
    BY <1>0, <1>1, <1>3 DEF ServerOK, StuckOnlyOnPlain
  <2>3. ASSUME ~undefined PROVE Owned'
    <3>1. OwnersOpen /\ OneToRun /\ HandshakeAlone /\ NoneLost
      BY <2>3 DEF IInv, Owned
    <3>2. \A g : LiveHandler(g)' <=> LiveHandler(g)
      BY <1>1 DEF LiveHandler
    <3>3. OwnersOpen' /\ OneToRun' /\ HandshakeAlone'
      BY <1>1, <1>3, <3>1, <3>2 DEF OwnersOpen, OneToRun, HandshakeAlone
    <3>4. NoneLost'
      BY <1>1, <1>3, <2>1, <3>1, <3>2 DEF NoneLost
    <3> QED
      BY <3>3, <3>4 DEF Owned
  <2>4. Unanswered'
    BY <1>1 DEF IInv, Unanswered
  <2> QED
    BY <1>1, <1>3, <2>1, <2>2, <2>3, <2>4 DEF IInv
<1> QED
  BY <1>2, <1>3, Zenon DEF AcceptPlain

\* A step after which a freed object has been used comes after an answer.
LEMMA UseStep ==
    ASSUME IInv, ReactorOK', Sticks, ServerOK', UNCHANGED <<plain, answered>>,
           undefined' = TRUE, answered
    PROVE  IInv'
<1>1. StuckOnlyOnPlain'
  BY StuckStep
<1> QED
  BY <1>1 DEF IInv, Unanswered

\* read_handler with its socket: the handler gives it to a request, or closes it.
LEMMA ReadEventStep ==
    ASSUME IInv, NEW f \in Clients, ReadEvent(f)
    PROVE  IInv'
<1>0. ReactorOK /\ ServerOK /\ f \in Watched
  BY PipeWatched DEF IInv, Clients
<1>1. /\ hnd[f].there /\ ~hnd[f].dangling /\ (\E ok : Process(f, ok))
      /\ hnd' = [hnd EXCEPT ![f] = NoHandler]
      /\ \/ open' = open \ {f} /\ tasks' = Dangle(f, tasks)
         \/ tasks' = tasks \cup {Task("request", f, FALSE)} /\ open' = open
      /\ UNCHANGED <<main, pool, listening, leaked, plain, answered, undefined>>
  BY Zenon DEF ReadEvent
<1>2. ReactorOK' /\ Sticks
  BY <1>0, <1>1, ProcessStep
<1>3. StuckOnlyOnPlain'
  BY <1>1, <1>2, StuckStep
<1>4. ~NoHandler.there /\ NoHandler \in [there : BOOLEAN, dangling : BOOLEAN, shutting_down : BOOLEAN]
  BY DEF NoHandler
<1>5. /\ ~hnd'[f].there /\ \A g \in Clients : g # f => hnd'[g] = hnd[g]
      /\ hnd' \in [Clients -> [there : BOOLEAN, dangling : BOOLEAN, shutting_down : BOOLEAN]]
  BY <1>0, <1>1, <1>4 DEF ServerOK
<1>6. CASE open' = open \ {f} /\ tasks' = Dangle(f, tasks)
  <2>1. \A u \in tasks' : \E t \in tasks :
          /\ u.kind = t.kind /\ u.fd = t.fd
          /\ u \in [kind : TaskKinds, fd : Clients, dangling : BOOLEAN]
          /\ (t.fd = f => u.dangling) /\ (t.fd # f => u = t)
    BY <1>0, <1>6, Zenon DEF Dangle, ServerOK
  <2>2. \A t \in tasks : t.fd # f => t \in tasks'
    BY <1>6 DEF Dangle
  <2>3. ServerOK'
    BY <1>0, <1>1, <1>5, <1>6, <2>1 DEF ServerOK
  <2>4. ASSUME ~undefined PROVE Owned'
    <3>1. OwnersOpen /\ OneToRun /\ HandshakeAlone /\ NoneLost
      BY <2>4 DEF IInv, Owned
    <3>2. ~LiveHandler(f)' /\ \A g \in Clients : g # f => (LiveHandler(g)' <=> LiveHandler(g))
      BY <1>5 DEF LiveHandler
    <3>3. \A u \in tasks' : ~u.dangling => u \in tasks /\ u.fd # f
      BY <2>1
    <3>4. OwnersOpen'
      BY <1>6, <3>1, <3>2, <3>3 DEF OwnersOpen
    <3>5. OneToRun' /\ HandshakeAlone'
      <4>1. \A u \in tasks' : u.fd \in Clients
        BY <2>3 DEF ServerOK
      <4>2. \A u \in tasks' : Handshake(u) => ~u.dangling
        BY <1>1, <2>1, <3>1 DEF OneToRun, HandshakeAlone, Handshake, ToRun, LiveHandler
      <4>3. OneToRun'
        BY <3>1, <3>2, <3>3, <4>1 DEF OneToRun, ToRun
      <4>4. HandshakeAlone'
        BY <3>1, <3>3, <4>2 DEF HandshakeAlone
      <4> QED
        BY <4>3, <4>4
    <3>6. NoneLost'
      <4>1. open \subseteq Clients
        BY <1>0 DEF ServerOK
      <4> QED
        BY <1>1, <1>2, <1>6, <2>2, <3>1, <3>2, <4>1 DEF NoneLost, Sticks
    <3> QED
      BY <3>4, <3>5, <3>6 DEF Owned
  <2>5. Unanswered'
    <3> SUFFICES ASSUME ~answered
                 PROVE  /\ ~undefined /\ \A u \in tasks' : ~u.dangling /\ u.kind # "free"
                        /\ \A g \in Clients : hnd'[g].there => ~hnd'[g].dangling
      BY <1>1 DEF Unanswered
    <3>1. /\ ~undefined /\ \A t \in tasks : ~t.dangling /\ t.kind # "free"
          /\ \A g \in Clients : hnd[g].there => ~hnd[g].dangling
      BY DEF IInv, Unanswered
    <3>2. \A t \in tasks : t.fd # f
      BY <1>1, <3>1 DEF IInv, Owned, OneToRun, ToRun, LiveHandler
    <3> QED
      BY <1>5, <2>1, <3>1, <3>2
  <2> QED
    BY <1>1, <1>2, <1>3, <2>3, <2>4, <2>5 DEF IInv
<1>7. CASE tasks' = tasks \cup {Task("request", f, FALSE)} /\ open' = open
  <2> DEFINE n == Task("request", f, FALSE)
  <2>0. n.kind = "request" /\ n.fd = f /\ n.dangling = FALSE
    BY DEF Task
  <2>1. n \in [kind : TaskKinds, fd : Clients, dangling : BOOLEAN]
    BY DEF Task, TaskKinds
  <2>2. ServerOK'
    BY <1>0, <1>1, <1>5, <1>7, <2>1, Zenon DEF ServerOK
  <2> HIDE DEF n
  <2>3. tasks' = tasks \cup {n}
    BY <1>7 DEF n
  <2>4. ASSUME ~undefined PROVE Owned'
    <3>1. OwnersOpen /\ OneToRun /\ HandshakeAlone /\ NoneLost
      BY <2>4 DEF IInv, Owned
    <3>2. ~LiveHandler(f)' /\ \A g \in Clients : g # f => (LiveHandler(g)' <=> LiveHandler(g))
      BY <1>5 DEF LiveHandler
    <3>3. f \in open /\ \A t \in tasks : ToRun(t) => t.fd # f
      BY <1>1, <3>1 DEF OwnersOpen, OneToRun, LiveHandler
    <3>4. OwnersOpen'
      BY <1>7, <2>0, <2>3, <3>1, <3>2, <3>3, Zenon DEF OwnersOpen
    <3>5. OneToRun'
      <4>1. \A u \in tasks : u.fd \in Clients
        BY <1>0 DEF ServerOK
      <4> QED
        BY <2>0, <2>3, <3>1, <3>2, <3>3, <4>1 DEF OneToRun, ToRun
    <3>6. HandshakeAlone'
      BY <2>0, <2>3, <3>1 DEF HandshakeAlone, Handshake
    <3>7. NoneLost'
      <4>1. open \subseteq Clients
        BY <1>0 DEF ServerOK
      <4> QED
        BY <1>1, <1>2, <1>7, <2>0, <2>3, <3>1, <3>2, <4>1, Zenon DEF NoneLost, Sticks
    <3> QED
      BY <3>4, <3>5, <3>6, <3>7 DEF Owned
  <2>5. Unanswered'
    BY <1>1, <1>5, <2>0, <2>3 DEF IInv, Unanswered
  <2> QED
    BY <1>1, <1>2, <1>3, <2>2, <2>4, <2>5 DEF IInv
<1> QED
  BY <1>1, <1>6, <1>7, Zenon

\* read_handler whose socket was freed.
LEMMA ReadFreedStep ==
    ASSUME IInv, NEW f \in Clients, ReadFreed(f)
    PROVE  IInv'
<1>0. ReactorOK /\ ServerOK /\ f \in Watched
  BY PipeWatched DEF IInv, Clients
<1>1. /\ hnd[f].there /\ hnd[f].dangling /\ (\E ok : Process(f, ok))
      /\ hnd' = [hnd EXCEPT ![f] = NoHandler]
      /\ tasks' \in {tasks, tasks \cup {Task("request", f, TRUE)}}
      /\ undefined' = TRUE
      /\ UNCHANGED <<main, pool, listening, open, leaked, plain, answered>>
  BY Zenon DEF ReadFreed
<1>2. ReactorOK' /\ Sticks
  BY <1>0, <1>1, ProcessStep
<1>3. ServerOK'
  <2>1. Task("request", f, TRUE) \in
          [kind : TaskKinds, fd : Clients, dangling : BOOLEAN]
    BY DEF Task, TaskKinds
  <2>2. NoHandler \in [there : BOOLEAN, dangling : BOOLEAN, shutting_down : BOOLEAN]
    BY DEF NoHandler
  <2> QED
    BY <1>0, <1>1, <2>1, <2>2, Zenon DEF ServerOK
<1>4. answered
  BY <1>1 DEF IInv, Unanswered
<1> QED
  BY <1>1, <1>2, <1>3, <1>4, UseStep

\* The types of what a task of the pool and a handler are.
TaskType    == [kind : TaskKinds, fd : Clients, dangling : BOOLEAN]
HandlerType == [there : BOOLEAN, dangling : BOOLEAN, shutting_down : BOOLEAN]

\* A task frees the socket that it owns: whoever else refers to it dangles.
LEMMA FreesStep ==
    ASSUME IInv, NEW t \in tasks, ~t.dangling, UNCHANGED rvars,
           open' = open \ {t.fd}, hnd' = DangleHandler(t.fd),
           tasks' = Dangle(t.fd, tasks \ {t}),
           UNCHANGED <<main, pool, listening, leaked, plain, answered, undefined>>
    PROVE  IInv'
<1>0. ReactorOK /\ ServerOK /\ t.fd \in Clients
  BY DEF IInv, ServerOK
<1>1. PICK f \in Clients : f = t.fd
  BY <1>0
<1>2. ReactorOK' /\ Sticks
  BY <1>0, SameReactor
<1>3. StuckOnlyOnPlain'
  BY <1>2, StuckStep
<1>4. \A u \in tasks' : \E v \in tasks :
        /\ u.kind = v.kind /\ u.fd = v.fd /\ u \in TaskType /\ v # t
        /\ (v.fd = f => u.dangling) /\ (v.fd # f => u = v)
  BY <1>0, <1>1, Zenon DEF Dangle, ServerOK, TaskType
<1>5. \A v \in tasks : v.fd # f => v \in tasks'
  BY <1>1 DEF Dangle
<1>6. hnd' = [hnd EXCEPT ![f].dangling = hnd[f].dangling \/ hnd[f].there]
  BY <1>1 DEF DangleHandler
<1>7. /\ hnd[f] \in HandlerType /\ hnd' \in [Clients -> HandlerType]
      /\ hnd'[f].there = hnd[f].there
      /\ hnd'[f].dangling = (hnd[f].dangling \/ hnd[f].there)
      /\ \A g \in Clients : g # f => hnd'[g] = hnd[g]
  BY <1>0, <1>6 DEF ServerOK, HandlerType
<1>8. ServerOK'
  BY <1>0, <1>4, <1>7, Zenon DEF ServerOK, TaskType, HandlerType
<1>9. ASSUME ~undefined PROVE Owned'
  <2>1. OwnersOpen /\ OneToRun /\ HandshakeAlone /\ NoneLost
    BY <1>9 DEF IInv, Owned
  <2>2. ~LiveHandler(f)' /\ \A g \in Clients : g # f => (LiveHandler(g)' <=> LiveHandler(g))
    BY <1>7, Zenon DEF LiveHandler
  <2>3. \A u \in tasks' : ~u.dangling => u \in tasks /\ u.fd # f
    BY <1>4
  <2>4. OwnersOpen'
    BY <1>1, <2>1, <2>2, <2>3 DEF OwnersOpen
  <2>5. OneToRun' /\ HandshakeAlone'
    <3>1. \A u \in tasks' : u.fd \in Clients
      BY <1>8, Zenon DEF ServerOK
    <3>2. \A u \in tasks' : Handshake(u) => ~u.dangling
      BY <1>1, <1>4, <2>1 DEF OneToRun, HandshakeAlone, Handshake, ToRun
    <3>3. OneToRun'
      BY <2>1, <2>2, <2>3, <3>1, Zenon DEF OneToRun, ToRun
    <3>4. HandshakeAlone'
      BY <2>1, <2>3, <3>2 DEF HandshakeAlone
    <3> QED
      BY <3>3, <3>4
  <2>6. NoneLost'
    <3>1. open \subseteq Clients
      BY <1>0 DEF ServerOK
    <3> QED
      BY <1>1, <1>2, <1>5, <2>1, <2>2, <3>1, Zenon DEF NoneLost, Sticks
  <2> QED
    BY <2>4, <2>5, <2>6 DEF Owned
<1>10. Unanswered'
  <2> SUFFICES ASSUME ~answered
               PROVE  /\ ~undefined /\ \A u \in tasks' : ~u.dangling /\ u.kind # "free"
                      /\ \A g \in Clients : hnd'[g].there => ~hnd'[g].dangling
    BY DEF Unanswered
  <2>1. /\ ~undefined /\ \A v \in tasks : ~v.dangling /\ v.kind # "free"
        /\ \A g \in Clients : hnd[g].there => ~hnd[g].dangling
    BY DEF IInv, Unanswered
  <2>2. \A v \in tasks : v.fd = f => v = t
    BY <1>1, <2>1 DEF IInv, Owned, OneToRun, ToRun
  <2>3. ~hnd[f].there
    BY <1>1, <2>1 DEF IInv, Owned, OneToRun, ToRun, LiveHandler
  <2>4. \A u \in tasks' : ~u.dangling /\ u.kind # "free"
    <3> SUFFICES ASSUME NEW u \in tasks' PROVE ~u.dangling /\ u.kind # "free"
      OBVIOUS
    <3>1. PICK v \in tasks : v # t /\ (v.fd # f => u = v)
      BY <1>4
    <3>2. u = v
      BY <2>2, <3>1
    <3> QED
      BY <2>1, <3>2
  <2>5. ~hnd'[f].there
    BY <1>7, <2>3
  <2>6. \A g \in Clients : hnd'[g].there => ~hnd'[g].dangling
    BY <1>7, <2>1, <2>5
  <2> QED
    BY <2>1, <2>4, <2>6
<1> QED
  BY <1>2, <1>3, <1>8, <1>9, <1>10 DEF IInv

\* add_handler() of a read_handler.
LEMMA RegisterFacts ==
    ASSUME IInv, NEW f \in Clients, NEW h \in HandlerType, Register(f, h)
    PROVE  /\ ReactorOK' /\ Sticks
           /\ hnd' \in [Clients -> HandlerType]
           /\ hnd'[f] = IF m_stopped THEN hnd[f] ELSE h
           /\ \A g \in Clients : g # f => hnd'[g] = hnd[g]
           /\ undefined' = (undefined \/ (~m_stopped /\ hnd[f].there))
<1>1. ReactorOK /\ hnd \in [Clients -> HandlerType] /\ f \in Sockets
  BY DEF IInv, ServerOK, HandlerType, Clients
<1>2. AddHandler(f, "read", FALSE)
  BY Zenon DEF Register
<1>3. ReactorOK' /\ Sticks
  BY <1>1, <1>2, AddStep, Zenon
<1> QED
  BY <1>1, <1>3 DEF Register

\* process_ssl_handshake(): the socket is closed, or given to a handler.
LEMMA HandshakeStep ==
    ASSUME IInv, NEW t \in tasks, RunHandshake(t)
    PROVE  IInv'
<1>0. ReactorOK /\ ServerOK /\ t.fd \in Clients /\ t.kind = "shaking"
  BY DEF IInv, ServerOK, RunHandshake
<1>1. PICK f \in Clients : f = t.fd
  BY <1>0
<1>2. tasks' = tasks \ {t} /\ UNCHANGED <<main, pool, listening, plain, answered>>
  BY DEF RunHandshake
<1>3. ~undefined => /\ ~t.dangling /\ ToRun(t) /\ ~LiveHandler(f) /\ f \in open
                    /\ \A u \in tasks : u # t /\ ~u.dangling => u.fd # f
  BY <1>0, <1>1 DEF IInv, Owned, OwnersOpen, OneToRun, HandshakeAlone, Handshake, ToRun
<1>4. ASSUME open' = open \ {f}, UNCHANGED <<rvars, hnd, leaked, undefined>>
      PROVE  IInv'
  <2>1. ReactorOK' /\ Sticks
    BY <1>0, <1>4, SameReactor
  <2>2. ServerOK' /\ StuckOnlyOnPlain'
    BY <1>0, <1>2, <1>4, <2>1, StuckStep DEF ServerOK
  <2>3. ASSUME ~undefined PROVE Owned'
    <3>1. OwnersOpen /\ OneToRun /\ HandshakeAlone /\ NoneLost
      BY <2>3 DEF IInv, Owned
    <3>2. \A g : LiveHandler(g)' <=> LiveHandler(g)
      BY <1>4 DEF LiveHandler
    <3>3. OwnersOpen'
      BY <1>2, <1>3, <1>4, <2>3, <3>1, <3>2 DEF OwnersOpen
    <3>4. OneToRun' /\ HandshakeAlone'
      BY <1>2, <3>1, <3>2 DEF OneToRun, HandshakeAlone
    <3>5. NoneLost'
      BY <1>1, <1>2, <1>4, <2>1, <3>1, <3>2 DEF NoneLost, Sticks
    <3> QED
      BY <3>3, <3>4, <3>5 DEF Owned
  <2>4. Unanswered'
    BY <1>2, <1>4 DEF IInv, Unanswered
  <2> QED
    BY <1>2, <1>4, <2>1, <2>2, <2>3, <2>4 DEF IInv
<1>5. ASSUME Register(f, ReadHandler(FALSE, FALSE)), open' = open,
             leaked' = IF m_stopped THEN leaked \cup {f} ELSE leaked
      PROVE  IInv'
  <2> DEFINE h == ReadHandler(FALSE, FALSE)
  <2>0. h \in HandlerType /\ h.there = TRUE /\ h.dangling = FALSE
    BY DEF ReadHandler, HandlerType
  <2> HIDE DEF h
  <2>1. /\ ReactorOK' /\ Sticks
        /\ hnd' \in [Clients -> HandlerType]
        /\ hnd'[f] = IF m_stopped THEN hnd[f] ELSE h
        /\ \A g \in Clients : g # f => hnd'[g] = hnd[g]
        /\ undefined' = (undefined \/ (~m_stopped /\ hnd[f].there))
    BY <1>5, <2>0, RegisterFacts, Zenon DEF h
  <2>2. ServerOK' /\ StuckOnlyOnPlain'
    <3>1. ServerOK'
      BY <1>0, <1>2, <1>5, <2>1 DEF ServerOK, HandlerType
    <3> QED
      BY <1>2, <2>1, <3>1, StuckStep
  <2>3. undefined' \in BOOLEAN /\ (undefined => undefined')
    BY <2>1 DEF IInv
  <2>4. ASSUME ~undefined' PROVE Owned'
    <3>0. ~undefined
      BY <2>3, <2>4
    <3>1. OwnersOpen /\ OneToRun /\ HandshakeAlone /\ NoneLost
      BY <3>0 DEF IInv, Owned
    <3>2. \A g \in Clients : g # f => (LiveHandler(g)' <=> LiveHandler(g))
      BY <2>1 DEF LiveHandler
    <3>3. LiveHandler(f)' <=> ~m_stopped
      BY <1>3, <2>0, <2>1, <3>0 DEF LiveHandler
    <3>4. \A u \in tasks' : u \in tasks /\ u # t /\ u.fd \in Clients
      BY <1>0, <1>2 DEF ServerOK
    <3>5. OwnersOpen'
      BY <1>3, <1>5, <3>0, <3>1, <3>2, <3>4 DEF OwnersOpen
    <3>6. OneToRun'
      BY <1>3, <3>0, <3>1, <3>2, <3>4 DEF OneToRun, ToRun
    <3>7. HandshakeAlone'
      BY <3>1, <3>4 DEF HandshakeAlone
    <3>8. NoneLost'
      <4>1. open \subseteq Clients
        BY <1>0 DEF ServerOK
      <4> QED
        BY <1>1, <1>2, <1>5, <2>1, <3>1, <3>2, <3>3, <4>1 DEF NoneLost, Sticks
    <3> QED
      BY <3>5, <3>6, <3>7, <3>8 DEF Owned
  <2>5. Unanswered'
    <3> SUFFICES ASSUME ~answered
                 PROVE  /\ ~undefined' /\ \A u \in tasks' : ~u.dangling /\ u.kind # "free"
                        /\ \A g \in Clients : hnd'[g].there => ~hnd'[g].dangling
      BY <1>2 DEF Unanswered
    <3>1. /\ ~undefined /\ \A u \in tasks : ~u.dangling /\ u.kind # "free"
          /\ \A g \in Clients : hnd[g].there => ~hnd[g].dangling
      BY DEF IInv, Unanswered
    <3>2. ~hnd[f].there
      BY <1>3, <3>1 DEF LiveHandler
    <3> QED
      BY <1>2, <2>0, <2>1, <3>1, <3>2, Zenon
  <2> QED
    BY <1>2, <2>1, <2>2, <2>3, <2>4, <2>5 DEF IInv
<1> QED
  BY <1>1, <1>4, <1>5, Zenon DEF RunHandshake

\* process_request(): an answer, an exception, or a socket that was already freed.
LEMMA RequestStep ==
    ASSUME IInv, NEW t \in tasks, RunRequest(t)
    PROVE  IInv'
<1>0. ReactorOK /\ ServerOK /\ t.fd \in Clients /\ t.kind = "serving"
  BY DEF IInv, ServerOK, RunRequest
<1>1. PICK f \in Clients : f = t.fd
  BY <1>0
<1>2. UNCHANGED <<main, pool, listening, leaked, plain>>
  BY DEF RunRequest
<1>3. ASSUME NEW shutting \in BOOLEAN, Register(f, ReadHandler(FALSE, shutting)), ~t.dangling,
             tasks' = (tasks \ {t}) \cup {ToFree(f)}, answered' = TRUE, open' = open
      PROVE  IInv'
  <2> DEFINE h == ReadHandler(FALSE, shutting)
             n == ToFree(f)
             m == Task("free", f, FALSE)
  <2>0. h \in HandlerType /\ n \in TaskType /\ n.kind = "free" /\ n.fd = f
    BY DEF ReadHandler, HandlerType, ToFree, Task, TaskType, TaskKinds
  <2>10. m.kind = "free" /\ m.fd = f /\ m.dangling = FALSE /\ (n.dangling => m \in tasks)
    BY DEF ToFree, Task
  <2> HIDE DEF h, n, m
  <2>1. /\ ReactorOK' /\ Sticks
        /\ hnd' \in [Clients -> HandlerType]
        /\ hnd'[f] = IF m_stopped THEN hnd[f] ELSE h
        /\ \A g \in Clients : g # f => hnd'[g] = hnd[g]
        /\ undefined' = (undefined \/ (~m_stopped /\ hnd[f].there))
    BY <1>3, <2>0, RegisterFacts, Zenon DEF h
  <2>2. tasks' = (tasks \ {t}) \cup {n}
    BY <1>3 DEF n
  <2>3. ServerOK' /\ StuckOnlyOnPlain'
    <3>1. ServerOK'
      BY <1>0, <1>2, <1>3, <2>0, <2>1, <2>2, Zenon DEF ServerOK, HandlerType, TaskType
    <3> QED
      BY <1>2, <2>1, <3>1, StuckStep
  <2>4. undefined' \in BOOLEAN /\ (undefined => undefined')
    BY <2>1 DEF IInv
  <2>5. ASSUME ~undefined' PROVE Owned'
    <3>0. ~undefined
      BY <2>4, <2>5
    <3>1. OwnersOpen /\ OneToRun /\ HandshakeAlone /\ NoneLost
      BY <3>0 DEF IInv, Owned
    <3>2. /\ ToRun(t) /\ f \in open
          /\ \A u \in tasks : u # t /\ ToRun(u) => u.fd # f
      BY <1>0, <1>1, <1>3, <3>1 DEF OwnersOpen, OneToRun, ToRun
    <3>3. \A g \in Clients : g # f => (LiveHandler(g)' <=> LiveHandler(g))
      BY <2>1 DEF LiveHandler
    <3>4. \A u \in tasks' : u = n \/ (u \in tasks /\ u # t /\ u.fd \in Clients)
      BY <1>0, <2>2 DEF ServerOK
    <3>5. OwnersOpen'
      BY <1>3, <2>0, <3>1, <3>2, <3>3, <3>4, Zenon DEF OwnersOpen
    <3>6. OneToRun'
      BY <2>0, <3>1, <3>2, <3>3, <3>4 DEF OneToRun, ToRun
    <3>7. HandshakeAlone'
      <4>1. \A u \in tasks : Handshake(u) => u.fd # f
        BY <1>0, <3>1, <3>2 DEF HandshakeAlone, Handshake, ToRun
      <4> QED
        BY <2>0, <3>1, <3>4, <4>1 DEF HandshakeAlone, Handshake
    <3>8. NoneLost'
      <4>1. open \subseteq Clients
        BY <1>0 DEF ServerOK
      <4>2. \A u \in tasks : u.fd # f => u \in tasks'
        BY <1>1, <2>2
      <4>3. \E u \in tasks' : u.fd = f /\ ~u.dangling
        <5>1. CASE n.dangling
          BY <1>0, <2>2, <2>10, <5>1
        <5>2. CASE ~n.dangling
          BY <2>0, <2>2, <5>2
        <5> QED
          BY <5>1, <5>2
      <4> QED
        BY <1>2, <1>3, <2>1, <3>1, <3>3, <4>1, <4>2, <4>3, Zenon DEF NoneLost, Sticks
    <3> QED
      BY <3>5, <3>6, <3>7, <3>8 DEF Owned
  <2>6. Unanswered'
    BY <1>3 DEF Unanswered
  <2> QED
    BY <1>2, <1>3, <2>1, <2>3, <2>4, <2>5, <2>6 DEF IInv
<1>4. ASSUME ~t.dangling, tasks' = Dangle(f, tasks \ {t}), hnd' = DangleHandler(f),
             open' = open \ {f}, UNCHANGED <<rvars, answered, undefined>>
      PROVE  IInv'
  BY <1>1, <1>2, <1>4, FreesStep
<1>5. ASSUME t.dangling, tasks' = tasks \ {t}, undefined' = TRUE,
             UNCHANGED <<rvars, open, hnd, answered>>
      PROVE  IInv'
  <2>1. ReactorOK' /\ Sticks
    BY <1>0, <1>5, SameReactor
  <2>2. ServerOK'
    BY <1>0, <1>2, <1>5 DEF ServerOK
  <2>3. answered
    BY <1>5 DEF IInv, Unanswered
  <2> QED
    BY <1>2, <1>5, <2>1, <2>2, <2>3, UseStep
<1> QED
  BY <1>1, <1>3, <1>4, <1>5, Zenon DEF RunRequest

\* The end of process_request().
LEMMA FreeStep ==
    ASSUME IInv, NEW t \in tasks, FreeSocket(t)
    PROVE  IInv'
<1>0. ReactorOK /\ ServerOK
  BY DEF IInv
<1>1. t.kind = "free" /\ UNCHANGED <<rvars, main, pool, listening, leaked, plain, answered>>
  BY DEF FreeSocket
<1>2. ReactorOK' /\ Sticks
  BY <1>0, <1>1, SameReactor
<1>3. CASE t.dangling
  <2>1. tasks' = tasks \ {t} /\ undefined' = TRUE /\ UNCHANGED <<open, hnd>>
    BY <1>3 DEF FreeSocket
  <2>2. ServerOK'
    BY <1>0, <1>1, <2>1 DEF ServerOK
  <2>3. answered
    BY <1>3 DEF IInv, Unanswered
  <2> QED
    BY <1>1, <1>2, <2>1, <2>2, <2>3, UseStep
<1>4. CASE ~t.dangling
  <2>1. /\ open' = open \ {t.fd} /\ hnd' = DangleHandler(t.fd)
        /\ tasks' = Dangle(t.fd, tasks \ {t}) /\ undefined' = undefined
    BY <1>4 DEF FreeSocket
  <2> QED
    BY <1>1, <1>4, <2>1, FreesStep
<1> QED
  BY <1>3, <1>4

\* The pool is stopped: the tasks that wait are dropped, and their sockets leaked.
LEMMA StopPoolStep ==
    ASSUME IInv, StopPool
    PROVE  IInv'
<1>0. ReactorOK /\ ServerOK
  BY DEF IInv
<1>1. /\ main' \in {"crashed", "joining"} /\ pool' \in {pool, "stopped"}
      /\ tasks' = {t \in tasks : ~Waiting(t)}
      /\ leaked' = leaked \cup {t.fd : t \in {u \in tasks : Waiting(u)}}
      /\ UNCHANGED <<rvars, listening, open, hnd, plain, answered, undefined>>
  BY DEF StopPool
<1>2. ReactorOK' /\ Sticks
  BY <1>0, <1>1, SameReactor
<1>3. ServerOK' /\ StuckOnlyOnPlain'
  <2>1. {t.fd : t \in {u \in tasks : Waiting(u)}} \subseteq Clients
    BY <1>0 DEF ServerOK
  <2> QED
    BY <1>0, <1>1, <1>2, <2>1, StuckStep DEF ServerOK
<1>4. ~undefined => Owned'
  <2> SUFFICES ASSUME ~undefined PROVE Owned'
    OBVIOUS
  <2>1. OwnersOpen /\ OneToRun /\ HandshakeAlone /\ NoneLost
    BY DEF IInv, Owned
  <2>2. \A g : LiveHandler(g)' <=> LiveHandler(g)
    BY <1>1 DEF LiveHandler
  <2>3. /\ tasks' \subseteq tasks
        /\ \A t \in tasks : t.fd \notin leaked' => t \in tasks'
    BY <1>1
  <2>4. OwnersOpen' /\ OneToRun' /\ HandshakeAlone'
    BY <1>1, <2>1, <2>2, <2>3 DEF OwnersOpen, OneToRun, HandshakeAlone
  <2>5. NoneLost'
    BY <1>1, <1>2, <2>1, <2>2, <2>3 DEF NoneLost, Sticks
  <2> QED
    BY <2>4, <2>5 DEF Owned
<1>5. Unanswered'
  BY <1>1 DEF IInv, Unanswered
<1> QED
  BY <1>1, <1>2, <1>3, <1>4, <1>5 DEF IInv

\* A worker takes a task: who owns the socket stays the same (thread_pool::runner).
LEMMA StartStep ==
    ASSUME IInv, NEW t \in tasks, StartTask(t)
    PROVE  IInv'
<1> DEFINE n == Task(IF Handshake(t) THEN "shaking" ELSE "serving", t.fd, t.dangling)
<1>0. ReactorOK /\ ServerOK /\ t \in TaskType /\ t.kind # "free"
  BY DEF IInv, ServerOK, TaskType, StartTask, Waiting
<1>1. /\ tasks' = (tasks \ {t}) \cup {n}
      /\ UNCHANGED <<rvars, main, pool, listening, open, hnd, leaked, plain, answered, undefined>>
  BY DEF StartTask
<1>2. /\ n \in TaskType /\ n.fd = t.fd /\ n.dangling = t.dangling /\ n.kind # "free"
      /\ Handshake(n) => Handshake(t)
  BY <1>0 DEF Task, TaskType, TaskKinds, Handshake
<1> HIDE DEF n
<1>3. ReactorOK' /\ Sticks
  BY <1>0, <1>1, SameReactor
<1>4. ServerOK' /\ StuckOnlyOnPlain'
  BY <1>0, <1>1, <1>2, <1>3, StuckStep DEF ServerOK, TaskType
<1>5. ASSUME ~undefined PROVE Owned'
  <2>1. OwnersOpen /\ OneToRun /\ HandshakeAlone /\ NoneLost
    BY <1>5 DEF IInv, Owned
  <2>2. \A g : LiveHandler(g)' <=> LiveHandler(g)
    BY <1>1 DEF LiveHandler
  <2>3. \A u \in tasks' : u = n \/ (u \in tasks /\ u # t)
    BY <1>1
  <2>4. OwnersOpen'
    BY <1>1, <1>2, <2>1, <2>2, <2>3 DEF OwnersOpen
  <2>5. OneToRun'
    BY <1>0, <1>2, <2>1, <2>2, <2>3 DEF OneToRun, ToRun
  <2>6. HandshakeAlone'
    BY <1>2, <2>1, <2>3 DEF HandshakeAlone
  <2>7. NoneLost'
    <3>1. \A u \in tasks : u = t \/ u \in tasks'
      BY <1>1
    <3>2. n \in tasks'
      BY <1>1
    <3> QED
      BY <1>1, <1>2, <1>3, <2>1, <2>2, <3>1, <3>2 DEF NoneLost, Sticks
  <2> QED
    BY <2>4, <2>5, <2>6, <2>7 DEF Owned
<1>6. Unanswered'
  BY <1>1, <1>2 DEF IInv, Unanswered
<1> QED
  BY <1>1, <1>3, <1>4, <1>5, <1>6 DEF IInv

\* Every step of the server keeps the inductive invariant.
LEMMA NextStep == IInv /\ [Next]_vars => IInv'
BY MainStep, AcceptSecuredStep, AcceptPlainStep, ReadEventStep, ReadFreedStep, HandshakeStep,
  RequestStep, FreeStep, StopPoolStep, StartStep
  DEF Next, Main, Handlers, Pool

\* The inductive invariant always holds.
LEMMA AlwaysIInv == Spec => []IInv
BY InitIInv, NextStep, PTL DEF Spec

-----------------------------------------------------------------------------

\* The invariant gives the type, and the number of owners.
LEMMA OwnersCounted == IInv => OneOwner
<1> SUFFICES ASSUME IInv PROVE OneOwner
  OBVIOUS
<1>1. TypeOK
  <2>1. ASSUME NEW s \in Watched
        PROVE  /\ m_handlers[s] \in Seq([e : Events, to : BOOLEAN, past : BOOLEAN])
               /\ Len(m_handlers[s]) <= 2
    <3> DEFINE E == [e : Events, to : BOOLEAN, past : BOOLEAN]
    <3>1. m_handlers[s] \in {<< >>, <<R>>} /\ R \in E
      BY DEF IInv, ReactorOK, R, EvInfo, Events
    <3> HIDE DEF E
    <3>2. /\ << >> \in Seq(E) /\ Len(<< >>) = 0
          /\ <<R>> \in Seq(E) /\ Len(<<R>>) = 1
      BY <3>1
    <3>3. CASE m_handlers[s] = << >>
      BY <3>2, <3>3 DEF E
    <3>4. CASE m_handlers[s] = <<R>>
      BY <3>2, <3>4 DEF E
    <3> QED
      BY <3>1, <3>3, <3>4
  <2> QED
    BY <2>1, Zenon DEF IInv, ReactorOK, ServerOK, TypeOK, ReactorTypeOK
<1>2. ASSUME ~undefined, NEW f \in open \ leaked, Task("free", f, FALSE) \notin tasks, rpc # "stuck"
      PROVE  Cardinality(Owners(f)) = 1
  <2>1. OwnersOpen /\ OneToRun /\ NoneLost /\ f \in Clients
    BY <1>2 DEF IInv, Owned, ServerOK
  <2>2. ASSUME NEW t \in tasks, t.fd = f, ~t.dangling PROVE ToRun(t)
    <3>1. t = [kind |-> t.kind, fd |-> t.fd, dangling |-> t.dangling] /\ t.dangling = FALSE
      BY <2>2 DEF IInv, ServerOK
    <3> QED
      BY <1>2, <2>2, <3>1, Zenon DEF ToRun, Task
  <2>3. \E x : Owners(f) = {x}
    <3>1. CASE LiveHandler(f)
      <4>1. \A t \in tasks : ~(t.fd = f /\ ~t.dangling)
        BY <2>1, <2>2, <3>1 DEF OneToRun
      <4>2. Owners(f) = {hnd[f]}
        BY <3>1, <4>1 DEF Owners, LiveHandler
      <4> QED
        BY <4>2
    <3>2. CASE ~LiveHandler(f)
      <4>1. PICK t \in tasks : t.fd = f /\ ~t.dangling
        BY <1>2, <2>1, <3>2 DEF NoneLost
      <4>2. \A u \in tasks : u.fd = f /\ ~u.dangling => u = t
        BY <2>1, <2>2, <4>1 DEF OneToRun
      <4>3. Owners(f) = {t}
        BY <3>2, <4>1, <4>2 DEF Owners, LiveHandler
      <4> QED
        BY <4>3
    <3> QED
      BY <3>1, <3>2
  <2> QED
    BY <2>3, FS_Singleton, Zenon
<1> QED
  BY <1>1, <1>2, Zenon DEF OneOwner, IInv

\* However many clients connect, an open connection has one owner as long as no freed
\* object was used (accept_handler, read_handler, process_ssl_handshake,
\* process_request), but for the end of process_request() and what a stop loses; and the
\* reactor waits for its own lock only after a connection without TLS or a full pair.
THEOREM ConnectionsOwned == Spec => []OneOwner
BY AlwaysIInv, OwnersCounted, PTL

\* Before the first answer no freed socket is used, whatever handshakes fail, requests
\* throw, clients hang up and wherever stop() comes: process_request(), which gives the
\* handler a socket it still owns, is the only cause.
THEOREM OnlyAnswersFree == Spec => []FreedAfterAnswer
<1>1. IInv => FreedAfterAnswer
  BY DEF IInv, Unanswered, FreedAfterAnswer
<1> QED
  BY <1>1, AlwaysIInv, PTL
=============================================================================
