------------------------------ MODULE MCThreads ------------------------------
(***************************************************************************)
(* The parts whose progress matters - the thread pool, the reactor with    *)
(* handlers that return what they like, and the two ends of a message body *)
(* - each on its own instance.  They share no state, so one run checks     *)
(* them all: a behaviour is one of the part that is chosen at first, and   *)
(* fair to its steps.                                                      *)
(***************************************************************************)
EXTENDS ThreadPool

CONSTANTS
    Sockets, MaxPipe, Forever,                      \* of Reactor
    Chars, MaxPieces, MaxPiece, MaxBody, CHUNKSIZE, INT_MAX  \* of Wire

VARIABLES
    part,
    m_stopped, m_handlers, pipe, rpc, poll_vec, revents, todo, reactorStopper,
    src, sent, spc, wire, closed, m_size, m_read, got, kind, readerPc

\* the digits of chunk sizes
Digits == [d \in {"0", "1", "2", "3"} |->
             CASE d = "0" -> 0 [] d = "1" -> 1 [] d = "2" -> 2 [] d = "3" -> 3]

React == INSTANCE Reactor WITH stopper <- reactorStopper
Body == INSTANCE Wire WITH Hex <- Digits, rpc <- readerPc

reactorVars == <<m_stopped, m_handlers, pipe, rpc, poll_vec, revents, todo, reactorStopper>>
bodyVars    == <<src, sent, spc, wire, closed, m_size, m_read, got, kind, readerPc>>
threadsVars == <<part, vars, reactorVars, bodyVars>>

\* the part starts in any of its initial states, the others in one
ThreadsInit ==
    /\ part \in {"pool", "reactor", "body"}
    /\ Init /\ React!ReactorInit /\ Body!Init
    /\ part # "pool" => hc = CHOOSE n \in Concurrency : TRUE
    /\ part # "body" => src = (CHOOSE s \in Body!Bodies : TRUE) /\ kind = "socket"

PoolStep(A)    == part = "pool" /\ A /\ UNCHANGED <<part, reactorVars, bodyVars>>
ReactorStep(A) == part = "reactor" /\ A /\ UNCHANGED <<part, vars, bodyVars>>
BodyStep(A)    == part = "body" /\ A /\ UNCHANGED <<part, vars, reactorVars>>

ThreadsNext == PoolStep(Next) \/ ReactorStep(React!ReactorNext) \/ BodyStep(Body!Next)

\* The fairness of ThreadPool, Reactor and Wire, each for the part that was chosen.
ThreadsFairness ==
    /\ \A w \in Workers : WF_threadsVars(PoolStep(Worker(w)))
    /\ WF_threadsVars(PoolStep(invalidate \/ join))
    /\ WF_threadsVars(ReactorStep(React!Loop))
    /\ WF_threadsVars(ReactorStep(React!PollTimeout))
    /\ WF_threadsVars(ReactorStep(React!PollWoken))
    /\ WF_threadsVars(ReactorStep(React!ProcessNext))
    /\ WF_threadsVars(ReactorStep(React!StopWrite))
    /\ WF_threadsVars(ReactorStep(React!StopEnd))
    /\ WF_threadsVars(BodyStep(Body!Read))

ThreadsSpec == ThreadsInit /\ [][ThreadsNext]_threadsVars /\ ThreadsFairness

-----------------------------------------------------------------------------
\* stop() of the pool and of the reactor return: no worker sleeps through it, and the reactor's
\* thread is woken from poll() and ends, unless it waits for m_lock for ever, has crashed or
\* has ended and left the socket pair full (thread_pool::stop, reactor::stop).
StopsReturn == StopReturns /\ React!ReactorStops

\* What a reader of a body has got is a prefix of what was sent; the end of the body is found
\* only when all of it was read and, on a connection, nothing of the message that follows; and
\* send_body() reports success only when it wrote what the headers announce, for pieces that
\* fit in an int (transmitter::send_body, body_source_socket::next).
BodyRead == part = "body" => Body!ReadsWhatWasSent

\* The loop that reads a body ends while the connection is not cut and, over TLS, when the
\* whole message was sent: every call of has_next() and next() brings it nearer to the end, or
\* fails (body_source_socket::has_next, next; socket::readn, connection::readn).
BodyEnds == part = "body" => Body!ReadingEnds

\* A chunked body that was read to its end was read in full, in however many chunks it came:
\* the data read is that of the current chunk (body.cpp:349).
ChunksReadInFull == part = "body" => Body!ChunksReadInFull
=============================================================================
