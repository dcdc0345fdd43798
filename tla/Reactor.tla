------------------------------- MODULE Reactor -------------------------------
(***************************************************************************)
(* snf::net::reactor: one thread polls the sockets that have handlers and  *)
(* calls the handlers of those that are ready; other threads add and       *)
(* remove handlers under m_lock and then write to a socket pair so that    *)
(* poll() returns and the thread looks at the handlers again.              *)
(*                                                                         *)
(* Socket 0 is the end of the pair the thread reads.  A call of handlers   *)
(* for one socket is one step, as it holds m_lock.  What a handler returns *)
(* is a parameter of that step; the modules that use the reactor choose    *)
(* it.  The log line after an erase reads the erased entry: when that was  *)
(* the last one, the behaviour is undefined, and the build may crash or    *)
(* carry on.                                                               *)
(***************************************************************************)
EXTENDS Integers, Sequences, FiniteSets, Functions

CONSTANTS
    Sockets,        \* without the socket pair
    MaxPipe,        \* the integers the socket pair holds before a write blocks
    Forever         \* whether m_timeout is POLL_WAIT_FOREVER

ASSUME ReactorAssumption ==
    Sockets \subseteq Nat \ {0} /\ MaxPipe \in Nat \ {0} /\ Forever \in BOOLEAN

Pipe    == 0
Watched == {Pipe} \cup Sockets
Events  == {"read", "write"}
Errors  == {"error", "hup", "invalid"}

VARIABLES
    m_stopped,
    m_handlers,     \* of each socket: its ev_infos, none if it is not in the map
    pipe,           \* the integers in the socket pair
    rpc,            \* the thread: "loop", "poll", "process", "exited", "failed",
                    \* "stuck" on m_lock in a handler, "crashed"
    poll_vec,       \* of each socket: the events poll() waits for
    revents,        \* of each socket: the events poll() found
    todo,           \* the sockets of poll_vec still to be processed
    stopper         \* stop(): "no", "write", "wait", "returned"

rvars == <<m_stopped, m_handlers, pipe, rpc, poll_vec, revents, todo, stopper>>

NoEvents == [s \in Watched |-> {}]

\* the ev_info of event e: whether it has a time-out, and whether that has passed
EvInfo(e, to) == [e |-> e, to |-> to, past |-> FALSE]

\* reactor()
ReactorInit ==
    /\ m_stopped = FALSE
    /\ m_handlers = [s \in Watched |-> IF s = Pipe THEN <<EvInfo("read", FALSE)>> ELSE << >>]
    /\ pipe = 1
    /\ rpc = "loop" /\ poll_vec = NoEvents /\ revents = NoEvents /\ todo = {}
    /\ stopper = "no"

-----------------------------------------------------------------------------
(* The thread of the reactor                                                *)

\* the events to poll for: those of the ev_infos of each socket
set_poll_vector == [s \in Watched |-> {ei.e : ei \in Range(m_handlers[s])}]

\* while (!m_stopped)
Loop ==
    /\ rpc = "loop"
    /\ IF m_stopped
       THEN rpc' = "exited" /\ UNCHANGED poll_vec
       ELSE poll_vec' = set_poll_vector /\ rpc' = "poll"
    /\ UNCHANGED <<m_stopped, m_handlers, pipe, revents, todo, stopper>>

\* poll() returns: found are the events, which may be those of a closed socket
PollReady(found) ==
    /\ rpc = "poll"
    /\ \E s \in Watched : found[s] # {}
    /\ \A s \in Watched : poll_vec[s] = {} => found[s] = {}
    /\ found[Pipe] = IF pipe > 0 THEN poll_vec[Pipe] ELSE {}
    /\ revents' = found
    /\ todo' = {s \in Watched : poll_vec[s] # {}}
    /\ rpc' = "process" /\ poll_vec' = NoEvents
    /\ UNCHANGED <<m_stopped, m_handlers, pipe, stopper>>

\* poll() times out: no socket is processed
PollTimeout ==
    /\ rpc = "poll" /\ ~Forever /\ (pipe = 0 \/ poll_vec[Pipe] = {})
    /\ rpc' = "loop" /\ poll_vec' = NoEvents
    /\ UNCHANGED <<m_stopped, m_handlers, pipe, revents, todo, stopper>>

\* poll() fails: start() throws
PollFails ==
    /\ rpc = "poll"
    /\ rpc' = "failed" /\ poll_vec' = NoEvents
    /\ UNCHANGED <<m_stopped, m_handlers, pipe, revents, todo, stopper>>

\* whether process_poll_vector calls the handler of ei for socket s
Called(s, ei) ==
    IF revents[s] # {}
    THEN revents[s] \cap Errors # {} \/ ei.e \in revents[s]
    ELSE ei.past

\* the event it is called with
EventOf(s, ei) ==
    CASE "error" \in revents[s]   -> "error"
      [] "error" \notin revents[s] /\ "hup" \in revents[s] -> "hup"
      [] revents[s] \cap Errors = {"invalid"} -> "invalid"
      [] revents[s] # {} /\ revents[s] \cap Errors = {} -> ei.e
      [] revents[s] = {} -> "timeout"

\* the ev_infos of h at the positions in kept, in their order: the others are erased
Kept(h, kept) ==
    [n \in 1 .. Cardinality(kept) |->
        h[CHOOSE i \in kept : Cardinality({k \in kept : k <= i}) = n]]

\* the handlers of s after those called returned ok
AfterCalls(s, ok) ==
    LET h         == m_handlers[s]
        stays(ei) == ~Called(s, ei) \/ ok[ei.e]
        renew(ei) == IF Called(s, ei) /\ ei.e \in revents[s] /\ revents[s] \cap Errors = {}
                     THEN [ei EXCEPT !.past = FALSE] ELSE ei
    IN  Kept([i \in DOMAIN h |-> renew(h[i])], {i \in DOMAIN h : stays(h[i])})

\* the erased entry was the last one of its socket
ErasesLast(s, ok) ==
    LET h    == m_handlers[s]
        last == h[Len(h)]
    IN  h # << >> /\ Called(s, last) /\ ~ok[last.e]

\* the next socket of poll_vec, or the next turn of the loop: what was processed is not
\* looked at again
Done(s) ==
    /\ todo' = todo \ {s}
    /\ revents' = [revents EXCEPT ![s] = {}]

NextPc == IF todo' = {} THEN "loop" ELSE "process"

First(s) == rpc = "process" /\ s \in todo /\ \A x \in todo : s <= x

\* the handler of the socket pair, called for s = Pipe, reads one integer
sockpair_handler(s) == pipe' = IF s = Pipe /\ revents[Pipe] # {} THEN pipe - 1 ELSE pipe

\* process_poll_vector() for one socket; its handlers return ok.
Process(s, ok) ==
    /\ First(s) /\ Done(s)
    /\ s = Pipe => ok = [e \in Events |-> TRUE]
    /\ m_handlers' = [m_handlers EXCEPT ![s] = AfterCalls(s, ok)]
    /\ sockpair_handler(s)
    /\ \/ rpc' = NextPc
       \/ ErasesLast(s, ok) /\ rpc' = "crashed"
    /\ UNCHANGED <<m_stopped, poll_vec, stopper>>

\* a handler of s throws, after others of s perhaps returned false: start() ends
HandlerThrows(s) ==
    /\ First(s)
    /\ \E i \in DOMAIN m_handlers[s] :
          /\ Called(s, m_handlers[s][i])
          /\ \E gone \in SUBSET {j \in 1 .. (i - 1) : Called(s, m_handlers[s][j])} :
                m_handlers' = [m_handlers EXCEPT ![s] = Kept(@, DOMAIN @ \ gone)]
    /\ rpc' = "failed" /\ todo' = {} /\ revents' = NoEvents
    /\ UNCHANGED <<m_stopped, pipe, poll_vec, stopper>>

\* a handler of s calls add_handler(): m_lock is not recursive.  Only a stopped reactor
\* returns before it takes the lock; the handler given to it is lost.
ProcessAdds(s) ==
    /\ First(s)
    /\ \E ei \in Range(m_handlers[s]) : Called(s, ei)
    /\ IF m_stopped
       THEN Done(s) /\ rpc' = NextPc
       ELSE rpc' = "stuck" /\ UNCHANGED <<revents, todo>>
    /\ UNCHANGED <<m_stopped, m_handlers, pipe, poll_vec, stopper>>

-----------------------------------------------------------------------------
(* The calls of other threads                                               *)

Alive == rpc \in {"loop", "poll", "process"}

\* the write to the pair, with m_lock held: it wakes poll().  When the pair is full it
\* blocks, and the thread, which needs m_lock to read the pair, waits for ever.
Wake ==
    /\ rpc \notin {"stuck", "crashed"}
    /\ IF pipe < MaxPipe
       THEN pipe' = pipe + 1 /\ rpc' = rpc
       ELSE pipe' = pipe /\ rpc' = IF Alive THEN "stuck" ELSE rpc

WithHandler(s, e, to) ==
    [m_handlers EXCEPT ![s] =
        IF \E ei \in Range(@) : ei.e = e THEN @ ELSE Append(@, EvInfo(e, to))]

\* Mutant: add_handler() does not write to the pair
AddQuietly(s, e, to) ==
    /\ ~m_stopped /\ rpc \notin {"stuck", "crashed"}
    /\ m_handlers' = WithHandler(s, e, to)
    /\ UNCHANGED <<m_stopped, rpc, pipe, poll_vec, revents, todo, stopper>>

\* add_handler(): the time-out of an event that has a handler stays what it was
AddHandler(s, e, to) ==
    IF m_stopped
    THEN rpc # "crashed" /\ UNCHANGED rvars
    ELSE /\ Wake
         /\ m_handlers' = WithHandler(s, e, to)
         /\ UNCHANGED <<m_stopped, poll_vec, revents, todo, stopper>>

\* remove_handler(s), and remove_handler(s, e): evs are the events removed
RemoveHandler(s, evs) ==
    /\ Wake
    /\ m_handlers' = [m_handlers EXCEPT ![s] = Kept(@, {i \in DOMAIN @ : @[i].e \notin evs})]
    /\ UNCHANGED <<m_stopped, poll_vec, revents, todo, stopper>>

\* Mutant: stop() does not set m_stopped
StopUnset ==
    /\ stopper = "no" /\ rpc # "crashed"
    /\ stopper' = "write"
    /\ UNCHANGED <<m_stopped, m_handlers, pipe, rpc, poll_vec, revents, todo>>

\* stop(): m_stopped = true
StopBegin ==
    /\ stopper = "no" /\ rpc # "crashed"
    /\ stopper' = "write" /\ m_stopped' = TRUE
    /\ UNCHANGED <<m_handlers, pipe, rpc, poll_vec, revents, todo>>

\* the write, without m_lock
StopWrite ==
    /\ stopper = "write" /\ rpc # "crashed" /\ pipe < MaxPipe
    /\ stopper' = "wait" /\ pipe' = pipe + 1
    /\ UNCHANGED <<m_stopped, m_handlers, rpc, poll_vec, revents, todo>>

\* m_future.wait(), also when start() threw
StopEnd ==
    /\ stopper = "wait" /\ rpc \in {"exited", "failed"}
    /\ stopper' = "returned"
    /\ UNCHANGED <<m_stopped, m_handlers, pipe, rpc, poll_vec, revents, todo>>

\* the clock passes the expiry of an ev_info that has a time-out
Expire(s) ==
    /\ rpc # "crashed"
    /\ \E i \in DOMAIN m_handlers[s] :
        /\ m_handlers[s][i].to /\ ~m_handlers[s][i].past
        /\ m_handlers' = [m_handlers EXCEPT ![s][i].past = TRUE]
    /\ UNCHANGED <<m_stopped, pipe, rpc, poll_vec, revents, todo, stopper>>

-----------------------------------------------------------------------------
(* The reactor with handlers that return what they like                     *)

\* what poll() may find: any event asked for, or one error
Finds ==
    {f \in [Watched -> {{}, {"read"}, {"write"}, {"read", "write"}, {"hup"}}] :
        \A s \in Watched : f[s] \cap Events \subseteq poll_vec[s]}

Client ==
    \/ StopBegin \/ StopWrite \/ StopEnd
    \/ \E s \in Sockets : Expire(s) \/ RemoveHandler(s, Events)
    \/ \E s \in Sockets, e \in Events, to \in BOOLEAN :
        m_handlers[s] = << >> /\ AddHandler(s, e, to)
    \/ \E s \in Sockets, e \in Events :
        (m_handlers[s] # << >> /\ AddHandler(s, e, FALSE)) \/ RemoveHandler(s, {e})

PollFinds == rpc = "poll" /\ \E found \in Finds : PollReady(found)
PollWoken == pipe > 0 /\ PollFinds
ProcessNext == \E s \in todo, ok \in [Events -> BOOLEAN] : Process(s, ok)

Thread ==
    \/ Loop \/ PollTimeout \/ PollFails \/ PollFinds \/ ProcessNext
    \/ \E s \in todo \ {Pipe} : ProcessAdds(s) \/ HandlerThrows(s)

ReactorNext == Client \/ Thread

\* The thread runs (Loop, Process), poll() returns when the pair can be read, and a
\* wait on the future returns; nothing is asked of sockets, handlers and clients.
Fairness ==
    /\ WF_rvars(Loop) /\ WF_rvars(PollTimeout)
    /\ WF_rvars(StopWrite) /\ WF_rvars(StopEnd)
    /\ WF_rvars(PollWoken) /\ WF_rvars(ProcessNext)

ReactorSpec == ReactorInit /\ [][ReactorNext]_rvars /\ Fairness

-----------------------------------------------------------------------------
(* Properties                                                               *)

ReactorTypeOK ==
    /\ m_stopped \in BOOLEAN /\ pipe \in 0 .. MaxPipe
    /\ \A s \in Watched : /\ m_handlers[s] \in Seq([e : Events, to : BOOLEAN, past : BOOLEAN])
                          /\ Len(m_handlers[s]) <= 2
    /\ rpc \in {"loop", "poll", "process", "exited", "failed", "stuck", "crashed"}
    /\ poll_vec \in [Watched -> SUBSET Events]
    /\ todo \subseteq Watched /\ stopper \in {"no", "write", "wait", "returned"}

Over == rpc \in {"exited", "failed", "stuck", "crashed"}

\* The handlers of a socket, registered while the reactor waits in poll() perhaps, are all
\* polled for, or removed, or the reactor ends: the write to the socket pair makes poll()
\* return, even if it would wait for ever.
EventuallyPolled ==
    \A s \in Sockets :
        m_handlers[s] # << >>
            ~> (\/ rpc = "poll" /\ poll_vec[s] = set_poll_vector[s]
                \/ Over \/ m_handlers[s] = << >>)

\* stop() returns, unless the thread waits for m_lock for ever, the program has crashed,
\* or the thread has ended and left the socket pair full.
ReactorStops ==
    (stopper \in {"write", "wait"})
        ~> (stopper = "returned" \/ rpc \in {"stuck", "crashed"} \/ (Over /\ pipe = MaxPipe))
=============================================================================
