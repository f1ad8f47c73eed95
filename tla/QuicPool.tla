------------------------------ MODULE QuicPool ------------------------------
(***************************************************************************)
(* dns.quic.SyncQuicManager and SyncQuicConnection: threads that connect,  *)
(* make streams, write and close, and the worker thread of each connection.*)
(*                                                                         *)
(* A section of code under one lock that takes no other is one step.  Two  *)
(* locks are held at once in connect(), whose lock covers the start of the *)
(* worker, in close(), which takes the manager's lock under the            *)
(* connection's, and in a worker that is given a session ticket.           *)
(*                                                                         *)
(* QUIC itself (aioquic) is the state quic: a handshake that completes or  *)
(* ends in silence, and a connection that drains, once it has sent or      *)
(* received a close or has been idle too long, until a timer ends it.      *)
(***************************************************************************)
EXTENDS Integers, Sequences, FiniteSets, SequencesExt

CONSTANTS Threads,
          Addresses,        \* pairs of an address and a port
          Scoped,           \* those whose low level form is another address
          MaxConns,         \* bound: the connections there can be
          MAX_SESSION_TICKETS, SESSIONS_TO_DELETE,
          MaxCalls,         \* bound: calls of the threads
          None

ASSUME QuicPoolAssumption ==
    /\ Scoped \subseteq Addresses
    /\ MAX_SESSION_TICKETS \in Nat \ {0} /\ MaxCalls \in Nat
    /\ SESSIONS_TO_DELETE \in 1 .. MAX_SESSION_TICKETS
    /\ MaxConns \in Nat
    /\ None \notin Threads \cup Addresses \cup (1 .. MaxConns)
    /\ Threads \cap (1 .. MaxConns) = {}   \* a worker is a thread of its own

VARIABLES
    table, tickets,         \* the manager's dictionaries
    manager_lock, lock,     \* who holds the locks: a thread or a worker
    address,                \* of each connection that exists
    done, closed, complete, \* _done, _closed, _handshake_complete
    quic,                   \* the state of QUIC
    unsent, wakeups,        \* QUIC has data to send; are bytes in the socket pair?
    worker,
    pc, conn, stream,       \* of a thread: where it is, its connection,
    timeout, leaving, calls \* whether it has a stream, what it still closes

managing == <<table, tickets, manager_lock>>
flags == <<done, closed, complete>>
sending == <<unsent, wakeups>>
using == <<pc, conn, stream, timeout, leaving, calls>>
vars == <<managing, lock, address, flags, quic, sending, worker, using>>

Conns == 1 .. MaxConns

Exists(c) == address[c] # None

-----------------------------------------------------------------------------
(* The worker                                                              *)

ThreadsAside == UNCHANGED <<address, closed, using>>

\* select() returns because the timer has expired, or after _read().
Proceed(c) ==
    \E next \in {"drain", "handle"} :
        /\ next = "drain" => wakeups[c]
        /\ worker' = [worker EXCEPT ![c] = next]

Select(c) ==
    /\ worker[c] = "select"
    /\ Proceed(c)
    /\ ThreadsAside
    /\ UNCHANGED <<managing, lock, done, complete, quic, sending>>

\* _read(): a datagram completes the handshake, closes the connection, or
\* says nothing new.
Read(c) ==
    /\ worker[c] = "select"
    /\ lock[c] = None
    /\ quic[c] \in {"handshaking", "up"}
    /\ \/ quic' = [quic EXCEPT ![c] = "up"]
       \/ quic' = [quic EXCEPT ![c] = "draining"]
    /\ Proceed(c)
    /\ ThreadsAside
    /\ UNCHANGED <<managing, lock, done, complete, sending>>

\* A datagram with a session ticket: its handler is called under the lock.
\* (Bound: no second ticket while the first has not been used.)
ReadTicket(c) ==
    /\ worker[c] = "select"
    /\ lock[c] = None
    /\ quic[c] = "up"
    /\ ~Contains(tickets, address[c])
    /\ lock' = [lock EXCEPT ![c] = c]
    /\ worker' = [worker EXCEPT ![c] = "saving"]
    /\ ThreadsAside
    /\ UNCHANGED <<managing, done, complete, quic, sending>>

\* save_session_ticket(): the oldest make room.
SaveTicket(c) ==
    /\ worker[c] = "saving"
    /\ manager_lock = None
    /\ LET kept == IF Len(tickets) >= MAX_SESSION_TICKETS
                   THEN SubSeq(tickets, SESSIONS_TO_DELETE + 1, Len(tickets))
                   ELSE tickets
       IN tickets' = IF Contains(kept, address[c]) THEN kept
                     ELSE Append(kept, address[c])
    /\ lock' = [lock EXCEPT ![c] = None]
    /\ Proceed(c)
    /\ ThreadsAside
    /\ UNCHANGED <<table, manager_lock, done, complete, quic, sending>>

\* recv() or send() raises: nobody listens there.
Fail(c) ==
    /\ worker[c] \in {"select", "send"}
    /\ worker' = [worker EXCEPT ![c] = "failing"]
    /\ ThreadsAside
    /\ UNCHANGED <<managing, lock, done, complete, quic, sending>>

\* _drain_wakeup()
Drain(c) ==
    /\ worker[c] = "drain"
    /\ wakeups' = [wakeups EXCEPT ![c] = FALSE]
    /\ worker' = [worker EXCEPT ![c] = "handle"]
    /\ ThreadsAside
    /\ UNCHANGED <<managing, lock, done, complete, quic, unsent>>

\* _handle_timer() and _handle_events(), apart from the events of streams
\* (QuicStream): a connection that drains has ended, and that is an event, as
\* the end of the handshake is.
HandleEvents(c) ==
    /\ worker[c] = "handle"
    /\ lock[c] = None
    /\ quic' = [quic EXCEPT ![c] = IF @ = "draining" THEN "terminated" ELSE @]
    /\ complete' = [complete EXCEPT ![c] = @ \/ quic[c] = "up"]
    /\ done' = [done EXCEPT ![c] = @ \/ quic[c] = "draining"]
    /\ worker' = [worker EXCEPT ![c] = "send"]
    /\ ThreadsAside
    /\ UNCHANGED <<managing, lock, sending>>

\* datagrams_to_send(); the loop ends if the connection is done, which only
\* its worker says.
Send(c) ==
    /\ worker[c] = "send"
    /\ lock[c] = None
    /\ unsent' = [unsent EXCEPT ![c] = FALSE]
    /\ quic' = [quic EXCEPT ![c] = IF @ = "closing" THEN "draining" ELSE @]
    /\ worker' = [worker EXCEPT ![c] = IF done[c] THEN "failing" ELSE "select"]
    /\ ThreadsAside
    /\ UNCHANGED <<managing, lock, done, complete, wakeups>>

\* The finally clause, first the part under the lock
Finally(c) ==
    /\ worker[c] = "failing"
    /\ lock[c] = None
    /\ done' = [done EXCEPT ![c] = TRUE]
    /\ worker' = [worker EXCEPT ![c] = "ending"]
    /\ ThreadsAside
    /\ UNCHANGED <<managing, lock, complete, quic, sending>>

\* A bug: nobody who waits for the handshake is told.
FinishSilently(c) ==
    /\ worker[c] = "ending"
    /\ worker' = [worker EXCEPT ![c] = "ended"]
    /\ ThreadsAside
    /\ UNCHANGED <<managing, lock, done, complete, quic, sending>>

Finish(c) ==
    /\ worker[c] = "ending"
    /\ complete' = [complete EXCEPT ![c] = TRUE]
    /\ worker' = [worker EXCEPT ![c] = "ended"]
    /\ ThreadsAside
    /\ UNCHANGED <<managing, lock, done, quic, sending>>

WorkerStep(c) ==
    \/ Select(c) \/ Read(c) \/ ReadTicket(c) \/ SaveTicket(c) \/ Fail(c) \/ Drain(c)
    \/ HandleEvents(c) \/ Send(c) \/ Finally(c) \/ Finish(c)

\* The peer does not answer; the idle timer of QUIC sees to the rest.
Silence(c) ==
    /\ quic[c] = "handshaking"
    /\ quic' = [quic EXCEPT ![c] = "draining"]
    /\ UNCHANGED <<managing, lock, address, flags, sending, worker, using>>

-----------------------------------------------------------------------------
(* The threads                                                             *)

WorkersAside == UNCHANGED <<done, complete>>

Call(t) == pc[t] = "idle" /\ calls < MaxCalls /\ calls' = calls + 1

Step(t, from, to) == pc[t] = from /\ pc' = [pc EXCEPT ![t] = to]

\* connect(), _connect(): the connection of the table if there is one
ConnectAgain(t, a) ==
    /\ Call(t)
    /\ manager_lock = None
    /\ table[a] # None
    /\ conn' = [conn EXCEPT ![t] = table[a]]
    /\ stream' = [stream EXCEPT ![t] = FALSE]
    /\ WorkersAside
    /\ UNCHANGED <<managing, lock, address, closed, quic, sending, worker,
                   pc, timeout, leaving>>

\* A new one takes the ticket of its address.
ConnectAnew(t, a, c) ==
    /\ Call(t)
    /\ manager_lock = None
    /\ table[a] = None
    /\ c = 1 + Cardinality({d \in Conns : Exists(d)})
    /\ Step(t, "idle", "starting")
    /\ manager_lock' = t
    /\ tickets' = SelectSeq(tickets, LAMBDA b : b # a)
    /\ address' = [address EXCEPT ![c] = a]
    /\ quic' = [quic EXCEPT ![c] = "handshaking"]
    /\ unsent' = [unsent EXCEPT ![c] = TRUE]
    /\ table' = [table EXCEPT ![a] = c]
    /\ conn' = [conn EXCEPT ![t] = c]
    /\ stream' = [stream EXCEPT ![t] = FALSE]
    /\ WorkersAside
    /\ UNCHANGED <<lock, closed, wakeups, worker, timeout, leaving>>

\* run()
Run(t) ==
    /\ Step(t, "starting", "idle")
    /\ worker' = [worker EXCEPT ![conn[t]] = IF closed[conn[t]] THEN @ ELSE "select"]
    /\ manager_lock' = None
    /\ WorkersAside
    /\ UNCHANGED <<table, tickets, lock, address, closed, quic, sending,
                   conn, stream, timeout, leaving, calls>>

MakeStream(t, limited) ==
    /\ Call(t)
    /\ conn[t] # None /\ ~stream[t]
    /\ Step(t, "idle", "waiting")
    /\ timeout' = [timeout EXCEPT ![t] = limited]
    /\ WorkersAside
    /\ UNCHANGED <<managing, lock, address, closed, quic, sending, worker,
                   conn, stream, leaving>>

\* A stream, or UnexpectedEOF from a connection that is done
GetStream(t) ==
    /\ Step(t, "waiting", "idle")
    /\ complete[conn[t]]
    /\ lock[conn[t]] = None
    /\ timeout' = [timeout EXCEPT ![t] = FALSE]
    /\ stream' = [stream EXCEPT ![t] = ~done[conn[t]]]
    /\ WorkersAside
    /\ UNCHANGED <<managing, lock, address, closed, quic, sending, worker,
                   conn, leaving, calls>>

TimeOut(t) ==
    /\ Step(t, "waiting", "idle")
    /\ timeout[t] /\ ~complete[conn[t]]
    /\ timeout' = [timeout EXCEPT ![t] = FALSE]
    /\ WorkersAside
    /\ UNCHANGED <<managing, lock, address, closed, quic, sending, worker,
                   conn, stream, leaving, calls>>

\* write(): the data under the lock, the byte that wakes the worker after it
Write(t) ==
    /\ Call(t)
    /\ stream[t]
    /\ lock[conn[t]] = None
    /\ Step(t, "idle", "waking")
    /\ unsent' = [unsent EXCEPT ![conn[t]] = TRUE]
    /\ WorkersAside
    /\ UNCHANGED <<managing, lock, address, closed, quic, wakeups, worker,
                   conn, stream, timeout, leaving>>

WakeUp(t) ==
    /\ Step(t, "waking", "idle")
    /\ wakeups' = [wakeups EXCEPT ![conn[t]] = TRUE]
    /\ WorkersAside
    /\ UNCHANGED <<managing, lock, address, closed, quic, unsent, worker,
                   conn, stream, timeout, leaving, calls>>

CloseStream(t) ==
    /\ Call(t)
    /\ stream[t]
    /\ lock[conn[t]] = None
    /\ stream' = [stream EXCEPT ![t] = FALSE]
    /\ WorkersAside
    /\ UNCHANGED <<managing, lock, address, closed, quic, sending, worker,
                   pc, conn, timeout, leaving>>

\* close() of a connection, or __exit__() of the manager, which closes those
\* that the table has at the time
Close(t) ==
    /\ Call(t)
    /\ Step(t, "idle", "closing")
    /\ \E cs \in {{conn[t]}, {table[a] : a \in Addresses}} :
           leaving' = [leaving EXCEPT ![t] = cs \ {None}]
    /\ WorkersAside
    /\ UNCHANGED <<managing, lock, address, closed, quic, sending, worker,
                   conn, stream, timeout>>

Closed(t) ==
    /\ leaving[t] = {}
    /\ Step(t, "closing", "idle")
    /\ WorkersAside
    /\ UNCHANGED <<managing, lock, address, closed, quic, sending, worker,
                   conn, stream, timeout, leaving, calls>>

CloseAgain(t, c) ==
    /\ pc[t] = "closing"
    /\ c \in leaving[t]
    /\ lock[c] = None
    /\ closed[c]
    /\ leaving' = [leaving EXCEPT ![t] = @ \ {c}]
    /\ WorkersAside
    /\ UNCHANGED <<managing, lock, address, closed, quic, sending, worker,
                   pc, conn, stream, timeout, calls>>

\* A bug: what is closed already is closed once more.
CloseOnceMore(t, c) ==
    /\ Step(t, "closing", "forgetting")
    /\ c \in leaving[t]
    /\ lock[c] = None
    /\ lock' = [lock EXCEPT ![c] = t]
    /\ conn' = [conn EXCEPT ![t] = c]
    /\ stream' = [stream EXCEPT ![t] = FALSE]
    /\ WorkersAside
    /\ UNCHANGED <<managing, address, closed, quic, sending, worker,
                   timeout, leaving, calls>>

\* The thread goes on with the connection that it closes.
CloseOne(t, c) ==
    /\ Step(t, "closing", "forgetting")
    /\ c \in leaving[t]
    /\ lock[c] = None
    /\ ~closed[c]
    /\ lock' = [lock EXCEPT ![c] = t]
    /\ conn' = [conn EXCEPT ![t] = c]
    /\ stream' = [stream EXCEPT ![t] = FALSE]
    /\ WorkersAside
    /\ UNCHANGED <<managing, address, closed, quic, sending, worker,
                   timeout, leaving, calls>>

\* closed() of the manager: the table has the address as connect() got it.
Forget(t) ==
    /\ manager_lock = None
    /\ Step(t, "forgetting", "finishing")
    /\ LET a == address[conn[t]]
       IN table' = IF a \in Scoped THEN table ELSE [table EXCEPT ![a] = None]
    /\ WorkersAside
    /\ UNCHANGED <<tickets, manager_lock, lock, address, closed, quic, sending, worker,
                   conn, stream, timeout, leaving, calls>>

\* A bug: the worker is not woken.
FinishCloseQuietly(t) ==
    LET c == conn[t]
    IN  /\ Step(t, "finishing", "joining")
        /\ closed' = [closed EXCEPT ![c] = TRUE]
        /\ quic' = [quic EXCEPT ![c] = IF @ \in {"handshaking", "up"} THEN "closing" ELSE @]
        /\ unsent' = [unsent EXCEPT ![c] = TRUE]
        /\ UNCHANGED wakeups
        /\ lock' = [lock EXCEPT ![c] = None]
        /\ WorkersAside
        /\ UNCHANGED <<managing, address, worker, conn, stream, timeout, leaving, calls>>

FinishClose(t) ==
    LET c == conn[t]
    IN  /\ Step(t, "finishing", "joining")
        /\ closed' = [closed EXCEPT ![c] = TRUE]
        /\ quic' = [quic EXCEPT ![c] = IF @ \in {"handshaking", "up"} THEN "closing" ELSE @]
        /\ unsent' = [unsent EXCEPT ![c] = TRUE]
        /\ wakeups' = [wakeups EXCEPT ![c] = TRUE]
        /\ lock' = [lock EXCEPT ![c] = None]
        /\ WorkersAside
        /\ UNCHANGED <<managing, address, worker, conn, stream, timeout, leaving, calls>>

\* join()
Join(t) ==
    /\ Step(t, "joining", "closing")
    /\ worker[conn[t]] \in {"none", "ended"}
    /\ leaving' = [leaving EXCEPT ![t] = @ \ {conn[t]}]
    /\ WorkersAside
    /\ UNCHANGED <<managing, lock, address, closed, quic, sending, worker,
                   conn, stream, timeout, calls>>

Begin(t) ==
    \/ \E a \in Addresses : ConnectAgain(t, a) \/ \E c \in Conns : ConnectAnew(t, a, c)
    \/ \E limited \in BOOLEAN : MakeStream(t, limited)
    \/ Write(t) \/ CloseStream(t) \/ Close(t)

Continue(t) ==
    \/ Run(t) \/ GetStream(t) \/ TimeOut(t) \/ WakeUp(t)
    \/ Forget(t) \/ FinishClose(t) \/ Join(t) \/ Closed(t)
    \/ \E c \in leaving[t] : CloseAgain(t, c) \/ CloseOne(t, c)

-----------------------------------------------------------------------------

Init ==
    /\ table = [a \in Addresses |-> None] /\ tickets = <<>>
    /\ manager_lock = None /\ lock = [c \in Conns |-> None]
    /\ address = [c \in Conns |-> None]
    /\ done = [c \in Conns |-> FALSE] /\ closed = done /\ complete = done
    /\ quic = [c \in Conns |-> "none"]
    /\ unsent = [c \in Conns |-> FALSE] /\ wakeups = [c \in Conns |-> FALSE]
    /\ worker = [c \in Conns |-> "none"]
    /\ pc = [t \in Threads |-> "idle"]
    /\ conn = [t \in Threads |-> None] /\ stream = [t \in Threads |-> FALSE]
    /\ timeout = [t \in Threads |-> FALSE] /\ leaving = [t \in Threads |-> {}]
    /\ calls = 0

Next ==
    \/ \E c \in Conns : WorkerStep(c) \/ Silence(c)
    \/ \E t \in Threads : Begin(t) \/ Continue(t)

Spec == Init /\ [][Next]_vars

\* Scheduling: every thread goes on.  A handshake without an answer times out,
\* while a connection that is up may stay up.
Fairness ==
    /\ \A c \in Conns : WF_vars(WorkerStep(c)) /\ WF_vars(Silence(c))
    /\ \A t \in Threads : WF_vars(Continue(t))

FairSpec == Spec /\ Fairness

-----------------------------------------------------------------------------
(* Properties                                                              *)

\* Every variable has its type.
TypeOK ==
    /\ table \in [Addresses -> Conns \cup {None}]
    /\ tickets \in Seq(Addresses) /\ Len(tickets) <= MAX_SESSION_TICKETS
    /\ manager_lock \in Threads \cup {None}
    /\ lock \in [Conns -> Threads \cup Conns \cup {None}]
    /\ address \in [Conns -> Addresses \cup {None}]
    /\ {done, closed, complete, unsent, wakeups} \subseteq [Conns -> BOOLEAN]
    /\ quic \in [Conns -> {"none", "handshaking", "up", "closing", "draining", "terminated"}]
    /\ worker \in [Conns -> {"none", "select", "saving", "drain", "handle", "send",
                           "failing", "ending", "ended"}]
    /\ pc \in [Threads -> {"idle", "starting", "waiting", "waking", "closing",
                           "forgetting", "finishing", "joining"}]
    /\ conn \in [Threads -> Conns \cup {None}]
    /\ {stream, timeout} \subseteq [Threads -> BOOLEAN]
    /\ leaving \in [Threads -> SUBSET Conns] /\ calls \in Nat

\* Every call of a connection or of the manager returns: no lock is waited
\* for in a circle, a close() whose worker waits for a lock is joined in the
\* end, and a make_stream() without a timeout learns of the worker's end,
\* also on a connection that was dead when connect() handed it out.
CallsReturn == \A t \in Threads : pc[t] # "idle" ~> pc[t] = "idle"

\* The table has the connections that are open and no others, whatever two
\* threads close and connect at the same time: so __exit__() finds them all,
\* and connect() hands out nothing that has been closed.  (The addresses with
\* a scope are another matter: closed() does not find those.)
TableHasTheOpen ==
    \A c \in Conns :
        Exists(c) /\ address[c] \notin Scoped
        /\ (\A t \in Threads : conn[t] = c => pc[t] # "finishing") =>
            (table[address[c]] = c <=> ~closed[c])

\* A worker does not sleep on data: what it has not sent is announced by a
\* byte in the socket pair, or by one a thread is about to put there.  (In a
\* handshake the timer for lost packets is always running, and a connection
\* that drains sends no more.)
UnsentIsAnnounced ==
    \A c \in Conns :
        worker[c] = "select" /\ unsent[c] /\ quic[c] \in {"up", "closing"} =>
            wakeups[c] \/ \E t \in Threads : pc[t] = "waking" /\ conn[t] = c

=============================================================================
