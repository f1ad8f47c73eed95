----------------------------- MODULE QuicProofs -----------------------------
(***************************************************************************)
(* Proofs about QuicPool, for every number of threads, addresses and       *)
(* connections; and about QuicStream, for messages and streams of every    *)
(* length.                                                                 *)
(***************************************************************************)
EXTENDS QuicPool, QuicStream, FiniteSetTheorems, SequenceTheorems, TLAPS

-----------------------------------------------------------------------------
(* The strengthening of TableHasTheOpen and UnsentIsAnnounced              *)

\* What TypeOK says of all but the session tickets.
Typed ==
    /\ table \in [Addresses -> Conns \cup {None}]
    /\ manager_lock \in Threads \cup {None}
    /\ lock \in [Conns -> Threads \cup Conns \cup {None}]
    /\ address \in [Conns -> Addresses \cup {None}]
    /\ closed \in [Conns -> BOOLEAN]
    /\ unsent \in [Conns -> BOOLEAN] /\ wakeups \in [Conns -> BOOLEAN]
    /\ quic \in [Conns -> {"none", "handshaking", "up", "closing", "draining", "terminated"}]
    /\ worker \in [Conns -> {"none", "select", "saving", "drain", "handle", "send",
                             "failing", "ending", "ended"}]
    /\ pc \in [Threads -> {"idle", "starting", "waiting", "waking", "closing",
                           "forgetting", "finishing", "joining"}]
    /\ conn \in [Threads -> Conns \cup {None}] /\ stream \in [Threads -> BOOLEAN]
    /\ leaving \in [Threads -> SUBSET Conns]

\* A thread within a call that needs a connection has one.
HasConnection ==
    \A t \in Threads : stream[t] \/ pc[t] \notin {"idle", "closing"} => conn[t] \in Conns

MadeInOrder == \E k \in 0 .. MaxConns : \A c \in Conns : Exists(c) <=> c <= k

\* What the table and the threads have are connections that were made; those
\* that were not have a clean slate.
Made ==
    /\ \A c \in Conns : ~Exists(c) => ~closed[c] /\ worker[c] = "none"
    /\ \A a \in Addresses : table[a] \in Conns => address[table[a]] = a
    /\ \A t \in Threads : conn[t] \in Conns => Exists(conn[t])
    /\ \A t \in Threads : \A c \in leaving[t] : Exists(c)

\* Who closes a connection has its lock, and is the one who closes it; a
\* worker has it while it saves a ticket.
CloserHasLock ==
    /\ \A t \in Threads : pc[t] \in {"forgetting", "finishing"} =>
           lock[conn[t]] = t /\ ~closed[conn[t]]
    /\ \A c \in Conns : worker[c] = "saving" => lock[c] = c

\* Who starts a worker has the manager's lock, so nobody gets on with closing
\* the connection, and nothing has come over it.
StarterHasLock ==
    \A t \in Threads : pc[t] = "starting" =>
        /\ manager_lock = t
        /\ \A u \in Threads : conn[u] = conn[t] => pc[u] # "finishing"
        /\ quic[conn[t]] \in {"handshaking", "draining"}
        /\ worker[conn[t]] = "none"

\* The table has a connection until somebody is about to call it closed.
Finishing(c) == \E t \in Threads : conn[t] = c /\ pc[t] = "finishing"
TableIsExact ==
    \A c \in Conns :
        Exists(c) /\ address[c] \notin Scoped =>
            (table[address[c]] = c <=> ~closed[c] /\ ~Finishing(c))

PoolInv ==
    /\ Typed
    /\ HasConnection
    /\ MadeInOrder
    /\ Made
    /\ CloserHasLock
    /\ StarterHasLock
    /\ TableIsExact
    /\ UnsentIsAnnounced

-----------------------------------------------------------------------------


LEMMA PoolInit == Init => PoolInv
<1> SUFFICES ASSUME Init PROVE PoolInv
  OBVIOUS
<1>1. MadeInOrder
  <2>1. \A c \in Conns : ~Exists(c) /\ ~(c <= 0)
    BY DEF Init, Conns, Exists
  <2> QED
    BY <2>1, QuicPoolAssumption DEF MadeInOrder
<1> QED
  BY <1>1, QuicPoolAssumption DEF Init, PoolInv, Typed, HasConnection, Made, CloserHasLock,
     StarterHasLock, TableIsExact, Finishing, UnsentIsAnnounced, Exists, Conns

-----------------------------------------------------------------------------
(* What the steps do to the variables of the invariant                     *)

WorkerMoves(c) == WorkerStep(c) \/ Silence(c)

\* The steps of a thread that touch neither the table nor a lock.
Quiet(t) ==
    \/ \E limited \in BOOLEAN : MakeStream(t, limited)
    \/ Write(t) \/ CloseStream(t) \/ Close(t)
    \/ GetStream(t) \/ TimeOut(t) \/ WakeUp(t) \/ Join(t) \/ Closed(t)
    \/ \E c \in leaving[t] : CloseAgain(t, c)

WorkerEffect(c) ==
    /\ UNCHANGED <<table, manager_lock, address, closed, using>>
    /\ \A d \in Conns : d # c =>
           /\ lock'[d] = lock[d] /\ unsent'[d] = unsent[d] /\ wakeups'[d] = wakeups[d]
           /\ quic'[d] = quic[d] /\ worker'[d] = worker[d]
    /\ worker[c] = "none" <=> worker'[c] = "none"
    /\ worker[c] = "none" => quic'[c] \in {quic[c], "draining"}
    /\ \/ lock'[c] = lock[c] /\ worker'[c] # "saving"
       \/ lock[c] = None /\ lock'[c] = c
       \/ worker[c] = "saving" /\ lock'[c] = None /\ worker'[c] # "saving"
       \/ lock'[c] = lock[c] /\ worker'[c] = worker[c]
    /\ worker'[c] = "select" =>
           ~unsent'[c] \/ (wakeups'[c] = wakeups[c] /\ unsent'[c] = unsent[c]
                            /\ worker[c] = "select" /\ quic'[c] \in {quic[c], "draining"})

QuietEffect(t) ==
    /\ UNCHANGED <<table, manager_lock, lock, address, closed, quic, worker, conn>>
    /\ \A u \in Threads : u # t =>
           pc'[u] = pc[u] /\ stream'[u] = stream[u] /\ leaving'[u] = leaving[u]
    /\ {pc[t], pc'[t]} \cap {"starting", "forgetting", "finishing"} = {}
    /\ stream'[t] \/ pc'[t] \notin {"idle", "closing"} => conn[t] \in Conns
    /\ leaving'[t] \subseteq leaving[t] \cup {conn[t]} \cup {table[a] : a \in Addresses}
    /\ \A c \in Conns : wakeups[c] => wakeups'[c]
    /\ \A c \in Conns : unsent'[c] => unsent[c] \/ (pc'[t] = "waking" /\ conn[t] = c)
    /\ pc[t] = "waking" => wakeups'[conn[t]] \/ pc'[t] = "waking"

LEMMA WorkerSteps ==
    ASSUME Typed, NEW c \in Conns, WorkerMoves(c)
    PROVE  Typed' /\ WorkerEffect(c)
<1> USE QuicPoolAssumption DEF Typed, WorkerEffect, managing, flags, sending, using, Conns,
        ThreadsAside, Proceed
<1>1. CASE Select(c)
  BY <1>1 DEF Select
<1>2. CASE Read(c)
  <2>1. quic' = [quic EXCEPT ![c] = "up"] \/ quic' = [quic EXCEPT ![c] = "draining"]
    BY <1>2 DEF Read
  <2>2. worker[c] = "select" /\ worker' \in {[worker EXCEPT ![c] = "drain"], [worker EXCEPT ![c] = "handle"]}
    BY <1>2 DEF Read
  <2>3. /\ UNCHANGED <<table, manager_lock, address, closed, using, lock, unsent, wakeups>>
    BY <1>2 DEF Read
  <2> QED
    BY <2>1, <2>2, <2>3, ZenonT(60)
<1>3. CASE ReadTicket(c)
  BY <1>3 DEF ReadTicket
<1>4. CASE SaveTicket(c)
  BY <1>4 DEF SaveTicket
<1>5. CASE Fail(c)
  BY <1>5 DEF Fail
<1>6. CASE Drain(c)
  BY <1>6 DEF Drain
<1>7. CASE HandleEvents(c)
  BY <1>7 DEF HandleEvents
<1>8. CASE Send(c)
  BY <1>8 DEF Send
<1>9. CASE Finally(c)
  BY <1>9 DEF Finally
<1>10. CASE Finish(c)
  BY <1>10 DEF Finish
<1>11. CASE Silence(c)
  BY <1>11 DEF Silence
<1> QED
  BY <1>1, <1>2, <1>3, <1>4, <1>5, <1>6, <1>7, <1>8, <1>9, <1>10, <1>11 DEF WorkerMoves, WorkerStep

LEMMA QuietSteps ==
    ASSUME Typed, HasConnection, NEW t \in Threads, Quiet(t)
    PROVE  Typed' /\ QuietEffect(t)
<1> USE QuicPoolAssumption DEF Typed, HasConnection, QuietEffect, managing, flags, sending, Conns,
        WorkersAside
<1>1. ASSUME NEW limited \in BOOLEAN, MakeStream(t, limited)
      PROVE  Typed' /\ QuietEffect(t)
  BY <1>1 DEF MakeStream, Call, Step
<1>2. CASE Write(t)
  BY <1>2 DEF Write, Call, Step
<1>3. CASE CloseStream(t)
  BY <1>3 DEF CloseStream, Call
<1>4. CASE Close(t)
  BY <1>4 DEF Close, Call, Step
<1>5. CASE GetStream(t)
  <2>1. stream' \in [Threads -> BOOLEAN] /\ \A u \in Threads : u # t => stream'[u] = stream[u]
    BY <1>5 DEF GetStream
  <2>2. pc[t] = "waiting" /\ pc' = [pc EXCEPT ![t] = "idle"]
    BY <1>5 DEF GetStream, Step
  <2>3. UNCHANGED <<table, manager_lock, lock, address, closed, quic, worker, conn, leaving,
                    unsent, wakeups>>
    BY <1>5 DEF GetStream
  <2> QED
    BY <2>1, <2>2, <2>3
<1>6. CASE TimeOut(t)
  BY <1>6 DEF TimeOut, Step
<1>7. CASE WakeUp(t)
  BY <1>7 DEF WakeUp, Step
<1>8. CASE Join(t)
  BY <1>8 DEF Join, Step
<1>9. CASE Closed(t)
  BY <1>9 DEF Closed, Step
<1>10. ASSUME NEW c \in leaving[t], CloseAgain(t, c)
       PROVE  Typed' /\ QuietEffect(t)
  BY <1>10 DEF CloseAgain
<1> QED
  BY <1>1, <1>2, <1>3, <1>4, <1>5, <1>6, <1>7, <1>8, <1>9, <1>10 DEF Quiet

-----------------------------------------------------------------------------
(* The invariant is kept                                                   *)

LEMMA PoolWorker ==
    ASSUME PoolInv, NEW c \in Conns, WorkerMoves(c)
    PROVE  PoolInv'
<1>1. Typed' /\ WorkerEffect(c)
  BY WorkerSteps DEF PoolInv
<1>2. HasConnection' /\ MadeInOrder'
  BY <1>1 DEF PoolInv, HasConnection, MadeInOrder, Exists, WorkerEffect, using, Conns
<1>3. Made'
  BY <1>1 DEF PoolInv, Made, Exists, WorkerEffect, using
<1>4. CloserHasLock'
  <2>1. ASSUME NEW t \in Threads, pc[t] \in {"forgetting", "finishing"}
        PROVE  lock'[conn[t]] = t
    <3>1. conn[t] \in Conns /\ lock[conn[t]] = t
      BY <2>1 DEF PoolInv, HasConnection, CloserHasLock
    <3>2. t # None /\ t # c
      BY QuicPoolAssumption DEF Conns
    <3> QED
      BY <1>1, <3>1, <3>2 DEF WorkerEffect, PoolInv, CloserHasLock
  <2>2. ASSUME NEW d \in Conns, worker'[d] = "saving"
        PROVE  lock'[d] = d
    BY <1>1, <2>2 DEF WorkerEffect, PoolInv, CloserHasLock
  <2> QED
    BY <1>1, <2>1, <2>2 DEF WorkerEffect, using, PoolInv, CloserHasLock
<1>5. StarterHasLock'
  BY <1>1 DEF PoolInv, HasConnection, StarterHasLock, WorkerEffect, using
<1>6. TableIsExact'
  BY <1>1 DEF PoolInv, TableIsExact, Finishing, Exists, WorkerEffect, using
<1>7. UnsentIsAnnounced'
  BY <1>1 DEF PoolInv, UnsentIsAnnounced, WorkerEffect, using
<1> QED
  BY <1>1, <1>2, <1>3, <1>4, <1>5, <1>6, <1>7 DEF PoolInv

LEMMA PoolQuiet ==
    ASSUME PoolInv, NEW t \in Threads, Quiet(t)
    PROVE  PoolInv'
<1>1. Typed' /\ QuietEffect(t)
  BY QuietSteps DEF PoolInv
<1>2. \A u \in Threads : /\ pc'[u] = "starting" <=> pc[u] = "starting"
                         /\ pc'[u] = "forgetting" <=> pc[u] = "forgetting"
                         /\ pc'[u] = "finishing" <=> pc[u] = "finishing"
  BY <1>1 DEF QuietEffect
<1>3. HasConnection' /\ MadeInOrder'
  BY <1>1 DEF PoolInv, HasConnection, MadeInOrder, Exists, QuietEffect
<1>4. Made'
  <2>1. ASSUME NEW a \in Addresses, table[a] \in Conns
        PROVE  Exists(table[a])
    BY <2>1, QuicPoolAssumption DEF PoolInv, Made, Exists
  <2>2. ASSUME NEW d \in leaving'[t]
        PROVE  Exists(d)
    <3>1. d \in Conns
      BY <1>1 DEF Typed
    <3> QED
      BY <1>1, <2>1, <2>2, <3>1 DEF QuietEffect, PoolInv, Made
  <2> QED
    BY <1>1, <2>2 DEF QuietEffect, PoolInv, Made, Exists
<1>5. CloserHasLock' /\ StarterHasLock'
  BY <1>1, <1>2 DEF PoolInv, CloserHasLock, StarterHasLock, QuietEffect
<1>6. TableIsExact'
  BY <1>1, <1>2 DEF PoolInv, TableIsExact, Finishing, Exists, QuietEffect
<1>7. UnsentIsAnnounced'
  BY <1>1 DEF PoolInv, UnsentIsAnnounced, QuietEffect
<1> QED
  BY <1>1, <1>3, <1>4, <1>5, <1>6, <1>7 DEF PoolInv

LEMMA PoolConnectAgain ==
    ASSUME PoolInv, NEW t \in Threads, NEW a \in Addresses, ConnectAgain(t, a)
    PROVE  PoolInv'
<1>1. /\ UNCHANGED <<table, manager_lock, lock, address, closed, quic, unsent, wakeups,
                     worker, pc, leaving>>
      /\ \A u \in Threads : u # t => conn'[u] = conn[u] /\ stream'[u] = stream[u]
      /\ pc[t] = "idle" /\ conn'[t] = table[a] /\ table[a] \in Conns
  BY DEF PoolInv, Typed, ConnectAgain, Call, WorkersAside, managing, sending
<1>2. Typed' /\ HasConnection'
  BY <1>1 DEF PoolInv, Typed, HasConnection, ConnectAgain
<1>3. MadeInOrder' /\ Made'
  BY <1>1, QuicPoolAssumption DEF PoolInv, MadeInOrder, Made, Exists
<1>4. CloserHasLock' /\ StarterHasLock'
  BY <1>1 DEF PoolInv, CloserHasLock, StarterHasLock, ConnectAgain
<1>5. TableIsExact'
  BY <1>1 DEF PoolInv, TableIsExact, Finishing, Exists
<1>6. UnsentIsAnnounced'
  BY <1>1 DEF PoolInv, UnsentIsAnnounced
<1> QED
  BY <1>2, <1>3, <1>4, <1>5, <1>6 DEF PoolInv

\* The next connection is one that nobody has.
LEMMA NextConnection ==
    ASSUME PoolInv, NEW c \in Conns, c = 1 + Cardinality({d \in Conns : Exists(d)})
    PROVE  /\ ~Exists(c) /\ ~closed[c] /\ worker[c] = "none"
           /\ \A u \in Threads : conn[u] # c /\ c \notin leaving[u]
           /\ \A b \in Addresses : table[b] # c
           /\ \A d \in Conns : Exists(d) \/ d = c <=> d <= c
<1>1. PICK k \in 0 .. MaxConns : \A d \in Conns : Exists(d) <=> d <= k
  BY DEF PoolInv, MadeInOrder
<1>2. {d \in Conns : Exists(d)} = 1 .. k
  BY <1>1, QuicPoolAssumption DEF Conns
<1>3. c = k + 1
  <2>1. k \in Nat
    BY QuicPoolAssumption
  <2>2. Cardinality(1 .. k) = k
    BY <2>1, FS_Interval
  <2>3. Cardinality({d \in Conns : Exists(d)}) = k
    BY <1>2, <2>2, Zenon
  <2> QED
    BY <2>1, <2>3
<1>4. \A d \in Conns : Exists(d) \/ d = c <=> d <= c
  BY <1>1, <1>3, QuicPoolAssumption DEF Conns
<1>5. ~Exists(c)
  BY <1>1, <1>3, QuicPoolAssumption DEF Conns
<1> QED
  BY <1>4, <1>5, QuicPoolAssumption DEF PoolInv, Made, Exists

LEMMA PoolConnectAnew ==
    ASSUME PoolInv, NEW t \in Threads, NEW a \in Addresses, NEW c \in Conns, ConnectAnew(t, a, c)
    PROVE  PoolInv'
<1>1. /\ ~Exists(c) /\ ~closed[c] /\ worker[c] = "none"
      /\ \A u \in Threads : conn[u] # c /\ c \notin leaving[u]
      /\ \A b \in Addresses : table[b] # c
      /\ \A d \in Conns : Exists(d) \/ d = c <=> d <= c
  BY NextConnection DEF ConnectAnew
<1>2. Typed'
  BY DEF PoolInv, Typed, ConnectAnew, Step
<1>3. /\ UNCHANGED <<lock, closed, wakeups, worker, leaving>>
      /\ \A u \in Threads : u # t => conn'[u] = conn[u] /\ stream'[u] = stream[u] /\ pc'[u] = pc[u]
      /\ \A d \in Conns : d # c => /\ address'[d] = address[d] /\ quic'[d] = quic[d]
                                   /\ unsent'[d] = unsent[d]
      /\ \A b \in Addresses : b # a => table'[b] = table[b]
      /\ pc[t] = "idle" /\ pc'[t] = "starting" /\ conn'[t] = c /\ address'[c] = a
      /\ table[a] = None /\ table'[a] = c /\ quic'[c] = "handshaking"
      /\ manager_lock = None /\ manager_lock' = t
  BY DEF PoolInv, Typed, ConnectAnew, Step
<1>4. \A d \in Conns : Exists(d)' <=> Exists(d) \/ d = c
  BY <1>3, QuicPoolAssumption DEF Exists
<1>5. HasConnection'
  BY <1>3 DEF PoolInv, HasConnection
<1>6. MadeInOrder'
  <2>1. c \in 0 .. MaxConns
    BY QuicPoolAssumption DEF Conns
  <2> QED
    BY <1>1, <1>4, <2>1 DEF MadeInOrder, Conns
<1>7. Made'
  BY <1>1, <1>3, <1>4 DEF PoolInv, Typed, Made
<1>8. CloserHasLock'
  BY <1>3 DEF PoolInv, CloserHasLock
<1>9. StarterHasLock'
  <2>1. \A u \in Threads : u # t => pc[u] # "starting"
    BY <1>3, QuicPoolAssumption DEF PoolInv, StarterHasLock
  <2> QED
    BY <1>1, <1>3, <2>1 DEF StarterHasLock
<1>10. TableIsExact'
  <2>1. ASSUME NEW d \in Conns, d # c, Exists(d), address[d] \notin Scoped
        PROVE  table'[address'[d]] = d <=> ~closed'[d] /\ ~Finishing(d)'
    <3>1. Finishing(d)' <=> Finishing(d)
      BY <1>1, <1>3 DEF Finishing
    <3>2. address[d] \in Addresses /\ address'[d] = address[d]
      BY <1>3, <2>1 DEF PoolInv, Typed, Exists
    <3>3. table'[address[d]] = d <=> table[address[d]] = d
      BY <1>3, <2>1, <3>2, QuicPoolAssumption DEF Conns
    <3> QED
      BY <1>3, <2>1, <3>1, <3>2, <3>3 DEF PoolInv, TableIsExact
  <2>2. ~Finishing(c)'
    BY <1>1, <1>3 DEF Finishing
  <2> QED
    BY <1>1, <1>3, <1>4, <2>1, <2>2 DEF TableIsExact
<1>11. UnsentIsAnnounced'
  BY <1>3 DEF PoolInv, UnsentIsAnnounced
<1> QED
  BY <1>2, <1>5, <1>6, <1>7, <1>8, <1>9, <1>10, <1>11 DEF PoolInv

LEMMA PoolRun ==
    ASSUME PoolInv, NEW t \in Threads, Run(t)
    PROVE  PoolInv'
<1>1. /\ UNCHANGED <<table, lock, address, closed, quic, unsent, wakeups, conn, leaving, stream>>
      /\ \A u \in Threads : u # t => pc'[u] = pc[u]
      /\ pc[t] = "starting" /\ pc'[t] = "idle"
      /\ manager_lock' = None
      /\ \A d \in Conns : d # conn[t] => worker'[d] = worker[d]
      /\ worker'[conn[t]] = "select" \/ UNCHANGED worker
      /\ conn[t] \in Conns
  BY DEF PoolInv, Typed, HasConnection, Run, Step, sending
<1>2. Typed'
  BY <1>1 DEF PoolInv, Typed, Run, Step, managing, sending
<1>3. HasConnection' /\ MadeInOrder'
  BY <1>1 DEF PoolInv, HasConnection, MadeInOrder, Exists, Conns
<1>4. Made'
  BY <1>1, QuicPoolAssumption DEF PoolInv, Typed, Made, Exists
<1>5. CloserHasLock'
  BY <1>1, QuicPoolAssumption DEF PoolInv, HasConnection, CloserHasLock
<1>6. StarterHasLock'
  BY <1>1, QuicPoolAssumption DEF PoolInv, HasConnection, StarterHasLock
<1>7. TableIsExact'
  BY <1>1, QuicPoolAssumption DEF PoolInv, Typed, CloserHasLock, TableIsExact, Finishing, Exists
<1>8. UnsentIsAnnounced'
  BY <1>1 DEF PoolInv, StarterHasLock, UnsentIsAnnounced
<1> QED
  BY <1>2, <1>3, <1>4, <1>5, <1>6, <1>7, <1>8 DEF PoolInv

LEMMA PoolCloseOne ==
    ASSUME PoolInv, NEW t \in Threads, NEW c \in leaving[t], CloseOne(t, c)
    PROVE  PoolInv'
<1>1. /\ UNCHANGED <<table, manager_lock, address, closed, quic, unsent, wakeups, worker, leaving>>
      /\ \A u \in Threads : u # t => pc'[u] = pc[u] /\ conn'[u] = conn[u] /\ stream'[u] = stream[u]
      /\ pc[t] = "closing" /\ pc'[t] = "forgetting" /\ conn'[t] = c /\ c \in Conns
      /\ lock[c] = None /\ lock'[c] = t /\ ~closed[c]
      /\ \A d \in Conns : d # c => lock'[d] = lock[d]
  BY DEF PoolInv, Typed, CloseOne, Step, managing, sending
<1>2. Typed'
  BY <1>1 DEF PoolInv, Typed, CloseOne, Step, managing, sending
<1>3. HasConnection' /\ MadeInOrder'
  BY <1>1 DEF PoolInv, HasConnection, MadeInOrder, Exists, Conns
<1>4. Made'
  BY <1>1, QuicPoolAssumption DEF PoolInv, Typed, Made, Exists
<1>5. CloserHasLock'
  <2>1. ASSUME NEW u \in Threads, u # t, pc[u] \in {"forgetting", "finishing"}
        PROVE  conn[u] \in Conns /\ conn[u] # c
    BY <1>1, <2>1, QuicPoolAssumption DEF PoolInv, HasConnection, CloserHasLock
  <2>2. ASSUME NEW d \in Conns, worker[d] = "saving"
        PROVE  d # c
    BY <1>1, <2>2, QuicPoolAssumption DEF PoolInv, CloserHasLock, Conns
  <2> QED
    BY <1>1, <2>1, <2>2 DEF PoolInv, CloserHasLock
<1>6. StarterHasLock'
  BY <1>1, QuicPoolAssumption DEF PoolInv, HasConnection, StarterHasLock
<1>7. TableIsExact'
  BY <1>1, QuicPoolAssumption DEF PoolInv, Typed, CloserHasLock, TableIsExact, Finishing, Exists
<1>8. UnsentIsAnnounced'
  BY <1>1 DEF PoolInv, StarterHasLock, UnsentIsAnnounced
<1> QED
  BY <1>2, <1>3, <1>4, <1>5, <1>6, <1>7, <1>8 DEF PoolInv

LEMMA PoolForget ==
    ASSUME PoolInv, NEW t \in Threads, Forget(t)
    PROVE  PoolInv'
<1>1. /\ UNCHANGED <<manager_lock, lock, address, closed, quic, unsent, wakeups, worker, conn,
                     stream, leaving>>
      /\ \A u \in Threads : u # t => pc'[u] = pc[u]
      /\ pc[t] = "forgetting" /\ pc'[t] = "finishing" /\ manager_lock = None
      /\ conn[t] \in Conns /\ address[conn[t]] \in Addresses
      /\ \A b \in Addresses : table'[b] = IF b = address[conn[t]] /\ b \notin Scoped
                                          THEN None ELSE table[b]
  BY QuicPoolAssumption DEF PoolInv, Typed, HasConnection, Made, Exists, Forget, Step, sending
<1>2. Typed'
  BY <1>1 DEF PoolInv, Typed, Forget, Step, managing, sending
<1>3. HasConnection' /\ MadeInOrder'
  BY <1>1 DEF PoolInv, HasConnection, MadeInOrder, Exists, Conns
<1>4. Made'
  <2>1. ASSUME NEW a \in Addresses, table'[a] \in Conns
        PROVE  table'[a] = table[a]
    BY <1>1, <2>1, QuicPoolAssumption DEF Conns
  <2> QED
    BY <1>1, <2>1 DEF PoolInv, Made, Exists
<1>5. CloserHasLock'
  BY <1>1, QuicPoolAssumption DEF PoolInv, HasConnection, CloserHasLock
<1>6. StarterHasLock'
  BY <1>1, QuicPoolAssumption DEF PoolInv, HasConnection, StarterHasLock
<1>7. TableIsExact'
  <2> SUFFICES ASSUME NEW d \in Conns, Exists(d), address[d] \notin Scoped
               PROVE  table'[address[d]] = d <=> ~closed[d] /\ ~Finishing(d)'
    BY <1>1 DEF TableIsExact, Exists
  <2>1. address[d] \in Addresses
    BY DEF PoolInv, Typed, Exists
  <2>2. table[address[d]] = d <=> ~closed[d] /\ ~Finishing(d)
    BY DEF PoolInv, TableIsExact
  <2>3. CASE d = conn[t]
    \* nobody else is closing it
    <3>1. Finishing(d)'
      BY <1>1, <2>3 DEF Finishing
    <3>2. table'[address[d]] = None
      BY <1>1, <2>1, <2>3
    <3> QED
      BY <3>1, <3>2, QuicPoolAssumption DEF Conns
  <2>4. CASE d # conn[t]
    <3>1. Finishing(d)' <=> Finishing(d)
      BY <1>1, <2>4 DEF Finishing
    <3>2. CASE address[d] # address[conn[t]]
      BY <1>1, <2>1, <2>2, <3>1, <3>2
    <3>3. CASE address[d] = address[conn[t]]
      \* the table has, up to now, what t closes
      <4>1. lock[conn[t]] = t /\ ~closed[conn[t]] /\ Exists(conn[t])
        BY <1>1 DEF PoolInv, CloserHasLock, Made
      <4>2. ~Finishing(conn[t])
        BY <1>1, <4>1 DEF PoolInv, CloserHasLock, Finishing
      <4>3. table[address[d]] = conn[t]
        BY <1>1, <3>3, <4>1, <4>2 DEF PoolInv, TableIsExact
      <4>4. table'[address[d]] = None
        BY <1>1, <2>1, <3>3
      <4> QED
        BY <2>2, <2>4, <3>1, <4>3, <4>4, QuicPoolAssumption DEF Conns
    <3> QED
      BY <3>2, <3>3
  <2> QED
    BY <2>3, <2>4
<1>8. UnsentIsAnnounced'
  BY <1>1 DEF PoolInv, StarterHasLock, UnsentIsAnnounced
<1> QED
  BY <1>2, <1>3, <1>4, <1>5, <1>6, <1>7, <1>8 DEF PoolInv

LEMMA PoolFinishClose ==
    ASSUME PoolInv, NEW t \in Threads, FinishClose(t)
    PROVE  PoolInv'
<1>1. /\ UNCHANGED <<table, manager_lock, address, worker, conn, stream, leaving>>
      /\ \A u \in Threads : u # t => pc'[u] = pc[u]
      /\ pc[t] = "finishing" /\ pc'[t] = "joining" /\ conn[t] \in Conns
      /\ \A d \in Conns : d # conn[t] =>
             /\ closed'[d] = closed[d] /\ quic'[d] = quic[d] /\ unsent'[d] = unsent[d]
             /\ wakeups'[d] = wakeups[d] /\ lock'[d] = lock[d]
      /\ closed'[conn[t]] /\ wakeups'[conn[t]] /\ lock[conn[t]] = t
  BY DEF PoolInv, Typed, HasConnection, CloserHasLock, FinishClose, Step, managing
<1>2. Typed'
  BY <1>1 DEF PoolInv, Typed, FinishClose, Step, managing, sending
<1>3. HasConnection' /\ MadeInOrder'
  BY <1>1 DEF PoolInv, HasConnection, MadeInOrder, Exists, Conns
<1>4. Made'
  BY <1>1, QuicPoolAssumption DEF PoolInv, Typed, Made, Exists
<1>5. CloserHasLock'
  <2>1. ASSUME NEW u \in Threads, u # t, pc[u] \in {"forgetting", "finishing"}
        PROVE  conn[u] \in Conns /\ conn[u] # conn[t]
    BY <1>1, <2>1 DEF PoolInv, HasConnection, CloserHasLock
  <2>2. ASSUME NEW d \in Conns, worker[d] = "saving"
        PROVE  d # conn[t]
    BY <1>1, <2>2, QuicPoolAssumption DEF PoolInv, CloserHasLock, Conns
  <2> QED
    BY <1>1, <2>1, <2>2 DEF PoolInv, CloserHasLock
<1>6. StarterHasLock'
  BY <1>1, QuicPoolAssumption DEF PoolInv, HasConnection, StarterHasLock
<1>7. TableIsExact'
  BY <1>1, QuicPoolAssumption DEF PoolInv, Typed, CloserHasLock, TableIsExact, Finishing, Exists
<1>8. UnsentIsAnnounced'
  BY <1>1 DEF PoolInv, StarterHasLock, UnsentIsAnnounced
<1> QED
  BY <1>2, <1>3, <1>4, <1>5, <1>6, <1>7, <1>8 DEF PoolInv

LEMMA PoolNext == PoolInv /\ [Next]_vars => PoolInv'
<1> SUFFICES ASSUME PoolInv, [Next]_vars PROVE PoolInv'
  OBVIOUS
<1>1. CASE UNCHANGED vars
  BY <1>1 DEF PoolInv, Typed, HasConnection, MadeInOrder, Made, CloserHasLock, StarterHasLock,
     TableIsExact, Finishing, UnsentIsAnnounced, Exists, vars, managing, sending, using, flags
<1>2. ASSUME NEW c \in Conns, WorkerStep(c) \/ Silence(c)
      PROVE  PoolInv'
  BY <1>2, PoolWorker DEF WorkerMoves
<1>3. ASSUME NEW t \in Threads, Begin(t) \/ Continue(t)
      PROVE  PoolInv'
  BY <1>3, PoolQuiet, PoolConnectAgain, PoolConnectAnew, PoolRun, PoolCloseOne, PoolForget,
     PoolFinishClose DEF Begin, Continue, Quiet
<1> QED
  BY <1>1, <1>2, <1>3 DEF Next

\* The table has the open connections and no others (SyncQuicManager.connect,
\* closed; SyncQuicConnection.close).
THEOREM TableHasTheOpenTheorem == Spec => []TableHasTheOpen
<1>1. PoolInv => TableHasTheOpen
  BY DEF PoolInv, TableIsExact, Finishing, TableHasTheOpen
<1> QED
  BY <1>1, PoolInit, PoolNext, PTL DEF Spec

\* A worker does not sleep on data that is to be sent (SyncQuicStream.write,
\* SyncQuicConnection.close, _worker).
THEOREM UnsentIsAnnouncedTheorem == Spec => []UnsentIsAnnounced
<1>1. PoolInv => UnsentIsAnnounced
  BY DEF PoolInv
<1> QED
  BY <1>1, PoolInit, PoolNext, PTL DEF Spec

-----------------------------------------------------------------------------
(* The strengthening of ReceiveIsHonest                                    *)

\* The protocols and interpreters that there are: only DoQ relies on methods
\* of the buffer that are not interrupted.
Sound(m) == /\ m \in [h3 : BOOLEAN, interruptible : BOOLEAN]
            /\ m.interruptible => m.h3

TypedStream ==
    /\ Sound(mode)
    /\ size \in Nat /\ length \in Nat /\ delivered \in Nat
    /\ ended \in BOOLEAN /\ seen_end \in BOOLEAN /\ event.end \in BOOLEAN
    /\ stream_worker \in {"select", "adding", "storing", "ending", "notifying", "done"}
    /\ reader \in {"idle", "checking", "entering", "waiting", "getting", "storing",
                   "closing", "closed"}
    /\ part \in {"length", "message", "all"}
    /\ outcome \in Outcomes

\* Where the threads can be
Placed ==
    /\ stream_worker \in {"storing", "ending"} => mode.interruptible
    /\ reader = "storing" => mode.interruptible
    /\ reader \in {"closing", "closed"} <=> outcome # "none"
    /\ reader # "closed" => streams
    /\ reader = "idle" => part = "length"
    /\ reader # "idle" => IF mode.h3 THEN part = "all" ELSE part \in {"length", "message"}

Putting == stream_worker \in {"adding", "storing", "ending"}
Pending == IF stream_worker \in {"adding", "storing"} THEN Len(event.data) ELSE 0
Taken == IF part = "message" THEN 2 ELSE 0

\* As long as receive() goes on, the buffer has all bytes that were neither
\* taken nor are yet to be put into it, and its end is that of the stream.
BufferIsExact ==
    outcome = "none" =>
        /\ Pending \in Nat /\ Taken + Pending <= delivered
        /\ buffer = Bytes(Taken + 1, delivered - Pending)
        /\ stream_worker \in {"adding", "storing"} =>
               event.data = Bytes(delivered - Pending + 1, delivered)
        /\ Putting => event.end = ended /\ ~seen_end
        /\ ~Putting => seen_end = ended
        /\ stream_worker = "storing" => loaded = buffer

\* What has been taken to the end stays what it is.
TakenIsFinal ==
    /\ reader = "storing" => seen_end /\ data = Bytes(1, delivered)
    /\ mode.h3 /\ outcome = "message" => ended

StreamInv ==
    /\ TypedStream
    /\ Placed
    /\ BufferIsExact
    /\ TakenIsFinal
    /\ ReceiveIsHonest

-----------------------------------------------------------------------------
(* Runs of bytes                                                           *)

LEMMA BytesAre ==
    ASSUME NEW i \in Int, NEW j \in Int, i - 1 <= j
    PROVE  /\ Bytes(i, j) \in Seq(Int)
           /\ Len(Bytes(i, j)) = j - i + 1
           /\ \A k \in 1 .. j - i + 1 : Bytes(i, j)[k] = i + k - 1
  BY DEF Bytes

LEMMA NoBytes ==
    ASSUME NEW i \in Int
    PROVE  Bytes(i, i - 1) = <<>>
<1>1. Bytes(i, i - 1) \in Seq(Int) /\ Len(Bytes(i, i - 1)) = 0
  BY BytesAre
<1> QED
  BY <1>1, EmptySeq

LEMMA BytesJoin ==
    ASSUME NEW i \in Int, NEW j \in Int, NEW k \in Int, i - 1 <= j, j <= k
    PROVE  Bytes(i, j) \o Bytes(j + 1, k) = Bytes(i, k)
<1> DEFINE both == Bytes(i, j) \o Bytes(j + 1, k)
<1>1. /\ both \in Seq(Int) /\ Len(both) = k - i + 1
      /\ \A n \in 1 .. Len(both) : both[n] = i + n - 1
  <2>1. /\ Bytes(i, j) \in Seq(Int) /\ Len(Bytes(i, j)) = j - i + 1
        /\ Bytes(j + 1, k) \in Seq(Int) /\ Len(Bytes(j + 1, k)) = k - j
        /\ \A n \in 1 .. j - i + 1 : Bytes(i, j)[n] = i + n - 1
        /\ \A n \in 1 .. k - j : Bytes(j + 1, k)[n] = j + n
    BY DEF Bytes
  <2>2. /\ both \in Seq(Int)
        /\ Len(both) = Len(Bytes(i, j)) + Len(Bytes(j + 1, k))
        /\ \A n \in 1 .. Len(Bytes(i, j)) + Len(Bytes(j + 1, k)) :
               both[n] = IF n <= Len(Bytes(i, j)) THEN Bytes(i, j)[n]
                         ELSE Bytes(j + 1, k)[n - Len(Bytes(i, j))]
    BY <2>1, ConcatProperties
  <2> HIDE DEF both
  <2>3. both \in Seq(Int) /\ Len(both) = k - i + 1
    BY <2>1, <2>2
  <2>4. ASSUME NEW n \in 1 .. k - i + 1, n > j - i + 1
        PROVE  both[n] = i + n - 1
    <3>1. n - (j - i + 1) \in 1 .. k - j
      BY <2>4
    <3>2. n \in 1 .. Len(Bytes(i, j)) + Len(Bytes(j + 1, k)) /\ ~(n <= Len(Bytes(i, j)))
      BY <2>1, <2>4
    <3>3. both[n] = Bytes(j + 1, k)[n - Len(Bytes(i, j))]
      BY <2>2, <3>2, Zenon
    <3>4. both[n] = Bytes(j + 1, k)[n - (j - i + 1)]
      BY <2>1, <3>3
    <3> QED
      BY <2>1, <3>1, <3>4
  <2> QED
    BY <2>1, <2>2, <2>3, <2>4
<1>2. /\ Bytes(i, k) \in Seq(Int) /\ Len(Bytes(i, k)) = k - i + 1
      /\ \A n \in 1 .. k - i + 1 : Bytes(i, k)[n] = i + n - 1
  BY DEF Bytes
<1> HIDE DEF both
<1>3. both = Bytes(i, k)
  BY <1>1, <1>2, SeqEqual
<1> QED
  BY <1>3 DEF both

LEMMA BytesPart ==
    ASSUME NEW i \in Int, NEW j \in Int, i - 1 <= j,
           NEW m \in Int, NEW n \in Int, 1 <= m, m - 1 <= n, n <= j - i + 1
    PROVE  SubSeq(Bytes(i, j), m, n) = Bytes(i + m - 1, i + n - 1)
<1> DEFINE piece == SubSeq(Bytes(i, j), m, n)
<1>1. /\ Bytes(i, j) \in Seq(Int) /\ Len(Bytes(i, j)) = j - i + 1
      /\ \A k \in 1 .. j - i + 1 : Bytes(i, j)[k] = i + k - 1
  BY BytesAre
<1>2. \A k \in m .. n : Bytes(i, j)[k] \in Int
  BY <1>1
<1>3. /\ piece \in Seq(Int) /\ Len(piece) = IF m <= n THEN n - m + 1 ELSE 0
      /\ \A k \in 1 .. n - m + 1 : piece[k] = Bytes(i, j)[m + k - 1]
  BY <1>2, SubSeqProperties
<1>4. /\ Bytes(i + m - 1, i + n - 1) \in Seq(Int)
      /\ Len(Bytes(i + m - 1, i + n - 1)) = n - m + 1
      /\ \A k \in 1 .. n - m + 1 : Bytes(i + m - 1, i + n - 1)[k] = i + m - 1 + k - 1
  BY DEF Bytes
<1> HIDE DEF piece
<1>5. \A k \in 1 .. n - m + 1 : piece[k] = Bytes(i + m - 1, i + n - 1)[k]
  BY <1>1, <1>3, <1>4
<1>6. piece = Bytes(i + m - 1, i + n - 1)
  BY <1>3, <1>4, <1>5, SeqEqual, SMTT(30)
<1> QED
  BY <1>6 DEF piece

-----------------------------------------------------------------------------

LEMMA StreamInvInit ==
    ASSUME StreamInit, \A m \in Modes : Sound(m), Sizes \subseteq Nat, Lengths \subseteq Nat
    PROVE  StreamInv
<1>1. TypedStream /\ Placed /\ TakenIsFinal /\ ReceiveIsHonest
  BY DEF StreamInit, TypedStream, Placed, TakenIsFinal, ReceiveIsHonest, Sound, Outcomes
<1>2. BufferIsExact
  <2>1. Bytes(1, 0) = <<>>
    BY DEF Bytes
  <2> QED
    BY <1>1, <2>1 DEF StreamInit, BufferIsExact, Pending, Taken, Putting, TypedStream
<1> QED
  BY <1>1, <1>2 DEF StreamInv

LEMMA StreamEvent ==
    ASSUME StreamInv, NEW n \in 0 .. length, NEW end \in BOOLEAN, Event(n, end)
    PROVE  StreamInv'
<1> USE DEF StreamInv, Event, WorkerAside, peer, arrival, bytes, working, reading
<1>1. TypedStream'
  BY DEF TypedStream, Sound, Outcomes
<1>2. Placed'
  BY DEF TypedStream, Placed, Outcomes
<1>3. BufferIsExact'
  <2> SUFFICES ASSUME outcome = "none"
               PROVE  BufferIsExact'
    BY DEF BufferIsExact
  <2>1. /\ stream_worker = "select" /\ stream_worker' = "adding" /\ delivered' = delivered + n
        /\ event'.data = Bytes(delivered + 1, delivered + n) /\ event'.end = ended' /\ ~ended
    BY DEF Placed
  <2>2. Len(event'.data) = n
    BY <2>1 DEF TypedStream, Bytes
  <2>3. Pending = 0 /\ Pending' = n /\ Taken' = Taken
    BY <2>1, <2>2 DEF Pending, Taken
  <2>4. Taken \in Nat /\ delivered' - n = delivered
    BY <2>1 DEF Taken, TypedStream
  <2> QED
    BY <2>1, <2>3, <2>4 DEF BufferIsExact, TypedStream, Putting
<1>4. TakenIsFinal'
  BY DEF TypedStream, Placed, BufferIsExact, Putting, TakenIsFinal
<1>5. ReceiveIsHonest'
  BY DEF TypedStream, Placed, BufferIsExact, Putting, TakenIsFinal, ReceiveIsHonest, Have, Need
<1> QED
  BY <1>1, <1>2, <1>3, <1>4, <1>5

\* Steps that neither fill the buffer nor take from it, nor end with success
LEMMA StreamOthers ==
    ASSUME StreamInv,
           \/ Terminated \/ PutLoad \/ PutEnd \/ Notify \/ FindEnough \/ FindTooLittle
           \/ EnterWait \/ WaitWakesUp \/ WaitTimesOut \/ CloseReader
    PROVE  StreamInv'
<1> USE DEF StreamInv, TypedStream, Sound, Outcomes, Placed, BufferIsExact, Pending, Taken, Putting,
        TakenIsFinal, ReceiveIsHonest, Have, Need,
        WorkerAside, peer, arrival, bytes, working, reading
<1>1. CASE Terminated
  BY <1>1 DEF Terminated
<1>2. CASE PutLoad
  BY <1>2 DEF PutLoad
<1>3. CASE PutEnd
  BY <1>3 DEF PutEnd
<1>4. CASE Notify
  BY <1>4 DEF Notify
<1>5. CASE FindEnough
  BY <1>5 DEF FindEnough, Check
<1>6. CASE FindTooLittle
  BY <1>6, ZenonT(60) DEF FindTooLittle, Check
<1>7. CASE EnterWait
  BY <1>7, ZenonT(60) DEF EnterWait
<1>8. CASE WaitWakesUp
  BY <1>8, ZenonT(60) DEF WaitWakesUp
<1>9. CASE WaitTimesOut
  BY <1>9 DEF WaitTimesOut, End
<1>10. CASE CloseReader
  BY <1>10, ZenonT(60) DEF CloseReader
<1> QED
  BY <1>1, <1>2, <1>3, <1>4, <1>5, <1>6, <1>7, <1>8, <1>9, <1>10

LEMMA StreamPut ==
    ASSUME StreamInv, Put
    PROVE  StreamInv'
<1> USE DEF StreamInv, Put, WorkerAside, peer, arrival, bytes, working, reading
<1>1. TypedStream'
  BY DEF TypedStream, Sound, Outcomes
<1>2. Placed'
  BY DEF TypedStream, Placed, Outcomes
<1>3. BufferIsExact'
  <2> SUFFICES ASSUME outcome = "none"
               PROVE  BufferIsExact'
    BY DEF BufferIsExact
  <2>1. buffer' = Bytes(Taken + 1, delivered)
    <3>1. buffer' = Bytes(Taken + 1, delivered - Pending) \o Bytes(delivered - Pending + 1, delivered)
      BY DEF BufferIsExact, Putting
    <3>2. /\ Taken + 1 \in Int /\ delivered - Pending \in Int /\ delivered \in Int
          /\ (Taken + 1) - 1 <= delivered - Pending /\ delivered - Pending <= delivered
      BY DEF BufferIsExact, TypedStream, Taken
    <3> QED
      BY <3>1, <3>2, BytesJoin
  <2>2. Pending' = 0 /\ Taken' = Taken /\ Taken \in Nat
    BY DEF Pending, Taken
  <2>3. Taken <= delivered
    BY <2>2 DEF BufferIsExact, TypedStream
  <2> QED
    BY <2>1, <2>2, <2>3 DEF BufferIsExact, TypedStream, Putting
<1>4. TakenIsFinal'
  BY DEF TypedStream, Placed, BufferIsExact, Putting, TakenIsFinal
<1>5. ReceiveIsHonest'
  BY DEF TypedStream, Placed, BufferIsExact, Putting, TakenIsFinal, ReceiveIsHonest, Have, Need
<1> QED
  BY <1>1, <1>2, <1>3, <1>4, <1>5

LEMMA StreamPutStore ==
    ASSUME StreamInv, PutStore
    PROVE  StreamInv'
<1> USE DEF StreamInv, PutStore, WorkerAside, peer, arrival, bytes, working, reading
<1>1. TypedStream'
  BY DEF TypedStream, Sound, Outcomes
<1>2. Placed'
  BY DEF TypedStream, Placed, Outcomes
<1>3. BufferIsExact'
  <2> SUFFICES ASSUME outcome = "none"
               PROVE  BufferIsExact'
    BY DEF BufferIsExact
  <2>1. buffer' = Bytes(Taken + 1, delivered)
    <3>1. buffer' = Bytes(Taken + 1, delivered - Pending) \o Bytes(delivered - Pending + 1, delivered)
      BY DEF BufferIsExact, Putting
    <3>2. /\ Taken + 1 \in Int /\ delivered - Pending \in Int /\ delivered \in Int
          /\ (Taken + 1) - 1 <= delivered - Pending /\ delivered - Pending <= delivered
      BY DEF BufferIsExact, TypedStream, Taken
    <3> QED
      BY <3>1, <3>2, BytesJoin
  <2>2. Pending' = 0 /\ Taken' = Taken /\ Taken \in Nat
    BY DEF Pending, Taken
  <2>3. Taken <= delivered
    BY <2>2 DEF BufferIsExact, TypedStream
  <2> QED
    BY <2>1, <2>2, <2>3 DEF BufferIsExact, TypedStream, Putting
<1>4. TakenIsFinal'
  BY DEF TypedStream, Placed, BufferIsExact, Putting, TakenIsFinal
<1>5. ReceiveIsHonest'
  BY DEF TypedStream, Placed, BufferIsExact, Putting, TakenIsFinal, ReceiveIsHonest, Have, Need
<1> QED
  BY <1>1, <1>2, <1>3, <1>4, <1>5

LEMMA StreamReceive ==
    ASSUME StreamInv, NEW expires, Receive(expires)
    PROVE  StreamInv'
<1> USE DEF StreamInv, Receive, WorkerAside, peer, arrival, bytes, working, reading
<1>1. TypedStream'
  BY DEF TypedStream, Sound, Outcomes
<1>2. Placed'
  BY DEF TypedStream, Placed, Outcomes
<1>3. BufferIsExact'
  <2>1. Pending' = Pending /\ (Putting' <=> Putting)
    BY DEF Pending, Putting
  <2>2. outcome = "none" /\ part' # "message"
    BY DEF Placed
  <2>3. part # "message"
    BY DEF Placed, TypedStream
  <2> QED
    BY <2>1, <2>2, <2>3 DEF BufferIsExact, Taken
<1>4. TakenIsFinal'
  BY DEF TypedStream, Placed, BufferIsExact, Putting, TakenIsFinal
<1>5. ReceiveIsHonest'
  BY DEF TypedStream, Placed, BufferIsExact, Putting, TakenIsFinal, ReceiveIsHonest, Have, Need
<1> QED
  BY <1>1, <1>2, <1>3, <1>4, <1>5

LEMMA StreamFindEnd ==
    ASSUME StreamInv, FindEnd
    PROVE  StreamInv'
<1> USE DEF StreamInv, FindEnd, Check, End, WorkerAside, peer, arrival, bytes, working, reading
<1>1. TypedStream'
  BY DEF TypedStream, Sound, Outcomes
<1>2. Placed'
  BY DEF TypedStream, Placed, Outcomes
<1>3. BufferIsExact'
  BY DEF TypedStream, Placed, BufferIsExact, Pending, Taken, Putting
<1>4. TakenIsFinal'
  BY DEF TypedStream, Placed, BufferIsExact, Putting, TakenIsFinal
<1>5. ReceiveIsHonest'
  <2>1. outcome = "none" /\ ~mode.h3 /\ seen_end
    BY DEF TypedStream, Placed
  <2>2. ~Putting /\ ended /\ Pending = 0
    BY <2>1 DEF BufferIsExact, Pending, Putting, TypedStream
  <2>3. Taken \in Nat /\ Len(buffer) = delivered - Taken
    <3>1. buffer = Bytes(Taken + 1, delivered) /\ Taken \in Nat /\ Taken <= delivered /\ delivered \in Nat
      BY <2>1, <2>2 DEF BufferIsExact, TypedStream, Taken
    <3> HIDE DEF Taken
    <3> QED
      BY <3>1 DEF Bytes
  <2>4. Len(buffer) < Need /\ Need = (IF part = "length" THEN 2 ELSE size)
    BY <2>1, <2>3 DEF Have, Need, Placed, TypedStream, Taken
  <2>5. delivered < 2 + size
    BY <2>1, <2>3, <2>4 DEF Taken, TypedStream, Placed
  <2> QED
    BY <2>2, <2>5 DEF ReceiveIsHonest, Outcomes
<1> QED
  BY <1>1, <1>2, <1>3, <1>4, <1>5

LEMMA Found ==
    ASSUME StreamInv, reader = "getting"
    PROVE  /\ outcome = "none" /\ Need \in Nat /\ Need <= Len(buffer)
           /\ Taken \in Nat /\ Pending \in Nat /\ Taken + Need + Pending <= delivered
           /\ SubSeq(buffer, 1, Need) = Bytes(Taken + 1, Taken + Need)
           /\ SubSeq(buffer, Need + 1, Len(buffer)) = Bytes(Taken + Need + 1, delivered - Pending)
           /\ mode.h3 => /\ part = "all" /\ seen_end /\ ended /\ ~Putting
                         /\ Taken = 0 /\ Need = delivered
           /\ ~mode.h3 => \/ part = "length" /\ Taken = 0 /\ Need = 2
                          \/ part = "message" /\ Taken = 2 /\ Need = size
<1>1. outcome = "none" /\ Taken \in Nat /\ Pending \in Nat /\ Taken + Pending <= delivered
  BY DEF StreamInv, Placed, BufferIsExact, Taken
<1>2. delivered \in Nat /\ size \in Nat
  BY DEF StreamInv, TypedStream
<1>3. buffer = Bytes(Taken + 1, delivered - Pending) /\ Len(buffer) = delivered - Pending - Taken
  <2>1. buffer = Bytes(Taken + 1, delivered - Pending)
    BY <1>1 DEF StreamInv, BufferIsExact
  <2> QED
    BY <1>1, <1>2, <2>1 DEF Bytes
<1>4. mode.h3 => /\ part = "all" /\ seen_end /\ ended /\ ~Putting
                 /\ Taken = 0 /\ Need = delivered
  <2> SUFFICES ASSUME mode.h3
               PROVE  /\ part = "all" /\ seen_end /\ ended /\ ~Putting
                      /\ Taken = 0 /\ Need = delivered
    OBVIOUS
  <2>1. part = "all" /\ seen_end
    BY DEF StreamInv, Placed, ReceiveIsHonest, Have
  <2>2. ~Putting /\ ended
    BY <1>1, <2>1 DEF StreamInv, TypedStream, BufferIsExact
  <2>3. Taken = 0 /\ Need = Len(buffer) /\ Pending = 0
    BY <2>1, <2>2 DEF Taken, Need, Pending, Putting
  <2> QED
    BY <1>2, <1>3, <2>1, <2>2, <2>3
<1>5. ~mode.h3 => \/ part = "length" /\ Taken = 0 /\ Need = 2
                  \/ part = "message" /\ Taken = 2 /\ Need = size
  BY DEF StreamInv, Placed, Taken, Need
<1>6. Need \in Nat /\ Need <= Len(buffer)
  BY <1>1, <1>2, <1>3, <1>4, <1>5 DEF StreamInv, ReceiveIsHonest, Have, TypedStream, Sound, Need, Pending, Putting
<1>7. SubSeq(buffer, 1, Need) = Bytes(Taken + 1, Taken + Need)
  <2>1. ASSUME NEW i \in Int, NEW j \in Int, NEW n \in Int,
               i = Taken + 1, j = delivered - Pending, n = Need
        PROVE  SubSeq(buffer, 1, n) = Bytes(i, i + n - 1)
    <3>1. i - 1 <= j /\ 0 <= n /\ n <= j - i + 1 /\ buffer = Bytes(i, j)
      BY <1>1, <1>2, <1>3, <1>6, <2>1
    <3>2. SubSeq(Bytes(i, j), 1, n) = Bytes(i + 1 - 1, i + n - 1)
      <4>1. 1 \in Int /\ 1 <= 1 /\ 1 - 1 <= n
        BY <3>1
      <4> QED
        BY <3>1, <4>1, BytesPart, ZenonT(60)
    <3> QED
      BY <3>1, <3>2
  <2>2. Taken + 1 \in Int /\ delivered - Pending \in Int /\ Need \in Int
        /\ Taken + 1 + Need - 1 = Taken + Need
    BY <1>1, <1>2, <1>6
  <2> QED
    BY <2>1, <2>2
<1>8. SubSeq(buffer, Need + 1, Len(buffer)) = Bytes(Taken + Need + 1, delivered - Pending)
  <2>1. ASSUME NEW i \in Int, NEW j \in Int, NEW m \in Int,
               i = Taken + 1, j = delivered - Pending, m = Need + 1
        PROVE  SubSeq(buffer, m, Len(buffer)) = Bytes(i + m - 1, j)
    <3>1. i - 1 <= j /\ 1 <= m /\ m - 1 <= j - i + 1 /\ buffer = Bytes(i, j) /\ Len(buffer) = j - i + 1
      BY <1>1, <1>2, <1>3, <1>6, <2>1
    <3>2. SubSeq(Bytes(i, j), m, j - i + 1) = Bytes(i + m - 1, i + (j - i + 1) - 1)
      <4>1. j - i + 1 \in Int /\ j - i + 1 <= j - i + 1
        OBVIOUS
      <4> QED
        BY <3>1, <4>1, BytesPart, ZenonT(30)
    <3> QED
      BY <3>1, <3>2
  <2>2. Taken + 1 \in Int /\ delivered - Pending \in Int /\ Need + 1 \in Int
        /\ Taken + 1 + (Need + 1) - 1 = Taken + Need + 1
    BY <1>1, <1>2, <1>6
  <2> QED
    BY <2>1, <2>2
<1> QED
  BY <1>1, <1>2, <1>3, <1>4, <1>5, <1>6, <1>7, <1>8

LEMMA StreamGet ==
    ASSUME StreamInv, Get
    PROVE  StreamInv'
<1> USE DEF WorkerAside, peer, arrival, bytes, working, reading
<1>1. /\ outcome = "none" /\ Need \in Nat
      /\ Taken \in Nat /\ Pending \in Nat /\ Taken + Need + Pending <= delivered
      /\ data' = Bytes(Taken + 1, Taken + Need)
      /\ buffer' = Bytes(Taken + Need + 1, delivered - Pending)
      /\ mode.h3 => /\ part = "all" /\ ended /\ ~Putting
                    /\ Taken = 0 /\ Need = delivered
      /\ ~mode.h3 => \/ part = "length" /\ Taken = 0 /\ Need = 2
                     \/ part = "message" /\ Taken = 2 /\ Need = size
  BY Found DEF Get
<1>2. TypedStream' /\ Placed' /\ TakenIsFinal'
  BY <1>1 DEF StreamInv, Get, Got, End, TypedStream, Sound, Outcomes, Placed, TakenIsFinal
<1>3. CASE part = "length"
  <2>1. /\ reader' = "checking" /\ part' = "message" /\ outcome' = "none"
        /\ ~mode.h3 /\ Taken = 0 /\ Need = 2
    BY <1>1, <1>3 DEF Get, Got
  <2>2. /\ Taken' = 2 /\ Pending' = Pending /\ (Putting' <=> Putting)
    BY <2>1 DEF Get, Taken, Pending, Putting
  <2>3. buffer' = Bytes(Taken' + 1, delivered - Pending') /\ Taken' + Pending' <= delivered
    BY <1>1, <2>1, <2>2
  <2>4. /\ stream_worker' = stream_worker /\ stream_worker # "storing"
        /\ UNCHANGED <<event, delivered, ended, seen_end>>
    BY DEF Get, StreamInv, Placed
  <2>5. BufferIsExact'
    BY <1>1, <2>1, <2>2, <2>3, <2>4 DEF StreamInv, BufferIsExact
  <2>6. ReceiveIsHonest'
    BY <2>1 DEF ReceiveIsHonest
  <2> QED
    BY <1>2, <2>5, <2>6 DEF StreamInv
<1>4. CASE part # "length"
  <2>1. reader' = "closing" /\ outcome' = "message" /\ UNCHANGED <<mode, size, delivered>>
    BY <1>4 DEF Get, Got, End
  <2>2. ReceiveIsHonest'
    BY <1>1, <1>4, <2>1 DEF ReceiveIsHonest
  <2> QED
    BY <1>2, <2>1, <2>2 DEF StreamInv, BufferIsExact
<1> QED
  BY <1>3, <1>4

LEMMA StreamGetLoad ==
    ASSUME StreamInv, GetLoad
    PROVE  StreamInv'
<1> USE DEF StreamInv, GetLoad, WorkerAside, peer, arrival, bytes, working, reading
<1>1. TypedStream'
  BY DEF TypedStream, Sound, Outcomes
<1>2. Placed'
  BY DEF TypedStream, Placed, Outcomes
<1>3. BufferIsExact'
  BY DEF TypedStream, Placed, BufferIsExact, Pending, Taken, Putting
<1>4. TakenIsFinal'
  <2>1. data' = Bytes(1, delivered) /\ seen_end /\ ended
    <3>1. mode.h3
      BY DEF TypedStream, Sound
    <3>2. data' = Bytes(Taken + 1, Taken + Need) /\ Taken = 0 /\ Need = delivered /\ seen_end /\ ended
      BY <3>1, Found
    <3> QED
      BY <3>2 DEF TypedStream
  <2> QED
    BY <2>1 DEF TakenIsFinal
<1>5. ReceiveIsHonest'
  BY DEF TypedStream, Placed, BufferIsExact, Putting, TakenIsFinal, ReceiveIsHonest, Have, Need
<1> QED
  BY <1>1, <1>2, <1>3, <1>4, <1>5

LEMMA StreamGetStore ==
    ASSUME StreamInv, GetStore
    PROVE  StreamInv'
<1> USE DEF StreamInv, GetStore, Got, End, WorkerAside, peer, arrival, bytes, working, reading
<1>1. TypedStream'
  BY DEF TypedStream, Sound, Outcomes
<1>2. Placed'
  BY DEF TypedStream, Placed, Outcomes
<1>3. BufferIsExact'
  <2>1. outcome' = "message"
    BY DEF TypedStream, Placed, Sound
  <2> QED
    BY <2>1 DEF BufferIsExact
<1>4. TakenIsFinal'
  BY DEF TypedStream, Placed, BufferIsExact, Putting, TakenIsFinal
<1>5. ReceiveIsHonest'
  <2>1. reader' = "closing" /\ outcome' = "message" /\ mode.h3
    BY DEF TypedStream, Placed, Sound
  <2> QED
    BY <2>1 DEF ReceiveIsHonest, TakenIsFinal
<1> QED
  BY <1>1, <1>2, <1>3, <1>4, <1>5

LEMMA StreamInvNext == StreamInv /\ [StreamNext]_streamVars => StreamInv'
<1> SUFFICES ASSUME StreamInv, [StreamNext]_streamVars PROVE StreamInv'
  OBVIOUS
<1>1. CASE UNCHANGED streamVars
  <2> USE <1>1 DEF StreamInv, streamVars, peer, arrival, bytes, working, reading
  <2>1. TypedStream' /\ Placed' /\ TakenIsFinal'
    BY DEF TypedStream, Placed, TakenIsFinal
  <2>2. BufferIsExact'
    BY DEF BufferIsExact, Pending, Taken, Putting
  <2>3. ReceiveIsHonest'
    BY DEF ReceiveIsHonest, Have, Need
  <2> QED
    BY <2>1, <2>2, <2>3
<1>2. CASE StreamNext
  BY <1>2, StreamEvent, StreamPut, StreamPutStore, StreamReceive, StreamFindEnd, StreamGet,
     StreamGetLoad, StreamGetStore, StreamOthers DEF StreamNext, WorkerAdds, ReaderStep
<1> QED
  BY <1>1, <1>2

\* A message that receive() returns is that of the peer, and UnexpectedEOF is
\* the peer's doing, where the methods of Buffer are not interrupted under
\* DoQ (SyncQuicStream.receive, Buffer).
THEOREM ReceiveIsHonestTheorem ==
    ASSUME \A m \in Modes : Sound(m), Sizes \subseteq Nat, Lengths \subseteq Nat
    PROVE  StreamSpec => []ReceiveIsHonest
<1>1. StreamInit => StreamInv
  BY StreamInvInit
<1>2. StreamInv => ReceiveIsHonest
  BY DEF StreamInv
<1> QED
  BY <1>1, <1>2, StreamInvNext, PTL DEF StreamSpec
=============================================================================
