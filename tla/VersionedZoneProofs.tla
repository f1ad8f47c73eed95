------------------------ MODULE VersionedZoneProofs ------------------------
(***************************************************************************)
(* Proofs about VersionedZone, for every set of threads, contents,         *)
(* origins and policies, whether or not they raise.                        *)
(***************************************************************************)
EXTENDS VersionedZone, SequenceTheorems, TLAPS

-----------------------------------------------------------------------------
(* The queue of writers: the strengthening of MutualExclusion,             *)
(* WokenSucceeds and NoLostWakeup that the lock steps preserve.            *)

QueueTypeOK ==
    /\ write_txn \in Writers \cup {NoOne}
    /\ write_event \in Writers \cup {NoOne}
    /\ write_waiters \in Seq(Writers)
    /\ signalled \subseteq Writers
    /\ event \in [Writers -> Writers \cup {NoOne}]
    /\ wpc \in [Writers -> PCs]

\* A thread's event is its own, and a waiting thread has one.
OwnEvent == \A w \in Writers : /\ event[w] \in {w, NoOne}
                               /\ wpc[w] = "waiting" => event[w] = w

\* The event the zone waits for is that of a woken thread.
EventIsAwaited == write_event # NoOne => Woken(write_event)

Asleep(w) == wpc[w] = "waiting" /\ w \notin signalled

\* The queue holds the events of the sleeping threads, each once.
QueueIsAsleep ==
    /\ \A k \in 1..Len(write_waiters) : Asleep(write_waiters[k])
    /\ \A j, k \in 1..Len(write_waiters) : write_waiters[j] = write_waiters[k] => j = k
    /\ \A w \in Writers : Asleep(w) => \E k \in 1..Len(write_waiters) : write_waiters[k] = w

\* Somebody will wake the first of the queue.
QueueIsServed == write_waiters # <<>> => write_txn # NoOne \/ write_event # NoOne

QueueInv == /\ QueueTypeOK
            /\ MutualExclusion
            /\ OwnEvent
            /\ WokenSucceeds
            /\ EventIsAwaited
            /\ QueueIsAsleep
            /\ QueueIsServed

LEMMA QueueInit == Init => QueueInv
<1> SUFFICES ASSUME Init PROVE QueueInv
  OBVIOUS
<1> QED
  BY ZoneAssumption DEF Init, QueueInv, QueueTypeOK, MutualExclusion, OwnEvent,
     WokenSucceeds, EventIsAwaited, QueueIsAsleep, QueueIsServed, Asleep, Woken, PCs, Holding

\* A step that leaves the lock's variables and the program counters alone, or
\* moves a thread among the labels of a transaction it holds.
LEMMA QueueUntouched ==
    ASSUME QueueInv, UNCHANGED queue,
           \/ UNCHANGED wpc
           \/ \E w \in Writers, l \in Holding : wpc[w] \in Holding /\ Goto(w, l)
    PROVE  QueueInv'
<1>1. CASE UNCHANGED wpc
  BY <1>1 DEF QueueInv, queue, QueueTypeOK, MutualExclusion, OwnEvent, WokenSucceeds,
     EventIsAwaited, QueueIsAsleep, QueueIsServed, Asleep, Woken
<1>2. ASSUME NEW w \in Writers, NEW l \in Holding, wpc[w] \in Holding, Goto(w, l)
      PROVE  QueueInv'
  <2>1. /\ wpc' \in [Writers -> PCs]
        /\ \A x \in Writers : /\ wpc'[x] \in Holding <=> wpc[x] \in Holding
                              /\ wpc'[x] = "waiting" <=> wpc[x] = "waiting"
                              /\ wpc'[x] = "enter" <=> wpc[x] = "enter"
    BY <1>2 DEF QueueInv, QueueTypeOK, Goto, Holding, PCs
  <2>2. \A x \in Writers : (Woken(x) <=> Woken(x)') /\ (Asleep(x) <=> Asleep(x)')
    BY <2>1 DEF queue, Woken, Asleep
  <2>3. \A k \in 1..Len(write_waiters) : write_waiters[k] \in Writers
    BY DEF QueueInv, QueueTypeOK
  <2> QED
    BY <2>1, <2>2, <2>3, ZoneAssumption DEF QueueInv, queue, QueueTypeOK, MutualExclusion,
       OwnEvent, WokenSucceeds, EventIsAwaited, QueueIsAsleep, QueueIsServed
<1> QED
  BY <1>1, <1>2

LEMMA QueueCallWriter ==
    ASSUME QueueInv, NEW w \in Writers, CallWriter(w)
    PROVE  QueueInv'
<1>1. /\ wpc' \in [Writers -> PCs]
      /\ event' \in [Writers -> Writers \cup {NoOne}]
      /\ event'[w] = NoOne /\ wpc[w] = "idle" /\ wpc'[w] = "enter"
      /\ \A x \in Writers : x # w => wpc'[x] = wpc[x] /\ event'[x] = event[x]
      /\ UNCHANGED <<write_txn, write_event, write_waiters, signalled>>
  BY DEF QueueInv, QueueTypeOK, CallWriter, Goto, PCs
<1>2. \A x \in Writers : (Woken(x) <=> Woken(x)') /\ (Asleep(x) <=> Asleep(x)')
  BY <1>1, ZoneAssumption DEF Woken, Asleep
<1>3. \A k \in 1..Len(write_waiters) : write_waiters[k] \in Writers
  BY DEF QueueInv, QueueTypeOK
<1>4. QueueTypeOK'
  BY <1>1 DEF QueueInv, QueueTypeOK
<1>5. MutualExclusion' /\ OwnEvent'
  BY <1>1 DEF QueueInv, MutualExclusion, OwnEvent, Holding
<1>6. WokenSucceeds' /\ EventIsAwaited'
  BY <1>1, <1>2 DEF QueueInv, QueueTypeOK, WokenSucceeds, EventIsAwaited
<1>7. QueueIsAsleep' /\ QueueIsServed'
  BY <1>1, <1>2, <1>3 DEF QueueInv, QueueIsAsleep, QueueIsServed
<1> QED
  BY <1>4, <1>5, <1>6, <1>7 DEF QueueInv

LEMMA QueueAcquire ==
    ASSUME QueueInv, NEW w \in Writers, Acquire(w)
    PROVE  QueueInv'
<1>1. /\ wpc' \in [Writers -> PCs]
      /\ event' \in [Writers -> Writers \cup {NoOne}]
      /\ event'[w] = NoOne /\ wpc[w] = "enter" /\ wpc'[w] = "setup_id"
      /\ \A x \in Writers : x # w => wpc'[x] = wpc[x] /\ event'[x] = event[x]
      /\ write_txn = NoOne /\ write_txn' = w
      /\ write_event = event[w] /\ write_event' = NoOne
      /\ signalled' = signalled \ {w}
      /\ UNCHANGED write_waiters
  BY DEF QueueInv, QueueTypeOK, Acquire, MayAcquire, Goto, PCs
<1>2. \A x \in Writers : Asleep(x) <=> Asleep(x)'
  BY <1>1 DEF Asleep
<1>3. \A x \in Writers : ~Woken(x)'
  \* a woken thread's event is the zone's, which was w's or none
  <2> SUFFICES ASSUME NEW x \in Writers, Woken(x)' PROVE FALSE
    OBVIOUS
  <2>1. x # w /\ Woken(x)
    BY <1>1, ZoneAssumption DEF Woken
  <2>2. write_event = x
    BY <2>1 DEF QueueInv, WokenSucceeds
  <2> QED
    BY <1>1, <2>1, <2>2, ZoneAssumption DEF QueueInv, OwnEvent
<1>4. \A k \in 1..Len(write_waiters) : write_waiters[k] \in Writers
  BY DEF QueueInv, QueueTypeOK
<1>5. QueueTypeOK'
  BY <1>1 DEF QueueInv, QueueTypeOK
<1>6. MutualExclusion' /\ OwnEvent'
  BY <1>1, ZoneAssumption DEF QueueInv, MutualExclusion, OwnEvent, Holding
<1>7. WokenSucceeds' /\ EventIsAwaited' /\ QueueIsServed'
  BY <1>1, <1>3, ZoneAssumption DEF WokenSucceeds, EventIsAwaited, QueueIsServed
<1>8. QueueIsAsleep'
  BY <1>1, <1>2, <1>4 DEF QueueInv, QueueIsAsleep
<1> QED
  BY <1>5, <1>6, <1>7, <1>8 DEF QueueInv

LEMMA QueueEnqueue ==
    ASSUME QueueInv, NEW w \in Writers, Enqueue(w)
    PROVE  QueueInv'
<1>1. /\ wpc' \in [Writers -> PCs]
      /\ event' \in [Writers -> Writers \cup {NoOne}]
      /\ event'[w] = w /\ wpc[w] = "enter" /\ wpc'[w] = "waiting"
      /\ \A x \in Writers : x # w => wpc'[x] = wpc[x] /\ event'[x] = event[x]
      /\ signalled' = signalled \ {w}
      /\ write_waiters' = Append(write_waiters, w)
      /\ UNCHANGED <<write_txn, write_event>>
      /\ ~MayAcquire(w)
  BY DEF QueueInv, QueueTypeOK, Enqueue, Goto, PCs
<1>2. ~Woken(w) /\ ~Asleep(w) /\ event[w] = NoOne
  \* a woken thread would have been let in
  <2>1. ~Woken(w)
    BY <1>1 DEF QueueInv, WokenSucceeds, MayAcquire, Woken
  <2> QED
    BY <1>1, <2>1 DEF QueueInv, OwnEvent, Woken, Asleep
<1>3. \A x \in Writers : x # w => (Woken(x) <=> Woken(x)') /\ (Asleep(x) <=> Asleep(x)')
  BY <1>1 DEF Woken, Asleep
<1>4. ~Woken(w)' /\ Asleep(w)'
  BY <1>1 DEF Woken, Asleep
<1>5. /\ Len(write_waiters') = Len(write_waiters) + 1
      /\ write_waiters'[Len(write_waiters) + 1] = w
      /\ \A k \in 1..Len(write_waiters) : /\ write_waiters'[k] = write_waiters[k]
                                         /\ write_waiters[k] \in Writers
      /\ Len(write_waiters) \in Nat
      /\ write_waiters' \in Seq(Writers)
  BY <1>1 DEF QueueInv, QueueTypeOK
<1>6. QueueTypeOK'
  BY <1>1, <1>5 DEF QueueInv, QueueTypeOK
<1>7. MutualExclusion' /\ OwnEvent'
  BY <1>1 DEF QueueInv, MutualExclusion, OwnEvent, Holding
<1>8. WokenSucceeds' /\ EventIsAwaited'
  BY <1>1, <1>2, <1>3, <1>4 DEF QueueInv, QueueTypeOK, WokenSucceeds, EventIsAwaited
<1>9. QueueIsServed'
  BY <1>1, <1>2 DEF QueueInv, QueueIsServed, MayAcquire
<1>10. QueueIsAsleep'
  <2>1. \A k \in 1..Len(write_waiters') : wpc'[write_waiters'[k]] = "waiting" /\ write_waiters'[k] \notin signalled'
    BY <1>3, <1>4, <1>5 DEF QueueInv, QueueIsAsleep, Asleep
  <2>2. \A j, k \in 1..Len(write_waiters') :
            write_waiters'[j] = write_waiters'[k] => j = k
    BY <1>2, <1>5 DEF QueueInv, QueueIsAsleep
  <2>3. \A x \in Writers : Asleep(x)' =>
            \E k \in 1..Len(write_waiters') : write_waiters'[k] = x
    <3> SUFFICES ASSUME NEW x \in Writers, Asleep(x)'
                 PROVE  \E k \in 1..Len(write_waiters') : write_waiters'[k] = x
      OBVIOUS
    <3>1. CASE x = w
      BY <3>1, <1>5
    <3>2. CASE x # w
      <4>1. PICK k \in 1..Len(write_waiters) : write_waiters[k] = x
        BY <3>2, <1>3 DEF QueueInv, QueueIsAsleep
      <4> QED
        BY <4>1, <1>5
    <3> QED
      BY <3>1, <3>2
  <2> QED
    BY <2>1, <2>2, <2>3 DEF QueueIsAsleep, Asleep
<1> QED
  BY <1>6, <1>7, <1>8, <1>9, <1>10 DEF QueueInv

LEMMA QueueWake ==
    ASSUME QueueInv, NEW w \in Writers, Wake(w)
    PROVE  QueueInv'
<1>1. /\ wpc' \in [Writers -> PCs]
      /\ wpc[w] = "waiting" /\ wpc'[w] = "enter" /\ w \in signalled
      /\ event[w] = w
      /\ \A x \in Writers : x # w => wpc'[x] = wpc[x]
      /\ UNCHANGED queue
  BY DEF QueueInv, QueueTypeOK, OwnEvent, Wake, Goto, PCs
<1>2. \A x \in Writers : (Woken(x) <=> Woken(x)') /\ (Asleep(x) <=> Asleep(x)')
  BY <1>1 DEF Woken, Asleep, queue
<1>3. \A k \in 1..Len(write_waiters) : write_waiters[k] \in Writers
  BY DEF QueueInv, QueueTypeOK
<1>4. QueueTypeOK'
  BY <1>1 DEF QueueInv, QueueTypeOK, queue
<1>5. MutualExclusion' /\ OwnEvent'
  BY <1>1 DEF QueueInv, MutualExclusion, OwnEvent, Holding, queue
<1>6. WokenSucceeds' /\ EventIsAwaited'
  BY <1>1, <1>2 DEF QueueInv, QueueTypeOK, WokenSucceeds, EventIsAwaited, queue
<1>7. QueueIsAsleep' /\ QueueIsServed'
  BY <1>1, <1>2, <1>3 DEF QueueInv, QueueIsAsleep, QueueIsServed, queue
<1> QED
  BY <1>4, <1>5, <1>6, <1>7 DEF QueueInv

\* The end of a write transaction, committed or not.
LEMMA QueueEndWrite ==
    ASSUME QueueInv, NEW w \in Writers, wpc[w] = "writing", EndWriteUnlocked, Ended(w)
    PROVE  QueueInv'
<1>1. /\ wpc' \in [Writers -> PCs]
      /\ wpc'[w] = "idle" /\ write_txn = w /\ write_txn' = NoOne
      /\ \A x \in Writers : x # w => wpc'[x] = wpc[x]
      /\ UNCHANGED event
  BY DEF QueueInv, QueueTypeOK, MutualExclusion, EndWriteUnlocked, Ended, Goto, PCs, Holding
<1>2. write_event = NoOne /\ \A x \in Writers : ~Woken(x)
  \* there is a writer, so nobody is woken
  BY <1>1, ZoneAssumption DEF QueueInv, QueueTypeOK, WokenSucceeds, EventIsAwaited
<1>3. MutualExclusion' /\ OwnEvent'
  BY <1>1, ZoneAssumption DEF QueueInv, MutualExclusion, OwnEvent, Holding
<1>4. CASE write_waiters = <<>>
  <2>1. UNCHANGED <<write_event, write_waiters, signalled>>
    BY <1>4 DEF EndWriteUnlocked
  <2>2. \A x \in Writers : ~Woken(x)' /\ (Asleep(x)' <=> Asleep(x))
    BY <1>1, <1>2, <2>1 DEF Woken, Asleep
  <2>3. QueueTypeOK' /\ WokenSucceeds' /\ EventIsAwaited' /\ QueueIsServed'
    BY <1>1, <1>2, <1>4, <2>1, <2>2
       DEF QueueInv, QueueTypeOK, WokenSucceeds, EventIsAwaited, QueueIsServed
  <2>4. QueueIsAsleep'
    BY <1>4, <2>1, <2>2 DEF QueueInv, QueueIsAsleep
  <2> QED
    BY <1>3, <2>3, <2>4 DEF QueueInv
<1>5. CASE write_waiters # <<>>
  <2>0. PICK first \in Writers : first = write_waiters[1]
    BY <1>5 DEF QueueInv, QueueTypeOK
  <2>1. /\ Len(write_waiters) \in Nat /\ Len(write_waiters) >= 1
        /\ first \in Writers
        /\ write_event' = first
        /\ signalled' = signalled \cup {first}
        /\ write_waiters' = Tail(write_waiters)
        /\ write_waiters' \in Seq(Writers)
        /\ Len(write_waiters') = Len(write_waiters) - 1
        /\ \A k \in 1..Len(write_waiters') : write_waiters'[k] = write_waiters[k + 1]
        /\ \A k \in 1..Len(write_waiters) : write_waiters[k] \in Writers
    BY <1>5, <2>0, HeadTailProperties DEF QueueInv, QueueTypeOK, EndWriteUnlocked
  <2>2. Asleep(first) /\ event[first] = first /\ first # w
    BY <2>0, <2>1 DEF QueueInv, QueueIsAsleep, Asleep, OwnEvent
  <2>3. Woken(first)' /\ ~Asleep(first)'
    BY <1>1, <2>1, <2>2 DEF Woken, Asleep
  <2>4. \A x \in Writers : x # first => ~Woken(x)' /\ (Asleep(x)' <=> Asleep(x))
    BY <1>1, <1>2, <2>1 DEF Woken, Asleep
  <2>5. QueueTypeOK' /\ WokenSucceeds' /\ EventIsAwaited' /\ QueueIsServed'
    BY <1>1, <2>1, <2>3, <2>4, ZoneAssumption
       DEF QueueInv, QueueTypeOK, WokenSucceeds, EventIsAwaited, QueueIsServed
  <2>6. \A k \in 1..Len(write_waiters') : wpc'[write_waiters'[k]] = "waiting" /\ write_waiters'[k] \notin signalled'
    <3> SUFFICES ASSUME NEW k \in 1..Len(write_waiters') PROVE wpc'[write_waiters'[k]] = "waiting" /\ write_waiters'[k] \notin signalled'
      OBVIOUS
    <3>1. k + 1 \in 1..Len(write_waiters) /\ k + 1 # 1 /\ 1 \in 1..Len(write_waiters)
      BY <2>1
    <3>2. write_waiters[k + 1] # first /\ Asleep(write_waiters[k + 1])
      BY <3>1, <2>0 DEF QueueInv, QueueIsAsleep
    <3> QED
      BY <3>1, <3>2, <2>1, <2>4 DEF Asleep
  <2>7. \A j, k \in 1..Len(write_waiters') :
            write_waiters'[j] = write_waiters'[k] => j = k
    <3> SUFFICES ASSUME NEW j \in 1..Len(write_waiters'), NEW k \in 1..Len(write_waiters'),
                        write_waiters'[j] = write_waiters'[k]
                 PROVE  j = k
      OBVIOUS
    <3>1. j + 1 \in 1..Len(write_waiters) /\ k + 1 \in 1..Len(write_waiters)
      BY <2>1
    <3>2. j + 1 = k + 1
      BY <3>1, <2>1 DEF QueueInv, QueueIsAsleep
    <3> QED
      BY <3>2, <2>1
  <2>8. \A x \in Writers : Asleep(x)' =>
            \E k \in 1..Len(write_waiters') : write_waiters'[k] = x
    <3> SUFFICES ASSUME NEW x \in Writers, Asleep(x)'
                 PROVE  \E k \in 1..Len(write_waiters') : write_waiters'[k] = x
      OBVIOUS
    <3>1. x # first /\ Asleep(x)
      BY <2>3, <2>4
    <3>2. PICK k \in 1..Len(write_waiters) : write_waiters[k] = x
      BY <3>1 DEF QueueInv, QueueIsAsleep
    <3>3. k # 1
      BY <3>1, <3>2, <2>0
    <3>4. k - 1 \in 1..Len(write_waiters') /\ (k - 1) + 1 = k
      BY <2>1, <3>3
    <3>5. write_waiters'[k - 1] = x
      BY <2>1, <3>2, <3>4
    <3> QED
      BY <3>4, <3>5
  <2>9. QueueIsAsleep'
    BY <2>6, <2>7, <2>8 DEF QueueIsAsleep, Asleep
  <2> QED
    BY <1>3, <2>5, <2>9 DEF QueueInv
<1> QED
  BY <1>4, <1>5

LEMMA QueueStep == QueueInv /\ [Next]_vars => QueueInv'
<1> SUFFICES ASSUME QueueInv, [Next]_vars PROVE QueueInv'
  OBVIOUS
<1>1. ASSUME NEW w \in Writers, WriterNext(w) PROVE QueueInv'
  <2>1. CASE CallWriter(w)
    BY <2>1, QueueCallWriter
  <2>2. CASE Acquire(w)
    BY <2>2, QueueAcquire
  <2>3. CASE Enqueue(w)
    BY <2>3, QueueEnqueue
  <2>4. CASE Wake(w)
    BY <2>4, QueueWake
  <2>5. CASE SetupId(w)
    BY <2>5, QueueUntouched DEF SetupId, Holding
  <2>6. CASE SetupNodes(w)
    BY <2>6, QueueUntouched DEF SetupNodes, Holding
  <2>7. CASE Modify(w)
    BY <2>7, QueueUntouched DEF Modify
  <2>8. CASE SetOrigin(w)
    BY <2>8, QueueUntouched DEF SetOrigin
  <2>9. CASE Commit(w)
    BY <2>9, QueueEndWrite DEF Commit
  <2>10. CASE CommitPolicyRaises(w)
    BY <2>10, QueueUntouched DEF CommitPolicyRaises, Holding
  <2>11. CASE CommitFactoryRaises(w)
    BY <2>11, QueueUntouched DEF CommitFactoryRaises, Holding
  <2>12. CASE EndWrite(w)
    BY <2>12, QueueEndWrite DEF EndWrite
  <2> QED
    BY <1>1, <2>1, <2>2, <2>3, <2>4, <2>5, <2>6, <2>7, <2>8, <2>9, <2>10, <2>11, <2>12
       DEF WriterNext
<1>2. ASSUME NEW r \in Readers, ReaderNext(r) PROVE QueueInv'
  BY <1>2, QueueUntouched DEF ReaderNext, OpenReader, OpenReaderById, OpenReaderBySerial,
     Open, CloseReader
<1>3. CASE SetPolicy
  BY <1>3, QueueUntouched DEF SetPolicy
<1>4. CASE UNCHANGED vars
  BY <1>4, QueueUntouched DEF vars
<1> QED
  BY <1>1, <1>2, <1>3, <1>4 DEF Next

THEOREM QueueInvariant == Spec => []QueueInv
<1> QED
  BY QueueInit, QueueStep, PTL DEF Spec

\* One write transaction at a time, and _write_txn is that one.
THEOREM MutualExclusionHolds == Spec => []MutualExclusion
<1>1. QueueInv => MutualExclusion
  BY DEF QueueInv
<1> QED
  BY <1>1, QueueInvariant, PTL

\* A thread that was woken becomes the writer at its next step under the lock.
THEOREM WokenSucceedsHolds == Spec => []WokenSucceeds
<1>1. QueueInv => WokenSucceeds
  BY DEF QueueInv
<1> QED
  BY <1>1, QueueInvariant, PTL

\* No wake-up is lost: whoever waits is in the queue once or is woken, and the
\* queue has someone to serve it.
THEOREM NoLostWakeupHolds == Spec => []NoLostWakeup
<1>1. QueueInv => NoLostWakeup
  <2> SUFFICES ASSUME QueueInv PROVE NoLostWakeup
    OBVIOUS
  <2>1. write_waiters # <<>> =>
        write_txn # NoOne \/ (write_event # NoOne /\ Woken(write_event))
    BY DEF QueueInv, QueueIsServed, EventIsAwaited
  <2>2. ASSUME NEW w \in Writers, wpc[w] = "waiting", w \notin signalled
        PROVE  \E k \in 1..Len(write_waiters) :
                  \A j \in 1..Len(write_waiters) : write_waiters[j] = w <=> j = k
    BY <2>2 DEF QueueInv, QueueIsAsleep, Asleep
  <2> QED
    BY <2>1, <2>2 DEF NoLostWakeup
<1> QED
  BY <1>1, QueueInvariant, PTL

-----------------------------------------------------------------------------
(* The queue of versions.                                                  *)

\* Positions and ids correspond, and every version retained is the one that was
\* committed under its id; n versions were committed.
Consecutive(vs, n) ==
    /\ vs \in Seq(VersionType) /\ vs # <<>>
    /\ \A k \in 1..Len(vs) : vs[k].id \in 1..n /\ vs[k].id = n - Len(vs) + k

OpenWithin(snaps, n) == \A r \in Readers : IsOpen(snaps, r) => snaps[r].id <= n

\* Pruning a queue of consecutive versions leaves a suffix of it that holds the
\* last version and the version of every open reader that it held before.
LEMMA PruneKeeps ==
    ASSUME NEW vs, NEW n \in Nat, Consecutive(vs, n),
           NEW snaps \in [Readers -> VersionType], OpenWithin(snaps, n),
           NEW least \in Nat, IsLeastKept(vs, snaps, least),
           NEW pol, NEW pruned, IsPruned(vs, least, pol, pruned)
    PROVE  /\ Consecutive(pruned, n)
           /\ \A k \in 1..Len(pruned) : \E j \in 1..Len(vs) : pruned[k] = vs[j]
           /\ Last(pruned) = Last(vs)
           /\ \A r \in Readers : IsOpen(snaps, r) /\ vs[1].id <= snaps[r].id
                                => pruned[1].id <= snaps[r].id
<1>1. Len(vs) \in Nat /\ Len(vs) >= 1 /\ \A k \in 1..Len(vs) : vs[k] \in VersionType
  BY DEF Consecutive
<1>2. Last(vs).id = n /\ least <= n
  BY <1>1 DEF Consecutive, Last, IsLeastKept, OpenWithin, VersionType
<1>3. PICK k \in 1..(Len(vs) + 1) : /\ \A j \in 1..(k - 1) : Drops(vs, least, pol, j)
                                    /\ pruned = SubSeq(vs, k, Len(vs))
  BY DEF IsPruned
<1>4. \A j \in 1..(k - 1) : vs[j].id < least
  BY <1>3 DEF Drops
<1>5. k <= Len(vs)
  BY <1>1, <1>2, <1>4 DEF Last
<1>6. /\ pruned \in Seq(VersionType)
      /\ Len(pruned) = Len(vs) - k + 1
      /\ \A i \in 1..Len(pruned) : pruned[i] = vs[k + i - 1]
  BY <1>1, <1>3, <1>5, SubSeqProperties
<1>7. \A i \in 1..Len(pruned) : k + i - 1 \in 1..Len(vs)
  BY <1>1, <1>5, <1>6
<1>8. Consecutive(pruned, n)
  <2>1. pruned # <<>>
    BY <1>5, <1>6, <1>1
  <2>2. \A i \in 1..Len(pruned) : /\ pruned[i].id \in 1..n
                                  /\ pruned[i].id = n - Len(pruned) + i
    <3> SUFFICES ASSUME NEW i \in 1..Len(pruned)
                 PROVE  pruned[i].id \in 1..n /\ pruned[i].id = n - Len(pruned) + i
      OBVIOUS
    <3>1. /\ pruned[i] = vs[k + i - 1]
          /\ vs[k + i - 1].id \in 1..n
          /\ vs[k + i - 1].id = n - Len(vs) + (k + i - 1)
      BY <1>6, <1>7 DEF Consecutive
    <3>2. n - Len(vs) + (k + i - 1) = n - Len(pruned) + i
      BY <1>1, <1>5, <1>6
    <3> QED
      BY <3>1, <3>2
  <2> QED
    BY <1>6, <2>1, <2>2 DEF Consecutive
<1>9. Last(pruned) = Last(vs)
  BY <1>1, <1>5, <1>6 DEF Last
<1>10. ASSUME NEW r \in Readers, IsOpen(snaps, r), vs[1].id <= snaps[r].id
       PROVE  pruned[1].id <= snaps[r].id
  <2>1. pruned[1] = vs[k]
    BY <1>1, <1>5, <1>6
  <2>2. CASE k = 1
    BY <1>10, <2>1, <2>2
  <2>3. CASE k # 1
    <3>0. k - 1 \in 1..(k - 1) /\ k - 1 \in 1..Len(vs) /\ k \in 1..Len(vs)
      BY <1>1, <1>5, <2>3
    <3>1. vs[k - 1].id < least /\ vs[k].id = vs[k - 1].id + 1
      <4>1. vs[k - 1].id < least
        BY <1>4, <3>0
      <4>2. vs[k].id = n - Len(vs) + k /\ vs[k - 1].id = n - Len(vs) + (k - 1)
        BY <3>0 DEF Consecutive
      <4> QED
        BY <1>1, <4>1, <4>2
    <3>2. least <= snaps[r].id
      BY <1>10 DEF IsLeastKept
    <3>3. snaps[r].id \in Nat /\ vs[k].id \in Nat /\ vs[k - 1].id \in Nat
      BY <1>1, <3>0 DEF VersionType
    <3> QED
      BY <2>1, <3>1, <3>2, <3>3
  <2> QED
    BY <2>2, <2>3
<1> QED
  BY <1>6, <1>7, <1>8, <1>9, <1>10

-----------------------------------------------------------------------------
NoneFailed == \A w \in Writers : wpc[w] # "failed"

\* What a writer's version is made from, at each stage of its setup.
WorkInv == \A w \in Writers :
    /\ wpc[w] \in {"setup_nodes", "writing"} => wver[w].id = Len(history) + 1
    /\ wpc[w] = "writing" =>
        /\ ~wver[w].changed => wver[w].nodes \in {Empty, history[Len(history)]}
        /\ origin # NoOrigin => wver[w].origin = origin

ReaderInv == \A r \in Readers : IsOpen(snap, r) =>
    /\ versions[1].id <= snap[r].id
    /\ snap[r].id <= Len(history)
    /\ snap[r].nodes = history[snap[r].id]

ZoneInv == /\ Consecutive(versions, Len(history))
           /\ \A k \in 1..Len(versions) : versions[k].nodes = history[versions[k].id]
           /\ NoneFailed => /\ nodes = Last(versions).nodes
                            /\ origin = Last(versions).origin

ZoneTypeOK ==
    /\ versions \in Seq(VersionType) /\ versions # <<>>
    /\ nodes \in Contents
    /\ origin \in Origins \cup {NoOrigin}
    /\ policy \in Policies
    /\ wver \in [Writers -> WorkType]
    /\ snap \in [Readers -> VersionType]
    /\ history \in Seq(Contents)

StoreInv == ZoneTypeOK /\ ZoneInv /\ WorkInv /\ ReaderInv

\* The inductive invariant.
IInv == QueueInv /\ StoreInv

LEMMA InitIInv == Init => IInv
<1> SUFFICES ASSUME Init PROVE IInv
  OBVIOUS
<1>1. ZoneTypeOK
  BY ZoneAssumption DEF Init, ZoneTypeOK, VersionType, WorkType, NoWork, NoVersion
<1>2. ZoneInv
  BY <1>1, ZoneAssumption DEF Init, ZoneTypeOK, ZoneInv, Consecutive, VersionType, Last
<1>3. WorkInv /\ ReaderInv
  BY DEF Init, WorkInv, ReaderInv, IsOpen, NoVersion
<1> QED
  BY <1>1, <1>2, <1>3, QueueInit DEF IInv, StoreInv

-----------------------------------------------------------------------------
(* Steps that change nothing but the queue, or move a thread to a place      *)
(* where it has no version in preparation.                                 *)
LEMMA StoreUntouched ==
    ASSUME StoreInv, QueueTypeOK, UNCHANGED <<zone, wver, snap>>,
           NEW w \in Writers, wpc[w] # "failed",
           NEW l \in PCs \ {"setup_nodes", "writing"}, Goto(w, l)
    PROVE  StoreInv'
<1>1. /\ wpc'[w] = l
      /\ \A x \in Writers : x # w => wpc'[x] = wpc[x]
  BY DEF QueueTypeOK, Goto
<1>2. ZoneTypeOK' /\ ReaderInv'
  BY DEF StoreInv, ZoneTypeOK, ReaderInv, zone, IsOpen
<1>3. NoneFailed' => NoneFailed
  BY <1>1 DEF NoneFailed
<1>4. ZoneInv'
  BY <1>3 DEF StoreInv, ZoneInv, zone
<1>5. WorkInv'
  BY <1>1 DEF StoreInv, WorkInv, zone
<1> QED
  BY <1>2, <1>4, <1>5 DEF StoreInv

\* A writer that holds the transaction has not failed, and neither has another.
LEMMA WriterAlone ==
    ASSUME QueueInv, NEW w \in Writers, wpc[w] \in Holding \ {"failed"}
    PROVE  /\ NoneFailed
           /\ \A x \in Writers : x # w => wpc[x] \notin Holding
  BY DEF QueueInv, MutualExclusion, NoneFailed, Holding

LEMMA LastVersion ==
    ASSUME StoreInv
    PROVE  /\ Len(versions) \in Nat /\ Len(versions) \in 1..Len(versions)
           /\ 1 \in 1..Len(versions)
           /\ Len(history) \in Nat
           /\ Last(versions) = versions[Len(versions)]
           /\ Last(versions).id = Len(history)
           /\ Last(versions).nodes = history[Len(history)]
<1>1. Len(versions) \in Nat /\ Len(versions) # 0 /\ Len(history) \in Nat
  BY DEF StoreInv, ZoneTypeOK
<1>2. Len(versions) \in 1..Len(versions) /\ 1 \in 1..Len(versions)
  BY <1>1
<1>3. versions[Len(versions)].id = Len(history) - Len(versions) + Len(versions)
  BY <1>2 DEF StoreInv, ZoneInv, Consecutive
<1> QED
  BY <1>1, <1>2, <1>3 DEF StoreInv, ZoneInv, Last

LEMMA StoreSetupId ==
    ASSUME IInv, NEW w \in Writers, SetupId(w)
    PROVE  StoreInv'
<1>1. /\ wpc[w] = "setup_id" /\ wpc'[w] = "setup_nodes"
      /\ \A x \in Writers : x # w => wpc'[x] = wpc[x] /\ wver'[x] = wver[x]
      /\ wver'[w] = [NoWork EXCEPT !.id = Last(versions).id + 1]
      /\ UNCHANGED <<zone, snap>>
  BY DEF IInv, QueueInv, QueueTypeOK, StoreInv, ZoneTypeOK, SetupId, Goto
<1>2. wver'[w] \in WorkType /\ wver'[w].id = Len(history) + 1
  <2>1. Last(versions).id + 1 = Len(history) + 1 /\ Len(history) + 1 \in Nat
    BY LastVersion DEF IInv
  <2>2. wver'[w] = [id |-> Len(history) + 1, nodes |-> Empty, origin |-> NoOrigin,
                    changed |-> FALSE]
    BY <1>1, <2>1 DEF NoWork
  <2> QED
    BY <2>1, <2>2, ZoneAssumption DEF WorkType
<1>3. wver' \in [Writers -> WorkType]
  BY <1>2 DEF IInv, StoreInv, ZoneTypeOK, SetupId
<1>4. ZoneTypeOK' /\ ReaderInv'
  BY <1>1, <1>3 DEF IInv, StoreInv, ZoneTypeOK, ReaderInv, zone, IsOpen
<1>5. ZoneInv'
  BY <1>1 DEF IInv, StoreInv, ZoneInv, zone, NoneFailed
<1>6. WorkInv'
  BY <1>1, <1>2 DEF IInv, StoreInv, WorkInv, zone
<1> QED
  BY <1>4, <1>5, <1>6 DEF StoreInv

\* The three steps that change the version a writer prepares.
LEMMA StoreWork ==
    ASSUME IInv, NEW w \in Writers,
           SetupNodes(w) \/ Modify(w) \/ SetOrigin(w)
    PROVE  StoreInv'
<1>1. /\ wpc[w] \in {"setup_nodes", "writing"} /\ wpc'[w] = "writing"
      /\ \A x \in Writers : x # w => wpc'[x] = wpc[x] /\ wver'[x] = wver[x]
      /\ UNCHANGED <<zone, snap>>
  BY DEF IInv, QueueInv, QueueTypeOK, StoreInv, ZoneTypeOK, SetupNodes, Modify, SetOrigin, Goto
<1>2. NoneFailed /\ nodes = history[Len(history)]
  BY <1>1, WriterAlone, LastVersion DEF IInv, StoreInv, ZoneInv, Holding
<1>3. wver[w] \in WorkType /\ nodes \in Contents /\ origin \in Origins \cup {NoOrigin}
  BY DEF IInv, StoreInv, ZoneTypeOK
<1>4. /\ wver' \in [Writers -> WorkType]
      /\ wver'[w].id = wver[w].id
      /\ ~wver'[w].changed => wver'[w].nodes \in {Empty, history[Len(history)]}
      /\ origin # NoOrigin => wver'[w].origin = origin
  <2>1. CASE SetupNodes(w)
    <3>1. PICK c \in {Empty, nodes} :
            wver' = [wver EXCEPT ![w].nodes = c, ![w].origin = origin]
      BY <2>1 DEF SetupNodes
    <3> QED
      BY <3>1, <1>2, <1>3, ZoneAssumption DEF IInv, StoreInv, ZoneTypeOK, WorkType
  <2>2. CASE Modify(w)
    <3>1. PICK c \in Contents :
            wver' = [wver EXCEPT ![w].nodes = c, ![w].changed = TRUE]
      BY <2>2 DEF Modify
    <3>2. origin # NoOrigin => wver[w].origin = origin
      BY <2>2 DEF IInv, StoreInv, WorkInv, Modify
    <3> QED
      BY <3>1, <3>2, <1>3 DEF IInv, StoreInv, ZoneTypeOK, WorkType
  <2>3. CASE SetOrigin(w)
    <3>1. PICK o \in Origins : wver' = [wver EXCEPT ![w].origin = o]
      BY <2>3 DEF SetOrigin
    <3>2. origin = NoOrigin
      BY <2>3 DEF IInv, StoreInv, WorkInv, SetOrigin
    <3>3. ~wver[w].changed => wver[w].nodes \in {Empty, history[Len(history)]}
      BY <2>3 DEF IInv, StoreInv, WorkInv, SetOrigin
    <3> QED
      BY <3>1, <3>2, <3>3, <1>3 DEF IInv, StoreInv, ZoneTypeOK, WorkType
  <2> QED
    BY <2>1, <2>2, <2>3
<1>5. ZoneTypeOK' /\ ReaderInv'
  BY <1>1, <1>4 DEF IInv, StoreInv, ZoneTypeOK, ReaderInv, zone, IsOpen
<1>6. ZoneInv'
  BY <1>1, <1>2 DEF IInv, StoreInv, ZoneInv, zone
<1>7. WorkInv'
  BY <1>1, <1>4 DEF IInv, StoreInv, WorkInv, zone
<1> QED
  BY <1>5, <1>6, <1>7 DEF StoreInv

\* The end of a transaction that publishes nothing.
LEMMA StoreEndWrite ==
    ASSUME IInv, NEW w \in Writers, EndWrite(w)
    PROVE  StoreInv'
<1>1. /\ wpc[w] = "writing" /\ wpc'[w] = "idle"
      /\ \A x \in Writers : x # w => wpc'[x] = wpc[x] /\ wver'[x] = wver[x]
      /\ wver' \in [Writers -> WorkType]
      /\ UNCHANGED <<zone, snap>>
  BY ZoneAssumption DEF IInv, QueueInv, QueueTypeOK, StoreInv, ZoneTypeOK, EndWrite, Ended, Goto,
     NoWork, WorkType
<1>2. ZoneTypeOK' /\ ReaderInv'
  BY <1>1 DEF IInv, StoreInv, ZoneTypeOK, ReaderInv, zone, IsOpen
<1>3. ZoneInv'
  BY <1>1 DEF IInv, StoreInv, ZoneInv, zone, NoneFailed
<1>4. WorkInv'
  BY <1>1 DEF IInv, StoreInv, WorkInv, zone
<1> QED
  BY <1>2, <1>3, <1>4 DEF StoreInv

\* The queue with the new version, before anything is pruned.
LEMMA AppendedVersion ==
    ASSUME IInv, NEW w \in Writers, wpc[w] = "writing",
           history' = Append(history, wver[w].nodes)
    PROVE  /\ history' \in Seq(Contents) /\ Len(history') = Len(history) + 1
           /\ Len(history') \in Nat
           /\ history'[Len(history')] = wver[w].nodes
           /\ \A k \in 1..Len(history) : history'[k] = history[k]
           /\ Consecutive(Appended(w), Len(history'))
           /\ \A k \in 1..Len(Appended(w)) : Appended(w)[k].nodes = history'[Appended(w)[k].id]
           /\ Last(Appended(w)) = [id |-> wver[w].id, nodes |-> wver[w].nodes,
                                   origin |-> wver[w].origin]
           /\ Appended(w)[1] = versions[1]
           /\ OpenWithin(snap, Len(history'))
<1>1. /\ wver[w].id = Len(history) + 1
      /\ wver[w].id \in Nat /\ wver[w].nodes \in Contents
      /\ wver[w].origin \in Origins \cup {NoOrigin}
  BY DEF IInv, StoreInv, ZoneTypeOK, WorkInv, WorkType
<1>2. /\ history' \in Seq(Contents) /\ Len(history') = Len(history) + 1
      /\ Len(history') \in Nat
      /\ history'[Len(history')] = wver[w].nodes
      /\ \A k \in 1..Len(history) : history'[k] = history[k]
  BY <1>1 DEF IInv, StoreInv, ZoneTypeOK
<1>3. PICK v : v = [id |-> wver[w].id, nodes |-> wver[w].nodes, origin |-> wver[w].origin]
  OBVIOUS
<1>4. v \in VersionType
  BY <1>1, <1>3 DEF VersionType
<1>5. /\ Appended(w) \in Seq(VersionType)
      /\ Len(Appended(w)) = Len(versions) + 1
      /\ Len(versions) \in Nat
      /\ Appended(w)[Len(versions) + 1] = v
      /\ \A k \in 1..Len(versions) : Appended(w)[k] = versions[k]
  BY <1>3, <1>4 DEF IInv, StoreInv, ZoneTypeOK, Appended
<1>6. \A k \in 1..Len(Appended(w)) :
        /\ Appended(w)[k].id \in 1..Len(history')
        /\ Appended(w)[k].id = Len(history') - Len(Appended(w)) + k
        /\ Appended(w)[k].nodes = history'[Appended(w)[k].id]
  <2> SUFFICES ASSUME NEW k \in 1..Len(Appended(w))
               PROVE  /\ Appended(w)[k].id \in 1..Len(history')
                      /\ Appended(w)[k].id = Len(history') - Len(Appended(w)) + k
                      /\ Appended(w)[k].nodes = history'[Appended(w)[k].id]
    OBVIOUS
  <2>1. CASE k = Len(versions) + 1
    <3>1. Appended(w)[k] = v /\ v.id = Len(history') /\ v.nodes = history'[Len(history')]
      BY <2>1, <1>1, <1>2, <1>3, <1>5
    <3> QED
      BY <3>1, <2>1, <1>1, <1>2, <1>3, <1>5
  <2>2. CASE k # Len(versions) + 1
    <3>1. k \in 1..Len(versions) /\ Appended(w)[k] = versions[k]
      BY <2>2, <1>5
    <3>2. /\ versions[k].id \in 1..Len(history)
          /\ versions[k].id = Len(history) - Len(versions) + k
          /\ versions[k].nodes = history[versions[k].id]
      BY <3>1 DEF IInv, StoreInv, ZoneInv, Consecutive
    <3>3. Len(history) \in Nat
      BY DEF IInv, StoreInv, ZoneTypeOK
    <3> QED
      BY <3>1, <3>2, <3>3, <1>2, <1>5
  <2> QED
    BY <2>1, <2>2
<1>7. Consecutive(Appended(w), Len(history'))
  BY <1>5, <1>6 DEF Consecutive
<1>8. Last(Appended(w)) = v /\ Appended(w)[1] = versions[1]
  BY <1>5, LastVersion DEF Last, IInv
<1>9. OpenWithin(snap, Len(history'))
  BY <1>2, LastVersion DEF OpenWithin, IInv, StoreInv, ReaderInv, ZoneTypeOK, VersionType
<1> QED
  BY <1>2, <1>3, <1>6, <1>7, <1>8, <1>9

\* What appending a version and pruning means for the readers.
LEMMA ReadersAfterAppend ==
    ASSUME IInv, NEW w \in Writers, wpc[w] = "writing",
           history' = Append(history, wver[w].nodes), UNCHANGED snap,
           \A r \in Readers : IsOpen(snap, r) => versions'[1].id <= snap[r].id
    PROVE  ReaderInv'
<1> SUFFICES ASSUME NEW r \in Readers, IsOpen(snap, r)
             PROVE  /\ snap[r].id <= Len(history')
                    /\ snap[r].nodes = history'[snap[r].id]
  BY DEF ReaderInv, IsOpen
<1>1. /\ versions[1].id <= snap[r].id /\ snap[r].id <= Len(history)
      /\ snap[r].nodes = history[snap[r].id] /\ snap[r].id \in Nat
      /\ Len(history) \in Nat
  BY DEF IInv, StoreInv, ReaderInv, ZoneTypeOK, VersionType
<1>2. versions[1].id >= 1 /\ versions[1].id \in Nat
  BY LastVersion DEF IInv, StoreInv, ZoneInv, Consecutive
<1> QED
  BY <1>1, <1>2, AppendedVersion

LEMMA StoreCommit ==
    ASSUME IInv, NEW w \in Writers, Commit(w)
    PROVE  StoreInv'
<1>1. /\ wpc[w] = "writing" /\ wpc'[w] = "idle"
      /\ \A x \in Writers : x # w => wpc'[x] = wpc[x]
      /\ wver' \in [Writers -> WorkType]
      /\ nodes' = wver[w].nodes
      /\ origin' = IF origin = NoOrigin THEN wver[w].origin ELSE origin
      /\ history' = Append(history, wver[w].nodes)
      /\ UNCHANGED <<policy, snap>>
  BY ZoneAssumption DEF IInv, QueueInv, QueueTypeOK, StoreInv, ZoneTypeOK, Commit, Ended, Goto,
     NoWork, WorkType
<1>2. PICK least \in Nat : /\ IsLeastKept(Appended(w), snap, least)
                           /\ IsPruned(Appended(w), least, policy, versions')
  BY DEF Commit, Prune
<1>3. snap \in [Readers -> VersionType]
  BY DEF IInv, StoreInv, ZoneTypeOK
<1>4. /\ Consecutive(versions', Len(history'))
      /\ \A k \in 1..Len(versions') : \E j \in 1..Len(Appended(w)) : versions'[k] = Appended(w)[j]
      /\ Last(versions') = Last(Appended(w))
      /\ \A r \in Readers : IsOpen(snap, r) /\ Appended(w)[1].id <= snap[r].id
                           => versions'[1].id <= snap[r].id
  BY <1>1, <1>2, <1>3, AppendedVersion, PruneKeeps
<1>5. ReaderInv'
  <2>1. \A r \in Readers : IsOpen(snap, r) => versions'[1].id <= snap[r].id
    BY <1>1, <1>4, AppendedVersion DEF IInv, StoreInv, ReaderInv
  <2> QED
    BY <1>1, <2>1, ReadersAfterAppend
<1>6. wver[w] \in WorkType /\ (origin # NoOrigin => wver[w].origin = origin)
  BY <1>1 DEF IInv, StoreInv, ZoneTypeOK, WorkInv
<1>7. ZoneTypeOK'
  BY <1>1, <1>4, <1>6, AppendedVersion
     DEF IInv, StoreInv, ZoneTypeOK, Consecutive, WorkType
<1>8. ZoneInv'
  <2>1. \A k \in 1..Len(versions') : versions'[k].nodes = history'[versions'[k].id]
    BY <1>1, <1>4, AppendedVersion, ZenonT(60)
  <2>2. nodes' = Last(versions').nodes /\ origin' = Last(versions').origin
    BY <1>1, <1>4, <1>6, AppendedVersion
  <2> QED
    BY <1>4, <2>1, <2>2 DEF ZoneInv
<1>9. WorkInv'
  BY <1>1, WriterAlone DEF IInv, WorkInv, Holding
<1> QED
  BY <1>5, <1>7, <1>8, <1>9 DEF StoreInv

LEMMA StoreCommitPolicyRaises ==
    ASSUME IInv, NEW w \in Writers, CommitPolicyRaises(w)
    PROVE  StoreInv'
<1>1. /\ wpc[w] = "writing" /\ wpc'[w] = "failed"
      /\ \A x \in Writers : x # w => wpc'[x] = wpc[x]
      /\ versions' = Appended(w)
      /\ history' = Append(history, wver[w].nodes)
      /\ UNCHANGED <<nodes, origin, policy, wver, snap>>
  BY DEF IInv, QueueInv, QueueTypeOK, CommitPolicyRaises, Goto
<1>2. ReaderInv'
  BY <1>1, AppendedVersion, ReadersAfterAppend DEF IInv, StoreInv, ReaderInv
<1>3. ZoneTypeOK' /\ ZoneInv'
  BY <1>1, AppendedVersion DEF IInv, StoreInv, ZoneTypeOK, ZoneInv, Consecutive, NoneFailed
<1>4. WorkInv'
  BY <1>1, WriterAlone DEF IInv, WorkInv, Holding
<1> QED
  BY <1>2, <1>3, <1>4 DEF StoreInv

LEMMA StoreOpen ==
    ASSUME IInv, NEW r \in Readers, NEW k \in 1..Len(versions), Open(r, versions[k])
    PROVE  StoreInv'
<1>1. /\ snap' = [snap EXCEPT ![r] = versions[k]]
      /\ UNCHANGED <<zone, wpc, wver>>
  BY DEF Open, queue
<1>2. /\ versions[k] \in VersionType
      /\ versions[k].id \in 1..Len(history)
      /\ versions[1].id <= versions[k].id
      /\ versions[k].nodes = history[versions[k].id]
  <2>1. versions[k].id = Len(history) - Len(versions) + k
        /\ versions[1].id = Len(history) - Len(versions) + 1
    BY LastVersion DEF IInv, StoreInv, ZoneInv, Consecutive
  <2>2. versions[1].id <= versions[k].id
    BY <2>1, LastVersion DEF IInv
  <2> QED
    BY <2>2 DEF IInv, StoreInv, ZoneTypeOK, ZoneInv, Consecutive
<1>3. snap' \in [Readers -> VersionType]
  BY <1>1, <1>2 DEF IInv, StoreInv, ZoneTypeOK
<1>4. ZoneTypeOK' /\ ZoneInv' /\ WorkInv'
  BY <1>1, <1>3 DEF IInv, StoreInv, ZoneTypeOK, ZoneInv, WorkInv, zone, NoneFailed
<1>5. ReaderInv'
  <2> SUFFICES ASSUME NEW x \in Readers, IsOpen(snap', x)
               PROVE  /\ versions[1].id <= snap'[x].id
                      /\ snap'[x].id <= Len(history)
                      /\ snap'[x].nodes = history[snap'[x].id]
    BY <1>1 DEF ReaderInv, IsOpen, zone
  <2>1. CASE x = r
    BY <1>1, <1>2, <2>1, LastVersion DEF IInv, StoreInv, ZoneTypeOK
  <2>2. CASE x # r
    <3>1. snap'[x] = snap[x] /\ IsOpen(snap, x)
      BY <1>1, <2>2 DEF IsOpen, IInv, StoreInv, ZoneTypeOK
    <3> QED
      BY <3>1 DEF IInv, StoreInv, ReaderInv
  <2> QED
    BY <2>1, <2>2
<1> QED
  BY <1>4, <1>5 DEF StoreInv

\* The steps that only prune, because a reader ended or the policy changed.
LEMMA StorePrune ==
    ASSUME IInv, UNCHANGED <<nodes, origin, history, wpc, wver>>,
           policy' \in Policies, snap' \in [Readers -> VersionType],
           \A r \in Readers : IsOpen(snap', r) => snap'[r] = snap[r],
           NEW pol, Prune(versions, snap', pol)
    PROVE  StoreInv'
<1>1. PICK least \in Nat : /\ IsLeastKept(versions, snap', least)
                           /\ IsPruned(versions, least, pol, versions')
  BY DEF Prune
<1>2. /\ \A r \in Readers : IsOpen(snap', r) =>
            /\ IsOpen(snap, r)
            /\ versions[1].id <= snap'[r].id
            /\ snap'[r].id <= Len(history)
            /\ snap'[r].nodes = history[snap'[r].id]
      /\ OpenWithin(snap', Len(history))
  BY DEF IInv, StoreInv, ReaderInv, IsOpen, OpenWithin
<1>3. Consecutive(versions, Len(history)) /\ Len(history) \in Nat
  BY LastVersion DEF IInv, StoreInv, ZoneInv
<1>4. /\ Consecutive(versions', Len(history))
      /\ \A k \in 1..Len(versions') : \E j \in 1..Len(versions) : versions'[k] = versions[j]
      /\ Last(versions') = Last(versions)
      /\ \A r \in Readers : IsOpen(snap', r) /\ versions[1].id <= snap'[r].id
                           => versions'[1].id <= snap'[r].id
  BY <1>1, <1>2, <1>3, PruneKeeps
<1>5. ZoneTypeOK' /\ WorkInv'
  BY <1>4 DEF IInv, StoreInv, ZoneTypeOK, WorkInv, Consecutive
<1>6. ZoneInv'
  BY <1>4 DEF IInv, StoreInv, ZoneInv, NoneFailed
<1>7. ReaderInv'
  BY <1>2, <1>4 DEF ReaderInv, IsOpen
<1> QED
  BY <1>5, <1>6, <1>7 DEF StoreInv

LEMMA StoreStep == IInv /\ [Next]_vars => StoreInv'
<1> SUFFICES ASSUME IInv, [Next]_vars PROVE StoreInv'
  OBVIOUS
<1> USE DEF IInv
<1>1. ASSUME NEW w \in Writers, WriterNext(w) PROVE StoreInv'
  <2>0. QueueTypeOK
    BY DEF QueueInv
  <2>1. CASE CallWriter(w)
    BY <2>0, <2>1, StoreUntouched DEF CallWriter, PCs
  <2>2. CASE Acquire(w)
    BY <2>0, <2>2, StoreUntouched DEF Acquire, PCs
  <2>3. CASE Enqueue(w)
    BY <2>0, <2>3, StoreUntouched DEF Enqueue, PCs
  <2>4. CASE Wake(w)
    BY <2>0, <2>4, StoreUntouched DEF Wake, PCs
  <2>5. CASE CommitFactoryRaises(w)
    BY <2>0, <2>5, StoreUntouched DEF CommitFactoryRaises, PCs
  <2>6. CASE SetupId(w)
    BY <2>6, StoreSetupId
  <2>7. CASE SetupNodes(w) \/ Modify(w) \/ SetOrigin(w)
    BY <2>7, StoreWork
  <2>8. CASE Commit(w)
    BY <2>8, StoreCommit
  <2>9. CASE CommitPolicyRaises(w)
    BY <2>9, StoreCommitPolicyRaises
  <2>10. CASE EndWrite(w)
    BY <2>10, StoreEndWrite
  <2> QED
    BY <1>1, <2>1, <2>2, <2>3, <2>4, <2>5, <2>6, <2>7, <2>8, <2>9, <2>10 DEF WriterNext
<1>2. ASSUME NEW r \in Readers, ReaderNext(r) PROVE StoreInv'
  <2>1. CASE OpenReader(r)
    BY <2>1, StoreOpen, LastVersion DEF OpenReader
  <2>2. CASE OpenReaderById(r) \/ OpenReaderBySerial(r)
    BY <2>2, StoreOpen DEF OpenReaderById, OpenReaderBySerial
  <2>3. CASE CloseReader(r)
    <3>1. /\ snap' \in [Readers -> VersionType]
          /\ \A x \in Readers : IsOpen(snap', x) => snap'[x] = snap[x]
      BY <2>3, ZoneAssumption
         DEF CloseReader, IsOpen, NoVersion, VersionType, StoreInv, ZoneTypeOK
    <3> QED
      BY <2>3, <3>1, StorePrune DEF CloseReader, StoreInv, ZoneTypeOK
  <2> QED
    BY <1>2, <2>1, <2>2, <2>3 DEF ReaderNext
<1>3. CASE SetPolicy
  BY <1>3, StorePrune DEF SetPolicy, StoreInv, ZoneTypeOK
<1>4. CASE UNCHANGED vars
  BY <1>4 DEF vars, zone, StoreInv, ZoneTypeOK, ZoneInv, WorkInv, ReaderInv, IsOpen, NoneFailed
<1> QED
  BY <1>1, <1>2, <1>3, <1>4 DEF Next

THEOREM Invariant == Spec => []IInv
<1>1. IInv /\ [Next]_vars => IInv'
  BY QueueStep, StoreStep DEF IInv
<1> QED
  BY InitIInv, <1>1, PTL DEF Spec

-----------------------------------------------------------------------------
(* What follows from the invariant.                                        *)

\* The variables keep their types whatever the threads do.
THEOREM TypeCorrect == Spec => []TypeOK
<1>1. IInv => TypeOK
  BY DEF IInv, QueueInv, QueueTypeOK, StoreInv, ZoneTypeOK, TypeOK
<1> QED
  BY <1>1, Invariant, PTL

\* Ids are consecutive and the zone shows its last version.
THEOREM PublishedIsLastHolds == Spec => []PublishedIsLast
<1>1. IInv => PublishedIsLast
  BY DEF IInv, StoreInv, ZoneInv, Consecutive, NoneFailed, PublishedIsLast
<1> QED
  BY <1>1, Invariant, PTL

\* A writer starts from what was committed last.
THEOREM NoLostUpdateHolds == Spec => []NoLostUpdate
<1>1. IInv => NoLostUpdate
  <2> SUFFICES ASSUME IInv PROVE NoLostUpdate
    OBVIOUS
  <2>1. Last(history) = history[Len(history)]
    BY DEF Last
  <2> QED
    BY <2>1 DEF IInv, StoreInv, WorkInv, NoLostUpdate
<1> QED
  BY <1>1, Invariant, PTL

\* The versions from an open reader's on are retained.
THEOREM ReadersPinHolds == Spec => []ReadersPin
<1>1. IInv => ReadersPin
  <2> SUFFICES ASSUME IInv, NEW r \in Readers, IsOpen(snap, r),
                      NEW i \in snap[r].id..Len(history)
               PROVE  \E k \in 1..Len(versions) :
                        versions[k].id = i /\ versions[k].nodes = history[i]
    BY DEF ReadersPin
  <2>1. /\ versions[1].id <= snap[r].id /\ snap[r].id \in Nat
        /\ versions[1].id = Len(history) - Len(versions) + 1
        /\ Len(history) \in Nat /\ Len(versions) \in Nat
    BY LastVersion DEF IInv, StoreInv, ReaderInv, ZoneInv, Consecutive, ZoneTypeOK, VersionType
  <2>2. i - (Len(history) - Len(versions)) \in 1..Len(versions)
    BY <2>1
  <2>3. PICK k \in 1..Len(versions) : k = i - (Len(history) - Len(versions))
    BY <2>2
  <2>4. versions[k].id = i
    BY <2>1, <2>3 DEF IInv, StoreInv, ZoneInv, Consecutive
  <2> QED
    BY <2>4 DEF IInv, StoreInv, ZoneInv
<1> QED
  BY <1>1, Invariant, PTL

-----------------------------------------------------------------------------
(* No version outlives its purpose.                                        *)

Opened(snaps) == {r \in Readers : IsOpen(snaps, r)}

\* RetentionBound, of any queue of versions, readers and policy
Bounded(vs, snaps, pol) ==
    /\ Opened(snaps) = {} /\ pol.kind = "max" => Len(vs) <= pol.max
    /\ Opened(snaps) = {} /\ pol.kind = "default" => Len(vs) = 1
    /\ Opened(snaps) # {} /\ pol.kind = "default" =>
           \E r \in Opened(snaps) : vs[1].id = snaps[r].id

LEMMA BoundIs ==
    ASSUME StoreInv
    PROVE  RetentionBound <=> Bounded(versions, snap, policy)
<1>1. Head(versions) = versions[1]
  BY DEF StoreInv, ZoneTypeOK
<1> QED
  BY <1>1 DEF RetentionBound, Bounded, Opened

\* Pruning goes on as long as the policy lets it, and stops at the version
\* of the oldest reader or at the last one.
LEMMA PruneBounds ==
    ASSUME NEW vs, NEW n \in Nat, Consecutive(vs, n),
           NEW snaps \in [Readers -> VersionType], OpenWithin(snaps, n),
           \A r \in Readers : IsOpen(snaps, r) => vs[1].id <= snaps[r].id,
           NEW least \in Nat, IsLeastKept(vs, snaps, least),
           NEW pol \in Policies, NEW pruned, IsPruned(vs, least, pol, pruned)
    PROVE  Bounded(pruned, snaps, pol)
<1>1. /\ Len(vs) \in Nat /\ Len(vs) >= 1
      /\ \A k \in 1..Len(vs) : vs[k].id \in Nat /\ vs[k].id = n - Len(vs) + k
  BY DEF Consecutive
<1>2. Last(vs).id = n
  BY <1>1 DEF Last
<1>3. least <= n
  BY <1>2 DEF IsLeastKept, OpenWithin
<1>4. PICK k \in 1..(Len(vs) + 1) : /\ k <= Len(vs) => ~Drops(vs, least, pol, k)
                                    /\ \A j \in 1..(k - 1) : Drops(vs, least, pol, j)
                                    /\ pruned = SubSeq(vs, k, Len(vs))
  BY DEF IsPruned
<1>5. \A j \in 1..(k - 1) : vs[j].id < least
  BY <1>4 DEF Drops
<1>6. k <= Len(vs)
  BY <1>1, <1>3, <1>5
<1>7. Len(pruned) = Len(vs) - k + 1 /\ pruned[1] = vs[k]
  BY <1>1, <1>4, <1>6, SubSeqProperties DEF Consecutive
<1>8. ~(vs[k].id < least) \/ ~PolicySays(pol, Len(vs) - k + 1)
  BY <1>4, <1>6 DEF Drops
<1>9. pol.max \in Nat \ {0}
  BY ZoneAssumption
<1>10. ASSUME Opened(snaps) = {}, ~(vs[k].id < least)
       PROVE  Len(pruned) = 1
  <2>1. least = n
    BY <1>2, <1>10 DEF IsLeastKept, Opened
  <2> QED
    BY <1>1, <1>6, <1>7, <1>10, <2>1
<1>11. ASSUME Opened(snaps) # {}, ~(vs[k].id < least)
       PROVE  \E r \in Opened(snaps) : pruned[1].id = snaps[r].id
  <2>1. PICK r \in Readers : IsOpen(snaps, r) /\ snaps[r].id = least
    BY <1>11 DEF IsLeastKept, Opened
  <2>2. vs[k].id <= least
    <3>1. CASE k = 1
      BY <2>1, <3>1
    <3>2. CASE k # 1
      <4>1. k - 1 \in 1..(k - 1) /\ k - 1 \in 1..Len(vs) /\ k \in 1..Len(vs)
        BY <1>1, <1>6, <3>2
      <4>2. vs[k - 1].id < least
        BY <1>5, <4>1
      <4>3. vs[k].id = n - Len(vs) + k /\ vs[k - 1].id = n - Len(vs) + (k - 1)
        BY <1>1, <4>1
      <4> QED
        BY <1>1, <4>1, <4>2, <4>3
    <3> QED
      BY <3>1, <3>2
  <2>3. vs[k].id = least
    BY <1>1, <1>6, <1>11, <2>2
  <2> QED
    BY <1>7, <2>1, <2>3 DEF Opened
<1>12. CASE pol.kind = "default"
  BY <1>8, <1>10, <1>11, <1>12 DEF Bounded, PolicySays
<1>13. CASE pol.kind = "max"
  BY <1>1, <1>6, <1>7, <1>8, <1>9, <1>10, <1>13 DEF Bounded, PolicySays
<1> QED
  BY <1>12, <1>13 DEF Bounded

\* A reader that opens a version finds the oldest one open already, or there
\* is no version but its own.
LEMMA OpenBounds ==
    ASSUME IInv, Bounded(versions, snap, policy),
           NEW r \in Readers, NEW k \in 1..Len(versions), Open(r, versions[k])
    PROVE  Bounded(versions', snap', policy')
<1>1. /\ ~IsOpen(snap, r) /\ UNCHANGED <<versions, policy>>
      /\ snap' \in [Readers -> VersionType] /\ snap'[r] = versions[k]
      /\ \A x \in Readers : x # r => snap'[x] = snap[x]
  BY DEF Open, zone, IInv, StoreInv, ZoneTypeOK
<1>2. versions[k].id # 0
  BY DEF IInv, StoreInv, ZoneInv, Consecutive
<1>3. r \in Opened(snap') /\ \A x \in Opened(snap) : x \in Opened(snap') /\ snap'[x] = snap[x]
  BY <1>1, <1>2 DEF Opened, IsOpen
<1>4. CASE Opened(snap) = {}
  <2>1. policy.kind = "default" => k = 1
    <3>1. Bounded(versions, snap, policy)
      OBVIOUS
    <3>2. policy.kind = "default" => Len(versions) = 1
      BY <1>4, <3>1 DEF Bounded
    <3>3. CASE policy.kind = "default"
      <4>1. k \in 1..1
        BY <3>2, <3>3
      <4> QED
        BY <4>1
    <3> QED
      BY <3>3
  <2> QED
    BY <1>1, <1>3, <2>1 DEF Bounded
<1>5. CASE Opened(snap) # {}
  BY <1>1, <1>3, <1>5 DEF Bounded
<1> QED
  BY <1>4, <1>5

LEMMA BoundKept == IInv /\ IInv' /\ RetentionBound /\ [Next]_vars => RetentionBound'
<1> SUFFICES ASSUME IInv, IInv', RetentionBound, [Next]_vars PROVE RetentionBound'
  OBVIOUS
<1>1. Bounded(versions, snap, policy)
  BY BoundIs DEF IInv
<1>2. SUFFICES Bounded(versions', snap', policy')
  <2>1. (RetentionBound <=> Bounded(versions, snap, policy))'
    BY BoundIs, PTL DEF IInv
  <2> QED
    BY <2>1
<1>3. CASE UNCHANGED <<versions, snap, policy>>
  BY <1>1, <1>3
<1>4. ASSUME NEW w \in Writers, Commit(w)
      PROVE  Bounded(versions', snap', policy')
  <2>1. /\ wpc[w] = "writing" /\ history' = Append(history, wver[w].nodes)
        /\ UNCHANGED <<policy, snap>>
    BY <1>4 DEF Commit
  <2>2. PICK least \in Nat : /\ IsLeastKept(Appended(w), snap, least)
                             /\ IsPruned(Appended(w), least, policy, versions')
    BY <1>4 DEF Commit, Prune
  <2>3. /\ Consecutive(Appended(w), Len(history')) /\ Len(history') \in Nat
        /\ Appended(w)[1] = versions[1] /\ OpenWithin(snap, Len(history'))
    BY <2>1, AppendedVersion
  <2>4. /\ snap \in [Readers -> VersionType] /\ policy \in Policies
        /\ \A r \in Readers : IsOpen(snap, r) => Appended(w)[1].id <= snap[r].id
    BY <2>3 DEF IInv, StoreInv, ZoneTypeOK, ReaderInv
  <2>5. Bounded(versions', snap, policy)
    BY <2>2, <2>3, <2>4, PruneBounds
  <2> QED
    BY <2>1, <2>5
<1>5. ASSUME NEW w \in Writers, CommitPolicyRaises(w)
      PROVE  Bounded(versions', snap', policy')
  BY <1>5 DEF CommitPolicyRaises, PruneRaises, Bounded
<1>6. ASSUME NEW r \in Readers, OpenReader(r) \/ OpenReaderById(r) \/ OpenReaderBySerial(r)
      PROVE  Bounded(versions', snap', policy')
  <2>1. PICK k \in 1..Len(versions) : Open(r, versions[k])
    BY <1>6, LastVersion DEF IInv, OpenReader, OpenReaderById, OpenReaderBySerial
  <2> QED
    BY <1>1, <2>1, OpenBounds
<1>7. ASSUME Prune(versions, snap', policy'), UNCHANGED history,
             \A r \in Readers : IsOpen(snap', r) => snap'[r] = snap[r]
      PROVE  Bounded(versions', snap', policy')
  <2>1. PICK least \in Nat : /\ IsLeastKept(versions, snap', least)
                             /\ IsPruned(versions, least, policy', versions')
    BY <1>7 DEF Prune
  <2>2. snap' \in [Readers -> VersionType] /\ policy' \in Policies
    BY DEF IInv, StoreInv, ZoneTypeOK
  <2>3. \A r \in Readers : IsOpen(snap', r) => /\ versions[1].id <= snap'[r].id
                                               /\ snap'[r].id <= Len(history)
    BY <1>7 DEF IInv, StoreInv, ReaderInv, IsOpen
  <2>4. Consecutive(versions, Len(history)) /\ Len(history) \in Nat
    BY LastVersion DEF IInv, StoreInv, ZoneInv
  <2> QED
    BY <2>1, <2>2, <2>3, <2>4, PruneBounds DEF OpenWithin
<1>8. ASSUME NEW r \in Readers, CloseReader(r)
      PROVE  Bounded(versions', snap', policy')
  <2>1. \A x \in Readers : IsOpen(snap', x) => snap'[x] = snap[x]
    BY <1>8 DEF CloseReader, IsOpen, NoVersion, IInv, StoreInv, ZoneTypeOK
  <2> QED
    BY <1>7, <1>8, <2>1 DEF CloseReader
<1>9. CASE SetPolicy
  BY <1>7, <1>9 DEF SetPolicy
<1>10. ASSUME NEW w \in Writers, WriterNext(w), ~Commit(w), ~CommitPolicyRaises(w)
       PROVE  UNCHANGED <<versions, snap, policy>>
  BY <1>10 DEF WriterNext, CallWriter, Acquire, Enqueue, Wake, SetupId, SetupNodes, Modify,
     SetOrigin, CommitFactoryRaises, EndWrite, zone
<1>11. CASE UNCHANGED vars
  BY <1>3, <1>11 DEF vars, zone
<1> QED
  BY <1>3, <1>4, <1>5, <1>6, <1>8, <1>9, <1>10, <1>11 DEF Next, ReaderNext

\* Without readers the default policy keeps one version and
\* set_max_versions(n) at most n; with readers the default policy keeps none
\* that is older than what they read.
THEOREM RetentionBoundHolds == Spec => []RetentionBound
<1>1. Init => RetentionBound
  BY ZoneAssumption DEF Init, RetentionBound, IsOpen, NoVersion
<1> QED
  BY <1>1, BoundKept, Invariant, PTL DEF Spec

-----------------------------------------------------------------------------

\* The order of service: whoever becomes the writer was first in line.
THEOREM NoCutsHolds == Spec => NoCuts
<1> DEFINE InOrder == write_txn = NoOne /\ write_txn' # NoOne /\ Line # <<>>
                        => write_txn' = Head(Line)
<1>1. QueueInv /\ [Next]_vars => [InOrder]_vars
  <2> SUFFICES ASSUME QueueInv, [Next]_vars, write_txn = NoOne, write_txn' # NoOne, Line # <<>>
               PROVE  write_txn' = Head(Line)
    OBVIOUS
  <2>1. PICK w \in Writers : Acquire(w)
    BY DEF Next, WriterNext, ReaderNext, CallWriter, Acquire, Enqueue, Wake, SetupId, SetupNodes,
       Modify, SetOrigin, Commit, CommitPolicyRaises, CommitFactoryRaises, EndWrite,
       EndWriteUnlocked, OpenReader, OpenReaderById, OpenReaderBySerial, Open, CloseReader,
       SetPolicy, vars, queue
  <2>2. write_txn' = w /\ event[w] = write_event
    BY <2>1 DEF Acquire, MayAcquire
  <2>3. CASE write_event = NoOne
    <3>1. write_waiters = <<>>
      BY <2>3 DEF QueueInv, QueueIsServed
    <3> QED
      BY <2>3, <3>1 DEF Line
  <2>4. CASE write_event # NoOne
    <3>1. write_event = w
      BY <2>2, <2>4 DEF QueueInv, OwnEvent
    <3>2. Line = <<w>> \o write_waiters /\ write_waiters \in Seq(Writers)
      BY <3>1, <2>4 DEF Line, QueueInv, QueueTypeOK
    <3>3. Head(Line) = w
      BY <3>2
    <3> QED
      BY <2>2, <3>3
  <2> QED
    BY <2>3, <2>4
<1> QED
  BY <1>1, QueueInvariant, PTL DEF Spec, NoCuts

-----------------------------------------------------------------------------
(* The refinement of the abstract store.                                   *)

StoreWriter == IF IsWriting THEN write_txn ELSE NoOne
StoreDraft == IF IsWriting THEN wver[write_txn].nodes ELSE Empty
StoreView == [r \in Readers |-> [id |-> snap[r].id, nodes |-> snap[r].nodes]]

\* Who writes, in terms of the thread that holds the transaction.
LEMMA WriterOf ==
    ASSUME QueueInv, NEW w \in Writers, wpc[w] \in Holding
    PROVE  /\ write_txn = w
           /\ IsWriting <=> wpc[w] = "writing"
  BY ZoneAssumption DEF QueueInv, MutualExclusion, IsWriting

\* Steps before and after a transaction's writing are no steps of the store.
LEMMA StoreStutters ==
    ASSUME IInv, IInv', NEW w \in Writers,
           wpc[w] # "writing", wpc'[w] # "writing",
           \A x \in Writers : x # w => wpc'[x] = wpc[x] /\ wver'[x] = wver[x],
           UNCHANGED <<history, snap>>
    PROVE  UNCHANGED Store!vars
<1>1. \A x \in Writers : x # w => ((IsWriting /\ write_txn = x) <=> (IsWriting /\ write_txn = x)')
  <2> SUFFICES ASSUME NEW x \in Writers, x # w
               PROVE  (IsWriting /\ write_txn = x) <=> (IsWriting /\ write_txn = x)'
    OBVIOUS
  <2>1. (IsWriting /\ write_txn = x) <=> wpc[x] = "writing"
    BY ZoneAssumption DEF IInv, QueueInv, MutualExclusion, IsWriting, Holding
  <2>2. (IsWriting /\ write_txn = x)' <=> wpc'[x] = "writing"
    BY ZoneAssumption DEF IInv, QueueInv, MutualExclusion, IsWriting, Holding
  <2> QED
    BY <2>1, <2>2
<1>2. ~(IsWriting /\ write_txn = w) /\ ~(IsWriting /\ write_txn = w)'
  BY DEF IsWriting
<1>3. write_txn \in Writers \cup {NoOne} /\ write_txn' \in Writers \cup {NoOne}
  BY DEF IInv, QueueInv, QueueTypeOK
<1>4. (IsWriting => write_txn # NoOne) /\ (IsWriting => write_txn # NoOne)'
  BY DEF IsWriting
<1>5. /\ IsWriting <=> IsWriting'
      /\ IsWriting => write_txn' = write_txn /\ write_txn \in Writers /\ write_txn # w
  BY <1>1, <1>2, <1>3, <1>4
<1>6. UNCHANGED <<StoreWriter, StoreDraft, StoreView>>
  BY <1>5 DEF StoreWriter, StoreDraft, StoreView
<1> QED
  BY <1>6 DEF Store!vars, StoreWriter, StoreDraft, StoreView

\* The steps of a writer's transaction are steps of the store.
LEMMA StoreSetupNodes ==
    ASSUME IInv, IInv', NEW w \in Writers, SetupNodes(w)
    PROVE  Store!Begin(w)
<1>1. /\ wpc[w] = "setup_nodes" /\ wpc'[w] = "writing"
      /\ wver'[w].nodes \in {Empty, nodes}
      /\ UNCHANGED <<history, snap, write_txn>>
  BY DEF IInv, QueueInv, QueueTypeOK, StoreInv, ZoneTypeOK, WorkType, SetupNodes, Goto, zone, queue
<1>2. nodes = history[Len(history)]
  BY <1>1, WriterAlone, LastVersion DEF IInv, StoreInv, ZoneInv, Holding
<1>3. ~IsWriting /\ IsWriting' /\ write_txn' = w
  BY <1>1, WriterOf, ZoneAssumption DEF IInv, Holding, IsWriting
<1> QED
  BY <1>1, <1>2, <1>3 DEF Store!Begin

LEMMA StoreModify ==
    ASSUME IInv, IInv', NEW w \in Writers, Modify(w)
    PROVE  Store!Change(w)
<1>1. /\ wpc[w] = "writing" /\ UNCHANGED <<wpc, history, snap, write_txn>>
      /\ wver'[w].nodes \in Contents
  BY DEF IInv, StoreInv, ZoneTypeOK, WorkType, Modify, zone, queue
<1>2. write_txn = w /\ IsWriting /\ IsWriting'
  BY <1>1, WriterOf DEF IInv, Holding, IsWriting
<1> QED
  BY <1>1, <1>2 DEF Store!Change

\* A transaction that ends, however it does, leaves the store without writer.
LEMMA StoreFinish ==
    ASSUME IInv, IInv', NEW w \in Writers, wpc[w] = "writing", wpc'[w] \in {"idle", "failed"},
           \A x \in Writers : x # w => wpc'[x] = wpc[x], UNCHANGED snap
    PROVE  /\ Store!Finish(w)
           /\ UNCHANGED history => Store!Rollback(w)
           /\ history' = Append(history, wver[w].nodes) => Store!Commit(w)
<1>1. write_txn = w /\ IsWriting
  BY WriterOf DEF IInv, Holding
<1>2. ~IsWriting'
  <2>1. \A x \in Writers : wpc'[x] # "writing"
    BY WriterAlone DEF IInv, Holding
  <2>2. write_txn' \in Writers \cup {NoOne}
    BY DEF IInv, QueueInv, QueueTypeOK
  <2> QED
    BY <2>1, <2>2 DEF IsWriting
<1>3. Store!Finish(w)
  BY <1>1, <1>2 DEF Store!Finish
<1> QED
  BY <1>1, <1>3 DEF Store!Rollback, Store!Commit

LEMMA StoreOpens ==
    ASSUME IInv, NEW r \in Readers, NEW k \in 1..Len(versions), Open(r, versions[k])
    PROVE  Store!Open(r)
<1>1. /\ snap' = [snap EXCEPT ![r] = versions[k]]
      /\ snap[r].id = 0
      /\ UNCHANGED <<history, write_txn, wpc, wver>>
  BY DEF Open, zone, queue, IsOpen
<1>2. PICK i \in 1..Len(history) : versions[k].id = i /\ versions[k].nodes = history[i]
  BY DEF IInv, StoreInv, ZoneInv, Consecutive
<1>3. StoreView[r].id = 0
  BY <1>1 DEF StoreView
<1>4. StoreView' = [StoreView EXCEPT ![r] = [id |-> i, nodes |-> history[i]]]
  BY <1>1, <1>2 DEF StoreView, IInv, StoreInv, ZoneTypeOK
<1>5. UNCHANGED <<StoreWriter, StoreDraft>>
  BY <1>1 DEF StoreWriter, StoreDraft, IsWriting
<1> QED
  BY <1>1, <1>3, <1>4, <1>5 DEF Store!Open, StoreView, StoreWriter, StoreDraft

LEMMA StoreCloses ==
    ASSUME IInv, NEW r \in Readers, CloseReader(r)
    PROVE  Store!Close(r)
<1>1. /\ snap' = [snap EXCEPT ![r] = NoVersion]
      /\ snap[r].id # 0
      /\ UNCHANGED <<history, write_txn, wpc, wver>>
  BY DEF CloseReader, queue, IsOpen
<1>2. StoreView[r].id # 0
  BY <1>1 DEF StoreView
<1>3. StoreView' = [StoreView EXCEPT ![r] = [id |-> 0, nodes |-> Empty]]
  BY <1>1 DEF StoreView, NoVersion, IInv, StoreInv, ZoneTypeOK
<1>4. UNCHANGED <<StoreWriter, StoreDraft>>
  BY <1>1 DEF StoreWriter, StoreDraft, IsWriting
<1> QED
  BY <1>1, <1>2, <1>3, <1>4 DEF Store!Close, Store!NoView, StoreView, StoreWriter, StoreDraft

LEMMA StoreNext == IInv /\ IInv' /\ [Next]_vars => [Store!Next]_Store!vars
<1> SUFFICES ASSUME IInv, IInv', [Next]_vars PROVE Store!Next \/ UNCHANGED Store!vars
  OBVIOUS
<1>0. /\ wpc \in [Writers -> PCs] /\ wver \in [Writers -> WorkType]
      /\ write_txn \in Writers \cup {NoOne}
  BY DEF IInv, QueueInv, QueueTypeOK, StoreInv, ZoneTypeOK
<1>1. ASSUME NEW w \in Writers, WriterNext(w) PROVE Store!Next \/ UNCHANGED Store!vars
  <2>1. CASE CallWriter(w) \/ Acquire(w) \/ Enqueue(w) \/ Wake(w) \/ SetupId(w)
    <3>1. /\ wpc[w] # "writing" /\ wpc'[w] # "writing" /\ UNCHANGED <<history, snap>>
          /\ \A x \in Writers : x # w => wpc'[x] = wpc[x] /\ wver'[x] = wver[x]
      BY <1>0, <2>1 DEF CallWriter, Acquire, Enqueue, Wake, SetupId, Goto, zone
    <3> QED
      BY <3>1, StoreStutters
  <2>2. CASE SetupNodes(w)
    BY <2>2, StoreSetupNodes DEF Store!Next
  <2>3. CASE Modify(w)
    BY <2>3, StoreModify DEF Store!Next
  <2>4. CASE SetOrigin(w)
    <3>1. /\ wver'[w].nodes = wver[w].nodes
          /\ \A x \in Writers : x # w => wver'[x] = wver[x]
          /\ UNCHANGED <<wpc, history, snap, write_txn>>
      BY <1>0, <2>4 DEF SetOrigin, zone, queue, WorkType
    <3>2. UNCHANGED <<StoreWriter, StoreDraft, StoreView>>
      BY <1>0, <3>1 DEF StoreWriter, StoreDraft, StoreView, IsWriting
    <3> QED
      BY <3>1, <3>2 DEF Store!vars, StoreWriter, StoreDraft, StoreView
  <2>5. CASE Commit(w)
    <3>1. /\ wpc[w] = "writing" /\ wpc'[w] = "idle" /\ UNCHANGED snap
          /\ \A x \in Writers : x # w => wpc'[x] = wpc[x]
          /\ history' = Append(history, wver[w].nodes)
      BY <1>0, <2>5 DEF Commit, Ended, Goto
    <3> QED
      BY <3>1, StoreFinish DEF Store!Next
  <2>6. CASE CommitPolicyRaises(w)
    <3>1. /\ wpc[w] = "writing" /\ wpc'[w] = "failed" /\ UNCHANGED snap
          /\ \A x \in Writers : x # w => wpc'[x] = wpc[x]
          /\ history' = Append(history, wver[w].nodes)
      BY <1>0, <2>6 DEF CommitPolicyRaises, Goto
    <3> QED
      BY <3>1, StoreFinish DEF Store!Next
  <2>7. CASE CommitFactoryRaises(w) \/ EndWrite(w)
    <3>1. /\ wpc[w] = "writing" /\ wpc'[w] \in {"idle", "failed"} /\ UNCHANGED <<history, snap>>
          /\ \A x \in Writers : x # w => wpc'[x] = wpc[x]
      BY <1>0, <2>7 DEF CommitFactoryRaises, EndWrite, Ended, Goto, zone
    <3> QED
      BY <3>1, StoreFinish DEF Store!Next
  <2> QED
    BY <1>1, <2>1, <2>2, <2>3, <2>4, <2>5, <2>6, <2>7 DEF WriterNext
<1>2. ASSUME NEW r \in Readers, ReaderNext(r) PROVE Store!Next \/ UNCHANGED Store!vars
  <2>1. CASE OpenReader(r)
    BY <2>1, StoreOpens, LastVersion DEF OpenReader, Store!Next, IInv
  <2>2. CASE OpenReaderById(r) \/ OpenReaderBySerial(r)
    BY <2>2, StoreOpens DEF OpenReaderById, OpenReaderBySerial, Store!Next
  <2>3. CASE CloseReader(r)
    BY <2>3, StoreCloses DEF Store!Next
  <2> QED
    BY <1>2, <2>1, <2>2, <2>3 DEF ReaderNext
<1>3. CASE SetPolicy \/ UNCHANGED vars
  <2>1. UNCHANGED <<history, write_txn, wpc, wver, snap>>
    BY <1>3 DEF SetPolicy, vars, zone, queue
  <2>2. UNCHANGED <<StoreWriter, StoreDraft, StoreView>>
    BY <2>1 DEF StoreWriter, StoreDraft, StoreView, IsWriting
  <2> QED
    BY <2>1, <2>2 DEF Store!vars, StoreWriter, StoreDraft, StoreView
<1> QED
  BY <1>1, <1>2, <1>3 DEF Next

\* The versioned zone implements the snapshot store: serial commits, none of
\* them lost, and snapshots for readers.
THEOREM Refinement == Spec => ImplementsStore
<1>1. Init => Store!Init
  BY ZoneAssumption DEF Init, Store!Init, Store!NoView, NoVersion, IsWriting
<1> QED
  BY <1>1, StoreNext, Invariant, PTL DEF Spec, ImplementsStore, Store!Spec

=============================================================================
