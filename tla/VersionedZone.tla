--------------------------- MODULE VersionedZone ---------------------------
(***************************************************************************)
(* dns.versioned.Zone: a zone that keeps a queue of immutable versions,    *)
(* lets any number of threads read any retained version and lets one      *)
(* thread write at a time.  Every "with self._version_lock" block of the   *)
(* code is one atomic action; what the code does outside the lock (the     *)
(* wait on an event, the deferred version setup, the changes made inside a *)
(* transaction) are actions of their own, so all interleavings of the      *)
(* threads at the lock boundaries are behaviours of the model.             *)
(*                                                                         *)
(* A threading.Event is named by the thread that waits on it: a thread     *)
(* waits on one event at a time.  Naming a later event of a thread like    *)
(* an earlier one would only matter if the earlier one were still the      *)
(* zone's _write_event, which WokenSucceeds excludes.                      *)
(*                                                                         *)
(* The contents of a version (its nodes dictionary) are one value here;    *)
(* ZoneTransaction models the dictionary and its node objects.             *)
(***************************************************************************)
EXTENDS Naturals, Sequences, SequencesExt

CONSTANTS Writers,      \* threads that call writer()
          Readers,      \* threads that call reader()
          NoOne,        \* Python's None, for threads and events
          Contents,     \* what a version's nodes may be
          Empty,        \* an empty nodes dictionary
          SerialOf,     \* [Contents -> Nat]: the SOA serial, NoSerial if none
          NoSerial,
          Origins,      \* the origins a zone file may set
          NoOrigin,
          Policies,     \* the pruning policies in use
          FactoryMayRaise,  \* has the zone an immutable_version_factory that may raise?
          MaxId         \* bound: no version with a larger id is committed

\* The policies a zone can be given: the default one, the two that
\* set_max_versions() makes, and a user's policy that raises an exception.
PolicyKinds == {"default", "all", "max", "raising"}

ASSUME ZoneAssumption ==
    /\ NoOne \notin Writers
    /\ Empty \in Contents
    /\ NoOrigin \notin Origins
    /\ \A c \in Contents : SerialOf[c] \in Nat
    /\ NoSerial \in Nat
    /\ MaxId \in Nat
    /\ FactoryMayRaise \in BOOLEAN
    /\ \A p \in Policies : /\ p.kind \in PolicyKinds
                           /\ p.max \in Nat \ {0}

VARIABLES
    versions,       \* zone._versions, a queue of committed versions
    nodes,          \* zone.nodes, the published contents
    origin,         \* zone.origin
    policy,         \* zone._pruning_policy
    write_txn,      \* zone._write_txn, the thread whose transaction it is
    write_event,    \* zone._write_event, the thread whose event it is
    write_waiters,  \* zone._write_waiters, a queue of events
    signalled,      \* the events that are set
    wpc,            \* where each writer thread is
    event,          \* each writer thread's local variable "event" in writer()
    wver,           \* each writer's WritableVersion
    snap,           \* the version of each reader's open transaction
    history         \* the contents of every version ever committed, by id

zone == <<versions, nodes, origin, policy, history>>
queue == <<write_txn, write_event, write_waiters, signalled, event>>
vars == <<zone, queue, wpc, wver, snap>>

NoVersion == [id |-> 0, nodes |-> Empty, origin |-> NoOrigin]
NoWork == [id |-> 0, nodes |-> Empty, origin |-> NoOrigin, changed |-> FALSE]

VersionType == [id : Nat, nodes : Contents, origin : Origins \cup {NoOrigin}]
WorkType == [id : Nat, nodes : Contents, origin : Origins \cup {NoOrigin},
             changed : BOOLEAN]

-----------------------------------------------------------------------------
(* Pruning                                                                 *)

IsOpen(snaps, r) == snaps[r].id # 0

\* A bug: the open readers are not considered.
IsLeastKeptNoReaders(vs, snaps, least) == least = Last(vs).id

\* The least id that must be kept: of the versions readers have open, or the
\* last one's.
IsLeastKept(vs, snaps, least) ==
    \/ /\ \E r \in Readers : IsOpen(snaps, r) /\ snaps[r].id = least
       /\ \A r \in Readers : IsOpen(snaps, r) => least <= snaps[r].id
    \/ /\ \A r \in Readers : ~IsOpen(snaps, r)
       /\ least = Last(vs).id

\* The policy's answer when it is asked about a version while n are retained.
PolicySays(pol, n) == CASE pol.kind = "default" -> TRUE
                        [] pol.kind = "max"     -> n > pol.max
                        [] OTHER                -> FALSE

\* Does pruning drop the version at position k, those before it being gone?
Drops(vs, least, pol, k) ==
    vs[k].id < least /\ PolicySays(pol, Len(vs) - k + 1)

\* The loop drops versions from the front and stops at the first it keeps.
IsPruned(vs, least, pol, pruned) ==
    \E k \in 1..(Len(vs) + 1) :
        /\ k <= Len(vs) => ~Drops(vs, least, pol, k)
        /\ \A j \in 1..(k - 1) : Drops(vs, least, pol, j)
        /\ pruned = SubSeq(vs, k, Len(vs))

\* Is a policy that raises asked anything?
PruneRaises(vs, least, pol) == pol.kind = "raising" /\ Head(vs).id < least

\* _prune_versions_unlocked(), when it returns or raises.
Prune(vs, snaps, pol) ==
    \E least \in 0..Last(vs).id :
        IsLeastKept(vs, snaps, least) /\ IsPruned(vs, least, pol, versions')

-----------------------------------------------------------------------------
Init ==
    /\ \E o \in Origins \cup {NoOrigin} :
        /\ versions = <<[id |-> 1, nodes |-> Empty, origin |-> o]>>
        /\ origin = o
    /\ nodes = Empty
    /\ history = <<Empty>>
    /\ policy \in Policies
    /\ write_txn = NoOne
    /\ write_event = NoOne
    /\ write_waiters = <<>>
    /\ signalled = {}
    /\ event = [w \in Writers |-> NoOne]
    /\ wpc = [w \in Writers |-> "idle"]
    /\ wver = [w \in Writers |-> NoWork]
    /\ snap = [r \in Readers |-> NoVersion]

-----------------------------------------------------------------------------
(* writer()                                                                *)

Goto(w, label) == wpc' = [wpc EXCEPT ![w] = label]

CallWriter(w) ==
    /\ wpc[w] = "idle"
    /\ Goto(w, "enter")
    /\ event' = [event EXCEPT ![w] = NoOne]
    /\ UNCHANGED <<zone, write_txn, write_event, write_waiters, signalled, wver, snap>>

\* A bug: the event alone decides.
MayAcquireEventOnly(w) == event[w] = write_event

\* No one writes, and no one was waiting or this is the waiter that was woken.
MayAcquire(w) == write_txn = NoOne /\ event[w] = write_event

\* Under the lock: no writer, and this thread is the one that may create a
\* transaction.
Acquire(w) ==
    /\ wpc[w] = "enter"
    /\ MayAcquire(w)
    /\ write_txn' = w
    /\ write_event' = NoOne
    /\ signalled' = signalled \ {w}
    /\ event' = [event EXCEPT ![w] = NoOne]
    /\ Goto(w, "setup_id")
    /\ UNCHANGED <<zone, write_waiters, wver, snap>>

\* Under the lock: join the queue with a new event.
Enqueue(w) ==
    /\ wpc[w] = "enter"
    /\ ~MayAcquire(w)
    /\ event' = [event EXCEPT ![w] = w]
    /\ write_waiters' = Append(write_waiters, w)
    /\ signalled' = signalled \ {w}
    /\ Goto(w, "waiting")
    /\ UNCHANGED <<zone, write_txn, write_event, wver, snap>>

\* event.wait() returns, outside the lock; the loop tests again.
Wake(w) ==
    /\ wpc[w] = "waiting"
    /\ w \in signalled
    /\ Goto(w, "enter")
    /\ UNCHANGED <<zone, queue, wver, snap>>

\* The deferred setup, outside the lock, first half: WritableVersion asks the
\* zone for the next id.
SetupId(w) ==
    /\ wpc[w] = "setup_id"
    /\ wver' = [wver EXCEPT ![w] = [NoWork EXCEPT !.id = Last(versions).id + 1]]
    /\ Goto(w, "setup_nodes")
    /\ UNCHANGED <<zone, queue, snap>>

\* A bug: the copy is made of the oldest retained version.
SetupNodesFromOldest(w) ==
    /\ wpc[w] = "setup_nodes"
    /\ \E replacement \in BOOLEAN :
        wver' = [wver EXCEPT ![w].nodes = IF replacement THEN Empty
                                          ELSE Head(versions).nodes,
                             ![w].origin = origin]
    /\ Goto(w, "writing")
    /\ UNCHANGED <<zone, queue, snap>>

\* Second half: unless the writer replaces the zone it copies zone.nodes; it
\* copies the zone's origin.
SetupNodes(w) ==
    /\ wpc[w] = "setup_nodes"
    /\ \E replacement \in BOOLEAN :
        wver' = [wver EXCEPT ![w].nodes = IF replacement THEN Empty ELSE nodes,
                             ![w].origin = origin]
    /\ Goto(w, "writing")
    /\ UNCHANGED <<zone, queue, snap>>

-----------------------------------------------------------------------------
(* The transaction of a writer                                             *)

\* The transaction's work: after it the version's "changed" set is not empty.
Modify(w) ==
    /\ wpc[w] = "writing"
    /\ wver[w].id <= MaxId
    /\ \E c \in Contents :
        wver' = [wver EXCEPT ![w].nodes = c, ![w].changed = TRUE]
    /\ UNCHANGED <<zone, queue, wpc, snap>>

\* A zone file's $ORIGIN.
SetOrigin(w) ==
    /\ wpc[w] = "writing"
    /\ wver[w].origin = NoOrigin
    /\ \E o \in Origins : wver' = [wver EXCEPT ![w].origin = o]
    /\ UNCHANGED <<zone, queue, wpc, snap>>

\* A bug: the end of a transaction wakes nobody.
EndWriteUnlockedSilently ==
    /\ write_txn' = NoOne
    /\ UNCHANGED <<write_event, write_waiters, signalled, event>>

\* A bug: pop() for popleft(), the last to come is woken first.
EndWriteUnlockedLastFirst ==
    /\ write_txn' = NoOne
    /\ IF write_waiters = <<>>
       THEN UNCHANGED <<write_event, write_waiters, signalled>>
       ELSE /\ write_event' = Last(write_waiters)
            /\ write_waiters' = Front(write_waiters)
            /\ signalled' = signalled \cup {Last(write_waiters)}
    /\ UNCHANGED event

\* _end_write_unlocked() and _maybe_wakeup_one_waiter_unlocked().
EndWriteUnlocked ==
    /\ write_txn' = NoOne
    /\ IF write_waiters = <<>>
       THEN UNCHANGED <<write_event, write_waiters, signalled>>
       ELSE /\ write_event' = Head(write_waiters)
            /\ write_waiters' = Tail(write_waiters)
            /\ signalled' = signalled \cup {Head(write_waiters)}
    /\ UNCHANGED event

Ended(w) == /\ Goto(w, "idle")
            /\ wver' = [wver EXCEPT ![w] = NoWork]

Appended(w) == Append(versions, [id |-> wver[w].id, nodes |-> wver[w].nodes,
                                 origin |-> wver[w].origin])

\* commit() of a transaction that changed something.
Commit(w) ==
    /\ wpc[w] = "writing"
    /\ wver[w].changed
    /\ \A least \in 0..wver[w].id :
        IsLeastKept(Appended(w), snap, least) => ~PruneRaises(Appended(w), least, policy)
    /\ Prune(Appended(w), snap, policy)
    /\ nodes' = wver[w].nodes
    /\ origin' = IF origin = NoOrigin THEN wver[w].origin ELSE origin
    /\ history' = Append(history, wver[w].nodes)
    /\ EndWriteUnlocked
    /\ Ended(w)
    /\ UNCHANGED <<policy, snap>>

\* commit() when the pruning policy raises: the version is in the queue, and
\* the exception skips everything that follows.  The transaction is over and
\* nothing can end it any more.
CommitPolicyRaises(w) ==
    /\ wpc[w] = "writing"
    /\ wver[w].changed
    /\ \E least \in 0..wver[w].id :
        /\ IsLeastKept(Appended(w), snap, least)
        /\ PruneRaises(Appended(w), least, policy)
    /\ versions' = Appended(w)
    /\ history' = Append(history, wver[w].nodes)
    /\ Goto(w, "failed")
    /\ UNCHANGED <<nodes, origin, policy, queue, wver, snap>>

\* commit() when the immutable version factory raises, before the lock is taken.
CommitFactoryRaises(w) ==
    /\ FactoryMayRaise
    /\ wpc[w] = "writing"
    /\ wver[w].changed
    /\ Goto(w, "failed")
    /\ UNCHANGED <<zone, queue, wver, snap>>

\* rollback(), and commit() of a transaction that changed nothing.
EndWrite(w) ==
    /\ wpc[w] = "writing"
    /\ EndWriteUnlocked
    /\ Ended(w)
    /\ UNCHANGED <<zone, snap>>

-----------------------------------------------------------------------------
(* reader() and the end of a reader                                        *)

Open(r, v) ==
    /\ ~IsOpen(snap, r)
    /\ snap' = [snap EXCEPT ![r] = v]
    /\ UNCHANGED <<zone, queue, wpc, wver>>

OpenReader(r) == Open(r, Last(versions))

\* reader(id=i), for an id that is still retained
OpenReaderById(r) == \E k \in 1..Len(versions) : Open(r, versions[k])

\* reader(serial=s): the newest retained version with that serial
OpenReaderBySerial(r) ==
    \E k \in 1..Len(versions) :
        /\ SerialOf[versions[k].nodes] # NoSerial
        /\ \A j \in (k + 1)..Len(versions) :
            SerialOf[versions[j].nodes] # SerialOf[versions[k].nodes]
        /\ Open(r, versions[k])

\* A bug: the end of a reader does not prune.
CloseReaderNoPrune(r) ==
    /\ IsOpen(snap, r)
    /\ snap' = [snap EXCEPT ![r] = NoVersion]
    /\ UNCHANGED <<zone, queue, wpc, wver>>

\* The end of a reader: its versions may go.
CloseReader(r) ==
    /\ IsOpen(snap, r)
    /\ snap' = [snap EXCEPT ![r] = NoVersion]
    /\ Prune(versions, snap', policy)
    /\ UNCHANGED <<nodes, origin, policy, history, queue, wpc, wver>>

\* set_pruning_policy() and set_max_versions()
SetPolicy ==
    /\ policy' \in Policies
    /\ Prune(versions, snap, policy')
    /\ UNCHANGED <<nodes, origin, history, queue, wpc, wver, snap>>

-----------------------------------------------------------------------------
WriterNext(w) ==
    \/ CallWriter(w) \/ Acquire(w) \/ Enqueue(w) \/ Wake(w)
    \/ SetupId(w) \/ SetupNodes(w)
    \/ Modify(w) \/ SetOrigin(w)
    \/ Commit(w) \/ CommitPolicyRaises(w) \/ CommitFactoryRaises(w) \/ EndWrite(w)

ReaderNext(r) ==
    \/ OpenReader(r) \/ OpenReaderById(r) \/ OpenReaderBySerial(r) \/ CloseReader(r)

Next == \/ \E w \in Writers : WriterNext(w)
        \/ \E r \in Readers : ReaderNext(r)
        \/ SetPolicy

Spec == Init /\ [][Next]_vars

\* Threads run: a thread inside writer() takes its next step, and a program
\* that opened a write transaction ends it.  Nobody has to call writer(), change
\* anything, or open, close or prune.
Fairness == \A w \in Writers :
    /\ WF_vars(Acquire(w) \/ Enqueue(w))
    /\ WF_vars(Wake(w))
    /\ WF_vars(SetupId(w) \/ SetupNodes(w))
    /\ WF_vars(Commit(w) \/ CommitPolicyRaises(w) \/ CommitFactoryRaises(w) \/ EndWrite(w))

FairSpec == Spec /\ Fairness
-----------------------------------------------------------------------------
(* Properties                                                              *)

PCs == {"idle", "enter", "waiting", "setup_id", "setup_nodes", "writing", "failed"}
Holding == {"setup_id", "setup_nodes", "writing", "failed"}

\* The type of every variable of the zone and of the threads' transactions.
TypeOK ==
    /\ versions \in Seq(VersionType) /\ versions # <<>>
    /\ nodes \in Contents
    /\ origin \in Origins \cup {NoOrigin}
    /\ policy \in Policies
    /\ write_txn \in Writers \cup {NoOne}
    /\ write_event \in Writers \cup {NoOne}
    /\ write_waiters \in Seq(Writers)
    /\ signalled \subseteq Writers
    /\ event \in [Writers -> Writers \cup {NoOne}]
    /\ wpc \in [Writers -> PCs]
    /\ wver \in [Writers -> WorkType]
    /\ snap \in [Readers -> VersionType]
    /\ history \in Seq(Contents)

\* At most one thread is past the gate of writer() and not yet done with its
\* transaction, and _write_txn names it: the unlocked version setup and all the
\* changes of a transaction happen while no other thread can be doing either.
MutualExclusion == \A w \in Writers : wpc[w] \in Holding <=> write_txn = w

Woken(w) == \/ wpc[w] = "waiting" /\ w \in signalled
            \/ wpc[w] = "enter" /\ event[w] = w

\* A thread whose event was set finds, however late it runs, that there is no
\* write transaction and that the zone still waits for this very event: it never
\* goes back to the end of the queue, and no stale event is left behind.
WokenSucceeds ==
    \A w \in Writers : Woken(w) => write_txn = NoOne /\ write_event = w

\* While threads wait there is always a thread that will wake the next one: a
\* writer, or a woken waiter that has not run yet.  A waiting thread's event is
\* in the queue once, or is set.
NoLostWakeup ==
    /\ write_waiters # <<>> =>
        write_txn # NoOne \/ (write_event # NoOne /\ Woken(write_event))
    /\ \A w \in Writers : wpc[w] = "waiting" /\ w \notin signalled =>
        \E k \in 1..Len(write_waiters) :
            \A j \in 1..Len(write_waiters) : write_waiters[j] = w <=> j = k

\* The ids are consecutive, the last version is the last one committed, and
\* (no commit having failed) the attributes nodes and origin of the zone are
\* those of the last version.
PublishedIsLast ==
    /\ \A k \in 1..Len(versions) :
        /\ versions[k].id = Len(history) - Len(versions) + k
        /\ versions[k].nodes = history[versions[k].id]
    /\ (\A w \in Writers : wpc[w] # "failed") =>
        nodes = Last(versions).nodes /\ origin = Last(versions).origin

\* The version a writer works on succeeds the last committed one and starts from
\* its contents (or from nothing), although the setup reads the zone outside
\* the lock: no commit is lost under another.
NoLostUpdate ==
    \A w \in Writers : wpc[w] = "writing" =>
        /\ wver[w].id = Len(history) + 1
        /\ ~wver[w].changed => wver[w].nodes \in {Empty, Last(history)}

\* A reader's version and every later one stay in the zone while it is open,
\* whatever policy is set meanwhile, so that the reader's successor versions can
\* be opened too (an IXFR between two versions).
ReadersPin ==
    \A r \in Readers : IsOpen(snap, r) =>
        \A i \in snap[r].id..Len(history) :
            \E k \in 1..Len(versions) :
                versions[k].id = i /\ versions[k].nodes = history[i]

\* No version outlives its purpose: without readers the default policy keeps
\* one version and set_max_versions(n) at most n; with readers the oldest
\* version kept by the default policy is the oldest reader's.
RetentionBound ==
    LET opened == {r \in Readers : IsOpen(snap, r)} IN
    /\ opened = {} /\ policy.kind = "max" => Len(versions) <= policy.max
    /\ opened = {} /\ policy.kind = "default" => Len(versions) = 1
    /\ opened # {} /\ policy.kind = "default" =>
        \E r \in opened : Head(versions).id = snap[r].id

\* Threads in the order in which they have to get the write transaction.
Line == (IF write_event = NoOne THEN <<>> ELSE <<write_event>>) \o write_waiters

\* Nobody takes cuts: a thread becomes the writer only if it is the first of
\* those waiting, or if nobody is.
NoCuts ==
    [][write_txn = NoOne /\ write_txn' # NoOne /\ Line # <<>>
       => write_txn' = Head(Line)]_vars

\* The zone is a snapshot store.  The abstract writer begins when the deferred
\* setup has copied the zone's nodes; between the lock and that moment the
\* store has no writer yet.
IsWriting == write_txn # NoOne /\ wpc[write_txn] = "writing"

Store == INSTANCE SnapshotStore WITH
    committed <- history,
    writer <- IF IsWriting THEN write_txn ELSE NoOne,
    draft <- IF IsWriting THEN wver[write_txn].nodes ELSE Empty,
    view <- [r \in Readers |-> [id |-> snap[r].id, nodes |-> snap[r].nodes]]

\* Every behaviour of the zone is one of the abstract store: commits are serial,
\* none is lost, and readers have snapshots.  A commit that fails in the pruning
\* policy is a commit to later readers; it is the last one.
ImplementsStore == Store!Spec

\* A thread that called writer() gets its transaction, if transactions end: only
\* a commit that failed (and left its transaction registered) keeps others out.
Stuck == \E w \in Writers : wpc[w] = "failed"
WriterRuns ==
    \A w \in Writers : wpc[w] \in {"enter", "waiting"} ~> wpc[w] = "writing" \/ Stuck

\* The documented outcome of a commit that fails: "the transaction is also
\* rolled back", so the failed transaction is not the zone's write transaction.
CommitFailureRollsBack == \A w \in Writers : wpc[w] = "failed" => write_txn # w
=============================================================================
