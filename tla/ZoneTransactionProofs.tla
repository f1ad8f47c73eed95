------------------------ MODULE ZoneTransactionProofs ------------------------
(***************************************************************************)
(* What holds of the copy-on-write transactions for any names, types,      *)
(* rdatas, readers and any supply of node objects.                         *)
(*                                                                         *)
(* The inductive invariant is the discipline of copy on write: a name in   *)
(* the changed set has a node object of its own, which neither the zone    *)
(* nor a reader nor another changed name refers to; a name outside it has  *)
(* the zone's node, or none in a replacement.                              *)
(***************************************************************************)
EXTENDS ZoneTransaction, TLAPS

\* The objects that the zone and the open readers refer to.
Shared == InUse(zone_nodes, snap, reading, NoNodes)

Idle == txn = "none" => work = NoNodes /\ changed = {}
ClosedReaders == \A r \in Readers \ reading : snap[r] = NoNodes
Owned == \A n \in changed : work[n] # None =>
            /\ work[n] \notin Shared
            /\ \A m \in changed : work[m] = work[n] => m = n

\* TypeOK without the reply, which nothing depends on.
Typed ==
    /\ heap \in [Objs -> SUBSET Rdataset]
    /\ frozen \subseteq Objs
    /\ zone_nodes \in Dictionary
    /\ snap \in [Readers -> Dictionary]
    /\ reading \subseteq Readers
    /\ txn \in {"none", "update", "replace"}
    /\ work \in Dictionary
    /\ changed \subseteq Names

\* One rdataset of a type, no CNAME beside other data, single types single.
Sound(node) ==
    /\ \A r, s \in node :
          /\ r.type = s.type => r = s
          /\ ~(KindOf[r.type] = "cname" /\ KindOf[s.type] = "regular")
    /\ \A s \in node : s.type \in Single => \A d, e \in s.rdatas : d = e

\* Only the removal under the other form of a name leaves an empty node.
Good(node) == Sound(node) /\ (~OtherForms => node # {})
Formed == \A o \in Used : Good(heap[o])

Immutable == MakeImmutable /\ ~OtherForms => Shared \subseteq frozen

IInv == /\ Typed /\ Idle /\ ClosedReaders /\ ChangedIsComplete /\ Owned
        /\ Formed /\ Immutable

\* The objects in use are the shared ones and those of the version.
LEMMA UsedIsShared ==
    ASSUME None \notin Objs
    PROVE  Used = Shared \cup Refs(work)
PROOF
  <1>1. Refs(NoNodes) = {}
    BY DEF Refs, NoNodes
  <1> QED BY <1>1 DEF Used, Shared, InUse

\* The objects in use after a step that leaves the zone and readers alone.
LEMMA UsedAfter ==
    ASSUME UNCHANGED <<zone_nodes, snap, reading>>
    PROVE  /\ InUse(zone_nodes', snap', reading', work') = Shared \cup Refs(work')
           /\ Shared' = Shared
PROOF
  <1>1. Refs(NoNodes) = {}
    BY DEF Refs, NoNodes
  <1> QED BY <1>1 DEF Shared, InUse

\* Before the version changes the node of n, it has an object of its own.
LEMMA CowIsOwned ==
    ASSUME IInv, NEW n \in Names, NEW o \in Objs, Cow(n, o)
    PROVE  /\ o \notin Shared
           /\ \A m \in Names \ {n} : work[m] # o
PROOF
  <1>1. Used = Shared \cup Refs(work)
    BY UsedIsShared, TransactionAssumption
  <1>2. CASE work[n] = None \/ n \notin changed
    <2>1. o \notin Used
      BY <1>2 DEF Cow, IsNew
    <2> QED BY <1>1, <2>1, TransactionAssumption DEF Refs
  <1>3. CASE ~(work[n] = None \/ n \notin changed)
    <2>1. o = work[n] /\ n \in changed
      BY <1>3 DEF Cow
    <2>2. \A m \in changed \ {n} : work[m] # o
      BY <1>3, <2>1 DEF IInv, Owned
    <2>3. o \notin Shared
      BY <1>3, <2>1 DEF IInv, Owned
    <2>4. ASSUME NEW m \in Names, m \notin changed PROVE work[m] # o
      <3>1. txn # "none"
        BY <2>1 DEF IInv, Idle
      <3>2. work[m] \in {zone_nodes[m], None}
        BY <3>1, <2>4 DEF IInv, ChangedIsComplete
      <3>3. zone_nodes[m] # None => zone_nodes[m] \in Shared
        BY DEF Shared, InUse, Refs
      <3> QED BY <2>3, <3>2, <3>3, TransactionAssumption
    <2> QED BY <2>1, <2>2, <2>3, <2>4
  <1> QED BY <1>2, <1>3

\* What a step does to the objects it leaves in the heap.
SharedKept == \A o \in Shared \cap Shared' : heap'[o] = heap[o]

\* Writing a node keeps the invariant and every shared object.
LEMMA WriteKeeps ==
    ASSUME IInv, txn # "none", NEW n \in Names, NEW o \in Objs, Cow(n, o),
           NEW node \in SUBSET Rdataset, Good(node), Write(n, o, node)
    PROVE  /\ IInv' /\ SharedKept
           /\ Shared' = Shared
           /\ heap'[o] = node
           /\ \A p \in (Shared \cup Refs(work')) \ {o} : heap'[p] = heap[p]
PROOF
  <1>1. /\ o \notin Shared
        /\ \A m \in Names \ {n} : work[m] # o
    BY CowIsOwned
  <1>2. /\ InUse(zone_nodes', snap', reading', work') = Shared \cup Refs(work')
        /\ Shared' = Shared
    BY UsedAfter DEF Write
  <1>3. work' = [work EXCEPT ![n] = o] /\ work' \in Dictionary
    BY DEF Write, IInv, Typed, Dictionary
  <1>4. Shared \cup Refs(work') \subseteq Objs
    <2>1. Refs(work') \subseteq Objs
      BY <1>3 DEF Refs, Dictionary
    <2>2. Shared \subseteq Objs
      <3>1. Refs(zone_nodes) \subseteq Objs
        BY DEF IInv, Typed, Dictionary, Refs
      <3>2. \A r \in reading : Refs(snap[r]) \subseteq Objs
        BY DEF IInv, Typed, Dictionary, Refs
      <3>3. Refs(NoNodes) = {}
        BY DEF Refs, NoNodes
      <3> QED BY <3>1, <3>2, <3>3 DEF Shared, InUse
    <2> QED BY <2>1, <2>2
  <1>5. o \in Refs(work')
    <2>1. work'[n] = o
      BY <1>3 DEF IInv, Typed, Dictionary
    <2> QED BY <2>1, TransactionAssumption DEF Refs
  <1>6. heap' = [p \in Objs |-> IF p \in Shared \cup Refs(work')
                               THEN [heap EXCEPT ![o] = node][p] ELSE {}]
    <2> DEFINE h == [heap EXCEPT ![o] = node]
    <2>1. Settle(h, frozen)
      BY DEF Write
    <2> HIDE DEF h
    <2>2. heap' = [p \in Objs |-> IF p \in Shared \cup Refs(work') THEN h[p] ELSE {}]
      BY <1>2, <2>1 DEF Settle
    <2> QED BY <2>2 DEF h
  <1>7. heap'[o] = node
    BY <1>5, <1>6 DEF IInv, Typed
  <1>8. \A p \in (Shared \cup Refs(work')) \ {o} : heap'[p] = heap[p]
    BY <1>4, <1>6 DEF IInv, Typed
  <1>9. SharedKept
    BY <1>1, <1>2, <1>8 DEF SharedKept
  <1>10. Typed'
    <2>1. heap' \in [Objs -> SUBSET Rdataset]
      BY <1>6 DEF IInv, Typed
    <2>2. frozen' \subseteq Objs
      BY DEF Write, Settle, IInv, Typed
    <2>3. UNCHANGED <<zone_nodes, snap, reading, txn>> /\ changed' \subseteq Names
      BY DEF Write, IInv, Typed
    <2> QED BY <1>3, <2>1, <2>2, <2>3 DEF IInv, Typed
  <1>11. Idle' /\ ClosedReaders'
    BY DEF Write, IInv, Idle, ClosedReaders
  <1>12. ChangedIsComplete'
    <2>1. \A m \in Names \ {n} : work'[m] = work[m]
      BY <1>3 DEF IInv, Typed, Dictionary
    <2>2. UNCHANGED <<zone_nodes, txn>> /\ changed' = changed \cup {n}
      BY DEF Write
    <2> QED BY <2>1, <2>2 DEF IInv, ChangedIsComplete
  <1>13. Owned'
    <2>1. \A m \in Names \ {n} : work'[m] = work[m] /\ work[m] # o
      BY <1>1, <1>3 DEF IInv, Typed, Dictionary
    <2>2. work'[n] = o
      BY <1>3 DEF IInv, Typed, Dictionary
    <2>3. changed' = changed \cup {n} /\ changed \subseteq Names
      BY DEF Write, IInv, Typed
    <2> QED BY <1>1, <1>2, <2>1, <2>2, <2>3 DEF IInv, Owned
  <1>14. Formed'
    <2>1. Used' = Shared \cup Refs(work')
      BY <1>2 DEF Used
    <2>2. Refs(work') \subseteq Refs(work) \cup {o}
      BY <1>3 DEF Refs, IInv, Typed, Dictionary
    <2>3. Used = Shared \cup Refs(work)
      BY UsedIsShared, TransactionAssumption
    <2>4. \A p \in Used' : p = o \/ (p \in Used /\ heap'[p] = heap[p])
      BY <1>8, <2>1, <2>2, <2>3
    <2>5. \A p \in Used' : Good(heap'[p])
      BY <1>7, <2>4 DEF IInv, Formed
    <2> QED BY <2>5 DEF Formed, Good, Sound
  <1>15. Immutable'
    <2>1. frozen' = frozen \cap (Shared \cup Refs(work'))
      BY <1>2 DEF Write, Settle
    <2> QED BY <1>2, <2>1 DEF IInv, Immutable
  <1> QED BY <1>2, <1>7, <1>8, <1>9, <1>10, <1>11, <1>12, <1>13, <1>14, <1>15 DEF IInv

\* Unlinking a node keeps the invariant and every object still in use.
LEMMA UnlinkKeeps ==
    ASSUME IInv, txn # "none", NEW n \in Names, Unlink(n)
    PROVE  /\ IInv' /\ SharedKept
           /\ Shared' = Shared
           /\ \A p \in Shared \cup Refs(work') : heap'[p] = heap[p]
PROOF
  <1>1. /\ InUse(zone_nodes', snap', reading', work') = Shared \cup Refs(work')
        /\ Shared' = Shared
    BY UsedAfter DEF Unlink
  <1>2. work' = [work EXCEPT ![n] = None] /\ work' \in Dictionary
    BY DEF Unlink, IInv, Typed, Dictionary
  <1>3. Refs(work') \subseteq Objs
    BY <1>2 DEF Refs, Dictionary
  <1>4. Shared \subseteq Objs
    <2>1. Refs(zone_nodes) \subseteq Objs
      BY DEF IInv, Typed, Dictionary, Refs
    <2>2. \A r \in reading : Refs(snap[r]) \subseteq Objs
      BY DEF IInv, Typed, Dictionary, Refs
    <2>3. Refs(NoNodes) = {}
      BY DEF Refs, NoNodes
    <2> QED BY <2>1, <2>2, <2>3 DEF Shared, InUse
  <1>5. heap' = [p \in Objs |-> IF p \in Shared \cup Refs(work') THEN heap[p] ELSE {}]
    BY <1>1 DEF Unlink, Settle
  <1>6. \A p \in Shared \cup Refs(work') : heap'[p] = heap[p]
    BY <1>3, <1>4, <1>5
  <1>7. SharedKept
    BY <1>6 DEF SharedKept
  <1>8. Typed'
    <2>1. heap' \in [Objs -> SUBSET Rdataset]
      BY <1>5 DEF IInv, Typed
    <2>2. frozen' \subseteq Objs
      BY DEF Unlink, Settle, IInv, Typed
    <2>3. UNCHANGED <<zone_nodes, snap, reading, txn>> /\ changed' \subseteq Names
      BY DEF Unlink, IInv, Typed
    <2> QED BY <1>2, <2>1, <2>2, <2>3 DEF IInv, Typed
  <1>9. Idle' /\ ClosedReaders'
    BY DEF Unlink, IInv, Idle, ClosedReaders
  <1>10. \A m \in Names \ {n} : work'[m] = work[m]
    BY <1>2 DEF IInv, Typed, Dictionary
  <1>11. UNCHANGED <<zone_nodes, txn>> /\ changed' = changed \cup {n}
    BY DEF Unlink
  <1>12. ChangedIsComplete'
    BY <1>10, <1>11 DEF IInv, ChangedIsComplete
  <1>13. Owned'
    <2>1. work'[n] = None
      BY <1>2 DEF IInv, Typed, Dictionary
    <2>2. changed \subseteq Names
      BY DEF IInv, Typed
    <2> QED BY <1>1, <1>10, <1>11, <2>1, <2>2 DEF IInv, Owned
  <1>14. Formed'
    <2>1. Used' = Shared \cup Refs(work')
      BY <1>1 DEF Used
    <2>2. Refs(work') \subseteq Refs(work)
      BY <1>2 DEF Refs, IInv, Typed, Dictionary
    <2>3. Used = Shared \cup Refs(work)
      BY UsedIsShared, TransactionAssumption
    <2>4. \A p \in Used' : Good(heap'[p])
      BY <1>6, <2>1, <2>2, <2>3 DEF IInv, Formed
    <2> QED BY <2>4 DEF Formed, Good, Sound
  <1>15. Immutable'
    <2>1. frozen' = frozen \cap (Shared \cup Refs(work'))
      BY <1>1 DEF Unlink, Settle
    <2> QED BY <1>1, <2>1 DEF IInv, Immutable
  <1> QED BY <1>1, <1>6, <1>7, <1>8, <1>9, <1>12, <1>13, <1>14, <1>15 DEF IInv

-----------------------------------------------------------------------------
(* Every call changes the node of one name or nothing.                     *)

Written(n) == \E o \in Objs, node \in SUBSET Rdataset :
                  Good(node) /\ Cow(n, o) /\ Write(n, o, node)
Edit(n) == Untouched \/ Unlink(n) \/ Written(n)

\* The rdatasets of a node stay rdatasets.
LEMMA NodesTyped ==
    ASSUME Typed, NEW n \in Names
    PROVE  /\ NodeAt(n) \in SUBSET Rdataset
           /\ \A t \in Types : /\ Without(NodeAt(n), t) \in SUBSET Rdataset
                               /\ RdatasAt(NodeAt(n), t) \subseteq Rdatas
           /\ \A t \in Types : \A S \in SUBSET Rdatas :
                 Replaced(NodeAt(n), [type |-> t, rdatas |-> S]) \in SUBSET Rdataset
PROOF
  <1>1. NodeAt(n) \in SUBSET Rdataset
    BY DEF Typed, NodeAt, Dictionary
  <1>2. ASSUME NEW t \in Types
        PROVE  /\ Without(NodeAt(n), t) \in SUBSET Rdataset
               /\ RdatasAt(NodeAt(n), t) \subseteq Rdatas
    BY <1>1 DEF Without, RdatasAt, At, Rdataset
  <1>3. ASSUME NEW t \in Types, NEW S \in SUBSET Rdatas
        PROVE  Replaced(NodeAt(n), [type |-> t, rdatas |-> S]) \in SUBSET Rdataset
    <2>1. KindOf[t] \in {"cname", "regular", "neutral"}
      BY TransactionAssumption
    <2>2. [type |-> t, rdatas |-> S] \in Rdataset
      BY DEF Rdataset
    <2>3. Compatible(Without(NodeAt(n), t), t) \subseteq Without(NodeAt(n), t)
      BY <2>1 DEF Compatible
    <2> QED BY <1>2, <2>2, <2>3 DEF Replaced
  <1> QED BY <1>1, <1>2, <1>3

\* Replacing and removing rdatasets keeps a node sound.
LEMMA NodesSound ==
    ASSUME Typed, Formed, NEW n \in Names, NEW t \in Types
    PROVE  /\ Sound(NodeAt(n)) /\ Sound(Without(NodeAt(n), t))
           /\ \A S \in SUBSET Rdatas : (t \in Single => \A d, e \in S : d = e) =>
                 Good(Replaced(NodeAt(n), [type |-> t, rdatas |-> S]))
PROOF
  <1> DEFINE N == NodeAt(n)
  <1>1. Sound(N)
    <2>1. work[n] # None => work[n] \in Used
      BY DEF Used, InUse, Refs
    <2>2. Sound({})
      BY DEF Sound
    <2> QED BY <2>1, <2>2 DEF NodeAt, Formed, Good
  <1>2. N \in SUBSET Rdataset
    BY NodesTyped
  <1> HIDE DEF N
  <1>3. Sound(Without(N, t))
    BY <1>1 DEF Sound, Without
  <1>4. ASSUME NEW S \in SUBSET Rdatas, t \in Single => \A d, e \in S : d = e
        PROVE  Good(Replaced(N, [type |-> t, rdatas |-> S]))
    <2> DEFINE rds == [type |-> t, rdatas |-> S]
               left == Compatible(Without(N, t), t)
    <2>1. rds.type = t /\ rds.rdatas = S
      OBVIOUS
    <2>2. KindOf[t] \in {"cname", "regular", "neutral"}
      BY TransactionAssumption
    <2>3. /\ left \subseteq N /\ \A s \in left : s.type # t
          /\ \A s \in left : /\ ~(KindOf[t] = "cname" /\ KindOf[s.type] = "regular")
                             /\ ~(KindOf[s.type] = "cname" /\ KindOf[t] = "regular")
      BY <2>2 DEF Compatible, Without
    <2>4. Replaced(N, rds) = left \cup {rds}
      BY <2>1 DEF Replaced
    <2> HIDE DEF rds, left
    <2>5. \A r, s \in left \cup {rds} :
            /\ r.type = s.type => r = s
            /\ ~(KindOf[r.type] = "cname" /\ KindOf[s.type] = "regular")
      BY <1>1, <2>1, <2>2, <2>3 DEF Sound
    <2>6. \A s \in left \cup {rds} : s.type \in Single => \A d, e \in s.rdatas : d = e
      BY <1>1, <1>4, <2>1, <2>3 DEF Sound
    <2>7. Good(Replaced(N, rds))
      BY <2>4, <2>5, <2>6 DEF Good, Sound
    <2> QED BY <2>7 DEF rds
  <1> QED BY <1>1, <1>3, <1>4 DEF N

\* A name has one record of a single type.
LEMMA SingleAt ==
    ASSUME Typed, Formed, NEW n \in Names, NEW t \in Single
    PROVE  \A d, e \in RdatasAt(NodeAt(n), t) : d = e
PROOF
  <1>1. t \in Types
    BY TransactionAssumption
  <1>2. Sound(NodeAt(n))
    BY <1>1, NodesSound
  <1> QED BY <1>2 DEF Sound, RdatasAt, At

LEMMA PutEdits ==
    ASSUME Typed, Formed, NEW n \in Names, NEW t \in Types, NEW S \in SUBSET Rdatas,
           t \in Single => \A d, e \in S : d = e, PutRdataset(n, t, S)
    PROVE  Edit(n)
  BY NodesTyped, NodesSound DEF PutRdataset, Edit, Written

LEMMA DeleteEdits ==
    ASSUME Typed, Formed, NEW n \in Names, NEW t \in Types, NEW form \in Forms,
           DeleteRdataset(n, t, form)
    PROVE  Edit(n)
PROOF
  <1>1. CASE Without(NodeAt(n), t) = {} /\ form = "own"
    BY <1>1 DEF DeleteRdataset, Edit
  <1>2. CASE ~(Without(NodeAt(n), t) = {} /\ form = "own")
    <2>1. PICK o \in Objs : Cow(n, o) /\ Write(n, o, Without(NodeAt(n), t))
      BY <1>2 DEF DeleteRdataset
    <2>2. Good(Without(NodeAt(n), t))
      BY <1>2, NodesSound DEF Good, Forms
    <2> QED BY <2>1, <2>2, NodesTyped DEF Edit, Written
  <1> QED BY <1>1, <1>2

\* The calls of the write transaction, for the name n.
CallOn(n) ==
    \/ \E t \in Types, S \in SUBSET Rdatas : Replace(n, t, S) \/ Add(n, t, S)
    \/ \E exact \in BOOLEAN : DeleteName(n, exact)
    \/ \E t \in Types, exact \in BOOLEAN, form \in Forms :
          \/ DeleteType(n, t, exact, form)
          \/ \E S \in SUBSET Rdatas : DeleteRdatas(n, t, S, exact, form)

LEMMA CallEdits ==
    ASSUME Typed, Formed, NEW n \in Names, CallOn(n)
    PROVE  txn # "none" /\ Edit(n)
PROOF
  <1>1. ASSUME NEW t \in Types, NEW S \in SUBSET Rdatas, Replace(n, t, S)
        PROVE  txn # "none" /\ Edit(n)
    BY <1>1, PutEdits DEF Replace, Input
  <1>2. ASSUME NEW t \in Types, NEW S \in SUBSET Rdatas, Add(n, t, S)
        PROVE  txn # "none" /\ Edit(n)
    <2> DEFINE U == Union(t, RdatasAt(NodeAt(n), t), S)
    <2>1. U \in SUBSET Rdatas
      BY NodesTyped DEF Union
    <2>2. t \in Single => \A d, e \in U : d = e
      BY <1>2, SingleAt DEF Add, Input, Union
    <2>3. PutRdataset(n, t, U)
      BY <1>2 DEF Add
    <2> QED BY <1>2, <2>1, <2>2, <2>3, PutEdits DEF Add
  <1>3. ASSUME NEW exact \in BOOLEAN, DeleteNameEffect(n, exact)
        PROVE  Edit(n)
    BY <1>3 DEF DeleteNameEffect, DeleteNode, Edit
  <1>4. ASSUME NEW exact \in BOOLEAN, DeleteName(n, exact)
        PROVE  txn # "none" /\ Edit(n)
    BY <1>3, <1>4 DEF DeleteName
  <1>5. ASSUME NEW t \in Types, NEW exact \in BOOLEAN, NEW form \in Forms,
               DeleteType(n, t, exact, form)
        PROVE  txn # "none" /\ Edit(n)
    BY <1>5, DeleteEdits DEF DeleteType, Edit
  <1>6. ASSUME NEW t \in Types, NEW exact \in BOOLEAN, NEW form \in Forms,
               NEW S \in SUBSET Rdatas, DeleteSome(n, t, S, exact, form)
        PROVE  Edit(n)
    <2>1. RdatasAt(NodeAt(n), t) \ S \in SUBSET Rdatas
      BY NodesTyped
    <2>2. Untouched \/ DeleteRdataset(n, t, form)
            \/ PutRdataset(n, t, RdatasAt(NodeAt(n), t) \ S)
      BY <1>6 DEF DeleteSome
    <2>3. CASE Untouched
      BY <2>3 DEF Edit
    <2>4. CASE DeleteRdataset(n, t, form)
      BY <2>4, DeleteEdits
    <2>5. CASE PutRdataset(n, t, RdatasAt(NodeAt(n), t) \ S)
      <3>1. t \in Single => \A d, e \in RdatasAt(NodeAt(n), t) \ S : d = e
        BY SingleAt
      <3> QED BY <2>1, <2>5, <3>1, PutEdits
    <2> QED BY <2>2, <2>3, <2>4, <2>5
  <1>7. ASSUME NEW t \in Types, NEW exact \in BOOLEAN, NEW form \in Forms,
               NEW S \in SUBSET Rdatas, DeleteRdatas(n, t, S, exact, form)
        PROVE  txn # "none" /\ Edit(n)
    BY <1>3, <1>6, <1>7 DEF DeleteRdatas
  <1> QED BY <1>1, <1>2, <1>4, <1>5, <1>7 DEF CallOn

LEMMA EditKeeps ==
    ASSUME IInv, txn # "none", NEW n \in Names, Edit(n)
    PROVE  IInv' /\ SharedKept
PROOF
  <1>1. CASE Untouched
    BY <1>1 DEF Untouched, IInv, Typed, Idle, ClosedReaders, ChangedIsComplete,
                Owned, Shared, SharedKept, Formed, Used, Good, Sound, Immutable
  <1>2. CASE Unlink(n)
    BY <1>2, UnlinkKeeps
  <1>3. CASE Written(n)
    BY <1>3, WriteKeeps DEF Written
  <1> QED BY <1>1, <1>2, <1>3 DEF Edit

-----------------------------------------------------------------------------
(* The other steps.                                                        *)

LEMMA BeginKeeps ==
    ASSUME IInv, NEW kind \in {"update", "replace"}, Begin(kind)
    PROVE  IInv' /\ SharedKept
PROOF
  <1>1. NoNodes \in Dictionary
    BY DEF NoNodes, Dictionary
  <1>2. Shared' = Shared
    BY DEF Begin, Shared
  <1>3. Typed' /\ Idle' /\ ClosedReaders' /\ SharedKept
    BY <1>1 DEF Begin, IInv, Typed, Idle, ClosedReaders, SharedKept
  <1>4. ChangedIsComplete' /\ Owned'
    BY DEF Begin, IInv, ChangedIsComplete, Owned, NoNodes
  <1>5. Used' \subseteq Used
    BY DEF Begin, Used, InUse, Refs, NoNodes
  <1>6. Formed'
    <2>1. \A o \in Used' : Good(heap'[o])
      BY <1>5 DEF Begin, IInv, Formed
    <2> QED BY <2>1 DEF Formed, Good, Sound
  <1>7. Immutable'
    BY <1>2 DEF Begin, IInv, Immutable
  <1> QED BY <1>3, <1>4, <1>6, <1>7 DEF IInv

\* Steps that end the transaction, and those of readers, leave a heap whose
\* objects in use are as they were.
LEMMA SettleKeeps ==
    ASSUME Typed, NEW fr \in SUBSET (Objs \cup {None}), Settle(heap, fr),
           InUse(zone_nodes', snap', reading', work') \subseteq Objs
    PROVE  /\ heap' \in [Objs -> SUBSET Rdataset]
           /\ frozen' \subseteq Objs
           /\ \A o \in InUse(zone_nodes', snap', reading', work') : heap'[o] = heap[o]
  BY DEF Settle, Typed

LEMMA InUseTyped ==
    ASSUME NEW zn \in Dictionary, NEW sn \in [Readers -> Dictionary],
           NEW rd \in SUBSET Readers, NEW wk \in Dictionary
    PROVE  InUse(zn, sn, rd, wk) \subseteq Objs
PROOF
  <1>1. \A dict \in Dictionary : Refs(dict) \subseteq Objs
    BY DEF Refs, Dictionary
  <1> QED BY <1>1 DEF InUse

LEMMA EndKeeps ==
    ASSUME IInv, Over, UNCHANGED <<snap, reading>>,
           zone_nodes' \in {zone_nodes, work},
           NEW fr \in SUBSET (Objs \cup {None}), Settle(heap, fr),
           MakeImmutable /\ ~OtherForms => Refs(zone_nodes') \cup Shared \subseteq fr
    PROVE  IInv' /\ SharedKept
PROOF
  <1>1. NoNodes \in Dictionary
    BY DEF NoNodes, Dictionary
  <1>2. work' = NoNodes /\ changed' = {} /\ txn' = "none"
    BY DEF Over
  <1>3. /\ zone_nodes' \in Dictionary /\ snap' \in [Readers -> Dictionary]
        /\ reading' \in SUBSET Readers /\ work' \in Dictionary
    BY <1>1, <1>2 DEF IInv, Typed
  <1>4. InUse(zone_nodes', snap', reading', work') \subseteq Objs
    BY <1>3, InUseTyped
  <1>5. /\ heap' \in [Objs -> SUBSET Rdataset]
        /\ frozen' \subseteq Objs
        /\ \A o \in InUse(zone_nodes', snap', reading', work') : heap'[o] = heap[o]
    BY <1>4, SettleKeeps DEF IInv
  <1>6. Typed'
    BY <1>2, <1>3, <1>5 DEF Typed
  <1>7. Shared' = InUse(zone_nodes', snap', reading', work')
    BY <1>2 DEF Shared, NoNodes
  <1>8. SharedKept
    BY <1>5, <1>7 DEF SharedKept
  <1>9. Idle' /\ ClosedReaders' /\ ChangedIsComplete' /\ Owned'
    BY <1>2 DEF IInv, Idle, ClosedReaders, ChangedIsComplete, Owned
  <1>10. Used' \subseteq Used
    BY <1>2 DEF Used, InUse, Refs, NoNodes
  <1>11. Formed'
    <2>1. \A o \in Used' : Good(heap'[o])
      BY <1>5, <1>10 DEF IInv, Formed, Used
    <2> QED BY <2>1 DEF Formed, Good, Sound
  <1>12. Immutable'
    <2>1. Shared' \subseteq Refs(zone_nodes') \cup Shared
      BY DEF Shared, InUse
    <2>2. frozen' = fr \cap Shared'
      BY <1>7 DEF Settle
    <2> QED BY <2>1, <2>2 DEF Immutable
  <1> QED BY <1>6, <1>8, <1>9, <1>11, <1>12 DEF IInv

LEMMA CommitKeeps == ASSUME IInv, Commit PROVE IInv' /\ SharedKept
PROOF
  <1> DEFINE fr == IF MakeImmutable THEN frozen \cup Frozen ELSE frozen
  <1>1. fr \in SUBSET (Objs \cup {None})
    BY DEF IInv, Typed, Frozen, Dictionary
  <1>2. Settle(heap, fr)
    BY DEF Commit
  <1>3. /\ Over /\ UNCHANGED <<snap, reading>> /\ txn # "none"
        /\ zone_nodes' = IF changed = {} THEN zone_nodes ELSE work
    BY DEF Commit
  <1>4. ASSUME MakeImmutable, ~OtherForms
        PROVE  Refs(zone_nodes') \cup Shared \subseteq fr
    <2>1. Shared \subseteq fr
      BY <1>4 DEF IInv, Immutable
    <2>2. Refs(zone_nodes) \subseteq Shared
      BY DEF Shared, InUse
    <2>3. ASSUME NEW n \in Names, work[n] # None PROVE work[n] \in fr
      <3>1. CASE n \in changed
        <4>1. work[n] \in Used
          BY <2>3 DEF Used, InUse, Refs
        <4>2. NodeAt(n) # {}
          BY <1>4, <2>3, <4>1 DEF IInv, Formed, Good, NodeAt
        <4> QED BY <1>4, <3>1, <4>2 DEF Frozen
      <3>2. CASE n \notin changed
        <4>1. work[n] = zone_nodes[n]
          BY <1>3, <2>3, <3>2 DEF IInv, ChangedIsComplete
        <4> QED BY <2>1, <2>2, <2>3, <4>1 DEF Refs
      <3> QED BY <3>1, <3>2
    <2>4. Refs(work) \subseteq fr
      BY <2>3 DEF Refs
    <2> QED BY <1>3, <2>1, <2>2, <2>4
  <1> HIDE DEF fr
  <1> QED BY <1>1, <1>2, <1>3, <1>4, EndKeeps

LEMMA RollbackKeeps == ASSUME IInv, Rollback PROVE IInv' /\ SharedKept
PROOF
  <1>1. MakeImmutable /\ ~OtherForms => Refs(zone_nodes') \cup Shared \subseteq frozen
    BY DEF Rollback, IInv, Immutable, Shared, InUse
  <1> QED BY <1>1, EndKeeps DEF Rollback, IInv, Typed

LEMMA OpenReaderKeeps ==
    ASSUME IInv, NEW r \in Readers, OpenReader(r)
    PROVE  IInv' /\ SharedKept
PROOF
  <1>1. /\ reading' = reading \cup {r}
        /\ snap' = [snap EXCEPT ![r] = zone_nodes]
        /\ UNCHANGED <<heap, frozen, zone_nodes, txn, work, changed>>
    BY DEF OpenReader
  <1>2. snap'[r] = zone_nodes /\ \A q \in Readers \ {r} : snap'[q] = snap[q]
    BY <1>1 DEF IInv, Typed
  <1>3. Shared' = Shared
    <2>1. r \notin reading /\ reading \subseteq Readers
      BY DEF OpenReader, IInv, Typed
    <2>2. \A q \in reading : snap'[q] = snap[q]
      BY <1>2, <2>1
    <2>3. UNION {Refs(snap'[q]) : q \in reading'}
            = Refs(zone_nodes) \cup UNION {Refs(snap[q]) : q \in reading}
      BY <1>1, <1>2, <2>2
    <2> QED BY <1>1, <2>3 DEF Shared, InUse
  <1>4. Typed' /\ Idle' /\ ChangedIsComplete' /\ SharedKept
    BY <1>1 DEF IInv, Typed, Idle, ChangedIsComplete, SharedKept
  <1>5. ClosedReaders'
    BY <1>1, <1>2 DEF IInv, ClosedReaders
  <1>6. Owned'
    BY <1>1, <1>3 DEF IInv, Owned
  <1>7. Used = Shared \cup Refs(work) /\ Used' = Shared' \cup Refs(work')
    <2>1. Refs(NoNodes) = {}
      BY DEF Refs, NoNodes
    <2> QED BY <2>1 DEF Used, Shared, InUse
  <1>8. Formed'
    <2>1. \A o \in Used' : Good(heap'[o])
      BY <1>1, <1>3, <1>7 DEF IInv, Formed
    <2> QED BY <2>1 DEF Formed, Good, Sound
  <1>9. Immutable'
    BY <1>1, <1>3 DEF IInv, Immutable
  <1> QED BY <1>4, <1>5, <1>6, <1>8, <1>9 DEF IInv

LEMMA CloseReaderKeeps ==
    ASSUME IInv, NEW r \in Readers, CloseReader(r)
    PROVE  IInv' /\ SharedKept
PROOF
  <1>1. /\ reading' = reading \ {r}
        /\ snap' = [snap EXCEPT ![r] = NoNodes]
        /\ UNCHANGED <<zone_nodes, txn, work, changed>>
        /\ Settle(heap, frozen)
    BY DEF CloseReader
  <1>2. snap'[r] = NoNodes /\ \A q \in Readers \ {r} : snap'[q] = snap[q]
    BY <1>1 DEF IInv, Typed
  <1>3. NoNodes \in Dictionary
    BY DEF NoNodes, Dictionary
  <1>4. /\ zone_nodes' \in Dictionary /\ snap' \in [Readers -> Dictionary]
        /\ reading' \in SUBSET Readers /\ work' \in Dictionary
    BY <1>1, <1>3 DEF IInv, Typed
  <1>5. InUse(zone_nodes', snap', reading', work') \subseteq Objs
    BY <1>4, InUseTyped
  <1>6. /\ heap' \in [Objs -> SUBSET Rdataset]
        /\ frozen' \subseteq Objs
        /\ \A o \in InUse(zone_nodes', snap', reading', work') : heap'[o] = heap[o]
    BY <1>1, <1>5, SettleKeeps DEF IInv, Typed
  <1>7. Shared' \subseteq Shared
    BY <1>1, <1>2 DEF Shared, InUse, IInv, Typed
  <1>8. Shared' \subseteq InUse(zone_nodes', snap', reading', work')
    BY DEF Shared, InUse, Refs, NoNodes
  <1>9. SharedKept
    BY <1>6, <1>8 DEF SharedKept
  <1>10. Typed' /\ Idle' /\ ChangedIsComplete'
    BY <1>1, <1>4, <1>6 DEF IInv, Typed, Idle, ChangedIsComplete
  <1>11. ClosedReaders'
    BY <1>1, <1>2 DEF IInv, ClosedReaders
  <1>12. Owned'
    BY <1>1, <1>7 DEF IInv, Owned
  <1>13. Used' \subseteq Used
    <2>1. Refs(NoNodes) = {}
      BY DEF Refs, NoNodes
    <2>2. Used = Shared \cup Refs(work) /\ Used' = Shared' \cup Refs(work')
      BY <2>1 DEF Used, Shared, InUse
    <2> QED BY <1>1, <1>7, <2>2
  <1>14. Formed'
    <2>1. \A o \in Used' : Good(heap'[o])
      BY <1>6, <1>13 DEF IInv, Formed, Used
    <2> QED BY <2>1 DEF Formed, Good, Sound
  <1>15. Immutable'
    <2>1. frozen' = frozen \cap InUse(zone_nodes', snap', reading', work')
      BY <1>1 DEF Settle
    <2> QED BY <1>7, <1>8, <2>1 DEF IInv, Immutable
  <1> QED BY <1>9, <1>10, <1>11, <1>12, <1>14, <1>15 DEF IInv

-----------------------------------------------------------------------------
(* The theorems.                                                           *)

LEMMA InitHolds == ASSUME Init PROVE IInv
PROOF
  <1>1. NoNodes \in Dictionary
    BY DEF NoNodes, Dictionary
  <1>2. Typed /\ Idle /\ ClosedReaders /\ ChangedIsComplete /\ Owned
    BY <1>1 DEF Init, Typed, Idle, ClosedReaders, ChangedIsComplete, Owned
  <1>3. Used = {} /\ Shared = {}
    BY DEF Init, Used, Shared, InUse, Refs, NoNodes
  <1> QED BY <1>2, <1>3 DEF IInv, Formed, Immutable

LEMMA StepKeeps == ASSUME IInv, [Next]_vars PROVE IInv' /\ SharedKept
PROOF
  <1>1. CASE UNCHANGED vars
    BY <1>1 DEF vars, IInv, Typed, Idle, ClosedReaders, ChangedIsComplete, Owned,
                Shared, SharedKept, Formed, Used, Good, Sound, Immutable
  <1>2. ASSUME NEW kind \in {"update", "replace"}, Begin(kind) PROVE IInv' /\ SharedKept
    BY <1>2, BeginKeeps
  <1>3. CASE Refuse
    BY <1>3 DEF Refuse, Untouched, IInv, Typed, Idle, ClosedReaders,
                ChangedIsComplete, Owned, Shared, SharedKept,
                Formed, Used, Good, Sound, Immutable
  <1>4. ASSUME NEW n \in Names, CallOn(n) PROVE IInv' /\ SharedKept
    BY <1>4, CallEdits, EditKeeps DEF IInv
  <1>5. CASE Commit
    BY <1>5, CommitKeeps
  <1>6. CASE Rollback
    BY <1>6, RollbackKeeps
  <1>7. ASSUME NEW r \in Readers, OpenReader(r) \/ CloseReader(r)
        PROVE  IInv' /\ SharedKept
    BY <1>7, OpenReaderKeeps, CloseReaderKeeps
  <1> QED BY <1>1, <1>2, <1>3, <1>4, <1>5, <1>6, <1>7 DEF Next, CallOn

LEMMA Invariance == Spec => []IInv
PROOF
  <1>1. Init => IInv
    BY InitHolds
  <1>2. IInv /\ [Next]_vars => IInv'
    BY StepKeeps
  <1> QED BY <1>1, <1>2, PTL DEF Spec

\* No node object that the zone or an open reader refers to ever changes:
\* copying before the first change of a name protects every version that
\* shares the node (WritableVersion._maybe_cow).
THEOREM SharedNodesConstantHolds == Spec => SharedNodesConstant
PROOF
  <1>1. IInv /\ [Next]_vars =>
          [\A o \in InUse(zone_nodes, snap, reading, NoNodes)
                   \cap InUse(zone_nodes', snap', reading', NoNodes) :
             heap'[o] = heap[o]]_vars
    BY StepKeeps DEF Shared, SharedKept, NoNodes
  <1> QED BY <1>1, Invariance, PTL DEF Spec, SharedNodesConstant

\* The types of all variables.
THEOREM TypeCorrect == Spec => []TypeOK
PROOF
  <1> DEFINE Told == reply.call \in Calls /\ reply.error \in Errors
  <1>1. Init => Told
    BY DEF Init, Calls, Errors
  <1>2. ASSUME Told, NEW n \in Names, CallOn(n) PROVE Told'
    <2>1. \A b \in BOOLEAN : /\ DeleteNameError(n, b) \in Errors
                             /\ Call(b) \in Calls
      BY DEF DeleteNameError, Call, Calls, Errors
    <2>2. \A t \in Types, form \in Forms : DeleteError(n, t, form) \in Errors
      BY DEF DeleteError, Errors
    <2>3. {"other", "commit"} \subseteq Calls /\ {"ok", "DeleteNotExact"} \subseteq Errors
      BY DEF Calls, Errors
    <2>4. ASSUME NEW t \in Types, NEW S \in SUBSET Rdatas,
                 Replace(n, t, S) \/ Add(n, t, S)
          PROVE  Told'
      BY <2>3, <2>4 DEF Replace, Add, Said, Reply
    <2>5. ASSUME NEW b \in BOOLEAN, DeleteName(n, b) PROVE Told'
      BY <2>1, <2>3, <2>5 DEF DeleteName, Said, Reply
    <2>6. ASSUME NEW t \in Types, NEW b \in BOOLEAN, NEW form \in Forms,
                 DeleteType(n, t, b, form)
          PROVE  Told'
      BY <2>2, <2>3, <2>6 DEF DeleteType, Said, Reply
    <2>7. ASSUME NEW t \in Types, NEW b \in BOOLEAN, NEW form \in Forms,
                 NEW S \in SUBSET Rdatas, DeleteRdatas(n, t, S, b, form)
          PROVE  Told'
      <3>1. CASE S = {}
        BY <2>1, <2>7, <3>1 DEF DeleteRdatas, Reply
      <3>2. CASE S # {}
        BY <2>1, <2>2, <2>3, <2>7, <3>2 DEF DeleteRdatas, DeleteSome, Reply
      <3> QED BY <3>1, <3>2
    <2> QED BY <1>2, <2>4, <2>5, <2>6, <2>7 DEF CallOn
  <1>3. Told /\ [Next]_vars => Told'
    <2> SUFFICES ASSUME Told, [Next]_vars PROVE Told'
      OBVIOUS
    <2>1. CASE UNCHANGED vars
      BY <2>1 DEF vars
    <2>2. ASSUME NEW kind \in {"update", "replace"}, Begin(kind) PROVE Told'
      BY <2>2 DEF Begin, Said, Reply, Calls, Errors
    <2>3. CASE Refuse \/ Commit \/ Rollback
      BY <2>3 DEF Refuse, Commit, Rollback, Said, Reply, Calls, Errors
    <2>4. ASSUME NEW r \in Readers, OpenReader(r) \/ CloseReader(r) PROVE Told'
      BY <2>4 DEF OpenReader, CloseReader, Said, Reply, Calls, Errors
    <2> QED BY <1>2, <2>1, <2>2, <2>3, <2>4 DEF Next, CallOn
  <1>4. IInv /\ Told => TypeOK
    BY DEF IInv, Typed, TypeOK
  <1> HIDE DEF Told
  <1> QED BY <1>1, <1>3, <1>4, Invariance, PTL DEF Spec

\* If callers use the zone's own form of names, every node is well formed: no
\* CNAME beside other data, one rdataset of a type, none empty of rdatasets.
THEOREM NodesWellFormedHolds == ~OtherForms => (Spec => []NodesWellFormed)
PROOF
  <1>1. ~OtherForms /\ IInv => NodesWellFormed
    BY DEF IInv, Formed, Good, Sound, NodesWellFormed, WellFormed
  <1>2. CASE ~OtherForms
    <2>1. IInv => NodesWellFormed
      BY <1>1, <1>2
    <2> QED BY <2>1, Invariance, PTL
  <1> QED BY <1>2

\* Then, too, a versioned zone shows its readers immutable nodes only, and
\* with the nodes' form this is all a reader relies on.
THEOREM PublishedIsSoundHolds == ~OtherForms => (Spec => []PublishedIsSound)
PROOF
  <1>1. ~OtherForms /\ IInv => PublishedIsImmutable
    BY DEF IInv, Immutable, Shared, PublishedIsImmutable
  <1>2. ~OtherForms /\ IInv => NodesWellFormed
    BY DEF IInv, Formed, Good, Sound, NodesWellFormed, WellFormed
  <1>3. CASE ~OtherForms
    <2>1. IInv => PublishedIsSound
      BY <1>1, <1>2, <1>3 DEF PublishedIsSound
    <2> QED BY <2>1, Invariance, PTL
  <1> QED BY <1>3

\* Outside the changed set a version has the zone's own nodes, so a commit
\* that finds the set empty has nothing to publish (Transaction._end_transaction).
THEOREM ChangedIsCompleteHolds == Spec => []ChangedIsComplete
PROOF
  <1>1. IInv => ChangedIsComplete
    BY DEF IInv
  <1> QED BY <1>1, Invariance, PTL

-----------------------------------------------------------------------------
(* The refinement of AtomicZone: records are read off the nodes.           *)

\* The rdatas of type t that a dictionary holds at n, given the heap.
Held(h, dict, n, t) == IF dict[n] = None THEN {} ELSE RdatasAt(h[dict[n]], t)

Heap == [Objs -> SUBSET Rdataset]
Triples == [name : Names, type : Types, rdata : Rdatas]
RecordsOf(h, dict) == {x \in Triples : x.rdata \in Held(h, dict, x.name, x.type)}

LEMMA HeldTyped ==
    ASSUME NEW h \in Heap, NEW dict \in Dictionary, NEW n \in Names, NEW t \in Types
    PROVE  Held(h, dict, n, t) \subseteq Rdatas
  BY DEF Held, Heap, Dictionary, RdatasAt, At, Rdataset

\* The records of a dictionary, as a comprehension over the types.
LEMMA UnionIsRecordsOf ==
    ASSUME NEW h \in Heap, NEW dict \in Dictionary
    PROVE  UNION {Of(n, t, RdatasAt(h[dict[n]], t)) :
                     n \in {m \in Names : dict[m] # None}, t \in Types}
             = RecordsOf(h, dict)
PROOF
  <1> DEFINE U == UNION {Of(n, t, RdatasAt(h[dict[n]], t)) :
                           n \in {m \in Names : dict[m] # None}, t \in Types}
  <1>1. ASSUME NEW x \in U PROVE x \in RecordsOf(h, dict)
    <2>1. PICK n \in {m \in Names : dict[m] # None}, t \in Types :
            x \in Of(n, t, RdatasAt(h[dict[n]], t))
      OBVIOUS
    <2>2. PICK d \in RdatasAt(h[dict[n]], t) : x = [name |-> n, type |-> t, rdata |-> d]
      BY <2>1 DEF Of
    <2>3. d \in Held(h, dict, n, t)
      BY <2>1, <2>2 DEF Held
    <2>4. d \in Rdatas
      BY <2>3, HeldTyped
    <2> QED BY <2>2, <2>3, <2>4 DEF RecordsOf, Triples
  <1>2. ASSUME NEW x \in RecordsOf(h, dict) PROVE x \in U
    <2>1. x \in Triples /\ x.rdata \in Held(h, dict, x.name, x.type)
      BY DEF RecordsOf
    <2>2. dict[x.name] # None /\ x.rdata \in RdatasAt(h[dict[x.name]], x.type)
      BY <2>1 DEF Held
    <2>3. x = [name |-> x.name, type |-> x.type, rdata |-> x.rdata]
          /\ x.name \in Names /\ x.type \in Types
      BY <2>1 DEF Triples
    <2>4. x \in Of(x.name, x.type, RdatasAt(h[dict[x.name]], x.type))
      BY <2>2, <2>3 DEF Of
    <2> QED BY <2>2, <2>3, <2>4
  <1> QED BY <1>1, <1>2

LEMMA RecordsAre ==
    ASSUME Typed, NEW dict \in Dictionary
    PROVE  Records(dict) = RecordsOf(heap, dict)
  BY UnionIsRecordsOf DEF Records, Typed, Heap

LEMMA RecordsAreAfter ==
    ASSUME Typed'
    PROVE  /\ Records(work)' = RecordsOf(heap', work')
           /\ Records(zone_nodes)' = RecordsOf(heap', zone_nodes')
           /\ \A r \in Readers : Records(snap[r])' = RecordsOf(heap', snap'[r])
PROOF
  <1>1. heap' \in Heap /\ work' \in Dictionary /\ zone_nodes' \in Dictionary
        /\ snap' \in [Readers -> Dictionary]
    BY DEF Typed, Heap
  <1>2. Records(work)' = RecordsOf(heap', work')
    BY <1>1, UnionIsRecordsOf DEF Records
  <1>3. Records(zone_nodes)' = RecordsOf(heap', zone_nodes')
    BY <1>1, UnionIsRecordsOf DEF Records
  <1>4. \A r \in Readers : Records(snap[r])' = RecordsOf(heap', snap'[r])
    BY <1>1, UnionIsRecordsOf DEF Records
  <1> QED BY <1>2, <1>3, <1>4

\* What the zone and the readers hold, when every shared object is kept.
AbstractKept ==
    /\ Records(zone_nodes)' = Records(zone_nodes)
    /\ \A r \in Readers : Records(snap[r])' = Records(snap[r])

LEMMA SharedRecordsKept ==
    ASSUME IInv, IInv', UNCHANGED <<zone_nodes, snap, reading>>, SharedKept
    PROVE  AbstractKept
PROOF
  <1>1. Shared' = Shared
    BY DEF Shared
  <1>2. \A n \in Names : zone_nodes[n] # None => heap'[zone_nodes[n]] = heap[zone_nodes[n]]
    BY <1>1 DEF SharedKept, Shared, InUse, Refs
  <1>3. ASSUME NEW r \in Readers, NEW n \in Names, snap[r][n] # None
        PROVE  heap'[snap[r][n]] = heap[snap[r][n]]
    <2>1. r \in reading
      BY <1>3 DEF IInv, ClosedReaders, NoNodes
    <2>2. snap[r][n] \in Shared
      BY <1>3, <2>1 DEF Shared, InUse, Refs
    <2> QED BY <1>1, <2>2 DEF SharedKept
  <1>4. RecordsOf(heap', zone_nodes) = RecordsOf(heap, zone_nodes)
    BY <1>2 DEF RecordsOf, Held, Triples
  <1>5. \A r \in Readers : RecordsOf(heap', snap[r]) = RecordsOf(heap, snap[r])
    BY <1>3 DEF RecordsOf, Held, Triples
  <1>6. zone_nodes \in Dictionary /\ \A r \in Readers : snap[r] \in Dictionary
    BY DEF IInv, Typed
  <1> QED BY <1>4, <1>5, <1>6, RecordsAre, RecordsAreAfter DEF IInv, AbstractKept

\* What the draft holds, now and after a step.
Draft(n, t) == Held(heap, work, n, t)
DraftAfter(n, t) == Held(heap', work', n, t)

LEMMA DraftAt ==
    ASSUME NEW n \in Names, NEW t \in Types
    PROVE  Draft(n, t) = RdatasAt(NodeAt(n), t)
  BY DEF Draft, Held, NodeAt, RdatasAt, At

\* The rdatas of a node after a removal and after a replacement.
LEMMA RdatasAfter ==
    ASSUME NEW n \in Names, NEW t \in Types, NEW u \in Types, NEW S \in SUBSET Rdatas
    PROVE  /\ RdatasAt(Without(NodeAt(n), t), u) = IF u = t THEN {} ELSE Draft(n, u)
           /\ RdatasAt(Replaced(NodeAt(n), [type |-> t, rdatas |-> S]), u) =
                 IF u = t THEN S
                 ELSE IF Atomic!Excludes(t, u) THEN {} ELSE Draft(n, u)
PROOF
  <1> DEFINE node == NodeAt(n)
  <1> HIDE DEF node
  <1>2. At(Without(node, t), u) = IF u = t THEN {} ELSE At(node, u)
    BY DEF At, Without
  <1>3. RdatasAt(Without(node, t), u) = IF u = t THEN {} ELSE RdatasAt(node, u)
    BY <1>2 DEF RdatasAt
  <1> DEFINE rds == [type |-> t, rdatas |-> S]
  <1>4. rds.type = t /\ rds.rdatas = S
    OBVIOUS
  <1> HIDE DEF rds
  <1>5. KindOf[t] \in {"cname", "regular", "neutral"}
    BY TransactionAssumption
  <1>6. At(Replaced(node, rds), u) =
          IF u = t THEN {rds}
          ELSE IF Atomic!Excludes(t, u) THEN {} ELSE At(node, u)
    BY <1>4, <1>5 DEF At, Replaced, Compatible, Without, Atomic!Excludes
  <1>7. RdatasAt(Replaced(node, rds), u) =
          IF u = t THEN S
          ELSE IF Atomic!Excludes(t, u) THEN {} ELSE RdatasAt(node, u)
    BY <1>4, <1>6 DEF RdatasAt
  <1>8. Draft(n, u) = RdatasAt(node, u)
    BY DraftAt DEF node
  <1> QED BY <1>3, <1>7, <1>8 DEF rds, node

LEMMA WriteDraft ==
    ASSUME IInv, txn # "none", NEW n \in Names, NEW o \in Objs, Cow(n, o),
           NEW node \in SUBSET Rdataset, Good(node), Write(n, o, node)
    PROVE  /\ IInv' /\ AbstractKept
           /\ \A m \in Names, u \in Types :
                 DraftAfter(m, u) = IF m = n THEN RdatasAt(node, u) ELSE Draft(m, u)
PROOF
  <1>1. /\ IInv' /\ SharedKept
        /\ heap'[o] = node
        /\ \A p \in (Shared \cup Refs(work')) \ {o} : heap'[p] = heap[p]
    BY WriteKeeps
  <1>2. AbstractKept
    BY <1>1, SharedRecordsKept DEF Write
  <1>3. work'[n] = o /\ \A m \in Names \ {n} : work'[m] = work[m]
    BY DEF Write, IInv, Typed, Dictionary
  <1>4. \A m \in Names \ {n} : work[m] # o
    BY CowIsOwned
  <1>5. ASSUME NEW m \in Names \ {n}, work[m] # None PROVE heap'[work[m]] = heap[work[m]]
    <2>1. work[m] \in Refs(work')
      BY <1>3, <1>5 DEF Refs
    <2> QED BY <1>1, <1>4, <2>1
  <1>6. o # None
    BY TransactionAssumption
  <1> QED BY <1>1, <1>2, <1>3, <1>5, <1>6 DEF DraftAfter, Draft, Held

LEMMA UnlinkDraft ==
    ASSUME IInv, txn # "none", NEW n \in Names, Unlink(n)
    PROVE  /\ IInv' /\ AbstractKept
           /\ \A m \in Names, u \in Types :
                 DraftAfter(m, u) = IF m = n THEN {} ELSE Draft(m, u)
PROOF
  <1>1. /\ IInv' /\ SharedKept
        /\ \A p \in Shared \cup Refs(work') : heap'[p] = heap[p]
    BY UnlinkKeeps
  <1>2. AbstractKept
    BY <1>1, SharedRecordsKept DEF Unlink
  <1>3. work'[n] = None /\ \A m \in Names \ {n} : work'[m] = work[m]
    BY DEF Unlink, IInv, Typed, Dictionary
  <1>4. ASSUME NEW m \in Names \ {n}, work[m] # None PROVE heap'[work[m]] = heap[work[m]]
    <2>1. work[m] \in Refs(work')
      BY <1>3, <1>4 DEF Refs
    <2> QED BY <1>1, <2>1
  <1> QED BY <1>1, <1>2, <1>3, <1>4 DEF DraftAfter, Draft, Held

\* The same for the two operations of the version.
LEMMA PutDraft ==
    ASSUME IInv, txn # "none", NEW n \in Names, NEW t \in Types,
           NEW S \in SUBSET Rdatas, t \in Single => \A d, e \in S : d = e,
           PutRdataset(n, t, S)
    PROVE  /\ IInv' /\ AbstractKept /\ UNCHANGED <<txn, reading>>
           /\ \A m \in Names, u \in Types :
                 DraftAfter(m, u) =
                   IF m = n THEN IF u = t THEN S
                                 ELSE IF Atomic!Excludes(t, u) THEN {} ELSE Draft(n, u)
                   ELSE Draft(m, u)
PROOF
  <1> DEFINE node == Replaced(NodeAt(n), [type |-> t, rdatas |-> S])
  <1>1. PICK o \in Objs : Cow(n, o) /\ Write(n, o, node)
    BY DEF PutRdataset
  <1>2. node \in SUBSET Rdataset /\ Good(node)
    BY NodesTyped, NodesSound DEF IInv
  <1>3. \A u \in Types : RdatasAt(node, u) =
          IF u = t THEN S ELSE IF Atomic!Excludes(t, u) THEN {} ELSE Draft(n, u)
    BY RdatasAfter
  <1> HIDE DEF node
  <1>4. /\ IInv' /\ AbstractKept
        /\ \A m \in Names, u \in Types :
              DraftAfter(m, u) = IF m = n THEN RdatasAt(node, u) ELSE Draft(m, u)
    BY <1>1, <1>2, WriteDraft
  <1> QED BY <1>1, <1>3, <1>4 DEF Write

LEMMA DeleteDraft ==
    ASSUME IInv, txn # "none", NEW n \in Names, NEW t \in Types, NEW form \in Forms,
           DeleteRdataset(n, t, form)
    PROVE  /\ IInv' /\ AbstractKept /\ UNCHANGED <<txn, reading>>
           /\ \A m \in Names, u \in Types :
                 DraftAfter(m, u) = IF m = n /\ u = t THEN {} ELSE Draft(m, u)
PROOF
  <1> DEFINE node == Without(NodeAt(n), t)
  <1>1. \A u \in Types : RdatasAt(node, u) = IF u = t THEN {} ELSE Draft(n, u)
    BY RdatasAfter
  <1>2. CASE node = {} /\ form = "own"
    <2>1. Unlink(n)
      BY <1>2 DEF DeleteRdataset
    <2>2. \A u \in Types : RdatasAt(node, u) = {}
      BY <1>2 DEF RdatasAt, At
    <2>3. /\ IInv' /\ AbstractKept
          /\ \A m \in Names, u \in Types :
                DraftAfter(m, u) = IF m = n THEN {} ELSE Draft(m, u)
      BY <2>1, UnlinkDraft
    <2>4. UNCHANGED <<txn, reading>>
      BY <2>1 DEF Unlink
    <2> HIDE DEF node
    <2>5. \A u \in Types : u # t => Draft(n, u) = {}
      BY <1>1, <2>2
    <2> QED BY <2>3, <2>4, <2>5
  <1>3. CASE ~(node = {} /\ form = "own")
    <2>1. PICK o \in Objs : Cow(n, o) /\ Write(n, o, node)
      BY <1>3 DEF DeleteRdataset
    <2>2. node \in SUBSET Rdataset /\ Good(node)
      BY <1>3, NodesTyped, NodesSound DEF IInv, Good, Forms
    <2> HIDE DEF node
    <2>3. /\ IInv' /\ AbstractKept
          /\ \A m \in Names, u \in Types :
                DraftAfter(m, u) = IF m = n THEN RdatasAt(node, u) ELSE Draft(m, u)
      BY <2>1, <2>2, WriteDraft
    <2> QED BY <1>1, <2>1, <2>3 DEF Write
  <1> QED BY <1>2, <1>3

-----------------------------------------------------------------------------
(* Every step is a step of AtomicZone or changes none of its variables.    *)

LEMMA DraftRecords ==
    ASSUME IInv, IInv'
    PROVE  /\ Records(work) = {x \in Triples : x.rdata \in Draft(x.name, x.type)}
           /\ Records(work)' = {x \in Triples : x.rdata \in DraftAfter(x.name, x.type)}
PROOF
  <1>1. work \in Dictionary
    BY DEF IInv, Typed
  <1> QED BY <1>1, RecordsAre, RecordsAreAfter DEF IInv, RecordsOf, Draft, DraftAfter

AbstractSeen == [r \in Readers |-> Records(snap[r])]

LEMMA SeenKept ==
    ASSUME AbstractKept
    PROVE  AbstractSeen' = AbstractSeen /\ Records(zone_nodes)' = Records(zone_nodes)
  BY DEF AbstractKept, AbstractSeen

\* A put of the version is a put of the abstract zone.
LEMMA PutImplements ==
    ASSUME IInv, txn # "none", NEW n \in Names, NEW t \in Types, NEW S \in SUBSET Rdatas,
           NEW replace \in BOOLEAN, Input(n, t, S), NEW U \in SUBSET Rdatas,
           U = IF replace \/ (t \in Single /\ S # {}) THEN S ELSE Draft(n, t) \cup S,
           t \in Single => \A d, e \in U : d = e,
           PutRdataset(n, t, U)
    PROVE  Atomic!Put(n, t, S, replace)
PROOF
  <1>1. /\ IInv' /\ AbstractKept /\ UNCHANGED <<txn, reading>>
        /\ \A m \in Names, u \in Types :
              DraftAfter(m, u) =
                IF m = n THEN IF u = t THEN U
                              ELSE IF Atomic!Excludes(t, u) THEN {} ELSE Draft(n, u)
                ELSE Draft(m, u)
    BY PutDraft
  <1> DEFINE displaced == {r \in Records(work) :
                             /\ r.name = n
                             /\ \/ Atomic!Excludes(t, r.type)
                                \/ /\ r.type = t
                                   /\ replace \/ (t \in Single /\ S # {})}
  <1>2. /\ Records(work) = {x \in Triples : x.rdata \in Draft(x.name, x.type)}
        /\ Records(work)' = {x \in Triples : x.rdata \in DraftAfter(x.name, x.type)}
    BY <1>1, DraftRecords
  <1>3. ~Atomic!Excludes(t, t)
    BY DEF Atomic!Excludes
  <1>4. Atomic!Of(n, t, S) = {x \in Triples : x.name = n /\ x.type = t /\ x.rdata \in S}
    BY DEF Atomic!Of, Triples
  <1>5. Records(work)' = (Records(work) \ displaced) \cup Atomic!Of(n, t, S)
    <2>1. ASSUME NEW x \in Triples
          PROVE  x.rdata \in DraftAfter(x.name, x.type) <=>
                   \/ /\ x.rdata \in Draft(x.name, x.type)
                      /\ ~(/\ x.name = n
                           /\ \/ Atomic!Excludes(t, x.type)
                              \/ x.type = t /\ (replace \/ (t \in Single /\ S # {})))
                   \/ x.name = n /\ x.type = t /\ x.rdata \in S
      <3>1. x.name \in Names /\ x.type \in Types
        BY DEF Triples
      <3>2. CASE x.name # n
        BY <1>1, <3>1, <3>2
      <3>3. CASE x.name = n /\ x.type # t
        BY <1>1, <3>1, <3>3
      <3>4. CASE x.name = n /\ x.type = t
        BY <1>1, <1>3, <3>1, <3>4
      <3> QED BY <3>2, <3>3, <3>4
    <2> QED BY <1>2, <1>4, <2>1
  <1>6. /\ S \subseteq RdatasOf[n][t]
        /\ t \in Single => \A d, e \in S : d = e
    BY DEF Input
  <1> QED BY <1>1, <1>5, <1>6, SeenKept DEF Atomic!Put, AbstractSeen

LEMMA RemovalImplements ==
    ASSUME IInv, IInv', txn # "none", AbstractKept, UNCHANGED <<txn, reading>>,
           NEW n \in Names, NEW T \in SUBSET Types, NEW S \in SUBSET Rdatas,
           \A m \in Names, u \in Types :
             DraftAfter(m, u) = IF m = n /\ u \in T THEN Draft(m, u) \ S ELSE Draft(m, u)
    PROVE  Atomic!Delete(n, T, S)
PROOF
  <1>1. /\ Records(work) = {x \in Triples : x.rdata \in Draft(x.name, x.type)}
        /\ Records(work)' = {x \in Triples : x.rdata \in DraftAfter(x.name, x.type)}
    BY DraftRecords
  <1>2. \A x \in Triples : x \in [name : {n}, type : T, rdata : S]
                            <=> x.name = n /\ x.type \in T /\ x.rdata \in S
    BY DEF Triples
  <1>3. \A x \in Triples : x.name \in Names /\ x.type \in Types
    BY DEF Triples
  <1>4. Records(work)' = Records(work) \ [name : {n}, type : T, rdata : S]
    BY <1>1, <1>2, <1>3
  <1> QED BY <1>4, SeenKept DEF Atomic!Delete, AbstractSeen

LEMMA DraftTyped ==
    ASSUME IInv, NEW n \in Names, NEW t \in Types
    PROVE  Draft(n, t) \subseteq Rdatas
  BY HeldTyped DEF Draft, IInv, Typed, Heap

LEMMA DeleteImplements ==
    ASSUME IInv, txn # "none", NEW n \in Names, NEW t \in Types, NEW form \in Forms,
           DeleteRdataset(n, t, form)
    PROVE  Atomic!Delete(n, {t}, Rdatas)
PROOF
  <1>1. /\ IInv' /\ AbstractKept /\ UNCHANGED <<txn, reading>>
        /\ \A m \in Names, u \in Types :
              DraftAfter(m, u) = IF m = n /\ u = t THEN {} ELSE Draft(m, u)
    BY DeleteDraft
  <1>2. \A m \in Names, u \in Types :
          DraftAfter(m, u) = IF m = n /\ u \in {t} THEN Draft(m, u) \ Rdatas ELSE Draft(m, u)
    BY <1>1, DraftTyped
  <1> QED BY <1>1, <1>2, RemovalImplements

LEMMA DeleteNameImplements ==
    ASSUME IInv, txn # "none", NEW n \in Names, NEW exact \in BOOLEAN,
           DeleteNameEffect(n, exact)
    PROVE  Atomic!Delete(n, Types, Rdatas) \/ Untouched
PROOF
  <1>1. CASE Unlink(n)
    <2>1. /\ IInv' /\ AbstractKept
          /\ \A m \in Names, u \in Types :
                DraftAfter(m, u) = IF m = n THEN {} ELSE Draft(m, u)
      BY <1>1, UnlinkDraft
    <2>2. \A m \in Names, u \in Types : DraftAfter(m, u) =
            IF m = n /\ u \in Types THEN Draft(m, u) \ Rdatas ELSE Draft(m, u)
      BY <2>1, DraftTyped
    <2>3. UNCHANGED <<txn, reading>>
      BY <1>1 DEF Unlink
    <2> QED BY <2>1, <2>2, <2>3, RemovalImplements
  <1> QED BY <1>1 DEF DeleteNameEffect, DeleteNode

LEMMA UntouchedStutters == ASSUME Untouched PROVE UNCHANGED Atomic!vars
  BY DEF Untouched, Atomic!vars, Records

\* The rest of an rdataset is put back: nothing else is displaced.
LEMMA PutBackImplements ==
    ASSUME IInv, txn # "none", NEW n \in Names, NEW t \in Types, NEW S \in SUBSET Rdatas,
           Has(NodeAt(n), t), PutRdataset(n, t, RdatasAt(NodeAt(n), t) \ S)
    PROVE  Atomic!Delete(n, {t}, S)
PROOF
  <1> DEFINE left == RdatasAt(NodeAt(n), t) \ S
  <1>1. left \in SUBSET Rdatas
    BY NodesTyped DEF IInv
  <1>2. t \in Single => \A d, e \in left : d = e
    BY SingleAt DEF IInv
  <1>3. left = Draft(n, t) \ S
    BY DraftAt
  <1> HIDE DEF left
  <1>4. PutRdataset(n, t, left)
    BY DEF left
  <1>5. /\ IInv' /\ AbstractKept /\ UNCHANGED <<txn, reading>>
        /\ \A m \in Names, u \in Types :
              DraftAfter(m, u) =
                IF m = n THEN IF u = t THEN left
                              ELSE IF Atomic!Excludes(t, u) THEN {} ELSE Draft(n, u)
                ELSE Draft(m, u)
    BY <1>1, <1>2, <1>4, PutDraft
  <1>6. ASSUME NEW u \in Types, Atomic!Excludes(t, u) PROVE Draft(n, u) = {}
    <2>1. Sound(NodeAt(n))
      BY NodesSound DEF IInv
    <2>2. PICK r \in NodeAt(n) : r.type = t
      BY DEF Has, At
    <2>3. \A s \in NodeAt(n) : s.type # u
      BY <1>6, <2>1, <2>2 DEF Sound, Atomic!Excludes
    <2>4. RdatasAt(NodeAt(n), u) = {}
      BY <2>3 DEF RdatasAt, At
    <2> QED BY <2>4, DraftAt
  <1>7. \A m \in Names, u \in Types :
          DraftAfter(m, u) = IF m = n /\ u \in {t} THEN Draft(m, u) \ S ELSE Draft(m, u)
    BY <1>3, <1>5, <1>6
  <1> QED BY <1>5, <1>7, RemovalImplements

LEMMA CallImplements ==
    ASSUME IInv, NEW n \in Names, CallOn(n)
    PROVE  [Atomic!Next]_Atomic!vars
PROOF
  <1>1. txn # "none"
    BY CallEdits DEF IInv
  <1>2. ASSUME NEW t \in Types, NEW S \in SUBSET Rdatas, Replace(n, t, S)
        PROVE  Atomic!Put(n, t, S, TRUE)
    BY <1>1, <1>2, PutImplements DEF Replace, Input
  <1>3. ASSUME NEW t \in Types, NEW S \in SUBSET Rdatas, Add(n, t, S)
        PROVE  Atomic!Put(n, t, S, FALSE)
    <2> DEFINE U == Union(t, RdatasAt(NodeAt(n), t), S)
    <2>1. U \in SUBSET Rdatas
      BY NodesTyped DEF Union, IInv
    <2>2. t \in Single => \A d, e \in U : d = e
      BY <1>3, SingleAt DEF Add, Input, Union, IInv
    <2>3. U = IF FALSE \/ (t \in Single /\ S # {}) THEN S ELSE Draft(n, t) \cup S
      BY DraftAt DEF Union
    <2>4. PutRdataset(n, t, U) /\ Input(n, t, S)
      BY <1>3 DEF Add
    <2> HIDE DEF U
    <2> QED BY <1>1, <2>1, <2>2, <2>3, <2>4, PutImplements
  <1>4. ASSUME NEW T \in SUBSET Types, NEW S \in SUBSET Rdatas, Atomic!Delete(n, T, S)
        PROVE  Atomic!Next
    BY <1>4 DEF Atomic!Next
  <1>5. ASSUME NEW exact \in BOOLEAN, DeleteNameEffect(n, exact)
        PROVE  [Atomic!Next]_Atomic!vars
    BY <1>1, <1>4, <1>5, DeleteNameImplements, UntouchedStutters
  <1>6. ASSUME NEW t \in Types, NEW form \in Forms, DeleteRdataset(n, t, form)
        PROVE  Atomic!Next
    BY <1>1, <1>4, <1>6, DeleteImplements
  <1>7. ASSUME NEW t \in Types, NEW exact \in BOOLEAN, NEW form \in Forms,
               DeleteType(n, t, exact, form)
        PROVE  [Atomic!Next]_Atomic!vars
    BY <1>6, <1>7, UntouchedStutters DEF DeleteType
  <1>8. ASSUME NEW t \in Types, NEW exact \in BOOLEAN, NEW form \in Forms,
               NEW S \in SUBSET Rdatas, DeleteRdatas(n, t, S, exact, form)
        PROVE  [Atomic!Next]_Atomic!vars
    <2>1. CASE S = {}
      BY <1>5, <1>8, <2>1 DEF DeleteRdatas
    <2>2. CASE S # {}
      <3>1. \/ Untouched \/ DeleteRdataset(n, t, form)
            \/ Has(NodeAt(n), t) /\ PutRdataset(n, t, RdatasAt(NodeAt(n), t) \ S)
        BY <1>8, <2>2 DEF DeleteRdatas, DeleteSome
      <3>2. ASSUME Has(NodeAt(n), t), PutRdataset(n, t, RdatasAt(NodeAt(n), t) \ S)
            PROVE  Atomic!Next
        BY <1>1, <1>4, <3>2, PutBackImplements
      <3> QED BY <1>6, <3>1, <3>2, UntouchedStutters
    <2> QED BY <2>1, <2>2
  <1>9. ASSUME NEW t \in Types, NEW S \in SUBSET Rdatas, NEW b \in BOOLEAN,
               Atomic!Put(n, t, S, b)
        PROVE  Atomic!Next
    BY <1>9 DEF Atomic!Next
  <1>10. ASSUME NEW exact \in BOOLEAN, DeleteName(n, exact)
         PROVE  [Atomic!Next]_Atomic!vars
    BY <1>5, <1>10 DEF DeleteName
  <1>11. ASSUME NEW t \in Types, NEW S \in SUBSET Rdatas, Replace(n, t, S) \/ Add(n, t, S)
         PROVE  Atomic!Next
    BY <1>2, <1>3, <1>9, <1>11
  <1> QED BY <1>7, <1>8, <1>10, <1>11 DEF CallOn

\* The records of a dictionary whose objects keep their contents.
LEMMA SameRecords ==
    ASSUME NEW h \in Heap, NEW k \in Heap, NEW dict \in Dictionary,
           \A n \in Names : dict[n] # None => h[dict[n]] = k[dict[n]]
    PROVE  RecordsOf(h, dict) = RecordsOf(k, dict)
  BY DEF RecordsOf, Held, Triples

LEMMA NothingHeld ==
    ASSUME NEW h
    PROVE  RecordsOf(h, NoNodes) = {}
  BY DEF RecordsOf, Held, NoNodes, Triples

\* The end of a transaction and of a reader: what is in use keeps its contents.
LEMMA InUseRecords ==
    ASSUME IInv, IInv', NEW fr, Settle(heap, fr)
    PROVE  /\ zone_nodes' = zone_nodes => Records(zone_nodes)' = Records(zone_nodes)
           /\ zone_nodes' = work => Records(zone_nodes)' = Records(work)
           /\ \A r \in Readers : snap'[r] = snap[r] => Records(snap[r])' = Records(snap[r])
PROOF
  <1>1. /\ heap \in Heap /\ heap' \in Heap
        /\ zone_nodes' \in Dictionary /\ zone_nodes \in Dictionary /\ work \in Dictionary
        /\ \A r \in Readers : snap[r] \in Dictionary /\ snap'[r] \in Dictionary
    BY DEF IInv, Typed, Heap
  <1>2. \A o \in InUse(zone_nodes', snap', reading', work') \cap Objs : heap'[o] = heap[o]
    BY DEF Settle
  <1>3. \A n \in Names : zone_nodes'[n] # None => heap'[zone_nodes'[n]] = heap[zone_nodes'[n]]
    BY <1>1, <1>2 DEF InUse, Refs, Dictionary
  <1>4. ASSUME NEW r \in Readers, NEW n \in Names, snap'[r][n] # None
        PROVE  heap'[snap'[r][n]] = heap[snap'[r][n]]
    <2>1. r \in reading'
      BY <1>4 DEF IInv, ClosedReaders, NoNodes
    <2>2. snap'[r][n] \in InUse(zone_nodes', snap', reading', work') \cap Objs
      BY <1>1, <1>4, <2>1 DEF InUse, Refs, Dictionary
    <2> QED BY <1>2, <2>2
  <1>5. RecordsOf(heap', zone_nodes') = RecordsOf(heap, zone_nodes')
    BY <1>1, <1>3, SameRecords
  <1>6. \A r \in Readers : RecordsOf(heap', snap'[r]) = RecordsOf(heap, snap'[r])
    BY <1>1, <1>4, SameRecords
  <1>7. /\ Records(zone_nodes)' = RecordsOf(heap, zone_nodes')
        /\ \A r \in Readers : Records(snap[r])' = RecordsOf(heap, snap'[r])
    BY <1>5, <1>6, RecordsAreAfter DEF IInv
  <1>8. /\ Records(zone_nodes) = RecordsOf(heap, zone_nodes)
        /\ Records(work) = RecordsOf(heap, work)
        /\ \A r \in Readers : Records(snap[r]) = RecordsOf(heap, snap[r])
    BY <1>1, RecordsAre DEF IInv
  <1> QED BY <1>7, <1>8

LEMMA EndImplements ==
    ASSUME IInv, IInv', Commit \/ Rollback
    PROVE  Atomic!Commit \/ Atomic!Rollback
PROOF
  <1>1. /\ txn # "none" /\ txn' = "none" /\ work' = NoNodes /\ UNCHANGED <<snap, reading>>
        /\ \E fr : Settle(heap, fr)
    BY DEF Commit, Rollback, Over
  <1>2. /\ zone_nodes' = zone_nodes => Records(zone_nodes)' = Records(zone_nodes)
        /\ zone_nodes' = work => Records(zone_nodes)' = Records(work)
        /\ \A r \in Readers : Records(snap[r])' = Records(snap[r])
    BY <1>1, InUseRecords
  <1>3. AbstractSeen' = AbstractSeen
    BY <1>2 DEF AbstractSeen
  <1>4. Records(work)' = {}
    BY <1>1, RecordsAreAfter, NothingHeld DEF IInv
  <1>5. CASE Rollback
    <2>1. zone_nodes' = zone_nodes
      BY <1>5 DEF Rollback
    <2> QED BY <1>1, <1>2, <1>3, <1>4, <2>1 DEF Atomic!Rollback, AbstractSeen
  <1>6. CASE Commit /\ changed # {}
    <2>1. zone_nodes' = work
      BY <1>6 DEF Commit
    <2> QED BY <1>1, <1>2, <1>3, <1>4, <2>1 DEF Atomic!Commit, AbstractSeen
  <1>7. CASE Commit /\ changed = {}
    <2>1. zone_nodes' = zone_nodes
      BY <1>7 DEF Commit
    <2> QED BY <1>1, <1>2, <1>3, <1>4, <2>1 DEF Atomic!Rollback, AbstractSeen
  <1> QED BY <1>5, <1>6, <1>7

LEMMA BeginImplements ==
    ASSUME IInv, IInv', NEW kind \in {"update", "replace"}, Begin(kind)
    PROVE  Atomic!Begin(kind)
PROOF
  <1>1. UNCHANGED <<heap, zone_nodes, snap, reading>>
    BY DEF Begin
  <1>2. zone_nodes \in Dictionary /\ \A r \in Readers : snap[r] \in Dictionary
    BY DEF IInv, Typed
  <1>3. Records(zone_nodes)' = Records(zone_nodes) /\ AbstractSeen' = AbstractSeen
    BY <1>1 DEF Records, AbstractSeen
  <1>4. Records(work)' = IF kind = "replace" THEN {} ELSE Records(zone_nodes)
    <2>1. Records(work)' = RecordsOf(heap, work')
      BY <1>1, RecordsAreAfter DEF IInv
    <2>2. work' = IF kind = "replace" THEN NoNodes ELSE zone_nodes
      BY DEF Begin
    <2> QED BY <1>2, <2>1, <2>2, NothingHeld, RecordsAre DEF IInv
  <1> QED BY <1>1, <1>3, <1>4 DEF Begin, Atomic!Begin, AbstractSeen

LEMMA OpenImplements ==
    ASSUME IInv, IInv', NEW r \in Readers, OpenReader(r)
    PROVE  Atomic!OpenReader(r)
PROOF
  <1>1. /\ UNCHANGED <<heap, zone_nodes, work, txn>> /\ reading' = reading \cup {r}
        /\ r \notin reading /\ snap' = [snap EXCEPT ![r] = zone_nodes]
    BY DEF OpenReader
  <1>2. Records(zone_nodes)' = Records(zone_nodes) /\ Records(work)' = Records(work)
    BY <1>1 DEF Records
  <1>3. \A q \in Readers : Records(snap[q])' =
          IF q = r THEN Records(zone_nodes) ELSE Records(snap[q])
    <2>1. \A q \in Readers : snap'[q] = IF q = r THEN zone_nodes ELSE snap[q]
      BY <1>1 DEF IInv, Typed
    <2>2. zone_nodes \in Dictionary /\ \A q \in Readers : snap[q] \in Dictionary
      BY DEF IInv, Typed
    <2>3. \A q \in Readers : Records(snap[q])' = RecordsOf(heap, snap'[q])
      BY <1>1, RecordsAreAfter DEF IInv
    <2>4. /\ Records(zone_nodes) = RecordsOf(heap, zone_nodes)
          /\ \A q \in Readers : Records(snap[q]) = RecordsOf(heap, snap[q])
      BY <2>2, RecordsAre DEF IInv
    <2> QED BY <2>1, <2>3, <2>4
  <1>4. AbstractSeen' = [AbstractSeen EXCEPT ![r] = Records(zone_nodes)]
    BY <1>3 DEF AbstractSeen
  <1> QED BY <1>1, <1>2, <1>4 DEF Atomic!OpenReader, AbstractSeen

LEMMA CloseImplements ==
    ASSUME IInv, IInv', NEW r \in Readers, CloseReader(r)
    PROVE  Atomic!CloseReader(r)
PROOF
  <1>1. /\ UNCHANGED <<zone_nodes, work, txn>> /\ reading' = reading \ {r}
        /\ r \in reading /\ snap' = [snap EXCEPT ![r] = NoNodes]
        /\ Settle(heap, frozen)
    BY DEF CloseReader
  <1>2. snap'[r] = NoNodes /\ \A q \in Readers \ {r} : snap'[q] = snap[q]
    BY <1>1 DEF IInv, Typed
  <1>3. /\ Records(zone_nodes)' = Records(zone_nodes)
        /\ \A q \in Readers \ {r} : Records(snap[q])' = Records(snap[q])
    BY <1>1, <1>2, InUseRecords
  <1>4. Records(snap[r])' = {}
    BY <1>2, RecordsAreAfter, NothingHeld DEF IInv
  <1>5. Records(work)' = Records(work)
    <2>1. heap \in Heap /\ heap' \in Heap /\ work \in Dictionary
      BY DEF IInv, Typed, Heap
    <2>2. \A n \in Names : work[n] # None => heap'[work[n]] = heap[work[n]]
      BY <1>1, <2>1 DEF Settle, InUse, Refs, Dictionary
    <2>3. RecordsOf(heap', work) = RecordsOf(heap, work)
      BY <2>1, <2>2, SameRecords
    <2> QED BY <1>1, <2>1, <2>3, RecordsAre, RecordsAreAfter DEF IInv
  <1>6. AbstractSeen' = [AbstractSeen EXCEPT ![r] = {}]
    BY <1>3, <1>4 DEF AbstractSeen
  <1> QED BY <1>1, <1>3, <1>5, <1>6 DEF Atomic!CloseReader, AbstractSeen

\* The copy-on-write transactions implement the atomic transactions: what a
\* draft gains and loses is what the calls promise, a commit publishes all of
\* it, and a reader sees the records of its beginning until its end.
THEOREM Refinement == Spec => ImplementsAtomicZone
PROOF
  <1>1. Init => Atomic!Init
    <2> SUFFICES ASSUME Init PROVE Atomic!Init
      OBVIOUS
    <2>1. \A dict \in {NoNodes} : Records(dict) = {}
      BY DEF Records, NoNodes
    <2> QED BY <2>1 DEF Init, Atomic!Init
  <1>2. IInv /\ IInv' /\ [Next]_vars => [Atomic!Next]_Atomic!vars
    <2> SUFFICES ASSUME IInv, IInv', [Next]_vars PROVE [Atomic!Next]_Atomic!vars
      OBVIOUS
    <2>1. CASE UNCHANGED vars
      BY <2>1 DEF vars, Atomic!vars, Records
    <2>2. ASSUME NEW kind \in {"update", "replace"}, Begin(kind) PROVE Atomic!Next
      BY <2>2, BeginImplements DEF Atomic!Next
    <2>3. CASE Refuse
      BY <2>3, UntouchedStutters DEF Refuse
    <2>4. ASSUME NEW n \in Names, CallOn(n) PROVE [Atomic!Next]_Atomic!vars
      BY <2>4, CallImplements
    <2>5. CASE Commit \/ Rollback
      BY <2>5, EndImplements DEF Atomic!Next
    <2>6. ASSUME NEW r \in Readers, OpenReader(r) \/ CloseReader(r) PROVE Atomic!Next
      BY <2>6, OpenImplements, CloseImplements DEF Atomic!Next
    <2> QED BY <2>1, <2>2, <2>3, <2>4, <2>5, <2>6 DEF Next, CallOn
  <1> QED BY <1>1, <1>2, Invariance, PTL DEF Spec, ImplementsAtomicZone, Atomic!Spec
-----------------------------------------------------------------------------
(* How calls end.                                                          *)

\* The steps that are calls of the write transaction, and the others.
LEMMA NextIs ==
    ASSUME [Next]_vars
    PROVE  \/ UNCHANGED vars
           \/ \E kind \in {"update", "replace"} : Begin(kind)
           \/ Refuse
           \/ \E n \in Names : CallOn(n)
           \/ Commit \/ Rollback
           \/ \E r \in Readers : OpenReader(r) \/ CloseReader(r)
  BY DEF Next, CallOn

LEMMA UntouchedKeeps == ASSUME Untouched PROVE Records(work)' = Records(work)
  BY DEF Untouched, Records

\* No call raises KeyError when names come in the form of the zone.
LEMMA NoKeyError ==
    ASSUME ~OtherForms, NEW n, NEW t, NEW form \in Forms
    PROVE  DeleteError(n, t, form) = "ok"
  BY DEF DeleteError, Forms

\* A call raises before it changes the version, or not at all.
LEMMA FailedCall ==
    ASSUME ~OtherForms, NEW n \in Names, CallOn(n), reply'.error # "ok"
    PROVE  Untouched
PROOF
  <1>1. ASSUME NEW t \in Types, NEW S \in SUBSET Rdatas, Replace(n, t, S) \/ Add(n, t, S)
        PROVE  FALSE
    BY <1>1 DEF Replace, Add, Said, Reply
  <1>2. ASSUME NEW exact \in BOOLEAN, DeleteName(n, exact)
        PROVE  Untouched
    BY <1>2 DEF DeleteName, DeleteNameEffect, DeleteNameError, Said, Reply
  <1>3. ASSUME NEW t \in Types, NEW exact \in BOOLEAN, NEW form \in Forms,
               DeleteType(n, t, exact, form)
        PROVE  Untouched
    BY <1>3, NoKeyError DEF DeleteType, Said, Reply
  <1>4. ASSUME NEW t \in Types, NEW exact \in BOOLEAN, NEW form \in Forms,
               NEW S \in SUBSET Rdatas, DeleteRdatas(n, t, S, exact, form)
        PROVE  Untouched
    <2>1. CASE S = {}
      BY <1>4, <2>1 DEF DeleteRdatas, DeleteNameEffect, DeleteNameError, Reply
    <2>2. CASE S # {}
      BY <1>4, <2>2, NoKeyError DEF DeleteRdatas, DeleteSome, Reply
    <2> QED BY <2>1, <2>2
  <1> QED BY <1>1, <1>2, <1>3, <1>4 DEF CallOn

\* As long as names come in the form of the zone, a call that raises an
\* exception leaves the records of the draft alone: there is nothing to undo
\* in a transaction whose user goes on after an exception
\* (Transaction._delete, WritableVersion.delete_rdataset).
THEOREM FailedCallChangesNothingHolds == ~OtherForms => (Spec => FailedCallChangesNothing)
PROOF
  <1> SUFFICES ASSUME ~OtherForms PROVE Spec => FailedCallChangesNothing
    OBVIOUS
  <1>1. [Next]_vars => [reply'.error # "ok" => Records(work)' = Records(work)]_vars
    <2> SUFFICES ASSUME [Next]_vars, reply'.error # "ok", ~UNCHANGED vars
                 PROVE  Records(work)' = Records(work)
      OBVIOUS
    <2>1. ASSUME NEW kind \in {"update", "replace"}, Begin(kind) PROVE FALSE
      BY <2>1 DEF Begin, Said, Reply
    <2>2. CASE Refuse
      BY <2>2, UntouchedKeeps DEF Refuse
    <2>3. ASSUME NEW n \in Names, CallOn(n) PROVE Records(work)' = Records(work)
      BY <2>3, FailedCall, UntouchedKeeps
    <2>4. CASE Commit \/ Rollback
      BY <2>4 DEF Commit, Rollback, Said, Reply
    <2>5. ASSUME NEW r \in Readers, OpenReader(r) \/ CloseReader(r) PROVE FALSE
      BY <2>5 DEF OpenReader, CloseReader, Said, Reply
    <2> QED BY <2>1, <2>2, <2>3, <2>4, <2>5, NextIs
  <1> QED BY <1>1, PTL DEF Spec, FailedCallChangesNothing

\* The call that is told of missing records deletes what it lists.
ListedGo == /\ reply'.listed \subseteq Records(work)
            /\ Records(work)' = Records(work) \ reply'.listed

LEMMA ExactDelete ==
    ASSUME IInv, txn # "none", NEW n \in Names, NEW t \in Types, NEW form \in Forms,
           NEW S \in SUBSET Rdatas, S # {}, DeleteSome(n, t, S, TRUE, form),
           reply'.error = "ok"
    PROVE  ListedGo
PROOF
  <1> DEFINE left == RdatasAt(NodeAt(n), t) \ S
             gone == [name : {n}, type : {t}, rdata : S]
  <1>1. ~NotExact(n, t, S, TRUE)
    <2> SUFFICES ASSUME NotExact(n, t, S, TRUE) PROVE FALSE
      OBVIOUS
    <2>1. Reply(Call(TRUE), Of(n, t, S), "DeleteNotExact")
      BY DEF DeleteSome
    <2> QED BY <2>1 DEF Reply
  <1>2. Has(NodeAt(n), t) /\ S \subseteq Draft(n, t)
    BY <1>1, DraftAt DEF NotExact
  <1>3. reply'.listed = Of(n, t, S)
    <2>1. \E error : Reply(Call(TRUE), Of(n, t, S), error)
      BY <1>1 DEF DeleteSome
    <2> QED BY <2>1 DEF Reply
  <1>4. Of(n, t, S) = gone
    <2>1. Of(n, t, S) = {x \in Triples : x.name = n /\ x.type = t /\ x.rdata \in S}
      BY DEF Of, Triples
    <2>2. gone = {x \in Triples : x.name = n /\ x.type = t /\ x.rdata \in S}
      BY DEF Triples
    <2> QED BY <2>1, <2>2
  <1>5. IInv'
    <2>1. Edit(n)
      <3>1. \/ DeleteRdataset(n, t, form)
            \/ PutRdataset(n, t, left)
        BY <1>1, <1>2 DEF DeleteSome
      <3>2. left \in SUBSET Rdatas /\ (t \in Single => \A d, e \in left : d = e)
        BY NodesTyped, SingleAt DEF IInv
      <3> QED BY <3>1, <3>2, PutEdits, DeleteEdits DEF IInv
    <2> QED BY <2>1, EditKeeps
  <1>6. /\ Records(work) = {x \in Triples : x.rdata \in Draft(x.name, x.type)}
        /\ Records(work)' = {x \in Triples : x.rdata \in DraftAfter(x.name, x.type)}
    BY <1>5, DraftRecords
  <1>7. gone \subseteq Records(work)
    BY <1>2, <1>6 DEF Triples
  <1>8. Records(work)' = Records(work) \ gone
    <2>1. CASE left # {}
      <3>1. PutRdataset(n, t, left)
        BY <1>1, <1>2, <2>1 DEF DeleteSome
      <3>2. Atomic!Delete(n, {t}, S)
        BY <1>2, <3>1, PutBackImplements
      <3> QED BY <3>2 DEF Atomic!Delete
    <2>2. CASE left = {}
      <3>1. DeleteRdataset(n, t, form)
        BY <1>1, <1>2, <2>2 DEF DeleteSome
      <3>2. Atomic!Delete(n, {t}, Rdatas)
        BY <3>1, DeleteImplements
      <3>3. Records(work)' = Records(work) \ [name : {n}, type : {t}, rdata : Rdatas]
        BY <3>2 DEF Atomic!Delete
      <3>4. Draft(n, t) \subseteq S
        BY <2>2, DraftAt
      <3>5. \A x \in Records(work) : x \in [name : {n}, type : {t}, rdata : Rdatas] => x \in gone
        BY <1>6, <3>4 DEF Triples
      <3>6. gone \subseteq [name : {n}, type : {t}, rdata : Rdatas]
        OBVIOUS
      <3> QED BY <3>3, <3>5, <3>6
    <2> QED BY <2>1, <2>2
  <1> QED BY <1>3, <1>4, <1>7, <1>8 DEF ListedGo

\* A successful delete_exact() found every record it was to delete, and
\* exactly those are gone, whatever else is at the name and in whichever form
\* the name was given (Transaction._delete).
THEOREM ExactDeletesExactlyHolds == Spec => ExactDeletesExactly
PROOF
  <1>1. IInv /\ [Next]_vars =>
          [reply'.call = "delete_exact" /\ reply'.error = "ok" /\ reply'.listed # {}
           => /\ reply'.listed \subseteq Records(work)
              /\ Records(work)' = Records(work) \ reply'.listed]_vars
    <2> SUFFICES ASSUME IInv, [Next]_vars, ~UNCHANGED vars, reply'.call = "delete_exact",
                        reply'.error = "ok", reply'.listed # {}
                 PROVE  ListedGo
      BY DEF ListedGo
    <2>1. ASSUME NEW kind \in {"update", "replace"}, Begin(kind) PROVE FALSE
      BY <2>1 DEF Begin, Said, Reply
    <2>2. CASE Refuse
      BY <2>2 DEF Refuse, Said, Reply
    <2>3. ASSUME NEW n \in Names, CallOn(n) PROVE ListedGo
      <3>1. txn # "none"
        BY <2>3, CallEdits DEF IInv
      <3>2. ASSUME NEW t \in Types, NEW S \in SUBSET Rdatas, Replace(n, t, S) \/ Add(n, t, S)
            PROVE  FALSE
        BY <3>2 DEF Replace, Add, Said, Reply
      <3>3. ASSUME NEW exact \in BOOLEAN, DeleteName(n, exact) PROVE FALSE
        BY <3>3 DEF DeleteName, Said, Reply
      <3>4. ASSUME NEW t \in Types, NEW exact \in BOOLEAN, NEW form \in Forms,
                   DeleteType(n, t, exact, form)
            PROVE  FALSE
        BY <3>4 DEF DeleteType, Said, Reply
      <3>5. ASSUME NEW t \in Types, NEW exact \in BOOLEAN, NEW form \in Forms,
                   NEW S \in SUBSET Rdatas, DeleteRdatas(n, t, S, exact, form)
            PROVE  ListedGo
        <4>1. S # {}
          BY <3>5 DEF DeleteRdatas, Reply
        <4>2. DeleteSome(n, t, S, exact, form)
          BY <3>5, <4>1 DEF DeleteRdatas
        <4>3. exact
          BY <4>2 DEF DeleteSome, Reply, Call
        <4> QED BY <3>1, <4>1, <4>2, <4>3, ExactDelete
      <3> QED BY <2>3, <3>2, <3>3, <3>4, <3>5 DEF CallOn
    <2>4. CASE Commit \/ Rollback
      BY <2>4 DEF Commit, Rollback, Said, Reply
    <2>5. ASSUME NEW r \in Readers, OpenReader(r) \/ CloseReader(r) PROVE FALSE
      BY <2>5 DEF OpenReader, CloseReader, Said, Reply
    <2> QED BY <2>1, <2>2, <2>3, <2>4, <2>5, NextIs
  <1> QED BY <1>1, Invariance, PTL DEF Spec, ExactDeletesExactly
=============================================================================
