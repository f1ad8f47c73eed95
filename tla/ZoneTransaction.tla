--------------------------- MODULE ZoneTransaction ---------------------------
(***************************************************************************)
(* The copy-on-write transactions of dns.zone.Zone and dns.versioned.Zone: *)
(* the nodes dictionary of the zone, of each open reader and of the write  *)
(* transaction map names to node OBJECTS, which the three share until the  *)
(* transaction changes a name.  heap is what each object holds.            *)
(*                                                                         *)
(* A node is a set of rdatasets (type and rdatas); TTLs and the order of   *)
(* the rdatas are left out, a type stands for a (type, covers) pair.  One  *)
(* write transaction is open at a time: VersionedZone shows that the lock  *)
(* of the versioned zone sees to it, and a plain zone asks it of its user. *)
(* An object nobody refers to is collected: its contents become {}.        *)
(***************************************************************************)
EXTENDS Naturals

CONSTANTS Names,            \* owner names, in the form the zone keeps them
          Types, Rdatas,
          RdatasOf,         \* [Names -> [Types -> SUBSET Rdatas]]: a bound, what
                            \* the callers put at a name (a type of none: never)
          Single,           \* the types of which a name has one record
          KindOf,           \* [Types -> {"cname", "regular", "neutral"}]
          Readers,
          Objs,             \* bound: the node objects, a set of numbers
          None,             \* no object: the name is not in the dictionary
          MakeImmutable,    \* is the zone a versioned one?
          EmptyTypes,       \* the types of which a caller may pass an rdataset
                            \* with no rdatas
          OtherForms        \* may a caller name a node in the other form (an
                            \* absolute name in a relativized zone)?

ASSUME TransactionAssumption ==
    /\ Objs \subseteq Nat
    /\ None \notin Objs
    /\ RdatasOf \in [Names -> [Types -> SUBSET Rdatas]]
    /\ Single \subseteq Types
    /\ KindOf \in [Types -> {"cname", "regular", "neutral"}]
    /\ MakeImmutable \in BOOLEAN
    /\ EmptyTypes \subseteq Types
    /\ OtherForms \in BOOLEAN

VARIABLES
    heap,       \* the rdatasets of each node object
    frozen,     \* the objects that are ImmutableVersionedNodes
    zone_nodes, \* zone.nodes
    snap,       \* the nodes of each open reader's version
    reading,    \* the readers that are open
    txn,        \* the write transaction: "none", "update" or "replace"
    work,       \* the nodes of its WritableVersion
    changed,    \* the changed set of its WritableVersion
    reply       \* the last call: a delete call listed records; how it ended

vars == <<heap, frozen, zone_nodes, snap, reading, txn, work, changed, reply>>

Rdataset == [type : Types, rdatas : SUBSET Rdatas]
Dictionary == [Names -> Objs \cup {None}]
NoNodes == [n \in Names |-> None]
Forms == IF OtherForms THEN {"own", "other"} ELSE {"own"}

\* How a call ends: ok, DeleteNotExact, KeyError, or refused before it did
\* anything (a check raised, a name outside the zone, a wrong class).
Errors == {"ok", "DeleteNotExact", "KeyError", "refused"}
Calls == {"other", "delete", "delete_exact", "commit"}
Reply(call, listed, error) ==
    reply' = [call |-> call, listed |-> listed, error |-> error]
Said(error) == Reply("other", {}, error)

-----------------------------------------------------------------------------
(* Nodes                                                                   *)

\* The rdatasets of a node that an arriving rdataset of type t leaves in it.
Compatible(node, t) ==
    CASE KindOf[t] = "cname"   -> {s \in node : KindOf[s.type] # "regular"}
      [] KindOf[t] = "regular" -> {s \in node : KindOf[s.type] # "cname"}
      [] KindOf[t] = "neutral" -> node

Without(node, t) == {s \in node : s.type # t}

\* A bug: the rdataset joins the node as it is.
ReplacedAnyhow(node, s) == Without(node, s.type) \cup {s}

Replaced(node, s) == Compatible(Without(node, s.type), s.type) \cup {s}

At(node, t) == {s \in node : s.type = t}
Has(node, t) == At(node, t) # {}
RdatasAt(node, t) == UNION {s.rdatas : s \in At(node, t)}

Union(t, old, new) == IF t \in Single /\ new # {} THEN new ELSE old \cup new

-----------------------------------------------------------------------------
(* The WritableVersion                                                     *)

Refs(dict) == {dict[n] : n \in Names} \ {None}

InUse(zn, sn, rd, wk) == Refs(zn) \cup Refs(wk) \cup UNION {Refs(sn[r]) : r \in rd}

Used == InUse(zone_nodes, snap, reading, work)

\* Collection: after the step only objects in use keep their contents.
Settle(h, fr) ==
    /\ heap' = [o \in Objs |->
                  IF o \in InUse(zone_nodes', snap', reading', work')
                  THEN h[o] ELSE {}]
    /\ frozen' = fr \cap InUse(zone_nodes', snap', reading', work')

NodeAt(n) == IF work[n] = None THEN {} ELSE heap[work[n]]

\* Which of the unused objects a new node is makes no difference.
IsNew(o) == o \notin Used /\ \A p \in Objs : p < o => p \in Used

\* A bug: a node is copied only when the version does not have it yet.
CowWhenMissing(n, o) == IF work[n] = None THEN IsNew(o) ELSE o = work[n]

\* o is the object whose contents the version may change for n.
Cow(n, o) ==
    IF work[n] = None \/ n \notin changed THEN IsNew(o) ELSE o = work[n]

\* The version makes the node of n hold the given rdatasets.
Write(n, o, node) ==
    /\ work' = [work EXCEPT ![n] = o]
    /\ changed' = changed \cup {n}
    /\ UNCHANGED <<zone_nodes, snap, reading, txn>>
    /\ Settle([heap EXCEPT ![o] = node], frozen)

Unlink(n) ==
    /\ work' = [work EXCEPT ![n] = None]
    /\ changed' = changed \cup {n}
    /\ UNCHANGED <<zone_nodes, snap, reading, txn>>
    /\ Settle(heap, frozen)

Untouched == UNCHANGED <<heap, frozen, zone_nodes, snap, reading, txn, work, changed>>

DeleteNode(n) == IF work[n] = None THEN Untouched ELSE Unlink(n)

PutRdataset(n, t, S) ==
    \E o \in Objs :
        /\ Cow(n, o)
        /\ Write(n, o, Replaced(NodeAt(n), [type |-> t, rdatas |-> S]))

\* A bug: a node that has become empty stays in the version.
DeleteRdatasetLeavesNode(n, t, form) ==
    \E o \in Objs : Cow(n, o) /\ Write(n, o, Without(NodeAt(n), t))

\* The node loses type t, and the version loses a node that holds nothing;
\* "del self.nodes[name]" uses the caller's form of the name.
DeleteRdataset(n, t, form) ==
    IF Without(NodeAt(n), t) = {} /\ form = "own"
    THEN Unlink(n)
    ELSE \E o \in Objs : Cow(n, o) /\ Write(n, o, Without(NodeAt(n), t))

DeleteError(n, t, form) ==
    IF Without(NodeAt(n), t) = {} /\ form = "other" THEN "KeyError" ELSE "ok"

-----------------------------------------------------------------------------
(* The calls of a Transaction                                              *)

Init ==
    /\ heap = [o \in Objs |-> {}]
    /\ frozen = {}
    /\ zone_nodes = NoNodes
    /\ snap = [r \in Readers |-> NoNodes]
    /\ reading = {}
    /\ txn = "none"
    /\ work = NoNodes
    /\ changed = {}
    /\ reply = [call |-> "other", listed |-> {}, error |-> "ok"]

\* The rdatasets a caller can make.
Input(n, t, S) ==
    /\ RdatasOf[n][t] # {}
    /\ S \subseteq RdatasOf[n][t]
    /\ S = {} => t \in EmptyTypes
    /\ t \in Single => \A d, e \in S : d = e

Begin(kind) ==
    /\ txn = "none"
    /\ txn' = kind
    /\ work' = IF kind = "replace" THEN NoNodes ELSE zone_nodes
    /\ changed' = {}
    /\ Said("ok")
    /\ UNCHANGED <<heap, frozen, zone_nodes, snap, reading>>

Refuse ==
    /\ txn # "none"
    /\ Said("refused")
    /\ Untouched

Replace(n, t, S) ==
    /\ txn # "none"
    /\ Input(n, t, S)
    /\ PutRdataset(n, t, S)
    /\ Said("ok")

Add(n, t, S) ==
    /\ txn # "none"
    /\ Input(n, t, S)
    /\ PutRdataset(n, t, Union(t, RdatasAt(NodeAt(n), t), S))
    /\ Said("ok")

\* What delete(name) does, and how it ends.
NameMissing(n, exact) == exact /\ work[n] = None
DeleteNameEffect(n, exact) == IF NameMissing(n, exact) THEN Untouched ELSE DeleteNode(n)
DeleteNameError(n, exact) == IF NameMissing(n, exact) THEN "DeleteNotExact" ELSE "ok"

DeleteName(n, exact) ==
    /\ txn # "none"
    /\ DeleteNameEffect(n, exact)
    /\ Said(DeleteNameError(n, exact))

DeleteType(n, t, exact, form) ==
    /\ txn # "none"
    /\ IF Has(NodeAt(n), t)
       THEN DeleteRdataset(n, t, form) /\ Said(DeleteError(n, t, form))
       ELSE Untouched /\ Said(IF exact THEN "DeleteNotExact" ELSE "ok")

Of(n, t, S) == {[name |-> n, type |-> t, rdata |-> d] : d \in S}
Call(exact) == IF exact THEN "delete_exact" ELSE "delete"

\* Some of the given rdatas are missing and the caller wants to know.
NotExact(n, t, S, exact) == exact /\ ~(Has(NodeAt(n), t) /\ S \subseteq RdatasAt(NodeAt(n), t))

\* A bug: what there is to delete is deleted before the comparison.
DeleteSomeFirst(n, t, S, exact, form) ==
    LET left == RdatasAt(NodeAt(n), t) \ S
        error == IF NotExact(n, t, S, exact) THEN "DeleteNotExact"
                 ELSE DeleteError(n, t, form)
    IN /\ IF ~Has(NodeAt(n), t) THEN Untouched
          ELSE IF left = {} THEN DeleteRdataset(n, t, form)
          ELSE PutRdataset(n, t, left)
       /\ Reply(Call(exact), Of(n, t, S), error)

\* The given rdatas go; the rest of the rdataset, if any, is put back.
DeleteSome(n, t, S, exact, form) ==
    LET left == RdatasAt(NodeAt(n), t) \ S
    IN IF NotExact(n, t, S, exact)
       THEN Untouched /\ Reply(Call(exact), Of(n, t, S), "DeleteNotExact")
       ELSE IF ~Has(NodeAt(n), t)
       THEN Untouched /\ Reply(Call(exact), Of(n, t, S), "ok")
       ELSE IF left = {}
       THEN /\ DeleteRdataset(n, t, form)
            /\ Reply(Call(exact), Of(n, t, S), DeleteError(n, t, form))
       ELSE /\ PutRdataset(n, t, left)
            /\ Reply(Call(exact), Of(n, t, S), "ok")

\* An rdataset that is empty is false, and false means the whole name.
DeleteRdatas(n, t, S, exact, form) ==
    /\ txn # "none"
    /\ Input(n, t, S)
    /\ IF S = {}
       THEN /\ DeleteNameEffect(n, exact)
            /\ Reply(Call(exact), {}, DeleteNameError(n, exact))
       ELSE DeleteSome(n, t, S, exact, form)

Over == /\ txn' = "none"
        /\ work' = NoNodes
        /\ changed' = {}

\* The nodes that the immutable version replaces by immutable ones.
\* A bug: a node the version has just created is taken for immutable.
FrozenIfCopied == {work[n] : n \in {m \in changed : NodeAt(m) # {} /\ zone_nodes[m] # None}}

Frozen == {work[n] : n \in {m \in changed : NodeAt(m) # {}}}

\* A transaction that changed nothing ends like a rollback.
Commit ==
    /\ txn # "none"
    /\ zone_nodes' = IF changed = {} THEN zone_nodes ELSE work
    /\ Over
    /\ UNCHANGED <<snap, reading>>
    /\ Settle(heap, IF MakeImmutable THEN frozen \cup Frozen ELSE frozen)
    /\ Reply("commit", {}, "ok")

Rollback ==
    /\ txn # "none"
    /\ Over
    /\ UNCHANGED <<zone_nodes, snap, reading>>
    /\ Settle(heap, frozen)
    /\ Said("ok")

OpenReader(r) ==
    /\ r \notin reading
    /\ reading' = reading \cup {r}
    /\ snap' = [snap EXCEPT ![r] = zone_nodes]
    /\ UNCHANGED <<heap, frozen, zone_nodes, txn, work, changed>>
    /\ Said("ok")

CloseReader(r) ==
    /\ r \in reading
    /\ reading' = reading \ {r}
    /\ snap' = [snap EXCEPT ![r] = NoNodes]
    /\ UNCHANGED <<zone_nodes, txn, work, changed>>
    /\ Settle(heap, frozen)
    /\ Said("ok")

Next ==
    \/ \E kind \in {"update", "replace"} : Begin(kind)
    \/ Refuse
    \/ \E n \in Names, t \in Types, S \in SUBSET Rdatas :
          Replace(n, t, S) \/ Add(n, t, S)
    \/ \E n \in Names, exact \in BOOLEAN : DeleteName(n, exact)
    \/ \E n \in Names, t \in Types, exact \in BOOLEAN, form \in Forms :
          \/ DeleteType(n, t, exact, form)
          \/ \E S \in SUBSET Rdatas : DeleteRdatas(n, t, S, exact, form)
    \/ Commit
    \/ Rollback
    \/ \E r \in Readers : OpenReader(r) \/ CloseReader(r)

Spec == Init /\ [][Next]_vars

-----------------------------------------------------------------------------
(* Properties                                                              *)

Records(dict) ==
    UNION {Of(n, t, RdatasAt(heap[dict[n]], t)) :
              n \in {m \in Names : dict[m] # None}, t \in Types}

\* Every variable has its type.
TypeOK ==
    /\ heap \in [Objs -> SUBSET Rdataset]
    /\ frozen \subseteq Objs
    /\ zone_nodes \in Dictionary
    /\ snap \in [Readers -> Dictionary]
    /\ reading \subseteq Readers
    /\ txn \in {"none", "update", "replace"}
    /\ work \in Dictionary
    /\ changed \subseteq Names
    /\ reply.call \in Calls /\ reply.error \in Errors

\* A node object that the zone or a reader refers to never changes, however
\* many versions share it: copy on write copies before every first change.
SharedNodesConstant ==
    [][\A o \in InUse(zone_nodes, snap, reading, NoNodes)
             \cap InUse(zone_nodes', snap', reading', NoNodes) :
           heap'[o] = heap[o]]_vars

\* What the commit would throw away as "nothing changed" is what the zone
\* holds already: outside the changed names an update works on the zone's
\* own nodes, a replacement on none.
ChangedIsComplete ==
    txn # "none" =>
        \A n \in Names \ changed :
            work[n] = IF txn = "update" THEN zone_nodes[n] ELSE None

\* In every node there is at most one rdataset of a type, no CNAME beside
\* other data, no second record of a single type, and the node holds
\* something.
WellFormed(node) ==
    /\ node # {}
    /\ \A r, s \in node :
          /\ r.type = s.type => r = s
          /\ ~(KindOf[r.type] = "cname" /\ KindOf[s.type] = "regular")
    /\ \A s \in node : s.type \in Single => \A d, e \in s.rdatas : d = e

NodesWellFormed == \A o \in Used : WellFormed(heap[o])

\* Every node that a versioned zone or its readers show is immutable.
PublishedIsImmutable ==
    MakeImmutable => InUse(zone_nodes, snap, reading, NoNodes) \subseteq frozen

\* Whatever sequence of calls leads there, nodes are well formed and what has
\* been published is frozen, also the nodes of names whose change a later call
\* of the transaction made again or took back.
PublishedIsSound == NodesWellFormed /\ PublishedIsImmutable

\* A call that raises an exception leaves the records of the draft alone.
FailedCallChangesNothing ==
    [][reply'.error # "ok" => Records(work)' = Records(work)]_vars

\* A successful delete_exact() found every record it was to delete, and
\* exactly those are gone.
ExactDeletesExactly ==
    [][reply'.call = "delete_exact" /\ reply'.error = "ok" /\ reply'.listed # {}
        => /\ reply'.listed \subseteq Records(work)
           /\ Records(work)' = Records(work) \ reply'.listed]_vars

\* The transactions of the code are the atomic transactions of AtomicZone.
Atomic == INSTANCE AtomicZone WITH
    Regular <- {t \in Types : KindOf[t] = "regular"},
    CName <- {t \in Types : KindOf[t] = "cname"},
    committed <- Records(zone_nodes),
    draft <- Records(work),
    phase <- txn,
    seen <- [r \in Readers |-> Records(snap[r])]

ImplementsAtomicZone == Atomic!Spec

\* transaction.py on _delete_rdataset(): it is not an error if there is
\* nothing to delete; zone.py: a name may be given in either form.
EitherFormWorks == reply.error # "KeyError"
=============================================================================
