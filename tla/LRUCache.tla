------------------------------- MODULE LRUCache -------------------------------
(***************************************************************************)
(* dns.resolver.LRUCache: a dictionary of nodes that a doubly linked ring  *)
(* through a sentinel keeps in the order of their last use, shared by      *)
(* threads under one lock.                                                 *)
(*                                                                         *)
(* A body of "with self.lock" is one step, but for put(): set_max_size()   *)
(* does not take the lock, so the evictions of put() are steps of their    *)
(* own and the size may change between them.  An answer is opaque but for  *)
(* the time it expires.  The counters of hits and misses are left out.     *)
(***************************************************************************)
EXTENDS Integers, FiniteSets

CONSTANTS Keys,
          Answers,      \* answers a caller puts
          Lifetime,     \* [Answers -> times]: the time each expires
          Cells,        \* bound: the node objects, with the sentinel
          Sentinel,
          None,
          MaxSize,      \* bound: the largest max_size a caller sets
          EndOfTime     \* bound: the clock stops there

ASSUME CacheAssumption ==
    /\ Sentinel \in Cells
    /\ None \notin Cells \cup Keys \cup Answers
    /\ Lifetime \in [Answers -> Int]
    /\ MaxSize \in Nat \ {0}
    /\ EndOfTime \in Nat

VARIABLES data,         \* the dictionary: the node of each key
          prev, next,   \* the links of each node object
          node,         \* the key and the answer in each node object
          max_size,
          now,          \* time.time()
          putting,      \* the put() that holds the lock, or None
          reply         \* what the last get() returned

ring == <<prev, next>>
vars == <<data, ring, node, max_size, now, putting, reply>>

NoEntry == [key |-> None, value |-> None]
Entries == [key : Keys, value : Answers]
InUse == {data[k] : k \in Keys} \ {None}
Size == Cardinality(InUse)
Expired(n) == Lifetime[node[n].value] <= now
Free == putting = NoEntry       \* nobody holds the lock

-----------------------------------------------------------------------------
(* LRUCacheNode                                                            *)

\* p and x are the links, n is linked in after c.
LinkAfter(p, x, n, c) ==
    /\ prev' = [p EXCEPT ![n] = c, ![x[c]] = n]
    /\ next' = [x EXCEPT ![n] = x[c], ![c] = n]

UnlinkedPrev(n) == [prev EXCEPT ![next[n]] = prev[n]]
UnlinkedNext(n) == [next EXCEPT ![prev[n]] = next[n]]
Unlink(n) == prev' = UnlinkedPrev(n) /\ next' = UnlinkedNext(n)

-----------------------------------------------------------------------------
(* LRUCache                                                                *)

\* An expired answer is removed and missed; another one moves to the front.
Get(k) ==
    /\ Free
    /\ IF data[k] = None
       THEN reply' = None /\ UNCHANGED <<data, ring>>
       ELSE IF Expired(data[k])
       THEN /\ Unlink(data[k])
            /\ data' = [data EXCEPT ![k] = None]
            /\ reply' = None
       ELSE /\ LinkAfter(UnlinkedPrev(data[k]), UnlinkedNext(data[k]), data[k], Sentinel)
            /\ reply' = node[data[k]].value
            /\ UNCHANGED data
    /\ UNCHANGED <<node, max_size, now, putting>>

Drop(k) ==
    IF data[k] = None THEN UNCHANGED <<data, ring>>
    ELSE Unlink(data[k]) /\ data' = [data EXCEPT ![k] = None]

PutBegin(k, v) ==
    /\ Free
    /\ Drop(k)
    /\ putting' = [key |-> k, value |-> v]
    /\ UNCHANGED <<node, max_size, now, reply>>

\* A bug: the node used last is evicted.
Newest == next[Sentinel]

Oldest == prev[Sentinel]

\* A bug: what is unlinked stays in the dictionary.
EvictFromRing ==
    /\ ~Free
    /\ Size >= max_size
    /\ Unlink(Oldest)
    /\ UNCHANGED <<data, node, max_size, now, putting, reply>>

Evict ==
    /\ ~Free
    /\ Size >= max_size
    /\ Unlink(Oldest)
    /\ data' = [data EXCEPT ![node[Oldest].key] = None]
    /\ UNCHANGED <<node, max_size, now, putting, reply>>

PutEnd(n) ==
    /\ ~Free
    /\ Size < max_size
    /\ n \notin InUse \cup {Sentinel}
    /\ node' = [node EXCEPT ![n] = putting]
    /\ LinkAfter(prev, next, n, Sentinel)
    /\ data' = [data EXCEPT ![putting.key] = n]
    /\ putting' = NoEntry
    /\ UNCHANGED <<max_size, now, reply>>

FlushKey(k) ==
    /\ Free
    /\ Drop(k)
    /\ UNCHANGED <<node, max_size, now, putting, reply>>

\* Every node is unlinked in turn, which leaves the sentinel on its own.
FlushAll ==
    /\ Free
    /\ prev' = [prev EXCEPT ![Sentinel] = Sentinel]
    /\ next' = [next EXCEPT ![Sentinel] = Sentinel]
    /\ data' = [k \in Keys |-> None]
    /\ UNCHANGED <<node, max_size, now, putting, reply>>

\* Without the lock; a size below one is taken for one.
SetMaxSize(n) ==
    /\ max_size' = IF n < 1 THEN 1 ELSE n
    /\ UNCHANGED <<data, ring, node, now, putting, reply>>

Tick ==
    /\ now < EndOfTime
    /\ now' = now + 1
    /\ UNCHANGED <<data, ring, node, max_size, putting, reply>>

Init ==
    /\ data = [k \in Keys |-> None]
    /\ prev = [c \in Cells |-> c]
    /\ next = [c \in Cells |-> c]
    /\ node = [c \in Cells |-> NoEntry]
    /\ max_size \in 1 .. MaxSize
    /\ now = 0
    /\ putting = NoEntry
    /\ reply = None

Next ==
    \/ \E k \in Keys : Get(k) \/ FlushKey(k)
    \/ \E k \in Keys, v \in Answers : PutBegin(k, v)
    \/ Evict
    \/ \E n \in Cells : PutEnd(n)
    \/ FlushAll
    \/ \E n \in 0 .. MaxSize : SetMaxSize(n)
    \/ Tick

Spec == Init /\ [][Next]_vars

\* Scheduling: the thread that holds the lock goes on.
Fairness == WF_vars(Evict \/ \E n \in Cells : PutEnd(n))

FairSpec == Spec /\ Fairness

-----------------------------------------------------------------------------
(* Properties                                                              *)

\* Every variable has its type.
TypeOK ==
    /\ data \in [Keys -> Cells \cup {None}]
    /\ prev \in [Cells -> Cells] /\ next \in [Cells -> Cells]
    /\ node \in [Cells -> Entries \cup {NoEntry}]
    /\ max_size \in 1 .. MaxSize
    /\ now \in Nat
    /\ putting \in Entries \cup {NoEntry}
    /\ reply \in Answers \cup {None}

\* The links lead from nodes of the dictionary to such nodes, and back.
LinksAreInverse ==
    \A n \in InUse \cup {Sentinel} :
        /\ next[n] \in InUse \cup {Sentinel} /\ prev[next[n]] = n
        /\ prev[n] \in InUse \cup {Sentinel} /\ next[prev[n]] = n

\* The nodes one meets along the links x from the sentinel on, m of them.
Walk(x, m) == LET at[i \in 0 .. m] == IF i = 0 THEN Sentinel ELSE x[at[i - 1]]
              IN at
Order == LET at == Walk(next, Size)
         IN [i \in 1 .. Size |-> node[at[i]]]

\* No entry is lost, stale when returned or evicted out of turn: the ring and
\* the dictionary are a list of entries in the order of their last use.
Recency == INSTANCE RecencyList WITH
    Values <- Answers,
    Sizes <- 1 .. MaxSize,
    Miss <- None,
    pending <- putting,
    stale <- {v \in Answers : Lifetime[v] <= now},
    order <- Order

ImplementsRecencyList == Recency!Spec

\* However the size is set meanwhile, put() does not loop forever.
PutReturns == ~Free ~> Free
=============================================================================
