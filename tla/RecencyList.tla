----------------------------- MODULE RecencyList -----------------------------
(***************************************************************************)
(* What an LRU cache promises: a list of entries in the order of their     *)
(* last use.  A get returns what was put last, if that is not stale, and   *)
(* moves it to the front; nothing is dropped but stale entries, what the   *)
(* user flushes or overwrites, and, by a put into a full list, the entry   *)
(* that was not used for longest.                                          *)
(***************************************************************************)
EXTENDS SequencesExt, Naturals

CONSTANTS Keys, Values, Sizes, Miss

VARIABLES order,        \* the entries [key, value], the last one used first
          pending,      \* the entry that is being put
          max_size,
          stale,        \* the values that have expired
          reply         \* what the last get returned

vars == <<order, pending, max_size, stale, reply>>

Entry(k, v) == [key |-> k, value |-> v]
Nothing == Entry(Miss, Miss)

\* A key has one entry at most.
Has(k) == \E i \in DOMAIN order : order[i].key = k
Place(k) == CHOOSE i \in DOMAIN order : order[i].key = k
Without(k) == IF Has(k) THEN RemoveAt(order, Place(k)) ELSE order

Init == /\ order = <<>>
        /\ pending = Nothing
        /\ max_size \in Sizes
        /\ stale \subseteq Values
        /\ reply = Miss

Hit(k, v) == /\ pending = Nothing
             /\ Has(k) /\ order[Place(k)] = Entry(k, v)
             /\ v \notin stale
             /\ order' = <<Entry(k, v)>> \o Without(k)
             /\ reply' = v
             /\ UNCHANGED <<pending, max_size, stale>>

MissOf(k) == /\ pending = Nothing
             /\ Has(k) => order[Place(k)].value \in stale
             /\ order' = Without(k)
             /\ reply' = Miss
             /\ UNCHANGED <<pending, max_size, stale>>

Put(k, v) == /\ pending = Nothing
             /\ pending' = Entry(k, v)
             /\ order' = Without(k)
             /\ UNCHANGED <<max_size, stale, reply>>

Evict == /\ pending # Nothing
         /\ Len(order) >= max_size
         /\ order # <<>>
         /\ order' = Front(order)
         /\ UNCHANGED <<pending, max_size, stale, reply>>

Insert == /\ pending # Nothing
          /\ Len(order) < max_size
          /\ order' = <<pending>> \o order
          /\ pending' = Nothing
          /\ UNCHANGED <<max_size, stale, reply>>

Flush(k) == /\ pending = Nothing
            /\ order' = Without(k)
            /\ UNCHANGED <<pending, max_size, stale, reply>>

Clear == /\ pending = Nothing
         /\ order' = <<>>
         /\ UNCHANGED <<pending, max_size, stale, reply>>

Resize(n) == max_size' = n /\ UNCHANGED <<order, pending, stale, reply>>

Age(V) == /\ stale \subseteq V
          /\ stale' = V
          /\ UNCHANGED <<order, pending, max_size, reply>>

Next == \/ \E k \in Keys, v \in Values : Hit(k, v) \/ Put(k, v)
        \/ \E k \in Keys : MissOf(k) \/ Flush(k)
        \/ Clear
        \/ Evict
        \/ Insert
        \/ \E n \in Sizes : Resize(n)
        \/ \E V \in SUBSET Values : Age(V)

Spec == Init /\ [][Next]_vars
=============================================================================
