----------------------------- MODULE ValuesProofs -----------------------------
(***************************************************************************)
(* What holds of the components without threads or peers: the serial of a  *)
(* zone for serials of every width, the cache of answers for every set of  *)
(* keys, answers and node objects, the dictionary of names for names of    *)
(* every length, and the neighbours of a name for labels, names and octets *)
(* of every size.                                                          *)
(***************************************************************************)
EXTENDS SoaSerial, LRUCache, NameDict, NameOrder, WellFoundedInduction, FiniteSetTheorems, SequenceTheorems, TLAPS

-----------------------------------------------------------------------------
(* Arithmetic on the circle                                                *)

LEMMA ModulusFacts == Half \in Nat /\ Half >= 1 /\ Modulus \in Nat /\ Modulus = Half + Half /\ Modulus > 0
  BY SerialAssumption DEF Modulus

\* Reduction of a number less than once around in either direction.
LEMMA Reduce ==
    ASSUME NEW n \in Int
    PROVE  /\ 0 <= n /\ n < Modulus => n % Modulus = n
           /\ Modulus <= n /\ n < Modulus + Modulus => n % Modulus = n - Modulus
           /\ -Modulus <= n /\ n < 0 => n % Modulus = n + Modulus
           /\ n % Modulus \in Serials
  BY ModulusFacts DEF Serials

\* Addition of what __add__ accepts, from 0 up.
LEMMA AddIs ==
    ASSUME NEW a \in Serials, NEW v \in Nat, v < Half
    PROVE  Add(a, v) = IF a + v < Modulus THEN a + v ELSE a + v - Modulus
<1>1. a + v \in Int /\ 0 <= a + v /\ a + v < Modulus + Modulus
  BY ModulusFacts DEF Serials
<1> QED
  BY <1>1, Reduce, ModulusFacts DEF Add, Serials

LEMMA SubIs ==
    ASSUME NEW a \in Serials, NEW b \in Serials
    PROVE  Sub(b, a) = IF a <= b THEN b - a ELSE b - a + Modulus
<1>1. b - a \in Int /\ -Modulus <= b - a /\ b - a < Modulus
  BY ModulusFacts DEF Serials
<1> QED
  BY <1>1, Reduce, ModulusFacts DEF Sub, Serials

\* The comparisons of the code are those of the RFC.
LEMMA ComparisonIsRFC ==
    ASSUME NEW a \in Serials, NEW b \in Serials
    PROVE  (Lt(a, b) <=> Ahead(a, b)) /\ (Gt(a, b) <=> Ahead(b, a))
  BY SubIs, ModulusFacts DEF Lt, Gt, Ahead, Serials

-----------------------------------------------------------------------------
(* update_serial()                                                         *)

\* Where an accepted increment leads.
LEMMA IncrementedSerial ==
    ASSUME NEW a \in Serials, NEW v \in Nat, v < Half
    PROVE  /\ AvoidZero(Add(a, v)) \in Serials \ {0}
           /\ ~Lt(AvoidZero(Add(a, v)), a)
           /\ v \in 1 .. Half - 2 => Gt(AvoidZero(Add(a, v)), a)
<1>1. Add(a, v) = IF a + v < Modulus THEN a + v ELSE a + v - Modulus
  BY AddIs
<1> HIDE DEF Add
<1> QED
  BY <1>1, ModulusFacts DEF AvoidZero, Lt, Gt, Serials

\* Only update_serial() sets the serial, to what it computes.
LEMMA SerialStep ==
    ASSUME SoaTypeOK, [SoaNext]_soaVars
    PROVE  /\ SoaTypeOK'
           /\ serial' # serial => serial' # 0
           /\ call'.mode = "relative" => ~Lt(serial', serial)
           /\ copied' = copied /\ call'.mode = "relative" /\ call'.value \in 1 .. Half - 2
                => Gt(serial', serial) \/ UNCHANGED soaVars
<1>0. ~Lt(serial, serial)
  BY ModulusFacts DEF Lt, SoaTypeOK, Serials
<1>1. ASSUME NEW value \in -1 .. MaxValue, NEW mode \in Modes, UpdateSerial(value, mode)
      PROVE  /\ SoaTypeOK'
             /\ serial' # serial => serial' # 0
             /\ call'.mode = "relative" => ~Lt(serial', serial)
             /\ call'.mode = "relative" /\ call'.value \in 1 .. Half - 2
                  => Gt(serial', serial)
  <2>0. /\ value \in Int /\ call'.mode = mode /\ call'.value = value
        /\ call' \in [mode : Modes, value : Int, raised : BOOLEAN]
        /\ copied' = copied
    BY <1>1, SoaSerialAssumption DEF UpdateSerial, Refused
  <2>1. CASE Refused(value, mode)
    <3>1. serial' = serial
      BY <1>1, <2>1 DEF UpdateSerial
    <3>2. ~(mode = "relative" /\ value \in 1 .. Half - 2)
      BY <2>1, ModulusFacts DEF Refused, CanAdd
    <3> QED
      BY <1>0, <2>0, <3>1, <3>2 DEF SoaTypeOK
  <2>2. CASE ~Refused(value, mode) /\ mode = "relative"
    <3>1. value \in Nat /\ value < Half
      BY <2>0, <2>2, ModulusFacts DEF Refused, CanAdd
    <3>2. serial' = AvoidZero(Add(serial, value))
      BY <1>1, <2>2 DEF UpdateSerial
    <3> QED
      BY <2>0, <3>1, <3>2, IncrementedSerial DEF SoaTypeOK
  <2>3. CASE ~Refused(value, mode) /\ mode # "relative"
    <3>1. serial' = AvoidZero(value % Modulus)
      BY <1>1, <2>3 DEF UpdateSerial
    <3>2. value % Modulus \in Serials
      BY <2>0, Reduce
    <3>3. serial' \in Serials \ {0}
      BY <3>1, <3>2, ModulusFacts DEF AvoidZero, Serials
    <3> QED
      BY <2>0, <2>3, <3>3 DEF SoaTypeOK
  <2> QED
    BY <2>1, <2>2, <2>3
<1>2. CASE Refresh
  BY <1>0, <1>2 DEF Refresh, SoaTypeOK
<1>3. CASE UNCHANGED soaVars
  BY <1>0, <1>3 DEF soaVars, SoaTypeOK
<1> QED
  BY <1>1, <1>2, <1>3 DEF SoaNext

LEMMA SerialInvariance == SoaSpec => []SoaTypeOK
<1>1. SoaInit => SoaTypeOK
  BY DEF SoaInit, SoaTypeOK, Modes
<1>2. SoaTypeOK /\ [SoaNext]_soaVars => SoaTypeOK'
  BY SerialStep
<1> QED
  BY <1>1, <1>2, PTL DEF SoaSpec

\* __lt__ and __gt__ are the comparisons of RFC 1982, for every width.
THEOREM ComparisonsAgreeHolds == SoaSpec => []ComparisonsAgree
<1>1. SoaTypeOK => ComparisonsAgree
  BY ComparisonIsRFC DEF SoaTypeOK, ComparisonsAgree
<1> QED
  BY SerialInvariance, <1>1, PTL

\* No increment makes the serial less than it was.
THEOREM NeverLessHolds == SoaSpec => NeverLess
<1>1. SoaTypeOK /\ [SoaNext]_soaVars => [call'.mode = "relative" => ~Lt(serial', serial)]_soaVars
  BY SerialStep
<1> QED
  BY SerialInvariance, <1>1, PTL DEF SoaSpec, NeverLess

\* An increment short of the largest is seen by those who compare serials.
THEOREM IncrementNoticedHolds == SoaSpec => IncrementNoticed
<1>1. SoaTypeOK /\ [SoaNext]_soaVars =>
         [copied' = copied /\ call'.mode = "relative" /\ call'.value \in 1 .. Half - 2
            => Gt(serial', serial)]_soaVars
  BY SerialStep
<1> QED
  BY SerialInvariance, <1>1, PTL DEF SoaSpec, IncrementNoticed

\* Whoever compares serials sees every increment, for every width.
THEOREM IncrementsAreSeenHolds == SoaSpec => IncrementsAreSeen
  BY NeverLessHolds, IncrementNoticedHolds DEF IncrementsAreSeen

\* Zero is never set.
THEOREM NeverZeroHolds == SoaSpec => NeverZero
<1>1. SoaTypeOK /\ [SoaNext]_soaVars => [serial' # serial => serial' # 0]_soaVars
  BY SerialStep
<1> QED
  BY SerialInvariance, <1>1, PTL DEF SoaSpec, NeverZero

-----------------------------------------------------------------------------
(* The cache of answers                                                    *)

\* Every key of the dictionary has a node of its own that knows the key, so
\* that an eviction deletes the entry of the node it unlinked.
DictionaryKnowsNodes ==
    /\ Sentinel \notin InUse /\ node[Sentinel] = NoEntry
    /\ \A k \in Keys : data[k] # None => node[data[k]] \in Entries /\ node[data[k]].key = k

Linked == InUse \cup {Sentinel}

Reciprocal(p, x, U) == \A n \in U : /\ x[n] \in U /\ p[x[n]] = n
                                 /\ p[n] \in U /\ x[p[n]] = n

\* The key that is being put is not in the dictionary.
PutDropped == putting # NoEntry => data[putting.key] = None

IInv == PutDropped /\ TypeOK /\ DictionaryKnowsNodes /\ Reciprocal(prev, next, Linked)

Links == [Cells -> Cells]

-----------------------------------------------------------------------------
(* Links                                                                   *)

\* Unlinking a node leaves the others linked.
LEMMA UnlinkInverse ==
    ASSUME prev \in Links, next \in Links, NEW U \in SUBSET Cells, NEW n \in U,
           Reciprocal(prev, next, U)
    PROVE  /\ UnlinkedPrev(n) \in Links /\ UnlinkedNext(n) \in Links
           /\ Reciprocal(UnlinkedPrev(n), UnlinkedNext(n), U \ {n})
  BY DEF Links, Reciprocal, UnlinkedPrev, UnlinkedNext

\* Linking a new node in leaves all of them linked.
LEMMA LinkInverse ==
    ASSUME NEW p \in Links, NEW x \in Links, NEW U \in SUBSET Cells, NEW c \in U,
           NEW n \in Cells \ U, Reciprocal(p, x, U), LinkAfter(p, x, n, c)
    PROVE  prev' \in Links /\ next' \in Links /\ Reciprocal(prev', next', U \cup {n})
<1>1. /\ prev' = [p EXCEPT ![n] = c, ![x[c]] = n]
      /\ next' = [x EXCEPT ![n] = x[c], ![c] = n]
  BY DEF LinkAfter
<1>2. x[c] \in U /\ x[c] # n /\ c # n
  BY DEF Reciprocal
<1>3. prev' \in Links /\ next' \in Links
  BY <1>1, <1>2 DEF Links
<1>4. /\ prev'[n] = c /\ prev'[x[c]] = n
      /\ \A m \in Cells : m # n /\ m # x[c] => prev'[m] = p[m]
      /\ next'[n] = x[c] /\ next'[c] = n
      /\ \A m \in Cells : m # n /\ m # c => next'[m] = x[m]
  BY <1>1, <1>2 DEF Links
<1>5. ASSUME NEW m \in U \cup {n}
      PROVE  next'[m] \in U \cup {n} /\ prev'[next'[m]] = m
  <2>1. CASE m = n
    BY <1>2, <1>4, <2>1
  <2>2. CASE m = c
    BY <1>2, <1>4, <2>2
  <2>3. CASE m # n /\ m # c
    <3>1. m \in U /\ x[m] \in U /\ p[x[m]] = m /\ p[x[c]] = c
      BY <2>3 DEF Reciprocal
    <3> QED
      BY <1>4, <2>3, <3>1
  <2> QED
    BY <2>1, <2>2, <2>3
<1>6. ASSUME NEW m \in U \cup {n}
      PROVE  prev'[m] \in U \cup {n} /\ next'[prev'[m]] = m
  <2>1. CASE m = n
    BY <1>2, <1>4, <2>1
  <2>2. CASE m = x[c]
    BY <1>2, <1>4, <2>2
  <2>3. CASE m # n /\ m # x[c]
    <3>1. m \in U /\ p[m] \in U /\ x[p[m]] = m
      BY <2>3 DEF Reciprocal
    <3> QED
      BY <1>4, <2>3, <3>1
  <2> QED
    BY <2>1, <2>2, <2>3
<1> QED
  BY <1>3, <1>5, <1>6 DEF Reciprocal

-----------------------------------------------------------------------------
(* The dictionary                                                          *)

LEMMA LinkedFacts ==
    ASSUME IInv
    PROVE  /\ prev \in Links /\ next \in Links /\ Linked \in SUBSET Cells
           /\ Sentinel \in Linked
           /\ \A k \in Keys : data[k] # None => data[k] \in Linked /\ data[k] # Sentinel
           /\ \A k, l \in Keys : data[k] # None /\ data[k] = data[l] => k = l
  BY CacheAssumption DEF IInv, PutDropped, TypeOK, DictionaryKnowsNodes, Linked, InUse, Links

\* The entry of a key goes, with its node.
LEMMA RemoveStep ==
    ASSUME IInv, NEW k \in Keys, data[k] # None,
           data' = [data EXCEPT ![k] = None], Unlink(data[k]), UNCHANGED node
    PROVE  /\ data' \in [Keys -> Cells \cup {None}] /\ prev' \in Links /\ next' \in Links
           /\ DictionaryKnowsNodes' /\ Reciprocal(prev', next', Linked')
<1>1. /\ data[k] \in Linked /\ prev \in Links /\ next \in Links
      /\ Linked \in SUBSET Cells /\ Reciprocal(prev, next, Linked)
  BY LinkedFacts DEF IInv
<1>2. Linked' = Linked \ {data[k]}
  BY LinkedFacts DEF IInv, TypeOK, Linked, InUse
<1>3. data' \in [Keys -> Cells \cup {None}] /\ DictionaryKnowsNodes'
  BY <1>2, LinkedFacts DEF IInv, PutDropped, TypeOK, DictionaryKnowsNodes, InUse
<1>4. /\ UnlinkedPrev(data[k]) \in Links /\ UnlinkedNext(data[k]) \in Links
      /\ Reciprocal(UnlinkedPrev(data[k]), UnlinkedNext(data[k]), Linked \ {data[k]})
  BY <1>1, UnlinkInverse
<1> QED
  BY <1>2, <1>3, <1>4 DEF Unlink

LEMMA DropStep ==
    ASSUME IInv, NEW k \in Keys, Drop(k), UNCHANGED node
    PROVE  /\ data' \in [Keys -> Cells \cup {None}] /\ prev' \in Links /\ next' \in Links
           /\ DictionaryKnowsNodes' /\ Reciprocal(prev', next', Linked')
<1>1. CASE data[k] = None
  BY <1>1, LinkedFacts DEF Drop, ring, IInv, TypeOK, DictionaryKnowsNodes, Linked, InUse
<1>2. CASE data[k] # None
  BY <1>2, RemoveStep DEF Drop
<1> QED
  BY <1>1, <1>2

-----------------------------------------------------------------------------
(* The steps                                                               *)

LEMMA Initially == Init => IInv
  BY CacheAssumption DEF Init, IInv, PutDropped, TypeOK, DictionaryKnowsNodes, Reciprocal, Linked, InUse, NoEntry

LEMMA GetStep ==
    ASSUME IInv, NEW k \in Keys, Get(k)
    PROVE  IInv'
<1>1. CASE data[k] = None
  BY <1>1 DEF Get, Free, ring, IInv, PutDropped, TypeOK, DictionaryKnowsNodes, Linked, InUse
<1>2. CASE data[k] # None /\ Expired(data[k])
  <2>1. /\ data' = [data EXCEPT ![k] = None] /\ Unlink(data[k]) /\ reply' = None /\ putting = NoEntry
        /\ UNCHANGED <<node, max_size, now, putting>>
    BY <1>2 DEF Get, Free
  <2> QED
    BY <2>1, <1>2, RemoveStep DEF IInv, PutDropped, TypeOK, Links
<1>3. CASE data[k] # None /\ ~Expired(data[k])
  <2> DEFINE n == data[k]
             p == UnlinkedPrev(n)
             x == UnlinkedNext(n)
             U == Linked \ {n}
  <2>1. /\ LinkAfter(p, x, n, Sentinel) /\ reply' = node[n].value
        /\ UNCHANGED <<data, node, max_size, now, putting>>
    BY <1>3 DEF Get
  <2>2. /\ n \in Linked /\ n # Sentinel /\ Sentinel \in U /\ Linked \in SUBSET Cells
        /\ Reciprocal(prev, next, Linked) /\ prev \in Links /\ next \in Links
    BY <1>3, LinkedFacts DEF IInv
  <2>3. p \in Links /\ x \in Links /\ Reciprocal(p, x, U)
    BY <2>2, UnlinkInverse
  <2>4. n \in Cells \ U /\ U \in SUBSET Cells /\ U \cup {n} = Linked
    BY <2>2
  <2> HIDE DEF n, p, x, U
  <2>5. prev' \in Links /\ next' \in Links /\ Reciprocal(prev', next', U \cup {n})
    BY <2>1, <2>2, <2>3, <2>4, LinkInverse
  <2>6. Linked' = Linked
    BY <2>1 DEF Linked, InUse
  <2>7. node[n].value \in Answers
    BY <1>3 DEF n, IInv, DictionaryKnowsNodes, Entries
  <2> QED
    BY <2>1, <2>4, <2>5, <2>6, <2>7 DEF IInv, PutDropped, TypeOK, DictionaryKnowsNodes, InUse, Links
<1> QED
  BY <1>1, <1>2, <1>3

LEMMA PutBeginStep ==
    ASSUME IInv, NEW k \in Keys, NEW v \in Answers, PutBegin(k, v)
    PROVE  IInv'
  BY DropStep DEF PutBegin, Drop, PutDropped, Entries, IInv, TypeOK, Links, Entries

LEMMA FlushKeyStep ==
    ASSUME IInv, NEW k \in Keys, FlushKey(k)
    PROVE  IInv'
  BY DropStep DEF FlushKey, Free, PutDropped, IInv, TypeOK, Links

\* The oldest node is one of the dictionary, or the sentinel by itself.
LEMMA EvictStep ==
    ASSUME IInv, Evict
    PROVE  IInv'
<1>1. /\ Unlink(Oldest) /\ data' = [data EXCEPT ![node[Oldest].key] = None]
      /\ UNCHANGED <<node, max_size, now, putting, reply>>
  BY DEF Evict
<1>2. Oldest \in Linked
  BY LinkedFacts DEF IInv, Reciprocal, Oldest
<1>3. CASE Oldest = Sentinel
  <2>1. next[Sentinel] = Sentinel /\ prev[Sentinel] = Sentinel
    BY <1>3, LinkedFacts DEF IInv, Reciprocal, Oldest
  <2>2. UNCHANGED <<prev, next>>
    BY <1>1, <1>3, <2>1, LinkedFacts DEF Unlink, UnlinkedPrev, UnlinkedNext, Links
  <2>3. data' = data
    BY <1>1, <1>3, CacheAssumption DEF IInv, TypeOK, DictionaryKnowsNodes, NoEntry
  <2>4. Linked' = Linked /\ InUse' = InUse
    BY <2>3 DEF Linked, InUse
  <2>5. Reciprocal(prev', next', Linked')
    BY <2>2, <2>4 DEF IInv
  <2> QED
    BY <1>1, <2>2, <2>3, <2>4, <2>5 DEF IInv, PutDropped, TypeOK, DictionaryKnowsNodes
<1>4. CASE Oldest # Sentinel
  <2>1. PICK k \in Keys : data[k] = Oldest /\ data[k] # None
    BY <1>2, <1>4 DEF Linked, InUse
  <2>2. node[Oldest].key = k
    BY <2>1 DEF IInv, DictionaryKnowsNodes
  <2>3. data' = [data EXCEPT ![k] = None] /\ Unlink(data[k])
    BY <1>1, <2>1, <2>2
  <2>4. PutDropped'
    BY <1>1, <2>1, <2>3 DEF IInv, PutDropped, TypeOK, Entries
  <2> QED
    BY <1>1, <2>1, <2>3, <2>4, RemoveStep DEF IInv, TypeOK, Links
<1> QED
  BY <1>3, <1>4

LEMMA PutEndStep ==
    ASSUME IInv, NEW n \in Cells, PutEnd(n)
    PROVE  IInv'
<1>1. /\ putting # NoEntry /\ n \notin Linked
      /\ node' = [node EXCEPT ![n] = putting]
      /\ LinkAfter(prev, next, n, Sentinel)
      /\ data' = [data EXCEPT ![putting.key] = n]
      /\ putting' = NoEntry
      /\ UNCHANGED <<max_size, now, reply>>
  BY DEF PutEnd, Linked, Free
<1>2. putting \in Entries /\ putting.key \in Keys
  BY <1>1 DEF IInv, TypeOK, Entries
<1>3. prev' \in Links /\ next' \in Links /\ Reciprocal(prev', next', Linked \cup {n})
  BY <1>1, LinkedFacts, LinkInverse DEF IInv
<1>4. Linked' = Linked \cup {n} /\ data' \in [Keys -> Cells \cup {None}]
  BY <1>1, <1>2, CacheAssumption DEF IInv, PutDropped, TypeOK, Linked, InUse
<1>5. DictionaryKnowsNodes'
  <2>1. n # Sentinel /\ Sentinel \notin InUse'
    BY <1>1, <1>2 DEF IInv, TypeOK, DictionaryKnowsNodes, Linked, InUse
  <2>2. node'[Sentinel] = NoEntry
    BY <1>1, <2>1, CacheAssumption DEF IInv, TypeOK, DictionaryKnowsNodes
  <2>3. ASSUME NEW k \in Keys, data'[k] # None
        PROVE  node'[data'[k]] \in Entries /\ node'[data'[k]].key = k
    <3>1. CASE k = putting.key
      BY <1>1, <1>2, <3>1 DEF IInv, TypeOK
    <3>2. CASE k # putting.key
      <4>1. data'[k] = data[k] /\ data[k] \in Cells /\ data[k] # n
        BY <1>1, <1>2, <2>3, <3>2 DEF IInv, TypeOK, Linked, InUse
      <4> QED
        BY <1>1, <2>3, <4>1 DEF IInv, TypeOK, DictionaryKnowsNodes
    <3> QED
      BY <3>1, <3>2
  <2> QED
    BY <2>1, <2>2, <2>3 DEF DictionaryKnowsNodes
<1> QED
  BY <1>1, <1>2, <1>3, <1>4, <1>5 DEF IInv, PutDropped, TypeOK, Links

LEMMA FlushAllStep ==
    ASSUME IInv, FlushAll
    PROVE  IInv'
  BY CacheAssumption DEF FlushAll, Free, IInv, PutDropped, TypeOK, DictionaryKnowsNodes, Reciprocal, Linked, InUse

LEMMA Step ==
    ASSUME IInv, [Next]_vars
    PROVE  IInv'
<1>1. CASE \E k \in Keys : Get(k) \/ FlushKey(k)
  BY <1>1, GetStep, FlushKeyStep
<1>2. CASE \E k \in Keys, v \in Answers : PutBegin(k, v)
  BY <1>2, PutBeginStep
<1>3. CASE Evict
  BY <1>3, EvictStep
<1>4. CASE \E n \in Cells : PutEnd(n)
  BY <1>4, PutEndStep
<1>5. CASE FlushAll
  BY <1>5, FlushAllStep
<1>6. CASE \E n \in 0 .. MaxSize : SetMaxSize(n)
  BY <1>6, CacheAssumption DEF SetMaxSize, ring, IInv, PutDropped, TypeOK, DictionaryKnowsNodes,
     Linked, InUse
<1>7. CASE Tick
  BY <1>7 DEF Tick, ring, IInv, PutDropped, TypeOK, DictionaryKnowsNodes, Linked, InUse
<1>8. CASE UNCHANGED vars
  BY <1>8 DEF vars, ring, IInv, PutDropped, TypeOK, DictionaryKnowsNodes, Linked, InUse
<1> QED
  BY <1>1, <1>2, <1>3, <1>4, <1>5, <1>6, <1>7, <1>8 DEF Next

LEMMA CacheInvariance == Spec => []IInv
<1>1. IInv /\ [Next]_vars => IInv'
  BY Step
<1> QED
  BY Initially, <1>1, PTL DEF Spec

\* Every variable keeps its type.
THEOREM TypeCorrect == Spec => []TypeOK
<1>1. IInv => TypeOK
  BY DEF IInv
<1> QED
  BY CacheInvariance, <1>1, PTL

\* Whatever is got, put, flushed and resized, the links of the nodes of the
\* dictionary lead to such nodes and back.
THEOREM LinksAreInverseHolds == Spec => []LinksAreInverse
<1>1. IInv => LinksAreInverse
  BY DEF IInv, Reciprocal, Linked, LinksAreInverse
<1> QED
  BY CacheInvariance, <1>1, PTL

-----------------------------------------------------------------------------
(* The ring is a list                                                      *)

\* A sequence without its j-th element, and one with e before it.
Removed(s, j) == [i \in 1 .. Len(s) - 1 |-> IF i < j THEN s[i] ELSE s[i + 1]]
Pushed(e, s) == [i \in 1 .. Len(s) + 1 |-> IF i = 1 THEN e ELSE s[i - 1]]

LEMMA RemovedIs ==
    ASSUME NEW S, NEW s \in Seq(S), NEW j \in 1 .. Len(s)
    PROVE  /\ Removed(s, j) \in Seq(S)
           /\ Len(Removed(s, j)) = Len(s) - 1
           /\ \A i \in 1 .. Len(s) - 1 : Removed(s, j)[i] = IF i < j THEN s[i] ELSE s[i + 1]
<1>1. Len(s) \in Nat /\ Len(s) - 1 \in Nat
  OBVIOUS
<1>2. \A i \in 1 .. Len(s) - 1 : i \in 1 .. Len(s) /\ i + 1 \in 1 .. Len(s)
  BY <1>1
<1>3. \A i \in 1 .. Len(s) : s[i] \in S
  OBVIOUS
<1>4. Removed(s, j) \in [1 .. Len(s) - 1 -> S]
  BY <1>1, <1>2, <1>3 DEF Removed
<1> QED
  BY <1>1, <1>4 DEF Removed

LEMMA PushedIs ==
    ASSUME NEW S, NEW s \in Seq(S), NEW e \in S
    PROVE  /\ Pushed(e, s) \in Seq(S)
           /\ Len(Pushed(e, s)) = Len(s) + 1
           /\ \A i \in 1 .. Len(s) + 1 : Pushed(e, s)[i] = IF i = 1 THEN e ELSE s[i - 1]
<1>1. Len(s) \in Nat /\ Len(s) + 1 \in Nat
  OBVIOUS
<1>2. \A i \in 1 .. Len(s) + 1 : i # 1 => i - 1 \in 1 .. Len(s)
  BY <1>1
<1>3. \A i \in 1 .. Len(s) : s[i] \in S
  OBVIOUS
<1>4. Pushed(e, s) \in [1 .. Len(s) + 1 -> S]
  BY <1>1, <1>2, <1>3 DEF Pushed
<1> QED
  BY <1>1, <1>4 DEF Pushed

\* These are what the list's operators do.
LEMMA RemoveAtIs ==
    ASSUME NEW S, NEW s \in Seq(S), NEW j \in 1 .. Len(s)
    PROVE  Recency!RemoveAt(s, j) = Removed(s, j)
<1> DEFINE n == Len(s)
           a == SubSeq(s, 1, j - 1)
           b == SubSeq(s, j + 1, n)
<1>1. n \in Nat /\ j \in Nat /\ j >= 1 /\ j <= n /\ \A i \in 1 .. n : s[i] \in S
  OBVIOUS
<1>2. /\ a \in Seq(S) /\ Len(a) = j - 1
      /\ \A i \in 1 .. j - 1 : a[i] = s[i]
  <2>1. \A i \in 1 .. j - 1 : s[i] \in S
    BY <1>1
  <2>2. /\ a \in Seq(S) /\ Len(a) = IF 1 <= j - 1 THEN (j - 1) - 1 + 1 ELSE 0
        /\ \A i \in 1 .. (j - 1) - 1 + 1 : a[i] = s[1 + i - 1]
    BY <1>1, <2>1, SubSeqProperties
  <2> QED
    BY <1>1, <2>2
<1>3. /\ b \in Seq(S) /\ Len(b) = n - j
      /\ \A i \in 1 .. n - j : b[i] = s[j + i]
  <2>1. \A i \in j + 1 .. n : s[i] \in S
    BY <1>1
  <2>2. /\ b \in Seq(S) /\ Len(b) = IF j + 1 <= n THEN n - (j + 1) + 1 ELSE 0
        /\ \A i \in 1 .. n - (j + 1) + 1 : b[i] = s[(j + 1) + i - 1]
    BY <1>1, <2>1, SubSeqProperties
  <2> QED
    BY <1>1, <2>2
<1> HIDE DEF a, b
<1>4. /\ a \o b \in Seq(S) /\ Len(a \o b) = n - 1
      /\ \A i \in 1 .. n - 1 : (a \o b)[i] = IF i <= j - 1 THEN a[i] ELSE b[i - (j - 1)]
  BY <1>1, <1>2, <1>3, ConcatProperties
<1>5. ASSUME NEW i \in 1 .. n - 1
      PROVE  (a \o b)[i] = Removed(s, j)[i]
  <2>1. CASE i < j
    BY <1>1, <1>2, <1>4, <2>1, RemovedIs
  <2>2. CASE i >= j
    <3>1. PICK k : k = i - (j - 1)
      OBVIOUS
    <3>2. k \in 1 .. n - j /\ j + k = i + 1 /\ ~(i <= j - 1) /\ ~(i < j)
      BY <1>1, <2>2, <3>1
    <3>3. (a \o b)[i] = b[k]
      BY <1>4, <3>1, <3>2
    <3>4. b[k] = s[i + 1]
      BY <1>3, <3>2
    <3>5. Removed(s, j)[i] = s[i + 1]
      BY <3>2, RemovedIs
    <3> QED
      BY <3>3, <3>4, <3>5
  <2>3. i < j \/ i >= j
    BY <1>1
  <2> QED
    BY <2>1, <2>2, <2>3
<1>6. /\ Removed(s, j) \in Seq(S) /\ Len(Removed(s, j)) = Len(a \o b)
      /\ \A i \in 1 .. Len(a \o b) : (a \o b)[i] = Removed(s, j)[i]
  BY <1>4, <1>5, RemovedIs
<1>7. a \o b = Removed(s, j)
  BY <1>4, <1>6, SeqEqual
<1> QED
  BY <1>7 DEF Recency!RemoveAt, a, b

LEMMA FrontIs ==
    ASSUME NEW S, NEW s \in Seq(S), s # <<>>
    PROVE  Len(s) \in 1 .. Len(s) /\ Recency!Front(s) = Removed(s, Len(s))
<1>1. /\ Len(s) \in Nat /\ Len(s) >= 1 /\ Len(s) \in 1 .. Len(s) /\ s \in Seq(S)
      /\ \A i \in 1 .. Len(s) : s[i] \in S
  BY EmptySeq
<1>2. PICK m \in Nat : Len(s) = m + 1 /\ m = Len(s) - 1
  BY <1>1
<1> DEFINE a == SubSeq(s, 1, m)
<1>3. /\ a \in Seq(S) /\ Len(a) = m
      /\ \A i \in 1 .. m : a[i] = s[i]
  <2>1. \A i \in 1 .. m : s[i] \in S
    BY <1>1, <1>2
  <2>2. /\ a \in Seq(S) /\ Len(a) = IF 1 <= m THEN m - 1 + 1 ELSE 0
        /\ \A i \in 1 .. m - 1 + 1 : a[i] = s[1 + i - 1]
    BY <2>1, SubSeqProperties
  <2>3. m - 1 + 1 = m /\ \A i \in 1 .. m : 1 + i - 1 = i
    OBVIOUS
  <2> QED
    BY <2>2, <2>3
<1>4. Recency!Front(s) = a
  BY <1>2 DEF Recency!Front
<1> HIDE DEF a
<1>5. PICK r : r = Removed(s, Len(s))
  OBVIOUS
<1>6. r \in Seq(S) /\ Len(r) = m /\ \A i \in 1 .. m : r[i] = IF i < Len(s) THEN s[i] ELSE s[i + 1]
  BY <1>1, <1>2, <1>5, RemovedIs
<1>7. \A i \in 1 .. Len(a) : a[i] = r[i]
  BY <1>2, <1>3, <1>6
<1>8. a = r
  BY <1>3, <1>6, <1>7, SeqEqual
<1> QED
  BY <1>1, <1>4, <1>5, <1>8

LEMMA PushIs ==
    ASSUME NEW S, NEW s \in Seq(S), NEW e \in S
    PROVE  <<e>> \o s = Pushed(e, s)
<1>1. PICK h : h = <<e>>
  OBVIOUS
<1>2. h \in Seq(S) /\ Len(h) = 1 /\ h[1] = e /\ Len(s) \in Nat /\ s \in Seq(S) /\ e \in S
  BY <1>1
<1>3. /\ h \o s \in Seq(S) /\ Len(h \o s) = 1 + Len(s)
      /\ \A i \in 1 .. 1 + Len(s) : (h \o s)[i] = IF i <= 1 THEN h[i] ELSE s[i - 1]
  <2>1. /\ h \o s \in Seq(S) /\ Len(h \o s) = Len(h) + Len(s)
        /\ \A i \in 1 .. Len(h) + Len(s) :
              (h \o s)[i] = IF i <= Len(h) THEN h[i] ELSE s[i - Len(h)]
    BY <1>2, ConcatProperties
  <2> QED
    BY <1>2, <2>1
<1>4. PICK r : r = Pushed(e, s)
  OBVIOUS
<1>5. /\ r \in Seq(S) /\ Len(r) = Len(s) + 1
      /\ \A i \in 1 .. Len(s) + 1 : r[i] = IF i = 1 THEN e ELSE s[i - 1]
  <2>1. /\ Pushed(e, s) \in Seq(S) /\ Len(Pushed(e, s)) = Len(s) + 1
        /\ \A i \in 1 .. Len(s) + 1 : Pushed(e, s)[i] = IF i = 1 THEN e ELSE s[i - 1]
    BY PushedIs
  <2> QED
    BY <1>4, <2>1
<1>6. PICK c : c = h \o s
  OBVIOUS
<1>7. c \in Seq(S) /\ Len(c) = Len(r) /\ \A i \in 1 .. Len(c) : c[i] = r[i]
  BY <1>2, <1>3, <1>5, <1>6
<1>8. c = r
  BY <1>5, <1>7, SeqEqual
<1> QED
  BY <1>1, <1>4, <1>6, <1>8

\* The nodes from the sentinel to the sentinel.
At(s, i) == IF i \in 1 .. Len(s) THEN s[i] ELSE Sentinel

\* Along the links x come the nodes U, each once, in the order of s.
Lists(s, x, U) ==
    /\ s \in Seq(U)
    /\ \A n \in U : \E i \in 1 .. Len(s) : s[i] = n
    /\ \A i, j \in 1 .. Len(s) : s[i] = s[j] => i = j
    /\ \A i \in 0 .. Len(s) : x[At(s, i)] = At(s, i + 1)

\* The nodes on either side of one, and the places of nodes.
LEMMA ListsFacts ==
    ASSUME NEW s, NEW x, NEW U, Lists(s, x, U), Sentinel \notin U
    PROVE  /\ Len(s) \in Nat
           /\ \A i \in 1 .. Len(s) : s[i] \in U
           /\ \A i \in Int : At(s, i) \in U \cup {Sentinel}
           /\ \A i, j \in 0 .. Len(s) : At(s, i) = At(s, j) => i = j
<1>1. s \in Seq(U) /\ Len(s) \in Nat /\ \A i \in 1 .. Len(s) : s[i] \in U
  BY DEF Lists
<1>2. ASSUME NEW i \in 0 .. Len(s), NEW j \in 0 .. Len(s), At(s, i) = At(s, j)
      PROVE  i = j
  <2>1. CASE i \in 1 .. Len(s) /\ j \in 1 .. Len(s)
    BY <1>2, <2>1 DEF At, Lists
  <2>2. CASE i = 0 /\ j \in 1 .. Len(s)
    BY <1>1, <1>2, <2>2 DEF At
  <2>3. CASE j = 0 /\ i \in 1 .. Len(s)
    BY <1>1, <1>2, <2>3 DEF At
  <2>4. CASE i = 0 /\ j = 0
    BY <2>4
  <2> QED
    BY <1>1, <2>1, <2>2, <2>3, <2>4
<1> QED
  BY <1>1, <1>2 DEF At

\* Unlinking a node leaves the others in their order.
LEMMA ListsUnlinked ==
    ASSUME NEW U \in SUBSET Cells, Sentinel \notin U, prev \in Links, next \in Links,
           Reciprocal(prev, next, U \cup {Sentinel}),
           NEW s, Lists(s, next, U), NEW j \in 1 .. Len(s)
    PROVE  Lists(Removed(s, j), UnlinkedNext(s[j]), U \ {s[j]})
<1> DEFINE V == U \ {s[j]}
           y == UnlinkedNext(s[j])
<1>n. PICK n : n = Len(s)
  OBVIOUS
<1>r. PICK r : r = Removed(s, j)
  OBVIOUS
<1>1. /\ n \in Nat /\ s \in Seq(U) /\ j \in Nat /\ 1 <= j /\ j <= n
      /\ \A i \in 1 .. n : s[i] \in U
      /\ \A i, k \in 1 .. n : s[i] = s[k] => i = k
      /\ \A m \in U : \E i \in 1 .. n : s[i] = m
      /\ \A i \in 0 .. n : next[At(s, i)] = At(s, i + 1)
  <2>1. Len(s) \in Nat /\ \A i \in 1 .. Len(s) : s[i] \in U
    BY ListsFacts
  <2>2. n \in Nat /\ j \in Nat /\ 1 <= j /\ j <= n
    BY <1>n, <2>1
  <2> QED
    BY <1>n, <2>1, <2>2 DEF Lists
<1>j. n \in Nat /\ j \in Nat /\ 1 <= j /\ j <= n
  BY <1>1
<1>2. /\ \A i \in Int : At(s, i) \in U \cup {Sentinel}
      /\ \A i, k \in 0 .. n : At(s, i) = At(s, k) => i = k
  BY <1>n, ListsFacts
<1>3. /\ r \in Seq(U) /\ Len(r) = n - 1
      /\ \A i \in 1 .. n - 1 : i < j => r[i] = s[i]
      /\ \A i \in 1 .. n - 1 : i >= j => r[i] = s[i + 1]
  <2>1. /\ Removed(s, j) \in Seq(U) /\ Len(Removed(s, j)) = Len(s) - 1
        /\ \A i \in 1 .. Len(s) - 1 : Removed(s, j)[i] = IF i < j THEN s[i] ELSE s[i + 1]
    BY <1>1, RemovedIs
  <2>2. \A i \in 1 .. n - 1 : i >= j => ~(i < j)
    BY <1>1
  <2> QED
    BY <1>n, <1>r, <2>1, <2>2
<1>4. ASSUME NEW i \in 1 .. n - 1
      PROVE  r[i] \in V
  <2>1. i \in 1 .. n /\ i + 1 \in 1 .. n /\ j \in 1 .. n /\ (i < j \/ i >= j)
    BY <1>j
  <2>2. CASE i < j
    <3>1. r[i] = s[i]
      BY <1>3, <2>2
    <3>2. i # j
      BY <1>j, <2>2
    <3> QED
      BY <1>1, <2>1, <3>1, <3>2
  <2>3. CASE i >= j
    <3>1. r[i] = s[i + 1]
      BY <1>3, <2>3
    <3>2. i + 1 # j
      BY <1>j, <2>3
    <3> QED
      BY <1>1, <2>1, <3>1, <3>2
  <2> QED
    BY <2>1, <2>2, <2>3
<1>5. r \in Seq(V)
  <2>1. r \in [1 .. n - 1 -> U] /\ n - 1 \in Nat
    BY <1>1, <1>3, LenProperties
  <2>2. r \in [1 .. n - 1 -> V]
    BY <1>4, <2>1
  <2> QED
    BY <2>1, <2>2
<1>6. ASSUME NEW m \in V
      PROVE  \E i \in 1 .. Len(r) : r[i] = m
  <2>1. PICK i \in 1 .. n : s[i] = m
    BY <1>1
  <2>2. i # j /\ i \in Nat /\ (i < j \/ i > j)
    BY <1>1, <2>1, SMTT(30)
  <2>3. CASE i < j
    <3>1. i \in 1 .. n - 1
      BY <1>j, <2>2, <2>3
    <3> QED
      BY <1>3, <2>1, <2>3, <3>1
  <2>4. CASE i > j
    <3>1. PICK k \in 1 .. n - 1 : i = k + 1 /\ k >= j
      BY <1>j, <2>2, <2>4
    <3> QED
      BY <1>3, <2>1, <3>1
  <2> QED
    BY <2>2, <2>3, <2>4
<1>7. ASSUME NEW i \in 1 .. Len(r), NEW k \in 1 .. Len(r), r[i] = r[k]
      PROVE  i = k
  <2>1. /\ i \in 1 .. n - 1 /\ k \in 1 .. n - 1 /\ i \in 1 .. n /\ k \in 1 .. n
        /\ i + 1 \in 1 .. n /\ k + 1 \in 1 .. n /\ (i < j \/ i >= j) /\ (k < j \/ k >= j)
    <3>1. i \in 1 .. n - 1 /\ k \in 1 .. n - 1
      BY <1>3
    <3> QED
      BY <1>j, <3>1
  <2>2. CASE i < j /\ k < j
    BY <1>1, <1>3, <1>7, <2>1, <2>2
  <2>3. CASE i < j /\ k >= j
    <3>1. i = k + 1
      BY <1>1, <1>3, <1>7, <2>1, <2>3
    <3> QED
      BY <1>1, <2>1, <2>3, <3>1
  <2>4. CASE i >= j /\ k < j
    <3>1. i + 1 = k
      BY <1>1, <1>3, <1>7, <2>1, <2>4
    <3> QED
      BY <1>1, <2>1, <2>4, <3>1
  <2>5. CASE i >= j /\ k >= j
    <3>1. i + 1 = k + 1
      BY <1>1, <1>3, <1>7, <2>1, <2>5
    <3> QED
      BY <2>1, <3>1
  <2> QED
    BY <2>1, <2>2, <2>3, <2>4, <2>5
\* The links at the node's place.
<1>8. next[s[j]] = At(s, j + 1) /\ prev[s[j]] = At(s, j - 1)
  <2>1. At(s, j) = s[j] /\ j \in 0 .. n /\ j - 1 \in 0 .. n /\ j - 1 + 1 = j /\ j - 1 \in Int
    BY <1>n, <1>1 DEF At
  <2>2. next[At(s, j - 1)] = s[j] /\ At(s, j - 1) \in U \cup {Sentinel}
    BY <1>1, <1>2, <2>1
  <2> QED
    BY <1>1, <2>1, <2>2 DEF Reciprocal
<1>9. y = [next EXCEPT ![At(s, j - 1)] = At(s, j + 1)]
  BY <1>8 DEF UnlinkedNext
<1>10. ASSUME NEW i \in Nat
       PROVE  /\ i < j => At(r, i) = At(s, i)
              /\ i >= j => At(r, i) = At(s, i + 1)
  <2>1. CASE i < j
    <3>1. i \in 1 .. n <=> i \in 1 .. n - 1
      BY <1>1, <2>1
    <3> QED
      BY <1>n, <1>1, <1>3, <2>1, <3>1 DEF At
  <2>2. CASE i >= j
    <3>1. i + 1 \in 1 .. n <=> i \in 1 .. n - 1
      BY <1>1, <2>2
    <3> QED
      BY <1>n, <1>1, <1>3, <2>2, <3>1 DEF At
  <2> QED
    BY <2>1, <2>2
<1>11. ASSUME NEW i \in 0 .. Len(r)
       PROVE  y[At(r, i)] = At(r, i + 1)
  <2>1. i \in Nat /\ i <= n - 1 /\ i + 1 \in Nat /\ i \in Int /\ i + 1 \in Int /\ j - 1 \in 0 .. n
    BY <1>1, <1>3
  <2>2. At(s, i) \in Cells /\ At(s, i + 1) \in Cells /\ At(s, j - 1) \in Cells
    BY <1>2, <2>1, CacheAssumption
  <2>3. CASE i = j - 1
    <3>1. At(r, i) = At(s, j - 1) /\ At(r, i + 1) = At(s, j + 1)
      BY <1>1, <1>10, <2>1, <2>3
    <3> QED
      BY <1>9, <2>2, <3>1 DEF Links
  <2>4. CASE i < j - 1
    <3>1. At(r, i) = At(s, i) /\ At(r, i + 1) = At(s, i + 1) /\ i \in 0 .. n
      BY <1>1, <1>10, <2>1, <2>4
    <3>2. At(s, i) # At(s, j - 1)
      BY <1>2, <2>1, <2>4, <3>1
    <3> QED
      BY <1>1, <1>9, <2>2, <3>1, <3>2 DEF Links
  <2>5. CASE i >= j
    <3>1. At(r, i) = At(s, i + 1) /\ At(r, i + 1) = At(s, i + 1 + 1) /\ i + 1 \in 0 .. n
      BY <1>1, <1>10, <2>1, <2>5
    <3>2. At(s, i + 1) # At(s, j - 1)
      BY <1>1, <1>2, <2>1, <2>5, <3>1
    <3> QED
      BY <1>1, <1>9, <2>2, <3>1, <3>2 DEF Links
  <2> QED
    BY <1>1, <2>1, <2>3, <2>4, <2>5
<1> QED
  BY <1>r, <1>5, <1>6, <1>7, <1>11 DEF Lists

\* A node that is linked in after the sentinel comes first.
LEMMA ListsLinked ==
    ASSUME NEW U \in SUBSET Cells, Sentinel \notin U, NEW p, NEW x \in Links,
           NEW s, Lists(s, x, U), NEW c \in Cells \ (U \cup {Sentinel}),
           LinkAfter(p, x, c, Sentinel)
    PROVE  Lists(Pushed(c, s), next', U \cup {c})
<1> DEFINE V == U \cup {c}
<1>n. PICK n : n = Len(s)
  OBVIOUS
<1>r. PICK r : r = Pushed(c, s)
  OBVIOUS
<1>1. /\ n \in Nat /\ s \in Seq(U)
      /\ \A i \in 1 .. n : s[i] \in U
      /\ \A i, k \in 1 .. n : s[i] = s[k] => i = k
      /\ \A m \in U : \E i \in 1 .. n : s[i] = m
      /\ \A i \in 0 .. n : x[At(s, i)] = At(s, i + 1)
      /\ \A i \in Int : At(s, i) \in U \cup {Sentinel}
  <2>1. /\ Len(s) \in Nat
        /\ \A i \in 1 .. Len(s) : s[i] \in U
        /\ \A i \in Int : At(s, i) \in U \cup {Sentinel}
    BY ListsFacts
  <2> QED
    BY <1>n, <2>1 DEF Lists
<1>2. s \in Seq(V)
  BY <1>1, SeqMonotonic
<1>3. /\ r \in Seq(V) /\ Len(r) = n + 1 /\ r[1] = c
      /\ \A i \in 1 .. n : r[i + 1] = s[i]
  <2>1. c \in V
    OBVIOUS
  <2> HIDE DEF V
  <2>2. /\ Pushed(c, s) \in Seq(V) /\ Len(Pushed(c, s)) = Len(s) + 1
        /\ \A i \in 1 .. Len(s) + 1 : Pushed(c, s)[i] = IF i = 1 THEN c ELSE s[i - 1]
    BY <1>2, <2>1, PushedIs
  <2>3. /\ 1 \in 1 .. n + 1
        /\ \A i \in 1 .. n : i + 1 \in 1 .. n + 1 /\ i + 1 # 1 /\ i + 1 - 1 = i
    BY <1>1
  <2> QED
    BY <1>n, <1>r, <2>2, <2>3
<1>4. ASSUME NEW m \in V
      PROVE  \E i \in 1 .. Len(r) : r[i] = m
  <2>1. CASE m = c
    <3>1. 1 \in 1 .. n + 1
      BY <1>1
    <3> QED
      BY <1>3, <2>1, <3>1
  <2>2. CASE m \in U
    <3>1. PICK i \in 1 .. n : s[i] = m
      BY <1>1, <2>2
    <3>2. i + 1 \in 1 .. n + 1
      BY <1>1
    <3> QED
      BY <1>3, <3>1, <3>2
  <2> QED
    BY <2>1, <2>2
<1>5. ASSUME NEW i \in 1 .. Len(r), NEW k \in 1 .. Len(r), r[i] = r[k]
      PROVE  i = k
  <2>1. \A l \in 1 .. Len(r) : l = 1 \/ \E m \in 1 .. n : l = m + 1
    <3>1. ASSUME NEW l \in 1 .. Len(r), l # 1
          PROVE  l - 1 \in 1 .. n /\ l = l - 1 + 1
      BY <1>1, <1>3, <3>1
    <3> QED
      BY <3>1
  <2>2. \A m \in 1 .. n : r[m + 1] # r[1]
    <3>1. \A m \in 1 .. n : s[m] \in U /\ r[m + 1] = s[m]
      BY <1>1, <1>3
    <3>2. r[1] \notin U
      BY <1>3
    <3> QED
      BY <3>1, <3>2
  <2>3. CASE i = 1 \/ k = 1
    BY <1>5, <2>1, <2>2, <2>3
  <2>4. CASE i # 1 /\ k # 1
    <3>1. PICK l \in 1 .. n, m \in 1 .. n : i = l + 1 /\ k = m + 1
      BY <2>1, <2>4
    <3>2. s[l] = r[l + 1] /\ s[m] = r[m + 1]
      BY <1>3
    <3>3. s[l] = s[m]
      BY <1>5, <3>1, <3>2
    <3>4. l = m
      BY <1>1, <3>3
    <3> QED
      BY <3>1, <3>4
  <2> QED
    BY <2>3, <2>4
<1>6. x[Sentinel] = At(s, 1)
  <2>1. 0 \in 0 .. n /\ At(s, 0) = Sentinel /\ 0 + 1 = 1
    BY <1>n, <1>1 DEF At
  <2> QED
    BY <1>1, <2>1
<1>7. next' = [x EXCEPT ![c] = At(s, 1), ![Sentinel] = c]
  BY <1>6 DEF LinkAfter
<1>8. /\ At(r, 0) = Sentinel /\ At(r, 1) = c
      /\ \A i \in Nat : i >= 1 => At(r, i + 1) = At(s, i)
  <2>1. ASSUME NEW i \in Nat, i >= 1
        PROVE  At(r, i + 1) = At(s, i)
    <3>1. i + 1 \in 1 .. n + 1 <=> i \in 1 .. n
      BY <1>1, <2>1
    <3> QED
      BY <1>n, <1>3, <3>1 DEF At
  <2>2. 0 \notin 1 .. n + 1 /\ 1 \in 1 .. n + 1
    BY <1>1
  <2> QED
    BY <1>3, <2>1, <2>2 DEF At
<1>9. ASSUME NEW i \in 0 .. Len(r)
      PROVE  next'[At(r, i)] = At(r, i + 1)
  <2>1. CASE i = 0
    BY <1>7, <1>8, <2>1, CacheAssumption DEF Links
  <2>2. CASE i = 1
    BY <1>7, <1>8, <2>2, CacheAssumption DEF Links
  <2>3. CASE i > 1
    <3>1. PICK k \in 1 .. n : i = k + 1 /\ k \in Nat /\ k >= 1 /\ k + 1 \in Nat
      BY <1>1, <1>3, <2>3
    <3>2. At(r, i) = At(s, k) /\ At(r, i + 1) = At(s, k + 1)
      BY <1>8, <3>1
    <3>3. At(s, k) \in U /\ x[At(s, k)] = At(s, k + 1)
      BY <1>n, <1>1, <3>1 DEF At
    <3> QED
      BY <1>7, <3>2, <3>3 DEF Links
  <2> QED
    BY <1>1, <1>3, <2>1, <2>2, <2>3
<1> QED
  BY <1>r, <1>3, <1>4, <1>5, <1>9 DEF Lists

\* What one meets along the links is the list, and as many as there are nodes.
EntriesOf(nd, s) == [i \in 1 .. Len(s) |-> nd[s[i]]]

LEMMA WalkIs ==
    ASSUME NEW s, NEW x, NEW U, Lists(s, x, U)
    PROVE  \A i \in 1 .. Len(s) : Walk(x, Len(s))[i] = s[i]
<1>n. PICK n : n = Len(s)
  OBVIOUS
<1>1. n \in Nat /\ \A i \in 0 .. n : x[At(s, i)] = At(s, i + 1)
  BY <1>n DEF Lists
<1>2. At(s, 0) = Sentinel /\ \A i \in 1 .. n : At(s, i) = s[i]
  BY <1>n, <1>1 DEF At
<1> DEFINE g == [i \in 0 .. n |-> At(s, i)]
           F(f) == [i \in 0 .. n |-> IF i = 0 THEN Sentinel ELSE x[f[i - 1]]]
<1>3. g = F(g)
  <2>1. ASSUME NEW i \in 0 .. n
        PROVE  At(s, i) = IF i = 0 THEN Sentinel ELSE x[g[i - 1]]
    <3>1. CASE i = 0
      BY <1>2, <3>1
    <3>2. CASE i # 0
      <4>1. i - 1 \in 0 .. n /\ i - 1 + 1 = i
        BY <1>1, <3>2
      <4>2. g[i - 1] = At(s, i - 1)
        BY <4>1
      <4> QED
        BY <1>1, <3>2, <4>1, <4>2
    <3> QED
      BY <3>1, <3>2
  <2> QED
    BY <2>1
<1>w. PICK w : w = Walk(x, n)
  OBVIOUS
<1>4. w = F(w)
  <2>1. \E f : f = F(f)
    BY <1>3
  <2>2. Walk(x, n) = F(Walk(x, n))
    BY <2>1, Zenon DEF Walk
  <2> QED
    BY <1>w, <2>2
<1>5. /\ w[0] = Sentinel
      /\ \A i \in 1 .. n : w[i] = x[w[i - 1]]
  <2>1. 0 \in 0 .. n /\ \A i \in 1 .. n : i \in 0 .. n /\ i # 0
    BY <1>1
  <2> QED
    BY <1>4, <2>1
<1> HIDE DEF g, F
\* The least place where they differ.
<1>6. ASSUME NEW D \in SUBSET (0 .. n), D = {i \in 0 .. n : w[i] # At(s, i)}, D # {}
      PROVE  FALSE
  <2>1. D \subseteq Nat
    BY <1>1
  <2>2. \E i \in D : \A j \in D : ~(<<j, i>> \in OpToRel(<, Nat))
    BY <1>6, <2>1, NatLessThanWellFounded, WFMin
  <2>3. PICK i \in D : \A j \in D : ~(j < i)
    BY <2>1, <2>2 DEF OpToRel
  <2>4. i # 0
    BY <1>2, <1>5, <1>6, <2>3
  <2>5. i \in 1 .. n /\ i - 1 \in 0 .. n /\ i - 1 < i /\ i - 1 + 1 = i
    BY <1>1, <2>3, <2>4
  <2>6. w[i - 1] = At(s, i - 1)
    BY <1>6, <2>3, <2>5
  <2>7. w[i] = At(s, i)
    BY <1>1, <1>5, <2>5, <2>6
  <2> QED
    BY <1>6, <2>3, <2>7
<1>7. \A i \in 0 .. n : w[i] = At(s, i)
  <2>1. PICK D : D = {i \in 0 .. n : w[i] # At(s, i)}
    OBVIOUS
  <2>2. D \in SUBSET (0 .. n)
    BY <2>1
  <2>3. D = {}
    BY <1>6, <2>1, <2>2
  <2> QED
    BY <2>1, <2>3
<1>8. \A i \in 1 .. n : i \in 0 .. n
  BY <1>1
<1> QED
  BY <1>n, <1>w, <1>2, <1>7, <1>8

LEMMA ListCounts ==
    ASSUME NEW s, NEW x, NEW U, Lists(s, x, U)
    PROVE  Cardinality(U) = Len(s)
<1>1. s \in [1 .. Len(s) -> U] /\ Len(s) \in Nat
  BY LenProperties DEF Lists
<1>2. s \in Bijection(1 .. Len(s), U)
  BY <1>1 DEF Lists, Bijection, Injection, Surjection, IsInjective
<1>3. ExistsBijection(1 .. Len(s), U)
  BY <1>2 DEF ExistsBijection
<1>4. IsFiniteSet(1 .. Len(s)) /\ Cardinality(1 .. Len(s)) = Len(s)
  <2>1. 1 \in Int /\ Len(s) \in Int
    BY <1>1
  <2>2. /\ IsFiniteSet(1 .. Len(s))
        /\ Cardinality(1 .. Len(s)) = IF 1 > Len(s) THEN 0 ELSE Len(s) - 1 + 1
    BY <2>1, FS_Interval
  <2> QED
    BY <1>1, <2>2
<1> QED
  BY <1>3, <1>4, FS_Bijection

LEMMA OrderIs ==
    ASSUME NEW s, Lists(s, next, InUse)
    PROVE  Order = EntriesOf(node, s) /\ Size = Len(s)
  BY WalkIs, ListCounts DEF Order, EntriesOf, Size

LEMMA OrderIsNext ==
    ASSUME NEW s, Lists(s, next', InUse')
    PROVE  Order' = EntriesOf(node', s) /\ Size' = Len(s)
  BY WalkIs, ListCounts DEF Order, EntriesOf, Size

-----------------------------------------------------------------------------
(* The cache is a list of entries                                          *)

ListInv == \E s : Lists(s, next, InUse)

LEMMA InUseFacts ==
    ASSUME IInv
    PROVE  /\ InUse \in SUBSET Cells /\ Sentinel \notin InUse /\ Linked = InUse \cup {Sentinel}
           /\ prev \in Links /\ next \in Links /\ Reciprocal(prev, next, InUse \cup {Sentinel})
           /\ \A n \in InUse : \E k \in Keys : data[k] = n /\ n # None
           /\ \A k \in Keys : data[k] # None =>
                 data[k] \in InUse /\ node[data[k]] \in Entries /\ node[data[k]].key = k
           /\ data \in [Keys -> Cells \cup {None}] /\ node \in [Cells -> Entries \cup {NoEntry}]
  BY DEF IInv, TypeOK, DictionaryKnowsNodes, Linked, InUse, Links

LEMMA EntriesAre ==
    ASSUME IInv, NEW s, Lists(s, next, InUse)
    PROVE  /\ EntriesOf(node, s) \in Seq(Entries)
           /\ Len(EntriesOf(node, s)) = Len(s)
           /\ \A i \in 1 .. Len(s) : EntriesOf(node, s)[i] = node[s[i]]
<1>1. s \in Seq(InUse) /\ Len(s) \in Nat /\ \A i \in 1 .. Len(s) : s[i] \in InUse
  BY DEF Lists
<1>2. \A i \in 1 .. Len(s) : node[s[i]] \in Entries
  BY <1>1, InUseFacts
<1>3. EntriesOf(node, s) \in [1 .. Len(s) -> Entries]
  BY <1>2 DEF EntriesOf
<1> QED
  BY <1>1, <1>3 DEF EntriesOf

LEMMA EntriesRemoved ==
    ASSUME IInv, NEW s, Lists(s, next, InUse), NEW j \in 1 .. Len(s)
    PROVE  Removed(EntriesOf(node, s), j) = EntriesOf(node, Removed(s, j))
<1>1. PICK e : e = EntriesOf(node, s)
  OBVIOUS
<1>2. PICK n : n = Len(s)
  OBVIOUS
<1>3. n \in Nat /\ s \in Seq(InUse) /\ Len(e) = n /\ \A i \in 1 .. n : e[i] = node[s[i]]
  <2>1. /\ Len(EntriesOf(node, s)) = Len(s)
        /\ \A i \in 1 .. Len(s) : EntriesOf(node, s)[i] = node[s[i]]
    BY EntriesAre
  <2>2. Len(s) \in Nat /\ s \in Seq(InUse)
    BY DEF Lists
  <2> QED
    BY <1>1, <1>2, <2>1, <2>2
<1>4. \A i \in 1 .. n - 1 : i \in 1 .. n /\ i + 1 \in 1 .. n
  BY <1>3
<1>5. /\ Len(Removed(s, j)) = n - 1
      /\ \A i \in 1 .. n - 1 : Removed(s, j)[i] = IF i < j THEN s[i] ELSE s[i + 1]
  BY <1>2, <1>3, RemovedIs
<1>6. Removed(e, j) = [i \in 1 .. n - 1 |-> IF i < j THEN e[i] ELSE e[i + 1]]
  BY <1>3 DEF Removed
<1>7. EntriesOf(node, Removed(s, j)) = [i \in 1 .. n - 1 |-> node[Removed(s, j)[i]]]
  BY <1>5 DEF EntriesOf
<1>8. \A i \in 1 .. n - 1 : node[Removed(s, j)[i]] = IF i < j THEN e[i] ELSE e[i + 1]
  BY <1>3, <1>4, <1>5
<1> QED
  BY <1>1, <1>6, <1>7, <1>8

\* The entry of a key is that of its node.
LEMMA PlaceIs ==
    ASSUME IInv, NEW s, Lists(s, next, InUse), NEW k \in Keys
    PROVE  /\ data[k] = None => ~Recency!Has(k) /\ Recency!Without(k) = Order
           /\ \A j \in 1 .. Len(s) : s[j] = data[k] =>
                 /\ Recency!Has(k) /\ Recency!Place(k) = j /\ Order[j] = node[data[k]]
                 /\ Recency!Without(k) = EntriesOf(node, Removed(s, j))
           /\ data[k] # None => \E j \in 1 .. Len(s) : s[j] = data[k]
<1>e. PICK e : e = EntriesOf(node, s)
  OBVIOUS
<1>1. /\ Order = e /\ e \in Seq(Entries) /\ DOMAIN e = 1 .. Len(s) /\ Len(e) = Len(s)
      /\ \A i \in 1 .. Len(s) : e[i] = node[s[i]]
  BY <1>e, OrderIs, EntriesAre
<1>2. /\ \A i \in 1 .. Len(s) : s[i] \in InUse
      /\ \A n \in InUse : \E i \in 1 .. Len(s) : s[i] = n
      /\ \A i, j \in 1 .. Len(s) : s[i] = s[j] => i = j
  <2>1. s \in Seq(InUse)
    BY DEF Lists
  <2>2. \A i \in 1 .. Len(s) : s[i] \in InUse
    BY <2>1
  <2> QED
    BY <2>2, Zenon DEF Lists
<1>3. \A i \in 1 .. Len(s) : e[i].key = k => data[k] # None /\ s[i] = data[k]
  <2>1. ASSUME NEW i \in 1 .. Len(s), e[i].key = k
        PROVE  data[k] # None /\ s[i] = data[k]
    <3>1. PICK l \in Keys : data[l] = s[i] /\ s[i] # None
      BY <1>2, InUseFacts
    <3>2. node[s[i]].key = l
      BY <3>1, InUseFacts
    <3> QED
      BY <1>1, <2>1, <3>1, <3>2
  <2> QED
    BY <2>1
<1>4. ASSUME data[k] = None
      PROVE  ~Recency!Has(k) /\ Recency!Without(k) = Order
  BY <1>1, <1>3, <1>4 DEF Recency!Has, Recency!Without
<1>5. ASSUME NEW j \in 1 .. Len(s), s[j] = data[k]
      PROVE  /\ Recency!Has(k) /\ Recency!Place(k) = j /\ Order[j] = node[data[k]]
             /\ Recency!Without(k) = EntriesOf(node, Removed(s, j))
  <2>1. s[j] \in InUse
    BY <1>2
  <2>2. data[k] # None
    BY <1>5, <2>1, InUseFacts
  <2>3. e[j] = node[data[k]] /\ e[j].key = k
    BY <1>1, <1>5, <2>2, InUseFacts
  <2>4. \A i \in 1 .. Len(s) : e[i].key = k <=> i = j
    BY <1>2, <1>3, <1>5, <2>3
  <2>5. Recency!Has(k) /\ Recency!Place(k) = j
    BY <1>1, <2>4 DEF Recency!Has, Recency!Place
  <2>6. Recency!RemoveAt(e, j) = Removed(e, j)
    BY <1>1, RemoveAtIs
  <2>7. Removed(e, j) = EntriesOf(node, Removed(s, j))
    BY <1>e, EntriesRemoved
  <2> QED
    BY <1>1, <2>3, <2>5, <2>6, <2>7 DEF Recency!Without
<1>6. ASSUME data[k] # None
      PROVE  \E j \in 1 .. Len(s) : s[j] = data[k]
  BY <1>2, <1>6, InUseFacts
<1> QED
  BY <1>4, <1>5, <1>6

\* An entry that is removed is removed from the list.
LEMMA RemoveIs ==
    ASSUME IInv, ListInv, NEW k \in Keys, data[k] # None,
           data' = [data EXCEPT ![k] = None], Unlink(data[k]), UNCHANGED node
    PROVE  ListInv' /\ Order' = Recency!Without(k)
<1>1. PICK s : Lists(s, next, InUse)
  BY DEF ListInv
<1>2. PICK j \in 1 .. Len(s) : s[j] = data[k]
  BY <1>1, PlaceIs
<1>3. Recency!Without(k) = EntriesOf(node, Removed(s, j))
  BY <1>1, <1>2, PlaceIs
<1>4. Lists(Removed(s, j), UnlinkedNext(data[k]), InUse \ {data[k]})
  BY <1>1, <1>2, ListsUnlinked, InUseFacts
<1>5. InUse' = InUse \ {data[k]}
  BY LinkedFacts, InUseFacts DEF InUse
<1>6. Lists(Removed(s, j), next', InUse')
  BY <1>4, <1>5 DEF Unlink
<1>7. Order' = EntriesOf(node', Removed(s, j))
  BY <1>6, OrderIsNext
<1> QED
  BY <1>3, <1>6, <1>7 DEF ListInv

\* Nothing happens to the list when nothing does to nodes and links.
LEMMA ListStays ==
    ASSUME IInv, ListInv, UNCHANGED <<data, prev, next, node>>
    PROVE  ListInv' /\ Order' = Order
<1>1. PICK s : Lists(s, next, InUse)
  BY DEF ListInv
<1>2. InUse' = InUse
  BY DEF InUse
<1>3. Lists(s, next', InUse')
  BY <1>1, <1>2
<1>4. Order' = EntriesOf(node', s) /\ Order = EntriesOf(node, s)
  BY <1>1, <1>3, OrderIs, OrderIsNext
<1> QED
  BY <1>3, <1>4 DEF ListInv

LEMMA DropIs ==
    ASSUME IInv, ListInv, NEW k \in Keys, Drop(k), UNCHANGED node
    PROVE  ListInv' /\ Order' = Recency!Without(k)
<1>1. CASE data[k] = None
  <2>1. PICK s : Lists(s, next, InUse)
    BY DEF ListInv
  <2> QED
    BY <1>1, <2>1, PlaceIs, ListStays DEF Drop, ring
<1>2. CASE data[k] # None
  BY <1>2, RemoveIs DEF Drop
<1> QED
  BY <1>1, <1>2

\* A node that is linked in after the sentinel brings its entry to the front.
LEMMA LinkIs ==
    ASSUME NEW U \in SUBSET Cells, Sentinel \notin U, NEW p, NEW x \in Links,
           NEW s, Lists(s, x, U), NEW c \in Cells \ (U \cup {Sentinel}),
           LinkAfter(p, x, c, Sentinel), InUse' = U \cup {c},
           \A i \in 1 .. Len(s) : node'[s[i]] \in Entries, node'[c] \in Entries
    PROVE  ListInv' /\ Order' = <<node'[c]>> \o EntriesOf(node', s)
<1>1. Lists(Pushed(c, s), next', InUse')
  BY ListsLinked
<1>2. Order' = EntriesOf(node', Pushed(c, s))
  BY <1>1, OrderIsNext
<1>n. PICK n : n = Len(s)
  OBVIOUS
<1>m. PICK nd : nd = node'
  OBVIOUS
<1>e. PICK e : e = EntriesOf(nd, s)
  OBVIOUS
<1>3. n \in Nat /\ s \in Seq(U)
  BY <1>n DEF Lists
<1>4. /\ Len(Pushed(c, s)) = n + 1
      /\ \A i \in 1 .. n + 1 : Pushed(c, s)[i] = IF i = 1 THEN c ELSE s[i - 1]
  <2>1. n + 1 \in Nat
    BY <1>3
  <2>2. Pushed(c, s) = [i \in 1 .. n + 1 |-> IF i = 1 THEN c ELSE s[i - 1]]
    BY <1>n DEF Pushed
  <2> QED
    BY <2>1, <2>2
<1>5. e \in Seq(Entries) /\ Len(e) = n /\ \A i \in 1 .. n : e[i] = nd[s[i]]
  <2>1. e \in [1 .. n -> Entries]
    BY <1>n, <1>m, <1>e DEF EntriesOf
  <2> QED
    BY <1>n, <1>e, <1>3, <2>1 DEF EntriesOf
<1>6. <<nd[c]>> \o e = Pushed(nd[c], e)
  BY <1>m, <1>5, PushIs
<1>7. Pushed(nd[c], e) = [i \in 1 .. n + 1 |-> IF i = 1 THEN nd[c] ELSE e[i - 1]]
  BY <1>5 DEF Pushed
<1>8. EntriesOf(nd, Pushed(c, s)) = [i \in 1 .. n + 1 |-> nd[Pushed(c, s)[i]]]
  BY <1>4 DEF EntriesOf
<1>9. \A i \in 1 .. n + 1 : nd[Pushed(c, s)[i]] = IF i = 1 THEN nd[c] ELSE e[i - 1]
  <2>1. \A i \in 1 .. n + 1 : i # 1 => i - 1 \in 1 .. n
    BY <1>3
  <2> QED
    BY <1>4, <1>5, <2>1
<1>10. EntriesOf(nd, Pushed(c, s)) = <<nd[c]>> \o e
  BY <1>6, <1>7, <1>8, <1>9
<1> QED
  BY <1>m, <1>e, <1>1, <1>2, <1>10 DEF ListInv

\* Each call is one of the list, and each eviction one of its last entry.
LEMMA GetIs ==
    ASSUME IInv, ListInv, NEW k \in Keys, Get(k)
    PROVE  ListInv' /\ Recency!Next
<1>1. putting = NoEntry /\ putting = Recency!Nothing
      /\ UNCHANGED <<node, max_size, now, putting>>
  BY DEF Get, Free, NoEntry, Recency!Nothing, Recency!Entry
<1>2. PICK s : Lists(s, next, InUse)
  BY DEF ListInv
<1>3. CASE data[k] = None
  <2>1. reply' = None /\ UNCHANGED <<data, prev, next>>
    BY <1>3 DEF Get, ring
  <2>2. ListInv' /\ Order' = Order /\ ~Recency!Has(k) /\ Recency!Without(k) = Order
    BY <1>1, <1>2, <1>3, <2>1, ListStays, PlaceIs
  <2>3. Recency!MissOf(k)
    BY <1>1, <2>1, <2>2 DEF Recency!MissOf
  <2> QED
    BY <2>2, <2>3 DEF Recency!Next
<1>4. CASE data[k] # None /\ Expired(data[k])
  <2>1. /\ data' = [data EXCEPT ![k] = None] /\ Unlink(data[k]) /\ reply' = None
    BY <1>4 DEF Get
  <2>2. ListInv' /\ Order' = Recency!Without(k)
    BY <1>1, <1>4, <2>1, RemoveIs
  <2>3. PICK j \in 1 .. Len(s) : s[j] = data[k]
    BY <1>2, <1>4, PlaceIs
  <2>4. Recency!Place(k) = j /\ Order[j] = node[data[k]]
    BY <1>2, <2>3, PlaceIs
  <2>5. node[data[k]].value \in {v \in Answers : Lifetime[v] <= now}
    BY <1>4, InUseFacts DEF Expired, Entries
  <2>6. Recency!MissOf(k)
    BY <1>1, <2>1, <2>2, <2>4, <2>5 DEF Recency!MissOf
  <2> QED
    BY <2>2, <2>6 DEF Recency!Next
<1>5. CASE data[k] # None /\ ~Expired(data[k])
  <2> DEFINE n == data[k]
             p == UnlinkedPrev(n)
             x == UnlinkedNext(n)
             U == InUse \ {n}
             v == node[n].value
  <2>1. LinkAfter(p, x, n, Sentinel) /\ reply' = v /\ UNCHANGED data
    BY <1>5 DEF Get
  <2>2. /\ n \in InUse /\ node[n] \in Entries /\ node[n].key = k /\ v \in Answers
        /\ node[n] = Recency!Entry(k, v)
    BY <1>5, InUseFacts DEF Entries, Recency!Entry
  <2>3. PICK j \in 1 .. Len(s) : s[j] = n
    BY <1>2, <1>5, PlaceIs
  <2>4. /\ Recency!Has(k) /\ Recency!Place(k) = j /\ Order[j] = node[n]
        /\ Recency!Without(k) = EntriesOf(node, Removed(s, j))
    BY <1>2, <2>3, PlaceIs
  <2>r. PICK r : r = Removed(s, j)
    OBVIOUS
  <2>5. Lists(r, x, U)
    BY <1>2, <2>3, <2>r, ListsUnlinked, InUseFacts
  <2>6. /\ U \in SUBSET Cells /\ Sentinel \notin U /\ n \in Cells \ (U \cup {Sentinel})
        /\ InUse' = U \cup {n} /\ x \in Links
    <3>1. InUse' = InUse
      BY <2>1 DEF InUse
    <3>2. x \in Links
      BY <2>2, InUseFacts DEF UnlinkedNext, Links
    <3> QED
      BY <2>2, <3>1, <3>2, InUseFacts
  <2>7. (\A i \in 1 .. Len(r) : node'[r[i]] \in Entries) /\ node'[n] \in Entries
    <3>1. \A i \in 1 .. Len(r) : r[i] \in U
      BY <2>5 DEF Lists
    <3>2. \A m \in InUse : node[m] \in Entries
      BY InUseFacts
    <3> QED
      BY <1>1, <2>2, <3>1, <3>2
  <2> HIDE DEF n, p, x, U, v
  <2>8. ListInv' /\ Order' = <<node'[n]>> \o EntriesOf(node', r)
    BY <2>1, <2>5, <2>6, <2>7, LinkIs
  <2>9. Order' = <<Recency!Entry(k, v)>> \o Recency!Without(k)
    BY <1>1, <2>2, <2>4, <2>r, <2>8
  <2>10. v \notin {a \in Answers : Lifetime[a] <= now}
    BY <1>5 DEF Expired, n, v
  <2>11. Recency!Hit(k, v)
    BY <1>1, <2>1, <2>2, <2>4, <2>9, <2>10 DEF Recency!Hit
  <2> QED
    BY <2>2, <2>8, <2>11 DEF Recency!Next
<1> QED
  BY <1>3, <1>4, <1>5

LEMMA PutBeginIs ==
    ASSUME IInv, ListInv, NEW k \in Keys, NEW v \in Answers, PutBegin(k, v)
    PROVE  ListInv' /\ Recency!Next
<1>1. /\ putting = Recency!Nothing /\ putting' = Recency!Entry(k, v)
      /\ UNCHANGED <<node, max_size, now, reply>> /\ Drop(k)
  BY DEF PutBegin, Free, NoEntry, Recency!Nothing, Recency!Entry
<1>2. ListInv' /\ Order' = Recency!Without(k)
  BY <1>1, DropIs
<1>3. Recency!Put(k, v)
  BY <1>1, <1>2 DEF Recency!Put
<1> QED
  BY <1>2, <1>3 DEF Recency!Next

LEMMA FlushKeyIs ==
    ASSUME IInv, ListInv, NEW k \in Keys, FlushKey(k)
    PROVE  ListInv' /\ Recency!Next
<1>1. /\ putting = Recency!Nothing
      /\ UNCHANGED <<node, max_size, now, putting, reply>> /\ Drop(k)
  BY DEF FlushKey, Free, NoEntry, Recency!Nothing, Recency!Entry
<1>2. ListInv' /\ Order' = Recency!Without(k)
  BY <1>1, DropIs
<1>3. Recency!Flush(k)
  BY <1>1, <1>2 DEF Recency!Flush
<1> QED
  BY <1>2, <1>3 DEF Recency!Next

\* A cache that is full has entries, and the oldest one is the last.
LEMMA EvictIs ==
    ASSUME IInv, ListInv, Evict
    PROVE  ListInv' /\ Recency!Next
<1>1. /\ putting # Recency!Nothing /\ Size >= max_size /\ Unlink(Oldest)
      /\ data' = [data EXCEPT ![node[Oldest].key] = None]
      /\ UNCHANGED <<node, max_size, now, putting, reply>>
  BY DEF Evict, Free, NoEntry, Recency!Nothing, Recency!Entry
<1>2. PICK s : Lists(s, next, InUse)
  BY DEF ListInv
<1>n. PICK n : n = Len(s)
  OBVIOUS
<1>e. PICK e : e = EntriesOf(node, s)
  OBVIOUS
<1>3. n \in Nat /\ n >= 1 /\ n \in 1 .. n /\ n \in 0 .. n /\ Size = n
  <2>1. Size = n /\ n \in Nat
    BY <1>2, <1>n, OrderIs DEF Lists
  <2>2. max_size \in Nat /\ max_size >= 1
    BY CacheAssumption DEF IInv, TypeOK
  <2> QED
    BY <1>1, <2>1, <2>2
<1>4. s[n] \in InUse /\ At(s, n) = s[n] /\ At(s, n + 1) = Sentinel
  BY <1>2, <1>n, <1>3 DEF Lists, At
<1>5. next[s[n]] = Sentinel
  BY <1>2, <1>n, <1>3, <1>4 DEF Lists
<1>6. Oldest = s[n]
  BY <1>4, <1>5, InUseFacts DEF Reciprocal, Oldest
<1>7. PICK k \in Keys : data[k] = s[n] /\ data[k] # None
  BY <1>4, InUseFacts
<1>8. node[Oldest].key = k
  BY <1>6, <1>7, InUseFacts
<1>9. ListInv' /\ Order' = Recency!Without(k)
  BY <1>1, <1>6, <1>7, <1>8, RemoveIs
<1>10. Recency!Without(k) = EntriesOf(node, Removed(s, n))
  BY <1>2, <1>n, <1>3, <1>7, PlaceIs
<1>11. /\ Order = e /\ e \in Seq(Entries) /\ Len(e) = n /\ e # <<>>
  <2>1. Order = e /\ e \in Seq(Entries) /\ Len(e) = n
    BY <1>2, <1>n, <1>e, OrderIs, EntriesAre
  <2> QED
    BY <1>3, <2>1
<1>12. Recency!Front(e) = Removed(e, n)
  BY <1>11, FrontIs
<1>13. Removed(e, n) = EntriesOf(node, Removed(s, n))
  BY <1>2, <1>n, <1>e, <1>3, EntriesRemoved
<1>14. Recency!Evict
  BY <1>1, <1>3, <1>9, <1>10, <1>11, <1>12, <1>13 DEF Recency!Evict
<1> QED
  BY <1>9, <1>14 DEF Recency!Next

LEMMA PutEndIs ==
    ASSUME IInv, ListInv, NEW c \in Cells, PutEnd(c)
    PROVE  ListInv' /\ Recency!Next
<1>1. /\ putting # NoEntry /\ Size < max_size /\ c \notin InUse \cup {Sentinel}
      /\ node' = [node EXCEPT ![c] = putting]
      /\ LinkAfter(prev, next, c, Sentinel)
      /\ data' = [data EXCEPT ![putting.key] = c]
      /\ putting' = NoEntry
      /\ UNCHANGED <<max_size, now, reply>>
  BY DEF PutEnd, Free
<1>2. putting \in Entries /\ putting.key \in Keys /\ data[putting.key] = None
  BY <1>1 DEF IInv, TypeOK, Entries, PutDropped
<1>3. PICK s : Lists(s, next, InUse)
  BY DEF ListInv
<1>4. InUse' = InUse \cup {c}
  BY <1>1, <1>2, InUseFacts, CacheAssumption DEF InUse
<1>5. \A i \in 1 .. Len(s) : s[i] \in InUse
  BY <1>3 DEF Lists
<1>6. /\ node'[c] = putting
      /\ \A m \in InUse : node'[m] = node[m] /\ node[m] \in Entries
  BY <1>1, InUseFacts
<1>7. ListInv' /\ Order' = <<node'[c]>> \o EntriesOf(node', s)
  <2>1. /\ InUse \in SUBSET Cells /\ Sentinel \notin InUse /\ next \in Links
        /\ c \in Cells \ (InUse \cup {Sentinel})
    BY <1>1, InUseFacts
  <2>2. (\A i \in 1 .. Len(s) : node'[s[i]] \in Entries) /\ node'[c] \in Entries
    BY <1>2, <1>5, <1>6
  <2> QED
    BY <1>1, <1>3, <1>4, <2>1, <2>2, LinkIs
<1>8. EntriesOf(node', s) = EntriesOf(node, s)
  BY <1>5, <1>6 DEF EntriesOf
<1>9. Order = EntriesOf(node, s) /\ Len(Order) = Size
  BY <1>3, OrderIs, EntriesAre
<1>10. putting # Recency!Nothing /\ putting' = Recency!Nothing
  BY <1>1 DEF NoEntry, Recency!Nothing, Recency!Entry
<1>11. Recency!Insert
  BY <1>1, <1>6, <1>7, <1>8, <1>9, <1>10 DEF Recency!Insert
<1> QED
  BY <1>7, <1>11 DEF Recency!Next

\* The list of an empty ring is empty.
LEMMA EmptyLists ==
    ASSUME NEW x, x[Sentinel] = Sentinel
    PROVE  Lists(<<>>, x, {}) /\ \A nd : EntriesOf(nd, <<>>) = <<>>
<1>1. <<>> \in Seq({}) /\ Len(<<>>) = 0 /\ \A i \in 0 .. 0 : i = 0
  OBVIOUS
<1>2. At(<<>>, 0) = Sentinel /\ At(<<>>, 0 + 1) = Sentinel
  BY <1>1 DEF At
<1>3. ASSUME NEW nd
      PROVE  EntriesOf(nd, <<>>) = <<>>
  <2>1. EntriesOf(nd, <<>>) \in [1 .. 0 -> {}]
    BY <1>1 DEF EntriesOf
  <2> QED
    BY <2>1
<1> QED
  BY <1>1, <1>2, <1>3 DEF Lists

LEMMA FlushAllIs ==
    ASSUME IInv, ListInv, FlushAll
    PROVE  ListInv' /\ Recency!Next
<1>1. /\ putting = Recency!Nothing /\ next'[Sentinel] = Sentinel
      /\ data' = [k \in Keys |-> None]
      /\ UNCHANGED <<node, max_size, now, putting, reply>>
  BY CacheAssumption, InUseFacts DEF FlushAll, Free, NoEntry, Recency!Nothing, Recency!Entry, Links
<1>2. InUse' = {}
  BY <1>1 DEF InUse
<1>3. Lists(<<>>, next', InUse')
  BY <1>1, <1>2, EmptyLists
<1>4. Order' = <<>>
  <2>1. Order' = EntriesOf(node', <<>>)
    BY <1>3, OrderIsNext
  <2> QED
    BY <1>1, <2>1, EmptyLists
<1>5. Recency!Clear
  BY <1>1, <1>4 DEF Recency!Clear
<1> QED
  BY <1>3, <1>5 DEF ListInv, Recency!Next

LEMMA RecencyStep ==
    ASSUME IInv, ListInv, [Next]_vars
    PROVE  ListInv' /\ [Recency!Next]_Recency!vars
<1>1. CASE \E k \in Keys : Get(k) \/ FlushKey(k)
  BY <1>1, GetIs, FlushKeyIs
<1>2. CASE \E k \in Keys, v \in Answers : PutBegin(k, v)
  BY <1>2, PutBeginIs
<1>3. CASE Evict
  BY <1>3, EvictIs
<1>4. CASE \E n \in Cells : PutEnd(n)
  BY <1>4, PutEndIs
<1>5. CASE FlushAll
  BY <1>5, FlushAllIs
<1>6. CASE \E n \in 0 .. MaxSize : SetMaxSize(n)
  <2>1. PICK n \in 0 .. MaxSize : SetMaxSize(n)
    BY <1>6
  <2>2. max_size' \in 1 .. MaxSize
    BY <2>1, CacheAssumption DEF SetMaxSize
  <2>3. UNCHANGED <<data, prev, next, node, now, putting, reply>>
    BY <2>1 DEF SetMaxSize, ring
  <2>4. ListInv' /\ Order' = Order
    BY <2>3, ListStays
  <2>5. Recency!Resize(max_size')
    BY <2>3, <2>4 DEF Recency!Resize
  <2> QED
    BY <2>2, <2>4, <2>5 DEF Recency!Next
<1>7. CASE Tick
  <2>1. now' = now + 1 /\ UNCHANGED <<data, prev, next, node, max_size, putting, reply>>
    BY <1>7 DEF Tick, ring
  <2>2. ListInv' /\ Order' = Order
    BY <2>1, ListStays
  <2>3. PICK V : V = {v \in Answers : Lifetime[v] <= now'}
    OBVIOUS
  <2>4. {v \in Answers : Lifetime[v] <= now} \subseteq V /\ V \in SUBSET Answers
    BY <2>1, <2>3, CacheAssumption DEF IInv, TypeOK
  <2>5. Recency!Age(V)
    BY <2>1, <2>2, <2>3, <2>4 DEF Recency!Age
  <2> QED
    BY <2>2, <2>4, <2>5 DEF Recency!Next
<1>8. CASE UNCHANGED vars
  <2>1. UNCHANGED <<data, prev, next, node, max_size, now, putting, reply>>
    BY <1>8 DEF vars, ring
  <2>2. ListInv' /\ Order' = Order
    BY <2>1, ListStays
  <2> QED
    BY <2>1, <2>2 DEF Recency!vars
<1> QED
  BY <1>1, <1>2, <1>3, <1>4, <1>5, <1>6, <1>7, <1>8 DEF Next

LEMMA RecencyInitially == Init => ListInv /\ Recency!Init
<1> SUFFICES ASSUME Init
             PROVE  ListInv /\ Recency!Init
  OBVIOUS
<1>1. next[Sentinel] = Sentinel /\ InUse = {}
  BY CacheAssumption DEF Init, InUse
<1>2. Lists(<<>>, next, InUse)
  BY <1>1, EmptyLists
<1>3. Order = <<>>
  <2>1. Order = EntriesOf(node, <<>>)
    BY <1>2, OrderIs
  <2> QED
    BY <1>1, <2>1, EmptyLists
<1> QED
  BY <1>2, <1>3 DEF ListInv, Init, NoEntry, Recency!Init, Recency!Nothing, Recency!Entry

\* However calls of any number of threads interleave and however the size is
\* changed between two evictions, the ring and the dictionary are a list of
\* entries in the order of their last use: a get returns what was put last,
\* and a put into a full cache drops the entry not used for longest.
THEOREM RecencyListIsImplemented == Spec => ImplementsRecencyList
<1>1. Init => IInv /\ ListInv /\ Recency!Init
  BY Initially, RecencyInitially
<1>2. IInv /\ ListInv /\ [Next]_vars => IInv' /\ ListInv' /\ [Recency!Next]_Recency!vars
  BY Step, RecencyStep
<1> QED
  BY <1>1, <1>2, PTL DEF Spec, ImplementsRecencyList, Recency!Spec

-----------------------------------------------------------------------------
(* The dictionary of names                                                 *)

\* A bounded set of numbers has a greatest one.
LEMMA GreatestExists ==
    ASSUME NEW S \in SUBSET Nat, S # {}, NEW b \in Nat, \A s \in S : s <= b
    PROVE  \E m \in S : \A s \in S : s <= m
<1> DEFINE Bounds == {u \in Nat : \A s \in S : s <= u}
<1>1. \E u \in Bounds : \A v \in Bounds : ~(<<v, u>> \in OpToRel(<, Nat))
  <2>1. Bounds \subseteq Nat /\ Bounds # {}
    OBVIOUS
  <2> HIDE DEF Bounds
  <2> QED
    BY <2>1, NatLessThanWellFounded, WFMin
<1>2. PICK u \in Bounds : \A v \in Bounds : ~(v < u)
  BY <1>1 DEF OpToRel
<1>3. CASE u \in S
  BY <1>3
<1>4. CASE u \notin S
  <2>1. u \in Nat /\ \A s \in S : s <= u /\ s # u /\ s \in Nat
    BY <1>4
  <2>2. PICK s \in S : TRUE
    OBVIOUS
  <2>3. u > 0 /\ u - 1 \in Nat
    BY <2>1, <2>2
  <2>4. \A t \in S : t <= u - 1
    BY <2>1
  <2>5. u - 1 \in Bounds
    BY <2>3, <2>4
  <2> QED
    BY <1>2, <2>3, <2>5
<1> QED
  BY <1>3, <1>4

\* No name is longer than max_depth, and as many names as there are of that
\* length are counted, or more when one was stored twice.
Deep(S, d) == {n \in S : Len(n) = d}
CountCovers == /\ store \subseteq DictNames /\ IsFiniteSet(store)
               /\ max_depth \in Nat /\ max_depth_items \in Nat
               /\ \A n \in store : Len(n) <= max_depth
               /\ Cardinality(Deep(store, max_depth)) <= max_depth_items

LEMMA NamesHaveLengths ==
    ASSUME MaxDepth \in Nat, NEW n \in DictNames
    PROVE  Len(n) \in 0 .. MaxDepth /\ n \in Seq(DictLabels)
  BY DEF DictNames

LEMMA DeepestIs ==
    ASSUME MaxDepth \in Nat, NEW S \in SUBSET DictNames
    PROVE  Deepest(S) \in Nat /\ \A n \in S : Len(n) <= Deepest(S)
<1> DEFINE D == {Len(n) : n \in S} \cup {0}
<1>1. D \in SUBSET Nat /\ D # {} /\ \A d \in D : d <= MaxDepth
  BY NamesHaveLengths
<1>2. PICK m \in D : \A d \in D : d <= m
  BY <1>1, GreatestExists
<1>3. \A n \in S : Len(n) <= m
  BY <1>2
<1> QED
  BY <1>1, <1>2, <1>3 DEF Deepest

LEMMA DeepFinite ==
    ASSUME NEW S, IsFiniteSet(S), NEW d
    PROVE  IsFiniteSet(Deep(S, d)) /\ Cardinality(Deep(S, d)) \in Nat
<1>1. Deep(S, d) \in SUBSET S
  BY DEF Deep
<1> QED
  BY <1>1, FS_Subset, FS_CardinalityType

LEMMA SetItemCovers ==
    ASSUME MaxDepth \in Nat, CountCovers, NEW n \in DictNames, SetItem(n)
    PROVE  CountCovers'
<1>1. store' = store \cup {n} /\ IsFiniteSet(store') /\ store' \subseteq DictNames
  BY FS_AddElement DEF SetItem, CountCovers
<1>2. Len(n) \in Nat /\ \A m \in store : Len(m) \in Nat /\ Len(m) <= max_depth
  BY NamesHaveLengths DEF CountCovers
<1>3. CASE Len(n) = max_depth /\ max_depth_items' = max_depth_items + 1 /\ UNCHANGED max_depth
  <2>1. Deep(store', max_depth) = Deep(store, max_depth) \cup {n}
    BY <1>1, <1>3 DEF Deep
  <2>2. IsFiniteSet(Deep(store, max_depth)) /\ Cardinality(Deep(store, max_depth)) \in Nat
    BY DeepFinite DEF CountCovers
  <2>3. Cardinality(Deep(store', max_depth)) <= Cardinality(Deep(store, max_depth)) + 1
    BY <2>1, <2>2, FS_AddElement
  <2>4. Cardinality(Deep(store', max_depth)) \in Nat
    BY <1>1, DeepFinite
  <2>5. Cardinality(Deep(store', max_depth')) <= max_depth_items'
    BY <1>3, <2>2, <2>3, <2>4 DEF CountCovers
  <2> QED
    BY <1>1, <1>2, <1>3, <2>5 DEF CountCovers
<1>4. CASE Len(n) > max_depth /\ max_depth_items' = 1 /\ max_depth' = Len(n)
  <2>1. Deep(store', max_depth') = {n}
    BY <1>1, <1>2, <1>4 DEF Deep, CountCovers
  <2>2. Cardinality(Deep(store', max_depth')) = 1
    BY <2>1, FS_Singleton
  <2> QED
    BY <1>1, <1>2, <1>4, <2>2 DEF CountCovers
<1>5. CASE Len(n) < max_depth /\ UNCHANGED <<max_depth, max_depth_items>>
  <2>1. Deep(store', max_depth') = Deep(store, max_depth)
    BY <1>1, <1>2, <1>5 DEF Deep, CountCovers
  <2> QED
    BY <1>1, <1>2, <1>5, <2>1 DEF CountCovers
<1> QED
  BY <1>3, <1>4, <1>5 DEF SetItem

LEMMA DeleteItemCovers ==
    ASSUME MaxDepth \in Nat, CountCovers, NEW n \in DictNames, DeleteItem(n)
    PROVE  CountCovers'
<1> DEFINE left == store \ {n}
<1>1. /\ n \in store /\ store' = left /\ left \subseteq DictNames /\ IsFiniteSet(left)
  BY FS_RemoveElement DEF DeleteItem, CountCovers
<1>2. Len(n) \in Nat /\ \A m \in store : Len(m) \in Nat /\ Len(m) <= max_depth
  BY NamesHaveLengths DEF CountCovers
<1>3. CASE CountAfter(n) = 0
  <2>1. max_depth' = Deepest(left) /\ max_depth_items' = Cardinality(Deep(left, Deepest(left)))
    BY <1>3 DEF DeleteItem, Deep
  <2>2. max_depth' \in Nat /\ \A m \in left : Len(m) <= max_depth'
    BY <1>1, <2>1, DeepestIs
  <2>3. Cardinality(Deep(left, max_depth')) \in Nat
    BY <1>1, DeepFinite
  <2> QED
    BY <1>1, <2>1, <2>2, <2>3, SMTT(30) DEF CountCovers
<1>4. CASE CountAfter(n) # 0
  <2>1. max_depth_items' = CountAfter(n) /\ max_depth' = max_depth
    BY <1>4 DEF DeleteItem
  <2>2. IsFiniteSet(Deep(store, max_depth)) /\ Cardinality(Deep(store, max_depth)) \in Nat
    BY DeepFinite DEF CountCovers
  <2>3. Deep(left, max_depth) = Deep(store, max_depth) \ {n}
    BY DEF Deep
  <2>4. Cardinality(Deep(left, max_depth)) =
          IF n \in Deep(store, max_depth) THEN Cardinality(Deep(store, max_depth)) - 1
          ELSE Cardinality(Deep(store, max_depth))
    BY <2>2, <2>3, FS_RemoveElement
  <2>5. n \in Deep(store, max_depth) <=> Len(n) = max_depth
    BY <1>1 DEF Deep
  <2>6. Cardinality(Deep(left, max_depth)) \in Nat
    BY <1>1, DeepFinite
  <2>7. Cardinality(Deep(left, max_depth)) <= CountAfter(n) /\ CountAfter(n) \in Nat
    BY <2>2, <2>4, <2>5, <2>6 DEF CountCovers, CountAfter
  <2> QED
    BY <1>1, <1>2, <2>1, <2>7 DEF CountCovers
<1> QED
  BY <1>3, <1>4

\* The search starts deep enough.
LEMMA CoveredIsFound ==
    ASSUME MaxDepth \in Nat, CountCovers
    PROVE  DeepestIsFound
<1> SUFFICES ASSUME NEW n \in DictNames, NEW d \in 0 .. MaxDepth,
                    d <= Len(n), Suffix(n, d) \in store
             PROVE  Len(GetDeepestMatch(n)) >= d
  BY DEF DeepestIsFound
<1> DEFINE depth == IF Len(n) > max_depth THEN max_depth ELSE Len(n)
           found == {e \in 1 .. depth : Suffix(n, e) \in store}
<1>1. n \in Seq(DictLabels) /\ Len(n) \in Nat /\ max_depth \in Nat
  BY NamesHaveLengths DEF CountCovers
<1>2. \A e \in 0 .. Len(n) : Len(Suffix(n, e)) = e
  BY <1>1, SubSeqProperties DEF Suffix
<1>3. found # {} => \E m \in found : \A e \in found : e <= m
  <2>1. found \in SUBSET Nat /\ depth \in Nat /\ \A e \in found : e <= depth
    BY <1>1
  <2> HIDE DEF found
  <2> QED
    BY <2>1, GreatestExists
<1>4. GetDeepestMatch(n) =
        IF found # {} THEN Suffix(n, CHOOSE m \in found : \A e \in found : e <= m) ELSE <<>>
  BY DEF GetDeepestMatch
<1>5. CASE d = 0
  <2>1. found # {} => Len(GetDeepestMatch(n)) \in Nat
    BY <1>1, <1>2, <1>3, <1>4
  <2>2. found = {} => Len(GetDeepestMatch(n)) = 0
    BY <1>4
  <2> QED
    BY <1>5, <2>1, <2>2
<1>6. CASE d # 0
  <2>1. d \in found
    BY <1>1, <1>2, <1>6 DEF CountCovers
  <2>2. PICK m \in found : /\ \A e \in found : e <= m
                           /\ m = CHOOSE c \in found : \A e \in found : e <= c
    BY <1>3, <2>1
  <2>3. GetDeepestMatch(n) = Suffix(n, m) /\ m >= d /\ m \in 0 .. Len(n)
    BY <1>1, <1>4, <2>1, <2>2
  <2> QED
    BY <1>2, <2>3
<1> QED
  BY <1>5, <1>6

\* However names come and go, some of them stored again and again and so
\* counted too often, the match of a name is its longest suffix in the
\* dictionary (NameDict.__setitem__, __delitem__, get_deepest_match), for
\* labels and depths without bound.
THEOREM DeepestIsFoundTheorem ==
    ASSUME MaxDepth \in Nat
    PROVE  NameDictInit /\ [][NameDictNext]_namedictVars => []DeepestIsFound
<1>1. NameDictInit => CountCovers
  <2> SUFFICES ASSUME NameDictInit PROVE CountCovers
    OBVIOUS
  <2>1. Deep(store, max_depth) = {} /\ IsFiniteSet(store)
    BY FS_EmptySet DEF NameDictInit, Deep
  <2> QED
    BY <2>1, FS_EmptySet DEF NameDictInit, CountCovers
<1>2. CountCovers /\ [NameDictNext]_namedictVars => CountCovers'
  <2> SUFFICES ASSUME CountCovers, [NameDictNext]_namedictVars PROVE CountCovers'
    OBVIOUS
  <2>1. CASE UNCHANGED namedictVars
    BY <2>1 DEF namedictVars, CountCovers
  <2>2. CASE NameDictNext
    BY <2>2, SetItemCovers, DeleteItemCovers DEF NameDictNext
  <2> QED
    BY <2>1, <2>2
<1>3. CountCovers => DeepestIsFound
  BY CoveredIsFound
<1> QED
  BY <1>1, <1>2, <1>3, PTL

-----------------------------------------------------------------------------
(* Names and their neighbours.  A name is compared from the right, without *)
(* regard to case.  All that comes after a name either comes after all     *)
(* that is below it too (Above), or is below it (Under); the proofs of the *)
(* neighbours are about these two.                                         *)

Label == Seq(NameOctets)
LabelLists == Seq(Label)

\* A set of numbers has a least one.
LEMMA LeastExists ==
    ASSUME NEW S \in SUBSET Nat, S # {}
    PROVE  \E m \in S : \A s \in S : m <= s
<1>1. PICK u \in S : \A v \in S : ~(<<v, u>> \in OpToRel(<, Nat))
  BY NatLessThanWellFounded, WFMin
<1>2. ASSUME NEW v \in S PROVE u <= v
  <2>1. u \in Nat /\ v \in Nat
    OBVIOUS
  <2>2. ~(v < u)
    BY <1>1, <2>1 DEF OpToRel
  <2> QED
    BY <2>1, <2>2
<1> QED
  BY <1>2

-----------------------------------------------------------------------------
(* Labels *)

LEMMA OctetFacts ==
    /\ NameOctets \subseteq Nat /\ UpperCase \subseteq NameOctets
    /\ MinimalOctet \in NameOctets \ UpperCase /\ MaximalOctet \in NameOctets \ UpperCase
    /\ AtSign \in NameOctets \ UpperCase /\ LeftBracket \in NameOctets \ UpperCase
    /\ \A c \in NameOctets : /\ LowerCase(c) \in NameOctets \ UpperCase
                             /\ c \notin UpperCase => LowerCase(c) = c
                             /\ MinimalOctet <= c /\ c <= MaximalOctet
  BY OctetsAreInOrder DEF NameOctets, UpperCase, LowerCase

LEMMA OctetIs ==
    ASSUME NEW c \in NameOctets
    PROVE  /\ c \in Nat /\ MinimalOctet \in Nat /\ MaximalOctet \in Nat
           /\ MinimalOctet <= c /\ c <= MaximalOctet
  BY OctetFacts

\* The octets beside one that is lower case, and between which there is no other.
LEMMA OctetsBeside ==
    ASSUME NEW c \in NameOctets
    PROVE  /\ c # MinimalOctet => OctetBefore(c) \in NameOctets /\ OctetBefore(c) < c
           /\ c # MaximalOctet => OctetAfter(c) \in NameOctets /\ c < OctetAfter(c)
           /\ c \notin UpperCase =>
                /\ c # MinimalOctet => OctetBefore(c) \notin UpperCase
                /\ c # MaximalOctet => OctetAfter(c) \notin UpperCase
                /\ \A d \in NameOctets \ UpperCase : /\ OctetBefore(c) < d => c <= d
                                                     /\ c < d => OctetAfter(c) <= d
  BY OctetsAreInOrder DEF NameOctets, UpperCase, OctetBefore, OctetAfter

LEMMA LowerIs ==
    ASSUME NEW l \in Label
    PROVE  /\ LowerLabel(l) \in Label /\ Len(LowerLabel(l)) = Len(l)
           /\ \A i \in 1..Len(l) : /\ LowerLabel(l)[i] = LowerCase(l[i])
                                   /\ LowerLabel(l)[i] \in NameOctets \ UpperCase
                                   /\ l[i] \in NameOctets
<1>1. Len(l) \in Nat /\ DOMAIN l = 1..Len(l) /\ \A i \in 1..Len(l) : l[i] \in NameOctets
  BY DEF Label
<1>2. \A i \in 1..Len(l) : LowerLabel(l)[i] = LowerCase(l[i]) /\ LowerCase(l[i]) \in NameOctets \ UpperCase
  BY <1>1, OctetFacts DEF LowerLabel
<1>3. LowerLabel(l) \in [1..Len(l) -> NameOctets]
  BY <1>1, <1>2 DEF LowerLabel
<1>4. LowerLabel(l) \in Seq(NameOctets) /\ Len(LowerLabel(l)) = Len(l)
  BY <1>1, <1>3
<1> QED
  BY <1>1, <1>2, <1>4 DEF Label

\* Once lowered, a label stays.
LEMMA LowerStays ==
    ASSUME NEW l \in Label, \A i \in 1..Len(l) : l[i] \notin UpperCase
    PROVE  LowerLabel(l) = l
<1>1. \A i \in 1..Len(l) : LowerLabel(l)[i] = l[i]
  BY LowerIs, OctetFacts, ZenonT(60)
<1> QED
  BY <1>1, LowerIs, SeqEqual DEF Label

LEMMA PrecedesIs ==
    ASSUME NEW s \in Label, NEW t \in Label
    PROVE  /\ Precedes(s, t) <=>
                \/ Len(s) < Len(t) /\ \A i \in 1..Len(s) : s[i] = t[i]
                \/ \E k \in 1..Len(s) : /\ k <= Len(t) /\ s[k] < t[k]
                                        /\ \A i \in 1..(k - 1) : s[i] = t[i]
           /\ Len(s) \in Nat /\ Len(t) \in Nat
           /\ \A i \in 1..Len(s) : s[i] \in NameOctets
           /\ \A i \in 1..Len(t) : t[i] \in NameOctets
<1>1. /\ DOMAIN s = 1..Len(s) /\ DOMAIN t = 1..Len(t) /\ Len(s) \in Nat /\ Len(t) \in Nat
      /\ \A i \in 1..Len(s) : s[i] \in NameOctets
      /\ \A i \in 1..Len(t) : t[i] \in NameOctets
  BY DEF Label
<1>2. \A k \in Nat : k \in (1..Len(s)) \cap (1..Len(t)) <=> k \in 1..Len(s) /\ k <= Len(t)
  BY <1>1
<1> QED
  BY <1>1, <1>2 DEF Precedes

LEMMA PrecedesIrreflexive ==
    ASSUME NEW s \in Label
    PROVE  ~Precedes(s, s)
<1>1. \A k \in 1..Len(s) : s[k] \in NameOctets
  BY PrecedesIs
<1>2. \A c \in NameOctets : ~(c < c)
  BY OctetFacts
<1> QED
  BY <1>1, <1>2, PrecedesIs

LEMMA PrecedesAsymmetric ==
    ASSUME NEW s \in Label, NEW t \in Label, Precedes(s, t)
    PROVE  ~Precedes(t, s)
<1>1. SUFFICES ASSUME Precedes(t, s) PROVE FALSE
  OBVIOUS
<1>2. \A i \in Nat : /\ i \in 1..Len(s) => s[i] \in Nat
                     /\ i \in 1..Len(t) => t[i] \in Nat
  BY PrecedesIs, OctetFacts
<1>3. CASE Len(s) < Len(t) /\ \A i \in 1..Len(s) : s[i] = t[i]
  <2>1. PICK k \in 1..Len(t) : k <= Len(s) /\ t[k] < s[k] /\ \A i \in 1..(k - 1) : t[i] = s[i]
    BY <1>1, <1>3, PrecedesIs
  <2>2. k \in 1..Len(s)
    BY <2>1, PrecedesIs
  <2> QED
    BY <1>2, <1>3, <2>1, <2>2
<1>4. CASE \E k \in 1..Len(s) : k <= Len(t) /\ s[k] < t[k] /\ \A i \in 1..(k - 1) : s[i] = t[i]
  <2>1. PICK k \in 1..Len(s) : k <= Len(t) /\ s[k] < t[k] /\ \A i \in 1..(k - 1) : s[i] = t[i]
    BY <1>4
  <2>2. CASE Len(t) < Len(s) /\ \A i \in 1..Len(t) : t[i] = s[i]
    BY <1>2, <2>1, <2>2, PrecedesIs
  <2>3. CASE \E j \in 1..Len(t) : j <= Len(s) /\ t[j] < s[j] /\ \A i \in 1..(j - 1) : t[i] = s[i]
    <3>1. PICK j \in 1..Len(t) : j <= Len(s) /\ t[j] < s[j] /\ \A i \in 1..(j - 1) : t[i] = s[i]
      BY <2>3
    <3>2. j < k \/ j = k \/ k < j
      OBVIOUS
    <3> QED
      BY <1>2, <2>1, <3>1, <3>2, PrecedesIs
  <2> QED
    BY <1>1, <2>2, <2>3, PrecedesIs
<1> QED
  BY <1>3, <1>4, PrecedesIs

\* What makes one label precede another.
LEMMA PrecedesAt ==
    ASSUME NEW s \in Label, NEW t \in Label, NEW k \in 1..Len(s),
           k <= Len(t), s[k] < t[k], \A i \in 1..(k - 1) : s[i] = t[i]
    PROVE  Precedes(s, t)
  BY PrecedesIs

LEMMA PrefixPrecedes ==
    ASSUME NEW s \in Label, NEW t \in Label, Len(s) <= Len(t), \A i \in 1..Len(s) : s[i] = t[i]
    PROVE  s = t \/ Precedes(s, t)
<1>1. CASE Len(s) = Len(t)
  BY <1>1, SeqEqual DEF Label
<1>2. CASE Len(s) < Len(t)
  BY <1>2, PrecedesIs
<1> QED
  BY <1>1, <1>2 DEF Label

\* The least label.
LEMMA LeastLabel ==
    ASSUME NEW t \in Label, t # <<>>
    PROVE  t = <<MinimalOctet>> \/ Precedes(<<MinimalOctet>>, t)
<1> DEFINE s == <<MinimalOctet>>
<1>1. s \in Label /\ Len(s) = 1 /\ s[1] = MinimalOctet
  BY OctetFacts DEF Label
<1>2. Len(t) >= 1 /\ t[1] \in NameOctets /\ MinimalOctet <= t[1] /\ t[1] \in Nat /\ MinimalOctet \in Nat
  <2>1. Len(t) >= 1 /\ t[1] \in NameOctets
    BY DEF Label
  <2> QED
    BY <2>1, OctetIs
<1> HIDE DEF s
<1>3. CASE t[1] = MinimalOctet
  <2>1. Len(s) <= Len(t) /\ \A i \in 1..Len(s) : s[i] = t[i]
    BY <1>1, <1>2, <1>3
  <2> QED
    BY <1>1, <2>1, PrefixPrecedes DEF s
<1>4. CASE MinimalOctet < t[1]
  BY <1>1, <1>2, <1>4, PrecedesAt DEF s
<1> QED
  BY <1>2, <1>3, <1>4

\* The label after a label.
LEMMA NextLabel ==
    ASSUME NEW l \in Label, NEW t \in Label, Precedes(l, t)
    PROVE  LET s == Append(l, MinimalOctet) IN s \in Label /\ (t = s \/ Precedes(s, t))
<1> DEFINE s == Append(l, MinimalOctet)
<1>1. /\ s \in Label /\ Len(s) = Len(l) + 1 /\ Len(l) \in Nat /\ s[Len(s)] = MinimalOctet
      /\ \A i \in 1..Len(l) : s[i] = l[i]
  BY OctetFacts, AppendProperties DEF Label
<1> HIDE DEF s
<1>2. CASE Len(l) < Len(t) /\ \A i \in 1..Len(l) : l[i] = t[i]
  <2>1. Len(s) <= Len(t) /\ t[Len(s)] \in NameOctets /\ \A i \in 1..(Len(s) - 1) : s[i] = t[i]
    BY <1>1, <1>2, PrecedesIs
  <2>2. MinimalOctet <= t[Len(s)] /\ MinimalOctet \in Nat /\ t[Len(s)] \in Nat
    BY <2>1, OctetIs
  <2>3. CASE t[Len(s)] = MinimalOctet
    <3>1. \A i \in 1..Len(s) : s[i] = t[i]
      BY <1>1, <2>1, <2>3
    <3> QED
      BY <1>1, <2>1, <3>1, PrefixPrecedes DEF s
  <2>4. CASE MinimalOctet < t[Len(s)]
    <3>1. Len(s) \in 1..Len(s) /\ s[Len(s)] < t[Len(s)]
      BY <1>1, <2>4
    <3> QED
      BY <1>1, <2>1, <3>1, PrecedesAt DEF s
  <2> QED
    BY <1>1, <2>2, <2>3, <2>4 DEF s
<1>3. CASE \E k \in 1..Len(l) : k <= Len(t) /\ l[k] < t[k] /\ \A i \in 1..(k - 1) : l[i] = t[i]
  <2>1. PICK k \in 1..Len(l) : k <= Len(t) /\ l[k] < t[k] /\ \A i \in 1..(k - 1) : l[i] = t[i]
    BY <1>3
  <2>2. k \in 1..Len(s) /\ s[k] < t[k] /\ \A i \in 1..(k - 1) : s[i] = t[i]
    BY <1>1, <2>1
  <2> QED
    BY <1>1, <2>1, <2>2, PrecedesAt DEF s
<1> QED
  BY <1>2, <1>3, PrecedesIs

\* Only what is longer comes after a label of the greatest octet.
LEMMA MaximalIs ==
    ASSUME NEW size \in Nat
    PROVE  /\ Maximal(size) \in Label /\ Len(Maximal(size)) = size
           /\ \A i \in 1..size : Maximal(size)[i] = MaximalOctet
           /\ LowerLabel(Maximal(size)) = Maximal(size)
<1>1. /\ Maximal(size) \in Label /\ Len(Maximal(size)) = size
      /\ \A i \in 1..size : Maximal(size)[i] = MaximalOctet
  BY OctetFacts DEF Maximal, Label
<1> QED
  BY <1>1, LowerStays, OctetFacts

LEMMA OnlyLongerIsAfter ==
    ASSUME NEW l \in Label, NEW t \in Label, Precedes(l, t), \A i \in 1..Len(l) : l[i] = MaximalOctet
    PROVE  Len(l) < Len(t)
<1>1. ASSUME NEW k \in 1..Len(l), k <= Len(t), l[k] < t[k] PROVE FALSE
  <2>1. t[k] \in NameOctets /\ l[k] = MaximalOctet
    BY <1>1, PrecedesIs
  <2>2. t[k] \in Nat /\ MaximalOctet \in Nat /\ t[k] <= MaximalOctet
    BY <2>1, OctetIs
  <2> QED
    BY <1>1, <2>1, <2>2
<1> QED
  BY <1>1, PrecedesIs

\* A label of lower case whose last octet that can be counted up is counted up.
LEMMA CountedUp ==
    ASSUME NEW l \in Label, NEW last \in 1..Len(l), l[last] # MaximalOctet,
           \A i \in (last + 1)..Len(l) : l[i] = MaximalOctet
    PROVE  LET s == Append(SubSeq(l, 1, last - 1), OctetAfter(l[last]))
           IN /\ s \in Label /\ Len(s) = last
              /\ \A i \in 1..(last - 1) : s[i] = l[i]
              /\ s[last] = OctetAfter(l[last])
<1>1. SubSeq(l, 1, last - 1) \in Label /\ Len(SubSeq(l, 1, last - 1)) = last - 1
      /\ \A i \in 1..(last - 1) : SubSeq(l, 1, last - 1)[i] = l[i]
  BY DEF Label
<1>2. OctetAfter(l[last]) \in NameOctets
  BY PrecedesIs, OctetsBeside
<1> QED
  BY <1>1, <1>2, AppendProperties DEF Label

LEMMA CountedUpIsNext ==
    ASSUME NEW l \in Label, NEW last \in 1..Len(l), l[last] # MaximalOctet,
           \A i \in (last + 1)..Len(l) : l[i] = MaximalOctet,
           \A i \in 1..Len(l) : l[i] \notin UpperCase
    PROVE  LET s == Append(SubSeq(l, 1, last - 1), OctetAfter(l[last]))
           IN /\ LowerLabel(s) = s /\ Precedes(l, s)
              /\ \A t \in Label : (\A i \in 1..Len(t) : t[i] \notin UpperCase) /\ Precedes(l, t)
                                    => t = s \/ Precedes(s, t) \/ Len(t) > Len(l)
<1> DEFINE s == Append(SubSeq(l, 1, last - 1), OctetAfter(l[last]))
<1>1. /\ s \in Label /\ Len(s) = last /\ \A i \in 1..(last - 1) : s[i] = l[i]
      /\ s[last] = OctetAfter(l[last])
  BY CountedUp
<1> HIDE DEF s
<1>2. l[last] \in NameOctets /\ Len(l) \in Nat
  BY PrecedesIs
<1>3. s[last] \notin UpperCase /\ s[last] \in NameOctets /\ l[last] < s[last]
  BY <1>1, <1>2, OctetsBeside
<1>4. LowerLabel(s) = s
  BY <1>1, <1>2, <1>3, LowerStays
<1>5. Precedes(l, s)
  BY <1>1, <1>3, PrecedesAt
<1>6. ASSUME NEW t \in Label, \A i \in 1..Len(t) : t[i] \notin UpperCase, Precedes(l, t), ~(Len(t) > Len(l))
      PROVE  t = s \/ Precedes(s, t)
  <2>1. PICK k \in 1..Len(l) : k <= Len(t) /\ l[k] < t[k] /\ \A i \in 1..(k - 1) : l[i] = t[i]
    BY <1>6, PrecedesIs
  <2>2. t[k] \in NameOctets \ UpperCase /\ l[k] \in NameOctets /\ Len(t) \in Nat
    BY <1>6, <2>1, PrecedesIs
  <2>3. l[k] # MaximalOctet
    <3>1. t[k] \in Nat /\ MaximalOctet \in Nat /\ t[k] <= MaximalOctet
      BY <2>2, OctetIs
    <3> QED
      BY <2>1, <3>1
  <2>4. k <= last
    BY <1>2, <2>1, <2>3
  <2>5. CASE k < last
    BY <1>1, <2>1, <2>5, PrecedesAt
  <2>6. CASE k = last
    <3>1. s[last] <= t[last] /\ s[last] \in Nat /\ t[last] \in Nat
      <4>1. l[last] \in NameOctets \ UpperCase /\ t[last] \in NameOctets \ UpperCase /\ l[last] < t[last]
        BY <2>1, <2>2, <2>6
      <4>2. OctetAfter(l[last]) <= t[last]
        BY <4>1, OctetsBeside
      <4>3. s[last] \in Nat /\ t[last] \in Nat
        BY <1>3, <4>1, OctetIs
      <4> QED
        BY <1>1, <4>2, <4>3
    <3>2. CASE s[last] < t[last]
      BY <1>1, <2>1, <2>6, <3>2, PrecedesAt
    <3>3. CASE s[last] = t[last]
      BY <1>1, <2>1, <2>6, <3>3, PrefixPrecedes
    <3> QED
      BY <3>1, <3>2, <3>3
  <2> QED
    BY <1>2, <2>4, <2>5, <2>6
<1>7. \A t \in Label : (\A i \in 1..Len(t) : t[i] \notin UpperCase) /\ Precedes(l, t)
                         => t = s \/ Precedes(s, t) \/ Len(t) > Len(l)
  BY <1>6
<1> QED
  BY <1>4, <1>5, <1>7 DEF s

LEMMA FrontLabel ==
    ASSUME NEW l \in Label, l # <<>>
    PROVE  /\ Len(l) \in Nat /\ Len(l) >= 1 /\ Last(l) = l[Len(l)] /\ Last(l) \in NameOctets
           /\ Front(l) \in Label /\ Len(Front(l)) = Len(l) - 1
           /\ \A i \in 1..(Len(l) - 1) : Front(l)[i] = l[i]
<1>1. PICK n \in Nat : n = Len(l) /\ n >= 1
  BY DEF Label
<1>2. l[n] \in NameOctets /\ \A i \in 1..(n - 1) : l[i] \in NameOctets
  BY <1>1 DEF Label
<1> DEFINE f == SubSeq(l, 1, n - 1)
<1>3. /\ f \in Seq(NameOctets) /\ Len(f) = IF 1 <= n - 1 THEN (n - 1) - 1 + 1 ELSE 0
      /\ \A i \in 1..((n - 1) - 1 + 1) : f[i] = l[1 + i - 1]
  BY <1>2, SubSeqProperties
<1>4. f = Front(l)
  BY <1>1 DEF Front
<1> HIDE DEF f
<1>5. f \in Label /\ Len(f) = n - 1 /\ \A i \in 1..(n - 1) : f[i] = l[i]
  BY <1>1, <1>3 DEF Label
<1> QED
  BY <1>1, <1>2, <1>4, <1>5 DEF Last

\* A label whose last octet is counted down and that is made as long as it may
\* be, by size octets.
LEMMA CountedDown ==
    ASSUME NEW l \in Label, l # <<>>, Last(l) # MinimalOctet, NEW size \in Nat
    PROVE  LET s == Append(Front(l), OctetBefore(Last(l))) \o Maximal(size)
           IN /\ s \in Label /\ Len(s) = Len(l) + size
              /\ \A i \in 1..(Len(l) - 1) : s[i] = l[i]
              /\ s[Len(l)] = OctetBefore(l[Len(l)])
              /\ \A i \in (Len(l) + 1)..Len(s) : s[i] = MaximalOctet
              /\ Append(Front(l), OctetBefore(Last(l))) \in Label
              /\ Len(Append(Front(l), OctetBefore(Last(l)))) = Len(l)
<1>1. /\ Len(l) \in Nat /\ Len(l) >= 1 /\ Last(l) = l[Len(l)] /\ Last(l) \in NameOctets
      /\ Front(l) \in Label /\ Len(Front(l)) = Len(l) - 1
      /\ \A i \in 1..(Len(l) - 1) : Front(l)[i] = l[i]
  BY FrontLabel
<1>2. OctetBefore(Last(l)) \in NameOctets
  BY <1>1, OctetsBeside
<1> DEFINE d == Append(Front(l), OctetBefore(Last(l)))
<1>3. /\ d \in Label /\ Len(d) = Len(l) /\ d[Len(l)] = OctetBefore(l[Len(l)])
      /\ \A i \in 1..(Len(l) - 1) : d[i] = l[i]
  BY <1>1, <1>2, AppendProperties DEF Label
<1> HIDE DEF d
<1>4. /\ d \o Maximal(size) \in Label /\ Len(d \o Maximal(size)) = Len(l) + size
      /\ \A i \in 1..(Len(l) + size) : (d \o Maximal(size))[i] =
                IF i <= Len(l) THEN d[i] ELSE Maximal(size)[i - Len(l)]
  <2>1. d \in Seq(NameOctets) /\ Maximal(size) \in Seq(NameOctets) /\ Len(Maximal(size)) = size
    BY <1>3, MaximalIs DEF Label
  <2>2. /\ d \o Maximal(size) \in Seq(NameOctets)
        /\ Len(d \o Maximal(size)) = Len(d) + Len(Maximal(size))
        /\ \A i \in 1..Len(d) + Len(Maximal(size)) : (d \o Maximal(size))[i] =
                IF i <= Len(d) THEN d[i] ELSE Maximal(size)[i - Len(d)]
    BY <1>3, <2>1, ConcatProperties, ZenonT(60) DEF Label
  <2> QED
    BY <1>3, <2>1, <2>2 DEF Label
<1>5. \A i \in (Len(l) + 1)..(Len(l) + size) : (d \o Maximal(size))[i] = MaximalOctet
  BY <1>1, <1>4, MaximalIs
<1> QED
  BY <1>1, <1>3, <1>4, <1>5 DEF d

LEMMA CountedDownIsBefore ==
    ASSUME NEW l \in Label, l # <<>>, Last(l) # MinimalOctet, NEW size \in Nat,
           \A i \in 1..Len(l) : l[i] \notin UpperCase
    PROVE  LET s == Append(Front(l), OctetBefore(Last(l))) \o Maximal(size)
           IN /\ LowerLabel(s) = s /\ Precedes(s, l)
              /\ \A t \in Label : (\A i \in 1..Len(t) : t[i] \notin UpperCase) /\ Precedes(s, t)
                                    => t = l \/ Precedes(l, t) \/ Len(t) > Len(s)
<1> DEFINE s == Append(Front(l), OctetBefore(Last(l))) \o Maximal(size)
           n == Len(l)
<1>1. /\ s \in Label /\ Len(s) = n + size
      /\ \A i \in 1..(n - 1) : s[i] = l[i]
      /\ s[n] = OctetBefore(l[n])
      /\ \A i \in (n + 1)..Len(s) : s[i] = MaximalOctet
  BY CountedDown
<1>2. n \in Nat /\ n >= 1 /\ l[n] \in NameOctets \ UpperCase /\ l[n] # MinimalOctet
  BY PrecedesIs DEF Label, Last
<1>3. s[n] \in NameOctets \ UpperCase /\ s[n] < l[n] /\ s[n] \in Nat /\ l[n] \in Nat
  BY <1>1, <1>2, OctetsBeside, OctetIs
<1> HIDE DEF s
<1>4. LowerLabel(s) = s
  <2>1. ASSUME NEW i \in 1..Len(s) PROVE s[i] \notin UpperCase
    <3>1. i < n \/ i = n \/ i > n
      BY <1>2
    <3> QED
      BY <1>1, <1>2, <1>3, <3>1, OctetFacts, SMTT(20)
  <2> QED
    BY <1>1, <2>1, LowerStays
<1>5. Precedes(s, l)
  BY <1>1, <1>2, <1>3, PrecedesAt, SMTT(20)
<1>6. ASSUME NEW t \in Label, \A i \in 1..Len(t) : t[i] \notin UpperCase, Precedes(s, t), ~(Len(t) > Len(s))
      PROVE  t = l \/ Precedes(l, t)
  <2>1. PICK k \in 1..Len(s) : k <= Len(t) /\ s[k] < t[k] /\ \A i \in 1..(k - 1) : s[i] = t[i]
    BY <1>1, <1>6, PrecedesIs
  <2>2. t[k] \in NameOctets \ UpperCase /\ s[k] \in NameOctets /\ Len(t) \in Nat
    BY <1>1, <1>6, <2>1, PrecedesIs
  <2>3. k <= n
    <3>1. t[k] \in Nat /\ MaximalOctet \in Nat /\ t[k] <= MaximalOctet
      BY <2>2, OctetIs
    <3> QED
      BY <1>1, <1>2, <2>1, <3>1
  <2>4. CASE k < n
    <3>1. k \in 1..n /\ l[k] < t[k] /\ \A i \in 1..(k - 1) : l[i] = t[i]
      BY <1>1, <1>2, <2>1, <2>4
    <3> QED
      BY <2>1, <3>1, PrecedesAt
  <2>5. CASE k = n
    <3>1. l[n] <= t[n] /\ t[n] \in Nat
      BY <1>1, <1>2, <2>1, <2>2, <2>5, OctetsBeside, OctetIs
    <3>2. CASE l[n] < t[n]
      <4>1. n \in 1..n /\ \A i \in 1..(n - 1) : l[i] = t[i]
        BY <1>1, <1>2, <2>1, <2>5
      <4> QED
        BY <2>1, <2>5, <3>2, <4>1, PrecedesAt
    <3>3. CASE l[n] = t[n]
      <4>1. n <= Len(t) /\ \A i \in 1..n : l[i] = t[i]
        BY <1>1, <1>2, <2>1, <2>5, <3>3
      <4> QED
        BY <4>1, PrefixPrecedes
    <3> QED
      BY <1>3, <3>1, <3>2, <3>3
  <2> QED
    BY <1>2, <2>3, <2>4, <2>5
<1>7. \A t \in Label : (\A i \in 1..Len(t) : t[i] \notin UpperCase) /\ Precedes(s, t)
                         => t = l \/ Precedes(l, t) \/ Len(t) > Len(s)
  BY <1>6
<1> QED
  BY <1>4, <1>5, <1>7 DEF s

-----------------------------------------------------------------------------
(* Names, from the right *)

Right(n, i) == n[Len(n) + 1 - i]

\* a and b share their last k labels; m comes after s, and after all that is
\* below s; m is s or below it.
Shares(a, b, k) == k <= Len(a) /\ k <= Len(b) /\ \A i \in 1..k : FromRight(a, i) = FromRight(b, i)
AboveAt(m, s, k) == k < Len(s) /\ k < Len(m) /\ Shares(s, m, k) /\ Precedes(FromRight(s, k + 1), FromRight(m, k + 1))
Above(m, s) == \E k \in Nat : AboveAt(m, s, k)
Under(m, s) == Shares(s, m, Len(s))

LEMMA RightIs ==
    ASSUME NEW n \in LabelLists
    PROVE  /\ Len(n) \in Nat
           /\ \A i \in 1..Len(n) : /\ Right(n, i) \in Label /\ FromRight(n, i) = LowerLabel(Right(n, i))
                                   /\ FromRight(n, i) \in Label /\ Len(FromRight(n, i)) = Len(Right(n, i))
                                   /\ \A j \in 1..Len(FromRight(n, i)) : FromRight(n, i)[j] \notin UpperCase
                                   /\ n[i] = Right(n, Len(n) + 1 - i) /\ n[i] \in Label
<1>1. Len(n) \in Nat /\ \A i \in 1..Len(n) : n[i] \in Label /\ Len(n) + 1 - i \in 1..Len(n)
  BY DEF LabelLists
<1>2. ASSUME NEW i \in 1..Len(n)
      PROVE  /\ Right(n, i) \in Label /\ FromRight(n, i) = LowerLabel(Right(n, i))
             /\ n[i] = Right(n, Len(n) + 1 - i) /\ n[i] \in Label
  BY <1>1 DEF Right, FromRight
<1>3. ASSUME NEW i \in 1..Len(n)
      PROVE  /\ FromRight(n, i) \in Label /\ Len(FromRight(n, i)) = Len(Right(n, i))
             /\ \A j \in 1..Len(FromRight(n, i)) : FromRight(n, i)[j] \notin UpperCase
  BY <1>2, LowerIs
<1> QED
  BY <1>1, <1>2, <1>3

\* The labels in common are those up to the first, from the right, that differs.
LEMMA InCommonIs ==
    ASSUME NEW a \in LabelLists, NEW b \in LabelLists
    PROVE  /\ InCommon(a, b) \in Nat /\ Shares(a, b, InCommon(a, b))
           /\ InCommon(a, b) < Len(a) /\ InCommon(a, b) < Len(b)
                => FromRight(a, InCommon(a, b) + 1) # FromRight(b, InCommon(a, b) + 1)
<1> DEFINE l == IF Len(a) < Len(b) THEN Len(a) ELSE Len(b)
           T == {i \in 0..l : i = l \/ FromRight(a, i + 1) # FromRight(b, i + 1)}
<1>1. l \in Nat /\ Len(a) \in Nat /\ Len(b) \in Nat
  BY DEF LabelLists
<1>2. PICK k \in T : \A i \in T : k <= i
  <2>1. T \in SUBSET Nat /\ T # {}
    BY <1>1
  <2> QED
    BY <2>1, LeastExists
<1>3. ASSUME NEW i \in 1..k PROVE FromRight(a, i) = FromRight(b, i)
  <2>1. i - 1 \in 0..l /\ i - 1 < k /\ i - 1 # l /\ (i - 1) + 1 = i
    BY <1>1
  <2> HIDE DEF T
  <2>2. k \in Nat
    BY <1>1, <1>2 DEF T
  <2>3. i - 1 \notin T
    BY <1>2, <2>1, <2>2
  <2> QED
    BY <2>1, <2>3 DEF T
<1> HIDE DEF T
<1>4. k \in 0..l /\ (k < l => FromRight(a, k + 1) # FromRight(b, k + 1))
  BY <1>1 DEF T
<1>5. /\ InCommon(a, b) \in 0..l
      /\ \A i \in 1..InCommon(a, b) : FromRight(a, i) = FromRight(b, i)
      /\ InCommon(a, b) < l => FromRight(a, InCommon(a, b) + 1) # FromRight(b, InCommon(a, b) + 1)
  BY <1>3, <1>4 DEF InCommon
<1> QED
  BY <1>1, <1>5 DEF Shares

\* The order of absolute names.
LEMMA CompareIs ==
    ASSUME NEW a \in LabelLists, NEW b \in LabelLists, IsAbsolute(a), IsAbsolute(b)
    PROVE  /\ Less(a, b) <=> Above(b, a) \/ (Under(b, a) /\ Len(a) < Len(b))
           /\ IsSubdomain(a, b) <=> Under(a, b)
           /\ Same(a, b) <=> Len(a) = Len(b) /\ Under(a, b)
<1> DEFINE k == InCommon(a, b)
<1>1. k \in Nat /\ Shares(a, b, k) /\ (k < Len(a) /\ k < Len(b) => FromRight(a, k + 1) # FromRight(b, k + 1))
  BY InCommonIs
<1>2. PICK na \in Nat, nb \in Nat : na = Len(a) /\ nb = Len(b)
  BY RightIs
<1>3. k <= na /\ k <= nb /\ \A i \in 1..k : FromRight(a, i) = FromRight(b, i)
  BY <1>1, <1>2 DEF Shares
<1> HIDE DEF k
<1>4. CASE k < na /\ k < nb
  <2>1. FullCompare(a, b) = [relation |-> IF k > 0 THEN "commonancestor" ELSE "none",
                             order |-> IF Precedes(FromRight(a, k + 1), FromRight(b, k + 1)) THEN -1 ELSE 1,
                             common |-> k]
    BY <1>2, <1>4 DEF FullCompare, k
  <2>2. ~Under(a, b) /\ ~Under(b, a)
    <3>1. k + 1 \in 1..na /\ k + 1 \in 1..nb
      BY <1>1, <1>2, <1>4
    <3> QED
      BY <1>1, <1>2, <1>4, <3>1 DEF Under, Shares
  <2>3. Precedes(FromRight(a, k + 1), FromRight(b, k + 1)) => Above(b, a)
    BY <1>1, <1>2, <1>4 DEF Above, AboveAt
  <2>4. ASSUME Above(b, a) PROVE Precedes(FromRight(a, k + 1), FromRight(b, k + 1))
    <3>1. PICK j \in Nat : /\ j < na /\ j < nb /\ \A i \in 1..j : FromRight(a, i) = FromRight(b, i)
                           /\ Precedes(FromRight(a, j + 1), FromRight(b, j + 1))
      BY <1>2, <2>4 DEF Above, AboveAt, Shares
    <3>2. CASE j < k
      <4>1. FromRight(a, j + 1) = FromRight(b, j + 1) /\ FromRight(a, j + 1) \in Label
        BY <1>1, <1>2, <1>3, <3>1, <3>2, RightIs
      <4> QED
        BY <3>1, <4>1, PrecedesIrreflexive
    <3>3. CASE k < j
      <4>1. k + 1 \in 1..j
        BY <1>1, <3>1, <3>3
      <4> QED
        BY <1>1, <1>2, <1>4, <3>1, <4>1
    <3>4. CASE j = k
      BY <3>1, <3>4
    <3> QED
      BY <1>1, <3>1, <3>2, <3>3, <3>4
  <2> QED
    BY <2>1, <2>2, <2>3, <2>4 DEF Less, Same, IsSubdomain
<1>5. CASE ~(k < na /\ k < nb)
  <2>1. FullCompare(a, b) = [relation |-> IF na < nb THEN "superdomain" ELSE IF na > nb THEN "subdomain" ELSE "equal",
                             order |-> na - nb, common |-> k]
    BY <1>2, <1>5 DEF FullCompare, k
  <2>2. ~Above(b, a)
    <3>1. SUFFICES ASSUME NEW j \in Nat, AboveAt(b, a, j) PROVE FALSE
      BY DEF Above
    <3>2. j + 1 \in 1..k /\ j + 1 \in 1..na
      BY <1>1, <1>2, <1>3, <1>5, <3>1 DEF AboveAt
    <3>3. FromRight(a, j + 1) = FromRight(b, j + 1) /\ FromRight(a, j + 1) \in Label
      BY <1>2, <1>3, <3>2, RightIs
    <3> QED
      BY <3>1, <3>3, PrecedesIrreflexive DEF AboveAt
  <2>3. (Under(b, a) <=> na <= nb) /\ (Under(a, b) <=> nb <= na)
    BY <1>1, <1>2, <1>3, <1>5 DEF Under, Shares
  <2> QED
    BY <1>2, <2>1, <2>2, <2>3 DEF Less, Same, IsSubdomain
<1> QED
  BY <1>4, <1>5

\* What comes after a name, or is below it, is not before it.
LEMMA NotBefore ==
    ASSUME NEW m \in LabelLists, NEW s \in LabelLists, IsAbsolute(m), IsAbsolute(s), Above(m, s) \/ Under(m, s)
    PROVE  ~Less(m, s)
<1>1. PICK nm \in Nat, ns \in Nat : nm = Len(m) /\ ns = Len(s)
  BY RightIs
<1>2. /\ \A i \in 1..nm : FromRight(m, i) \in Label
      /\ \A i \in 1..ns : FromRight(s, i) \in Label
  BY <1>1, RightIs
<1>3. SUFFICES ASSUME Above(s, m) \/ (Under(s, m) /\ nm < ns) PROVE FALSE
  BY <1>1, CompareIs
<1>4. CASE Above(m, s)
  <2>1. PICK k \in Nat : AboveAt(m, s, k)
    BY <1>4 DEF Above
  <2>2. /\ k < ns /\ k < nm /\ \A i \in 1..k : FromRight(s, i) = FromRight(m, i)
        /\ Precedes(FromRight(s, k + 1), FromRight(m, k + 1))
    BY <1>1, <2>1 DEF AboveAt, Shares
  <2>3. FromRight(s, k + 1) # FromRight(m, k + 1) /\ ~Precedes(FromRight(m, k + 1), FromRight(s, k + 1))
    <3>1. FromRight(s, k + 1) \in Label /\ FromRight(m, k + 1) \in Label
      BY <1>2, <2>2
    <3> QED
      BY <2>2, <3>1, PrecedesIrreflexive, PrecedesAsymmetric
  <2>4. ~Under(s, m)
    <3>1. k + 1 \in 1..nm
      BY <2>2
    <3> QED
      BY <1>1, <2>3, <3>1 DEF Under, Shares
  <2>5. ASSUME NEW j \in Nat, AboveAt(s, m, j) PROVE FALSE
    <3>1. /\ j < ns /\ j < nm /\ \A i \in 1..j : FromRight(m, i) = FromRight(s, i)
          /\ Precedes(FromRight(m, j + 1), FromRight(s, j + 1))
      BY <1>1, <2>5 DEF AboveAt, Shares
    <3>2. CASE j < k
      <4>1. FromRight(s, j + 1) = FromRight(m, j + 1) /\ FromRight(s, j + 1) \in Label
        BY <1>2, <2>2, <3>1, <3>2
      <4> QED
        BY <3>1, <4>1, PrecedesIrreflexive
    <3>3. CASE k < j
      <4>1. k + 1 \in 1..j
        BY <3>3
      <4> QED
        BY <2>3, <3>1, <4>1
    <3> QED
      BY <2>3, <3>1, <3>2, <3>3
  <2> QED
    BY <1>3, <2>4, <2>5 DEF Above
<1>5. CASE Under(m, s)
  <2>1. ns <= nm /\ \A i \in 1..ns : FromRight(m, i) = FromRight(s, i)
    BY <1>1, <1>5 DEF Under, Shares
  <2>2. ASSUME NEW j \in Nat, AboveAt(s, m, j) PROVE FALSE
    <3>1. /\ j < ns /\ j < nm /\ Precedes(FromRight(m, j + 1), FromRight(s, j + 1))
      BY <1>1, <2>2 DEF AboveAt
    <3>2. FromRight(m, j + 1) = FromRight(s, j + 1) /\ FromRight(s, j + 1) \in Label
      BY <1>2, <2>1, <3>1
    <3> QED
      BY <3>1, <3>2, PrecedesIrreflexive
  <2> QED
    BY <1>3, <2>1, <2>2 DEF Above
<1> QED
  BY <1>4, <1>5

\* Only the labels in lower case count.
Alike(a, b) == Len(a) = Len(b) /\ \A i \in 1..Len(a) : FromRight(a, i) = FromRight(b, i)

LEMMA AlikeIs ==
    ASSUME NEW a \in LabelLists, NEW b \in LabelLists, Alike(a, b), NEW m \in LabelLists
    PROVE  /\ Above(m, a) <=> Above(m, b)
           /\ Above(a, m) <=> Above(b, m)
           /\ Under(m, a) <=> Under(m, b)
           /\ Under(a, m) <=> Under(b, m)
<1>1. PICK n \in Nat : n = Len(a) /\ n = Len(b)
  BY RightIs DEF Alike
<1>2. \A i \in 1..n : FromRight(a, i) = FromRight(b, i)
  BY <1>1 DEF Alike
<1>3. PICK nm \in Nat : nm = Len(m)
  BY RightIs
<1>4. ASSUME NEW k \in Nat PROVE (Shares(a, m, k) <=> Shares(b, m, k)) /\ (Shares(m, a, k) <=> Shares(m, b, k))
  BY <1>1, <1>2 DEF Shares
<1>5. ASSUME NEW k \in Nat PROVE (AboveAt(m, a, k) <=> AboveAt(m, b, k)) /\ (AboveAt(a, m, k) <=> AboveAt(b, m, k))
  <2>1. k < n => FromRight(a, k + 1) = FromRight(b, k + 1)
    BY <1>2
  <2> QED
    BY <1>1, <1>4, <2>1 DEF AboveAt
<1> QED
  BY <1>1, <1>3, <1>4, <1>5 DEF Above, Under

-----------------------------------------------------------------------------
(* Labels before a name *)

LEMMA ConcatIs ==
    ASSUME NEW F \in LabelLists, NEW n \in LabelLists
    PROVE  /\ F \o n \in LabelLists /\ Len(F \o n) = Len(F) + Len(n)
           /\ \A i \in 1..Len(n) : Right(F \o n, i) = Right(n, i) /\ FromRight(F \o n, i) = FromRight(n, i)
           /\ \A i \in 1..Len(F) : Right(F \o n, Len(n) + i) = Right(F, i)
           /\ IsAbsolute(n) => IsAbsolute(F \o n)
<1> DEFINE p == F \o n
<1>1. /\ p \in LabelLists /\ Len(p) = Len(F) + Len(n)
      /\ \A i \in 1..Len(F) + Len(n) : p[i] = IF i <= Len(F) THEN F[i] ELSE n[i - Len(F)]
  BY ConcatProperties DEF LabelLists
<1> HIDE DEF p
<1>2. PICK nf \in Nat, nn \in Nat : nf = Len(F) /\ nn = Len(n)
  BY RightIs
<1>3. ASSUME NEW i \in 1..nn PROVE Right(p, i) = Right(n, i) /\ FromRight(p, i) = FromRight(n, i)
  <2>1. /\ Len(p) + 1 - i \in 1..Len(F) + Len(n) /\ ~(Len(p) + 1 - i <= Len(F))
        /\ Len(p) + 1 - i - Len(F) = Len(n) + 1 - i
    BY <1>1, <1>2
  <2>2. p[Len(p) + 1 - i] = n[Len(n) + 1 - i]
    BY <1>1, <2>1
  <2> QED
    BY <2>2 DEF Right, FromRight
<1>4. ASSUME NEW i \in 1..nf PROVE Right(p, nn + i) = Right(F, i)
  <2>1. /\ Len(p) + 1 - (nn + i) \in 1..Len(F) + Len(n) /\ Len(p) + 1 - (nn + i) <= Len(F)
        /\ Len(p) + 1 - (nn + i) = Len(F) + 1 - i
    BY <1>1, <1>2
  <2>2. p[Len(p) + 1 - (nn + i)] = F[Len(F) + 1 - i]
    BY <1>1, <2>1
  <2> QED
    BY <2>2 DEF Right
<1>5. ASSUME IsAbsolute(n) PROVE IsAbsolute(p)
  <2>1. nn >= 1 /\ n[nn] = <<>>
    BY <1>2, <1>5 DEF IsAbsolute, Last, LabelLists
  <2>2. p[nf + nn] = <<>> /\ Len(p) = nf + nn /\ nf + nn >= 1
    <3>1. nf + nn \in 1..nf + nn /\ ~(nf + nn <= nf) /\ nf + nn - nf = nn
      BY <2>1
    <3> QED
      BY <1>1, <1>2, <2>1, <3>1
  <2> QED
    BY <1>1, <2>2, EmptySeq DEF IsAbsolute, Last
<1> QED
  BY <1>1, <1>2, <1>3, <1>4, <1>5 DEF p

LEMMA ConcatAbove ==
    ASSUME NEW F \in LabelLists, NEW n \in LabelLists, NEW m \in LabelLists
    PROVE  /\ Above(m, n) => Above(m, F \o n)
           /\ Under(m, F \o n) => Under(m, n)
           /\ Above(m, F \o n) => \/ Above(m, n)
                                  \/ \E k \in Nat : k >= Len(n) /\ AboveAt(m, F \o n, k) /\ Under(m, n)
           /\ Under(F \o n, n)
           /\ Above(n, m) => Above(F \o n, m)
           /\ Under(n, m) => Under(F \o n, m)
<1> DEFINE p == F \o n
<1>1. PICK nf \in Nat, nn \in Nat, nm \in Nat : nf = Len(F) /\ nn = Len(n) /\ nm = Len(m)
  BY RightIs
<1>2. p \in LabelLists /\ Len(p) = nf + nn /\ \A i \in 1..nn : FromRight(p, i) = FromRight(n, i)
  BY <1>1, ConcatIs
<1> HIDE DEF p
<1>3. ASSUME NEW k \in Nat, AboveAt(m, n, k) PROVE AboveAt(m, p, k)
  <2>1. k + 1 \in 1..nn
    BY <1>1, <1>3 DEF AboveAt
  <2> QED
    BY <1>1, <1>2, <1>3, <2>1 DEF AboveAt, Shares
<1>4. ASSUME Under(m, p) PROVE Under(m, n)
  BY <1>1, <1>2, <1>4 DEF Under, Shares
<1>5. ASSUME NEW k \in Nat, AboveAt(m, p, k) PROVE AboveAt(m, n, k) \/ (k >= nn /\ Under(m, n))
  <2>1. CASE k < nn
    <3>1. k + 1 \in 1..nn
      BY <2>1
    <3> QED
      BY <1>1, <1>2, <1>5, <2>1, <3>1 DEF AboveAt, Shares
  <2>2. CASE k >= nn
    BY <1>1, <1>2, <1>5, <2>2 DEF AboveAt, Shares, Under
  <2> QED
    BY <2>1, <2>2
<1>6. Under(p, n)
  BY <1>1, <1>2 DEF Under, Shares
<1>7. ASSUME NEW k \in Nat, AboveAt(n, m, k) PROVE AboveAt(p, m, k)
  <2>1. k + 1 \in 1..nn
    BY <1>1, <1>7 DEF AboveAt
  <2> QED
    BY <1>1, <1>2, <1>7, <2>1 DEF AboveAt, Shares
<1>8. ASSUME Under(n, m) PROVE Under(p, m)
  BY <1>1, <1>2, <1>8 DEF Under, Shares
<1>9. /\ Above(m, n) => Above(m, p)
      /\ Above(n, m) => Above(p, m)
      /\ Above(m, p) => Above(m, n) \/ \E k \in Nat : k >= nn /\ AboveAt(m, p, k) /\ Under(m, n)
  BY <1>3, <1>5, <1>7 DEF Above
<1> QED
  BY <1>1, <1>4, <1>6, <1>8, <1>9 DEF p

\* One label more.
LEMMA ConsIs ==
    ASSUME NEW h \in Label, NEW n \in LabelLists
    PROVE  LET s == <<h>> \o n
           IN /\ s \in LabelLists /\ Len(s) = Len(n) + 1
              /\ \A i \in 1..Len(n) : Right(s, i) = Right(n, i) /\ FromRight(s, i) = FromRight(n, i)
              /\ Right(s, Len(n) + 1) = h /\ FromRight(s, Len(n) + 1) = LowerLabel(h)
              /\ IsAbsolute(n) => IsAbsolute(s)
<1> DEFINE s == <<h>> \o n
<1>1. <<h>> \in LabelLists /\ Len(<<h>>) = 1 /\ Right(<<h>>, 1) = h
  BY DEF LabelLists, Right
<1>2. /\ s \in LabelLists /\ Len(s) = 1 + Len(n)
      /\ \A i \in 1..Len(n) : Right(s, i) = Right(n, i) /\ FromRight(s, i) = FromRight(n, i)
      /\ \A i \in 1..1 : Right(s, Len(n) + i) = Right(<<h>>, i)
      /\ IsAbsolute(n) => IsAbsolute(s)
  BY <1>1, ConcatIs
<1> HIDE DEF s
<1>3. Len(n) \in Nat
  BY RightIs
<1>4. Right(s, Len(n) + 1) = h
  BY <1>1, <1>2
<1>5. FromRight(s, Len(n) + 1) = LowerLabel(h)
  BY <1>2, <1>3, <1>4, RightIs
<1>6. Len(s) = Len(n) + 1
  BY <1>2, <1>3
<1> QED
  BY <1>2, <1>4, <1>5, <1>6 DEF s

LEMMA ConsAbove ==
    ASSUME NEW h \in Label, NEW n \in LabelLists, NEW m \in LabelLists
    PROVE  LET s == <<h>> \o n
               beyond == Under(m, n) /\ Len(n) < Len(m)
           IN /\ Above(m, s) <=> \/ Above(m, n)
                                 \/ beyond /\ Precedes(LowerLabel(h), FromRight(m, Len(n) + 1))
              /\ Under(m, s) <=> beyond /\ LowerLabel(h) = FromRight(m, Len(n) + 1)
<1> DEFINE s == <<h>> \o n
<1>1. PICK nn \in Nat, nm \in Nat : nn = Len(n) /\ nm = Len(m)
  BY RightIs
<1>2. /\ s \in LabelLists /\ Len(s) = nn + 1 /\ \A i \in 1..nn : FromRight(s, i) = FromRight(n, i)
      /\ FromRight(s, nn + 1) = LowerLabel(h)
  BY <1>1, ConsIs
<1> HIDE DEF s
<1>3. ASSUME NEW k \in Nat
      PROVE  AboveAt(m, s, k) <=> \/ AboveAt(m, n, k)
                                  \/ /\ k = nn /\ Under(m, n) /\ nn < nm
                                     /\ Precedes(LowerLabel(h), FromRight(m, nn + 1))
  <2>1. CASE k < nn
    <3>1. k + 1 \in 1..nn
      BY <2>1
    <3> QED
      BY <1>1, <1>2, <2>1, <3>1 DEF AboveAt, Shares
  <2>2. CASE k = nn
    BY <1>1, <1>2, <2>2 DEF AboveAt, Shares, Under
  <2>3. CASE k > nn
    BY <1>1, <1>2, <2>3 DEF AboveAt
  <2> QED
    BY <2>1, <2>2, <2>3
<1>4. Above(m, s) <=> \/ Above(m, n)
                      \/ Under(m, n) /\ nn < nm /\ Precedes(LowerLabel(h), FromRight(m, nn + 1))
  BY <1>3 DEF Above
<1>5. Under(m, s) <=> Under(m, n) /\ nn < nm /\ LowerLabel(h) = FromRight(m, nn + 1)
  BY <1>1, <1>2 DEF Under, Shares
<1> QED
  BY <1>1, <1>4, <1>5 DEF s

LEMMA HeadTailIs ==
    ASSUME NEW n \in LabelLists, n # <<>>
    PROVE  /\ n = <<Head(n)>> \o Tail(n) /\ Head(n) \in Label /\ Tail(n) \in LabelLists
           /\ Len(Tail(n)) = Len(n) - 1 /\ Head(n) = Right(n, Len(n))
           /\ IsAbsolute(n) /\ Len(n) > 1 => IsAbsolute(Tail(n))
<1>1. /\ Head(n) \in Label /\ Tail(n) \in LabelLists /\ Head(n) = n[1]
      /\ \A i \in 1..Len(Tail(n)) : Tail(n)[i] = n[i + 1]
  BY HeadTailProperties DEF LabelLists
<1>2. PICK k \in Nat : k = Len(n) /\ k >= 1 /\ Len(Tail(n)) = k - 1
  BY HeadTailProperties, EmptySeq DEF LabelLists
<1>3. Right(n, k) = n[1]
  BY <1>2 DEF Right
<1>4. n = <<Head(n)>> \o Tail(n)
  <2>1. /\ <<Head(n)>> \o Tail(n) \in LabelLists /\ Len(<<Head(n)>> \o Tail(n)) = 1 + Len(Tail(n))
        /\ \A i \in 1..1 + Len(Tail(n)) :
             (<<Head(n)>> \o Tail(n))[i] = IF i <= 1 THEN <<Head(n)>>[i] ELSE Tail(n)[i - 1]
    <3>1. <<Head(n)>> \in LabelLists /\ Len(<<Head(n)>>) = 1
      BY <1>1 DEF LabelLists
    <3> QED
      BY <1>1, <3>1, ConcatProperties DEF LabelLists
  <2>2. ASSUME NEW i \in 1..k PROVE (<<Head(n)>> \o Tail(n))[i] = n[i]
    <3>1. CASE i = 1
      BY <1>1, <1>2, <2>1, <3>1
    <3>2. CASE i > 1
      <4>1. i - 1 \in 1..Len(Tail(n)) /\ i \in 1..1 + Len(Tail(n)) /\ ~(i <= 1) /\ (i - 1) + 1 = i
        BY <1>2, <3>2
      <4> QED
        BY <1>1, <2>1, <4>1
    <3> QED
      BY <1>2, <3>1, <3>2
  <2>3. Len(<<Head(n)>> \o Tail(n)) = k
    BY <1>2, <2>1
  <2> QED
    BY <1>2, <2>1, <2>2, <2>3, SeqEqual DEF LabelLists
<1>5. ASSUME IsAbsolute(n), Len(n) > 1 PROVE IsAbsolute(Tail(n))
  <2>1. k - 1 \in 1..Len(Tail(n)) /\ (k - 1) + 1 = k /\ Tail(n) # <<>>
    <3>1. k > 1
      BY <1>2, <1>5
    <3>2. Len(Tail(n)) # 0
      BY <1>2, <3>1
    <3> QED
      BY <1>2, <3>1, <3>2
  <2>2. Tail(n)[k - 1] = n[k]
    BY <1>1, <2>1
  <2> QED
    BY <1>2, <1>5, <2>1, <2>2 DEF IsAbsolute, Last
<1> QED
  BY <1>1, <1>2, <1>3, <1>4, <1>5

LEMMA AncestorIs ==
    ASSUME NEW n \in LabelLists, NEW d \in 1..Len(n)
    PROVE  LET a == Ancestor(n, d)
           IN /\ a \in LabelLists /\ a # <<>> /\ Len(a) = Len(n) - d + 1
              /\ \A i \in 1..Len(a) : Right(a, i) = Right(n, i) /\ FromRight(a, i) = FromRight(n, i)
              /\ IsAbsolute(n) => IsAbsolute(a)
<1> DEFINE a == Ancestor(n, d)
<1>1. PICK k \in Nat : k = Len(n) /\ d \in 1..k
  BY RightIs
<1>2. \A i \in d..k : n[i] \in Label
  BY <1>1 DEF LabelLists
<1>3. /\ a \in LabelLists /\ Len(a) = IF d <= k THEN k - d + 1 ELSE 0
      /\ \A i \in 1..k - d + 1 : a[i] = n[d + i - 1]
  BY <1>1, <1>2, SubSeqProperties DEF Ancestor, LabelLists
<1> HIDE DEF a
<1>4. Len(a) = k - d + 1 /\ Len(a) >= 1 /\ a # <<>>
  <2>1. Len(a) = k - d + 1 /\ Len(a) >= 1
    BY <1>1, <1>3
  <2> QED
    BY <2>1, EmptySeq
<1>5. ASSUME NEW i \in 1..Len(a) PROVE a[Len(a) + 1 - i] = n[k + 1 - i]
  <2>1. Len(a) + 1 - i \in 1..k - d + 1 /\ d + (Len(a) + 1 - i) - 1 = k + 1 - i
    BY <1>1, <1>4
  <2> QED
    BY <1>3, <2>1
<1>6. IsAbsolute(n) => IsAbsolute(a)
  <2>1. a[Len(a)] = n[k]
    <3>1. Len(a) \in 1..k - d + 1 /\ d + Len(a) - 1 = k
      BY <1>1, <1>4
    <3> QED
      BY <1>3, <3>1
  <2> QED
    BY <1>1, <1>4, <2>1 DEF IsAbsolute, Last
<1> QED
  BY <1>1, <1>3, <1>4, <1>5, <1>6 DEF a, Right, FromRight

-----------------------------------------------------------------------------
(* Sizes *)

Short(n) == \A i \in 1..Len(n) : Len(Right(n, i)) <= MaxLabel

LEMMA SizeFacts == MaxLabel \in Nat /\ MaxLabel >= 1 /\ MaxName \in Nat /\ MaxName >= 1
  BY SizesAreNumbers

LEMMA PlacesIs ==
    ASSUME NEW n \in LabelLists
    PROVE  Places(n) = {p \in Nat \X Nat : p[1] \in 1..Len(n) /\ p[2] \in 0..Len(Right(n, p[1]))}
<1>1. Len(n) \in Nat /\ \A i \in 1..Len(n) : Len(Right(n, i)) \in Nat
  BY RightIs DEF Label
<1>2. Places(n) = UNION {{i} \X (0..Len(Right(n, i))) : i \in 1..Len(n)}
  BY DEF Places, Right
<1>3. ASSUME NEW p PROVE p \in Places(n) <=>
                         p \in Nat \X Nat /\ p[1] \in 1..Len(n) /\ p[2] \in 0..Len(Right(n, p[1]))
  <2>1. p \in Places(n) <=> \E i \in 1..Len(n) : p \in {i} \X (0..Len(Right(n, i)))
    BY <1>2
  <2>2. ASSUME NEW i \in 1..Len(n), p \in {i} \X (0..Len(Right(n, i)))
        PROVE  p \in Nat \X Nat /\ p[1] \in 1..Len(n) /\ p[2] \in 0..Len(Right(n, p[1]))
    BY <1>1, <2>2
  <2>3. ASSUME p \in Nat \X Nat, p[1] \in 1..Len(n), p[2] \in 0..Len(Right(n, p[1]))
        PROVE  p \in {p[1]} \X (0..Len(Right(n, p[1])))
    BY <2>3
  <2> QED
    BY <2>1, <2>2, <2>3
<1> QED
  BY <1>3

LEMMA PlacesFinite ==
    ASSUME NEW n \in LabelLists, Short(n)
    PROVE  IsFiniteSet(Places(n)) /\ WireLength(n) \in Nat
<1> DEFINE B == (1..Len(n)) \X (0..MaxLabel)
<1>1. Len(n) \in Nat
  BY RightIs
<1>2. IsFiniteSet(B)
  <2>1. IsFiniteSet(1..Len(n)) /\ IsFiniteSet(0..MaxLabel)
    BY <1>1, SizeFacts, FS_Interval
  <2> QED
    BY <2>1, FS_Product
<1>3. Places(n) \in SUBSET B
  <2>1. SUFFICES ASSUME NEW p \in Places(n) PROVE p \in B
    OBVIOUS
  <2>2. p \in Nat \X Nat /\ p[1] \in 1..Len(n) /\ p[2] \in 0..Len(Right(n, p[1]))
    BY PlacesIs
  <2>3. Len(Right(n, p[1])) <= MaxLabel /\ Len(Right(n, p[1])) \in Nat
    BY <2>2, RightIs DEF Short, Label
  <2>4. p[2] \in 0..MaxLabel
    BY <2>2, <2>3, SizeFacts
  <2> QED
    BY <2>2, <2>4
<1>4. IsFiniteSet(Places(n))
  BY <1>2, <1>3, FS_Subset
<1> QED
  BY <1>4, FS_CardinalityType DEF WireLength

\* A name whose labels, from the right, are no longer than those of another.
Within(a, m) == Len(a) <= Len(m) /\ \A i \in 1..Len(a) : Len(Right(a, i)) <= Len(Right(m, i))

LEMMA WithinIs ==
    ASSUME NEW a \in LabelLists, NEW m \in LabelLists, Short(m), Within(a, m)
    PROVE  Short(a) /\ WireLength(a) \in Nat /\ WireLength(a) <= WireLength(m) /\ WireLength(m) \in Nat
<1>1. PICK na \in Nat, nm \in Nat : na = Len(a) /\ nm = Len(m) /\ na <= nm
  BY RightIs DEF Within
<1>2. ASSUME NEW i \in 1..na
      PROVE  /\ Len(Right(a, i)) \in Nat /\ Len(Right(m, i)) \in Nat
             /\ Len(Right(a, i)) <= Len(Right(m, i)) /\ Len(Right(m, i)) <= MaxLabel
  <2>1. i \in 1..nm
    BY <1>1
  <2> QED
    BY <1>1, <2>1, RightIs DEF Within, Short, Label
<1>3. Short(a)
  BY <1>1, <1>2, SizeFacts DEF Short
<1>4. IsFiniteSet(Places(m)) /\ WireLength(m) \in Nat /\ WireLength(a) \in Nat
  BY <1>3, PlacesFinite
<1>5. Places(a) \in SUBSET Places(m)
  <2>1. SUFFICES ASSUME NEW p \in Places(a) PROVE p \in Places(m)
    OBVIOUS
  <2>2. p \in Nat \X Nat /\ p[1] \in 1..na /\ p[2] \in 0..Len(Right(a, p[1]))
    BY <1>1, PlacesIs
  <2>3. p[1] \in 1..nm /\ p[2] \in 0..Len(Right(m, p[1]))
    BY <1>1, <1>2, <2>2
  <2> QED
    BY <1>1, <2>2, <2>3, PlacesIs
<1>6. Cardinality(Places(a)) <= Cardinality(Places(m))
  BY <1>4, <1>5, FS_Subset
<1> QED
  BY <1>3, <1>4, <1>6 DEF WireLength

LEMMA NameIs ==
    ASSUME NEW n \in LabelLists, IsAbsolute(n)
    PROVE  /\ IsName(n) <=> /\ Short(n) /\ WireLength(n) <= MaxName
                            /\ \A i \in 2..Len(n) : Right(n, i) # <<>>
           /\ Len(n) \in Nat /\ Len(n) >= 1
<1>1. PICK k \in Nat : k = Len(n) /\ k >= 1
  BY EmptySeq DEF IsAbsolute, LabelLists
<1>2. \A i \in 1..k : n[i] = Right(n, k + 1 - i) /\ Right(n, i) = n[k + 1 - i]
  BY <1>1, RightIs DEF Right
<1>3. DOMAIN n = 1..k
  BY <1>1 DEF LabelLists
<1>4. (\A i \in DOMAIN n : Len(n[i]) <= MaxLabel) <=> Short(n)
  <2>1. \A i \in 1..k : k + 1 - i \in 1..k
    BY <1>1
  <2> QED
    BY <1>1, <1>2, <1>3, <2>1 DEF Short
<1>5. (\A i \in 1..(k - 1) : n[i] # <<>>) <=> \A i \in 2..k : Right(n, i) # <<>>
  <2>1. \A i \in 1..(k - 1) : k + 1 - i \in 2..k /\ i \in 1..k
    BY <1>1
  <2>2. \A i \in 2..k : k + 1 - i \in 1..(k - 1) /\ i \in 1..k
    BY <1>1
  <2> QED
    BY <1>2, <2>1, <2>2
<1> QED
  BY <1>1, <1>4, <1>5 DEF IsName, Valid, LabelLists, Label

LEMMA NameWithin ==
    ASSUME NEW a \in LabelLists, NEW m \in LabelLists, IsAbsolute(a), IsName(m), Within(a, m),
           \A i \in 2..Len(a) : Right(a, i) # <<>>
    PROVE  IsName(a)
<1>1. IsAbsolute(m)
  BY DEF IsName
<1>2. Short(m) /\ WireLength(m) <= MaxName
  BY <1>1, NameIs
<1>3. Short(a) /\ WireLength(a) \in Nat /\ WireLength(m) \in Nat /\ WireLength(a) <= WireLength(m)
  BY <1>2, WithinIs
<1> QED
  BY <1>2, <1>3, NameIs, SizeFacts

\* What shares its labels is as long.
LEMMA WithinWhenUnder ==
    ASSUME NEW n \in LabelLists, NEW m \in LabelLists, Under(m, n)
    PROVE  /\ Within(n, m)
           /\ \A h \in Label : Len(n) < Len(m) /\ Len(h) <= Len(Right(m, Len(n) + 1)) => Within(<<h>> \o n, m)
<1>1. PICK k \in Nat, j \in Nat : k = Len(n) /\ j = Len(m) /\ k <= j
  BY RightIs DEF Under, Shares
<1>2. ASSUME NEW i \in 1..k PROVE Len(Right(n, i)) = Len(Right(m, i)) /\ Len(Right(n, i)) \in Nat
  <2>1. FromRight(n, i) = FromRight(m, i)
    BY <1>1 DEF Under, Shares
  <2>2. i \in 1..Len(n) /\ i \in 1..Len(m)
    BY <1>1
  <2>3. /\ Len(FromRight(n, i)) = Len(Right(n, i)) /\ Len(FromRight(m, i)) = Len(Right(m, i))
        /\ Right(n, i) \in Label
    BY <2>2, RightIs
  <2> QED
    BY <2>1, <2>3 DEF Label
<1>3. Within(n, m)
  BY <1>1, <1>2 DEF Within
<1>4. ASSUME NEW h \in Label, k < j, Len(h) <= Len(Right(m, k + 1)) PROVE Within(<<h>> \o n, m)
  <2> DEFINE s == <<h>> \o n
  <2>1. Len(s) = k + 1 /\ Right(s, k + 1) = h /\ \A i \in 1..k : Right(s, i) = Right(n, i)
    BY <1>1, ConsIs
  <2> HIDE DEF s
  <2>2. ASSUME NEW i \in 1..k + 1 PROVE Len(Right(s, i)) <= Len(Right(m, i))
    <3>1. CASE i = k + 1
      BY <1>4, <2>1, <3>1
    <3>2. CASE i # k + 1
      <4>1. i \in 1..k
        BY <3>2
      <4> QED
        BY <1>2, <2>1, <4>1
    <3> QED
      BY <3>1, <3>2
  <2> QED
    BY <1>1, <1>4, <2>1, <2>2 DEF Within, s
<1> QED
  BY <1>1, <1>3, <1>4

\* A label is as long as it is, and its length.
LEMMA WireCons ==
    ASSUME NEW h \in Label, NEW n \in LabelLists, Short(n), Len(h) <= MaxLabel
    PROVE  /\ WireLength(<<h>> \o n) = WireLength(n) + Len(h) + 1
           /\ WireLength(n) \in Nat /\ Short(<<h>> \o n)
<1> DEFINE s == <<h>> \o n
<1>1. PICK k \in Nat, size \in Nat : k = Len(n) /\ size = Len(h)
  BY RightIs DEF Label
<1>2. s \in LabelLists /\ Len(s) = k + 1 /\ Right(s, k + 1) = h /\ \A i \in 1..k : Right(s, i) = Right(n, i)
  BY <1>1, ConsIs
<1> HIDE DEF s
<1>3. Short(s)
  <2>1. ASSUME NEW i \in 1..k + 1 PROVE Len(Right(s, i)) <= MaxLabel
    <3>1. CASE i = k + 1
      BY <1>2, <3>1
    <3>2. CASE i # k + 1
      <4>1. i \in 1..k
        BY <3>2
      <4> QED
        BY <1>1, <1>2, <4>1 DEF Short
    <3> QED
      BY <3>1, <3>2
  <2> QED
    BY <1>2, <2>1 DEF Short
<1> DEFINE L == {k + 1} \X (0..size)
<1>4. IsFiniteSet(L) /\ Cardinality(L) = size + 1
  <2>1. IsFiniteSet({k + 1}) /\ Cardinality({k + 1}) = 1
    BY FS_Singleton
  <2>2. IsFiniteSet(0..size) /\ Cardinality(0..size) = size + 1
    <3>1. /\ IsFiniteSet(0..size)
          /\ Cardinality(0..size) = IF 0 > size THEN 0 ELSE size - 0 + 1
      BY FS_Interval
    <3> QED
      BY <3>1
  <2>3. IsFiniteSet(L) /\ Cardinality(L) = Cardinality({k + 1}) * Cardinality(0..size)
    BY <2>1, <2>2, FS_Product
  <2> QED
    BY <2>1, <2>2, <2>3
<1>5. Places(s) = Places(n) \cup L
  <2>1. ASSUME NEW p PROVE p \in Places(s) <=> p \in Places(n) \/ p \in L
    <3>1. p \in Places(s) <=> p \in Nat \X Nat /\ p[1] \in 1..k + 1 /\ p[2] \in 0..Len(Right(s, p[1]))
      BY <1>2, PlacesIs
    <3>2. p \in Places(n) <=> p \in Nat \X Nat /\ p[1] \in 1..k /\ p[2] \in 0..Len(Right(n, p[1]))
      BY <1>1, PlacesIs
    <3>3. p \in L <=> p \in Nat \X Nat /\ p[1] = k + 1 /\ p[2] \in 0..size
      OBVIOUS
    <3>4. CASE p \in Nat \X Nat /\ p[1] = k + 1
      BY <1>1, <1>2, <3>1, <3>2, <3>3, <3>4
    <3>5. CASE p \in Nat \X Nat /\ p[1] # k + 1
      <4>1. p[1] \in 1..k + 1 <=> p[1] \in 1..k
        BY <3>5
      <4> QED
        BY <1>2, <3>1, <3>2, <3>3, <3>5, <4>1
    <3> QED
      BY <3>1, <3>2, <3>3, <3>4, <3>5
  <2> QED
    BY <2>1
<1>6. Places(n) \cap L = {}
  <2>1. \A p \in Places(n) : p[1] \in 1..k
    BY <1>1, PlacesIs
  <2>2. \A p \in L : p[1] = k + 1
    OBVIOUS
  <2> QED
    BY <2>1, <2>2
<1> HIDE DEF L
<1>7. IsFiniteSet(Places(n)) /\ WireLength(n) \in Nat
  BY PlacesFinite
<1>8. Cardinality(Places(n) \cup L) = Cardinality(Places(n)) + Cardinality(L) - Cardinality(Places(n) \cap L)
  BY <1>4, <1>7, FS_Union
<1>9. Cardinality(Places(s)) = Cardinality(Places(n)) + (size + 1) - 0
  BY <1>4, <1>5, <1>6, <1>8, FS_EmptySet
<1>10. WireLength(s) = WireLength(n) + size + 1
  BY <1>7, <1>9 DEF WireLength
<1> QED
  BY <1>1, <1>3, <1>7, <1>10 DEF s

LEMMA Division ==
    ASSUME NEW x \in Nat, NEW d \in Nat, d >= 1
    PROVE  \E q \in Nat, r \in 0..(d - 1) : q = x \div d /\ r = x % d /\ x = d * q + r
<1>1. x % d = x - d * (x \div d)
  BY SMTT(30)
<1>2. PICK q \in Nat, r \in 0..(d - 1) : q = x \div d /\ r = x % d
  OBVIOUS
<1>3. d * q \in Nat /\ r = x - d * q
  BY <1>1, <1>2
<1>4. x = d * q + r
  BY <1>3
<1> QED
  BY <1>2, <1>4

\* As many labels of the greatest size as q before a name.
Filled(q, n) == [i \in 1..q |-> Maximal(MaxLabel)] \o n

LEMMA FilledIs ==
    ASSUME NEW q \in Nat, NEW n \in LabelLists
    PROVE  LET F == [i \in 1..q |-> Maximal(MaxLabel)]
               p == Filled(q, n)
           IN /\ F \in LabelLists /\ p \in LabelLists /\ Len(p) = Len(n) + q
              /\ \A i \in 1..Len(n) : Right(p, i) = Right(n, i)
              /\ \A i \in (Len(n) + 1)..Len(p) : Right(p, i) = Maximal(MaxLabel)
              /\ IsAbsolute(n) => IsAbsolute(p)
<1> DEFINE F == [i \in 1..q |-> Maximal(MaxLabel)]
           p == Filled(q, n)
<1>1. F \in LabelLists /\ Len(F) = q /\ \A i \in 1..q : F[i] = Maximal(MaxLabel)
  BY MaximalIs, SizeFacts DEF LabelLists
<1> HIDE DEF F
<1>0. p = F \o n
  BY DEF Filled, F
<1> HIDE DEF p
<1>2. /\ p \in LabelLists /\ Len(p) = q + Len(n)
      /\ \A i \in 1..Len(n) : Right(p, i) = Right(n, i)
      /\ \A i \in 1..q : Right(p, Len(n) + i) = Right(F, i)
      /\ IsAbsolute(n) => IsAbsolute(p)
  BY <1>0, <1>1, ConcatIs
<1>3. PICK k \in Nat : k = Len(n)
  BY RightIs
<1>4. ASSUME NEW i \in (k + 1)..Len(p) PROVE Right(p, i) = Maximal(MaxLabel)
  <2>1. i - k \in 1..q /\ k + (i - k) = i /\ q + 1 - (i - k) \in 1..q
    BY <1>2, <1>3
  <2>2. Right(p, i) = Right(F, i - k)
    BY <1>2, <1>3, <2>1
  <2> QED
    BY <1>1, <2>1, <2>2 DEF Right
<1>5. Len(p) = k + q
  BY <1>2, <1>3
<1> QED
  BY <1>1, <1>2, <1>3, <1>4, <1>5 DEF p, F

LEMMA WireFilled ==
    ASSUME NEW q \in Nat, NEW n \in LabelLists, Short(n)
    PROVE  /\ WireLength(Filled(q, n)) = WireLength(n) + (MaxLabel + 1) * q
           /\ WireLength(n) \in Nat /\ Short(Filled(q, n))
<1> DEFINE p == Filled(q, n)
<1>1. PICK k \in Nat : k = Len(n)
  BY RightIs
<1>2. /\ p \in LabelLists /\ Len(p) = k + q
      /\ \A i \in 1..k : Right(p, i) = Right(n, i)
      /\ \A i \in (k + 1)..(k + q) : Right(p, i) = Maximal(MaxLabel)
  <2>1. /\ p \in LabelLists /\ Len(p) = Len(n) + q
        /\ \A i \in 1..Len(n) : Right(p, i) = Right(n, i)
        /\ \A i \in (Len(n) + 1)..Len(p) : Right(p, i) = Maximal(MaxLabel)
    BY FilledIs
  <2> HIDE DEF p
  <2> QED
    BY <1>1, <2>1
<1> HIDE DEF p
<1>3. \A i \in (k + 1)..(k + q) : Len(Right(p, i)) = MaxLabel
  BY <1>2, MaximalIs, SizeFacts
<1>4. Short(p)
  <2>1. ASSUME NEW i \in 1..(k + q) PROVE Len(Right(p, i)) <= MaxLabel
    <3>1. CASE i <= k
      BY <1>1, <1>2, <3>1 DEF Short
    <3>2. CASE i > k
      BY <1>3, <3>2, SizeFacts
    <3> QED
      BY <3>1, <3>2
  <2> QED
    BY <1>2, <2>1 DEF Short
<1> DEFINE A == (k + 1)..(k + q)
           L == A \X (0..MaxLabel)
<1>5. IsFiniteSet(L) /\ Cardinality(L) = q * (MaxLabel + 1)
  <2>1. IsFiniteSet(A) /\ Cardinality(A) = q
    <3>1. /\ IsFiniteSet(A)
          /\ Cardinality(A) = IF k + 1 > k + q THEN 0 ELSE (k + q) - (k + 1) + 1
      BY FS_Interval
    <3> QED
      BY <3>1
  <2>2. IsFiniteSet(0..MaxLabel) /\ Cardinality(0..MaxLabel) = MaxLabel + 1
    <3>1. /\ IsFiniteSet(0..MaxLabel)
          /\ Cardinality(0..MaxLabel) = IF 0 > MaxLabel THEN 0 ELSE MaxLabel - 0 + 1
      BY SizeFacts, FS_Interval
    <3> QED
      BY <3>1, SizeFacts
  <2>3. IsFiniteSet(L) /\ Cardinality(L) = Cardinality(A) * Cardinality(0..MaxLabel)
    BY <2>1, <2>2, FS_Product
  <2> QED
    BY <2>1, <2>2, <2>3
<1>6. Places(p) = Places(n) \cup L
  <2>1. ASSUME NEW x PROVE x \in Places(p) <=> x \in Places(n) \/ x \in L
    <3>1. x \in Places(p) <=> x \in Nat \X Nat /\ x[1] \in 1..(k + q) /\ x[2] \in 0..Len(Right(p, x[1]))
      BY <1>2, PlacesIs
    <3>2. x \in Places(n) <=> x \in Nat \X Nat /\ x[1] \in 1..k /\ x[2] \in 0..Len(Right(n, x[1]))
      BY <1>1, PlacesIs
    <3>3. x \in L <=> x \in Nat \X Nat /\ x[1] \in (k + 1)..(k + q) /\ x[2] \in 0..MaxLabel
      BY SizeFacts
    <3>4. CASE x \in Nat \X Nat /\ x[1] \in 1..k
      <4>1. Right(p, x[1]) = Right(n, x[1]) /\ x[1] \in 1..(k + q) /\ x[1] \notin (k + 1)..(k + q)
        BY <1>2, <3>4
      <4> QED
        BY <3>1, <3>2, <3>3, <3>4, <4>1
    <3>5. CASE x \in Nat \X Nat /\ x[1] \in (k + 1)..(k + q)
      <4>1. Len(Right(p, x[1])) = MaxLabel /\ x[1] \in 1..(k + q) /\ x[1] \notin 1..k
        BY <1>3, <3>5
      <4> QED
        BY <3>1, <3>2, <3>3, <3>5, <4>1
    <3>6. CASE x \notin Nat \X Nat \/ (x[1] \notin 1..k /\ x[1] \notin (k + 1)..(k + q))
      <4>1. x \in Nat \X Nat => x[1] \in Nat
        OBVIOUS
      <4>2. x \in Nat \X Nat => x[1] \notin 1..(k + q)
        BY <3>6, <4>1
      <4> QED
        BY <3>1, <3>2, <3>3, <3>6, <4>2
    <3> QED
      BY <3>4, <3>5, <3>6
  <2> QED
    BY <2>1
<1>7. Places(n) \cap L = {}
  <2>1. \A x \in Places(n) : x[1] \in 1..k
    BY <1>1, PlacesIs
  <2>2. \A x \in L : x[1] \in (k + 1)..(k + q)
    OBVIOUS
  <2> QED
    BY <2>1, <2>2
<1> HIDE DEF L
<1>8. IsFiniteSet(Places(n)) /\ WireLength(n) \in Nat
  BY PlacesFinite
<1>9. Cardinality(Places(n) \cup L) = Cardinality(Places(n)) + Cardinality(L) - Cardinality(Places(n) \cap L)
  BY <1>5, <1>8, FS_Union
<1>10. Cardinality(Places(p)) = Cardinality(Places(n)) + Cardinality(L) - 0
  BY <1>6, <1>7, <1>9, FS_EmptySet
<1>11. q * (MaxLabel + 1) = (MaxLabel + 1) * q /\ (MaxLabel + 1) * q \in Nat
  BY SizeFacts
<1> QED
  BY <1>4, <1>5, <1>8, <1>10, <1>11 DEF WireLength, p

\* What is put before a name of the greatest size.
LEMMA PadIs ==
    ASSUME NEW n \in LabelLists, IsName(n)
    PROVE  \E q \in Nat, r \in 0..MaxLabel :
             LET G == Filled(q, n)
             IN /\ WireLength(G) = MaxName - r /\ IsName(G)
                /\ PadToMaxName(n) = IF r >= 2 THEN <<Maximal(r - 1)>> \o G ELSE G
                /\ \E F \in LabelLists : PadToMaxName(n) = F \o n
<1>1. IsAbsolute(n)
  BY DEF IsName
<1>2. Short(n) /\ WireLength(n) <= MaxName /\ \A i \in 2..Len(n) : Right(n, i) # <<>>
  BY <1>1, NameIs
<1>3. PICK x \in Nat : x = MaxName - WireLength(n)
  BY <1>2, PlacesFinite, SizeFacts
<1>4. MaxLabel + 1 \in Nat /\ MaxLabel + 1 >= 1 /\ (MaxLabel + 1) - 1 = MaxLabel
  BY SizeFacts
<1>5. PICK q \in Nat, r \in 0..MaxLabel : q = x \div (MaxLabel + 1) /\ r = x % (MaxLabel + 1) /\ x = (MaxLabel + 1) * q + r
  <2>1. PICK d \in Nat : d = MaxLabel + 1 /\ d >= 1 /\ d - 1 = MaxLabel
    BY <1>4
  <2>2. \E q \in Nat, r \in 0..(d - 1) : q = x \div d /\ r = x % d /\ x = d * q + r
    BY <2>1, Division
  <2> QED
    BY <2>1, <2>2
<1> DEFINE G == Filled(q, n)
           B == [i \in 1..q |-> Maximal(MaxLabel)]
           A == IF r >= 2 THEN <<Maximal(r - 1)>> ELSE <<>>
<1>6. /\ B \in LabelLists /\ G \in LabelLists /\ Len(G) = Len(n) + q /\ G = B \o n
      /\ \A i \in 1..Len(n) : Right(G, i) = Right(n, i)
      /\ \A i \in (Len(n) + 1)..Len(G) : Right(G, i) = Maximal(MaxLabel)
      /\ IsAbsolute(G)
  BY <1>1, FilledIs DEF Filled
<1>7. WireLength(G) = WireLength(n) + (MaxLabel + 1) * q /\ WireLength(n) \in Nat /\ Short(G)
  BY <1>2, WireFilled
<1>8. PadToMaxName(n) = (A \o B) \o n
  BY <1>3, <1>5 DEF PadToMaxName, Fill
<1> HIDE DEF B
<1>9. A \in LabelLists
  BY MaximalIs DEF LabelLists
<1>10. A \o B \in LabelLists /\ (A \o B) \o n = A \o G
  <2> HIDE DEF A
  <2> QED
    BY <1>6, <1>9, ConcatAssociative, ConcatProperties, SMTT(20) DEF LabelLists
<1> HIDE DEF G
<1>11. A \o G = IF r >= 2 THEN <<Maximal(r - 1)>> \o G ELSE G
  BY <1>6, ConcatEmptySeq DEF LabelLists
<1>12. WireLength(G) = MaxName - r
  <2>1. PICK y \in Nat : y = (MaxLabel + 1) * q
    BY <1>4
  <2>2. PICK w \in Nat : w = WireLength(n)
    BY <1>7
  <2>3. x = MaxName - w /\ x = y + r /\ WireLength(G) = w + y
    BY <1>3, <1>5, <1>7, <2>1, <2>2
  <2> QED
    BY <2>3, SizeFacts
<1>13. IsName(G)
  <2>1. PICK k \in Nat : k = Len(n)
    BY RightIs
  <2>2. ASSUME NEW i \in 2..(k + q) PROVE Right(G, i) # <<>>
    <3>1. CASE i <= k
      BY <1>2, <1>6, <2>1, <3>1
    <3>2. CASE i > k
      <4>1. Right(G, i) = Maximal(MaxLabel)
        BY <1>6, <2>1, <3>2
      <4>2. Len(Maximal(MaxLabel)) = MaxLabel
        BY MaximalIs, SizeFacts
      <4> QED
        BY <4>1, <4>2, SizeFacts
    <3> QED
      BY <3>1, <3>2
  <2>3. WireLength(G) <= MaxName
    BY <1>12, SizeFacts
  <2> QED
    BY <1>6, <1>7, <2>1, <2>2, <2>3, NameIs
<1> QED
  BY <1>8, <1>10, <1>11, <1>12, <1>13 DEF G

LEMMA PadIsName ==
    ASSUME NEW n \in LabelLists, IsName(n)
    PROVE  IsName(PadToMaxName(n)) /\ \E F \in LabelLists : PadToMaxName(n) = F \o n
<1>1. PICK q \in Nat, r \in 0..MaxLabel :
        /\ WireLength(Filled(q, n)) = MaxName - r /\ IsName(Filled(q, n))
        /\ PadToMaxName(n) = IF r >= 2 THEN <<Maximal(r - 1)>> \o Filled(q, n) ELSE Filled(q, n)
        /\ \E F \in LabelLists : PadToMaxName(n) = F \o n
  BY PadIs
<1> DEFINE G == Filled(q, n)
           h == Maximal(r - 1)
           p == <<h>> \o G
<1>2. G \in LabelLists /\ IsAbsolute(G)
  BY <1>1 DEF IsName, LabelLists, Label
<1> HIDE DEF G
<1>3. CASE r < 2
  <2>1. ~(r >= 2)
    BY <1>3, SizeFacts
  <2>2. PadToMaxName(n) = Filled(q, n)
    BY <1>1, <2>1
  <2> QED
    BY <1>1, <2>2
<1>4. CASE r >= 2
  <2>1. h \in Label /\ Len(h) = r - 1 /\ r - 1 <= MaxLabel /\ h # <<>>
    <3>1. r - 1 \in Nat /\ r - 1 <= MaxLabel /\ r - 1 # 0
      BY <1>4, SizeFacts
    <3>2. h \in Label /\ Len(h) = r - 1
      BY <3>1, MaximalIs
    <3> QED
      BY <3>1, <3>2
  <2>2. Short(G) /\ \A i \in 2..Len(G) : Right(G, i) # <<>>
    BY <1>1, <1>2, NameIs DEF G
  <2> HIDE DEF h
  <2>3. /\ p \in LabelLists /\ Len(p) = Len(G) + 1 /\ Right(p, Len(G) + 1) = h /\ IsAbsolute(p)
        /\ \A i \in 1..Len(G) : Right(p, i) = Right(G, i)
    BY <1>2, <2>1, ConsIs
  <2>4. WireLength(p) = WireLength(G) + Len(h) + 1 /\ Short(p)
    BY <1>2, <2>1, <2>2, WireCons
  <2> HIDE DEF p
  <2>5. WireLength(p) <= MaxName
    <3>1. WireLength(p) = (MaxName - r) + (r - 1) + 1
      BY <1>1, <2>1, <2>4 DEF G
    <3> QED
      BY <3>1, SizeFacts
  <2>6. PICK k \in Nat : k = Len(G)
    BY <1>2, RightIs
  <2>7. ASSUME NEW i \in 2..(k + 1) PROVE Right(p, i) # <<>>
    <3>1. CASE i = k + 1
      BY <2>1, <2>3, <2>6, <3>1
    <3>2. CASE i # k + 1
      <4>1. i \in 2..k /\ i \in 1..k
        BY <3>2
      <4> QED
        BY <2>2, <2>3, <2>6, <4>1
    <3> QED
      BY <3>1, <3>2
  <2>8. IsName(p)
    BY <2>3, <2>4, <2>5, <2>6, <2>7, NameIs
  <2> QED
    BY <1>1, <1>4, <2>8 DEF p, h, G
<1> QED
  BY <1>3, <1>4

\* No name of which it is made is after it.
LEMMA PadIsLast ==
    ASSUME NEW n \in LabelLists, IsName(n), NEW m \in LabelLists, IsName(m), Under(m, n)
    PROVE  ~Less(PadToMaxName(n), m)
<1>1. PICK q \in Nat, r \in 0..MaxLabel :
        /\ WireLength(Filled(q, n)) = MaxName - r /\ IsName(Filled(q, n))
        /\ PadToMaxName(n) = IF r >= 2 THEN <<Maximal(r - 1)>> \o Filled(q, n) ELSE Filled(q, n)
  BY PadIs
<1> DEFINE G == Filled(q, n)
           p == PadToMaxName(n)
<1>2. IsName(p)
  BY PadIsName
<1>3. /\ G \in LabelLists /\ IsAbsolute(G) /\ p \in LabelLists /\ IsAbsolute(p) /\ IsAbsolute(n) /\ IsAbsolute(m)
  BY <1>1, <1>2 DEF IsName, LabelLists, Label
<1>4. PICK k \in Nat, km \in Nat : k = Len(n) /\ km = Len(m)
  BY RightIs
<1>5. /\ Len(G) = k + q
      /\ \A i \in 1..k : Right(G, i) = Right(n, i)
      /\ \A i \in (k + 1)..(k + q) : Right(G, i) = Maximal(MaxLabel)
  <2>1. /\ Len(G) = Len(n) + q
        /\ \A i \in 1..Len(n) : Right(G, i) = Right(n, i)
        /\ \A i \in (Len(n) + 1)..Len(G) : Right(G, i) = Maximal(MaxLabel)
    BY FilledIs
  <2> HIDE DEF G
  <2> QED
    BY <1>4, <2>1
<1>6. Short(G)
  BY <1>1, <1>3, NameIs
<1> HIDE DEF G
<1>7. /\ Short(m) /\ WireLength(m) <= MaxName /\ WireLength(m) \in Nat
      /\ \A i \in 1..km : Len(Right(m, i)) \in Nat /\ Len(Right(m, i)) <= MaxLabel /\ FromRight(m, i) \in Label
                          /\ Len(FromRight(m, i)) = Len(Right(m, i))
      /\ \A i \in 2..km : Len(Right(m, i)) >= 1
  <2>1. Short(m) /\ WireLength(m) <= MaxName /\ \A i \in 2..km : Right(m, i) # <<>>
    BY <1>3, <1>4, NameIs
  <2>2. \A i \in 1..km : Right(m, i) \in Label /\ FromRight(m, i) \in Label /\ Len(FromRight(m, i)) = Len(Right(m, i))
    BY <1>4, RightIs
  <2>3. ASSUME NEW l \in Label PROVE Len(l) \in Nat /\ (l # <<>> => Len(l) >= 1)
    BY DEF Label
  <2>4. \A i \in 1..km : Len(Right(m, i)) \in Nat
    BY <2>2, <2>3
  <2>5. \A i \in 2..km : Len(Right(m, i)) >= 1
    <3>1. \A i \in 2..km : i \in 1..km
      OBVIOUS
    <3> QED
      BY <2>1, <2>2, <2>3, <3>1
  <2> QED
    BY <1>4, <2>1, <2>2, <2>4, <2>5, PlacesFinite DEF Short
<1>8. SUFFICES ASSUME Above(m, p) \/ (Under(m, p) /\ Len(p) < Len(m)) PROVE FALSE
  BY <1>3, CompareIs
<1>9. PICK kp \in Nat : kp = Len(p)
  BY <1>3, RightIs
<1>10. /\ kp = IF r >= 2 THEN k + q + 1 ELSE k + q
       /\ \A i \in 1..(k + q) : Right(p, i) = Right(G, i)
       /\ r >= 2 => Right(p, k + q + 1) = Maximal(r - 1)
       /\ WireLength(p) \in Nat /\ WireLength(p) >= MaxName - 1 /\ Short(p)
  <2>1. CASE r < 2
    <3>1. p = G
      BY <1>1, <2>1 DEF G
    <3>2. WireLength(p) = MaxName - r /\ WireLength(p) \in Nat
      BY <1>1, <1>3, <1>6, <3>1, PlacesFinite DEF G
    <3> QED
      BY <1>5, <1>6, <1>9, <2>1, <3>1, <3>2, SizeFacts
  <2>2. CASE r >= 2
    <3>1. Maximal(r - 1) \in Label /\ Len(Maximal(r - 1)) = r - 1 /\ r - 1 <= MaxLabel
      BY <2>2, MaximalIs, SizeFacts
    <3>2. p = <<Maximal(r - 1)>> \o G
      BY <1>1, <2>2 DEF G
    <3> HIDE DEF p
    <3>3. /\ Len(p) = Len(G) + 1 /\ Right(p, Len(G) + 1) = Maximal(r - 1)
          /\ \A i \in 1..Len(G) : Right(p, i) = Right(G, i)
      BY <1>3, <3>1, <3>2, ConsIs
    <3>4. WireLength(p) = WireLength(G) + Len(Maximal(r - 1)) + 1 /\ WireLength(G) \in Nat /\ Short(p)
      BY <1>3, <1>6, <3>1, <3>2, WireCons
    <3>5. WireLength(p) = MaxName
      <4>1. WireLength(p) = (MaxName - r) + (r - 1) + 1
        BY <1>1, <3>1, <3>4 DEF G
      <4> QED
        BY <4>1, SizeFacts
    <3> QED
      BY <1>5, <1>9, <2>2, <3>3, <3>4, <3>5, SizeFacts
  <2> QED
    BY <2>1, <2>2
<1> HIDE DEF p
<1>11. \A i \in 1..kp : FromRight(p, i) = LowerLabel(Right(p, i))
  BY <1>3, <1>9, RightIs
<1>12. \A i \in 1..(k + q) : i \in 1..kp /\ FromRight(p, i) = FromRight(G, i)
  <2>1. \A i \in 1..(k + q) : FromRight(G, i) = LowerLabel(Right(G, i))
    BY <1>3, <1>5, RightIs
  <2> QED
    BY <1>10, <1>11, <2>1
<1>13. ASSUME NEW j \in Nat, AboveAt(m, p, j) PROVE FALSE
  <2>1. /\ j < kp /\ j < km /\ \A i \in 1..j : FromRight(p, i) = FromRight(m, i)
        /\ Precedes(FromRight(p, j + 1), FromRight(m, j + 1))
    BY <1>4, <1>9, <1>13 DEF AboveAt, Shares
  <2>2. j + 1 \in 1..kp /\ j + 1 \in 1..km
    BY <2>1
  <2>3. CASE j < k
    <3>1. FromRight(p, j + 1) = FromRight(n, j + 1)
      <4>1. j + 1 \in 1..k /\ j + 1 \in 1..(k + q)
        BY <2>3
      <4>2. Right(p, j + 1) = Right(n, j + 1)
        BY <1>5, <1>10, <4>1
      <4> QED
        BY <1>4, <1>11, <2>2, <4>1, <4>2, RightIs
    <3>2. FromRight(m, j + 1) = FromRight(n, j + 1)
      BY <1>4, <2>3 DEF Under, Shares
    <3> QED
      BY <1>7, <2>1, <2>2, <3>1, <3>2, PrecedesIrreflexive
  <2>4. ASSUME NEW size \in Nat, Right(p, j + 1) = Maximal(size)
        PROVE  size < Len(Right(m, j + 1))
    <3>1. FromRight(p, j + 1) = Maximal(size)
      BY <1>11, <2>2, <2>4, MaximalIs
    <3>2. Len(Maximal(size)) < Len(FromRight(m, j + 1))
      BY <1>7, <2>1, <2>2, <3>1, MaximalIs, OnlyLongerIsAfter
    <3> QED
      BY <1>7, <2>2, <3>2, MaximalIs
  <2>5. CASE j >= k /\ j < k + q
    <3>1. Right(p, j + 1) = Maximal(MaxLabel)
      BY <1>5, <1>10, <2>5
    <3> QED
      BY <1>7, <2>2, <2>4, <3>1, SizeFacts
  <2>6. CASE j >= k + q
    <3>1. r >= 2 /\ j = k + q /\ r \in Nat /\ r - 1 \in Nat
      BY <1>10, <2>1, <2>6
    <3>2. r <= Len(Right(m, Len(G) + 1))
      <4>1. r - 1 < Len(Right(m, j + 1))
        BY <1>10, <2>4, <3>1
      <4> QED
        BY <1>5, <1>7, <2>2, <3>1, <4>1
    <3>3. Under(m, G) /\ Len(G) < Len(m)
      BY <1>4, <1>5, <1>12, <2>1, <3>1 DEF Under, Shares
    <3>4. Maximal(r) \in Label /\ Len(Maximal(r)) = r /\ r <= MaxLabel
      BY <3>1, MaximalIs
    <3>5. Within(<<Maximal(r)>> \o G, m)
      BY <1>3, <3>2, <3>3, <3>4, WithinWhenUnder
    <3>6. WireLength(<<Maximal(r)>> \o G) = MaxName - r + r + 1 /\ <<Maximal(r)>> \o G \in LabelLists
      BY <1>1, <1>3, <1>6, <3>4, WireCons, ConsIs DEF G
    <3>7. MaxName - r + r + 1 <= WireLength(m)
      BY <1>3, <1>7, <3>5, <3>6, WithinIs
    <3> QED
      BY <1>7, <3>1, <3>7, SizeFacts
  <2> QED
    BY <2>3, <2>5, <2>6
<1>14. CASE Under(m, p) /\ Len(p) < Len(m)
  <2> DEFINE h == <<MinimalOctet>>
  <2>1. h \in Label /\ Len(h) = 1
    BY OctetFacts DEF Label
  <2> HIDE DEF h
  <2>2. Len(h) <= Len(Right(m, Len(p) + 1))
    <3>1. kp >= 1
      BY <1>3, <1>9, NameIs
    <3>2. kp + 1 \in 2..km
      BY <1>4, <1>9, <1>14, <3>1
    <3> QED
      BY <1>7, <1>9, <2>1, <3>2
  <2>3. Within(<<h>> \o p, m)
    BY <1>3, <1>14, <2>1, <2>2, WithinWhenUnder
  <2>4. WireLength(<<h>> \o p) = WireLength(p) + 1 + 1 /\ <<h>> \o p \in LabelLists
    BY <1>3, <1>10, <2>1, SizeFacts, WireCons, ConsIs
  <2>5. WireLength(p) + 1 + 1 <= WireLength(m)
    BY <1>3, <1>7, <2>3, <2>4, WithinIs
  <2> QED
    BY <1>7, <1>10, <2>5, SizeFacts
<1> QED
  BY <1>8, <1>13, <1>14 DEF Above

-----------------------------------------------------------------------------
(* Neighbours *)

LEMMA CanonicalIs ==
    ASSUME NEW n \in LabelLists, n = Canonicalize(n)
    PROVE  \A i \in 1..Len(n) : /\ FromRight(n, i) = Right(n, i)
                                /\ \A j \in 1..Len(Right(n, i)) : Right(n, i)[j] \notin UpperCase
<1>1. PICK k \in Nat : k = Len(n) /\ DOMAIN n = 1..k
  BY RightIs DEF LabelLists
<1>2. \A i \in 1..k : n[i] = LowerLabel(n[i])
  BY <1>1 DEF Canonicalize
<1>3. ASSUME NEW i \in 1..k PROVE FromRight(n, i) = Right(n, i)
  BY <1>1, <1>2 DEF FromRight, Right
<1>4. ASSUME NEW i \in 1..k PROVE \A j \in 1..Len(FromRight(n, i)) : FromRight(n, i)[j] \notin UpperCase
  BY <1>1, RightIs
<1> QED
  BY <1>1, <1>3, <1>4

\* The first name below a name.
LEMMA FirstBelow ==
    ASSUME NEW n \in LabelLists, IsName(n), NEW m \in LabelLists, IsName(m), Less(n, m)
    PROVE  ~Less(m, <<<<MinimalOctet>>>> \o n)
<1> DEFINE h == <<MinimalOctet>>
           s == <<h>> \o n
<1>1. h \in Label /\ LowerLabel(h) = h
  <2>1. h \in Label /\ Len(h) = 1 /\ h[1] = MinimalOctet
    BY OctetFacts DEF Label
  <2> HIDE DEF h
  <2> QED
    BY <2>1, LowerStays, OctetFacts
<1>2. IsAbsolute(n) /\ IsAbsolute(m)
  BY DEF IsName
<1>3. PICK k \in Nat, km \in Nat : k = Len(n) /\ km = Len(m) /\ k >= 1
  BY <1>2, NameIs
<1>4. Above(m, n) \/ (Under(m, n) /\ k < km)
  BY <1>2, <1>3, CompareIs
<1>5. k < km => FromRight(m, k + 1) \in Label /\ FromRight(m, k + 1) # <<>>
  <2>1. SUFFICES ASSUME k < km PROVE FromRight(m, k + 1) \in Label /\ FromRight(m, k + 1) # <<>>
    OBVIOUS
  <2>2. k + 1 \in 2..km /\ k + 1 \in 1..km
    BY <1>3, <2>1
  <2>3. Right(m, k + 1) # <<>> /\ Right(m, k + 1) \in Label /\ FromRight(m, k + 1) \in Label
        /\ Len(FromRight(m, k + 1)) = Len(Right(m, k + 1))
    BY <1>2, <1>3, <2>2, NameIs, RightIs
  <2> QED
    BY <2>3, EmptySeq DEF Label
<1> HIDE DEF h
<1>6. s \in LabelLists /\ IsAbsolute(s)
  BY <1>1, <1>2, ConsIs
<1>7. Above(m, s) \/ Under(m, s)
  <2>1. CASE Above(m, n)
    BY <1>1, <2>1, ConsAbove
  <2>2. CASE Under(m, n) /\ k < km
    <3>1. FromRight(m, k + 1) = h \/ Precedes(h, FromRight(m, k + 1))
      BY <1>5, <2>2, LeastLabel DEF h
    <3> QED
      BY <1>1, <1>3, <2>2, <3>1, ConsAbove
  <2> QED
    BY <1>4, <2>1, <2>2
<1> QED
  BY <1>2, <1>6, <1>7, NotBefore DEF h

\* The least significant label is the last in the order of the comparison.
LEMMA HeadIs ==
    ASSUME NEW n \in LabelLists, IsName(n), Len(n) > 1
    PROVE  LET l == Head(n)
               suffix == Tail(n)
           IN /\ l \in Label /\ l # <<>> /\ suffix \in LabelLists /\ IsName(suffix)
              /\ n = <<l>> \o suffix /\ Len(suffix) = Len(n) - 1
              /\ l = Right(n, Len(n)) /\ Len(l) <= MaxLabel
              /\ Short(suffix) /\ WireLength(suffix) + Len(l) + 1 <= MaxName
<1> DEFINE l == Head(n)
           suffix == Tail(n)
<1>1. IsAbsolute(n) /\ n # <<>>
  BY DEF IsName, IsAbsolute
<1>2. /\ n = <<l>> \o suffix /\ l \in Label /\ suffix \in LabelLists /\ Len(suffix) = Len(n) - 1
      /\ l = Right(n, Len(n)) /\ IsAbsolute(suffix)
  BY <1>1, HeadTailIs
<1> HIDE DEF l, suffix
<1>3. PICK k \in Nat : k = Len(n) /\ k > 1
  BY RightIs
<1>4. Short(n) /\ WireLength(n) <= MaxName /\ \A i \in 2..k : Right(n, i) # <<>>
  BY <1>1, <1>3, NameIs
<1>5. l # <<>> /\ Len(l) <= MaxLabel
  BY <1>2, <1>3, <1>4 DEF Short
<1>6. \A i \in 1..(k - 1) : Right(suffix, i) = Right(n, i)
  BY <1>2, <1>3, ConsIs
<1>7. Within(suffix, n)
  <2>1. \A i \in 1..(k - 1) : Len(Right(suffix, i)) <= Len(Right(n, i))
    <3>1. \A i \in 1..k : Right(n, i) \in Label
      BY <1>3, RightIs
    <3>2. ASSUME NEW i \in 1..(k - 1) PROVE Len(Right(n, i)) <= Len(Right(n, i))
      <4>1. Right(n, i) \in Label
        BY <3>1
      <4> QED
        BY <4>1 DEF Label
    <3> QED
      BY <1>6, <3>2
  <2> QED
    BY <1>2, <1>3, <2>1 DEF Within
<1>8. IsName(suffix)
  <2>1. \A i \in 2..(k - 1) : Right(suffix, i) # <<>>
    BY <1>4, <1>6
  <2> QED
    BY <1>2, <1>3, <1>7, <2>1, NameWithin
<1>9. Short(suffix)
  BY <1>2, <1>8, NameIs
<1>10. WireLength(n) = WireLength(suffix) + Len(l) + 1
  BY <1>2, <1>5, <1>9, WireCons
<1> QED
  BY <1>2, <1>4, <1>5, <1>8, <1>9, <1>10 DEF l, suffix

\* The label before a label, cut or padded as far as there is room.
LEMMA PaddedLabel ==
    ASSUME NEW d \in Label, NEW suffix \in LabelLists, Short(suffix), Len(d) <= MaxLabel,
           WireLength(suffix) + Len(d) + 1 <= MaxName
    PROVE  \E size \in Nat :
             /\ PadToMaxLabel(d, suffix) = d \o Maximal(size)
             /\ Len(d) + size <= MaxLabel
             /\ WireLength(suffix) + Len(d) + size + 1 <= MaxName
             /\ Len(d) + size = MaxLabel \/ WireLength(suffix) + Len(d) + size + 1 = MaxName
<1>1. PICK k \in Nat, w \in Nat : k = Len(d) /\ w = WireLength(suffix)
  BY PlacesFinite DEF Label
<1>0. k <= MaxLabel /\ w + k + 1 <= MaxName
  BY <1>1
<1> DEFINE remaining == MaxName - w - k - 1
           wanted == MaxLabel - k
           size == IF wanted < remaining THEN wanted ELSE remaining
<1>2. /\ remaining \in Nat /\ wanted \in Nat /\ size \in Nat
      /\ k + size <= MaxLabel /\ w + k + size + 1 <= MaxName
      /\ k + size = MaxLabel \/ w + k + size + 1 = MaxName
  BY <1>0, SizeFacts
<1>3. PadToMaxLabel(d, suffix) = IF remaining <= 0 THEN d ELSE d \o Maximal(size)
  BY <1>1 DEF PadToMaxLabel
<1>4. CASE remaining = 0
  <2>1. Maximal(0) = <<>>
    BY MaximalIs, EmptySeq DEF Label
  <2>2. d \o Maximal(0) = d
    BY <2>1, ConcatEmptySeq DEF Label
  <2>3. size = 0
    BY <1>2, <1>4
  <2>4. PadToMaxLabel(d, suffix) = d \o Maximal(size)
    BY <1>3, <1>4, <2>2, <2>3
  <2> HIDE DEF size
  <2> QED
    BY <1>1, <1>2, <2>4
<1>5. CASE remaining > 0
  <2>1. PadToMaxLabel(d, suffix) = d \o Maximal(size)
    BY <1>2, <1>3, <1>5
  <2> HIDE DEF size
  <2> QED
    BY <1>1, <1>2, <2>1
<1>6. remaining = 0 \/ remaining > 0
  BY <1>2, SizeFacts
<1> QED
  BY <1>4, <1>5, <1>6

LEMMA DecrementedIs ==
    ASSUME NEW n \in LabelLists, IsName(n), Len(n) > 1, Head(n) # <<MinimalOctet>>
    PROVE  \E label \in Label :
             /\ Decremented(n) = <<label>> \o Tail(n) /\ IsName(Decremented(n))
             /\ Len(label) <= MaxLabel
             /\ n = Canonicalize(n) =>
                  /\ Precedes(LowerLabel(label), Head(n))
                  /\ \A t \in Label : (\A i \in 1..Len(t) : t[i] \notin UpperCase) /\ Precedes(LowerLabel(label), t)
                       => \/ t = Head(n) \/ Precedes(Head(n), t)
                          \/ /\ Len(t) > Len(label)
                             /\ Len(label) = MaxLabel \/ WireLength(Tail(n)) + Len(label) + 1 = MaxName
<1> DEFINE l == Head(n)
           suffix == Tail(n)
<1>1. /\ l \in Label /\ l # <<>> /\ suffix \in LabelLists /\ IsName(suffix)
      /\ n = <<l>> \o suffix /\ Len(suffix) = Len(n) - 1
      /\ l = Right(n, Len(n)) /\ Len(l) <= MaxLabel
      /\ Short(suffix) /\ WireLength(suffix) + Len(l) + 1 <= MaxName
  BY HeadIs
<1>2. PICK size \in Nat, k \in Nat, w \in Nat :
        size = Len(l) /\ k = Len(suffix) /\ size >= 1 /\ w = WireLength(suffix)
        /\ Last(l) = l[size] /\ Last(l) \in NameOctets
  <2>1. Len(l) \in Nat /\ Len(l) >= 1 /\ Last(l) = l[Len(l)] /\ Last(l) \in NameOctets
    BY <1>1 DEF Label, Last
  <2> QED
    BY <1>1, <2>1, RightIs, PlacesFinite
<1>7. size >= 1 /\ size <= MaxLabel /\ w + size + 1 <= MaxName
  BY <1>1, <1>2
<1>3. n = Canonicalize(n) => LowerLabel(l) = l /\ \A i \in 1..size : l[i] \notin UpperCase
  <2>1. SUFFICES ASSUME n = Canonicalize(n) PROVE \A i \in 1..size : l[i] \notin UpperCase
    BY <1>1, <1>2, LowerStays
  <2>2. Len(n) \in 1..Len(n)
    BY <1>1, RightIs
  <2> QED
    BY <1>1, <1>2, <2>1, <2>2, CanonicalIs
<1>4. ASSUME NEW label \in Label, label # <<>>, Len(label) <= MaxLabel, w + Len(label) + 1 <= MaxName
      PROVE  IsName(<<label>> \o suffix)
  <2> DEFINE r == <<label>> \o suffix
  <2>1. IsAbsolute(suffix) /\ \A i \in 2..Len(suffix) : Right(suffix, i) # <<>>
    <3>1. IsAbsolute(suffix)
      BY <1>1 DEF IsName
    <3> QED
      BY <1>1, <3>1, NameIs
  <2>2. /\ r \in LabelLists /\ Len(r) = Len(suffix) + 1 /\ Right(r, Len(suffix) + 1) = label /\ IsAbsolute(r)
        /\ \A i \in 1..Len(suffix) : Right(r, i) = Right(suffix, i)
    BY <1>1, <1>4, <2>1, ConsIs, ZenonT(60)
  <2>3. WireLength(r) = WireLength(suffix) + Len(label) + 1 /\ Short(r)
    BY <1>1, <1>4, WireCons
  <2> HIDE DEF r
  <2>4. ASSUME NEW i \in 2..(k + 1) PROVE Right(r, i) # <<>>
    <3>1. CASE i = k + 1
      BY <1>2, <1>4, <2>2, <3>1
    <3>2. CASE i # k + 1
      <4>1. i \in 2..k /\ i \in 1..k
        BY <3>2
      <4> QED
        BY <1>2, <2>1, <2>2, <4>1
    <3> QED
      BY <3>1, <3>2
  <2>5. IsName(r)
    BY <1>2, <1>4, <2>2, <2>3, <2>4, NameIs
  <2> QED
    BY <2>5 DEF r
<1>5. CASE Last(l) = MinimalOctet
  <2> DEFINE f == Front(l)
  <2>1. f \in Label /\ Len(f) = size - 1 /\ (\A i \in 1..(size - 1) : f[i] = l[i]) /\ l[size] = MinimalOctet
    BY <1>1, <1>2, <1>5, FrontLabel
  <2>2. Decremented(n) = <<f>> \o suffix
    BY <1>5 DEF Decremented
  <2> HIDE DEF f
  <2>3. size > 1
    <3> DEFINE g == <<MinimalOctet>>
    <3>1. g \in Label /\ Len(g) = 1 /\ g[1] = MinimalOctet
      BY OctetFacts DEF Label
    <3>2. l # g
      OBVIOUS
    <3> HIDE DEF g
    <3>3. size # 1
      <4>1. SUFFICES ASSUME size = 1 PROVE l = g
        BY <3>2
      <4>2. Len(l) = 1 /\ l[1] = g[1]
        BY <1>2, <2>1, <3>1, <4>1
      <4>3. \A i \in 1..1 : l[i] = g[i]
        BY <4>2
      <4> QED
        BY <1>1, <3>1, <4>2, <4>3, SeqEqual DEF Label
    <3> QED
      BY <1>7, <3>3
  <2>4. f # <<>> /\ Len(f) <= MaxLabel /\ w + Len(f) + 1 <= MaxName
    <3>1. Len(f) # 0
      BY <2>1, <2>3
    <3> QED
      BY <1>7, <2>1, <3>1, SizeFacts
  <2>5. IsName(Decremented(n))
    BY <1>4, <2>1, <2>2, <2>4
  <2>6. Append(f, MinimalOctet) = l
    <3> DEFINE g == Append(f, MinimalOctet)
    <3>1. g \in Label /\ Len(g) = size /\ g[size] = MinimalOctet /\ \A i \in 1..(size - 1) : g[i] = l[i]
      BY <1>2, <2>1, OctetFacts, AppendProperties DEF Label
    <3> HIDE DEF g
    <3>2. \A i \in 1..size : g[i] = l[i]
      <4>1. ASSUME NEW i \in 1..size PROVE i = size \/ i \in 1..(size - 1)
        OBVIOUS
      <4> QED
        BY <2>1, <3>1, <4>1
    <3>3. g = l
      BY <1>1, <1>2, <3>1, <3>2, SeqEqual DEF Label
    <3> QED
      BY <3>3 DEF g
  <2>7. ASSUME n = Canonicalize(n)
        PROVE  /\ LowerLabel(f) = f /\ Precedes(f, l)
               /\ \A t \in Label : Precedes(f, t) => t = l \/ Precedes(l, t)
    <3>1. LowerLabel(f) = f
      BY <1>3, <2>1, <2>7, LowerStays
    <3>2. Precedes(f, l)
      <4>1. Len(f) < Len(l) /\ \A i \in 1..Len(f) : f[i] = l[i]
        BY <1>2, <2>1
      <4> QED
        BY <1>1, <2>1, <4>1, PrecedesIs
    <3>3. \A t \in Label : Precedes(f, t) => t = l \/ Precedes(l, t)
      BY <2>1, <2>6, NextLabel
    <3> QED
      BY <3>1, <3>2, <3>3
  <2> QED
    BY <2>1, <2>2, <2>4, <2>5, <2>7
<1>6. CASE Last(l) # MinimalOctet
  <2> DEFINE d == Append(Front(l), OctetBefore(Last(l)))
  <2>1. d \in Label /\ Len(d) = size
    BY <1>1, <1>2, <1>6, CountedDown
  <2>2. PICK more \in Nat : /\ PadToMaxLabel(d, suffix) = d \o Maximal(more)
                            /\ size + more <= MaxLabel
                            /\ w + size + more + 1 <= MaxName
                            /\ size + more = MaxLabel \/ w + size + more + 1 = MaxName
    <3> HIDE DEF d
    <3> QED
      BY <1>1, <1>2, <2>1, PaddedLabel
  <2> DEFINE label == d \o Maximal(more)
  <2>3. label \in Label /\ Len(label) = size + more
    BY <1>1, <1>2, <1>6, CountedDown
  <2>4. Decremented(n) = <<label>> \o suffix
    BY <1>6, <2>2 DEF Decremented
  <2>5. n = Canonicalize(n) =>
          /\ LowerLabel(label) = label /\ Precedes(label, l)
          /\ \A t \in Label : (\A i \in 1..Len(t) : t[i] \notin UpperCase) /\ Precedes(label, t)
                                => t = l \/ Precedes(l, t) \/ Len(t) > Len(label)
    BY <1>1, <1>2, <1>3, <1>6, CountedDownIsBefore
  <2> HIDE DEF label, d
  <2>6. label # <<>> /\ Len(label) <= MaxLabel /\ w + Len(label) + 1 <= MaxName
        /\ (Len(label) = MaxLabel \/ w + Len(label) + 1 = MaxName)
    <3>1. Len(label) # 0
      BY <1>2, <2>3
    <3> QED
      BY <2>2, <2>3, <3>1, SizeFacts
  <2>7. IsName(Decremented(n))
    BY <1>4, <2>3, <2>4, <2>6
  <2> QED
    BY <1>2, <2>3, <2>4, <2>5, <2>6, <2>7
<1> QED
  BY <1>5, <1>6

LEMMA DecrementedIsBefore ==
    ASSUME NEW n \in LabelLists, IsName(n), Len(n) > 1, Head(n) # <<MinimalOctet>>, n = Canonicalize(n)
    PROVE  /\ Above(n, Decremented(n))
           /\ \A m \in LabelLists : IsName(m) /\ Above(m, Decremented(n)) => Above(m, n) \/ Under(m, n)
<1> DEFINE l == Head(n)
           suffix == Tail(n)
<1>1. /\ l \in Label /\ suffix \in LabelLists /\ n = <<l>> \o suffix /\ Len(suffix) = Len(n) - 1
      /\ l = Right(n, Len(n)) /\ Short(suffix)
  BY HeadIs
<1>2. PICK label \in Label :
        /\ Decremented(n) = <<label>> \o suffix
        /\ Len(label) <= MaxLabel
        /\ Precedes(LowerLabel(label), l)
        /\ \A t \in Label : (\A i \in 1..Len(t) : t[i] \notin UpperCase) /\ Precedes(LowerLabel(label), t)
             => \/ t = l \/ Precedes(l, t)
                \/ /\ Len(t) > Len(label)
                   /\ Len(label) = MaxLabel \/ WireLength(suffix) + Len(label) + 1 = MaxName
  BY DecrementedIs
<1> HIDE DEF l, suffix
<1>3. PICK k \in Nat : k = Len(suffix) /\ Len(n) = k + 1
  BY <1>1, RightIs
<1>4. FromRight(n, k + 1) = l /\ LowerLabel(l) = l
  <2>1. k + 1 \in 1..Len(n)
    BY <1>3
  <2>2. FromRight(n, k + 1) = Right(n, k + 1) /\ FromRight(n, k + 1) = LowerLabel(Right(n, k + 1))
    BY <2>1, CanonicalIs, RightIs
  <2> QED
    BY <1>1, <1>3, <2>2
<1>5. Under(n, suffix) /\ k < Len(n)
  <2>1. <<l>> \in LabelLists
    BY <1>1 DEF LabelLists
  <2> QED
    BY <1>1, <1>3, <2>1, ConcatAbove
<1>6. Above(n, Decremented(n))
  <2>1. /\ Under(n, suffix) /\ Len(suffix) < Len(n) /\ suffix \in LabelLists
        /\ Precedes(LowerLabel(label), FromRight(n, Len(suffix) + 1))
    BY <1>1, <1>2, <1>3, <1>4, <1>5
  <2>2. Above(n, <<label>> \o suffix)
    BY <2>1, ConsAbove
  <2> QED
    BY <1>2, <2>2
<1>7. ASSUME NEW m \in LabelLists, IsName(m), Above(m, Decremented(n))
      PROVE  Above(m, n) \/ Under(m, n)
  <2> DEFINE t == FromRight(m, k + 1)
  <2>1. CASE Above(m, suffix)
    BY <1>1, <2>1, ConsAbove
  <2>2. CASE Under(m, suffix) /\ k < Len(m) /\ Precedes(LowerLabel(label), t)
    <3>1. PICK km \in Nat : km = Len(m) /\ k < km
      BY <2>2, RightIs
    <3>2. Short(m) /\ WireLength(m) <= MaxName /\ WireLength(m) \in Nat
      BY <1>7, NameIs, PlacesFinite DEF IsName
    <3> DEFINE g == Right(m, k + 1)
    <3>3. k + 1 \in 1..km
      BY <3>1
    <3>4. /\ t \in Label /\ (\A i \in 1..Len(t) : t[i] \notin UpperCase)
          /\ g \in Label /\ Len(g) = Len(t) /\ Len(g) <= MaxLabel
      BY <3>1, <3>2, <3>3, RightIs DEF Short
    <3> HIDE DEF g, t
    <3>5. Within(<<g>> \o suffix, m)
      <4>1. Len(g) <= Len(Right(m, Len(suffix) + 1))
        <5>1. g = Right(m, Len(suffix) + 1)
          BY <1>3 DEF g
        <5>2. Len(g) <= Len(g)
          BY <3>4 DEF Label
        <5> QED
          BY <5>1, <5>2
      <4> QED
        BY <1>1, <1>3, <2>2, <3>4, <4>1, WithinWhenUnder
    <3>6. WireLength(<<g>> \o suffix) = WireLength(suffix) + Len(g) + 1 /\ <<g>> \o suffix \in LabelLists
      BY <1>1, <3>4, WireCons, ConsIs
    <3>7. WireLength(suffix) + Len(g) + 1 <= MaxName
      <4>1. WireLength(<<g>> \o suffix) <= WireLength(m) /\ WireLength(<<g>> \o suffix) \in Nat
        BY <3>2, <3>5, <3>6, WithinIs
      <4> QED
        BY <3>2, <3>6, <4>1, SizeFacts
    <3>8. ~(/\ Len(t) > Len(label)
            /\ Len(label) = MaxLabel \/ WireLength(suffix) + Len(label) + 1 = MaxName)
      <4>1. PICK a \in Nat, b \in Nat, w \in Nat : a = Len(g) /\ b = Len(label) /\ w = WireLength(suffix)
        BY <1>1, <3>4, PlacesFinite DEF Label
      <4>2. a <= MaxLabel /\ w + a + 1 <= MaxName /\ Len(t) = a
        BY <3>4, <3>7, <4>1
      <4> QED
        BY <4>1, <4>2, SizeFacts
    <3>9. t = l \/ Precedes(l, t)
      BY <1>2, <2>2, <3>4, <3>8
    <3> QED
      BY <1>1, <1>3, <1>4, <2>2, <3>9, ConsAbove DEF t
  <2>3. suffix \in LabelLists /\ Above(m, <<label>> \o suffix)
    BY <1>1, <1>2, <1>7
  <2>4. \/ Above(m, suffix)
        \/ Under(m, suffix) /\ Len(suffix) < Len(m) /\ Precedes(LowerLabel(label), FromRight(m, Len(suffix) + 1))
    BY <2>3, ConsAbove
  <2> QED
    BY <1>3, <2>1, <2>2, <2>4
<1> QED
  BY <1>6, <1>7

\* A name without its first label, or with another, stays below the origin.
LEMMA StaysBelow ==
    ASSUME NEW n \in LabelLists, NEW o \in LabelLists, IsName(n), IsName(o), IsOf(n, o), ~Same(n, o)
    PROVE  /\ Len(n) > 1 /\ Len(o) < Len(n) /\ IsOf(Tail(n), o)
           /\ \A h \in Label : IsName(<<h>> \o Tail(n)) => IsOf(<<h>> \o Tail(n), o)
<1>1. IsAbsolute(n) /\ IsAbsolute(o) /\ Under(n, o)
  BY CompareIs DEF IsName, IsOf
<1>2. PICK k \in Nat, ko \in Nat : k = Len(n) /\ ko = Len(o) /\ ko >= 1
  BY <1>1, NameIs
<1>3. ko < k
  BY <1>1, <1>2, CompareIs DEF Under, Shares
<1>4. Len(n) > 1 /\ Len(o) < Len(n)
  BY <1>2, <1>3
<1> DEFINE suffix == Tail(n)
<1>5. /\ Head(n) \in Label /\ suffix \in LabelLists /\ IsName(suffix) /\ n = <<Head(n)>> \o suffix
      /\ Len(suffix) = Len(n) - 1
  BY <1>4, HeadIs
<1> HIDE DEF suffix
<1>6. Under(suffix, o)
  <2>1. ko <= Len(suffix) /\ ko <= k
    BY <1>2, <1>3, <1>5
  <2>2. \A i \in 1..Len(suffix) : FromRight(suffix, i) = FromRight(n, i)
    <3>1. suffix \in LabelLists /\ Head(n) \in Label
      BY <1>5
    <3>2. \A i \in 1..Len(suffix) : FromRight(<<Head(n)>> \o suffix, i) = FromRight(suffix, i)
      BY <3>1, ConsIs
    <3> QED
      BY <1>5, <3>2
  <2>3. \A i \in 1..ko : i \in 1..Len(suffix)
    BY <2>1, <1>2, <1>3, <1>5
  <2> QED
    BY <1>1, <1>2, <2>1, <2>2, <2>3 DEF Under, Shares
<1>7. IsAbsolute(suffix)
  BY <1>5 DEF IsName
<1>8. IsOf(suffix, o)
  BY <1>1, <1>5, <1>6, <1>7, CompareIs DEF IsOf
<1>9. ASSUME NEW h \in Label, IsName(<<h>> \o suffix) PROVE IsOf(<<h>> \o suffix, o)
  <2>1. <<h>> \in LabelLists
    BY DEF LabelLists
  <2>2. <<h>> \o suffix \in LabelLists /\ Under(<<h>> \o suffix, o)
    BY <1>5, <1>6, <2>1, ConcatIs, ConcatAbove
  <2>3. IsAbsolute(<<h>> \o suffix)
    BY <1>9 DEF IsName
  <2> QED
    BY <1>1, <1>9, <2>2, <2>3, CompareIs DEF IsOf
<1> QED
  BY <1>4, <1>8, <1>9 DEF suffix

LEMMA NamesAreLists ==
    ASSUME NEW n, IsName(n)
    PROVE  n \in LabelLists /\ IsAbsolute(n)
  BY DEF IsName, LabelLists, Label

LEMMA PadIsOf ==
    ASSUME NEW n, NEW o, IsName(o), IsOf(n, o)
    PROVE  IsOf(PadToMaxName(n), o)
<1>1. n \in LabelLists /\ o \in LabelLists /\ IsName(n) /\ IsAbsolute(n) /\ IsAbsolute(o)
  BY NamesAreLists DEF IsOf
<1>2. IsName(PadToMaxName(n))
  BY <1>1, PadIsName
<1>3. PICK F \in LabelLists : PadToMaxName(n) = F \o n
  BY <1>1, PadIsName
<1>4. Under(n, o)
  BY <1>1, CompareIs DEF IsOf
<1>5. Under(F \o n, o)
  BY <1>1, <1>4, ConcatAbove
<1>6. PadToMaxName(n) \in LabelLists /\ IsAbsolute(PadToMaxName(n))
  BY <1>2, NamesAreLists
<1> QED
  BY <1>1, <1>2, <1>3, <1>5, <1>6, CompareIs DEF IsOf

\* The predecessor is a name of the zone; for a name in lower case it is the
\* last name of the zone, for the origin, or else before the name with none
\* between, or none of no more labels.
LEMMA PredecessorIs ==
    ASSUME NEW n, NEW o, IsName(o), IsOf(n, o), NEW prefixOK \in BOOLEAN
    PROVE  LET p == AbsolutePredecessor(n, o, prefixOK)
           IN /\ IsOf(p, o)
              /\ n = Canonicalize(n) =>
                   /\ Same(n, o) => \A m : IsOf(m, o) => ~Less(p, m)
                   /\ ~Same(n, o) =>
                        /\ Less(p, n)
                        /\ \A m : IsOf(m, o) /\ (prefixOK \/ Len(m) <= Len(n)) => ~(Less(p, m) /\ Less(m, n))
<1> DEFINE p == AbsolutePredecessor(n, o, prefixOK)
<1>1. n \in LabelLists /\ o \in LabelLists /\ IsName(n) /\ IsAbsolute(n) /\ IsAbsolute(o)
  BY NamesAreLists DEF IsOf
<1>2. CASE Same(n, o)
  <2>1. p = PadToMaxName(n)
    BY <1>2 DEF AbsolutePredecessor
  <2>2. ASSUME NEW m, IsOf(m, o) PROVE ~Less(p, m)
    <3>1. m \in LabelLists /\ IsName(m) /\ IsAbsolute(m)
      BY <2>2, NamesAreLists DEF IsOf
    <3>2. Len(n) = Len(o) /\ Under(n, o) /\ Under(m, o)
      BY <1>1, <1>2, <2>2, <3>1, CompareIs DEF IsOf
    <3>3. Alike(n, o)
      BY <3>2 DEF Alike, Under, Shares
    <3>4. Under(m, n)
      BY <1>1, <3>1, <3>2, <3>3, AlikeIs
    <3> QED
      BY <1>1, <2>1, <3>1, <3>4, PadIsLast
  <2>3. IsOf(p, o)
    BY <2>1, PadIsOf
  <2> QED
    BY <1>2, <2>2, <2>3
<1>3. CASE ~Same(n, o)
  <2>1. /\ Len(n) > 1 /\ IsOf(Tail(n), o)
        /\ \A h \in Label : IsName(<<h>> \o Tail(n)) => IsOf(<<h>> \o Tail(n), o)
    BY <1>1, <1>3, StaysBelow
  <2>2. /\ Head(n) \in Label /\ Tail(n) \in LabelLists /\ IsName(Tail(n))
        /\ n = <<Head(n)>> \o Tail(n) /\ Len(Tail(n)) = Len(n) - 1
    BY <1>1, <2>1, HeadIs
  <2>3. PICK k \in Nat : k = Len(n)
    BY <1>1, RightIs
  <2>4. CASE Head(n) = <<MinimalOctet>>
    <3>1. p = Tail(n)
      BY <1>3, <2>4 DEF AbsolutePredecessor, Parent
    <3> DEFINE suffix == Tail(n)
    <3>2. suffix \in LabelLists /\ IsName(suffix) /\ n = <<<<MinimalOctet>>>> \o suffix /\ Len(suffix) = k - 1
      BY <2>2, <2>3, <2>4
    <3> HIDE DEF suffix
    <3>3. IsAbsolute(suffix) /\ Under(n, suffix)
      <4>1. <<<<MinimalOctet>>>> \in LabelLists
        BY OctetFacts DEF LabelLists, Label
      <4>2. Under(<<<<MinimalOctet>>>> \o suffix, suffix)
        BY <3>2, <4>1, ConcatAbove
      <4> QED
        BY <3>2, <4>2, NamesAreLists
    <3>4. Less(suffix, n)
      <4>1. Len(suffix) < Len(n) /\ suffix \in LabelLists
        BY <2>3, <3>2
      <4> QED
        BY <1>1, <3>3, <4>1, CompareIs
    <3>5. ASSUME NEW m, IsOf(m, o), Less(suffix, m) PROVE ~Less(m, n)
      <4>1. m \in LabelLists /\ IsName(m)
        BY <3>5, NamesAreLists DEF IsOf
      <4>2. ~Less(m, <<<<MinimalOctet>>>> \o suffix)
        BY <3>2, <3>5, <4>1, FirstBelow
      <4> QED
        BY <3>2, <4>2
    <3> QED
      BY <1>3, <2>1, <3>1, <3>4, <3>5 DEF suffix
  <2>5. CASE Head(n) # <<MinimalOctet>>
    <3> DEFINE r == Decremented(n)
    <3>1. PICK label \in Label : r = <<label>> \o Tail(n) /\ IsName(r)
      BY <1>1, <2>1, <2>5, DecrementedIs
    <3>2. IsOf(r, o)
      BY <2>1, <3>1
    <3>3. p = IF prefixOK THEN PadToMaxName(r) ELSE r
      BY <1>3, <2>5 DEF AbsolutePredecessor
    <3>4. Len(r) = k
      <4>1. Len(r) = Len(Tail(n)) + 1
        BY <2>2, <3>1, ConsIs
      <4> QED
        BY <2>2, <2>3, <4>1
    <3>5. n = Canonicalize(n) =>
            /\ Above(n, r)
            /\ \A m \in LabelLists : IsName(m) /\ Above(m, r) => Above(m, n) \/ Under(m, n)
      BY <1>1, <2>1, <2>5, DecrementedIsBefore
    <3> HIDE DEF r, p
    <3>6. r \in LabelLists /\ IsAbsolute(r)
      BY <3>1, NamesAreLists
    <3>7. CASE prefixOK
      <4>1. p = PadToMaxName(r) /\ IsOf(p, o)
        BY <3>2, <3>3, <3>7, PadIsOf
      <4>2. PICK F \in LabelLists : p = F \o r
        BY <3>1, <3>6, <4>1, PadIsName
      <4>3. p \in LabelLists /\ IsAbsolute(p)
        BY <4>1, NamesAreLists DEF IsOf
      <4>4. ASSUME n = Canonicalize(n)
            PROVE  Less(p, n) /\ \A m : IsOf(m, o) => ~(Less(p, m) /\ Less(m, n))
        <5>1. Less(p, n)
          <6>1. Above(n, F \o r)
            BY <1>1, <3>5, <3>6, <4>4, ConcatAbove
          <6> QED
            BY <1>1, <4>2, <4>3, <6>1, CompareIs
        <5>2. ASSUME NEW m, IsOf(m, o), Less(p, m) PROVE ~Less(m, n)
          <6>1. m \in LabelLists /\ IsName(m) /\ IsAbsolute(m)
            BY <5>2, NamesAreLists DEF IsOf
          <6>2. ~Under(m, r)
            BY <3>1, <3>6, <4>1, <5>2, <6>1, PadIsLast
          <6>3. Above(m, p) \/ Under(m, p)
            BY <4>3, <5>2, <6>1, CompareIs
          <6>4. Above(m, r) \/ Under(m, r)
            <7>1. Above(m, F \o r) \/ Under(m, F \o r)
              BY <4>2, <6>3
            <7> QED
              BY <3>6, <6>1, <7>1, ConcatAbove
          <6>5. Above(m, n) \/ Under(m, n)
            BY <3>5, <4>4, <6>1, <6>2, <6>4
          <6> QED
            BY <1>1, <6>1, <6>5, NotBefore
        <5> QED
          BY <5>1, <5>2
      <4> QED
        BY <1>3, <4>1, <4>4 DEF p
    <3>8. CASE ~prefixOK
      <4>1. p = r
        BY <3>3, <3>8
      <4>2. ASSUME n = Canonicalize(n)
            PROVE  Less(p, n) /\ \A m : IsOf(m, o) /\ Len(m) <= Len(n) => ~(Less(p, m) /\ Less(m, n))
        <5>1. Less(p, n)
          BY <1>1, <3>5, <3>6, <4>1, <4>2, CompareIs
        <5>2. ASSUME NEW m, IsOf(m, o), Len(m) <= Len(n), Less(p, m) PROVE ~Less(m, n)
          <6>1. m \in LabelLists /\ IsName(m) /\ IsAbsolute(m)
            BY <5>2, NamesAreLists DEF IsOf
          <6>2. Above(m, r)
            <7>1. Above(m, r) \/ (Under(m, r) /\ Len(r) < Len(m))
              BY <3>6, <4>1, <5>2, <6>1, CompareIs
            <7>2. PICK km \in Nat : km = Len(m) /\ km <= k
              BY <2>3, <5>2, <6>1, RightIs
            <7> QED
              BY <3>4, <7>1, <7>2
          <6>3. Above(m, n) \/ Under(m, n)
            BY <3>5, <4>2, <6>1, <6>2
          <6> QED
            BY <1>1, <6>1, <6>3, NotBefore
        <5> QED
          BY <5>1, <5>2
      <4> QED
        BY <1>3, <3>2, <3>8, <4>1, <4>2 DEF p
    <3> QED
      BY <3>7, <3>8
  <2> QED
    BY <2>4, <2>5
<1> QED
  BY <1>2, <1>3

\* A superdomain that is in the zone.
LEMMA AncestorOf ==
    ASSUME NEW n \in LabelLists, NEW o \in LabelLists, IsName(o), IsOf(n, o), NEW d \in 1..(Len(n) - Len(o) + 1)
    PROVE  /\ d \in 1..Len(n) /\ Ancestor(n, d) \in LabelLists /\ IsOf(Ancestor(n, d), o)
           /\ Len(Ancestor(n, d)) = Len(n) - d + 1
           /\ \A i \in 1..(Len(n) - d + 1) : FromRight(Ancestor(n, d), i) = FromRight(n, i)
                                             /\ Right(Ancestor(n, d), i) = Right(n, i)
<1>1. IsName(n) /\ IsAbsolute(n) /\ IsAbsolute(o)
  BY NamesAreLists DEF IsOf
<1>2. PICK k \in Nat, ko \in Nat : k = Len(n) /\ ko = Len(o) /\ ko >= 1 /\ d \in 1..(k - ko + 1)
  BY <1>1, NameIs
<1>3. d \in 1..k /\ ko <= k - d + 1
  BY <1>2
<1> DEFINE a == Ancestor(n, d)
<1>4. /\ a \in LabelLists /\ Len(a) = k - d + 1 /\ IsAbsolute(a)
      /\ \A i \in 1..(k - d + 1) : FromRight(a, i) = FromRight(n, i) /\ Right(a, i) = Right(n, i)
  <2>1. d \in 1..Len(n)
    BY <1>2, <1>3
  <2>2. /\ a \in LabelLists /\ Len(a) = Len(n) - d + 1 /\ IsAbsolute(a)
        /\ \A i \in 1..Len(a) : Right(a, i) = Right(n, i) /\ FromRight(a, i) = FromRight(n, i)
    BY <1>1, <2>1, AncestorIs
  <2> HIDE DEF a
  <2> QED
    BY <1>2, <2>2
<1> HIDE DEF a
<1>5. \A i \in 1..(k - d + 1) : i \in 1..k /\ Len(Right(n, i)) \in Nat
  <2>1. \A i \in 1..k : Right(n, i) \in Label
    BY <1>2, RightIs
  <2>2. \A l \in Label : Len(l) \in Nat
    BY DEF Label
  <2>3. \A i \in 1..(k - d + 1) : i \in 1..k
    BY <1>3
  <2> QED
    BY <2>1, <2>2, <2>3
<1>6. IsName(a)
  <2>1. Within(a, n)
    BY <1>2, <1>3, <1>4, <1>5 DEF Within
  <2>2. \A i \in 2..k : Right(n, i) # <<>>
    BY <1>1, <1>2, NameIs
  <2>3. \A i \in 2..(k - d + 1) : i \in 1..(k - d + 1) /\ i \in 2..k
    BY <1>3
  <2>4. \A i \in 2..(k - d + 1) : Right(a, i) # <<>>
    BY <1>4, <2>2, <2>3
  <2> QED
    BY <1>1, <1>4, <2>1, <2>4, NameWithin
<1>7. Under(a, o)
  <2>1. /\ ko <= k /\ \A i \in 1..ko : FromRight(n, i) = FromRight(o, i)
    BY <1>1, <1>2, CompareIs DEF IsOf, Under, Shares
  <2>2. \A i \in 1..ko : i \in 1..(k - d + 1)
    BY <1>3
  <2> QED
    BY <1>2, <1>3, <1>4, <2>1, <2>2 DEF Under, Shares
<1>8. IsOf(a, o)
  BY <1>1, <1>4, <1>6, <1>7, CompareIs DEF IsOf
<1> QED
  BY <1>2, <1>3, <1>4, <1>8 DEF a

\* The least octet at the end of the first label of a name that has room for it.
LEMMA RoomIs ==
    ASSUME NEW a \in LabelLists, IsName(a), a # <<>>, NEW m \in LabelLists, IsName(m),
           Len(a) > 1, NEW k \in Nat, Len(a) = k + 1, k < Len(m),
           \A i \in 1..k : FromRight(a, i) = FromRight(m, i),
           Len(Head(a)) < Len(Right(m, k + 1))
    PROVE  CanLengthen(a)
<1> DEFINE l == Head(a)
           suffix == Tail(a)
           h == Append(l, MinimalOctet)
<1>1. /\ l \in Label /\ suffix \in LabelLists /\ IsName(suffix) /\ a = <<l>> \o suffix
      /\ Len(suffix) = Len(a) - 1
  BY HeadIs
<1>2. h \in Label /\ Len(h) = Len(l) + 1 /\ h # <<>>
  BY <1>1, OctetFacts, AppendProperties DEF Label
<1> HIDE DEF l, suffix, h
<1>3. Len(suffix) = k /\ IsAbsolute(suffix) /\ IsAbsolute(m)
  BY <1>1, NamesAreLists
<1>4. PICK km \in Nat : km = Len(m) /\ k < km
  BY RightIs
<1>5. k + 1 \in 1..km
  BY <1>4
<1>6. PICK x \in Nat, y \in Nat : x = Len(l) /\ y = Len(Right(m, k + 1)) /\ y <= MaxLabel /\ x < y
  <2>1. Right(m, k + 1) \in Label /\ Short(m)
    BY <1>3, <1>4, <1>5, NameIs, RightIs
  <2>2. Len(l) \in Nat /\ Len(Right(m, k + 1)) \in Nat
    BY <1>1, <2>1 DEF Label
  <2>3. Len(Right(m, k + 1)) <= MaxLabel
    BY <1>4, <1>5, <2>1 DEF Short
  <2> QED
    BY <2>2, <2>3 DEF l
<1>7. Under(m, suffix)
  <2>1. \A i \in 1..k : FromRight(<<l>> \o suffix, i) = FromRight(suffix, i)
    BY <1>1, <1>3, ConsIs
  <2>2. \A i \in 1..k : FromRight(suffix, i) = FromRight(m, i)
    BY <1>1, <2>1
  <2> QED
    BY <1>3, <1>4, <2>2 DEF Under, Shares
<1>8. Within(<<h>> \o suffix, m)
  <2>1. Len(h) <= Len(Right(m, Len(suffix) + 1))
    BY <1>2, <1>3, <1>6
  <2> QED
    BY <1>1, <1>2, <1>3, <1>7, <2>1, WithinWhenUnder
<1>9. IsName(<<h>> \o suffix)
  <2> DEFINE s == <<h>> \o suffix
  <2>1. /\ s \in LabelLists /\ Len(s) = k + 1 /\ Right(s, k + 1) = h /\ IsAbsolute(s)
        /\ \A i \in 1..k : Right(s, i) = Right(suffix, i)
    BY <1>1, <1>2, <1>3, ConsIs
  <2>2. \A i \in 2..k : Right(suffix, i) # <<>>
    BY <1>1, <1>3, NameIs
  <2> HIDE DEF s
  <2>3. ASSUME NEW i \in 2..(k + 1) PROVE Right(s, i) # <<>>
    <3>1. CASE i = k + 1
      BY <1>2, <2>1, <3>1
    <3>2. CASE i # k + 1
      <4>1. i \in 2..k /\ i \in 1..k
        BY <3>2
      <4> QED
        BY <2>1, <2>2, <4>1
    <3> QED
      BY <3>1, <3>2
  <2>4. IsName(s)
    BY <1>8, <2>1, <2>3, NameWithin DEF s
  <2> QED
    BY <2>4 DEF s
<1>10. Len(l) < MaxLabel
  BY <1>6, SizeFacts
<1> QED
  BY <1>9, <1>10 DEF CanLengthen, Lengthened, IsName, h, l, suffix

LEMMA UnderIsNotAbove ==
    ASSUME NEW m \in LabelLists, NEW s \in LabelLists, Under(m, s)
    PROVE  ~Above(m, s)
<1>1. SUFFICES ASSUME NEW k \in Nat, AboveAt(m, s, k) PROVE FALSE
  BY DEF Above
<1>2. PICK ks \in Nat : ks = Len(s)
  BY RightIs
<1>3. k + 1 \in 1..ks
  BY <1>1, <1>2 DEF AboveAt
<1>4. FromRight(s, k + 1) = FromRight(m, k + 1) /\ FromRight(s, k + 1) \in Label
  BY <1>2, <1>3, RightIs DEF Under, Shares
<1> QED
  BY <1>1, <1>4, PrecedesIrreflexive DEF AboveAt

\* Where the search for a name beside another stops.
LEMMA StopIs ==
    ASSUME NEW n \in LabelLists, NEW o \in LabelLists, IsName(o), IsOf(n, o)
    PROVE  \E d \in 1..(Len(n) - Len(o) + 1) :
             LET a == Ancestor(n, d)
             IN /\ d \in Stops(n, o) /\ \A e \in Stops(n, o) : d <= e
                /\ Beside(n, o) = IF Same(a, o) THEN o ELSE IF CanLengthen(a) THEN Lengthened(a) ELSE Incremented(a)
<1>1. IsName(n) /\ IsAbsolute(n) /\ IsAbsolute(o)
  BY NamesAreLists DEF IsOf
<1>2. PICK k \in Nat, ko \in Nat : k = Len(n) /\ ko = Len(o) /\ ko >= 1 /\ ko <= k
  BY <1>1, NameIs, CompareIs DEF IsOf, Under, Shares
<1> DEFINE last == k - ko + 1
<1>3. last \in 1..k /\ last \in 1..(Len(n) - Len(o) + 1)
  BY <1>2
<1>4. Same(Ancestor(n, last), o)
  <2> DEFINE a == Ancestor(n, last)
  <2>1. a \in LabelLists /\ IsOf(a, o) /\ Len(a) = k - last + 1
    BY <1>2, <1>3, AncestorOf
  <2> HIDE DEF a
  <2>2. Len(a) = Len(o) /\ IsAbsolute(a)
    BY <1>2, <2>1, NamesAreLists DEF IsOf
  <2> QED
    BY <1>1, <2>1, <2>2, CompareIs DEF IsOf, a
<1>5. last \in Stops(n, o)
  BY <1>2, <1>3, <1>4 DEF Stops
<1> HIDE DEF last
<1>6. Stops(n, o) \in SUBSET (1..k) /\ Stops(n, o) \in SUBSET Nat /\ Stops(n, o) # {}
  BY <1>2, <1>5 DEF Stops
<1>7. \E d \in Stops(n, o) : \A e \in Stops(n, o) : d <= e
  BY <1>6, LeastExists
<1> DEFINE d == CHOOSE x \in Stops(n, o) : \A e \in Stops(n, o) : x <= e
<1>8. d \in Stops(n, o) /\ \A e \in Stops(n, o) : d <= e
  BY <1>7
<1>9. Beside(n, o) = IF Same(Ancestor(n, d), o) THEN o
                     ELSE IF CanLengthen(Ancestor(n, d)) THEN Lengthened(Ancestor(n, d)) ELSE Incremented(Ancestor(n, d))
  BY DEF Beside
<1> HIDE DEF d
<1>10. d \in 1..(Len(n) - Len(o) + 1)
  BY <1>2, <1>5, <1>6, <1>8 DEF last
<1> QED
  BY <1>8, <1>9, <1>10

\* Nothing that comes after a name and what is below it lies before the stop.
LEMMA StopIsReached ==
    ASSUME NEW n \in LabelLists, NEW o \in LabelLists, IsName(o), IsOf(n, o),
           NEW d \in 1..(Len(n) - Len(o) + 1), \A e \in Stops(n, o) : d <= e,
           NEW m \in LabelLists, IsOf(m, o), Above(m, n)
    PROVE  Above(m, Ancestor(n, d))
<1>1. IsName(n) /\ IsAbsolute(n) /\ IsAbsolute(o) /\ IsName(m) /\ IsAbsolute(m)
  BY NamesAreLists DEF IsOf
<1>2. PICK kn \in Nat, ko \in Nat, km \in Nat :
        kn = Len(n) /\ ko = Len(o) /\ ko >= 1 /\ ko <= kn /\ d \in 1..(kn - ko + 1) /\ km = Len(m)
  BY <1>1, NameIs, CompareIs DEF IsOf, Under, Shares
<1>3. PICK k \in Nat : AboveAt(m, n, k)
  BY DEF Above
<1>4. /\ k < kn /\ k < km /\ (\A i \in 1..k : FromRight(n, i) = FromRight(m, i))
      /\ Precedes(FromRight(n, k + 1), FromRight(m, k + 1))
  BY <1>2, <1>3 DEF AboveAt, Shares
<1>5. k + 1 \in 1..kn /\ k + 1 \in 1..km
  BY <1>4
<1>6. kn - k >= d
  <2>1. SUFFICES ASSUME kn - k < d PROVE FALSE
    BY <1>2
  <2> DEFINE j == kn - k
             a == Ancestor(n, j)
             l == Head(a)
  <2>2. j \in 1..(kn - ko + 1) /\ j \in 1..kn /\ kn - j + 1 = k + 1 /\ k >= 1
    BY <1>2, <1>4, <2>1
  <2>3. /\ a \in LabelLists /\ IsOf(a, o) /\ Len(a) = k + 1
        /\ \A i \in 1..(k + 1) : FromRight(a, i) = FromRight(n, i) /\ Right(a, i) = Right(n, i)
    <3>1. /\ a \in LabelLists /\ IsOf(a, o) /\ Len(a) = Len(n) - j + 1
          /\ \A i \in 1..(Len(n) - j + 1) : FromRight(a, i) = FromRight(n, i) /\ Right(a, i) = Right(n, i)
      BY <1>2, <2>2, AncestorOf
    <3> HIDE DEF a
    <3> QED
      BY <1>2, <2>2, <3>1
  <2>4. j \notin Stops(n, o)
    BY <1>2, <2>1, <2>2
  <2>5. ~CanLengthen(a) /\ ~CanIncrement(a)
    BY <1>2, <2>2, <2>4 DEF Stops
  <2> HIDE DEF j, a
  <2>6. IsName(a) /\ Len(a) > 1 /\ a # <<>>
    BY <2>2, <2>3, EmptySeq DEF IsOf
  <2>7. l \in Label /\ l = Right(a, k + 1)
    BY <2>3, <2>6, HeadIs
  <2> HIDE DEF l
  <2>8. \A i \in 1..Len(l) : l[i] = MaximalOctet
    <3>1. DOMAIN l = 1..Len(l)
      BY <2>7 DEF Label
    <3> QED
      BY <2>5, <3>1 DEF CanIncrement, l
  <2>9. FromRight(n, k + 1) = l
    <3>1. LowerLabel(l) = l
      BY <2>7, <2>8, LowerStays, OctetFacts
    <3>2. FromRight(n, k + 1) = LowerLabel(Right(n, k + 1)) /\ Right(n, k + 1) = l
      BY <1>2, <1>5, <2>3, <2>7, RightIs
    <3> QED
      BY <3>1, <3>2
  <2>10. Len(l) < Len(Right(m, k + 1))
    <3>1. FromRight(m, k + 1) \in Label /\ Len(FromRight(m, k + 1)) = Len(Right(m, k + 1))
      BY <1>2, <1>5, RightIs
    <3> QED
      BY <1>4, <2>7, <2>8, <2>9, <3>1, OnlyLongerIsAfter
  <2>11. \A i \in 1..k : FromRight(a, i) = FromRight(m, i)
    BY <1>4, <2>3
  <2>12. CanLengthen(a)
    BY <1>1, <1>2, <1>4, <2>3, <2>6, <2>10, <2>11, RoomIs DEF l
  <2> QED
    BY <2>5, <2>12
<1> DEFINE a == Ancestor(n, d)
<1>7. /\ Len(a) = kn - d + 1
      /\ \A i \in 1..(kn - d + 1) : FromRight(a, i) = FromRight(n, i)
  BY <1>2, AncestorOf
<1> HIDE DEF a
<1>8. k < kn - d + 1 /\ \A i \in 1..(k + 1) : i \in 1..(kn - d + 1)
  BY <1>2, <1>6
<1>9. AboveAt(m, a, k)
  <2>1. \A i \in 1..(k + 1) : FromRight(a, i) = FromRight(n, i)
    BY <1>7, <1>8
  <2> QED
    BY <1>2, <1>4, <1>7, <1>8, <2>1 DEF AboveAt, Shares
<1> QED
  BY <1>9 DEF Above, a

\* What comes after a superdomain, and is not below it, comes after the name.
LEMMA AboveSuperdomain ==
    ASSUME NEW n \in LabelLists, NEW a \in LabelLists, Len(a) <= Len(n),
           \A i \in 1..Len(a) : FromRight(a, i) = FromRight(n, i),
           NEW m \in LabelLists, Above(m, a)
    PROVE  Above(m, n)
<1>1. PICK k \in Nat : AboveAt(m, a, k)
  BY DEF Above
<1>2. PICK ka \in Nat, kn \in Nat : ka = Len(a) /\ kn = Len(n) /\ ka <= kn /\ k < ka
  BY <1>1, RightIs DEF AboveAt
<1>3. \A i \in 1..(k + 1) : i \in 1..ka
  BY <1>2
<1>4. \A i \in 1..(k + 1) : FromRight(a, i) = FromRight(n, i)
  BY <1>2, <1>3
<1>5. AboveAt(m, n, k)
  BY <1>1, <1>2, <1>4 DEF AboveAt, Shares
<1> QED
  BY <1>5 DEF Above

\* The name whose first label is one least octet longer is the least after a
\* name and all that is below it.
LEMMA LengthenedIs ==
    ASSUME NEW a \in LabelLists, NEW o \in LabelLists, IsName(o), IsOf(a, o), ~Same(a, o), CanLengthen(a)
    PROVE  LET s == Lengthened(a)
           IN /\ s \in LabelLists /\ IsOf(s, o) /\ Above(s, a)
              /\ \A m \in LabelLists : Above(m, a) => Above(m, s) \/ Under(m, s)
<1> DEFINE l == Head(a)
           suffix == Tail(a)
           h == Append(l, MinimalOctet)
           s == <<h>> \o suffix
<1>1. IsName(a) /\ IsAbsolute(a) /\ Len(a) > 1
  BY NamesAreLists, StaysBelow DEF IsOf
<1>2. /\ l \in Label /\ suffix \in LabelLists /\ IsName(suffix) /\ a = <<l>> \o suffix
      /\ Len(suffix) = Len(a) - 1
  BY <1>1, HeadIs
<1>3. h \in Label
  BY <1>2, OctetFacts, AppendProperties DEF Label
<1>4. Lengthened(a) = s /\ Valid(s)
  BY DEF Lengthened, CanLengthen
<1>5. \A g \in Label : IsName(<<g>> \o suffix) => IsOf(<<g>> \o suffix, o)
  BY <1>1, StaysBelow
<1> HIDE DEF l, suffix, h
<1>6. s \in LabelLists /\ IsAbsolute(s) /\ Len(s) = Len(suffix) + 1 /\ FromRight(s, Len(suffix) + 1) = LowerLabel(h)
  <2>1. IsAbsolute(suffix)
    BY <1>2, NamesAreLists
  <2> QED
    BY <1>2, <1>3, <2>1, ConsIs
<1>7. IsOf(s, o)
  <2>1. IsName(s)
    BY <1>4, <1>6 DEF IsName, LabelLists, Label
  <2> QED
    BY <1>3, <1>5, <2>1
<1>8. LowerLabel(h) = Append(LowerLabel(l), MinimalOctet)
  <2> DEFINE x == LowerLabel(h)
             y == Append(LowerLabel(l), MinimalOctet)
  <2>1. PICK k \in Nat : k = Len(l)
    BY <1>2 DEF Label
  <2>2. /\ Len(h) = k + 1 /\ h[k + 1] = MinimalOctet /\ \A i \in 1..k : h[i] = l[i]
    BY <1>2, <2>1, OctetFacts, AppendProperties DEF Label, h
  <2>3. /\ LowerLabel(l) \in Label /\ Len(LowerLabel(l)) = k
        /\ \A i \in 1..k : LowerLabel(l)[i] = LowerCase(l[i])
    BY <1>2, <2>1, LowerIs
  <2>4. /\ y \in Label /\ Len(y) = k + 1 /\ y[k + 1] = MinimalOctet
        /\ \A i \in 1..k : y[i] = LowerCase(l[i])
    BY <2>3, OctetFacts, AppendProperties DEF Label
  <2>5. x \in Label /\ Len(x) = k + 1 /\ \A i \in 1..(k + 1) : x[i] = LowerCase(h[i])
    BY <1>3, <2>2, LowerIs
  <2>6. LowerCase(MinimalOctet) = MinimalOctet
    BY OctetFacts
  <2> HIDE DEF x, y
  <2>7. ASSUME NEW i \in 1..(k + 1) PROVE x[i] = y[i]
    BY <2>2, <2>4, <2>5, <2>6
  <2>8. x = y
    BY <2>4, <2>5, <2>7, SeqEqual DEF Label
  <2> QED
    BY <2>8 DEF x, y
<1>9. Precedes(LowerLabel(l), LowerLabel(h))
  <2>1. LowerLabel(l) \in Label /\ LowerLabel(h) \in Label
    BY <1>2, <1>3, LowerIs
  <2>2. Len(LowerLabel(l)) < Len(LowerLabel(h)) /\ \A i \in 1..Len(LowerLabel(l)) : LowerLabel(l)[i] = LowerLabel(h)[i]
    BY <1>8, <2>1, OctetFacts, AppendProperties DEF Label
  <2> QED
    BY <2>1, <2>2, PrecedesIs
<1> DEFINE k == Len(suffix)
<1>10. Under(s, suffix) /\ k < Len(s)
  <2>1. <<h>> \in LabelLists
    BY <1>3 DEF LabelLists
  <2>2. Under(<<h>> \o suffix, suffix)
    BY <1>2, <2>1, ConcatAbove
  <2> QED
    BY <1>2, <1>6, <2>2, RightIs
<1> HIDE DEF s
<1>11. Above(s, <<l>> \o suffix)
  BY <1>2, <1>6, <1>9, <1>10, ConsAbove
<1>12. ASSUME NEW m \in LabelLists, Above(m, a) PROVE Above(m, s) \/ Under(m, s)
  <2>1. Above(m, <<l>> \o suffix)
    BY <1>2, <1>12
  <2>2. \/ Above(m, suffix)
        \/ Under(m, suffix) /\ k < Len(m) /\ Precedes(LowerLabel(l), FromRight(m, k + 1))
    BY <1>2, <2>1, ConsAbove
  <2>3. CASE Above(m, suffix)
    <3>1. Above(m, <<h>> \o suffix)
      BY <1>2, <1>3, <2>3, ConsAbove
    <3> QED
      BY <3>1 DEF s
  <2>4. CASE Under(m, suffix) /\ k < Len(m) /\ Precedes(LowerLabel(l), FromRight(m, k + 1))
    <3>1. FromRight(m, k + 1) \in Label
      <4>1. PICK x \in Nat, y \in Nat : x = k /\ y = Len(m)
        BY <1>2, RightIs
      <4>2. x + 1 \in 1..y
        BY <2>4, <4>1
      <4> QED
        BY <4>1, <4>2, RightIs
    <3>2. LowerLabel(l) \in Label
      BY <1>2, LowerIs
    <3>3. FromRight(m, k + 1) = LowerLabel(h) \/ Precedes(LowerLabel(h), FromRight(m, k + 1))
      BY <1>8, <2>4, <3>1, <3>2, NextLabel
    <3>4. Above(m, <<h>> \o suffix) \/ Under(m, <<h>> \o suffix)
      BY <1>2, <1>3, <2>4, <3>3, ConsAbove
    <3> QED
      BY <3>4 DEF s
  <2> QED
    BY <2>2, <2>3, <2>4
<1> QED
  <2>1. Above(s, a)
    BY <1>2, <1>11
  <2> QED
    BY <1>4, <1>6, <1>7, <1>12, <2>1

\* The name with the last octet that can be counted up is the least after a name
\* that has no room for an octet, and all that is below it.
LEMMA IncrementedIs ==
    ASSUME NEW a \in LabelLists, NEW o \in LabelLists, IsName(o), IsOf(a, o), ~Same(a, o),
           ~CanLengthen(a), CanIncrement(a)
    PROVE  LET s == Incremented(a)
           IN /\ s \in LabelLists /\ IsOf(s, o)
              /\ (\A i \in 1..Len(a) : \A j \in 1..Len(Right(a, i)) : Right(a, i)[j] \notin UpperCase) =>
                   /\ Above(s, a)
                   /\ \A m \in LabelLists : IsName(m) /\ Above(m, a) => Above(m, s) \/ Under(m, s)
<1> DEFINE l == Head(a)
           suffix == Tail(a)
           last == CHOOSE i \in DOMAIN l : l[i] # MaximalOctet /\ \A j \in (i + 1)..Len(l) : l[j] = MaximalOctet
           h == Append(SubSeq(l, 1, last - 1), OctetAfter(l[last]))
           s == <<h>> \o suffix
<1>1. IsName(a) /\ IsAbsolute(a) /\ Len(a) > 1
  BY NamesAreLists, StaysBelow DEF IsOf
<1>2. /\ l \in Label /\ suffix \in LabelLists /\ IsName(suffix) /\ a = <<l>> \o suffix
      /\ Len(suffix) = Len(a) - 1 /\ l = Right(a, Len(a))
  BY <1>1, HeadIs
<1>3. Incremented(a) = s
  BY DEF Incremented
<1>4. \A g \in Label : IsName(<<g>> \o suffix) => IsOf(<<g>> \o suffix, o)
  BY <1>1, StaysBelow
<1>5. CanIncrement(a) <=> \E i \in DOMAIN l : l[i] # MaximalOctet
  BY DEF CanIncrement
<1>6. PICK size \in Nat : size = Len(l) /\ DOMAIN l = 1..size
  BY <1>2 DEF Label
<1> HIDE DEF l, suffix
<1>7. /\ last \in 1..size /\ l[last] # MaximalOctet
      /\ \A j \in (last + 1)..size : l[j] = MaximalOctet
  <2> DEFINE S == {r \in Nat : r < size /\ l[size - r] # MaximalOctet}
  <2>1. PICK i \in 1..size : l[i] # MaximalOctet
    BY <1>5, <1>6
  <2>2. size - i \in S
    <3>1. size - i \in Nat /\ size - i < size /\ size - (size - i) = i
      OBVIOUS
    <3> QED
      BY <2>1, <3>1
  <2>3. PICK r \in S : \A x \in S : r <= x
    <3>1. S \in SUBSET Nat /\ S # {}
      BY <2>2
    <3> HIDE DEF S
    <3> QED
      BY <3>1, LeastExists
  <2>4. size - r \in 1..size /\ l[size - r] # MaximalOctet /\ r \in Nat
    BY <2>3
  <2>5. ASSUME NEW j \in (size - r + 1)..size, l[j] # MaximalOctet PROVE FALSE
    <3>1. size - j \in Nat /\ size - j < r /\ size - (size - j) = j /\ size - j < size
      BY <2>4
    <3>2. size - j \in S
      BY <2>5, <3>1
    <3> QED
      BY <2>3, <2>4, <3>1, <3>2
  <2>6. \E x \in DOMAIN l : l[x] # MaximalOctet /\ \A j \in (x + 1)..Len(l) : l[j] = MaximalOctet
    BY <1>6, <2>4, <2>5
  <2>7. last \in DOMAIN l /\ l[last] # MaximalOctet /\ \A j \in (last + 1)..Len(l) : l[j] = MaximalOctet
    BY <2>6
  <2> HIDE DEF last
  <2> QED
    BY <1>6, <2>7
<1> HIDE DEF last
<1>8. h \in Label /\ Len(h) = last /\ h # <<>>
  <2>1. h \in Label /\ Len(h) = last
    BY <1>2, <1>6, <1>7, CountedUp
  <2> HIDE DEF h
  <2> QED
    BY <1>7, <2>1
<1> DEFINE k == Len(suffix)
<1>9. k \in Nat /\ Len(a) = k + 1 /\ IsAbsolute(suffix) /\ Right(a, k + 1) = l
  <2>1. Len(a) \in Nat /\ Len(suffix) \in Nat
    BY <1>2, RightIs
  <2> QED
    BY <1>2, <2>1, NamesAreLists
<1>10. (\A i \in 1..size : l[i] \notin UpperCase) =>
         /\ LowerLabel(h) = h /\ Precedes(l, h) /\ LowerLabel(l) = l
         /\ \A t \in Label : (\A i \in 1..Len(t) : t[i] \notin UpperCase) /\ Precedes(l, t)
                                => t = h \/ Precedes(h, t) \/ Len(t) > size
  BY <1>2, <1>6, <1>7, CountedUpIsNext, LowerStays
<1> HIDE DEF h
<1>11. /\ s \in LabelLists /\ IsAbsolute(s) /\ Len(s) = k + 1 /\ FromRight(s, k + 1) = LowerLabel(h)
       /\ Right(s, k + 1) = h /\ \A i \in 1..k : Right(s, i) = Right(suffix, i)
  BY <1>2, <1>8, <1>9, ConsIs
<1>12. Under(s, suffix) /\ Under(a, suffix)
  <2>1. <<h>> \in LabelLists /\ <<l>> \in LabelLists
    BY <1>2, <1>8 DEF LabelLists
  <2>2. Under(<<h>> \o suffix, suffix) /\ Under(<<l>> \o suffix, suffix)
    BY <1>2, <2>1, ConcatAbove
  <2> QED
    BY <1>2, <2>2
<1>13. IsOf(s, o)
  <2>1. Within(<<h>> \o suffix, a)
    <3>1. Len(suffix) < Len(a) /\ Len(h) <= Len(Right(a, Len(suffix) + 1))
      BY <1>6, <1>7, <1>8, <1>9
    <3> QED
      BY <1>2, <1>8, <1>12, <3>1, WithinWhenUnder
  <2> HIDE DEF s
  <2>2. \A i \in 2..k : Right(suffix, i) # <<>>
    BY <1>2, <1>9, NameIs
  <2>3. ASSUME NEW i \in 2..(k + 1) PROVE Right(s, i) # <<>>
    <3>1. CASE i = k + 1
      BY <1>8, <1>11, <3>1
    <3>2. CASE i # k + 1
      <4>1. i \in 2..k /\ i \in 1..k
        BY <1>9, <3>2
      <4> QED
        BY <1>11, <2>2, <4>1
    <3> QED
      BY <3>1, <3>2
  <2>4. Within(s, a)
    BY <2>1 DEF s
  <2>5. IsName(s)
    BY <1>1, <1>11, <2>3, <2>4, NameWithin
  <2> QED
    BY <1>4, <1>8, <2>5 DEF s
<1>14. ASSUME \A i \in 1..Len(a) : \A j \in 1..Len(Right(a, i)) : Right(a, i)[j] \notin UpperCase
       PROVE  /\ Above(s, a)
              /\ \A m \in LabelLists : IsName(m) /\ Above(m, a) => Above(m, s) \/ Under(m, s)
  <2>1. /\ LowerLabel(h) = h /\ Precedes(l, h) /\ LowerLabel(l) = l
        /\ \A t \in Label : (\A i \in 1..Len(t) : t[i] \notin UpperCase) /\ Precedes(l, t)
                                => t = h \/ Precedes(h, t) \/ Len(t) > size
    <3>1. k + 1 \in 1..Len(a)
      BY <1>9
    <3> QED
      BY <1>6, <1>9, <1>10, <1>14, <3>1
  <2> HIDE DEF s
  <2>2. Above(s, a)
    <3>1. k < Len(s)
      BY <1>9, <1>11
    <3>2. Above(s, <<l>> \o suffix)
      BY <1>2, <1>11, <1>12, <2>1, <3>1, ConsAbove
    <3> QED
      BY <1>2, <3>2
  <2>3. ASSUME NEW m \in LabelLists, IsName(m), Above(m, a) PROVE Above(m, s) \/ Under(m, s)
    <3>1. Above(m, <<l>> \o suffix)
      BY <1>2, <2>3
    <3>2. \/ Above(m, suffix)
          \/ Under(m, suffix) /\ k < Len(m) /\ Precedes(LowerLabel(l), FromRight(m, k + 1))
      BY <1>2, <3>1, ConsAbove
    <3>3. CASE Above(m, suffix)
      <4>1. Above(m, <<h>> \o suffix)
        BY <1>2, <1>8, <3>3, ConsAbove
      <4> QED
        BY <4>1 DEF s
    <3>4. CASE Under(m, suffix) /\ k < Len(m) /\ Precedes(LowerLabel(l), FromRight(m, k + 1))
      <4> DEFINE t == FromRight(m, k + 1)
      <4>1. /\ t \in Label /\ Len(t) = Len(Right(m, k + 1))
            /\ \A i \in 1..Len(t) : t[i] \notin UpperCase
        <5>1. PICK y \in Nat : y = Len(m)
          BY RightIs
        <5>2. k + 1 \in 1..y
          BY <1>9, <3>4, <5>1
        <5> QED
          BY <5>1, <5>2, RightIs
      <4>2. ~(Len(t) > size)
        <5>1. SUFFICES ASSUME Len(Right(m, k + 1)) > size PROVE FALSE
          BY <4>1
        <5>2. \A i \in 1..k : FromRight(a, i) = FromRight(m, i)
          <6>1. \A i \in 1..k : FromRight(<<l>> \o suffix, i) = FromRight(suffix, i)
            BY <1>2, <1>9, ConsIs
          <6>2. \A i \in 1..k : FromRight(suffix, i) = FromRight(m, i)
            BY <3>4 DEF Under, Shares
          <6> QED
            BY <1>2, <6>1, <6>2
        <5>3. Len(Head(a)) < Len(Right(m, k + 1))
          <6>1. Right(m, k + 1) \in Label
            <7>1. PICK y \in Nat : y = Len(m)
              BY RightIs
            <7>2. k + 1 \in 1..y
              BY <1>9, <3>4, <7>1
            <7> QED
              BY <7>1, <7>2, RightIs
          <6>2. Len(Right(m, k + 1)) \in Nat
            BY <6>1 DEF Label
          <6> QED
            BY <1>6, <5>1, <6>2 DEF l
        <5>4. a # <<>>
          BY <1>9, EmptySeq
        <5> QED
          BY <1>1, <1>9, <2>3, <3>4, <5>2, <5>3, <5>4, RoomIs
      <4>3. t = LowerLabel(h) \/ Precedes(LowerLabel(h), t)
        BY <2>1, <3>4, <4>1, <4>2
      <4>4. Above(m, <<h>> \o suffix) \/ Under(m, <<h>> \o suffix)
        BY <1>2, <1>8, <3>4, <4>3, ConsAbove
      <4> QED
        BY <4>4 DEF s
    <3> QED
      BY <3>2, <3>3, <3>4
  <2> QED
    BY <2>2, <2>3
<1> QED
  BY <1>3, <1>11, <1>13, <1>14

\* The name beside another is the least that comes after it and is not below it,
\* or the origin where there is none.
LEMMA BesideIs ==
    ASSUME NEW n, NEW o, IsName(o), IsOf(n, o)
    PROVE  LET s == Beside(n, o)
           IN /\ s \in LabelLists /\ IsOf(s, o)
              /\ n = Canonicalize(n) =>
                   \/ Same(s, o) /\ \A m \in LabelLists : IsOf(m, o) => ~Above(m, n)
                   \/ Above(s, n) /\ \A m \in LabelLists : IsOf(m, o) /\ Above(m, n) => Above(m, s) \/ Under(m, s)
<1>1. n \in LabelLists /\ o \in LabelLists /\ IsName(n) /\ IsAbsolute(n) /\ IsAbsolute(o)
  BY NamesAreLists DEF IsOf
<1>2. PICK d \in 1..(Len(n) - Len(o) + 1) :
        LET a == Ancestor(n, d)
        IN /\ d \in Stops(n, o) /\ \A e \in Stops(n, o) : d <= e
           /\ Beside(n, o) = IF Same(a, o) THEN o ELSE IF CanLengthen(a) THEN Lengthened(a) ELSE Incremented(a)
  BY <1>1, StopIs
<1> DEFINE a == Ancestor(n, d)
           s == Beside(n, o)
<1>3. PICK kn \in Nat : kn = Len(n)
  BY <1>1, RightIs
<1>4. /\ d \in 1..kn /\ a \in LabelLists /\ IsOf(a, o) /\ Len(a) = kn - d + 1
      /\ \A i \in 1..(kn - d + 1) : FromRight(a, i) = FromRight(n, i) /\ Right(a, i) = Right(n, i)
  BY <1>1, <1>3, AncestorOf
<1>5. Same(a, o) \/ CanLengthen(a) \/ CanIncrement(a)
  BY <1>2 DEF Stops
<1>6. \A m \in LabelLists : IsOf(m, o) /\ Above(m, n) => Above(m, a)
  BY <1>1, <1>2, StopIsReached
<1>7. s = IF Same(a, o) THEN o ELSE IF CanLengthen(a) THEN Lengthened(a) ELSE Incremented(a)
  BY <1>2
<1> HIDE DEF a, s
<1>8. Len(a) <= Len(n) /\ Len(a) \in Nat /\ \A i \in 1..Len(a) : FromRight(a, i) = FromRight(n, i)
  BY <1>3, <1>4
<1>9. CASE Same(a, o)
  <2>1. s = o
    BY <1>7, <1>9
  <2>2. Under(o, o)
    BY <1>1, RightIs DEF Under, Shares
  <2>3. IsOf(o, o) /\ Same(o, o)
    BY <1>1, <2>2, CompareIs DEF IsOf
  <2>4. IsAbsolute(a)
    BY <1>4, NamesAreLists DEF IsOf
  <2>5. Alike(a, o)
    BY <1>1, <1>4, <1>9, <2>4, CompareIs DEF Alike, Under, Shares
  <2>6. ASSUME NEW m \in LabelLists, IsOf(m, o) PROVE ~Above(m, n)
    <3>1. Under(m, o)
      BY <1>1, <2>6, NamesAreLists, CompareIs DEF IsOf
    <3>2. Above(m, n) => Above(m, o)
      BY <1>1, <1>4, <1>6, <2>5, <2>6, AlikeIs
    <3> QED
      BY <1>1, <3>1, <3>2, UnderIsNotAbove
  <2> QED
    BY <1>1, <2>1, <2>3, <2>6 DEF s
<1>10. CASE ~Same(a, o) /\ CanLengthen(a)
  <2>1. s = Lengthened(a)
    BY <1>7, <1>10
  <2>2. /\ s \in LabelLists /\ IsOf(s, o) /\ Above(s, a)
        /\ \A m \in LabelLists : Above(m, a) => Above(m, s) \/ Under(m, s)
    BY <1>1, <1>4, <1>10, <2>1, LengthenedIs
  <2>3. Above(s, n)
    BY <1>1, <1>4, <1>8, <2>2, AboveSuperdomain
  <2> QED
    BY <1>6, <2>2, <2>3 DEF s
<1>11. CASE ~Same(a, o) /\ ~CanLengthen(a)
  <2>1. s = Incremented(a) /\ CanIncrement(a)
    BY <1>5, <1>7, <1>11
  <2>2. /\ s \in LabelLists /\ IsOf(s, o)
        /\ (\A i \in 1..Len(a) : \A j \in 1..Len(Right(a, i)) : Right(a, i)[j] \notin UpperCase) =>
             /\ Above(s, a)
             /\ \A m \in LabelLists : IsName(m) /\ Above(m, a) => Above(m, s) \/ Under(m, s)
    BY <1>1, <1>4, <1>11, <2>1, IncrementedIs
  <2>3. ASSUME n = Canonicalize(n)
        PROVE  \A i \in 1..Len(a) : \A j \in 1..Len(Right(a, i)) : Right(a, i)[j] \notin UpperCase
    <3>1. \A i \in 1..kn : \A j \in 1..Len(Right(n, i)) : Right(n, i)[j] \notin UpperCase
      BY <1>1, <1>3, <2>3, CanonicalIs
    <3>2. \A i \in 1..Len(a) : i \in 1..kn /\ Right(a, i) = Right(n, i)
      BY <1>4
    <3> QED
      BY <3>1, <3>2
  <2>4. n = Canonicalize(n) => Above(s, n)
    BY <1>1, <1>4, <1>8, <2>2, <2>3, AboveSuperdomain
  <2>5. \A m : IsOf(m, o) => IsName(m)
    BY DEF IsOf
  <2> QED
    BY <1>6, <2>2, <2>3, <2>4, <2>5 DEF s
<1> QED
  BY <1>9, <1>10, <1>11

\* The first name below another, when there is room for one.
LEMMA BelowIs ==
    ASSUME NEW n \in LabelLists, NEW o \in LabelLists, IsName(o), IsOf(n, o)
    PROVE  LET below == <<<<MinimalOctet>>>> \o n
           IN /\ Valid(below) => /\ IsOf(below, o) /\ Less(n, below)
                                 /\ \A m \in LabelLists : IsOf(m, o) => ~(Less(n, m) /\ Less(m, below))
              /\ ~Valid(below) => \A m \in LabelLists : IsOf(m, o) /\ Under(m, n) => Len(m) <= Len(n)
<1> DEFINE h == <<MinimalOctet>>
           below == <<h>> \o n
<1>1. IsName(n) /\ IsAbsolute(n) /\ IsAbsolute(o) /\ Under(n, o)
  BY NamesAreLists, CompareIs DEF IsOf
<1>2. h \in Label /\ <<h>> \in LabelLists /\ Len(h) = 1 /\ h # <<>>
  BY OctetFacts DEF LabelLists, Label
<1> HIDE DEF h
<1>3. PICK k \in Nat : k = Len(n)
  BY RightIs
<1>4. /\ below \in LabelLists /\ IsAbsolute(below) /\ Len(below) = k + 1 /\ Right(below, k + 1) = h
      /\ \A i \in 1..k : Right(below, i) = Right(n, i)
  BY <1>1, <1>2, <1>3, ConsIs
<1>5. Under(below, n) /\ Under(below, o)
  BY <1>1, <1>2, ConcatAbove
<1>6. ASSUME Valid(below)
      PROVE  /\ IsOf(below, o) /\ Less(n, below)
             /\ \A m \in LabelLists : IsOf(m, o) => ~(Less(n, m) /\ Less(m, below))
  <2>1. IsName(below)
    BY <1>4, <1>6 DEF IsName, LabelLists, Label
  <2>2. \A m \in LabelLists : IsName(m) /\ Less(n, m) => ~Less(m, below)
    BY <1>1, FirstBelow DEF h
  <2> HIDE DEF below
  <2>3. IsOf(below, o)
    BY <1>1, <1>4, <1>5, <2>1, CompareIs DEF IsOf
  <2>4. Less(n, below)
    <3>1. Len(n) < Len(below)
      BY <1>3, <1>4
    <3> QED
      BY <1>1, <1>4, <1>5, <3>1, CompareIs
  <2>5. \A m : IsOf(m, o) => IsName(m)
    BY DEF IsOf
  <2> QED
    BY <2>2, <2>3, <2>4, <2>5
<1>7. ASSUME ~Valid(below), NEW m \in LabelLists, IsOf(m, o), Under(m, n) PROVE Len(m) <= Len(n)
  <2>1. PICK km \in Nat : km = Len(m)
    BY RightIs
  <2>2. SUFFICES ASSUME k < km PROVE FALSE
    BY <1>3, <2>1
  <2>3. IsName(m) /\ IsAbsolute(m)
    BY <1>7, NamesAreLists DEF IsOf
  <2>4. Len(h) <= Len(Right(m, k + 1))
    <3>1. k + 1 \in 2..km /\ k + 1 \in 1..km
      <4>1. k >= 1
        BY <1>1, <1>3, NameIs
      <4> QED
        BY <2>2, <4>1
    <3>2. Right(m, k + 1) # <<>> /\ Right(m, k + 1) \in Label
      BY <2>1, <2>3, <3>1, NameIs, RightIs
    <3>3. \A l \in Label : l # <<>> => Len(l) >= 1
      BY DEF Label
    <3> QED
      BY <1>2, <3>2, <3>3
  <2>5. Within(<<h>> \o n, m)
    BY <1>2, <1>3, <1>7, <2>1, <2>2, <2>4, WithinWhenUnder
  <2> HIDE DEF below
  <2>6. \A i \in 2..k : Right(n, i) # <<>>
    BY <1>1, <1>3, NameIs
  <2>7. ASSUME NEW i \in 2..(k + 1) PROVE Right(below, i) # <<>>
    <3>1. CASE i = k + 1
      BY <1>2, <1>4, <3>1
    <3>2. CASE i # k + 1
      <4>1. i \in 2..k /\ i \in 1..k
        BY <3>2
      <4> QED
        BY <1>4, <2>6, <4>1
    <3> QED
      BY <3>1, <3>2
  <2>8. Within(below, m)
    BY <2>5 DEF below
  <2>9. IsName(below)
    BY <1>4, <2>3, <2>7, <2>8, NameWithin
  <2> QED
    BY <1>7, <2>9 DEF IsName, below
<1> QED
  BY <1>6, <1>7 DEF h

LEMMA SuccessorIs ==
    ASSUME NEW n, NEW o, IsName(o), IsOf(n, o), NEW prefixOK \in BOOLEAN
    PROVE  LET s == AbsoluteSuccessor(n, o, prefixOK)
               Compared(m) == IsOf(m, o) /\ (prefixOK \/ ~IsSubdomain(m, n))
           IN /\ IsOf(s, o)
              /\ n = Canonicalize(n) =>
                   \/ Less(n, s) /\ \A m : Compared(m) => ~(Less(n, m) /\ Less(m, s))
                   \/ Same(s, o) /\ \A m : Compared(m) => ~Less(n, m)
<1> DEFINE below == <<<<MinimalOctet>>>> \o n
           s == AbsoluteSuccessor(n, o, prefixOK)
<1>1. n \in LabelLists /\ o \in LabelLists /\ IsName(n) /\ IsAbsolute(n) /\ IsAbsolute(o)
  BY NamesAreLists DEF IsOf
<1>2. \A m : IsOf(m, o) => m \in LabelLists /\ IsAbsolute(m)
  BY NamesAreLists DEF IsOf
<1>3. s = IF prefixOK /\ Valid(below) THEN below ELSE Beside(n, o)
  BY DEF AbsoluteSuccessor
<1>4. /\ Valid(below) => /\ IsOf(below, o) /\ Less(n, below)
                         /\ \A m \in LabelLists : IsOf(m, o) => ~(Less(n, m) /\ Less(m, below))
      /\ ~Valid(below) => \A m \in LabelLists : IsOf(m, o) /\ Under(m, n) => Len(m) <= Len(n)
  BY <1>1, BelowIs
<1> HIDE DEF below, s
<1>5. CASE prefixOK /\ Valid(below)
  BY <1>2, <1>3, <1>4, <1>5 DEF s
<1>6. CASE ~(prefixOK /\ Valid(below))
  <2>1. /\ s \in LabelLists /\ IsOf(s, o)
        /\ n = Canonicalize(n) =>
             \/ Same(s, o) /\ \A m \in LabelLists : IsOf(m, o) => ~Above(m, n)
             \/ Above(s, n) /\ \A m \in LabelLists : IsOf(m, o) /\ Above(m, n) => Above(m, s) \/ Under(m, s)
    <3>1. s = Beside(n, o)
      BY <1>3, <1>6
    <3> QED
      BY <3>1, BesideIs
  <2>2. ASSUME NEW m, IsOf(m, o), prefixOK \/ ~IsSubdomain(m, n), Less(n, m) PROVE Above(m, n)
    <3>1. m \in LabelLists /\ IsAbsolute(m)
      BY <1>2, <2>2
    <3>2. Above(m, n) \/ (Under(m, n) /\ Len(n) < Len(m))
      BY <1>1, <2>2, <3>1, CompareIs
    <3>3. CASE prefixOK
      <4>1. Under(m, n) => Len(m) <= Len(n)
        BY <1>4, <1>6, <2>2, <3>1, <3>3
      <4>2. Len(m) \in Nat /\ Len(n) \in Nat
        BY <1>1, <3>1, RightIs
      <4> QED
        BY <3>2, <4>1, <4>2
    <3>4. CASE ~IsSubdomain(m, n)
      BY <1>1, <3>1, <3>2, <3>4, CompareIs
    <3> QED
      BY <2>2, <3>3, <3>4
  <2>3. ASSUME Above(s, n) PROVE Less(n, s)
    BY <1>1, <1>2, <2>1, <2>3, CompareIs
  <2>4. ASSUME NEW m, IsOf(m, o), Above(m, s) \/ Under(m, s) PROVE ~Less(m, s)
    BY <1>2, <2>1, <2>4, NotBefore
  <2> QED
    BY <1>2, <2>1, <2>2, <2>3, <2>4 DEF s
<1> QED
  BY <1>5, <1>6

-----------------------------------------------------------------------------
(* Relative names, and the walk *)

LEMMA AlikeOrder ==
    ASSUME NEW a \in LabelLists, NEW b \in LabelLists, IsAbsolute(a), IsAbsolute(b), Alike(a, b),
           NEW m \in LabelLists, IsAbsolute(m)
    PROVE  /\ Less(a, m) <=> Less(b, m)
           /\ Less(m, a) <=> Less(m, b)
           /\ Same(a, m) <=> Same(b, m)
  BY AlikeIs, CompareIs DEF Alike

\* A name made relative to the origin, and absolute again, is the name but for
\* the case of the origin's letters.
LEMMA Twin ==
    ASSUME NEW f, NEW o, IsName(o), IsOf(f, o)
    PROVE  LET r == Relativize(f, o)
           IN /\ r \in LabelLists /\ ~IsAbsolute(r) /\ Derelativize(r, o) = r \o o
              /\ r \o o \in LabelLists /\ IsOf(r \o o, o) /\ Alike(r \o o, f)
<1>1. f \in LabelLists /\ o \in LabelLists /\ IsName(f) /\ IsAbsolute(f) /\ IsAbsolute(o)
  BY NamesAreLists DEF IsOf
<1>2. PICK k \in Nat, ko \in Nat : k = Len(f) /\ ko = Len(o) /\ ko >= 1 /\ ko <= k
  BY <1>1, NameIs, CompareIs DEF IsOf, Under, Shares
<1>3. \A i \in 1..ko : FromRight(f, i) = FromRight(o, i)
  BY <1>1, <1>2, CompareIs DEF IsOf, Under, Shares
<1> DEFINE r == SubSeq(f, 1, k - ko)
           g == r \o o
<1>4. Relativize(f, o) = r
  BY <1>2 DEF Relativize, IsOf
<1>5. r \in LabelLists /\ Len(r) = k - ko /\ \A i \in 1..(k - ko) : r[i] = f[i]
  BY <1>1, <1>2 DEF LabelLists
<1> HIDE DEF r
<1>6. \A i \in 1..(k - ko) : Right(r, i) = Right(f, ko + i)
  <2>1. ASSUME NEW i \in 1..(k - ko) PROVE Right(r, i) = Right(f, ko + i)
    <3>1. (k - ko) + 1 - i \in 1..(k - ko) /\ (k - ko) + 1 - i = k + 1 - (ko + i)
      BY <1>2
    <3> QED
      BY <1>2, <1>5, <3>1 DEF Right
  <2> QED
    BY <2>1
<1>7. \A i \in 2..k : Right(f, i) # <<>>
  BY <1>1, <1>2, NameIs
<1>8. ~IsAbsolute(r)
  <2>1. SUFFICES ASSUME r # <<>> PROVE Last(r) # <<>>
    BY DEF IsAbsolute
  <2>2. Len(r) # 0
    BY <1>5, <2>1, EmptySeq
  <2>3. 1 \in 1..(k - ko) /\ ko + 1 \in 2..k
    BY <1>2, <1>5, <2>2
  <2>4. Last(r) = Right(r, 1)
    BY <1>5, <1>2 DEF Last, Right
  <2> QED
    BY <1>6, <1>7, <2>3, <2>4
<1>9. /\ g \in LabelLists /\ Len(g) = k /\ IsAbsolute(g)
      /\ \A i \in 1..ko : Right(g, i) = Right(o, i) /\ FromRight(g, i) = FromRight(o, i)
      /\ \A i \in 1..(k - ko) : Right(g, ko + i) = Right(r, i)
  <2>1. /\ g \in LabelLists /\ Len(g) = Len(r) + Len(o) /\ IsAbsolute(g)
        /\ \A i \in 1..Len(o) : Right(g, i) = Right(o, i) /\ FromRight(g, i) = FromRight(o, i)
        /\ \A i \in 1..Len(r) : Right(g, Len(o) + i) = Right(r, i)
    BY <1>1, <1>5, ConcatIs
  <2> HIDE DEF g
  <2> QED
    BY <1>2, <1>5, <2>1
<1> HIDE DEF g
<1>10. \A i \in (ko + 1)..k : Right(g, i) = Right(f, i)
  <2>1. ASSUME NEW i \in (ko + 1)..k PROVE Right(g, i) = Right(f, i)
    <3>1. i - ko \in 1..(k - ko) /\ ko + (i - ko) = i
      BY <1>2
    <3> QED
      BY <1>6, <1>9, <3>1
  <2> QED
    BY <2>1
<1>11. \A i \in 1..k : /\ FromRight(g, i) = FromRight(f, i)
                       /\ Len(Right(g, i)) = Len(Right(f, i)) /\ Len(Right(f, i)) \in Nat
  <2>1. ASSUME NEW i \in 1..k
        PROVE  /\ FromRight(g, i) = FromRight(f, i)
               /\ Len(Right(g, i)) = Len(Right(f, i)) /\ Len(Right(f, i)) \in Nat
    <3>1. /\ Right(f, i) \in Label /\ FromRight(f, i) = LowerLabel(Right(f, i))
          /\ FromRight(g, i) = LowerLabel(Right(g, i))
          /\ Len(FromRight(f, i)) = Len(Right(f, i)) /\ Len(FromRight(g, i)) = Len(Right(g, i))
      BY <1>1, <1>2, <1>9, RightIs
    <3>2. FromRight(g, i) = FromRight(f, i)
      <4>1. i \in 1..ko \/ i \in (ko + 1)..k
        BY <1>2
      <4> QED
        BY <1>3, <1>9, <1>10, <3>1, <4>1
    <3>3. Len(Right(f, i)) \in Nat
      BY <3>1 DEF Label
    <3> QED
      BY <3>1, <3>2, <3>3
  <2> QED
    BY <2>1
<1>12. Alike(g, f)
  BY <1>2, <1>9, <1>11 DEF Alike
<1>13. IsName(g)
  <2>1. Within(g, f)
    BY <1>2, <1>9, <1>11 DEF Within
  <2>2. \A i \in 2..Len(g) : Right(g, i) # <<>>
    <3>1. ASSUME NEW i \in 2..k PROVE Right(g, i) # <<>>
      <4>1. Right(f, i) # <<>> /\ Len(Right(g, i)) = Len(Right(f, i)) /\ Right(f, i) \in Label
        <5>1. i \in 1..k
          OBVIOUS
        <5> QED
          BY <1>1, <1>2, <1>7, <1>11, <5>1, RightIs
      <4>2. Len(Right(f, i)) # 0
        BY <4>1, EmptySeq DEF Label
      <4> QED
        BY <4>1, <4>2
    <3> QED
      BY <1>9, <3>1
  <2> QED
    BY <1>1, <1>9, <2>1, <2>2, NameWithin
<1>14. IsOf(g, o)
  <2>1. Under(g, o)
    BY <1>2, <1>9 DEF Under, Shares
  <2> QED
    BY <1>1, <1>9, <1>13, <2>1, CompareIs DEF IsOf
<1> QED
  BY <1>4, <1>5, <1>8, <1>9, <1>12, <1>14 DEF g, Derelativize, Concatenate

LEMMA AlikeItself ==
    ASSUME NEW f \in LabelLists
    PROVE  Alike(f, f)
  BY DEF Alike

\* The name in hand is, made absolute, a name of the zone.
NamesInv == origin \in Origins /\ name \in LabelLists /\ IsOf(Derelativize(name, origin), origin)

\* A neighbour, made absolute, is the neighbour of the name made absolute.
LEMMA NeighbourIs ==
    ASSUME NamesInv, NEW prefixOK \in BOOLEAN
    PROVE  LET n == Derelativize(name, origin)
               up == Successor(name, origin, prefixOK)
               down == Predecessor(name, origin, prefixOK)
               s == AbsoluteSuccessor(n, origin, prefixOK)
               p == AbsolutePredecessor(n, origin, prefixOK)
           IN /\ IsName(origin) /\ IsOf(n, origin) /\ IsOf(s, origin) /\ IsOf(p, origin)
              /\ up \in LabelLists /\ IsOf(Derelativize(up, origin), origin) /\ Alike(Derelativize(up, origin), s)
              /\ down \in LabelLists /\ IsOf(Derelativize(down, origin), origin) /\ Alike(Derelativize(down, origin), p)
<1> DEFINE n == Derelativize(name, origin)
           up == Successor(name, origin, prefixOK)
           down == Predecessor(name, origin, prefixOK)
           s == AbsoluteSuccessor(n, origin, prefixOK)
           p == AbsolutePredecessor(n, origin, prefixOK)
<1>1. IsName(origin) /\ IsOf(n, origin)
  BY OriginsAreNames DEF NamesInv
<1>2. IsOf(s, origin) /\ IsOf(p, origin)
  BY <1>1, SuccessorIs, PredecessorIs
<1>3. /\ IsAbsolute(name) => n = name /\ up = s /\ down = p
      /\ ~IsAbsolute(name) => up = Relativize(s, origin) /\ down = Relativize(p, origin)
  BY DEF Successor, Predecessor, Neighbour, Derelativize
<1> HIDE DEF n, up, down, s, p
<1>4. \A f : IsOf(f, origin) => f \in LabelLists /\ IsAbsolute(f) /\ Alike(f, f)
  BY NamesAreLists, AlikeItself DEF IsOf
<1>5. CASE IsAbsolute(name)
  <2>1. Derelativize(up, origin) = s /\ Derelativize(down, origin) = p
    BY <1>2, <1>3, <1>4, <1>5 DEF Derelativize
  <2> QED
    BY <1>1, <1>2, <1>3, <1>4, <1>5, <2>1 DEF n, up, down, s, p
<1>6. CASE ~IsAbsolute(name)
  <2>1. /\ up \in LabelLists /\ IsOf(Derelativize(up, origin), origin) /\ Alike(Derelativize(up, origin), s)
        /\ down \in LabelLists /\ IsOf(Derelativize(down, origin), origin) /\ Alike(Derelativize(down, origin), p)
    BY <1>1, <1>2, <1>3, <1>6, Twin
  <2> QED
    BY <1>1, <1>2, <2>1 DEF n, up, down, s, p
<1> QED
  BY <1>5, <1>6

LEMMA NamesInitInv == NamesInit => NamesInv
<1> SUFFICES ASSUME NamesInit PROVE NamesInv
  OBVIOUS
<1>1. origin \in Origins /\ IsOf(name, origin)
  BY DEF NamesInit, InZone
<1>2. name \in LabelLists /\ IsAbsolute(name)
  BY <1>1, NamesAreLists DEF IsOf
<1> QED
  BY <1>1, <1>2 DEF NamesInv, Derelativize

LEMMA NamesInvStep == NamesInv /\ [NamesNext]_namesVars => NamesInv'
<1> SUFFICES ASSUME NamesInv, [NamesNext]_namesVars PROVE NamesInv'
  OBVIOUS
<1>1. ASSUME NEW prefixOK \in BOOLEAN, StepUp(prefixOK) PROVE NamesInv'
  BY <1>1, NeighbourIs DEF NamesInv, StepUp
<1>2. ASSUME NEW prefixOK \in BOOLEAN, StepDown(prefixOK) PROVE NamesInv'
  BY <1>2, NeighbourIs DEF NamesInv, StepDown
<1>3. ASSUME NEW relativize \in BOOLEAN, Convert(relativize) PROVE NamesInv'
  <2> DEFINE n == Derelativize(name, origin)
  <2>1. IsName(origin) /\ origin # <<>> /\ IsOf(n, origin) /\ n \in LabelLists /\ IsAbsolute(n) /\ name \in LabelLists
    BY OriginsAreNames, NamesAreLists DEF NamesInv, IsOf, IsAbsolute
  <2>2. origin' = origin /\ name' = IF relativize THEN Relativize(name, origin) ELSE n
    BY <1>3, <2>1 DEF Convert, ChooseRelativity, Empty
  <2>3. IsAbsolute(name) => n = name
    BY DEF Derelativize
  <2> HIDE DEF n
  <2>4. CASE ~relativize
    <3>1. name' = n /\ Derelativize(n, origin) = n
      BY <2>1, <2>2, <2>4 DEF Derelativize
    <3> QED
      BY <2>1, <2>2, <3>1 DEF NamesInv
  <2>5. CASE relativize /\ IsAbsolute(name)
    <3>1. name' = Relativize(n, origin)
      BY <2>2, <2>3, <2>5
    <3>2. name' \in LabelLists /\ IsOf(Derelativize(name', origin), origin)
      BY <2>1, <3>1, Twin
    <3> QED
      BY <2>2, <3>2 DEF NamesInv
  <2>6. CASE relativize /\ ~IsAbsolute(name)
    <3>1. ~IsSubdomain(name, origin)
      <4>1. IsAbsolute(origin)
        BY <2>1, NamesAreLists
      <4> QED
        BY <2>6, <4>1 DEF IsSubdomain, FullCompare
    <3>2. name' = name
      BY <2>2, <2>6, <3>1 DEF Relativize
    <3> QED
      BY <2>2, <3>2 DEF NamesInv
  <2> QED
    BY <2>4, <2>5, <2>6
<1>4. CASE UNCHANGED namesVars
  BY <1>4 DEF NamesInv, namesVars
<1> QED
  BY <1>1, <1>2, <1>3, <1>4 DEF NamesNext

LEMMA NeighboursFromInv == NamesInv => NeighboursAreAdjacent
<1> SUFFICES ASSUME NamesInv PROVE NeighboursAreAdjacent
  OBVIOUS
<1> DEFINE n == Derelativize(name, origin)
           zone == InZone(origin)
           S(prefixOK) == Derelativize(Successor(name, origin, prefixOK), origin)
           P(prefixOK) == Derelativize(Predecessor(name, origin, prefixOK), origin)
           s(prefixOK) == AbsoluteSuccessor(n, origin, prefixOK)
           p(prefixOK) == AbsolutePredecessor(n, origin, prefixOK)
<1>1. IsName(origin) /\ IsOf(n, origin)
  BY OriginsAreNames DEF NamesInv
<1>2. \A prefixOK \in BOOLEAN :
        /\ IsOf(S(prefixOK), origin) /\ Alike(S(prefixOK), s(prefixOK)) /\ IsOf(s(prefixOK), origin)
        /\ IsOf(P(prefixOK), origin) /\ Alike(P(prefixOK), p(prefixOK)) /\ IsOf(p(prefixOK), origin)
  BY NeighbourIs
<1>3. \A m \in zone : IsOf(m, origin)
  BY DEF InZone
<1>4. ASSUME n = Canonicalize(n)
      PROVE  /\ \A prefixOK \in BOOLEAN :
                  LET Compared(m) == IsOf(m, origin) /\ (prefixOK \/ ~IsSubdomain(m, n))
                  IN \/ Less(n, s(prefixOK)) /\ \A m : Compared(m) => ~(Less(n, m) /\ Less(m, s(prefixOK)))
                     \/ Same(s(prefixOK), origin) /\ \A m : Compared(m) => ~Less(n, m)
             /\ \A prefixOK \in BOOLEAN :
                  /\ Same(n, origin) => \A m : IsOf(m, origin) => ~Less(p(prefixOK), m)
                  /\ ~Same(n, origin) =>
                       /\ Less(p(prefixOK), n)
                       /\ \A m : IsOf(m, origin) /\ (prefixOK \/ Len(m) <= Len(n)) => ~(Less(p(prefixOK), m) /\ Less(m, n))
  BY <1>1, <1>4, SuccessorIs, PredecessorIs
<1> HIDE DEF n, S, P, s, p, zone
<1>5. \A f : IsOf(f, origin) => f \in LabelLists /\ IsAbsolute(f)
  BY NamesAreLists DEF IsOf
<1>6. \A prefixOK \in BOOLEAN : \A m :
        IsOf(m, origin) => /\ Less(S(prefixOK), m) <=> Less(s(prefixOK), m)
                           /\ Less(m, S(prefixOK)) <=> Less(m, s(prefixOK))
                           /\ Less(P(prefixOK), m) <=> Less(p(prefixOK), m)
                           /\ Less(m, P(prefixOK)) <=> Less(m, p(prefixOK))
  BY <1>2, <1>5, AlikeOrder
<1>7. \A prefixOK \in BOOLEAN : Same(S(prefixOK), origin) <=> Same(s(prefixOK), origin)
  <2>1. origin \in LabelLists /\ IsAbsolute(origin)
    BY <1>1, NamesAreLists
  <2> QED
    BY <1>2, <1>5, <2>1, AlikeOrder
<1>8. TRUE \in BOOLEAN /\ FALSE \in BOOLEAN
  OBVIOUS
<1>9. ASSUME n = Canonicalize(n)
      PROVE  /\ IsAfter(S(TRUE), n, zone)
             /\ IsAfter(S(FALSE), n, {m \in zone : ~IsSubdomain(m, n)})
  <2>1. ASSUME NEW prefixOK \in BOOLEAN, NEW T \in SUBSET zone, \A m \in T : prefixOK \/ ~IsSubdomain(m, n)
        PROVE  IsAfter(S(prefixOK), n, T)
    <3>1. \A m \in T : IsOf(m, origin) /\ (prefixOK \/ ~IsSubdomain(m, n))
      BY <1>3, <2>1
    <3>2. \/ Less(n, s(prefixOK)) /\ \A m \in T : ~(Less(n, m) /\ Less(m, s(prefixOK)))
          \/ Same(s(prefixOK), origin) /\ \A m \in T : ~Less(n, m)
      BY <1>4, <1>9, <2>1, <3>1
    <3> QED
      BY <1>1, <1>6, <1>7, <2>1, <3>1, <3>2 DEF IsAfter, NoneBetween, Greatest
  <2> QED
    BY <2>1
<1>10. ASSUME n = Canonicalize(n)
       PROVE  IF Same(n, origin)
              THEN \A prefixOK \in BOOLEAN : Greatest(P(prefixOK), zone)
              ELSE NoneBetween(P(TRUE), n, zone) /\ NoneBetween(P(FALSE), n, {m \in zone : Len(m) <= Len(n)})
  <2>1. CASE Same(n, origin)
    BY <1>3, <1>4, <1>6, <1>10, <2>1 DEF Greatest
  <2>2. CASE ~Same(n, origin)
    <3>1. ASSUME NEW prefixOK \in BOOLEAN, NEW T \in SUBSET zone, \A m \in T : prefixOK \/ Len(m) <= Len(n)
          PROVE  NoneBetween(P(prefixOK), n, T)
      <4>1. \A m \in T : IsOf(m, origin) /\ (prefixOK \/ Len(m) <= Len(n))
        BY <1>3, <3>1
      <4>2. Less(p(prefixOK), n) /\ \A m \in T : ~(Less(p(prefixOK), m) /\ Less(m, n))
        BY <1>4, <1>10, <2>2, <3>1, <4>1
      <4> QED
        BY <1>1, <1>6, <3>1, <4>1, <4>2 DEF NoneBetween
    <3>2. NoneBetween(P(TRUE), n, zone)
      BY <3>1
    <3>3. NoneBetween(P(FALSE), n, {m \in zone : Len(m) <= Len(n)})
      BY <3>1
    <3> QED
      BY <2>2, <3>2, <3>3
  <2> QED
    BY <2>1, <2>2
<1> QED
  BY <1>2, <1>9, <1>10 DEF NeighboursAreAdjacent, n, S, P, zone

\* Whichever neighbour is asked for, and whether names are relative or absolute:
\* it is a proper name of the zone, and, for a name in lower case, no name of any
\* length lies between (Name.successor, predecessor), whatever the sizes of
\* labels and names and whatever the octets.
THEOREM NeighboursTheorem == NamesSpec => []NeighboursAreAdjacent
<1>1. NamesInit => NamesInv
  BY NamesInitInv
<1>2. NamesInv /\ [NamesNext]_namesVars => NamesInv'
  BY NamesInvStep
<1>3. NamesInv => NeighboursAreAdjacent
  BY NeighboursFromInv
<1> QED
  BY <1>1, <1>2, <1>3, PTL DEF NamesSpec
=============================================================================
