------------------------------ MODULE NameDict ------------------------------
(***************************************************************************)
(* dns.namedict: a dictionary of names that finds the longest suffix of a  *)
(* name it has, starting from a depth it keeps as names come and go.  Names *)
(* are sequences of labels that are compared as they are; the empty name   *)
(* is the suffix of every name.                                            *)
(***************************************************************************)
EXTENDS Integers, Sequences, FiniteSets

CONSTANT DictLabels,   \* of the names
         MaxDepth      \* bound: labels of a name

VARIABLES store,            \* the names the dictionary has
          max_depth,        \* labels of its longest name
          max_depth_items   \* names counted at that depth

namedictVars == <<store, max_depth, max_depth_items>>

DictNames == UNION {[1..n -> DictLabels] : n \in 0..MaxDepth}
Suffix(n, depth) == SubSeq(n, Len(n) - depth + 1, Len(n))

NameDictInit == store = {} /\ max_depth = 0 /\ max_depth_items = 0

\* A bug: the depths of the names that are left are not looked at.
DeepestReset(S) == 0

\* What counts the names of the greatest depth, after depth names came.
Deepest(S) == CHOOSE d \in {Len(n) : n \in S} \cup {0} : \A n \in S : Len(n) <= d

\* A name that was there already is counted again.
SetItem(n) ==
  /\ max_depth_items <= MaxDepth      \* bound: a name counted again and again
  /\ store' = store \cup {n}
  /\ \/ Len(n) = max_depth /\ max_depth_items' = max_depth_items + 1 /\ UNCHANGED max_depth
     \/ Len(n) > max_depth /\ max_depth_items' = 1 /\ max_depth' = Len(n)
     \/ Len(n) < max_depth /\ UNCHANGED <<max_depth, max_depth_items>>

CountAfter(n) == max_depth_items - IF Len(n) = max_depth THEN 1 ELSE 0

\* Once none is counted, all that are left are.
DeleteItem(n) ==
  LET left == store \ {n}
  IN /\ n \in store
     /\ store' = left
     /\ IF CountAfter(n) = 0
        THEN /\ max_depth' = Deepest(left)
             /\ max_depth_items' = Cardinality({m \in left : Len(m) = Deepest(left)})
        ELSE max_depth_items' = CountAfter(n) /\ UNCHANGED max_depth

NameDictNext == \E n \in DictNames : SetItem(n) \/ DeleteItem(n)

\* The empty name, which raises KeyError when it is not there, comes last.
GetDeepestMatch(n) ==
  LET depth == IF Len(n) > max_depth THEN max_depth ELSE Len(n)
      found == {d \in 1..depth : Suffix(n, d) \in store}
  IN IF found # {} THEN Suffix(n, CHOOSE d \in found : \A e \in found : e <= d) ELSE <<>>

\* However names came and went, some of them twice, the match of a name is
\* its longest suffix in the dictionary: the depth that the search starts
\* from is never less than that of a name (NameDict.get_deepest_match).
DeepestIsFound ==
  \A n \in DictNames, d \in 0..MaxDepth :
    d <= Len(n) /\ Suffix(n, d) \in store => Len(GetDeepestMatch(n)) >= d
=============================================================================
