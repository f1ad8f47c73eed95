----------------------------- MODULE NameOrder -----------------------------
(***************************************************************************)
(* dns.name: domain names, how they compare, how they are taken apart and  *)
(* put together, and their neighbours in the order of DNSSEC.  A name is   *)
(* the sequence of its labels, the empty label last when it is absolute; a *)
(* label is a sequence of octets.                                          *)
(*                                                                         *)
(* The sizes and the octets that the neighbours depend on are parameters,  *)
(* so that every name there is can be compared with every other; the code  *)
(* has 63, 255, 0, "@", "[", 255 and, between upper and lower case, 32.    *)
(***************************************************************************)
EXTENDS Integers, SequencesExt, FiniteSets

CONSTANTS MaxLabel, MaxName,                                \* the sizes
          MinimalOctet, AtSign, LeftBracket, MaximalOctet,  \* upper case is in the middle
          ToLower,                                          \* and so much below lower case
          Universe,      \* names there are
          Origins        \* those a zone may have

VARIABLES name,          \* the name in hand
          origin         \* of its zone

namesVars == <<name, origin>>

Root == <<<<>>>>
Empty == <<>>
NameOctets == MinimalOctet..MaximalOctet
UpperCase == (AtSign + 1)..(LeftBracket - 1)

\* _validate_labels().  An octet for the length of each label, and its own.
Places(n) == UNION {{i} \X (0..Len(n[Len(n) + 1 - i])) : i \in 1..Len(n)}
WireLength(n) == Cardinality(Places(n))
Valid(n) == /\ \A i \in DOMAIN n : Len(n[i]) <= MaxLabel
            /\ WireLength(n) <= MaxName
            /\ \A i \in 1..(Len(n) - 1) : n[i] # <<>>

IsAbsolute(n) == n # <<>> /\ Last(n) = <<>>

LowerCase(c) == IF c \in UpperCase THEN c + ToLower ELSE c
LowerLabel(l) == [i \in DOMAIN l |-> LowerCase(l[i])]
Canonicalize(n) == [i \in DOMAIN n |-> LowerLabel(n[i])]

\* Sequences of numbers in the order of Python's bytes.
Precedes(s, t) ==
  \/ Len(s) < Len(t) /\ \A i \in DOMAIN s : s[i] = t[i]
  \/ \E k \in DOMAIN s \cap DOMAIN t : s[k] < t[k] /\ \A i \in 1..(k - 1) : s[i] = t[i]

ASSUME OctetsAreInOrder ==
  /\ {MinimalOctet, AtSign, LeftBracket, MaximalOctet, ToLower} \subseteq Nat
  /\ MinimalOctet <= AtSign /\ AtSign < LeftBracket /\ LeftBracket <= MaximalOctet
  /\ \A c \in UpperCase : c + ToLower \in LeftBracket..MaximalOctet
ASSUME SizesAreNumbers == {MaxLabel, MaxName} \subseteq Nat \ {0}

-----------------------------------------------------------------------------
(* Comparison: the relation, the order and the labels in common, from the  *)
(* right.                                                                  *)

FromRight(n, i) == LowerLabel(n[Len(n) + 1 - i])
InCommon(a, b) ==
  LET l == IF Len(a) < Len(b) THEN Len(a) ELSE Len(b)
  IN CHOOSE k \in 0..l : /\ \A i \in 1..k : FromRight(a, i) = FromRight(b, i)
                         /\ k < l => FromRight(a, k + 1) # FromRight(b, k + 1)
FullCompare(a, b) ==
  LET k == InCommon(a, b) IN
  CASE IsAbsolute(a) # IsAbsolute(b) ->
         [relation |-> "none", order |-> IF IsAbsolute(a) THEN 1 ELSE -1, common |-> 0]
    [] IsAbsolute(a) = IsAbsolute(b) /\ k < Len(a) /\ k < Len(b) ->
         [relation |-> IF k > 0 THEN "commonancestor" ELSE "none",
          order |-> IF Precedes(FromRight(a, k + 1), FromRight(b, k + 1)) THEN -1 ELSE 1, common |-> k]
    [] OTHER ->
         [relation |-> IF Len(a) < Len(b) THEN "superdomain"
                       ELSE IF Len(a) > Len(b) THEN "subdomain" ELSE "equal",
          order |-> Len(a) - Len(b), common |-> k]
Same(a, b) == FullCompare(a, b).order = 0
Less(a, b) == FullCompare(a, b).order < 0
IsSubdomain(a, b) == FullCompare(a, b).relation \in {"subdomain", "equal"}

-----------------------------------------------------------------------------
(* Parts. *)

Parent(n) == Tail(n)
Split(n, depth) == <<SubSeq(n, 1, Len(n) - depth), SubSeq(n, Len(n) - depth + 1, Len(n))>>
CanConcatenate(a, b) == (IsAbsolute(a) => b = <<>>) /\ Valid(a \o b)
Concatenate(a, b) == a \o b

\* A bug: the origin is compared as a string, and not label by label.
RelativizeByLength(n, o) == SubSeq(n, 1, Len(n) - Len(o))

Relativize(n, o) == IF IsSubdomain(n, o) THEN SubSeq(n, 1, Len(n) - Len(o)) ELSE n
Derelativize(n, o) == IF IsAbsolute(n) THEN n ELSE Concatenate(n, o)
ChooseRelativity(n, o, relativize) ==
  IF o = Empty THEN n ELSE IF relativize THEN Relativize(n, o) ELSE Derelativize(n, o)

-----------------------------------------------------------------------------
(* Neighbours (the absolute method of RFC 4471, section 3.1).  prefixOK: a *)
(* name may be given more labels.                                          *)

Maximal(size) == [i \in 1..size |-> MaximalOctet]

\* As many full labels as there is room for, and a shorter one, which takes two
\* octets at least.
Fill(needed) ==
  LET full == needed \div (MaxLabel + 1)
      rest == needed % (MaxLabel + 1)
  IN (IF rest >= 2 THEN <<Maximal(rest - 1)>> ELSE <<>>) \o [i \in 1..full |-> Maximal(MaxLabel)]
PadToMaxName(n) == Fill(MaxName - WireLength(n)) \o n

PadToMaxLabel(label, suffix) ==
  LET remaining == MaxName - WireLength(suffix) - Len(label) - 1
      wanted == MaxLabel - Len(label)
  IN IF remaining <= 0 THEN label
     ELSE label \o Maximal(IF wanted < remaining THEN wanted ELSE remaining)

\* A bug: upper case is not skipped.
OctetBeforeInCase(c) == c - 1
OctetBefore(c) == IF c = LeftBracket THEN AtSign ELSE c - 1
OctetAfter(c) == IF c = AtSign THEN LeftBracket ELSE c + 1

Decremented(n) ==
  LET label == Head(n)
      shorter == Front(label)
      smaller == PadToMaxLabel(Append(shorter, OctetBefore(Last(label))), Tail(n))
  IN <<IF Last(label) = MinimalOctet THEN shorter ELSE smaller>> \o Tail(n)
AbsolutePredecessor(n, o, prefixOK) ==
  IF Same(n, o) THEN PadToMaxName(n)
  ELSE IF Head(n) = <<MinimalOctet>> THEN Parent(n)
  ELSE IF prefixOK THEN PadToMaxName(Decremented(n)) ELSE Decremented(n)

\* The least significant label may be made longer, or one of its octets counted
\* up, with which it ends then.
Lengthened(n) == <<Append(Head(n), MinimalOctet)>> \o Tail(n)
CanLengthen(n) == Len(Head(n)) < MaxLabel /\ Valid(Lengthened(n))
CanIncrement(n) == \E i \in DOMAIN Head(n) : Head(n)[i] # MaximalOctet
Incremented(n) ==
  LET label == Head(n)
      last == CHOOSE i \in DOMAIN label :
                label[i] # MaximalOctet /\ \A j \in (i + 1)..Len(label) : label[j] = MaximalOctet
  IN <<Append(SubSeq(label, 1, last - 1), OctetAfter(label[last]))>> \o Tail(n)

\* The name, or the first of its superdomains, where either can be done.
Ancestor(n, d) == SubSeq(n, d, Len(n))
Stops(n, o) ==
  {d \in 1..Len(n) : LET a == Ancestor(n, d) IN Same(a, o) \/ CanLengthen(a) \/ CanIncrement(a)}
Beside(n, o) ==
  LET a == Ancestor(n, CHOOSE d \in Stops(n, o) : \A e \in Stops(n, o) : d <= e)
  IN IF Same(a, o) THEN o ELSE IF CanLengthen(a) THEN Lengthened(a) ELSE Incremented(a)
AbsoluteSuccessor(n, o, prefixOK) ==
  LET below == <<<<MinimalOctet>>>> \o n
  IN IF prefixOK /\ Valid(below) THEN below ELSE Beside(n, o)

\* NeedSubdomainOfOrigin is raised when there is none.
HasNeighbours(n, o) == IsAbsolute(o) /\ (IsAbsolute(n) => IsSubdomain(n, o))
Neighbour(F(_, _, _), n, o, prefixOK) ==
  IF IsAbsolute(n) THEN F(n, o, prefixOK)
  ELSE Relativize(F(Derelativize(n, o), o, prefixOK), o)
Predecessor(n, o, prefixOK) == Neighbour(AbsolutePredecessor, n, o, prefixOK)
Successor(n, o, prefixOK) == Neighbour(AbsoluteSuccessor, n, o, prefixOK)

-----------------------------------------------------------------------------
(* What a program does with a name of a zone: it goes to a neighbour, as    *)
(* the walk along a chain of NSEC records does, or makes it relative to     *)
(* the origin, or absolute.                                                 *)

IsName(n) == n \in Seq(Seq(NameOctets)) /\ Valid(n) /\ IsAbsolute(n)
IsOf(n, o) == IsName(n) /\ IsSubdomain(n, o)
InZone(o) == {n \in Universe : IsOf(n, o)}

ASSUME OriginsAreNames == \A o \in Origins : IsName(o)

NamesInit == /\ origin \in Origins
             /\ name \in InZone(origin)

StepUp(prefixOK) == /\ HasNeighbours(name, origin)
                    /\ name' = Successor(name, origin, prefixOK)
                    /\ UNCHANGED origin
StepDown(prefixOK) == /\ HasNeighbours(name, origin)
                      /\ name' = Predecessor(name, origin, prefixOK)
                      /\ UNCHANGED origin
Convert(relativize) == /\ name' = ChooseRelativity(name, origin, relativize)
                       /\ UNCHANGED origin

NamesNext == \/ \E prefixOK \in BOOLEAN : StepUp(prefixOK) \/ StepDown(prefixOK)
             \/ \E relativize \in BOOLEAN : Convert(relativize)

NamesSpec == NamesInit /\ [][NamesNext]_namesVars

-----------------------------------------------------------------------------
(* Properties. *)

Greatest(n, S) == \A m \in S : ~Less(n, m)
NoneBetween(a, b, S) == Less(a, b) /\ \A m \in S : ~(Less(a, m) /\ Less(m, b))
IsAfter(s, n, S) == NoneBetween(n, s, S) \/ (Same(s, origin) /\ Greatest(n, S))

\* The successor of a name is the least name of the zone above it, or, where
\* labels may not be added, the least that is not below it in the tree; the
\* predecessor is the greatest before it, or the greatest of no more labels;
\* from the last name the way goes back to the origin, and from the origin to
\* the last name.  No name of any length lies between, and each is a proper
\* name of the zone.  That none lies between holds of names in lower case only:
\* an upper case letter that is counted up or down leads past names, or to a
\* name on the wrong side (Name.successor, predecessor).
NeighboursAreAdjacent ==
  LET n == Derelativize(name, origin)
      zone == InZone(origin)
      S(prefixOK) == Derelativize(Successor(name, origin, prefixOK), origin)
      P(prefixOK) == Derelativize(Predecessor(name, origin, prefixOK), origin)
      NotBelow == {m \in zone : ~IsSubdomain(m, n)}
      NoLonger == {m \in zone : Len(m) <= Len(n)}
  IN /\ \A prefixOK \in BOOLEAN : IsOf(S(prefixOK), origin) /\ IsOf(P(prefixOK), origin)
     /\ n = Canonicalize(n) =>
          /\ IsAfter(S(TRUE), n, zone) /\ IsAfter(S(FALSE), n, NotBelow)
          /\ IF Same(n, origin)
             THEN \A prefixOK \in BOOLEAN : Greatest(P(prefixOK), zone)
             ELSE NoneBetween(P(TRUE), n, zone) /\ NoneBetween(P(FALSE), n, NoLonger)
=============================================================================
