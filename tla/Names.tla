------------------------------- MODULE Names -------------------------------
(***************************************************************************)
(* dns.name: names as text, and what becomes of a name on the way from one *)
(* form to another.                                                        *)
(***************************************************************************)
EXTENDS NameOrder, Octets

CONSTANT Written         \* names whose text is of interest

-----------------------------------------------------------------------------
(* Text. *)

Dot == 46
AtSignText == <<64>>
\* What is written after a backslash: "().;\@$
MustEscape == {34, 40, 41, 46, 59, 92, 64, 36}
EscapeLabel(l) ==
  Cat([i \in DOMAIN l |->
         IF l[i] \in 33..126 THEN Escaped(<<l[i]>>, MustEscape)
         ELSE <<Backslash, Digit(l[i] \div 100), Digit((l[i] \div 10) % 10), Digit(l[i] % 10)>>])
Join(parts) == Cat([i \in DOMAIN parts |-> IF i = 1 THEN parts[i] ELSE <<Dot>> \o parts[i]])
ToText(n, omitFinalDot) ==
  CASE n = Empty -> AtSignText
    [] n = Root -> <<Dot>>
    [] OTHER -> Join([i \in DOMAIN (IF omitFinalDot /\ IsAbsolute(n) THEN Front(n) ELSE n) |-> EscapeLabel(n[i])])

\* A dot ends a label unless a backslash is before it; a backslash takes one
\* character or three digits, and those must make an octet.
RECURSIVE ReadLabels(_, _, _)
ReadLabels(t, label, labels) ==
  LET digits == Len(t) > 1 /\ IsDigit(t[2])
      three == Len(t) > 3 /\ \A i \in 2..4 : IsDigit(t[i])
  IN CASE t = <<>> -> Got(Append(labels, label), <<>>)
       [] t # <<>> /\ Head(t) = Dot ->
            IF label = <<>> THEN FormError ELSE ReadLabels(Tail(t), <<>>, Append(labels, label))
       [] t # <<>> /\ Head(t) = Backslash ->
            IF three /\ Decimal(SubSeq(t, 2, 4)) <= 255
            THEN ReadLabels(SubSeq(t, 5, Len(t)), Append(label, Decimal(SubSeq(t, 2, 4))), labels)
            ELSE IF Len(t) > 1 /\ ~digits
            THEN ReadLabels(Tail(Tail(t)), Append(label, t[2]), labels) ELSE FormError
       [] OTHER -> ReadLabels(Tail(t), Append(label, Head(t)), labels)
\* The labels of a text, before an origin is added to those that lack the root.
TextLabels(t) ==
  CASE t \in {AtSignText, <<>>} -> Got(<<>>, <<>>)
    [] t = <<Dot>> -> Got(Root, <<>>)
    [] OTHER -> ReadLabels(t, <<>>, <<>>)
FromText(t, o) ==
  LET r == TextLabels(t)
      full == IF IsAbsolute(r.val) THEN r.val ELSE r.val \o o
  IN IF r.ok /\ Valid(full) THEN Got(full, <<>>) ELSE FormError

-----------------------------------------------------------------------------
(* Properties. *)

\* A name survives what is done to it: cut anywhere and put together, made
\* relative and absolute again, written (with the final dot or without it)
\* and read, whatever its octets (Name.split, concatenate, relativize,
\* derelativize, to_text, dns.name.from_text).
NamesSurvive ==
  \A n \in {name} \cup Written :
    /\ \A depth \in 0..Len(n) :
         LET parts == Split(n, depth)
         IN CanConcatenate(parts[1], parts[2]) /\ Concatenate(parts[1], parts[2]) = n
    /\ IsAbsolute(n) => Same(Derelativize(Relativize(n, origin), origin), n)
    /\ Valid(n) => /\ FromText(ToText(n, FALSE), Empty) = Got(n, <<>>)
                   /\ IsAbsolute(n) => FromText(ToText(n, TRUE), Root) = Got(n, <<>>)
                   /\ n # Empty /\ ~IsAbsolute(n) /\ Valid(n \o origin) =>
                        FromText(ToText(n, FALSE), origin) = Got(Derelativize(n, origin), <<>>)
=============================================================================
