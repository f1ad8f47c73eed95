------------------------------- MODULE Octets -------------------------------
(***************************************************************************)
(* Octets and what the codecs of the library read and write with them: the *)
(* parser of dns/wire.py, names in wire format without compression, the    *)
(* escapes of presentation format.  An octet, and a character of a text,   *)
(* is its number.  A parse is a record: whether it went well, what it      *)
(* returns, and the index the parser has reached.  Integers of more than   *)
(* 16 bits are kept as their 16-bit words, since TLC's have 32 with sign.  *)
(* Names are sequences of labels, absolute, the root label left out; they  *)
(* are compressed when they are written by Renderer.                       *)
(***************************************************************************)
EXTENDS Integers, Sequences, SequencesExt

Octet == 0..255
Cat(ss) == FlattenSeq(ss)
Rep(x, n) == [i \in 1..n |-> x]

-----------------------------------------------------------------------------
(* dns.wire.Parser over the octets w, at index at. *)

Got(v, at) == [ok |-> TRUE, val |-> v, at |-> at]
FormError == [ok |-> FALSE, val |-> <<>>, at |-> 0]

\* A parse that goes on with what the one before it returned, and where that
\* ended; and one whose result is refused.
Then(g, F(_, _)) == IF g.ok THEN F(g.val, g.at) ELSE FormError
Checked(g, IsFine(_)) == IF g.ok /\ IsFine(g.val) THEN g ELSE FormError

Remaining(w, at) == Len(w) - at + 1
GetBytes(w, at, n) ==
  IF n > Remaining(w, at) THEN FormError ELSE Got(SubSeq(w, at, at + n - 1), at + n)
GetRemaining(w, at) == GetBytes(w, at, Remaining(w, at))

Number(os) == IF Len(os) = 1 THEN os[1] ELSE 256 * os[1] + os[2]
GetUint(w, at, n) ==
  Then(GetBytes(w, at, n), LAMBDA b, after : Got(Number(b), after))
GetCounted(w, at, n) ==
  Then(GetUint(w, at, n), LAMBDA l, after : GetBytes(w, after, l))

PutUint(v, n) == IF n = 1 THEN <<v>> ELSE <<v \div 256, v % 256>>
PutCounted(b, n) == PutUint(Len(b), n) \o b
Words(os) == [i \in 1..(Len(os) \div 2) |-> Number(SubSeq(os, 2 * i - 1, 2 * i))]
PutWords(ws) == Cat([i \in DOMAIN ws |-> PutUint(ws[i], 2)])

-----------------------------------------------------------------------------
(* Names. *)

NameSize(n) == FoldLeft(LAMBDA s, l : s + Len(l) + 1, 1, n)
NameOK(n) == /\ \A i \in DOMAIN n : Len(n[i]) \in 1..63
             /\ NameSize(n) <= 255

PutName(n) == Cat([i \in DOMAIN n |-> PutCounted(n[i], 1)]) \o <<0>>

LowerOctet(c) == IF c \in 65..90 THEN c + 32 ELSE c
Lowered(n) == [i \in DOMAIN n |-> [j \in DOMAIN n[i] |-> LowerOctet(n[i][j])]]

\* A name is labels, and a pointer in place of the rest of them; a pointer
\* must lead before the name and before any pointer that led to it.  What is
\* left to read is after the furthest octet that was read.
Furthest(i, j) == IF i < j THEN j ELSE i
Target(l, low) == (l % 64) * 256 + low + 1
RECURSIVE Labels(_, _, _, _, _)
Labels(w, at, biggest, furthest, sofar) ==
  Then(GetUint(w, at, 1), LAMBDA l, i :
    CASE l = 0 -> Got(sofar, Furthest(furthest, i))
      [] l \in 1..63 ->
           Then(GetBytes(w, i, l),
                LAMBDA b, j : Labels(w, j, biggest, Furthest(furthest, j), Append(sofar, b)))
      [] l \in 192..255 ->
           Then(GetUint(w, i, 1), LAMBDA low, j :
             IF Target(l, low) < biggest
             THEN Labels(w, Target(l, low), Target(l, low), Furthest(furthest, j), sofar)
             ELSE FormError)
      [] OTHER -> FormError)
GetName(w, at) == Checked(Labels(w, at, at, at, <<>>), NameOK)

-----------------------------------------------------------------------------
(* Escapes: what stands for itself, what takes a backslash, and the rest,  *)
(* which is a backslash and three digits.                                  *)

Backslash == 92
Quote == 34
Comma == 44
Digit(d) == 48 + d
IsDigit(c) == c \in 48..57
Printable == 32..126

Escaped(b, special) ==
  Cat([i \in DOMAIN b |->
         IF b[i] \in special THEN <<Backslash, b[i]>>
         ELSE IF b[i] \in Printable THEN <<b[i]>>
         ELSE <<Backslash, Digit(b[i] \div 100), Digit((b[i] \div 10) % 10), Digit(b[i] % 10)>>])
Escapify(b) == Escaped(b, {Quote, Backslash})

Decimal(cs) == 100 * (cs[1] - 48) + 10 * (cs[2] - 48) + (cs[3] - 48)

\* What unescaping a text gives, code point by code point: ok is false for a
\* digit that is not followed by two more, and for a number above 255.
RECURSIVE UnescapeFrom(_, _, _)
UnescapeFrom(t, i, sofar) ==
  CASE i > Len(t) -> Got(sofar, i)
    [] i <= Len(t) /\ t[i] # Backslash -> UnescapeFrom(t, i + 1, Append(sofar, t[i]))
    [] i < Len(t) /\ t[i] = Backslash /\ ~IsDigit(t[i + 1]) ->
         UnescapeFrom(t, i + 2, Append(sofar, t[i + 1]))
    [] /\ i + 3 <= Len(t) /\ t[i] = Backslash
       /\ \A k \in 1..3 : IsDigit(t[i + k])
       /\ Decimal(SubSeq(t, i + 1, i + 3)) <= 255 ->
         UnescapeFrom(t, i + 4, Append(sofar, Decimal(SubSeq(t, i + 1, i + 3))))
    [] OTHER -> FormError
Unescape(t) == UnescapeFrom(t, 1, <<>>)

\* str.encode() of code points up to 255: UTF-8.
Encoded(t) ==
  Cat([i \in DOMAIN t |-> IF t[i] < 128 THEN <<t[i]>>
                          ELSE <<192 + t[i] \div 64, 128 + (t[i] % 64)>>])
=============================================================================
