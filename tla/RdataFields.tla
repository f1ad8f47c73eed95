---------------------------- MODULE RdataFields ----------------------------
(***************************************************************************)
(* The fields rdata is made of.  A class of dns/rdtypes is, nearly always, *)
(* a sequence of fields, and its five methods (the constructor's checks,   *)
(* _to_wire, from_wire_parser, to_text, from_text) treat each field in one *)
(* of a few ways; a field is a record that names the way, and the          *)
(* operators below are those methods field by field.  Fields of one class  *)
(* only, with rules of their own, are in RdataTypes.                       *)
(*                                                                         *)
(* A text is a sequence of tokens [t |-> kind, v |-> what it spells]: how  *)
(* numbers, addresses, hexadecimal and base64 are spelled is left out,     *)
(* where a text is cut into words too; an empty word is no token at all.   *)
(***************************************************************************)
EXTENDS Octets

\* A number of so many octets, of which not all may be admitted.
Bounded(most, w) == [k |-> "uint", w |-> w, most |-> most]
Uint(w) == Bounded(256 ^ w - 1, w)
U8 == Uint(1)
U16 == Uint(2)
U32 == [k |-> "words", w |-> 2]
U48 == [k |-> "words", w |-> 3]

\* A name: whether it may be compressed, and whether the canonical form has
\* it in lower case.
Name(compress, lower) == [k |-> "name", compress |-> compress, lower |-> lower]

\* Octets after their own length, of which form says how they are written:
\* "quoted" (a character string), "bytes" (one that is read back octet by
\* octet), "word" (not quoted), "salt" (a dash when empty), "b32", "b64"
\* and "b64opt", "sized" and "sizedopt" (after their length, left out when empty).
Counted(w, form) == [k |-> "counted", w |-> w, form |-> form]
Quoted == Counted(1, "quoted")

\* So many octets.
Fixed(n) == [k |-> "fixed", n |-> n]
\* All the octets left, written as one or more words, or as a string.
Rest(form) == [k |-> "rest", form |-> form]
\* As many as there are, and not fewer than least.
Many(of, least) == [k |-> "many", of |-> of, least |-> least]
\* A character string left out when it is empty.
Optional == [k |-> "optional"]
\* A code and octets, whose length some of the codes fix.
Digest(lengths) == [k |-> "digest", lengths |-> lengths]

-----------------------------------------------------------------------------
(* The constructor's checks. *)

Admits(f, v) ==
  CASE f.k = "uint" -> v \in 0..f.most
    [] f.k = "name" -> NameOK(v)
    [] f.k = "counted" -> f.w = 1 => Len(v) <= 255
    [] f.k = "fixed" -> Len(v) = f.n
    [] f.k = "many" -> /\ Len(v) >= f.least
                       /\ \A i \in DOMAIN v : f.of.k = "counted" => Len(v[i]) <= 255
    [] f.k = "optional" -> Len(v) <= 255
    [] f.k = "digest" -> IF v[1] \in DOMAIN f.lengths THEN Len(v[2]) = f.lengths[v[1]]
                         ELSE v[1] # 0
    [] OTHER -> TRUE

-----------------------------------------------------------------------------
(* Wire format. *)

Put(f, v) ==
  CASE f.k = "uint" -> PutUint(v, f.w)
    [] f.k = "words" -> PutWords(v)
    [] f.k = "name" -> PutName(v)
    [] f.k = "counted" -> PutCounted(v, f.w)
    [] f.k \in {"fixed", "rest"} -> v
    [] f.k = "many" -> Cat([i \in DOMAIN v |-> PutCounted(v[i], f.of.w)])
    [] f.k = "optional" -> IF v = <<>> THEN <<>> ELSE PutCounted(v, 1)
    [] f.k = "digest" -> PutUint(v[1], 1) \o v[2]

RECURSIVE GetStrings(_, _, _)
GetStrings(w, at, sofar) ==
  IF at > Len(w) THEN Got(sofar, at)
  ELSE Then(GetCounted(w, at, 1), LAMBDA s, after : GetStrings(w, after, Append(sofar, s)))

Get(f, w, at) ==
  CASE f.k = "uint" -> GetUint(w, at, f.w)
    [] f.k = "words" -> Then(GetBytes(w, at, 2 * f.w), LAMBDA b, after : Got(Words(b), after))
    [] f.k = "name" -> GetName(w, at)
    [] f.k = "counted" -> GetCounted(w, at, f.w)
    [] f.k = "fixed" -> GetBytes(w, at, f.n)
    [] f.k = "rest" -> GetRemaining(w, at)
    [] f.k = "many" -> GetStrings(w, at, <<>>)
    [] f.k = "optional" -> IF Remaining(w, at) > 0 THEN GetCounted(w, at, 1)
                           ELSE Got(<<>>, at)
    [] f.k = "digest" -> Then(GetUint(w, at, 1),
                              LAMBDA t, after : Got(<<t, SubSeq(w, after, Len(w))>>, Len(w) + 1))

-----------------------------------------------------------------------------
(* Presentation format. *)

Tok(t, v) == <<[t |-> t, v |-> v]>>
Word(t, v) == IF v = <<>> THEN <<>> ELSE Tok(t, v)

\* What a field is written as; NotText where to_text raises.
NotText == Tok("raises", <<>>)
Say(f, v) ==
  CASE f.k \in {"uint", "words"} -> Tok("int", v)
    [] f.k = "name" -> Tok("name", v)
    [] f.k = "fixed" -> Tok("digits", v)
    [] f.k = "optional" -> IF v = <<>> THEN <<>> ELSE Tok("string", Escapify(v))
    [] f.k = "counted" /\ f.form \in {"quoted", "bytes"} -> Tok("string", Escapify(v))
    [] f.k = "counted" /\ f.form = "word" -> Word("string", Escapify(v))
    [] f.k = "counted" /\ f.form = "salt" -> IF v = <<>> THEN Tok("dash", v) ELSE Tok("digits", v)
    [] f.k = "counted" /\ f.form \in {"b32", "b64", "b64opt"} -> Word("digits", v)
    [] f.k = "counted" /\ f.form \in {"sized", "sizedopt"} -> Tok("int", Len(v)) \o Word("digits", v)
    [] f.k = "rest" /\ f.form = "string" -> Tok("string", Escapify(v))
    [] f.k = "rest" /\ f.form = "raw" ->
         IF \A i \in DOMAIN v : v[i] < 128 THEN Tok("string", v) ELSE NotText
    [] f.k = "rest" /\ f.form = "0x" -> Tok("digits", v)
    [] f.k = "rest" /\ f.form = "generic" -> Tok("int", Len(v)) \o Word("digits", v)
    [] f.k = "rest" -> Word("digits", v)
    [] f.k = "many" -> Cat([i \in DOMAIN v |-> Tok("string", Escapify(v[i]))])
    [] f.k = "digest" -> Tok("int", v[1]) \o Word("digits", v[2])

\* Reading takes tokens from the left; at is what is left of them.
Heard(v, ts) == Got(v, ts)
SyntaxError == FormError
Next1(ts, t) == ts # <<>> /\ Head(ts).t = t

\* get_string(), and what encode() makes of it: an escape above 127 becomes
\* two octets.
GetString(ts) ==
  IF Next1(ts, "string") /\ Unescape(Head(ts).v).ok
  THEN Heard(Encoded(Unescape(Head(ts).v).val), Tail(ts)) ELSE SyntaxError

\* concatenate_remaining_identifiers().
GetDigits(ts, allowEmpty) ==
  IF (\A i \in DOMAIN ts : ts[i].t = "digits") /\ (allowEmpty \/ ts # <<>>)
  THEN Heard(Cat([i \in DOMAIN ts |-> ts[i].v]), <<>>) ELSE SyntaxError

Sized(ts, optional) ==
  LET n == Head(ts).v IN
  CASE ~Next1(ts, "int") -> SyntaxError
    [] Next1(ts, "int") /\ optional /\ n = 0 -> Heard(<<>>, Tail(ts))
    [] OTHER -> IF Next1(Tail(ts), "digits") /\ Len(ts[2].v) = n
                THEN Heard(ts[2].v, Tail(Tail(ts))) ELSE SyntaxError

OneToken(ts, t) == IF Next1(ts, t) THEN Heard(Head(ts).v, Tail(ts)) ELSE SyntaxError

Hear(f, ts) ==
  CASE f.k \in {"uint", "words"} -> OneToken(ts, "int")
    [] f.k = "name" -> OneToken(ts, "name")
    [] f.k = "fixed" -> OneToken(ts, "digits")
    [] f.k = "optional" -> IF ts = <<>> THEN Heard(<<>>, ts) ELSE GetString(ts)
    [] f.k = "counted" /\ f.form \in {"quoted", "word"} -> GetString(ts)
    [] f.k = "counted" /\ f.form = "salt" ->
         IF Next1(ts, "dash") THEN Heard(<<>>, Tail(ts)) ELSE OneToken(ts, "digits")
    [] f.k = "counted" /\ f.form \in {"b32", "b64"} -> OneToken(ts, "digits")
    [] f.k = "counted" /\ f.form = "b64opt" -> GetDigits(ts, TRUE)
    [] f.k = "counted" /\ f.form \in {"sized", "sizedopt"} -> Sized(ts, f.form = "sizedopt")
    [] f.k = "rest" /\ f.form = "string" -> GetString(ts)
    [] f.k = "rest" /\ f.form = "raw" ->
         IF Next1(ts, "string") /\ Quote \notin ToSet(Head(ts).v) THEN GetString(ts) ELSE SyntaxError
    [] f.k = "rest" /\ f.form = "0x" -> OneToken(ts, "digits")
    [] f.k = "rest" /\ f.form = "generic" ->
         LET d == GetDigits(Tail(ts), TRUE)
         IN IF Next1(ts, "int") /\ d.ok /\ Len(d.val) = Head(ts).v THEN d ELSE SyntaxError
    [] f.k = "rest" -> GetDigits(ts, FALSE)
    [] f.k = "many" ->
         IF \A i \in DOMAIN ts : ts[i].t = "string" /\ Unescape(ts[i].v).ok
         THEN Heard([i \in DOMAIN ts |-> Unescape(ts[i].v).val], <<>>) ELSE SyntaxError
    [] f.k = "digest" ->
         LET d == GetDigits(Tail(ts), FALSE)
         IN IF Next1(ts, "int") /\ d.ok THEN Heard(<<Head(ts).v, d.val>>, <<>>) ELSE SyntaxError

-----------------------------------------------------------------------------
\* The canonical form of a field, which decides equality and order and is
\* what DNSSEC signs.
Canonical(f, v) == IF f.k = "name" /\ f.lower THEN Lowered(v) ELSE v
=============================================================================
