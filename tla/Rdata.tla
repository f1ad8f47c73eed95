------------------------------- MODULE Rdata -------------------------------
(***************************************************************************)
(* The values of dnspython's rdata types, and the two forms each is        *)
(* written in and read from: dns/rdata.py over the classes of dns/rdtypes  *)
(* and the options of dns/edns.py.                                         *)
(*                                                                         *)
(* A program has an rdata in hand: one it made, or one it has read from    *)
(* octets or from text that were not quite those of another.               *)
(***************************************************************************)
EXTENDS RdataSpecials

CONSTANT Samples  \* of each class, the rdata a program makes

VARIABLES rdclass,   \* the class of the rdata in hand
          rdata,     \* its fields
          source,    \* "made", "wire" or "text"
          octets     \* what it was read from, if that was octets

rdataVars == <<rdclass, rdata, source, octets>>

-----------------------------------------------------------------------------
(* The constructors. *)

Alphanumeric(t) == t # <<>> /\ \A i \in DOMAIN t : t[i] \in 48..57 \cup 65..90 \cup 97..122

(* GPOS holds numbers as their digits, and checks how they are spelled. *)
Unsigned(t) == IF t # <<>> /\ Head(t) \in {43, 45} THEN Tail(t) ELSE t
AllDigits(t) == t # <<>> /\ \A i \in DOMAIN t : IsDigit(t[i])
Dots(t) == {i \in DOMAIN t : t[i] = 46}
WholePart(t) == IF Dots(t) = {} THEN t ELSE SubSeq(t, 1, (CHOOSE i \in Dots(t) : TRUE) - 1)
Fraction(t) == IF Dots(t) = {} THEN <<>> ELSE SubSeq(t, (CHOOSE i \in Dots(t) : TRUE) + 1, Len(t))
FloatOK(s) ==
  LET t == Unsigned(s) IN
  \/ AllDigits(t)
  \/ /\ Cardinality(Dots(t)) = 1
     /\ WholePart(t) # <<>> \/ Fraction(t) # <<>>
     /\ \A part \in {WholePart(t), Fraction(t)} : part = <<>> \/ AllDigits(part)
Whole(s) == FoldLeft(LAMBDA n, c : 10 * n + c - 48, 0, WholePart(Unsigned(s)))
AtMost(s, n) == \/ Whole(s) < n
                \/ Whole(s) = n /\ \A i \in DOMAIN Fraction(s) : Fraction(s)[i] = 48

SpecialOK(k, v, soFar) ==
  CASE k = "relaytype" -> v[1] \in {0, 1}
    [] k = "gateway" -> GatewayOK(GatewayType(soFar), v)
    [] k = "bitmap" -> WindowsOK(v)
    [] k = "hip" -> Len(v[1]) <= 255 /\ \A i \in DOMAIN v[4] : NameOK(v[4][i])
    [] k = "loc" -> LocOK(v)
    [] k = "prefixes" -> \A i \in DOMAIN v : PrefixOK(v[i])
    [] k = "params" -> ParamsOK(v)
    [] OTHER -> TRUE
IsSpecial(f) == DOMAIN f = {"k"} /\ f # Optional

Constructs(c, v) ==
  /\ \A i \in DOMAIN v :
       LET f == Schema[c][i]
       IN IF IsSpecial(f) THEN SpecialOK(f.k, v[i], SubSeq(v, 1, i - 1)) ELSE Admits(f, v[i])
  /\ c = "CAA" => Alphanumeric(v[2])
  /\ c = "GPOS" => (\A i \in 1..3 : FloatOK(v[i])) /\ AtMost(v[1], 90) /\ AtMost(v[2], 180)
  /\ c = "URI" => v[3] # <<>>
  /\ c = "ZONEMD" => v[2] # 0

-----------------------------------------------------------------------------
(* Wire format: to_wire() and from_wire(), which must use every octet. *)

PutSpecial(k, v, soFar) ==
  CASE k = "relaytype" -> PutRelayType(v)
    [] k = "gateway" -> PutGateway(GatewayType(soFar), v)
    [] k = "bitmap" -> PutWindows(v)
    [] k = "hip" -> PutHip(v)
    [] k = "loc" -> PutLoc(v)
    [] k = "prefixes" -> Cat([i \in DOMAIN v |-> PutPrefix(v[i])])
    [] k = "params" -> PutParams(v)
    [] k = "options" -> PutOptions(v)
    [] OTHER -> v
GetSpecial(k, w, at, soFar) ==
  CASE k = "relaytype" -> GetRelayType(w, at)
    [] k = "gateway" -> GetGateway(GatewayType(soFar), w, at)
    [] k = "bitmap" -> GetWindows(w, at, <<>>)
    [] k = "hip" -> GetHip(w, at)
    [] k = "loc" -> GetLoc(w, at)
    [] k = "prefixes" -> GetPrefixes(w, at, <<>>)
    [] k = "params" -> GetParams(soFar[1], w, at)
    [] k = "options" -> GetOptions(w, at, <<>>)
    [] OTHER -> GetRemaining(w, at)

ToWire(c, v) ==
  Cat([i \in DOMAIN v |->
         IF IsSpecial(Schema[c][i]) THEN PutSpecial(Schema[c][i].k, v[i], SubSeq(v, 1, i - 1))
         ELSE Put(Schema[c][i], v[i])])

RECURSIVE GetFields(_, _, _, _)
GetFields(fields, w, at, soFar) ==
  LET f == Head(fields)
  IN IF fields = <<>> THEN Got(soFar, at)
     ELSE Then(IF IsSpecial(f) THEN GetSpecial(f.k, w, at, soFar) ELSE Get(f, w, at),
               LAMBDA v, after : GetFields(Tail(fields), w, after, Append(soFar, v)))
FromWire(c, w) ==
  Then(GetFields(Schema[c], w, 1, <<>>), LAMBDA v, after :
    IF after = Len(w) + 1 /\ Constructs(c, v) THEN Got(v, after) ELSE FormError)

\* The digestable form: names in lower case where the class says so.
ToDigestable(c, v) ==
  ToWire(c, [i \in DOMAIN v |->
               IF IsSpecial(Schema[c][i]) THEN v[i] ELSE Canonical(Schema[c][i], v[i])])

-----------------------------------------------------------------------------
(* Presentation format: to_text() and from_text(), which must reach the end. *)

SaySpecial(k, v, soFar) ==
  CASE k = "relaytype" -> SayRelayType(v)
    [] k = "gateway" -> SayGateway(GatewayType(soFar), v)
    [] k = "bitmap" -> SayTypes(v)
    [] k = "ports" -> SayPorts(v)
    [] k = "hip" -> SayHip(v)
    [] k = "loc" -> SayLoc(v)
    [] k = "prefixes" -> Cat([i \in DOMAIN v |-> Tok("prefix", v[i])])
    [] k = "params" -> SayParams(v)
HearSpecial(k, ts, soFar) ==
  CASE k = "relaytype" -> HearRelayType(ts)
    [] k = "gateway" -> HearGateway(GatewayType(soFar), ts)
    [] k = "bitmap" -> HearTypes(ts)
    [] k = "ports" -> HearPorts(ts)
    [] k = "hip" -> HearHip(ts)
    [] k = "loc" -> HearLoc(ts)
    [] k = "prefixes" -> HearPrefixes(ts)
    [] k = "params" -> HearParams(soFar[1], ts)

HasPresentation(c) == c # "OPT"
ToText(c, v) ==
  Cat([i \in DOMAIN v |->
         IF IsSpecial(Schema[c][i]) THEN SaySpecial(Schema[c][i].k, v[i], SubSeq(v, 1, i - 1))
         ELSE Say(Schema[c][i], v[i])])

RECURSIVE HearFields(_, _, _)
HearFields(fields, ts, soFar) ==
  LET f == Head(fields)
  IN IF fields = <<>> THEN Heard(soFar, ts)
     ELSE Then(IF IsSpecial(f) THEN HearSpecial(f.k, ts, soFar) ELSE Hear(f, ts),
               LAMBDA v, rest : HearFields(Tail(fields), rest, Append(soFar, v)))
FromText(c, ts) ==
  Then(HearFields(Schema[c], ts, <<>>), LAMBDA v, rest :
    IF rest = <<>> /\ Constructs(c, v) THEN Heard(v, rest) ELSE SyntaxError)

\* The generic form of a type that is known: it is read from its octets, and
\* refused when it would not be written as those octets again.
FromGeneric(c, w) == Checked(FromWire(c, w), LAMBDA v : ToWire(c, v) = w)

-----------------------------------------------------------------------------
(* What a program does with the rdata in hand: it makes one, or reads octets *)
(* or a text near those of one it made.                                      *)

\* Octets lost, added, repeated or changed.
Near(w) ==
  {w} \cup {w \o <<0>>} \cup {IF w = <<>> THEN w ELSE Front(w)}
    \cup {IF w = <<>> THEN w ELSE Front(w) \o <<192, 0>>}
    \cup {w \o SubSeq(w, Len(w) - 5, Len(w)) : k \in {1} \cap (IF Len(w) > 6 THEN {1} ELSE {})}
    \cup {[w EXCEPT ![i] = o] : i \in DOMAIN w \cap 1..8, o \in {0, 1, 5, 255}}
NearText(ts) == IF ts = <<>> THEN {} ELSE {Front(ts), Append(ts, Last(ts))}

RdataInit ==
  /\ rdclass \in Classes
  /\ rdata \in {v \in Samples[rdclass] : Constructs(rdclass, v)}
  /\ source = "made"
  /\ octets = <<>>

ReadWire ==
  /\ source = "made"
  /\ \E w \in Near(ToWire(rdclass, rdata)) :
       LET r == FromWire(rdclass, w) IN
       /\ r.ok
       /\ rdata' = r.val
       /\ octets' = w
  /\ source' = "wire"
  /\ UNCHANGED rdclass

ReadText ==
  /\ source = "made"
  /\ HasPresentation(rdclass)
  /\ \E ts \in NearText(ToText(rdclass, rdata)) :
       LET r == FromText(rdclass, ts) IN
       /\ r.ok
       /\ rdata' = r.val
  /\ source' = "text"
  /\ UNCHANGED <<rdclass, octets>>

RdataNext == ReadWire \/ ReadText

-----------------------------------------------------------------------------
(* Properties. *)

\* The rdata that only a constructor, or a text, can make: the wire format
\* has no room for them, and from_wire() refuses or changes what to_wire()
\* writes.
OnlyMade(c, v) ==
  \/ c = "LOC" /\ \/ Milliseconds(v[1].lat) \notin -(90 * Degree)..(90 * Degree)
                  \/ Milliseconds(v[1].long) \notin -(180 * Degree)..(180 * Degree)
                  \/ \E i \in 1..3 : v[1].sizes[i][1] >= 10
                  \/ v[1].alt[1] # v[1].alt[2]
  \/ c \in {"SVCB", "HTTPS"} /\ v[1] = 0 /\ v[3] # <<>>
\* A prefix of an unknown family, written without the zeros it ends in and
\* read without putting them back.
Shortened(c, v) ==
  c = "APL" /\ \E i \in DOMAIN v[1] : LET p == v[1][i] IN
    p.family \notin DOMAIN AddressSize /\ Trimmed(p.address) # p.address

HasName(c) == \E i \in DOMAIN Schema[c] : Schema[c][i].k \in {"name", "gateway", "hip"}

\* The classes that forget a part of some octets they accept: an empty
\* subaddress, the zeros at the end of a prefix, a parameter given twice, a
\* size of zero, the spare bits of a client subnet, the zero after a text.
Forgetful == {"ISDN", "APL", "SVCB", "HTTPS", "LOC", "OPT"}

\* Octets and rdata say the same: what to_wire() writes is read back as the
\* rdata it was written from, but for those that only a constructor makes and
\* for prefixes of unknown families that end in zeros; the canonical form is
\* again rdata of the type, with the same canonical form; and the octets of
\* an rdata are written again as they were, or are refused in a generic form
\* (RFC 3597), only when a name was compressed in them, which is what the
\* comment at dns/rdata.py:777 says, or when the class is one that forgets
\* (dns.rdata.Rdata.to_wire, from_wire, dns.rdata.from_text and the classes).
WireIsFaithful ==
  LET w == ToWire(rdclass, rdata)
      d == FromWire(rdclass, ToDigestable(rdclass, rdata))
  IN /\ source = "wire" => ~OnlyMade(rdclass, rdata)
     /\ ~OnlyMade(rdclass, rdata) /\ ~Shortened(rdclass, rdata) =>
          /\ FromWire(rdclass, w) = Got(rdata, Len(w) + 1)
          /\ d.ok /\ ToDigestable(rdclass, d.val) = ToDigestable(rdclass, rdata)
     /\ source = "wire" /\ ~FromGeneric(rdclass, octets).ok =>
          \/ rdclass \in Forgetful
          \/ HasName(rdclass) /\ \E i \in DOMAIN octets : octets[i] >= 192

\* What get_string() reads as it was: the escape of an octet above 127 is
\* read as a character, and encoded as two.
Ascii(t) == \A i \in DOMAIN t : t[i] < 128
Shown(t) == \A i \in DOMAIN t : t[i] \in Printable
FieldSays(f, v) ==
  CASE f.k = "counted" /\ f.form \in {"quoted", "word"} -> Ascii(v)
    [] f.k = "optional" -> Ascii(v)
    [] f.k = "counted" /\ f.form \in {"b32", "b64", "sized"} -> v # <<>>
    [] f.k = "rest" /\ f.form = "string" -> Ascii(v)
    [] f.k = "rest" /\ f.form = "raw" -> Ascii(v) /\ {Quote, Backslash, 10} \cap ToSet(v) = {}
    [] f.k = "rest" /\ f.form \in {"b64", "hex"} -> v # <<>>
    [] f.k = "digest" -> v[2] # <<>>
    [] OTHER -> TRUE
SpecialSays(k, v, soFar) ==
  CASE k = "bitmap" -> \A i \in DOMAIN v : Last(v[i][2]) # 0 /\ (v[i][1] = 0 => 0 \notin BitsOf(v[i][2]))
    [] k = "ports" -> v = <<>> \/ Last(v) # 0
    [] k = "hip" -> v[1] # <<>> /\ v[3] # <<>>
    [] k = "loc" -> v.alt[2] = Truncated(v.alt[1]) /\ \A i \in 1..3 : SizeFits(v.sizes[i])
    [] k = "prefixes" -> \A i \in DOMAIN v : v[i].family \in DOMAIN AddressSize
    [] k = "params" ->
         /\ soFar[1] = 0 => v = <<>>
         /\ \A i \in DOMAIN v :
              /\ v[i][1] \in {MANDATORY, ALPN, IPV4HINT, IPV6HINT} => v[i][2] # <<>>
              /\ v[i][1] = ALPN => \A j \in DOMAIN v[i][2] : Shown(v[i][2][j])
    [] OTHER -> TRUE
SaysItself(c, v) ==
  \A i \in DOMAIN v :
    LET f == Schema[c][i]
    IN IF IsSpecial(f) THEN SpecialSays(f.k, v[i], SubSeq(v, 1, i - 1)) ELSE FieldSays(f, v[i])

\* The text of an rdata is read back as that rdata exactly when SaysItself
\* holds of it; for the others (an empty key, an octet above 127 in a string,
\* an id of ALPN that is not printable, a bitmap with zeros at the end, an
\* altitude that floats make a centimetre less, ...) from_text() raises or
\* returns another rdata.  No other value is lost, and none of these is kept
\* (dns.rdata.from_text and the classes).
TextIsFaithful ==
  HasPresentation(rdclass) =>
    LET r == FromText(rdclass, ToText(rdclass, rdata))
    IN SaysItself(rdclass, rdata) <=> r.ok /\ r.val = rdata

=============================================================================
