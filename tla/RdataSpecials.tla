--------------------------- MODULE RdataSpecials ---------------------------
(***************************************************************************)
(* Fields with rules of their own: gateways, host identities, locations,   *)
(* address prefixes, service parameters and EDNS options.                  *)
(***************************************************************************)
EXTENDS RdataTypes

(* Gateways and relays: what a type says they are. *)

GatewayType(soFar) == IF Len(soFar) = 3 THEN soFar[2] ELSE soFar[2][2]
GatewayOK(type, g) ==
  CASE type = 0 -> g = <<>>
    [] type = 1 -> Len(g) = 4
    [] type = 2 -> Len(g) = 16
    [] type = 3 -> NameOK(g)
    [] OTHER -> FALSE
PutGateway(type, g) == IF type = 3 THEN PutName(g) ELSE g
GetGateway(type, w, at) ==
  CASE type = 0 -> Got(<<>>, at)
    [] type = 1 -> GetBytes(w, at, 4)
    [] type = 2 -> GetBytes(w, at, 16)
    [] type = 3 -> GetName(w, at)
    [] OTHER -> FormError
SayGateway(type, g) ==
  CASE type = 0 -> Tok("dot", g)
    [] type = 3 -> Tok("name", g)
    [] OTHER -> Tok("digits", g)
HearGateway(type, ts) ==
  CASE type = 0 -> OneToken(ts, "dot")
    [] type \in {1, 2} -> OneToken(ts, "digits")
    [] type = 3 -> OneToken(ts, "name")
    [] OTHER -> SyntaxError

\* The relay type shares its octet with the discovery bit.
PutRelayType(v) == <<128 * v[1] + v[2]>>
GetRelayType(w, at) ==
  Then(GetUint(w, at, 1), LAMBDA o, after : Got(<<o \div 128, o % 128>>, after))
SayRelayType(v) == Tok("int", v[1]) \o Tok("int", v[2])
HearRelayType(ts) ==
  IF Next1(ts, "int") /\ Next1(Tail(ts), "int") /\ ts[1].v \in {0, 1} /\ ts[2].v \in 0..127
  THEN Heard(<<ts[1].v, ts[2].v>>, Tail(Tail(ts))) ELSE SyntaxError

-----------------------------------------------------------------------------
(* Host identities: <<hit, algorithm, key, servers>>, both lengths first. *)

PutHip(v) ==
  <<Len(v[1]), v[2]>> \o PutUint(Len(v[3]), 2) \o v[1] \o v[3]
    \o Cat([i \in DOMAIN v[4] |-> PutName(v[4][i])])
RECURSIVE GetNames(_, _, _)
GetNames(w, at, soFar) ==
  IF at > Len(w) THEN Got(soFar, at)
  ELSE Then(GetName(w, at), LAMBDA n, after : GetNames(w, after, Append(soFar, n)))
GetHip(w, at) ==
  Then(GetBytes(w, at, 4), LAMBDA lengths, i :
    Then(GetBytes(w, i, lengths[1]), LAMBDA hit, j :
      Then(GetBytes(w, j, Number(SubSeq(lengths, 3, 4))), LAMBDA key, k :
        Then(GetNames(w, k, <<>>),
             LAMBDA servers, after : Got(<<hit, lengths[2], key, servers>>, after)))))
SayHip(v) ==
  Tok("int", v[2]) \o Word("digits", v[1]) \o Word("digits", v[3])
    \o Cat([i \in DOMAIN v[4] |-> Tok("name", v[4][i])])
HearHip(ts) ==
  IF /\ Len(ts) >= 3 /\ ts[1].t = "int" /\ ts[2].t = "digits" /\ ts[3].t = "digits"
     /\ \A i \in 4..Len(ts) : ts[i].t = "name"
  THEN Heard(<<ts[2].v, ts[1].v, ts[3].v, [i \in 1..(Len(ts) - 3) |-> ts[i + 3].v]>>, <<>>)
  ELSE SyntaxError

-----------------------------------------------------------------------------
(* Locations.  A coordinate is degrees, minutes, seconds, milliseconds and a *)
(* sign; a size is centimetres, as <<m, e>> for m times ten to the e.  The   *)
(* altitude is a float of which the text says the nearest centimetre and the *)
(* wire the whole ones: <<said, held>>, each as the two words it has on the  *)
(* wire, where the ground is 100 km above zero.                              *)

Degree == 3600000
Milliseconds(c) == (Degree * c[1] + 60000 * c[2] + 1000 * c[3] + c[4]) * c[5]
Coordinate(ms) ==
  LET a == IF ms < 0 THEN -ms ELSE ms
  IN <<a \div Degree, (a % Degree) \div 60000, (a % 60000) \div 1000, a % 1000,
       IF ms < 0 THEN -1 ELSE 1>>
CoordinateOK(c, high) ==
  c[1] \in 0..high /\ c[2] \in 0..59 /\ c[3] \in 0..59 /\ c[4] \in 0..999 /\ c[5] \in {1, -1}

\* Two to the 31 is the equator and the meridian.
PutCoordinate(c) ==
  LET ms == Milliseconds(c) IN PutWords(<<32768 + ms \div 65536, ms % 65536>>)
InRange(ws, degrees) ==
  LET ms == (ws[1] - 32768) * 65536 + ws[2]
  IN ms \in -(degrees * Degree)..(degrees * Degree)

\* A size loses all but its first digit; one digit and an exponent come back.
PutSize(s) == IF s[1] = 0 THEN <<0>>
              ELSE IF s[1] < 10 THEN <<16 * s[1] + s[2]>> ELSE <<16 * (s[1] \div 10) + s[2] + 1>>
SizeOK(o) == o % 16 <= 9 /\ o \div 16 <= 9
GetSize(o) == IF o \div 16 = 0 THEN <<0, 0>> ELSE <<o \div 16, o % 16>>
SizeFits(s) == s[1] = 0 \/ s[2] + (IF s[1] < 10 THEN 0 ELSE 1) <= 9

\* Altitudes are read from text as float(t) * 100.0 and written with int().
\* When the float of n hundredths is too small by 9 to 12 25ths of its last
\* bit (n begins with the bits 11001 or more, and its first bit is number e),
\* the product is the float before n, of which int() drops a centimetre.
Ground == <<152, 38528>>
Below(a, b) == a[1] < b[1] \/ (a[1] = b[1] /\ a[2] < b[2])
Minus(a, b) ==
  IF a[2] < b[2] THEN <<a[1] - b[1] - 1, 65536 + a[2] - b[2]>> ELSE <<a[1] - b[1], a[2] - b[2]>>
Log2(n) == CHOOSE e \in 0..30 : n \div 2 ^ e = 1
FallsShort(n) ==
  LET high == n[1] >= 16
      leading == IF high THEN n[1] ELSE 65536 * n[1] + n[2]
      e == Log2(leading) + IF high THEN 16 ELSE 0
  IN /\ n # <<0, 0>>
     /\ 16 * leading >= 25 * 2 ^ Log2(leading)
     /\ (((11 * n[1] + n[2]) % 25) * 2 ^ ((56 - e) % 20)) % 25 \in 9..12
Truncated(ws) ==
  IF Below(ws, Ground)
  THEN IF FallsShort(Minus(Ground, ws)) THEN Minus(Ground, Minus(Minus(Ground, ws), <<0, 1>>)) ELSE ws
  ELSE IF FallsShort(Minus(ws, Ground)) THEN Minus(ws, <<0, 1>>) ELSE ws

DefaultSizes == <<<<1, 2>>, <<1, 6>>, <<1, 3>>>>
LocOK(v) == CoordinateOK(v.lat, 90) /\ CoordinateOK(v.long, 180)
PutLoc(v) ==
  <<0>> \o PutSize(v.sizes[1]) \o PutSize(v.sizes[2]) \o PutSize(v.sizes[3])
    \o PutCoordinate(v.lat) \o PutCoordinate(v.long) \o PutWords(v.alt[2])
GetLoc(w, at) ==
  LET b == GetBytes(w, at, 16)
      ws == Words(SubSeq(b.val, 5, 16))
      Ms(i) == (ws[i] - 32768) * 65536 + ws[i + 1]
  IN CASE ~b.ok -> FormError
       [] b.ok /\ b.val[1] = 0 /\ InRange(SubSeq(ws, 1, 2), 90) /\ InRange(SubSeq(ws, 3, 4), 180)
               /\ \A i \in 2..4 : SizeOK(b.val[i]) ->
            Got([lat |-> Coordinate(Ms(1)), long |-> Coordinate(Ms(3)), alt |-> Rep(SubSeq(ws, 5, 6), 2),
                 sizes |-> [i \in 1..3 |-> GetSize(b.val[i + 1])]], b.at)
       [] OTHER -> FormError

\* Sizes are written all or none, and read one, two or three; of a size the
\* first digit is written, which the float always has.  Hemispheres
\* are words that only a coordinate has, so one token stands for both.
SayLoc(v) ==
  Tok("coordinate", v.lat) \o Tok("coordinate", v.long) \o Tok("metres", v.alt[1])
    \o IF v.sizes = DefaultSizes THEN <<>> ELSE Cat([i \in 1..3 |-> Tok("size", v.sizes[i])])
HearLoc(ts) ==
  LET Size(i) == IF Len(ts) >= 3 + i THEN ts[3 + i].v ELSE DefaultSizes[i]
  IN IF /\ Len(ts) \in 3..6 /\ ts[1].t = "coordinate" /\ ts[2].t = "coordinate"
        /\ ts[3].t = "metres" /\ \A i \in 4..Len(ts) : ts[i].t = "size"
        /\ \A i \in 1..3 : SizeFits(Size(i))
     THEN Heard([lat |-> ts[1].v, long |-> ts[2].v, alt |-> <<ts[3].v, Truncated(ts[3].v)>>,
                 sizes |-> [i \in 1..3 |-> Size(i)]], <<>>)
     ELSE SyntaxError

-----------------------------------------------------------------------------
(* Address prefixes: [family, negation, address, prefix], the address with   *)
(* its trailing zeros on the inside, without them on the wire.  One of a     *)
(* family nobody knows is held in hexadecimal, which can be 127 long.        *)

AddressSize == 1 :> 4 @@ 2 :> 16
PrefixOK(i) ==
  IF i.family \in DOMAIN AddressSize
  THEN Len(i.address) = AddressSize[i.family] /\ i.prefix <= 8 * AddressSize[i.family]
  ELSE 2 * Len(i.address) <= 127
Trimmed(a) ==
  LET nonzero == {j \in DOMAIN a : a[j] # 0}
  IN IF nonzero = {} THEN <<>> ELSE SubSeq(a, 1, CHOOSE j \in nonzero : \A k \in nonzero : k <= j)
PutPrefix(i) ==
  PutUint(i.family, 2) \o <<i.prefix, Len(Trimmed(i.address)) + (IF i.negation THEN 128 ELSE 0)>>
    \o Trimmed(i.address)
\* A bug: the zeros that were left out stay out.
PaddedNot(a, n) == a
Padded(a, n) == IF Len(a) < n THEN a \o Rep(0, n - Len(a)) ELSE a
RECURSIVE GetPrefixes(_, _, _)
GetPrefixes(w, at, soFar) ==
  LET h == GetBytes(w, at, 4)
      a == GetBytes(w, h.at, h.val[4] % 128)
      family == Number(SubSeq(h.val, 1, 2))
      item == [family |-> family, negation |-> h.val[4] > 127, prefix |-> h.val[3],
               address |-> IF family \in DOMAIN AddressSize
                           THEN Padded(a.val, AddressSize[family]) ELSE a.val]
  IN IF at > Len(w) THEN Got(soFar, at)
     ELSE IF h.ok /\ a.ok /\ PrefixOK(item) THEN GetPrefixes(w, a.at, Append(soFar, item))
     ELSE FormError
HearPrefixes(ts) ==
  IF \A i \in DOMAIN ts : ts[i].t = "prefix" /\ ts[i].v.family \in DOMAIN AddressSize
  THEN Heard([i \in DOMAIN ts |-> ts[i].v], <<>>) ELSE SyntaxError

-----------------------------------------------------------------------------
(* Service parameters: a sequence of <<key, value>>, the keys ascending.  A  *)
(* value is <<>> for none, a list for the parameters that hold one, and      *)
(* octets for the others.                                                    *)

MANDATORY == 0
ALPN == 1
NO_DEFAULT_ALPN == 2
PORT == 3
IPV4HINT == 4
ECH == 5
IPV6HINT == 6
OHTTP == 8
Valueless == {NO_DEFAULT_ALPN, OHTTP}
HintSize == IPV4HINT :> 4 @@ IPV6HINT :> 16
Known == {MANDATORY, ALPN, PORT, ECH} \cup Valueless \cup DOMAIN HintSize

Ascending(ks, strictly) ==
  \A i \in 2..Len(ks) : ks[i - 1] < ks[i] \/ (~strictly /\ ks[i - 1] = ks[i])
ParamKeys(ps) == [i \in DOMAIN ps |-> ps[i][1]]
Lookup(ps, key) == LET i == CHOOSE j \in DOMAIN ps : ps[j][1] = key IN ps[i][2]

ParamOK(key, v) ==
  CASE key = MANDATORY -> Ascending(v, TRUE) /\ MANDATORY \notin ToSet(v)
    [] key = ALPN -> \A i \in DOMAIN v : Len(v[i]) \in 1..255
    [] OTHER -> TRUE
ParamsOK(ps) ==
  LET keys == ToSet(ParamKeys(ps)) IN
  /\ \A i \in DOMAIN ps : ParamOK(ps[i][1], ps[i][2])
  /\ MANDATORY \in keys => ToSet(Lookup(ps, MANDATORY)) \subseteq keys
  /\ NO_DEFAULT_ALPN \in keys => ALPN \in keys

PutParam(key, v) ==
  CASE key = MANDATORY -> PutWords(v)
    [] key = ALPN -> Cat([i \in DOMAIN v |-> PutCounted(v[i], 1)])
    [] key = PORT -> PutUint(v, 2)
    [] key \in DOMAIN HintSize -> Cat(v)
    [] OTHER -> v
PutParams(ps) ==
  Cat([i \in DOMAIN ps |-> PutUint(ps[i][1], 2) \o PutCounted(PutParam(ps[i][1], ps[i][2]), 2)])

Pieces(b, n) == [i \in 1..(Len(b) \div n) |-> SubSeq(b, n * (i - 1) + 1, n * i)]
\* A value from all the octets b the parser is restricted to.
GetParam(key, b) ==
  CASE key = MANDATORY -> IF Len(b) % 2 = 0 /\ Ascending(Words(b), FALSE) THEN Got(Words(b), 1)
                          ELSE FormError
    [] key = ALPN -> GetStrings(b, 1, <<>>)
    [] key = PORT -> IF Len(b) = 2 THEN Got(Number(b), 1) ELSE FormError
    [] key \in DOMAIN HintSize -> IF Len(b) % HintSize[key] = 0 THEN Got(Pieces(b, HintSize[key]), 1)
                                  ELSE FormError
    [] key \in Valueless -> IF b = <<>> THEN Got(<<>>, 1) ELSE FormError
    [] OTHER -> Got(b, 1)

\* Keys must not descend; of two values for one key the later is kept.
Kept(ps, key, v) ==
  IF ps # <<>> /\ Last(ps)[1] = key THEN Append(Front(ps), <<key, v>>) ELSE Append(ps, <<key, v>>)
RECURSIVE GetEachParam(_, _, _)
GetEachParam(w, at, soFar) ==
  IF at > Len(w) THEN Got(soFar, at)
  ELSE Then(GetUint(w, at, 2), LAMBDA key, i :
         Then(GetCounted(w, i, 2), LAMBDA b, j :
           Then(GetParam(key, b), LAMBDA v, after :
             IF (soFar # <<>> => Last(soFar)[1] <= key) /\ ParamOK(key, v)
             THEN GetEachParam(w, j, Kept(soFar, key, v)) ELSE FormError)))
GetParams(priority, w, at) ==
  IF priority = 0 /\ Remaining(w, at) # 0 THEN FormError ELSE GetEachParam(w, at, <<>>)

\* The value-list of ALPN: each id escaped, the list escaped again as a whole.
SayIds(ids) ==
  LET Id(i) == Escaped(ids[i], {Quote, Comma, Backslash})
  IN Escapify(Cat([i \in DOMAIN ids |-> IF i = 1 THEN Id(i) ELSE <<Comma>> \o Id(i)]))
RECURSIVE Split(_, _, _)
Split(t, soFar, item) ==
  CASE t = <<>> -> Append(soFar, item)
    [] t # <<>> /\ Head(t) = Comma -> Split(Tail(t), Append(soFar, item), <<>>)
    [] Len(t) > 1 /\ Head(t) = Backslash -> Split(Tail(Tail(t)), soFar, Append(item, t[2]))
    [] OTHER -> Split(Tail(t), soFar, Append(item, Head(t)))

HasText(key, v) == key \notin Valueless /\ (key \in Known \/ v # <<>>)
SayParam(key, v) ==
  CASE key = ALPN -> SayIds(v)
    [] key \notin Known -> Escapify(v)
    [] OTHER -> v
SayParams(ps) ==
  Cat([i \in DOMAIN ps |->
         LET key == ps[i][1]
             v == ps[i][2]
         IN Tok("param", <<key, HasText(key, v), IF HasText(key, v) THEN SayParam(key, v) ELSE <<>>>>)])

HearParam(key, given, t) ==
  CASE ~given -> IF key \in Known \ Valueless THEN SyntaxError ELSE Heard(<<>>, <<>>)
    [] given /\ key \in Valueless -> IF t = <<>> THEN Heard(<<>>, <<>>) ELSE SyntaxError
    [] given /\ key = ALPN ->
         IF Unescape(t).ok THEN Heard(Split(Unescape(t).val, <<>>, <<>>), <<>>) ELSE SyntaxError
    [] given /\ key \in {MANDATORY, IPV4HINT, IPV6HINT} ->
         IF t = <<>> THEN SyntaxError ELSE Heard(t, <<>>)
    [] given /\ key \notin Known -> Unescape(t)
    [] OTHER -> Heard(t, <<>>)
HearParams(priority, ts) ==
  LET Of(i) == HearParam(ts[i].v[1], ts[i].v[2], ts[i].v[3])
  IN IF /\ \A i \in DOMAIN ts : ts[i].t = "param" /\ Of(i).ok /\ ParamOK(ts[i].v[1], Of(i).val)
        /\ \A i, j \in DOMAIN ts : i # j => ts[i].v[1] # ts[j].v[1]
        /\ priority = 0 => ts = <<>>
     THEN Heard([i \in DOMAIN ts |-> <<ts[i].v[1], Of(i).val>>], <<>>) ELSE SyntaxError

-----------------------------------------------------------------------------
(* EDNS options (dns/edns.py): <<type, value>>.                             *)

NSID == 3
ECS == 8
COOKIE == 10
EDE == 15
REPORTCHANNEL == 18

Up(bits) == (bits + 7) \div 8
\* The first bits of an address, the rest of the last octet cleared.
Masked(a, bits) ==
  LET n == Up(bits)
      spare == 2 ^ (8 * n - bits)
  IN [i \in 1..n |-> IF i = n THEN spare * (a[i] \div spare) ELSE a[i]]
CookieOK(client, server) == Len(client) = 8 /\ Len(server) \in {0} \cup 8..32
EcsOK(o) == /\ o.family \in DOMAIN AddressSize
            /\ o.src <= 8 * AddressSize[o.family] /\ o.scope <= 8 * AddressSize[o.family]

PutOption(type, o) ==
  CASE type = ECS -> PutUint(o.family, 2) \o <<o.src, o.scope>> \o o.address
    [] type = COOKIE -> o.client \o o.server
    [] type = EDE -> PutUint(o.code, 2) \o o.text
    [] type = REPORTCHANNEL -> PutName(o)
    [] OTHER -> o
PutOptions(os) ==
  Cat([i \in DOMAIN os |-> PutUint(os[i][1], 2) \o PutCounted(PutOption(os[i][1], os[i][2]), 2)])

\* Text is UTF-8 (here, of one octet or of two), with or without a zero.
Utf8(b) == \A i \in DOMAIN b : \/ b[i] < 128
                               \/ b[i] \in 194..223 /\ i < Len(b) /\ b[i + 1] \in 128..191
                               \/ b[i] \in 128..191 /\ i > 1 /\ b[i - 1] \in 194..223
WithoutZero(b) == IF b # <<>> /\ Last(b) = 0 THEN Front(b) ELSE b
GetEcs(b) ==
  LET o == [family |-> Number(SubSeq(b, 1, 2)), src |-> b[3], scope |-> b[4],
            address |-> Masked(SubSeq(b, 5, Len(b)), b[3])]
  IN IF Len(b) >= 4 /\ Len(b) = 4 + Up(b[3]) /\ EcsOK(o) THEN Got(o, 1) ELSE FormError
GetOption(type, b) ==
  CASE type = ECS -> GetEcs(b)
    [] type = COOKIE -> LET o == [client |-> SubSeq(b, 1, 8), server |-> SubSeq(b, 9, Len(b))]
                        IN IF Len(b) >= 8 /\ CookieOK(o.client, o.server) THEN Got(o, 1) ELSE FormError
    [] type = EDE -> IF Len(b) >= 2 /\ Utf8(WithoutZero(SubSeq(b, 3, Len(b))))
                     THEN Got([code |-> Number(SubSeq(b, 1, 2)),
                               text |-> WithoutZero(SubSeq(b, 3, Len(b)))], 1)
                     ELSE FormError
    [] type = REPORTCHANNEL -> Then(GetName(b, 1), LAMBDA n, after : IF after = Len(b) + 1 THEN Got(n, after) ELSE FormError)
    [] OTHER -> Got(b, 1)
RECURSIVE GetOptions(_, _, _)
GetOptions(w, at, soFar) ==
  IF at > Len(w) THEN Got(soFar, at)
  ELSE Then(GetUint(w, at, 2), LAMBDA type, i :
         Then(GetCounted(w, i, 2), LAMBDA b, j :
           Then(GetOption(type, b),
                LAMBDA o, after : GetOptions(w, j, Append(soFar, <<type, o>>)))))

-----------------------------------------------------------------------------
(* The fields of every class. *)

Schema ==
  [AFSDB |-> AFSDB, AMTRELAY |-> AMTRELAY, AVC |-> AVC, CAA |-> CAA, CDNSKEY |-> CDNSKEY,
   CDS |-> CDS, CERT |-> CERT, CNAME |-> CNAME, CSYNC |-> CSYNC, DLV |-> DLV, DNAME |-> DNAME,
   DNSKEY |-> DNSKEY, DS |-> DS, EUI48 |-> EUI48, EUI64 |-> EUI64, GPOS |-> GPOS,
   HINFO |-> HINFO, HIP |-> HIP, ISDN |-> ISDN, L32 |-> L32, L64 |-> L64, LOC |-> LOC, LP |-> LP,
   MX |-> MX, NID |-> NID, NINFO |-> NINFO, NS |-> NS, NSEC |-> NSEC, NSEC3 |-> NSEC3,
   NSEC3PARAM |-> NSEC3PARAM, OPENPGPKEY |-> OPENPGPKEY, OPT |-> OPT, PTR |-> PTR,
   RESINFO |-> RESINFO, RP |-> RP, RRSIG |-> RRSIG, RT |-> RT, SMIMEA |-> SMIMEA, SOA |-> SOA,
   SPF |-> SPF, SSHFP |-> SSHFP, TKEY |-> TKEY, TLSA |-> TLSA, TSIG |-> TSIG, TXT |-> TXT,
   URI |-> URI, WALLET |-> WALLET, X25 |-> X25, ZONEMD |-> ZONEMD, CHA |-> CHA, A |-> A,
   AAAA |-> AAAA, APL |-> APL, DHCID |-> DHCID, HTTPS |-> HTTPS, IPSECKEY |-> IPSECKEY, KX |-> KX,
   NAPTR |-> NAPTR, NSAP |-> NSAP, NSAP_PTR |-> NSAP_PTR, PX |-> PX, SRV |-> SRV, SVCB |-> SVCB,
   WKS |-> WKS, UNKNOWN |-> GenericRdata]
Classes == DOMAIN Schema
=============================================================================
