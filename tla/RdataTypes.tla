----------------------------- MODULE RdataTypes -----------------------------
(***************************************************************************)
(* The rdata types of dns/rdtypes: the fields of each class, and the fields *)
(* that one class has to itself.  Fields that depend on the fields before   *)
(* them (a gateway, on its type) take those as so_far.                      *)
(***************************************************************************)
EXTENDS RdataFields

NameCC == Name(TRUE, TRUE)          \* compressed, and lowered
NameUC == Name(FALSE, TRUE)         \* only lowered
NameUU == Name(FALSE, FALSE)        \* neither
NameCU == Name(TRUE, FALSE)

\* A type of a bitmap, a gateway after its type, and so on: fields of a
\* kind of their own.
Special(k) == [k |-> k]

-----------------------------------------------------------------------------
(* Bases, which several types share. *)

NSBase == <<NameCC>>
UncompressedNS == <<NameUU>>
MXBase == <<U16, NameCC>>
UncompressedMX == <<U16, NameUU>>
UncompressedDowncasingMX == <<U16, NameUC>>
TXTBase == <<Many(Counted(1, "bytes"), 1)>>
DNSKEYBase == <<U16, U8, U8, Rest("b64")>>
TLSABase == <<U8, U8, U8, Rest("hex")>>
EUIBase(n) == <<Fixed(n)>>
DSLengths == 1 :> 20 @@ 2 :> 32 @@ 3 :> 32 @@ 4 :> 48
DSBase(lengths) == <<U16, U8, Digest(lengths)>>
SVCBBase == <<U16, NameUU, Special("params")>>
-----------------------------------------------------------------------------
(* The types of every class. *)

AFSDB == UncompressedDowncasingMX
AMTRELAY == <<U8, Special("relaytype"), Special("gateway")>>
AVC == TXTBase
CAA == <<U8, Counted(1, "word"), Rest("string")>>
CDNSKEY == DNSKEYBase
CDS == DSBase(DSLengths @@ 0 :> 1)
CERT == <<U16, U16, U8, Rest("b64")>>
CNAME == NSBase
CSYNC == <<U32, U16, Special("bitmap")>>
DLV == DSBase(DSLengths)
DNAME == <<NameUC>>
DNSKEY == DNSKEYBase
DS == DSBase(DSLengths)
EUI48 == EUIBase(6)
EUI64 == EUIBase(8)
GPOS == <<Counted(1, "word"), Counted(1, "word"), Counted(1, "word")>>
HINFO == <<Quoted, Quoted>>
HIP == <<Special("hip")>>
ISDN == <<Quoted, Optional>>
L32 == <<U16, Fixed(4)>>
L64 == <<U16, Fixed(8)>>
LOC == <<Special("loc")>>
LP == <<U16, NameCC>>
MX == MXBase
NID == <<U16, Fixed(8)>>
NINFO == TXTBase
NS == NSBase
NSEC == <<NameUU, Special("bitmap")>>
NSEC3 == <<U8, U8, U16, Counted(1, "salt"), Counted(1, "b32"), Special("bitmap")>>
NSEC3PARAM == <<U8, U8, U16, Counted(1, "salt")>>
OPENPGPKEY == <<Rest("b64")>>
OPT == <<Special("options")>>
PTR == NSBase
RESINFO == TXTBase
RP == <<NameUC, NameUC>>
RRSIG == <<U16, U8, U8, U32, U32, U32, U16, NameUC, Rest("b64")>>
RT == UncompressedDowncasingMX
SMIMEA == TLSABase
SOA == <<NameCC, NameCC, U32, U32, U32, U32, U32>>
SPF == TXTBase
SSHFP == <<U8, U8, Rest("hex")>>
TKEY == <<NameCU, U32, U32, U16, U16, Counted(2, "b64"), Counted(2, "b64opt")>>
TLSA == TLSABase
\* An rcode: no more than its extension in an OPT record has room for.
TSIGError == Bounded(4095, 2)
TSIG == <<NameUU, U48, U16, Counted(2, "sized"), U16, TSIGError, Counted(2, "sizedopt")>>
TXT == TXTBase
URI == <<U16, U16, Rest("raw")>>
WALLET == TXTBase
X25 == <<Quoted>>
ZONEMDLengths == 1 :> 48 @@ 2 :> 64
ZONEMD == <<U32, U8, Digest(ZONEMDLengths)>>

(* The types of class CH and of class IN. *)
CHA == <<NameCC, U16>>
A == <<Fixed(4)>>
AAAA == <<Fixed(16)>>
APL == <<Special("prefixes")>>
DHCID == <<Rest("b64")>>
HTTPS == SVCBBase
IPSECKEY == <<U8, U8, U8, Special("gateway"), Rest("b64")>>
KX == UncompressedDowncasingMX
NAPTR == <<U16, U16, Quoted, Quoted, Quoted, NameCC>>
NSAP == <<Rest("0x")>>
NSAP_PTR == UncompressedNS
PX == <<U16, NameUC, NameUC>>
SRV == <<U16, U16, U16, NameCC>>
SVCB == SVCBBase
WKS == <<Fixed(4), U8, Special("ports")>>

\* What a type nobody knows is: its octets.
GenericRdata == <<Rest("generic")>>

-----------------------------------------------------------------------------
(* Bitmaps of types: windows of 256 types, each of 1 to 32 octets. *)

RECURSIVE GetWindows(_, _, _)
GetWindows(w, at, sofar) ==
  IF at > Len(w) THEN Got(sofar, at)
  ELSE Then(GetUint(w, at, 1), LAMBDA n, i :
         Then(GetCounted(w, i, 1), LAMBDA b, j : GetWindows(w, j, Append(sofar, <<n, b>>))))
PutWindows(v) == Cat([i \in DOMAIN v |-> <<v[i][1]>> \o PutCounted(v[i][2], 1)])
WindowsOK(v) ==
  /\ \A i \in DOMAIN v : Len(v[i][2]) \in 1..32
  /\ \A i \in 2..Len(v) : v[i - 1][1] < v[i][1]

\* Bit j of an octet, from the left.
Bit(o, j) == (o \div (2 ^ (7 - j))) % 2 = 1
BitsOf(b) == {8 * (i - 1) + j : i \in DOMAIN b, j \in 0..7} \cap
             {n \in 0..(8 * Len(b) - 1) : Bit(b[n \div 8 + 1], n % 8)}
\* The first n octets of the bitmap whose set bits are S, and as many octets
\* as S needs.
FirstOctets(S, n) ==
  LET One(i, j) == IF 8 * (i - 1) + j \in S THEN 2 ^ (7 - j) ELSE 0
  IN [i \in 1..n |-> One(i, 0) + One(i, 1) + One(i, 2) + One(i, 3)
                        + One(i, 4) + One(i, 5) + One(i, 6) + One(i, 7)]
Shortest(S) ==
  IF S = {} THEN <<>> ELSE FirstOctets(S, (CHOOSE m \in S : \A n \in S : n <= m) \div 8 + 1)

SayBits(b, t, base) ==
  LET bits == SelectSeq([n \in 1..(8 * Len(b)) |-> n - 1], LAMBDA n : n \in BitsOf(b))
  IN [j \in DOMAIN bits |-> [t |-> t, v |-> base + bits[j]]]
SayTypes(v) == Cat([i \in DOMAIN v |-> SayBits(v[i][2], "type", 256 * v[i][1])])

\* Bitmap.from_rdtypes(): the types in order, a window closed when a type of
\* another one comes.
Closed(s) == IF s.octets = 0 THEN s.windows
             ELSE Append(s.windows, <<s.window, FirstOctets(s.bits, s.octets)>>)
AddType(s, t) ==
  LET moved == IF t \div 256 = s.window THEN s
               ELSE [s EXCEPT !.windows = Closed(s), !.window = t \div 256, !.bits = {}]
  IN IF t = s.prior THEN s
     ELSE [moved EXCEPT !.prior = t, !.octets = (t % 256) \div 8 + 1,
                        !.bits = @ \cup {t % 256}]
FromRdtypes(types) ==
  Closed(FoldLeft(AddType, [window |-> 0, octets |-> 0, prior |-> 0, bits |-> {}, windows |-> <<>>],
                  SortSeq(types, <=)))
HearTypes(ts) ==
  IF \A i \in DOMAIN ts : ts[i].t = "type" /\ ts[i].v # 0
  THEN Heard(FromRdtypes([i \in DOMAIN ts |-> ts[i].v]), <<>>) ELSE SyntaxError

\* The ports of a WKS record are a bitmap that is read with every octet down
\* to the last that is not zero.
SayPorts(v) == SayBits(v, "int", 0)
HearPorts(ts) ==
  IF \A i \in DOMAIN ts : ts[i].t = "int"
  THEN Heard(Shortest({ts[i].v : i \in DOMAIN ts}), <<>>) ELSE SyntaxError
=============================================================================
