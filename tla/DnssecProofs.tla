---------------------------- MODULE DnssecProofs ----------------------------
(***************************************************************************)
(* Proofs about Dnssec, for every zone, set of keys and order of edits and *)
(* calls.                                                                  *)
(***************************************************************************)
EXTENDS Dnssec, SequenceTheorems, TLAPS

-----------------------------------------------------------------------------
(* The strengthening of SigningIsSound                                      *)

\* What holds of every zone that there is.
ZoneOk(z) ==
  /\ Key(Apex, "SOA") \in DOMAIN z
  /\ \A k \in DOMAIN z : IsKey(k)
  /\ \A j, k \in DOMAIN z : ~Clash(j, k)

\* Every signature is one that sign() returned for a key of a call,
IsMade(m) ==
  \E call \in Signings :
    /\ Expiration(call) # NoValue /\ m.name \in Seq(Int)
    /\ \E key \in call.keys :
         m.sig = Sign([name |-> m.name, type |-> m.type, ttl |-> m.sig.original_ttl,
                       rdatas |-> m.rdatas], key, call)

\* and those in a zone are among them.
HasMade(z, all) ==
  \A k \in DOMAIN z : k.type = "RRSIG" => \A sig \in z[k].rdatas : \E m \in all : m.sig = sig

ZonesInv ==
  /\ ZoneOk(zone) /\ ZoneOk(draft)
  /\ HasMade(zone, signatures) /\ HasMade(draft, signatures)
  /\ \A m \in signatures : IsMade(m)
  /\ at = "closed" => draft = zone
  /\ at \in {"closed", "open", "next", "node"}

\* The loop of _sign_zone_nsec(): the names it has been at, and those of them
\* that are secure, but for the one it is at.
Visited == Names(draft) \ signer.left
Secure == (Visited \cap Authentic(draft)) \ {signer.name}
Position == IF at = "node" THEN signer.name ELSE signer.last_secure

SignerOk ==
  /\ signer = [call |-> signer.call, own |-> signer.own, before |-> signer.before,
               left |-> signer.left, name |-> signer.name, todo |-> signer.todo,
               delegation |-> signer.delegation, last_secure |-> signer.last_secure]
  /\ signer.call \in Signings
  /\ signer.left \subseteq Names(draft)
  /\ at = "node" => signer.name \in Visited \cap Authentic(draft)
  /\ at = "next" => signer.name = NoValue /\ signer.todo = {}

\* It goes on in order,
InOrder ==
  /\ \A m \in Visited, n \in signer.left : Before(m, n)
  /\ at = "node" => \A n \in Visited \ {signer.name} : Before(n, signer.name)
  /\ IF Secure = {} THEN signer.last_secure = NoValue
     ELSE signer.last_secure \in Secure /\ \A n \in Secure \ {signer.last_secure} : Before(n, signer.last_secure)

\* and knows the delegation that the names to come may be below.
Delegated ==
  /\ signer.delegation = IF Position = NoValue THEN NoValue ELSE DelegationAt(draft, Position)
  /\ \A m \in Visited, n \in signer.left :
       IsDelegation(draft, m) /\ IsSubdomainOf(n, m) => IsBelow(n)
  /\ at = "next" /\ signer.last_secure = Apex => Visited = {Apex}

\* What is done.
Linked(n) == n \in Secure \ {signer.last_secure}
IsDone(k) ==
  /\ IsAuthentic(draft, k) /\ k.name \in Visited /\ k \notin signer.todo
  /\ k.type = "NSEC" /\ IsDelegation(draft, k.name) => Linked(k.name)
HasSigs(z, k, call) ==
  \A key \in KeysFor(k.type, call.keys) :
    /\ SigKey(k.name, k.type) \in DOMAIN z
    /\ \E sig \in z[SigKey(k.name, k.type)].rdatas :
         sig = Sign([name |-> k.name, type |-> k.type, ttl |-> sig.original_ttl, rdatas |-> z[k].rdatas],
                    key, call)
Done ==
  /\ \A n \in Names(draft) : Linked(n) => IsDenied(draft, n)
  /\ \A k \in DOMAIN draft : IsDone(k) => HasSigs(draft, k, signer.call)
  /\ \A k \in signer.todo :
       k \in DOMAIN draft /\ k.name = signer.name /\ IsAuthentic(draft, k)

Untouched ==
  /\ DOMAIN signer.before \subseteq DOMAIN draft
  /\ \A k \in DOMAIN draft :
       IsOfSigning(draft, k) \/ (k \in DOMAIN signer.before /\ draft[k] = signer.before[k])

LoopInv == SignerOk /\ InOrder /\ Delegated /\ Done /\ Untouched
DnssecInv == ZonesInv /\ (at \in {"next", "node"} => LoopInv)

-----------------------------------------------------------------------------
(* Names                                                                    *)

\* The order is strict, and the names below one follow it without a gap.
LEMMA BeforeIsStrict ==
  ASSUME NEW n \in Seq(Int), NEW m \in Seq(Int), Before(n, m)
  PROVE  n # m /\ ~Before(m, n)
<1> Len(n) \in Nat /\ Len(m) \in Nat /\ n \in [1 .. Len(n) -> Int] /\ m \in [1 .. Len(m) -> Int]
  BY LenProperties
<1>1. CASE n # m /\ IsSubdomainOf(m, n)
  <2>1. SUFFICES ASSUME Before(m, n) PROVE FALSE
    BY <1>1
  <2>2. CASE IsSubdomainOf(n, m)
    BY <1>1, <2>2 DEF IsSubdomainOf
  <2>3. CASE \E i \in 1 .. Len(m) : i <= Len(n) /\ m[i] < n[i]
    BY <1>1, <2>3 DEF IsSubdomainOf
  <2> QED BY <2>1, <2>2, <2>3 DEF Before
<1>2. ASSUME NEW i \in 1 .. Len(n), i <= Len(m), n[i] < m[i], \A j \in 1 .. i - 1 : n[j] = m[j]
      PROVE  n # m /\ ~Before(m, n)
  <2>1. n # m
    BY <1>2
  <2>2. SUFFICES ASSUME Before(m, n) PROVE FALSE
    BY <2>1
  <2>3. CASE IsSubdomainOf(n, m)
    BY <1>2, <2>3 DEF IsSubdomainOf
  <2>4. ASSUME NEW k \in 1 .. Len(m), k <= Len(n), m[k] < n[k], \A j \in 1 .. k - 1 : m[j] = n[j]
        PROVE  FALSE
    <3>1. k < i => n[k] = m[k]
      BY <1>2, <2>4
    <3>2. i < k => n[i] = m[i]
      BY <1>2, <2>4
    <3> QED BY <1>2, <2>4, <3>1, <3>2
  <2> QED BY <2>2, <2>3, <2>4 DEF Before
<1> QED BY <1>1, <1>2 DEF Before

LEMMA NamesBelowAreTogether ==
  ASSUME NEW d \in Seq(Int), NEW x \in Seq(Int), NEW n \in Seq(Int),
         Before(d, x), Before(x, n), IsSubdomainOf(n, d)
  PROVE  IsSubdomainOf(x, d)
<1> Len(n) \in Nat /\ Len(d) \in Nat /\ Len(x) \in Nat
    /\ n \in [1 .. Len(n) -> Int] /\ d \in [1 .. Len(d) -> Int] /\ x \in [1 .. Len(x) -> Int]
  BY LenProperties
<1>1. ASSUME NEW i \in 1 .. Len(d), i <= Len(x), d[i] < x[i], \A j \in 1 .. i - 1 : d[j] = x[j]
      PROVE  FALSE
  <2>1. \A j \in 1 .. i : n[j] = d[j] /\ j <= Len(n)
    BY DEF IsSubdomainOf
  <2>2. CASE IsSubdomainOf(n, x)
    BY <1>1, <2>1, <2>2 DEF IsSubdomainOf
  <2>3. ASSUME NEW k \in 1 .. Len(x), k <= Len(n), x[k] < n[k], \A j \in 1 .. k - 1 : x[j] = n[j]
        PROVE  FALSE
    <3>1. k < i => x[k] = n[k]
      BY <1>1, <2>1, <2>3
    <3>2. i < k => x[i] = n[i]
      BY <1>1, <2>3
    <3>3. n[i] = d[i]
      BY <2>1
    <3> QED BY <1>1, <2>3, <3>1, <3>2, <3>3
  <2> QED BY <2>2, <2>3 DEF Before
<1> QED BY <1>1 DEF Before

LEMMA BelowIsTransitive ==
  ASSUME NEW d \in Seq(Int), NEW x \in Seq(Int), NEW n \in Seq(Int),
         IsSubdomainOf(n, x), IsSubdomainOf(x, d)
  PROVE  IsSubdomainOf(n, d)
<1> Len(n) \in Nat /\ Len(d) \in Nat /\ Len(x) \in Nat
  BY LenProperties
<1> QED BY DEF IsSubdomainOf

\* The names below one come after it, and all are below the apex.
LEMMA ApexIsFirst ==
  ASSUME NEW n \in Seq(Int)
  PROVE  Apex \in Seq(Int) /\ ~Before(n, Apex) /\ (IsSubdomainOf(Apex, n) => n = Apex)
<1> Len(n) \in Nat /\ Len(Apex) = 0 /\ Apex \in Seq(Int)
  BY LenProperties DEF Apex
<1>1. IsSubdomainOf(Apex, n) => n = Apex
  <2> SUFFICES ASSUME IsSubdomainOf(Apex, n) PROVE n = Apex
    OBVIOUS
  <2>1. Len(n) = 0
    BY DEF IsSubdomainOf
  <2> QED BY <2>1, EmptySeq DEF Apex
<1> QED BY <1>1 DEF Before

-----------------------------------------------------------------------------
(* Signatures                                                               *)

LEMMA LabelsSayTheWildcard ==
  ASSUME NEW n \in Seq(Int), NEW o \in Seq(Int)
  PROVE  /\ LabelCount(n) \in Int /\ LabelsFit(n, LabelCount(n))
         /\ StandsFor(n, o) <=> /\ LabelsFit(o, LabelCount(n))
                                /\ Expanded(o, LabelCount(n)) = Expanded(n, LabelCount(n))
<1> PICK L : L = LabelCount(n)
  OBVIOUS
<1> Len(n) \in Nat /\ Len(o) \in Nat /\ n \in [1 .. Len(n) -> Int] /\ o \in [1 .. Len(o) -> Int]
  BY LenProperties
<1>1. (IsWild(n) => L = Len(n)) /\ (~IsWild(n) => L = Len(n) + 1) /\ L \in Nat
  BY DEF LabelCount, FullLength, OriginSize
<1>a. ASSUME NEW m \in Seq(Int)
      PROVE  /\ LabelsFit(m, L) <=> (IsWild(m) => L = Len(m)) /\ L <= Len(m) + 1
             /\ L < Len(m) + 1 => Expanded(m, L) = Append(SubSeq(m, 1, L - 1), 0)
             /\ L >= Len(m) + 1 => Expanded(m, L) = m
  <2>1. Len(m) \in Nat /\ FullLength(m) = Len(m) + 2 /\ L + 1 - OriginSize = L - 1
    BY <1>1, LenProperties DEF FullLength, OriginSize
  <2>2. FullLength(m) - 2 = Len(m) /\ FullLength(m) - 1 = Len(m) + 1
    BY <2>1
  <2> QED BY <2>1, <2>2, <1>1 DEF LabelsFit, Expanded
<1>b. /\ LabelsFit(o, L) <=> (IsWild(o) => L = Len(o)) /\ L <= Len(o) + 1
      /\ L < Len(o) + 1 => Expanded(o, L) = Append(SubSeq(o, 1, L - 1), 0)
      /\ L >= Len(o) + 1 => Expanded(o, L) = o
  BY <1>a
<1>2. LabelsFit(n, L)
  BY <1>1, <1>a
<1>3. IsWild(n) => Len(n) >= 1 /\ n[Len(n)] = 0
  BY EmptySeq DEF IsWild
<1>4. ASSUME NEW m \in Seq(Int), NEW k \in Nat, k <= Len(m)
      PROVE  /\ Append(SubSeq(m, 1, k), 0) \in Seq(Int)
             /\ Len(Append(SubSeq(m, 1, k), 0)) = k + 1
             /\ \A i \in 1 .. k : Append(SubSeq(m, 1, k), 0)[i] = m[i]
             /\ Append(SubSeq(m, 1, k), 0)[k + 1] = 0
  <2>1. SubSeq(m, 1, k) \in Seq(Int) /\ Len(SubSeq(m, 1, k)) = k
        /\ \A i \in 1 .. k : SubSeq(m, 1, k)[i] = m[i]
    BY <1>4, LenProperties, SubSeqProperties
  <2> QED BY <2>1, AppendProperties
<1>5. ASSUME NEW m \in Seq(Int), NEW k \in Nat, k + 1 = Len(m), m[Len(m)] = 0
      PROVE  Append(SubSeq(m, 1, k), 0) = m
  <2>1. Append(SubSeq(m, 1, k), 0) \in Seq(Int) /\ Len(Append(SubSeq(m, 1, k), 0)) = Len(m)
    BY <1>4, <1>5
  <2>2. \A i \in 1 .. Len(m) : Append(SubSeq(m, 1, k), 0)[i] = m[i]
    BY <1>4, <1>5
  <2> QED BY <2>1, <2>2, SeqEqual
<1>6. Expanded(n, L) = n
  <2>1. CASE IsWild(n)
    <3>1. L = Len(n)
      BY <1>1, <2>1
    <3>2. Expanded(n, L) = Append(SubSeq(n, 1, L - 1), 0)
      BY <3>1, <1>a
    <3>3. L - 1 \in Nat /\ (L - 1) + 1 = Len(n) /\ n[Len(n)] = 0
      BY <3>1, <2>1, <1>3
    <3> QED BY <3>2, <3>3, <1>5
  <2>2. CASE ~IsWild(n)
    <3>1. L = Len(n) + 1
      BY <1>1, <2>2
    <3> QED BY <3>1, <1>a
  <2> QED BY <2>1, <2>2
<1> DEFINE Fits == LabelsFit(o, L) /\ Expanded(o, L) = n
<1>7. ASSUME ~IsWild(n) PROVE StandsFor(n, o) <=> Fits
  <2>1. ASSUME L < Len(o) + 1 PROVE Expanded(o, L) # n
    <3>0. L = Len(n) + 1
      BY <1>1, <1>7
    <3>1. L - 1 \in Nat /\ L - 1 <= Len(o) /\ Len(n) = L - 1
      BY <3>0, <2>1
    <3>2. Expanded(o, L) = Append(SubSeq(o, 1, L - 1), 0)
      BY <1>b, <2>1
    <3>3. Len(Expanded(o, L)) = (L - 1) + 1
      BY <3>1, <3>2, <1>4
    <3> QED BY <3>1, <3>3
  <2>2. ASSUME LabelsFit(o, L), Expanded(o, L) = n PROVE o = n
    <3>1. L >= Len(o) + 1
      BY <1>1, <2>1, <2>2
    <3> QED BY <3>1, <1>b, <2>2
  <2>3. StandsFor(n, o) <=> n = o
    BY <1>7 DEF StandsFor
  <2> QED BY <1>2, <1>6, <2>2, <2>3
<1>8. ASSUME IsWild(n) PROVE StandsFor(n, o) <=> Fits
  <2>1. L = Len(n) /\ Len(n) >= 1 /\ n[Len(n)] = 0
    BY <1>1, <1>3, <1>8
  <2>2. CASE IsWild(o)
    <3>1. ASSUME LabelsFit(o, L), Expanded(o, L) = n PROVE o = n
      <4>1. L = Len(o) /\ Len(o) >= 1
        BY <2>1, <2>2, <3>1, <1>b
      <4>2. Expanded(o, L) = Append(SubSeq(o, 1, Len(o) - 1), 0)
        BY <4>1, <1>b
      <4>3. o[Len(o)] = 0 /\ Len(o) - 1 \in Nat /\ (Len(o) - 1) + 1 = Len(o)
        BY <2>2, <4>1 DEF IsWild
      <4>4. Append(SubSeq(o, 1, Len(o) - 1), 0) = o
        BY <4>3, <1>5
      <4> QED BY <4>2, <4>4, <3>1
    <3>2. StandsFor(n, o) <=> n = o
      BY <2>2 DEF StandsFor
    <3> QED BY <3>1, <3>2, <1>2, <1>6
  <2>3. CASE ~IsWild(o)
    <3>1. Front(n) \in Seq(Int) /\ Len(Front(n)) = Len(n) - 1 /\ \A i \in 1 .. Len(n) - 1 : Front(n)[i] = n[i]
      BY <2>1, LenProperties, SubSeqProperties DEF Front
    <3>2. CASE L < Len(o) + 1
      <4>1. Len(n) <= Len(o) /\ LabelsFit(o, L) /\ o # n
        BY <2>1, <2>3, <3>2, <1>8, <1>b
      <4>2. Expanded(o, L) = Append(SubSeq(o, 1, Len(n) - 1), 0)
        BY <2>1, <3>2, <1>b
      <4>3. /\ Expanded(o, L) \in Seq(Int) /\ Len(Expanded(o, L)) = Len(n)
            /\ \A i \in 1 .. Len(n) - 1 : Expanded(o, L)[i] = o[i]
            /\ Expanded(o, L)[Len(n)] = 0
        <5>1. Len(n) - 1 \in Nat /\ Len(n) - 1 <= Len(o) /\ (Len(n) - 1) + 1 = Len(n)
          BY <2>1, <4>1
        <5>2. PICK j : j = Len(n) - 1
          OBVIOUS
        <5>3. /\ Append(SubSeq(o, 1, j), 0) \in Seq(Int) /\ Len(Append(SubSeq(o, 1, j), 0)) = j + 1
              /\ \A i \in 1 .. j : Append(SubSeq(o, 1, j), 0)[i] = o[i]
              /\ Append(SubSeq(o, 1, j), 0)[j + 1] = 0
          BY <5>1, <5>2, <1>4
        <5>4. Expanded(o, L) = Append(SubSeq(o, 1, j), 0) /\ j + 1 = Len(n)
          BY <4>2, <5>1, <5>2
        <5> QED BY <5>2, <5>3, <5>4
      <4>4. IsSubdomainOf(o, Front(n)) <=> \A i \in 1 .. Len(n) - 1 : o[i] = n[i]
        BY <3>1, <4>1, SMTT(30) DEF IsSubdomainOf
      <4>5. Expanded(o, L) = n <=> \A i \in 1 .. Len(n) - 1 : o[i] = n[i]
        <5>1. ASSUME \A i \in 1 .. Len(n) - 1 : o[i] = n[i]
              PROVE  Expanded(o, L) = n
          <6>1. \A i \in 1 .. Len(n) : Expanded(o, L)[i] = n[i]
            BY <4>3, <5>1, <2>1, SMTT(30)
          <6> QED BY <6>1, <4>3, SeqEqual
        <5> QED BY <5>1, <4>3
      <4>6. StandsFor(n, o) <=> IsSubdomainOf(o, Front(n))
        BY <1>8, <2>3, <4>1 DEF StandsFor
      <4> QED BY <1>6, <4>1, <4>4, <4>5, <4>6
    <3>3. CASE ~(L < Len(o) + 1)
      <4>1. Len(n) > Len(o)
        BY <2>1, <3>3
      <4>2. Expanded(o, L) = o /\ o # n
        BY <3>3, <2>1, <2>3, <1>8, <1>b
      <4>3. ~StandsFor(n, o)
        BY <4>1, <4>2 DEF StandsFor
      <4> QED BY <4>2, <4>3, <1>6
    <3> QED BY <3>2, <3>3
  <2> QED BY <2>2, <2>3
<1>9. StandsFor(n, o) <=> Fits
  BY <1>7, <1>8
<1> QED BY <1>1, <1>2, <1>6, <1>9

\* What is in a signature
LEMMA SignatureIs ==
  ASSUME NEW rrset, NEW key, NEW call, NEW sig, sig = Sign(rrset, key, call)
  PROVE  /\ sig.algorithm = key.algorithm /\ sig.labels = LabelCount(rrset.name)
         /\ sig.expiration = Expiration(call) /\ sig.inception = call.inception
         /\ sig.key_tag = key.tag /\ sig.signature.key = key.id
         /\ sig.original_ttl = rrset.ttl
         /\ sig.signature.data = SignatureData(rrset, sig)
         /\ sig.signature.data.rrsig = Unsigned(sig)
<1>1. /\ sig.algorithm = key.algorithm /\ sig.labels = LabelCount(rrset.name)
      /\ sig.expiration = Expiration(call) /\ sig.inception = call.inception
      /\ sig.key_tag = key.tag /\ sig.original_ttl = rrset.ttl
      /\ sig.signature = [key |-> key.id, data |-> SignatureData(rrset, Template(rrset, key, call))]
  BY DEF Sign, Template
<1>2. Unsigned(sig) = Template(rrset, key, call) /\ Unsigned(Template(rrset, key, call)) = Template(rrset, key, call)
  <2>1. sig = [Template(rrset, key, call) EXCEPT !.signature = sig.signature]
    BY DEF Sign, Template
  <2> QED BY <2>1 DEF Template, Unsigned
<1>3. SignatureData(rrset, sig) = SignatureData(rrset, Template(rrset, key, call))
  BY <1>1, <1>2 DEF SignatureData, Template
<1>4. SignatureData(rrset, sig).rrsig = Unsigned(sig)
  BY DEF SignatureData
<1> QED BY <1>1, <1>3, <1>4

\* and for what it stands.
LEMMA SignatureStandsFor ==
  ASSUME NEW own, own.name \in Seq(Int), NEW key, NEW call, NEW sig, sig = Sign(own, key, call),
         NEW rrset, rrset.name \in Seq(Int)
  PROVE  LabelsFit(rrset.name, sig.labels) /\ sig.signature.data = SignatureData(rrset, sig)
           <=> StandsFor(own.name, rrset.name) /\ rrset.type = own.type /\ rrset.rdatas = own.rdatas
<1>1. sig.labels = LabelCount(own.name) /\ sig.signature.data = SignatureData(own, sig)
  BY SignatureIs
<1>2. SignatureData(own, sig) = SignatureData(rrset, sig)
        <=> /\ Expanded(own.name, LabelCount(own.name)) = Expanded(rrset.name, LabelCount(own.name))
            /\ own.type = rrset.type /\ own.rdatas = rrset.rdatas
  BY <1>1 DEF SignatureData
<1> QED BY <1>1, <1>2, LabelsSayTheWildcard

-----------------------------------------------------------------------------
(* Rdatasets that are added to a zone                                       *)

Grows(z, y, k) ==
  /\ DOMAIN z \subseteq DOMAIN y /\ DOMAIN y \subseteq DOMAIN z \cup {k}
  /\ \A j \in DOMAIN z \ {k} : y[j] = z[j]

LEMMA ClashIsMutual ==
  ASSUME NEW j, NEW k
  PROVE  Clash(j, k) <=> Clash(k, j)
BY DEF Clash

LEMMA NsecClashesWithNothing ==
  ASSUME NEW j, NEW k, k.type = "NSEC"
  PROVE  ~Clash(j, k) /\ ~Clash(k, j)
<1>1. Classify(k) = "NEUTRAL"
  BY DEF Classify
<1> QED BY <1>1 DEF Clash

LEMMA SignatureClashesAsItsRRset ==
  ASSUME NEW j, NEW k, k.type # "RRSIG"
  PROVE  Clash(j, SigKey(k.name, k.type)) <=> Clash(j, k)
<1>1. Classify(SigKey(k.name, k.type)) = Classify(k) /\ SigKey(k.name, k.type).name = k.name
  BY DEF Classify, SigKey
<1> QED BY <1>1 DEF Clash

LEMMA AddingAdds ==
  ASSUME NEW z, NEW k, NEW ttl, NEW rdatas, \A j \in DOMAIN z : ~Clash(j, k)
  PROVE  /\ Grows(z, AddRdatas(z, k, ttl, rdatas), k)
         /\ k \in DOMAIN AddRdatas(z, k, ttl, rdatas)
         /\ AddRdatas(z, k, ttl, rdatas)[k].rdatas =
              (IF k \in DOMAIN z /\ k.type # "NSEC" THEN z[k].rdatas ELSE {}) \cup rdatas
<1> PICK new : new = IF k \notin DOMAIN z THEN [ttl |-> ttl, rdatas |-> rdatas]
                     ELSE [ttl |-> Min({ttl, z[k].ttl}),
                           rdatas |-> (IF k.type = "NSEC" THEN {} ELSE z[k].rdatas) \cup rdatas]
  OBVIOUS
<1> PICK y : y = AddRdatas(z, k, ttl, rdatas)
  OBVIOUS
<1>1. y = [j \in {i \in DOMAIN z : ~Clash(i, k)} \cup {k} |-> IF j = k THEN new ELSE z[j]]
  BY DEF AddRdatas, Replace
<1>2. DOMAIN y = DOMAIN z \cup {k} /\ y[k] = new /\ \A j \in DOMAIN z \ {k} : y[j] = z[j]
  BY <1>1
<1>3. new.rdatas = (IF k \in DOMAIN z /\ k.type # "NSEC" THEN z[k].rdatas ELSE {}) \cup rdatas
  OBVIOUS
<1> QED BY <1>2, <1>3 DEF Grows

\* Without a new name or delegation the same names are secure.
LEMMA GrowingKeepsTheNames ==
  ASSUME NEW z, NEW y, NEW k, Grows(z, y, k), k.name \in Names(z), k.type # "NS"
  PROVE  /\ Names(y) = Names(z) /\ Authentic(y) = Authentic(z)
         /\ \A n : IsDelegation(y, n) <=> IsDelegation(z, n)
         /\ \A n : NextOf(y, n) = NextOf(z, n)
         /\ \A j : IsAuthentic(y, j) <=> IsAuthentic(z, j)
<1>1. Names(y) = Names(z)
  BY DEF Names, Grows
<1>2. ASSUME NEW n PROVE Key(n, "NS") \in DOMAIN y <=> Key(n, "NS") \in DOMAIN z
  <2>1. Key(n, "NS") # k
    BY DEF Key
  <2> QED BY <2>1 DEF Grows
<1>3. \A n : IsDelegation(y, n) <=> IsDelegation(z, n)
  BY <1>2 DEF IsDelegation
<1>4. \A n : IsOccluded(y, n) <=> IsOccluded(z, n)
  BY <1>1, <1>3 DEF IsOccluded
<1>5. Authentic(y) = Authentic(z)
  BY <1>1, <1>4 DEF Authentic
<1>6. \A n : NextOf(y, n) = NextOf(z, n)
  BY <1>5 DEF NextOf
<1>7. \A j : IsAuthentic(y, j) <=> IsAuthentic(z, j)
  BY <1>3, <1>5 DEF IsAuthentic
<1> QED BY <1>1, <1>3, <1>5, <1>6, <1>7

LEMMA GrowingKeepsZoneOk ==
  ASSUME NEW z, NEW y, NEW k, Grows(z, y, k), ZoneOk(z), IsKey(k), \A j \in DOMAIN z : ~Clash(j, k)
  PROVE  ZoneOk(y)
<1>1. ~Clash(k, k)
  BY DEF Clash
<1>2. ASSUME NEW i \in DOMAIN y, NEW j \in DOMAIN y PROVE ~Clash(i, j)
  BY <1>1, <1>2, ClashIsMutual DEF Grows, ZoneOk
<1> QED BY <1>2 DEF Grows, ZoneOk

\* What the signatures of an rrset are added to
LEMMA SigningAdds ==
  ASSUME NEW z, NEW rrset, NEW sigs, NEW k, k = SigKey(rrset.name, rrset.type),
         \A j \in DOMAIN z : ~Clash(j, k)
  PROVE  /\ Grows(z, Signed(z, rrset, sigs), k)
         /\ sigs # {} => k \in DOMAIN Signed(z, rrset, sigs)
         /\ k \in DOMAIN Signed(z, rrset, sigs) =>
              Signed(z, rrset, sigs)[k].rdatas = (IF k \in DOMAIN z THEN z[k].rdatas ELSE {}) \cup sigs
<1>1. CASE sigs = {}
  BY <1>1 DEF Signed, Grows
<1>2. CASE sigs # {}
  <2>1. Signed(z, rrset, sigs) = AddRdatas(z, k, rrset.ttl, sigs) /\ k.type = "RRSIG"
    BY <1>2 DEF Signed, SigKey
  <2> QED BY <2>1, AddingAdds
<1> QED BY <1>1, <1>2

LEMMA SigningKeepsZone ==
  ASSUME NEW z, NEW rrset, NEW sigs, NEW all, NEW k, k = SigKey(rrset.name, rrset.type),
         \A j \in DOMAIN z : ~Clash(j, k),
         ZoneOk(z), IsKey(k), HasMade(z, all)
  PROVE  ZoneOk(Signed(z, rrset, sigs)) /\ HasMade(Signed(z, rrset, sigs), all \cup Made(rrset, sigs))
<1> PICK y : y = Signed(z, rrset, sigs)
  OBVIOUS
<1>1. Grows(z, y, k) /\ (k \in DOMAIN y => y[k].rdatas = (IF k \in DOMAIN z THEN z[k].rdatas ELSE {}) \cup sigs)
  BY SigningAdds
<1>2. ZoneOk(y)
  BY <1>1, GrowingKeepsZoneOk
<1>3. ASSUME NEW sig \in sigs PROVE \E m \in Made(rrset, sigs) : m.sig = sig
  <2>1. PICK m : m = [name |-> rrset.name, type |-> rrset.type, rdatas |-> rrset.rdatas, sig |-> sig]
    OBVIOUS
  <2> QED BY <2>1 DEF Made
<1>4. ASSUME NEW j \in DOMAIN y, j.type = "RRSIG", NEW sig \in y[j].rdatas
      PROVE  \E m \in all \cup Made(rrset, sigs) : m.sig = sig
  <2>1. CASE j \in DOMAIN z /\ sig \in z[j].rdatas
    BY <2>1, <1>4 DEF HasMade
  <2>2. CASE j = k /\ sig \in sigs
    BY <2>2, <1>3
  <2> QED BY <1>1, <1>4, <2>1, <2>2 DEF Grows
<1> QED BY <1>2, <1>4 DEF HasMade

\* What sign() returns for one of the keys of a call is a signature of it.
LEMMA MadeAreOfCalls ==
  ASSUME NEW n \in Seq(Int), NEW type, NEW ttl, NEW rdatas, NEW call \in Signings,
         NEW keys \in SUBSET call.keys, MaySign(keys, call),
         NEW rrset, rrset = [name |-> n, type |-> type, ttl |-> ttl, rdatas |-> rdatas],
         NEW m \in Made(rrset, SigsBy(keys, rrset, call))
  PROVE  IsMade(m)
<1>1. PICK key \in keys : m = [name |-> n, type |-> type, rdatas |-> rdatas, sig |-> Sign(rrset, key, call)]
  BY DEF Made, SigsBy
<1>2. Expiration(call) # NoValue
  BY <1>1 DEF MaySign
<1>3. m.sig.original_ttl = ttl
  BY <1>1, SignatureIs
<1> QED BY <1>1, <1>2, <1>3 DEF IsMade

-----------------------------------------------------------------------------
(* Verdicts                                                                 *)

\* Whoever changes a signature makes it one of nobody.
LEMMA AlteredIsNobodys ==
  ASSUME NEW m, IsMade(m), NEW t \in Altered(m.sig)
  PROVE  t.signature.data.rrsig # Unsigned(t)
<1> PICK sig : sig = m.sig
  OBVIOUS
<1>0. PICK key, rrset : \E call \in Signings :
        Expiration(call) # NoValue /\ rrset.name \in Seq(Int) /\ sig = Sign(rrset, key, call)
  BY DEF IsMade
<1>1. PICK call \in Signings :
        Expiration(call) # NoValue /\ rrset.name \in Seq(Int) /\ sig = Sign(rrset, key, call)
  BY <1>0
<1>2. sig.expiration \in Int
  BY <1>1, SignatureIs, TimesAreNumbers DEF Expiration
<1>3. sig.labels \in Int
  BY <1>1, SignatureIs, LabelsSayTheWildcard
<1>4. sig.signature.data.rrsig = Unsigned(sig)
  BY <1>1, SignatureIs
<1>5. DOMAIN sig = {"covered", "algorithm", "labels", "original_ttl", "expiration", "inception",
                    "key_tag", "signature"}
  BY <1>1 DEF Sign, Template
<1>6. CASE t = [sig EXCEPT !.expiration = @ + 1]
  <2>1. t.signature = sig.signature /\ t.expiration # sig.expiration
        /\ "expiration" \in DOMAIN t
    BY <1>2, <1>5, <1>6
  <2>2. Unsigned(t).expiration = t.expiration /\ Unsigned(sig).expiration = sig.expiration
    BY <2>1, <1>5 DEF Unsigned
  <2> QED BY <2>1, <2>2, <1>4
<1>7. CASE t = [sig EXCEPT !.labels = @ + 1]
  <2>1. t.signature = sig.signature /\ t.labels # sig.labels
        /\ "labels" \in DOMAIN t
    BY <1>3, <1>5, <1>7
  <2>2. Unsigned(t).labels = t.labels /\ Unsigned(sig).labels = sig.labels
    BY <2>1, <1>5 DEF Unsigned
  <2> QED BY <2>1, <2>2, <1>4
<1> QED BY <1>6, <1>7 DEF Altered

LEMMA NobodysIsRejected ==
  ASSUME NEW t, t.signature.data.rrsig # Unsigned(t), NEW rrset, NEW keys, NEW now
  PROVE  ~ValidateRRsig(rrset, t, keys, now) /\ \A m : IsMade(m) => m.sig # t
<1>1. SignatureData(rrset, t).rrsig = Unsigned(t)
  BY DEF SignatureData
<1>2. \A key : ~Verifies(t, SignatureData(rrset, t), key)
  BY <1>1 DEF Verifies
<1>3. ASSUME NEW m, IsMade(m) PROVE m.sig # t
  BY <1>3, SignatureIs DEF IsMade
<1> QED BY <1>2, <1>3 DEF ValidateRRsig

LEMMA VerdictOnOne ==
  ASSUME NEW m, IsMade(m), NEW sig, sig = m.sig, NEW rrset, rrset.name \in Seq(Int),
         NEW keys \in Rings, NEW now
  PROVE  ValidateRRsig(rrset, sig, keys, now)
           <=> /\ StandsFor(m.name, rrset.name) /\ m.type = rrset.type /\ m.rdatas = rrset.rdatas
               /\ sig.inception <= now /\ now <= sig.expiration
               /\ \E key \in keys : key.id = sig.signature.key /\ Usable(key)
<1>0. PICK own : \E call \in Signings :
        /\ own \in call.keys /\ m.name \in Seq(Int)
        /\ sig = Sign([name |-> m.name, type |-> m.type, ttl |-> sig.original_ttl, rdatas |-> m.rdatas],
                    own, call)
  BY DEF IsMade
<1>1. PICK call \in Signings :
        /\ own \in call.keys /\ m.name \in Seq(Int)
        /\ sig = Sign([name |-> m.name, type |-> m.type, ttl |-> sig.original_ttl, rdatas |-> m.rdatas],
                    own, call)
  BY <1>0
<1>2. sig.algorithm = own.algorithm /\ sig.key_tag = own.tag /\ sig.signature.key = own.id
  BY <1>1, SignatureIs
<1>3. LabelsFit(rrset.name, sig.labels) /\ sig.signature.data = SignatureData(rrset, sig)
        <=> StandsFor(m.name, rrset.name) /\ rrset.type = m.type /\ rrset.rdatas = m.rdatas
  <2>1. PICK rr : rr = [name |-> m.name, type |-> m.type, ttl |-> sig.original_ttl, rdatas |-> m.rdatas]
    OBVIOUS
  <2>2. rr.name = m.name /\ rr.type = m.type /\ rr.rdatas = m.rdatas /\ sig = Sign(rr, own, call)
    BY <1>1, <2>1
  <2>3. rr.name \in Seq(Int)
    BY <1>1, <2>2
  <2>4. LabelsFit(rrset.name, sig.labels) /\ sig.signature.data = SignatureData(rrset, sig)
          <=> StandsFor(rr.name, rrset.name) /\ rrset.type = rr.type /\ rrset.rdatas = rr.rdatas
    BY <2>2, <2>3, SignatureStandsFor
  <2> QED BY <2>2, <2>4
<1>4. ASSUME NEW key \in keys, key.id = own.id PROVE key = own
  <2>1. own \in UNION ({c.keys : c \in Signings} \cup Rings)
    BY <1>1
  <2>2. key \in UNION ({c.keys : c \in Signings} \cup Rings)
    OBVIOUS
  <2> QED BY <2>1, <2>2, <1>4, IdsAreOfKeys
<1>5. ASSUME NEW key \in keys
      PROVE  key \in CandidateKeys(keys, sig) /\ OkToValidate(key) /\ Verifies(sig, SignatureData(rrset, sig), key)
               <=> key.id = sig.signature.key /\ Usable(key) /\ sig.signature.data = SignatureData(rrset, sig)
  BY <1>2, <1>4 DEF CandidateKeys, Verifies, Usable
<1>6. CandidateKeys(keys, sig) \subseteq keys
  BY DEF CandidateKeys
<1>7. (\E key \in CandidateKeys(keys, sig) : OkToValidate(key) /\ Verifies(sig, SignatureData(rrset, sig), key))
        <=> /\ sig.signature.data = SignatureData(rrset, sig)
            /\ \E key \in keys : key.id = sig.signature.key /\ Usable(key)
  BY <1>5, <1>6
<1> QED BY <1>3, <1>7, Zenon DEF ValidateRRsig

LEMMA VerdictOnMade ==
  ASSUME \A m \in signatures : IsMade(m), NEW rrset, rrset.name \in Seq(Int),
         NEW sigs, sigs.name = rrset.name, NEW keys \in Rings, NEW now,
         \A sig \in sigs.rdatas :
           (\E m \in signatures : m.sig = sig) \/ ~ValidateRRsig(rrset, sig, keys, now)
  PROVE  Validate(rrset, sigs, keys, now) <=> MayAccept(rrset, sigs, keys, now)
<1>1. ASSUME NEW m \in signatures
      PROVE  ValidateRRsig(rrset, m.sig, keys, now)
               <=> /\ StandsFor(m.name, rrset.name) /\ m.type = rrset.type /\ m.rdatas = rrset.rdatas
                   /\ m.sig.inception <= now /\ now <= m.sig.expiration
                   /\ \E key \in keys : key.id = m.sig.signature.key /\ Usable(key)
  <2>1. IsMade(m)
    OBVIOUS
  <2> QED BY <2>1, VerdictOnOne, ZenonT(60)
<1>2. Validate(rrset, sigs, keys, now) <=> \E sig \in sigs.rdatas : ValidateRRsig(rrset, sig, keys, now)
  BY DEF Validate
<1>3. MayAccept(rrset, sigs, keys, now)
        <=> \E m \in signatures : m.sig \in sigs.rdatas /\ ValidateRRsig(rrset, m.sig, keys, now)
  BY <1>1, Zenon DEF MayAccept
<1> QED BY <1>2, <1>3

LEMMA VerdictsFollow ==
  ASSUME HasMade(zone, signatures), \A m \in signatures : IsMade(m)
  PROVE  VerdictsAreRight
<1> SUFFICES ASSUME NEW k \in DOMAIN zone, k.type = "RRSIG", NEW owner \in Owners, NEW rdatas,
                    NEW shown \in Shown(k, owner), NEW keys \in Rings, NEW time \in Times,
                    NEW rrset, rrset = [name |-> owner, type |-> k.covers, rdatas |-> rdatas],
                    NEW sigs, sigs = [name |-> owner, rdatas |-> shown]
             PROVE  Validate(rrset, sigs, keys, time) <=> MayAccept(rrset, sigs, keys, time)
  BY ZenonT(60) DEF VerdictsAreRight
<1>1. rrset.name = sigs.name /\ sigs.rdatas = shown /\ rrset.name \in Seq(Int)
  BY NamesAreValues
<1>2. ASSUME NEW sig \in zone[k].rdatas
      PROVE  \E m \in signatures : m.sig = sig
  BY DEF HasMade
<1>3. ASSUME NEW sig \in shown
      PROVE  (\E m \in signatures : m.sig = sig) \/ ~ValidateRRsig(rrset, sig, keys, time)
  <2>1. sig \in zone[k].rdatas \/ \E old \in zone[k].rdatas : sig \in Altered(old)
    BY DEF Shown
  <2>2. ASSUME NEW old \in zone[k].rdatas, sig \in Altered(old)
        PROVE  ~ValidateRRsig(rrset, sig, keys, time)
    <3>1. PICK m \in signatures : m.sig = old
      BY <1>2
    <3>2. sig.signature.data.rrsig # Unsigned(sig)
      BY <2>2, <3>1, AlteredIsNobodys
    <3> QED BY <3>2, NobodysIsRejected
  <2> QED BY <1>2, <2>1, <2>2
<1> QED BY <1>1, <1>3, VerdictOnMade

-----------------------------------------------------------------------------
(* ZonesInv                                                                 *)

LEMMA NamesAreSequences ==
  ASSUME NEW z, ZoneOk(z)
  PROVE  Names(z) \subseteq Seq(Int) /\ Apex \in Names(z) /\ NoValue \notin Names(z)
<1>1. Names(z) \subseteq Seq(Int)
  BY DEF Names, ZoneOk, IsKey
<1>2. Key(Apex, "SOA").name = Apex
  BY DEF Key
<1>3. Apex \in Names(z)
  BY <1>2 DEF Names, ZoneOk
<1> QED BY <1>1, <1>3, NamesAreValues

LEMMA MoreHaveMade ==
  ASSUME NEW z, NEW some, NEW more, HasMade(z, some)
  PROVE  HasMade(z, some \cup more)
BY DEF HasMade

LEMMA KeysForAreKeys ==
  ASSUME NEW type, NEW keys
  PROVE  KeysFor(type, keys) \subseteq keys /\ KeysFor(type, keys) = Responsible(type, keys)
<1>1. CASE \E key \in keys : key.sep
  BY <1>1 DEF KeysFor, Ksks, Zsks, Responsible, IsForKeys
<1>2. CASE ~\E key \in keys : key.sep
  BY <1>2 DEF KeysFor, Ksks, Zsks, Responsible, IsForKeys
<1> QED BY <1>1, <1>2

\* Signing an rrset into a zone
LEMMA SigningKeepsAll ==
  ASSUME NEW z, NEW all, ZoneOk(z), HasMade(z, all), HasMade(zone, all), \A m \in all : IsMade(m),
         NEW k, IsKey(k), k.type # "RRSIG", \A j \in DOMAIN z : ~Clash(j, k),
         NEW ttl, NEW rdatas,
         NEW rrset, rrset = [name |-> k.name, type |-> k.type, ttl |-> ttl, rdatas |-> rdatas],
         NEW call \in Signings, NEW keys \in SUBSET call.keys, MaySign(keys, call),
         NEW sigs, sigs = SigsBy(keys, rrset, call)
  PROVE  /\ ZoneOk(Signed(z, rrset, sigs))
         /\ HasMade(Signed(z, rrset, sigs), all \cup Made(rrset, sigs))
         /\ HasMade(zone, all \cup Made(rrset, sigs))
         /\ \A m \in all \cup Made(rrset, sigs) : IsMade(m)
<1> PICK s : s = SigKey(rrset.name, rrset.type)
  OBVIOUS
<1>1. rrset.name = k.name /\ rrset.type = k.type /\ k.name \in Seq(Int)
  BY DEF IsKey
<1>2. IsKey(s)
  BY <1>1 DEF IsKey, SigKey
<1>3. \A j \in DOMAIN z : ~Clash(j, s)
  BY <1>1, SignatureClashesAsItsRRset
<1>4. ZoneOk(Signed(z, rrset, sigs)) /\ HasMade(Signed(z, rrset, sigs), all \cup Made(rrset, sigs))
  BY <1>2, <1>3, SigningKeepsZone
<1>5. HasMade(zone, all \cup Made(rrset, sigs))
  BY MoreHaveMade
<1>6. \A m \in Made(rrset, sigs) : IsMade(m)
  BY <1>1, MadeAreOfCalls
<1> QED BY <1>4, <1>5, <1>6

LEMMA SignIntoKeepsAll ==
  ASSUME NEW z, ZoneOk(z), HasMade(z, signatures), HasMade(zone, signatures),
         \A m \in signatures : IsMade(m),
         NEW k, IsKey(k), k.type # "RRSIG", \A j \in DOMAIN z : ~Clash(j, k),
         NEW ttl, NEW rdatas,
         NEW rrset, rrset = [name |-> k.name, type |-> k.type, ttl |-> ttl, rdatas |-> rdatas],
         NEW call \in Signings,
         SignInto(z, rrset, call) \/ SignRaises(z, rrset, call), ZoneOk(zone)
  PROVE  /\ ZoneOk(draft') /\ HasMade(draft', signatures') /\ HasMade(zone, signatures')
         /\ \A m \in signatures' : IsMade(m)
<1> PICK keys : keys = KeysFor(rrset.type, call.keys)
  OBVIOUS
<1>1. keys \subseteq call.keys
  BY KeysForAreKeys
<1>2. ASSUME NEW before \in SUBSET keys, MaySign(before, call),
             draft' = Signed(z, rrset, SigsBy(before, rrset, call)),
             signatures' = signatures \cup Made(rrset, SigsBy(before, rrset, call))
      PROVE  /\ ZoneOk(draft') /\ HasMade(draft', signatures') /\ HasMade(zone, signatures')
             /\ \A m \in signatures' : IsMade(m)
  <2>1. before \in SUBSET call.keys
    BY <1>1
  <2> PICK sigs : sigs = SigsBy(before, rrset, call)
    OBVIOUS
  <2> PICK all : all = signatures
    OBVIOUS
  <2>2. /\ ZoneOk(Signed(z, rrset, sigs))
        /\ HasMade(Signed(z, rrset, sigs), all \cup Made(rrset, sigs))
        /\ HasMade(zone, all \cup Made(rrset, sigs))
        /\ \A m \in all \cup Made(rrset, sigs) : IsMade(m)
    BY <1>2, <2>1, SigningKeepsAll
  <2> QED BY <1>2, <2>2
<1>3. CASE SignInto(z, rrset, call)
  BY <1>2, <1>3 DEF SignInto
<1>4. CASE draft' = zone /\ signatures' = signatures
  BY <1>4
<1>5. CASE SignRaises(z, rrset, call)
  BY <1>2, <1>4, <1>5 DEF SignRaises, GiveUp, GoOn
<1> QED BY <1>3, <1>5

\* What sign_zone() adds before it signs
LEMMA DnskeysKeepAll ==
  ASSUME NEW z, NEW all, ZoneOk(z), HasMade(z, all), NEW call
  PROVE  /\ ZoneOk(WithDnskeys(z, call)) /\ HasMade(WithDnskeys(z, call), all)
         /\ Grows(z, WithDnskeys(z, call), Key(Apex, "DNSKEY"))
<1> PICK k : k = Key(Apex, "DNSKEY")
  OBVIOUS
<1> PICK y : y = WithDnskeys(z, call)
  OBVIOUS
<1>1. Classify(k) = Classify(Key(Apex, "SOA")) /\ k.name = Key(Apex, "SOA").name
  BY DEF Classify, Key
<1>2. \A j \in DOMAIN z : ~Clash(j, k)
  BY <1>1 DEF ZoneOk, Clash
<1>3. IsKey(k) /\ k.type = "DNSKEY"
  BY ApexIsFirst, EmptySeq DEF IsKey, Key, Apex
<1>4. y = z \/ y = AddRdatas(z, k, DnskeyTtl(z, call), call.keys)
  BY DEF WithDnskeys
<1>5. Grows(z, y, k)
  BY <1>2, <1>4, AddingAdds DEF Grows
<1>6. ZoneOk(y)
  BY <1>2, <1>3, <1>5, GrowingKeepsZoneOk
<1>7. HasMade(y, all)
  BY <1>3, <1>5 DEF HasMade, Grows
<1> QED BY <1>5, <1>6, <1>7

LEMMA NsecKeepsAll ==
  ASSUME ZoneOk(draft), NEW all, HasMade(draft, all), NEW n \in Names(draft), NEW next,
         NEW k, k = Key(n, "NSEC")
  PROVE  /\ ZoneOk(WithNsec(n, next)) /\ HasMade(WithNsec(n, next), all)
         /\ Grows(draft, WithNsec(n, next), k)
         /\ IsKey(k) /\ k.type = "NSEC" /\ k.name = n
         /\ k \in DOMAIN WithNsec(n, next)
         /\ WithNsec(n, next)[k].rdatas = NsecFor(n, next).rdatas
<1> PICK y : y = WithNsec(n, next)
  OBVIOUS
<1>1. IsKey(k) /\ k.type = "NSEC" /\ k.name = n
  BY NamesAreSequences DEF IsKey, Key
<1>2. \A j \in DOMAIN draft : ~Clash(j, k)
  BY <1>1, NsecClashesWithNothing
<1>3. y = AddRdatas(draft, k, NsecFor(n, next).ttl, NsecFor(n, next).rdatas)
  BY DEF WithNsec
<1>4. Grows(draft, y, k) /\ k \in DOMAIN y /\ y[k].rdatas = {} \cup NsecFor(n, next).rdatas
  BY <1>1, <1>2, <1>3, AddingAdds
<1>5. ZoneOk(y)
  BY <1>1, <1>2, <1>4, GrowingKeepsZoneOk
<1>6. HasMade(y, all)
  BY <1>1, <1>4 DEF HasMade, Grows
<1> QED BY <1>1, <1>4, <1>5, <1>6

LEMMA NsecsKeepAll ==
  ASSUME ZonesInv, NEW n \in Names(draft), NEW next, signer.call \in Signings, AddNsec(n, next)
  PROVE  /\ ZoneOk(draft') /\ HasMade(draft', signatures') /\ HasMade(zone, signatures')
         /\ \A m \in signatures' : IsMade(m)
<1> PICK k : k = Key(n, "NSEC")
  OBVIOUS
<1> PICK w : w = WithNsec(n, next)
  OBVIOUS
<1> PICK rrset : rrset = NsecFor(n, next)
  OBVIOUS
<1>1. ZoneOk(w) /\ HasMade(w, signatures) /\ IsKey(k) /\ k.type = "NSEC" /\ k.name = n
  BY NsecKeepsAll DEF ZonesInv
<1>2. \A j \in DOMAIN w : ~Clash(j, k)
  BY <1>1, NsecClashesWithNothing
<1>3. PICK ttl, rdatas : rrset = [name |-> k.name, type |-> k.type, ttl |-> ttl, rdatas |-> rdatas]
  BY <1>1 DEF NsecFor
<1>4. SignInto(w, rrset, signer.call)
  BY DEF AddNsec
<1>5. k.type # "RRSIG" /\ ZoneOk(zone) /\ HasMade(zone, signatures) /\ \A m \in signatures : IsMade(m)
  BY <1>1 DEF ZonesInv
<1> QED BY <1>1, <1>2, <1>3, <1>4, <1>5, SignIntoKeepsAll

LEMMA RRsetsKeepAll ==
  ASSUME ZonesInv, NEW k \in DOMAIN draft, k.type # "RRSIG", signer.call \in Signings,
         SignInto(draft, RRset(draft, k), signer.call) \/ SignRaises(draft, RRset(draft, k), signer.call)
  PROVE  /\ ZoneOk(draft') /\ HasMade(draft', signatures') /\ HasMade(zone, signatures')
         /\ \A m \in signatures' : IsMade(m)
<1> PICK rrset : rrset = RRset(draft, k)
  OBVIOUS
<1>1. PICK ttl, rdatas : rrset = [name |-> k.name, type |-> k.type, ttl |-> ttl, rdatas |-> rdatas]
  BY DEF RRset
<1>2. /\ ZoneOk(draft) /\ HasMade(draft, signatures) /\ ZoneOk(zone) /\ HasMade(zone, signatures)
      /\ \A m \in signatures : IsMade(m)
      /\ IsKey(k) /\ \A j \in DOMAIN draft : ~Clash(j, k)
  BY DEF ZonesInv, ZoneOk
<1> QED BY <1>1, <1>2, SignIntoKeepsAll

LEMMA ZonesInit == DnssecInit => ZonesInv
<1> SUFFICES ASSUME DnssecInit PROVE ZonesInv
  OBVIOUS
<1>1. ZoneOk(zone)
  BY ZonesAreValid DEF DnssecInit, ZoneOk
<1>2. HasMade(zone, signatures)
  BY ZonesAreValid DEF DnssecInit, HasMade
<1> QED BY <1>1, <1>2 DEF DnssecInit, ZonesInv

LEMMA ZonesNext ==
  ASSUME DnssecInv, [DnssecNext]_dnssecVars
  PROVE  ZonesInv'
<1> ZonesInv /\ (at \in {"next", "node"} => LoopInv)
  BY DEF DnssecInv
<1>0. /\ ZoneOk(draft) /\ HasMade(draft, signatures) /\ ZoneOk(zone) /\ HasMade(zone, signatures)
      /\ \A m \in signatures : IsMade(m)
  BY DEF ZonesInv
<1>1. ASSUME ZoneOk(draft'), HasMade(draft', signatures'), HasMade(zone, signatures'),
             \A m \in signatures' : IsMade(m), zone' \in {zone, draft'},
             at' = "closed" => draft' = zone', at' \in {"closed", "open", "next", "node"}
      PROVE  ZonesInv'
  BY <1>0, <1>1, Zenon DEF ZonesInv, ZoneOk, HasMade, IsMade
<1>2. ASSUME NEW call \in Signings, Begin(call) \/ BeginNsec3(call) PROVE ZonesInv'
  <2>1. zone' = zone /\ signatures' = signatures /\ (draft' = zone \/ draft' = WithDnskeys(draft, call))
    BY <1>2 DEF Begin, BeginNsec3
  <2>2. at' \in {"closed", "open", "next"} /\ (at' = "closed" => draft' = zone)
    BY <1>2 DEF Begin, BeginNsec3
  <2>3. ZoneOk(draft') /\ HasMade(draft', signatures)
    BY <1>0, <2>1, DnskeysKeepAll
  <2> QED BY <1>0, <1>1, <2>1, <2>2, <2>3
<1>3. ASSUME NEW name \in signer.left, Skip(name) \/ Visit(name) PROVE ZonesInv'
  <2>1. zone' = zone /\ signatures' = signatures /\ draft' = draft /\ at' \in {"next", "node"}
    BY <1>3 DEF Skip, Visit
  <2> QED BY <1>0, <1>1, <2>1
<1>4. ASSUME NEW k \in signer.todo, SignRRset(k) PROVE ZonesInv'
  <2>1. k \in DOMAIN draft /\ k.type # "RRSIG" /\ signer.call \in Signings
    BY <1>4 DEF LoopInv, Done, SignerOk, IsAuthentic, SignRRset
  <2>2. SignInto(draft, RRset(draft, k), signer.call) \/ SignRaises(draft, RRset(draft, k), signer.call)
    BY <1>4 DEF SignRRset
  <2>3. zone' = zone /\ at' \in {"closed", "open", "node"} /\ (at' = "closed" => draft' = zone)
    BY <1>4 DEF SignRRset, SignRaises, GiveUp, GoOn
  <2> QED BY <1>1, <2>1, <2>2, <2>3, RRsetsKeepAll
<1>5. ASSUME at \in {"next", "node"}, signer.last_secure # NoValue
      PROVE  signer.last_secure \in Names(draft) /\ signer.call \in Signings
  BY <1>5 DEF LoopInv, SignerOk, InOrder, Secure, Visited
<1>6. CASE Link
  <2>1. zone' = zone /\ at' = "next" /\ at = "node"
    BY <1>6 DEF Link
  <2>2. CASE signer.last_secure = NoValue
    <3>1. draft' = draft /\ signatures' = signatures
      BY <1>6, <2>2 DEF Link
    <3> QED BY <1>0, <1>1, <2>1, <3>1
  <2>3. CASE signer.last_secure # NoValue
    <3>1. AddNsec(signer.last_secure, signer.name)
      BY <1>6, <2>3 DEF Link
    <3> QED BY <1>1, <1>5, <2>1, <2>3, <3>1, NsecsKeepAll
  <2> QED BY <2>2, <2>3
<1>7. CASE Return
  <2>1. at = "next" /\ zone' \in {zone, draft'} /\ at' \in {"closed", "open"} /\ (at' = "closed" => draft' = zone')
    BY <1>7 DEF Return
  <2>2. CASE ~Truthy(signer.last_secure)
    <3>1. draft' = draft /\ signatures' = signatures
      BY <1>7, <2>2 DEF Return
    <3> QED BY <1>0, <1>1, <2>1, <3>1
  <2>3. CASE Truthy(signer.last_secure)
    <3>1. AddNsec(signer.last_secure, Apex)
      BY <1>7, <2>3 DEF Return
    <3>2. signer.last_secure # NoValue
      BY <2>3 DEF Truthy
    <3> QED BY <1>1, <1>5, <2>1, <3>1, <3>2, NsecsKeepAll
  <2> QED BY <2>2, <2>3
<1>8. ASSUME NEW edit \in Edits, Edit(edit) PROVE ZonesInv'
  <2>1. zone' = zone /\ signatures' = signatures /\ at' = "open" /\ draft' = Replace(draft, edit.key, edit.rdataset)
    BY <1>8 DEF Edit, Change
  <2> PICK k : k = edit.key
    OBVIOUS
  <2>2. IsKey(k) /\ k.type # "RRSIG" /\ ~Clash(k, Key(Apex, "SOA")) /\ ~Clash(k, k)
    BY EditsAreValid DEF Clash
  <2>3. /\ DOMAIN draft' = {j \in DOMAIN draft : ~Clash(j, k)} \cup {k}
        /\ \A j \in DOMAIN draft' \ {k} : draft'[j] = draft[j]
    BY <2>1 DEF Replace
  <2>4. ZoneOk(draft')
    <3>1. Key(Apex, "SOA") \in DOMAIN draft'
      BY <1>0, <2>2, <2>3, ClashIsMutual DEF ZoneOk
    <3>2. \A j \in DOMAIN draft' : IsKey(j)
      BY <1>0, <2>2, <2>3 DEF ZoneOk
    <3>3. \A i, j \in DOMAIN draft' : ~Clash(i, j)
      BY <1>0, <2>2, <2>3, ClashIsMutual DEF ZoneOk
    <3> QED BY <3>1, <3>2, <3>3 DEF ZoneOk
  <2>5. HasMade(draft', signatures)
    BY <1>0, <2>2, <2>3 DEF HasMade
  <2> QED BY <1>0, <1>1, <2>1, <2>4, <2>5
<1>9. ASSUME NEW key \in Deletions, Delete(key) PROVE ZonesInv'
  <2>1. zone' = zone /\ signatures' = signatures /\ at' = "open" /\ draft' = [k \in DOMAIN draft \ {key} |-> draft[k]]
    BY <1>9 DEF Delete, Change
  <2>2. ZoneOk(draft')
    BY <1>0, <2>1, EditsAreValid DEF ZoneOk
  <2>3. HasMade(draft', signatures)
    BY <1>0, <2>1 DEF HasMade
  <2> QED BY <1>0, <1>1, <2>1, <2>2, <2>3
<1>10. CASE Commit
  <2>1. zone' = draft /\ draft' = draft /\ signatures' = signatures /\ at' = "closed"
    BY <1>10 DEF Commit
  <2> QED BY <1>0, <1>1, <2>1
<1>11. CASE UNCHANGED dnssecVars
  <2>1. zone' = zone /\ draft' = draft /\ signatures' = signatures /\ at' = at
    BY <1>11 DEF dnssecVars
  <2>2. at \in {"closed", "open", "next", "node"} /\ (at = "closed" => draft = zone)
    BY DEF ZonesInv
  <2> QED BY <1>0, <1>1, <2>1, <2>2
<1> QED BY <1>2, <1>3, <1>4, <1>6, <1>7, <1>8, <1>9, <1>10, <1>11 DEF DnssecNext, Signer

-----------------------------------------------------------------------------
(* Steps of the loop: what signatures and NSEC records leave as it was      *)

LEMMA DelegationsAreTruthy ==
  ASSUME NEW z, NEW n \in Seq(Int)
  PROVE  /\ Truthy(DelegationAt(z, n)) <=> IsDelegation(z, n)
         /\ Truthy(DelegationAt(z, n)) => DelegationAt(z, n) = n
<1>1. n # NoValue
  BY NamesAreValues
<1>2. CASE Key(n, "NS") \in DOMAIN z
  BY <1>1, <1>2 DEF Truthy, DelegationAt, IsOrigin, IsDelegation
<1>3. CASE Key(n, "NS") \notin DOMAIN z
  BY <1>3 DEF Truthy, DelegationAt, IsDelegation
<1> QED BY <1>2, <1>3

LEMMA DenialStays ==
  ASSUME NEW z, NEW y, NEW s, Grows(z, y, s), NEW n, NextOf(y, n) = NextOf(z, n),
         s.type = "RRSIG" \/ s.name # n, Key(n, "NSEC") # s, IsDenied(z, n)
  PROVE  IsDenied(y, n)
<1>1. Key(n, "NSEC") \in DOMAIN y /\ y[Key(n, "NSEC")] = z[Key(n, "NSEC")]
  BY DEF IsDenied, Grows
<1>2. TypesAt(y, n) \cup {"RRSIG"} = TypesAt(z, n) \cup {"RRSIG"}
  BY DEF TypesAt, Grows
<1> QED BY <1>1, <1>2 DEF IsDenied

LEMMA SigsStay ==
  ASSUME NEW z, NEW y, NEW s, Grows(z, y, s), NEW k \in DOMAIN z, k # s, NEW call,
         SigKey(k.name, k.type) \in DOMAIN z =>
           z[SigKey(k.name, k.type)].rdatas \subseteq y[SigKey(k.name, k.type)].rdatas,
         HasSigs(z, k, call)
  PROVE  HasSigs(y, k, call)
<1>1. y[k] = z[k] /\ DOMAIN z \subseteq DOMAIN y
  BY DEF Grows
<1> QED BY <1>1 DEF HasSigs

LEMMA NewSigs ==
  ASSUME NEW z, NEW k \in DOMAIN z, NEW call, NEW ttl, NEW rrset,
         rrset = [name |-> k.name, type |-> k.type, ttl |-> ttl, rdatas |-> z[k].rdatas],
         k.type # "RRSIG", \A j \in DOMAIN z : ~Clash(j, k)
  PROVE  HasSigs(Signed(z, rrset, SigsBy(KeysFor(k.type, call.keys), rrset, call)), k, call)
<1> PICK s : s = SigKey(k.name, k.type)
  OBVIOUS
<1> PICK sigs : sigs = SigsBy(KeysFor(k.type, call.keys), rrset, call)
  OBVIOUS
<1> PICK y : y = Signed(z, rrset, sigs)
  OBVIOUS
<1>1. rrset.name = k.name /\ rrset.type = k.type /\ s.type = "RRSIG"
  BY DEF SigKey
<1>2. \A j \in DOMAIN z : ~Clash(j, s)
  BY SignatureClashesAsItsRRset
<1>3. /\ Grows(z, y, s) /\ (sigs # {} => s \in DOMAIN y)
      /\ s \in DOMAIN y => sigs \subseteq y[s].rdatas
  BY <1>1, <1>2, SigningAdds
<1>4. y[k] = z[k]
  BY <1>1, <1>3 DEF Grows
<1>5. ASSUME NEW key \in KeysFor(k.type, call.keys)
      PROVE  /\ s \in DOMAIN y
             /\ \E sig \in y[s].rdatas :
                  sig = Sign([name |-> k.name, type |-> k.type, ttl |-> sig.original_ttl,
                              rdatas |-> y[k].rdatas], key, call)
  <2>1. PICK sig : sig = Sign(rrset, key, call)
    OBVIOUS
  <2>2. sig \in sigs
    BY <2>1 DEF SigsBy
  <2>3. sig.original_ttl = ttl
    BY <2>1, SignatureIs
  <2>4. sig = Sign([name |-> k.name, type |-> k.type, ttl |-> sig.original_ttl, rdatas |-> y[k].rdatas], key, call)
    BY <2>1, <2>3, <1>4
  <2> QED BY <1>3, <2>2, <2>4
<1> QED BY <1>5 DEF HasSigs

\* Of signing an rrset, whether NSEC or not
LEMMA SigningKeepsTheRest ==
  ASSUME NEW z, NEW k \in DOMAIN z, NEW rrset, NEW sigs, NEW y, y = Signed(z, rrset, sigs),
         rrset.name = k.name, rrset.type = k.type, k.type # "RRSIG", \A j \in DOMAIN z : ~Clash(j, k)
  PROVE  /\ Names(y) = Names(z) /\ Authentic(y) = Authentic(z)
         /\ \A n : IsDelegation(y, n) <=> IsDelegation(z, n)
         /\ \A n : NextOf(y, n) = NextOf(z, n)
         /\ \A j : IsAuthentic(y, j) <=> IsAuthentic(z, j)
         /\ \A n : IsDenied(z, n) => IsDenied(y, n)
         /\ \A j \in DOMAIN z : \A call : j.type # "RRSIG" /\ HasSigs(z, j, call) => HasSigs(y, j, call)
         /\ Grows(z, y, SigKey(k.name, k.type))
<1> PICK s : s = SigKey(k.name, k.type)
  OBVIOUS
<1>1. s.name = k.name /\ s.type = "RRSIG" /\ k.name \in Names(z)
  BY DEF SigKey, Names
<1>2. \A j \in DOMAIN z : ~Clash(j, s)
  BY SignatureClashesAsItsRRset
<1>3. /\ Grows(z, y, s)
      /\ s \in DOMAIN y => y[s].rdatas = (IF s \in DOMAIN z THEN z[s].rdatas ELSE {}) \cup sigs
  BY <1>2, SigningAdds
<1>4. /\ Names(y) = Names(z) /\ Authentic(y) = Authentic(z)
      /\ \A n : IsDelegation(y, n) <=> IsDelegation(z, n)
      /\ \A n : NextOf(y, n) = NextOf(z, n)
      /\ \A j : IsAuthentic(y, j) <=> IsAuthentic(z, j)
  BY <1>1, <1>3, GrowingKeepsTheNames
<1>5. ASSUME NEW n, IsDenied(z, n) PROVE IsDenied(y, n)
  <2>1. Key(n, "NSEC") # s
    BY <1>1 DEF Key
  <2> QED BY <1>1, <1>3, <1>4, <1>5, <2>1, DenialStays
<1>6. ASSUME NEW j \in DOMAIN z, NEW call, j.type # "RRSIG", HasSigs(z, j, call)
      PROVE  HasSigs(y, j, call)
  <2> PICK t : t = SigKey(j.name, j.type)
    OBVIOUS
  <2>1. t \in DOMAIN z => z[t].rdatas \subseteq y[t].rdatas
    BY <1>3 DEF Grows
  <2> QED BY <1>1, <1>3, <1>6, <2>1, SigsStay
<1> QED BY <1>3, <1>4, <1>5, <1>6

\* Of adding an NSEC record
LEMMA NsecIsAdded ==
  ASSUME ZonesInv, NEW n \in Authentic(draft), NEW next, next = NextOf(draft, n), AddNsec(n, next)
  PROVE  /\ Names(draft') = Names(draft) /\ Authentic(draft') = Authentic(draft)
         /\ \A m : IsDelegation(draft', m) <=> IsDelegation(draft, m)
         /\ \A j : IsAuthentic(draft', j) <=> IsAuthentic(draft, j)
         /\ IsDenied(draft', n)
         /\ \A m : m # n /\ IsDenied(draft, m) => IsDenied(draft', m)
         /\ HasSigs(draft', Key(n, "NSEC"), signer.call)
         /\ \A j \in DOMAIN draft : j # Key(n, "NSEC") /\ j.type # "RRSIG" /\ HasSigs(draft, j, signer.call)
              => HasSigs(draft', j, signer.call)
         /\ DOMAIN draft \subseteq DOMAIN draft'
         /\ \A j \in DOMAIN draft' : \/ j \in DOMAIN draft /\ draft'[j] = draft[j]
                                     \/ j \in {Key(n, "NSEC"), SigKey(n, "NSEC")}
<1> PICK k : k = Key(n, "NSEC")
  OBVIOUS
<1> PICK w : w = WithNsec(n, next)
  OBVIOUS
<1> PICK y : y = draft'
  OBVIOUS
<1> PICK rrset : rrset = NsecFor(n, next)
  OBVIOUS
<1> PICK call : call = signer.call
  OBVIOUS
<1>1. n \in Names(draft) /\ ZoneOk(draft) /\ HasMade(draft, signatures)
  BY DEF Authentic, ZonesInv
<1>2. /\ ZoneOk(w) /\ Grows(draft, w, k) /\ IsKey(k) /\ k.type = "NSEC" /\ k.name = n
      /\ k \in DOMAIN w /\ w[k].rdatas = rrset.rdatas
  BY <1>1, NsecKeepsAll
<1>3. /\ Names(w) = Names(draft) /\ Authentic(w) = Authentic(draft)
      /\ \A m : IsDelegation(w, m) <=> IsDelegation(draft, m)
      /\ \A m : NextOf(w, m) = NextOf(draft, m)
      /\ \A j : IsAuthentic(w, j) <=> IsAuthentic(draft, j)
  BY <1>1, <1>2, GrowingKeepsTheNames
<1>4. rrset = [name |-> k.name, type |-> k.type, ttl |-> rrset.ttl, rdatas |-> w[k].rdatas]
      /\ rrset.rdatas = {[next |-> next, types |-> TypesAt(draft, n) \cup {"RRSIG", "NSEC"}]}
      /\ rrset.name = k.name /\ rrset.type = k.type
  BY <1>2 DEF NsecFor
<1>5. \A j \in DOMAIN w : ~Clash(j, k)
  BY <1>2, NsecClashesWithNothing
<1>6. PICK sigs : /\ sigs = SigsBy(KeysFor(rrset.type, call.keys), rrset, call)
                  /\ y = Signed(w, rrset, sigs)
  BY DEF AddNsec, SignInto
<1>7. /\ Names(y) = Names(w) /\ Authentic(y) = Authentic(w)
      /\ \A m : IsDelegation(y, m) <=> IsDelegation(w, m)
      /\ \A m : NextOf(y, m) = NextOf(w, m)
      /\ \A j : IsAuthentic(y, j) <=> IsAuthentic(w, j)
      /\ \A m : IsDenied(w, m) => IsDenied(y, m)
      /\ \A j \in DOMAIN w : \A c : j.type # "RRSIG" /\ HasSigs(w, j, c) => HasSigs(y, j, c)
      /\ Grows(w, y, SigKey(k.name, k.type))
  BY <1>2, <1>4, <1>5, <1>6, SigningKeepsTheRest
<1>8. IsDenied(y, n)
  <2>1. TypesAt(w, n) \cup {"RRSIG"} = TypesAt(draft, n) \cup {"RRSIG", "NSEC"}
    BY <1>2 DEF TypesAt, Grows
  <2>2. IsDenied(w, n)
    BY <1>2, <1>3, <1>4, <2>1 DEF IsDenied
  <2> QED BY <1>7, <2>2
<1>9. ASSUME NEW m, m # n, IsDenied(draft, m) PROVE IsDenied(y, m)
  <2>1. Key(m, "NSEC") # k
    BY <1>2, <1>9 DEF Key
  <2>2. IsDenied(w, m)
    BY <1>2, <1>3, <1>9, <2>1, DenialStays
  <2> QED BY <1>7, <2>2
<1>10. HasSigs(y, k, call)
  <2>1. PICK ttl : ttl = rrset.ttl
    OBVIOUS
  <2>2. y = Signed(w, rrset, SigsBy(KeysFor(k.type, call.keys), rrset, call))
    BY <1>4, <1>6
  <2>3. rrset = [name |-> k.name, type |-> k.type, ttl |-> ttl, rdatas |-> w[k].rdatas]
    BY <1>4, <2>1
  <2>4. k \in DOMAIN w /\ k.type # "RRSIG"
    BY <1>2
  <2> QED BY <1>5, <2>2, <2>3, <2>4, NewSigs
<1>11. ASSUME NEW j \in DOMAIN draft, j # k, j.type # "RRSIG", HasSigs(draft, j, call)
       PROVE  HasSigs(y, j, call)
  <2> PICK t : t = SigKey(j.name, j.type)
    OBVIOUS
  <2>1. t # k
    BY <1>2 DEF SigKey
  <2>2. t \in DOMAIN draft => w[t] = draft[t]
    BY <1>2, <2>1 DEF Grows
  <2>3. HasSigs(w, j, call)
    BY <1>2, <1>11, <2>2, SigsStay
  <2> QED BY <1>2, <1>7, <1>11, <2>3 DEF Grows
<1>12. DOMAIN draft \subseteq DOMAIN y
  BY <1>2, <1>7 DEF Grows
<1>13. \A j \in DOMAIN y : \/ j \in DOMAIN draft /\ y[j] = draft[j]
                           \/ j \in {k, SigKey(n, "NSEC")}
  BY <1>2, <1>7 DEF Grows
<1> QED BY <1>3, <1>7, <1>8, <1>9, <1>10, <1>11, <1>12, <1>13

-----------------------------------------------------------------------------
(* LoopInv                                                                  *)

LEMMA LoopBegins ==
  ASSUME ZonesInv, NEW call \in Signings, Begin(call)
  PROVE  LoopInv'
<1> PICK y : y = draft'
  OBVIOUS
<1> PICK k : k = Key(Apex, "DNSKEY")
  OBVIOUS
<1>1. /\ at' = "next" /\ draft' = WithDnskeys(draft, call)
      /\ signer' = [call |-> call, own |-> (at = "closed"), before |-> draft, left |-> Names(draft'),
                    name |-> NoValue, todo |-> {}, delegation |-> NoValue, last_secure |-> NoValue]
  BY DEF Begin, NotSigning
<1>2. Visited' = {} /\ Secure' = {}
  BY <1>1 DEF Visited, Secure
<1>3. SignerOk'
  BY <1>1 DEF SignerOk
<1>4. InOrder'
  BY <1>1, <1>2 DEF InOrder
<1>5. Delegated'
  <2>1. NoValue # Apex
    BY NamesAreValues, ApexIsFirst, EmptySeq DEF Apex
  <2> QED BY <1>1, <1>2, <2>1 DEF Delegated, Position
<1>6. Done'
  <2>1. \A n : ~Linked(n)'
    BY <1>2 DEF Linked
  <2>2. \A j : ~IsDone(j)'
    BY <1>2 DEF IsDone
  <2> QED BY <1>1, <2>1, <2>2 DEF Done
<1>7. Untouched'
  <2>1. Grows(draft, y, k)
    BY <1>1, DnskeysKeepAll DEF ZonesInv
  <2>2. \A j \in DOMAIN y : IsOfSigning(y, j) \/ (j \in DOMAIN draft /\ y[j] = draft[j])
    BY <2>1 DEF Grows, IsOfSigning
  <2>3. DOMAIN draft \subseteq DOMAIN y
    BY <2>1 DEF Grows
  <2> QED BY <1>1, <2>2, <2>3 DEF Untouched
<1> QED BY <1>3, <1>4, <1>5, <1>6, <1>7 DEF LoopInv

\* Where the loop is when it takes the next name
LEMMA LoopIsAtNext ==
  ASSUME ZonesInv, LoopInv, at = "next", NEW x \in signer.left, IsNext(x)
  PROVE  /\ x \in Names(draft) /\ x \in Seq(Int) /\ x \notin Visited /\ x # NoValue
         /\ Visited \subseteq Seq(Int) /\ signer.left \subseteq Seq(Int)
         /\ Names(draft) \ (signer.left \ {x}) = Visited \cup {x}
         /\ Secure = Visited \cap Authentic(draft)
         /\ \A m \in Visited : Before(m, x)
         /\ \A n \in signer.left \ {x} : Before(x, n)
         /\ signer.name = NoValue /\ signer.todo = {}
<1>1. Names(draft) \subseteq Seq(Int) /\ NoValue \notin Names(draft)
  BY NamesAreSequences DEF ZonesInv
<1>2. signer.left \subseteq Names(draft) /\ signer.name = NoValue /\ signer.todo = {}
  BY DEF LoopInv, SignerOk
<1>3. Visited \subseteq Names(draft) /\ x \in Names(draft) /\ x \notin Visited
  BY <1>2 DEF Visited
<1>4. Secure = Visited \cap Authentic(draft)
  BY <1>1, <1>2, <1>3 DEF Secure
<1>5. Names(draft) \ (signer.left \ {x}) = Visited \cup {x}
  BY <1>3 DEF Visited
<1>6. \A m \in Visited : Before(m, x)
  BY DEF LoopInv, InOrder
<1>7. \A n \in signer.left \ {x} : Before(x, n)
  BY DEF IsNext
<1> QED BY <1>1, <1>2, <1>3, <1>4, <1>5, <1>6, <1>7

\* A delegation that names may be below is the last secure name.
LEMMA BelowTheLast ==
  ASSUME ZonesInv, LoopInv, at = "next", NEW x, IsBelow(x)
  PROVE  /\ signer.delegation = signer.last_secure /\ IsSubdomainOf(x, signer.last_secure)
         /\ signer.last_secure \in Secure /\ signer.last_secure # Apex
         /\ IsDelegation(draft, signer.last_secure)
<1> PICK last : last = signer.last_secure
  OBVIOUS
<1>1. Truthy(signer.delegation) /\ IsSubdomainOf(x, signer.delegation)
  BY DEF IsBelow
<1>2. signer.delegation = IF last = NoValue THEN NoValue ELSE DelegationAt(draft, last)
  BY DEF LoopInv, Delegated, Position
<1>3. last # NoValue /\ signer.delegation = DelegationAt(draft, last)
  BY <1>1, <1>2 DEF Truthy
<1>4. last \in Secure
  BY <1>3 DEF LoopInv, InOrder
<1>5. last \in Seq(Int)
  BY <1>4, NamesAreSequences DEF ZonesInv, Secure, Visited
<1>6. signer.delegation = last /\ IsDelegation(draft, last)
  BY <1>1, <1>3, <1>5, DelegationsAreTruthy
<1> QED BY <1>1, <1>4, <1>6 DEF IsDelegation

\* Exactly the names that are skipped are occluded.
LEMMA BelowIsOccluded ==
  ASSUME ZonesInv, LoopInv, at = "next", NEW x \in signer.left, IsNext(x)
  PROVE  IsBelow(x) <=> x \notin Authentic(draft)
<1>1. /\ x \in Names(draft) /\ x \in Seq(Int) /\ x \notin Visited
      /\ signer.left \subseteq Seq(Int)
      /\ \A n \in signer.left \ {x} : Before(x, n)
  BY LoopIsAtNext
<1>2. ASSUME IsBelow(x) PROVE x \notin Authentic(draft)
  <2> PICK last : last = signer.last_secure
    OBVIOUS
  <2>1. IsSubdomainOf(x, last) /\ last \in Visited /\ IsDelegation(draft, last)
    BY <1>2, BelowTheLast DEF Secure
  <2>2. last \in Names(draft) \ {x}
    BY <1>1, <2>1 DEF Visited
  <2> QED BY <2>1, <2>2 DEF Authentic, IsOccluded
<1>3. ASSUME x \notin Authentic(draft) PROVE IsBelow(x)
  <2>1. PICK m \in Names(draft) \ {x} : IsDelegation(draft, m) /\ IsSubdomainOf(x, m)
    BY <1>1, <1>3 DEF Authentic, IsOccluded
  <2>2. m \in Seq(Int) /\ Before(m, x)
    BY <2>1, NamesAreSequences DEF ZonesInv, Before
  <2>3. m \notin signer.left
    BY <1>1, <2>1, <2>2, BeforeIsStrict
  <2>4. m \in Visited
    BY <2>1, <2>3 DEF Visited
  <2> QED BY <2>1, <2>4 DEF LoopInv, Delegated
<1> QED BY <1>2, <1>3

LEMMA LoopSkips ==
  ASSUME ZonesInv, LoopInv, NEW x \in signer.left, Skip(x)
  PROVE  LoopInv'
<1> PICK last : last = signer.last_secure
  OBVIOUS
<1>0. at = "next" /\ IsNext(x) /\ IsBelow(x)
  BY DEF Skip
<1>1. /\ x \in Names(draft) /\ x \in Seq(Int) /\ x \notin Visited
      /\ Visited \subseteq Seq(Int) /\ signer.left \subseteq Seq(Int)
      /\ Names(draft) \ (signer.left \ {x}) = Visited \cup {x}
      /\ Secure = Visited \cap Authentic(draft)
      /\ \A m \in Visited : Before(m, x)
      /\ \A n \in signer.left \ {x} : Before(x, n)
      /\ signer.name = NoValue /\ signer.todo = {}
  BY <1>0, LoopIsAtNext, Zenon
<1>2. /\ signer' = [call |-> signer.call, own |-> signer.own, before |-> signer.before,
                    left |-> signer.left \ {x}, name |-> signer.name, todo |-> signer.todo,
                    delegation |-> signer.delegation, last_secure |-> last]
      /\ draft' = draft /\ at' = at /\ relativize' = relativize
  <2>1. signer = [call |-> signer.call, own |-> signer.own, before |-> signer.before,
               left |-> signer.left, name |-> signer.name, todo |-> signer.todo,
               delegation |-> signer.delegation, last_secure |-> signer.last_secure]
    BY DEF LoopInv, SignerOk
  <2> QED BY <2>1 DEF Skip
<1>3. x \notin Authentic(draft)
  BY <1>0, BelowIsOccluded
<1>4. Visited' = Visited \cup {x} /\ Secure' = Secure
  BY <1>1, <1>2, <1>3 DEF Visited, Secure
<1>5. SignerOk'
  BY <1>0, <1>1, <1>2 DEF LoopInv, SignerOk
<1>6. InOrder'
  BY <1>0, <1>1, <1>2, <1>4 DEF LoopInv, InOrder
<1>7. Delegated'
  <2>1. /\ signer.delegation = last /\ IsSubdomainOf(x, last) /\ last \in Secure /\ last # Apex
    BY <1>0, BelowTheLast
  <2>2. ASSUME NEW n PROVE IsBelow(n)' <=> IsBelow(n)
    BY <1>2 DEF IsBelow, Truthy
  <2>3. ASSUME NEW m \in Visited', NEW n \in signer'.left, IsDelegation(draft, m), IsSubdomainOf(n, m)
        PROVE  IsBelow(n)
    <3>1. n \in signer.left /\ n \in Seq(Int)
      BY <1>1, <1>2
    <3>2. CASE m \in Visited
      BY <2>3, <3>1, <3>2 DEF LoopInv, Delegated
    <3>3. CASE m = x
      <4>1. last \in Seq(Int)
        BY <1>1, <2>1
      <4>2. IsSubdomainOf(n, last)
        BY <1>1, <2>1, <2>3, <3>1, <3>3, <4>1, BelowIsTransitive
      <4> QED BY <1>0, <2>1, <4>2 DEF IsBelow
    <3> QED BY <1>4, <3>2, <3>3
  <2>4. Position' = Position /\ Position = last
    BY <1>0, <1>2 DEF Position
  <2>5. signer.delegation = IF last = NoValue THEN NoValue ELSE DelegationAt(draft, last)
    BY <2>4 DEF LoopInv, Delegated
  <2>6. DelegationAt(draft, last)' = DelegationAt(draft, last)
    BY <1>2 DEF DelegationAt, IsOrigin
  <2>7. \A m, n : IsDelegation(draft, m)' <=> IsDelegation(draft, m)
    BY <1>2 DEF IsDelegation
  <2> QED BY <1>2, <2>1, <2>2, <2>3, <2>4, <2>5, <2>6, <2>7 DEF Delegated
<1>8. Done'
  <2>1. \A n : Linked(n)' <=> Linked(n)
    BY <1>2, <1>4 DEF Linked
  <2>2. ASSUME NEW k, IsDone(k)' PROVE IsDone(k)
    BY <1>1, <1>2, <1>3, <1>4, <2>1, <2>2 DEF IsDone, IsAuthentic
  <2>3. \A n \in Names(draft) : Linked(n) => IsDenied(draft, n)
    BY DEF LoopInv, Done
  <2>4. \A k \in DOMAIN draft : IsDone(k) => HasSigs(draft, k, signer.call)
    BY DEF LoopInv, Done
  <2> QED BY <1>1, <1>2, <2>1, <2>2, <2>3, <2>4 DEF Done
<1>9. Untouched'
  BY <1>2 DEF LoopInv, Untouched
<1> QED BY <1>5, <1>6, <1>7, <1>8, <1>9 DEF LoopInv

LEMMA SignerIsARecord ==
  ASSUME LoopInv
  PROVE  signer = [call |-> signer.call, own |-> signer.own, before |-> signer.before,
                   left |-> signer.left, name |-> signer.name, todo |-> signer.todo,
                   delegation |-> signer.delegation, last_secure |-> signer.last_secure]
BY Zenon DEF LoopInv, SignerOk

LEMMA LoopVisits ==
  ASSUME ZonesInv, LoopInv, NEW x \in signer.left, Visit(x)
  PROVE  LoopInv'
<1> PICK last : last = signer.last_secure
  OBVIOUS
<1> PICK del : del = DelegationAt(draft, x)
  OBVIOUS
<1> PICK todo : todo = ToSign(draft, x, del)
  OBVIOUS
<1>0. at = "next" /\ IsNext(x) /\ ~IsBelow(x)
  BY DEF Visit
<1>1. /\ x \in Names(draft) /\ x \in Seq(Int) /\ x \notin Visited /\ x # NoValue
      /\ Visited \subseteq Seq(Int) /\ signer.left \subseteq Seq(Int)
      /\ Names(draft) \ (signer.left \ {x}) = Visited \cup {x}
      /\ Secure = Visited \cap Authentic(draft)
      /\ \A m \in Visited : Before(m, x)
      /\ \A n \in signer.left \ {x} : Before(x, n)
      /\ signer.name = NoValue /\ signer.todo = {}
  BY <1>0, LoopIsAtNext, Zenon
<1>2. /\ signer' = [call |-> signer.call, own |-> signer.own, before |-> signer.before,
                    left |-> signer.left \ {x}, name |-> x, todo |-> todo,
                    delegation |-> del, last_secure |-> last]
      /\ draft' = draft /\ at' = "node" /\ relativize' = relativize
  BY SignerIsARecord DEF Visit
<1>3. x \in Authentic(draft)
  BY <1>0, BelowIsOccluded
<1>4. Visited' = Visited \cup {x} /\ Secure' = Secure
  BY <1>1, <1>2, <1>3 DEF Visited, Secure
<1>5. SignerOk'
  <2>1. signer.call \in Signings /\ signer.left \subseteq Names(draft)
    BY DEF LoopInv, SignerOk
  <2> QED BY <1>2, <1>3, <1>4, <2>1 DEF SignerOk
<1>6. InOrder'
  <2>1. /\ \A m \in Visited, n \in signer.left : Before(m, n)
        /\ IF Secure = {} THEN last = NoValue
           ELSE last \in Secure /\ \A n \in Secure \ {last} : Before(n, last)
    BY DEF LoopInv, InOrder
  <2> QED BY <1>1, <1>2, <1>4, <2>1 DEF InOrder
<1>7. Truthy(del) <=> IsDelegation(draft, x)
  BY <1>1, DelegationsAreTruthy
<1>8. Delegated'
  <2>1. ASSUME NEW n PROVE IsBelow(n)' <=> Truthy(del) /\ IsSubdomainOf(n, del)
    BY <1>2 DEF IsBelow, Truthy
  <2>2. ASSUME NEW m \in Visited', NEW n \in signer'.left, IsDelegation(draft, m), IsSubdomainOf(n, m)
        PROVE  Truthy(del) /\ IsSubdomainOf(n, del)
    <3>1. n \in signer.left /\ n # x /\ n \in Seq(Int) /\ Before(x, n)
      BY <1>1, <1>2
    <3>2. m \notin Visited
      <4> SUFFICES ASSUME m \in Visited PROVE FALSE
        OBVIOUS
      <4>1. IsBelow(n)
        BY <2>2, <3>1 DEF LoopInv, Delegated
      <4>2. IsSubdomainOf(n, last) /\ last \in Secure /\ signer.delegation = last
        BY <1>0, <4>1, BelowTheLast
      <4>3. last \in Seq(Int) /\ Before(last, x)
        BY <1>1, <4>2
      <4>4. IsSubdomainOf(x, last)
        BY <1>1, <3>1, <4>2, <4>3, NamesBelowAreTogether
      <4> QED BY <1>0, <4>1, <4>2, <4>4 DEF IsBelow
    <3>3. m = x
      BY <1>4, <3>2
    <3>4. del = x
      BY <1>1, <1>7, <2>2, <3>3, DelegationsAreTruthy
    <3> QED BY <1>7, <2>2, <3>3, <3>4
  <2>3. Position' = x
    BY <1>2 DEF Position
  <2>4. DelegationAt(draft, x)' = DelegationAt(draft, x)
    BY <1>2 DEF DelegationAt, IsOrigin
  <2>5. \A m : IsDelegation(draft, m)' <=> IsDelegation(draft, m)
    BY <1>2 DEF IsDelegation
  <2> QED BY <1>1, <1>2, <2>1, <2>2, <2>3, <2>4, <2>5 DEF Delegated
<1>9. Done'
  <2>1. \A n : Linked(n)' <=> Linked(n)
    BY <1>2, <1>4 DEF Linked
  <2>2. x \notin Secure
    BY <1>1
  <2>3. ASSUME NEW k \in DOMAIN draft, IsDone(k)' PROVE IsDone(k)
    <3>1. /\ IsAuthentic(draft, k) /\ k.name \in Visited \cup {x} /\ k \notin todo
          /\ k.type = "NSEC" /\ IsDelegation(draft, k.name) => Linked(k.name)
      BY <1>2, <1>4, <2>1, <2>3 DEF IsDone
    <3>2. CASE k.name = x
      <4>1. k.type # "RRSIG" /\ ~(Truthy(del) => k.type = "DS")
        BY <3>1, <3>2 DEF ToSign, IsAuthentic
      <4>2. IsDelegation(draft, x) /\ k.type = "NSEC"
        BY <1>7, <3>1, <3>2, <4>1 DEF IsAuthentic
      <4>3. Linked(x)
        BY <3>1, <3>2, <4>2
      <4> QED BY <2>2, <4>3 DEF Linked
    <3>3. CASE k.name \in Visited
      BY <1>1, <3>1, <3>3 DEF IsDone
    <3> QED BY <3>1, <3>2, <3>3
  <2>4. \A n \in Names(draft) : Linked(n) => IsDenied(draft, n)
    BY DEF LoopInv, Done
  <2>5. \A k \in DOMAIN draft : IsDone(k) => HasSigs(draft, k, signer.call)
    BY DEF LoopInv, Done
  <2>6. \A k \in todo : k \in DOMAIN draft /\ k.name = x /\ IsAuthentic(draft, k)
    BY <1>3, <1>7 DEF ToSign, IsAuthentic
  <2> QED BY <1>2, <2>1, <2>3, <2>4, <2>5, <2>6 DEF Done
<1>10. Untouched'
  BY <1>2 DEF LoopInv, Untouched
<1> QED BY <1>5, <1>6, <1>8, <1>9, <1>10 DEF LoopInv

LEMMA LoopSigns ==
  ASSUME ZonesInv, LoopInv, NEW k \in signer.todo, SignRRset(k), at' = "node"
  PROVE  LoopInv'
<1> PICK call : call = signer.call
  OBVIOUS
<1> PICK rrset : rrset = RRset(draft, k)
  OBVIOUS
<1> PICK y : y = draft'
  OBVIOUS
<1>0. at = "node"
  BY DEF SignRRset
<1>1. ~SignRaises(draft, rrset, call)
  BY DEF SignRaises, GiveUp, GoOn
<1>2. SignInto(draft, rrset, call) /\ relativize' = relativize
      /\ signer' = [signer EXCEPT !.todo = @ \ {k}]
  BY <1>1 DEF SignRRset
<1>3. /\ signer' = [call |-> call, own |-> signer.own, before |-> signer.before,
                    left |-> signer.left, name |-> signer.name, todo |-> signer.todo \ {k},
                    delegation |-> signer.delegation, last_secure |-> signer.last_secure]
  BY <1>2, SignerIsARecord
<1>4. k \in DOMAIN draft /\ k.name = signer.name /\ IsAuthentic(draft, k) /\ k.type # "RRSIG"
  BY DEF LoopInv, Done, IsAuthentic
<1>5. \A j \in DOMAIN draft : ~Clash(j, k)
  BY <1>4 DEF ZonesInv, ZoneOk
<1>6. rrset = [name |-> k.name, type |-> k.type, ttl |-> draft[k].ttl, rdatas |-> draft[k].rdatas]
      /\ rrset.name = k.name /\ rrset.type = k.type
  BY DEF RRset
<1>7. PICK sigs : sigs = SigsBy(KeysFor(k.type, call.keys), rrset, call) /\ y = Signed(draft, rrset, sigs)
  BY <1>2, <1>6 DEF SignInto
<1>8. /\ Names(y) = Names(draft) /\ Authentic(y) = Authentic(draft)
      /\ \A n : IsDelegation(y, n) <=> IsDelegation(draft, n)
      /\ \A j : IsAuthentic(y, j) <=> IsAuthentic(draft, j)
      /\ \A n : IsDenied(draft, n) => IsDenied(y, n)
      /\ \A j \in DOMAIN draft : \A c : j.type # "RRSIG" /\ HasSigs(draft, j, c) => HasSigs(y, j, c)
      /\ Grows(draft, y, SigKey(k.name, k.type))
  BY <1>4, <1>5, <1>6, <1>7, SigningKeepsTheRest
<1>9. HasSigs(y, k, call)
  <2>1. PICK ttl : ttl = draft[k].ttl
    OBVIOUS
  <2> QED BY <1>4, <1>5, <1>6, <1>7, <2>1, NewSigs
<1>10. Visited' = Visited /\ Secure' = Secure /\ Position' = Position
  BY <1>0, <1>3, <1>8 DEF Visited, Secure, Position
<1>11. SignerOk'
  BY <1>0, <1>3, <1>8, <1>10 DEF LoopInv, SignerOk
<1>12. InOrder'
  BY <1>0, <1>3, <1>10 DEF LoopInv, InOrder
<1>13. Delegated'
  <2>1. ASSUME NEW n PROVE IsBelow(n)' <=> IsBelow(n)
    BY <1>2, <1>3 DEF IsBelow, Truthy
  <2>2. ASSUME NEW n PROVE DelegationAt(draft, n)' = DelegationAt(draft, n)
    <3>1. Key(n, "NS") # SigKey(k.name, k.type)
      BY DEF Key, SigKey
    <3>2. Key(n, "NS") \in DOMAIN y <=> Key(n, "NS") \in DOMAIN draft
      BY <1>8, <3>1 DEF Grows
    <3> QED BY <1>2, <3>2 DEF DelegationAt, IsOrigin
  <2>3. DelegationAt(draft, Position)' = DelegationAt(draft, Position)
    BY <1>10, <2>2
  <2> QED BY <1>0, <1>3, <1>8, <1>10, <2>1, <2>3 DEF LoopInv, Delegated
<1>14. Done'
  <2>1. \A n : Linked(n)' <=> Linked(n)
    BY <1>3, <1>10 DEF Linked
  <2>2. ASSUME NEW n \in Names(y), Linked(n) PROVE IsDenied(y, n)
    BY <1>8, <2>2 DEF LoopInv, Done
  <2>3. ASSUME NEW j \in DOMAIN y, IsDone(j)' PROVE HasSigs(y, j, call)
    <3>1. /\ IsAuthentic(draft, j) /\ j.name \in Visited /\ j \notin signer.todo \ {k}
          /\ j.type = "NSEC" /\ IsDelegation(draft, j.name) => Linked(j.name)
      BY <1>3, <1>8, <1>10, <2>1, <2>3 DEF IsDone
    <3>2. CASE j = k
      BY <1>9, <3>2
    <3>3. CASE j # k
      <4>1. j.type # "RRSIG"
        BY <3>1 DEF IsAuthentic
      <4>2. j \in DOMAIN draft
        BY <1>8, <4>1 DEF Grows, SigKey
      <4>3. IsDone(j)
        BY <3>1, <3>3 DEF IsDone
      <4>4. HasSigs(draft, j, call)
        BY <4>2, <4>3 DEF LoopInv, Done
      <4> QED BY <1>8, <4>1, <4>2, <4>4
    <3> QED BY <3>2, <3>3
  <2>4. \A j \in signer.todo : j \in DOMAIN y /\ j.name = signer.name /\ IsAuthentic(y, j)
    BY <1>8 DEF LoopInv, Done, Grows
  <2> QED BY <1>3, <2>1, <2>2, <2>3, <2>4 DEF Done
<1>15. Untouched'
  <2>1. DOMAIN signer.before \subseteq DOMAIN y
    BY <1>8 DEF LoopInv, Untouched, Grows
  <2>2. \A j : IsOfSigning(y, j) <=> IsOfSigning(draft, j)
    BY <1>8 DEF IsOfSigning
  <2>3. IsOfSigning(draft, SigKey(k.name, k.type))
    <3>1. IsAuthentic(draft, Key(k.name, k.type))
      BY <1>4 DEF IsAuthentic, Key
    <3> QED BY <3>1 DEF IsOfSigning, SigKey
  <2>4. ASSUME NEW j \in DOMAIN y
        PROVE  IsOfSigning(y, j) \/ (j \in DOMAIN signer.before /\ y[j] = signer.before[j])
    BY <1>8, <2>2, <2>3 DEF LoopInv, Untouched, Grows
  <2> QED BY <1>3, <2>1, <2>4 DEF Untouched
<1> QED BY <1>11, <1>12, <1>13, <1>14, <1>15 DEF LoopInv

\* The name the loop is at comes next to the last secure one,
LEMMA NextOfLast ==
  ASSUME ZonesInv, LoopInv, at = "node", signer.last_secure # NoValue
  PROVE  signer.last_secure \in Secure /\ NextOf(draft, signer.last_secure) = signer.name
<1> PICK last : last = signer.last_secure
  OBVIOUS
<1> PICK x : x = signer.name
  OBVIOUS
<1>1. last \in Secure /\ \A n \in Secure \ {last} : Before(n, last)
  BY DEF LoopInv, InOrder
<1>2. x \in Visited \cap Authentic(draft) /\ \A n \in Visited \ {x} : Before(n, x)
  BY DEF LoopInv, SignerOk, InOrder
<1>3. Names(draft) \subseteq Seq(Int) /\ Authentic(draft) \subseteq Names(draft)
  BY NamesAreSequences DEF ZonesInv, Authentic
<1>4. Before(last, x)
  BY <1>1, <1>2 DEF Secure
<1>5. ASSUME NEW m \in Authentic(draft), Before(last, m) PROVE m = x \/ Before(x, m)
  <2>1. m \in Seq(Int) /\ last \in Seq(Int)
    BY <1>1, <1>3 DEF Secure, Visited
  <2>2. m \notin Secure
    BY <1>1, <1>5, <2>1, BeforeIsStrict
  <2>3. CASE m \in signer.left
    BY <1>2, <2>3 DEF LoopInv, InOrder
  <2>4. CASE m \notin signer.left
    BY <1>3, <2>2, <2>4 DEF Secure, Visited
  <2> QED BY <2>3, <2>4
<1> DEFINE after == {m \in Authentic(draft) : Before(last, m)}
<1>6. x \in after
  BY <1>2, <1>4
<1>7. ASSUME NEW m \in after, \A o \in after : m = o \/ Before(m, o) PROVE m = x
  <2>1. m \in Seq(Int) /\ x \in Seq(Int)
    BY <1>3, <1>6, <1>7
  <2>2. m = x \/ Before(m, x)
    BY <1>6, <1>7
  <2>3. m = x \/ Before(x, m)
    BY <1>5, <1>7
  <2> QED BY <2>1, <2>2, <2>3, BeforeIsStrict
<1>8. \A o \in after : x = o \/ Before(x, o)
  BY <1>5
<1>9. (CHOOSE m \in after : \A o \in after : m = o \/ Before(m, o)) = x
  <2> HIDE DEF after
  <2> QED BY <1>6, <1>7, <1>8
<1>10. NextOf(draft, last) = x
  BY <1>6, <1>9 DEF NextOf
<1> QED BY <1>1, <1>10

\* and the apex to the very last.
LEMMA NextOfVeryLast ==
  ASSUME ZonesInv, LoopInv, at = "next", signer.left = {}
  PROVE  /\ Visited = Names(draft) /\ Secure = Authentic(draft)
         /\ signer.last_secure \in Secure /\ NextOf(draft, signer.last_secure) = Apex
<1> PICK last : last = signer.last_secure
  OBVIOUS
<1>1. Names(draft) \subseteq Seq(Int) /\ Apex \in Names(draft) /\ NoValue \notin Names(draft)
  BY NamesAreSequences DEF ZonesInv
<1>2. Visited = Names(draft) /\ signer.name = NoValue
  BY DEF LoopInv, SignerOk, Visited
<1>3. Secure = Authentic(draft)
  BY <1>1, <1>2 DEF Secure, Authentic
<1>4. Apex \in Authentic(draft)
  BY <1>1, ApexIsFirst DEF Authentic, IsOccluded
<1>5. last \in Secure /\ \A n \in Secure \ {last} : Before(n, last)
  BY <1>3, <1>4 DEF LoopInv, InOrder
<1>6. \A m \in Authentic(draft) : ~Before(last, m)
  <2> SUFFICES ASSUME NEW m \in Authentic(draft), Before(last, m) PROVE FALSE
    OBVIOUS
  <2>1. m \in Seq(Int) /\ last \in Seq(Int)
    BY <1>1, <1>3, <1>5 DEF Authentic
  <2> QED BY <1>3, <1>5, <2>1, BeforeIsStrict
<1>7. NextOf(draft, last) = Apex
  BY <1>6 DEF NextOf
<1> QED BY <1>2, <1>3, <1>5, <1>7

\* What adding the NSEC record of the last secure name does to what is done
LEMMA LinkingKeepsDone ==
  ASSUME ZonesInv, LoopInv, NEW next, signer.last_secure \in Secure, signer.todo = {},
         next = NextOf(draft, signer.last_secure), AddNsec(signer.last_secure, next)
  PROVE  /\ Names(draft') = Names(draft) /\ Authentic(draft') = Authentic(draft)
         /\ \A m : IsDelegation(draft', m) <=> IsDelegation(draft, m)
         /\ \A m : Key(m, "NS") \in DOMAIN draft' <=> Key(m, "NS") \in DOMAIN draft
         /\ \A j : IsAuthentic(draft', j) <=> IsAuthentic(draft, j)
         /\ \A n \in Secure : IsDenied(draft', n)
         /\ \A k \in DOMAIN draft' :
              /\ IsAuthentic(draft, k) /\ k.name \in Visited
              /\ k.type = "NSEC" /\ IsDelegation(draft, k.name) => k.name \in Secure
              => HasSigs(draft', k, signer.call)
         /\ DOMAIN signer.before \subseteq DOMAIN draft'
         /\ \A k \in DOMAIN draft' : \/ IsOfSigning(draft', k)
                                     \/ k \in DOMAIN signer.before /\ draft'[k] = signer.before[k]
<1> PICK last : last = signer.last_secure
  OBVIOUS
<1> PICK y : y = draft'
  OBVIOUS
<1> PICK call : call = signer.call
  OBVIOUS
<1>1. last \in Authentic(draft) /\ last \in Names(draft)
  BY DEF Secure, Authentic
<1>2. /\ Names(y) = Names(draft) /\ Authentic(y) = Authentic(draft)
      /\ \A m : IsDelegation(y, m) <=> IsDelegation(draft, m)
      /\ \A j : IsAuthentic(y, j) <=> IsAuthentic(draft, j)
      /\ IsDenied(y, last)
      /\ \A m : m # last /\ IsDenied(draft, m) => IsDenied(y, m)
      /\ HasSigs(y, Key(last, "NSEC"), call)
      /\ \A j \in DOMAIN draft : j # Key(last, "NSEC") /\ j.type # "RRSIG" /\ HasSigs(draft, j, call)
           => HasSigs(y, j, call)
      /\ DOMAIN draft \subseteq DOMAIN y
      /\ \A j \in DOMAIN y : \/ j \in DOMAIN draft /\ y[j] = draft[j]
                             \/ j \in {Key(last, "NSEC"), SigKey(last, "NSEC")}
  BY <1>1, NsecIsAdded
<1>3. ASSUME NEW n \in Secure PROVE IsDenied(y, n)
  <2>1. CASE n = last
    BY <1>2, <2>1
  <2>2. CASE n # last
    <3>1. Linked(n) /\ n \in Names(draft)
      BY <2>2 DEF Linked, Secure, Visited
    <3>2. IsDenied(draft, n)
      BY <3>1 DEF LoopInv, Done
    <3> QED BY <1>2, <2>2, <3>2
  <2> QED BY <2>1, <2>2
<1>4. ASSUME NEW k \in DOMAIN y, IsAuthentic(draft, k), k.name \in Visited,
             k.type = "NSEC" /\ IsDelegation(draft, k.name) => k.name \in Secure
      PROVE  HasSigs(y, k, call)
  <2>1. k.type # "RRSIG"
    BY <1>4 DEF IsAuthentic
  <2>2. CASE k = Key(last, "NSEC")
    BY <1>2, <2>2
  <2>3. CASE k # Key(last, "NSEC")
    <3>1. k \in DOMAIN draft
      BY <1>2, <2>1, <2>3 DEF SigKey
    <3>2. k.type = "NSEC" => k.name # last
      <4>1. IsKey(k)
        BY <3>1 DEF ZonesInv, ZoneOk
      <4> QED BY <4>1, <2>3 DEF IsKey, Key
    <3>3. IsDone(k)
      BY <1>4, <3>2 DEF IsDone, Linked
    <3>4. HasSigs(draft, k, call)
      BY <3>1, <3>3 DEF LoopInv, Done
    <3> QED BY <1>2, <2>1, <2>3, <3>1, <3>4
  <2> QED BY <2>2, <2>3
<1>5. DOMAIN signer.before \subseteq DOMAIN y
  BY <1>2 DEF LoopInv, Untouched
<1>6. ASSUME NEW k \in DOMAIN y
      PROVE  IsOfSigning(y, k) \/ (k \in DOMAIN signer.before /\ y[k] = signer.before[k])
  <2>1. \A j : IsOfSigning(y, j) <=> IsOfSigning(draft, j)
    BY <1>2 DEF IsOfSigning
  <2>2. IsAuthentic(draft, Key(last, "NSEC"))
    BY <1>1 DEF IsAuthentic, Key
  <2>3. IsOfSigning(draft, Key(last, "NSEC")) /\ IsOfSigning(draft, SigKey(last, "NSEC"))
    BY <2>2 DEF IsOfSigning, Key, SigKey
  <2> QED BY <1>2, <2>1, <2>3 DEF LoopInv, Untouched
<1>7. \A m : Key(m, "NS") \in DOMAIN y <=> Key(m, "NS") \in DOMAIN draft
  BY <1>2 DEF Key, SigKey
<1> QED BY <1>2, <1>3, <1>4, <1>5, <1>6, <1>7

LEMMA LoopLinks ==
  ASSUME ZonesInv, LoopInv, Link
  PROVE  LoopInv'
<1> PICK last : last = signer.last_secure
  OBVIOUS
<1> PICK x : x = signer.name
  OBVIOUS
<1> PICK y : y = draft'
  OBVIOUS
<1> PICK call : call = signer.call
  OBVIOUS
<1>0. /\ at = "node" /\ signer.todo = {} /\ at' = "next" /\ relativize' = relativize
      /\ signer' = [call |-> call, own |-> signer.own, before |-> signer.before,
                    left |-> signer.left, name |-> NoValue, todo |-> signer.todo,
                    delegation |-> signer.delegation, last_secure |-> x]
  BY SignerIsARecord DEF Link
<1>1. /\ x \in Visited \cap Authentic(draft) /\ \A n \in Visited \ {x} : Before(n, x)
      /\ Visited \subseteq Names(draft) /\ Names(draft) \subseteq Seq(Int) /\ NoValue \notin Names(draft)
  BY <1>0, NamesAreSequences DEF ZonesInv, LoopInv, SignerOk, InOrder, Visited
<1>2. /\ Names(y) = Names(draft) /\ Authentic(y) = Authentic(draft)
      /\ \A m : IsDelegation(y, m) <=> IsDelegation(draft, m)
      /\ \A m : Key(m, "NS") \in DOMAIN y <=> Key(m, "NS") \in DOMAIN draft
      /\ \A j : IsAuthentic(y, j) <=> IsAuthentic(draft, j)
      /\ \A n \in Secure : IsDenied(y, n)
      /\ \A k \in DOMAIN y :
           /\ IsAuthentic(draft, k) /\ k.name \in Visited
           /\ k.type = "NSEC" /\ IsDelegation(draft, k.name) => k.name \in Secure
           => HasSigs(y, k, call)
      /\ DOMAIN signer.before \subseteq DOMAIN y
      /\ \A k \in DOMAIN y : \/ IsOfSigning(y, k)
                             \/ k \in DOMAIN signer.before /\ y[k] = signer.before[k]
  <2>1. CASE last = NoValue
    <3>1. y = draft /\ Secure = {}
      BY <1>0, <1>1, <2>1 DEF Link, LoopInv, InOrder, Secure, Visited
    <3>2. ASSUME NEW k \in DOMAIN y, IsAuthentic(draft, k), k.name \in Visited,
                 k.type = "NSEC" /\ IsDelegation(draft, k.name) => k.name \in Secure
          PROVE  HasSigs(y, k, call)
      <4>1. IsDone(k)
        BY <1>0, <3>1, <3>2 DEF IsDone
      <4> QED BY <3>1, <4>1 DEF LoopInv, Done
    <3> QED BY <3>1, <3>2 DEF LoopInv, Untouched
  <2>2. CASE last # NoValue
    <3>1. last \in Secure /\ NextOf(draft, last) = x
      BY <1>0, <2>2, NextOfLast
    <3>2. AddNsec(last, x)
      BY <2>2 DEF Link
    <3> QED BY <1>0, <3>1, <3>2, LinkingKeepsDone
  <2> QED BY <2>1, <2>2
<1>3. Visited' = Visited /\ Secure' = Secure \cup {x} /\ Position' = Position /\ Position = x
  BY <1>0, <1>1, <1>2 DEF Visited, Secure, Position
<1>4. x \notin Secure
  BY DEF Secure
<1>5. SignerOk'
  BY <1>0, <1>2 DEF LoopInv, SignerOk
<1>6. InOrder'
  <2>1. \A m \in Visited, n \in signer.left : Before(m, n)
    BY DEF LoopInv, InOrder
  <2>2. \A n \in Secure : Before(n, x)
    BY <1>1 DEF Secure
  <2> QED BY <1>0, <1>3, <2>1, <2>2 DEF InOrder
<1>7. Delegated'
  <2>1. ASSUME NEW n PROVE IsBelow(n)' <=> IsBelow(n)
    BY <1>0 DEF IsBelow, Truthy
  <2>2. DelegationAt(draft, x)' = DelegationAt(draft, x)
    BY <1>0, <1>2 DEF DelegationAt, IsOrigin
  <2>3. x = Apex => Visited = {Apex}
    BY <1>1, ApexIsFirst
  <2>4. signer.delegation = DelegationAt(draft, x)
    BY <1>1, <1>3 DEF LoopInv, Delegated
  <2>5. \A m \in Visited, n \in signer.left : IsDelegation(draft, m) /\ IsSubdomainOf(n, m) => IsBelow(n)
    BY DEF LoopInv, Delegated
  <2> QED BY <1>0, <1>1, <1>2, <1>3, <2>1, <2>2, <2>3, <2>4, <2>5 DEF Delegated
<1>8. Done'
  <2>1. ASSUME NEW n, Linked(n)' PROVE n \in Secure
    BY <1>0, <1>3, <2>1 DEF Linked
  <2>2. ASSUME NEW k \in DOMAIN y, IsDone(k)' PROVE HasSigs(y, k, call)
    <3>1. /\ IsAuthentic(draft, k) /\ k.name \in Visited
          /\ k.type = "NSEC" /\ IsDelegation(draft, k.name) => k.name \in Secure
      BY <1>2, <1>3, <2>1, <2>2 DEF IsDone
    <3> QED BY <1>2, <3>1
  <2> QED BY <1>0, <1>2, <2>1, <2>2 DEF Done
<1>9. Untouched'
  BY <1>0, <1>2 DEF Untouched
<1> QED BY <1>5, <1>6, <1>7, <1>8, <1>9 DEF LoopInv

-----------------------------------------------------------------------------
(* The theorems                                                             *)

LEMMA DnssecInvInit == DnssecInit => DnssecInv
<1> SUFFICES ASSUME DnssecInit PROVE DnssecInv
  OBVIOUS
<1> QED BY ZonesInit DEF DnssecInit, DnssecInv

LEMMA DnssecInvNext == DnssecInv /\ [DnssecNext]_dnssecVars => DnssecInv'
<1> SUFFICES ASSUME DnssecInv, [DnssecNext]_dnssecVars PROVE DnssecInv'
  OBVIOUS
<1> ZonesInv /\ (at \in {"next", "node"} => LoopInv)
  BY DEF DnssecInv
<1>1. ZonesInv'
  BY ZonesNext
<1>2. SUFFICES ASSUME at' \in {"next", "node"} PROVE LoopInv'
  BY <1>1 DEF DnssecInv
<1>3. ASSUME NEW call \in Signings, Begin(call) \/ BeginNsec3(call) PROVE LoopInv'
  <2>1. ~BeginNsec3(call)
    BY <1>2 DEF BeginNsec3
  <2> QED BY <1>3, <2>1, LoopBegins
<1>4. ASSUME NEW name \in signer.left, Skip(name) \/ Visit(name) PROVE LoopInv'
  <2>1. at = "next"
    BY <1>4 DEF Skip, Visit
  <2> QED BY <1>4, <2>1, LoopSkips, LoopVisits
<1>5. ASSUME NEW k \in signer.todo, SignRRset(k) PROVE LoopInv'
  <2>1. at = "node" /\ at' = "node"
    BY <1>2, <1>5 DEF SignRRset, SignRaises, GiveUp, GoOn
  <2> QED BY <1>5, <2>1, LoopSigns
<1>6. CASE Link
  <2>1. at = "node"
    BY <1>6 DEF Link
  <2> QED BY <1>6, <2>1, LoopLinks
<1>7. ~Return /\ ~Commit
  BY <1>2 DEF Return, Commit
<1>8. /\ \A edit \in Edits : ~Edit(edit)
      /\ \A key \in Deletions : ~Delete(key)
  BY <1>2 DEF Edit, Delete, Change
<1>9. CASE UNCHANGED dnssecVars
  <2>1. at \in {"next", "node"} /\ LoopInv
    BY <1>2, <1>9 DEF dnssecVars
  <2> QED BY <1>9, <2>1 DEF dnssecVars, LoopInv, SignerOk, InOrder, Delegated, Done, Untouched,
             Visited, Secure, Position, Linked, IsDone, IsBelow, Truthy, DelegationAt, IsOrigin
<1> QED BY <1>3, <1>4, <1>5, <1>6, <1>7, <1>8, <1>9 DEF DnssecNext, Signer

\* Signatures of the keys that should have signed are validated.
LEMMA SigsValidate ==
  ASSUME NEW z, NEW all, HasMade(z, all), \A m \in all : IsMade(m),
         NEW call \in Signings, NEW k, k.name \in Seq(Int), HasSigs(z, k, call)
  PROVE  IsSigned(z, k, call)
<1> PICK s : s = SigKey(k.name, k.type)
  OBVIOUS
<1> PICK rrset : rrset = RRset(z, k)
  OBVIOUS
<1> SUFFICES ASSUME NEW key \in Responsible(k.type, call.keys), Usable(key),
                    NEW now \in call.inception .. Expiration(call)
             PROVE  s \in DOMAIN z /\ Validate(rrset, [name |-> k.name, rdatas |-> z[s].rdatas], {key}, now)
  BY Zenon DEF IsSigned
<1>1. PICK sig : /\ s \in DOMAIN z /\ sig \in z[s].rdatas
                 /\ sig = Sign([name |-> k.name, type |-> k.type, ttl |-> sig.original_ttl,
                                rdatas |-> z[k].rdatas], key, call)
  BY KeysForAreKeys DEF HasSigs
<1> PICK own : own = [name |-> k.name, type |-> k.type, ttl |-> sig.original_ttl, rdatas |-> z[k].rdatas]
  OBVIOUS
<1>2. /\ sig.algorithm = key.algorithm /\ sig.labels = LabelCount(k.name)
      /\ sig.expiration = Expiration(call) /\ sig.inception = call.inception
      /\ sig.key_tag = key.tag /\ sig.signature.key = key.id
      /\ sig.signature.data = SignatureData(own, sig)
  BY <1>1, SignatureIs
<1>3. PICK m \in all : m.sig = sig
  BY <1>1 DEF HasMade, SigKey
<1>4. call.inception \in Int /\ Expiration(call) \in Int
  <2>1. PICK c, o, rr : c \in Signings /\ Expiration(c) # NoValue /\ sig = Sign(rr, o, c)
    <3>1. PICK c \in Signings :
            /\ Expiration(c) # NoValue
            /\ \E o \in c.keys : m.sig = Sign([name |-> m.name, type |-> m.type, ttl |-> m.sig.original_ttl,
                                              rdatas |-> m.rdatas], o, c)
      BY <1>3 DEF IsMade
    <3> QED BY <1>3, <3>1
  <2>2. Expiration(call) # NoValue
    BY <1>2, <2>1, SignatureIs
  <2> QED BY <2>2, TimesAreNumbers DEF Expiration
<1>5. sig.inception <= now /\ now <= sig.expiration
  BY <1>2, <1>4
<1>6. LabelsFit(rrset.name, sig.labels) /\ rrset.name = k.name
  BY <1>2, LabelsSayTheWildcard DEF RRset
<1>7. key \in CandidateKeys({key}, sig) /\ OkToValidate(key)
  BY <1>2 DEF CandidateKeys, Usable
<1>8. SignatureData(rrset, sig) = SignatureData(own, sig)
  BY DEF SignatureData, RRset
<1>9. Verifies(sig, SignatureData(rrset, sig), key)
  BY <1>2, <1>8 DEF Verifies
<1>10. ValidateRRsig(rrset, sig, {key}, now)
  BY <1>5, <1>6, <1>7, <1>9 DEF ValidateRRsig
<1> QED BY <1>1, <1>6, <1>10 DEF Validate

LEMMA ReturnIsWhole ==
  ASSUME DnssecInv, Return, DnssecInv'
  PROVE  ChainIsWhole(signer.before, draft', signer.call)
<1> PICK last : last = signer.last_secure
  OBVIOUS
<1> PICK y : y = draft'
  OBVIOUS
<1> PICK call : call = signer.call
  OBVIOUS
<1> ZonesInv /\ LoopInv /\ at = "next" /\ signer.left = {}
  BY DEF DnssecInv, Return
<1>1. /\ Visited = Names(draft) /\ Secure = Authentic(draft)
      /\ last \in Secure /\ NextOf(draft, last) = Apex
  BY NextOfVeryLast
<1>2. call \in Signings /\ signer.todo = {}
  BY DEF LoopInv, SignerOk
<1>3. /\ ZoneOk(y) /\ HasMade(y, signatures') /\ \A m \in signatures' : IsMade(m)
  BY DEF DnssecInv, ZonesInv, ZoneOk, HasMade, IsMade
<1>4. /\ \A n \in Authentic(y) : IsLone(y) \/ IsDenied(y, n)
      /\ \A k \in DOMAIN y : IsAuthentic(y, k) => HasSigs(y, k, call)
      /\ DOMAIN signer.before \subseteq DOMAIN y
      /\ \A k \in DOMAIN y : \/ IsOfSigning(y, k)
                             \/ k \in DOMAIN signer.before /\ y[k] = signer.before[k]
  <2>1. CASE Truthy(last)
    <3>1. AddNsec(last, Apex)
      BY <2>1 DEF Return
    <3>2. /\ Authentic(y) = Authentic(draft)
          /\ \A j : IsAuthentic(y, j) <=> IsAuthentic(draft, j)
          /\ \A n \in Secure : IsDenied(y, n)
          /\ \A k \in DOMAIN y :
               /\ IsAuthentic(draft, k) /\ k.name \in Visited
               /\ k.type = "NSEC" /\ IsDelegation(draft, k.name) => k.name \in Secure
               => HasSigs(y, k, call)
          /\ DOMAIN signer.before \subseteq DOMAIN y
          /\ \A k \in DOMAIN y : \/ IsOfSigning(y, k)
                                 \/ k \in DOMAIN signer.before /\ y[k] = signer.before[k]
      BY <1>1, <1>2, <3>1, LinkingKeepsDone
    <3>3. \A k : IsAuthentic(draft, k) => k.name \in Authentic(draft) /\ k.name \in Visited
      BY <1>1 DEF IsAuthentic, Authentic
    <3> QED BY <1>1, <3>2, <3>3
  <2>2. CASE ~Truthy(last)
    <3>1. y = draft
      BY <2>2 DEF Return
    <3>2. relativize /\ last = Apex
      BY <1>1, <2>2, NamesAreSequences DEF Truthy, ZonesInv, Authentic
    <3>3. Names(draft) = {Apex}
      BY <1>1, <3>2 DEF LoopInv, Delegated
    <3>4. ASSUME NEW k \in DOMAIN y, IsAuthentic(y, k) PROVE HasSigs(y, k, call)
      <4>1. k.name \in Visited /\ ~IsDelegation(draft, k.name)
        BY <1>1, <3>1, <3>3, <3>4 DEF IsAuthentic, Authentic, IsDelegation
      <4>2. IsDone(k)
        BY <1>2, <3>1, <3>4, <4>1 DEF IsDone
      <4> QED BY <3>1, <4>2 DEF LoopInv, Done
    <3> QED BY <3>1, <3>2, <3>3, <3>4 DEF IsLone, LoopInv, Untouched
  <2> QED BY <2>1, <2>2
<1>5. ASSUME NEW k \in DOMAIN y, IsAuthentic(y, k) PROVE IsSigned(y, k, call)
  <2>1. k.name \in Seq(Int)
    BY <1>3 DEF ZoneOk, IsKey
  <2> PICK all : all = signatures'
    OBVIOUS
  <2>2. HasMade(y, all) /\ \A m \in all : IsMade(m)
    BY <1>3
  <2> QED BY <1>2, <1>4, <1>5, <2>1, <2>2, SigsValidate
<1> QED BY <1>4, <1>5 DEF ChainIsWhole

\* Whoever has the keys accepts exactly the rrsets that were signed with them
\* (validate(), at any moment).
THEOREM VerdictsTheorem == DnssecSpec => []VerdictsAreRight
<1>1. DnssecInv => VerdictsAreRight
  BY VerdictsFollow DEF DnssecInv, ZonesInv
<1> QED BY <1>1, DnssecInvInit, DnssecInvNext, PTL DEF DnssecSpec

\* sign_zone() leaves one whole chain of NSEC records and signatures that
\* validate, touches nothing else and loses nothing; verdicts are right.
THEOREM SigningTheorem == DnssecSpec => SigningIsSound
<1>1. ASSUME DnssecInv, DnssecInv', VerdictsAreRight', [DnssecNext]_dnssecVars
      PROVE  [/\ Return => ChainIsWhole(signer.before, draft', signer.call)
              /\ zone' # zone => VerdictsAreRight']_dnssecVars
  <2>1. Return => ChainIsWhole(signer.before, draft', signer.call)
    BY <1>1, ReturnIsWhole
  <2> QED BY <1>1, <2>1
<1> QED BY <1>1, VerdictsTheorem, DnssecInvInit, DnssecInvNext, PTL DEF DnssecSpec, SigningIsSound
=============================================================================
