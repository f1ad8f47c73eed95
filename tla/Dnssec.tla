------------------------------- MODULE Dnssec -------------------------------
(***************************************************************************)
(* Signing a zone and validating its rrsets (dns.dnssec).                  *)
(*                                                                         *)
(* sign_zone() works in a write transaction, its own or its caller's, one  *)
(* name after the other; each step here is one round of one of its loops.  *)
(* Any of them may raise, and the caller of a transaction may then give it *)
(* up or go on with what was done.                                         *)
(*                                                                         *)
(* A name is the sequence of its labels from the zone's origin down,       *)
(* numbered in canonical order; 0 is the asterisk.  A zone that is         *)
(* relativized has the empty name at its apex, which is false in Python as *)
(* None is; one that is not has its origin there.  A signature is the      *)
(* private key and the data that were signed, which nobody without the key *)
(* can make.  The signer's name is the zone's.                             *)
(***************************************************************************)
EXTENDS Integers, SequencesExt, FiniteSetsExt

CONSTANTS NoValue,      \* None in the code
          Zones,        \* the zones to begin with
          Edits,        \* what a program puts: an rdataset and its place
          Deletions,    \* the places of the rdatasets that it deletes
          Signings,     \* the calls of sign_zone()
          Owners, Covered, Contents, \* what a validator is shown: owners, types
                        \* and sets of rdata
          Rings,        \* the sets of DNSKEYs that a validator has
          Times,        \* and the time by its clock
          DeniedToSign, DeniedToValidate, \* algorithms, by the policy
          MaxEdits,     \* bounds: edits of a program,
          MaxSignings   \* and calls of sign_zone()

VARIABLES zone,         \* the published zone: a function to rdatasets
          draft,        \* the zone in the open write transaction, or zone
          at,           \* where the program is: "closed", "open" (a
                        \* transaction), or in sign_zone() at the "next" name
                        \* or within a "node"
          signer,       \* the variables of sign_zone()
          relativize,
          edits, signings,
          signatures    \* every signature made: owner, type, rdatas, rrsig

dnssecVars == <<zone, draft, at, signer, relativize, edits, signings, signatures>>

-----------------------------------------------------------------------------
(* Names                                                                    *)

Apex == <<>>
OriginSize == 2         \* the labels of the origin: its own, and the root
FullLength(n) == Len(n) + OriginSize
IsWild(n) == n # <<>> /\ n[Len(n)] = 0
IsSubdomainOf(n, m) == Len(m) <= Len(n) /\ \A i \in 1 .. Len(m) : n[i] = m[i]

\* Is n true, and is it zone.origin?
Truthy(n) == n # NoValue /\ ~(relativize /\ n = Apex)
IsOrigin(n) == ~relativize /\ n = Apex

\* From the origin down, label by label.
Before(n, m) ==
  \/ n # m /\ IsSubdomainOf(m, n)
  \/ \E i \in 1 .. Len(n) :
       /\ i <= Len(m) /\ n[i] < m[i]
       /\ \A j \in 1 .. i - 1 : n[j] = m[j]

Names(z) == {k.name : k \in DOMAIN z}
TypesAt(z, n) == {k.type : k \in {j \in DOMAIN z : j.name = n}}

-----------------------------------------------------------------------------
(* The transaction                                                          *)

Key(name, type) == [name |-> name, type |-> type, covers |-> "NONE"]
SigKey(name, type) == [name |-> name, type |-> "RRSIG", covers |-> type]

\* NodeKind
Classify(k) ==
  LET type == IF k.type = "RRSIG" THEN k.covers ELSE k.type
  IN CASE type = "CNAME" -> "CNAME"
       [] type \in {"NSEC", "NSEC3", "KEY"} -> "NEUTRAL"
       [] OTHER -> "REGULAR"
Clash(j, k) == j.name = k.name /\ {Classify(j), Classify(k)} = {"CNAME", "REGULAR"}

\* Of the TTLs of an rdataset the least counts; NSEC is a singleton.
Replace(z, k, rdataset) ==
  [j \in {i \in DOMAIN z : ~Clash(i, k)} \cup {k} |-> IF j = k THEN rdataset ELSE z[j]]
AddRdatas(z, k, ttl, rdatas) ==
  Replace(z, k,
    IF k \notin DOMAIN z THEN [ttl |-> ttl, rdatas |-> rdatas]
    ELSE [ttl |-> Min({ttl, z[k].ttl}),
          rdatas |-> (IF k.type = "NSEC" THEN {} ELSE z[k].rdatas) \cup rdatas])
RRset(z, k) == [name |-> k.name, type |-> k.type, ttl |-> z[k].ttl, rdatas |-> z[k].rdatas]

-----------------------------------------------------------------------------
(* Signatures                                                               *)

OkToSign(key) == key.algorithm \notin DeniedToSign
OkToValidate(key) == key.algorithm \notin DeniedToValidate

\* _make_rrsig_signature_data(), which raises if the labels of the signature do
\* not go with the name.
Unsigned(sig) == [sig EXCEPT !.signature = NoValue]
LabelsFit(n, labels) ==
  /\ IsWild(n) => labels = FullLength(n) - 2
  /\ labels <= FullLength(n) - 1
Expanded(n, labels) ==
  IF labels < FullLength(n) - 1 THEN Append(SubSeq(n, 1, labels + 1 - OriginSize), 0) ELSE n
SignatureData(rrset, sig) ==
  [rrsig |-> Unsigned(sig), name |-> Expanded(rrset.name, sig.labels),
   type |-> rrset.type, ttl |-> sig.original_ttl, rdatas |-> rrset.rdatas]

Expiration(call) == IF call.expiration # NoValue THEN call.expiration
                    ELSE IF call.lifetime # NoValue THEN call.inception + call.lifetime ELSE NoValue

LabelCount(n) == FullLength(n) - (IF IsWild(n) THEN 2 ELSE 1)
Template(rrset, key, call) ==
  [covered |-> rrset.type, algorithm |-> key.algorithm, labels |-> LabelCount(rrset.name),
   original_ttl |-> rrset.ttl, expiration |-> Expiration(call), inception |-> call.inception,
   key_tag |-> key.tag, signature |-> NoValue]
Sign(rrset, key, call) ==
  LET sig == Template(rrset, key, call)
  IN [sig EXCEPT !.signature = [key |-> key.id, data |-> SignatureData(rrset, sig)]]

\* All keys sign everything, unless some are key signing keys and others not.
Ksks(keys) == LET seps == {key \in keys : key.sep} IN IF seps = {} THEN keys ELSE seps
Zsks(keys) == LET others == {key \in keys : ~key.sep} IN IF others = {} THEN keys ELSE others
KeysFor(type, keys) == IF type \in {"DNSKEY", "CDS", "CDNSKEY"} THEN Ksks(keys) ELSE Zsks(keys)

MaySign(keys, call) == (\A key \in keys : OkToSign(key)) /\ (keys # {} => Expiration(call) # NoValue)
SigsBy(keys, rrset, call) == {Sign(rrset, key, call) : key \in keys}
Signed(z, rrset, sigs) ==
  IF sigs = {} THEN z ELSE AddRdatas(z, SigKey(rrset.name, rrset.type), rrset.ttl, sigs)
Made(rrset, sigs) ==
  {[name |-> rrset.name, type |-> rrset.type, rdatas |-> rrset.rdatas, sig |-> sig] : sig \in sigs}

\* default_rrset_signer(), to a zone z.
SignInto(z, rrset, call) ==
  LET keys == KeysFor(rrset.type, call.keys)
      sigs == SigsBy(keys, rrset, call)
  IN /\ MaySign(keys, call)
     /\ draft' = Signed(z, rrset, sigs)
     /\ signatures' = signatures \cup Made(rrset, sigs)

\* sign_zone() raises: its own transaction is rolled back, as one of its caller
\* may be; or the caller goes on with it as z.
NotSigning == [call |-> NoValue, own |-> FALSE, before |-> <<>>, left |-> {}, name |-> NoValue,
               todo |-> {}, delegation |-> NoValue, last_secure |-> NoValue]
GiveUp == draft' = zone /\ at' = "closed" /\ signer' = NotSigning
GoOn(z) == ~signer.own /\ draft' = z /\ at' = "open" /\ signer' = NotSigning

\* Some keys may have signed before the one that the policy denies.
SignRaises(z, rrset, call) ==
  LET keys == KeysFor(rrset.type, call.keys)
  IN /\ ~MaySign(keys, call)
     /\ \/ GiveUp /\ UNCHANGED signatures
        \/ \E before \in SUBSET {key \in keys : OkToSign(key)} :
             LET sigs == SigsBy(before, rrset, call)
             IN /\ MaySign(before, call)
                /\ GoOn(Signed(z, rrset, sigs))
                /\ signatures' = signatures \cup Made(rrset, sigs)

-----------------------------------------------------------------------------
(* sign_zone()                                                              *)

DnskeyTtl(z, call) ==
  CASE call.dnskey_ttl # NoValue -> call.dnskey_ttl
    [] Key(Apex, "DNSKEY") \in DOMAIN z -> z[Key(Apex, "DNSKEY")].ttl
    [] OTHER -> z[Key(Apex, "SOA")].ttl
WithDnskeys(z, call) ==
  IF call.add_dnskey /\ call.keys # {}
  THEN AddRdatas(z, Key(Apex, "DNSKEY"), DnskeyTtl(z, call), call.keys)
  ELSE z

\* NSEC3 is refused when the DNSKEYs are in the zone.
BeginNsec3(call) ==
  /\ at \in {"closed", "open"} /\ signings < MaxSignings /\ call.nsec3
  /\ signings' = signings + 1
  /\ \/ draft' = zone /\ at' = "closed"
     \/ at = "open" /\ draft' = WithDnskeys(draft, call) /\ UNCHANGED at
  /\ UNCHANGED <<zone, signer, relativize, edits, signatures>>

Begin(call) ==
  /\ at \in {"closed", "open"} /\ signings < MaxSignings /\ ~call.nsec3
  /\ signings' = signings + 1
  /\ draft' = WithDnskeys(draft, call)
  /\ at' = "next"
  /\ signer' = [NotSigning EXCEPT !.call = call, !.own = (at = "closed"), !.before = draft,
                                  !.left = Names(draft')]
  /\ UNCHANGED <<zone, relativize, edits, signatures>>

\* A bug: the apex is taken for a delegation.
DelegationAtAny(z, name) == IF Key(name, "NS") \in DOMAIN z THEN name ELSE NoValue

DelegationAt(z, name) == IF Key(name, "NS") \in DOMAIN z /\ ~IsOrigin(name) THEN name ELSE NoValue

\* Names below delegations are not secure; of a delegation only the DS records
\* are signed.
IsBelow(name) == Truthy(signer.delegation) /\ IsSubdomainOf(name, signer.delegation)
ToSign(z, name, delegation) ==
  {k \in DOMAIN z : k.name = name /\ k.type # "RRSIG" /\ (Truthy(delegation) => k.type = "DS")}

\* The names were sorted.
IsNext(name) == name \in signer.left /\ \A m \in signer.left \ {name} : Before(name, m)

Skip(name) ==
  /\ at = "next" /\ IsNext(name) /\ IsBelow(name)
  /\ signer' = [signer EXCEPT !.left = @ \ {name}]
  /\ UNCHANGED <<zone, draft, at, relativize, edits, signings, signatures>>

Visit(name) ==
  /\ at = "next" /\ IsNext(name) /\ ~IsBelow(name)
  /\ at' = "node"
  /\ LET delegation == DelegationAt(draft, name)
     IN signer' = [signer EXCEPT !.left = @ \ {name}, !.name = name, !.delegation = delegation,
                                 !.todo = ToSign(draft, name, delegation)]
  /\ UNCHANGED <<zone, draft, relativize, edits, signings, signatures>>

SignRRset(k) ==
  /\ at = "node" /\ k \in signer.todo
  /\ \/ /\ SignInto(draft, RRset(draft, k), signer.call)
        /\ signer' = [signer EXCEPT !.todo = @ \ {k}]
        /\ UNCHANGED at
     \/ SignRaises(draft, RRset(draft, k), signer.call)
  /\ UNCHANGED <<zone, relativize, edits, signings>>

\* The TTL of NSEC records is from the SOA of the published zone.
Minimum(z) == (CHOOSE soa \in z[Key(Apex, "SOA")].rdatas : TRUE).minimum
NsecFor(name, next) ==
  LET rdata == [next |-> next, types |-> TypesAt(draft, name) \cup {"RRSIG", "NSEC"}]
  IN [name |-> name, type |-> "NSEC", ttl |-> Minimum(zone), rdatas |-> {rdata}]
WithNsec(name, next) ==
  LET nsec == NsecFor(name, next)
  IN AddRdatas(draft, Key(name, "NSEC"), nsec.ttl, nsec.rdatas)
AddNsec(name, next) == SignInto(WithNsec(name, next), NsecFor(name, next), signer.call)

\* The name becomes the last secure one, and next to the one that was it.  This
\* cannot raise any more: the same keys have signed the SOA.
Link ==
  /\ at = "node" /\ signer.todo = {}
  /\ IF signer.last_secure # NoValue THEN AddNsec(signer.last_secure, signer.name)
     ELSE UNCHANGED <<draft, signatures>>
  /\ at' = "next"
  /\ signer' = [signer EXCEPT !.last_secure = signer.name, !.name = NoValue]
  /\ UNCHANGED <<zone, relativize, edits, signings>>

Return ==
  /\ at = "next" /\ signer.left = {}
  /\ IF Truthy(signer.last_secure) THEN AddNsec(signer.last_secure, Apex)
     ELSE UNCHANGED <<draft, signatures>>
  /\ zone' = IF signer.own THEN draft' ELSE zone
  /\ at' = IF signer.own THEN "closed" ELSE "open"
  /\ signer' = NotSigning
  /\ UNCHANGED <<relativize, edits, signings>>

-----------------------------------------------------------------------------
(* Validation                                                               *)

CandidateKeys(keys, sig) ==
  {key \in keys : key.algorithm = sig.algorithm /\ key.tag = sig.key_tag /\ key.zone /\ key.protocol = 3}
Verifies(sig, data, key) == sig.signature.key = key.id /\ sig.signature.data = data

ValidateRRsig(rrset, sig, keys, now) ==
  /\ sig.inception <= now /\ now <= sig.expiration
  /\ LabelsFit(rrset.name, sig.labels)
  /\ \E key \in CandidateKeys(keys, sig) : OkToValidate(key) /\ Verifies(sig, SignatureData(rrset, sig), key)
Validate(rrset, sigs, keys, now) ==
  /\ rrset.name = sigs.name
  /\ \E sig \in sigs.rdatas : ValidateRRsig(rrset, sig, keys, now)

-----------------------------------------------------------------------------
(* What a program does                                                      *)

IsKey(k) ==
  /\ k = [name |-> k.name, type |-> k.type, covers |-> k.covers] /\ k.name \in Seq(Int)
  /\ k.type # "RRSIG" => k.covers = "NONE"

\* The SOA is always there: signing a zone without one raises.  All signatures
\* are made by sign_zone().
ASSUME NamesAreValues == NoValue \notin Seq(Int) /\ Owners \subseteq Seq(Int)
ASSUME ZonesAreValid ==
  \A z \in Zones :
    /\ Key(Apex, "SOA") \in DOMAIN z
    /\ \A k \in DOMAIN z : IsKey(k) /\ k.type # "RRSIG" /\ \A j \in DOMAIN z : ~Clash(j, k)
ASSUME EditsAreValid ==
  /\ \A edit \in Edits : /\ IsKey(edit.key) /\ edit.key.type # "RRSIG"
                         /\ ~Clash(edit.key, Key(Apex, "SOA"))
  /\ Key(Apex, "SOA") \notin Deletions
ASSUME TimesAreNumbers ==
  \A call \in Signings : /\ call.inception \in Int
                         /\ {call.expiration, call.lifetime} \subseteq Int \cup {NoValue}
ASSUME IdsAreOfKeys ==
  LET all == UNION ({call.keys : call \in Signings} \cup Rings)
  IN \A key, other \in all : key.id = other.id => key = other

DnssecInit ==
  /\ zone \in Zones /\ draft = zone
  /\ at = "closed" /\ signer = NotSigning
  /\ relativize \in BOOLEAN
  /\ edits = 0 /\ signings = 0 /\ signatures = {}

Change ==
  /\ at \in {"closed", "open"} /\ at' = "open"
  /\ edits < MaxEdits /\ edits' = edits + 1
  /\ UNCHANGED <<zone, signer, relativize, signings, signatures>>
Edit(edit) == Change /\ draft' = Replace(draft, edit.key, edit.rdataset)
Delete(key) == Change /\ draft' = [k \in DOMAIN draft \ {key} |-> draft[k]]

Commit ==
  /\ at = "open" /\ at' = "closed"
  /\ zone' = draft
  /\ UNCHANGED <<draft, signer, relativize, edits, signings, signatures>>

Signer ==
  \/ \E call \in Signings : Begin(call) \/ BeginNsec3(call)
  \/ \E name \in signer.left : Skip(name) \/ Visit(name)
  \/ \E k \in signer.todo : SignRRset(k)
  \/ Link \/ Return

DnssecNext ==
  \/ \E edit \in Edits : Edit(edit)
  \/ \E key \in Deletions : Delete(key)
  \/ Commit
  \/ Signer

DnssecSpec == DnssecInit /\ [][DnssecNext]_dnssecVars
-----------------------------------------------------------------------------
(* What signatures are for                                                  *)

IsDelegation(z, n) == n # Apex /\ Key(n, "NS") \in DOMAIN z
IsOccluded(z, n) == \E m \in Names(z) \ {n} : IsDelegation(z, m) /\ IsSubdomainOf(n, m)
Authentic(z) == {n \in Names(z) : ~IsOccluded(z, n)}
NextOf(z, n) ==
  LET after == {m \in Authentic(z) : Before(n, m)}
  IN IF after = {} THEN Apex ELSE CHOOSE m \in after : \A o \in after : m = o \/ Before(m, o)
IsDenied(z, n) ==
  /\ Key(n, "NSEC") \in DOMAIN z
  /\ z[Key(n, "NSEC")].rdatas = {[next |-> NextOf(z, n), types |-> TypesAt(z, n) \cup {"RRSIG"}]}

IsForKeys(type) == type \in {"DNSKEY", "CDS", "CDNSKEY"}
Responsible(type, keys) ==
  {key \in keys : IF IsForKeys(type) THEN key.sep \/ \A other \in keys : ~other.sep
                  ELSE ~key.sep \/ \A other \in keys : other.sep}
Usable(key) == key.zone /\ key.protocol = 3 /\ OkToValidate(key)
IsAuthentic(z, k) ==
  /\ k.name \in Authentic(z) /\ k.type # "RRSIG"
  /\ IsDelegation(z, k.name) => k.type \in {"DS", "NSEC"}

\* Who validates k with one of the keys that should have signed it succeeds.
IsSigned(z, k, call) ==
  \A key \in {x \in Responsible(k.type, call.keys) : Usable(x)} :
    \A now \in call.inception .. Expiration(call) :
      /\ SigKey(k.name, k.type) \in DOMAIN z
      /\ Validate(RRset(z, k), [name |-> k.name, rdatas |-> z[SigKey(k.name, k.type)].rdatas], {key}, now)

\* A relativized zone of nothing but its apex.
IsLone(z) == relativize /\ Names(z) = {Apex}

\* What sign_zone() may write.
IsOfSigning(z, k) ==
  \/ k = Key(Apex, "DNSKEY")
  \/ k.type = "NSEC"
  \/ k.type = "RRSIG" /\ IsAuthentic(z, Key(k.name, k.covers))

ChainIsWhole(before, after, call) ==
  /\ \A n \in Authentic(after) : IsLone(after) \/ IsDenied(after, n)
  /\ \A k \in DOMAIN after : IsAuthentic(after, k) => IsSigned(after, k, call)
  /\ DOMAIN before \subseteq DOMAIN after
  /\ \A k \in DOMAIN after : IsOfSigning(after, k) \/ (k \in DOMAIN before /\ after[k] = before[k])

\* A wildcard stands for the names below its parent, and for itself.
StandsFor(n, m) ==
  \/ n = m
  \/ IsWild(n) /\ ~IsWild(m) /\ Len(m) >= Len(n) /\ IsSubdomainOf(m, Front(n))
MayAccept(rrset, sigs, keys, time) ==
  /\ rrset.name = sigs.name
  /\ \E m \in signatures :
       /\ m.sig \in sigs.rdatas /\ StandsFor(m.name, rrset.name)
       /\ m.type = rrset.type /\ m.rdatas = rrset.rdatas
       /\ m.sig.inception <= time /\ time <= m.sig.expiration
       /\ \E key \in keys : key.id = m.sig.signature.key /\ Usable(key)

\* A validator is shown signatures of the zone with any owner, or altered with
\* the right one.
Altered(sig) == {[sig EXCEPT !.expiration = @ + 1], [sig EXCEPT !.labels = @ + 1]}
Shown(k, owner) ==
  {zone[k].rdatas} \cup
  IF owner = k.name THEN UNION {{{t} : t \in Altered(sig)} : sig \in zone[k].rdatas} ELSE {}
VerdictsAreRight ==
  \A k \in {j \in DOMAIN zone : j.type = "RRSIG" /\ j.covers \in Covered}, owner \in Owners :
    \A rdatas \in Contents \cup {zone[j].rdatas : j \in {Key(k.name, k.covers)} \cap DOMAIN zone},
       shown \in Shown(k, owner), keys \in Rings, time \in Times :
      LET rrset == [name |-> owner, type |-> k.covers, rdatas |-> rdatas]
          sigs == [name |-> owner, rdatas |-> shown]
      IN Validate(rrset, sigs, keys, time) <=> MayAccept(rrset, sigs, keys, time)

\* sign_zone() makes of the names that are not below a delegation one chain of
\* NSEC records, each with the types that are there, in canonical order and
\* back to the apex; whoever has the key and the time validates every rrset
\* that the zone answers for; nothing else is touched, and nothing lost
\* (dns/dnssec.py:1112-1188).  validate() accepts an rrset exactly if someone
\* with a key that it has, and that its policy admits, has signed it or the
\* wildcard it was made from, for this time (dns/dnssec.py:337-477).
SigningIsSound ==
  [][/\ Return => ChainIsWhole(signer.before, draft', signer.call)
     /\ zone' # zone => VerdictsAreRight']_dnssecVars

\* After sign_zone() each name of the zone's own has an NSEC record, as the
\* comment at dns/dnssec.py:1180 means it to be: "We need "is not None" as the
\* empty name is False because its length is 0."
EveryNameIsDenied ==
  [][Return => \A n \in Authentic(draft') : IsDenied(draft', n)]_dnssecVars
=============================================================================
