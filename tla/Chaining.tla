------------------------------ MODULE Chaining ------------------------------
(***************************************************************************)
(* dns.message.QueryMessage.resolve_chaining(): what a response says of    *)
(* the name that was asked for.  Aliases are followed from the question to *)
(* a name with an answer or without any alias; a negative answer holds as  *)
(* long as the closest SOA record above that name says.                    *)
(*                                                                         *)
(* A program, or a reader of octets, enters records into a response and    *)
(* resolves it, again and again.  A name is the sequence of its labels     *)
(* without regard to case; the root, or what a relative name is relative   *)
(* to, is empty.  A record of the type CNAME has a target, one of the type *)
(* SOA a minimum; the rdata of other types matters to nothing.             *)
(***************************************************************************)
EXTENDS Integers, Sequences

CONSTANTS Label, Classes, Types,
          Questions,     \* question sections
          Additions,     \* records that may be entered
          MAX_CHAIN,
          MAX_TTL,
          MaxRecords     \* bound: rrsets in a response

VARIABLES response,      \* what the message is: [qr, nxdomain, question]
          sections,      \* its rrsets
          stage,         \* "idle", or where resolve_chaining() is
          target, min_ttl, answer, cnames,    \* its variables; target is qname
          auname,
          result         \* what it returned or raised for the response as it is

chainingVars == <<response, sections, stage, target, min_ttl, answer, cnames, auname, result>>

Domains == Seq(Label)
RRs == [name : Domains, rdclass : Classes, type : Types, ttl : 0..MAX_TTL,
        target : Domains, minimum : Nat]
SectionNames == {"answer", "authority"}

ASSUME ChainingAssumption ==
  /\ Questions \subseteq Seq([name : Domains, rdclass : Classes, type : Types])
  /\ \A r \in Additions : r.section \in SectionNames /\ r.rr \in RRs
  /\ {MAX_CHAIN, MAX_TTL, MaxRecords} \subseteq Nat /\ MAX_CHAIN > 0

Sooner(a, b) == IF a < b THEN a ELSE b

-----------------------------------------------------------------------------
(* Message.find_rrset(): the index has the rrset that was made last.       *)

At(section, name, rdclass, type) ==
  {i \in DOMAIN section : section[i].name = name /\ section[i].rdclass = rdclass /\ section[i].type = type}
LastOf(I) == CHOOSE i \in I : \A j \in I : j <= i

\* A CNAME or SOA record replaces the one there was; the least ttl is kept.
Added(there, rr) == [rr EXCEPT !.ttl = Sooner(@, there.ttl)]
Entered(section, rr, unique) ==
  LET I == At(section, rr.name, rr.rdclass, rr.type)
  IN IF unique \/ I = {} THEN Append(section, rr)
     ELSE [section EXCEPT ![LastOf(I)] = Added(@, rr)]

\* What the response has for a name, of the class of the question.
Question == response.question[1]
Has(s, name, type) == At(sections[s], name, Question.rdclass, type) # {}
Found(s, name, type) == sections[s][LastOf(At(sections[s], name, Question.rdclass, type))]

-----------------------------------------------------------------------------
(* resolve_chaining() *)

NoResult == [error |-> "nothing yet", canonical_name |-> <<>>, answer |-> <<>>, minimum_ttl |-> 0, cnames |-> <<>>]
Raise(e) == /\ result' = [NoResult EXCEPT !.error = e]
            /\ stage' = "idle"
            /\ UNCHANGED <<response, sections, target, min_ttl, answer, cnames, auname>>
Return(ttl) ==
  /\ result' = [error |-> "none", canonical_name |-> target, answer |-> answer, minimum_ttl |-> ttl, cnames |-> cnames]
  /\ stage' = "idle"
  /\ UNCHANGED <<response, sections, target, min_ttl, answer, cnames, auname>>

Refuse == /\ stage = "idle"
          /\ \/ ~response.qr /\ Raise("NotQueryResponse")
             \/ response.qr /\ Len(response.question) # 1 /\ Raise("FormError")

Call == /\ stage = "idle" /\ response.qr /\ Len(response.question) = 1
        /\ stage' = "following"
        /\ target' = Question.name /\ min_ttl' = MAX_TTL /\ answer' = <<>> /\ cnames' = <<>>
        /\ UNCHANGED <<response, sections, auname, result>>

\* The loop; its count is the number of aliases.
Following == stage = "following" /\ Len(cnames) < MAX_CHAIN

FollowToAnswer ==
  /\ Following /\ Has("answer", target, Question.type)
  /\ answer' = <<Found("answer", target, Question.type)>>
  /\ min_ttl' = Sooner(min_ttl, Found("answer", target, Question.type).ttl)
  /\ stage' = "followed"
  /\ UNCHANGED <<response, sections, target, cnames, auname, result>>

FollowAlias ==
  /\ Following /\ ~Has("answer", target, Question.type)
  /\ Question.type # "CNAME" /\ Has("answer", target, "CNAME")
  /\ LET crrset == Found("answer", target, "CNAME")
     IN /\ cnames' = Append(cnames, crrset)
        /\ min_ttl' = Sooner(min_ttl, crrset.ttl)
        /\ target' = crrset.target
  /\ UNCHANGED <<response, sections, stage, answer, auname, result>>

FollowToEnd ==
  /\ Following /\ ~Has("answer", target, Question.type)
  /\ Question.type = "CNAME" \/ ~Has("answer", target, "CNAME")
  /\ stage' = "followed"
  /\ UNCHANGED <<response, sections, target, min_ttl, answer, cnames, auname, result>>

ChainTooLong ==
  stage = "following" /\ Len(cnames) >= MAX_CHAIN /\ Raise("ChainTooLong")

AnswerForNXDOMAIN ==
  stage = "followed" /\ response.nxdomain /\ answer # <<>> /\ Raise("AnswerForNXDOMAIN")

ReturnAnswer ==
  stage = "followed" /\ ~response.nxdomain /\ answer # <<>> /\ Return(min_ttl)

\* The closest SOA record at the name or above it.
LookForSOA ==
  /\ stage = "followed" /\ answer = <<>>
  /\ stage' = "negative" /\ auname' = target
  /\ UNCHANGED <<response, sections, target, min_ttl, answer, cnames, result>>

\* A bug: only the time of the SOA record bounds a negative answer.
NegativeTtlOfRecord(srrset) == srrset.ttl
NegativeTtl(srrset) == Sooner(srrset.ttl, srrset.minimum)

ReadSOA ==
  /\ stage = "negative" /\ Has("authority", auname, "SOA")
  /\ Return(Sooner(min_ttl, NegativeTtl(Found("authority", auname, "SOA"))))

GoUp ==
  /\ stage = "negative" /\ ~Has("authority", auname, "SOA") /\ auname # <<>>
  /\ auname' = Tail(auname)
  /\ UNCHANGED <<response, sections, stage, target, min_ttl, answer, cnames, result>>

NoParent ==
  stage = "negative" /\ ~Has("authority", auname, "SOA") /\ auname = <<>> /\ Return(min_ttl)

-----------------------------------------------------------------------------

ChainingInit ==
  /\ response \in [qr : BOOLEAN, nxdomain : BOOLEAN, question : Questions]
  /\ sections = [s \in SectionNames |-> <<>>]
  /\ stage = "idle" /\ result = NoResult
  /\ target = <<>> /\ min_ttl = 0 /\ answer = <<>> /\ cnames = <<>> /\ auname = <<>>

\* find_rrset(create=True) and add().
Enter(r, unique) ==
  /\ stage = "idle"
  /\ Len(sections["answer"]) + Len(sections["authority"]) < MaxRecords
  /\ sections' = [sections EXCEPT ![r.section] = Entered(@, r.rr, unique)]
  /\ result' = NoResult
  /\ UNCHANGED <<response, stage, target, min_ttl, answer, cnames, auname>>

ChainingNext ==
  \/ \E r \in Additions, unique \in BOOLEAN : Enter(r, unique)
  \/ Refuse \/ Call
  \/ FollowToAnswer \/ FollowAlias \/ FollowToEnd \/ ChainTooLong \/ AnswerForNXDOMAIN
  \/ ReturnAnswer \/ LookForSOA \/ ReadSOA \/ GoUp \/ NoParent

ChainingSpec == ChainingInit /\ [][ChainingNext]_chainingVars

-----------------------------------------------------------------------------
(* Properties. *)

\* Aliases lead from the question on while there is no answer.
Reached(aliases, i) == IF i = 0 THEN Question.name ELSE aliases[i].target
IsChain(aliases) ==
  \A i \in DOMAIN aliases :
    /\ Question.type # "CNAME" /\ ~Has("answer", Reached(aliases, i - 1), Question.type)
    /\ Has("answer", Reached(aliases, i - 1), "CNAME")
    /\ aliases[i] = Found("answer", Reached(aliases, i - 1), "CNAME")
Chains(n) == {aliases \in [1..n -> {sections["answer"][i] : i \in DOMAIN sections["answer"]}] : IsChain(aliases)}

\* The times of the closest SOA record at a name or above it, if there is one.
Superdomain(n, k) == SubSeq(n, k + 1, Len(n))
SoaTimes(n) ==
  UNION {LET srrset == Found("authority", Superdomain(n, k), "SOA") IN {srrset.ttl, srrset.minimum} :
           k \in {k \in 0..Len(n) : /\ Has("authority", Superdomain(n, k), "SOA")
                                    /\ \A j \in 0..(k - 1) : ~Has("authority", Superdomain(n, j), "SOA")}}
IsLeast(x, S) == x \in S /\ \A y \in S : x <= y

\* What an answer should be: where its aliases lead, and what is there.
IsOutcome(r) ==
  LET chain == r.cnames
      end == Reached(chain, Len(chain))
      times == {chain[i].ttl : i \in DOMAIN chain}
                 \cup IF r.answer = <<>> THEN SoaTimes(end) ELSE {r.answer[1].ttl}
  IN /\ Len(chain) < MAX_CHAIN /\ IsChain(chain) /\ r.canonical_name = end
     /\ r.answer = IF Has("answer", end, Question.type) THEN <<Found("answer", end, Question.type)>> ELSE <<>>
     /\ r.answer = <<>> => Question.type = "CNAME" \/ ~Has("answer", end, "CNAME")
     /\ r.answer # <<>> => ~response.nxdomain
     /\ IsLeast(r.minimum_ttl, {MAX_TTL} \cup times)
IsContradicted ==
  /\ response.nxdomain
  /\ \E n \in 0..(MAX_CHAIN - 1) : \E aliases \in Chains(n) : Has("answer", Reached(aliases, n), Question.type)

\* The result of a chain is where its aliases lead, and what is there; it is a
\* negative one only where neither an answer nor another alias is, and
\* an error only if there are as many aliases as MAX_CHAIN, so that a loop is
\* left, or an answer with NXDOMAIN.  It holds as long as each record that it
\* was got from, and no longer, the closest SOA record above a negative
\* answer and its minimum included (QueryMessage.resolve_chaining, and the
\* doc of ChainingResult).
ChainIsFollowed ==
  result # NoResult /\ response.qr /\ Len(response.question) = 1 =>
    \/ result.error = "none" /\ IsOutcome(result)
    \/ result.error = "ChainTooLong" /\ Chains(MAX_CHAIN) # {}
    \/ result.error = "AnswerForNXDOMAIN" /\ IsContradicted
=============================================================================
