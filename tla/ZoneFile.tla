------------------------------ MODULE ZoneFile ------------------------------
(***************************************************************************)
(* Zone files: dns.zonefile.Reader, line by line, with its directives, the *)
(* defaults that a line takes from earlier ones and the stack of included  *)
(* files, into the transaction of a zone or of read_rrsets(); and what     *)
(* Zone.to_file() writes.                                                  *)
(*                                                                         *)
(* A line is what the tokenizer makes of it: does it begin with whitespace,*)
(* and its identifiers.  An identifier is the sequence of labels it is as  *)
(* a name ("a.z." is <<"a", "z", "">>); the constants say which are TTLs   *)
(* or classes.  The rdata of A and SOA is one identifier (of the SOA, its  *)
(* minimum), that of NS and CNAME a name.  Names have no case.             *)
(***************************************************************************)
EXTENDS Naturals, SequencesExt, Functions

CONSTANTS None,
          TtlOf,        \* function: the identifiers that are TTLs, and which
          ClassOf,      \* function: the identifiers that are classes
          RangeOf,      \* function: the ranges of $GENERATE, as sets
          Expand(_, _), \* an identifier with a number for its $
          Lines,        \* the lines of files, as the environment chooses them
          ZoneReaders,  \* the calls of the reader: origin, relativize,
                        \* allowed directives, what is forced, default_ttl
          MaxLines      \* bound: lines of all the files together

VARIABLES reader,       \* the Reader and its transaction
          file,         \* the file that is read: the $INCLUDEs that led to it
          text          \* what was read: the Reader at the start, and the
                        \* lines, with their files

zoneFileVars == <<reader, file, text>>

-----------------------------------------------------------------------------
(* Names and types                                                          *)

At == <<"@">>
IsAbsolute(n) == n # <<>> /\ Last(n) = ""
IsSubdomain(n, o) == IsAbsolute(n) = IsAbsolute(o) /\ IsSuffix(o, n)
Derelativize(n, o) == IF IsAbsolute(n) THEN n ELSE n \o o
Relativize(n, o) == IF IsSubdomain(n, o) THEN SubSeq(n, 1, Len(n) - Len(o)) ELSE n

\* An origin that is the empty name is as good as none.
IsFalse(n) == n \in {None, <<>>}
ChooseRelativity(n, o, relativize) ==
  IF IsFalse(o) THEN n ELSE IF relativize THEN Relativize(n, o) ELSE Derelativize(n, o)

\* dns.name.from_text(), and the tokenizer's as_name().
FromText(token, o) ==
  LET n == IF token = At THEN <<>> ELSE token
  IN IF o = None THEN n ELSE Derelativize(n, o)
AsName(token, o, relativize, relativize_to) ==
  ChooseRelativity(FromText(token, o), IF IsFalse(relativize_to) THEN o ELSE relativize_to, relativize)
NameText(n) == IF n = <<>> THEN At ELSE n

Types == {<<"A">>, <<"NS">>, <<"CNAME">>, <<"SOA">>, <<"NSEC">>}
SOA == <<"SOA">>
CNAME == <<"CNAME">>
HasName(type) == type \in {<<"NS">>, CNAME, <<"NSEC">>}
IsSingleton(type) == type \in {SOA, CNAME, <<"NSEC">>}

\* NodeKind: NSEC may be at any name.
KindOf(type) == CASE type = CNAME -> "cname" [] type = <<"NSEC">> -> "neutral" [] OTHER -> "regular"

-----------------------------------------------------------------------------
(* The transaction: records is a function from owner and type to rdatasets. *)

NoRecords == <<>>
Conflicts(records, name, type) ==
  \E k \in DOMAIN records :
    k[1] = name /\ {KindOf(k[2]), KindOf(type)} = {"cname", "regular"}

\* Of the TTLs of an rdataset the least counts; a singleton is replaced.
UnionOf(old, ttl, rdata, type) ==
  [ttl |-> IF old.ttl < ttl THEN old.ttl ELSE ttl,
   rdatas |-> (IF IsSingleton(type) THEN {} ELSE old.rdatas) \cup {rdata}]
Put(records, name, type, ttl, rdata) ==
  LET k == <<name, type>>
      new == IF k \in DOMAIN records THEN UnionOf(records[k], ttl, rdata, type)
             ELSE [ttl |-> ttl, rdatas |-> {rdata}]
  IN [x \in DOMAIN records \cup {k} |-> IF x = k THEN new ELSE records[x]]

Fail(r, error) == [r EXCEPT !.outcome = error]
EffectiveOrigin(r) == IF r.relativize THEN <<>> ELSE r.zone_origin
AddToTxn(r, name, type, ttl, rdata) ==
  CASE type = SOA /\ name # EffectiveOrigin(r) -> Fail(r, "ValueError")
    [] Conflicts(r.records, name, type) -> Fail(r, "CNAMEAndOtherData")
    [] OTHER -> [r EXCEPT !.records = Put(@, name, type, ttl, rdata)]

-----------------------------------------------------------------------------
(* Reader                                                                   *)

Or(x, default) == IF x = None THEN default ELSE x

Unforced == [name |-> None, ttl |-> None, rdclass |-> None, rdtype |-> None]
NewReader(call) ==
  [zone_origin |-> call.origin, current_origin |-> call.origin, last_name |-> call.origin,
   last_ttl |-> None, default_ttl |-> Or(call.force.ttl, call.default_ttl),
   saved_state |-> <<>>, relativize |-> call.relativize, allowed |-> call.allowed, force |-> call.force,
   records |-> NoRecords, outcome |-> "reading"]

\* An identifier that is in the domain of f is taken, another one is left.
Take(f, ts) == IF ts # <<>> /\ ts[1] \in DOMAIN f THEN <<f[ts[1]], Tail(ts)>> ELSE <<None, ts>>
Forced(x, f, ts) == IF x # None THEN <<x, ts>> ELSE Take(f, ts)

\* [TTL] [class] [TTL] type, of which some may be forced.
Header(r, ts) ==
  LET first == Forced(r.force.ttl, TtlOf, ts)
      class == Forced(r.force.rdclass, ClassOf, first[2])
      second == Forced(first[1], TtlOf, class[2])
      type == Forced(r.force.rdtype, [t \in Types |-> t], second[2])
  IN [ttl |-> second[1], rdclass |-> Or(class[1], "IN"), rdtype |-> type[1], rest |-> type[2]]

Rdata(r, type, token) ==
  IF HasName(type) THEN AsName(token, r.current_origin, r.relativize, r.zone_origin) ELSE token
IsRdata(type, ts) == Len(ts) = 1 /\ (type = SOA => ts[1] \in DOMAIN TtlOf)

\* The minimum of the first SOA is the default, if there is none yet.
AddLine(r, name, h) ==
  LET minimum == IF h.rdtype = SOA THEN TtlOf[h.rest[1]] ELSE None
      ttl == Or(Or(Or(h.ttl, r.default_ttl), r.last_ttl), minimum)
      s == [r EXCEPT !.last_ttl = Or(h.ttl, @), !.default_ttl = Or(@, minimum)]
  IN IF ttl = None THEN Fail(s, "SyntaxError")
     ELSE AddToTxn(s, name, h.rdtype, ttl, Rdata(r, h.rdtype, h.rest[1]))

IsHeader(h) == h.rdclass = "IN" /\ h.rdtype # None /\ IsRdata(h.rdtype, h.rest)

RRLine(r, line) ==
  LET forced == r.force.name # None
      explicit == ~line.white /\ ~forced
      owner == CASE forced -> r.force.name
                 [] explicit -> AsName(line.tokens[1], r.current_origin, FALSE, None)
                 [] OTHER -> r.last_name
      s == IF forced THEN r ELSE [r EXCEPT !.last_name = owner]
      h == Header(r, IF explicit THEN Tail(line.tokens) ELSE line.tokens)
  IN CASE ~forced /\ r.current_origin = None -> Fail(r, "UnknownOrigin")
       [] ~forced /\ line.tokens = <<>> -> r
       [] owner = None -> Fail(r, "SyntaxError")
       [] r.zone_origin = None -> Fail(r, "AssertionError")
       [] ~forced /\ ~IsSubdomain(owner, r.zone_origin) -> s
       [] ~IsHeader(h) -> Fail(s, "SyntaxError")
       [] OTHER -> AddLine(s, IF forced \/ ~r.relativize THEN owner ELSE Relativize(owner, r.zone_origin), h)

TtlLine(r, ts) ==
  IF Len(ts) = 1 /\ ts[1] \in DOMAIN TtlOf THEN [r EXCEPT !.default_ttl = TtlOf[ts[1]]]
  ELSE Fail(r, "SyntaxError")

\* The name is read without an origin.  The transaction of a zone has no
\* other use for it than the reader's zone_origin.
OriginLine(r, ts) ==
  LET o == FromText(ts[1], None)
  IN IF Len(ts) = 1 THEN [r EXCEPT !.current_origin = o, !.zone_origin = Or(@, o)]
     ELSE Fail(r, "SyntaxError")

\* A file, and an origin for it.
Saved(r) == [current_origin |-> r.current_origin, last_name |-> r.last_name,
             last_ttl |-> r.last_ttl, default_ttl |-> r.default_ttl]
IncludeLine(r, ts) ==
  IF Len(ts) \notin 1..2 THEN Fail(r, "SyntaxError")
  ELSE [r EXCEPT !.saved_state = Append(@, Saved(r)),
                 !.current_origin = IF Len(ts) = 1 THEN @ ELSE FromText(ts[2], @)]

\* A range, a name, [TTL] [class] type and rdata.  The first name outside of
\* the zone ends the directive and its line; otherwise what follows on the
\* line is read as the next one.
GenerateLine(r, ts) ==
  LET head == Take(TtlOf, SubSeq(ts, 3, Len(ts)))
      class == Take(ClassOf, head[2])
      type == Take([t \in Types \ {SOA} |-> t], class[2])
      ttl == Or(Or(head[1], r.default_ttl), r.last_ttl)
      NameFor(i) == FromText(Expand(ts[2], i), r.current_origin)
      Generate(q, i) ==
        IF q.outcome # "reading" \/ ~IsSubdomain(q.last_name, r.zone_origin) THEN q
        ELSE LET name == NameFor(i)
                 s == [q EXCEPT !.last_name = name]
             IN IF ~IsSubdomain(name, r.zone_origin) THEN s
                ELSE AddToTxn(s, IF r.relativize THEN Relativize(name, r.zone_origin) ELSE name,
                              type[1], ttl, Rdata(r, type[1], Expand(type[2][1], i)))
  IN CASE r.current_origin = None -> Fail(r, "UnknownOrigin")
       [] Len(ts) < 4 \/ ts[1] \notin DOMAIN RangeOf -> Fail(r, "SyntaxError")
       [] ttl = None \/ Or(class[1], "IN") # "IN" -> Fail(r, "SyntaxError")
       [] type[1] = None \/ type[2] = <<>> -> Fail(r, "SyntaxError")
       [] r.zone_origin = None -> Fail(r, "AssertionError")
       [] OTHER ->
            LET q == FoldLeft(Generate, [r EXCEPT !.last_ttl = Or(head[1], @), !.last_name = r.zone_origin],
                              RangeOf[ts[1]])
                rest == [white |-> TRUE, tokens |-> Tail(type[2])]
            IN IF q.outcome = "reading" /\ IsSubdomain(q.last_name, r.zone_origin) /\ rest.tokens # <<>>
               THEN RRLine(q, rest)
               ELSE q

-----------------------------------------------------------------------------
(* The main loop                                                            *)

Directives == {<<"$TTL">>, <<"$ORIGIN">>, <<"$INCLUDE">>, <<"$GENERATE">>}
IsDirective(r, line) ==
  /\ ~line.white /\ line.tokens # <<>> /\ r.allowed # {}
  /\ line.tokens[1] \in Directives

ReadLine(r, line) ==
  LET c == line.tokens[1]
      ts == Tail(line.tokens)
  IN CASE ~line.white /\ line.tokens = <<>> -> r
       [] ~IsDirective(r, line) -> RRLine(r, line)
       [] c \notin r.allowed -> Fail(r, "SyntaxError")
       [] c = <<"$TTL">> -> TtlLine(r, ts)
       [] c = <<"$ORIGIN">> -> OriginLine(r, ts)
       [] c = <<"$INCLUDE">> -> IncludeLine(r, ts)
       [] c = <<"$GENERATE">> -> GenerateLine(r, ts)

\* A bug: what an included file said last goes on to count.
PopOrigin(r, saved) == [r EXCEPT !.current_origin = saved.current_origin]

\* The reader goes on where the file was included.
Pop(r, saved) ==
  [r EXCEPT !.current_origin = saved.current_origin, !.last_name = saved.last_name,
            !.last_ttl = saved.last_ttl, !.default_ttl = saved.default_ttl]
EndFile(r) ==
  IF r.saved_state = <<>> THEN [r EXCEPT !.outcome = "done"]
  ELSE [Pop(r, Last(r.saved_state)) EXCEPT !.saved_state = Front(@)]

ZoneFileInit ==
  /\ reader \in {NewReader(call) : call \in ZoneReaders}
  /\ file = <<>>
  /\ text = [start |-> reader, lines |-> <<>>]

\* A zone that has no origin yet is given an absolute one.
Sensible(r, line) ==
  r.zone_origin = None /\ line.tokens # <<>> /\ line.tokens[1] = <<"$ORIGIN">> /\ Len(line.tokens) = 2 =>
    IsAbsolute(line.tokens[2])

Read(line) ==
  LET r == ReadLine(reader, line) IN
  /\ reader.outcome = "reading"
  /\ Len(text.lines) < MaxLines
  /\ Sensible(reader, line)
  /\ reader' = r
  /\ text' = [text EXCEPT !.lines = Append(@, [line |-> line, file |-> file])]
  /\ file' = IF Len(r.saved_state) > Len(reader.saved_state)
             THEN Append(file, Len(text.lines) + 1) ELSE file

EndOfFile ==
  /\ reader.outcome = "reading"
  /\ reader' = EndFile(reader)
  /\ file' = IF file = <<>> THEN file ELSE Front(file)
  /\ UNCHANGED text

ZoneFileNext == EndOfFile \/ \E line \in Lines : Read(line)

ZoneFileSpec == ZoneFileInit /\ [][ZoneFileNext]_zoneFileVars

-----------------------------------------------------------------------------
(* Zone.to_file()                                                           *)

RRText(r, k, rdata, relativize) ==
  [white |-> FALSE,
   tokens |-> <<NameText(ChooseRelativity(k[1], r.zone_origin, relativize)),
                CHOOSE t \in DOMAIN TtlOf : TtlOf[t] = r.records[k].ttl,
                <<"IN">>, k[2],
                IF HasName(k[2]) THEN NameText(ChooseRelativity(rdata, r.zone_origin, relativize))
                ELSE rdata>>]
ToFile(r, relativize, want_origin) ==
  (IF want_origin THEN <<[white |-> FALSE, tokens |-> <<<<"$ORIGIN">>, r.zone_origin>>]>> ELSE <<>>) \o
  FlattenSeq([i \in 1..Cardinality(DOMAIN r.records) |->
     LET k == SetToSeq(DOMAIN r.records)[i]
     IN [j \in 1..Cardinality(r.records[k].rdatas) |->
           RRText(r, k, SetToSeq(r.records[k].rdatas)[j], relativize)]])

-----------------------------------------------------------------------------
(* What a file means: each line for itself, by the lines that govern it     *)

First(line) == IF line.white \/ line.tokens = <<>> THEN None ELSE line.tokens[1]
Says(line, directive) == First(line) = directive /\ directive \in text.start.allowed

\* A proper $GENERATE stands for the lines it describes, and for one with what
\* is left of its own line.
Heads == {<<>>} \cup {<<t>> : t \in DOMAIN TtlOf} \cup {<<c>> : c \in DOMAIN ClassOf}
         \cup {<<t, c>> : t \in DOMAIN TtlOf, c \in DOMAIN ClassOf}
TypeAt(ts) == {k \in 4..Len(ts) - 1 : SubSeq(ts, 4, k - 1) \in Heads /\ ts[k] \in Types \ {SOA}}
Spelling(line) ==
  LET ts == line.tokens
      k == CHOOSE j \in TypeAt(ts) : TRUE
      One(i) == [white |-> FALSE,
                 tokens |-> <<Expand(ts[3], i)>> \o SubSeq(ts, 4, k) \o <<Expand(ts[k + 1], i)>>]
      left == SubSeq(ts, k + 2, Len(ts))
      numbers == RangeOf[ts[2]]
  IN IF Says(line, <<"$GENERATE">>) /\ Len(ts) > 4 /\ ts[2] \in DOMAIN RangeOf /\ TypeAt(ts) # {}
     THEN [n \in DOMAIN numbers |-> One(numbers[n])] \o
          (IF left = <<>> THEN <<>> ELSE <<[white |-> TRUE, tokens |-> left]>>)
     ELSE <<line>>
Spelled ==
  FlattenSeq([i \in DOMAIN text.lines |->
    LET x == text.lines[i]
        lines == Spelling(x.line)
    IN [n \in DOMAIN lines |->
          [line |-> lines[n], file |-> x.file, at |-> i, generated |-> lines # <<x.line>>]]])

\* A line is governed by the lines before it in its own file, and by those
\* before the $INCLUDEs that led to the file.
Governing(S, i) == {j \in 1..(i - 1) : IsPrefix(S[j].file, S[i].file)}
LatestOf(J) == CHOOSE j \in J : \A k \in J : k <= j
FirstOf(J) == CHOOSE j \in J : \A k \in J : j <= k

IsOrigin(S, j) == Says(S[j].line, <<"$ORIGIN">>)
LeadsTo(S, j, i) == /\ Says(S[j].line, <<"$INCLUDE">>) /\ Len(S[j].line.tokens) = 3
                    /\ IsPrefix(Append(S[j].file, S[j].at), S[i].file)
OriginAt(S) ==
  LET o[i \in DOMAIN S] ==
        LET J == {j \in Governing(S, i) : IsOrigin(S, j) \/ LeadsTo(S, j, i)}
            ts == S[LatestOf(J)].line.tokens
        IN IF J = {} THEN text.start.zone_origin
           ELSE IF IsOrigin(S, LatestOf(J)) THEN FromText(ts[2], None)
           ELSE FromText(ts[3], o[LatestOf(J)])
  IN o
ZoneOriginAt(S, i) ==
  LET J == {j \in 1..(i - 1) : IsOrigin(S, j)}
  IN IF text.start.zone_origin # None \/ J = {} THEN text.start.zone_origin
     ELSE FromText(S[FirstOf(J)].line.tokens[2], None)

IsNamed == text.start.force.name # None
IsRecord(S, i) ==
  /\ \A d \in Directives : ~Says(S[i].line, d)
  /\ (IsNamed /\ S[i].line.white) \/ S[i].line.tokens # <<>>
StatesOwner(S, i) == IsRecord(S, i) /\ First(S[i].line) # None
OwnerOf(S, i) ==
  LET J == {j \in Governing(S, i) \cup {i} : StatesOwner(S, j)}
      j == LatestOf(J)
  IN IF IsNamed THEN text.start.force.name
     ELSE IF J = {} THEN text.start.last_name
     ELSE AsName(First(S[j].line), OriginAt(S)[j], FALSE, None)
InZone(S, i) == IsRecord(S, i) /\ (IsNamed \/ IsSubdomain(OwnerOf(S, i), ZoneOriginAt(S, i)))

HeaderOf(S, i) ==
  LET ts == S[i].line.tokens
  IN Header(text.start, IF StatesOwner(S, i) /\ ~IsNamed THEN Tail(ts) ELSE ts)
IsTtl(S, j) == Says(S[j].line, <<"$TTL">>)
IsSoa(S, j) == InZone(S, j) /\ HeaderOf(S, j).rdtype = SOA
StatesTtl(S, j) == (InZone(S, j) \/ S[j].generated) /\ HeaderOf(S, j).ttl # None

\* The TTL of the line, of $TTL, of the call, the minimum of the first SOA,
\* the TTL that a line had last, or the SOA's own minimum.
TtlAt(S, i) ==
  LET G == Governing(S, i)
      T == {j \in G : IsTtl(S, j)}
      A == {j \in G : IsSoa(S, j)}
      E == {j \in G : StatesTtl(S, j)}
      Minimum(j) == TtlOf[HeaderOf(S, j).rest[1]]
  IN CASE HeaderOf(S, i).ttl # None -> HeaderOf(S, i).ttl
       [] T # {} -> TtlOf[S[LatestOf(T)].line.tokens[2]]
       [] text.start.default_ttl # None -> text.start.default_ttl
       [] A # {} -> Minimum(FirstOf(A))
       [] E # {} -> HeaderOf(S, LatestOf(E)).ttl
       [] IsSoa(S, i) -> Minimum(i)
       [] OTHER -> None

NameAt(S, i) ==
  IF text.start.relativize /\ ~IsNamed THEN Relativize(OwnerOf(S, i), ZoneOriginAt(S, i)) ELSE OwnerOf(S, i)
Apex(S, i) == IF text.start.relativize THEN <<>> ELSE ZoneOriginAt(S, i)
RdataOf(S, i) ==
  LET h == HeaderOf(S, i)
      told == [text.start EXCEPT !.current_origin = OriginAt(S)[i], !.zone_origin = ZoneOriginAt(S, i)]
  IN Rdata(told, h.rdtype, h.rest[1])

IsWrong(S, i) ==
  LET line == S[i].line
      ts == line.tokens
      h == HeaderOf(S, i)
  IN \/ text.start.allowed # {} /\ First(line) \in Directives \ text.start.allowed
     \/ Says(line, <<"$TTL">>) /\ ~(Len(ts) = 2 /\ ts[2] \in DOMAIN TtlOf)
     \/ Says(line, <<"$ORIGIN">>) /\ Len(ts) # 2
     \/ Says(line, <<"$INCLUDE">>) /\ Len(ts) \notin 2..3
     \/ Says(line, <<"$GENERATE">>)
     \/ line.white /\ ts = <<>> /\ ~IsNamed /\ OriginAt(S)[i] = None
     \/ /\ IsRecord(S, i)
        /\ \/ ~IsNamed /\ (OriginAt(S)[i] = None \/ OwnerOf(S, i) = None \/ ZoneOriginAt(S, i) = None)
           \/ S[i].generated /\ line.white = FALSE /\ (TtlAt(S, i) = None \/ h.rdclass # "IN")
           \/ /\ InZone(S, i)
              /\ \/ ~IsHeader(h)
                 \/ TtlAt(S, i) = None
                 \/ h.rdtype = SOA /\ NameAt(S, i) # Apex(S, i)
                 \/ \E j \in 1..(i - 1) :
                      /\ InZone(S, j) /\ NameAt(S, j) = NameAt(S, i)
                      /\ {KindOf(HeaderOf(S, j).rdtype), KindOf(h.rdtype)} = {"cname", "regular"}

Meant(S) ==
  LET J == {i \in DOMAIN S : InZone(S, i)}
      KeyOf(i) == <<NameAt(S, i), HeaderOf(S, i).rdtype>>
      Of(k) == {i \in J : KeyOf(i) = k}
  IN [k \in {KeyOf(i) : i \in J} |->
        [ttl |-> Min({TtlAt(S, i) : i \in Of(k)}),
         rdatas |-> IF IsSingleton(k[2]) THEN {RdataOf(S, LatestOf(Of(k)))}
                    ELSE {RdataOf(S, i) : i \in Of(k)}]]

\* The reader, which goes from line to line with a handful of attributes and
\* a stack, takes from a file what its lines mean, each for itself: the owner
\* and the origin stated last before it in its file or in those that include
\* it, never in one that was included on the way (dns.zonefile.Reader.read,
\* RFC 1035 5.1); the TTL from $TTL or, as the comment at dns/zonefile.py:260
\* says, from the minimum of an SOA before which there was none.  It raises
\* exactly when a line has no meaning.
ReadAsMeant ==
  LET S == Spelled IN
  IF reader.outcome \in {"reading", "done"}
  THEN /\ \A i \in DOMAIN S : ~IsWrong(S, i)
       /\ reader.records = Meant(S)
  ELSE \E i \in DOMAIN S : IsWrong(S, i)

\* What Zone.to_file() writes of a zone that was read is read as that zone,
\* into relative names or not, with or without an $ORIGIN.
FileSurvives ==
  reader.outcome = "done" /\ reader.allowed # {} /\ reader.zone_origin # None =>
    \A relativize, want_origin \in BOOLEAN :
      LET fresh == NewReader([origin |-> IF want_origin THEN None ELSE reader.zone_origin,
                              relativize |-> reader.relativize, allowed |-> reader.allowed,
                              force |-> Unforced, default_ttl |-> None])
          r == FoldLeft(ReadLine, fresh, ToFile(reader, relativize, want_origin))
      IN r.records = reader.records /\ r.outcome = "reading"

\* A file is read as it is meant, and what was read is written as it is.
FilesAreFaithful == ReadAsMeant /\ FileSurvives
=============================================================================
