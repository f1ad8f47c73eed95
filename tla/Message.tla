------------------------------- MODULE Message -------------------------------
(***************************************************************************)
(* dns.message: messages as a program builds them, renders them (with a    *)
(* limit, truncation, padding and a signature) and reads them (strictly,   *)
(* or going on after errors), and dns.update, whose messages use classes   *)
(* for what is to be done.  Signatures and keys are in Tsig: here a TSIG   *)
(* record has its size and its place, and its key is known or not.         *)
(*                                                                         *)
(* A program builds a message record by record, renders it, and some       *)
(* reader gets its octets, or octets near them.                            *)
(***************************************************************************)
EXTENDS Renderer

CONSTANTS MinSize, MaxSize,   \* 512 and 65535
          Flags,              \* flags a program sets
          Items,              \* records it adds
          UpdateZone, Updates,\* an update's zone, and the records of its calls
          Opts,               \* OPT records: none, or an rrset, with a pad
          Sizes,              \* sizes it asks for
          Readers,            \* options of from_wire()
          MaxItems,           \* bound: records added
          MaxReceived,        \* bound: octets of a message that is read
          MaxDamaged          \* bound: where the last octet that is damaged is

VARIABLES message,   \* the message
          phase,     \* "made", "rendered" or "read"
          asked,     \* how it was rendered: [max, prefer]
          wire,      \* what came out: a result with octets
          received   \* the octets a reader gets, and its options

messageVars == <<message, phase, asked, wire, received>>

QR == 32768
TC == 512
HasFlag(flags, f) == (flags \div f) % 2 = 1
SetFlag(flags, f) == IF HasFlag(flags, f) THEN flags ELSE flags + f
Opcode(flags) == (flags \div 2048) % 16
QUERY == 0
UPDATE == 5
Rcode(flags) == flags % 16

Blank(id, flags) ==
  [id |-> id, flags |-> flags, sections |-> [s \in Sections |-> <<>>], opt |-> <<>>, tsig |-> <<>>,
   pad |-> 0, request_payload |-> 0]

-----------------------------------------------------------------------------
(* rrsets: [name, rdclass, type, deleting, ttl, rdatas].  deleting is a      *)
(* class, or 0 for none.                                                     *)

NONE == 254
SOAType == 6
CNAMEType == 5
Singletons == {SOAType, CNAMEType, 39}
Key(rr) == <<Lowered(rr.name), rr.rdclass, rr.type, rr.deleting>>
NewRRset(name, rdclass, type, deleting) ==
  [name |-> name, rdclass |-> rdclass, type |-> type, deleting |-> deleting,
   ttl |-> <<0, 0>>, rdatas |-> <<>>]

\* Message.find_rrset() by the index, which has the last rrset that was made
\* for a key.
Latest(section, key) ==
  LET found == {i \in DOMAIN section : Key(section[i]) = key}
  IN IF found = {} THEN 0 ELSE CHOOSE i \in found : \A j \in found : j <= i
Found(section, key) == Latest(section, key) # 0

\* Rdataset.add(): a type that stands alone replaces what was there, the
\* least ttl is kept, and rdata that is equal (names in any case) is not
\* added again.
Less32(a, b) == a[1] < b[1] \/ (a[1] = b[1] /\ a[2] < b[2])
SameRdata(rr, v, u) ==
  LET Form(x) == [i \in DOMAIN x |-> Canonical(SchemaOf(rr.rdclass, rr.type)[i], x[i])]
  IN Form(v) = Form(u)
AddRdata(rr, rd, ttl) ==
  [rr EXCEPT !.ttl = IF rr.rdatas = <<>> \/ Less32(ttl, @) THEN ttl ELSE @,
             !.rdatas = IF rr.type \in Singletons THEN <<rd>>
                        ELSE IF \E i \in DOMAIN @ : SameRdata(rr, @[i], rd) THEN @ ELSE Append(@, rd)]

\* A record into a section: find_rrset(create=True), and add() if there is
\* rdata (a sequence of one).
Enter(section, rr, unique, rds, ttl) ==
  LET new == unique \/ ~Found(section, Key(rr))
      made == IF new THEN Append(section, rr) ELSE section
      i == IF new THEN Len(made) ELSE Latest(section, Key(rr))
  IN IF rds = <<>> THEN made ELSE [made EXCEPT ![i] = AddRdata(@, rds[1], ttl)]

-----------------------------------------------------------------------------
(* Message.to_wire() *)

\* What is written for an rrset: the class of a deletion is the record's.
Written(rr) ==
  [name |-> rr.name, type |-> rr.type, class |-> IF rr.deleting = 0 THEN rr.rdclass ELSE rr.deleting,
   rdclass |-> rr.rdclass, ttl |-> rr.ttl, rdatas |-> rr.rdatas]

OptReserve(m) ==
  IF m.opt = <<>> THEN 0
  ELSE 11 + Len(PutOptions(m.opt[1].rdatas[1][1])) + (IF m.pad = 0 THEN 0 ELSE 4)
\* The TSIG record without compression.
TsigReserve(m) ==
  IF m.tsig = <<>> THEN 0
  ELSE Len(WriteRecord(NewRenderer(0), Written(m.tsig[1]), 1, FALSE).wire) - HeaderSize

AddItem(result, item) ==
  IF ~result.ok THEN result
  ELSE IF item.section = QUESTION THEN AddQuestion(result.r, Written(item.rr))
  ELSE AddRRset(result.r, item.section, Written(item.rr))
InOrder(m) ==
  LET Of(s) == [i \in DOMAIN m.sections[s] |-> [section |-> s, rr |-> m.sections[s][i]]]
  IN Of(QUESTION) \o Of(ANSWER) \o Of(AUTHORITY) \o Of(ADDITIONAL)
Clamped(n) == IF n < MinSize THEN MinSize ELSE IF n > MaxSize THEN MaxSize ELSE n

SizeOfSections(m, max) ==
  Clamped(IF max # 0 THEN max ELSE IF m.request_payload # 0 THEN m.request_payload ELSE MaxSize)

\* A bug: TC is set by what is missing of the additional section, too.
TruncatesAnywhere(section) == TRUE
Truncates(section) == section < ADDITIONAL

\* What is called next, unless what came before it raised.
Proceed(result, F(_)) == IF result.ok THEN F(result.r) ELSE result

AddSections(m, max) ==
  Proceed(Proceed(Reserve(NewRenderer(SizeOfSections(m, max)), OptReserve(m)),
                  LAMBDA r : Reserve(r, TsigReserve(m))),
          LAMBDA r : FoldLeft(AddItem, Done(r), InOrder(m)))

\* In the end the TSIG record, with a signature of the size of its place,
\* is added as any other.
Close(m, r) ==
  Proceed(IF m.opt = <<>> THEN Done(r)
          ELSE AddOpt(r, Written(m.opt[1]), m.pad, OptReserve(m), TsigReserve(m)),
          LAMBDA s : IF m.tsig = <<>> THEN Done(s) ELSE AddRRset(s, ADDITIONAL, Written(m.tsig[1])))

NoOctets(e) == [ok |-> FALSE, error |-> e, octets |-> <<>>]
WireOf(m, flags, result) ==
  IF result.ok THEN [ok |-> TRUE, error |-> "none", octets |-> GetWire(result.r, m.id, flags)]
  ELSE NoOctets(result.error)
FinishWire(m, prefer, body) ==
  LET cut == body.error = "TooBig"
      flags == IF cut /\ Truncates(body.r.section) THEN SetFlag(m.flags, TC) ELSE m.flags
  IN IF body.ok \/ (cut /\ prefer) THEN WireOf(m, flags, Close(m, ReleaseReserved(body.r)))
     ELSE NoOctets(body.error)
ToWire(m, max, prefer) == FinishWire(m, prefer, AddSections(m, max))

-----------------------------------------------------------------------------
(* UpdateMessage._parse_rr_header() and Message's: what the class of a       *)
(* record says, with the zone that the message is about.                     *)

Headed(class, type, deleting, empty) ==
  [ok |-> TRUE, rdclass |-> class, deleting |-> deleting, empty |-> empty]
NotHeaded == [ok |-> FALSE, rdclass |-> 0, deleting |-> 0, empty |-> FALSE]
ParseHeader(m, section, class, type) ==
  LET zone == m.sections[QUESTION] IN
  CASE Opcode(m.flags) # UPDATE -> Headed(class, type, 0, FALSE)
    [] Opcode(m.flags) = UPDATE /\ section = QUESTION ->
         IF class \in {ANY, NONE} \/ type # SOAType \/ zone # <<>> THEN NotHeaded
         ELSE Headed(class, type, 0, FALSE)
    [] Opcode(m.flags) = UPDATE /\ section # QUESTION ->
         IF zone = <<>> THEN NotHeaded
         ELSE IF class \in {ANY, NONE}
         THEN Headed(zone[1].rdclass, type, class, class = ANY \/ section = ANSWER)
         ELSE Headed(class, type, 0, FALSE)

-----------------------------------------------------------------------------
(* _WireReader.  A reading is the message so far, where the parser is, what  *)
(* went wrong, and whether the reader has stopped for it.                    *)

Reading(m, at) == [m |-> m, at |-> at, errors |-> <<>>, stopped |-> FALSE, unique |-> FALSE]
Stop(s, e) == [s EXCEPT !.stopped = TRUE, !.errors = Append(@, e)]

\* A bug: the reader does not go on to the next record.
SkipNowhere(s, e, at, w) ==
  IF at > Len(w) + 1 THEN Stop([s EXCEPT !.errors = Append(@, e)], "FormError")
  ELSE [s EXCEPT !.errors = Append(@, e)]

\* A record whose rdata is bad is left out; the next is where its length
\* says, if that is in the message.
Skip(s, e, at, w) ==
  IF at > Len(w) + 1 THEN Stop([s EXCEPT !.errors = Append(@, e)], "FormError")
  ELSE [s EXCEPT !.at = at, !.errors = Append(@, e)]

TakeQuestion(s, g) ==
  LET ws == g.val[2]
      h == ParseHeader(s.m, QUESTION, ws[2], ws[1])
  IN IF ~g.ok THEN Stop(s, "FormError")
     ELSE IF ~h.ok THEN Stop(s, "FormError")
     ELSE [s EXCEPT !.at = g.at,
                    !.m.sections[QUESTION] = Append(@, NewRRset(g.val[1], h.rdclass, ws[1], 0))]
GetQuestion(w, s) == IF s.stopped THEN s ELSE TakeQuestion(s, GetHead(w, s.at, 4))

\* OPT and TSIG records have places of their own.  With an origin, owner
\* names are made relative before they are looked at.
SpecialError(m, section, i, count, name, class, type, o) ==
  CASE type = OPTType /\ (section # ADDITIONAL \/ m.opt # <<>> \/ name # <<>> \/ o.origin = <<name>>) ->
         "BadEDNS"
    [] type = TSIGType /\ (section # ADDITIONAL \/ class # ANY \/ i # count) -> "BadTSIG"
    [] OTHER -> "none"

\* The rest of a record, after its header and its class: rd is its rdata, and
\* end is where its length says that it ends.
TakeBody(w, s, o, section, name, h, ws, rd, end) ==
  LET type == ws[1]
      ttl == <<ws[3], ws[4]>>
      unique == s.unique \/ (o.xfr /\ type = SOAType)
      alone == AddRdata(NewRRset(name, h.rdclass, type, 0), rd.val, ttl)
      rr == NewRRset(name, h.rdclass, type, h.deleting)
      Fails(e) == IF o.lenient THEN Skip(s, e, end, w) ELSE Stop(s, e)
  IN CASE (h.empty /\ ws[5] > 0) \/ ~rd.ok -> Fails("FormError")
       [] rd.ok /\ type = OPTType -> [s EXCEPT !.at = end, !.m.opt = <<alone>>]
       [] rd.ok /\ type = TSIGType ->
            IF o.key THEN [s EXCEPT !.at = end, !.m.tsig = <<[alone EXCEPT !.ttl = <<0, 0>>]>>] ELSE Fails("UnknownTSIGKey")
       [] OTHER ->
            [s EXCEPT !.at = end, !.unique = unique,
               !.m.sections[section] =
                  Enter(@, rr, unique, IF h.empty THEN <<>> ELSE <<rd.val>>,
                        IF ttl[1] >= 32768 THEN <<0, 0>> ELSE ttl)]

\* Record i of count, of which g is the head.
TakeRecord(w, s, o, section, i, count, g) ==
  LET name == g.val[1]
      ws == g.val[2]
      type == ws[1]
      special == type \in {OPTType, TSIGType}
      e == SpecialError(s.m, section, i, count, name, ws[2], type, o)
      h == IF special THEN Headed(ws[2], type, 0, FALSE) ELSE ParseHeader(s.m, section, ws[2], type)
      end == g.at + ws[5]
  IN IF ~g.ok THEN Stop(s, "FormError")
     ELSE IF special /\ e # "none" THEN Stop(s, e)
     ELSE IF ~h.ok THEN Stop(s, "FormError")
     ELSE TakeBody(w, s, o, section, name, h, ws,
                   IF h.empty THEN Got(<<>>, g.at) ELSE GetRdata(w, g.at, end - 1, h.rdclass, type), end)
GetRecord(w, s, o, section, i, count) ==
  IF s.stopped THEN s ELSE TakeRecord(w, s, o, section, i, count, GetHead(w, s.at, 10))

UpTo(n) == [i \in 1..n |-> i]
GetSection(w, s, o, section, count) ==
  FoldLeft(LAMBDA t, i : GetRecord(w, t, o, section, i, count),
           [s EXCEPT !.unique = o.unique \/ Opcode(s.m.flags) = UPDATE], UpTo(count))

\* read() and from_wire().
Outcome(e, m, errors) == [ok |-> e = "none", error |-> e, m |-> m, errors |-> errors]
ReadSectionsOf(w, o, ws) ==
  FoldLeft(LAMBDA s, section : GetSection(w, s, o, section, ws[section + 3]),
           FoldLeft(LAMBDA s, i : GetQuestion(w, s),
                    Reading(Blank(ws[1], ws[2]), HeaderSize + 1), UpTo(ws[3])),
           IF o.question_only THEN <<>> ELSE <<ANSWER, AUTHORITY, ADDITIONAL>>)
ReachEnd(w, o, s) ==
  IF ~o.question_only /\ ~s.stopped /\ ~o.trailing /\ s.at <= Len(w) THEN Stop(s, "TrailingJunk") ELSE s
Judge(o, s) ==
  LET cut == HasFlag(s.m.flags, TC) /\ o.truncated
  IN CASE s.errors # <<>> /\ ~o.lenient ->
            Outcome(IF cut /\ Head(s.errors) # "UnknownTSIGKey" THEN "Truncated" ELSE Head(s.errors), s.m, <<>>)
       [] OTHER -> IF cut THEN Outcome("Truncated", s.m, <<>>) ELSE Outcome("none", s.m, s.errors)
FromWire(w, o) ==
  IF Len(w) < HeaderSize THEN Outcome("ShortHeader", Blank(0, 0), <<>>)
  ELSE Judge(o, ReachEnd(w, o, ReadSectionsOf(w, o, Words(SubSeq(w, 1, HeaderSize)))))

-----------------------------------------------------------------------------
(* Queries and responses. *)

QuestionOf(rr) == <<Lowered(rr.name), rr.rdclass, rr.type>>
Questions(m) == {QuestionOf(m.sections[QUESTION][i]) : i \in DOMAIN m.sections[QUESTION]}
ErrorRcodes == {1, 2, 4, 5}        \* FORMERR, SERVFAIL, NOTIMP, REFUSED

\* query.is_response(other).  An extended rcode is in the OPT record, so that
\* those of the header are its lower bits; here none is extended.

\* A bug: the response may ask more.
IsResponseToLess(query, other) ==
  /\ HasFlag(other.flags, QR)
  /\ query.id = other.id
  /\ Opcode(query.flags) = Opcode(other.flags)
  /\ \/ Rcode(other.flags) \in ErrorRcodes /\ other.sections[QUESTION] = <<>>
     \/ Opcode(query.flags) = UPDATE
     \/ Questions(query) \subseteq Questions(other)

IsResponse(query, other) ==
  /\ HasFlag(other.flags, QR)
  /\ query.id = other.id
  /\ Opcode(query.flags) = Opcode(other.flags)
  /\ \/ Rcode(other.flags) \in ErrorRcodes /\ other.sections[QUESTION] = <<>>
     \/ Opcode(query.flags) = UPDATE
     \/ Questions(query) = Questions(other)

\* make_response(), for a query that is one.
RD == 256
OurPayload == 1232
MakeResponse(query) ==
  LET flags == QR + 2048 * Opcode(query.flags) + IF HasFlag(query.flags, RD) THEN RD ELSE 0
      padded == \E i \in DOMAIN query.opt : \E j \in DOMAIN query.opt[1].rdatas[1][1] :
                  query.opt[1].rdatas[1][1][j][1] = PADDING
      plain == [Blank(query.id, flags) EXCEPT !.sections[QUESTION] = query.sections[QUESTION]]
      opted == IF query.opt = <<>> THEN plain
               ELSE [plain EXCEPT !.opt = <<[query.opt[1] EXCEPT !.rdclass = OurPayload, !.ttl = <<0, 0>>,
                                                                !.rdatas = <<<<<<>>>>>>]>>,
                                  !.request_payload = query.opt[1].rdclass,
                                  !.pad = IF padded THEN 468 ELSE 0]
  IN [opted EXCEPT !.tsig = query.tsig]

-----------------------------------------------------------------------------
(* UpdateMessage's calls: each makes records, [section, name, class, type,   *)
(* deleting, ttl, rds], where rds has one rdata or none.  Type 0 stands for  *)
(* none given.                                                               *)

Record(section, name, class, type, deleting, ttl, rds) ==
  [section |-> section, name |-> name, class |-> class, type |-> type, deleting |-> deleting, ttl |-> ttl, rds |-> rds]
NoTime == <<0, 0>>
Each(section, name, type, deleting, ttl, rds) ==
  [i \in DOMAIN rds |-> Record(section, name, INET, type, deleting, ttl, <<rds[i]>>)]
Zone(name) == <<Record(QUESTION, name, INET, SOAType, 0, NoTime, <<>>)>>
Add(name, type, ttl, rds) == Each(AUTHORITY, name, type, 0, ttl, rds)
Delete(name, type, rds) ==
  CASE type = 0 -> <<Record(AUTHORITY, name, ANY, ANY, ANY, NoTime, <<>>)>>
    [] type # 0 /\ rds = <<>> -> <<Record(AUTHORITY, name, INET, type, ANY, NoTime, <<>>)>>
    [] type # 0 /\ rds # <<>> -> Each(AUTHORITY, name, type, NONE, NoTime, rds)
Replace(name, type, ttl, rds) == Delete(name, type, <<>>) \o Add(name, type, ttl, rds)
Present(name, type, rds) ==
  IF type = 0 THEN <<Record(ANSWER, name, ANY, ANY, 0, NoTime, <<>>)>>
  ELSE IF rds = <<>> THEN <<Record(ANSWER, name, ANY, type, 0, NoTime, <<>>)>>
  ELSE Each(ANSWER, name, type, 0, NoTime, rds)
Absent(name, type) == <<Record(ANSWER, name, NONE, IF type = 0 THEN ANY ELSE type, 0, NoTime, <<>>)>>

\* The records of an update are alone, in the order of the calls.
EnterRecord(m, record) ==
  [m EXCEPT !.sections[record.section] =
     Enter(@, NewRRset(record.name, record.class, record.type, record.deleting),
           Opcode(m.flags) = UPDATE \/ record.section = QUESTION, record.rds, record.ttl)]

-----------------------------------------------------------------------------
(* A program that builds a message and sends it to a reader. *)

NoWire == [ok |-> FALSE, error |-> "none", octets |-> <<>>]
NotAsked == [max |-> 0, prefer |-> FALSE]
NotReceived == [octets |-> <<>>, o |-> CHOOSE o \in Readers : TRUE]

Size(m) == Len(InOrder(m))

\* An update is about a zone from the start.
MessageInit ==
  /\ \E flags \in Flags, e \in Opts :
       LET blank == [Blank(7, flags) EXCEPT !.opt = e.opt, !.pad = e.pad, !.tsig = e.tsig,
                                            !.request_payload = e.payload]
       IN message = IF Opcode(flags) = UPDATE THEN EnterRecord(blank, Zone(UpdateZone)[1]) ELSE blank
  /\ phase = "made" /\ asked = NotAsked /\ wire = NoWire /\ received = NotReceived

\* find_rrset(create=True) and add(), once or for each record of a call.
AddRecords(records) ==
  /\ phase = "made" /\ Size(message) + Len(records) <= MaxItems
  /\ message' = FoldLeft(EnterRecord, message, records)
  /\ UNCHANGED <<phase, asked, wire, received>>
AddRecord(record) ==
  /\ Opcode(message.flags) = QUERY
  /\ record.section = QUESTION => message.sections[QUESTION] = <<>>
  /\ AddRecords(<<record>>)
CallUpdate(records) ==
  /\ Opcode(message.flags) = UPDATE
  /\ AddRecords(records)

Render(max, prefer) ==
  /\ phase = "made"
  /\ wire' = ToWire(message, max, prefer)
  /\ phase' = "rendered"
  /\ asked' = [max |-> max, prefer |-> prefer]
  /\ UNCHANGED <<message, received>>

\* Octets near w: cut short, too many, one of them changed, a record counted
\* too many or too few.
Damaged(w) ==
  {i \in {3, 6, 8, 10, 12} \cup HeaderSize + 1..MaxDamaged : i <= Len(w)}
NearWire(w) ==
  {w, SubSeq(w, 1, Len(w) - 1), SubSeq(w, 1, Len(w) - 5), w \o <<0, 1>>}
    \cup {[w EXCEPT ![i] = @ + 1] : i \in {i \in Damaged(w) : w[i] < 255}}
    \cup {[w EXCEPT ![i] = @ - 1] : i \in {i \in Damaged(w) : w[i] > 0}}

Receive(w, o) ==
  /\ phase = "rendered" /\ wire.ok /\ Len(w) <= MaxReceived
  /\ received' = [octets |-> w, o |-> o]
  /\ phase' = "read"
  /\ UNCHANGED <<message, asked, wire>>

MessageNext ==
  \/ \E record \in Items : AddRecord(record)
  \/ \E records \in Updates : CallUpdate(records)
  \/ \E max \in Sizes, prefer \in BOOLEAN : Render(max, prefer)
  \/ \E w \in NearWire(wire.octets), o \in Readers : Receive(w, o)

-----------------------------------------------------------------------------
(* Properties. *)

\* What a message says: its flags, and the records of its sections.
Says(rr) == ToSet(RecordsOf(Written(rr)))
Saying(items) == [i \in DOMAIN items |-> <<items[i].section, Says(items[i].rr)>>]
Strict == [unique |-> FALSE, trailing |-> FALSE, truncated |-> FALSE, lenient |-> FALSE,
           question_only |-> FALSE, xfr |-> FALSE, origin |-> <<>>, key |-> TRUE]

\* A message that is rendered is read as it was, whole or cut: its records
\* up to one that did not fit, in order; with the flag TC set in the octets
\* exactly when one before the additional section is missing; with its OPT
\* and its TSIG record; and never more than it may take (Message.to_wire,
\* doc of prefer_truncation).
CutHonestly ==
  phase = "rendered" =>
    LET r == FromWire(wire.octets, Strict)
        all == Saying(InOrder(message))
        got == Saying(InOrder(r.m))
        missing == {i \in DOMAIN all : i > Len(got)}
    IN /\ wire.ok =>
            /\ r.ok /\ IsPrefix(got, all)
            /\ missing # {} => asked.prefer
            /\ r.m.flags = IF \E i \in missing : all[i][1] < ADDITIONAL THEN SetFlag(message.flags, TC)
                           ELSE message.flags
            /\ Len(r.m.opt) = Len(message.opt) /\ Len(r.m.tsig) = Len(message.tsig)
            /\ Len(wire.octets) <= SizeOfSections(message, asked.max)
       /\ ~wire.ok /\ asked.prefer => wire.error = "ValueError" \/ message.pad > 0

\* The records that octets announce, found by their owners and lengths alone:
\* which of them can be read, each by itself, and where the last one ends.
Announced(w) == FoldLeft(LAMBDA n, count : n + count, 0, SubSeq(Words(SubSeq(w, 1, HeaderSize)), 3, 6))
Walk(w, key) ==
  LET questions == Words(SubSeq(w, 1, HeaderSize))[3]
      Readable(ws, at, end) == GetRdata(w, at, end, ws[2], ws[1]).ok /\ (ws[1] = TSIGType => key)
      Over(g, i) ==
        Then(g, LAMBDA soFar, at :
          IF i <= questions
          THEN Then(GetHead(w, at, 4), LAMBDA head, j : Got(Append(soFar, TRUE), j))
          ELSE Then(GetHead(w, at, 10), LAMBDA head, j :
                 LET ws == head[2]
                 IN Got(Append(soFar, Readable(ws, j, j + ws[5] - 1)), j + ws[5])))
  IN FoldLeft(Over, Got(<<>>, HeaderSize + 1), UpTo(Announced(w)))
RecordsIn(m) == Len(InOrder(m)) + Len(m.opt) + Len(m.tsig)

\* A reader that goes on after errors reports one exactly when the strict
\* reader raises, the one that it raises first, and otherwise reads the same
\* message.  Where each record is an rrset of its own (one_rr_per_rrset, and
\* updates), a message that is returned without an error has as many records
\* as its header announces; and one with errors, of octets whose owners and
\* lengths lead to their end, has every record that can be read by itself,
\* and an error for every other: a bad record costs none that comes after it
\* (from_wire(continue_on_error=True)).
ErrorsAreExact ==
  phase = "read" =>
    LET strict == FromWire(received.octets, [received.o EXCEPT !.lenient = FALSE])
        lenient == FromWire(received.octets, [received.o EXCEPT !.lenient = TRUE])
    IN /\ strict.ok => lenient.ok /\ lenient.errors = <<>> /\ lenient.m = strict.m
       /\ lenient.ok /\ lenient.errors = <<>> => strict.ok
       /\ ~strict.ok /\ lenient.ok => Head(lenient.errors) = strict.error
       /\ lenient.ok /\ ~received.o.question_only =>
            LET walk == Walk(received.octets, received.o.key)
                update == Opcode(lenient.m.flags) = UPDATE
                readable == {i \in DOMAIN walk.val : walk.val[i]}
            IN /\ lenient.errors = <<>> /\ (received.o.unique \/ update) =>
                    RecordsIn(lenient.m) = Announced(received.octets)
               /\ /\ received.o.unique /\ ~update /\ walk.ok
                  /\ IF received.o.trailing THEN walk.at <= Len(received.octets) + 1
                     ELSE walk.at = Len(received.octets) + 1
                  /\ {"BadEDNS", "BadTSIG"} \cap ToSet(lenient.errors) = {}
                  => /\ RecordsIn(lenient.m) = Cardinality(readable)
                     /\ Len(lenient.errors) = Len(walk.val) - Cardinality(readable)

Asking(m, question) == [m EXCEPT !.sections[QUESTION] = question]

\* What make_response() makes is a response to the query it was made from
\* once it was sent, and of the queries that differ from that one in what they
\* ask it answers none, but for updates, which ask nothing (is_response,
\* make_response).
ResponsesMatch ==
  phase = "made" /\ ~HasFlag(message.flags, QR) =>
    LET r == FromWire(ToWire(MakeResponse(message), 0, TRUE).octets, Strict)
        questions == {<<NewRRset(i.name, i.class, i.type, 0)>> : i \in {i \in Items : i.section = QUESTION}}
    IN /\ r.ok /\ IsResponse(message, r.m)
       /\ \A question \in questions \cup {<<>>} :
            IsResponse(Asking(message, question), r.m) =>
              Opcode(message.flags) = UPDATE \/ Questions(Asking(message, question)) = Questions(message)

\* dns/message.py:1352, of from_wire(): "Raises BadEDNS if an OPT record was
\* in the wrong section, or occurred more than once".
OptIsWelcome ==
  phase = "rendered" /\ wire.ok =>
    \A origin \in {<<>>} \cup {<<n>> : n \in {<<>>, <<<<98>>>>}} :
      FromWire(wire.octets, [Strict EXCEPT !.origin = origin, !.xfr = TRUE]).error # "BadEDNS"
=============================================================================
