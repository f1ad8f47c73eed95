------------------------------ MODULE Renderer ------------------------------
(***************************************************************************)
(* dns.renderer.Renderer: messages in wire format, with a table of the     *)
(* names written so far for compression, a size that must not be passed,   *)
(* space that is reserved for records that come last, and padding.         *)
(*                                                                         *)
(* The operations are functions from a renderer to what they return: the   *)
(* renderer after them, and whether they raised.  A program calls them in  *)
(* any order, and goes on when one raises, as Message.to_wire does.        *)
(***************************************************************************)
EXTENDS RdataSpecials

CONSTANTS MaxPointer,      \* the last offset a pointer can hold: 16383
          RenderSizes,     \* sizes a program asks for
          RenderQuestions, \* questions, [name, type, class]
          RenderRRsets,    \* and rrsets, [name, type, class, rdclass, ttl, rdatas], it has
          MaxCalls         \* bound: no call once so many records were taken

VARIABLES renderer,        \* the renderer
          added            \* what it was given and did not refuse, per section

rendererVars == <<renderer, added>>

QUESTION == 0
ANSWER == 1
AUTHORITY == 2
ADDITIONAL == 3
Sections == QUESTION..ADDITIONAL

ANY == 255
TypeSchema == 1 :> A @@ 2 :> NS @@ 5 :> CNAME @@ 6 :> SOA @@ 15 :> MX @@ 39 :> DNAME @@ 41 :> OPT
                @@ 250 :> TSIG
\* A type nobody knows, or a type of class IN in another class, is octets.
INET == 1
CH == 3
SchemaOf(class, type) ==
  CASE type = 1 /\ class = CH -> CHA
    [] type = 1 /\ class \notin {INET, CH} -> GenericRdata
    [] type # 1 /\ type \in DOMAIN TypeSchema -> TypeSchema[type]
    [] type \notin DOMAIN TypeSchema -> GenericRdata
    [] OTHER -> A
OPTType == 41
TSIGType == 250
PADDING == 12

-----------------------------------------------------------------------------
(* The state of a renderer: what it has written, where names are in it (in  *)
(* lower case, without the root), the section it is in, and so on.          *)

HeaderSize == 12
NewRenderer(max) ==
  [wire |-> Rep(0, HeaderSize), table |-> <<>>, section |-> QUESTION,
   counts |-> [s \in Sections |-> 0], max |-> max, reserved |-> 0, padded |-> FALSE]

Done(r) == [ok |-> TRUE, error |-> "none", r |-> r]
Raised(e, r) == [ok |-> FALSE, error |-> e, r |-> r]

Write(r, os) == [r EXCEPT !.wire = @ \o os]

\* Name.to_wire(): the longest suffix that is in the table is a pointer; the
\* suffixes before it are noted, where a pointer can reach them.
WriteName(r, n, compress) ==
  LET lowered == Lowered(n)
      After(i) == SubSeq(lowered, i, Len(n))
      known == {i \in DOMAIN n : compress /\ After(i) \in DOMAIN r.table}
      cut == IF known = {} THEN Len(n) + 1 ELSE CHOOSE i \in known : \A j \in known : i <= j
      Offset(i) == Len(r.wire) + NameSize(SubSeq(n, 1, i - 1)) - 1
      noted == {i \in 1..(cut - 1) : compress /\ Offset(i) <= MaxPointer}
      labels == Cat([i \in 1..(cut - 1) |-> PutCounted(n[i], 1)])
  IN [r EXCEPT !.wire = @ \o labels \o IF known = {} THEN <<0>>
                                       ELSE PutUint(49152 + r.table[After(cut)], 2),
               !.table = [s \in {After(i) : i \in noted} |->
                            Offset(CHOOSE i \in noted : After(i) = s)] @@ @]

\* Rdata.to_wire() after the length that prefixed_length() fills in.
WriteField(r, f, v, compress) ==
  CASE f.k = "name" -> WriteName(r, v, compress /\ f.compress)
    [] f.k = "options" -> Write(r, PutOptions(v))
    [] OTHER -> Write(r, Put(f, v))
FillLength(r, at) ==
  LET length == PutUint(Len(r.wire) - at - 2, 2)
  IN [r EXCEPT !.wire[at + 1] = length[1], !.wire[at + 2] = length[2]]
WriteRdata(r, class, type, v, compress) ==
  FillLength(FoldLeft(LAMBDA s, i : WriteField(s, SchemaOf(class, type)[i], v[i], compress),
                      Write(r, <<0, 0>>), [i \in DOMAIN v |-> i]),
             Len(r.wire))

\* Rdataset.to_wire(), which writes one record for a set with none; the ttl
\* is two words, and class, which is not that of the rdata in an update, is
\* what is written.
WriteRecord(r, rr, i, compress) ==
  LET ttl == IF rr.rdatas = <<>> THEN <<0, 0>> ELSE rr.ttl
      head == Write(WriteName(r, rr.name, compress),
                    PutWords(<<rr.type, rr.class>> \o ttl))
  IN IF rr.rdatas = <<>> THEN Write(head, <<0, 0>>)
     ELSE WriteRdata(head, rr.rdclass, rr.type, rr.rdatas[i], compress)
Records(rr) == IF rr.rdatas = <<>> THEN 1 ELSE Len(rr.rdatas)
WriteRRset(r, rr) ==
  FoldLeft(LAMBDA s, i : WriteRecord(s, rr, i, TRUE), r, [i \in 1..Records(rr) |-> i])

-----------------------------------------------------------------------------
(* The operations. *)

\* A bug: the names that are no longer written stay in the table.
RollbackOctetsOnly(r, where) == [r EXCEPT !.wire = SubSeq(@, 1, where)]

Rollback(r, where) ==
  LET kept == {n \in DOMAIN r.table : r.table[n] < where}
  IN [r EXCEPT !.wire = SubSeq(@, 1, where), !.table = [n \in kept |-> r.table[n]]]

\* _set_section(): sections come in order.  _track_size(): what is too big is
\* taken back.
SetSection(r, section) == [r EXCEPT !.section = section]
Tracked(before, after, section, n) ==
  IF Len(after.wire) > after.max THEN Raised("TooBig", Rollback(after, Len(before.wire)))
  ELSE Done([after EXCEPT !.counts[section] = @ + n])

AddQuestion(r, q) ==
  LET s == SetSection(r, QUESTION)
  IN IF r.section > QUESTION THEN Raised("FormError", r)
     ELSE Tracked(s, Write(WriteName(s, q.name, TRUE), PutWords(<<q.type, q.class>>)), QUESTION, 1)

AddRRset(r, section, rr) ==
  LET s == SetSection(r, section)
  IN IF r.section > section THEN Raised("FormError", r)
     ELSE Tracked(s, WriteRRset(s, rr), section, Records(rr))

\* The OPT record, as an rrset of the root; with pad, an option is added that
\* makes up for what the message lacks to a multiple of it.
PadLength(size, pad) == IF size % pad = 0 THEN 0 ELSE pad - (size % pad)
WithPadding(opt, n) == [opt EXCEPT !.rdatas = <<<<Append(@[1][1], <<PADDING, Rep(0, n)>>)>>>>]
AddOpt(r, opt, pad, optSize, tsigSize) ==
  IF pad = 0 THEN AddRRset(r, ADDITIONAL, opt)
  ELSE AddRRset([r EXCEPT !.padded = TRUE], ADDITIONAL,
                WithPadding(opt, PadLength(Len(r.wire) + optSize + tsigSize, pad)))

\* _write_tsig(), for programs that render without Message: its own name is
\* not compressed in a message that was padded, nor are those in its rdata.
WriteTsig(r, tsig) ==
  LET s == SetSection(r, ADDITIONAL)
      head == Write(WriteName(s, tsig.name, ~r.padded), PutWords(<<TSIGType, ANY, 0, 0>>))
  IN Tracked(s, WriteRdata(head, ANY, TSIGType, tsig.rdatas[1], FALSE), ADDITIONAL, 1)

Reserve(r, n) ==
  IF n > r.max THEN Raised("ValueError", r)
  ELSE Done([r EXCEPT !.reserved = @ + n, !.max = @ - n])
ReleaseReserved(r) == [r EXCEPT !.max = @ + r.reserved, !.reserved = 0]

\* write_header() and get_wire().
Header(id, flags, counts) ==
  PutWords(<<id, flags>> \o [i \in 1..4 |-> counts[i - 1]])
GetWire(r, id, flags) == Header(id, flags, r.counts) \o SubSeq(r.wire, HeaderSize + 1, Len(r.wire))

-----------------------------------------------------------------------------
(* What a reader that decompresses finds in the sections. *)

GetField(f, w, at) == IF f.k = "options" THEN GetOptions(w, at, <<>>) ELSE Get(f, w, at)
\* Rdata from the octets at..end of w, all of them.
GetRdata(w, at, end, class, type) ==
  LET Next(g, f) ==
        Then(g, LAMBDA soFar, i :
          Then(GetField(f, SubSeq(w, 1, end), i), LAMBDA x, j : Got(Append(soFar, x), j)))
  IN IF end > Len(w) THEN FormError
     ELSE Then(FoldLeft(Next, Got(<<>>, at), SchemaOf(class, type)), LAMBDA v, after :
            IF after = end + 1 THEN Got(v, after) ELSE FormError)

\* Rdata with its names in lower case.
Plain(class, type, v) ==
  [i \in DOMAIN v |-> IF SchemaOf(class, type)[i].k = "name" THEN Lowered(v[i]) ELSE v[i]]

\* A name, and the words of the n octets after it.
GetHead(w, at, n) ==
  Then(GetName(w, at), LAMBDA name, i :
    Then(GetBytes(w, i, n), LAMBDA fixed, j : Got(<<name, Words(fixed)>>, j)))
ReadRdata(w, at, ws) ==
  IF ws[5] = 0 THEN Got(<<>>, at) ELSE GetRdata(w, at, at + ws[5] - 1, ws[2], ws[1])

RECURSIVE ReadRecords(_, _, _, _)
ReadRecords(w, at, n, soFar) ==
  IF n = 0 THEN Got(soFar, at)
  ELSE Then(GetHead(w, at, 10), LAMBDA head, i :
         Then(ReadRdata(w, i, head[2]), LAMBDA v, j :
           LET ws == head[2]
           IN ReadRecords(w, j, n - 1,
                Append(soFar, [name |-> Lowered(head[1]), type |-> ws[1], class |-> ws[2],
                               ttl |-> <<ws[3], ws[4]>>, rdata |-> Plain(ws[2], ws[1], v)]))))

RECURSIVE ReadQuestions(_, _, _, _)
ReadQuestions(w, at, n, soFar) ==
  IF n = 0 THEN Got(soFar, at)
  ELSE Then(GetHead(w, at, 4), LAMBDA head, i :
         ReadQuestions(w, i, n - 1,
           Append(soFar, [name |-> Lowered(head[1]), type |-> head[2][1], class |-> head[2][2]])))

\* All four sections, of as many records as counts says.
ReadSections(w, counts) ==
  FoldLeft(LAMBDA g, section :
             Then(g, LAMBDA sections, i :
               Then(ReadRecords(w, i, counts[section], <<>>),
                    LAMBDA records, j : Got(Append(sections, records), j))),
           Then(ReadQuestions(w, HeaderSize + 1, counts[QUESTION], <<>>),
                LAMBDA records, i : Got(<<records>>, i)),
           <<ANSWER, AUTHORITY, ADDITIONAL>>)

\* The records of an rrset.
RecordsOf(rr) ==
  LET Record(v) == [name |-> Lowered(rr.name), type |-> rr.type, class |-> rr.class,
                    ttl |-> IF rr.rdatas = <<>> THEN <<0, 0>> ELSE rr.ttl,
                    rdata |-> Plain(rr.rdclass, rr.type, v)]
  IN IF rr.rdatas = <<>> THEN <<Record(<<>>)>>
     ELSE [i \in DOMAIN rr.rdatas |-> Record(rr.rdatas[i])]

-----------------------------------------------------------------------------
(* A program with a renderer. *)

RendererInit ==
  /\ renderer \in {NewRenderer(n) : n \in RenderSizes}
  /\ added = [s \in Sections |-> <<>>]

Calls == FoldLeft(LAMBDA n, s : n + Len(added[s]), 0, <<0, 1, 2, 3>>)

\* The call, and what it adds if it does not raise.
Call(result, section, what) ==
  /\ Calls < MaxCalls
  /\ renderer' = result.r
  /\ added' = IF result.ok THEN [added EXCEPT ![section] = @ \o what] ELSE added

CallAddQuestion == \E q \in RenderQuestions :
  Call(AddQuestion(renderer, q), QUESTION, <<[q EXCEPT !.name = Lowered(@)]>>)
\* The rdatas of an rrset are shuffled.
CallAddRRset == \E section \in Sections \ {QUESTION}, rr \in RenderRRsets :
  \E order \in {<<1, 2>>, <<2, 1>>} :
    LET shuffled == IF Len(rr.rdatas) = 2 THEN [rr EXCEPT !.rdatas = <<@[order[1]], @[order[2]]>>] ELSE rr
    IN /\ Len(rr.rdatas) < 2 => order = <<1, 2>>
       /\ Call(AddRRset(renderer, section, shuffled), section, RecordsOf(shuffled))
CallReserve == \E n \in {1, 15} :
  /\ renderer.reserved = 0
  /\ renderer' = Reserve(renderer, n).r
  /\ UNCHANGED added
CallReleaseReserved ==
  /\ renderer' = ReleaseReserved(renderer)
  /\ UNCHANGED added

RendererNext == CallAddQuestion \/ CallAddRRset \/ CallReserve \/ CallReleaseReserved

-----------------------------------------------------------------------------
(* Properties. *)

\* Whatever was refused on the way, what the renderer holds is exactly what
\* it took, record for record, with every name where its pointer leads; and
\* what it holds fits (Renderer.add_rrset and the rollback of its table).
RenderedIsRead ==
  LET w == GetWire(renderer, 0, 0)
  IN /\ ReadSections(w, renderer.counts) = Got([i \in 1..4 |-> added[i - 1]], Len(w) + 1)
     /\ Len(w) <= renderer.max + renderer.reserved
=============================================================================
