----------------------------- MODULE InboundXfr -----------------------------
(***************************************************************************)
(* dns.xfr.Inbound and dns.query.inbound_xfr: a secondary copies a zone    *)
(* from a primary, by AXFR or IXFR, over TCP or first over UDP.  The state *)
(* machine of Inbound takes one record of the answer at a time; what it    *)
(* has gathered is in a transaction of the zone until the final SOA.       *)
(*                                                                         *)
(* The primary is either an honest one, that publishes versions and        *)
(* answers as the RFCs say, its answer cut into messages anywhere, or one  *)
(* that sends any records in any order.  What a message has shows when its *)
(* records are read.  Messages may stop coming, and any of them may be     *)
(* refused (timeout, decoding, TSIG, rcode, question).                     *)
(*                                                                         *)
(* An SOA is its serial, other records are opaque; records of one owner    *)
(* and type come one by one (one_rr_per_rrset).  Transactions are those of *)
(* AtomicZone; nothing else writes to the zone during a transfer, as       *)
(* make_query() asks of its caller.                                        *)
(***************************************************************************)
EXTENDS SerialArith, Sequences, SequencesExt

CONSTANTS Data,         \* the records of a zone other than its SOA
          None,
          MaxVersions   \* bound: the versions the primary publishes

ASSUME XfrAssumption ==
    /\ None \notin Serials
    /\ "soa" \notin Data
    /\ MaxVersions \in Nat

VARIABLES
    honest,     \* does the primary answer as the RFCs say?
    primary,    \* the versions the primary has published
    zone,       \* the secondary's zone: [serial, data]
    pc,         \* "idle", "reading" the next message, or in the "answers"
    udp_mode,   \* the caller's UDPMode
    query,      \* the query: [rdtype, serial]
    is_udp,     \* is the current attempt made over UDP?
    wire,       \* what an honest primary has yet to send in this attempt
    answer,     \* the next record of the message, and whether it is the last
    inbound,    \* the Inbound object
    txn,        \* its transaction: "none", "update" or "replace"
    draft,      \* the zone as the transaction has it
    outcome     \* how the last transfer ended

source == <<honest, primary>>
request == <<udp_mode, query, is_udp>>
work == <<inbound, txn, draft>>
vars == <<source, zone, pc, request, wire, answer, work, outcome>>

NoZone == [serial |-> None, data |-> {}]
ZoneType == [serial : Serials \cup {None}, data : SUBSET Data]
Soa(s) == [kind |-> "soa", value |-> s]
Record(d) == [kind |-> "data", value |-> d]
AnyRecord == {Soa(s) : s \in Serials} \cup {Record(d) : d \in Data}

\* A record in a message, and none.
InMessage(r, last) == [kind |-> r.kind, value |-> r.value, last |-> last]
NoRecord == InMessage([kind |-> "none", value |-> None], TRUE)

NewInbound(q) == [incremental |-> q.rdtype = "IXFR", serial |-> q.serial,
                  soa |-> None, done |-> FALSE,
                  expecting_SOA |-> FALSE, delete_mode |-> FALSE]

-----------------------------------------------------------------------------
(* The primary                                                             *)

Published == {primary[i] : i \in DOMAIN primary}
Current == Last(primary)

Publish(s, d) ==
    /\ honest
    /\ Len(primary) < MaxVersions
    /\ d # {}                           \* a zone has NS records
    /\ \A v \in Published : v.serial # s
    /\ primary # <<>> => Gt(s, Current.serial)
    /\ primary' = Append(primary, [serial |-> s, data |-> d])
    /\ UNCHANGED <<honest, zone, pc, request, wire, answer, work, outcome>>

\* What the primary has yet to send: its phase, and the records it lists in
\* this phase and has not sent yet.  In an incremental answer these lead from
\* the primary's version `from` to its version `to`, and in the end to `goal`;
\* a whole zone is what leads there from nothing, 0.
Wire(phase, from, to, goal, left) ==
    [phase |-> phase, from |-> from, to |-> to, goal |-> goal, left |-> left]
WireType == [phase : {"lead", "base", "deletions", "additions", "end"}, from : Nat, to : Nat,
             goal : Nat, left : SUBSET Data]
NoWire == Wire("end", 0, 0, 0, {})

\* The differences from version i, which may skip the versions between.
Differences(i, goal) ==
    {Wire("deletions", i, j, goal, primary[i].data \ primary[j].data) : j \in i + 1 .. goal}

\* Between the records of a phase and those of the next comes an SOA: of the
\* goal at either end, of `from` before deletions, of `to` before additions.
SoaBetween(w) ==
    Soa(primary[CASE w.phase = "lead" -> w.goal [] w.phase = "base" -> w.from [] OTHER -> w.to].serial)
AfterSoa(w) ==
    CASE w.phase = "lead" /\ w.from = w.goal -> {NoWire}
      [] w.phase = "lead" /\ w.from = 0 ->
            {Wire("additions", 0, w.goal, w.goal, primary[w.goal].data)}
      [] w.phase = "lead" /\ w.from \notin {0, w.goal} -> {Wire("base", w.from, 0, w.goal, {})}
      [] w.phase = "base" -> Differences(w.from, w.goal)
      [] w.phase = "deletions" ->
            {Wire("additions", w.from, w.to, w.goal, primary[w.to].data \ primary[w.from].data)}
      [] w.phase = "additions" /\ w.to = w.goal -> {NoWire}
      [] w.phase = "additions" /\ w.to # w.goal -> Differences(w.to, w.goal)
      [] w.phase = "end" -> {}

\* The records that may come next, each with what remains after it.
Sends(w) ==
    IF w.left = {} THEN {[record |-> SoaBetween(w), wire |-> x] : x \in AfterSoa(w)}
    ELSE {[record |-> Record(d), wire |-> Wire(w.phase, w.from, w.to, w.goal, w.left \ {d})] :
             d \in w.left}

\* The answers of a primary to a query: its last SOA alone, the whole zone, or
\* the differences from the version that was asked from.
Lead(from) == Wire("lead", from, 0, Len(primary), {})
UpToDate == Lead(Len(primary))
Full == Lead(0)
Answers(q, udp) ==
    IF ~honest THEN {NoWire}
    ELSE IF primary = <<>> THEN {}
    ELSE IF q.rdtype = "AXFR" THEN {Full}
    ELSE IF q.serial = Current.serial \/ Lt(Current.serial, q.serial) THEN {UpToDate}
    ELSE {Full}
         \cup (IF udp THEN {UpToDate} ELSE {})
         \cup {Lead(i) : i \in {j \in DOMAIN primary : primary[j].serial = q.serial}}

-----------------------------------------------------------------------------
(* dns.query.inbound_xfr                                                   *)

Attempt(q, udp) ==
    /\ is_udp' = udp
    /\ inbound' = NewInbound(q)
    /\ txn' = "none"
    /\ draft' = NoZone
    /\ answer' = NoRecord
    /\ pc' = "reading"
    /\ \E w \in Answers(q, udp) : wire' = w

\* make_query(): an IXFR from the serial of the zone, an AXFR if it has none
\* or the caller wants one.
Start(mode, full) ==
    LET q == IF full \/ zone.serial = None
             THEN [rdtype |-> "AXFR", serial |-> None]
             ELSE [rdtype |-> "IXFR", serial |-> zone.serial]
    IN /\ pc = "idle"
       /\ query' = q
       /\ udp_mode' = mode
       /\ outcome' = "none"
       /\ Attempt(q, q.rdtype = "IXFR" /\ mode # "never")
       /\ UNCHANGED <<source, zone>>

\* The Inbound context ends: an open transaction is rolled back.
End(result) ==
    /\ pc' = "idle"
    /\ outcome' = result
    /\ txn' = "none"
    /\ draft' = NoZone
    /\ inbound' = NewInbound(query)
    /\ wire' = NoWire
    /\ answer' = NoRecord
    /\ UNCHANGED <<source, request>>

Raise == End("raised") /\ UNCHANGED zone

\* A bug: the second attempt is like the first.
RetryWithUDP ==
    IF udp_mode = "only" THEN Raise
    ELSE /\ Attempt(query, TRUE)
         /\ UNCHANGED <<source, zone, udp_mode, query, outcome>>

\* UseTCP: the second attempt has an Inbound of its own.
RetryWithTCP ==
    IF udp_mode = "only" THEN Raise
    ELSE /\ Attempt(query, FALSE)
         /\ UNCHANGED <<source, zone, udp_mode, query, outcome>>

\* The next record of a message.  The last message ends with the answer, and
\* a datagram has all of it.
NextRecord ==
    \E last \in BOOLEAN :
        \/ /\ honest
           /\ \E x \in Sends(wire) :
                 /\ x.wire.phase = "end" => last
                 /\ last /\ is_udp => x.wire.phase = "end"
                 /\ answer' = InMessage(x.record, last)
                 /\ wire' = x.wire
        \/ /\ ~honest
           /\ \E r \in AnyRecord : answer' = InMessage(r, last)
           /\ UNCHANGED wire

\* process_message() opens the transaction with the first message.
Open ==
    IF txn # "none" THEN UNCHANGED <<txn, draft>>
    ELSE IF inbound.incremental THEN txn' = "update" /\ draft' = zone
    ELSE txn' = "replace" /\ draft' = NoZone

Receive ==
    /\ pc = "reading"
    /\ pc' = "answers"
    /\ \/ NextRecord
       \/ ~honest /\ answer' = NoRecord /\ UNCHANGED wire
    /\ Open
    /\ UNCHANGED <<source, zone, request, inbound, outcome>>

\* No message in time, or one that is refused before its answers are read.
Fail == pc = "reading" /\ Raise

-----------------------------------------------------------------------------
(* Inbound.process_message                                                 *)

\* On to the next record, if there is one.
Proceed == IF answer.last THEN answer' = NoRecord /\ UNCHANGED wire ELSE NextRecord

Continue(i, t, d) ==
    /\ inbound' = i
    /\ txn' = t
    /\ draft' = d
    /\ Proceed
    /\ UNCHANGED <<source, zone, pc, request, outcome>>

Done(i) == [i EXCEPT !.done = TRUE]

AtFirst == pc = "answers" /\ inbound.soa = None
First == answer
IsSoa == First.kind = "soa"

FirstIsNotSoa == AtFirst /\ ~IsSoa /\ Raise

\* A bug: an older serial is taken like a newer one.
WentBackwardsNever(serial) == FALSE

WentBackwards(serial) == Lt(serial, inbound.serial)

FirstSoa ==
    LET i == [inbound EXCEPT !.soa = First.value]
    IN /\ AtFirst /\ IsSoa
       /\ IF ~inbound.incremental THEN Continue(i, txn, draft)
          ELSE IF First.value = inbound.serial
          THEN Continue(Done(i), txn, draft)
          ELSE IF WentBackwards(First.value) THEN Raise
          ELSE IF is_udp /\ First.last THEN RetryWithTCP
          ELSE Continue([i EXCEPT !.expecting_SOA = TRUE], txn, draft)

InAnswers == pc = "answers" /\ inbound.soa # None /\ First.kind # "none"

AnswersAfterFinal == InAnswers /\ inbound.done /\ Raise

\* Every origin SOA of an incremental transfer inverts delete_mode.
Mode == IF inbound.incremental THEN ~inbound.delete_mode ELSE inbound.delete_mode

\* A bug: a serial of the first SOA ends the transfer wherever it comes.
IsFinalAnywhere == First.value = inbound.soa

IsFinal == First.value = inbound.soa /\ (inbound.incremental => Mode)

\* A bug: the end is not compared with the serial that was reached.
IsEndIncompleteNever == FALSE

\* An IXFR sequence that is empty or ends before the announced serial.
IsEndIncomplete == \/ inbound.expecting_SOA
                   \/ inbound.incremental /\ inbound.serial # First.value

FinalSoa ==
    /\ InAnswers /\ ~inbound.done /\ First.kind = "soa" /\ IsFinal
    /\ IF IsEndIncomplete THEN Raise
       ELSE /\ zone' = [draft EXCEPT !.serial = First.value]
            /\ txn' = "none"
            /\ draft' = NoZone
            /\ inbound' = Done([inbound EXCEPT !.delete_mode = Mode])
            /\ Proceed
            /\ UNCHANGED <<source, pc, request, outcome>>

BaseMismatch == First.value # inbound.serial

InnerSoa ==
    LET i == [inbound EXCEPT !.expecting_SOA = FALSE, !.delete_mode = Mode]
    IN /\ InAnswers /\ ~inbound.done /\ First.kind = "soa" /\ ~IsFinal
       /\ IF ~inbound.incremental THEN Raise
          ELSE IF Mode
          THEN IF BaseMismatch THEN Raise ELSE Continue(i, txn, draft)
          ELSE Continue([i EXCEPT !.serial = First.value], txn,
                        [draft EXCEPT !.serial = First.value])

\* A bug: the fallback goes on in the transaction it has.
FallbackKeepsDraft(i) == Continue(i, txn, [draft EXCEPT !.data = @ \cup {First.value}])

\* The answer to the IXFR is a whole zone: start over with a replacement.
Fallback(i) == Continue(i, "replace", [NoZone EXCEPT !.data = {First.value}])

\* delete_exact() raises if the record is not there.
Change ==
    IF ~inbound.delete_mode
    THEN Continue(inbound, txn, [draft EXCEPT !.data = @ \cup {First.value}])
    ELSE IF First.value \in draft.data
    THEN Continue(inbound, txn, [draft EXCEPT !.data = @ \ {First.value}])
    ELSE Raise

DataRecord ==
    /\ InAnswers /\ ~inbound.done /\ First.kind = "data"
    /\ IF inbound.expecting_SOA
       THEN Fallback([inbound EXCEPT !.incremental = FALSE, !.expecting_SOA = FALSE,
                                     !.delete_mode = FALSE])
       ELSE Change

\* The answer section is at its end; a UDP transfer must be, too.  If the
\* query was signed and this last message is not, the driver raises now.
MessageEnds ==
    /\ pc = "answers" /\ inbound.soa # None /\ First.kind = "none"
    /\ IF inbound.done
       THEN \/ End("done") /\ UNCHANGED zone
            \/ ~honest /\ Raise
       ELSE IF is_udp THEN Raise
       ELSE /\ pc' = "reading"
            /\ UNCHANGED <<source, zone, request, wire, answer, work, outcome>>

-----------------------------------------------------------------------------

Init ==
    /\ honest \in BOOLEAN
    /\ primary = <<>>
    /\ zone = NoZone
    /\ pc = "idle"
    /\ udp_mode = "never"
    /\ query = [rdtype |-> "AXFR", serial |-> None]
    /\ is_udp = FALSE
    /\ wire = NoWire
    /\ answer = NoRecord
    /\ inbound = NewInbound(query)
    /\ txn = "none"
    /\ draft = NoZone
    /\ outcome = "none"

Transfer == FirstIsNotSoa \/ FirstSoa \/ AnswersAfterFinal \/ FinalSoa \/ InnerSoa
            \/ DataRecord \/ MessageEnds

Next ==
    \/ \E s \in Serials, d \in SUBSET Data : Publish(s, d)
    \/ \E mode \in {"never", "first", "only"}, full \in BOOLEAN : Start(mode, full)
    \/ Receive
    \/ Fail
    \/ Transfer

Spec == Init /\ [][Next]_vars

\* Scheduling: records in hand are processed, and a read ends with a message
\* or a timeout.
FairSpec == /\ Spec
            /\ WF_vars(Transfer)
            /\ WF_vars(Fail \/ Receive)

-----------------------------------------------------------------------------
(* Properties                                                              *)

\* Every variable has its type.
TypeOK ==
    /\ honest \in BOOLEAN
    /\ Published \subseteq ZoneType
    /\ zone \in ZoneType /\ draft \in ZoneType
    /\ pc \in {"idle", "reading", "answers"}
    /\ udp_mode \in {"never", "first", "only"}
    /\ query \in [rdtype : {"AXFR", "IXFR"}, serial : Serials \cup {None}]
    /\ is_udp \in BOOLEAN
    /\ wire \in WireType
    /\ answer.kind = "none" \/ \E r \in AnyRecord : answer = InMessage(r, answer.last)
    /\ inbound \in [incremental : BOOLEAN, serial : Serials \cup {None},
                    soa : Serials \cup {None}, done : BOOLEAN,
                    expecting_SOA : BOOLEAN, delete_mode : BOOLEAN]
    /\ txn \in {"none", "update", "replace"}
    /\ outcome \in {"none", "done", "raised"}

\* From an honest primary the secondary has, whatever fails and however the
\* answers are made and cut, an exact copy of a version that was published.
CopyOfPrimary == honest /\ zone # NoZone => zone \in Published

\* An honest answer is refused only for a serial that went backwards, or
\* over UDP, where the caller allows nothing else, for being truncated.
HonestAnswersAccepted ==
    [][honest /\ pc = "answers" /\ outcome = "none" /\ outcome' = "raised"
        => /\ IsSoa /\ inbound.soa = None /\ inbound.incremental
           /\ \/ Lt(First.value, inbound.serial)
              \/ is_udp /\ udp_mode = "only" /\ First.last]_vars

\* An IXFR never moves the zone back or rewrites the serial it has.
NeverBack ==
    [][zone' # zone /\ query.rdtype = "IXFR"
        => zone'.serial # zone.serial /\ ~Lt(zone'.serial, zone.serial)]_vars

\* The zone changes once in a transfer, in the step that completes it, and
\* to the serial the first record announced; a transfer that is refused in
\* any other step leaves the zone as it was.
OneCommit ==
    [][/\ zone' # zone =>
             ~inbound.done /\ inbound'.done /\ zone'.serial = inbound.soa
       /\ pc = "reading" => ~inbound.done]_vars

\* The differences lead from the zone's version to the one announced: what
\* an incremental transfer commits is its draft, which the last addition set
\* brought to that serial, and the final SOA adds nothing to it.
DifferencesFit ==
    [][zone' # zone /\ inbound.incremental => zone' = draft]_vars

\* A transaction that starts from nothing is one for a whole zone, and the
\* draft of a whole zone has nothing of the zone before.
ReplaceIffFull ==
    txn # "none" => (txn = "update" <=> inbound.incremental)

\* Every transfer from a primary whose answers end comes to an end, whatever
\* is truncated, retried and lost.
TransferEnds == honest /\ pc # "idle" ~> pc = "idle"
=============================================================================
