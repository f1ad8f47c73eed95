------------------------- MODULE InboundXfrProofs -------------------------
(***************************************************************************)
(* Proofs about InboundXfr, for every set of records, serials of any       *)
(* width and any number of versions: first what holds whatever a primary   *)
(* sends, then what holds of one that answers as the RFCs say.             *)
(***************************************************************************)
EXTENDS InboundXfr, SequenceTheorems, TLAPS

\* inbound, zone and draft are records; what they hold came over the wire
\* and is not constrained.
Shapes ==
    /\ inbound = [incremental |-> inbound.incremental, serial |-> inbound.serial,
                  soa |-> inbound.soa, done |-> inbound.done,
                  expecting_SOA |-> inbound.expecting_SOA,
                  delete_mode |-> inbound.delete_mode]
    /\ inbound.incremental \in BOOLEAN /\ inbound.done \in BOOLEAN
    /\ zone = [serial |-> zone.serial, data |-> zone.data]
    /\ draft = [serial |-> draft.serial, data |-> draft.data]

\* A transfer that has not seen its final SOA has a transaction, unless it
\* waits for its first message.
Underway ==
    /\ pc = "answers" => txn # "none" \/ inbound.done
    /\ pc = "reading" => ~inbound.done
    /\ pc = "reading" /\ txn = "none" => inbound.soa = None
    /\ pc # "idle" /\ query.rdtype = "IXFR" => query.serial # None
    /\ pc # "idle" /\ inbound.done => inbound.soa # None

\* Until the zone changes it has the serial that was asked from, and until
\* the first SOA Inbound has that serial, too.
Base ==
    pc # "idle" /\ ~inbound.done =>
        /\ inbound.incremental => query.rdtype = "IXFR"
        /\ query.rdtype = "IXFR" => zone.serial = query.serial
        /\ query.rdtype = "IXFR" /\ inbound.soa = None
              => inbound.incremental /\ inbound.serial = query.serial

\* A serial that was announced to an IXFR is another and not an older one.
Forward ==
    pc # "idle" /\ ~inbound.done /\ query.rdtype = "IXFR" /\ inbound.soa # None
    => inbound.soa # query.serial /\ ~Lt(inbound.soa, query.serial)

\* The draft of an incremental transfer has the serial that was reached.
DraftSerial ==
    pc # "idle" /\ txn # "none" /\ inbound.incremental /\ ~inbound.done
    => draft.serial = inbound.serial

IInv == Shapes /\ ReplaceIffFull /\ Underway /\ Base /\ Forward /\ DraftSerial

-----------------------------------------------------------------------------
(* The steps                                                               *)

LEMMA Initially == Init => IInv
  BY DEF Init, IInv, Shapes, ReplaceIffFull, Underway, Base, Forward, DraftSerial,
         NewInbound, NoZone

\* A transfer that ends leaves nothing behind.
LEMMA EndStep ==
    ASSUME IInv, NEW result, End(result), UNCHANGED zone
    PROVE  IInv'
  BY DEF End, request, IInv, Shapes, ReplaceIffFull, Underway, Base, Forward, DraftSerial,
         NewInbound, NoZone

LEMMA RaiseStep ==
    ASSUME IInv, Raise
    PROVE  IInv'
  BY EndStep DEF Raise

\* Start() and RetryWithTCP() make a new attempt.
LEMMA AttemptStep ==
    ASSUME IInv, NEW udp, Attempt(query', udp), UNCHANGED zone,
           query'.rdtype = "IXFR" => query'.serial = zone.serial /\ query'.serial # None
    PROVE  IInv'
  BY DEF Attempt, IInv, Shapes, ReplaceIffFull, Underway, Base, Forward, DraftSerial,
         NewInbound, NoZone

LEMMA StartStep ==
    ASSUME IInv, NEW mode, NEW full, Start(mode, full)
    PROVE  IInv'
<1> DEFINE q == IF full \/ zone.serial = None
                THEN [rdtype |-> "AXFR", serial |-> None]
                ELSE [rdtype |-> "IXFR", serial |-> zone.serial]
           u == q.rdtype = "IXFR" /\ mode # "never"
<1>1. /\ query' = q /\ Attempt(q, u) /\ UNCHANGED zone
      /\ q.rdtype = "IXFR" => q.serial = zone.serial /\ q.serial # None
  BY DEF Start
<1>2. Attempt(query', u)
  BY <1>1
<1> QED
  BY <1>1, <1>2, AttemptStep

LEMMA ReceiveStep ==
    ASSUME IInv, Receive
    PROVE  IInv'
  BY DEF Receive, Open, request, IInv, Shapes, ReplaceIffFull, Underway, Base, Forward,
         DraftSerial, NoZone

LEMMA FirstSoaStep ==
    ASSUME IInv, FirstSoa
    PROVE  IInv'
<1> DEFINE i == [inbound EXCEPT !.soa = First.value]
<1>0. AtFirst /\ IsSoa
  BY DEF FirstSoa
<1>1. CASE ~inbound.incremental /\ Continue(i, txn, draft)
  BY <1>0, <1>1 DEF AtFirst, Continue, request, IInv, Shapes, ReplaceIffFull, Underway, Base,
         Forward, DraftSerial
<1>2. CASE /\ inbound.incremental /\ First.value = inbound.serial
           /\ Continue(Done(i), txn, draft)
  <2>1. First.value # None
    BY <1>0, <1>2 DEF AtFirst, IInv, Underway, Base
  <2> QED
    BY <1>0, <1>2, <2>1 DEF AtFirst, Done, Continue, request, IInv, Shapes, ReplaceIffFull,
       Underway, Base, Forward, DraftSerial
<1>3. CASE Raise
  BY <1>3, RaiseStep
<1>4. CASE inbound.incremental /\ RetryWithTCP
  <2>1. CASE Raise
    BY <2>1, RaiseStep
  <2>2. CASE Attempt(query, FALSE) /\ UNCHANGED <<zone, query>>
    <3>1. query'.rdtype = "IXFR" => query'.serial = zone.serial /\ query'.serial # None
      BY <1>0, <2>2 DEF AtFirst, IInv, Base, Underway
    <3> QED
      BY <2>2, <3>1, AttemptStep
  <2> QED
    BY <1>4, <2>1, <2>2 DEF RetryWithTCP
<1>5. CASE /\ inbound.incremental /\ First.value # inbound.serial
           /\ ~WentBackwards(First.value)
           /\ Continue([i EXCEPT !.expecting_SOA = TRUE], txn, draft)
  BY <1>0, <1>5 DEF AtFirst, WentBackwards, Continue, request, IInv, Shapes, ReplaceIffFull, Underway,
         Base, Forward, DraftSerial
<1> QED
  BY <1>1, <1>2, <1>3, <1>4, <1>5 DEF FirstSoa

LEMMA FinalSoaStep ==
    ASSUME IInv, FinalSoa
    PROVE  /\ IInv'
           /\ zone' # zone =>
                 /\ ~inbound.done /\ inbound'.done /\ zone'.serial = inbound.soa
                 /\ query.rdtype = "IXFR" =>
                       zone'.serial # zone.serial /\ ~Lt(zone'.serial, zone.serial)
                 /\ inbound.incremental => zone' = draft
<1>1. CASE IsEndIncomplete
  <2>1. Raise
    BY <1>1 DEF FinalSoa
  <2> QED
    BY <2>1, RaiseStep DEF Raise
<1>2. CASE ~IsEndIncomplete
  <2>1. /\ pc = "answers" /\ inbound.soa # None /\ ~inbound.done
        /\ First.value = inbound.soa
        /\ inbound.incremental => inbound.serial = First.value
        /\ zone' = [draft EXCEPT !.serial = First.value]
        /\ txn' = "none" /\ draft' = NoZone
        /\ inbound' = Done([inbound EXCEPT !.delete_mode = Mode])
        /\ UNCHANGED <<pc, request>>
    BY <1>2 DEF FinalSoa, IsEndIncomplete, IsFinal, InAnswers
  <2>2. zone' = [serial |-> First.value, data |-> draft.data]
    BY <2>1 DEF IInv, Shapes
  <2>3. /\ Shapes' /\ inbound'.done /\ inbound'.soa = inbound.soa
        /\ inbound'.incremental = inbound.incremental
    BY <2>1, <2>2 DEF IInv, Shapes, Done, NoZone
  <2>4. IInv'
    BY <2>1, <2>3 DEF request, IInv, ReplaceIffFull, Underway, Base, Forward, DraftSerial
  <2>5. query.rdtype = "IXFR" => zone'.serial # zone.serial /\ ~Lt(zone'.serial, zone.serial)
    BY <2>1, <2>2 DEF IInv, Base, Forward
  <2>6. inbound.incremental => zone' = draft
    BY <2>1, <2>2 DEF IInv, Shapes, ReplaceIffFull, Underway, DraftSerial
  <2> QED
    BY <2>1, <2>2, <2>3, <2>4, <2>5, <2>6
<1> QED
  BY <1>1, <1>2

LEMMA InnerSoaStep ==
    ASSUME IInv, InnerSoa
    PROVE  IInv'
<1> DEFINE i == [inbound EXCEPT !.expecting_SOA = FALSE, !.delete_mode = Mode]
<1>0. InAnswers /\ ~inbound.done
  BY DEF InnerSoa
<1>1. CASE Raise
  BY <1>1, RaiseStep
<1>2. CASE Continue(i, txn, draft)
  BY <1>0, <1>2 DEF InAnswers, Continue, request, IInv, Shapes, ReplaceIffFull, Underway,
         Base, Forward, DraftSerial
<1>3. CASE Continue([i EXCEPT !.serial = First.value], txn,
                    [draft EXCEPT !.serial = First.value])
  BY <1>0, <1>3 DEF InAnswers, Continue, request, IInv, Shapes, ReplaceIffFull, Underway,
         Base, Forward, DraftSerial
<1> QED
  BY <1>1, <1>2, <1>3 DEF InnerSoa

LEMMA DataRecordStep ==
    ASSUME IInv, DataRecord
    PROVE  IInv'
<1>0. InAnswers /\ ~inbound.done
  BY DEF DataRecord
<1>1. CASE Raise
  BY <1>1, RaiseStep
<1>2. CASE Fallback([inbound EXCEPT !.incremental = FALSE, !.expecting_SOA = FALSE,
                                    !.delete_mode = FALSE])
  BY <1>0, <1>2 DEF InAnswers, Fallback, Continue, request, IInv, Shapes, ReplaceIffFull,
         Underway, Base, Forward, DraftSerial, NoZone
<1>3. CASE \E D : Continue(inbound, txn, [draft EXCEPT !.data = D])
  BY <1>0, <1>3 DEF InAnswers, Continue, request, IInv, Shapes, ReplaceIffFull,
         Underway, Base, Forward, DraftSerial
<1> QED
  BY <1>1, <1>2, <1>3 DEF DataRecord, Change

LEMMA MessageEndsStep ==
    ASSUME IInv, MessageEnds
    PROVE  IInv'
<1>1. CASE Raise
  BY <1>1, RaiseStep
<1>2. CASE End("done") /\ UNCHANGED zone
  BY <1>2, EndStep
<1>3. CASE ~inbound.done /\ pc' = "reading" /\ UNCHANGED <<zone, request, work>>
  BY <1>3 DEF MessageEnds, request, work, IInv, Shapes, ReplaceIffFull, Underway, Base,
         Forward, DraftSerial
<1> QED
  BY <1>1, <1>2, <1>3 DEF MessageEnds

-----------------------------------------------------------------------------
(* The invariant and the theorems                                          *)

\* What only FinalSoa does to the zone.
ZoneStep ==
    zone' # zone =>
        /\ ~inbound.done /\ inbound'.done /\ zone'.serial = inbound.soa
        /\ query.rdtype = "IXFR" =>
              zone'.serial # zone.serial /\ ~Lt(zone'.serial, zone.serial)
        /\ inbound.incremental => zone' = draft

LEMMA Step ==
    ASSUME IInv, [Next]_vars
    PROVE  IInv' /\ ZoneStep
<1>1. CASE \E s \in Serials, d \in SUBSET Data : Publish(s, d)
  BY <1>1 DEF Publish, request, work, IInv, Shapes, ReplaceIffFull, Underway, Base, Forward,
     DraftSerial, ZoneStep
<1>2. CASE \E mode \in {"never", "first", "only"}, full \in BOOLEAN : Start(mode, full)
  <2>1. PICK mode \in {"never", "first", "only"}, full \in BOOLEAN : Start(mode, full)
    BY <1>2
  <2> QED
    BY <2>1, StartStep DEF Start, ZoneStep
<1>3. CASE Receive
  BY <1>3, ReceiveStep DEF Receive, ZoneStep
<1>4. CASE Fail \/ FirstIsNotSoa \/ AnswersAfterFinal
  BY <1>4, RaiseStep DEF Fail, FirstIsNotSoa, AnswersAfterFinal, Raise, ZoneStep
<1>5. CASE FirstSoa
  BY <1>5, FirstSoaStep DEF FirstSoa, Continue, Raise, RetryWithTCP, ZoneStep
<1>6. CASE FinalSoa
  BY <1>6, FinalSoaStep DEF ZoneStep
<1>7. CASE InnerSoa
  BY <1>7, InnerSoaStep DEF InnerSoa, Continue, Raise, ZoneStep
<1>8. CASE DataRecord
  BY <1>8, DataRecordStep DEF DataRecord, Fallback, Change, Continue, Raise, ZoneStep
<1>9. CASE MessageEnds
  BY <1>9, MessageEndsStep DEF MessageEnds, End, Raise, ZoneStep
<1>10. CASE UNCHANGED vars
  BY <1>10 DEF vars, request, work, IInv, Shapes, ReplaceIffFull, Underway, Base, Forward,
     DraftSerial, ZoneStep
<1> QED
  BY <1>1, <1>2, <1>3, <1>4, <1>5, <1>6, <1>7, <1>8, <1>9, <1>10 DEF Next, Transfer

LEMMA Invariance == Spec => []IInv
<1>1. IInv /\ [Next]_vars => IInv'
  BY Step
<1> QED
  BY Initially, <1>1, PTL DEF Spec

\* A transaction opened as a replacement is never used for differences, nor
\* one opened as an update for a whole zone.
THEOREM ReplaceIffFullHolds == Spec => []ReplaceIffFull
<1>1. IInv => ReplaceIffFull
  BY DEF IInv
<1> QED
  BY Invariance, <1>1, PTL

\* Whatever the primary sends, an IXFR does not move the zone back.
THEOREM NeverBackHolds == Spec => NeverBack
<1>1. IInv /\ [Next]_vars =>
         [zone' # zone /\ query.rdtype = "IXFR"
            => zone'.serial # zone.serial /\ ~Lt(zone'.serial, zone.serial)]_vars
  BY Step DEF ZoneStep
<1> QED
  BY Invariance, <1>1, PTL DEF Spec, NeverBack

\* Whatever the primary sends, the zone changes at the end of a transfer
\* only, to the announced serial.
THEOREM OneCommitHolds == Spec => OneCommit
<1>1. IInv /\ [Next]_vars =>
         [/\ zone' # zone =>
                ~inbound.done /\ inbound'.done /\ zone'.serial = inbound.soa
          /\ pc = "reading" => ~inbound.done]_vars
  BY Step DEF ZoneStep, IInv, Underway
<1> QED
  BY Invariance, <1>1, PTL DEF Spec, OneCommit

\* Whatever the primary sends, an incremental transfer commits a draft that
\* its differences brought to the announced serial.
THEOREM DifferencesFitHold == Spec => DifferencesFit
<1>1. IInv /\ [Next]_vars =>
         [zone' # zone /\ inbound.incremental => zone' = draft]_vars
  BY Step DEF ZoneStep
<1> QED
  BY Invariance, <1>1, PTL DEF Spec, DifferencesFit

-----------------------------------------------------------------------------
(* An honest primary and its answers                                       *)

\* What it published: zones that have records, and a serial of their own.
PrimaryIs ==
    /\ primary \in Seq([serial : Serials, data : (SUBSET Data) \ {{}}])
    /\ \A i, j \in 1 .. Len(primary) : primary[i].serial = primary[j].serial => i = j

\* What is left of an answer is between versions that were published.
WireIs(w) ==
    /\ w = Wire(w.phase, w.from, w.to, w.goal, w.left)
    /\ w.phase \in {"lead", "base", "deletions", "additions", "end"}
    /\ w.phase # "end" => w.goal \in 1 .. Len(primary)
    /\ w.phase \in {"lead", "base", "end"} => w.left = {}
    /\ w.phase = "lead" => w.from \in 0 .. w.goal
    /\ w.phase = "base" => w.from \in 1 .. w.goal - 1
    /\ w.phase = "deletions" =>
          /\ w.from \in 1 .. w.goal - 1 /\ w.to \in w.from + 1 .. w.goal
          /\ w.left \subseteq primary[w.from].data \ primary[w.to].data
    /\ w.phase = "additions" =>
          /\ w.from \in 0 .. w.goal - 1 /\ w.to \in 1 .. w.goal
          /\ w.from = 0 => w.to = w.goal
          /\ w.left \subseteq primary[w.to].data

\* Before its first record the transfer is new, and the answer is one to its
\* query; then Inbound knows what comes next, and the draft has what came.
MatchesLead(w) ==
    w.phase = "lead" =>
      /\ inbound = NewInbound(query)
      /\ txn # "none" => draft = IF inbound.incremental THEN zone ELSE NoZone
      /\ ~inbound.incremental => w.from = 0
      /\ inbound.incremental /\ w.from \notin {0, w.goal} => zone = primary[w.from]
      /\ inbound.incremental /\ w.from # w.goal =>
            /\ inbound.serial # primary[w.goal].serial
            /\ ~Lt(primary[w.goal].serial, inbound.serial)
      /\ w.from = w.goal => \/ is_udp
                            \/ inbound.serial = primary[w.goal].serial
                            \/ Lt(primary[w.goal].serial, inbound.serial)
MatchesRest(w) ==
    w.phase \in {"base", "deletions", "additions"} =>
      /\ ~inbound.done /\ txn # "none"
      /\ inbound.soa = primary[w.goal].serial
      /\ inbound.delete_mode = (w.phase = "deletions")
MatchesBase(w) ==
    w.phase = "base" =>
      /\ inbound.incremental /\ inbound.expecting_SOA
      /\ inbound.serial = primary[w.from].serial
      /\ draft = primary[w.from]
MatchesDeletions(w) ==
    w.phase = "deletions" =>
      /\ inbound.incremental /\ ~inbound.expecting_SOA
      /\ inbound.serial = primary[w.from].serial
      /\ draft.data = (primary[w.from].data \cap primary[w.to].data) \cup w.left
MatchesAdditions(w) ==
    w.phase = "additions" /\ w.from # 0 =>
      /\ inbound.incremental /\ ~inbound.expecting_SOA
      /\ inbound.serial = primary[w.to].serial
      /\ draft.data = primary[w.to].data \ w.left
MatchesFull(w) ==
    w.phase = "additions" /\ w.from = 0 =>
      /\ inbound.incremental => inbound.expecting_SOA /\ w.left = primary[w.to].data
      /\ ~inbound.incremental => ~inbound.expecting_SOA
                                 /\ draft.data = primary[w.to].data \ w.left
MatchesEnd(w) == w.phase = "end" => inbound.done \/ pc = "idle"
Matches(w) ==
    /\ MatchesLead(w) /\ MatchesRest(w) /\ MatchesBase(w) /\ MatchesDeletions(w)
    /\ MatchesAdditions(w) /\ MatchesFull(w) /\ MatchesEnd(w)

\* The record at hand is the next one of a rest that matches, and the wire
\* what remains then.
Comes(w, x) ==
    /\ WireIs(w) /\ Matches(w) /\ x \in Sends(w)
    /\ answer = InMessage(x.record, answer.last) /\ wire = x.wire
Stands(w) == w = wire /\ Matches(w)
AtHand ==
    IF answer.kind = "none" THEN \E w : Stands(w) ELSE \E w, x : Comes(w, x)

\* Messages end with the answer.
Cut ==
    /\ pc \in {"idle", "reading"} => answer.kind = "none"
    /\ pc = "answers" /\ answer.kind = "none" =>
          inbound.soa # None /\ (is_udp => wire.phase = "end")
    /\ answer.kind # "none" =>
          /\ wire.phase = "end" => answer.last
          /\ answer.last /\ is_udp => wire.phase = "end"

IsCopy == zone # NoZone => zone \in Published

HInv == honest => PrimaryIs /\ WireIs(wire) /\ AtHand /\ Cut /\ IsCopy

-----------------------------------------------------------------------------
(* What is sent next                                                       *)

Then(i, y) == [record |-> Soa(primary[i].serial), wire |-> y]
Between(i, j, goal) == Wire("deletions", i, j, goal, primary[i].data \ primary[j].data)
Less(w, d) == [record |-> Record(d), wire |-> Wire(w.phase, w.from, w.to, w.goal, w.left \ {d})]

LEMMA WireFields ==
    ASSUME NEW p, NEW f, NEW t, NEW g, NEW l
    PROVE  LET w == Wire(p, f, t, g, l)
           IN w.phase = p /\ w.from = f /\ w.to = t /\ w.goal = g /\ w.left = l
  BY DEF Wire

LEMMA SendsIs ==
    ASSUME NEW w, WireIs(w), NEW x \in Sends(w)
    PROVE  \/ /\ w.phase = "lead" /\ w.from = w.goal /\ x = Then(w.goal, NoWire)
           \/ /\ w.phase = "lead" /\ w.from = 0
              /\ x = Then(w.goal, Wire("additions", 0, w.goal, w.goal, primary[w.goal].data))
           \/ /\ w.phase = "lead" /\ w.from \notin {0, w.goal}
              /\ x = Then(w.goal, Wire("base", w.from, 0, w.goal, {}))
           \/ /\ w.phase = "base"
              /\ \E j \in w.from + 1 .. w.goal : x = Then(w.from, Between(w.from, j, w.goal))
           \/ /\ w.phase = "deletions" /\ w.left = {}
              /\ x = Then(w.to, Wire("additions", w.from, w.to, w.goal,
                                     primary[w.to].data \ primary[w.from].data))
           \/ /\ w.phase = "additions" /\ w.left = {} /\ w.to = w.goal
              /\ x = Then(w.goal, NoWire)
           \/ /\ w.phase = "additions" /\ w.left = {} /\ w.to # w.goal
              /\ \E j \in w.to + 1 .. w.goal : x = Then(w.to, Between(w.to, j, w.goal))
           \/ /\ w.phase \in {"deletions", "additions"}
              /\ \E d \in w.left : x = Less(w, d)
<1>1. CASE w.left # {}
  <2>1. \E d \in w.left : x = Less(w, d)
    BY <1>1 DEF Sends, Less
  <2> QED
    BY <1>1, <2>1 DEF WireIs
<1>2. CASE w.left = {}
  <2>1. PICK y \in AfterSoa(w) : x = [record |-> SoaBetween(w), wire |-> y]
    BY <1>2 DEF Sends
  <2>2. CASE w.phase = "lead"
    <3>1. x = Then(w.goal, y)
      BY <2>1, <2>2 DEF SoaBetween, Then
    <3>2. CASE w.from = w.goal
      BY <2>1, <2>2, <3>1, <3>2 DEF AfterSoa
    <3>3. CASE w.from = 0 /\ w.from # w.goal
      BY <2>1, <2>2, <3>1, <3>3 DEF AfterSoa
    <3>4. CASE w.from \notin {0, w.goal}
      BY <2>1, <2>2, <3>1, <3>4 DEF AfterSoa
    <3> QED
      BY <3>2, <3>3, <3>4
  <2>3. CASE w.phase = "base"
    <3>1. x = Then(w.from, y)
      BY <2>1, <2>3 DEF SoaBetween, Then
    <3>2. y \in Differences(w.from, w.goal)
      BY <2>1, <2>3 DEF AfterSoa
    <3>3. \E j \in w.from + 1 .. w.goal : y = Between(w.from, j, w.goal)
      BY <3>2 DEF Differences, Between
    <3> QED
      BY <2>3, <3>1, <3>3
  <2>4. CASE w.phase = "deletions"
    <3>1. x = Then(w.to, y)
      BY <2>1, <2>4 DEF SoaBetween, Then
    <3> QED
      BY <1>2, <2>1, <2>4, <3>1 DEF AfterSoa
  <2>5. CASE w.phase = "additions"
    <3>1. x = Then(w.to, y)
      BY <2>1, <2>5 DEF SoaBetween, Then
    <3>2. CASE w.to = w.goal
      BY <1>2, <2>1, <2>5, <3>1, <3>2 DEF AfterSoa
    <3>3. CASE w.to # w.goal
      <4>1. y \in Differences(w.to, w.goal)
        BY <2>1, <2>5, <3>3 DEF AfterSoa
      <4>2. \E j \in w.to + 1 .. w.goal : y = Between(w.to, j, w.goal)
        BY <4>1 DEF Differences, Between
      <4> QED
        BY <1>2, <2>5, <3>1, <3>3, <4>2
    <3> QED
      BY <3>2, <3>3
  <2>6. CASE w.phase = "end"
    BY <2>1, <2>6 DEF AfterSoa
  <2> QED
    BY <2>2, <2>3, <2>4, <2>5, <2>6 DEF WireIs
<1> QED
  BY <1>1, <1>2

LEMMA BetweenIsWire ==
    ASSUME NEW goal \in 1 .. Len(primary), NEW i \in 1 .. goal - 1, NEW j \in i + 1 .. goal,
           Len(primary) \in Nat
    PROVE  WireIs(Between(i, j, goal))
<1> DEFINE y == Between(i, j, goal)
<1>1. y.phase = "deletions" /\ y.from = i /\ y.to = j /\ y.goal = goal
      /\ y.left = primary[i].data \ primary[j].data
  BY WireFields DEF Between
<1>2. y = Wire(y.phase, y.from, y.to, y.goal, y.left)
  BY <1>1 DEF Between
<1> HIDE DEF y
<1> QED
  BY <1>1, <1>2 DEF WireIs, y

\* What remains is between published versions, too.
LEMMA SentIsWire ==
    ASSUME PrimaryIs, NEW w, WireIs(w), NEW x \in Sends(w)
    PROVE  WireIs(x.wire)
<1>1. Len(primary) \in Nat
  BY DEF PrimaryIs
<1>2. w.goal \in 1 .. Len(primary)
  BY SendsIs DEF WireIs
<1>3. CASE x = Then(w.goal, NoWire)
  BY <1>3 DEF Then, NoWire, Wire, WireIs
<1>4. CASE x = Then(w.goal, Wire("additions", 0, w.goal, w.goal, primary[w.goal].data))
  BY <1>1, <1>2, <1>4 DEF Then, Wire, WireIs
<1>5. CASE /\ w.phase = "lead" /\ w.from \notin {0, w.goal}
           /\ x = Then(w.goal, Wire("base", w.from, 0, w.goal, {}))
  <2>1. w.from \in 1 .. w.goal - 1
    BY <1>1, <1>2, <1>5 DEF WireIs
  <2> QED
    BY <1>1, <1>2, <1>5, <2>1 DEF Then, Wire, WireIs
<1>6. CASE /\ w.phase = "base"
           /\ \E j \in w.from + 1 .. w.goal : x = Then(w.from, Between(w.from, j, w.goal))
  <2>1. w.from \in 1 .. w.goal - 1
    BY <1>6 DEF WireIs
  <2>2. PICK j \in w.from + 1 .. w.goal : x = Then(w.from, Between(w.from, j, w.goal))
    BY <1>6
  <2>3. x.wire = Between(w.from, j, w.goal)
    BY <2>2 DEF Then
  <2> QED
    BY <1>1, <1>2, <2>1, <2>3, BetweenIsWire
<1>7. CASE /\ w.phase = "deletions"
           /\ x = Then(w.to, Wire("additions", w.from, w.to, w.goal,
                                  primary[w.to].data \ primary[w.from].data))
  <2>1. w.from \in 1 .. w.goal - 1 /\ w.to \in w.from + 1 .. w.goal
    BY <1>7 DEF WireIs
  <2>2. w.from \in 0 .. w.goal - 1 /\ w.to \in 1 .. w.goal /\ w.from # 0
    BY <1>1, <1>2, <2>1
  <2> QED
    BY <1>1, <1>2, <1>7, <2>2 DEF Then, Wire, WireIs
<1>8. CASE /\ w.phase = "additions" /\ w.to # w.goal
           /\ \E j \in w.to + 1 .. w.goal : x = Then(w.to, Between(w.to, j, w.goal))
  <2>1. w.to \in 1 .. w.goal - 1
    BY <1>1, <1>2, <1>8 DEF WireIs
  <2>2. PICK j \in w.to + 1 .. w.goal : x = Then(w.to, Between(w.to, j, w.goal))
    BY <1>8
  <2>3. x.wire = Between(w.to, j, w.goal)
    BY <2>2 DEF Then
  <2> QED
    BY <1>1, <1>2, <2>1, <2>3, BetweenIsWire
<1>9. CASE w.phase \in {"deletions", "additions"} /\ \E d \in w.left : x = Less(w, d)
  <2>1. PICK d \in w.left : x = Less(w, d)
    BY <1>9
  <2> DEFINE y == Wire(w.phase, w.from, w.to, w.goal, w.left \ {d})
  <2>2. x.wire = y
    BY <2>1 DEF Less
  <2>3. y.phase = w.phase /\ y.from = w.from /\ y.to = w.to /\ y.goal = w.goal
        /\ y.left = w.left \ {d}
    BY WireFields
  <2>4. y = Wire(y.phase, y.from, y.to, y.goal, y.left)
    BY <2>3
  <2> HIDE DEF y
  <2> QED
    BY <1>9, <2>2, <2>3, <2>4 DEF WireIs
<1> QED
  BY <1>3, <1>4, <1>5, <1>6, <1>7, <1>8, <1>9, SendsIs

\* Versions stay as they were published.
LEMMA WireStays ==
    ASSUME NEW w, WireIs(w), PrimaryIs, PrimaryIs',
           Len(primary') >= Len(primary),
           \A i \in 1 .. Len(primary) : primary'[i] = primary[i]
    PROVE  /\ WireIs(w)' /\ Sends(w)' = Sends(w)
           /\ Matches(w) /\ UNCHANGED <<inbound, query, txn, draft, zone, is_udp, pc>>
                 => Matches(w)'
<1>1. Len(primary) \in Nat /\ Len(primary') \in Nat
  BY DEF PrimaryIs
<1>2. w.phase # "end" =>
        /\ w.goal \in 1 .. Len(primary) /\ primary'[w.goal] = primary[w.goal]
        /\ w.from \in 1 .. w.goal => primary'[w.from] = primary[w.from]
        /\ w.to \in 1 .. w.goal => primary'[w.to] = primary[w.to]
  BY <1>1 DEF WireIs
<1>3. WireIs(w)'
  BY <1>1, <1>2, SMTT(30) DEF WireIs
<1>4. ASSUME NEW i \in 1 .. w.goal, w.phase # "end"
      PROVE  Differences(i, w.goal)' = Differences(i, w.goal)
  <2>1. /\ i \in 1 .. Len(primary)
        /\ \A j \in i + 1 .. w.goal : j \in 1 .. Len(primary)
    BY <1>1, <1>2, <1>4
  <2> QED
    BY <2>1 DEF Differences
<1>5. AfterSoa(w)' = AfterSoa(w) /\ (w.phase # "end" => SoaBetween(w)' = SoaBetween(w))
  <2>1. CASE w.phase = "lead"
    BY <1>2, <2>1 DEF AfterSoa, SoaBetween
  <2>2. CASE w.phase = "base"
    <3>1. w.from \in 1 .. w.goal
      BY <1>1, <1>2, <2>2 DEF WireIs
    <3>2. Differences(w.from, w.goal)' = Differences(w.from, w.goal)
      BY <1>4, <2>2, <3>1
    <3> QED
      BY <1>2, <2>2, <3>1, <3>2 DEF AfterSoa, SoaBetween
  <2>3. CASE w.phase = "deletions"
    <3>1. w.from \in 1 .. w.goal /\ w.to \in 1 .. w.goal
      BY <1>1, <1>2, <2>3 DEF WireIs
    <3> QED
      BY <1>2, <2>3, <3>1 DEF AfterSoa, SoaBetween
  <2>4. CASE w.phase = "additions"
    <3>1. w.to \in 1 .. w.goal
      BY <1>1, <1>2, <2>4 DEF WireIs
    <3>2. Differences(w.to, w.goal)' = Differences(w.to, w.goal)
      BY <1>4, <2>4, <3>1
    <3> QED
      BY <1>2, <2>4, <3>1, <3>2 DEF AfterSoa, SoaBetween
  <2>5. CASE w.phase = "end"
    BY <2>5 DEF AfterSoa
  <2> QED
    BY <2>1, <2>2, <2>3, <2>4, <2>5 DEF WireIs
<1>6. Sends(w)' = Sends(w)
  <2>1. CASE w.phase = "end"
    <3>1. w.left = {} /\ AfterSoa(w) = {}
      BY <2>1 DEF WireIs, AfterSoa
    <3> QED
      BY <1>5, <3>1 DEF Sends
  <2>2. CASE w.phase # "end"
    BY <1>5, <2>2 DEF Sends
  <2> QED
    BY <2>1, <2>2
<1>7. ASSUME Matches(w), UNCHANGED <<inbound, query, txn, draft, zone, is_udp, pc>>
      PROVE  Matches(w)'
  <2>1. w.phase \in {"base", "deletions"} => w.from \in 1 .. w.goal
    BY <1>1, <1>2 DEF WireIs
  <2>2. w.phase \in {"deletions", "additions"} => w.to \in 1 .. w.goal
    BY <1>1, <1>2 DEF WireIs
  <2>3. w.phase = "lead" /\ w.from \notin {0, w.goal} => w.from \in 1 .. w.goal
    BY <1>1, <1>2 DEF WireIs
  <2>4. MatchesLead(w)'
    BY <1>2, <1>7, <2>3 DEF Matches, MatchesLead, NewInbound, NoZone
  <2>5. MatchesRest(w)' /\ MatchesBase(w)' /\ MatchesEnd(w)'
    BY <1>2, <1>7, <2>1 DEF Matches, MatchesRest, MatchesBase, MatchesEnd
  <2>6. MatchesDeletions(w)'
    BY <1>2, <1>7, <2>1, <2>2 DEF Matches, MatchesDeletions
  <2>7. MatchesAdditions(w)' /\ MatchesFull(w)'
    BY <1>2, <1>7, <2>2 DEF Matches, MatchesAdditions, MatchesFull
  <2> QED
    BY <2>4, <2>5, <2>6, <2>7 DEF Matches
<1> QED
  BY <1>3, <1>6, <1>7

\* Taking the next record, when what is left matches.
LEMMA NextRecordKeeps ==
    ASSUME honest, PrimaryIs, UNCHANGED <<primary, is_udp>>, pc' = "answers",
           NEW v, v = wire, WireIs(v), Matches(v)', NextRecord
    PROVE  WireIs(wire)' /\ AtHand' /\ Cut'
<1>1. PICK last \in BOOLEAN, x \in Sends(v) :
          /\ x.wire.phase = "end" => last
          /\ last /\ is_udp => x.wire.phase = "end"
          /\ answer' = InMessage(x.record, last) /\ wire' = x.wire
  BY DEF NextRecord
<1>2. WireIs(x.wire)
  BY SentIsWire
<1>3. PrimaryIs'
  BY DEF PrimaryIs
<1>4. Len(primary) \in Nat
  BY DEF PrimaryIs
<1>5. WireIs(v)' /\ Sends(v)' = Sends(v) /\ WireIs(x.wire)'
  BY <1>2, <1>3, <1>4, WireStays
<1>6. answer'.last = last /\ answer'.kind \in {"soa", "data"}
  <2>1. x.record.kind \in {"soa", "data"}
    <3>1. \A i, y : Then(i, y).record.kind = "soa"
      BY DEF Then, Soa
    <3>2. \A d : Less(v, d).record.kind = "data"
      BY DEF Less, Record
    <3>3. x \in Sends(v)
      BY <1>1
    <3>4. (\E i, y : x = Then(i, y)) \/ \E d : x = Less(v, d)
      BY <3>3, SendsIs, Zenon
    <3> QED
      BY <3>1, <3>2, <3>4
  <2> QED
    BY <1>1, <2>1 DEF InMessage
<1>7. Comes(v, x)'
  BY <1>1, <1>5, <1>6 DEF Comes
<1>8. AtHand'
  BY <1>6, <1>7 DEF AtHand
<1>9. Cut'
  BY <1>1, <1>6 DEF Cut
<1>10. WireIs(wire)'
  BY <1>1, <1>5 DEF WireIs
<1> QED
  BY <1>8, <1>9, <1>10

\* The same in the middle of a message, or at its end.
LEMMA ProceedKeeps ==
    ASSUME honest, PrimaryIs, UNCHANGED <<primary, is_udp>>, pc' = "answers",
           Cut, answer.kind # "none", inbound'.soa # None,
           NEW v, v = wire, WireIs(v), Matches(v)', Proceed
    PROVE  WireIs(wire)' /\ AtHand' /\ Cut'
<1>1. CASE ~answer.last
  <2>1. NextRecord
    BY <1>1 DEF Proceed
  <2> QED
    BY <2>1, NextRecordKeeps
<1>2. CASE answer.last
  <2>1. answer' = NoRecord /\ wire' = wire
    BY <1>2 DEF Proceed
  <2>2. answer'.kind = "none"
    BY <2>1 DEF NoRecord, InMessage
  <2>3. Stands(v)'
    BY <2>1 DEF Stands
  <2>4. AtHand'
    BY <2>2, <2>3 DEF AtHand
  <2>5. WireIs(wire)'
    BY <2>1 DEF WireIs
  <2>6. Cut'
    BY <1>2, <2>1, <2>2 DEF Cut
  <2> QED
    BY <2>4, <2>5, <2>6
<1> QED
  BY <1>1, <1>2

-----------------------------------------------------------------------------
(* The steps of a transfer from an honest primary                          *)

\* What may be refused of an honest answer.
Accepts ==
    honest /\ pc = "answers" /\ outcome = "none" /\ outcome' = "raised"
      => /\ IsSoa /\ inbound.soa = None /\ inbound.incremental
         /\ \/ Lt(First.value, inbound.serial)
            \/ is_udp /\ udp_mode = "only" /\ First.last

LEMMA NoWireIs == /\ NoWire.phase = "end" /\ NoWire.left = {} /\ WireIs(NoWire)
                  /\ NoRecord.kind = "none" /\ NoRecord.last
  BY DEF NoWire, Wire, WireIs, NoRecord, InMessage

LEMMA HonestEnd ==
    ASSUME HInv, NEW result, End(result), UNCHANGED zone
    PROVE  HInv'
<1> SUFFICES ASSUME honest, honest'
             PROVE  HInv'
  BY DEF End, source, HInv
<1>1. /\ UNCHANGED primary /\ wire' = NoWire /\ answer' = NoRecord /\ pc' = "idle"
  BY DEF End, source
<1>2. PrimaryIs' /\ IsCopy'
  BY <1>1 DEF HInv, PrimaryIs, IsCopy, Published
<1>3. WireIs(wire)'
  BY <1>1, NoWireIs DEF WireIs
<1>4. Matches(NoWire)'
  BY <1>1, NoWireIs DEF Matches, MatchesLead, MatchesRest, MatchesBase, MatchesDeletions,
     MatchesAdditions, MatchesFull, MatchesEnd
<1>5. AtHand'
  BY <1>1, <1>4, NoWireIs DEF AtHand, Stands
<1>6. Cut'
  BY <1>1, NoWireIs DEF Cut
<1> QED
  BY <1>2, <1>3, <1>5, <1>6 DEF HInv

LEMMA HonestRaise ==
    ASSUME HInv, Raise
    PROVE  HInv'
  BY HonestEnd DEF Raise

\* An attempt begins with an answer to its query.
LEMMA HonestAttempt ==
    ASSUME HInv, NEW q, NEW udp, Attempt(q, udp), query' = q, UNCHANGED <<source, zone>>,
           q.rdtype \in {"AXFR", "IXFR"},
           q.rdtype = "IXFR" => q.serial = zone.serial /\ q.serial # None
    PROVE  HInv'
<1> SUFFICES ASSUME honest, honest'
             PROVE  HInv'
  BY DEF source, HInv
<1> DEFINE n == Len(primary)
<1>1. /\ UNCHANGED primary /\ is_udp' = udp /\ inbound' = NewInbound(q) /\ txn' = "none"
      /\ answer' = NoRecord /\ pc' = "reading"
  BY DEF Attempt, source
<1>2. PrimaryIs' /\ IsCopy' /\ n \in Nat
  BY <1>1 DEF HInv, PrimaryIs, IsCopy, Published
<1>3. PICK w \in Answers(q, udp) : wire' = w
  BY DEF Attempt
<1>4. primary # <<>> /\ n \in 1 .. n
  <2>1. primary # <<>>
    BY <1>3 DEF Answers
  <2> QED
    BY <1>2, <2>1, EmptySeq DEF HInv, PrimaryIs
<1>5. Current = primary[n]
  BY <1>4 DEF Current, Last
<1> DEFINE s == primary[n].serial
<1>6. \/ /\ w = Lead(0)
         /\ q.rdtype = "IXFR" => q.serial # s /\ ~Lt(s, q.serial)
      \/ w = Lead(n) /\ q.rdtype = "IXFR" /\ (udp \/ q.serial = s \/ Lt(s, q.serial))
      \/ \E i \in 1 .. n : /\ w = Lead(i) /\ primary[i].serial = q.serial
                           /\ q.rdtype = "IXFR" /\ q.serial # s /\ ~Lt(s, q.serial)
  <2>1. CASE q.rdtype = "AXFR"
    BY <1>3, <1>4, <2>1 DEF Answers, Full
  <2>2. CASE q.rdtype = "IXFR" /\ (q.serial = s \/ Lt(s, q.serial))
    BY <1>3, <1>4, <1>5, <2>2 DEF Answers, UpToDate
  <2>3. CASE q.rdtype = "IXFR" /\ q.serial # s /\ ~Lt(s, q.serial)
    <3>1. DOMAIN primary = 1 .. n
      BY DEF HInv, PrimaryIs
    <3>2. w \in {Full} \cup (IF udp THEN {UpToDate} ELSE {})
               \cup {Lead(i) : i \in {j \in DOMAIN primary : primary[j].serial = q.serial}}
      BY <1>3, <1>4, <1>5, <2>3 DEF Answers
    <3> QED
      BY <2>3, <3>1, <3>2 DEF Full, UpToDate
  <2> QED
    BY <2>1, <2>2, <2>3
<1>7. PICK i \in 0 .. n : w = Lead(i)
  BY <1>2, <1>4, <1>6
<1>8. /\ w.phase = "lead" /\ w.from = i /\ w.to = 0 /\ w.goal = n /\ w.left = {}
      /\ w = Wire("lead", i, 0, n, {})
  BY <1>7, WireFields DEF Lead
<1>9. WireIs(w)'
  <2>1. w = Wire(w.phase, w.from, w.to, w.goal, w.left)
    BY <1>8
  <2> QED
    BY <1>1, <1>2, <1>4, <1>8, <2>1 DEF WireIs
<1>10. /\ inbound'.incremental <=> q.rdtype = "IXFR"
       /\ inbound'.serial = q.serial
  BY <1>1 DEF NewInbound
<1>11. ASSUME q.rdtype = "IXFR", NEW j \in 1 .. n, primary[j].serial = q.serial
       PROVE  zone = primary[j]
  <2>1. zone \in Published
    BY <1>11 DEF HInv, IsCopy, NoZone
  <2>2. PICK k \in 1 .. n : zone = primary[k]
    BY <2>1 DEF Published, HInv, PrimaryIs
  <2> QED
    BY <1>11, <2>2 DEF HInv, PrimaryIs
<1>12. MatchesLead(w)'
  <2>1. inbound' = NewInbound(query)'
    BY <1>1 DEF NewInbound
  <2>2. ~inbound'.incremental => i = 0
    BY <1>6, <1>7, <1>8, <1>10, WireFields DEF Lead
  <2>3. inbound'.incremental /\ i \notin {0, n} => zone' = primary'[i]
    BY <1>1, <1>6, <1>7, <1>8, <1>10, <1>11, WireFields DEF Lead
  <2>4. inbound'.incremental /\ i # n => q.serial # s /\ ~Lt(s, q.serial)
    BY <1>6, <1>7, <1>8, <1>10, WireFields DEF Lead
  <2>5. i = n => udp \/ q.serial = s \/ Lt(s, q.serial)
    BY <1>4, <1>6, <1>7, <1>8, <1>10, WireFields DEF Lead
  <2> QED
    BY <1>1, <1>8, <1>10, <2>1, <2>2, <2>3, <2>4, <2>5 DEF MatchesLead
<1>13. Matches(w)'
  BY <1>8, <1>12 DEF Matches, MatchesRest, MatchesBase, MatchesDeletions, MatchesAdditions,
     MatchesFull, MatchesEnd
<1>14. AtHand' /\ Cut' /\ WireIs(wire)'
  <2>1. WireIs(wire)'
    BY <1>3, <1>9 DEF WireIs
  <2>2. AtHand'
    BY <1>1, <1>3, <1>13, NoWireIs DEF AtHand, Stands
  <2>3. Cut'
    BY <1>1, NoWireIs DEF Cut
  <2> QED
    BY <2>1, <2>2, <2>3
<1> QED
  BY <1>2, <1>14 DEF HInv

LEMMA VersionIs ==
    ASSUME PrimaryIs, NEW i \in 1 .. Len(primary)
    PROVE  /\ primary[i] = [serial |-> primary[i].serial, data |-> primary[i].data]
           /\ primary[i].serial # None /\ primary[i].data # {}
           /\ primary[i] \in Published
<1> DEFINE S == [serial : Serials, data : (SUBSET Data) \ {{}}]
<1>1. primary \in Seq(S) /\ DOMAIN primary = 1 .. Len(primary)
  BY DEF PrimaryIs
<1>2. \A T : primary \in Seq(T) => primary[i] \in T
  OBVIOUS
<1>3. primary[i] \in Published
  BY <1>1 DEF Published
<1>4. None \notin Serials
  BY XfrAssumption
<1>5. primary[i] \in S
  BY <1>1, <1>2
<1>6. primary[i].serial \in Serials /\ primary[i].data # {}
  BY <1>5
<1>7. primary[i] = [serial |-> primary[i].serial, data |-> primary[i].data]
  BY <1>5
<1> QED
  BY <1>3, <1>4, <1>6, <1>7

LEMMA HonestStart ==
    ASSUME IInv, HInv, NEW mode, NEW full, Start(mode, full)
    PROVE  HInv'
<1> DEFINE q == IF full \/ zone.serial = None
                THEN [rdtype |-> "AXFR", serial |-> None]
                ELSE [rdtype |-> "IXFR", serial |-> zone.serial]
           u == q.rdtype = "IXFR" /\ mode # "never"
<1>1. /\ query' = q /\ Attempt(q, u) /\ UNCHANGED <<source, zone>>
      /\ q.rdtype \in {"AXFR", "IXFR"}
      /\ q.rdtype = "IXFR" => q.serial = zone.serial /\ q.serial # None
  BY DEF Start
<1> HIDE DEF q, u
<1> QED
  BY <1>1, HonestAttempt

LEMMA HonestReceive ==
    ASSUME HInv, Receive
    PROVE  HInv'
<1> SUFFICES ASSUME honest, honest'
             PROVE  HInv'
  BY DEF Receive, source, HInv
<1>1. /\ pc = "reading" /\ pc' = "answers" /\ NextRecord /\ Open
      /\ UNCHANGED <<honest, primary, zone, query, is_udp, inbound>>
  BY DEF Receive, source, request
<1>2. PrimaryIs' /\ IsCopy'
  BY <1>1 DEF HInv, PrimaryIs, IsCopy, Published
<1>3. answer.kind = "none"
  BY <1>1 DEF HInv, Cut
<1>4. PICK w : w = wire /\ Matches(w)
  BY <1>3 DEF HInv, AtHand, Stands
<1>5. Matches(w)'
  <2>1. MatchesLead(w)'
    BY <1>1, <1>4 DEF Matches, MatchesLead, Open, NewInbound, NoZone
  <2>2. w.phase \in {"base", "deletions", "additions"} => UNCHANGED <<txn, draft>>
    BY <1>1, <1>4 DEF Matches, MatchesRest, Open
  <2>3. MatchesRest(w)' /\ MatchesBase(w)' /\ MatchesDeletions(w)' /\ MatchesAdditions(w)'
        /\ MatchesFull(w)'
    BY <1>1, <1>4, <2>2 DEF Matches, MatchesRest, MatchesBase, MatchesDeletions,
       MatchesAdditions, MatchesFull
  <2>4. MatchesEnd(w)'
    BY <1>1, <1>4 DEF Matches, MatchesEnd
  <2> QED
    BY <2>1, <2>3, <2>4 DEF Matches
<1>6. PrimaryIs /\ WireIs(w)
  BY <1>4 DEF HInv
<1>7. WireIs(wire)' /\ AtHand' /\ Cut'
  BY <1>1, <1>4, <1>5, <1>6, NextRecordKeeps
<1> QED
  BY <1>2, <1>7 DEF HInv

\* A step of the transfer that goes on with the answer.
LEMMA HonestContinue ==
    ASSUME HInv, NEW i, NEW t, NEW d, Continue(i, t, d), pc = "answers",
           answer.kind # "none", i.soa # None,
           honest => \E w : w = wire /\ Matches(w)'
    PROVE  HInv'
<1> SUFFICES ASSUME honest, honest'
             PROVE  HInv'
  BY DEF Continue, source, HInv
<1>1. /\ pc' = "answers" /\ Proceed /\ inbound' = i
      /\ UNCHANGED <<primary, zone, is_udp>>
  BY DEF Continue, source, request
<1>2. PrimaryIs' /\ IsCopy'
  BY <1>1 DEF HInv, PrimaryIs, IsCopy, Published
<1>3. PICK w : w = wire /\ Matches(w)'
  OBVIOUS
<1>4. PrimaryIs /\ WireIs(w) /\ Cut
  BY <1>3 DEF HInv
<1>5. WireIs(wire)' /\ AtHand' /\ Cut'
  BY <1>1, <1>3, <1>4, ProceedKeeps
<1> QED
  BY <1>2, <1>5 DEF HInv

\* The record at hand and the rest it comes from.
LEMMA RecordAtHand ==
    ASSUME HInv, honest, answer.kind # "none"
    PROVE  /\ \E w, x : Comes(w, x) /\ w.phase # "end"
           /\ PrimaryIs /\ Cut /\ IsCopy /\ WireIs(wire)
<1>1. PICK w, x : Comes(w, x)
  BY DEF HInv, AtHand
<1>2. x \in Sends(w) /\ WireIs(w)
  BY <1>1 DEF Comes
<1>3. w.phase # "end"
  BY <1>2, SendsIs
<1> QED
  BY <1>1, <1>3 DEF HInv

\* The record at hand is that of the phase, and the wire has what comes then.
LEMMA ComesIs ==
    ASSUME NEW w, NEW x, NEW i, NEW y, Comes(w, x), x = Then(i, y)
    PROVE  First.kind = "soa" /\ First.value = primary[i].serial /\ wire = y
  BY DEF Comes, Then, Soa, InMessage, First

LEMMA ComesData ==
    ASSUME NEW w, NEW x, NEW d, Comes(w, x), x = Less(w, d)
    PROVE  /\ First.kind = "data" /\ First.value = d
           /\ wire = Wire(w.phase, w.from, w.to, w.goal, w.left \ {d})
  BY DEF Comes, Less, Record, InMessage, First

\* The first record of an answer is what an honest primary begins with.
LEMMA FirstIsLead ==
    ASSUME HInv, honest, AtFirst
    PROVE  answer.kind # "none" /\ \E w, x : Comes(w, x) /\ w.phase = "lead"
<1>1. pc = "answers" /\ inbound.soa = None
  BY DEF AtFirst
<1>2. answer.kind # "none"
  BY <1>1 DEF HInv, Cut
<1>3. PICK w, x : Comes(w, x) /\ w.phase # "end"
  BY <1>2, RecordAtHand
<1>4. WireIs(w) /\ Matches(w)
  BY <1>3 DEF Comes
<1>5. w.goal \in 1 .. Len(primary)
  BY <1>3, <1>4 DEF WireIs
<1>6. primary[w.goal].serial # None
  BY <1>5, VersionIs DEF HInv
<1>7. w.phase = "lead"
  BY <1>1, <1>3, <1>4, <1>6 DEF Matches, MatchesRest, WireIs
<1> QED
  BY <1>2, <1>3, <1>7

LEMMA HonestFirstIsNotSoa ==
    ASSUME HInv, FirstIsNotSoa
    PROVE  HInv' /\ Accepts
<1>1. HInv'
  BY HonestRaise DEF FirstIsNotSoa
<1>2. ASSUME honest PROVE FALSE
  <2>1. AtFirst /\ ~IsSoa
    BY DEF FirstIsNotSoa
  <2>2. PICK w, x : Comes(w, x) /\ w.phase = "lead"
    BY <1>2, <2>1, FirstIsLead
  <2>3. WireIs(w) /\ x \in Sends(w)
    BY <2>2 DEF Comes
  <2>4. \E y : x = Then(w.goal, y)
    BY <2>2, <2>3, SendsIs
  <2> QED
    BY <2>1, <2>2, <2>4, ComesIs DEF IsSoa
<1> QED
  BY <1>1, <1>2 DEF Accepts

LEMMA HonestFirstSoa ==
    ASSUME IInv, HInv, FirstSoa
    PROVE  HInv' /\ Accepts
<1>1. AtFirst /\ IsSoa /\ pc = "answers" /\ inbound.soa = None /\ answer.kind # "none"
  BY DEF FirstSoa, AtFirst, IsSoa, First
<1> DEFINE i == [inbound EXCEPT !.soa = First.value]
           e == [i EXCEPT !.expecting_SOA = TRUE]
<1>2. UNCHANGED honest
  BY DEF FirstSoa, Continue, Raise, End, RetryWithTCP, source
<1>3. CASE ~honest
  BY <1>2, <1>3 DEF HInv, Accepts
<1>4. CASE honest
  <2>1. PICK w, x : Comes(w, x) /\ w.phase = "lead"
    BY <1>1, <1>4, FirstIsLead
  <2>2. /\ WireIs(w) /\ Matches(w) /\ x \in Sends(w) /\ PrimaryIs /\ Cut
        /\ w.goal \in 1 .. Len(primary) /\ w.from \in 0 .. w.goal
    BY <1>4, <2>1 DEF Comes, HInv, WireIs
  <2>3. Len(primary) \in Nat /\ w.goal # 0
    BY <2>2 DEF PrimaryIs
  <2> DEFINE s == primary[w.goal].serial
  <2>4. /\ inbound = NewInbound(query)
        /\ txn # "none" /\ draft = IF inbound.incremental THEN zone ELSE NoZone
        /\ ~inbound.incremental => w.from = 0
        /\ inbound.incremental /\ w.from \notin {0, w.goal} => zone = primary[w.from]
        /\ inbound.incremental /\ w.from # w.goal =>
              inbound.serial # s /\ ~Lt(s, inbound.serial)
        /\ w.from = w.goal => is_udp \/ inbound.serial = s \/ Lt(s, inbound.serial)
    <3>1. MatchesLead(w)
      BY <2>2 DEF Matches
    <3>2. ~inbound.done
      BY <2>1, <3>1 DEF MatchesLead, NewInbound
    <3>3. txn # "none"
      BY <1>1, <3>2 DEF IInv, Underway
    <3> QED
      BY <2>1, <3>1, <3>3 DEF MatchesLead
  <2>5. PICK y : x = Then(w.goal, y) /\
           \/ y = NoWire /\ w.from = w.goal
           \/ /\ y = Wire("additions", 0, w.goal, w.goal, primary[w.goal].data)
              /\ w.from = 0
           \/ y = Wire("base", w.from, 0, w.goal, {}) /\ w.from \notin {0, w.goal}
    BY <2>1, <2>2, SendsIs
  <2>6. First.value = s /\ s # None /\ wire = y
    BY <2>1, <2>2, <2>5, ComesIs, VersionIs
  <2>7. /\ ~inbound.done /\ ~inbound.expecting_SOA /\ ~inbound.delete_mode
        /\ inbound.delete_mode \in BOOLEAN
        /\ i = [inbound EXCEPT !.soa = s]
        /\ i.soa = s /\ i.incremental = inbound.incremental /\ i.serial = inbound.serial
        /\ ~i.done /\ ~i.expecting_SOA /\ i.delete_mode = FALSE
        /\ e.soa = s /\ e.incremental = inbound.incremental /\ e.serial = inbound.serial
        /\ ~e.done /\ e.expecting_SOA /\ e.delete_mode = FALSE
        /\ Done(i).done /\ Done(i).soa = s
    BY <2>4, <2>6 DEF NewInbound, Done
  <2> HIDE DEF i, e, s
  <2>8. CASE ~inbound.incremental /\ Continue(i, txn, draft)
    <3>1. y = Wire("additions", 0, w.goal, w.goal, primary[w.goal].data)
      BY <2>3, <2>4, <2>5, <2>8
    <3>2. y.phase = "additions" /\ y.from = 0 /\ y.to = w.goal /\ y.goal = w.goal
          /\ y.left = primary[w.goal].data
      BY <3>1, WireFields
    <3>3. inbound' = i /\ txn' = txn /\ draft' = NoZone /\ UNCHANGED primary
      BY <2>4, <2>8 DEF Continue, source
    <3>4. MatchesRest(y)' /\ MatchesFull(y)'
      BY <2>4, <2>7, <2>8, <3>2, <3>3 DEF MatchesRest, MatchesFull, NoZone, s
    <3>5. Matches(y)'
      BY <3>2, <3>4 DEF Matches, MatchesLead, MatchesBase, MatchesDeletions, MatchesAdditions,
         MatchesEnd
    <3>6. HInv'
      BY <1>1, <2>6, <2>7, <2>8, <3>5, HonestContinue
    <3> QED
      BY <2>8, <3>6 DEF Accepts, Continue
  <2>9. CASE /\ inbound.incremental /\ First.value = inbound.serial
             /\ Continue(Done(i), txn, draft)
    <3>1. y = NoWire
      BY <2>3, <2>4, <2>5, <2>6, <2>9
    <3>2. inbound'.done
      BY <2>7, <2>9 DEF Continue
    <3>3. Matches(y)'
      BY <3>1, <3>2, NoWireIs DEF Matches, MatchesLead, MatchesRest, MatchesBase,
         MatchesDeletions, MatchesAdditions, MatchesFull, MatchesEnd
    <3>4. HInv'
      BY <1>1, <2>6, <2>7, <2>9, <3>3, HonestContinue
    <3> QED
      BY <2>9, <3>4 DEF Accepts, Continue
  <2>10. CASE inbound.incremental /\ WentBackwards(First.value) /\ Raise
    <3>1. HInv'
      BY <2>10, HonestRaise
    <3> QED
      BY <1>1, <2>10, <3>1 DEF Accepts, WentBackwards
  <2>11. CASE inbound.incremental /\ is_udp /\ First.last /\ RetryWithTCP
    <3>1. CASE udp_mode = "only" /\ Raise
      <4>1. HInv'
        BY <3>1, HonestRaise
      <4> QED
        BY <1>1, <2>11, <3>1, <4>1 DEF Accepts
    <3>2. CASE Attempt(query, FALSE) /\ UNCHANGED <<source, zone, query, outcome>>
      <4>1. query.rdtype = "IXFR" /\ query.serial = zone.serial /\ query.serial # None
        BY <1>1, <2>7, <2>11 DEF IInv, Base, Underway
      <4>2. HInv'
        BY <3>2, <4>1, HonestAttempt
      <4> QED
        BY <3>2, <4>2 DEF Accepts
    <3> QED
      BY <2>11, <3>1, <3>2 DEF RetryWithTCP
  <2>12. CASE /\ inbound.incremental /\ First.value # inbound.serial
              /\ ~WentBackwards(First.value) /\ ~(is_udp /\ First.last)
              /\ Continue(e, txn, draft)
    <3>1. w.from # w.goal
      <4>1. CASE w.from = w.goal
        <5>1. is_udp /\ y = NoWire
          BY <2>3, <2>4, <2>5, <2>6, <2>12, <4>1 DEF WentBackwards
        <5>2. answer.last
          BY <1>1, <2>2, <2>6, <5>1, NoWireIs DEF Cut
        <5> QED
          BY <2>12, <5>1, <5>2 DEF First
      <4> QED
        BY <4>1
    <3>2. inbound' = e /\ txn' = txn /\ draft' = zone /\ UNCHANGED primary
      BY <2>4, <2>12 DEF Continue, source
    <3>3. ASSUME y = Wire("additions", 0, w.goal, w.goal, primary[w.goal].data)
          PROVE  Matches(y)'
      <4>1. y.phase = "additions" /\ y.from = 0 /\ y.to = w.goal /\ y.goal = w.goal
            /\ y.left = primary[w.goal].data
        BY <3>3, WireFields
      <4>2. MatchesRest(y)' /\ MatchesFull(y)'
        BY <2>4, <2>7, <2>12, <3>2, <4>1 DEF MatchesRest, MatchesFull, s
      <4>3. Matches(y)'
        BY <4>1, <4>2 DEF Matches, MatchesLead, MatchesBase, MatchesDeletions,
           MatchesAdditions, MatchesEnd
      <4> QED
        BY <4>3
    <3>4. ASSUME y = Wire("base", w.from, 0, w.goal, {}), w.from \notin {0, w.goal}
          PROVE  Matches(y)'
      <4>1. y.phase = "base" /\ y.from = w.from /\ y.goal = w.goal
        BY <3>4, WireFields
      <4>2. inbound.serial = zone.serial /\ zone = primary[w.from]
        BY <1>1, <2>4, <2>7, <2>12, <3>4 DEF IInv, Base
      <4>3. MatchesRest(y)' /\ MatchesBase(y)'
        BY <2>4, <2>7, <2>12, <3>2, <4>1, <4>2 DEF MatchesRest, MatchesBase, s
      <4>4. Matches(y)'
        BY <4>1, <4>3 DEF Matches, MatchesLead, MatchesFull, MatchesDeletions,
           MatchesAdditions, MatchesEnd
      <4> QED
        BY <4>4
    <3>5. Matches(y)'
      BY <2>5, <3>1, <3>3, <3>4
    <3>6. HInv'
      BY <1>1, <2>6, <2>7, <2>12, <3>5, HonestContinue
    <3> QED
      BY <2>12, <3>6 DEF Accepts, Continue
  <2> QED
    BY <2>8, <2>9, <2>10, <2>11, <2>12 DEF FirstSoa, i, e
<1> QED
  BY <1>3, <1>4

\* After its final SOA an honest primary sends no more.
LEMMA HonestAnswersAfterFinal ==
    ASSUME HInv, AnswersAfterFinal
    PROVE  HInv' /\ Accepts
<1>1. HInv'
  BY HonestRaise DEF AnswersAfterFinal
<1>2. ASSUME honest PROVE FALSE
  <2>1. answer.kind # "none" /\ inbound.done
    BY DEF AnswersAfterFinal, InAnswers, First
  <2>2. PICK w, x : Comes(w, x) /\ w.phase # "end"
    BY <1>2, <2>1, RecordAtHand
  <2>3. WireIs(w) /\ Matches(w)
    BY <2>2 DEF Comes
  <2>4. w.phase = "lead"
    BY <2>1, <2>2, <2>3 DEF Matches, MatchesRest, WireIs
  <2> QED
    BY <2>1, <2>3, <2>4 DEF Matches, MatchesLead, NewInbound
<1> QED
  BY <1>1, <1>2 DEF Accepts

\* Between the first record and the last, the transfer is in a phase.
LEMMA InPhase ==
    ASSUME HInv, honest, InAnswers
    PROVE  /\ pc = "answers" /\ inbound.soa # None /\ answer.kind # "none"
           /\ \E w, x : /\ Comes(w, x) /\ WireIs(w) /\ Matches(w) /\ x \in Sends(w)
                        /\ w.phase \in {"base", "deletions", "additions"}
                        /\ w.goal \in 1 .. Len(primary) /\ Len(primary) \in Nat
<1>1. pc = "answers" /\ inbound.soa # None /\ answer.kind # "none"
  BY DEF InAnswers, First
<1>2. PICK w, x : Comes(w, x) /\ w.phase # "end"
  BY <1>1, RecordAtHand
<1>3. WireIs(w) /\ Matches(w) /\ x \in Sends(w)
  BY <1>2 DEF Comes
<1>4. w.phase # "lead"
  BY <1>1, <1>3 DEF Matches, MatchesLead, NewInbound
<1>5. w.goal \in 1 .. Len(primary) /\ Len(primary) \in Nat
  BY <1>2, <1>3 DEF WireIs, HInv, PrimaryIs
<1>6. w.phase \in {"base", "deletions", "additions"}
  BY <1>2, <1>3, <1>4 DEF WireIs
<1> QED
  BY <1>1, <1>2, <1>3, <1>5, <1>6

\* Serials of different versions differ.
LEMMA SerialsDiffer ==
    ASSUME PrimaryIs, NEW i \in 1 .. Len(primary), NEW j \in 1 .. Len(primary), i # j
    PROVE  primary[i].serial # primary[j].serial
  BY DEF PrimaryIs

\* The SOA records at hand: that of a base, that between deletions and
\* additions, that between two differences, and the final one.
LEMMA SoaAtHand ==
    ASSUME HInv, honest, InAnswers, First.kind = "soa"
    PROVE  \E w, x : /\ Comes(w, x) /\ WireIs(w) /\ Matches(w)
                     /\ w.goal \in 1 .. Len(primary) /\ Len(primary) \in Nat
                     /\ \/ /\ w.phase = "base" /\ First.value = primary[w.from].serial
                           /\ \E j \in w.from + 1 .. w.goal : wire = Between(w.from, j, w.goal)
                        \/ /\ w.phase = "deletions" /\ w.left = {}
                           /\ First.value = primary[w.to].serial
                           /\ wire = Wire("additions", w.from, w.to, w.goal,
                                          primary[w.to].data \ primary[w.from].data)
                        \/ /\ w.phase = "additions" /\ w.left = {} /\ w.to = w.goal
                           /\ First.value = primary[w.goal].serial /\ wire = NoWire
                        \/ /\ w.phase = "additions" /\ w.left = {} /\ w.to # w.goal
                           /\ First.value = primary[w.to].serial
                           /\ \E j \in w.to + 1 .. w.goal : wire = Between(w.to, j, w.goal)
<1>1. PICK w, x : /\ Comes(w, x) /\ WireIs(w) /\ Matches(w) /\ x \in Sends(w)
                  /\ w.phase \in {"base", "deletions", "additions"}
                  /\ w.goal \in 1 .. Len(primary) /\ Len(primary) \in Nat
  BY InPhase
<1>2. \A i, y : x = Then(i, y) => First.value = primary[i].serial /\ wire = y
  BY <1>1, ComesIs
<1>3. \A d : x # Less(w, d)
  <2>1. ASSUME NEW d, x = Less(w, d) PROVE First.kind = "data"
    BY <1>1, <2>1, ComesData
  <2> QED
    BY <2>1
<1>4. CASE w.phase = "base"
  <2>1. PICK j \in w.from + 1 .. w.goal : x = Then(w.from, Between(w.from, j, w.goal))
    BY <1>1, <1>3, <1>4, SendsIs
  <2> QED
    BY <1>1, <1>2, <1>4, <2>1
<1>5. CASE w.phase = "deletions"
  <2>1. /\ w.left = {}
        /\ x = Then(w.to, Wire("additions", w.from, w.to, w.goal,
                               primary[w.to].data \ primary[w.from].data))
    BY <1>1, <1>3, <1>5, SendsIs
  <2> DEFINE y == Wire("additions", w.from, w.to, w.goal,
                       primary[w.to].data \ primary[w.from].data)
  <2>2. x = Then(w.to, y)
    BY <2>1
  <2>3. First.value = primary[w.to].serial /\ wire = y
    BY <1>2, <2>2
  <2> QED
    BY <1>1, <1>5, <2>1, <2>3
<1>6. CASE w.phase = "additions" /\ w.to = w.goal
  <2>1. w.left = {} /\ x = Then(w.goal, NoWire)
    BY <1>1, <1>3, <1>6, SendsIs
  <2> QED
    BY <1>1, <1>2, <1>6, <2>1
<1>7. CASE w.phase = "additions" /\ w.to # w.goal
  <2>1. w.left = {}
    BY <1>1, <1>3, <1>7, SendsIs
  <2>2. PICK j \in w.to + 1 .. w.goal : x = Then(w.to, Between(w.to, j, w.goal))
    BY <1>1, <1>3, <1>7, SendsIs
  <2> QED
    BY <1>1, <1>2, <1>7, <2>1, <2>2
<1> QED
  BY <1>1, <1>4, <1>5, <1>6, <1>7

LEMMA HonestFinalSoa ==
    ASSUME IInv, HInv, FinalSoa
    PROVE  HInv' /\ Accepts
<1>1. InAnswers /\ ~inbound.done /\ First.kind = "soa" /\ IsFinal /\ answer.kind # "none"
      /\ pc = "answers" /\ UNCHANGED honest
  BY DEF FinalSoa, InAnswers, First, Raise, End, source
<1>2. CASE ~honest
  BY <1>1, <1>2 DEF HInv, Accepts
<1>3. CASE honest
  <2>1. PICK w, x : /\ Comes(w, x) /\ WireIs(w) /\ Matches(w)
                    /\ w.goal \in 1 .. Len(primary) /\ Len(primary) \in Nat
                    /\ \/ w.phase = "base" /\ First.value = primary[w.from].serial
                       \/ w.phase = "deletions"
                       \/ /\ w.phase = "additions" /\ w.left = {} /\ w.to = w.goal
                          /\ First.value = primary[w.goal].serial /\ wire = NoWire
                       \/ /\ w.phase = "additions" /\ w.to # w.goal
                          /\ First.value = primary[w.to].serial
    BY <1>1, <1>3, SoaAtHand
  <2>2. PrimaryIs /\ Cut /\ IsCopy
    BY <1>3 DEF HInv
  <2>3. w.phase \in {"base", "deletions", "additions"} => inbound.soa = primary[w.goal].serial
    BY <2>1 DEF Matches, MatchesRest
  <2>4. w.phase # "base"
    <3>1. ASSUME w.phase = "base" PROVE FALSE
      <4>1. w.from \in 1 .. Len(primary) /\ w.from # w.goal
        BY <2>1, <3>1 DEF WireIs
      <4>2. First.value = primary[w.from].serial
        BY <2>1, <3>1
      <4> QED
        BY <1>1, <2>1, <2>2, <2>3, <3>1, <4>1, <4>2, SerialsDiffer DEF IsFinal
    <3> QED
      BY <3>1
  <2>5. w.phase # "deletions"
    <3>1. ASSUME w.phase = "deletions" PROVE FALSE
      <4>1. inbound.incremental /\ inbound.delete_mode
        BY <2>1, <3>1 DEF Matches, MatchesDeletions, MatchesRest
      <4> QED
        BY <1>1, <4>1 DEF IsFinal, Mode
    <3> QED
      BY <3>1
  <2>6. ~(w.phase = "additions" /\ w.to # w.goal)
    <3>1. ASSUME w.phase = "additions" /\ w.to # w.goal PROVE FALSE
      <4>1. w.to \in 1 .. Len(primary)
        BY <2>1, <3>1 DEF WireIs
      <4>2. First.value = primary[w.to].serial
        BY <2>1, <3>1
      <4> QED
        BY <1>1, <2>1, <2>2, <2>3, <3>1, <4>1, <4>2, SerialsDiffer DEF IsFinal
    <3> QED
      BY <3>1
  <2>7. /\ w.phase = "additions" /\ w.left = {} /\ w.to = w.goal
        /\ First.value = primary[w.goal].serial /\ wire = NoWire
    BY <2>1, <2>4, <2>5, <2>6
  <2> DEFINE z == primary[w.goal]
  <2>8. /\ ~inbound.expecting_SOA /\ draft.data = z.data
        /\ inbound.incremental => inbound.serial = z.serial
    <3>1. CASE w.from # 0
      BY <2>1, <2>7, <3>1 DEF Matches, MatchesAdditions
    <3>2. CASE w.from = 0
      <4>1. z.data # {}
        BY <2>1, <2>2, VersionIs
      <4>2. MatchesFull(w)
        BY <2>1 DEF Matches
      <4>3. ~inbound.incremental
        BY <2>7, <3>2, <4>1, <4>2 DEF MatchesFull
      <4> QED
        BY <2>7, <3>2, <4>2, <4>3 DEF MatchesFull
    <3> QED
      BY <3>1, <3>2
  <2>9. ~IsEndIncomplete
    BY <2>7, <2>8 DEF IsEndIncomplete
  <2>10. /\ zone' = [draft EXCEPT !.serial = First.value]
         /\ inbound' = Done([inbound EXCEPT !.delete_mode = Mode])
         /\ Proceed /\ UNCHANGED <<primary, pc, is_udp, outcome>>
    BY <2>9 DEF FinalSoa, source, request
  <2>11. zone' = z
    <3>1. zone' = [serial |-> z.serial, data |-> z.data]
      BY <2>7, <2>8, <2>10 DEF IInv, Shapes
    <3> QED
      BY <2>1, <2>2, <3>1, VersionIs
  <2>12. IsCopy' /\ PrimaryIs'
    <3>1. Published' = Published /\ PrimaryIs'
      BY <2>2, <2>10 DEF Published, PrimaryIs
    <3>2. z \in Published
      BY <2>1, <2>2, VersionIs
    <3> QED
      BY <2>11, <3>1, <3>2 DEF IsCopy
  <2>13. inbound'.done /\ inbound'.soa # None
    <3>1. inbound'.done /\ inbound'.soa = inbound.soa
      BY <2>10 DEF Done, IInv, Shapes
    <3> QED
      BY <1>1, <3>1 DEF InAnswers
  <2>14. Matches(NoWire)'
    BY <2>13, NoWireIs DEF Matches, MatchesLead, MatchesRest, MatchesBase,
       MatchesDeletions, MatchesAdditions, MatchesFull, MatchesEnd
  <2>15. WireIs(wire)' /\ AtHand' /\ Cut'
    <3>1. pc' = "answers" /\ UNCHANGED <<primary, is_udp>>
      BY <1>1, <2>10
    <3> QED
      BY <1>1, <1>3, <2>2, <2>7, <2>10, <2>13, <2>14, <3>1, NoWireIs, ProceedKeeps
  <2> QED
    BY <2>10, <2>12, <2>15 DEF HInv, Accepts
<1> QED
  BY <1>2, <1>3

LEMMA HonestInnerSoa ==
    ASSUME IInv, HInv, InnerSoa
    PROVE  HInv' /\ Accepts
<1> DEFINE i == [inbound EXCEPT !.expecting_SOA = FALSE, !.delete_mode = Mode]
           b == [i EXCEPT !.serial = First.value]
           d == [draft EXCEPT !.serial = First.value]
<1>1. InAnswers /\ ~inbound.done /\ First.kind = "soa" /\ ~IsFinal /\ answer.kind # "none"
      /\ pc = "answers" /\ inbound.soa # None /\ UNCHANGED honest
  BY DEF InnerSoa, InAnswers, First, Raise, End, Continue, source
<1>2. CASE ~honest
  BY <1>1, <1>2 DEF HInv, Accepts
<1>3. CASE honest
  <2>1. PICK w, x :
          /\ Comes(w, x) /\ WireIs(w) /\ Matches(w)
          /\ w.goal \in 1 .. Len(primary) /\ Len(primary) \in Nat
          /\ \/ /\ w.phase = "base" /\ First.value = primary[w.from].serial
                /\ \E j \in w.from + 1 .. w.goal : wire = Between(w.from, j, w.goal)
             \/ /\ w.phase = "deletions" /\ w.left = {}
                /\ First.value = primary[w.to].serial
                /\ wire = Wire("additions", w.from, w.to, w.goal,
                               primary[w.to].data \ primary[w.from].data)
             \/ /\ w.phase = "additions" /\ w.left = {} /\ w.to = w.goal
                /\ First.value = primary[w.goal].serial /\ wire = NoWire
             \/ /\ w.phase = "additions" /\ w.left = {} /\ w.to # w.goal
                /\ First.value = primary[w.to].serial
                /\ \E j \in w.to + 1 .. w.goal : wire = Between(w.to, j, w.goal)
    BY <1>1, <1>3, SoaAtHand
  <2>2. PrimaryIs /\ Cut /\ IsCopy
    BY <1>3 DEF HInv
  <2>3. /\ w.phase \in {"base", "deletions", "additions"}
        /\ txn # "none" /\ inbound.soa = primary[w.goal].serial
        /\ inbound.delete_mode = (w.phase = "deletions")
    BY <2>1 DEF Matches, MatchesRest
  <2>4. /\ i.soa = inbound.soa /\ i.incremental = inbound.incremental /\ ~i.done
        /\ ~i.expecting_SOA /\ i.serial = inbound.serial /\ i.delete_mode = Mode
        /\ b.soa = inbound.soa /\ b.incremental = inbound.incremental /\ ~b.done
        /\ ~b.expecting_SOA /\ b.serial = First.value /\ b.delete_mode = Mode
        /\ d.data = draft.data
    BY <1>1 DEF IInv, Shapes
  <2>5. InnerSoa
    OBVIOUS
  <2> HIDE DEF i, b, d
  \* From a base, and from one difference to the next.
  <2>6. ASSUME NEW v \in 1 .. Len(primary), NEW j \in v + 1 .. w.goal, v # w.goal,
               wire = Between(v, j, w.goal), First.value = primary[v].serial,
               w.phase # "deletions", inbound.incremental,
               inbound.serial = primary[v].serial, draft.data = primary[v].data
        PROVE  HInv' /\ Accepts
    <3>1. Mode
      BY <2>3, <2>6 DEF Mode
    <3>2. Continue(i, txn, draft)
      BY <2>5, <2>6, <3>1 DEF InnerSoa, BaseMismatch, i
    <3>8. PICK y : y = wire
      OBVIOUS
    <3>3. /\ y.phase = "deletions" /\ y.from = v /\ y.to = j /\ y.goal = w.goal
          /\ y.left = primary[v].data \ primary[j].data
      BY <2>6, <3>8, WireFields DEF Between
    <3>4. inbound' = i /\ txn' = txn /\ draft' = draft /\ UNCHANGED primary
      BY <3>2 DEF Continue, source
    <3>5. MatchesRest(y)' /\ MatchesDeletions(y)'
      BY <2>3, <2>4, <2>6, <3>1, <3>3, <3>4 DEF MatchesRest, MatchesDeletions
    <3>6. Matches(y)'
      BY <3>3, <3>5 DEF Matches, MatchesLead, MatchesBase, MatchesAdditions, MatchesFull,
         MatchesEnd
    <3>7. HInv'
      BY <1>1, <2>4, <2>6, <3>2, <3>6, <3>8, HonestContinue
    <3> QED
      BY <3>2, <3>7 DEF Accepts, Continue
  <2>7. CASE w.phase = "base"
    <3>1. PICK j \in w.from + 1 .. w.goal : wire = Between(w.from, j, w.goal)
      BY <2>1, <2>7
    <3>2. w.from \in 1 .. Len(primary) /\ w.from # w.goal
      BY <2>1, <2>7 DEF WireIs
    <3>3. inbound.incremental /\ inbound.serial = primary[w.from].serial
          /\ draft = primary[w.from]
      BY <2>1, <2>7 DEF Matches, MatchesBase
    <3>4. First.value = primary[w.from].serial
      BY <2>1, <2>7
    <3> QED
      BY <2>6, <2>7, <3>1, <3>2, <3>3, <3>4
  <2>8. CASE w.phase = "deletions"
    <3>12. PICK y : y = wire
      OBVIOUS
    <3>1. y.phase = "additions" /\ y.from = w.from /\ y.to = w.to /\ y.goal = w.goal
          /\ y.left = primary[w.to].data \ primary[w.from].data
      BY <2>1, <2>8, <3>12, WireFields
    <3>2. wire = y /\ w.left = {} /\ First.value = primary[w.to].serial
      BY <2>1, <2>8, <3>12
    <3>3. inbound.incremental /\ inbound.delete_mode
          /\ draft.data = primary[w.from].data \cap primary[w.to].data
      BY <2>1, <2>3, <2>8, <3>2 DEF Matches, MatchesDeletions
    <3>4. ~Mode
      BY <3>3 DEF Mode
    <3>5. Continue(b, txn, d)
      BY <2>5, <3>3, <3>4 DEF InnerSoa, b, d, i
    <3>6. w.from # 0
      BY <2>1, <2>8 DEF WireIs
    <3>7. inbound' = b /\ txn' = txn /\ draft' = d /\ UNCHANGED primary
      BY <3>5 DEF Continue, source
    <3>8. Mode = FALSE
      BY <3>3 DEF Mode
    <3>9. MatchesRest(y)' /\ MatchesAdditions(y)'
      BY <2>3, <2>4, <3>1, <3>2, <3>3, <3>6, <3>7, <3>8 DEF MatchesRest, MatchesAdditions
    <3>10. Matches(y)'
      BY <3>1, <3>6, <3>9 DEF Matches, MatchesLead, MatchesBase, MatchesDeletions, MatchesFull,
         MatchesEnd
    <3>11. HInv'
      BY <1>1, <2>4, <3>2, <3>5, <3>10, HonestContinue
    <3> QED
      BY <3>5, <3>11 DEF Accepts, Continue
  <2>9. CASE w.phase = "additions" /\ w.to = w.goal
    <3>1. First.value = inbound.soa
      BY <2>1, <2>3, <2>9
    <3>2. inbound.incremental => Mode
      BY <2>3, <2>9 DEF Mode
    <3> QED
      BY <1>1, <3>1, <3>2 DEF IsFinal
  <2>10. CASE w.phase = "additions" /\ w.to # w.goal
    <3>1. PICK j \in w.to + 1 .. w.goal : wire = Between(w.to, j, w.goal)
      BY <2>1, <2>10
    <3>2. w.to \in 1 .. Len(primary) /\ w.from # 0
      BY <2>1, <2>10 DEF WireIs
    <3>3. w.left = {} /\ First.value = primary[w.to].serial
      BY <2>1, <2>10
    <3>4. inbound.incremental /\ inbound.serial = primary[w.to].serial
          /\ draft.data = primary[w.to].data
      BY <2>1, <2>10, <3>2, <3>3 DEF Matches, MatchesAdditions
    <3> QED
      BY <2>6, <2>10, <3>1, <3>2, <3>3, <3>4
  <2> QED
    BY <2>3, <2>7, <2>8, <2>9, <2>10
<1> QED
  BY <1>2, <1>3

LEMMA HonestDataRecord ==
    ASSUME IInv, HInv, DataRecord
    PROVE  HInv' /\ Accepts
<1> DEFINE i == [inbound EXCEPT !.incremental = FALSE, !.expecting_SOA = FALSE,
                                !.delete_mode = FALSE]
<1>1. InAnswers /\ ~inbound.done /\ First.kind = "data" /\ answer.kind # "none"
      /\ pc = "answers" /\ inbound.soa # None /\ UNCHANGED honest
  BY DEF DataRecord, Change, Fallback, InAnswers, First, Raise, End, Continue, source
<1>2. CASE ~honest
  BY <1>1, <1>2 DEF HInv, Accepts
<1>3. CASE honest
  <2>1. PICK w, x : /\ Comes(w, x) /\ WireIs(w) /\ Matches(w) /\ x \in Sends(w)
                    /\ w.phase \in {"base", "deletions", "additions"}
                    /\ w.goal \in 1 .. Len(primary) /\ Len(primary) \in Nat
    BY <1>1, <1>3, InPhase
  <2>2. w.phase \in {"deletions", "additions"} /\ \E r \in w.left : x = Less(w, r)
    <3>1. \A k, y : x # Then(k, y)
      <4>1. ASSUME NEW k, NEW y, x = Then(k, y) PROVE First.kind = "soa"
        BY <2>1, <4>1, ComesIs
      <4> QED
        BY <1>1, <4>1
    <3> QED
      BY <2>1, <3>1, SendsIs
  <2>3. PICK r \in w.left : x = Less(w, r)
    BY <2>2
  <2>4. First.value = r /\ wire = Wire(w.phase, w.from, w.to, w.goal, w.left \ {r})
    BY <2>1, <2>3, ComesData
  <2>5. PICK y : y = wire
    OBVIOUS
  <2>6. /\ y.phase = w.phase /\ y.from = w.from /\ y.to = w.to /\ y.goal = w.goal
        /\ y.left = w.left \ {r}
    BY <2>4, <2>5, WireFields
  <2>7. /\ txn # "none" /\ inbound.soa = primary[w.goal].serial
        /\ inbound.delete_mode = (w.phase = "deletions")
    BY <2>1 DEF Matches, MatchesRest
  <2>8. CASE inbound.expecting_SOA
    <3>1. w.phase = "additions" /\ w.from = 0 /\ w.to = w.goal
          /\ w.left = primary[w.to].data
      <4>1. w.phase # "deletions"
        BY <2>1, <2>8 DEF Matches, MatchesDeletions
      <4>2. w.phase = "additions" /\ w.from = 0
        BY <2>1, <2>2, <2>8, <4>1 DEF Matches, MatchesAdditions
      <4>3. MatchesFull(w)
        BY <2>1 DEF Matches
      <4> QED
        BY <2>1, <2>8, <4>2, <4>3 DEF MatchesFull, WireIs
    <3>2. /\ i.soa = inbound.soa /\ i.incremental = FALSE /\ ~i.done
          /\ ~i.expecting_SOA /\ i.delete_mode = FALSE
      BY <1>1 DEF IInv, Shapes
    <3>3. Fallback(i)
      BY <2>8 DEF DataRecord
    <3> HIDE DEF i
    <3> DEFINE e == [NoZone EXCEPT !.data = {First.value}]
    <3>4. Continue(i, "replace", e) /\ e.data = {r}
      BY <2>4, <3>3 DEF Fallback, NoZone
    <3> HIDE DEF e
    <3>5. inbound' = i /\ txn' = "replace" /\ draft'.data = {r} /\ UNCHANGED primary
      BY <3>4 DEF Continue, source
    <3>6. {r} = primary[w.to].data \ y.left
      BY <2>6, <3>1
    <3>7. MatchesRest(y)' /\ MatchesFull(y)'
      BY <2>6, <2>7, <3>1, <3>2, <3>5, <3>6 DEF MatchesRest, MatchesFull
    <3>8. Matches(y)'
      BY <2>6, <3>1, <3>7 DEF Matches, MatchesLead, MatchesBase, MatchesDeletions,
         MatchesAdditions, MatchesEnd
    <3>9. HInv'
      BY <1>1, <2>5, <3>2, <3>4, <3>8, HonestContinue
    <3> QED
      BY <3>4, <3>9 DEF Accepts, Continue
  <2>9. CASE ~inbound.expecting_SOA /\ w.phase = "additions"
    <3> DEFINE e == [draft EXCEPT !.data = @ \cup {First.value}]
    <3>1. Continue(inbound, txn, e)
      BY <2>7, <2>9 DEF DataRecord, Change
    <3>2. e.data = draft.data \cup {r}
      BY <2>4 DEF IInv, Shapes
    <3> HIDE DEF e
    <3>3. inbound' = inbound /\ txn' = txn /\ draft'.data = draft.data \cup {r}
          /\ UNCHANGED primary
      BY <3>1, <3>2 DEF Continue, source
    <3>4. draft.data = primary[w.to].data \ w.left
      BY <2>1, <2>9 DEF Matches, MatchesAdditions, MatchesFull
    <3>5. draft.data \cup {r} = primary[w.to].data \ y.left
      BY <2>1, <2>6, <2>9, <3>4 DEF WireIs
    <3>6. MatchesRest(y)'
      BY <1>1, <2>6, <2>7, <2>9, <3>3 DEF MatchesRest
    <3>7. MatchesAdditions(y)'
      BY <2>1, <2>6, <3>3, <3>5 DEF Matches, MatchesAdditions
    <3>8. MatchesFull(y)'
      BY <2>1, <2>6, <2>9, <3>3, <3>5 DEF Matches, MatchesFull
    <3>9. Matches(y)'
      BY <2>6, <2>9, <3>6, <3>7, <3>8 DEF Matches, MatchesLead, MatchesBase,
         MatchesDeletions, MatchesEnd
    <3>10. HInv'
      BY <1>1, <2>5, <3>1, <3>9, HonestContinue
    <3> QED
      BY <3>1, <3>10 DEF Accepts, Continue
  <2>10. CASE ~inbound.expecting_SOA /\ w.phase = "deletions"
    <3> DEFINE e == [draft EXCEPT !.data = @ \ {First.value}]
    <3>1. /\ inbound.incremental /\ inbound.serial = primary[w.from].serial
          /\ draft.data = (primary[w.from].data \cap primary[w.to].data) \cup w.left
      BY <2>1, <2>10 DEF Matches, MatchesDeletions
    <3>2. Continue(inbound, txn, e)
      BY <2>4, <2>7, <2>10, <3>1 DEF DataRecord, Change
    <3>3. e.data = draft.data \ {r}
      BY <2>4 DEF IInv, Shapes
    <3> HIDE DEF e
    <3>4. inbound' = inbound /\ txn' = txn /\ draft'.data = draft.data \ {r}
          /\ UNCHANGED primary
      BY <3>2, <3>3 DEF Continue, source
    <3>5. r \notin primary[w.to].data
      BY <2>1, <2>10 DEF WireIs
    <3>6. draft.data \ {r} = (primary[w.from].data \cap primary[w.to].data) \cup y.left
      BY <2>6, <3>1, <3>5
    <3>7. MatchesRest(y)'
      BY <1>1, <2>6, <2>7, <2>10, <3>4 DEF MatchesRest
    <3>8. MatchesDeletions(y)'
      BY <2>6, <2>10, <3>1, <3>4, <3>6 DEF MatchesDeletions
    <3>9. Matches(y)'
      BY <2>6, <2>10, <3>7, <3>8 DEF Matches, MatchesLead, MatchesBase, MatchesAdditions,
         MatchesFull, MatchesEnd
    <3>10. HInv'
      BY <1>1, <2>5, <3>2, <3>9, HonestContinue
    <3> QED
      BY <3>2, <3>10 DEF Accepts, Continue
  <2> QED
    BY <2>2, <2>8, <2>9, <2>10
<1> QED
  BY <1>2, <1>3

LEMMA HonestMessageEnds ==
    ASSUME HInv, MessageEnds
    PROVE  HInv' /\ Accepts
<1>1. pc = "answers" /\ answer.kind = "none" /\ UNCHANGED honest
  BY DEF MessageEnds, First, Raise, End, source
<1>2. CASE ~honest
  BY <1>1, <1>2 DEF HInv, Accepts
<1>3. CASE honest
  <2>1. PICK w : w = wire /\ Matches(w)
    BY <1>1, <1>3 DEF HInv, AtHand, Stands
  <2>2. CASE End("done") /\ UNCHANGED zone
    <3>1. HInv'
      BY <2>2, HonestEnd
    <3> QED
      BY <2>2, <3>1 DEF Accepts, End
  <2>3. CASE ~inbound.done
    <3>1. ~is_udp
      BY <1>1, <1>3, <2>1, <2>3 DEF HInv, Cut, Matches, MatchesEnd
    <3>2. /\ pc' = "reading"
          /\ UNCHANGED <<honest, primary, zone, query, is_udp, wire, answer, inbound, txn,
                         draft, outcome>>
      BY <2>3, <3>1 DEF MessageEnds, source, request, work
    <3>3. PrimaryIs' /\ IsCopy' /\ WireIs(wire)'
      BY <1>3, <3>2 DEF HInv, PrimaryIs, IsCopy, Published, WireIs
    <3>4. Matches(w)'
      BY <1>1, <2>1, <2>3, <3>2 DEF Matches, MatchesLead, MatchesRest, MatchesBase,
         MatchesDeletions, MatchesAdditions, MatchesFull, MatchesEnd, NewInbound, NoZone
    <3>5. AtHand' /\ Cut'
      BY <1>1, <2>1, <3>2, <3>4 DEF AtHand, Stands, Cut
    <3> QED
      BY <3>2, <3>3, <3>5 DEF HInv, Accepts
  <2> QED
    BY <1>3, <2>2, <2>3 DEF MessageEnds
<1> QED
  BY <1>2, <1>3

\* A version that is published during a transfer is not part of its answer.
LEMMA HonestPublish ==
    ASSUME HInv, NEW s \in Serials, NEW d \in SUBSET Data, Publish(s, d)
    PROVE  HInv'
<1> DEFINE z == [serial |-> s, data |-> d]
           S == [serial : Serials, data : (SUBSET Data) \ {{}}]
<1>1. /\ honest /\ honest' /\ d # {} /\ primary' = Append(primary, z)
      /\ \A v \in Published : v.serial # s
      /\ UNCHANGED <<zone, pc, query, is_udp, wire, answer, inbound, txn, draft>>
  BY DEF Publish, request, work
<1>2. primary \in Seq(S) /\ z \in S
  BY <1>1 DEF HInv, PrimaryIs
<1>3. z.serial = s
  OBVIOUS
<1> HIDE DEF S, z
<1>4. /\ primary' \in Seq(S) /\ Len(primary) \in Nat /\ Len(primary') = Len(primary) + 1
      /\ \A i \in 1 .. Len(primary) : primary'[i] = primary[i]
      /\ primary'[Len(primary) + 1] = z
      /\ DOMAIN primary = 1 .. Len(primary) /\ DOMAIN primary' = 1 .. Len(primary')
  BY <1>1, <1>2
<1>5. PrimaryIs'
  <2>1. \A i \in 1 .. Len(primary) : primary[i].serial # s
    BY <1>1, <1>4 DEF Published
  <2>2. ASSUME NEW i \in 1 .. Len(primary'), NEW j \in 1 .. Len(primary'),
               primary'[i].serial = primary'[j].serial
        PROVE  i = j
    <3>1. CASE i \in 1 .. Len(primary) /\ j \in 1 .. Len(primary)
      BY <1>1, <1>4, <2>2, <3>1 DEF HInv, PrimaryIs
    <3>2. CASE i \in 1 .. Len(primary) /\ j = Len(primary) + 1
      BY <1>3, <1>4, <2>1, <2>2, <3>2
    <3>3. CASE j \in 1 .. Len(primary) /\ i = Len(primary) + 1
      BY <1>3, <1>4, <2>1, <2>2, <3>3
    <3>4. CASE i = Len(primary) + 1 /\ j = Len(primary) + 1
      BY <3>4
    <3> QED
      BY <1>4, <3>1, <3>2, <3>3, <3>4
  <2> QED
    BY <1>4, <2>2 DEF PrimaryIs, S
<1>6. IsCopy'
  <2>1. Published \subseteq Published'
    BY <1>4 DEF Published
  <2> QED
    BY <1>1, <2>1 DEF HInv, IsCopy, NoZone
<1>7. Len(primary') >= Len(primary) /\ PrimaryIs
  BY <1>1, <1>4 DEF HInv
<1>8. \A w : WireIs(w) => /\ WireIs(w)' /\ Sends(w)' = Sends(w)
                          /\ Matches(w) => Matches(w)'
  BY <1>1, <1>4, <1>5, <1>7, WireStays
<1>9. WireIs(wire)'
  <2>1. PICK w : w = wire
    OBVIOUS
  <2>2. WireIs(w)'
    BY <1>1, <1>8, <2>1 DEF HInv
  <2> QED
    BY <1>1, <2>1, <2>2 DEF WireIs
<1>10. AtHand'
  <2>1. CASE answer.kind = "none"
    <3>1. PICK w : w = wire /\ Matches(w) /\ WireIs(w)
      BY <1>1, <2>1 DEF HInv, AtHand, Stands
    <3>2. Stands(w)'
      BY <1>1, <1>8, <3>1 DEF Stands
    <3> QED
      BY <1>1, <2>1, <3>2 DEF AtHand
  <2>2. CASE answer.kind # "none"
    <3>1. PICK w, x : Comes(w, x)
      BY <1>1, <2>2 DEF HInv, AtHand
    <3>2. Comes(w, x)'
      BY <1>1, <1>8, <3>1 DEF Comes
    <3> QED
      BY <1>1, <2>2, <3>2 DEF AtHand
  <2> QED
    BY <2>1, <2>2
<1>11. Cut'
  BY <1>1 DEF HInv, Cut
<1> QED
  BY <1>5, <1>6, <1>9, <1>10, <1>11 DEF HInv

LEMMA HonestInitially == Init => HInv
<1> SUFFICES ASSUME Init, honest
             PROVE  HInv
  BY DEF HInv
<1>1. /\ primary = <<>> /\ zone = NoZone /\ pc = "idle" /\ wire = NoWire /\ answer = NoRecord
      /\ inbound = NewInbound(query)
  BY DEF Init
<1>2. PrimaryIs /\ IsCopy
  BY <1>1 DEF PrimaryIs, IsCopy
<1>3. Matches(NoWire)
  BY <1>1, NoWireIs DEF Matches, MatchesLead, MatchesRest, MatchesBase, MatchesDeletions,
     MatchesAdditions, MatchesFull, MatchesEnd
<1>4. AtHand /\ Cut
  BY <1>1, <1>3, NoWireIs DEF AtHand, Stands, Cut
<1> QED
  BY <1>1, <1>2, <1>4, NoWireIs DEF HInv

\* A step that changes nothing changes nothing of the invariant.
LEMMA HonestStutter ==
    ASSUME HInv, UNCHANGED vars
    PROVE  HInv'
<1> SUFFICES ASSUME honest, honest'
             PROVE  HInv'
  BY DEF vars, source, HInv
<1>1. UNCHANGED <<primary, zone, pc, query, is_udp, wire, answer, inbound, txn, draft>>
  BY DEF vars, source, request, work
<1>2. PICK v : v = wire
  OBVIOUS
<1>3. PrimaryIs' /\ IsCopy' /\ WireIs(wire)' /\ Cut'
  BY <1>1, <1>2 DEF HInv, PrimaryIs, IsCopy, Published, WireIs, Cut
<1>4. \A w : WireIs(w) => /\ WireIs(w)' /\ Sends(w)' = Sends(w)
                          /\ Matches(w) => Matches(w)'
  <2>1. PrimaryIs /\ PrimaryIs' /\ Len(primary') >= Len(primary)
        /\ \A i \in 1 .. Len(primary) : primary'[i] = primary[i]
    <3>1. Len(primary) \in Nat
      BY DEF HInv, PrimaryIs
    <3> QED
      BY <1>1, <1>3, <3>1 DEF HInv
  <2> QED
    BY <1>1, <2>1, WireStays
<1>5. AtHand'
  <2>1. CASE answer.kind = "none"
    <3>1. PICK w : w = wire /\ Matches(w) /\ WireIs(w)
      BY <2>1 DEF HInv, AtHand, Stands
    <3>2. Stands(w)'
      BY <1>1, <1>4, <3>1 DEF Stands
    <3> QED
      BY <1>1, <2>1, <3>2 DEF AtHand
  <2>2. CASE answer.kind # "none"
    <3>1. PICK w, x : Comes(w, x)
      BY <2>2 DEF HInv, AtHand
    <3>2. Comes(w, x)'
      BY <1>1, <1>4, <3>1 DEF Comes
    <3> QED
      BY <1>1, <2>2, <3>2 DEF AtHand
  <2> QED
    BY <2>1, <2>2
<1> QED
  BY <1>3, <1>5 DEF HInv

LEMMA HonestStep ==
    ASSUME IInv, HInv, [Next]_vars
    PROVE  HInv' /\ Accepts
<1>1. CASE \E s \in Serials, d \in SUBSET Data : Publish(s, d)
  <2>1. PICK s \in Serials, d \in SUBSET Data : Publish(s, d)
    BY <1>1
  <2> QED
    BY <2>1, HonestPublish DEF Publish, Accepts
<1>2. CASE \E mode \in {"never", "first", "only"}, full \in BOOLEAN : Start(mode, full)
  <2>1. PICK mode \in {"never", "first", "only"}, full \in BOOLEAN : Start(mode, full)
    BY <1>2
  <2>2. pc = "idle"
    BY <2>1 DEF Start
  <2>3. HInv'
    BY <2>1, HonestStart
  <2> QED
    BY <2>2, <2>3 DEF Accepts
<1>3. CASE Receive
  <2>1. pc = "reading"
    BY <1>3 DEF Receive
  <2> QED
    BY <1>3, <2>1, HonestReceive DEF Accepts
<1>4. CASE Fail
  BY <1>4, HonestRaise DEF Fail, Accepts
<1>5. CASE Transfer
  BY <1>5, HonestFirstIsNotSoa, HonestFirstSoa, HonestAnswersAfterFinal, HonestFinalSoa,
     HonestInnerSoa, HonestDataRecord, HonestMessageEnds DEF Transfer
<1>6. CASE UNCHANGED vars
  BY <1>6, HonestStutter DEF vars, Accepts
<1> QED
  BY <1>1, <1>2, <1>3, <1>4, <1>5, <1>6 DEF Next

LEMMA HonestInvariance == Spec => [](IInv /\ HInv)
<1>1. Init => IInv /\ HInv
  BY Initially, HonestInitially
<1>2. IInv /\ HInv /\ [Next]_vars => IInv' /\ HInv'
  BY Step, HonestStep
<1> QED
  BY <1>1, <1>2, PTL DEF Spec

\* From an honest primary, of any number of versions and records, Inbound
\* builds the zone of a version that was published: whether it applied
\* differences, replaced the zone or fell back from the one to the other,
\* wherever the answer was cut into messages and whatever failed before.
THEOREM CopyOfPrimaryHolds == Spec => []CopyOfPrimary
<1>1. HInv => CopyOfPrimary
  BY DEF HInv, IsCopy, CopyOfPrimary
<1> QED
  BY HonestInvariance, <1>1, PTL

\* Nothing of an honest answer is refused by process_message() but a first
\* SOA that went backwards or, for a caller that allows UDP only, a datagram
\* that has this SOA alone.
THEOREM HonestAnswersAcceptedHolds == Spec => HonestAnswersAccepted
<1>1. IInv /\ HInv /\ [Next]_vars =>
         [honest /\ pc = "answers" /\ outcome = "none" /\ outcome' = "raised"
            => /\ IsSoa /\ inbound.soa = None /\ inbound.incremental
               /\ \/ Lt(First.value, inbound.serial)
                  \/ is_udp /\ udp_mode = "only" /\ First.last]_vars
  BY HonestStep DEF Accepts
<1> QED
  BY HonestInvariance, <1>1, PTL DEF Spec, HonestAnswersAccepted
=============================================================================
