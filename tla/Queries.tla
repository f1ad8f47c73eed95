------------------------------- MODULE Queries -------------------------------
(***************************************************************************)
(* dns.query and dns.asyncquery: one query after another over UDP, over    *)
(* TCP, or over UDP and then TCP when the answer was cut, each on sockets  *)
(* of its own or on some that the program keeps.                           *)
(*                                                                         *)
(* Datagrams are late, double, cut, broken or from somewhere else; octets  *)
(* of a stream come in pieces.  A message is [from, to, form]: who sent    *)
(* it, which query it is a response to (0 for none), and whether it is     *)
(* "good", "cut" (TC is set), "torn" (TC, and the rest unreadable) or      *)
(* "bad".                                                                  *)
(***************************************************************************)
EXTENDS Naturals, Sequences, SequencesExt, FiniteSets

CONSTANTS Options,      \* how programs ask, see Ask
          Backends,     \* "socket" keeps datagrams, "asyncio" drops them
          MaxQueries,   \* bound: queries of a program
          MaxDatagrams, \* bound: datagrams that wait in a socket
          MaxOctets     \* bound: octets that wait in a stream

VARIABLES backend,
          number,       \* the query in progress, or the last
          o,            \* its options
          stage,        \* "idle", "udp" or "tcp"
          datagrams,    \* in the UDP socket
          unanswered,   \* queries that the TCP connection has taken
          octets,       \* in the TCP socket: <<message, position>>
          reading,      \* _net_read(): [what, count, got]
          inStep,       \* no query on this connection has raised
          cutBy,        \* the messages that made this query fall back
          result        \* of the last query: [error, m, tcp, inStep]

queriesVars == <<backend, number, o, stage, datagrams, unanswered, octets, reading, inStep, cutBy, result>>

NoMessage == [from |-> "none", to |-> 0, form |-> "bad"]
Forms == {"good", "cut", "torn", "bad"}

-----------------------------------------------------------------------------
(* What is done with a message. *)

\* query.is_response(): a torn message has no question.
IsAnswer(m) == m.to = number /\ m.form \in {"good", "cut"}

\* from_wire(raise_on_truncation=...)
Read(m, raiseOnTruncation) ==
  CASE m.form = "good" -> "none"
    [] m.form = "cut" -> IF raiseOnTruncation THEN "Truncated" ELSE "none"
    [] m.form = "torn" -> IF raiseOnTruncation THEN "Truncated" ELSE "FormError"
    [] m.form = "bad" -> "FormError"

\* _matches_destination()
Matches(m) == o.destination = "none" \/ m.from = o.destination \/ o.destination = "multicast"

RaisesOnTruncation == o.kind = "fallback" \/ o.truncation

\* A bug: a cut message of anyone ends the query, as no question is asked of it.
IgnoresUncut(m) ==
  \/ ~Matches(m) /\ o.ignoreUnexpected
  \/ /\ Matches(m) /\ o.ignoreErrors
     /\ \/ Read(m, RaisesOnTruncation) \notin {"none", "Truncated"}
        \/ Read(m, RaisesOnTruncation) = "none" /\ ~IsAnswer(m)

\* The messages that receive_udp() passes over.
Ignores(m) ==
  \/ ~Matches(m) /\ o.ignoreUnexpected
  \/ /\ Matches(m) /\ o.ignoreErrors
     /\ \/ Read(m, RaisesOnTruncation) \notin {"none", "Truncated"}
        \/ ~IsAnswer(m)

-----------------------------------------------------------------------------

Idle(error, m, tcp) ==
  /\ stage' = "idle"
  /\ result' = [error |-> error, m |-> m, tcp |-> tcp, inStep |-> inStep]

ReadLength == [what |-> "length", count |-> 2, got |-> <<>>]
BodySize == 2                       \* octets that stand for those of a message
Frame(m) == [i \in 1..(2 + BodySize) |-> <<m, i>>]

QueriesInit ==
  /\ backend \in Backends
  /\ number = 0 /\ o \in Options /\ stage = "idle"
  /\ datagrams = <<>> /\ unanswered = {} /\ octets = <<>>
  /\ reading = ReadLength /\ inStep = TRUE /\ cutBy = {}
  /\ result = [error |-> "none", m |-> NoMessage, tcp |-> FALSE, inStep |-> TRUE]

\* tcp(): the connection is the program's, or a new one; send_tcp() leaves a
\* query with the server.
Connect(n, keepsTcp) ==
  /\ stage' = "tcp"
  /\ unanswered' = IF keepsTcp THEN unanswered \cup {n} ELSE {n}
  /\ octets' = IF keepsTcp THEN octets ELSE <<>>
  /\ inStep' = (keepsTcp => inStep)
  /\ reading' = ReadLength

\* udp(), udp_with_fallback() and tcp() begin.
Ask(options) ==
  /\ stage = "idle" /\ number < MaxQueries
  /\ number' = number + 1
  /\ o' = options
  /\ datagrams' = IF options.keepsUdp THEN datagrams ELSE <<>>
  /\ cutBy' = {}
  /\ \/ options.kind = "tcp" /\ Connect(number + 1, options.keepsTcp)
     \/ options.kind # "tcp" /\ stage' = "udp" /\ UNCHANGED <<unanswered, octets, reading, inStep>>
  /\ UNCHANGED <<backend, result>>

\* Who else sends, or what comes late to a socket that is kept.  asyncio's
\* protocol has no place but the future of the one call that waits.
Arrive(m) ==
  /\ number > 0 /\ m.to <= number
  /\ m.to \in {0, number} \/ o.keepsUdp
  /\ Len(datagrams) < MaxDatagrams
  /\ datagrams' = IF backend = "asyncio" /\ (stage # "udp" \/ datagrams # <<>>) THEN datagrams
                  ELSE Append(datagrams, m)
  /\ UNCHANGED <<backend, number, o, stage, unanswered, octets, reading, inStep, cutBy, result>>

\* receive_udp() takes a datagram.
TakeDatagram ==
  LET m == Head(datagrams)
      e == Read(m, RaisesOnTruncation)
  IN /\ stage = "udp" /\ datagrams # <<>>
     /\ datagrams' = Tail(datagrams)
     /\ \/ Ignores(m) /\ UNCHANGED <<stage, unanswered, octets, reading, inStep, cutBy, result>>
        \/ /\ ~Ignores(m) /\ ~Matches(m)
           /\ Idle("UnexpectedSource", m, FALSE)
           /\ UNCHANGED <<unanswered, octets, reading, inStep, cutBy>>
        \/ /\ ~Ignores(m) /\ Matches(m) /\ e = "Truncated" /\ o.kind = "fallback"
           /\ Connect(number, o.keepsTcp)
           /\ cutBy' = {m}
           /\ UNCHANGED result
        \/ /\ ~Ignores(m) /\ Matches(m) /\ ~(e = "Truncated" /\ o.kind = "fallback")
           /\ Idle(IF e = "none" /\ ~(o.ignoreErrors \/ IsAnswer(m)) THEN "BadResponse" ELSE e, m, FALSE)
           /\ UNCHANGED <<unanswered, octets, reading, inStep, cutBy>>
     /\ UNCHANGED <<backend, number, o>>

\* _wait_for(): the time is up and nothing can be read.
UdpTimeout ==
  /\ stage = "udp" /\ datagrams = <<>>
  /\ Idle("Timeout", NoMessage, FALSE)
  /\ UNCHANGED <<backend, number, o, datagrams, unanswered, octets, reading, inStep, cutBy>>

\* The server answers a query on the connection, in any order, and in any
\* form: it may set TC over TCP, too.
Answer(n, form) ==
  /\ n \in unanswered /\ Len(octets) + 2 + BodySize <= MaxOctets
  /\ unanswered' = unanswered \ {n}
  /\ octets' = octets \o Frame([from |-> "server", to |-> n, form |-> form])
  /\ UNCHANGED <<backend, number, o, stage, datagrams, reading, inStep, cutBy, result>>

\* The octets of a whole message, and the length that two octets say, which
\* is any number when they are not those of a length.
Whole(os) == os # <<>> /\ os = SubSeq(Frame(os[1][1]), 3, 2 + BodySize)
Lengths(os) == IF os = SubSeq(Frame(os[1][1]), 1, 2) THEN {BodySize} ELSE 0..(BodySize + 1)

ReadAll(got, count) == Len(got) = count

\* recv() of n octets in _net_read(), and what receive_tcp() and tcp() do
\* when that was all.
NetRead(n) ==
  LET got == reading.got \o SubSeq(octets, 1, n)
      m == IF Whole(got) THEN got[1][1] ELSE NoMessage
      e == Read(m, FALSE)
      error == IF e = "none" /\ ~IsAnswer(m) THEN "BadResponse" ELSE e
  IN /\ stage = "tcp" /\ n \in 1..(reading.count - Len(reading.got)) /\ n <= Len(octets)
     /\ octets' = SubSeq(octets, n + 1, Len(octets))
     /\ \/ /\ ~ReadAll(got, reading.count)
           /\ reading' = [reading EXCEPT !.got = got]
           /\ UNCHANGED <<stage, inStep, result>>
        \/ /\ ReadAll(got, reading.count) /\ reading.what = "length"
           /\ \E l \in Lengths(got) :
                IF l = 0 THEN /\ Idle("FormError", NoMessage, TRUE)
                              /\ inStep' = FALSE /\ UNCHANGED reading
                ELSE /\ reading' = [what |-> "body", count |-> l, got |-> <<>>]
                     /\ UNCHANGED <<stage, inStep, result>>
        \/ /\ ReadAll(got, reading.count) /\ reading.what = "body"
           /\ Idle(error, m, TRUE)
           /\ inStep' = (inStep /\ error = "none") /\ UNCHANGED reading
     /\ UNCHANGED <<backend, number, o, datagrams, unanswered, cutBy>>

\* Nothing comes in time, or the connection ends.
TcpFails(error) ==
  /\ stage = "tcp" /\ octets = <<>>
  /\ Idle(error, NoMessage, TRUE)
  /\ inStep' = FALSE
  /\ UNCHANGED <<backend, number, o, datagrams, unanswered, octets, reading, cutBy>>

QueriesNext ==
  \/ \E options \in Options : Ask(options)
  \/ \E from \in {"server", "other"}, n \in 0..MaxQueries, form \in Forms :
       Arrive([from |-> from, to |-> n, form |-> form])
  \/ TakeDatagram \/ UdpTimeout
  \/ \E n \in unanswered, form \in Forms : Answer(n, form)
  \/ \E n \in 1..(BodySize + 1) : NetRead(n)
  \/ \E error \in {"Timeout", "EOFError"} : TcpFails(error)

-----------------------------------------------------------------------------
(* Properties. *)

\* A query that returns a message returns a response to itself that can be
\* read, from where it was sent; whatever came late to the sockets it uses or
\* was left in them by another (udp, tcp, udp_with_fallback).  What came over
\* UDP is uncut if the query raises for a cut one or may use TCP; over TCP
\* nothing looks at TC, and a response that sets it is returned.  A query that
\* ignores errors and strangers is ended by nothing else, but by time, and
\* uses TCP exactly when a response to it was cut.
AnswersAreOwn ==
  stage = "idle" /\ number > 0 =>
    LET udp == ~result.tcp
        patient == o.ignoreUnexpected /\ o.ignoreErrors
    IN /\ result.error = "none" =>
            /\ IsAnswer(result.m)
            /\ o.destination = "server" => result.m.from = "server"
            /\ RaisesOnTruncation /\ ~result.tcp => result.m.form = "good"
       /\ patient /\ udp /\ o.kind # "tcp" =>
            result.error \in {"none", "Timeout"} \/ (result.error = "Truncated" /\ IsAnswer(result.m))
       /\ patient => \A m \in cutBy : IsAnswer(m)
       /\ o.kind = "fallback" => (result.tcp <=> cutBy # {})

\* As long as no query on a connection has raised, the next one takes the
\* whole answer of the server, in whatever pieces its octets come, and
\* raises only for time, for the end of the connection or for an answer
\* that cannot be read (_net_read, receive_tcp).
FramesStayWhole ==
  stage = "idle" /\ result.tcp /\ result.inStep =>
    \/ result.error \in {"none", "Timeout", "EOFError"}
    \/ result.m # NoMessage /\ result.m.form \in {"torn", "bad"}

\* Both.
AnswersAreWholeAndOwn == AnswersAreOwn /\ FramesStayWhole
=============================================================================
