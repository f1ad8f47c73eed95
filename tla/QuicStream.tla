------------------------------ MODULE QuicStream ------------------------------
(***************************************************************************)
(* dns.quic.SyncQuicStream and its Buffer: a thread that calls receive()   *)
(* and then leaves the stream's with block, and the worker thread of the   *)
(* connection, which adds what has arrived.                                *)
(*                                                                         *)
(* receive() holds the stream's lock where it looks at the buffer, the     *)
(* worker never does.  Where the interpreter may switch threads within a   *)
(* method of Buffer, the load and the store of the bytes are steps of      *)
(* their own.  Bytes are the positions they have in the peer's stream.     *)
(***************************************************************************)
EXTENDS Integers, Sequences, SequencesExt

CONSTANTS Modes,            \* subset of [h3, interruptible : BOOLEAN], the protocols
                            \* and interpreters
          Sizes,            \* the lengths a message may have
          Lengths,          \* bound: how many bytes the peer sends
          Timeouts          \* subset of BOOLEAN: is receive() given a timeout?

VARIABLES
    mode,                   \* h3: receive() takes all bytes up to the end;
                            \* interruptible: threads switch anywhere
                            \* (CPython 3.9, free threading)
    size, length,           \* the peer's message, and what it sends in all
    delivered, ended,       \* what the events have brought so far
    buffer, seen_end,
    stream_worker, event, loaded,      \* the worker, the event it handles, what it has read
    streams,                \* the connection still has the stream
    reader, expecting, has_timeout, notified,
    part,                   \* what the reader is after
    data, rest,             \* what get() returns, and leaves
    outcome

peer == <<mode, size, length>>
arrival == <<delivered, ended>>
bytes == <<buffer, seen_end>>
working == <<stream_worker, event, loaded>>
reading == <<expecting, has_timeout, notified, part, data, rest, outcome>>
streamVars == <<peer, arrival, bytes, working, streams, reader, reading>>

Outcomes == {"none", "message", "UnexpectedEOF", "Timeout"}

\* The bytes from position i to position j.
Bytes(i, j) == [k \in 1 .. (j - i + 1) |-> i + k - 1]

-----------------------------------------------------------------------------
(* The worker                                                              *)

\* Data has arrived, with or without the end of the stream, or a reset.
Event(n, end) ==
    /\ stream_worker = "select"
    /\ ~ended /\ delivered + n <= length
    /\ n > 0 \/ end
    /\ delivered' = delivered + n
    /\ ended' = end
    /\ event' = [data |-> Bytes(delivered + 1, delivered + n), end |-> end]
    /\ stream_worker' = IF streams THEN "adding" ELSE "select"
    /\ UNCHANGED <<peer, bytes, loaded, streams, reader, reading>>

\* The connection is over; the worker ends and tells no stream.
Terminated ==
    /\ stream_worker = "select"
    /\ stream_worker' = "done"
    /\ UNCHANGED <<peer, arrival, bytes, event, loaded, streams, reader, reading>>

\* Buffer.put()
Put ==
    /\ stream_worker = "adding" /\ ~mode.interruptible
    /\ IF seen_end
       THEN UNCHANGED bytes
       ELSE buffer' = buffer \o event.data /\ seen_end' = event.end
    /\ stream_worker' = "notifying"
    /\ UNCHANGED <<peer, arrival, event, loaded, streams, reader, reading>>

PutLoad ==
    /\ stream_worker = "adding" /\ mode.interruptible
    /\ loaded' = buffer
    /\ stream_worker' = IF seen_end THEN "notifying" ELSE "storing"
    /\ UNCHANGED <<peer, arrival, bytes, event, streams, reader, reading>>

PutStore ==
    /\ stream_worker = "storing"
    /\ buffer' = loaded \o event.data
    /\ stream_worker' = "ending"
    /\ UNCHANGED <<peer, arrival, seen_end, event, loaded, streams, reader, reading>>

PutEnd ==
    /\ stream_worker = "ending"
    /\ seen_end' = (seen_end \/ event.end)
    /\ stream_worker' = "notifying"
    /\ UNCHANGED <<peer, arrival, buffer, event, loaded, streams, reader, reading>>

\* _common_add_input() returns a true value in any case.
Notify ==
    /\ stream_worker = "notifying"
    /\ notified' = (notified \/ reader = "waiting")
    /\ stream_worker' = "select"
    /\ UNCHANGED <<peer, arrival, bytes, event, loaded, streams, reader,
                   expecting, has_timeout, part, data, rest, outcome>>

-----------------------------------------------------------------------------
(* The reader                                                              *)

WorkerAside == UNCHANGED <<peer, arrival, working>>

Receive(timeout) ==
    /\ reader = "idle"
    /\ reader' = "checking"
    /\ has_timeout' = timeout
    /\ part' = IF mode.h3 THEN "all" ELSE "length"
    /\ WorkerAside
    /\ UNCHANGED <<bytes, streams, expecting, notified, data, rest, outcome>>

Need == CASE part = "length" -> 2
          [] part = "message" -> size
          [] part = "all" -> Len(buffer)

Have == IF mode.h3 THEN seen_end ELSE Len(buffer) >= Need

\* The with block of the stream ends after receive(), however that does.
End(result) == reader' = "closing" /\ outcome' = result

\* wait_for() and wait_for_end(), the part under the lock
Check ==
    /\ reader = "checking"
    /\ WorkerAside
    /\ UNCHANGED <<bytes, streams, has_timeout, notified, part, data, rest>>

FindEnough ==
    /\ Check
    /\ Have
    /\ reader' = "getting"
    /\ UNCHANGED <<expecting, outcome>>

FindEnd ==
    /\ Check
    /\ ~Have /\ ~mode.h3 /\ seen_end
    /\ End("UnexpectedEOF")
    /\ UNCHANGED expecting

FindTooLittle ==
    /\ Check
    /\ ~Have /\ ~seen_end
    /\ reader' = "entering"
    /\ expecting' = IF mode.h3 THEN expecting ELSE Need
    /\ UNCHANGED outcome

EnterWait ==
    /\ reader = "entering"
    /\ reader' = "waiting"
    /\ notified' = FALSE
    /\ WorkerAside
    /\ UNCHANGED <<bytes, streams, expecting, has_timeout, part, data, rest, outcome>>

WaitWakesUp ==
    /\ reader = "waiting"
    /\ notified
    /\ reader' = "checking"
    /\ expecting' = 0
    /\ WorkerAside
    /\ UNCHANGED <<bytes, streams, has_timeout, notified, part, data, rest, outcome>>

\* A bug: after a timeout the wait begins anew.
WaitTimesOutAgain ==
    /\ reader = "waiting"
    /\ has_timeout /\ ~notified
    /\ reader' = "checking"
    /\ WorkerAside
    /\ UNCHANGED <<bytes, streams, reading>>

WaitTimesOut ==
    /\ reader = "waiting"
    /\ has_timeout /\ ~notified
    /\ End("Timeout")
    /\ WorkerAside
    /\ UNCHANGED <<bytes, streams, expecting, has_timeout, notified, part, data, rest>>

\* After get(): the length leads to the message.
Got ==
    IF part = "length"
    THEN reader' = "checking" /\ part' = "message" /\ UNCHANGED outcome
    ELSE End("message") /\ UNCHANGED part

\* A bug: what has been taken stays in the buffer.
GetAndKeep ==
    /\ reader = "getting" /\ ~mode.interruptible
    /\ data' = SubSeq(buffer, 1, Need)
    /\ Got
    /\ WorkerAside
    /\ UNCHANGED <<bytes, streams, expecting, has_timeout, notified, rest>>

\* Buffer.get(), Buffer.get_all()
Get ==
    /\ reader = "getting" /\ ~mode.interruptible
    /\ data' = SubSeq(buffer, 1, Need)
    /\ buffer' = SubSeq(buffer, Need + 1, Len(buffer))
    /\ Got
    /\ WorkerAside
    /\ UNCHANGED <<seen_end, streams, expecting, has_timeout, notified, rest>>

GetLoad ==
    /\ reader = "getting" /\ mode.interruptible
    /\ data' = SubSeq(buffer, 1, Need)
    /\ rest' = SubSeq(buffer, Need + 1, Len(buffer))
    /\ reader' = "storing"
    /\ WorkerAside
    /\ UNCHANGED <<bytes, streams, expecting, has_timeout, notified, part, outcome>>

GetStore ==
    /\ reader = "storing"
    /\ buffer' = rest
    /\ Got
    /\ WorkerAside
    /\ UNCHANGED <<seen_end, streams, expecting, has_timeout, notified, data, rest>>

\* __exit__(): the end is marked in the buffer in any case.
CloseReader ==
    /\ reader = "closing"
    /\ streams' = FALSE
    /\ seen_end' = TRUE
    /\ reader' = "closed"
    /\ WorkerAside
    /\ UNCHANGED <<buffer, reading>>

-----------------------------------------------------------------------------

StreamInit ==
    /\ mode \in Modes
    /\ size \in Sizes /\ length \in Lengths
    /\ delivered = 0 /\ ended = FALSE
    /\ buffer = <<>> /\ seen_end = FALSE
    /\ stream_worker = "select" /\ loaded = <<>>
    /\ event = [data |-> <<>>, end |-> FALSE]
    /\ streams = TRUE
    /\ reader = "idle" /\ expecting = 0 /\ has_timeout = FALSE /\ notified = FALSE
    /\ part = "length" /\ data = <<>> /\ rest = <<>>
    /\ outcome = "none"

WorkerAdds == Put \/ PutLoad \/ PutStore \/ PutEnd \/ Notify

ReaderStep ==
    \/ FindEnough \/ FindEnd \/ FindTooLittle
    \/ EnterWait \/ WaitWakesUp \/ WaitTimesOut
    \/ Get \/ GetLoad \/ GetStore \/ CloseReader

StreamNext ==
    \/ \E n \in 0 .. length, end \in BOOLEAN : Event(n, end)
    \/ Terminated
    \/ WorkerAdds
    \/ \E timeout \in Timeouts : Receive(timeout)
    \/ ReaderStep

StreamSpec == StreamInit /\ [][StreamNext]_streamVars

\* Scheduling: both threads run, and time passes.  The peer may stop.
StreamFairness == WF_streamVars(WorkerAdds) /\ WF_streamVars(ReaderStep)

FairStreamSpec == StreamSpec /\ StreamFairness

-----------------------------------------------------------------------------
(* Properties                                                              *)

\* Every variable has its type.
StreamTypeOK ==
    /\ delivered \in 0 .. length /\ ended \in BOOLEAN /\ seen_end \in BOOLEAN
    /\ buffer \in Seq(1 .. length) /\ loaded \in Seq(1 .. length)
    /\ data \in Seq(1 .. length) /\ rest \in Seq(1 .. length)
    /\ stream_worker \in {"select", "adding", "storing", "ending", "notifying", "done"}
    /\ reader \in {"idle", "checking", "entering", "waiting", "getting", "storing",
                   "closing", "closed"}
    /\ part \in {"length", "message", "all"} /\ expecting \in Nat
    /\ streams \in BOOLEAN /\ has_timeout \in BOOLEAN /\ notified \in BOOLEAN
    /\ outcome \in Outcomes

\* receive() returns the message, the bytes that follow its length or all that
\* came before the end, also though the lock is released between the look at
\* the buffer and get(), whose assertions hold; and UnexpectedEOF means that
\* the peer ended the stream within the message.
ReceiveIsHonest ==
    /\ reader = "getting" => Have
    /\ outcome = "message" =>
           data = IF mode.h3 THEN Bytes(1, delivered) ELSE Bytes(3, 2 + size)
    /\ outcome = "UnexpectedEOF" => ended /\ delivered < 2 + size

\* receive() with a timeout ends.
ReceiveEnds == reader # "idle" /\ has_timeout ~> reader = "closed"

\* A message that has arrived is received.
ArrivedIsReceived ==
    reader # "idle" /\ stream_worker = "select" /\ delivered = 2 + size ~> outcome # "none"
=============================================================================
