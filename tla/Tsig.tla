--------------------------------- MODULE Tsig ---------------------------------
(***************************************************************************)
(* dns.tsig, with the use that dns.message and query._inbound_xfr() make   *)
(* of it: a stream of messages answers a signed request, some of them      *)
(* signed, each signature covering the one before it and every message     *)
(* since.  A hash is what it was computed from.                            *)
(*                                                                         *)
(* The server signs the first message of a stream and then as it likes.    *)
(* What lies between may change the id of any message, as forwarders do,   *)
(* may lose messages after the first, and may hold them for some time; it  *)
(* keeps their order and repeats none, as TCP does.                        *)
(***************************************************************************)
EXTENDS Naturals, Sequences, SequencesExt, FiniteSets

CONSTANTS Bodies,       \* what a message has besides its id and its TSIG record
          ServerKeys,   \* keys that servers sign with: [name, secret, algorithm]
          ClientKey,    \* the key that the client has
          Fudge,        \* seconds that the clocks may differ
          MaxTime,      \* bound of the clock
          MaxMessages   \* bound: messages in a stream

ASSUME TsigAssumption ==
  /\ Fudge \in Nat
  /\ \A k \in ServerKeys \cup {ClientKey} :
       k = [name |-> k.name, secret |-> k.secret, algorithm |-> k.algorithm]

VARIABLES key,          \* the key this server has
          sent,         \* the messages that were sent
          serverCtx,    \* the digest the server has begun
          stream,       \* the messages on their way
          forwarded,    \* history: the numbers of those whose id was changed
          clock,        \* the time
          taken,        \* the messages the client took, by their number
          tsigCtx,      \* the digest the client has begun
          outcome       \* "reading", or what the client raised

tsigVars == <<key, sent, serverCtx, stream, forwarded, clock, taken, tsigCtx, outcome>>

NoContext == <<>>
NoMac == <<>>

-----------------------------------------------------------------------------
(* get_context(): a digest is the key and what it was given so far.          *)

GetContext(k) == <<[secret |-> k.secret, algorithm |-> k.algorithm, data |-> <<>>]>>
Update(ctx, x) == <<[ctx[1] EXCEPT !.data = Append(@, x)]>>
UpdatedWith(ctx, xs) == <<[ctx[1] EXCEPT !.data = @ \o xs]>>
Mac(ctx) == ctx[1]

\* A bug: a later message of a stream is digested as if it were the first.
IsFirstAlways(ctx, multi) == TRUE
IsFirst(ctx, multi) == ~(ctx # NoContext /\ multi)

\* The id that is digested is that of the signature.
SignedWire(m, rdata) == <<rdata.original_id, m.body>>

\* _digest().  The first message has the request's mac before it, and the
\* fields of the TSIG record after it; a later one only its times.
DigestOf(m, k, rdata, requestMac, ctx, multi) ==
  LET times == <<"times", rdata.time_signed, rdata.fudge>>
      begun == IF requestMac = NoMac THEN GetContext(k) ELSE Update(GetContext(k), requestMac)
      wire == SignedWire(m, rdata)
  IN IF IsFirst(ctx, multi)
     THEN UpdatedWith(begun, <<wire, k.name, k.algorithm, times, <<rdata.error, rdata.other>>>>)
     ELSE UpdatedWith(ctx, <<wire, times>>)
MaybeStartDigest(k, mac, multi) == IF multi THEN Update(GetContext(k), mac) ELSE NoContext

\* sign(): the record, and the digest for the message after it.
Sign(m, k, rdata, time, requestMac, ctx, multi) ==
  LET timed == [rdata EXCEPT !.time_signed = time]
      mac == Mac(DigestOf(m, k, timed, requestMac, ctx, multi))
  IN [rdata |-> [timed EXCEPT !.mac = mac], ctx |-> MaybeStartDigest(k, mac, multi)]

PeerErrors == {"BADSIG", "BADKEY", "BADTIME", "BADTRUNC"}
Differ(s, t) == IF s < t THEN t - s ELSE s - t

\* validate()
Validated(e, ctx) == [error |-> e, ctx |-> ctx]
Validate(m, k, owner, rdata, now, requestMac, ctx, multi) ==
  LET digest == DigestOf(m, k, rdata, requestMac, ctx, multi)
      Fail(e) == Validated(e, NoContext)
  IN IF rdata.error # "NOERROR" THEN Fail(IF rdata.error \in PeerErrors THEN rdata.error ELSE "PeerError")
     ELSE IF Differ(rdata.time_signed, now) > rdata.fudge THEN Fail("BadTime")
     ELSE IF k.name # owner THEN Fail("BadKey")
     ELSE IF k.algorithm # rdata.algorithm THEN Fail("BadAlgorithm")
     ELSE IF Mac(digest) # rdata.mac THEN Fail("BadSignature")
     ELSE Validated("none", MaybeStartDigest(k, rdata.mac, multi))

\* Message.use_tsig(): the record to be signed.
UseTsig(k, id, error) ==
  [owner |-> k.name, algorithm |-> k.algorithm, time_signed |-> 0, fudge |-> Fudge, mac |-> NoMac,
   original_id |-> id, error |-> error, other |-> ""]

\* _WireReader: a signed message is validated by the key that the keyring has
\* for its owner; one that is not signed is added to a digest that has begun.
Keyring(owner) == {k \in {ClientKey} : k.name = owner}
ReadMessage(m, now, requestMac, ctx) ==
  IF m.tsig = <<>> THEN Validated("none", IF ctx = NoContext THEN ctx ELSE Update(ctx, <<m.id, m.body>>))
  ELSE IF Keyring(m.tsig[1].owner) = {} THEN Validated("UnknownTSIGKey", NoContext)
  ELSE Validate(m, ClientKey, m.tsig[1].owner, m.tsig[1], now, requestMac, ctx, TRUE)

-----------------------------------------------------------------------------
(* The server, what lies between, and the client. *)

Id == 7
ForwardedId == 8
RequestMac == Mac(Update(GetContext(ClientKey), "request"))

\* number is not part of a message: it tells which of those sent it is.
Unsigned(body) == [id |-> Id, body |-> body, tsig |-> <<>>, number |-> Len(sent) + 1]

TsigInit ==
  /\ key \in ServerKeys
  /\ sent = <<>> /\ stream = <<>> /\ forwarded = {} /\ clock = 0
  /\ serverCtx = NoContext /\ tsigCtx = NoContext
  /\ taken = <<>> /\ outcome = "reading"

\* Message.to_wire(multi=True, tsig_ctx=...), by a server with an error to
\* report or none.
SendSigned(body, error) ==
  LET m == Unsigned(body)
      signed == Sign(m, key, UseTsig(key, Id, error), clock, RequestMac, serverCtx, TRUE)
  IN /\ Len(sent) < MaxMessages
     /\ sent' = Append(sent, [m EXCEPT !.tsig = <<signed.rdata>>])
     /\ stream' = Append(stream, [m EXCEPT !.tsig = <<signed.rdata>>])
     /\ serverCtx' = signed.ctx
     /\ UNCHANGED <<key, forwarded, clock, taken, tsigCtx, outcome>>

\* A message that a server sends without a signature it still digests.
SendUnsigned(body) ==
  LET m == Unsigned(body)
  IN /\ sent # <<>> /\ Len(sent) < MaxMessages
     /\ sent' = Append(sent, m)
     /\ stream' = Append(stream, m)
     /\ serverCtx' = Update(serverCtx, <<m.id, m.body>>)
     /\ UNCHANGED <<key, forwarded, clock, taken, tsigCtx, outcome>>

Tick ==
  /\ clock < MaxTime /\ clock' = clock + 1
  /\ UNCHANGED <<key, sent, serverCtx, stream, forwarded, taken, tsigCtx, outcome>>

\* The id of a message is not the one it was sent with any more, be it signed
\* or not.
Forward ==
  /\ \E i \in DOMAIN stream :
       /\ stream' = [stream EXCEPT ![i].id = ForwardedId]
       /\ forwarded' = forwarded \cup {stream[i].number}
  /\ UNCHANGED <<key, sent, serverCtx, clock, taken, tsigCtx, outcome>>

Lose ==
  /\ \E i \in DOMAIN stream : /\ stream[i].number > 1
                              /\ stream' = RemoveAt(stream, i)
  /\ UNCHANGED <<key, sent, serverCtx, forwarded, clock, taken, tsigCtx, outcome>>

\* from_wire(), for the next message of the stream, which ends with the one
\* that is refused.
ReadNext ==
  /\ outcome = "reading" /\ stream # <<>>
  /\ LET r == ReadMessage(Head(stream), clock, RequestMac, tsigCtx)
     IN /\ outcome' = IF r.error = "none" THEN outcome ELSE r.error
        /\ taken' = IF r.error = "none" THEN Append(taken, Head(stream).number) ELSE taken
        /\ stream' = IF r.error = "none" THEN Tail(stream) ELSE stream
        /\ tsigCtx' = r.ctx
  /\ UNCHANGED <<key, sent, serverCtx, forwarded, clock>>

TsigNext ==
  \/ \E body \in Bodies, error \in {"NOERROR", "BADTIME"} : SendSigned(body, error)
  \/ \E body \in Bodies : SendUnsigned(body)
  \/ Tick \/ Forward \/ Lose \/ ReadNext

-----------------------------------------------------------------------------
(* Properties. *)

FirstNumbers(n) == [i \in 1..n |-> i]
IsWhole == taken \o [i \in DOMAIN stream |-> stream[i].number] = FirstNumbers(Len(sent))
Late == \E i \in DOMAIN sent : sent[i].tsig # <<>> /\ Differ(sent[i].tsig[1].time_signed, clock) > Fudge
Refused == \E i \in DOMAIN sent : sent[i].tsig # <<>> /\ sent[i].tsig[1].error # "NOERROR"

\* An unsigned message is digested with the id it came by, unlike a signed
\* one, whose signature says what its id was.
IdsCovered(n) == \A i \in forwarded : i <= n => sent[i].tsig # <<>>

\* A stream is taken as long as it is whole, its key the client's, its
\* signatures in time and none of them an error, and its unsigned messages
\* come by the id they were sent with: whatever ids the signed ones came by,
\* and whichever of its messages were signed.
WholeStreamIsTaken ==
  IsWhole /\ key = ClientKey /\ ~Late /\ ~Refused /\ IdsCovered(Len(sent)) => outcome = "reading"

\* A signature is taken only from a server with the client's key, and when no
\* message up to it is gone and no unsigned one came by another id.
SignedPartIsWhole ==
  \A i \in DOMAIN taken :
    sent[taken[i]].tsig # <<>> =>
      SubSeq(taken, 1, i) = FirstNumbers(i) /\ key = ClientKey /\ IdsCovered(i)

\* The signatures of a stream let the client take all of a stream that is
\* whole and whose unsigned messages kept their ids, and nothing of another
\* but what follows its last signature, so that a transfer whose last message
\* is signed, as inbound_xfr() demands, is complete and came as it was sent
\* (sign, validate).
StreamIsSignedAsAWhole == WholeStreamIsTaken /\ SignedPartIsWhole
=============================================================================
