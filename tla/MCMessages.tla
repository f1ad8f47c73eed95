----------------------------- MODULE MCMessages -----------------------------
(***************************************************************************)
(* What goes over the wire, in one run: messages, the renderer alone,      *)
(* signed streams of messages, and queries.  subject says which of them    *)
(* moves; the others rest.                                                 *)
(*                                                                         *)
(* The names are a.b, B and b, which share suffixes; a.b is an alias of b, *)
(* b one of a.b, and there is an answer at b; b is a zone.                 *)
(***************************************************************************)
EXTENDS Message, Tsig, Queries

a == <<97>>
b == <<98>>
B == <<66>>
MCReaders == {Strict, [Strict EXCEPT !.unique = TRUE, !.trailing = TRUE], [Strict EXCEPT !.key = FALSE, !.xfr = TRUE]}
MCFlags == {0, QR, QR + 3, 2048 * UPDATE}
Item(section, name, type, ttl, rds) == Record(section, name, INET, type, 0, <<0, ttl>>, rds)
Mx(n) == <<n, <<a, b>>>>
Soa == <<<<<<b>>, <<>>, <<0, 1>>, <<0, 1>>, <<0, 1>>, <<0, 1>>, <<0, 2>>>>>>
MCItems ==
  {Item(QUESTION, <<a, b>>, 15, 0, <<>>), Item(QUESTION, <<a, b>>, CNAMEType, 0, <<>>),
   Item(ANSWER, <<a, B>>, CNAMEType, 5, <<<<<<b>>>>>>), Item(ANSWER, <<b>>, CNAMEType, 4, <<<<<<a, b>>>>>>),
   Item(ANSWER, <<b>>, 15, 3, <<Mx(1)>>), Item(ANSWER, <<b>>, 15, 2, <<Mx(2)>>),
   Item(AUTHORITY, <<b>>, SOAType, 9, Soa), Item(AUTHORITY, <<>>, SOAType, 1, Soa),
   Item(ADDITIONAL, <<a, b>>, 1, 1, <<<<<<1, 2, 3, 4>>>>>>)}
MCUpdateZone == <<b>>
MCUpdates ==
  {Add(<<a, b>>, 15, <<0, 7>>, <<Mx(1), Mx(2)>>), Delete(<<b>>, 0, <<>>), Delete(<<b>>, 15, <<Mx(1)>>),
   Replace(<<a, b>>, 15, <<0, 7>>, <<Mx(1)>>), Present(<<a, b>>, 0, <<>>), Present(<<b>>, 15, <<>>),
   Present(<<a, b>>, 15, <<Mx(1)>>), Absent(<<a, b>>, 15), Absent(<<b>>, 0)}
TheOpt(options) == [NewRRset(<<>>, 70, OPTType, 0) EXCEPT !.rdatas = <<<<options>>>>]
TheTsig(name) == [NewRRset(name, ANY, TSIGType, 0) EXCEPT !.rdatas =
                    <<<<<<b>>, <<0, 0, 9>>, 300, <<1, 2>>, 7, 0, <<>>>>>>]
MCOpts ==
  {[opt |-> <<>>, pad |-> 0, tsig |-> <<>>, payload |-> 0],
   [opt |-> <<TheOpt(<<<<3, <<1>>>>>>)>>, pad |-> 0, tsig |-> <<TheTsig(<<b>>)>>, payload |-> 70],
   [opt |-> <<TheOpt(<<>>)>>, pad |-> 16, tsig |-> <<TheTsig(<<a, b>>)>>, payload |-> 0]}
MCSizes == {0, 62}

-----------------------------------------------------------------------------
(* The renderer, with pointers that reach no further than 40 octets        *)

RR(n, t, rds) == [name |-> n, type |-> t, class |-> 1, rdclass |-> 1, ttl |-> <<0, 5>>, rdatas |-> rds]
MCQuestions == {[name |-> <<a, b>>, type |-> 1, class |-> 1]}
MCRRsets == {RR(<<b>>, 2, <<<<<<a, b>>>>>>), RR(<<a, B>>, 15, <<<<1, <<a, a, b>>>>, <<2, <<>>>>>>),
             RR(<<a, a, b>>, 39, <<<<<<b>>>>>>), RR(<<B>>, 1, <<>>)}

Small == INSTANCE Renderer WITH
    MaxPointer <- 40, RenderSizes <- {50, 200}, RenderQuestions <- MCQuestions,
    RenderRRsets <- MCRRsets, MaxCalls <- 3

-----------------------------------------------------------------------------
(* Streams of a server with the client's key or another one, and queries   *)

TheKey == [name |-> "k", secret |-> 1, algorithm |-> "sha256"]
MCKeys == {TheKey, [TheKey EXCEPT !.secret = 2], [TheKey EXCEPT !.algorithm = "md5"],
           [TheKey EXCEPT !.name = "l"]}

Once == [kind |-> "udp", ignoreUnexpected |-> FALSE, ignoreErrors |-> FALSE, truncation |-> FALSE,
          keepsUdp |-> TRUE, keepsTcp |-> TRUE, destination |-> "server"]
Patient == [Once EXCEPT !.ignoreUnexpected = TRUE, !.ignoreErrors = TRUE]
MCOptions ==
  {Once, [Patient EXCEPT !.truncation = TRUE, !.keepsUdp = FALSE], [Patient EXCEPT !.kind = "fallback"],
   [Once EXCEPT !.kind = "fallback", !.keepsTcp = FALSE], [Once EXCEPT !.kind = "tcp"],
   [Patient EXCEPT !.destination = "multicast"]}

-----------------------------------------------------------------------------

VARIABLE subject

MessageAtRest ==
    /\ message = Blank(7, 0) /\ phase = "made"
    /\ asked = NotAsked /\ wire = NoWire /\ received = NotReceived
RendererAtRest == renderer = NewRenderer(50) /\ added = [s \in Sections |-> <<>>]
TsigAtRest == TsigInit /\ key = TheKey
QueryAtRest == QueriesInit /\ backend = "socket" /\ o = Once

MCInit ==
    /\ subject \in {"message", "renderer", "tsig", "query"}
    /\ IF subject = "message" THEN MessageInit ELSE MessageAtRest
    /\ IF subject = "renderer" THEN Small!RendererInit ELSE RendererAtRest
    /\ IF subject = "tsig" THEN TsigInit ELSE TsigAtRest
    /\ IF subject = "query" THEN QueriesInit ELSE QueryAtRest

MCNext ==
    /\ UNCHANGED subject
    /\ \/ subject = "message" /\ MessageNext /\ UNCHANGED <<rendererVars, tsigVars, queriesVars>>
       \/ subject = "renderer" /\ Small!RendererNext /\ UNCHANGED <<messageVars, tsigVars, queriesVars>>
       \/ subject = "tsig" /\ TsigNext /\ UNCHANGED <<messageVars, rendererVars, queriesVars>>
       \/ subject = "query" /\ QueriesNext /\ UNCHANGED <<messageVars, rendererVars, tsigVars>>

MCSpec == MCInit /\ [][MCNext]_<<subject, messageVars, rendererVars, tsigVars, queriesVars>>

\* The messages alone
MessageSpec ==
    /\ MCInit /\ subject = "message"
    /\ [][MCNext]_<<subject, messageVars, rendererVars, tsigVars, queriesVars>>
=============================================================================
