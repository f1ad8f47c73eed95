------------------------------ MODULE MCValues ------------------------------
(***************************************************************************)
(* Components without threads or peers in one run: the cache of answers,   *)
(* the serial of a zone, rdata, names, the dictionary of names, zone files *)
(* and the signing of zones.  subject says which of them moves; the others *)
(* rest.                                                                   *)
(*                                                                         *)
(* Serials have five bits.  Names are made of the octets 0 to 5, of which  *)
(* 2 is the capital of 4, with labels of two octets at the most and six    *)
(* octets in all.                                                          *)
(***************************************************************************)
EXTENDS LRUCache, SoaSerial, Names, NameDict, Dnssec, TLC

CONSTANTS k1, k2, k3, short, long, n0, n1, n2, n3

MCLifetime == (short :> 1) @@ (long :> 9)

Lower == {0, 1, 3, 4, 5}
Label1 == {<<c>> : c \in Lower}
Label2 == {<<c, d>> : c \in Lower, d \in {0, 3, 5}}
MCUniverse ==
    {Root, <<<<2>>, <<>>>>, <<<<0, 2>>, <<1>>, <<>>>>}
        \cup {<<a, <<>>>> : a \in Label1 \cup Label2}
        \cup {<<a, b, <<>>>> : a \in Label1, b \in Label1 \cup Label2}
        \cup {<<a, b, <<>>>> : a \in Label2, b \in Label1}
MCOrigins == {Root, <<<<4>>, <<>>>>, <<<<1, 5>>, <<>>>>}
MCWritten == {<<>>, <<<<64>>>>, <<<<46>>, <<92, 48>>, <<>>>>, <<<<200>>, <<34, 40>>>>,
              <<<<59, 36>>, <<>>>>, <<<<32>>, <<>>>>}

\* Lines of zone files, for the zone z. and others.
Row(tokens) == [white |-> FALSE, tokens |-> tokens]
Indented(tokens) == [white |-> TRUE, tokens |-> tokens]
Zone == <<"z", "">>
MCLines ==
    {Indented(<<>>)}
        \cup {Row([i \in DOMAIN tokens |-> <<tokens[i]>>]) : tokens \in
               {<<"a", "1", "IN", "A", "r">>, <<"b", "A", "r">>, <<"a", "CH", "A", "r">>,
                <<"a", "CNAME", "b">>, <<"a", "NSEC", "@">>,
                <<"@", "IN", "2", "SOA", "1">>, <<"@", "SOA", "3">>,
                <<"$TTL", "3">>, <<"$ORIGIN", "b">>, <<"$INCLUDE", "f">>, <<"$INCLUDE", "f", "b">>,
                <<"$GENERATE", "1-2", "$", "A", "$", "NS", "a">>}}
        \cup {Indented([i \in DOMAIN tokens |-> <<tokens[i]>>]) : tokens \in
               {<<"A", "q">>, <<"2", "NS", "a">>, <<"2", "r">>}}
        \cup {Row(<<<<"x", "y", "">>, <<"2">>, <<"A">>, <<"r">>>>),
              Row(<<<<"$ORIGIN">>, <<"b", "z", "">>>>),
              Row(<<<<"$GENERATE">>, <<"1-2">>, <<"$", "y", "">>, <<"2">>, <<"CNAME">>, <<"$">>>>)}

\* Zones to be signed: with nothing but an apex; and with names of all kinds.
DKey(id, tag, algorithm, sep, isZone) ==
    [id |-> id, tag |-> tag, algorithm |-> algorithm, sep |-> sep, zone |-> isZone, protocol |-> 3]
Ksk == DKey("k", 1, "good", TRUE, TRUE)
Zsk == DKey("z", 2, "good", FALSE, TRUE)
Twin == DKey("t", 2, "good", FALSE, TRUE)
Host == DKey("h", 3, "good", FALSE, FALSE)
Old == DKey("o", 4, "old", FALSE, TRUE)
Bad == DKey("b", 5, "bad", FALSE, TRUE)

At(n, type) == [name |-> n, type |-> type, covers |-> "NONE"]
Text == [ttl |-> 2, rdatas |-> {[text |-> "r"]}]
Bare == At(<<>>, "SOA") :> [ttl |-> 1, rdatas |-> {[serial |-> 1, minimum |-> 3]}] @@ At(<<>>, "NS") :> Text
MCZones == {Bare,
            Bare @@ At(<<0>>, "A") :> Text @@ At(<<1>>, "A") :> Text @@ At(<<2>>, "NS") :> Text
                 @@ At(<<2>>, "DS") :> Text @@ At(<<2, 1>>, "NS") :> Text @@ At(<<3, 0>>, "CNAME") :> Text}
MCEdits == [key : {At(<<1>>, "NS"), At(<<3, 0>>, "A")}, rdataset : {Text}]
MCDeletions == {At(<<2>>, "NS")}
MCSignings ==
    LET plain == [keys |-> {Ksk, Zsk}, add_dnskey |-> TRUE, dnskey_ttl |-> NoValue,
                  inception |-> 1, expiration |-> 2, lifetime |-> NoValue, nsec3 |-> FALSE]
    IN {plain, [plain EXCEPT !.keys = {Zsk, Twin, Host}, !.dnskey_ttl = 1],
        [plain EXCEPT !.keys = {Ksk, Old}, !.add_dnskey = FALSE, !.inception = 2,
                      !.expiration = NoValue, !.lifetime = 1],
        [plain EXCEPT !.keys = {Ksk, Bad}], [plain EXCEPT !.expiration = NoValue],
        [plain EXCEPT !.nsec3 = TRUE]}

MCOwners == {<<>>, <<0>>, <<1>>, <<2, 1>>, <<3, 0>>}
MCContents == {Text.rdatas}
MCRings == {{Ksk, Host}, {Twin, Old}, {Zsk}}

VARIABLES subject,
          rdclass, rdata, source, octets,
          reader, file, text

Sampled == INSTANCE RdataSamples
Rdatas == INSTANCE Rdata WITH Samples <- Sampled!MCSamples
Unforced == [name |-> None, ttl |-> None, rdclass |-> None, rdtype |-> None]
MCReaders ==
    LET plain == [origin |-> Zone, relativize |-> TRUE, force |-> Unforced, default_ttl |-> None,
                  allowed |-> {<<"$TTL">>, <<"$ORIGIN">>, <<"$INCLUDE">>, <<"$GENERATE">>}]
    IN {plain, [plain EXCEPT !.relativize = FALSE], [plain EXCEPT !.origin = None],
        [plain EXCEPT !.allowed = @ \ {<<"$INCLUDE">>}],
        [plain EXCEPT !.allowed = {}, !.force.ttl = 2, !.force.rdclass = "IN"],
        [plain EXCEPT !.allowed = {}, !.force.name = <<"a", "z", "">>, !.force.rdtype = <<"A">>,
                      !.relativize = FALSE, !.default_ttl = 3]}
Files == INSTANCE ZoneFile WITH
    TtlOf <- <<"1">> :> 1 @@ <<"2">> :> 2 @@ <<"3">> :> 3,
    ClassOf <- <<"IN">> :> "IN" @@ <<"CH">> :> "CH",
    RangeOf <- <<"1-2">> :> <<1, 2>>,
    Expand <- LAMBDA t, i : [j \in DOMAIN t |-> IF t[j] = "$" THEN ToString(i) ELSE t[j]],
    Lines <- MCLines, ZoneReaders <- MCReaders, MaxLines <- 3

rdata_vars == <<rdclass, rdata, source, octets>>
file_vars == <<reader, file, text>>

NameAtRest == origin = Root /\ name = <<<<2>>, <<>>>>
CacheAtRest == Init /\ max_size = 1
RdataAtRest == rdclass = "A" /\ rdata = <<>> /\ source = "none" /\ octets = <<>>
FileAtRest == reader = <<>> /\ file = <<>> /\ text = <<>>
SignerAtRest == DnssecInit /\ zone = Bare /\ relativize = FALSE
SerialAtRest == SoaInit /\ serial = 0

MCInit ==
    /\ subject \in {"cache", "serial", "rdata", "names", "dict", "files", "signer"}
    /\ NameDictInit
    /\ IF subject = "cache" THEN Init ELSE CacheAtRest
    /\ IF subject = "serial" THEN SoaInit ELSE SerialAtRest
    /\ IF subject = "rdata" THEN Rdatas!RdataInit ELSE RdataAtRest
    /\ IF subject = "names" THEN NamesInit ELSE NameAtRest
    /\ IF subject = "files" THEN Files!ZoneFileInit ELSE FileAtRest
    /\ IF subject = "signer" THEN DnssecInit ELSE SignerAtRest

MCNext ==
    /\ UNCHANGED subject
    /\ \/ subject = "cache" /\ Next /\ UNCHANGED <<soaVars, rdata_vars, namesVars, namedictVars, file_vars, dnssecVars>>
       \/ subject = "serial" /\ SoaNext /\ UNCHANGED <<vars, rdata_vars, namesVars, namedictVars, file_vars, dnssecVars>>
       \/ subject = "rdata" /\ Rdatas!RdataNext /\ UNCHANGED <<vars, soaVars, namesVars, namedictVars, file_vars, dnssecVars>>
       \/ subject = "names" /\ NamesNext /\ UNCHANGED <<vars, soaVars, rdata_vars, namedictVars, file_vars, dnssecVars>>
       \/ subject = "dict" /\ NameDictNext /\ UNCHANGED <<vars, soaVars, rdata_vars, namesVars, file_vars, dnssecVars>>
       \/ subject = "files" /\ Files!ZoneFileNext /\ UNCHANGED <<vars, soaVars, rdata_vars, namesVars, namedictVars, dnssecVars>>
       \/ subject = "signer" /\ DnssecNext /\ UNCHANGED <<vars, soaVars, rdata_vars, namesVars, namedictVars, file_vars>>

MCSpec ==
    /\ MCInit /\ [][MCNext]_<<subject, vars, soaVars, rdata_vars, namesVars, namedictVars, file_vars, dnssecVars>>
    /\ Fairness

\* Without what node objects hold that nobody refers to and the replies to the
\* last calls, which play no part in what may happen next.
Live == <<subject, data, max_size, now, putting,
          [c \in InUse \cup {Sentinel} |-> <<prev[c], next[c], node[c]>>],
          serial, copied, rdata_vars, namesVars, namedictVars, file_vars, dnssecVars>>

-----------------------------------------------------------------------------

\* What to_wire() and to_text() write, the readers read back, and nothing
\* else that they accept is kept differently.
FormsAreFaithful == subject = "rdata" => Rdatas!WireIsFaithful /\ Rdatas!TextIsFaithful

\* Zone files are read as they are meant, and written so that they are read.
FilesAreFaithful == subject = "files" => Files!FilesAreFaithful
=============================================================================
