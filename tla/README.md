# A TLA+ verification of dnspython

dnspython is a DNS toolkit: a library of values (names, rdata, messages), of containers (nodes, zones), and of
programs on top of them (a stub resolver, zone transfers, signing, queries over UDP, TCP, TLS, HTTPS and QUIC). This
directory is about two kinds of its code. One keeps *state*, where a defect needs a long sequence of calls, two threads
or an unlucky peer to show itself: versioned zones and their transactions, zone transfers, SOA serials, the answer
cache, the resolver, QUIC connections and streams, queries, signed streams of messages, the reader of zone files. The
other *converts* between forms that must agree - rdata, names, messages and zones in octets and as text, a zone and its
signatures - where a defect hides in one form of one type, at a limit or after an error.

`dns/...` below is a path of the repository. `PROJECT.json` lists the components, the runs, the lines each
definition models (`map`), the hazards and the theorems.

## 1. The system

### What each component keeps and does

| Component | State | Operations | Talks to | What is hard |
|---|---|---|---|---|
| Versioned zone (`dns/versioned.py`) | queue of versions, published nodes, the write transaction, the event it belongs to, the queue of waiting writers, the open readers, the pruning policy | `reader()`, `writer()`, end of a transaction, `set_max_versions()`, `set_pruning_policy()` | transactions, user callbacks (policy, version factory) | threads, hand-off of the writer, deferred setup outside the lock, callbacks that raise |
| Transactions, nodes, copy on write (`dns/transaction.py`, `dns/zone.py`, `dns/node.py`, `dns/rdataset.py`) | nodes dictionaries that share node objects, the set of changed names | `add`, `replace`, `delete`, `delete_exact`, `get`, `commit`, `rollback` | zone, versioned zone, inbound transfer | sharing, partial failures, the CNAME rule, names in two forms |
| Inbound transfer (`dns/xfr.py`, `inbound_xfr()` of `dns/query.py`) | mode (AXFR, IXFR, deleting or adding), serials, the SOA announced, the transaction | `process_message()`, `make_query()`, the driver with its retry by TCP | a primary, a transaction, serials | protocol order, fallbacks, failures halfway, a primary that errs |
| Serials (`dns/serial.py`, `Transaction.update_serial()`) | the SOA's serial | comparison, addition, update | transactions, transfers | wrap, distance of half, zero |
| Answer caches (`dns/resolver.py`) | dictionary, ring of nodes, maximum size, counters | `get`, `put`, `flush`, `set_max_size` | the resolver's threads | the dictionary and the ring in step, eviction, expiry, a size changed outside the lock |
| Resolution (`dns/resolver.py`, `dns/asyncresolver.py`) | names to try, nameservers in the mix, current ones, errors, retry flag, back-off, start time | `next_request`, `next_nameserver`, `query_result`, `resolve()` | cache, nameserver objects, clock | retries, timeouts, which error is reported, a clock set back |
| QUIC streams (`dns/quic/_sync.py`, `_common.py`) | buffer, end-of-stream flag, expected bytes, a lock and a condition | `receive`, `wait_for`, `_add_input`, `close` | the connection's worker thread | a reader and a worker, notification, loss of the peer |
| QUIC connections and manager (`dns/quic/`) | streams by id, done flag, handshake event, table of connections, tickets | `run`, `make_stream`, `write`, `close`, `connect`, `__exit__` | worker thread, sockets, streams | two locks, joins, wake-ups, dead connections in a table |
| Queries (`dns/query.py`, `dns/asyncquery.py`) | none but that of the sockets: datagrams that wait, a stream read halfway | `udp`, `tcp`, `udp_with_fallback`, `xfr`, `tls`, `https`, `quic` | sockets, messages | deadlines, stray and late datagrams, truncated answers, frames in pieces, kept sockets |
| Asynchronous backends | the datagram protocol's one future | adapters of asyncio and trio | event loops | a datagram nobody waits for |
| Messages and dynamic updates (`dns/message.py`, `dns/update.py`) | sections and their index; where the reader is | `find_rrset`, `to_wire`, `from_wire`, `is_response`, `make_response`, `resolve_chaining`; `add`, `delete`, `replace`, `present`, `absent` | names, rdata, renderer, TSIG | truncation with OPT, padding and TSIG; reading on after errors; which record goes into which set |
| Rendering (`dns/renderer.py`) | output, compression table, counts, reserved space, padding | `add_question`, `add_rrset`, `add_opt`, `reserve`, `write_header` | names, rdata | rollback of what does not fit, pointers to dropped octets |
| Transaction signatures (`dns/tsig.py`) | the running digest of a sequence of messages, on both ends | `sign`, `validate` | messages, transfers | unsigned messages between signed ones, loss, clocks, errors of the peer |
| Rdata and EDNS options (`dns/rdata.py`, `dns/rdtypes/`, `dns/edns.py`, `dns/wire.py`, `dns/rdtypes/util.py`, `svcbbase.py`) | values | construct, to and from octets, canonical form, to and from text | names, messages, zone files | some sixty classes, each with five methods that must agree |
| Names (`dns/name.py`, `dns/namedict.py`) | values; NameDict's maximum depth and its count | comparison, relativisation, `successor`, `predecessor`, text; `get_deepest_match` | everything | order of labels, limits of 63 and 255, escapes |
| Zone files (`dns/zonefile.py`, `dns/zone.py`) | origin, last name, TTLs, stack of saved states | `read`, `to_file`, `read_rrsets` | transactions, tokenizer | which line's default counts, what `$INCLUDE` restores, relative names |
| DNSSEC (`dns/dnssec.py`) | the zone and its write transaction | `sign_zone`, `sign`, `validate`, the policy | transactions, names, rdata | delegations, the apex, wildcards, times, re-signing |
| Entropy pool (`dns/entropy.py`) | pool, digest, index, seeded flag, process id | `random_16`, `random_between`, ... | - | lock, reseeding after a fork |
| Rdata sets, enumerations, addresses, tokenizer, DDR, nameserver objects, Windows configuration, resolver override | values or none | parse, print, compare, compute | - | encodings; no state between calls |

A transfer drives a transaction record by record; a transaction changes a draft of a (versioned) zone and publishes
it at its commit; a versioned zone sees to it that there is one write transaction and that readers keep what they
see. The resolver sits on the cache, on nameserver objects and so on the query functions; those of QUIC sit on a
manager with connections, each with a worker thread that feeds the streams of the calling threads. A query renders a
message and reads another: both consist of rdata and names, whose octets the renderer compresses and the wire parser
takes apart, and carry the signatures of `dns.tsig`, whose digest a transfer runs through all its messages. A zone file
is read, and a zone signed, through a transaction.

### What makes each correct

- *Versioned zone*: one writer at a time, in the order of arrival; every wake-up reaches a thread that goes on and no
  waiter is forgotten; no commit is lost; a reader sees one version, whole, until it closes; what nobody needs goes.
- *Transactions*: a transaction is atomic: its effect is that of its calls, all at once at the commit, or none;
  neither the zone nor a reader sees a node change; a call that raises changes nothing; no CNAME beside other data.
- *Transfer*: the zone is a version that the primary published; it never moves back; it changes once; an honest
  primary's answer is accepted and the transfer ends.
- *Serials*: the comparisons of RFC 1982; an update of the zone is noticed by who has the one before.
- *Cache*: a list in the order of last use, never too long after a `put`, and no answer after its time.
- *Resolution*: what it says of the names is true; it gives up only for a reason that each nameserver gave; in time.
- *QUIC stream*: a message comes whole and in order or as an error that has a cause; `receive()` returns.
- *QUIC pool*: the table has the connections that are open; a worker does not sleep on data; every call returns.
- *Queries*: an answer is that of the query asked, however many came before and however the octets were cut; a stream
  that is kept is read from where a message begins.
- *Messages*: what is rendered is read as it was, or cut with the flag that says so; a lenient reader reports what the
  strict one raises; a response is recognised; a chain of aliases ends at the answer and holds as long as its records.
- *Rendering*: whatever was refused, the octets are those of what was taken, with every name where its pointer leads.
- *Signatures*: a stream whose last message is signed is taken whole or refused.
- *Rdata, names*: each form is read back as the value it was written from; neighbours in canonical order are adjacent.
- *Zone files*: each line means what RFC 1035 says of it, wherever it stands; what is written is read as the zone.
- *DNSSEC*: one closed chain of NSEC records over the names the zone answers for; everybody with the key validates
  every rrset, and nothing that was not signed.

## 2. The modules

| Module | Models | Promise | TLC | Proofs |
|---|---|---|---|---|
| `VersionedZone` | `dns.versioned.Zone` | `SnapshotStore` | `MCVersionedZone` | `VersionedZoneProofs` |
| `ZoneTransaction` | `Transaction`, `WritableVersion`, `ImmutableVersion`, `Node` | `AtomicZone` | `MCZoneTransaction` | `ZoneTransactionProofs` |
| `InboundXfr` | `Inbound`, `make_query`, `inbound_xfr` | properties | `MCInboundXfr` | `InboundXfrProofs` |
| `SerialArith`, `SoaSerial` | `Serial`; `update_serial` and a secondary | properties | `MCValues` | `ValuesProofs` |
| `LRUCache` | `LRUCache` | `RecencyList` | `MCValues` | `ValuesProofs` |
| `Resolution` | `_Resolution`, `resolve()` | properties | `MCResolution` | `ResolutionProofs` |
| `QuicStream` | `SyncQuicStream`, `Buffer` | properties | `MCQuicStream`, `MCQuic` | `QuicProofs` |
| `QuicPool` | `SyncQuicConnection`, `SyncQuicManager` | properties | `MCQuic` | `QuicProofs` |
| `Octets`, `RdataFields`, `RdataTypes`, `RdataSpecials`, `RdataSamples`, `Rdata` | `dns.wire`, `dns.rdata`, all classes of `dns.rdtypes`, `dns.edns` | each form is the inverse of the other | `MCValues` | - |
| `NameOrder`, `Names` | `dns.name`: order and neighbours; text | definitions of order and neighbourhood | `MCValues` | `ValuesProofs` (`NameOrder`) |
| `NameDict` | `dns.namedict` | definition of the longest match | `MCValues` | `ValuesProofs` |
| `ZoneFile` | `dns.zonefile.Reader`, `Zone.to_file()` | `Meant`: each line by itself | `MCValues` | - |
| `Dnssec` | `sign_zone`, the signers, `validate`, the policy | chain and validation as definitions | `MCValues` | `DnssecProofs` |
| `Renderer` | `Renderer` | the records it took | `MCMessages` | - |
| `Message` | `Message`, its readers, `UpdateMessage` | the records it has | `MCMessages` | - |
| `Chaining` | `find_rrset`, `QueryMessage.resolve_chaining` | chains and their times as definitions | `MCResolution` | `ResolutionProofs` |
| `Tsig` | `sign`, `validate`, the digest of a stream | a stream as the server sent it | `MCMessages` | `ExchangeProofs` |
| `Queries` | `udp`, `tcp`, `udp_with_fallback`, the asyncio datagram protocol | the answer of the query | `MCMessages` | `ExchangeProofs` |

They compose by layers. `ZoneTransaction` assumes one write transaction at a time, which `VersionedZone` shows of
the versioned zone (of a plain zone its user sees to it); `VersionedZone` takes the contents of a version as one
value, whose dictionary and nodes `ZoneTransaction` details; `InboundXfr` uses transactions as `AtomicZone` has them,
which `ZoneTransaction` implements, and so do `ZoneFile` and `Dnssec`; `InboundXfr` and `SoaSerial` compare serials
with `SerialArith`. `Message` extends `Renderer`, which extends the codecs of rdata, so that a message is rendered and
read down to its octets. `Tsig` and `Queries` take a message as a value. `Resolution` takes an answer for a fact about a
name; which fact a response has is what `Chaining` says (`Answer.__init__()` calls `resolve_chaining()`).

`MCQuic`, `MCValues`, `MCResolution` and `MCMessages` check several components in one run: the variable `subject` is chosen at the
start, says which of them moves, and never changes; the others rest in one state. The state space is the sum of theirs.

### VersionedZone

Variables carry the names of the attributes (`versions`, `write_txn`, `write_event`, `write_waiters`, ...); `wpc` is
where each writing thread is, `event` its local variable, `wver` its `WritableVersion`, `snap` a reader's version.
Each body of `with self._version_lock` is one action: `Acquire` or `Enqueue` (one turn of the loop of `writer()`),
`OpenReader`, `OpenReaderById`, `OpenReaderBySerial`, `CloseReader`, `SetPolicy`, and the ends of a transaction,
`Commit`, `CommitPolicyRaises`, `CommitFactoryRaises`, `EndWrite`. Outside the lock are `Wake` (the return of
`event.wait()`), `SetupId` and `SetupNodes` (`_setup_version()`), `Modify`, `SetOrigin`. `Prune` is the whole of
`_prune_versions_unlocked()`, and every handler that prunes in the code prunes in its action. An event is named by the
thread that waits on it. `SnapshotStore` is what a user counts on: a growing list of committed contents, one writer
that drafts on the last of them, readers that look at one. A commit that fails in the pruning policy maps to a commit,
the last one: readers opened later see the new version.

### ZoneTransaction

`heap` is what each node *object* holds; the zone, each reader and the draft are dictionaries from names to objects,
so that sharing is explicit. `Cow` is `_maybe_cow()`, `Replaced` is `Node.replace_rdataset()` with the rule of CNAME
and other data, `DeleteRdatas` the four ways of `delete()` and `delete_exact()`, in the order of the code's steps,
errors included. `Commit` makes the changed nodes immutable for a versioned zone. `reply` is what the last call did.
`OtherForms` says whether callers also give names in the form the zone does not keep.
In `AtomicZone` a zone is a set of records: calls change a draft, a commit publishes it.

### InboundXfr

`FirstSoa`, `FirstIsNotSoa`, `FinalSoa`, `InnerSoa`, `Change`, `DataRecord`, `AnswersAfterFinal` and `MessageEnds` are
the cases of `process_message()`, one record at a time; `Fallback` is the answer to an IXFR query that turns out to be
a whole zone; `RetryWithTCP` and `RetryWithUDP` are the driver. `Fail` is any exception of a read (timeout, decoding,
signature, question, rcode). `primary` is what the primary has published. It is chosen once and for all (`honest`)
whether it answers as RFC 1995 and RFC 5936 say - in full, or with differences that may skip versions - and cuts the
answer into messages anywhere, or sends any records in any order. `wire` is what an honest primary has yet to send:
the phase of its answer and the records left in it, which come in any order. Whether the record at hand is the last of
its message shows when it is read (`NextRecord`), so that an answer is never written down as a whole: what the primary
does is chosen step by step, and the proofs need no induction over answers.

### SerialArith, SoaSerial

`Lt` and `Gt` are `__lt__` and `__gt__`, which leave two serials at distance half incomparable; `CanAdd` is the range
check of `__add__`. `UpdateSerial` is `Transaction.update_serial()`, with its step over zero, `Refresh` a secondary that
copies the zone when its serial has moved on.

### LRUCache

`data` is the dictionary, `prev` and `next` the links, `Sentinel` the ring's own node. A body of `with self.lock` is one
step, except in `put()`, whose evictions are steps, because `set_max_size()` does not take the lock. `RecencyList` is
a list of entries, the last used first.

### Resolution

`NextName`, `CacheHit`, `CachedNXDOMAIN(Skipped)`, `NewRequest` and `OutOfNames` are `next_request()`; `RetryWithTCP`,
`NextNameserver`, `NextRound` and `OutOfNameservers` are `next_nameserver()`; `ComputeTimeout` is `_compute_timeout()`;
`Broken`, `NoResponse`, `Servfail`, `Truncated`, `TruncatedAgain`, `Noerror`, `NXDOMAIN` and `YXDOMAIN` are the outcomes
`query_result()` tells apart. The clock is measured from the start of `resolve()` and may be set back
(`SetClockBack`). Other threads put answers into the cache (`OtherPut`), which may forget anything (`Forget`).

### QuicStream

Bytes are their positions in the peer's stream. The reader goes through `Check`, `FindEnough`, `FindEnd`,
`FindTooLittle`, `EnterWait`, `WaitWakesUp`, `WaitTimesOut`, `Get` and `CloseReader`; the worker through `Put` and `Notify`. In the modes
that are `interruptible` the load and the store in `Buffer.put()` and `Buffer.get()` are steps of their own, as under
CPython 3.9 or without the global interpreter lock; otherwise a method of `Buffer` runs to its end.

### QuicPool

The manager has `table` and `tickets`; a connection `address`, `done`, `closed`, `complete` (the handshake's event),
`quic` (aioquic's state), `unsent` and `wakeups` (the socket pair); its worker is at `worker`. A thread is at `pc`,
with its `conn`, `stream` and `timeout`. `manager_lock` and `lock` have their holders. A section under one lock that
takes no other is one step; where two are held at once each acquisition is one: `Close` and `CloseAgain` take the
connection's, `Forget` the manager's, `FinishClose` releases, `Join` joins. Threads: `ConnectAgain`, `ConnectAnew`,
`Run`, `MakeStream`, `GetStream`, `TimeOut`, `Write`, `WakeUp`, `CloseStream`, and `CloseOne` of the manager's exit.
Worker: `Select`, `Read`, `ReadTicket`, `SaveTicket`, `Fail`, `Drain`, `HandleEvents`, `Send`, `Finally`, `Finish`.
`Silence` is a handshake without an answer.

### Octets, RdataFields, RdataTypes, RdataSpecials, RdataSamples, Rdata

A class of `dns/rdtypes` is a sequence of fields, and its constructor, `_to_wire()`, `from_wire_parser()`, `to_text()`
and `from_text()` treat each field in one of a few ways. `RdataFields` has these ways, `RdataTypes` the sequence of
each class, `RdataSpecials` those that are of no such kind (bitmaps, LOC, APL, SVCB's parameters, IPSECKEY's and
AMTRELAY's gateways, HIP, the options of EDNS, ...), `Octets` the parser of `dns/wire.py` and the escapes of text.
`Rdata` is a program with a value in hand (`rdclass`, `rdata`, `source`, `octets`): one of `RdataSamples`, which has
for each class values at the limits of its fields and some the constructor refuses, or what `ReadWire` or `ReadText`
made of octets or text near those of a sample. A text is a sequence of tokens.

### NameOrder, Names, NameDict

`NameOrder` has `Name.fullcompare()` and what rests on it, the parts of names and the neighbours; `Names` adds
text, `to_text()` and `from_text()`. `Valid` is `_validate_labels()`. `StepUp` and `StepDown` are `successor()` and `predecessor()`, with and without new labels, from every name of
`Universe` below every origin; `Convert` is `choose_relativity()`. Sizes and the octets at which the code counts on are
parameters, so that in a run the universe can be nearly all names there are, and the proofs hold of any. The loops of
`_absolute_successor()` are definitions by what they look for: the first superdomain whose label can be made longer or
counted up (`Stops`, `Beside`), the last octet that can be counted up (`Incremented`). `NameDict` is `SetItem`, `DeleteItem`, `GetDeepestMatch`.

### ZoneFile

`Read` is one line that the environment chooses: `RRLine`, `TtlLine`, `OriginLine`, `IncludeLine`, `GenerateLine` and
unknown directives; `EndOfFile` takes the saved state from the stack. `reader` is the `Reader` with the records of its
transaction. `Meant` gives the meaning of a file from its lines alone. `ToFile` is `Zone.to_file()`.

### Dnssec

A zone is a function from owner and type to rdatasets, `zone` the published one, `draft` that of the open transaction.
`Edit` and `Delete` open a write transaction or go on in it, `Commit` ends it. `sign_zone()` is one step for each turn
of its loops: `Begin` adds the DNSKEYs and lists the names, `Skip` passes over one below a delegation, `Visit` takes
the next one and lists the rdatasets to sign, `SignRRset` signs one with all its keys, `Link` gives the name before its
NSEC record and signs it, `Return` closes the chain; `BeginNsec3` is the call that raises. `signer` has the local
variables (`delegation`, `last_secure`, the names that are `left`, the rdatasets `todo`). If a key is refused or a time
missing, `SignRaises`: a transaction of its own is rolled back, one of the caller's may be, or the caller goes on with
whatever was signed by then. A name is its labels from the origin down, as numbers in canonical order. A signature is
the private key and the data signed; `signatures` has all that were made. `Validate` is `validate()` with the policy,
the times, the wildcard's labels. It is quantified over in `SigningIsSound`.

### Renderer, Message

The operations of `Renderer` are functions from a renderer to the renderer after it and whether it raised;
`CallAddQuestion`, `CallAddRRset`, `CallReserve`, `CallReleaseReserved` call them in any order. `ToWire` of `Message` is
`Message.to_wire()` with its order of steps: reserve for OPT and TSIG, the sections until one does not fit, the flag, OPT
with padding, the header, TSIG. `FromWire` is the reader with its options; what it could not read it skips when it is
lenient. `AddRecord` and `CallUpdate` build, `Render` renders, `Receive` hands the octets, or octets near them, to a
reader.

### Chaining

`Enter` is `find_rrset()` with `create` and `add()`. `resolve_chaining()` is one step for each turn of its loops and each
of its ends, in the order of its conditions: `Refuse` or `Call`; `FollowToAnswer`, `FollowAlias`, `FollowToEnd`;
`ChainTooLong`, `AnswerForNXDOMAIN`, `ReturnAnswer`; `LookForSOA`, then `GoUp` until `ReadSOA` or `NoParent`. `stage` is
where it is, the other variables are its own by their names (`target` is `qname`), `count` is the number of `cnames`.
`result` is what it returned or raised for the response as it is, and forgotten when a record is entered.

### Tsig

`SendSigned` and `SendUnsigned` are a server's next message, `Forward` a forwarder that gives it another id, `Lose` the
network, `Tick` the clock; `ReadNext` is the client's `from_wire()` with `Sign` and `Validate` of `dns/tsig.py`. `Forward`
may change the id of any message, and `forwarded` remembers which. A signature says what the id of its message was; an
unsigned message is digested with the id it came by (`dns/message.py:1294`), so that the client refuses a stream in
which such a one was given another: `StreamIsSignedAsAWhole` says that it is taken if none was, and that no signature
after one is. A digest
is what it was computed from, so that two are equal only if their keys and contents are. A message has the id it came by,
its signature the one it was signed with (`SignedWire`).

### Queries

`Ask` is a call of `udp()`, `tcp()` or `udp_with_fallback()` with its options and sockets, `Arrive` any datagram,
`TakeDatagram` the loop of `receive_udp()`, `UdpTimeout` its deadline; `Answer` a server's message on a connection, in
any form, `tcp()` looks at TC no more than the model (`dns/query.py:1190`), so that a cut answer over TCP is returned;
`NetRead` one `recv()` of `_net_read()`, `TcpFails` a timeout or an end of file.

## 3. The runs

| Run | Asks | Result |
|---|---|---|
| `VersionedZone_threads` | three writers, a reader, every policy, callbacks that raise: `NoLostWakeup`, `NoLostUpdate`, `ReadersPin`, `RetentionBound`, `ImplementsStore`; `WriterRuns`, unless a commit has failed | holds |
| `VersionedZone_commitfailure` | is a commit that raises rolled back? | **no** |
| `ZoneTransaction_calls` | every call on a versioned zone beside a reader: `PublishedIsSound` (well formed nodes, published ones frozen), `SharedNodesConstant`, `FailedCallChangesNothing`, `ImplementsAtomicZone` | holds |
| `ZoneTransaction_forms` | may names be given in either form? | **no** |
| `InboundXfr_transfers` | `CopyOfPrimary`, `HonestAnswersAccepted`, `TransferEnds` with an honest primary; `NeverBack`, `DifferencesFit` with any | holds |
| `Resolution_calls` | resolving: `OutcomeIsTrue`, `NoNameserversIsEarned`, `InTime`, `ResolveReturns`; chains of aliases: `ChainIsFollowed` | holds |
| `Quic_threads` | the pool: `TableHasTheOpen`, `UnsentIsAnnounced`, `CallsReturn`; a stream: `ReceiveIsHonest`, `ReceiveEnds` | holds |
| `QuicStream_lostwakeup` | does `receive()` without a timeout get what has arrived? | **no** |
| `Values` | rdata: `FormsAreFaithful`; names: `NeighboursAreAdjacent`, `NamesSurvive`; the dictionary of names: `DeepestIsFound`; the cache: `PutReturns`, `ImplementsRecencyList`; the serial: `IncrementsAreSeen`; zone files: `FilesAreFaithful`; signing: `SigningIsSound` | holds |
| `Values_apex` | has every name of a signed zone an NSEC record? | **no** |
| `Messages` | messages: `CutHonestly`, `ErrorsAreExact`, `ResponsesMatch`; the renderer: `RenderedIsRead`; signed streams: `StreamIsSignedAsAWhole`; queries: `AnswersAreWholeAndOwn` | holds |
| `Message_rootorigin` | is `BadEDNS` raised only for the reasons that are documented? | **no** |

What the properties of `Values` and `Messages` say is written above their definitions, in the module of the component.

### What the five counterexamples show

- `CommitFailureRollsBack` (`dns/versioned.py:254`): `Transaction.commit()` says that a commit that fails is rolled
  back. If the pruning policy raises, the new version is in the queue, `zone.nodes` is the old one, and the ended
  transaction remains the zone's write transaction: no `writer()` returns any more. `WriterRuns` is stated with this
  exception, `Stuck`. A version factory that raises (`CommitFactoryRaises`) ends the same way, with no version added.
- `EitherFormWorks` (`dns/zone.py:1072`): a name may be given relative or absolute, but `delete_rdataset()` removes an
  emptied node under the caller's form, so that one of the two raises `KeyError` and leaves an empty node behind.
- `ArrivedIsReceived` (`dns/quic/_sync.py:44`): the buffer is looked at and the wait is begun in two steps, and the
  worker adds input without the lock between them: its notification is lost and a `receive()` without a timeout
  sleeps on the message it waits for. With a timeout it finds the message when that is over.
- `EveryNameIsDenied` (`dns/dnssec.py:1185`): a relativized zone with nothing but its apex is signed without an NSEC
  record. The comment at line 1180 knows that the empty name is false in Python, but the call at the end of the loop
  tests `if last_secure`, which is the empty name when no other follows.
- `OptIsWelcome` (`dns/message.py:952`): `from_wire()` promises `BadEDNS` for an OPT record in the wrong section or a
  second one. With the root as origin, as in a transfer of the root zone, names are made relative before the owner of the
  OPT record is compared with the absolute root, and a proper OPT record is refused.

### Bounds, and why they are enough

| Run | Bounds |
|---|---|
| `VersionedZone_*` | 3 writers (one that holds, one woken, one that arrives or queues behind: the shortest queue in which a wake-up can go to the wrong thread), 1 reader, versions up to id 3 (one to read, one to prune, one that succeeds), two contents. `SnapshotStore` takes each reader alone, and the proofs are for any number. |
| `ZoneTransaction_*` | 1 name (nodes of different names do not interact; the proofs are for any number), types of the three kinds the CNAME rule tells apart, two addresses and one CNAME, an empty rdataset, 1 reader, 3 objects: the zone's, an old one that a reader keeps, a copy. The view leaves out `reply`, which no guard reads and which action properties read after the step only. |
| `InboundXfr_transfers` | 4 versions (an incremental answer of three differences, one that skips versions, one begun in the middle, and serials so far on that an honest primary seems to have gone back), two records (something to add and to delete, and a message cut between them), serials of two bits (so that some are incomparable and the published ones wrap). Messages are of any length. |
| `Resolution_calls` | *Resolving*: a list of one name and one with a name twice (known from the cache the second time), two nameservers, one without UDP; a lifetime of 3 with timeouts of 2 and pauses of 1 and 2, so that a pause, a query and both together may pass the limit; the clock set back by 1 or 2. *Chains*: three names, one below another, and nine records of which four are entered in any order, into the last set or one of their own: aliases in a row, loops of one and of two, two aliases for one name, answers at both ends, one of another class, SOA records at the top, closer and beside, each of whose two times may be the least. `MAX_CHAIN` is 3 for the code's 16: chains of two, of three and loops. |
| `Quic_threads`, `QuicStream_lostwakeup` | Pool: 2 threads, 4 calls, 2 connections to one address, one after the other (a `connect()` that meets one that ends, a `close()` beside another), 1 ticket. Stream: messages of 0 and 2 bytes behind a two-byte length in streams of 0 to 5 bytes: cut in the length, cut in the message, exact, too long; pieces of any size. A stream may rest for ever, so deadlock is not checked. |
| `Values` | *Rdata*: samples at the limits of each field, of every class, and octets cut, extended or changed at one place. *Names*: six octets: the least, the one before the capitals, a capital, the one after the capitals, which lies before small letters, a small letter, the greatest. Labels of at most two octets and names of six, so that both limits are reached; 198 names: all of up to two labels over the octets in lower case but for some middle ones in second place, and two with capitals. Origins of no label, of one of one octet and of one that is full. Text: six names with what must be escaped. *NameDict*: all names of up to two labels over two. *Cache*: 3 keys and sizes 1 to 3 (a node at the head, in the middle and at the tail), two lifetimes, one tick; the view leaves out cells that are not in use and the last reply, on which no behaviour depends. *Serials*: five bits, all increments up to past half and all absolute values to past the wrap. *Zone files*: three lines (one that sets a default, one in between that may be an included file, one that takes it), six ways to read. *Signing*: a zone of an apex alone, and one with names, a wildcard, a delegation with glue and an alias, relativized and not; one edit (a delegation that comes or goes, an address in the place of an alias), two signings, in transactions of their own or around the edit, six calls (three that sign, one with a key the policy denies, one without an expiration, one with NSEC3); rings, owners and contents of validators that fit and that do not. |
| `Messages` | *Messages*: three records (an alias, its target, an SOA or an answer), an OPT with and without padding, TSIG, no limit and one of 62 octets, which some messages reach; read whole or nearly so up to 50 octets, with one octet damaged in the first 38: the first record of several may be bad, and a lenient reader goes on to the next. *Renderer*: pointers reach 40 octets for 16383, sizes of 50 and 200, three calls. *Streams*: three messages (signed, not signed, signed), any of them given another id or, after the first, lost; a fudge of 1 and a clock to 2, so that a message may be just in time and just too late. *Queries*: two, so that the second may meet what is left of the first; one datagram waiting and two messages on a connection, in pieces of any size. |

### Fairness

Only what schedulers and the code's own loops provide, and never that a user, a peer or a network does something:

- `VersionedZone`: a thread inside `writer()` takes its next step, a woken thread runs, and a program that has opened
  a write transaction ends it (a context manager does). Nobody has to call anything else.
- `InboundXfr`: records in hand are processed, and a read ends, with a message or with its timeout.
- `QuicPool`: each thread goes on, each worker too, and a handshake without an answer times out, as aioquic's idle
  timer sees to. A connection that is up may stay up, a program need not call anything.
- `LRUCache` (in `Values`): the thread that holds the lock goes on. Nothing is assumed of `set_max_size()`, which may be called for
  ever; `PutReturns` holds because each turn removes an entry.
- `Resolution`: the thread runs, sleeps end, queries end in the time they are given. `ResolveReturns` also needs the
  sum of the times by which the clock is set back to be finite (`MaxSetBack`).
- `QuicStream`: both threads run and a timeout comes. The peer may stop, so `ReceiveEnds` is of calls with a timeout.

The other components have no liveness of their own: their functions return, and the peer, network and clock beside
them are free.

## 4. The proofs

All theorems are of `Spec` (no fairness) and for every value of the constants that the named assumptions admit.

| Module | Proved | Inductive invariant, and why it is needed |
|---|---|---|
| `VersionedZoneProofs` | `TypeOK`, mutual exclusion, `WokenSucceeds`, `NoLostWakeup`, `NoLostUpdate`, `ReadersPin`, `RetentionBound`, order of arrival (`NoCuts`), `ImplementsStore` | `QueueInv`: each waiter is queued once or woken, its event is its own, and whoever is queued sleeps; a queue is served by a holder or by a woken thread. `StoreInv`: ids are consecutive, the draft succeeds the last one, a reader's version is where its id says. A step of the queue disturbs only the first, one of the store only the second. `RetentionBound` then rests on two lemmas: pruning stops no later than it may, and what an opening adds to the readers keeps the bound. |
| `ZoneTransactionProofs` | `TypeOK`, `SharedNodesConstant`, `ChangedIsComplete`, `NodesWellFormed`, `PublishedIsSound`, `FailedCallChangesNothing`, `ExactDeletesExactly`, `ImplementsAtomicZone` | An object under a changed name is used by the draft alone and once (`Owned`); unchanged names have the zone's objects (`ChangedIsComplete`). Without the first a write could reach a reader, without the second a commit could drop a change. Well-formed nodes, immutable nodes and `FailedCallChangesNothing` are proved for names given in the zone's form, since `EitherFormWorks` does not hold. |
| `InboundXfrProofs` | `ReplaceIffFull`, `NeverBack`, `OneCommit`, `DifferencesFit`; of an honest primary `CopyOfPrimary`, `HonestAnswersAccepted` | `Underway`, `Base`, `Forward`, `DraftSerial`: what mode and transaction say of each other, that a draft starts from the zone, that the announced serial is not behind it, and that the last difference brought the draft to it. Nothing is assumed of the primary. For an honest one `HInv`: `Matches` says, for each phase its answer may be in, what `Inbound` expects next (mode, serial, `expecting_SOA`) and what the draft has: the version the differences lead from, without the deletions that came, or with all of them and the additions that came. `PrimaryIs`: versions have serials of their own, without which the SOA before an addition set could be taken for the final one or the reverse; `WireIs`: what is left is of published versions, which a version published meanwhile leaves alone; `Cut`: messages, and datagrams, end with the answer, without which a UDP transfer could end in the middle. |
| `ResolutionProofs` | Resolution: `TypeOK`, `AskedAreInTheMix`, `OutcomeIsTrue`, `NoNameserversIsEarned`, `InTime`. Chains: `ChainIsFollowed` | `Mix`: what is asked is in the mix, a retry is of the one just asked; `Earned`: who left the mix left an error; `Clock`: what a timeout leaves of the lifetime; `Truth`: cache, recorded answers and outcome are facts of the names. Chains: `Walked`: the aliases so far are a chain from the question to `target`, none of whose names has an answer, and `min_ttl` is the least of their times and the answer's; after the loop there is an answer at its end, or neither an answer nor another alias (`AtEnd`); and no SOA record is between that name and `auname` (`Climbed`), without which the record found need not be the closest. |
| `QuicProofs` | Pool: `TableHasTheOpen`, `UnsentIsAnnounced`. Stream: `ReceiveIsHonest` | Pool: `TableIsExact`: a connection is under its address until somebody is about to call it closed, with the connection's lock in hand (`CloserHasLock`); a thread that starts a worker has the manager's lock, so that nobody closes what is not yet started (`StarterHasLock`); addresses are given out in order and threads have only connections that were made (`Made`). Without the locks in the invariant a second `close()` would remove a successor's entry. Stream: `BufferIsExact`: while `receive()` goes on, the buffer has exactly the positions that arrived and were neither taken nor are still in the worker's hands, and knows the end iff it came; `TakenIsFinal` for what a reader took in two steps; `Placed` for where the threads can be. Assumed of the modes: threads switch within a method of the buffer only over HTTP/3, which takes everything at the end (over DoQ bytes can be lost then, see section 5). |
| `ExchangeProofs` | Streams: `StreamIsSignedAsAWhole`, that is `WholeStreamIsTaken` and `SignedPartIsWhole`. Queries: `AnswersAreWholeAndOwn` | Streams: `InOrder`: the numbers of the messages taken and of those on their way grow, and what is missing before one is missing before the next, so that a message is the next one only if none was lost. `ServerCtxIs`, `ClientCtxIs`: a digest is the last signature its end has seen and the messages since. `MacsAre`, `MacsDiffer`: a signature covers the one before it and all since, so no two of a stream are equal; without this a client could take one signature for another of the same length. Both ends digest the same of the messages between two signatures as long as those that are unsigned come by their own ids, and only then (`SinceSame`, `CameIs`). Hashes are assumed to be free of collisions, in the model's way of writing them. Queries: `InStepIsExact`: a connection on which no query raised holds nothing when it is not used; in use, it has either the query unanswered and nothing read, or each octet of the rest of the one answer in its place. `FallsBackForCut`: only a truncated answer of the query itself leads to TCP. |
| `ValuesProofs` | Serials: `ComparisonsAgree`, `NeverLess`, `IncrementNoticed`, `IncrementsAreSeen`, `NeverZero`. Cache: `TypeOK`, `LinksAreInverse`, `ImplementsRecencyList`. `NameDict`: `DeepestIsFound`. `NameOrder`: `NeighboursAreAdjacent` | Arithmetic modulo `2 * Half`, for every width. The dictionary's nodes know their keys, links of nodes in use stay among them and are inverse, the key being put is dropped. `ListInv`: some sequence lists the nodes in use, each once, along the links from the sentinel and back to it; without it a ring in pieces, each with inverse links, would be a ring too. The list is unique: the mapping's walk along the links agrees with it, since there is no least place where they differ. Then each step of the ring is one of the list: unlinking a node removes its place, linking one behind the sentinel puts it first, and what the sentinel's `prev` leads to is the last. `CountCovers`: no name is longer than `max_depth`, and as many are counted as there are of that length, or more; without it a deletion could lower the depth below a name that is left. `NamesInv`: the name in hand, made absolute, is a name of the zone; for a relative name nothing less keeps the neighbour, made relative and absolute again, in the zone. That neighbours are adjacent is then a fact about names, proved for every name of every size and not only for those of a universe. `Above` and `Under` split what follows a name into what comes after all that is below it and what is below it (`CompareIs`), and padding, taking labels off and counting up move between the two: `NextLabel` and `FirstBelow` (nothing between a label or name and the one that is one least octet or one least label longer), `CountedUpIsNext`, `CountedDownIsBefore` (nothing between a label and the one that is counted up or down, with capitals skipped, but what is longer), `PadIsLast` (nothing below a name follows one that is padded with full labels: `WireFilled` counts the octets that are left), `RoomIs` and `StopIsReached` (where the code gives up making a label longer, no name of the zone has a longer one there, so that it is right to go on with the parent). |
| `DnssecProofs` | `SigningIsSound`, and on its own its half `VerdictsAreRight` | `ZonesInv`: every zone has an SOA record and obeys the rule of CNAME and other data, so that no signature drives out what it signs; each signature in it is one that `sign()` made for an rrset and a key of a call. From the latter `validate()` is right: a signature verifies only over its own data (`SignatureIs`), and owner and label count lead back to the wildcard or the name that was signed and to no other (`LabelsSayTheWildcard`). `LoopInv`, between two turns of the loop: `InOrder`: the names visited come before those left, and `last_secure` is the last secure one; `Delegated`: if a visited name is a delegation and a name left is below it, `delegation` knows - canonical order keeps the names below a delegation together (`NamesBelowAreTogether`), without which another name could reset it; `Done`: every secure name but the last has its one NSEC record, to its successor and with all its types, and whatever is signed has its signatures; `Untouched`: the rest is as before. At the last name this is `ChainIsWhole`. |

Some of these theorems state what no run checks any more, because another property says it too or implies it: mutual
exclusion and `WokenSucceeds` (part of `NoLostWakeup`'s invariant), `NoCuts`, `ChangedIsComplete`, `NodesWellFormed`
(part of `PublishedIsSound`), `ReplaceIffFull`, `OneCommit`, `ComparisonsAgree`, `NeverLess`, `IncrementNoticed`, `NeverZero`,
`LinksAreInverse` (which `ImplementsRecencyList` rests on), `AskedAreInTheMix` (part of `NoNameserversIsEarned`) and `ExactDeletesExactly`.

What the constants are assumed to be is said by named ASSUMEs in the modules of the components, which TLC evaluates in
the runs. Those of `Dnssec`: names are sequences of numbers, zones begin with an SOA record, which nobody deletes, and
without signatures, which only `sign_zone()` makes; times are numbers; a key is known by its private key. Those of
`NameOrder`: the octets are numbers with the capitals between `@` and `[` and small letters above, there is room for a
label of one octet, and the origins are proper absolute names; 0, 64, 91, 255, 32, 63 and 255 are such. Those of
`Chaining`: a question has a name, class and type, a TTL is at most `MAX_TTL`, and `MAX_CHAIN` is positive.

Model-checked only: every liveness property (fairness and ENABLED are outside the prover's reach); that `QuicPool`'s
tickets have their type; `ZoneFile`, whose reader folds over lines and whose `$GENERATE` over numbers (induction over data); and
whatever rests on `Octets`, that is rdata, the text of names (`NamesSurvive`), the renderer and messages, whose codecs are
recursive operators, which are out of the prover's reach altogether.

## 5. What is simplified, and what the runs do not show

*Zones and transactions*

- TTLs, the order of rdatas in a set, classes and `covers` (a type stands for type and covers). Wording of errors.
- `AtomicZone` allows a commit that leaves the zone as it was, since a replacement that ends up empty does not replace
  it (`dns/zone.py:1152`, where `dns/transaction.py:27` speaks of replacing). That a commit of a change is never lost is
  said by `ChangedIsComplete` (proved) instead.
- `delete(name, rdataset)` with an empty rdataset deletes the whole name (`dns/transaction.py:503`), since an empty
  rdataset is false. The model does so too.
- A version factory that raises in the set-up of a version after the write transaction was registered leaves it
  registered (`dns/versioned.py:168`); modelled only for the commit.
- `InboundXfr`: no other writer during a transfer, as `make_query()` asks, which reads the base serial in a transaction
  of its own (`dns/xfr.py:300`); commits succeed. If `commit()` raises there, the rollback in `__exit__` meets an ended
  transaction and raises `AlreadyEnded` (`dns/xfr.py:196`). That the last message must be signed is looked at after
  `process_message()` has committed the transfer (`dns/query.py:1510`).

*Resolver and queries*

- The hit and miss counters of the caches.
- `Resolution`: nameservers tell the truth and the names do not change during a call; a nameserver object is listed
  once; the two cache lookups of a name are one step. `resolve()` sleeps the whole pause before it looks at the time
  left (`dns/resolver.py:1321`), so that it may exceed the lifetime by one pause; `InTime` says exactly that.
- `Queries`: times are deadlines that come. `udp_with_fallback()` gives `tcp()` the whole timeout again
  (`dns/query.py:994`). A socket that the caller keeps after a timeout of `tcp()` is left within an answer
  (`dns/query.py:1108`): nothing is promised of the next query on it, and the model follows it only as long as no query
  on it has raised. Under asyncio a datagram that comes when no call waits is dropped (`dns/_asyncio_backend.py:33`).

*QUIC*

- `QuicStream`: `send()`, the headers of HTTP/3 and the asynchronous streams, whose tasks switch only at an await. For
  DNS over QUIC it takes the methods of `Buffer` to run to their end. `put()` and `get()` load and store the same bytes
  without a common lock (`dns/quic/_common.py:38`), so that a switch inside them can lose bytes; over HTTP/3 `get()` runs
  only after the end of the stream, and there the run lets threads switch anywhere.
- `QuicPool`: addresses with a scope (`Scoped`) are left out of the run: `closed()` looks them up in their low level form
  (`dns/inet.py:149`), does not find them, and the table keeps a connection that is closed, which `connect()` hands out.
  A connection that the peer ended also remains in the table until `close()`; calls on it return, with an error. The end
  of a worker wakes who waits for the handshake, not who waits in `receive()`. A second `close()` returns without
  joining the worker.

*Messages, rendering, signatures*

- The comment at `dns/message.py:548` says that compression is off with TSIG and padding, but the TSIG record is written
  with `add_rrset()`, compressed: a message that is padded and signed need not be a multiple of the block.
- Padding that exceeds the size raises `TooBig` although truncation was asked for, and so does an OPT or TSIG record.
- Setting a section (`message.answer = ...`) leaves the index as it was (`dns/message.py:412`); programs in the model add.
- After the first SOA record `from_wire()` of a transfer makes a set of each record up to the end of the section
  (`dns/message.py:1213`).
- `Chaining`: a record stands for its rrset, of whose aliases the code follows the first; an empty rrset, which only a
  program can make, is left out.
- `Tsig`: GSS-TSIG's negotiation. The server signs the first message of a stream, as RFC 8945 demands. What lies between
  neither repeats messages nor exchanges them, since streams come over TCP.
- The count that `ErrorsAreExact` makes of records and errors is of readers with `one_rr_per_rrset`, for elsewhere records
  join in a set; errors of the OPT or TSIG record's place count by another rule and are exempt.

*Rdata, names*

- Samples stand for all values, one octet for the octets treated alike. How numbers, addresses, dates and base64 are
  spelled; where the tokenizer cuts words. An altitude of LOC is a number of whole centimetres that fits the wire. Its text
  goes through floats and `int()` (`dns/rdtypes/ANY/LOC.py:264`, `305`), which lose a centimetre of some (0.29m is
  written as 28 cm): `FallsShort` says of which. Such altitudes, and the fractions of a centimetre that a program may set,
  which only the samples leave out, do not survive. The error of a TSIG record is a response code, at most 4095.
- Text that `from_text()` does not read back is left out of the samples or exempt by name, and is a limit of the code:
  octets from 128 in character strings that are kept as text (HINFO, CAA, ISDN, X25, NAPTR: `get_string().encode()`
  makes two of one); an empty last field of base64 or hexadecimal, empty fields in the middle of TKEY, TSIG, HIP and NSEC3;
  URI's target with a quote; unknown families of APL; ALPN identifiers that cannot be printed; LOC at 90 degrees and
  some minutes, and sizes of more than one digit; bitmaps with a type 0. From octets: the comment at `dns/rdata.py:777`
  promises that what is read can be written as it was; trailing zeros and the like are refused instead (ISDN's empty
  subaddress, APL, duplicate keys of SVCB, LOC's base 0, spare bits of EDNS client subnet).
- `predecessor()` and `successor()` go wrong for names with capitals, though `dns/name.py:859` promises the order of
  DNSSEC. The universe has capitals; the order in the property, and so in its proof, is that of names without.
- `NameDict` counts a name that is set again twice, which only delays the search for a new depth.

*Zone files*

- A relative `$ORIGIN sub` stays relative, and owners after it are silently ignored as out of the zone. An `$INCLUDE`
  with an origin before there is any raises `AssertionError` (`dns/zonefile.py:174`). A forced name is not relativized.
  An SOA that is not at the origin raises an error without file and line. `$GENERATE` leaves the rest of its line to be
  read as the next one. Where a file has no origin its first `$ORIGIN` is taken to be absolute. That an included file
  cannot be opened, and names in Unicode, are left out.
- What `read_rrsets()` says of a missing TTL is stricter than the code, which takes the last stated one.

*DNSSEC*

- NSEC3, ZONEMD, the DS and CDS functions. (`dnskey_rdataset_to_cdnskey_rdataset()` makes objects of type DNSKEY.)
- The TTL of NSEC records comes from the published zone, not from the caller's transaction, so that a zone that is built
  in it has no SOA yet (`NoSOA`). At a delegation the bitmap has the types of glue there too. Times are compared as
  numbers. Signing again keeps old RRSIGs, and what has come below a delegation keeps its NSEC and RRSIG. A key that is
  not for zones may sign, though nobody validates it. Signatures that a program puts into a zone by itself are left out.
  Zones without an origin are left out: there `sign_zone()` raises `ValueError`, but
  after it opened a transaction of its own (`dns/dnssec.py:1076`), which stays the write transaction of a versioned zone.

Not modelled: the components marked so in `PROJECT.json`, each with its reason; either their functions have no state
between calls, or they are next in the plan.

## 6. Plan

Done, in this order: versioned zone and its abstract store; transactions and the atomic zone; transfers; serials; cache;
resolution; QUIC streams; the proofs above; QUIC connections and their manager; rdata; names; rendering and messages;
signatures; queries; zone files; signing, its chain and its signatures proved; the neighbours of names proved; chains of aliases
as a module of their own, and proved.

Next, most important first:

1. `is_response()` and `make_response()` without the octets of messages, so that they can be proved about.
2. `zone_for_name()` and `resolve_name()` on top of `Resolution`; the simple cache.
3. NSEC3 and ZONEMD; the tokenizer's characters and its one unread token; the entropy pool.
4. The asynchronous QUIC streams, TLS and HTTPS.

## 7. Running

    tlc -workers 2 -config VersionedZone_threads.cfg MCVersionedZone
    tlapm VersionedZoneProofs.tla

The longest run takes about two minutes with two workers.
