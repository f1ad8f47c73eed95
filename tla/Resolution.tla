------------------------------ MODULE Resolution ------------------------------
(***************************************************************************)
(* dns.resolver._Resolution and the loops of Resolver.resolve() around it, *)
(* synchronous and asynchronous: the names of a search list are tried in   *)
(* turn, each with the nameservers in turn, until one answers, all are out *)
(* of the mix, or the lifetime is over.                                    *)
(*                                                                         *)
(* Nameservers that answer tell the truth about the names, but they may    *)
(* fail in every way the code distinguishes.  The cache is shared with     *)
(* other threads; its entries may go at any time.  Time passes while the   *)
(* resolver sleeps or waits; time.time() may also be set back.             *)
(***************************************************************************)
EXTENDS Integers, Sequences, Functions

CONSTANTS Names,
          Nameservers,
          Orders,           \* the ranks they may have: one way, or all (rotate)
          AlwaysMaxSize,    \* those that never use UDP (DoH)
          SearchLists,      \* the results of _get_qnames_to_try()
          UseCache,
          RetryServfail,
          Lifetime, Timeout,
          FirstBackoff, LastBackoff,
          MaxSetBack,       \* bound: how far the clock may be set back
          None

Facts == {"answer", "nodata", "nxdomain"}
Keys == {"type", "any"}    \* under (name, rdtype), under (name, ANY)

ASSUME ResolutionAssumption ==
    /\ AlwaysMaxSize \subseteq Nameservers
    /\ Orders \subseteq [Nameservers -> Nat] /\ \A o \in Orders : IsInjective(o)
    /\ SearchLists \subseteq Seq(Names) \ {<<>>}
    /\ UseCache \in BOOLEAN /\ RetryServfail \in BOOLEAN
    /\ Lifetime \in Nat \ {0} /\ Timeout \in Nat \ {0}
    /\ FirstBackoff \in Nat \ {0} /\ LastBackoff \in Nat /\ FirstBackoff <= LastBackoff
    /\ MaxSetBack \in Nat
    /\ None \notin Nameservers \cup Names \cup Facts

VARIABLES
    world,              \* what is true of each name
    cache,              \* what the cache has under (name, rdtype) and (name, ANY)
    pc,
    call,               \* the arguments of resolve()
    elapsed,            \* time.time() - start
    set_back,           \* how far the clock has been set back
    qnames, qname,      \* the names still to try, the current one
    nxdomain_responses, \* the names for which there is an NXDOMAIN
    order,              \* the rank of each nameserver in this request
    nameservers,        \* those still in the mix
    current_nameservers,    \* those still to ask in this round
    nameserver, tcp_attempt, retry_with_tcp,
    backoff,
    timeout,            \* that of the query
    errors,             \* the nameservers for which there is an error
    outcome

mix == <<order, nameservers, errors>>
attempt == <<current_nameservers, nameserver, tcp_attempt, retry_with_tcp>>
names == <<call, qnames, qname, nxdomain_responses>>
clock == <<elapsed, set_back>>
vars == <<world, cache, pc, names, clock, mix, attempt, backoff, timeout, outcome>>

Labels == {"idle", "next_request", "next_nameserver", "timing", "querying"}
Outcomes == {"none", "Answer", "NoAnswer", "NXDOMAIN", "YXDOMAIN", "NoNameservers",
             "LifetimeTimeout"}

Lesser(a, b) == IF a < b THEN a ELSE b

-----------------------------------------------------------------------------
(* The cache: answers and missing answers under (name, rdtype), NXDOMAINs  *)
(* under (name, ANY).                                                      *)

KeyOf(fact) == IF fact = "nxdomain" THEN "any" ELSE "type"
Cached(q, fact) == cache' = [cache EXCEPT ![q][KeyOf(fact)] = fact]
Save(q, fact) == IF UseCache THEN Cached(q, fact) ELSE UNCHANGED cache

\* Another thread that uses the same resolver or cache.
OtherPut(q) ==
    /\ UseCache
    /\ Cached(q, world[q])
    /\ UNCHANGED <<world, pc, names, clock, mix, attempt, backoff, timeout, outcome>>

\* An entry has expired, or was flushed or evicted.
Forget(q, key) ==
    /\ cache[q][key] # None
    /\ cache' = [cache EXCEPT ![q][key] = None]
    /\ UNCHANGED <<world, pc, names, clock, mix, attempt, backoff, timeout, outcome>>

SetClockBack(d) ==
    /\ pc # "idle"
    /\ set_back + d <= MaxSetBack
    /\ elapsed' = elapsed - d
    /\ set_back' = set_back + d
    /\ UNCHANGED <<world, cache, pc, names, mix, attempt, backoff, timeout, outcome>>

-----------------------------------------------------------------------------
(* resolve()                                                               *)

Resolve(list, tcp, raise) ==
    /\ pc = "idle"
    /\ pc' = "next_request"
    /\ call' = [names |-> list, tcp |-> tcp, raise_on_no_answer |-> raise]
    /\ qnames' = list
    /\ qname' = None
    /\ nxdomain_responses' = {}
    /\ elapsed' = 0 /\ set_back' = 0
    /\ nameservers' = {} /\ errors' = {}
    /\ current_nameservers' = {} /\ nameserver' = None
    /\ tcp_attempt' = FALSE /\ retry_with_tcp' = FALSE
    /\ backoff' = 0 /\ timeout' = 0
    /\ outcome' = "none"
    /\ UNCHANGED <<world, cache, order>>

End(result) == pc' = "idle" /\ outcome' = result

OutOfNames ==
    /\ pc = "next_request"
    /\ qnames = <<>>
    /\ End("NXDOMAIN")
    /\ UNCHANGED <<world, cache, names, clock, mix, attempt, backoff, timeout>>

\* The entry of the name under (name, rdtype), then that under (name, ANY).
CacheSays(q) ==
    IF ~UseCache THEN None
    ELSE IF cache[q]["type"] # None THEN cache[q]["type"] ELSE cache[q]["any"]

Answered(fact) ==
    End(IF fact = "nodata" /\ call.raise_on_no_answer THEN "NoAnswer" ELSE "Answer")

NextName == /\ pc = "next_request"
            /\ qnames # <<>>
            /\ qname' = Head(qnames)
            /\ qnames' = Tail(qnames)
            /\ UNCHANGED <<world, cache, call, clock, timeout>>

CacheHit ==
    /\ NextName
    /\ CacheSays(qname') \in {"answer", "nodata"}
    /\ Answered(CacheSays(qname'))
    /\ UNCHANGED <<nxdomain_responses, mix, attempt, backoff>>

\* A bug: a name that is known not to exist is skipped and not recorded.
CachedNXDOMAINSkipped ==
    /\ NextName
    /\ CacheSays(qname') = "nxdomain"
    /\ UNCHANGED <<pc, nxdomain_responses, mix, attempt, backoff, outcome>>

CachedNXDOMAIN ==
    /\ NextName
    /\ CacheSays(qname') = "nxdomain"
    /\ nxdomain_responses' = nxdomain_responses \cup {qname'}
    /\ UNCHANGED <<pc, mix, attempt, backoff, outcome>>

\* A bug: there is no pause between the rounds.
InitialBackoffNone == 0

InitialBackoff == FirstBackoff

NewRequest ==
    /\ NextName
    /\ CacheSays(qname') = None
    /\ order' \in Orders
    /\ nameservers' = Nameservers
    /\ current_nameservers' = Nameservers
    /\ errors' = {}
    /\ nameserver' = None
    /\ tcp_attempt' = FALSE
    /\ retry_with_tcp' = FALSE
    /\ backoff' = InitialBackoff
    /\ pc' = "next_nameserver"
    /\ UNCHANGED <<nxdomain_responses, outcome>>

RetryWithTCP ==
    /\ pc = "next_nameserver"
    /\ retry_with_tcp
    /\ tcp_attempt' = TRUE
    /\ retry_with_tcp' = FALSE
    /\ pc' = "timing"
    /\ UNCHANGED <<world, cache, names, clock, mix, current_nameservers, nameserver,
                   backoff, timeout, outcome>>

Ask(servers) ==
    /\ nameserver' \in servers
    /\ \A n \in servers : order[nameserver'] <= order[n]
    /\ current_nameservers' = servers \ {nameserver'}
    /\ tcp_attempt' = (call.tcp \/ nameserver' \in AlwaysMaxSize)
    /\ pc' = "timing"
    /\ UNCHANGED <<world, cache, names, set_back, mix, retry_with_tcp, timeout, outcome>>

NextNameserver ==
    /\ pc = "next_nameserver"
    /\ ~retry_with_tcp
    /\ current_nameservers # {}
    /\ Ask(current_nameservers)
    /\ UNCHANGED <<elapsed, backoff>>

Doubled == Lesser(2 * backoff, LastBackoff)

\* All have been asked: a pause, then those that remain again.
NextRound ==
    /\ pc = "next_nameserver"
    /\ ~retry_with_tcp
    /\ current_nameservers = {}
    /\ nameservers # {}
    /\ Ask(nameservers)
    /\ elapsed' = elapsed + backoff
    /\ backoff' = Doubled

OutOfNameservers ==
    /\ pc = "next_nameserver"
    /\ ~retry_with_tcp
    /\ current_nameservers = {}
    /\ nameservers = {}
    /\ End("NoNameservers")
    /\ UNCHANGED <<world, cache, names, clock, mix, attempt, backoff, timeout>>

Duration == IF elapsed < 0 THEN 0 ELSE elapsed

\* A bug: a query may take its own timeout at any time.
TimeLeftIgnored == Timeout

TimeLeft == Lesser(Lifetime - Duration, Timeout)

\* _compute_timeout(): a clock set back by more than a second ends it all.
ComputeTimeout ==
    /\ pc = "timing"
    /\ IF elapsed < -1 \/ Duration >= Lifetime
       THEN End("LifetimeTimeout") /\ UNCHANGED timeout
       ELSE pc' = "querying" /\ timeout' = TimeLeft /\ UNCHANGED outcome
    /\ UNCHANGED <<world, cache, names, clock, mix, attempt, backoff>>

-----------------------------------------------------------------------------
(* query_result()                                                          *)

\* The query took its time.
Result == /\ pc = "querying"
          /\ \E d \in 0 .. timeout : elapsed' = elapsed + d
          /\ UNCHANGED <<world, call, qname, qnames, set_back, order, current_nameservers,
                         nameserver, tcp_attempt, backoff, timeout>>

GoOn == pc' = "next_nameserver" /\ UNCHANGED <<cache, nxdomain_responses, outcome>>

\* A bug: a nameserver that is out of the mix gets no entry among the errors.
FailWithoutError ==
    /\ nameservers' = nameservers \ {nameserver}
    /\ UNCHANGED errors

Fail ==
    /\ nameservers' = nameservers \ {nameserver}
    /\ errors' = errors \cup {nameserver}

Stay ==
    /\ errors' = errors \cup {nameserver}
    /\ UNCHANGED nameservers

\* FormError, EOFError, OSError, NotImplementedError; an answer or an
\* NXDOMAIN that makes no Answer object; an rcode the code is not happy with.
Broken == Result /\ Fail /\ GoOn /\ UNCHANGED retry_with_tcp

\* A timeout, a bad signature or another exception.
NoResponse == Result /\ Stay /\ GoOn /\ UNCHANGED retry_with_tcp

Servfail ==
    /\ Result
    /\ IF RetryServfail THEN Stay ELSE Fail
    /\ GoOn
    /\ UNCHANGED retry_with_tcp

Truncated ==
    /\ Result
    /\ IF tcp_attempt
       THEN Fail /\ UNCHANGED retry_with_tcp
       ELSE Stay /\ retry_with_tcp' = TRUE
    /\ GoOn

Noerror ==
    /\ Result
    /\ world[qname] \in {"answer", "nodata"}
    /\ Save(qname, world[qname])
    /\ Answered(world[qname])
    /\ UNCHANGED <<nxdomain_responses, nameservers, errors, retry_with_tcp>>

NXDOMAIN ==
    /\ Result
    /\ world[qname] = "nxdomain"
    /\ nxdomain_responses' = nxdomain_responses \cup {qname}
    /\ Save(qname, "nxdomain")
    /\ pc' = "next_request"
    /\ UNCHANGED <<nameservers, errors, retry_with_tcp, outcome>>

YXDOMAIN ==
    /\ Result
    /\ Stay
    /\ End("YXDOMAIN")
    /\ UNCHANGED <<cache, nxdomain_responses, retry_with_tcp>>

-----------------------------------------------------------------------------

Init ==
    /\ world \in [Names -> Facts]
    /\ cache = [q \in Names |-> [key \in Keys |-> None]]
    /\ pc = "idle"
    /\ call = [names |-> <<>>, tcp |-> FALSE, raise_on_no_answer |-> FALSE]
    /\ elapsed = 0 /\ set_back = 0
    /\ qnames = <<>> /\ qname = None
    /\ nxdomain_responses = {}
    /\ order \in Orders /\ nameservers = {} /\ errors = {}
    /\ current_nameservers = {} /\ nameserver = None
    /\ tcp_attempt = FALSE /\ retry_with_tcp = FALSE
    /\ backoff = 0 /\ timeout = 0
    /\ outcome = "none"

\* What the resolver itself does until it returns.
Progress ==
    \/ OutOfNames \/ CacheHit \/ CachedNXDOMAIN \/ NewRequest
    \/ RetryWithTCP \/ NextNameserver \/ NextRound \/ OutOfNameservers
    \/ ComputeTimeout
    \/ Broken \/ NoResponse \/ Servfail \/ Truncated \/ Noerror \/ NXDOMAIN \/ YXDOMAIN

Next ==
    \/ \E list \in SearchLists, tcp, raise \in BOOLEAN : Resolve(list, tcp, raise)
    \/ Progress
    \/ \E q \in Names : OtherPut(q) \/ \E key \in Keys : Forget(q, key)
    \/ \E d \in 1 .. MaxSetBack : SetClockBack(d)

Spec == Init /\ [][Next]_vars

\* Scheduling: the thread runs, sleeps end, and queries return in the time
\* they are given.
FairSpec == Spec /\ WF_vars(Progress)

-----------------------------------------------------------------------------
(* Properties                                                              *)

\* Every variable has its type.
TypeOK ==
    /\ world \in [Names -> Facts]
    /\ cache \in [Names -> [Keys -> Facts \cup {None}]]
    /\ call \in [names : SearchLists \cup {<<>>}, tcp : BOOLEAN, raise_on_no_answer : BOOLEAN]
    /\ pc \in Labels /\ outcome \in Outcomes
    /\ elapsed \in Int /\ set_back \in 0 .. MaxSetBack
    /\ qnames \in Seq(Names) /\ qname \in Names \cup {None}
    /\ nxdomain_responses \subseteq Names
    /\ order \in Orders
    /\ nameservers \subseteq Nameservers /\ errors \subseteq Nameservers
    /\ current_nameservers \subseteq Nameservers
    /\ nameserver \in Nameservers \cup {None}
    /\ tcp_attempt \in BOOLEAN /\ retry_with_tcp \in BOOLEAN
    /\ backoff \in 0 .. LastBackoff
    /\ timeout \in 0 .. Timeout

\* The nameserver that was asked, and those that will be, are in the list
\* of the nameservers: remove() finds what it removes, the assertions of
\* next_nameserver() and query_result() hold.
AskedAreInTheMix ==
    /\ current_nameservers \subseteq nameservers
    /\ pc \in {"timing", "querying"} => nameserver \in nameservers
    /\ retry_with_tcp => nameserver \in nameservers \ AlwaysMaxSize /\ ~tcp_attempt

\* What is returned or raised is true of the names: NXDOMAIN of all of them,
\* with a response for each; an answer or its absence of the first one that
\* exists.
OutcomeIsTrue ==
    LET asked == Len(call.names) - Len(qnames)
        Missing(i) == world[call.names[i]] = "nxdomain"
    IN /\ outcome = "NXDOMAIN" =>
             \A i \in DOMAIN call.names : Missing(i) /\ call.names[i] \in nxdomain_responses
       /\ outcome \in {"Answer", "NoAnswer"} =>
             /\ qname = call.names[asked] /\ ~Missing(asked)
             /\ \A i \in 1 .. asked - 1 : Missing(i)
             /\ outcome = "NoAnswer" <=> world[qname] = "nodata" /\ call.raise_on_no_answer

\* NoNameservers is raised with an error for every nameserver there is, and
\* none of them leaves the mix twice on the way there (a ValueError of remove()
\* would come out of resolve() in its place).
NoNameserversIsEarned ==
    /\ AskedAreInTheMix
    /\ outcome = "NoNameservers" => errors = Nameservers

\* A query never has a timeout of zero or one beyond the lifetime, and after
\* the lifetime there is at most the end of one pause.
InTime ==
    /\ pc = "querying" => timeout > 0 /\ elapsed + timeout <= Lifetime
    /\ elapsed <= Lifetime + LastBackoff

\* However often nameservers fail at once, resolve() returns.
ResolveReturns == pc # "idle" ~> pc = "idle"
=============================================================================
