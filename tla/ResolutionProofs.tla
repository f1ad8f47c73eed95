--------------------------- MODULE ResolutionProofs ---------------------------
(***************************************************************************)
(* Proofs about Resolution, for every set of names and nameservers, every  *)
(* search list, and every lifetime, timeout and backoff; and about         *)
(* Chaining, which makes answers of responses, for all records.            *)
(***************************************************************************)
EXTENDS Resolution, Chaining, WellFoundedInduction, TLAPS

Requesting == {"next_nameserver", "timing", "querying"}

\* The nameserver that is being asked is in the mix and is not to be asked
\* again in this round; a retry is due only to one that was asked by UDP.
Mix ==
    /\ current_nameservers \subseteq nameservers
    /\ pc \in {"timing", "querying"} =>
          /\ ~retry_with_tcp
          /\ nameserver \in nameservers \ current_nameservers
          /\ nameserver \in AlwaysMaxSize => tcp_attempt
    /\ retry_with_tcp =>
          /\ pc = "next_nameserver" /\ ~tcp_attempt
          /\ nameserver \in nameservers \ (current_nameservers \cup AlwaysMaxSize)

\* A nameserver leaves the mix with an error only.
Earned ==
    /\ pc \in Requesting => Nameservers \ nameservers \subseteq errors
    /\ outcome = "NoNameservers" => errors = Nameservers
    /\ pc # "idle" => outcome = "none"

\* Where the time that has passed was last compared with the lifetime.
Clock ==
    /\ pc \in {"next_request", "next_nameserver"} => elapsed <= Lifetime
    /\ pc = "querying" => timeout > 0 /\ elapsed + timeout <= Lifetime
    /\ elapsed <= Lifetime + LastBackoff

Asked == Len(call.names) - Len(qnames)

Gone(i) == /\ world[call.names[i]] = "nxdomain"
           /\ call.names[i] \in nxdomain_responses

\* The names to try are the last ones of the list.
Rest ==
    /\ Len(qnames) <= Len(call.names)
    /\ \A i \in 1 .. Len(qnames) : qnames[i] = call.names[Asked + i]

\* The cache tells the truth.
CacheTrue ==
    \A q \in Names :
        /\ cache[q]["type"] # None => cache[q]["type"] = world[q] /\ world[q] # "nxdomain"
        /\ cache[q]["any"] # None => cache[q]["any"] = world[q] /\ world[q] = "nxdomain"

\* Each of the names before the current one is known to be missing.
Known ==
    /\ pc = "next_request" => \A i \in 1 .. Asked : Gone(i)
    /\ pc \in Requesting => /\ Asked > 0 /\ qname = call.names[Asked]
                            /\ \A i \in 1 .. Asked - 1 : Gone(i)

Truth == Rest /\ CacheTrue /\ Known /\ OutcomeIsTrue

IInv == TypeOK /\ Mix /\ Earned /\ Clock /\ Truth
-----------------------------------------------------------------------------
(* Steps                                                                   *)

\* The nameservers asked stay in the mix.
LEMMA MixStep ==
    ASSUME TypeOK, Mix, [Next]_vars
    PROVE  Mix'
<1> USE ResolutionAssumption DEF Mix, TypeOK, mix, attempt, names, clock
<1>1. ASSUME NEW list \in SearchLists, NEW tcp \in BOOLEAN, NEW raise \in BOOLEAN,
                 Resolve(list, tcp, raise) PROVE Mix'
  BY <1>1 DEF Resolve
<1>2. CASE OutOfNames
  BY <1>2 DEF OutOfNames, End
<1>3. CASE CacheHit
  BY <1>3 DEF CacheHit, NextName, Answered, End
<1>4. CASE CachedNXDOMAIN
  BY <1>4 DEF CachedNXDOMAIN, NextName
<1>5. CASE NewRequest
  BY <1>5 DEF NewRequest, NextName
<1>6. CASE RetryWithTCP
  BY <1>6 DEF RetryWithTCP
<1>7. CASE NextNameserver
  BY <1>7 DEF NextNameserver, Ask
<1>8. CASE NextRound
  BY <1>8 DEF NextRound, Ask
<1>9. CASE OutOfNameservers
  BY <1>9 DEF OutOfNameservers, End
<1>10. CASE ComputeTimeout
  BY <1>10 DEF ComputeTimeout, End
<1>11. CASE Broken
  BY <1>11 DEF Broken, Result, Fail, GoOn
<1>12. CASE NoResponse
  BY <1>12 DEF NoResponse, Result, Stay, GoOn
<1>13. CASE Servfail
  BY <1>13 DEF Servfail, Result, Fail, Stay, GoOn
<1>14. CASE Truncated
  BY <1>14 DEF Truncated, Result, Fail, Stay, GoOn
<1>15. CASE Noerror
  BY <1>15 DEF Noerror, Result, Answered, End
<1>16. CASE NXDOMAIN
  BY <1>16 DEF NXDOMAIN, Result
<1>17. CASE YXDOMAIN
  BY <1>17 DEF YXDOMAIN, Result, Stay, End
<1>18. ASSUME NEW q \in Names, OtherPut(q) PROVE Mix'
  BY <1>18 DEF OtherPut
<1>19. ASSUME NEW q \in Names, NEW key \in Keys, Forget(q, key) PROVE Mix'
  BY <1>19 DEF Forget
<1>20. ASSUME NEW d \in 1 .. MaxSetBack, SetClockBack(d) PROVE Mix'
  BY <1>20 DEF SetClockBack
<1>21. CASE UNCHANGED vars
  BY <1>21 DEF vars
<1> QED
  BY <1>1, <1>2, <1>3, <1>4, <1>5, <1>6, <1>7, <1>8, <1>9, <1>10, <1>11, <1>12, <1>13, <1>14, <1>15, <1>16, <1>17, <1>18, <1>19, <1>20, <1>21 DEF Next, Progress

\* An error stands for each nameserver that is out of the mix.
LEMMA EarnedStep ==
    ASSUME TypeOK, Mix, Earned, [Next]_vars
    PROVE  Earned'
<1> USE ResolutionAssumption DEF Earned, TypeOK, Mix, Requesting, mix, attempt, names, clock
<1>1. ASSUME NEW list \in SearchLists, NEW tcp \in BOOLEAN, NEW raise \in BOOLEAN,
                 Resolve(list, tcp, raise) PROVE Earned'
  BY <1>1 DEF Resolve
<1>2. CASE OutOfNames
  BY <1>2 DEF OutOfNames, End
<1>3. CASE CacheHit
  BY <1>3 DEF CacheHit, NextName, Answered, End
<1>4. CASE CachedNXDOMAIN
  BY <1>4 DEF CachedNXDOMAIN, NextName
<1>5. CASE NewRequest
  BY <1>5 DEF NewRequest, NextName
<1>6. CASE RetryWithTCP
  BY <1>6 DEF RetryWithTCP
<1>7. CASE NextNameserver
  BY <1>7 DEF NextNameserver, Ask
<1>8. CASE NextRound
  BY <1>8 DEF NextRound, Ask
<1>9. CASE OutOfNameservers
  BY <1>9 DEF OutOfNameservers, End
<1>10. CASE ComputeTimeout
  BY <1>10 DEF ComputeTimeout, End
<1>11. CASE Broken
  BY <1>11 DEF Broken, Result, Fail, GoOn
<1>12. CASE NoResponse
  BY <1>12 DEF NoResponse, Result, Stay, GoOn
<1>13. CASE Servfail
  BY <1>13 DEF Servfail, Result, Fail, Stay, GoOn
<1>14. CASE Truncated
  BY <1>14 DEF Truncated, Result, Fail, Stay, GoOn
<1>15. CASE Noerror
  BY <1>15 DEF Noerror, Result, Answered, End
<1>16. CASE NXDOMAIN
  BY <1>16 DEF NXDOMAIN, Result
<1>17. CASE YXDOMAIN
  BY <1>17 DEF YXDOMAIN, Result, Stay, End
<1>18. ASSUME NEW q \in Names, OtherPut(q) PROVE Earned'
  BY <1>18 DEF OtherPut
<1>19. ASSUME NEW q \in Names, NEW key \in Keys, Forget(q, key) PROVE Earned'
  BY <1>19 DEF Forget
<1>20. ASSUME NEW d \in 1 .. MaxSetBack, SetClockBack(d) PROVE Earned'
  BY <1>20 DEF SetClockBack
<1>21. CASE UNCHANGED vars
  BY <1>21 DEF vars
<1> QED
  BY <1>1, <1>2, <1>3, <1>4, <1>5, <1>6, <1>7, <1>8, <1>9, <1>10, <1>11, <1>12, <1>13, <1>14, <1>15, <1>16, <1>17, <1>18, <1>19, <1>20, <1>21 DEF Next, Progress

\* Time is compared with the lifetime often enough.
LEMMA ClockStep ==
    ASSUME TypeOK, Clock, [Next]_vars
    PROVE  Clock'
<1> USE ResolutionAssumption DEF Clock, TypeOK, mix, attempt, names, clock
<1>1. ASSUME NEW list \in SearchLists, NEW tcp \in BOOLEAN, NEW raise \in BOOLEAN,
                 Resolve(list, tcp, raise) PROVE Clock'
  BY <1>1 DEF Resolve
<1>2. CASE OutOfNames
  BY <1>2 DEF OutOfNames, End
<1>3. CASE CacheHit
  BY <1>3 DEF CacheHit, NextName, Answered, End
<1>4. CASE CachedNXDOMAIN
  BY <1>4 DEF CachedNXDOMAIN, NextName
<1>5. CASE NewRequest
  BY <1>5 DEF NewRequest, NextName, InitialBackoff
<1>6. CASE RetryWithTCP
  BY <1>6 DEF RetryWithTCP
<1>7. CASE NextNameserver
  BY <1>7 DEF NextNameserver, Ask
<1>8. CASE NextRound
  BY <1>8 DEF NextRound, Ask, Doubled, Lesser
<1>9. CASE OutOfNameservers
  BY <1>9 DEF OutOfNameservers, End
<1>10. CASE ComputeTimeout
  BY <1>10 DEF ComputeTimeout, End, Duration, TimeLeft, Lesser
<1>11. CASE Broken
  BY <1>11 DEF Broken, Result, Fail, GoOn
<1>12. CASE NoResponse
  BY <1>12 DEF NoResponse, Result, Stay, GoOn
<1>13. CASE Servfail
  BY <1>13 DEF Servfail, Result, Fail, Stay, GoOn
<1>14. CASE Truncated
  BY <1>14 DEF Truncated, Result, Fail, Stay, GoOn
<1>15. CASE Noerror
  BY <1>15 DEF Noerror, Result, Answered, End
<1>16. CASE NXDOMAIN
  BY <1>16 DEF NXDOMAIN, Result
<1>17. CASE YXDOMAIN
  BY <1>17 DEF YXDOMAIN, Result, Stay, End
<1>18. ASSUME NEW q \in Names, OtherPut(q) PROVE Clock'
  BY <1>18 DEF OtherPut
<1>19. ASSUME NEW q \in Names, NEW key \in Keys, Forget(q, key) PROVE Clock'
  BY <1>19 DEF Forget
<1>20. ASSUME NEW d \in 1 .. MaxSetBack, SetClockBack(d) PROVE Clock'
  BY <1>20 DEF SetClockBack
<1>21. CASE UNCHANGED vars
  BY <1>21 DEF vars
<1> QED
  BY <1>1, <1>2, <1>3, <1>4, <1>5, <1>6, <1>7, <1>8, <1>9, <1>10, <1>11, <1>12, <1>13, <1>14, <1>15, <1>16, <1>17, <1>18, <1>19, <1>20, <1>21 DEF Next, Progress

\* The current name is one of the list.
LEMMA CurrentName ==
    ASSUME TypeOK, Truth, pc \in Requesting
    PROVE  /\ Asked \in 1 .. Len(call.names)
           /\ qname \in Names
<1>1. call.names \in Seq(Names)
  <2>1. call.names \in SearchLists \cup {<<>>} /\ <<>> \in Seq(Names)
    BY DEF TypeOK
  <2> QED
    BY <2>1, ResolutionAssumption
<1>2. Len(call.names) \in Nat /\ Len(qnames) \in Nat
  BY <1>1 DEF TypeOK
<1>3. Asked \in 1 .. Len(call.names)
  BY <1>2 DEF Truth, Rest, Known, Asked
<1>4. qname = call.names[Asked]
  BY DEF Truth, Known
<1> QED
  BY <1>1, <1>3, <1>4

\* What a put does to the cache, entry by entry.
LEMMA Put ==
    ASSUME TypeOK, NEW q \in Names, NEW fact \in Facts, Cached(q, fact)
    PROVE  /\ cache' \in [Names -> [Keys -> Facts \cup {None}]]
           /\ cache'[q][KeyOf(fact)] = fact
           /\ \A r \in Names, key \in Keys :
                 r # q \/ key # KeyOf(fact) => cache'[r][key] = cache[r][key]
<1>1. KeyOf(fact) \in Keys /\ cache \in [Names -> [Keys -> Facts \cup {None}]]
  BY DEF KeyOf, Keys, TypeOK
<1>2. cache' = [cache EXCEPT ![q] = [cache[q] EXCEPT ![KeyOf(fact)] = fact]]
  BY DEF Cached
<1>3. [cache[q] EXCEPT ![KeyOf(fact)] = fact] \in [Keys -> Facts \cup {None}]
  BY <1>1
<1> QED
  BY <1>1, <1>2, <1>3

\* What a removal does to the cache, entry by entry.
LEMMA Removal ==
    ASSUME TypeOK, NEW q \in Names, NEW k \in Keys, Forget(q, k)
    PROVE  /\ cache' \in [Names -> [Keys -> Facts \cup {None}]]
           /\ cache'[q][k] = None
           /\ \A r \in Names, key \in Keys :
                 r # q \/ key # k => cache'[r][key] = cache[r][key]
<1>1. cache \in [Names -> [Keys -> Facts \cup {None}]]
  BY DEF TypeOK
<1>2. cache' = [cache EXCEPT ![q] = [cache[q] EXCEPT ![k] = None]]
  BY DEF Forget
<1>3. [cache[q] EXCEPT ![k] = None] \in [Keys -> Facts \cup {None}]
  BY <1>1
<1> QED
  BY <1>1, <1>2, <1>3

\* Every variable keeps its type.
LEMMA TypeStep ==
    ASSUME TypeOK, Mix, Truth, [Next]_vars
    PROVE  TypeOK'
<1> USE ResolutionAssumption
<1>1. ASSUME NEW list \in SearchLists, NEW tcp \in BOOLEAN, NEW raise \in BOOLEAN,
                 Resolve(list, tcp, raise) PROVE TypeOK'
  <2>1. list \in Seq(Names) /\ call' = [names |-> list, tcp |-> tcp, raise_on_no_answer |-> raise]
    BY <1>1 DEF Resolve
  <2>2. call' \in [names : SearchLists \cup {<<>>}, tcp : BOOLEAN, raise_on_no_answer : BOOLEAN]
    BY <2>1
  <2>3. /\ set_back' \in 0 .. MaxSetBack /\ elapsed' \in Int
        /\ backoff' \in 0 .. LastBackoff /\ timeout' \in 0 .. Timeout
    BY <1>1 DEF Resolve
  <2>4. /\ nameservers' \subseteq Nameservers /\ errors' \subseteq Nameservers
        /\ current_nameservers' \subseteq Nameservers /\ nxdomain_responses' \subseteq Names
        /\ nameserver' \in Nameservers \cup {None} /\ qname' \in Names \cup {None}
        /\ qnames' \in Seq(Names)
    BY <1>1, <2>1 DEF Resolve
  <2>5. /\ world' \in [Names -> Facts] /\ cache' \in [Names -> [Keys -> Facts \cup {None}]]
        /\ order' \in Orders
    BY <1>1 DEF Resolve, TypeOK
  <2>6. /\ pc' \in Labels /\ outcome' \in Outcomes
        /\ tcp_attempt' \in BOOLEAN /\ retry_with_tcp' \in BOOLEAN
    BY <1>1 DEF Resolve, Labels, Outcomes
  <2> QED
    BY <2>2, <2>3, <2>4, <2>5, <2>6 DEF TypeOK
<1>2. CASE OutOfNames
  BY <1>2 DEF OutOfNames, End, Mix, TypeOK, Facts, Keys, Labels, Outcomes, mix, attempt, names, clock
<1>3. CASE CacheHit
  BY <1>3 DEF CacheHit, NextName, Answered, End, Mix, TypeOK, Facts, Keys, Labels, Outcomes, mix, attempt, names, clock
<1>4. CASE CachedNXDOMAIN
  BY <1>4 DEF CachedNXDOMAIN, NextName, Mix, TypeOK, Facts, Keys, Labels, Outcomes, mix, attempt, names, clock
<1>5. CASE NewRequest
  <2>1. qname' \in Names /\ qnames' \in Seq(Names)
    BY <1>5 DEF NewRequest, NextName, TypeOK
  <2>2. nameservers' \subseteq Nameservers /\ current_nameservers' \subseteq Nameservers /\ errors' = {}
    BY <1>5 DEF NewRequest
  <2>3. backoff' \in 0 .. LastBackoff /\ timeout' \in 0 .. Timeout /\ elapsed' \in Int
    BY <1>5 DEF NewRequest, NextName, InitialBackoff, TypeOK, clock
  <2> QED
    BY <1>5, <2>1, <2>2, <2>3 DEF NewRequest, NextName, TypeOK, Facts, Keys, Labels, Outcomes, mix, attempt, names, clock
<1>6. CASE RetryWithTCP
  BY <1>6 DEF RetryWithTCP, Mix, TypeOK, Facts, Keys, Labels, Outcomes, mix, attempt, names, clock
<1>7. CASE NextNameserver
  BY <1>7 DEF NextNameserver, Ask, Mix, TypeOK, Facts, Keys, Labels, Outcomes, mix, attempt, names, clock
<1>8. CASE NextRound
  BY <1>8 DEF NextRound, Ask, Doubled, Lesser, Mix, TypeOK, Facts, Keys, Labels, Outcomes, mix, attempt, names, clock
<1>9. CASE OutOfNameservers
  BY <1>9 DEF OutOfNameservers, End, Mix, TypeOK, Facts, Keys, Labels, Outcomes, mix, attempt, names, clock
<1>10. CASE ComputeTimeout
  BY <1>10 DEF ComputeTimeout, End, Duration, TimeLeft, Lesser, Mix, TypeOK, Facts, Keys, Labels, Outcomes, mix, attempt, names, clock
<1>11. CASE Broken
  BY <1>11 DEF Broken, Result, Fail, GoOn, Mix, TypeOK, Facts, Keys, Labels, Outcomes, mix, attempt, names, clock
<1>12. CASE NoResponse
  BY <1>12 DEF NoResponse, Result, Stay, GoOn, Mix, TypeOK, Facts, Keys, Labels, Outcomes, mix, attempt, names, clock
<1>13. CASE Servfail
  BY <1>13 DEF Servfail, Result, Fail, Stay, GoOn, Mix, TypeOK, Facts, Keys, Labels, Outcomes, mix, attempt, names, clock
<1>14. CASE Truncated
  <2>1. nameserver \in Nameservers /\ elapsed' \in Int
    BY <1>14 DEF Truncated, Result, Mix, TypeOK
  <2>2. nameservers' \subseteq Nameservers /\ errors' \subseteq Nameservers
    BY <1>14, <2>1 DEF Truncated, Fail, Stay, TypeOK
  <2>3. retry_with_tcp' \in BOOLEAN
    BY <1>14 DEF Truncated, TypeOK
  <2> QED
    BY <1>14, <2>1, <2>2, <2>3 DEF Truncated, Result, GoOn, TypeOK, Facts, Keys, Labels, Outcomes, mix, attempt, names, clock
<1>15. CASE Noerror
  <2>1. qname \in Names /\ world[qname] \in Facts /\ elapsed' \in Int
    BY <1>15, CurrentName DEF Noerror, Result, TypeOK, Requesting, Facts
  <2>2. cache' \in [Names -> [Keys -> Facts \cup {None}]]
    BY <1>15, <2>1, Put DEF Noerror, Save, TypeOK
  <2> QED
    BY <1>15, <2>1, <2>2 DEF Noerror, Result, Answered, End, TypeOK, Facts, Keys, Labels, Outcomes, mix, attempt, names, clock
<1>16. CASE NXDOMAIN
  <2>1. qname \in Names /\ world[qname] \in Facts /\ elapsed' \in Int
    BY <1>16, CurrentName DEF NXDOMAIN, Result, TypeOK, Requesting, Facts
  <2>2. cache' \in [Names -> [Keys -> Facts \cup {None}]]
    BY <1>16, <2>1, Put DEF NXDOMAIN, Save, TypeOK
  <2> QED
    BY <1>16, <2>1, <2>2 DEF NXDOMAIN, Result, Answered, End, TypeOK, Facts, Keys, Labels, Outcomes, mix, attempt, names, clock
<1>17. CASE YXDOMAIN
  BY <1>17 DEF YXDOMAIN, Result, Stay, End, Mix, TypeOK, Facts, Keys, Labels, Outcomes, mix, attempt, names, clock
<1>18. ASSUME NEW q \in Names, OtherPut(q) PROVE TypeOK'
  <2>1. cache' \in [Names -> [Keys -> Facts \cup {None}]]
    BY <1>18, Put DEF OtherPut, TypeOK
  <2> QED
    BY <1>18, <2>1 DEF OtherPut, TypeOK, Facts, Keys, Labels, Outcomes, mix, attempt, names, clock
<1>19. ASSUME NEW q \in Names, NEW key \in Keys, Forget(q, key) PROVE TypeOK'
  <2>1. cache' \in [Names -> [Keys -> Facts \cup {None}]]
    BY <1>19, Removal
  <2> QED
    BY <1>19, <2>1 DEF Forget, TypeOK, Facts, Keys, Labels, Outcomes, mix, attempt, names, clock
<1>20. ASSUME NEW d \in 1 .. MaxSetBack, SetClockBack(d) PROVE TypeOK'
  BY <1>20 DEF SetClockBack, Mix, TypeOK, Facts, Keys, Labels, Outcomes, mix, attempt, names, clock
<1>21. CASE UNCHANGED vars
  BY <1>21 DEF vars, TypeOK, Facts, Keys, Labels, Outcomes, mix, attempt, names, clock
<1> QED
  BY <1>1, <1>2, <1>3, <1>4, <1>5, <1>6, <1>7, <1>8, <1>9, <1>10, <1>11, <1>12, <1>13, <1>14, <1>15, <1>16, <1>17, <1>18, <1>19, <1>20, <1>21 DEF Next, Progress

\* The list of a call is a sequence of names, those to try are another.
LEMMA Lists ==
    ASSUME TypeOK
    PROVE  /\ call.names \in Seq(Names) /\ qnames \in Seq(Names)
           /\ Len(call.names) \in Nat /\ Len(qnames) \in Nat
<1>1. call.names \in SearchLists \cup {<<>>} /\ <<>> \in Seq(Names)
  BY DEF TypeOK
<1>2. call.names \in Seq(Names)
  BY <1>1, ResolutionAssumption
<1> QED
  BY <1>2 DEF TypeOK

\* The current name is the next one of the list.
LEMMA NextNameTakesOne ==
    ASSUME TypeOK, Rest, NextName
    PROVE  /\ call' = call /\ world' = world /\ cache' = cache
           /\ Asked \in Nat /\ Asked' = Asked + 1 /\ Asked' \in 1 .. Len(call.names)
           /\ qname' = call.names[Asked'] /\ qname' \in Names
           /\ Rest'
<1>1. /\ call' = call /\ world' = world /\ cache' = cache
      /\ qnames # <<>> /\ qname' = Head(qnames) /\ qnames' = Tail(qnames)
  BY DEF NextName
<1>2. /\ qname' = qnames[1] /\ Len(qnames') = Len(qnames) - 1 /\ Len(qnames) > 0
      /\ \A i \in 1 .. Len(qnames') : qnames'[i] = qnames[i + 1]
  BY <1>1, Lists
<1>3. Asked \in Nat /\ Asked' = Asked + 1 /\ Asked' \in 1 .. Len(call.names)
  BY <1>1, <1>2, Lists DEF Asked, Rest
<1>4. qname' = call.names[Asked']
  BY <1>2, <1>3, Lists DEF Rest
<1>5. \A i \in 1 .. Len(qnames') : qnames'[i] = call.names[Asked' + i]
  <2> SUFFICES ASSUME NEW i \in 1 .. Len(qnames')
               PROVE  qnames'[i] = call.names[Asked' + i]
    OBVIOUS
  <2>1. i + 1 \in 1 .. Len(qnames) /\ Asked' + i = Asked + (i + 1)
    BY <1>2, <1>3, Lists
  <2> QED
    BY <1>2, <2>1 DEF Rest
<1>6. Rest'
  BY <1>1, <1>2, <1>3, <1>5, Lists DEF Rest
<1> QED
  BY <1>1, <1>3, <1>4, <1>6, Lists

\* What the cache says of a name is true of it.
LEMMA CacheSaysTruth ==
    ASSUME TypeOK, CacheTrue, NEW q \in Names, CacheSays(q) # None
    PROVE  CacheSays(q) = world[q]
  BY DEF CacheTrue, CacheSays

Takes == CacheHit \/ CachedNXDOMAIN \/ NewRequest

\* A step begins a call, takes a name, or leaves the list alone.
LEMMA StepKinds ==
    ASSUME [Next]_vars
    PROVE  \/ \E list \in SearchLists, tcp, raise \in BOOLEAN : Resolve(list, tcp, raise)
           \/ Takes
           \/ call' = call /\ qnames' = qnames /\ qname' = qname /\ world' = world
<1> USE DEF names
<1>1. CASE \E list \in SearchLists, tcp, raise \in BOOLEAN : Resolve(list, tcp, raise)
  BY <1>1
<1>2. CASE Progress
  <2>1. CASE Takes
    BY <2>1
  <2>2. CASE OutOfNames \/ RetryWithTCP \/ NextNameserver \/ NextRound \/ OutOfNameservers
             \/ ComputeTimeout
    BY <2>2 DEF OutOfNames, RetryWithTCP, NextNameserver, NextRound, Ask, OutOfNameservers,
                ComputeTimeout
  <2>3. CASE Broken \/ NoResponse \/ Servfail \/ Truncated \/ Noerror \/ NXDOMAIN \/ YXDOMAIN
    BY <2>3 DEF Broken, NoResponse, Servfail, Truncated, Noerror, NXDOMAIN, YXDOMAIN, Result
  <2> QED
    BY <1>2, <2>1, <2>2, <2>3 DEF Progress, Takes
<1>3. CASE \E q \in Names : OtherPut(q) \/ \E key \in Keys : Forget(q, key)
  BY <1>3 DEF OtherPut, Forget
<1>4. CASE \E d \in 1 .. MaxSetBack : SetClockBack(d)
  BY <1>4 DEF SetClockBack
<1>5. CASE UNCHANGED vars
  BY <1>5 DEF vars
<1> QED
  BY <1>1, <1>2, <1>3, <1>4, <1>5 DEF Next

\* The names to try stay the last ones of the list.
LEMMA RestStep ==
    ASSUME TypeOK, Rest, [Next]_vars
    PROVE  Rest'
<1>1. ASSUME NEW list \in SearchLists, NEW tcp \in BOOLEAN, NEW raise \in BOOLEAN,
             Resolve(list, tcp, raise)
      PROVE  Rest'
  <2>1. call'.names = list /\ qnames' = list /\ Len(list) \in Nat
    BY <1>1, ResolutionAssumption DEF Resolve
  <2> QED
    BY <2>1 DEF Rest, Asked
<1>2. CASE Takes
  BY <1>2, NextNameTakesOne DEF Takes, CacheHit, CachedNXDOMAIN, NewRequest
<1>3. CASE call' = call /\ qnames' = qnames
  BY <1>3 DEF Rest, Asked
<1> QED
  BY <1>1, <1>2, <1>3, StepKinds

\* Whatever is put, removed or left, the cache tells the truth.
LEMMA CacheTrueStep ==
    ASSUME TypeOK, Truth, [Next]_vars
    PROVE  CacheTrue'
<1> USE DEF Truth
<1>1. ASSUME NEW q \in Names, Cached(q, world[q]), world' = world
      PROVE  CacheTrue'
  <2>1. world[q] \in Facts
    BY DEF TypeOK
  <2>2. CASE world[q] = "nxdomain"
    BY <1>1, <2>1, <2>2, Put DEF CacheTrue, KeyOf, Keys
  <2>3. CASE world[q] # "nxdomain"
    BY <1>1, <2>1, <2>3, Put DEF CacheTrue, KeyOf, Keys
  <2> QED
    BY <2>2, <2>3
<1>2. CASE Noerror
  BY <1>1, <1>2, CurrentName DEF Noerror, Save, Result, Requesting, CacheTrue
<1>3. CASE NXDOMAIN
  BY <1>1, <1>3, CurrentName DEF NXDOMAIN, Save, Result, Requesting, CacheTrue
<1>4. CASE \E q \in Names : OtherPut(q)
  BY <1>1, <1>4 DEF OtherPut
<1>5. ASSUME NEW q \in Names, NEW key \in Keys, Forget(q, key)
      PROVE  CacheTrue'
  BY <1>5, Removal DEF Forget, CacheTrue, Keys
<1>6. CASE world' = world /\ cache' = cache
  BY <1>6 DEF CacheTrue
<1>7. ASSUME ~Noerror, ~NXDOMAIN, ~\E q \in Names : OtherPut(q),
             ~\E q \in Names, key \in Keys : Forget(q, key)
      PROVE  world' = world /\ cache' = cache
  <2>1. CASE \E list \in SearchLists, tcp, raise \in BOOLEAN : Resolve(list, tcp, raise)
    BY <2>1 DEF Resolve
  <2>2. CASE OutOfNames \/ Takes \/ RetryWithTCP \/ NextNameserver \/ NextRound
             \/ OutOfNameservers \/ ComputeTimeout
    BY <2>2 DEF OutOfNames, RetryWithTCP, NextNameserver, NextRound, Ask, OutOfNameservers,
                ComputeTimeout, Takes, CacheHit, CachedNXDOMAIN, NewRequest, NextName
  <2>3. CASE Broken \/ NoResponse \/ Servfail \/ Truncated \/ YXDOMAIN
    BY <2>3 DEF Broken, NoResponse, Servfail, Truncated, YXDOMAIN, Result, GoOn
  <2>4. CASE \E d \in 1 .. MaxSetBack : SetClockBack(d)
    BY <2>4 DEF SetClockBack
  <2>5. CASE UNCHANGED vars
    BY <2>5 DEF vars
  <2> QED
    BY <1>7, <2>1, <2>2, <2>3, <2>4, <2>5 DEF Next, Progress, Takes
<1> QED
  BY <1>2, <1>3, <1>4, <1>5, <1>6, <1>7

\* What is known of the names before the current one stays known.
LEMMA KnownStep ==
    ASSUME TypeOK, Truth, [Next]_vars
    PROVE  Known'
<1> USE DEF Truth
<1>1. ASSUME NEW list \in SearchLists, NEW tcp \in BOOLEAN, NEW raise \in BOOLEAN,
             Resolve(list, tcp, raise)
      PROVE  Known'
  <2>1. call'.names = list /\ qnames' = list /\ Len(list) \in Nat /\ pc' = "next_request"
    BY <1>1, ResolutionAssumption DEF Resolve
  <2>2. Asked' = 0
    BY <2>1 DEF Asked
  <2> QED
    BY <2>1, <2>2 DEF Known, Requesting
<1>2. CASE Takes
  <2>1. NextName /\ pc = "next_request" /\ \A i \in 1 .. Asked : Gone(i)
    BY <1>2 DEF Takes, CacheHit, CachedNXDOMAIN, NewRequest, NextName, Known
  <2>2. /\ call' = call /\ world' = world /\ Asked' = Asked + 1 /\ Asked \in Nat
        /\ qname' = call.names[Asked'] /\ qname' \in Names
    BY <2>1, NextNameTakesOne
  <2>3. CASE CacheHit
    BY <2>3 DEF CacheHit, Answered, End, Known, Requesting
  <2>4. CASE CachedNXDOMAIN
    <3>1. PICK q \in Names : q = qname'
      BY <2>2
    <3>2. world[q] = "nxdomain"
      BY <2>4, <3>1, CacheSaysTruth, ResolutionAssumption DEF CachedNXDOMAIN, Facts
    <3>3. pc' = "next_request" /\ nxdomain_responses' = nxdomain_responses \cup {q}
      BY <2>1, <2>4, <3>1 DEF CachedNXDOMAIN
    <3>4. \A i \in 1 .. Asked' : i \in 1 .. Asked \/ i = Asked'
      BY <2>2
    <3>5. \A i \in 1 .. Asked' : Gone(i)'
      BY <2>1, <2>2, <3>1, <3>2, <3>3, <3>4 DEF Gone
    <3> QED
      BY <3>3, <3>5 DEF Known, Requesting
  <2>5. CASE NewRequest
    <3>1. pc' = "next_nameserver" /\ nxdomain_responses' = nxdomain_responses
      BY <2>5 DEF NewRequest
    <3>2. \A i \in 1 .. Asked' - 1 : Gone(i)'
      BY <2>1, <2>2, <3>1 DEF Gone
    <3> QED
      BY <2>2, <3>1, <3>2 DEF Known, Requesting
  <2> QED
    BY <1>2, <2>3, <2>4, <2>5 DEF Takes
<1>3. CASE NXDOMAIN
  <2>1. /\ pc \in Requesting /\ world[qname] = "nxdomain" /\ pc' = "next_request"
        /\ nxdomain_responses' = nxdomain_responses \cup {qname}
        /\ call' = call /\ qnames' = qnames /\ world' = world
    BY <1>3 DEF NXDOMAIN, Result, Requesting
  <2>2. /\ Asked' = Asked /\ Asked \in 1 .. Len(call.names) /\ Len(call.names) \in Nat
        /\ qname = call.names[Asked] /\ \A i \in 1 .. Asked - 1 : Gone(i)
    BY <2>1, CurrentName, Lists DEF Asked, Known
  <2>3. \A i \in 1 .. Asked : i \in 1 .. Asked - 1 \/ i = Asked
    BY <2>2
  <2>4. \A i \in 1 .. Asked : Gone(i)'
    BY <2>1, <2>2, <2>3 DEF Gone
  <2> QED
    BY <2>1, <2>2, <2>4 DEF Known, Requesting
<1>4. ASSUME ~\E list \in SearchLists, tcp, raise \in BOOLEAN : Resolve(list, tcp, raise),
             ~Takes, ~NXDOMAIN
      PROVE  /\ call' = call /\ qnames' = qnames /\ qname' = qname /\ world' = world
             /\ nxdomain_responses' = nxdomain_responses
             /\ pc' = pc \/ pc' = "idle" \/ (pc \in Requesting /\ pc' \in Requesting)
  <2> USE DEF names, Requesting
  <2>1. CASE OutOfNames \/ RetryWithTCP \/ NextNameserver \/ NextRound
             \/ OutOfNameservers \/ ComputeTimeout
    BY <2>1 DEF OutOfNames, RetryWithTCP, NextNameserver, NextRound, Ask, OutOfNameservers,
                ComputeTimeout, End
  <2>2. CASE Broken \/ NoResponse \/ Servfail \/ Truncated \/ Noerror \/ YXDOMAIN
    BY <2>2 DEF Broken, NoResponse, Servfail, Truncated, Noerror, YXDOMAIN, Result, GoOn,
                Answered, End
  <2>3. CASE \E q \in Names : OtherPut(q) \/ \E key \in Keys : Forget(q, key)
    BY <2>3 DEF OtherPut, Forget
  <2>4. CASE \E d \in 1 .. MaxSetBack : SetClockBack(d)
    BY <2>4 DEF SetClockBack
  <2>5. CASE UNCHANGED vars
    BY <2>5 DEF vars
  <2> QED
    BY <1>4, <2>1, <2>2, <2>3, <2>4, <2>5 DEF Next, Progress, Takes
<1>5. ASSUME call' = call /\ qnames' = qnames /\ qname' = qname /\ world' = world,
             nxdomain_responses' = nxdomain_responses,
             pc' = pc \/ pc' = "idle" \/ (pc \in Requesting /\ pc' \in Requesting)
      PROVE  Known'
  BY <1>5 DEF Known, Gone, Asked, Requesting
<1> QED
  BY <1>1, <1>2, <1>3, <1>4, <1>5

\* A true answer of the current name makes a true outcome.
LEMMA AnsweredIsTrue ==
    ASSUME TypeOK, call' = call, world' = world,
           NEW q \in Names, q = qname', world[q] \in {"answer", "nodata"},
           Answered(world[q]),
           Asked' \in 1 .. Len(call.names), qname' = call.names[Asked'],
           \A i \in 1 .. Asked' - 1 : world[call.names[i]] = "nxdomain"
    PROVE  OutcomeIsTrue'
<1>1. call.raise_on_no_answer \in BOOLEAN
  BY DEF TypeOK
<1>2. outcome' = IF world[q] = "nodata" /\ call.raise_on_no_answer THEN "NoAnswer" ELSE "Answer"
  BY DEF Answered, End
<1> QED
  BY <1>1, <1>2 DEF OutcomeIsTrue, Asked

\* A call ends with a true outcome, which stays true until the next call.
LEMMA OutcomeStep ==
    ASSUME TypeOK, Earned, Truth, [Next]_vars
    PROVE  OutcomeIsTrue'
<1> USE DEF Truth
<1>1. CASE \E list \in SearchLists, tcp, raise \in BOOLEAN : Resolve(list, tcp, raise)
  <2>1. outcome' = "none"
    BY <1>1 DEF Resolve
  <2> QED
    BY <2>1 DEF OutcomeIsTrue
<1>2. CASE OutOfNames
  <2>1. /\ outcome' = "NXDOMAIN" /\ qnames = <<>> /\ \A i \in 1 .. Asked : Gone(i)
        /\ call' = call /\ world' = world /\ nxdomain_responses' = nxdomain_responses
    BY <1>2 DEF OutOfNames, End, Known, names
  <2>2. Asked = Len(call.names) /\ DOMAIN call.names = 1 .. Len(call.names)
    BY <2>1, Lists DEF Asked
  <2> QED
    BY <2>1, <2>2 DEF OutcomeIsTrue, Gone
<1>3. CASE CacheHit
  <2>1. NextName /\ pc = "next_request" /\ \A i \in 1 .. Asked : Gone(i)
    BY <1>3 DEF CacheHit, NextName, Known
  <2>2. /\ call' = call /\ world' = world /\ Asked' = Asked + 1 /\ Asked \in Nat
        /\ Asked' \in 1 .. Len(call.names)
        /\ qname' = call.names[Asked'] /\ qname' \in Names
    BY <2>1, NextNameTakesOne
  <2>3. PICK q \in Names : q = qname'
    BY <2>2
  <2>4. CacheSays(q) \in {"answer", "nodata"} /\ Answered(CacheSays(q))
    BY <1>3, <2>3 DEF CacheHit
  <2>5. world[q] = CacheSays(q)
    BY <2>4, CacheSaysTruth, ResolutionAssumption DEF Facts
  <2>6. \A i \in 1 .. Asked' - 1 : world[call.names[i]] = "nxdomain"
    BY <2>1, <2>2 DEF Gone
  <2> QED
    BY <2>2, <2>3, <2>4, <2>5, <2>6, AnsweredIsTrue
<1>4. CASE Noerror
  <2>1. /\ call' = call /\ world' = world /\ qname' = qname /\ qnames' = qnames
        /\ pc \in Requesting /\ world[qname] \in {"answer", "nodata"} /\ Answered(world[qname])
    BY <1>4 DEF Noerror, Result, Requesting
  <2>2. /\ Asked' = Asked /\ Asked \in 1 .. Len(call.names) /\ qname = call.names[Asked]
        /\ qname \in Names /\ \A i \in 1 .. Asked - 1 : Gone(i)
    BY <2>1, CurrentName DEF Asked, Known
  <2>3. PICK q \in Names : q = qname
    BY <2>2
  <2>4. \A i \in 1 .. Asked' - 1 : world[call.names[i]] = "nxdomain"
    BY <2>2 DEF Gone
  <2> QED
    BY <2>1, <2>2, <2>3, <2>4, AnsweredIsTrue
<1>5. CASE OutOfNameservers \/ ComputeTimeout \/ YXDOMAIN
  <2>1. outcome' \in {"none", "NoNameservers", "LifetimeTimeout", "YXDOMAIN"}
    BY <1>5 DEF OutOfNameservers, ComputeTimeout, YXDOMAIN, End, Earned
  <2> QED
    BY <2>1 DEF OutcomeIsTrue
<1>6. CASE CachedNXDOMAIN \/ NewRequest \/ RetryWithTCP \/ NextNameserver \/ NextRound
           \/ Broken \/ NoResponse \/ Servfail \/ Truncated \/ NXDOMAIN
  <2>1. outcome' = "none"
    BY <1>6 DEF CachedNXDOMAIN, NewRequest, NextName, RetryWithTCP, NextNameserver, NextRound,
                Ask, Broken, NoResponse, Servfail, Truncated, NXDOMAIN, Result, GoOn, Earned
  <2> QED
    BY <2>1 DEF OutcomeIsTrue
<1>7. CASE \/ \E q \in Names : OtherPut(q) \/ \E key \in Keys : Forget(q, key)
           \/ \E d \in 1 .. MaxSetBack : SetClockBack(d)
           \/ UNCHANGED vars
  <2>1. /\ call' = call /\ world' = world /\ qname' = qname /\ qnames' = qnames
        /\ outcome' = outcome /\ nxdomain_responses' = nxdomain_responses
    BY <1>7 DEF OtherPut, Forget, SetClockBack, vars, names
  <2> QED
    BY <2>1 DEF OutcomeIsTrue
<1> QED
  BY <1>1, <1>2, <1>3, <1>4, <1>5, <1>6, <1>7 DEF Next, Progress

-----------------------------------------------------------------------------
(* Theorems                                                                *)

LEMMA IInvInit == Init => IInv
<1> SUFFICES ASSUME Init PROVE IInv
  OBVIOUS
<1> USE ResolutionAssumption
<1>1. TypeOK
  <2>1. /\ call \in [names : SearchLists \cup {<<>>}, tcp : BOOLEAN, raise_on_no_answer : BOOLEAN]
        /\ qnames \in Seq(Names) /\ qname \in Names \cup {None}
    BY DEF Init
  <2>2. cache \in [Names -> [Keys -> Facts \cup {None}]] /\ world \in [Names -> Facts]
    BY DEF Init
  <2>3. set_back \in 0 .. MaxSetBack /\ backoff \in 0 .. LastBackoff /\ timeout \in 0 .. Timeout
    BY DEF Init
  <2>4. /\ nxdomain_responses \subseteq Names /\ nameservers \subseteq Nameservers
        /\ errors \subseteq Nameservers /\ current_nameservers \subseteq Nameservers
        /\ nameserver \in Nameservers \cup {None} /\ order \in Orders
    BY DEF Init
  <2>5. pc \in Labels /\ outcome \in Outcomes
    BY ZenonT(20) DEF Init, Labels, Outcomes
  <2>6. elapsed \in Int /\ tcp_attempt = FALSE /\ retry_with_tcp = FALSE
    BY DEF Init
  <2> QED
    BY <2>1, <2>2, <2>3, <2>4, <2>5, <2>6 DEF TypeOK
<1>2. Mix /\ Earned /\ Clock
  BY DEF Init, Mix, Earned, Clock, Requesting
<1>3. Rest /\ CacheTrue /\ Known
  BY DEF Init, Rest, CacheTrue, Known, Asked, Keys, Requesting
<1>4. OutcomeIsTrue
  BY DEF Init, OutcomeIsTrue
<1> QED
  BY <1>1, <1>2, <1>3, <1>4 DEF IInv, Truth

LEMMA IInvStep == IInv /\ [Next]_vars => IInv'
<1> SUFFICES ASSUME IInv, [Next]_vars PROVE IInv'
  OBVIOUS
<1>1. TypeOK /\ Mix /\ Earned /\ Clock /\ Truth /\ Rest
  BY DEF IInv, Truth
<1>2. TypeOK' /\ Mix' /\ Earned' /\ Clock'
  BY <1>1, TypeStep, MixStep, EarnedStep, ClockStep
<1>3. Rest' /\ CacheTrue' /\ Known' /\ OutcomeIsTrue'
  BY <1>1, RestStep, CacheTrueStep, KnownStep, OutcomeStep
<1> QED
  BY <1>2, <1>3 DEF IInv, Truth

LEMMA SpecIInv == Spec => []IInv
  BY IInvInit, IInvStep, PTL DEF Spec

\* Type correctness, whatever the nameservers, the caches and the clock do.
THEOREM TypeCorrect == Spec => []TypeOK
<1>1. IInv => TypeOK
  BY DEF IInv
<1> QED
  BY <1>1, SpecIInv, PTL

\* For any nameservers, remove() finds what it removes and the assertions
\* about retries hold.
THEOREM AskedAreInTheMixHolds == Spec => []AskedAreInTheMix
<1>1. IInv => AskedAreInTheMix
  BY DEF IInv, Mix, AskedAreInTheMix
<1> QED
  BY <1>1, SpecIInv, PTL

\* For any search list, cache and nameservers, what resolve() returns or
\* raises about the names is true of them.
THEOREM OutcomeIsTrueHolds == Spec => []OutcomeIsTrue
<1>1. IInv => OutcomeIsTrue
  BY DEF IInv, Truth
<1> QED
  BY <1>1, SpecIInv, PTL

\* For any nameservers, none leaves the mix twice, and NoNameservers is raised
\* with an error for each.
THEOREM NoNameserversIsEarnedHolds == Spec => []NoNameserversIsEarned
<1>1. IInv => NoNameserversIsEarned
  BY DEF IInv, Mix, Earned, AskedAreInTheMix, NoNameserversIsEarned
<1> QED
  BY <1>1, SpecIInv, PTL

\* For any lifetime, timeout and backoff, queries have a timeout that fits
\* and resolve() exceeds the lifetime by one pause at most.
THEOREM InTimeHolds == Spec => []InTime
<1>1. IInv => InTime
  BY DEF IInv, Clock, InTime
<1> QED
  BY <1>1, SpecIInv, PTL
-----------------------------------------------------------------------------
(* Chains of aliases                                                       *)

Times(aliases) == {aliases[i].ttl : i \in DOMAIN aliases}

ChainTypes ==
    /\ response \in [qr : BOOLEAN, nxdomain : BOOLEAN, question : Questions]
    /\ sections \in [SectionNames -> Seq(RRs)]
    /\ stage \in {"idle", "following", "followed", "negative"}
    /\ stage # "idle" => /\ target \in Domains /\ min_ttl \in Nat
                         /\ answer \in Seq(RRs) /\ cnames \in Seq(RRs)

\* What there is where the aliases end.
AtEnd ==
    /\ Has("answer", target, Question.type) =>
          answer = <<Found("answer", target, Question.type)>>
    /\ ~Has("answer", target, Question.type) =>
          answer = <<>> /\ (Question.type = "CNAME" \/ ~Has("answer", target, "CNAME"))

\* No SOA record is at the name or above it, below the one to be looked at.
Climbed ==
    \E k \in 0 .. Len(target) :
        /\ auname = Superdomain(target, k)
        /\ \A j \in 0 .. k - 1 : ~Has("authority", Superdomain(target, j), "SOA")

\* The aliases so far lead from the question to the target, and the time is the
\* least of theirs and the answer's.
Walked ==
    stage # "idle" =>
        /\ response.qr /\ Len(response.question) = 1
        /\ Len(cnames) <= MAX_CHAIN /\ IsChain(cnames)
        /\ target = Reached(cnames, Len(cnames))
        /\ IsLeast(min_ttl, {MAX_TTL} \cup Times(cnames) \cup Times(answer))
        /\ stage = "following" => answer = <<>>
        /\ stage \in {"followed", "negative"} => Len(cnames) < MAX_CHAIN /\ AtEnd
        /\ stage = "negative" => answer = <<>> /\ Climbed

ChainInv == ChainTypes /\ Walked /\ ChainIsFollowed

LEMMA GreatestExists ==
    ASSUME NEW n \in Nat, NEW I \in SUBSET (1 .. n), I # {}
    PROVE  \E i \in I : \A j \in I : j <= i
<1> DEFINE S == {n - i : i \in I}
<1>1. S \in SUBSET Nat /\ S # {}
  <2>1. \A i \in I : n - i \in Nat
    OBVIOUS
  <2> QED
    BY <2>1
<1>2. PICK u \in S : \A v \in S : ~(<<v, u>> \in OpToRel(<, Nat))
  BY <1>1, NatLessThanWellFounded, WFMin
<1>3. PICK i \in I : u = n - i
  BY <1>2
<1>4. ASSUME NEW j \in I PROVE j <= i
  <2>1. n - j \in S /\ n - j \in Nat /\ u \in Nat
    BY <1>1, <1>2
  <2>2. ~(n - j < u)
    BY <1>2, <2>1 DEF OpToRel
  <2> QED
    BY <1>3, <2>1, <2>2
<1> QED
  BY <1>4

\* The record found is one of the section's, of the name and type.
LEMMA FoundIsThere ==
    ASSUME NEW section \in Seq(RRs), NEW name, NEW class, NEW type,
           At(section, name, class, type) # {}
    PROVE  LastOf(At(section, name, class, type)) \in DOMAIN section
<1> DEFINE I == At(section, name, class, type)
<1>1. PICK n \in Nat : n = Len(section)
  OBVIOUS
<1>2. I \in SUBSET (1 .. n) /\ I # {}
  BY <1>1 DEF At
<1>3. \E i \in I : \A j \in I : j <= i
  BY <1>1, <1>2, GreatestExists
<1>4. LastOf(I) \in I
  BY <1>3 DEF LastOf
<1> QED
  BY <1>4 DEF At

LEMMA FoundIsRecord ==
    ASSUME ChainTypes, NEW s \in SectionNames, NEW name, NEW type, Has(s, name, type)
    PROVE  /\ Found(s, name, type) \in RRs
           /\ Found(s, name, type) \in {sections[s][i] : i \in DOMAIN sections[s]}
           /\ Found(s, name, type).ttl \in Nat /\ Found(s, name, type).minimum \in Nat
           /\ Found(s, name, type).ttl <= MAX_TTL
           /\ Found(s, name, type).target \in Domains
<1>1. sections[s] \in Seq(RRs)
  BY DEF ChainTypes
<1>2. LastOf(At(sections[s], name, Question.rdclass, type)) \in DOMAIN sections[s]
  BY <1>1, FoundIsThere DEF Has
<1>3. /\ Found(s, name, type) \in RRs
      /\ Found(s, name, type) \in {sections[s][i] : i \in DOMAIN sections[s]}
  BY <1>1, <1>2 DEF Found
<1> QED
  BY <1>3, ChainingAssumption DEF RRs

LEMMA LeastWith ==
    ASSUME NEW S \in SUBSET Nat, NEW x, IsLeast(x, S), NEW y \in Nat
    PROVE  IsLeast(Sooner(x, y), S \cup {y})
BY DEF IsLeast, Sooner

LEMMA SoonerIsNat ==
    ASSUME NEW x \in Nat, NEW y \in Nat PROVE Sooner(x, y) \in Nat
BY DEF Sooner

\* The times of a chain are natural numbers.
LEMMA TimesAreNat ==
    ASSUME NEW aliases \in Seq(RRs) PROVE Times(aliases) \in SUBSET Nat
<1>1. ASSUME NEW i \in DOMAIN aliases PROVE aliases[i].ttl \in Nat
  <2>1. aliases[i] \in RRs
    OBVIOUS
  <2> QED
    BY <2>1, ChainingAssumption DEF RRs
<1> QED
  BY <1>1 DEF Times

\* A chain grows by the alias of the name where it leads.
LEMMA LongerChain ==
    ASSUME ChainTypes, NEW aliases \in Seq(RRs), IsChain(aliases), NEW rr \in RRs,
           NEW name, name = Reached(aliases, Len(aliases)),
           Question.type # "CNAME", ~Has("answer", name, Question.type),
           Has("answer", name, "CNAME"), rr = Found("answer", name, "CNAME")
    PROVE  /\ Append(aliases, rr) \in Seq(RRs) /\ Len(Append(aliases, rr)) = Len(aliases) + 1
           /\ IsChain(Append(aliases, rr))
           /\ rr.target = Reached(Append(aliases, rr), Len(aliases) + 1)
           /\ Times(Append(aliases, rr)) = Times(aliases) \cup {rr.ttl}
<1> DEFINE longer == Append(aliases, rr)
<1>1. PICK n \in Nat : n = Len(aliases)
  OBVIOUS
<1>2. /\ longer \in Seq(RRs) /\ Len(longer) = n + 1 /\ DOMAIN longer = 1 .. n + 1
      /\ DOMAIN aliases = 1 .. n
  BY <1>1
<1>3. longer[n + 1] = rr /\ \A i \in 1 .. n : longer[i] = aliases[i]
  BY <1>1
<1> HIDE DEF longer
<1>4. \A i \in 0 .. n : Reached(longer, i) = Reached(aliases, i)
  BY <1>3 DEF Reached
<1>5. ASSUME NEW i \in 1 .. n + 1
      PROVE  /\ ~Has("answer", Reached(longer, i - 1), Question.type)
             /\ Has("answer", Reached(longer, i - 1), "CNAME")
             /\ longer[i] = Found("answer", Reached(longer, i - 1), "CNAME")
  <2>1. Reached(longer, i - 1) = Reached(aliases, i - 1)
    BY <1>4
  <2>2. CASE i = n + 1
    <3>1. Reached(longer, i - 1) = name
      BY <1>1, <2>1, <2>2
    <3> QED
      BY <1>3, <2>2, <3>1
  <2>3. CASE i \in 1 .. n
    <3>1. longer[i] = aliases[i]
      BY <1>3, <2>3
    <3>2. i \in DOMAIN aliases
      BY <1>2, <2>3
    <3> QED
      BY <2>1, <3>1, <3>2 DEF IsChain
  <2> QED
    BY <2>2, <2>3
<1>6. IsChain(longer)
  BY <1>2, <1>5 DEF IsChain
<1>7. rr.target = Reached(longer, n + 1)
  BY <1>3 DEF Reached
<1>8. Times(longer) = Times(aliases) \cup {rr.ttl}
  <2>1. \A i \in 1 .. n + 1 : i \in 1 .. n \/ i = n + 1
    OBVIOUS
  <2> QED
    BY <1>2, <1>3, <2>1 DEF Times
<1> QED
  BY <1>1, <1>2, <1>6, <1>7, <1>8 DEF longer

\* As many aliases make one of the chains.
LEMMA IsOneOfTheChains ==
    ASSUME ChainTypes, NEW aliases \in Seq(RRs), IsChain(aliases), NEW n \in Nat, n = Len(aliases)
    PROVE  aliases \in Chains(n)
<1>1. ASSUME NEW i \in 1 .. n
      PROVE  aliases[i] \in {sections["answer"][j] : j \in DOMAIN sections["answer"]}
  <2>1. /\ Has("answer", Reached(aliases, i - 1), "CNAME")
        /\ aliases[i] = Found("answer", Reached(aliases, i - 1), "CNAME")
    BY DEF IsChain
  <2>2. "answer" \in SectionNames
    BY DEF SectionNames
  <2> QED
    BY <2>1, <2>2, FoundIsRecord
<1>2. aliases \in [1 .. n -> {sections["answer"][j] : j \in DOMAIN sections["answer"]}]
  BY <1>1
<1> QED
  BY <1>2 DEF Chains

-----------------------------------------------------------------------------
(* Steps of resolve_chaining()                                             *)

\* A record that is entered leaves every section a list of records.
LEMMA EnteredIsRecords ==
    ASSUME NEW section \in Seq(RRs), NEW rr \in RRs, NEW unique \in BOOLEAN
    PROVE  Entered(section, rr, unique) \in Seq(RRs)
<1> DEFINE I == At(section, rr.name, rr.rdclass, rr.type)
<1>1. CASE unique \/ I = {}
  BY <1>1 DEF Entered
<1>2. CASE ~(unique \/ I = {})
  <2>1. LastOf(I) \in DOMAIN section
    BY <1>2, FoundIsThere
  <2>2. PICK i \in DOMAIN section : i = LastOf(I)
    BY <2>1
  <2>3. Added(rr, section[i]) \in RRs /\ Added(section[i], rr) \in RRs
    <3>1. section[i] \in RRs
      BY <2>2
    <3> QED
      BY <3>1 DEF Added, Sooner, RRs
  <2>4. Entered(section, rr, unique) = [section EXCEPT ![i] = Added(section[i], rr)]
    BY <1>2, <2>2 DEF Entered
  <2> QED
    BY <2>3, <2>4
<1> QED
  BY <1>1, <1>2

LEMMA ChainTypesStep ==
    ASSUME ChainTypes, [ChainingNext]_chainingVars
    PROVE  ChainTypes'
<1> USE ChainingAssumption DEF ChainTypes
<1>1. ASSUME NEW r \in Additions, NEW unique \in BOOLEAN, Enter(r, unique) PROVE ChainTypes'
  <2>1. sections[r.section] \in Seq(RRs) /\ r.rr \in RRs
    OBVIOUS
  <2>2. Entered(sections[r.section], r.rr, unique) \in Seq(RRs)
    BY <2>1, EnteredIsRecords
  <2>3. sections' = [sections EXCEPT ![r.section] = Entered(sections[r.section], r.rr, unique)]
    BY <1>1 DEF Enter
  <2>4. sections' \in [SectionNames -> Seq(RRs)]
    BY <2>2, <2>3
  <2> QED
    BY <1>1, <2>4 DEF Enter
<1>2. CASE Refuse
  BY <1>2 DEF Refuse, Raise
<1>3. CASE Call
  <2>1. Question.name \in Domains
    <3>1. response.question \in Seq([name : Domains, rdclass : Classes, type : Types])
      OBVIOUS
    <3>2. Len(response.question) = 1
      BY <1>3 DEF Call
    <3>3. Question \in [name : Domains, rdclass : Classes, type : Types]
      <4> DEFINE S == [name : Domains, rdclass : Classes, type : Types]
      <4>1. response.question \in Seq(S)
        BY <3>1
      <4> HIDE DEF S
      <4>2. response.question[1] \in S
        BY <3>2, <4>1
      <4> QED
        BY <4>2 DEF S, Question
    <3> QED
      BY <3>3
  <2> QED
    BY <1>3, <2>1 DEF Call
<1>4. CASE FollowToAnswer
  <2>1. "answer" \in SectionNames
    BY DEF SectionNames
  <2>2. /\ Found("answer", target, Question.type) \in RRs
        /\ Found("answer", target, Question.type).ttl \in Nat
    BY <1>4, <2>1, FoundIsRecord DEF FollowToAnswer
  <2>3. min_ttl' \in Nat
    BY <1>4, <2>2, SoonerIsNat DEF FollowToAnswer, Following
  <2> QED
    BY <1>4, <2>2, <2>3 DEF FollowToAnswer, Following
<1>5. CASE FollowAlias
  <2> DEFINE crrset == Found("answer", target, "CNAME")
  <2>1. "answer" \in SectionNames
    BY DEF SectionNames
  <2>2. crrset \in RRs /\ crrset.ttl \in Nat /\ crrset.target \in Domains
    BY <1>5, <2>1, FoundIsRecord DEF FollowAlias
  <2>3. cnames' = Append(cnames, crrset) /\ target' = crrset.target /\ min_ttl' = Sooner(min_ttl, crrset.ttl)
    BY <1>5 DEF FollowAlias
  <2> HIDE DEF crrset
  <2>4. min_ttl' \in Nat
    <3>1. min_ttl \in Nat
      BY <1>5 DEF FollowAlias, Following
    <3> QED
      BY <2>2, <2>3, <3>1, SoonerIsNat
  <2> QED
    BY <1>5, <2>2, <2>3, <2>4 DEF FollowAlias, Following
<1>6. CASE FollowToEnd
  BY <1>6 DEF FollowToEnd, Following
<1>7. CASE ChainTooLong \/ AnswerForNXDOMAIN
  BY <1>7 DEF ChainTooLong, AnswerForNXDOMAIN, Raise
<1>8. CASE ReturnAnswer \/ ReadSOA \/ NoParent
  BY <1>8 DEF ReturnAnswer, ReadSOA, NoParent, Return
<1>9. CASE LookForSOA
  BY <1>9 DEF LookForSOA
<1>10. CASE GoUp
  BY <1>10 DEF GoUp
<1>11. CASE UNCHANGED chainingVars
  BY <1>11 DEF chainingVars
<1> QED
  BY <1>1, <1>2, <1>3, <1>4, <1>5, <1>6, <1>7, <1>8, <1>9, <1>10, <1>11 DEF ChainingNext

\* While response and sections stay, so does what is found in them.
LEMMA FoundStays ==
    ASSUME UNCHANGED <<response, sections>>
    PROVE  /\ Question' = Question
           /\ \A s, name, type : /\ Has(s, name, type)' <=> Has(s, name, type)
                                 /\ Found(s, name, type)' = Found(s, name, type)
           /\ \A aliases, i : Reached(aliases, i)' = Reached(aliases, i)
           /\ \A aliases : IsChain(aliases)' <=> IsChain(aliases)
           /\ \A n : Chains(n)' = Chains(n)
           /\ \A n : SoaTimes(n)' = SoaTimes(n)
           /\ \A r : IsOutcome(r)' <=> IsOutcome(r)
           /\ IsContradicted' <=> IsContradicted
<1>1. Question' = Question
  BY DEF Question
<1>2. \A s, name, type : /\ Has(s, name, type)' <=> Has(s, name, type)
                        /\ Found(s, name, type)' = Found(s, name, type)
  BY <1>1 DEF Has, Found
<1>3. \A aliases, i : Reached(aliases, i)' = Reached(aliases, i)
  BY <1>1 DEF Reached
<1>4. \A aliases : IsChain(aliases)' <=> IsChain(aliases)
  BY <1>1, <1>2, <1>3 DEF IsChain
<1>5. \A n : Chains(n)' = Chains(n)
  BY <1>4 DEF Chains
<1>6. \A n : SoaTimes(n)' = SoaTimes(n)
  BY <1>1, <1>2 DEF SoaTimes
<1>7. \A r : IsOutcome(r)' <=> IsOutcome(r)
  BY <1>1, <1>2, <1>3, <1>4, <1>6 DEF IsOutcome, IsLeast
<1>8. IsContradicted' <=> IsContradicted
  BY <1>1, <1>2, <1>3, <1>5 DEF IsContradicted
<1> QED
  BY <1>1, <1>2, <1>3, <1>4, <1>5, <1>6, <1>7, <1>8

\* Each step keeps what is known of the walk.
LEMMA WalkedStep ==
    ASSUME ChainTypes, ChainTypes', Walked, [ChainingNext]_chainingVars
    PROVE  Walked'
<1>1. ASSUME NEW r \in Additions, NEW unique \in BOOLEAN, Enter(r, unique) PROVE Walked'
  BY <1>1 DEF Walked, Enter
<1>2. CASE Refuse
  BY <1>2 DEF Walked, Refuse, Raise
<1>3. CASE Call
  <2>1. Question' = Question /\ IsChain(<<>>)' /\ Reached(<<>>, 0)' = Question.name
    BY <1>3 DEF Call, Question, IsChain, Reached
  <2>2. IsLeast(MAX_TTL, {MAX_TTL} \cup Times(<<>>) \cup Times(<<>>))
    BY ChainingAssumption DEF IsLeast, Times
  <2>3. cnames' = <<>> /\ target' = Question.name /\ answer' = <<>> /\ min_ttl' = MAX_TTL
        /\ stage' = "following" /\ response'.qr /\ Len(response'.question) = 1
    BY <1>3 DEF Call
  <2>4. IsChain(cnames)' /\ target' = Reached(cnames, Len(cnames))' /\ Len(cnames') <= MAX_CHAIN
    BY <2>1, <2>3, ChainingAssumption
  <2>5. IsLeast(min_ttl, {MAX_TTL} \cup Times(cnames) \cup Times(answer))'
    BY <2>2, <2>3 DEF IsLeast, Times
  <2> QED
    BY <2>3, <2>4, <2>5 DEF Walked
<1>4. CASE FollowToAnswer
  <2> DEFINE found == Found("answer", target, Question.type)
  <2>1. /\ stage' = "followed" /\ stage = "following"
        /\ Len(cnames) < MAX_CHAIN /\ Has("answer", target, Question.type)
        /\ UNCHANGED <<response, sections, target, cnames>>
        /\ answer' = <<found>> /\ min_ttl' = Sooner(min_ttl, found.ttl)
    BY <1>4 DEF FollowToAnswer, Following
  <2>2. found.ttl \in Nat
    BY <2>1, FoundIsRecord DEF SectionNames
  <2>3. IsLeast(min_ttl', {MAX_TTL} \cup Times(cnames) \cup {found.ttl})
    <3>1. answer = <<>> /\ IsLeast(min_ttl, {MAX_TTL} \cup Times(cnames) \cup Times(<<>>))
      BY <2>1 DEF Walked
    <3>2. {MAX_TTL} \cup Times(cnames) \cup Times(<<>>) = {MAX_TTL} \cup Times(cnames)
      BY DEF Times
    <3>3. {MAX_TTL} \cup Times(cnames) \in SUBSET Nat
      BY <2>1, TimesAreNat, ChainingAssumption DEF ChainTypes
    <3> QED
      BY <2>1, <2>2, <3>1, <3>2, <3>3, LeastWith
  <2>4. Times(answer)' = {found.ttl}
    BY <2>1 DEF Times
  <2>5. AtEnd'
    BY <2>1, FoundStays DEF AtEnd
  <2>6. IsLeast(min_ttl, {MAX_TTL} \cup Times(cnames) \cup Times(answer))'
    BY <2>1, <2>3, <2>4 DEF IsLeast, Times
  <2>7. IsChain(cnames)' /\ target' = Reached(cnames, Len(cnames))' /\ response'.qr /\ Len(response'.question) = 1
    BY <2>1, FoundStays DEF Walked
  <2>8. Len(cnames') <= MAX_CHAIN /\ Len(cnames') < MAX_CHAIN
    BY <2>1 DEF Walked
  <2> QED
    BY <2>1, <2>5, <2>6, <2>7, <2>8 DEF Walked
<1>5. CASE FollowAlias
  <2> DEFINE crrset == Found("answer", target, "CNAME")
  <2>1. /\ stage' = stage /\ stage = "following"
        /\ Len(cnames) < MAX_CHAIN /\ UNCHANGED <<response, sections, answer>>
        /\ cnames' = Append(cnames, crrset) /\ target' = crrset.target
        /\ min_ttl' = Sooner(min_ttl, crrset.ttl)
        /\ Question.type # "CNAME" /\ ~Has("answer", target, Question.type)
        /\ Has("answer", target, "CNAME")
    BY <1>5 DEF FollowAlias, Following
  <2>2. crrset \in RRs /\ crrset.ttl \in Nat
    BY <2>1, FoundIsRecord DEF SectionNames
  <2>3. /\ cnames \in Seq(RRs) /\ IsChain(cnames) /\ target = Reached(cnames, Len(cnames))
        /\ answer = <<>> /\ IsLeast(min_ttl, {MAX_TTL} \cup Times(cnames) \cup Times(answer))
        /\ response.qr /\ Len(response.question) = 1
    BY <2>1 DEF Walked, ChainTypes
  <2>4. /\ Len(cnames') = Len(cnames) + 1 /\ IsChain(cnames')
        /\ target' = Reached(cnames', Len(cnames) + 1)
        /\ Times(cnames') = Times(cnames) \cup {crrset.ttl}
    BY <2>1, <2>2, <2>3, LongerChain
  <2>5. IsLeast(min_ttl', ({MAX_TTL} \cup Times(cnames) \cup Times(answer)) \cup {crrset.ttl})
    <3>1. {MAX_TTL} \cup Times(cnames) \cup Times(answer) \in SUBSET Nat
      BY <2>1, TimesAreNat, ChainingAssumption DEF ChainTypes
    <3> QED
      BY <2>1, <2>2, <2>3, <3>1, LeastWith
  <2>6. {MAX_TTL} \cup Times(cnames') \cup Times(answer')
          = ({MAX_TTL} \cup Times(cnames) \cup Times(answer)) \cup {crrset.ttl}
    BY <2>1, <2>4
  <2>7. IsLeast(min_ttl, {MAX_TTL} \cup Times(cnames) \cup Times(answer))'
    BY <2>5, <2>6 DEF IsLeast, Times
  <2>8. IsChain(cnames)' /\ target' = Reached(cnames, Len(cnames))'
    BY <2>1, <2>4, FoundStays DEF IsChain, Reached, Question, Has, Found
  <2>9. Len(cnames') <= MAX_CHAIN
    <3>1. PICK n \in Nat : n = Len(cnames)
      BY <2>3
    <3> QED
      BY <2>1, <2>4, <3>1, ChainingAssumption
  <2> QED
    BY <2>1, <2>3, <2>7, <2>8, <2>9 DEF Walked
<1>6. CASE FollowToEnd
  <2>1. /\ stage' = "followed" /\ stage = "following" /\ Len(cnames) < MAX_CHAIN
        /\ ~Has("answer", target, Question.type)
        /\ Question.type = "CNAME" \/ ~Has("answer", target, "CNAME")
        /\ UNCHANGED <<response, sections, target, min_ttl, answer, cnames>>
    BY <1>6 DEF FollowToEnd, Following
  <2>2. answer' = <<>> /\ AtEnd'
    BY <2>1, FoundStays DEF Walked, AtEnd
  <2>3. IsLeast(min_ttl, {MAX_TTL} \cup Times(cnames) \cup Times(answer))'
    BY <2>1 DEF Walked, IsLeast, Times
  <2>4. IsChain(cnames)' /\ target' = Reached(cnames, Len(cnames))' /\ response'.qr /\ Len(response'.question) = 1
    BY <2>1, FoundStays DEF Walked
  <2> QED
    BY <2>1, <2>2, <2>3, <2>4 DEF Walked
<1>7. CASE ChainTooLong \/ AnswerForNXDOMAIN
  BY <1>7 DEF Walked, ChainTooLong, AnswerForNXDOMAIN, Raise
<1>8. CASE ReturnAnswer \/ ReadSOA \/ NoParent
  BY <1>8 DEF Walked, ReturnAnswer, ReadSOA, NoParent, Return
<1>9. CASE LookForSOA
  <2>1. /\ stage = "followed" /\ answer = <<>> /\ stage' = "negative" /\ auname' = target
        /\ UNCHANGED <<response, sections, target, min_ttl, answer, cnames>>
    BY <1>9 DEF LookForSOA
  <2>2. Walked /\ Len(cnames) < MAX_CHAIN /\ AtEnd /\ target \in Domains
    BY <2>1 DEF Walked, ChainTypes
  <2>3. Climbed'
    <3>1. Superdomain(target, 0) = target
      BY <2>2 DEF Superdomain, Domains
    <3>2. 0 \in 0 .. Len(target) /\ 0 .. 0 - 1 = {}
      BY <2>2 DEF Domains
    <3> QED
      BY <2>1, <3>1, <3>2 DEF Climbed, Superdomain
  <2>4. AtEnd'
    BY <2>1, <2>2, FoundStays DEF AtEnd
  <2>5. IsLeast(min_ttl, {MAX_TTL} \cup Times(cnames) \cup Times(answer))'
    BY <2>1 DEF Walked, IsLeast, Times
  <2>6. IsChain(cnames)' /\ target' = Reached(cnames, Len(cnames))' /\ response'.qr /\ Len(response'.question) = 1
    BY <2>1, FoundStays DEF Walked
  <2> QED
    BY <2>1, <2>2, <2>3, <2>4, <2>5, <2>6 DEF Walked
<1>10. CASE GoUp
  <2>1. /\ stage = "negative" /\ stage' = stage /\ auname # <<>> /\ auname' = Tail(auname)
        /\ ~Has("authority", auname, "SOA")
        /\ UNCHANGED <<response, sections, target, min_ttl, answer, cnames>>
    BY <1>10 DEF GoUp
  <2>2. Climbed /\ AtEnd /\ answer = <<>> /\ target \in Domains
    BY <2>1 DEF Walked, ChainTypes
  <2>3. Climbed'
    <3>1. PICK k \in 0 .. Len(target) :
            /\ auname = Superdomain(target, k)
            /\ \A j \in 0 .. k - 1 : ~Has("authority", Superdomain(target, j), "SOA")
      BY <2>2 DEF Climbed
    <3>2. PICK n \in Nat : n = Len(target)
      BY <2>2 DEF Domains
    <3>3. k < n
      BY <2>1, <2>2, <3>1, <3>2 DEF Superdomain, Domains
    <3>4. Tail(auname) = Superdomain(target, k + 1)
      BY <2>2, <3>1, <3>2, <3>3 DEF Superdomain, Domains
    <3>5. \A j \in 0 .. (k + 1) - 1 : ~Has("authority", Superdomain(target, j), "SOA")
      <4>1. \A j \in 0 .. (k + 1) - 1 : j \in 0 .. k - 1 \/ j = k
        BY <3>2
      <4> QED
        BY <2>1, <3>1, <4>1
    <3>6. k + 1 \in 0 .. Len(target)
      BY <3>2, <3>3
    <3>7. \A j \in 0 .. (k + 1) - 1 : ~Has("authority", Superdomain(target, j), "SOA")'
      BY <2>1, <3>5 DEF Has, Question
    <3>8. auname' = Superdomain(target', k + 1) /\ k + 1 \in 0 .. Len(target')
      BY <2>1, <3>4, <3>6
    <3> QED
      BY <2>1, <3>7, <3>8 DEF Climbed, Superdomain
  <2>4. AtEnd'
    BY <2>1, <2>2, FoundStays DEF AtEnd
  <2>5. IsLeast(min_ttl, {MAX_TTL} \cup Times(cnames) \cup Times(answer))'
    BY <2>1 DEF Walked, IsLeast, Times
  <2>6. /\ IsChain(cnames)' /\ target' = Reached(cnames, Len(cnames))'
        /\ response'.qr /\ Len(response'.question) = 1 /\ Len(cnames') < MAX_CHAIN /\ Len(cnames') <= MAX_CHAIN
    BY <2>1, FoundStays DEF Walked
  <2> QED
    BY <2>1, <2>2, <2>3, <2>4, <2>5, <2>6 DEF Walked
<1>11. CASE UNCHANGED chainingVars
  <2>1. UNCHANGED <<response, sections, stage, target, min_ttl, answer, cnames, auname>>
    BY <1>11 DEF chainingVars
  <2>2. (Climbed' <=> Climbed) /\ (AtEnd' <=> AtEnd)
    BY <2>1, FoundStays DEF Climbed, AtEnd, Superdomain
  <2>3. IsLeast(min_ttl, {MAX_TTL} \cup Times(cnames) \cup Times(answer))'
          <=> IsLeast(min_ttl, {MAX_TTL} \cup Times(cnames) \cup Times(answer))
    BY <2>1 DEF IsLeast, Times
  <2>4. /\ IsChain(cnames)' <=> IsChain(cnames)
        /\ Reached(cnames, Len(cnames))' = Reached(cnames, Len(cnames))
    BY <2>1, FoundStays
  <2> QED
    BY <2>1, <2>2, <2>3, <2>4 DEF Walked
<1> QED
  BY <1>1, <1>2, <1>3, <1>4, <1>5, <1>6, <1>7, <1>8, <1>9, <1>10, <1>11 DEF ChainingNext

\* The times of the SOA record above a name where it was found.
LEMMA SoaFound ==
    ASSUME ChainTypes, NEW n \in Domains, NEW k \in 0 .. Len(n),
           \A j \in 0 .. k - 1 : ~Has("authority", Superdomain(n, j), "SOA"),
           Has("authority", Superdomain(n, k), "SOA")
    PROVE  SoaTimes(n) = {Found("authority", Superdomain(n, k), "SOA").ttl,
                          Found("authority", Superdomain(n, k), "SOA").minimum}
<1> DEFINE F(i) == Found("authority", Superdomain(n, i), "SOA")
           H(i) == Has("authority", Superdomain(n, i), "SOA")
           K == {i \in 0 .. Len(n) : H(i) /\ \A j \in 0 .. i - 1 : ~H(j)}
<1>1. PICK l \in Nat : l = Len(n)
  BY DEF Domains
<1>2. K = {k}
  <2>1. k \in K
    OBVIOUS
  <2>2. ASSUME NEW i \in K PROVE i = k
    <3>1. i \in 0 .. l /\ k \in 0 .. l /\ H(i) /\ H(k)
      BY <1>1
    <3>2. ~(i \in 0 .. k - 1) /\ ~(k \in 0 .. i - 1)
      BY <3>1
    <3> HIDE DEF H
    <3> QED
      BY <3>1, <3>2
  <2> QED
    BY <2>1, <2>2
<1>3. SoaTimes(n) = UNION {{F(i).ttl, F(i).minimum} : i \in K}
  BY DEF SoaTimes
<1> HIDE DEF K, F
<1>4. SoaTimes(n) = {F(k).ttl, F(k).minimum}
  BY <1>2, <1>3
<1> QED
  BY <1>4 DEF F

\* There are none if the walk ends at the top.
LEMMA SoaNotFound ==
    ASSUME NEW n \in Domains,
           \A j \in 0 .. Len(n) : ~Has("authority", Superdomain(n, j), "SOA")
    PROVE  SoaTimes(n) = {}
BY DEF SoaTimes

\* What is left of ChainIsFollowed when a chain ends in a result.
LEMMA Returned ==
    ASSUME ChainTypes, Walked, stage \in {"followed", "negative"}, NEW ttl, NEW end,
           end = Reached(cnames, Len(cnames)), answer # <<>> => ~response.nxdomain,
           IsLeast(ttl, {MAX_TTL} \cup (Times(cnames) \cup IF answer = <<>> THEN SoaTimes(end) ELSE {answer[1].ttl})),
           Return(ttl)
    PROVE  ChainIsFollowed'
<1>1. UNCHANGED <<response, sections>> /\ response.qr /\ Len(response.question) = 1
  BY DEF Return, Walked
<1>2. /\ result'.error = "none" /\ result'.canonical_name = target /\ result'.answer = answer
      /\ result'.minimum_ttl = ttl /\ result'.cnames = cnames
  BY DEF Return
<1>3. /\ Len(cnames) < MAX_CHAIN /\ IsChain(cnames) /\ target = end
      /\ answer = IF Has("answer", end, Question.type) THEN <<Found("answer", end, Question.type)>> ELSE <<>>
      /\ answer = <<>> => Question.type = "CNAME" \/ ~Has("answer", end, "CNAME")
  <2>1. Len(cnames) < MAX_CHAIN /\ IsChain(cnames) /\ target = end /\ AtEnd
    BY DEF Walked
  <2>2. <<Found("answer", end, Question.type)>> # <<>>
    OBVIOUS
  <2> QED
    BY <2>1, <2>2 DEF AtEnd
<1>4. IsOutcome(result')
  <2>1. Times(cnames) = {cnames[i].ttl : i \in DOMAIN cnames}
    BY DEF Times
  <2> QED
    BY <1>2, <1>3, <2>1 DEF IsOutcome
<1>5. PICK r : r = result'
  OBVIOUS
<1>6. IsOutcome(r)'
  BY <1>1, <1>4, <1>5, FoundStays
<1> QED
  BY <1>2, <1>5, <1>6 DEF ChainIsFollowed

LEMMA ChainIsFollowedStep ==
    ASSUME ChainTypes, Walked, ChainIsFollowed, [ChainingNext]_chainingVars
    PROVE  ChainIsFollowed'
<1>1. ASSUME NEW r \in Additions, NEW unique \in BOOLEAN, Enter(r, unique) PROVE ChainIsFollowed'
  <2>1. result' = NoResult /\ NoResult' = NoResult
    BY <1>1 DEF Enter, NoResult
  <2> QED
    BY <2>1 DEF ChainIsFollowed
<1>2. CASE Refuse
  <2>1. response' = response /\ (~response.qr \/ Len(response.question) # 1)
    BY <1>2 DEF Refuse, Raise
  <2> QED
    BY <2>1 DEF ChainIsFollowed
<1>3. CASE UNCHANGED <<response, sections, result>>
  <2>1. UNCHANGED <<response, sections>> /\ result' = result
    BY <1>3
  <2> QED
    <3>1. PICK r : r = result
      OBVIOUS
    <3> QED
      BY <2>1, <3>1, FoundStays DEF ChainIsFollowed, NoResult
<1>4. CASE ChainTooLong
  <2>1. /\ stage = "following" /\ Len(cnames) >= MAX_CHAIN /\ UNCHANGED <<response, sections>>
        /\ result'.error = "ChainTooLong"
    BY <1>4 DEF ChainTooLong, Raise, NoResult
  <2>2. cnames \in Seq(RRs) /\ IsChain(cnames) /\ Len(cnames) <= MAX_CHAIN
    BY <2>1 DEF Walked, ChainTypes
  <2>3. PICK n \in Nat : n = Len(cnames)
    BY <2>2
  <2>4. n = MAX_CHAIN
    BY <2>1, <2>2, <2>3, ChainingAssumption
  <2>5. cnames \in Chains(MAX_CHAIN)
    BY <2>2, <2>3, <2>4, IsOneOfTheChains
  <2>6. Chains(MAX_CHAIN)' # {}
    BY <2>1, <2>5, FoundStays
  <2> QED
    BY <2>1, <2>6 DEF ChainIsFollowed
<1>5. CASE AnswerForNXDOMAIN
  <2>1. /\ stage = "followed" /\ response.nxdomain /\ answer # <<>> /\ UNCHANGED <<response, sections>>
        /\ result'.error = "AnswerForNXDOMAIN"
    BY <1>5 DEF AnswerForNXDOMAIN, Raise, NoResult
  <2>2. /\ cnames \in Seq(RRs) /\ IsChain(cnames) /\ Len(cnames) < MAX_CHAIN
        /\ target = Reached(cnames, Len(cnames)) /\ Has("answer", target, Question.type)
    BY <2>1 DEF Walked, ChainTypes, AtEnd
  <2>3. PICK n \in Nat : n = Len(cnames)
    BY <2>2
  <2>4. n \in 0 .. (MAX_CHAIN - 1) /\ cnames \in Chains(n) /\ Has("answer", Reached(cnames, n), Question.type)
    BY <2>2, <2>3, IsOneOfTheChains, ChainingAssumption
  <2>5. IsContradicted
    BY <2>1, <2>4 DEF IsContradicted
  <2> QED
    BY <2>1, <2>5, FoundStays DEF ChainIsFollowed
<1>6. CASE ReturnAnswer
  <2>1. stage = "followed" /\ ~response.nxdomain /\ answer # <<>> /\ Return(min_ttl)
    BY <1>6 DEF ReturnAnswer
  <2>2. /\ AtEnd /\ IsLeast(min_ttl, {MAX_TTL} \cup Times(cnames) \cup Times(answer))
    BY <2>1 DEF Walked
  <2>3. PICK rr : answer = <<rr>>
    BY <2>1, <2>2 DEF AtEnd
  <2>4. Times(answer) = {answer[1].ttl}
    BY <2>3 DEF Times
  <2>5. {MAX_TTL} \cup Times(cnames) \cup Times(answer) = {MAX_TTL} \cup (Times(cnames) \cup {answer[1].ttl})
    BY <2>4
  <2> QED
    BY <2>1, <2>2, <2>5, Returned
<1>7. CASE ReadSOA \/ NoParent
  <2>1. stage = "negative" /\ answer = <<>> /\ Climbed /\ target \in Domains /\ min_ttl \in Nat
        /\ cnames \in Seq(RRs) /\ target = Reached(cnames, Len(cnames))
        /\ IsLeast(min_ttl, {MAX_TTL} \cup Times(cnames) \cup Times(answer))
    BY <1>7 DEF ReadSOA, NoParent, Walked, ChainTypes
  <2>2. IsLeast(min_ttl, {MAX_TTL} \cup Times(cnames))
    <3>1. Times(answer) = {}
      BY <2>1 DEF Times
    <3> QED
      BY <2>1, <3>1
  <2>3. PICK k \in 0 .. Len(target) :
          /\ auname = Superdomain(target, k)
          /\ \A j \in 0 .. k - 1 : ~Has("authority", Superdomain(target, j), "SOA")
    BY <2>1 DEF Climbed
  <2>4. CASE ReadSOA
    <3> DEFINE srrset == Found("authority", auname, "SOA")
    <3>1. Has("authority", auname, "SOA") /\ Return(Sooner(min_ttl, Sooner(srrset.ttl, srrset.minimum)))
      BY <2>4 DEF ReadSOA, NegativeTtl
    <3>2. srrset.ttl \in Nat /\ srrset.minimum \in Nat
      BY <3>1, FoundIsRecord DEF SectionNames
    <3>3. SoaTimes(target) = {srrset.ttl, srrset.minimum}
      BY <2>1, <2>3, <3>1, SoaFound
    <3> HIDE DEF srrset
    <3>4. IsLeast(Sooner(min_ttl, Sooner(srrset.ttl, srrset.minimum)),
                  {MAX_TTL} \cup (Times(cnames) \cup {srrset.ttl, srrset.minimum}))
      <4>1. {MAX_TTL} \cup Times(cnames) \in SUBSET Nat
        BY <2>1, TimesAreNat, ChainingAssumption
      <4>2. IsLeast(Sooner(min_ttl, srrset.ttl), ({MAX_TTL} \cup Times(cnames)) \cup {srrset.ttl})
        BY <2>2, <3>2, <4>1, LeastWith
      <4>3. IsLeast(Sooner(Sooner(min_ttl, srrset.ttl), srrset.minimum),
                    (({MAX_TTL} \cup Times(cnames)) \cup {srrset.ttl}) \cup {srrset.minimum})
        BY <3>2, <4>1, <4>2, LeastWith
      <4>4. Sooner(Sooner(min_ttl, srrset.ttl), srrset.minimum) = Sooner(min_ttl, Sooner(srrset.ttl, srrset.minimum))
        BY <2>1, <3>2 DEF Sooner
      <4>5. (({MAX_TTL} \cup Times(cnames)) \cup {srrset.ttl}) \cup {srrset.minimum}
              = {MAX_TTL} \cup (Times(cnames) \cup {srrset.ttl, srrset.minimum})
        OBVIOUS
      <4> QED
        BY <4>3, <4>4, <4>5
    <3> QED
      BY <2>1, <3>1, <3>3, <3>4, Returned
  <2>5. CASE NoParent
    <3>1. ~Has("authority", auname, "SOA") /\ auname = <<>> /\ Return(min_ttl)
      BY <2>5 DEF NoParent
    <3>2. PICK n \in Nat : n = Len(target)
      BY <2>1 DEF Domains
    <3>3. k = n
      <4>1. target \in Seq(Label) /\ SubSeq(target, k + 1, n) = <<>>
        BY <2>1, <2>3, <3>1, <3>2 DEF Superdomain, Domains
      <4>2. k \in 0 .. n
        BY <3>2
      <4>3. Len(SubSeq(target, k + 1, n)) = IF k + 1 <= n THEN n - k ELSE 0
        BY <3>2, <4>1, <4>2
      <4>4. Len(SubSeq(target, k + 1, n)) = 0
        <5>1. Len(<<>>) = 0
          OBVIOUS
        <5> QED
          BY <4>1, <5>1, Zenon
      <4> QED
        BY ONLY <3>2, <4>2, <4>3, <4>4, k \in Nat
    <3>4. \A j \in 0 .. n : j \in 0 .. k - 1 \/ j = k
      BY <3>3
    <3>5. SoaTimes(target) = {}
      BY <2>1, <2>3, <3>1, <3>2, <3>4, SoaNotFound
    <3>6. {MAX_TTL} \cup (Times(cnames) \cup {}) = {MAX_TTL} \cup Times(cnames)
      OBVIOUS
    <3> QED
      BY <2>1, <2>2, <3>1, <3>5, <3>6, Returned
  <2> QED
    BY <1>7, <2>4, <2>5
<1>8. CASE Call \/ FollowToAnswer \/ FollowAlias \/ FollowToEnd \/ LookForSOA \/ GoUp \/ UNCHANGED chainingVars
  <2>1. UNCHANGED <<response, sections, result>>
    BY <1>8 DEF Call, FollowToAnswer, FollowAlias, FollowToEnd, LookForSOA, GoUp, chainingVars
  <2> QED
    BY <1>3, <2>1
<1> QED
  BY <1>1, <1>2, <1>4, <1>5, <1>6, <1>7, <1>8 DEF ChainingNext

LEMMA ChainInvStep == ChainInv /\ [ChainingNext]_chainingVars => ChainInv'
<1> SUFFICES ASSUME ChainInv, [ChainingNext]_chainingVars PROVE ChainInv'
  OBVIOUS
<1>1. ChainTypes /\ Walked /\ ChainIsFollowed
  BY DEF ChainInv
<1>2. ChainTypes'
  BY <1>1, ChainTypesStep
<1>3. Walked'
  BY <1>1, <1>2, WalkedStep
<1>4. ChainIsFollowed'
  BY <1>1, ChainIsFollowedStep
<1> QED
  BY <1>2, <1>3, <1>4 DEF ChainInv

\* For any response, whatever its records, of any lengths and in any order, and
\* any limit: what resolve_chaining() returns is where the aliases lead and what
\* is there, no longer than the least of the times, and an error only for too
\* many aliases or an answer with NXDOMAIN.
THEOREM ChainTheorem == ChainingSpec => []ChainIsFollowed
<1>1. ChainingInit => ChainInv
  <2> SUFFICES ASSUME ChainingInit PROVE ChainInv
    OBVIOUS
  <2>1. ChainTypes
    BY DEF ChainingInit, ChainTypes
  <2>2. Walked /\ ChainIsFollowed
    BY DEF ChainingInit, Walked, ChainIsFollowed
  <2> QED
    BY <2>1, <2>2 DEF ChainInv
<1>2. ChainInv => ChainIsFollowed
  BY DEF ChainInv
<1> QED
  BY <1>1, <1>2, ChainInvStep, PTL DEF ChainingSpec
===============================================================================
