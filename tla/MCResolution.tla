---------------------------- MODULE MCResolution ----------------------------
(***************************************************************************)
(* Resolution, and the chains of aliases in responses, in one run: subject *)
(* says which of the two moves.                                            *)
(*                                                                         *)
(* Chaining has three names, one below another; two aliases in a row, a    *)
(* loop of one and of two, an alias for another; answers at both ends, one *)
(* of a class that is not asked for; SOA records at the top, closer and    *)
(* beside.                                                                 *)
(***************************************************************************)
EXTENDS Resolution, Chaining, TLC

CONSTANTS q1, q2, s1, s2

OneOrder == {(s1 :> 1) @@ (s2 :> 2)}
\* One name, and a search list with a name twice.
Lists == {<<q2>>, <<q1, q2, q1>>}

top == <<"t">>
sub == <<"s", "t">>
other == <<"o">>

RR(name, class, type, ttl, to, minimum) ==
  [name |-> name, rdclass |-> class, type |-> type, ttl |-> ttl, target |-> to, minimum |-> minimum]
Answering(rr) == [section |-> "answer", rr |-> rr]
Authority(rr) == [section |-> "authority", rr |-> rr]

MCAdditions ==
  {Answering(RR(sub, "IN", "CNAME", 3, other, 0)), Answering(RR(sub, "IN", "CNAME", 2, sub, 0)),
   Answering(RR(other, "IN", "CNAME", 2, top, 0)), Answering(RR(top, "IN", "CNAME", 3, sub, 0)),
   Answering(RR(other, "IN", "A", 1, <<>>, 0)), Answering(RR(sub, "CH", "A", 1, <<>>, 0)),
   Authority(RR(<<>>, "IN", "SOA", 3, <<>>, 1)), Authority(RR(top, "IN", "SOA", 1, <<>>, 2)),
   Authority(RR(other, "IN", "SOA", 0, <<>>, 0))}
AskFor(name, type) == <<[name |-> name, rdclass |-> "IN", type |-> type]>>
MCQuestions ==
  {<<>>, AskFor(sub, "A"), AskFor(sub, "CNAME"), AskFor(sub, "A") \o AskFor(top, "A")}

-----------------------------------------------------------------------------

VARIABLE subject

ResolutionAtRest ==
    /\ world = [q \in Names |-> "answer"]
    /\ Init
ChainingAtRest == ChainingInit /\ response = [qr |-> FALSE, nxdomain |-> FALSE, question |-> <<>>]

MCInit ==
    \/ subject = "resolution" /\ Init /\ ChainingAtRest
    \/ subject = "chain" /\ ChainingInit /\ ResolutionAtRest

MCNext ==
    \/ subject = "resolution" /\ Next /\ UNCHANGED <<subject, chainingVars>>
    \/ subject = "chain" /\ ChainingNext /\ UNCHANGED <<subject, vars>>

MCSpec == MCInit /\ [][MCNext]_<<subject, vars, chainingVars>> /\ WF_vars(Progress)
=============================================================================
