------------------------------- MODULE MCQuic -------------------------------
(***************************************************************************)
(* QuicPool and QuicStream in one run: subject says which of the two moves.*)
(* DoQ is right only where the methods of the buffer are not interrupted,  *)
(* H3 also where they may be.                                              *)
(***************************************************************************)
EXTENDS QuicPool, QuicStream

CONSTANTS t1, t2, a1

MessageSizes == {0, 2}
StreamLengths == 0 .. 5

DoQ == [h3 |-> FALSE, interruptible |-> FALSE]
DoH3 == [h3 |-> TRUE, interruptible |-> TRUE]
BothModes == {DoQ, DoH3}

VARIABLE subject

StreamAtRest == StreamInit /\ mode = DoQ /\ size = 0 /\ length = 0

MCInit ==
    /\ Init
    /\ \/ subject = "stream" /\ StreamInit
       \/ subject = "pool" /\ StreamAtRest

MCNext ==
    \/ subject = "stream" /\ StreamNext /\ UNCHANGED <<subject, vars>>
    \/ subject = "pool" /\ Next /\ UNCHANGED <<subject, streamVars>>

MCSpec ==
    /\ MCInit /\ [][MCNext]_<<subject, vars, streamVars>>
    /\ Fairness /\ StreamFairness
=============================================================================
