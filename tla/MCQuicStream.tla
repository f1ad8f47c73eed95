---------------------------- MODULE MCQuicStream ----------------------------
(* Values for the constants of QuicStream: DoQ, and threads that switch     *)
(* only between the methods of the buffer.                                  *)
EXTENDS QuicStream

MessageSizes == {0, 2}
StreamLengths == 0 .. 5
OnlyDoQ == {[h3 |-> FALSE, interruptible |-> FALSE]}
=============================================================================
