---------------------------- MODULE MCInboundXfr ----------------------------
(* Values for the constants of InboundXfr. *)
EXTENDS InboundXfr

CONSTANTS a, b

TwoRecords == {a, b}
OneRecord == {a}
=============================================================================
