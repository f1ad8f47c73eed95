-------------------------- MODULE MCVersionedZone --------------------------
(***************************************************************************)
(* Values for the constants of VersionedZone: an empty zone without a SOA  *)
(* and one with, so that versions with a serial have gaps between them and *)
(* two versions may have one serial.                                       *)
(***************************************************************************)
EXTENDS VersionedZone, TLC

CONSTANTS w1, w2, w3, r1, c1, none, o1

TwoWriters == {w1, w2}
ThreeWriters == {w1, w2, w3}

MCContents == {none, c1}
MCSerialOf == (none :> 0) @@ (c1 :> 7)

Default == [kind |-> "default", max |-> 1]
KeepAll == [kind |-> "all", max |-> 1]
KeepTwo == [kind |-> "max", max |-> 2]
Raising == [kind |-> "raising", max |-> 1]

AnyPolicy == {Default, KeepAll, KeepTwo, Raising}
=============================================================================
