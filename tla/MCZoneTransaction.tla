------------------------- MODULE MCZoneTransaction -------------------------
(***************************************************************************)
(* Values for the constants of ZoneTransaction: addresses are other data,  *)
(* NSEC may live beside a CNAME, of which a name has one.                  *)
(***************************************************************************)
EXTENDS ZoneTransaction

AllTypes == {"A", "CNAME", "NSEC"}
MCSingle == {"CNAME"}

MCKindOf == [t \in Types |-> CASE t = "A" -> "regular"
                               [] t = "CNAME" -> "cname"
                               [] t = "NSEC" -> "neutral"]

MCRdatasOf == [n \in Names |-> [t \in Types |-> IF t = "A" THEN {1, 2} ELSE {1}]]

\* The action properties speak of a step's reply, never of an earlier one.
NoReply == <<heap, frozen, zone_nodes, snap, reading, txn, work, changed>>
=============================================================================
