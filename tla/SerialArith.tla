----------------------------- MODULE SerialArith -----------------------------
(***************************************************************************)
(* dns.serial.Serial: the arithmetic of RFC 1982 on numbers of a given     *)
(* width.  A serial is a number below Modulus = 2^bits, Half =             *)
(* 2^(bits - 1); dnspython uses 32 bits for SOA serials.                   *)
(***************************************************************************)
EXTENDS Integers

CONSTANT Half

ASSUME SerialAssumption == Half \in Nat \ {0}

Modulus == 2 * Half
Serials == 0 .. Modulus - 1

\* Serial.__lt__
Lt(a, b) == \/ a < b /\ b - a < Half
            \/ a > b /\ a - b > Half

\* Serial.__gt__
Gt(a, b) == \/ a < b /\ b - a > Half
            \/ a > b /\ a - b < Half

\* Serial.__add__ and __sub__ raise ValueError for a delta they cannot add.
CanAdd(delta) == delta <= Half - 1 /\ -delta <= Half - 1

Add(a, delta) == (a + delta) % Modulus
Sub(a, delta) == (a - delta) % Modulus
=============================================================================
