------------------------------ MODULE SoaSerial ------------------------------
(***************************************************************************)
(* The serial of a zone's SOA under Transaction.update_serial(), and a     *)
(* secondary that copies the zone when the serial has gone up in the sense *)
(* of dns.serial.Serial, as dns.xfr does.                                  *)
(***************************************************************************)
EXTENDS SerialArith

CONSTANT MaxValue       \* bound: the values passed to update_serial()

ASSUME SoaSerialAssumption == MaxValue \in Nat

VARIABLES serial,       \* the serial in the SOA of the zone
          copied,       \* the serial the secondary has
          call          \* the last call of update_serial()

soaVars == <<serial, copied, call>>

Modes == {"relative", "absolute"}

\* A bug: zero gives way to the serial before it.
AvoidZeroDown(s) == IF s = 0 THEN Modulus - 1 ELSE s

\* Some software takes the serial zero for no serial.
AvoidZero(s) == IF s = 0 THEN 1 ELSE s

\* A bug: an increment of exactly half the numbers is taken.
RefusedLate(value, mode) == value < 0 \/ (mode = "relative" /\ value > Half)

\* ValueError.
Refused(value, mode) == value < 0 \/ (mode = "relative" /\ ~CanAdd(value))

UpdateSerial(value, mode) ==
    /\ call' = [mode |-> mode, value |-> value, raised |-> Refused(value, mode)]
    /\ serial' = IF Refused(value, mode) THEN serial
                 ELSE AvoidZero(IF mode = "relative" THEN Add(serial, value)
                                ELSE value % Modulus)
    /\ UNCHANGED copied

\* The secondary asks for the serial; it refuses one that went backwards.
Refresh ==
    /\ serial # copied
    /\ ~Lt(serial, copied)
    /\ copied' = serial
    /\ UNCHANGED <<serial, call>>

SoaInit == /\ serial \in Serials
           /\ copied = serial
           /\ call = [mode |-> "relative", value |-> 0, raised |-> TRUE]

SoaNext == \/ \E value \in -1 .. MaxValue, mode \in Modes : UpdateSerial(value, mode)
           \/ Refresh

SoaSpec == SoaInit /\ [][SoaNext]_soaVars

-----------------------------------------------------------------------------

\* Every variable has its type.
SoaTypeOK == /\ serial \in Serials /\ copied \in Serials
             /\ call \in [mode : Modes, value : Int, raised : BOOLEAN]

\* The comparisons of the code are those of the RFC: the way up from one
\* serial to a greater one is shorter than half of the circle.
Ahead(a, b) == Sub(b, a) \in 1 .. Half - 1
ComparisonsAgree ==
    \A s \in {serial, copied}, t \in Serials :
        /\ Lt(s, t) <=> Ahead(s, t)
        /\ Gt(s, t) <=> Ahead(t, s)

\* transaction.py on update_serial(): an increment never makes the serial
\* less than it was, the step over zero included.
NeverLess == [][call'.mode = "relative" => ~Lt(serial', serial)]_soaVars

\* An increment short of the two largest ones makes the serial greater, so
\* that a secondary that was up to date copies the zone.
IncrementNoticed ==
    [][copied' = copied /\ call'.mode = "relative" /\ call'.value \in 1 .. Half - 2
       => Gt(serial', serial)]_soaVars

\* Who compares serials sees every increment: it does not go back, and short
\* of the two largest ones it goes forward (Transaction.update_serial).
IncrementsAreSeen == NeverLess /\ IncrementNoticed

\* update_serial() never sets the serial to zero.
NeverZero == [][serial' # serial => serial' # 0]_soaVars
=============================================================================
