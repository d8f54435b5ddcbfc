---------------------------- MODULE MCHostClock ----------------------------
(* Two rounds, a segment of two ticks and one of one; a seat that may be   *)
(* refused while the admin's token moves the tick on, and an admin that    *)
(* may be refused too.                                                     *)
EXTENDS HostClock

CONSTANT Seat

Segments == <<2, 1>>
Lulls    == <<1, 0>>
InATick  == [k \in Tokens |-> IF k = Admin THEN 3 ELSE 1]
InAWindow == [k \in Tokens |-> IF k = Admin THEN 4 ELSE 1]
Calls    == [k \in Tokens |-> IF k = Admin THEN 6 ELSE 4]
=============================================================================
