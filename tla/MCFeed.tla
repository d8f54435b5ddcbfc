------------------------------- MODULE MCFeed -------------------------------
(* Three seats and one place: ticks of what both may see and what only one *)
(* may know, and of more than the bus holds.                               *)
EXTENDS Feed

CONSTANTS s1, s2, here

OneFiled == {{s2}}

Crowd == [i \in 1..Capacity + 1 |-> Private("failed", s2)]

TwoKinds == {<<World("line", s2, here), Private("failed", s1)>>, Crowd}
=============================================================================
