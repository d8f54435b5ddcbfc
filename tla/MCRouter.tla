------------------------------ MODULE MCRouter ------------------------------
(* Two places and a gate between them, that may be closed and opened.      *)
EXTENDS Router

CONSTANTS west, gate, east

Line == {<<west, gate>>, <<gate, west>>, <<gate, east>>, <<east, gate>>}
=============================================================================
