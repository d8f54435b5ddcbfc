------------------------------ MODULE MCMatch ------------------------------
(* The match machine on small tables.  Ladders in game milliseconds: 125   *)
(* is two and a half ticks, which the code rounds up to three.             *)
EXTENDS Match

DuelLadder == <<125, 50>>
=============================================================================
