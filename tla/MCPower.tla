------------------------------- MODULE MCPower -------------------------------
(***************************************************************************)
(* Instances of Power for TLC.                                             *)
(***************************************************************************)
EXTENDS Power

(* The core's site, and the others at one distance, so that an id decides. *)
Sites == [b \in Beacons |-> IF b = 1 THEN 0 ELSE 1]
OneRichness == [v \in Vents |-> 2]
=============================================================================
