---------------------------- MODULE MCQuartermaster ----------------------------
(* Three beacons and two bands: a unit, and a structure cheap or dear.     *)
EXTENDS Quartermaster

Unit == [band |-> 3, cost |-> 1, draw |-> 1, unit |-> TRUE]
Cheap == [band |-> 4, cost |-> 1, draw |-> 0, unit |-> FALSE]
Dear == [band |-> 4, cost |-> 2, draw |-> 1, unit |-> FALSE]
Orders == {Unit, Cheap, Dear}
=============================================================================
