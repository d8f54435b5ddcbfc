--------------------------- MODULE MCPersistence ---------------------------
(* Instances of Persistence for TLC.                                       *)
EXTENDS Persistence

CONSTANTS p1, p2   \* two playbooks a seat may seal

EitherPlan == Permutations({p1, p2})
=============================================================================
