----------------------------- MODULE MatchCycle -----------------------------
(***************************************************************************)
(* What a match promises its host (crates/sim/src/runner.rs, the module    *)
(* documentation and MatchState's transitions): Lull, Push and Recap in    *)
(* that order, one round at a time, until the match is decided or the      *)
(* round limit is reached; a decided match still opens a recap, and that   *)
(* recap is its last.                                                      *)
(***************************************************************************)
EXTENDS Naturals

CONSTANT RoundLimit

VARIABLES
  phase,     \* "lull", "push", "recap" or "ended"
  round,     \* from one
  decided    \* an outcome has been written

vars == <<phase, round, decided>>

Init == phase = "lull" /\ round = 1 /\ decided = FALSE

OpenPush ==
  /\ phase = "lull"
  /\ phase' = "push"
  /\ UNCHANGED <<round, decided>>

(* The Push closes undecided only while rounds are left to play.           *)
ClosePush ==
  /\ phase = "push"
  /\ phase' = "recap"
  /\ decided' \in BOOLEAN
  /\ round >= RoundLimit => decided'
  /\ UNCHANGED round

NextRound ==
  /\ phase = "recap" /\ ~decided
  /\ phase' = "lull"
  /\ round' = round + 1
  /\ UNCHANGED decided

End ==
  /\ phase = "recap" /\ decided
  /\ phase' = "ended"
  /\ UNCHANGED <<round, decided>>

Next == OpenPush \/ ClosePush \/ NextRound \/ End

Spec == Init /\ [][Next]_vars
=============================================================================
