---------------------------- MODULE MatchProofs ----------------------------
(***************************************************************************)
(* Theorems about the match machine, for every table of seats, ladder and  *)
(* round limit.                                                            *)
(***************************************************************************)
EXTENDS Match, FiniteSetTheorems, TLAPS

(* A conversion of a natural number of milliseconds is a number of ticks.  *)
LEMMA TicksAreNatural == \A ms \in Nat : ToTicksCeil(ms) \in Nat
BY DEF ToTicksCeil, MsPerTick

(* Every round has a length, taken from the ladder.                        *)
LEMMA LengthsAreNatural ==
  \A r \in Nat \ {0} : LengthForRound(r) \in Nat
<1> SUFFICES ASSUME NEW r \in Nat \ {0} PROVE LengthForRound(r) \in Nat
  OBVIOUS
<1>1. Len(Ladder) \in Nat /\ Len(Ladder) >= 1
  BY MatchAssumption
<1>2. \A i \in 1..Len(Ladder) : Ladder[i] \in Nat
  BY MatchAssumption
<1> QED BY <1>1, <1>2 DEF LengthForRound

(* The beacons of one seat are finitely many, so a difference of two sets  *)
(* of them has a size.                                                     *)
LEMMA DifferencesAreCounted ==
  ASSUME NEW A \in SUBSET Beacons, NEW B
  PROVE  Cardinality(A \ B) \in Nat
<1>1. IsFiniteSet(A \ B)
  BY MatchAssumption, FS_Subset, A \ B \subseteq Beacons
<1> QED BY <1>1, FS_CardinalityType

(* How long a commander waits is a number of ticks.                        *)
LEMMA DelaysAreNatural ==
  ASSUME NEW s \in Seats, deaths \in [Seats -> Nat]
  PROVE  RespawnDelay(s) \in Nat
<1>1. RespawnGrowthMs * deaths[s] \in Nat
  BY MatchAssumption
<1>2. RespawnBaseMs + RespawnGrowthMs * deaths[s] \in Nat
  BY <1>1, MatchAssumption
<1> QED BY <1>2, TicksAreNatural DEF RespawnDelay

(* Settling the commanders keeps the three columns it writes well typed.   *)
LEMMA CommandersSettleTyped ==
  ASSUME TypeOK, NEW boundary \in BOOLEAN, SettleCommanders(boundary)
  PROVE  /\ deaths' \in [Seats -> Nat]
         /\ respawnDue' \in [Seats -> Nat \union {NoRespawn}]
         /\ commander' \in [Seats -> {"alive", "dead", "none"}]
<1>1. deaths' \in [Seats -> Nat]
  BY DEF TypeOK, SettleCommanders
<1>2. respawnDue' \in [Seats -> Nat \union {NoRespawn}]
  <2>1. \A s \in Seats : tick + RespawnDelay(s) \in Nat
    BY DelaysAreNatural DEF TypeOK
  <2> QED BY <2>1 DEF TypeOK, SettleCommanders
<1>3. commander' \in [Seats -> {"alive", "dead", "none"}]
  BY DEF TypeOK, SettleCommanders
<1> QED BY <1>1, <1>2, <1>3

(* A verdict is a seat of the match or the neutral seat.                   *)
LEMMA VerdictsAreSeats ==
  \A S \in SUBSET Seats : Verdicts(S) \subseteq Seats \union {NoSeat}
BY DEF Verdicts

(* A new match, its seats placed or not, is well typed.                    *)
LEMMA InitTyped == Init => TypeOK
<1> SUFFICES ASSUME Init PROVE TypeOK
  OBVIOUS
<1>1. LengthForRound(1) \in Nat
  BY LengthsAreNatural
<1>2. beacons \in [Seats -> SUBSET Beacons]
  BY MatchAssumption DEF Init
<1>3. commander \in [Seats -> {"alive", "dead", "none"}]
  BY DEF Init
<1>4. frozen \in Boards
  BY <1>1, <1>2, <1>3 DEF Init, Board, Boards
<1>5. outcome \in [reason : Reasons, winner : Seats \union {NoSeat}, at : Nat]
  BY DEF Init, Undecided, Reasons
<1>6. placed \in [Seats -> Nat]
  BY DEF Init
<1>7. edge \in [Seats -> SUBSET Beacons]
  BY <1>2 DEF Init
<1>8. lost \in [Seats -> Nat] /\ deaths \in [Seats -> Nat]
  BY DEF Init
<1>9. eliminatedAt \in [Seats -> Nat \union {NotEliminated}]
  BY DEF Init
<1>10. respawnDue \in [Seats -> Nat \union {NoRespawn}]
  BY DEF Init
<1>11. phase \in MatchPhases /\ openPhase \in 0..12
  BY DEF Init, MatchPhases, Closed
<1>12. /\ round \in Nat \ {0} /\ tick \in Nat
       /\ segStarted \in Nat /\ segLengthMs \in Nat /\ comingMs \in Nat
  BY <1>1 DEF Init
<1>13. /\ collapsed \in BOOLEAN /\ laidOut \in BOOLEAN
       /\ sealed \in SUBSET Seats /\ settled \in Nat /\ announced \in Nat
  BY DEF Init
<1> QED BY <1>2, <1>3, <1>4, <1>5, <1>6, <1>7, <1>8, <1>9, <1>10, <1>11,
           <1>12, <1>13 DEF TypeOK

(* The board a tick freezes is a board.                                    *)
LEMMA BoardsAreTyped == TypeOK => Board \in Boards
BY DEF TypeOK, Board, Boards

(* A final audit names a seat of the match or the neutral seat.            *)
LEMMA DecisionsTyped ==
  ASSUME TypeOK, NEW reason \in Reasons, NEW w \in Seats \union {NoSeat},
         Decide(reason, w)
  PROVE  outcome' \in [reason : Reasons, winner : Seats \union {NoSeat},
                        at : Nat]
BY DEF TypeOK, Decide

(* The Match phase, however it leaves the segment, keeps every type.       *)
LEMMA RunMatchTyped == TypeOK /\ RunMatch => TypeOK'
<1> SUFFICES ASSUME TypeOK, RunMatch PROVE TypeOK'
  OBVIOUS
<1>1. /\ edge' \in [Seats -> SUBSET Beacons]
      /\ lost' \in [Seats -> Nat]
  <2>1. \A s \in Seats : Cardinality(edge[s] \ beacons[s]) \in Nat
    BY DifferencesAreCounted DEF TypeOK
  <2> QED BY <2>1 DEF RunMatch, SettleBeaconDeaths, TypeOK
<1>2. eliminatedAt' \in [Seats -> Nat \union {NotEliminated}]
  BY DEF RunMatch, SettleEliminations, TypeOK
<1>3. openPhase' \in 0..12
  BY DEF RunMatch, Running, TickIsOpen, PhaseOrder, Closed, TypeOK
<1>4. Remaining \subseteq Seats /\ AuditedNow \subseteq Seats
  BY DEF Remaining, AuditedNow
<1>5. Verdicts(AuditedNow) \subseteq Seats \union {NoSeat}
  BY <1>4, VerdictsAreSeats
<1>6. /\ UNCHANGED <<round, tick, collapsed, placed, beacons, sealed, laidOut,
                     frozen>>
      /\ MatchEnds \/ SegmentEnds \/ SegmentGoesOn
  BY DEF RunMatch, hostVars
<1>7. /\ phase' \in MatchPhases
      /\ segStarted' \in Nat /\ segLengthMs' \in Nat /\ comingMs' \in Nat
      /\ outcome' \in [reason : Reasons, winner : Seats \union {NoSeat}, at : Nat]
      /\ settled' \in Nat /\ announced' \in Nat
      /\ deaths' \in [Seats -> Nat]
      /\ respawnDue' \in [Seats -> Nat \union {NoRespawn}]
      /\ commander' \in [Seats -> {"alive", "dead", "none"}]
  <2>1. CASE MatchEnds
    <3>1. outcome' \in [reason : Reasons, winner : Seats \union {NoSeat}, at : Nat]
      <4>1. CASE Remaining # {}
        <5>1. PICK w \in Remaining : Decide("last_seat_standing", w)
          BY <2>1, <4>1 DEF MatchEnds
        <5>2. w \in Seats /\ "last_seat_standing" \in Reasons
          BY <1>4, <5>1 DEF Reasons
        <5> QED BY <5>1, <5>2, DecisionsTyped
      <4>2. CASE Remaining = {}
        <5>1. PICK w \in Verdicts(AuditedNow) : Decide("no_survivor", w)
          BY <2>1, <4>2 DEF MatchEnds
        <5>2. w \in Seats \union {NoSeat} /\ "no_survivor" \in Reasons
          BY <1>5, <5>1 DEF Reasons
        <5> QED BY <5>1, <5>2, DecisionsTyped
      <4> QED BY <4>1, <4>2
    <3>2. SettleCommanders(TRUE)
      BY <2>1 DEF MatchEnds
    <3>3. /\ deaths' \in [Seats -> Nat]
          /\ respawnDue' \in [Seats -> Nat \union {NoRespawn}]
          /\ commander' \in [Seats -> {"alive", "dead", "none"}]
      BY <3>2, CommandersSettleTyped
    <3>4. /\ phase' \in MatchPhases
          /\ segStarted' \in Nat /\ segLengthMs' \in Nat /\ comingMs' \in Nat
          /\ settled' \in Nat /\ announced' \in Nat
      BY <2>1 DEF MatchEnds, MatchPhases, TypeOK
    <3> QED BY <3>1, <3>3, <3>4
  <2>2. CASE SegmentEnds
    <3>1. outcome' \in [reason : Reasons, winner : Seats \union {NoSeat}, at : Nat]
      <4>1. CASE round >= RoundLimit
        <5>1. PICK w \in Verdicts(AuditedNow) : Decide("round_limit", w)
          BY <2>2, <4>1 DEF SegmentEnds
        <5>2. w \in Seats \union {NoSeat} /\ "round_limit" \in Reasons
          BY <1>5, <5>1 DEF Reasons
        <5> QED BY <5>1, <5>2, DecisionsTyped
      <4>2. CASE ~(round >= RoundLimit)
        BY <2>2, <4>2 DEF SegmentEnds, TypeOK
      <4> QED BY <4>1, <4>2
    <3>2. SettleCommanders(TRUE)
      BY <2>2 DEF SegmentEnds
    <3>3. /\ deaths' \in [Seats -> Nat]
          /\ respawnDue' \in [Seats -> Nat \union {NoRespawn}]
          /\ commander' \in [Seats -> {"alive", "dead", "none"}]
      BY <3>2, CommandersSettleTyped
    <3>4. comingMs' \in Nat
      <4>1. ComingRound \in Nat \ {0}
        BY MatchAssumption DEF ComingRound, TypeOK
      <4> QED BY <4>1, LengthsAreNatural, <2>2 DEF SegmentEnds
    <3>5. /\ phase' \in MatchPhases
          /\ segStarted' \in Nat /\ segLengthMs' \in Nat
          /\ settled' \in Nat /\ announced' \in Nat
      BY <2>2 DEF SegmentEnds, MatchPhases, TypeOK
    <3> QED BY <3>1, <3>3, <3>4, <3>5
  <2>3. CASE SegmentGoesOn
    <3>1. SettleCommanders(FALSE)
      BY <2>3 DEF SegmentGoesOn
    <3>2. /\ deaths' \in [Seats -> Nat]
          /\ respawnDue' \in [Seats -> Nat \union {NoRespawn}]
          /\ commander' \in [Seats -> {"alive", "dead", "none"}]
      BY <3>1, CommandersSettleTyped
    <3> QED BY <2>3, <3>2 DEF SegmentGoesOn, history, TypeOK
  <2> QED BY <1>6, <2>1, <2>2, <2>3
<1>8. /\ beacons' \in [Seats -> SUBSET Beacons] /\ placed' \in [Seats -> Nat]
      /\ round' \in Nat \ {0} /\ tick' \in Nat /\ collapsed' \in BOOLEAN
      /\ sealed' \in SUBSET Seats /\ laidOut' \in BOOLEAN /\ frozen' \in Boards
  <2>1. /\ round' = round /\ tick' = tick /\ collapsed' = collapsed
        /\ placed' = placed /\ beacons' = beacons /\ sealed' = sealed
        /\ laidOut' = laidOut /\ frozen' = frozen
    BY <1>6
  <2> QED BY <2>1 DEF TypeOK
<1> QED BY <1>1, <1>2, <1>3, <1>7, <1>8 DEF TypeOK

(* Damage only takes: fewer beacons and fewer living commanders.           *)
LEMMA KillTyped ==
  ASSUME TypeOK, Kill
  PROVE  /\ beacons' \in [Seats -> SUBSET Beacons]
         /\ commander' \in [Seats -> {"alive", "dead", "none"}]
BY DEF TypeOK, Kill

(* Deploys and recycles keep every type.                                   *)
LEMMA RunDecisionTyped == TypeOK /\ RunDecision => TypeOK'
<1> SUFFICES ASSUME TypeOK, RunDecision PROVE TypeOK'
  OBVIOUS
<1>1. beacons' \in [Seats -> SUBSET Beacons]
  BY DEF RunDecision
<1>2. edge' \in [Seats -> SUBSET Beacons]
  BY <1>1 DEF RunDecision, TypeOK
<1>3. placed' \in [Seats -> Nat]
  <2>1. \A s \in Seats : Cardinality(beacons'[s] \ beacons[s]) \in Nat
    BY <1>1, DifferencesAreCounted
  <2> QED BY <2>1 DEF RunDecision, TypeOK
<1>4. openPhase' \in 0..12
  BY DEF RunDecision, Running, TickIsOpen, PhaseOrder, Closed, TypeOK
<1> QED BY <1>1, <1>2, <1>3, <1>4
        DEF RunDecision, TypeOK, stateVars, hostVars, history

(* So does end_recap, which may count a round or end the match.            *)
LEMMA EndRecapTyped == TypeOK /\ EndRecap => TypeOK'
<1> SUFFICES ASSUME TypeOK, EndRecap PROVE TypeOK'
  OBVIOUS
<1>1. Audited \subseteq Seats
  BY DEF Audited
<1>2. outcome' \in [reason : Reasons, winner : Seats \union {NoSeat}, at : Nat]
  <2>1. CASE outcome.reason = "none" /\ round >= RoundLimit
    <3>1. PICK w \in Verdicts(Audited) :
            outcome' = [reason |-> "round_limit", winner |-> w, at |-> tick]
      BY <2>1 DEF EndRecap
    <3>2. w \in Seats \union {NoSeat} /\ "round_limit" \in Reasons
      BY <1>1, <3>1, VerdictsAreSeats DEF Reasons
    <3> QED BY <3>1, <3>2 DEF TypeOK
  <2>2. CASE ~(outcome.reason = "none" /\ round >= RoundLimit)
    BY <2>2 DEF EndRecap, TypeOK
  <2> QED BY <2>1, <2>2
<1>3. phase' \in MatchPhases /\ round' \in Nat \ {0} /\ announced' \in Nat
  BY DEF EndRecap, MatchPhases, TypeOK
<1> QED BY <1>2, <1>3 DEF EndRecap, TypeOK, seatVars, hostVars

(* So does a layout, which gives beacons and freezes the board again.      *)
LEMMA SeedLayoutTyped ==
  ASSUME TypeOK, NEW given \in SUBSET Seats, SeedLayout(given)
  PROVE  TypeOK'
<1>1. beacons' \in [Seats -> SUBSET Beacons]
  BY DEF SeedLayout, TypeOK
<1>2. edge' \in [Seats -> SUBSET Beacons]
  BY <1>1 DEF SeedLayout
<1>3. placed' \in [Seats -> Nat]
  BY DEF SeedLayout, TypeOK
<1>4. frozen' \in Boards
  BY <1>1 DEF SeedLayout, Board, Boards, TypeOK, stateVars
<1>5. laidOut' \in BOOLEAN
  BY DEF SeedLayout
<1> QED BY <1>1, <1>2, <1>3, <1>4, <1>5
        DEF SeedLayout, TypeOK, stateVars, history

(* Every step of the match machine keeps every type.                       *)
LEMMA StepTyped == TypeOK /\ [Next]_vars => TypeOK'
<1> SUFFICES ASSUME TypeOK, [Next]_vars PROVE TypeOK'
  OBVIOUS
<1>1. ASSUME NEW s \in Seats, SealPlaybook(s) PROVE TypeOK'
  BY <1>1 DEF SealPlaybook, TypeOK, stateVars, seatVars, history
<1>2. ASSUME NEW given \in (SUBSET {s \in Seats : placed[s] > 0}) \ {{}},
             SeedLayout(given)
      PROVE  TypeOK'
  BY <1>2, SeedLayoutTyped
<1>3. CASE BeginPush
  BY <1>3 DEF BeginPush, TypeOK, MatchPhases, MsPerTick, hostVars, history
<1>4. CASE BeginTick
  <2>1. openPhase' \in 0..12 /\ tick' \in Nat
    BY <1>4 DEF BeginTick, TypeOK
  <2>2. collapsed' \in BOOLEAN
    BY <1>4 DEF BeginTick
  <2> QED BY <1>4, <2>1, <2>2
          DEF BeginTick, TypeOK, stateVars, seatVars, hostVars, history
<1>5. CASE RunQuiet
  <2>1. openPhase' \in 0..12
    BY <1>5 DEF RunQuiet, TickIsOpen, PhaseOrder, Closed, TypeOK
  <2> QED BY <1>5, <2>1
          DEF RunQuiet, TypeOK, stateVars, seatVars, hostVars, history
<1>6. CASE RunCombat
  <2>1. openPhase' \in 0..12
    BY <1>6 DEF RunCombat, Running, TickIsOpen, PhaseOrder, Closed, TypeOK
  <2> QED BY <1>6, <2>1, KillTyped
          DEF RunCombat, TypeOK, stateVars, hostVars, history
<1>7. CASE RunDecision
  BY <1>7, RunDecisionTyped
<1>8. CASE RunVoxels
  <2>1. openPhase' \in 0..12
    BY <1>8 DEF RunVoxels, Running, TickIsOpen, PhaseOrder, Closed, TypeOK
  <2> QED BY <1>8, <2>1, KillTyped
          DEF RunVoxels, TypeOK, stateVars, hostVars, history
<1>9. CASE VoxelsFails
  BY <1>9, KillTyped DEF VoxelsFails, TypeOK, stateVars, hostVars, history
<1>10. CASE RunMatch
  BY <1>10, RunMatchTyped
<1>11. CASE EndTick
  BY <1>11, BoardsAreTyped
     DEF EndTick, Closed, TypeOK, stateVars, seatVars, history
<1>12. CASE EndRecap
  BY <1>12, EndRecapTyped
<1>13. CASE UNCHANGED vars
  BY <1>13 DEF vars, TypeOK, stateVars, seatVars, hostVars, history
<1> QED BY <1>1, <1>2, <1>3, <1>4, <1>5, <1>6, <1>7, <1>8, <1>9, <1>10,
           <1>11, <1>12, <1>13 DEF Next

(* Every variable of the match machine keeps its type, whatever the seats, *)
(* the ladder and the round limit.                                         *)
THEOREM Typing == Spec => []TypeOK
BY InitTyped, StepTyped, PTL DEF Spec

----------------------------------------------------------------------------
(* Where a tick may be open, when the match may be decided and how far the *)
(* rounds may have gone: the part of the state the safety theorems rest on.*)
TickIsInItsPhase ==
  /\ openPhase \in 1..11 => phase = "push"
  /\ openPhase = 12 => phase \in {"push", "recap"}
  /\ TickIsOpen => tick >= 1

DecisionIsInItsPhase ==
  /\ phase \in {"lull", "push"} => outcome.reason = "none"
  /\ phase = "ended" => outcome.reason # "none"
  /\ phase = "recap" /\ outcome.reason = "none" => round < RoundLimit
  /\ round <= RoundLimit

FallsAreInThePast ==
  \A s \in Seats : eliminatedAt[s] # NotEliminated => eliminatedAt[s] \in 1..tick

Machine == /\ TickIsInItsPhase
           /\ DecisionIsInItsPhase
           /\ FallsAreInThePast
           /\ EliminationIsFinal
           /\ EveryRecapIsSettledOnce

(* The three ways RunMatch leaves the machine.                             *)
LEMMA MatchOutcomes ==
  ASSUME TypeOK, RunMatch
  PROVE  \/ /\ phase' = "recap" /\ outcome'.reason # "none"
            /\ settled' = settled + 1 /\ announced' = announced + 1
         \/ /\ phase' = "recap" /\ outcome' = outcome /\ round < RoundLimit
            /\ settled' = settled + 1 /\ announced' = announced
         \/ /\ phase' = phase /\ outcome' = outcome
            /\ settled' = settled /\ announced' = announced
<1>1. CASE MatchEnds
  <2>1. outcome'.reason # "none"
    <3>1. \E reason \in {"last_seat_standing", "no_survivor"},
             w \in Remaining \union Verdicts(AuditedNow) : Decide(reason, w)
      BY <1>1 DEF MatchEnds
    <3> QED BY <3>1 DEF Decide
  <2> QED BY <1>1, <2>1 DEF MatchEnds
<1>2. CASE SegmentEnds
  <2>1. CASE round >= RoundLimit
    <3>1. outcome'.reason # "none"
      BY <1>2, <2>1 DEF SegmentEnds, Decide
    <3> QED BY <1>2, <2>1, <3>1 DEF SegmentEnds
  <2>2. CASE ~(round >= RoundLimit)
    BY <1>2, <2>2, MatchAssumption DEF SegmentEnds, TypeOK
  <2> QED BY <2>1, <2>2
<1>3. CASE SegmentGoesOn
  BY <1>3 DEF SegmentGoesOn, history
<1> QED BY <1>1, <1>2, <1>3 DEF RunMatch

(* Settling the commanders leaves the eliminated ones dead and unbooked.   *)
LEMMA FallenCommandersStayDead ==
  ASSUME TypeOK, EliminationIsFinal, RunMatch,
         NEW s \in Seats, eliminatedAt'[s] # NotEliminated
  PROVE  commander'[s] # "alive" /\ respawnDue'[s] = NoRespawn
<1>1. PICK boundary \in BOOLEAN : SettleCommanders(boundary)
  BY DEF RunMatch, MatchEnds, SegmentEnds, SegmentGoesOn
<1>2. ~CanReturn(s) /\ ~Booked(s) /\ ~Returning(s) /\ ~Forced(boundary, s)
  BY DEF CanReturn, Booked, Returning, Forced
<1>3. /\ respawnDue'[s] = IF s \in NewlyFallen THEN NoRespawn ELSE respawnDue[s]
      /\ commander'[s] = IF s \in NewlyFallen /\ commander[s] = "alive"
                         THEN "dead" ELSE commander[s]
  BY <1>1, <1>2 DEF SettleCommanders
<1>4. s \in NewlyFallen \/ eliminatedAt[s] # NotEliminated
  BY DEF RunMatch, SettleEliminations
<1> QED BY <1>3, <1>4 DEF EliminationIsFinal

(* A new match has no open tick, no decision and no fallen seat.           *)
LEMMA InitMachine == Init => Machine
<1> SUFFICES ASSUME Init PROVE Machine
  OBVIOUS
<1>1. TickIsInItsPhase
  BY DEF Init, TickIsInItsPhase, TickIsOpen, Closed
<1>2. DecisionIsInItsPhase
  BY MatchAssumption DEF Init, DecisionIsInItsPhase, Undecided
<1>3. FallsAreInThePast /\ EliminationIsFinal
  BY DEF Init, FallsAreInThePast, EliminationIsFinal
<1>4. EveryRecapIsSettledOnce
  BY DEF Init, EveryRecapIsSettledOnce, Undecided
<1> QED BY <1>1, <1>2, <1>3, <1>4 DEF Machine

(* Damage takes nothing from an eliminated seat that it still had.         *)
LEMMA KillSpares ==
  ASSUME TypeOK, EliminationIsFinal, Kill,
         eliminatedAt' = eliminatedAt, respawnDue' = respawnDue
  PROVE  EliminationIsFinal'
BY DEF TypeOK, EliminationIsFinal, Kill

(* The phase of the tick and of the match go together.                     *)
LEMMA StepTickIsInItsPhase ==
  TypeOK /\ Machine /\ [Next]_vars => TickIsInItsPhase'
<1> SUFFICES ASSUME TypeOK, Machine, [Next]_vars PROVE TickIsInItsPhase'
  OBVIOUS
<1> USE DEF Machine, TickIsInItsPhase, TickIsOpen, Closed
<1>1. ASSUME NEW s \in Seats, SealPlaybook(s) PROVE TickIsInItsPhase'
  BY <1>1 DEF SealPlaybook, stateVars
<1>2. ASSUME NEW given \in SUBSET Seats, SeedLayout(given)
      PROVE  TickIsInItsPhase'
  BY <1>2 DEF SeedLayout, stateVars
<1>3. CASE BeginPush
  BY <1>3 DEF BeginPush
<1>4. CASE BeginTick
  BY <1>4 DEF BeginTick, stateVars, TypeOK
<1>5. CASE RunQuiet \/ RunCombat \/ RunDecision \/ RunVoxels
  <2>1. /\ openPhase \in 1..10 /\ openPhase' = openPhase + 1
        /\ phase' = phase /\ tick' = tick
    BY <1>5 DEF RunQuiet, RunCombat, RunDecision, RunVoxels, Running,
                PhaseOrder, stateVars, TypeOK
  <2> QED BY <2>1
<1>6. CASE VoxelsFails
  BY <1>6 DEF VoxelsFails, stateVars
<1>7. CASE RunMatch
  <2>1. openPhase = 11 /\ openPhase' = 12 /\ tick' = tick
    BY <1>7 DEF RunMatch, Running, PhaseOrder, TypeOK
  <2>2. phase' \in {"push", "recap"}
    BY <1>7, <2>1, MatchOutcomes
  <2> QED BY <2>1, <2>2
<1>8. CASE EndTick
  BY <1>8 DEF EndTick
<1>9. CASE EndRecap
  BY <1>9 DEF EndRecap
<1>10. CASE UNCHANGED vars
  BY <1>10 DEF vars, stateVars
<1> QED BY <1>1, <1>2, <1>3, <1>4, <1>5, <1>6, <1>7, <1>8, <1>9, <1>10 DEF Next

(* A decision and a round are where their phase says.                      *)
LEMMA StepDecisionIsInItsPhase ==
  TypeOK /\ Machine /\ [Next]_vars =>
    DecisionIsInItsPhase' /\ EveryRecapIsSettledOnce'
<1> SUFFICES ASSUME TypeOK, Machine, [Next]_vars
             PROVE  DecisionIsInItsPhase' /\ EveryRecapIsSettledOnce'
  OBVIOUS
<1> USE DEF Machine, DecisionIsInItsPhase, EveryRecapIsSettledOnce
<1>1. CASE UNCHANGED <<phase, round, outcome, settled, announced>>
  BY <1>1
<1>2. CASE BeginPush
  BY <1>2 DEF BeginPush, history, hostVars
<1>3. CASE RunMatch
  <2>1. openPhase = 11 /\ round' = round
    BY <1>3 DEF RunMatch, Running, TickIsOpen, Closed, PhaseOrder, TypeOK
  <2>2. phase = "push"
    BY <2>1 DEF TickIsInItsPhase
  <2> QED BY <1>3, <2>1, <2>2, MatchOutcomes DEF TypeOK
<1>4. CASE EndRecap
  <2>1. phase = "recap" /\ settled' = settled
    BY <1>4 DEF EndRecap, history
  <2>2. ~(outcome.reason = "none" /\ round >= RoundLimit)
    BY <2>1, MatchAssumption DEF TypeOK
  <2>3. outcome' = outcome /\ announced' = announced
    BY <1>4, <2>2 DEF EndRecap
  <2>4. CASE outcome.reason # "none"
    BY <1>4, <2>1, <2>3, <2>4 DEF EndRecap
  <2>5. CASE outcome.reason = "none"
    <3>1. phase' = "lull" /\ round' = round + 1 /\ round < RoundLimit
      BY <1>4, <2>1, <2>5, MatchAssumption DEF EndRecap, TypeOK
    <3> QED BY <2>1, <2>3, <2>5, <3>1, MatchAssumption DEF TypeOK
  <2> QED BY <2>4, <2>5
<1>5. ASSUME NEW s \in Seats, SealPlaybook(s)
      PROVE  UNCHANGED <<phase, round, outcome, settled, announced>>
  BY <1>5 DEF SealPlaybook, stateVars, history
<1>6. ASSUME NEW given \in SUBSET Seats, SeedLayout(given)
      PROVE  UNCHANGED <<phase, round, outcome, settled, announced>>
  BY <1>6 DEF SeedLayout, stateVars, history
<1>7. CASE \/ BeginTick \/ RunQuiet \/ RunCombat \/ RunDecision \/ RunVoxels
           \/ VoxelsFails \/ EndTick
  BY <1>1, <1>7 DEF BeginTick, RunQuiet, RunCombat, RunDecision, RunVoxels,
                    VoxelsFails, EndTick, stateVars, history
<1>8. CASE UNCHANGED vars
  BY <1>1, <1>8 DEF vars, stateVars, history
<1> QED BY <1>1, <1>2, <1>3, <1>4, <1>5, <1>6, <1>7, <1>8 DEF Next

(* Nothing gives an eliminated seat a beacon, a commander or a respawn.    *)
LEMMA StepElimination ==
  TypeOK /\ Machine /\ [Next]_vars => FallsAreInThePast' /\ EliminationIsFinal'
<1> SUFFICES ASSUME TypeOK, Machine, [Next]_vars
             PROVE  FallsAreInThePast' /\ EliminationIsFinal'
  OBVIOUS
<1> USE DEF Machine
<1>1. CASE UNCHANGED <<tick, eliminatedAt, beacons, commander, respawnDue>>
  BY <1>1 DEF FallsAreInThePast, EliminationIsFinal
<1>2. ASSUME NEW given \in SUBSET Seats, SeedLayout(given)
      PROVE  FallsAreInThePast' /\ EliminationIsFinal'
  <2>1. \A s \in Seats : eliminatedAt[s] = NotEliminated
    BY <1>2 DEF SeedLayout, InTheLobby, FallsAreInThePast, TypeOK
  <2> QED BY <1>2, <2>1 DEF SeedLayout, FallsAreInThePast, EliminationIsFinal
<1>3. CASE BeginPush
  BY <1>3 DEF BeginPush, FallsAreInThePast, EliminationIsFinal, TypeOK
<1>4. CASE BeginTick
  BY <1>4 DEF BeginTick, seatVars, FallsAreInThePast, EliminationIsFinal, TypeOK
<1>5. CASE RunCombat \/ RunVoxels \/ VoxelsFails
  <2>1. /\ Kill /\ tick' = tick /\ eliminatedAt' = eliminatedAt
        /\ respawnDue' = respawnDue
    BY <1>5 DEF RunCombat, RunVoxels, VoxelsFails
  <2> QED BY <2>1, KillSpares DEF FallsAreInThePast
<1>6. CASE RunDecision
  <2>1. \A s \in Seats : eliminatedAt[s] # NotEliminated => beacons'[s] = beacons[s]
    BY <1>6 DEF RunDecision, DecisionResults, Decides
  <2> QED BY <1>6, <2>1 DEF RunDecision, FallsAreInThePast, EliminationIsFinal
<1>7. CASE RunMatch
  <2>1. \A s \in Seats : eliminatedAt'[s] = IF s \in NewlyFallen THEN tick
                                             ELSE eliminatedAt[s]
    BY <1>7 DEF RunMatch, SettleEliminations
  <2>2. tick >= 1 /\ tick' = tick /\ tick \in Nat
    BY <1>7 DEF RunMatch, Running, TickIsInItsPhase, TypeOK
  <2>3. FallsAreInThePast'
    BY <2>1, <2>2 DEF FallsAreInThePast
  <2>4. ASSUME NEW s \in Seats, eliminatedAt'[s] # NotEliminated
        PROVE  beacons'[s] = {}
    <3>1. beacons' = beacons
      BY <1>7 DEF RunMatch
    <3>2. s \in NewlyFallen => beacons[s] = {}
      BY DEF NewlyFallen, Fallen, Standing
    <3> QED BY <2>1, <2>4, <3>1, <3>2 DEF EliminationIsFinal
  <2> QED BY <1>7, <2>3, <2>4, FallenCommandersStayDead DEF EliminationIsFinal
<1>8. ASSUME NEW s \in Seats, SealPlaybook(s)
      PROVE  UNCHANGED <<tick, eliminatedAt, beacons, commander, respawnDue>>
  BY <1>8 DEF SealPlaybook, seatVars
<1>9. CASE RunQuiet \/ EndTick \/ EndRecap
  BY <1>1, <1>9 DEF RunQuiet, EndTick, EndRecap, seatVars
<1>10. CASE UNCHANGED vars
  BY <1>1, <1>10 DEF vars, seatVars
<1> QED BY <1>1, <1>2, <1>3, <1>4, <1>5, <1>6, <1>7, <1>8, <1>9, <1>10 DEF Next

(* The inductive invariant: a tick is open only in a Push, or on its way   *)
(* into the recap, a decision is where its phase says, falls are in the    *)
(* past, and what two of the theorems below state.                         *)
THEOREM MachineHolds == Spec => [](TypeOK /\ Machine)
<1>1. TypeOK /\ Machine /\ [Next]_vars => Machine'
  BY StepTickIsInItsPhase, StepDecisionIsInItsPhase, StepElimination DEF Machine
<1> QED BY <1>1, InitTyped, StepTyped, InitMachine, PTL DEF Spec

(* An eliminated seat is out for good: whatever is deployed, respawned or  *)
(* laid out afterwards, it holds no beacon and its commander stays dead.   *)
THEOREM EliminationIsForGood == Spec => []EliminationIsFinal
BY MachineHolds, PTL DEF Machine

(* However the match goes, each recap settles the Ledger once and the end  *)
(* of the match is announced once.                                         *)
THEOREM RecapsAreSettledOnce == Spec => []EveryRecapIsSettledOnce
BY MachineHolds, PTL DEF Machine

(* Once decided the match stands: no call rewrites the outcome, opens      *)
(* another tick or leads back to a Lull.                                   *)
THEOREM DecisionIsFinal == Spec => DecidedMatchStands
<1>1. TypeOK /\ Machine /\ [Next]_vars =>
        [outcome.reason # "none" =>
           /\ outcome' = outcome
           /\ tick' = tick
           /\ phase' \in {"recap", "ended"}]_vars
  <2> SUFFICES ASSUME TypeOK, Machine, Next, outcome.reason # "none"
               PROVE  /\ outcome' = outcome
                      /\ tick' = tick
                      /\ phase' \in {"recap", "ended"}
    BY DEF vars, stateVars
  <2>1. phase \in {"recap", "ended"}
    BY DEF Machine, DecisionIsInItsPhase, TypeOK, MatchPhases
  <2>2. ~BeginPush /\ ~BeginTick
    BY <2>1 DEF BeginPush, BeginTick
  <2>3. ~RunMatch
    BY <2>1 DEF RunMatch, Running, PhaseOrder, TickIsOpen, Closed, TypeOK,
                Machine, TickIsInItsPhase
  <2>4. CASE EndRecap
    BY <2>4 DEF EndRecap
  <2>5. ASSUME NEW s \in Seats, SealPlaybook(s)
        PROVE  UNCHANGED <<outcome, tick, phase>>
    BY <2>5 DEF SealPlaybook, stateVars
  <2>6. ASSUME NEW given \in SUBSET Seats, SeedLayout(given)
        PROVE  UNCHANGED <<outcome, tick, phase>>
    BY <2>6 DEF SeedLayout, stateVars
  <2>7. CASE \/ RunQuiet \/ RunCombat \/ RunDecision \/ RunVoxels
             \/ VoxelsFails \/ EndTick
    BY <2>1, <2>7 DEF RunQuiet, RunCombat, RunDecision, RunVoxels,
                      VoxelsFails, EndTick, stateVars
  <2> QED BY <2>1, <2>2, <2>3, <2>4, <2>5, <2>6, <2>7 DEF Next
<1> QED BY <1>1, MachineHolds, PTL DEF Spec, DecidedMatchStands

(* What the seats seal against does not move under them.                   *)
THEOREM PlansAreSealedOnAStandingBoard == Spec => SealedBoardStands
<1>1. TypeOK /\ Machine /\ [Next]_vars =>
        [phase = "lull" /\ phase' = "lull" /\ sealed # {} =>
           frozen' = frozen]_vars
  <2> SUFFICES ASSUME TypeOK, Machine, Next, phase = "lull", sealed # {}
               PROVE  frozen' = frozen
    BY DEF vars, hostVars
  <2>1. ~EndTick
    BY DEF EndTick, Running, PhaseOrder, TickIsOpen, Closed, TypeOK,
           Machine, TickIsInItsPhase
  <2>2. ASSUME NEW given \in SUBSET Seats PROVE ~SeedLayout(given)
    BY DEF SeedLayout, InTheLobby
  <2>3. ASSUME NEW s \in Seats, SealPlaybook(s) PROVE frozen' = frozen
    BY <2>3 DEF SealPlaybook
  <2> QED BY <2>1, <2>2, <2>3 DEF Next, BeginPush, BeginTick, RunQuiet,
             RunCombat, RunDecision, RunVoxels, VoxelsFails, RunMatch,
             EndRecap, hostVars
<1> QED BY <1>1, MachineHolds, PTL DEF Spec, SealedBoardStands

(* The match machine is a MatchCycle: every step of a seat or of the host  *)
(* opens a Push, closes one, ends a recap in the promised way, or is       *)
(* nothing the cycle sees.                                                 *)
THEOREM MatchImplementsCycle == Spec => CycleSpec
<1>1. Init => Cycle!Init
  BY DEF Init, Cycle!Init, Undecided
<1>2. TypeOK /\ Machine /\ [Next]_vars => [Cycle!Next]_(Cycle!vars)
  <2> SUFFICES ASSUME TypeOK, Machine, [Next]_vars
               PROVE  [Cycle!Next]_(Cycle!vars)
    OBVIOUS
  <2> USE DEF Cycle!Next, Cycle!vars
  <2>1. CASE UNCHANGED <<phase, round, outcome>>
    BY <2>1
  <2>2. CASE BeginPush
    BY <2>2 DEF BeginPush, Cycle!OpenPush
  <2>3. CASE RunMatch
    <3>1. phase = "push" /\ outcome.reason = "none" /\ round' = round
      BY <2>3 DEF RunMatch, Running, TickIsOpen, Closed, PhaseOrder, TypeOK,
                  Machine, TickIsInItsPhase, DecisionIsInItsPhase
    <3>2. CASE phase' = "recap"
      BY <2>3, <3>1, <3>2, MatchOutcomes, MatchAssumption
         DEF Cycle!ClosePush, TypeOK
    <3>3. CASE phase' = phase /\ outcome' = outcome
      BY <3>1, <3>3
    <3> QED BY <2>3, <3>2, <3>3, MatchOutcomes
  <2>4. CASE EndRecap
    <3>1. phase = "recap" /\ ~(outcome.reason = "none" /\ round >= RoundLimit)
      BY <2>4, MatchAssumption
         DEF EndRecap, Machine, DecisionIsInItsPhase, TypeOK
    <3>2. outcome' = outcome
      BY <2>4, <3>1 DEF EndRecap
    <3>3. CASE outcome.reason = "none"
      BY <2>4, <3>1, <3>2, <3>3 DEF EndRecap, Cycle!NextRound
    <3>4. CASE outcome.reason # "none"
      BY <2>4, <3>1, <3>2, <3>4 DEF EndRecap, Cycle!End
    <3> QED BY <3>3, <3>4
  <2>5. ASSUME NEW s \in Seats, SealPlaybook(s)
        PROVE  UNCHANGED <<phase, round, outcome>>
    BY <2>5 DEF SealPlaybook, stateVars
  <2>6. ASSUME NEW given \in SUBSET Seats, SeedLayout(given)
        PROVE  UNCHANGED <<phase, round, outcome>>
    BY <2>6 DEF SeedLayout, stateVars
  <2>7. CASE \/ BeginTick \/ RunQuiet \/ RunCombat \/ RunDecision \/ RunVoxels
             \/ VoxelsFails \/ EndTick
    BY <2>1, <2>7 DEF BeginTick, RunQuiet, RunCombat, RunDecision, RunVoxels,
                      VoxelsFails, EndTick, stateVars
  <2>8. CASE UNCHANGED vars
    BY <2>1, <2>8 DEF vars, stateVars
  <2> QED BY <2>1, <2>2, <2>3, <2>4, <2>5, <2>6, <2>7, <2>8 DEF Next
<1> QED BY <1>1, <1>2, MachineHolds, PTL DEF Spec, CycleSpec, Cycle!Spec

----------------------------------------------------------------------------
(* Who is left to win: the outcome.                                        *)

(* At least two seats are in the match.                                    *)
TwoIn == \E s, t \in Seats : s # t /\ IsInMatch(s) /\ IsInMatch(t)

(* What stands was placed.                                                 *)
PlacedBeforeStanding == \A s \in Seats : Standing(s) => placed[s] > 0

(* A Push starts at a tick that was, and is open for one after it.         *)
SegmentIsUnderWay == /\ segStarted <= tick
                     /\ TickIsOpen /\ phase = "push" => segStarted < tick

(* Whenever the match goes on, two seats are in it: but for the time from  *)
(* a tick's first phase to its Match phase, and before the first tick.     *)
TwoGoOn ==
  /\ phase = "push" /\ openPhase = Closed /\ segStarted < tick => TwoIn
  /\ phase = "push" /\ openPhase = 12 => TwoIn
  /\ phase = "recap" /\ outcome.reason = "none" => TwoIn
  /\ phase = "lull" /\ round > 1 => TwoIn

(* While nothing is decided, the seats that fell left one that had not.    *)
SomebodyOutlived ==
  outcome.reason = "none" /\ (\E s \in Seats : eliminatedAt[s] # NotEliminated) =>
    \E t \in Seats : eliminatedAt[t] = NotEliminated /\ placed[t] > 0

(* The outcome, once there is one, is what the tables say.                 *)
OutcomeFits ==
  LET w == outcome.winner IN
  /\ outcome.reason = "last_seat_standing" => Remaining = {w}
  /\ outcome.reason = "round_limit" =>
       w \in Remaining \union {NoSeat} /\ round = RoundLimit
  /\ outcome.reason = "no_survivor" =>
       w = NoSeat \/ eliminatedAt[w] = outcome.at

Contest == /\ PlacedBeforeStanding
           /\ SegmentIsUnderWay
           /\ TwoGoOn
           /\ SomebodyOutlived
           /\ OutcomeFits

(* Nobody is in or out but by a beacon or an elimination.                  *)
LEMMA RemainingStay ==
  ASSUME UNCHANGED <<beacons, eliminatedAt>>
  PROVE  Remaining' = Remaining /\ (TwoIn' <=> TwoIn)
BY DEF Remaining, TwoIn, IsInMatch, Standing

(* Settling the eliminations of a tick takes nobody who was still in.      *)
LEMMA SettlingTakesTheFallen ==
  ASSUME TypeOK, RunMatch
  PROVE  /\ \A s \in Seats : eliminatedAt'[s] = IF s \in NewlyFallen THEN tick
                                                 ELSE eliminatedAt[s]
         /\ Remaining' = Remaining /\ (TwoIn' <=> TwoIn)
<1>1. \A s \in Seats : eliminatedAt'[s] = IF s \in NewlyFallen THEN tick
                                           ELSE eliminatedAt[s]
  BY DEF RunMatch, SettleEliminations
<1>2. beacons' = beacons /\ tick \in Nat
  BY DEF RunMatch, TypeOK
<1>3. \A s \in Seats : IsInMatch(s)' <=> IsInMatch(s)
  BY <1>1, <1>2 DEF IsInMatch, Standing, NewlyFallen, Fallen, NotEliminated
<1> QED BY <1>1, <1>3 DEF Remaining, TwoIn

(* With no fewer than two remaining, two are in.                          *)
LEMMA TwoOrFewer == ~FewerThanTwo => TwoIn
BY DEF FewerThanTwo, Remaining, TwoIn

(* The steps that leave everything the contest is about alone.             *)
LEMMA ContestStays ==
  ASSUME Contest,
         UNCHANGED <<phase, round, segStarted, outcome, tick, openPhase, placed,
                     beacons, eliminatedAt>>
  PROVE  Contest'
<1>1. Remaining' = Remaining /\ (TwoIn' <=> TwoIn)
  BY RemainingStay
<1>2. PlacedBeforeStanding' /\ SegmentIsUnderWay' /\ SomebodyOutlived'
  BY DEF Contest, PlacedBeforeStanding, SegmentIsUnderWay, SomebodyOutlived,
         Standing, TickIsOpen
<1>3. TwoGoOn'
  BY <1>1 DEF Contest, TwoGoOn
<1>4. OutcomeFits'
  BY <1>1 DEF Contest, OutcomeFits
<1> QED BY <1>2, <1>3, <1>4 DEF Contest

(* Before anything has happened nobody has fallen.                         *)
LEMMA InitContest == Init => Contest
<1> SUFFICES ASSUME Init PROVE Contest
  OBVIOUS
<1>1. PlacedBeforeStanding
  BY DEF Init, PlacedBeforeStanding, Standing
<1>2. SegmentIsUnderWay /\ TwoGoOn /\ SomebodyOutlived /\ OutcomeFits
  BY DEF Init, SegmentIsUnderWay, TwoGoOn, SomebodyOutlived, OutcomeFits,
         Undecided, TickIsOpen, Closed
<1> QED BY <1>1, <1>2 DEF Contest

(* A phase in the middle of a tick kills or builds, and decides nothing.   *)
LEMMA PhasesBeforeMatch ==
  ASSUME TypeOK, Machine,
         RunQuiet \/ RunCombat \/ RunDecision \/ RunVoxels \/ VoxelsFails
  PROVE  /\ phase = "push" /\ outcome.reason = "none"
         /\ openPhase' \in 1..11 /\ TickIsOpen
         /\ UNCHANGED <<phase, round, segStarted, outcome, tick, eliminatedAt>>
<1>1. /\ openPhase \in 1..10 /\ openPhase' \in {openPhase, openPhase + 1}
      /\ UNCHANGED <<phase, round, segStarted, outcome, tick, eliminatedAt>>
  BY DEF RunQuiet, RunCombat, RunDecision, RunVoxels, VoxelsFails, Running,
         TickIsOpen, Closed, PhaseOrder, stateVars, seatVars, TypeOK
<1> QED BY <1>1 DEF Machine, TickIsInItsPhase, DecisionIsInItsPhase, TickIsOpen, Closed

(* What those phases build is counted as placed.                           *)
LEMMA BuiltIsPlaced ==
  ASSUME TypeOK, PlacedBeforeStanding,
         RunQuiet \/ RunCombat \/ RunDecision \/ RunVoxels \/ VoxelsFails
  PROVE  /\ PlacedBeforeStanding'
         /\ \A s \in Seats : placed'[s] >= placed[s]
<1>1. CASE RunQuiet
  BY <1>1 DEF RunQuiet, seatVars, PlacedBeforeStanding, Standing, TypeOK
<1>2. CASE RunCombat \/ RunVoxels \/ VoxelsFails
  BY <1>2 DEF RunCombat, RunVoxels, VoxelsFails, Kill, PlacedBeforeStanding,
              Standing, TypeOK
<1>3. CASE RunDecision
  <2>1. beacons' \in [Seats -> SUBSET Beacons]
    BY <1>3 DEF RunDecision
  <2>2. ASSUME NEW s \in Seats
        PROVE  /\ placed'[s] >= placed[s]
               /\ Standing(s)' => placed'[s] > 0
    <3>1. Cardinality(beacons'[s] \ beacons[s]) \in Nat
      BY <2>1, DifferencesAreCounted
    <3>2. placed'[s] = placed[s] + Cardinality(beacons'[s] \ beacons[s])
      BY <1>3 DEF RunDecision
    <3>3. placed[s] \in Nat
      BY DEF TypeOK
    <3>4. CASE beacons[s] # {}
      BY <3>1, <3>2, <3>3, <3>4 DEF PlacedBeforeStanding, Standing
    <3>5. CASE beacons[s] = {}
      <4>1. IsFiniteSet(beacons'[s] \ beacons[s])
        BY <2>1, MatchAssumption, FS_Subset, beacons'[s] \ beacons[s] \subseteq Beacons
      <4>2. beacons'[s] # {} => Cardinality(beacons'[s] \ beacons[s]) # 0
        BY <3>5, <4>1, FS_EmptySet
      <4> QED BY <3>1, <3>2, <3>3, <4>2 DEF Standing
    <3> QED BY <3>4, <3>5
  <2> QED BY <2>2 DEF PlacedBeforeStanding
<1> QED BY <1>1, <1>2, <1>3

(* The outcome the Match phase writes is the one the tick has earned.      *)
LEMMA DecisionIsEarned ==
  ASSUME TypeOK, Machine, Contest, RunMatch, outcome.reason = "none"
  PROVE  OutcomeFits'
<1> USE DEF OutcomeFits
<1>1. /\ Remaining' = Remaining /\ round' = round
      /\ \A s \in Seats : eliminatedAt'[s] = IF s \in NewlyFallen THEN tick
                                              ELSE eliminatedAt[s]
  BY SettlingTakesTheFallen DEF RunMatch
<1>2. CASE MatchEnds /\ Remaining # {}
  <2>1. PICK w \in Remaining :
          outcome' = [reason |-> "last_seat_standing", winner |-> w, at |-> tick]
    BY <1>2 DEF MatchEnds, Decide
  <2>2. Remaining = {w}
    BY <1>2 DEF MatchEnds, FewerThanTwo
  <2> QED BY <1>1, <2>1, <2>2
<1>3. CASE MatchEnds /\ Remaining = {}
  <2>1. PICK w \in Verdicts(AuditedNow) :
          outcome' = [reason |-> "no_survivor", winner |-> w, at |-> tick]
    BY <1>3 DEF MatchEnds, Decide
  <2>2. CASE w \in AuditedNow
    <3>1. /\ w \in Seats /\ eliminatedAt'[w] # NotEliminated
          /\ \A t \in Seats : eliminatedAt'[t] <= eliminatedAt'[w]
      BY <1>3, <2>2 DEF AuditedNow
    <3>2. CASE w \in NewlyFallen
      BY <1>1, <2>1, <3>1, <3>2
    <3>3. CASE w \notin NewlyFallen
      <4>1. eliminatedAt[w] # NotEliminated
        BY <1>1, <3>1, <3>3
      <4>2. PICK t \in Seats : eliminatedAt[t] = NotEliminated /\ placed[t] > 0
        BY <3>1, <4>1 DEF Contest, SomebodyOutlived
      <4>3. t \in NewlyFallen
        BY <1>3, <4>2 DEF NewlyFallen, Fallen, Remaining, IsInMatch
      <4>4. eliminatedAt'[t] = tick /\ eliminatedAt'[w] = eliminatedAt[w]
        BY <1>1, <3>1, <3>3, <4>3
      <4>5. tick <= eliminatedAt[w] /\ eliminatedAt[w] \in 1..tick /\ tick \in Nat
        BY <3>1, <4>1, <4>4 DEF Machine, FallsAreInThePast, TypeOK
      <4>6. eliminatedAt'[w] = tick
        BY <4>4, <4>5
      <4> QED BY <2>1, <4>6
    <3> QED BY <3>2, <3>3
  <2>3. CASE w \notin AuditedNow
    BY <2>1, <2>3 DEF Verdicts
  <2> QED BY <2>2, <2>3
<1>4. CASE SegmentEnds /\ round >= RoundLimit
  <2>1. PICK w \in Verdicts(AuditedNow) :
          outcome' = [reason |-> "round_limit", winner |-> w, at |-> tick]
    BY <1>4 DEF SegmentEnds, Decide
  <2>2. AuditedNow = Remaining
    BY <1>4 DEF SegmentEnds, FewerThanTwo, AuditedNow
  <2>3. w \in Remaining \union {NoSeat}
    BY <2>1, <2>2 DEF Verdicts
  <2>4. round = RoundLimit
    BY <1>4, MatchAssumption DEF Machine, DecisionIsInItsPhase, TypeOK
  <2> QED BY <1>1, <2>1, <2>3, <2>4
<1>5. CASE outcome' = outcome
  BY <1>5
<1> QED BY <1>2, <1>3, <1>4, <1>5
        DEF RunMatch, SegmentEnds, SegmentGoesOn

(* The Match phase goes on only with two in, and decides otherwise.        *)
LEMMA MatchPhaseKeepsContest ==
  ASSUME TypeOK, Machine, Contest, RunMatch
  PROVE  Contest'
<1>1. /\ openPhase' = 12 /\ phase = "push" /\ outcome.reason = "none"
      /\ tick > segStarted /\ openPhase = 11
      /\ UNCHANGED <<round, tick, placed, beacons>>
  BY DEF RunMatch, Running, TickIsOpen, Closed, PhaseOrder, TypeOK, Machine,
         TickIsInItsPhase, DecisionIsInItsPhase, Contest, SegmentIsUnderWay
<1>2. /\ \A s \in Seats : eliminatedAt'[s] = IF s \in NewlyFallen THEN tick
                                              ELSE eliminatedAt[s]
      /\ Remaining' = Remaining /\ (TwoIn' <=> TwoIn)
  BY SettlingTakesTheFallen
<1>3. PlacedBeforeStanding'
  BY <1>1 DEF Contest, PlacedBeforeStanding, Standing
<1>4. SegmentIsUnderWay'
  <2>1. segStarted' \in {segStarted, tick} /\ (phase' = "push" => segStarted' = segStarted)
    BY DEF RunMatch, MatchEnds, SegmentEnds, SegmentGoesOn
  <2> QED BY <1>1, <2>1 DEF SegmentIsUnderWay, TypeOK
<1>5. phase' = "push" \/ outcome'.reason = "none" => TwoIn
  <2>1. CASE MatchEnds
    <3>1. phase' = "recap" /\ outcome'.reason # "none"
      <4>1. phase' = "recap" /\ announced' = announced + 1
        BY <2>1 DEF MatchEnds
      <4>2. \E reason \in {"last_seat_standing", "no_survivor"},
               w \in Remaining \union Verdicts(AuditedNow) : Decide(reason, w)
        BY <2>1 DEF MatchEnds
      <4> QED BY <4>1, <4>2 DEF Decide
    <3> QED BY <3>1
  <2>2. CASE ~FewerThanTwo
    BY <2>2, TwoOrFewer
  <2> QED BY <2>1, <2>2 DEF RunMatch, SegmentEnds, SegmentGoesOn
<1>6. phase' \in {"push", "recap"}
  BY <1>1 DEF RunMatch, MatchEnds, SegmentEnds, SegmentGoesOn
<1>7. TwoGoOn'
  BY <1>1, <1>2, <1>5, <1>6 DEF TwoGoOn, Closed
<1>8. SomebodyOutlived'
  <2> SUFFICES ASSUME outcome'.reason = "none"
               PROVE  \E t \in Seats : eliminatedAt'[t] = NotEliminated /\ placed'[t] > 0
    BY DEF SomebodyOutlived
  <2>1. PICK t \in Seats : IsInMatch(t)
    BY <1>5 DEF TwoIn
  <2>2. placed[t] > 0 /\ eliminatedAt[t] = NotEliminated /\ t \notin NewlyFallen
    BY <2>1 DEF IsInMatch, Contest, PlacedBeforeStanding, NewlyFallen, Fallen
  <2> QED BY <1>1, <1>2, <2>2
<1>9. OutcomeFits'
  BY <1>1, DecisionIsEarned
<1> QED BY <1>3, <1>4, <1>7, <1>8, <1>9 DEF Contest

(* Every other step of the host and of the tick keeps it too.              *)
LEMMA StepContest == TypeOK /\ Machine /\ Contest /\ [Next]_vars => Contest'
<1> SUFFICES ASSUME TypeOK, Machine, Contest, [Next]_vars PROVE Contest'
  OBVIOUS
<1>1. ASSUME NEW s \in Seats, SealPlaybook(s) PROVE Contest'
  BY <1>1, ContestStays DEF SealPlaybook, stateVars, seatVars
<1>2. ASSUME NEW given \in (SUBSET {s \in Seats : placed[s] > 0}) \ {{}},
             SeedLayout(given)
      PROVE  Contest'
  <2>1. /\ phase = "lull" /\ round = 1 /\ outcome.reason = "none"
        /\ UNCHANGED <<phase, round, segStarted, outcome, tick, openPhase, eliminatedAt>>
    BY <1>2 DEF SeedLayout, InTheLobby, stateVars, Machine, DecisionIsInItsPhase
  <2>2. \A s \in Seats : placed'[s] >= placed[s] /\
          (placed'[s] > 0 \/ beacons'[s] = beacons[s])
    BY <1>2 DEF SeedLayout, TypeOK
  <2>3. placed \in [Seats -> Nat] /\ placed' \in [Seats -> Nat]
    BY StepTyped DEF TypeOK
  <2>4. PlacedBeforeStanding'
    BY <2>2, <2>3 DEF PlacedBeforeStanding, Standing, Contest
  <2>5. SomebodyOutlived'
    <3>1. \A t \in Seats : placed[t] > 0 => placed'[t] > 0
      BY <2>2, <2>3
    <3> QED BY <2>1, <3>1 DEF SomebodyOutlived, Contest
  <2> QED BY <2>1, <2>4, <2>5 DEF Contest, SegmentIsUnderWay, TickIsOpen,
                                  TwoGoOn, OutcomeFits
<1>3. CASE BeginPush
  <2>1. Remaining' = Remaining /\ (TwoIn' <=> TwoIn)
    BY <1>3, RemainingStay DEF BeginPush
  <2> QED BY <1>3, <2>1
          DEF BeginPush, Contest, PlacedBeforeStanding, Standing,
              SegmentIsUnderWay, TwoGoOn, SomebodyOutlived, OutcomeFits,
              TickIsOpen, Closed, TypeOK
<1>4. CASE BeginTick
  <2>1. Remaining' = Remaining /\ (TwoIn' <=> TwoIn)
    BY <1>4, RemainingStay DEF BeginTick, seatVars
  <2> QED BY <1>4, <2>1
          DEF BeginTick, Contest, PlacedBeforeStanding, Standing, stateVars,
              seatVars, SegmentIsUnderWay, TwoGoOn, SomebodyOutlived,
              OutcomeFits, TickIsOpen, Closed, TypeOK
<1>5. CASE RunQuiet \/ RunCombat \/ RunDecision \/ RunVoxels \/ VoxelsFails
  <2>1. /\ phase = "push" /\ outcome.reason = "none"
        /\ openPhase' \in 1..11 /\ TickIsOpen
        /\ UNCHANGED <<phase, round, segStarted, outcome, tick, eliminatedAt>>
    BY <1>5, PhasesBeforeMatch
  <2>2. /\ PlacedBeforeStanding'
        /\ \A s \in Seats : placed'[s] >= placed[s]
    BY <1>5, BuiltIsPlaced DEF Contest
  <2>3. SegmentIsUnderWay' /\ TwoGoOn' /\ OutcomeFits'
    BY <2>1 DEF Contest, SegmentIsUnderWay, TwoGoOn, OutcomeFits, Closed
  <2>4. SomebodyOutlived'
    <3>1. placed \in [Seats -> Nat] /\ placed' \in [Seats -> Nat]
      BY StepTyped DEF TypeOK
    <3> QED BY <2>1, <2>2, <3>1 DEF SomebodyOutlived, Contest
  <2> QED BY <2>2, <2>3, <2>4 DEF Contest
<1>6. CASE RunMatch
  BY <1>6, MatchPhaseKeepsContest
<1>7. CASE EndTick
  <2>1. Remaining' = Remaining /\ (TwoIn' <=> TwoIn)
    BY <1>7, RemainingStay DEF EndTick, seatVars
  <2>2. openPhase = 12
    BY <1>7 DEF EndTick, Running, PhaseOrder, TickIsOpen, Closed, TypeOK
  <2> QED BY <1>7, <2>1, <2>2
          DEF EndTick, Contest, PlacedBeforeStanding, Standing, stateVars,
              seatVars, SegmentIsUnderWay, TwoGoOn, SomebodyOutlived,
              OutcomeFits, TickIsOpen, Closed
<1>8. CASE EndRecap
  <2>1. Remaining' = Remaining /\ (TwoIn' <=> TwoIn)
    BY <1>8, RemainingStay DEF EndRecap, seatVars
  <2>2. phase = "recap" /\ ~(outcome.reason = "none" /\ round >= RoundLimit)
    BY <1>8, MatchAssumption DEF EndRecap, Machine, DecisionIsInItsPhase, TypeOK
  <2>3. outcome' = outcome /\ (outcome.reason # "none" => round' = round)
    BY <1>8, <2>2 DEF EndRecap
  <2> QED BY <1>8, <2>1, <2>2, <2>3
          DEF EndRecap, Contest, PlacedBeforeStanding, Standing, seatVars,
              SegmentIsUnderWay, TwoGoOn, SomebodyOutlived, OutcomeFits,
              TickIsOpen, Closed
<1>9. CASE UNCHANGED vars
  BY <1>9, ContestStays DEF vars, stateVars, seatVars
<1> QED BY <1>1, <1>2, <1>3, <1>4, <1>5, <1>6, <1>7, <1>8, <1>9 DEF Next

(* Two seats in the match are two of the remaining.                        *)
LEMMA TwoAreCounted == TwoIn => Cardinality(Remaining) >= 2
<1> SUFFICES ASSUME TwoIn PROVE Cardinality(Remaining) >= 2
  OBVIOUS
<1>1. PICK s, t \in Seats : s # t /\ IsInMatch(s) /\ IsInMatch(t)
  BY DEF TwoIn
<1>2. IsFiniteSet(Remaining)
  BY MatchAssumption, FS_Subset, Remaining \subseteq Seats DEF Remaining
<1>3. IsFiniteSet({s}) /\ Cardinality({s}) = 1
  BY FS_Singleton
<1>4. Cardinality({s} \union {t}) = 2
  BY <1>1, <1>3, FS_AddElement
<1>5. {s} \union {t} \in SUBSET Remaining
  BY <1>1 DEF Remaining
<1>6. Cardinality({s} \union {t}) <= Cardinality(Remaining)
  BY <1>2, <1>5, FS_Subset
<1>7. Cardinality(Remaining) \in Nat
  BY <1>2, FS_CardinalityType
<1> QED BY <1>4, <1>6, <1>7

(* For any number of seats: the match goes on between ticks only with two  *)
(* in it, and the outcome names the one left, one of those that survived   *)
(* to the round limit, or one of the last to fall.                         *)
THEOREM OutcomesAreEarned == Spec => []OutcomeIsEarned
<1>1. TypeOK /\ Machine /\ Contest => OutcomeIsEarned
  BY TwoAreCounted
     DEF Contest, TwoGoOn, OutcomeFits, OutcomeIsEarned, TickIsOpen
<1>2. Spec => []Contest
  BY InitContest, StepContest, MachineHolds, PTL DEF Spec
<1> QED BY <1>1, <1>2, MachineHolds, PTL

----------------------------------------------------------------------------
(* Commanders who die and come back.                                       *)

(* A respawn is pending only for a dead commander, and nobody has died     *)
(* before the first tick.                                                  *)
DueIsForTheDead ==
  /\ \A s \in Seats : respawnDue[s] # NoRespawn => commander[s] = "dead"
  /\ tick = 0 => \A s \in Seats : commander[s] # "dead"

(* From the Match phase on, every death of a seat still in is booked, and  *)
(* none is left to book once the Push is over.                             *)
DeathsAreBooked ==
  openPhase \in {Closed, 12} => \A s \in Seats : IsInMatch(s) =>
    /\ commander[s] = "dead" => respawnDue[s] # NoRespawn
    /\ phase # "push" => commander[s] # "dead"

Deathbook == DueIsForTheDead /\ DeathsAreBooked

(* Settling the commanders books every death of a seat still in, and       *)
(* completes every respawn when the tick closes the segment.               *)
LEMMA CommandersAreSettled ==
  ASSUME TypeOK, Machine, Deathbook, RunMatch
  PROVE  Deathbook'
<1>1. PICK boundary \in BOOLEAN :
        /\ SettleCommanders(boundary)
        /\ phase' # "push" => boundary
  <2>1. phase = "push"
    BY DEF RunMatch, Running, TickIsOpen, Closed, PhaseOrder, TypeOK, Machine,
           TickIsInItsPhase
  <2> QED BY <2>1 DEF RunMatch, MatchEnds, SegmentEnds, SegmentGoesOn
<1>2. /\ tick' = tick /\ tick >= 1 /\ tick \in Nat /\ beacons' = beacons
  BY DEF RunMatch, Running, Machine, TickIsInItsPhase, TypeOK
<1>3. ASSUME NEW s \in Seats
      PROVE  /\ respawnDue'[s] # NoRespawn => commander'[s] = "dead"
             /\ IsInMatch(s)' =>
                  /\ commander'[s] = "dead" => respawnDue'[s] # NoRespawn
                  /\ phase' # "push" => commander'[s] # "dead"
  <2>1. /\ respawnDue'[s] =
             IF s \in NewlyFallen \/ Returning(s) \/ Forced(boundary, s)
             THEN NoRespawn
             ELSE IF Booked(s) THEN tick + RespawnDelay(s)
             ELSE respawnDue[s]
        /\ commander'[s] =
             IF s \in NewlyFallen /\ commander[s] = "alive" THEN "dead"
             ELSE IF Returning(s) \/ Forced(boundary, s) THEN "alive"
             ELSE commander[s]
    BY <1>1 DEF SettleCommanders
  <2>2. tick + RespawnDelay(s) \in Nat
    BY <1>2, DelaysAreNatural DEF TypeOK
  <2>3. respawnDue'[s] # NoRespawn => commander'[s] = "dead"
    BY <2>1 DEF Booked, Deathbook, DueIsForTheDead
  <2>4. ASSUME IsInMatch(s)'
        PROVE  /\ commander'[s] = "dead" => respawnDue'[s] # NoRespawn
               /\ phase' # "push" => commander'[s] # "dead"
    <3>1. /\ eliminatedAt'[s] = NotEliminated /\ Standing(s)
          /\ s \notin NewlyFallen
      BY <1>2, <2>4 DEF IsInMatch, Standing, NewlyFallen, Fallen
    <3>2. commander'[s] = "dead" =>
            /\ commander[s] = "dead" /\ ~Returning(s) /\ ~Forced(boundary, s)
      BY <2>1, <3>1
    <3>3. commander[s] = "dead" => Booked(s) \/ respawnDue[s] # NoRespawn
      BY <3>1 DEF Booked
    <3>4. commander'[s] = "dead" => respawnDue'[s] # NoRespawn
      BY <2>1, <2>2, <3>1, <3>2, <3>3 DEF NoRespawn
    <3>5. phase' # "push" => commander'[s] # "dead"
      BY <1>1, <3>1, <3>2, <3>3 DEF Forced, CanReturn
    <3> QED BY <3>4, <3>5
  <2> QED BY <2>3, <2>4
<1> QED BY <1>2, <1>3 DEF Deathbook, DueIsForTheDead, DeathsAreBooked

(* A new match has nobody dead.                                            *)
LEMMA InitDeathbook == Init => Deathbook
BY DEF Init, Deathbook, DueIsForTheDead, DeathsAreBooked

(* No other step loses a death or books one that was not died.             *)
LEMMA StepDeathbook ==
  TypeOK /\ Machine /\ Deathbook /\ [Next]_vars => Deathbook'
<1> SUFFICES ASSUME TypeOK, Machine, Deathbook, [Next]_vars PROVE Deathbook'
  OBVIOUS
<1> USE DEF Deathbook, DueIsForTheDead, DeathsAreBooked
<1>1. ASSUME NEW s \in Seats, SealPlaybook(s) PROVE Deathbook'
  BY <1>1 DEF SealPlaybook, stateVars, seatVars, IsInMatch, Standing
<1>2. ASSUME NEW given \in SUBSET Seats, SeedLayout(given) PROVE Deathbook'
  BY <1>2 DEF SeedLayout, InTheLobby, stateVars
<1>3. CASE BeginPush
  BY <1>3 DEF BeginPush, IsInMatch, Standing, TickIsOpen
<1>4. CASE BeginTick
  BY <1>4 DEF BeginTick, stateVars, seatVars, Closed, TypeOK
<1>5. CASE RunQuiet \/ RunCombat \/ RunDecision \/ RunVoxels \/ VoxelsFails
  <2>1. openPhase' \in 1..11 /\ tick' = tick /\ tick # 0
    BY <1>5, PhasesBeforeMatch DEF Machine, TickIsInItsPhase
  <2>2. /\ respawnDue' = respawnDue
        /\ \A s \in Seats : commander[s] = "dead" => commander'[s] = "dead"
    BY <1>5 DEF RunQuiet, RunCombat, RunDecision, RunVoxels, VoxelsFails, Kill,
                seatVars
  <2> QED BY <2>1, <2>2 DEF Closed
<1>6. CASE RunMatch
  BY <1>6, CommandersAreSettled
<1>7. CASE EndTick
  <2>1. openPhase = 12
    BY <1>7 DEF EndTick, Running, PhaseOrder, TickIsOpen, Closed, TypeOK
  <2> QED BY <1>7, <2>1 DEF EndTick, stateVars, seatVars, IsInMatch, Standing
<1>8. CASE EndRecap
  BY <1>8 DEF EndRecap, seatVars, IsInMatch, Standing
<1>9. CASE UNCHANGED vars
  BY <1>9 DEF vars, stateVars, seatVars, IsInMatch, Standing
<1> QED BY <1>1, <1>2, <1>3, <1>4, <1>5, <1>6, <1>7, <1>8, <1>9 DEF Next

(* For any number of seats and any ladder: a dead commander of a seat      *)
(* still in is always on its way back, and back when the Push is over.     *)
THEOREM CommandersReturn == Spec => []CommandersComeBack
<1>1. TypeOK /\ Deathbook => CommandersComeBack
  BY DEF Deathbook, DueIsForTheDead, DeathsAreBooked, CommandersComeBack,
         TickIsOpen, Closed
<1>2. Spec => []Deathbook
  BY InitDeathbook, StepDeathbook, MachineHolds, PTL DEF Spec
<1> QED BY <1>1, <1>2, MachineHolds, PTL

----------------------------------------------------------------------------
(* Beacons, counted.                                                       *)

(* Every beacon placed is one the world remembers as alive or one that was *)
(* counted lost; what stands is remembered.                                *)
EdgeAddsUp ==
  \A s \in Seats : /\ beacons[s] \subseteq edge[s]
                   /\ placed[s] = lost[s] + Cardinality(edge[s])

(* From the Match phase on what is remembered is what stands.              *)
EdgeIsSettled == openPhase \in {Closed, 12} => edge = beacons

(* Before the first tick and the layout there is nothing but cores.        *)
CoresOnly == tick = 0 /\ ~laidOut => \A s \in Seats : beacons[s] \subseteq {Core}

Census == EdgeAddsUp /\ EdgeIsSettled /\ CoresOnly

(* A set of beacons has a size, one more with one more.                    *)
LEMMA BeaconsAreCounted ==
  ASSUME NEW A \in SUBSET Beacons
  PROVE  /\ IsFiniteSet(A)
         /\ Cardinality(A) \in Nat
         /\ \A b : Cardinality(A \union {b}) =
                     IF b \in A THEN Cardinality(A) ELSE Cardinality(A) + 1
<1>1. IsFiniteSet(A)
  BY MatchAssumption, FS_Subset
<1> QED BY <1>1, FS_CardinalityType, FS_AddElement

(* A new match has its cores placed and nothing lost.                      *)
LEMMA InitCensus == Init => Census
<1> SUFFICES ASSUME Init PROVE Census
  OBVIOUS
<1>1. Cardinality({}) = 0 /\ Cardinality({Core}) = 1
  BY FS_EmptySet, FS_Singleton
<1>2. EdgeAddsUp
  BY <1>1 DEF Init, EdgeAddsUp
<1> QED BY <1>2 DEF Init, Census, EdgeIsSettled, CoresOnly

(* A deploy is remembered, and counted placed, once.                       *)
LEMMA DecisionAddsUp ==
  ASSUME TypeOK, EdgeAddsUp, RunDecision
  PROVE  EdgeAddsUp'
<1> SUFFICES ASSUME NEW s \in Seats
             PROVE  /\ beacons'[s] \subseteq edge'[s]
                    /\ placed'[s] = lost'[s] + Cardinality(edge'[s])
  BY DEF EdgeAddsUp
<1>1. /\ beacons'[s] \in DecisionResults(s)
      /\ edge'[s] = edge[s] \union beacons'[s]
      /\ placed'[s] = placed[s] + Cardinality(beacons'[s] \ beacons[s])
      /\ lost'[s] = lost[s]
  BY DEF RunDecision
<1>2. /\ beacons[s] \subseteq edge[s] /\ edge[s] \in SUBSET Beacons
      /\ placed[s] = lost[s] + Cardinality(edge[s])
      /\ placed[s] \in Nat /\ lost[s] \in Nat
  BY DEF EdgeAddsUp, TypeOK
<1>3. CASE beacons'[s] \subseteq beacons[s]
  <2>1. beacons'[s] \ beacons[s] = {} /\ edge'[s] = edge[s]
    BY <1>1, <1>2, <1>3
  <2>2. Cardinality(beacons'[s] \ beacons[s]) = 0
    BY <2>1, FS_EmptySet, Zenon
  <2>3. placed'[s] = placed[s]
    BY <1>1, <1>2, <2>1, <2>2
  <2>4. beacons'[s] \subseteq edge'[s]
    BY <1>1
  <2> QED BY <1>1, <1>2, <2>1, <2>3, <2>4
<1>4. CASE ~(beacons'[s] \subseteq beacons[s])
  <2>1. PICK b \in (Beacons \ {Core}) \ edge[s] :
          beacons'[s] = beacons[s] \union {b}
    BY <1>1, <1>4 DEF DecisionResults
  <2>2. beacons'[s] \ beacons[s] = {b} /\ edge'[s] = edge[s] \union {b}
    BY <1>1, <1>2, <2>1
  <2>3. Cardinality({b}) = 1
    BY FS_Singleton
  <2>4. Cardinality(edge[s] \union {b}) = Cardinality(edge[s]) + 1
    BY <1>2, <2>1, BeaconsAreCounted
  <2>5. Cardinality(edge[s]) \in Nat
    BY <1>2, BeaconsAreCounted
  <2>6. placed'[s] = placed[s] + 1
    BY <1>1, <2>2, <2>3
  <2>7. Cardinality(edge'[s]) = Cardinality(edge[s]) + 1
    BY <2>2, <2>4
  <2>8. placed'[s] = lost'[s] + Cardinality(edge'[s])
    BY <1>1, <1>2, <2>5, <2>6, <2>7
  <2> QED BY <1>1, <2>8
<1> QED BY <1>3, <1>4

(* A beacon gone since the last Match phase is counted lost, once.         *)
LEMMA DeathsAddUp ==
  ASSUME TypeOK, EdgeAddsUp, RunMatch
  PROVE  EdgeAddsUp'
<1> SUFFICES ASSUME NEW s \in Seats
             PROVE  /\ beacons'[s] \subseteq edge'[s]
                    /\ placed'[s] = lost'[s] + Cardinality(edge'[s])
  BY DEF EdgeAddsUp
<1>1. /\ beacons' = beacons /\ edge' = beacons /\ placed' = placed
      /\ lost'[s] = lost[s] + Cardinality(edge[s] \ beacons[s])
  BY DEF RunMatch, SettleBeaconDeaths
<1>2. /\ beacons[s] \subseteq edge[s] /\ edge[s] \in SUBSET Beacons
      /\ placed[s] = lost[s] + Cardinality(edge[s])
      /\ placed[s] \in Nat /\ lost[s] \in Nat
  BY DEF EdgeAddsUp, TypeOK
<1>3. edge[s] \intersect beacons[s] = beacons[s]
  BY <1>2
<1>4. Cardinality(edge[s] \ beacons[s]) = Cardinality(edge[s]) - Cardinality(beacons[s])
  <2>1. IsFiniteSet(edge[s])
    BY <1>2, BeaconsAreCounted
  <2>2. Cardinality(edge[s] \ beacons[s]) =
          Cardinality(edge[s]) - Cardinality(edge[s] \intersect beacons[s])
    BY <2>1, FS_Difference, Zenon
  <2> QED BY <1>3, <2>2
<1>5. Cardinality(edge[s]) \in Nat /\ Cardinality(beacons[s]) \in Nat
  BY <1>2, BeaconsAreCounted DEF TypeOK
<1>6. Cardinality(edge'[s]) = Cardinality(beacons[s])
  BY <1>1
<1>7. lost'[s] + Cardinality(beacons[s]) = lost[s] + Cardinality(edge[s])
  BY <1>1, <1>2, <1>4, <1>5
<1> QED BY <1>1, <1>2, <1>6, <1>7

(* Every step of the machine keeps the count.                              *)
LEMMA StepCensus == TypeOK /\ Machine /\ Census /\ [Next]_vars => Census'
<1> SUFFICES ASSUME TypeOK, Machine, Census, [Next]_vars PROVE Census'
  OBVIOUS
<1> USE DEF Census, EdgeIsSettled, CoresOnly
<1>1. ASSUME UNCHANGED <<placed, lost, edge>>,
             \A s \in Seats : beacons'[s] \subseteq beacons[s]
      PROVE  EdgeAddsUp'
  BY <1>1 DEF EdgeAddsUp
<1>2. ASSUME NEW s \in Seats, SealPlaybook(s) PROVE Census'
  BY <1>2 DEF SealPlaybook, seatVars, EdgeAddsUp
<1>3. ASSUME NEW given \in SUBSET Seats, SeedLayout(given) PROVE Census'
  <2>1. PICK b \in Beacons \ {Core} :
          beacons' = [s \in Seats |-> IF s \in given THEN beacons[s] \union {b}
                                                     ELSE beacons[s]]
    BY <1>3 DEF SeedLayout
  <2>2. /\ edge' = beacons' /\ lost' = lost /\ laidOut' = TRUE
        /\ edge = beacons
        /\ \A s \in Seats : beacons[s] \subseteq {Core}
    BY <1>3 DEF SeedLayout, InTheLobby, TickIsOpen
  <2>3. ASSUME NEW s \in Seats
        PROVE  placed'[s] = lost'[s] + Cardinality(edge'[s])
    <3>1. /\ placed[s] \in Nat /\ lost[s] \in Nat /\ beacons[s] \in SUBSET Beacons
          /\ placed[s] = lost[s] + Cardinality(beacons[s])
      BY <2>2 DEF EdgeAddsUp, TypeOK
    <3>2. Cardinality(beacons[s] \union {b}) = Cardinality(beacons[s]) + 1
      BY <2>1, <2>2, <3>1, BeaconsAreCounted
    <3>3. Cardinality(beacons[s]) \in Nat
      BY <3>1, BeaconsAreCounted
    <3>4. placed'[s] = IF s \in given THEN placed[s] + 1 ELSE placed[s]
      BY <1>3 DEF SeedLayout
    <3> QED BY <2>1, <2>2, <3>1, <3>2, <3>3, <3>4
  <2> QED BY <2>2, <2>3 DEF EdgeAddsUp
<1>4. CASE BeginPush
  BY <1>4 DEF BeginPush, hostVars, EdgeAddsUp
<1>5. CASE BeginTick
  BY <1>5 DEF BeginTick, seatVars, EdgeAddsUp, Closed, TypeOK
<1>6. CASE RunQuiet \/ RunCombat \/ RunDecision \/ RunVoxels \/ VoxelsFails
  <2>1. openPhase' \in 1..11 /\ tick' = tick /\ tick # 0
    BY <1>6, PhasesBeforeMatch DEF Machine, TickIsInItsPhase
  <2>2. EdgeAddsUp'
    <3>1. CASE RunDecision
      BY <3>1, DecisionAddsUp
    <3>2. CASE RunQuiet \/ RunCombat \/ RunVoxels \/ VoxelsFails
      BY <1>1, <3>2 DEF RunQuiet, RunCombat, RunVoxels, VoxelsFails, Kill, seatVars
    <3> QED BY <1>6, <3>1, <3>2
  <2> QED BY <2>1, <2>2 DEF Closed
<1>7. CASE RunMatch
  <2>1. tick' = tick /\ tick >= 1 /\ edge' = beacons'
    BY <1>7 DEF RunMatch, Running, Machine, TickIsInItsPhase, SettleBeaconDeaths
  <2> QED BY <1>7, <2>1, DeathsAddUp DEF TypeOK
<1>8. CASE EndTick
  <2>1. openPhase = 12
    BY <1>8 DEF EndTick, Running, PhaseOrder, TickIsOpen, Closed, TypeOK
  <2> QED BY <1>8, <2>1 DEF EndTick, seatVars, EdgeAddsUp
<1>9. CASE EndRecap
  BY <1>9 DEF EndRecap, seatVars, hostVars, EdgeAddsUp
<1>10. CASE UNCHANGED vars
  BY <1>10 DEF vars, seatVars, hostVars, EdgeAddsUp
<1> QED BY <1>2, <1>3, <1>4, <1>5, <1>6, <1>7, <1>8, <1>9, <1>10 DEF Next

(* For any seats and any rows: between ticks every beacon ever placed      *)
(* stands or was counted lost, once.                                       *)
THEOREM BeaconsAreAccountedFor == Spec => []BeaconsAddUp
<1>1. Census => BeaconsAddUp
  BY DEF Census, EdgeAddsUp, EdgeIsSettled, BeaconsAddUp, TickIsOpen
<1>2. Spec => []Census
  BY InitCensus, StepCensus, MachineHolds, PTL DEF Spec
<1> QED BY <1>1, <1>2, PTL

----------------------------------------------------------------------------
(* The board a Lull plans against, and the length of the Push it plans.    *)

(* After the last tick of a segment the world and the coming length stand  *)
(* as the next Lull will find them, and the hash freezes them.             *)
BoardIsFrozen ==
  /\ phase = "lull" => /\ frozen = [Board EXCEPT !.round = frozen.round]
                       /\ comingMs = LengthForRound(round)
  /\ phase = "recap" /\ outcome.reason = "none" =>
       /\ comingMs = LengthForRound(round + 1)
       /\ openPhase = Closed => frozen = Board

(* A Push knows its length, and has run less than it between ticks.        *)
PushIsUnderWay ==
  phase = "push" =>
    /\ segLengthMs = LengthForRound(round)
    /\ IF openPhase \in 1..11
       THEN tick - segStarted \in 1..SegmentTicks
       ELSE tick - segStarted \in 0..(SegmentTicks - 1)

Schedule == BoardIsFrozen /\ PushIsUnderWay

(* No length is shorter than a tick.                                       *)
LEMMA LengthsAreATick ==
  ASSUME NEW r \in Nat \ {0}
  PROVE  /\ LengthForRound(r) \in Nat /\ LengthForRound(r) >= MsPerTick
         /\ ToTicksCeil(LengthForRound(r)) \in Nat
         /\ ToTicksCeil(LengthForRound(r)) >= 1
<1>1. Len(Ladder) \in Nat /\ Len(Ladder) >= 1
  BY MatchAssumption
<1>2. \A i \in 1..Len(Ladder) : Ladder[i] \in Nat /\ Ladder[i] >= MsPerTick
  BY MatchAssumption
<1>3. LengthForRound(r) \in Nat /\ LengthForRound(r) >= MsPerTick
  BY <1>1, <1>2 DEF LengthForRound
<1>4. \A ms \in Nat : ms >= MsPerTick => ToTicksCeil(ms) \in Nat /\ ToTicksCeil(ms) >= 1
  BY DEF ToTicksCeil, MsPerTick
<1> QED BY <1>3, <1>4

(* A new match is frozen as it stands.                                     *)
LEMMA InitSchedule == Init => Schedule
<1> SUFFICES ASSUME Init PROVE Schedule
  OBVIOUS
<1>1. frozen = [Board EXCEPT !.round = frozen.round]
  BY DEF Init, Board
<1> QED BY <1>1 DEF Init, Schedule, BoardIsFrozen, PushIsUnderWay

(* How a Match phase leaves a Push: decided early, on time, or not yet.    *)
LEMMA PushesAreCut ==
  ASSUME TypeOK, Machine, Schedule, RunMatch
  PROVE  /\ phase = "push" /\ openPhase = 11 /\ openPhase' = 12
         /\ UNCHANGED <<tick, round>>
         /\ \/ /\ phase' = "recap"
               /\ outcome'.reason \in {"last_seat_standing", "no_survivor"}
            \/ /\ phase' = "recap"
               /\ tick - segStarted = SegmentTicks
               /\ outcome'.reason = "none" => comingMs' = LengthForRound(round + 1)
            \/ /\ phase' = "push"
               /\ tick - segStarted < SegmentTicks
               /\ segLengthMs' = segLengthMs /\ segStarted' = segStarted
<1>1. /\ phase = "push" /\ openPhase = 11 /\ openPhase' = 12
      /\ UNCHANGED <<tick, round>> /\ outcome.reason = "none"
  BY DEF RunMatch, Running, TickIsOpen, Closed, PhaseOrder, TypeOK, Machine,
         TickIsInItsPhase, DecisionIsInItsPhase
<1>2. CASE MatchEnds
  <2>1. \E reason \in {"last_seat_standing", "no_survivor"},
           w \in Remaining \union Verdicts(AuditedNow) : Decide(reason, w)
    BY <1>2 DEF MatchEnds
  <2>2. outcome'.reason \in {"last_seat_standing", "no_survivor"}
    BY <2>1 DEF Decide
  <2> QED BY <1>1, <1>2, <2>2 DEF MatchEnds
<1>3. CASE SegmentEnds
  <2>1. tick - segStarted \in 1..SegmentTicks /\ tick - segStarted >= SegmentTicks
    BY <1>1, <1>3 DEF Schedule, PushIsUnderWay, SegmentEnds
  <2>2. SegmentTicks \in Nat
    BY <1>1, LengthsAreATick DEF Schedule, PushIsUnderWay, SegmentTicks, TypeOK
  <2>3. outcome'.reason = "none" => comingMs' = LengthForRound(round + 1)
    <3>1. CASE round >= RoundLimit
      <4>1. outcome'.reason = "round_limit"
        BY <1>3, <3>1 DEF SegmentEnds, Decide
      <4> QED BY <4>1
    <3>2. CASE ~(round >= RoundLimit)
      BY <1>3, <3>2, MatchAssumption DEF SegmentEnds, ComingRound, TypeOK
    <3> QED BY <3>1, <3>2
  <2> QED BY <1>1, <1>3, <2>1, <2>2, <2>3 DEF SegmentEnds, TypeOK
<1>4. CASE SegmentGoesOn
  BY <1>1, <1>4 DEF SegmentGoesOn
<1> QED BY <1>2, <1>3, <1>4 DEF RunMatch

(* Every step keeps the board frozen and the Push within its length.       *)
LEMMA StepSchedule ==
  TypeOK /\ Machine /\ Schedule /\ [Next]_vars => Schedule'
<1> SUFFICES ASSUME TypeOK, Machine, Schedule, [Next]_vars PROVE Schedule'
  OBVIOUS
<1> USE DEF Schedule
<1>1. ASSUME UNCHANGED <<stateVars, tick, openPhase, seatVars, frozen>>
      PROVE  Schedule'
  BY <1>1 DEF stateVars, seatVars, BoardIsFrozen, PushIsUnderWay, Board, SegmentTicks
<1>2. ASSUME NEW s \in Seats, SealPlaybook(s) PROVE Schedule'
  BY <1>1, <1>2 DEF SealPlaybook
<1>3. ASSUME NEW given \in SUBSET Seats, SeedLayout(given) PROVE Schedule'
  BY <1>3 DEF SeedLayout, InTheLobby, stateVars, BoardIsFrozen, PushIsUnderWay, Board
<1>4. CASE BeginPush
  <2>1. phase' = "push" /\ openPhase' = Closed /\ segStarted' = tick' /\ round' = round
    BY <1>4 DEF BeginPush, TickIsOpen
  <2>2. comingMs = LengthForRound(round)
    BY <1>4 DEF BeginPush, BoardIsFrozen
  <2>3. /\ LengthForRound(round) \in Nat /\ LengthForRound(round) >= MsPerTick
        /\ ToTicksCeil(LengthForRound(round)) \in Nat
        /\ ToTicksCeil(LengthForRound(round)) >= 1
    BY LengthsAreATick DEF TypeOK
  <2>4. segLengthMs' = LengthForRound(round)
    BY <1>4, <2>2, <2>3 DEF BeginPush, MsPerTick
  <2>5. SegmentTicks' = ToTicksCeil(LengthForRound(round))
    BY <2>4 DEF SegmentTicks, ToTicksCeil
  <2>6. tick' - segStarted' = 0
    BY <1>4 DEF BeginPush, TypeOK
  <2> QED BY <2>1, <2>3, <2>4, <2>5, <2>6
          DEF BoardIsFrozen, PushIsUnderWay, Closed, LengthForRound
<1>5. CASE BeginTick
  <2>1. /\ phase = "push" /\ openPhase' = 1 /\ tick' = tick + 1
        /\ UNCHANGED <<phase, segStarted, segLengthMs, round>>
        /\ openPhase = Closed
    BY <1>5 DEF BeginTick, stateVars, TickIsOpen
  <2>2. /\ segLengthMs = LengthForRound(round)
        /\ tick - segStarted \in 0..(SegmentTicks - 1)
    BY <2>1 DEF PushIsUnderWay, Closed
  <2>3. SegmentTicks' = SegmentTicks /\ SegmentTicks \in Nat
    BY <2>1, <2>2, LengthsAreATick DEF SegmentTicks, ToTicksCeil, TypeOK
  <2>4. tick' - segStarted' \in 1..SegmentTicks'
    BY <2>1, <2>2, <2>3 DEF TypeOK
  <2> QED BY <2>1, <2>2, <2>4
          DEF BoardIsFrozen, PushIsUnderWay, LengthForRound
<1>6. CASE RunQuiet \/ RunCombat \/ RunDecision \/ RunVoxels \/ VoxelsFails
  <2>1. /\ phase = "push" /\ openPhase' \in 1..11
        /\ UNCHANGED <<phase, round, segStarted, tick>>
    BY <1>6, PhasesBeforeMatch
  <2>2. segLengthMs' = segLengthMs /\ openPhase \in 1..11
    BY <1>6 DEF RunQuiet, RunCombat, RunDecision, RunVoxels, VoxelsFails,
                Running, TickIsOpen, Closed, PhaseOrder, stateVars, TypeOK
  <2> QED BY <2>1, <2>2 DEF BoardIsFrozen, PushIsUnderWay, SegmentTicks, LengthForRound, ToTicksCeil
<1>7. CASE RunMatch
  <2>1. /\ phase = "push" /\ openPhase = 11 /\ openPhase' = 12
        /\ UNCHANGED <<tick, round>>
    BY <1>7, PushesAreCut
  <2>2. /\ segLengthMs = LengthForRound(round)
        /\ tick - segStarted \in 1..SegmentTicks
    BY <2>1 DEF PushIsUnderWay
  <2>3. CASE phase' = "recap"
    BY <1>7, <2>1, <2>3, PushesAreCut DEF BoardIsFrozen, PushIsUnderWay, Closed, LengthForRound
  <2>4. CASE phase' = "push"
    <3>1. /\ tick - segStarted < SegmentTicks
          /\ segLengthMs' = segLengthMs /\ segStarted' = segStarted
      BY <1>7, <2>4, PushesAreCut
    <3>2. SegmentTicks' = SegmentTicks /\ SegmentTicks \in Nat
      BY <2>2, <3>1, LengthsAreATick DEF SegmentTicks, ToTicksCeil, TypeOK
    <3>3. tick' - segStarted' \in 0..(SegmentTicks' - 1)
      BY <2>1, <2>2, <3>1, <3>2 DEF TypeOK
    <3> QED BY <2>1, <2>2, <2>4, <3>1, <3>3
            DEF BoardIsFrozen, PushIsUnderWay, LengthForRound
  <2> QED BY <1>7, <2>3, <2>4, PushesAreCut
<1>8. CASE EndTick
  <2>1. openPhase = 12 /\ phase \in {"push", "recap"}
    BY <1>8 DEF EndTick, Running, PhaseOrder, TickIsOpen, Closed, TypeOK,
                Machine, TickIsInItsPhase
  <2>2. Board' = Board
    BY <1>8 DEF EndTick, stateVars, seatVars, Board
  <2> QED BY <1>8, <2>1, <2>2
          DEF EndTick, stateVars, BoardIsFrozen, PushIsUnderWay, SegmentTicks, Closed, LengthForRound, ToTicksCeil
<1>9. CASE EndRecap
  <2>1. /\ phase = "recap" /\ openPhase = Closed
        /\ ~(outcome.reason = "none" /\ round >= RoundLimit)
    BY <1>9, MatchAssumption
       DEF EndRecap, TickIsOpen, Machine, DecisionIsInItsPhase, TypeOK
  <2>2. CASE outcome.reason = "none"
    <3>1. /\ phase' = "lull" /\ round' = round + 1
          /\ UNCHANGED <<comingMs, tick, beacons, commander, frozen>>
      BY <1>9, <2>1, <2>2 DEF EndRecap, seatVars, hostVars
    <3>2. comingMs = LengthForRound(round + 1) /\ frozen = Board
      BY <2>1, <2>2 DEF BoardIsFrozen
    <3>3. frozen' = [Board' EXCEPT !.round = frozen'.round]
      BY <3>1, <3>2 DEF Board
    <3> QED BY <3>1, <3>2, <3>3 DEF BoardIsFrozen, PushIsUnderWay, LengthForRound
  <2>3. CASE outcome.reason # "none"
    BY <1>9, <2>1, <2>3 DEF EndRecap, BoardIsFrozen, PushIsUnderWay
  <2> QED BY <2>2, <2>3
<1>10. CASE UNCHANGED vars
  BY <1>1, <1>10 DEF vars, hostVars
<1> QED BY <1>2, <1>3, <1>4, <1>5, <1>6, <1>7, <1>8, <1>9, <1>10 DEF Next

(* The schedule holds of every behaviour.                                  *)
LEMMA ScheduleHolds == Spec => []Schedule
BY InitSchedule, StepSchedule, MachineHolds, PTL DEF Spec

(* For any ladder: a Lull's frozen snapshot is the world as it stands, and *)
(* names the length of the Push to come.                                   *)
THEOREM LullsPlanTheBoard == Spec => []FrozenIsThePlannedBoard
<1>1. Schedule => FrozenIsThePlannedBoard
  <2> SUFFICES ASSUME Schedule, phase = "lull"
               PROVE  /\ frozen = [Board EXCEPT !.round = frozen.round]
                      /\ frozen.comingMs = LengthForRound(round)
    BY DEF FrozenIsThePlannedBoard
  <2>1. /\ frozen = [Board EXCEPT !.round = frozen.round]
        /\ comingMs = LengthForRound(round)
    BY DEF Schedule, BoardIsFrozen
  <2>2. frozen.comingMs = comingMs
    BY <2>1 DEF Board
  <2> QED BY <2>1, <2>2
<1> QED BY <1>1, ScheduleHolds, PTL

(* For any ladder: a Push plays its length, rounded up to whole ticks,     *)
(* unless the one-tick rule ends the match before.                         *)
THEOREM PushesRunTheirLength == Spec => PushRunsItsLength
<1>1. TypeOK /\ Machine /\ Schedule /\ [Next]_vars =>
        [phase = "push" /\ phase' = "recap" =>
           /\ tick - segStarted >= 1
           /\ tick - segStarted <= ToTicksCeil(LengthForRound(round))
           /\ \/ outcome'.reason \in {"last_seat_standing", "no_survivor"}
              \/ tick - segStarted = ToTicksCeil(LengthForRound(round))]_vars
  <2> SUFFICES ASSUME TypeOK, Machine, Schedule, Next,
                      phase = "push", phase' = "recap"
               PROVE  /\ tick - segStarted >= 1
                      /\ tick - segStarted <= ToTicksCeil(LengthForRound(round))
                      /\ \/ outcome'.reason \in {"last_seat_standing", "no_survivor"}
                         \/ tick - segStarted = ToTicksCeil(LengthForRound(round))
    BY DEF vars, stateVars
  <2>1. RunMatch
    BY DEF Next, SealPlaybook, SeedLayout, BeginPush, BeginTick, RunQuiet,
           RunCombat, RunDecision, RunVoxels, VoxelsFails, EndTick, EndRecap,
           stateVars
  <2>2. openPhase = 11
    BY <2>1, PushesAreCut
  <2>3. /\ SegmentTicks = ToTicksCeil(LengthForRound(round))
        /\ tick - segStarted \in 1..SegmentTicks
    BY <2>2 DEF Schedule, PushIsUnderWay, SegmentTicks
  <2>4. SegmentTicks \in Nat
    BY <2>3, LengthsAreATick DEF TypeOK
  <2> QED BY <2>1, <2>3, <2>4, PushesAreCut
<1> QED BY <1>1, ScheduleHolds, MachineHolds, PTL DEF Spec, PushRunsItsLength
=============================================================================
