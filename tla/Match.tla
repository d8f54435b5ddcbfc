------------------------------- MODULE Match -------------------------------
(***************************************************************************)
(* The match machine of the simulation (crates/sim/src/runner.rs and the   *)
(* tick loop and Match phase of crates/sim/src/world.rs).                  *)
(*                                                                         *)
(* A match is a number of rounds.  A round is a Lull (seats seal           *)
(* playbooks against a frozen planning snapshot), a Push (the only part    *)
(* that ticks) and a Recap.  The host moves the machine through            *)
(* seal_playbook, begin_push, step or phased_tick, and end_recap; a tick   *)
(* is the twelve phases of PHASE_ORDER, of which the Match phase settles   *)
(* deaths, eliminations, respawns, the one-tick end rule and the segment's *)
(* end.  A phased tick may be dropped between two phases, so the world can *)
(* be seen half way through a tick: openPhase is that position.            *)
(*                                                                         *)
(* Abstracted: which asset hits which (any subset of the living may die in *)
(* the phases that deal damage), positions, units other than commanders,   *)
(* structures, money, and the score of the final audit (any seat the audit *)
(* counts may come out ahead, or several may share the win).               *)
(***************************************************************************)
EXTENDS Integers, Sequences, FiniteSets

CONSTANTS
  Seats,            \* the seats of the match
  NoSeat,           \* the neutral seat: nobody won, or the win is shared
  Beacons,          \* names for the beacon rows one seat may hold
  Core,             \* the beacon the generator places; its row is never freed
  RoundLimit,       \* MatchSettings.round_limit
  Ladder,           \* segment lengths in game milliseconds, one per round
  RespawnBaseMs,    \* commander.respawn_base_ms
  RespawnGrowthMs,  \* commander.respawn_growth_ms
  DecisionTicks,    \* match.decision_tick_ms in ticks
  LastTick          \* the tick counter's last value (u32::MAX in the code)

MsPerTick == 50

ASSUME MatchAssumption ==
  /\ IsFiniteSet(Seats) /\ NoSeat \notin Seats
  /\ IsFiniteSet(Beacons) /\ Core \in Beacons
  /\ RoundLimit \in Nat \ {0}
  /\ Ladder \in Seq(Nat) /\ Ladder # <<>>
  /\ \A i \in 1..Len(Ladder) : Ladder[i] >= MsPerTick
  /\ RespawnBaseMs \in Nat /\ RespawnGrowthMs \in Nat
  /\ DecisionTicks \in Nat \ {0}
  /\ LastTick \in Nat

(* NOT_ELIMINATED and NO_RESPAWN are u32::MAX in the code: never a tick.   *)
NotEliminated == -1
NoRespawn     == -1

PhaseOrder == <<"Broadphase", "Programs", "Movement", "Combat", "KillCredit",
                "Power", "Quartermaster", "Decision", "Pathing", "Voxels",
                "Match", "Hash">>

Closed == 0     \* openPhase between ticks

VARIABLES
  phase,         \* MatchState.phase
  round,         \* MatchState.round
  segStarted,    \* MatchState.segment_started
  segLengthMs,   \* MatchState.segment_length_ms, zero outside a Push
  comingMs,      \* MatchState.coming_segment_ms
  outcome,       \* MatchState.outcome; reason "none" while undecided
  tick,          \* World.tick
  openPhase,     \* the open tick's next phase, Closed between ticks
  collapsed,     \* this tick's Voxels phase failed once (its edits are gone)
  placed,        \* how many beacons each seat has placed, the core included
  beacons,       \* each seat's living beacons
  edge,          \* each seat's beacons World.beacon_alive remembers as alive
  lost,          \* each seat's beacons_lost
  eliminatedAt,  \* the tick each seat was eliminated
  commander,     \* each seat's commander: "alive", "dead" or "none"
  respawnDue,    \* the tick each commander is due back
  deaths,        \* commander deaths this Push
  sealed,        \* seats whose interpreter holds a plan
  laidOut,       \* World.is_laid_out
  frozen,        \* Runner.frozen, the planning snapshot
  settled,       \* Ledger settlements so far (history)
  announced      \* match_ended events emitted so far (history)

stateVars == <<phase, round, segStarted, segLengthMs, comingMs, outcome>>
seatVars  == <<placed, beacons, edge, lost, eliminatedAt, commander,
               respawnDue, deaths>>
hostVars  == <<sealed, laidOut, frozen>>
history   == <<settled, announced>>
vars == <<stateVars, tick, openPhase, collapsed, seatVars, hostVars, history>>

----------------------------------------------------------------------------
(* Conversions and look-ups.                                               *)

ToTicksCeil(ms) == (ms + MsPerTick - 1) \div MsPerTick

LengthForRound(r) == Ladder[IF r <= Len(Ladder) THEN r ELSE Len(Ladder)]

SegmentTicks == ToTicksCeil(segLengthMs)

TickIsOpen == openPhase # Closed

Running(p) == TickIsOpen /\ PhaseOrder[openPhase] = p

Undecided == [reason |-> "none", winner |-> NoSeat, at |-> 0]

Standing(s) == beacons[s] # {}

(* A core's row is never freed, so a seat with no row was never placed.    *)
Fallen(s) == placed[s] > 0 /\ ~Standing(s)

IsInMatch(s) == eliminatedAt[s] = NotEliminated /\ Standing(s)

(* What a capture of the world keeps of the modelled state.                *)
Board == [tick |-> tick, round |-> round, comingMs |-> comingMs,
          beacons |-> beacons, commander |-> commander]

Init ==
  /\ phase = "lull"
  /\ round = 1
  /\ segStarted = 0
  /\ segLengthMs = 0
  /\ comingMs = LengthForRound(1)
  /\ outcome = Undecided
  /\ tick = 0
  /\ openPhase = Closed
  /\ collapsed = FALSE
  /\ placed \in [Seats -> 0..1]
  /\ beacons = [s \in Seats |-> IF placed[s] = 1 THEN {Core} ELSE {}]
  /\ edge = beacons
  /\ lost = [s \in Seats |-> 0]
  /\ eliminatedAt = [s \in Seats |-> NotEliminated]
  /\ commander = [s \in Seats |-> IF placed[s] = 1 THEN "alive" ELSE "none"]
  /\ respawnDue = [s \in Seats |-> NoRespawn]
  /\ deaths = [s \in Seats |-> 0]
  /\ sealed = {}
  /\ laidOut = FALSE
  /\ frozen = Board
  /\ settled = 0
  /\ announced = 0

----------------------------------------------------------------------------
(* What the host does between ticks.  Each call answers MidTick while a    *)
(* tick is open and refuses in the wrong phase; a refusal changes nothing. *)

SealPlaybook(s) ==
  /\ ~TickIsOpen
  /\ phase = "lull"
  /\ sealed' = sealed \union {s}
  /\ UNCHANGED <<stateVars, tick, openPhase, collapsed, seatVars, laidOut,
                 frozen, history>>

InTheLobby ==
  /\ phase = "lull" /\ round = 1 /\ tick = 0
  /\ ~TickIsOpen
  /\ ~laidOut
  /\ sealed = {}

(* A layout gives some placed seats one more beacon and re-freezes.        *)
SeedLayout(given) ==
  /\ InTheLobby
  /\ \E b \in Beacons \ {Core} :
       beacons' = [s \in Seats |-> IF s \in given THEN beacons[s] \union {b}
                                                  ELSE beacons[s]]
  /\ edge' = beacons'
  /\ placed' = [s \in Seats |-> IF s \in given THEN placed[s] + 1
                                               ELSE placed[s]]
  /\ laidOut' = TRUE
  /\ UNCHANGED <<stateVars, tick, openPhase, collapsed, lost, eliminatedAt,
                 commander, respawnDue, deaths, sealed, history>>
  /\ frozen' = Board'

BeginPush ==
  /\ ~TickIsOpen
  /\ phase = "lull"
  /\ phase' = "push"
  /\ segStarted' = tick
  /\ segLengthMs' = IF comingMs > MsPerTick THEN comingMs ELSE MsPerTick
  /\ deaths' = [s \in Seats |-> 0]
  /\ respawnDue' = [s \in Seats |-> NoRespawn]
  /\ UNCHANGED <<round, comingMs, outcome, tick, openPhase, collapsed, placed,
                 beacons, edge, lost, eliminatedAt, commander, hostVars,
                 history>>

(* The seats the final audit decides between: those in the match, or the   *)
(* last to fall when none is.                                              *)
Audited == {s \in Seats :
              IF \E t \in Seats : IsInMatch(t)
              THEN IsInMatch(s)
              ELSE /\ eliminatedAt[s] # NotEliminated
                   /\ \A t \in Seats : eliminatedAt[t] <= eliminatedAt[s]}

Verdicts(audited) == IF \E s \in audited : audited = {s}
                     THEN audited
                     ELSE audited \union {NoSeat}

(* Variants: the recap is closed while its tick is open; the outcome is    *)
(* not looked at; a decided match is announced a second time; the last     *)
(* recap is never closed.                                                  *)
EndRecapMidTick ==
  /\ phase = "recap"
  /\ IF outcome.reason # "none" \/ round >= RoundLimit
     THEN /\ phase' = "ended"
          /\ round' = round
     ELSE /\ phase' = "lull"
          /\ round' = round + 1
  /\ IF outcome.reason = "none" /\ round >= RoundLimit
     THEN /\ \E w \in Verdicts(Audited) :
               outcome' = [reason |-> "round_limit", winner |-> w, at |-> tick]
          /\ announced' = announced + 1
     ELSE UNCHANGED <<outcome, announced>>
  /\ UNCHANGED <<segStarted, segLengthMs, comingMs, tick, openPhase, collapsed,
                 seatVars, hostVars, settled>>

EndRecapForgetsTheOutcome ==
  /\ ~TickIsOpen
  /\ phase = "recap"
  /\ IF round >= RoundLimit
     THEN /\ phase' = "ended"
          /\ round' = round
     ELSE /\ phase' = "lull"
          /\ round' = round + 1
  /\ IF outcome.reason = "none" /\ round >= RoundLimit
     THEN /\ \E w \in Verdicts(Audited) :
               outcome' = [reason |-> "round_limit", winner |-> w, at |-> tick]
          /\ announced' = announced + 1
     ELSE UNCHANGED <<outcome, announced>>
  /\ UNCHANGED <<segStarted, segLengthMs, comingMs, tick, openPhase, collapsed,
                 seatVars, hostVars, settled>>

EndRecapAnnouncesAgain ==
  /\ ~TickIsOpen
  /\ phase = "recap"
  /\ IF outcome.reason # "none" \/ round >= RoundLimit
     THEN /\ phase' = "ended"
          /\ round' = round
     ELSE /\ phase' = "lull"
          /\ round' = round + 1
  /\ IF outcome.reason = "none" /\ round >= RoundLimit
     THEN /\ \E w \in Verdicts(Audited) :
               outcome' = [reason |-> "round_limit", winner |-> w, at |-> tick]
          /\ announced' = announced + 1
     ELSE /\ UNCHANGED outcome
          /\ announced' = IF phase' = "ended" THEN announced + 1 ELSE announced
  /\ UNCHANGED <<segStarted, segLengthMs, comingMs, tick, openPhase, collapsed,
                 seatVars, hostVars, settled>>

EndRecapUnlessDecided ==
  /\ ~TickIsOpen
  /\ phase = "recap" /\ outcome.reason = "none" /\ round < RoundLimit
  /\ phase' = "lull" /\ round' = round + 1
  /\ UNCHANGED <<segStarted, segLengthMs, comingMs, outcome, tick, openPhase,
                 collapsed, seatVars, hostVars, history>>

(* The last-round fallback of close_recap, a last round nobody decided, is *)
(* for a snapshot an older build wrote.                                    *)
EndRecap ==
  /\ ~TickIsOpen
  /\ phase = "recap"
  /\ IF outcome.reason # "none" \/ round >= RoundLimit
     THEN /\ phase' = "ended"
          /\ round' = round
     ELSE /\ phase' = "lull"
          /\ round' = round + 1
  /\ IF outcome.reason = "none" /\ round >= RoundLimit
     THEN /\ \E w \in Verdicts(Audited) :
               outcome' = [reason |-> "round_limit", winner |-> w, at |-> tick]
          /\ announced' = announced + 1
     ELSE UNCHANGED <<outcome, announced>>
  /\ UNCHANGED <<segStarted, segLengthMs, comingMs, tick, openPhase, collapsed,
                 seatVars, hostVars, settled>>

----------------------------------------------------------------------------
(* A tick, phase by phase.  Runner::step runs the same phases in one call; *)
(* Runner::phased_tick hands control back between them.                    *)

BeginTick ==
  /\ ~TickIsOpen
  /\ phase = "push"
  /\ tick < LastTick
  /\ tick' = tick + 1
  /\ openPhase' = 1
  /\ collapsed' = FALSE
  /\ UNCHANGED <<stateVars, seatVars, hostVars, history>>

(* Any of the living may be killed by a phase that deals damage.           *)
Kill ==
  /\ beacons' \in {f \in [Seats -> SUBSET Beacons] :
                      \A s \in Seats : f[s] \subseteq beacons[s]}
  /\ \E dead \in SUBSET {s \in Seats : commander[s] = "alive"} :
       commander' = [s \in Seats |-> IF s \in dead THEN "dead"
                                                   ELSE commander[s]]

RunQuiet ==
  /\ TickIsOpen
  /\ PhaseOrder[openPhase] \in {"Broadphase", "Programs", "Movement",
                                "KillCredit", "Power", "Quartermaster",
                                "Pathing"}
  /\ openPhase' = openPhase + 1
  /\ UNCHANGED <<stateVars, tick, collapsed, seatVars, hostVars, history>>

RunCombat ==
  /\ Running("Combat")
  /\ Kill
  /\ openPhase' = openPhase + 1
  /\ UNCHANGED <<stateVars, tick, collapsed, placed, edge, lost, eliminatedAt,
                 respawnDue, deaths, hostVars, history>>

IsDecisionTick ==
  /\ phase = "push"
  /\ tick > segStarted
  /\ (tick - segStarted - 1) % DecisionTicks = 0

(* A seat decides when it holds a plan, is not eliminated and its          *)
(* commander lives.  Its decision may finish a deploy (a row that is not   *)
(* waiting to be settled) or recycle one of its own living beacons.        *)
Decides(s) == s \in sealed /\ eliminatedAt[s] = NotEliminated
                           /\ commander[s] = "alive"

(* Variant: a row whose death the Match phase has not settled is used again.*)
DecisionReusesRows(s) ==
  {beacons[s]} \union
  IF IsDecisionTick /\ Decides(s)
  THEN {beacons[s] \union {b} : b \in (Beacons \ {Core}) \ beacons[s]} \union
       {beacons[s] \ {b} : b \in beacons[s]}
  ELSE {}

DecisionResults(s) ==
  {beacons[s]} \union
  IF IsDecisionTick /\ Decides(s)
  THEN {beacons[s] \union {b} : b \in (Beacons \ {Core}) \ edge[s]} \union
       {beacons[s] \ {b} : b \in beacons[s]}
  ELSE {}

RunDecision ==
  /\ Running("Decision")
  /\ beacons' \in {f \in [Seats -> SUBSET Beacons] :
                      \A s \in Seats : f[s] \in DecisionResults(s)}
  /\ edge' = [s \in Seats |-> edge[s] \union beacons'[s]]
  /\ placed' = [s \in Seats |->
                  placed[s] + Cardinality(beacons'[s] \ beacons[s])]
  /\ openPhase' = openPhase + 1
  /\ UNCHANGED <<stateVars, tick, collapsed, lost, eliminatedAt,
                 commander, respawnDue, deaths, hostVars, history>>

RunVoxels ==
  /\ Running("Voxels")
  /\ Kill
  /\ openPhase' = openPhase + 1
  /\ UNCHANGED <<stateVars, tick, collapsed, placed, edge, lost, eliminatedAt,
                 respawnDue, deaths, hostVars, history>>

(* A collapse that fails stops the tick inside Voxels and leaves it open;  *)
(* the edits are dropped, so running the phase again has nothing to fell.  *)
VoxelsFails ==
  /\ Running("Voxels")
  /\ ~collapsed
  /\ Kill
  /\ collapsed' = TRUE
  /\ UNCHANGED <<stateVars, tick, openPhase, placed, edge, lost, eliminatedAt,
                 respawnDue, deaths, hostVars, history>>

----------------------------------------------------------------------------
(* The Match phase, in its own order: beacon deaths, eliminations, due     *)
(* respawns, commander deaths, the one-tick rule, the segment's end.       *)

NewlyFallen == {s \in Seats : eliminatedAt[s] = NotEliminated /\ Fallen(s)}

SettleBeaconDeaths ==
  /\ lost' = [s \in Seats |-> lost[s] + Cardinality(edge[s] \ beacons[s])]
  /\ edge' = beacons

SettleEliminations ==
  eliminatedAt' = [s \in Seats |-> IF s \in NewlyFallen THEN tick
                                                        ELSE eliminatedAt[s]]

(* A respawn completes for a seat that is in and has a beacon to stand at. *)
CanReturn(s) == eliminatedAt'[s] = NotEliminated /\ Standing(s)

Returning(s) == respawnDue[s] # NoRespawn /\ respawnDue[s] <= tick
                                          /\ CanReturn(s)

(* Dead, not due back, and of a seat still in: the death is booked now.    *)
Booked(s) == /\ commander[s] = "dead"
             /\ respawnDue[s] = NoRespawn
             /\ eliminatedAt'[s] = NotEliminated

RespawnDelay(s) == ToTicksCeil(RespawnBaseMs + RespawnGrowthMs * deaths[s])

(* Variant: the forced respawns run before this tick's deaths are booked.  *)
ForcedBeforeDeaths(boundary, s) ==
  boundary /\ CanReturn(s) /\ respawnDue[s] # NoRespawn

(* boundary: the tick closes the segment, so every pending respawn,        *)
(* one booked a moment ago included, completes (settle_respawns(true)).    *)
Forced(boundary, s) ==
  boundary /\ CanReturn(s) /\ (respawnDue[s] # NoRespawn \/ Booked(s))

SettleCommanders(boundary) ==
  /\ deaths' = [s \in Seats |-> IF Booked(s) THEN deaths[s] + 1 ELSE deaths[s]]
  /\ respawnDue' = [s \in Seats |->
       IF s \in NewlyFallen \/ Returning(s) \/ Forced(boundary, s)
       THEN NoRespawn
       ELSE IF Booked(s) THEN tick + RespawnDelay(s)
       ELSE respawnDue[s]]
  /\ commander' = [s \in Seats |->
       IF s \in NewlyFallen /\ commander[s] = "alive" THEN "dead"
       ELSE IF Returning(s) \/ Forced(boundary, s) THEN "alive"
       ELSE commander[s]]

Remaining == {s \in Seats : IsInMatch(s)}

(* Variant: the last seat standing plays on.                               *)
NobodyRemains == Remaining = {}

FewerThanTwo == \A s, t \in Remaining : s = t

(* decide: the recap opens, the outcome is written, the rest is left.      *)
Decide(reason, w) == outcome' = [reason |-> reason, winner |-> w, at |-> tick]

(* The seats the final audit at this tick decides between.                 *)
AuditedNow == IF Remaining # {}
              THEN Remaining
              ELSE {s \in Seats : /\ eliminatedAt'[s] # NotEliminated
                                  /\ \A t \in Seats :
                                       eliminatedAt'[t] <= eliminatedAt'[s]}

MatchEnds ==
  /\ FewerThanTwo
  /\ SettleCommanders(TRUE)
  /\ settled' = settled + 1
  /\ IF Remaining # {}
     THEN \E w \in Remaining : Decide("last_seat_standing", w)
     ELSE \E w \in Verdicts(AuditedNow) : Decide("no_survivor", w)
  /\ announced' = announced + 1
  /\ phase' = "recap"
  /\ segLengthMs' = 0
  /\ UNCHANGED <<segStarted, comingMs>>

ComingRound == IF round < RoundLimit THEN round + 1 ELSE RoundLimit

SegmentEnds ==
  /\ ~FewerThanTwo
  /\ tick - segStarted >= SegmentTicks
  /\ SettleCommanders(TRUE)
  /\ settled' = settled + 1
  /\ phase' = "recap"
  /\ segLengthMs' = 0
  /\ segStarted' = tick
  /\ comingMs' = LengthForRound(ComingRound)
  /\ IF round >= RoundLimit
     THEN /\ \E w \in Verdicts(AuditedNow) : Decide("round_limit", w)
          /\ announced' = announced + 1
     ELSE UNCHANGED <<outcome, announced>>

SegmentGoesOn ==
  /\ ~FewerThanTwo
  /\ tick - segStarted < SegmentTicks
  /\ SettleCommanders(FALSE)
  /\ UNCHANGED <<phase, segStarted, segLengthMs, comingMs, outcome, history>>

RunMatch ==
  /\ Running("Match")
  /\ SettleBeaconDeaths
  /\ SettleEliminations
  /\ MatchEnds \/ SegmentEnds \/ SegmentGoesOn
  /\ openPhase' = openPhase + 1
  /\ UNCHANGED <<round, tick, collapsed, placed, beacons, hostVars>>

(* The hash closes the tick; a tick that left the Push freezes the world.  *)
EndTick ==
  /\ Running("Hash")
  /\ openPhase' = Closed
  /\ frozen' = IF phase # "push" THEN Board ELSE frozen
  /\ UNCHANGED <<stateVars, tick, collapsed, seatVars, sealed, laidOut, history>>

----------------------------------------------------------------------------
RunPhase == \/ RunQuiet \/ RunCombat \/ RunDecision \/ RunVoxels \/ RunMatch

Next ==
  \/ \E s \in Seats : SealPlaybook(s)
  \/ \E given \in (SUBSET {s \in Seats : placed[s] > 0}) \ {{}} : SeedLayout(given)
  \/ BeginPush
  \/ BeginTick
  \/ RunQuiet
  \/ RunCombat
  \/ RunDecision
  \/ RunVoxels
  \/ VoxelsFails
  \/ RunMatch
  \/ EndTick
  \/ EndRecap

Spec == Init /\ [][Next]_vars

(* The host loop opens the Push when the Lull is over, steps it to its end *)
(* and closes the recap: every one of these calls is always made again.    *)
Fairness ==
  /\ WF_vars(BeginPush)
  /\ WF_vars(BeginTick)
  /\ WF_vars(RunPhase)
  /\ WF_vars(EndTick)
  /\ WF_vars(EndRecap)

FairSpec == Spec /\ Fairness
----------------------------------------------------------------------------
(* Properties.                                                             *)

MatchPhases == {"lull", "push", "recap", "ended"}
Reasons     == {"none", "last_seat_standing", "no_survivor", "round_limit"}
Boards      == [tick : Nat, round : Nat, comingMs : Nat,
                beacons : [Seats -> SUBSET Beacons],
                commander : [Seats -> {"alive", "dead", "none"}]]

(* Every variable keeps its type.                                          *)
TypeOK ==
  /\ phase \in MatchPhases
  /\ round \in Nat \ {0}
  /\ segStarted \in Nat /\ segLengthMs \in Nat /\ comingMs \in Nat
  /\ outcome \in [reason : Reasons, winner : Seats \union {NoSeat}, at : Nat]
  /\ tick \in Nat
  /\ openPhase \in 0..12
  /\ collapsed \in BOOLEAN
  /\ placed \in [Seats -> Nat]
  /\ beacons \in [Seats -> SUBSET Beacons]
  /\ edge \in [Seats -> SUBSET Beacons]
  /\ lost \in [Seats -> Nat]
  /\ eliminatedAt \in [Seats -> Nat \union {NotEliminated}]
  /\ commander \in [Seats -> {"alive", "dead", "none"}]
  /\ respawnDue \in [Seats -> Nat \union {NoRespawn}]
  /\ deaths \in [Seats -> Nat]
  /\ sealed \in SUBSET Seats
  /\ laidOut \in BOOLEAN
  /\ frozen \in Boards
  /\ settled \in Nat
  /\ announced \in Nat

(* Item 21: between ticks a dead commander of a seat still in is on its    *)
(* way back, booked once and never forgotten; and a pending respawn always *)
(* completes by segment end, whichever of the last tick's phases killed it.*)
CommandersComeBack ==
  ~TickIsOpen => \A s \in Seats : IsInMatch(s) =>
    /\ commander[s] = "dead" <=> respawnDue[s] # NoRespawn
    /\ phase # "push" => commander[s] # "dead"

(* Elimination is final: an eliminated seat never holds a beacon again,    *)
(* its commander stays dead and no respawn is pending for it, although     *)
(* deploys, respawns and layouts all write those columns.                  *)
EliminationIsFinal ==
  \A s \in Seats : eliminatedAt[s] # NotEliminated =>
    /\ beacons[s] = {}
    /\ commander[s] # "alive"
    /\ respawnDue[s] = NoRespawn

(* Item 16, the one-tick rule: a tick that left fewer than two seats in    *)
(* has opened the recap.  The outcome names the right seat: the only one   *)
(* left, one that survived to the round limit, or one of the last to fall. *)
(* A seat that was never placed wins nothing.                              *)
OutcomeIsEarned ==
  LET w == outcome.winner IN
  /\ ~TickIsOpen /\ (\/ phase = "push" /\ tick > segStarted
                     \/ phase = "lull" /\ round > 1) =>
       Cardinality(Remaining) >= 2
  /\ outcome.reason = "last_seat_standing" => Remaining = {w}
  /\ outcome.reason = "round_limit" =>
       w \in Remaining \union {NoSeat} /\ round = RoundLimit
  /\ outcome.reason = "no_survivor" =>
       w = NoSeat \/ eliminatedAt[w] = outcome.at

(* Once decided the match is over: the outcome is never rewritten and no   *)
(* further tick runs (item 16: standings freeze).                          *)
DecidedMatchStands ==
  [][outcome.reason # "none" =>
       /\ outcome' = outcome
       /\ tick' = tick
       /\ phase' \in {"recap", "ended"}]_vars

(* Item 19: the Ledger settles once per recap, in the tick that opens it,  *)
(* the last one included; and match_ended is emitted exactly once, at the  *)
(* decision, although both the tick and end_recap can emit it.             *)
EveryRecapIsSettledOnce ==
  /\ settled = IF phase \in {"lull", "push"} THEN round - 1 ELSE round
  /\ announced = IF outcome.reason = "none" THEN 0 ELSE 1

(* Item 18: between ticks every beacon a seat ever placed either stands or *)
(* has been counted once in its beacons_lost, although a row may be used   *)
(* again and a beacon may be placed, hit and recycled within one tick.     *)
BeaconsAddUp ==
  ~TickIsOpen =>
    \A s \in Seats : placed[s] = lost[s] + Cardinality(beacons[s])

(* What a Lull plans against is the board the coming Push starts from: the *)
(* frozen snapshot of a Lull is the world as it stands, and the length it  *)
(* names is the ladder's for that round (item 30).                         *)
FrozenIsThePlannedBoard ==
  phase = "lull" =>
    /\ frozen = [Board EXCEPT !.round = frozen.round]
    /\ frozen.comingMs = LengthForRound(round)

(* A plan is sealed against a board that does not move under it: from the  *)
(* first seal of a Lull to its end the frozen snapshot stays as it was.    *)
SealedBoardStands ==
  [][phase = "lull" /\ phase' = "lull" /\ sealed # {} => frozen' = frozen]_vars

(* A Push plays at most its length, and at least one tick.                 *)
PushRunsItsLength ==
  [][phase = "push" /\ phase' = "recap" =>
       /\ tick - segStarted >= 1
       /\ tick - segStarted <= ToTicksCeil(LengthForRound(round))
       /\ \/ outcome'.reason \in {"last_seat_standing", "no_survivor"}
          \/ tick - segStarted = ToTicksCeil(LengthForRound(round))]_vars

(* The match machine is a MatchCycle: whatever the seats do, the host sees *)
(* Lull, Push, Recap in order and rounds counted one by one to the limit.  *)
Cycle == INSTANCE MatchCycle WITH decided <- outcome.reason # "none"

CycleSpec == Cycle!Spec

(* Under a fair host every match is played to its end.                     *)
MatchIsPlayedOut == <>(phase = "ended")
=============================================================================
