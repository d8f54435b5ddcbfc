-------------------------------- MODULE Power --------------------------------
(***************************************************************************)
(* One seat's grid: crates/sim/src/power.rs.  The Power phase settles it   *)
(* once a tick: the brownout, the revival and the swap.  A seat's grid is  *)
(* its own, and a fallen seat has no living beacon to settle.              *)
(*                                                                         *)
(* What stands on the board is changed by the other phases, in any way.    *)
(* A beacon's load is the draw of the living units and finished structures *)
(* homed to it; its own base and its key-core cancel (key_core_output) and *)
(* the core's autocannon draws nothing.  The table read at load bounds     *)
(* every sum (bound_sums), so no sum fails and no settle ends half way.    *)
(* The supply and draw columns are Supply and Draw at the settle: what is  *)
(* told of the grid reads them, and no phase that settles or spends does.  *)
(***************************************************************************)
EXTENDS Integers, FiniteSets, FiniteSetsExt

CONSTANTS
  Beacons,       \* the ids a seat's beacons may ever have
  Distance,      \* of each site from the core's
  Vents,
  Output,        \* generator_output of the richness of each vent
  CoreSurplus, ReviveMargin,
  PerUnit,       \* kw_per_unit
  MaxLoad,       \* bound: a beacon's load
  Priorities,    \* PRIORITY_LOW .. PRIORITY_HIGH
  Normal         \* PRIORITY_NORMAL, what a beacon is placed with

ASSUME PowerAssumption ==
  /\ IsFiniteSet(Beacons) /\ Beacons \subseteq Nat /\ Beacons # {}
  /\ IsFiniteSet(Vents)
  /\ Distance \in [Beacons -> Nat] /\ Output \in [Vents -> Nat]
  /\ CoreSurplus \in Nat /\ ReviveMargin \in Nat /\ MaxLoad \in Nat
  /\ PerUnit \in Nat \ {0} /\ Normal \in Priorities
  /\ IsFiniteSet(Priorities) /\ Priorities \subseteq Nat

VARIABLES
  standing,   \* the living beacons
  fallen,     \* beacons that have died: an id is not used again
  dormant,    \* the standing beacons whose flag is set
  priority,
  load,       \* draw homed to each beacon
  taps,       \* where the finished Generators on each vent are homed
  calm        \* history: since the last settle, only the Quartermaster's
              \* unit orders have touched the grid

grid == <<standing, fallen, priority, load, taps>>
powerVars == <<grid, dormant, calm>>

(* The seat's lowest id; its row is never freed.                           *)
Core == CHOOSE b \in Beacons : \A x \in Beacons : b <= x

Sum(S, f) == MapThenSumSet(LAMBDA x : f[x], S)

----------------------------------------------------------------------------
(* The sums over what is lit when the beacons of d are dark.               *)

Lit(d) == standing \ d

(* One output a vent, however many Generators tap it and whichever is lit. *)
Supply(d) ==
  (IF Core \in Lit(d) THEN CoreSurplus ELSE 0)
    + Sum({v \in Vents : taps[v] \intersect Lit(d) # {}}, Output)
Draw(d) == Sum(Lit(d), load)
Headroom(d) == Supply(d) - Draw(d)

(* swap_rank: the core above every other beacon, then the knob.            *)
Below(a, b) == a # Core /\ (b = Core \/ priority[a] < priority[b])
SameRank(a, b) == ~Below(a, b) /\ ~Below(b, a)

(* shed_key: the rank, then the furthest, then the lowest id.              *)
ShedBefore(a, b) ==
  \/ Below(a, b)
  \/ /\ SameRank(a, b)
     /\ Distance[a] > Distance[b] \/ (Distance[a] = Distance[b] /\ a < b)

(* revive_key: the other way round, but for the id.                        *)
ReviveBefore(a, b) ==
  \/ Below(b, a)
  \/ /\ SameRank(a, b)
     /\ Distance[a] < Distance[b] \/ (Distance[a] = Distance[b] /\ a < b)

First(S, Before(_, _)) == CHOOSE b \in S : \A x \in S \ {b} : Before(b, x)

(* shed_if_it_relieves.                                                    *)
Relieves(b, d) == Headroom(d \union {b}) > Headroom(d)

(* Variant: only the head of the list is tried.                            *)
ShedTheFirst(list, d) ==
  LET first == IF list = {} THEN {} ELSE {First(list, ShedBefore)}
  IN  IF \E b \in first : Headroom(d) < 0 /\ Relieves(b, d) THEN d \union first ELSE d

(* Down the list once, until draw is no higher than supply.                *)
ShedFrom(list, d) ==
  LET walk[S \in SUBSET list] == \* what is dark once the beacons of S were tried
        IF S = {} THEN d
        ELSE LET b == CHOOSE x \in S : \A y \in S \ {x} : ShedBefore(y, x)
                 before == walk[S \ {b}]
             IN  IF Headroom(before) < 0 /\ Relieves(b, before)
                 THEN before \union {b} ELSE before
  IN  walk[list]

BrownOut(d) == ShedFrom(Lit(d), d)

(* Variant: what waking adds is summed from the rows homed to the beacon.  *)
ReviveByItsRows(d) ==
  LET gain(b) == Sum({v \in Vents : b \in taps[v]}, Output) - load[b]
                   + (IF b = Core THEN CoreSurplus ELSE 0)
      able == {b \in d : Headroom(d) + gain(b) >= ReviveMargin}
  IN  IF able = {} THEN d ELSE d \ {First(able, ReviveBefore)}

(* The first dark beacon whose waking leaves the margin is lit, and the    *)
(* walk begins again.                                                      *)
Revive(d) ==
  LET walk[lit \in SUBSET d] ==
        LET able == {b \in (d \ lit) : Headroom(d \ (lit \union {b})) >= ReviveMargin}
        IN  IF able = {} THEN d \ lit
            ELSE walk[lit \union {First(able, ReviveBefore)}]
  IN  walk[{}]

(* relight: b, and lower lit beacons shed for it, or nothing at all.       *)
Relight(b, d) ==
  LET lower == {x \in Lit(d) : Below(x, b)}
      lit == d \ {b}
      swapped == ShedFrom(lower, lit)
  IN  IF /\ lower # {} /\ Headroom(lit) < 0
         /\ swapped # lit /\ Headroom(swapped) >= 0
      THEN swapped ELSE d

SwapBefore(a, b) == Below(b, a) \/ (SameRank(a, b) /\ a < b)

SwapIn(d) ==
  LET walk[S \in SUBSET d] ==
        IF S = {} THEN d
        ELSE LET b == CHOOSE x \in S : \A y \in S \ {x} : SwapBefore(y, x)
             IN  Relight(b, walk[S \ {b}])
  IN  walk[d]

Settled(d) == SwapIn(Revive(BrownOut(d)))

----------------------------------------------------------------------------
PowerTypeOK ==
  /\ standing \subseteq Beacons /\ fallen \subseteq Beacons \ standing
  /\ dormant \subseteq standing
  /\ priority \in [Beacons -> Priorities]
  /\ load \in [Beacons -> 0..MaxLoad]
  /\ taps \in [Vents -> SUBSET standing]
  /\ calm \in BOOLEAN

PowerInit ==
  /\ standing = {Core} /\ fallen = {} /\ dormant = {} /\ calm = FALSE
  /\ priority = [b \in Beacons |-> Normal]
  /\ load = [b \in Beacons |-> 0]
  /\ taps = [v \in Vents |-> {}]

(* The Power phase.                                                        *)
SettleGrid ==
  /\ dormant' = Settled(dormant)
  /\ calm' = TRUE
  /\ UNCHANGED grid

(* The Quartermaster's unit order (Quartermaster), of a beacon that is lit,*)
(* against the headroom as it stands: the unit is fielded at once.         *)
FieldUnit(b) ==
  /\ b \in Lit(dormant) /\ PerUnit <= Headroom(dormant)
  /\ load[b] + PerUnit <= MaxLoad
  /\ load' = [load EXCEPT ![b] = @ + PerUnit]
  /\ UNCHANGED <<standing, fallen, priority, taps, dormant, calm>>

(* Units die, re-home or come with a segment; structures are finished,     *)
(* paid for long before, or razed.                                         *)
Refit(b) ==
  /\ b \in standing
  /\ \/ \E k \in 0..MaxLoad :
          k # load[b] /\ load' = [load EXCEPT ![b] = k] /\ UNCHANGED taps
     \/ \E v \in Vents :
          /\ taps' = [taps EXCEPT ![v] = IF b \in @ THEN @ \ {b} ELSE @ \union {b}]
          /\ UNCHANGED load
  /\ calm' = FALSE
  /\ UNCHANGED <<standing, fallen, priority, dormant>>

(* A commander at the beacon commits its knob.                             *)
Commit(b, p) ==
  /\ b \in standing /\ p # priority[b]
  /\ priority' = [priority EXCEPT ![b] = p]
  /\ calm' = FALSE
  /\ UNCHANGED <<standing, fallen, load, taps, dormant>>

Place(b) ==
  /\ b \notin standing \union fallen
  /\ standing' = standing \union {b}
  /\ calm' = FALSE
  /\ UNCHANGED <<fallen, priority, load, taps, dormant>>

(* A dead beacon counts for nothing from the tick it dies in; its          *)
(* structures are ruins and its units another's (Refit).                   *)
LoseBeacon(b) ==
  /\ b \in standing
  /\ standing' = standing \ {b} /\ fallen' = fallen \union {b}
  /\ dormant' = dormant \ {b}
  /\ load' = [load EXCEPT ![b] = 0]
  /\ taps' = [v \in Vents |-> taps[v] \ {b}]
  /\ calm' = FALSE
  /\ UNCHANGED priority

PowerNext ==
  \/ SettleGrid
  \/ \E b \in Beacons :
       \/ FieldUnit(b) \/ Refit(b) \/ Place(b) \/ LoseBeacon(b)
       \/ \E p \in Priorities : Commit(b, p)

PowerSpec == PowerInit /\ [][PowerNext]_powerVars

----------------------------------------------------------------------------
(* A deficit that a settle leaves is one no beacon's shedding would        *)
(* relieve: whoever is passed over for relieving nothing never comes to    *)
(* relieve something once others are shed (shed_if_it_relieves).           *)
DeficitIsHelpless ==
  [][SettleGrid => \/ Headroom(dormant') >= 0
                   \/ \A b \in Lit(dormant') : ~Relieves(b, dormant')]_powerVars

(* On a grid that only the Quartermaster's unit orders have touched, a     *)
(* beacon goes dark only for one above it that is lit instead: nothing is  *)
(* revived into a deficit and shed again, no order that was approved       *)
(* browns out a beacon, and the lights, whose ranks only rise, come to     *)
(* rest (revive_cost, approve).                                            *)
ShedForOneAbove ==
  [][SettleGrid /\ calm =>
       \A b \in dormant' \ dormant :
         \E c \in dormant \ dormant' : Below(b, c)]_powerVars

=============================================================================
