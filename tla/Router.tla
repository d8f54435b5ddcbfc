-------------------------------- MODULE Router --------------------------------
(***************************************************************************)
(* Who walks where: crates/sim/src/pathing/router.rs and the calls of it in *)
(* crates/sim/src/world.rs.  A unit that is sent somewhere waits for a     *)
(* route; the Pathing phase mends the graph, asks again for the units no   *)
(* route was found for, and serves so many a tick, in turn; the Movement   *)
(* phase walks the routes while each next step is legal.                   *)
(*                                                                         *)
(* The map is a few places, each of them a cluster.  A step is legal       *)
(* between two places that meet and can both be stood on.  The search is   *)
(* any way there is, as what makes one dearer (climbs, threats, areas to   *)
(* avoid) is the units' business.  All units walk at one speed and all     *)
(* steps cost the same.                                                    *)
(***************************************************************************)
EXTENDS Integers, Sequences, FiniteSets

CONSTANTS
  Places,
  Meets,        \* pairs of places one step apart
  Bases,        \* where units are fielded and commanders come back
  Diggable,     \* places that blasts and works may close or open
  MaxRows,      \* bound: rows of the unit table
  FirstRows,    \* rows a match starts with
  Commanders,   \* the rows that are never freed
  Cap,          \* repath_cap_per_tick
  MaxRoute,     \* MAX_ROUTE_NODES
  Speed, Price  \* what a unit earns in a tick, and a step costs

Units == 0..MaxRows - 1

ASSUME RouterAssumption ==
  /\ IsFiniteSet(Places) /\ Bases \subseteq Places /\ Bases # {}
  /\ Diggable \subseteq Places
  /\ Meets \subseteq Places \X Places
  /\ MaxRows \in Nat /\ FirstRows \in 1..MaxRows
  /\ Commanders \subseteq 0..FirstRows - 1
  /\ Cap \in Nat \ {0} /\ MaxRoute \in Nat \ {0, 1}
  /\ Speed \in Nat \ {0} /\ Price \in Nat \ {0}

VARIABLES
  phase,     \* the phase the tick is in
  open,      \* surface: the places that can be stood on
  graph,     \* clusters: what the last repair made of them
  dirty,     \* Repairer.dirty
  row,       \* whether each row is free, or what holds it is alive
  count,     \* rows the tables and the router have
  at, dest,  \* positions and destinations
  walk,      \* WalkState
  route,     \* nodes from where the unit stands on
  partial,   \* whether the route stops short of the destination
  banked,    \* accumulator
  cursor,
  passed,    \* history: how often each was passed over since it waits
  lost       \* history: a restore has dropped a repair since the last one

board == <<open, graph, dirty>>
rows == <<row, count, at, dest>>
router == <<walk, route, partial, banked>>
vars == <<phase, board, rows, router, cursor, passed, lost>>

WalkStates == {"Idle", "Waiting", "Walking", "Sealed"}

(* PHASE_ORDER.  What the phases from Combat to Decision do to the units   *)
(* (kill, field, send a commander) is one phase here: none of it depends   *)
(* on what another of them did in the same tick.                           *)
After ==
  [Programs |-> "Movement", Movement |-> "Decision", Decision |-> "Pathing",
   Pathing |-> "Voxels", Voxels |-> "Match", Match |-> "Hash", Hash |-> "Programs"]

GoesOn == phase' = After[phase]

Living == {u \in Units : row[u] = "living"}
Dead == {u \in Units : row[u] = "dead"}
In(state) == {u \in Units : walk[u] = state}

----------------------------------------------------------------------------
(* The ways from x to y over the places of S that go nowhere twice.        *)

Walks(S) == UNION {[1..n -> S] : n \in 1..Cardinality(S)}

Ways(S, x, y) ==
  {w \in Walks(S) :
     /\ w[1] = x /\ w[Len(w)] = y
     /\ \A i, j \in DOMAIN w : w[i] = w[j] => i = j
     /\ \A i \in 1..Len(w) - 1 : <<w[i], w[i + 1]>> \in Meets}

(* connected: two places that can be stood on, of one component.           *)
Connected(S, x, y) == Ways(S, x, y) # {}

Legal(x, y) == x \in open /\ y \in open /\ <<x, y>> \in Meets

----------------------------------------------------------------------------
TypeOK ==
  /\ phase \in DOMAIN After
  /\ open \subseteq Places /\ graph \subseteq Places /\ dirty \subseteq Places
  /\ row \in [Units -> {"none", "free", "living", "dead", "fallen"}]
  /\ count \in 1..MaxRows /\ \A u \in Units : row[u] = "none" <=> u >= count
  /\ at \in [Units -> Places] /\ dest \in [Units -> Places]
  /\ walk \in [Units -> WalkStates]
  /\ route \in [Units -> Seq(Places)] /\ partial \in [Units -> BOOLEAN]
  /\ banked \in [Units -> Nat]
  /\ cursor \in 0..count - 1
  /\ passed \in [Units -> Nat] /\ lost \in BOOLEAN

(* World::new: every unit asks for a route to where it stands.             *)
Init ==
  /\ phase = "Programs"
  /\ open = Places /\ graph = Places /\ dirty = {}
  /\ count = FirstRows
  /\ row = [u \in Units |-> IF u < FirstRows THEN "living" ELSE "none"]
  /\ at \in [Units -> Bases] /\ dest = at
  /\ walk = [u \in Units |-> IF u < FirstRows THEN "Waiting" ELSE "Idle"]
  /\ route = [u \in Units |-> <<>>] /\ partial = [u \in Units |-> FALSE]
  /\ banked = [u \in Units |-> 0] /\ cursor = 0
  /\ passed = [u \in Units |-> 0] /\ lost = FALSE

----------------------------------------------------------------------------
(* What the other phases ask of the router, one unit at a time.            *)

(* set_unit_destination: a destination that has not changed is no order.   *)
Send(u, to) ==
  /\ u \in Living /\ to # dest[u]
  /\ phase = IF u \in Commanders THEN "Decision" ELSE "Programs"
  /\ dest' = [dest EXCEPT ![u] = to]
  /\ walk' = [walk EXCEPT ![u] = "Waiting"]
  /\ route' = [route EXCEPT ![u] = <<>>] /\ partial' = [partial EXCEPT ![u] = FALSE]
  /\ UNCHANGED <<phase, board, row, count, at, banked, cursor, passed, lost>>

(* park_unit.                                                              *)
Park(u) ==
  /\ phase = "Programs" /\ u \in Living \ Commanders
  /\ dest' = [dest EXCEPT ![u] = at[u]]
  /\ walk' = [walk EXCEPT ![u] = "Idle"]
  /\ route' = [route EXCEPT ![u] = <<>>] /\ partial' = [partial EXCEPT ![u] = FALSE]
  /\ UNCHANGED <<phase, board, row, count, at, banked, cursor, passed, lost>>

(* Shots in the Combat phase, falls in the Voxels phase: the router is not *)
(* told, and the dead keep their place in the queue until the tick's end.  *)
Die(u) ==
  /\ phase \in {"Decision", "Voxels"} /\ u \in Living
  /\ row' = [row EXCEPT ![u] = "dead"]
  /\ UNCHANGED <<phase, board, count, at, dest, router, cursor, passed, lost>>

(* fabricate: a freed row is reset and taken, or else the table grows.     *)
Fabricate(u, base) ==
  /\ phase = "Decision"
  /\ row[u] = "free" \/ (u = count /\ \A v \in Units : row[v] # "free")
  /\ row' = [row EXCEPT ![u] = "living"]
  /\ count' = IF u = count THEN count + 1 ELSE count
  /\ at' = [at EXCEPT ![u] = base] /\ dest' = [dest EXCEPT ![u] = base]
  /\ walk' = [walk EXCEPT ![u] = "Waiting"]
  /\ route' = [route EXCEPT ![u] = <<>>] /\ partial' = [partial EXCEPT ![u] = FALSE]
  /\ banked' = [banked EXCEPT ![u] = 0]
  /\ UNCHANGED <<phase, board, cursor, passed, lost>>

(* phase_voxels: the surface is refreshed at once, the graph is not; an    *)
(* edit that leaves the surface as it is marks its cluster all the same.   *)
Edit(p) ==
  /\ phase = "Voxels"
  /\ open' \in {open, open \union {p}, open \ {p}}
  /\ dirty' = dirty \union {p}
  /\ UNCHANGED <<phase, graph, rows, router, cursor, passed, lost>>

(* A snapshot of the world between two ticks is restored: the router's     *)
(* columns are in it, the graph is built anew, the repairer is new.        *)
Restore ==
  /\ phase = "Hash"
  /\ graph' = open /\ dirty' = {} /\ lost' = (lost \/ dirty # {})
  /\ UNCHANGED <<phase, open, rows, router, cursor, passed>>

----------------------------------------------------------------------------
(* The Movement phase: Router::advance.                                    *)

(* How far the next steps of u's route are legal as the terrain is.        *)
LegalSteps(u) ==
  CHOOSE n \in 0..Len(route[u]) - 1 :
    /\ \A i \in 1..n : Legal(route[u][i], route[u][i + 1])
    /\ n = Len(route[u]) - 1 \/ ~Legal(route[u][n + 1], route[u][n + 2])

Purse(u) == banked[u] + Speed

(* The step after those that were paid for is looked at all the same.      *)
Steps(u) == IF Purse(u) \div Price < LegalSteps(u)
            THEN Purse(u) \div Price ELSE LegalSteps(u)
Ended(u) == Steps(u) = Len(route[u]) - 1
Blocked(u) == ~Ended(u) /\ Steps(u) = LegalSteps(u)

Walkers == In("Walking") \intersect Living

(* Variant: the end of any route is the end of the walk.                   *)
WalksOnToTheEnd(u) ==
  IF Blocked(u) THEN "Waiting" ELSE IF Ended(u) THEN "Idle" ELSE "Walking"

(* Blocked, or at the end of a route that stops short, a unit asks again.  *)
WalksOn(u) ==
  IF Blocked(u) \/ (Ended(u) /\ partial[u]) THEN "Waiting"
  ELSE IF Ended(u) THEN "Idle" ELSE "Walking"

Advance ==
  /\ phase = "Movement" /\ GoesOn
  /\ at' = [u \in Units |-> IF u \in Walkers THEN route[u][Steps(u) + 1] ELSE at[u]]
  /\ walk' = [u \in Units |-> IF u \in Walkers THEN WalksOn(u) ELSE walk[u]]
  /\ route' = [u \in Units |-> IF u \in Walkers
                 THEN SubSeq(route[u], Steps(u) + 1, Len(route[u])) ELSE route[u]]
  /\ banked' = [u \in Units |->
       IF u \notin Walkers THEN banked[u]
       ELSE IF Blocked(u) \/ Ended(u) THEN 0 ELSE Purse(u) - Steps(u) * Price]
  /\ UNCHANGED <<board, row, count, dest, partial, cursor, passed, lost>>

----------------------------------------------------------------------------
(* The Pathing phase.                                                      *)

(* repair: the dirty clusters become what the terrain is.                  *)
Mended == (graph \ dirty) \union (open \intersect dirty)

(* Variant: only units that stand in a mended cluster, or are bound for    *)
(* one, ask again.                                                         *)
FreedNearby ==
  {u \in In("Sealed") : /\ {at[u], dest[u]} \intersect dirty # {}
                        /\ Connected(Mended, at[u], dest[u])}

(* rearm_sealed, on a tick that has mended something.                      *)
Freed ==
  {u \in In("Sealed") : dirty # {} /\ Connected(Mended, at[u], dest[u])}

Asking == In("Waiting") \union Freed

(* serve: the rows are scanned once from the cursor, until Cap are served. *)
Turn(u) == (u + count - cursor) % count
Ahead(u) == {v \in Asking : Turn(v) < Turn(u)}
Served == {u \in Asking : Cardinality(Ahead(u)) < Cap}

(* Variant: every tick begins at the first row.                            *)
NextCursorIsFirst == 0

(* A scan that has gone all the way round is back where it began.          *)
NextCursor ==
  IF Cardinality(Served) < Cap THEN cursor
  ELSE (1 + CHOOSE u \in Served : Cardinality(Ahead(u)) = Cap - 1) % count

(* route_with: a way over the graph as it is mended, that can be walked on *)
(* the terrain as it is; none is no route.                                 *)
Answers(u) ==
  LET ways == Ways(Mended \intersect open, at[u], dest[u])
  IN  IF ways = {} THEN {<<>>} ELSE ways

Answered(way, u) ==
  IF way[u] = <<>> THEN "Sealed" ELSE IF Len(way[u]) = 1 THEN "Idle" ELSE "Walking"

Path ==
  /\ phase = "Pathing" /\ GoesOn
  /\ graph' = Mended /\ dirty' = {} /\ lost' = (lost /\ dirty = {})
  /\ \E way \in [Served -> UNION {Answers(u) : u \in Served}] :
       /\ \A u \in Served : way[u] \in Answers(u)
       /\ walk' = [u \in Units |->
            IF u \in Served THEN Answered(way, u)
            ELSE IF u \in Freed THEN "Waiting" ELSE walk[u]]
       /\ route' = [u \in Units |->
            IF u \notin Served THEN route[u]
            ELSE IF Len(way[u]) < 2 THEN <<>>
            ELSE SubSeq(way[u], 1, IF Len(way[u]) < MaxRoute THEN Len(way[u]) ELSE MaxRoute)]
       /\ partial' = [u \in Units |->
            IF u \in Served THEN Len(way[u]) > MaxRoute ELSE partial[u]]
  /\ cursor' = NextCursor
  /\ passed' = [u \in Units |-> IF u \in Asking \ Served THEN passed[u] + 1 ELSE 0]
  /\ UNCHANGED <<open, rows, banked>>

----------------------------------------------------------------------------
(* The Match phase: the units of a seat that falls are disbanded           *)
(* (disband_units), commanders that are due come back into their rows      *)
(* (settle_respawns), and the rows of the other dead are freed once nobody *)
(* is owed for them (free_settled_rows).  A fallen seat's commander stays  *)
(* away.                                                                   *)
Settle(fall, back, owed) ==
  LET freed == ((Dead \ owed) \union fall) \ Commanders
      cleared == freed \union fall \union back
  IN  /\ phase = "Match" /\ GoesOn
      /\ row' = [u \in Units |-> IF u \in freed THEN "free"
                                 ELSE IF u \in fall THEN "fallen"
                                 ELSE IF u \in back THEN "living" ELSE row[u]]
      /\ \E base \in Bases :
           /\ at' = [u \in Units |-> IF u \in back THEN base ELSE at[u]]
           /\ dest' = [u \in Units |-> IF u \in back THEN base ELSE dest[u]]
      /\ walk' = [u \in Units |-> IF u \in back THEN "Waiting"
                                  ELSE IF u \in cleared THEN "Idle" ELSE walk[u]]
      /\ route' = [u \in Units |-> IF u \in cleared THEN <<>> ELSE route[u]]
      /\ partial' = [u \in Units |-> u \notin cleared /\ partial[u]]
      /\ banked' = [u \in Units |-> IF u \in freed THEN 0 ELSE banked[u]]
      /\ UNCHANGED <<board, count, cursor, passed, lost>>

(* A phase has done what it does.                                          *)
Pass ==
  /\ phase \in {"Programs", "Decision", "Voxels", "Hash"}
  /\ GoesOn
  /\ UNCHANGED <<board, rows, router, cursor, passed, lost>>

----------------------------------------------------------------------------
(* What happens to the units and the map, and what a tick makes of it.     *)
Events ==
  \/ \E u \in Units :
       \/ Park(u) \/ Die(u)
       \/ \E to \in Places : Send(u, to)
       \/ \E base \in Bases : Fabricate(u, base)
  \/ \E p \in Diggable : Edit(p)
  \/ \E fall, owed \in SUBSET (Living \union Dead), back \in SUBSET (Dead \intersect Commanders) :
       /\ fall \intersect owed = {} /\ fall \intersect back = {}
       /\ owed \subseteq Dead \ Commanders /\ fall \union back \union owed # {}
       /\ Settle(fall, back, owed)
  \/ Restore

Tick == Advance \/ Path \/ Settle({}, {}, {}) \/ Pass

Next == Events \/ Tick

Spec == Init /\ [][Next]_vars

(* A Push runs tick after tick, and a tick phase after phase: there is     *)
(* always a Tick that moves the phase on, whatever the Events.             *)
FairSpec == Spec /\ WF_phase(GoesOn)

----------------------------------------------------------------------------
(* Whoever is parked as sealed in is cut off from where it was sent, for as*)
(* long as the graph is what it was: every change of the graph asks again  *)
(* for all of them, wherever it was.  A restore that has dropped a repair  *)
(* is made up for by the next (rearm_sealed, phase_pathing).               *)
SealedIsCutOff ==
  ~lost => \A u \in In("Sealed") : ~Connected(graph, at[u], dest[u])

(* "It tries again exactly when the graph that refused it has changed"     *)
(* (router.rs): once the Pathing phase has run, no unit is left sealed in  *)
(* that the graph connects with where it was sent.                         *)
TriesAgainWhenTheGraphChanges ==
  phase = "Voxels" =>
    \A u \in In("Sealed") : ~Connected(graph, at[u], dest[u])

(* A unit that waits is passed over by each of the others once at the most,*)
(* however often they ask again and the table grows: no request starves    *)
(* behind the cap (serve: "every request is eventually served").           *)
NobodyIsPassedOverTwice ==
  \A u \in In("Waiting") : passed[u] <= (MaxRows - 1) \div Cap

(* When nobody is sent elsewhere, fielded or killed any more and the       *)
(* terrain rests, every living unit comes to where it was last sent, if    *)
(* there is a way: over routes that stop short, steps that were closed and *)
(* opened again, a queue, and a seal; but for what a restore has left      *)
(* sealed in.                                                              *)
SentUnitsArrive ==
  (<>[][UNCHANGED <<dest, row, open>>]_vars) =>
    <>[](\A u \in Living : \/ at[u] = dest[u]
                           \/ ~Connected(open, at[u], dest[u])
                           \/ lost /\ walk[u] = "Sealed")
=============================================================================
