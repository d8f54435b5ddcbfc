----------------------------- MODULE PhaseProofs -----------------------------
(* Of three phases of a tick, the Pathing phase (Router), the Power phase  *)
(* (Power) and the Quartermaster phase (Quartermaster).                    *)
(*                                                                         *)
(* PATHS.  That no unit is parked as sealed in that the graph connects with*)
(* where it was sent, for every map, table, cap and speed.                 *)
(*                                                                         *)
(* The invariant that carries it: the graph differs from the terrain only  *)
(* in what is marked for repair.  So what a repair makes of the graph is   *)
(* the terrain, and a search that finds nothing has searched the graph that*)
(* the seal is later held against.  A restore keeps it, since it mends and *)
(* unmarks everything at once; what it loses is the asking again.          *)
(*                                                                         *)
(* And that no request starves behind the cap.  A unit that is passed over *)
(* sees the scan's start move towards it by a full cap of others, and      *)
(* nothing else moves it away: neither the rows that are made behind it    *)
(* nor what the others ask again.                                          *)
(*                                                                         *)
(* POWER.  That one walk down the list is enough, and that the lights come *)
(* to rest.  Both come from what darkness does to relief: as more beacons  *)
(* go dark each of the rest stands to lose more vents and never fewer, so  *)
(* who relieves nothing when it is tried relieves nothing at the end.  A   *)
(* settle therefore leaves the grid at rest (Rests), and a grid at rest is *)
(* left alone by the brownout; a revival leaves headroom; and a swap goes  *)
(* dark for one above it.  The walks are over any beacons, in any order    *)
(* that has a last, by induction over the set of those that were tried.    *)
(*                                                                         *)
(* SPENDING.  That urgency decides, and that nobody is overtaken twice.    *)
(* What the walk down the requests has done when it is through is said     *)
(* without it (Filed): who was not paid could not be paid of what came     *)
(* before it left, and the cursor is at the last that was paid.  So who    *)
(* was paid instead of b is behind b until b is paid or its turn goes by.  *)
EXTENDS Router, Power, Quartermaster, FoldLemmas, FunctionTheorems

----------------------------------------------------------------------------
(* Paths.                                                                  *)

(* The columns of the table, as far as the argument goes.                  *)
Columns == walk \in [Units -> WalkStates] /\ DOMAIN at = Units /\ DOMAIN dest = Units

GraphFits ==
  /\ open \subseteq Places /\ graph \subseteq Places
  /\ graph \ dirty = open \ dirty

Parked == Columns /\ GraphFits /\ SealedIsCutOff

----------------------------------------------------------------------------
(* What a repair makes of a graph that fits is the terrain.                *)
LEMMA MendedIsTheTerrain ==
  ASSUME GraphFits
  PROVE  Mended = open
  BY DEF GraphFits, Mended

(* A way goes somewhere: none is empty.                                    *)
LEMMA WaysGoSomewhere ==
  ASSUME NEW S, IsFiniteSet(S), NEW x, NEW y
  PROVE  <<>> \notin Ways(S, x, y)
<1> SUFFICES ASSUME <<>> \in Walks(S) PROVE FALSE
  BY DEF Ways
<1>1. PICK n \in 1..Cardinality(S) : <<>> \in [1..n -> S]
  BY DEF Walks
<1>2. Cardinality(S) \in Nat
  BY FS_CardinalityType
<1>3. 1 \in 1..n
  BY <1>1, <1>2
<1>4. DOMAIN <<>> = 1..n
  BY <1>1
<1> QED
  BY <1>3, <1>4

(* A step that leaves the graph alone and seals nobody keeps the seals     *)
(* true, if those it leaves sealed stay where they are and are sent nowhere*)
(* else.                                                                   *)
LEMMA SealsKeep ==
  ASSUME SealedIsCutOff, graph' = graph, lost' = lost,
         \A u \in In("Sealed")' :
           u \in In("Sealed") /\ at'[u] = at[u] /\ dest'[u] = dest[u]
  PROVE  SealedIsCutOff'
  BY DEF SealedIsCutOff

(* A seal given by the Pathing phase is true when it is given.             *)
LEMMA UnansweredAreCutOff ==
  ASSUME GraphFits, NEW u, NEW way, way[u] \in Answers(u), Answered(way, u) = "Sealed"
  PROVE  ~Connected(open, at[u], dest[u])
<1> DEFINE ways == Ways(open, at[u], dest[u])
<1>1. Mended \intersect open = open
  BY MendedIsTheTerrain
<1>2. way[u] = <<>>
  BY DEF Answered
<1>3. IsFiniteSet(open)
  BY RouterAssumption, FS_Subset DEF RouterAssumption, GraphFits
<1>4. <<>> \notin ways
  BY <1>3, WaysGoSomewhere
<1>5. Answers(u) = IF ways = {} THEN {<<>>} ELSE ways
  BY <1>1 DEF Answers
<1>6. ways = {}
  BY <1>2, <1>4, <1>5
<1> QED
  BY <1>6 DEF Connected

----------------------------------------------------------------------------
(* World::new: nobody is sealed in yet, and the graph is the terrain.      *)
LEMMA InitParks == Init => Parked
<1> SUFFICES ASSUME Init PROVE Parked
  OBVIOUS
<1>1. Columns
  BY DEF Init, Columns, WalkStates, Units
<1>2. GraphFits
  BY DEF Init, GraphFits
<1>3. In("Sealed") = {}
  BY DEF Init, In
<1> QED
  BY <1>1, <1>2, <1>3 DEF Parked, SealedIsCutOff

(* One row is written: its unit is not sealed in afterwards.               *)
LEMMA RowStep ==
  ASSUME Parked, UNCHANGED <<board, lost>>, NEW w \in Units,
         NEW s \in WalkStates \ {"Sealed"}, NEW x, NEW y,
         walk' = [walk EXCEPT ![w] = s],
         at' = at \/ at' = [at EXCEPT ![w] = x],
         dest' = [dest EXCEPT ![w] = y]
  PROVE  Parked'
<1>1. Columns'
  BY DEF Parked, Columns
<1>2. GraphFits'
  BY DEF Parked, GraphFits, board
<1>3. \A u \in In("Sealed")' :
        u \in In("Sealed") /\ at'[u] = at[u] /\ dest'[u] = dest[u]
  BY DEF Parked, Columns, In
<1>4. SealedIsCutOff'
  BY <1>3, SealsKeep DEF Parked, board
<1> QED
  BY <1>1, <1>2, <1>4 DEF Parked

(* The other phases: whoever they send, park or field is not sealed in.    *)
LEMMA SendParks == ASSUME Parked, NEW u \in Units, NEW to, Send(u, to) PROVE Parked'
<1>1. "Waiting" \in WalkStates \ {"Sealed"}
  BY DEF WalkStates
<1>2. UNCHANGED <<board, lost>> /\ at' = at
  BY DEF Send
<1>3. walk' = [walk EXCEPT ![u] = "Waiting"] /\ dest' = [dest EXCEPT ![u] = to]
  BY DEF Send
<1> QED
  BY <1>1, <1>2, <1>3, RowStep

LEMMA ParkParks == ASSUME Parked, NEW u \in Units, Park(u) PROVE Parked'
<1>1. "Idle" \in WalkStates \ {"Sealed"}
  BY DEF WalkStates
<1>2. UNCHANGED <<board, lost>> /\ at' = at
  BY DEF Park
<1>3. walk' = [walk EXCEPT ![u] = "Idle"] /\ dest' = [dest EXCEPT ![u] = at[u]]
  BY DEF Park
<1> QED
  BY <1>1, <1>2, <1>3, RowStep

LEMMA FabricateParks ==
  ASSUME Parked, NEW u \in Units, NEW base, Fabricate(u, base) PROVE Parked'
<1>1. "Waiting" \in WalkStates \ {"Sealed"}
  BY DEF WalkStates
<1>2. UNCHANGED <<board, lost>>
  BY DEF Fabricate
<1>3. /\ walk' = [walk EXCEPT ![u] = "Waiting"] /\ dest' = [dest EXCEPT ![u] = base]
      /\ at' = [at EXCEPT ![u] = base]
  BY DEF Fabricate
<1> QED
  BY <1>1, <1>2, <1>3, RowStep

(* A step that writes nothing the seals or the graph are about.            *)
LEMMA QuietParks == ASSUME Parked, UNCHANGED <<board, walk, at, dest, lost>> PROVE Parked'
  BY DEF Parked, Columns, GraphFits, SealedIsCutOff, In, board, Connected, Ways, Walks

(* An edit changes the terrain where it marks it, and the graph not at all.*)
LEMMA EditParks == ASSUME Parked, NEW p \in Diggable, Edit(p) PROVE Parked'
<1>1. UNCHANGED <<graph, walk, at, dest, lost>>
  BY DEF Edit, rows, router
<1>2. Columns'
  BY <1>1 DEF Parked, Columns
<1>3. p \in Places
  BY RouterAssumption DEF RouterAssumption
<1>4. GraphFits'
  BY <1>1, <1>3 DEF Parked, GraphFits, Edit
<1>5. SealedIsCutOff'
  BY <1>1 DEF Parked, SealedIsCutOff, In, Connected, Ways, Walks
<1> QED
  BY <1>2, <1>4, <1>5 DEF Parked

(* A restore between ticks: with nothing marked, the graph is what it was. *)
LEMMA RestoreParks == ASSUME Parked, Restore PROVE Parked'
<1>1. UNCHANGED <<open, walk, at, dest>> /\ graph' = open /\ dirty' = {}
  BY DEF Restore, rows, router
<1>2. Columns'
  BY <1>1 DEF Parked, Columns
<1>3. GraphFits'
  BY <1>1 DEF Parked, GraphFits
<1>4. SealedIsCutOff'
  <2> SUFFICES ASSUME ~lost' PROVE SealedIsCutOff'
    BY DEF SealedIsCutOff
  <2>1. ~lost /\ dirty = {}
    BY DEF Restore
  <2>2. graph' = graph
    BY <1>1, <2>1 DEF Parked, GraphFits
  <2> QED
    BY <1>1, <2>1, <2>2 DEF Parked, SealedIsCutOff, In, Connected, Ways, Walks
<1> QED
  BY <1>2, <1>3, <1>4 DEF Parked

(* The Movement phase moves whoever walks, and seals nobody.               *)
LEMMA AdvanceParks == ASSUME Parked, Advance PROVE Parked'
<1>1. UNCHANGED <<board, dest, lost>>
  BY DEF Advance
<1>2. \A u \in Units : WalksOn(u) \in WalkStates \ {"Sealed"}
  BY DEF WalksOn, WalkStates
<1>3. /\ walk' = [u \in Units |-> IF u \in Walkers THEN WalksOn(u) ELSE walk[u]]
      /\ at' = [u \in Units |-> IF u \in Walkers THEN route[u][Steps(u) + 1] ELSE at[u]]
  BY DEF Advance
<1>4. Columns'
  BY <1>1, <1>2, <1>3 DEF Parked, Columns
<1>5. GraphFits'
  BY <1>1 DEF Parked, GraphFits, board
<1>6. \A u \in In("Sealed")' :
        u \in In("Sealed") /\ at'[u] = at[u] /\ dest'[u] = dest[u]
  BY <1>1, <1>2, <1>3 DEF In
<1>7. SealedIsCutOff'
  BY <1>1, <1>6, SealsKeep DEF Parked, board
<1> QED
  BY <1>4, <1>5, <1>7 DEF Parked

(* The Match phase writes the walk of everybody it moves.                  *)
LEMMA SettleParks ==
  ASSUME Parked, NEW fall, NEW back, NEW owed, Settle(fall, back, owed) PROVE Parked'
<1> DEFINE freed == ((Dead \ owed) \union fall) \ Commanders
           cleared == freed \union fall \union back
<1>1. UNCHANGED <<board, lost>>
  BY DEF Settle
<1>2. PICK base \in Bases :
        /\ at' = [u \in Units |-> IF u \in back THEN base ELSE at[u]]
        /\ dest' = [u \in Units |-> IF u \in back THEN base ELSE dest[u]]
  BY DEF Settle
<1>3. walk' = [u \in Units |-> IF u \in back THEN "Waiting"
                             ELSE IF u \in cleared THEN "Idle" ELSE walk[u]]
  BY DEF Settle
<1>4. Columns'
  BY <1>2, <1>3 DEF Parked, Columns, WalkStates
<1>5. GraphFits'
  BY <1>1 DEF Parked, GraphFits, board
<1>6. \A u \in In("Sealed")' :
        u \in In("Sealed") /\ at'[u] = at[u] /\ dest'[u] = dest[u]
  BY <1>2, <1>3 DEF In
<1>7. SealedIsCutOff'
  BY <1>1, <1>6, SealsKeep DEF Parked, board
<1> QED
  BY <1>4, <1>5, <1>7 DEF Parked

(* The Pathing phase: it seals only whom it has found no way for, and frees*)
(* whoever was sealed in and is not cut off any more.                      *)
LEMMA PathParks == ASSUME Parked, Path PROVE Parked'
<1>1. UNCHANGED <<open, at, dest>> /\ dirty' = {} /\ graph' = Mended
  BY DEF Path, rows
<1>2. graph' = open
  BY <1>1, MendedIsTheTerrain DEF Parked
<1>3. PICK way : /\ \A u \in Served : way[u] \in Answers(u)
                 /\ walk' = [u \in Units |->
                      IF u \in Served THEN Answered(way, u)
                      ELSE IF u \in Freed THEN "Waiting" ELSE walk[u]]
  BY DEF Path
<1>4. Columns'
  BY <1>1, <1>3 DEF Parked, Columns, Answered, WalkStates
<1>5. GraphFits'
  BY <1>1, <1>2 DEF Parked, GraphFits
<1>6. ASSUME ~lost', NEW u \in In("Sealed")' PROVE ~Connected(open, at[u], dest[u])
  <2>1. u \in Units /\ walk'[u] = "Sealed"
    BY <1>6 DEF In
  <2>2. CASE u \in Served
    BY <1>3, <2>1, <2>2, UnansweredAreCutOff DEF Parked
  <2>3. CASE u \notin Served
    <3>1. u \notin Freed /\ u \in In("Sealed")
      BY <1>3, <2>1, <2>3 DEF In
    <3>2. CASE dirty # {}
      BY <1>1, <1>2, <3>1, <3>2 DEF Freed
    <3>3. CASE dirty = {}
      <4>1. ~lost
        BY <1>6, <3>3 DEF Path
      <4>2. graph = open
        BY <3>3 DEF Parked, GraphFits
      <4> QED
        BY <3>1, <4>1, <4>2 DEF Parked, SealedIsCutOff
    <3> QED
      BY <3>2, <3>3
  <2> QED
    BY <2>2, <2>3
<1>7. SealedIsCutOff'
  BY <1>1, <1>2, <1>6 DEF SealedIsCutOff, Connected, Ways, Walks
<1> QED
  BY <1>4, <1>5, <1>7 DEF Parked

----------------------------------------------------------------------------
LEMMA NextParks == Parked /\ [Next]_vars => Parked'
<1> SUFFICES ASSUME Parked, [Next]_vars PROVE Parked'
  OBVIOUS
<1>1. ASSUME NEW u \in Units, Park(u) PROVE Parked'
  BY <1>1, ParkParks
<1>2. ASSUME NEW u \in Units, Die(u) PROVE Parked'
  BY <1>2, QuietParks DEF Die, router
<1>3. ASSUME NEW u \in Units, NEW to \in Places, Send(u, to) PROVE Parked'
  BY <1>3, SendParks
<1>4. ASSUME NEW u \in Units, NEW base \in Bases, Fabricate(u, base) PROVE Parked'
  BY <1>4, FabricateParks
<1>5. ASSUME NEW p \in Diggable, Edit(p) PROVE Parked'
  BY <1>5, EditParks
<1>6. ASSUME NEW fall, NEW back, NEW owed, Settle(fall, back, owed) PROVE Parked'
  BY <1>6, SettleParks
<1>7. CASE Restore
  BY <1>7, RestoreParks
<1>8. CASE Advance
  BY <1>8, AdvanceParks
<1>9. CASE Path
  BY <1>9, PathParks
<1>10. CASE Pass
  BY <1>10, QuietParks DEF Pass, rows, router
<1>11. CASE UNCHANGED vars
  BY <1>11, QuietParks DEF vars, rows, router
<1> QED
  BY <1>1, <1>2, <1>3, <1>4, <1>5, <1>6, <1>7, <1>8, <1>9, <1>10, <1>11 DEF Next, Events, Tick

(* The invariant: the graph is the terrain but for what is marked, and the *)
(* seals are true.                                                         *)
THEOREM ParkedHolds == Spec => []Parked
<1>1. Init => Parked
  BY InitParks
<1>2. Parked /\ [Next]_vars => Parked'
  BY NextParks
<1> QED
  BY <1>1, <1>2, PTL DEF Spec

(* Whoever is parked as sealed in is cut off from where it was sent, but   *)
(* for what a restore has lost (rearm_sealed, phase_pathing).              *)
THEOREM SealsAreTrue == Spec => []SealedIsCutOff
<1>1. Parked => SealedIsCutOff
  BY DEF Parked
<1> QED
  BY <1>1, ParkedHolds, PTL

(* What a repair makes of the graph is the terrain as it stands, in        *)
(* whatever order edits, repairs and restores have come (repair, mark).    *)
THEOREM RepairsCatchUp == Spec => [](Mended = open)
<1>1. Parked => Mended = open
  BY MendedIsTheTerrain DEF Parked
<1> QED
  BY <1>1, ParkedHolds, PTL

----------------------------------------------------------------------------
(* The queue.                                                              *)

(* How many rows the scan goes over before it comes to u, were the table   *)
(* full.                                                                   *)
WayOff(u) == IF u >= cursor THEN u - cursor ELSE u + MaxRows - cursor

(* The table and its rows; a row that is none is one not yet made.         *)
QueueFits ==
  /\ count \in 1..MaxRows /\ cursor \in 0..count - 1
  /\ walk \in [Units -> WalkStates] /\ passed \in [Units -> Nat]
  /\ DOMAIN row = Units
  /\ \A u \in Units : (row[u] = "none" <=> u >= count)
  /\ \A u \in Units : (walk[u] # "Idle" => u < count)

(* What a unit has waited and what it still waits are no more than a scan  *)
(* of the full table.                                                      *)
TurnsCount ==
  \A u \in Units : Cap * passed[u] + WayOff(u) <= MaxRows - 1

Queued == QueueFits /\ TurnsCount

(* A place counted once round the table is the place.                      *)
LEMMA Wraps ==
  ASSUME NEW n \in Nat \ {0}, NEW a \in 0..n - 1
  PROVE  a % n = a /\ (a + n) % n = a
  OBVIOUS

(* So many whole caps fit.                                                 *)
LEMMA Quotient ==
  ASSUME NEW a \in Nat, NEW b \in Nat \ {0}, NEW q \in Nat, b * q <= a
  PROVE  q <= a \div b
  OBVIOUS

(* One more cap.                                                           *)
LEMMA Distributes ==
  ASSUME NEW a \in Nat, NEW b \in Nat
  PROVE  a * (b + 1) = a * b + a /\ a * b \in Nat
  OBVIOUS

(* A unit's turn, without the remainder.                                   *)
LEMMA TurnIs ==
  ASSUME QueueFits, NEW u \in 0..count - 1
  PROVE  Turn(u) = IF u >= cursor THEN u - cursor ELSE u + count - cursor
<1>1. /\ count \in Nat \ {0} /\ cursor \in 0..count - 1 /\ cursor \in Int /\ u \in Int
  BY RouterAssumption DEF QueueFits, RouterAssumption
<1>2. CASE u >= cursor
  <2>1. u - cursor \in 0..count - 1 /\ u + count - cursor = (u - cursor) + count
    BY <1>1, <1>2
  <2> QED
    BY <1>1, <1>2, <2>1, Wraps DEF Turn
<1>3. CASE ~(u >= cursor)
  <2>1. u + count - cursor \in 0..count - 1
    BY <1>1, <1>3
  <2> QED
    BY <1>1, <1>3, <2>1, Wraps DEF Turn
<1> QED
  BY <1>2, <1>3

(* Whoever asks has a row.                                                 *)
LEMMA AskingHaveRows ==
  ASSUME QueueFits
  PROVE  /\ Asking \subseteq 0..count - 1 /\ Asking \subseteq Units
         /\ 0..count - 1 \subseteq Units
         /\ IsFiniteSet(Asking)
<1>1. count \in Nat \ {0} /\ MaxRows \in Nat /\ count <= MaxRows
  BY RouterAssumption DEF QueueFits, RouterAssumption
<1>2. Asking \subseteq Units /\ \A u \in Asking : walk[u] # "Idle"
  BY DEF Asking, In, Freed, Units
<1>3. Asking \subseteq 0..count - 1 /\ 0..count - 1 \subseteq Units
  BY <1>1, <1>2 DEF QueueFits, Units
<1>4. IsFiniteSet(0..count - 1)
  BY <1>1, FS_Interval
<1> QED
  BY <1>2, <1>3, <1>4, FS_Subset

(* The turns of the units that ask are different numbers.                  *)
LEMMA TurnsDiffer ==
  ASSUME QueueFits
  PROVE  /\ \A u \in Asking : Turn(u) \in 0..count - 1
         /\ \A u, v \in Asking : Turn(u) = Turn(v) => u = v
<1>1. count \in Nat \ {0} /\ cursor \in 0..count - 1 /\ cursor \in Int
  BY RouterAssumption DEF QueueFits, RouterAssumption
<1>2. \A u \in Asking : u \in 0..count - 1 /\ u \in Int
  BY <1>1, AskingHaveRows
<1>3. \A u \in Asking : Turn(u) = IF u >= cursor THEN u - cursor ELSE u + count - cursor
  BY <1>2, TurnIs
<1>4. \A u \in Asking : Turn(u) \in 0..count - 1
  BY <1>1, <1>2, <1>3
<1> QED
  BY <1>1, <1>2, <1>3, <1>4

(* A unit has as many units ahead of it as there are turns before its own, *)
(* at the most.                                                            *)
LEMMA AheadIsFinite ==
  ASSUME QueueFits, NEW u \in Asking
  PROVE  /\ IsFiniteSet(Ahead(u)) /\ Cardinality(Ahead(u)) \in Nat
         /\ Cardinality(Ahead(u)) <= Turn(u)
<1>1. IsFiniteSet(Ahead(u)) /\ Cardinality(Ahead(u)) \in Nat
  BY AskingHaveRows, FS_Subset, FS_CardinalityType DEF Ahead
<1>2. Turn(u) \in Nat /\ \A v \in Ahead(u) : Turn(v) \in 0..Turn(u) - 1
  <2>1. Turn(u) \in Nat /\ \A v \in Asking : Turn(v) \in Nat
    BY TurnsDiffer, RouterAssumption DEF QueueFits, RouterAssumption
  <2> QED
    BY <2>1 DEF Ahead
<1> DEFINE f == [v \in Ahead(u) |-> Turn(v)]
<1>3. f \in Injection(Ahead(u), 0..Turn(u) - 1)
  <2>1. f \in [Ahead(u) -> 0..Turn(u) - 1]
    BY <1>2
  <2>2. \A v, w \in Ahead(u) : f[v] = f[w] => v = w
    BY TurnsDiffer DEF Ahead
  <2> HIDE DEF f
  <2> QED
    BY <2>1, <2>2 DEF Injection, IsInjective
<1>4. IsFiniteSet(0..Turn(u) - 1) /\ Cardinality(0..Turn(u) - 1) = Turn(u)
  BY <1>2, FS_Interval
<1>5. Cardinality(Ahead(u)) <= Cardinality(0..Turn(u) - 1)
  <2> HIDE DEF f
  <2> QED
    BY <1>3, <1>4, FS_Injection
<1> QED
  BY <1>1, <1>4, <1>5

(* Behind a full cap there is one who was served last.                     *)
LEMMA SomebodyIsServedLast ==
  ASSUME QueueFits, NEW u \in Asking, Cardinality(Ahead(u)) >= Cap - 1
  PROVE  /\ Cardinality(Served) >= Cap
         /\ \E w \in Served : Cardinality(Ahead(w)) = Cap - 1
<1>0. Cap \in Nat \ {0}
  BY RouterAssumption DEF RouterAssumption
<1>1. \A v \in Asking : /\ IsFiniteSet(Ahead(v)) /\ Cardinality(Ahead(v)) \in Nat
                        /\ Turn(v) \in Nat
  <2>1. count \in Nat
    BY RouterAssumption DEF QueueFits, RouterAssumption
  <2> QED
    BY <2>1, AheadIsFinite, TurnsDiffer
<1> DEFINE Late == {v \in Asking : Cardinality(Ahead(v)) >= Cap - 1}
           T == {Turn(v) : v \in Late}
<1>2. T \in SUBSET Nat /\ T # {}
  <2>1. u \in Late
    OBVIOUS
  <2> QED
    BY <1>1, <2>1
<1>3. PICK n \in T : \A m \in T : n <= m
  <2> HIDE DEF T
  <2> QED
    BY <1>2, LeastNat
<1>4. PICK w \in Late : n = Turn(w)
  BY <1>3
<1>5. ASSUME NEW v \in Late PROVE Turn(w) <= Turn(v)
  BY <1>3, <1>4, <1>5
<1>6. Cardinality(Ahead(w)) = Cap - 1
  <2> SUFFICES ASSUME Cardinality(Ahead(w)) # Cap - 1 PROVE FALSE
    OBVIOUS
  <2>1. Cardinality(Ahead(w)) >= Cap
    BY <1>0, <1>1
  <2> DEFINE R == {Turn(v) : v \in Ahead(w)}
  <2>2. Ahead(w) # {}
    BY <1>0, <2>1, FS_EmptySet
  <2> DEFINE Back == {count - Turn(v) : v \in Ahead(w)}
  <2>3. Back \in SUBSET Nat /\ Back # {}
    <3>1. \A v \in Ahead(w) : Turn(v) \in 0..count - 1 /\ count \in Nat
      BY TurnsDiffer, RouterAssumption DEF Ahead, QueueFits, RouterAssumption
    <3> QED
      BY <2>2, <3>1
  <2>4. PICK b \in Back : \A m \in Back : b <= m
    <3> HIDE DEF Back
    <3> QED
      BY <2>3, LeastNat
  <2>5. PICK t \in Ahead(w) : b = count - Turn(t)
    BY <2>4
  <2>6. \A v \in Ahead(w) : Turn(v) <= Turn(t)
    <3>0. Ahead(w) \subseteq Asking
      BY DEF Ahead
    <3>1. count \in Nat /\ \A v \in Ahead(w) : Turn(v) \in Nat
      <4>1. count \in Nat
        BY RouterAssumption DEF QueueFits, RouterAssumption
      <4> QED
        BY <1>1, <3>0, <4>1
    <3>2. ASSUME NEW v \in Ahead(w) PROVE b <= count - Turn(v)
      BY <2>4
    <3> QED
      BY <2>5, <3>1, <3>2
  <2>7. t \in Asking /\ Turn(t) < Turn(w)
    BY <2>5 DEF Ahead
  <2>8. Ahead(w) = Ahead(t) \union {t} /\ t \notin Ahead(t)
    <3>1. \A v \in Asking : Turn(v) \in Nat /\ (Turn(v) = Turn(t) => v = t)
      BY <1>1, <2>7, TurnsDiffer
    <3>2. Turn(w) \in Nat
      BY <1>1
    <3> QED
      BY <2>6, <2>7, <3>1, <3>2 DEF Ahead
  <2>9. Cardinality(Ahead(w)) = Cardinality(Ahead(t)) + 1
    BY <1>1, <2>7, <2>8, FS_AddElement
  <2>10. t \in Late
    BY <1>0, <1>1, <2>1, <2>7, <2>9
  <2> QED
    BY <1>1, <1>5, <2>7, <2>10
<1>7. w \in Served
  BY <1>0, <1>6 DEF Served
<1>8. Ahead(w) \union {w} \subseteq Served
  <2>1. ASSUME NEW v \in Ahead(w) PROVE v \in Served
    <3>1. v \in Asking /\ Turn(v) < Turn(w) /\ Turn(v) \in Nat /\ Turn(w) \in Nat
      BY <1>1 DEF Ahead
    <3>2. v \notin Late
      BY <1>5, <3>1
    <3> QED
      BY <1>0, <1>1, <3>1, <3>2 DEF Served
  <2> QED
    BY <1>7, <2>1
<1>9. IsFiniteSet(Served) /\ Cardinality(Served) \in Nat
  BY AskingHaveRows, FS_Subset, FS_CardinalityType DEF Served
<1>10. w \notin Ahead(w)
  BY <1>1 DEF Ahead
<1>11. Cardinality(Ahead(w) \union {w}) = Cap
  <2>1. w \in Asking /\ IsFiniteSet(Ahead(w))
    BY <1>1
  <2>2. Cardinality(Ahead(w) \union {w}) = Cardinality(Ahead(w)) + 1
    BY <1>10, <2>1, FS_AddElement
  <2> QED
    BY <1>0, <1>6, <2>2
<1> QED
  BY <1>0, <1>6, <1>7, <1>8, <1>9, <1>11, FS_Subset

(* When the cap is used up, somebody has exactly the others ahead.         *)
LEMMA TheCapIsReached ==
  ASSUME QueueFits, ~(Cardinality(Served) < Cap)
  PROVE  \E w \in Served : Cardinality(Ahead(w)) = Cap - 1
<1>0. Cap \in Nat \ {0} /\ count \in Nat
  BY RouterAssumption DEF RouterAssumption, QueueFits
<1>1. Served \subseteq Asking /\ IsFiniteSet(Served) /\ Cardinality(Served) \in Nat
  BY AskingHaveRows, FS_Subset, FS_CardinalityType DEF Served
<1>2. \A v \in Asking : Turn(v) \in 0..count - 1
  BY TurnsDiffer
<1> DEFINE Back == {count - Turn(v) : v \in Served}
<1>3. Back \in SUBSET Nat /\ Back # {}
  <2>1. Served # {}
    BY <1>0, <1>1, FS_EmptySet
  <2> QED
    BY <1>0, <1>1, <1>2, <2>1
<1>4. PICK b \in Back : \A m \in Back : b <= m
  <2> HIDE DEF Back
  <2> QED
    BY <1>3, LeastNat
<1>5. PICK t \in Served : b = count - Turn(t)
  BY <1>4
<1>6. \A v \in Served : Turn(v) <= Turn(t)
  <2>1. ASSUME NEW v \in Served PROVE b <= count - Turn(v)
    BY <1>4
  <2>2. \A v \in Served : Turn(v) \in 0..count - 1
    BY <1>1, <1>2
  <2> QED
    BY <1>0, <1>5, <2>1, <2>2
<1>7. Served \ {t} \subseteq Ahead(t)
  <2>1. \A v \in Served : Turn(v) \in Nat /\ (Turn(v) = Turn(t) => v = t)
    BY <1>0, <1>1, <1>2, TurnsDiffer
  <2> QED
    BY <1>1, <1>6, <2>1 DEF Ahead
<1>8. Cardinality(Served \ {t}) = Cardinality(Served) - 1
  BY <1>1, FS_RemoveElement
<1>9. Cardinality(Ahead(t)) >= Cap - 1
  <2>1. IsFiniteSet(Ahead(t)) /\ Cardinality(Ahead(t)) \in Nat
    BY <1>1, AheadIsFinite
  <2>2. Cardinality(Served \ {t}) <= Cardinality(Ahead(t))
    BY <1>7, <2>1, FS_Subset
  <2> QED
    BY <1>0, <1>1, <1>8, <2>1, <2>2
<1> QED
  BY <1>1, <1>9, SomebodyIsServedLast

(* Passed over, a unit is nearer by a full cap.                            *)
LEMMA PassedOverIsNearer ==
  ASSUME QueueFits, cursor' = NextCursor, NEW u \in Asking \ Served
  PROVE  /\ cursor' \in 0..count - 1
         /\ WayOff(u)' + Cap <= WayOff(u)
<1>0. /\ Cap \in Nat \ {0} /\ count \in Nat \ {0} /\ MaxRows \in Nat /\ count <= MaxRows
      /\ cursor \in 0..count - 1 /\ cursor \in Int
  BY RouterAssumption DEF QueueFits, RouterAssumption
<1>1. ~(Cardinality(Served) < Cap)
  <2>1. Cardinality(Served) \in Nat
    BY AskingHaveRows, FS_Subset, FS_CardinalityType DEF Served
  <2>2. Cardinality(Ahead(u)) >= Cap - 1
    BY <1>0, AheadIsFinite DEF Served
  <2> QED
    BY <1>0, <2>1, <2>2, SomebodyIsServedLast
<1> DEFINE w == CHOOSE v \in Served : Cardinality(Ahead(v)) = Cap - 1
<1>2. w \in Served /\ Cardinality(Ahead(w)) = Cap - 1
  BY <1>1, TheCapIsReached
<1>3. cursor' = (1 + w) % count
  BY <1>1 DEF NextCursor
<1> HIDE DEF w
<1>4. w \in Asking /\ w \in 0..count - 1 /\ u \in 0..count - 1 /\ w \in Int /\ u \in Int
  BY <1>0, <1>2, AskingHaveRows DEF Served
<1>5. Cap - 1 <= Turn(w) /\ Turn(w) \in Nat /\ Turn(u) \in Nat
  BY <1>0, <1>2, <1>4, AheadIsFinite, TurnsDiffer
<1>6. Turn(w) < Turn(u)
  <2> SUFFICES ASSUME ~(Turn(w) < Turn(u)) PROVE FALSE
    OBVIOUS
  <2>1. Ahead(u) \subseteq Ahead(w)
    <3>1. \A v \in Asking : Turn(v) \in Nat
      BY <1>0, TurnsDiffer
    <3> QED
      BY <1>5, <3>1 DEF Ahead
  <2>2. Cardinality(Ahead(u)) <= Cardinality(Ahead(w))
    BY <1>4, <2>1, AheadIsFinite, FS_Subset
  <2>3. Cardinality(Ahead(u)) >= Cap /\ Cardinality(Ahead(u)) \in Nat
    BY <1>0, AheadIsFinite DEF Served
  <2> QED
    BY <1>0, <1>2, <2>2, <2>3
<1>7. /\ Turn(w) = IF w >= cursor THEN w - cursor ELSE w + count - cursor
      /\ Turn(u) = IF u >= cursor THEN u - cursor ELSE u + count - cursor
  BY <1>4, TurnIs
<1>8. cursor' = IF w + 1 = count THEN 0 ELSE w + 1
  <2>1. CASE w + 1 = count
    <3>1. 0 \in 0..count - 1 /\ 0 + count = 1 + w
      BY <1>0, <1>4, <2>1
    <3> QED
      BY <1>0, <1>3, <2>1, <3>1, Wraps
  <2>2. CASE w + 1 # count
    <3>1. 1 + w \in 0..count - 1 /\ 1 + w = w + 1
      BY <1>0, <1>4, <2>2
    <3> QED
      BY <1>0, <1>3, <2>2, <3>1, Wraps
  <2> QED
    BY <2>1, <2>2
<1>9. cursor' \in 0..count - 1
  BY <1>0, <1>4, <1>8
<1>10. Turn(w) + 1 + WayOff(u)' <= WayOff(u)
  BY <1>0, <1>4, <1>6, <1>7, <1>8 DEF WayOff
<1>11. WayOff(u)' \in Int /\ WayOff(u) \in Int
  BY <1>0, <1>4, <1>9 DEF WayOff
<1> QED
  BY <1>0, <1>5, <1>9, <1>10, <1>11

(* The phases that leave the queue's count alone.                          *)
LEMMA TurnsStay ==
  ASSUME TurnsCount, UNCHANGED <<cursor, passed>>
  PROVE  TurnsCount'
BY DEF TurnsCount, WayOff

(* A walk that changes without a new unit leaves the queue alone.          *)
LEMMA WalkStays ==
  ASSUME Queued, UNCHANGED <<count, cursor, passed, row>>,
         walk' \in [Units -> WalkStates],
         \A u \in Units : walk'[u] # "Idle" => walk[u] # "Idle" \/ row[u] # "none"
  PROVE  Queued'
<1>0. \A u \in Units : u \in Int /\ count \in Int
  BY RouterAssumption DEF Units, RouterAssumption, Queued, QueueFits
<1>1. QueueFits'
  BY <1>0 DEF Queued, QueueFits
<1> QED
  BY <1>1, TurnsStay DEF Queued

(* A unit is sent somewhere.                                               *)
LEMMA SendQueues ==
  ASSUME Queued, NEW u \in Units, NEW to, Send(u, to)
  PROVE  Queued'
<1>1. UNCHANGED <<count, cursor, passed, row>> /\ row[u] # "none"
  BY DEF Send, Living
<1>2. walk' = [walk EXCEPT ![u] = "Waiting"] /\ walk \in [Units -> WalkStates]
  BY DEF Send, Queued, QueueFits
<1> QED
  BY <1>1, <1>2, WalkStays DEF WalkStates

(* A unit parks.                                                           *)
LEMMA ParkQueues ==
  ASSUME Queued, NEW u \in Units, Park(u)
  PROVE  Queued'
<1>1. UNCHANGED <<count, cursor, passed, row>>
  BY DEF Park
<1>2. walk' = [walk EXCEPT ![u] = "Idle"] /\ walk \in [Units -> WalkStates]
  BY DEF Park, Queued, QueueFits
<1> QED
  BY <1>1, <1>2, WalkStays DEF WalkStates

(* A unit dies: it keeps its row, and its walk, until it is buried.        *)
LEMMA DieQueues ==
  ASSUME Queued, NEW u \in Units, Die(u)
  PROVE  Queued'
<1>1. /\ UNCHANGED <<count, cursor, passed, walk>>
      /\ row' = [row EXCEPT ![u] = "dead"] /\ row[u] = "living"
  BY DEF Die, router, Living
<1>2. QueueFits'
  BY <1>1 DEF Queued, QueueFits
<1> QED
  BY <1>1, <1>2, TurnsStay DEF Queued

(* A new unit takes a free row, or the table grows behind everybody: the   *)
(* distances are those of the full table, which no growth lengthens.       *)
LEMMA FabricateQueues ==
  ASSUME Queued, NEW u \in Units, NEW base, Fabricate(u, base)
  PROVE  Queued'
<1>1. /\ UNCHANGED <<cursor, passed>>
      /\ row[u] = "free" \/ u = count
      /\ row' = [row EXCEPT ![u] = "living"]
      /\ count' = IF u = count THEN count + 1 ELSE count
      /\ walk' = [walk EXCEPT ![u] = "Waiting"]
  BY DEF Fabricate
<1>2. u \in 0..MaxRows - 1 /\ MaxRows \in Nat /\ count \in 1..MaxRows /\ cursor \in 0..count - 1
  BY RouterAssumption DEF Units, RouterAssumption, Queued, QueueFits
<1>3. /\ walk \in [Units -> WalkStates] /\ passed \in [Units -> Nat] /\ DOMAIN row = Units
      /\ \A v \in Units : (row[v] = "none" <=> v >= count)
      /\ \A v \in Units : (walk[v] # "Idle" => v < count)
  BY DEF Queued, QueueFits
<1>4. u <= count
  BY <1>1, <1>2, <1>3
<1>5. count' \in 1..MaxRows /\ cursor' \in 0..count' - 1 /\ count <= count' /\ u < count'
  BY <1>1, <1>2, <1>3
<1>6. ASSUME NEW v \in Units PROVE (row'[v] = "none") <=> v >= count'
  <2>1. v \in 0..MaxRows - 1
    BY DEF Units
  <2> QED
    BY <1>1, <1>2, <1>3, <1>5, <2>1
<1>7. ASSUME NEW v \in Units, walk'[v] # "Idle" PROVE v < count'
  <2>1. v \in 0..MaxRows - 1
    BY DEF Units
  <2> QED
    BY <1>1, <1>2, <1>3, <1>5, <1>7, <2>1
<1>8. QueueFits'
  BY <1>1, <1>3, <1>5, <1>6, <1>7 DEF QueueFits, WalkStates
<1> QED
  BY <1>1, <1>8, TurnsStay DEF Queued

(* The units walk on.                                                      *)
LEMMA AdvanceQueues ==
  ASSUME Queued, Advance
  PROVE  Queued'
<1>1. UNCHANGED <<count, cursor, passed, row>> /\ walk \in [Units -> WalkStates]
  BY DEF Advance, Queued, QueueFits
<1>2. \A u \in Units : WalksOn(u) \in WalkStates
  BY DEF WalksOn, WalkStates
<1>3. walk' = [u \in Units |-> IF u \in Walkers THEN WalksOn(u) ELSE walk[u]]
  BY DEF Advance
<1>4. \A u \in Walkers : walk[u] # "Idle"
  BY DEF Walkers, In
<1> QED
  BY <1>1, <1>2, <1>3, <1>4, WalkStays

(* The answers are settled.                                                *)
LEMMA SettleQueues ==
  ASSUME Queued, NEW fall, NEW back, NEW owed, Settle(fall, back, owed),
         fall \subseteq Living \union Dead, back \subseteq Dead
  PROVE  Queued'
<1> DEFINE freed == ((Dead \ owed) \union fall) \ Commanders
           cleared == freed \union fall \union back
<1>1. /\ UNCHANGED <<count, cursor, passed>>
      /\ row' = [u \in Units |-> IF u \in freed THEN "free"
                                 ELSE IF u \in fall THEN "fallen"
                                 ELSE IF u \in back THEN "living" ELSE row[u]]
      /\ walk' = [u \in Units |-> IF u \in back THEN "Waiting"
                                  ELSE IF u \in cleared THEN "Idle" ELSE walk[u]]
  BY DEF Settle
<1>2. \A u \in freed \union fall \union back : row[u] # "none"
  BY DEF Living, Dead
<1> HIDE DEF freed, cleared
<1>3. /\ walk \in [Units -> WalkStates] /\ passed \in [Units -> Nat] /\ DOMAIN row = Units
      /\ \A v \in Units : (row[v] = "none" <=> v >= count)
      /\ \A v \in Units : (walk[v] # "Idle" => v < count)
      /\ count \in 1..MaxRows /\ cursor \in 0..count - 1
  BY DEF Queued, QueueFits
<1>4. \A v \in Units : (row'[v] = "none" <=> v >= count)
  BY <1>1, <1>2, <1>3
<1>5. \A v \in Units : (walk'[v] # "Idle" => v < count)
  <2>1. ASSUME NEW v \in back \intersect Units PROVE v < count
    <3>1. v \in Nat /\ count \in Nat
      BY <1>3, RouterAssumption DEF Units, RouterAssumption
    <3> QED
      BY <1>2, <1>3, <3>1
  <2> QED
    BY <1>1, <1>3, <2>1
<1>6. walk' \in [Units -> WalkStates]
  BY <1>1, <1>3 DEF WalkStates
<1>7. QueueFits'
  BY <1>1, <1>3, <1>4, <1>5, <1>6 DEF QueueFits
<1> QED
  BY <1>1, <1>7, TurnsStay DEF Queued

(* No distance is as long as the table.                                    *)
LEMMA DistanceFits ==
  ASSUME NEW c \in Nat, MaxRows \in Nat, NEW u \in 0..MaxRows - 1
  PROVE  LET d == IF u >= c THEN u - c ELSE u + MaxRows - c
         IN  d <= MaxRows - 1 /\ d \in Int
  OBVIOUS

(* The Pathing phase: whoever it passes over comes nearer by a full cap,   *)
(* and whoever it does not begins again.                                   *)
LEMMA PathQueues ==
  ASSUME Queued, Path
  PROVE  Queued'
<1>1. /\ cursor' = NextCursor /\ UNCHANGED <<row, count>>
      /\ passed' = [u \in Units |-> IF u \in Asking \ Served THEN passed[u] + 1 ELSE 0]
  BY DEF Path, rows
<1>2. /\ walk \in [Units -> WalkStates] /\ passed \in [Units -> Nat] /\ DOMAIN row = Units
      /\ \A v \in Units : (row[v] = "none" <=> v >= count)
      /\ \A v \in Units : (walk[v] # "Idle" => v < count)
      /\ count \in 1..MaxRows /\ cursor \in 0..count - 1
      /\ QueueFits
  BY DEF Queued, QueueFits
<1>3. PICK way : walk' = [u \in Units |->
            IF u \in Served THEN Answered(way, u)
            ELSE IF u \in Freed THEN "Waiting" ELSE walk[u]]
  BY DEF Path
<1>4. walk' \in [Units -> WalkStates]
  BY <1>2, <1>3 DEF Answered, WalkStates
<1>5. Served \subseteq Asking /\ Freed \subseteq Asking /\ \A u \in Asking : u < count
  <2>1. count \in Nat
    BY <1>2, RouterAssumption DEF RouterAssumption
  <2> QED
    BY <1>2, <2>1, AskingHaveRows DEF Served, Asking
<1>6. \A v \in Units : (walk'[v] # "Idle" => v < count)
  BY <1>2, <1>3, <1>5
<1>7. cursor' \in 0..count - 1
  <2>0. Cap \in Nat \ {0} /\ count \in Nat \ {0} /\ cursor \in 0..count - 1
    BY <1>2, RouterAssumption DEF RouterAssumption
  <2>1. CASE Cardinality(Served) < Cap
    BY <1>1, <2>0, <2>1 DEF NextCursor
  <2>2. CASE ~(Cardinality(Served) < Cap)
    <3> DEFINE w == CHOOSE u \in Served : Cardinality(Ahead(u)) = Cap - 1
    <3>1. cursor' = (1 + w) % count
      BY <1>1, <2>2 DEF NextCursor
    <3>2. w \in Served
      BY <1>2, <2>2, TheCapIsReached
    <3> HIDE DEF w
    <3>3. w \in 0..count - 1
      BY <1>2, <1>5, <3>2, AskingHaveRows
    <3>4. 1 + w \in Nat
      BY <2>0, <3>3
    <3> QED
      BY <2>0, <3>1, <3>4
  <2> QED
    BY <2>1, <2>2
<1>8. QueueFits'
  BY <1>1, <1>2, <1>4, <1>6, <1>7 DEF QueueFits
<1>9. ASSUME NEW u \in Units PROVE Cap * passed'[u] + WayOff(u)' <= MaxRows - 1
  <2>0. /\ Cap \in Nat /\ passed[u] \in Nat /\ MaxRows \in Nat /\ count \in 1..MaxRows
        /\ u \in 0..MaxRows - 1 /\ cursor \in 0..count - 1
    BY <1>2, RouterAssumption DEF RouterAssumption, Units
  <2>1. CASE u \in Asking \ Served
    <3>1. passed'[u] = passed[u] + 1
      BY <1>1, <2>1
    <3>2. WayOff(u)' + Cap <= WayOff(u)
      BY <1>1, <1>2, <2>1, PassedOverIsNearer
    <3>3. Cap * passed[u] + WayOff(u) <= MaxRows - 1
      BY DEF Queued, TurnsCount
    <3>4. WayOff(u) \in Int /\ WayOff(u)' \in Int
      BY <1>7, <2>0 DEF WayOff
    <3>5. Cap * passed'[u] = Cap * passed[u] + Cap /\ Cap * passed[u] \in Int
      <4>1. Cap * (passed[u] + 1) = Cap * passed[u] + Cap /\ Cap * passed[u] \in Nat
        BY <2>0, Distributes
      <4>2. Cap * passed[u] \in Int
        BY <4>1
      <4> QED
        BY <3>1, <4>1, <4>2, Zenon
    <3> QED
      BY <2>0, <3>2, <3>3, <3>4, <3>5
  <2>2. CASE u \notin Asking \ Served
    <3>1. passed'[u] = 0 /\ Cap * 0 = 0
      BY <1>1, <2>0, <2>2
    <3>2. WayOff(u)' <= MaxRows - 1 /\ WayOff(u)' \in Int
      <4>1. cursor' \in Nat
        BY <1>7, <2>0
      <4> QED
        BY <4>1, <2>0, DistanceFits, Zenon DEF WayOff
    <3> QED
      BY <2>0, <3>1, <3>2
  <2> QED
    BY <2>1, <2>2
<1> QED
  BY <1>8, <1>9 DEF Queued, TurnsCount

(* Every phase keeps the count of the turns.                               *)
LEMMA NextQueues == Queued /\ [Next]_vars => Queued'
<1> SUFFICES ASSUME Queued, [Next]_vars PROVE Queued'
  OBVIOUS
<1>0. ASSUME UNCHANGED <<rows, router, cursor, passed>> PROVE Queued'
  BY <1>0, TurnsStay DEF Queued, QueueFits, rows, router
<1>1. ASSUME NEW u \in Units, Park(u) PROVE Queued'
  BY <1>1, ParkQueues
<1>2. ASSUME NEW u \in Units, Die(u) PROVE Queued'
  BY <1>2, DieQueues
<1>3. ASSUME NEW u \in Units, NEW to \in Places, Send(u, to) PROVE Queued'
  BY <1>3, SendQueues
<1>4. ASSUME NEW u \in Units, NEW base \in Bases, Fabricate(u, base) PROVE Queued'
  BY <1>4, FabricateQueues
<1>5. ASSUME NEW p \in Diggable, Edit(p) PROVE Queued'
  BY <1>0, <1>5 DEF Edit
<1>6. ASSUME NEW fall \in SUBSET (Living \union Dead), NEW owed,
             NEW back \in SUBSET (Dead \intersect Commanders), Settle(fall, back, owed)
      PROVE  Queued'
  BY <1>6, SettleQueues
<1>7. CASE Restore
  BY <1>0, <1>7 DEF Restore
<1>8. CASE Advance
  BY <1>8, AdvanceQueues
<1>9. CASE Path
  BY <1>9, PathQueues
<1>10. CASE Pass
  BY <1>0, <1>10 DEF Pass
<1>11. CASE UNCHANGED vars
  BY <1>0, <1>11 DEF vars
<1>12. CASE Settle({}, {}, {})
  BY <1>12, SettleQueues
<1> QED
  BY <1>1, <1>2, <1>3, <1>4, <1>5, <1>6, <1>7, <1>8, <1>9, <1>10, <1>11, <1>12
     DEF Next, Events, Tick

(* A unit that waits is passed over no more often than the cap goes into   *)
(* the other rows of the table, however often the others ask again and     *)
(* while the table grows: no request starves behind the cap (serve).       *)
THEOREM NobodyStarves == Spec => []NobodyIsPassedOverTwice
<1>1. Init => Queued
  <2> SUFFICES ASSUME Init PROVE Queued
    OBVIOUS
  <2>1. MaxRows \in Nat /\ FirstRows \in 1..MaxRows /\ Cap \in Nat
    BY RouterAssumption DEF RouterAssumption
  <2>2. QueueFits
    BY <2>1 DEF Init, QueueFits, WalkStates, Units
  <2>3. TurnsCount
    BY <2>1 DEF Init, TurnsCount, WayOff, Units
  <2> QED
    BY <2>2, <2>3 DEF Queued
<1>2. Queued => NobodyIsPassedOverTwice
  <2> SUFFICES ASSUME Queued, NEW u \in In("Waiting")
               PROVE  passed[u] <= (MaxRows - 1) \div Cap
    BY DEF NobodyIsPassedOverTwice
  <2>1. /\ u \in 0..MaxRows - 1 /\ MaxRows \in Nat /\ Cap \in Nat \ {0} /\ passed[u] \in Nat
        /\ count \in 1..MaxRows /\ cursor \in 0..count - 1
    BY RouterAssumption DEF In, Units, RouterAssumption, Queued, QueueFits
  <2>2. Cap * passed[u] + WayOff(u) <= MaxRows - 1
    BY <2>1 DEF Queued, TurnsCount, Units
  <2>3. WayOff(u) \in Nat
    BY <2>1 DEF WayOff
  <2>4. Cap * passed[u] <= MaxRows - 1 /\ Cap * passed[u] \in Nat
    BY <2>1, <2>2, <2>3
  <2> QED
    BY <2>1, <2>4, Quotient
<1> QED
  BY <1>1, <1>2, NextQueues, PTL DEF Spec

----------------------------------------------------------------------------
(* Power.                                                                  *)

(* Dark beacons at rest: no deficit, or one that shedding does not relieve.*)
Rests(d) == Headroom(d) >= 0 \/ \A b \in Lit(d) : ~Relieves(b, d)

(* A grid that only unit orders have touched is as its settle left it.     *)
CalmRests == calm => Rests(dormant)

----------------------------------------------------------------------------
(* The numbers of a grid.                                                  *)
LEMMA CoreIsFirst == Core \in Beacons
<1>1. \E b \in Beacons : \A x \in Beacons : b <= x
  BY PowerAssumption, LeastNat
<1> QED
  BY <1>1 DEF Core

(* What the types of a grid come to.                                       *)
LEMMA GridTyped ==
  ASSUME PowerTypeOK
  PROVE  /\ standing \in SUBSET Beacons /\ IsFiniteSet(standing)
         /\ \A b \in Beacons : /\ b \in Nat /\ load[b] \in Nat
                               /\ priority[b] \in Nat /\ Distance[b] \in Nat
         /\ \A v \in Vents : Output[v] \in Nat /\ taps[v] \in SUBSET standing
         /\ IsFiniteSet(Vents)
<1>1. standing \in SUBSET Beacons /\ IsFiniteSet(standing)
  BY PowerAssumption, FS_Subset DEF PowerTypeOK
<1>2. \A b \in Beacons : /\ b \in Nat /\ load[b] \in Nat
                         /\ priority[b] \in Nat /\ Distance[b] \in Nat
  <2> SUFFICES ASSUME NEW b \in Beacons
               PROVE  /\ b \in Nat /\ load[b] \in Nat
                      /\ priority[b] \in Nat /\ Distance[b] \in Nat
    OBVIOUS
  <2>1. b \in Nat /\ Distance[b] \in Nat
    BY PowerAssumption
  <2>2. priority[b] \in Nat
    BY PowerAssumption DEF PowerTypeOK
  <2>3. load[b] \in 0..MaxLoad /\ MaxLoad \in Nat
    BY PowerAssumption DEF PowerTypeOK
  <2> QED
    BY <2>1, <2>2, <2>3
<1>3. \A v \in Vents : Output[v] \in Nat /\ taps[v] \in SUBSET standing
  BY PowerAssumption DEF PowerTypeOK
<1> QED
  BY <1>1, <1>2, <1>3, PowerAssumption

(* The sums of a grid are those of FoldLemmas.                             *)
LEMMA SumIsTotal == \A S, f : Sum(S, f) = Total(f, S)
  BY DEF Sum, Total

(* Every grid has its supply and its draw.                                 *)
LEMMA HeadroomTyped ==
  ASSUME PowerTypeOK, NEW d
  PROVE  /\ Supply(d) \in Int /\ Draw(d) \in Int /\ Headroom(d) \in Int
         /\ Summable(load, Lit(d))
         /\ Summable(Output, {v \in Vents : taps[v] \intersect Lit(d) # {}})
<1> DEFINE Fed == {v \in Vents : taps[v] \intersect Lit(d) # {}}
<1>1. IsFiniteSet(Lit(d)) /\ IsFiniteSet(Fed) /\ Lit(d) \in SUBSET Beacons
  BY GridTyped, FS_Subset DEF Lit
<1>2. Summable(load, Lit(d))
  BY <1>1, GridTyped DEF Summable
<1>3. Summable(Output, Fed)
  BY <1>1, GridTyped DEF Summable
<1> HIDE DEF Fed
<1>4. Total(load, Lit(d)) \in Int
  BY <1>2, TotalSplits
<1>5. Total(Output, Fed) \in Int
  BY <1>3, TotalSplits
<1>6. Draw(d) = Total(load, Lit(d))
  BY SumIsTotal DEF Draw
<1>7. Supply(d) = (IF Core \in Lit(d) THEN CoreSurplus ELSE 0) + Total(Output, Fed)
  BY SumIsTotal DEF Supply, Fed
<1>8. CoreSurplus \in Nat
  BY PowerAssumption
<1>9. Supply(d) \in Int
  BY <1>5, <1>7, <1>8
<1> QED
  BY <1>2, <1>3, <1>4, <1>6, <1>9 DEF Headroom, Fed

(* The vents that b alone keeps feeding.                                   *)
Alone(b, d) ==
  {v \in Vents : /\ taps[v] \intersect Lit(d) # {}
                 /\ taps[v] \intersect Lit(d \union {b}) = {}}

Loss(b, d) == (IF b = Core THEN CoreSurplus ELSE 0) + Total(Output, Alone(b, d))

(* What the headroom is once b is dark too.                                *)
LEMMA HeadroomWithout ==
  ASSUME PowerTypeOK, NEW d \in SUBSET standing, NEW b \in standing \ d
  PROVE  /\ Loss(b, d) \in Int /\ load[b] \in Nat
         /\ Headroom(d \union {b}) = Headroom(d) + load[b] - Loss(b, d)
<1> DEFINE e == d \union {b}
           Fed == {v \in Vents : taps[v] \intersect Lit(d) # {}}
           Still == {v \in Vents : taps[v] \intersect Lit(e) # {}}
<1>1. Lit(e) = Lit(d) \ {b} /\ b \in Lit(d)
  BY DEF Lit
<1>2. Summable(load, Lit(d)) /\ Summable(Output, Fed)
  BY HeadroomTyped
<1>3. load[b] \in Nat
  BY GridTyped
<1>4. /\ Total(load, Lit(d)) \in Int
      /\ Total(load, Lit(d)) = load[b] + Total(load, Lit(d) \ {b})
  BY <1>1, <1>2, TotalWithout
<1>5. Alone(b, d) \in SUBSET Fed /\ Fed \ Alone(b, d) = Still
  BY <1>1 DEF Alone
<1> HIDE DEF Fed, Still
<1>6. /\ Total(Output, Alone(b, d)) \in Int /\ Total(Output, Still) \in Int
      /\ Total(Output, Fed) = Total(Output, Alone(b, d)) + Total(Output, Still)
  BY <1>2, <1>5, TotalSplits
<1>7. CoreSurplus \in Nat
  BY PowerAssumption
<1>8. Supply(d) = (IF Core \in Lit(d) THEN CoreSurplus ELSE 0) + Total(Output, Fed)
  BY SumIsTotal DEF Supply, Fed
<1>9. Supply(e) = (IF Core \in Lit(e) THEN CoreSurplus ELSE 0) + Total(Output, Still)
  BY SumIsTotal DEF Supply, Still
<1>10. Draw(d) = Total(load, Lit(d)) /\ Draw(e) = Total(load, Lit(d) \ {b})
  BY <1>1, SumIsTotal DEF Draw
<1>11. Headroom(d) = Supply(d) - Draw(d) /\ Headroom(e) = Supply(e) - Draw(e)
  BY DEF Headroom
<1>12. Draw(d) \in Int /\ Draw(e) \in Int /\ Draw(e) = Draw(d) - load[b]
  <2>1. Draw(e) \in Int /\ Draw(d) \in Int
    BY HeadroomTyped
  <2>2. Draw(d) = load[b] + Draw(e)
    BY <1>4, <1>10
  <2> QED
    BY <1>3, <2>1, <2>2
<1>13. Loss(b, d) \in Int /\ Supply(d) \in Int /\ Supply(e) = Supply(d) - Loss(b, d)
  <2>1. CASE b = Core
    <3>1. Core \in Lit(d) /\ Core \notin Lit(e)
      BY <1>1, <2>1
    <3> QED
      BY <1>6, <1>7, <1>8, <1>9, <2>1, <3>1 DEF Loss
  <2>2. CASE b # Core
    <3>1. Core \in Lit(d) <=> Core \in Lit(e)
      BY <1>1, <2>2
    <3> QED
      BY <1>6, <1>7, <1>8, <1>9, <2>2, <3>1 DEF Loss
  <2> QED
    BY <2>1, <2>2
<1> HIDE DEF e
<1>14. Headroom(e) = Headroom(d) + load[b] - Loss(b, d)
  BY <1>3, <1>11, <1>12, <1>13
<1> QED
  BY <1>3, <1>13, <1>14 DEF e

(* Who relieves nothing still relieves nothing once others are dark too.   *)
LEMMA ReliefOnlyShrinks ==
  ASSUME PowerTypeOK, NEW d \in SUBSET standing, NEW e \in SUBSET standing,
         d \subseteq e, NEW b \in standing \ e, Relieves(b, e)
  PROVE  Relieves(b, d)
<1>1. Alone(b, d) \subseteq Alone(b, e) /\ Alone(b, e) \subseteq Vents
  BY DEF Alone, Lit
<1>2. IsFiniteSet(Alone(b, e)) /\ \A v \in Alone(b, e) : Output[v] \in Nat
  BY <1>1, GridTyped, FS_Subset
<1>3. /\ Total(Output, Alone(b, d)) <= Total(Output, Alone(b, e))
      /\ Total(Output, Alone(b, d)) \in Nat /\ Total(Output, Alone(b, e)) \in Nat
  BY <1>1, <1>2, TotalGrows
<1>4. CoreSurplus \in Nat
  BY PowerAssumption
<1>5. Loss(b, d) <= Loss(b, e)
  BY <1>3, <1>4 DEF Loss
<1>6. /\ Loss(b, d) \in Int /\ load[b] \in Nat /\ Loss(b, e) \in Int
      /\ Headroom(d \union {b}) = Headroom(d) + load[b] - Loss(b, d)
      /\ Headroom(e \union {b}) = Headroom(e) + load[b] - Loss(b, e)
  BY HeadroomWithout
<1>7. Headroom(d) \in Int /\ Headroom(e) \in Int
  BY HeadroomTyped
<1> QED
  BY <1>5, <1>6, <1>7 DEF Relieves
----------------------------------------------------------------------------
(* The orders the beacons are gone through in.                             *)
LEMMA BelowOrders ==
  ASSUME PowerTypeOK
  PROVE  /\ \A x \in Beacons : ~Below(x, x)
         /\ \A x, y, z \in Beacons : Below(x, y) /\ Below(y, z) => Below(x, z)
<1>1. \A b \in Beacons : priority[b] \in Nat
  BY GridTyped
<1> QED
  BY <1>1 DEF Below

ShedOrder == {p \in Beacons \X Beacons : ShedBefore(p[1], p[2])}
ReviveOrder == {p \in Beacons \X Beacons : ReviveBefore(p[2], p[1])}
SwapOrder == {p \in Beacons \X Beacons : SwapBefore(p[1], p[2])}

(* They are orders: no two beacons share a place in one.                   *)
LEMMA OrdersRank ==
  ASSUME PowerTypeOK, NEW S \in SUBSET Beacons
  PROVE  TotallyOrders(ShedOrder, S) /\ TotallyOrders(ReviveOrder, S) /\ TotallyOrders(SwapOrder, S)
<1>1. \A b \in Beacons : b \in Nat /\ priority[b] \in Nat /\ Distance[b] \in Nat
  BY GridTyped
<1>2. \A x \in S : x \in Beacons
  OBVIOUS
<1>3. ASSUME NEW x \in Beacons, NEW y \in Beacons
      PROVE  /\ <<x, y>> \in ShedOrder <=> ShedBefore(x, y)
             /\ <<x, y>> \in ReviveOrder <=> ReviveBefore(y, x)
             /\ <<x, y>> \in SwapOrder <=> SwapBefore(x, y)
  BY DEF ShedOrder, ReviveOrder, SwapOrder
<1>4. TotallyOrders(ShedOrder, S)
  <2>1. \A x, y \in Beacons : x # y => ShedBefore(x, y) \/ ShedBefore(y, x)
    BY <1>1 DEF ShedBefore, SameRank, Below
  <2>2. \A x, y, z \in Beacons : ShedBefore(x, y) /\ ShedBefore(y, z) => ShedBefore(x, z)
    BY <1>1 DEF ShedBefore, SameRank, Below
  <2>3. \A x \in Beacons : ~ShedBefore(x, x)
    BY <1>1 DEF ShedBefore, SameRank, Below
  <2> QED
    BY <1>2, <1>3, <2>1, <2>2, <2>3 DEF TotallyOrders
<1>5. TotallyOrders(ReviveOrder, S)
  <2>1. \A x, y \in Beacons : x # y => ReviveBefore(x, y) \/ ReviveBefore(y, x)
    BY <1>1 DEF ReviveBefore, SameRank, Below
  <2>2. \A x, y, z \in Beacons :
          ReviveBefore(x, y) /\ ReviveBefore(y, z) => ReviveBefore(x, z)
    BY <1>1 DEF ReviveBefore, SameRank, Below
  <2>3. \A x \in Beacons : ~ReviveBefore(x, x)
    BY <1>1 DEF ReviveBefore, SameRank, Below
  <2> QED
    BY <1>2, <1>3, <2>1, <2>2, <2>3 DEF TotallyOrders
<1>6. TotallyOrders(SwapOrder, S)
  <2>1. \A x, y \in Beacons : x # y => SwapBefore(x, y) \/ SwapBefore(y, x)
    BY <1>1 DEF SwapBefore, SameRank, Below
  <2>2. \A x, y, z \in Beacons : SwapBefore(x, y) /\ SwapBefore(y, z) => SwapBefore(x, z)
    BY <1>1 DEF SwapBefore, SameRank, Below
  <2>3. \A x \in Beacons : ~SwapBefore(x, x)
    BY <1>1 DEF SwapBefore, SameRank, Below
  <2> QED
    BY <1>2, <1>3, <2>1, <2>2, <2>3 DEF TotallyOrders
<1> QED
  BY <1>4, <1>5, <1>6

LastToShed(S) == CHOOSE x \in S : \A y \in S \ {x} : ShedBefore(y, x)
LastToSwap(S) == CHOOSE x \in S : \A y \in S \ {x} : SwapBefore(y, x)
FirstToLight(S) == First(S, ReviveBefore)

(* Each order has its one to take.                                         *)
LEMMA SomeoneIsNext ==
  ASSUME PowerTypeOK, NEW S \in SUBSET standing, S # {}
  PROVE  LastToShed(S) \in S /\ LastToSwap(S) \in S /\ FirstToLight(S) \in S
<1>1. S \in SUBSET Beacons /\ IsFiniteSet(S)
  BY GridTyped, FS_Subset
<1>2. TotallyOrders(ShedOrder, S) /\ TotallyOrders(ReviveOrder, S) /\ TotallyOrders(SwapOrder, S)
  BY <1>1, OrdersRank
<1>3. LastToShed(S) \in S
  <2>1. \E x \in S : \A y \in S \ {x} : <<y, x>> \in ShedOrder
    BY <1>1, <1>2, LastExists
  <2>2. \E x \in S : \A y \in S \ {x} : ShedBefore(y, x)
    BY <2>1 DEF ShedOrder
  <2> QED
    BY <2>2 DEF LastToShed
<1>4. LastToSwap(S) \in S
  <2>1. \E x \in S : \A y \in S \ {x} : <<y, x>> \in SwapOrder
    BY <1>1, <1>2, LastExists
  <2>2. \E x \in S : \A y \in S \ {x} : SwapBefore(y, x)
    BY <2>1 DEF SwapOrder
  <2> QED
    BY <2>2 DEF LastToSwap
<1>5. FirstToLight(S) \in S
  <2>1. \E x \in S : \A y \in S \ {x} : <<y, x>> \in ReviveOrder
    BY <1>1, <1>2, LastExists
  <2>2. \E x \in S : \A y \in S \ {x} : ReviveBefore(x, y)
    BY <2>1 DEF ReviveOrder
  <2> QED
    BY <2>2 DEF FirstToLight, First
<1> QED
  BY <1>3, <1>4, <1>5

----------------------------------------------------------------------------
(* The walk down the list of a brownout.                                   *)
Tried(b, d) == IF Headroom(d) < 0 /\ Relieves(b, d) THEN d \union {b} ELSE d

Sheds(w, list, d) ==
  /\ w \in [SUBSET list -> SUBSET standing]
  /\ w[{}] = d
  /\ \A S \in SUBSET list :
       S # {} => w[S] = Tried(LastToShed(S), w[S \ {LastToShed(S)}])
  /\ ShedFrom(list, d) = w[list]

(* That there is such a walk: ShedFrom is defined by recursion.            *)
LEMMA ShedWalks ==
  ASSUME PowerTypeOK, NEW list \in SUBSET standing, NEW d \in SUBSET standing
  PROVE  \E w : Sheds(w, list, d)
<1> DEFINE V == SUBSET standing
           last == [S \in SUBSET list |-> LastToShed(S)]
           op == [p \in list \X V |-> Tried(p[1], p[2])]
           Is(f) == f = [S \in SUBSET list |->
                           IF S = {} THEN d
                           ELSE Tried(LastToShed(S), f[S \ {LastToShed(S)}])]
           w == CHOOSE f : Is(f)
<1>1. IsFiniteSet(list)
  BY GridTyped, FS_Subset
<1>2. \A S \in SUBSET list : S # {} => LastToShed(S) \in S
  BY SomeoneIsNext
<1>3. op \in [list \X V -> V]
  <2>1. \A p \in list \X V : Tried(p[1], p[2]) \in V
    BY DEF Tried
  <2> QED
    BY <2>1
<1>4. PICK f \in [SUBSET list -> V] : WalksDown(f, list, last, d, op)
  <2>1. \A S \in SUBSET list : S # {} => last[S] \in S
    BY <1>2
  <2> HIDE DEF last, op
  <2> QED
    BY <1>1, <1>3, <2>1, WalkDownExists
<1>5. \A S \in SUBSET list :
        f[S] = IF S = {} THEN d ELSE Tried(LastToShed(S), f[S \ {LastToShed(S)}])
  <2>1. \A S \in SUBSET list :
          f[S] = IF S = {} THEN d ELSE op[<<last[S], f[S \ {last[S]}]>>]
    BY Zenon, <1>4 DEF WalksDown
  <2>2. ASSUME NEW S \in SUBSET list, S # {}
        PROVE  op[<<last[S], f[S \ {last[S]}]>>]
                 = Tried(LastToShed(S), f[S \ {LastToShed(S)}])
    <3>1. /\ last[S] = LastToShed(S) /\ LastToShed(S) \in list
          /\ S \ {LastToShed(S)} \in SUBSET list
      BY <1>2, <2>2
    <3>2. f[S \ {LastToShed(S)}] \in V
      BY <1>4, <3>1
    <3> HIDE DEF last, V
    <3>3. <<LastToShed(S), f[S \ {LastToShed(S)}]>> \in list \X V
      BY <3>1, <3>2
    <3> QED
      BY <3>1, <3>3
  <2> HIDE DEF last, op
  <2> QED
    BY <2>1, <2>2
<1>6. Is(f)
  <2>1. f = [S \in SUBSET list |-> f[S]]
    BY Zenon, <1>4
  <2> QED
    BY Zenon, <1>5, <2>1
<1>7. Is(w)
  <2> HIDE DEF Is
  <2> QED
    BY <1>6
<1>8. ShedFrom(list, d) = w[list]
  BY Zenon DEF ShedFrom, Tried, LastToShed
<1> HIDE DEF w
<1>9. w = [S \in SUBSET list |-> IF S = {} THEN d
                         ELSE Tried(LastToShed(S), w[S \ {LastToShed(S)}])]
  BY <1>7
<1> HIDE DEF Is
<1>10. /\ w[{}] = d
       /\ \A S \in SUBSET list :
            S # {} => w[S] = Tried(LastToShed(S), w[S \ {LastToShed(S)}])
  BY Zenon, <1>9
<1>11. \A S \in SUBSET list : w[S] \in V
  <2> DEFINE Bad == {S \in SUBSET list : w[S] \notin V}
  <2>1. ASSUME NEW T \in Bad, \A U \in SUBSET T : U # T => U \notin Bad
        PROVE  FALSE
    <3>1. T # {} /\ T \in SUBSET list
      BY <1>10
    <3>2. LastToShed(T) \in T
      BY <1>2, <3>1
    <3>3. w[T \ {LastToShed(T)}] \in V
      <4> DEFINE U == T \ {LastToShed(T)}
      <4>1. U \in SUBSET T /\ U # T /\ U \in SUBSET list
        BY <3>1, <3>2
      <4> HIDE DEF U, V
      <4>2. w[U] \in V
        BY <2>1, <4>1
      <4> QED
        BY <4>2 DEF U
    <3>4. Tried(LastToShed(T), w[T \ {LastToShed(T)}]) \in V
      BY <3>1, <3>2, <3>3 DEF Tried
    <3>5. w[T] \in V
      BY Zenon, <1>10, <3>1, <3>4
    <3> QED
      BY <2>1, <3>5
  <2>2. Bad \in SUBSET SUBSET list
    OBVIOUS
  <2>3. Bad = {}
    <3> HIDE DEF Bad
    <3> QED
      BY <1>1, <2>1, <2>2, SetInduction
  <2> QED
    BY <2>3
<1>12. w = [S \in SUBSET list |-> w[S]]
  BY Zenon, <1>9
<1>13. Sheds(w, list, d)
  BY <1>8, <1>10, <1>11, <1>12 DEF Sheds
<1> QED
  BY <1>13

(* What the walk has done once those of S were tried: those it passed over *)
(* would still relieve nothing, and it has nothing to do at rest.          *)
Shed(q, S, d) ==
  /\ d \subseteq q /\ q \subseteq d \union S
  /\ Headroom(q) >= 0 \/ \A b \in S \ q : ~Relieves(b, q)
  /\ (Headroom(d) >= 0 \/ \A b \in S : ~Relieves(b, d)) => q = d

(* The next of the list is tried.                                          *)
LEMMA TriedSheds ==
  ASSUME PowerTypeOK, NEW d \in SUBSET standing, NEW q \in SUBSET standing,
         NEW S \in SUBSET standing, NEW b \in standing \ S, b \notin d, Shed(q, S, d)
  PROVE  Shed(Tried(b, q), S \union {b}, d)
<1>1. /\ d \subseteq q /\ q \subseteq d \union S
      /\ Headroom(q) >= 0 \/ \A x \in S \ q : ~Relieves(x, q)
      /\ (Headroom(d) >= 0 \/ \A x \in S : ~Relieves(x, d)) => q = d
  BY DEF Shed
<1>2. Headroom(q) \in Int /\ Headroom(d) \in Int
  BY HeadroomTyped
<1>3. CASE Headroom(q) < 0 /\ Relieves(b, q)
  <2>1. Tried(b, q) = q \union {b}
    BY <1>3 DEF Tried
  <2> DEFINE r == q \union {b}
  <2>2. d \subseteq r /\ r \subseteq d \union (S \union {b})
    BY <1>1
  <2>3. \A x \in (S \union {b}) \ r : ~Relieves(x, r)
    <3> SUFFICES ASSUME NEW x \in S \ r, Relieves(x, r) PROVE FALSE
      OBVIOUS
    <3>1. x \in standing \ r /\ r \in SUBSET standing /\ q \subseteq r
      OBVIOUS
    <3>2. Relieves(x, q)
      <4> HIDE DEF r
      <4> QED
        BY <3>1, ReliefOnlyShrinks
    <3>3. ~(Headroom(q) >= 0)
      BY <1>2, <1>3
    <3> QED
      BY <1>1, <3>2, <3>3
  <2>4. ~(Headroom(d) >= 0 \/ \A x \in S \union {b} : ~Relieves(x, d))
    BY <1>1, <1>2, <1>3
  <2> QED
    BY <2>1, <2>2, <2>3, <2>4 DEF Shed
<1>4. CASE ~(Headroom(q) < 0 /\ Relieves(b, q))
  <2>1. Tried(b, q) = q
    BY <1>4 DEF Tried
  <2>2. Headroom(q) >= 0 \/ ~Relieves(b, q)
    BY <1>2, <1>4
  <2> QED
    BY <1>1, <2>1, <2>2 DEF Shed
<1> QED
  BY <1>3, <1>4

(* So it is when all of the list were tried.                               *)
LEMMA ShedFromSheds ==
  ASSUME PowerTypeOK, NEW list \in SUBSET standing, NEW d \in SUBSET standing,
         list \subseteq Lit(d)
  PROVE  ShedFrom(list, d) \in SUBSET standing /\ Shed(ShedFrom(list, d), list, d)
<1>1. PICK w : Sheds(w, list, d)
  BY ShedWalks
<1> DEFINE Bad == {S \in SUBSET list : ~Shed(w[S], S, d)}
<1>2. ASSUME NEW T \in Bad, \A U \in SUBSET T : U # T => U \notin Bad
      PROVE  FALSE
  <2>1. T \in SUBSET list /\ ~Shed(w[T], T, d)
    OBVIOUS
  <2>2. T # {}
    BY <1>1, <2>1 DEF Sheds, Shed
  <2> DEFINE b == LastToShed(T)
             R == T \ {b}
  <2>3. b \in T
    BY <2>1, <2>2, SomeoneIsNext
  <2>4. /\ R \in SUBSET list /\ R \in SUBSET standing /\ b \in standing \ R
        /\ R \union {b} = T /\ b \notin d
    BY <2>1, <2>3 DEF Lit
  <2>5. Shed(w[R], R, d)
    BY <1>2, <2>3, <2>4
  <2>6. w[R] \in SUBSET standing /\ w[T] = Tried(b, w[R])
    BY <1>1, <2>1, <2>2, <2>4 DEF Sheds
  <2> HIDE DEF R, b
  <2>7. Shed(Tried(b, w[R]), R \union {b}, d)
    BY <2>4, <2>5, <2>6, TriedSheds
  <2> QED
    BY <2>1, <2>4, <2>6, <2>7
<1>3. Bad \in SUBSET SUBSET list /\ IsFiniteSet(list)
  BY GridTyped, FS_Subset
<1>4. Bad = {}
  <2> HIDE DEF Bad
  <2> QED
    BY <1>2, <1>3, SetInduction
<1> QED
  BY <1>1, <1>4 DEF Sheds

(* A brownout leaves the grid at rest, and a grid at rest alone.           *)
LEMMA BrownOutRests ==
  ASSUME PowerTypeOK, NEW d \in SUBSET standing
  PROVE  /\ BrownOut(d) \in SUBSET standing /\ Rests(BrownOut(d))
         /\ Rests(d) => BrownOut(d) = d
<1> DEFINE q == ShedFrom(Lit(d), d)
<1>1. q \in SUBSET standing /\ Shed(q, Lit(d), d)
  BY ShedFromSheds DEF Lit
<1>2. BrownOut(d) = q
  BY DEF BrownOut
<1> HIDE DEF q
<1>3. Lit(q) \subseteq Lit(d) \ q
  BY <1>1 DEF Lit, Shed
<1> QED
  BY <1>1, <1>2, <1>3 DEF Rests, Shed

----------------------------------------------------------------------------
(* The revival goes on as long as somebody's waking leaves the margin.     *)
Able(d, lit) == {b \in (d \ lit) : Headroom(d \ (lit \union {b})) >= ReviveMargin}

Revives(w, d) ==
  /\ \A S \in SUBSET d :
       w[S] = IF Able(d, S) = {} THEN d \ S
              ELSE w[S \union {FirstToLight(Able(d, S))}]
  /\ Revive(d) = w[{}]

(* That there is such a walk: Revive is defined by recursion.              *)
LEMMA ReviveWalks ==
  ASSUME PowerTypeOK, NEW d \in SUBSET standing
  PROVE  \E w : Revives(w, d)
<1> DEFINE D == SUBSET d
           more(S) == S \union {FirstToLight(Able(d, S))}
           rank == [S \in D |-> Cardinality(d \ S)]
           stop == {S \in D : Able(d, S) = {}}
           base == [S \in D |-> d \ S]
           next == [S \in D |-> IF Able(d, S) = {} THEN S ELSE more(S)]
           op == [p \in D \X D |-> p[2]]
           Is(f) == f = [S \in D |-> IF Able(d, S) = {} THEN d \ S ELSE f[more(S)]]
           w == CHOOSE f : Is(f)
<1>1. IsFiniteSet(d)
  BY GridTyped, FS_Subset
<1>2. \A S \in D : Able(d, S) # {} =>
        /\ FirstToLight(Able(d, S)) \in d \ S /\ more(S) \in D
  <2> SUFFICES ASSUME NEW S \in D, Able(d, S) # {}
               PROVE  FirstToLight(Able(d, S)) \in d \ S
    OBVIOUS
  <2>1. Able(d, S) \in SUBSET standing /\ Able(d, S) \subseteq d \ S
    BY DEF Able
  <2> QED
    BY <2>1, SomeoneIsNext
<1>3. Descends(D, D, rank, stop, base, next, op)
  <2>1. \A S \in D : IsFiniteSet(d \ S) /\ Cardinality(d \ S) \in Nat
    BY <1>1, FS_Subset, FS_CardinalityType
  <2>2. rank \in [D -> Nat]
    BY <2>1
  <2>3. stop \in SUBSET D /\ base \in [D -> D] /\ op \in [D \X D -> D]
    OBVIOUS
  <2>4. next \in [D -> D]
    BY <1>2
  <2>5. ASSUME NEW S \in D \ stop PROVE rank[next[S]] < rank[S]
    <3>1. Able(d, S) # {} /\ S \in D
      OBVIOUS
    <3> DEFINE b == FirstToLight(Able(d, S))
               T == S \union {b}
    <3>2. b \in d \ S /\ T \in D /\ next[S] = T
      BY <1>2, <3>1
    <3>3. d \ T = (d \ S) \ {b}
      OBVIOUS
    <3> HIDE DEF b, T
    <3> DEFINE left == d \ S
    <3>4. Cardinality(d \ T) = Cardinality(d \ S) - 1
      <4>1. IsFiniteSet(left) /\ b \in left
        BY <2>1, <3>1, <3>2
      <4> HIDE DEF left
      <4>2. Cardinality(left \ {b}) = Cardinality(left) - 1
        BY <4>1, FS_RemoveElement
      <4> QED
        BY <3>3, <4>2 DEF left
    <3>5. rank[S] = Cardinality(d \ S) /\ rank[T] = Cardinality(d \ T)
      BY <3>1, <3>2
    <3>6. Cardinality(d \ S) \in Nat
      BY <2>1, <3>1
    <3> HIDE DEF rank, next
    <3> QED
      BY <3>2, <3>4, <3>5, <3>6
  <2> HIDE DEF rank, stop, base, next, op
  <2> QED
    BY <2>2, <2>3, <2>4, <2>5 DEF Descends
<1>4. PICK f \in [D -> D] : Follows(f, D, stop, base, next, op)
  <2> HIDE DEF D, rank, stop, base, next, op
  <2> QED
    BY <1>3, Recursion
<1>5. \A S \in D : f[S] = IF Able(d, S) = {} THEN d \ S ELSE f[more(S)]
  <2> SUFFICES ASSUME NEW S \in D
               PROVE  f[S] = IF Able(d, S) = {} THEN d \ S ELSE f[more(S)]
    OBVIOUS
  <2>1. f[S] = IF S \in stop THEN base[S] ELSE op[<<S, f[next[S]]>>]
    BY <1>4 DEF Follows
  <2>2. CASE Able(d, S) = {}
    BY <2>1, <2>2
  <2>3. CASE Able(d, S) # {}
    <3>1. S \notin stop /\ next[S] = more(S) /\ more(S) \in D
      BY <1>2, <2>3
    <3>2. f[more(S)] \in D
      BY <1>4, <3>1
    <3>3. op[<<S, f[more(S)]>>] = f[more(S)]
      BY <3>2
    <3> HIDE DEF stop, next, more, op
    <3> QED
      BY <2>1, <2>3, <3>1, <3>3
  <2> QED
    BY <2>2, <2>3
<1>6. Is(f)
  <2>1. f = [S \in D |-> f[S]]
    BY Zenon, <1>4
  <2> QED
    BY Zenon, <1>5, <2>1
<1>7. Is(w)
  <2> HIDE DEF Is
  <2> QED
    BY <1>6
<1>8. Revive(d) = w[{}]
  BY Zenon DEF Revive, Able, FirstToLight
<1> HIDE DEF w
<1>9. w = [S \in D |-> IF Able(d, S) = {} THEN d \ S ELSE w[more(S)]]
  BY <1>7
<1>10. \A S \in D : w[S] = IF Able(d, S) = {} THEN d \ S ELSE w[more(S)]
  BY Zenon, <1>9
<1> QED
  BY <1>8, <1>10 DEF Revives

(* Nothing is revived into a deficit.                                      *)
LEMMA RevivesWithinHeadroom ==
  ASSUME PowerTypeOK, NEW d \in SUBSET standing
  PROVE  /\ Revive(d) \in SUBSET d
         /\ Revive(d) = d \/ Headroom(Revive(d)) >= 0
<1>1. PICK w : Revives(w, d)
  BY ReviveWalks
<1> DEFINE Fine(T) == /\ w[d \ T] \in SUBSET T
                      /\ w[d \ T] = T \/ Headroom(w[d \ T]) >= 0
           Bad == {T \in SUBSET d : ~Fine(T)}
<1>2. ASSUME NEW T \in Bad, \A U \in SUBSET T : U # T => U \notin Bad
      PROVE  FALSE
  <2> DEFINE S == d \ T
  <2>1. T \in SUBSET d /\ S \in SUBSET d /\ d \ S = T
    OBVIOUS
  <2>2. w[S] = IF Able(d, S) = {} THEN d \ S
               ELSE w[S \union {FirstToLight(Able(d, S))}]
    BY <1>1, <2>1 DEF Revives
  <2>3. CASE Able(d, S) = {}
    BY <2>1, <2>2, <2>3
  <2>4. CASE Able(d, S) # {}
    <3> DEFINE b == FirstToLight(Able(d, S))
               U == T \ {b}
    <3>1. Able(d, S) \in SUBSET standing
      BY DEF Able
    <3>2. b \in Able(d, S)
      BY <2>4, <3>1, SomeoneIsNext
    <3>3. b \in d \ S /\ Headroom(d \ (S \union {b})) >= ReviveMargin
      BY <3>2 DEF Able
    <3> HIDE DEF b
    <3>4. /\ U \in SUBSET T /\ U # T /\ U \in SUBSET d
          /\ d \ U = S \union {b} /\ d \ (S \union {b}) = U
      BY <2>1, <3>3
    <3>5. w[S] = w[d \ U]
      BY <2>2, <2>4, <3>4 DEF b
    <3> HIDE DEF U, S
    <3>6. Fine(U)
      BY <1>2, <3>4
    <3>7. Headroom(U) >= 0
      <4>1. Headroom(U) \in Int /\ ReviveMargin \in Nat
        BY HeadroomTyped, PowerAssumption
      <4>2. Headroom(U) >= ReviveMargin
        BY <3>3, <3>4
      <4> QED
        BY <4>1, <4>2
    <3>8. w[S] \in SUBSET U /\ Headroom(w[S]) >= 0
      BY <3>5, <3>6, <3>7
    <3>9. w[d \ T] \in SUBSET T /\ Headroom(w[d \ T]) >= 0
      BY <3>4, <3>8 DEF S
    <3> QED
      BY <3>9
  <2> QED
    BY <2>3, <2>4
<1>3. Bad \in SUBSET SUBSET d /\ IsFiniteSet(d)
  BY GridTyped, FS_Subset
<1>4. Bad = {}
  <2> HIDE DEF Bad
  <2> QED
    BY <1>2, <1>3, SetInduction
<1>5. Fine(d) /\ d \ d = {}
  BY <1>4
<1> QED
  BY <1>1, <1>5 DEF Revives

(* A revival leaves a grid at rest as it is, or with headroom.             *)
LEMMA ReviveRests ==
  ASSUME PowerTypeOK, NEW d \in SUBSET standing, Rests(d)
  PROVE  Rests(Revive(d))
BY RevivesWithinHeadroom DEF Rests

----------------------------------------------------------------------------
(* The swap: what a beacon is lit for is below it.                         *)
LEMMA RelightSwaps ==
  ASSUME PowerTypeOK, NEW d \in SUBSET standing, NEW b \in standing
  PROVE  \/ Relight(b, d) = d
         \/ /\ Headroom(Relight(b, d)) >= 0
            /\ Relight(b, d) \in SUBSET standing
            /\ d \ {b} \subseteq Relight(b, d) /\ b \notin Relight(b, d)
            /\ \A x \in Relight(b, d) \ d : Below(x, b)
<1> DEFINE lower == {x \in Lit(d) : Below(x, b)}
           lit == d \ {b}
           swapped == ShedFrom(lower, lit)
<1>1. Relight(b, d) = d \/ (Relight(b, d) = swapped /\ Headroom(swapped) >= 0)
  BY DEF Relight
<1>2. /\ lower \in SUBSET standing /\ lit \in SUBSET standing
      /\ lower \subseteq Lit(lit)
  BY DEF Lit
<1>3. swapped \in SUBSET standing /\ Shed(swapped, lower, lit)
  <2> HIDE DEF lower, lit
  <2> QED
    BY <1>2, ShedFromSheds
<1> HIDE DEF swapped
<1>4. lit \subseteq swapped /\ swapped \subseteq lit \union lower
  BY <1>3 DEF Shed
<1>5. ~Below(b, b)
  BY GridTyped, BelowOrders
<1>6. b \notin swapped
  BY <1>4, <1>5
<1> QED
  BY <1>1, <1>3, <1>4, <1>6

Swaps(w, d) ==
  /\ w \in [SUBSET d -> SUBSET standing]
  /\ w[{}] = d
  /\ \A S \in SUBSET d :
       S # {} => w[S] = Relight(LastToSwap(S), w[S \ {LastToSwap(S)}])
  /\ SwapIn(d) = w[d]

(* That there is such a walk: SwapIn is defined by recursion.              *)
LEMMA SwapWalks ==
  ASSUME PowerTypeOK, NEW d \in SUBSET standing
  PROVE  \E w : Swaps(w, d)
<1> DEFINE V == SUBSET standing
           last == [S \in SUBSET d |-> LastToSwap(S)]
           op == [p \in d \X V |-> Relight(p[1], p[2])]
           Is(f) == f = [S \in SUBSET d |->
                           IF S = {} THEN d
                           ELSE Relight(LastToSwap(S), f[S \ {LastToSwap(S)}])]
           w == CHOOSE f : Is(f)
<1>1. IsFiniteSet(d)
  BY GridTyped, FS_Subset
<1>2. \A S \in SUBSET d : S # {} => LastToSwap(S) \in S
  BY SomeoneIsNext
<1>3. \A b \in d : \A e \in V : Relight(b, e) \in V
  BY RelightSwaps
<1>4. op \in [d \X V -> V]
  <2>1. \A p \in d \X V : Relight(p[1], p[2]) \in V
    BY <1>3
  <2> QED
    BY <2>1
<1>5. PICK f \in [SUBSET d -> V] : WalksDown(f, d, last, d, op)
  <2>1. \A S \in SUBSET d : S # {} => last[S] \in S
    BY <1>2
  <2> HIDE DEF last, op
  <2> QED
    BY <1>1, <1>4, <2>1, WalkDownExists
<1>6. \A S \in SUBSET d :
        f[S] = IF S = {} THEN d ELSE Relight(LastToSwap(S), f[S \ {LastToSwap(S)}])
  <2>1. \A S \in SUBSET d :
          f[S] = IF S = {} THEN d ELSE op[<<last[S], f[S \ {last[S]}]>>]
    BY Zenon, <1>5 DEF WalksDown
  <2>2. ASSUME NEW S \in SUBSET d, S # {}
        PROVE  op[<<last[S], f[S \ {last[S]}]>>]
                 = Relight(LastToSwap(S), f[S \ {LastToSwap(S)}])
    <3>1. /\ last[S] = LastToSwap(S) /\ LastToSwap(S) \in d
          /\ S \ {LastToSwap(S)} \in SUBSET d
      BY <1>2, <2>2
    <3>2. f[S \ {LastToSwap(S)}] \in V
      BY <1>5, <3>1
    <3> HIDE DEF last, V
    <3>3. <<LastToSwap(S), f[S \ {LastToSwap(S)}]>> \in d \X V
      BY <3>1, <3>2
    <3> QED
      BY <3>1, <3>3
  <2> HIDE DEF last, op
  <2> QED
    BY <2>1, <2>2
<1>7. Is(f)
  <2>1. f = [S \in SUBSET d |-> f[S]]
    BY Zenon, <1>5
  <2> QED
    BY Zenon, <1>6, <2>1
<1>8. Is(w)
  <2> HIDE DEF Is
  <2> QED
    BY <1>7
<1>9. SwapIn(d) = w[d]
  BY Zenon DEF SwapIn, LastToSwap
<1> HIDE DEF w
<1>10. w = [S \in SUBSET d |-> IF S = {} THEN d
                       ELSE Relight(LastToSwap(S), w[S \ {LastToSwap(S)}])]
  BY <1>8
<1> HIDE DEF Is
<1>11. /\ w[{}] = d
       /\ \A S \in SUBSET d :
            S # {} => w[S] = Relight(LastToSwap(S), w[S \ {LastToSwap(S)}])
  BY Zenon, <1>10
<1>12. \A S \in SUBSET d : w[S] \in V
  <2> DEFINE Bad == {S \in SUBSET d : w[S] \notin V}
  <2>1. ASSUME NEW T \in Bad, \A U \in SUBSET T : U # T => U \notin Bad
        PROVE  FALSE
    <3>1. T # {} /\ T \in SUBSET d
      BY <1>11
    <3> DEFINE b == LastToSwap(T)
               U == T \ {b}
    <3>2. b \in d /\ U \in SUBSET T /\ U # T /\ U \in SUBSET d
      BY <1>2, <3>1
    <3>3. w[T] = Relight(b, w[U])
      BY Zenon, <1>11, <3>1
    <3> HIDE DEF b, U, V
    <3>4. w[U] \in V
      BY <2>1, <3>2
    <3>5. w[T] \in V
      BY <1>3, <3>2, <3>3, <3>4
    <3> QED
      BY <2>1, <3>5
  <2>2. Bad \in SUBSET SUBSET d
    OBVIOUS
  <2>3. Bad = {}
    <3> HIDE DEF Bad
    <3> QED
      BY <1>1, <2>1, <2>2, SetInduction
  <2> QED
    BY <2>3
<1>13. w = [S \in SUBSET d |-> w[S]]
  BY Zenon, <1>10
<1>14. Swaps(w, d)
  BY <1>9, <1>11, <1>12, <1>13 DEF Swaps
<1> QED
  BY <1>14

(* What the swaps for the beacons of S have done: whoever went dark did so *)
(* for one above it that is lit instead.                                   *)
Swapped(q, S, d) ==
  /\ d \ S \subseteq q
  /\ \A x \in q \ d : \E c \in d \ q : Below(x, c)
  /\ Rests(d) => Rests(q)

(* The next dark beacon is swapped in, or stays dark.                      *)
LEMMA RelightKeepsSwapped ==
  ASSUME PowerTypeOK, NEW d \in SUBSET standing, NEW q \in SUBSET standing,
         NEW S \in SUBSET d, NEW b \in d \ S, Swapped(q, S, d)
  PROVE  Swapped(Relight(b, q), S \union {b}, d)
<1> DEFINE r == Relight(b, q)
<1>1. /\ d \ S \subseteq q
      /\ \A x \in q \ d : \E c \in d \ q : Below(x, c)
      /\ Rests(d) => Rests(q)
  BY DEF Swapped
<1>2. \/ r = q
      \/ /\ Headroom(r) >= 0 /\ r \in SUBSET standing
         /\ q \ {b} \subseteq r /\ b \notin r /\ \A x \in r \ q : Below(x, b)
  BY RelightSwaps
<1> HIDE DEF r
<1>3. CASE r = q
  <2>1. Swapped(q, S \union {b}, d)
    BY <1>1 DEF Swapped
  <2> QED
    BY <1>3, <2>1 DEF r
<1>4. CASE /\ Headroom(r) >= 0 /\ r \in SUBSET standing
           /\ q \ {b} \subseteq r /\ b \notin r /\ \A x \in r \ q : Below(x, b)
           /\ r # q
  <2>1. d \ (S \union {b}) \subseteq r
    BY <1>1, <1>4
  <2>2. Rests(r)
    BY <1>4 DEF Rests
  <2>3. standing \subseteq Beacons
    BY GridTyped
  <2>4. \A x \in r \ d : \E c \in d \ r : Below(x, c)
    <3> SUFFICES ASSUME NEW x \in r \ d PROVE \E c \in d \ r : Below(x, c)
      OBVIOUS
    <3>1. CASE x \notin q
      BY <1>4, <3>1
    <3>2. CASE x \in q
      <4>1. PICK c \in d \ q : Below(x, c)
        BY <1>1, <3>2
      <4>2. CASE c \in r
        <5>1. Below(c, b)
          BY <1>4, <4>1, <4>2
        <5>2. x \in Beacons /\ c \in Beacons /\ b \in Beacons
          BY <1>4, <2>3
        <5>3. Below(x, b)
          BY <4>1, <5>1, <5>2, BelowOrders
        <5> QED
          BY <1>4, <5>3
      <4> QED
        BY <4>1, <4>2
    <3> QED
      BY <3>1, <3>2
  <2> QED
    BY <2>1, <2>2, <2>4 DEF Swapped, r
<1> QED
  BY <1>2, <1>3, <1>4

(* So it is when all were gone through.                                    *)
LEMMA SwapInSwaps ==
  ASSUME PowerTypeOK, NEW d \in SUBSET standing
  PROVE  SwapIn(d) \in SUBSET standing /\ Swapped(SwapIn(d), d, d)
<1>1. PICK w : Swaps(w, d)
  BY SwapWalks
<1> DEFINE Bad == {S \in SUBSET d : ~Swapped(w[S], S, d)}
<1>2. ASSUME NEW T \in Bad, \A U \in SUBSET T : U # T => U \notin Bad
      PROVE  FALSE
  <2>1. T \in SUBSET d /\ ~Swapped(w[T], T, d)
    OBVIOUS
  <2>2. T # {}
    BY <1>1, <2>1 DEF Swaps, Swapped
  <2> DEFINE b == LastToSwap(T)
             R == T \ {b}
  <2>3. b \in T
    BY <2>1, <2>2, SomeoneIsNext
  <2>4. R \in SUBSET d /\ b \in d \ R /\ R \union {b} = T
    BY <2>1, <2>3
  <2>5. Swapped(w[R], R, d)
    BY <1>2, <2>3, <2>4
  <2>6. w[R] \in SUBSET standing /\ w[T] = Relight(b, w[R])
    BY <1>1, <2>1, <2>2, <2>4 DEF Swaps
  <2> HIDE DEF R, b
  <2>7. Swapped(Relight(b, w[R]), R \union {b}, d)
    BY <2>4, <2>5, <2>6, RelightKeepsSwapped
  <2> QED
    BY <2>1, <2>4, <2>6, <2>7
<1>3. Bad \in SUBSET SUBSET d /\ IsFiniteSet(d)
  BY GridTyped, FS_Subset
<1>4. Bad = {}
  <2> HIDE DEF Bad
  <2> QED
    BY <1>2, <1>3, SetInduction
<1> QED
  BY <1>1, <1>4 DEF Swaps

(* A settle leaves the grid at rest; on a grid at rest only the swap       *)
(* darkens anybody.                                                        *)
LEMMA SettledRests ==
  ASSUME PowerTypeOK
  PROVE  /\ Settled(dormant) \in SUBSET standing /\ Rests(Settled(dormant))
         /\ Rests(dormant) =>
              \A b \in Settled(dormant) \ dormant :
                \E c \in dormant \ Settled(dormant) : Below(b, c)
<1> DEFINE shed == BrownOut(dormant)
           woken == Revive(shed)
<1>1. dormant \in SUBSET standing
  BY DEF PowerTypeOK
<1>2. /\ shed \in SUBSET standing /\ Rests(shed)
      /\ Rests(dormant) => shed = dormant
  BY <1>1, BrownOutRests
<1> HIDE DEF shed
<1>3. woken \in SUBSET shed /\ Rests(woken)
  BY <1>2, RevivesWithinHeadroom, ReviveRests
<1>4. Settled(dormant) = SwapIn(woken)
  BY DEF Settled, shed
<1> HIDE DEF woken
<1>5. woken \in SUBSET standing
  BY <1>2, <1>3
<1>6. SwapIn(woken) \in SUBSET standing /\ Swapped(SwapIn(woken), woken, woken)
  BY <1>5, SwapInSwaps
<1>7. /\ \A x \in SwapIn(woken) \ woken :
           \E c \in woken \ SwapIn(woken) : Below(x, c)
      /\ Rests(SwapIn(woken))
  BY <1>3, <1>6 DEF Swapped
<1>8. ASSUME Rests(dormant), NEW b \in Settled(dormant) \ dormant
      PROVE  \E c \in dormant \ Settled(dormant) : Below(b, c)
  <2>1. woken \subseteq dormant /\ b \in SwapIn(woken) \ woken
    BY <1>2, <1>3, <1>4, <1>8
  <2>2. PICK c \in woken \ SwapIn(woken) : Below(b, c)
    BY <1>7, <2>1
  <2> QED
    BY <1>4, <2>1, <2>2
<1> QED
  BY <1>4, <1>6, <1>7, <1>8

----------------------------------------------------------------------------
(* Every step keeps the types of the grid.                                 *)
LEMMA StepTyped ==
  ASSUME PowerTypeOK, [PowerNext]_powerVars
  PROVE  PowerTypeOK'
<1>1. CASE SettleGrid
  BY <1>1, SettledRests DEF SettleGrid, grid, PowerTypeOK
<1>2. ASSUME NEW b \in Beacons, FieldUnit(b) PROVE PowerTypeOK'
  <2>1. load[b] + PerUnit \in 0..MaxLoad
    BY <1>2, GridTyped, PowerAssumption DEF FieldUnit
  <2>2. load' \in [Beacons -> 0..MaxLoad]
    BY <1>2, <2>1 DEF FieldUnit, PowerTypeOK
  <2> QED
    BY <1>2, <2>2 DEF FieldUnit, PowerTypeOK
<1>3. ASSUME NEW b \in Beacons, Refit(b) PROVE PowerTypeOK'
  BY <1>3 DEF Refit, PowerTypeOK
<1>4. ASSUME NEW b \in Beacons, Place(b) PROVE PowerTypeOK'
  BY <1>4 DEF Place, PowerTypeOK
<1>5. ASSUME NEW b \in Beacons, LoseBeacon(b) PROVE PowerTypeOK'
  <2>1. /\ load' = [load EXCEPT ![b] = 0] /\ taps' = [v \in Vents |-> taps[v] \ {b}]
        /\ standing' = standing \ {b} /\ 0 \in 0..MaxLoad
    BY <1>5, PowerAssumption DEF LoseBeacon
  <2>2. taps' \in [Vents -> SUBSET standing']
    BY <2>1 DEF PowerTypeOK
  <2>3. load' \in [Beacons -> 0..MaxLoad]
    BY <2>1 DEF PowerTypeOK
  <2> QED
    BY <1>5, <2>2, <2>3 DEF LoseBeacon, PowerTypeOK
<1>6. ASSUME NEW b \in Beacons, NEW p \in Priorities, Commit(b, p) PROVE PowerTypeOK'
  BY <1>6 DEF Commit, PowerTypeOK
<1>7. CASE UNCHANGED powerVars
  BY <1>7 DEF powerVars, grid, PowerTypeOK
<1> QED
  BY <1>1, <1>2, <1>3, <1>4, <1>5, <1>6, <1>7 DEF PowerNext

(* The variables keep their types: who is dark stands.                     *)
THEOREM GridsAreTyped == PowerSpec => []PowerTypeOK
<1>1. PowerInit => PowerTypeOK
  <2> SUFFICES ASSUME PowerInit PROVE PowerTypeOK
    OBVIOUS
  <2>1. /\ Core \in Beacons /\ Normal \in Priorities /\ 0 \in 0..MaxLoad
    BY CoreIsFirst, PowerAssumption
  <2>2. /\ priority \in [Beacons -> Priorities] /\ load \in [Beacons -> 0..MaxLoad]
        /\ taps \in [Vents -> SUBSET standing]
    BY <2>1 DEF PowerInit
  <2> QED
    BY <2>1, <2>2 DEF PowerInit, PowerTypeOK
<1> QED
  BY <1>1, StepTyped, PTL DEF PowerSpec

(* A unit that the headroom pays for leaves no deficit.                    *)
LEMMA UnitsFitTheHeadroom ==
  ASSUME PowerTypeOK, NEW b \in Beacons, FieldUnit(b)
  PROVE  Headroom(dormant)' >= 0
<1> DEFINE lit == Lit(dormant)
<1>1. /\ b \in lit /\ PerUnit <= Headroom(dormant) /\ PerUnit \in Nat
      /\ load' = [load EXCEPT ![b] = @ + PerUnit]
      /\ UNCHANGED <<standing, fallen, priority, taps, dormant, calm>>
  BY PowerAssumption DEF FieldUnit
<1>2. Lit(dormant)' = lit
  BY <1>1 DEF Lit
<1>3. Supply(dormant)' = Supply(dormant)
  BY Zenon, <1>1, <1>2 DEF Supply
<1>4. Draw(dormant) = Total(load, lit) /\ Draw(dormant)' = Total(load', lit)
  BY <1>2, SumIsTotal DEF Draw
<1>5. Summable(load, lit) /\ Supply(dormant) \in Int /\ Draw(dormant) \in Int
  BY HeadroomTyped
<1>6. load[b] \in Nat /\ load'[b] = load[b] + PerUnit
  BY <1>1, GridTyped DEF PowerTypeOK
<1>7. \A x \in lit \ {b} : load'[x] = load[x]
  BY <1>1, GridTyped DEF PowerTypeOK
<1> HIDE DEF lit
<1>8. Summable(load', lit) /\ Summable(load, lit \ {b})
  <2>1. \A x \in lit : load'[x] \in Int
    BY <1>1, <1>5, <1>6, <1>7 DEF Summable
  <2> QED
    BY <1>5, <2>1, FS_Subset DEF Summable
<1>9. Total(load', lit \ {b}) = Total(load, lit \ {b})
  BY <1>7, <1>8, TotalAgrees
<1>10. /\ Total(load', lit) \in Int /\ Total(load', lit) = load'[b] + Total(load', lit \ {b})
       /\ Total(load, lit) \in Int /\ Total(load, lit) = load[b] + Total(load, lit \ {b})
  <2>1. b \in lit
    BY <1>1
  <2>2. /\ Total(load, lit) \in Int
        /\ Total(load, lit) = load[b] + Total(load, lit \ {b})
    BY <1>5, <2>1, TotalWithout
  <2>3. /\ Total(load', lit) \in Int
        /\ Total(load', lit) = load'[b] + Total(load', lit \ {b})
    <3> DEFINE after == load'
    <3>1. Summable(after, lit)
      BY <1>8
    <3> HIDE DEF after
    <3>2. /\ Total(after, lit) \in Int
          /\ Total(after, lit) = after[b] + Total(after, lit \ {b})
      BY <2>1, <3>1, TotalWithout
    <3> QED
      BY <3>2 DEF after
  <2> QED
    BY <2>2, <2>3
<1>11. Total(load, lit \ {b}) \in Int
  BY <1>5, <1>1, TotalSplits
<1>12. Draw(dormant)' \in Int /\ Draw(dormant)' = Draw(dormant) + PerUnit
  BY <1>1, <1>4, <1>6, <1>9, <1>10, <1>11
<1> QED
  BY <1>1, <1>3, <1>5, <1>12 DEF Headroom

(* Every step keeps a grid that only unit orders have touched at rest.     *)
LEMMA StepCalm ==
  ASSUME PowerTypeOK, CalmRests, [PowerNext]_powerVars
  PROVE  CalmRests'
<1>1. CASE SettleGrid
  <2>1. UNCHANGED grid /\ dormant' = Settled(dormant)
    BY <1>1 DEF SettleGrid
  <2>2. Rests(dormant)' <=> Rests(dormant')
    BY Zenon, <2>1 DEF grid, Rests, Relieves, Headroom, Supply, Draw, Lit
  <2> QED
    BY <2>1, <2>2, SettledRests DEF CalmRests
<1>2. ASSUME NEW b \in Beacons, FieldUnit(b) PROVE CalmRests'
  BY <1>2, UnitsFitTheHeadroom DEF CalmRests, Rests
<1>3. ASSUME NEW b \in Beacons,
             \/ Refit(b) \/ Place(b) \/ LoseBeacon(b)
             \/ \E p \in Priorities : Commit(b, p)
      PROVE  CalmRests'
  BY <1>3 DEF Refit, Place, LoseBeacon, Commit, CalmRests
<1>4. CASE UNCHANGED powerVars
  BY <1>4 DEF powerVars, grid, CalmRests, Rests, Relieves, Headroom, Supply, Draw, Lit
<1> QED
  BY <1>1, <1>2, <1>3, <1>4 DEF PowerNext

(* The walk down the list once is enough, for any grid: a deficit that a   *)
(* settle leaves is one that no beacon's shedding would relieve.           *)
THEOREM OneWalkIsEnough == PowerSpec => DeficitIsHelpless
<1>1. PowerTypeOK /\ [PowerNext]_powerVars =>
        [SettleGrid => \/ Headroom(dormant') >= 0
                       \/ \A b \in Lit(dormant') : ~Relieves(b, dormant')]_powerVars
  BY SettledRests DEF SettleGrid, Rests
<1> QED
  BY <1>1, GridsAreTyped, PTL DEF PowerSpec, DeficitIsHelpless

(* The lights come to rest: on a grid that only unit orders have touched   *)
(* no settle darkens a beacon but for one above it.                        *)
THEOREM LightsComeToRest == PowerSpec => ShedForOneAbove
<1>1. PowerInit => CalmRests
  BY DEF PowerInit, CalmRests
<1>2. PowerSpec => []CalmRests
  BY <1>1, StepCalm, GridsAreTyped, PTL DEF PowerSpec
<1>3. PowerTypeOK /\ CalmRests /\ [PowerNext]_powerVars =>
        [SettleGrid /\ calm =>
           \A b \in dormant' \ dormant :
             \E c \in dormant \ dormant' : Below(b, c)]_powerVars
  BY SettledRests DEF SettleGrid, CalmRests
<1> QED
  BY <1>2, <1>3, GridsAreTyped, PTL DEF PowerSpec, ShedForOneAbove

----------------------------------------------------------------------------
(* Spending.                                                               *)

(* What is spent, and what is asked for.                                   *)
Accounts ==
  /\ treasury \in Nat /\ headroom \in Nat /\ seatCursor \in Nat
  /\ asks \in [Payees -> Requests \union {Nothing}]

(* Who was paid instead of a beacon whose turn has not gone by is behind   *)
(* it until it is paid.                                                    *)
TurnsStand ==
  /\ overtook \in [Payees -> SUBSET Payees]
  /\ \A b \in Wanting \ lostTurn : \A a \in overtook[b] : ByTurn(b, a)

Last(S) == CHOOSE x \in S : \A y \in S \ {x} : Before(y, x)

Funds == [money : Nat, kw : Nat, cursor : Nat, paid : SUBSET Wanting]

Begin == [money |-> treasury, kw |-> headroom, cursor |-> seatCursor, paid |-> {}]

(* What is left once those of S were looked at, for every S.               *)
Spends(w, full) ==
  /\ w \in [SUBSET Wanting -> Funds]
  /\ w[{}] = Begin
  /\ \A S \in SUBSET Wanting :
       S # {} => w[S] = Fill(w[S \ {Last(S)}], Last(S), full)
  /\ Filled(full) = w[Wanting]

----------------------------------------------------------------------------
(* What a beacon that wants something wants.                               *)
LEMMA WantsAreRequests ==
  ASSUME Accounts
  PROVE  /\ Wanting \in SUBSET Payees /\ IsFiniteSet(Wanting)
         /\ Wanting \subseteq Nat \ {0}
         /\ \A b \in Wanting :
              /\ asks[b] \in Requests /\ asks[b].band \in 1..5
              /\ asks[b].cost \in Nat /\ asks[b].draw \in Nat
              /\ asks[b].unit \in BOOLEAN
<1>1. Wanting \in SUBSET Payees
  BY DEF Wanting
<1>2. IsFiniteSet(Wanting) /\ Wanting \subseteq Nat \ {0}
  BY <1>1, FS_Subset, QuartermasterAssumption
<1>3. \A b \in Wanting : asks[b] \in Requests
  BY <1>1 DEF Wanting, Accounts
<1>4. \A r \in Requests : /\ r.band \in 1..5 /\ r.cost \in Nat /\ r.draw \in Nat
                          /\ r.unit \in BOOLEAN
  BY QuartermasterAssumption
<1> QED
  BY <1>1, <1>2, <1>3, <1>4

(* The ladder and the turns put any two requests in an order.              *)
LEMMA BeforeOrders ==
  ASSUME Accounts
  PROVE  /\ \A x, y \in Wanting : x # y => Before(x, y) \/ Before(y, x)
         /\ \A x, y, z \in Wanting : Before(x, y) /\ Before(y, z) => Before(x, z)
         /\ \A x \in Wanting : ~Before(x, x)
         /\ \A x, y \in Wanting : Before(x, y) => ~Before(y, x)
<1>1. \A x \in Wanting : x \in Nat /\ asks[x].band \in Int
  BY WantsAreRequests
<1>2. seatCursor \in Nat
  BY DEF Accounts
<1> QED
  BY <1>1, <1>2 DEF Before, ByTurn, Wrapped

(* The last of some requests is one of them, and the others come before.   *)
LEMMA LastIsLast ==
  ASSUME Accounts, NEW S \in SUBSET Wanting, S # {}
  PROVE  Last(S) \in S /\ \A y \in S \ {Last(S)} : Before(y, Last(S))
<1> DEFINE R == {p \in S \X S : Before(p[1], p[2])}
<1>1. IsFiniteSet(S)
  BY WantsAreRequests, FS_Subset
<1>2. \A x, y \in S : <<x, y>> \in R <=> Before(x, y)
  OBVIOUS
<1> HIDE DEF R
<1>3. TotallyOrders(R, S)
  <2>1. \A x \in S : x \in Wanting
    OBVIOUS
  <2> QED
    BY <1>2, <2>1, BeforeOrders DEF TotallyOrders
<1>4. \E x \in S : \A y \in S \ {x} : <<y, x>> \in R
  BY <1>1, <1>3, LastExists
<1>5. \E x \in S : \A y \in S \ {x} : Before(y, x)
  BY <1>2, <1>4
<1> QED
  BY <1>5 DEF Last

(* A request that is looked at leaves funds, and no debt.                  *)
LEMMA FillTyped ==
  ASSUME Accounts, NEW q \in Funds, NEW b \in Wanting, NEW full
  PROVE  Fill(q, b, full) \in Funds
<1>1. /\ asks[b].cost \in Nat /\ asks[b].draw \in Nat /\ asks[b].unit \in BOOLEAN
      /\ b \in Nat
  BY WantsAreRequests
<1>2. q.money \in Nat /\ q.kw \in Nat /\ q.paid \in SUBSET Wanting
  BY DEF Funds
<1>3. CASE b \notin full /\ Approves(asks[b], q.money, q.kw)
  <2>1. q.money - asks[b].cost \in Nat /\ q.kw - asks[b].draw \in Nat
    BY <1>1, <1>2, <1>3 DEF Approves
  <2>2. q.kw - (IF asks[b].unit THEN asks[b].draw ELSE 0) \in Nat
    BY <1>1, <1>2, <2>1
  <2> QED
    BY <1>1, <1>2, <1>3, <2>1, <2>2 DEF Fill, Paid, Funds
<1>4. CASE ~(b \notin full /\ Approves(asks[b], q.money, q.kw))
  BY <1>4 DEF Fill
<1> QED
  BY <1>3, <1>4

(* That there is such a walk: Filled is defined by recursion.              *)
LEMMA FilledWalks ==
  ASSUME Accounts, NEW full
  PROVE  \E w : Spends(w, full)
<1> DEFINE last == [S \in SUBSET Wanting |-> Last(S)]
           op == [p \in Wanting \X Funds |-> Fill(p[2], p[1], full)]
           Is(f) == f = [S \in SUBSET Wanting |->
                           IF S = {} THEN Begin
                           ELSE Fill(f[S \ {Last(S)}], Last(S), full)]
           w == CHOOSE f : Is(f)
<1>1. Begin \in Funds
  BY DEF Begin, Funds, Accounts
<1>2. \A S \in SUBSET Wanting : S # {} => Last(S) \in S
  BY LastIsLast
<1>3. op \in [Wanting \X Funds -> Funds]
  <2>1. \A p \in Wanting \X Funds : Fill(p[2], p[1], full) \in Funds
    BY FillTyped
  <2> QED
    BY <2>1
<1>4. PICK f \in [SUBSET Wanting -> Funds] : WalksDown(f, Wanting, last, Begin, op)
  <2>1. IsFiniteSet(Wanting)
    BY WantsAreRequests
  <2>2. \A S \in SUBSET Wanting : S # {} => last[S] \in S
    BY <1>2
  <2> HIDE DEF last, op
  <2> QED
    BY <1>1, <1>3, <2>1, <2>2, WalkDownExists
<1>5. \A S \in SUBSET Wanting :
        f[S] = IF S = {} THEN Begin ELSE Fill(f[S \ {Last(S)}], Last(S), full)
  <2>1. \A S \in SUBSET Wanting :
          f[S] = IF S = {} THEN Begin ELSE op[<<last[S], f[S \ {last[S]}]>>]
    BY Zenon, <1>4 DEF WalksDown
  <2>2. ASSUME NEW S \in SUBSET Wanting, S # {}
        PROVE  op[<<last[S], f[S \ {last[S]}]>>] = Fill(f[S \ {Last(S)}], Last(S), full)
    <3>1. last[S] = Last(S) /\ Last(S) \in Wanting /\ S \ {Last(S)} \in SUBSET Wanting
      BY <1>2, <2>2
    <3>2. f[S \ {Last(S)}] \in Funds
      BY <1>4, <3>1
    <3> HIDE DEF last
    <3>3. <<Last(S), f[S \ {Last(S)}]>> \in Wanting \X Funds
      BY <3>1, <3>2
    <3> QED
      BY <3>1, <3>3
  <2> HIDE DEF last, op
  <2> QED
    BY <2>1, <2>2
<1>6. Is(f)
  <2>1. f = [S \in SUBSET Wanting |-> f[S]]
    BY Zenon, <1>4
  <2> QED
    BY Zenon, <1>5, <2>1
<1>7. Is(w)
  <2> HIDE DEF Is
  <2> QED
    BY <1>6
<1>8. Filled(full) = w[Wanting]
  BY Zenon DEF Filled, Begin, Last
<1> HIDE DEF w
<1>9. /\ w[{}] = Begin
      /\ \A S \in SUBSET Wanting :
           S # {} => w[S] = Fill(w[S \ {Last(S)}], Last(S), full)
  <2>1. w = [S \in SUBSET Wanting |-> IF S = {} THEN Begin
                              ELSE Fill(w[S \ {Last(S)}], Last(S), full)]
    BY <1>7
  <2> HIDE DEF Is
  <2> QED
    BY Zenon, <2>1
<1>10. \A S \in SUBSET Wanting : w[S] \in Funds
  <2> DEFINE Bad == {S \in SUBSET Wanting : w[S] \notin Funds}
  <2>1. ASSUME NEW T \in Bad, \A U \in SUBSET T : U # T => U \notin Bad
        PROVE  FALSE
    <3>1. T # {} /\ T \in SUBSET Wanting
      BY <1>1, <1>9
    <3>2. Last(T) \in T
      BY <1>2, <3>1
    <3>3. w[T \ {Last(T)}] \in Funds
      BY <2>1, <3>1, <3>2
    <3>4. Fill(w[T \ {Last(T)}], Last(T), full) \in Funds
      BY <3>1, <3>2, <3>3, FillTyped
    <3>5. w[T] \in Funds
      BY Zenon, <1>9, <3>1, <3>4
    <3> QED
      BY <2>1, <3>5
  <2>2. Bad \in SUBSET SUBSET Wanting /\ IsFiniteSet(Wanting)
    BY WantsAreRequests
  <2>3. Bad = {}
    <3> HIDE DEF Bad
    <3> QED
      BY <2>1, <2>2, SetInduction
  <2> QED
    BY <2>3
<1>11. w = [S \in SUBSET Wanting |-> w[S]]
  <2>1. Is(w)
    BY <1>7
  <2> QED
    BY Zenon, <2>1
<1>12. Spends(w, full)
  <2> HIDE DEF Is
  <2> QED
    BY <1>8, <1>9, <1>10, <1>11 DEF Spends
<1> QED
  BY <1>12

----------------------------------------------------------------------------
(* What is spent on requests, and what they draw, request by request.      *)
LEMMA SumsAdd ==
  ASSUME Accounts, NEW S \in SUBSET Wanting
  PROVE  /\ Spent({}) = 0 /\ Drawn({}) = 0
         /\ Spent(S) \in Nat /\ Drawn(S) \in Nat
         /\ \A A \in SUBSET S : Spent(A) <= Spent(S) /\ Drawn(A) <= Drawn(S)
         /\ \A b \in Wanting \ S :
              /\ Spent(S \union {b}) = Spent(S) + asks[b].cost
              /\ Drawn(S \union {b}) =
                   Drawn(S) + (IF asks[b].unit THEN asks[b].draw ELSE 0)
<1>1. \A T : Spent(T) = Total(Costs, T) /\ Drawn(T) = Total(Takes, T)
  BY DEF Spent, Drawn, Total
<1>2. \A b \in Wanting :
        /\ Costs[b] = asks[b].cost /\ Costs[b] \in Nat
        /\ Takes[b] = (IF asks[b].unit THEN asks[b].draw ELSE 0) /\ Takes[b] \in Nat
  BY WantsAreRequests DEF Costs, Takes
<1>3. IsFiniteSet(S) /\ IsFiniteSet(Wanting)
  BY WantsAreRequests, FS_Subset
<1>4. \A A \in SUBSET S : /\ Total(Costs, S) \in Nat /\ Total(Costs, A) <= Total(Costs, S)
                          /\ Total(Takes, S) \in Nat /\ Total(Takes, A) <= Total(Takes, S)
  <2> SUFFICES ASSUME NEW A \in SUBSET S
               PROVE  /\ Total(Costs, S) \in Nat /\ Total(Costs, A) <= Total(Costs, S)
                      /\ Total(Takes, S) \in Nat /\ Total(Takes, A) <= Total(Takes, S)
    OBVIOUS
  <2>1. \A b \in S : Costs[b] \in Nat /\ Takes[b] \in Nat
    BY <1>2
  <2> QED
    BY <1>3, <2>1, TotalGrows
<1>5. ASSUME NEW b \in Wanting \ S
      PROVE  /\ Total(Costs, S \union {b}) = Total(Costs, S) + Costs[b]
             /\ Total(Takes, S \union {b}) = Total(Takes, S) + Takes[b]
  <2> DEFINE T == S \union {b}
  <2>1. T \in SUBSET Wanting /\ IsFiniteSet(T) /\ T \ {b} = S /\ b \in T
    BY <1>3, FS_Subset
  <2> HIDE DEF T
  <2>2. Summable(Costs, T) /\ Summable(Takes, T)
    BY <1>2, <2>1 DEF Summable
  <2>3. /\ Total(Costs, T) = Costs[b] + Total(Costs, T \ {b})
        /\ Total(Takes, T) = Takes[b] + Total(Takes, T \ {b})
    BY <2>1, <2>2, TotalWithout
  <2>4. Total(Costs, S) \in Nat /\ Total(Takes, S) \in Nat
    BY <1>4
  <2>5. /\ Total(Costs, T) = Total(Costs, S) + Costs[b]
        /\ Total(Takes, T) = Total(Takes, S) + Takes[b]
    <3>1. /\ Total(Costs, T) = Costs[b] + Total(Costs, S)
          /\ Total(Takes, T) = Takes[b] + Total(Takes, S)
      BY Zenon, <2>1, <2>3
    <3>2. Costs[b] \in Nat /\ Takes[b] \in Nat
      BY <1>2
    <3> QED
      BY <2>4, <3>1, <3>2
  <2> QED
    BY <2>5 DEF T
<1>6. Total(Costs, {}) = 0 /\ Total(Takes, {}) = 0
  BY TotalOfNone
<1> QED
  BY <1>1, <1>2, <1>4, <1>5, <1>6

(* What was left of what came before b.                                    *)
Refuses(b, paid) ==
  LET gone == {a \in paid : Before(a, b)}
  IN  ~Approves(asks[b], treasury - Spent(gone), headroom - Drawn(gone))

(* What the walk down S has done: who was paid, last of all the one the    *)
(* cursor names, is charged, and who was not could not be paid of what     *)
(* those before it left.                                                   *)
Filed(q, S, full) ==
  /\ q.paid \in SUBSET (S \ full)
  /\ q.money = treasury - Spent(q.paid) /\ q.kw = headroom - Drawn(q.paid)
  /\ q.paid = {} => q.cursor = seatCursor
  /\ q.paid # {} => /\ q.cursor \in q.paid
                    /\ \A a \in q.paid \ {q.cursor} : Before(a, q.cursor)
  /\ \A b \in S \ (q.paid \union full) : Refuses(b, q.paid)

(* It has done nothing before it begins.                                   *)
LEMMA BeginFiled ==
  ASSUME Accounts, NEW full
  PROVE  Filed(Begin, {}, full)
<1>1. Spent({}) = 0 /\ Drawn({}) = 0
  BY SumsAdd
<1> QED
  BY <1>1 DEF Filed, Begin, Accounts

(* And goes on as it began, with the next of the order.                    *)
LEMMA FillFiled ==
  ASSUME Accounts, NEW full, NEW S \in SUBSET Wanting, NEW b \in Wanting \ S,
         \A y \in S : Before(y, b), NEW q \in Funds, Filed(q, S, full)
  PROVE  Filed(Fill(q, b, full), S \union {b}, full)
<1> DEFINE r == Fill(q, b, full)
<1>1. /\ q.paid \in SUBSET (S \ full) /\ q.paid \in SUBSET Wanting
      /\ q.money = treasury - Spent(q.paid) /\ q.kw = headroom - Drawn(q.paid)
      /\ q.paid = {} => q.cursor = seatCursor
      /\ q.paid # {} => /\ q.cursor \in q.paid
                        /\ \A a \in q.paid \ {q.cursor} : Before(a, q.cursor)
      /\ \A c \in S \ (q.paid \union full) : Refuses(c, q.paid)
  BY DEF Filed
<1>2. b \notin q.paid /\ \A a \in q.paid : Before(a, b)
  BY <1>1
<1>3. {a \in q.paid : Before(a, b)} = q.paid
  BY <1>2
<1>4. CASE ~(b \notin full /\ Approves(asks[b], q.money, q.kw))
  <2>1. r = q
    BY <1>4 DEF Fill
  <2>2. b \notin full => Refuses(b, q.paid)
    BY <1>1, <1>3, <1>4 DEF Refuses
  <2>3. q.paid \in SUBSET ((S \union {b}) \ full)
    BY <1>1
  <2>4. \A c \in (S \union {b}) \ (q.paid \union full) : Refuses(c, q.paid)
    BY <1>1, <2>2
  <2> QED
    BY <1>1, <2>1, <2>3, <2>4 DEF Filed
<1>5. CASE b \notin full /\ Approves(asks[b], q.money, q.kw)
  <2>1. /\ r.money = q.money - asks[b].cost
        /\ r.kw = q.kw - (IF asks[b].unit THEN asks[b].draw ELSE 0)
        /\ r.cursor = b /\ r.paid = q.paid \union {b}
    BY <1>5 DEF Fill, Paid
  <2> HIDE DEF r
  <2>2. r.money = treasury - Spent(r.paid) /\ r.kw = headroom - Drawn(r.paid)
    <3>1. /\ Spent(q.paid \union {b}) = Spent(q.paid) + asks[b].cost
          /\ Drawn(q.paid \union {b}) =
               Drawn(q.paid) + (IF asks[b].unit THEN asks[b].draw ELSE 0)
          /\ Spent(q.paid) \in Nat /\ Drawn(q.paid) \in Nat
      BY <1>1, <1>2, SumsAdd
    <3>2. asks[b].cost \in Nat /\ (IF asks[b].unit THEN asks[b].draw ELSE 0) \in Nat
      BY WantsAreRequests
    <3>3. treasury \in Nat /\ headroom \in Nat
      BY DEF Accounts
    <3> HIDE DEF Accounts
    <3> QED
      BY <1>1, <2>1, <3>1, <3>2, <3>3
  <2>3. r.paid \in SUBSET ((S \union {b}) \ full)
    BY <1>1, <1>5, <2>1
  <2>4. /\ r.paid # {} /\ r.cursor \in r.paid
        /\ \A a \in r.paid \ {r.cursor} : Before(a, r.cursor)
    BY <1>2, <2>1
  <2>5. ASSUME NEW c \in (S \union {b}) \ (r.paid \union full)
        PROVE  Refuses(c, r.paid)
    <3>1. c \in S \ (q.paid \union full) /\ Before(c, b) /\ c \in Wanting
      BY <2>1
    <3>2. ~Before(b, c)
      BY <3>1, BeforeOrders
    <3>3. {a \in r.paid : Before(a, c)} = {a \in q.paid : Before(a, c)}
      BY <2>1, <3>2
    <3>4. Refuses(c, q.paid)
      BY <1>1, <3>1
    <3> QED
      BY <3>3, <3>4 DEF Refuses
  <2> QED
    BY <2>2, <2>3, <2>4, <2>5 DEF Filed, r
<1> QED
  BY <1>4, <1>5

(* So it is when it is through.                                            *)
LEMMA FilledIsFiled ==
  ASSUME Accounts, NEW full
  PROVE  Filled(full) \in Funds /\ Filed(Filled(full), Wanting, full)
<1>1. PICK w : Spends(w, full)
  BY FilledWalks
<1> DEFINE Bad == {S \in SUBSET Wanting : ~Filed(w[S], S, full)}
<1>2. ASSUME NEW T \in Bad, \A U \in SUBSET T : U # T => U \notin Bad
      PROVE  FALSE
  <2>1. T \in SUBSET Wanting /\ ~Filed(w[T], T, full)
    OBVIOUS
  <2>2. T # {}
    BY <1>1, <2>1, BeginFiled DEF Spends
  <2>3. Last(T) \in T /\ \A y \in T \ {Last(T)} : Before(y, Last(T))
    BY <2>1, <2>2, LastIsLast
  <2> DEFINE b == Last(T)
             R == T \ {b}
  <2>4. R \in SUBSET Wanting /\ b \in Wanting \ R /\ R \union {b} = T
    BY <2>1, <2>3
  <2>5. Filed(w[R], R, full)
    BY <1>2, <2>3, <2>4
  <2>6. w[R] \in Funds /\ w[T] = Fill(w[R], b, full)
    BY <1>1, <2>1, <2>2, <2>4 DEF Spends
  <2>7. \A y \in R : Before(y, b)
    BY <2>3
  <2> HIDE DEF R, b
  <2>8. Filed(Fill(w[R], b, full), R \union {b}, full)
    BY <2>4, <2>5, <2>6, <2>7, FillFiled
  <2> QED
    BY <2>1, <2>4, <2>6, <2>8
<1>3. Bad \in SUBSET SUBSET Wanting /\ IsFiniteSet(Wanting)
  BY WantsAreRequests
<1>4. Bad = {}
  <2> HIDE DEF Bad
  <2> QED
    BY <1>2, <1>3, SetInduction
<1> QED
  BY <1>1, <1>4 DEF Spends

----------------------------------------------------------------------------
(* Whatever is paid, earned and asked leaves no debt.                      *)
LEMMA StepAccounts ==
  ASSUME Accounts, [SpendNext]_spendVars
  PROVE  Accounts'
<1>1. ASSUME NEW full \in SUBSET Wanting, FillRequests(full) PROVE Accounts'
  <2>1. Filled(full) \in Funds
    BY FilledIsFiled
  <2>2. /\ treasury' = Filled(full).money /\ headroom' = Filled(full).kw
        /\ seatCursor' = Filled(full).cursor
        /\ asks' = [b \in Payees |-> IF b \in Filled(full).paid THEN Nothing ELSE asks[b]]
    BY <1>1 DEF FillRequests
  <2>3. treasury' \in Nat /\ headroom' \in Nat /\ seatCursor' \in Nat
    BY <2>1, <2>2 DEF Funds
  <2> QED
    BY <2>2, <2>3 DEF Accounts
<1>2. ASSUME NEW b \in Payees, Ask(b) PROVE Accounts'
  BY <1>2 DEF Ask, Accounts
<1>3. CASE Earn
  BY <1>3 DEF Earn, Accounts
<1>4. CASE GridSettles
  BY <1>4, QuartermasterAssumption DEF GridSettles, Accounts
<1>5. CASE UNCHANGED spendVars
  BY <1>5 DEF spendVars, Accounts
<1> QED
  BY <1>1, <1>2, <1>3, <1>4, <1>5 DEF SpendNext

(* The accounts never run a debt.                                          *)
LEMMA AccountsHold == SpendSpec => []Accounts
<1>1. SpendInit => Accounts
  BY QuartermasterAssumption DEF SpendInit, Accounts
<1> QED
  BY <1>1, StepAccounts, PTL DEF SpendSpec

(* Every step keeps the types.                                             *)
LEMMA StepSpendTyped ==
  ASSUME SpendTypeOK, Accounts, [SpendNext]_spendVars
  PROVE  SpendTypeOK'
<1>1. ASSUME NEW full \in SUBSET Wanting, FillRequests(full) PROVE SpendTypeOK'
  <2> DEFINE q == Filled(full)
             waits == Wanting \ q.paid
  <2>1. /\ q \in Funds /\ q.paid \in SUBSET Wanting
        /\ q.money = treasury - Spent(q.paid) /\ q.kw = headroom - Drawn(q.paid)
        /\ q.paid = {} => q.cursor = seatCursor
        /\ q.paid # {} => q.cursor \in q.paid
    BY FilledIsFiled DEF Filed
  <2>2. /\ treasury' = q.money /\ headroom' = q.kw /\ seatCursor' = q.cursor
        /\ asks' = [b \in Payees |-> IF b \in q.paid THEN Nothing ELSE asks[b]]
        /\ overtook' = [b \in Payees |->
             IF b \notin waits THEN {}
             ELSE overtook[b] \union {a \in q.paid : Overtakes(a, b, q.paid, full)}]
        /\ lostTurn' = {b \in waits :
             \/ b \in lostTurn
             \/ \E a \in q.paid : ~Overtakes(a, b, q.paid, full)}
    BY <1>1 DEF FillRequests
  <2> HIDE DEF q
  <2>3. q.money \in Nat /\ q.kw \in Nat
    BY <2>1 DEF Funds
  <2>4. Spent(q.paid) \in Nat /\ Drawn(q.paid) \in Nat
    BY <2>1, SumsAdd
  <2>5. treasury' \in 0..MaxTreasury /\ headroom' \in 0..MaxHeadroom
    <3>1. treasury \in 0..MaxTreasury /\ headroom \in 0..MaxHeadroom
      BY DEF SpendTypeOK
    <3> QED
      BY <2>1, <2>2, <2>3, <2>4, <3>1, QuartermasterAssumption
  <2>6. Wanting \in SUBSET Payees
    BY DEF Wanting
  <2>7. seatCursor' \in Payees \union {0}
    BY <2>1, <2>2, <2>6 DEF SpendTypeOK
  <2>8. asks' \in [Payees -> Requests \union {Nothing}]
    BY <2>2 DEF SpendTypeOK
  <2>9. overtook' \in [Payees -> SUBSET Payees]
    BY <2>1, <2>2, <2>6 DEF SpendTypeOK
  <2>10. lostTurn' \subseteq Wanting'
    <3>1. \A b \in waits : b \in Payees /\ asks'[b] = asks[b] /\ asks[b] # Nothing
      BY <2>2 DEF Wanting
    <3> QED
      BY <2>2, <3>1 DEF Wanting
  <2> QED
    BY <2>5, <2>7, <2>8, <2>9, <2>10 DEF SpendTypeOK
<1>2. ASSUME NEW b \in Payees, Ask(b) PROVE SpendTypeOK'
  <2>1. /\ \E r \in Requests \union {Nothing} : asks' = [asks EXCEPT ![b] = r]
        /\ overtook' = [overtook EXCEPT ![b] = {}] /\ lostTurn' = lostTurn \ {b}
        /\ UNCHANGED <<treasury, headroom, seatCursor>>
    BY <1>2 DEF Ask
  <2>2. \A c \in Wanting \ {b} : c \in Payees /\ asks'[c] = asks[c] /\ asks[c] # Nothing
    BY <2>1 DEF Wanting, SpendTypeOK
  <2>3. lostTurn' \subseteq Wanting'
    BY <2>1, <2>2 DEF Wanting, SpendTypeOK
  <2>4. /\ asks' \in [Payees -> Requests \union {Nothing}]
        /\ overtook' \in [Payees -> SUBSET Payees]
    BY <2>1 DEF SpendTypeOK
  <2> QED
    BY <2>1, <2>3, <2>4 DEF SpendTypeOK
<1>3. CASE Earn
  <2>1. treasury' \in 0..MaxTreasury
    BY <1>3, QuartermasterAssumption DEF Earn, SpendTypeOK
  <2> QED
    BY <1>3, <2>1 DEF Earn, SpendTypeOK, Wanting
<1>4. CASE GridSettles
  BY <1>4 DEF GridSettles, SpendTypeOK, Wanting
<1>5. CASE UNCHANGED spendVars
  BY <1>5 DEF spendVars, SpendTypeOK, Wanting
<1> QED
  BY <1>1, <1>2, <1>3, <1>4, <1>5 DEF SpendNext

(* The variables keep their types, for any income and any requests: no     *)
(* treasury is ever in debt, no order draws more power than there is, and  *)
(* the cursor is at a beacon or at none.                                   *)
THEOREM SpendingIsTyped == SpendSpec => []SpendTypeOK
<1>1. SpendInit => SpendTypeOK
  BY QuartermasterAssumption DEF SpendInit, SpendTypeOK, Wanting
<1> QED
  BY <1>1, StepSpendTyped, AccountsHold, PTL DEF SpendSpec

(* A request that was refused at its turn is refused of what its band and  *)
(* those above it left.                                                    *)
LEMMA RefusedByTheLadder ==
  ASSUME Accounts, NEW full, NEW paid, paid = Filled(full).paid,
         NEW b \in Wanting \ (paid \union full)
  PROVE  LET above == {a \in paid : asks[a].band <= asks[b].band}
         IN  ~Approves(asks[b], treasury - Spent(above), headroom - Drawn(above))
<1> DEFINE above == {a \in paid : asks[a].band <= asks[b].band}
           gone == {a \in paid : Before(a, b)}
<1>1. Filed(Filled(full), Wanting, full)
  BY FilledIsFiled
<1>2. paid \in SUBSET Wanting /\ Refuses(b, paid)
  BY <1>1 DEF Filed
<1>3. gone \in SUBSET above
  <2> SUFFICES ASSUME NEW a \in paid, Before(a, b) PROVE asks[a].band <= asks[b].band
    OBVIOUS
  <2>1. asks[a].band \in 1..5 /\ asks[b].band \in 1..5
    BY <1>2, WantsAreRequests
  <2> QED
    BY <2>1 DEF Before
<1>4. above \in SUBSET Wanting /\ gone \in SUBSET Wanting
  BY <1>2
<1>5. ~Approves(asks[b], treasury - Spent(gone), headroom - Drawn(gone))
  BY <1>2 DEF Refuses
<1> HIDE DEF above, gone
<1>6. /\ Spent(gone) <= Spent(above) /\ Drawn(gone) <= Drawn(above)
      /\ {Spent(gone), Spent(above), Drawn(gone), Drawn(above)} \subseteq Nat
  BY <1>3, <1>4, SumsAdd
<1>7. treasury \in Nat /\ headroom \in Nat /\ asks[b].cost \in Nat /\ asks[b].draw \in Nat
  BY WantsAreRequests DEF Accounts
<1>8. ~Approves(asks[b], treasury - Spent(above), headroom - Drawn(above))
  BY <1>5, <1>6, <1>7 DEF Approves
<1> QED
  BY <1>8 DEF above

(* Urgency decides what a seat's money goes to, whatever its beacons want, *)
(* earn and are refused.                                                   *)
THEOREM UrgencyDecides == SpendSpec => LadderHolds
<1>1. Accounts /\ [SpendNext]_spendVars =>
        [\A full \in SUBSET Wanting : FillRequests(full) =>
           LET paid == Filled(full).paid
           IN  \A b \in Wanting \ (paid \union full) :
                 LET above == {a \in paid : asks[a].band <= asks[b].band}
                 IN  ~Approves(asks[b], treasury - Spent(above),
                               headroom - Drawn(above))]_spendVars
  BY RefusedByTheLadder
<1> QED
  BY <1>1, AccountsHold, PTL DEF SpendSpec, LadderHolds

----------------------------------------------------------------------------
(* Whoever takes another's turn had it before.                             *)
LEMMA OvertakersAreAhead ==
  ASSUME Accounts, NEW full, NEW paid, paid = Filled(full).paid,
         NEW a, NEW b, Overtakes(a, b, paid, full)
  PROVE  /\ a \in paid /\ a \in Wanting /\ b \in Wanting /\ b \notin paid
         /\ asks[a].band = asks[b].band /\ a # b /\ Before(a, b) /\ ByTurn(a, b)
<1>1. Filed(Filled(full), Wanting, full)
  BY FilledIsFiled
<1>2. /\ paid \in SUBSET Wanting /\ a \in paid /\ a \in Wanting
      /\ b \in Wanting \ (paid \union full) /\ a # b
      /\ asks[a].band = asks[b].band /\ CouldBePaid(b, a, paid)
  BY <1>1 DEF Filed, Overtakes
<1>3. Refuses(b, paid)
  BY <1>1, <1>2 DEF Filed
<1>4. ASSUME Before(b, a) PROVE FALSE
  <2> DEFINE first == {x \in paid : Before(x, b)}
             then == {x \in paid : Before(x, a)}
  <2>1. first \in SUBSET then /\ then \in SUBSET Wanting /\ first \in SUBSET Wanting
    BY <1>2, <1>4, BeforeOrders
  <2>2. ~Approves(asks[b], treasury - Spent(first), headroom - Drawn(first))
    BY <1>3 DEF Refuses
  <2>3. Approves(asks[b], treasury - Spent(then), headroom - Drawn(then))
    BY <1>2 DEF CouldBePaid
  <2> HIDE DEF first, then
  <2>4. /\ Spent(first) <= Spent(then) /\ Drawn(first) <= Drawn(then)
        /\ {Spent(first), Spent(then), Drawn(first), Drawn(then)} \subseteq Nat
    BY <2>1, SumsAdd
  <2>5. treasury \in Nat /\ headroom \in Nat /\ asks[b].cost \in Nat /\ asks[b].draw \in Nat
    BY <1>2, WantsAreRequests DEF Accounts
  <2> QED
    BY <2>2, <2>3, <2>4, <2>5 DEF Approves
<1>5. Before(a, b)
  BY <1>2, <1>4, BeforeOrders
<1>6. asks[a].band \in 1..5 /\ asks[b].band \in 1..5
  BY <1>2, WantsAreRequests
<1> QED
  BY <1>2, <1>5, <1>6 DEF Before

(* The turns go round: once the cursor is at one that was ahead of b, all  *)
(* that were ahead of it up to that one are behind b, and so is who was    *)
(* behind b before.                                                        *)
LEMMA TurnsGoRound ==
  ASSUME NEW a \in Nat, NEW b \in Nat, NEW l \in Nat, NEW c \in Nat, b # l,
         seatCursor = c, seatCursor' = l, ByTurn(l, b),
         ByTurn(b, a) \/ a = l \/ ByTurn(a, l)
  PROVE  ByTurn(b, a)'
BY DEF ByTurn, Wrapped

(* A walk keeps the turns: whoever it pays is behind whoever waits on.     *)
LEMMA FillKeepsTurns ==
  ASSUME Accounts, TurnsStand, NEW full \in SUBSET Wanting, FillRequests(full)
  PROVE  TurnsStand'
<1> DEFINE q == Filled(full)
           paid == q.paid
           waits == Wanting \ paid
<1>1. /\ paid \in SUBSET Wanting
      /\ paid = {} => q.cursor = seatCursor
      /\ paid # {} => /\ q.cursor \in paid
                      /\ \A a \in paid \ {q.cursor} : Before(a, q.cursor)
  BY FilledIsFiled DEF Filed
<1>2. /\ seatCursor' = q.cursor
      /\ asks' = [b \in Payees |-> IF b \in paid THEN Nothing ELSE asks[b]]
      /\ overtook' = [b \in Payees |->
           IF b \notin waits THEN {}
           ELSE overtook[b] \union {a \in paid : Overtakes(a, b, paid, full)}]
      /\ lostTurn' = {b \in waits :
           b \in lostTurn \/ \E a \in paid : ~Overtakes(a, b, paid, full)}
  BY DEF FillRequests
<1>3. /\ overtook \in [Payees -> SUBSET Payees]
      /\ \A b \in Wanting \ lostTurn : \A a \in overtook[b] : ByTurn(b, a)
  BY DEF TurnsStand
<1>4. Wanting \in SUBSET Payees /\ Payees \subseteq Nat
  BY QuartermasterAssumption DEF Wanting
<1>5. \A a, b : Overtakes(a, b, paid, full) =>
        /\ a \in paid /\ a \in Wanting /\ b \in Wanting /\ b \notin paid
        /\ asks[a].band = asks[b].band /\ a # b /\ Before(a, b) /\ ByTurn(a, b)
  BY OvertakersAreAhead
<1>6. seatCursor \in Nat
  BY DEF Accounts
<1> HIDE DEF q
<1>7. overtook' \in [Payees -> SUBSET Payees]
  BY <1>1, <1>2, <1>3, <1>4
<1>8. ASSUME NEW b \in Wanting' \ lostTurn', NEW a \in overtook'[b]
      PROVE  ByTurn(b, a)'
  <2>1. b \in Payees /\ b \in waits
    BY <1>2, <1>4 DEF Wanting
  <2>2. b \notin lostTurn /\ \A x \in paid : Overtakes(x, b, paid, full)
    BY <1>2, <1>8, <2>1
  <2>3. a \in overtook[b] \/ a \in paid
    BY <1>2, <1>8, <2>1
  <2>4. a \in overtook[b] => ByTurn(b, a)
    BY <1>3, <2>1, <2>2
  <2>5. a \in Nat /\ b \in Nat
    BY <1>1, <1>3, <1>4, <2>1, <2>3
  <2>6. CASE paid = {}
    <3>1. seatCursor' = seatCursor /\ ByTurn(b, a)
      BY <1>1, <1>2, <2>3, <2>4, <2>6
    <3> QED
      BY <3>1 DEF ByTurn, Wrapped
  <2>7. CASE paid # {}
    <3> DEFINE l == q.cursor
    <3>1. l \in paid /\ l \in Nat /\ ByTurn(l, b) /\ b # l /\ asks[l].band = asks[b].band
      BY <1>1, <1>4, <1>5, <2>2, <2>7
    <3> HIDE DEF l, paid, waits
    <3>2. ASSUME a \in paid, a # l PROVE ByTurn(a, l)
      <4>1. Before(a, l) /\ asks[a].band = asks[b].band /\ a \in Wanting /\ l \in Wanting
        BY <1>1, <1>5, <2>2, <2>7, <3>1, <3>2 DEF l
      <4>2. asks[a].band = asks[l].band /\ asks[l].band \in 1..5
        BY <3>1, <4>1, WantsAreRequests
      <4> QED
        BY <4>1, <4>2 DEF Before
    <3>3. ByTurn(b, a) \/ a = l \/ ByTurn(a, l)
      BY <2>3, <2>4, <3>2
    <3>4. seatCursor' = l
      BY <1>2 DEF l
    <3> QED
      BY <1>6, <2>5, <3>1, <3>3, <3>4, TurnsGoRound
  <2> QED
    BY <2>6, <2>7
<1> QED
  BY <1>7, <1>8 DEF TurnsStand

(* Who asks anew waits for nobody yet.                                     *)
LEMMA AskKeepsTurns ==
  ASSUME TurnsStand, NEW b \in Payees, Ask(b)
  PROVE  TurnsStand'
<1>1. /\ \E r : asks' = [asks EXCEPT ![b] = r]
      /\ overtook' = [overtook EXCEPT ![b] = {}] /\ lostTurn' = lostTurn \ {b}
      /\ seatCursor' = seatCursor
  BY DEF Ask
<1>2. /\ overtook \in [Payees -> SUBSET Payees]
      /\ \A c \in Wanting \ lostTurn : \A a \in overtook[c] : ByTurn(c, a)
  BY DEF TurnsStand
<1>3. overtook' \in [Payees -> SUBSET Payees]
  BY <1>1, <1>2
<1>4. ASSUME NEW c \in Wanting' \ lostTurn', NEW a \in overtook'[c]
      PROVE  ByTurn(c, a)'
  <2>1. c \in Payees
    BY DEF Wanting
  <2>2. c # b
    BY <1>1, <1>2, <1>4
  <2>3. asks'[c] = asks[c] /\ asks'[c] # Nothing
    BY <1>1, <2>2 DEF Wanting
  <2>4. c \in Wanting \ lostTurn /\ a \in overtook[c]
    BY <1>1, <1>2, <1>4, <2>1, <2>2, <2>3 DEF Wanting
  <2>5. ByTurn(c, a)
    BY <1>2, <2>4
  <2> QED
    BY <1>1, <2>5 DEF ByTurn, Wrapped
<1> QED
  BY <1>3, <1>4 DEF TurnsStand

(* Every step keeps the turns.                                             *)
LEMMA StepTurns ==
  ASSUME Accounts, TurnsStand, [SpendNext]_spendVars
  PROVE  TurnsStand'
<1>1. CASE \E full \in SUBSET Wanting : FillRequests(full)
  BY <1>1, FillKeepsTurns
<1>2. CASE \E b \in Payees : Ask(b)
  BY <1>2, AskKeepsTurns
<1>3. CASE Earn \/ GridSettles \/ UNCHANGED spendVars
  BY <1>3 DEF Earn, GridSettles, spendVars, TurnsStand, Wanting, ByTurn, Wrapped
<1> QED
  BY <1>1, <1>2, <1>3 DEF SpendNext

(* In a band that alone is paid for nobody is overtaken twice by the same  *)
(* neighbour, for any beacons, requests and income.                        *)
THEOREM TurnsGoAround == SpendSpec => TurnsAreTaken
<1>1. SpendInit => TurnsStand
  BY DEF SpendInit, TurnsStand, Wanting
<1>2. SpendSpec => []TurnsStand
  BY <1>1, StepTurns, AccountsHold, PTL DEF SpendSpec
<1>3. ASSUME Accounts, TurnsStand, NEW full, FillRequests(full),
             NEW b \in Wanting \ lostTurn, NEW a \in overtook[b],
             Overtakes(a, b, Filled(full).paid, full)
      PROVE  FALSE
  <2>1. ByTurn(b, a)
    BY <1>3 DEF TurnsStand
  <2>2. ByTurn(a, b) /\ a \in Wanting
    BY <1>3, OvertakersAreAhead
  <2>3. a \in Nat /\ b \in Nat /\ seatCursor \in Nat
    BY <1>3, <2>2, WantsAreRequests DEF Accounts
  <2> QED
    BY <2>1, <2>2, <2>3 DEF ByTurn, Wrapped
<1>4. Accounts /\ TurnsStand /\ [SpendNext]_spendVars =>
        [\A full \in SUBSET Wanting : FillRequests(full) =>
           LET paid == Filled(full).paid
           IN  \A b \in Wanting \ lostTurn :
                 \A a \in overtook[b] : ~Overtakes(a, b, paid, full)]_spendVars
  BY <1>3
<1> QED
  BY <1>2, <1>4, AccountsHold, PTL DEF SpendSpec, TurnsAreTaken
=============================================================================
