------------------------------ MODULE Interpreter ------------------------------
(***************************************************************************)
(* One seat's playbook: crates/sim/src/interpreter/exec.rs and state.rs.   *)
(* Once every decision tick of a Push the interpreter takes one decision   *)
(* for the seat: the damage marker, the dead commander, the deaths that    *)
(* end the route, the reflex, the handlers, then one look at the step of   *)
(* the running body, the route or the tail.  Between two decisions the     *)
(* world does as it likes: the commander walks where it was last sent and  *)
(* nowhere else, is hurt, mended, killed and brought back, beacons die and *)
(* the treasury moves.                                                     *)
(*                                                                         *)
(* A decision is a function of the seat and of what it reads: conditions,  *)
(* rankings, ground.  Each handler below takes the seat as a record to the *)
(* next one, in the order of the code.  Clocks count decisions: an instant *)
(* k ticks off has come at the decision ceil(k / decision_ticks) from now. *)
(***************************************************************************)
EXTENDS Integers, Sequences

CONSTANTS
  Plans,          \* the playbooks a seat may seal
  Places, Road,   \* columns a playbook may name, and one it never does
  NoPlace,
  Home,           \* the column of the seat's core, beacon 1
  MaxBeacons,     \* bound on the ids of a seat: its share of the table
  Cost, Refund,   \* of a beacon, of one recycled
  MaxMoney,       \* bound on what the seat earns on top
  FullHp, ReflexHp,
  Handshake, RowTime, Deploy,  \* interface times
  MaxDeaths,      \* bound: the commander's deaths in a Push
  MaxPushes       \* bound

NoIndex == 99     \* u32::MAX: above every index, and it does not count on
NoTick == 99
NoBeacon == 0
NoRestart == [beacon |-> NoBeacon, rule |-> NoIndex, at |-> NoIndex, row |-> 1]

ASSUME InterpreterAssumption ==
  /\ Home \in Places /\ Road \notin Places /\ NoPlace \notin Places \union {Road}
  /\ Cost \in Nat \ {0} /\ Refund \in 0..Cost /\ FullHp \in Nat /\ ReflexHp \in 1..FullHp
  /\ MaxBeacons \in Nat \ {0}
  /\ \A t \in {Handshake, RowTime, Deploy} : t \in 1..(NoTick - 1)

VARIABLES
  plan,      \* the sealed playbook
  seat,      \* the PlanState, the commander and what the seat holds
  running,   \* a Push is running
  pushes,
  decided    \* history: the last step was a decision

runVars == <<plan, seat, running, pushes, decided>>

Later(i) == IF i = NoIndex THEN NoIndex ELSE i + 1
Less(k) == IF k = 0 THEN 0 ELSE k - 1
Alive(s, b) == b # NoBeacon /\ s.living[b] # NoPlace
Living(s) == {b \in DOMAIN s.living : Alive(s, b)}

(* PlanState::sealed.                                                      *)
Sealed(p, hp) ==
  [stage |-> "NotStarted", left |-> 0, timeout |-> NoTick,
   cursor |-> 1, rule |-> NoIndex, ruleStep |-> 1,
   pinned |-> NoPlace, pinnedBeacon |-> NoBeacon, visit |-> NoBeacon,
   row |-> 1, resumed |-> FALSE, restart |-> NoRestart,
   armed |-> TRUE, reflex |-> FALSE, lastHp |-> hp, leg |-> 1,
   fires |-> [r \in DOMAIN p.rules |-> 0], ready |-> [r \in DOMAIN p.rules |-> 0]]

(* That PlanState, and what else the seat has.                             *)
Over(state, kept) ==
  [f \in DOMAIN state \union DOMAIN kept |->
     IF f \in DOMAIN state THEN state[f] ELSE kept[f]]

----------------------------------------------------------------------------
(* Forgetting a step.                                                      *)

ClearStep(s) ==
  [s EXCEPT !.stage = "NotStarted", !.left = 0, !.timeout = NoTick,
            !.pinned = NoPlace, !.pinnedBeacon = NoBeacon, !.visit = NoBeacon,
            !.row = 1, !.resumed = FALSE]

(* Variant: only a step that failed is refunded.                           *)
DropUnpaid(s) == ClearStep(s)

(* drop_step.  The stage is the only record of the charge.                 *)
Drop(s) ==
  ClearStep(IF s.stage = "Deploying" THEN [s EXCEPT !.treasury = @ + Cost] ELSE s)

(* clear_restart.                                                          *)
Forget(s) == [s EXCEPT !.restart = NoRestart]

(* set_unit_destination: an unchanged destination is no new order.         *)
Walk(s, p) == IF s.dest = p THEN s ELSE [s EXCEPT !.dest = p, !.sealed = FALSE]

EnterFallback(s) ==
  IF s.cursor = NoIndex /\ s.stage = "NotStarted" /\ s.pinned # NoPlace THEN s
  ELSE Drop(Forget([s EXCEPT !.rule = NoIndex, !.ruleStep = 1, !.cursor = NoIndex]))

----------------------------------------------------------------------------
(* What a pass over a step concludes.  in is what the decision reads: the  *)
(* beacon a selector ranks first, the handlers whose condition holds, and  *)
(* the turn the step takes: its skip_if or the condition it waits for      *)
(* holds, or the first thing to go wrong, which ends it.                   *)

Turns == {"none", "skip", "met", "target", "site", "path", "feature", "row", "busy"}
Inputs(s) == [turn : Turns, pick : Living(s), true : SUBSET DOMAIN plan.rules]

Running(s) == [s |-> s, out |-> "Running"]
Complete(s) == [s |-> s, out |-> "Complete"]
Failed(s) == [s |-> s, out |-> "Failed"]

BeginVisit(s) ==
  Running([s EXCEPT !.timeout = NoTick, !.stage = "Handshake", !.left = Handshake])

(* Inside an own sphere ("site" when not), and no own beacon in the column.*)
SiteIsLegal(s, p, in) == in.turn # "site" /\ \A b \in Living(s) : s.living[b] # p

(* begin_deploy, charge_deploy.                                            *)
BeginDeploy(s, p, in) ==
  IF ~SiteIsLegal(s, p, in) \/ s.treasury < Cost THEN Failed(s)
  ELSE Running([s EXCEPT !.treasury = @ - Cost, !.timeout = NoTick,
                         !.stage = "Deploying", !.left = Deploy])

WalkIn(s, p, in) == IF in.turn = "path" THEN Failed(s) ELSE Running(Walk(s, p))

(* In range of what it interfaces with, or on the way there.               *)
Visit(s, b, in) ==
  LET p == s.living[b]
      t == [s EXCEPT !.pinned = p, !.pinnedBeacon = b, !.visit = b]
  IN  IF t.at = p THEN BeginVisit(t) ELSE WalkIn(t, p, in)

Resumes(s, step, i) ==
  /\ step.action = "place" /\ s.restart.beacon # NoBeacon
  /\ s.restart.rule = s.rule /\ s.restart.at = i

StartPlacement(s, step, in) ==
  LET t == [s EXCEPT !.pinned = step.at]
  IN  IF ~SiteIsLegal(s, step.at, in) \/ in.turn = "feature" THEN Failed(t)
      ELSE IF t.at = step.at THEN BeginDeploy(t, step.at, in)
      ELSE WalkIn(t, step.at, in)

(* start_step.                                                             *)
Start(s, step, i, in) ==
  LET resumes == Resumes(s, step, i)
      t == [(IF resumes THEN s ELSE Forget(s)) EXCEPT
              !.stage = "Running", !.row = 1,
              !.timeout = IF step.ms = 0 THEN NoTick ELSE step.ms,
              !.left = IF step.action = "hold" THEN step.hold ELSE 0]
  IN  CASE step.action = "move" ->
             IF in.turn = "target" THEN Failed(t)
             ELSE Running(Walk([t EXCEPT !.pinned = step.at], step.at))
        [] step.action = "interface" ->
             IF in.turn \in {"target", "feature"} THEN Failed(t) ELSE Visit(t, in.pick, in)
        [] step.action = "place" /\ resumes ->
             IF ~Alive(t, t.restart.beacon) THEN Failed(t)
             ELSE Visit([t EXCEPT !.resumed = TRUE, !.row = t.restart.row], t.restart.beacon, in)
        [] step.action = "place" /\ ~resumes -> StartPlacement(t, step, in)
        [] OTHER -> Running(t)

WalkToVisit(s, in) ==
  IF ~Alive(s, s.visit) THEN Failed(s)
  ELSE IF s.at = s.living[s.visit] THEN BeginVisit(s)
  ELSE IF s.sealed THEN Failed(s) ELSE Running(s)

WalkToDeploy(s, in) ==
  IF s.at = s.pinned THEN BeginDeploy(s, s.pinned, in)
  ELSE IF s.sealed THEN Failed(s) ELSE Running(s)

(* A row's own duration has passed: it commits, or fails the step.         *)
CommitRow(s, rows, keeps) ==
  LET gone == rows[s.row] = "recycle"
      t == [s EXCEPT !.row = @ + 1,
              !.living[s.visit] = IF gone THEN NoPlace ELSE @,
              !.treasury = IF gone THEN @ + Refund ELSE @,
              !.earned = IF gone THEN @ + Refund ELSE @]
      u == IF keeps THEN [t EXCEPT !.restart.row = t.row] ELSE t
  IN  IF t.row \in DOMAIN rows THEN Running([u EXCEPT !.left = RowTime]) ELSE Complete(u)

(* The beacon is gone, or the commander no longer in range of it.          *)
VisitIsOver(s) == ~Alive(s, s.visit) \/ s.at # s.living[s.visit]

RunVisit(s, rows, in) ==
  IF VisitIsOver(s) THEN Failed(s)
  ELSE IF s.left > 0 THEN Running(s)
  ELSE IF s.stage = "Handshake"
       THEN LET t == [s EXCEPT !.stage = "Committing"]
            IN  IF s.row \in DOMAIN rows THEN Running([t EXCEPT !.left = RowTime])
                ELSE Complete(t)
  ELSE IF s.row \notin DOMAIN rows THEN Complete(s)
  ELSE IF in.turn = "row" THEN Failed(s)
  ELSE CommitRow(s, rows, s.resumed)

(* The beacon is in the ground, and the step has a beacon to resume at.    *)
PlaceBeacon(s, i, rows) ==
  LET b == s.given + 1
      t == [s EXCEPT !.given = b, !.living[b] = s.pinned, !.visit = b,
                     !.pinnedBeacon = b, !.stage = "Committing", !.row = 1,
                     !.restart = [beacon |-> b, rule |-> s.rule, at |-> i, row |-> 1]]
  IN  IF rows = <<>> THEN Complete(t) ELSE Running([t EXCEPT !.left = RowTime])

(* The commander must stay for all of it, the initial rows included.       *)
Leaves(s) == s.at # s.pinned

RunDeploy(s, i, rows, in) ==
  IF Leaves(s) THEN Failed(s)
  ELSE IF s.left > 0 THEN Running(s)
  ELSE IF s.stage = "Deploying"
       THEN IF ~SiteIsLegal(s, s.pinned, in) THEN Failed(s)
            ELSE IF in.turn = "busy" THEN Running(s)
            ELSE IF s.given = MaxBeacons THEN Failed(s)
            ELSE PlaceBeacon(s, i, rows)
  ELSE IF ~Alive(s, s.visit) \/ in.turn = "row" THEN Failed(s)
  ELSE CommitRow(s, rows, TRUE)

Look(s, step, i, in) ==
  CASE step.action = "move" ->
         IF s.at = s.pinned THEN Complete(s)
         ELSE IF s.sealed THEN Failed(s) ELSE Running(s)
    [] step.action = "hold" -> IF s.left = 0 THEN Complete(s) ELSE Running(s)
    [] step.action = "wait" -> IF in.turn = "met" THEN Complete(s) ELSE Running(s)
    [] step.action = "broadcast" -> Failed(s)
    [] OTHER ->  \* interface, place
         IF in.turn = "feature" THEN Failed(s)
         ELSE IF step.action = "interface" \/ s.resumed
              THEN IF s.stage = "Running" THEN WalkToVisit(s, in)
                   ELSE RunVisit(s, step.rows, in)
         ELSE IF s.stage = "Running" THEN WalkToDeploy(s, in)
              ELSE RunDeploy(s, i, step.rows, in)

RunStep(s, step, i, in) ==
  IF s.stage = "NotStarted" /\ in.turn = "skip" THEN Complete(s)
  ELSE LET t == IF s.stage = "NotStarted" THEN Start(s, step, i, in) ELSE Running(s)
       IN  IF t.out = "Failed" THEN t
           ELSE IF t.s.timeout = 0 THEN Failed(t.s)
           ELSE Look(t.s, step, i, in)

----------------------------------------------------------------------------
(* Where a step's end leads.                                               *)

(* A jump only ever goes forward.                                          *)
Jumped(s, to) == IF to > s.cursor THEN to ELSE s.cursor

EndBody(s, resume, to) ==
  LET t == Drop(Forget([s EXCEPT !.rule = NoIndex, !.ruleStep = 1]))
      u == [t EXCEPT !.cursor = CASE resume = "skip" -> Later(@)
                                  [] resume = "jump" -> Jumped(t, to)
                                  [] OTHER -> @]
  IN  IF resume = "end" \/ u.cursor \notin DOMAIN plan.route THEN EnterFallback(u) ELSE u

AdvanceBody(s, in) ==
  LET rule == plan.rules[s.rule]
      step == rule.body[s.ruleStep]
      run == RunStep(s, step, s.ruleStep, in)
      t == Drop(Forget(run.s))
  IN  IF run.out = "Running" THEN run.s
      ELSE IF run.out = "Failed" /\ step.fail = "abort" THEN EndBody(t, rule.resume, rule.to)
      ELSE IF run.out = "Failed" /\ step.fail = "jump" THEN EndBody(t, "jump", step.to)
      ELSE LET u == [t EXCEPT !.ruleStep = @ + 1]
           IN  IF u.ruleStep \in DOMAIN rule.body THEN u ELSE EndBody(u, rule.resume, rule.to)

AdvanceRoute(s, in) ==
  IF s.cursor \notin DOMAIN plan.route THEN EnterFallback(s)
  ELSE LET step == plan.route[s.cursor]
           run == RunStep(s, step, s.cursor, in)
           t == Drop(Forget(run.s))
           next == IF run.out = "Complete" \/ step.fail = "skip" THEN s.cursor + 1
                   ELSE IF step.fail = "abort" THEN NoIndex
                   ELSE IF step.to > s.cursor THEN step.to ELSE s.cursor + 1
       IN  IF run.out = "Running" THEN run.s
           ELSE IF next \in DOMAIN plan.route THEN [t EXCEPT !.cursor = next]
           ELSE EnterFallback(t)

(* run_fallback: hold a place, shadow the ranked beacon, or patrol.        *)
RunFallback(s, in) ==
  LET target == IF plan.posture = "shadow" THEN s.living[in.pick] ELSE plan.tail[s.leg]
      next == IF s.leg = Len(plan.tail) THEN 1 ELSE s.leg + 1
  IN  IF s.at = target
      THEN IF plan.posture = "patrol" THEN [s EXCEPT !.leg = next, !.pinned = NoPlace] ELSE s
      ELSE IF s.pinned = target THEN s
      ELSE Walk([s EXCEPT !.pinned = target], target)

----------------------------------------------------------------------------
(* The reflex: it fires once for new damage, and holds the decision until  *)
(* the commander is home, home is gone or there is no way there.           *)

FireReflex(s, in) ==
  LET t == [Drop(s) EXCEPT !.armed = FALSE]
      p == s.living[in.pick]
  IN  Walk([t EXCEPT !.reflex = TRUE, !.pinned = p, !.pinnedBeacon = in.pick], p)

(* Variant: the reflex has only its arrival to end it.                     *)
ReflexUntilHome(s, in) ==
  LET t == IF s.armed /\ s.hp <= ReflexHp THEN FireReflex(s, in) ELSE s
  IN  IF t.reflex /\ t.at = t.pinned THEN [Drop(t) EXCEPT !.reflex = FALSE] ELSE t

RunReflex(s, in) ==
  LET t == IF s.armed /\ s.hp <= ReflexHp THEN FireReflex(s, in) ELSE s
      over == t.at = t.pinned \/ ~Alive(t, t.pinnedBeacon) \/ t.sealed
  IN  IF t.reflex /\ over THEN [Drop(t) EXCEPT !.reflex = FALSE] ELSE t

MayFire(s) ==
  /\ s.rule = NoIndex /\ s.restart.beacon = NoBeacon
  /\ s.stage \notin {"Handshake", "Committing", "Deploying"}

TryFire(s, in) ==
  LET ready == {r \in in.true : s.fires[r] < plan.rules[r].maxFires /\ s.ready[r] = 0}
      r == CHOOSE x \in ready : \A y \in ready : x <= y
  IN  IF ~MayFire(s) \/ ready = {} THEN s
      ELSE [Drop(s) EXCEPT !.rule = r, !.ruleStep = 1,
                           !.fires[r] = @ + 1, !.ready[r] = plan.rules[r].cooldown]

Advance(s, in) ==
  IF s.rule # NoIndex THEN AdvanceBody(s, in)
  ELSE IF s.cursor = NoIndex THEN RunFallback(s, in) ELSE AdvanceRoute(s, in)

(* A decision later: what was k decisions off is k - 1 off.                *)
Aged(s) ==
  [s EXCEPT !.left = Less(@), !.timeout = IF @ = NoTick THEN @ ELSE Less(@),
            !.ready = [r \in DOMAIN @ |-> Less(@[r])]]

Marked(s) == [s EXCEPT !.armed = @ \/ s.hp < s.lastHp, !.lastHp = s.hp]

OutOfDeaths(s) == plan.deaths # 0 /\ s.deaths >= plan.deaths

(* Variant: only time that was being paid is lost.                         *)
DiesOnTheWay(s) ==
  [(IF s.stage \in {"Handshake", "Committing", "Deploying"} THEN Drop(s) ELSE s)
     EXCEPT !.reflex = FALSE]

(* A dead commander keeps no step, and its reflex is over.                 *)
Dies(s) == [(IF s.stage = "NotStarted" THEN s ELSE Drop(s)) EXCEPT !.reflex = FALSE]

(* decide.                                                                 *)
Decided(s0, in) ==
  LET s == Marked(Aged(s0))
      t == IF s.cursor # NoIndex /\ OutOfDeaths(s) THEN EnterFallback(s) ELSE s
      u == RunReflex(t, in)
  IN  IF s.hp = 0 THEN Dies(s)
      ELSE IF u.reflex THEN u ELSE Advance(TryFire(u, in), in)

----------------------------------------------------------------------------
(* The commander, and what the seat holds: the core, and no $ at first.    *)
Fresh ==
  [hp |-> FullHp, at |-> Home, dest |-> Home, sealed |-> FALSE, deaths |-> 0,
   living |-> [b \in 1..MaxBeacons |-> IF b = 1 THEN Home ELSE NoPlace], given |-> 1,
   treasury |-> 0,
   earned |-> 0]              \* history: what came in less what other orders took

RunInit ==
  /\ plan \in Plans
  /\ seat = Over(Sealed(plan, FullHp), Fresh)
  /\ running = TRUE /\ pushes = 1 /\ decided = FALSE

(* A seat without a living beacon has fallen: it decides nothing more.     *)
Decide ==
  /\ running /\ Living(seat) # {}
  /\ \E in \in Inputs(seat) : seat' = Decided(seat, in)
  /\ decided' = TRUE
  /\ UNCHANGED <<plan, running, pushes>>

World(t) ==
  /\ running /\ seat' = t /\ decided' = FALSE
  /\ UNCHANGED <<plan, running, pushes>>

(* Its way may lead past any other place.                                  *)
Travel ==
  /\ seat.hp > 0 /\ seat.at # seat.dest /\ ~seat.sealed
  /\ \E p \in (Places \union {Road}) \ {seat.at} : World([seat EXCEPT !.at = p])

(* The router finds no way, or the terrain has opened one.                 *)
SealsOff == seat.hp > 0 /\ seat.at # seat.dest /\ World([seat EXCEPT !.sealed = ~@])

Hurt ==
  /\ seat.hp > 0 /\ (seat.hp = 1 => seat.deaths < MaxDeaths)
  /\ World([seat EXCEPT !.hp = @ - 1, !.deaths = IF seat.hp = 1 THEN @ + 1 ELSE @])

Mend == seat.hp \in 1..(FullHp - 1) /\ World([seat EXCEPT !.hp = @ + 1])

(* settle_respawns: at an own beacon, with nowhere to go.                  *)
Returned(s, b) ==
  [s EXCEPT !.hp = FullHp, !.at = s.living[b], !.dest = s.living[b], !.sealed = FALSE]

(* respawn_base_ms is many decisions long: one has seen the dead commander.*)
Respawn ==
  /\ seat.hp = 0 /\ seat.lastHp = 0
  /\ \E b \in Living(seat) : World(Returned(seat, b))

(* A beacon is destroyed; a seat that falls with it is disbanded.          *)
Lose ==
  \E b \in Living(seat) :
    World([seat EXCEPT !.living[b] = NoPlace,
                       !.hp = IF Living(seat) = {b} THEN 0 ELSE @])

Earn == seat.earned < MaxMoney /\ World([seat EXCEPT !.earned = @ + 1, !.treasury = @ + 1])

(* The Quartermaster's purchases.                                          *)
Spend == seat.treasury > 0 /\ World([seat EXCEPT !.earned = @ - 1, !.treasury = @ - 1])

(* abandon_deploys: a fallen seat's too.                                   *)
Abandon(s) == IF s.stage = "Deploying" THEN Drop(s) ELSE s

(* A pending respawn completes by segment end, but not a fallen seat's.    *)
CloseSegment ==
  /\ running /\ running' = FALSE
  /\ IF seat.hp = 0 /\ Living(seat) # {}
     THEN \E b \in Living(seat) : seat' = Abandon(Returned(seat, b))
     ELSE seat' = Abandon(seat)
  /\ decided' = FALSE
  /\ UNCHANGED <<plan, pushes>>

(* The next Push, with the playbook sealed for it.                         *)
OpenPush ==
  /\ ~running /\ pushes < MaxPushes
  /\ running' = TRUE /\ pushes' = pushes + 1 /\ decided' = FALSE
  /\ plan' \in Plans
  /\ seat' = Over(Sealed(plan', seat.hp), [seat EXCEPT !.deaths = 0])

RunNext ==
  \/ Decide
  \/ Travel \/ SealsOff \/ Hurt \/ Mend \/ Respawn \/ Lose \/ Earn \/ Spend
  \/ CloseSegment \/ OpenPush

RunSpec == RunInit /\ [][RunNext]_runVars

----------------------------------------------------------------------------
Stages == {"NotStarted", "Running", "Handshake", "Committing", "Deploying"}
RunTypeOK ==
  /\ plan \in Plans /\ running \in BOOLEAN /\ decided \in BOOLEAN /\ pushes \in 1..MaxPushes
  /\ seat.stage \in Stages /\ seat.hp \in 0..FullHp /\ seat.treasury \in Nat
  /\ seat.at \in Places \union {Road} /\ seat.dest \in Places
  /\ seat.living \in [1..MaxBeacons -> Places \union {NoPlace}] /\ seat.given \in 1..MaxBeacons

(* Every $ of the seat is in its treasury, in the deploy that is running   *)
(* or in a beacon a deploy has placed: a deploy is charged once and given  *)
(* back once, however it ends, by a failure, a death, the reflex, a rule,  *)
(* the tail or the segment (drop_step, abandon_deploys).                   *)
MoneyIsAccountedFor ==
  seat.treasury + (IF seat.stage = "Deploying" THEN Cost ELSE 0)
    + (seat.given - 1) * Cost = seat.earned

(* The step that is under way.                                             *)
Acting(s) ==
  IF s.rule # NoIndex THEN plan.rules[s.rule].body[s.ruleStep] ELSE plan.route[s.cursor]

Busy == {"Handshake", "Committing", "Deploying"}
Visiting(s) ==
  /\ s.stage \in {"Handshake", "Committing"}
  /\ Acting(s).action = "interface" \/ s.resumed

(* When a decision leaves a visit or a deploy running, the commander       *)
(* stands where it is paying time, and a visit's beacon lives unless a row *)
(* of the visit has just recycled it (a deploy looks at its own once a row *)
(* of it is due); when it leaves a step that walks, the commander has been *)
(* sent where the step waits for it to be: a respawn, the reflex and a     *)
(* rule send it elsewhere, and no step may outlive that (run_visit,        *)
(* run_deploy, decide).                                                    *)
StageFitsTheCommander ==
  decided =>
    /\ seat.stage \in Busy => seat.hp > 0 /\ seat.at = seat.pinned
    /\ Visiting(seat) =>
         \/ Alive(seat, seat.visit) /\ seat.at = seat.living[seat.visit]
         \/ \E r \in 1..(seat.row - 1) : Acting(seat).rows[r] = "recycle"
    /\ seat.stage = "Running" /\ Acting(seat).action \in {"move", "interface", "place"} =>
         seat.dest = seat.pinned

(* When a decision leaves the reflex holding, the commander is on its way  *)
(* to a living beacon and can get there: nothing else of the playbook runs *)
(* until then, so it must not wait for what cannot come (run_reflex).      *)
ReflexIsGoingHome ==
  decided /\ seat.reflex =>
    /\ Alive(seat, seat.pinnedBeacon) /\ seat.dest = seat.living[seat.pinnedBeacon]
    /\ seat.at # seat.dest /\ ~seat.sealed

=============================================================================
