----------------------------- MODULE Quartermaster -----------------------------
(***************************************************************************)
(* One seat's spending: the Quartermaster phase of crates/sim/src/world.rs *)
(* over the requests of its beacons' mandates (mandate.rs), judged by      *)
(* SingleTreasury (economy.rs).  Once a decision tick of a Push every lit  *)
(* beacon offers at most one request; they are sorted by the urgency       *)
(* ladder, then by the seat's cursor, then by id, and each is approved,    *)
(* bought and charged in turn.  A seat's cursor is one for all its bands.  *)
(*                                                                         *)
(* Seats share nothing here: the sort keeps a seat's requests together and *)
(* the gathering's bound, the table's beacon limit, is never reached.      *)
(* What a mandate asks for is any request: it is read from the board, which*)
(* the other phases change as they like.                                   *)
(***************************************************************************)
EXTENDS Integers, FiniteSets, FiniteSetsExt

CONSTANTS
  Payees,       \* the ids of its beacons
  Requests,     \* what a mandate may ask for: band, cost, draw, and if a unit
  Nothing,      \* a beacon that is dark, or wants nothing
  MaxTreasury, MaxHeadroom   \* bounds

ASSUME QuartermasterAssumption ==
  /\ Payees \subseteq Nat \ {0} /\ IsFiniteSet(Payees)
  /\ Requests \subseteq [band : 1..5, cost : Nat, draw : Nat, unit : BOOLEAN]
  /\ Nothing \notin Requests /\ MaxTreasury \in Nat /\ MaxHeadroom \in Nat

VARIABLES
  treasury, headroom,
  seatCursor,  \* the seat's cursor: the beacon paid last, 0 before the first
  asks,        \* each beacon's request
  overtook,    \* history: who was paid instead of each asking beacon
  lostTurn     \* history: beacons whose turn went by since they asked

spendVars == <<treasury, headroom, seatCursor, asks, overtook, lostTurn>>

----------------------------------------------------------------------------
(* The order.                                                              *)

Wanting == {b \in Payees : asks[b] # Nothing}

(* Variant: the beacon paid last is the first to be paid again.            *)
WrappedBelow(b) == b < seatCursor

(* A beacon the cursor has reached goes to the back of its band.           *)
Wrapped(b) == b <= seatCursor

ByTurn(a, b) ==
  \/ ~Wrapped(a) /\ Wrapped(b)
  \/ (Wrapped(a) <=> Wrapped(b)) /\ a < b

(* Variant: the turn comes before the ladder.                              *)
TurnBeforeBand(a, b) == a # b /\ ByTurn(a, b)

Before(a, b) ==
  \/ asks[a].band < asks[b].band
  \/ asks[a].band = asks[b].band /\ a # b /\ ByTurn(a, b)

----------------------------------------------------------------------------
(* SingleTreasury::approve.  Whatever draws needs the headroom for it; only*)
(* a unit, which is fielded at once, takes it: a structure draws when it   *)
(* is finished.                                                            *)
Approves(r, money, kw) == r.cost <= money /\ r.draw <= kw

Paid(q, b) ==
  [money |-> q.money - asks[b].cost,
   kw |-> q.kw - IF asks[b].unit THEN asks[b].draw ELSE 0,
   cursor |-> b, paid |-> q.paid \union {b}]

(* commit_purchase may find no room, and then nothing is charged.          *)
Fill(q, b, full) ==
  IF b \notin full /\ Approves(asks[b], q.money, q.kw) THEN Paid(q, b) ELSE q

(* order_requests and the walk down what it sorted: what is left once the  *)
(* requests of S were looked at, the last of them last.                    *)
Filled(full) ==
  LET walk[S \in SUBSET Wanting] ==
        IF S = {}
        THEN [money |-> treasury, kw |-> headroom, cursor |-> seatCursor, paid |-> {}]
        ELSE LET b == CHOOSE x \in S : \A y \in S \ {x} : Before(y, x)
             IN  Fill(walk[S \ {b}], b, full)
  IN  walk[Wanting]

(* What is paid of requests, and the power that they take.                 *)
Costs == [b \in Wanting |-> asks[b].cost]
Takes == [b \in Wanting |-> IF asks[b].unit THEN asks[b].draw ELSE 0]

Spent(S) == MapThenSumSet(LAMBDA b : Costs[b], S)
Drawn(S) == MapThenSumSet(LAMBDA b : Takes[b], S)

(* b could be paid of what was left when a's turn came.                    *)
CouldBePaid(b, a, paid) ==
  LET gone == {x \in paid : Before(x, a)}
  IN  Approves(asks[b], treasury - Spent(gone), headroom - Drawn(gone))

(* a is paid, and b of its band is not though it could have been instead.  *)
Overtakes(a, b, paid, full) ==
  /\ a \in paid /\ b \in Wanting \ (paid \union full)
  /\ asks[a].band = asks[b].band /\ CouldBePaid(b, a, paid)

----------------------------------------------------------------------------
SpendInit ==
  /\ treasury = 0 /\ headroom = MaxHeadroom /\ seatCursor = 0
  /\ asks = [b \in Payees |-> Nothing]
  /\ overtook = [b \in Payees |-> {}] /\ lostTurn = {}

(* phase_quartermaster, on a decision tick of a Push.                      *)
FillRequests(full) ==
  LET q == Filled(full)
      waits == Wanting \ q.paid
  IN  /\ Wanting # {}
      /\ treasury' = q.money /\ headroom' = q.kw /\ seatCursor' = q.cursor
      /\ asks' = [b \in Payees |-> IF b \in q.paid THEN Nothing ELSE asks[b]]
      /\ overtook' = [b \in Payees |->
           IF b \notin waits THEN {}
           ELSE overtook[b] \union {a \in q.paid : Overtakes(a, b, q.paid, full)}]
      /\ lostTurn' = {b \in waits :
           \/ b \in lostTurn
           \/ \E a \in q.paid : ~Overtakes(a, b, q.paid, full)}

(* The board moves on, and with it what a mandate asks for; a beacon that  *)
(* is dark asks for nothing.                                               *)
Ask(b) ==
  /\ \E r \in (Requests \union {Nothing}) \ {asks[b]} : asks' = [asks EXCEPT ![b] = r]
  /\ overtook' = [overtook EXCEPT ![b] = {}] /\ lostTurn' = lostTurn \ {b}
  /\ UNCHANGED <<treasury, headroom, seatCursor>>

(* The income of a settlement, a refund, ore.                              *)
Earn ==
  /\ treasury < MaxTreasury /\ treasury' = treasury + 1
  /\ UNCHANGED <<headroom, seatCursor, asks, overtook, lostTurn>>

(* The Power phase, before this one.                                       *)
GridSettles ==
  /\ \E k \in 0..MaxHeadroom : k # headroom /\ headroom' = k
  /\ UNCHANGED <<treasury, seatCursor, asks, overtook, lostTurn>>

SpendNext ==
  \/ \E full \in SUBSET Wanting : FillRequests(full)
  \/ \E b \in Payees : Ask(b)
  \/ Earn \/ GridSettles

SpendSpec == SpendInit /\ [][SpendNext]_spendVars

----------------------------------------------------------------------------
SpendTypeOK ==
  /\ treasury \in 0..MaxTreasury /\ headroom \in 0..MaxHeadroom
  /\ seatCursor \in Payees \union {0}
  /\ asks \in [Payees -> Requests \union {Nothing}]
  /\ overtook \in [Payees -> SUBSET Payees] /\ lostTurn \subseteq Wanting

(* Urgency decides what a seat's money goes to: a request left unpaid is   *)
(* one that what its own band and those above it left could not pay for,   *)
(* and no lower band had a say in it (phase_quartermaster: "by urgency").  *)
LadderHolds ==
  [][\A full \in SUBSET Wanting : FillRequests(full) =>
       LET paid == Filled(full).paid
       IN  \A b \in Wanting \ (paid \union full) :
             LET above == {a \in paid : asks[a].band <= asks[b].band}
             IN  ~Approves(asks[b], treasury - Spent(above),
                           headroom - Drawn(above))]_spendVars

(* In a band that alone is paid for, and while it could be paid itself, a  *)
(* beacon is overtaken by each of its neighbours once at the most: the     *)
(* round robin that keeps one beacon from hogging the treasury             *)
(* (order_requests, fill_requests).                                        *)
TurnsAreTaken ==
  [][\A full \in SUBSET Wanting : FillRequests(full) =>
       LET paid == Filled(full).paid
       IN  \A b \in Wanting \ lostTurn :
             \A a \in overtook[b] : ~Overtakes(a, b, paid, full)]_spendVars
=============================================================================
