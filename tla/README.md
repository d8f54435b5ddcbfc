# Pharmakos in TLA+

Pharmakos is a deterministic strategy game on a voxel map. Seats do not play it
by hand: they write playbooks between segments, and a simulation interprets the
playbooks. This directory models the parts of it whose correctness depends on
the order in which things happen, checks the models with TLC on small
instances, and proves with TLAPS, for every value of the constants, every
invariant, action property and refinement that a run checks: of the match
machine, planning, the host's clock and limiter, its threads, the feed, the
match folder, the interpreter, the power grid, the Quartermaster, the router and
the camera of a seat that watches. Liveness is left to TLC.

Paths below are relative to `src/`. Module names are in `code face`, and so are
the names of the source.

## 1. The system

A match is a number of rounds. A round is a **Lull** (every seat reads a frozen
planning snapshot and submits a playbook), a **Push** (the only part that
ticks, twenty times a second of game time, each seat's interpreter running its
sealed playbook), and a **Recap** (what happened may be read). The match is
decided when fewer than two seats are left in a tick, or at the round limit.

Two crates hold the core logic. `crates/sim` is the simulation: the match
runner, a tick engine of twelve phases, and the systems the phases run.
`crates/gateway` hosts one match in one process: connections put jobs in a
queue, one thread owns the *surface* (the match, the seats' stores, the feed,
the clock), answers one job at a time and writes the match folder after each.

```
 seats, spectators, admin            the match folder
   |  frames over a socket              ^ sealed playbooks, hash chains,
   v                                    | save.json, audit.log
 connections --jobs--> serve loop --> Surface --> Runner --> World (12 phases)
                         |  ^            ^          |
          in-process     |  |            |          v
          operators <----+  +-- limiter  +------ event bus --> feed, recap
```

### What it is made of

| Part | State it keeps | Operations | Hard behaviour | What makes it correct |
| --- | --- | --- | --- | --- |
| Match runner (`sim/src/runner.rs`) | phase, round, segment's start and length, coming length, outcome, frozen snapshot | seal, seed layout, begin push, step, phased tick, end recap, capture, restore | a phased tick dropped between two phases; two places that may decide and announce | rounds in order; decided once; seats plan against the board that is played |
| Tick engine (`sim/src/world.rs`) | the tables, the open tick's phase, staged edits | twelve phases, of which Match settles deaths, falls, respawns, the one-tick rule and the segment's end | order inside a tick; several deaths of one thing; a phase that fails half way | nothing is lost or counted twice; a boundary is clean |
| Seat stores and planning (`gateway/src/surface.rs`, `surface/planning.rs`, `serve.rs`) | drafts, seals, advice, continuity per seat | submit, save draft, get safe plan, file, carry, save, restore | stale seals; refused submissions; replays of a Push | what a seat was told is what is played |
| Host clock and limiter (`surface.rs`, `limit.rs`, `time.rs`) | reported time, offset, the tick, each token's counters | report, close phase, admit | no clock is read: time comes from a client; resumes go back in time | never backwards, never faster than a step a call; a token is refused what is over its caps and nothing else |
| Event bus, feed, fog (`sim/src/events.rs`, `feed.rs`, `fog.rs`, `surface.rs`) | the bounded bus, the open feed, the recap's record, the fog policy | emit, drain, note, publish, page | a full bus; filters that move under a cursor | the recap is of its segment; pages tell each line once |
| Match folder (`cache.rs`, `save.rs`, `audit.rs`, `serve.rs`) | sealed playbooks, chains, save, log | flush, close, open, resume | crashes and refusals between and in writes | what was watched is replayed; the files agree |
| Playbook interpreter (`sim/src/interpreter/`) | per seat: step, stage and time left, pins, restart, rule, reflex, damage marker | decide, open push, abandon deploys | death, the reflex, a rule and the tail each drop a visit or a deploy that has been paid for | a deploy is paid once and places one beacon; no step outlives what sent the commander elsewhere |
| Power and brownout (`sim/src/power.rs`) | shed flags, supply and draw columns | settle | shedding, revival and swaps in one settle, each by sums the others have just changed | no deficit that shedding would relieve; lights do not flicker |
| Economy and Ledger (`sim/src/economy.rs`, `mandate.rs`, `world.rs`) | treasury, one cursor a seat for all its bands | gather, order, approve, purchase, charge, refund, settle the recap | requests judged before others are paid; deploys that never finish | urgency decides; turns are taken; money is conserved |
| Tables and ids (`sim/src/tables.rs`, `ids.rs`) | rows, generations, free rows | insert, free, look up | reuse and retirement | an id names one asset ever |
| Router (`sim/src/pathing/router.rs`, `world.rs`) | a walk, a route and an accumulator a unit, the queue's cursor; the graph and what is marked for repair | request, advance, repair, re-arm, serve, restore | terrain that closes under a route; a cap per tick; a restore between an edit and its repair | who is sent arrives; nobody is parked that could walk; nobody starves behind the cap |
| Transport (`gateway/src/net.rs`, `session.rs`, `frame.rs`, `serve.rs`) | sockets, threads and their places, job queue, control pipe | dial, dispatch, upgrade, frame, hand over, answer, stop | a stop behind a full queue; clients that never read; a dozen ways for a connection to end | every job handed over before the stop is answered; places come back; the host ends |
| View feed (`gateway/src/viewfeed.rs`, `surface/watch.rs`) | view id, stamp, modified chunks, what each viewer may see of them and since when | attach, bump, stamp, refresh, page | paging while the world, sights and fog move | nothing is lost between pages; nothing unseen is told |
| Client's rig (`client-gdext/src/rig.rs`) | what it owes the view, the cursor, the listing it is in, the call in flight | poll, receive, refused, dropped, opened | lost answers, unreadable pages, delayed retries | the camera holds what its seat may see |

The repository has more: voxels, map generation, sight, pathing's search,
targeting and combat, encoding and hashing, the rules table, RPC and strings,
briefings and forecasts, the verifier, the plan language, the operator's
heuristics, the command line, the rest of the client extension and its mesher, the wire
format, benches and packaging. `PROJECT.json` lists each with its reason; they
are data, geometry, formats, heuristics or pure functions, whose correctness is
a matter of values rather than of order.

## 2. The modules

| Module | Models | Proved about |
| --- | --- | --- |
| `MatchCycle` | what a match promises its host: phases in order, rounds one by one, a decided match's last recap | |
| `Match` | the runner and the match half of the tick | `MatchProofs` |
| `RoundOrders` | what planning promises the seats: an accepted playbook is what is run, in every replay | |
| `Planning` | a Lull from the seats' side, and the save and resume of the seats' stores | `PlaybookProofs` |
| `HostClock` | the gateway's tick over phases, reports, restarts; the rate limiter that counts in it | `HostProofs` |
| `Feed` | event bus, drain, recap record, fog, pages and cursors | `FeedProofs` |
| `Persistence` | the writes of a flush, the files they leave, crashes and refusals, open and resume | `PersistenceProofs` |
| `Serve` | the threads of a host: dispatcher, connections, job queue, surface thread, control pipe | `HostProofs` |
| `Interpreter` | one seat's decisions: steps, visits, deploys, jumps, handlers, reflex, tail, over deaths and Pushes | `PlaybookProofs` |
| `Power` | a seat's settle: brownout, revival, swap | `PhaseProofs` |
| `Quartermaster` | a seat's spending: the urgency ladder, the turns, approval and purchase | `PhaseProofs` |
| `Router` | the units' walks: requests, the Movement and Pathing phases, repair and re-arming, over deaths, reused rows, edits and restores | `PhaseProofs` |
| `ViewFeed` | the view feed: stamps, what each seat is entitled to, refresh and pages, over ticks, boundaries and resumes | `WatchProofs` |
| `Watch` | the client's rig and camera, composed with `ViewFeed`: one seat that watches | `WatchProofs` |
| `FoldLemmas` | nothing of the system: lemmas about least numbers, recursion over finite data, orders and sums | itself |
| `MC...` | instances for TLC: small definitions that a `.cfg` cannot write | |

Each component of the gateway is one module because the serving loop makes it
so: one thread owns the surface, so a call is one atomic step and the components
meet only in the calls that drive the match. `Serve` is where the threads are,
and shows what the others take for granted: calls reach the surface one by one.
The simulation is sequential, one phase after the other; what a phase of
another module may do between two steps of this one is an action here. Where they do meet, a module keeps the part of
its neighbour it needs: `Planning`, `HostClock` and `Feed` each carry the match
phase, and take from the match only what `MatchCycle` promises (the phases in
order, a recap that may be the last); `Persistence` carries the course of the
match, the sequence of orders its Pushes opened with, from which a
deterministic simulation's every state follows.

The proofs of components that are neighbours share a module, which extends them
both: `PlaybookProofs` is of what a seat plans and what is played of it,
`HostProofs` of the host's clock and its threads, `PhaseProofs` of three phases
of a tick. For that, `Serve`, `Interpreter`, `Power` and `Quartermaster` have
names of their own for what each module has (`ServeSpec`, `RunSpec`,
`PowerSpec`, `SpendSpec`, and so on).

A definition named after a variant ("Variant: ...") just before another is the
form a plausible mistake would take; no run or theorem uses it. It is there to
show, by putting it in the place of the definition that follows it, that the
property it is listed with in `PROJECT.json` can fail.

### Match

`phase`, `round`, `segStarted`, `segLengthMs`, `comingMs` and `outcome` are
`MatchState`; `frozen` is the runner's planning snapshot; `openPhase` is
`World`'s open phase, so that a `phased_tick` dropped between two phases is a
state like any other and the host's calls meet it (`MidTick`). `beacons` are
the living beacon rows of each seat and `edge` is `World.beacon_alive`, the
column the Match phase compares them with; `commander`, `respawnDue` and
`deaths` are the commander columns.

The host's calls are `SealPlaybook`, `SeedLayout`, `BeginPush`, `BeginTick` and
`EndRecap`. The phases are `RunCombat` and `RunVoxels` (any of the living may
die), `VoxelsFails` (a collapse that fails leaves the tick open),
`RunDecision` (deploys finish, beacons are recycled), `RunMatch`, `EndTick`
(the hash, and the freeze once the Push is over), and `RunQuiet` for the seven
phases that touch none of this state. `RunMatch` is the whole of the Match
phase in its order: beacon deaths, eliminations, due respawns, commander
deaths, the one-tick rule, the segment's end.

What is left open rather than computed: which asset kills which, positions,
units other than commanders, structures, money, and the scores of the final
audit (any audited seat may come out ahead, or several share the win).

### Planning

`drafts`, `carried`, `continuity`, `sealed` and `advice` are the seat stores.
The verifier is a pure function of snapshot, seat and playbook, so it is a set
of pairs, `qualifies`, drawn anew with every snapshot. The actions are
`PlanLull` (the in-process operators, asked once a Lull before any job),
`SubmitPlan`, `SaveDraft`, `SaveOverCarried`, `GetSafePlan`, `EndLull` (files a
safe playbook for every seat with no seal of this round, opens the Push,
saves), `AdvancePush`, `EndRecap` (with `open_lull`: carrying and continuity),
`Quit`, `Crash`, `ResumeLull` and `ResumeSealed`. `accepted`, `shown`, `kept`
and `played` are history: what a seat was told, and what its interpreter got.

### HostClock

The gateway reads no clock: a Push is timed by the simulation's tick, the other
phases by what the client reports. `time` is the simulation's tick plus
`lullOffset` (what closed phases spent) plus `phaseElapsed`. The four admin
calls, any other call, a refused call and one whose token the book does not
know are the actions; `WriteSave`, `AppendAudit`, `Crash`, `Quit` and `Resume`
are what the serving loop does around them. Every token of `Tokens` has a
limiter of its own (`limiters`) with its own caps, since the in-process
operators' are not a seat's. All count in the one tick, and only `Admin`'s calls
move it: time goes on for a seat that is used up, and stands still for everyone
while the admin is. `admitted` is history: the calls of each token let through
at each tick.

### Feed

A step emits lines into the bounded bus; the drain counts what was dropped,
notes what the recap needs, and publishes onto the feed of the open segment.
`notes` is the recap's record, `fog` the policy, `sees` what the reader's
sensors reach (any set of places, anew at every tick). One reader of any kind
pages with `StartReading` and `ReadOn`. `truth`, `told`, `gen`, `carried` and
`shifted` are history: what the segment emitted, and what the reader was shown
and its cursor lived through.

### Persistence

`todo` is what is left of a flush, in the order `Writer::flush` writes:
playbooks, chain or save, log. A job is answered when it is taken (`Answered`)
and the next waits until `todo` is empty (`Ready`). `Crash` falls between any
two writes; `CrashInWrite` and `WriteFails` in one, leaving a playbook torn, a
chain empty, or a save as it was (it is renamed into place). `AppendFails` cuts
the audit log anywhere: the next line is then glued to the cut one, and a log
cut before its tick is one no resume reads. `Open` and `Resume` are `run_in`.
Left out: a log cut inside a line's sequence number, which would be glued into
a larger number.

### Serve

`thread` says where each client's connection thread is: reading the upgrade
(`shake`), handing a job over (`opening`, `asking`, `refusing`), waiting for
its answer (`awaitOpen`, `awaitAnswer`), writing what it holds (`greeting`,
`answered`, or its last words in `closing`) or reading frames. `accepting` is the channel from the accept loop, `live` the
dispatcher's counter of places, `jobs` the bounded queue, `surface` the thread
that owns the surface and `main` the one that reads the control pipe. The
actions are the loops' bodies: `Dial`, `Dispatch`, `Shake`, `HandOver` (the
blocking send, which fails once the receiver is gone), `Write`, `Frame`, `Ping`,
`Leave`, `ServeJob` (a stop drops the receiver with every job behind it),
`CloseControl`, `SendStop` and `Exit`. What the bytes of an upgrade or a frame
say is any of the outcomes the reader knows. A thread that panics is not
modelled: it keeps its place.

### Interpreter

`seat` is the seat's `PlanState` and its commander, the columns of its beacons
and its money. One `Decide` is the whole of `decide` in its order: damage
marker, a dead commander, the deaths that end the route, the reflex, the
handlers, then one look at the step of the running body, the route or the
tail. Each function of `exec.rs` is an operator that takes the seat to the
seat; what it reads of the board (which handlers' conditions hold, which beacon
a selector ranks first, what goes wrong) is the input `in`, any. Between two
decisions the world moves: the commander travels (only when it has somewhere to
go), is hurt, mended, dies and returns, beacons are lost, money comes and goes,
the way closes, the segment ends. Clocks count decisions: what is due `k` ticks
from now is due at the decision `ceil(k / decision_ticks)` from now. A
broadcast always fails in this build, and so it does here.

### Power

`standing`, `priority`, `load` and `taps` are what the other phases leave of
the board; `dormant` is the shed flag. `SettleGrid` is `BrownOut`, `Revive` and
`SwapIn`, each walk in the code's order and by the code's keys. `FieldUnit` is
the Quartermaster's unit order; `Refit`, `Commit`, `Place` and `LoseBeacon` are
what the other phases do to the board. Supply counts
one output a vent, however many Generators tap it, so that what waking a beacon
adds is a difference of two sums. The rules table bounds the sums at load, so
that no settle ends half way.

### Quartermaster

`asks` is the request each beacon's mandate offers (any, or none);
`FillRequests` goes down them by band, turn and id, and approves, buys and
charges each in that order against what is left (`Filled`). A purchase may find
no room (`full`) and is then not charged. `seatCursor` is the seat's, one for
all five bands. `overtook` and `lostTurn` are history: whose turn was taken by
whom.

### Router

The map is a few places, each a cluster of its own. `open` is the surface as
the terrain is, `graph` what the last repair made of it, `dirty` what is marked
for the next. A row of the unit table is free, alive, dead or fallen, with its
position and destination; `walk`, `route`, `partial`, `banked` and `cursor` are
the router's columns, the route kept from where the unit stands on. `Advance`
is the Movement phase: it spends what is banked on legal steps, and asks again
when a step is closed or a route stops short. `Path` is the Pathing phase:
repair (`Mended`), re-arming (`Freed`), and the scan of the table from the
cursor (`Served`), with any way the places allow as the route. `Send` and
`Park` are what programs and interpreters ask for, `Fabricate` and `Settle`
what happens to rows, `Edit` what a blast or a work does, `Restore` what a
snapshot's restore does between two ticks. The phases between Movement and
Pathing are one here: what they do to units (kill, field, send) does not depend
on their order. `passed` and `lost` are history: how often a waiting unit was
passed over, and whether a restore has dropped a mark.

### ViewFeed and Watch

A chunk's bytes are the materials of its voxels. `world` is the voxels as they
are, `sensed` the voxels a seat's sensors cover, `unfogged` whose fog has
lifted, `save` what a boundary saved, `feed` the view feed: its stamp `seq`,
`changedAt` and `modified`, and for each viewer the entitled bytes of each
chunk, dated. `Step` is a tick as `after_tick` sees it (bump, then stamp what
was written), `Boundary` the calls that bump and save, `Resume` another process
over the save. `Refreshed` and `Pages` are the two halves of `get_view`; where
a page is cut is a choice. In `Watch`, `keyframe`, `putOff`, `paging`, `cursor`
and `flight` are the rig's, `held` the camera's chunks. `Send`, `Answer` and
`Receive` are one call; `Reopen`, `Refuse` and `ReceiveUnreadable` are the ways
it fails. The rig's other debts (`due.view`, a call budget) decide only when it
asks, and here it may ask at any time. `glimpsed`, `told` and `skipped` are
history.

## 3. What is checked

Deadlock is checked in `power`, `quartermaster` and `router`, whose worlds go
on for ever. Elsewhere a match ends, a host exits, or a run's bounds end it.

**`match`** (`MCMatch.cfg`). Two seats, each with a core and room for
one more beacon, a ladder of 125 ms and 50 ms (three ticks, since a length is
rounded up, and then one), a decision every second tick. Do deaths, respawns,
deploys, recycles, layouts and dropped ticks, in any order, leave the
boundaries clean, and is the match decided once, for the right seat? At every
boundary a commander that owes a respawn is back or booked
(`CommandersComeBack`); placed = standing + lost (`BeaconsAddUp`); a Lull plans
against the board that is played (`FrozenIsThePlannedBoard`). `OutcomeIsEarned`
is the winner, `EveryRecapIsSettledOnce` the Ledger's settlement and the
announcement; `CycleSpec` is the refinement of `MatchCycle`, and
`MatchIsPlayedOut` its liveness. One more beacon row is enough for a row to be
hit, settled and reused; three ticks are enough for a respawn to come due, and
to be still pending at the end. Two seats are the fewest for which a tick may
leave none, one, or enough; the six safety properties are proved for any number.

**`planning_orders`** (`MCPlanning.cfg`). A seat an operator advises and one it
plays, two playbooks, a draft id, a snapshot that may fail what an earlier one
passed, two rounds, quits, crashes and resumes anywhere. Is what a seat was
told what it plays? `ShownSafePlanIsFiled`, `SilentSeatPlaysAFiling`,
`SealedSaveResumes`, `OrdersSpec` (the refinement of `RoundOrders`), and
`OnlyOwnWorkIsCarried` into the next Lull. Two rounds are enough for a seal, an
advice or a carried draft to be stale.

**`host_clock`** (`MCHostClock.cfg`). Two rounds, two milliseconds to a tick so
that a report may end inside one, a step bound of one tick, windows of two ticks,
two restarts anywhere. An admin of three calls a tick and four a window, so
that either cap may bite first, and six in all; a seat of one and one, and four
in all: it is used up by a call, refused, refilled while only the admin calls,
and used up again. Ticks up to eight, as far as those calls can take it.
`TickNeverFallsBack`, `LogNeverFallsBack`, `OneStepAReport`, `CallsAreMetered`.
Two restarts let a resumed process be resumed again from the save it rewrote.

**`feed`** (`MCFeed.cfg`). Three seats, two rounds of two ticks, a bus of four
lines and ticks that may say five, so that any line, the segment's own end
included, may be lost; one restart; a seat or a fogless spectator that pages
through both rounds with its sensors moving and seats falling. What the recap's
record, the feed and the fog's policy say is what happened
(`RecapTellsItsSegment`, `EveryKeptLineIsPublished`, `FogFollowsTheMatch`), and
while nothing behind its cursor changes for it a reader misses and repeats
nothing (`SteadyReaderMissesNothing`, which is also that no cursor of
an earlier round is taken).

**`persistence`** (`MCPersistence.cfg`). Two seats, two playbooks
(interchangeable, hence the symmetry), two rounds, three processes that host
the match in turn, one refused write, up to seven audit lines.
`WatchedPushIsReplayed`, `ReplayInputsAgree`, `SavesGoForward`,
`ViewsAreOnesOwn`. Three processes let the second die in the middle of writing
again what the first wrote; two rounds let a save be a round behind.

**`serve`** (`MCServe.cfg`). Three clients, so that one is over the cap of two
places, a queue of three, one dial and two calls each, the control pipe closed
at any moment. `PlacesAreThreads` is the cap and that every place comes back;
`WaitersAreQueued` that every wait has its job, and that only who came behind
the stop is left without an answer; `StopIsServed` and `NobodyWaitsForever`
that neither the stop, nor a send, nor a wait for an answer hangs for good, even
with a client in either place that never reads.

**`power`** (`MCPower.cfg`). The core and two more beacons at one distance from it (so
that an id decides between them), one vent they may share, loads up to three,
two ranks. `DeficitIsHelpless`: a deficit a settle leaves is one that no further
shedding would relieve. `ShedForOneAbove`: on a grid only the Quartermaster's
unit orders have touched, a beacon goes dark only for one above it. Three
beacons are the fewest for which one is shed for another while a third shares
its vent.

**`quartermaster`** (`MCQuartermaster.cfg`). Three beacons that ask for a unit
or, a band below, for a cheap or a dear structure, any income and headroom.
`LadderHolds`: a request left unpaid is one that its own band and those above
left no money for. `TurnsAreTaken`: within a band that alone is paid for,
nobody is overtaken twice by the same neighbour.

**`interpreter`** (`MCInterpreter.cfg`). Two playbooks: one that
places a beacon, recycles one it visits and holds, with a rule that walks home,
and one that patrols and waits, with a rule that places a beacon and jumps. A
core and room for two more beacons, one death a Push, two Pushes. A handshake
and a deploy are one decision long and a row is two, so that each is under way
when something happens, and a beacon may die between two looks at a row; a row
after the one that recycles lets a visit go on over a beacon that is gone.
`MoneyIsAccountedFor`, `StageFitsTheCommander`, `ReflexIsGoingHome`. Two Pushes let a playbook be
sealed over what the last one left.

**`router`** (`MCRouter.cfg`). A commander and a row for one more unit, a road
of two ends and a gate that closes and opens, one route served a tick, routes
of two nodes (so that the whole road takes two), two ticks a step.
`SealedIsCutOff`: nobody is parked that the graph connects with where it was
sent. `NobodyIsPassedOverTwice`: each of the others is served once, at the
most, while a unit waits. `SentUnitsArrive`: when orders, deaths and the
terrain rest, whoever lives comes to where it was last sent, if there is a way.
Two rows over a cap of one are the fewest for which one is passed over; the
table grows and its rows are reused while the other waits.

**`watch`** (`MCWatch.cfg`). Two chunks, so that a listing may be cut; three
voxels, one a sensor may reach, one beside it in its chunk, one in the far chunk
that is seen only once the fog lifts; two materials; three stamps, so that the
world moves before, between and after the pages; two processes. Does the camera
catch up, and does the feed keep its seat's secrets? `NothingIsLost`: once no
page is waited for, a chunk the camera holds is as its seat may see it, or the
next delta lists it. `DeltasTellWhatWasSeen`: a delta's mere presence never
tells of what was out of sight.

### Where the code and its own words differ

One run checks what a comment of the source says, and finds a behaviour of the
model that breaks it.

| Run | What is said | What happens |
| --- | --- | --- |
| `router_restore` | "It tries again exactly when the graph that refused it has changed" (`router.rs:37`) | `restore_tables` builds the graph anew and begins a new repairer, so the marks of the last tick's edits are gone. The next Pathing phase finds nothing to repair and asks about no sealed unit: one that an edit of that tick has freed stays parked, where the world that was not restored frees it. `tests/pathing.rs:1403` expects that after a restore "the chain continues identically". Orders to where it is already bound do not wake it (`set_unit_destination`). |

Others were met while modelling and have no run of their own:

- `carry_draft_forward` adds the carried draft without looking at `MAX_DRAFTS`
  ("The most drafts one seat may hold at once.", `surface/planning.rs:90`). A
  seat with 32 drafts that submits holds 33 when the next Lull opens, and
  `restore_seats` then refuses every save of the match.
- A page the bridge cannot read owes a keyframe, "no sooner than `KEEPALIVE_US`
  from now" (`rig.rs:895`: "a view with a hole in it cannot be told from a map
  with one, so the seat asks for a keyframe again"). Until then `seat_next` falls
  through to `due.view`, which every advance of a Push sets, and asks for a delta
  from a cursor that has already passed the lost page; the delta completes, and
  `settle` clears `due.keyframe`. The keyframe is never asked for, and the
  chunks of that page stay as they were. The test of it
  (`a_page_the_client_refused_is_asked_for_again_as_a_keyframe`) lets nothing
  happen in between. `NothingIsLost` excepts exactly those chunks (`skipped`);
  without the exception TLC finds it in six steps.
- `send` clears `due.view` for any `get_view`, a further page of an older listing
  included. What the match changed between two pages is then not asked for until
  it moves again; `NothingIsLost` says that it is in the next delta, not when
  that is asked for.
- The tail sends the commander only when its pin changes (`run_fallback`, which
  promises "hold, shadow or patrol, for ever"); a death in the tail drops no
  step and so no pin, and the respawn makes the respawn point the destination.
  The commander stands there for the rest of the Push.
- `run_visit` tests the beacon on every decision and `run_deploy` only when a row
  of it is due ("The beacon a deploy's own settings are being written into can
  die between the deploy and the last row, exactly as the beacon of a visit
  can", `exec.rs:1207`): a deploy pays out the row's time over a dead beacon and
  fails then. `StageFitsTheCommander` says of a deploy only where the commander
  stands.
- A segment whose end is lost to a full bus leaves `segment_failures` to the
  next recap, which tells both segments' (`count_drops`; `surface.rs:477` says
  they are the segment's).
- `page` filters the whole segment by what a viewer may see now, and skips what
  its cursor counted then: lines are repeated or passed over when fog lifts
  (`feed.rs:50` says a cursor counts what was shown).
  `SteadyReaderMissesNothing` says what does hold.
- `flush` drops the result of `append_audit`. If a resumed process's first line
  is refused, the next process mints its views under the same id
  (`viewfeed.rs:238`). `ViewsAreOnesOwn` says what holds while appends succeed.
- `flush` records a sealed save the file system refused, and the Push is played
  all the same. A crash then resumes from an older save, and the ticks that were
  watched are taken back. `WatchedPushIsReplayed` says what holds while saves
  are written.
- `READ_TIMEOUT` is set on every socket, a timeout of writes on none
  (`session.rs:237`). A client that stops reading while it is owed an answer may
  keep its thread in `write_all`, and its place, until the process ends.
- `QUEUE_DEPTH` counts a job per connection, but refused upgrades and sockets
  over the cap leave jobs behind too, so a connection's send may wait for
  others' (`serve.rs` says it never does). It does not wait for good.
- `answer`'s `unwrap_or_else` for a channel that hung up never fires, since the
  door holds a sender of that channel itself; `tests/confinement.rs:1448`
  expects it to. A waiter behind the stop waits for the process to exit.
- `read_handshake`'s refusals of an upgrade too large or not text never reach
  `Door::refused`, which says every refusal is logged.
- `economy.rs:35` promises "round-robin within a band", and
  `tests/economy.rs:2169` that no beacon starves another of its band. The
  cursor is the seat's: a purchase in a lower band in the same tick, or an order
  skipped because it could not be afforded, moves it, and one beacon of a band
  may be served again and again. Without `lostTurn`, TLC finds it.
- Deploying or visiting from in range does not change the destination, so a
  commander that was walking past goes on walking, and the step fails for being
  out of range (refunded), where `exec.rs:1115` speaks of "12 s of standing
  still".
- Greedy shedding may leave a beacon dark that shedding another would have
  kept; one settle is no fixpoint either, up to three are needed to rest.
  `ShedForOneAbove` implies that it does rest.

### Fairness

`Match`, `Serve` and `Router` have a fair specification. The host loop opens a Push when
the Lull is over, steps it to its end and closes the recap, and it always makes
each of these calls again; inside a tick, `step` runs the phases to the end. So
`BeginPush`, `BeginTick`, `EndTick` and `EndRecap` are weakly fair, and so are
the phases together. Nothing is assumed of seats (they may never seal), nor of
`VoxelsFails`, which one tick can do once: running the phase again has nothing
left to fell. `LastTick` is above the ticks any run of the configuration plays.

In `Serve` the steps that need no socket go on: `HandOver` of each connection,
`ServeJob`, `SendStop` and `Exit` are weakly fair. Nothing is assumed of
clients, which need never dial, send a frame or read what they are sent, nor of
the parent, which need never close the pipe. So nothing is assumed of a step
that reads from a socket or writes to one: `Shake`, `Frame`, `Ping`, `Leave`,
`Write`, and `Dispatch`, which writes to a socket over the cap before it goes
on. `write_all` has no timeout and may never return. `NobodyWaitsForever` is
therefore about the two places that are the host's own, the send into the queue
and the wait for an answer, and not about places coming back. The blocking
send is only weakly fair, as nothing in the standard library's channel promises
an order; it suffices because clients' calls are bounded, which is what keeps a
busy neighbour from filling every slot for ever.

In `Router` a Push runs tick after tick and a tick phase after phase, so that
the phase moves on again and again (`WF_phase(GoesOn)`): whatever has happened,
a step of `Tick` that moves it on is there. Nothing is assumed of who sends,
kills or digs; `SentUnitsArrive` speaks of what follows once they rest.

The other modules promise safety only. A client may stop reporting time, reading
or calling at any moment, and a dead process need not be started again. That a
grid comes to rest is stated as safety (`ShedForOneAbove`): the ranks of what is
lit only rise.

## 4. What is proved

### Match

`MatchProofs` proves, for any set of seats, any finite set of beacons, any
ladder and round limit that satisfy `MatchAssumption` (lengths of at least one
tick, at least one round; `MatchSettings` refuses any other):

| Theorem | States |
| --- | --- |
| `Typing` | `Spec => []TypeOK` |
| `EliminationIsForGood` | `Spec => []EliminationIsFinal` |
| `RecapsAreSettledOnce` | `Spec => []EveryRecapIsSettledOnce` |
| `DecisionIsFinal` | `Spec => DecidedMatchStands` |
| `PlansAreSealedOnAStandingBoard` | `Spec => SealedBoardStands` |
| `MatchImplementsCycle` | `Spec => CycleSpec`: the detailed machine implements `MatchCycle` |
| `OutcomesAreEarned` | `Spec => []OutcomeIsEarned` |
| `CommandersReturn` | `Spec => []CommandersComeBack` |
| `BeaconsAreAccountedFor` | `Spec => []BeaconsAddUp` |
| `LullsPlanTheBoard` | `Spec => []FrozenIsThePlannedBoard` |
| `PushesRunTheirLength` | `Spec => PushRunsItsLength` |

`EliminationIsFinal` and `EveryRecapIsSettledOnce` are not inductive. A layout
gives beacons to placed seats, and only the fact that nobody has fallen before
the first tick keeps it from giving one to a fallen seat; the count of
settlements follows the phase, and only the fact that the Match phase runs in a
Push keeps it from counting twice. So the invariant proved is

```
Machine == TickIsInItsPhase         an open tick is in a Push, or past Match and in the recap
        /\ DecisionIsInItsPhase     an outcome only from the recap on, and by the last round
        /\ FallsAreInThePast        who fell, fell at a tick that has been
        /\ EliminationIsFinal /\ EveryRecapIsSettledOnce
```

together with `TypeOK` (`MachineHolds`). Typing is proved first, action by
action, then each conjunct of `Machine` has a step lemma of its own. The two
action properties and the refinement follow from `Machine` at each step. The
lemmas they share say what a conversion returns, what `Kill` and
`SettleCommanders` leave alone (`KillSpares`, `FallenCommandersStayDead`), and
the three ways the Match phase leaves the machine (`MatchOutcomes`).

Each of the other four properties speaks of a boundary, and needs to know what
holds half way through a tick, where a phased tick may have been dropped. So
each has an invariant of its own, on top of `Machine`:

```
Contest    two seats are in, whenever the match goes on past a Match phase (TwoGoOn);
           of the fallen, one seat at least had outlived the others (SomebodyOutlived);
           the outcome, once there is one, is what the tables say (OutcomeFits)
Deathbook  a respawn is pending only for the dead; from the Match phase on, every
           death of a seat still in is booked, and none is left when the Push is over
Census     placed = lost + what edge remembers, at every step; from the Match phase
           on, edge is what stands; before the first tick there are only cores
Schedule   once a segment's last tick is closed, frozen is the board; a Push knows
           its length and has run less than it
```

`edge` is why `BeaconsAddUp` is provable at all: phases place, kill and recycle
beacons one by one, and only the Match phase tells `lost`, by the difference
between `edge` and the board; the sum is kept of `edge`, not of the board.

### Planning

`PlaybookProofs` proves, for any non-empty set of seats, any playbooks, any
family of verifier's reports, any division of the seats into advised, played
and external ones, and any number of rounds (`PlanningAssumption`; a match
without a seat has no orders to keep):

| Theorem | States |
| --- | --- |
| `Typing` | `Spec => []TypeOK` |
| `ShownPlansAreFiled` | `Spec => []ShownSafePlanIsFiled` |
| `SilentSeatsPlayFilings` | `Spec => []SilentSeatPlaysAFiling` |
| `SealedSavesResume` | `Spec => []SealedSaveResumes` |
| `OwnWorkIsCarried` | `Spec => OnlyOwnWorkIsCarried` |
| `ContinuityIsOfThisLull` | `Spec => []ContinuityNamesADraft` |
| `PlanningKeepsItsOrders` | `Spec => OrdersSpec`: the stores implement `RoundOrders` |

None of the invariants is inductive, since each speaks of a Push and depends on
what the Lull before it, or the save a process was resumed from, left in the
stores. The invariant proved (`LullsHold`) says what each of them holds:

```
Lulls == LullStands   in a Lull, a seal is the seat's accepted wish, or of an
                      earlier round; a save is this Lull's or an older Push's;
                      what was shown is what would be filed now
      /\ PushStands   from the seal on, every seal is of this round, filed exactly
                      where no wish was accepted, and is what the save holds
                      and the interpreters run
      /\ SaveStands   the seals of a save are what a resume has to find, and a
                      sealed save's orders are those its Push first opened with
      /\ Planned      the operators have planned no round ahead
```

`SaveStands` is what makes a resume a step like any other: the state it leads
to satisfies `LullStands` or `PushStands` because its save did. The refinement
takes each action to one of `RoundOrders`' (a submission or an advised seat's
planning to `Accept`, the seal to `Open`, a recap's end to `Close`, a quit of a
Lull to `Keep`, the two resumes to `Return` and `Replay`) or to a stutter; the
replay uses that a save is never ahead of the round, and that the orders
played in the round it holds are the plans of its seals.

### HostClock

`HostProofs` proves, for any length of a tick, any Lulls, segments and step
bound, and any tokens with any limits (`HostClockAssumption`):

| Theorem | States |
| --- | --- |
| `TickIsMonotonic` | `Spec => TickNeverFallsBack` |
| `LogIsMonotonic` | `Spec => LogNeverFallsBack` |
| `CountdownIsOfItsLull` | `Spec => []CountdownFitsTheLull` |
| `ReportsAreBounded` | `Spec => OneStepAReport` |
| `TokensAreMetered` | `Spec => []CallsAreMetered` |

`ClockHolds` is the invariant: while a process lives the tick is the sum of its
three parts, the log is not ahead of it, and a line about to be appended is
stamped with it. The resume is the step that needs it: its tick is lifted to the
log's, and only because the log is the end of what was stamped does the first
stamp of the new process not fall behind. `ReportsAreBounded` needs one
conjunct more, that what a phase has spent covers the last report rounded down:
otherwise a report one step further could make up for a stretch that was never
counted. `ClockTyped` gives the types without the bound on ticks, which
belongs to the run: the tick and the log are any natural numbers.

`CallsAreMetered` adds up what each token was admitted over any stretch of
ticks, while its limiter keeps two counters and the tick each began at. `Meter`
ties them: the counters are the sums since the limiter's tick and since its
window's start, nothing has been admitted past that tick, which is not ahead of
the gateway's, and no stretch as long as a window that ends where the present
one began holds more than a window's calls (`Weighed`).

The property has two halves. `NeverTooMany`: a stretch of a window's length and
one tick more meets two windows at the most, since a window is dropped only
when a whole length of it is past; so it holds twice a window's calls, and a
window that restarted a tick early would let a third one in (`AdmittingWeighs`).
`NeverTooFew`: a token that would be refused has had its tick's calls in this
tick, or its window's within the last window's length (`RefusedIsSpent`). That
half is about time others move on: a limiter is counted only at its own token's
calls, and the tick it was left at may be many windows behind. It holds because
what is weighed is `Counted`, and not the counters as they were left. A step of
another token leaves a token's limiter and history as they are, and the tick
only grows, which keeps `Meter` (`StepMeters`). The sums are split and compared
by the lemmas of `FoldLemmas`.

### Router

`PhaseProofs` proves, for any map, bases, table, cap, speed and price
(`RouterAssumption`):

| Theorem | States |
| --- | --- |
| `ParkedHolds` | `Spec => []Parked` |
| `SealsAreTrue` | `Spec => []SealedIsCutOff` |
| `RepairsCatchUp` | `Spec => [](Mended = open)` |
| `NobodyStarves` | `Spec => []NobodyIsPassedOverTwice` |

`SealedIsCutOff` holds a seal against the graph, and the Pathing phase gives a
seal when it finds no way over the graph and the terrain both. The invariant
joins the two: the graph differs from the terrain only where it is marked
(`GraphFits`), so a repair makes it the terrain, whatever edits and restores
came before. A restore keeps that, and loses the asking again; hence `lost`.

`NobodyIsPassedOverTwice` is a bound of the cap's, and the invariant
(`TurnsCount`) is the sum that does not grow: a cap for every time a unit was
passed over, and the rows the scan still goes over before it comes to it, are
together less than a full table. A scan that passes a unit over has served a
full cap of rows ahead of it (`TheCapIsReached` counts them, by the cardinality
of the units with an earlier turn; `PassedOverIsNearer`), so its start moves
that much nearer. Distances are counted round the full table and not round what
it has grown to, since a table that grows between two scans would move a unit
away.

### Power

`PhaseProofs` proves, for any beacons at any distance, vents of any output,
loads, ranks and surcharges (`PowerAssumption`):

| Theorem | States |
| --- | --- |
| `GridsAreTyped` | `PowerSpec => []PowerTypeOK` |
| `OneWalkIsEnough` | `PowerSpec => DeficitIsHelpless` |
| `LightsComeToRest` | `PowerSpec => ShedForOneAbove` |

Both properties rest on what darkness does to relief (`ReliefOnlyShrinks`): the
more is dark, the more vents hang on each beacon that is still lit, so who
relieves nothing when the walk tries it relieves nothing when the walk is over.
A settle therefore leaves the grid at rest, without a deficit or with one that
shedding does not relieve (`Rests`), and each of its parts is held against that:
a brownout brings any grid to rest and leaves one at rest alone
(`BrownOutRests`), a revival either changes nothing or leaves headroom
(`RevivesWithinHeadroom`), and a swap leaves headroom and darkens only what is
below whom it lights (`RelightSwaps`). That whoever a series of swaps has
darkened is below someone it has lit, although who was lit first may have been
darkened for another since, is the invariant of the walk (`Swapped`). From one
settle to the next, a unit order keeps the grid at rest because it is paid out
of the headroom (`UnitsFitTheHeadroom`); so `CalmRests` is inductive. The three
walks are recursive functions over sets of beacons. That they are defined at
all, and that what they do is what each of their steps does, is shown by
induction over the set of beacons tried; that each order has a last is
`OrdersRank`.

### Quartermaster

`PhaseProofs` proves, for any beacons, requests and bounds
(`QuartermasterAssumption`):

| Theorem | States |
| --- | --- |
| `SpendingIsTyped` | `SpendSpec => []SpendTypeOK`: no treasury is in debt |
| `UrgencyDecides` | `SpendSpec => LadderHolds` |
| `TurnsGoAround` | `SpendSpec => TurnsAreTaken` |

What the walk down the requests has done is said without the walk (`Filed`):
what is left is what there was less what was paid for, the cursor is at the last
that was paid, and who was not paid could not be paid of what those before it
had left. `UrgencyDecides` follows since those before a request are of its band
or above. For `TurnsGoAround` the invariant (`TurnsStand`) says that whoever was
paid instead of a beacon is behind it in the order of turns, until the beacon is
paid, asks anew, or sees somebody paid who did not take it from it: the cursor is
where the last was paid, and the order of turns is cut there (`TurnsGoRound`).

### Serve

`HostProofs` proves, for any finite set of clients, any cap, and any number of
dials and calls (`ServeAssumption`):

| Theorem | States |
| --- | --- |
| `HouseHolds` | `ServeSpec => []House` |
| `PlacesAreCounted` | `ServeSpec => []PlacesAreThreads` |
| `WaitersAreAnswered` | `ServeSpec => []WaitersAreQueued` |

Neither property is inductive. A socket that is dispatched had no thread before
only because it is in the accept channel once (`DialledOnce`); an answer reaches
a thread that waits for it, and gives nobody a place, only because the jobs in
the queue are those of waiting threads, one each (`AskersWait`,
`AskersAskOnce`, `WaitersAsked`); a stop leaves nobody behind but latecomers
because whoever stands behind it in the queue came late (`BehindIsLate`). One
lemma (`AsideHouses`) carries every step of a thread that touches no job, one
(`JobJoins`) every job that is queued, one (`JobTaken`) every job that is
served.

### Feed

`FeedProofs` proves, for any seats, bus, lines and length of match
(`FeedAssumption`):

| Theorem | States |
| --- | --- |
| `FogIsEarned` | `Spec => []FogFollowsTheMatch` |
| `ReadersMissNothing` | `Spec => []SteadyReaderMissesNothing` |
| `RecapsTellTheirSegment` | `Spec => []RecapTellsItsSegment` |
| `KeptLinesArePublished` | `Spec => []EveryKeptLineIsPublished` |

The fog: a tick adds its own decision to what the policy said, and a resumed
policy starts undecided, so the invariant adds that a match which plays on is
undecided (`PlayingIsUndecided`).

A reader (`ReadInv`): a cursor counts lines that the filter let through, so what
a page is held against is each line's place among those (`Place`). While nothing
behind the cursor changes for the reader, lines published later take later
places, and a page ends where the next begins (`Told`). A cursor of an earlier
round names an earlier snapshot (`CursorsFit`), and so is not taken.

The record and the feed (`KeepInv`): a drain is of one tick and no line of the
feed is later (`OnTheFeed`), so `publish` refuses none of what the bus kept. And
what a tick says comes in an order, its own lines, the segment's end, the
credits, so that what a full bus drops is the last of it. Either the segment's
end was kept, and the record is open for every credit that was; or it was
lost, every credit with it, and the record stays an older round's, which the
recap does not tell (`Recorded`). The counts of each kind over the bus and the
feed are cardinalities (`Tally`), split at every drain.

### Persistence

`PersistenceProofs` proves, for any number of seats, playbooks, rounds,
processes, crashes and refused writes (`PersistenceAssumption`):

| Theorem | States |
| --- | --- |
| `FolderHolds` | `Spec => []Kept` |
| `WatchedIsReplayed` | `Spec => []WatchedPushIsReplayed` |
| `SaveIsMonotonic` | `Spec => SavesGoForward` |
| `ViewsStayOnesOwn` | `Spec => []ViewsAreOnesOwn` |
| `FolderIsFiled` | `Spec => []Filed`, the inductive invariant of the playbooks and the chains |
| `ReplaysAgree` | `Spec => []ReplayInputsAgree` |

`Kept` ties the save on disk to the writes still to be made: the save begins the
course of the match, and is of its present round only if it was sealed
(`SaveIsBehind`); what is due is of the match as it stands (`SavesDueAreOfNow`);
the log is the last write of a flush, so that when it is taken no save is left
(`AuditIsLast`); and what was watched is in the save, as the Push in hand is, or
is about to be (`WatchedIsSaved`). The last is where the order matters: a tick
is played only when `todo` is empty, which is when the save has been written or
refused. What a refused save takes away is exactly the hypothesis of
`WatchedPushIsReplayed`; `SavesGoForward` needs none.

`ViewsAreOnesOwn` needs an invariant of its own (`Signed`), of the log's numbers.
A resumed process takes the log's last number for its generation and numbers its
first line one past it. That line is in the log before a call is answered,
because a job is taken when `todo` is empty and every flush ends with the log
(`FlushEndsWithLog`, `GenerationIsPassed`); so the next process starts past every
generation a call was answered under (`MintedInThePast`). It all rests on appends
that are whole, which is the property's hypothesis.

`ReplayInputsAgree` is about three files, and `Filed` is the order that ties
them. The playbooks are the first writes of a Push's flush (`SealsComeFirst`),
so a save of a round finds them written (`SavedIsSealed`); a chain is due only in
a Recap, when the flush of its Push, and so its save, is over
(`ChainIsOfTheSave`), and a later save only lengthens the course
(`ChainIsSaved`). A process that resumes a sealed save writes the same playbooks
again, and a crash may tear one: that is the exception the property names, and
only of the save's own round. A refused playbook or save breaks each of these,
which is the hypothesis (`Clean`).

### Interpreter

`PlaybookProofs` proves, for any playbooks, map, prices, interface times,
deaths and Pushes (`InterpreterAssumption`):

| Theorem | States |
| --- | --- |
| `SeatIsSound` | `RunSpec => []SeatHolds` |
| `MoneyIsConserved` | `RunSpec => []MoneyIsAccountedFor` |
| `ReflexLeadsHome` | `RunSpec => []ReflexIsGoingHome` |
| `StepsAreSound` | `RunSpec => []StepsHold`, the inductive invariant of the step under way |
| `StepsFitTheCommander` | `RunSpec => []StageFitsTheCommander` |

A decision is one expression over the seat's record, so the proof follows its
calls: one lemma for each handler says that the seat it returns is of the same
worth and that its reflex is untouched (`Keeps`), given that the stage is not
`Deploying` where the handler overwrites it. Only `Drop`, `BeginDeploy`,
`PlaceBeacon` and `CommitRow` move money, and each moves it between two of the
four places `Worth` adds up. Nothing is assumed of a playbook: it may jump, skip
and name whatever it likes. The reflex needs that a decision which saw the
commander dead ended it, so that a respawn, which sends the commander elsewhere,
never meets one (`Heads`).

`StepsFitTheCommander` follows the same calls with another fact: whatever a pass
leaves running (`Passed`) has its visit's beacon, if it lives, where it is
pinned, has sent the commander where it waits for it, and pays time only in a
visit or a deploy (`OnItsWay`); and each look at a visit or a deploy tests the
place again (`InPlace`). Between decisions only the first half must hold, and
`StepsHold` says why it does: a step that failed, ended, died or was overtaken
is dropped with its visit (`Calm`), no step is left under the reflex, and none
is left by a commander the last decision saw dead, so a respawn meets none.

### Watch

`WatchProofs` proves, of `Watch` composed with `ViewFeed`, for any map, chunks,
materials, seats, stamps and processes (`ViewFeedAssumption`,
`WatcherAssumption`):

| Theorem | States |
| --- | --- |
| `WatchKeepsItsHold` | `Spec => []WatchHolds` |
| `PagingLosesNothing` | `Spec => []NothingIsLost` |
| `DeltasTellNoMore` | `Spec => []DeltasTellWhatWasSeen` |

What is proved is what a cursor promises. One that carries the stamp T says that
every chunk dated up to T is held as the feed had it when it was dated; one in
the middle of a listing from T to T' says so of T', of the chunks before its
index, and of T of the others (`CursorHolds`, and `PagingHolds`, `FlightHolds`
for a page that is waited for or on its way). A look of any seat keeps the
promise since it dates what it changes past every stamp given out (`StampIsLast`,
`ListIsKept`); a cursor of another view's promises nothing, and a new process
has a new view. That the list is what the seat last saw, and that what lies
outside `modified` is as it was generated (`MapIsMarked`), make it the camera's
picture. Refused, unreadable and abandoned pages only ever leave the cursor
where it was, or add to `skipped`.

### The lemmas

The library's induction theorems take the property to be shown as a parameter
that is an operator, and no prover here instantiates one. `FoldLemmas` goes
without: that strict inclusion among finite sets is well founded is a theorem
that takes none, and with `WFMin` it gives a set of sets of beacons, say, one
that holds no other (`SetInduction`), and a set of numbers a least one
(`LeastNat`). A property of every part of a finite set is then shown by the
smallest part that lacks it. From this follow that a recursion which descends
defines a function (`Recursion`, `Iterates`, `WalkDownExists`), that a strict
total order on a finite set has a last (`LastExists`), and what a sum over a
finite set satisfies (`TotalWithout`, `TotalSplits`, `TotalAgrees`,
`TotalGrows`), of the community modules' `MapThenSumSet` by its own definition.

### What only TLC says

Every invariant, action property and refinement of a passing run is proved.
Left to TLC is liveness under fairness, out of this prover's reach:
`MatchIsPlayedOut`, `StopIsServed`, `NobodyWaitsForever` and `SentUnitsArrive`.
So are the bounds that the type invariants of some modules state for TLC alone
(those on ticks in `HostClock`'s `TypeOK`, for one), and the violation that
`router_restore` finds. `Match`, `Planning`, `HostClock`, `Power` and
`Quartermaster` keep properties that are proved and not checked by a run of
their own (`PushRunsItsLength`, `SealedBoardStands`, `ContinuityNamesADraft` and
`CountdownFitsTheLull` among them, and type invariants). No module declares a
recursive operator.

## 5. What is not modelled

The parts not modelled at all are listed with their reasons in `PROJECT.json`.
Left out of the modules above: capture and restore of a world (a save is the
state it restores); the notebook and read-only planning methods; token minting,
revoking and scopes; digests and `wait_for`; the text of every line; the save's
format and stamp; the audit log's cap of 4096 retained lines; the
listener's bind and a thread that panics; what each mandate asks for, and the
recap's settlement (the BMI ladder, the award, credit), which is arithmetic;
how conditions, selectors and rankings of a playbook are computed; briefings of
`DarkLoad` and the events a settle reports; the search for a route, smoothing
and the geometry of clusters (any way over the places is one the search may
find), speeds by kind and the surcharges on threatened ground.

Noted while reading and not a property of any run: after a seat saves over its
carried draft, `derive_continuity` of a resumed match reports on what was saved
while the running match reported on what was carried; the feeds of a round's
opening Lull and of its Push share a snapshot id; the runner's comment of
`NoSurvivor` says there is no winner, while the final audit may name one;
`out_of_deaths` is documented as "more often than" and tests at least as often.

## 6. The plan

Done: `Match` with `MatchCycle`, `Planning` with `RoundOrders`, `HostClock`,
`Serve`, `Feed`, `Persistence`, `Interpreter`, `Router`, `Power`,
`Quartermaster`, and `Watch` with `ViewFeed`, each with its proofs. Left, in
this order:

1. The rest of the type invariants as theorems: `Serve`, `Interpreter`, `Router`,
   `Persistence`, `Feed` and `HostClock`.
2. `Tables`: ids over reuse and retirement.
3. The rig's debts (`due.view`, the call budget), and that the camera catches up
   once the match rests.
4. The recap's settlement, and what a mandate's rows commit when one of them
   fails.

Runs stay one per question; where a new component needs one, the runs that
check what a comment says give way first.

## 7. Running it

In this directory, `tlc -workers 2 -config MCMatch.cfg MCMatch` checks one
run (`PROJECT.json` names each run's module and configuration), and
`tlapm MatchProofs.tla` (and so for the other modules of proofs) checks the proofs.
The modules use the community modules `SequencesExt` and `FiniteSetsExt`, and
the proofs `FiniteSetTheorems`, `FunctionTheorems`, `SequenceTheorems`,
`WellFoundedInduction` and `TLAPS`.
