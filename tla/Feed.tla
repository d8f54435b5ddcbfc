------------------------------- MODULE Feed -------------------------------
(***************************************************************************)
(* How what happens in a match reaches its readers: the simulation's event *)
(* bus (crates/sim/src/events.rs), drained by the surface onto the feed of *)
(* the open segment and into the recap's record (gateway/src/surface.rs:   *)
(* absorb_events, note_for_the_recap, count_drops, begin_segment), and     *)
(* read behind the fog filter (fog.rs) in pages, with a cursor (feed.rs).  *)
(*                                                                         *)
(* One reader is followed, of any kind.  It keeps the cursor of its last   *)
(* page and may come back with it or start again; a call whose cursor is   *)
(* refused changes nothing and is left out, as are the digests (a count of *)
(* what the reader sees) and wait_for, whose cursor is its own.  A line's  *)
(* text is left out; its kind is kept where the gateway looks at it.  A    *)
(* game millisecond is counted in ticks, and a snapshot's id is the pair   *)
(* it is hashed from.                                                      *)
(***************************************************************************)
EXTENDS Integers, Sequences, FiniteSets, SequencesExt

CONSTANTS
  Seats,
  Places,        \* where something may happen
  Readers,       \* the kinds of reader: seats, "nofog", "spectator", "admin"
  Capacity,      \* EVENT_BUS_CAPACITY
  RoundLimit, SegmentTicks, LullTicks,
  TickLines,     \* bound: what a tick may emit beside its ends and its fallen
  Silent,        \* bound: the sets of seats a round's filings may be for
  MaxLimit,      \* bound: the page a reader asks for
  MaxRestarts    \* bound: how often the process dies

ASSUME FeedAssumption ==
  /\ IsFiniteSet(Seats) /\ Cardinality(Seats) >= 2
  /\ Seats \intersect {"nofog", "spectator", "admin"} = {}
  /\ Readers \subseteq Seats \union {"nofog", "spectator", "admin"}
  /\ Capacity \in Nat /\ Capacity >= Cardinality(Seats) + 1
  /\ RoundLimit \in Nat \ {0} /\ SegmentTicks \in Nat \ {0}
  /\ Silent \subseteq SUBSET Seats
  /\ \A lines \in TickLines :
       /\ lines \in Seq({lines[i] : i \in DOMAIN lines})
       /\ \A i \in DOMAIN lines :
            lines[i].kind \notin {"push_started", "segment_ended", "settled"}
  /\ {LullTicks, MaxLimit, MaxRestarts} \subseteq Nat

VARIABLES
  phase, round, tick, segLeft, standing, decided,   \* the match
  bus, dropped,             \* EventBus: waiting lines, drops ever
  feed, snapshot, anchor,   \* the open SegmentFeed and feed_anchor
  busDropped, notes,        \* what the surface keeps for the recap
  fog,                      \* the policy: fog lifted for seats, or for all
  sees,                     \* the places the reader's sensors reach
  sealed,                   \* the match in the save file, if of a sealed Push
  restarts,
  reader, cursor,           \* the reader and the cursor it holds
  told,                     \* lines of this feed it was shown (history)
  gen,                      \* the feeds begun, and this one's round (history)
  carried, shifted,         \* what its cursor lived through (history)
  truth                     \* what this segment emitted (history)

match == <<phase, round, tick, segLeft, standing, decided>>
surface == <<feed, snapshot, anchor, busDropped, notes>>
read == <<reader, cursor, told, carried>>
vars == <<match, bus, dropped, surface, fog, sees, sealed, restarts, read, gen,
          shifted, truth>>

NoRecap  == [round |-> 0]
NoCursor == [snapshot |-> <<0, 0>>]
NoSave   == [round |-> 0]
Nothing  == [recap |-> NoRecap, lost |-> 0, failures |-> 0, dropped |-> 0]

Fewer(i, j) == IF i < j THEN i ELSE j

----------------------------------------------------------------------------
(* The bus.                                                                *)

(* audience_of: everybody, one seat alone, or whoever sees the place.      *)
Public(kind)          == [kind |-> kind, to |-> "public"]
Private(kind, s)      == [kind |-> kind, to |-> "private", owner |-> s]
World(kind, s, place) == [kind |-> kind, to |-> "world", owner |-> s,
                          at |-> place]

At(t, lines) == [i \in DOMAIN lines |-> [line |-> lines[i], tick |-> t]]

(* emit, for each line in turn: a full bus drops and counts the drop.      *)
Emit(lines, t) ==
  LET room == Fewer(Len(lines), Capacity - Len(bus))
  IN [waiting |-> bus \o At(t, SubSeq(lines, 1, room)),
      dropped |-> dropped + Len(lines) - room]

----------------------------------------------------------------------------
(* The drain.                                                              *)

(* note_for_the_recap: a segment's end opens a record, and what it settles *)
(* follows.                                                                *)
Note(n, line) ==
  CASE line.kind = "segment_ended" ->
         [recap |-> [round |-> round, settled |-> 0,
                     failures |-> n.failures, dropped |-> n.dropped],
          lost |-> 0, failures |-> 0, dropped |-> 0]
    [] line.kind = "failed" -> [n EXCEPT !.failures = @ + 1]
    [] line.kind = "settled" -> [n EXCEPT !.recap.settled = @ + 1]
    [] OTHER -> n

(* Line by line, in the order they were emitted in.                        *)
Noted(n, lines) ==
  LET upTo[i \in 0..Len(lines)] ==
        IF i = 0 THEN n ELSE Note(upTo[i - 1], lines[i].line)
  IN  upTo[Len(lines)]

(* Variant: a lost end leaves the record of the segment before it.         *)
CountLeavesRecord(n, lost, ended, now) == [n EXCEPT !.dropped = @ + lost]

(* count_drops, before the drain's lines are read.                         *)
CountDrops(n, lost, ended, now) ==
  IF /\ lost > 0
     /\ ~ended /\ now \in {"recap", "ended"}
     /\ n.recap.round # round
  THEN [n EXCEPT !.recap = NoRecap, !.lost = n.dropped + lost, !.dropped = 0]
  ELSE [n EXCEPT !.dropped = @ + lost]

(* SegmentFeed::publish refuses a line behind the one before it.           *)
InOrder(onto, at) == at >= 0 /\ (onto # <<>> => at >= Last(onto).at)

Publish(onto, from, e) ==
  LET at == e.tick - from
  IN IF InOrder(onto, at) THEN Append(onto, [line |-> e.line, at |-> at])
                          ELSE onto

Published(onto, from, lines) ==
  LET upTo[i \in 0..Len(lines)] ==
        IF i = 0 THEN onto ELSE Publish(upTo[i - 1], from, lines[i])
  IN  upTo[Len(lines)]

(* absorb_events: the drained lines are counted, noted and published.      *)
Absorb(e, onto, from, now) ==
  LET ended == \E i \in DOMAIN e.waiting :
                 e.waiting[i].line.kind = "segment_ended"
      counted == CountDrops(notes, e.dropped - busDropped, ended, now)
  IN /\ bus' = <<>> /\ dropped' = e.dropped /\ busDropped' = e.dropped
     /\ notes' = Noted(counted, e.waiting)
     /\ feed' = Published(onto, from, e.waiting)

(* SnapshotId::of: every caller opens segment 0 of its round.              *)
SnapshotOf(r) == <<r, 0>>

(* Variant: the gateway's tick, which counts the Lulls too.                *)
GatewayTick(t) == t + LullTicks * round

(* begin_segment anchors the feed on the simulation's tick.                *)
Anchored(t) == t

BeginSegment(t) ==
  /\ snapshot' = SnapshotOf(round')
  /\ anchor' = Anchored(t)

----------------------------------------------------------------------------
(* What a reader may be told.                                              *)

(* FogFilter::visible.                                                     *)
Visible(line, policy, reach) ==
  \/ line.to = "public"
  \/ line.to = "private" /\ reader = line.owner
  \/ /\ line.to = "world"
     /\ \/ reader = "nofog"
        \/ reader \in Seats
           /\ (reader = line.owner \/ policy.ended \/ reader \in policy.lifted
                 \/ line.at \in reach)

Shown(lines, policy, reach) ==
  {i \in DOMAIN lines : Visible(lines[i].line, policy, reach)}

(* A line already on the feed appears to the reader, or disappears.        *)
Shifts(lines) == Shown(lines, fog', sees') # Shown(lines, fog, sees)

Init ==
  /\ phase = "lull" /\ round = 1 /\ tick = 0 /\ segLeft = 0
  /\ standing = Seats /\ decided = FALSE
  /\ bus = <<>> /\ dropped = 0
  /\ feed = <<[line |-> Public("match_started"), at |-> 0],
              [line |-> Public("lull_opened"), at |-> 0]>>
  /\ snapshot = SnapshotOf(1) /\ anchor = 0
  /\ busDropped = 0 /\ notes = Nothing
  /\ fog = [lifted |-> {}, ended |-> FALSE]
  /\ sees \in SUBSET Places
  /\ sealed = NoSave /\ restarts = 0
  /\ reader \in Readers
  /\ cursor = NoCursor /\ told = {}
  /\ gen = [n |-> 1, round |-> 1] /\ carried = FALSE /\ shifted = FALSE
  /\ truth = [failed |-> 0, lost |-> 0, settled |-> 0, end |-> FALSE]

----------------------------------------------------------------------------
(* The match, as the surface drives it.                                    *)

(* A feed begun while the reader is away: told starts over with it.        *)
NewFeed == /\ told' = {} /\ shifted' = FALSE /\ gen' = [n |-> gen.n + 1, round |-> round']
           /\ UNCHANGED <<reader, cursor, carried>>

(* seal_and_open_push from the match m: what waits goes to the old feed,   *)
(* the filings and the seals open the new one.                             *)
OpenPush(m, filed) ==
  LET filings == SetToSeq({[line |-> Private("safe_filed", s), at |-> 0] :
                             s \in filed})
      seals == SetToSeq({Private("plan_sealed", s) : s \in Seats})
  IN /\ phase' = "push" /\ round' = m.round /\ tick' = m.tick
     /\ standing' = m.standing /\ segLeft' = SegmentTicks
     /\ decided' = FALSE
     /\ BeginSegment(m.tick)
     /\ feed' = Published(filings, anchor',
                          At(m.tick, seals \o <<Public("push_started")>>))
     /\ bus' = <<>>
     /\ sealed' = m
     /\ truth' = [failed |-> 0, lost |-> 0, settled |-> 0, end |-> FALSE]
     /\ NewFeed

EndLull ==
  /\ phase = "lull"
  /\ \E filed \in Silent :
       OpenPush([round |-> round, tick |-> tick, standing |-> standing], filed)
  /\ UNCHANGED <<dropped, busDropped, notes, fog, sees, restarts>>

(* What a tick that felled these seats says after its own lines (the final *)
(* audit's are public, like the outcome's).                                *)
Ends(fallen, over) ==
  IF over
  THEN <<Public("segment_ended"), Public("recap_opened")>>
         \o SetToSeq({Private("settled", s) : s \in standing \ fallen})
         \o IF decided' THEN <<Public("match_ended")>> ELSE <<>>
  ELSE <<>>

(* end_match and eliminate_the_fallen.                                     *)
Policy == [lifted |-> Seats \ standing', ended |-> fog.ended \/ decided']

(* Surface::step: one tick, its report drained, and the fog's policy.      *)
Step ==
  /\ phase = "push"
  /\ \E lines \in TickLines, fallen \in SUBSET standing :
       LET left == standing \ fallen
           over == segLeft = 1 \/ Cardinality(left) < 2
           said == lines \o SetToSeq({Public("eliminated") : s \in fallen})
                         \o Ends(fallen, over)
           e == Emit(said, tick + 1)
           kept == SubSeq(said, 1, Len(said) - (e.dropped - dropped))
           Count(kind) == Cardinality({i \in DOMAIN kept : kept[i].kind = kind})
       IN /\ standing' = left
          /\ tick' = tick + 1 /\ segLeft' = segLeft - 1
          /\ phase' = IF over THEN "recap" ELSE "push"
          /\ decided' = (over /\ (Cardinality(left) < 2 \/ round = RoundLimit))
          /\ Absorb(e, feed, anchor, phase')
          /\ truth' = [failed  |-> truth.failed + Count("failed"),
                       lost    |-> truth.lost + e.dropped - dropped,
                       settled |-> truth.settled + Count("settled"),
                       end     |-> Count("segment_ended") = 1]
  /\ fog' = Policy
  /\ sees' \in SUBSET Places
  /\ shifted' = (shifted \/ Shifts(feed))
  /\ UNCHANGED <<round, snapshot, anchor, sealed, restarts, read, gen>>

(* end_recap: the next Lull opens, or the match is over.                   *)
EndRecap ==
  /\ phase = "recap"
  /\ phase' = IF decided THEN "ended" ELSE "lull"
  /\ round' = IF decided THEN round ELSE round + 1
  /\ Absorb(Emit(IF decided THEN <<>> ELSE <<Public("lull_opened")>>, tick),
            feed, anchor, phase')
  /\ UNCHANGED <<tick, segLeft, standing, decided, snapshot, anchor, fog, sees,
                 sealed, restarts, read, gen, shifted, truth>>

----------------------------------------------------------------------------
(* The process dies, and a save is resumed.                                *)

(* Variant: the resumed policy is the one a match begins with.             *)
NobodyFallen(left) == {}

FallenIn(left) == Seats \ left

(* A fresh surface over the saved match: no recap, and an empty bus that   *)
(* knows no drop.                                                          *)
Fresh(left) ==
  /\ restarts < MaxRestarts /\ restarts' = restarts + 1
  /\ dropped' = 0 /\ busDropped' = 0
  /\ notes' = Nothing
  /\ fog' = [lifted |-> FallenIn(left), ended |-> FALSE]
  /\ sees' \in SUBSET Places

(* A Lull quit, which saves it, and resumed: its opening waits on the bus  *)
(* again.                                                                  *)
ResumeLull ==
  /\ phase = "lull"
  /\ UNCHANGED match
  /\ Fresh(standing)
  /\ bus' = IF round = 1 THEN <<>> ELSE At(tick, <<Public("lull_opened")>>)
  /\ feed' = <<>> /\ BeginSegment(tick)
  /\ truth' = [failed |-> 0, lost |-> 0, settled |-> 0, end |-> FALSE]
  /\ NewFeed
  /\ sealed' = NoSave

(* The last sealed save resumed: its Push is opened again.                 *)
ResumeSealed ==
  /\ sealed # NoSave
  /\ Fresh(sealed.standing)
  /\ \E filed \in Silent : OpenPush(sealed, filed)

----------------------------------------------------------------------------
(* The reader.                                                             *)

(* Variant: the page is cut before the fog filter runs.                    *)
PageOfAll(start, limit) ==
  [lines |-> {i \in Shown(feed, fog, sees) : i > start /\ i <= start + limit},
   next  |-> Fewer(start + limit, Len(feed))]

(* Which of what the filter lets through a line is.                        *)
Place(i, seen) == Cardinality({j \in seen : j <= i})

(* SegmentFeed::page: the filter first, and then skip and take.            *)
PageFrom(start, limit) ==
  LET seen == Shown(feed, fog, sees)
      page == {i \in seen : Place(i, seen) \in start + 1 .. start + limit}
  IN [lines |-> page,
      next |-> Fewer(start, Cardinality(seen)) + Cardinality(page)]

Read(start, limit) ==
  /\ cursor' = [snapshot |-> snapshot, index |-> PageFrom(start, limit).next,
                gen |-> gen]
  /\ UNCHANGED <<match, bus, dropped, surface, fog, sees, sealed, restarts,
                 reader, gen, truth>>

(* get_segment_feed with no cursor.                                        *)
StartReading(limit) ==
  /\ Read(0, limit)
  /\ told' = PageFrom(0, limit).lines
  /\ carried' = FALSE /\ shifted' = FALSE

(* get_segment_feed with the cursor of the last page.                      *)
ReadOn(limit) ==
  /\ cursor # NoCursor /\ cursor.snapshot = snapshot
  /\ Read(cursor.index, limit)
  /\ told' = told \union PageFrom(cursor.index, limit).lines
  /\ carried' = (carried \/ cursor.gen # gen)
  /\ UNCHANGED shifted

Next ==
  \/ EndLull \/ Step \/ EndRecap
  \/ ResumeLull \/ ResumeSealed
  \/ \E limit \in 0..MaxLimit : StartReading(limit) \/ ReadOn(limit)

Spec == Init /\ [][Next]_vars

----------------------------------------------------------------------------
(* Properties.                                                             *)

TypeOK ==
  /\ phase \in {"lull", "push", "recap", "ended"} /\ round \in 1..RoundLimit
  /\ tick \in Nat /\ segLeft \in 0..SegmentTicks
  /\ standing \subseteq Seats /\ decided \in BOOLEAN
  /\ Len(bus) <= Capacity
  /\ {dropped, busDropped, notes.lost, notes.failures, notes.dropped}
       \subseteq Nat
  /\ notes.recap = NoRecap
       \/ notes.recap \in [round : 1..RoundLimit, settled : Nat,
                           failures : Nat, dropped : Nat]
  /\ \A i \in DOMAIN feed : feed[i].at \in 0..SegmentTicks
  /\ fog \in [lifted : SUBSET Seats, ended : BOOLEAN] /\ sees \subseteq Places
  /\ reader \in Readers /\ told \subseteq DOMAIN feed

(* From a segment's end to the next one's, the recap tells that segment:   *)
(* every credit after it, the number of lines the bus lost of it and no    *)
(* fewer failed steps than were heard of; or, its end being among the lost *)
(* lines, it says that its record is (count_drops: "the recap refuses      *)
(* rather than tell the segment before it").                               *)
RecapTellsItsSegment ==
  phase \in {"recap", "ended"} =>
    IF truth.end
    THEN /\ notes.lost = 0
         /\ notes.recap.round = round /\ notes.recap.settled = truth.settled
         /\ notes.recap.dropped = truth.lost
         /\ notes.recap.failures >= truth.failed
    ELSE notes.recap = NoRecap /\ notes.lost = truth.lost

(* What the bus kept is on the feed: publish refuses no line of a drain    *)
(* for its time (absorb_events would fail the tick, and lose the rest).    *)
EveryKeptLineIsPublished ==
  phase \in {"recap", "ended"} =>
    LET OnFeed(kind) ==
          Cardinality({i \in DOMAIN feed : feed[i].line.kind = kind})
    IN /\ OnFeed("push_started") = 1
       /\ OnFeed("failed") = truth.failed
       /\ OnFeed("settled") = truth.settled

(* A cursor the open feed takes is one of its own round, and a reader to   *)
(* whom nothing behind it has appeared or disappeared has been told every  *)
(* line before it that it may see, once, and no other (feed.rs, "Cursors").*)
SteadyReaderMissesNothing ==
  cursor # NoCursor /\ cursor.snapshot = snapshot =>
    /\ cursor.gen.round = gen.round
    /\ cursor.gen = gen /\ ~carried /\ ~shifted =>
         LET seen == Shown(feed, fog, sees)
         IN  /\ cursor.index <= Cardinality(seen)
             /\ told = {i \in seen : Place(i, seen) <= cursor.index}

(* The fog is lifted for the fallen and, the match decided, for all; for   *)
(* nobody else, whatever was resumed in between (fog.rs: "unlocked on      *)
(* elimination and at match end").                                         *)
FogFollowsTheMatch ==
  fog.lifted = Seats \ standing /\ fog.ended = decided
=============================================================================
