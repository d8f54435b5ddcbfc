----------------------------- MODULE WatchProofs -----------------------------
(***************************************************************************)
(* What the view feed promises a seat that watches through it, for every   *)
(* map, any chunks and seats, any page and any number of failures and      *)
(* restarts: that its pages lose nothing, and that its deltas tell nothing *)
(* the seat has not seen.                                                  *)
(*                                                                         *)
(* Both rest on what a cursor promises.  One that carries the stamp T says *)
(* that whatever is dated up to T is held as the feed had it; a listing    *)
(* from T to T' says so of T', of the chunks before its index.  A look     *)
(* keeps the promise because it dates what it changes past every stamp     *)
(* given out, and what a cursor of an older view promises is nothing.      *)
(***************************************************************************)
EXTENDS Watch, FoldLemmas

(* What a map, a list, a feed and a watcher's cursor are.                   *)
Maps == [Voxels -> Materials]
ByteSet == {Bytes(map, c) : map \in Maps, c \in Chunks}
Lists == UNION {[D -> [bytes : ByteSet, at : Nat]] : D \in SUBSET Chunks}
Sightings == [unfogged : BOOLEAN, key : SUBSET Voxels]
Viewers == [entitled : Lists, refreshedAt : Nat, sight : Sightings]
Feeds == [view : Nat \ {0}, seq : Nat \ {0}, generated : {Ground},
          changedAt : [Chunks -> Nat], modified : SUBSET Chunks,
          viewers : [Seats -> Viewers]]

WatchTyped ==
  /\ world \in Maps /\ sensed \in [Seats -> SUBSET Voxels]
  /\ save \in [world : Maps, sensed : [Seats -> SUBSET Voxels],
               unfogged : SUBSET Seats, modified : SUBSET Chunks]
  /\ unfogged \in SUBSET Seats
  /\ feed \in Feeds

(* Every voxel that is not as it was generated is in a chunk that is marked*)
Marked(map, chunks) == \A v \in Voxels : map[v] # Ground[v] => ChunkOf[v] \in chunks

MapIsMarked == Marked(world, feed.modified) /\ Marked(save.world, save.modified)

Seat == feed.viewers[Watcher]
List == Seat.entitled

(* What the seat sees of a chunk under a sight.                            *)
SeenUnder(sight, c) ==
  Bytes([v \in Voxels |-> IF sight.unfogged \/ v \in sight.key
                          THEN world[v] ELSE Ground[v]], c)

(* The feed's stamp is past every other.                                   *)
StampIsLast ==
  /\ Seat.refreshedAt <= feed.seq
  /\ \A c \in Chunks : feed.changedAt[c] <= feed.seq
  /\ \A c \in DOMAIN List : List[c].at <= Seat.refreshedAt

(* The seat's list is of the chunks that were marked when it last looked,  *)
(* and of a chunk not marked since it holds what the seat saw then.        *)
ListIsKept ==
  /\ DOMAIN List \subseteq feed.modified
  /\ Seat.refreshedAt = 0 => DOMAIN List = {}
  /\ \A c \in feed.modified \ DOMAIN List :
       Seat.refreshedAt # 0 => feed.changedAt[c] > Seat.refreshedAt
  /\ \A c \in DOMAIN List :
       feed.changedAt[c] <= Seat.refreshedAt => List[c].bytes = SeenUnder(Seat.sight, c)

FeedHolds == WatchTyped /\ MapIsMarked /\ StampIsLast /\ ListIsKept

(* Whatever differs from the generated map was glimpsed.                   *)
GlimpsesAreKept ==
  /\ told \subseteq glimpsed
  /\ \A c \in DOMAIN List :
       List[c].at > 0 \/ List[c].bytes # Bytes(Ground, c) => c \in glimpsed

(* In a feed, what is held of a chunk is what it has for the seat, or the  *)
(* chunk is dated past a stamp.                                            *)
Known(f, bytes, c, stamp) ==
  LET entitled == f.viewers[Watcher].entitled IN
  \/ bytes = BytesFor(f, Watcher, c)
  \/ c \in DOMAIN entitled /\ entitled[c].at > stamp

Cursors == [view : Nat, from : Nat, to : Nat, index : Chunks]

Current(q) == q.view = feed.view

CursorHolds ==
  /\ cursor \in Cursors /\ cursor.index = 0
  /\ cursor.view <= feed.view /\ (cursor.view = 0 => cursor.from = 0)
  /\ Current(cursor) =>
       /\ cursor.from <= Seat.refreshedAt
       /\ cursor.from # 0 =>
            \A c \in Chunks \ skipped : Known(feed, held[c], c, cursor.from)
  /\ ~keyframe => Current(cursor)

(* Of a listing begun at the stamp T, everything before the index is known *)
(* as of T.                                                                *)
ListingHolds(q) ==
  /\ q \in Cursors /\ Current(q) /\ q.index # 0
  /\ q.to # 0 /\ q.to <= Seat.refreshedAt
  /\ Current(cursor) => cursor.from <= q.to
  /\ q.from # 0 => Current(cursor) /\ q.from = cursor.from

PagingHolds ==
  paging = NoCursor \/
    /\ ListingHolds(paging)
    /\ \A c \in Chunks \ skipped : c < paging.index => Known(feed, held[c], c, paging.to)

After(page, c) == IF c \in DOMAIN page.chunks THEN page.chunks[c] ELSE held[c]

PageHolds(page) ==
  /\ DOMAIN page.chunks \subseteq Chunks
  /\ page.complete \in BOOLEAN
  /\ IF page.complete
     THEN /\ page.next \in Cursors /\ Current(page.next) /\ page.next.index = 0
          /\ page.next.to = page.next.from
          /\ page.next.to # 0 /\ page.next.to <= Seat.refreshedAt
          /\ Current(cursor) => cursor.from <= page.next.to
     ELSE ListingHolds(page.next)
  /\ \A c \in Chunks :
       /\ page.complete \/ c < page.next.index
       /\ c \in DOMAIN page.chunks \/ c \notin skipped
       => Known(feed, After(page, c), c, page.next.to)
  /\ \A c \in DOMAIN page.chunks : page.complete \/ c < page.next.index

FlightHolds ==
  \/ flight = Idle
  \/ flight.state = "asked"
       /\ flight = [state |-> "asked", cursor |-> flight.cursor]
       /\ flight.cursor \in IF paging = NoCursor THEN {NoCursor, cursor} ELSE {paging}
  \/ flight.state = "answered" /\ PageHolds(flight.page)

RigHolds == CursorHolds /\ PagingHolds /\ FlightHolds

WatchHolds == FeedHolds /\ GlimpsesAreKept /\ RigHolds

----------------------------------------------------------------------------
(* Chunks are numbered.                                                    *)
LEMMA ChunksAreNumbers == Chunks \subseteq Nat
BY ViewFeedAssumption DEF Chunks

(* What a seat sees of a chunk is the bytes of some map.                   *)
LEMMA SeenIsBytes ==
  ASSUME WatchTyped, NEW sight, NEW c \in Chunks
  PROVE  SeenUnder(sight, c) \in ByteSet
<1> DEFINE map == [v \in Voxels |-> IF sight.unfogged \/ v \in sight.key
                                    THEN world[v] ELSE Ground[v]]
<1>1. map \in Maps
  BY ViewFeedAssumption DEF Maps, WatchTyped
<1> QED
  BY <1>1 DEF SeenUnder, ByteSet

(* The list a look makes is of what the seat's sight shows.                *)
LEMMA EntitledIsSeen ==
  ASSUME WatchTyped, NEW s \in Seats, NEW c \in Chunks
  PROVE  Entitled(s, c) = SeenUnder(Sight(s), c)
<1>1. feed.generated = Ground
  BY DEF WatchTyped, Feeds
<1> QED
  BY <1>1 DEF Entitled, SeenUnder, Sight

(* An unmarked chunk shows as it was generated, whatever is seen.          *)
LEMMA UnmarkedIsGround ==
  ASSUME FeedHolds, NEW sight, NEW c \in Chunks \ feed.modified
  PROVE  SeenUnder(sight, c) = Bytes(Ground, c)
<1>1. \A v \in {u \in Voxels : ChunkOf[u] = c} : world[v] = Ground[v]
  BY DEF FeedHolds, MapIsMarked, Marked
<1> QED
  BY <1>1 DEF SeenUnder, Bytes

(* What a look leaves of the feed, whoever looks.                          *)
LEMMA LookingKeeps ==
  ASSUME WatchTyped, NEW s \in Seats
  PROVE  /\ Refreshed(s) \in Feeds
         /\ Refreshed(s).view = feed.view /\ Refreshed(s).modified = feed.modified
         /\ Refreshed(s).changedAt = feed.changedAt
         /\ feed.seq <= Refreshed(s).seq /\ Refreshed(s).seq # 0
         /\ Moved(s) => feed.seq < Refreshed(s).seq
         /\ \A t \in Seats : t # s => Refreshed(s).viewers[t] = feed.viewers[t]
         /\ Refreshed(s).viewers[s].refreshedAt = Refreshed(s).seq
         /\ Refreshed(s).viewers[s].sight = Sight(s)
         /\ DOMAIN Refreshed(s).viewers[s].entitled
              = DOMAIN feed.viewers[s].entitled \union Outdated(s)
         /\ \A c \in DOMAIN feed.viewers[s].entitled \union Outdated(s) :
              Refreshed(s).viewers[s].entitled[c] =
                IF c \notin Outdated(s) THEN feed.viewers[s].entitled[c]
                ELSE IF c \notin DOMAIN feed.viewers[s].entitled
                THEN [bytes |-> Entitled(s, c),
                      at |-> FirstDate(Entitled(s, c), Bytes(Ground, c), Refreshed(s).seq)]
                ELSE IF feed.viewers[s].entitled[c].bytes = Entitled(s, c)
                THEN feed.viewers[s].entitled[c]
                ELSE [bytes |-> Entitled(s, c), at |-> Refreshed(s).seq]
<1> DEFINE old == feed.viewers[s].entitled
           seq == IF Moved(s) THEN feed.seq + 1 ELSE feed.seq
           Dated(c) ==
             IF c \notin DOMAIN old
             THEN [bytes |-> Entitled(s, c),
                   at |-> FirstDate(Entitled(s, c), Bytes(Ground, c), seq)]
             ELSE IF old[c].bytes = Entitled(s, c) THEN old[c]
             ELSE [bytes |-> Entitled(s, c), at |-> seq]
           entry(c) == IF c \in Outdated(s) THEN Dated(c) ELSE old[c]
           viewer == [entitled |-> [c \in DOMAIN old \union Outdated(s) |-> entry(c)],
                      refreshedAt |-> seq, sight |-> Sight(s)]
           viewers == [feed.viewers EXCEPT ![s] = viewer]
<1>1. feed \in Feeds /\ feed.viewers[s] \in Viewers /\ old \in Lists
  BY DEF WatchTyped, Feeds, Viewers
<1>2. feed.seq \in Nat \ {0} /\ seq \in Nat \ {0} /\ feed.generated = Ground
  BY <1>1 DEF Feeds
<1>3. DOMAIN old \subseteq Chunks /\ Outdated(s) \subseteq Chunks
      /\ \A c \in DOMAIN old : old[c] \in [bytes : ByteSet, at : Nat]
  BY <1>1 DEF Lists, Outdated, Feeds
<1>4. Opened(s) = [feed EXCEPT !.seq = seq]
  BY <1>1, <1>2 DEF Opened, Bump, Feeds
<1>5. /\ Opened(s).viewers = feed.viewers /\ Opened(s).seq = seq
      /\ Opened(s).generated = Ground
  BY <1>1, <1>2, <1>4 DEF Feeds
<1>6. Refreshed(s) = [Opened(s) EXCEPT !.viewers = viewers]
  <2>1. Refreshed(s) =
          [Opened(s) EXCEPT !.viewers[s] =
             [entitled |->
                [c \in DOMAIN Opened(s).viewers[s].entitled \union Outdated(s) |->
                   IF c \in Outdated(s)
                   THEN IF c \notin DOMAIN Opened(s).viewers[s].entitled
                        THEN [bytes |-> Entitled(s, c),
                              at |-> FirstDate(Entitled(s, c),
                                       Bytes(Opened(s).generated, c), Opened(s).seq)]
                        ELSE IF Opened(s).viewers[s].entitled[c].bytes = Entitled(s, c)
                             THEN Opened(s).viewers[s].entitled[c]
                             ELSE [bytes |-> Entitled(s, c), at |-> Opened(s).seq]
                   ELSE Opened(s).viewers[s].entitled[c]],
              refreshedAt |-> Opened(s).seq, sight |-> Sight(s)]]
    BY Zenon DEF Refreshed
  <2> QED
    BY <1>5, <2>1, Zenon
<1>7. \A c \in Chunks : Entitled(s, c) \in ByteSet
  BY SeenIsBytes, EntitledIsSeen
<1>8. \A c \in DOMAIN old \union Outdated(s) : entry(c) \in [bytes : ByteSet, at : Nat]
  BY <1>2, <1>3, <1>7 DEF FirstDate
<1>9. Sight(s) \in Sightings
  BY DEF Sight, Sightings, WatchTyped
<1>10. viewer.entitled \in Lists
  <2> HIDE DEF entry, seq, old
  <2>1. DOMAIN old \union Outdated(s) \in SUBSET Chunks
    BY <1>3
  <2>2. [c \in DOMAIN old \union Outdated(s) |-> entry(c)]
          \in [DOMAIN old \union Outdated(s) -> [bytes : ByteSet, at : Nat]]
    BY <1>8
  <2> QED
    BY <2>1, <2>2 DEF Lists
<1>11. viewer \in Viewers
  <2> HIDE DEF entry, seq, old
  <2> QED
    BY <1>2, <1>9, <1>10 DEF Viewers
<1>12. viewers \in [Seats -> Viewers] /\ viewers[s] = viewer
       /\ \A t \in Seats : t # s => viewers[t] = feed.viewers[t]
  <2> HIDE DEF viewer
  <2> QED
    BY <1>1, <1>11 DEF Feeds
<1>13. Refreshed(s) = [feed EXCEPT !.seq = seq, !.viewers = viewers]
  <2> HIDE DEF viewers, seq
  <2> QED
    BY <1>1, <1>4, <1>6 DEF Feeds
<1>14. Refreshed(s) \in Feeds /\ Refreshed(s).viewers = viewers
  <2> HIDE DEF viewers, seq
  <2> QED
    BY <1>1, <1>2, <1>13, <1>12 DEF Feeds
<1>15. /\ Refreshed(s).seq = seq /\ Refreshed(s).view = feed.view
       /\ Refreshed(s).modified = feed.modified /\ Refreshed(s).changedAt = feed.changedAt
  <2> HIDE DEF viewers, seq
  <2> QED
    BY <1>1, <1>13 DEF Feeds
<1>16. feed.seq <= seq /\ (Moved(s) => feed.seq < seq)
  BY <1>2
<1> HIDE DEF seq, entry, Dated, viewers
<1>17. /\ viewer.refreshedAt = seq /\ viewer.sight = Sight(s)
       /\ DOMAIN viewer.entitled = DOMAIN old \union Outdated(s)
       /\ \A c \in DOMAIN old \union Outdated(s) : viewer.entitled[c] = entry(c)
  OBVIOUS
<1>18. \A c \in DOMAIN old \union Outdated(s) : viewer.entitled[c] = 
                IF c \notin Outdated(s) THEN old[c]
                ELSE IF c \notin DOMAIN old
                THEN [bytes |-> Entitled(s, c),
                      at |-> FirstDate(Entitled(s, c), Bytes(Ground, c), Refreshed(s).seq)]
                ELSE IF old[c].bytes = Entitled(s, c)
                THEN old[c]
                ELSE [bytes |-> Entitled(s, c), at |-> Refreshed(s).seq]
  BY <1>15, <1>17 DEF entry, Dated
<1> HIDE DEF viewer, viewers
<1> QED
  BY <1>2, <1>12, <1>14, <1>15, <1>16, <1>17, <1>18

(* The watching seat's own part of the feed.                               *)
LEMMA SeatIsTyped ==
  ASSUME WatchTyped
  PROVE  /\ Seat \in Viewers /\ Seat.refreshedAt \in Nat
         /\ feed.seq \in Nat \ {0} /\ feed.view \in Nat \ {0}
         /\ feed.modified \subseteq Chunks /\ feed.generated = Ground
         /\ \A c \in Chunks : feed.changedAt[c] \in Nat
         /\ DOMAIN List \subseteq Chunks
         /\ \A c \in DOMAIN List : List[c].at \in Nat
<1>1. feed \in Feeds /\ Seat \in Viewers
  BY WatcherAssumption DEF WatchTyped, Feeds, Seat
<1>2. List \in Lists
  BY <1>1 DEF Viewers, List
<1>3. DOMAIN List \subseteq Chunks /\ \A c \in DOMAIN List : List[c].at \in Nat
  BY <1>2 DEF Lists
<1> QED
  BY <1>1, <1>3 DEF Feeds, Viewers

(* What a look leaves of the watching seat's list: it is of every chunk    *)
(* marked, and each is as the seat may see it.                             *)
LEMMA LookIsUpToDate ==
  ASSUME FeedHolds, NEW R, R = Refreshed(Watcher)
  PROVE  /\ DOMAIN R.viewers[Watcher].entitled = feed.modified
         /\ \A c \in feed.modified :
              R.viewers[Watcher].entitled[c].bytes = Entitled(Watcher, c)
<1> USE WatcherAssumption
<1>1. /\ WatchTyped /\ feed.modified \subseteq Chunks /\ DOMAIN List \subseteq feed.modified
      /\ \A c \in Chunks : feed.changedAt[c] \in Nat
      /\ Seat.refreshedAt \in Nat
  BY SeatIsTyped DEF FeedHolds, ListIsKept
<1>2. /\ DOMAIN R.viewers[Watcher].entitled = DOMAIN List \union Outdated(Watcher)
      /\ \A c \in DOMAIN List \union Outdated(Watcher) :
           R.viewers[Watcher].entitled[c] =
                IF c \notin Outdated(Watcher) THEN List[c]
                ELSE IF c \notin DOMAIN List
                THEN [bytes |-> Entitled(Watcher, c),
                      at |-> FirstDate(Entitled(Watcher, c), Bytes(Ground, c), R.seq)]
                ELSE IF List[c].bytes = Entitled(Watcher, c)
                THEN List[c]
                ELSE [bytes |-> Entitled(Watcher, c), at |-> R.seq]
  BY <1>1, LookingKeeps DEF List, Seat
<1>3. Outdated(Watcher) \subseteq feed.modified
  BY DEF Outdated
<1>4. ASSUME NEW c \in feed.modified \ Outdated(Watcher)
      PROVE  c \in DOMAIN List /\ List[c].bytes = Entitled(Watcher, c)
  <2>1. /\ Seat.sight = Sight(Watcher) /\ Seat.refreshedAt # 0
        /\ ~ (feed.changedAt[c] > Seat.refreshedAt)
    BY <1>4 DEF Outdated, Seat
  <2>2. c \in DOMAIN List
    BY <1>4, <2>1 DEF FeedHolds, ListIsKept
  <2>3. List[c].bytes = SeenUnder(Seat.sight, c)
    BY <1>1, <2>1, <2>2 DEF FeedHolds, ListIsKept
  <2> QED
    BY <1>1, <2>1, <2>2, <2>3, EntitledIsSeen
<1>5. DOMAIN List \union Outdated(Watcher) = feed.modified
  BY <1>1, <1>3, <1>4
<1>6. ASSUME NEW c \in feed.modified
      PROVE  R.viewers[Watcher].entitled[c].bytes = Entitled(Watcher, c)
  <2>1. CASE c \notin Outdated(Watcher)
    BY <1>2, <1>4, <1>5, <2>1
  <2>2. CASE c \in Outdated(Watcher) /\ c \notin DOMAIN List
    <3>1. R.viewers[Watcher].entitled[c] =
            [bytes |-> Entitled(Watcher, c),
             at |-> FirstDate(Entitled(Watcher, c), Bytes(Ground, c), R.seq)]
      BY <1>2, <2>2
    <3> QED
      BY <3>1
  <2>3. CASE c \in Outdated(Watcher) /\ c \in DOMAIN List
    <3>1. \/ List[c].bytes = Entitled(Watcher, c)
             /\ R.viewers[Watcher].entitled[c] = List[c]
          \/ R.viewers[Watcher].entitled[c] = [bytes |-> Entitled(Watcher, c), at |-> R.seq]
      BY <1>2, <2>3
    <3> QED
      BY <3>1
  <2> QED
    BY <2>1, <2>2, <2>3
<1> QED
  BY <1>2, <1>5, <1>6

(* The entries a look leaves: as they were, or new at the feed's stamp,    *)
(* which is past the seat's last look, or first entered as generated.      *)
LEMMA LookDates ==
  ASSUME FeedHolds, NEW R, R = Refreshed(Watcher), NEW c \in feed.modified
  PROVE  LET e == R.viewers[Watcher].entitled[c] IN
         \/ c \in DOMAIN List /\ e = List[c]
         \/ /\ e.at = R.seq
            /\ Seat.refreshedAt # 0 => Seat.refreshedAt < R.seq
            /\ \/ e.bytes # Bytes(Ground, c)
               \/ c \in DOMAIN List /\ List[c].bytes # Bytes(Ground, c)
         \/ c \notin DOMAIN List /\ e = [bytes |-> Bytes(Ground, c), at |-> 0]
<1> USE WatcherAssumption
<1>1. /\ WatchTyped /\ feed.modified \subseteq Chunks /\ DOMAIN List \subseteq feed.modified
      /\ \A d \in Chunks : feed.changedAt[d] \in Nat /\ feed.changedAt[d] <= feed.seq
      /\ Seat.refreshedAt \in Nat /\ feed.seq \in Nat /\ Seat.refreshedAt <= feed.seq
  BY SeatIsTyped DEF FeedHolds, ListIsKept, StampIsLast
<1>2. DOMAIN List \union Outdated(Watcher) = feed.modified
  BY <1>1, LookingKeeps, LookIsUpToDate DEF List, Seat
<1>3. R.viewers[Watcher].entitled[c] =
                IF c \notin Outdated(Watcher) THEN List[c]
                ELSE IF c \notin DOMAIN List
                THEN [bytes |-> Entitled(Watcher, c),
                      at |-> FirstDate(Entitled(Watcher, c), Bytes(Ground, c), R.seq)]
                ELSE IF List[c].bytes = Entitled(Watcher, c)
                THEN List[c]
                ELSE [bytes |-> Entitled(Watcher, c), at |-> R.seq]
  BY <1>1, <1>2, LookingKeeps DEF List, Seat
<1>4. R.seq \in Nat /\ feed.seq <= R.seq /\ (Moved(Watcher) => feed.seq < R.seq)
  BY <1>1, LookingKeeps DEF Feeds
<1>5. ASSUME c \in Outdated(Watcher), Seat.refreshedAt # 0 PROVE Seat.refreshedAt < R.seq
  <2>1. \/ Moved(Watcher)
        \/ feed.changedAt[c] > Seat.refreshedAt
    BY <1>5 DEF Outdated, Moved, Seat
  <2> QED
    BY <1>1, <1>4, <2>1
<1>6. CASE c \notin Outdated(Watcher)
  BY <1>2, <1>3, <1>6
<1>7. CASE c \in Outdated(Watcher) /\ c \notin DOMAIN List
  BY <1>3, <1>5, <1>7 DEF FirstDate
<1>8. CASE c \in Outdated(Watcher) /\ c \in DOMAIN List
  BY <1>3, <1>5, <1>8
<1> QED
  BY <1>6, <1>7, <1>8

(* What the feed sends of a chunk after a look is what the seat may see.   *)
LEMMA LookTellsTheWorld ==
  ASSUME FeedHolds, NEW R, R = Refreshed(Watcher), NEW c \in Chunks
  PROVE  BytesFor(R, Watcher, c) = Entitled(Watcher, c)
<1> USE WatcherAssumption
<1>1. CASE c \in feed.modified
  BY <1>1, LookIsUpToDate DEF BytesFor
<1>2. CASE c \notin feed.modified
  <2>1. Entitled(Watcher, c) = Bytes(Ground, c)
    BY <1>2, EntitledIsSeen, UnmarkedIsGround DEF FeedHolds
  <2>2. R.generated = Ground
    BY LookingKeeps DEF FeedHolds, Feeds
  <2> QED
    BY <1>2, <2>1, <2>2, LookIsUpToDate DEF BytesFor
<1> QED
  BY <1>1, <1>2

(* What was known of a chunk stays known through a look.                   *)
LEMMA LookKeepsKnown ==
  ASSUME FeedHolds, NEW R, R = Refreshed(Watcher), NEW c \in Chunks, NEW bytes,
         NEW stamp \in Nat, stamp # 0, stamp <= Seat.refreshedAt,
         Known(feed, bytes, c, stamp)
  PROVE  Known(R, bytes, c, stamp)
<1> USE WatcherAssumption
<1>1. /\ WatchTyped /\ DOMAIN List \subseteq feed.modified
      /\ Seat.refreshedAt \in Nat /\ feed.generated = Ground
  BY SeatIsTyped DEF FeedHolds, ListIsKept
<1>2. R.generated = Ground /\ R.seq \in Nat
  BY <1>1, LookingKeeps DEF Feeds
<1>3. DOMAIN R.viewers[Watcher].entitled = feed.modified
  BY LookIsUpToDate
<1>4. CASE c \notin feed.modified
  BY <1>1, <1>2, <1>3, <1>4 DEF Known, BytesFor, List, Seat
<1>5. CASE c \in feed.modified
  <2>1. CASE c \in DOMAIN List /\ R.viewers[Watcher].entitled[c] = List[c]
    BY <1>3, <1>5, <2>1 DEF Known, BytesFor, List, Seat
  <2>2. CASE /\ R.viewers[Watcher].entitled[c].at = R.seq
             /\ Seat.refreshedAt # 0 => Seat.refreshedAt < R.seq
    BY <1>1, <1>2, <1>3, <1>5, <2>2 DEF Known
  <2>3. CASE /\ c \notin DOMAIN List
             /\ R.viewers[Watcher].entitled[c] = [bytes |-> Bytes(Ground, c), at |-> 0]
    BY <1>1, <1>3, <1>5, <2>3 DEF Known, BytesFor, List, Seat
  <2> QED
    BY <1>5, <2>1, <2>2, <2>3, LookDates
<1> QED
  BY <1>4, <1>5

(* What a sight shows of a chunk nothing is written in does not change.    *)
LEMMA SeenStays ==
  ASSUME NEW c \in Chunks, NEW sight,
         \A v \in {u \in Voxels : ChunkOf[u] = c} : world'[v] = world[v]
  PROVE  SeenUnder(sight, c)' = SeenUnder(sight, c)
BY DEF SeenUnder, Bytes

(* What becomes of the feed's half when the world and the feed stand.      *)
LEMMA FeedStays ==
  ASSUME FeedHolds, UNCHANGED worldVars, UNCHANGED feed
  PROVE  FeedHolds'
<1>1. WatchTyped' /\ MapIsMarked' /\ StampIsLast'
  BY DEF FeedHolds, WatchTyped, MapIsMarked, StampIsLast, Seat, List, worldVars
<1>2. ListIsKept'
  BY DEF worldVars, FeedHolds, ListIsKept, Seat, List, SeenUnder
<1> QED
  BY <1>1, <1>2 DEF FeedHolds

(* A look, of whichever seat, keeps the feed's half.                       *)
LEMMA LookHolds ==
  ASSUME FeedHolds, NEW s \in Seats, feed' = Refreshed(s), UNCHANGED worldVars
  PROVE  FeedHolds'
<1> USE WatcherAssumption
<1>1. /\ WatchTyped /\ feed.modified \subseteq Chunks /\ DOMAIN List \subseteq feed.modified
      /\ \A c \in Chunks : feed.changedAt[c] \in Nat /\ feed.changedAt[c] <= feed.seq
      /\ \A c \in DOMAIN List : List[c].at \in Nat /\ List[c].at <= Seat.refreshedAt
      /\ Seat.refreshedAt \in Nat /\ feed.seq \in Nat /\ Seat.refreshedAt <= feed.seq
  BY SeatIsTyped DEF FeedHolds, ListIsKept, StampIsLast
<1>2. /\ feed' \in Feeds /\ feed'.modified = feed.modified
      /\ feed'.changedAt = feed.changedAt /\ feed'.seq # 0
      /\ feed'.seq \in Nat /\ feed.seq <= feed'.seq
  BY <1>1, LookingKeeps DEF Feeds
<1>3. UNCHANGED <<world, sensed, save, unfogged>>
  BY DEF worldVars
<1>4. WatchTyped'
  BY <1>1, <1>2, <1>3 DEF WatchTyped
<1>5. MapIsMarked'
  BY <1>2, <1>3 DEF FeedHolds, MapIsMarked
<1>6. CASE s # Watcher
  <2>1. feed'.viewers[Watcher] = feed.viewers[Watcher]
    BY <1>1, <1>6, LookingKeeps
  <2>2. StampIsLast'
    BY <1>1, <1>2, <2>1 DEF StampIsLast, Seat, List
  <2>3. ListIsKept'
    BY <1>1, <1>2, <1>3, <2>1 DEF FeedHolds, ListIsKept, Seat, List, SeenUnder
  <2> QED
    BY <1>4, <1>5, <2>2, <2>3 DEF FeedHolds
<1>7. CASE s = Watcher
  <2>1. /\ DOMAIN List' = feed.modified
        /\ \A c \in feed.modified : List'[c].bytes = Entitled(Watcher, c)
    BY <1>7, LookIsUpToDate DEF List, Seat
  <2>2. Seat'.refreshedAt = feed'.seq /\ Seat'.sight = Sight(Watcher)
    BY <1>1, <1>7, LookingKeeps DEF Seat
  <2>3. ASSUME NEW c \in feed.modified PROVE List'[c].at <= feed'.seq
    <3>1. CASE c \in DOMAIN List /\ List'[c] = List[c]
      BY <1>1, <1>2, <3>1
    <3>2. CASE List'[c].at \in {feed'.seq, 0}
      BY <1>2, <3>2
    <3>3. \/ c \in DOMAIN List /\ List'[c] = List[c]
          \/ List'[c].at = feed'.seq
          \/ List'[c] = [bytes |-> Bytes(Ground, c), at |-> 0]
      BY <1>7, LookDates DEF List, Seat
    <3> QED
      BY <3>1, <3>2, <3>3
  <2>4. StampIsLast'
    BY <1>1, <1>2, <2>1, <2>2, <2>3 DEF StampIsLast
  <2>5. \A c \in feed.modified : List'[c].bytes = SeenUnder(Seat'.sight, c)
    BY <1>1, <2>1, <2>2, EntitledIsSeen
  <2>6. \A c \in Chunks : SeenUnder(Seat.sight, c)' = SeenUnder(Seat'.sight, c)
    BY <1>3 DEF SeenUnder
  <2>7. ListIsKept'
    BY <1>1, <1>2, <2>1, <2>2, <2>5, <2>6 DEF ListIsKept
  <2> QED
    BY <1>4, <1>5, <2>4, <2>7 DEF FeedHolds
<1> QED
  BY <1>6, <1>7

(* A tick writes a voxel and marks its chunk at a stamp of its own.        *)
LEMMA StepHolds ==
  ASSUME FeedHolds, Step
  PROVE  /\ FeedHolds' /\ feed'.viewers = feed.viewers
         /\ feed'.view = feed.view /\ feed'.generated = feed.generated
<1> USE WatcherAssumption
<1>1. /\ WatchTyped /\ feed \in Feeds
      /\ feed.modified \subseteq Chunks /\ DOMAIN List \subseteq feed.modified
      /\ \A c \in Chunks : feed.changedAt[c] \in Nat /\ feed.changedAt[c] <= feed.seq
      /\ \A c \in DOMAIN List : List[c].at \in Nat /\ List[c].at <= Seat.refreshedAt
      /\ Seat.refreshedAt \in Nat /\ feed.seq \in Nat /\ Seat.refreshedAt <= feed.seq
  BY SeatIsTyped DEF FeedHolds, ListIsKept, StampIsLast, WatchTyped
<1>2. PICK v \in Voxels, m \in Materials :
        /\ world' = [world EXCEPT ![v] = m]
        /\ feed' = Stamp(Bump(feed), IF world[v] = m THEN {} ELSE {ChunkOf[v]})
  BY DEF Step
<1> DEFINE S == IF world[v] = m THEN {} ELSE {ChunkOf[v]}
<1>3. S \subseteq Chunks
  BY ViewFeedAssumption
<1>4. /\ feed'.seq = feed.seq + 1 /\ feed'.view = feed.view
      /\ feed'.generated = feed.generated /\ feed'.viewers = feed.viewers
      /\ feed'.modified = feed.modified \union S
      /\ \A c \in Chunks : feed'.changedAt[c] = IF c \in S THEN feed.seq + 1
                                                ELSE feed.changedAt[c]
      /\ feed' \in Feeds
  <2> HIDE DEF S
  <2>1. feed' = Stamp(Bump(feed), S)
    BY <1>2 DEF S
  <2>2. Bump(feed) \in Feeds /\ Bump(feed) = [feed EXCEPT !.seq = feed.seq + 1]
    BY <1>1 DEF Bump, Feeds
  <2>3. Bump(feed).seq = feed.seq + 1 /\ Bump(feed).view = feed.view
        /\ Bump(feed).generated = feed.generated /\ Bump(feed).viewers = feed.viewers
        /\ Bump(feed).modified = feed.modified /\ Bump(feed).changedAt = feed.changedAt
    BY <1>1, <2>2 DEF Feeds
  <2> DEFINE dates == [c \in Chunks |-> IF c \in S THEN feed.seq + 1 ELSE feed.changedAt[c]]
  <2>4. dates \in [Chunks -> Nat]
    BY <1>1
  <2>5. feed' = [Bump(feed) EXCEPT !.changedAt = dates, !.modified = feed.modified \union S]
    BY <2>1, <2>2, <2>3 DEF Stamp, Feeds
  <2>6. \A c \in Chunks : dates[c] = IF c \in S THEN feed.seq + 1 ELSE feed.changedAt[c]
    OBVIOUS
  <2> HIDE DEF dates
  <2> QED
    BY <1>1, <1>3, <2>2, <2>3, <2>4, <2>5, <2>6 DEF Feeds
<1>5. /\ sensed' \in [Seats -> SUBSET Voxels] /\ save' = save
      /\ unfogged' \in SUBSET Seats
      /\ world' \in Maps /\ world'[v] = m
      /\ \A u \in Voxels : u # v => world'[u] = world[u]
  BY <1>1, <1>2, ViewFeedAssumption DEF Step, WatchTyped, Maps
<1>6. WatchTyped'
  BY <1>1, <1>4, <1>5 DEF WatchTyped
<1>7. MapIsMarked'
  <2>1. Marked(world, feed.modified) /\ Marked(save.world, save.modified)
    BY DEF FeedHolds, MapIsMarked
  <2>2. Marked(world', feed'.modified)
    BY <1>2, <1>4, <1>5, <2>1 DEF Marked
  <2> QED
    BY <1>5, <2>1, <2>2 DEF MapIsMarked
<1>8. Seat' = Seat /\ List' = List
  BY <1>4 DEF Seat, List
<1>9. StampIsLast'
  BY <1>1, <1>3, <1>4, <1>8 DEF StampIsLast
<1>10. \A c \in Chunks \ S : SeenUnder(Seat.sight, c)' = SeenUnder(Seat.sight, c)
  BY <1>2, <1>5, <1>8 DEF SeenUnder, Bytes
<1>11. ListIsKept'
  <2> HIDE DEF S
  <2>1. DOMAIN List' \subseteq feed'.modified /\ (Seat'.refreshedAt = 0 => DOMAIN List' = {})
    BY <1>4, <1>8 DEF FeedHolds, ListIsKept
  <2>2. \A c \in feed'.modified \ DOMAIN List' :
          Seat'.refreshedAt # 0 => feed'.changedAt[c] > Seat'.refreshedAt
    BY <1>1, <1>3, <1>4, <1>8 DEF FeedHolds, ListIsKept
  <2>3. \A c \in DOMAIN List' : feed'.changedAt[c] <= Seat'.refreshedAt =>
          c \notin S /\ List'[c].bytes = SeenUnder(Seat.sight, c)
    BY <1>1, <1>3, <1>4, <1>8 DEF FeedHolds, ListIsKept
  <2>4. DOMAIN List' \subseteq Chunks
    BY <1>1, <1>8
  <2> QED
    BY <1>10, <2>1, <2>2, <2>3, <2>4 DEF ListIsKept
<1> QED
  BY <1>4, <1>6, <1>7, <1>9, <1>11 DEF FeedHolds

(* A phase that opens moves the stamp and saves the match.                 *)
LEMMA BoundaryHolds ==
  ASSUME FeedHolds, Boundary
  PROVE  /\ FeedHolds' /\ feed'.viewers = feed.viewers
         /\ feed'.view = feed.view /\ feed'.generated = feed.generated
<1> USE WatcherAssumption
<1>1. /\ WatchTyped /\ feed \in Feeds
      /\ feed.modified \subseteq Chunks /\ DOMAIN List \subseteq feed.modified
      /\ \A c \in Chunks : feed.changedAt[c] \in Nat /\ feed.changedAt[c] <= feed.seq
      /\ Seat.refreshedAt \in Nat /\ feed.seq \in Nat /\ Seat.refreshedAt <= feed.seq
  BY SeatIsTyped DEF FeedHolds, ListIsKept, StampIsLast, WatchTyped
<1>2. /\ feed'.seq = feed.seq + 1 /\ feed'.view = feed.view
      /\ feed'.generated = feed.generated /\ feed'.viewers = feed.viewers
      /\ feed'.modified = feed.modified /\ feed'.changedAt = feed.changedAt
      /\ feed' \in Feeds
  BY <1>1 DEF Boundary, Bump, Feeds
<1>3. Seat' = Seat /\ List' = List /\ world' = world /\ sensed' = sensed
      /\ unfogged' = unfogged
  BY <1>2 DEF Seat, List, Boundary
<1>4. WatchTyped'
  <2>1. save' = [world |-> world, sensed |-> sensed, unfogged |-> unfogged,
                 modified |-> feed.modified]
    BY DEF Boundary
  <2>2. unfogged \in SUBSET Seats
    BY DEF FeedHolds, WatchTyped
  <2> QED
    BY <1>1, <1>2, <1>3, <2>1, <2>2 DEF WatchTyped
<1>5. MapIsMarked'
  <2>1. save'.world = world /\ save'.modified = feed.modified
    BY DEF Boundary
  <2> QED
    BY <1>2, <1>3, <2>1 DEF FeedHolds, MapIsMarked
<1>6. StampIsLast'
  BY <1>1, <1>2, <1>3 DEF FeedHolds, StampIsLast
<1>7. ListIsKept'
  BY <1>1, <1>2, <1>3 DEF FeedHolds, ListIsKept, SeenUnder
<1> QED
  BY <1>2, <1>4, <1>5, <1>6, <1>7 DEF FeedHolds

(* A fresh process has a feed nobody has looked at.                        *)
LEMMA ResumeHolds ==
  ASSUME FeedHolds, Resume
  PROVE  /\ FeedHolds' /\ feed'.view = feed.view + 1
         /\ DOMAIN List' = {} /\ Seat'.refreshedAt = 0
<1> USE WatcherAssumption
<1>1. /\ WatchTyped /\ feed \in Feeds /\ feed.view \in Nat
      /\ save \in [world : Maps, sensed : [Seats -> SUBSET Voxels],
                   unfogged : SUBSET Seats, modified : SUBSET Chunks]
  BY DEF FeedHolds, WatchTyped, Feeds
<1>2. NewViewer \in Viewers /\ DOMAIN NewViewer.entitled = {}
  <2>1. <<>> \in [{} -> [bytes : ByteSet, at : Nat]] /\ DOMAIN <<>> = {}
    OBVIOUS
  <2>2. <<>> \in Lists
    BY <2>1 DEF Lists
  <2> QED
    BY <2>1, <2>2 DEF NewViewer, Viewers, Sightings
<1> DEFINE A == Attached(feed.view + 1, Ground)
<1>3. /\ A \in Feeds /\ A.seq = 1 /\ A.view = feed.view + 1 /\ A.modified = {}
      /\ A.viewers = [s \in Seats |-> NewViewer] /\ A.changedAt = [c \in Chunks |-> 0]
  <2> HIDE DEF NewViewer
  <2> QED
    BY <1>1, <1>2 DEF Attached, Feeds
<1> DEFINE dates == [c \in Chunks |-> IF c \in save.modified THEN 1 ELSE 0]
<1>4. dates \in [Chunks -> Nat] /\ \A c \in Chunks : dates[c] \in {0, 1}
  OBVIOUS
<1>5. Stamp(A, save.modified) = [A EXCEPT !.changedAt = dates, !.modified = save.modified]
  <2> HIDE DEF A
  <2> QED
    BY <1>3 DEF Stamp, Feeds
<1>6. feed' = Bump(Stamp(A, save.modified))
  BY DEF Resume, ResumedFeed
<1> DEFINE B == Stamp(A, save.modified)
<1>7. /\ B \in Feeds /\ B.seq = 1 /\ B.view = feed.view + 1
       /\ B.modified = save.modified /\ B.changedAt = dates
       /\ B.viewers = [s \in Seats |-> NewViewer]
  <2>1. save.modified \in SUBSET Chunks
    BY <1>1
  <2> HIDE DEF A, dates
  <2> QED
    BY <1>3, <1>4, <1>5, <2>1 DEF Feeds
<1>8. /\ feed' \in Feeds /\ feed'.seq = 2 /\ feed'.view = feed.view + 1
      /\ feed'.modified = save.modified /\ feed'.changedAt = dates
      /\ feed'.viewers = [s \in Seats |-> NewViewer]
  <2> HIDE DEF B, A, dates
  <2> QED
    BY <1>6, <1>7 DEF Feeds, Bump, B
<1>9. world' = save.world /\ sensed' = save.sensed /\ save' = save
      /\ unfogged' = save.unfogged
  BY DEF Resume
<1>10. WatchTyped' /\ MapIsMarked'
  BY <1>1, <1>8, <1>9 DEF FeedHolds, WatchTyped, MapIsMarked
<1>11. Seat' = NewViewer /\ DOMAIN List' = {} /\ Seat'.refreshedAt = 0
  BY <1>2, <1>8 DEF Seat, List, NewViewer
<1>12. StampIsLast' /\ ListIsKept'
  <2> HIDE DEF dates
  <2> QED
    BY <1>4, <1>8, <1>11 DEF StampIsLast, ListIsKept
<1> QED
  BY <1>8, <1>10, <1>11, <1>12 DEF FeedHolds

(* A feed begun over the world of a save.                                  *)
LEMMA FeedStarts ==
  ASSUME ViewInit
  PROVE  FeedHolds /\ DOMAIN List = {} /\ feed.view = 1
<1> USE WatcherAssumption
<1>1. NewViewer \in Viewers /\ DOMAIN NewViewer.entitled = {}
  <2>1. <<>> \in [{} -> [bytes : ByteSet, at : Nat]] /\ DOMAIN <<>> = {}
    OBVIOUS
  <2>2. <<>> \in Lists
    BY <2>1 DEF Lists
  <2> QED
    BY <2>1, <2>2 DEF NewViewer, Viewers, Sightings
<1>2. /\ feed \in Feeds /\ feed.seq = 1 /\ feed.view = 1 /\ feed.modified = {}
      /\ feed.viewers = [s \in Seats |-> NewViewer] /\ feed.changedAt = [c \in Chunks |-> 0]
  <2> HIDE DEF NewViewer
  <2> QED
    BY <1>1 DEF Attached, Feeds, ViewInit
<1>3. Seat = NewViewer /\ DOMAIN List = {} /\ Seat.refreshedAt = 0
  BY <1>1, <1>2 DEF Seat, List, NewViewer
<1>4. WatchTyped /\ MapIsMarked
  <2>1. Ground \in Maps /\ sensed \in [Seats -> SUBSET Voxels]
    BY ViewFeedAssumption DEF ViewInit, Maps
  <2> QED
    BY <1>2, <2>1 DEF WatchTyped, ViewInit, MapIsMarked, Marked
<1>5. StampIsLast /\ ListIsKept
  BY <1>2, <1>3 DEF StampIsLast, ListIsKept
<1> QED
  BY <1>2, <1>3, <1>4, <1>5 DEF FeedHolds

(* What a transition of the feed leaves of what the seat knows.            *)
Remembers ==
  /\ feed'.view = feed.view
  /\ Seat.refreshedAt \in Nat /\ Seat'.refreshedAt \in Nat
  /\ Seat.refreshedAt <= Seat'.refreshedAt
  /\ \A c \in Chunks, stamp \in Nat : \A bytes :
       (stamp # 0 /\ stamp <= Seat.refreshedAt /\ Known(feed, bytes, c, stamp))
         => Known(feed', bytes, c, stamp)

(* A look of any seat leaves known what was: what it changes it dates past *)
(* every stamp a cursor may carry.                                         *)
LEMMA LookRemembers ==
  ASSUME FeedHolds, NEW s \in Seats, feed' = Refreshed(s)
  PROVE  Remembers
<1> USE WatcherAssumption
<1>1. /\ WatchTyped /\ Seat.refreshedAt \in Nat /\ feed.seq \in Nat
      /\ Seat.refreshedAt <= feed.seq /\ feed.generated = Ground
  BY SeatIsTyped DEF FeedHolds, StampIsLast
<1>2. /\ feed'.view = feed.view /\ feed'.seq \in Nat /\ feed.seq <= feed'.seq
      /\ feed'.generated = Ground
  BY <1>1, LookingKeeps DEF Feeds
<1>3. CASE s = Watcher
  <2>1. Seat'.refreshedAt = feed'.seq
    BY <1>1, <1>3, LookingKeeps DEF Seat
  <2> QED
    BY <1>1, <1>2, <1>3, <2>1, LookKeepsKnown DEF Remembers
<1>4. CASE s # Watcher
  <2>1. feed'.viewers[Watcher] = feed.viewers[Watcher]
    BY <1>1, <1>4, LookingKeeps
  <2>2. \A c, stamp, bytes : Known(feed, bytes, c, stamp) => Known(feed', bytes, c, stamp)
    BY <1>1, <1>2, <2>1 DEF Known, BytesFor
  <2> QED
    BY <1>1, <1>2, <2>1, <2>2 DEF Remembers, Seat
<1> QED
  BY <1>3, <1>4

(* So does whatever leaves the seats' lists alone.                         *)
LEMMA StampRemembers ==
  ASSUME FeedHolds, feed'.viewers = feed.viewers, feed'.view = feed.view,
         feed'.generated = feed.generated
  PROVE  Remembers
<1>1. Seat.refreshedAt \in Nat
  BY SeatIsTyped DEF FeedHolds
<1>2. \A c, stamp, bytes : Known(feed, bytes, c, stamp) => Known(feed', bytes, c, stamp)
  BY DEF Known, BytesFor
<1> QED
  BY <1>1, <1>2 DEF Remembers, Seat

(* What is held up to a cursor stays known when the feed moves on.         *)
LEMMA CursorStays ==
  ASSUME CursorHolds, Remembers, UNCHANGED <<cursor, keyframe, held, skipped>>
  PROVE  CursorHolds'
<1>1. cursor.from \in Nat /\ Current(cursor)' = Current(cursor)
  BY DEF CursorHolds, Cursors, Current, Remembers
<1>2. ASSUME Current(cursor), cursor.from # 0, NEW c \in Chunks \ skipped
      PROVE  Known(feed', held[c], c, cursor.from)
  <2>1. Known(feed, held[c], c, cursor.from) /\ cursor.from <= Seat.refreshedAt
    BY <1>2 DEF CursorHolds
  <2> QED
    BY <1>1, <1>2, <2>1 DEF Remembers
<1>3. Current(cursor) => cursor.from <= Seat'.refreshedAt
  BY <1>1 DEF CursorHolds, Remembers
<1> QED
  BY <1>1, <1>2, <1>3 DEF CursorHolds, Remembers

(* What a listing has told stays known when the feed moves on.             *)
LEMMA PagingStays ==
  ASSUME PagingHolds, Remembers, UNCHANGED <<cursor, paging, held, skipped>>
  PROVE  PagingHolds'
<1>1. CASE paging = NoCursor
  BY <1>1 DEF PagingHolds
<1>2. CASE ListingHolds(paging)
            /\ \A c \in Chunks \ skipped :
                 c < paging.index => Known(feed, held[c], c, paging.to)
  <2>1. ListingHolds(paging)'
    BY <1>2 DEF ListingHolds, Remembers, Current, Cursors
  <2>2. paging.to \in Nat /\ paging.to # 0 /\ paging.to <= Seat.refreshedAt
    BY <1>2 DEF ListingHolds, Cursors
  <2>3. \A c \in Chunks \ skipped :
          c < paging.index => Known(feed', held[c], c, paging.to)
    BY <1>2, <2>2 DEF Remembers
  <2> QED
    BY <2>1, <2>3 DEF PagingHolds
<1> QED
  BY <1>1, <1>2 DEF PagingHolds

(* What an answer in flight will tell stays known when the feed moves on.  *)
LEMMA PageStays ==
  ASSUME NEW page, PageHolds(page), Remembers, UNCHANGED <<cursor, held, skipped>>
  PROVE  PageHolds(page)'
<1>1. /\ page.next.to \in Nat /\ page.next.to # 0 /\ page.next.to <= Seat.refreshedAt
      /\ page.complete \in BOOLEAN
  BY DEF PageHolds, ListingHolds, Cursors
<1>2. IF page.complete
      THEN /\ page.next \in Cursors /\ Current(page.next)' /\ page.next.index = 0
           /\ page.next.to = page.next.from
           /\ page.next.to # 0 /\ page.next.to <= Seat'.refreshedAt
           /\ Current(cursor)' => cursor.from <= page.next.to
      ELSE ListingHolds(page.next)'
  <2>1. CASE page.complete
    BY <1>1, <2>1 DEF PageHolds, Current, Remembers
  <2>2. CASE ~page.complete
    <3>1. ListingHolds(page.next)
      BY <2>2 DEF PageHolds
    <3>2. ListingHolds(page.next)'
      BY <3>1 DEF ListingHolds, Remembers, Current, Cursors
    <3> QED
      BY <2>2, <3>2
  <2> QED
    BY <2>1, <2>2
<1>3. \A c \in Chunks : After(page, c)' = After(page, c)
  BY DEF After
<1>4. ASSUME NEW c \in Chunks, page.complete \/ c < page.next.index,
             c \in DOMAIN page.chunks \/ c \notin skipped
      PROVE  Known(feed', After(page, c), c, page.next.to)
  <2>1. Known(feed, After(page, c), c, page.next.to)
    BY <1>4 DEF PageHolds
  <2> QED
    BY <1>1, <2>1 DEF Remembers
<1>5. /\ DOMAIN page.chunks \subseteq Chunks
      /\ \A c \in DOMAIN page.chunks : page.complete \/ c < page.next.index
  BY DEF PageHolds
<1> QED
  BY <1>1, <1>2, <1>3, <1>4, <1>5 DEF PageHolds

(* And so does a call in flight, asked or answered.                        *)
LEMMA FlightStays ==
  ASSUME FlightHolds, Remembers, UNCHANGED <<cursor, paging, flight, held, skipped>>
  PROVE  FlightHolds'
<1>1. CASE flight.state = "answered" /\ PageHolds(flight.page)
  <2>1. PageHolds(flight.page)'
    BY <1>1, PageStays
  <2> QED
    BY <1>1, <2>1 DEF FlightHolds
<1>2. CASE flight = Idle
  BY <1>2 DEF FlightHolds, Idle
<1>3. CASE /\ flight.state = "asked" /\ flight = [state |-> "asked", cursor |-> flight.cursor]
           /\ flight.cursor \in IF paging = NoCursor THEN {NoCursor, cursor} ELSE {paging}
  BY <1>3 DEF FlightHolds
<1> QED
  BY <1>1, <1>2, <1>3 DEF FlightHolds

(* So the reader's half outlives whatever the feed does.                   *)
LEMMA RigStays ==
  ASSUME RigHolds, Remembers, UNCHANGED <<rigVars, skipped>>
  PROVE  RigHolds'
BY CursorStays, PagingStays, FlightStays DEF RigHolds, rigVars

(* So does a feed that stands.                                             *)
LEMMA NobodyForgets ==
  ASSUME FeedHolds, UNCHANGED feed
  PROVE  Remembers
BY SeatIsTyped DEF Remembers, FeedHolds, Seat

(* What is asked is the seat's own cursor, the page it is owed, or a       *)
(* keyframe, and is of this view if it is answered.                        *)
LEMMA AskedIsOwn ==
  ASSUME FeedHolds, RigHolds, flight.state = "asked",
         NEW q, q = flight.cursor, q.view \in {NoCursor.view, feed.view}
  PROVE  /\ q \in Cursors
         /\ q.from # 0 => Current(cursor) /\ q.from = cursor.from
         /\ q.index # 0 => q = paging /\ ListingHolds(q)
<1>1. /\ cursor \in Cursors /\ cursor.index = 0 /\ (cursor.view = 0 => cursor.from = 0)
      /\ feed.view # 0
  BY SeatIsTyped DEF RigHolds, CursorHolds, FeedHolds
<1>2. q \in IF paging = NoCursor THEN {NoCursor, cursor} ELSE {paging}
  <2>1. flight # Idle
    BY DEF Idle
  <2> QED
    BY <2>1 DEF RigHolds, FlightHolds
<1>3. NoCursor \in Cursors /\ NoCursor.from = 0 /\ NoCursor.index = 0 /\ NoCursor.view = 0
  BY ViewFeedAssumption DEF NoCursor, Cursors, Chunks
<1>4. CASE q = NoCursor
  BY <1>3, <1>4
<1>5. CASE q = cursor
  <2>1. q.from # 0 => q.view = feed.view
    BY <1>1, <1>3, <1>5
  <2> QED
    BY <1>1, <1>5, <2>1 DEF Current
<1>6. CASE q = paging /\ paging # NoCursor
  <2>1. ListingHolds(q)
    BY <1>6 DEF RigHolds, PagingHolds
  <2> QED
    BY <1>6, <2>1 DEF ListingHolds
<1> QED
  BY <1>2, <1>4, <1>5, <1>6

(* Every page a call may be answered with tells the seat what it may see   *)
(* as of the listing's stamp, before the place it was cut at.              *)
LEMMA PagesHold ==
  ASSUME FeedHolds, RigHolds, FeedHolds', Remembers,
         feed' = Refreshed(Watcher),
         UNCHANGED <<keyframe, paging, cursor, held, skipped>>,
         NEW q \in Cursors, q.view \in {NoCursor.view, feed.view},
         q.from # 0 => Current(cursor) /\ q.from = cursor.from,
         q.index # 0 => q = paging /\ ListingHolds(q),
         NEW page \in Pages(feed', Watcher, q)
  PROVE  PageHolds(page)'
<1> USE WatcherAssumption
<1> DEFINE listing == Listing(feed', Watcher, q)
           T == ToSeq(feed', q)
<1>1. CursorHolds' /\ PagingHolds'
  BY CursorStays, PagingStays DEF RigHolds
<1>2. /\ Seat'.refreshedAt = feed'.seq /\ feed'.seq \in Nat \ {0} /\ feed'.view \in Nat \ {0}
      /\ feed'.view = feed.view
  <2>1. feed' \in Feeds
    BY DEF FeedHolds, WatchTyped
  <2> QED
    BY <2>1, LookingKeeps DEF Seat, FeedHolds, Feeds
<1>3. listing \subseteq Chunks
  BY DEF Listing
<1>4. /\ T \in Nat /\ T # 0 /\ T <= Seat'.refreshedAt
      /\ Current(cursor)' => cursor.from <= T
  <2>1. CASE q.index = 0
    BY <1>1, <1>2, <2>1 DEF ToSeq, CursorHolds
  <2>2. CASE q.index # 0
    <3>1. ListingHolds(q) /\ T = q.to
      BY <2>2 DEF ToSeq
    <3>2. Seat.refreshedAt <= Seat'.refreshedAt /\ Seat.refreshedAt \in Nat
      BY DEF Remembers
    <3> QED
      BY <1>2, <3>1, <3>2 DEF ListingHolds, Current, Cursors
  <2> QED
    BY <2>1, <2>2
<1>5. ASSUME NEW c \in Chunks \ (listing \union skipped)
      PROVE  Known(feed', held[c], c, T)
  <2>0. q.index \in Nat /\ c \in Nat
    BY ChunksAreNumbers DEF Cursors
  <2>1. CASE c < q.index
    <3>1. q.index # 0
      BY <2>0, <2>1
    <3>2. q = paging /\ paging # NoCursor /\ T = q.to
      BY <3>1 DEF NoCursor, ToSeq
    <3> QED
      BY <1>1, <1>5, <2>1, <3>2 DEF PagingHolds
  <2>2. CASE ~(c < q.index)
    <3>1. /\ q.from # 0
          /\ ~ /\ c \in DOMAIN feed'.viewers[Watcher].entitled
               /\ feed'.viewers[Watcher].entitled[c].at > q.from
      BY <1>5, <2>0, <2>2 DEF Listing
    <3>2. Current(cursor)' /\ cursor.from = q.from
      BY <1>2, <3>1 DEF Current
    <3>3. Known(feed', held[c], c, q.from)
      BY <1>1, <1>5, <3>1, <3>2 DEF CursorHolds
    <3> QED
      BY <3>1, <3>3 DEF Known
  <2> QED
    BY <2>1, <2>2
<1>6. \A c \in Chunks : Known(feed', BytesFor(feed', Watcher, c), c, T)
  BY DEF Known
<1>7. CASE page = [chunks |-> [c \in listing |-> BytesFor(feed', Watcher, c)],
                   complete |-> TRUE, next |-> CompleteAt(feed', q)]
  <2>1. page.next = [view |-> feed'.view, from |-> T, to |-> T, index |-> 0]
        /\ page.complete = TRUE
        /\ page.chunks = [c \in listing |-> BytesFor(feed', Watcher, c)]
    BY <1>7 DEF CompleteAt
  <2>2. page.next \in Cursors
    BY <1>2, <1>4, <2>1, ViewFeedAssumption DEF Cursors, Chunks
  <2> HIDE DEF listing, T
  <2>3. ASSUME NEW c \in Chunks, c \in DOMAIN page.chunks \/ c \notin skipped
        PROVE  Known(feed', After(page, c), c, T)
    BY <1>5, <1>6, <2>1, <2>3 DEF After
  <2>4. \A c \in Chunks : After(page, c)' = After(page, c)
    BY DEF After
  <2>5. /\ page.next \in Cursors /\ Current(page.next)' /\ page.next.index = 0
        /\ page.next.to = page.next.from /\ page.next.to = T
        /\ page.next.to # 0 /\ page.next.to <= Seat'.refreshedAt
        /\ Current(cursor)' => cursor.from <= page.next.to
    BY <1>4, <2>1, <2>2 DEF Current
  <2>6. DOMAIN page.chunks \subseteq Chunks /\ page.complete = TRUE
    BY <1>3, <2>1
  <2>7. \A c \in Chunks : (c \in DOMAIN page.chunks \/ c \notin skipped)
          => Known(feed', After(page, c)', c, page.next.to)
    BY <2>3, <2>4, <2>5
  <2> QED
    BY <2>5, <2>6, <2>7 DEF PageHolds
<1>8. ASSUME NEW cut \in {c \in listing : c > Min(listing)},
             page = [chunks |-> [c \in {d \in listing : d < cut} |->
                                   BytesFor(feed', Watcher, c)],
                     complete |-> FALSE,
                     next |-> [view |-> feed'.view, from |-> q.from, to |-> T,
                               index |-> cut]]
      PROVE  PageHolds(page)'
  <2>1. cut \in Chunks /\ cut \in Nat /\ cut # 0
    <3>1. listing \in SUBSET Nat /\ listing # {}
      BY <1>3, ChunksAreNumbers
    <3>2. Min(listing) \in listing
      <4> HIDE DEF listing
      <4>1. \E n \in listing : \A m \in listing : n <= m
        BY <3>1, LeastNat
      <4> QED
        BY <4>1 DEF Min
    <3> QED
      BY <1>3, <3>1, <3>2, <1>8
  <2>2. /\ page.next = [view |-> feed'.view, from |-> q.from, to |-> T, index |-> cut]
        /\ page.complete = FALSE
        /\ page.chunks = [c \in {d \in listing : d < cut} |-> BytesFor(feed', Watcher, c)]
    BY <1>8
  <2> HIDE DEF listing, T
  <2>3. page.next \in Cursors
    BY <1>2, <1>4, <2>1, <2>2 DEF Cursors
  <2>4. ListingHolds(page.next)'
    BY <1>2, <1>4, <2>1, <2>2, <2>3 DEF ListingHolds, Current
  <2>5. ASSUME NEW c \in Chunks, c < page.next.index,
               c \in DOMAIN page.chunks \/ c \notin skipped
        PROVE  Known(feed', After(page, c), c, T)
    <3>1. DOMAIN page.chunks = {d \in listing : d < cut}
          /\ \A d \in {d \in listing : d < cut} : page.chunks[d] = BytesFor(feed', Watcher, d)
      BY <2>2
    <3>2. CASE c \in DOMAIN page.chunks
      BY <1>6, <3>1, <3>2 DEF After
    <3>3. CASE c \notin DOMAIN page.chunks
      BY <1>5, <2>2, <2>5, <3>1, <3>3 DEF After
    <3> QED
      BY <3>2, <3>3
  <2>6. \A c \in Chunks : After(page, c)' = After(page, c)
    BY DEF After
  <2>7. /\ DOMAIN page.chunks \subseteq Chunks /\ page.complete = FALSE
        /\ \A c \in DOMAIN page.chunks : c < page.next.index
        /\ page.next.to = T
    BY <1>3, <2>2
  <2>8. \A c \in Chunks :
          (c < page.next.index /\ (c \in DOMAIN page.chunks \/ c \notin skipped))
          => Known(feed', After(page, c)', c, page.next.to)
    BY <2>5, <2>6, <2>7
  <2> QED
    BY <2>4, <2>7, <2>8 DEF PageHolds
<1> QED
  <2>1. \/ page = [chunks |-> [c \in listing |-> BytesFor(feed', Watcher, c)],
                   complete |-> TRUE, next |-> CompleteAt(feed', q)]
        \/ \E cut \in {c \in listing : c > Min(listing)} :
             page = [chunks |-> [c \in {d \in listing : d < cut} |->
                                   BytesFor(feed', Watcher, c)],
                     complete |-> FALSE,
                     next |-> [view |-> feed'.view, from |-> q.from, to |-> T,
                               index |-> cut]]
    BY Zenon DEF Pages
  <2> QED
    BY <1>7, <1>8, <2>1

(* A look glimpses what it lists as changed.                               *)
LEMMA LookGlimpses ==
  ASSUME FeedHolds, GlimpsesAreKept, NEW s \in Seats, feed' = Refreshed(s),
         UNCHANGED worldVars,
         glimpsed' = glimpsed \union
           {c \in Chunks : Entitled(Watcher, c) # Bytes(Ground, c)}
  PROVE  \A c \in DOMAIN List' :
           List'[c].at > 0 \/ List'[c].bytes # Bytes(Ground, c) => c \in glimpsed'
<1> USE WatcherAssumption
<1>1. WatchTyped /\ feed.modified \subseteq Chunks /\ feed' \in Feeds
  BY SeatIsTyped, LookHolds DEF FeedHolds, WatchTyped
<1>2. CASE s # Watcher
  <2>1. List' = List
    BY <1>1, <1>2, LookingKeeps DEF List, Seat
  <2> QED
    BY <2>1 DEF GlimpsesAreKept
<1>3. CASE s = Watcher
  <2>1. /\ DOMAIN List' = feed.modified
        /\ \A c \in feed.modified : List'[c].bytes = Entitled(Watcher, c)
    BY <1>3, LookIsUpToDate DEF List, Seat
  <2>2. ASSUME NEW c \in feed.modified,
               List'[c].at > 0 \/ List'[c].bytes # Bytes(Ground, c)
        PROVE  c \in glimpsed'
    <3>1. CASE List'[c].bytes # Bytes(Ground, c)
      BY <1>1, <2>1, <3>1
    <3>2. CASE c \in DOMAIN List /\ List'[c] = List[c]
      BY <2>2, <3>2 DEF GlimpsesAreKept
    <3>3. CASE c \in DOMAIN List /\ List[c].bytes # Bytes(Ground, c)
      BY <3>3 DEF GlimpsesAreKept
    <3>4. CASE List'[c] = [bytes |-> Bytes(Ground, c), at |-> 0]
      BY <2>2, <3>4
    <3>5. \/ c \in DOMAIN List /\ List'[c] = List[c]
          \/ List'[c].bytes # Bytes(Ground, c)
          \/ c \in DOMAIN List /\ List[c].bytes # Bytes(Ground, c)
          \/ List'[c] = [bytes |-> Bytes(Ground, c), at |-> 0]
      BY <1>3, LookDates DEF List, Seat
    <3> QED
      BY <3>1, <3>2, <3>3, <3>4, <3>5
  <2> QED
    BY <2>1, <2>2
<1> QED
  BY <1>2, <1>3

(* A page lists chunks of the seat's list, from the cursor's index on.     *)
LEMMA PagesAreListed ==
  ASSUME NEW f, NEW s, NEW q, NEW page \in Pages(f, s, q)
  PROVE  DOMAIN page.chunks \subseteq Listing(f, s, q)
<1> DEFINE listing == Listing(f, s, q)
<1>1. \/ page = [chunks |-> [c \in listing |-> BytesFor(f, s, c)],
                 complete |-> TRUE, next |-> CompleteAt(f, q)]
      \/ \E cut \in {c \in listing : c > Min(listing)} :
           page = [chunks |-> [c \in {d \in listing : d < cut} |-> BytesFor(f, s, c)],
                   complete |-> FALSE,
                   next |-> [view |-> f.view, from |-> q.from, to |-> ToSeq(f, q),
                             index |-> cut]]
  BY Zenon DEF Pages
<1> HIDE DEF listing
<1>2. CASE page = [chunks |-> [c \in listing |-> BytesFor(f, s, c)],
                  complete |-> TRUE, next |-> CompleteAt(f, q)]
  BY <1>2 DEF listing
<1>3. ASSUME NEW cut \in {c \in listing : c > Min(listing)},
             page = [chunks |-> [c \in {d \in listing : d < cut} |-> BytesFor(f, s, c)],
                     complete |-> FALSE,
                     next |-> [view |-> f.view, from |-> q.from, to |-> ToSeq(f, q),
                               index |-> cut]]
      PROVE  DOMAIN page.chunks \subseteq listing
  <2>1. DOMAIN page.chunks = {d \in listing : d < cut}
    BY <1>3
  <2> QED
    BY <2>1
<1> QED
  BY <1>1, <1>2, <1>3 DEF listing

(* An answer made of the feed as it stands tells what its cursor promises. *)
LEMMA AnswerHolds ==
  ASSUME WatchHolds, Answer
  PROVE  WatchHolds'
<1> USE WatcherAssumption
<1> DEFINE q == flight.cursor
<1>1. FeedHolds /\ GlimpsesAreKept /\ RigHolds
  BY DEF WatchHolds
<1>2. /\ flight.state = "asked" /\ q.view \in {NoCursor.view, feed.view}
      /\ feed' = Refreshed(Watcher) /\ UNCHANGED worldVars
      /\ UNCHANGED <<keyframe, paging, cursor, held, skipped>>
      /\ glimpsed' = glimpsed \union
           {c \in Chunks : Entitled(Watcher, c) # Bytes(Ground, c)}
  BY DEF Answer
<1>3. PICK page \in Pages(feed', Watcher, q) :
        /\ flight' = [state |-> "answered", page |-> page]
        /\ told' = IF q.from = 0 THEN told ELSE told \union DOMAIN page.chunks
  BY DEF Answer
<1>4. FeedHolds' /\ Remembers
  BY <1>1, <1>2, LookHolds, LookRemembers
<1>5. CursorHolds' /\ PagingHolds'
  BY <1>1, <1>2, <1>4, CursorStays, PagingStays DEF RigHolds
<1>6. /\ q \in Cursors
      /\ q.from # 0 => Current(cursor) /\ q.from = cursor.from
      /\ q.index # 0 => q = paging /\ ListingHolds(q)
  BY <1>1, <1>2, AskedIsOwn
<1>7. PageHolds(page)'
  <2> HIDE DEF q
  <2> QED
    BY <1>1, <1>2, <1>3, <1>4, <1>6, PagesHold
<1>8. FlightHolds'
  <2>1. flight'.state = "answered" /\ flight'.page = page
    BY <1>3
  <2> QED
    BY <1>7, <2>1 DEF FlightHolds
<1>9. \A c \in DOMAIN List' :
        List'[c].at > 0 \/ List'[c].bytes # Bytes(Ground, c) => c \in glimpsed'
  BY <1>1, <1>2, LookGlimpses
<1>10. ASSUME NEW c \in DOMAIN page.chunks, q.from # 0 PROVE c \in glimpsed'
  <2>1. c \in Listing(feed', Watcher, q)
    BY <1>3, <1>10, PagesAreListed
  <2>2. c \in DOMAIN List' /\ List'[c].at > q.from /\ q.from \in Nat
    BY <1>6, <1>10, <2>1 DEF Listing, List, Seat, Cursors
  <2>3. List'[c].at \in Nat
    <3>1. feed' \in Feeds
      BY <1>4 DEF FeedHolds, WatchTyped
    <3>2. List' \in Lists
      BY <3>1 DEF Feeds, Viewers, List, Seat
    <3> QED
      BY <2>2, <3>2 DEF Lists
  <2>4. List'[c].at > 0
    BY <2>2, <2>3
  <2> QED
    BY <1>9, <2>2, <2>4
<1>11. GlimpsesAreKept'
  <2>1. told' \subseteq glimpsed'
    BY <1>1, <1>2, <1>3, <1>10 DEF GlimpsesAreKept
  <2> QED
    BY <1>9, <2>1 DEF GlimpsesAreKept
<1> QED
  BY <1>4, <1>5, <1>8, <1>11 DEF WatchHolds, RigHolds

(* Whatever leaves the world and the feed alone leaves what they hold.     *)
LEMMA QuietHolds ==
  ASSUME WatchHolds, UNCHANGED worldVars, UNCHANGED feed,
         UNCHANGED <<told, glimpsed>>
  PROVE  FeedHolds' /\ GlimpsesAreKept' /\ Remembers
<1>1. FeedHolds' /\ Remembers
  BY FeedStays, NobodyForgets DEF WatchHolds
<1>2. GlimpsesAreKept'
  BY DEF WatchHolds, GlimpsesAreKept, List, Seat
<1> QED
  BY <1>1, <1>2

(* The connection drops, or a call is refused.                             *)
LEMMA DropHolds ==
  ASSUME WatchHolds, UNCHANGED worldVars, UNCHANGED feed,
         UNCHANGED <<told, glimpsed, cursor, held, skipped>>,
         flight' = Idle, keyframe' = TRUE, paging' = NoCursor
  PROVE  WatchHolds'
<1>1. CursorHolds'
  BY DEF WatchHolds, RigHolds, CursorHolds, Current, Seat
<1>2. PagingHolds' /\ FlightHolds'
  BY DEF PagingHolds, FlightHolds
<1> QED
  BY <1>1, <1>2, QuietHolds DEF WatchHolds, RigHolds

(* A call goes out with the listing's cursor, or the reader's own.         *)
LEMMA SendHolds ==
  ASSUME WatchHolds, Send
  PROVE  WatchHolds'
<1>1. /\ UNCHANGED worldVars /\ UNCHANGED feed /\ UNCHANGED <<told, glimpsed>>
      /\ UNCHANGED <<keyframe, paging, cursor, held, skipped>>
  BY DEF Send, history
<1>2. CursorHolds' /\ PagingHolds'
  BY <1>1, QuietHolds, CursorStays, PagingStays DEF WatchHolds, RigHolds
<1>3. FlightHolds'
  BY <1>1 DEF Send, FlightHolds, Asked
<1> QED
  BY <1>1, <1>2, <1>3, QuietHolds DEF WatchHolds, RigHolds

(* An answer received brings what is held up to its cursor.                *)
LEMMA ReceiveHolds ==
  ASSUME WatchHolds, Receive
  PROVE  WatchHolds'
<1> DEFINE page == flight.page
<1>1. /\ UNCHANGED worldVars /\ UNCHANGED feed /\ UNCHANGED <<told, glimpsed>>
      /\ flight' = Idle
      /\ Settle(page) /\ keyframe' = (keyframe /\ ~page.complete)
      /\ held' = [c \in Chunks |-> IF c \in DOMAIN page.chunks
                                   THEN page.chunks[c] ELSE held[c]]
      /\ skipped' = skipped \ DOMAIN page.chunks
  BY DEF Receive
<1>2. PageHolds(page) /\ CursorHolds
  <2>1. flight.state = "answered"
    BY DEF Receive
  <2> QED
    BY <2>1 DEF WatchHolds, RigHolds, FlightHolds, Idle
<1>3. \A c \in Chunks : held'[c] = After(page, c)
  BY <1>1 DEF After
<1>4. page.complete \in BOOLEAN /\ DOMAIN page.chunks \subseteq Chunks
  BY <1>2 DEF PageHolds
<1>5. CASE page.complete
  <2>1. paging' = NoCursor /\ cursor' = page.next /\ ~keyframe'
    BY <1>1, <1>5 DEF Settle
  <2>2. /\ page.next \in Cursors /\ Current(page.next) /\ page.next.index = 0
        /\ page.next.to = page.next.from /\ page.next.to <= Seat.refreshedAt
    BY <1>2, <1>5 DEF PageHolds
  <2>3. \A c \in Chunks \ skipped' : Known(feed, held'[c], c, page.next.from)
    BY <1>1, <1>2, <1>3, <1>5, <2>2 DEF PageHolds
  <2>4. page.next.view <= feed.view /\ (page.next.view = 0 => page.next.from = 0)
    <3>1. feed.view \in Nat \ {0}
      BY SeatIsTyped DEF WatchHolds, FeedHolds
    <3> QED
      BY <2>2, <3>1 DEF Current
  <2>5. CursorHolds'
    BY <1>1, <2>1, <2>2, <2>3, <2>4 DEF CursorHolds, Current, Seat
  <2> QED
    BY <1>1, <2>1, <2>5, QuietHolds DEF WatchHolds, RigHolds, PagingHolds, FlightHolds
<1>6. CASE ~page.complete
  <2>1. paging' = page.next /\ cursor' = cursor /\ (~keyframe' => ~keyframe)
    BY <1>1, <1>6 DEF Settle
  <2>2. ListingHolds(page.next)
    BY <1>2, <1>6 DEF PageHolds
  <2>3. \A c \in Chunks \ skipped' :
          c < page.next.index => Known(feed, held'[c], c, page.next.to)
    BY <1>1, <1>2, <1>3 DEF PageHolds
  <2>4. PagingHolds'
    BY <1>1, <2>1, <2>2, <2>3 DEF PagingHolds, ListingHolds, Current, Seat
  <2>5. ASSUME Current(cursor), cursor.from # 0, NEW c \in Chunks \ skipped'
        PROVE  Known(feed, held'[c], c, cursor.from)
    <3>1. CASE c \in DOMAIN page.chunks
      <4>1. Known(feed, held'[c], c, page.next.to)
        BY <1>2, <1>6, <2>3, <3>1 DEF PageHolds
      <4>2. cursor.from <= page.next.to /\ cursor.from \in Nat /\ page.next.to \in Nat
        BY <1>2, <2>2, <2>5 DEF ListingHolds, CursorHolds, Cursors
      <4>3. \A d \in DOMAIN List : List[d].at \in Nat
        BY SeatIsTyped DEF WatchHolds, FeedHolds
      <4> QED
        BY <4>1, <4>2, <4>3 DEF Known, List, Seat
    <3>2. CASE c \notin DOMAIN page.chunks
      <4>1. c \in Chunks \ skipped /\ held'[c] = held[c]
        BY <1>1, <2>5, <3>2
      <4> QED
        BY <1>2, <2>5, <4>1 DEF CursorHolds
    <3> QED
      BY <3>1, <3>2
  <2>6. CursorHolds'
    BY <1>1, <1>2, <2>1, <2>5 DEF CursorHolds, Current, Seat
  <2> QED
    BY <1>1, <2>4, <2>6, QuietHolds DEF WatchHolds, RigHolds, FlightHolds
<1> QED
  BY <1>4, <1>5, <1>6

(* What could not be read of an answer is skipped, and a keyframe is owed. *)
LEMMA ReceiveUnreadableHolds ==
  ASSUME WatchHolds, ReceiveUnreadable
  PROVE  WatchHolds'
<1> DEFINE page == flight.page
<1>1. /\ UNCHANGED worldVars /\ UNCHANGED feed /\ UNCHANGED <<told, glimpsed, held>>
      /\ flight' = Idle /\ paging' = NoCursor /\ keyframe' = TRUE
      /\ cursor' = IF page.complete THEN page.next ELSE cursor
      /\ skipped' = skipped \union IF page.complete THEN DOMAIN page.chunks ELSE {}
  BY DEF ReceiveUnreadable
<1>2. PageHolds(page) /\ CursorHolds
  <2>1. flight.state = "answered"
    BY DEF ReceiveUnreadable
  <2> QED
    BY <2>1 DEF WatchHolds, RigHolds, FlightHolds, Idle
<1>3. CursorHolds'
  <2>1. CASE page.complete
    <3>1. /\ page.next \in Cursors /\ Current(page.next) /\ page.next.index = 0
          /\ page.next.to = page.next.from /\ page.next.to <= Seat.refreshedAt
      BY <1>2, <2>1 DEF PageHolds
    <3>2. ASSUME NEW c \in Chunks \ skipped'
          PROVE  Known(feed, held[c], c, page.next.from)
      <4>1. c \notin DOMAIN page.chunks /\ c \notin skipped
        BY <1>1, <2>1, <3>2
      <4>2. Known(feed, After(page, c), c, page.next.to)
        BY <1>2, <2>1, <4>1 DEF PageHolds
      <4> QED
        BY <3>1, <4>1, <4>2 DEF After
    <3>3. page.next.view <= feed.view /\ (page.next.view = 0 => page.next.from = 0)
      <4>1. feed.view \in Nat \ {0}
        BY SeatIsTyped DEF WatchHolds, FeedHolds
      <4> QED
        BY <3>1, <4>1 DEF Current
    <3> QED
      BY <1>1, <2>1, <3>1, <3>2, <3>3 DEF CursorHolds, Current, Seat
  <2>2. CASE ~page.complete
    BY <1>1, <1>2, <2>2 DEF CursorHolds, Current, Seat
  <2> QED
    BY <2>1, <2>2
<1> QED
  BY <1>1, <1>3, QuietHolds DEF WatchHolds, RigHolds, PagingHolds, FlightHolds

(* A step of the match, or a phase that opens.                             *)
LEMMA MatchMovesHolds ==
  ASSUME WatchHolds, MatchMoves
  PROVE  WatchHolds'
<1>1. /\ FeedHolds' /\ feed'.viewers = feed.viewers
      /\ feed'.view = feed.view /\ feed'.generated = feed.generated
  BY StepHolds, BoundaryHolds DEF MatchMoves, WatchHolds
<1>2. RigHolds'
  BY <1>1, StampRemembers, RigStays DEF MatchMoves, WatchHolds, history
<1>3. GlimpsesAreKept'
  BY <1>1 DEF WatchHolds, GlimpsesAreKept, MatchMoves, history, List, Seat
<1> QED
  BY <1>1, <1>2, <1>3 DEF WatchHolds

(* The host restarts from its save, and a new view begins.                 *)
LEMMA HostRestartsHolds ==
  ASSUME WatchHolds, HostRestarts
  PROVE  WatchHolds'
<1>1. /\ FeedHolds' /\ feed'.view = feed.view + 1 /\ DOMAIN List' = {}
  BY ResumeHolds DEF HostRestarts, WatchHolds
<1>2. GlimpsesAreKept'
  BY <1>1 DEF GlimpsesAreKept, HostRestarts
<1>3. CursorHolds'
  <2>1. cursor.view <= feed.view /\ cursor.view \in Nat /\ feed.view \in Nat
    BY SeatIsTyped DEF WatchHolds, RigHolds, CursorHolds, Cursors, FeedHolds
  <2>2. ~Current(cursor)' /\ cursor.view <= feed'.view
    BY <1>1, <2>1 DEF Current, HostRestarts
  <2> QED
    BY <2>2 DEF HostRestarts, CursorHolds, WatchHolds, RigHolds
<1> QED
  BY <1>1, <1>2, <1>3 DEF WatchHolds, RigHolds, HostRestarts, PagingHolds, FlightHolds

(* Another seat looks.                                                     *)
LEMMA OtherLooksHolds ==
  ASSUME WatchHolds, OtherLooks
  PROVE  WatchHolds'
<1>1. PICK s \in Seats : Look(s)
  BY DEF OtherLooks
<1>2. /\ feed' = Refreshed(s) /\ UNCHANGED worldVars /\ UNCHANGED <<rigVars, told, skipped>>
      /\ glimpsed' = glimpsed \union
           {c \in Chunks : Entitled(Watcher, c) # Bytes(Ground, c)}
  BY <1>1 DEF OtherLooks, Look
<1>3. FeedHolds' /\ RigHolds'
  BY <1>2, LookHolds, LookRemembers, RigStays DEF WatchHolds
<1>4. GlimpsesAreKept'
  <2>1. told' \subseteq glimpsed'
    BY <1>2 DEF WatchHolds, GlimpsesAreKept
  <2> QED
    BY <1>2, <2>1, LookGlimpses DEF WatchHolds, GlimpsesAreKept
<1> QED
  BY <1>3, <1>4 DEF WatchHolds

(* The invariant of the watching seat: every cursor it holds, or is about  *)
(* to be given, promises no more than it holds.                            *)
THEOREM WatchKeepsItsHold == Spec => []WatchHolds
<1>1. Init => WatchHolds
  <2> SUFFICES ASSUME Init PROVE WatchHolds
    OBVIOUS
  <2>1. FeedHolds /\ DOMAIN List = {} /\ feed.view = 1
    BY FeedStarts DEF Init
  <2>2. NoCursor \in Cursors
    BY ViewFeedAssumption DEF NoCursor, Cursors, Chunks
  <2>3. CursorHolds
    BY <2>1, <2>2 DEF Init, CursorHolds, Current, NoCursor
  <2> QED
    BY <2>1, <2>3 DEF Init, WatchHolds, GlimpsesAreKept, RigHolds, PagingHolds, FlightHolds
<1>2. WatchHolds /\ [Next]_vars => WatchHolds'
  <2> SUFFICES ASSUME WatchHolds, [Next]_vars PROVE WatchHolds'
    OBVIOUS
  <2>1. CASE Reopen
    BY <2>1, DropHolds DEF Reopen, history
  <2>2. CASE Send
    BY <2>2, SendHolds
  <2>3. CASE Answer
    BY <2>3, AnswerHolds
  <2>4. CASE Refuse
    BY <2>4, DropHolds DEF Refuse, history
  <2>5. CASE Receive
    BY <2>5, ReceiveHolds
  <2>6. CASE ReceiveUnreadable
    BY <2>6, ReceiveUnreadableHolds
  <2>7. CASE MatchMoves
    BY <2>7, MatchMovesHolds
  <2>8. CASE HostRestarts
    BY <2>8, HostRestartsHolds
  <2>9. CASE OtherLooks
    BY <2>9, OtherLooksHolds
  <2>10. CASE UNCHANGED vars
    <3>1. /\ UNCHANGED worldVars /\ UNCHANGED feed /\ UNCHANGED <<rigVars, history>>
      BY <2>10 DEF vars
    <3> QED
      BY <3>1, QuietHolds, RigStays DEF WatchHolds, history
  <2> QED
    BY <2>1, <2>2, <2>3, <2>4, <2>5, <2>6, <2>7, <2>8, <2>9, <2>10 DEF Next
<1> QED
  BY <1>1, <1>2, PTL DEF Spec

(* Once its paging is complete, every chunk a camera holds is as its seat  *)
(* may see it or is in the next delta, over any number of listings, unread *)
(* pages, looks of others, new views and restarts.                         *)
THEOREM PagingLosesNothing == Spec => []NothingIsLost
<1>1. WatchHolds => NothingIsLost
  <2> SUFFICES ASSUME WatchHolds, ViewSettled, NEW R, R = Refreshed(Watcher),
                      NEW c \in Chunks \ skipped
               PROVE  held[c] = Entitled(Watcher, c) \/ c \in Listing(R, Watcher, cursor)
    BY DEF NothingIsLost
  <2>1. /\ FeedHolds /\ Current(cursor) /\ cursor.index = 0 /\ cursor.from \in Nat
        /\ cursor.from <= Seat.refreshedAt
        /\ cursor.from # 0 => Known(feed, held[c], c, cursor.from)
    BY DEF WatchHolds, RigHolds, CursorHolds, ViewSettled, Cursors
  <2>2. c >= cursor.index
    BY <2>1, ChunksAreNumbers
  <2>3. CASE cursor.from = 0
    BY <2>2, <2>3 DEF Listing
  <2>4. CASE cursor.from # 0
    <3>1. Known(R, held[c], c, cursor.from)
      BY <2>1, <2>4, LookKeepsKnown
    <3>2. BytesFor(R, Watcher, c) = Entitled(Watcher, c)
      BY <2>1, LookTellsTheWorld
    <3> QED
      BY <2>2, <3>1, <3>2 DEF Known, Listing
  <2> QED
    BY <2>3, <2>4
<1> QED
  BY <1>1, WatchKeepsItsHold, PTL

(* No delta tells a seat of a chunk it was never entitled to see changed   *)
(* (viewfeed.rs: an edit outside its spheres "produces no chunk at all").  *)
THEOREM DeltasTellNoMore == Spec => []DeltasTellWhatWasSeen
<1>1. WatchHolds => DeltasTellWhatWasSeen
  BY DEF WatchHolds, GlimpsesAreKept, DeltasTellWhatWasSeen
<1> QED
  BY <1>1, WatchKeepsItsHold, PTL
=============================================================================
