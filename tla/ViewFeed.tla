------------------------------ MODULE ViewFeed ------------------------------
(***************************************************************************)
(* The view feed behind get_view: what each seat is entitled to see of the *)
(* chunks the match has written, dated by the feed's own stamp, and how it *)
(* is paged to a client that asks from a cursor (viewfeed.rs, and what the *)
(* surface does to it).                                                    *)
(*                                                                         *)
(* A chunk's bytes are the materials of its voxels; the encoding is left   *)
(* out, so where a page is cut, a matter of encoded bytes, is a choice.    *)
(* What a seat senses is a set of voxels, and the digest of its sensors is *)
(* that set.  Entities and their handles are left out.                     *)
(***************************************************************************)
EXTENDS Naturals, FiniteSets, FiniteSetsExt

CONSTANTS
  ChunkCount,   \* how many chunks the map has
  Voxels,       \* the voxels the match may write
  ChunkOf,      \* the chunk each of them is in
  Materials,    \* what a voxel may be made of
  Ground,       \* the generated map
  Seats,        \* the seats of the match
  Sights,       \* the sets of voxels a seat's sensors may cover
  MaxSeq,       \* bound: the match moves the feed's stamp no further
  MaxView       \* bound: how many processes host the match

Chunks == 0..(ChunkCount - 1)

ASSUME ViewFeedAssumption ==
  /\ ChunkCount \in Nat \ {0}
  /\ ChunkOf \in [Voxels -> Chunks]
  /\ Ground \in [Voxels -> Materials]
  /\ Sights \subseteq SUBSET Voxels

VARIABLES
  world,      \* the voxels as they are
  sensed,     \* the voxels each seat's sensors cover
  unfogged,   \* the seats whose fog has lifted
  save,       \* the world as the last boundary saved it
  feed        \* ViewFeed

worldVars == <<world, sensed, unfogged, save>>
----------------------------------------------------------------------------
(* The feed.                                                               *)

Bytes(map, c) == [v \in {u \in Voxels : ChunkOf[u] = c} |-> map[v]]

Sight(s) == [unfogged |-> s \in unfogged, key |-> sensed[s]]

NewViewer == [entitled |-> <<>>, refreshedAt |-> 0,
              sight |-> [unfogged |-> FALSE, key |-> {}]]

(* Attach: the map it is given is the generated one, and nobody has looked.*)
Attached(view, generated) ==
  [view |-> view, seq |-> 1, generated |-> generated,
   changedAt |-> [c \in Chunks |-> 0], modified |-> {},
   viewers |-> [s \in Seats |-> NewViewer]]

Bump(f) == [f EXCEPT !.seq = @ + 1]

Stamp(f, settled) ==
  [f EXCEPT !.changedAt = [c \in Chunks |-> IF c \in settled THEN f.seq
                                            ELSE @[c]],
            !.modified = @ \union settled]

(* entitled_bytes: the generated chunk, with what the seat may see put in. *)
Entitled(s, c) ==
  Bytes([v \in Voxels |-> IF s \in unfogged \/ v \in sensed[s]
                          THEN world[v] ELSE feed.generated[v]], c)

(* Variant: a chunk is dated when it enters a viewer's list, seen or not.  *)
FirstDateAlways(bytes, base, seq) == seq

(* A chunk that enters a viewer's list as it was generated has not changed.*)
FirstDate(bytes, base, seq) == IF bytes = base THEN 0 ELSE seq

Moved(s) == /\ feed.viewers[s].refreshedAt # 0
            /\ feed.viewers[s].sight # Sight(s)

(* The feed before a refresh looks at any chunk.                           *)
Opened(s) == IF Moved(s) THEN Bump(feed) ELSE feed

(* The chunks a refresh computes again.                                    *)
Outdated(s) ==
  LET held == feed.viewers[s] IN
  {c \in feed.modified : \/ held.sight # Sight(s) \/ held.refreshedAt = 0
                         \/ feed.changedAt[c] > held.refreshedAt}

Refreshed(s) ==
  LET f   == Opened(s)
      old == f.viewers[s].entitled
      Dated(c) ==
        LET bytes == Entitled(s, c) IN
        IF c \notin DOMAIN old
        THEN [bytes |-> bytes,
              at    |-> FirstDate(bytes, Bytes(f.generated, c), f.seq)]
        ELSE IF old[c].bytes = bytes THEN old[c]
        ELSE [bytes |-> bytes, at |-> f.seq]
  IN  [f EXCEPT !.viewers[s] =
         [entitled |-> [c \in DOMAIN old \union Outdated(s) |->
                          IF c \in Outdated(s) THEN Dated(c) ELSE old[c]],
          refreshedAt |-> f.seq,
          sight |-> Sight(s)]]

(* A call without a cursor asks for a keyframe.                            *)
NoCursor == [view |-> 0, from |-> 0, to |-> 0, index |-> 0]

(* The stamps of a listing that a call with this cursor goes on with.      *)
ToSeq(f, cursor) == IF cursor.index = 0 THEN f.seq ELSE cursor.to

Listing(f, s, cursor) ==
  LET entitled == f.viewers[s].entitled IN
  {c \in Chunks : /\ c >= cursor.index
                  /\ \/ cursor.from = 0
                     \/ c \in DOMAIN entitled /\ entitled[c].at > cursor.from}

BytesFor(f, s, c) == IF c \in DOMAIN f.viewers[s].entitled
                     THEN f.viewers[s].entitled[c].bytes
                     ELSE Bytes(f.generated, c)

(* Variant: the completing page hands back where the feed is now.          *)
CompleteAtTheFeed(f, cursor) ==
  [view |-> f.view, from |-> f.seq, to |-> f.seq, index |-> 0]

(* The stamp the listing started at, not the one the feed is on now.       *)
CompleteAt(f, cursor) ==
  [view |-> f.view, from |-> ToSeq(f, cursor), to |-> ToSeq(f, cursor),
   index |-> 0]

(* The pages a call may be answered with: the first chunk always goes      *)
(* through, and the page may be cut before any other.                      *)
Pages(f, s, cursor) ==
  LET listing == Listing(f, s, cursor)
      Carrying(chunks) == [c \in chunks |-> BytesFor(f, s, c)]
  IN  {[chunks |-> Carrying(listing), complete |-> TRUE,
        next |-> CompleteAt(f, cursor)]} \union
      {[chunks |-> Carrying({c \in listing : c < cut}), complete |-> FALSE,
        next |-> [view |-> f.view, from |-> cursor.from,
                  to |-> ToSeq(f, cursor), index |-> cut]] :
         cut \in {c \in listing : c > Min(listing)}}
----------------------------------------------------------------------------
(* What the match does to the feed.                                        *)

ViewInit ==
  /\ world = Ground
  /\ sensed \in [Seats -> Sights]
  /\ unfogged = {}
  /\ save = [world |-> world, sensed |-> sensed, unfogged |-> {},
             modified |-> {}]
  /\ feed = Attached(1, Ground)

(* A tick: the stamp moves first, and what it wrote is marked at the new   *)
(* one.  Seats may fall in it, or the match end; a write that changes      *)
(* nothing marks no chunk.                                                 *)
Step ==
  /\ feed.seq < MaxSeq
  /\ \E v \in Voxels, m \in Materials :
       /\ world' = [world EXCEPT ![v] = m]
       /\ feed' = Stamp(Bump(feed), IF world[v] = m THEN {} ELSE {ChunkOf[v]})
  /\ sensed' \in [Seats -> Sights]
  /\ \E fallen \in SUBSET Seats : unfogged' = unfogged \union fallen
  /\ UNCHANGED save

(* A Push opens, a recap ends, a Lull opens: the stamp moves, and what a   *)
(* resumed process would restore is saved.                                 *)
Boundary ==
  /\ feed.seq < MaxSeq
  /\ feed' = Bump(feed)
  /\ save' = [world |-> world, sensed |-> sensed, unfogged |-> unfogged,
              modified |-> feed.modified]
  /\ UNCHANGED <<world, sensed, unfogged>>

(* The feed of a resumed process: attached over the generated map, then    *)
(* every chunk the saved match has written is marked, and the stamp moves. *)
ResumedFeed == Bump(Stamp(Attached(feed.view + 1, Ground), save.modified))

(* The process dies and the save is resumed by another.  That the view's   *)
(* id is a new one is what Persistence is about.                           *)
Resume ==
  /\ feed.view < MaxView
  /\ feed' = ResumedFeed
  /\ world' = save.world
  /\ sensed' = save.sensed
  /\ unfogged' = save.unfogged
  /\ UNCHANGED save

(* Another connection of a seat calls get_view: its page is its own, what  *)
(* the refresh leaves is the seat's.                                       *)
Look(s) ==
  /\ feed' = Refreshed(s)
  /\ UNCHANGED worldVars
=============================================================================
