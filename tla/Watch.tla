------------------------------- MODULE Watch --------------------------------
(***************************************************************************)
(* A seat watches the match: the rig that decides from which cursor        *)
(* get_view is asked (rig.rs), the chunks the camera holds (view.rs of the *)
(* client), and the view feed that answers.                                *)
(***************************************************************************)
EXTENDS ViewFeed

CONSTANTS
  Watcher      \* the seat that watches

ASSUME WatcherAssumption == Watcher \in Seats

VARIABLES
  keyframe,  \* Due.keyframe
  putOff,    \* keyframe_not_before_us is yet to come
  paging,    \* view_paging, NoCursor for none
  cursor,    \* view_cursor
  flight,    \* the get_view in flight, and its answer once the host gave it
  held,      \* the chunks the camera holds, <<>> for none
  glimpsed,  \* chunks the seat was ever entitled to see changed (history)
  told,      \* chunks a delta ever carried (history)
  skipped    \* chunks of lost pages the cursor has passed over (history)

rigVars == <<keyframe, putOff, paging, cursor, flight, held>>
history == <<glimpsed, told, skipped>>
vars == <<worldVars, feed, rigVars, history>>

Idle == [state |-> "idle"]

Init ==
  /\ ViewInit
  /\ keyframe = TRUE /\ putOff = FALSE
  /\ paging = NoCursor /\ cursor = NoCursor
  /\ flight = Idle
  /\ held = [c \in Chunks |-> <<>>]
  /\ glimpsed = {} /\ told = {} /\ skipped = {}
----------------------------------------------------------------------------
(* The connection.                                                         *)

(* The seat connection drops and another opens: a keyframe is owed again,  *)
(* and the answer in flight is lost.                                       *)
Reopen ==
  /\ flight' = Idle
  /\ keyframe' = TRUE
  /\ paging' = NoCursor
  /\ UNCHANGED <<worldVars, feed, putOff, cursor, held, history>>

(* What may be asked next: the next page, a keyframe that is owed and not  *)
(* put off, or what has changed.                                           *)
Asked(late) == IF paging # NoCursor THEN paging
               ELSE IF keyframe /\ ~late THEN NoCursor
               ELSE cursor

(* One request in flight.  When the rig next owes one (ticks were told, a  *)
(* phase, a page is missing) is any time.                                  *)
Send ==
  /\ flight = Idle
  /\ \E late \in {FALSE, putOff} : \* five seconds pass, or have not yet
       /\ flight' = [state |-> "asked", cursor |-> Asked(late)]
       /\ putOff' = late
  /\ UNCHANGED <<worldVars, feed, keyframe, paging, cursor, held, history>>

(* get_view: the cursor is read, the seat's bytes are brought up to date,  *)
(* and a page is cut.                                                      *)
Answer ==
  /\ flight.state = "asked"
  /\ flight.cursor.view \in {NoCursor.view, feed.view}
  /\ feed' = Refreshed(Watcher)
  /\ \E page \in Pages(feed', Watcher, flight.cursor) :
       /\ flight' = [state |-> "answered", page |-> page]
       /\ told' = IF flight.cursor.from = 0 THEN told
                  ELSE told \union DOMAIN page.chunks
  /\ glimpsed' = glimpsed \union
       {c \in Chunks : Entitled(Watcher, c) # Bytes(Ground, c)}
  /\ UNCHANGED <<worldVars, keyframe, putOff, paging, cursor, held, skipped>>

(* The call is refused, by the rate limiter or for its cursor.             *)
Refuse ==
  /\ flight.state = "asked"
  /\ flight' = Idle
  /\ keyframe' = TRUE
  /\ paging' = NoCursor
  /\ UNCHANGED <<worldVars, feed, putOff, cursor, held, history>>

(* settle: where the next call goes on.                                    *)
Settle(page) ==
  IF page.complete
  THEN paging' = NoCursor /\ cursor' = page.next
  ELSE paging' = page.next /\ UNCHANGED cursor

Receive ==
  /\ flight.state = "answered"
  /\ LET page == flight.page IN
       /\ Settle(page)
       /\ keyframe' = (keyframe /\ ~page.complete)
       /\ held' = [c \in Chunks |-> IF c \in DOMAIN page.chunks
                                    THEN page.chunks[c] ELSE held[c]]
       /\ skipped' = skipped \ DOMAIN page.chunks
  /\ flight' = Idle
  /\ UNCHANGED <<worldVars, feed, putOff, glimpsed, told>>

(* A page the bridge cannot apply is lost, after the rig has read it; a    *)
(* keyframe is owed, but not at once.                                      *)
ReceiveUnreadable ==
  /\ flight.state = "answered"
  /\ paging' = NoCursor
  /\ cursor' = IF flight.page.complete THEN flight.page.next ELSE cursor
  /\ keyframe' = TRUE /\ putOff' = TRUE
  /\ skipped' = skipped \union
       IF flight.page.complete THEN DOMAIN flight.page.chunks ELSE {}
  /\ flight' = Idle
  /\ UNCHANGED <<worldVars, feed, held, glimpsed, told>>
----------------------------------------------------------------------------
(* The match.                                                              *)

MatchMoves ==
  /\ Step \/ Boundary
  /\ UNCHANGED <<rigVars, history>>

(* The host dies, and with it the connection.                              *)
HostRestarts ==
  /\ Resume
  /\ flight' = Idle
  /\ keyframe' = TRUE
  /\ paging' = NoCursor
  /\ told' = {} /\ glimpsed' = {}
  /\ UNCHANGED <<putOff, cursor, held, skipped>>

OtherLooks ==
  /\ \E s \in Seats : Look(s)
  /\ glimpsed' = glimpsed \union
       {c \in Chunks : Entitled(Watcher, c) # Bytes(Ground, c)}
  /\ UNCHANGED <<rigVars, told, skipped>>

Next ==
  \/ Reopen \/ Send \/ Answer \/ Refuse
  \/ Receive \/ ReceiveUnreadable
  \/ MatchMoves \/ HostRestarts \/ OtherLooks

Spec == Init /\ [][Next]_vars
----------------------------------------------------------------------------
(* Properties.                                                             *)

(* The seat's view is complete: no keyframe owed and no page waiting.      *)
ViewSettled == ~keyframe /\ paging = NoCursor

(* Paging loses nothing: whatever was written, seen or lifted between the  *)
(* pages of a listing, once it is complete every chunk the camera holds is *)
(* as its seat may see it, or is in the next delta (viewfeed.rs: "a chunk  *)
(* being re-sent and a chunk being lost").  What a page carried that the   *)
(* bridge could not read is the one exception: the keyframe it owes may be *)
(* taken as given by a delta asked for in the meantime.                    *)
NothingIsLost ==
  ViewSettled =>
    LET f == Refreshed(Watcher)
    IN  \A c \in Chunks \ skipped :
          held[c] = Entitled(Watcher, c) \/ c \in Listing(f, Watcher, cursor)

(* A delta's mere presence says something: a chunk is in one only if the   *)
(* seat was entitled to see it changed when somebody of its looked         *)
(* (viewfeed.rs: an edit outside its spheres "produces no chunk at all").  *)
DeltasTellWhatWasSeen == told \subseteq glimpsed
=============================================================================
