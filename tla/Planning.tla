------------------------------ MODULE Planning ------------------------------
(***************************************************************************)
(* A Lull from the seats' side: crates/gateway/src/surface.rs (the seat    *)
(* stores, open_lull, seal_and_open_push, saved_match, resume), the        *)
(* planning methods of surface/planning.rs, and the in-process operators   *)
(* of serve.rs.                                                            *)
(*                                                                         *)
(* One thread owns the surface, so every call is one step.  The verifier's *)
(* report is a pure function of the frozen snapshot, the seat and the      *)
(* playbook: qualifies is that function, drawn anew with every snapshot.   *)
(* Whether this build can execute a playbook depends on the playbook only. *)
(* Persisted here are the saves; the windows between a change and its      *)
(* write are the subject of Persistence.                                   *)
(***************************************************************************)
EXTENDS Integers, FiniteSets

CONSTANTS
  Seats,
  Books,         \* the playbooks seats and operators write
  SafeBook,      \* Host.safe_playbook: the gateway's fallback
  NoBook,
  Executable,    \* the playbooks Plan::compile takes
  Reports,       \* what may qualify: sets of <<seat, playbook>>
  Advised,       \* seats an operator advises
  Played,        \* seats an operator plays
  DraftIds,      \* the ids seats give their drafts, "carried" apart
  MaxDrafts,     \* MAX_DRAFTS
  RoundLimit

ASSUME PlanningAssumption ==
  /\ Seats # {} /\ NoBook \notin Books
  /\ SafeBook \in Executable /\ Executable \subseteq Books
  /\ Reports \subseteq SUBSET (Seats \X Books) /\ Reports # {}
  /\ Advised \subseteq Seats /\ Played \subseteq Seats
  /\ Advised \intersect Played = {}
  /\ IsFiniteSet(DraftIds)
  /\ MaxDrafts \in Nat \ {0}
  /\ RoundLimit \in Nat \ {0}

VARIABLES
  up,          \* a gateway process hosts the match
  phase, round,
  qualifies,   \* the pairs the verifier passes against the frozen snapshot
  planned,     \* InProcessSeats.planned: the round the operators planned
  drafts,      \* the ids of each seat's own drafts
  carried,     \* each seat's draft "carried": its text and round
  continuity,  \* what re-verifying the carried draft found
  sealed,      \* each seat's Sealed
  advice,      \* each seat's Advised: its round and qualified safe playbook
  playing,     \* the plan each seat's interpreter holds
  save,        \* the match's save file
  accepted,    \* the last playbook each seat was told is accepted (history)
  kept,        \* accepted as it stood when the save was made (history)
  shown,       \* what get_safe_plan last answered each seat (history)
  played       \* the orders each round's Push opened with (history)

storeVars == <<drafts, carried, continuity, sealed, advice>>
history   == <<accepted, kept, shown, played>>
vars == <<up, phase, round, qualifies, planned, storeVars, playing, save,
          history>>

NoSeal   == [book |-> NoBook, round |-> 0, filed |-> FALSE]
NoDraft  == [book |-> NoBook, round |-> 0]
NoAdvice == [book |-> NoBook, round |-> 0]
NoSave   == [boundary |-> "none", round |-> 0, qualifies |-> {},
             drafts |-> [s \in Seats |-> {}],
             carried |-> [s \in Seats |-> NoDraft],
             sealed |-> [s \in Seats |-> NoSeal]]
Nothing  == [s \in Seats |-> NoBook]

Verifies(s, b) == <<s, b>> \in qualifies

Init ==
  /\ up = TRUE
  /\ phase = "lull" /\ round = 1
  /\ qualifies \in Reports
  /\ planned = 0
  /\ drafts = [s \in Seats |-> {}]
  /\ carried = [s \in Seats |-> NoDraft]
  /\ continuity = [s \in Seats |-> "none"]
  /\ sealed = [s \in Seats |-> NoSeal]
  /\ advice = [s \in Seats |-> NoAdvice]
  /\ playing = Nothing
  /\ save = NoSave
  /\ accepted = Nothing
  /\ kept = Nothing
  /\ shown = Nothing
  /\ played = [r \in 1..RoundLimit |-> Nothing]

----------------------------------------------------------------------------
(* The operators of this process, asked once a Lull, before any job.       *)

(* qualify_safe_playbook: what of an advised playbook is kept.             *)
QualifiedAdvice(s, b) ==
  [book  |-> IF Verifies(s, b) /\ b \in Executable THEN b ELSE NoBook,
   round |-> round]

Submitted(b) == [book |-> b, round |-> round, filed |-> FALSE]

(* Every door a submission passes: the verifier's report and the compile.  *)
Passes(s, b) == Verifies(s, b) /\ b \in Executable

PlanLull ==
  /\ up /\ phase = "lull" /\ planned # round
  /\ planned' = round
  /\ \E orders \in [Played -> Books], advised \in [Advised -> Books] :
       LET doneBy == {s \in Played : Passes(s, orders[s])} IN
       /\ sealed' = [s \in Seats |-> IF s \in doneBy THEN Submitted(orders[s])
                                                     ELSE sealed[s]]
       /\ accepted' = [s \in Seats |-> IF s \in doneBy THEN orders[s]
                                                       ELSE accepted[s]]
       /\ advice' = [s \in Seats |-> IF s \in Advised
                                     THEN QualifiedAdvice(s, advised[s])
                                     ELSE advice[s]]
  /\ UNCHANGED <<up, phase, round, qualifies, drafts, carried, continuity,
                 playing, save, kept, shown, played>>

(* The planning methods are served in a Lull the operators have planned.   *)
Serving == up /\ phase = "lull" /\ planned = round

----------------------------------------------------------------------------
(* The planning methods a seat calls.  A submission one of the doors       *)
(* refuses changes nothing, the seat's earlier seal included.              *)

(* Variant: the report is not looked at before the seal is replaced.       *)
SubmitPlanUnread(s, b) ==
  /\ Serving
  /\ b \in Executable
  /\ sealed' = [sealed EXCEPT ![s] = Submitted(b)]
  /\ accepted' = IF Verifies(s, b) THEN [accepted EXCEPT ![s] = b]
                                   ELSE accepted
  /\ UNCHANGED <<up, phase, round, qualifies, planned, drafts, carried,
                 continuity, advice, playing, save, kept, shown, played>>

SubmitPlan(s, b) ==
  /\ Serving
  /\ Passes(s, b)
  /\ sealed' = [sealed EXCEPT ![s] = Submitted(b)]
  /\ accepted' = [accepted EXCEPT ![s] = b]
  /\ UNCHANGED <<up, phase, round, qualifies, planned, drafts, carried,
                 continuity, advice, playing, save, kept, shown, played>>

(* How many drafts a seat's store holds, the carried one included.         *)
Held(s) == Cardinality(drafts[s]) + IF carried[s] = NoDraft THEN 0 ELSE 1

SaveDraft(s, id) ==
  /\ Serving
  /\ id \in drafts[s] \/ Held(s) < MaxDrafts
  /\ drafts' = [drafts EXCEPT ![s] = @ \union {id}]
  /\ UNCHANGED <<up, phase, round, qualifies, planned, carried, continuity,
                 sealed, advice, playing, save, history>>

(* "carried" is a draft id like any other: a seat may save over it.        *)
SaveOverCarried(s, b) ==
  /\ Serving
  /\ carried[s] # NoDraft \/ Held(s) < MaxDrafts
  /\ carried' = [carried EXCEPT ![s] = [book |-> b, round |-> round]]
  /\ UNCHANGED <<up, phase, round, qualifies, planned, drafts, continuity,
                 sealed, advice, playing, save, history>>

(* What the operator advised a seat for this round, if it did.             *)
CurrentAdvice(s) == IF advice[s].round = round THEN advice[s].book ELSE NoBook

(* Variant: the fallback whatever was advised.                             *)
IgnoresAdvice(s) == SafeBook

(* What the gateway files for a seat that sealed nothing.                  *)
FiledFor(s) == IF CurrentAdvice(s) # NoBook THEN CurrentAdvice(s) ELSE SafeBook

(* get_safe_plan: what a timeout would cost the seat.                      *)
GetSafePlan(s) ==
  /\ Serving
  /\ shown' = [shown EXCEPT ![s] =
       IF CurrentAdvice(s) # NoBook THEN CurrentAdvice(s) ELSE SafeBook]
  /\ UNCHANGED <<up, phase, round, qualifies, planned, storeVars, playing,
                 save, accepted, kept, played>>

----------------------------------------------------------------------------
(* The host drives the match on.                                           *)

(* Variant: any seal will do, this round's or an older one.                *)
IsUnsealed(s) == sealed[s] = NoSeal

Stale(s) == sealed[s].round # round   \* NoSeal's round is none

(* file_safe_playbooks.                                                    *)
WithFilings ==
  [s \in Seats |-> IF Stale(s)
                   THEN [book |-> FiledFor(s), round |-> round, filed |-> TRUE]
                   ELSE sealed[s]]

PlansOf(seals) == [s \in Seats |-> seals[s].book]

(* Variant: the save holds the store as it stood before the filing.        *)
SavedBeforeFiling(boundary, seals) ==
  [boundary |-> boundary, round |-> round, qualifies |-> qualifies,
   drafts |-> drafts, carried |-> carried, sealed |-> sealed]

SavedAs(boundary, seals) ==
  [boundary |-> boundary, round |-> round, qualifies |-> qualifies,
   drafts |-> drafts, carried |-> carried, sealed |-> seals]

(* seal_and_open_push, and the write of the sealed save that follows it.   *)
SealAndOpenPush ==
  /\ up /\ phase = "lull"
  /\ sealed' = WithFilings
  /\ playing' = PlansOf(WithFilings)
  /\ phase' = "push"
  /\ save' = SavedAs("sealed", WithFilings)
  /\ kept' = accepted
  /\ played' = [played EXCEPT ![round] = playing']

EndLull ==
  /\ Serving
  /\ SealAndOpenPush
  /\ UNCHANGED <<up, round, qualifies, planned, drafts, carried, continuity,
                 advice, accepted, shown>>

(* advance_push: the segment's last tick closes the Push.                  *)
AdvancePush ==
  /\ up /\ phase = "push"
  /\ phase' = "recap"
  /\ UNCHANGED <<up, round, qualifies, planned, storeVars, playing, save,
                 history>>

(* Variant: whatever was sealed is carried, the gateway's filing included. *)
CarriesFilings(s) == sealed[s] # NoSeal

CarriesOf(s) == sealed[s] # NoSeal /\ ~sealed[s].filed

(* open_lull: continuity, and every seat's advice forgotten.               *)
OpenLull(next, snapshot) ==
  /\ qualifies' = snapshot
  /\ carried' = [s \in Seats |->
       IF CarriesOf(s) THEN [book |-> sealed[s].book, round |-> next]
                       ELSE NoDraft]
  /\ continuity' = [s \in Seats |->
       IF CarriesOf(s)
       THEN IF <<s, sealed[s].book>> \in snapshot THEN "qualifies" ELSE "fails"
       ELSE "none"]
  /\ advice' = [s \in Seats |-> NoAdvice]

(* serve_end_recap.  The match may be over, by the round limit or before.  *)
EndRecap ==
  /\ up /\ phase = "recap"
  /\ \/ /\ phase' = "ended"
        /\ UNCHANGED <<round, qualifies, carried, continuity, advice,
                       accepted, shown>>
     \/ /\ round < RoundLimit
        /\ phase' = "lull"
        /\ round' = round + 1
        /\ \E snapshot \in Reports : OpenLull(round + 1, snapshot)
        /\ accepted' = Nothing
        /\ shown' = Nothing
  /\ UNCHANGED <<up, planned, drafts, sealed, playing, save, kept, played>>

----------------------------------------------------------------------------
(* Leaving and coming back.  A Lull is saved on the way out; a Push, a     *)
(* recap and an ended match are not, and the save made when the Push began *)
(* stands.  A crash writes nothing.                                        *)

Quit ==
  /\ up /\ (phase = "lull" => planned = round)
  /\ up' = FALSE
  /\ IF phase = "lull"
     THEN save' = SavedAs("lull", sealed) /\ kept' = accepted
     ELSE UNCHANGED <<save, kept>>
  /\ UNCHANGED <<phase, round, qualifies, planned, storeVars, playing,
                 accepted, shown, played>>

Crash ==
  /\ up
  /\ up' = FALSE
  /\ UNCHANGED <<phase, round, qualifies, planned, storeVars, playing, save,
                 history>>

(* restore_seats refuses a save over the bounds a seat may hold.           *)
WithinBounds ==
  \A s \in Seats :
    Cardinality(save.drafts[s]) + (IF save.carried[s] = NoDraft THEN 0 ELSE 1)
      <= MaxDrafts

EverySeatSealed == \A s \in Seats : save.sealed[s].round = save.round

(* derive_continuity, over what the save holds.                            *)
Rederived ==
  [s \in Seats |->
     IF save.carried[s] # NoDraft /\ save.carried[s].round = save.round
     THEN IF <<s, save.carried[s].book>> \in save.qualifies
          THEN "qualifies" ELSE "fails"
     ELSE "none"]

Restore ==
  /\ ~up /\ save # NoSave /\ WithinBounds
  /\ up' = TRUE
  /\ round' = save.round
  /\ qualifies' = save.qualifies
  /\ planned' = 0
  /\ drafts' = save.drafts
  /\ carried' = save.carried
  /\ continuity' = Rederived
  /\ sealed' = save.sealed
  /\ advice' = [s \in Seats |-> NoAdvice]
  /\ accepted' = kept
  /\ UNCHANGED <<save, kept>>

(* A lull save resumes in its Lull, which the operators then plan again.   *)
ResumeLull ==
  /\ Restore
  /\ save.boundary = "lull"
  /\ phase' = "lull"
  /\ playing' = Nothing
  /\ shown' = Nothing
  /\ UNCHANGED played

(* A sealed save resumes into its Push, through seal_and_open_push again.  *)
ResumeSealed ==
  /\ Restore
  /\ save.boundary = "sealed"
  /\ EverySeatSealed
  /\ phase' = "push"
  /\ playing' = PlansOf(save.sealed)
  /\ shown' = IF save.round = round THEN shown ELSE Nothing
  /\ played' = [r \in 1..RoundLimit |->
       IF r < save.round THEN played[r]
       ELSE IF r = save.round THEN playing' ELSE Nothing]

----------------------------------------------------------------------------
Next ==
  \/ PlanLull
  \/ \E s \in Seats :
       \/ \E b \in Books : SubmitPlan(s, b) \/ SaveOverCarried(s, b)
       \/ \E id \in DraftIds : SaveDraft(s, id)
       \/ GetSafePlan(s)
  \/ EndLull \/ AdvancePush \/ EndRecap
  \/ Quit \/ Crash
  \/ ResumeLull \/ ResumeSealed

Spec == Init /\ [][Next]_vars

----------------------------------------------------------------------------
(* Properties.                                                             *)

MaybeBook == Books \union {NoBook}
Rounds    == 0..RoundLimit
Drafts    == [book : MaybeBook, round : Rounds]
Seals     == [book : MaybeBook, round : Rounds, filed : BOOLEAN]

TypeOK ==
  /\ up \in BOOLEAN
  /\ phase \in {"lull", "push", "recap", "ended"}
  /\ round \in 1..RoundLimit /\ planned \in Rounds
  /\ qualifies \in Reports
  /\ drafts \in [Seats -> SUBSET DraftIds]
  /\ carried \in [Seats -> Drafts]
  /\ continuity \in [Seats -> {"none", "qualifies", "fails"}]
  /\ sealed \in [Seats -> Seals]
  /\ advice \in [Seats -> Drafts]
  /\ playing \in [Seats -> MaybeBook]
  /\ save = NoSave \/ save \in
       [boundary : {"lull", "sealed"}, round : 1..RoundLimit,
        qualifies : Reports, drafts : [Seats -> SUBSET DraftIds],
        carried : [Seats -> Drafts], sealed : [Seats -> Seals]]
  /\ accepted \in [Seats -> MaybeBook] /\ kept \in [Seats -> MaybeBook]
  /\ shown \in [Seats -> MaybeBook]
  /\ played \in [1..RoundLimit -> [Seats -> MaybeBook]]

(* What get_safe_plan showed a seat that then submitted nothing is what    *)
(* that seat plays, in the Push and in every replay of it (get_safe_plan:  *)
(* "what this answers and what a timeout costs are the same playbook").    *)
ShownSafePlanIsFiled ==
  up /\ phase \in {"push", "recap"} =>
    \A s \in Seats : accepted[s] = NoBook /\ shown[s] # NoBook =>
      playing[s] = shown[s]

(* A seat that submitted nothing never plays what it wrote for an earlier  *)
(* round: it plays a playbook filed on its behalf (file_safe_playbooks).   *)
SilentSeatPlaysAFiling ==
  up /\ phase \in {"push", "recap"} =>
    \A s \in Seats : sealed[s].filed <=> accepted[s] = NoBook

(* A sealed save passes the check resume makes of it: every seat's seal is *)
(* in it and is of the round it resumes into.                              *)
SealedSaveResumes ==
  save.boundary = "sealed" =>
    \A s \in Seats : save.sealed[s].round = save.round

(* Submissions, the Push's orders and resumes keep the promises of         *)
(* RoundOrders.                                                            *)
Orders == INSTANCE RoundOrders WITH
  open <- phase # "lull", wish <- accepted, orders <- played
OrdersSpec == Orders!Spec

(* A Lull opens with each seat's own last submission as its draft, and     *)
(* with nothing for a seat the gateway filed for (carry_draft_forward:     *)
(* "offering it back as your draft would be the gateway putting words in a *)
(* seat's mouth").                                                         *)
OnlyOwnWorkIsCarried ==
  [][phase = "recap" /\ phase' = "lull" =>
       \A s \in Seats : carried'[s].book = accepted[s]]_vars

(* The continuity a briefing shows names a draft get_draft answers, of the *)
(* Lull it is read in.                                                     *)
ContinuityNamesADraft ==
  up /\ phase = "lull" =>
    \A s \in Seats : continuity[s] # "none" => carried[s].round = round

=============================================================================
