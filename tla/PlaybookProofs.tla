--------------------------- MODULE PlaybookProofs ---------------------------
(***************************************************************************)
(* What holds of a playbook before a Push and in it.  Of the planning half *)
(* of a Lull, for any seats, playbooks, verifier's reports, operators and  *)
(* number of rounds: what is sealed, filed, saved and carried.  And of the *)
(* seat that plays one, for any map, price and length of match: the money  *)
(* that came in is in the treasury, in the deploy under way or in the      *)
(* ground, the reflex only ever holds a commander that is on its way home, *)
(* and a step that is under way finds the commander where it needs it, or  *)
(* has sent it there.                                                      *)
(***************************************************************************)
EXTENDS Planning, Interpreter, TLAPS

SavedStores == [boundary : {"lull", "sealed"}, round : 1..RoundLimit,
                qualifies : Reports, drafts : [Seats -> SUBSET DraftIds],
                carried : [Seats -> Drafts], sealed : [Seats -> Seals]]

(* What the step lemmas need of the constants.                             *)
LEMMA ConstantsTyped ==
  /\ Seats # {} /\ NoBook \notin Books /\ SafeBook \in Books
  /\ RoundLimit \in Nat \ {0}
  /\ Advised \subseteq Seats /\ Played \subseteq Seats
BY PlanningAssumption

(* The constants the state is compared with are of its types.              *)
LEMMA EmptyTyped ==
  /\ NoSeal \in Seals /\ NoDraft \in Drafts /\ NoAdvice \in Drafts
  /\ Nothing \in [Seats -> MaybeBook]
BY ConstantsTyped
   DEF NoSeal, NoDraft, NoAdvice, Nothing, Seals, Drafts, MaybeBook, Rounds

(* A seal, a draft or an advice of a round is of its type.                 *)
LEMMA StoresTyped ==
  ASSUME TypeOK, NEW b \in Books
  PROVE  Submitted(b) \in Seals /\ \A s \in Seats : QualifiedAdvice(s, b) \in Drafts
<1>1. round \in Rounds
  BY ConstantsTyped DEF TypeOK, Rounds
<1> QED
  BY <1>1 DEF Submitted, QualifiedAdvice, Seals, Drafts, MaybeBook

(* What is filed for a seat is a playbook.                                 *)
LEMMA FilingsAreBooks ==
  ASSUME TypeOK, NEW s \in Seats
  PROVE  FiledFor(s) \in Books
<1>1. advice[s].book \in MaybeBook
  BY DEF TypeOK, Drafts
<1> QED BY <1>1, ConstantsTyped DEF FiledFor, CurrentAdvice, MaybeBook

(* A save of the stores is one.                                            *)
LEMMA SavesTyped ==
  ASSUME TypeOK, NEW boundary \in {"lull", "sealed"},
         NEW seals \in [Seats -> Seals]
  PROVE  SavedAs(boundary, seals) \in SavedStores
BY DEF TypeOK, SavedAs, SavedStores

(* A new match is well typed.                                              *)
LEMMA InitTyped == Init => TypeOK
<1> SUFFICES ASSUME Init PROVE TypeOK
  OBVIOUS
<1>1. played \in [1..RoundLimit -> [Seats -> MaybeBook]]
  BY EmptyTyped DEF Init
<1>2. 1 \in 1..RoundLimit /\ 0 \in Rounds
  BY ConstantsTyped DEF Rounds
<1> QED BY <1>1, <1>2, EmptyTyped DEF Init, TypeOK

(* The operators' orders and advice keep every type.                       *)
LEMMA PlanLullTyped == TypeOK /\ PlanLull => TypeOK'
<1> SUFFICES ASSUME TypeOK, PlanLull PROVE TypeOK'
  OBVIOUS
<1>1. PICK orders \in [Played -> Books], advised \in [Advised -> Books] :
        LET doneBy == {s \in Played : Passes(s, orders[s])} IN
        /\ sealed' = [s \in Seats |-> IF s \in doneBy THEN Submitted(orders[s])
                                                      ELSE sealed[s]]
        /\ accepted' = [s \in Seats |-> IF s \in doneBy THEN orders[s]
                                                        ELSE accepted[s]]
        /\ advice' = [s \in Seats |-> IF s \in Advised
                                      THEN QualifiedAdvice(s, advised[s])
                                      ELSE advice[s]]
  BY DEF PlanLull
<1>2. \A s \in Played : orders[s] \in Books /\ Submitted(orders[s]) \in Seals
  BY StoresTyped
<1>3. \A s \in Advised : QualifiedAdvice(s, advised[s]) \in Drafts
  BY StoresTyped, ConstantsTyped
<1>4. sealed' \in [Seats -> Seals]
  BY <1>1, <1>2 DEF TypeOK
<1>5. accepted' \in [Seats -> MaybeBook]
  BY <1>1, <1>2 DEF TypeOK, MaybeBook
<1>6. advice' \in [Seats -> Drafts]
  BY <1>1, <1>3 DEF TypeOK
<1>7. planned' \in Rounds
  BY ConstantsTyped DEF PlanLull, TypeOK, Rounds
<1> QED BY <1>4, <1>5, <1>6, <1>7 DEF PlanLull, TypeOK

(* A filing stands in for every stale seal.                                *)
LEMMA FilingsTyped ==
  ASSUME TypeOK
  PROVE  WithFilings \in [Seats -> Seals] /\ PlansOf(WithFilings) \in [Seats -> MaybeBook]
<1>1. round \in Rounds
  BY ConstantsTyped DEF TypeOK, Rounds
<1>2. \A s \in Seats : [book |-> FiledFor(s), round |-> round, filed |-> TRUE] \in Seals
  BY <1>1, FilingsAreBooks DEF Seals, MaybeBook
<1>3. WithFilings \in [Seats -> Seals]
  BY <1>2 DEF WithFilings, TypeOK
<1> QED BY <1>3 DEF PlansOf, Seals

(* What a Lull opens with keeps every type.                                *)
LEMMA OpenLullTyped ==
  ASSUME TypeOK, NEW next \in 1..RoundLimit, NEW snapshot \in Reports,
         OpenLull(next, snapshot)
  PROVE  /\ qualifies' \in Reports
         /\ carried' \in [Seats -> Drafts]
         /\ continuity' \in [Seats -> {"none", "qualifies", "fails"}]
         /\ advice' \in [Seats -> Drafts]
<1>1. \A s \in Seats : [book |-> sealed[s].book, round |-> next] \in Drafts
  BY ConstantsTyped DEF TypeOK, Seals, Drafts, Rounds
<1>2. carried' \in [Seats -> Drafts]
  BY <1>1, EmptyTyped DEF OpenLull
<1>3. continuity' \in [Seats -> {"none", "qualifies", "fails"}]
  BY DEF OpenLull
<1> QED BY <1>2, <1>3, EmptyTyped DEF OpenLull

(* So does what a resume restores.                                         *)
LEMMA RestoreTyped ==
  ASSUME TypeOK, Restore
  PROVE  /\ save \in SavedStores /\ save' = save
         /\ up' \in BOOLEAN /\ round' \in 1..RoundLimit /\ planned' \in Rounds
         /\ qualifies' \in Reports
         /\ drafts' \in [Seats -> SUBSET DraftIds]
         /\ carried' \in [Seats -> Drafts]
         /\ continuity' \in [Seats -> {"none", "qualifies", "fails"}]
         /\ sealed' \in [Seats -> Seals]
         /\ advice' \in [Seats -> Drafts]
         /\ accepted' \in [Seats -> MaybeBook] /\ kept' \in [Seats -> MaybeBook]
<1>1. save \in SavedStores /\ save' = save /\ up' = TRUE
  BY DEF TypeOK, Restore, SavedStores
<1>2. continuity' \in [Seats -> {"none", "qualifies", "fails"}]
  BY DEF Restore, Rederived
<1>3. planned' \in Rounds
  BY ConstantsTyped DEF Restore, Rounds
<1>4. accepted' \in [Seats -> MaybeBook] /\ kept' \in [Seats -> MaybeBook]
  BY DEF TypeOK, Restore
<1>5. advice' \in [Seats -> Drafts]
  BY EmptyTyped DEF Restore
<1>6. /\ round' \in 1..RoundLimit /\ qualifies' \in Reports
      /\ drafts' \in [Seats -> SUBSET DraftIds]
      /\ carried' \in [Seats -> Drafts] /\ sealed' \in [Seats -> Seals]
  BY <1>1 DEF Restore, SavedStores
<1> QED BY <1>1, <1>2, <1>3, <1>4, <1>5, <1>6

(* Every step keeps every type.                                            *)
LEMMA StepTyped == TypeOK /\ [Next]_vars => TypeOK'
<1> SUFFICES ASSUME TypeOK, [Next]_vars PROVE TypeOK'
  OBVIOUS
<1>1. CASE PlanLull
  BY <1>1, PlanLullTyped
<1>2. ASSUME NEW s \in Seats, NEW b \in Books, SubmitPlan(s, b)
      PROVE  TypeOK'
  <2>1. sealed' \in [Seats -> Seals]
    BY <1>2, StoresTyped DEF SubmitPlan, TypeOK
  <2>2. accepted' \in [Seats -> MaybeBook]
    BY <1>2 DEF SubmitPlan, TypeOK, MaybeBook
  <2> QED BY <1>2, <2>1, <2>2 DEF SubmitPlan, TypeOK
<1>3. ASSUME NEW s \in Seats, NEW b \in Books, SaveOverCarried(s, b)
      PROVE  TypeOK'
  <2>1. [book |-> b, round |-> round] \in Drafts
    BY ConstantsTyped DEF TypeOK, Drafts, MaybeBook, Rounds
  <2>2. carried' \in [Seats -> Drafts]
    BY <1>3, <2>1 DEF SaveOverCarried, TypeOK
  <2> QED BY <1>3, <2>2 DEF SaveOverCarried, TypeOK, history
<1>4. ASSUME NEW s \in Seats, NEW id \in DraftIds, SaveDraft(s, id)
      PROVE  TypeOK'
  <2>1. drafts' \in [Seats -> SUBSET DraftIds]
    BY <1>4 DEF SaveDraft, TypeOK
  <2> QED BY <1>4, <2>1 DEF SaveDraft, TypeOK, history
<1>5. ASSUME NEW s \in Seats, GetSafePlan(s)
      PROVE  TypeOK'
  <2>1. shown' = [shown EXCEPT ![s] = FiledFor(s)]
    BY <1>5 DEF GetSafePlan, FiledFor
  <2>2. shown' \in [Seats -> MaybeBook]
    BY <2>1, FilingsAreBooks DEF TypeOK, MaybeBook
  <2> QED BY <1>5, <2>2 DEF GetSafePlan, TypeOK, storeVars
<1>6. CASE EndLull
  <2>1. SealAndOpenPush
    BY <1>6 DEF EndLull
  <2>2. sealed' \in [Seats -> Seals] /\ playing' \in [Seats -> MaybeBook]
    BY <2>1, FilingsTyped DEF SealAndOpenPush
  <2>3. save' \in SavedStores
    BY <2>1, FilingsTyped, SavesTyped DEF SealAndOpenPush
  <2>4. played' \in [1..RoundLimit -> [Seats -> MaybeBook]]
    BY <2>1, <2>2 DEF SealAndOpenPush, TypeOK
  <2>5. kept' \in [Seats -> MaybeBook] /\ phase' = "push"
    BY <2>1 DEF SealAndOpenPush, TypeOK
  <2> QED
    BY <1>6, <2>2, <2>3, <2>4, <2>5 DEF EndLull, TypeOK, SavedStores
<1>7. CASE AdvancePush
  BY <1>7 DEF AdvancePush, TypeOK, storeVars, history
<1>8. CASE EndRecap
  <2>1. CASE phase' = "ended" /\ UNCHANGED <<round, qualifies, carried,
                                   continuity, advice, accepted, shown>>
    BY <1>8, <2>1 DEF EndRecap, TypeOK
  <2>2. CASE /\ round < RoundLimit /\ phase' = "lull" /\ round' = round + 1
             /\ \E snapshot \in Reports : OpenLull(round + 1, snapshot)
             /\ accepted' = Nothing /\ shown' = Nothing
    <3>1. round + 1 \in 1..RoundLimit
      BY <2>2, ConstantsTyped DEF TypeOK
    <3>2. /\ qualifies' \in Reports
          /\ carried' \in [Seats -> Drafts]
          /\ continuity' \in [Seats -> {"none", "qualifies", "fails"}]
          /\ advice' \in [Seats -> Drafts]
      BY <2>2, <3>1, OpenLullTyped
    <3> QED BY <1>8, <2>2, <3>1, <3>2, EmptyTyped DEF EndRecap, TypeOK
  <2> QED BY <1>8, <2>1, <2>2 DEF EndRecap
<1>9. CASE Quit
  <2>1. save' = NoSave \/ save' \in SavedStores
    BY <1>9, SavesTyped DEF Quit, TypeOK, SavedStores
  <2>2. kept' \in [Seats -> MaybeBook] /\ up' \in BOOLEAN
    BY <1>9 DEF Quit, TypeOK
  <2> QED BY <1>9, <2>1, <2>2 DEF Quit, TypeOK, storeVars, SavedStores
<1>10. CASE Crash
  BY <1>10 DEF Crash, TypeOK, storeVars, history
<1>11. CASE ResumeLull
  <2>1. /\ playing' = Nothing /\ shown' = Nothing /\ phase' = "lull"
        /\ played' = played
    BY <1>11 DEF ResumeLull
  <2> QED
    BY <1>11, <2>1, RestoreTyped, EmptyTyped DEF ResumeLull, TypeOK
<1>12. CASE ResumeSealed
  <2>1. /\ save \in SavedStores /\ save' = save
        /\ up' \in BOOLEAN /\ round' \in 1..RoundLimit /\ planned' \in Rounds
        /\ qualifies' \in Reports
        /\ drafts' \in [Seats -> SUBSET DraftIds]
        /\ carried' \in [Seats -> Drafts]
        /\ continuity' \in [Seats -> {"none", "qualifies", "fails"}]
        /\ sealed' \in [Seats -> Seals]
        /\ advice' \in [Seats -> Drafts]
        /\ accepted' \in [Seats -> MaybeBook] /\ kept' \in [Seats -> MaybeBook]
    BY <1>12, RestoreTyped DEF ResumeSealed
  <2>2. playing' \in [Seats -> MaybeBook]
    BY <1>12, <2>1 DEF ResumeSealed, PlansOf, SavedStores, Seals
  <2>3. shown' \in [Seats -> MaybeBook] /\ phase' = "push"
    BY <1>12, EmptyTyped DEF ResumeSealed, TypeOK
  <2>4. played' \in [1..RoundLimit -> [Seats -> MaybeBook]]
    BY <1>12, <2>2, EmptyTyped DEF ResumeSealed, TypeOK
  <2> QED BY <2>1, <2>2, <2>3, <2>4 DEF TypeOK, SavedStores
<1>13. CASE UNCHANGED vars
  BY <1>13 DEF vars, storeVars, history, TypeOK
<1> QED
  BY <1>1, <1>2, <1>3, <1>4, <1>5, <1>6, <1>7, <1>8, <1>9, <1>10, <1>11,
     <1>12, <1>13 DEF Next

(* Every variable of the planning half keeps its type.                     *)
THEOREM Typing == Spec => []TypeOK
BY InitTyped, StepTyped, PTL DEF Spec

----------------------------------------------------------------------------
(* What a seat's seal is in a Lull of round r, the seat having been told   *)
(* that wish is accepted, and in the Push that follows.                    *)
LullSeal(seal, wish, r) ==
  /\ wish # NoBook => seal = [book |-> wish, round |-> r, filed |-> FALSE]
  /\ wish = NoBook => seal.round < r

PushSeal(seal, wish, r) ==
  /\ seal.round = r /\ seal.book \in Books
  /\ seal.filed <=> wish = NoBook
  /\ wish # NoBook => seal.book = wish

(* A Lull: the seals are of the seats' wishes or stale, the save is of an  *)
(* earlier Push or of this Lull, and what was shown is what will be filed. *)
LullStands ==
  phase = "lull" =>
    /\ \A s \in Seats : LullSeal(sealed[s], accepted[s], round)
    /\ save.boundary = "lull" => save.round = round
    /\ save.boundary = "sealed" => save.round < round
    /\ planned # round => shown = Nothing
    /\ \A s \in Seats : shown[s] # NoBook => shown[s] = FiledFor(s)

(* A Push and its recap: what is played is what was sealed, what the save  *)
(* holds, and what every seat was told or shown.                           *)
PushStands ==
  phase # "lull" =>
    /\ save.boundary = "sealed" /\ save.round = round
    /\ save.sealed = sealed /\ kept = accepted
    /\ playing = PlansOf(sealed)
    /\ \A s \in Seats : PushSeal(sealed[s], accepted[s], round)
    /\ \A s \in Seats : accepted[s] = NoBook /\ shown[s] # NoBook =>
                          playing[s] = shown[s]

(* A save: its seals are what a resume has to find.                        *)
SaveStands ==
  /\ save.boundary = "lull" =>
       \A s \in Seats : LullSeal(save.sealed[s], kept[s], save.round)
  /\ save.boundary = "sealed" =>
       /\ \A s \in Seats : PushSeal(save.sealed[s], kept[s], save.round)
       /\ played[save.round] = PlansOf(save.sealed)

Planned == planned <= round

Lulls == LullStands /\ PushStands /\ SaveStands /\ Planned

(* A new match has neither seals nor a save.                               *)
LEMMA InitLulls == Init => Lulls
<1> SUFFICES ASSUME Init PROVE Lulls
  OBVIOUS
<1>1. \A s \in Seats : LullSeal(sealed[s], accepted[s], round)
  BY DEF Init, LullSeal, NoSeal, Nothing
<1>2. save.boundary = "none"
  BY DEF Init, NoSave
<1> QED BY <1>1, <1>2
   DEF Init, Lulls, LullStands, PushStands, SaveStands, Planned, Nothing

(* The stores a Lull does not look at may change.                          *)
LEMMA LullsStand ==
  ASSUME TypeOK, Lulls,
         UNCHANGED <<phase, round, planned, sealed, advice, playing, save,
                     accepted, kept, shown, played>>
  PROVE  Lulls'
BY DEF Lulls, LullStands, PushStands, SaveStands, Planned, LullSeal, PushSeal,
       PlansOf, FiledFor, CurrentAdvice, Nothing

(* The seal of a seat that is told its playbook is accepted.               *)
LEMMA SubmissionsSeal ==
  ASSUME NEW b \in Books
  PROVE  LullSeal(Submitted(b), b, round)
BY ConstantsTyped DEF LullSeal, Submitted

(* The operators' orders are sealed like a seat's, before anything is shown.*)
LEMMA StepPlanLull == TypeOK /\ Lulls /\ PlanLull => Lulls'
<1> SUFFICES ASSUME TypeOK, Lulls, PlanLull PROVE Lulls'
  OBVIOUS
<1>1. PICK orders \in [Played -> Books], advised \in [Advised -> Books] :
        LET doneBy == {s \in Played : Passes(s, orders[s])} IN
        /\ sealed' = [s \in Seats |-> IF s \in doneBy THEN Submitted(orders[s])
                                                      ELSE sealed[s]]
        /\ accepted' = [s \in Seats |-> IF s \in doneBy THEN orders[s]
                                                        ELSE accepted[s]]
  BY DEF PlanLull
<1>2. /\ phase = "lull" /\ planned # round /\ planned' = round
      /\ UNCHANGED <<phase, round, save, kept, shown, played>>
  BY DEF PlanLull
<1>3. \A s \in Seats : LullSeal(sealed'[s], accepted'[s], round)
  <2> TAKE s \in Seats
  <2>1. CASE s \in {q \in Played : Passes(q, orders[q])}
    BY <1>1, <2>1, SubmissionsSeal
  <2>2. CASE s \notin {q \in Played : Passes(q, orders[q])}
    BY <1>1, <1>2, <2>2 DEF Lulls, LullStands
  <2> QED BY <2>1, <2>2
<1>4. shown' = Nothing
  BY <1>2 DEF Lulls, LullStands
<1>5. LullStands'
  BY <1>2, <1>3, <1>4 DEF Lulls, LullStands, Nothing
<1>6. Planned'
  BY <1>2 DEF Planned, TypeOK
<1> QED
  BY <1>2, <1>5, <1>6 DEF Lulls, PushStands, SaveStands

(* A submission is sealed under this round, whatever it replaces.          *)
LEMMA StepSubmit ==
  ASSUME TypeOK, Lulls, NEW s \in Seats, NEW b \in Books, SubmitPlan(s, b)
  PROVE  Lulls'
<1>1. /\ phase = "lull" /\ planned = round
      /\ sealed' = [sealed EXCEPT ![s] = Submitted(b)]
      /\ accepted' = [accepted EXCEPT ![s] = b]
      /\ UNCHANGED <<phase, round, planned, advice, save, kept, shown, played>>
  BY DEF SubmitPlan, Serving
<1>2. \A q \in Seats : LullSeal(sealed'[q], accepted'[q], round)
  <2> TAKE q \in Seats
  <2>1. CASE q = s
    BY <1>1, <2>1, SubmissionsSeal DEF TypeOK
  <2>2. CASE q # s
    BY <1>1, <2>2 DEF Lulls, LullStands, TypeOK
  <2> QED BY <2>1, <2>2
<1>3. LullStands'
  BY <1>1, <1>2 DEF Lulls, LullStands, FiledFor, CurrentAdvice, Nothing
<1> QED
  BY <1>1, <1>3 DEF Lulls, PushStands, SaveStands, Planned

(* What a seat is shown is what would be filed for it now.                 *)
LEMMA StepGetSafePlan ==
  ASSUME TypeOK, Lulls, NEW s \in Seats, GetSafePlan(s)
  PROVE  Lulls'
<1>1. /\ phase = "lull" /\ planned = round
      /\ shown' = [shown EXCEPT ![s] = FiledFor(s)]
      /\ UNCHANGED <<phase, round, planned, sealed, advice, save, accepted,
                     kept, played>>
  BY DEF GetSafePlan, Serving, FiledFor, storeVars
<1>2. \A q \in Seats : FiledFor(q)' = FiledFor(q)
  BY <1>1 DEF FiledFor, CurrentAdvice
<1>3. \A q \in Seats : shown'[q] # NoBook => shown'[q] = FiledFor(q)'
  BY <1>1, <1>2 DEF Lulls, LullStands, TypeOK
<1>4. LullStands'
  BY <1>1, <1>3 DEF Lulls, LullStands
<1> QED
  BY <1>1, <1>4 DEF Lulls, PushStands, SaveStands, Planned

(* The seals a Push opens with: a seat's own, or a filing for a silent one.*)
LEMMA FilingsSeal ==
  ASSUME TypeOK, Lulls, phase = "lull", NEW s \in Seats
  PROVE  /\ PushSeal(WithFilings[s], accepted[s], round)
         /\ accepted[s] = NoBook => WithFilings[s].book = FiledFor(s)
<1>1. LullSeal(sealed[s], accepted[s], round)
  BY DEF Lulls, LullStands
<1>2. accepted[s] \in MaybeBook /\ round \in Nat
  BY ConstantsTyped DEF TypeOK
<1>3. CASE accepted[s] = NoBook
  <2>1. sealed[s].round < round /\ sealed[s].round \in Nat
    BY <1>1, <1>3, ConstantsTyped DEF LullSeal, TypeOK, Seals, Rounds
  <2>2. WithFilings[s] = [book |-> FiledFor(s), round |-> round, filed |-> TRUE]
    BY <1>2, <2>1 DEF WithFilings, Stale
  <2> QED BY <1>3, <2>2, FilingsAreBooks DEF PushSeal
<1>4. CASE accepted[s] # NoBook
  <2>1. sealed[s] = [book |-> accepted[s], round |-> round, filed |-> FALSE]
    BY <1>1, <1>4 DEF LullSeal
  <2>2. WithFilings[s] = sealed[s]
    BY <2>1 DEF WithFilings, Stale
  <2> QED BY <1>2, <1>4, <2>1, <2>2 DEF PushSeal, MaybeBook
<1> QED BY <1>3, <1>4

(* The Push opens with a fresh seal for every seat, and so is its save.    *)
LEMMA StepEndLull == TypeOK /\ Lulls /\ EndLull => Lulls'
<1> SUFFICES ASSUME TypeOK, Lulls, EndLull PROVE Lulls'
  OBVIOUS
<1>1. /\ phase = "lull" /\ phase' = "push"
      /\ sealed' = WithFilings /\ playing' = PlansOf(WithFilings)
      /\ save' = SavedAs("sealed", WithFilings)
      /\ kept' = accepted
      /\ played' = [played EXCEPT ![round] = playing']
      /\ UNCHANGED <<round, planned, advice, accepted, shown>>
  BY DEF EndLull, SealAndOpenPush
<1>2. save'.boundary = "sealed" /\ save'.round = round /\ save'.sealed = WithFilings
  BY <1>1 DEF SavedAs
<1>3. \A s \in Seats : PushSeal(WithFilings[s], accepted[s], round)
  BY <1>1, FilingsSeal
<1>4. played'[round] = PlansOf(WithFilings)
  BY <1>1 DEF TypeOK
<1>5. \A s \in Seats : accepted[s] = NoBook /\ shown[s] # NoBook =>
                         playing'[s] = shown[s]
  BY <1>1, FilingsSeal DEF Lulls, LullStands, PlansOf
<1>6. PlansOf(WithFilings) = PlansOf(sealed')
  BY <1>1
<1>7. PushStands'
  BY <1>1, <1>2, <1>3, <1>5 DEF PushStands, PlansOf
<1>8. SaveStands'
  BY <1>1, <1>2, <1>3, <1>4 DEF SaveStands, PlansOf
<1> QED BY <1>1, <1>7, <1>8 DEF Lulls, LullStands, Planned

(* A recap leads to a Lull in which every seal is stale.                   *)
LEMMA StepEndRecap == TypeOK /\ Lulls /\ EndRecap => Lulls'
<1> SUFFICES ASSUME TypeOK, Lulls, EndRecap PROVE Lulls'
  OBVIOUS
<1>1. /\ phase = "recap"
      /\ UNCHANGED <<planned, sealed, playing, save, kept, played>>
  BY DEF EndRecap
<1>2. CASE phase' = "ended" /\ UNCHANGED <<round, advice, accepted, shown>>
  BY <1>1, <1>2 DEF Lulls, LullStands, PushStands, SaveStands, Planned, PlansOf
<1>3. CASE phase' = "lull" /\ round' = round + 1 /\ accepted' = Nothing
           /\ shown' = Nothing
  <2>1. round \in Nat /\ planned \in Nat
    BY ConstantsTyped DEF TypeOK, Rounds
  <2>2. save.boundary = "sealed" /\ save.round = round
    BY <1>1 DEF Lulls, PushStands
  <2>3. \A s \in Seats : LullSeal(sealed[s], NoBook, round + 1)
    BY <1>1, <2>1 DEF Lulls, PushStands, PushSeal, LullSeal
  <2>4. LullStands'
    BY <1>1, <1>3, <2>1, <2>2, <2>3 DEF LullStands, Nothing
  <2>5. Planned'
    BY <1>1, <1>3, <2>1 DEF Lulls, Planned
  <2> QED BY <1>1, <1>3, <2>4, <2>5 DEF Lulls, PushStands, SaveStands
<1> QED BY <1>2, <1>3 DEF EndRecap

(* A Lull that is quit is saved as it stands.                              *)
LEMMA StepQuit == TypeOK /\ Lulls /\ Quit => Lulls'
<1> SUFFICES ASSUME TypeOK, Lulls, Quit PROVE Lulls'
  OBVIOUS
<1>1. UNCHANGED <<phase, round, planned, sealed, advice, playing, accepted,
                  shown, played>>
  BY DEF Quit, storeVars
<1>2. CASE phase = "lull"
  <2>1. save' = SavedAs("lull", sealed) /\ kept' = accepted
    BY <1>2 DEF Quit
  <2>2. save'.boundary = "lull" /\ save'.round = round /\ save'.sealed = sealed
    BY <2>1 DEF SavedAs
  <2>3. LullStands'
    BY <1>1, <2>2 DEF Lulls, LullStands, FiledFor, CurrentAdvice, Nothing
  <2>4. SaveStands'
    BY <1>1, <1>2, <2>1, <2>2 DEF Lulls, LullStands, SaveStands
  <2> QED BY <1>1, <1>2, <2>3, <2>4 DEF Lulls, PushStands, Planned
<1>3. CASE phase # "lull"
  <2>1. UNCHANGED <<save, kept>>
    BY <1>3 DEF Quit
  <2> QED BY <1>1, <2>1, LullsStand
<1> QED BY <1>2, <1>3

(* A resumed Lull has the seals it was quit with.                          *)
LEMMA StepResumeLull == TypeOK /\ Lulls /\ ResumeLull => Lulls'
<1> SUFFICES ASSUME TypeOK, Lulls, ResumeLull PROVE Lulls'
  OBVIOUS
<1>1. /\ save.boundary = "lull" /\ phase' = "lull" /\ round' = save.round
      /\ sealed' = save.sealed /\ accepted' = kept /\ shown' = Nothing
      /\ planned' = 0
      /\ UNCHANGED <<save, kept, played>>
  BY DEF ResumeLull, Restore
<1>2. \A s \in Seats : LullSeal(sealed'[s], accepted'[s], round')
  BY <1>1 DEF Lulls, SaveStands
<1>3. LullStands'
  BY <1>1, <1>2 DEF LullStands, Nothing
<1>4. Planned'
  BY <1>1, RestoreTyped DEF ResumeLull, Planned
<1> QED BY <1>1, <1>3, <1>4 DEF Lulls, PushStands, SaveStands

(* A resumed Push runs the seals it was opened with.                       *)
LEMMA StepResumeSealed == TypeOK /\ Lulls /\ ResumeSealed => Lulls'
<1> SUFFICES ASSUME TypeOK, Lulls, ResumeSealed PROVE Lulls'
  OBVIOUS
<1>1. /\ save.boundary = "sealed" /\ phase' = "push" /\ round' = save.round
      /\ sealed' = save.sealed /\ accepted' = kept
      /\ playing' = PlansOf(save.sealed)
      /\ shown' = IF save.round = round THEN shown ELSE Nothing
      /\ played' = [r \in 1..RoundLimit |->
                      IF r < save.round THEN played[r]
                      ELSE IF r = save.round THEN playing' ELSE Nothing]
      /\ planned' = 0
      /\ UNCHANGED <<save, kept>>
  BY DEF ResumeSealed, Restore
<1>2. round' \in 1..RoundLimit
  BY RestoreTyped DEF ResumeSealed
<1>3. \A s \in Seats : PushSeal(save.sealed[s], kept[s], save.round)
  BY <1>1 DEF Lulls, SaveStands
<1>4. \A s \in Seats : kept[s] = NoBook /\ shown'[s] # NoBook =>
                         playing'[s] = shown'[s]
  <2>1. CASE save.round = round
    <3>1. phase # "lull"
      BY <1>1, <2>1, ConstantsTyped DEF Lulls, LullStands, TypeOK
    <3> QED BY <1>1, <2>1, <3>1 DEF Lulls, PushStands
  <2>2. CASE save.round # round
    BY <1>1, <2>2 DEF Nothing
  <2> QED BY <2>1, <2>2
<1>5. PushStands'
  BY <1>1, <1>3, <1>4 DEF PushStands, PlansOf
<1>6. played'[save.round] = PlansOf(save.sealed)
  BY <1>1, <1>2
<1>7. SaveStands'
  BY <1>1, <1>3, <1>6 DEF SaveStands, PlansOf
<1>8. Planned'
  BY <1>1, <1>2 DEF Planned
<1> QED BY <1>1, <1>5, <1>7, <1>8 DEF Lulls, LullStands

(* Every step leaves the Lull, the Push and the save as they should be.    *)
LEMMA StepLulls == TypeOK /\ Lulls /\ [Next]_vars => Lulls'
<1> SUFFICES ASSUME TypeOK, Lulls, [Next]_vars PROVE Lulls'
  OBVIOUS
<1>1. ASSUME NEW s \in Seats, NEW b \in Books, SaveOverCarried(s, b)
      PROVE  Lulls'
  BY <1>1, LullsStand DEF SaveOverCarried, history
<1>2. ASSUME NEW s \in Seats, NEW id \in DraftIds, SaveDraft(s, id)
      PROVE  Lulls'
  BY <1>2, LullsStand DEF SaveDraft, history
<1>3. CASE Crash
  BY <1>3, LullsStand DEF Crash, storeVars, history
<1>4. CASE UNCHANGED vars
  BY <1>4, LullsStand DEF vars, storeVars, history
<1>5. CASE AdvancePush
  <2>1. /\ phase # "lull" /\ phase' # "lull"
        /\ UNCHANGED <<round, planned, sealed, playing, save, accepted, kept,
                       shown, played>>
    BY <1>5 DEF AdvancePush, storeVars, history
  <2> QED
    BY <2>1 DEF Lulls, LullStands, PushStands, SaveStands, Planned
<1> QED
  BY <1>1, <1>2, <1>3, <1>4, <1>5, StepPlanLull, StepSubmit, StepGetSafePlan,
     StepEndLull, StepEndRecap, StepQuit, StepResumeLull, StepResumeSealed
     DEF Next

(* The inductive invariant of the seals, the saves and what was shown.     *)
THEOREM LullsHold == Spec => [](TypeOK /\ Lulls)
<1>1. TypeOK /\ Lulls /\ [Next]_vars => TypeOK' /\ Lulls'
  BY StepTyped, StepLulls
<1> QED BY <1>1, InitTyped, InitLulls, PTL DEF Spec

(* Nothing get_safe_plan showed a silent seat differs from what it plays,  *)
(* over any number of rounds, crashes and replays.                         *)
THEOREM ShownPlansAreFiled == Spec => []ShownSafePlanIsFiled
<1>1. Lulls => ShownSafePlanIsFiled
  BY DEF Lulls, PushStands, ShownSafePlanIsFiled
<1> QED BY <1>1, LullsHold, PTL

(* A seat plays a filing exactly if it submitted nothing this round.       *)
THEOREM SilentSeatsPlayFilings == Spec => []SilentSeatPlaysAFiling
<1>1. Lulls => SilentSeatPlaysAFiling
  BY DEF Lulls, PushStands, PushSeal, SilentSeatPlaysAFiling
<1> QED BY <1>1, LullsHold, PTL

(* No sealed save is refused by resume for a missing or stale seal.        *)
THEOREM SealedSavesResume == Spec => []SealedSaveResumes
<1>1. Lulls => SealedSaveResumes
  BY DEF Lulls, SaveStands, PushSeal, SealedSaveResumes
<1> QED BY <1>1, LullsHold, PTL

(* A Lull opens with nothing in a seat's mouth: its own last submission,   *)
(* or nothing.                                                             *)
THEOREM OwnWorkIsCarried == Spec => OnlyOwnWorkIsCarried
<1>1. TypeOK /\ Lulls /\ [Next]_vars =>
        [phase = "recap" /\ phase' = "lull" =>
           \A s \in Seats : carried'[s].book = accepted[s]]_vars
  <2> SUFFICES ASSUME TypeOK, Lulls, Next, phase = "recap", phase' = "lull",
                      NEW s \in Seats
               PROVE  carried'[s].book = accepted[s]
    OBVIOUS
  <2>1. PushSeal(sealed[s], accepted[s], round) /\ save.boundary = "sealed"
    BY DEF Lulls, PushStands
  <2>2. EndRecap
    <3>1. ~ResumeLull
      BY <2>1 DEF ResumeLull
    <3> QED
      BY <3>1 DEF Next, PlanLull, SubmitPlan, SaveOverCarried, SaveDraft,
         GetSafePlan, EndLull, SealAndOpenPush, AdvancePush, Quit, Crash,
         ResumeSealed, Serving
  <2>3. PICK snapshot \in Reports : OpenLull(round + 1, snapshot)
    BY <2>2 DEF EndRecap
  <2>4. sealed[s] # NoSeal
    BY <2>1, ConstantsTyped DEF PushSeal, NoSeal
  <2>5. carried'[s] = IF sealed[s].filed THEN NoDraft
                      ELSE [book |-> sealed[s].book, round |-> round + 1]
    BY <2>3, <2>4 DEF OpenLull, CarriesOf
  <2> QED BY <2>1, <2>5 DEF PushSeal, NoDraft
<1> QED BY <1>1, LullsHold, PTL DEF Spec, OnlyOwnWorkIsCarried

(* The continuity a briefing shows names a draft of the Lull it is read in.*)
THEOREM ContinuityIsOfThisLull == Spec => []ContinuityNamesADraft
<1> DEFINE Named == phase = "lull" =>
             \A s \in Seats : continuity[s] # "none" => carried[s].round = round
<1>1. Init => Named
  BY DEF Init
<1>2. TypeOK /\ Lulls /\ Named /\ [Next]_vars => Named'
  <2> SUFFICES ASSUME TypeOK, Named, [Next]_vars, phase' = "lull",
                      NEW s \in Seats, continuity'[s] # "none"
               PROVE  carried'[s].round = round'
    OBVIOUS
  <2>1. CASE EndRecap
    <3>1. PICK snapshot \in Reports : OpenLull(round + 1, snapshot)
      BY <2>1 DEF EndRecap
    <3>2. round' = round + 1
      BY <2>1 DEF EndRecap
    <3> QED BY <3>1, <3>2 DEF OpenLull
  <2>2. CASE ResumeLull
    BY <2>2 DEF ResumeLull, Restore, Rederived
  <2>3. ASSUME NEW q \in Seats, NEW b \in Books, SaveOverCarried(q, b)
        PROVE  carried'[s].round = round'
    BY <2>3 DEF SaveOverCarried, Serving, TypeOK
  <2>4. CASE UNCHANGED <<phase, round, carried, continuity>>
    BY <2>4
  <2>5. CASE EndLull \/ AdvancePush \/ ResumeSealed
    BY <2>5 DEF EndLull, SealAndOpenPush, AdvancePush, ResumeSealed
  <2> QED
    BY <2>1, <2>2, <2>3, <2>4, <2>5
       DEF Next, vars, PlanLull, SubmitPlan, SaveDraft, GetSafePlan, Quit, Crash,
           storeVars
<1>3. Named => ContinuityNamesADraft
  BY DEF ContinuityNamesADraft
<1> HIDE DEF Named
<1>4. Spec => []Named
  BY <1>1, <1>2, LullsHold, PTL DEF Spec
<1> QED BY <1>3, <1>4, PTL

----------------------------------------------------------------------------
(* The planning half implements RoundOrders: each step is one of its own,  *)
(* or nothing it sees.                                                     *)

(* A Lull in which a seat is told more is told nothing less.               *)
LEMMA TellingIsAccepting ==
  ASSUME TypeOK, TypeOK', phase = "lull",
         \A s \in Seats : accepted'[s] = NoBook => accepted[s] = NoBook,
         UNCHANGED <<phase, round, kept, played>>
  PROVE  Orders!Accept
BY DEF Orders!Accept, TypeOK, MaybeBook

(* The Push opens with a playbook for every seat, its own where it was     *)
(* told so.                                                                *)
LEMMA EndLullOpens ==
  ASSUME TypeOK, Lulls, EndLull
  PROVE  Orders!Open
<1>1. /\ phase = "lull" /\ phase' = "push"
      /\ playing' = PlansOf(WithFilings)
      /\ kept' = accepted
      /\ played' = [played EXCEPT ![round] = playing']
      /\ UNCHANGED <<round, accepted>>
  BY DEF EndLull, SealAndOpenPush
<1>2. \A s \in Seats : PushSeal(WithFilings[s], accepted[s], round)
  BY <1>1, FilingsSeal
<1>3. playing' \in [Seats -> Books]
  BY <1>1, <1>2 DEF PlansOf, PushSeal
<1>4. \A s \in Seats : accepted[s] # NoBook => playing'[s] = accepted[s]
  BY <1>1, <1>2 DEF PlansOf, PushSeal
<1> QED BY <1>1, <1>3, <1>4 DEF Orders!Open

(* A resumed Push is a Push that had opened, with its own orders.          *)
LEMMA ResumeSealedReplays ==
  ASSUME TypeOK, Lulls, ResumeSealed
  PROVE  Orders!Replay
<1>1. /\ save.boundary = "sealed" /\ phase' = "push" /\ round' = save.round
      /\ accepted' = kept /\ kept' = kept
      /\ playing' = PlansOf(save.sealed)
      /\ played' = [r \in 1..RoundLimit |->
                      IF r < save.round THEN played[r]
                      ELSE IF r = save.round THEN playing' ELSE Nothing]
  BY DEF ResumeSealed, Restore
<1>2. save.round \in 1..RoundLimit /\ round \in 1..RoundLimit
  BY <1>1, RestoreTyped DEF ResumeSealed, TypeOK
<1>3. save.round <= round
  <2>1. phase = "lull" => save.round < round
    BY <1>1 DEF Lulls, LullStands
  <2>2. phase # "lull" => save.round = round
    BY DEF Lulls, PushStands
  <2> QED BY <1>2, <2>1, <2>2, ConstantsTyped
<1>4. /\ played[save.round] = PlansOf(save.sealed)
      /\ \A s \in Seats : PushSeal(save.sealed[s], kept[s], save.round)
  BY <1>1 DEF Lulls, SaveStands
<1>5. played[save.round] # Nothing
  <2>1. PICK s \in Seats : TRUE
    BY ConstantsTyped
  <2>2. PlansOf(save.sealed)[s] \in Books
    BY <1>4 DEF PlansOf, PushSeal
  <2> QED BY <1>4, <2>2, ConstantsTyped DEF Nothing
<1>6. played' = [q \in 1..RoundLimit |->
                   IF q <= save.round THEN played[q] ELSE Nothing]
  BY <1>1, <1>2, <1>4, ConstantsTyped
<1>7. save.round \in 1..round
  BY <1>2, <1>3, ConstantsTyped
<1> QED
  BY <1>1, <1>5, <1>6, <1>7 DEF Orders!Replay, Orders!NoWishes, Nothing

(* What RoundOrders promises is kept, for any seats, any number of rounds  *)
(* and any crashes and resumes in between.                                 *)
THEOREM PlanningKeepsItsOrders == Spec => OrdersSpec
<1>1. Init => Orders!Init
  BY ConstantsTyped
     DEF Init, Orders!Init, Orders!NoWishes, Orders!NoOrders, Nothing
<1>2. TypeOK /\ TypeOK' /\ Lulls /\ [Next]_vars => [Orders!Next]_Orders!vars
  <2> SUFFICES ASSUME TypeOK, TypeOK', Lulls, [Next]_vars
               PROVE  Orders!Next \/ UNCHANGED Orders!vars
    OBVIOUS
  <2>1. CASE PlanLull
    <3>1. PICK orders \in [Played -> Books] :
            accepted' = [s \in Seats |->
              IF s \in {q \in Played : Passes(q, orders[q])} THEN orders[s]
                                                             ELSE accepted[s]]
      BY <2>1 DEF PlanLull
    <3>2. \A s \in Seats : accepted'[s] = NoBook => accepted[s] = NoBook
      BY <3>1, ConstantsTyped
    <3>3. phase = "lull" /\ UNCHANGED <<phase, round, kept, played>>
      BY <2>1 DEF PlanLull
    <3> QED BY <3>2, <3>3, TellingIsAccepting DEF Orders!Next
  <2>2. ASSUME NEW s \in Seats, NEW b \in Books, SubmitPlan(s, b)
        PROVE  Orders!Next
    <3>1. \A q \in Seats : accepted'[q] = NoBook => accepted[q] = NoBook
      BY <2>2, ConstantsTyped DEF SubmitPlan, TypeOK
    <3>2. phase = "lull" /\ UNCHANGED <<phase, round, kept, played>>
      BY <2>2 DEF SubmitPlan, Serving
    <3> QED BY <3>1, <3>2, TellingIsAccepting DEF Orders!Next
  <2>3. CASE EndLull
    BY <2>3, EndLullOpens DEF Orders!Next
  <2>4. CASE EndRecap
    <3>1. CASE phase' = "ended" /\ UNCHANGED <<round, accepted>>
      BY <2>4, <3>1 DEF EndRecap, Orders!vars
    <3>2. CASE /\ round < RoundLimit /\ phase' = "lull" /\ round' = round + 1
               /\ accepted' = Nothing
      BY <2>4, <3>2 DEF EndRecap, Orders!Next, Orders!Close, Orders!NoWishes, Nothing
    <3> QED BY <2>4, <3>1, <3>2 DEF EndRecap
  <2>5. CASE Quit
    <3>1. UNCHANGED <<phase, round, accepted, played>>
      BY <2>5 DEF Quit
    <3>2. CASE phase = "lull"
      BY <2>5, <3>1, <3>2 DEF Quit, Orders!Next, Orders!Keep
    <3>3. CASE phase # "lull"
      BY <2>5, <3>1, <3>3 DEF Quit, Orders!vars
    <3> QED BY <3>2, <3>3
  <2>6. CASE ResumeLull
    <3>1. /\ save.boundary = "lull" /\ round' = save.round /\ phase' = "lull"
          /\ accepted' = kept /\ UNCHANGED <<kept, played>>
      BY <2>6 DEF ResumeLull, Restore
    <3>2. phase = "lull" /\ round' = round
      BY <3>1 DEF Lulls, LullStands, PushStands
    <3> QED BY <3>1, <3>2 DEF Orders!Next, Orders!Return
  <2>7. CASE ResumeSealed
    BY <2>7, ResumeSealedReplays DEF Orders!Next
  <2>8. CASE UNCHANGED <<phase, round, accepted, kept, played>>
    BY <2>8 DEF Orders!vars
  <2>9. CASE AdvancePush
    BY <2>9 DEF AdvancePush, history, Orders!vars
  <2> QED
    BY <2>1, <2>2, <2>3, <2>4, <2>5, <2>6, <2>7, <2>8, <2>9
       DEF Next, vars, history, SaveOverCarried, SaveDraft, GetSafePlan, Crash
<1>3. Spec => []TypeOK
  BY Typing
<1> QED BY <1>1, <1>2, <1>3, LullsHold, PTL DEF Spec, OrdersSpec, Orders!Spec

----------------------------------------------------------------------------
(* The seat that plays a playbook: its commander and its money.            *)

(* What the handlers of a decision keep.                                   *)

(* The price of what has been placed.                                      *)
Placed(n) == (n - 1) * Cost

Paid(s) == IF s.stage = "Deploying" THEN Cost ELSE 0

Worth(s) == s.treasury + Paid(s) + Placed(s.given) - s.earned

IsSeat(s) ==
  /\ {"treasury", "stage", "given", "earned", "reflex"} \subseteq DOMAIN s
  /\ {"hp", "lastHp", "at", "dest", "sealed", "living", "pinned",
      "pinnedBeacon"} \subseteq DOMAIN s
  /\ {s.treasury, s.given, s.earned} \subseteq Int

(* One seat becomes another of the same worth, its reflex untouched.       *)
Keeps(s, t) == IsSeat(t) /\ Worth(t) = Worth(s) /\ t.reflex = s.reflex

LEMMA PriceIsWhole == Cost \in Int /\ Refund \in Int
BY InterpreterAssumption

LEMMA OneMoreIsPlaced ==
  ASSUME NEW n \in Int
  PROVE  Placed(n) \in Int /\ Placed(n + 1) = Placed(n) + Cost
BY PriceIsWhole DEF Placed

LEMMA KeepsTwice ==
  ASSUME NEW s, NEW t, NEW u, Keeps(s, t), Keeps(t, u)
  PROVE  Keeps(s, u)
BY DEF Keeps

(* A handler that touches neither money nor stage.                         *)
LEMMA KeepsIfSame ==
  ASSUME NEW s, NEW t, IsSeat(s), DOMAIN t = DOMAIN s,
         t.treasury = s.treasury, t.stage = s.stage, t.given = s.given,
         t.earned = s.earned, t.reflex = s.reflex
  PROVE  Keeps(s, t)
BY DEF Keeps, IsSeat, Worth, Paid

LEMMA DropKeeps ==
  ASSUME NEW s, IsSeat(s)
  PROVE  Keeps(s, Drop(s)) /\ Drop(s).stage = "NotStarted"
<1>1. CASE s.stage = "Deploying"
  BY <1>1, PriceIsWhole, OneMoreIsPlaced
  DEF Keeps, IsSeat, Worth, Paid, Drop, ClearStep
<1>2. CASE s.stage # "Deploying"
  BY <1>2, PriceIsWhole, OneMoreIsPlaced
  DEF Keeps, IsSeat, Worth, Paid, Drop, ClearStep
<1> QED
  BY <1>1, <1>2

LEMMA ForgetKeeps ==
  ASSUME NEW s, IsSeat(s)
  PROVE  Keeps(s, Forget(s)) /\ Forget(s).stage = s.stage
BY KeepsIfSame DEF Forget, IsSeat

LEMMA WalkKeeps ==
  ASSUME NEW s, NEW p, IsSeat(s)
  PROVE  Keeps(s, Walk(s, p)) /\ Walk(s, p).stage = s.stage
BY KeepsIfSame DEF Walk, IsSeat

LEMMA EnterFallbackKeeps ==
  ASSUME NEW s, IsSeat(s)
  PROVE  Keeps(s, EnterFallback(s))
<1> DEFINE t == [s EXCEPT !.rule = NoIndex, !.ruleStep = 1, !.cursor = NoIndex]
<1>1. Keeps(s, t)
  BY KeepsIfSame DEF IsSeat
<1> HIDE DEF t
<1>2. Keeps(s, Forget(t)) /\ Keeps(s, Drop(Forget(t)))
  BY <1>1, ForgetKeeps, DropKeeps, KeepsTwice DEF Keeps
<1>3. Keeps(s, s)
  BY KeepsIfSame
<1> QED
  BY <1>2, <1>3 DEF EnterFallback, t

----------------------------------------------------------------------------
(* A pass over a step.                                                     *)

LEMMA BeginVisitKeeps ==
  ASSUME NEW s, IsSeat(s), s.stage # "Deploying"
  PROVE  Keeps(s, BeginVisit(s).s)
BY PriceIsWhole, OneMoreIsPlaced
DEF BeginVisit, Running, Keeps, IsSeat, Worth, Paid

(* The deploy is charged as its stage begins.                              *)
LEMMA BeginDeployKeeps ==
  ASSUME NEW s, NEW p, NEW in, IsSeat(s), s.stage # "Deploying"
  PROVE  Keeps(s, BeginDeploy(s, p, in).s)
<1>1. Keeps(s, s)
  BY KeepsIfSame
<1> DEFINE t == [s EXCEPT !.treasury = @ - Cost, !.timeout = NoTick,
                          !.stage = "Deploying", !.left = Deploy]
<1>2. Keeps(s, t)
  BY PriceIsWhole, OneMoreIsPlaced DEF Keeps, IsSeat, Worth, Paid
<1> HIDE DEF t
<1>3. BeginDeploy(s, p, in).s \in {s, t}
  BY DEF BeginDeploy, Running, Failed, t
<1> QED
  BY <1>1, <1>2, <1>3

LEMMA WalkInKeeps ==
  ASSUME NEW s, NEW p, NEW in, IsSeat(s)
  PROVE  Keeps(s, WalkIn(s, p, in).s)
BY WalkKeeps, KeepsIfSame DEF WalkIn, Running, Failed

LEMMA VisitKeeps ==
  ASSUME NEW s, NEW b, NEW in, IsSeat(s), s.stage # "Deploying"
  PROVE  Keeps(s, Visit(s, b, in).s)
<1> DEFINE p == s.living[b]
           t == [s EXCEPT !.pinned = p, !.pinnedBeacon = b, !.visit = b]
<1>1. Keeps(s, t) /\ IsSeat(t) /\ t.stage # "Deploying"
  BY KeepsIfSame DEF IsSeat
<1> HIDE DEF t, p
<1>2. Keeps(t, BeginVisit(t).s) /\ Keeps(t, WalkIn(t, p, in).s)
  BY <1>1, BeginVisitKeeps, WalkInKeeps
<1>3. Visit(s, b, in) \in {BeginVisit(t), WalkIn(t, p, in)}
  BY DEF Visit, t, p
<1> QED
  BY <1>1, <1>2, <1>3, KeepsTwice

LEMMA StartPlacementKeeps ==
  ASSUME NEW s, NEW step, NEW in, IsSeat(s), s.stage # "Deploying"
  PROVE  Keeps(s, StartPlacement(s, step, in).s)
<1> DEFINE t == [s EXCEPT !.pinned = step.at]
<1>1. Keeps(s, t) /\ IsSeat(t) /\ t.stage # "Deploying"
  BY KeepsIfSame DEF IsSeat
<1> HIDE DEF t
<1>2. /\ Keeps(t, BeginDeploy(t, step.at, in).s)
      /\ Keeps(t, WalkIn(t, step.at, in).s) /\ Keeps(t, Failed(t).s)
  BY <1>1, BeginDeployKeeps, WalkInKeeps, KeepsIfSame DEF Failed
<1>3. StartPlacement(s, step, in) \in
        {Failed(t), BeginDeploy(t, step.at, in), WalkIn(t, step.at, in)}
  BY DEF StartPlacement, t
<1> QED
  BY <1>1, <1>2, <1>3, KeepsTwice

LEMMA StartKeeps ==
  ASSUME NEW s, NEW step, NEW i, NEW in, IsSeat(s), s.stage # "Deploying"
  PROVE  Keeps(s, Start(s, step, i, in).s)
<1> DEFINE resumes == Resumes(s, step, i)
           r == IF resumes THEN s ELSE Forget(s)
           t == [r EXCEPT
                   !.stage = "Running", !.row = 1,
                   !.timeout = IF step.ms = 0 THEN NoTick ELSE step.ms,
                   !.left = IF step.action = "hold" THEN step.hold ELSE 0]
           moving == [t EXCEPT !.pinned = step.at]
           again == [t EXCEPT !.resumed = TRUE, !.row = t.restart.row]
<1>1. Keeps(s, r) /\ IsSeat(r) /\ r.stage # "Deploying"
  <2>1. Keeps(s, s)
    BY KeepsIfSame
  <2> QED
    BY <2>1, ForgetKeeps DEF Keeps
<1> HIDE DEF r
<1>2. Keeps(r, t) /\ IsSeat(t) /\ t.stage = "Running"
  BY <1>1, PriceIsWhole, OneMoreIsPlaced DEF Keeps, IsSeat, Worth, Paid
<1> HIDE DEF t, resumes
<1>3. Keeps(s, t)
  BY <1>1, <1>2, KeepsTwice
<1>4. /\ Keeps(t, moving) /\ IsSeat(moving)
      /\ Keeps(t, again) /\ IsSeat(again) /\ again.stage = "Running"
  BY <1>2, KeepsIfSame DEF IsSeat
<1> HIDE DEF moving, again
<1>5. /\ Keeps(t, Walk(moving, step.at))
      /\ Keeps(t, Visit(t, in.pick, in).s)
      /\ Keeps(t, Visit(again, t.restart.beacon, in).s)
      /\ Keeps(t, StartPlacement(t, step, in).s)
      /\ Keeps(t, t)
  <2>1. Keeps(moving, Walk(moving, step.at))
    BY <1>4, WalkKeeps
  <2>2. Keeps(again, Visit(again, t.restart.beacon, in).s)
    BY <1>4, VisitKeeps
  <2> QED
    BY <1>2, <1>4, <2>1, <2>2, KeepsTwice, KeepsIfSame, VisitKeeps,
       StartPlacementKeeps
<1>6. Start(s, step, i, in).s \in
        {t, Walk(moving, step.at), Visit(t, in.pick, in).s,
         Visit(again, t.restart.beacon, in).s, StartPlacement(t, step, in).s}
  BY DEF Start, Failed, Running, moving, again, t, r, resumes
<1> QED
  BY <1>3, <1>5, <1>6, KeepsTwice

LEMMA WalkToVisitKeeps ==
  ASSUME NEW s, NEW in, IsSeat(s), s.stage # "Deploying"
  PROVE  Keeps(s, WalkToVisit(s, in).s)
<1>1. Keeps(s, s) /\ Keeps(s, BeginVisit(s).s)
  BY KeepsIfSame, BeginVisitKeeps
<1>2. WalkToVisit(s, in).s \in {s, BeginVisit(s).s}
  BY DEF WalkToVisit, Failed, Running
<1> QED
  BY <1>1, <1>2

LEMMA WalkToDeployKeeps ==
  ASSUME NEW s, NEW in, IsSeat(s), s.stage # "Deploying"
  PROVE  Keeps(s, WalkToDeploy(s, in).s)
<1>1. Keeps(s, s) /\ Keeps(s, BeginDeploy(s, s.pinned, in).s)
  BY KeepsIfSame, BeginDeployKeeps
<1>2. WalkToDeploy(s, in).s \in {s, BeginDeploy(s, s.pinned, in).s}
  BY DEF WalkToDeploy, Failed, Running
<1> QED
  BY <1>1, <1>2

(* A recycled beacon's refund comes in.                                    *)
LEMMA CommitRowKeeps ==
  ASSUME NEW s, NEW rows, NEW keeps, IsSeat(s)
  PROVE  Keeps(s, CommitRow(s, rows, keeps).s)
<1> DEFINE gone == rows[s.row] = "recycle"
           t == [s EXCEPT !.row = @ + 1,
                   !.living[s.visit] = IF gone THEN NoPlace ELSE @,
                   !.treasury = IF gone THEN @ + Refund ELSE @,
                   !.earned = IF gone THEN @ + Refund ELSE @]
           u == IF keeps THEN [t EXCEPT !.restart.row = t.row] ELSE t
           v == [u EXCEPT !.left = RowTime]
<1>1. Keeps(s, t)
  <2>1. CASE gone
    BY <2>1, PriceIsWhole, OneMoreIsPlaced DEF Keeps, IsSeat, Worth, Paid
  <2>2. CASE ~gone
    BY <2>2, PriceIsWhole, OneMoreIsPlaced DEF Keeps, IsSeat, Worth, Paid
  <2> QED
    BY <2>1, <2>2
<1>2. IsSeat(t)
  BY <1>1 DEF Keeps
<1> HIDE DEF t
<1>3. Keeps(t, u) /\ IsSeat(u)
  BY <1>2, KeepsIfSame DEF IsSeat
<1> HIDE DEF u
<1>4. Keeps(u, v)
  BY <1>3, KeepsIfSame DEF IsSeat
<1> HIDE DEF v
<1>5. Keeps(s, u) /\ Keeps(s, v)
  BY <1>1, <1>3, <1>4, KeepsTwice
<1>6. CommitRow(s, rows, keeps).s \in {u, v}
  BY DEF CommitRow, Running, Complete, t, u, v
<1> QED
  BY <1>5, <1>6

LEMMA RunVisitKeeps ==
  ASSUME NEW s, NEW rows, NEW in, IsSeat(s)
  PROVE  Keeps(s, RunVisit(s, rows, in).s)
<1> DEFINE t == [s EXCEPT !.stage = "Committing"]
           u == [t EXCEPT !.left = RowTime]
<1>1. Keeps(s, s) /\ Keeps(s, CommitRow(s, rows, s.resumed).s)
  BY KeepsIfSame, CommitRowKeeps
<1>2. s.stage = "Handshake" => Keeps(s, t) /\ Keeps(s, u)
  BY PriceIsWhole, OneMoreIsPlaced DEF Keeps, IsSeat, Worth, Paid
<1> HIDE DEF t, u
<1>3. \/ RunVisit(s, rows, in).s \in {s, CommitRow(s, rows, s.resumed).s}
      \/ s.stage = "Handshake" /\ RunVisit(s, rows, in).s \in {t, u}
  BY DEF RunVisit, Running, Complete, Failed, t, u
<1> QED
  BY <1>1, <1>2, <1>3

(* What was paid for is in the ground.                                     *)
LEMMA PlaceBeaconKeeps ==
  ASSUME NEW s, NEW i, NEW rows, IsSeat(s), s.stage = "Deploying"
  PROVE  Keeps(s, PlaceBeacon(s, i, rows).s)
<1> DEFINE b == s.given + 1
           t == [s EXCEPT !.given = b, !.living[b] = s.pinned, !.visit = b,
                   !.pinnedBeacon = b, !.stage = "Committing", !.row = 1,
                   !.restart = [beacon |-> b, rule |-> s.rule, at |-> i, row |-> 1]]
           u == [t EXCEPT !.left = RowTime]
<1>1. /\ IsSeat(t) /\ t.treasury = s.treasury /\ t.earned = s.earned
      /\ t.given = s.given + 1 /\ t.stage = "Committing" /\ t.reflex = s.reflex
  BY DEF IsSeat
<1> HIDE DEF t
<1>2. Placed(t.given) = Placed(s.given) + Cost /\ Placed(s.given) \in Int
  BY <1>1, OneMoreIsPlaced DEF IsSeat
<1>3. Keeps(s, t)
  BY <1>1, <1>2, PriceIsWhole DEF Keeps, IsSeat, Worth, Paid
<1>4. Keeps(t, u)
  BY <1>1, KeepsIfSame DEF IsSeat
<1> HIDE DEF u
<1>5. PlaceBeacon(s, i, rows).s \in {t, u}
  BY DEF PlaceBeacon, Running, Complete, t, u
<1> QED
  BY <1>3, <1>4, <1>5, KeepsTwice

LEMMA RunDeployKeeps ==
  ASSUME NEW s, NEW i, NEW rows, NEW in, IsSeat(s)
  PROVE  Keeps(s, RunDeploy(s, i, rows, in).s)
<1>1. Keeps(s, s) /\ Keeps(s, CommitRow(s, rows, TRUE).s)
  BY KeepsIfSame, CommitRowKeeps
<1>2. s.stage = "Deploying" => Keeps(s, PlaceBeacon(s, i, rows).s)
  BY PlaceBeaconKeeps
<1>3. \/ RunDeploy(s, i, rows, in).s \in {s, CommitRow(s, rows, TRUE).s}
      \/ /\ s.stage = "Deploying"
         /\ RunDeploy(s, i, rows, in).s = PlaceBeacon(s, i, rows).s
  BY DEF RunDeploy, Running, Failed
<1> QED
  BY <1>1, <1>2, <1>3

LEMMA LookKeeps ==
  ASSUME NEW s, NEW step, NEW i, NEW in, IsSeat(s)
  PROVE  Keeps(s, Look(s, step, i, in).s)
<1>1. /\ Keeps(s, s) /\ Keeps(s, RunVisit(s, step.rows, in).s)
      /\ Keeps(s, RunDeploy(s, i, step.rows, in).s)
  BY KeepsIfSame, RunVisitKeeps, RunDeployKeeps
<1>2. s.stage = "Running" =>
        Keeps(s, WalkToVisit(s, in).s) /\ Keeps(s, WalkToDeploy(s, in).s)
  BY WalkToVisitKeeps, WalkToDeployKeeps
<1>3. \/ Look(s, step, i, in).s \in
            {s, RunVisit(s, step.rows, in).s, RunDeploy(s, i, step.rows, in).s}
      \/ /\ s.stage = "Running"
         /\ Look(s, step, i, in).s \in
              {WalkToVisit(s, in).s, WalkToDeploy(s, in).s}
  BY DEF Look, Running, Complete, Failed
<1> QED
  BY <1>1, <1>2, <1>3

LEMMA RunStepKeeps ==
  ASSUME NEW s, NEW step, NEW i, NEW in, IsSeat(s)
  PROVE  Keeps(s, RunStep(s, step, i, in).s)
<1> DEFINE t == IF s.stage = "NotStarted" THEN Start(s, step, i, in) ELSE Running(s)
<1>1. Keeps(s, s)
  BY KeepsIfSame
<1>2. Keeps(s, t.s)
  BY <1>1, StartKeeps DEF Running
<1>3. Keeps(s, Look(t.s, step, i, in).s)
  BY <1>2, LookKeeps, KeepsTwice DEF Keeps
<1> HIDE DEF t
<1>4. RunStep(s, step, i, in).s \in {s, t.s, Look(t.s, step, i, in).s}
  BY DEF RunStep, Complete, Failed, t
<1> QED
  BY <1>1, <1>2, <1>3, <1>4

----------------------------------------------------------------------------
(* Where a step's end leads.                                               *)

LEMMA EndBodyKeeps ==
  ASSUME NEW s, NEW resume, NEW to, IsSeat(s)
  PROVE  Keeps(s, EndBody(s, resume, to))
<1> DEFINE r == [s EXCEPT !.rule = NoIndex, !.ruleStep = 1]
           t == Drop(Forget(r))
           u == [t EXCEPT !.cursor = CASE resume = "skip" -> Later(@)
                                       [] resume = "jump" -> Jumped(t, to)
                                       [] OTHER -> @]
<1>1. Keeps(s, r)
  BY KeepsIfSame DEF IsSeat
<1> HIDE DEF r
<1>2. Keeps(s, Forget(r)) /\ Keeps(s, t)
  BY <1>1, ForgetKeeps, DropKeeps, KeepsTwice DEF Keeps
<1> HIDE DEF t
<1>3. Keeps(t, u)
  BY <1>2, KeepsIfSame DEF Keeps, IsSeat
<1> HIDE DEF u
<1>4. Keeps(s, u) /\ Keeps(s, EnterFallback(u))
  BY <1>2, <1>3, EnterFallbackKeeps, KeepsTwice DEF Keeps
<1>5. EndBody(s, resume, to) \in {u, EnterFallback(u)}
  BY DEF EndBody, u, t, r
<1> QED
  BY <1>4, <1>5

LEMMA AdvanceBodyKeeps ==
  ASSUME NEW s, NEW in, IsSeat(s)
  PROVE  Keeps(s, AdvanceBody(s, in))
<1> DEFINE rule == plan.rules[s.rule]
           step == rule.body[s.ruleStep]
           run == RunStep(s, step, s.ruleStep, in)
           t == Drop(Forget(run.s))
           u == [t EXCEPT !.ruleStep = @ + 1]
<1>1. Keeps(s, run.s)
  BY RunStepKeeps
<1> HIDE DEF run, step, rule
<1>2. Keeps(s, Forget(run.s)) /\ Keeps(s, t)
  BY <1>1, ForgetKeeps, DropKeeps, KeepsTwice DEF Keeps
<1> HIDE DEF t
<1>3. Keeps(s, u)
  <2>1. Keeps(t, u)
    BY <1>2, KeepsIfSame DEF Keeps, IsSeat
  <2> QED
    BY <1>2, <2>1, KeepsTwice
<1> HIDE DEF u
<1>4. \A resume, to : /\ Keeps(s, EndBody(t, resume, to))
                      /\ Keeps(s, EndBody(u, resume, to))
  BY <1>2, <1>3, EndBodyKeeps, KeepsTwice DEF Keeps
<1>5. AdvanceBody(s, in) \in
        {run.s, u, EndBody(t, rule.resume, rule.to), EndBody(t, "jump", step.to),
         EndBody(u, rule.resume, rule.to)}
  BY DEF AdvanceBody, u, t, run, step, rule
<1> QED
  BY <1>1, <1>3, <1>4, <1>5

LEMMA AdvanceRouteKeeps ==
  ASSUME NEW s, NEW in, IsSeat(s)
  PROVE  Keeps(s, AdvanceRoute(s, in))
<1> DEFINE step == plan.route[s.cursor]
           run == RunStep(s, step, s.cursor, in)
           t == Drop(Forget(run.s))
<1>1. Keeps(s, run.s)
  BY RunStepKeeps
<1> HIDE DEF run, step
<1>2. Keeps(s, Forget(run.s)) /\ Keeps(s, t)
  BY <1>1, ForgetKeeps, DropKeeps, KeepsTwice DEF Keeps
<1> HIDE DEF t
<1>3. ASSUME NEW next PROVE Keeps(s, [t EXCEPT !.cursor = next])
  <2>1. Keeps(t, [t EXCEPT !.cursor = next])
    BY <1>2, KeepsIfSame DEF Keeps, IsSeat
  <2> QED
    BY <1>2, <2>1, KeepsTwice
<1>4. Keeps(s, EnterFallback(s)) /\ Keeps(s, EnterFallback(t))
  BY <1>2, EnterFallbackKeeps, KeepsTwice DEF Keeps
<1>5. \/ AdvanceRoute(s, in) \in {EnterFallback(s), run.s, EnterFallback(t)}
      \/ \E next : AdvanceRoute(s, in) = [t EXCEPT !.cursor = next]
  BY DEF AdvanceRoute, t, run, step
<1> QED
  BY <1>1, <1>3, <1>4, <1>5

LEMMA RunFallbackKeeps ==
  ASSUME NEW s, NEW in, IsSeat(s)
  PROVE  Keeps(s, RunFallback(s, in))
<1>1. Keeps(s, s)
  BY KeepsIfSame
<1>2. ASSUME NEW next PROVE Keeps(s, [s EXCEPT !.leg = next, !.pinned = NoPlace])
  BY KeepsIfSame DEF IsSeat
<1>3. ASSUME NEW target
      PROVE  Keeps(s, Walk([s EXCEPT !.pinned = target], target))
  <2> DEFINE t == [s EXCEPT !.pinned = target]
  <2>1. Keeps(s, t)
    BY KeepsIfSame DEF IsSeat
  <2> HIDE DEF t
  <2>2. Keeps(t, Walk(t, target))
    BY <2>1, WalkKeeps DEF Keeps
  <2>3. Keeps(s, Walk(t, target))
    BY <2>1, <2>2, KeepsTwice
  <2> QED
    BY <2>3 DEF t
<1>4. \/ RunFallback(s, in) = s
      \/ \E next : RunFallback(s, in) = [s EXCEPT !.leg = next, !.pinned = NoPlace]
      \/ \E target : RunFallback(s, in) = Walk([s EXCEPT !.pinned = target], target)
  BY DEF RunFallback
<1> QED
  BY <1>1, <1>2, <1>3, <1>4

LEMMA TryFireKeeps ==
  ASSUME NEW s, NEW in, IsSeat(s)
  PROVE  Keeps(s, TryFire(s, in))
<1> DEFINE t == Drop(s)
           Fired(r) == [t EXCEPT !.rule = r, !.ruleStep = 1, !.fires[r] = @ + 1,
                                 !.ready[r] = plan.rules[r].cooldown]
<1>1. Keeps(s, s) /\ Keeps(s, t)
  BY KeepsIfSame, DropKeeps
<1>2. ASSUME NEW r PROVE Keeps(s, Fired(r))
  <2> DEFINE u == Fired(r)
  <2> HIDE DEF t
  <2>1. IsSeat(t)
    BY <1>1 DEF Keeps
  <2>2. /\ DOMAIN u = DOMAIN t /\ u.treasury = t.treasury /\ u.stage = t.stage
        /\ u.given = t.given /\ u.earned = t.earned /\ u.reflex = t.reflex
    BY <2>1 DEF IsSeat
  <2> HIDE DEF u
  <2>3. Keeps(t, u)
    BY <2>1, <2>2, KeepsIfSame
  <2>4. Keeps(s, u)
    BY <1>1, <2>3, KeepsTwice
  <2> QED
    BY <2>4 DEF u
<1>3. TryFire(s, in) = s \/ \E r : TryFire(s, in) = Fired(r)
  BY DEF TryFire
<1> HIDE DEF Fired
<1> QED
  BY <1>1, <1>2, <1>3

LEMMA AdvanceKeeps ==
  ASSUME NEW s, NEW in, IsSeat(s)
  PROVE  Keeps(s, Advance(s, in))
BY AdvanceBodyKeeps, AdvanceRouteKeeps, RunFallbackKeeps DEF Advance

----------------------------------------------------------------------------
(* The decision.                                                           *)

(* The reflex is over for who is dead, and otherwise sends the commander   *)
(* to the column of the beacon it chose, alive or not.                     *)
Heads(s) ==
  s.reflex =>
    /\ s.lastHp # 0
    /\ Alive(s, s.pinnedBeacon) =>
         s.dest = s.pinned /\ s.living[s.pinnedBeacon] = s.pinned

GoingHome(s) ==
  s.reflex =>
    /\ Alive(s, s.pinnedBeacon) /\ s.dest = s.living[s.pinnedBeacon]
    /\ s.at # s.dest /\ ~s.sealed

(* One seat becomes another of the same worth.                             *)
Worthy(s, t) == IsSeat(t) /\ Worth(t) = Worth(s)

LEMMA WorthyTwice ==
  ASSUME NEW s, NEW t, NEW u, Worthy(s, t), Worthy(t, u)
  PROVE  Worthy(s, u)
BY DEF Worthy

LEMMA WorthyIfSame ==
  ASSUME NEW s, NEW t, IsSeat(s), DOMAIN t = DOMAIN s,
         t.treasury = s.treasury, t.stage = s.stage, t.given = s.given,
         t.earned = s.earned
  PROVE  Worthy(s, t)
BY DEF Worthy, IsSeat, Worth, Paid

LEMMA WorthyIfKept ==
  ASSUME NEW s, NEW t, Keeps(s, t)
  PROVE  Worthy(s, t)
BY DEF Worthy, Keeps

LEMMA DropLeaves ==
  ASSUME NEW s, IsSeat(s)
  PROVE  /\ Drop(s).pinnedBeacon = NoBeacon
         /\ Drop(s).hp = s.hp /\ Drop(s).lastHp = s.lastHp
         /\ Drop(s).at = s.at /\ Drop(s).dest = s.dest
         /\ Drop(s).sealed = s.sealed /\ Drop(s).living = s.living
<1>1. CASE s.stage = "Deploying"
  BY <1>1 DEF Drop, ClearStep, IsSeat
<1>2. CASE s.stage # "Deploying"
  BY <1>2 DEF Drop, ClearStep, IsSeat
<1> QED
  BY <1>1, <1>2

(* Firing drops what was being paid for and sends the commander home.      *)
LEMMA FireReflexGoes ==
  ASSUME NEW s, NEW in, IsSeat(s), in.pick \in Living(s), s.lastHp # 0
  PROVE  Worthy(s, FireReflex(s, in)) /\ Heads(FireReflex(s, in))
<1> DEFINE d == Drop(s)
           t == [d EXCEPT !.armed = FALSE]
           p == s.living[in.pick]
           u == [t EXCEPT !.reflex = TRUE, !.pinned = p, !.pinnedBeacon = in.pick]
           v == Walk(u, p)
<1>1. Keeps(s, d) /\ IsSeat(d) /\ d.lastHp = s.lastHp /\ d.living = s.living
  BY DropKeeps, DropLeaves DEF Keeps
<1> HIDE DEF d
<1>2. Worthy(d, t) /\ IsSeat(t) /\ t.lastHp = d.lastHp /\ t.living = d.living
  BY <1>1, WorthyIfSame DEF IsSeat
<1> HIDE DEF t
<1>3. /\ Worthy(t, u) /\ IsSeat(u) /\ u.lastHp = t.lastHp /\ u.living = t.living
      /\ u.pinned = p /\ u.pinnedBeacon = in.pick
  BY <1>2, WorthyIfSame DEF IsSeat
<1> HIDE DEF u, p
<1>4. /\ v.lastHp = u.lastHp /\ v.living = u.living /\ v.pinned = u.pinned
      /\ v.pinnedBeacon = u.pinnedBeacon /\ v.dest = p
  BY <1>3 DEF Walk, IsSeat
<1>5. Worthy(u, v)
  BY <1>3, WalkKeeps, WorthyIfKept
<1> HIDE DEF v
<1>6. Worthy(s, v)
  BY <1>1, <1>2, <1>3, <1>5, WorthyIfKept, WorthyTwice
<1>7. Heads(v)
  BY <1>1, <1>2, <1>3, <1>4 DEF Heads, p
<1>8. FireReflex(s, in) = v
  BY DEF FireReflex, v, u, t, d, p
<1> QED
  BY <1>6, <1>7, <1>8

(* What holds the decision after the reflex had its turn is a walk home.   *)
LEMMA RunReflexGoes ==
  ASSUME NEW s, NEW in, IsSeat(s), in.pick \in Living(s), s.lastHp # 0, Heads(s)
  PROVE  LET u == RunReflex(s, in)
         IN  Worthy(s, u) /\ Heads(u) /\ GoingHome(u)
<1> DEFINE t == IF s.armed /\ s.hp <= ReflexHp THEN FireReflex(s, in) ELSE s
           over == t.at = t.pinned \/ ~Alive(t, t.pinnedBeacon) \/ t.sealed
           u == [Drop(t) EXCEPT !.reflex = FALSE]
<1>1. Worthy(s, t) /\ Heads(t) /\ IsSeat(t)
  BY FireReflexGoes, WorthyIfSame DEF Worthy
<1> HIDE DEF t
<1>2. Worthy(t, u) /\ u.reflex = FALSE
  <2> DEFINE d == Drop(t)
  <2>1. Keeps(t, d) /\ IsSeat(d)
    BY <1>1, DropKeeps DEF Keeps
  <2> HIDE DEF d
  <2>2. Worthy(d, [d EXCEPT !.reflex = FALSE]) /\ [d EXCEPT !.reflex = FALSE].reflex = FALSE
    BY <2>1, WorthyIfSame DEF IsSeat
  <2> QED
    BY <2>1, <2>2, WorthyIfKept, WorthyTwice DEF d
<1> HIDE DEF u
<1>3. Worthy(s, u) /\ Heads(u) /\ GoingHome(u)
  BY <1>1, <1>2, WorthyTwice DEF Heads, GoingHome
<1>4. ~(t.reflex /\ over) => GoingHome(t)
  BY <1>1 DEF Heads, GoingHome
<1> HIDE DEF over
<1>5. RunReflex(s, in) = IF t.reflex /\ over THEN u ELSE t
  BY DEF RunReflex, t, over, u
<1> QED
  BY <1>1, <1>3, <1>4, <1>5

(* A decision keeps the seat's worth, and leaves the reflex holding only   *)
(* on the way home.                                                        *)
LEMMA DecidedHolds ==
  ASSUME NEW s0, NEW in, IsSeat(s0), in.pick \in Living(s0), Heads(s0)
  PROVE  LET d == Decided(s0, in)
         IN  Worthy(s0, d) /\ Heads(d) /\ GoingHome(d)
<1> DEFINE s == Marked(Aged(s0))
           t == IF s.cursor # NoIndex /\ OutOfDeaths(s) THEN EnterFallback(s) ELSE s
           u == RunReflex(t, in)
<1>1. /\ Keeps(s0, s) /\ IsSeat(s) /\ s.hp = s0.hp /\ s.lastHp = s0.hp
      /\ s.dest = s0.dest /\ s.pinned = s0.pinned
      /\ s.pinnedBeacon = s0.pinnedBeacon /\ s.living = s0.living
  <2> DEFINE a == Aged(s0)
  <2>1. /\ Keeps(s0, a) /\ IsSeat(a) /\ a.hp = s0.hp
        /\ a.dest = s0.dest /\ a.pinned = s0.pinned
        /\ a.pinnedBeacon = s0.pinnedBeacon /\ a.living = s0.living
    <3>1. DOMAIN a = DOMAIN s0
      BY Zenon DEF Aged
    <3>2. /\ a.treasury = s0.treasury /\ a.stage = s0.stage /\ a.given = s0.given
          /\ a.earned = s0.earned /\ a.reflex = s0.reflex /\ a.hp = s0.hp
          /\ a.dest = s0.dest /\ a.pinned = s0.pinned
          /\ a.pinnedBeacon = s0.pinnedBeacon /\ a.living = s0.living
      BY DEF Aged, IsSeat
    <3> HIDE DEF a
    <3>3. Keeps(s0, a)
      BY <3>1, <3>2, KeepsIfSame
    <3> QED BY <3>1, <3>2, <3>3 DEF IsSeat
  <2> HIDE DEF a
  <2>2. /\ Keeps(a, Marked(a)) /\ IsSeat(Marked(a)) /\ Marked(a).hp = a.hp
        /\ Marked(a).lastHp = a.hp
        /\ Marked(a).dest = a.dest /\ Marked(a).pinned = a.pinned
        /\ Marked(a).pinnedBeacon = a.pinnedBeacon /\ Marked(a).living = a.living
    <3> DEFINE M(x) == [a EXCEPT !.armed = x, !.lastHp = a.hp]
    <3>1. ASSUME NEW x
          PROVE  /\ Keeps(a, M(x)) /\ IsSeat(M(x)) /\ M(x).hp = a.hp
                 /\ M(x).lastHp = a.hp
                 /\ M(x).dest = a.dest /\ M(x).pinned = a.pinned
                 /\ M(x).pinnedBeacon = a.pinnedBeacon
                 /\ M(x).living = a.living
      BY <2>1, KeepsIfSame DEF IsSeat
    <3>2. Marked(a) = M(a.armed \/ a.hp < a.lastHp)
      BY DEF Marked
    <3> HIDE DEF M
    <3> QED
      BY <3>1, <3>2
  <2> QED
    BY <2>1, <2>2, KeepsTwice DEF a
<1> HIDE DEF s
<1>2. CASE s.hp = 0
  <2> DEFINE r == IF s.stage = "NotStarted" THEN s ELSE Drop(s)
             v == [r EXCEPT !.reflex = FALSE]
  <2>1. Keeps(s, r) /\ IsSeat(r)
    BY <1>1, DropKeeps, KeepsIfSame DEF Keeps
  <2> HIDE DEF r
  <2>2. Worthy(r, v) /\ v.reflex = FALSE
    BY <2>1, WorthyIfSame DEF IsSeat
  <2> HIDE DEF v
  <2>3. Decided(s0, in) = v
    BY <1>2 DEF Decided, Dies, s, r, v
  <2>4. Worthy(s0, v)
    BY <1>1, <2>1, <2>2, WorthyIfKept, WorthyTwice
  <2> QED
    BY <2>2, <2>3, <2>4 DEF Heads, GoingHome
<1>3. CASE s.hp # 0
  <2>1. Keeps(s, t) /\ IsSeat(t) /\ t.lastHp = s.lastHp /\ t.living = s.living
          /\ Heads(t)
    <3>1. Heads(s)
      BY <1>1, <1>3 DEF Keeps, Heads, Alive
    <3>2. CASE s.cursor # NoIndex /\ OutOfDeaths(s)
      <4> DEFINE f == [s EXCEPT !.rule = NoIndex, !.ruleStep = 1,
                                !.cursor = NoIndex]
                 g == Forget(f)
                 h == Drop(g)
      <4>1. /\ Keeps(s, f) /\ IsSeat(f)
            /\ f.lastHp = s.lastHp /\ f.living = s.living
        BY <1>1, KeepsIfSame DEF IsSeat
      <4> HIDE DEF f
      <4>2. /\ Keeps(s, g) /\ IsSeat(g)
            /\ g.lastHp = f.lastHp /\ g.living = f.living
            /\ g.dest = f.dest
        BY <4>1, ForgetKeeps, KeepsTwice DEF Keeps, Forget, IsSeat
      <4> HIDE DEF g
      <4>3. /\ Keeps(s, h) /\ IsSeat(h)
            /\ h.lastHp = g.lastHp /\ h.living = g.living
            /\ h.pinnedBeacon = NoBeacon
        BY <4>2, DropKeeps, DropLeaves, KeepsTwice DEF Keeps
      <4> HIDE DEF h
      <4>4. t = h
        BY <3>2 DEF EnterFallback, h, g, f
      <4>5. Heads(h)
        BY <1>1, <1>3, <4>1, <4>2, <4>3 DEF Heads, Alive
      <4> QED
        BY <4>1, <4>2, <4>3, <4>4, <4>5
    <3>3. CASE ~(s.cursor # NoIndex /\ OutOfDeaths(s))
      BY <1>1, <3>1, <3>3, KeepsIfSame
    <3> QED
      BY <3>2, <3>3
  <2> HIDE DEF t
  <2>2. in.pick \in Living(t) /\ t.lastHp # 0
    BY <1>1, <1>3, <2>1 DEF Living, Alive
  <2>3. Worthy(t, u) /\ Heads(u) /\ GoingHome(u) /\ IsSeat(u)
    BY <2>1, <2>2, RunReflexGoes DEF Worthy
  <2> HIDE DEF u
  <2>4. Keeps(u, Advance(TryFire(u, in), in))
    <3>1. Keeps(u, TryFire(u, in)) /\ IsSeat(TryFire(u, in))
      BY <2>3, TryFireKeeps DEF Keeps
    <3> QED
      BY <3>1, AdvanceKeeps, KeepsTwice
  <2>5. Decided(s0, in) = IF u.reflex THEN u ELSE Advance(TryFire(u, in), in)
    BY <1>3 DEF Decided, s, t, u
  <2>6. Worthy(s0, u)
    BY <1>1, <2>1, <2>3, WorthyIfKept, WorthyTwice
  <2>7. CASE u.reflex
    BY <2>3, <2>5, <2>6, <2>7
  <2>8. CASE ~u.reflex
    <3> DEFINE v == Advance(TryFire(u, in), in)
    <3> HIDE DEF v
    <3>1. Keeps(u, v) /\ ~v.reflex /\ Decided(s0, in) = v
      BY <2>4, <2>5, <2>8 DEF Keeps, v
    <3> QED
      BY <2>6, <3>1, WorthyIfKept, WorthyTwice DEF Heads, GoingHome
  <2> QED
    BY <2>7, <2>8
<1> QED
  BY <1>2, <1>3

----------------------------------------------------------------------------
(* The invariant.                                                          *)

SeatHolds ==
  /\ IsSeat(seat) /\ Worth(seat) = 0
  /\ running => Heads(seat)
  /\ ~running => seat.stage # "Deploying"
  /\ decided => GoingHome(seat)

(* A playbook as it is sealed, over what the seat holds.                   *)
LEMMA SealedHolds ==
  ASSUME NEW p, NEW hp, NEW s, IsSeat(s), s.stage # "Deploying"
  PROVE  LET t == Over(Sealed(p, hp), s)
         IN  Worthy(s, t) /\ t.reflex = FALSE
<1> DEFINE f == Sealed(p, hp)
           t == Over(f, s)
<1>1. /\ f.stage = "NotStarted" /\ f.reflex = FALSE
      /\ {"stage", "reflex", "lastHp", "pinned", "pinnedBeacon"} \subseteq DOMAIN f
      /\ {"treasury", "given", "earned"} \intersect DOMAIN f = {}
  BY DEF Sealed
<1> HIDE DEF f
<1>2. t = [x \in DOMAIN f \union DOMAIN s |-> IF x \in DOMAIN f THEN f[x] ELSE s[x]]
  BY DEF Over
<1> HIDE DEF t
<1>3. /\ DOMAIN t = DOMAIN f \union DOMAIN s
      /\ t.stage = "NotStarted" /\ t.reflex = FALSE
      /\ t.treasury = s.treasury /\ t.given = s.given /\ t.earned = s.earned
  BY <1>1, <1>2 DEF IsSeat
<1>4. IsSeat(t)
  BY <1>3 DEF IsSeat
<1>5. Paid(t) = Paid(s)
  BY <1>3 DEF Paid
<1>6. Worth(t) = Worth(s)
  BY <1>3, <1>5 DEF Worth
<1> QED
  BY <1>3, <1>4, <1>6 DEF Worthy, t, f

LEMMA SeatInit == RunInit => SeatHolds
<1> SUFFICES ASSUME RunInit PROVE SeatHolds
  OBVIOUS
<1> DEFINE f == Sealed(plan, FullHp)
           s == Fresh
<1>1. /\ s.treasury = 0 /\ s.given = 1 /\ s.earned = 0
      /\ {"treasury", "given", "earned", "hp", "at", "dest", "sealed", "living"}
           \subseteq DOMAIN s
  BY DEF Fresh
<1>2. /\ f.stage = "NotStarted" /\ f.reflex = FALSE
      /\ {"stage", "reflex", "lastHp", "pinned", "pinnedBeacon"} \subseteq DOMAIN f
      /\ {"treasury", "given", "earned"} \intersect DOMAIN f = {}
  BY DEF Sealed
<1>3. seat = Over(f, s) /\ running = TRUE /\ decided = FALSE
  BY DEF RunInit
<1> HIDE DEF f, s
<1>4. seat = [x \in DOMAIN f \union DOMAIN s |->
                IF x \in DOMAIN f THEN f[x] ELSE s[x]]
  BY <1>3 DEF Over
<1>5. /\ DOMAIN seat = DOMAIN f \union DOMAIN s
      /\ seat.stage = "NotStarted" /\ seat.reflex = FALSE
      /\ seat.treasury = 0 /\ seat.given = 1 /\ seat.earned = 0
  BY <1>1, <1>2, <1>4
<1>6. IsSeat(seat)
  BY <1>1, <1>2, <1>5 DEF IsSeat
<1>7. Worth(seat) = 0
  <2>1. Placed(1) = 0
    BY PriceIsWhole DEF Placed
  <2> QED
    BY <1>5, <2>1 DEF Worth, Paid
<1> QED
  BY <1>3, <1>5, <1>6, <1>7 DEF SeatHolds, Heads

(* What the world does between two decisions.                              *)
LEMMA WorldHolds ==
  ASSUME SeatHolds, running, running' = running, decided' = FALSE,
         Worthy(seat, seat'), Heads(seat')
  PROVE  SeatHolds'
BY DEF SeatHolds, Worthy, IsSeat, Worth, Paid, Placed, Heads, Alive

LEMMA TravelHolds == SeatHolds /\ Travel => SeatHolds'
<1> SUFFICES ASSUME SeatHolds, Travel PROVE SeatHolds'
  OBVIOUS
<1>1. PICK p : World([seat EXCEPT !.at = p])
  BY DEF Travel
<1> DEFINE t == [seat EXCEPT !.at = p]
<1>2. running /\ seat' = t /\ decided' = FALSE /\ running' = running
  BY <1>1 DEF World
<1>3. IsSeat(seat) /\ Heads(seat)
  BY <1>2 DEF SeatHolds
<1>4. Worthy(seat, t) /\ Heads(t)
  BY <1>3, WorthyIfSame DEF IsSeat, Heads, Alive
<1> QED
  BY <1>2, <1>4, WorldHolds

LEMMA SealsHolds == SeatHolds /\ SealsOff => SeatHolds'
<1> SUFFICES ASSUME SeatHolds, SealsOff PROVE SeatHolds'
  OBVIOUS
<1> DEFINE Now(x) == [seat EXCEPT !.sealed = x]
<1>1. running /\ seat' = Now(~seat.sealed) /\ decided' = FALSE /\ running' = running
  BY DEF SealsOff, World
<1>2. IsSeat(seat) /\ Heads(seat)
  BY <1>1 DEF SeatHolds
<1>3. ASSUME NEW x PROVE Worthy(seat, Now(x)) /\ Heads(Now(x))
  BY <1>2, WorthyIfSame DEF IsSeat, Heads, Alive
<1> HIDE DEF Now
<1> QED
  BY <1>1, <1>3, WorldHolds

LEMMA HurtHolds == SeatHolds /\ Hurt => SeatHolds'
<1> SUFFICES ASSUME SeatHolds, Hurt PROVE SeatHolds'
  OBVIOUS
<1> DEFINE t == [seat EXCEPT !.hp = @ - 1,
                          !.deaths = IF seat.hp = 1 THEN @ + 1 ELSE @]
<1>2. running /\ seat' = t /\ decided' = FALSE /\ running' = running
  BY DEF Hurt, World
<1>3. IsSeat(seat) /\ Heads(seat)
  BY <1>2 DEF SeatHolds
<1>4. Worthy(seat, t) /\ Heads(t)
  BY <1>2, <1>3, WorthyIfSame DEF IsSeat, Heads, Alive
<1> QED
  BY <1>2, <1>4, WorldHolds

LEMMA MendHolds == SeatHolds /\ Mend => SeatHolds'
<1> SUFFICES ASSUME SeatHolds, Mend PROVE SeatHolds'
  OBVIOUS
<1> DEFINE t == [seat EXCEPT !.hp = @ + 1]
<1>2. running /\ seat' = t /\ decided' = FALSE /\ running' = running
  BY DEF Mend, World
<1>3. IsSeat(seat) /\ Heads(seat)
  BY <1>2 DEF SeatHolds
<1>4. Worthy(seat, t) /\ Heads(t)
  BY <1>2, <1>3, WorthyIfSame DEF IsSeat, Heads, Alive
<1> QED
  BY <1>2, <1>4, WorldHolds

(* A commander comes back only once a decision has seen it dead, and the   *)
(* reflex is over with that decision.                                      *)
LEMMA ReturnedIsWorthy ==
  ASSUME NEW s, NEW b, IsSeat(s)
  PROVE  /\ Worthy(s, Returned(s, b)) /\ Returned(s, b).reflex = s.reflex
         /\ Returned(s, b).stage = s.stage
BY WorthyIfSame DEF Returned, IsSeat

LEMMA RespawnHolds == SeatHolds /\ Respawn => SeatHolds'
<1> SUFFICES ASSUME SeatHolds, Respawn PROVE SeatHolds'
  OBVIOUS
<1>1. PICK b : World(Returned(seat, b))
  BY DEF Respawn
<1>2. /\ running /\ seat' = Returned(seat, b) /\ decided' = FALSE
      /\ running' = running /\ seat.lastHp = 0
  BY <1>1 DEF World, Respawn
<1>3. IsSeat(seat) /\ ~seat.reflex
  BY <1>2 DEF SeatHolds, Heads
<1>4. Worthy(seat, seat') /\ Heads(seat')
  BY <1>2, <1>3, ReturnedIsWorthy DEF Heads
<1> QED
  BY <1>2, <1>4, WorldHolds

LEMMA LoseHolds == SeatHolds /\ Lose => SeatHolds'
<1> SUFFICES ASSUME SeatHolds, Lose PROVE SeatHolds'
  OBVIOUS
<1>1. PICK b \in Living(seat) :
        World([seat EXCEPT !.living[b] = NoPlace,
                           !.hp = IF Living(seat) = {b} THEN 0 ELSE @])
  BY DEF Lose
<1> DEFINE t == [seat EXCEPT !.living[b] = NoPlace,
                             !.hp = IF Living(seat) = {b} THEN 0 ELSE @]
<1>2. running /\ seat' = t /\ decided' = FALSE /\ running' = running
  BY <1>1 DEF World
<1>3. IsSeat(seat) /\ Heads(seat)
  BY <1>2 DEF SeatHolds
<1>4. /\ Worthy(seat, t) /\ t.reflex = seat.reflex /\ t.lastHp = seat.lastHp
      /\ t.dest = seat.dest /\ t.pinned = seat.pinned
      /\ t.pinnedBeacon = seat.pinnedBeacon
      /\ t.living = [seat.living EXCEPT ![b] = NoPlace]
  BY <1>3, WorthyIfSame DEF IsSeat
<1> HIDE DEF t
<1>5. b \in DOMAIN seat.living
  BY DEF Living
<1>6. ASSUME Alive(t, t.pinnedBeacon)
      PROVE  /\ Alive(seat, seat.pinnedBeacon)
             /\ t.living[t.pinnedBeacon] = seat.living[seat.pinnedBeacon]
  <2>1. t.pinnedBeacon # b
    BY <1>4, <1>5, <1>6 DEF Alive
  <2>2. t.living[t.pinnedBeacon] = seat.living[seat.pinnedBeacon]
    BY <1>4, <2>1
  <2> QED
    BY <1>4, <1>6, <2>2 DEF Alive
<1>7. Heads(t)
  BY <1>3, <1>4, <1>6 DEF Heads
<1> QED
  BY <1>2, <1>4, <1>7, WorldHolds

(* Money that comes in or goes out of the seat's treasury is counted.      *)
Banked(s, n) == [s EXCEPT !.earned = @ + n, !.treasury = @ + n]

LEMMA EarnedIsCounted ==
  ASSUME NEW s, NEW n \in Int, IsSeat(s), Heads(s)
  PROVE  Worthy(s, Banked(s, n)) /\ Heads(Banked(s, n))
<1>1. Worthy(s, Banked(s, n))
  BY PriceIsWhole, OneMoreIsPlaced DEF Worthy, IsSeat, Worth, Paid, Banked
<1>2. Heads(Banked(s, n))
  BY DEF Heads, Alive, IsSeat, Banked
<1> QED
  BY <1>1, <1>2

LEMMA EarnHolds == SeatHolds /\ Earn => SeatHolds'
<1> SUFFICES ASSUME SeatHolds, Earn PROVE SeatHolds'
  OBVIOUS
<1> DEFINE t == Banked(seat, 1)
<1>1. running /\ seat' = t /\ decided' = FALSE /\ running' = running
  BY DEF Earn, World, Banked
<1>2. IsSeat(seat) /\ Heads(seat)
  BY <1>1 DEF SeatHolds
<1>3. Worthy(seat, t) /\ Heads(t)
  BY <1>2, EarnedIsCounted
<1> QED
  BY <1>1, <1>3, WorldHolds

LEMMA SpendHolds == SeatHolds /\ Spend => SeatHolds'
<1> SUFFICES ASSUME SeatHolds, Spend PROVE SeatHolds'
  OBVIOUS
<1> DEFINE t == Banked(seat, -1)
<1>1. running /\ decided' = FALSE /\ running' = running
        /\ seat' = [seat EXCEPT !.earned = @ - 1, !.treasury = @ - 1]
  BY DEF Spend, World
<1>2. IsSeat(seat) /\ Heads(seat)
  BY <1>1 DEF SeatHolds
<1>3. Worthy(seat, t) /\ Heads(t)
  BY <1>2, EarnedIsCounted
<1>4. seat' = t
  <2>1. seat.earned - 1 = seat.earned + (-1) /\ seat.treasury - 1 = seat.treasury + (-1)
    BY <1>2 DEF IsSeat
  <2> QED
    BY <1>1, <2>1 DEF Banked
<1> QED
  BY <1>1, <1>3, <1>4, WorldHolds

LEMMA DecideHolds == SeatHolds /\ Decide => SeatHolds'
<1> SUFFICES ASSUME SeatHolds, Decide PROVE SeatHolds'
  OBVIOUS
<1>1. PICK in \in Inputs(seat) : seat' = Decided(seat, in)
  BY DEF Decide
<1>2. running /\ running' = running
  BY DEF Decide
<1>3. in.pick \in Living(seat)
  BY DEF Inputs
<1> DEFINE d == Decided(seat, in)
<1>4. Worthy(seat, d) /\ Heads(d) /\ GoingHome(d)
  BY <1>2, <1>3, DecidedHolds DEF SeatHolds
<1> HIDE DEF d
<1>5. seat' = d
  BY <1>1 DEF d
<1> QED
  BY <1>2, <1>4, <1>5
  DEF SeatHolds, Worthy, IsSeat, Worth, Paid, Placed, Heads, GoingHome, Alive

(* A segment that closes gives back what a deploy had been charged.        *)
LEMMA AbandonKeeps ==
  ASSUME NEW s, IsSeat(s)
  PROVE  Worthy(s, Abandon(s)) /\ Abandon(s).stage # "Deploying"
BY DropKeeps, WorthyIfKept, WorthyIfSame DEF Abandon

LEMMA CloseSegmentHolds == SeatHolds /\ CloseSegment => SeatHolds'
<1> SUFFICES ASSUME SeatHolds, CloseSegment PROVE SeatHolds'
  OBVIOUS
<1>1. IsSeat(seat) /\ running' = FALSE /\ decided' = FALSE
  BY DEF SeatHolds, CloseSegment
<1>2. \/ seat' = Abandon(seat)
      \/ \E b : seat' = Abandon(Returned(seat, b))
  BY DEF CloseSegment
<1>3. ASSUME NEW b
      PROVE  /\ Worthy(seat, Abandon(Returned(seat, b)))
             /\ Abandon(Returned(seat, b)).stage # "Deploying"
  <2>1. Worthy(seat, Returned(seat, b))
    BY <1>1, ReturnedIsWorthy
  <2> QED
    BY <2>1, AbandonKeeps, WorthyTwice DEF Worthy
<1>4. Worthy(seat, Abandon(seat)) /\ Abandon(seat).stage # "Deploying"
  BY <1>1, AbandonKeeps
<1>5. Worthy(seat, seat') /\ seat'.stage # "Deploying"
  BY <1>2, <1>3, <1>4
<1> QED
  BY <1>1, <1>5 DEF SeatHolds, Worthy, IsSeat, Worth, Paid, Placed

LEMMA OpenPushHolds == SeatHolds /\ OpenPush => SeatHolds'
<1> SUFFICES ASSUME SeatHolds, OpenPush PROVE SeatHolds'
  OBVIOUS
<1> DEFINE s == [seat EXCEPT !.deaths = 0]
           p == plan'
           t == Over(Sealed(p, seat.hp), s)
<1>1. seat' = t /\ running' = TRUE /\ decided' = FALSE
  BY DEF OpenPush
<1>2. IsSeat(seat) /\ seat.stage # "Deploying"
  BY DEF SeatHolds, OpenPush
<1>3. Worthy(seat, s) /\ IsSeat(s) /\ s.stage # "Deploying"
  BY <1>2, WorthyIfSame DEF IsSeat
<1> HIDE DEF s, p
<1>4. Worthy(s, t) /\ t.reflex = FALSE
  BY <1>3, SealedHolds
<1> HIDE DEF t
<1>5. Worthy(seat, t)
  BY <1>3, <1>4, WorthyTwice
<1> QED
  BY <1>1, <1>4, <1>5
  DEF SeatHolds, Worthy, IsSeat, Worth, Paid, Placed, Heads

LEMMA SeatNext == SeatHolds /\ [RunNext]_runVars => SeatHolds'
<1> SUFFICES ASSUME SeatHolds, [RunNext]_runVars PROVE SeatHolds'
  OBVIOUS
<1>1. CASE Decide
  BY <1>1, DecideHolds
<1>2. CASE Travel \/ SealsOff \/ Hurt \/ Mend
  BY <1>2, TravelHolds, SealsHolds, HurtHolds, MendHolds
<1>3. CASE Respawn \/ Lose \/ Earn \/ Spend
  BY <1>3, RespawnHolds, LoseHolds, EarnHolds, SpendHolds
<1>4. CASE CloseSegment \/ OpenPush
  BY <1>4, CloseSegmentHolds, OpenPushHolds
<1>5. CASE UNCHANGED runVars
  BY <1>5 DEF runVars, SeatHolds, IsSeat, Worth, Paid, Placed, Heads, GoingHome, Alive
<1> QED
  BY <1>1, <1>2, <1>3, <1>4, <1>5 DEF RunNext

----------------------------------------------------------------------------
(* What a pass over a step needs of the seat, and leaves of it.            *)

StepFields ==
  {"stage", "pinned", "visit", "row", "restart", "resumed", "living", "given",
   "hp", "lastHp", "at", "dest", "reflex", "rule", "ruleStep", "cursor"}

Shape(s) ==
  /\ StepFields \subseteq DOMAIN s
  /\ s.hp \in Nat /\ s.row \in Nat \ {0}
  /\ DOMAIN s.living = 1..MaxBeacons /\ s.given \in 1..MaxBeacons
  /\ "row" \in DOMAIN s.restart /\ s.restart.row \in Nat \ {0}

(* No step is under way.                                                   *)
Calm(s) == Shape(s) /\ s.stage = "NotStarted" /\ s.visit = NoBeacon

(* The step waits for the commander where it has sent it, and time is paid *)
(* only in a visit or a deploy.                                            *)
Walks(step) == step.action \in {"move", "interface", "place"}
PaysTime(step) == step.action \notin {"move", "hold", "wait", "broadcast"}

OnItsWay(s, step) ==
  /\ s.stage # "NotStarted"
  /\ Alive(s, s.visit) => s.living[s.visit] = s.pinned
  /\ s.stage = "Running" /\ Walks(step) => s.dest = s.pinned
  /\ s.stage \in Busy => PaysTime(step)

(* That, and the commander stands where time is paid.                      *)
InPlace(s, step) ==
  /\ s.stage \in Busy => s.at = s.pinned
  /\ s.stage \in {"Handshake", "Committing"} /\ (step.action = "interface" \/ s.resumed) =>
       \/ Alive(s, s.visit) /\ s.at = s.living[s.visit]
       \/ \E r \in 1..(s.row - 1) : step.rows[r] = "recycle"

(* A pass over a step leaves alone whose turn it is.                       *)
SameTurn(s, t) ==
  /\ t.rule = s.rule /\ t.ruleStep = s.ruleStep /\ t.cursor = s.cursor
  /\ t.reflex = s.reflex /\ t.lastHp = s.lastHp /\ t.hp = s.hp

Began(s, r, step) ==
  Shape(r.s) /\ SameTurn(s, r.s) /\ (r.out # "Failed" => OnItsWay(r.s, step))

Passed(s, r, step) ==
  /\ Shape(r.s) /\ SameTurn(s, r.s)
  /\ r.out = "Running" => OnItsWay(r.s, step) /\ InPlace(r.s, step)

LEMMA DropCalms ==
  ASSUME NEW s, Shape(s)
  PROVE  Calm(Drop(s)) /\ SameTurn(s, Drop(s))
<1>1. CASE s.stage = "Deploying"
  BY <1>1 DEF Calm, Shape, StepFields, SameTurn, Drop, ClearStep
<1>2. CASE s.stage # "Deploying"
  BY <1>2 DEF Calm, Shape, StepFields, SameTurn, Drop, ClearStep
<1> QED
  BY <1>1, <1>2

LEMMA ForgetShapes ==
  ASSUME NEW s, Shape(s)
  PROVE  /\ Shape(Forget(s)) /\ SameTurn(s, Forget(s))
         /\ Forget(s).stage = s.stage /\ Forget(s).visit = s.visit
BY DEF Shape, StepFields, SameTurn, Forget, NoRestart

LEMMA WalkShapes ==
  ASSUME NEW s, NEW p, Shape(s)
  PROVE  /\ Shape(Walk(s, p)) /\ SameTurn(s, Walk(s, p))
         /\ Walk(s, p).dest = p /\ Walk(s, p).stage = s.stage
         /\ Walk(s, p).visit = s.visit /\ Walk(s, p).pinned = s.pinned
         /\ Walk(s, p).living = s.living
BY DEF Shape, StepFields, SameTurn, Walk

(* A step that ends, however, is forgotten.                                *)
LEMMA EndedCalms ==
  ASSUME NEW s, Shape(s)
  PROVE  Calm(Drop(Forget(s))) /\ SameTurn(s, Drop(Forget(s)))
<1>1. Shape(Forget(s)) /\ SameTurn(s, Forget(s))
  BY ForgetShapes
<1> QED
  BY <1>1, DropCalms DEF SameTurn

LEMMA EnterFallbackCalms ==
  ASSUME NEW s, Shape(s), s.stage = "NotStarted" => s.visit = NoBeacon
  PROVE  /\ Calm(EnterFallback(s)) /\ EnterFallback(s).reflex = s.reflex
         /\ EnterFallback(s).lastHp = s.lastHp /\ EnterFallback(s).hp = s.hp
<1> DEFINE t == [s EXCEPT !.rule = NoIndex, !.ruleStep = 1, !.cursor = NoIndex]
<1>1. Shape(t) /\ t.reflex = s.reflex /\ t.lastHp = s.lastHp /\ t.hp = s.hp
  BY DEF Shape, StepFields
<1> HIDE DEF t
<1>2. Calm(Drop(Forget(t))) /\ SameTurn(t, Drop(Forget(t)))
  BY <1>1, EndedCalms
<1>3. EnterFallback(s) = Drop(Forget(t)) \/ (EnterFallback(s) = s /\ s.stage = "NotStarted")
  BY DEF EnterFallback, t
<1> QED
  BY <1>1, <1>2, <1>3 DEF Calm, SameTurn

LEMMA BeginVisitPasses ==
  ASSUME NEW s, NEW step, Shape(s), s.stage = "Running", PaysTime(step),
         Alive(s, s.visit), s.living[s.visit] = s.pinned, s.at = s.living[s.visit]
  PROVE  Passed(s, BeginVisit(s), step)
BY DEF BeginVisit, Running, Passed, Shape, StepFields, SameTurn, OnItsWay, InPlace,
       Alive, Busy

LEMMA BeginDeployPasses ==
  ASSUME NEW s, NEW step, NEW in, Shape(s), s.stage = "Running", PaysTime(step),
         Alive(s, s.visit) => s.living[s.visit] = s.pinned, s.at = s.pinned
  PROVE  Passed(s, BeginDeploy(s, s.pinned, in), step)
<1> DEFINE t == [s EXCEPT !.treasury = @ - Cost, !.timeout = NoTick,
                          !.stage = "Deploying", !.left = Deploy]
<1>1. /\ Shape(t) /\ SameTurn(s, t) /\ t.stage = "Deploying" /\ t.at = s.at
      /\ t.pinned = s.pinned /\ t.visit = s.visit /\ t.living = s.living
  BY DEF Shape, StepFields, SameTurn
<1> HIDE DEF t
<1>2. Passed(s, Running(t), step)
  BY <1>1 DEF Passed, Running, OnItsWay, InPlace, Alive, Busy
<1>3. Passed(s, Failed(s), step)
  BY DEF Passed, Failed, SameTurn
<1>4. BeginDeploy(s, s.pinned, in) \in {Failed(s), Running(t)}
  BY DEF BeginDeploy, t
<1> QED
  BY <1>2, <1>3, <1>4

LEMMA VisitBegins ==
  ASSUME NEW s, NEW b, NEW in, NEW step, Shape(s), s.stage = "Running", PaysTime(step)
  PROVE  Began(s, Visit(s, b, in), step)
<1> DEFINE p == s.living[b]
           t == [s EXCEPT !.pinned = p, !.pinnedBeacon = b, !.visit = b]
<1>1. /\ Shape(t) /\ SameTurn(s, t) /\ t.stage = "Running" /\ t.visit = b
      /\ t.living = s.living /\ t.pinned = p
  BY DEF Shape, StepFields, SameTurn
<1>2. t.living[b] = t.pinned
  BY <1>1
<1> HIDE DEF t, p
<1>3. Began(s, BeginVisit(t), step)
  <2> DEFINE u == BeginVisit(t).s
  <2>1. /\ Shape(u) /\ SameTurn(t, u) /\ u.stage = "Handshake" /\ u.visit = t.visit
        /\ u.living = t.living /\ u.pinned = t.pinned
    BY <1>1 DEF BeginVisit, Running, Shape, StepFields, SameTurn
  <2> HIDE DEF u
  <2>2. OnItsWay(u, step)
    BY <1>1, <1>2, <2>1 DEF OnItsWay
  <2> QED
    BY <1>1, <2>1, <2>2 DEF Began, SameTurn, u
<1>4. Began(s, WalkIn(t, p, in), step)
  <2>1. /\ Shape(Walk(t, p)) /\ SameTurn(t, Walk(t, p)) /\ Walk(t, p).stage = "Running"
        /\ Walk(t, p).dest = p /\ Walk(t, p).visit = b /\ Walk(t, p).pinned = p
        /\ Walk(t, p).living[b] = p
    BY <1>1, <1>2, WalkShapes
  <2>2. OnItsWay(Walk(t, p), step)
    BY <2>1 DEF OnItsWay, Busy
  <2> QED
    BY <1>1, <2>1, <2>2 DEF Began, WalkIn, Running, Failed, SameTurn
<1>5. Visit(s, b, in) \in {BeginVisit(t), WalkIn(t, p, in)}
  BY DEF Visit, t, p
<1> QED
  BY <1>3, <1>4, <1>5

LEMMA StartPlacementBegins ==
  ASSUME NEW s, NEW step, NEW in, Shape(s), s.stage = "Running",
         s.visit = NoBeacon, PaysTime(step)
  PROVE  Began(s, StartPlacement(s, step, in), step)
<1> DEFINE p == step.at
           t == [s EXCEPT !.pinned = p]
<1>1. /\ Shape(t) /\ SameTurn(s, t) /\ t.stage = "Running" /\ t.visit = NoBeacon
      /\ t.living = s.living /\ t.pinned = p
  BY DEF Shape, StepFields, SameTurn
<1> HIDE DEF t, p
<1>2. Began(s, Failed(t), step)
  BY <1>1 DEF Began, Failed
<1>3. t.at = p => Began(s, BeginDeploy(t, p, in), step)
  <2>1. t.at = p => Passed(t, BeginDeploy(t, p, in), step)
    BY <1>1, BeginDeployPasses DEF Alive
  <2>2. BeginDeploy(t, p, in).out \in {"Failed", "Running"}
    BY DEF BeginDeploy, Failed, Running
  <2> QED
    BY <1>1, <2>1, <2>2 DEF Passed, Began, SameTurn
<1>4. Began(s, WalkIn(t, p, in), step)
  <2>1. /\ Shape(Walk(t, p)) /\ SameTurn(t, Walk(t, p)) /\ Walk(t, p).stage = "Running"
        /\ Walk(t, p).dest = p /\ Walk(t, p).visit = NoBeacon /\ Walk(t, p).pinned = p
    BY <1>1, WalkShapes
  <2>2. OnItsWay(Walk(t, p), step)
    BY <2>1 DEF OnItsWay, Busy, Alive
  <2> QED
    BY <1>1, <2>1, <2>2 DEF Began, WalkIn, Running, Failed, SameTurn
<1>5. \/ StartPlacement(s, step, in) \in {Failed(t), WalkIn(t, p, in)}
      \/ t.at = p /\ StartPlacement(s, step, in) = BeginDeploy(t, p, in)
  BY DEF StartPlacement, t, p
<1> QED
  BY <1>2, <1>3, <1>4, <1>5

(* A step starts by sending the commander where it will wait for it.       *)
LEMMA StartBegins ==
  ASSUME NEW s, NEW step, NEW i, NEW in, Calm(s)
  PROVE  Began(s, Start(s, step, i, in), step)
<1> DEFINE resumes == Resumes(s, step, i)
           r == IF resumes THEN s ELSE Forget(s)
           t == [r EXCEPT
                   !.stage = "Running", !.row = 1,
                   !.timeout = IF step.ms = 0 THEN NoTick ELSE step.ms,
                   !.left = IF step.action = "hold" THEN step.hold ELSE 0]
           moving == [t EXCEPT !.pinned = step.at]
           again == [t EXCEPT !.resumed = TRUE, !.row = t.restart.row]
           run == Start(s, step, i, in)
<1>1. Shape(r) /\ SameTurn(s, r) /\ r.visit = NoBeacon
  BY ForgetShapes DEF Calm, SameTurn
<1> HIDE DEF r
<1>2. Shape(t) /\ SameTurn(s, t) /\ t.stage = "Running" /\ t.visit = NoBeacon
  BY <1>1 DEF Shape, StepFields, SameTurn
<1>3. resumes \in BOOLEAN
  BY DEF Resumes
<1> HIDE DEF t, resumes
<1>4. Began(s, Failed(t), step)
  BY <1>2 DEF Began, Failed
<1>5. CASE step.action = "move"
  <2>1. Shape(moving) /\ SameTurn(t, moving) /\ moving.stage = "Running"
          /\ moving.visit = NoBeacon /\ moving.pinned = step.at
    BY <1>2 DEF Shape, StepFields, SameTurn
  <2> HIDE DEF moving
  <2> DEFINE w == Walk(moving, step.at)
  <2>2. Shape(w) /\ SameTurn(moving, w) /\ w.stage = "Running" /\ w.visit = NoBeacon
          /\ w.dest = step.at /\ w.pinned = step.at
    BY <2>1, WalkShapes
  <2> HIDE DEF w
  <2>3. Began(s, Running(w), step)
    BY <1>2, <2>1, <2>2 DEF Began, Running, OnItsWay, Alive, Busy, SameTurn
  <2>4. run \in {Failed(t), Running(w)}
    BY <1>5 DEF Start, w, moving, t, r, resumes
  <2> QED
    BY <1>4, <2>3, <2>4
<1>6. CASE step.action = "interface"
  <2>1. Began(t, Visit(t, in.pick, in), step)
    BY <1>2, <1>6, VisitBegins DEF PaysTime
  <2>2. run \in {Failed(t), Visit(t, in.pick, in)}
    BY <1>6 DEF Start, t, r, resumes
  <2> QED
    BY <1>2, <1>4, <2>1, <2>2 DEF Began, SameTurn
<1>7. CASE step.action = "place" /\ resumes
  <2>1. Shape(again) /\ SameTurn(t, again) /\ again.stage = "Running"
    BY <1>2 DEF Shape, StepFields, SameTurn
  <2> HIDE DEF again
  <2>2. Began(again, Visit(again, t.restart.beacon, in), step)
    BY <1>7, <2>1, VisitBegins DEF PaysTime
  <2>3. run \in {Failed(t), Visit(again, t.restart.beacon, in)}
    BY <1>7 DEF Start, again, t, r, resumes
  <2> QED
    BY <1>2, <1>4, <2>1, <2>2, <2>3 DEF Began, SameTurn
<1>8. CASE step.action = "place" /\ ~resumes
  <2>1. Began(t, StartPlacement(t, step, in), step)
    BY <1>2, <1>8, StartPlacementBegins DEF PaysTime
  <2>2. run = StartPlacement(t, step, in)
    BY <1>8 DEF Start, t, r, resumes
  <2> QED
    BY <1>2, <2>1, <2>2 DEF Began, SameTurn
<1>9. CASE ~Walks(step)
  <2>1. run = Running(t)
    BY <1>9 DEF Start, Walks, t, r, resumes
  <2>2. OnItsWay(t, step)
    BY <1>2, <1>9 DEF OnItsWay, Alive, Busy
  <2> QED
    BY <1>2, <2>1, <2>2 DEF Began, Running
<1> QED
  BY <1>3, <1>5, <1>6, <1>7, <1>8, <1>9 DEF Walks

LEMMA WalkToVisitPasses ==
  ASSUME NEW s, NEW in, NEW step, Shape(s), OnItsWay(s, step), s.stage = "Running",
         PaysTime(step)
  PROVE  Passed(s, WalkToVisit(s, in), step)
<1>1. Passed(s, Failed(s), step) /\ Passed(s, Running(s), step)
  BY DEF Passed, Failed, Running, SameTurn, InPlace, Busy
<1>2. Alive(s, s.visit) /\ s.at = s.living[s.visit] => Passed(s, BeginVisit(s), step)
  BY BeginVisitPasses DEF OnItsWay
<1> QED
  BY <1>1, <1>2 DEF WalkToVisit

LEMMA WalkToDeployPasses ==
  ASSUME NEW s, NEW in, NEW step, Shape(s), OnItsWay(s, step), s.stage = "Running",
         PaysTime(step)
  PROVE  Passed(s, WalkToDeploy(s, in), step)
<1>1. Passed(s, Failed(s), step) /\ Passed(s, Running(s), step)
  BY DEF Passed, Failed, Running, SameTurn, InPlace, Busy
<1>2. s.at = s.pinned => Passed(s, BeginDeploy(s, s.pinned, in), step)
  BY BeginDeployPasses DEF OnItsWay
<1> QED
  BY <1>1, <1>2 DEF WalkToDeploy

(* A row that recycles the beacon of the visit is behind it.               *)
LEMMA CommitRowPasses ==
  ASSUME NEW s, NEW step, NEW keeps, Shape(s), OnItsWay(s, step), s.at = s.pinned,
         Alive(s, s.visit), s.stage # "Running"
  PROVE  Passed(s, CommitRow(s, step.rows, keeps), step)
<1> DEFINE rows == step.rows
           gone == rows[s.row] = "recycle"
           t == [s EXCEPT !.row = @ + 1,
                   !.living[s.visit] = IF gone THEN NoPlace ELSE @,
                   !.treasury = IF gone THEN @ + Refund ELSE @,
                   !.earned = IF gone THEN @ + Refund ELSE @]
           u == IF keeps THEN [t EXCEPT !.restart.row = t.row] ELSE t
           v == [u EXCEPT !.left = RowTime]
           Fits(x) == /\ Shape(x) /\ SameTurn(s, x) /\ OnItsWay(x, step)
                      /\ InPlace(x, step)
<1>1. /\ Shape(t) /\ SameTurn(s, t) /\ t.row = s.row + 1 /\ t.at = s.at
      /\ t.pinned = s.pinned /\ t.visit = s.visit /\ t.stage = s.stage
      /\ t.resumed = s.resumed
      /\ t.living = [s.living EXCEPT ![s.visit] = IF gone THEN NoPlace ELSE @]
  BY DEF Shape, StepFields, SameTurn
<1> HIDE DEF t
<1>2. Alive(t, t.visit) => t.living[t.visit] = s.living[s.visit]
  <2>1. CASE s.visit \in DOMAIN s.living
    BY <1>1, <2>1 DEF Alive
  <2>2. CASE s.visit \notin DOMAIN s.living
    BY <1>1, <2>2
  <2> QED
    BY <2>1, <2>2
<1>3. OnItsWay(t, step)
  BY <1>1, <1>2 DEF OnItsWay
<1>4. InPlace(t, step)
  <2>1. CASE gone
    <3>1. s.row \in 1..(t.row - 1)
      BY <1>1 DEF Shape
    <3> QED
      BY <1>1, <2>1, <3>1 DEF InPlace
  <2>2. CASE ~gone
    <3>1. t.living[t.visit] = s.living[s.visit]
      BY <1>1, <2>2
    <3> QED
      BY <1>1, <3>1 DEF InPlace, OnItsWay, Alive
  <2> QED
    BY <2>1, <2>2
<1>5. Fits(t)
  BY <1>1, <1>3, <1>4
<1>6. Fits(u)
  <2>1. CASE keeps
    BY <1>1, <1>5, <2>1 DEF Shape, StepFields, SameTurn, OnItsWay, InPlace, Alive
  <2>2. CASE ~keeps
    BY <1>5, <2>2
  <2> QED
    BY <2>1, <2>2
<1> HIDE DEF u
<1>7. Fits(v)
  BY <1>6 DEF Shape, StepFields, SameTurn, OnItsWay, InPlace, Alive
<1> HIDE DEF v
<1>8. CommitRow(s, step.rows, keeps) \in {Running(v), Complete(u)}
  BY DEF CommitRow, t, u, v
<1> QED
  BY <1>6, <1>7, <1>8 DEF Passed, Running, Complete

LEMMA RunVisitPasses ==
  ASSUME NEW s, NEW in, NEW step, Shape(s), OnItsWay(s, step), PaysTime(step),
         s.stage # "Running"
  PROVE  Passed(s, RunVisit(s, step.rows, in), step)
<1> DEFINE rows == step.rows
           t == [s EXCEPT !.stage = "Committing"]
           u == [t EXCEPT !.left = RowTime]
<1>1. Passed(s, Failed(s), step) /\ Passed(s, Complete(s), step)
  BY DEF Passed, Failed, Complete, SameTurn
<1>2. CASE VisitIsOver(s)
  BY <1>1, <1>2 DEF RunVisit
<1>3. CASE ~VisitIsOver(s)
  <2>1. Alive(s, s.visit) /\ s.at = s.living[s.visit] /\ s.at = s.pinned
    BY <1>3 DEF VisitIsOver, OnItsWay
  <2>2. Passed(s, Running(s), step)
    BY <2>1 DEF Passed, Running, SameTurn, InPlace
  <2>3. /\ Shape(t) /\ SameTurn(s, t) /\ t.stage = "Committing" /\ t.visit = s.visit
        /\ t.living = s.living /\ t.at = s.at /\ t.pinned = s.pinned
    BY DEF Shape, StepFields, SameTurn
  <2> HIDE DEF t
  <2>4. Passed(s, Complete(t), step)
    BY <2>3 DEF Passed, Complete
  <2>5. /\ Shape(u) /\ SameTurn(s, u) /\ u.stage = "Committing" /\ u.visit = s.visit
        /\ u.living = s.living /\ u.at = s.at /\ u.pinned = s.pinned
    BY <2>3 DEF Shape, StepFields, SameTurn
  <2> HIDE DEF u
  <2>6. Passed(s, Running(u), step)
    BY <2>1, <2>5 DEF Passed, Running, OnItsWay, InPlace, Alive
  <2>7. Passed(s, CommitRow(s, rows, s.resumed), step)
    BY <2>1, CommitRowPasses
  <2>8. RunVisit(s, rows, in) \in
          {Failed(s), Complete(s), Running(s), Complete(t), Running(u),
           CommitRow(s, rows, s.resumed)}
    BY DEF RunVisit, t, u
  <2> QED
    BY <1>1, <2>2, <2>4, <2>6, <2>7, <2>8
<1> QED
  BY <1>2, <1>3

(* The beacon is placed where the commander stands.                        *)
LEMMA PlaceBeaconPasses ==
  ASSUME NEW s, NEW i, NEW step, Shape(s), PaysTime(step), step.action # "interface",
         ~s.resumed, s.at = s.pinned, s.given # MaxBeacons
  PROVE  Passed(s, PlaceBeacon(s, i, step.rows), step)
<1> DEFINE b == s.given + 1
           t == [s EXCEPT !.given = b, !.living[b] = s.pinned, !.visit = b,
                   !.pinnedBeacon = b, !.stage = "Committing", !.row = 1,
                   !.restart = [beacon |-> b, rule |-> s.rule, at |-> i, row |-> 1]]
           u == [t EXCEPT !.left = RowTime]
           Fits(x) == /\ Shape(x) /\ SameTurn(s, x) /\ x.stage = "Committing"
                      /\ x.at = s.at /\ x.pinned = s.pinned /\ x.resumed = s.resumed
                      /\ x.living[x.visit] = x.pinned
<1>1. b \in 1..MaxBeacons
  BY InterpreterAssumption DEF Shape
<1>2. /\ StepFields \subseteq DOMAIN t /\ SameTurn(s, t) /\ t.stage = "Committing"
      /\ t.at = s.at /\ t.pinned = s.pinned /\ t.visit = b /\ t.given = b
      /\ t.row = 1 /\ t.hp = s.hp /\ t.resumed = s.resumed
      /\ t.restart = [beacon |-> b, rule |-> s.rule, at |-> i, row |-> 1]
      /\ t.living = [s.living EXCEPT ![b] = s.pinned]
  BY DEF Shape, StepFields, SameTurn
<1> HIDE DEF t
<1>3. Fits(t)
  <2>1. DOMAIN t.living = 1..MaxBeacons /\ t.living[t.visit] = t.pinned
    BY <1>1, <1>2 DEF Shape
  <2>2. "row" \in DOMAIN t.restart /\ t.restart.row = 1
    BY <1>2
  <2>3. Shape(t)
    BY <1>1, <1>2, <2>1, <2>2 DEF Shape
  <2> QED
    BY <1>2, <2>1, <2>3
<1>4. Fits(u)
  BY <1>3 DEF Shape, StepFields, SameTurn
<1> HIDE DEF u
<1>5. ASSUME NEW x, Fits(x) PROVE OnItsWay(x, step) /\ InPlace(x, step)
  BY <1>5 DEF OnItsWay, InPlace, Alive
<1>6. PlaceBeacon(s, i, step.rows) \in {Running(u), Complete(t)}
  BY DEF PlaceBeacon, t, u
<1> QED
  BY <1>3, <1>4, <1>5, <1>6 DEF Passed, Running, Complete

LEMMA RunDeployPasses ==
  ASSUME NEW s, NEW i, NEW in, NEW step, Shape(s), OnItsWay(s, step), PaysTime(step),
         step.action # "interface", ~s.resumed, s.stage # "Running"
  PROVE  Passed(s, RunDeploy(s, i, step.rows, in), step)
<1> DEFINE rows == step.rows
<1>1. Passed(s, Failed(s), step)
  BY DEF Passed, Failed, SameTurn
<1>2. CASE Leaves(s)
  BY <1>1, <1>2 DEF RunDeploy
<1>3. CASE ~Leaves(s)
  <2>1. s.at = s.pinned
    BY <1>3 DEF Leaves
  <2>2. Passed(s, Running(s), step)
    BY <2>1 DEF Passed, Running, SameTurn, InPlace
  <2>3. s.given # MaxBeacons => Passed(s, PlaceBeacon(s, i, rows), step)
    BY <2>1, PlaceBeaconPasses
  <2>4. Alive(s, s.visit) => Passed(s, CommitRow(s, rows, TRUE), step)
    BY <2>1, CommitRowPasses
  <2>5. \/ RunDeploy(s, i, rows, in) \in {Failed(s), Running(s)}
        \/ s.given # MaxBeacons /\ RunDeploy(s, i, rows, in) = PlaceBeacon(s, i, rows)
        \/ Alive(s, s.visit) /\ RunDeploy(s, i, rows, in) = CommitRow(s, rows, TRUE)
    BY DEF RunDeploy
  <2> QED
    BY <1>1, <2>2, <2>3, <2>4, <2>5
<1> QED
  BY <1>2, <1>3

LEMMA LookPasses ==
  ASSUME NEW s, NEW step, NEW i, NEW in, Shape(s), OnItsWay(s, step)
  PROVE  Passed(s, Look(s, step, i, in), step)
<1> DEFINE run == Look(s, step, i, in)
<1>1. Passed(s, Failed(s), step) /\ Passed(s, Complete(s), step)
  BY DEF Passed, Failed, Complete, SameTurn
<1>2. CASE ~PaysTime(step)
  <2>1. Passed(s, Running(s), step)
    BY <1>2 DEF Passed, Running, SameTurn, OnItsWay, InPlace, Busy
  <2>2. run \in {Failed(s), Complete(s), Running(s)}
    BY <1>2 DEF Look, PaysTime
  <2> QED
    BY <1>1, <2>1, <2>2
<1>3. CASE PaysTime(step) /\ (step.action = "interface" \/ s.resumed)
  <2>1. s.stage = "Running" => Passed(s, WalkToVisit(s, in), step)
    BY <1>3, WalkToVisitPasses
  <2>2. s.stage # "Running" => Passed(s, RunVisit(s, step.rows, in), step)
    BY <1>3, RunVisitPasses
  <2>3. \/ run = Failed(s)
        \/ s.stage = "Running" /\ run = WalkToVisit(s, in)
        \/ s.stage # "Running" /\ run = RunVisit(s, step.rows, in)
    BY <1>3 DEF Look, PaysTime
  <2> QED
    BY <1>1, <2>1, <2>2, <2>3
<1>4. CASE PaysTime(step) /\ step.action # "interface" /\ ~s.resumed
  <2>1. s.stage = "Running" => Passed(s, WalkToDeploy(s, in), step)
    BY <1>4, WalkToDeployPasses
  <2>2. s.stage # "Running" => Passed(s, RunDeploy(s, i, step.rows, in), step)
    BY <1>4, RunDeployPasses
  <2>3. \/ run = Failed(s)
        \/ s.stage = "Running" /\ run = WalkToDeploy(s, in)
        \/ s.stage # "Running" /\ run = RunDeploy(s, i, step.rows, in)
    BY <1>4 DEF Look, PaysTime
  <2> QED
    BY <1>1, <2>1, <2>2, <2>3
<1> QED
  BY <1>2, <1>3, <1>4

(* However a pass begins, it leaves the commander where the step needs it. *)
LEMMA RunStepPasses ==
  ASSUME NEW s, NEW step, NEW i, NEW in, Shape(s),
         s.stage = "NotStarted" => s.visit = NoBeacon,
         s.stage # "NotStarted" => OnItsWay(s, step)
  PROVE  Passed(s, RunStep(s, step, i, in), step)
<1> DEFINE t == IF s.stage = "NotStarted" THEN Start(s, step, i, in) ELSE Running(s)
<1>1. Began(s, t, step)
  <2>1. CASE s.stage = "NotStarted"
    BY <2>1, StartBegins DEF Calm
  <2>2. CASE s.stage # "NotStarted"
    BY <2>2 DEF Began, Running, SameTurn
  <2> QED
    BY <2>1, <2>2
<1> HIDE DEF t
<1>2. t.out # "Failed" => Passed(s, Look(t.s, step, i, in), step)
  <2>1. t.out # "Failed" => Passed(t.s, Look(t.s, step, i, in), step)
    BY <1>1, LookPasses DEF Began
  <2> QED
    BY <1>1, <2>1 DEF Began, Passed, SameTurn
<1>3. t.out = "Failed" => Passed(s, t, step)
  BY <1>1 DEF Began, Passed
<1>4. Passed(s, Failed(t.s), step) /\ Passed(s, Complete(s), step)
  BY <1>1 DEF Began, Passed, Failed, Complete, SameTurn
<1>5. \/ RunStep(s, step, i, in) \in {Complete(s), Failed(t.s)}
      \/ t.out = "Failed" /\ RunStep(s, step, i, in) = t
      \/ t.out # "Failed" /\ RunStep(s, step, i, in) = Look(t.s, step, i, in)
  BY DEF RunStep, t
<1> QED
  BY <1>2, <1>3, <1>4, <1>5

----------------------------------------------------------------------------
(* The step of a seat, between decisions and as one leaves it.             *)

(* What is under way is a step of the body or of the route, of a commander *)
(* the last decision saw alive, and never one under the reflex.            *)
OnAStep(s) ==
  /\ ~s.reflex /\ s.lastHp # 0 /\ (s.rule # NoIndex \/ s.cursor # NoIndex)
  /\ OnItsWay(s, Acting(s))

StepHolds(s) ==
  /\ Shape(s)
  /\ IF s.stage = "NotStarted" THEN s.visit = NoBeacon ELSE OnAStep(s)

StepFits(s) ==
  /\ StepHolds(s)
  /\ s.stage # "NotStarted" => s.hp # 0 /\ InPlace(s, Acting(s))

LEMMA CalmFits ==
  ASSUME NEW s, Calm(s)
  PROVE  StepHolds(s) /\ StepFits(s)
BY DEF Calm, StepHolds, StepFits

(* The turn of a step that may be taken.                                   *)
Takes(s) == StepHolds(s) /\ ~s.reflex /\ s.lastHp # 0 /\ s.hp # 0

LEMMA PassFits ==
  ASSUME NEW s, NEW r, Takes(s), s.rule # NoIndex \/ s.cursor # NoIndex,
         Passed(s, r, Acting(s)), r.out = "Running"
  PROVE  StepFits(r.s)
<1>1. Acting(r.s) = Acting(s)
  BY DEF Passed, SameTurn, Acting
<1> QED
  BY <1>1 DEF StepFits, StepHolds, OnAStep, OnItsWay, Passed, SameTurn, Takes

LEMMA EndBodyCalms ==
  ASSUME NEW s, NEW resume, NEW to, Shape(s)
  PROVE  Calm(EndBody(s, resume, to))
<1> DEFINE r == [s EXCEPT !.rule = NoIndex, !.ruleStep = 1]
           t == Drop(Forget(r))
           u == [t EXCEPT !.cursor = CASE resume = "skip" -> Later(@)
                                       [] resume = "jump" -> Jumped(t, to)
                                       [] OTHER -> @]
<1>1. Shape(r)
  BY DEF Shape, StepFields
<1> HIDE DEF r
<1>2. Calm(t)
  BY <1>1, EndedCalms
<1> HIDE DEF t
<1>3. Calm(u)
  BY <1>2 DEF Calm, Shape, StepFields
<1> HIDE DEF u
<1>4. Calm(EnterFallback(u))
  BY <1>3, EnterFallbackCalms DEF Calm
<1>5. EndBody(s, resume, to) \in {u, EnterFallback(u)}
  BY DEF EndBody, u, t, r
<1> QED
  BY <1>3, <1>4, <1>5

LEMMA AdvanceBodyFits ==
  ASSUME NEW s, NEW in, Takes(s), s.rule # NoIndex
  PROVE  StepFits(AdvanceBody(s, in))
<1> DEFINE rule == plan.rules[s.rule]
           step == rule.body[s.ruleStep]
           run == RunStep(s, step, s.ruleStep, in)
           t == Drop(Forget(run.s))
           u == [t EXCEPT !.ruleStep = @ + 1]
<1>1. Acting(s) = step
  BY DEF Acting
<1>2. Passed(s, run, step)
  <2> HIDE DEF step
  <2> QED
    BY <1>1, RunStepPasses DEF Takes, StepHolds, OnAStep
<1> HIDE DEF run, step, rule
<1>3. run.out = "Running" => StepFits(run.s)
  BY <1>1, <1>2, PassFits
<1>4. Calm(t)
  BY <1>2, EndedCalms DEF Passed
<1> HIDE DEF t
<1>5. Calm(u)
  BY <1>4 DEF Calm, Shape, StepFields
<1> HIDE DEF u
<1>6. \A resume, to : /\ StepFits(EndBody(t, resume, to))
                      /\ StepFits(EndBody(u, resume, to))
  BY <1>4, <1>5, EndBodyCalms, CalmFits DEF Calm
<1>7. \/ run.out = "Running" /\ AdvanceBody(s, in) = run.s
      \/ AdvanceBody(s, in) \in
           {u, EndBody(t, rule.resume, rule.to), EndBody(t, "jump", step.to),
            EndBody(u, rule.resume, rule.to)}
  BY DEF AdvanceBody, u, t, run, step, rule
<1> QED
  BY <1>3, <1>5, <1>6, <1>7, CalmFits

LEMMA AdvanceRouteFits ==
  ASSUME NEW s, NEW in, Takes(s), s.rule = NoIndex, s.cursor # NoIndex
  PROVE  StepFits(AdvanceRoute(s, in))
<1> DEFINE step == plan.route[s.cursor]
           run == RunStep(s, step, s.cursor, in)
           t == Drop(Forget(run.s))
<1>1. Acting(s) = step
  BY DEF Acting
<1>2. Passed(s, run, step)
  <2> HIDE DEF step
  <2> QED
    BY <1>1, RunStepPasses DEF Takes, StepHolds, OnAStep
<1> HIDE DEF run, step
<1>3. run.out = "Running" => StepFits(run.s)
  BY <1>1, <1>2, PassFits
<1>4. Calm(t)
  BY <1>2, EndedCalms DEF Passed
<1> HIDE DEF t
<1>5. ASSUME NEW next PROVE StepFits([t EXCEPT !.cursor = next])
  <2>1. Calm([t EXCEPT !.cursor = next])
    BY <1>4 DEF Calm, Shape, StepFields
  <2> QED
    BY <2>1, CalmFits
<1>6. StepFits(EnterFallback(s)) /\ StepFits(EnterFallback(t))
  BY <1>4, EnterFallbackCalms, CalmFits DEF Calm, Takes, StepHolds
<1>7. \/ run.out = "Running" /\ AdvanceRoute(s, in) = run.s
      \/ AdvanceRoute(s, in) \in {EnterFallback(s), EnterFallback(t)}
      \/ \E next : AdvanceRoute(s, in) = [t EXCEPT !.cursor = next]
  BY DEF AdvanceRoute, t, run, step
<1> QED
  BY <1>3, <1>5, <1>6, <1>7

(* The tail takes no step.                                                 *)
LEMMA RunFallbackCalms ==
  ASSUME NEW s, NEW in, Calm(s)
  PROVE  Calm(RunFallback(s, in))
<1>1. ASSUME NEW next PROVE Calm([s EXCEPT !.leg = next, !.pinned = NoPlace])
  BY DEF Calm, Shape, StepFields
<1>2. ASSUME NEW target PROVE Calm(Walk([s EXCEPT !.pinned = target], target))
  <2> DEFINE t == [s EXCEPT !.pinned = target]
  <2>1. Calm(t)
    BY DEF Calm, Shape, StepFields
  <2> HIDE DEF t
  <2>2. Calm(Walk(t, target))
    BY <2>1, WalkShapes DEF Calm
  <2> QED
    BY <2>2 DEF t
<1>3. \/ RunFallback(s, in) = s
      \/ \E next : RunFallback(s, in) = [s EXCEPT !.leg = next, !.pinned = NoPlace]
      \/ \E target : RunFallback(s, in) = Walk([s EXCEPT !.pinned = target], target)
  BY DEF RunFallback
<1> QED
  BY <1>1, <1>2, <1>3

LEMMA AdvanceFits ==
  ASSUME NEW s, NEW in, Takes(s)
  PROVE  StepFits(Advance(s, in))
<1>1. CASE s.rule # NoIndex
  BY <1>1, AdvanceBodyFits DEF Advance
<1>2. CASE s.rule = NoIndex /\ s.cursor # NoIndex
  BY <1>2, AdvanceRouteFits DEF Advance
<1>3. CASE s.rule = NoIndex /\ s.cursor = NoIndex
  <2>1. Calm(s)
    BY <1>3 DEF Takes, StepHolds, OnAStep, Calm
  <2> QED
    BY <1>3, <2>1, RunFallbackCalms, CalmFits DEF Advance
<1> QED
  BY <1>1, <1>2, <1>3

LEMMA TryFireTakes ==
  ASSUME NEW s, NEW in, Takes(s)
  PROVE  Takes(TryFire(s, in))
<1> DEFINE t == Drop(s)
           Fired(r) == [t EXCEPT !.rule = r, !.ruleStep = 1, !.fires[r] = @ + 1,
                                 !.ready[r] = plan.rules[r].cooldown]
<1>1. Calm(t) /\ SameTurn(s, t)
  BY DropCalms DEF Takes, StepHolds
<1> HIDE DEF t
<1>2. ASSUME NEW r PROVE Takes(Fired(r))
  <2> DEFINE u == Fired(r)
  <2>1. Calm(u) /\ u.reflex = t.reflex /\ u.lastHp = t.lastHp /\ u.hp = t.hp
    BY <1>1 DEF Calm, Shape, StepFields
  <2> HIDE DEF u
  <2>2. Takes(u)
    BY <1>1, <2>1, CalmFits DEF Takes, SameTurn
  <2> QED
    BY <2>2 DEF u
<1>3. TryFire(s, in) = s \/ \E r : TryFire(s, in) = Fired(r)
  BY DEF TryFire, t
<1> HIDE DEF Fired
<1> QED
  BY <1>2, <1>3

(* The reflex drops the step, when it fires and when it is over.           *)
LEMMA RunReflexSteps ==
  ASSUME NEW s, NEW in, StepHolds(s)
  PROVE  LET u == RunReflex(s, in)
         IN  /\ StepHolds(u) /\ u.lastHp = s.lastHp /\ u.hp = s.hp
             /\ u.reflex => Calm(u)
<1> DEFINE d == Drop(s)
           p == s.living[in.pick]
           f == [d EXCEPT !.armed = FALSE, !.reflex = TRUE, !.pinned = p,
                          !.pinnedBeacon = in.pick]
           fired == FireReflex(s, in)
           Ok(x) == /\ StepHolds(x) /\ x.lastHp = s.lastHp /\ x.hp = s.hp
                    /\ x.reflex => Calm(x)
           t == IF s.armed /\ s.hp <= ReflexHp THEN fired ELSE s
           over == t.at = t.pinned \/ ~Alive(t, t.pinnedBeacon) \/ t.sealed
           e == Drop(t)
           u == [e EXCEPT !.reflex = FALSE]
<1>1. Calm(d) /\ SameTurn(s, d)
  BY DropCalms DEF StepHolds
<1> HIDE DEF d, p
<1>2. Calm(f) /\ f.lastHp = s.lastHp /\ f.hp = s.hp
  BY <1>1 DEF Calm, Shape, StepFields, SameTurn
<1>3. fired = Walk(f, p)
  BY DEF FireReflex, f, d, p
<1> HIDE DEF f, fired
<1>4. Calm(fired) /\ fired.lastHp = s.lastHp /\ fired.hp = s.hp
  BY <1>2, <1>3, WalkShapes DEF Calm, SameTurn
<1>5. Ok(s)
  BY DEF StepHolds, OnAStep, Calm
<1>6. Ok(t)
  BY <1>4, <1>5, CalmFits
<1> HIDE DEF t
<1>7. Calm(e) /\ SameTurn(t, e)
  BY <1>6, DropCalms DEF StepHolds
<1> HIDE DEF e
<1>8. Calm(u) /\ u.lastHp = t.lastHp /\ u.hp = t.hp
  BY <1>7 DEF Calm, Shape, StepFields, SameTurn
<1> HIDE DEF u
<1>9. Ok(u)
  BY <1>6, <1>8, CalmFits
<1> HIDE DEF over
<1>10. RunReflex(s, in) \in {t, u}
  BY DEF RunReflex, t, over, u, e, fired
<1> QED
  BY <1>6, <1>9, <1>10

(* Every decision leaves a step that fits the commander.                   *)
LEMMA DecidedFits ==
  ASSUME NEW s0, NEW in, StepHolds(s0)
  PROVE  StepFits(Decided(s0, in))
<1> DEFINE a == Aged(s0)
           s == Marked(a)
           t == IF s.cursor # NoIndex /\ OutOfDeaths(s) THEN EnterFallback(s) ELSE s
           u == RunReflex(t, in)
           M(x) == [a EXCEPT !.armed = x, !.lastHp = a.hp]
<1>1. StepHolds(a) /\ a.hp \in Nat
  BY DEF Aged, StepHolds, Shape, StepFields, OnAStep, OnItsWay, Acting, Alive
<1> HIDE DEF a
<1>2. ASSUME NEW x
      PROVE  /\ Shape(M(x)) /\ M(x).hp = a.hp /\ M(x).lastHp = a.hp
             /\ M(x).stage = a.stage /\ M(x).visit = a.visit
             /\ a.hp # 0 => StepHolds(M(x))
  BY <1>1 DEF StepHolds, Shape, StepFields, OnAStep, OnItsWay, Acting, Alive
<1>3. s = M(a.armed \/ a.hp < a.lastHp)
  BY DEF Marked
<1> HIDE DEF M, s
<1>4. /\ Shape(s) /\ s.hp = a.hp /\ s.lastHp = a.hp
      /\ s.stage = "NotStarted" => s.visit = NoBeacon
      /\ s.hp # 0 => StepHolds(s)
  BY <1>1, <1>2, <1>3 DEF StepHolds
<1>5. CASE s.hp = 0
  <2> DEFINE r == IF s.stage = "NotStarted" THEN s ELSE Drop(s)
             v == [r EXCEPT !.reflex = FALSE]
  <2>1. Calm(r)
    BY <1>4, DropCalms DEF Calm
  <2> HIDE DEF r
  <2>2. Calm(v)
    BY <2>1 DEF Calm, Shape, StepFields
  <2> HIDE DEF v
  <2>3. Decided(s0, in) = v
    BY <1>5 DEF Decided, Dies, s, a, r, v
  <2> QED
    BY <2>2, <2>3, CalmFits
<1>6. CASE s.hp # 0
  <2>1. StepHolds(t) /\ t.lastHp = s.lastHp /\ t.hp = s.hp
    BY <1>4, <1>6, EnterFallbackCalms, CalmFits
  <2> HIDE DEF t
  <2>2. StepHolds(u) /\ u.lastHp = t.lastHp /\ u.hp = t.hp /\ (u.reflex => Calm(u))
    BY <2>1, RunReflexSteps
  <2> HIDE DEF u
  <2>3. Decided(s0, in) = IF u.reflex THEN u ELSE Advance(TryFire(u, in), in)
    BY <1>6 DEF Decided, s, a, t, u
  <2>4. ~u.reflex => StepFits(Advance(TryFire(u, in), in))
    BY <1>4, <1>6, <2>1, <2>2, TryFireTakes, AdvanceFits DEF Takes
  <2> QED
    BY <2>2, <2>3, <2>4, CalmFits
<1> QED
  BY <1>5, <1>6

----------------------------------------------------------------------------
(* The invariant of the step under way.                                    *)

StepsHold ==
  /\ Shape(seat)
  /\ running => StepHolds(seat)
  /\ decided => running /\ StepFits(seat)

LEMMA SealedCalms ==
  ASSUME NEW p, NEW hp \in Nat, NEW s,
         {"living", "given", "hp", "at", "dest"} \subseteq DOMAIN s,
         s.hp \in Nat, DOMAIN s.living = 1..MaxBeacons, s.given \in 1..MaxBeacons
  PROVE  Calm(Over(Sealed(p, hp), s))
<1> DEFINE f == Sealed(p, hp)
           t == Over(f, s)
<1>1. /\ {"stage", "pinned", "visit", "row", "restart", "resumed", "lastHp", "reflex",
           "rule", "ruleStep", "cursor"} \subseteq DOMAIN f
      /\ {"living", "given", "hp", "at", "dest"} \intersect DOMAIN f = {}
      /\ f.stage = "NotStarted" /\ f.visit = NoBeacon /\ f.row = 1
      /\ f.restart = NoRestart
  BY DEF Sealed
<1> HIDE DEF f
<1>2. t = [x \in DOMAIN f \union DOMAIN s |-> IF x \in DOMAIN f THEN f[x] ELSE s[x]]
  BY DEF Over
<1> HIDE DEF t
<1>3. /\ StepFields \subseteq DOMAIN t
      /\ t.stage = "NotStarted" /\ t.visit = NoBeacon /\ t.row = 1
      /\ t.restart = NoRestart
      /\ t.living = s.living /\ t.given = s.given /\ t.hp = s.hp
  BY <1>1, <1>2 DEF StepFields
<1>4. "row" \in DOMAIN NoRestart /\ NoRestart.row = 1
  BY DEF NoRestart
<1>5. Shape(t)
  BY <1>3, <1>4 DEF Shape
<1> QED
  BY <1>3, <1>5 DEF Calm, t, f

LEMMA StepsInit == RunInit => StepsHold
<1> SUFFICES ASSUME RunInit PROVE StepsHold
  OBVIOUS
<1>1. /\ {"living", "given", "hp", "at", "dest"} \subseteq DOMAIN Fresh
      /\ Fresh.hp = FullHp /\ Fresh.given = 1
      /\ DOMAIN Fresh.living = 1..MaxBeacons
  BY DEF Fresh
<1>2. FullHp \in Nat /\ 1 \in 1..MaxBeacons
  BY InterpreterAssumption
<1>3. Calm(Over(Sealed(plan, FullHp), Fresh))
  BY <1>1, <1>2, SealedCalms
<1> QED
  BY <1>3, CalmFits DEF StepsHold, RunInit, Calm

(* What the world does between two decisions leaves the step alone.        *)
SameStep(s, t) ==
  /\ t.stage = s.stage /\ t.pinned = s.pinned /\ t.visit = s.visit
  /\ t.reflex = s.reflex /\ t.lastHp = s.lastHp
  /\ t.rule = s.rule /\ t.ruleStep = s.ruleStep /\ t.cursor = s.cursor

LEMMA SameStepHolds ==
  ASSUME NEW s, NEW t, StepHolds(s), Shape(t), SameStep(s, t), t.dest = s.dest,
         Alive(t, t.visit) => Alive(s, s.visit) /\ t.living[t.visit] = s.living[s.visit]
  PROVE  StepHolds(t)
<1>1. Acting(t) = Acting(s)
  BY DEF SameStep, Acting
<1> QED
  BY <1>1 DEF StepHolds, OnAStep, OnItsWay, SameStep

LEMMA WorldSteps ==
  ASSUME StepsHold, NEW t, World(t), StepHolds(t)
  PROVE  StepsHold'
<1>1. seat' = t /\ plan' = plan /\ decided' = FALSE /\ running' = running
  BY DEF World
<1>2. StepHolds(seat)'
  BY <1>1 DEF StepHolds, Shape, OnAStep, OnItsWay, Acting, Alive
<1> QED
  BY <1>1, <1>2 DEF StepsHold, StepHolds

LEMMA MovesHold ==
  StepsHold /\ (Travel \/ SealsOff \/ Hurt \/ Mend \/ Earn \/ Spend) => StepsHold'
<1> DEFINE Moved(t) == /\ Shape(t) /\ SameStep(seat, t) /\ t.dest = seat.dest
                       /\ t.living = seat.living
<1>1. ASSUME StepsHold, NEW t, World(t), Moved(t) PROVE StepsHold'
  <2>1. StepHolds(seat)
    BY <1>1 DEF StepsHold, World
  <2>2. StepHolds(t)
    BY <1>1, <2>1, SameStepHolds DEF Alive, SameStep
  <2> QED
    BY <1>1, <2>2, WorldSteps
<1>2. ASSUME StepsHold, NEW p PROVE Moved([seat EXCEPT !.at = p])
  BY <1>2 DEF StepsHold, Shape, StepFields, SameStep
<1>3. ASSUME StepsHold, NEW x PROVE Moved([seat EXCEPT !.sealed = x])
  BY <1>3 DEF StepsHold, Shape, StepFields, SameStep
<1>4. ASSUME StepsHold, NEW x, NEW hp \in Nat
      PROVE  Moved([seat EXCEPT !.hp = hp, !.deaths = x])
  BY <1>4 DEF StepsHold, Shape, StepFields, SameStep
<1>5. ASSUME StepsHold, NEW hp \in Nat PROVE Moved([seat EXCEPT !.hp = hp])
  BY <1>5 DEF StepsHold, Shape, StepFields, SameStep
<1>6. ASSUME StepsHold, NEW x, NEW y
      PROVE  Moved([seat EXCEPT !.earned = x, !.treasury = y])
  BY <1>6 DEF StepsHold, Shape, StepFields, SameStep
<1> HIDE DEF Moved
<1>7. CASE StepsHold /\ Travel
  BY <1>1, <1>2, <1>7 DEF Travel
<1>8. CASE StepsHold /\ SealsOff
  BY <1>1, <1>3, <1>8 DEF SealsOff
<1>9. CASE StepsHold /\ Hurt
  <2>1. seat.hp - 1 \in Nat
    BY <1>9 DEF Hurt, StepsHold, Shape
  <2> QED
    BY <1>1, <1>4, <1>9, <2>1 DEF Hurt
<1>10. CASE StepsHold /\ Mend
  <2>1. seat.hp + 1 \in Nat
    BY <1>10 DEF StepsHold, Shape
  <2> QED
    BY <1>1, <1>5, <1>10, <2>1 DEF Mend
<1>11. CASE StepsHold /\ (Earn \/ Spend)
  BY <1>1, <1>6, <1>11 DEF Earn, Spend
<1> QED
  BY <1>7, <1>8, <1>9, <1>10, <1>11

(* The beacon that dies is not the one a step's visit still trusts.        *)
LEMMA LoseSteps == StepsHold /\ Lose => StepsHold'
<1> SUFFICES ASSUME StepsHold, Lose PROVE StepsHold'
  OBVIOUS
<1>1. PICK b \in Living(seat) :
        World([seat EXCEPT !.living[b] = NoPlace,
                           !.hp = IF Living(seat) = {b} THEN 0 ELSE @])
  BY DEF Lose
<1> DEFINE t == [seat EXCEPT !.living[b] = NoPlace,
                             !.hp = IF Living(seat) = {b} THEN 0 ELSE @]
<1>2. /\ Shape(t) /\ SameStep(seat, t) /\ t.dest = seat.dest
      /\ t.living = [seat.living EXCEPT ![b] = NoPlace]
  BY DEF StepsHold, Shape, StepFields, SameStep
<1>3. World(t)
  BY <1>1
<1> HIDE DEF t
<1>4. Alive(t, t.visit) => Alive(seat, seat.visit) /\ t.living[t.visit] = seat.living[seat.visit]
  <2> SUFFICES ASSUME Alive(t, t.visit)
               PROVE  Alive(seat, seat.visit)
                        /\ t.living[t.visit] = seat.living[seat.visit]
    OBVIOUS
  <2>1. t.visit = seat.visit /\ b \in DOMAIN seat.living
    BY <1>2 DEF SameStep, Living
  <2>2. t.visit # b
    BY <1>2, <2>1 DEF Alive
  <2>3. t.living[t.visit] = seat.living[seat.visit]
    BY <1>2, <2>1, <2>2
  <2> QED
    BY <2>1, <2>3 DEF Alive
<1>5. StepHolds(seat)
  BY <1>3 DEF StepsHold, World
<1>6. StepHolds(t)
  BY <1>2, <1>4, <1>5, SameStepHolds
<1> QED
  BY <1>3, <1>6, WorldSteps

LEMMA ReturnedShapes ==
  ASSUME NEW s, NEW b, Shape(s)
  PROVE  /\ Shape(Returned(s, b)) /\ Returned(s, b).stage = s.stage
         /\ Returned(s, b).visit = s.visit
BY InterpreterAssumption DEF Returned, Shape, StepFields

(* Who comes back has been seen dead, and the step was dropped then.       *)
LEMMA RespawnSteps == StepsHold /\ Respawn => StepsHold'
<1> SUFFICES ASSUME StepsHold, Respawn PROVE StepsHold'
  OBVIOUS
<1>1. PICK b : World(Returned(seat, b))
  BY DEF Respawn
<1> DEFINE t == Returned(seat, b)
<1>2. Shape(t) /\ t.stage = seat.stage /\ t.visit = seat.visit
  BY ReturnedShapes DEF StepsHold
<1>3. seat.stage = "NotStarted" /\ seat.visit = NoBeacon
  BY <1>1 DEF StepsHold, StepHolds, OnAStep, World, Respawn
<1> HIDE DEF t
<1>4. Calm(t)
  BY <1>2, <1>3 DEF Calm
<1> QED
  BY <1>1, <1>4, CalmFits, WorldSteps DEF t

LEMMA DecideSteps == StepsHold /\ Decide => StepsHold'
<1> SUFFICES ASSUME StepsHold, Decide PROVE StepsHold'
  OBVIOUS
<1>1. PICK in : seat' = Decided(seat, in)
  BY DEF Decide
<1> DEFINE d == Decided(seat, in)
<1>2. StepFits(d)
  BY DecidedFits DEF StepsHold, Decide
<1>3. seat' = d /\ plan' = plan /\ running /\ running' = running
  BY <1>1 DEF Decide
<1> HIDE DEF d
<1>4. StepFits(seat)'
  BY <1>2, <1>3
  DEF StepFits, StepHolds, InPlace, Shape, OnAStep, OnItsWay, Acting, Alive
<1> QED
  BY <1>3, <1>4 DEF StepsHold, StepFits, StepHolds

LEMMA CloseSegmentSteps == StepsHold /\ CloseSegment => StepsHold'
<1> SUFFICES ASSUME StepsHold, CloseSegment PROVE StepsHold'
  OBVIOUS
<1>1. ASSUME NEW s, Shape(s) PROVE Shape(Abandon(s))
  BY <1>1, DropCalms DEF Abandon, Calm
<1>2. Shape(Abandon(seat)) /\ \A b : Shape(Abandon(Returned(seat, b)))
  BY <1>1, ReturnedShapes DEF StepsHold
<1>3. seat' = Abandon(seat) \/ \E b : seat' = Abandon(Returned(seat, b))
  BY DEF CloseSegment
<1>4. Shape(seat')
  BY <1>2, <1>3
<1> QED
  BY <1>4 DEF StepsHold, CloseSegment, Shape

LEMMA OpenPushSteps == StepsHold /\ OpenPush => StepsHold'
<1> SUFFICES ASSUME StepsHold, OpenPush PROVE StepsHold'
  OBVIOUS
<1> DEFINE s == [seat EXCEPT !.deaths = 0]
           p == plan'
           t == Over(Sealed(p, seat.hp), s)
<1>1. /\ {"living", "given", "hp", "at", "dest"} \subseteq DOMAIN s
      /\ s.hp \in Nat /\ DOMAIN s.living = 1..MaxBeacons /\ s.given \in 1..MaxBeacons
      /\ seat.hp \in Nat
  BY DEF StepsHold, Shape, StepFields
<1> HIDE DEF s, p
<1>2. Calm(t)
  BY <1>1, SealedCalms
<1>3. seat' = t /\ running' = TRUE /\ decided' = FALSE
  BY DEF OpenPush, s, p
<1> HIDE DEF t
<1> QED
  BY <1>2, <1>3 DEF StepsHold, StepHolds, Calm, Shape

LEMMA StepsNext == StepsHold /\ [RunNext]_runVars => StepsHold'
<1> SUFFICES ASSUME StepsHold, [RunNext]_runVars PROVE StepsHold'
  OBVIOUS
<1>1. CASE Decide
  BY <1>1, DecideSteps
<1>2. CASE Travel \/ SealsOff \/ Hurt \/ Mend \/ Earn \/ Spend
  BY <1>2, MovesHold
<1>3. CASE Respawn \/ Lose
  BY <1>3, RespawnSteps, LoseSteps
<1>4. CASE CloseSegment \/ OpenPush
  BY <1>4, CloseSegmentSteps, OpenPushSteps
<1>5. CASE UNCHANGED runVars
  BY <1>5
  DEF runVars, StepsHold, StepFits, StepHolds, InPlace, Shape, OnAStep, OnItsWay,
      Acting, Alive
<1> QED
  BY <1>1, <1>2, <1>3, <1>4, <1>5 DEF RunNext

----------------------------------------------------------------------------
(* The theorems.                                                           *)

(* The inductive invariant: what a seat is worth is what came in, a closed *)
(* segment has no deploy under way, and the reflex heads for its beacon.   *)
THEOREM SeatIsSound == RunSpec => []SeatHolds
BY SeatInit, SeatNext, PTL DEF RunSpec

(* Every $ that came in is in the treasury, in the deploy under way or in  *)
(* a beacon in the ground, however a step ends.                            *)
THEOREM MoneyIsConserved == RunSpec => []MoneyIsAccountedFor
<1>1. SeatHolds => MoneyIsAccountedFor
  <2> SUFFICES ASSUME SeatHolds PROVE MoneyIsAccountedFor
    OBVIOUS
  <2>1. IsSeat(seat) /\ Worth(seat) = 0
    BY DEF SeatHolds
  <2>2. Placed(seat.given) \in Int /\ Paid(seat) \in Int
    BY <2>1, PriceIsWhole, OneMoreIsPlaced DEF IsSeat, Paid
  <2>3. seat.treasury + Paid(seat) + Placed(seat.given) = seat.earned
    BY <2>1, <2>2 DEF IsSeat, Worth
  <2> QED
    BY <2>3 DEF MoneyIsAccountedFor, Paid, Placed
<1> QED
  BY SeatIsSound, <1>1, PTL

(* When a decision leaves the reflex holding, the commander is on its way  *)
(* to a living beacon and can get there.                                   *)
THEOREM ReflexLeadsHome == RunSpec => []ReflexIsGoingHome
<1>1. SeatHolds => ReflexIsGoingHome
  BY DEF SeatHolds, GoingHome, ReflexIsGoingHome
<1> QED
  BY SeatIsSound, <1>1, PTL

(* The inductive invariant of the step under way: a body's or the route's  *)
(* step has sent the commander where it waits for it, pays time only in a  *)
(* visit or a deploy, and none is left by who was seen dead or by the      *)
(* reflex.                                                                 *)
THEOREM StepsAreSound == RunSpec => []StepsHold
BY StepsInit, StepsNext, PTL DEF RunSpec

(* Whatever a decision leaves running has the commander where it needs it, *)
(* or on its way there, and a visit's beacon living or just recycled.      *)
THEOREM StepsFitTheCommander == RunSpec => []StageFitsTheCommander
<1>1. StepsHold => StageFitsTheCommander
  BY DEF StepsHold, StepFits, StepHolds, OnAStep, OnItsWay, InPlace, Shape,
         StageFitsTheCommander, Visiting, Busy, Walks
<1> QED
  BY StepsAreSound, <1>1, PTL
=============================================================================
