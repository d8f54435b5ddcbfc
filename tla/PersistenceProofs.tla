------------------------- MODULE PersistenceProofs -------------------------
(***************************************************************************)
(* What holds of the match's save for any number of seats, playbooks,      *)
(* rounds, processes and refused writes: it only ever goes forward, and    *)
(* until one is refused it holds every Push a tick was played of.  And of  *)
(* the log: its numbers keep the views of two processes apart.  And of the *)
(* playbooks and the chains beside the save: a chain is of the playbooks.  *)
(***************************************************************************)
EXTENDS Persistence, SequenceTheorems, TLAPS

----------------------------------------------------------------------------
(* Sequences.                                                              *)

(* One course is played the way another begins.                            *)
Begins(s, t) == Len(s) <= Len(t) /\ \A i \in 1..Len(s) : s[i] = t[i]

LEMMA BeginsIsPrefix ==
  ASSUME NEW S, NEW s \in Seq(S), NEW t \in Seq(S), Begins(s, t)
  PROVE  IsPrefix(s, t) /\ s = SubSeq(t, 1, Len(s))
<1>1. Len(s) \in Nat /\ Len(t) \in Nat /\ Len(s) <= Len(t)
  BY LenProperties DEF Begins
<1>2. /\ SubSeq(t, 1, Len(s)) \in Seq(S)
      /\ Len(SubSeq(t, 1, Len(s))) = Len(s)
      /\ \A i \in 1..Len(s) : SubSeq(t, 1, Len(s))[i] = t[i]
  <2>1. \A i \in 1..Len(s) : t[i] \in S
    BY <1>1, ElementOfSeq
  <2>2. /\ SubSeq(t, 1, Len(s)) \in Seq(S)
        /\ Len(SubSeq(t, 1, Len(s))) = IF 1 <= Len(s) THEN Len(s) - 1 + 1 ELSE 0
        /\ \A i \in 1..(Len(s) - 1 + 1) : SubSeq(t, 1, Len(s))[i] = t[1 + i - 1]
    BY <1>1, <2>1, SubSeqProperties
  <2> QED
    BY <1>1, <2>2
<1>3. s = SubSeq(t, 1, Len(s))
  BY <1>2, SeqEqual DEF Begins
<1>4. SubSeq(s, 1, Len(s)) = s
  BY SubSeqFull
<1> QED
  BY <1>1, <1>3, <1>4 DEF IsPrefix

LEMMA BeginsAgain ==
  ASSUME NEW S, NEW s \in Seq(S), NEW t \in Seq(S), NEW u \in Seq(S),
         Begins(s, t), Begins(t, u)
  PROVE  Begins(s, u)
BY LenProperties DEF Begins

LEMMA BeginsAppend ==
  ASSUME NEW S, NEW s \in Seq(S), NEW t \in Seq(S), NEW x \in S,
         Begins(s, t)
  PROVE  Begins(s, Append(t, x)) /\ s # Append(t, x)
BY LenProperties DEF Begins

(* What a list held is its head and what its tail holds.                   *)
LEMMA TailHolds ==
  ASSUME NEW S, NEW s \in Seq(S), s # <<>>
  PROVE  /\ Head(s) \in S /\ Tail(s) \in Seq(S)
         /\ ToSet(s) = {Head(s)} \union ToSet(Tail(s))
<1>1. /\ Head(s) \in S /\ Tail(s) \in Seq(S)
      /\ Len(Tail(s)) = Len(s) - 1
      /\ \A i \in 1..Len(Tail(s)) : Tail(s)[i] = s[i + 1]
  BY HeadTailProperties
<1>2. /\ Len(s) \in Nat \ {0} /\ DOMAIN s = 1..Len(s)
      /\ DOMAIN Tail(s) = 1..Len(Tail(s))
  BY <1>1, EmptySeq, LenProperties
<1>3. Head(s) = s[1]
  OBVIOUS
<1>4. ToSet(s) \subseteq {Head(s)} \union ToSet(Tail(s))
  <2>1. ASSUME NEW i \in 1..Len(s), i # 1
        PROVE  \E j \in 1..Len(Tail(s)) : s[i] = Tail(s)[j]
    <3>1. i - 1 \in 1..Len(Tail(s)) /\ (i - 1) + 1 = i
      BY <1>1, <1>2, <2>1
    <3> QED
      BY <1>1, <3>1
  <2>2. ASSUME NEW x \in ToSet(s) PROVE x = s[1] \/ x \in ToSet(Tail(s))
    <3>1. PICK i \in 1..Len(s) : x = s[i]
      BY <1>2 DEF ToSet
    <3>2. i = 1 \/ \E j \in 1..Len(Tail(s)) : x = Tail(s)[j]
      BY <2>1, <3>1
    <3> QED
      BY <1>2, <3>1, <3>2 DEF ToSet
  <2> QED
    BY <1>3, <2>2
<1>5. {Head(s)} \union ToSet(Tail(s)) \subseteq ToSet(s)
  <2>1. \A j \in 1..Len(Tail(s)) : j + 1 \in 1..Len(s)
    BY <1>1, <1>2
  <2> QED
    BY <1>1, <1>2, <1>3, <2>1 DEF ToSet
<1> QED
  BY <1>1, <1>4, <1>5

----------------------------------------------------------------------------
(* The invariant.                                                          *)

Saves  == [boundary : {"lull", "sealed"}, course : Seq(Orders)]
Writes == [file : {"sealed"}, seat : Seats] \union {Chain, Audit}
            \union [file : {"save"}, is : Saves]

Typed ==
  /\ host \in {"down", "up", "closing"}
  /\ phase \in {"lull", "push", "recap", "ended"}
  /\ course \in Seq(Orders)
  /\ todo \in Seq(Writes)
  /\ save \subseteq Saves
  /\ watched \in [1..RoundLimit -> SUBSET Seq(Orders)]

(* A flush ends with the log.                                              *)
AuditIsLast == \A i \in 1..Len(todo) : todo[i] = Audit => i = Len(todo)

(* The save a flush has still to make is one of the match as it stands: of *)
(* the Push just opened, or of the Lull the host is closed in.             *)
SavesDueAreOfNow ==
  \A w \in ToSet(todo) : w.file = "save" =>
    /\ w.is.course = course
    /\ \/ host = "up" /\ phase = "push" /\ w.is.boundary = "sealed"
       \/ host = "closing" /\ phase = "lull" /\ w.is.boundary = "lull"

(* The save is behind the match, and of its round only when it was sealed. *)
SaveIsBehind ==
  /\ \A s, t \in save : s = t
  /\ host # "down" => \A s \in save :
       /\ Begins(s.course, course)
       /\ phase # "lull" /\ s.course = course => s.boundary = "sealed"

(* What was watched is in the save, and what is about to be is too, or is  *)
(* written before the next job.                                            *)
WatchedIsSaved ==
  "save" \notin failures =>
    /\ \A r \in 1..RoundLimit : \A c \in watched[r] :
         Len(c) = r /\ \E s \in save : Begins(c, s.course)
    /\ host = "up" /\ phase = "push" =>
         \/ \E s \in save : s.course = course
         \/ \E w \in ToSet(todo) : w.file = "save"

Kept == Typed /\ AuditIsLast /\ SavesDueAreOfNow /\ SaveIsBehind
          /\ WatchedIsSaved

LEMMA KeptInit == Init => Kept
<1> SUFFICES ASSUME Init PROVE Kept
  OBVIOUS
<1>1. ToSet(<<>>) = {} /\ <<>> \in Seq(Orders) /\ <<>> \in Seq(Writes)
  BY DEF ToSet
<1>2. Typed
  BY <1>1 DEF Init, Typed
<1>3. AuditIsLast /\ SavesDueAreOfNow
  BY <1>1 DEF Init, AuditIsLast, SavesDueAreOfNow
<1>4. SaveIsBehind /\ WatchedIsSaved
  BY DEF Init, SaveIsBehind, WatchedIsSaved
<1> QED
  BY <1>2, <1>3, <1>4 DEF Kept

(* What a Push's opening writes.                                           *)
LEMMA OpeningHolds ==
  ASSUME NEW c \in Seq(Orders)
  PROVE  /\ Opening(c) \in Seq(Writes)
         /\ \A i \in 1..Len(Opening(c)) :
              Opening(c)[i] = Audit => i = Len(Opening(c))
         /\ Opening(c) # <<>> /\ Opening(c)[Len(Opening(c))] = Audit
         /\ SaveOf("sealed", c) \in ToSet(Opening(c))
         /\ \A w \in ToSet(Opening(c)) :
              w.file = "save" => w = SaveOf("sealed", c)
         /\ NumSeats \in Nat /\ Len(Opening(c)) = NumSeats + 2
         /\ \A i \in 1..(NumSeats + 2) :
              \/ i <= NumSeats /\ Opening(c)[i] = SealedFile(i)
              \/ i = NumSeats + 1 /\ Opening(c)[i] = SaveOf("sealed", c)
              \/ i = NumSeats + 2 /\ Opening(c)[i] = Audit
<1> DEFINE seals == [s \in Seats |-> SealedFile(s)]
           rest == <<SaveOf("sealed", c), Audit>>
<1>1. /\ NumSeats \in Nat
      /\ seals \in Seq(Writes) /\ Len(seals) = NumSeats
      /\ \A i \in 1..NumSeats : seals[i] = SealedFile(i)
  BY PersistenceAssumption DEF Seats, SealedFile, Writes
<1>2. /\ rest \in Seq(Writes) /\ Len(rest) = 2
      /\ rest[1] = SaveOf("sealed", c) /\ rest[2] = Audit
  BY DEF SaveOf, Writes, Saves
<1>3. /\ Opening(c) \in Seq(Writes) /\ Len(Opening(c)) = NumSeats + 2
      /\ \A i \in 1..(NumSeats + 2) :
           Opening(c)[i] = IF i <= NumSeats THEN seals[i] ELSE rest[i - NumSeats]
  <2> HIDE DEF seals, rest
  <2>1. Opening(c) = seals \o rest
    BY DEF Opening, seals, rest
  <2>2. /\ seals \o rest \in Seq(Writes)
        /\ Len(seals \o rest) = Len(seals) + Len(rest)
        /\ \A i \in 1..(Len(seals) + Len(rest)) :
             (seals \o rest)[i] =
               IF i <= Len(seals) THEN seals[i] ELSE rest[i - Len(seals)]
    <3>1. seals \in Seq(Writes) /\ rest \in Seq(Writes)
      BY <1>1, <1>2
    <3> QED
      BY <3>1, ConcatProperties
  <2> QED
    BY <1>1, <1>2, <2>1, <2>2
<1>4. \A i \in 1..(NumSeats + 2) :
        \/ i <= NumSeats /\ Opening(c)[i] = SealedFile(i)
        \/ i = NumSeats + 1 /\ Opening(c)[i] = SaveOf("sealed", c)
        \/ i = NumSeats + 2 /\ Opening(c)[i] = Audit
  <2> HIDE DEF seals, rest
  <2>1. ASSUME NEW i \in 1..(NumSeats + 2)
        PROVE  \/ i <= NumSeats /\ Opening(c)[i] = SealedFile(i)
               \/ i = NumSeats + 1 /\ Opening(c)[i] = SaveOf("sealed", c)
               \/ i = NumSeats + 2 /\ Opening(c)[i] = Audit
    <3>1. CASE i <= NumSeats
      BY <1>1, <1>3, <3>1
    <3>2. CASE i = NumSeats + 1
      BY <1>1, <1>2, <1>3, <3>2
    <3>3. CASE i = NumSeats + 2
      BY <1>1, <1>2, <1>3, <3>3
    <3> QED
      BY <1>1, <3>1, <3>2, <3>3
  <2> QED
    BY <2>1
<1>5. DOMAIN Opening(c) = 1..(NumSeats + 2) /\ NumSeats + 1 \in 1..(NumSeats + 2)
  BY <1>1, <1>3, LenProperties
<1>6. /\ \A i : SealedFile(i) # Audit /\ SealedFile(i).file # "save"
      /\ SaveOf("sealed", c) # Audit /\ Audit.file # "save"
  BY DEF SealedFile, SaveOf, Audit
<1>7. SaveOf("sealed", c) \in ToSet(Opening(c))
  BY <1>1, <1>4, <1>5 DEF ToSet
<1>8. \A w \in ToSet(Opening(c)) : w.file = "save" => w = SaveOf("sealed", c)
  BY <1>4, <1>5, <1>6 DEF ToSet
<1>9. Opening(c) # <<>> /\ Opening(c)[Len(Opening(c))] = Audit
  <2>1. Len(Opening(c)) = NumSeats + 2 /\ NumSeats \in Nat
    BY <1>1, <1>3
  <2>2. Opening(c)[NumSeats + 2] = Audit
    BY <1>4, <2>1
  <2>3. Len(<<>>) = 0
    OBVIOUS
  <2> QED
    BY <2>1, <2>2, <2>3
<1> QED
  BY <1>1, <1>3, <1>4, <1>6, <1>7, <1>8, <1>9

----------------------------------------------------------------------------
(* The writes.                                                             *)

(* The log stays last in what is left of a flush.                          *)
LEMMA AuditStaysLast ==
  ASSUME todo \in Seq(Writes), todo # <<>>, AuditIsLast
  PROVE  \A i \in 1..Len(Tail(todo)) :
           Tail(todo)[i] = Audit => i = Len(Tail(todo))
<1>1. /\ Len(todo) \in Nat /\ Len(Tail(todo)) = Len(todo) - 1
      /\ \A i \in 1..Len(Tail(todo)) : Tail(todo)[i] = todo[i + 1]
  BY HeadTailProperties, LenProperties
<1> SUFFICES ASSUME NEW i \in 1..Len(Tail(todo)), Tail(todo)[i] = Audit
             PROVE  i = Len(Tail(todo))
  OBVIOUS
<1>2. i + 1 \in 1..Len(todo) /\ todo[i + 1] = Audit
  BY <1>1
<1>3. i + 1 = Len(todo)
  BY <1>2 DEF AuditIsLast
<1>4. i \in Int /\ Len(todo) \in Int /\ Len(Tail(todo)) = Len(todo) - 1
  BY <1>1
<1> QED
  BY <1>3, <1>4

(* A write that is not the save's, or a save refused: the flush goes on    *)
(* with the rest of its list.                                              *)
LEMMA WriteKeeps ==
  ASSUME Kept, host # "down", todo # <<>>, todo' = Tail(todo),
         UNCHANGED <<host, phase, course, save, watched>>,
         failures \subseteq failures',
         Head(todo).file = "save" => "save" \in failures'
  PROVE  Kept'
<1>1. /\ todo \in Seq(Writes) /\ Tail(todo) \in Seq(Writes)
      /\ ToSet(todo) = {Head(todo)} \union ToSet(Tail(todo))
  BY TailHolds DEF Kept, Typed
<1>2. Typed'
  BY <1>1 DEF Kept, Typed
<1>3. AuditIsLast'
  <2>1. Audit' = Audit
    BY DEF Audit
  <2> QED
    BY <1>1, <2>1, AuditStaysLast DEF Kept, AuditIsLast
<1>4. SavesDueAreOfNow'
  BY <1>1 DEF Kept, SavesDueAreOfNow
<1>5. SaveIsBehind'
  BY DEF Kept, SaveIsBehind, Begins
<1>6. WatchedIsSaved'
  BY <1>1 DEF Kept, WatchedIsSaved, Begins
<1> QED
  BY <1>2, <1>3, <1>4, <1>5, <1>6 DEF Kept

(* The save that is due is written.                                        *)
LEMMA SaveKeeps ==
  ASSUME Kept, WriteSave
  PROVE  /\ Kept'
         /\ \A s \in save, t \in save' :
              s # t => /\ IsPrefix(s.course, t.course)
                       /\ s.course = t.course => t.boundary = "lull"
<1> DEFINE w == Head(todo)
<1>1. /\ todo \in Seq(Writes) /\ Tail(todo) \in Seq(Writes) /\ w \in Writes
      /\ ToSet(todo) = {w} \union ToSet(Tail(todo))
  BY TailHolds DEF Kept, Typed, WriteSave, Due
<1>2. host # "down" /\ w.file = "save" /\ save' = {w.is} /\ todo' = Tail(todo)
      /\ UNCHANGED <<host, phase, course, watched, failures>>
  BY DEF WriteSave, Due, memory, history
<1>3. w.is \in Saves
  BY <1>1, <1>2 DEF Writes, Chain, Audit
<1>4. /\ w.is.course = course
      /\ \/ host = "up" /\ phase = "push" /\ w.is.boundary = "sealed"
         \/ host = "closing" /\ phase = "lull" /\ w.is.boundary = "lull"
  BY <1>1, <1>2 DEF Kept, SavesDueAreOfNow
<1>5. \A s \in save :
        /\ s \in Saves /\ Begins(s.course, course)
        /\ phase # "lull" /\ s.course = course => s.boundary = "sealed"
  BY <1>2 DEF Kept, Typed, SaveIsBehind
<1>6. course \in Seq(Orders) /\ Begins(course, course)
  BY LenProperties DEF Kept, Typed, Begins
<1>7. Kept'
  <2>1. Typed' /\ AuditIsLast'
    <3>1. Typed'
      BY <1>1, <1>2, <1>3 DEF Kept, Typed
    <3>2. Audit' = Audit
      BY DEF Audit
    <3> QED
      BY <1>1, <1>2, <3>1, <3>2, AuditStaysLast
      DEF Kept, AuditIsLast, WriteSave, Due
  <2>2. SavesDueAreOfNow'
    BY <1>1, <1>2 DEF Kept, SavesDueAreOfNow
  <2>3. SaveIsBehind'
    BY <1>2, <1>4, <1>6 DEF SaveIsBehind, Begins
  <2>4. WatchedIsSaved'
    <3> SUFFICES ASSUME "save" \notin failures
                 PROVE  /\ \A r \in 1..RoundLimit : \A c \in watched[r] :
                             Len(c) = r /\ \E s \in save' : Begins(c, s.course)
                        /\ \E s \in save' : s.course = course
      BY <1>2 DEF WatchedIsSaved, Begins
    <3>1. ASSUME NEW r \in 1..RoundLimit, NEW c \in watched[r]
          PROVE  Len(c) = r /\ Begins(c, w.is.course)
      <4>1. Len(c) = r /\ \E s \in save : Begins(c, s.course)
        BY <3>1 DEF Kept, WatchedIsSaved
      <4>2. PICK s \in save : Begins(c, s.course)
        BY <4>1
      <4>3. c \in Seq(Orders) /\ s.course \in Seq(Orders)
        BY <3>1, <4>2, <1>5 DEF Kept, Typed, Saves
      <4>4. Begins(c, course)
        BY <4>2, <4>3, <1>5, <1>6, BeginsAgain
      <4> QED
        BY <4>1, <4>4, <1>4
    <3> QED
      BY <3>1, <1>2, <1>4
  <2> QED
    BY <2>1, <2>2, <2>3, <2>4 DEF Kept
<1>8. ASSUME NEW s \in save, NEW t \in save', s # t
      PROVE  /\ IsPrefix(s.course, t.course)
             /\ s.course = t.course => t.boundary = "lull"
  <2>1. t = w.is /\ t \in Saves /\ s \in Saves
    BY <1>2, <1>3, <1>5, <1>8
  <2>2. IsPrefix(s.course, t.course)
    <3>1. s.course \in Seq(Orders)
      BY <2>1 DEF Saves
    <3> QED
      BY <2>1, <3>1, <1>4, <1>5, <1>6, BeginsIsPrefix
  <2>3. ASSUME s.course = t.course PROVE t.boundary = "lull"
    <3>1. phase # "lull" => s.boundary = "sealed" /\ t.boundary = "sealed"
      BY <2>1, <2>3, <1>4, <1>5
    <3>2. phase # "lull" => s = t
      BY <2>1, <2>3, <3>1 DEF Saves
    <3> QED
      BY <3>2, <1>4, <1>8, <2>1
  <2> QED
    BY <2>2, <2>3
<1> QED
  BY <1>7, <1>8

(* A process that ends leaves the save and what was watched.               *)
LEMMA GoneKeeps ==
  ASSUME Kept, Gone, UNCHANGED <<save, watched>>, failures \subseteq failures'
  PROVE  Kept'
<1>1. ToSet(<<>>) = {} /\ <<>> \in Seq(Orders) /\ <<>> \in Seq(Writes)
  BY DEF ToSet
<1>2. Typed'
  BY <1>1 DEF Kept, Typed, Gone
<1>3. AuditIsLast' /\ SavesDueAreOfNow'
  BY <1>1 DEF Gone, AuditIsLast, SavesDueAreOfNow
<1>4. SaveIsBehind' /\ WatchedIsSaved'
  BY DEF Kept, Gone, SaveIsBehind, WatchedIsSaved, Begins
<1> QED
  BY <1>2, <1>3, <1>4 DEF Kept

(* The log is the last of a flush's writes: no save is left behind it.     *)
LEMMA FlushKeeps ==
  ASSUME Kept, Due("audit"), Flushed, UNCHANGED <<save, watched>>,
         failures \subseteq failures'
  PROVE  Kept'
<1>1. CASE host = "closing"
  BY <1>1, GoneKeeps DEF Flushed
<1>2. CASE host # "closing"
  <2>1. todo' = <<>> /\ UNCHANGED <<host, phase, course>>
    BY <1>2 DEF Flushed, memory
  <2>2. /\ Head(todo) \in Writes /\ Tail(todo) \in Seq(Writes)
        /\ ToSet(todo) = {Head(todo)} \union ToSet(Tail(todo))
    BY TailHolds DEF Kept, Typed, Due
  <2>3. Head(todo) = Audit
    BY <2>2 DEF Writes, Chain, Audit, Due
  <2>4. Len(todo) \in Nat \ {0} /\ Head(todo) = todo[1]
    BY EmptySeq DEF Kept, Typed, Due
  <2>5. Len(todo) = 1
    BY <2>3, <2>4 DEF Kept, AuditIsLast
  <2>6. Tail(todo) = <<>>
    <3>1. Len(Tail(todo)) = 0
      BY <2>5, HeadTailProperties DEF Kept, Typed, Due
    <3>2. Tail(todo) # <<>> => Len(Tail(todo)) \in Nat \ {0}
      BY <2>2, EmptySeq
    <3> QED
      BY <3>1, <3>2
  <2>7. ToSet(<<>>) = {} /\ <<>> \in Seq(Writes)
    BY DEF ToSet
  <2>8. \A w \in ToSet(todo) : w.file # "save"
    <3>1. Audit.file # "save"
      BY DEF Audit
    <3>2. ToSet(todo) = {Audit}
      BY <2>2, <2>3, <2>6, <2>7
    <3> QED
      BY <3>1, <3>2
  <2>9. Typed'
    BY <2>1, <2>7 DEF Kept, Typed
  <2>10. AuditIsLast' /\ SavesDueAreOfNow'
    BY <2>1, <2>7 DEF AuditIsLast, SavesDueAreOfNow
  <2>11. SaveIsBehind'
    BY <2>1 DEF Kept, SaveIsBehind, Begins
  <2>12. WatchedIsSaved'
    BY <2>1, <2>8 DEF Kept, WatchedIsSaved, Begins
  <2> QED
    BY <2>9, <2>10, <2>11, <2>12 DEF Kept
<1> QED
  BY <1>1, <1>2

----------------------------------------------------------------------------
(* The jobs.                                                               *)

(* A flush that writes no save.                                            *)
Light(list) == list \in {<<Audit>>, <<Chain, Audit>>}

LEMMA LightHolds ==
  ASSUME NEW list, Light(list)
  PROVE  /\ list \in Seq(Writes)
         /\ \A i \in 1..Len(list) : list[i] = Audit => i = Len(list)
         /\ \A w \in ToSet(list) : w.file # "save"
<1>1. /\ Audit \in Writes /\ Chain \in Writes /\ Audit # Chain
      /\ Audit.file # "save" /\ Chain.file # "save"
  BY DEF Audit, Chain, Writes
<1> HIDE DEF Audit, Chain, Writes
<1>2. CASE list = <<Audit>>
  BY <1>1, <1>2 DEF ToSet
<1>3. CASE list = <<Chain, Audit>>
  BY <1>1, <1>3 DEF ToSet
<1> QED
  BY <1>2, <1>3 DEF Light

(* A job that opens no Push and closes no Lull: what it lets a client      *)
(* watch, it plays of a Push whose save is written.                        *)
LEMMA JobKeeps ==
  ASSUME Kept, host = "up", todo = <<>>, Light(todo'),
         UNCHANGED <<host, course, save, failures>>,
         phase' \in {"lull", "push", "recap", "ended"},
         phase' # "lull" => phase # "lull", phase' = "push" => phase = "push",
         \/ watched' = watched
         \/ /\ phase = "push"
            /\ watched' = [watched EXCEPT ![Len(course)] = @ \union {course}]
  PROVE  Kept'
<1>1. /\ todo' \in Seq(Writes)
      /\ \A i \in 1..Len(todo') : todo'[i] = Audit => i = Len(todo')
      /\ \A w \in ToSet(todo') : w.file # "save"
  BY LightHolds
<1>2. course \in Seq(Orders) /\ Begins(course, course)
  BY LenProperties DEF Kept, Typed, Begins
<1>3. Typed'
  BY <1>1, <1>2 DEF Kept, Typed
<1>4. AuditIsLast' /\ SavesDueAreOfNow'
  <2>1. Audit' = Audit
    BY DEF Audit
  <2> QED
    BY <1>1, <2>1 DEF AuditIsLast, SavesDueAreOfNow
<1>5. SaveIsBehind'
  BY DEF Kept, SaveIsBehind, Begins
<1>6. WatchedIsSaved'
  <2> SUFFICES ASSUME "save" \notin failures
               PROVE  /\ \A r \in 1..RoundLimit : \A c \in watched'[r] :
                           Len(c) = r /\ \E s \in save : Begins(c, s.course)
                      /\ phase' = "push" => \E s \in save : s.course = course
    BY DEF WatchedIsSaved, Begins
  <2>1. phase = "push" => \E s \in save : s.course = course
    <3>1. ToSet(<<>>) = {}
      BY DEF ToSet
    <3> QED
      BY <3>1 DEF Kept, WatchedIsSaved
  <2>2. ASSUME NEW r \in 1..RoundLimit, NEW c \in watched'[r]
        PROVE  Len(c) = r /\ \E s \in save : Begins(c, s.course)
    <3>1. CASE c \in watched[r]
      BY <3>1 DEF Kept, WatchedIsSaved
    <3>2. CASE c \notin watched[r]
      <4>1. phase = "push" /\ r = Len(course) /\ c = course
        BY <2>2, <3>2 DEF Kept, Typed
      <4> QED
        BY <4>1, <1>2, <2>1
    <3> QED
      BY <3>1, <3>2
  <2> QED
    BY <2>1, <2>2
<1> QED
  BY <1>3, <1>4, <1>5, <1>6 DEF Kept

(* A Push opened, by a Lull's end or by a resumed save: what its flush     *)
(* writes is the save of its seals.                                        *)
LEMMA OpeningKeeps ==
  ASSUME Kept, host' = "up", phase' = "push", course' \in Seq(Orders),
         todo' = Opening(course'),
         UNCHANGED <<save, watched, failures>>,
         \A s \in save : /\ Begins(s.course, course')
                         /\ s.course = course' => s.boundary = "sealed"
  PROVE  Kept'
<1> DEFINE c == course'
           list == Opening(c)
<1>1. /\ list \in Seq(Writes)
      /\ \A i \in 1..Len(list) : list[i] = Audit => i = Len(list)
      /\ SaveOf("sealed", c) \in ToSet(list)
      /\ \A w \in ToSet(list) : w.file = "save" => w = SaveOf("sealed", c)
  <2> HIDE DEF list
  <2>1. c \in Seq(Orders) /\ list = Opening(c)
    BY DEF list
  <2> HIDE DEF c
  <2> QED
    BY <2>1, OpeningHolds
<1>2. /\ SaveOf("sealed", c).file = "save"
      /\ SaveOf("sealed", c).is.course = c
      /\ SaveOf("sealed", c).is.boundary = "sealed"
  BY DEF SaveOf
<1>3. todo' = list /\ Audit' = Audit
  BY DEF Audit
<1> HIDE DEF list
<1>4. Typed'
  BY <1>1, <1>3 DEF Kept, Typed
<1>5. AuditIsLast'
  BY <1>1, <1>3 DEF AuditIsLast
<1>6. SavesDueAreOfNow'
  BY <1>1, <1>2, <1>3 DEF SavesDueAreOfNow
<1>7. SaveIsBehind'
  BY DEF Kept, SaveIsBehind, Begins
<1>8. WatchedIsSaved'
  BY <1>1, <1>2, <1>3 DEF Kept, WatchedIsSaved, Begins
<1> QED
  BY <1>4, <1>5, <1>6, <1>7, <1>8 DEF Kept

(* A Lull, new or resumed, in which nothing is due but the log.            *)
LEMMA LullKeeps ==
  ASSUME Kept, host' = "up", phase' = "lull", course' \in Seq(Orders),
         todo' = <<Audit>>,
         UNCHANGED <<save, watched, failures>>,
         \A s \in save : Begins(s.course, course')
  PROVE  Kept'
<1>1. /\ todo' \in Seq(Writes)
      /\ \A i \in 1..Len(todo') : todo'[i] = Audit => i = Len(todo')
      /\ \A w \in ToSet(todo') : w.file # "save"
  <2>1. Light(todo')
    BY DEF Light
  <2> QED
    BY <2>1, LightHolds
<1>2. Typed'
  BY <1>1 DEF Kept, Typed
<1>3. AuditIsLast' /\ SavesDueAreOfNow'
  <2>1. Audit' = Audit
    BY DEF Audit
  <2> QED
    BY <1>1, <2>1 DEF AuditIsLast, SavesDueAreOfNow
<1>4. SaveIsBehind' /\ WatchedIsSaved'
  BY DEF Kept, SaveIsBehind, WatchedIsSaved, Begins
<1> QED
  BY <1>2, <1>3, <1>4 DEF Kept

LEMMA OpenKeeps == Kept /\ Open => Kept'
<1> SUFFICES ASSUME Kept, Open PROVE Kept'
  OBVIOUS
<1>1. /\ host' = "up" /\ phase' = "lull" /\ course' = <<>> /\ save = {}
      /\ todo' = <<Audit>> /\ UNCHANGED <<save, watched, failures>>
  BY DEF Open, folder
<1> QED
  BY <1>1, LullKeeps

LEMMA ResumeKeeps == Kept /\ Resume => Kept'
<1> SUFFICES ASSUME Kept, Resume PROVE Kept'
  OBVIOUS
<1>1. PICK s \in save :
        /\ course' = s.course
        /\ phase' = IF s.boundary = "sealed" THEN "push" ELSE "lull"
        /\ todo' = IF s.boundary = "sealed" THEN Opening(s.course) ELSE <<Audit>>
  BY DEF Resume
<1>2. host' = "up" /\ UNCHANGED <<save, watched, failures>>
  BY DEF Resume, folder
<1>3. s.course \in Seq(Orders) /\ Begins(s.course, s.course)
  <2>1. s.course \in Seq(Orders)
    BY DEF Kept, Typed, Saves
  <2> QED
    BY <2>1, LenProperties DEF Begins
<1>4. \A t \in save : t = s
  BY DEF Kept, SaveIsBehind
<1>5. CASE s.boundary = "sealed"
  BY <1>1, <1>2, <1>3, <1>4, <1>5, OpeningKeeps
<1>6. CASE s.boundary # "sealed"
  BY <1>1, <1>2, <1>3, <1>4, <1>6, LullKeeps
<1> QED
  BY <1>5, <1>6

LEMMA EndLullKeeps == Kept /\ EndLull => Kept'
<1> SUFFICES ASSUME Kept, EndLull PROVE Kept'
  OBVIOUS
<1>1. PICK orders \in Orders :
        /\ course' = Append(course, orders)
        /\ todo' = todo \o Opening(course')
  BY DEF EndLull
<1>2. /\ host = "up" /\ todo = <<>> /\ phase' = "push"
      /\ UNCHANGED <<host, save, watched, failures>>
  BY DEF EndLull, Ready, Answered, folder
<1>3. course \in Seq(Orders) /\ course' \in Seq(Orders)
  BY <1>1, AppendProperties DEF Kept, Typed
<1>4. todo' = Opening(course')
  <2> DEFINE c == course'
  <2>1. c \in Seq(Orders)
    BY <1>3
  <2>2. todo' = <<>> \o Opening(c)
    BY <1>1, <1>2
  <2> HIDE DEF c
  <2>3. Opening(c) \in Seq(Writes)
    BY <2>1, OpeningHolds
  <2>4. todo' = Opening(c)
    BY <2>2, <2>3, ConcatEmptySeq
  <2> QED
    BY <2>4 DEF c
<1>5. ASSUME NEW s \in save
      PROVE  Begins(s.course, course') /\ s.course # course'
  <2>1. s.course \in Seq(Orders) /\ Begins(s.course, course)
    BY <1>2 DEF Kept, Typed, Saves, SaveIsBehind
  <2> QED
    BY <2>1, <1>1, <1>3, BeginsAppend
<1> QED
  BY <1>2, <1>3, <1>4, <1>5, OpeningKeeps

LEMMA CallKeeps == Kept /\ Call => Kept'
<1> SUFFICES ASSUME Kept, Call PROVE Kept'
  OBVIOUS
<1>1. /\ host = "up" /\ todo = <<>> /\ todo' = <<Audit>>
      /\ UNCHANGED <<host, phase, course, save, watched, failures>>
  BY DEF Call, Ready, Answered, folder
<1>2. Light(todo')
  BY <1>1 DEF Light
<1>3. phase \in {"lull", "push", "recap", "ended"}
  BY DEF Kept, Typed
<1> QED
  BY <1>1, <1>2, <1>3, JobKeeps

LEMMA AdvancePushKeeps == Kept /\ AdvancePush => Kept'
<1> SUFFICES ASSUME Kept, AdvancePush PROVE Kept'
  OBVIOUS
<1>1. /\ host = "up" /\ todo = <<>> /\ phase = "push"
      /\ UNCHANGED <<host, course, save, failures>>
  BY DEF AdvancePush, Ready, Answered, folder
<1>2. /\ phase' \in {"push", "recap"}
      /\ todo' = todo \o <<Audit>> \/ todo' = todo \o <<Chain, Audit>>
  BY DEF AdvancePush
<1>3. Light(todo')
  <2>1. Audit \in Writes /\ Chain \in Writes
    BY DEF Writes
  <2> HIDE DEF Audit, Chain
  <2>2. <<Audit>> \in Seq(Writes) /\ <<Chain, Audit>> \in Seq(Writes)
    BY <2>1
  <2>3. <<>> \o <<Audit>> = <<Audit>> /\ <<>> \o <<Chain, Audit>> = <<Chain, Audit>>
    BY <2>2, ConcatEmptySeq
  <2> QED
    BY <1>1, <1>2, <2>3 DEF Light
<1>4. watched' = [watched EXCEPT ![Len(course)] = @ \union {course}]
  BY <1>1 DEF AdvancePush, Round
<1> QED
  BY <1>1, <1>2, <1>3, <1>4, JobKeeps

LEMMA EndRecapKeeps == Kept /\ EndRecap => Kept'
<1> SUFFICES ASSUME Kept, EndRecap PROVE Kept'
  OBVIOUS
<1>1. /\ host = "up" /\ todo = <<>> /\ phase = "recap" /\ todo' = <<Audit>>
      /\ UNCHANGED <<host, course, save, watched, failures>>
  BY DEF EndRecap, Ready, Answered, folder
<1>2. Light(todo')
  BY <1>1 DEF Light
<1>3. phase' \in {"lull", "ended"}
  BY DEF EndRecap
<1> QED
  BY <1>1, <1>2, <1>3, JobKeeps

LEMMA StopKeeps == Kept /\ Stop => Kept'
<1> SUFFICES ASSUME Kept, Stop PROVE Kept'
  OBVIOUS
<1>1. /\ host = "up" /\ host' = "closing" /\ todo = <<>>
      /\ UNCHANGED <<phase, course, save, watched, failures>>
  BY DEF Stop, Ready, memory, folder, history
<1>2. course \in Seq(Orders)
  BY DEF Kept, Typed
<1>3. SaveIsBehind' /\ WatchedIsSaved'
  BY <1>1 DEF Kept, SaveIsBehind, WatchedIsSaved, Begins
<1>4. CASE phase = "lull"
  <2> DEFINE due == SaveOf("lull", course)
  <2>1. Len(course) \in Nat /\ SubSeq(course, 1, Len(course)) = course
    BY <1>2, LenProperties, SubSeqFull
  <2>2. Round - 1 = Len(course)
    BY <1>4, <2>1 DEF Round
  <2>3. todo' = <<due, Audit>>
    BY <1>4, <2>1, <2>2 DEF Stop, ClosesALull
  <2>4. /\ due \in Writes /\ Audit \in Writes /\ due # Audit
        /\ due.file = "save" /\ Audit.file # "save"
        /\ due.is.course = course /\ due.is.boundary = "lull"
    BY <1>2 DEF SaveOf, Audit, Writes, Saves
  <2>5. Audit' = Audit
    BY DEF Audit
  <2> HIDE DEF due
  <2>6. /\ todo' \in Seq(Writes) /\ Len(todo') = 2
        /\ todo'[1] = due /\ todo'[2] = Audit /\ DOMAIN todo' = 1..2
    BY <2>3, <2>4
  <2>7. Typed'
    BY <1>1, <2>6 DEF Kept, Typed
  <2>8. AuditIsLast'
    BY <2>4, <2>5, <2>6 DEF AuditIsLast
  <2>9. SavesDueAreOfNow'
    <3>1. ToSet(todo') = {due, Audit}
      BY <2>6 DEF ToSet
    <3> QED
      BY <1>1, <1>4, <2>4, <3>1 DEF SavesDueAreOfNow
  <2> QED
    BY <1>3, <2>7, <2>8, <2>9 DEF Kept
<1>5. CASE phase # "lull"
  <2>1. Light(todo')
    BY <1>5 DEF Stop, ClosesALull, Light
  <2>2. /\ todo' \in Seq(Writes)
        /\ \A i \in 1..Len(todo') : todo'[i] = Audit => i = Len(todo')
        /\ \A w \in ToSet(todo') : w.file # "save"
    BY <2>1, LightHolds
  <2>3. Typed'
    BY <1>1, <2>2 DEF Kept, Typed
  <2>4. Audit' = Audit
    BY DEF Audit
  <2>5. AuditIsLast' /\ SavesDueAreOfNow'
    BY <2>2, <2>4 DEF AuditIsLast, SavesDueAreOfNow
  <2> QED
    BY <1>3, <2>3, <2>5 DEF Kept
<1> QED
  BY <1>4, <1>5

LEMMA WriteFailsKeeps == Kept /\ WriteFails => Kept'
<1> SUFFICES ASSUME Kept, WriteFails PROVE Kept'
  OBVIOUS
<1>1. host # "down" /\ todo # <<>>
  BY DEF WriteFails, Torn, Due
<1>2. /\ todo' = Tail(todo) /\ failures' = failures \union {Head(todo).file}
      /\ UNCHANGED <<host, phase, course, save, watched>>
  BY DEF WriteFails, memory
<1> QED
  BY <1>1, <1>2, WriteKeeps

(* Every step keeps the invariant.                                         *)
LEMMA KeptNext == Kept /\ [Next]_vars => Kept'
<1> SUFFICES ASSUME Kept, [Next]_vars PROVE Kept'
  OBVIOUS
<1>1. CASE Open \/ Resume
  BY <1>1, OpenKeeps, ResumeKeeps
<1>2. CASE Call \/ EndLull \/ AdvancePush \/ EndRecap \/ Stop
  BY <1>2, CallKeeps, EndLullKeeps, AdvancePushKeeps, EndRecapKeeps, StopKeeps
<1>3. CASE WriteSealed
  BY <1>3, WriteKeeps DEF WriteSealed, Due, memory, history
<1>4. CASE WriteChain
  BY <1>4, WriteKeeps DEF WriteChain, Due, memory, history
<1>5. CASE WriteSave
  BY <1>5, SaveKeeps
<1>6. CASE WriteFails
  BY <1>6, WriteFailsKeeps
<1>7. CASE AppendAudit
  BY <1>7, FlushKeeps DEF AppendAudit, history
<1>8. CASE AppendFails
  BY <1>8, FlushKeeps DEF AppendFails, AppendsPartly
<1>9. CASE Crash
  BY <1>9, GoneKeeps DEF Crash, Dies
<1>10. CASE CrashInWrite
  <2>1. failures \subseteq failures'
    BY <1>10 DEF CrashInWrite, AppendsPartly
  <2> QED
    BY <1>10, <2>1, GoneKeeps DEF CrashInWrite, Dies
<1>11. CASE UNCHANGED vars
  BY <1>11 DEF vars, memory, folder, history, Kept, Typed, AuditIsLast, Audit,
               SavesDueAreOfNow, SaveIsBehind, WatchedIsSaved, Begins
<1> QED
  BY <1>1, <1>2, <1>3, <1>4, <1>5, <1>6, <1>7, <1>8, <1>9, <1>10, <1>11 DEF Next

----------------------------------------------------------------------------
(* Whose view a call was answered under, as long as no append was cut.     *)

(* A flush ends with the log whatever else it writes.                      *)
FlushEndsWithLog == todo # <<>> => todo[Len(todo)] = Audit

(* The lines not yet taken are the last of those numbered, and the log is  *)
(* behind them.                                                            *)
LinesAreNumbered ==
  /\ nextSeq \in Nat \ {0} /\ generation \in Nat \union {-1}
  /\ log.last \in Nat /\ log.end = "whole"
  /\ entries = {} \/ \E k \in Nat : k < nextSeq /\ entries = k..(nextSeq - 1)
  /\ host # "down" => log.last < nextSeq

(* The log has gone past a generation once a call was answered under it:   *)
(* its first line is in the log, or will be before the flush is over.      *)
GenerationIsPassed ==
  host # "down" /\ generation # -1 =>
    \/ generation < log.last
    \/ todo # <<>> /\ entries # {} /\ generation < nextSeq - 1

(* The generations answered under so far are past, or of this process.     *)
MintedInThePast ==
  \A m \in minted : m.generation # -1 =>
    /\ m.generation \in Nat /\ m.generation < log.last
    /\ host # "down" /\ generation # -1 =>
         /\ m.generation <= generation
         /\ m.generation = generation => m.by = process

Signed == /\ FlushEndsWithLog
          /\ "audit" \notin failures =>
               /\ LinesAreNumbered /\ GenerationIsPassed /\ MintedInThePast
               /\ ViewsAreOnesOwn

LEMMA SignedInit == Init => Signed
BY DEF Init, Signed, FlushEndsWithLog, LinesAreNumbered, GenerationIsPassed,
       MintedInThePast, ViewsAreOnesOwn

(* Whatever is not the log leaves a flush something to write.              *)
LEMMA LogIsStillToCome ==
  ASSUME todo \in Seq(Writes), todo # <<>>, FlushEndsWithLog
  PROVE  /\ Tail(todo) # <<>> => Tail(todo)[Len(Tail(todo))] = Audit
         /\ Head(todo).file # "audit" => Tail(todo) # <<>>
<1>1. /\ Len(todo) \in Nat \ {0} /\ Len(Tail(todo)) = Len(todo) - 1
      /\ \A i \in 1..Len(Tail(todo)) : Tail(todo)[i] = todo[i + 1]
      /\ Head(todo) = todo[1] /\ Tail(todo) \in Seq(Writes)
  BY HeadTailProperties, LenProperties, EmptySeq
<1>2. todo[Len(todo)] = Audit
  BY DEF FlushEndsWithLog
<1>3. ASSUME Tail(todo) # <<>> PROVE Tail(todo)[Len(Tail(todo))] = Audit
  <2>1. Len(Tail(todo)) \in Nat \ {0}
    BY <1>1, <1>3, EmptySeq, LenProperties
  <2>2. Len(Tail(todo)) \in 1..Len(Tail(todo)) /\ Len(Tail(todo)) + 1 = Len(todo)
    BY <1>1, <2>1
  <2> QED
    BY <1>1, <1>2, <2>2
<1>4. ASSUME Tail(todo) = <<>> PROVE Head(todo).file = "audit"
  <2> DEFINE rest == Tail(todo)
  <2>1. rest = <<>> /\ Len(rest) = Len(todo) - 1
    BY <1>1, <1>4
  <2> HIDE DEF rest
  <2>2. Len(<<>>) = 0
    OBVIOUS
  <2>3. Len(rest) = Len(<<>>)
    BY <2>1
  <2> DEFINE n == Len(todo)
  <2>4. n = 1
    <3>1. n \in Nat /\ n - 1 = 0
      BY <1>1, <2>1, <2>2, <2>3
    <3> HIDE DEF n
    <3> QED
      BY <3>1
  <2>5. Head(todo) = Audit
    BY <1>1, <1>2, <2>4
  <2> QED
    BY <2>5 DEF Audit
<1> QED
  BY <1>3, <1>4

(* One line more.                                                          *)
LEMMA RecordNumbers ==
  ASSUME LinesAreNumbered, Record(1), UNCHANGED <<generation, log>>,
         host' # "down" => host # "down"
  PROVE  LinesAreNumbered' /\ entries' # {} /\ nextSeq' = nextSeq + 1
<1>1. /\ entries' = entries \union nextSeq..nextSeq /\ nextSeq' = nextSeq + 1
      /\ nextSeq \in Nat \ {0}
  BY DEF Record, LinesAreNumbered
<1>2. \E k \in Nat : k < nextSeq' /\ entries' = k..(nextSeq' - 1)
  <2>1. CASE entries = {}
    <3>1. entries' = nextSeq..(nextSeq' - 1) /\ nextSeq < nextSeq'
      BY <1>1, <2>1
    <3> QED
      BY <1>1, <3>1
  <2>2. CASE entries # {}
    <3>1. PICK k \in Nat : k < nextSeq /\ entries = k..(nextSeq - 1)
      BY <2>2 DEF LinesAreNumbered
    <3>2. entries' = k..(nextSeq' - 1) /\ k < nextSeq'
      BY <1>1, <3>1
    <3> QED
      BY <3>2
  <2> QED
    BY <2>1, <2>2
<1>3. host' # "down" => log.last < nextSeq'
  BY <1>1 DEF LinesAreNumbered
<1> QED
  BY <1>1, <1>2, <1>3 DEF LinesAreNumbered

(* A call is answered when everything before it is in the log.             *)
LEMMA JobSigns ==
  ASSUME Signed, Ready, Record(1), Answered, FlushEndsWithLog'
  PROVE  Signed'
<1> SUFFICES ASSUME "audit" \notin failures
             PROVE  /\ LinesAreNumbered' /\ GenerationIsPassed'
                    /\ MintedInThePast' /\ ViewsAreOnesOwn'
  BY DEF Signed, Answered
<1>1. /\ host = "up" /\ todo = <<>>
      /\ UNCHANGED <<host, generation, log, process, failures>>
      /\ minted' = minted \union {[generation |-> generation, by |-> process]}
  BY DEF Ready, Answered, folder
<1>2. /\ LinesAreNumbered /\ GenerationIsPassed /\ MintedInThePast
      /\ ViewsAreOnesOwn
  BY DEF Signed
<1>3. LinesAreNumbered' /\ entries' # {} /\ nextSeq' = nextSeq + 1
  BY <1>1, <1>2, RecordNumbers
<1>4. generation # -1 => generation \in Nat /\ generation < log.last
  BY <1>1, <1>2 DEF GenerationIsPassed, LinesAreNumbered
<1>5. GenerationIsPassed'
  BY <1>1, <1>4 DEF GenerationIsPassed
<1>6. MintedInThePast'
  BY <1>1, <1>2, <1>4 DEF MintedInThePast
<1>7. ViewsAreOnesOwn'
  <2> SUFFICES ASSUME NEW m \in minted', NEW n \in minted',
                      m.generation = n.generation, m.generation # -1
               PROVE  m.by = n.by
    BY DEF ViewsAreOnesOwn
  <2>1. \A x \in minted : x.generation = generation /\ generation # -1 =>
                            x.by = process
    BY <1>1, <1>2 DEF MintedInThePast
  <2> QED
    BY <1>1, <1>2, <2>1 DEF ViewsAreOnesOwn
<1> QED
  BY <1>3, <1>5, <1>6, <1>7

(* A write before the log's leaves the log still to come.                  *)
LEMMA WriteSigns ==
  ASSUME Kept, Signed, todo # <<>>, Head(todo).file # "audit",
         todo' = Tail(todo), Record(1) \/ UNCHANGED <<entries, nextSeq>>,
         UNCHANGED <<host, generation, log, process, minted>>,
         failures \subseteq failures'
  PROVE  Signed'
<1>1. FlushEndsWithLog' /\ todo' # <<>>
  <2>1. Audit' = Audit
    BY DEF Audit
  <2> QED
    BY <2>1, LogIsStillToCome DEF Kept, Typed, Signed, FlushEndsWithLog
<1> SUFFICES ASSUME "audit" \notin failures
             PROVE  /\ LinesAreNumbered' /\ GenerationIsPassed'
                    /\ MintedInThePast' /\ ViewsAreOnesOwn'
  BY <1>1 DEF Signed
<1>2. /\ LinesAreNumbered /\ GenerationIsPassed /\ MintedInThePast
      /\ ViewsAreOnesOwn
  BY DEF Signed
<1>3. /\ LinesAreNumbered'
      /\ /\ entries # {} => entries' # {}
         /\ nextSeq' \in {nextSeq, nextSeq + 1}
  <2>1. CASE Record(1)
    BY <1>2, <2>1, RecordNumbers
  <2>2. CASE UNCHANGED <<entries, nextSeq>>
    BY <1>2, <2>2 DEF LinesAreNumbered
  <2> QED
    BY <2>1, <2>2
<1>4. GenerationIsPassed'
  <2> SUFFICES ASSUME host # "down", generation # -1, ~(generation < log.last)
               PROVE  entries' # {} /\ generation < nextSeq' - 1
    BY <1>1 DEF GenerationIsPassed
  <2>1. entries # {} /\ generation < nextSeq - 1
    BY <1>2 DEF GenerationIsPassed
  <2>2. generation \in Int /\ nextSeq \in Int
    BY <1>2 DEF LinesAreNumbered
  <2>3. entries' # {} /\ nextSeq' \in {nextSeq, nextSeq + 1}
    BY <1>3, <2>1
  <2>4. generation < nextSeq' - 1
    <3>1. CASE nextSeq' = nextSeq
      BY <2>1, <3>1
    <3>2. CASE nextSeq' = nextSeq + 1
      <4>1. nextSeq' - 1 = nextSeq
        BY <2>2, <3>2
      <4>2. generation < nextSeq
        BY <2>1, <2>2
      <4> QED
        BY <4>1, <4>2
    <3> QED
      BY <2>3, <3>1, <3>2
  <2> QED
    BY <2>3, <2>4
<1>5. MintedInThePast' /\ ViewsAreOnesOwn'
  BY <1>2 DEF MintedInThePast, ViewsAreOnesOwn
<1> QED
  BY <1>3, <1>4, <1>5

(* What a process that ends takes with it was never answered under.        *)
LEMMA GoneSigns ==
  ASSUME Signed, Gone, UNCHANGED minted, failures \subseteq failures',
         "audit" \notin failures' =>
           log'.last \in Nat /\ log'.end = "whole" /\ log.last <= log'.last
  PROVE  Signed'
<1>1. FlushEndsWithLog'
  BY DEF Gone, FlushEndsWithLog
<1> SUFFICES ASSUME "audit" \notin failures'
             PROVE  /\ LinesAreNumbered' /\ GenerationIsPassed'
                    /\ MintedInThePast' /\ ViewsAreOnesOwn'
  BY <1>1 DEF Signed
<1>2. LinesAreNumbered /\ MintedInThePast /\ ViewsAreOnesOwn
  BY DEF Signed
<1>3. host' = "down" /\ entries' = {} /\ nextSeq' = 1 /\ generation' = -1
  BY DEF Gone
<1>4. LinesAreNumbered' /\ GenerationIsPassed'
  BY <1>3 DEF LinesAreNumbered, GenerationIsPassed
<1>5. MintedInThePast' /\ ViewsAreOnesOwn'
  BY <1>2, <1>3 DEF MintedInThePast, ViewsAreOnesOwn, LinesAreNumbered
<1> QED
  BY <1>4, <1>5

(* The lines of a flush are appended whole.                                *)
LEMMA AppendSigns ==
  ASSUME Signed, AppendAudit
  PROVE  Signed'
<1>1. /\ host # "down" /\ UNCHANGED <<process, failures, minted>>
      /\ log' = IF entries = {} THEN log ELSE Appended(entries)
  BY DEF AppendAudit, Due, history
<1>2. ASSUME "audit" \notin failures
      PROVE  /\ log'.last \in Nat /\ log'.end = "whole" /\ log.last <= log'.last
             /\ log'.last < nextSeq
             /\ entries # {} => log'.last = nextSeq - 1
  <2>1. LinesAreNumbered
    BY <1>2 DEF Signed
  <2>2. CASE entries = {}
    BY <1>1, <2>1, <2>2 DEF LinesAreNumbered
  <2>3. CASE entries # {}
    <3>1. PICK k \in Nat : k < nextSeq /\ entries = k..(nextSeq - 1)
      BY <2>1, <2>3 DEF LinesAreNumbered
    <3>2. /\ nextSeq \in Nat \ {0} /\ log.last \in Nat /\ log.last < nextSeq
          /\ log.end = "whole"
      BY <1>1, <2>1 DEF LinesAreNumbered
    <3> DEFINE read == entries \union {log.last}
    <3>3. /\ nextSeq - 1 \in read /\ read \subseteq Nat
          /\ \A y \in read : nextSeq - 1 >= y
      BY <3>1, <3>2
    <3>4. Max(read) = nextSeq - 1
      <4> DEFINE last == Max(read)
      <4> HIDE DEF read
      <4>1. last \in read /\ \A y \in read : last >= y
        BY <3>3 DEF Max
      <4> HIDE DEF last
      <4>2. last = nextSeq - 1
        BY <3>2, <3>3, <4>1
      <4> QED
        BY <4>2 DEF last
    <3>5. log' = [last |-> Max(read), end |-> "whole"]
      BY <1>1, <2>3, <3>2 DEF Appended
    <3> QED
      BY <3>2, <3>4, <3>5
  <2> QED
    BY <2>2, <2>3
<1>3. CASE host = "closing"
  BY <1>1, <1>2, <1>3, GoneSigns DEF AppendAudit, Flushed
<1>4. CASE host # "closing"
  <2>1. entries' = {} /\ todo' = <<>> /\ UNCHANGED <<host, generation, nextSeq>>
    BY <1>4 DEF AppendAudit, Flushed, memory
  <2>2. FlushEndsWithLog'
    BY <2>1 DEF FlushEndsWithLog
  <2> SUFFICES ASSUME "audit" \notin failures
               PROVE  /\ LinesAreNumbered' /\ GenerationIsPassed'
                      /\ MintedInThePast' /\ ViewsAreOnesOwn'
    BY <1>1, <2>2 DEF Signed
  <2>3. /\ LinesAreNumbered /\ GenerationIsPassed /\ MintedInThePast
        /\ ViewsAreOnesOwn
    BY DEF Signed
  <2>4. LinesAreNumbered'
    BY <1>2, <2>1, <2>3 DEF LinesAreNumbered
  <2>5. GenerationIsPassed'
    BY <1>2, <2>1, <2>3 DEF GenerationIsPassed, LinesAreNumbered
  <2>6. MintedInThePast' /\ ViewsAreOnesOwn'
    BY <1>1, <1>2, <2>1, <2>3 DEF MintedInThePast, ViewsAreOnesOwn, LinesAreNumbered
  <2> QED
    BY <2>4, <2>5, <2>6
<1> QED
  BY <1>3, <1>4

(* A process starts: under no generation, or under one past all others.    *)
LEMMA OpenSigns == Signed /\ Open => Signed'
<1> SUFFICES ASSUME Signed, Open PROVE Signed'
  OBVIOUS
<1>1. /\ generation' = -1 /\ entries' = {} /\ nextSeq' = log.last + 1
      /\ todo' = <<Audit>> /\ UNCHANGED <<log, failures, minted>>
  BY DEF Open, folder
<1>2. FlushEndsWithLog'
  BY <1>1 DEF FlushEndsWithLog, Audit
<1>3. ASSUME "audit" \notin failures
      PROVE  /\ LinesAreNumbered' /\ GenerationIsPassed'
             /\ MintedInThePast' /\ ViewsAreOnesOwn'
  BY <1>1, <1>3 DEF Signed, LinesAreNumbered, GenerationIsPassed,
                    MintedInThePast, ViewsAreOnesOwn
<1> QED
  BY <1>1, <1>2, <1>3 DEF Signed

LEMMA ResumeSigns == Kept /\ Signed /\ Resume => Signed'
<1> SUFFICES ASSUME Kept, Signed, Resume PROVE Signed'
  OBVIOUS
<1>1. Audit' = Audit
  BY DEF Audit
<1>2. todo' # <<>> /\ todo'[Len(todo')] = Audit
  <2>1. PICK s \in save :
          \/ todo' = Opening(s.course)
          \/ todo' = <<Audit>>
    BY DEF Resume
  <2>2. CASE todo' = Opening(s.course)
    <3>1. s.course \in Seq(Orders)
      BY DEF Kept, Typed, Saves
    <3> QED
      BY <2>2, <3>1, OpeningHolds
  <2>3. CASE todo' = <<Audit>>
    BY <2>3
  <2> QED
    BY <2>1, <2>2, <2>3
<1>3. FlushEndsWithLog'
  BY <1>1, <1>2 DEF FlushEndsWithLog
<1>4. /\ host' = "up" /\ generation' = log.last
      /\ entries' = (log.last + 1)..(log.last + 1)
      /\ nextSeq' = log.last + 1 + 1
      /\ UNCHANGED <<log, failures, minted>>
  BY DEF Resume, Resumed, folder
<1>5. ASSUME "audit" \notin failures
      PROVE  /\ LinesAreNumbered' /\ GenerationIsPassed'
             /\ MintedInThePast' /\ ViewsAreOnesOwn'
  <2>1. log.last \in Nat /\ log.end = "whole" /\ MintedInThePast /\ ViewsAreOnesOwn
    BY <1>5 DEF Signed, LinesAreNumbered
  <2>2. LinesAreNumbered'
    <3>1. log.last + 1 \in Nat /\ log.last + 1 < nextSeq'
          /\ entries' = (log.last + 1)..(nextSeq' - 1)
          /\ log.last < nextSeq' /\ nextSeq' \in Nat \ {0}
      BY <1>4, <2>1
    <3>2. /\ log' = log /\ generation' \in Nat
      BY <1>4, <2>1
    <3>3. \E k \in Nat : k < nextSeq' /\ entries' = k..(nextSeq' - 1)
      BY <3>1
    <3> QED
      BY <2>1, <3>1, <3>2, <3>3 DEF LinesAreNumbered
  <2>3. GenerationIsPassed'
    <3>1. log.last + 1 \in entries' /\ generation' < nextSeq' - 1
      BY <1>4, <2>1
    <3> QED
      BY <1>2, <3>1 DEF GenerationIsPassed
  <2>4. MintedInThePast' /\ ViewsAreOnesOwn'
    BY <1>4, <2>1 DEF MintedInThePast, ViewsAreOnesOwn
  <2> QED
    BY <2>2, <2>3, <2>4
<1> QED
  BY <1>3, <1>4, <1>5 DEF Signed

(* A job, and the flush it leaves.                                         *)
LEMMA JobsSign ==
  Kept /\ Signed /\ (Call \/ EndLull \/ AdvancePush \/ EndRecap) => Signed'
<1> SUFFICES ASSUME Kept, Signed, Call \/ EndLull \/ AdvancePush \/ EndRecap
             PROVE  Signed'
  OBVIOUS
<1>1. Ready /\ Record(1) /\ Answered /\ todo = <<>>
  BY DEF Call, EndLull, AdvancePush, EndRecap, Ready
<1>2. Audit' = Audit
  BY DEF Audit
<1>3. todo'[Len(todo')] = Audit
  <2>1. CASE Call \/ EndRecap
    BY <2>1 DEF Call, EndRecap
  <2>2. CASE EndLull
    <3>1. PICK orders \in Orders :
            /\ course' = Append(course, orders)
            /\ todo' = <<>> \o Opening(course')
      BY <1>1, <2>2 DEF EndLull
    <3> DEFINE c == course'
    <3>2. c \in Seq(Orders) /\ todo' = <<>> \o Opening(c)
      BY <3>1, AppendProperties DEF Kept, Typed
    <3> HIDE DEF c
    <3>3. Opening(c) \in Seq(Writes) /\ Opening(c)[Len(Opening(c))] = Audit
      BY <3>2, OpeningHolds
    <3> QED
      BY <3>2, <3>3, ConcatEmptySeq
  <2>3. CASE AdvancePush
    <3>1. /\ Audit \in Writes /\ Chain \in Writes
          /\ \/ todo' = <<>> \o <<Audit>>
             \/ todo' = <<>> \o <<Chain, Audit>>
      BY <1>1, <2>3 DEF AdvancePush, Writes
    <3> HIDE DEF Audit, Chain, Writes
    <3>2. todo' = <<Audit>> \/ todo' = <<Chain, Audit>>
      <4>1. <<Audit>> \in Seq(Writes) /\ <<Chain, Audit>> \in Seq(Writes)
        BY <3>1
      <4> QED
        BY <3>1, <4>1, ConcatEmptySeq
    <3> QED
      BY <3>2
  <2> QED
    BY <2>1, <2>2, <2>3
<1>4. FlushEndsWithLog'
  BY <1>2, <1>3 DEF FlushEndsWithLog
<1> QED
  BY <1>1, <1>4, JobSigns

LEMMA StopSigns == Signed /\ Stop => Signed'
<1> SUFFICES ASSUME Signed, Stop PROVE Signed'
  OBVIOUS
<1>1. /\ host = "up" /\ host' = "closing" /\ todo = <<>>
      /\ UNCHANGED <<generation, entries, nextSeq, log, process, failures, minted>>
  BY DEF Stop, Ready, memory, folder, history
<1>2. FlushEndsWithLog'
  <2>1. /\ Audit' = Audit
        /\ todo'[Len(todo')] = Audit
    <3> DEFINE due == SaveOf("lull", SubSeq(course, 1, Round - 1))
    <3>1. todo' = <<due, Audit>> \/ todo' = <<Audit>>
      BY DEF Stop
    <3>2. Audit' = Audit
      BY DEF Audit
    <3> HIDE DEF due, Audit
    <3> QED
      BY <3>1, <3>2
  <2> QED
    BY <2>1 DEF FlushEndsWithLog
<1>3. ASSUME "audit" \notin failures
      PROVE  /\ LinesAreNumbered' /\ GenerationIsPassed'
             /\ MintedInThePast' /\ ViewsAreOnesOwn'
  BY <1>1, <1>3 DEF Signed, LinesAreNumbered, GenerationIsPassed,
                    MintedInThePast, ViewsAreOnesOwn
<1> QED
  BY <1>1, <1>2, <1>3 DEF Signed

(* An append that fails is one of the failures the property is let off by. *)
LEMMA AppendFailsSigns == AppendFails => Signed'
<1> SUFFICES ASSUME AppendFails PROVE Signed'
  OBVIOUS
<1>1. "audit" \in failures'
  BY DEF AppendFails, AppendsPartly
<1>2. todo' = <<>>
  BY DEF AppendFails, Flushed, Gone
<1> QED
  BY <1>1, <1>2 DEF Signed, FlushEndsWithLog

LEMMA CrashSigns == Signed /\ (Crash \/ CrashInWrite) => Signed'
<1> SUFFICES ASSUME Signed, Crash \/ CrashInWrite PROVE Signed'
  OBVIOUS
<1>1. Gone /\ UNCHANGED minted
  BY DEF Crash, CrashInWrite, Dies
<1>2. \/ UNCHANGED <<log, failures>>
      \/ failures' = failures \union {"audit"}
  BY DEF Crash, CrashInWrite, AppendsPartly
<1>3. "audit" \notin failures' =>
        log'.last \in Nat /\ log'.end = "whole" /\ log.last <= log'.last
  BY <1>2 DEF Signed, LinesAreNumbered
<1> QED
  BY <1>1, <1>2, <1>3, GoneSigns

(* Every step keeps it.                                                    *)
LEMMA SignedNext == Kept /\ Signed /\ [Next]_vars => Signed'
<1> SUFFICES ASSUME Kept, Signed, [Next]_vars PROVE Signed'
  OBVIOUS
<1>1. CASE Open \/ Resume
  BY <1>1, OpenSigns, ResumeSigns
<1>2. CASE Call \/ EndLull \/ AdvancePush \/ EndRecap
  BY <1>2, JobsSign
<1>3. CASE Stop
  BY <1>3, StopSigns
<1>4. CASE WriteSealed
  BY <1>4, WriteSigns DEF WriteSealed, Due, memory, history
<1>5. CASE WriteChain
  BY <1>5, WriteSigns DEF WriteChain, Due, memory, history
<1>6. CASE WriteSave
  BY <1>6, WriteSigns DEF WriteSave, Due, memory, history
<1>7. CASE WriteFails
  <2>1. todo # <<>> /\ Head(todo).file # "audit"
    BY <1>7 DEF WriteFails, Torn, Due
  <2> QED
    BY <1>7, <2>1, WriteSigns DEF WriteFails, memory
<1>8. CASE AppendAudit
  BY <1>8, AppendSigns
<1>9. CASE AppendFails
  BY <1>9, AppendFailsSigns
<1>10. CASE Crash \/ CrashInWrite
  BY <1>10, CrashSigns
<1>11. CASE UNCHANGED vars
  BY <1>11 DEF vars, memory, folder, history, Signed, FlushEndsWithLog, Audit,
               LinesAreNumbered, GenerationIsPassed, MintedInThePast,
               ViewsAreOnesOwn
<1> QED
  BY <1>1, <1>2, <1>3, <1>4, <1>5, <1>6, <1>7, <1>8, <1>9, <1>10, <1>11 DEF Next

----------------------------------------------------------------------------
(* What is in the folder beside the save, as long as no playbook and no    *)
(* save was refused.                                                       *)

Clean == {"save", "sealed"} \intersect failures = {}

FolderTyped ==
  /\ sealed \in [1..RoundLimit -> [Seats -> Plans \union {"none", "torn"}]]
  /\ chain \in [1..RoundLimit -> SUBSET Seq(Orders)]

RoundsFit ==
  /\ Len(course) <= RoundLimit
  /\ IF phase = "lull" THEN Len(course) < RoundLimit ELSE Len(course) # 0
  /\ \A s \in save :
       /\ Len(s.course) <= RoundLimit
       /\ IF s.boundary = "lull" THEN Len(s.course) < RoundLimit ELSE Len(s.course) # 0

(* The playbooks are the first writes of a flush, and of a Push's opening. *)
SealsComeFirst ==
  \A i \in 1..Len(todo) : todo[i].file = "sealed" =>
    /\ host = "up" /\ phase = "push"
    /\ \A j \in 1..i : todo[j].file = "sealed"

(* A chain is written of a course the save holds.                          *)
ChainIsOfTheSave ==
  \A w \in ToSet(todo) : w.file = "chain" =>
    /\ phase = "recap"
    /\ Clean => \E s \in save : s.course = course

(* The match's playbooks are in the folder, or due.                        *)
CourseIsSealed ==
  Clean /\ host # "down" =>
    \A q \in 1..Len(course), s \in Seats :
      sealed[q][s] = course[q][s] \/ (q = Len(course) /\ SealedFile(s) \in ToSet(todo))

(* The save's are too, but for one torn as a resumed Push wrote it again.  *)
SavedIsSealed ==
  Clean => \A sv \in save : \A q \in 1..Len(sv.course), s \in Seats :
    \/ sealed[q][s] = sv.course[q][s]
    \/ sealed[q][s] = "torn" /\ sv.boundary = "sealed" /\ Len(sv.course) = q

ChainIsSaved ==
  Clean => \A r \in 1..RoundLimit : \A c \in chain[r] :
    Len(c) = r /\ \E sv \in save : Begins(c, sv.course)

Filed ==
  /\ FolderTyped /\ RoundsFit /\ SealsComeFirst /\ ChainIsOfTheSave
  /\ CourseIsSealed /\ SavedIsSealed /\ ChainIsSaved

LEMMA FiledInit == Init => Filed
<1> SUFFICES ASSUME Init PROVE Filed
  OBVIOUS
<1>1. ToSet(<<>>) = {} /\ Len(<<>>) = 0 /\ RoundLimit \in Nat \ {0}
  BY PersistenceAssumption DEF ToSet
<1>2. FolderTyped
  BY DEF Init, FolderTyped
<1>3. RoundsFit /\ SealsComeFirst /\ ChainIsOfTheSave
  BY <1>1 DEF Init, RoundsFit, SealsComeFirst, ChainIsOfTheSave
<1>4. CourseIsSealed /\ SavedIsSealed /\ ChainIsSaved
  BY DEF Init, CourseIsSealed, SavedIsSealed, ChainIsSaved
<1> QED
  BY <1>2, <1>3, <1>4 DEF Filed

(* A list that starts otherwise holds no playbook.                         *)
LEMMA NoSealIsDue ==
  ASSUME Kept, Filed, todo # <<>>, Head(todo).file # "sealed"
  PROVE  \A w \in ToSet(todo) : w.file # "sealed"
<1>1. todo \in Seq(Writes) /\ Len(todo) \in Nat \ {0} /\ DOMAIN todo = 1..Len(todo)
  BY EmptySeq, LenProperties DEF Kept, Typed
<1>2. Head(todo) = todo[1]
  OBVIOUS
<1>3. ASSUME NEW i \in 1..Len(todo) PROVE todo[i].file # "sealed"
  BY <1>1, <1>2, <1>3 DEF Filed, SealsComeFirst
<1> QED
  BY <1>1, <1>3 DEF ToSet

LEMMA SealIsDue ==
  ASSUME Kept, Filed, Due("sealed")
  PROVE  /\ host = "up" /\ phase = "push" /\ Round = Len(course)
         /\ Len(course) \in 1..RoundLimit
         /\ Head(todo).seat \in Seats /\ Head(todo) = SealedFile(Head(todo).seat)
<1>1. /\ todo \in Seq(Writes) /\ Len(todo) \in Nat \ {0} /\ todo # <<>>
      /\ Head(todo).file = "sealed"
  BY EmptySeq DEF Kept, Typed, Due
<1>2. Head(todo) = todo[1] /\ Head(todo) \in Writes
  BY <1>1
<1>3. host = "up" /\ phase = "push"
  BY <1>1, <1>2 DEF Filed, SealsComeFirst
<1>4. Len(course) \in Nat
  BY LenProperties DEF Kept, Typed
<1>5. RoundLimit \in Nat
  BY PersistenceAssumption
<1>6. Head(todo) \in [file : {"sealed"}, seat : Seats]
  BY <1>1, <1>2 DEF Writes, Chain, Audit
<1>7. Len(course) \in 1..RoundLimit /\ Round = Len(course)
  BY <1>3, <1>4, <1>5 DEF Filed, RoundsFit, Round
<1> QED
  BY <1>3, <1>6, <1>7 DEF SealedFile

(* What is left of a flush once its first write is behind it.              *)
LEMMA TailIsFiled ==
  ASSUME Kept, Filed, todo # <<>>, todo' = Tail(todo), UNCHANGED <<host, phase>>
  PROVE  SealsComeFirst'
<1>1. /\ Len(todo) \in Nat \ {0} /\ Len(Tail(todo)) = Len(todo) - 1
      /\ \A i \in 1..Len(Tail(todo)) : Tail(todo)[i] = todo[i + 1]
  BY HeadTailProperties, EmptySeq DEF Kept, Typed
<1> SUFFICES ASSUME NEW i \in 1..Len(Tail(todo)), Tail(todo)[i].file = "sealed"
             PROVE  /\ host = "up" /\ phase = "push"
                    /\ \A j \in 1..i : Tail(todo)[j].file = "sealed"
  BY DEF SealsComeFirst
<1>2. i + 1 \in 1..Len(todo) /\ todo[i + 1].file = "sealed"
  BY <1>1
<1>3. /\ host = "up" /\ phase = "push"
      /\ \A j \in 1..(i + 1) : todo[j].file = "sealed"
  BY <1>2 DEF Filed, SealsComeFirst
<1>4. ASSUME NEW j \in 1..i PROVE Tail(todo)[j].file = "sealed"
  BY <1>1, <1>3
<1> QED
  BY <1>3, <1>4

(* A job that opens no Push.                                               *)
LEMMA JobFiles ==
  ASSUME Kept, Filed, host = "up", todo = <<>>, host' # "down",
         UNCHANGED <<course, sealed, chain, save, failures>>,
         todo' \in Seq(Writes),
         \A w \in ToSet(todo') : /\ w.file # "sealed"
                                 /\ w.file = "chain" => phase = "push" /\ phase' = "recap",
         IF phase' = "lull" THEN Len(course) < RoundLimit ELSE Len(course) # 0
  PROVE  Filed'
<1>1. FolderTyped' /\ RoundsFit'
  BY DEF Filed, FolderTyped, RoundsFit
<1>2. ToSet(<<>>) = {}
  BY DEF ToSet
<1>3. SealsComeFirst'
  <2>1. DOMAIN todo' = 1..Len(todo')
    BY LenProperties
  <2> QED
    BY <2>1 DEF SealsComeFirst, ToSet
<1>4. ChainIsOfTheSave'
  BY <1>2 DEF ChainIsOfTheSave, Clean, Kept, WatchedIsSaved
<1>5. CourseIsSealed'
  BY <1>2 DEF Filed, CourseIsSealed, Clean
<1>6. SavedIsSealed' /\ ChainIsSaved'
  BY DEF Filed, SavedIsSealed, ChainIsSaved, Clean, Begins
<1> QED
  BY <1>1, <1>3, <1>4, <1>5, <1>6 DEF Filed

(* What a Push's opening writes, its playbooks first.                      *)
LEMMA OpeningSeals ==
  ASSUME NEW c \in Seq(Orders)
  PROVE  /\ \A i \in 1..Len(Opening(c)) : Opening(c)[i].file = "sealed" =>
              \A j \in 1..i : Opening(c)[j].file = "sealed"
         /\ \A s \in Seats : SealedFile(s) \in ToSet(Opening(c))
         /\ \A w \in ToSet(Opening(c)) : w.file # "chain"
<1> DEFINE list == Opening(c)
<1>1. /\ list \in Seq(Writes) /\ NumSeats \in Nat /\ Len(list) = NumSeats + 2
      /\ \A i \in 1..(NumSeats + 2) :
           \/ i <= NumSeats /\ list[i] = SealedFile(i)
           \/ i = NumSeats + 1 /\ list[i] = SaveOf("sealed", c)
           \/ i = NumSeats + 2 /\ list[i] = Audit
  BY OpeningHolds
<1>2. DOMAIN list = 1..(NumSeats + 2)
  BY <1>1, LenProperties
<1> HIDE DEF list
<1>3. /\ \A i : SealedFile(i).file = "sealed"
      /\ SaveOf("sealed", c).file = "save" /\ Audit.file = "audit"
  BY DEF SealedFile, SaveOf, Audit
<1>4. ASSUME NEW i \in 1..(NumSeats + 2)
      PROVE  /\ i <= NumSeats <=> list[i].file = "sealed"
             /\ list[i].file # "chain"
  BY <1>1, <1>3
<1>5. \A s \in Seats : SealedFile(s) \in ToSet(list)
  <2> SUFFICES ASSUME NEW s \in Seats PROVE SealedFile(s) \in ToSet(list)
    OBVIOUS
  <2>1. s \in 1..(NumSeats + 2) /\ s <= NumSeats
    BY <1>1 DEF Seats
  <2>2. list[s] = SealedFile(s)
    BY <1>1, <2>1
  <2> QED
    BY <1>2, <2>1, <2>2 DEF ToSet
<1>6. \A w \in ToSet(list) : w.file # "chain"
  BY <1>2, <1>4 DEF ToSet
<1>7. ASSUME NEW i \in 1..Len(list), list[i].file = "sealed", NEW j \in 1..i
      PROVE  list[j].file = "sealed"
  <2>1. i \in 1..(NumSeats + 2) /\ j \in 1..(NumSeats + 2)
    BY <1>1
  <2>2. i <= NumSeats
    BY <1>4, <1>7, <2>1
  <2>3. j <= NumSeats
    BY <1>1, <2>1, <2>2
  <2> QED
    BY <1>4, <2>1, <2>3
<1> QED
  BY <1>5, <1>6, <1>7 DEF list

(* A Push opened: every playbook of its round is about to be written.      *)
LEMMA OpeningFiles ==
  ASSUME Kept, Filed, host' = "up", phase' = "push", course' \in Seq(Orders),
         todo' = Opening(course'),
         UNCHANGED <<sealed, chain, save, failures>>,
         Len(course') \in 1..RoundLimit,
         Clean => \A q \in 1..Len(course'), s \in Seats :
                    q # Len(course') => sealed[q][s] = course'[q][s]
  PROVE  Filed'
<1> DEFINE c == course'
           list == Opening(c)
<1>1. /\ \A i \in 1..Len(list) : list[i].file = "sealed" =>
           \A j \in 1..i : list[j].file = "sealed"
      /\ \A s \in Seats : SealedFile(s) \in ToSet(list)
      /\ \A w \in ToSet(list) : w.file # "chain"
  <2> HIDE DEF list
  <2>1. c \in Seq(Orders) /\ list = Opening(c)
    BY DEF list
  <2> HIDE DEF c
  <2> QED
    BY <2>1, OpeningSeals
<1>2. todo' = list
  OBVIOUS
<1> HIDE DEF list
<1>3. FolderTyped' /\ RoundsFit'
  <2>1. RoundLimit \in Nat
    BY PersistenceAssumption
  <2> QED
    BY <2>1 DEF Filed, FolderTyped, RoundsFit
<1>4. SealsComeFirst' /\ ChainIsOfTheSave'
  BY <1>1, <1>2 DEF SealsComeFirst, ChainIsOfTheSave
<1>5. CourseIsSealed'
  BY <1>1, <1>2 DEF CourseIsSealed, Clean, SealedFile
<1>6. SavedIsSealed' /\ ChainIsSaved'
  BY DEF Filed, SavedIsSealed, ChainIsSaved, Clean, Begins
<1> QED
  BY <1>3, <1>4, <1>5, <1>6 DEF Filed

(* A Lull, new or resumed.                                                 *)
LEMMA LullFiles ==
  ASSUME Kept, Filed, host' = "up", phase' = "lull", course' \in Seq(Orders),
         todo' = <<Audit>>,
         UNCHANGED <<sealed, chain, save, failures>>,
         Len(course') < RoundLimit,
         Clean => \A q \in 1..Len(course'), s \in Seats : sealed[q][s] = course'[q][s]
  PROVE  Filed'
<1>1. Audit.file = "audit" /\ Audit \in Writes
  BY DEF Audit, Writes
<1>2. FolderTyped' /\ RoundsFit'
  <2>1. Len(course') \in Nat /\ RoundLimit \in Nat
    BY PersistenceAssumption, LenProperties
  <2> QED
    BY <2>1 DEF Filed, FolderTyped, RoundsFit
<1>3. SealsComeFirst' /\ ChainIsOfTheSave'
  <2> HIDE DEF Audit
  <2>1. /\ \A i \in 1..Len(todo') : todo'[i].file = "audit"
        /\ \A w \in ToSet(todo') : w.file = "audit"
    BY <1>1 DEF ToSet
  <2> QED
    BY <2>1 DEF SealsComeFirst, ChainIsOfTheSave
<1>4. CourseIsSealed'
  BY DEF CourseIsSealed, Clean
<1>5. SavedIsSealed' /\ ChainIsSaved'
  BY DEF Filed, SavedIsSealed, ChainIsSaved, Clean, Begins
<1> QED
  BY <1>2, <1>3, <1>4, <1>5 DEF Filed

LEMMA StartsFile == Kept /\ Filed /\ (Open \/ Resume) => Filed'
<1> SUFFICES ASSUME Kept, Filed, Open \/ Resume PROVE Filed'
  OBVIOUS
<1>1. RoundLimit \in Nat \ {0} /\ <<>> \in Seq(Orders) /\ Len(<<>>) = 0
  BY PersistenceAssumption
<1>2. CASE Open
  <2>1. /\ host' = "up" /\ phase' = "lull" /\ course' = <<>> /\ todo' = <<Audit>>
        /\ UNCHANGED <<sealed, chain, save, failures>>
    BY <1>2 DEF Open, folder
  <2> QED
    BY <1>1, <2>1, LullFiles
<1>3. CASE Resume
  <2>1. PICK sv \in save :
          /\ course' = sv.course
          /\ phase' = IF sv.boundary = "sealed" THEN "push" ELSE "lull"
          /\ todo' = IF sv.boundary = "sealed" THEN Opening(sv.course) ELSE <<Audit>>
    BY <1>3 DEF Resume
  <2>2. host' = "up" /\ UNCHANGED <<sealed, chain, save, failures>>
    BY <1>3 DEF Resume, folder
  <2>3. sv.course \in Seq(Orders) /\ sv.boundary \in {"lull", "sealed"}
          /\ Len(sv.course) \in Nat
    <3>1. sv \in Saves
      BY DEF Kept, Typed
    <3> QED
      BY <3>1, LenProperties DEF Saves
  <2>4. Clean => \A q \in 1..Len(sv.course), s \in Seats :
          \/ sealed[q][s] = sv.course[q][s]
          \/ sv.boundary = "sealed" /\ Len(sv.course) = q
    BY DEF Filed, SavedIsSealed
  <2>5. CASE sv.boundary = "sealed"
    <3>1. Len(sv.course) \in 1..RoundLimit
      BY <1>1, <2>3, <2>5 DEF Filed, RoundsFit
    <3> QED
      BY <2>1, <2>2, <2>3, <2>4, <2>5, <3>1, OpeningFiles
  <2>6. CASE sv.boundary = "lull"
    <3>1. Len(sv.course) < RoundLimit
      BY <2>6 DEF Filed, RoundsFit
    <3> QED
      BY <2>1, <2>2, <2>3, <2>4, <2>6, <3>1, LullFiles
  <2> QED
    BY <2>3, <2>5, <2>6
<1> QED
  BY <1>2, <1>3

LEMMA EndLullFiles == Kept /\ Filed /\ EndLull => Filed'
<1> SUFFICES ASSUME Kept, Filed, EndLull PROVE Filed'
  OBVIOUS
<1>1. PICK orders \in Orders :
        /\ course' = Append(course, orders)
        /\ todo' = todo \o Opening(course')
  BY DEF EndLull
<1>2. /\ host = "up" /\ todo = <<>> /\ phase = "lull" /\ phase' = "push"
      /\ UNCHANGED <<host, sealed, chain, save, failures>>
  BY DEF EndLull, Ready, Answered, folder
<1>3. /\ course \in Seq(Orders) /\ course' \in Seq(Orders)
      /\ Len(course) \in Nat /\ Len(course') = Len(course) + 1
      /\ \A q \in 1..Len(course) : course'[q] = course[q]
  BY <1>1, AppendProperties, LenProperties DEF Kept, Typed
<1>4. todo' = Opening(course')
  <2> DEFINE c == course'
  <2>1. c \in Seq(Orders) /\ todo' = <<>> \o Opening(c)
    BY <1>1, <1>2, <1>3
  <2> HIDE DEF c
  <2>2. Opening(c) \in Seq(Writes)
    BY <2>1, OpeningHolds
  <2>3. todo' = Opening(c)
    BY <2>1, <2>2, ConcatEmptySeq
  <2> QED
    BY <2>3 DEF c
<1>5. Len(course') \in 1..RoundLimit
  <2>1. RoundLimit \in Nat
    BY PersistenceAssumption
  <2> QED
    BY <1>2, <1>3, <2>1 DEF Filed, RoundsFit
<1>6. Clean => \A q \in 1..Len(course'), s \in Seats :
                 q # Len(course') => sealed[q][s] = course'[q][s]
  <2>1. ToSet(<<>>) = {}
    BY DEF ToSet
  <2> QED
    BY <1>2, <1>3, <2>1 DEF Filed, CourseIsSealed
<1> QED
  BY <1>2, <1>3, <1>4, <1>5, <1>6, OpeningFiles

LEMMA JobsFile ==
  Kept /\ Filed /\ (Call \/ AdvancePush \/ EndRecap \/ Stop) => Filed'
<1> SUFFICES ASSUME Kept, Filed, Call \/ AdvancePush \/ EndRecap \/ Stop
             PROVE  Filed'
  OBVIOUS
<1>1. /\ host = "up" /\ todo = <<>> /\ host' # "down"
      /\ UNCHANGED <<course, sealed, chain, save, failures>>
  BY DEF Call, AdvancePush, EndRecap, Stop, Ready, Answered, memory, folder, history
<1>2. RoundLimit \in Nat /\ course \in Seq(Orders) /\ Len(course) \in Nat
  BY PersistenceAssumption, LenProperties DEF Kept, Typed
<1>3. IF phase' = "lull" THEN Len(course) < RoundLimit ELSE Len(course) # 0
  BY <1>2 DEF Call, AdvancePush, EndRecap, Stop, memory, Filed, RoundsFit, Round
<1>4. \/ todo' = <<Audit>>
      \/ phase = "push" /\ phase' = "recap" /\ todo' = <<Chain, Audit>>
      \/ todo' = <<SaveOf("lull", course), Audit>>
  <2>1. /\ <<Audit>> \in Seq(Writes) /\ <<Chain, Audit>> \in Seq(Writes)
        /\ <<>> \o <<Audit>> = <<Audit>>
        /\ <<>> \o <<Chain, Audit>> = <<Chain, Audit>>
    <3>1. Audit \in Writes /\ Chain \in Writes
      BY DEF Writes
    <3> HIDE DEF Audit, Chain
    <3> QED
      BY <3>1, ConcatEmptySeq
  <2>2. phase = "lull" => SubSeq(course, 1, Round - 1) = course
    <3>1. Len(course) + 1 - 1 = Len(course) /\ SubSeq(course, 1, Len(course)) = course
      BY <1>2, SubSeqFull
    <3> QED
      BY <3>1 DEF Round
  <2> HIDE DEF Audit, Chain
  <2> QED
    BY <1>1, <2>1, <2>2 DEF Call, AdvancePush, EndRecap, Stop, ClosesALull
<1>5. todo' \in Seq(Writes)
      /\ \A w \in ToSet(todo') : /\ w.file # "sealed"
                                 /\ w.file = "chain" => phase = "push" /\ phase' = "recap"
  <2> DEFINE due == SaveOf("lull", course)
  <2>1. /\ Audit \in Writes /\ Chain \in Writes /\ due \in Writes
        /\ Audit.file = "audit" /\ Chain.file = "chain" /\ due.file = "save"
    BY <1>2 DEF Audit, Chain, SaveOf, Writes, Saves
  <2> HIDE DEF Audit, Chain, due
  <2>2. CASE todo' = <<Audit>>
    BY <2>1, <2>2 DEF ToSet
  <2>3. CASE phase = "push" /\ phase' = "recap" /\ todo' = <<Chain, Audit>>
    BY <2>1, <2>3 DEF ToSet
  <2>4. CASE todo' = <<due, Audit>>
    BY <2>1, <2>4 DEF ToSet
  <2> QED
    BY <1>4, <2>2, <2>3, <2>4 DEF due
<1> QED
  BY <1>1, <1>3, <1>5, JobFiles

----------------------------------------------------------------------------
(* The writes.                                                             *)

(* A playbook is written as the match has it.                              *)
LEMMA WriteSealedFiles == Kept /\ Filed /\ WriteSealed => Filed'
<1> SUFFICES ASSUME Kept, Filed, WriteSealed PROVE Filed'
  OBVIOUS
<1> DEFINE n == Len(course)
           x == Head(todo).seat
<1>1. /\ host = "up" /\ phase = "push" /\ Round = n /\ n \in 1..RoundLimit
      /\ x \in Seats /\ Head(todo) = SealedFile(x)
  BY SealIsDue DEF WriteSealed
<1>2. /\ todo # <<>> /\ todo' = Tail(todo)
      /\ UNCHANGED <<host, phase, course, chain, save, failures>>
      /\ sealed' = [sealed EXCEPT ![n][x] = course[n][x]]
  BY <1>1 DEF WriteSealed, Due, memory, history
<1>3. ToSet(todo) = {SealedFile(x)} \union ToSet(todo')
  BY <1>1, <1>2, TailHolds DEF Kept, Typed
<1>4. course \in Seq(Orders) /\ course[n][x] \in Plans
  <2>1. course \in Seq(Orders)
    BY DEF Kept, Typed
  <2>2. course[n] \in Orders
    BY <1>1, <2>1, ElementOfSeq
  <2> QED
    BY <1>1, <2>1, <2>2 DEF Orders
<1> HIDE DEF n, x
<1>5. /\ \A q \in 1..RoundLimit, s \in Seats :
           sealed'[q][s] = IF q = n /\ s = x THEN course[n][x] ELSE sealed[q][s]
      /\ FolderTyped'
  BY <1>1, <1>2, <1>4 DEF Filed, FolderTyped
<1>6. RoundsFit' /\ SealsComeFirst'
  BY <1>2, TailIsFiled DEF Filed, RoundsFit
<1>7. ChainIsOfTheSave' /\ ChainIsSaved'
  BY <1>2, <1>3 DEF Filed, ChainIsOfTheSave, ChainIsSaved, Clean, Begins
<1>8. RoundLimit \in Nat
  BY PersistenceAssumption
<1>9. CourseIsSealed'
  <2> SUFFICES ASSUME Clean, NEW q \in 1..Len(course), NEW s \in Seats
               PROVE  \/ sealed'[q][s] = course[q][s]
                      \/ q = Len(course) /\ SealedFile(s) \in ToSet(todo')
    BY <1>2 DEF CourseIsSealed, Clean, SealedFile
  <2>1. q \in 1..RoundLimit
    BY <1>1, <1>8 DEF n
  <2>2. \/ sealed[q][s] = course[q][s]
        \/ q = Len(course) /\ SealedFile(s) \in ToSet(todo)
    BY <1>1 DEF Filed, CourseIsSealed
  <2>3. SealedFile(s) = SealedFile(x) => s = x
    BY DEF SealedFile
  <2> QED
    BY <1>3, <1>5, <2>1, <2>2, <2>3 DEF n
<1>10. SavedIsSealed'
  <2> SUFFICES ASSUME Clean, NEW sv \in save, NEW q \in 1..Len(sv.course),
                      NEW s \in Seats
               PROVE  \/ sealed'[q][s] = sv.course[q][s]
                      \/ /\ sealed'[q][s] = "torn" /\ sv.boundary = "sealed"
                         /\ Len(sv.course) = q
    BY <1>2 DEF SavedIsSealed, Clean
  <2>1. Begins(sv.course, course) /\ Len(sv.course) \in Nat
    <3>1. sv.course \in Seq(Orders)
      BY DEF Kept, Typed, Saves
    <3> QED
      BY <1>1, <3>1, LenProperties DEF Kept, SaveIsBehind
  <2>2. q \in 1..RoundLimit /\ sv.course[q] = course[q]
    BY <1>1, <1>8, <2>1 DEF Begins, n
  <2>3. \/ sealed[q][s] = sv.course[q][s]
        \/ sealed[q][s] = "torn" /\ sv.boundary = "sealed" /\ Len(sv.course) = q
    BY DEF Filed, SavedIsSealed
  <2> QED
    BY <1>5, <2>2, <2>3
<1> QED
  BY <1>5, <1>6, <1>7, <1>9, <1>10 DEF Filed

(* Any other write: of a chain, perhaps, and of nothing else here.         *)
LEMMA PlainWriteFiles ==
  ASSUME Kept, Filed, host # "down", todo # <<>>, todo' = Tail(todo),
         UNCHANGED <<host, phase, course, save>>,
         failures \subseteq failures', FolderTyped',
         Clean' => UNCHANGED sealed /\ Head(todo).file # "sealed",
         Clean' => \A r \in 1..RoundLimit : \A c \in chain'[r] :
                     \/ c \in chain[r]
                     \/ Len(c) = r /\ \E sv \in save : Begins(c, sv.course)
  PROVE  Filed'
<1>1. Clean' => Clean
  BY DEF Clean
<1>2. ToSet(todo) = {Head(todo)} \union ToSet(todo')
  BY TailHolds DEF Kept, Typed
<1>3. RoundsFit' /\ SealsComeFirst'
  BY TailIsFiled DEF Filed, RoundsFit
<1>4. ChainIsOfTheSave'
  BY <1>1, <1>2 DEF Filed, ChainIsOfTheSave
<1>5. CourseIsSealed'
  <2>1. \A s : SealedFile(s).file = "sealed"
    BY DEF SealedFile
  <2> QED
    BY <1>1, <1>2, <2>1 DEF Filed, CourseIsSealed, SealedFile
<1>6. SavedIsSealed'
  BY <1>1 DEF Filed, SavedIsSealed
<1>7. ChainIsSaved'
  BY <1>1 DEF Filed, ChainIsSaved, Begins
<1> QED
  BY <1>3, <1>4, <1>5, <1>6, <1>7 DEF Filed

LEMMA WriteChainFiles == Kept /\ Filed /\ WriteChain => Filed'
<1> SUFFICES ASSUME Kept, Filed, WriteChain PROVE Filed'
  OBVIOUS
<1>1. /\ host # "down" /\ todo # <<>> /\ todo' = Tail(todo) /\ Head(todo).file = "chain"
      /\ UNCHANGED <<host, phase, course, save, sealed, failures>>
      /\ chain' = [chain EXCEPT ![Round] = {course}]
  BY DEF WriteChain, Due, memory, history
<1>2. Head(todo) \in ToSet(todo)
  BY <1>1, TailHolds DEF Kept, Typed
<1>3. phase = "recap" /\ (Clean => \E s \in save : s.course = course)
  BY <1>1, <1>2 DEF Filed, ChainIsOfTheSave
<1>4. course \in Seq(Orders) /\ Round = Len(course) /\ Begins(course, course)
  BY <1>3, LenProperties DEF Kept, Typed, Begins, Round
<1>5. FolderTyped'
  BY <1>1, <1>4 DEF Filed, FolderTyped
<1>6. \A r \in 1..RoundLimit : \A c \in chain'[r] :
        c \in chain[r] \/ (r = Round /\ c = course)
  BY <1>1 DEF Filed, FolderTyped
<1>7. Clean' => \A r \in 1..RoundLimit : \A c \in chain'[r] :
                  \/ c \in chain[r]
                  \/ Len(c) = r /\ \E sv \in save : Begins(c, sv.course)
  BY <1>1, <1>3, <1>4, <1>6 DEF Clean
<1> QED
  BY <1>1, <1>5, <1>7, PlainWriteFiles

(* The save is of playbooks that are all written.                          *)
LEMMA WriteSaveFiles == Kept /\ Kept' /\ Filed /\ WriteSave => Filed'
<1> SUFFICES ASSUME Kept, Kept', Filed, WriteSave PROVE Filed'
  OBVIOUS
<1> DEFINE w == Head(todo)
<1>1. /\ host # "down" /\ todo # <<>> /\ w.file = "save" /\ save' = {w.is}
      /\ todo' = Tail(todo)
      /\ UNCHANGED <<host, phase, course, sealed, chain, failures>>
  BY DEF WriteSave, Due, memory, history
<1>2. ToSet(todo) = {w} \union ToSet(todo')
  BY <1>1, TailHolds DEF Kept, Typed
<1>3. /\ w.is.course = course
      /\ \/ phase = "push" /\ w.is.boundary = "sealed"
         \/ phase = "lull" /\ w.is.boundary = "lull"
  BY <1>1, <1>2 DEF Kept, SavesDueAreOfNow
<1>4. Clean => \A q \in 1..Len(course), s \in Seats : sealed[q][s] = course[q][s]
  <2>1. \A s : SealedFile(s) \notin ToSet(todo)
    BY <1>1, NoSealIsDue DEF SealedFile
  <2> QED
    BY <1>1, <2>1 DEF Filed, CourseIsSealed
<1> HIDE DEF w
<1>5. FolderTyped' /\ SealsComeFirst'
  BY <1>1, TailIsFiled DEF Filed, FolderTyped
<1>6. RoundsFit'
  BY <1>1, <1>3 DEF Filed, RoundsFit
<1>7. ChainIsOfTheSave'
  BY <1>1, <1>2, <1>3 DEF Filed, ChainIsOfTheSave, Clean
<1>8. CourseIsSealed' /\ SavedIsSealed'
  BY <1>1, <1>3, <1>4 DEF CourseIsSealed, SavedIsSealed, Clean
<1>9. ChainIsSaved'
  <2> SUFFICES ASSUME Clean, NEW r \in 1..RoundLimit, NEW c \in chain[r]
               PROVE  Len(c) = r /\ Begins(c, course)
    BY <1>1, <1>3 DEF ChainIsSaved, Clean, Begins
  <2>1. Len(c) = r /\ \E sv \in save : Begins(c, sv.course)
    BY DEF Filed, ChainIsSaved
  <2>2. PICK sv \in save : Begins(c, sv.course)
    BY <2>1
  <2>3. c \in Seq(Orders) /\ sv.course \in Seq(Orders) /\ course \in Seq(Orders)
    BY DEF Filed, FolderTyped, Kept, Typed, Saves
  <2>4. Begins(sv.course, course)
    BY <1>1 DEF Kept, SaveIsBehind
  <2> QED
    BY <2>1, <2>2, <2>3, <2>4, BeginsAgain
<1> QED
  BY <1>5, <1>6, <1>7, <1>8, <1>9 DEF Filed

(* What a torn write leaves.                                               *)
LEMMA TornLeaves ==
  ASSUME Kept, Filed, Torn
  PROVE  /\ FolderTyped'
         /\ \A r \in 1..RoundLimit : chain'[r] \subseteq chain[r]
<1>1. CASE Due("sealed") /\ UNCHANGED chain
           /\ sealed' = [sealed EXCEPT ![Round][Head(todo).seat] = "torn"]
  BY <1>1, SealIsDue DEF Filed, FolderTyped
<1>2. CASE Due("chain") /\ UNCHANGED sealed /\ chain' = [chain EXCEPT ![Round] = {}]
  BY <1>2 DEF Filed, FolderTyped
<1> QED
  BY <1>1, <1>2 DEF Torn

LEMMA WriteFailsFiles == Kept /\ Filed /\ WriteFails => Filed'
<1> SUFFICES ASSUME Kept, Filed, WriteFails PROVE Filed'
  OBVIOUS
<1>1. host # "down" /\ todo # <<>>
  BY DEF WriteFails, Torn, Due
<1>2. /\ todo' = Tail(todo) /\ failures' = failures \union {Head(todo).file}
      /\ UNCHANGED <<host, phase, course, save>>
  BY DEF WriteFails, memory
<1>3. FolderTyped' /\ \A r \in 1..RoundLimit : chain'[r] \subseteq chain[r]
  <2>1. CASE Torn
    BY <2>1, TornLeaves
  <2>2. CASE UNCHANGED <<sealed, chain>>
    BY <2>2 DEF Filed, FolderTyped
  <2> QED
    BY <2>1, <2>2 DEF WriteFails
<1>4. Clean' => UNCHANGED sealed /\ Head(todo).file # "sealed"
  BY <1>2 DEF Clean, WriteFails, Torn, Due
<1> QED
  BY <1>1, <1>2, <1>3, <1>4, PlainWriteFiles

----------------------------------------------------------------------------
(* The ends.                                                               *)

(* A process that dies in the writing of a playbook tears one of the Push  *)
(* it is opening, whose save, if it is there, was sealed.                  *)
LEMMA GoneFiles ==
  ASSUME Kept, Filed, Gone, UNCHANGED save, failures \subseteq failures',
         Torn \/ UNCHANGED <<sealed, chain>>
  PROVE  Filed'
<1>1. Clean' => Clean
  BY DEF Clean
<1>2. ToSet(<<>>) = {} /\ Len(<<>>) = 0 /\ RoundLimit \in Nat \ {0}
  BY PersistenceAssumption DEF ToSet
<1>3. FolderTyped' /\ \A r \in 1..RoundLimit : chain'[r] \subseteq chain[r]
  <2>1. CASE Torn
    BY <2>1, TornLeaves
  <2>2. CASE UNCHANGED <<sealed, chain>>
    BY <2>2 DEF Filed, FolderTyped
  <2> QED
    BY <2>1, <2>2
<1>4. RoundsFit' /\ SealsComeFirst' /\ ChainIsOfTheSave' /\ CourseIsSealed'
  BY <1>2 DEF Gone, Filed, RoundsFit, SealsComeFirst, ChainIsOfTheSave, CourseIsSealed
<1>5. ChainIsSaved'
  BY <1>1, <1>3 DEF Filed, ChainIsSaved, Begins
<1>6. SavedIsSealed'
  <2>1. CASE UNCHANGED sealed
    BY <1>1, <2>1 DEF Filed, SavedIsSealed
  <2>2. CASE ~UNCHANGED sealed
    <3> DEFINE n == Len(course)
               x == Head(todo).seat
    <3>1. Due("sealed") /\ sealed' = [sealed EXCEPT ![Round][x] = "torn"]
      BY <2>2 DEF Torn
    <3>2. /\ host = "up" /\ phase = "push" /\ Round = n /\ n \in 1..RoundLimit
          /\ x \in Seats
      BY <3>1, SealIsDue
    <3> HIDE DEF n, x
    <3>3. \A q \in 1..RoundLimit, s \in Seats :
            sealed'[q][s] = IF q = n /\ s = x THEN "torn" ELSE sealed[q][s]
      BY <3>1, <3>2 DEF Filed, FolderTyped
    <3> SUFFICES ASSUME Clean, NEW sv \in save, NEW q \in 1..Len(sv.course),
                        NEW s \in Seats
                 PROVE  \/ sealed'[q][s] = sv.course[q][s]
                        \/ /\ sealed'[q][s] = "torn" /\ sv.boundary = "sealed"
                           /\ Len(sv.course) = q
      BY <1>1 DEF SavedIsSealed
    <3>4. /\ sv.course \in Seq(Orders) /\ course \in Seq(Orders)
          /\ Begins(sv.course, course) /\ Len(sv.course) \in Nat
          /\ sv.course = course => sv.boundary = "sealed"
      <4>1. sv.course \in Seq(Orders) /\ course \in Seq(Orders)
        BY DEF Kept, Typed, Saves
      <4> QED
        BY <3>2, <4>1, LenProperties DEF Kept, SaveIsBehind
    <3>5. q \in 1..RoundLimit /\ q <= n /\ Len(sv.course) <= n
      BY <1>2, <3>2, <3>4 DEF Begins, n
    <3>6. \/ sealed[q][s] = sv.course[q][s]
          \/ sealed[q][s] = "torn" /\ sv.boundary = "sealed" /\ Len(sv.course) = q
      BY DEF Filed, SavedIsSealed
    <3>7. CASE q = n
      <4>1. Len(sv.course) = Len(course) /\ Len(sv.course) = q
        BY <3>2, <3>4, <3>5, <3>7 DEF n
      <4>2. sv.course = course
        BY <3>4, <4>1, SeqEqual DEF Begins
      <4> QED
        BY <3>3, <3>4, <3>5, <3>6, <4>1, <4>2
    <3>8. CASE q # n
      BY <3>3, <3>5, <3>6, <3>8
    <3> QED
      BY <3>7, <3>8
  <2> QED
    BY <2>1, <2>2
<1> QED
  BY <1>3, <1>4, <1>5, <1>6 DEF Filed

LEMMA FlushFiles ==
  ASSUME Kept, Filed, Due("audit"), Flushed, UNCHANGED <<sealed, chain, save>>,
         failures \subseteq failures'
  PROVE  Filed'
<1>1. CASE host = "closing"
  BY <1>1, GoneFiles DEF Flushed
<1>2. CASE host # "closing"
  <2>1. todo' = <<>> /\ UNCHANGED <<host, phase, course>> /\ (Clean' => Clean)
    BY <1>2 DEF Flushed, memory, Clean
  <2>2. \A s : SealedFile(s) \notin ToSet(todo)
    BY NoSealIsDue DEF Due, SealedFile
  <2>3. ToSet(<<>>) = {} /\ Len(<<>>) = 0
    BY DEF ToSet
  <2>4. FolderTyped' /\ RoundsFit' /\ SealsComeFirst' /\ ChainIsOfTheSave'
    BY <2>1, <2>3
    DEF Filed, FolderTyped, RoundsFit, SealsComeFirst, ChainIsOfTheSave
  <2>5. CourseIsSealed' /\ SavedIsSealed' /\ ChainIsSaved'
    BY <2>1, <2>2 DEF Filed, CourseIsSealed, SavedIsSealed, ChainIsSaved, Begins
  <2> QED
    BY <2>4, <2>5 DEF Filed
<1> QED
  BY <1>1, <1>2

LEMMA FiledNext == Kept /\ Kept' /\ Filed /\ [Next]_vars => Filed'
<1> SUFFICES ASSUME Kept, Kept', Filed, [Next]_vars PROVE Filed'
  OBVIOUS
<1>1. CASE Open \/ Resume
  BY <1>1, StartsFile
<1>2. CASE Call \/ AdvancePush \/ EndRecap \/ Stop
  BY <1>2, JobsFile
<1>3. CASE EndLull
  BY <1>3, EndLullFiles
<1>4. CASE WriteSealed \/ WriteChain \/ WriteSave \/ WriteFails
  BY <1>4, WriteSealedFiles, WriteChainFiles, WriteSaveFiles, WriteFailsFiles
<1>5. CASE AppendAudit
  BY <1>5, FlushFiles DEF AppendAudit, history
<1>6. CASE AppendFails
  BY <1>6, FlushFiles DEF AppendFails, AppendsPartly
<1>7. CASE Crash
  BY <1>7, GoneFiles DEF Crash, Dies
<1>8. CASE CrashInWrite
  <2>1. failures \subseteq failures' /\ (Torn \/ UNCHANGED <<sealed, chain>>)
    BY <1>8 DEF CrashInWrite, AppendsPartly
  <2> QED
    BY <1>8, <2>1, GoneFiles DEF CrashInWrite, Dies
<1>9. CASE UNCHANGED vars
  BY <1>9
  DEF vars, memory, folder, history, Filed, FolderTyped, RoundsFit, SealsComeFirst,
      ChainIsOfTheSave, CourseIsSealed, SavedIsSealed, ChainIsSaved, Clean, Begins,
      SealedFile
<1> QED
  BY <1>1, <1>2, <1>3, <1>4, <1>5, <1>6, <1>7, <1>8, <1>9 DEF Next

----------------------------------------------------------------------------
(* The theorems.                                                           *)

(* The invariant of the one save and the writes still to be made: what is  *)
(* due is of the match as it stands, the save is behind it, and what was   *)
(* watched is in the save.                                                 *)
THEOREM FolderHolds == Spec => []Kept
BY KeptInit, KeptNext, PTL DEF Spec

(* No two processes answer a call under one resumed view's id, as long as  *)
(* no append to the log was cut or refused: the line of the resume itself  *)
(* is in the log before the first call is answered under its number.       *)
THEOREM ViewsStayOnesOwn == Spec => []ViewsAreOnesOwn
<1>1. Signed => ViewsAreOnesOwn
  BY DEF Signed, ViewsAreOnesOwn
<1>2. Spec => []Signed
  BY FolderHolds, SignedInit, SignedNext, PTL DEF Spec
<1> QED
  BY <1>1, <1>2, PTL

(* What a client watched of a round is what every later process plays of   *)
(* it, as long as no save was refused.                                     *)
THEOREM WatchedIsReplayed == Spec => []WatchedPushIsReplayed
<1>1. Kept => WatchedPushIsReplayed
  <2> SUFFICES ASSUME Kept, host = "up", "save" \notin failures,
                      NEW r \in 1..RoundLimit, NEW c \in watched[r]
               PROVE  r <= Len(course) /\ c = SubSeq(course, 1, r)
    BY DEF WatchedPushIsReplayed
  <2>1. Len(c) = r /\ \E s \in save : Begins(c, s.course)
    BY DEF Kept, WatchedIsSaved
  <2>2. PICK s \in save : Begins(c, s.course)
    BY <2>1
  <2>3. Begins(s.course, course)
    BY DEF Kept, SaveIsBehind
  <2>4. c \in Seq(Orders) /\ s.course \in Seq(Orders) /\ course \in Seq(Orders)
    BY DEF Kept, Typed, Saves
  <2>5. Begins(c, course)
    BY <2>2, <2>3, <2>4, BeginsAgain
  <2>6. c = SubSeq(course, 1, Len(c))
    BY <2>4, <2>5, BeginsIsPrefix
  <2> QED
    BY <2>1, <2>5, <2>6 DEF Begins
<1> QED
  BY FolderHolds, <1>1, PTL

(* No save takes back what an earlier one held, and one of a round already *)
(* sealed only ever gives way to the Lull after it.                        *)
THEOREM SaveIsMonotonic == Spec => SavesGoForward
<1> DEFINE Forward ==
      \A s \in save, t \in save' :
        s # t => /\ IsPrefix(s.course, t.course)
                 /\ s.course = t.course => t.boundary = "lull"
<1>1. Kept /\ [Next]_vars => [Forward]_vars
  <2> SUFFICES ASSUME Kept, Next PROVE Forward
    OBVIOUS
  <2>1. CASE WriteSave
    BY <2>1, SaveKeeps
  <2>2. CASE save' = save
    BY <2>2 DEF Kept, SaveIsBehind
  <2>3. WriteSave \/ save' = save
    BY DEF Next, Open, Resume, Call, EndLull, AdvancePush, EndRecap, Stop,
           Answered, WriteSealed, WriteChain, AppendAudit, WriteFails,
           AppendFails, Crash, CrashInWrite, Dies, folder
  <2> QED
    BY <2>1, <2>2, <2>3
<1>2. Spec => [][Forward]_vars
  BY FolderHolds, <1>1, PTL DEF Spec
<1> QED
  BY <1>2 DEF SavesGoForward

(* The inductive invariant of the folder beside the save.                  *)
THEOREM FolderIsFiled == Spec => []Filed
BY KeptInit, KeptNext, FiledInit, FiledNext, PTL DEF Spec

(* A chain in the folder is that of the playbooks in it, of whatever seats *)
(* and rounds and after any number of crashes.                             *)
THEOREM ReplaysAgree == Spec => []ReplayInputsAgree
<1>1. Filed => ReplayInputsAgree
  <2> SUFFICES ASSUME Filed, Clean, NEW r \in 1..RoundLimit, NEW c \in chain[r],
                      NEW q \in 1..r, NEW s \in Seats
               PROVE  \/ sealed[q][s] = c[q][s]
                      \/ /\ sealed[q][s] = "torn"
                         /\ \E sv \in save : sv.boundary = "sealed" /\ Len(sv.course) = q
    BY DEF ReplayInputsAgree, Clean
  <2>1. Len(c) = r /\ \E sv \in save : Begins(c, sv.course)
    BY DEF Filed, ChainIsSaved
  <2>2. PICK sv \in save : Begins(c, sv.course)
    BY <2>1
  <2>3. Len(sv.course) <= RoundLimit /\ c \in Seq(Orders)
    BY DEF Filed, RoundsFit, FolderTyped
  <2>4. q \in 1..Len(sv.course) /\ sv.course[q] = c[q]
    BY <2>1, <2>2 DEF Begins
  <2> QED
    BY <2>2, <2>4 DEF Filed, SavedIsSealed
<1> QED
  BY FolderIsFiled, <1>1, PTL
=============================================================================
