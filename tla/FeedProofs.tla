----------------------------- MODULE FeedProofs -----------------------------
(***************************************************************************)
(* What a match's readers may rely on, for any seats, bus, lines and       *)
(* length of match, whatever is resumed in between: the fog is lifted for  *)
(* exactly the fallen, and for everybody once the match is decided; a      *)
(* reader that follows its cursor is told every line it may see, once; the *)
(* recap tells the segment before it or that its record is lost; and what  *)
(* the bus kept is on the feed.                                            *)
(*                                                                         *)
(* Three arguments.  A page ends where the next one begins, because what   *)
(* the filter lets through is counted in places, and lines published later *)
(* take later ones.  A drain is of one tick, and no line on the feed is of *)
(* a later one, so publish refuses none.  And what a tick says comes in an *)
(* order: its own lines, the segment's end, the credits; so the lines that *)
(* a full bus drops are the last of it, and the record is either opened in *)
(* time for every credit, or refused.                                      *)
(***************************************************************************)
EXTENDS Feed, FoldLemmas

----------------------------------------------------------------------------
(* The fog's policy.                                                       *)

(* A match that plays on is undecided: the policy a tick sets adds its own *)
(* decision to what the policy said before, and a resumed one says that    *)
(* nothing is decided.                                                     *)
PlayingIsUndecided ==
  decided \in BOOLEAN /\ (phase \in {"lull", "push"} => decided = FALSE)

FogInv == FogFollowsTheMatch /\ PlayingIsUndecided

LEMMA FogInit == Init => FogInv
<1> SUFFICES ASSUME Init PROVE FogInv
  OBVIOUS
<1>1. fog = [lifted |-> {}, ended |-> FALSE] /\ standing = Seats
        /\ decided = FALSE
  BY DEF Init
<1>2. fog.lifted = Seats \ standing /\ fog.ended = FALSE
  BY <1>1
<1> QED
  BY <1>1, <1>2 DEF FogInv, FogFollowsTheMatch, PlayingIsUndecided

LEMMA FogEndLull == FogInv /\ EndLull => FogInv'
<1> SUFFICES ASSUME FogInv, EndLull PROVE FogInv'
  OBVIOUS
<1>1. PICK filed \in Silent :
        OpenPush([round |-> round, tick |-> tick, standing |-> standing], filed)
  BY DEF EndLull
<1>2. phase' = "push" /\ standing' = standing /\ decided' = FALSE
  BY <1>1 DEF OpenPush
<1>3. fog' = fog /\ decided = FALSE
  BY DEF EndLull, FogInv, PlayingIsUndecided
<1> QED
  BY <1>2, <1>3 DEF FogInv, FogFollowsTheMatch, PlayingIsUndecided

LEMMA FogStep == FogInv /\ Step => FogInv'
<1> SUFFICES ASSUME FogInv, Step PROVE FogInv'
  OBVIOUS
<1>1. decided = FALSE /\ fog.ended = FALSE
  BY DEF Step, FogInv, FogFollowsTheMatch, PlayingIsUndecided
<1>2. PICK fallen \in SUBSET standing :
        LET left == standing \ fallen
            over == segLeft = 1 \/ Cardinality(left) < 2
        IN /\ phase' = IF over THEN "recap" ELSE "push"
           /\ decided' = (over /\ (Cardinality(left) < 2 \/ round = RoundLimit))
  BY DEF Step
<1>3. decided' \in BOOLEAN /\ PlayingIsUndecided'
  BY <1>2 DEF PlayingIsUndecided
<1>4. fog' = [lifted |-> Seats \ standing', ended |-> fog.ended \/ decided']
  BY DEF Step, Policy
<1>5. FogFollowsTheMatch'
  <2>1. fog'.ended = (fog.ended \/ decided')
    BY <1>4
  <2>2. fog'.ended = decided'
    BY <1>1, <1>3, <2>1
  <2> QED
    BY <1>4, <2>2 DEF FogFollowsTheMatch
<1> QED
  BY <1>3, <1>5 DEF FogInv

LEMMA FogEndRecap == FogInv /\ EndRecap => FogInv'
BY DEF EndRecap, FogInv, FogFollowsTheMatch, PlayingIsUndecided

LEMMA FogResumeLull == FogInv /\ ResumeLull => FogInv'
<1> SUFFICES ASSUME FogInv, ResumeLull PROVE FogInv'
  OBVIOUS
<1>1. phase' = phase /\ standing' = standing /\ decided' = decided
  BY DEF ResumeLull, match
<1>2. decided = FALSE /\ fog.ended = FALSE
  BY DEF ResumeLull, FogInv, FogFollowsTheMatch, PlayingIsUndecided
<1>3. fog'.lifted = Seats \ standing /\ fog'.ended = FALSE
  BY DEF ResumeLull, Fresh, FallenIn
<1> QED
  BY <1>1, <1>2, <1>3 DEF FogInv, FogFollowsTheMatch, PlayingIsUndecided

LEMMA FogResumeSealed == FogInv /\ ResumeSealed => FogInv'
<1> SUFFICES ASSUME FogInv, ResumeSealed PROVE FogInv'
  OBVIOUS
<1>1. PICK filed \in Silent : OpenPush(sealed, filed)
  BY DEF ResumeSealed
<1>2. phase' = "push" /\ standing' = sealed.standing /\ decided' = FALSE
  BY <1>1 DEF OpenPush
<1>3. fog'.lifted = Seats \ sealed.standing /\ fog'.ended = FALSE
  BY DEF ResumeSealed, Fresh, FallenIn
<1> QED
  BY <1>2, <1>3 DEF FogInv, FogFollowsTheMatch, PlayingIsUndecided

(* A page moves the reader's cursor and what it was told; the match and    *)
(* the policy stay.                                                        *)
LEMMA FogRead ==
  ASSUME FogInv, NEW start, NEW limit, Read(start, limit)
  PROVE  FogInv'
BY DEF Read, match, FogInv, FogFollowsTheMatch, PlayingIsUndecided

LEMMA FogNext == FogInv /\ [Next]_vars => FogInv'
<1> SUFFICES ASSUME FogInv, [Next]_vars PROVE FogInv'
  OBVIOUS
<1>1. CASE EndLull
  BY <1>1, FogEndLull
<1>2. CASE Step
  BY <1>2, FogStep
<1>3. CASE EndRecap
  BY <1>3, FogEndRecap
<1>4. CASE ResumeLull
  BY <1>4, FogResumeLull
<1>5. CASE ResumeSealed
  BY <1>5, FogResumeSealed
<1>6. ASSUME NEW limit \in 0..MaxLimit, StartReading(limit) PROVE FogInv'
  <2>1. Read(0, limit)
    BY <1>6 DEF StartReading
  <2> QED
    BY <2>1, FogRead
<1>7. ASSUME NEW limit \in 0..MaxLimit, ReadOn(limit) PROVE FogInv'
  <2>1. Read(cursor.index, limit)
    BY <1>7 DEF ReadOn
  <2> QED
    BY <2>1, FogRead
<1>8. CASE UNCHANGED vars
  BY <1>8 DEF vars, match, FogInv, FogFollowsTheMatch, PlayingIsUndecided
<1> QED
  BY <1>1, <1>2, <1>3, <1>4, <1>5, <1>6, <1>7, <1>8 DEF Next

(* The fog a reader's pages pass is lifted for the eliminated seats, and   *)
(* for all once the match is decided, and for nobody else: end_match and   *)
(* eliminate_the_fallen keep it so tick by tick, and a save resumed, of a  *)
(* Lull or of a sealed Push, sets the policy of the match it holds.        *)
THEOREM FogIsEarned == Spec => []FogFollowsTheMatch
<1>1. FogInv => FogFollowsTheMatch
  BY DEF FogInv
<1> QED
  BY FogInit, FogNext, <1>1, PTL DEF Spec

----------------------------------------------------------------------------
(* Lists.                                                                  *)

Listed(s) == \E T : s \in Seq(T)

(* e begins with s.                                                        *)
Extends(e, s) == Len(s) <= Len(e) /\ \A k \in 1..Len(s) : e[k] = s[k]

(* A finite set written out is a list.                                     *)
LEMMA WrittenOut ==
  ASSUME NEW S, IsFiniteSet(S)
  PROVE  SetToSeq(S) \in Seq(S) /\ Listed(SetToSeq(S))
<1> DEFINE n == Cardinality(S)
<1>1. n \in Nat /\ ExistsBijection(1..n, S)
  BY FS_CardinalityType
<1>2. \E f \in [1..n -> S] : IsInjective(f)
  BY <1>1 DEF ExistsBijection, Bijection, Injection
<1>3. SetToSeq(S) \in [1..n -> S]
  BY <1>2 DEF SetToSeq
<1>4. SetToSeq(S) \in Seq(S)
  <2> HIDE DEF n
  <2> QED
    BY <1>1, <1>3
<1> QED
  BY <1>4 DEF Listed

(* One list behind another is a list.                                      *)
LEMMA BehindListed ==
  ASSUME NEW s, NEW t, Listed(s), Listed(t)
  PROVE  Listed(s \o t)
<1>1. PICK S : s \in Seq(S)
  BY DEF Listed
<1>2. PICK T : t \in Seq(T)
  BY DEF Listed
<1>3. s \in Seq(S \union T) /\ t \in Seq(S \union T)
  BY <1>1, <1>2
<1>4. s \o t \in Seq(S \union T)
  BY <1>3
<1> QED
  BY <1>4 DEF Listed

(* And its elements are those of the first, then those of the second.      *)
LEMMA BehindElements ==
  ASSUME NEW s, NEW t, Listed(s), Listed(t)
  PROVE  /\ Len(s) \in Nat /\ Len(t) \in Nat /\ Len(s \o t) = Len(s) + Len(t)
         /\ \A i \in 1..Len(s) : (s \o t)[i] = s[i]
         /\ \A i \in 1..Len(t) : (s \o t)[Len(s) + i] = t[i]
         /\ \A i \in 1..Len(s \o t) : i \in 1..Len(s) \/ \E k \in 1..Len(t) : i = Len(s) + k
<1>1. PICK S : s \in Seq(S)
  BY DEF Listed
<1>2. PICK T : t \in Seq(T)
  BY DEF Listed
<1>3. s \in Seq(S \union T) /\ t \in Seq(S \union T)
  BY <1>1, <1>2
<1>4. Len(s) \in Nat /\ Len(t) \in Nat /\ Len(s \o t) = Len(s) + Len(t)
  BY <1>3
<1>5. /\ \A i \in 1..Len(s) : (s \o t)[i] = s[i]
      /\ \A i \in 1..Len(t) : (s \o t)[Len(s) + i] = t[i]
  BY <1>3
<1>6. ASSUME NEW i \in 1..Len(s) + Len(t), i \notin 1..Len(s)
      PROVE  \E k \in 1..Len(t) : i = Len(s) + k
  <2>1. i - Len(s) \in 1..Len(t) /\ i = Len(s) + (i - Len(s))
    BY <1>4, <1>6
  <2> QED
    BY <2>1
<1> QED
  BY <1>4, <1>5, <1>6

(* So is one whose lines are given a tick.                                 *)
LEMMA AtListed ==
  ASSUME NEW t, NEW lines, Listed(lines)
  PROVE  /\ Listed(At(t, lines)) /\ Len(At(t, lines)) = Len(lines)
         /\ \A i \in 1..Len(lines) : At(t, lines)[i] = [line |-> lines[i], tick |-> t]
<1>1. DOMAIN lines = 1..Len(lines) /\ Len(lines) \in Nat
  BY DEF Listed
<1> DEFINE n == Len(lines)
           L == [i \in 1..n |-> [line |-> lines[i], tick |-> t]]
<1>2. At(t, lines) = L
  BY <1>1 DEF At
<1>3. n \in Nat
  BY <1>1
<1> HIDE DEF n
<1>4. L \in Seq({L[i] : i \in 1..n}) /\ Len(L) = n
  BY <1>3
<1> QED
  BY <1>2, <1>4 DEF Listed, n

(* All of them that tick.                                                  *)
LEMMA TimedAt ==
  ASSUME NEW kept, Listed(kept), NEW t
  PROVE  /\ Listed(At(t, kept)) /\ Len(At(t, kept)) = Len(kept)
         /\ \A i \in 1..Len(kept) : At(t, kept)[i].tick = t
<1>1. /\ Listed(At(t, kept)) /\ Len(At(t, kept)) = Len(kept)
      /\ \A i \in 1..Len(kept) : At(t, kept)[i] = [line |-> kept[i], tick |-> t]
  BY AtListed
<1>2. ASSUME NEW i \in 1..Len(kept)
      PROVE  At(t, kept)[i].tick = t
  <2>1. At(t, kept)[i] = [line |-> kept[i], tick |-> t]
    BY <1>1
  <2> QED
    BY <2>1
<1> QED
  BY <1>1, <1>2

(* And the beginning of one.                                               *)
LEMMA CutListed ==
  ASSUME NEW lines, Listed(lines), NEW n \in Nat, n <= Len(lines)
  PROVE  /\ Listed(SubSeq(lines, 1, n)) /\ Len(SubSeq(lines, 1, n)) = n
         /\ \A i \in 1..n : SubSeq(lines, 1, n)[i] = lines[i]
<1>1. PICK T : lines \in Seq(T)
  BY DEF Listed
<1>2. SubSeq(lines, 1, n) \in Seq(T) /\ Len(SubSeq(lines, 1, n)) = n
         /\ \A i \in 1..n : SubSeq(lines, 1, n)[i] = lines[i]
  BY <1>1
<1> QED
  BY <1>2 DEF Listed

----------------------------------------------------------------------------
(* Places, and pages.                                                      *)

(* The places of a finite set of numbers are 1 to its cardinality, each    *)
(* taken once: so many are among the first k.                              *)
LEMMA PlaceGrows ==
  ASSUME NEW S \in SUBSET Nat, IsFiniteSet(S), NEW i \in Nat, NEW j \in S, i < j
  PROVE  Place(i, S) < Place(j, S)
<1> DEFINE A == {k \in S : k <= i}
           B == {k \in S : k <= j}
<1>1. A \subseteq B /\ j \in B /\ j \notin A /\ B \subseteq S
  <2>1. j \in Nat /\ \A k \in S : k \in Nat
    OBVIOUS
  <2>2. \A k \in S : k <= i => k <= j
    BY <2>1
  <2>3. j <= j /\ ~(j <= i)
    BY <2>1
  <2> QED
    BY <2>2, <2>3
<1>2. IsFiniteSet(A) /\ IsFiniteSet(B) /\ Cardinality(A) \in Nat /\ Cardinality(B) \in Nat
  BY <1>1, FS_Subset, FS_CardinalityType
<1>3. Cardinality(A) <= Cardinality(B) /\ (Cardinality(A) = Cardinality(B) => A = B)
  BY <1>1, <1>2, FS_Subset
<1> QED
  BY <1>1, <1>2, <1>3 DEF Place

(* Every place is taken, so the first k hold k.                            *)
LEMMA Ranks ==
  ASSUME NEW S \in SUBSET Nat, IsFiniteSet(S)
  PROVE  /\ Cardinality(S) \in Nat
         /\ \A i \in S : Place(i, S) \in 1..Cardinality(S)
         /\ \A k \in 0..Cardinality(S) :
              Cardinality({i \in S : Place(i, S) <= k}) = k
<1> DEFINE n == Cardinality(S)
           f == [i \in S |-> Place(i, S)]
<1>1. n \in Nat
  BY FS_CardinalityType
<1>2. \A i \in S : Place(i, S) \in 1..n
  <2> SUFFICES ASSUME NEW i \in S PROVE Place(i, S) \in 1..n
    OBVIOUS
  <2> DEFINE A == {k \in S : k <= i}
  <2>1. A \subseteq S /\ i \in A
    OBVIOUS
  <2>2. IsFiniteSet(A) /\ Cardinality(A) <= n /\ Cardinality(A) \in Nat
    BY <2>1, FS_Subset, FS_CardinalityType
  <2>3. Cardinality(A) # 0
    BY <2>1, <2>2, FS_EmptySet
  <2> QED
    BY <1>1, <2>2, <2>3 DEF Place
<1>3. \A i, j \in S : Place(i, S) = Place(j, S) => i = j
  <2> SUFFICES ASSUME NEW i \in S, NEW j \in S, i # j PROVE Place(i, S) # Place(j, S)
    OBVIOUS
  <2>1. CASE i < j
    <3>1. Place(i, S) < Place(j, S)
      BY <2>1, PlaceGrows
    <3> QED
      BY <1>1, <1>2, <3>1
  <2>2. CASE j < i
    <3>1. Place(j, S) < Place(i, S)
      BY <2>2, PlaceGrows
    <3> QED
      BY <1>1, <1>2, <3>1
  <2> QED
    BY <2>1, <2>2
<1>4. f \in Injection(S, 1..n)
  BY <1>2, <1>3 DEF Injection, IsInjective
<1>5. IsFiniteSet(1..n) /\ Cardinality(1..n) = n
  BY <1>1, FS_Interval
<1>6. f \in Surjection(S, 1..n)
  BY <1>4, <1>5, FS_Injection
<1>7. \A m \in 1..n : \E i \in S : Place(i, S) = m
  BY <1>6 DEF Surjection
<1>8. ASSUME NEW k \in 0..n
      PROVE  Cardinality({i \in S : Place(i, S) <= k}) = k
  <2> DEFINE A == {i \in S : Place(i, S) <= k}
             g == [i \in A |-> Place(i, S)]
  <2>1. k \in Nat /\ A \subseteq S /\ k <= n
    BY <1>1
  <2>2. IsFiniteSet(A) /\ IsFiniteSet(1..k) /\ Cardinality(1..k) = k
    BY <2>1, FS_Subset, FS_Interval
  <2>3. \A i \in A : Place(i, S) \in 1..k
    BY <1>2, <2>1
  <2>4. \A i, j \in A : g[i] = g[j] => i = j
    BY <1>3
  <2>5. \A m \in 1..k : \E i \in A : g[i] = m
    <3> SUFFICES ASSUME NEW m \in 1..k PROVE \E i \in A : g[i] = m
      OBVIOUS
    <3>1. m \in 1..n /\ m <= k
      BY <1>1, <2>1
    <3> QED
      BY <1>7, <3>1
  <2>6. g \in Injection(A, 1..k) /\ g \in Surjection(A, 1..k)
    BY <2>3, <2>4, <2>5 DEF Injection, Surjection, IsInjective
  <2>7. Cardinality(A) = Cardinality(1..k)
    BY <2>2, <2>6, FS_Injection
  <2> QED
    BY <2>2, <2>7
<1> QED
  BY <1>1, <1>2, <1>8

(* Lines put behind the last one leave every place as it was.              *)
LEMMA PlacesStay ==
  ASSUME NEW S \in SUBSET Nat, NEW E \in SUBSET Nat, IsFiniteSet(E), NEW m \in Nat,
         S = {i \in E : i <= m}
  PROVE  /\ Cardinality(S) <= Cardinality(E)
         /\ \A k \in 0..Cardinality(S) :
              {i \in S : Place(i, S) <= k} = {i \in E : Place(i, E) <= k}
<1>1. S \subseteq E /\ IsFiniteSet(S)
  BY FS_Subset
<1>2. Cardinality(S) <= Cardinality(E) /\ Cardinality(S) \in Nat /\ Cardinality(E) \in Nat
  BY <1>1, FS_Subset, FS_CardinalityType
<1>3. \A i \in S : Place(i, S) = Place(i, E)
  <2> SUFFICES ASSUME NEW i \in S PROVE Place(i, S) = Place(i, E)
    OBVIOUS
  <2>1. i \in Nat /\ i <= m /\ \A j \in E : j \in Nat
    OBVIOUS
  <2>2. {j \in S : j <= i} = {j \in E : j <= i}
    <3>1. \A j \in E : j <= i => j <= m
      BY <2>1
    <3> QED
      BY <3>1
  <2> QED
    BY <2>2 DEF Place
<1>4. ASSUME NEW i \in E, i \notin S PROVE ~(Place(i, E) <= Cardinality(S))
  <2> DEFINE A == {j \in E : j <= i}
  <2>1. \A j \in S : j <= i
    <3>1. \A j \in E : j \in Nat
      OBVIOUS
    <3> QED
      BY <1>4, <3>1
  <2>2. S \subseteq A /\ i \in A /\ A \subseteq E
    BY <1>1, <2>1
  <2>3. IsFiniteSet(A) /\ Cardinality(A) \in Nat
    BY <2>2, FS_Subset, FS_CardinalityType
  <2>4. Cardinality(S) <= Cardinality(A) /\ Cardinality(S) # Cardinality(A)
    BY <1>4, <2>2, <2>3, FS_Subset
  <2> QED
    BY <1>2, <2>3, <2>4 DEF Place
<1>5. ASSUME NEW k \in 0..Cardinality(S), NEW i \in E, Place(i, E) <= k PROVE i \in S
  <2>1. SUFFICES ASSUME i \notin S PROVE FALSE
    OBVIOUS
  <2>2. Place(i, E) \in Nat
    BY Ranks
  <2>3. Place(i, E) <= Cardinality(S)
    BY <1>2, <1>5, <2>2
  <2> QED
    BY <1>4, <2>1, <2>3
<1>6. ASSUME NEW k \in 0..Cardinality(S)
      PROVE  {i \in S : Place(i, S) <= k} = {i \in E : Place(i, E) <= k}
  BY <1>1, <1>3, <1>5, <1>6
<1> QED
  BY <1>2, <1>6

(* A page goes on where the cursor stood, and the next one where it ends.  *)
LEMMA PageGoesOn ==
  ASSUME NEW S \in SUBSET Nat, IsFiniteSet(S), NEW start \in Nat, NEW limit \in Nat
  PROVE  LET page == {i \in S : Place(i, S) \in start + 1 .. start + limit}
             next == Fewer(start, Cardinality(S)) + Cardinality(page)
         IN  /\ next \in Nat
             /\ start <= Cardinality(S) =>
                  /\ next <= Cardinality(S)
                  /\ {i \in S : Place(i, S) <= start} \union page
                       = {i \in S : Place(i, S) <= next}
<1> DEFINE n == Cardinality(S)
           First(k) == {i \in S : Place(i, S) <= k}
           page == {i \in S : Place(i, S) \in start + 1 .. start + limit}
           next == Fewer(start, n) + Cardinality(page)
           b == Fewer(start + limit, n)
<1>1. n \in Nat /\ \A i \in S : Place(i, S) \in 1..n
  BY Ranks
<1>2. page \subseteq S /\ IsFiniteSet(page) /\ Cardinality(page) \in Nat
  BY FS_Subset, FS_CardinalityType
<1>3. next \in Nat
  BY <1>1, <1>2 DEF Fewer
<1>4. ASSUME start <= n
      PROVE  next <= n /\ First(start) \union page = First(next)
  <2>1. b \in 0..n /\ start \in 0..n /\ start <= b /\ b <= start + limit
          /\ (b = start + limit \/ b = n)
    <3> HIDE DEF n
    <3> QED
      BY <1>1, <1>4 DEF Fewer
  <2>2. First(start) \union page = First(b) /\ First(start) \intersect page = {}
    <3>1. \A i \in S : Place(i, S) \in Nat /\ Place(i, S) <= n
      BY <1>1
    <3>2. \A i \in S : Place(i, S) \in start + 1 .. start + limit
                         <=> start < Place(i, S) /\ Place(i, S) <= b
      <4> HIDE DEF n
      <4> QED
        BY <1>1, <2>1, <3>1
    <3>3. \A i \in S : Place(i, S) <= start => Place(i, S) <= b
      <4> HIDE DEF n
      <4> QED
        BY <1>1, <2>1, <3>1
    <3>4. \A i \in S : ~(Place(i, S) <= start) <=> start < Place(i, S)
      BY <3>1
    <3> HIDE DEF n, b
    <3> QED
      BY <3>2, <3>3, <3>4
  <2>3. Cardinality(First(start)) = start /\ Cardinality(First(b)) = b
    <3> HIDE DEF n, b
    <3> QED
      BY <2>1, Ranks DEF n
  <2>4. Cardinality(First(b)) = Cardinality(First(start)) + Cardinality(page)
    <3>1. IsFiniteSet(First(start))
      BY FS_Subset
    <3>2. Cardinality(First(start) \union page)
            = Cardinality(First(start)) + Cardinality(page) - Cardinality(First(start) \intersect page)
      BY <1>2, <3>1, FS_Union
    <3>3. Cardinality(First(start) \intersect page) = 0
      <4> HIDE DEF First, page
      <4> QED
        BY <2>2, FS_EmptySet
    <3>4. Cardinality(First(start) \union page) = Cardinality(First(b))
      <4> HIDE DEF First, page, b
      <4> QED
        BY <2>2
    <3>5. Cardinality(First(start)) \in Nat /\ Cardinality(page) \in Nat
      <4> HIDE DEF First, page, b
      <4> QED
        BY <1>2, <2>3
    <3> HIDE DEF First, page, b
    <3> QED
      BY <3>2, <3>3, <3>4, <3>5
  <2>5. next = b
    <3>1. Fewer(start, n) = start
      <4> HIDE DEF n
      <4> QED
        BY <1>1, <1>4 DEF Fewer
    <3> HIDE DEF First, page, b, n
    <3> QED
      BY <1>2, <2>1, <2>3, <2>4, <3>1
  <2> HIDE DEF next, b, First, page
  <2> QED
    BY <1>1, <2>1, <2>2, <2>5
<1> QED
  BY <1>3, <1>4

----------------------------------------------------------------------------

----------------------------------------------------------------------------
(* Publishing.                                                             *)

(* publish adds one line to the feed, or leaves it.                        *)
LEMMA PublishAdds ==
  ASSUME NEW T, NEW onto \in Seq(T), NEW from, NEW e, 
         [line |-> e.line, at |-> e.tick - from] \in T
  PROVE  Publish(onto, from, e) \in Seq(T) /\ Extends(Publish(onto, from, e), onto)
<1> DEFINE x == [line |-> e.line, at |-> e.tick - from]
<1>1. x \in T
  OBVIOUS
<1>2. Publish(onto, from, e) = onto \/ Publish(onto, from, e) = Append(onto, x)
  BY DEF Publish
<1> HIDE DEF x
<1>3. Append(onto, x) \in Seq(T) /\ Extends(Append(onto, x), onto) /\ Extends(onto, onto)
  BY <1>1 DEF Extends
<1> QED
  BY <1>2, <1>3

(* up is the feed as it grows, line by line.                               *)
LineByLine(U, up, onto, from, lines) ==
  /\ up \in [0..Len(lines) -> Seq(U)]
  /\ \A i \in 1..Len(lines) :
       [line |-> lines[i].line, at |-> lines[i].tick - from] \in U
  /\ up[0] = onto
  /\ \A i \in 1..Len(lines) : up[i] = Publish(up[i - 1], from, lines[i])
  /\ Published(onto, from, lines) = up[Len(lines)]

(* That there is such a list of feeds: Published is defined by recursion.  *)
LEMMA PublishedUnrolls ==
  ASSUME NEW onto, NEW from, NEW lines, Listed(onto), Listed(lines)
  PROVE  \E U, up : LineByLine(U, up, onto, from, lines)
<1>1. PICK T : onto \in Seq(T)
  BY DEF Listed
<1> DEFINE n == Len(lines)
           L == [i \in 1..n |-> [line |-> lines[i].line, at |-> lines[i].tick - from]]
           U == T \union {L[i] : i \in 1..n}
           V == Seq(U)
           op == [p \in (0..n) \X V |-> IF p[1] = 0 THEN p[2] ELSE Publish(p[2], from, lines[p[1]])]
           Is(f) == f = [i \in 0..n |-> IF i = 0 THEN onto ELSE Publish(f[i - 1], from, lines[i])]
           up == CHOOSE f : Is(f)
<1>2. n \in Nat /\ onto \in V
  <2>1. n \in Nat
    BY DEF Listed
  <2>2. T \subseteq U
    OBVIOUS
  <2> HIDE DEF U, n
  <2> QED
    BY <1>1, <2>1, <2>2
<1>3. ASSUME NEW i \in 1..n, NEW v \in V
      PROVE  Publish(v, from, lines[i]) \in V /\ Extends(Publish(v, from, lines[i]), v)
  <2>1. [line |-> lines[i].line, at |-> lines[i].tick - from] \in U
    <3>1. L[i] \in U
      OBVIOUS
    <3> QED
      BY <3>1
  <2> HIDE DEF U
  <2> QED
    BY <2>1, PublishAdds
<1>4. op \in [(0..n) \X V -> V]
  <2>1. \A p \in (0..n) \X V : op[p] \in V
    <3> SUFFICES ASSUME NEW p \in (0..n) \X V PROVE op[p] \in V
      OBVIOUS
    <3> HIDE DEF V, n
    <3>1. CASE p[1] = 0
      BY <3>1
    <3>2. CASE p[1] # 0
      <4>1. p[1] \in 1..n /\ p[2] \in V
        BY <1>2, <3>2
      <4> QED
        BY <1>3, <3>2, <4>1
    <3> QED
      BY <3>1, <3>2
  <2> HIDE DEF V, n
  <2> QED
    BY <2>1
<1>5. PICK f \in [0..n -> V] : Unrolls(f, n, onto, op)
  <2> HIDE DEF op, V, n, L, U, Is, up
  <2> QED
    BY <1>2, <1>4, Iterates
<1>6. Is(f)
  <2>1. \A i \in 0..n : f[i] = IF i = 0 THEN onto ELSE Publish(f[i - 1], from, lines[i])
    <3> SUFFICES ASSUME NEW i \in 0..n, i # 0
                 PROVE  f[i] = Publish(f[i - 1], from, lines[i])
      BY <1>5 DEF Unrolls
    <3> HIDE DEF V, n
    <3>1. i - 1 \in 0..n
      BY <1>2
    <3>2. <<i, f[i - 1]>> \in (0..n) \X V
      BY <3>1
    <3> QED
      BY <1>5, <3>2 DEF Unrolls
  <2> HIDE DEF V, n
  <2> QED
    BY <2>1
<1>7. Is(up)
  <2> HIDE DEF Is
  <2> QED
    BY <1>6
<1>8. Published(onto, from, lines) = up[n]
  BY DEF Published
<1> HIDE DEF up, Is, L, U
<1>9. up[0] = onto /\ \A i \in 1..n : up[i] = Publish(up[i - 1], from, lines[i])
  <2> HIDE DEF n
  <2>1. up = [i \in 0..n |-> IF i = 0 THEN onto ELSE Publish(up[i - 1], from, lines[i])]
    BY <1>7 DEF Is
  <2>2. 0 \in 0..n /\ \A i \in 1..n : i \in 0..n /\ i # 0
    BY <1>2
  <2> QED
    BY <2>1, <2>2
<1>10. up \in [0..n -> V]
  <2> DEFINE Good == {i \in 0..n : up[i] \in V}
  <2> HIDE DEF n, V
  <2>1. 0 \in Good
    BY <1>2, <1>9
  <2>2. ASSUME NEW i \in 1..n, i - 1 \in Good PROVE i \in Good
    <3>1. i \in 0..n /\ up[i - 1] \in V
      BY <1>2, <2>2
    <3> QED
      BY <1>3, <1>9, <3>1
  <2>3. Good \in SUBSET (0..n)
    OBVIOUS
  <2>4. Good = 0..n
    <3> HIDE DEF Good
    <3> QED
      BY <1>2, <2>1, <2>2, <2>3, Climb
  <2>5. \A i \in 0..n : up[i] \in V
    BY <2>4
  <2>6. up = [i \in 0..n |-> up[i]]
    BY <1>7 DEF Is
  <2> QED
    BY <2>5, <2>6
<1>11. \A i \in 1..n : [line |-> lines[i].line, at |-> lines[i].tick - from] \in U
  <2> SUFFICES ASSUME NEW i \in 1..n
               PROVE  [line |-> lines[i].line, at |-> lines[i].tick - from] \in U
    OBVIOUS
  <2>1. L[i] \in U /\ L[i] = [line |-> lines[i].line, at |-> lines[i].tick - from]
    BY DEF L, U
  <2> QED
    BY <2>1
<1>12. LineByLine(U, up, onto, from, lines)
  BY <1>8, <1>9, <1>10, <1>11 DEF LineByLine
<1> QED
  BY <1>12

(* Whatever is published, the feed goes on from what it was.               *)
LEMMA PublishedExtends ==
  ASSUME NEW onto, NEW from, NEW lines, Listed(onto), Listed(lines)
  PROVE  /\ Listed(Published(onto, from, lines))
         /\ Extends(Published(onto, from, lines), onto)
<1> DEFINE n == Len(lines)
<1>0. PICK U, up : LineByLine(U, up, onto, from, lines)
  BY PublishedUnrolls
<1>1. /\ up \in [0..n -> Seq(U)]
      /\ \A i \in 1..n : [line |-> lines[i].line, at |-> lines[i].tick - from] \in U
      /\ up[0] = onto
      /\ \A i \in 1..n : up[i] = Publish(up[i - 1], from, lines[i])
      /\ Published(onto, from, lines) = up[n]
  BY <1>0 DEF LineByLine
<1>2. n \in Nat
  BY DEF Listed
<1> HIDE DEF n
<1> DEFINE Good == {i \in 0..n : Extends(up[i], onto)}
<1>3. \A i \in 0..n : up[i] \in Seq(U)
  BY <1>1
<1>4. onto \in Seq(U) /\ 0 \in Good
  <2>1. onto \in Seq(U)
    BY <1>1, <1>2, <1>3
  <2>2. Extends(onto, onto)
    BY <2>1 DEF Extends
  <2> QED
    BY <1>1, <1>2, <2>1, <2>2
<1>5. ASSUME NEW i \in 1..n, i - 1 \in Good PROVE i \in Good
  <2>1. i \in 0..n /\ i - 1 \in 0..n
    BY <1>2
  <2>2. up[i] \in Seq(U) /\ up[i - 1] \in Seq(U) /\ Extends(up[i - 1], onto)
    BY <1>3, <1>5, <2>1
  <2>3. Extends(up[i], up[i - 1])
    BY <1>1, <2>2, PublishAdds
  <2>4. Extends(up[i], onto)
    BY <1>4, <2>2, <2>3 DEF Extends
  <2> QED
    BY <2>1, <2>4
<1>6. Good = 0..n
  <2>1. Good \in SUBSET (0..n)
    OBVIOUS
  <2> HIDE DEF Good
  <2> QED
    BY <1>2, <1>4, <1>5, <2>1, Climb
<1>7. Extends(up[n], onto) /\ up[n] \in Seq(U)
  BY <1>2, <1>3, <1>6
<1> QED
  BY <1>1, <1>7 DEF Listed

(* The feed begun with `onto` and gone on with these lines, all at d.      *)
Joined(joint, onto, lines, d) ==
  /\ Listed(joint) /\ Len(joint) = Len(onto) + Len(lines)
  /\ \A k \in 1..Len(onto) : joint[k] = onto[k]
  /\ \A k \in 1..Len(lines) : joint[Len(onto) + k] = [line |-> lines[k].line, at |-> d]

(* What is drained at one time, not before what is on the feed, is         *)
(* published to its last line.                                             *)
LEMMA PublishedAtOnce ==
  ASSUME NEW onto, NEW from, NEW lines, Listed(onto), Listed(lines), NEW d \in Nat,
         \A i \in 1..Len(lines) : lines[i].tick - from = d,
         \A k \in 1..Len(onto) : onto[k].at \in Nat /\ onto[k].at <= d
  PROVE  Joined(Published(onto, from, lines), onto, lines, d)
<1> DEFINE n == Len(lines)
           base == Len(onto)
           x(k) == [line |-> lines[k].line, at |-> d]
<1>0. PICK U, up : LineByLine(U, up, onto, from, lines)
  BY PublishedUnrolls
<1>1. /\ up \in [0..n -> Seq(U)]
      /\ \A i \in 1..n : [line |-> lines[i].line, at |-> lines[i].tick - from] \in U
      /\ up[0] = onto
      /\ \A i \in 1..n : up[i] = Publish(up[i - 1], from, lines[i])
      /\ Published(onto, from, lines) = up[n]
  BY <1>0 DEF LineByLine
<1>2. n \in Nat /\ base \in Nat
  BY DEF Listed
<1>3. \A i \in 1..n : x(i) \in U /\ lines[i].tick - from = d
  BY <1>1
<1> HIDE DEF n, base
<1> DEFINE Fits(i) == /\ Len(up[i]) = base + i
                      /\ \A k \in 1..base : up[i][k] = onto[k]
                      /\ \A k \in 1..i : up[i][base + k] = x(k)
           Good == {i \in 0..n : Fits(i)}
<1>4. \A i \in 0..n : up[i] \in Seq(U)
  BY <1>1
<1>5. 0 \in Good
  BY <1>1, <1>2 DEF base
<1>6. ASSUME NEW i \in 1..n, i - 1 \in Good PROVE i \in Good
  <2>1. i \in 0..n /\ i - 1 \in 0..n /\ i \in Nat /\ i - 1 \in Nat
    BY <1>2
  <2>2. up[i] \in Seq(U) /\ up[i - 1] \in Seq(U)
    BY <1>4, <2>1
  <2>3. /\ Len(up[i - 1]) = base + (i - 1)
        /\ \A k \in 1..base : up[i - 1][k] = onto[k]
        /\ \A k \in 1..i - 1 : up[i - 1][base + k] = x(k)
    BY <1>6
  <2>4. up[i - 1] # <<>> => d >= Last(up[i - 1]).at
    <3> SUFFICES ASSUME up[i - 1] # <<>> PROVE d >= Last(up[i - 1]).at
      OBVIOUS
    <3>1. Len(up[i - 1]) # 0
      BY <2>2
    <3>2. CASE i = 1
      <4>1. base \in 1..base /\ Last(up[i - 1]) = onto[base]
        BY <1>2, <2>3, <3>1, <3>2 DEF Last
      <4> QED
        BY <4>1 DEF base
    <3>3. CASE i # 1
      <4>1. i - 1 \in 1..i - 1
        BY <2>1, <3>3
      <4>2. Last(up[i - 1]) = x(i - 1)
        BY <2>3, <4>1 DEF Last
      <4> QED
        BY <4>2
    <3> QED
      BY <3>2, <3>3
  <2>5. up[i] = Append(up[i - 1], x(i))
    <3>1. lines[i].tick - from = d
      BY <1>3
    <3>2. InOrder(up[i - 1], d)
      BY <2>4 DEF InOrder
    <3> QED
      BY <1>1, <3>1, <3>2 DEF Publish
  <2>6. x(i) \in U
    BY <1>3
  <2>7. Len(up[i]) = base + i /\ up[i][base + i] = x(i)
          /\ \A k \in 1..base + (i - 1) : up[i][k] = up[i - 1][k]
    <3> HIDE DEF x
    <3> QED
      BY <1>2, <2>1, <2>2, <2>3, <2>5, <2>6
  <2>8. \A k \in 1..base : up[i][k] = onto[k]
    <3>1. \A k \in 1..base : k \in 1..base + (i - 1)
      BY <1>2, <2>1
    <3> QED
      BY <2>3, <2>7, <3>1
  <2>9. \A k \in 1..i : up[i][base + k] = x(k)
    <3> SUFFICES ASSUME NEW k \in 1..i, k # i PROVE up[i][base + k] = x(k)
      BY <2>7
    <3>1. k \in 1..i - 1 /\ base + k \in 1..base + (i - 1)
      BY <1>2, <2>1
    <3> HIDE DEF x
    <3> QED
      BY <2>3, <2>7, <3>1
  <2> QED
    BY <2>1, <2>7, <2>8, <2>9
<1>7. Good = 0..n
  <2>1. Good \in SUBSET (0..n)
    OBVIOUS
  <2> HIDE DEF Good
  <2> QED
    BY <1>2, <1>5, <1>6, <2>1, Climb
<1>8. Fits(n) /\ up[n] \in Seq(U)
  BY <1>2, <1>4, <1>7
<1> QED
  BY <1>1, <1>8 DEF Listed, Joined, n, base

----------------------------------------------------------------------------
(* What a reader was told.                                                 *)

Lists ==
  /\ Listed(feed) /\ Listed(bus)
  /\ phase # "lull" => bus = <<>>
  /\ standing \subseteq Seats
  /\ sealed # NoSave => sealed.standing \subseteq Seats

CursorsFit ==
  /\ gen.n \in Nat /\ snapshot = SnapshotOf(gen.round)
  /\ carried \in BOOLEAN /\ shifted \in BOOLEAN
  /\ cursor # NoCursor =>
       /\ cursor.snapshot = SnapshotOf(cursor.gen.round)
       /\ cursor.gen.n \in Nat /\ cursor.gen.n <= gen.n
       /\ cursor.index \in Nat

Told ==
  cursor # NoCursor /\ cursor.gen = gen /\ ~carried /\ ~shifted =>
    LET seen == Shown(feed, fog, sees)
    IN  /\ cursor.index <= Cardinality(seen)
        /\ told = {i \in seen : Place(i, seen) <= cursor.index}

ReadInv == Lists /\ CursorsFit /\ Told

(* What a tick says that felled these seats.                               *)
Over(fallen) == segLeft = 1 \/ Cardinality(standing \ fallen) < 2

Said(lines, fallen) ==
  lines \o SetToSeq({Public("eliminated") : s \in fallen})
        \o Ends(fallen, Over(fallen))

(* What a tick says is drained whole.                                      *)
LEMMA StepSays ==
  ASSUME Step
  PROVE  \E lines \in TickLines, fallen \in SUBSET standing :
           /\ standing' = standing \ fallen
           /\ Absorb(Emit(Said(lines, fallen), tick + 1), feed, anchor, phase')
BY Zenon DEF Step, Said, Over

(* It is a list.                                                           *)
LEMMA SaidListed ==
  ASSUME standing \subseteq Seats, NEW lines \in TickLines, NEW fallen \in SUBSET standing
  PROVE  Listed(Said(lines, fallen))
<1>1. Listed(lines)
  BY FeedAssumption DEF Listed
<1>2. \A S \in SUBSET Seats : IsFiniteSet(S)
  BY FeedAssumption, FS_Subset
<1>3. Listed(SetToSeq({Public("eliminated") : s \in fallen}))
  <2> DEFINE f == [s \in fallen |-> Public("eliminated")]
  <2>1. IsFiniteSet({f[s] : s \in fallen})
    BY <1>2, ImageIsFinite
  <2>2. {f[s] : s \in fallen} = {Public("eliminated") : s \in fallen}
    OBVIOUS
  <2> QED
    BY <2>1, <2>2, WrittenOut
<1>4. Listed(SetToSeq({Private("settled", s) : s \in standing \ fallen}))
  <2> DEFINE f == [s \in standing \ fallen |-> Private("settled", s)]
  <2>1. IsFiniteSet({f[s] : s \in standing \ fallen})
    BY <1>2, ImageIsFinite
  <2>2. {f[s] : s \in standing \ fallen} = {Private("settled", s) : s \in standing \ fallen}
    OBVIOUS
  <2> QED
    BY <2>1, <2>2, WrittenOut
<1>5. /\ Listed(<<>>) /\ Listed(<<Public("match_ended")>>)
      /\ Listed(<<Public("segment_ended"), Public("recap_opened")>>)
  <2>1. /\ <<>> \in Seq({}) /\ <<Public("match_ended")>> \in Seq({Public("match_ended")})
        /\ <<Public("segment_ended"), Public("recap_opened")>>
             \in Seq({Public("segment_ended"), Public("recap_opened")})
    OBVIOUS
  <2> QED
    BY <2>1 DEF Listed
<1>6. Listed(Ends(fallen, Over(fallen)))
  <2>1. CASE ~Over(fallen)
    BY <1>5, <2>1 DEF Ends
  <2>2. CASE Over(fallen)
    <3> DEFINE ending == IF decided' THEN <<Public("match_ended")>> ELSE <<>>
               credits == SetToSeq({Private("settled", s) : s \in standing \ fallen})
    <3>1. Listed(ending)
      BY <1>5
    <3>2. Ends(fallen, Over(fallen))
            = <<Public("segment_ended"), Public("recap_opened")>> \o credits \o ending
      BY <2>2 DEF Ends
    <3> HIDE DEF ending, credits
    <3>3. Listed(<<Public("segment_ended"), Public("recap_opened")>> \o credits)
      BY <1>4, <1>5, BehindListed DEF credits
    <3> QED
      BY <3>1, <3>2, <3>3, BehindListed
  <2> QED
    BY <2>1, <2>2
<1>7. Listed(lines \o SetToSeq({Public("eliminated") : s \in fallen}))
  BY <1>1, <1>3, BehindListed
<1> QED
  BY <1>6, <1>7, BehindListed DEF Said

(* What waits on an empty bus once the lines were emitted is their         *)
(* beginning.                                                              *)
LEMMA EmitFills ==
  ASSUME NEW lines, Listed(lines), NEW t, bus = <<>>
  PROVE  LET room == Fewer(Len(lines), Capacity)
         IN  /\ room \in Nat /\ room <= Len(lines) /\ room <= Capacity
             /\ Emit(lines, t) = [waiting |-> At(t, SubSeq(lines, 1, room)),
                                  dropped |-> dropped + Len(lines) - room]
             /\ Listed(At(t, SubSeq(lines, 1, room)))
<1> DEFINE room == Fewer(Len(lines), Capacity)
<1>1. Capacity \in Nat
  BY FeedAssumption
<1>2. Len(lines) \in Nat
  BY DEF Listed
<1>3. room \in Nat /\ room <= Len(lines) /\ room <= Capacity
  BY <1>1, <1>2 DEF Fewer
<1>4. Listed(SubSeq(lines, 1, room))
  <2> HIDE DEF room
  <2> QED
    BY <1>3, CutListed
<1>5. Listed(At(t, SubSeq(lines, 1, room)))
  <2> HIDE DEF room
  <2> QED
    BY <1>4, AtListed
<1>6. Len(bus) = 0 /\ Capacity - 0 = Capacity
  BY <1>1
<1>7. bus \o At(t, SubSeq(lines, 1, room)) = At(t, SubSeq(lines, 1, room))
  <2> HIDE DEF room
  <2>1. PICK T : At(t, SubSeq(lines, 1, room)) \in Seq(T)
    BY <1>5 DEF Listed
  <2> QED
    BY <2>1
<1> HIDE DEF room
<1>8. Emit(lines, t) = [waiting |-> At(t, SubSeq(lines, 1, room)),
                        dropped |-> dropped + Len(lines) - room]
  <2>1. Emit(lines, t) = [waiting |-> bus \o At(t, SubSeq(lines, 1, room)),
                          dropped |-> dropped + Len(lines) - room]
    BY <1>6 DEF Emit, room
  <2> QED
    BY <2>1, <1>7
<1> QED
  BY <1>3, <1>5, <1>8 DEF room

(* Every tick and the end of the recap add to the feed.                    *)
LEMMA FeedGrows ==
  ASSUME Lists, Step \/ EndRecap
  PROVE  Listed(feed') /\ Extends(feed', feed) /\ bus' = <<>>
<1>0. bus = <<>> /\ Listed(feed)
  BY DEF Lists, Step, EndRecap
<1>1. ASSUME NEW e, Listed(e.waiting), Absorb(e, feed, anchor, phase')
      PROVE  Listed(feed') /\ Extends(feed', feed) /\ bus' = <<>>
  <2>1. feed' = Published(feed, anchor, e.waiting) /\ bus' = <<>>
    BY <1>1 DEF Absorb
  <2> QED
    BY <1>0, <1>1, <2>1, PublishedExtends
<1>2. ASSUME NEW lines, Listed(lines), NEW t PROVE Listed(Emit(lines, t).waiting)
  BY <1>0, <1>2, EmitFills
<1>3. CASE Step
  <2>1. PICK lines \in TickLines, fallen \in SUBSET standing :
           Absorb(Emit(Said(lines, fallen), tick + 1), feed, anchor, phase')
    BY <1>3, StepSays
  <2>2. Listed(Said(lines, fallen))
    BY SaidListed DEF Lists
  <2> QED
    BY <1>1, <1>2, <2>1, <2>2
<1>4. CASE EndRecap
  <2> DEFINE said == IF decided THEN <<>> ELSE <<Public("lull_opened")>>
  <2>1. Absorb(Emit(said, tick), feed, anchor, phase')
    BY <1>4 DEF EndRecap
  <2>2. Listed(said)
    <3>1. <<>> \in Seq({}) /\ <<Public("lull_opened")>> \in Seq({Public("lull_opened")})
      OBVIOUS
    <3> QED
      BY <3>1 DEF Listed
  <2> HIDE DEF said
  <2> QED
    BY <1>1, <1>2, <2>1, <2>2
<1> QED
  BY <1>3, <1>4

(* The lines a reader sees are numbered, and finitely many.                *)
LEMMA SeenIsFinite ==
  ASSUME NEW lines, Listed(lines), NEW policy, NEW reach
  PROVE  Shown(lines, policy, reach) \in SUBSET Nat /\ IsFiniteSet(Shown(lines, policy, reach))
<1>1. DOMAIN lines = 1..Len(lines) /\ Len(lines) \in Nat
  BY DEF Listed
<1>2. IsFiniteSet(1..Len(lines))
  BY <1>1, FS_Interval
<1>3. Shown(lines, policy, reach) \subseteq 1..Len(lines)
  BY <1>1 DEF Shown
<1> QED
  BY <1>1, <1>2, <1>3, FS_Subset

(* A reader who has been told all up to its cursor has still, once the     *)
(* feed has grown: what is new takes places after it.                      *)
LEMMA ToldStays ==
  ASSUME Listed(feed), Listed(feed'), Extends(feed', feed),
         reader' = reader, cursor' = cursor, told' = told, carried' = carried, gen' = gen,
         shifted \in BOOLEAN,
         Shown(feed, fog', sees') = Shown(feed, fog, sees) \/ shifted',
         shifted => shifted',
         CursorsFit, Told
  PROVE  Told'
<1> SUFFICES ASSUME cursor' # NoCursor, cursor'.gen = gen', ~carried', ~shifted'
             PROVE  LET seen == Shown(feed', fog', sees')
                    IN  /\ cursor.index <= Cardinality(seen)
                        /\ told = {i \in seen : Place(i, seen) <= cursor.index}
  <2>1. Shown(feed', fog', sees') = Shown(feed, fog, sees)'
    BY DEF Shown, Visible
  <2> QED
    BY <2>1 DEF Told, Place
<1> DEFINE seen == Shown(feed, fog, sees)
           now == Shown(feed', fog', sees')
           len == Len(feed)
<1>1. /\ cursor.index <= Cardinality(seen)
      /\ told = {i \in seen : Place(i, seen) <= cursor.index}
      /\ cursor.index \in Nat
  BY DEF Told, CursorsFit
<1>2. seen = Shown(feed, fog', sees')
  OBVIOUS
<1>3. /\ DOMAIN feed = 1..len /\ len \in Nat /\ DOMAIN feed' = 1..Len(feed') /\ Len(feed') \in Nat
      /\ len <= Len(feed') /\ \A i \in 1..len : feed'[i] = feed[i]
  BY DEF Listed, Extends
<1>4. seen \in SUBSET Nat /\ IsFiniteSet(seen) /\ now \in SUBSET Nat /\ IsFiniteSet(now)
  BY SeenIsFinite
<1>5. seen = {i \in now : i <= len}
  <2>1. \A i \in DOMAIN feed' : i \in DOMAIN feed <=> i <= len
    BY <1>3
  <2>2. \A i \in DOMAIN feed : i \in DOMAIN feed' /\ feed'[i] = feed[i]
    BY <1>3
  <2>3. \A i : i \in seen <=> i \in DOMAIN feed /\ Visible(feed[i].line, fog', sees')
    BY <1>2 DEF Shown
  <2>4. \A i : i \in now <=> i \in DOMAIN feed' /\ Visible(feed'[i].line, fog', sees')
    BY DEF Shown
  <2> HIDE DEF seen, now, len
  <2> QED
    BY <2>1, <2>2, <2>3, <2>4
<1> HIDE DEF seen, now, len
<1>6. Cardinality(seen) \in Nat /\ Cardinality(now) \in Nat
  BY <1>4, FS_CardinalityType
<1>7. Cardinality(seen) <= Cardinality(now) /\ 
      \A k \in 0..Cardinality(seen) :
              {i \in seen : Place(i, seen) <= k} = {i \in now : Place(i, now) <= k}
  <2>1. seen \in SUBSET Nat
    BY <1>4
  <2>2. now \in SUBSET Nat
    BY <1>4
  <2>3. IsFiniteSet(now) /\ len \in Nat
    BY <1>3, <1>4
  <2>4. seen = {i \in now : i <= len}
    BY <1>5
  <2>5. Cardinality(seen) <= Cardinality(now)
    BY <2>1, <2>2, <2>3, <2>4, PlacesStay
  <2>6. ASSUME NEW k \in 0..Cardinality(seen)
        PROVE  {i \in seen : Place(i, seen) <= k} = {i \in now : Place(i, now) <= k}
    BY <2>1, <2>2, <2>3, <2>4, PlacesStay
  <2> QED
    BY <2>5, <2>6
<1>8. cursor.index \in 0..Cardinality(seen) /\ cursor.index <= Cardinality(now)
  BY <1>1, <1>6, <1>7
<1>9. told = {i \in now : Place(i, now) <= cursor.index}
  BY <1>1, <1>7, <1>8
<1> QED
  BY <1>8, <1>9 DEF now

LEMMA ReadInit == Init => ReadInv
<1> SUFFICES ASSUME Init PROVE ReadInv
  OBVIOUS
<1>1. Listed(feed) /\ Listed(bus)
  <2>1. /\ <<>> \in Seq({})
        /\ feed \in Seq({[line |-> Public("match_started"), at |-> 0],
                         [line |-> Public("lull_opened"), at |-> 0]})
    BY DEF Init
  <2> QED
    BY <2>1 DEF Init, Listed
<1>2. Lists
  BY <1>1 DEF Init, Lists
<1>3. CursorsFit
  BY DEF Init, CursorsFit
<1>4. Told
  BY DEF Init, Told
<1> QED
  BY <1>2, <1>3, <1>4 DEF ReadInv

(* A feed begun: the cursor held is of an earlier one.                     *)
LEMMA NewFeedFits ==
  ASSUME CursorsFit, NewFeed, snapshot' = SnapshotOf(round')
  PROVE  CursorsFit' /\ Told'
<1>1. /\ cursor' = cursor /\ carried' = carried /\ shifted' = FALSE
      /\ gen' = [n |-> gen.n + 1, round |-> round']
  BY DEF NewFeed
<1>2. gen'.n = gen.n + 1 /\ gen'.round = round' /\ gen.n \in Nat
  BY <1>1 DEF CursorsFit
<1>3. CursorsFit'
  <2>1. gen'.n \in Nat
    BY <1>2
  <2>2. cursor # NoCursor =>
          /\ cursor.snapshot = SnapshotOf(cursor.gen.round)
          /\ cursor.gen.n \in Nat /\ cursor.gen.n <= gen'.n
          /\ cursor.index \in Nat
    <3> SUFFICES ASSUME cursor # NoCursor PROVE cursor.gen.n <= gen'.n
      BY DEF CursorsFit
    <3>1. cursor.gen.n \in Nat /\ cursor.gen.n <= gen.n
      BY DEF CursorsFit
    <3> QED
      BY <1>2, <3>1
  <2>3. carried \in BOOLEAN
    BY DEF CursorsFit
  <2> QED
    BY <1>1, <1>2, <2>1, <2>2, <2>3 DEF CursorsFit
<1>4. cursor # NoCursor => cursor.gen # gen'
  <2> SUFFICES ASSUME cursor # NoCursor, cursor.gen = gen' PROVE FALSE
    OBVIOUS
  <2>1. cursor.gen.n \in Nat /\ cursor.gen.n <= gen.n /\ cursor.gen.n = gen.n + 1
    BY <1>2 DEF CursorsFit
  <2> QED
    BY <1>2, <2>1
<1> QED
  BY <1>1, <1>3, <1>4 DEF Told

(* What a Push opens with: the filings, and the seals.                     *)
Filings(filed) ==
  SetToSeq({[line |-> Private("safe_filed", s), at |-> 0] : s \in filed})
Seals == SetToSeq({Private("plan_sealed", s) : s \in Seats})

LEMMA FilingsListed ==
  ASSUME NEW filed \in Silent
  PROVE  /\ Listed(Filings(filed))
         /\ \A i \in 1..Len(Filings(filed)) :
              Filings(filed)[i].line.kind = "safe_filed" /\ Filings(filed)[i].at = 0
<1> DEFINE f == [s \in filed |-> [line |-> Private("safe_filed", s), at |-> 0]]
           all == {[line |-> Private("safe_filed", s), at |-> 0] : s \in filed}
<1>1. IsFiniteSet(filed)
  BY FeedAssumption, FS_Subset
<1>2. IsFiniteSet({f[s] : s \in filed})
  BY <1>1, ImageIsFinite
<1>3. {f[s] : s \in filed} = all
  OBVIOUS
<1>4. Listed(Filings(filed)) /\ Filings(filed) \in Seq(all)
  BY <1>2, <1>3, WrittenOut DEF Filings
<1>5. \A x \in all : x.line.kind = "safe_filed" /\ x.at = 0
  BY DEF Private
<1> HIDE DEF all
<1> QED
  BY <1>4, <1>5

LEMMA SealsListed ==
  Listed(Seals) /\ \A i \in 1..Len(Seals) : Seals[i].kind = "plan_sealed"
<1> DEFINE f == [s \in Seats |-> Private("plan_sealed", s)]
           each == {Private("plan_sealed", s) : s \in Seats}
<1>1. IsFiniteSet(Seats)
  BY FeedAssumption
<1>2. IsFiniteSet({f[s] : s \in Seats})
  BY <1>1, ImageIsFinite
<1>3. {f[s] : s \in Seats} = each
  OBVIOUS
<1>4. Listed(Seals) /\ Seals \in Seq(each)
  BY <1>2, <1>3, WrittenOut DEF Seals
<1>5. \A x \in each : x.kind = "plan_sealed"
  BY DEF Private
<1> HIDE DEF each
<1> QED
  BY <1>4, <1>5

(* A Push, sealed or resumed, begins a feed.                               *)
LEMMA OpenPushReads ==
  ASSUME ReadInv, NEW m, m.standing \subseteq Seats, NEW filed \in Silent,
         OpenPush(m, filed)
  PROVE  ReadInv'
<1> DEFINE filings == Filings(filed)
           seals == Seals
<1>1. Listed(filings)
  BY FilingsListed
<1>2. Listed(seals)
  BY SealsListed
<1>3. /\ feed' = Published(filings, anchor', At(m.tick, seals \o <<Public("push_started")>>))
      /\ bus' = <<>> /\ phase' = "push" /\ standing' = m.standing /\ sealed' = m
      /\ NewFeed /\ BeginSegment(m.tick)
  BY DEF OpenPush, Filings, Seals
<1> HIDE DEF filings, seals
<1>4. Listed(<<>>) /\ Listed(<<Public("push_started")>>)
  <2>1. <<>> \in Seq({}) /\ <<Public("push_started")>> \in Seq({Public("push_started")})
    OBVIOUS
  <2> QED
    BY <2>1 DEF Listed
<1>5. Listed(At(m.tick, seals \o <<Public("push_started")>>))
  BY <1>2, <1>4, BehindListed, AtListed
<1>6. Listed(feed')
  BY <1>1, <1>3, <1>5, PublishedExtends
<1>7. Lists'
  BY <1>3, <1>4, <1>6 DEF Lists
<1>8. CursorsFit' /\ Told'
  BY <1>3, NewFeedFits DEF ReadInv, BeginSegment
<1> QED
  BY <1>7, <1>8 DEF ReadInv

LEMMA EndLullReads == ReadInv /\ EndLull => ReadInv'
<1> SUFFICES ASSUME ReadInv, EndLull PROVE ReadInv'
  OBVIOUS
<1>1. PICK filed \in Silent :
        OpenPush([round |-> round, tick |-> tick, standing |-> standing], filed)
  BY DEF EndLull
<1> QED
  BY <1>1, OpenPushReads DEF ReadInv, Lists

LEMMA ResumeSealedReads == ReadInv /\ ResumeSealed => ReadInv'
<1> SUFFICES ASSUME ReadInv, ResumeSealed PROVE ReadInv'
  OBVIOUS
<1>1. PICK filed \in Silent : OpenPush(sealed, filed)
  BY DEF ResumeSealed
<1>2. sealed.standing \subseteq Seats
  BY DEF ResumeSealed, ReadInv, Lists
<1> QED
  BY <1>1, <1>2, OpenPushReads

LEMMA ResumeLullReads == ReadInv /\ ResumeLull => ReadInv'
<1> SUFFICES ASSUME ReadInv, ResumeLull PROVE ReadInv'
  OBVIOUS
<1>1. /\ phase' = "lull" /\ standing' = standing /\ feed' = <<>> /\ sealed' = NoSave
      /\ bus' = IF round = 1 THEN <<>> ELSE At(tick, <<Public("lull_opened")>>)
      /\ NewFeed /\ BeginSegment(tick)
  BY DEF ResumeLull, match
<1>2. Listed(<<>>) /\ Listed(<<Public("lull_opened")>>)
  <2>1. <<>> \in Seq({}) /\ <<Public("lull_opened")>> \in Seq({Public("lull_opened")})
    OBVIOUS
  <2> QED
    BY <2>1 DEF Listed
<1>3. Listed(At(tick, <<Public("lull_opened")>>))
  BY <1>2, AtListed
<1>4. Listed(bus') /\ Listed(feed')
  BY <1>1, <1>2, <1>3
<1>5. Lists'
  BY <1>1, <1>4 DEF ReadInv, Lists
<1>6. CursorsFit' /\ Told'
  BY <1>1, NewFeedFits DEF ReadInv, BeginSegment
<1> QED
  BY <1>5, <1>6 DEF ReadInv

LEMMA GrowsReads == ReadInv /\ (Step \/ EndRecap) => ReadInv'
<1> SUFFICES ASSUME ReadInv, Step \/ EndRecap PROVE ReadInv'
  OBVIOUS
<1>1. Listed(feed') /\ Extends(feed', feed) /\ bus' = <<>>
  BY FeedGrows DEF ReadInv
<1>2. /\ reader' = reader /\ cursor' = cursor /\ told' = told /\ carried' = carried
      /\ gen' = gen /\ snapshot' = snapshot /\ sealed' = sealed
  BY DEF Step, EndRecap, read
<1>3. shifted \in BOOLEAN
  BY DEF ReadInv, CursorsFit
<1>4. standing' \subseteq Seats
  <2>1. CASE Step
    BY <2>1, StepSays DEF ReadInv, Lists
  <2>2. CASE EndRecap
    BY <2>2 DEF EndRecap, ReadInv, Lists
  <2> QED
    BY <2>1, <2>2
<1>5. /\ shifted' \in BOOLEAN
      /\ Shown(feed, fog', sees') = Shown(feed, fog, sees) \/ shifted'
      /\ shifted => shifted'
  <2>1. CASE Step
    <3>1. shifted' = (shifted \/ Shifts(feed))
      BY <2>1 DEF Step
    <3> QED
      BY <1>3, <3>1 DEF Shifts
  <2>2. CASE EndRecap
    BY <1>3, <2>2 DEF EndRecap
  <2> QED
    BY <2>1, <2>2
<1>6. Lists'
  <2>1. Listed(<<>>)
    <3>1. <<>> \in Seq({})
      OBVIOUS
    <3> QED
      BY <3>1 DEF Listed
  <2> QED
    BY <1>1, <1>2, <1>4, <2>1 DEF ReadInv, Lists
<1>7. CursorsFit'
  BY <1>2, <1>5 DEF ReadInv, CursorsFit
<1>8. Told'
  BY <1>1, <1>2, <1>3, <1>5, ToldStays DEF ReadInv, Lists
<1> QED
  BY <1>6, <1>7, <1>8 DEF ReadInv

(* A page, from where the reader stands or from the feed's beginning.      *)
LEMMA PageReads ==
  ASSUME ReadInv, NEW limit \in Nat, NEW start \in Nat, Read(start, limit),
         NEW before,
         told' = before \union PageFrom(start, limit).lines,
         carried' \in BOOLEAN, shifted' \in BOOLEAN,
         ~carried' /\ ~shifted' =>
           LET seen == Shown(feed, fog, sees)
           IN  /\ start <= Cardinality(seen)
               /\ before = {i \in seen : Place(i, seen) <= start}
  PROVE  ReadInv'
<1> DEFINE seen == Shown(feed, fog, sees)
           page == {i \in seen : Place(i, seen) \in start + 1 .. start + limit}
           next == Fewer(start, Cardinality(seen)) + Cardinality(page)
<1>1. /\ cursor' = [snapshot |-> snapshot, index |-> next, gen |-> gen]
      /\ feed' = feed /\ bus' = bus /\ phase' = phase /\ standing' = standing
      /\ sealed' = sealed /\ gen' = gen /\ snapshot' = snapshot
      /\ fog' = fog /\ sees' = sees /\ reader' = reader
  BY DEF Read, PageFrom, match, surface
<1>2. told' = before \union page
  BY DEF PageFrom
<1>3. seen \in SUBSET Nat /\ IsFiniteSet(seen)
  BY SeenIsFinite DEF ReadInv, Lists
<1>4. Shown(feed, fog, sees)' = seen
  BY <1>1 DEF Shown, Visible
<1>5. /\ next \in Nat
      /\ start <= Cardinality(seen) =>
           /\ next <= Cardinality(seen)
           /\ {i \in seen : Place(i, seen) <= start} \union page
                = {i \in seen : Place(i, seen) <= next}
  <2> HIDE DEF seen
  <2> QED
    BY <1>3, PageGoesOn
<1> HIDE DEF seen, page, next
<1>7. cursor'.index = next /\ cursor'.gen = gen /\ cursor'.snapshot = snapshot
  BY <1>1
<1>8. Lists'
  BY <1>1 DEF ReadInv, Lists
<1>9. CursorsFit'
  BY <1>1, <1>5, <1>7 DEF ReadInv, CursorsFit
<1>10. Told'
  <2> SUFFICES ASSUME ~carried', ~shifted'
               PROVE  /\ next <= Cardinality(seen)
                      /\ told' = {i \in seen : Place(i, seen) <= next}
    BY <1>4, <1>7 DEF Told, Place
  <2>1. start <= Cardinality(seen) /\ before = {i \in seen : Place(i, seen) <= start}
    BY DEF seen
  <2> QED
    BY <1>2, <1>5, <2>1
<1> QED
  BY <1>8, <1>9, <1>10 DEF ReadInv

LEMMA StartReads ==
  ASSUME ReadInv, NEW limit \in 0..MaxLimit, StartReading(limit)
  PROVE  ReadInv'
<1> DEFINE seen == Shown(feed, fog, sees)
<1>1. limit \in Nat
  BY FeedAssumption
<1>2. seen \in SUBSET Nat /\ IsFiniteSet(seen)
  BY SeenIsFinite DEF ReadInv, Lists
<1>3. 0 <= Cardinality(seen) /\ {} = {i \in seen : Place(i, seen) <= 0}
  <2> HIDE DEF seen
  <2>1. Cardinality(seen) \in Nat /\ \A i \in seen : Place(i, seen) \in 1..Cardinality(seen)
    BY <1>2, Ranks
  <2>2. \A i \in seen : ~(Place(i, seen) <= 0)
    BY <2>1
  <2> QED
    BY <2>1, <2>2
<1>4. /\ Read(0, limit) /\ told' = {} \union PageFrom(0, limit).lines
      /\ carried' = FALSE /\ shifted' = FALSE
  BY DEF StartReading
<1> QED
  BY <1>1, <1>3, <1>4, PageReads

LEMMA GoesOnReads ==
  ASSUME ReadInv, NEW limit \in 0..MaxLimit, ReadOn(limit)
  PROVE  ReadInv'
<1>1. limit \in Nat
  BY FeedAssumption
<1>2. cursor.index \in Nat /\ carried \in BOOLEAN /\ shifted \in BOOLEAN
  BY DEF ReadOn, ReadInv, CursorsFit
<1>3. /\ Read(cursor.index, limit)
      /\ told' = told \union PageFrom(cursor.index, limit).lines
      /\ carried' = (carried \/ cursor.gen # gen) /\ shifted' = shifted
      /\ cursor # NoCursor
  BY DEF ReadOn
<1>4. ~carried' /\ ~shifted' =>
           LET seen == Shown(feed, fog, sees)
           IN  /\ cursor.index <= Cardinality(seen)
               /\ told = {i \in seen : Place(i, seen) <= cursor.index}
  BY <1>2, <1>3 DEF ReadInv, Told
<1>5. carried' \in BOOLEAN /\ shifted' \in BOOLEAN
  BY <1>2, <1>3
<1> QED
  BY <1>1, <1>2, <1>3, <1>4, <1>5, PageReads

LEMMA ReadStutters == ReadInv /\ UNCHANGED vars => ReadInv'
<1> SUFFICES ASSUME ReadInv, UNCHANGED vars PROVE ReadInv'
  OBVIOUS
<1>1. /\ feed' = feed /\ bus' = bus /\ phase' = phase /\ standing' = standing
      /\ sealed' = sealed /\ gen' = gen /\ snapshot' = snapshot /\ cursor' = cursor
      /\ fog' = fog /\ sees' = sees /\ reader' = reader /\ told' = told
      /\ carried' = carried /\ shifted' = shifted
  BY DEF vars, match, surface, read
<1>2. Shown(feed, fog, sees)' = Shown(feed, fog, sees)
  BY <1>1 DEF Shown, Visible
<1>3. Told'
  BY <1>1, <1>2 DEF ReadInv, Told, Place
<1> QED
  BY <1>1, <1>3 DEF ReadInv, Lists, CursorsFit

LEMMA ReadNext == ReadInv /\ [Next]_vars => ReadInv'
<1> SUFFICES ASSUME ReadInv, [Next]_vars PROVE ReadInv'
  OBVIOUS
<1>1. CASE EndLull
  BY <1>1, EndLullReads
<1>2. CASE Step \/ EndRecap
  BY <1>2, GrowsReads
<1>3. CASE ResumeLull
  BY <1>3, ResumeLullReads
<1>4. CASE ResumeSealed
  BY <1>4, ResumeSealedReads
<1>5. ASSUME NEW limit \in 0..MaxLimit, StartReading(limit) PROVE ReadInv'
  BY <1>5, StartReads
<1>6. ASSUME NEW limit \in 0..MaxLimit, ReadOn(limit) PROVE ReadInv'
  BY <1>6, GoesOnReads
<1>7. CASE UNCHANGED vars
  BY <1>7, ReadStutters
<1> QED
  BY <1>1, <1>2, <1>3, <1>4, <1>5, <1>6, <1>7 DEF Next

(* A reader that follows its cursor is told every line before it that it   *)
(* may see, once, and no other; and a cursor the open feed takes is one of *)
(* its own round.                                                          *)
THEOREM ReadersMissNothing == Spec => []SteadyReaderMissesNothing
<1>1. ReadInv => SteadyReaderMissesNothing
  <2> SUFFICES ASSUME ReadInv, cursor # NoCursor, cursor.snapshot = snapshot
               PROVE  /\ cursor.gen.round = gen.round
                      /\ cursor.gen = gen /\ ~carried /\ ~shifted =>
                           LET seen == Shown(feed, fog, sees)
                           IN  /\ cursor.index <= Cardinality(seen)
                               /\ told = {i \in seen : Place(i, seen) <= cursor.index}
    BY DEF SteadyReaderMissesNothing
  <2>1. SnapshotOf(cursor.gen.round) = SnapshotOf(gen.round)
    BY DEF ReadInv, CursorsFit
  <2>2. cursor.gen.round = gen.round
    BY <2>1 DEF SnapshotOf
  <2> QED
    BY <2>2 DEF ReadInv, Told
<1> QED
  BY ReadInit, ReadNext, <1>1, PTL DEF Spec

----------------------------------------------------------------------------
(* What is noted of a drain.                                               *)

Records == {NoRecap} \union [round : Nat, settled : Nat, failures : Nat, dropped : Nat]
Notes == [recap : Records, lost : Nat, failures : Nat, dropped : Nat]

(* A note stays one.                                                       *)
LEMMA NoteIsTyped ==
  ASSUME NEW n \in Notes, NEW line, round \in Nat
  PROVE  Note(n, line) \in Notes
<1>0. /\ n = [recap |-> n.recap, lost |-> n.lost, failures |-> n.failures, dropped |-> n.dropped]
      /\ n.recap \in Records /\ n.lost \in Nat /\ n.failures \in Nat /\ n.dropped \in Nat
  BY DEF Notes
<1>1. CASE line.kind = "segment_ended"
  <2>1. Note(n, line) = [recap |-> [round |-> round, settled |-> 0,
                     failures |-> n.failures, dropped |-> n.dropped],
          lost |-> 0, failures |-> 0, dropped |-> 0]
    BY <1>1, Zenon DEF Note
  <2>2. [round |-> round, settled |-> 0, failures |-> n.failures, dropped |-> n.dropped] \in Records
    BY <1>0 DEF Records
  <2> QED
    BY <2>1, <2>2 DEF Notes
<1>2. CASE line.kind = "failed"
  <2>1. Note(n, line) = [n EXCEPT !.failures = @ + 1]
    BY <1>2 DEF Note
  <2> QED
    BY <1>0, <2>1 DEF Notes
<1>3. CASE line.kind = "settled"
  <2>1. Note(n, line) = [n EXCEPT !.recap.settled = @ + 1]
    BY <1>3 DEF Note
  <2>2. [n.recap EXCEPT !.settled = @ + 1] \in Records
    <3>1. CASE n.recap = NoRecap
      <4>1. [NoRecap EXCEPT !.settled = @ + 1] = NoRecap
        BY DEF NoRecap
      <4> QED
        BY <3>1, <4>1 DEF Records
    <3>2. CASE n.recap # NoRecap
      BY <1>0, <3>2 DEF Records
    <3> QED
      BY <3>1, <3>2
  <2>3. Note(n, line) = [n EXCEPT !.recap = [n.recap EXCEPT !.settled = @ + 1]]
    BY <2>1
  <2> HIDE <2>1
  <2> QED
    BY <1>0, <2>2, <2>3 DEF Notes
<1>4. CASE line.kind \notin {"segment_ended", "failed", "settled"}
  BY <1>4 DEF Note
<1> QED
  BY <1>1, <1>2, <1>3, <1>4

(* Line by line, a drain leaves a note.                                    *)
LEMMA NotedUnrolls ==
  ASSUME NEW n \in Notes, NEW lines, Listed(lines), round \in Nat
  PROVE  \E up : /\ up \in [0..Len(lines) -> Notes]
                 /\ up[0] = n
                 /\ \A i \in 1..Len(lines) : up[i] = Note(up[i - 1], lines[i].line)
                 /\ Noted(n, lines) = up[Len(lines)]
<1> DEFINE l == Len(lines)
           step == [p \in (0..l) \X Notes |-> Note(p[2], lines[p[1]].line)]
           Is(f) == f = [i \in 0..l |-> IF i = 0 THEN n ELSE Note(f[i - 1], lines[i].line)]
           up == CHOOSE f : Is(f)
<1>1. l \in Nat
  BY DEF Listed
<1>2. step \in [(0..l) \X Notes -> Notes]
  <2>1. \A p \in (0..l) \X Notes : Note(p[2], lines[p[1]].line) \in Notes
    BY NoteIsTyped
  <2> QED
    BY <2>1
<1>3. PICK f \in [0..l -> Notes] : Unrolls(f, l, n, step)
  <2> HIDE DEF step, l, Is, up
  <2> QED
    BY <1>1, <1>2, Iterates
<1>4. Is(f)
  <2>1. \A i \in 0..l : f[i] = IF i = 0 THEN n ELSE Note(f[i - 1], lines[i].line)
    <3> SUFFICES ASSUME NEW i \in 0..l, i # 0
                 PROVE  f[i] = Note(f[i - 1], lines[i].line)
      BY <1>3 DEF Unrolls
    <3> HIDE DEF l
    <3>1. i - 1 \in 0..l
      BY <1>1
    <3>2. <<i, f[i - 1]>> \in (0..l) \X Notes
      BY <3>1
    <3> QED
      BY <1>3, <3>2 DEF Unrolls
  <2> HIDE DEF l
  <2> QED
    BY <2>1
<1>5. Is(up)
  <2> HIDE DEF Is
  <2> QED
    BY <1>4
<1>6. Noted(n, lines) = up[l]
  BY DEF Noted
<1> HIDE DEF up
<1>7. up[0] = n /\ \A i \in 1..l : up[i] = Note(up[i - 1], lines[i].line)
  <2> HIDE DEF l
  <2>1. up = [i \in 0..l |-> IF i = 0 THEN n ELSE Note(up[i - 1], lines[i].line)]
    BY <1>5
  <2>2. 0 \in 0..l /\ \A i \in 1..l : i \in 0..l /\ i # 0
    BY <1>1
  <2> QED
    BY <2>1, <2>2
<1>8. up \in [0..l -> Notes]
  <2> DEFINE Good == {i \in 0..l : up[i] \in Notes}
  <2> HIDE DEF l
  <2>1. 0 \in Good
    BY <1>1, <1>7
  <2>2. ASSUME NEW i \in 1..l, i - 1 \in Good PROVE i \in Good
    <3>1. i \in 0..l /\ up[i - 1] \in Notes
      BY <1>1, <2>2
    <3> QED
      BY <1>7, <3>1, NoteIsTyped
  <2>3. Good \in SUBSET (0..l)
    OBVIOUS
  <2>4. Good = 0..l
    <3> HIDE DEF Good
    <3> QED
      BY <1>1, <2>1, <2>2, <2>3, Climb
  <2>5. \A i \in 0..l : up[i] \in Notes
    BY <2>4
  <2>6. up = [i \in 0..l |-> up[i]]
    BY <1>5
  <2> QED
    BY <2>5, <2>6
<1> QED
  BY <1>6, <1>7, <1>8

Tally(lines, kind) == Cardinality({i \in DOMAIN lines : lines[i].line.kind = kind})
Upto(lines, kind, n) == Cardinality({i \in 1..n : lines[i].line.kind = kind})

(* The tally of the first n lines, one line at a time.                     *)
LEMMA UptoCounts ==
  ASSUME NEW lines, NEW kind
  PROVE  /\ Upto(lines, kind, 0) = 0
         /\ \A n \in Nat : Upto(lines, kind, n) \in Nat
         /\ \A n \in Nat \ {0} :
              Upto(lines, kind, n) = IF lines[n].line.kind = kind
                                     THEN Upto(lines, kind, n - 1) + 1
                                     ELSE Upto(lines, kind, n - 1)
<1> DEFINE A(n) == {i \in 1..n : lines[i].line.kind = kind}
<1>1. \A n \in Nat : IsFiniteSet(A(n)) /\ Cardinality(A(n)) \in Nat
  <2> SUFFICES ASSUME NEW n \in Nat PROVE IsFiniteSet(A(n)) /\ Cardinality(A(n)) \in Nat
    OBVIOUS
  <2>1. IsFiniteSet(1..n) /\ A(n) \subseteq 1..n
    BY FS_Interval
  <2> QED
    BY <2>1, FS_Subset, FS_CardinalityType
<1>2. A(0) = {}
  OBVIOUS
<1>3. ASSUME NEW n \in Nat \ {0}
      PROVE  Cardinality(A(n)) = IF lines[n].line.kind = kind
                                     THEN Cardinality(A(n - 1)) + 1
                                     ELSE Cardinality(A(n - 1))
  <2>1. n - 1 \in Nat /\ n \notin 1..n - 1 /\ \A i : i \in 1..n <=> i \in 1..n - 1 \/ i = n
    OBVIOUS
  <2>2. CASE lines[n].line.kind = kind
    <3>1. A(n) = A(n - 1) \union {n} /\ n \notin A(n - 1)
      BY <2>1, <2>2
    <3> HIDE DEF A
    <3>2. Cardinality(A(n - 1) \union {n}) = Cardinality(A(n - 1)) + 1
      BY <1>1, <2>1, <3>1, FS_AddElement
    <3> QED
      BY <2>2, <3>1, <3>2
  <2>3. CASE lines[n].line.kind # kind
    <3>1. A(n) = A(n - 1)
      BY <2>1, <2>3
    <3> QED
      BY <2>3, <3>1
  <2> QED
    BY <2>2, <2>3
<1> QED
  BY <1>1, <1>2, <1>3, FS_EmptySet DEF Upto

(* That of them all.                                                       *)
LEMMA TallyIsUpto ==
  ASSUME NEW lines, Listed(lines), NEW kind
  PROVE  Tally(lines, kind) = Upto(lines, kind, Len(lines)) /\ Tally(lines, kind) \in Nat
<1>1. DOMAIN lines = 1..Len(lines) /\ Len(lines) \in Nat
  BY DEF Listed
<1>2. Tally(lines, kind) = Upto(lines, kind, Len(lines))
  BY <1>1 DEF Tally, Upto
<1>3. Upto(lines, kind, Len(lines)) \in Nat
  BY <1>1, UptoCounts
<1> QED
  BY <1>2, <1>3

(* What a feed has gone on with adds its own tally.                        *)
LEMMA TallyJoined ==
  ASSUME NEW joint, NEW onto, NEW lines, NEW d, Listed(onto), Listed(lines),
         Joined(joint, onto, lines, d), NEW kind
  PROVE  Tally(joint, kind) = Tally(onto, kind) + Tally(lines, kind)
<1> DEFINE base == Len(onto)
           more == Len(lines)
           Good == {i \in 0..more : Upto(joint, kind, base + i)
                                      = Upto(onto, kind, base) + Upto(lines, kind, i)}
<1>1. /\ base \in Nat /\ more \in Nat /\ Listed(joint) /\ Len(joint) = base + more
      /\ \A k \in 1..base : joint[k] = onto[k]
      /\ \A k \in 1..more : joint[base + k].line = lines[k].line
  <2>1. base \in Nat /\ more \in Nat
    BY DEF Listed
  <2>2. \A k \in 1..more : joint[base + k] = [line |-> lines[k].line, at |-> d]
    BY DEF Joined
  <2>3. ASSUME NEW k \in 1..more PROVE joint[base + k].line = lines[k].line
    <3>1. joint[base + k] = [line |-> lines[k].line, at |-> d]
      BY <2>2
    <3> HIDE DEF base
    <3> QED
      BY <3>1
  <2> QED
    BY <2>1, <2>3 DEF Joined
<1> HIDE DEF base, more
<1>2. 0 \in Good
  <2>1. \A i \in 1..base : joint[i].line.kind = kind <=> onto[i].line.kind = kind
    BY <1>1
  <2>2. {i \in 1..base : joint[i].line.kind = kind} = {i \in 1..base : onto[i].line.kind = kind}
    BY <2>1
  <2>3. Upto(joint, kind, base) = Upto(onto, kind, base)
    BY <2>2 DEF Upto
  <2>4. Upto(lines, kind, 0) = 0 /\ Upto(onto, kind, base) \in Nat
    BY <1>1, UptoCounts
  <2>5. base + 0 = base /\ 0 \in 0..more
    BY <1>1
  <2> QED
    BY <2>3, <2>4, <2>5
<1>3. ASSUME NEW i \in 1..more, i - 1 \in Good PROVE i \in Good
  <2>1. /\ i \in Nat \ {0} /\ base + i \in Nat \ {0} /\ (base + i) - 1 = base + (i - 1)
        /\ i \in 0..more /\ i - 1 \in Nat
    BY <1>1
  <2>2. joint[base + i].line.kind = lines[i].line.kind
    BY <1>1
  <2>3. Upto(joint, kind, base + i) = IF lines[i].line.kind = kind
                                     THEN Upto(joint, kind, base + (i - 1)) + 1
                                     ELSE Upto(joint, kind, base + (i - 1))
    <3>1. PICK b \in Nat \ {0} : b = base + i
      BY <2>1
    <3>2. Upto(joint, kind, b) = IF joint[b].line.kind = kind
                                 THEN Upto(joint, kind, b - 1) + 1
                                 ELSE Upto(joint, kind, b - 1)
      <4>1. \A n \in Nat \ {0} :
              Upto(joint, kind, n) = IF joint[n].line.kind = kind
                                     THEN Upto(joint, kind, n - 1) + 1
                                     ELSE Upto(joint, kind, n - 1)
        BY UptoCounts
      <4> QED
        BY <4>1
    <3>3. b - 1 = base + (i - 1)
      BY <2>1, <3>1
    <3> QED
      BY <2>2, <3>1, <3>2, <3>3
  <2>4. Upto(lines, kind, i) = IF lines[i].line.kind = kind
                                     THEN Upto(lines, kind, i - 1) + 1
                                     ELSE Upto(lines, kind, i - 1)
    BY <2>1, UptoCounts
  <2>5. /\ Upto(lines, kind, i - 1) \in Nat /\ Upto(onto, kind, base) \in Nat
    BY <1>1, <2>1, UptoCounts
  <2>6. Upto(joint, kind, base + (i - 1)) = Upto(onto, kind, base) + Upto(lines, kind, i - 1)
    BY <1>3
  <2>7. Upto(joint, kind, base + i) = Upto(onto, kind, base) + Upto(lines, kind, i)
    BY <2>3, <2>4, <2>5, <2>6
  <2> QED
    BY <2>1, <2>7
<1>4. Good = 0..more
  <2>1. Good \in SUBSET (0..more)
    OBVIOUS
  <2> HIDE DEF Good
  <2> QED
    BY <1>1, <1>2, <1>3, <2>1, Climb
<1>5. Upto(joint, kind, base + more) = Upto(onto, kind, base) + Upto(lines, kind, more)
  BY <1>1, <1>4
<1> QED
  BY <1>1, <1>5, TallyIsUpto DEF base, more

(* Lines none of which ends the segment, or settles anything.              *)
LEMMA NotedFailures ==
  ASSUME NEW n \in Notes, NEW lines, Listed(lines), round \in Nat,
         \A i \in 1..Len(lines) : lines[i].line.kind \notin {"segment_ended", "settled"}
  PROVE  Noted(n, lines)
           = [recap |-> n.recap, lost |-> n.lost,
              failures |-> n.failures + Tally(lines, "failed"), dropped |-> n.dropped]
<1> DEFINE len == Len(lines)
           F(i) == Upto(lines, "failed", i)
           Heard(i) == [recap |-> n.recap, lost |-> n.lost,
                        failures |-> n.failures + F(i), dropped |-> n.dropped]
<1>1. PICK up : /\ up \in [0..len -> Notes] /\ up[0] = n
                /\ \A i \in 1..len : up[i] = Note(up[i - 1], lines[i].line)
                /\ Noted(n, lines) = up[len]
  BY NotedUnrolls
<1>2. /\ len \in Nat
      /\ n = [recap |-> n.recap, lost |-> n.lost, failures |-> n.failures, dropped |-> n.dropped]
      /\ n.failures \in Nat
  BY DEF Listed, Notes
<1>3. \A i \in 1..len : lines[i].line.kind \notin {"segment_ended", "settled"}
  OBVIOUS
<1> HIDE DEF len
<1> DEFINE Good == {i \in 0..len : up[i] = Heard(i)}
<1>4. 0 \in Good
  <2>1. F(0) = 0
    BY UptoCounts
  <2>2. n.failures + F(0) = n.failures
    BY <1>2, <2>1
  <2> QED
    BY <1>1, <1>2, <2>2
<1>5. ASSUME NEW i \in 1..len, i - 1 \in Good PROVE i \in Good
  <2>1. i \in 0..len /\ i \in Nat \ {0} /\ i - 1 \in Nat
    BY <1>2
  <2>2. /\ F(i) = IF lines[i].line.kind = "failed" THEN F(i - 1) + 1 ELSE F(i - 1)
        /\ F(i - 1) \in Nat
    BY <2>1, UptoCounts
  <2>3. up[i - 1] = Heard(i - 1) /\ up[i] = Note(up[i - 1], lines[i].line)
    BY <1>1, <1>5
  <2> HIDE DEF F
  <2>4. CASE lines[i].line.kind = "failed"
    <3>1. Note(up[i - 1], lines[i].line) = [up[i - 1] EXCEPT !.failures = @ + 1]
      BY <2>4 DEF Note
    <3>2. [up[i - 1] EXCEPT !.failures = @ + 1]
            = [recap |-> n.recap, lost |-> n.lost,
               failures |-> n.failures + F(i - 1) + 1, dropped |-> n.dropped]
      BY <2>3
    <3>3. n.failures + F(i - 1) + 1 = n.failures + F(i)
      BY <1>2, <2>2, <2>4
    <3> QED
      BY <2>1, <2>3, <3>1, <3>2, <3>3
  <2>5. CASE lines[i].line.kind # "failed"
    <3>1. Note(up[i - 1], lines[i].line) = up[i - 1]
      BY <1>3, <2>5 DEF Note
    <3> QED
      BY <2>1, <2>2, <2>3, <2>5, <3>1
  <2> QED
    BY <2>4, <2>5
<1>6. Good = 0..len
  <2>1. Good \in SUBSET (0..len)
    OBVIOUS
  <2> HIDE DEF Good
  <2> QED
    BY <1>2, <1>4, <1>5, <2>1, Climb
<1>7. up[len] = Heard(len)
  BY <1>2, <1>6
<1> QED
  BY <1>1, <1>7, TallyIsUpto DEF len

(* Lines the p-th of which ends the segment.                               *)
LEMMA NotedEnd ==
  ASSUME NEW n \in Notes, NEW lines, Listed(lines), round \in Nat,
         NEW p \in 1..Len(lines), lines[p].line.kind = "segment_ended",
         \A i \in 1..p - 1 : lines[i].line.kind \notin {"segment_ended", "settled"},
         \A i \in p + 1..Len(lines) : lines[i].line.kind \notin {"segment_ended", "failed"}
  PROVE  Noted(n, lines)
           = [recap |-> [round |-> round, settled |-> Tally(lines, "settled"),
                         failures |-> n.failures + Tally(lines, "failed"),
                         dropped |-> n.dropped],
              lost |-> 0, failures |-> 0, dropped |-> 0]
<1> DEFINE len == Len(lines)
           F(i) == Upto(lines, "failed", i)
           S(i) == Upto(lines, "settled", i)
           Heard(i) == [recap |-> n.recap, lost |-> n.lost,
                        failures |-> n.failures + F(i), dropped |-> n.dropped]
           Told1(i) == [recap |-> [round |-> round, settled |-> S(i),
                                  failures |-> n.failures + F(i), dropped |-> n.dropped],
                       lost |-> 0, failures |-> 0, dropped |-> 0]
<1>1. PICK up : /\ up \in [0..len -> Notes] /\ up[0] = n
                /\ \A i \in 1..len : up[i] = Note(up[i - 1], lines[i].line)
                /\ Noted(n, lines) = up[len]
  BY NotedUnrolls
<1>2. /\ len \in Nat /\ p \in 1..len /\ p \in Nat
      /\ n = [recap |-> n.recap, lost |-> n.lost, failures |-> n.failures, dropped |-> n.dropped]
      /\ n.failures \in Nat
  BY DEF Listed, Notes
<1>3. /\ \A i \in 1..p - 1 : lines[i].line.kind \notin {"segment_ended", "settled"}
      /\ \A i \in p + 1..len : lines[i].line.kind \notin {"segment_ended", "failed"}
  OBVIOUS
<1> HIDE DEF len
<1> DEFINE Good == {i \in 0..len : /\ i < p => up[i] = Heard(i) /\ S(i) = 0
                                   /\ p <= i => up[i] = Told1(i)}
<1>4. 0 \in Good
  <2>1. F(0) = 0 /\ S(0) = 0
    BY UptoCounts
  <2>2. n.failures + F(0) = n.failures
    BY <1>2, <2>1
  <2>3. up[0] = Heard(0)
    BY <1>1, <1>2, <2>2
  <2>4. 0 \in 0..len /\ ~(p <= 0)
    BY <1>2
  <2> QED
    BY <2>1, <2>3, <2>4
<1>5. ASSUME NEW i \in 1..len, i - 1 \in Good PROVE i \in Good
  <2>1. i \in 0..len /\ i \in Nat \ {0} /\ i - 1 \in Nat
    BY <1>2
  <2>2. /\ F(i) = IF lines[i].line.kind = "failed" THEN F(i - 1) + 1 ELSE F(i - 1)
        /\ F(i - 1) \in Nat
    BY <2>1, UptoCounts
  <2>3. /\ S(i) = IF lines[i].line.kind = "settled" THEN S(i - 1) + 1 ELSE S(i - 1)
        /\ S(i - 1) \in Nat
    BY <2>1, UptoCounts
  <2>4. up[i] = Note(up[i - 1], lines[i].line)
    BY <1>1
  <2>5. /\ i - 1 < p => up[i - 1] = Heard(i - 1) /\ S(i - 1) = 0
        /\ p <= i - 1 => up[i - 1] = Told1(i - 1)
    BY <1>5
  <2> HIDE DEF F, S
  <2>6. CASE i < p
    <3>1. i - 1 < p /\ ~(p <= i) /\ i \in 1..p - 1
      BY <1>2, <2>1, <2>6
    <3>2. lines[i].line.kind \notin {"segment_ended", "settled"}
      BY <1>3, <3>1
    <3>3. up[i - 1] = Heard(i - 1) /\ S(i) = 0
      BY <2>3, <2>5, <3>1, <3>2
    <3>4. up[i] = Heard(i)
      <4>1. CASE lines[i].line.kind = "failed"
        <5>1. Note(up[i - 1], lines[i].line) = [up[i - 1] EXCEPT !.failures = @ + 1]
          BY <4>1 DEF Note
        <5>2. [up[i - 1] EXCEPT !.failures = @ + 1]
                = [recap |-> n.recap, lost |-> n.lost,
                   failures |-> n.failures + F(i - 1) + 1, dropped |-> n.dropped]
          BY <3>3
        <5>3. n.failures + F(i - 1) + 1 = n.failures + F(i)
          BY <1>2, <2>2, <4>1
        <5> QED
          BY <2>4, <5>1, <5>2, <5>3
      <4>2. CASE lines[i].line.kind # "failed"
        <5>1. Note(up[i - 1], lines[i].line) = up[i - 1]
          BY <3>2, <4>2 DEF Note
        <5> QED
          BY <2>2, <2>4, <3>3, <4>2, <5>1
      <4> QED
        BY <4>1, <4>2
    <3> QED
      BY <2>1, <3>1, <3>3, <3>4
  <2>7. CASE i = p
    <3>1. i - 1 < p /\ ~(i < p)
      BY <1>2, <2>7
    <3>2. up[i - 1] = Heard(i - 1) /\ S(i) = 0 /\ F(i) = F(i - 1)
      BY <2>2, <2>3, <2>5, <2>7, <3>1
    <3>3. Note(up[i - 1], lines[i].line)
            = [recap |-> [round |-> round, settled |-> 0,
                     failures |-> up[i - 1].failures, dropped |-> up[i - 1].dropped],
               lost |-> 0, failures |-> 0, dropped |-> 0]
      BY <2>7 DEF Note
    <3>4. up[i - 1].failures = n.failures + F(i) /\ up[i - 1].dropped = n.dropped
      BY <3>2
    <3>5. up[i] = Told1(i)
      BY <2>4, <3>2, <3>3, <3>4
    <3> QED
      BY <2>1, <3>1, <3>5
  <2>8. CASE p < i
    <3>1. p <= i - 1 /\ ~(i < p) /\ i \in p + 1..len
      BY <1>2, <2>1, <2>8
    <3>2. lines[i].line.kind \notin {"segment_ended", "failed"}
      BY <1>3, <3>1
    <3>3. up[i - 1] = Told1(i - 1) /\ F(i) = F(i - 1)
      BY <2>2, <2>5, <3>1, <3>2
    <3>4. CASE lines[i].line.kind = "settled"
      <4>1. Note(up[i - 1], lines[i].line) = [up[i - 1] EXCEPT !.recap.settled = @ + 1]
        BY <3>4 DEF Note
      <4>2. [up[i - 1] EXCEPT !.recap.settled = @ + 1]
              = [recap |-> [round |-> round, settled |-> S(i - 1) + 1,
                            failures |-> n.failures + F(i - 1), dropped |-> n.dropped],
                 lost |-> 0, failures |-> 0, dropped |-> 0]
        BY <3>3
      <4>3. S(i) = S(i - 1) + 1
        BY <2>3, <3>4
      <4>4. up[i] = Told1(i)
        BY <2>4, <3>3, <4>1, <4>2, <4>3
      <4> QED
        BY <2>1, <3>1, <4>4
    <3>5. CASE lines[i].line.kind # "settled"
      <4>1. Note(up[i - 1], lines[i].line) = up[i - 1]
        BY <3>2, <3>5 DEF Note
      <4>2. up[i] = Told1(i)
        BY <2>3, <2>4, <3>3, <3>5, <4>1
      <4> QED
        BY <2>1, <3>1, <4>2
    <3> QED
      BY <3>4, <3>5
  <2> QED
    BY <1>2, <2>1, <2>6, <2>7, <2>8
<1>6. Good = 0..len
  <2>1. Good \in SUBSET (0..len)
    OBVIOUS
  <2> HIDE DEF Good
  <2> QED
    BY <1>2, <1>4, <1>5, <2>1, Climb
<1>7. up[len] = Told1(len)
  <2>1. len \in Good /\ p <= len
    BY <1>2, <1>6
  <2> QED
    BY <2>1
<1> QED
  BY <1>1, <1>7, TallyIsUpto DEF len

(* Kinds that no line is of.                                               *)
LEMMA NoneTallied ==
  ASSUME NEW lines, Listed(lines), NEW kind,
         \A i \in 1..Len(lines) : lines[i].line.kind # kind
  PROVE  Tally(lines, kind) = 0
<1>1. {i \in DOMAIN lines : lines[i].line.kind = kind} = {}
  BY DEF Listed
<1> QED
  BY <1>1, FS_EmptySet DEF Tally

----------------------------------------------------------------------------
(* What a tick says, and what the bus keeps of it.                         *)

Heard(kept, kind) == Cardinality({i \in DOMAIN kept : kept[i].kind = kind})

Never(s, kinds) == \A i \in 1..Len(s) : s[i].kind \notin kinds

Ending(s, kinds) ==
  /\ 1 <= Len(s) /\ s[1].kind = "segment_ended"
  /\ \A i \in 2..Len(s) : s[i].kind \notin kinds

(* What neither of two lists has, they do not have one behind the other.   *)
LEMMA NeverBehind ==
  ASSUME NEW s, NEW t, Listed(s), Listed(t), NEW kinds, Never(s, kinds), Never(t, kinds)
  PROVE  Never(s \o t, kinds)
<1> SUFFICES ASSUME NEW i \in 1..Len(s \o t) PROVE (s \o t)[i].kind \notin kinds
  BY DEF Never
<1>1. CASE i \in 1..Len(s)
  BY <1>1, BehindElements DEF Never
<1>2. CASE \E k \in 1..Len(t) : i = Len(s) + k
  BY <1>2, BehindElements DEF Never
<1> QED
  BY <1>1, <1>2, BehindElements

(* And what begins with the end still does, whatever comes behind it.      *)
LEMMA EndingBehind ==
  ASSUME NEW s, NEW t, Listed(s), Listed(t), NEW kinds, Ending(s, kinds), Never(t, kinds)
  PROVE  Ending(s \o t, kinds)
<1>1. Len(s) \in Nat /\ Len(t) \in Nat /\ Len(s \o t) = Len(s) + Len(t) /\ 1 <= Len(s)
  BY BehindElements DEF Ending
<1>2. (s \o t)[1].kind = "segment_ended"
  <2>1. 1 \in 1..Len(s)
    BY <1>1
  <2>2. (s \o t)[1] = s[1]
    BY <2>1, BehindElements
  <2> QED
    BY <2>2 DEF Ending
<1>3. ASSUME NEW i \in 2..Len(s \o t) PROVE (s \o t)[i].kind \notin kinds
  <2>1. i \in 1..Len(s \o t)
    BY <1>1
  <2>2. CASE i \in 1..Len(s)
    <3>1. i \in 2..Len(s) /\ (s \o t)[i] = s[i]
      BY <1>1, <2>2, BehindElements
    <3> QED
      BY <3>1 DEF Ending
  <2>3. CASE \E k \in 1..Len(t) : i = Len(s) + k
    BY <2>3, BehindElements DEF Never
  <2> QED
    BY <2>1, <2>2, <2>3, BehindElements
<1> QED
  BY <1>1, <1>2, <1>3 DEF Ending

(* What is said up to q is of the tick; the end of the segment follows, if *)
(* at all.                                                                 *)
Shape(s, q, over) ==
  /\ q \in Nat /\ q <= Len(s)
  /\ \A k \in 1..q : s[k].kind \notin {"push_started", "segment_ended", "settled"}
  /\ over => /\ q < Len(s) /\ s[q + 1].kind = "segment_ended"
             /\ \A k \in q + 2..Len(s) :
                  s[k].kind \notin {"push_started", "segment_ended", "failed"}
  /\ ~over => Len(s) = q

(* That is the order a tick says its lines in.                             *)
LEMMA SaidShape ==
  ASSUME standing \subseteq Seats, NEW lines \in TickLines, NEW fallen \in SUBSET standing
  PROVE  \E q : Shape(Said(lines, fallen), q, Over(fallen))
<1> DEFINE A == {"push_started", "segment_ended", "settled"}
           B == {"push_started", "segment_ended", "failed"}
           elims == SetToSeq({Public("eliminated") : s \in fallen})
           credits == SetToSeq({Private("settled", s) : s \in standing \ fallen})
           ending == IF decided' THEN <<Public("match_ended")>> ELSE <<>>
           two == <<Public("segment_ended"), Public("recap_opened")>>
           head == lines \o elims
           tail == Ends(fallen, Over(fallen))
<1>1. Listed(lines) /\ Never(lines, A)
  <2>1. lines \in Seq({lines[i] : i \in DOMAIN lines})
    BY FeedAssumption
  <2>2. \A i \in DOMAIN lines : lines[i].kind \notin A
    BY FeedAssumption
  <2>3. DOMAIN lines = 1..Len(lines)
    BY <2>1
  <2> QED
    BY <2>1, <2>2, <2>3 DEF Listed, Never
<1>2. \A S \in SUBSET Seats : IsFiniteSet(S)
  BY FeedAssumption, FS_Subset
<1>3. Listed(elims) /\ Never(elims, A)
  <2> DEFINE f == [s \in fallen |-> Public("eliminated")]
  <2>1. IsFiniteSet({f[s] : s \in fallen})
    BY <1>2, ImageIsFinite
  <2>2. {f[s] : s \in fallen} = {Public("eliminated") : s \in fallen}
    OBVIOUS
  <2>3. Listed(elims) /\ elims \in Seq({Public("eliminated") : s \in fallen})
    BY <2>1, <2>2, WrittenOut
  <2>4. \A i \in 1..Len(elims) : elims[i] = Public("eliminated")
    <3> HIDE DEF elims
    <3> QED
      BY <2>3
  <2>5. Public("eliminated").kind = "eliminated"
    BY DEF Public
  <2> HIDE DEF elims
  <2> QED
    BY <2>3, <2>4, <2>5 DEF Never
<1>4. Listed(credits) /\ Never(credits, B)
  <2> DEFINE f == [s \in standing \ fallen |-> Private("settled", s)]
             all == {Private("settled", s) : s \in standing \ fallen}
  <2>1. IsFiniteSet({f[s] : s \in standing \ fallen})
    BY <1>2, ImageIsFinite
  <2>2. {f[s] : s \in standing \ fallen} = all
    OBVIOUS
  <2>3. Listed(credits) /\ credits \in Seq(all)
    BY <2>1, <2>2, WrittenOut
  <2>4. \A x \in all : x.kind = "settled"
    BY DEF Private
  <2>5. \A i \in 1..Len(credits) : credits[i] \in all
    <3> HIDE DEF credits, all
    <3> QED
      BY <2>3
  <2> HIDE DEF credits, all
  <2> QED
    BY <2>3, <2>4, <2>5 DEF Never
<1>5. Listed(two) /\ Ending(two, B)
  <2>1. two \in Seq({Public("segment_ended"), Public("recap_opened")})
    OBVIOUS
  <2>2. Len(two) = 2 /\ two[1].kind = "segment_ended" /\ two[2].kind = "recap_opened"
    BY DEF Public
  <2>3. \A i \in 2..2 : i = 2
    OBVIOUS
  <2> HIDE DEF two
  <2> QED
    BY <2>1, <2>2, <2>3 DEF Listed, Ending
<1>6. Listed(ending) /\ Never(ending, B)
  <2>1. CASE decided'
    <3>1. ending = <<Public("match_ended")>> /\ ending \in Seq({Public("match_ended")})
      BY <2>1
    <3>2. Len(ending) = 1 /\ ending[1].kind = "match_ended"
      BY <3>1 DEF Public
    <3>3. \A i \in 1..1 : i = 1
      OBVIOUS
    <3>4. Listed(ending)
      BY <3>1 DEF Listed
    <3> HIDE DEF ending
    <3> QED
      BY <3>2, <3>3, <3>4 DEF Never
  <2>2. CASE ~decided'
    <3>1. ending = <<>> /\ ending \in Seq({}) /\ Len(ending) = 0
      BY <2>2
    <3> HIDE DEF ending
    <3> QED
      BY <3>1 DEF Listed, Never
  <2> QED
    BY <2>1, <2>2
<1>7. Over(fallen) => Listed(tail) /\ Ending(tail, B)
  <2> SUFFICES ASSUME Over(fallen) PROVE Listed(tail) /\ Ending(tail, B)
    OBVIOUS
  <2>1. tail = two \o credits \o ending
    BY DEF Ends
  <2> HIDE DEF two, credits, ending, tail, B
  <2>2. Listed(two \o credits) /\ Ending(two \o credits, B)
    BY <1>4, <1>5, BehindListed, EndingBehind
  <2>3. Listed((two \o credits) \o ending) /\ Ending((two \o credits) \o ending, B)
    BY <1>6, <2>2, BehindListed, EndingBehind
  <2> QED
    BY <2>1, <2>3
<1>8. Listed(head) /\ Never(head, A)
  <2> HIDE DEF elims, A
  <2> QED
    BY <1>1, <1>3, BehindListed, NeverBehind
<1>9. ~Over(fallen) => tail = <<>> /\ Listed(tail)
  <2>1. <<>> \in Seq({})
    OBVIOUS
  <2> QED
    BY <2>1 DEF Ends, Listed
<1>10. Said(lines, fallen) = head \o tail /\ Listed(tail)
  BY <1>7, <1>9 DEF Said
<1> HIDE DEF head, tail
<1>11. /\ Len(head) \in Nat /\ Len(tail) \in Nat /\ Len(head \o tail) = Len(head) + Len(tail)
       /\ \A i \in 1..Len(head) : (head \o tail)[i] = head[i]
       /\ \A i \in 1..Len(tail) : (head \o tail)[Len(head) + i] = tail[i]
  BY <1>8, <1>10, BehindElements
<1>12. \A k \in 1..Len(head) : (head \o tail)[k].kind \notin A
  BY <1>8, <1>11 DEF Never
<1>13. ASSUME Over(fallen)
       PROVE  /\ Len(head) < Len(head \o tail)
              /\ (head \o tail)[Len(head) + 1].kind = "segment_ended"
              /\ \A k \in Len(head) + 2..Len(head \o tail) : (head \o tail)[k].kind \notin B
  <2>1. /\ 1 <= Len(tail) /\ tail[1].kind = "segment_ended"
        /\ \A i \in 2..Len(tail) : tail[i].kind \notin B
    BY <1>7, <1>13 DEF Ending
  <2>2. 1 \in 1..Len(tail)
    BY <1>11, <2>1
  <2>3. (head \o tail)[Len(head) + 1] = tail[1]
    BY <1>11, <2>2
  <2>4. ASSUME NEW k \in Len(head) + 2..Len(head \o tail)
        PROVE  (head \o tail)[k].kind \notin B
    <3>1. /\ k - Len(head) \in 2..Len(tail) /\ k - Len(head) \in 1..Len(tail)
          /\ Len(head) + (k - Len(head)) = k
      BY <1>11
    <3>2. (head \o tail)[k] = tail[k - Len(head)]
      BY <1>11, <3>1
    <3> QED
      BY <2>1, <3>1, <3>2
  <2> QED
    BY <1>11, <2>1, <2>3, <2>4
<1>14. ~Over(fallen) => Len(head \o tail) = Len(head)
  <2> SUFFICES ASSUME ~Over(fallen) PROVE Len(head \o tail) = Len(head)
    OBVIOUS
  <2>1. Len(tail) = 0
    BY <1>9
  <2> QED
    BY <1>11, <2>1
<1>15. Shape(head \o tail, Len(head), Over(fallen))
  BY <1>11, <1>12, <1>13, <1>14 DEF Shape
<1> QED
  BY <1>10, <1>15

Books ==
  /\ phase \in {"lull", "push", "recap", "ended"}
  /\ tick \in Nat /\ round \in Nat \ {0}
  /\ sealed # NoSave => sealed.tick \in Nat /\ sealed.round \in Nat \ {0}
  /\ dropped \in Nat /\ busDropped = dropped
  /\ notes \in Notes
  /\ truth \in [failed : Nat, lost : Nat, settled : Nat, end : BOOLEAN]

Ended(lines) == \E i \in DOMAIN lines : lines[i].line.kind = "segment_ended"

(* What a tick leaves: the lines the bus kept, and how many it lost of     *)
(* what followed them.                                                     *)
Drained(kept, lost, over, q) ==
  /\ Listed(kept) /\ lost \in Nat /\ q \in Nat /\ over \in BOOLEAN
  /\ \A k \in 1..Len(kept) :
       k <= q => kept[k].kind \notin {"push_started", "segment_ended", "settled"}
  /\ over /\ q < Len(kept) =>
       /\ kept[q + 1].kind = "segment_ended"
       /\ \A k \in 1..Len(kept) :
            q + 1 < k => kept[k].kind \notin {"push_started", "segment_ended", "failed"}
  /\ over /\ Len(kept) <= q => lost > 0
  /\ ~over => Len(kept) <= q
  /\ phase' = IF over THEN "recap" ELSE "push"
  /\ tick' = tick + 1 /\ dropped' = dropped + lost /\ busDropped' = dropped + lost
  /\ notes' = Noted(CountDrops(notes, lost, Ended(At(tick + 1, kept)), phase'),
                    At(tick + 1, kept))
  /\ feed' = Published(feed, anchor, At(tick + 1, kept))
  /\ truth' = [failed  |-> truth.failed + Heard(kept, "failed"),
               lost    |-> truth.lost + lost,
               settled |-> truth.settled + Heard(kept, "settled"),
               end     |-> Heard(kept, "segment_ended") = 1]

(* And so it leaves a cut of it: what a full bus drops is the last of it.  *)
LEMMA StepDrains ==
  ASSUME Lists, Books, Step
  PROVE  \E kept, lost, over, q : Drained(kept, lost, over, q)
<1>0. PICK lines \in TickLines, fallen \in SUBSET standing :
       LET left == standing \ fallen
           over == segLeft = 1 \/ Cardinality(left) < 2
           said == lines \o SetToSeq({Public("eliminated") : s \in fallen})
                         \o Ends(fallen, over)
           e == Emit(said, tick + 1)
           kept == SubSeq(said, 1, Len(said) - (e.dropped - dropped))
           Count(kind) == Cardinality({i \in DOMAIN kept : kept[i].kind = kind})
       IN /\ standing' = left
          /\ tick' = tick + 1 /\ segLeft' = segLeft - 1
          /\ phase' = IF over THEN "recap" ELSE "push"
          /\ decided' = (over /\ (Cardinality(left) < 2 \/ round = RoundLimit))
          /\ Absorb(e, feed, anchor, phase')
          /\ truth' = [failed  |-> truth.failed + Count("failed"),
                       lost    |-> truth.lost + e.dropped - dropped,
                       settled |-> truth.settled + Count("settled"),
                       end     |-> Count("segment_ended") = 1]
  BY DEF Step
<1>1. LET said == Said(lines, fallen)
          e == Emit(said, tick + 1)
          kept == SubSeq(said, 1, Len(said) - (e.dropped - dropped))
      IN  /\ tick' = tick + 1
          /\ phase' = IF Over(fallen) THEN "recap" ELSE "push"
          /\ Absorb(e, feed, anchor, phase')
          /\ truth' = [failed  |-> truth.failed + Heard(kept, "failed"),
                       lost    |-> truth.lost + e.dropped - dropped,
                       settled |-> truth.settled + Heard(kept, "settled"),
                       end     |-> Heard(kept, "segment_ended") = 1]
  BY <1>0 DEF Said, Over, Heard
<1> DEFINE said == Said(lines, fallen)
           room == Fewer(Len(said), Capacity)
           kept == SubSeq(said, 1, room)
           lost == Len(said) - room
           e == Emit(said, tick + 1)
<1>2. bus = <<>> /\ standing \subseteq Seats
  BY DEF Lists, Step
<1>3. Listed(said)
  BY <1>2, SaidListed
<1>4. PICK q : Shape(said, q, Over(fallen))
  BY <1>2, SaidShape
<1>5. /\ room \in Nat /\ room <= Len(said) /\ room <= Capacity
      /\ e = [waiting |-> At(tick + 1, kept), dropped |-> dropped + Len(said) - room]
  <2> HIDE DEF said
  <2> QED
    BY <1>2, <1>3, EmitFills
<1>6. Len(said) \in Nat /\ Capacity \in Nat
  BY <1>3, FeedAssumption DEF Listed
<1>7. dropped \in Nat /\ busDropped = dropped /\ truth.lost \in Nat
  BY DEF Books
<1>8. room < Len(said) => room = Capacity
  <2> HIDE DEF said
  <2> QED
    BY <1>6 DEF Fewer
<1>9. Listed(kept) /\ Len(kept) = room /\ \A i \in 1..room : kept[i] = said[i]
  <2> HIDE DEF said, room
  <2> QED
    BY <1>3, <1>5, CutListed
<1> HIDE DEF said, room
<1>10. /\ e.dropped = dropped + lost /\ lost \in Nat
       /\ e.waiting = At(tick + 1, kept)
       /\ Len(said) - (e.dropped - dropped) = room
       /\ truth.lost + e.dropped - dropped = truth.lost + lost
       /\ e.dropped - busDropped = lost
  <2>1. e.dropped = dropped + Len(said) - room /\ e.waiting = At(tick + 1, kept)
    BY <1>5
  <2> QED
    BY <1>5, <1>6, <1>7, <2>1
<1> HIDE DEF e
<1>11. /\ tick' = tick + 1
       /\ phase' = IF Over(fallen) THEN "recap" ELSE "push"
       /\ Absorb(e, feed, anchor, phase')
       /\ truth' = [failed  |-> truth.failed + Heard(kept, "failed"),
                         lost    |-> truth.lost + lost,
                         settled |-> truth.settled + Heard(kept, "settled"),
                         end     |-> Heard(kept, "segment_ended") = 1]
  BY <1>1, <1>10 DEF e, said
<1> HIDE DEF kept, lost
<1>12. /\ dropped' = dropped + lost /\ busDropped' = dropped + lost
       /\ notes' = Noted(CountDrops(notes, lost, Ended(At(tick + 1, kept)), phase'),
                         At(tick + 1, kept))
       /\ feed' = Published(feed, anchor, At(tick + 1, kept))
  BY <1>10, <1>11 DEF Absorb, Ended
<1>13. /\ q \in Nat /\ q <= Len(said)
       /\ \A k \in 1..q : said[k].kind \notin {"push_started", "segment_ended", "settled"}
       /\ Over(fallen) =>
            /\ q < Len(said) /\ said[q + 1].kind = "segment_ended"
            /\ \A k \in q + 2..Len(said) :
                  said[k].kind \notin {"push_started", "segment_ended", "failed"}
       /\ ~Over(fallen) => Len(said) = q
  BY <1>4 DEF Shape
<1>14. \A k \in 1..Len(kept) :
         k <= q => kept[k].kind \notin {"push_started", "segment_ended", "settled"}
  <2> SUFFICES ASSUME NEW k \in 1..Len(kept), k <= q
               PROVE  kept[k].kind \notin {"push_started", "segment_ended", "settled"}
    OBVIOUS
  <2>1. k \in 1..q /\ kept[k] = said[k]
    BY <1>5, <1>9, <1>13
  <2> QED
    BY <1>13, <2>1
<1>15. ASSUME Over(fallen), q < Len(kept)
       PROVE  /\ kept[q + 1].kind = "segment_ended"
              /\ \A k \in 1..Len(kept) :
                   q + 1 < k => kept[k].kind \notin {"push_started", "segment_ended", "failed"}
  <2>1. q + 1 \in 1..room
    BY <1>5, <1>9, <1>13, <1>15
  <2>2. ASSUME NEW k \in 1..Len(kept), q + 1 < k
        PROVE  kept[k].kind \notin {"push_started", "segment_ended", "failed"}
    <3>1. k \in q + 2..Len(said) /\ k \in 1..room
      BY <1>5, <1>6, <1>9, <1>13, <2>2
    <3> QED
      BY <1>9, <1>13, <1>15, <3>1
  <2> QED
    BY <1>9, <1>13, <1>15, <2>1, <2>2
<1>16. Over(fallen) /\ Len(kept) <= q => lost > 0
  BY <1>5, <1>6, <1>9, <1>13 DEF lost
<1>17. ~Over(fallen) => Len(kept) <= q
  BY <1>5, <1>6, <1>9, <1>13
<1>18. Over(fallen) \in BOOLEAN
  BY DEF Over
<1>19. Drained(kept, lost, Over(fallen), q)
  BY <1>9, <1>10, <1>11, <1>12, <1>13, <1>14, <1>15, <1>16, <1>17, <1>18 DEF Drained
<1> QED
  BY <1>19

----------------------------------------------------------------------------
(* The record, and the segment's feed.                                     *)

Recorded ==
  /\ phase \in {"lull", "push"} => notes.recap.round < round
  /\ phase = "lull" => notes.dropped = 0
  /\ phase = "push" =>
       /\ notes.dropped = truth.lost /\ notes.failures >= truth.failed
       /\ truth.settled = 0
  /\ phase \in {"recap", "ended"} => notes.dropped = 0 /\ notes.recap.round <= round
  /\ RecapTellsItsSegment

OnTheFeed ==
  phase # "lull" =>
    /\ anchor \in Nat /\ anchor <= tick
    /\ \A i \in 1..Len(feed) : feed[i].at \in 0..tick - anchor
    /\ Tally(feed, "push_started") = 1
    /\ Tally(feed, "failed") = truth.failed
    /\ Tally(feed, "settled") = truth.settled

KeepInv == Lists /\ Books /\ Recorded /\ OnTheFeed

(* The kinds of the lines a bus waits with are those of the lines emitted. *)
LEMMA TallyAt ==
  ASSUME NEW kept, Listed(kept), NEW t, NEW kind
  PROVE  /\ Listed(At(t, kept)) /\ Len(At(t, kept)) = Len(kept)
         /\ \A i \in 1..Len(kept) :
              At(t, kept)[i].line = kept[i] /\ At(t, kept)[i].tick = t
         /\ Tally(At(t, kept), kind) = Heard(kept, kind) /\ Heard(kept, kind) \in Nat
<1>1. /\ Listed(At(t, kept)) /\ Len(At(t, kept)) = Len(kept)
      /\ \A i \in 1..Len(kept) : At(t, kept)[i] = [line |-> kept[i], tick |-> t]
  BY AtListed
<1>2. DOMAIN kept = 1..Len(kept) /\ DOMAIN At(t, kept) = 1..Len(kept)
  BY <1>1 DEF Listed
<1>3. ASSUME NEW i \in 1..Len(kept)
      PROVE  At(t, kept)[i].line = kept[i] /\ At(t, kept)[i].tick = t
  <2>1. At(t, kept)[i] = [line |-> kept[i], tick |-> t]
    BY <1>1
  <2> QED
    BY <2>1
<1>4. {i \in DOMAIN At(t, kept) : At(t, kept)[i].line.kind = kind}
        = {i \in DOMAIN kept : kept[i].kind = kind}
  BY <1>2, <1>3
<1>5. Tally(At(t, kept), kind) = Heard(kept, kind)
  BY <1>4 DEF Tally, Heard
<1>6. Tally(At(t, kept), kind) \in Nat
  BY <1>1, TallyIsUpto
<1> QED
  BY <1>1, <1>3, <1>5, <1>6

(* The record as count_drops refuses it.                                   *)
LEMMA RecordDropped ==
  ASSUME NEW n \in Notes, NEW lost
  PROVE  [n EXCEPT !.recap = NoRecap, !.lost = lost, !.dropped = 0]
           = [recap |-> NoRecap, lost |-> lost, failures |-> n.failures, dropped |-> 0]
<1> DEFINE f == [n EXCEPT !.recap = NoRecap, !.lost = lost, !.dropped = 0]
<1>1. n = [i \in {"recap", "lost", "failures", "dropped"} |-> n[i]]
  BY DEF Notes
<1>2. DOMAIN n = {"recap", "lost", "failures", "dropped"}
  BY <1>1
<1>3. f = [i \in {"recap", "lost", "failures", "dropped"} |-> f[i]]
  BY <1>1, <1>2
<1>4. f.recap = NoRecap /\ f.lost = lost /\ f.failures = n.failures /\ f.dropped = 0
  BY <1>2
<1> HIDE DEF f
<1>5. f = [recap |-> NoRecap, lost |-> lost, failures |-> n.failures, dropped |-> 0]
  BY <1>3, <1>4
<1> QED
  BY <1>5 DEF f

(* Kinds that no line is of are not heard.                                 *)
LEMMA NoneHeard ==
  ASSUME NEW kept, Listed(kept), NEW kind, \A i \in 1..Len(kept) : kept[i].kind # kind
  PROVE  Heard(kept, kind) = 0
<1>1. {i \in DOMAIN kept : kept[i].kind = kind} = {}
  BY DEF Listed
<1> QED
  BY <1>1, FS_EmptySet DEF Heard

(* A kind that one line is of is heard once.                               *)
LEMMA OneHeard ==
  ASSUME NEW kept, Listed(kept), NEW kind, NEW p \in 1..Len(kept), kept[p].kind = kind,
         \A i \in 1..Len(kept) : i # p => kept[i].kind # kind
  PROVE  Heard(kept, kind) = 1
<1>1. {i \in DOMAIN kept : kept[i].kind = kind} = {p}
  BY DEF Listed
<1> QED
  BY <1>1, FS_Singleton DEF Heard

(* A tick publishes all that the bus kept of it.                           *)
LEMMA StepPublishes ==
  ASSUME KeepInv, Step, NEW kept, NEW lost, NEW over, NEW q, Drained(kept, lost, over, q)
  PROVE  OnTheFeed'
<1> DEFINE lines == At(tick + 1, kept)
           d == tick + 1 - anchor
<1>1. /\ anchor \in Nat /\ anchor <= tick /\ tick \in Nat
      /\ \A i \in 1..Len(feed) : feed[i].at \in 0..tick - anchor
      /\ Tally(feed, "push_started") = 1
      /\ Tally(feed, "failed") = truth.failed
      /\ Tally(feed, "settled") = truth.settled
      /\ Listed(feed)
  BY DEF Step, KeepInv, OnTheFeed, Lists, Books
<1>2. /\ Listed(kept) /\ Listed(lines) /\ Len(lines) = Len(kept)
      /\ \A i \in 1..Len(kept) : lines[i].tick = tick + 1
  <2>1. Listed(kept)
    BY DEF Drained
  <2>2. /\ Listed(At(tick + 1, kept)) /\ Len(At(tick + 1, kept)) = Len(kept)
        /\ \A i \in 1..Len(kept) : At(tick + 1, kept)[i].tick = tick + 1
    BY <2>1, TimedAt
  <2> QED
    BY <2>1, <2>2
<1>3. /\ d \in Nat /\ tick - anchor <= d /\ tick - anchor \in Nat
  BY <1>1
<1>4. \A i \in 1..Len(lines) : lines[i].tick - anchor = d
  <2> SUFFICES ASSUME NEW i \in 1..Len(lines) PROVE lines[i].tick - anchor = d
    OBVIOUS
  <2>1. lines[i].tick = tick + 1
    BY <1>2
  <2> QED
    BY <1>1, <2>1
<1> HIDE DEF lines, d
<1>5. \A k \in 1..Len(feed) : feed[k].at \in Nat /\ feed[k].at <= d
  BY <1>1, <1>3
<1>6. feed' = Published(feed, anchor, lines)
  BY DEF Drained, lines
<1>7. Joined(feed', feed, lines, d)
  BY <1>1, <1>2, <1>3, <1>4, <1>5, <1>6, PublishedAtOnce
<1>8. ASSUME NEW kind
      PROVE  Tally(feed', kind) = Tally(feed, kind) + Heard(kept, kind)
               /\ Heard(kept, kind) \in Nat
  <2>1. Tally(feed', kind) = Tally(feed, kind) + Tally(lines, kind)
    BY <1>1, <1>2, <1>7, TallyJoined
  <2> QED
    BY <1>2, <2>1, TallyAt DEF lines
<1>9. Heard(kept, "push_started") = 0
  <2> SUFFICES ASSUME NEW i \in 1..Len(kept) PROVE kept[i].kind # "push_started"
    BY <1>2, NoneHeard
  <2>0. q \in Nat /\ Len(kept) \in Nat /\ over \in BOOLEAN
    BY <1>2 DEF Drained, Listed
  <2>1. CASE i <= q
    BY <2>1 DEF Drained
  <2>2. CASE i = q + 1
    <3>1. over
      BY <2>0, <2>2 DEF Drained
    <3>2. kept[q + 1].kind = "segment_ended"
      BY <2>0, <2>2, <3>1 DEF Drained
    <3> QED
      BY <2>2, <3>2
  <2>3. CASE q + 1 < i
    <3>1. over /\ q < Len(kept)
      BY <2>0, <2>3 DEF Drained
    <3> QED
      BY <2>3, <3>1 DEF Drained
  <2> QED
    BY <2>0, <2>1, <2>2, <2>3
<1>10. Tally(feed', "push_started") = 1
  BY <1>1, <1>8, <1>9
<1>11. Tally(feed', "failed") = truth'.failed /\ Tally(feed', "settled") = truth'.settled
  <2>1. truth'.failed = truth.failed + Heard(kept, "failed")
        /\ truth'.settled = truth.settled + Heard(kept, "settled")
    BY DEF Drained
  <2> QED
    BY <1>1, <1>8, <2>1
<1>12. anchor' = anchor /\ tick' = tick + 1 /\ tick' - anchor' = d
  <2>1. anchor' = anchor
    BY DEF Step
  <2>2. tick' = tick + 1
    BY DEF Drained
  <2> QED
    BY <1>1, <2>1, <2>2 DEF d
<1>13. \A i \in 1..Len(feed') : feed'[i].at \in 0..d
  <2> SUFFICES ASSUME NEW i \in 1..Len(feed') PROVE feed'[i].at \in 0..d
    OBVIOUS
  <2>1. /\ Len(feed') = Len(feed) + Len(lines) /\ Len(feed) \in Nat /\ Len(lines) \in Nat
        /\ \A k \in 1..Len(feed) : feed'[k] = feed[k]
        /\ \A k \in 1..Len(lines) : feed'[Len(feed) + k] = [line |-> lines[k].line, at |-> d]
    BY <1>1, <1>2, <1>7 DEF Joined, Listed
  <2>2. CASE i <= Len(feed)
    <3>1. i \in 1..Len(feed) /\ feed'[i] = feed[i]
      BY <2>1, <2>2
    <3> QED
      BY <1>3, <1>5, <3>1
  <2>3. CASE ~(i <= Len(feed))
    <3>1. PICK k \in 1..Len(lines) : i = Len(feed) + k
      <4>1. i - Len(feed) \in 1..Len(lines) /\ i = Len(feed) + (i - Len(feed))
        BY <2>1, <2>3
      <4> QED
        BY <4>1
    <3>2. feed'[i] = [line |-> lines[k].line, at |-> d]
      BY <2>1, <3>1
    <3> QED
      BY <1>3, <3>2
  <2> QED
    BY <2>2, <2>3
<1> QED
  BY <1>1, <1>10, <1>11, <1>12, <1>13 DEF OnTheFeed, Tally

(* And the record tells them, or that it does not.                         *)
LEMMA StepRecords ==
  ASSUME KeepInv, Step, NEW kept, NEW lost, NEW over, NEW q, Drained(kept, lost, over, q)
  PROVE  Books' /\ Recorded'
<1> DEFINE lines == At(tick + 1, kept)
           F == Heard(kept, "failed")
           S == Heard(kept, "settled")
<1>1. /\ tick \in Nat /\ round \in Nat \ {0} /\ notes \in Notes
      /\ dropped \in Nat /\ busDropped = dropped
      /\ truth \in [failed : Nat, lost : Nat, settled : Nat, end : BOOLEAN]
      /\ notes.dropped = truth.lost /\ notes.failures >= truth.failed
      /\ truth.settled = 0 /\ notes.recap.round < round
  BY DEF Step, KeepInv, Books, Recorded
<1>2. /\ notes = [recap |-> notes.recap, lost |-> notes.lost,
                  failures |-> notes.failures, dropped |-> notes.dropped]
      /\ notes.recap \in Records /\ notes.lost \in Nat /\ notes.failures \in Nat
      /\ notes.dropped \in Nat
  BY <1>1 DEF Notes
<1>3. /\ Listed(kept) /\ lost \in Nat /\ q \in Nat /\ over \in BOOLEAN
      /\ Len(kept) \in Nat
  BY DEF Drained, Listed
<1>4. /\ Listed(lines) /\ Len(lines) = Len(kept) /\ DOMAIN lines = 1..Len(kept)
      /\ \A i \in 1..Len(kept) : lines[i].line.kind = kept[i].kind
      /\ Tally(lines, "failed") = F /\ Tally(lines, "settled") = S
      /\ F \in Nat /\ S \in Nat
  <2>1. /\ Listed(lines) /\ Len(lines) = Len(kept)
        /\ \A i \in 1..Len(kept) : lines[i].line = kept[i]
    BY <1>3, TallyAt
  <2>2. \A i \in 1..Len(kept) : lines[i].line.kind = kept[i].kind
    <3> HIDE DEF lines
    <3> QED
      BY <2>1
  <2>3. DOMAIN lines = 1..Len(lines)
    <3> HIDE DEF lines
    <3> QED
      BY <2>1 DEF Listed
  <2>4. Tally(lines, "failed") = F /\ Tally(lines, "settled") = S /\ F \in Nat /\ S \in Nat
    BY <1>3, TallyAt
  <2> QED
    BY <2>1, <2>2, <2>3, <2>4
<1>5. /\ tick' = tick + 1 /\ dropped' = dropped + lost /\ busDropped' = dropped + lost
      /\ notes' = Noted(CountDrops(notes, lost, Ended(lines), phase'), lines)
      /\ phase' = IF over THEN "recap" ELSE "push"
      /\ truth' = [failed |-> truth.failed + F, lost |-> truth.lost + lost,
                   settled |-> truth.settled + S,
                   end |-> Heard(kept, "segment_ended") = 1]
  BY DEF Drained
<1>6. /\ \A k \in 1..Len(kept) :
           k <= q => kept[k].kind \notin {"push_started", "segment_ended", "settled"}
      /\ over /\ q < Len(kept) =>
           /\ kept[q + 1].kind = "segment_ended"
           /\ \A k \in 1..Len(kept) :
                q + 1 < k => kept[k].kind \notin {"push_started", "segment_ended", "failed"}
      /\ over /\ Len(kept) <= q => lost > 0
      /\ ~over => Len(kept) <= q
  BY DEF Drained
<1>7. round' = round /\ sealed' = sealed
  BY DEF Step
<1> HIDE DEF lines, F, S
<1>8. /\ truth'.failed = truth.failed + F /\ truth'.lost = truth.lost + lost
      /\ truth'.settled = S /\ truth'.end = (Heard(kept, "segment_ended") = 1)
      /\ truth' \in [failed : Nat, lost : Nat, settled : Nat, end : BOOLEAN]
  <2>1. truth.failed \in Nat /\ truth.lost \in Nat /\ truth.settled = 0
    BY <1>1
  <2>2. truth.failed + F \in Nat /\ truth.lost + lost \in Nat /\ truth.settled + S = S
    BY <1>3, <1>4, <2>1
  <2> QED
    BY <1>4, <1>5, <2>2
<1> DEFINE counted == [recap |-> notes.recap, lost |-> notes.lost,
                       failures |-> notes.failures, dropped |-> notes.dropped + lost]
<1>9. notes.dropped + lost \in Nat /\ counted \in Notes
  BY <1>2, <1>3 DEF Notes
<1>10. [notes EXCEPT !.dropped = @ + lost] = counted
  BY <1>2
\* the end of the segment was kept
<1>11. ASSUME over, q < Len(kept) PROVE Books' /\ Recorded'
  <2> DEFINE p == q + 1
             record == [round |-> round, settled |-> S,
                        failures |-> notes.failures + F, dropped |-> notes.dropped + lost]
  <2>1. p \in 1..Len(kept) /\ kept[p].kind = "segment_ended"
    BY <1>3, <1>6, <1>11
  <2>2. \A i \in 1..p - 1 : kept[i].kind \notin {"segment_ended", "settled"}
    <3> SUFFICES ASSUME NEW i \in 1..p - 1
                 PROVE  kept[i].kind \notin {"segment_ended", "settled"}
      OBVIOUS
    <3>1. i \in 1..Len(kept) /\ i <= q
      BY <1>3, <2>1
    <3> QED
      BY <1>6, <3>1
  <2>3. \A i \in p + 1..Len(kept) : kept[i].kind \notin {"segment_ended", "failed"}
    <3> SUFFICES ASSUME NEW i \in p + 1..Len(kept)
                 PROVE  kept[i].kind \notin {"segment_ended", "failed"}
      OBVIOUS
    <3>1. i \in 1..Len(kept) /\ q + 1 < i
      BY <1>3, <2>1
    <3> QED
      BY <1>6, <1>11, <3>1
  <2>4. Ended(lines)
    BY <1>4, <2>1 DEF Ended
  <2>5. CountDrops(notes, lost, Ended(lines), phase') = counted
    BY <1>10, <2>4 DEF CountDrops
  <2> HIDE DEF p
  <2>6. p \in 1..Len(lines) /\ p \in Nat
    BY <1>3, <1>4, <2>1
  <2>7. /\ lines[p].line.kind = "segment_ended"
        /\ \A i \in 1..p - 1 : lines[i].line.kind \notin {"segment_ended", "settled"}
        /\ \A i \in p + 1..Len(lines) : lines[i].line.kind \notin {"segment_ended", "failed"}
    <3>1. \A i \in 1..p - 1 : i \in 1..Len(kept)
      BY <1>3, <2>1
    <3>2. \A i \in p + 1..Len(kept) : i \in 1..Len(kept)
      BY <1>3, <2>1
    <3> QED
      BY <1>4, <2>1, <2>2, <2>3, <3>1, <3>2
  <2>8. Noted(counted, lines)
          = [recap |-> [round |-> round, settled |-> Tally(lines, "settled"),
                        failures |-> counted.failures + Tally(lines, "failed"),
                        dropped |-> counted.dropped],
             lost |-> 0, failures |-> 0, dropped |-> 0]
    <3> HIDE DEF counted
    <3> QED
      BY <1>1, <1>4, <1>9, <2>6, <2>7, NotedEnd
  <2>9. notes' = [recap |-> record, lost |-> 0, failures |-> 0, dropped |-> 0]
    BY <1>4, <1>5, <2>5, <2>8
  <2>10. record \in Records /\ notes.failures + F \in Nat
    BY <1>1, <1>2, <1>3, <1>4 DEF Records
  <2>11. notes' \in Notes
    <3> HIDE DEF record
    <3> QED
      BY <2>9, <2>10 DEF Notes
  <2>12. Heard(kept, "segment_ended") = 1
    <3> SUFFICES ASSUME NEW i \in 1..Len(kept), i # p PROVE kept[i].kind # "segment_ended"
      BY <1>3, <2>1, OneHeard
    <3>1. i \in 1..p - 1 \/ i \in p + 1..Len(kept)
      BY <1>3, <2>6
    <3> QED
      BY <2>2, <2>3, <3>1
  <2>13. truth'.end = TRUE /\ phase' = "recap"
    BY <1>5, <1>8, <1>11, <2>12
  <2>14. Books'
    BY <1>1, <1>3, <1>5, <1>7, <1>8, <2>11, <2>13 DEF Books, KeepInv
  <2>15. /\ notes'.recap = record /\ notes'.lost = 0 /\ notes'.dropped = 0
         /\ record.round = round /\ record.settled = S
         /\ record.failures = notes.failures + F /\ record.dropped = notes.dropped + lost
    BY <2>9
  <2>16. notes.failures + F >= truth.failed + F
    BY <1>1, <1>2, <1>4
  <2>17. RecapTellsItsSegment'
    BY <1>1, <1>7, <1>8, <2>13, <2>15, <2>16 DEF RecapTellsItsSegment
  <2>18. Recorded'
    BY <1>1, <1>7, <2>13, <2>15, <2>17 DEF Recorded
  <2> QED
    BY <2>14, <2>18
\* it was not, or there is none
<1>12. ASSUME Len(kept) <= q PROVE Books' /\ Recorded'
  <2>1. \A i \in 1..Len(kept) : kept[i].kind \notin {"push_started", "segment_ended", "settled"}
    BY <1>3, <1>6, <1>12
  <2>2. ~Ended(lines)
    BY <1>4, <2>1 DEF Ended
  <2>3. Heard(kept, "segment_ended") = 0 /\ S = 0
    BY <1>3, <2>1, NoneHeard DEF S
  <2>4. truth'.end = FALSE /\ truth'.settled = 0
    BY <1>8, <2>3
  <2>5. \A i \in 1..Len(lines) : lines[i].line.kind \notin {"segment_ended", "settled"}
    BY <1>4, <2>1
  <2>6. ASSUME NEW n \in Notes
        PROVE  Noted(n, lines) = [recap |-> n.recap, lost |-> n.lost,
                                  failures |-> n.failures + F, dropped |-> n.dropped]
    <3>1. Noted(n, lines) = [recap |-> n.recap, lost |-> n.lost,
                             failures |-> n.failures + Tally(lines, "failed"),
                             dropped |-> n.dropped]
      BY <1>1, <1>4, <2>5, NotedFailures
    <3> QED
      BY <1>4, <3>1
  <2>7. CASE ~over
    <3>1. phase' = "push"
      BY <1>5, <2>7
    <3>2. CountDrops(notes, lost, Ended(lines), phase') = counted
      BY <1>10, <3>1 DEF CountDrops
    <3>3. notes' = [recap |-> notes.recap, lost |-> notes.lost,
                    failures |-> notes.failures + F, dropped |-> notes.dropped + lost]
      <4>1. notes' = Noted(counted, lines)
        BY <1>5, <3>2
      <4>2. Noted(counted, lines) = [recap |-> counted.recap, lost |-> counted.lost,
                                  failures |-> counted.failures + F, dropped |-> counted.dropped]
        <5> HIDE DEF counted
        <5> QED
          BY <1>9, <2>6
      <4> QED
        BY <4>1, <4>2
    <3>4. notes.failures + F \in Nat /\ notes.failures + F >= truth.failed + F
      BY <1>1, <1>2, <1>4
    <3>5. notes' \in Notes
      BY <1>2, <1>9, <3>3, <3>4 DEF Notes
    <3>6. /\ notes'.recap = notes.recap /\ notes'.failures = notes.failures + F
          /\ notes'.dropped = notes.dropped + lost
      BY <3>3
    <3>7. Books'
      BY <1>1, <1>3, <1>5, <1>7, <1>8, <3>1, <3>5 DEF Books, KeepInv
    <3>8. RecapTellsItsSegment'
      BY <3>1 DEF RecapTellsItsSegment
    <3>9. Recorded'
      BY <1>1, <1>7, <1>8, <2>4, <3>1, <3>4, <3>6, <3>8 DEF Recorded
    <3> QED
      BY <3>7, <3>9
  <2>8. CASE over
    <3>1. phase' = "recap" /\ lost > 0
      BY <1>5, <1>6, <1>12, <2>8
    <3> DEFINE refused == [recap |-> NoRecap, lost |-> notes.dropped + lost,
                           failures |-> notes.failures, dropped |-> 0]
    <3>2. notes.recap.round # round
      <4>1. notes.recap.round \in Nat
        BY <1>2 DEF Records, NoRecap
      <4> QED
        BY <1>1, <4>1
    <3>3. CountDrops(notes, lost, Ended(lines), phase') = refused
      <4>1. CountDrops(notes, lost, Ended(lines), phase')
              = [notes EXCEPT !.recap = NoRecap, !.lost = notes.dropped + lost, !.dropped = 0]
        BY <2>2, <3>1, <3>2 DEF CountDrops
      <4>2. [notes EXCEPT !.recap = NoRecap, !.lost = notes.dropped + lost, !.dropped = 0] = refused
        BY <1>1, RecordDropped
      <4> QED
        BY <4>1, <4>2
    <3>4. refused \in Notes
      BY <1>2, <1>9 DEF Notes, Records
    <3>5. notes' = [recap |-> NoRecap, lost |-> notes.dropped + lost,
                    failures |-> notes.failures + F, dropped |-> 0]
      <4>1. notes' = Noted(refused, lines)
        BY <1>5, <3>3
      <4>2. Noted(refused, lines) = [recap |-> refused.recap, lost |-> refused.lost,
                                  failures |-> refused.failures + F, dropped |-> refused.dropped]
        <5> HIDE DEF refused
        <5> QED
          BY <2>6, <3>4
      <4> QED
        BY <4>1, <4>2
    <3>6. notes.failures + F \in Nat
      BY <1>2, <1>4
    <3>7. notes' \in Notes
      BY <1>9, <3>5, <3>6 DEF Notes, Records
    <3>8. /\ notes'.recap = NoRecap /\ notes'.lost = notes.dropped + lost
          /\ notes'.dropped = 0 /\ NoRecap.round = 0
      BY <3>5 DEF NoRecap
    <3>9. Books'
      BY <1>1, <1>3, <1>5, <1>7, <1>8, <3>1, <3>7 DEF Books, KeepInv
    <3>10. RecapTellsItsSegment'
      BY <1>1, <1>8, <2>4, <3>1, <3>8 DEF RecapTellsItsSegment
    <3>11. Recorded'
      BY <1>1, <1>7, <3>1, <3>8, <3>10 DEF Recorded
    <3> QED
      BY <3>9, <3>11
  <2> QED
    BY <1>3, <2>7, <2>8
<1>13. (over /\ q < Len(kept)) \/ Len(kept) <= q
  BY <1>3, <1>6
<1> QED
  BY <1>11, <1>12, <1>13

(* A fresh surface has no record.                                          *)
LEMMA NothingIsNoted ==
  /\ Nothing \in Notes /\ Nothing.dropped = 0 /\ Nothing.failures = 0
  /\ Nothing.recap.round = 0
BY DEF Nothing, Notes, Records, NoRecap

LEMMA KeepInit == Init => KeepInv
<1> SUFFICES ASSUME Init PROVE KeepInv
  OBVIOUS
<1>1. Lists
  BY ReadInit DEF ReadInv
<1>2. /\ phase = "lull" /\ round = 1 /\ tick = 0 /\ sealed = NoSave
      /\ dropped = 0 /\ busDropped = 0 /\ notes = Nothing
      /\ truth = [failed |-> 0, lost |-> 0, settled |-> 0, end |-> FALSE]
  BY DEF Init
<1>3. truth \in [failed : Nat, lost : Nat, settled : Nat, end : BOOLEAN]
  BY <1>2
<1>4. Books
  BY <1>2, <1>3, NothingIsNoted DEF Books
<1>5. Recorded
  BY <1>2, NothingIsNoted DEF Recorded, RecapTellsItsSegment
<1>6. OnTheFeed
  BY <1>2 DEF OnTheFeed
<1> QED
  BY <1>1, <1>4, <1>5, <1>6 DEF KeepInv

(* Of two lists in a row, which entry is whose.                            *)
LEMMA BehindMembers ==
  ASSUME NEW s, NEW t, Listed(s), Listed(t)
  PROVE  /\ Len(s) \in Nat /\ Len(s \o t) = Len(s) + Len(t)
         /\ \A i \in 1..Len(s) : (s \o t)[i] = s[i]
         /\ \A i \in 1..Len(t) : (s \o t)[Len(s) + i] = t[i]
  BY BehindElements

(* A Push opens with one start and nothing to tell, on a feed at zero.     *)
LEMMA OpenPushKeeps ==
  ASSUME NEW m, m.tick \in Nat, m.round \in Nat \ {0}, NEW filed \in Silent,
         OpenPush(m, filed),
         dropped' \in Nat, busDropped' = dropped',
         notes' \in Notes, notes'.recap.round < m.round, notes'.dropped = 0
  PROVE  Books' /\ Recorded' /\ OnTheFeed'
<1> DEFINE filings == Filings(filed)
           seals == Seals
           started == <<Public("push_started")>>
           said == seals \o started
           lines == At(m.tick, said)
<1>1. /\ Listed(filings)
      /\ \A k \in 1..Len(filings) : filings[k].at = 0 /\ filings[k].line.kind = "safe_filed"
  BY FilingsListed
<1>2. Listed(seals) /\ \A i \in 1..Len(seals) : seals[i].kind = "plan_sealed"
  BY SealsListed
<1>3. Listed(started) /\ Len(started) = 1 /\ started[1].kind = "push_started"
  <2>1. started \in Seq({Public("push_started")})
    OBVIOUS
  <2>2. Listed(started)
    BY <2>1 DEF Listed
  <2> QED
    BY <2>2 DEF Public
<1>4. /\ feed' = Published(filings, anchor', lines) /\ anchor' = m.tick
      /\ phase' = "push" /\ round' = m.round /\ tick' = m.tick /\ sealed' = m
      /\ truth' = [failed |-> 0, lost |-> 0, settled |-> 0, end |-> FALSE]
  BY DEF OpenPush, BeginSegment, Anchored, Filings, Seals
<1> HIDE DEF filings, seals, started
<1>5. /\ Listed(said) /\ Len(said) = Len(seals) + 1 /\ Len(seals) \in Nat
      /\ said[Len(seals) + 1].kind = "push_started"
      /\ \A i \in 1..Len(seals) : said[i].kind = "plan_sealed"
  <2>1. Listed(said)
    BY <1>2, <1>3, BehindListed
  <2>2. /\ Len(seals) \in Nat /\ Len(said) = Len(seals) + Len(started)
        /\ \A i \in 1..Len(seals) : said[i] = seals[i]
        /\ \A i \in 1..Len(started) : said[Len(seals) + i] = started[i]
    <3>1. Listed(seals) /\ Listed(started)
      BY <1>2, <1>3
    <3> HIDE DEF seals, started, said, lines
    <3>2. /\ Len(seals) \in Nat
          /\ Len(seals \o started) = Len(seals) + Len(started)
          /\ \A i \in 1..Len(seals) : (seals \o started)[i] = seals[i]
          /\ \A i \in 1..Len(started) :
               (seals \o started)[Len(seals) + i] = started[i]
      BY SMTT(30), <3>1, BehindMembers
    <3> QED
      BY Zenon, <3>2 DEF said
  <2>3. 1 \in 1..Len(started)
    BY <1>3
  <2>4. said[Len(seals) + 1] = started[1]
    BY <2>2, <2>3
  <2> QED
    BY <1>2, <1>3, <2>1, <2>2, <2>4
<1> HIDE DEF said
<1>6. Heard(said, "push_started") = 1
  <2>1. Len(seals) + 1 \in 1..Len(said)
    BY <1>5
  <2>2. \A i \in 1..Len(said) : i # Len(seals) + 1 => said[i].kind # "push_started"
    <3> SUFFICES ASSUME NEW i \in 1..Len(said), i # Len(seals) + 1
                 PROVE  said[i].kind # "push_started"
      OBVIOUS
    <3>1. i \in 1..Len(seals)
      BY <1>5
    <3> QED
      BY <1>5, <3>1
  <2> QED
    BY <1>5, <2>1, <2>2, OneHeard
<1>7. \A i \in 1..Len(said) : said[i].kind \notin {"failed", "settled"}
  <2> SUFFICES ASSUME NEW i \in 1..Len(said)
               PROVE  said[i].kind \notin {"failed", "settled"}
    OBVIOUS
  <2>1. i \in 1..Len(seals) \/ i = Len(seals) + 1
    BY <1>5
  <2> QED
    BY <1>5, <2>1
<1>8. Heard(said, "failed") = 0 /\ Heard(said, "settled") = 0
  BY <1>5, <1>7, NoneHeard
<1>9. /\ Tally(lines, "push_started") = 1 /\ Tally(lines, "failed") = 0
       /\ Tally(lines, "settled") = 0
  BY <1>5, <1>6, <1>8, TallyAt
<1>10. /\ Listed(lines) /\ Len(lines) = Len(said)
       /\ \A i \in 1..Len(said) : lines[i].tick = m.tick
  BY <1>5, TimedAt
<1> HIDE DEF lines
<1>11. \A i \in 1..Len(lines) : lines[i].tick - anchor' = 0
  BY <1>4, <1>10
<1>12. Joined(feed', filings, lines, 0)
  <2>1. \A k \in 1..Len(filings) : filings[k].at \in Nat /\ filings[k].at <= 0
    BY <1>1
  <2> QED
    BY <1>1, <1>4, <1>10, <1>11, <2>1, PublishedAtOnce
<1>13. /\ Tally(filings, "push_started") = 0 /\ Tally(filings, "failed") = 0
       /\ Tally(filings, "settled") = 0
  BY <1>1, NoneTallied
<1>14. \A kind : Tally(feed', kind) = Tally(filings, kind) + Tally(lines, kind)
  BY <1>1, <1>10, <1>12, TallyJoined
<1>15. /\ Tally(feed', "push_started") = 1 /\ Tally(feed', "failed") = 0
       /\ Tally(feed', "settled") = 0
  BY <1>9, <1>13, <1>14
<1>16. \A i \in 1..Len(feed') : feed'[i].at = 0
  <2> SUFFICES ASSUME NEW i \in 1..Len(feed') PROVE feed'[i].at = 0
    OBVIOUS
  <2>1. /\ Len(feed') = Len(filings) + Len(lines)
        /\ Len(filings) \in Nat /\ Len(lines) \in Nat
        /\ \A k \in 1..Len(filings) : feed'[k] = filings[k]
        /\ \A k \in 1..Len(lines) : feed'[Len(filings) + k] = [line |-> lines[k].line, at |-> 0]
    BY <1>1, <1>10, <1>12 DEF Joined, Listed
  <2>2. CASE i <= Len(filings)
    <3>1. i \in 1..Len(filings) /\ feed'[i] = filings[i]
      BY <2>1, <2>2
    <3> QED
      BY <1>1, <3>1
  <2>3. CASE ~(i <= Len(filings))
    <3>1. PICK k \in 1..Len(lines) : i = Len(filings) + k
      <4>1. i - Len(filings) \in 1..Len(lines) /\ i = Len(filings) + (i - Len(filings))
        BY <2>1, <2>3
      <4> QED
        BY <4>1
    <3>2. feed'[i] = [line |-> lines[k].line, at |-> 0]
      BY <2>1, <3>1
    <3> QED
      BY <3>2
  <2> QED
    BY <2>2, <2>3
<1>17. /\ truth'.failed = 0 /\ truth'.lost = 0 /\ truth'.settled = 0
       /\ truth' \in [failed : Nat, lost : Nat, settled : Nat, end : BOOLEAN]
  BY <1>4
<1>18. OnTheFeed'
  BY <1>4, <1>15, <1>16, <1>17 DEF OnTheFeed, Tally
<1>19. Books'
  BY <1>4, <1>17 DEF Books
<1>20. Recorded'
  <2>1. notes'.failures \in Nat
    BY DEF Notes
  <2> QED
    BY <1>4, <1>17, <2>1 DEF Recorded, RecapTellsItsSegment
<1> QED
  BY <1>18, <1>19, <1>20

(* A Lull that ends has no drop left that the record did not count.        *)
LEMMA EndLullKeeps == KeepInv /\ EndLull => Books' /\ Recorded' /\ OnTheFeed'
<1> SUFFICES ASSUME KeepInv, EndLull PROVE Books' /\ Recorded' /\ OnTheFeed'
  OBVIOUS
<1> DEFINE m == [round |-> round, tick |-> tick, standing |-> standing]
<1>1. PICK filed \in Silent : OpenPush(m, filed)
  BY DEF EndLull
<1>2. m.tick \in Nat /\ m.round \in Nat \ {0} /\ m.round = round
  BY DEF KeepInv, Books
<1>3. /\ phase = "lull" /\ dropped' = dropped /\ busDropped' = busDropped /\ notes' = notes
  BY DEF EndLull
<1>4. /\ dropped \in Nat /\ busDropped = dropped /\ notes \in Notes
      /\ notes.recap.round < round /\ notes.dropped = 0
  BY <1>3 DEF KeepInv, Books, Recorded
<1> HIDE DEF m
<1> QED
  BY <1>1, <1>2, <1>3, <1>4, OpenPushKeeps

LEMMA ResumeSealedKeeps == KeepInv /\ ResumeSealed => Books' /\ Recorded' /\ OnTheFeed'
<1> SUFFICES ASSUME KeepInv, ResumeSealed PROVE Books' /\ Recorded' /\ OnTheFeed'
  OBVIOUS
<1>1. PICK filed \in Silent : OpenPush(sealed, filed)
  BY DEF ResumeSealed
<1>2. sealed.tick \in Nat /\ sealed.round \in Nat \ {0}
  BY DEF ResumeSealed, KeepInv, Books
<1>3. dropped' = 0 /\ busDropped' = 0 /\ notes' = Nothing
  BY DEF ResumeSealed, Fresh
<1>4. notes' \in Notes /\ notes'.recap.round < sealed.round /\ notes'.dropped = 0
  BY <1>2, <1>3, NothingIsNoted
<1> QED
  BY <1>1, <1>2, <1>3, <1>4, OpenPushKeeps

LEMMA ResumeLullKeeps == KeepInv /\ ResumeLull => Books' /\ Recorded' /\ OnTheFeed'
<1> SUFFICES ASSUME KeepInv, ResumeLull PROVE Books' /\ Recorded' /\ OnTheFeed'
  OBVIOUS
<1>1. /\ phase' = "lull" /\ round' = round /\ tick' = tick /\ sealed' = NoSave
      /\ dropped' = 0 /\ busDropped' = 0 /\ notes' = Nothing
      /\ truth' = [failed |-> 0, lost |-> 0, settled |-> 0, end |-> FALSE]
  BY DEF ResumeLull, Fresh, match
<1>2. truth' \in [failed : Nat, lost : Nat, settled : Nat, end : BOOLEAN]
  BY <1>1
<1>3. tick \in Nat /\ round \in Nat \ {0}
  BY DEF KeepInv, Books
<1>4. Books'
  BY <1>1, <1>2, <1>3, NothingIsNoted DEF Books
<1>5. Recorded'
  BY <1>1, <1>3, NothingIsNoted DEF Recorded, RecapTellsItsSegment
<1>6. OnTheFeed'
  BY <1>1 DEF OnTheFeed
<1> QED
  BY <1>4, <1>5, <1>6

(* end_recap drains no drop and nothing the record would tell.             *)
LEMMA EndRecapKeeps == KeepInv /\ EndRecap => Books' /\ Recorded' /\ OnTheFeed'
<1> SUFFICES ASSUME KeepInv, EndRecap PROVE Books' /\ Recorded' /\ OnTheFeed'
  OBVIOUS
<1> DEFINE said == IF decided THEN <<>> ELSE <<Public("lull_opened")>>
           room == Fewer(Len(said), Capacity)
           kept == SubSeq(said, 1, room)
           lines == At(tick, kept)
           e == Emit(said, tick)
<1>1. /\ phase = "recap" /\ phase' = (IF decided THEN "ended" ELSE "lull")
      /\ round' = (IF decided THEN round ELSE round + 1)
      /\ tick' = tick /\ anchor' = anchor /\ sealed' = sealed /\ truth' = truth
      /\ Absorb(e, feed, anchor, phase')
  BY DEF EndRecap
<1>2. /\ bus = <<>> /\ Listed(feed) /\ tick \in Nat /\ round \in Nat \ {0}
      /\ dropped \in Nat /\ busDropped = dropped /\ notes \in Notes
      /\ notes.dropped = 0 /\ notes.recap.round <= round
      /\ RecapTellsItsSegment
  BY <1>1 DEF KeepInv, Lists, Books, Recorded
<1>3. /\ Listed(said) /\ Len(said) \in {0, 1} /\ (decided => Len(said) = 0)
      /\ \A i \in 1..Len(said) : said[i].kind = "lull_opened"
  <2>1. CASE decided
    <3>1. said = <<>> /\ said \in Seq({}) /\ Len(said) = 0
      BY <2>1
    <3> HIDE DEF said
    <3> QED
      BY <3>1, <2>1 DEF Listed
  <2>2. CASE ~decided
    <3>1. /\ said = <<Public("lull_opened")>> /\ said \in Seq({Public("lull_opened")})
          /\ Len(said) = 1 /\ said[1].kind = "lull_opened"
      BY <2>2 DEF Public
    <3>2. \A i \in 1..1 : i = 1
      OBVIOUS
    <3> HIDE DEF said
    <3> QED
      BY <3>1, <3>2, <2>2 DEF Listed
  <2> QED
    BY <2>1, <2>2
<1>4. room = Len(said)
  <2>1. Capacity \in Nat /\ Cardinality(Seats) \in Nat /\ Capacity >= 3
    <3>1. IsFiniteSet(Seats) /\ Cardinality(Seats) >= 2
          /\ Capacity \in Nat /\ Capacity >= Cardinality(Seats) + 1
      BY FeedAssumption
    <3>2. Cardinality(Seats) \in Nat
      BY <3>1, FS_CardinalityType
    <3> QED
      BY <3>1, <3>2
  <2> HIDE DEF said
  <2> QED
    BY <1>3, <2>1 DEF Fewer
<1>5. e = [waiting |-> lines, dropped |-> dropped]
  <2>1. e = [waiting |-> lines, dropped |-> dropped + Len(said) - room]
    <3> HIDE DEF said
    <3> QED
      BY <1>2, <1>3, EmitFills
  <2>2. dropped + Len(said) - room = dropped
    <3> HIDE DEF said, room
    <3> QED
      BY <1>2, <1>3, <1>4
  <2> QED
    BY <2>1, <2>2
<1> HIDE DEF said, room, e
<1>6. Listed(kept) /\ Len(kept) = Len(said) /\ \A i \in 1..Len(kept) : kept[i].kind = "lull_opened"
  <2>1. Len(said) \in Nat
    BY <1>3
  <2>2. /\ Listed(kept) /\ Len(kept) = room
        /\ \A i \in 1..room : kept[i] = said[i]
    BY <1>3, <1>4, <2>1, CutListed
  <2> HIDE DEF kept
  <2> QED
    BY <1>3, <1>4, <2>2
<1> HIDE DEF kept
<1>7. /\ Listed(lines) /\ Len(lines) = Len(kept)
      /\ \A i \in 1..Len(lines) : lines[i].tick = tick
  BY <1>6, TimedAt
<1>8. \A kind : kind # "lull_opened" => Tally(lines, kind) = 0
  <2> SUFFICES ASSUME NEW kind, kind # "lull_opened" PROVE Tally(lines, kind) = 0
    OBVIOUS
  <2>1. Heard(kept, kind) = 0
    BY <1>6, NoneHeard
  <2> QED
    BY <1>6, <2>1, TallyAt
<1>9. \A i \in 1..Len(lines) : lines[i].line.kind \notin {"segment_ended", "settled"}
  <2>1. \A i \in 1..Len(kept) : lines[i] = [line |-> kept[i], tick |-> tick]
    BY <1>6, AtListed
  <2> SUFFICES ASSUME NEW i \in 1..Len(lines)
               PROVE  lines[i].line.kind \notin {"segment_ended", "settled"}
    OBVIOUS
  <2>2. i \in 1..Len(kept)
    BY <1>7
  <2>3. lines[i] = [line |-> kept[i], tick |-> tick] /\ kept[i].kind = "lull_opened"
    BY <1>6, <2>1, <2>2
  <2> QED
    BY <2>3
<1> HIDE DEF lines
<1>10. /\ dropped' = dropped /\ busDropped' = dropped
       /\ notes' = Noted(CountDrops(notes, 0, Ended(lines), phase'), lines)
       /\ feed' = Published(feed, anchor, lines)
  <2>1. e.waiting = lines /\ e.dropped = dropped /\ e.dropped - busDropped = 0
    BY <1>2, <1>5
  <2> QED
    BY <1>1, <2>1 DEF Absorb, Ended
<1>11. notes' = notes
  <2>1. /\ notes = [recap |-> notes.recap, lost |-> notes.lost,
                  failures |-> notes.failures, dropped |-> notes.dropped]
        /\ notes.failures \in Nat /\ notes.dropped \in Nat
    BY <1>2 DEF Notes
  <2>2. CountDrops(notes, 0, Ended(lines), phase') = [notes EXCEPT !.dropped = @ + 0]
    BY DEF CountDrops
  <2>3. [notes EXCEPT !.dropped = @ + 0] = notes
    BY <2>1
  <2>4. Noted(notes, lines)
           = [recap |-> notes.recap, lost |-> notes.lost,
              failures |-> notes.failures + Tally(lines, "failed"), dropped |-> notes.dropped]
    BY <1>2, <1>7, <1>9, NotedFailures
  <2>5. notes.failures + Tally(lines, "failed") = notes.failures
    BY <1>8, <2>1
  <2> QED
    BY <1>10, <2>1, <2>2, <2>3, <2>4, <2>5
<1>12. Books'
  <2>1. phase' \in {"lull", "ended"} /\ round' \in Nat \ {0}
    BY <1>1, <1>2
  <2> QED
    BY <1>1, <1>2, <1>10, <1>11, <2>1 DEF KeepInv, Books
<1>13. Recorded'
  <2>1. CASE decided
    <3>1. phase' = "ended" /\ round' = round
      BY <1>1, <2>1
    <3>2. RecapTellsItsSegment'
      BY <1>1, <1>2, <1>11, <3>1 DEF RecapTellsItsSegment
    <3> QED
      BY <1>2, <1>11, <3>1, <3>2 DEF Recorded
  <2>2. CASE ~decided
    <3>1. phase' = "lull" /\ round' = round + 1
      BY <1>1, <2>2
    <3>2. notes.recap.round < round + 1
      <4>1. notes.recap.round \in Nat
        BY <1>2 DEF Notes, Records, NoRecap
      <4> QED
        BY <1>2, <4>1
    <3>3. RecapTellsItsSegment'
      BY <3>1 DEF RecapTellsItsSegment
    <3> QED
      BY <1>2, <1>11, <3>1, <3>2, <3>3 DEF Recorded
  <2> QED
    BY <2>1, <2>2
<1>14. OnTheFeed'
  <2>1. CASE ~decided
    BY <1>1, <2>1 DEF OnTheFeed
  <2>2. CASE decided
    <3> DEFINE d == tick - anchor
    <3>1. /\ anchor \in Nat /\ anchor <= tick
          /\ \A i \in 1..Len(feed) : feed[i].at \in 0..d
          /\ Tally(feed, "push_started") = 1
          /\ Tally(feed, "failed") = truth.failed
          /\ Tally(feed, "settled") = truth.settled
      BY <1>1 DEF KeepInv, OnTheFeed
    <3>2. d \in Nat
      BY <1>2, <3>1
    <3>3. Len(lines) = 0
      BY <1>3, <1>6, <1>7, <2>2
    <3> HIDE DEF d
    <3>4. Joined(feed', feed, lines, d)
      <4>1. \A k \in 1..Len(feed) : feed[k].at \in Nat /\ feed[k].at <= d
        BY <3>1, <3>2
      <4>2. \A i \in 1..Len(lines) : lines[i].tick - anchor = d
        BY <3>3
      <4> QED
        BY <1>2, <1>7, <1>10, <3>2, <4>1, <4>2, PublishedAtOnce
    <3>5. \A kind : Tally(feed', kind) = Tally(feed, kind) + Tally(lines, kind)
      BY <1>2, <1>7, <3>4, TallyJoined
    <3>6. /\ Tally(feed', "push_started") = 1
          /\ Tally(feed', "failed") = truth.failed + 0
          /\ Tally(feed', "settled") = truth.settled + 0
      <4>1. /\ Tally(lines, "push_started") = 0 /\ Tally(lines, "failed") = 0
            /\ Tally(lines, "settled") = 0
        BY <1>8
      <4> QED
        BY <3>1, <3>5, <4>1
    <3>7. truth.failed \in Nat /\ truth.settled \in Nat
      BY DEF KeepInv, Books
    <3>8. Len(feed') = Len(feed) /\ \A k \in 1..Len(feed) : feed'[k] = feed[k]
      <4>1. Len(feed) \in Nat
        BY <1>2 DEF Listed
      <4> QED
        BY <3>3, <3>4, <4>1 DEF Joined
    <3>9. \A i \in 1..Len(feed') : feed'[i].at \in 0..d
      BY <3>1, <3>8
    <3> QED
      BY <1>1, <3>1, <3>6, <3>7, <3>9 DEF OnTheFeed, Tally, d
  <2> QED
    BY <2>1, <2>2
<1> QED
  BY <1>12, <1>13, <1>14

(* A page is read of what is there.                                        *)
LEMMA ReadKeeps ==
  ASSUME KeepInv,
         UNCHANGED <<phase, round, tick, sealed, dropped, busDropped, notes, truth, anchor, feed>>
  PROVE  Books' /\ Recorded' /\ OnTheFeed'
<1>1. /\ phase' = phase /\ round' = round /\ tick' = tick /\ sealed' = sealed
      /\ dropped' = dropped /\ busDropped' = busDropped /\ notes' = notes /\ truth' = truth
      /\ anchor' = anchor /\ feed' = feed
  OBVIOUS
<1>2. Books'
  BY <1>1 DEF KeepInv, Books
<1>3. Recorded'
  BY <1>1 DEF KeepInv, Recorded, RecapTellsItsSegment
<1>4. OnTheFeed'
  BY <1>1 DEF KeepInv, OnTheFeed, Tally
<1> QED
  BY <1>2, <1>3, <1>4

(* So every step keeps them.                                               *)
LEMMA KeepNext == ReadInv /\ KeepInv /\ [Next]_vars => KeepInv'
<1> SUFFICES ASSUME ReadInv, KeepInv, [Next]_vars PROVE KeepInv'
  OBVIOUS
<1>1. Lists'
  BY ReadNext DEF ReadInv
<1>2. Books' /\ Recorded' /\ OnTheFeed'
  <2>1. CASE EndLull
    BY <2>1, EndLullKeeps
  <2>2. CASE Step
    <3>1. PICK kept, lost, over, q : Drained(kept, lost, over, q)
      BY <2>2, StepDrains DEF KeepInv
    <3> QED
      BY <2>2, <3>1, StepPublishes, StepRecords
  <2>3. CASE EndRecap
    BY <2>3, EndRecapKeeps
  <2>4. CASE ResumeLull
    BY <2>4, ResumeLullKeeps
  <2>5. CASE ResumeSealed
    BY <2>5, ResumeSealedKeeps
  <2>6. ASSUME NEW start, NEW limit, Read(start, limit)
        PROVE  Books' /\ Recorded' /\ OnTheFeed'
    BY <2>6, ReadKeeps DEF Read, match, surface
  <2>7. ASSUME NEW limit \in 0..MaxLimit, StartReading(limit) \/ ReadOn(limit)
        PROVE  Books' /\ Recorded' /\ OnTheFeed'
    BY <2>6, <2>7 DEF StartReading, ReadOn
  <2>8. CASE UNCHANGED vars
    BY <2>8, ReadKeeps DEF vars, match, surface
  <2> QED
    BY <2>1, <2>2, <2>3, <2>4, <2>5, <2>7, <2>8 DEF Next
<1> QED
  BY <1>1, <1>2 DEF KeepInv

(* From a segment's end to the next, the recap tells that segment, every   *)
(* credit and every lost line of it; or its end was among the lost, and it *)
(* says that its record is.                                                *)
THEOREM RecapsTellTheirSegment == Spec => []RecapTellsItsSegment
<1>1. KeepInv => RecapTellsItsSegment
  BY DEF KeepInv, Recorded
<1> QED
  BY ReadInit, ReadNext, KeepInit, KeepNext, <1>1, PTL DEF Spec

(* What the bus kept is on the feed: publish refuses no line of a drain    *)
(* for its time.                                                           *)
THEOREM KeptLinesArePublished == Spec => []EveryKeptLineIsPublished
<1>1. KeepInv => EveryKeptLineIsPublished
  <2> SUFFICES ASSUME KeepInv, phase \in {"recap", "ended"}
               PROVE  /\ Tally(feed, "push_started") = 1
                      /\ Tally(feed, "failed") = truth.failed
                      /\ Tally(feed, "settled") = truth.settled
    BY DEF EveryKeptLineIsPublished, Tally
  <2> QED
    BY DEF KeepInv, OnTheFeed
<1> QED
  BY ReadInit, ReadNext, KeepInit, KeepNext, <1>1, PTL DEF Spec
=============================================================================
