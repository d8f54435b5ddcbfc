---------------------------- MODULE FoldLemmas ----------------------------
(***************************************************************************)
(* Induction over data, without an operator for a parameter.  A set of     *)
(* numbers has a least one and a set of finite sets one that holds no      *)
(* other of them; from these follow that what is defined by recursion      *)
(* exists, that a finite set can be gone through in any order, and what    *)
(* the sums the modules take of a function satisfy.                        *)
(***************************************************************************)
EXTENDS Integers, FiniteSetsExt, FiniteSetTheorems, WellFoundedInduction, TLAPS

(* A set of numbers that is not empty has a least one.                     *)
LEMMA LeastNat ==
  ASSUME NEW T \in SUBSET Nat, T # {}
  PROVE  \E n \in T : \A m \in T : n <= m
<1> DEFINE Below == {0..n : n \in T}
<1>1. Below \subseteq FiniteSubsetsOf(Nat) /\ Below # {}
  <2>1. \A n \in T : IsFiniteSet(0..n) /\ 0..n \in SUBSET Nat
    BY FS_Interval
  <2> QED
    BY <2>1 DEF FiniteSubsetsOf
<1>2. PICK x \in Below : \A y \in Below : <<y, x>> \notin StrictSubsetOrdering(Nat)
  <2> HIDE DEF Below
  <2> QED
    BY <1>1, FS_StrictSubsetOrderingWellFounded, WFMin
<1>3. PICK n \in T : x = 0..n
  OBVIOUS
<1>4. ASSUME NEW m \in T, m < n PROVE FALSE
  <2>1. /\ 0..m \subseteq 0..n /\ n \in 0..n /\ n \notin 0..m
        /\ 0..m \in SUBSET Nat /\ 0..n \in SUBSET Nat
    BY <1>4
  <2>2. 0..m \in Below
    OBVIOUS
  <2> QED
    BY <2>1, <2>2, <1>2, <1>3 DEF StrictSubsetOrdering
<1> QED
  BY <1>4

(* A recursion over D: a value where it stops, and elsewhere one made of   *)
(* the value at the next argument, whose rank is lower.                    *)
Descends(D, V, rank, stop, base, next, op) ==
  /\ rank \in [D -> Nat] /\ stop \in SUBSET D
  /\ base \in [D -> V] /\ next \in [D -> D] /\ op \in [D \X V -> V]
  /\ \A s \in D \ stop : rank[next[s]] < rank[s]

Follows(f, D, stop, base, next, op) ==
  \A s \in D : f[s] = IF s \in stop THEN base[s] ELSE op[<<s, f[next[s]]>>]

(* A recursion that descends defines a function.                           *)
LEMMA Recursion ==
  ASSUME NEW D, NEW V, NEW rank, NEW stop, NEW base, NEW next, NEW op,
         Descends(D, V, rank, stop, base, next, op)
  PROVE  \E f \in [D -> V] : Follows(f, D, stop, base, next, op)
<1>0. /\ rank \in [D -> Nat] /\ stop \in SUBSET D
      /\ base \in [D -> V] /\ next \in [D -> D] /\ op \in [D \X V -> V]
      /\ \A s \in D \ stop : rank[next[s]] < rank[s]
  BY DEF Descends
<1> USE <1>0
<1> DEFINE Upto(n) == {s \in D : rank[s] < n}
           Step(f, s) == IF s \in stop THEN base[s] ELSE op[<<s, f[next[s]]>>]
           Solves(g, n) == g \in [Upto(n) -> V] /\ \A s \in Upto(n) : g[s] = Step(g, s)
<1>1. ASSUME NEW m \in Nat, NEW n \in Nat, NEW g, NEW h, Solves(g, m), Solves(h, n),
             NEW s \in Upto(m) \intersect Upto(n)
      PROVE  g[s] = h[s]
  <2> DEFINE Off == {rank[t] : t \in {u \in Upto(m) \intersect Upto(n) : g[u] # h[u]}}
  <2>1. SUFFICES ASSUME g[s] # h[s] PROVE FALSE
    OBVIOUS
  <2>2. Off \in SUBSET Nat /\ Off # {}
    BY <2>1
  <2>3. PICK r \in Off : \A q \in Off : r <= q
    <3> HIDE DEF Off
    <3> QED
      BY <2>2, LeastNat
  <2>4. PICK t \in Upto(m) \intersect Upto(n) : r = rank[t] /\ g[t] # h[t]
    BY <2>3
  <2>5. g[t] = Step(g, t) /\ h[t] = Step(h, t)
    BY <1>1
  <2>6. t \notin stop
    BY <2>4, <2>5
  <2>7. next[t] \in Upto(m) \intersect Upto(n) /\ rank[next[t]] < r
    BY <2>4, <2>6
  <2>8. g[next[t]] = h[next[t]]
    <3>1. rank[next[t]] \notin Off
      <4>1. r \in Nat /\ rank[next[t]] \in Nat
        BY <2>2, <2>7
      <4> HIDE DEF Off
      <4> QED
        BY <4>1, <2>3, <2>7
    <3> QED
      BY <3>1, <2>7
  <2> QED
    BY <2>4, <2>5, <2>6, <2>8
<1>2. \A n \in Nat : \E g : Solves(g, n)
  <2> DEFINE Bad == {n \in Nat : ~ \E g : Solves(g, n)}
  <2>1. SUFFICES ASSUME Bad # {} PROVE FALSE
    OBVIOUS
  <2>2. PICK n \in Bad : \A m \in Bad : n <= m
    <3> HIDE DEF Bad
    <3>1. Bad \in SUBSET Nat
      BY DEF Bad
    <3> QED
      BY <2>1, <3>1, LeastNat
  <2>3. n # 0
    <3>1. SUFFICES ASSUME n = 0 PROVE FALSE
      OBVIOUS
    <3>2. Upto(0) = {}
      OBVIOUS
    <3>3. Solves([s \in {} |-> s], 0)
      BY <3>2
    <3> QED
      BY <3>1, <3>3
  <2>4. PICK g : Solves(g, n - 1)
    <3> HIDE DEF Solves
    <3>1. n \in Nat /\ n - 1 \in Nat /\ n - 1 < n
      BY <2>3
    <3>2. n - 1 \notin Bad
      <4> HIDE DEF Bad
      <4> QED
        BY <3>1, <2>2
    <3> QED
      BY <3>1, <3>2
  <2> DEFINE h == [s \in Upto(n) |-> Step(g, s)]
  <2>5. ASSUME NEW s \in Upto(n), s \notin stop
        PROVE  next[s] \in Upto(n - 1) /\ g[next[s]] \in V
    BY <2>4, <2>5
  <2>6. \A s \in Upto(n) : Step(g, s) \in V
    BY <2>5
  <2>7. \A s \in Upto(n - 1) : s \in Upto(n) /\ h[s] = g[s]
    BY <2>4
  <2>8. \A s \in Upto(n) : Step(g, s) = Step(h, s)
    BY <2>5, <2>7
  <2>9. Solves(h, n)
    BY <2>6, <2>8
  <2> QED
    BY <2>9
<1> DEFINE Sol(n) == CHOOSE g : Solves(g, n)
           f == [s \in D |-> Sol(rank[s] + 1)[s]]
<1>3. \A n \in Nat : Solves(Sol(n), n)
  <2> HIDE DEF Solves
  <2> QED
    BY <1>2
<1>4. \A s \in D : s \in Upto(rank[s] + 1) /\ rank[s] + 1 \in Nat
  OBVIOUS
<1>5. \A s \in D : f[s] = Step(Sol(rank[s] + 1), s) /\ f[s] \in V
  <2> HIDE DEF Sol
  <2> QED
    BY <1>3, <1>4
<1>6. ASSUME NEW s \in D, s \notin stop
      PROVE  f[next[s]] = Sol(rank[s] + 1)[next[s]]
  <2> DEFINE m == rank[next[s]] + 1
             n == rank[s] + 1
  <2>1. next[s] \in D /\ next[s] \in Upto(m) /\ next[s] \in Upto(n) /\ m \in Nat /\ n \in Nat
    BY <1>6
  <2>2. Solves(Sol(m), m) /\ Solves(Sol(n), n)
    BY <1>3, <2>1
  <2>3. Sol(m)[next[s]] = Sol(n)[next[s]]
    <3> HIDE DEF Sol, Solves, Upto, m, n
    <3> QED
      BY <1>1, <2>1, <2>2
  <2> QED
    BY <2>1, <2>3
<1>7. \A s \in D : f[s] = Step(f, s)
  <2> HIDE DEF Sol
  <2> QED
    BY <1>5, <1>6
<1> QED
  <2>1. f \in [D -> V]
    <3> HIDE DEF Sol
    <3> QED
      BY <1>5
  <2> HIDE DEF f
  <2> QED
    BY <1>7, <2>1 DEF Follows

(* Induction over a list: what holds of zero and is passed on by every     *)
(* number up to n holds of them all.                                       *)
LEMMA Climb ==
  ASSUME NEW n \in Nat, NEW Good \in SUBSET (0..n), 0 \in Good,
         \A i \in 1..n : i - 1 \in Good => i \in Good
  PROVE  Good = 0..n
<1> DEFINE Bad == (0..n) \ Good
<1>1. SUFFICES ASSUME Bad # {} PROVE FALSE
  OBVIOUS
<1>2. PICK m \in Bad : \A k \in Bad : m <= k
  <2>1. Bad \in SUBSET Nat
    OBVIOUS
  <2> HIDE DEF Bad
  <2> QED
    BY <1>1, <2>1, LeastNat
<1>3. m \in 0..n /\ m \notin Good
  OBVIOUS
<1>4. m # 0
  BY <1>3
<1>5. m \in 1..n /\ m - 1 \in 0..n /\ ~(m <= m - 1)
  BY <1>3, <1>4
<1>6. m - 1 \notin Bad
  <2> HIDE DEF Bad
  <2> QED
    BY <1>2, <1>5
<1> QED
  BY <1>3, <1>5, <1>6

(* A recursion over 0..n, from a value and by steps, has a solution.       *)
Unrolls(f, n, start, op) ==
  \A i \in 0..n : f[i] = IF i = 0 THEN start ELSE op[<<i, f[i - 1]>>]

LEMMA Iterates ==
  ASSUME NEW n \in Nat, NEW V, NEW start \in V, NEW op \in [(0..n) \X V -> V]
  PROVE  \E f \in [0..n -> V] : Unrolls(f, n, start, op)
<1> DEFINE D == 0..n
           rank == [i \in D |-> i]
           stop == {0}
           base == [i \in D |-> start]
           next == [i \in D |-> IF i = 0 THEN 0 ELSE i - 1]
<1>1. Descends(D, V, rank, stop, base, next, op)
  BY DEF Descends
<1>2. PICK f \in [D -> V] : Follows(f, D, stop, base, next, op)
  <2> HIDE DEF D, rank, stop, base, next
  <2> QED
    BY <1>1, Recursion
<1> QED
  BY <1>2 DEF Follows, Unrolls

----------------------------------------------------------------------------
(* Among subsets of a finite set there is one that none of the others is   *)
(* part of: induction over finite sets, by a smallest counterexample.      *)
LEMMA SetInduction ==
  ASSUME NEW S, IsFiniteSet(S), NEW Bad \in SUBSET SUBSET S, Bad # {}
  PROVE  \E T \in Bad : \A U \in SUBSET T : U # T => U \notin Bad
<1>1. Bad \subseteq FiniteSubsetsOf(S)
  BY FS_FiniteSubsetsOfFinite
<1>2. PICK T \in Bad : \A U \in Bad : <<U, T>> \notin StrictSubsetOrdering(S)
  BY <1>1, FS_StrictSubsetOrderingWellFounded, WFMin
<1> QED
  BY <1>2 DEF StrictSubsetOrdering

(* What MapThenSumSet adds up.                                             *)
Total(f, S) == MapThenSumSet(LAMBDA x : f[x], S)

Summable(f, S) == IsFiniteSet(S) /\ \A x \in S : f[x] \in Int

Choice(s) == CHOOSE x \in s : TRUE

Adds(g, f, S) ==
  g = [s \in SUBSET S |-> IF s = {} THEN 0
                          ELSE f[Choice(s)] + g[s \ {Choice(s)}]]

Tells(g, f, S) == \A T \in SUBSET S : Total(f, T) = g[T]

(* The function by which MapThenSumSet is defined, over a set and all its  *)
(* parts, exists.                                                          *)
LEMMA SumExists ==
  ASSUME NEW S, NEW f, Summable(f, S)
  PROVE  \E g \in [SUBSET S -> Int] : Adds(g, f, S)
<1>0. IsFiniteSet(S) /\ \A x \in S : f[x] \in Int
  BY DEF Summable
<1> USE <1>0
<1> DEFINE D == SUBSET S
           rank == [s \in D |-> Cardinality(s)]
           stop == {{}}
           base == [s \in D |-> 0]
           next == [s \in D |-> IF s = {} THEN {} ELSE s \ {Choice(s)}]
           op == [p \in D \X Int |-> IF p[1] = {} THEN 0 ELSE f[Choice(p[1])] + p[2]]
<1>1. \A s \in D : s # {} => Choice(s) \in s
  BY DEF Choice
<1>2. \A s \in D : IsFiniteSet(s) /\ Cardinality(s) \in Nat
  BY FS_Subset, FS_CardinalityType
<1>3. rank \in [D -> Nat] /\ stop \in SUBSET D /\ base \in [D -> Int] /\ next \in [D -> D]
  BY <1>2
<1>4. op \in [D \X Int -> Int]
  BY <1>1
<1>5. ASSUME NEW s \in D \ stop PROVE rank[next[s]] < rank[s]
  <2>1. s # {} /\ Choice(s) \in s /\ IsFiniteSet(s)
    BY <1>1, <1>2
  <2>2. Cardinality(s \ {Choice(s)}) = Cardinality(s) - 1
    BY <2>1, FS_RemoveElement
  <2>3. Cardinality(s) \in Nat /\ s \ {Choice(s)} \in D
    BY <1>2
  <2> QED
    BY <2>1, <2>2, <2>3
<1>6. PICK g \in [D -> Int] : Follows(g, D, stop, base, next, op)
  <2> HIDE DEF D, rank, stop, base, next, op
  <2>1. Descends(D, Int, rank, stop, base, next, op)
    BY <1>3, <1>4, <1>5 DEF Descends
  <2> QED
    BY <2>1, Recursion
<1>7. \A s \in D : g[s] = IF s = {} THEN 0 ELSE f[Choice(s)] + g[s \ {Choice(s)}]
  <2> SUFFICES ASSUME NEW s \in D, s # {} PROVE g[s] = f[Choice(s)] + g[s \ {Choice(s)}]
    BY <1>6 DEF Follows
  <2>1. next[s] = s \ {Choice(s)} /\ next[s] \in D /\ g[next[s]] \in Int
    BY <1>3
  <2>2. g[s] = op[<<s, g[next[s]]>>]
    BY <1>6 DEF Follows
  <2> QED
    BY <2>1, <2>2
<1> QED
  BY <1>7 DEF Adds

(* What it says of a part does not depend on the whole.                    *)
LEMMA SumIsUnique ==
  ASSUME NEW S, NEW f, Summable(f, S), NEW g, NEW h,
         NEW T \in SUBSET S, Adds(g, f, T), Adds(h, f, S),
         NEW U \in SUBSET T
  PROVE  g[U] = h[U]
<1> DEFINE Off == {W \in SUBSET T : g[W] # h[W]}
<1>1. SUFFICES ASSUME Off # {} PROVE FALSE
  OBVIOUS
<1>2. IsFiniteSet(T)
  BY FS_Subset DEF Summable
<1>3. PICK W \in Off : \A X \in SUBSET W : X # W => X \notin Off
  <2>1. Off \in SUBSET SUBSET T
    OBVIOUS
  <2> HIDE DEF Off
  <2> QED
    BY <1>1, <1>2, <2>1, SetInduction
<1>4. W \in SUBSET T /\ W \in SUBSET S /\ g[W] # h[W]
  OBVIOUS
<1>5. /\ g[W] = IF W = {} THEN 0 ELSE f[Choice(W)] + g[W \ {Choice(W)}]
      /\ h[W] = IF W = {} THEN 0 ELSE f[Choice(W)] + h[W \ {Choice(W)}]
  BY <1>4 DEF Adds
<1>6. W # {} /\ Choice(W) \in W
  BY <1>4, <1>5 DEF Choice
<1>7. g[W \ {Choice(W)}] = h[W \ {Choice(W)}]
  BY <1>3, <1>4, <1>6
<1> QED
  BY <1>4, <1>5, <1>6, <1>7

(* So the sums of a set's parts are the values of one such function.       *)
LEMMA TotalIsSum ==
  ASSUME NEW S, NEW f, Summable(f, S)
  PROVE  \E g \in [SUBSET S -> Int] : Adds(g, f, S) /\ Tells(g, f, S)
<1>1. PICK g \in [SUBSET S -> Int] : Adds(g, f, S)
  BY SumExists
<1>2. ASSUME NEW T \in SUBSET S PROVE Total(f, T) = g[T]
  <2> DEFINE iter == CHOOSE h : Adds(h, f, T)
  <2>1. Summable(f, T)
    BY FS_Subset DEF Summable
  <2>2. Adds(iter, f, T)
    BY <2>1, SumExists
  <2>3. Total(f, T) = iter[T]
    BY DEF Total, MapThenSumSet, MapThenFoldSet, Adds, Choice
  <2> HIDE DEF iter
  <2> QED
    BY <1>1, <2>2, <2>3, SumIsUnique
<1> QED
  BY <1>1, <1>2 DEF Tells

(* The sum of nothing.                                                     *)
LEMMA TotalOfNone ==
  ASSUME NEW f
  PROVE  Total(f, {}) = 0
<1>1. Summable(f, {})
  BY FS_EmptySet DEF Summable
<1>2. PICK g : Adds(g, f, {}) /\ Tells(g, f, {})
  BY <1>1, TotalIsSum
<1> QED
  BY <1>2 DEF Adds, Tells

(* A sum is that of any element and the rest.                              *)
LEMMA TotalWithout ==
  ASSUME NEW S, NEW f, Summable(f, S), NEW e \in S
  PROVE  /\ Total(f, S) \in Int
         /\ Total(f, S) = f[e] + Total(f, S \ {e})
<1>0. IsFiniteSet(S) /\ \A x \in S : f[x] \in Int
  BY DEF Summable
<1>1. PICK g \in [SUBSET S -> Int] : Adds(g, f, S) /\ Tells(g, f, S)
  BY TotalIsSum
<1> DEFINE Off == {T \in SUBSET S : \E x \in T : g[T] # f[x] + g[T \ {x}]}
<1>2. Off = {}
  <2> SUFFICES ASSUME Off # {} PROVE FALSE
    OBVIOUS
  <2>1. PICK T \in Off : \A U \in SUBSET T : U # T => U \notin Off
    <3>1. Off \in SUBSET SUBSET S
      OBVIOUS
    <3> HIDE DEF Off
    <3> QED
      BY <1>0, <3>1, SetInduction
  <2>2. T \in SUBSET S
    OBVIOUS
  <2>3. PICK x \in T : g[T] # f[x] + g[T \ {x}]
    OBVIOUS
  <2> DEFINE c == Choice(T)
  <2>4. c \in T /\ g[T] = f[c] + g[T \ {c}]
    BY <1>1, <2>2, <2>3 DEF Adds, Choice
  <2> HIDE DEF c
  <2>5. c # x
    BY <2>3, <2>4
  <2>6. T \ {c} \notin Off /\ T \ {x} \notin Off
    BY <2>1, <2>3, <2>4
  <2>7. T \ {c} \in SUBSET S /\ T \ {x} \in SUBSET S /\ x \in T \ {c} /\ c \in T \ {x}
    BY <2>2, <2>3, <2>4, <2>5
  <2>8. /\ g[T \ {c}] = f[x] + g[(T \ {c}) \ {x}]
        /\ g[T \ {x}] = f[c] + g[(T \ {x}) \ {c}]
    BY <2>6, <2>7
  <2>9. (T \ {c}) \ {x} = (T \ {x}) \ {c}
    OBVIOUS
  <2>10. f[x] \in Int /\ f[c] \in Int /\ g[(T \ {c}) \ {x}] \in Int
    <3>1. (T \ {c}) \ {x} \in SUBSET S /\ x \in S /\ c \in S
      BY <2>2, <2>4
    <3> QED
      BY <1>0, <3>1
  <2> DEFINE rest == g[(T \ {c}) \ {x}]
  <2>11. g[T \ {c}] = f[x] + rest /\ g[T \ {x}] = f[c] + rest /\ rest \in Int
    BY <2>8, <2>9, <2>10
  <2> HIDE DEF Off, rest
  <2>12. g[T] = f[c] + (f[x] + rest) /\ f[x] + g[T \ {x}] = f[x] + (f[c] + rest)
    BY <2>4, <2>11
  <2> QED
    BY <2>3, <2>10, <2>11, <2>12
<1>3. S \in SUBSET S /\ S \ {e} \in SUBSET S
  OBVIOUS
<1>4. g[S] = f[e] + g[S \ {e}]
  BY <1>2, <1>3
<1> QED
  BY <1>1, <1>3, <1>4 DEF Tells

(* Sums of functions that agree on a set are the same.                     *)
LEMMA TotalAgrees ==
  ASSUME NEW S, NEW f, NEW h, Summable(f, S), \A x \in S : h[x] = f[x]
  PROVE  Summable(h, S) /\ Total(h, S) = Total(f, S)
<1>0. Summable(h, S) /\ IsFiniteSet(S)
  BY DEF Summable
<1> DEFINE Off == {T \in SUBSET S : Total(h, T) # Total(f, T)}
<1>1. Off = {}
  <2> SUFFICES ASSUME Off # {} PROVE FALSE
    OBVIOUS
  <2>1. PICK T \in Off : \A U \in SUBSET T : U # T => U \notin Off
    <3>1. Off \in SUBSET SUBSET S
      OBVIOUS
    <3> HIDE DEF Off
    <3> QED
      BY <1>0, <3>1, SetInduction
  <2>2. T \in SUBSET S /\ Total(h, T) # Total(f, T)
    OBVIOUS
  <2>3. T # {}
    BY <2>2, TotalOfNone
  <2>4. PICK e \in T : TRUE
    BY <2>3
  <2>5. Summable(f, T) /\ Summable(h, T)
    BY <1>0, <2>2, FS_Subset DEF Summable
  <2>6. /\ Total(f, T) = f[e] + Total(f, T \ {e})
        /\ Total(h, T) = h[e] + Total(h, T \ {e})
    BY <2>4, <2>5, TotalWithout
  <2>7. T \ {e} \notin Off /\ T \ {e} \in SUBSET S
    BY <2>1, <2>2, <2>4
  <2>8. Total(h, T \ {e}) = Total(f, T \ {e}) /\ h[e] = f[e]
    BY <2>2, <2>4, <2>7
  <2> QED
    BY <2>2, <2>6, <2>8
<1> QED
  BY <1>0, <1>1

(* A sum over two sets that do not meet.                                   *)
LEMMA TotalSplits ==
  ASSUME NEW S, NEW f, Summable(f, S), NEW A \in SUBSET S
  PROVE  /\ Total(f, A) \in Int /\ Total(f, S \ A) \in Int
         /\ Total(f, S) = Total(f, A) + Total(f, S \ A)
<1>0. IsFiniteSet(S) /\ \A x \in S : f[x] \in Int
  BY DEF Summable
<1>1. \A T \in SUBSET S : Summable(f, T)
  BY <1>0, FS_Subset DEF Summable
<1>2. \A T \in SUBSET S : Total(f, T) \in Int
  <2> SUFFICES ASSUME NEW T \in SUBSET S PROVE Total(f, T) \in Int
    OBVIOUS
  <2>1. CASE T = {}
    BY <2>1, TotalOfNone
  <2>2. CASE T # {}
    BY <1>1, <2>2, TotalWithout
  <2> QED
    BY <2>1, <2>2
<1> DEFINE Off == {T \in SUBSET A : Total(f, T \union (S \ A)) # Total(f, T) + Total(f, S \ A)}
<1>3. Off = {}
  <2> SUFFICES ASSUME Off # {} PROVE FALSE
    OBVIOUS
  <2>0. IsFiniteSet(A)
    BY <1>0, FS_Subset
  <2>1. PICK T \in Off : \A U \in SUBSET T : U # T => U \notin Off
    <3>1. Off \in SUBSET SUBSET A
      OBVIOUS
    <3> HIDE DEF Off
    <3> QED
      BY <2>0, <3>1, SetInduction
  <2>2. T \in SUBSET A /\ Total(f, T \union (S \ A)) # Total(f, T) + Total(f, S \ A)
    OBVIOUS
  <2>3. T # {}
    <3> SUFFICES ASSUME T = {} PROVE FALSE
      OBVIOUS
    <3>1. T \union (S \ A) = S \ A
      OBVIOUS
    <3>2. Total(f, S \ A) \in Int /\ Total(f, T) = 0
      BY <1>2, TotalOfNone
    <3> QED
      BY <2>2, <3>1, <3>2
  <2>4. PICK e \in T : TRUE
    BY <2>3
  <2>5. T \ {e} \notin Off /\ T \ {e} \in SUBSET A
    BY <2>1, <2>2, <2>4
  <2>6. Total(f, (T \ {e}) \union (S \ A)) = Total(f, T \ {e}) + Total(f, S \ A)
    BY <2>5
  <2>7. /\ (T \union (S \ A)) \ {e} = (T \ {e}) \union (S \ A)
        /\ e \in T \union (S \ A) /\ T \union (S \ A) \in SUBSET S
        /\ T \in SUBSET S /\ T \ {e} \in SUBSET S /\ S \ A \in SUBSET S /\ e \in S
    BY <2>2, <2>4
  <2>8. /\ Total(f, T \union (S \ A)) = f[e] + Total(f, (T \ {e}) \union (S \ A))
        /\ Total(f, T) = f[e] + Total(f, T \ {e})
    <3>1. Total(f, T \union (S \ A)) = f[e] + Total(f, (T \union (S \ A)) \ {e})
      BY <1>1, <2>7, TotalWithout
    <3>2. Total(f, T) = f[e] + Total(f, T \ {e})
      BY <1>1, <2>4, <2>7, TotalWithout
    <3> QED
      BY <2>7, <3>1, <3>2
  <2>9. f[e] \in Int /\ Total(f, T \ {e}) \in Int /\ Total(f, S \ A) \in Int
    BY <1>0, <1>2, <2>7
  <2> QED
    BY <2>2, <2>6, <2>8, <2>9
<1>4. A \in SUBSET A /\ A \union (S \ A) = S
  OBVIOUS
<1>5. Total(f, A \union (S \ A)) = Total(f, A) + Total(f, S \ A)
  BY <1>3, <1>4
<1>6. A \in SUBSET S /\ S \ A \in SUBSET S
  OBVIOUS
<1> QED
  BY <1>2, <1>4, <1>5, <1>6

(* A sum of what is not negative is not, and no part of it is larger.      *)
LEMMA TotalGrows ==
  ASSUME NEW S, NEW f, IsFiniteSet(S), \A x \in S : f[x] \in Nat, NEW A \in SUBSET S
  PROVE  /\ Total(f, S) \in Nat /\ Total(f, A) \in Nat
         /\ Total(f, A) <= Total(f, S)
<1>1. \A T \in SUBSET S : Summable(f, T)
  BY FS_Subset DEF Summable
<1>2. \A T \in SUBSET S : Total(f, T) \in Nat
  <2> DEFINE Off == {T \in SUBSET S : Total(f, T) \notin Nat}
  <2> SUFFICES ASSUME Off # {} PROVE FALSE
    OBVIOUS
  <2>1. PICK T \in Off : \A U \in SUBSET T : U # T => U \notin Off
    <3>1. Off \in SUBSET SUBSET S
      OBVIOUS
    <3> HIDE DEF Off
    <3> QED
      BY <3>1, SetInduction
  <2>2. T \in SUBSET S /\ Total(f, T) \notin Nat
    OBVIOUS
  <2>3. T # {}
    BY <2>2, TotalOfNone
  <2>4. PICK e \in T : TRUE
    BY <2>3
  <2>5. Total(f, T) = f[e] + Total(f, T \ {e})
    BY <1>1, <2>2, <2>4, TotalWithout
  <2>6. T \ {e} \notin Off /\ T \ {e} \in SUBSET S
    BY <2>1, <2>2, <2>4
  <2>7. Total(f, T \ {e}) \in Nat /\ f[e] \in Nat
    BY <2>2, <2>4, <2>6
  <2> QED
    BY <2>2, <2>5, <2>7
<1>3. Total(f, S) = Total(f, A) + Total(f, S \ A)
  BY <1>1, TotalSplits
<1>4. Total(f, S) \in Nat /\ Total(f, A) \in Nat /\ Total(f, S \ A) \in Nat
  BY <1>2
<1> QED
  BY <1>3, <1>4

(* An image of a finite set is finite.                                     *)
LEMMA ImageIsFinite ==
  ASSUME NEW S, IsFiniteSet(S), NEW f
  PROVE  IsFiniteSet({f[s] : s \in S})
<1> DEFINE T == {f[s] : s \in S}
           g == [s \in S |-> f[s]]
<1>1. g \in Surjection(S, T)
  BY DEF Surjection
<1> QED
  BY <1>1, FS_Surjection

----------------------------------------------------------------------------
(* A walk down a finite set, in an order that has a last: from a value,    *)
(* and by a step for the last of what is left.                             *)
WalksDown(f, S, last, start, op) ==
  f = [T \in SUBSET S |-> IF T = {} THEN start
                          ELSE op[<<last[T], f[T \ {last[T]}]>>]]

LEMMA WalkDownExists ==
  ASSUME NEW S, IsFiniteSet(S), NEW V, NEW last, NEW start \in V,
         NEW op \in [S \X V -> V], \A T \in SUBSET S : T # {} => last[T] \in T
  PROVE  \E f \in [SUBSET S -> V] : WalksDown(f, S, last, start, op)
<1> DEFINE D == SUBSET S
           rank == [T \in D |-> Cardinality(T)]
           stop == {{}}
           base == [T \in D |-> start]
           next == [T \in D |-> IF T = {} THEN {} ELSE T \ {last[T]}]
           step == [p \in D \X V |-> IF p[1] = {} THEN start ELSE op[<<last[p[1]], p[2]>>]]
<1>2. \A T \in D : IsFiniteSet(T) /\ Cardinality(T) \in Nat
  BY FS_Subset, FS_CardinalityType
<1>3. /\ rank \in [D -> Nat] /\ stop \in SUBSET D /\ base \in [D -> V]
      /\ next \in [D -> D]
  BY <1>2
<1>4. step \in [D \X V -> V]
  <2> SUFFICES ASSUME NEW T \in D, NEW v \in V, T # {}
               PROVE  op[<<last[T], v>>] \in V
    OBVIOUS
  <2>1. last[T] \in S
    OBVIOUS
  <2> QED
    BY <2>1
<1>5. ASSUME NEW T \in D \ stop PROVE rank[next[T]] < rank[T]
  <2>1. T # {} /\ last[T] \in T /\ IsFiniteSet(T)
    BY <1>2
  <2>2. Cardinality(T \ {last[T]}) = Cardinality(T) - 1
    BY <2>1, FS_RemoveElement
  <2>3. Cardinality(T) \in Nat /\ T \ {last[T]} \in D
    BY <1>2
  <2> QED
    BY <2>1, <2>2, <2>3
<1>6. PICK f \in [D -> V] : Follows(f, D, stop, base, next, step)
  <2> HIDE DEF D, rank, stop, base, next, step
  <2>1. Descends(D, V, rank, stop, base, next, step)
    BY <1>3, <1>4, <1>5 DEF Descends
  <2> QED
    BY <2>1, Recursion
<1>7. \A T \in D : f[T] = IF T = {} THEN start ELSE op[<<last[T], f[T \ {last[T]}]>>]
  <2>1. ASSUME NEW T \in D, T = {} PROVE f[T] = start
    BY <1>6, <2>1 DEF Follows
  <2>2. ASSUME NEW T \in D, T # {} PROVE f[T] = op[<<last[T], f[T \ {last[T]}]>>]
    <3>1. next[T] = T \ {last[T]} /\ next[T] \in D /\ f[next[T]] \in V
      BY <1>3, <2>2
    <3>2. f[T] = step[<<T, f[next[T]]>>]
      BY <1>6, <2>2 DEF Follows
    <3> QED
      BY <2>2, <3>1, <3>2
  <2> QED
    BY <2>1, <2>2
<1>8. f = [T \in SUBSET S |-> IF T = {} THEN start
                              ELSE op[<<last[T], f[T \ {last[T]}]>>]]
  <2>1. f = [T \in SUBSET S |-> f[T]]
    BY Zenon, <1>6
  <2> QED
    BY Zenon, <1>7, <2>1
<1> QED
  BY Zenon, <1>6, <1>8 DEF WalksDown

(* A relation by which any two differ, and that goes on, has a last in any *)
(* finite set.                                                             *)
TotallyOrders(R, S) ==
  /\ \A x, y \in S : x # y => <<x, y>> \in R \/ <<y, x>> \in R
  /\ \A x, y, z \in S : <<x, y>> \in R /\ <<y, z>> \in R => <<x, z>> \in R
  /\ \A x \in S : <<x, x>> \notin R

LEMMA LastExists ==
  ASSUME NEW S, IsFiniteSet(S), S # {}, NEW R, TotallyOrders(R, S)
  PROVE  \E x \in S : \A y \in S \ {x} : <<y, x>> \in R
<1> DEFINE After(x) == {y \in S : <<x, y>> \in R}
           Bad == {After(x) : x \in S}
<1>1. Bad \in SUBSET SUBSET S /\ Bad # {}
  OBVIOUS
<1>2. PICK T \in Bad : \A U \in SUBSET T : U # T => U \notin Bad
  <2> HIDE DEF Bad
  <2> QED
    BY <1>1, SetInduction
<1>3. PICK x \in S : T = After(x)
  BY <1>2
<1>4. ASSUME NEW y \in S, <<x, y>> \in R PROVE FALSE
  <2>1. After(y) \subseteq After(x) /\ y \in After(x) /\ y \notin After(y)
    BY <1>4 DEF TotallyOrders
  <2>2. After(y) \in Bad
    OBVIOUS
  <2> HIDE DEF Bad, After
  <2>3. After(y) \in SUBSET T /\ After(y) # T
    BY <1>3, <2>1
  <2> QED
    BY <1>2, <2>2, <2>3
<1> QED
  BY <1>4 DEF TotallyOrders
=============================================================================
