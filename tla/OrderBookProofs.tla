--------------------------- MODULE OrderBookProofs ---------------------------
(***************************************************************************)
(* Proofs about the operations of OrderBook, for every book, order, price  *)
(* and quantity.  The loops of the source are folds over sequences; each   *)
(* of them is unrolled into the states it goes through, and what holds of  *)
(* every state is shown by an induction over a range of numbers.           *)
(***************************************************************************)
EXTENDS OrderBook, SequenceTheorems, FiniteSetTheorems, TLAPS

(* Numbers and folds. *)

\* A set of naturals that is not empty has a least one.
LEMMA Least ==
  ASSUME NEW B, B \subseteq Nat, B # {}
  PROVE  \E x \in B : \A y \in B : x <= y
<1>1. PICK n \in B : TRUE
  OBVIOUS
<1> DEFINE S == 0..n
           T == {0..k : k \in B \cap S}
<1>2. IsFiniteSet(S) /\ n \in Nat
  BY <1>1, FS_Interval
<1>3. /\ FiniteSubsetsOf(S) = SUBSET S
      /\ IsWellFoundedOn(StrictSubsetOrdering(S), SUBSET S)
  BY <1>2, FS_FiniteSubsetsOfFinite, FS_StrictSubsetOrderingWellFounded
<1>4. T \subseteq SUBSET S
  BY <1>2
<1>5. 0..n \in T
  BY <1>1, <1>2
<1>6. PICK s \in T : \A t \in T : ~ (<<t, s>> \in StrictSubsetOrdering(S))
  <2> HIDE DEF T, S
  <2>1. QED
    BY <1>3, <1>4, <1>5, WFMin
<1>7. PICK x \in B \cap S : s = 0..x
  BY <1>6
<1>8. ASSUME NEW y \in B, y < x PROVE FALSE
  <2>a. x \in 0..n
    BY <1>7
  <2> HIDE DEF T
  <2>b. y \in 0..n
    <3> HIDE DEF S
    <3>1. x \in Nat /\ x <= n /\ y \in Nat
      BY <1>2, <2>a
    <3>2. QED
      BY <1>2, <1>8, <3>1
  <2>0. y \in B \cap S
    BY <2>b
  <2> USE DEF T
  <2>1. 0..y \in T
    BY <2>0
  <2>2. 0..y \subseteq s /\ 0..y # s /\ x \in Nat
    BY <1>7, <1>8
  <2>3. QED
    BY <1>4, <1>6, <2>1, <2>2 DEF StrictSubsetOrdering
<1>9. \A y \in B : x <= y
  BY <1>8, <1>7
<1>10. QED
  BY <1>7, <1>9

\* Induction from 0 to n, for a set of numbers.
LEMMA Upwards ==
  ASSUME NEW n \in Nat, NEW S, 0 \in S, \A k \in 1..n : k - 1 \in S => k \in S
  PROVE  \A k \in 0..n : k \in S
<1> DEFINE B == {k \in 0..n : k \notin S}
<1>1. SUFFICES ASSUME B # {} PROVE FALSE
  OBVIOUS
<1>2. B \subseteq Nat
  OBVIOUS
<1>3. PICK x \in B : \A y \in B : x <= y
  <2> HIDE DEF B
  <2>1. QED
    BY <1>1, <1>2, Least
<1>4. x \in 1..n
  OBVIOUS
<1>5. x - 1 \in 0..n /\ x - 1 < x
  BY <1>4
<1>6. x - 1 \in S
  BY <1>3, <1>5
<1>7. QED
  BY <1>4, <1>6

\* The largest of some numbers up to n.
LEMMA MaxOfSome ==
  ASSUME NEW n \in Nat, NEW s \in SUBSET (1..n), s # {}
  PROVE  Max(s) \in s /\ \A y \in s : Max(s) >= y
<1> DEFINE B == {n - y : y \in s}
<1>1. PICK x \in B : \A y \in B : x <= y
  <2>1. \A y \in s : n - y \in Nat
    OBVIOUS
  <2>2. B \subseteq Nat /\ B # {}
    BY <2>1
  <2> HIDE DEF B
  <2>3. QED
    BY <2>2, Least
<1>2. PICK m \in s : x = n - m
  OBVIOUS
<1>3. \A y \in s : m >= y
  BY <1>1, <1>2
<1>4. QED
  BY <1>2, <1>3 DEF Max

\* The largest of the first n numbers, and what is left without it.
LEMMA MaxOfFirst ==
  ASSUME NEW n \in Nat \ {0}
  PROVE  Max(1..n) = n /\ (1..n) \ {Max(1..n)} = 1..(n-1) /\ 1..n # {}
<1>1. Max(1..n) = n
  <2>1. 1..n \in SUBSET (1..n) /\ n \in 1..n
    OBVIOUS
  <2>2. Max(1..n) \in 1..n /\ Max(1..n) >= n
    BY <2>1, MaxOfSome
  <2>3. QED
    BY <2>2
<1>2. (1..n) \ {n} = 1..(n-1) /\ n \in 1..n
  OBVIOUS
<1>3. QED
  BY <1>1, <1>2

\* Some of the first n numbers, with n among them or not.
LEMMA SomeOfFirst ==
  ASSUME NEW n \in Nat \ {0}, NEW s \in SUBSET (1..n)
  PROVE  /\ n \in s => Max(s) = n /\ s \ {n} \in SUBSET (1..(n-1))
         /\ n \notin s => s \in SUBSET (1..(n-1))
<1>1. ASSUME n \in s PROVE Max(s) = n /\ s \ {n} \in SUBSET (1..(n-1))
  <2>1. Max(s) \in s /\ Max(s) >= n
    BY <1>1, MaxOfSome
  <2>2. Max(s) \in 1..n
    BY <2>1
  <2>3. QED
    BY <2>1, <2>2
<1>2. QED
  BY <1>1

\* Max and Min of two numbers, as the source's Math.max and Math.min.
LEMMA OfTwo ==
  ASSUME NEW a \in Int, NEW b \in Int
  PROVE  /\ Max({a, b}) = IF a >= b THEN a ELSE b
         /\ Min({a, b}) = IF a <= b THEN a ELSE b
  BY DEF Max, Min

\* What a fold with step h and start `base` over q computes, for every set of
\* indexes up to n.
Folds(g, h, base, q, n) ==
  \A s \in SUBSET (1..n) : g[s] = IF s = {} THEN base ELSE h[g[s \ {Max(s)}]][q[Max(s)]]

\* One more index.
LEMMA FoldGrows ==
  ASSUME NEW A, NEW X, NEW h \in [A -> [X -> A]], NEW base \in A, NEW q, NEW n \in Nat \ {0},
         q[n] \in X, NEW f \in [SUBSET (1..(n-1)) -> A], Folds(f, h, base, q, n - 1)
  PROVE  \E g \in [SUBSET (1..n) -> A] : Folds(g, h, base, q, n)
<1> DEFINE g == [s \in SUBSET (1..n) |-> IF n \in s THEN h[f[s \ {n}]][q[n]] ELSE f[s]]
<1>1. ASSUME NEW s \in SUBSET (1..n), n \in s
      PROVE  /\ Max(s) = n /\ s \ {n} \in SUBSET (1..(n-1)) /\ g[s] \in A
             /\ g[s] = h[g[s \ {Max(s)}]][q[Max(s)]]
  <2>2. Max(s) = n
    BY <1>1, SomeOfFirst
  <2>3. s \ {n} \in SUBSET (1..(n-1))
    BY <1>1, SomeOfFirst
  <2>4. g[s \ {n}] = f[s \ {n}] /\ f[s \ {n}] \in A
    BY <2>3
  <2>5. g[s] = h[f[s \ {n}]][q[n]]
    BY <1>1
  <2>6. h[f[s \ {n}]][q[n]] \in A
    BY <2>4
  <2> HIDE DEF g
  <2>7. QED
    BY <2>2, <2>3, <2>4, <2>5, <2>6
<1>2. ASSUME NEW s \in SUBSET (1..n), n \notin s
      PROVE  /\ g[s] \in A
             /\ g[s] = IF s = {} THEN base ELSE h[g[s \ {Max(s)}]][q[Max(s)]]
  <2>1. s \in SUBSET (1..(n-1))
    BY <1>2, SomeOfFirst
  <2>2. g[s] = f[s] /\ f[s] \in A
    BY <1>2, <2>1
  <2>3. f[s] = IF s = {} THEN base ELSE h[f[s \ {Max(s)}]][q[Max(s)]]
    BY <2>1 DEF Folds
  <2>4. g[s \ {Max(s)}] = f[s \ {Max(s)}]
    BY <1>2, <2>1
  <2> HIDE DEF g
  <2>5. QED
    BY <2>2, <2>3, <2>4
<1>3. g \in [SUBSET (1..n) -> A]
  <2>1. \A s \in SUBSET (1..n) : g[s] \in A
    BY <1>1, <1>2
  <2>2. QED
    BY <2>1
<1>4. Folds(g, h, base, q, n)
  <2> HIDE DEF g
  <2>1. QED
    BY <1>1, <1>2 DEF Folds
<1>5. QED
  <2> HIDE DEF g
  <2>1. QED
    BY <1>3, <1>4

\* The function a fold over a sequence is defined by exists, when the step
\* stays within some set.
LEMMA FoldExists ==
  ASSUME NEW A, NEW X, NEW h \in [A -> [X -> A]], NEW base \in A, NEW q \in Seq(X)
  PROVE  \E g \in [SUBSET (1..Len(q)) -> A] : Folds(g, h, base, q, Len(q))
<1> DEFINE S == {n \in 0..Len(q) : \E g \in [SUBSET (1..n) -> A] : Folds(g, h, base, q, n)}
<1>1. Len(q) \in Nat /\ DOMAIN q = 1..Len(q)
  BY LenProperties
<1>2. 0 \in S
  <2> DEFINE g == [s \in SUBSET (1..0) |-> base]
  <2>1. \A s \in SUBSET (1..0) : s = {}
    OBVIOUS
  <2>2. g \in [SUBSET (1..0) -> A]
    OBVIOUS
  <2>3. Folds(g, h, base, q, 0)
    BY <2>1 DEF Folds
  <2>4. \E f \in [SUBSET (1..0) -> A] : Folds(f, h, base, q, 0)
    <3> HIDE DEF g
    <3>1. QED
      BY <2>2, <2>3
  <2>5. 0 \in 0..Len(q)
    BY <1>1
  <2>6. QED
    BY <2>4, <2>5
<1>3. ASSUME NEW n \in 1..Len(q), n - 1 \in S PROVE n \in S
  <2>1. PICK f \in [SUBSET (1..(n-1)) -> A] : Folds(f, h, base, q, n - 1)
    BY <1>3
  <2>2. n \in Nat \ {0} /\ q[n] \in X /\ n \in 0..Len(q)
    BY <1>1, ElementOfSeq
  <2>3. \E g \in [SUBSET (1..n) -> A] : Folds(g, h, base, q, n)
    BY <2>1, <2>2, FoldGrows
  <2>4. QED
    BY <2>2, <2>3
<1>4. Len(q) \in S
  <2>1. \A k \in 0..Len(q) : k \in S
    <3> HIDE DEF S
    <3>1. QED
      BY <1>1, <1>2, <1>3, Upwards
  <2>2. Len(q) \in 0..Len(q)
    BY <1>1
  <2>3. QED
    <3> HIDE DEF S
    <3>1. QED
      BY <2>1, <2>2
<1>5. QED
  BY <1>4

-----------------------------------------------------------------------------
(* Sums. *)

\* A collection of subsets of a finite set has one without a smaller one in it.
LEMMA SmallestSubset ==
  ASSUME NEW S, IsFiniteSet(S), NEW B, B \subseteq SUBSET S, B # {}
  PROVE  \E s \in B : \A t \in SUBSET s : t # s => t \notin B
<1>1. FiniteSubsetsOf(S) = SUBSET S
  BY FS_FiniteSubsetsOfFinite
<1>2. IsWellFoundedOn(StrictSubsetOrdering(S), SUBSET S)
  BY <1>1, FS_StrictSubsetOrderingWellFounded
<1>3. PICK s \in B : \A t \in B : ~ (<<t, s>> \in StrictSubsetOrdering(S))
  BY <1>2, WFMin
<1>4. QED
  BY <1>3 DEF StrictSubsetOrdering

\* The function that SumFunctionOnSet chooses, and the equation it is chosen by.
Picked(s)         == CHOOSE x \in s : TRUE
SumStep(f, g, S)  == [s \in SUBSET S |->
                        IF s = {} THEN 0 ELSE f[Picked(s)] + g[s \ {Picked(s)}]]
Partial(f, S)     == CHOOSE g : g = SumStep(f, g, S)

\* The library's sum is that function at the whole set.
LEMMA SumIsPartial ==
  ASSUME NEW f, NEW S
  PROVE  SumFunctionOnSet(f, S) = Partial(f, S)[S]
  BY DEF SumFunctionOnSet, FoldFunctionOnSet, MapThenFoldSet, Partial, Picked, SumStep

\* Functions that satisfy the equation agree where both are defined.
LEMMA PartialsAgree ==
  ASSUME NEW f, NEW S, IsFiniteSet(S), NEW T \in SUBSET S,
         NEW g, NEW h, g = SumStep(f, g, S), h = SumStep(f, h, T)
  PROVE  g[T] = h[T]
<1> DEFINE B == {s \in SUBSET T : g[s] # h[s]}
<1>1. SUFFICES ASSUME B # {} PROVE FALSE
  OBVIOUS
<1>3. PICK s \in B : \A t \in SUBSET s : t # s => t \notin B
  <2>1. B \subseteq SUBSET S
    OBVIOUS
  <2> HIDE DEF B
  <2>2. QED
    BY <1>1, <2>1, SmallestSubset
<1>4. /\ g[s] = (IF s = {} THEN 0 ELSE f[Picked(s)] + g[s \ {Picked(s)}])
      /\ h[s] = (IF s = {} THEN 0 ELSE f[Picked(s)] + h[s \ {Picked(s)}])
  BY DEF SumStep
<1>5. Picked(s) \in s
  BY <1>4 DEF Picked
<1>6. g[s \ {Picked(s)}] = h[s \ {Picked(s)}]
  BY <1>3, <1>5
<1>7. QED
  BY <1>4, <1>6

\* There is such a function for every finite set.
LEMMA PartialExists ==
  ASSUME NEW f, NEW S, IsFiniteSet(S)
  PROVE  Partial(f, S) = SumStep(f, Partial(f, S), S)
<1> DEFINE B == {s \in SUBSET S : ~\E g : g = SumStep(f, g, s)}
<1>1. SUFFICES ASSUME B # {} PROVE FALSE
  <2>1. ASSUME B = {} PROVE \E g : g = SumStep(f, g, S)
    BY <2>1
  <2>2. QED
    BY <2>1 DEF Partial
<1>2. PICK s \in B : \A t \in SUBSET s : t # s => t \notin B
  <2>1. B \subseteq SUBSET S
    OBVIOUS
  <2> HIDE DEF B
  <2>2. QED
    BY <1>1, <2>1, SmallestSubset
<1> DEFINE rest(t) == t \ {Picked(t)}
           g == [t \in SUBSET s |->
                   IF t = {} THEN 0 ELSE f[Picked(t)] + Partial(f, rest(t))[rest(t)]]
<1>3. ASSUME NEW t \in SUBSET s, t # s
      PROVE  Partial(f, t) = SumStep(f, Partial(f, t), t)
  <2>1. \E k : k = SumStep(f, k, t)
    BY <1>2, <1>3
  <2>2. QED
    BY <2>1 DEF Partial
<1>4. ASSUME NEW t \in SUBSET s, t # {} PROVE g[t] = f[Picked(t)] + g[rest(t)]
  <2> DEFINE u == rest(t)
  <2>1. Picked(t) \in t
    BY <1>4 DEF Picked
  <2>2. u \in SUBSET s /\ u # s
    BY <2>1
  <2>3. Partial(f, u) = SumStep(f, Partial(f, u), u)
    BY <2>2, <1>3
  <2>4. g[u] = Partial(f, u)[u]
    <3>1. CASE u = {}
      <4>1. Partial(f, u)[u] = 0
        BY <2>3, <3>1 DEF SumStep
      <4>2. QED
        BY <4>1, <3>1
    <3>2. CASE u # {}
      <4> DEFINE v == rest(u)
      <4>1. Picked(u) \in u
        BY <3>2 DEF Picked
      <4>2. g[u] = f[Picked(u)] + Partial(f, v)[v]
        BY <3>2, <2>2
      <4>3. Partial(f, u)[u] = f[Picked(u)] + Partial(f, u)[v]
        BY <3>2, <2>3 DEF SumStep
      <4>4. v \in SUBSET s /\ v # s
        BY <2>2, <4>1
      <4>5. Partial(f, v) = SumStep(f, Partial(f, v), v)
        BY <4>4, <1>3
      <4>6. IsFiniteSet(u)
        BY <2>2, FS_Subset
      <4>7. Partial(f, u)[v] = Partial(f, v)[v]
        BY <4>5, <4>6, <2>3, PartialsAgree
      <4>8. QED
        BY <4>2, <4>3, <4>7
    <3>3. QED
      BY <3>1, <3>2
  <2>5. QED
    BY <2>4, <1>4
<1>5. g = SumStep(f, g, s)
  BY <1>4 DEF SumStep
<1>6. QED
  BY <1>5, <1>2

\* The sum over nothing is nothing.
LEMMA SumEmpty ==
  ASSUME NEW f
  PROVE  SumFunctionOnSet(f, {}) = 0
<1>1. Partial(f, {}) = SumStep(f, Partial(f, {}), {})
  BY PartialExists, FS_EmptySet
<1>2. QED
  BY <1>1, SumIsPartial DEF SumStep

\* The sum takes the element picked first, and then the rest.
LEMMA SumPick ==
  ASSUME NEW f, NEW S, IsFiniteSet(S), S # {}
  PROVE  /\ Picked(S) \in S
         /\ SumFunctionOnSet(f, S)
              = f[Picked(S)] + SumFunctionOnSet(f, S \ {Picked(S)})
<1> DEFINE T == S \ {Picked(S)}
<1>1. Partial(f, S) = SumStep(f, Partial(f, S), S)
  BY PartialExists
<1>2. Picked(S) \in S
  BY DEF Picked
<1>3. IsFiniteSet(T) /\ T \in SUBSET S
  BY FS_Subset
<1>4. Partial(f, T) = SumStep(f, Partial(f, T), T)
  BY <1>3, PartialExists
<1>5. Partial(f, S)[T] = Partial(f, T)[T]
  BY <1>1, <1>3, <1>4, PartialsAgree
<1>6. Partial(f, S)[S] = f[Picked(S)] + Partial(f, S)[T]
  BY <1>1 DEF SumStep
<1>7. QED
  BY <1>2, <1>5, <1>6, SumIsPartial

\* A sum of integers is an integer.
LEMMA SumInt ==
  ASSUME NEW S, IsFiniteSet(S), NEW f, \A x \in S : f[x] \in Int
  PROVE  SumFunctionOnSet(f, S) \in Int
<1> DEFINE B == {s \in SUBSET S : SumFunctionOnSet(f, s) \notin Int}
<1>1. SUFFICES ASSUME B # {} PROVE FALSE
  OBVIOUS
<1>2. PICK s \in B : \A t \in SUBSET s : t # s => t \notin B
  <2>1. B \subseteq SUBSET S
    OBVIOUS
  <2> HIDE DEF B
  <2>2. QED
    BY <1>1, <2>1, SmallestSubset
<1>3. IsFiniteSet(s)
  BY FS_Subset
<1>4. s # {}
  BY SumEmpty
<1>5. /\ Picked(s) \in s
      /\ SumFunctionOnSet(f, s) = f[Picked(s)] + SumFunctionOnSet(f, s \ {Picked(s)})
  BY <1>3, <1>4, SumPick
<1>6. SumFunctionOnSet(f, s \ {Picked(s)}) \in Int
  BY <1>2, <1>5
<1>7. QED
  BY <1>5, <1>6

\* Any element may be taken out first.
LEMMA SumTake ==
  ASSUME NEW S, IsFiniteSet(S), NEW f, \A x \in S : f[x] \in Int, NEW x \in S
  PROVE  SumFunctionOnSet(f, S) = f[x] + SumFunctionOnSet(f, S \ {x})
<1> DEFINE sum(s) == SumFunctionOnSet(f, s)
           B == {s \in SUBSET S : \E y \in s : sum(s) # f[y] + sum(s \ {y})}
<1>1. SUFFICES ASSUME B # {} PROVE FALSE
  <2>1. ASSUME S \notin B PROVE sum(S) = f[x] + sum(S \ {x})
    BY <2>1
  <2>2. QED
    BY <2>1
<1>2. PICK s \in B : \A t \in SUBSET s : t # s => t \notin B
  <2>1. B \subseteq SUBSET S
    OBVIOUS
  <2> HIDE DEF B
  <2>2. QED
    BY <1>1, <2>1, SmallestSubset
<1>3. PICK y \in s : sum(s) # f[y] + sum(s \ {y})
  OBVIOUS
<1>4. \A t \in SUBSET s : t # s => \A z \in t : sum(t) = f[z] + sum(t \ {z})
  BY <1>2
<1> DEFINE p == Picked(s)
<1>5. \A t \in SUBSET s : IsFiniteSet(t) /\ sum(t) \in Int
  BY FS_Subset, SumInt
<1>6. p \in s /\ sum(s) = f[p] + sum(s \ {p})
  BY <1>5, SumPick
<1>7. p # y
  BY <1>3, <1>6
<1> DEFINE rest == (s \ {p}) \ {y}
<1>8. sum(s \ {p}) = f[y] + sum(rest)
  <2>1. s \ {p} \in SUBSET s /\ s \ {p} # s /\ y \in s \ {p}
    BY <1>6, <1>7
  <2>2. QED
    BY <1>4, <2>1
<1>9. sum(s \ {y}) = f[p] + sum(rest)
  <2>1. (s \ {y}) \ {p} = rest
    OBVIOUS
  <2>2. s \ {y} \in SUBSET s /\ s \ {y} # s /\ p \in s \ {y}
    BY <1>6, <1>7
  <2>3. QED
    BY <1>4, <2>1, <2>2
<1>10. f[p] \in Int /\ f[y] \in Int /\ sum(rest) \in Int
  BY <1>5, <1>6
<1> HIDE DEF p, rest, sum
<1>11. QED
  BY <1>3, <1>6, <1>8, <1>9, <1>10

\* Only the values on the set count.
LEMMA SumSame ==
  ASSUME NEW S, IsFiniteSet(S), NEW f, NEW g, \A x \in S : f[x] = g[x]
  PROVE  SumFunctionOnSet(f, S) = SumFunctionOnSet(g, S)
<1> DEFINE B == {s \in SUBSET S : SumFunctionOnSet(f, s) # SumFunctionOnSet(g, s)}
<1>1. SUFFICES ASSUME B # {} PROVE FALSE
  OBVIOUS
<1>2. PICK s \in B : \A t \in SUBSET s : t # s => t \notin B
  <2>1. B \subseteq SUBSET S
    OBVIOUS
  <2> HIDE DEF B
  <2>2. QED
    BY <1>1, <2>1, SmallestSubset
<1>3. IsFiniteSet(s)
  BY FS_Subset
<1>4. s # {}
  BY SumEmpty
<1>5. /\ Picked(s) \in s
      /\ SumFunctionOnSet(f, s) = f[Picked(s)] + SumFunctionOnSet(f, s \ {Picked(s)})
      /\ SumFunctionOnSet(g, s) = g[Picked(s)] + SumFunctionOnSet(g, s \ {Picked(s)})
  BY <1>3, <1>4, SumPick
<1>6. SumFunctionOnSet(f, s \ {Picked(s)}) = SumFunctionOnSet(g, s \ {Picked(s)})
  BY <1>2, <1>5
<1>7. QED
  BY <1>5, <1>6

\* The rest of the section is about SumFunction, the sum of all values of a
\* function with a finite domain.

\* It is an integer.
LEMMA TotalInt ==
  ASSUME NEW S, IsFiniteSet(S), NEW f \in [S -> Int]
  PROVE  SumFunction(f) \in Int
  BY SumInt DEF SumFunction

\* It is zero when all values are.
LEMMA TotalZero ==
  ASSUME NEW S, IsFiniteSet(S), NEW f \in [S -> Int], \A x \in S : f[x] = 0
  PROVE  SumFunction(f) = 0
<1> DEFINE B == {s \in SUBSET S : SumFunctionOnSet(f, s) # 0}
<1>1. SUFFICES ASSUME B # {} PROVE FALSE
  BY DEF SumFunction
<1>2. PICK s \in B : \A t \in SUBSET s : t # s => t \notin B
  <2>1. B \subseteq SUBSET S
    OBVIOUS
  <2> HIDE DEF B
  <2>2. QED
    BY <1>1, <2>1, SmallestSubset
<1>3. IsFiniteSet(s) /\ s # {}
  BY FS_Subset, SumEmpty
<1>4. /\ Picked(s) \in s
      /\ SumFunctionOnSet(f, s) = f[Picked(s)] + SumFunctionOnSet(f, s \ {Picked(s)})
  BY <1>3, SumPick
<1>5. SumFunctionOnSet(f, s \ {Picked(s)}) = 0
  BY <1>2, <1>4
<1>6. QED
  BY <1>4, <1>5

\* It follows the one value that changes.
LEMMA TotalChange ==
  ASSUME NEW S, IsFiniteSet(S), NEW f \in [S -> Int], NEW g \in [S -> Int],
         NEW x \in S, \A y \in S \ {x} : g[y] = f[y]
  PROVE  SumFunction(g) = SumFunction(f) + (g[x] - f[x])
<1> DEFINE T == S \ {x}
<1>1. IsFiniteSet(T)
  BY FS_Subset
<1>2. /\ SumFunctionOnSet(f, S) = f[x] + SumFunctionOnSet(f, T)
      /\ SumFunctionOnSet(g, S) = g[x] + SumFunctionOnSet(g, T)
  BY SumTake
<1>3. SumFunctionOnSet(f, T) = SumFunctionOnSet(g, T) /\ SumFunctionOnSet(f, T) \in Int
  BY <1>1, SumSame, SumInt
<1>4. QED
  BY <1>2, <1>3 DEF SumFunction

\* It grows by the value of an element that is added.
LEMMA TotalExtend ==
  ASSUME NEW S, IsFiniteSet(S), NEW x, x \notin S,
         NEW f \in [S -> Int], NEW g \in [S \cup {x} -> Int],
         \A y \in S : g[y] = f[y]
  PROVE  SumFunction(g) = SumFunction(f) + g[x]
<1>1. IsFiniteSet(S \cup {x})
  BY FS_AddElement
<1>2. (S \cup {x}) \ {x} = S
  OBVIOUS
<1>3. SumFunctionOnSet(g, S \cup {x}) = g[x] + SumFunctionOnSet(g, S)
  BY <1>1, <1>2, SumTake
<1>4. SumFunctionOnSet(g, S) = SumFunctionOnSet(f, S) /\ SumFunctionOnSet(f, S) \in Int
  BY SumSame, SumInt
<1>5. QED
  BY <1>3, <1>4 DEF SumFunction

\* It is no smaller than the sum over a part, if no value is negative.
LEMMA TotalOfPart ==
  ASSUME NEW S, IsFiniteSet(S), NEW T \in SUBSET S,
         NEW f \in [S -> Nat], NEW g \in [T -> Nat], \A x \in T : g[x] = f[x]
  PROVE  SumFunction(g) <= SumFunction(f)
<1> DEFINE B == {s \in SUBSET S : /\ T \subseteq s
                                  /\ ~(SumFunctionOnSet(f, T) <= SumFunctionOnSet(f, s))}
<1>1. SumFunctionOnSet(f, T) = SumFunctionOnSet(g, T)
  BY FS_Subset, SumSame
<1>2. SUFFICES ASSUME B # {} PROVE FALSE
  BY <1>1 DEF SumFunction
<1>3. PICK s \in B : \A t \in SUBSET s : t # s => t \notin B
  <2>1. B \subseteq SUBSET S
    OBVIOUS
  <2> HIDE DEF B
  <2>2. QED
    BY <1>2, <2>1, SmallestSubset
<1>4. \A t \in SUBSET S : IsFiniteSet(t) /\ SumFunctionOnSet(f, t) \in Int
  BY FS_Subset, SumInt
<1>5. s # T
  BY <1>4
<1>6. PICK x \in s \ T : TRUE
  BY <1>5
<1>7. SumFunctionOnSet(f, s) = f[x] + SumFunctionOnSet(f, s \ {x})
  BY <1>4, SumTake
<1>8. SumFunctionOnSet(f, T) <= SumFunctionOnSet(f, s \ {x})
  BY <1>3, <1>6
<1>9. f[x] \in Nat
  OBVIOUS
<1>10. QED
  BY <1>4, <1>7, <1>8, <1>9

\* It is not negative then.
LEMMA TotalNat ==
  ASSUME NEW S, IsFiniteSet(S), NEW f \in [S -> Nat]
  PROVE  f \in [S -> Int] /\ SumFunction(f) \in Nat
<1>1. f \in [S -> Int] /\ \A x \in S : f[x] \in Nat
  OBVIOUS
<1>2. SumFunction(f) \in Int
  BY <1>1, TotalInt
<1> DEFINE none == [x \in {} |-> 0]
<1>3. none \in [{} -> Int] /\ none \in [{} -> Nat] /\ \A x \in {} : none[x] = 0
  OBVIOUS
<1>4. SumFunction(none) = 0
  BY <1>3, FS_EmptySet, TotalZero
<1>5. SumFunction(none) <= SumFunction(f)
  <2>1. {} \in SUBSET S /\ \A x \in {} : none[x] = f[x]
    OBVIOUS
  <2> HIDE DEF none
  <2>2. QED
    BY <1>3, <2>1, TotalOfPart
<1>6. QED
  BY <1>2, <1>4, <1>5

(* Sums over sequences. *)

\* It grows by the last value.
LEMMA TotalLonger ==
  ASSUME NEW n \in Nat, NEW f \in [1..n -> Int], NEW g \in [1..(n+1) -> Int],
         \A i \in 1..n : g[i] = f[i]
  PROVE  SumFunction(g) = SumFunction(f) + g[n+1]
<1> DEFINE S == 1..n
           x == n + 1
           a == f
           b == g
<1>1. S \cup {x} = 1..(n+1) /\ x \notin S
  OBVIOUS
<1>2. a \in [S -> Int] /\ b \in [S \cup {x} -> Int] /\ \A y \in S : b[y] = a[y]
  BY <1>1
<1>3. IsFiniteSet(S) /\ x \notin S
  BY FS_Interval
<1> HIDE DEF S, x, a, b
<1>4. SumFunction(b) = SumFunction(a) + b[x]
  BY <1>2, <1>3, TotalExtend
<1>5. QED
  BY <1>4 DEF x, a, b

\* The sum over a sequence goes through it, adding one value after the other.
LEMMA TotalStates ==
  ASSUME NEW n \in Nat, NEW f \in [1..n -> Int]
  PROVE  \E st \in [0..n -> Int] : /\ st[0] = 0
                                   /\ \A k \in 1..n : st[k] = st[k-1] + f[k]
                                   /\ SumFunction(f) = st[n]
<1> DEFINE g(k) == [i \in 1..k |-> f[i]]
           st == [k \in 0..n |-> SumFunction(g(k))]
<1>1. \A k \in 0..n : g(k) \in [1..k -> Int] /\ IsFiniteSet(1..k)
  <2>1. ASSUME NEW k \in 0..n PROVE g(k) \in [1..k -> Int] /\ IsFiniteSet(1..k)
    <3>1. k \in Int /\ \A i \in 1..k : i \in 1..n
      OBVIOUS
    <3>2. QED
      BY <3>1, FS_Interval
  <2>2. QED
    BY <2>1
<1>2. \A k \in 0..n : SumFunction(g(k)) \in Int
  <2> HIDE DEF g
  <2>1. QED
    BY <1>1, TotalInt
<1>3. SumFunction(g(0)) = 0
  <2> DEFINE e == g(0)
  <2>1. e \in [{} -> Int] /\ \A x \in {} : e[x] = 0
    OBVIOUS
  <2> HIDE DEF e
  <2>2. SumFunction(e) = 0
    BY <2>1, FS_EmptySet, TotalZero
  <2>3. QED
    BY <2>2 DEF e
<1>4. ASSUME NEW k \in 1..n PROVE SumFunction(g(k)) = SumFunction(g(k-1)) + f[k]
  <2> DEFINE a == g(k-1)
             b == g(k)
             j == k - 1
  <2>1. k - 1 \in 0..n /\ k \in 0..n /\ j \in Nat /\ j + 1 = k
    OBVIOUS
  <2>2. a \in [1..j -> Int] /\ b \in [1..(j+1) -> Int] /\ \A i \in 1..j : b[i] = a[i]
    BY <1>1, <2>1
  <2>3. b[k] = f[k]
    BY <2>1
  <2> HIDE DEF a, b, j
  <2>4. SumFunction(b) = SumFunction(a) + b[j+1]
    BY <2>1, <2>2, TotalLonger
  <2>5. QED
    BY <2>1, <2>3, <2>4 DEF a, b
<1>5. g(n) = f
  OBVIOUS
<1> HIDE DEF g
<1>6. st \in [0..n -> Int]
  BY <1>2
<1>7. st[0] = 0 /\ st[n] = SumFunction(f)
  BY <1>3, <1>5
<1>8. \A k \in 1..n : st[k] = st[k-1] + f[k]
  <2>1. \A k \in 1..n : k - 1 \in 0..n /\ k \in 0..n
    OBVIOUS
  <2>2. QED
    BY <1>4, <2>1
<1> HIDE DEF st
<1>9. QED
  BY <1>6, <1>7, <1>8

\* Over two sequences, one after the other, it is the sum of both.
LEMMA TotalBoth ==
  ASSUME NEW m \in Nat, NEW n \in Nat, NEW f \in [1..m -> Int], NEW g \in [1..n -> Int],
         NEW h \in [1..(m+n) -> Int],
         \A i \in 1..m : h[i] = f[i], \A i \in 1..n : h[m+i] = g[i]
  PROVE  SumFunction(h) = SumFunction(f) + SumFunction(g)
<1>1. PICK r \in [0..m -> Int] : /\ r[0] = 0
                                 /\ \A k \in 1..m : r[k] = r[k-1] + f[k]
                                 /\ SumFunction(f) = r[m]
  BY TotalStates
<1>2. PICK s \in [0..n -> Int] : /\ s[0] = 0
                                 /\ \A k \in 1..n : s[k] = s[k-1] + g[k]
                                 /\ SumFunction(g) = s[n]
  BY TotalStates
<1>3. m + n \in Nat
  OBVIOUS
<1>4. PICK t \in [0..(m+n) -> Int] : /\ t[0] = 0
                                     /\ \A k \in 1..(m+n) : t[k] = t[k-1] + h[k]
                                     /\ SumFunction(h) = t[m+n]
  BY <1>3, TotalStates
<1> DEFINE S == {k \in 0..m : t[k] = r[k]}
           T == {k \in 0..n : t[m+k] = r[m] + s[k]}
<1>5. 0 \in S
  BY <1>1, <1>4
<1>6. ASSUME NEW k \in 1..m, k - 1 \in S PROVE k \in S
  <2>1. k \in 0..m /\ k \in 1..(m+n) /\ t[k-1] = r[k-1]
    BY <1>6
  <2>2. QED
    BY <1>1, <1>4, <2>1
<1>7. t[m] = r[m]
  <2>1. \A k \in 0..m : k \in S
    <3> HIDE DEF S
    <3>1. QED
      BY <1>5, <1>6, Upwards
  <2>2. QED
    BY <2>1
<1>8. 0 \in T
  BY <1>2, <1>7
<1>9. ASSUME NEW k \in 1..n, k - 1 \in T PROVE k \in T
  <2>1. /\ k \in 0..n /\ m + k \in 1..(m+n) /\ (m + k) - 1 = m + (k - 1)
        /\ t[m+(k-1)] = r[m] + s[k-1]
    BY <1>9
  <2>2. t[m+k] = t[m+(k-1)] + g[k] /\ s[k] = s[k-1] + g[k]
    BY <1>2, <1>4, <2>1
  <2>3. r[m] \in Int /\ s[k-1] \in Int /\ g[k] \in Int
    <3>1. k - 1 \in 0..n /\ m \in 0..m
      OBVIOUS
    <3>2. QED
      BY <3>1
  <2>4. QED
    BY <2>1, <2>2, <2>3
<1>10. t[m+n] = r[m] + s[n]
  <2>1. \A k \in 0..n : k \in T
    <3> HIDE DEF T
    <3>1. QED
      BY <1>8, <1>9, Upwards
  <2>2. QED
    BY <2>1
<1>11. QED
  BY <1>1, <1>2, <1>4, <1>10

\* Without the i-th value it is that much less.
LEMMA TotalWithout ==
  ASSUME NEW n \in Nat, NEW f \in [1..n -> Int], NEW i \in 1..n, NEW g \in [1..(n-1) -> Int],
         \A k \in 1..(n-1) : g[k] = IF k < i THEN f[k] ELSE f[k+1]
  PROVE  SumFunction(g) = SumFunction(f) - f[i]
<1>1. PICK s \in [0..n -> Int] : /\ s[0] = 0
                                 /\ \A k \in 1..n : s[k] = s[k-1] + f[k]
                                 /\ SumFunction(f) = s[n]
  BY TotalStates
<1>2. n - 1 \in Nat
  OBVIOUS
<1>3. PICK t \in [0..(n-1) -> Int] : /\ t[0] = 0
                                     /\ \A k \in 1..(n-1) : t[k] = t[k-1] + g[k]
                                     /\ SumFunction(g) = t[n-1]
  BY <1>2, TotalStates
<1> DEFINE S == {k \in 0..(n-1) : t[k] = IF k < i THEN s[k] ELSE s[k+1] - f[i]}
<1>4. 0 \in S
  BY <1>1, <1>2, <1>3
<1>5. ASSUME NEW k \in 1..(n-1), k - 1 \in S PROVE k \in S
  <2>1. /\ k \in 0..(n-1) /\ k \in 1..n /\ k + 1 \in 1..n /\ k - 1 \in 0..n
        /\ (k + 1) - 1 = k /\ (k - 1) + 1 = k /\ k \in 0..n /\ k + 1 \in 0..n
    BY <1>2
  <2>2. s[k] = s[k-1] + f[k] /\ s[k+1] = s[k] + f[k+1] /\ t[k] = t[k-1] + g[k]
    BY <1>1, <1>3, <2>1
  <2>3. s[k-1] \in Int /\ s[k] \in Int /\ s[k+1] \in Int
    BY <2>1
  <2>4. f[k] \in Int /\ f[k+1] \in Int /\ f[i] \in Int
    BY <2>1
  <2>5. CASE k < i
    <3>1. t[k-1] = s[k-1] /\ g[k] = f[k]
      BY <1>5, <2>1, <2>5
    <3>2. QED
      BY <2>1, <2>2, <2>5, <3>1
  <2>6. CASE k = i
    <3>1. t[k-1] = s[k-1] /\ g[k] = f[k+1]
      BY <1>5, <2>1, <2>6
    <3>2. QED
      BY <2>1, <2>2, <2>3, <2>4, <2>6, <3>1
  <2>7. CASE k > i
    <3>1. t[k-1] = s[k] - f[i] /\ g[k] = f[k+1]
      BY <1>5, <2>1, <2>7
    <3>2. QED
      BY <2>1, <2>2, <2>3, <2>4, <2>7, <3>1
  <2>8. QED
    BY <2>1, <2>5, <2>6, <2>7
<1>6. t[n-1] = s[n] - f[i]
  <2>1. \A k \in 0..(n-1) : k \in S
    <3> HIDE DEF S
    <3>1. QED
      BY <1>2, <1>4, <1>5, Upwards
  <2>2. n - 1 \in 0..(n-1) /\ (n - 1) + 1 = n
    BY <1>2
  <2>3. CASE n - 1 < i
    <3>1. i = n /\ t[n-1] = s[n-1] /\ s[n] = s[n-1] + f[n]
      BY <1>1, <2>1, <2>2, <2>3
    <3>2. QED
      BY <3>1
  <2>4. CASE ~(n - 1 < i)
    BY <2>1, <2>2, <2>4
  <2>5. QED
    BY <2>3, <2>4
<1>7. QED
  BY <1>1, <1>3, <1>6

-----------------------------------------------------------------------------
(* Quantities of queues. *)

\* QtyOf goes through the queue, adding what each order wants.
LEMMA QtyOfStates ==
  ASSUME NEW X, \A o \in X : Fillable(o) \in Int, NEW q \in Seq(X)
  PROVE  \E st \in [0..Len(q) -> Int] :
           /\ st[0] = 0
           /\ \A k \in 1..Len(q) : st[k] = st[k-1] + Fillable(q[k])
           /\ QtyOf(q) = st[Len(q)]
<1> DEFINE A == Int
           Step(i) == [s \in SUBSET (DOMAIN q) |->
                         IF s = {} THEN 0
                         ELSE i[s \ {Max(s)}] + Fillable(q[Max(s)])]
           it == CHOOSE i : i = Step(i)
           h  == [a \in A |-> [x \in X |-> a + Fillable(x)]]
           st == [k \in 0..Len(q) |-> it[1..k]]
<1>1. Len(q) \in Nat /\ DOMAIN q = 1..Len(q) /\ \A k \in 1..Len(q) : q[k] \in X
  BY LenProperties, ElementOfSeq
<1>2. QtyOf(q) = it[DOMAIN q]
  BY DEF QtyOf, FoldLeft, MapThenFoldSet
<1>3. /\ 0 \in A
      /\ \A a \in A, x \in X : a + Fillable(x) \in A
  OBVIOUS
<1> HIDE DEF A
<1>4. \E i : i = Step(i)
  <2>1. h \in [A -> [X -> A]] /\ \A a \in A, x \in X : h[a][x] = a + Fillable(x)
    BY <1>3
  <2>2. PICK g \in [SUBSET (1..Len(q)) -> A] : Folds(g, h, 0, q, Len(q))
    <3> HIDE DEF h
    <3>1. QED
      BY <1>3, <2>1, FoldExists
  <2>3. ASSUME NEW s \in SUBSET (1..Len(q)), s # {}
        PROVE  g[s] = g[s \ {Max(s)}] + Fillable(q[Max(s)])
    <3>1. Max(s) \in 1..Len(q)
      BY <1>1, <2>3, MaxOfSome
    <3>2. g[s \ {Max(s)}] \in A /\ q[Max(s)] \in X
      BY <1>1, <3>1
    <3>3. g[s] = h[g[s \ {Max(s)}]][q[Max(s)]]
      BY <2>2, <2>3 DEF Folds
    <3> HIDE DEF h
    <3>4. QED
      BY <2>1, <3>2, <3>3
  <2>4. g[{}] = 0
    BY <2>2 DEF Folds
  <2>5. g = Step(g)
    BY <1>1, <2>2, <2>3, <2>4
  <2>6. QED
    BY <2>5
<1>5. it = Step(it)
  BY <1>4
<1>6. it[{}] = 0
  BY <1>5
<1>7. ASSUME NEW k \in 1..Len(q) PROVE it[1..k] = it[1..(k-1)] + Fillable(q[k])
  <2>1. k \in Nat \ {0} /\ 1..k \in SUBSET (DOMAIN q)
    BY <1>1
  <2>2. Max(1..k) = k /\ (1..k) \ {Max(1..k)} = 1..(k-1) /\ 1..k # {}
    BY <2>1, MaxOfFirst
  <2> HIDE DEF it
  <2>3. it[1..k] = it[(1..k) \ {Max(1..k)}] + Fillable(q[Max(1..k)])
    BY <1>5, <2>1, <2>2
  <2>4. QED
    BY <2>2, <2>3
<1> HIDE DEF it
<1>8. st[0] = 0
  <2>1. 1..0 = {}
    OBVIOUS
  <2>2. QED
    BY <1>1, <1>6, <2>1
<1>9. \A k \in 1..Len(q) : st[k] = st[k-1] + Fillable(q[k])
  <2>1. \A k \in 1..Len(q) : k - 1 \in 0..Len(q) /\ k \in 0..Len(q)
    BY <1>1
  <2>2. QED
    BY <1>7, <2>1
<1>10. \A k \in 0..Len(q) : st[k] \in A
  <2> DEFINE S == {k \in 0..Len(q) : st[k] \in A}
  <2>1. 0 \in S
    BY <1>1, <1>3, <1>8
  <2>2. ASSUME NEW k \in 1..Len(q), k - 1 \in S PROVE k \in S
    <3>1. st[k-1] \in A /\ k \in 0..Len(q) /\ q[k] \in X
      BY <1>1, <2>2
    <3>2. st[k] = st[k-1] + Fillable(q[k])
      BY <1>9
    <3> HIDE DEF st
    <3>3. QED
      BY <1>3, <3>1, <3>2
  <2>3. \A k \in 0..Len(q) : k \in S
    <3> HIDE DEF S
    <3>1. QED
      BY <1>1, <2>1, <2>2, Upwards
  <2>4. QED
    BY <2>3
<1>11. st \in [0..Len(q) -> A]
  BY <1>10
<1>12. st[Len(q)] = QtyOf(q)
  BY <1>1, <1>2
<1> HIDE DEF st
<1> USE DEF A
<1>13. QED
  BY <1>8, <1>9, <1>11, <1>12

\* Unfilled goes through the queue, keeping the orders that want something.
LEMMA UnfilledStates ==
  ASSUME NEW X, NEW q \in Seq(X)
  PROVE  \E st \in [0..Len(q) -> Seq(X)] :
           /\ st[0] = <<>>
           /\ \A k \in 1..Len(q) : st[k] = (IF q[k].filledQty < q[k].qty THEN Append(st[k-1], q[k]) ELSE st[k-1])
           /\ Unfilled(q) = st[Len(q)]
<1> DEFINE A == Seq(X)
           Step(i) == [s \in SUBSET (DOMAIN q) |->
                         IF s = {} THEN <<>>
                         ELSE (IF q[Max(s)].filledQty < q[Max(s)].qty THEN Append(i[s \ {Max(s)}], q[Max(s)]) ELSE i[s \ {Max(s)}])]
           it == CHOOSE i : i = Step(i)
           h  == [a \in A |-> [x \in X |-> (IF x.filledQty < x.qty THEN Append(a, x) ELSE a)]]
           st == [k \in 0..Len(q) |-> it[1..k]]
<1>1. Len(q) \in Nat /\ DOMAIN q = 1..Len(q) /\ \A k \in 1..Len(q) : q[k] \in X
  BY LenProperties, ElementOfSeq
<1>2. Unfilled(q) = it[DOMAIN q]
  BY DEF Unfilled, FoldLeft, MapThenFoldSet
<1>3. /\ <<>> \in A
      /\ \A a \in A, x \in X : (IF x.filledQty < x.qty THEN Append(a, x) ELSE a) \in A
  <2>1. <<>> \in A /\ \A a \in A, x \in X : Append(a, x) \in A
    BY EmptySeq, AppendProperties
  <2> HIDE DEF A
  <2>2. QED
    BY <2>1
<1> HIDE DEF A
<1>4. \E i : i = Step(i)
  <2>1. h \in [A -> [X -> A]] /\ \A a \in A, x \in X : h[a][x] = (IF x.filledQty < x.qty THEN Append(a, x) ELSE a)
    BY <1>3
  <2>2. PICK g \in [SUBSET (1..Len(q)) -> A] : Folds(g, h, <<>>, q, Len(q))
    <3> HIDE DEF h
    <3>1. QED
      BY <1>3, <2>1, FoldExists
  <2>3. ASSUME NEW s \in SUBSET (1..Len(q)), s # {}
        PROVE  g[s] = (IF q[Max(s)].filledQty < q[Max(s)].qty THEN Append(g[s \ {Max(s)}], q[Max(s)]) ELSE g[s \ {Max(s)}])
    <3>1. Max(s) \in 1..Len(q)
      BY <1>1, <2>3, MaxOfSome
    <3>2. g[s \ {Max(s)}] \in A /\ q[Max(s)] \in X
      BY <1>1, <3>1
    <3>3. g[s] = h[g[s \ {Max(s)}]][q[Max(s)]]
      BY <2>2, <2>3 DEF Folds
    <3> HIDE DEF h
    <3>4. QED
      BY <2>1, <3>2, <3>3
  <2>4. g[{}] = <<>>
    BY <2>2 DEF Folds
  <2>5. g = Step(g)
    BY <1>1, <2>2, <2>3, <2>4, ZenonT(60)
  <2>6. QED
    BY <2>5
<1>5. it = Step(it)
  BY <1>4, ZenonT(60)
<1>6. it[{}] = <<>>
  BY <1>5, ZenonT(60)
<1>7. ASSUME NEW k \in 1..Len(q) PROVE it[1..k] = (IF q[k].filledQty < q[k].qty THEN Append(it[1..(k-1)], q[k]) ELSE it[1..(k-1)])
  <2>1. k \in Nat \ {0} /\ 1..k \in SUBSET (DOMAIN q)
    BY <1>1
  <2>2. Max(1..k) = k /\ (1..k) \ {Max(1..k)} = 1..(k-1) /\ 1..k # {}
    BY <2>1, MaxOfFirst
  <2> HIDE DEF it
  <2>3. it[1..k] = (IF q[Max(1..k)].filledQty < q[Max(1..k)].qty THEN Append(it[(1..k) \ {Max(1..k)}], q[Max(1..k)]) ELSE it[(1..k) \ {Max(1..k)}])
    BY <1>5, <2>1, <2>2
  <2>4. QED
    BY <2>2, <2>3
<1> HIDE DEF it
<1>8. st[0] = <<>>
  <2>1. 1..0 = {}
    OBVIOUS
  <2>2. QED
    BY <1>1, <1>6, <2>1
<1>9. \A k \in 1..Len(q) : st[k] = (IF q[k].filledQty < q[k].qty THEN Append(st[k-1], q[k]) ELSE st[k-1])
  <2>1. \A k \in 1..Len(q) : k - 1 \in 0..Len(q) /\ k \in 0..Len(q)
    BY <1>1
  <2>2. QED
    BY <1>7, <2>1
<1>10. \A k \in 0..Len(q) : st[k] \in A
  <2> DEFINE S == {k \in 0..Len(q) : st[k] \in A}
  <2>1. 0 \in S
    BY <1>1, <1>3, <1>8
  <2>2. ASSUME NEW k \in 1..Len(q), k - 1 \in S PROVE k \in S
    <3>1. st[k-1] \in A /\ k \in 0..Len(q) /\ q[k] \in X
      BY <1>1, <2>2
    <3>2. st[k] = (IF q[k].filledQty < q[k].qty THEN Append(st[k-1], q[k]) ELSE st[k-1])
      BY <1>9
    <3> HIDE DEF st
    <3>3. QED
      BY <1>3, <3>1, <3>2
  <2>3. \A k \in 0..Len(q) : k \in S
    <3> HIDE DEF S
    <3>1. QED
      BY <1>1, <2>1, <2>2, Upwards
  <2>4. QED
    BY <2>3
<1>11. st \in [0..Len(q) -> A]
  BY <1>10
<1>12. st[Len(q)] = Unfilled(q)
  BY <1>1, <1>2
<1> HIDE DEF st
<1> USE DEF A
<1>13. QED
  BY <1>8, <1>9, <1>11, <1>12

\* An empty queue wants nothing; an order more in the queue adds what it wants.
LEMMA QtyOfEmpty == QtyOf(<<>>) = 0
<1> DEFINE X == {o \in {} : Fillable(o) \in Int}
<1>1. <<>> \in Seq(X) /\ \A o \in X : Fillable(o) \in Int
  BY EmptySeq
<1>2. QED
  <2> HIDE DEF X
  <2>1. QED
    BY <1>1, QtyOfStates, EmptySeq

LEMMA QtyOfAppend ==
  ASSUME NEW X, \A o \in X : Fillable(o) \in Int, NEW q \in Seq(X), NEW x \in X
  PROVE  QtyOf(Append(q, x)) = QtyOf(q) + Fillable(x)
<1> DEFINE r == Append(q, x)
<1>1. /\ r \in Seq(X) /\ Len(r) = Len(q) + 1 /\ r[Len(q) + 1] = x
      /\ \A i \in 1..Len(q) : r[i] = q[i]
  BY AppendProperties
<1>2. Len(q) \in Nat
  BY LenProperties
<1>3. PICK s \in [0..Len(q) -> Int] : /\ s[0] = 0
                                      /\ \A k \in 1..Len(q) : s[k] = s[k-1] + Fillable(q[k])
                                      /\ QtyOf(q) = s[Len(q)]
  BY QtyOfStates
<1> HIDE DEF r
<1>4. PICK t \in [0..Len(r) -> Int] : /\ t[0] = 0
                                      /\ \A k \in 1..Len(r) : t[k] = t[k-1] + Fillable(r[k])
                                      /\ QtyOf(r) = t[Len(r)]
  BY <1>1, QtyOfStates
<1> DEFINE S == {k \in 0..Len(q) : s[k] = t[k]}
<1>5. 0 \in S
  BY <1>2, <1>3, <1>4
<1>6. ASSUME NEW k \in 1..Len(q), k - 1 \in S PROVE k \in S
  <2>1. k \in 1..Len(r) /\ k \in 0..Len(q) /\ r[k] = q[k] /\ s[k-1] = t[k-1]
    BY <1>1, <1>2, <1>6
  <2>2. QED
    BY <1>3, <1>4, <2>1
<1>7. s[Len(q)] = t[Len(q)]
  <2>1. \A k \in 0..Len(q) : k \in S
    <3> HIDE DEF S
    <3>1. QED
      BY <1>2, <1>5, <1>6, Upwards
  <2>2. QED
    BY <1>2, <2>1
<1>8. t[Len(q) + 1] = t[Len(q)] + Fillable(x)
  <2>1. Len(q) + 1 \in 1..Len(r) /\ (Len(q) + 1) - 1 = Len(q)
    BY <1>1, <1>2
  <2>2. QED
    BY <1>1, <1>4, <2>1
<1>9. QED
  BY <1>1, <1>3, <1>4, <1>7, <1>8 DEF r

-----------------------------------------------------------------------------
(* What rows, levels, ladders and fills are, over some users, ids and      *)
(* prices.                                                                 *)

Row(U, I)   == {r \in [userId : U, orderId : I, qty : Nat, filledQty : Nat] :
                  r.filledQty <= r.qty}
Level(U, I) == [availableQty : Nat, openOrders : Seq(Row(U, I))]
Fill(I, P)  == [makerOrderId : I, takerOrderId : I, qty : Nat, price : P]

\* What a row wants is a natural number.
LEMMA RowWants ==
  ASSUME NEW U, NEW I, NEW r \in Row(U, I)
  PROVE  Fillable(r) \in Nat /\ Fillable(r) <= r.qty
  BY DEF Row, Fillable

\* A queue wants a natural number, and at least as much as any order in it.
LEMMA QtyOfRows ==
  ASSUME NEW U, NEW I, NEW q \in Seq(Row(U, I))
  PROVE  \E st \in [0..Len(q) -> Nat] :
           /\ st[0] = 0
           /\ \A k \in 1..Len(q) : st[k] = st[k-1] + Fillable(q[k])
           /\ QtyOf(q) = st[Len(q)]
           /\ \A k \in 0..Len(q) : st[k] <= QtyOf(q)
<1> DEFINE X == Row(U, I)
<1>1. \A o \in X : Fillable(o) \in Nat
  BY RowWants
<1> HIDE DEF X
<1>2. q \in Seq(X) /\ Len(q) \in Nat /\ \A k \in 1..Len(q) : q[k] \in X
  BY LenProperties, ElementOfSeq DEF X
<1>3. PICK st \in [0..Len(q) -> Int] : /\ st[0] = 0
                                       /\ \A k \in 1..Len(q) : st[k] = st[k-1] + Fillable(q[k])
                                       /\ QtyOf(q) = st[Len(q)]
  BY <1>1, <1>2, QtyOfStates
<1> DEFINE S == {k \in 0..Len(q) : st[k] \in Nat}
           T == {k \in 0..Len(q) : st[Len(q) - k] <= st[Len(q)]}
<1>4. \A k \in 0..Len(q) : st[k] \in Nat
  <2>1. 0 \in S
    BY <1>2, <1>3
  <2>2. ASSUME NEW k \in 1..Len(q), k - 1 \in S PROVE k \in S
    <3>1. k \in 0..Len(q) /\ st[k-1] \in Nat /\ Fillable(q[k]) \in Nat
      BY <1>1, <1>2, <2>2
    <3>2. QED
      BY <1>3, <3>1
  <2>3. \A k \in 0..Len(q) : k \in S
    <3> HIDE DEF S
    <3>1. QED
      BY <1>2, <2>1, <2>2, Upwards
  <2>4. QED
    BY <2>3
<1>5. \A k \in 0..Len(q) : st[k] <= st[Len(q)]
  <2>1. 0 \in T
    BY <1>2, <1>4
  <2>2. ASSUME NEW k \in 1..Len(q), k - 1 \in T PROVE k \in T
    <3> DEFINE j == Len(q) - (k - 1)
    <3>1. j \in 1..Len(q) /\ j - 1 = Len(q) - k /\ k \in 0..Len(q) /\ j - 1 \in 0..Len(q)
      BY <1>2
    <3>2. st[j] = st[j-1] + Fillable(q[j]) /\ Fillable(q[j]) \in Nat /\ st[j] <= st[Len(q)]
      BY <1>1, <1>2, <1>3, <2>2, <3>1
    <3>3. st[j-1] \in Nat /\ st[j] \in Nat /\ st[Len(q)] \in Nat
      BY <1>2, <1>4, <3>1
    <3>4. st[j-1] <= st[Len(q)]
      BY <3>2, <3>3
    <3>5. QED
      BY <3>1, <3>4
  <2>3. \A k \in 0..Len(q) : k \in T
    <3> HIDE DEF T
    <3>1. QED
      BY <1>2, <2>1, <2>2, Upwards
  <2>4. ASSUME NEW k \in 0..Len(q) PROVE st[k] <= st[Len(q)]
    <3>1. Len(q) - k \in 0..Len(q) /\ Len(q) - (Len(q) - k) = k
      BY <1>2
    <3>2. QED
      BY <2>3, <3>1
  <2>5. QED
    BY <2>4
<1>6. st \in [0..Len(q) -> Nat]
  BY <1>4
<1>7. QED
  BY <1>3, <1>5, <1>6

\* A sequence without its i-th element.
LEMMA Removed ==
  ASSUME NEW X, NEW q \in Seq(X), NEW i \in 1..Len(q)
  PROVE  /\ RemoveAt(q, i) \in Seq(X)
         /\ Len(RemoveAt(q, i)) = Len(q) - 1
         /\ \A k \in 1..(Len(q) - 1) : RemoveAt(q, i)[k] = IF k < i THEN q[k] ELSE q[k+1]
<1> DEFINE a == SubSeq(q, 1, i - 1)
           b == SubSeq(q, i + 1, Len(q))
<1>1. Len(q) \in Nat /\ \A k \in 1..Len(q) : q[k] \in X
  BY LenProperties, ElementOfSeq
<1>2. /\ a \in Seq(X) /\ Len(a) = i - 1
      /\ \A k \in 1..(i-1) : a[k] = q[k]
  <2>1. 1 \in Int /\ i - 1 \in Int /\ \A k \in 1..(i-1) : q[k] \in X
    BY <1>1
  <2>2. /\ a \in Seq(X) /\ Len(a) = IF 1 <= i - 1 THEN (i - 1) - 1 + 1 ELSE 0
        /\ \A k \in 1..(i - 1) - 1 + 1 : a[k] = q[1 + k - 1]
    BY <2>1, SubSeqProperties
  <2> HIDE DEF a
  <2>3. QED
    BY <1>1, <2>2
<1>3. /\ b \in Seq(X) /\ Len(b) = Len(q) - i
      /\ \A k \in 1..(Len(q) - i) : b[k] = q[i + k]
  <2>1. i + 1 \in Int /\ Len(q) \in Int /\ \A k \in (i+1)..Len(q) : q[k] \in X
    BY <1>1
  <2>2. /\ b \in Seq(X) /\ Len(b) = IF i + 1 <= Len(q) THEN Len(q) - (i + 1) + 1 ELSE 0
        /\ \A k \in 1..Len(q) - (i + 1) + 1 : b[k] = q[i + 1 + k - 1]
    BY <2>1, SubSeqProperties
  <2> HIDE DEF b
  <2>3. QED
    BY <1>1, <2>2
<1>4. RemoveAt(q, i) = a \o b
  BY DEF RemoveAt
<1> HIDE DEF a, b
<1>5. /\ a \o b \in Seq(X) /\ Len(a \o b) = Len(a) + Len(b)
      /\ \A k \in 1..Len(a) + Len(b) : (a \o b)[k] = IF k <= Len(a) THEN a[k] ELSE b[k - Len(a)]
  BY <1>2, <1>3, ConcatProperties
<1>6. ASSUME NEW k \in 1..(Len(q) - 1)
      PROVE  (a \o b)[k] = IF k < i THEN q[k] ELSE q[k+1]
  <2>1. k \in 1..Len(a) + Len(b) /\ (k <= Len(a) <=> k < i)
    BY <1>1, <1>2, <1>3
  <2>2. CASE k < i
    BY <1>1, <1>2, <1>5, <2>1, <2>2
  <2>3. CASE ~(k < i)
    <3>1. k - Len(a) \in 1..(Len(q) - i) /\ i + (k - Len(a)) = k + 1
      BY <1>1, <1>2, <2>3
    <3>2. QED
      BY <1>3, <1>5, <2>1, <2>3, <3>1
  <2>4. QED
    BY <2>2, <2>3
<1>7. QED
  BY <1>1, <1>2, <1>3, <1>4, <1>5, <1>6

\* Without its i-th order a queue wants that much less.
LEMMA QtyOfRemoved ==
  ASSUME NEW U, NEW I, NEW q \in Seq(Row(U, I)), NEW i \in 1..Len(q)
  PROVE  QtyOf(RemoveAt(q, i)) = QtyOf(q) - Fillable(q[i])
<1> DEFINE X == Row(U, I)
           r == RemoveAt(q, i)
<1>1. (\A o \in X : Fillable(o) \in Nat) /\ (\A o \in X : Fillable(o) \in Int)
  BY RowWants
<1> HIDE DEF X
<1>2. q \in Seq(X) /\ Len(q) \in Nat /\ \A k \in 1..Len(q) : q[k] \in X
  BY LenProperties, ElementOfSeq DEF X
<1>3. /\ r \in Seq(X) /\ Len(r) = Len(q) - 1
      /\ \A k \in 1..(Len(q) - 1) : r[k] = IF k < i THEN q[k] ELSE q[k+1]
  BY <1>2, Removed
<1>4. PICK s \in [0..Len(q) -> Int] : /\ s[0] = 0
                                      /\ \A k \in 1..Len(q) : s[k] = s[k-1] + Fillable(q[k])
                                      /\ QtyOf(q) = s[Len(q)]
  BY <1>1, <1>2, QtyOfStates
<1> HIDE DEF r
<1>5. PICK t \in [0..Len(r) -> Int] : /\ t[0] = 0
                                      /\ \A k \in 1..Len(r) : t[k] = t[k-1] + Fillable(r[k])
                                      /\ QtyOf(r) = t[Len(r)]
  BY <1>1, <1>3, QtyOfStates
<1> DEFINE S == {k \in 0..Len(r) : t[k] = IF k < i THEN s[k] ELSE s[k+1] - Fillable(q[i])}
<1>6. Len(r) \in Nat /\ Len(r) + 1 = Len(q) /\ Fillable(q[i]) \in Nat
  BY <1>1, <1>2, <1>3
<1>7. 0 \in S
  BY <1>4, <1>5, <1>6
<1>8. ASSUME NEW k \in 1..Len(r), k - 1 \in S PROVE k \in S
  <2>1. /\ k \in 0..Len(r) /\ k \in 1..Len(q) /\ k + 1 \in 1..Len(q) /\ k - 1 \in 0..Len(q)
        /\ (k + 1) - 1 = k /\ (k - 1) + 1 = k /\ k \in 0..Len(q)
    BY <1>6
  <2>2. /\ s[k] = s[k-1] + Fillable(q[k]) /\ s[k+1] = s[k] + Fillable(q[k+1])
        /\ t[k] = t[k-1] + Fillable(r[k])
    BY <1>4, <1>5, <2>1
  <2>3. s[k-1] \in Int /\ s[k] \in Int /\ s[k+1] \in Int
    BY <2>1, SMTT(20)
  <2>4. Fillable(q[k]) \in Nat /\ Fillable(q[k+1]) \in Nat
    BY <1>1, <1>2, <2>1
  <2>5. t[k-1] = IF k - 1 < i THEN s[k-1] ELSE s[k] - Fillable(q[i])
    BY <1>8, <2>1
  <2>6. r[k] = IF k < i THEN q[k] ELSE q[k+1]
    BY <1>3, <1>6
  <2>7. CASE k < i
    <3>1. t[k] = s[k]
      BY <2>2, <2>5, <2>6, <2>7
    <3>2. QED
      BY <2>1, <2>7, <3>1
  <2>8. CASE ~(k < i)
    <3>1. t[k-1] = s[k] - Fillable(q[i])
      <4>1. CASE k = i
        BY <1>6, <2>2, <2>3, <2>4, <2>5, <4>1
      <4>2. CASE k > i
        BY <2>5, <4>2
      <4>3. QED
        BY <2>8, <4>1, <4>2
    <3>2. t[k] = s[k+1] - Fillable(q[i])
      BY <1>6, <2>2, <2>3, <2>4, <2>6, <2>8, <3>1
    <3>3. QED
      BY <2>1, <2>8, <3>2
  <2>9. QED
    BY <2>7, <2>8
<1>9. Len(r) \in S
  <2>1. \A k \in 0..Len(r) : k \in S
    <3> HIDE DEF S
    <3>1. QED
      BY <1>6, <1>7, <1>8, Upwards
  <2>2. QED
    <3> HIDE DEF S
    <3>1. QED
      BY <1>6, <2>1
<1>10. t[Len(r)] = s[Len(q)] - Fillable(q[i])
  <2>1. t[Len(r)] = IF Len(r) < i THEN s[Len(r)] ELSE s[Len(r) + 1] - Fillable(q[i])
    BY <1>9
  <2>2. CASE Len(r) < i
    <3>1. i = Len(q) /\ Len(q) \in 1..Len(q) /\ Len(q) - 1 = Len(r)
      BY <1>6, <2>2
    <3>2. s[Len(q)] = s[Len(r)] + Fillable(q[i]) /\ s[Len(r)] \in Int
      BY <1>4, <1>6, <3>1
    <3>3. QED
      BY <1>6, <2>1, <2>2, <3>2
  <2>3. QED
    BY <1>6, <2>1, <2>2
<1>11. QED
  BY <1>4, <1>5, <1>10 DEF r

\* Dropping the orders that are filled leaves those that want something, and
\* what they want.
LEMMA UnfilledKeeps ==
  ASSUME NEW U, NEW I, NEW q \in Seq(Row(U, I))
  PROVE  /\ Unfilled(q) \in Seq(Row(U, I))
         /\ QtyOf(Unfilled(q)) = QtyOf(q)
         /\ \A j \in 1..Len(Unfilled(q)) : /\ Fillable(Unfilled(q)[j]) > 0
                                           /\ \E i \in 1..Len(q) : Unfilled(q)[j] = q[i]
<1> DEFINE X == Row(U, I)
<1>1. /\ \A o \in X : Fillable(o) \in Int
      /\ \A o \in X : Fillable(o) \in Nat /\ (o.filledQty < o.qty <=> Fillable(o) > 0)
  BY DEF Row, Fillable
<1> HIDE DEF X
<1>2. q \in Seq(X) /\ Len(q) \in Nat /\ \A k \in 1..Len(q) : q[k] \in X
  BY LenProperties, ElementOfSeq DEF X
<1>3. PICK s \in [0..Len(q) -> Int] : /\ s[0] = 0
                                      /\ \A k \in 1..Len(q) : s[k] = s[k-1] + Fillable(q[k])
                                      /\ QtyOf(q) = s[Len(q)]
  BY <1>1, <1>2, QtyOfStates
<1>4. PICK t \in [0..Len(q) -> Seq(X)] :
             /\ t[0] = <<>>
             /\ \A k \in 1..Len(q) :
                  t[k] = IF q[k].filledQty < q[k].qty THEN Append(t[k-1], q[k]) ELSE t[k-1]
             /\ Unfilled(q) = t[Len(q)]
  BY <1>2, UnfilledStates
<1> DEFINE Good(k) == /\ QtyOf(t[k]) = s[k]
                      /\ \A j \in 1..Len(t[k]) : /\ Fillable(t[k][j]) > 0
                                                 /\ \E i \in 1..Len(q) : t[k][j] = q[i]
           S == {k \in 0..Len(q) : Good(k)}
<1>5. 0 \in S
  <2>1. QtyOf(t[0]) = s[0] /\ Len(t[0]) = 0
    BY <1>3, <1>4, QtyOfEmpty, EmptySeq
  <2>2. QED
    BY <1>2, <2>1
<1>6. ASSUME NEW k \in 1..Len(q), k - 1 \in S PROVE k \in S
  <2>1. k \in 0..Len(q) /\ k - 1 \in 0..Len(q) /\ q[k] \in X
    BY <1>2
  <2>2. t[k-1] \in Seq(X) /\ Good(k-1) /\ s[k-1] \in Int
    BY <1>6, <2>1
  <2>3. s[k] = s[k-1] + Fillable(q[k])
    BY <1>3
  <2>4. CASE q[k].filledQty < q[k].qty
    <3>1. t[k] = Append(t[k-1], q[k])
      BY <1>4, <2>4
    <3>2. QtyOf(t[k]) = s[k]
      <4>1. QtyOf(Append(t[k-1], q[k])) = QtyOf(t[k-1]) + Fillable(q[k])
        BY <1>1, <2>1, <2>2, QtyOfAppend
      <4>2. QED
        BY <2>2, <2>3, <3>1, <4>1
    <3>3. /\ Len(t[k]) = Len(t[k-1]) + 1 /\ t[k][Len(t[k-1]) + 1] = q[k]
          /\ \A j \in 1..Len(t[k-1]) : t[k][j] = t[k-1][j]
      BY <2>1, <2>2, <3>1, AppendProperties
    <3>4. Len(t[k-1]) \in Nat
      BY <2>2, LenProperties
    <3>5. Fillable(q[k]) > 0
      BY <1>1, <2>1, <2>4
    <3>6. ASSUME NEW j \in 1..Len(t[k])
          PROVE  Fillable(t[k][j]) > 0 /\ \E i \in 1..Len(q) : t[k][j] = q[i]
      <4>1. CASE j = Len(t[k-1]) + 1
        BY <3>3, <3>5, <4>1
      <4>2. CASE j \in 1..Len(t[k-1])
        BY <2>2, <3>3, <4>2
      <4>3. QED
        BY <3>3, <3>4, <4>1, <4>2
    <3>7. QED
      BY <2>1, <3>2, <3>6
  <2>5. CASE ~(q[k].filledQty < q[k].qty)
    <3>1. t[k] = t[k-1]
      BY <1>4, <2>5
    <3>2. Fillable(q[k]) = 0
      BY <1>1, <2>1, <2>5
    <3>3. s[k] = s[k-1]
      BY <2>2, <2>3, <3>2
    <3>4. QED
      BY <2>1, <2>2, <3>1, <3>3
  <2>6. QED
    BY <2>4, <2>5
<1>7. Good(Len(q))
  <2>1. \A k \in 0..Len(q) : k \in S
    <3> HIDE DEF S
    <3>1. QED
      BY <1>2, <1>5, <1>6, Upwards
  <2>2. Len(q) \in 0..Len(q)
    BY <1>2
  <2>3. QED
    BY <2>1, <2>2
<1>8. t[Len(q)] \in Seq(X)
  BY <1>2
<1>9. QED
  BY <1>3, <1>4, <1>7, <1>8 DEF X

\* The orders of a queue are in the order of their ranks, so none is there twice.
Ranked(q, rank) ==
  \A i, j \in 1..Len(q) : i < j => rank[q[i].orderId] < rank[q[j].orderId]

\* Dropping the orders that are filled leaves the others in their order.
LEMMA UnfilledRanked ==
  ASSUME NEW X, NEW q \in Seq(X), NEW rank, Ranked(q, rank)
  PROVE  Ranked(Unfilled(q), rank)
<1>1. Len(q) \in Nat /\ \A k \in 1..Len(q) : q[k] \in X
  BY LenProperties, ElementOfSeq
<1>2. PICK t \in [0..Len(q) -> Seq(X)] :
             /\ t[0] = <<>>
             /\ \A k \in 1..Len(q) :
                  t[k] = IF q[k].filledQty < q[k].qty THEN Append(t[k-1], q[k]) ELSE t[k-1]
             /\ Unfilled(q) = t[Len(q)]
  BY UnfilledStates
<1> DEFINE Good(k) == /\ Ranked(t[k], rank)
                      /\ \A j \in 1..Len(t[k]) : \E i \in 1..k : t[k][j] = q[i]
           S == {k \in 0..Len(q) : Good(k)}
<1>3. 0 \in S
  <2>1. Len(t[0]) = 0
    BY <1>2, EmptySeq
  <2>2. QED
    BY <1>1, <2>1 DEF Ranked
<1>4. ASSUME NEW k \in 1..Len(q), k - 1 \in S PROVE k \in S
  <2> DEFINE a == t[k-1]
             b == t[k]
             n == Len(a)
  <2>1. k \in 0..Len(q) /\ k - 1 \in 0..Len(q) /\ q[k] \in X /\ k \in Nat
    BY <1>1
  <2>2. a \in Seq(X) /\ n \in Nat /\ Good(k-1)
    BY <1>4, <2>1, LenProperties
  <2>3. b = IF q[k].filledQty < q[k].qty THEN Append(a, q[k]) ELSE a
    BY <1>2
  <2> HIDE DEF a, b
  <2>4. CASE b = a
    <3>1. \A i \in 1..(k-1) : i \in 1..k
      BY <2>1
    <3>2. QED
      BY <2>1, <2>2, <2>4, <3>1 DEF a, b
  <2>5. CASE b = Append(a, q[k])
    <3>1. Len(b) = n + 1 /\ b[n + 1] = q[k] /\ \A j \in 1..n : b[j] = a[j]
      BY <2>1, <2>2, <2>5, AppendProperties
    <3>2. ASSUME NEW j \in 1..Len(b) PROVE \E i \in 1..k : b[j] = q[i]
      <4>1. CASE j \in 1..n
        <5>1. PICK i \in 1..(k-1) : a[j] = q[i]
          BY <2>2, <4>1 DEF a
        <5>2. i \in 1..k
          BY <2>1
        <5>3. QED
          BY <3>1, <4>1, <5>1, <5>2
      <4>2. CASE j = n + 1
        <5>1. k \in 1..k
          BY <2>1
        <5>2. QED
          BY <3>1, <4>2, <5>1
      <4>3. QED
        BY <2>2, <3>1, <4>1, <4>2
    <3>3. ASSUME NEW i \in 1..Len(b), NEW j \in 1..Len(b), i < j
          PROVE  rank[b[i].orderId] < rank[b[j].orderId]
      <4>1. i \in 1..n /\ (j \in 1..n \/ j = n + 1)
        <5>1. n \in Nat /\ Len(b) = n + 1
          BY <2>2, <3>1
        <5> HIDE DEF n
        <5>2. QED
          BY <3>3, <5>1
      <4>2. CASE j \in 1..n
        BY <2>2, <3>1, <3>3, <4>1, <4>2 DEF Ranked, a
      <4>3. CASE j = n + 1
        <5>1. PICK h \in 1..(k-1) : a[i] = q[h]
          BY <2>2, <4>1 DEF a
        <5>2. h \in 1..Len(q) /\ h < k
          BY <1>1, <2>1
        <5>3. QED
          BY <3>1, <4>1, <4>3, <5>1, <5>2 DEF Ranked
      <4>4. QED
        BY <4>1, <4>2, <4>3
    <3>4. Ranked(b, rank)
      BY <3>3 DEF Ranked
    <3>5. QED
      BY <2>1, <3>2, <3>4 DEF b
  <2>6. QED
    BY <2>3, <2>4, <2>5
<1>5. \A k \in 0..Len(q) : k \in S
  <2> HIDE DEF S
  <2>1. QED
    BY <1>1, <1>3, <1>4, Upwards
<1>6. Len(q) \in S
  BY <1>1, <1>5
<1>7. QED
  BY <1>2, <1>6

-----------------------------------------------------------------------------
(* The inner loop of matchSide: one level.                                 *)

Visiting(U, I, P) == [remainingQty : Nat, level : Level(U, I), fills : Seq(Fill(I, P))]

\* The two rows are of the same order.
SameOrder(a, b) == a.userId = b.userId /\ a.orderId = b.orderId /\ a.qty = b.qty

\* f is what `taker` may get from order o at a price.
FillFrom(f, taker, price, o) ==
  /\ f.qty > 0 /\ f.price = price
  /\ f.takerOrderId = taker.orderId /\ f.makerOrderId = o.orderId
  /\ o.userId # taker.userId

\* What is taken from an order: nothing of an own one, else all that is there
\* or all that is needed.
LEMMA TakeBounds ==
  ASSUME NEW U, NEW I, NEW order \in Row(U, I), NEW n \in Nat, NEW taker
  PROVE  /\ Take(taker, n, order) \in Nat
         /\ Take(taker, n, order) <= n /\ Take(taker, n, order) <= Fillable(order)
         /\ order.userId = taker.userId => Take(taker, n, order) = 0
         /\ order.userId # taker.userId =>
              Take(taker, n, order) = n \/ Take(taker, n, order) = Fillable(order)
<1>1. Fillable(order) \in Nat /\ Fillable(order) \in Int /\ n \in Int
  BY RowWants
<1>2. Min({n, Fillable(order)}) = IF n <= Fillable(order) THEN n ELSE Fillable(order)
  BY <1>1, OfTwo
<1>3. QED
  BY <1>1, <1>2 DEF Take

\* The row of an order that has given t of what it had.
LEMMA RowFilled ==
  ASSUME NEW U, NEW I, NEW order \in Row(U, I), NEW t \in Nat, t <= Fillable(order)
  PROVE  LET r == [order EXCEPT !.filledQty = @ + t]
         IN  r \in Row(U, I) /\ SameOrder(r, order) /\ Fillable(r) = Fillable(order) - t
  BY DEF Row, Fillable, SameOrder

\* An order that has given t.
Filled(o, t) == [o EXCEPT !.filledQty = @ + t]

\* v is what a visit to order o that takes t makes of a.
Visited(v, t, a, o, taker, price, Fills) ==
  /\ t \in Nat /\ t <= a.remainingQty /\ t <= Fillable(o)
  /\ o.userId # taker.userId => t = a.remainingQty \/ t = Fillable(o)
  /\ v.remainingQty = a.remainingQty - t
  /\ v.level.availableQty = Max({0, a.level.availableQty - t})
  /\ v.level.openOrders = Append(a.level.openOrders, Filled(o, t))
  /\ SameOrder(Filled(o, t), o) /\ Fillable(Filled(o, t)) = Fillable(o) - t
  /\ t = 0 => v.fills = a.fills
  /\ t > 0 => \E f \in Fills : /\ FillFrom(f, taker, price, o) /\ f.qty = t
                              /\ v.fills = Append(a.fills, f)

\* One visit, with its types.
LEMMA VisitTypes ==
  ASSUME NEW U, NEW I, NEW P, NEW taker, taker.orderId \in I, NEW price \in P,
         NEW a \in Visiting(U, I, P), NEW o \in Row(U, I)
  PROVE  /\ Visit(taker, price, a, o) \in Visiting(U, I, P)
         /\ Filled(o, Take(taker, a.remainingQty, o)) \in Row(U, I)
         /\ Visited(Visit(taker, price, a, o), Take(taker, a.remainingQty, o), a, o,
                    taker, price, Fill(I, P))
<1> DEFINE t == Take(taker, a.remainingQty, o)
           r == [o EXCEPT !.filledQty = @ + t]
           f == [makerOrderId |-> o.orderId, takerOrderId |-> taker.orderId,
                 qty |-> t, price |-> price]
           v == Visit(taker, price, a, o)
           l == [availableQty |-> Max({0, a.level.availableQty - t}),
                 openOrders |-> Append(a.level.openOrders, r)]
           g == IF t = 0 THEN a.fills ELSE Append(a.fills, f)
<1>1. /\ a.remainingQty \in Nat /\ a.level.availableQty \in Nat
      /\ a.level.openOrders \in Seq(Row(U, I)) /\ a.fills \in Seq(Fill(I, P))
  BY DEF Visiting, Level
<1>2. /\ t \in Nat /\ t <= a.remainingQty /\ t <= Fillable(o)
      /\ t > 0 => o.userId # taker.userId
      /\ o.userId # taker.userId => t = a.remainingQty \/ t = Fillable(o)
  <2> DEFINE n == a.remainingQty
  <2>1. n \in Nat
    BY <1>1
  <2> HIDE DEF n
  <2>2. /\ Take(taker, n, o) \in Nat
        /\ Take(taker, n, o) <= n /\ Take(taker, n, o) <= Fillable(o)
        /\ o.userId = taker.userId => Take(taker, n, o) = 0
        /\ o.userId # taker.userId => Take(taker, n, o) = n \/ Take(taker, n, o) = Fillable(o)
    BY <2>1, TakeBounds
  <2>3. QED
    BY <2>2 DEF n
<1>3. r \in Row(U, I) /\ SameOrder(r, o) /\ Fillable(r) = Fillable(o) - t
  <2> HIDE DEF t
  <2>1. QED
    BY <1>2, RowFilled
<1>4. v = [remainingQty |-> a.remainingQty - t, level |-> l, fills |-> g]
  BY DEF Visit
<1>5. f \in Fill(I, P) /\ f.qty = t /\ (t > 0 => FillFrom(f, taker, price, o))
  <2>1. o.orderId \in I
    BY DEF Row
  <2> HIDE DEF t
  <2>2. QED
    BY <1>2, <2>1 DEF Fill, FillFrom
<1> HIDE DEF r, f, v, t
<1>6. Max({0, a.level.availableQty - t}) \in Nat
  <2>1. Max({0, a.level.availableQty - t})
          = IF 0 >= a.level.availableQty - t THEN 0 ELSE a.level.availableQty - t
    BY <1>1, <1>2, OfTwo
  <2>2. QED
    BY <1>1, <1>2, <2>1
<1>7. l \in Level(U, I)
  <2>1. Append(a.level.openOrders, r) \in Seq(Row(U, I))
    BY <1>1, <1>3, AppendProperties
  <2>2. QED
    BY <1>6, <2>1 DEF Level
<1>8. g \in Seq(Fill(I, P))
  BY <1>1, <1>5, AppendProperties
<1>9. v \in Visiting(U, I, P)
  <2>1. a.remainingQty - t \in Nat
    BY <1>1, <1>2
  <2> HIDE DEF l, g
  <2>2. QED
    BY <1>4, <1>7, <1>8, <2>1 DEF Visiting
<1>10. t > 0 => /\ f \in Fill(I, P) /\ FillFrom(f, taker, price, o) /\ f.qty = t
                /\ v.fills = Append(a.fills, f)
  BY <1>2, <1>4, <1>5
<1>11. QED
  <2>1. r = Filled(o, t)
    BY DEF r, Filled
  <2>2. Visited(v, t, a, o, taker, price, Fill(I, P))
    BY <1>2, <1>3, <1>4, <1>10, <2>1 DEF Visited, l, g
  <2>3. QED
    BY <1>3, <1>9, <2>1, <2>2 DEF t, v

\* The visits of one level, from some state on.
VisitAll(taker, price, base, q) ==
  FoldLeft(LAMBDA a, order : Visit(taker, price, a, order), base, q)

\* st has the states, members of A, of the visits to a queue.
VisitRun(st, taker, price, base, q, A) ==
  /\ st \in [0..Len(q) -> A]
  /\ st[0] = base
  /\ \A k \in 1..Len(q) : st[k] = Visit(taker, price, st[k-1], q[k])
  /\ VisitAll(taker, price, base, q) = st[Len(q)]

\* The visits to a queue, one after the other.
LEMMA VisitStates ==
  ASSUME NEW U, NEW I, NEW P, NEW taker, taker.orderId \in I, NEW price \in P,
         NEW base \in Visiting(U, I, P), NEW q \in Seq(Row(U, I))
  PROVE  \E st : VisitRun(st, taker, price, base, q, Visiting(U, I, P))
<1> DEFINE X == Row(U, I)
           A == Visiting(U, I, P)
           Step(i) == [s \in SUBSET (DOMAIN q) |->
                         IF s = {} THEN base
                         ELSE Visit(taker, price, i[s \ {Max(s)}], q[Max(s)])]
           it == CHOOSE i : i = Step(i)
           h  == [a \in A |-> [x \in X |-> Visit(taker, price, a, x)]]
           st == [k \in 0..Len(q) |-> it[1..k]]
<1>1. /\ Len(q) \in Nat /\ DOMAIN q = 1..Len(q) /\ q \in Seq(X)
      /\ \A k \in 1..Len(q) : q[k] \in X
  BY LenProperties, ElementOfSeq
<1>2. VisitAll(taker, price, base, q) = it[DOMAIN q]
  BY DEF VisitAll, FoldLeft, MapThenFoldSet
<1>3. /\ base \in A
      /\ \A a \in A, x \in X : Visit(taker, price, a, x) \in A
  BY VisitTypes
<1> HIDE DEF A, X
<1>4. \E i : i = Step(i)
  <2>1. h \in [A -> [X -> A]] /\ \A a \in A, x \in X : h[a][x] = Visit(taker, price, a, x)
    BY <1>3
  <2>2. PICK g \in [SUBSET (1..Len(q)) -> A] : Folds(g, h, base, q, Len(q))
    <3> HIDE DEF h
    <3>1. QED
      BY <1>1, <1>3, <2>1, FoldExists
  <2>3. ASSUME NEW s \in SUBSET (1..Len(q)), s # {}
        PROVE  g[s] = Visit(taker, price, g[s \ {Max(s)}], q[Max(s)])
    <3>1. Max(s) \in 1..Len(q)
      BY <1>1, <2>3, MaxOfSome
    <3>2. g[s \ {Max(s)}] \in A /\ q[Max(s)] \in X
      BY <1>1, <3>1
    <3>3. g[s] = h[g[s \ {Max(s)}]][q[Max(s)]]
      BY <2>2, <2>3 DEF Folds
    <3> HIDE DEF h
    <3>4. QED
      BY <2>1, <3>2, <3>3
  <2>4. g[{}] = base
    BY <2>2 DEF Folds
  <2>5. g = Step(g)
    BY <1>1, <2>2, <2>3, <2>4
  <2>6. QED
    BY <2>5
<1>5. it = Step(it)
  BY <1>4
<1>6. it[{}] = base
  BY <1>5
<1>7. ASSUME NEW k \in 1..Len(q) PROVE it[1..k] = Visit(taker, price, it[1..(k-1)], q[k])
  <2>1. k \in Nat \ {0} /\ 1..k \in SUBSET (DOMAIN q)
    BY <1>1
  <2>2. Max(1..k) = k /\ (1..k) \ {Max(1..k)} = 1..(k-1) /\ 1..k # {}
    BY <2>1, MaxOfFirst
  <2> HIDE DEF it
  <2>3. it[1..k] = Visit(taker, price, it[(1..k) \ {Max(1..k)}], q[Max(1..k)])
    BY <1>5, <2>1, <2>2
  <2>4. QED
    BY <2>2, <2>3
<1> HIDE DEF it
<1>8. st[0] = base
  <2>1. 1..0 = {}
    OBVIOUS
  <2>2. QED
    BY <1>1, <1>6, <2>1
<1>9. \A k \in 1..Len(q) : st[k] = Visit(taker, price, st[k-1], q[k])
  <2>1. \A k \in 1..Len(q) : k - 1 \in 0..Len(q) /\ k \in 0..Len(q)
    BY <1>1
  <2>2. QED
    BY <1>7, <2>1
<1>10. \A k \in 0..Len(q) : st[k] \in A
  <2> DEFINE S == {k \in 0..Len(q) : st[k] \in A}
  <2>1. 0 \in S
    BY <1>1, <1>3, <1>8
  <2>2. ASSUME NEW k \in 1..Len(q), k - 1 \in S PROVE k \in S
    <3>1. st[k-1] \in A /\ k \in 0..Len(q) /\ q[k] \in X
      BY <1>1, <2>2
    <3>2. st[k] = Visit(taker, price, st[k-1], q[k])
      BY <1>9
    <3> HIDE DEF st
    <3>3. QED
      BY <1>3, <3>1, <3>2
  <2>3. \A k \in 0..Len(q) : k \in S
    <3> HIDE DEF S
    <3>1. QED
      BY <1>1, <2>1, <2>2, Upwards
  <2>4. QED
    BY <2>3
<1>11. st \in [0..Len(q) -> A]
  BY <1>10
<1>12. st[Len(q)] = VisitAll(taker, price, base, q)
  BY <1>1, <1>2
<1> HIDE DEF st
<1>13. VisitRun(st, taker, price, base, q, A)
  BY <1>8, <1>9, <1>11, <1>12 DEF VisitRun
<1>14. QED
  BY <1>13 DEF A

\* The elements of a sequence with one more.
LEMMA ToSetAppend ==
  ASSUME NEW X, NEW q \in Seq(X), NEW x \in X
  PROVE  ToSet(Append(q, x)) = ToSet(q) \cup {x}
<1>1. /\ Len(Append(q, x)) = Len(q) + 1 /\ Append(q, x) \in Seq(X)
      /\ \A i \in 1..Len(q) : Append(q, x)[i] = q[i]
      /\ Append(q, x)[Len(q) + 1] = x
  BY AppendProperties
<1>2. Len(q) \in Nat /\ DOMAIN q = 1..Len(q) /\ DOMAIN Append(q, x) = 1..(Len(q) + 1)
  BY <1>1, LenProperties
<1> DEFINE r == Append(q, x)
<1> HIDE DEF r
<1>3. 1..(Len(q) + 1) = 1..Len(q) \cup {Len(q) + 1}
  BY <1>2
<1>4. QED
  BY <1>1, <1>2, <1>3 DEF ToSet, r

\* The elements of two sequences, one after the other.
LEMMA ToSetConcat ==
  ASSUME NEW X, NEW q \in Seq(X), NEW r \in Seq(X)
  PROVE  ToSet(q \o r) = ToSet(q) \cup ToSet(r)
<1>1. /\ Len(q) \in Nat /\ Len(r) \in Nat /\ DOMAIN q = 1..Len(q) /\ DOMAIN r = 1..Len(r)
      /\ q \o r \in Seq(X) /\ Len(q \o r) = Len(q) + Len(r)
      /\ \A i \in 1..Len(q) + Len(r) : (q \o r)[i] = IF i <= Len(q) THEN q[i] ELSE r[i - Len(q)]
  BY ConcatProperties, LenProperties
<1> DEFINE c == q \o r
<1>2. DOMAIN c = 1..Len(q) + Len(r)
  BY <1>1, LenProperties
<1>3. ASSUME NEW x \in ToSet(c) PROVE x \in ToSet(q) \cup ToSet(r)
  <2>1. PICK i \in 1..Len(q) + Len(r) : c[i] = x
    BY <1>2 DEF ToSet
  <2>2. CASE i <= Len(q)
    <3>1. i \in 1..Len(q) /\ c[i] = q[i]
      BY <1>1, <2>2
    <3>2. QED
      BY <1>1, <2>1, <3>1 DEF ToSet
  <2>3. CASE ~(i <= Len(q))
    <3>1. i - Len(q) \in 1..Len(r) /\ c[i] = r[i - Len(q)]
      BY <1>1, <2>3
    <3>2. QED
      BY <1>1, <2>1, <3>1 DEF ToSet
  <2>4. QED
    BY <2>2, <2>3
<1>4. ASSUME NEW x \in ToSet(q) PROVE x \in ToSet(c)
  <2>1. PICK i \in 1..Len(q) : q[i] = x
    BY <1>1 DEF ToSet
  <2>2. i \in 1..Len(q) + Len(r) /\ c[i] = q[i]
    BY <1>1
  <2>3. QED
    BY <1>2, <2>1, <2>2 DEF ToSet
<1>5. ASSUME NEW x \in ToSet(r) PROVE x \in ToSet(c)
  <2>1. PICK i \in 1..Len(r) : r[i] = x
    BY <1>1 DEF ToSet
  <2>2. /\ Len(q) + i \in 1..Len(q) + Len(r) /\ ~(Len(q) + i <= Len(q))
        /\ (Len(q) + i) - Len(q) = i
    BY <1>1
  <2>3. c[Len(q) + i] = r[i]
    BY <1>1, <2>2
  <2>4. QED
    BY <1>2, <2>1, <2>2, <2>3 DEF ToSet
<1>6. QED
  BY <1>3, <1>4, <1>5

\* Every one of the fills G is one of F, or one that the taker gets at a price
\* from an order of a queue.
Explained(G, F, taker, price, q) ==
  \A f \in ToSet(G) : f \in ToSet(F) \/ \E i \in 1..Len(q) : FillFrom(f, taker, price, q[i])

\* The fills of G that are not in F are of a taker that wanted something, each with
\* an order of the queue all before which are own or have given what they had.
InTurn(G, F, n, taker, price, q, os) ==
  \A f \in ToSet(G) : f \notin ToSet(F) =>
    /\ n > 0
    /\ \E i \in 1..Len(os) :
         /\ FillFrom(f, taker, price, q[i])
         /\ \A j \in 1..(i-1) : os[j].userId = taker.userId \/ Fillable(os[j]) = 0

\* The arithmetic of ShownAfterTake.
LEMMA ShownSums ==
  ASSUME NEW b \in Int, NEW t \in Int, NEW f \in Int, NEW w \in Int, NEW s \in Int,
         NEW total \in Int, b = s + (total - w), w + f <= total, t <= f, s >= 0
  PROVE  b - t >= 0 /\ b - t = (s + (f - t)) + (total - (w + f))
OBVIOUS

\* What a level shows stays what its orders want when one of them gives some.
LEMMA ShownAfterTake ==
  ASSUME NEW b \in Nat, NEW t \in Nat, NEW f \in Nat, NEW w \in Nat,
         NEW s \in Nat, NEW total \in Nat,
         b = s + (total - w), w + f <= total, t <= f
  PROVE  Max({0, b - t}) = (s + (f - t)) + (total - (w + f))
<1>1. b - t >= 0 /\ b - t = (s + (f - t)) + (total - (w + f))
  BY ShownSums
<1>2. 0 \in Int /\ b - t \in Int
  OBVIOUS
<1>3. Max({0, b - t}) = IF 0 >= b - t THEN 0 ELSE b - t
  BY <1>2, OfTwo
<1> DEFINE d == b - t
<1>4. d >= 0 /\ d \in Int /\ (IF 0 >= d THEN 0 ELSE d) = d
  BY <1>1, <1>2
<1> HIDE DEF d
<1>5. Max({0, b - t}) = d
  BY <1>3, <1>4 DEF d
<1>6. QED
  BY <1>1, <1>5 DEF d

\* What the visits of a level leave: the queue in its order, what it shows still
\* the sum of what it wants, and, when the taker wants more, only own orders and
\* filled ones.
LEMMA LevelVisited ==
  ASSUME NEW U, NEW I, NEW P, NEW taker, taker.orderId \in I, NEW price \in P,
         NEW n \in Nat, NEW F \in Seq(Fill(I, P)),
         NEW level \in Level(U, I), level.availableQty = QtyOf(level.openOrders)
  PROVE  LET q == level.openOrders
             v == VisitAll(taker, price,
                    [remainingQty |-> n, fills |-> F,
                     level |-> [level EXCEPT !.openOrders = <<>>]], q)
             os == v.level.openOrders
         IN  /\ v \in Visiting(U, I, P) /\ v.remainingQty <= n
             /\ Len(os) = Len(q) /\ v.level.availableQty = QtyOf(os)
             /\ \A i \in 1..Len(q) : SameOrder(os[i], q[i])
             /\ v.remainingQty > 0 =>
                  \A i \in 1..Len(q) : os[i].userId = taker.userId \/ Fillable(os[i]) = 0
             /\ Explained(v.fills, F, taker, price, q)
             /\ InTurn(v.fills, F, n, taker, price, q, os)
<1> DEFINE q == level.openOrders
           base == [remainingQty |-> n, fills |-> F,
                    level |-> [level EXCEPT !.openOrders = <<>>]]
           R == Row(U, I)
<1>1. q \in Seq(R) /\ Len(q) \in Nat /\ \A k \in 1..Len(q) : q[k] \in R
  BY LenProperties, ElementOfSeq DEF Level
<1>2. base \in Visiting(U, I, P)
  BY EmptySeq DEF Visiting, Level
<1>3. /\ base.remainingQty = n /\ base.fills = F
      /\ base.level.availableQty = QtyOf(q) /\ base.level.openOrders = <<>>
  BY DEF Level
<1>4. PICK w \in [0..Len(q) -> Nat] : /\ w[0] = 0
                                      /\ \A k \in 1..Len(q) : w[k] = w[k-1] + Fillable(q[k])
                                      /\ QtyOf(q) = w[Len(q)]
                                      /\ \A k \in 0..Len(q) : w[k] <= QtyOf(q)
  BY <1>1, QtyOfRows
<1> HIDE DEF base, q
<1>5. PICK st \in [0..Len(q) -> Visiting(U, I, P)] :
                /\ st[0] = base
                /\ \A k \in 1..Len(q) : st[k] = Visit(taker, price, st[k-1], q[k])
                /\ VisitAll(taker, price, base, q) = st[Len(q)]
  <2>1. \E st : VisitRun(st, taker, price, base, q, Visiting(U, I, P))
    BY <1>1, <1>2, VisitStates
  <2>2. QED
    BY <2>1 DEF VisitRun
<1> DEFINE os(k) == st[k].level.openOrders
           Good(k) ==
             /\ st[k].remainingQty <= n
             /\ Len(os(k)) = k
             /\ st[k].level.availableQty = QtyOf(os(k)) + (QtyOf(q) - w[k])
             /\ \A i \in 1..k : SameOrder(os(k)[i], q[i])
             /\ st[k].remainingQty > 0 =>
                  \A i \in 1..k : os(k)[i].userId = taker.userId \/ Fillable(os(k)[i]) = 0
             /\ Explained(st[k].fills, F, taker, price, q)
             /\ InTurn(st[k].fills, F, n, taker, price, q, os(k))
           S == {k \in 0..Len(q) : Good(k)}
<1>6. \A k \in 0..Len(q) : /\ st[k].remainingQty \in Nat /\ st[k].level.availableQty \in Nat
                           /\ os(k) \in Seq(R) /\ st[k].fills \in Seq(Fill(I, P))
  BY DEF Visiting, Level
<1>7. QtyOf(q) \in Nat
  BY <1>1, <1>4
<1>8. 0 \in S
  <2>1. Len(os(0)) = 0 /\ QtyOf(os(0)) = 0
    BY <1>3, <1>5, QtyOfEmpty, EmptySeq
  <2>2. Good(0)
    <3>1. /\ st[0].remainingQty = n /\ st[0].fills = F
          /\ st[0].level.availableQty = QtyOf(q)
      BY <1>3, <1>5
    <3>2. Explained(F, F, taker, price, q) /\ InTurn(F, F, n, taker, price, q, os(0))
      BY DEF Explained, InTurn
    <3>3. QED
      BY <1>4, <1>7, <2>1, <3>1, <3>2
  <2>3. QED
    BY <1>1, <2>2
<1>9. ASSUME NEW k \in 1..Len(q), k - 1 \in S PROVE k \in S
  <2> DEFINE a == st[k-1]
             o == q[k]
             t == Take(taker, a.remainingQty, o)
             r == Filled(o, t)
             v == st[k]
  <2>1. k \in 0..Len(q) /\ k - 1 \in 0..Len(q) /\ o \in R /\ a \in Visiting(U, I, P)
    <3> HIDE DEF R
    <3>1. k \in 0..Len(q) /\ k - 1 \in 0..Len(q)
      BY <1>1
    <3>2. QED
      BY <1>1, <3>1
  <2>2. Good(k-1)
    BY <1>9
  <2>3. v = Visit(taker, price, a, o)
    BY <1>5
  <2>4. /\ t \in Nat /\ t <= a.remainingQty /\ t <= Fillable(o)
        /\ o.userId # taker.userId => t = a.remainingQty \/ t = Fillable(o)
        /\ v.remainingQty = a.remainingQty - t
        /\ v.level.availableQty = Max({0, a.level.availableQty - t})
        /\ v.level.openOrders = Append(a.level.openOrders, r)
        /\ r \in R /\ SameOrder(r, o) /\ Fillable(r) = Fillable(o) - t
        /\ t = 0 => v.fills = a.fills
        /\ t > 0 => \E f \in Fill(I, P) : FillFrom(f, taker, price, o)
                                          /\ v.fills = Append(a.fills, f)
    <3>1. o \in Row(U, I) /\ a \in Visiting(U, I, P)
      BY <2>1
    <3> HIDE DEF a, o, v, R
    <3>2. r \in Row(U, I) /\ Visited(v, t, a, o, taker, price, Fill(I, P))
      BY <2>3, <3>1, VisitTypes
    <3> HIDE DEF t, r
    <3>3. QED
      BY <3>2 DEF Visited, R, r
  <2>5. /\ a.remainingQty \in Nat /\ a.level.availableQty \in Nat /\ Fillable(o) \in Nat
        /\ os(k-1) \in Seq(R) /\ a.fills \in Seq(Fill(I, P))
        /\ w[k] = w[k-1] + Fillable(o) /\ w[k] \in Nat /\ w[k-1] \in Nat
        /\ w[k] <= QtyOf(q)
    BY <1>4, <1>6, <2>1, RowWants
  <2>6. \A x \in R : Fillable(x) \in Int
    BY RowWants
  <2> HIDE DEF t, r, R
  <2>7. /\ Len(os(k)) = k /\ os(k)[k] = r
        /\ \A i \in 1..(k-1) : os(k)[i] = os(k-1)[i]
    <3>a. os(k) = Append(os(k-1), r) /\ os(k-1) \in Seq(R) /\ r \in R
      BY <2>4, <2>5
    <3> DEFINE before == os(k-1)
               after == os(k)
    <3>b. after = Append(before, r) /\ before \in Seq(R) /\ r \in R
      BY <3>a
    <3> HIDE DEF before, after
    <3>c. /\ Len(after) = Len(before) + 1 /\ after[Len(before) + 1] = r
          /\ \A i \in 1..Len(before) : after[i] = before[i]
      BY <3>b, AppendProperties
    <3>1. /\ Len(os(k)) = Len(os(k-1)) + 1 /\ os(k)[Len(os(k-1)) + 1] = r
          /\ \A i \in 1..Len(os(k-1)) : os(k)[i] = os(k-1)[i]
      BY <3>c DEF before, after
    <3>2. Len(os(k-1)) = k - 1 /\ (k - 1) + 1 = k
      BY <2>2
    <3>3. QED
      BY <3>1, <3>2
  <2>8. QtyOf(os(k)) = QtyOf(os(k-1)) + Fillable(r)
    <3> DEFINE before == os(k-1)
               after == os(k)
    <3>1. after = Append(before, r) /\ before \in Seq(R) /\ r \in R
      BY <2>4, <2>5
    <3> HIDE DEF before, after
    <3>2. QtyOf(after) = QtyOf(before) + Fillable(r)
      BY <2>6, <3>1, QtyOfAppend
    <3>3. QED
      BY <3>2 DEF before, after
  <2>9. QtyOf(os(k-1)) \in Nat
    <3> DEFINE before == os(k-1)
    <3>1. before \in Seq(Row(U, I))
      BY <2>5 DEF R
    <3> HIDE DEF before
    <3>2. \E x \in [0..Len(before) -> Nat] : QtyOf(before) = x[Len(before)]
      BY <3>1, QtyOfRows
    <3>3. Len(before) \in Nat
      BY <3>1, LenProperties
    <3> DEFINE last  == Len(before)
               total == QtyOf(before)
    <3>4. last \in Nat /\ \E x \in [0..last -> Nat] : total = x[last]
      BY <3>2, <3>3
    <3> HIDE DEF last, total
    <3>5. total \in Nat
      BY <3>4
    <3>6. QED
      BY <3>5 DEF before, total
  <2>10. v.level.availableQty = QtyOf(os(k)) + (QtyOf(q) - w[k])
    <3>1. a.level.availableQty = QtyOf(os(k-1)) + (QtyOf(q) - w[k-1])
      BY <2>2
    <3>2. v.level.availableQty = Max({0, a.level.availableQty - t})
      BY <2>4
    <3>3. t <= Fillable(o) /\ Fillable(r) = Fillable(o) - t /\ t \in Nat
      BY <2>4
    <3>4. /\ a.level.availableQty \in Nat /\ Fillable(o) \in Nat
          /\ w[k] = w[k-1] + Fillable(o) /\ w[k-1] \in Nat
          /\ w[k-1] + Fillable(o) <= QtyOf(q)
      BY <2>5
    <3> DEFINE b0 == a.level.availableQty
               f0 == Fillable(o)
               w0 == w[k-1]
               s0 == QtyOf(os(k-1))
               tot == QtyOf(q)
    <3>5. /\ b0 \in Nat /\ t \in Nat /\ f0 \in Nat /\ w0 \in Nat /\ s0 \in Nat /\ tot \in Nat
          /\ b0 = s0 + (tot - w0) /\ w0 + f0 <= tot /\ t <= f0
      BY <1>7, <2>9, <3>1, <3>3, <3>4
    <3> HIDE DEF b0, f0, w0, s0, tot, S, os, Good
    <3>6. Max({0, b0 - t}) = (s0 + (f0 - t)) + (tot - (w0 + f0))
      BY <3>5, ShownAfterTake, SMTT(30)
    <3>7. QED
      BY <2>8, <3>2, <3>3, <3>4, <3>6 DEF b0, f0, w0, s0, tot, os
  <2>11. \A i \in 1..k : SameOrder(os(k)[i], q[i])
    <3>1. ASSUME NEW i \in 1..k PROVE SameOrder(os(k)[i], q[i])
      <4>1. CASE i = k
        BY <2>4, <2>7, <4>1
      <4>2. CASE i \in 1..(k-1)
        BY <2>2, <2>7, <4>2
      <4>3. QED
        BY <4>1, <4>2
    <3>2. QED
      BY <3>1
  <2>12. ASSUME v.remainingQty > 0, NEW i \in 1..k
         PROVE  os(k)[i].userId = taker.userId \/ Fillable(os(k)[i]) = 0
    <3>1. a.remainingQty > 0 /\ t # a.remainingQty
      <4>1. v.remainingQty = a.remainingQty - t /\ t \in Nat /\ a.remainingQty \in Nat
        BY <2>4, <2>5
      <4> HIDE DEF a, v
      <4>2. QED
        BY <2>12, <4>1
    <3>2. CASE i = k
      <4>1. r.userId = o.userId
        BY <2>4 DEF SameOrder
      <4>2. o.userId # taker.userId => Fillable(r) = 0
        BY <2>4, <2>5, <3>1
      <4>3. QED
        BY <2>7, <3>2, <4>1, <4>2
    <3>3. CASE i \in 1..(k-1)
      BY <2>2, <2>7, <3>1, <3>3
    <3>4. QED
      BY <3>2, <3>3
  <2>13. Explained(v.fills, F, taker, price, q)
    <3>1. CASE t = 0
      BY <2>2, <2>4, <3>1
    <3>2. CASE t # 0
      <4>1. t > 0
        BY <2>4, <3>2
      <4>2. PICK f \in Fill(I, P) : FillFrom(f, taker, price, o) /\ v.fills = Append(a.fills, f)
        BY <2>4, <4>1
      <4>3. ToSet(v.fills) = ToSet(a.fills) \cup {f}
        BY <2>5, <4>2, ToSetAppend
      <4>4. QED
        BY <2>2, <4>2, <4>3 DEF Explained
    <3>3. QED
      BY <3>1, <3>2
  <2>14. v.remainingQty <= n /\ (t > 0 => a.remainingQty > 0 /\ n > 0)
    <3> DEFINE x == a.remainingQty
               y == v.remainingQty
    <3>1. x \in Nat /\ x <= n /\ t \in Nat /\ t <= x /\ y = x - t
      BY <2>2, <2>4, <2>5
    <3> HIDE DEF x, y
    <3>2. y <= n /\ (t > 0 => x > 0 /\ n > 0)
      BY <3>1
    <3>3. QED
      BY <3>2 DEF x, y
  <2>15. InTurn(v.fills, F, n, taker, price, q, os(k))
    <3>1. Len(os(k-1)) = k - 1 /\ InTurn(a.fills, F, n, taker, price, q, os(k-1))
      BY <2>2
    <3>2. ASSUME NEW f \in ToSet(v.fills), f \notin ToSet(F)
          PROVE  /\ n > 0
                 /\ \E i \in 1..k :
                      /\ FillFrom(f, taker, price, q[i])
                      /\ \A j \in 1..(i-1) : os(k)[j].userId = taker.userId \/ Fillable(os(k)[j]) = 0
      <4>1. CASE f \in ToSet(a.fills)
        <5>1. PICK i \in 1..(k-1) :
                     /\ FillFrom(f, taker, price, q[i])
                     /\ \A j \in 1..(i-1) : os(k-1)[j].userId = taker.userId \/ Fillable(os(k-1)[j]) = 0
          BY <3>1, <3>2, <4>1 DEF InTurn
        <5>2. n > 0
          BY <3>1, <3>2, <4>1 DEF InTurn
        <5>3. i \in 1..k /\ \A j \in 1..(i-1) : j \in 1..(k-1)
          BY <1>1
        <5>4. \A j \in 1..(i-1) : os(k)[j] = os(k-1)[j]
          BY <2>7, <5>3
        <5>5. QED
          BY <5>1, <5>2, <5>3, <5>4
      <4>2. CASE f \notin ToSet(a.fills)
        <5>1. t > 0
          BY <2>4, <3>2, <4>2
        <5>2. PICK g \in Fill(I, P) : FillFrom(g, taker, price, o) /\ v.fills = Append(a.fills, g)
          BY <2>4, <5>1
        <5>3. ToSet(v.fills) = ToSet(a.fills) \cup {g}
          BY <2>5, <5>2, ToSetAppend
        <5>4. FillFrom(f, taker, price, q[k]) /\ k \in 1..k
          BY <1>1, <3>2, <4>2, <5>2, <5>3
        <5>5. a.remainingQty > 0 /\ n > 0
          BY <2>14, <5>1
        <5>6. \A j \in 1..(k-1) : os(k)[j].userId = taker.userId \/ Fillable(os(k)[j]) = 0
          BY <2>2, <2>7, <5>5
        <5>7. QED
          BY <5>4, <5>5, <5>6
      <4>3. QED
        BY <4>1, <4>2
    <3>3. Len(os(k)) = k
      BY <2>7
    <3> DEFINE G == v.fills
               ws == os(k)
    <3> HIDE DEF G, ws
    <3>4. ASSUME NEW f \in ToSet(G), f \notin ToSet(F)
          PROVE  /\ n > 0
                 /\ \E i \in 1..Len(ws) :
                      /\ FillFrom(f, taker, price, q[i])
                      /\ \A j \in 1..(i-1) : ws[j].userId = taker.userId \/ Fillable(ws[j]) = 0
      BY <3>2, <3>3, <3>4 DEF G, ws
    <3>5. InTurn(G, F, n, taker, price, q, ws)
      BY <3>4 DEF InTurn
    <3>6. QED
      BY <3>5 DEF G, ws
  <2>16. QED
    BY <2>1, <2>7, <2>10, <2>11, <2>12, <2>13, <2>14, <2>15
<1>10. Good(Len(q))
  <2>1. \A k \in 0..Len(q) : k \in S
    <3> HIDE DEF S
    <3>1. QED
      BY <1>1, <1>8, <1>9, Upwards
  <2>2. Len(q) \in 0..Len(q)
    BY <1>1
  <2>3. QED
    BY <2>1, <2>2
<1>11. st[Len(q)] \in Visiting(U, I, P)
  BY <1>1
<1>12. QED
  <2> DEFINE z == st[Len(q)]
  <2>1. z.level.availableQty = QtyOf(z.level.openOrders)
    <3>1. Len(q) \in 0..Len(q) /\ z.level.openOrders \in Seq(R)
      BY <1>1, <1>6
    <3>2. \E x \in [0..Len(z.level.openOrders) -> Nat] :
            QtyOf(z.level.openOrders) = x[Len(z.level.openOrders)]
      BY <3>1, QtyOfRows
    <3>3. Len(z.level.openOrders) \in Nat
      BY <3>1, LenProperties
    <3>4. QtyOf(z.level.openOrders) \in Nat
      BY <3>2, <3>3
    <3>5. QED
      BY <1>4, <1>7, <1>10, <3>4
  <2>2. QED
    BY <1>5, <1>10, <1>11, <2>1 DEF base, q

-----------------------------------------------------------------------------
(* Ladders, and what a match makes of one.                                 *)

\* A level as the book keeps it: not empty, showing what its orders want,
\* none of them filled.
GoodLevel(U, I) ==
  {l \in Level(U, I) : /\ l.openOrders # <<>> /\ l.availableQty = QtyOf(l.openOrders)
                       /\ \A i \in 1..Len(l.openOrders) : Fillable(l.openOrders[i]) > 0}

\* Finitely many prices, with a good level each.
Ladder(U, I, P) ==
  {L \in UNION {[D -> GoodLevel(U, I)] : D \in SUBSET P} : IsFiniteSet(DOMAIN L)}

\* What a ladder is.
LEMMA LadderHas ==
  ASSUME NEW U, NEW I, NEW P, NEW L \in Ladder(U, I, P)
  PROVE  /\ DOMAIN L \subseteq P /\ IsFiniteSet(DOMAIN L)
         /\ L \in [DOMAIN L -> GoodLevel(U, I)]
  BY DEF Ladder

\* What makes a ladder.
LEMMA LadderMade ==
  ASSUME NEW U, NEW I, NEW P, NEW D \in SUBSET P, IsFiniteSet(D),
         NEW L \in [D -> GoodLevel(U, I)]
  PROVE  L \in Ladder(U, I, P)
<1>1. DOMAIN L = D
  OBVIOUS
<1>2. QED
  BY <1>1 DEF Ladder

\* A level put back, or deleted when it is empty.
LEMMA LevelSet ==
  ASSUME NEW U, NEW I, NEW P, NEW L \in Ladder(U, I, P), NEW price \in DOMAIN L,
         NEW l \in Level(U, I), l.availableQty = QtyOf(l.openOrders),
         \A i \in 1..Len(l.openOrders) : Fillable(l.openOrders[i]) > 0
  PROVE  /\ SetLevel(L, price, l) \in Ladder(U, I, P)
         /\ DOMAIN SetLevel(L, price, l) \subseteq DOMAIN L
         /\ \A p \in DOMAIN L : p # price =>
              p \in DOMAIN SetLevel(L, price, l) /\ SetLevel(L, price, l)[p] = L[p]
         /\ price \in DOMAIN SetLevel(L, price, l) => SetLevel(L, price, l)[price] = l
<1>1. /\ DOMAIN L \subseteq P /\ IsFiniteSet(DOMAIN L)
      /\ L \in [DOMAIN L -> GoodLevel(U, I)]
  BY LadderHas
<1>2. CASE l.openOrders = <<>>
  <2> DEFINE D == DOMAIN L \ {price}
             N == [p \in D |-> L[p]]
  <2>1. SetLevel(L, price, l) = N
    BY <1>2 DEF SetLevel, Restrict
  <2>2. D \in SUBSET P /\ IsFiniteSet(D)
    BY <1>1, FS_RemoveElement
  <2>3. N \in [D -> GoodLevel(U, I)]
    BY <1>1
  <2>4. N \in Ladder(U, I, P)
    <3> HIDE DEF N, D
    <3>1. QED
      BY <2>2, <2>3, LadderMade
  <2>5. QED
    BY <2>1, <2>4
<1>3. CASE l.openOrders # <<>>
  <2> DEFINE D == DOMAIN L
             N == [L EXCEPT ![price] = l]
  <2>1. SetLevel(L, price, l) = N
    BY <1>3 DEF SetLevel
  <2>2. D \in SUBSET P /\ IsFiniteSet(D)
    BY <1>1
  <2>3. l \in GoodLevel(U, I)
    BY <1>3 DEF GoodLevel
  <2>4. N \in [D -> GoodLevel(U, I)]
    BY <1>1, <2>3
  <2>5. N \in Ladder(U, I, P)
    <3> HIDE DEF N, D
    <3>1. QED
      BY <2>2, <2>4, LadderMade
  <2>6. QED
    BY <1>1, <2>1, <2>5
<1>4. QED
  BY <1>2, <1>3

\* Every order of the one queue is an order of the other, and in its order.
FromQueue(q1, q0) ==
  /\ \A i \in 1..Len(q1) : \E j \in 1..Len(q0) : SameOrder(q1[i], q0[j])
  /\ \A rank : Ranked(q0, rank) => Ranked(q1, rank)

\* Every order of the one ladder is at its price in the other.
FromLadder(L1, L0) ==
  \A p \in DOMAIN L1 : p \in DOMAIN L0 /\ FromQueue(L1[p].openOrders, L0[p].openOrders)

\* All orders of a queue are this user's own.
Own(q, u) == \A i \in 1..Len(q) : q[i].userId = u

\* Where the outer loop is: what is left to take, the fills, the ladder.
Siding(U, I, P) == [remainingQty : Nat, fills : Seq(Fill(I, P)), levels : Ladder(U, I, P)]

\* The prices of the ladder, all but one of them as they were.
SameBut(L1, L0, price) ==
  /\ DOMAIN L1 \subseteq DOMAIN L0
  /\ \A p \in DOMAIN L0 : p # price => p \in DOMAIN L1 /\ L1[p] = L0[p]

\* No order of the queue is ranked before the maker of f, but the taker's own.
NotPassed(f, q, taker, rank) ==
  \A i \in 1..Len(q) : q[i].userId # taker.userId =>
    q[i].orderId = f.makerOrderId \/ rank[f.makerOrderId] < rank[q[i].orderId]

\* The fills of G that are not in F are of a taker that wanted something, at a price
\* of the ladder where no order of the queue q was passed over.
ServedAt(G, F, n, taker, price, q, M) ==
  \A rank : Ranked(q, rank) =>
    \A f \in ToSet(G) : f \notin ToSet(F) =>
      /\ n > 0 /\ f.price = price
      /\ price \in DOMAIN M => NotPassed(f, M[price].openOrders, taker, rank)

\* What the loop over one level of a ladder leaves.
LEMMA LevelMatched ==
  ASSUME NEW U, NEW I, NEW P, NEW taker, taker.orderId \in I, NEW price \in P,
         NEW a \in Siding(U, I, P)
  PROVE  LET m == MatchLevel(taker, price, a)
         IN  /\ m \in Siding(U, I, P) /\ m.remainingQty <= a.remainingQty
             /\ SameBut(m.levels, a.levels, price) /\ FromLadder(m.levels, a.levels)
             /\ m.remainingQty > 0 /\ price \in DOMAIN m.levels =>
                  Own(m.levels[price].openOrders, taker.userId)
             /\ price \notin DOMAIN a.levels => m.fills = a.fills
             /\ price \in DOMAIN a.levels =>
                  /\ Explained(m.fills, a.fills, taker, price, a.levels[price].openOrders)
                  /\ ServedAt(m.fills, a.fills, a.remainingQty, taker, price,
                              a.levels[price].openOrders, m.levels)
<1> DEFINE L == a.levels
           m == MatchLevel(taker, price, a)
<1>1. a.remainingQty \in Nat /\ a.fills \in Seq(Fill(I, P)) /\ L \in Ladder(U, I, P)
  BY DEF Siding
<1>2. /\ DOMAIN L \subseteq P /\ IsFiniteSet(DOMAIN L)
      /\ L \in [DOMAIN L -> GoodLevel(U, I)]
  BY <1>1, LadderHas
<1>3. CASE price \notin DOMAIN L
  <2>1. m = a
    BY <1>3 DEF MatchLevel
  <2>2. FromLadder(L, L)
    BY DEF FromLadder, FromQueue, SameOrder
  <2>3. a.remainingQty <= a.remainingQty
    BY <1>1
  <2>4. SameBut(L, L, price)
    BY DEF SameBut
  <2> HIDE DEF m
  <2>5. QED
    BY <1>3, <2>1, <2>2, <2>3, <2>4 DEF m
<1>4. CASE price \in DOMAIN L
  <2> DEFINE level == L[price]
             q == level.openOrders
             v == VisitAll(taker, price,
                    [remainingQty |-> a.remainingQty, fills |-> a.fills,
                     level |-> [level EXCEPT !.openOrders = <<>>]], q)
             os == v.level.openOrders
             l == [v.level EXCEPT !.openOrders = Unfilled(@)]
             N == SetLevel(L, price, l)
  <2>1. level \in GoodLevel(U, I)
    BY <1>2, <1>4
  <2>2. level \in Level(U, I) /\ level.availableQty = QtyOf(level.openOrders)
    BY <2>1 DEF GoodLevel
  <2>3. m = [remainingQty |-> v.remainingQty, fills |-> v.fills, levels |-> N]
    BY <1>4 DEF MatchLevel, VisitAll
  <2>4. /\ v \in Visiting(U, I, P) /\ v.remainingQty <= a.remainingQty
        /\ Len(os) = Len(q) /\ v.level.availableQty = QtyOf(os)
        /\ \A i \in 1..Len(q) : SameOrder(os[i], q[i])
        /\ v.remainingQty > 0 =>
             \A i \in 1..Len(q) : os[i].userId = taker.userId \/ Fillable(os[i]) = 0
        /\ Explained(v.fills, a.fills, taker, price, q)
        /\ InTurn(v.fills, a.fills, a.remainingQty, taker, price, q, os)
    <3> DEFINE n == a.remainingQty
               F == a.fills
    <3> HIDE DEF n, F, level
    <3>1. n \in Nat /\ F \in Seq(Fill(I, P))
      BY <1>1 DEF n, F
    <3>2. LET w == VisitAll(taker, price,
                     [remainingQty |-> n, fills |-> F,
                      level |-> [level EXCEPT !.openOrders = <<>>]], q)
              ws == w.level.openOrders
          IN  /\ w \in Visiting(U, I, P) /\ w.remainingQty <= n
              /\ Len(ws) = Len(q) /\ w.level.availableQty = QtyOf(ws)
              /\ \A i \in 1..Len(q) : SameOrder(ws[i], q[i])
              /\ w.remainingQty > 0 =>
                   \A i \in 1..Len(q) : ws[i].userId = taker.userId \/ Fillable(ws[i]) = 0
              /\ Explained(w.fills, F, taker, price, q)
              /\ InTurn(w.fills, F, n, taker, price, q, ws)
      BY <2>2, <3>1, LevelVisited
    <3>3. QED
      BY <3>2 DEF n, F
  <2>5. v.remainingQty \in Nat /\ v.level \in Level(U, I) /\ v.fills \in Seq(Fill(I, P))
    BY <2>4 DEF Visiting
  <2>6. os \in Seq(Row(U, I))
    BY <2>5 DEF Level
  <2> HIDE DEF v
  <2>7. /\ Unfilled(os) \in Seq(Row(U, I)) /\ QtyOf(Unfilled(os)) = QtyOf(os)
        /\ \A j \in 1..Len(Unfilled(os)) : /\ Fillable(Unfilled(os)[j]) > 0
                                           /\ \E i \in 1..Len(os) : Unfilled(os)[j] = os[i]
    BY <2>6, UnfilledKeeps
  <2>8. l \in Level(U, I) /\ l.openOrders = Unfilled(os) /\ l.availableQty = v.level.availableQty
    BY <2>5, <2>7 DEF Level
  <2> HIDE DEF os, l, N, level
  <2>9. /\ l.availableQty = QtyOf(l.openOrders)
        /\ \A i \in 1..Len(l.openOrders) : Fillable(l.openOrders[i]) > 0
    BY <2>4, <2>7, <2>8
  <2>10. /\ N \in Ladder(U, I, P) /\ DOMAIN N \subseteq DOMAIN L
         /\ \A p \in DOMAIN L : p # price => p \in DOMAIN N /\ N[p] = L[p]
         /\ price \in DOMAIN N => N[price] = l
    BY <1>1, <1>4, <2>8, <2>9, LevelSet DEF N
  <2>11. FromQueue(l.openOrders, q)
    <3>1. ASSUME NEW rank, Ranked(q, rank) PROVE Ranked(l.openOrders, rank)
      <4>1. Ranked(os, rank)
        BY <2>4, <3>1 DEF Ranked, SameOrder
      <4>2. QED
        BY <2>6, <2>8, <4>1, UnfilledRanked
    <3>2. QED
      BY <2>4, <2>7, <2>8, <3>1 DEF FromQueue
  <2>12. FromLadder(N, L)
    <3>1. ASSUME NEW p \in DOMAIN N
          PROVE  p \in DOMAIN L /\ FromQueue(N[p].openOrders, L[p].openOrders)
      <4>1. CASE p = price
        BY <1>4, <2>10, <2>11, <4>1 DEF level
      <4>2. CASE p # price
        BY <2>10, <4>2 DEF FromQueue, SameOrder
      <4>3. QED
        BY <4>1, <4>2
    <3>2. QED
      BY <3>1 DEF FromLadder
  <2>13. ASSUME v.remainingQty > 0 PROVE Own(l.openOrders, taker.userId)
    <3>1. ASSUME NEW j \in 1..Len(l.openOrders) PROVE l.openOrders[j].userId = taker.userId
      <4>1. PICK i \in 1..Len(os) : Unfilled(os)[j] = os[i]
        BY <2>7, <2>8
      <4>2. Fillable(os[i]) > 0
        BY <2>7, <2>8, <4>1
      <4>3. Fillable(os[i]) # 0
        BY <4>2
      <4>4. QED
        BY <2>4, <2>8, <2>13, <4>1, <4>3
    <3>2. QED
      BY <3>1 DEF Own
  <2>14. SameBut(N, L, price)
    BY <2>10 DEF SameBut
  <2>15. m \in Siding(U, I, P)
    BY <2>3, <2>5, <2>10 DEF Siding
  <2>16. m.remainingQty = v.remainingQty /\ m.fills = v.fills /\ m.levels = N
    BY <2>3
  <2>17. price \in DOMAIN N => Own(N[price].openOrders, taker.userId) \/ ~(v.remainingQty > 0)
    BY <2>10, <2>13
  <2>18. ServedAt(v.fills, a.fills, a.remainingQty, taker, price, q, N)
    <3> DEFINE n == a.remainingQty
               F == a.fills
               G == v.fills
               z == l.openOrders
    <3>1. /\ InTurn(G, F, n, taker, price, q, os) /\ Len(os) = Len(q) /\ z = Unfilled(os)
          /\ \A i \in 1..Len(q) : SameOrder(os[i], q[i])
          /\ price \in DOMAIN N => N[price].openOrders = z
      BY <2>4, <2>8, <2>10
    <3>2. \A j \in 1..Len(z) : \E i \in 1..Len(os) : z[j] = os[i] /\ Fillable(os[i]) > 0
      BY <2>7, <2>8
    <3>3. Len(os) \in Nat
      BY <2>6, LenProperties
    <3> HIDE DEF n, F, G, z, q
    <3>4. ASSUME NEW rank, Ranked(q, rank), NEW f \in ToSet(G), f \notin ToSet(F)
          PROVE  n > 0 /\ f.price = price /\ NotPassed(f, z, taker, rank)
      <4>1. n > 0
        BY <3>1, <3>4 DEF InTurn
      <4>2. PICK i \in 1..Len(os) :
                   /\ FillFrom(f, taker, price, q[i])
                   /\ \A j \in 1..(i-1) : os[j].userId = taker.userId \/ Fillable(os[j]) = 0
        BY <3>1, <3>4 DEF InTurn
      <4>3. f.price = price /\ f.makerOrderId = q[i].orderId
        BY <4>2 DEF FillFrom
      <4>4. ASSUME NEW j \in 1..Len(z), z[j].userId # taker.userId
            PROVE  z[j].orderId = f.makerOrderId \/ rank[f.makerOrderId] < rank[z[j].orderId]
        <5>1. PICK h \in 1..Len(os) : z[j] = os[h] /\ Fillable(os[h]) > 0
          BY <3>2
        <5>2. Fillable(os[h]) # 0
          BY <5>1
        <5>3. h \notin 1..(i-1)
          BY <4>2, <4>4, <5>1, <5>2
        <5>4. h = i \/ i < h
          BY <3>3, <5>3
        <5>5. z[j].orderId = q[h].orderId /\ i \in 1..Len(q) /\ h \in 1..Len(q)
          BY <3>1, <5>1 DEF SameOrder
        <5>6. QED
          BY <3>4, <4>3, <5>4, <5>5 DEF Ranked
      <4>5. QED
        BY <4>1, <4>3, <4>4 DEF NotPassed
    <3>5. ServedAt(G, F, n, taker, price, q, N)
      BY <3>1, <3>4 DEF ServedAt
    <3>6. QED
      BY <3>5 DEF G, F, n
  <2> HIDE DEF m
  <2>19. QED
    BY <1>4, <2>4, <2>12, <2>14, <2>15, <2>16, <2>17, <2>18 DEF m, level
<1>5. QED
  BY <1>3, <1>4

-----------------------------------------------------------------------------
(* The prices in order, and the outer loop.                                *)

\* Finitely many naturals can be put in order.
LEMMA Enumerated ==
  ASSUME NEW n \in Nat
  PROVE  \A B : B \subseteq Nat /\ IsFiniteSet(B) /\ Cardinality(B) = n =>
           \E s \in [1..n -> B] : \A i, j \in 1..n : i < j => s[i] < s[j]
<1> DEFINE Can(k) == \A B : B \subseteq Nat /\ IsFiniteSet(B) /\ Cardinality(B) = k =>
                       \E s \in [1..k -> B] : \A i, j \in 1..k : i < j => s[i] < s[j]
           S == {k \in 0..n : Can(k)}
<1>1. 0 \in S
  <2>1. ASSUME NEW B, B \subseteq Nat
        PROVE  \E s \in [1..0 -> B] : \A i, j \in 1..0 : i < j => s[i] < s[j]
    <3> DEFINE e == [x \in 1..0 |-> x]
    <3>1. e \in [1..0 -> B] /\ \A i, j \in 1..0 : i < j => e[i] < e[j]
      OBVIOUS
    <3> HIDE DEF e
    <3>2. QED
      BY <3>1
  <2>2. QED
    BY <2>1
<1>2. ASSUME NEW k \in 1..n, k - 1 \in S PROVE k \in S
  <2>1. Can(k - 1) /\ k \in 0..n
    BY <1>2
  <2>2. ASSUME NEW B, B \subseteq Nat, IsFiniteSet(B), Cardinality(B) = k
        PROVE  \E s \in [1..k -> B] : \A i, j \in 1..k : i < j => s[i] < s[j]
    <3>1. B # {}
      BY <2>2, FS_EmptySet
    <3>2. PICK m \in B : \A y \in B : m <= y
      BY <2>2, <3>1, Least
    <3> DEFINE C == B \ {m}
    <3>3. C \subseteq Nat /\ IsFiniteSet(C) /\ Cardinality(C) = k - 1
      BY <2>2, <3>2, FS_RemoveElement
    <3>4. \A y \in C : m < y /\ y \in B
      BY <2>2, <3>2
    <3> HIDE DEF C
    <3>5. PICK r \in [1..(k-1) -> C] : \A i, j \in 1..(k-1) : i < j => r[i] < r[j]
      BY <2>1, <3>3
    <3> DEFINE s == [i \in 1..k |-> IF i = 1 THEN m ELSE r[i - 1]]
    <3>6. \A i \in 1..k : i # 1 => i - 1 \in 1..(k-1)
      OBVIOUS
    <3>7. \A i \in 1..k : i # 1 => s[i] = r[i-1] /\ s[i] \in C
      BY <3>5, <3>6
    <3>8. s[1] = m /\ m \in B
      BY <3>2
    <3>9. s \in [1..k -> B]
      BY <3>4, <3>7, <3>8
    <3>10. ASSUME NEW i \in 1..k, NEW j \in 1..k, i < j PROVE s[i] < s[j]
      <4>1. j # 1 /\ s[j] = r[j-1] /\ s[j] \in C
        BY <3>7, <3>10
      <4>2. CASE i = 1
        <5> HIDE DEF s
        <5>1. QED
          BY <3>4, <3>8, <4>1, <4>2
      <4>3. CASE i # 1
        <5>1. i - 1 \in 1..(k-1) /\ j - 1 \in 1..(k-1) /\ i - 1 < j - 1
          BY <3>6, <3>10, <4>1, <4>3
        <5>2. s[i] = r[i-1]
          BY <3>7, <4>3
        <5> HIDE DEF s
        <5>3. QED
          BY <3>5, <4>1, <5>1, <5>2
      <4>4. QED
        BY <4>2, <4>3
    <3> HIDE DEF s
    <3>11. QED
      BY <3>9, <3>10
  <2>3. QED
    BY <2>1, <2>2
<1>3. \A k \in 0..n : k \in S
  <2> HIDE DEF S
  <2>1. QED
    BY <1>1, <1>2, Upwards
<1>4. Can(n)
  <2>1. n \in 0..n
    OBVIOUS
  <2>2. n \in S
    <3> HIDE DEF S
    <3>1. QED
      BY <1>3, <2>1
  <2> HIDE DEF Can
  <2>3. QED
    BY <2>2
<1>5. QED
  BY <1>4

\* s has all of B, each once.
Lists(s, B) ==
  /\ s \in Seq(B) /\ \A i, j \in 1..Len(s) : i # j => s[i] # s[j]
  /\ \A p \in B : \E i \in 1..Len(s) : s[i] = p

\* A price the taker of a side is served at before another.
Better(p, r, side) == IF side = "BUY" THEN p < r ELSE p > r

\* The better prices come first.
BestFirst(s, side) == \A i, j \in 1..Len(s) : i < j => Better(s[i], s[j], side)

\* The sorted prices are all of them, each once, the better ones first.
LEMMA SortedPricesAre ==
  ASSUME NEW B, B \subseteq Nat, IsFiniteSet(B), NEW side
  PROVE  /\ Lists(SortedPrices(B, side), B)
         /\ BestFirst(SortedPrices(B, side), side)
<1> DEFINE n == Cardinality(B)
           Sorted(s) == \A i, j \in 1..n :
                          i < j => IF side = "BUY" THEN s[i] < s[j] ELSE s[i] > s[j]
           t == CHOOSE s \in [1..n -> B] : Sorted(s)
<1>1. n \in Nat
  BY FS_CardinalityType
<1> HIDE DEF n
<1>2. PICK up \in [1..n -> B] : \A i, j \in 1..n : i < j => up[i] < up[j]
  BY <1>1, Enumerated DEF n
<1>3. \E s \in [1..n -> B] : Sorted(s)
  <2>1. CASE side = "BUY"
    BY <1>2, <2>1
  <2>2. CASE side # "BUY"
    <3> DEFINE down == [i \in 1..n |-> up[(n + 1) - i]]
    <3>1. \A i \in 1..n : (n + 1) - i \in 1..n
      BY <1>1
    <3>2. down \in [1..n -> B]
      BY <3>1
    <3>3. ASSUME NEW i \in 1..n, NEW j \in 1..n, i < j PROVE down[i] > down[j]
      <4>1. (n + 1) - i \in 1..n /\ (n + 1) - j \in 1..n /\ (n + 1) - j < (n + 1) - i
        BY <1>1, <3>3
      <4>2. up[(n + 1) - j] < up[(n + 1) - i]
        BY <1>2, <4>1
      <4>3. up[(n + 1) - j] \in Nat /\ up[(n + 1) - i] \in Nat
        BY <4>1
      <4>4. QED
        BY <4>2, <4>3
    <3> HIDE DEF down
    <3>4. QED
      BY <2>2, <3>2, <3>3
  <2>3. QED
    BY <2>1, <2>2
<1>4. t \in [1..n -> B] /\ Sorted(t)
  <2> HIDE DEF Sorted
  <2>1. QED
    BY <1>3
<1>5. SortedPrices(B, side) = t
  <2>1. \A s \in [1..n -> B] : DOMAIN s = 1..n
    OBVIOUS
  <2> DEFINE Sort(s) == \A i, j \in DOMAIN s :
                          i < j => IF side = "BUY" THEN s[i] < s[j] ELSE s[i] > s[j]
  <2>2. \A s \in [1..n -> B] : Sort(s) <=> Sorted(s)
    BY <2>1
  <2>3. SortedPrices(B, side) = CHOOSE s \in [1..n -> B] : Sort(s)
    BY DEF SortedPrices, n
  <2> HIDE DEF Sort, Sorted
  <2>4. QED
    BY <2>2, <2>3
<1> HIDE DEF t
<1>6. ASSUME NEW i \in 1..n, NEW j \in 1..n, i # j PROVE t[i] # t[j]
  <2>1. t[i] \in Nat /\ t[j] \in Nat /\ (i < j \/ j < i)
    <3>1. t \in [1..n -> B]
      BY <1>4
    <3>2. t[i] \in B /\ t[j] \in B
      BY <3>1
    <3>3. i < j \/ j < i
      BY <1>1, <1>6
    <3>4. QED
      BY <3>2, <3>3
  <2>2. ASSUME NEW a \in 1..n, NEW b \in 1..n, a < b, t[a] \in Nat, t[b] \in Nat
        PROVE  t[a] # t[b]
    BY <1>4, <2>2
  <2>3. QED
    BY <2>1, <2>2
<1>7. t \in Seq(B) /\ Len(t) = n
  BY <1>1, <1>4, SeqDef, LenProperties
<1>8. \A p \in B : \E i \in 1..n : t[i] = p
  <2>1. t \in Injection(1..n, B)
    BY <1>4, <1>6 DEF Injection, IsInjective
  <2>2. IsFiniteSet(1..n) /\ Cardinality(1..n) = n
    BY <1>1, FS_Interval
  <2>3. t \in Surjection(1..n, B)
    BY <2>1, <2>2, FS_Injection DEF n
  <2>4. QED
    BY <2>3 DEF Surjection
<1>9. QED
  BY <1>4, <1>5, <1>6, <1>7, <1>8 DEF Lists, BestFirst, Better

\* The visits of a ladder's levels, from some state on.
SideAll(taker, base, q) ==
  FoldLeft(LAMBDA acc, price : MatchLevel(taker, price, acc), base, q)

\* st has the states, members of A, of the visits to the levels at prices q.
SideRun(st, taker, base, q, A) ==
  /\ st \in [0..Len(q) -> A]
  /\ st[0] = base
  /\ \A k \in 1..Len(q) : st[k] = MatchLevel(taker, q[k], st[k-1])
  /\ SideAll(taker, base, q) = st[Len(q)]

\* The visits to some levels of a ladder, one after the other.
LEMMA SideStates ==
  ASSUME NEW U, NEW I, NEW P, NEW taker, taker.orderId \in I,
         NEW base \in Siding(U, I, P), NEW X, X \subseteq P, NEW q \in Seq(X)
  PROVE  \E st : SideRun(st, taker, base, q, Siding(U, I, P))
<1> DEFINE A == Siding(U, I, P)
           Step(i) == [s \in SUBSET (DOMAIN q) |->
                         IF s = {} THEN base
                         ELSE MatchLevel(taker, q[Max(s)], i[s \ {Max(s)}])]
           it == CHOOSE i : i = Step(i)
           h  == [a \in A |-> [x \in X |-> MatchLevel(taker, x, a)]]
           st == [k \in 0..Len(q) |-> it[1..k]]
<1>1. Len(q) \in Nat /\ DOMAIN q = 1..Len(q) /\ \A k \in 1..Len(q) : q[k] \in X
  BY LenProperties, ElementOfSeq
<1>2. SideAll(taker, base, q) = it[DOMAIN q]
  BY DEF SideAll, FoldLeft, MapThenFoldSet
<1>3. /\ base \in A
      /\ \A a \in A, x \in X : MatchLevel(taker, x, a) \in A
  BY LevelMatched
<1> HIDE DEF A
<1>4. \E i : i = Step(i)
  <2>1. h \in [A -> [X -> A]] /\ \A a \in A, x \in X : h[a][x] = MatchLevel(taker, x, a)
    BY <1>3
  <2>2. PICK g \in [SUBSET (1..Len(q)) -> A] : Folds(g, h, base, q, Len(q))
    <3> HIDE DEF h
    <3>1. QED
      BY <1>3, <2>1, FoldExists
  <2>3. ASSUME NEW s \in SUBSET (1..Len(q)), s # {}
        PROVE  g[s] = MatchLevel(taker, q[Max(s)], g[s \ {Max(s)}])
    <3>1. Max(s) \in 1..Len(q)
      BY <1>1, <2>3, MaxOfSome
    <3>2. g[s \ {Max(s)}] \in A /\ q[Max(s)] \in X
      BY <1>1, <3>1
    <3>3. g[s] = h[g[s \ {Max(s)}]][q[Max(s)]]
      BY <2>2, <2>3 DEF Folds
    <3> HIDE DEF h
    <3>4. QED
      BY <2>1, <3>2, <3>3
  <2>4. g[{}] = base
    BY <2>2 DEF Folds
  <2>5. g = Step(g)
    BY <1>1, <2>2, <2>3, <2>4
  <2>6. QED
    BY <2>5
<1>5. it = Step(it)
  BY <1>4
<1>6. it[{}] = base
  BY <1>5
<1>7. ASSUME NEW k \in 1..Len(q) PROVE it[1..k] = MatchLevel(taker, q[k], it[1..(k-1)])
  <2>1. k \in Nat \ {0} /\ 1..k \in SUBSET (DOMAIN q)
    BY <1>1
  <2>2. Max(1..k) = k /\ (1..k) \ {Max(1..k)} = 1..(k-1) /\ 1..k # {}
    BY <2>1, MaxOfFirst
  <2> HIDE DEF it
  <2>3. it[1..k] = MatchLevel(taker, q[Max(1..k)], it[(1..k) \ {Max(1..k)}])
    BY <1>5, <2>1, <2>2
  <2>4. QED
    BY <2>2, <2>3
<1> HIDE DEF it
<1>8. st[0] = base
  <2>1. 1..0 = {}
    OBVIOUS
  <2>2. QED
    BY <1>1, <1>6, <2>1
<1>9. \A k \in 1..Len(q) : st[k] = MatchLevel(taker, q[k], st[k-1])
  <2>1. \A k \in 1..Len(q) : k - 1 \in 0..Len(q) /\ k \in 0..Len(q)
    BY <1>1
  <2>2. QED
    BY <1>7, <2>1
<1>10. \A k \in 0..Len(q) : st[k] \in A
  <2> DEFINE S == {k \in 0..Len(q) : st[k] \in A}
  <2>1. 0 \in S
    BY <1>1, <1>3, <1>8
  <2>2. ASSUME NEW k \in 1..Len(q), k - 1 \in S PROVE k \in S
    <3>1. st[k-1] \in A /\ k \in 0..Len(q) /\ q[k] \in X
      BY <1>1, <2>2
    <3>2. st[k] = MatchLevel(taker, q[k], st[k-1])
      BY <1>9
    <3> HIDE DEF st
    <3>3. QED
      BY <1>3, <3>1, <3>2
  <2>3. \A k \in 0..Len(q) : k \in S
    <3> HIDE DEF S
    <3>1. QED
      BY <1>1, <2>1, <2>2, Upwards
  <2>4. QED
    BY <2>3
<1>11. st \in [0..Len(q) -> A]
  BY <1>10
<1>12. st[Len(q)] = SideAll(taker, base, q)
  BY <1>1, <1>2
<1> HIDE DEF st
<1>13. SideRun(st, taker, base, q, A)
  BY <1>8, <1>9, <1>11, <1>12 DEF SideRun
<1>14. QED
  BY <1>13 DEF A

\* Orders come from where the orders they come from come from.
LEMMA FromTwice ==
  ASSUME NEW L2, NEW L1, NEW L0, FromLadder(L2, L1), FromLadder(L1, L0)
  PROVE  FromLadder(L2, L0)
<1>1. ASSUME NEW p \in DOMAIN L2
      PROVE  p \in DOMAIN L0 /\ FromQueue(L2[p].openOrders, L0[p].openOrders)
  <2>1. p \in DOMAIN L1 /\ FromQueue(L2[p].openOrders, L1[p].openOrders)
    BY DEF FromLadder
  <2>2. p \in DOMAIN L0 /\ FromQueue(L1[p].openOrders, L0[p].openOrders)
    BY <2>1 DEF FromLadder
  <2>3. QED
    BY <2>1, <2>2 DEF FromQueue, SameOrder
<1>2. QED
  BY <1>1 DEF FromLadder

\* A fill is one that the taker may have with an order of the ladder.
Agreed(f, taker, L) ==
  /\ f.price \in DOMAIN L /\ Crosses(taker, f.price)
  /\ \E i \in 1..Len(L[f.price].openOrders) :
       FillFrom(f, taker, f.price, L[f.price].openOrders[i])

\* A taker whose limit, if it has one, is a number.
Limited(taker) == taker.orderType = "MARKET" \/ taker.price \in Nat

\* Better prices than one the taker's limit reaches are within it too.
LEMMA BetterCrosses ==
  ASSUME NEW taker, Limited(taker), NEW p \in Nat, NEW r \in Nat, Crosses(taker, r),
         Better(p, r, taker.side)
  PROVE  Crosses(taker, p)
BY DEF Limited, Crosses, Better

\* Nobody but the taker has an order left that should have been served before the
\* maker of f: at a better price, or at the same price and ranked before it.
FirstServed(f, taker, M, rank) ==
  \A p \in DOMAIN M :
    /\ Better(p, f.price, taker.side) => Own(M[p].openOrders, taker.userId)
    /\ p = f.price => NotPassed(f, M[p].openOrders, taker, rank)

\* The same of all the fills of a match that leaves M of L.
AllServed(G, taker, M, L) ==
  \A rank : (\A p \in DOMAIN L : Ranked(L[p].openOrders, rank)) =>
    \A f \in ToSet(G) : FirstServed(f, taker, M, rank)

\* With fewer orders left it stays so.
LEMMA StillServed ==
  ASSUME NEW f, NEW taker, NEW rank, NEW M, NEW N, FirstServed(f, taker, M, rank),
         FromLadder(N, M)
  PROVE  FirstServed(f, taker, N, rank)
<1>1. ASSUME NEW p \in DOMAIN N
      PROVE  /\ Better(p, f.price, taker.side) => Own(N[p].openOrders, taker.userId)
             /\ p = f.price => NotPassed(f, N[p].openOrders, taker, rank)
  <2>1. p \in DOMAIN M /\ FromQueue(N[p].openOrders, M[p].openOrders)
    BY DEF FromLadder
  <2>2. \A i \in 1..Len(N[p].openOrders) : \E j \in 1..Len(M[p].openOrders) :
          SameOrder(N[p].openOrders[i], M[p].openOrders[j])
    BY <2>1 DEF FromQueue
  <2>3. Better(p, f.price, taker.side) => Own(N[p].openOrders, taker.userId)
    BY <2>1, <2>2 DEF FirstServed, Own, SameOrder
  <2>4. p = f.price => NotPassed(f, N[p].openOrders, taker, rank)
    <3>1. ASSUME p = f.price, NEW i \in 1..Len(N[p].openOrders),
                 N[p].openOrders[i].userId # taker.userId
          PROVE  \/ N[p].openOrders[i].orderId = f.makerOrderId
                 \/ rank[f.makerOrderId] < rank[N[p].openOrders[i].orderId]
      <4>1. PICK j \in 1..Len(M[p].openOrders) : SameOrder(N[p].openOrders[i], M[p].openOrders[j])
        BY <2>2
      <4>2. NotPassed(f, M[p].openOrders, taker, rank)
        BY <2>1, <3>1 DEF FirstServed
      <4>3. QED
        BY <3>1, <4>1, <4>2 DEF NotPassed, SameOrder
    <3>2. QED
      BY <3>1 DEF NotPassed
  <2>5. QED
    BY <2>3, <2>4
<1>2. QED
  BY <1>1 DEF FirstServed

\* What a match leaves of a ladder, and what its fills are: the taker's price
\* reaches each of them, at the price of an order of somebody else; and when
\* the taker wants more, nothing but its own orders is left within its reach.
LEMMA SideMatched ==
  ASSUME NEW U, NEW I, NEW P, P \subseteq Nat, NEW taker, taker.orderId \in I,
         taker.qty \in Nat, NEW L \in Ladder(U, I, P)
  PROVE  LET m == MatchSide(L, taker)
         IN  /\ m \in Siding(U, I, P) /\ m.remainingQty <= taker.qty
             /\ FromLadder(m.levels, L)
             /\ m.remainingQty > 0 =>
                  \A p \in DOMAIN m.levels :
                    Crosses(taker, p) => Own(m.levels[p].openOrders, taker.userId)
             /\ \A f \in ToSet(m.fills) : Agreed(f, taker, L)
             /\ Limited(taker) => AllServed(m.fills, taker, m.levels, L)
<1> DEFINE m == MatchSide(L, taker)
           B == {p \in DOMAIN L : Crosses(taker, p)}
           q == SortedPrices(B, taker.side)
           base == [remainingQty |-> taker.qty, fills |-> <<>>, levels |-> L]
           A == Siding(U, I, P)
<1>1. /\ DOMAIN L \subseteq P /\ IsFiniteSet(DOMAIN L)
      /\ L \in [DOMAIN L -> GoodLevel(U, I)]
  BY LadderHas
<1>2. B \subseteq P /\ B \subseteq Nat /\ IsFiniteSet(B)
  BY <1>1, FS_Subset
<1>3. \A p : p \in B <=> p \in DOMAIN L /\ Crosses(taker, p)
  OBVIOUS
<1>4. m = SideAll(taker, base, q)
  BY DEF MatchSide, SideAll
<1>5. base \in A
  BY EmptySeq DEF Siding
<1>6. base.remainingQty = taker.qty /\ base.fills = <<>> /\ base.levels = L
  OBVIOUS
<1> HIDE DEF B, base
<1>7. /\ q \in Seq(B) /\ \A i, j \in 1..Len(q) : i # j => q[i] # q[j]
      /\ \A p \in B : \E i \in 1..Len(q) : q[i] = p
      /\ BestFirst(q, taker.side)
  <2>1. Lists(q, B) /\ BestFirst(q, taker.side)
    BY <1>2, SortedPricesAre
  <2> HIDE DEF q
  <2>2. QED
    BY <2>1 DEF Lists
<1> HIDE DEF q
<1>8. Len(q) \in Nat /\ \A k \in 1..Len(q) : q[k] \in B
  BY <1>7, LenProperties, ElementOfSeq
<1>9. PICK st \in [0..Len(q) -> A] :
        /\ st[0] = base
        /\ \A k \in 1..Len(q) : st[k] = MatchLevel(taker, q[k], st[k-1])
        /\ SideAll(taker, base, q) = st[Len(q)]
  <2>1. \E st : SideRun(st, taker, base, q, A)
    BY <1>2, <1>5, <1>7, SideStates
  <2> HIDE DEF A
  <2>2. QED
    BY <2>1 DEF SideRun
<1> HIDE DEF m
<1> DEFINE Good(k) ==
             /\ st[k].remainingQty <= taker.qty
             /\ \A j \in (k+1)..Len(q) :
                  q[j] \in DOMAIN st[k].levels /\ st[k].levels[q[j]] = L[q[j]]
             /\ FromLadder(st[k].levels, L)
             /\ st[k].remainingQty > 0 =>
                  \A i \in 1..k : q[i] \in DOMAIN st[k].levels =>
                    Own(st[k].levels[q[i]].openOrders, taker.userId)
             /\ \A f \in ToSet(st[k].fills) : Agreed(f, taker, L)
             /\ Limited(taker) => AllServed(st[k].fills, taker, st[k].levels, L)
           S == {k \in 0..Len(q) : Good(k)}
<1>10. 0 \in S
  <2>1. FromLadder(L, L)
    BY DEF FromLadder, FromQueue, SameOrder
  <2>2. ToSet(<<>>) = {}
    BY DEF ToSet
  <2>3. \A j \in 1..Len(q) : q[j] \in DOMAIN L
    BY <1>3, <1>8
  <2>4. AllServed(st[0].fills, taker, st[0].levels, L)
    BY <1>6, <1>9, <2>2 DEF AllServed
  <2>5. Good(0)
    BY <1>6, <1>9, <2>1, <2>2, <2>3, <2>4
  <2>6. QED
    BY <1>8, <2>5
<1>11. ASSUME NEW k \in 1..Len(q), k - 1 \in S PROVE k \in S
  <2> DEFINE a == st[k-1]
             b == st[k]
             p == q[k]
  <2>1. k \in 0..Len(q) /\ k - 1 \in 0..Len(q) /\ (k - 1) + 1 = k /\ k \in k..Len(q)
    BY <1>8
  <2>2. Good(k - 1)
    BY <1>11
  <2>3. a \in A /\ p \in P /\ p \in B
    BY <1>2, <1>8, <2>1
  <2>4. b = MatchLevel(taker, p, a)
    BY <1>9
  <2>5. p \in DOMAIN a.levels /\ a.levels[p] = L[p]
    BY <2>1, <2>2
  <2>6. /\ b \in A /\ b.remainingQty <= a.remainingQty
        /\ SameBut(b.levels, a.levels, p) /\ FromLadder(b.levels, a.levels)
        /\ b.remainingQty > 0 /\ p \in DOMAIN b.levels =>
             Own(b.levels[p].openOrders, taker.userId)
        /\ Explained(b.fills, a.fills, taker, p, L[p].openOrders)
        /\ ServedAt(b.fills, a.fills, a.remainingQty, taker, p, L[p].openOrders, b.levels)
    <3> HIDE DEF a, b, p, Good
    <3>1. LET x == MatchLevel(taker, p, a)
          IN  /\ x \in Siding(U, I, P) /\ x.remainingQty <= a.remainingQty
              /\ SameBut(x.levels, a.levels, p) /\ FromLadder(x.levels, a.levels)
              /\ x.remainingQty > 0 /\ p \in DOMAIN x.levels =>
                   Own(x.levels[p].openOrders, taker.userId)
              /\ p \notin DOMAIN a.levels => x.fills = a.fills
              /\ p \in DOMAIN a.levels =>
                   /\ Explained(x.fills, a.fills, taker, p, a.levels[p].openOrders)
                   /\ ServedAt(x.fills, a.fills, a.remainingQty, taker, p,
                               a.levels[p].openOrders, x.levels)
      BY <2>3, LevelMatched
    <3>2. QED
      BY <2>4, <2>5, <3>1
  <2>7. a.remainingQty \in Nat /\ b.remainingQty \in Nat
    BY <2>3, <2>6 DEF Siding
  <2>8. b.remainingQty <= taker.qty
    BY <2>2, <2>6, <2>7
  <2>9. ASSUME NEW j \in (k+1)..Len(q)
        PROVE  q[j] \in DOMAIN b.levels /\ b.levels[q[j]] = L[q[j]]
    <3>1. j \in k..Len(q) /\ j \in 1..Len(q) /\ j # k
      BY <1>8
    <3>2. q[j] # p
      BY <1>7, <3>1
    <3>3. q[j] \in DOMAIN a.levels /\ a.levels[q[j]] = L[q[j]]
      BY <2>1, <2>2, <3>1
    <3>4. QED
      BY <2>6, <3>2, <3>3 DEF SameBut
  <2>10. FromLadder(b.levels, L)
    BY <2>2, <2>6, FromTwice
  <2>11. ASSUME b.remainingQty > 0, NEW i \in 1..k, q[i] \in DOMAIN b.levels
         PROVE  Own(b.levels[q[i]].openOrders, taker.userId)
    <3>1. CASE i = k
      BY <2>6, <2>11, <3>1
    <3>2. CASE i # k
      <4>1. i \in 1..(k-1) /\ i \in 1..Len(q)
        BY <3>2
      <4>2. q[i] # p
        BY <1>7, <3>2, <4>1
      <4>3. a.remainingQty > 0
        BY <2>6, <2>7, <2>11
      <4>4. q[i] \in DOMAIN a.levels /\ b.levels[q[i]] = a.levels[q[i]]
        BY <2>6, <2>11, <4>2 DEF SameBut
      <4>5. QED
        BY <2>2, <4>1, <4>3, <4>4
    <3>3. QED
      BY <3>1, <3>2
  <2>12. ASSUME NEW f \in ToSet(b.fills) PROVE Agreed(f, taker, L)
    <3>1. CASE f \in ToSet(a.fills)
      BY <2>2, <3>1
    <3>2. CASE f \notin ToSet(a.fills)
      <4>1. PICK i \in 1..Len(L[p].openOrders) : FillFrom(f, taker, p, L[p].openOrders[i])
        BY <2>6, <3>2 DEF Explained
      <4>2. f.price = p
        BY <4>1 DEF FillFrom
      <4>3. p \in DOMAIN L /\ Crosses(taker, p)
        BY <1>3, <2>3
      <4>4. QED
        BY <4>1, <4>2, <4>3 DEF Agreed
    <3>3. QED
      BY <3>1, <3>2
  <2>13. ASSUME Limited(taker), NEW rank, \A x \in DOMAIN L : Ranked(L[x].openOrders, rank),
                NEW f \in ToSet(b.fills)
         PROVE  FirstServed(f, taker, b.levels, rank)
    <3>1. CASE f \in ToSet(a.fills)
      <4>1. FirstServed(f, taker, a.levels, rank)
        BY <2>2, <2>13, <3>1 DEF AllServed
      <4>2. QED
        BY <2>6, <4>1, StillServed
    <3>2. CASE f \notin ToSet(a.fills)
      <4>1. Ranked(L[p].openOrders, rank)
        BY <1>3, <2>3, <2>13
      <4>2. /\ a.remainingQty > 0 /\ f.price = p
            /\ p \in DOMAIN b.levels => NotPassed(f, b.levels[p].openOrders, taker, rank)
        BY <2>6, <2>13, <3>2, <4>1 DEF ServedAt
      <4>3. ASSUME NEW x \in DOMAIN b.levels, Better(x, p, taker.side)
            PROVE  Own(b.levels[x].openOrders, taker.userId)
        <5>1. x \in DOMAIN L /\ x \in DOMAIN a.levels
          BY <2>6, <2>10 DEF FromLadder
        <5>2. x \in Nat /\ p \in Nat /\ Crosses(taker, p)
          BY <1>1, <1>3, <2>3, <5>1
        <5>3. Crosses(taker, x)
          BY <2>13, <4>3, <5>2, BetterCrosses
        <5>4. PICK i \in 1..Len(q) : q[i] = x
          BY <1>3, <1>7, <5>1, <5>3
        <5>5. i \in 1..(k-1)
          <6>1. ~(k <= i)
            <7>1. CASE i = k
              BY <4>3, <5>2, <5>4, <7>1 DEF Better
            <7>2. CASE k < i
              <8>1. Better(p, x, taker.side)
                BY <1>7, <5>4, <7>2 DEF BestFirst
              <8>2. QED
                BY <4>3, <5>2, <8>1 DEF Better
            <7>3. QED
              BY <1>8, <7>1, <7>2
          <6>2. QED
            BY <1>8, <6>1
        <5>6. Own(a.levels[x].openOrders, taker.userId)
          BY <2>2, <4>2, <5>1, <5>4, <5>5
        <5>7. FromQueue(b.levels[x].openOrders, a.levels[x].openOrders)
          BY <2>6 DEF FromLadder
        <5>8. QED
          BY <5>6, <5>7 DEF FromQueue, Own, SameOrder
      <4>4. QED
        BY <4>2, <4>3 DEF FirstServed
    <3>3. QED
      BY <3>1, <3>2
  <2>14. Limited(taker) => AllServed(b.fills, taker, b.levels, L)
    BY <2>13 DEF AllServed
  <2>15. QED
    BY <2>1, <2>8, <2>9, <2>10, <2>11, <2>12, <2>14
<1>12. Good(Len(q))
  <2>1. \A k \in 0..Len(q) : k \in S
    <3> HIDE DEF S
    <3>1. QED
      BY <1>8, <1>10, <1>11, Upwards
  <2>2. Len(q) \in 0..Len(q)
    BY <1>8
  <2>3. QED
    BY <2>1, <2>2
<1>13. m = st[Len(q)] /\ m \in A
  BY <1>4, <1>8, <1>9
<1>14. ASSUME m.remainingQty > 0, NEW p \in DOMAIN m.levels, Crosses(taker, p)
       PROVE  Own(m.levels[p].openOrders, taker.userId)
  <2>1. p \in DOMAIN L
    BY <1>12, <1>13 DEF FromLadder
  <2>2. p \in B
    BY <1>3, <1>14, <2>1
  <2>3. PICK i \in 1..Len(q) : q[i] = p
    BY <1>7, <2>2
  <2>4. QED
    BY <1>12, <1>13, <1>14, <2>3
<1>15. QED
  BY <1>12, <1>13, <1>14 DEF m

-----------------------------------------------------------------------------
(* Books.                                                                  *)

Book(U, I, P) == [asks : Ladder(U, I, P), bids : Ladder(U, I, P), lastTradePrice : P \cup {0}]

\* An order that may be matched: with a price its leftover can rest at.
Taker(taker, U, I, P) ==
  /\ taker.userId \in U /\ taker.orderId \in I /\ taker.side \in Sides /\ taker.qty \in Nat
  /\ taker.orderType = "LIMIT" => taker.price \in P

\* The ladders of a side and of the other one.
LEMMA SidesAre ==
  ASSUME NEW side \in Sides
  PROVE  \/ side = "BUY" /\ LadderOf(side) = "bids" /\ LadderOf(Opposite(side)) = "asks"
         \/ side = "SELL" /\ LadderOf(side) = "asks" /\ LadderOf(Opposite(side)) = "bids"
  BY DEF Sides, LadderOf, Opposite

\* A market begins with a book without orders.
LEMMA EmptyBookIs ==
  ASSUME NEW U, NEW I, NEW P
  PROVE  EmptyBook \in Book(U, I, P) /\ Uncrossed(EmptyBook)
<1> DEFINE D == {}
<1>1. EmptyLadder \in [D -> GoodLevel(U, I)]
  BY DEF EmptyLadder
<1>2. D \in SUBSET P /\ IsFiniteSet(D)
  BY FS_EmptySet
<1>3. EmptyLadder \in Ladder(U, I, P)
  <2> HIDE DEF D
  <2>1. QED
    BY <1>1, <1>2, LadderMade
<1>4. EmptyBook \in Book(U, I, P)
  BY <1>3 DEF EmptyBook, Book
<1>5. Uncrossed(EmptyBook)
  BY DEF EmptyBook, Uncrossed, EmptyLadder
<1>6. QED
  BY <1>4, <1>5

\* The levels of a book are consistent.
LEMMA BookIsConsistent ==
  ASSUME NEW U, NEW I, NEW P, NEW book \in Book(U, I, P)
  PROVE  LevelsConsistent(book)
<1>1. ASSUME NEW l \in Ladders, NEW p \in DOMAIN book[l]
      PROVE  /\ book[l][p].openOrders # <<>>
             /\ book[l][p].availableQty = QtyOf(book[l][p].openOrders)
             /\ \A i \in DOMAIN book[l][p].openOrders :
                  Fillable(book[l][p].openOrders[i]) > 0
  <2>1. book[l] \in Ladder(U, I, P)
    BY DEF Book, Ladders
  <2>2. book[l][p] \in GoodLevel(U, I)
    <3> DEFINE L == book[l]
    <3> HIDE DEF L
    <3>1. L \in [DOMAIN L -> GoodLevel(U, I)] /\ p \in DOMAIN L
      BY <2>1, LadderHas DEF L
    <3>2. L[p] \in GoodLevel(U, I)
      BY <3>1
    <3>3. QED
      BY <3>2 DEF L
  <2>3. book[l][p].openOrders \in Seq(Row(U, I))
    BY <2>2 DEF GoodLevel, Level
  <2>4. DOMAIN book[l][p].openOrders = 1..Len(book[l][p].openOrders)
    BY <2>3, LenProperties
  <2>5. QED
    BY <2>2, <2>4 DEF GoodLevel
<1>2. QED
  BY <1>1 DEF LevelsConsistent

\* The queue of a level holds rows.
LEMMA QueueOf ==
  ASSUME NEW U, NEW I, NEW P, NEW L \in Ladder(U, I, P), NEW p \in DOMAIN L
  PROVE  L[p].openOrders \in Seq(Row(U, I))
<1>1. L[p] \in GoodLevel(U, I)
  BY LadderHas
<1>2. QED
  BY <1>1 DEF GoodLevel, Level

\* What is in a sequence has a place there.
LEMMA Placed ==
  ASSUME NEW X, NEW q \in Seq(X)
  PROVE  /\ \A x \in ToSet(q) : \E i \in 1..Len(q) : q[i] = x
         /\ \A i \in 1..Len(q) : q[i] \in ToSet(q)
<1>1. DOMAIN q = 1..Len(q)
  BY LenProperties
<1>2. QED
  BY <1>1 DEF ToSet

\* No two users' orders of two ladders could trade.
Apart(bids, asks) ==
  \A b \in DOMAIN bids, a \in DOMAIN asks :
    b >= a => \A i \in 1..Len(bids[b].openOrders), j \in 1..Len(asks[a].openOrders) :
                bids[b].openOrders[i].userId = asks[a].openOrders[j].userId

\* The same of a book, by the places in its queues.
LEMMA UncrossedIs ==
  ASSUME NEW U, NEW I, NEW P, NEW book \in Book(U, I, P)
  PROVE  Uncrossed(book) <=> Apart(book.bids, book.asks)
<1>1. book.bids \in Ladder(U, I, P) /\ book.asks \in Ladder(U, I, P)
  BY DEF Book
<1>2. ASSUME NEW b \in DOMAIN book.bids
      PROVE  /\ \A x \in ToSet(book.bids[b].openOrders) :
                  \E i \in 1..Len(book.bids[b].openOrders) : book.bids[b].openOrders[i] = x
             /\ \A i \in 1..Len(book.bids[b].openOrders) :
                  book.bids[b].openOrders[i] \in ToSet(book.bids[b].openOrders)
  <2> DEFINE q == book.bids[b].openOrders
  <2>1. q \in Seq(Row(U, I))
    BY <1>1, QueueOf
  <2> HIDE DEF q
  <2>2. /\ \A x \in ToSet(q) : \E i \in 1..Len(q) : q[i] = x
        /\ \A i \in 1..Len(q) : q[i] \in ToSet(q)
    BY <2>1, Placed
  <2>3. QED
    BY <2>2 DEF q
<1>3. ASSUME NEW a \in DOMAIN book.asks
      PROVE  /\ \A y \in ToSet(book.asks[a].openOrders) :
                  \E j \in 1..Len(book.asks[a].openOrders) : book.asks[a].openOrders[j] = y
             /\ \A j \in 1..Len(book.asks[a].openOrders) :
                  book.asks[a].openOrders[j] \in ToSet(book.asks[a].openOrders)
  <2> DEFINE q == book.asks[a].openOrders
  <2>1. q \in Seq(Row(U, I))
    BY <1>1, QueueOf
  <2> HIDE DEF q
  <2>2. /\ \A x \in ToSet(q) : \E i \in 1..Len(q) : q[i] = x
        /\ \A i \in 1..Len(q) : q[i] \in ToSet(q)
    BY <2>1, Placed
  <2>3. QED
    BY <2>2 DEF q
<1>4. Uncrossed(book) => Apart(book.bids, book.asks)
  BY <1>2, <1>3 DEF Uncrossed, Apart
<1>5. ASSUME Apart(book.bids, book.asks), NEW b \in DOMAIN book.bids, NEW a \in DOMAIN book.asks,
             b >= a, NEW x \in ToSet(book.bids[b].openOrders),
             NEW y \in ToSet(book.asks[a].openOrders)
      PROVE  x.userId = y.userId
  <2>1. PICK i \in 1..Len(book.bids[b].openOrders) : book.bids[b].openOrders[i] = x
    BY <1>2
  <2>2. PICK j \in 1..Len(book.asks[a].openOrders) : book.asks[a].openOrders[j] = y
    BY <1>3
  <2>3. QED
    BY <1>5, <2>1, <2>2 DEF Apart
<1>6. QED
  BY <1>4, <1>5 DEF Uncrossed

\* Fewer orders are still apart.
LEMMA StillApart ==
  ASSUME NEW b1, NEW a1, NEW b0, NEW a0, FromLadder(b1, b0), FromLadder(a1, a0), Apart(b0, a0)
  PROVE  Apart(b1, a1)
<1>1. ASSUME NEW b \in DOMAIN b1, NEW a \in DOMAIN a1, b >= a,
             NEW i \in 1..Len(b1[b].openOrders), NEW j \in 1..Len(a1[a].openOrders)
      PROVE  b1[b].openOrders[i].userId = a1[a].openOrders[j].userId
  <2>1. b \in DOMAIN b0 /\ a \in DOMAIN a0
    BY DEF FromLadder
  <2>2. PICK i0 \in 1..Len(b0[b].openOrders) :
               b1[b].openOrders[i].userId = b0[b].openOrders[i0].userId
    BY DEF FromLadder, FromQueue, SameOrder
  <2>3. PICK j0 \in 1..Len(a0[a].openOrders) :
               a1[a].openOrders[j].userId = a0[a].openOrders[j0].userId
    BY DEF FromLadder, FromQueue, SameOrder
  <2>4. QED
    BY <1>1, <2>1, <2>2, <2>3 DEF Apart
<1>2. QED
  BY <1>1 DEF Apart

\* Every ladder comes from itself.
LEMMA FromItself ==
  ASSUME NEW L
  PROVE  FromLadder(L, L)
  BY DEF FromLadder, FromQueue, SameOrder

\* When the taker wants more, nothing but its own orders is within its reach.
Clear(book, taker, remaining) ==
  remaining > 0 =>
    \A p \in DOMAIN book[LadderOf(Opposite(taker.side))] :
      Crosses(taker, p) => Own(book[LadderOf(Opposite(taker.side))][p].openOrders, taker.userId)

\* The orders of the one book are orders of the other.
FromBook(b1, b0) == FromLadder(b1.bids, b0.bids) /\ FromLadder(b1.asks, b0.asks)

\* What a match makes of a book.
BookMatched(m, book, taker, U, I, P) ==
  /\ m.book \in Book(U, I, P) /\ m.remainingQty \in Nat /\ m.remainingQty <= taker.qty
  /\ m.fills \in Seq(Fill(I, P))
  /\ FromBook(m.book, book) /\ Clear(m.book, taker, m.remainingQty)
  /\ Uncrossed(book) => Uncrossed(m.book)
  /\ \A f \in ToSet(m.fills) : Agreed(f, taker, book[LadderOf(Opposite(taker.side))])
  /\ Limited(taker) => AllServed(m.fills, taker, m.book[LadderOf(Opposite(taker.side))],
                                 book[LadderOf(Opposite(taker.side))])

\* A match of an order against a book.
LEMMA MatchSound ==
  ASSUME NEW U, NEW I, NEW P, P \subseteq Nat, NEW book \in Book(U, I, P),
         NEW taker, Taker(taker, U, I, P)
  PROVE  BookMatched(Match(book, taker), book, taker, U, I, P)
<1> DEFINE side == LadderOf(Opposite(taker.side))
           L == book[side]
           m == MatchSide(L, taker)
           N == [book EXCEPT ![side] = m.levels]
<1>1. side \in Ladders /\ taker.side \in Sides
  BY SidesAre DEF Taker, Ladders
<1>2. L \in Ladder(U, I, P)
  BY <1>1 DEF Book, Ladders
<1>3. Match(book, taker) = [book |-> N, fills |-> m.fills, remainingQty |-> m.remainingQty]
  BY DEF Match
<1>4. /\ m \in Siding(U, I, P) /\ m.remainingQty <= taker.qty
      /\ FromLadder(m.levels, L)
      /\ m.remainingQty > 0 =>
           \A p \in DOMAIN m.levels :
             Crosses(taker, p) => Own(m.levels[p].openOrders, taker.userId)
      /\ \A f \in ToSet(m.fills) : Agreed(f, taker, L)
      /\ Limited(taker) => AllServed(m.fills, taker, m.levels, L)
  <2> HIDE DEF L
  <2>1. taker.orderId \in I /\ taker.qty \in Nat
    BY DEF Taker
  <2>2. QED
    BY <1>2, <2>1, SideMatched
<1> HIDE DEF m
<1>5. m.remainingQty \in Nat /\ m.fills \in Seq(Fill(I, P)) /\ m.levels \in Ladder(U, I, P)
  BY <1>4 DEF Siding
<1>6. N \in Book(U, I, P) /\ N[side] = m.levels
  BY <1>1, <1>5 DEF Book, Ladders
<1>7. FromBook(N, book)
  <2>1. CASE side = "bids"
    BY <1>4, <2>1, FromItself DEF FromBook, Book
  <2>2. CASE side = "asks"
    BY <1>4, <2>2, FromItself DEF FromBook, Book
  <2>3. QED
    BY <1>1, <2>1, <2>2 DEF Ladders
<1>8. Clear(N, taker, m.remainingQty)
  BY <1>4, <1>6 DEF Clear
<1> HIDE DEF N
<1>9. Uncrossed(book) => Uncrossed(N)
  <2>1. Uncrossed(book) => Apart(book.bids, book.asks)
    BY UncrossedIs
  <2>2. Apart(book.bids, book.asks) => Apart(N.bids, N.asks)
    BY <1>7, StillApart DEF FromBook
  <2>3. Apart(N.bids, N.asks) => Uncrossed(N)
    BY <1>6, UncrossedIs
  <2>4. QED
    BY <2>1, <2>2, <2>3
<1>10. QED
  BY <1>3, <1>4, <1>5, <1>6, <1>7, <1>8, <1>9 DEF BookMatched

\* The last price is that of a fill.
LEMMA LastTradeSet ==
  ASSUME NEW U, NEW I, NEW P, NEW book \in Book(U, I, P), NEW fills \in Seq(Fill(I, P))
  PROVE  /\ SetLastTrade(book, fills) \in Book(U, I, P)
         /\ SetLastTrade(book, fills).bids = book.bids
         /\ SetLastTrade(book, fills).asks = book.asks
<1>1. CASE fills = <<>>
  BY <1>1 DEF SetLastTrade
<1>2. CASE fills # <<>>
  <2>1. Last(fills) \in Fill(I, P)
    <3>1. Len(fills) \in Nat /\ Len(fills) # 0
      BY <1>2, EmptySeq, LenProperties
    <3>2. Len(fills) \in 1..Len(fills)
      BY <3>1
    <3>3. QED
      BY <3>2, ElementOfSeq DEF Last
  <2>2. Last(fills).price \in P
    BY <2>1 DEF Fill
  <2>3. QED
    BY <1>2, <2>2 DEF SetLastTrade, Book
<1>3. QED
  BY <1>1, <1>2

\* An order at the end of a level, or in a new one.
LEMMA PushGood ==
  ASSUME NEW U, NEW I, NEW level, level \in GoodLevel(U, I) \/ level = EmptyLevel,
         NEW row \in Row(U, I), Fillable(row) > 0
  PROVE  /\ Push(level, row) \in GoodLevel(U, I)
         /\ level.openOrders \in Seq(Row(U, I))
         /\ Push(level, row).openOrders = Append(level.openOrders, row)
<1> DEFINE q == level.openOrders
           r == Append(q, row)
<1>1. /\ q \in Seq(Row(U, I)) /\ level.availableQty = QtyOf(q) /\ level.availableQty \in Nat
      /\ \A i \in 1..Len(q) : Fillable(q[i]) > 0
  <2>1. CASE level \in GoodLevel(U, I)
    BY <2>1 DEF GoodLevel, Level
  <2>2. CASE level = EmptyLevel
    <3>1. q = <<>> /\ level.availableQty = 0
      BY <2>2 DEF EmptyLevel
    <3> HIDE DEF q
    <3>2. q \in Seq(Row(U, I)) /\ Len(q) = 0 /\ QtyOf(q) = 0
      BY <3>1, EmptySeq, QtyOfEmpty
    <3>3. QED
      BY <3>1, <3>2 DEF q
  <2>3. QED
    BY <2>1, <2>2
<1>2. Push(level, row) = [availableQty |-> level.availableQty + Fillable(row), openOrders |-> r]
  BY DEF Push
<1> HIDE DEF q
<1>3. /\ r \in Seq(Row(U, I)) /\ Len(r) = Len(q) + 1 /\ r # <<>>
      /\ \A i \in 1..Len(q) : r[i] = q[i]
      /\ r[Len(q) + 1] = row
  BY <1>1, AppendProperties
<1>4. QtyOf(r) = QtyOf(q) + Fillable(row)
  <2> DEFINE X == Row(U, I)
  <2>1. \A o \in X : Fillable(o) \in Int
    BY RowWants
  <2>2. q \in Seq(X) /\ row \in X
    BY <1>1
  <2> HIDE DEF X
  <2>3. QED
    BY <2>1, <2>2, QtyOfAppend
<1>5. Fillable(row) \in Nat /\ Len(q) \in Nat
  BY <1>1, RowWants, LenProperties
<1> HIDE DEF r
<1>6. \A i \in 1..Len(r) : Fillable(r[i]) > 0
  <2>1. \A i \in 1..Len(r) : i \in 1..Len(q) \/ i = Len(q) + 1
    BY <1>3, <1>5
  <2>2. QED
    BY <1>1, <1>3, <2>1
<1>7. Push(level, row) \in GoodLevel(U, I)
  BY <1>1, <1>2, <1>3, <1>4, <1>5, <1>6 DEF GoodLevel, Level
<1>8. QED
  BY <1>1, <1>2, <1>7 DEF q, r

\* Every order of N was there before, or is the new one at its price.
NewOrOld(N, L, price, row) ==
  \A p \in DOMAIN N : \A i \in 1..Len(N[p].openOrders) :
    \/ p = price /\ N[p].openOrders[i] = row
    \/ /\ p \in DOMAIN L
       /\ \E j \in 1..Len(L[p].openOrders) : N[p].openOrders[i] = L[p].openOrders[j]

\* The ladder with an order that comes to rest.
Rested(L, price, row) ==
  LET level == IF price \in DOMAIN L THEN L[price] ELSE EmptyLevel
  IN  [p \in DOMAIN L \cup {price} |-> IF p = price THEN Push(level, row) ELSE L[p]]

\* An order comes to rest on a ladder.
LEMMA RestedGood ==
  ASSUME NEW U, NEW I, NEW P, NEW L \in Ladder(U, I, P), NEW price \in P,
         NEW row \in Row(U, I), Fillable(row) > 0
  PROVE  /\ Rested(L, price, row) \in Ladder(U, I, P)
         /\ NewOrOld(Rested(L, price, row), L, price, row)
<1> DEFINE level == IF price \in DOMAIN L THEN L[price] ELSE EmptyLevel
           D == DOMAIN L \cup {price}
           N == [p \in D |-> IF p = price THEN Push(level, row) ELSE L[p]]
<1>1. /\ DOMAIN L \subseteq P /\ IsFiniteSet(DOMAIN L)
      /\ L \in [DOMAIN L -> GoodLevel(U, I)]
  BY LadderHas
<1>2. level \in GoodLevel(U, I) \/ level = EmptyLevel
  BY <1>1
<1>3. Rested(L, price, row) = N
  BY DEF Rested
<1>4. price \notin DOMAIN L => level = EmptyLevel
  OBVIOUS
<1>5. price \in DOMAIN L => level = L[price]
  OBVIOUS
<1> HIDE DEF level
<1>6. /\ Push(level, row) \in GoodLevel(U, I)
      /\ level.openOrders \in Seq(Row(U, I))
      /\ Push(level, row).openOrders = Append(level.openOrders, row)
  BY <1>2, PushGood
<1>7. D \in SUBSET P /\ IsFiniteSet(D)
  BY <1>1, FS_AddElement
<1>8. N \in [D -> GoodLevel(U, I)]
  BY <1>1, <1>6
<1>9. N \in Ladder(U, I, P)
  <2> HIDE DEF D, N
  <2>1. QED
    BY <1>7, <1>8, LadderMade
<1>10. ASSUME NEW p \in D, NEW i \in 1..Len(N[p].openOrders)
       PROVE  \/ p = price /\ N[p].openOrders[i] = row
              \/ /\ p \in DOMAIN L
                 /\ \E j \in 1..Len(L[p].openOrders) : N[p].openOrders[i] = L[p].openOrders[j]
  <2>1. CASE p # price
    <3>1. p \in DOMAIN L /\ N[p] = L[p]
      BY <2>1
    <3> HIDE DEF N
    <3>2. QED
      BY <3>1
  <2>2. CASE p = price
    <3> DEFINE q == level.openOrders
    <3>1. N[p].openOrders = Append(q, row)
      BY <1>6, <2>2
    <3>2. /\ Len(Append(q, row)) = Len(q) + 1 /\ Append(q, row)[Len(q) + 1] = row
          /\ \A j \in 1..Len(q) : Append(q, row)[j] = q[j]
      BY <1>6, AppendProperties
    <3>3. Len(q) \in Nat
      BY <1>6, LenProperties
    <3> HIDE DEF N, D
    <3>4. i \in 1..Len(q) \/ i = Len(q) + 1
      BY <3>1, <3>2, <3>3
    <3>5. CASE i = Len(q) + 1
      BY <2>2, <3>1, <3>2, <3>5
    <3>6. CASE i \in 1..Len(q)
      <4>1. N[p].openOrders[i] = q[i]
        BY <3>1, <3>2, <3>6
      <4>2. CASE price \in DOMAIN L
        BY <1>5, <2>2, <3>6, <4>1, <4>2
      <4>3. CASE price \notin DOMAIN L
        <5>1. Len(q) = 0
          BY <1>4, <4>3, EmptySeq DEF EmptyLevel
        <5>2. QED
          BY <3>6, <5>1
      <4>4. QED
        BY <4>2, <4>3
    <3>7. QED
      BY <3>4, <3>5, <3>6
  <2>3. QED
    BY <2>1, <2>2
<1>11. DOMAIN N = D
  OBVIOUS
<1> HIDE DEF N, D
<1>12. NewOrOld(N, L, price, row)
  BY <1>10, <1>11 DEF NewOrOld
<1>13. QED
  BY <1>3, <1>9, <1>12

\* The row an order's leftover rests as.
Leftover(taker, remaining) ==
  [userId |-> taker.userId, orderId |-> taker.orderId, qty |-> remaining, filledQty |-> 0]

\* What of an order comes to rest makes a book of a book, and, when nothing it
\* could trade with is within its reach, leaves it uncrossed.
RestDone(b1, b0, taker, remaining, U, I, P) ==
  /\ b1 \in Book(U, I, P)
  /\ Uncrossed(b0) /\ Clear(b0, taker, remaining) => Uncrossed(b1)
  /\ \/ b1 = b0
     \/ /\ b1[LadderOf(Opposite(taker.side))] = b0[LadderOf(Opposite(taker.side))]
        /\ remaining > 0 /\ taker.orderType = "LIMIT"
        /\ NewOrOld(b1[LadderOf(taker.side)], b0[LadderOf(taker.side)], taker.price,
                    Leftover(taker, remaining))

\* The leftover of an order rests.
LEMMA RestSound ==
  ASSUME NEW U, NEW I, NEW P, P \subseteq Nat, NEW book \in Book(U, I, P),
         NEW taker, Taker(taker, U, I, P), NEW remaining \in Nat
  PROVE  RestDone(RestLeftover(book, taker, remaining), book, taker, remaining, U, I, P)
<1> DEFINE side == LadderOf(taker.side)
           other == LadderOf(Opposite(taker.side))
           row == Leftover(taker, remaining)
           L == book[side]
           R == Rested(L, taker.price, row)
           N == [book EXCEPT ![side] = R]
<1>1. CASE ~(remaining > 0 /\ taker.orderType = "LIMIT")
  <2>1. RestLeftover(book, taker, remaining) = book
    BY <1>1 DEF RestLeftover
  <2>2. QED
    BY <2>1 DEF RestDone
<1>2. CASE remaining > 0 /\ taker.orderType = "LIMIT"
  <2>1. /\ side \in Ladders /\ other \in Ladders /\ side # other
        /\ \/ taker.side = "BUY" /\ side = "bids" /\ other = "asks"
           \/ taker.side = "SELL" /\ side = "asks" /\ other = "bids"
    BY SidesAre DEF Taker, Ladders
  <2>2. taker.price \in P /\ row \in Row(U, I) /\ Fillable(row) > 0
    BY <1>2 DEF Taker, Leftover, Row, Fillable
  <2>3. RestLeftover(book, taker, remaining) = N
    BY <1>2 DEF RestLeftover, RestOrder, Rested, Leftover
  <2>4. L \in Ladder(U, I, P)
    BY <2>1 DEF Book, Ladders
  <2>5. R \in Ladder(U, I, P) /\ NewOrOld(R, L, taker.price, row)
    <3> DEFINE price == taker.price
    <3> HIDE DEF L, row, price
    <3>1. Rested(L, price, row) \in Ladder(U, I, P) /\ NewOrOld(Rested(L, price, row), L, price, row)
      BY <2>2, <2>4, RestedGood DEF price
    <3>2. QED
      BY <3>1 DEF price
  <2> HIDE DEF R
  <2>6. N \in Book(U, I, P) /\ N[side] = R /\ N[other] = book[other]
    BY <2>1, <2>5 DEF Book, Ladders
  <2> HIDE DEF N
  <2>7. ASSUME Uncrossed(book), Clear(book, taker, remaining) PROVE Uncrossed(N)
    <3>1. Apart(book.bids, book.asks)
      BY <2>7, UncrossedIs
    <3>2. \A p \in DOMAIN book[other] :
            Crosses(taker, p) => Own(book[other][p].openOrders, taker.userId)
      BY <1>2, <2>7 DEF Clear
    <3>3. row.userId = taker.userId
      BY DEF Leftover
    <3>4. Apart(N.bids, N.asks)
      <4>1. CASE taker.side = "BUY"
        <5>1. N.bids = R /\ N.asks = book.asks /\ L = book.bids /\ other = "asks"
          BY <2>1, <2>6, <4>1
        <5>2. ASSUME NEW b \in DOMAIN R, NEW a \in DOMAIN book.asks, b >= a,
                     NEW i \in 1..Len(R[b].openOrders),
                     NEW j \in 1..Len(book.asks[a].openOrders)
              PROVE  R[b].openOrders[i].userId = book.asks[a].openOrders[j].userId
          <6>1. CASE b = taker.price /\ R[b].openOrders[i] = row
            <7>1. b \in Nat /\ a \in Nat
              BY <2>2, <6>1, LadderHas DEF Book
            <7>2. Crosses(taker, a)
              BY <4>1, <5>2, <6>1, <7>1 DEF Crosses
            <7>3. Own(book.asks[a].openOrders, taker.userId)
              BY <3>2, <5>1, <7>2
            <7>4. QED
              BY <3>3, <6>1, <7>3 DEF Own
          <6>2. CASE /\ b \in DOMAIN L
                     /\ \E k \in 1..Len(L[b].openOrders) :
                          R[b].openOrders[i] = L[b].openOrders[k]
            <7>1. PICK k \in 1..Len(L[b].openOrders) : R[b].openOrders[i] = L[b].openOrders[k]
              BY <6>2
            <7> HIDE DEF L
            <7>2. QED
              BY <3>1, <5>1, <5>2, <6>2, <7>1 DEF Apart
          <6>3. QED
            BY <2>5, <6>1, <6>2 DEF NewOrOld
        <5>3. QED
          BY <5>1, <5>2 DEF Apart
      <4>2. CASE taker.side = "SELL"
        <5>1. N.asks = R /\ N.bids = book.bids /\ L = book.asks /\ other = "bids"
          BY <2>1, <2>6, <4>2
        <5>2. ASSUME NEW b \in DOMAIN book.bids, NEW a \in DOMAIN R, b >= a,
                     NEW i \in 1..Len(book.bids[b].openOrders),
                     NEW j \in 1..Len(R[a].openOrders)
              PROVE  book.bids[b].openOrders[i].userId = R[a].openOrders[j].userId
          <6>1. CASE a = taker.price /\ R[a].openOrders[j] = row
            <7>1. b \in Nat /\ a \in Nat
              BY <2>2, <6>1, LadderHas DEF Book
            <7>2. Crosses(taker, b)
              BY <4>2, <5>2, <6>1, <7>1 DEF Crosses
            <7>3. Own(book.bids[b].openOrders, taker.userId)
              BY <3>2, <5>1, <7>2
            <7>4. QED
              BY <3>3, <6>1, <7>3 DEF Own
          <6>2. CASE /\ a \in DOMAIN L
                     /\ \E k \in 1..Len(L[a].openOrders) :
                          R[a].openOrders[j] = L[a].openOrders[k]
            <7>1. PICK k \in 1..Len(L[a].openOrders) : R[a].openOrders[j] = L[a].openOrders[k]
              BY <6>2
            <7> HIDE DEF L
            <7>2. QED
              BY <3>1, <5>1, <5>2, <6>2, <7>1 DEF Apart
          <6>3. QED
            BY <2>5, <6>1, <6>2 DEF NewOrOld
        <5>3. QED
          BY <5>1, <5>2 DEF Apart
      <4>3. QED
        BY <2>1, <4>1, <4>2
    <3>5. QED
      BY <2>6, <3>4, UncrossedIs
  <2>8. QED
    BY <1>2, <2>3, <2>5, <2>6, <2>7 DEF RestDone
<1>3. QED
  BY <1>1, <1>2

\* The first place in a sequence where a test is passed.
LEMMA Selected ==
  ASSUME NEW levels, NEW price, NEW orderId, NEW q, price \in DOMAIN levels,
         q = levels[price].openOrders, Len(q) \in Nat, QueueIndex(levels, price, orderId) # 0
  PROVE  /\ QueueIndex(levels, price, orderId) \in 1..Len(q)
         /\ q[QueueIndex(levels, price, orderId)].orderId = orderId
<1> DEFINE T == {i \in 1..Len(q) : q[i].orderId = orderId}
<1>1. QueueIndex(levels, price, orderId) = IF T # {} THEN Min(T) ELSE 0
  BY DEF QueueIndex, SelectInSeq
<1>2. T # {}
  BY <1>1
<1>3. T \subseteq Nat
  OBVIOUS
<1> HIDE DEF T
<1>4. Min(T) \in T
  <2>1. \E x \in T : \A y \in T : x <= y
    BY <1>2, <1>3, Least
  <2>2. QED
    BY <2>1 DEF Min
<1>5. QED
  BY <1>1, <1>2, <1>4 DEF T

\* Taking an order out leaves the others in their order.
LEMMA RemovedRanked ==
  ASSUME NEW X, NEW q \in Seq(X), NEW i \in 1..Len(q), NEW rank, Ranked(q, rank)
  PROVE  Ranked(RemoveAt(q, i), rank)
<1> DEFINE r == RemoveAt(q, i)
           At(k) == IF k < i THEN k ELSE k + 1
<1>1. Len(q) \in Nat
  BY LenProperties
<1>2. Len(r) = Len(q) - 1 /\ \A k \in 1..(Len(q) - 1) : r[k] = IF k < i THEN q[k] ELSE q[k+1]
  BY Removed
<1> HIDE DEF r
<1>3. \A k \in 1..Len(r) : At(k) \in 1..Len(q) /\ r[k] = q[At(k)]
  BY <1>1, <1>2
<1>4. \A j, k \in 1..Len(r) : j < k => At(j) < At(k)
  BY <1>1, <1>2
<1> HIDE DEF At
<1>5. Ranked(r, rank)
  BY <1>3, <1>4 DEF Ranked
<1>6. QED
  BY <1>5 DEF r

\* The orders of `r` are unspent, and all from `q`.
LeftOf(r, q) == \A k \in 1..Len(r) : Fillable(r[k]) > 0 /\ \E j \in 1..Len(q) : r[k] = q[j]

\* A level without its i-th order, which other orders are left in or not.
LEMMA UnlistGood ==
  ASSUME NEW U, NEW I, NEW level \in GoodLevel(U, I), NEW i \in 1..Len(level.openOrders)
  PROVE  /\ level.openOrders[i] \in Row(U, I) /\ Fillable(level.openOrders[i]) > 0
         /\ Unlist(level, i) \in Level(U, I)
         /\ Unlist(level, i).openOrders = RemoveAt(level.openOrders, i)
         /\ Unlist(level, i).availableQty = QtyOf(RemoveAt(level.openOrders, i))
         /\ LeftOf(RemoveAt(level.openOrders, i), level.openOrders)
<1> DEFINE q == level.openOrders
           r == RemoveAt(q, i)
           u == Unlist(level, i)
<1>1. /\ q \in Seq(Row(U, I)) /\ level.availableQty = QtyOf(q) /\ level.availableQty \in Nat
      /\ \A k \in 1..Len(q) : Fillable(q[k]) > 0
  BY DEF GoodLevel, Level
<1>2. Len(q) \in Nat
  BY <1>1, LenProperties
<1>3. u = [availableQty |-> Max({0, level.availableQty - Fillable(q[i])}), openOrders |-> r]
  BY DEF Unlist
<1>4. i \in 1..Len(q)
  OBVIOUS
<1> HIDE DEF q, u
<1>5. q[i] \in Row(U, I)
  BY <1>1, <1>4, ElementOfSeq
<1>6. /\ r \in Seq(Row(U, I)) /\ Len(r) = Len(q) - 1
      /\ \A k \in 1..(Len(q) - 1) : r[k] = IF k < i THEN q[k] ELSE q[k+1]
  BY <1>1, <1>4, Removed
<1>7. QtyOf(r) = QtyOf(q) - Fillable(q[i])
  BY <1>1, <1>4, QtyOfRemoved
<1>8. Fillable(q[i]) \in Nat
  BY <1>5, RowWants
<1> HIDE DEF r
<1>9. QtyOf(r) \in Nat
  <2>1. \E x \in [0..Len(r) -> Nat] : QtyOf(r) = x[Len(r)]
    BY <1>6, QtyOfRows
  <2>2. Len(r) \in Nat
    BY <1>6, LenProperties
  <2>3. QED
    BY <2>1, <2>2
<1>10. u.availableQty = QtyOf(r) /\ u.openOrders = r /\ u \in Level(U, I)
  <2> DEFINE d == level.availableQty - Fillable(q[i])
  <2>1. d = QtyOf(r)
    BY <1>1, <1>7
  <2> HIDE DEF d
  <2>2. d \in Nat /\ d \in Int /\ 0 \in Int
    BY <1>9, <2>1
  <2>3. Max({0, d}) = IF 0 >= d THEN 0 ELSE d
    BY <2>2, OfTwo
  <2>4. Max({0, d}) = d
    BY <2>2, <2>3
  <2>5. u = [availableQty |-> d, openOrders |-> r]
    BY <1>3, <2>4 DEF d
  <2>6. QED
    BY <1>6, <2>1, <2>2, <2>5 DEF Level
<1>11. \A k \in 1..Len(r) : k \in 1..(Len(q) - 1) /\ k \in 1..Len(q) /\ k + 1 \in 1..Len(q)
  BY <1>2, <1>6
<1>12. \A k \in 1..Len(r) : \E j \in 1..Len(q) : r[k] = q[j]
  BY <1>6, <1>11
<1>13. \A k \in 1..Len(r) : Fillable(r[k]) > 0
  BY <1>1, <1>12
<1>14. LeftOf(r, q)
  BY <1>12, <1>13 DEF LeftOf
<1>15. QED
  BY <1>1, <1>4, <1>5, <1>10, <1>14 DEF q, r, u

\* Removing an order makes a book of a book, with no new order in it.
LEMMA RemoveSound ==
  ASSUME NEW U, NEW I, NEW P, NEW book \in Book(U, I, P), NEW side \in Sides,
         NEW price, NEW orderId
  PROVE  /\ RemoveOrder(book, side, price, orderId) \in Book(U, I, P)
         /\ FromBook(RemoveOrder(book, side, price, orderId), book)
         /\ Uncrossed(book) => Uncrossed(RemoveOrder(book, side, price, orderId))
         /\ RemovedOrders(book, side, price, orderId) = {} =>
              RemoveOrder(book, side, price, orderId) = book
         /\ RemovedOrders(book, side, price, orderId) # {} =>
              \E r \in Row(U, I) : /\ RemovedOrders(book, side, price, orderId) = {r}
                                   /\ r.orderId = orderId /\ Fillable(r) > 0
<1> DEFINE l == LadderOf(side)
           L == book[l]
           i == QueueIndex(L, price, orderId)
           level == L[price]
           q == level.openOrders
           u == Unlist(level, i)
           S == SetLevel(L, price, u)
           N == [book EXCEPT ![l] = S]
<1>1. l \in Ladders
  BY SidesAre DEF Ladders
<1>2. L \in Ladder(U, I, P)
  BY <1>1 DEF Book, Ladders
<1>3. CASE i = 0
  <2>1. RemoveOrder(book, side, price, orderId) = book
    BY <1>3 DEF RemoveOrder
  <2>2. RemovedOrders(book, side, price, orderId) = {}
    BY <1>3 DEF RemovedOrders
  <2>3. QED
    BY <2>1, <2>2, FromItself DEF FromBook
<1>4. CASE i # 0
  <2>1. RemoveOrder(book, side, price, orderId) = N
    BY <1>4 DEF RemoveOrder
  <2>2. RemovedOrders(book, side, price, orderId) = {q[i]}
    BY <1>4 DEF RemovedOrders
  <2> HIDE DEF L
  <2>3. price \in DOMAIN L
    BY <1>4 DEF QueueIndex
  <2>4. level \in GoodLevel(U, I)
    BY <1>2, <2>3, LadderHas
  <2>5. q \in Seq(Row(U, I))
    BY <2>4 DEF GoodLevel, Level
  <2>6. Len(q) \in Nat
    BY <2>5, LenProperties
  <2>7. i \in 1..Len(q) /\ q[i].orderId = orderId
    BY <1>4, <2>3, <2>6, Selected
  <2> DEFINE r == RemoveAt(q, i)
  <2> HIDE DEF i, level
  <2>8. /\ q[i] \in Row(U, I) /\ Fillable(q[i]) > 0
        /\ u \in Level(U, I) /\ u.openOrders = r /\ u.availableQty = QtyOf(r)
        /\ \A k \in 1..Len(r) : Fillable(r[k]) > 0 /\ \E j \in 1..Len(q) : r[k] = q[j]
    BY <2>4, <2>7, UnlistGood DEF LeftOf
  <2> HIDE DEF q, u, r
  <2>9. u.availableQty = QtyOf(u.openOrders) /\ \A k \in 1..Len(u.openOrders) : Fillable(u.openOrders[k]) > 0
    BY <2>8
  <2>10. /\ S \in Ladder(U, I, P) /\ DOMAIN S \subseteq DOMAIN L
         /\ \A p \in DOMAIN L : p # price => p \in DOMAIN S /\ S[p] = L[p]
         /\ price \in DOMAIN S => S[price] = u
    BY <1>2, <2>3, <2>8, <2>9, LevelSet
  <2> HIDE DEF S
  <2>11. FromLadder(S, L)
    <3>1. ASSUME NEW p \in DOMAIN S
          PROVE  p \in DOMAIN L /\ FromQueue(S[p].openOrders, L[p].openOrders)
      <4>1. CASE p = price
        <5>1. S[p].openOrders = r /\ L[p].openOrders = q
          BY <2>8, <2>10, <4>1 DEF q, level
        <5>2. FromQueue(r, q)
          <6>1. \A rank : Ranked(q, rank) => Ranked(r, rank)
            BY <2>5, <2>7, RemovedRanked DEF r
          <6>2. QED
            BY <2>8, <6>1 DEF FromQueue, SameOrder
        <5>3. QED
          BY <2>10, <5>1, <5>2
      <4>2. CASE p # price
        BY <2>10, <4>2 DEF FromQueue, SameOrder
      <4>3. QED
        BY <4>1, <4>2
    <3>2. QED
      BY <3>1 DEF FromLadder
  <2>12. N \in Book(U, I, P)
    BY <1>1, <2>10 DEF Book, Ladders
  <2>13. FromBook(N, book)
    <3>1. CASE l = "bids"
      BY <2>11, <3>1, FromItself DEF FromBook, Book, L
    <3>2. CASE l = "asks"
      BY <2>11, <3>2, FromItself DEF FromBook, Book, L
    <3>3. QED
      BY <1>1, <3>1, <3>2 DEF Ladders
  <2> HIDE DEF N
  <2>14. Uncrossed(book) => Uncrossed(N)
    <3>1. Uncrossed(book) => Apart(book.bids, book.asks)
      BY UncrossedIs
    <3>2. Apart(book.bids, book.asks) => Apart(N.bids, N.asks)
      BY <2>13, StillApart DEF FromBook
    <3>3. Apart(N.bids, N.asks) => Uncrossed(N)
      BY <2>12, UncrossedIs
    <3>4. QED
      BY <3>1, <3>2, <3>3
  <2>15. QED
    BY <2>1, <2>2, <2>7, <2>8, <2>12, <2>13, <2>14
<1>5. QED
  BY <1>3, <1>4

-----------------------------------------------------------------------------
(* Where the orders of a book come from.                                   *)

\* The orders of a book rest where orders handled in its market belong.
Stems(book, S, market) ==
  \A side \in Sides : \A p \in DOMAIN book[LadderOf(side)] :
    \A i \in 1..Len(book[LadderOf(side)][p].openOrders) :
      \E o \in S : /\ o.orderId = book[LadderOf(side)][p].openOrders[i].orderId
                   /\ o.userId = book[LadderOf(side)][p].openOrders[i].userId
                   /\ o.side = side /\ o.price = p
                   /\ o.orderType = "LIMIT" /\ o.marketId = market

\* What a book's orders stem from, when no order is new to it.
LEMMA StemsFrom ==
  ASSUME NEW b1, NEW b0, FromBook(b1, b0), NEW S, NEW T, S \subseteq T,
         NEW m, Stems(b0, S, m)
  PROVE  Stems(b1, T, m)
<1>1. ASSUME NEW side \in Sides, NEW p \in DOMAIN b1[LadderOf(side)],
             NEW i \in 1..Len(b1[LadderOf(side)][p].openOrders)
      PROVE  \E o \in T : /\ o.orderId = b1[LadderOf(side)][p].openOrders[i].orderId
                          /\ o.userId = b1[LadderOf(side)][p].openOrders[i].userId
                          /\ o.side = side /\ o.price = p
                          /\ o.orderType = "LIMIT" /\ o.marketId = m
  <2> DEFINE l == LadderOf(side)
  <2>1. FromLadder(b1[l], b0[l])
    BY SidesAre DEF FromBook
  <2>2. p \in DOMAIN b0[l] /\ FromQueue(b1[l][p].openOrders, b0[l][p].openOrders)
    BY <2>1 DEF FromLadder
  <2>3. PICK j \in 1..Len(b0[l][p].openOrders) :
               SameOrder(b1[l][p].openOrders[i], b0[l][p].openOrders[j])
    BY <2>2 DEF FromQueue
  <2>4. PICK o \in S : /\ o.orderId = b0[l][p].openOrders[j].orderId
                       /\ o.userId = b0[l][p].openOrders[j].userId
                       /\ o.side = side /\ o.price = p
                       /\ o.orderType = "LIMIT" /\ o.marketId = m
    BY <2>2 DEF Stems
  <2>5. QED
    BY <2>3, <2>4 DEF SameOrder
<1>2. QED
  BY <1>1 DEF Stems

\* ... and when the one that is new to it is one of them.
LEMMA StemsRest ==
  ASSUME NEW b1, NEW b0, NEW taker, NEW remaining, NEW U, NEW I, NEW P,
         RestDone(b1, b0, taker, remaining, U, I, P), taker.side \in Sides,
         NEW S, taker \in S, Stems(b0, S, taker.marketId)
  PROVE  Stems(b1, S, taker.marketId)
<1>1. CASE b1 = b0
  BY <1>1
<1>2. CASE /\ b1[LadderOf(Opposite(taker.side))] = b0[LadderOf(Opposite(taker.side))]
           /\ remaining > 0 /\ taker.orderType = "LIMIT"
           /\ NewOrOld(b1[LadderOf(taker.side)], b0[LadderOf(taker.side)], taker.price,
                       Leftover(taker, remaining))
  <2>1. ASSUME NEW side \in Sides, NEW p \in DOMAIN b1[LadderOf(side)],
               NEW i \in 1..Len(b1[LadderOf(side)][p].openOrders)
        PROVE  \E o \in S : /\ o.orderId = b1[LadderOf(side)][p].openOrders[i].orderId
                            /\ o.userId = b1[LadderOf(side)][p].openOrders[i].userId
                            /\ o.side = side /\ o.price = p
                            /\ o.orderType = "LIMIT" /\ o.marketId = taker.marketId
    <3>1. CASE side = taker.side
      <4> DEFINE l == LadderOf(side)
      <4>1. CASE p = taker.price /\ b1[l][p].openOrders[i] = Leftover(taker, remaining)
        <5>1. /\ taker.orderId = b1[l][p].openOrders[i].orderId
              /\ taker.userId = b1[l][p].openOrders[i].userId
          BY <4>1 DEF Leftover
        <5>2. QED
          BY <1>2, <3>1, <4>1, <5>1
      <4>2. CASE /\ p \in DOMAIN b0[l]
                 /\ \E j \in 1..Len(b0[l][p].openOrders) :
                      b1[l][p].openOrders[i] = b0[l][p].openOrders[j]
        BY <4>2 DEF Stems
      <4>3. QED
        BY <1>2, <3>1, <4>1, <4>2 DEF NewOrOld
    <3>2. CASE side # taker.side
      <4>1. LadderOf(side) = LadderOf(Opposite(taker.side))
        BY <3>2 DEF Sides, Opposite, LadderOf
      <4>2. b1[LadderOf(side)] = b0[LadderOf(side)]
        BY <1>2, <4>1
      <4>3. QED
        BY <4>2 DEF Stems
    <3>3. QED
      BY <3>1, <3>2
  <2>2. QED
    BY <2>1 DEF Stems
<1>3. QED
  BY <1>1, <1>2 DEF RestDone

-----------------------------------------------------------------------------
(* What an order has resting in a queue, and what it traded.               *)

OfOrder(o, id) == IF o.orderId = id THEN Fillable(o) ELSE 0
Shares(q, id)  == [i \in DOMAIN q |-> OfOrder(q[i], id)]
InFill(f, id)  == IF id \in {f.makerOrderId, f.takerOrderId} THEN f.qty ELSE 0

\* The values that QueueQty adds up.
LEMMA QueueValues ==
  ASSUME NEW U, NEW I, NEW q \in Seq(Row(U, I)), NEW id
  PROVE  /\ Len(q) \in Nat /\ Shares(q, id) \in [1..Len(q) -> Nat]
         /\ Shares(q, id) \in [1..Len(q) -> Int]
         /\ \A i \in 1..Len(q) : Shares(q, id)[i] = OfOrder(q[i], id)
         /\ QueueQty(q, id) = SumFunction(Shares(q, id))
<1>1. Len(q) \in Nat /\ DOMAIN q = 1..Len(q) /\ \A i \in 1..Len(q) : q[i] \in Row(U, I)
  BY LenProperties, ElementOfSeq
<1>2. \A i \in 1..Len(q) : OfOrder(q[i], id) \in Nat
  BY <1>1, RowWants DEF OfOrder
<1>3. QueueQty(q, id) = SumFunction(Shares(q, id))
  BY DEF QueueQty, OfOrder, Shares
<1>4. QED
  BY <1>1, <1>2, <1>3 DEF Shares

\* An order rests with a natural quantity, adding up along the queue.
LEMMA QueueStates ==
  ASSUME NEW U, NEW I, NEW q \in Seq(Row(U, I)), NEW id
  PROVE  /\ QueueQty(q, id) \in Nat
         /\ \E st \in [0..Len(q) -> Int] :
              /\ st[0] = 0
              /\ \A k \in 1..Len(q) : st[k] = st[k-1] + OfOrder(q[k], id)
              /\ QueueQty(q, id) = st[Len(q)]
<1> DEFINE f == Shares(q, id)
           n == Len(q)
<1>1. /\ n \in Nat /\ f \in [1..n -> Nat] /\ f \in [1..n -> Int]
      /\ QueueQty(q, id) = SumFunction(f)
      /\ \A k \in 1..n : f[k] = OfOrder(q[k], id)
  BY QueueValues
<1> HIDE DEF f, n
<1>2. IsFiniteSet(1..n)
  BY <1>1, FS_Interval
<1>3. SumFunction(f) \in Nat
  BY <1>1, <1>2, TotalNat
<1>4. PICK st \in [0..n -> Int] : /\ st[0] = 0
                                  /\ \A k \in 1..n : st[k] = st[k-1] + f[k]
                                  /\ SumFunction(f) = st[n]
  BY <1>1, TotalStates
<1>5. \A k \in 1..n : st[k] = st[k-1] + OfOrder(q[k], id)
  BY <1>1, <1>4
<1>6. QED
  BY <1>1, <1>3, <1>4, <1>5 DEF n

\* Nothing rests in an empty queue.
LEMMA QueueEmpty == \A id : QueueQty(<<>>, id) = 0
<1> TAKE id
<1> DEFINE f == [i \in DOMAIN <<>> |-> OfOrder(<<>>[i], id)]
<1>1. QueueQty(<<>>, id) = SumFunction(f)
  BY DEF QueueQty, OfOrder
<1>2. f \in [{} -> Int] /\ \A x \in {} : f[x] = 0
  OBVIOUS
<1> HIDE DEF f
<1>3. SumFunction(f) = 0
  BY <1>2, FS_EmptySet, TotalZero
<1>4. QED
  BY <1>1, <1>3

\* An order more in the queue adds what it has left.
LEMMA QueueAppend ==
  ASSUME NEW U, NEW I, NEW q \in Seq(Row(U, I)), NEW r \in Row(U, I), NEW id
  PROVE  QueueQty(Append(q, r), id) = QueueQty(q, id) + OfOrder(r, id)
<1> DEFINE p == Append(q, r)
           f == Shares(q, id)
           g == Shares(p, id)
           n == Len(q)
<1>1. /\ p \in Seq(Row(U, I)) /\ Len(p) = n + 1 /\ p[n + 1] = r
      /\ \A i \in 1..n : p[i] = q[i]
  BY AppendProperties
<1>2. /\ n \in Nat /\ f \in [1..n -> Int] /\ QueueQty(q, id) = SumFunction(f)
      /\ \A k \in 1..n : f[k] = OfOrder(q[k], id)
  BY QueueValues
<1> HIDE DEF p, f
<1>3. /\ g \in [1..Len(p) -> Int] /\ QueueQty(p, id) = SumFunction(g)
      /\ \A k \in 1..Len(p) : g[k] = OfOrder(p[k], id)
  BY <1>1, QueueValues
<1> HIDE DEF g, n
<1>4. g \in [1..(n+1) -> Int] /\ g[n+1] = OfOrder(r, id) /\ \A i \in 1..n : g[i] = f[i]
  <2>1. n + 1 \in 1..(n+1) /\ \A i \in 1..n : i \in 1..(n+1)
    BY <1>2
  <2>2. QED
    BY <1>1, <1>2, <1>3, <2>1
<1>5. SumFunction(g) = SumFunction(f) + g[n+1]
  BY <1>2, <1>4, TotalLonger
<1>6. QED
  BY <1>2, <1>3, <1>4, <1>5 DEF p

\* An order less takes away what it has left.
LEMMA QueueRemoved ==
  ASSUME NEW U, NEW I, NEW q \in Seq(Row(U, I)), NEW i \in 1..Len(q), NEW id
  PROVE  QueueQty(RemoveAt(q, i), id) = QueueQty(q, id) - OfOrder(q[i], id)
<1> DEFINE p == RemoveAt(q, i)
           f == Shares(q, id)
           g == Shares(p, id)
           n == Len(q)
<1>1. /\ p \in Seq(Row(U, I)) /\ Len(p) = n - 1 /\ i \in 1..n
      /\ \A k \in 1..(n-1) : p[k] = IF k < i THEN q[k] ELSE q[k+1]
  BY Removed
<1>2. /\ n \in Nat /\ f \in [1..n -> Int] /\ QueueQty(q, id) = SumFunction(f)
      /\ \A k \in 1..n : f[k] = OfOrder(q[k], id)
  BY QueueValues
<1> HIDE DEF p, f
<1>3. /\ g \in [1..Len(p) -> Int] /\ QueueQty(p, id) = SumFunction(g)
      /\ \A k \in 1..Len(p) : g[k] = OfOrder(p[k], id)
  BY <1>1, QueueValues
<1> HIDE DEF g, n
<1>4. \A k \in 1..(n-1) : g[k] = IF k < i THEN f[k] ELSE f[k+1]
  <2>1. \A k \in 1..(n-1) : k \in 1..n /\ k + 1 \in 1..n
    BY <1>2
  <2>2. QED
    BY <1>1, <1>2, <1>3, <2>1
<1>5. g \in [1..(n-1) -> Int] /\ f[i] = OfOrder(q[i], id)
  BY <1>1, <1>2, <1>3
<1>6. SumFunction(g) = SumFunction(f) - f[i]
  BY <1>1, <1>2, <1>4, <1>5, TotalWithout
<1>7. QED
  BY <1>2, <1>3, <1>5, <1>6 DEF p

\* Orders that are filled have nothing left that the filter could take away.
LEMMA QueueUnfilled ==
  ASSUME NEW U, NEW I, NEW q \in Seq(Row(U, I)), NEW id
  PROVE  QueueQty(Unfilled(q), id) = QueueQty(q, id)
<1> DEFINE R == Row(U, I)
<1>1. /\ Len(q) \in Nat /\ \A k \in 1..Len(q) : q[k] \in R
      /\ q \in Seq(R)
  BY LenProperties, ElementOfSeq
<1>2. PICK s \in [0..Len(q) -> Int] : /\ s[0] = 0
                                      /\ \A k \in 1..Len(q) : s[k] = s[k-1] + OfOrder(q[k], id)
                                      /\ QueueQty(q, id) = s[Len(q)]
  BY QueueStates
<1>3. PICK st \in [0..Len(q) -> Seq(R)] :
        /\ st[0] = <<>>
        /\ \A k \in 1..Len(q) : st[k] = (IF q[k].filledQty < q[k].qty THEN Append(st[k-1], q[k]) ELSE st[k-1])
        /\ Unfilled(q) = st[Len(q)]
  <2> HIDE DEF R
  <2>1. QED
    BY <1>1, UnfilledStates
<1> DEFINE S == {k \in 0..Len(q) : QueueQty(st[k], id) = s[k]}
<1>4. 0 \in S
  BY <1>1, <1>2, <1>3, QueueEmpty
<1>5. ASSUME NEW k \in 1..Len(q), k - 1 \in S PROVE k \in S
  <2>1. /\ k \in 0..Len(q) /\ k - 1 \in 0..Len(q) /\ q[k] \in R /\ st[k-1] \in Seq(R)
        /\ QueueQty(st[k-1], id) = s[k-1]
    BY <1>1, <1>5
  <2>2. s[k] = s[k-1] + OfOrder(q[k], id) /\ s[k-1] \in Int
    BY <1>2, <2>1
  <2>3. CASE q[k].filledQty < q[k].qty
    <3> DEFINE before == st[k-1]
               row == q[k]
    <3>1. st[k] = Append(before, row) /\ before \in Seq(Row(U, I)) /\ row \in Row(U, I)
      BY <1>3, <2>1, <2>3
    <3> HIDE DEF before, row
    <3>2. QueueQty(Append(before, row), id) = QueueQty(before, id) + OfOrder(row, id)
      BY <3>1, QueueAppend
    <3>3. QED
      BY <2>1, <2>2, <3>1, <3>2 DEF before, row
  <2>4. CASE ~(q[k].filledQty < q[k].qty)
    <3>1. st[k] = st[k-1]
      BY <1>3, <2>4
    <3>2. OfOrder(q[k], id) = 0
      BY <2>1, <2>4 DEF OfOrder, Fillable, Row
    <3>3. QED
      BY <2>1, <2>2, <3>1, <3>2
  <2>5. QED
    BY <2>3, <2>4
<1>6. QueueQty(st[Len(q)], id) = s[Len(q)]
  <2>1. \A k \in 0..Len(q) : k \in S
    <3> HIDE DEF S
    <3>1. QED
      BY <1>1, <1>4, <1>5, Upwards
  <2>2. QED
    BY <1>1, <2>1
<1>7. QED
  BY <1>2, <1>3, <1>6

-----------------------------------------------------------------------------
(* What an order traded in some fills, and had cancelled.                  *)

Parts(F, id)  == [i \in DOMAIN F |-> InFill(F[i], id)]

\* The values that TradedQty adds up.
LEMMA TradedValues ==
  ASSUME NEW I, NEW P, NEW F \in Seq(Fill(I, P)), NEW id
  PROVE  /\ Len(F) \in Nat /\ Parts(F, id) \in [1..Len(F) -> Nat]
         /\ Parts(F, id) \in [1..Len(F) -> Int]
         /\ \A i \in 1..Len(F) : Parts(F, id)[i] = InFill(F[i], id)
         /\ TradedQty(F, id) = SumFunction(Parts(F, id))
<1>1. Len(F) \in Nat /\ DOMAIN F = 1..Len(F) /\ \A i \in 1..Len(F) : F[i] \in Fill(I, P)
  BY LenProperties, ElementOfSeq
<1>2. \A i \in 1..Len(F) : InFill(F[i], id) \in Nat
  BY <1>1 DEF InFill, Fill
<1>3. TradedQty(F, id) = SumFunction(Parts(F, id))
  BY DEF TradedQty, InFill, Parts
<1>4. QED
  BY <1>1, <1>2, <1>3 DEF Parts

\* It is a natural number.
LEMMA TradedNat ==
  ASSUME NEW I, NEW P, NEW F \in Seq(Fill(I, P)), NEW id
  PROVE  TradedQty(F, id) \in Nat
<1> DEFINE f == Parts(F, id)
           n == Len(F)
<1>1. n \in Nat /\ f \in [1..n -> Nat] /\ TradedQty(F, id) = SumFunction(f)
  BY TradedValues
<1> HIDE DEF f, n
<1>2. IsFiniteSet(1..n)
  BY <1>1, FS_Interval
<1>3. QED
  BY <1>1, <1>2, TotalNat

\* No order traded in fills that are not its own, or in none.
LEMMA TradedNone ==
  ASSUME NEW I, NEW P, NEW F \in Seq(Fill(I, P)), NEW id,
         \A i \in 1..Len(F) : InFill(F[i], id) = 0
  PROVE  TradedQty(F, id) = 0
<1> DEFINE f == Parts(F, id)
           n == Len(F)
<1>1. /\ n \in Nat /\ f \in [1..n -> Int] /\ TradedQty(F, id) = SumFunction(f)
      /\ \A i \in 1..n : f[i] = 0
  BY TradedValues
<1> HIDE DEF f, n
<1>2. IsFiniteSet(1..n)
  BY <1>1, FS_Interval
<1>3. QED
  BY <1>1, <1>2, TotalZero

\* A fill more adds what the order got in it.
LEMMA TradedAppend ==
  ASSUME NEW I, NEW P, NEW F \in Seq(Fill(I, P)), NEW x \in Fill(I, P), NEW id
  PROVE  TradedQty(Append(F, x), id) = TradedQty(F, id) + InFill(x, id)
<1> DEFINE G == Append(F, x)
           f == Parts(F, id)
           g == Parts(G, id)
           n == Len(F)
<1>1. /\ G \in Seq(Fill(I, P)) /\ Len(G) = n + 1 /\ G[n + 1] = x
      /\ \A i \in 1..n : G[i] = F[i]
  BY AppendProperties
<1>2. /\ n \in Nat /\ f \in [1..n -> Int] /\ TradedQty(F, id) = SumFunction(f)
      /\ \A k \in 1..n : f[k] = InFill(F[k], id)
  BY TradedValues
<1> HIDE DEF G, f
<1>3. /\ g \in [1..Len(G) -> Int] /\ TradedQty(G, id) = SumFunction(g)
      /\ \A k \in 1..Len(G) : g[k] = InFill(G[k], id)
  BY <1>1, TradedValues
<1> HIDE DEF g, n
<1>4. g \in [1..(n+1) -> Int] /\ g[n+1] = InFill(x, id) /\ \A i \in 1..n : g[i] = f[i]
  <2>1. n + 1 \in 1..(n+1) /\ \A i \in 1..n : i \in 1..(n+1)
    BY <1>2
  <2>2. QED
    BY <1>1, <1>2, <1>3, <2>1
<1>5. SumFunction(g) = SumFunction(f) + g[n+1]
  BY <1>2, <1>4, TotalLonger
<1>6. QED
  BY <1>2, <1>3, <1>4, <1>5 DEF G

\* In fills and then others, an order traded what it did in both.
LEMMA TradedConcat ==
  ASSUME NEW I, NEW P, NEW F \in Seq(Fill(I, P)), NEW G \in Seq(Fill(I, P)), NEW id
  PROVE  TradedQty(F \o G, id) = TradedQty(F, id) + TradedQty(G, id)
<1> DEFINE H == F \o G
           f == Parts(F, id)
           g == Parts(G, id)
           h == Parts(H, id)
           m == Len(F)
           n == Len(G)
<1>1. /\ H \in Seq(Fill(I, P)) /\ Len(H) = m + n
      /\ \A i \in 1..(m+n) : H[i] = IF i <= m THEN F[i] ELSE G[i - m]
  BY ConcatProperties
<1>2. /\ m \in Nat /\ f \in [1..m -> Int] /\ TradedQty(F, id) = SumFunction(f)
      /\ \A k \in 1..m : f[k] = InFill(F[k], id)
  BY TradedValues
<1>3. /\ n \in Nat /\ g \in [1..n -> Int] /\ TradedQty(G, id) = SumFunction(g)
      /\ \A k \in 1..n : g[k] = InFill(G[k], id)
  BY TradedValues
<1> HIDE DEF H, f, g
<1>4. /\ h \in [1..Len(H) -> Int] /\ TradedQty(H, id) = SumFunction(h)
      /\ \A k \in 1..Len(H) : h[k] = InFill(H[k], id)
  BY <1>1, TradedValues
<1> HIDE DEF h, m, n
<1>5. h \in [1..(m+n) -> Int] /\ \A k \in 1..(m+n) : h[k] = InFill(H[k], id)
  BY <1>1, <1>4
<1>6. \A i \in 1..m : h[i] = f[i]
  <2>1. \A i \in 1..m : i \in 1..(m+n) /\ i <= m
    BY <1>2, <1>3
  <2>2. QED
    BY <1>1, <1>2, <1>5, <2>1
<1>7. \A i \in 1..n : h[m+i] = g[i]
  <2>1. \A i \in 1..n : m + i \in 1..(m+n) /\ ~(m + i <= m) /\ (m + i) - m = i
    BY <1>2, <1>3
  <2>2. QED
    BY <1>1, <1>3, <1>5, <2>1
<1>8. SumFunction(h) = SumFunction(f) + SumFunction(g)
  BY <1>2, <1>3, <1>5, <1>6, <1>7, TotalBoth
<1>9. QED
  BY <1>2, <1>3, <1>4, <1>8 DEF H

-----------------------------------------------------------------------------
(* The quantity of an order through a match.                               *)

\* What the taker still wants, if it is the order asked about.
Asked(taker, n, id) == IF id = taker.orderId THEN n ELSE 0

\* All rows of an order with the taker's id are the taker's user's own.
OwnRow(o, taker)   == o.orderId = taker.orderId => o.userId = taker.userId
OwnQueue(q, taker) == \A i \in 1..Len(q) : OwnRow(q[i], taker)
OwnLadder(L, taker) == \A p \in DOMAIN L : OwnQueue(L[p].openOrders, taker)

\* Where the quantity of an order is while a level is visited.
Held(a, taker, id) ==
  TradedQty(a.fills, id) + QueueQty(a.level.openOrders, id) + Asked(taker, a.remainingQty, id)

\* The arithmetic of VisitHolds.
LEMMA VisitSums ==
  ASSUME NEW T \in Int, NEW Q \in Int, NEW A \in Int, NEW w \in Int,
         NEW t1 \in Int, NEW o1 \in Int, NEW A1 \in Int, t1 + o1 + A1 = A + w
  PROVE  (T + t1) + (Q + o1) + A1 = (T + Q + A) + w
OBVIOUS

\* A visit moves quantity between the two orders and the fill, and loses none.
LEMMA VisitHolds ==
  ASSUME NEW U, NEW I, NEW P, NEW taker, taker.orderId \in I, NEW price \in P,
         NEW a \in Visiting(U, I, P), NEW o \in Row(U, I), OwnRow(o, taker), NEW id
  PROVE  Held(Visit(taker, price, a, o), taker, id) = Held(a, taker, id) + OfOrder(o, id)
<1> DEFINE t == Take(taker, a.remainingQty, o)
           v == Visit(taker, price, a, o)
           r == Filled(o, t)
           F == a.fills
           q == a.level.openOrders
           n == a.remainingQty
<1>1. r \in Row(U, I) /\ Visited(v, t, a, o, taker, price, Fill(I, P))
  BY VisitTypes
<1>2. n \in Nat /\ q \in Seq(Row(U, I)) /\ F \in Seq(Fill(I, P))
  BY DEF Visiting, Level
<1> HIDE DEF t, v, r
<1>3. /\ t \in Nat /\ t <= n /\ t <= Fillable(o)
      /\ v.remainingQty = n - t
      /\ v.level.openOrders = Append(q, r)
      /\ r.orderId = o.orderId /\ Fillable(r) = Fillable(o) - t
      /\ t = 0 => v.fills = F
      /\ t > 0 => \E f \in Fill(I, P) : /\ FillFrom(f, taker, price, o) /\ f.qty = t
                                        /\ v.fills = Append(F, f)
  BY <1>1 DEF Visited, SameOrder, r
<1>4. Fillable(o) \in Nat
  BY RowWants
<1> HIDE DEF F, q, n
<1>5. TradedQty(F, id) \in Nat /\ QueueQty(q, id) \in Nat
  BY <1>2, TradedNat, QueueStates
<1>6. QueueQty(v.level.openOrders, id) = QueueQty(q, id) + OfOrder(r, id)
  BY <1>1, <1>2, <1>3, QueueAppend
<1>7. \E x \in Nat : /\ TradedQty(v.fills, id) = TradedQty(F, id) + x
                     /\ x = IF t > 0 /\ id \in {o.orderId, taker.orderId} THEN t ELSE 0
  <2>1. CASE t = 0
    BY <1>3, <1>5, <2>1
  <2>2. CASE t > 0
    <3>1. PICK f \in Fill(I, P) : /\ FillFrom(f, taker, price, o) /\ f.qty = t
                                  /\ v.fills = Append(F, f)
      BY <1>3, <2>2
    <3>2. TradedQty(v.fills, id) = TradedQty(F, id) + InFill(f, id)
      BY <1>2, <3>1, TradedAppend
    <3>3. InFill(f, id) = IF id \in {o.orderId, taker.orderId} THEN t ELSE 0
      BY <3>1 DEF InFill, FillFrom
    <3>4. QED
      BY <1>3, <2>2, <3>2, <3>3
  <2>3. QED
    BY <1>3, <2>1, <2>2
<1>8. PICK x \in Nat : /\ TradedQty(v.fills, id) = TradedQty(F, id) + x
                       /\ x = IF t > 0 /\ id \in {o.orderId, taker.orderId} THEN t ELSE 0
  BY <1>7
<1>9. t > 0 => o.orderId # taker.orderId
  <2>1. t > 0 => o.userId # taker.userId
    BY <1>3 DEF FillFrom
  <2>2. QED
    BY <2>1 DEF OwnRow
<1>10. OfOrder(r, id) = IF o.orderId = id THEN Fillable(o) - t ELSE 0
  BY <1>3 DEF OfOrder
<1>11. x + OfOrder(r, id) + Asked(taker, v.remainingQty, id) = Asked(taker, n, id) + OfOrder(o, id)
  <2>1. CASE t = 0
    BY <1>2, <1>3, <1>4, <1>8, <1>10, <2>1 DEF Asked, OfOrder
  <2>2. CASE t > 0 /\ id = o.orderId
    BY <1>2, <1>3, <1>4, <1>8, <1>9, <1>10, <2>2 DEF Asked, OfOrder
  <2>3. CASE t > 0 /\ id # o.orderId /\ id = taker.orderId
    BY <1>2, <1>3, <1>4, <1>8, <1>9, <1>10, <2>3 DEF Asked, OfOrder
  <2>4. CASE t > 0 /\ id # o.orderId /\ id # taker.orderId
    BY <1>2, <1>3, <1>4, <1>8, <1>9, <1>10, <2>4 DEF Asked, OfOrder
  <2>5. QED
    BY <1>3, <2>1, <2>2, <2>3, <2>4
<1>12. /\ OfOrder(r, id) \in Int /\ OfOrder(o, id) \in Int
       /\ Asked(taker, v.remainingQty, id) \in Int /\ Asked(taker, n, id) \in Int
  BY <1>2, <1>3, <1>4, <1>10 DEF OfOrder, Asked
<1> DEFINE T == TradedQty(F, id)
           Q == QueueQty(q, id)
           A == Asked(taker, n, id)
           w == OfOrder(o, id)
           o1 == OfOrder(r, id)
           A1 == Asked(taker, v.remainingQty, id)
<1>13. /\ Held(v, taker, id) = (T + x) + (Q + o1) + A1
       /\ Held(a, taker, id) = T + Q + A
  BY <1>6, <1>8 DEF Held, F, q, n
<1>14. T \in Int /\ Q \in Int /\ A \in Int /\ w \in Int /\ o1 \in Int /\ A1 \in Int /\ x \in Int
  BY <1>5, <1>12
<1>15. x + o1 + A1 = A + w
  BY <1>11
<1> HIDE DEF T, Q, A, w, o1, A1
<1>16. (T + x) + (Q + o1) + A1 = (T + Q + A) + w
  BY <1>14, <1>15, VisitSums
<1>17. QED
  BY <1>13, <1>16 DEF v, w

\* The visits of all orders of a level.
Levelled(taker, price, n, F, level) ==
  VisitAll(taker, price,
    [remainingQty |-> n, fills |-> F, level |-> [level EXCEPT !.openOrders = <<>>]],
    level.openOrders)

\* They lose no quantity either.
LEMMA LevelHolds ==
  ASSUME NEW U, NEW I, NEW P, NEW taker, taker.orderId \in I, NEW price \in P,
         NEW n \in Nat, NEW F \in Seq(Fill(I, P)), NEW level \in Level(U, I),
         OwnQueue(level.openOrders, taker), NEW id
  PROVE  Held(Levelled(taker, price, n, F, level), taker, id)
           = TradedQty(F, id) + QueueQty(level.openOrders, id) + Asked(taker, n, id)
<1> DEFINE q == level.openOrders
           base == [remainingQty |-> n, fills |-> F,
                    level |-> [level EXCEPT !.openOrders = <<>>]]
           R == Row(U, I)
           H(x) == Held(x, taker, id)
<1>1. q \in Seq(R) /\ Len(q) \in Nat /\ \A k \in 1..Len(q) : q[k] \in R /\ OwnRow(q[k], taker)
  BY LenProperties, ElementOfSeq DEF Level, OwnQueue
<1>2. base \in Visiting(U, I, P)
  BY EmptySeq DEF Visiting, Level
<1>3. base.remainingQty = n /\ base.fills = F /\ base.level.openOrders = <<>>
  BY DEF Level
<1> HIDE DEF base, q
<1>4. PICK w \in [0..Len(q) -> Int] : /\ w[0] = 0
                                      /\ \A k \in 1..Len(q) : w[k] = w[k-1] + OfOrder(q[k], id)
                                      /\ QueueQty(q, id) = w[Len(q)]
  BY <1>1, QueueStates
<1>5. PICK st \in [0..Len(q) -> Visiting(U, I, P)] :
                /\ st[0] = base
                /\ \A k \in 1..Len(q) : st[k] = Visit(taker, price, st[k-1], q[k])
                /\ VisitAll(taker, price, base, q) = st[Len(q)]
  <2>1. \E st : VisitRun(st, taker, price, base, q, Visiting(U, I, P))
    BY <1>1, <1>2, VisitStates
  <2>2. QED
    BY <2>1 DEF VisitRun
<1> DEFINE start == TradedQty(F, id) + Asked(taker, n, id)
           S == {k \in 0..Len(q) : H(st[k]) = start + w[k]}
<1>6. TradedQty(F, id) \in Int /\ Asked(taker, n, id) \in Int /\ start \in Int
  BY TradedNat DEF Asked
<1>7. 0 \in S
  <2>1. H(base) = TradedQty(F, id) + 0 + Asked(taker, n, id)
    BY <1>3, QueueEmpty DEF Held
  <2>2. QED
    BY <1>1, <1>4, <1>5, <1>6, <2>1
<1> HIDE DEF start
<1>8. ASSUME NEW k \in 1..Len(q), k - 1 \in S PROVE k \in S
  <2>1. k \in 0..Len(q) /\ k - 1 \in 0..Len(q) /\ q[k] \in R /\ OwnRow(q[k], taker)
    BY <1>1
  <2>2. st[k-1] \in Visiting(U, I, P) /\ st[k] = Visit(taker, price, st[k-1], q[k])
    BY <1>5, <2>1
  <2>3. H(st[k]) = H(st[k-1]) + OfOrder(q[k], id)
    <3> DEFINE a == st[k-1]
               o == q[k]
    <3>1. a \in Visiting(U, I, P) /\ o \in Row(U, I) /\ OwnRow(o, taker)
      BY <2>1, <2>2
    <3> HIDE DEF a, o
    <3>2. H(Visit(taker, price, a, o)) = H(a) + OfOrder(o, id)
      BY <3>1, VisitHolds
    <3>3. QED
      BY <2>2, <3>2 DEF a, o
  <2>4. H(st[k-1]) = start + w[k-1] /\ w[k-1] \in Int /\ w[k] = w[k-1] + OfOrder(q[k], id)
    BY <1>4, <1>8, <2>1
  <2>5. OfOrder(q[k], id) \in Int
    BY <2>1, RowWants DEF OfOrder
  <2> HIDE DEF H
  <2>6. H(st[k]) = start + w[k]
    BY <1>6, <2>3, <2>4, <2>5
  <2>7. QED
    BY <2>1, <2>6
<1>9. H(st[Len(q)]) = start + w[Len(q)]
  <2>1. \A k \in 0..Len(q) : k \in S
    <3> HIDE DEF S
    <3>1. QED
      BY <1>1, <1>7, <1>8, Upwards
  <2>2. QED
    BY <1>1, <2>1
<1>10. w[Len(q)] \in Int
  BY <1>1, <1>4
<1>11. H(VisitAll(taker, price, base, q)) = TradedQty(F, id) + QueueQty(q, id) + Asked(taker, n, id)
  <2> HIDE DEF H
  <2>1. QED
    BY <1>4, <1>5, <1>6, <1>9, <1>10 DEF start
<1>12. QED
  BY <1>11 DEF base, q, Levelled

-----------------------------------------------------------------------------
(* The quantity of an order in a ladder, and through a match of one.       *)

AtPrices(L, id) == [p \in DOMAIN L |-> QueueQty(L[p].openOrders, id)]

\* The values that LadderQty adds up.
LEMMA LadderValues ==
  ASSUME NEW U, NEW I, NEW P, NEW L \in Ladder(U, I, P), NEW id
  PROVE  /\ IsFiniteSet(DOMAIN L) /\ AtPrices(L, id) \in [DOMAIN L -> Nat]
         /\ AtPrices(L, id) \in [DOMAIN L -> Int]
         /\ \A p \in DOMAIN L : AtPrices(L, id)[p] = QueueQty(L[p].openOrders, id)
         /\ LadderQty(L, id) = SumFunction(AtPrices(L, id)) /\ LadderQty(L, id) \in Nat
<1>1. IsFiniteSet(DOMAIN L)
  BY LadderHas
<1>2. \A p \in DOMAIN L : QueueQty(L[p].openOrders, id) \in Nat
  <2>1. ASSUME NEW p \in DOMAIN L PROVE QueueQty(L[p].openOrders, id) \in Nat
    <3> DEFINE q == L[p].openOrders
    <3>1. q \in Seq(Row(U, I))
      BY QueueOf
    <3> HIDE DEF q
    <3>2. QueueQty(q, id) \in Nat
      BY <3>1, QueueStates
    <3>3. QED
      BY <3>2 DEF q
  <2>2. QED
    BY <2>1
<1> DEFINE S == DOMAIN L
           f == AtPrices(L, id)
<1>3. f \in [S -> Nat] /\ \A p \in S : f[p] = QueueQty(L[p].openOrders, id)
  BY <1>2 DEF AtPrices
<1>4. f \in [S -> Int]
  BY <1>3
<1>5. LadderQty(L, id) = SumFunction(f)
  BY DEF LadderQty, AtPrices
<1> HIDE DEF S, f
<1>6. IsFiniteSet(S)
  BY <1>1 DEF S
<1>7. SumFunction(f) \in Nat
  BY <1>3, <1>6, TotalNat
<1>8. QED
  BY <1>3, <1>4, <1>5, <1>6, <1>7 DEF S, f

\* Two ladders that differ at one price.
LEMMA LadderChange ==
  ASSUME NEW U, NEW I, NEW P, NEW L \in Ladder(U, I, P), NEW N \in Ladder(U, I, P),
         DOMAIN N = DOMAIN L, NEW price \in DOMAIN L,
         \A p \in DOMAIN L : p # price => N[p] = L[p], NEW id
  PROVE  LadderQty(N, id) = LadderQty(L, id)
           + (QueueQty(N[price].openOrders, id) - QueueQty(L[price].openOrders, id))
<1> DEFINE S == DOMAIN L
           f == AtPrices(L, id)
           g == AtPrices(N, id)
<1>1. /\ IsFiniteSet(S) /\ f \in [S -> Int] /\ LadderQty(L, id) = SumFunction(f)
      /\ \A p \in S : f[p] = QueueQty(L[p].openOrders, id)
  BY LadderValues
<1>2. /\ g \in [S -> Int] /\ LadderQty(N, id) = SumFunction(g)
      /\ \A p \in S : g[p] = QueueQty(N[p].openOrders, id)
  BY LadderValues
<1> HIDE DEF f, g
<1>3. \A p \in S \ {price} : g[p] = f[p]
  BY <1>1, <1>2
<1>4. price \in S
  OBVIOUS
<1>5. g[price] = QueueQty(N[price].openOrders, id) /\ f[price] = QueueQty(L[price].openOrders, id)
  BY <1>1, <1>2, <1>4
<1> HIDE DEF S
<1>6. SumFunction(g) = SumFunction(f) + (g[price] - f[price])
  BY <1>1, <1>2, <1>3, <1>4, TotalChange
<1>7. QED
  BY <1>1, <1>2, <1>5, <1>6

\* A ladder with a price more.
LEMMA LadderExtend ==
  ASSUME NEW U, NEW I, NEW P, NEW L \in Ladder(U, I, P), NEW N \in Ladder(U, I, P),
         NEW price, price \notin DOMAIN L, DOMAIN N = DOMAIN L \cup {price},
         \A p \in DOMAIN L : N[p] = L[p], NEW id
  PROVE  LadderQty(N, id) = LadderQty(L, id) + QueueQty(N[price].openOrders, id)
<1> DEFINE S == DOMAIN L
           f == AtPrices(L, id)
           g == AtPrices(N, id)
<1>1. /\ IsFiniteSet(S) /\ f \in [S -> Int] /\ LadderQty(L, id) = SumFunction(f)
      /\ \A p \in S : f[p] = QueueQty(L[p].openOrders, id)
  BY LadderValues
<1>2. /\ g \in [S \cup {price} -> Int] /\ LadderQty(N, id) = SumFunction(g)
      /\ \A p \in S \cup {price} : g[p] = QueueQty(N[p].openOrders, id)
  BY LadderValues
<1> HIDE DEF f, g
<1>3. /\ \A p \in S : g[p] = f[p]
      /\ g[price] = QueueQty(N[price].openOrders, id)
      /\ price \notin S
  BY <1>1, <1>2
<1> DEFINE x == price
<1>4. SumFunction(g) = SumFunction(f) + g[x]
  <2>1. /\ x \notin S /\ IsFiniteSet(S) /\ f \in [S -> Int] /\ g \in [S \cup {x} -> Int]
        /\ \A y \in S : g[y] = f[y]
    BY <1>1, <1>2, <1>3
  <2> HIDE DEF S, x
  <2>2. QED
    BY <2>1, TotalExtend
<1> HIDE DEF S
<1>5. QED
  BY <1>1, <1>2, <1>3, <1>4

\* What is put back at a price, or deleted when it is empty, takes the place of
\* what was there.
LEMMA LevelSetHolds ==
  ASSUME NEW U, NEW I, NEW P, NEW L \in Ladder(U, I, P), NEW price \in DOMAIN L,
         NEW l \in Level(U, I), l.availableQty = QtyOf(l.openOrders),
         \A i \in 1..Len(l.openOrders) : Fillable(l.openOrders[i]) > 0, NEW id
  PROVE  /\ QueueQty(l.openOrders, id) \in Nat /\ QueueQty(L[price].openOrders, id) \in Nat
         /\ LadderQty(L, id) \in Nat
         /\ LadderQty(SetLevel(L, price, l), id) = LadderQty(L, id)
              + (QueueQty(l.openOrders, id) - QueueQty(L[price].openOrders, id))
<1> DEFINE N == SetLevel(L, price, l)
           old == QueueQty(L[price].openOrders, id)
           new == QueueQty(l.openOrders, id)
<1>1. /\ N \in Ladder(U, I, P)
      /\ \A p \in DOMAIN L : p # price => p \in DOMAIN N /\ N[p] = L[p]
  BY LevelSet
<1>2. new \in Nat
  <2> DEFINE q == l.openOrders
  <2>1. q \in Seq(Row(U, I))
    BY DEF Level
  <2> HIDE DEF q
  <2>2. QueueQty(q, id) \in Nat
    BY <2>1, QueueStates
  <2>3. QED
    BY <2>2 DEF q
<1>3. old \in Nat /\ LadderQty(L, id) \in Nat
  <2>1. /\ AtPrices(L, id) \in [DOMAIN L -> Nat] /\ LadderQty(L, id) \in Nat
        /\ AtPrices(L, id)[price] = old
    BY LadderValues
  <2>2. QED
    BY <2>1
<1>4. CASE l.openOrders = <<>>
  <2>1. DOMAIN N = DOMAIN L \ {price}
    BY <1>4 DEF SetLevel, Restrict
  <2>2. price \notin DOMAIN N /\ DOMAIN L = DOMAIN N \cup {price}
    BY <2>1
  <2>3. \A p \in DOMAIN N : L[p] = N[p]
    BY <1>1, <2>1
  <2>4. new = 0
    BY <1>4, QueueEmpty
  <2> HIDE DEF N, new
  <2>5. LadderQty(L, id) = LadderQty(N, id) + old
    BY <1>1, <2>2, <2>3, LadderExtend
  <2>6. LadderQty(N, id) \in Nat
    BY <1>1, LadderValues
  <2> HIDE DEF old
  <2>7. LadderQty(N, id) = LadderQty(L, id) + (new - old)
    BY <1>3, <2>4, <2>5, <2>6
  <2>8. QED
    BY <1>2, <1>3, <2>7 DEF N, new, old
<1>5. CASE l.openOrders # <<>>
  <2>1. DOMAIN N = DOMAIN L /\ N[price] = l
    BY <1>5 DEF SetLevel
  <2>2. \A p \in DOMAIN L : p # price => N[p] = L[p]
    BY <1>1
  <2> HIDE DEF N
  <2>3. LadderQty(N, id) = LadderQty(L, id) + (QueueQty(N[price].openOrders, id) - old)
    BY <1>1, <2>1, <2>2, LadderChange
  <2>4. QED
    BY <1>2, <1>3, <2>1, <2>3 DEF N
<1>6. QED
  BY <1>4, <1>5

\* Where the quantity of an order is while a ladder is matched.
Kept(a, taker, id) ==
  TradedQty(a.fills, id) + LadderQty(a.levels, id) + Asked(taker, a.remainingQty, id)

\* The rows of an own ladder stay own.
LEMMA OwnFrom ==
  ASSUME NEW L1, NEW L0, FromLadder(L1, L0), NEW taker, OwnLadder(L0, taker)
  PROVE  OwnLadder(L1, taker)
<1>1. ASSUME NEW p \in DOMAIN L1, NEW i \in 1..Len(L1[p].openOrders)
      PROVE  OwnRow(L1[p].openOrders[i], taker)
  <2>1. p \in DOMAIN L0 /\ FromQueue(L1[p].openOrders, L0[p].openOrders)
    BY DEF FromLadder
  <2>2. PICK j \in 1..Len(L0[p].openOrders) :
               SameOrder(L1[p].openOrders[i], L0[p].openOrders[j])
    BY <2>1 DEF FromQueue
  <2>3. OwnRow(L0[p].openOrders[j], taker)
    BY <2>1 DEF OwnLadder, OwnQueue
  <2>4. QED
    BY <2>2, <2>3 DEF SameOrder, OwnRow
<1>2. QED
  BY <1>1 DEF OwnLadder, OwnQueue

\* The match of one level of a ladder loses no quantity.
LEMMA LevelMatchHolds ==
  ASSUME NEW U, NEW I, NEW P, NEW taker, taker.orderId \in I, NEW price \in P,
         NEW a \in Siding(U, I, P), OwnLadder(a.levels, taker), NEW id
  PROVE  Kept(MatchLevel(taker, price, a), taker, id) = Kept(a, taker, id)
<1> DEFINE L == a.levels
           m == MatchLevel(taker, price, a)
<1>1. a.remainingQty \in Nat /\ a.fills \in Seq(Fill(I, P)) /\ L \in Ladder(U, I, P)
  BY DEF Siding
<1>2. CASE price \notin DOMAIN L
  BY <1>2 DEF MatchLevel
<1>3. CASE price \in DOMAIN L
  <2> DEFINE level == L[price]
             q == level.openOrders
             n == a.remainingQty
             F == a.fills
             v == VisitAll(taker, price,
                    [remainingQty |-> n, fills |-> F,
                     level |-> [level EXCEPT !.openOrders = <<>>]], q)
             os == v.level.openOrders
             l == [v.level EXCEPT !.openOrders = Unfilled(@)]
             N == SetLevel(L, price, l)
  <2>1. level \in Level(U, I) /\ level.availableQty = QtyOf(level.openOrders)
    <3>1. level \in GoodLevel(U, I)
      BY <1>1, <1>3, LadderHas
    <3>2. QED
      BY <3>1 DEF GoodLevel
  <2>2. m = [remainingQty |-> v.remainingQty, fills |-> v.fills, levels |-> N]
    BY <1>3 DEF MatchLevel, VisitAll
  <2>3. OwnQueue(level.openOrders, taker)
    BY <1>3 DEF OwnLadder
  <2>4. n \in Nat /\ F \in Seq(Fill(I, P))
    BY <1>1
  <2> HIDE DEF n, F, level
  <2>5. v \in Visiting(U, I, P) /\ v.level.availableQty = QtyOf(os)
    <3>1. LET w == VisitAll(taker, price,
                     [remainingQty |-> n, fills |-> F,
                      level |-> [level EXCEPT !.openOrders = <<>>]], q)
              ws == w.level.openOrders
          IN  /\ w \in Visiting(U, I, P) /\ w.remainingQty <= n
              /\ Len(ws) = Len(q) /\ w.level.availableQty = QtyOf(ws)
              /\ \A i \in 1..Len(q) : SameOrder(ws[i], q[i])
              /\ w.remainingQty > 0 =>
                   \A i \in 1..Len(q) : ws[i].userId = taker.userId \/ Fillable(ws[i]) = 0
              /\ Explained(w.fills, F, taker, price, q)
              /\ InTurn(w.fills, F, n, taker, price, q, ws)
      BY <2>1, <2>4, LevelVisited
    <3>2. QED
      BY <3>1
  <2>6. Held(v, taker, id) = TradedQty(F, id) + QueueQty(q, id) + Asked(taker, n, id)
    <3>1. Held(Levelled(taker, price, n, F, level), taker, id)
            = TradedQty(F, id) + QueueQty(level.openOrders, id) + Asked(taker, n, id)
      BY <2>1, <2>3, <2>4, LevelHolds
    <3>2. QED
      BY <3>1 DEF Levelled
  <2> HIDE DEF v
  <2>7. v.level \in Level(U, I) /\ os \in Seq(Row(U, I)) /\ v.remainingQty \in Nat
        /\ v.fills \in Seq(Fill(I, P))
    BY <2>5 DEF Visiting, Level
  <2>8. /\ Unfilled(os) \in Seq(Row(U, I)) /\ QtyOf(Unfilled(os)) = QtyOf(os)
        /\ \A j \in 1..Len(Unfilled(os)) : Fillable(Unfilled(os)[j]) > 0
    BY <2>7, UnfilledKeeps
  <2>9. QueueQty(Unfilled(os), id) = QueueQty(os, id)
    BY <2>7, QueueUnfilled
  <2>10. l \in Level(U, I) /\ l.openOrders = Unfilled(os) /\ l.availableQty = v.level.availableQty
    BY <2>7, <2>8 DEF Level
  <2> HIDE DEF os, l, L
  <2>11. l.availableQty = QtyOf(l.openOrders)
         /\ \A i \in 1..Len(l.openOrders) : Fillable(l.openOrders[i]) > 0
    BY <2>5, <2>8, <2>10
  <2>12. /\ QueueQty(l.openOrders, id) \in Nat /\ QueueQty(L[price].openOrders, id) \in Nat
         /\ LadderQty(L, id) \in Nat
         /\ LadderQty(N, id) = LadderQty(L, id)
              + (QueueQty(l.openOrders, id) - QueueQty(L[price].openOrders, id))
    BY <1>1, <1>3, <2>10, <2>11, LevelSetHolds
  <2>13. /\ m.remainingQty = v.remainingQty /\ m.fills = v.fills /\ m.levels = N
    BY <2>2
  <2> HIDE DEF N, m
  <2> DEFINE T == TradedQty(F, id)
             A == Asked(taker, n, id)
             T1 == TradedQty(v.fills, id)
             A1 == Asked(taker, v.remainingQty, id)
             x == QueueQty(l.openOrders, id)
             y == QueueQty(L[price].openOrders, id)
             Z == LadderQty(L, id)
  <2>14. T \in Int /\ A \in Int /\ T1 \in Int /\ A1 \in Int /\ x \in Int /\ y \in Int /\ Z \in Int
    BY <2>4, <2>7, <2>12, TradedNat DEF Asked
  <2>15. T1 + x + A1 = T + y + A
    BY <2>6, <2>9, <2>10 DEF Held, level, os
  <2>16. Kept(m, taker, id) = T1 + (Z + (x - y)) + A1 /\ Kept(a, taker, id) = T + Z + A
    BY <2>12, <2>13 DEF Kept, F, n, L
  <2> HIDE DEF T, A, T1, A1, x, y, Z
  <2>17. T1 + (Z + (x - y)) + A1 = T + Z + A
    BY <2>14, <2>15
  <2>18. QED
    BY <2>16, <2>17 DEF m
<1>4. QED
  BY <1>2, <1>3

\* The match of a whole ladder loses no quantity.
LEMMA SideHolds ==
  ASSUME NEW U, NEW I, NEW P \in SUBSET Nat, NEW taker, taker.orderId \in I,
         NEW n \in Nat, taker.qty = n, NEW L \in Ladder(U, I, P), OwnLadder(L, taker), NEW id
  PROVE  Kept(MatchSide(L, taker), taker, id) = LadderQty(L, id) + Asked(taker, n, id)
<1> DEFINE m == MatchSide(L, taker)
           B == {p \in DOMAIN L : Crosses(taker, p)}
           q == SortedPrices(B, taker.side)
           base == [remainingQty |-> n, fills |-> <<>>, levels |-> L]
           A == Siding(U, I, P)
           K(x) == Kept(x, taker, id)
<1>1. DOMAIN L \subseteq P /\ IsFiniteSet(DOMAIN L)
  BY LadderHas
<1>2. B \subseteq P /\ B \subseteq Nat /\ IsFiniteSet(B)
  BY <1>1, FS_Subset
<1>3. m = SideAll(taker, base, q)
  BY DEF MatchSide, SideAll
<1>4. base \in A /\ base.levels = L
  BY EmptySeq DEF Siding
<1>5. K(base) = LadderQty(L, id) + Asked(taker, n, id)
  <2>1. TradedQty(<<>>, id) = 0
    <3> DEFINE F == <<>>
    <3>1. F \in Seq(Fill(I, P)) /\ \A i \in 1..Len(F) : InFill(F[i], id) = 0
      BY EmptySeq
    <3> HIDE DEF F
    <3>2. TradedQty(F, id) = 0
      BY <3>1, TradedNone
    <3>3. QED
      BY <3>2 DEF F
  <2>2. LadderQty(L, id) \in Nat
    BY LadderValues
  <2>3. Asked(taker, n, id) \in Nat
    BY DEF Asked
  <2>4. K(base) = 0 + LadderQty(L, id) + Asked(taker, n, id)
    BY <2>1 DEF Kept
  <2> HIDE DEF K
  <2>5. QED
    BY <2>2, <2>3, <2>4
<1> HIDE DEF B, base
<1>6. q \in Seq(B)
  <2>1. Lists(q, B)
    BY <1>2, SortedPricesAre
  <2> HIDE DEF q
  <2>2. QED
    BY <2>1 DEF Lists
<1> HIDE DEF q, m
<1>7. Len(q) \in Nat /\ \A k \in 1..Len(q) : q[k] \in P
  BY <1>2, <1>6, LenProperties, ElementOfSeq
<1>8. PICK st \in [0..Len(q) -> A] :
        /\ st[0] = base
        /\ \A k \in 1..Len(q) : st[k] = MatchLevel(taker, q[k], st[k-1])
        /\ SideAll(taker, base, q) = st[Len(q)]
  <2>1. \E st : SideRun(st, taker, base, q, A)
    BY <1>2, <1>4, <1>6, SideStates
  <2> HIDE DEF A
  <2>2. QED
    BY <2>1 DEF SideRun
<1> DEFINE S == {k \in 0..Len(q) : OwnLadder(st[k].levels, taker) /\ K(st[k]) = K(base)}
<1>9. 0 \in S
  BY <1>4, <1>7, <1>8
<1>10. ASSUME NEW k \in 1..Len(q), k - 1 \in S PROVE k \in S
  <2> DEFINE a == st[k-1]
             b == st[k]
             p == q[k]
  <2>1. k \in 0..Len(q) /\ k - 1 \in 0..Len(q) /\ p \in P
    BY <1>7
  <2>2. /\ a \in Siding(U, I, P) /\ OwnLadder(a.levels, taker) /\ K(a) = K(base)
        /\ b = MatchLevel(taker, p, a)
    BY <1>8, <1>10, <2>1
  <2> HIDE DEF a, b, p
  <2>3. FromLadder(b.levels, a.levels)
    BY <2>1, <2>2, LevelMatched
  <2>4. OwnLadder(b.levels, taker)
    BY <2>2, <2>3, OwnFrom
  <2>5. K(b) = K(a)
    BY <2>1, <2>2, LevelMatchHolds
  <2> HIDE DEF K
  <2>6. QED
    BY <2>1, <2>2, <2>4, <2>5 DEF b
<1>11. Len(q) \in S
  <2>1. \A k \in 0..Len(q) : k \in S
    <3> HIDE DEF S
    <3>1. QED
      BY <1>7, <1>9, <1>10, Upwards
  <2>2. Len(q) \in 0..Len(q)
    BY <1>7
  <2> HIDE DEF S
  <2>3. QED
    BY <2>1, <2>2
<1>12. K(m) = K(base)
  <2> HIDE DEF K
  <2>1. QED
    BY <1>3, <1>8, <1>11
<1>13. QED
  BY <1>5, <1>12 DEF m

\* No order of this id rests in the book, or only the taker's user's own.
OwnBook(book, taker) == OwnLadder(book.bids, taker) /\ OwnLadder(book.asks, taker)

\* The quantities of an order are natural numbers.
LEMMA RestingNat ==
  ASSUME NEW U, NEW I, NEW P, NEW book \in Book(U, I, P), NEW id
  PROVE  /\ LadderQty(book.bids, id) \in Nat /\ LadderQty(book.asks, id) \in Nat
         /\ RestingQty(book, id) \in Nat
<1>1. book.bids \in Ladder(U, I, P) /\ book.asks \in Ladder(U, I, P)
  BY DEF Book
<1>2. LadderQty(book.bids, id) \in Nat /\ LadderQty(book.asks, id) \in Nat
  <2> DEFINE b == book.bids
             a == book.asks
  <2> HIDE DEF b, a
  <2>1. b \in Ladder(U, I, P) /\ a \in Ladder(U, I, P)
    BY <1>1 DEF b, a
  <2>2. LadderQty(b, id) \in Nat /\ LadderQty(a, id) \in Nat
    BY <2>1, LadderValues
  <2>3. QED
    BY <2>2 DEF b, a
<1>3. QED
  BY <1>2 DEF RestingQty

\* A match loses no quantity of any order: what it takes from the book it puts
\* in the fills, and what it does not take the taker still wants.
LEMMA MatchHolds ==
  ASSUME NEW U, NEW I, NEW P \in SUBSET Nat, NEW book \in Book(U, I, P),
         NEW taker, Taker(taker, U, I, P), OwnBook(book, taker), NEW id
  PROVE  LET m == Match(book, taker)
         IN  TradedQty(m.fills, id) + RestingQty(m.book, id) + Asked(taker, m.remainingQty, id)
               = RestingQty(book, id) + Asked(taker, taker.qty, id)
<1> DEFINE side == LadderOf(Opposite(taker.side))
           L == book[side]
           s == MatchSide(L, taker)
           N == [book EXCEPT ![side] = s.levels]
           m == Match(book, taker)
<1>1. side \in Ladders /\ taker.side \in Sides /\ taker.orderId \in I /\ taker.qty \in Nat
  BY SidesAre DEF Taker, Ladders
<1>2. L \in Ladder(U, I, P) /\ OwnLadder(L, taker)
  BY <1>1 DEF Book, Ladders, OwnBook
<1>3. m = [book |-> N, fills |-> s.fills, remainingQty |-> s.remainingQty]
  BY DEF Match
<1>4. Kept(s, taker, id) = LadderQty(L, id) + Asked(taker, taker.qty, id)
  <2> HIDE DEF L
  <2> DEFINE n == taker.qty
  <2>1. taker.orderId \in I /\ taker.qty = n /\ n \in Nat
    BY <1>1
  <2> HIDE DEF s, N, m, n
  <2>2. Kept(MatchSide(L, taker), taker, id) = LadderQty(L, id) + Asked(taker, n, id)
    BY <1>2, <2>1, SideHolds
  <2>3. QED
    BY <2>2 DEF s, n
<1>5. s \in Siding(U, I, P)
  <2> HIDE DEF L
  <2>1. QED
    BY <1>1, <1>2, SideMatched
<1> HIDE DEF s
<1>6. /\ s.remainingQty \in Nat /\ s.fills \in Seq(Fill(I, P))
      /\ s.levels \in Ladder(U, I, P)
  BY <1>5 DEF Siding
<1> DEFINE T == TradedQty(s.fills, id)
           A == Asked(taker, taker.qty, id)
           A1 == Asked(taker, s.remainingQty, id)
           x == LadderQty(L, id)
           x1 == LadderQty(s.levels, id)
           b == LadderQty(book.bids, id)
           a == LadderQty(book.asks, id)
<1>7. /\ T \in Nat /\ A \in Nat /\ A1 \in Nat /\ a \in Nat /\ b \in Nat
      /\ x1 \in Nat /\ x \in Nat
  <2>1. A \in Nat /\ A1 \in Nat
    BY <1>1, <1>6 DEF Asked
  <2>2. T \in Nat
    BY <1>6, TradedNat
  <2>3. a \in Nat /\ b \in Nat
    BY RestingNat
  <2>4. x1 \in Nat
    <3> DEFINE K == s.levels
    <3> HIDE DEF K
    <3>1. K \in Ladder(U, I, P)
      BY <1>6 DEF K
    <3>2. LadderQty(K, id) \in Nat
      BY <3>1, LadderValues
    <3>3. QED
      BY <3>2 DEF K
  <2>5. x \in Nat
    <3> HIDE DEF L
    <3>1. QED
      BY <1>2, LadderValues
  <2>6. QED
    BY <2>1, <2>2, <2>3, <2>4, <2>5
<1>8. T + x1 + A1 = x + A
  BY <1>4 DEF Kept
<1>9. m.fills = s.fills /\ m.remainingQty = s.remainingQty /\ m.book = N
  BY <1>3
<1>10. \/ /\ x = b /\ RestingQty(N, id) = x1 + a /\ RestingQty(book, id) = b + a
       \/ /\ x = a /\ RestingQty(N, id) = b + x1 /\ RestingQty(book, id) = b + a
  <2>1. CASE side = "bids"
    <3>1. N.bids = s.levels /\ N.asks = book.asks /\ L = book.bids
      BY <2>1 DEF Book
    <3>2. QED
      BY <3>1 DEF RestingQty
  <2>2. CASE side = "asks"
    <3>1. N.asks = s.levels /\ N.bids = book.bids /\ L = book.asks
      BY <2>2 DEF Book
    <3>2. QED
      BY <3>1 DEF RestingQty
  <2>3. QED
    BY <1>1, <2>1, <2>2 DEF Ladders
<1> DEFINE r1 == RestingQty(N, id)
           r == RestingQty(book, id)
<1>11. T + r1 + A1 = r + A
  <2>1. \/ x = b /\ r1 = x1 + a /\ r = b + a
        \/ x = a /\ r1 = b + x1 /\ r = b + a
    BY <1>10
  <2> HIDE DEF T, A, A1, x, x1, b, a, r1, r
  <2>2. QED
    BY <1>7, <1>8, <2>1
<1>12. QED
  BY <1>9, <1>11

\* What an order has left rests with it.
LEMMA RestedHolds ==
  ASSUME NEW U, NEW I, NEW P, NEW L \in Ladder(U, I, P), NEW price \in P,
         NEW row \in Row(U, I), Fillable(row) > 0, NEW id
  PROVE  LadderQty(Rested(L, price, row), id) = LadderQty(L, id) + OfOrder(row, id)
<1> DEFINE level == IF price \in DOMAIN L THEN L[price] ELSE EmptyLevel
           N == Rested(L, price, row)
           q == level.openOrders
<1>1. level \in GoodLevel(U, I) \/ level = EmptyLevel
  BY LadderHas
<1>2. q \in Seq(Row(U, I)) /\ Push(level, row).openOrders = Append(q, row)
  <2> HIDE DEF level, N
  <2>1. /\ Push(level, row) \in GoodLevel(U, I)
        /\ level.openOrders \in Seq(Row(U, I))
        /\ Push(level, row).openOrders = Append(level.openOrders, row)
    BY <1>1, PushGood
  <2>2. QED
    BY <2>1
<1>3. N \in Ladder(U, I, P)
  BY RestedGood
<1>4. /\ DOMAIN N = DOMAIN L \cup {price} /\ N[price] = Push(level, row)
      /\ \A p \in DOMAIN L : p # price => N[p] = L[p]
  BY DEF Rested
<1>5. price \in DOMAIN L => q = L[price].openOrders
  OBVIOUS
<1>6. price \notin DOMAIN L => q = <<>>
  BY DEF EmptyLevel
<1> HIDE DEF q, level, N
<1>7. QueueQty(N[price].openOrders, id) = QueueQty(q, id) + OfOrder(row, id)
  <2>1. q \in Seq(Row(U, I))
    BY <1>2
  <2>2. QueueQty(Append(q, row), id) = QueueQty(q, id) + OfOrder(row, id)
    BY <2>1, QueueAppend
  <2>3. N[price].openOrders = Append(q, row)
    BY <1>2, <1>4
  <2>4. QED
    BY <2>2, <2>3
<1>8. QueueQty(q, id) \in Nat /\ OfOrder(row, id) \in Nat /\ LadderQty(L, id) \in Nat
  <2>1. QueueQty(q, id) \in Nat
    BY <1>2, QueueStates
  <2>2. OfOrder(row, id) \in Nat
    BY RowWants DEF OfOrder
  <2>3. LadderQty(L, id) \in Nat
    BY LadderValues
  <2>4. QED
    BY <2>1, <2>2, <2>3
<1>9. CASE price \in DOMAIN L
  <2>1. DOMAIN N = DOMAIN L
    BY <1>4, <1>9
  <2>2. LadderQty(N, id) = LadderQty(L, id)
          + (QueueQty(N[price].openOrders, id) - QueueQty(L[price].openOrders, id))
    BY <1>3, <1>4, <1>9, <2>1, LadderChange
  <2>3. QueueQty(L[price].openOrders, id) = QueueQty(q, id)
    BY <1>5, <1>9
  <2>4. QED
    BY <1>7, <1>8, <2>2, <2>3 DEF N
<1>10. CASE price \notin DOMAIN L
  <2>1. \A p \in DOMAIN L : N[p] = L[p]
    BY <1>4, <1>10
  <2>2. LadderQty(N, id) = LadderQty(L, id) + QueueQty(N[price].openOrders, id)
    BY <1>3, <1>4, <1>10, <2>1, LadderExtend
  <2>3. QueueQty(q, id) = 0
    BY <1>6, <1>10, QueueEmpty
  <2>4. QED
    BY <1>7, <1>8, <2>2, <2>3 DEF N
<1>11. QED
  BY <1>9, <1>10

\* What a limit order still wants rests, and nothing else.
LEMMA RestHolds ==
  ASSUME NEW U, NEW I, NEW P, NEW book \in Book(U, I, P),
         NEW taker, Taker(taker, U, I, P), NEW remaining \in Nat, NEW id
  PROVE  RestingQty(RestLeftover(book, taker, remaining), id)
           = RestingQty(book, id)
             + (IF taker.orderType = "LIMIT" THEN Asked(taker, remaining, id) ELSE 0)
<1> DEFINE side == LadderOf(taker.side)
           row == Leftover(taker, remaining)
           L == book[side]
           R == Rested(L, taker.price, row)
           N == [book EXCEPT ![side] = R]
           b == LadderQty(book.bids, id)
           a == LadderQty(book.asks, id)
<1>1. a \in Nat /\ b \in Nat /\ RestingQty(book, id) = b + a
  BY RestingNat DEF RestingQty
<1>2. CASE ~(remaining > 0 /\ taker.orderType = "LIMIT")
  <2>1. RestLeftover(book, taker, remaining) = book
    BY <1>2 DEF RestLeftover
  <2>2. (IF taker.orderType = "LIMIT" THEN Asked(taker, remaining, id) ELSE 0) = 0
    BY <1>2 DEF Asked
  <2> HIDE DEF a, b
  <2>3. QED
    BY <1>1, <2>1, <2>2
<1>3. CASE remaining > 0 /\ taker.orderType = "LIMIT"
  <2>1. RestLeftover(book, taker, remaining) = N
    BY <1>3 DEF RestLeftover, RestOrder, Rested, Leftover
  <2>2. side \in Ladders /\ taker.price \in P
    BY <1>3, SidesAre DEF Taker, Ladders
  <2>3. L \in Ladder(U, I, P)
    BY <2>2 DEF Book, Ladders
  <2>4. row \in Row(U, I) /\ Fillable(row) = remaining /\ row.orderId = taker.orderId
    BY DEF Leftover, Row, Fillable, Taker
  <2> HIDE DEF L, row
  <2>5. LadderQty(R, id) = LadderQty(L, id) + OfOrder(row, id)
    BY <1>3, <2>2, <2>3, <2>4, RestedHolds
  <2>6. OfOrder(row, id) = Asked(taker, remaining, id) /\ Asked(taker, remaining, id) \in Nat
    BY <2>4 DEF OfOrder, Asked
  <2> HIDE DEF R
  <2> DEFINE A == Asked(taker, remaining, id)
  <2>7. \/ RestingQty(N, id) = (b + A) + a
        \/ RestingQty(N, id) = b + (a + A)
    <3>1. CASE side = "bids"
      <4>1. N.bids = R /\ N.asks = book.asks /\ L = book.bids
        BY <3>1 DEF Book, L
      <4>2. QED
        BY <2>5, <2>6, <4>1 DEF RestingQty
    <3>2. CASE side = "asks"
      <4>1. N.asks = R /\ N.bids = book.bids /\ L = book.asks
        BY <3>2 DEF Book, L
      <4>2. QED
        BY <2>5, <2>6, <4>1 DEF RestingQty
    <3>3. QED
      BY <2>2, <3>1, <3>2 DEF Ladders
  <2> HIDE DEF N, a, b, A
  <2>8. RestingQty(N, id) = (b + a) + A
    BY <1>1, <2>6, <2>7 DEF A
  <2>9. QED
    BY <1>1, <1>3, <2>1, <2>8 DEF A
<1>4. QED
  BY <1>2, <1>3

\* No order of this id rests in the book.
Absent(book, id) ==
  \A l \in Ladders : \A p \in DOMAIN book[l] :
    \A i \in 1..Len(book[l][p].openOrders) : book[l][p].openOrders[i].orderId # id

\* Then none of its quantity does.
LEMMA LadderNone ==
  ASSUME NEW U, NEW I, NEW P, NEW L \in Ladder(U, I, P), NEW id,
         \A p \in DOMAIN L : \A i \in 1..Len(L[p].openOrders) : L[p].openOrders[i].orderId # id
  PROVE  LadderQty(L, id) = 0
<1> DEFINE S == DOMAIN L
           f == AtPrices(L, id)
<1>1. ASSUME NEW p \in S PROVE QueueQty(L[p].openOrders, id) = 0
  <2> DEFINE q == L[p].openOrders
             g == Shares(q, id)
             n == Len(q)
  <2>1. q \in Seq(Row(U, I)) /\ \A i \in 1..n : q[i].orderId # id
    BY QueueOf
  <2> HIDE DEF q
  <2>2. /\ n \in Nat /\ g \in [1..n -> Int] /\ QueueQty(q, id) = SumFunction(g)
        /\ \A i \in 1..n : g[i] = OfOrder(q[i], id)
    BY <2>1, QueueValues
  <2>3. \A i \in 1..n : g[i] = 0
    BY <2>1, <2>2 DEF OfOrder
  <2> HIDE DEF g, n
  <2>4. IsFiniteSet(1..n)
    BY <2>2, FS_Interval
  <2>5. SumFunction(g) = 0
    BY <2>2, <2>3, <2>4, TotalZero
  <2>6. QED
    BY <2>2, <2>5 DEF q
<1>2. /\ IsFiniteSet(S) /\ f \in [S -> Int] /\ LadderQty(L, id) = SumFunction(f)
      /\ \A p \in S : f[p] = QueueQty(L[p].openOrders, id)
  BY LadderValues
<1>3. \A p \in S : f[p] = 0
  BY <1>1, <1>2
<1> HIDE DEF S, f
<1>4. QED
  BY <1>2, <1>3, TotalZero

\* The same of a book.
LEMMA AbsentRests ==
  ASSUME NEW U, NEW I, NEW P, NEW book \in Book(U, I, P), NEW id, Absent(book, id)
  PROVE  RestingQty(book, id) = 0
<1> DEFINE b == book.bids
           a == book.asks
<1>1. /\ b \in Ladder(U, I, P) /\ a \in Ladder(U, I, P)
      /\ \A p \in DOMAIN b : \A i \in 1..Len(b[p].openOrders) : b[p].openOrders[i].orderId # id
      /\ \A p \in DOMAIN a : \A i \in 1..Len(a[p].openOrders) : a[p].openOrders[i].orderId # id
  BY DEF Book, Absent, Ladders
<1> HIDE DEF b, a
<1>2. LadderQty(b, id) = 0
  BY <1>1, LadderNone
<1>3. LadderQty(a, id) = 0
  BY <1>1, LadderNone
<1>4. QED
  BY <1>2, <1>3 DEF RestingQty, b, a

\* An order that is new to the book finds none of its id there.
LEMMA AbsentIsOwn ==
  ASSUME NEW book, NEW taker, Absent(book, taker.orderId)
  PROVE  OwnBook(book, taker)
BY DEF Absent, Ladders, OwnBook, OwnLadder, OwnQueue, OwnRow

\* What a removal returns is what it takes out of the book.
LEMMA RemoveHolds ==
  ASSUME NEW U, NEW I, NEW P, NEW book \in Book(U, I, P), NEW side \in Sides,
         NEW price, NEW orderId, NEW x \in RemovedOrders(book, side, price, orderId), NEW id
  PROVE  /\ x \in Row(U, I) /\ x.orderId = orderId
         /\ RestingQty(book, id)
              = RestingQty(RemoveOrder(book, side, price, orderId), id) + OfOrder(x, id)
<1> DEFINE l == LadderOf(side)
           L == book[l]
           i == QueueIndex(L, price, orderId)
           level == L[price]
           q == level.openOrders
           u == Unlist(level, i)
           S == SetLevel(L, price, u)
           N == [book EXCEPT ![l] = S]
           a == LadderQty(book.asks, id)
           b == LadderQty(book.bids, id)
<1>1. l \in Ladders /\ L \in Ladder(U, I, P)
  <2>1. l \in Ladders
    BY SidesAre DEF Ladders
  <2>2. QED
    BY <2>1 DEF Book, Ladders
<1>2. i # 0 /\ x = q[i]
  BY DEF RemovedOrders
<1>3. RemoveOrder(book, side, price, orderId) = N
  BY <1>2 DEF RemoveOrder
<1>4. a \in Nat /\ b \in Nat /\ RestingQty(book, id) = b + a
  BY RestingNat DEF RestingQty
<1> HIDE DEF L
<1>5. price \in DOMAIN L
  BY <1>2 DEF QueueIndex
<1>6. level \in GoodLevel(U, I)
  BY <1>1, <1>5, LadderHas
<1>7. q \in Seq(Row(U, I)) /\ Len(q) \in Nat
  BY <1>6, LenProperties DEF GoodLevel, Level
<1>8. i \in 1..Len(q) /\ q[i].orderId = orderId
  BY <1>2, <1>5, <1>7, Selected
<1> DEFINE r == RemoveAt(q, i)
<1> HIDE DEF i, level
<1>9. /\ q[i] \in Row(U, I) /\ u \in Level(U, I)
      /\ u.openOrders = r /\ u.availableQty = QtyOf(r)
      /\ \A k \in 1..Len(r) : Fillable(r[k]) > 0 /\ \E j \in 1..Len(q) : r[k] = q[j]
  <2>1. i \in 1..Len(level.openOrders)
    BY <1>8
  <2>2. /\ level.openOrders[i] \in Row(U, I)
        /\ Unlist(level, i) \in Level(U, I)
        /\ Unlist(level, i).openOrders = RemoveAt(level.openOrders, i)
        /\ Unlist(level, i).availableQty = QtyOf(RemoveAt(level.openOrders, i))
        /\ LeftOf(RemoveAt(level.openOrders, i), level.openOrders)
    BY <1>6, <2>1, UnlistGood
  <2>3. QED
    BY <2>2 DEF LeftOf
<1>10. x \in Row(U, I) /\ x.orderId = orderId
  BY <1>2, <1>8, <1>9
<1> HIDE DEF q, u
<1>11. QueueQty(r, id) = QueueQty(q, id) - OfOrder(q[i], id)
  BY <1>7, <1>8, QueueRemoved
<1> HIDE DEF r
<1>12. /\ u.availableQty = QtyOf(u.openOrders)
       /\ \A k \in 1..Len(u.openOrders) : Fillable(u.openOrders[k]) > 0
  BY <1>9
<1>13. /\ QueueQty(u.openOrders, id) \in Nat /\ QueueQty(L[price].openOrders, id) \in Nat
       /\ LadderQty(L, id) \in Nat
       /\ LadderQty(S, id) = LadderQty(L, id)
            + (QueueQty(u.openOrders, id) - QueueQty(L[price].openOrders, id))
  BY <1>1, <1>5, <1>9, <1>12, LevelSetHolds
<1>14. OfOrder(x, id) \in Nat
  BY <1>10, RowWants DEF OfOrder
<1> HIDE DEF S
<1>15. LadderQty(S, id) = LadderQty(L, id) - OfOrder(x, id) /\ LadderQty(L, id) \in Nat
  <2> DEFINE s == QueueQty(q, id)
             t == QueueQty(r, id)
             w == OfOrder(x, id)
             z == LadderQty(L, id)
  <2>1. /\ t = s - w /\ LadderQty(S, id) = z + (t - s)
        /\ t \in Nat /\ s \in Nat /\ z \in Nat
    BY <1>2, <1>9, <1>11, <1>13 DEF q, level
  <2>2. w \in Nat
    BY <1>14
  <2> HIDE DEF s, t, w, z
  <2>3. LadderQty(S, id) = z - w
    BY <2>1, <2>2
  <2>4. QED
    BY <1>13, <2>3 DEF z, w
<1> DEFINE w == OfOrder(x, id)
<1>16. \/ RestingQty(N, id) = (b - w) + a
       \/ RestingQty(N, id) = b + (a - w)
  <2>1. CASE l = "bids"
    <3>1. N.bids = S /\ N.asks = book.asks /\ L = book.bids
      BY <2>1 DEF Book, L
    <3>2. QED
      BY <1>15, <3>1 DEF RestingQty
  <2>2. CASE l = "asks"
    <3>1. N.asks = S /\ N.bids = book.bids /\ L = book.asks
      BY <2>2 DEF Book, L
    <3>2. QED
      BY <1>15, <3>1 DEF RestingQty
  <2>3. QED
    BY <1>1, <2>1, <2>2 DEF Ladders
<1>17. RestingQty(book, id) = RestingQty(N, id) + w
  <2>1. w \in Nat
    BY <1>14
  <2> HIDE DEF a, b, w, N
  <2>2. QED
    BY <1>4, <1>16, <2>1
<1>18. QED
  BY <1>3, <1>10, <1>17

-----------------------------------------------------------------------------
(* What was cancelled of an order.                                         *)

CancelMsgs(I) == [orderId : I, unfilledQty : Nat]

InCancel(c, id)   == IF c.orderId = id THEN c.unfilledQty ELSE 0
Releases(C, id)   == [i \in DOMAIN C |-> InCancel(C[i], id)]

\* The values that CancelledQty adds up, and their sum.
LEMMA CancelledValues ==
  ASSUME NEW I, NEW C \in Seq(CancelMsgs(I)), NEW id
  PROVE  /\ Len(C) \in Nat /\ Releases(C, id) \in [1..Len(C) -> Int]
         /\ \A i \in 1..Len(C) : Releases(C, id)[i] = InCancel(C[i], id)
         /\ CancelledQty(C, id) = SumFunction(Releases(C, id))
         /\ CancelledQty(C, id) \in Nat
<1>1. Len(C) \in Nat /\ DOMAIN C = 1..Len(C) /\ \A i \in 1..Len(C) : C[i] \in CancelMsgs(I)
  BY LenProperties, ElementOfSeq
<1>2. \A i \in 1..Len(C) : InCancel(C[i], id) \in Nat
  BY <1>1 DEF InCancel, CancelMsgs
<1> DEFINE f == Releases(C, id)
           n == Len(C)
<1>3. CancelledQty(C, id) = SumFunction(f)
  BY DEF CancelledQty, InCancel, Releases
<1>4. f \in [1..n -> Nat] /\ \A i \in 1..n : f[i] = InCancel(C[i], id)
  BY <1>1, <1>2 DEF Releases
<1>5. n \in Nat
  BY <1>1
<1> HIDE DEF f, n
<1>6. IsFiniteSet(1..n)
  BY <1>5, FS_Interval
<1>7. f \in [1..n -> Int] /\ SumFunction(f) \in Nat
  BY <1>4, <1>6, TotalNat
<1>8. QED
  BY <1>3, <1>4, <1>5, <1>7 DEF f, n

\* No cancel of an order releases any of it.
LEMMA CancelledNone ==
  ASSUME NEW I, NEW C \in Seq(CancelMsgs(I)), NEW id,
         \A i \in 1..Len(C) : C[i].orderId # id
  PROVE  CancelledQty(C, id) = 0
<1> DEFINE f == Releases(C, id)
           n == Len(C)
<1>1. /\ n \in Nat /\ f \in [1..n -> Int] /\ CancelledQty(C, id) = SumFunction(f)
      /\ \A i \in 1..n : f[i] = InCancel(C[i], id)
  BY CancelledValues
<1>2. \A i \in 1..n : f[i] = 0
  BY <1>1 DEF InCancel
<1> HIDE DEF f, n
<1>3. IsFiniteSet(1..n)
  BY <1>1, FS_Interval
<1>4. QED
  BY <1>1, <1>2, <1>3, TotalZero

\* A cancel more adds what it releases.
LEMMA CancelledAppend ==
  ASSUME NEW I, NEW C \in Seq(CancelMsgs(I)), NEW x \in CancelMsgs(I), NEW id
  PROVE  CancelledQty(Append(C, x), id) = CancelledQty(C, id) + InCancel(x, id)
<1> DEFINE G == Append(C, x)
           f == Releases(C, id)
           g == Releases(G, id)
           n == Len(C)
<1>1. /\ G \in Seq(CancelMsgs(I)) /\ Len(G) = n + 1 /\ G[n + 1] = x
      /\ \A i \in 1..n : G[i] = C[i]
  BY AppendProperties
<1>2. /\ n \in Nat /\ f \in [1..n -> Int] /\ CancelledQty(C, id) = SumFunction(f)
      /\ \A k \in 1..n : f[k] = InCancel(C[k], id)
  BY CancelledValues
<1> HIDE DEF G, f
<1>3. /\ g \in [1..Len(G) -> Int] /\ CancelledQty(G, id) = SumFunction(g)
      /\ \A k \in 1..Len(G) : g[k] = InCancel(G[k], id)
  BY <1>1, CancelledValues
<1> HIDE DEF g, n
<1>4. g \in [1..(n+1) -> Int] /\ g[n+1] = InCancel(x, id) /\ \A i \in 1..n : g[i] = f[i]
  <2>1. n + 1 \in 1..(n+1) /\ \A i \in 1..n : i \in 1..(n+1)
    BY <1>2
  <2>2. QED
    BY <1>1, <1>2, <1>3, <2>1
<1>5. SumFunction(g) = SumFunction(f) + g[n+1]
  BY <1>2, <1>4, TotalLonger
<1>6. QED
  BY <1>2, <1>3, <1>4, <1>5 DEF G

-----------------------------------------------------------------------------
(* The order of the queues of a book.                                      *)

RankedBook(book, rank) ==
  \A l \in Ladders : \A p \in DOMAIN book[l] : Ranked(book[l][p].openOrders, rank)

\* The ids of a book are all among `rows`.
Everywhere(book, rows) ==
  \A l \in Ladders : \A p \in DOMAIN book[l] :
    \A i \in 1..Len(book[l][p].openOrders) : book[l][p].openOrders[i].orderId \in rows

\* A book that comes from an ordered one is ordered.
LEMMA RankedFrom ==
  ASSUME NEW b1, NEW b0, FromBook(b1, b0), NEW rank, RankedBook(b0, rank)
  PROVE  RankedBook(b1, rank)
<1>1. ASSUME NEW l \in Ladders, NEW p \in DOMAIN b1[l]
      PROVE  Ranked(b1[l][p].openOrders, rank)
  <2>1. FromLadder(b1[l], b0[l])
    BY DEF FromBook, Ladders
  <2>2. p \in DOMAIN b0[l] /\ FromQueue(b1[l][p].openOrders, b0[l][p].openOrders)
    BY <2>1 DEF FromLadder
  <2>3. Ranked(b0[l][p].openOrders, rank)
    BY <2>2 DEF RankedBook
  <2>4. QED
    BY <2>2, <2>3 DEF FromQueue
<1>2. QED
  BY <1>1 DEF RankedBook

\* ... and has no ids that the other has not.
LEMMA EverywhereFrom ==
  ASSUME NEW b1, NEW b0, FromBook(b1, b0), NEW rows, Everywhere(b0, rows)
  PROVE  Everywhere(b1, rows)
<1>1. ASSUME NEW l \in Ladders, NEW p \in DOMAIN b1[l], NEW i \in 1..Len(b1[l][p].openOrders)
      PROVE  b1[l][p].openOrders[i].orderId \in rows
  <2>1. FromLadder(b1[l], b0[l])
    BY DEF FromBook, Ladders
  <2>2. p \in DOMAIN b0[l] /\ FromQueue(b1[l][p].openOrders, b0[l][p].openOrders)
    BY <2>1 DEF FromLadder
  <2>3. PICK j \in 1..Len(b0[l][p].openOrders) :
               SameOrder(b1[l][p].openOrders[i], b0[l][p].openOrders[j])
    BY <2>2 DEF FromQueue
  <2>4. b0[l][p].openOrders[j].orderId \in rows
    BY <2>2 DEF Everywhere
  <2>5. QED
    BY <2>3, <2>4 DEF SameOrder
<1>2. QED
  BY <1>1 DEF Everywhere

\* ... and an id that is not there is not.
LEMMA AbsentFrom ==
  ASSUME NEW b1, NEW b0, FromBook(b1, b0), NEW id, Absent(b0, id)
  PROVE  Absent(b1, id)
<1>1. ASSUME NEW l \in Ladders, NEW p \in DOMAIN b1[l], NEW i \in 1..Len(b1[l][p].openOrders)
      PROVE  b1[l][p].openOrders[i].orderId # id
  <2>1. FromLadder(b1[l], b0[l])
    BY DEF FromBook, Ladders
  <2>2. p \in DOMAIN b0[l] /\ FromQueue(b1[l][p].openOrders, b0[l][p].openOrders)
    BY <2>1 DEF FromLadder
  <2>3. PICK j \in 1..Len(b0[l][p].openOrders) :
               SameOrder(b1[l][p].openOrders[i], b0[l][p].openOrders[j])
    BY <2>2 DEF FromQueue
  <2>4. QED
    BY <2>2, <2>3 DEF Absent, SameOrder
<1>2. QED
  BY <1>1 DEF Absent

\* No order of an id rests in a market that none was handled in.
LEMMA NotThere ==
  ASSUME NEW book, NEW S, NEW k, Stems(book, S, k), NEW id,
         \A o \in S : o.orderId = id => o.marketId # k
  PROVE  Absent(book, id)
<1>1. ASSUME NEW l \in Ladders, NEW p \in DOMAIN book[l], NEW i \in 1..Len(book[l][p].openOrders)
      PROVE  book[l][p].openOrders[i].orderId # id
  <2>1. PICK side \in Sides : l = LadderOf(side)
    BY DEF Ladders, Sides, LadderOf
  <2>2. PICK o \in S : /\ o.orderId = book[LadderOf(side)][p].openOrders[i].orderId
                       /\ o.marketId = k
    BY <2>1 DEF Stems
  <2>3. QED
    BY <2>1, <2>2
<1>2. QED
  BY <1>1 DEF Absent

\* What a taker that is new to the book makes of the quantity of any order: what was
\* traded, rests and is released afterwards is what rested, and what is new.
LEMMA OrderHolds ==
  ASSUME NEW U, NEW I, NEW P \in SUBSET Nat, NEW book \in Book(U, I, P),
         NEW taker, Taker(taker, U, I, P), taker.orderType \in {"LIMIT", "MARKET"},
         Absent(book, taker.orderId), NEW id
  PROVE  LET m == Match(book, taker)
             new == SetLastTrade(RestLeftover(m.book, taker, m.remainingQty), m.fills)
             released == IF taker.orderType = "MARKET" THEN Asked(taker, m.remainingQty, id) ELSE 0
         IN  /\ m.fills \in Seq(Fill(I, P)) /\ m.remainingQty \in Nat /\ new \in Book(U, I, P)
             /\ TradedQty(m.fills, id) \in Nat
             /\ RestingQty(book, id) \in Nat /\ RestingQty(new, id) \in Nat
             /\ TradedQty(m.fills, id) + RestingQty(new, id) + released
                  = RestingQty(book, id) + Asked(taker, taker.qty, id)
             /\ id = taker.orderId /\ taker.orderType = "MARKET" => RestingQty(new, id) = 0
<1> DEFINE m == Match(book, taker)
           b1 == m.book
           n == m.remainingQty
           rested == RestLeftover(b1, taker, n)
           new == SetLastTrade(rested, m.fills)
           A1 == Asked(taker, n, id)
           A == Asked(taker, taker.qty, id)
           l == IF taker.orderType = "LIMIT" THEN A1 ELSE 0
           c == IF taker.orderType = "MARKET" THEN A1 ELSE 0
           T == TradedQty(m.fills, id)
           R0 == RestingQty(book, id)
           R1 == RestingQty(b1, id)
           R == RestingQty(new, id)
<1>1. BookMatched(m, book, taker, U, I, P)
  BY MatchSound
<1>2. T + R1 + A1 = R0 + A
  BY AbsentIsOwn, MatchHolds
<1> HIDE DEF m
<1>3. /\ b1 \in Book(U, I, P) /\ n \in Nat /\ m.fills \in Seq(Fill(I, P)) /\ FromBook(b1, book)
  BY <1>1 DEF BookMatched
<1> HIDE DEF b1, n
<1>4. RestingQty(rested, id) = R1 + l
  BY <1>3, RestHolds
<1>5. rested \in Book(U, I, P)
  BY <1>3, RestSound DEF RestDone
<1> HIDE DEF rested
<1>6. new \in Book(U, I, P) /\ new.bids = rested.bids /\ new.asks = rested.asks
  BY <1>3, <1>5, LastTradeSet
<1> HIDE DEF new
<1>7. R = R1 + l
  BY <1>4, <1>6 DEF RestingQty
<1>8. T \in Nat /\ R0 \in Nat /\ R1 \in Nat /\ R \in Nat
  BY <1>3, <1>6, TradedNat, RestingNat
<1>9. A1 \in Nat /\ A \in Nat /\ l + c = A1 /\ l \in Nat /\ c \in Nat
  BY <1>3 DEF Asked, Taker
<1>10. id = taker.orderId /\ taker.orderType = "MARKET" => R = 0
  <2> SUFFICES ASSUME id = taker.orderId, taker.orderType = "MARKET" PROVE R = 0
    OBVIOUS
  <2>1. R1 = 0
    <3>1. Absent(b1, id)
      BY <1>3, AbsentFrom
    <3>2. QED
      BY <1>3, <3>1, AbsentRests
  <2>2. l = 0
    OBVIOUS
  <2> HIDE DEF R, R1, l
  <2>3. QED
    BY <1>7, <2>1, <2>2
<1>11. T + R + c = R0 + A
  <2> HIDE DEF T, R, R0, R1, A, A1, l, c
  <2>1. QED
    BY <1>2, <1>7, <1>8, <1>9
<1>12. QED
  BY <1>3, <1>6, <1>8, <1>10, <1>11 DEF b1, n, m, rested, new

\* Only the ranks of the ids in the book matter.
LEMMA RankedAgain ==
  ASSUME NEW book, NEW rows, Everywhere(book, rows), NEW r0, NEW r1,
         \A id \in rows : r1[id] = r0[id], RankedBook(book, r0)
  PROVE  RankedBook(book, r1)
<1>1. ASSUME NEW l \in Ladders, NEW p \in DOMAIN book[l]
      PROVE  Ranked(book[l][p].openOrders, r1)
  <2> DEFINE q == book[l][p].openOrders
  <2>1. Ranked(q, r0)
    BY DEF RankedBook
  <2>2. \A i \in 1..Len(q) : q[i].orderId \in rows
    BY DEF Everywhere
  <2> HIDE DEF q
  <2>3. \A i \in 1..Len(q) : r1[q[i].orderId] = r0[q[i].orderId]
    BY <2>2
  <2>4. Ranked(q, r1)
    BY <2>1, <2>3 DEF Ranked
  <2>5. QED
    BY <2>4 DEF q
<1>2. QED
  BY <1>1 DEF RankedBook

\* An order that comes to rest, ranked after those of the book, goes to the end
\* of its queue.
LEMMA RankedRest ==
  ASSUME NEW U, NEW I, NEW P, NEW book \in Book(U, I, P), NEW taker, Taker(taker, U, I, P),
         NEW remaining \in Nat, NEW rank, RankedBook(book, rank), NEW rows, Everywhere(book, rows),
         \A id \in rows : rank[id] < rank[taker.orderId]
  PROVE  RankedBook(RestLeftover(book, taker, remaining), rank)
<1> DEFINE side == LadderOf(taker.side)
           price == taker.price
           row == Leftover(taker, remaining)
           L == book[side]
           R == Rested(L, price, row)
           N == [book EXCEPT ![side] = R]
<1>1. CASE ~(remaining > 0 /\ taker.orderType = "LIMIT")
  <2>1. RestLeftover(book, taker, remaining) = book
    BY <1>1 DEF RestLeftover
  <2>2. QED
    BY <2>1
<1>2. CASE remaining > 0 /\ taker.orderType = "LIMIT"
  <2>1. RestLeftover(book, taker, remaining) = N
    BY <1>2 DEF RestLeftover, RestOrder, Rested, Leftover
  <2>2. side \in Ladders
    BY SidesAre DEF Taker, Ladders
  <2>3. L \in Ladder(U, I, P) /\ row.orderId = taker.orderId
    BY <2>2 DEF Book, Ladders, Leftover
  <2>4. /\ \A p \in DOMAIN L : Ranked(L[p].openOrders, rank)
        /\ \A p \in DOMAIN L : \A i \in 1..Len(L[p].openOrders) : L[p].openOrders[i].orderId \in rows
    BY <2>2 DEF RankedBook, Everywhere
  <2> DEFINE level == IF price \in DOMAIN L THEN L[price] ELSE EmptyLevel
             q == level.openOrders
  <2>5. R = [p \in DOMAIN L \cup {price} |-> IF p = price THEN Push(level, row) ELSE L[p]]
    BY DEF Rested
  <2>6. /\ q \in Seq(Row(U, I)) /\ Ranked(q, rank)
        /\ \A i \in 1..Len(q) : q[i].orderId \in rows
    <3>1. CASE price \in DOMAIN L
      <4>1. L[price] \in GoodLevel(U, I)
        BY <2>3, <3>1, LadderHas
      <4>2. L[price].openOrders \in Seq(Row(U, I))
        BY <4>1 DEF GoodLevel, Level
      <4> HIDE DEF L
      <4>3. QED
        BY <2>4, <3>1, <4>2
    <3>2. CASE price \notin DOMAIN L
      <4>1. q = <<>>
        BY <3>2 DEF EmptyLevel
      <4> HIDE DEF q
      <4>2. QED
        BY <4>1, EmptySeq DEF Ranked
    <3>3. QED
      BY <3>1, <3>2
  <2>7. Push(level, row).openOrders = Append(q, row)
    BY DEF Push
  <2> HIDE DEF L, row, level, q
  <2>8. Ranked(Append(q, row), rank)
    <3> DEFINE b == Append(q, row)
               n == Len(q)
    <3>1. n \in Nat /\ Len(b) = n + 1 /\ b[n + 1] = row /\ \A j \in 1..n : b[j] = q[j]
      BY <2>6, LenProperties, AppendProperties
    <3> HIDE DEF b
    <3>2. ASSUME NEW i \in 1..Len(b), NEW j \in 1..Len(b), i < j
          PROVE  rank[b[i].orderId] < rank[b[j].orderId]
      <4>1. i \in 1..n /\ (j \in 1..n \/ j = n + 1)
        <5> HIDE DEF n
        <5>1. QED
          BY <3>1, <3>2
      <4>2. CASE j \in 1..n
        BY <2>6, <3>1, <3>2, <4>1, <4>2 DEF Ranked
      <4>3. CASE j = n + 1
        BY <2>3, <2>6, <3>1, <4>1, <4>3
      <4>4. QED
        BY <4>1, <4>2, <4>3
    <3>3. QED
      BY <3>2 DEF Ranked, b
  <2>9. ASSUME NEW p \in DOMAIN R PROVE Ranked(R[p].openOrders, rank)
    <3>1. CASE p = price
      <4>1. R[p] = Push(level, row)
        BY <2>5, <3>1
      <4>2. QED
        BY <2>7, <2>8, <4>1
    <3>2. CASE p # price
      <4>1. p \in DOMAIN L /\ R[p] = L[p]
        BY <2>5, <3>2
      <4>2. QED
        BY <2>4, <4>1
    <3>3. QED
      BY <3>1, <3>2
  <2> HIDE DEF R
  <2>10. \A l \in Ladders : N[l] = IF l = side THEN R ELSE book[l]
    BY <2>2 DEF Book, Ladders
  <2> HIDE DEF N
  <2>11. RankedBook(N, rank)
    <3>1. ASSUME NEW l \in Ladders, NEW p \in DOMAIN N[l] PROVE Ranked(N[l][p].openOrders, rank)
      <4>1. CASE l = side
        BY <2>9, <2>10, <3>1, <4>1
      <4>2. CASE l # side
        BY <2>10, <3>1, <4>2 DEF RankedBook
      <4>3. QED
        BY <4>1, <4>2
    <3>2. QED
      BY <3>1 DEF RankedBook
  <2>12. QED
    BY <2>1, <2>11
<1>3. QED
  BY <1>1, <1>2

\* An order that rests in one queue only, which is ordered, is gone from the book
\* once it is removed.
LEMMA RemovedIsGone ==
  ASSUME NEW U, NEW I, NEW P, NEW book \in Book(U, I, P), NEW side \in Sides,
         NEW price, NEW id, NEW x \in RemovedOrders(book, side, price, id),
         NEW rank \in [I -> Nat], RankedBook(book, rank),
         \A l \in Ladders : \A p \in DOMAIN book[l] :
           ~(l = LadderOf(side) /\ p = price) =>
             \A i \in 1..Len(book[l][p].openOrders) : book[l][p].openOrders[i].orderId # id
  PROVE  Absent(RemoveOrder(book, side, price, id), id)
<1> DEFINE l == LadderOf(side)
           L == book[l]
           i == QueueIndex(L, price, id)
           level == L[price]
           q == level.openOrders
           u == Unlist(level, i)
           S == SetLevel(L, price, u)
           N == [book EXCEPT ![l] = S]
           r == RemoveAt(q, i)
<1>1. l \in Ladders
  BY SidesAre DEF Ladders
<1>2. L \in Ladder(U, I, P)
  BY <1>1 DEF Book, Ladders
<1>3. i # 0
  BY DEF RemovedOrders
<1>4. RemoveOrder(book, side, price, id) = N
  BY <1>3 DEF RemoveOrder
<1>5. \A m \in Ladders : N[m] = IF m = l THEN S ELSE book[m]
  BY <1>1 DEF Book, Ladders
<1>6. price \in DOMAIN L
  BY <1>3 DEF QueueIndex
<1>7. Ranked(q, rank)
  BY <1>1, <1>6 DEF RankedBook
<1>8. \A p \in DOMAIN L : p # price => \A k \in 1..Len(L[p].openOrders) : L[p].openOrders[k].orderId # id
  BY <1>1
<1> HIDE DEF L
<1>9. level \in GoodLevel(U, I)
  BY <1>2, <1>6, LadderHas
<1>10. q \in Seq(Row(U, I)) /\ Len(q) \in Nat /\ \A k \in 1..Len(q) : q[k] \in Row(U, I)
  BY <1>9, LenProperties, ElementOfSeq DEF GoodLevel, Level
<1>11. i \in 1..Len(q) /\ q[i].orderId = id
  BY <1>3, <1>6, <1>10, Selected
<1> HIDE DEF i, level
<1>12. /\ u \in Level(U, I) /\ u.openOrders = r /\ u.availableQty = QtyOf(r)
       /\ \A k \in 1..Len(r) : Fillable(r[k]) > 0
  BY <1>9, <1>11, UnlistGood DEF LeftOf
<1>13. Len(r) = Len(q) - 1 /\ \A k \in 1..(Len(q) - 1) : r[k] = IF k < i THEN q[k] ELSE q[k+1]
  BY <1>10, <1>11, Removed
<1> HIDE DEF q, u, r
<1>14. ASSUME NEW k \in 1..Len(r) PROVE r[k].orderId # id
  <2>1. PICK j \in 1..Len(q) : r[k] = q[j] /\ j # i
    <3>1. CASE k < i
      <4>1. k \in 1..Len(q) /\ k # i /\ r[k] = q[k]
        BY <1>10, <1>11, <1>13, <3>1
      <4>2. QED
        BY <4>1
    <3>2. CASE ~(k < i)
      <4>1. k + 1 \in 1..Len(q) /\ k + 1 # i /\ r[k] = q[k + 1]
        BY <1>10, <1>11, <1>13, <3>2
      <4>2. QED
        BY <4>1
    <3>3. QED
      BY <3>1, <3>2
  <2>2. q[j].orderId \in I /\ q[i].orderId \in I
    BY <1>10, <1>11 DEF Row
  <2>3. j < i \/ i < j
    BY <1>10, <1>11, <2>1
  <2>4. rank[q[j].orderId] < rank[q[i].orderId] \/ rank[q[i].orderId] < rank[q[j].orderId]
    BY <1>7, <1>11, <2>3 DEF Ranked
  <2>5. rank[q[j].orderId] \in Nat
    BY <2>2
  <2>6. q[j].orderId # q[i].orderId
    BY <2>4, <2>5
  <2>7. QED
    BY <1>11, <2>1, <2>6
<1>15. /\ DOMAIN S \subseteq DOMAIN L
       /\ \A p \in DOMAIN L : p # price => p \in DOMAIN S /\ S[p] = L[p]
       /\ price \in DOMAIN S => S[price] = u
  <2>1. u.availableQty = QtyOf(u.openOrders) /\ \A k \in 1..Len(u.openOrders) : Fillable(u.openOrders[k]) > 0
    BY <1>12
  <2>2. QED
    BY <1>2, <1>6, <1>12, <2>1, LevelSet
<1> HIDE DEF S
<1>16. ASSUME NEW p \in DOMAIN S, NEW k \in 1..Len(S[p].openOrders)
       PROVE  S[p].openOrders[k].orderId # id
  <2>1. CASE p = price
    BY <1>12, <1>14, <1>15, <1>16, <2>1
  <2>2. CASE p # price
    BY <1>8, <1>15, <1>16, <2>2
  <2>3. QED
    BY <2>1, <2>2
<1> HIDE DEF N
<1>17. Absent(N, id)
  <2>1. ASSUME NEW m \in Ladders, NEW p \in DOMAIN N[m], NEW k \in 1..Len(N[m][p].openOrders)
        PROVE  N[m][p].openOrders[k].orderId # id
    <3>1. CASE m = l
      BY <1>5, <1>16, <2>1, <3>1
    <3>2. CASE m # l
      BY <1>5, <2>1, <3>2
    <3>3. QED
      BY <3>1, <3>2
  <2>2. QED
    BY <2>1 DEF Absent
<1>18. QED
  BY <1>4, <1>17
=============================================================================
