-------------------------------- MODULE Sums --------------------------------
(***************************************************************************)
(* Lemmas about SumFunction, the sum of a function over its finite domain: *)
(* shares of a round, amounts of a credit log, counts of proofs.           *)
(*                                                                         *)
(* SumFunction is a fold: it takes one element of a set after another, as  *)
(* CHOOSE has it.  Induction is over sets here, not over formulas: what is *)
(* to be shown of every subset is the membership in a set Q.               *)
(***************************************************************************)
EXTENDS Integers, FiniteSets, Functions, FiniteSetTheorems, WellFoundedInduction, TLAPS

-----------------------------------------------------------------------------
(***************************************************************************)
(* Induction.                                                              *)
(***************************************************************************)
\* The least element of a set of naturals: < is well-founded on Nat.
LEMMA LeastNatural ==
    ASSUME NEW N, N \subseteq Nat, N # {}
    PROVE  \E n \in N : \A m \in N : n <= m
  <1>1. PICK n \in N : \A m \in N : ~ (<<m, n>> \in OpToRel(<, Nat))
    BY WFMin, NatLessThanWellFounded, Zenon
  <1>2. \A m \in N : ~ (m < n)
    BY <1>1, Zenon DEF OpToRel
  <1> QED
    BY <1>2

\* A set to which every subset of S belongs, once all its subsets with one
\* element less do.
LEMMA SubsetInduction ==
    ASSUME NEW S, IsFiniteSet(S), NEW Q,
           \A T \in SUBSET S : (\A x \in T : T \ {x} \in Q) => T \in Q
    PROVE  SUBSET S \subseteq Q
  <1> DEFINE sizes == {Cardinality(T) : T \in (SUBSET S) \ Q}
  <1>1. SUFFICES ASSUME sizes # {} PROVE FALSE
    OBVIOUS
  <1>2. sizes \subseteq Nat
    BY FS_Subset, FS_CardinalityType
  <1>3. PICK n \in sizes : \A m \in sizes : n <= m
    BY <1>1, <1>2, LeastNatural
  <1>4. PICK T \in (SUBSET S) \ Q : n = Cardinality(T)
    BY <1>3
  <1>5. PICK x \in T : T \ {x} \notin Q
    BY <1>4
  <1>6. Cardinality(T \ {x}) = n - 1
    BY <1>4, <1>5, FS_Subset, FS_RemoveElement
  <1>7. n - 1 \in sizes
    BY <1>4, <1>5, <1>6
  <1> QED
    BY <1>2, <1>3, <1>7

-----------------------------------------------------------------------------
(***************************************************************************)
(* The sums over all subsets, each from one with an element less.          *)
(***************************************************************************)
AnyOf(T) == CHOOSE x \in T : TRUE

\* g gives every subset of S the sum of f over it.
Adds(g, f, S) ==
    g = [T \in SUBSET S |-> IF T = {} THEN 0 ELSE f[AnyOf(T)] + g[T \ {AnyOf(T)}]]

\* There is such a g: by induction over the size of the subsets.
LEMMA SumsExist ==
    ASSUME NEW S, IsFiniteSet(S), NEW f
    PROVE  \E g : Adds(g, f, S)
  <1> DEFINE Small(n) == {T \in SUBSET S : Cardinality(T) <= n}
             Step(g, T) == IF T = {} THEN 0 ELSE f[AnyOf(T)] + g[T \ {AnyOf(T)}]
             Done(n) == \E g : g = [T \in Small(n) |-> Step(g, T)]
             bad == {n \in Nat : ~Done(n)}
  <1>0. \A T \in SUBSET S : IsFiniteSet(T) /\ Cardinality(T) \in Nat
    BY FS_Subset, FS_CardinalityType
  <1>1. Done(0)
    <2>1. Small(0) = {{}}
      BY <1>0, FS_EmptySet
    <2> DEFINE g == [T \in {{}} |-> 0]
    <2>2. g = [T \in Small(0) |-> Step(g, T)]
      BY <2>1
    <2> QED
      BY <2>2
  <1>2. ASSUME NEW n \in Nat, Done(n) PROVE Done(n + 1)
    <2>1. PICK g : g = [T \in Small(n) |-> Step(g, T)]
      BY <1>2
    <2> DEFINE h == [T \in Small(n + 1) |-> Step(g, T)]
    <2>2. \A T \in Small(n) : T \in Small(n + 1) /\ h[T] = g[T]
      <3> TAKE T \in Small(n)
      <3>1. T \in Small(n + 1)
        BY <1>0
      <3>2. g[T] = Step(g, T)
        BY <2>1
      <3> QED
        BY <3>1, <3>2
    <2>3. \A T \in Small(n + 1) : T # {} => T \ {AnyOf(T)} \in Small(n)
      <3> TAKE T \in Small(n + 1)
      <3> HAVE T # {}
      <3>1. AnyOf(T) \in T
        BY DEF AnyOf
      <3>2. Cardinality(T \ {AnyOf(T)}) = Cardinality(T) - 1
        BY <1>0, <3>1, FS_RemoveElement
      <3> QED
        BY <1>0, <3>2
    <2>4. \A T \in Small(n + 1) : Step(g, T) = Step(h, T)
      BY <2>2, <2>3
    <2>5. h = [T \in Small(n + 1) |-> Step(h, T)]
      BY <2>4
    <2> QED
      BY <2>5
  <1> HIDE DEF Done
  <1>3. bad = {}
    <2> SUFFICES ASSUME bad # {} PROVE FALSE
      OBVIOUS
    <2>1. PICK n \in bad : \A m \in bad : n <= m
      BY LeastNatural
    <2>2. n \in Nat /\ n # 0 /\ ~Done(n)
      BY <2>1, <1>1
    <2>3. n - 1 \in Nat /\ Done(n - 1)
      BY <2>1, <2>2
    <2>4. Done((n - 1) + 1)
      BY <2>3, <1>2
    <2> QED
      BY <2>2, <2>4
  <1>4. Done(Cardinality(S))
    BY <1>0, <1>3
  <1>5. Small(Cardinality(S)) = SUBSET S
    BY FS_Subset
  <1> QED
    BY <1>4, <1>5 DEF Adds, Done

\* The function that the fold chooses is one.
LEMMA SumIsLast ==
    ASSUME NEW f, IsFiniteSet(DOMAIN f)
    PROVE  \E g : Adds(g, f, DOMAIN f) /\ SumFunction(f) = g[DOMAIN f]
  <1> DEFINE S == DOMAIN f
             iter == CHOOSE g : g = [T \in SUBSET S |->
                        IF T = {} THEN 0
                        ELSE f[CHOOSE x \in T : TRUE] + g[T \ {CHOOSE x \in T : TRUE}]]
  <1>1. SumFunction(f) = iter[S]
    BY DEF SumFunction, SumFunctionOnSet, FoldFunctionOnSet, MapThenFoldSet
  <1>2. \E g : Adds(g, f, S)
    BY SumsExist
  <1>3. Adds(iter, f, S)
    BY <1>2, Zenon DEF Adds, AnyOf
  <1> QED
    BY <1>1, <1>3

\* Sums of integers, without the order in which they are taken.
Sums(g, f, S) ==
    /\ g \in [SUBSET S -> Int]
    /\ g[{}] = 0
    /\ \A T \in SUBSET S : \A x \in T : g[T] = f[x] + g[T \ {x}]

\* Sums of integers are integers.
LEMMA AddsInts ==
    ASSUME NEW S, IsFiniteSet(S), NEW f \in [S -> Int], NEW g, Adds(g, f, S)
    PROVE  g \in [SUBSET S -> Int]
  <1> DEFINE Q == {T \in SUBSET S : g[T] \in Int}
  <1>1. ASSUME NEW T \in SUBSET S, \A x \in T : T \ {x} \in Q PROVE T \in Q
    <2>1. CASE T = {}
      BY <2>1 DEF Adds
    <2>2. CASE T # {}
      <3>1. AnyOf(T) \in T
        BY <2>2 DEF AnyOf
      <3>2. g[T] = f[AnyOf(T)] + g[T \ {AnyOf(T)}]
        BY <2>2 DEF Adds
      <3> QED
        BY <1>1, <3>1, <3>2
    <2> QED
      BY <2>1, <2>2
  <1>2. SUBSET S \subseteq Q
    <2>1. \A T \in SUBSET S : (\A x \in T : T \ {x} \in Q) => T \in Q
      BY <1>1
    <2> HIDE DEF Q
    <2> QED
      BY <2>1, SubsetInduction
  <1>3. g = [T \in SUBSET S |-> g[T]]
    BY DEF Adds
  <1> QED
    BY <1>2, <1>3

\* Any element of a set may be the one that is split off.
LEMMA AddsSums ==
    ASSUME NEW S, IsFiniteSet(S), NEW f \in [S -> Int], NEW g, Adds(g, f, S)
    PROVE  Sums(g, f, S)
  <1>1. g \in [SUBSET S -> Int]
    BY AddsInts
  <1>2. g[{}] = 0
    BY DEF Adds
  <1> DEFINE Q == {T \in SUBSET S : \A x \in T : g[T] = f[x] + g[T \ {x}]}
  <1>3. ASSUME NEW T \in SUBSET S, \A x \in T : T \ {x} \in Q PROVE T \in Q
    <2> SUFFICES ASSUME NEW x \in T PROVE g[T] = f[x] + g[T \ {x}]
      OBVIOUS
    <2> DEFINE y == AnyOf(T)
    <2>1. y \in T /\ g[T] = f[y] + g[T \ {y}]
      <3>1. y \in T
        BY DEF AnyOf
      <3> QED
        BY <3>1 DEF Adds
    <2> HIDE DEF y
    <2>2. CASE x = y
      BY <2>1, <2>2
    <2>3. CASE x # y
      <3>1. g[T \ {y}] = f[x] + g[(T \ {y}) \ {x}]
        BY <1>3, <2>1, <2>3
      <3>2. g[T \ {x}] = f[y] + g[(T \ {x}) \ {y}]
        BY <1>3, <2>1, <2>3
      <3>3. (T \ {y}) \ {x} = (T \ {x}) \ {y}
        OBVIOUS
      <3>4. /\ f[x] \in Int /\ f[y] \in Int
            /\ g[(T \ {y}) \ {x}] \in Int
        BY <1>1, <2>1
      <3>5. g[T] = f[y] + (f[x] + g[(T \ {y}) \ {x}])
        BY <2>1, <3>1
      <3>6. g[T \ {x}] = f[y] + g[(T \ {y}) \ {x}]
        BY <3>2, <3>3
      <3> DEFINE rest == g[(T \ {y}) \ {x}]
      <3> HIDE DEF rest
      <3>7. f[y] + (f[x] + rest) = f[x] + (f[y] + rest)
        BY <3>4 DEF rest
      <3> QED
        BY ONLY <3>5, <3>6, <3>7 DEF rest
    <2> QED
      BY <2>2, <2>3
  <1>4. SUBSET S \subseteq Q
    <2>1. \A T \in SUBSET S : (\A x \in T : T \ {x} \in Q) => T \in Q
      BY <1>3
    <2> HIDE DEF Q
    <2> QED
      BY <2>1, SubsetInduction
  <1> QED
    BY <1>1, <1>2, <1>4 DEF Sums

\* SumFunction, free of CHOOSE: what all lemmas below start from.
LEMMA SumOf ==
    ASSUME NEW S, IsFiniteSet(S), NEW f \in [S -> Int]
    PROVE  \E g : Sums(g, f, S) /\ SumFunction(f) = g[S]
  BY SumIsLast, AddsSums

-----------------------------------------------------------------------------
(***************************************************************************)
(* What the proofs of the model need.                                      *)
(***************************************************************************)
\* The type of a sum.
LEMMA SumInt ==
    ASSUME NEW S, IsFiniteSet(S), NEW f \in [S -> Int]
    PROVE  SumFunction(f) \in Int
  <1>1. PICK g : Sums(g, f, S) /\ SumFunction(f) = g[S]
    BY SumOf
  <1>2. S \in SUBSET S
    OBVIOUS
  <1> QED
    BY <1>1, <1>2 DEF Sums

\* Sums are compared element by element.
LEMMA SumMonotone ==
    ASSUME NEW S, IsFiniteSet(S), NEW f \in [S -> Int], NEW h \in [S -> Int],
           \A x \in S : f[x] <= h[x]
    PROVE  SumFunction(f) <= SumFunction(h)
  <1>1. PICK g : Sums(g, f, S) /\ SumFunction(f) = g[S]
    BY SumOf
  <1>2. PICK k : Sums(k, h, S) /\ SumFunction(h) = k[S]
    BY SumOf
  <1> DEFINE Q == {T \in SUBSET S : g[T] <= k[T]}
  <1>3. ASSUME NEW T \in SUBSET S, \A x \in T : T \ {x} \in Q PROVE T \in Q
    <2>1. CASE T = {}
      BY <1>1, <1>2, <2>1 DEF Sums
    <2>2. ASSUME NEW x \in T PROVE T \in Q
      <3>1. g[T] = f[x] + g[T \ {x}] /\ k[T] = h[x] + k[T \ {x}]
        BY <1>1, <1>2, <2>2 DEF Sums
      <3>2. /\ f[x] \in Int /\ h[x] \in Int /\ f[x] <= h[x]
            /\ g[T \ {x}] \in Int /\ k[T \ {x}] \in Int
        BY <1>1, <1>2, <2>2 DEF Sums
      <3>3. g[T \ {x}] <= k[T \ {x}]
        BY <1>3, <2>2
      <3> QED
        BY <3>1, <3>2, <3>3
    <2> QED
      BY <2>1, <2>2
  <1>4. SUBSET S \subseteq Q
    <2>1. \A T \in SUBSET S : (\A x \in T : T \ {x} \in Q) => T \in Q
      BY <1>3
    <2> HIDE DEF Q
    <2> QED
      BY <2>1, SubsetInduction
  <1> QED
    BY <1>1, <1>2, <1>4

\* The sum of sums.
LEMMA SumPlus ==
    ASSUME NEW S, IsFiniteSet(S), NEW f \in [S -> Int], NEW h \in [S -> Int]
    PROVE  SumFunction([x \in S |-> f[x] + h[x]]) = SumFunction(f) + SumFunction(h)
  <1> DEFINE u == [x \in S |-> f[x] + h[x]]
  <1>u. u \in [S -> Int]
    OBVIOUS
  <1>1. PICK g : Sums(g, f, S) /\ SumFunction(f) = g[S]
    BY SumOf
  <1>2. PICK k : Sums(k, h, S) /\ SumFunction(h) = k[S]
    BY SumOf
  <1>3. PICK v : Sums(v, u, S) /\ SumFunction(u) = v[S]
    BY <1>u, SumOf
  <1>4. \A x \in S : u[x] = f[x] + h[x]
    OBVIOUS
  <1> HIDE DEF u
  <1> DEFINE Q == {T \in SUBSET S : v[T] = g[T] + k[T]}
  <1>5. ASSUME NEW T \in SUBSET S, \A x \in T : T \ {x} \in Q PROVE T \in Q
    <2>1. CASE T = {}
      BY <1>1, <1>2, <1>3, <2>1 DEF Sums
    <2>2. ASSUME NEW x \in T PROVE T \in Q
      <3>1. g[T] = f[x] + g[T \ {x}] /\ k[T] = h[x] + k[T \ {x}] /\ v[T] = u[x] + v[T \ {x}]
        BY <1>1, <1>2, <1>3, <2>2 DEF Sums
      <3>2. /\ f[x] \in Int /\ h[x] \in Int /\ u[x] = f[x] + h[x]
            /\ g[T \ {x}] \in Int /\ k[T \ {x}] \in Int
        BY <1>1, <1>2, <1>4, <2>2 DEF Sums
      <3>3. v[T \ {x}] = g[T \ {x}] + k[T \ {x}]
        BY <1>5, <2>2
      <3> QED
        BY <3>1, <3>2, <3>3
    <2> QED
      BY <2>1, <2>2
  <1>6. SUBSET S \subseteq Q
    <2>1. \A T \in SUBSET S : (\A x \in T : T \ {x} \in Q) => T \in Q
      BY <1>5
    <2> HIDE DEF Q
    <2> QED
      BY <2>1, SubsetInduction
  <1>7. SumFunction(u) = SumFunction(f) + SumFunction(h)
    BY <1>1, <1>2, <1>3, <1>6
  <1> QED
    BY <1>7 DEF u

\* The sum of differences.
LEMMA SumMinus ==
    ASSUME NEW S, IsFiniteSet(S), NEW f \in [S -> Int], NEW h \in [S -> Int]
    PROVE  SumFunction([x \in S |-> f[x] - h[x]]) = SumFunction(f) - SumFunction(h)
  <1> DEFINE u == [x \in S |-> f[x] - h[x]]
  <1>1. u \in [S -> Int]
    OBVIOUS
  <1>2. f = [x \in S |-> u[x] + h[x]]
    OBVIOUS
  <1> HIDE DEF u
  <1>3. SumFunction(f) = SumFunction(u) + SumFunction(h)
    BY <1>1, <1>2, SumPlus
  <1>4. SumFunction(f) \in Int /\ SumFunction(u) \in Int /\ SumFunction(h) \in Int
    BY <1>1, SumInt
  <1>5. SumFunction(u) = SumFunction(f) - SumFunction(h)
    BY <1>3, <1>4
  <1> QED
    BY <1>5 DEF u

\* A sum with one term that counts.
LEMMA SumSingle ==
    ASSUME NEW S, IsFiniteSet(S), NEW f \in [S -> Int], NEW a \in S,
           \A x \in S \ {a} : f[x] = 0
    PROVE  SumFunction(f) = f[a]
  <1>1. PICK g : Sums(g, f, S) /\ SumFunction(f) = g[S]
    BY SumOf
  <1> DEFINE Q == {T \in SUBSET S : g[T] = IF a \in T THEN f[a] ELSE 0}
  <1>2. ASSUME NEW T \in SUBSET S, \A x \in T : T \ {x} \in Q PROVE T \in Q
    <2>1. CASE T = {}
      BY <1>1, <2>1 DEF Sums
    <2>2. ASSUME NEW x \in T PROVE T \in Q
      <3>1. g[T] = f[x] + g[T \ {x}]
        BY <1>1, <2>2 DEF Sums
      <3>2. g[T \ {x}] = IF a \in T \ {x} THEN f[a] ELSE 0
        BY <1>2, <2>2
      <3>3. f[a] \in Int /\ (x # a => f[x] = 0)
        BY <2>2
      <3> QED
        BY <3>1, <3>2, <3>3
    <2> QED
      BY <2>1, <2>2
  <1>3. SUBSET S \subseteq Q
    <2>1. \A T \in SUBSET S : (\A x \in T : T \ {x} \in Q) => T \in Q
      BY <1>2
    <2> HIDE DEF Q
    <2> QED
      BY <2>1, SubsetInduction
  <1> QED
    BY <1>1, <1>3

\* A sum of nothing.
LEMMA SumZero ==
    ASSUME NEW S, IsFiniteSet(S), NEW f, f = [x \in S |-> 0]
    PROVE  SumFunction(f) = 0
  <1>1. f \in [S -> Int] /\ \A x \in S : f[x] = 0
    OBVIOUS
  <1>2. PICK g : Sums(g, f, S) /\ SumFunction(f) = g[S]
    BY <1>1, SumOf
  <1>3. CASE S = {}
    BY <1>2, <1>3 DEF Sums
  <1>4. CASE S # {}
    BY <1>1, <1>4, SumSingle
  <1> QED
    BY <1>3, <1>4

\* A sum of naturals is a natural.
LEMMA SumNat ==
    ASSUME NEW S, IsFiniteSet(S), NEW f \in [S -> Nat]
    PROVE  SumFunction(f) \in Nat
  <1> DEFINE z == [x \in S |-> 0]
  <1>1. f \in [S -> Int] /\ z \in [S -> Int] /\ \A x \in S : z[x] <= f[x]
    OBVIOUS
  <1>2. SumFunction(z) = 0
    BY SumZero
  <1>3. SumFunction(z) <= SumFunction(f)
    BY <1>1, SumMonotone
  <1> QED
    BY <1>1, <1>2, <1>3, SumInt

\* One term changes.
LEMMA SumUpdate ==
    ASSUME NEW S, IsFiniteSet(S), NEW f \in [S -> Int], NEW a \in S, NEW v \in Int
    PROVE  SumFunction([f EXCEPT ![a] = v]) = SumFunction(f) - f[a] + v
  <1> DEFINE d == [x \in S |-> IF x = a THEN v - f[a] ELSE 0]
  <1>1. d \in [S -> Int]
    OBVIOUS
  <1>2. SumFunction(d) = v - f[a]
    <2>1. d[a] = v - f[a] /\ \A x \in S \ {a} : d[x] = 0
      OBVIOUS
    <2> HIDE DEF d
    <2> QED
      BY <1>1, <2>1, SumSingle
  <1>3. [f EXCEPT ![a] = v] = [x \in S |-> f[x] + d[x]]
    <2>1. \A x \in S : (IF x = a THEN v ELSE f[x]) = f[x] + d[x]
      OBVIOUS
    <2> QED
      BY <2>1
  <1> HIDE DEF d
  <1>4. SumFunction([f EXCEPT ![a] = v]) = SumFunction(f) + SumFunction(d)
    BY <1>1, <1>3, SumPlus
  <1>5. SumFunction(f) \in Int /\ f[a] \in Int
    BY SumInt
  <1> QED
    BY <1>2, <1>4, <1>5

\* The same of two functions that differ in one term.
LEMMA SumChange ==
    ASSUME NEW S, IsFiniteSet(S), NEW f \in [S -> Int], NEW g \in [S -> Int], NEW a \in S,
           \A x \in S \ {a} : g[x] = f[x]
    PROVE  SumFunction(g) = SumFunction(f) - f[a] + g[a]
  <1>1. g = [f EXCEPT ![a] = g[a]] /\ g[a] \in Int
    OBVIOUS
  <1>2. \A v \in Int : SumFunction([f EXCEPT ![a] = v]) = SumFunction(f) - f[a] + v
    BY SumUpdate
  <1>3. SumFunction([f EXCEPT ![a] = g[a]]) = SumFunction(f) - f[a] + g[a]
    BY <1>1, <1>2, Zenon
  <1> QED
    BY <1>1, <1>3, Zenon

\* The domain gets one more element.
LEMMA SumExtend ==
    ASSUME NEW S, IsFiniteSet(S), NEW a, a \notin S, NEW f \in [S \cup {a} -> Int]
    PROVE  SumFunction(f) = SumFunction([x \in S |-> f[x]]) + f[a]
  <1> DEFINE U == S \cup {a}
             h == [x \in S |-> f[x]]
  <1>0. IsFiniteSet(U) /\ h \in [S -> Int] /\ \A x \in S : h[x] = f[x]
    BY FS_AddElement
  <1>1. PICK g : Sums(g, f, U) /\ SumFunction(f) = g[U]
    BY <1>0, SumOf
  <1>2. PICK k : Sums(k, h, S) /\ SumFunction(h) = k[S]
    BY <1>0, SumOf
  <1> HIDE DEF h
  <1> DEFINE Q == {T \in SUBSET S : g[T] = k[T]}
  <1>3. ASSUME NEW T \in SUBSET S, \A x \in T : T \ {x} \in Q PROVE T \in Q
    <2>1. CASE T = {}
      BY <1>1, <1>2, <2>1 DEF Sums
    <2>2. ASSUME NEW x \in T PROVE T \in Q
      <3>1. g[T] = f[x] + g[T \ {x}] /\ k[T] = h[x] + k[T \ {x}]
        BY <1>1, <1>2, <2>2 DEF Sums
      <3> QED
        BY <1>0, <1>3, <2>2, <3>1
    <2> QED
      BY <2>1, <2>2
  <1>4. SUBSET S \subseteq Q
    <2>1. \A T \in SUBSET S : (\A x \in T : T \ {x} \in Q) => T \in Q
      BY <1>3
    <2> HIDE DEF Q
    <2> QED
      BY <2>1, SubsetInduction
  <1>5. U \ {a} = S
    OBVIOUS
  <1>6. g[U] = f[a] + g[S]
    BY <1>1, <1>5 DEF Sums
  <1>7. g[S] = k[S] /\ k[S] \in Int /\ f[a] \in Int
    BY <1>2, <1>4 DEF Sums
  <1>8. SumFunction(f) = SumFunction(h) + f[a]
    BY <1>1, <1>2, <1>6, <1>7
  <1> QED
    BY <1>8 DEF h

\* A term of a sum of naturals is not more than the sum.
LEMMA TermInSum ==
    ASSUME NEW S, IsFiniteSet(S), NEW f \in [S -> Nat], NEW a \in S
    PROVE  f[a] <= SumFunction(f)
  <1> DEFINE d == [x \in S |-> IF x = a THEN f[a] ELSE 0]
  <1>1. d \in [S -> Int] /\ f \in [S -> Int] /\ d[a] = f[a]
        /\ \A x \in S \ {a} : d[x] = 0
    OBVIOUS
  <1>2. \A x \in S : d[x] <= f[x]
    OBVIOUS
  <1> HIDE DEF d
  <1> QED
    BY <1>1, <1>2, SumSingle, SumMonotone

\* A factor comes out of a sum.
LEMMA SumTimes ==
    ASSUME NEW S, IsFiniteSet(S), NEW f \in [S -> Int], NEW c \in Int
    PROVE  SumFunction([x \in S |-> c * f[x]]) = c * SumFunction(f)
  <1> DEFINE u == [x \in S |-> c * f[x]]
  <1>u. u \in [S -> Int] /\ \A x \in S : u[x] = c * f[x]
    OBVIOUS
  <1>1. PICK g : Sums(g, f, S) /\ SumFunction(f) = g[S]
    BY SumOf
  <1>2. PICK v : Sums(v, u, S) /\ SumFunction(u) = v[S]
    BY <1>u, SumOf
  <1> HIDE DEF u
  <1> DEFINE Q == {T \in SUBSET S : v[T] = c * g[T]}
  <1>3. ASSUME NEW T \in SUBSET S, \A x \in T : T \ {x} \in Q PROVE T \in Q
    <2>1. CASE T = {}
      BY <1>1, <1>2, <2>1 DEF Sums
    <2>2. ASSUME NEW x \in T PROVE T \in Q
      <3>1. g[T] = f[x] + g[T \ {x}] /\ v[T] = u[x] + v[T \ {x}]
        BY <1>1, <1>2, <2>2 DEF Sums
      <3>2. /\ f[x] \in Int /\ g[T \ {x}] \in Int /\ u[x] = c * f[x]
            /\ v[T \ {x}] = c * g[T \ {x}]
        BY <1>u, <1>1, <1>3, <2>2 DEF Sums
      <3>3. \A i, j \in Int : c * (i + j) = c * i + c * j
        BY SMT
      <3>4. c * (f[x] + g[T \ {x}]) = c * f[x] + c * g[T \ {x}]
        BY <3>2, <3>3
      <3> QED
        BY <3>1, <3>2, <3>4
    <2> QED
      BY <2>1, <2>2
  <1>4. SUBSET S \subseteq Q
    <2>1. \A T \in SUBSET S : (\A x \in T : T \ {x} \in Q) => T \in Q
      BY <1>3
    <2> HIDE DEF Q
    <2> QED
      BY <2>1, SubsetInduction
  <1>5. SumFunction(u) = c * SumFunction(f)
    BY <1>1, <1>2, <1>4
  <1> QED
    BY <1>5 DEF u

\* A sum of equal terms.
LEMMA SumConstant ==
    ASSUME NEW S, IsFiniteSet(S), NEW c \in Int
    PROVE  SumFunction([x \in S |-> c]) = c * Cardinality(S)
  <1> DEFINE u == [x \in S |-> c]
  <1>u. u \in [S -> Int] /\ \A x \in S : u[x] = c
    OBVIOUS
  <1>1. PICK v : Sums(v, u, S) /\ SumFunction(u) = v[S]
    BY <1>u, SumOf
  <1> HIDE DEF u
  <1> DEFINE Q == {T \in SUBSET S : v[T] = c * Cardinality(T)}
  <1>2. ASSUME NEW T \in SUBSET S, \A x \in T : T \ {x} \in Q PROVE T \in Q
    <2>1. CASE T = {}
      <3>1. v[T] = 0 /\ Cardinality(T) = 0
        BY <1>1, <2>1, FS_EmptySet DEF Sums
      <3> QED
        BY <3>1
    <2>2. ASSUME NEW x \in T PROVE T \in Q
      <3> DEFINE n == Cardinality(T \ {x})
      <3>1. Cardinality(T) = n + 1 /\ n \in Nat
        <4>1. IsFiniteSet(T) /\ IsFiniteSet(T \ {x})
          BY FS_Subset
        <4>2. Cardinality(T \ {x}) = Cardinality(T) - 1
          BY <4>1, <2>2, FS_RemoveElement
        <4>3. Cardinality(T) \in Nat /\ n \in Nat
          BY <4>1, FS_CardinalityType
        <4> QED
          BY <4>2, <4>3
      <3>2. v[T] = c + v[T \ {x}]
        BY <1>u, <1>1, <2>2 DEF Sums
      <3>3. v[T \ {x}] = c * n
        BY <1>2, <2>2
      <3> HIDE DEF n
      <3>4. c * (n + 1) = c + c * n
        BY <3>1, SMT
      <3> QED
        BY <3>1, <3>2, <3>3, <3>4
    <2> QED
      BY <2>1, <2>2
  <1>3. SUBSET S \subseteq Q
    <2>1. \A T \in SUBSET S : (\A x \in T : T \ {x} \in Q) => T \in Q
      BY <1>2
    <2> HIDE DEF Q
    <2> QED
      BY <2>1, SubsetInduction
  <1>4. SumFunction(u) = c * Cardinality(S)
    BY <1>1, <1>3
  <1> QED
    BY <1>4 DEF u
=============================================================================
