--------------------------------- MODULE Sums ---------------------------------
(***************************************************************************)
(* What the proofs of the accounts need to know of sums: SumFunctionOnSet   *)
(* of the community module Functions, over a finite set of orders, coins or *)
(* campaigns.  The ledgers keep their totals by adding differences; that    *)
(* the total is the sum of the parts rests on SumChange below.              *)
(***************************************************************************)
EXTENDS Integers, FiniteSets, FiniteSetsExt, FiniteSetTheorems, Functions, TLAPS

\* The element that the fold takes first.
Pick(t) == CHOOSE x \in t : TRUE

\* f adds the values of fun over the subsets of S, as the fold does.
IsSumOf(f, fun, S) ==
  f = [t \in SUBSET S |-> IF t = {} THEN 0 ELSE fun[Pick(t)] + f[t \ {Pick(t)}]]

\* Among the subsets of a finite set there is always a smallest one.  This is the
\* induction over finite sets that the lemmas below use.
LEMMA MinimalSet ==
  ASSUME NEW S, IsFiniteSet(S), NEW T \in SUBSET SUBSET S, T # {}
  PROVE  \E m \in T : \A t \in T : t \subseteq m => t = m
<1>1. IsWellFoundedOn(StrictSubsetOrdering(S), FiniteSubsetsOf(S))
  BY FS_StrictSubsetOrderingWellFounded
<1>2. T \subseteq FiniteSubsetsOf(S)
  BY FS_FiniteSubsetsOfFinite
<1>3. PICK m \in T : \A t \in T : <<t, m>> \notin StrictSubsetOrdering(S)
  BY <1>1, <1>2, WFMin
<1>4. QED
  BY <1>3 DEF StrictSubsetOrdering

\* The fold takes its elements from the set.
LEMMA PickIn == ASSUME NEW S, S # {} PROVE Pick(S) \in S
BY DEF Pick

\* The sum of Functions.tla is one that adds element by element.
LEMMA SumIsIteration ==
  ASSUME NEW S, NEW fun, NEW f, IsSumOf(f, fun, S), \A g : IsSumOf(g, fun, S) => g[S] = f[S]
  PROVE  SumFunctionOnSet(fun, S) = f[S]
<1> DEFINE it == CHOOSE iter : iter = [s \in SUBSET S |-> IF s = {} THEN 0
                                         ELSE LET x == CHOOSE x \in s : TRUE IN fun[x] + iter[s \ {x}]]
<1>1. SumFunctionOnSet(fun, S) = it[S]
  BY Zenon DEF SumFunctionOnSet, FoldFunctionOnSet, MapThenFoldSet
<1>2. IsSumOf(it, fun, S)
  <2>1. it = [s \in SUBSET S |-> IF s = {} THEN 0
                                         ELSE LET x == CHOOSE x \in s : TRUE IN fun[x] + it[s \ {x}]]
    BY Zenon DEF IsSumOf, Pick
  <2> QED BY <2>1 DEF IsSumOf, Pick
<1> QED BY <1>1, <1>2

\* Two such sums agree wherever both are defined.
LEMMA SumsAgree ==
  ASSUME NEW S, IsFiniteSet(S), NEW fun, NEW f, NEW g, NEW F, NEW G,
         S \subseteq F, S \subseteq G, IsSumOf(f, fun, F), IsSumOf(g, fun, G)
  PROVE  f[S] = g[S]
<1> DEFINE T == {t \in SUBSET S : f[t] # g[t]}
<1>1. SUFFICES ASSUME T # {} PROVE FALSE
  OBVIOUS
<1>2. PICK m \in T : \A t \in T : t \subseteq m => t = m
  <2>1. T \in SUBSET SUBSET S
    OBVIOUS
  <2> HIDE DEF T
  <2> QED BY <1>1, <2>1, MinimalSet
<1>3. CASE m = {}
  BY <1>2, <1>3 DEF IsSumOf
<1>4. CASE m # {}
  <2>1. m \ {Pick(m)} \subseteq m /\ m \ {Pick(m)} # m
    BY <1>4, PickIn
  <2>2. f[m \ {Pick(m)}] = g[m \ {Pick(m)}]
    BY <1>2, <2>1
  <2>3. f[m] = fun[Pick(m)] + f[m \ {Pick(m)}] /\ g[m] = fun[Pick(m)] + g[m \ {Pick(m)}]
    <3>1. m \in SUBSET F /\ m \in SUBSET G
      OBVIOUS
    <3>2. f[m] = fun[Pick(m)] + f[m \ {Pick(m)}]
      BY <1>4, <3>1, Zenon DEF IsSumOf
    <3>3. g[m] = fun[Pick(m)] + g[m \ {Pick(m)}]
      BY <1>4, <3>1, Zenon DEF IsSumOf
    <3> QED BY <3>2, <3>3
  <2> QED BY <1>2, <2>2, <2>3
<1> QED BY <1>3, <1>4

\* Every finite set has such a sum.
LEMMA SumExists ==
  ASSUME NEW S, IsFiniteSet(S), NEW fun
  PROVE  \E f : IsSumOf(f, fun, S)
<1> DEFINE T == {t \in SUBSET S : ~ \E f : IsSumOf(f, fun, t)}
           Of(t) == CHOOSE f : IsSumOf(f, fun, t)
<1>1. SUFFICES ASSUME T # {} PROVE FALSE
  OBVIOUS
<1>2. PICK m \in T : \A t \in T : t \subseteq m => t = m
  <2>1. T \in SUBSET SUBSET S
    OBVIOUS
  <2> HIDE DEF T
  <2> QED BY <1>1, <2>1, MinimalSet
<1> DEFINE F == [t \in SUBSET m |-> IF t = {} THEN 0 ELSE fun[Pick(t)] + Of(t \ {Pick(t)})[t \ {Pick(t)}]]
<1>3. \A t \in SUBSET m : t # m => IsSumOf(Of(t), fun, t)
  <2> TAKE t \in SUBSET m
  <2> HAVE t # m
  <2>1. \E f : IsSumOf(f, fun, t)
    BY <1>2
  <2> QED BY <2>1
<1>4. \A t \in SUBSET m : t # m => F[t] = Of(t)[t]
  <2> TAKE t \in SUBSET m
  <2> HAVE t # m
  <2>1. IsSumOf(Of(t), fun, t)
    BY <1>3
  <2>2. CASE t = {}
    BY <2>1, <2>2 DEF IsSumOf
  <2>3. CASE t # {}
    <3> DEFINE u == t \ {Pick(t)}
    <3>1. u \subseteq t /\ u # t /\ u # m /\ u \in SUBSET m
      BY <2>3, PickIn
    <3>2. IsFiniteSet(u)
      BY <3>1, FS_Subset
    <3>3. IsSumOf(Of(u), fun, u)
      BY <1>3, <3>1
    <3> HIDE DEF u
    <3>4. Of(t)[u] = Of(u)[u]
      BY <2>1, <3>1, <3>2, <3>3, SumsAgree
    <3>5. Of(t)[t] = fun[Pick(t)] + Of(t)[u]
      BY <2>1, <2>3, Zenon DEF IsSumOf, u
    <3>6. F[t] = fun[Pick(t)] + Of(u)[u]
      BY <2>3 DEF u
    <3> QED BY <3>4, <3>5, <3>6
  <2> QED BY <2>2, <2>3
<1>5. IsSumOf(F, fun, m)
  <2>1. ASSUME NEW t \in SUBSET m
        PROVE  F[t] = IF t = {} THEN 0 ELSE fun[Pick(t)] + F[t \ {Pick(t)}]
    <3>1. CASE t = {}
      BY <3>1
    <3>2. CASE t # {}
      <4>1. t \ {Pick(t)} \in SUBSET m /\ t \ {Pick(t)} # m
        BY <3>2, PickIn
      <4>2. F[t] = fun[Pick(t)] + Of(t \ {Pick(t)})[t \ {Pick(t)}]
        BY <3>2
      <4>3. F[t \ {Pick(t)}] = Of(t \ {Pick(t)})[t \ {Pick(t)}]
        BY <1>4, <4>1
      <4> HIDE DEF F, Of
      <4> QED BY <3>2, <4>2, <4>3
    <3> QED BY <3>1, <3>2
  <2>2. F = [t \in SUBSET m |-> F[t]]
    OBVIOUS
  <2> HIDE DEF F
  <2> DEFINE G == [t \in SUBSET m |-> IF t = {} THEN 0 ELSE fun[Pick(t)] + F[t \ {Pick(t)}]]
  <2>3. G = [t \in SUBSET m |-> F[t]]
    BY <2>1
  <2> QED BY <2>2, <2>3 DEF IsSumOf
<1> QED BY <1>2, <1>5

\* Nothing adds up to nothing.
LEMMA SumOfEmpty ==
  ASSUME NEW fun PROVE SumFunctionOnSet(fun, {}) = 0
<1>1. IsFiniteSet({})
  BY FS_EmptySet
<1>2. PICK f : IsSumOf(f, fun, {})
  BY <1>1, SumExists
<1>3. \A g : IsSumOf(g, fun, {}) => g[{}] = f[{}]
  BY <1>1, <1>2, SumsAgree
<1>4. f[{}] = 0
  BY <1>2 DEF IsSumOf
<1> QED BY <1>2, <1>3, <1>4, SumIsIteration

\* One step of the fold.
LEMMA SumPick ==
  ASSUME NEW S, IsFiniteSet(S), S # {}, NEW fun
  PROVE  SumFunctionOnSet(fun, S) = fun[Pick(S)] + SumFunctionOnSet(fun, S \ {Pick(S)})
<1> DEFINE R == S \ {Pick(S)}
<1>1. IsFiniteSet(R) /\ R \subseteq S
  BY FS_Subset
<1>2. PICK f : IsSumOf(f, fun, S)
  BY SumExists
<1>3. PICK g : IsSumOf(g, fun, R)
  BY <1>1, SumExists
<1>4. SumFunctionOnSet(fun, S) = f[S]
  <2>1. \A h : IsSumOf(h, fun, S) => h[S] = f[S]
    BY <1>2, SumsAgree
  <2> QED BY <1>2, <2>1, SumIsIteration
<1>5. SumFunctionOnSet(fun, R) = g[R]
  <2>1. \A h : IsSumOf(h, fun, R) => h[R] = g[R]
    BY <1>1, <1>3, SumsAgree
  <2> QED BY <1>3, <2>1, SumIsIteration
<1>6. f[R] = g[R]
  BY <1>1, <1>2, <1>3, SumsAgree
<1>7. f[S] = fun[Pick(S)] + f[R]
  BY <1>2, Zenon DEF IsSumOf
<1> QED BY <1>4, <1>5, <1>6, <1>7

\* The sum of integers is an integer.
LEMMA SumIsInt ==
  ASSUME NEW S, IsFiniteSet(S), NEW fun, \A x \in S : fun[x] \in Int
  PROVE  SumFunctionOnSet(fun, S) \in Int
<1> DEFINE T == {t \in SUBSET S : SumFunctionOnSet(fun, t) \notin Int}
<1>1. SUFFICES ASSUME T # {} PROVE FALSE
  OBVIOUS
<1>2. PICK m \in T : \A t \in T : t \subseteq m => t = m
  <2>1. T \in SUBSET SUBSET S
    OBVIOUS
  <2> HIDE DEF T
  <2> QED BY <1>1, <2>1, MinimalSet
<1>3. m # {}
  <2>1. SumFunctionOnSet(fun, {}) \in Int
    BY SumOfEmpty
  <2> QED BY <1>2, <2>1
<1>4. m \ {Pick(m)} \subseteq m /\ m \ {Pick(m)} # m /\ Pick(m) \in S
  BY <1>3, PickIn
<1>5. SumFunctionOnSet(fun, m \ {Pick(m)}) \in Int
  BY <1>2, <1>4
<1>6. SumFunctionOnSet(fun, m) = fun[Pick(m)] + SumFunctionOnSet(fun, m \ {Pick(m)})
  <2>1. IsFiniteSet(m)
    BY FS_Subset
  <2> QED BY <1>3, <2>1, SumPick
<1> QED BY <1>2, <1>4, <1>5, <1>6

\* Any element may be taken out first: the order of the fold does not matter.
LEMMA SumTake ==
  ASSUME NEW S, IsFiniteSet(S), NEW x \in S, NEW fun, \A y \in S : fun[y] \in Int
  PROVE  SumFunctionOnSet(fun, S) = fun[x] + SumFunctionOnSet(fun, S \ {x})
<1> DEFINE T == {t \in SUBSET S : \E y \in t :
                   SumFunctionOnSet(fun, t) # fun[y] + SumFunctionOnSet(fun, t \ {y})}
<1>1. SUFFICES ASSUME T # {} PROVE FALSE
  OBVIOUS
<1>2. PICK m \in T : \A t \in T : t \subseteq m => t = m
  <2>1. T \in SUBSET SUBSET S
    OBVIOUS
  <2> HIDE DEF T
  <2> QED BY <1>1, <2>1, MinimalSet
<1>3. PICK y \in m : SumFunctionOnSet(fun, m) # fun[y] + SumFunctionOnSet(fun, m \ {y})
  BY <1>2
<1> DEFINE p == Pick(m)
           R == m \ {p, y}
<1>4. IsFiniteSet(m) /\ p \in m /\ IsFiniteSet(R) /\ p \in S /\ y \in S
  BY FS_Subset, PickIn
<1>5. SumFunctionOnSet(fun, m) = fun[p] + SumFunctionOnSet(fun, m \ {p})
  BY <1>4, SumPick
<1>6. p # y
  BY <1>3, <1>5
<1>7. SumFunctionOnSet(fun, m \ {p}) = fun[y] + SumFunctionOnSet(fun, R)
  <2>1. m \ {p} \in SUBSET S /\ m \ {p} \subseteq m /\ m \ {p} # m /\ y \in m \ {p} /\ (m \ {p}) \ {y} = R
    BY <1>4, <1>6
  <2>2. m \ {p} \notin T
    BY <1>2, <2>1
  <2> QED BY <2>1, <2>2
<1>8. SumFunctionOnSet(fun, m \ {y}) = fun[p] + SumFunctionOnSet(fun, R)
  <2>1. m \ {y} \in SUBSET S /\ m \ {y} \subseteq m /\ m \ {y} # m /\ p \in m \ {y} /\ (m \ {y}) \ {p} = R
    BY <1>4, <1>6
  <2>2. m \ {y} \notin T
    BY <1>2, <2>1
  <2> QED BY <2>1, <2>2
<1>9. SumFunctionOnSet(fun, R) \in Int /\ fun[p] \in Int /\ fun[y] \in Int
  BY <1>4, SumIsInt
<1> HIDE DEF p, R
<1> QED BY <1>3, <1>5, <1>7, <1>8, <1>9

\* Only the values on the set matter.
LEMMA SumCongruent ==
  ASSUME NEW S, IsFiniteSet(S), NEW f, NEW g, \A x \in S : f[x] = g[x]
  PROVE  SumFunctionOnSet(f, S) = SumFunctionOnSet(g, S)
<1> DEFINE T == {t \in SUBSET S : SumFunctionOnSet(f, t) # SumFunctionOnSet(g, t)}
<1>1. SUFFICES ASSUME T # {} PROVE FALSE
  OBVIOUS
<1>2. PICK m \in T : \A t \in T : t \subseteq m => t = m
  <2>1. T \in SUBSET SUBSET S
    OBVIOUS
  <2> HIDE DEF T
  <2> QED BY <1>1, <2>1, MinimalSet
<1>3. m # {}
  BY <1>2, SumOfEmpty
<1> DEFINE p == Pick(m)
           R == m \ {p}
<1>4. IsFiniteSet(m) /\ p \in S /\ R \in SUBSET S /\ R \subseteq m /\ R # m
  BY <1>3, FS_Subset, PickIn
<1>5. SumFunctionOnSet(f, m) = f[p] + SumFunctionOnSet(f, R) /\ SumFunctionOnSet(g, m) = g[p] + SumFunctionOnSet(g, R)
  BY <1>3, <1>4, SumPick
<1>6. SumFunctionOnSet(f, R) = SumFunctionOnSet(g, R)
  BY <1>2, <1>4
<1> QED BY <1>2, <1>4, <1>5, <1>6

\* When one value changes, the sum changes by as much.
LEMMA SumChange ==
  ASSUME NEW S, IsFiniteSet(S), NEW x \in S, NEW f, NEW g,
         \A y \in S : f[y] \in Int /\ g[y] \in Int, \A y \in S \ {x} : g[y] = f[y]
  PROVE  SumFunctionOnSet(g, S) = SumFunctionOnSet(f, S) - f[x] + g[x]
<1> DEFINE R == S \ {x}
<1>1. IsFiniteSet(R) /\ R \subseteq S
  BY FS_Subset
<1>2. SumFunctionOnSet(f, S) = f[x] + SumFunctionOnSet(f, R) /\ SumFunctionOnSet(g, S) = g[x] + SumFunctionOnSet(g, R)
  BY SumTake
<1>3. SumFunctionOnSet(f, R) = SumFunctionOnSet(g, R)
  BY <1>1, SumCongruent
<1>4. SumFunctionOnSet(f, R) \in Int
  BY <1>1, SumIsInt
<1> QED BY <1>2, <1>3, <1>4

\* Larger values have a larger sum.
LEMMA SumMonotone ==
  ASSUME NEW S, IsFiniteSet(S), NEW f, NEW g,
         \A x \in S : f[x] \in Int /\ g[x] \in Int /\ f[x] <= g[x]
  PROVE  SumFunctionOnSet(f, S) <= SumFunctionOnSet(g, S)
<1> DEFINE T == {t \in SUBSET S : ~(SumFunctionOnSet(f, t) <= SumFunctionOnSet(g, t))}
<1>1. SUFFICES ASSUME T # {} PROVE FALSE
  OBVIOUS
<1>2. PICK m \in T : \A t \in T : t \subseteq m => t = m
  <2>1. T \in SUBSET SUBSET S
    OBVIOUS
  <2> HIDE DEF T
  <2> QED BY <1>1, <2>1, MinimalSet
<1>3. m # {}
  <2> SUFFICES ASSUME m = {} PROVE FALSE
    OBVIOUS
  <2>1. SumFunctionOnSet(f, {}) = 0 /\ SumFunctionOnSet(g, {}) = 0
    BY SumOfEmpty
  <2> QED BY <1>2, <2>1
<1> DEFINE p == Pick(m)
           R == m \ {p}
<1>4. IsFiniteSet(m) /\ p \in S /\ R \in SUBSET S /\ R \subseteq m /\ R # m /\ IsFiniteSet(R)
  BY <1>3, FS_Subset, PickIn
<1>5. SumFunctionOnSet(f, m) = f[p] + SumFunctionOnSet(f, R) /\ SumFunctionOnSet(g, m) = g[p] + SumFunctionOnSet(g, R)
  BY <1>3, <1>4, SumPick
<1>6. SumFunctionOnSet(f, R) <= SumFunctionOnSet(g, R)
  BY <1>2, <1>4
<1>7. SumFunctionOnSet(f, R) \in Int /\ SumFunctionOnSet(g, R) \in Int /\ f[p] \in Int /\ g[p] \in Int /\ f[p] <= g[p]
  BY <1>4, SumIsInt
<1> HIDE DEF p, R
<1> QED BY <1>2, <1>5, <1>6, <1>7

\* Zeros add up to zero.
LEMMA SumOfZeros ==
  ASSUME NEW S, IsFiniteSet(S), NEW f, \A x \in S : f[x] = 0
  PROVE  SumFunctionOnSet(f, S) = 0
<1> DEFINE T == {t \in SUBSET S : SumFunctionOnSet(f, t) # 0}
<1>1. SUFFICES ASSUME T # {} PROVE FALSE
  OBVIOUS
<1>2. PICK m \in T : \A t \in T : t \subseteq m => t = m
  <2>1. T \in SUBSET SUBSET S
    OBVIOUS
  <2> HIDE DEF T
  <2> QED BY <1>1, <2>1, MinimalSet
<1>3. m # {}
  BY <1>2, SumOfEmpty
<1> DEFINE p == Pick(m)
           R == m \ {p}
<1>4. IsFiniteSet(m) /\ p \in S /\ R \in SUBSET S /\ R \subseteq m /\ R # m
  BY <1>3, FS_Subset, PickIn
<1>5. SumFunctionOnSet(f, m) = f[p] + SumFunctionOnSet(f, R)
  BY <1>3, <1>4, SumPick
<1>6. SumFunctionOnSet(f, R) = 0
  BY <1>2, <1>4
<1> QED BY <1>2, <1>4, <1>5, <1>6

\* Naturals: no part exceeds the sum, and a positive sum has a positive part.
LEMMA SumOfNats ==
  ASSUME NEW S, IsFiniteSet(S), NEW f, \A x \in S : f[x] \in Nat
  PROVE  /\ SumFunctionOnSet(f, S) \in Nat
         /\ \A x \in S : f[x] <= SumFunctionOnSet(f, S)
         /\ SumFunctionOnSet(f, S) > 0 => \E x \in S : f[x] > 0
<1>1. \A R \in SUBSET S : SumFunctionOnSet(f, R) \in Nat
  <2> TAKE R \in SUBSET S
  <2> DEFINE z == [x \in S |-> 0]
  <2>1. IsFiniteSet(R)
    BY FS_Subset
  <2>2. SumFunctionOnSet(f, R) \in Int
    BY <2>1, SumIsInt
  <2>3. SumFunctionOnSet(z, R) = 0
    BY <2>1, SumOfZeros
  <2>4. SumFunctionOnSet(z, R) <= SumFunctionOnSet(f, R)
    <3>1. \A x \in R : z[x] \in Int /\ f[x] \in Int /\ z[x] <= f[x]
      OBVIOUS
    <3> HIDE DEF z
    <3> QED BY <2>1, <3>1, SumMonotone
  <2> QED BY <2>2, <2>3, <2>4
<1>2. \A x \in S : f[x] <= SumFunctionOnSet(f, S)
  <2> TAKE x \in S
  <2>1. SumFunctionOnSet(f, S) = f[x] + SumFunctionOnSet(f, S \ {x})
    BY SumTake
  <2>2. SumFunctionOnSet(f, S \ {x}) \in Nat /\ f[x] \in Nat
    BY <1>1
  <2> QED BY <2>1, <2>2
<1>3. SumFunctionOnSet(f, S) > 0 => \E x \in S : f[x] > 0
  <2> SUFFICES ASSUME \A x \in S : ~(f[x] > 0) PROVE ~(SumFunctionOnSet(f, S) > 0)
    OBVIOUS
  <2>1. \A x \in S : f[x] = 0
    OBVIOUS
  <2> QED BY <2>1, SumOfZeros
<1> QED BY <1>1, <1>2, <1>3

\* Min picks the least number of a set of positive numbers.
LEMMA LeastElement ==
  ASSUME NEW n \in Nat, NEW S \in SUBSET (1..n), S # {}
  PROVE  Min(S) \in S /\ \A y \in S : Min(S) <= y
<1> DEFINE T == {1..k : k \in S}
           W == 1..n
<1>1. T \in SUBSET SUBSET W
  <2>1. \A k \in S : 1..k \subseteq 1..n
    OBVIOUS
  <2> QED BY <2>1
<1>2. PICK m \in T : \A t \in T : t \subseteq m => t = m
  <2>1. IsFiniteSet(W)
    <3>1. 1 \in Int /\ n \in Int
      OBVIOUS
    <3> QED BY <3>1, FS_Interval
  <2>2. T # {}
    OBVIOUS
  <2> HIDE DEF T, W
  <2> QED BY <1>1, <2>1, <2>2, MinimalSet
<1>3. PICK k \in S : m = 1..k
  OBVIOUS
<1>4. \A y \in S : k <= y
  <2> SUFFICES ASSUME NEW y \in S, y < k PROVE FALSE
    OBVIOUS
  <2>1. 1..y \in T /\ 1..y \subseteq 1..k /\ k \in 1..k /\ k \notin 1..y
    OBVIOUS
  <2> QED BY <1>2, <1>3, <2>1
<1> QED BY <1>3, <1>4 DEF Min

\* No more than k for each element of T, and nothing for the others.
LEMMA SumBounded ==
  ASSUME NEW S, IsFiniteSet(S), NEW T \in SUBSET S, NEW f, NEW k \in Nat,
         \A x \in S : f[x] \in Int /\ f[x] <= (IF x \in T THEN k ELSE 0)
  PROVE  SumFunctionOnSet(f, S) <= Cardinality(T) * k
<1> DEFINE W == {t \in SUBSET S : ~(SumFunctionOnSet(f, t) <= Cardinality(t \intersect T) * k)}
<1>1. SUFFICES ASSUME W # {} PROVE FALSE
  <2>1. S \intersect T = T
    OBVIOUS
  <2> QED BY <2>1
<1>2. PICK m \in W : \A t \in W : t \subseteq m => t = m
  <2>1. W \in SUBSET SUBSET S
    OBVIOUS
  <2> HIDE DEF W
  <2> QED BY <1>1, <2>1, MinimalSet
<1>3. m # {}
  <2> SUFFICES ASSUME m = {} PROVE FALSE
    OBVIOUS
  <2>1. SumFunctionOnSet(f, {}) = 0 /\ Cardinality({}) = 0 /\ {} \intersect T = {}
    BY SumOfEmpty, FS_EmptySet
  <2> QED BY <1>2, <2>1
<1> DEFINE p == Pick(m)
           R == m \ {p}
           n == Cardinality(R \intersect T)
<1>4. IsFiniteSet(m) /\ p \in m /\ p \in S /\ R \in SUBSET S /\ R \subseteq m /\ R # m /\ IsFiniteSet(R)
  BY <1>3, FS_Subset, PickIn
<1>5. SumFunctionOnSet(f, m) = f[p] + SumFunctionOnSet(f, R)
  BY <1>3, <1>4, SumPick
<1>6. SumFunctionOnSet(f, R) <= n * k
  BY <1>2, <1>4
<1>7. IsFiniteSet(R \intersect T) /\ n \in Nat
  <2>1. IsFiniteSet(R \intersect T)
    BY <1>4, FS_Subset
  <2> QED BY <2>1, FS_CardinalityType
<1>8. Cardinality(m \intersect T) = IF p \in T THEN n + 1 ELSE n
  <2>1. CASE p \in T
    <3>1. m \intersect T = (R \intersect T) \union {p} /\ p \notin R \intersect T
      BY <1>4, <2>1
    <3> HIDE DEF p, R
    <3> QED BY <1>7, <2>1, <3>1, FS_AddElement
  <2>2. CASE p \notin T
    <3>1. m \intersect T = R \intersect T
      BY <2>2
    <3> QED BY <2>2, <3>1
  <2> QED BY <2>1, <2>2
<1>9. SumFunctionOnSet(f, R) \in Int /\ f[p] \in Int /\ f[p] <= (IF p \in T THEN k ELSE 0)
  BY <1>4, SumIsInt
<1>10. ~(SumFunctionOnSet(f, m) <= Cardinality(m \intersect T) * k)
  BY <1>2
<1> HIDE DEF p, R, n, W
<1>11. (n + 1) * k = n * k + k /\ n * k \in Int
  BY <1>7
<1>12. CASE p \in T
  BY <1>5, <1>6, <1>7, <1>8, <1>9, <1>10, <1>11, <1>12
<1>13. CASE p \notin T
  BY <1>5, <1>6, <1>7, <1>8, <1>9, <1>10, <1>11, <1>13
<1> QED BY <1>12, <1>13

\* A sum of differences is the difference of the sums.
LEMMA SumDifference ==
  ASSUME NEW S, IsFiniteSet(S), NEW f, NEW g, NEW h,
         \A x \in S : f[x] \in Int /\ g[x] \in Int /\ h[x] = f[x] - g[x]
  PROVE  SumFunctionOnSet(h, S) = SumFunctionOnSet(f, S) - SumFunctionOnSet(g, S)
<1> DEFINE T == {t \in SUBSET S : SumFunctionOnSet(h, t) # SumFunctionOnSet(f, t) - SumFunctionOnSet(g, t)}
<1>1. SUFFICES ASSUME T # {} PROVE FALSE
  OBVIOUS
<1>2. PICK m \in T : \A t \in T : t \subseteq m => t = m
  <2>1. T \in SUBSET SUBSET S
    OBVIOUS
  <2> HIDE DEF T
  <2> QED BY <1>1, <2>1, MinimalSet
<1>3. m # {}
  <2> SUFFICES ASSUME m = {} PROVE FALSE
    OBVIOUS
  <2>1. SumFunctionOnSet(f, {}) = 0 /\ SumFunctionOnSet(g, {}) = 0 /\ SumFunctionOnSet(h, {}) = 0
    BY SumOfEmpty
  <2> QED BY <1>2, <2>1
<1> DEFINE p == Pick(m)
           R == m \ {p}
<1>4. IsFiniteSet(m) /\ p \in S /\ R \in SUBSET S /\ R \subseteq m /\ R # m /\ IsFiniteSet(R)
  BY <1>3, FS_Subset, PickIn
<1>5. /\ SumFunctionOnSet(f, m) = f[p] + SumFunctionOnSet(f, R) /\ SumFunctionOnSet(g, m) = g[p] + SumFunctionOnSet(g, R)
      /\ SumFunctionOnSet(h, m) = h[p] + SumFunctionOnSet(h, R)
  BY <1>3, <1>4, SumPick
<1>6. SumFunctionOnSet(h, R) = SumFunctionOnSet(f, R) - SumFunctionOnSet(g, R)
  BY <1>2, <1>4
<1>7. SumFunctionOnSet(f, R) \in Int /\ SumFunctionOnSet(g, R) \in Int /\ f[p] \in Int /\ g[p] \in Int /\ h[p] = f[p] - g[p]
  BY <1>4, SumIsInt
<1> HIDE DEF p, R
<1> QED BY <1>2, <1>5, <1>6, <1>7

\* Where only one element counts, the sum is its value, or nothing.
LEMMA SumOfOne ==
  ASSUME NEW S, IsFiniteSet(S), NEW a, NEW f, \A x \in S : f[x] \in Int, \A x \in S \ {a} : f[x] = 0
  PROVE  SumFunctionOnSet(f, S) = IF a \in S THEN f[a] ELSE 0
<1>1. CASE a \notin S
  <2>1. \A x \in S : f[x] = 0
    BY <1>1
  <2> QED BY <1>1, <2>1, SumOfZeros
<1>2. CASE a \in S
  <2> DEFINE R == S \ {a}
  <2>1. IsFiniteSet(R)
    BY FS_Subset
  <2>2. SumFunctionOnSet(f, S) = f[a] + SumFunctionOnSet(f, R)
    BY <1>2, SumTake
  <2>3. SumFunctionOnSet(f, R) = 0
    BY <2>1, SumOfZeros
  <2> QED BY <1>2, <2>2, <2>3
<1> QED BY <1>1, <1>2

\* Max picks the greatest number of a finite set.
LEMMA GreatestElement ==
  ASSUME NEW S, IsFiniteSet(S), S # {}, \A x \in S : x \in Nat
  PROVE  Max(S) \in S /\ \A y \in S : y <= Max(S)
<1> DEFINE above(k) == {y \in S : y > k}
           T == {above(k) : k \in S}
<1>1. PICK m \in T : \A t \in T : t \subseteq m => t = m
  <2>1. T \in SUBSET SUBSET S
    OBVIOUS
  <2>2. T # {} /\ IsFiniteSet(S)
    OBVIOUS
  <2> HIDE DEF T
  <2> QED BY <2>1, <2>2, MinimalSet
<1>2. PICK k \in S : m = above(k)
  OBVIOUS
<1>3. \A y \in S : y <= k
  <2> SUFFICES ASSUME NEW y \in S, y > k PROVE FALSE
    OBVIOUS
  <2>1. k \in Nat /\ y \in Nat
    OBVIOUS
  <2>2. above(y) \subseteq above(k) /\ y \in above(k) /\ y \notin above(y)
    <3>1. \A z \in S : z \in Nat
      OBVIOUS
    <3>2. ~(y > y) /\ \A z \in S : z > y => z > k
      BY <2>1, <3>1
    <3> QED BY <3>2
  <2> HIDE DEF above
  <2>3. above(y) \in T
    OBVIOUS
  <2> QED BY <1>1, <1>2, <2>2, <2>3
<1> QED BY <1>2, <1>3 DEF Max

\* A part of natural numbers adds up to no more than the whole.
LEMMA SumOfPart ==
  ASSUME NEW S, IsFiniteSet(S), NEW R \in SUBSET S, NEW f, \A x \in S : f[x] \in Nat
  PROVE  SumFunctionOnSet(f, R) <= SumFunctionOnSet(f, S)
<1> DEFINE T == {t \in SUBSET S : ~(SumFunctionOnSet(f, t \intersect R) <= SumFunctionOnSet(f, t))}
<1>1. SUFFICES ASSUME T # {} PROVE FALSE
  <2>1. S \intersect R = R
    OBVIOUS
  <2> QED BY <1>1, <2>1
<1>2. PICK m \in T : \A t \in T : t \subseteq m => t = m
  <2>1. T \in SUBSET SUBSET S
    OBVIOUS
  <2> HIDE DEF T
  <2> QED BY <1>1, <2>1, MinimalSet
<1>3. m # {}
  <2> SUFFICES ASSUME m = {} PROVE FALSE
    OBVIOUS
  <2>1. m \intersect R = {} /\ SumFunctionOnSet(f, {}) = 0
    BY SumOfEmpty
  <2> QED BY <1>2, <2>1
<1>4. PICK p : p \in m
  BY <1>3
<1> DEFINE t == m \ {p}
           a == SumFunctionOnSet(f, t)
           b == SumFunctionOnSet(f, t \intersect R)
           q == f[p]
<1>5. IsFiniteSet(m) /\ p \in S /\ t \in SUBSET S /\ t \subseteq m /\ t # m /\ IsFiniteSet(t)
      /\ IsFiniteSet(t \intersect R) /\ IsFiniteSet(m \intersect R)
  BY <1>4, FS_Subset
<1>6. SumFunctionOnSet(f, m) = q + a /\ b <= a
  <2>1. \A y \in m : f[y] \in Int
    OBVIOUS
  <2> QED BY <1>2, <1>4, <1>5, <2>1, SumTake
<1>7. a \in Int /\ b \in Int /\ q \in Nat
  <2>1. \A y \in t : f[y] \in Int
    OBVIOUS
  <2> QED BY <1>5, <2>1, SumIsInt
<1>8. SumFunctionOnSet(f, m \intersect R) \in {b, q + b}
  <2>1. CASE p \in R
    <3>1. (m \intersect R) \ {p} = t \intersect R /\ p \in m \intersect R
      BY <1>4, <2>1
    <3>2. \A y \in m \intersect R : f[y] \in Int
      OBVIOUS
    <3> QED BY <1>5, <3>1, <3>2, SumTake
  <2>2. CASE p \notin R
    <3>1. m \intersect R = t \intersect R
      BY <2>2
    <3> QED BY <3>1
  <2> QED BY <2>1, <2>2
<1>9. ~(SumFunctionOnSet(f, m \intersect R) <= SumFunctionOnSet(f, m))
  BY <1>2
<1> HIDE DEF a, b, q
<1> QED BY <1>6, <1>7, <1>8, <1>9

\* A sum turned round.
LEMMA SumNegated ==
    ASSUME NEW S, IsFiniteSet(S), NEW f, NEW g, \A x \in S : f[x] \in Int /\ g[x] = -f[x]
    PROVE  SumFunctionOnSet(g, S) = -SumFunctionOnSet(f, S) /\ SumFunctionOnSet(f, S) \in Int
<1> DEFINE z == [x \in S |-> 0]
<1>1. \A x \in S : z[x] \in Int /\ f[x] \in Int /\ g[x] = z[x] - f[x]
  OBVIOUS
<1>2. \A x \in S : z[x] = 0
  OBVIOUS
<1> HIDE DEF z
<1>3. SumFunctionOnSet(g, S) = SumFunctionOnSet(z, S) - SumFunctionOnSet(f, S)
  BY <1>1, SumDifference
<1>4. SumFunctionOnSet(z, S) = 0 /\ SumFunctionOnSet(f, S) \in Int
  BY <1>1, <1>2, SumOfZeros, SumIsInt
<1> QED BY <1>3, <1>4
=============================================================================
