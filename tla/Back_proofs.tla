----------------------------- MODULE Back_proofs -----------------------------
(***************************************************************************)
(* What holds of Back for every value of its constants: the types of each  *)
(* part, what its overlapping handlers can double, that the reports add up *)
(* and that reminders, decisions and shipments are what they should be.    *)
(*                                                                         *)
(* Every part has its own inductive invariant; no step of one part touches *)
(* the variables of another, so BackSpec implements the specification of   *)
(* each (PartsRun), and the theorems at the end put the parts together.    *)
(***************************************************************************)
EXTENDS Back, FiniteSetTheorems, SequenceTheorems, NaturalsInduction, WellFoundedInduction, TLAPS

\* Every instance counts alike.
LEMMA OneCount ==
    \A S : /\ Log!Cardinality(S) = Cardinality(S) /\ Chat!Cardinality(S) = Cardinality(S)
           /\ News!Cardinality(S) = Cardinality(S) /\ Ledger!Cardinality(S) = Cardinality(S)
BY Zenon DEF Cardinality, Log!Cardinality, Chat!Cardinality, News!Cardinality, Ledger!Cardinality

-----------------------------------------------------------------------------
(* Sums.                                                                   *)

\* A sum as the community modules define it.
SumsOf(f, S, g) ==
    g = [T \in SUBSET S |->
            IF T = {} THEN 0 ELSE f[CHOOSE x \in T : TRUE] + g[T \ {CHOOSE x \in T : TRUE}]]
SumOf(f, S) == (CHOOSE g : SumsOf(f, S, g))[S]
\* The same for every order of the terms.
Adds(f, S, g) ==
    /\ g \in [SUBSET S -> Int] /\ g[{}] = 0
    /\ \A T \in SUBSET S : \A x \in T : g[T] = f[x] + g[T \ {x}]

LEMMA LeastSubset ==
    ASSUME NEW S, IsFiniteSet(S), NEW Bad, Bad \subseteq SUBSET S, Bad # {}
    PROVE  \E U \in Bad : IsFiniteSet(U) /\ \A V \in SUBSET U : V # U => V \notin Bad
<1> DEFINE R == StrictSubsetOrdering(S)
<1>1. IsWellFoundedOn(R, SUBSET S)
  BY FS_StrictSubsetOrderingWellFounded, FS_FiniteSubsetsOfFinite
<1>2. \A U, V \in SUBSET S : V \subseteq U /\ V # U => <<V, U>> \in R
  BY DEF StrictSubsetOrdering
<1> HIDE DEF R
<1>3. PICK U \in Bad : \A V \in Bad : ~(<<V, U>> \in R)
  BY <1>1, WFMin
<1>4. U \in SUBSET S
  OBVIOUS
<1>5. IsFiniteSet(U)
  BY <1>4, FS_Subset
<1> QED
  BY <1>2, <1>3, <1>4, <1>5

LEMMA AddsExist ==
    ASSUME NEW S, IsFiniteSet(S), NEW f, \A x \in S : f[x] \in Int
    PROVE  \E g : Adds(f, S, g)
<1> DEFINE Bad == {T \in SUBSET S : ~\E g : Adds(f, T, g)}
<1>1. SUFFICES ASSUME Bad # {} PROVE FALSE
  OBVIOUS
<1>2. PICK U \in Bad : IsFiniteSet(U) /\ \A V \in SUBSET U : V # U => V \notin Bad
  BY <1>1, LeastSubset
<1>3. CASE U = {}
  <2> DEFINE g == [T \in SUBSET {} |-> 0]
  <2>1. Adds(f, {}, g)
    BY DEF Adds
  <2> QED
    BY <1>3, <2>1
<1>4. CASE U # {}
  <2>1. PICK x \in U : TRUE
    BY <1>4
  <2> DEFINE V == U \ {x}
  <2>2. PICK h : Adds(f, V, h)
    BY <1>2, <2>1
  <2>3. f[x] \in Int /\ h \in [SUBSET V -> Int] /\ h[{}] = 0
        /\ \A T \in SUBSET V : \A y \in T : h[T] = f[y] + h[T \ {y}]
    BY <2>1, <2>2 DEF Adds
  <2> DEFINE g == [T \in SUBSET U |-> IF x \in T THEN f[x] + h[T \ {x}] ELSE h[T]]
  <2>4. \A T \in SUBSET U : T \ {x} \in SUBSET V /\ (x \notin T => T \in SUBSET V /\ T \ {x} = T)
    OBVIOUS
  <2>5. g \in [SUBSET U -> Int]
    BY <2>3, <2>4
  <2>6. g[{}] = 0
    BY <2>3
  <2>7. ASSUME NEW T \in SUBSET U, NEW y \in T PROVE g[T] = f[y] + g[T \ {y}]
    <3>1. T \ {y} \in SUBSET U /\ y \in U /\ f[y] \in Int
      OBVIOUS
    <3>2. CASE x = y
      BY <2>3, <2>4, <3>1, <3>2
    <3>3. CASE x # y /\ x \in T
      <4>1. g[T] = f[x] + h[T \ {x}]
        BY <3>3
      <4>2. h[T \ {x}] = f[y] + h[(T \ {x}) \ {y}]
        BY <2>3, <2>4, <3>3
      <4>3. (T \ {x}) \ {y} = (T \ {y}) \ {x}
        OBVIOUS
      <4>4. g[T \ {y}] = f[x] + h[(T \ {y}) \ {x}]
        BY <3>1, <3>3
      <4>5. h[(T \ {y}) \ {x}] \in Int
        BY <2>3, <2>4, <3>1
      <4>6. g[T] = f[x] + (f[y] + h[(T \ {y}) \ {x}])
        BY <4>1, <4>2, <4>3
      <4> HIDE DEF g
      <4> QED
        BY <2>3, <3>1, <4>4, <4>5, <4>6
    <3>4. CASE x \notin T
      <4>1. h[T] = f[y] + h[T \ {y}]
        BY <2>3, <2>4, <3>4
      <4>2. g[T] = h[T] /\ g[T \ {y}] = h[T \ {y}]
        BY <3>1, <3>4
      <4> QED
        BY <4>1, <4>2
    <3> QED
      BY <3>2, <3>3, <3>4
  <2> HIDE DEF g
  <2>8. Adds(f, U, g)
    BY <2>5, <2>6, <2>7 DEF Adds
  <2> QED
    BY <2>8
<1> QED
  BY <1>3, <1>4

LEMMA SumIs ==
    ASSUME NEW S, IsFiniteSet(S), NEW f, NEW g, Adds(f, S, g)
    PROVE  SumOf(f, S) = g[S]
<1> DEFINE sum == CHOOSE h : SumsOf(f, S, h)
<1>1. SumsOf(f, S, g)
  <2>1. ASSUME NEW T \in SUBSET S, T # {}
        PROVE  g[T] = f[CHOOSE x \in T : TRUE] + g[T \ {CHOOSE x \in T : TRUE}]
    <3>1. (CHOOSE x \in T : TRUE) \in T
      BY <2>1
    <3> QED
      BY <3>1 DEF Adds
  <2>2. g = [T \in SUBSET S |-> g[T]] /\ g[{}] = 0
    BY DEF Adds
  <2> QED
    BY <2>1, <2>2 DEF SumsOf
<1>2. SumsOf(f, S, sum)
  BY <1>1
<1> HIDE DEF sum
<1>3. sum[{}] = 0 /\ \A T \in SUBSET S : T # {} => \E x \in T : sum[T] = f[x] + sum[T \ {x}]
  <2>1. sum[{}] = 0
    BY <1>2 DEF SumsOf
  <2>2. ASSUME NEW T \in SUBSET S, T # {}
        PROVE  \E x \in T : sum[T] = f[x] + sum[T \ {x}]
    <3>1. (CHOOSE x \in T : TRUE) \in T
      BY <2>2
    <3>2. sum[T] = f[CHOOSE x \in T : TRUE] + sum[T \ {CHOOSE x \in T : TRUE}]
      BY <1>2, <2>2 DEF SumsOf
    <3> QED
      BY <3>1, <3>2
  <2> QED
    BY <2>1, <2>2
<1> DEFINE Bad == {T \in SUBSET S : sum[T] # g[T]}
<1>4. SUFFICES ASSUME Bad # {} PROVE FALSE
  BY DEF SumOf, sum
<1>5. PICK U \in Bad : IsFiniteSet(U) /\ \A V \in SUBSET U : V # U => V \notin Bad
  BY <1>4, LeastSubset
<1>6. U # {}
  BY <1>3 DEF Adds
<1>7. PICK x \in U : sum[U] = f[x] + sum[U \ {x}]
  BY <1>3, <1>6
<1>8. sum[U \ {x}] = g[U \ {x}]
  BY <1>5, <1>7
<1> QED
  BY <1>7, <1>8 DEF Adds

\* A sum over a finite set is a number, whatever term is taken first.
LEMMA SumStep ==
    ASSUME NEW S, IsFiniteSet(S), NEW f, \A x \in S : f[x] \in Int
    PROVE  /\ SumOf(f, S) \in Int
           /\ \A x \in S : SumOf(f, S \ {x}) \in Int /\ SumOf(f, S) = f[x] + SumOf(f, S \ {x})
<1>1. PICK g : Adds(f, S, g)
  BY AddsExist
<1>2. SumOf(f, S) = g[S] /\ g[S] \in Int
  <2>1. SumOf(f, S) = g[S]
    BY <1>1, SumIs
  <2> QED
    BY <1>1, <2>1 DEF Adds
<1>3. ASSUME NEW x \in S PROVE SumOf(f, S \ {x}) = g[S \ {x}] /\ g[S \ {x}] \in Int
  <2> DEFINE V == S \ {x}
             h == [T \in SUBSET V |-> g[T]]
  <2>1. Adds(f, V, h)
    <3>1. h \in [SUBSET V -> Int] /\ h[{}] = 0
      BY <1>1 DEF Adds
    <3>2. ASSUME NEW T \in SUBSET V, NEW y \in T PROVE h[T] = f[y] + h[T \ {y}]
      BY <1>1 DEF Adds
    <3> HIDE DEF h
    <3> QED
      BY <3>1, <3>2 DEF Adds
  <2>2. IsFiniteSet(V) /\ V \in SUBSET S
    BY FS_RemoveElement
  <2>3. SumOf(f, V) = h[V]
    BY <2>1, <2>2, SumIs
  <2>4. h[V] = g[V] /\ g[V] \in Int
    BY <1>1, <2>2 DEF Adds
  <2> QED
    BY <2>3, <2>4
<1> QED
  BY <1>1, <1>2, <1>3 DEF Adds

LEMMA SumEmpty == ASSUME NEW f PROVE SumOf(f, {}) = 0
<1> DEFINE g == [T \in SUBSET {} |-> 0]
<1>1. Adds(f, {}, g) /\ g[{}] = 0
  BY DEF Adds
<1> HIDE DEF g
<1> QED
  BY <1>1, SumIs, FS_EmptySet

LEMMA SumSame ==
    ASSUME NEW S, NEW f, NEW h, \A x \in S : f[x] = h[x]
    PROVE  SumOf(f, S) = SumOf(h, S)
<1>1. ASSUME NEW g PROVE SumsOf(f, S, g) <=> SumsOf(h, S, g)
  <2>1. ASSUME NEW T \in SUBSET S, T # {} PROVE f[CHOOSE x \in T : TRUE] = h[CHOOSE x \in T : TRUE]
    <3>1. (CHOOSE x \in T : TRUE) \in T
      BY <2>1
    <3> QED
      BY <3>1
  <2> QED
    BY <2>1 DEF SumsOf
<1>2. (CHOOSE g : SumsOf(f, S, g)) = (CHOOSE g : SumsOf(h, S, g))
  BY <1>1
<1> QED
  BY <1>2 DEF SumOf

LEMMA SumPoint ==
    ASSUME NEW S, IsFiniteSet(S), NEW f, NEW h, \A x \in S : f[x] \in Int, NEW x \in S, h[x] \in Int,
           \A y \in S : y # x => h[y] = f[y]
    PROVE  SumOf(h, S) = SumOf(f, S) + h[x] - f[x]
<1>1. \A y \in S : h[y] \in Int
  OBVIOUS
<1>2. SumOf(f, S) = f[x] + SumOf(f, S \ {x}) /\ SumOf(f, S \ {x}) \in Int
  BY SumStep
<1>3. SumOf(h, S) = h[x] + SumOf(h, S \ {x})
  BY <1>1, SumStep
<1>4. \A y \in S \ {x} : h[y] = f[y]
  OBVIOUS
<1>5. SumOf(h, S \ {x}) = SumOf(f, S \ {x})
  BY <1>4, SumSame
<1> QED
  BY <1>2, <1>3, <1>5

LEMMA SumLess ==
    ASSUME NEW S, IsFiniteSet(S), NEW f, NEW h, \A x \in S : f[x] \in Int /\ h[x] \in Int /\ f[x] <= h[x]
    PROVE  SumOf(f, S) \in Int /\ SumOf(h, S) \in Int /\ SumOf(f, S) <= SumOf(h, S)
<1>0. SumOf(f, S) \in Int /\ SumOf(h, S) \in Int
  BY SumStep
<1> DEFINE Bad == {T \in SUBSET S : ~(SumOf(f, T) <= SumOf(h, T))}
<1>1. SUFFICES ASSUME Bad # {} PROVE FALSE
  BY <1>0
<1>2. PICK U \in Bad : IsFiniteSet(U) /\ \A V \in SUBSET U : V # U => V \notin Bad
  <2>1. Bad \subseteq SUBSET S
    OBVIOUS
  <2> HIDE DEF Bad
  <2> QED
    BY <1>1, <2>1, LeastSubset
<1>3. U # {}
  BY SumEmpty
<1>4. PICK x \in U : TRUE
  BY <1>3
<1>5. SumOf(f, U) = f[x] + SumOf(f, U \ {x}) /\ SumOf(f, U \ {x}) \in Int
  BY <1>2, SumStep
<1>6. SumOf(h, U) = h[x] + SumOf(h, U \ {x}) /\ SumOf(h, U \ {x}) \in Int
  BY <1>2, SumStep
<1>7. SumOf(f, U \ {x}) <= SumOf(h, U \ {x}) /\ f[x] \in Int /\ h[x] \in Int /\ f[x] <= h[x]
  BY <1>2, <1>4
<1> QED
  BY <1>5, <1>6, <1>7

LEMMA SumPlus ==
    ASSUME NEW S, IsFiniteSet(S), NEW f, NEW h, NEW k,
           \A x \in S : f[x] \in Int /\ h[x] \in Int /\ k[x] = f[x] + h[x]
    PROVE  SumOf(k, S) = SumOf(f, S) + SumOf(h, S)
<1> DEFINE Bad == {T \in SUBSET S : SumOf(k, T) # SumOf(f, T) + SumOf(h, T)}
<1>1. SUFFICES ASSUME Bad # {} PROVE FALSE
  OBVIOUS
<1>2. PICK U \in Bad : IsFiniteSet(U) /\ \A V \in SUBSET U : V # U => V \notin Bad
  <2>1. Bad \subseteq SUBSET S
    OBVIOUS
  <2> HIDE DEF Bad
  <2> QED
    BY <1>1, <2>1, LeastSubset
<1>3. U # {}
  <2>1. SumOf(f, {}) = 0 /\ SumOf(h, {}) = 0 /\ SumOf(k, {}) = 0
    BY SumEmpty
  <2>2. SUFFICES ASSUME U = {} PROVE FALSE
    OBVIOUS
  <2>3. SumOf(k, U) = SumOf(f, U) + SumOf(h, U)
    BY <2>1, <2>2
  <2> QED
    BY <2>3
<1>4. PICK x \in U : TRUE
  BY <1>3
<1>5. SumOf(f, U) = f[x] + SumOf(f, U \ {x}) /\ SumOf(f, U \ {x}) \in Int
  BY <1>2, SumStep
<1>6. SumOf(h, U) = h[x] + SumOf(h, U \ {x}) /\ SumOf(h, U \ {x}) \in Int
  BY <1>2, SumStep
<1>7. SumOf(k, U) = k[x] + SumOf(k, U \ {x})
  <2>1. \A y \in U : k[y] \in Int
    OBVIOUS
  <2> QED
    BY <1>2, <2>1, SumStep
<1>8. SumOf(k, U \ {x}) = SumOf(f, U \ {x}) + SumOf(h, U \ {x})
  BY <1>2, <1>4
<1>9. f[x] \in Int /\ h[x] \in Int /\ k[x] = f[x] + h[x]
  OBVIOUS
<1> QED
  BY <1>5, <1>6, <1>7, <1>8, <1>9

LEMMA SumZero ==
    ASSUME NEW S, IsFiniteSet(S), NEW f, \A x \in S : f[x] = 0
    PROVE  SumOf(f, S) = 0
<1>1. SumOf(f, S) = SumOf(f, S) + SumOf(f, S)
  <2>1. \A x \in S : f[x] \in Int /\ f[x] = f[x] + f[x]
    OBVIOUS
  <2> QED
    BY <2>1, SumPlus
<1> DEFINE t == SumOf(f, S)
<1>2. t = t + t /\ t \in Int
  BY <1>1, SumStep
<1> HIDE DEF t
<1>3. t = 0
  BY <1>2
<1> QED
  BY <1>3 DEF t

LEMMA SumNat ==
    ASSUME NEW S, IsFiniteSet(S), NEW f, \A x \in S : f[x] \in Nat
    PROVE  SumOf(f, S) \in Nat
<1> DEFINE z == [x \in S |-> 0]
<1>1. \A x \in S : z[x] = 0 /\ z[x] \in Int /\ f[x] \in Int /\ z[x] <= f[x]
  OBVIOUS
<1> HIDE DEF z
<1>2. SumOf(z, S) = 0
  BY <1>1, SumZero
<1>3. SumOf(f, S) \in Int /\ SumOf(z, S) <= SumOf(f, S)
  BY <1>1, SumLess
<1> QED
  BY <1>2, <1>3

LEMMA SumOnes ==
    ASSUME NEW S, IsFiniteSet(S), NEW f, \A x \in S : f[x] = 1
    PROVE  SumOf(f, S) = Cardinality(S)
<1> DEFINE Bad == {T \in SUBSET S : SumOf(f, T) # Cardinality(T)}
<1>1. SUFFICES ASSUME Bad # {} PROVE FALSE
  OBVIOUS
<1>2. PICK U \in Bad : IsFiniteSet(U) /\ \A V \in SUBSET U : V # U => V \notin Bad
  <2>1. Bad \subseteq SUBSET S
    OBVIOUS
  <2> HIDE DEF Bad
  <2> QED
    BY <1>1, <2>1, LeastSubset
<1>3. U # {}
  BY SumEmpty, FS_EmptySet
<1>4. PICK x \in U : TRUE
  BY <1>3
<1>5. SumOf(f, U) = 1 + SumOf(f, U \ {x})
  BY <1>2, SumStep
<1>6. Cardinality(U \ {x}) = Cardinality(U) - 1 /\ Cardinality(U) \in Nat
  BY <1>2, FS_RemoveElement, FS_CardinalityType
<1>7. SumOf(f, U \ {x}) = Cardinality(U \ {x})
  BY <1>2, <1>4
<1> QED
  BY <1>5, <1>6, <1>7

\* A part of a set: the rest counts nothing.
LEMMA SumPart ==
    ASSUME NEW S, IsFiniteSet(S), NEW T, T \subseteq S, NEW f, \A x \in T : f[x] \in Int,
           NEW h, \A x \in S : h[x] = IF x \in T THEN f[x] ELSE 0
    PROVE  SumOf(f, T) = SumOf(h, S)
<1> DEFINE Bad == {U \in SUBSET S : SumOf(f, U \cap T) # SumOf(h, U)}
<1>0. S \cap T = T
  OBVIOUS
<1>1. SUFFICES ASSUME Bad # {} PROVE FALSE
  BY <1>0
<1>2. PICK U \in Bad : IsFiniteSet(U) /\ \A V \in SUBSET U : V # U => V \notin Bad
  <2>1. Bad \subseteq SUBSET S
    OBVIOUS
  <2> HIDE DEF Bad
  <2> QED
    BY <1>1, <2>1, LeastSubset
<1>3. U # {}
  <2>1. {} \cap T = {}
    OBVIOUS
  <2> QED
    BY <2>1, SumEmpty
<1>4. PICK x \in U : TRUE
  BY <1>3
<1>5. SumOf(h, U) = h[x] + SumOf(h, U \ {x}) /\ SumOf(h, U \ {x}) \in Int
  <2>1. \A y \in U : h[y] \in Int
    OBVIOUS
  <2> QED
    BY <1>2, <2>1, SumStep
<1>6. SumOf(f, (U \ {x}) \cap T) = SumOf(h, U \ {x})
  BY <1>2, <1>4
<1>7. CASE x \notin T
  <2>1. (U \ {x}) \cap T = U \cap T /\ h[x] = 0
    BY <1>7
  <2>2. SumOf(h, U) = SumOf(f, U \cap T)
    <3> DEFINE p == SumOf(f, (U \ {x}) \cap T)
               q == SumOf(h, U \ {x})
    <3>1. p = SumOf(f, U \cap T)
      BY <2>1
    <3>2. SumOf(h, U) = 0 + q /\ q \in Int /\ p = q
      BY <1>5, <1>6, <2>1
    <3> HIDE DEF p, q
    <3> QED
      BY <3>1, <3>2
  <2> QED
    BY <2>2
<1>8. CASE x \in T
  <2>1. (U \ {x}) \cap T = (U \cap T) \ {x} /\ h[x] = f[x] /\ x \in U \cap T
    BY <1>8
  <2>2. IsFiniteSet(U \cap T)
    BY <1>2, FS_Subset
  <2>3. SumOf(f, U \cap T) = f[x] + SumOf(f, (U \cap T) \ {x})
    BY <2>1, <2>2, SumStep
  <2> QED
    BY <1>5, <1>6, <2>1, <2>3
<1> QED
  BY <1>7, <1>8

\* Rows and columns add up to the same.
LEMMA SumSwap ==
    ASSUME NEW S, IsFiniteSet(S), NEW R, IsFiniteSet(R), NEW f, \A x \in S, y \in R : f[x][y] \in Int
    PROVE  SumOf([x \in S |-> SumOf(f[x], R)], S) = SumOf([y \in R |-> SumOf([x \in S |-> f[x][y]], S)], R)
<1> DEFINE Row(T) == SumOf([x \in S |-> SumOf(f[x], R)], T)
           Col(T) == [y \in R |-> SumOf([x \in S |-> f[x][y]], T)]
           Bad == {T \in SUBSET S : Row(T) # SumOf(Col(T), R)}
<1>1. SUFFICES ASSUME Bad # {} PROVE FALSE
  OBVIOUS
<1>2. PICK U \in Bad : IsFiniteSet(U) /\ \A V \in SUBSET U : V # U => V \notin Bad
  <2>1. Bad \subseteq SUBSET S
    OBVIOUS
  <2> HIDE DEF Bad
  <2> QED
    BY <1>1, <2>1, LeastSubset
<1>3. U # {}
  <2>1. SUFFICES ASSUME U = {} PROVE FALSE
    OBVIOUS
  <2>2. Row({}) = 0
    BY SumEmpty
  <2>3. Col({}) = [y \in R |-> 0]
    BY SumEmpty
  <2>4. SumOf([y \in R |-> 0], R) = 0
    <3> DEFINE z == [y \in R |-> 0]
    <3>1. \A y \in R : z[y] \in Int /\ z[y] = z[y] + z[y]
      OBVIOUS
    <3> HIDE DEF z
    <3>2. SumOf(z, R) = SumOf(z, R) + SumOf(z, R) /\ SumOf(z, R) \in Int
      BY <3>1, SumPlus, SumStep
    <3> DEFINE t == SumOf(z, R)
    <3>3. t = t + t /\ t \in Int
      BY <3>2
    <3> HIDE DEF t
    <3>4. t = 0
      BY <3>3
    <3> QED
      BY <3>4 DEF t, z
  <2> QED
    BY <2>1, <2>2, <2>3, <2>4
<1>4. PICK x \in U : TRUE
  BY <1>3
<1> DEFINE V == U \ {x}
<1>5. V \in SUBSET U /\ V # U /\ U \subseteq S /\ x \in S
  BY <1>4
<1>6. Row(V) = SumOf(Col(V), R)
  BY <1>2, <1>5
<1>7. Row(U) = SumOf(f[x], R) + Row(V)
  <2> DEFINE g == [w \in S |-> SumOf(f[w], R)]
  <2>1. \A w \in U : g[w] \in Int
    BY <1>5, SumStep
  <2>2. g[x] = SumOf(f[x], R)
    BY <1>5
  <2> HIDE DEF g
  <2>3. SumOf(g, U) = g[x] + SumOf(g, U \ {x})
    BY <1>2, <1>4, <2>1, SumStep
  <2> QED
    BY <2>2, <2>3 DEF g
<1>8. SumOf(Col(U), R) = SumOf(f[x], R) + SumOf(Col(V), R)
  <2>1. ASSUME NEW y \in R
        PROVE  f[x][y] \in Int /\ Col(V)[y] \in Int /\ Col(U)[y] = f[x][y] + Col(V)[y]
    <3> DEFINE g == [w \in S |-> f[w][y]]
    <3>1. \A w \in U : g[w] \in Int
      BY <1>5
    <3>2. g[x] = f[x][y] /\ f[x][y] \in Int
      BY <1>5
    <3>3. Col(V)[y] = SumOf(g, V) /\ Col(U)[y] = SumOf(g, U)
      OBVIOUS
    <3> HIDE DEF g
    <3>4. SumOf(g, U) = g[x] + SumOf(g, U \ {x}) /\ SumOf(g, U \ {x}) \in Int
      BY <1>2, <1>4, <3>1, SumStep
    <3> QED
      BY <3>2, <3>3, <3>4
  <2> HIDE DEF Col
  <2> DEFINE k == f[x]
             a == Col(V)
             b == Col(U)
  <2>2. \A y \in R : k[y] \in Int /\ a[y] \in Int /\ b[y] = k[y] + a[y]
    BY <2>1
  <2> HIDE DEF k, a, b
  <2>3. SumOf(b, R) = SumOf(k, R) + SumOf(a, R)
    BY <2>2, SumPlus
  <2> QED
    BY <2>3 DEF k, a, b
<1> QED
  BY <1>6, <1>7, <1>8

LEMMA SumJoin ==
    ASSUME NEW A, NEW B, IsFiniteSet(A \cup B), A \cap B = {}, NEW f, \A x \in A \cup B : f[x] \in Int
    PROVE  SumOf(f, A \cup B) = SumOf(f, A) + SumOf(f, B)
<1> DEFINE S == A \cup B
           a == [x \in S |-> IF x \in A THEN f[x] ELSE 0]
           b == [x \in S |-> IF x \in B THEN f[x] ELSE 0]
<1>1. \A x \in S : a[x] = (IF x \in A THEN f[x] ELSE 0) /\ b[x] = IF x \in B THEN f[x] ELSE 0
  OBVIOUS
<1>2. \A x \in S : a[x] \in Int /\ b[x] \in Int /\ f[x] = a[x] + b[x]
  OBVIOUS
<1>3. IsFiniteSet(S) /\ A \subseteq S /\ B \subseteq S /\ \A x \in S : f[x] \in Int
  OBVIOUS
<1> HIDE DEF S, a, b
<1>4. SumOf(f, A) = SumOf(a, S) /\ SumOf(f, B) = SumOf(b, S)
  BY <1>1, <1>3, SumPart
<1>5. SumOf(f, S) = SumOf(a, S) + SumOf(b, S)
  BY <1>2, <1>3, SumPlus
<1> QED
  BY <1>4, <1>5 DEF S

\* A sum taken class by class.
LEMMA SumByClass ==
    ASSUME NEW S, IsFiniteSet(S), NEW R, IsFiniteSet(R), NEW f, \A x \in S : f[x] \in Int,
           NEW k, \A x \in S : k[x] \in R
    PROVE  SumOf(f, S) = SumOf([r \in R |-> SumOf(f, {x \in S : k[x] = r})], R)
<1> DEFINE m == [x \in S |-> [r \in R |-> IF k[x] = r THEN f[x] ELSE 0]]
           row == [x \in S |-> SumOf(m[x], R)]
           col == [r \in R |-> SumOf([x \in S |-> m[x][r]], S)]
           cls == [r \in R |-> SumOf(f, {x \in S : k[x] = r})]
<1>1. \A x \in S, r \in R : m[x][r] \in Int /\ m[x][r] = IF k[x] = r THEN f[x] ELSE 0
  OBVIOUS
<1> HIDE DEF m
<1>2. SumOf(row, S) = SumOf(col, R)
  BY <1>1, SumSwap
<1>3. ASSUME NEW x \in S PROVE row[x] = f[x]
  <2> DEFINE z == [r \in R |-> 0]
             h == m[x]
  <2>1. (\A r \in R : z[r] = 0 /\ z[r] \in Int) /\ k[x] \in R /\ h[k[x]] = f[x] /\ h[k[x]] \in Int
        /\ \A r \in R : r # k[x] => h[r] = z[r]
    BY <1>1
  <2> HIDE DEF z, h
  <2>2. SumOf(h, R) = SumOf(z, R) + h[k[x]] - z[k[x]]
    BY <2>1, SumPoint
  <2>3. SumOf(z, R) = 0
    BY <2>1, SumZero
  <2>4. SumOf(h, R) = f[x]
    BY <2>1, <2>2, <2>3
  <2> QED
    BY <2>4 DEF h
<1>4. SumOf(row, S) = SumOf(f, S)
  <2> HIDE DEF row
  <2> QED
    BY <1>3, SumSame
<1>5. ASSUME NEW r \in R PROVE cls[r] = col[r]
  <2> DEFINE T == {x \in S : k[x] = r}
             h == [x \in S |-> m[x][r]]
  <2>1. T \subseteq S /\ (\A x \in T : f[x] \in Int) /\ \A x \in S : h[x] = IF x \in T THEN f[x] ELSE 0
    BY <1>1
  <2>2. cls[r] = SumOf(f, T) /\ col[r] = SumOf(h, S)
    OBVIOUS
  <2> HIDE DEF T, h, cls, col
  <2>3. SumOf(f, T) = SumOf(h, S)
    BY <2>1, SumPart
  <2> QED
    BY <2>2, <2>3
<1>6. SumOf(cls, R) = SumOf(col, R)
  <2> HIDE DEF cls, col
  <2> QED
    BY <1>5, SumSame
<1> QED
  BY <1>2, <1>4, <1>6

LEMMA CountByClass ==
    ASSUME NEW S, IsFiniteSet(S), NEW R, IsFiniteSet(R), NEW k, \A x \in S : k[x] \in R
    PROVE  Cardinality(S) = SumOf([r \in R |-> Cardinality({x \in S : k[x] = r})], R)
<1> DEFINE o == [x \in S |-> 1]
           cls == [r \in R |-> SumOf(o, {x \in S : k[x] = r})]
           cnt == [r \in R |-> Cardinality({x \in S : k[x] = r})]
<1>1. \A x \in S : o[x] = 1 /\ o[x] \in Int
  OBVIOUS
<1> HIDE DEF o
<1>2. SumOf(o, S) = Cardinality(S)
  BY <1>1, SumOnes
<1>3. SumOf(o, S) = SumOf(cls, R)
  BY <1>1, SumByClass
<1>4. ASSUME NEW r \in R PROVE cls[r] = cnt[r]
  <2> DEFINE T == {x \in S : k[x] = r}
  <2>1. IsFiniteSet(T) /\ \A x \in T : o[x] = 1
    BY <1>1, FS_Subset
  <2> HIDE DEF T
  <2>2. SumOf(o, T) = Cardinality(T)
    BY <2>1, SumOnes
  <2> QED
    BY <2>2 DEF T
<1>5. SumOf(cls, R) = SumOf(cnt, R)
  <2> HIDE DEF cls, cnt
  <2> QED
    BY <1>4, SumSame
<1> QED
  BY <1>2, <1>3, <1>5

-----------------------------------------------------------------------------
(* The invoices: the inductive invariant, and every step.                  *)

ToldOf(i) == \E d \in Days : told[i][d] > 0

\* What a row or a copy of it says of payment and reminder is true.
RowOK(i, r) ==
    /\ r.status = "paid" <=> r.paid_at # NoDay
    /\ r.reminded # NoDay => ToldOf(i)
RowsOK == \A i \in Invoices : RowOK(i, invoices[i])
\* An edit was counted when it began.
ReqOK ==
    \A s \in Slots : req[s] # Idle =>
        RowOK(req[s].i, req[s].seen) /\ (req[s].op = "update" => saves > 0)

\* A running process sleeps to today's nine o'clock or to tomorrow's; a job
\* ends on the day it began.
CronOK ==
    /\ up => next \in {day, day + 1} /\ (~nine => next = day)
    /\ job.at # "asleep" => up /\ nine /\ next = day + 1

\* Nothing is sent before today's nine o'clock has been served.
ToldOK ==
    /\ ToldOnceADay
    /\ \A i \in Invoices, d \in Days : d > day => told[i][d] = 0
    /\ ~nine \/ (up /\ next = day) \/ job.at = "read" => \A i \in Invoices : told[i][day] = 0
    /\ job.at = "sent" => \A i \in job.due : told[i][day] > 0

\* Nine o'clock of day d is behind: served, or slept through.
Behind(d) == d \in 0..day - 1 \/ (d = day /\ nine /\ ~(up /\ next = day))
Answered(i, d) == d \in silent \/ ToldOf(i) \/ (job.at = "read" /\ i \in job.due /\ d = day)
Owed(i) == Live(i) /\ invoices[i].status = "unpaid" /\ Behind(invoices[i].due) /\ i \notin late
DueOK == \A i \in Invoices : Owed(i) => Answered(i, invoices[i].due)

IInv == TypeOK /\ RowsOK /\ ReqOK /\ CronOK /\ ToldOK /\ DueOK

LEMMA InitIInv == ASSUME InvoicesAssumed, Init PROVE IInv
<1>1. TypeOK
  <2>1. NoRow \in Rows /\ 0 \in Days
    BY DEF InvoicesAssumed, NoRow, Rows, Days, Dates, NoDay
  <2>2. invoices \in [Invoices -> Rows] /\ lines \in [Invoices -> SUBSET (1..MaxSaves)]
    BY <2>1 DEF Init
  <2>3. told \in [Invoices -> [Days -> Nat]]
    BY DEF Init
  <2>4. job \in [at : {"asleep", "read", "sent"}, due : SUBSET Invoices]
    BY DEF Init, Asleep
  <2>5. day \in Days /\ next \in Nat /\ saves \in 0..MaxSaves /\ restarts \in 0..MaxRestarts
    BY <2>1 DEF Init, InvoicesAssumed
  <2>6. nine \in BOOLEAN /\ up \in BOOLEAN
    BY DEF Init
  <2>7. silent \subseteq Days /\ late \subseteq Invoices
    BY DEF Init
  <2>8. \A A : req \in [Slots -> A \cup {Idle}]
    BY DEF Init
  <2> QED
    BY <2>2, <2>3, <2>4, <2>5, <2>6, <2>7, <2>8 DEF TypeOK
<1>2. RowsOK /\ ReqOK
  BY DEF Init, RowsOK, ReqOK, RowOK, NoRow, NoDay
<1>3. CronOK /\ ToldOK /\ DueOK
  BY <1>1 DEF Init, CronOK, ToldOK, ToldOnceADay, DueOK, Owed, Live, NoRow, Asleep, TypeOK
<1> QED
  BY <1>1, <1>2, <1>3 DEF IInv

\* A due date is a number.
LEMMA DueInt ==
    ASSUME InvoicesAssumed, NEW given \in Dates, NEW terms \in Terms, NEW date \in 0..day, day \in Days
    PROVE  DueDate(given, terms, date) \in Int /\ date \in Days
BY DEF InvoicesAssumed, DueDate, parseNetDays, Dates, Days, NoDay, NoTerms

\* Tardy is just what is behind or about to be served.
LEMMA BehindIsTardy ==
    ASSUME NEW d \in Int, day \in Days, Behind(d)
    PROVE  Tardy(d)
BY DEF Behind, Tardy, NoDay, Days

\* A save of one row keeps the invariant, if the row is true and its due date
\* was marked.
LEMMA SaveKeeps ==
    ASSUME IInv, TypeOK', NEW i \in Invoices, NEW r, RowOK(i, r),
           invoices' = [invoices EXCEPT ![i] = r],
           r.st = "live" /\ r.status = "unpaid" /\ Behind(r.due) => i \in late',
           \A j \in Invoices \ {i} : j \in late <=> j \in late',
           ReqOK',
           UNCHANGED <<clock, cron>>
    PROVE  IInv'
<1>1. UNCHANGED <<day, nine, up, next, job, told, silent>>
  BY DEF clock, cron
<1>2. invoices'[i] = r /\ \A j \in Invoices \ {i} : invoices'[j] = invoices[j]
  BY DEF IInv, TypeOK
<1>3. RowsOK'
  <2>1. \A j \in Invoices : RowOK(j, invoices'[j])
    BY <1>2 DEF IInv, RowsOK
  <2> QED
    BY <1>1, <2>1 DEF RowsOK, RowOK, ToldOf
<1>4. CronOK' /\ ToldOK'
  BY <1>1 DEF IInv, CronOK, ToldOK, ToldOnceADay
<1>5. DueOK'
  <2> SUFFICES ASSUME NEW j \in Invoices, Owed(j)' PROVE Answered(j, invoices[j].due)'
    BY DEF DueOK
  <2>1. j # i
    BY <1>1, <1>2 DEF Owed, Live, Behind
  <2>2. Owed(j)
    BY <1>1, <1>2, <2>1 DEF Owed, Live, Behind
  <2> QED
    BY <1>1, <1>2, <2>1, <2>2 DEF IInv, DueOK, Answered, ToldOf
<1> QED
  BY <1>3, <1>4, <1>5 DEF IInv

\* A step that saves nothing and leaves the calendar alone.
LEMMA QuietKeeps ==
    ASSUME IInv, TypeOK', UNCHANGED <<books, clock, cron, late>>, ReqOK'
    PROVE  IInv'
<1>1. UNCHANGED <<invoices, day, nine, up, next, job, told, silent, late>>
  BY DEF books, clock, cron
<1>2. RowsOK'
  BY <1>1 DEF IInv, RowsOK, RowOK, ToldOf
<1>3. CronOK' /\ ToldOK'
  BY <1>1 DEF IInv, CronOK, ToldOK, ToldOnceADay
<1>4. DueOK'
  BY <1>1 DEF IInv, DueOK, Owed, Live, Behind, Answered, ToldOf
<1> QED
  BY <1>2, <1>3, <1>4 DEF IInv

-----------------------------------------------------------------------------
(* The form.                                                               *)

LEMMA CreateKeeps ==
    ASSUME InvoicesAssumed, IInv, NEW i \in Invoices, NEW date \in 0..day, NEW given \in Dates,
           NEW terms \in Terms, NEW total \in Amounts, Create(i, date, given, terms, total)
    PROVE  IInv'
<1> DEFINE due == DueDate(given, terms, date)
           r == [st |-> "live", date |-> date, due |-> due, status |-> paymentStatusFromTerms(terms),
                 paid_at |-> IF terms = 0 THEN day ELSE NoDay, reminded |-> NoDay, total |-> total]
<1>1. due \in Int /\ date \in Days
  BY DueInt DEF IInv, TypeOK
<1>2. /\ invoices' = [invoices EXCEPT ![i] = r]
      /\ late' = Marked(i, due)
      /\ lines' = [lines EXCEPT ![i] = {saves + 1}]
      /\ saves' = saves + 1 /\ saves < MaxSaves
      /\ UNCHANGED <<clock, cron, restarts, req>>
  BY DEF Create
<1>3. r \in Rows
  BY <1>1 DEF Rows, paymentStatusFromTerms, IInv, TypeOK, Dates
<1> HIDE DEF due
<1>4. TypeOK'
  <2>1. saves' \in 0..MaxSaves /\ lines' \in [Invoices -> SUBSET (1..MaxSaves)]
    BY <1>2 DEF IInv, TypeOK, InvoicesAssumed
  <2>2. invoices' \in [Invoices -> Rows] /\ late' \subseteq Invoices
    BY <1>2, <1>3 DEF IInv, TypeOK, Marked
  <2> QED
    BY <1>2, <2>1, <2>2 DEF IInv, TypeOK, clock, cron
<1>5. RowOK(i, r)
  BY DEF RowOK, paymentStatusFromTerms, NoDay, IInv, TypeOK, Days
<1>6. Behind(r.due) => i \in late'
  BY <1>1, <1>2, BehindIsTardy DEF Marked, IInv, TypeOK
<1>7. \A j \in Invoices \ {i} : j \in late <=> j \in late'
  BY <1>2 DEF Marked
<1>8. ReqOK'
  BY <1>2 DEF IInv, ReqOK, RowOK, ToldOf, cron, TypeOK
<1> HIDE DEF r
<1> QED
  BY <1>2, <1>4, <1>5, <1>6, <1>7, <1>8, SaveKeeps

\* Reading an invoice copies a true row.
LEMMA ReadKeeps ==
    ASSUME InvoicesAssumed, IInv, NEW s \in Slots, NEW i \in Invoices, NEW op \in {"update", "pay"},
           FindByID(s, i, op), saves' \in 0..MaxSaves, saves' >= saves, op = "update" => saves' > 0,
           UNCHANGED <<books, clock, cron, late, restarts>>
    PROVE  IInv'
<1>1. req' = [req EXCEPT ![s] = [op |-> op, i |-> i, seen |-> invoices[i], lines |-> lines[i]]]
  BY DEF FindByID
<1>2. TypeOK'
  BY <1>1 DEF IInv, TypeOK, books, clock, cron
<1>3. ReqOK'
  <2> SUFFICES ASSUME NEW t \in Slots, (req[t] # Idle)'
               PROVE  (RowOK(req[t].i, req[t].seen) /\ (req[t].op = "update" => saves > 0))'
    BY DEF ReqOK
  <2>1. told' = told
    BY DEF cron
  <2>2. CASE t = s
    BY <1>1, <2>1, <2>2 DEF IInv, RowsOK, RowOK, ToldOf, TypeOK
  <2>3. CASE t # s
    BY <1>1, <2>1, <2>3 DEF IInv, ReqOK, RowOK, ToldOf, TypeOK
  <2> QED
    BY <2>2, <2>3
<1> QED
  BY <1>2, <1>3, QuietKeeps

LEMMA UpdateKeeps ==
    ASSUME InvoicesAssumed, IInv, NEW s \in Slots, NEW date \in 0..day, NEW given \in Dates,
           NEW terms \in Terms, NEW total \in Amounts, CommitUpdate(s, date, given, terms, total)
    PROVE  IInv'
<1> DEFINE due == DueDate(given, terms, date)
           i == req[s].i
           r == [req[s].seen EXCEPT !.date = date, !.due = due, !.total = total]
<1>1. due \in Int /\ date \in Days
  BY DueInt DEF IInv, TypeOK
<1>2. /\ invoices' = [invoices EXCEPT ![i] = r]
      /\ late' = Marked(i, due)
      /\ lines' = [lines EXCEPT ![i] = {saves}]
      /\ req' = [req EXCEPT ![s] = Idle]
      /\ UNCHANGED <<clock, cron, saves, restarts>>
  BY DEF CommitUpdate, Done
<1>3. req[s] # Idle /\ i \in Invoices /\ req[s].seen \in Rows
  BY DEF CommitUpdate, IInv, TypeOK, Idle
<1>4. r \in Rows /\ r.due = due /\ r.status = req[s].seen.status
      /\ r.paid_at = req[s].seen.paid_at /\ r.reminded = req[s].seen.reminded
  BY <1>1, <1>3 DEF Rows
<1>5. {saves} \in SUBSET (1..MaxSaves)
  BY <1>3 DEF IInv, ReqOK, TypeOK, CommitUpdate
<1> HIDE DEF due, i, r
<1>6. TypeOK'
  <2>1. invoices' \in [Invoices -> Rows] /\ late' \subseteq Invoices
        /\ lines' \in [Invoices -> SUBSET (1..MaxSaves)]
    BY <1>2, <1>3, <1>4, <1>5 DEF IInv, TypeOK, Marked
  <2> QED
    BY <1>2, <2>1 DEF IInv, TypeOK, clock, cron
<1>7. RowOK(i, r)
  BY <1>3, <1>4 DEF RowOK, IInv, ReqOK, i
<1>8. Behind(r.due) => i \in late'
  BY <1>1, <1>2, <1>4, BehindIsTardy DEF Marked, IInv, TypeOK
<1>9. \A j \in Invoices \ {i} : j \in late <=> j \in late'
  BY <1>2 DEF Marked
<1>10. ReqOK'
  BY <1>2 DEF IInv, ReqOK, RowOK, ToldOf, cron, TypeOK
<1> QED
  BY <1>2, <1>3, <1>6, <1>7, <1>8, <1>9, <1>10, SaveKeeps

LEMMA PayKeeps ==
    ASSUME InvoicesAssumed, IInv, NEW s \in Slots, CommitMarkAsPaid(s)
    PROVE  IInv'
<1> DEFINE i == req[s].i
           r == [req[s].seen EXCEPT !.status = "paid", !.paid_at = day]
<1>1. /\ invoices' = [invoices EXCEPT ![i] = r]
      /\ late' = Marked(i, req[s].seen.due)
      /\ lines' = [lines EXCEPT ![i] = @ \cup req[s].lines]
      /\ req' = [req EXCEPT ![s] = Idle]
      /\ UNCHANGED <<clock, cron, saves, restarts>>
  BY DEF CommitMarkAsPaid, Done
<1>2. /\ req[s] # Idle /\ i \in Invoices /\ req[s].seen \in Rows
      /\ req[s].lines \in SUBSET (1..MaxSaves)
  BY DEF CommitMarkAsPaid, IInv, TypeOK, Idle
<1>3. r \in Rows /\ r.status = "paid" /\ r.paid_at = day /\ r.reminded = req[s].seen.reminded
  BY <1>2 DEF Rows, IInv, TypeOK, Dates
<1> HIDE DEF i, r
<1>4. TypeOK'
  <2>1. invoices' \in [Invoices -> Rows] /\ late' \subseteq Invoices
        /\ lines' \in [Invoices -> SUBSET (1..MaxSaves)]
    BY <1>1, <1>2, <1>3 DEF IInv, TypeOK, Marked
  <2> QED
    BY <1>1, <2>1 DEF IInv, TypeOK, clock, cron
<1>5. RowOK(i, r)
  BY <1>2, <1>3 DEF RowOK, IInv, ReqOK, i, TypeOK, Days, NoDay
<1>6. \A j \in Invoices \ {i} : j \in late <=> j \in late'
  BY <1>1 DEF Marked
<1>7. ReqOK'
  BY <1>1 DEF IInv, ReqOK, RowOK, ToldOf, cron, TypeOK
<1> QED
  BY <1>1, <1>2, <1>3, <1>4, <1>5, <1>6, <1>7, SaveKeeps

LEMMA DeleteKeeps ==
    ASSUME InvoicesAssumed, IInv, NEW i \in Invoices, Delete(i)
    PROVE  IInv'
<1> DEFINE r == [invoices[i] EXCEPT !.st = "deleted"]
<1>1. /\ invoices' = [invoices EXCEPT ![i] = r]
      /\ UNCHANGED <<lines, clock, cron, late, saves, restarts, req>>
  BY DEF Delete
<1>2. /\ r \in Rows /\ r.st = "deleted" /\ r.status = invoices[i].status
      /\ r.paid_at = invoices[i].paid_at /\ r.reminded = invoices[i].reminded
  BY DEF Rows, IInv, TypeOK
<1> HIDE DEF r
<1>3. TypeOK'
  BY <1>1, <1>2 DEF IInv, TypeOK, clock, cron
<1>4. RowOK(i, r)
  BY <1>2 DEF RowOK, IInv, RowsOK
<1>5. ReqOK'
  BY <1>1 DEF IInv, ReqOK, RowOK, ToldOf, cron
<1> QED
  BY <1>1, <1>2, <1>3, <1>4, <1>5, SaveKeeps

-----------------------------------------------------------------------------
(* The reminder and the calendar.                                          *)

LEMMA StartKeeps ==
    ASSUME InvoicesAssumed, IInv, Start
    PROVE  IInv'
<1>1. /\ ~up /\ up' /\ next' = NextNine /\ job' = Asleep
      /\ UNCHANGED <<invoices, lines, day, nine, told, silent, late, saves, restarts, req>>
  BY DEF Start, books, clock
<1>2. day \in Nat /\ next' \in {day, day + 1} /\ (nine <=> next' = day + 1)
  BY <1>1 DEF NextNine, IInv, TypeOK, Days
<1>3. TypeOK'
  BY <1>1, <1>2 DEF IInv, TypeOK, Asleep
<1>4. RowsOK' /\ ReqOK'
  BY <1>1 DEF IInv, RowsOK, ReqOK, RowOK, ToldOf
<1>5. CronOK' /\ ToldOK'
  BY <1>1, <1>2 DEF IInv, CronOK, ToldOK, ToldOnceADay, Asleep
<1>6. DueOK'
  <2> SUFFICES ASSUME NEW i \in Invoices, Owed(i)' PROVE Answered(i, invoices[i].due)'
    BY DEF DueOK
  <2>1. Owed(i)
    BY <1>1, <1>2 DEF Owed, Live, Behind
  <2>2. job.at = "asleep"
    BY <1>1 DEF IInv, CronOK
  <2> QED
    BY <1>1, <2>1, <2>2 DEF IInv, DueOK, Answered, ToldOf
<1> QED
  BY <1>3, <1>4, <1>5, <1>6 DEF IInv

LEMMA StopKeeps ==
    ASSUME InvoicesAssumed, IInv, Stop
    PROVE  IInv'
<1>1. /\ up /\ ~up' /\ job' = Asleep
      /\ silent' = IF nine /\ (next = day \/ job.at = "read") THEN silent \cup {day} ELSE silent
      /\ restarts < MaxRestarts /\ restarts' = restarts + 1
      /\ req' = [s \in Slots |-> Idle]
      /\ UNCHANGED <<invoices, lines, day, nine, next, told, late, saves>>
  BY DEF Stop, books, clock
<1>2. TypeOK'
  <2>1. silent' \subseteq Days /\ restarts' \in 0..MaxRestarts
    BY <1>1 DEF IInv, TypeOK, InvoicesAssumed
  <2>2. job' \in [at : {"asleep", "read", "sent"}, due : SUBSET Invoices]
    BY <1>1 DEF Asleep
  <2>3. \A A : req' \in [Slots -> A \cup {Idle}]
    BY <1>1
  <2>4. ~up' /\ up' \in BOOLEAN
    BY <1>1 DEF Stop
  <2> QED
    BY <1>1, <2>1, <2>2, <2>3, <2>4 DEF IInv, TypeOK
<1>3. RowsOK' /\ ReqOK'
  BY <1>1 DEF IInv, RowsOK, ReqOK, RowOK, ToldOf
<1>4. CronOK' /\ ToldOK'
  BY <1>1 DEF IInv, CronOK, ToldOK, ToldOnceADay, Asleep
<1>5. DueOK'
  <2> SUFFICES ASSUME NEW i \in Invoices, Owed(i)' PROVE Answered(i, invoices[i].due)'
    BY DEF DueOK
  <2>1. CASE Owed(i)
    BY <1>1, <2>1 DEF IInv, DueOK, Answered, ToldOf, CronOK
  <2>2. CASE ~Owed(i)
    <3>1. invoices[i].due = day /\ nine /\ next = day
      BY <1>1, <2>2 DEF Owed, Live, Behind
    <3> QED
      BY <1>1, <3>1 DEF Answered
  <2> QED
    BY <2>1, <2>2
<1> QED
  BY <1>2, <1>3, <1>4, <1>5 DEF IInv

LEMMA ReadKeepsDue ==
    ASSUME InvoicesAssumed, IInv, NEW reachable \in BOOLEAN, ReadDue(reachable)
    PROVE  IInv'
<1>1. /\ up /\ nine /\ next = day /\ job = Asleep /\ next' = day + 1
      /\ job' = IF reachable /\ FindDueToday # {} THEN [at |-> "read", due |-> FindDueToday] ELSE Asleep
      /\ silent' = IF reachable THEN silent ELSE silent \cup {day}
      /\ UNCHANGED <<invoices, lines, day, nine, up, told, late, saves, restarts, req>>
  BY DEF ReadDue, books, clock
<1>2. FindDueToday \subseteq Invoices /\ day \in Nat
  BY DEF FindDueToday, IInv, TypeOK, Days
<1>3. TypeOK'
  <2>1. job' \in [at : {"asleep", "read", "sent"}, due : SUBSET Invoices] /\ silent' \subseteq Days
    BY <1>1, <1>2 DEF Asleep, IInv, TypeOK
  <2> QED
    BY <1>1, <1>2, <2>1 DEF IInv, TypeOK
<1>4. RowsOK' /\ ReqOK'
  BY <1>1 DEF IInv, RowsOK, ReqOK, RowOK, ToldOf
<1>5. CronOK'
  BY <1>1, <1>2 DEF IInv, CronOK
<1>6. ToldOK'
  BY <1>1, <1>2 DEF IInv, ToldOK, ToldOnceADay, Asleep
<1>7. DueOK'
  <2> SUFFICES ASSUME NEW i \in Invoices, Owed(i)' PROVE Answered(i, invoices[i].due)'
    BY DEF DueOK
  <2>1. CASE Owed(i)
    BY <1>1, <2>1 DEF IInv, DueOK, Answered, ToldOf, Asleep
  <2>2. CASE ~Owed(i)
    <3>1. Live(i) /\ invoices[i].status = "unpaid" /\ invoices[i].due = day
      BY <1>1, <1>2, <2>2 DEF Owed, Live, Behind
    <3>2. CASE invoices[i].reminded = NoDay
      BY <1>1, <3>1, <3>2 DEF Answered, FindDueToday
    <3>3. CASE invoices[i].reminded # NoDay
      BY <1>1, <3>3 DEF Answered, IInv, RowsOK, RowOK, ToldOf
    <3> QED
      BY <3>2, <3>3
  <2> QED
    BY <2>1, <2>2
<1> QED
  BY <1>3, <1>4, <1>5, <1>6, <1>7 DEF IInv

LEMMA SendKeeps ==
    ASSUME InvoicesAssumed, IInv, SendReminder
    PROVE  IInv'
<1>1. /\ job.at = "read" /\ job' = [job EXCEPT !.at = "sent"]
      /\ told' = [i \in Invoices |-> IF i \in job.due THEN [told[i] EXCEPT ![day] = @ + 1] ELSE told[i]]
      /\ UNCHANGED <<invoices, lines, day, nine, up, next, silent, late, saves, restarts, req>>
  BY DEF SendReminder, books, clock
<1>2. job'.at = "sent" /\ job'.due = job.due /\ day \in Days /\ day \in Nat
      /\ up /\ nine /\ next = day + 1
  BY <1>1 DEF IInv, TypeOK, CronOK, Days
<1>3. \A i \in Invoices : told[i] \in [Days -> Nat] /\ told[i][day] = 0
  BY <1>1 DEF IInv, TypeOK, ToldOK
<1>4. \A i \in Invoices, d \in Days :
        told'[i][d] = IF i \in job.due /\ d = day THEN 1 ELSE told[i][d]
  BY <1>1, <1>2, <1>3
<1>5. TypeOK'
  <2>1. told' \in [Invoices -> [Days -> Nat]]
    BY <1>1, <1>2, <1>3
  <2> QED
    BY <1>1, <2>1 DEF IInv, TypeOK
<1>6. \A i \in Invoices : ToldOf(i) => ToldOf(i)'
  BY <1>3, <1>4 DEF ToldOf
<1>7. RowsOK' /\ ReqOK'
  <2>1. RowsOK'
    BY <1>1, <1>6 DEF IInv, RowsOK, RowOK
  <2>2. \A s \in Slots : req[s] # Idle => req[s].i \in Invoices
    BY DEF IInv, TypeOK
  <2> QED
    BY <1>1, <1>6, <2>1, <2>2 DEF IInv, ReqOK, RowOK
<1>8. CronOK'
  BY <1>1, <1>2 DEF IInv, CronOK
<1>9. ToldOK'
  BY <1>1, <1>2, <1>4 DEF IInv, ToldOK, ToldOnceADay, TypeOK
<1>10. DueOK'
  <2> SUFFICES ASSUME NEW i \in Invoices, Owed(i)' PROVE Answered(i, invoices[i].due)'
    BY DEF DueOK
  <2>1. Owed(i)
    BY <1>1 DEF Owed, Live, Behind
  <2>2. i \in job.due => ToldOf(i)'
    BY <1>2, <1>4 DEF ToldOf
  <2> QED
    BY <1>1, <1>6, <2>1, <2>2 DEF IInv, DueOK, Answered
<1> QED
  BY <1>5, <1>7, <1>8, <1>9, <1>10 DEF IInv

LEMMA MarkKeeps ==
    ASSUME InvoicesAssumed, IInv, NEW i \in Invoices, MarkReminderSent(i)
    PROVE  IInv'
<1> DEFINE r == [invoices[i] EXCEPT !.reminded = IF Live(i) THEN day ELSE @]
<1>1. /\ job.at = "sent" /\ i \in job.due
      /\ invoices' = [invoices EXCEPT ![i] = r]
      /\ job' = IF job.due = {i} THEN Asleep ELSE [job EXCEPT !.due = @ \ {i}]
      /\ UNCHANGED <<lines, day, nine, up, next, told, silent, late, saves, restarts, req>>
  BY DEF MarkReminderSent, clock
<1>2. /\ r \in Rows /\ r.status = invoices[i].status /\ r.st = invoices[i].st
      /\ r.paid_at = invoices[i].paid_at /\ r.due = invoices[i].due
      /\ r.reminded \in {day, invoices[i].reminded}
  BY DEF Rows, IInv, TypeOK, Dates
<1> HIDE DEF r
<1>3. \A j \in Invoices : invoices'[j] = IF j = i THEN r ELSE invoices[j]
  BY <1>1 DEF IInv, TypeOK
<1>4. job' \in [at : {"asleep", "sent"}, due : SUBSET Invoices] /\ job'.due \subseteq job.due
  BY <1>1 DEF IInv, TypeOK, Asleep
<1>5. TypeOK'
  BY <1>1, <1>2, <1>4 DEF IInv, TypeOK
<1>6. ToldOf(i)
  BY <1>1 DEF IInv, ToldOK, ToldOf, TypeOK
<1>7. RowsOK' /\ ReqOK'
  BY <1>1, <1>2, <1>3, <1>6 DEF IInv, RowsOK, ReqOK, RowOK, ToldOf
<1>8. CronOK' /\ ToldOK'
  BY <1>1, <1>4 DEF IInv, CronOK, ToldOK, ToldOnceADay
<1>9. DueOK'
  BY <1>1, <1>2, <1>3, <1>4 DEF IInv, DueOK, Owed, Live, Behind, Answered, ToldOf
<1> QED
  BY <1>5, <1>7, <1>8, <1>9 DEF IInv

LEMMA TickKeeps ==
    ASSUME InvoicesAssumed, IInv, Tick
    PROVE  IInv'
<1>1. /\ job = Asleep /\ (nine /\ up => next # day)
      /\ silent' = IF ~nine /\ ~up THEN silent \cup {day} ELSE silent
      /\ UNCHANGED <<invoices, lines, up, next, job, told, late, saves, restarts, req>>
  BY DEF Tick, books
<1>2. \/ nine /\ day < LastDay /\ day' = day + 1 /\ nine' = FALSE
      \/ ~nine /\ nine' = TRUE /\ day' = day
  BY DEF Tick, IInv, TypeOK
<1>3. day \in Nat /\ day \in Days /\ day' \in Nat /\ day' \in Days
  BY <1>2 DEF IInv, TypeOK, Days, InvoicesAssumed
<1>4. TypeOK'
  <2>1. silent' \subseteq Days /\ nine' \in BOOLEAN
    BY <1>1, <1>2, <1>3 DEF IInv, TypeOK
  <2> QED
    BY <1>1, <1>3, <2>1 DEF IInv, TypeOK
<1>5. RowsOK' /\ ReqOK'
  BY <1>1 DEF IInv, RowsOK, ReqOK, RowOK, ToldOf
<1>6. job.at = "asleep"
  BY <1>1 DEF Asleep
<1>7. CronOK'
  BY <1>1, <1>2, <1>3, <1>6 DEF IInv, CronOK
<1>8. ToldOK'
  <2>1. CASE nine
    BY <1>1, <1>2, <1>3, <1>6, <2>1 DEF IInv, ToldOK, ToldOnceADay
  <2>2. CASE ~nine
    BY <1>1, <1>2, <1>3, <1>6, <2>2 DEF IInv, ToldOK, ToldOnceADay
  <2> QED
    BY <2>1, <2>2
<1>9. DueOK'
  <2> SUFFICES ASSUME NEW i \in Invoices, Owed(i)' PROVE Answered(i, invoices[i].due)'
    BY DEF DueOK
  <2>1. CASE Owed(i)
    BY <1>1, <1>6, <2>1 DEF IInv, DueOK, Answered, ToldOf
  <2>2. CASE ~Owed(i)
    <3>1. invoices[i].due = day /\ ~nine /\ ~up
      BY <1>1, <1>2, <1>3, <2>2 DEF Owed, Live, Behind, IInv, CronOK
    <3> QED
      BY <1>1, <3>1 DEF Answered
  <2> QED
    BY <2>1, <2>2
<1> QED
  BY <1>4, <1>5, <1>7, <1>8, <1>9 DEF IInv

LEMMA NextIInv ==
    ASSUME InvoicesAssumed, IInv, [Next]_vars
    PROVE  IInv'
<1>1. CASE UNCHANGED vars
  <2>1. UNCHANGED <<invoices, lines, day, nine, up, next, job, told, silent, late, saves, restarts, req>>
    BY <1>1 DEF vars, books, clock, cron
  <2> QED
    BY <2>1 DEF IInv, TypeOK, RowsOK, ReqOK, RowOK, CronOK, ToldOK, ToldOnceADay, DueOK, Owed,
                Live, Behind, Answered, ToldOf
<1>2. ASSUME NEW i \in Invoices, NEW date \in 0..day, NEW given \in Dates, NEW terms \in Terms,
             NEW total \in Amounts, Create(i, date, given, terms, total)
      PROVE  IInv'
  BY <1>2, CreateKeeps
<1>3. ASSUME NEW s \in Slots, NEW i \in Invoices, BeginUpdate(s, i)
      PROVE  IInv'
  <2>1. saves' \in 0..MaxSaves /\ saves' >= saves /\ saves' > 0
    BY <1>3 DEF BeginUpdate, IInv, TypeOK, InvoicesAssumed
  <2> QED
    BY <1>3, <2>1, ReadKeeps DEF BeginUpdate
<1>4. ASSUME NEW s \in Slots, NEW i \in Invoices, BeginMarkAsPaid(s, i)
      PROVE  IInv'
  <2>1. saves' \in 0..MaxSaves /\ saves' >= saves
    BY <1>4 DEF BeginMarkAsPaid, IInv, TypeOK, InvoicesAssumed
  <2> QED
    BY <1>4, <2>1, ReadKeeps DEF BeginMarkAsPaid
<1>5. ASSUME NEW s \in Slots, NEW date \in 0..day, NEW given \in Dates, NEW terms \in Terms,
             NEW total \in Amounts, CommitUpdate(s, date, given, terms, total)
      PROVE  IInv'
  BY <1>5, UpdateKeeps
<1>6. ASSUME NEW s \in Slots, CommitMarkAsPaid(s)
      PROVE  IInv'
  BY <1>6, PayKeeps
<1>7. ASSUME NEW i \in Invoices, Delete(i) \/ MarkReminderSent(i)
      PROVE  IInv'
  BY <1>7, DeleteKeeps, MarkKeeps
<1>8. ASSUME NEW reachable \in BOOLEAN, ReadDue(reachable)
      PROVE  IInv'
  BY <1>8, ReadKeepsDue
<1>9. ASSUME SendReminder \/ Start \/ Stop \/ Tick
      PROVE  IInv'
  BY <1>9, SendKeeps, StartKeeps, StopKeeps, TickKeeps
<1> QED
  BY <1>1, <1>2, <1>3, <1>4, <1>5, <1>6, <1>7, <1>8, <1>9 DEF Next

\* A payment is undone only by an edit that began before it was saved.
LEMMA PaymentStep == ASSUME IInv, Next PROVE PaymentKept
<1> SUFFICES ASSUME NEW i \in Invoices, Live(i), invoices[i].status = "paid"
             PROVE  \/ invoices'[i].status = "paid"
                    \/ \E s \in Slots : req[s].i = i /\ req[s].op = "update" /\ req[s].seen.status = "unpaid"
  BY DEF PaymentKept
<1>1. invoices \in [Invoices -> Rows]
  BY DEF IInv, TypeOK
<1>2. CASE UNCHANGED invoices
  BY <1>2
<1>3. ASSUME NEW j \in Invoices, NEW date \in 0..day, NEW given \in Dates, NEW terms \in Terms,
             NEW total \in Amounts, Create(j, date, given, terms, total)
      PROVE  invoices'[i].status = "paid"
  <2>1. j # i
    BY <1>3 DEF Create, Live
  <2> QED
    BY <1>1, <1>3, <2>1 DEF Create
<1>4. ASSUME NEW j \in Invoices, Delete(j) \/ MarkReminderSent(j)
      PROVE  invoices'[i].status = "paid"
  BY <1>1, <1>4 DEF Delete, MarkReminderSent, Rows
<1>5. ASSUME NEW s \in Slots, NEW date \in 0..day, NEW given \in Dates, NEW terms \in Terms,
             NEW total \in Amounts, CommitUpdate(s, date, given, terms, total)
      PROVE  \/ invoices'[i].status = "paid"
             \/ req[s].i = i /\ req[s].op = "update" /\ req[s].seen.status = "unpaid"
  <2>1. req[s].op = "update" /\ req[s].seen \in Rows
    BY <1>5 DEF CommitUpdate, IInv, TypeOK, Idle
  <2>2. CASE req[s].i = i
    BY <1>1, <1>5, <2>1, <2>2 DEF CommitUpdate, Rows
  <2>3. CASE req[s].i # i
    BY <1>1, <1>5, <2>3 DEF CommitUpdate
  <2> QED
    BY <2>2, <2>3
<1>6. ASSUME NEW s \in Slots, CommitMarkAsPaid(s)
      PROVE  invoices'[i].status = "paid"
  <2>1. req[s].seen \in Rows
    BY <1>6 DEF CommitMarkAsPaid, IInv, TypeOK, Idle
  <2> QED
    BY <1>1, <1>6, <2>1 DEF CommitMarkAsPaid, Rows
<1>7. ASSUME NEW s \in Slots, NEW j \in Invoices, BeginUpdate(s, j) \/ BeginMarkAsPaid(s, j)
      PROVE  UNCHANGED invoices
  BY <1>7 DEF BeginUpdate, BeginMarkAsPaid, books
<1>8. ASSUME NEW reachable \in BOOLEAN, ReadDue(reachable)
      PROVE  UNCHANGED invoices
  BY <1>8 DEF ReadDue, books
<1>9. ASSUME SendReminder \/ Start \/ Stop \/ Tick
      PROVE  UNCHANGED invoices
  BY <1>9 DEF SendReminder, Start, Stop, Tick, books
<1> QED
  BY <1>2, <1>3, <1>4, <1>5, <1>6, <1>7, <1>8, <1>9 DEF Next

-----------------------------------------------------------------------------
(* The price history.                                                      *)

Todos == {Log!NoTodo, <<"regular">>, <<"member">>, <<"regular", "member">>, <<"tier">>}
Record == [op : Log!Ops, read : [Log!Kinds -> Log!Values], todo : Todos, closed : BOOLEAN, alone : BOOLEAN]
TypeInv ==
    /\ priced \in [Log!Kinds -> Log!Values] /\ newest \in [Log!Kinds -> Log!Values]
    /\ opened \in [Log!Kinds -> Nat] /\ missed \in [Log!Kinds -> 0..MaxMissed]
    /\ writer \in [Slots -> Record]
    /\ astray \in SUBSET Log!Kinds
    /\ changes \in 0..MaxChanges

\* Which kind a handler is about to log, and which it still may.
Logs(r, k) == k \in Log!ToSet(r.todo)
OfTier(r) == r.op \in {"created", "tier", "refetch", "bury", "delete"} \/ Logs(r, "tier")
Pends(r, k) == Logs(r, k) \/ (k = "tier" /\ r.op \in {"created", "refetch", "delete"})

RecordOK(r) ==
    /\ r.todo = Log!NoTodo <=> r.op \notin {"log", "bury"}
    /\ r.op = "bury" => r.todo = <<"tier">>
    /\ r.op = "idle" => r = Log!Idle
    /\ r.todo = Log!NoTodo => ~r.closed
    /\ \A k \in Log!OfProduct : r.read[k] # Log!Gone
    /\ r.op \in {"update", "toggle"} => r.read["regular"] # 0

\* What a handler that runs alone has read is so.
AloneOK(r, p, n, o, m, a) ==
    r.alone =>
        /\ r.op \in {"update", "toggle"} => \A k \in Log!OfProduct : r.read[k] = p[k]
        /\ OfTier(r) => p["tier"] # Log!Gone
        /\ r.op = "log" => \A k \in Log!Kinds : Logs(r, k) => r.read[k] = p[k]
        /\ r.op = "bury" /\ r.closed /\ m["tier"] = 0 => o["tier"] = 0
        /\ r.op = "delete" /\ "tier" \notin a => n["tier"] = Log!Gone /\ (m["tier"] = 0 => o["tier"] = 0)

PricesOK ==
    /\ priced["regular"] = 0 => priced = [k \in Log!Kinds |-> 0] /\ \A s \in Slots : writer[s] = Log!Idle
    /\ priced["tier"] = 0 => opened["tier"] = 0 /\ \A s \in Slots : ~OfTier(writer[s])
    /\ priced["tier"] = Log!Gone /\ "tier" \notin astray => \A s \in Slots : ~OfTier(writer[s])
    /\ \A k \in Log!OfProduct : priced[k] # Log!Gone
WritersOK ==
    \A s \in Slots :
        /\ RecordOK(writer[s])
        /\ writer[s].alone => \A t \in Slots \ {s} : writer[t] = Log!Idle
        /\ AloneOK(writer[s], priced, newest, opened, missed, astray)
HistoryOK ==
    \A k \in Log!Kinds \ astray :
        /\ \A s \in Slots : writer[s].op = "log" /\ Logs(writer[s], k) => writer[s].read[k] = priced[k]
        /\ (\A s \in Slots : ~Pends(writer[s], k)) => newest[k] = priced[k]
        /\ priced[k] = Log!Gone /\ missed[k] = 0 => opened[k] = 0

LogIInv == TypeInv /\ PricesOK /\ WritersOK /\ HistoryOK


LEMMA TodoFacts ==
    ASSUME NEW td \in Todos
    PROVE  /\ td = Log!NoTodo => Log!ToSet(td) = {}
           /\ td # Log!NoTodo => /\ Head(td) \in Log!Kinds /\ Tail(td) \in Todos
                                 /\ Log!ToSet(td) = {Head(td)} \cup Log!ToSet(Tail(td))
                                 /\ Head(td) \notin Log!ToSet(Tail(td))
           /\ td # Log!NoTodo /\ "tier" \in Log!ToSet(td) => td = <<"tier">>
           /\ td \in Seq(Log!Kinds)
<1>1. CASE td = Log!NoTodo
  BY <1>1 DEF Log!NoTodo, Log!ToSet
<1>2. CASE td = <<"regular">>
  BY <1>2 DEF Log!NoTodo, Log!ToSet, Todos, Log!Kinds, Log!OfProduct
<1>3. CASE td = <<"member">>
  BY <1>3 DEF Log!NoTodo, Log!ToSet, Todos, Log!Kinds, Log!OfProduct
<1>4. CASE td = <<"regular", "member">>
  <2>1. Head(td) = "regular" /\ Tail(td) = <<"member">>
    BY <1>4
  <2>2. Log!ToSet(td) = {"regular", "member"} /\ Log!ToSet(<<"member">>) = {"member"}
    BY <1>4 DEF Log!ToSet
  <2>3. td # Log!NoTodo /\ td \in Seq(Log!Kinds)
    BY <1>4 DEF Log!NoTodo, Log!Kinds, Log!OfProduct
  <2> QED
    BY <2>1, <2>2, <2>3 DEF Todos, Log!Kinds, Log!OfProduct
<1>5. CASE td = <<"tier">>
  BY <1>5 DEF Log!NoTodo, Log!ToSet, Todos, Log!Kinds, Log!OfProduct
<1> QED
  BY <1>1, <1>2, <1>3, <1>4, <1>5 DEF Todos

LEMMA TierTodo == Log!ToSet(<<"tier">>) = {"tier"} /\ <<"tier">> # Log!NoTodo /\ <<"tier">> \in Todos /\ Log!NoTodo \in Todos
BY DEF Log!ToSet, Log!NoTodo, Todos

LEMMA ToLogFacts ==
    ASSUME NEW old, NEW new
    PROVE  /\ Log!ToLog(old, new) \in Todos
           /\ \A k : k \in Log!ToSet(Log!ToLog(old, new)) <=> k \in Log!OfProduct /\ new[k] # old[k]
<1> DEFINE a == Log!IfMoved(old, new, "regular")
           b == Log!IfMoved(old, new, "member")
<1>0. Log!ToLog(old, new) = a \o b
  BY DEF Log!ToLog
<1>1. CASE new["regular"] # old["regular"] /\ new["member"] # old["member"]
  <2>1. a = <<"regular">> /\ b = <<"member">>
    BY <1>1 DEF Log!IfMoved, Log!Moved
  <2>4. <<"regular">> \in Seq({"regular", "member"})
    OBVIOUS
  <2>5. Append(<<"regular">>, "member") = <<"regular", "member">>
    <3> DEFINE c == Append(<<"regular">>, "member")
               d == <<"regular", "member">>
               K == {"regular", "member"}
    <3>1. Len(<<"regular">>) = 1
      OBVIOUS
    <3>2. c \in Seq(K) /\ Len(c) = 2 /\ c[1] = "regular" /\ c[2] = "member"
      BY <2>4, <3>1
    <3>3. d \in Seq(K) /\ Len(d) = 2 /\ d[1] = "regular" /\ d[2] = "member"
      OBVIOUS
    <3> HIDE DEF c, d, K
    <3>4. \A i \in 1..Len(c) : c[i] = d[i]
      BY <3>2, <3>3
    <3> QED
      BY <3>2, <3>3, <3>4, SeqEqual DEF c, d
  <2>3. <<"regular">> \o <<"member">> = <<"regular", "member">>
    BY <2>4, <2>5, AppendIsConcat
  <2>2. Log!ToSet(<<"regular", "member">>) = {"regular", "member"}
    BY DEF Log!ToSet
  <2> QED
    BY <1>0, <1>1, <2>1, <2>2, <2>3 DEF Todos, Log!OfProduct
<1>2. CASE new["regular"] # old["regular"] /\ new["member"] = old["member"]
  <2>1. a \o b = <<"regular">>
    BY <1>2 DEF Log!IfMoved, Log!Moved, Log!NoTodo
  <2>2. Log!ToSet(<<"regular">>) = {"regular"}
    BY DEF Log!ToSet
  <2> QED
    BY <1>0, <1>2, <2>1, <2>2 DEF Todos, Log!OfProduct
<1>3. CASE new["regular"] = old["regular"] /\ new["member"] # old["member"]
  <2>1. a \o b = <<"member">>
    BY <1>3 DEF Log!IfMoved, Log!Moved, Log!NoTodo
  <2>2. Log!ToSet(<<"member">>) = {"member"}
    BY DEF Log!ToSet
  <2> QED
    BY <1>0, <1>3, <2>1, <2>2 DEF Todos, Log!OfProduct
<1>4. CASE new["regular"] = old["regular"] /\ new["member"] = old["member"]
  <2>1. a \o b = Log!NoTodo
    BY <1>4 DEF Log!IfMoved, Log!Moved, Log!NoTodo
  <2>2. Log!ToSet(Log!NoTodo) = {}
    BY DEF Log!ToSet, Log!NoTodo
  <2> QED
    BY <1>0, <1>4, <2>1, <2>2 DEF Todos, Log!OfProduct
<1> QED
  BY <1>1, <1>2, <1>3, <1>4

LEMMA IdleFacts ==
    /\ Log!Idle \in Record /\ RecordOK(Log!Idle) /\ ~OfTier(Log!Idle) /\ ~Log!Idle.alone /\ Log!Idle.op = "idle" /\ ~Log!Idle.closed
    /\ \A k : ~Logs(Log!Idle, k) /\ ~Pends(Log!Idle, k)
<1>1. Log!ToSet(Log!NoTodo) = {}
  BY DEF Log!ToSet, Log!NoTodo
<1>2. Log!Idle.todo = Log!NoTodo /\ Log!Idle.op = "idle" /\ Log!Idle.read = [k \in Log!Kinds |-> 0] /\ ~Log!Idle.alone /\ ~Log!Idle.closed
  BY DEF Log!Idle
<1>3. [k \in Log!Kinds |-> 0] \in [Log!Kinds -> Log!Values]
  BY DEF Log!Values
<1>4. Log!Idle \in Record
  BY <1>3 DEF Log!Idle, Record, Log!Ops, Todos
<1>5. \A k : ~Logs(Log!Idle, k)
  BY <1>1, <1>2 DEF Logs
<1>6. RecordOK(Log!Idle)
  BY <1>2 DEF RecordOK, Log!Gone, Log!OfProduct, Log!Kinds
<1> QED
  BY <1>2, <1>4, <1>5, <1>6 DEF OfTier, Pends

\* A handler that starts is alone if no other is at work; it ends the others'
\* being alone.
LogBegan(s, op, read, todo) ==
    /\ writer[s] = Log!Idle /\ changes' \in 0..MaxChanges /\ writer' \in [Slots -> Record]
    /\ writer'[s].op = op /\ writer'[s].read = read /\ writer'[s].todo = todo /\ ~writer'[s].closed
    /\ writer'[s].alone = (\A t \in Slots \ {s} : writer[t] = Log!Idle)
    /\ \A t \in Slots \ {s} :
         /\ writer[t] = Log!Idle => writer'[t] = Log!Idle
         /\ writer'[t].op = writer[t].op /\ writer'[t].read = writer[t].read
         /\ writer'[t].todo = writer[t].todo /\ writer'[t].closed = writer[t].closed
         /\ ~writer'[t].alone
         /\ writer[t].op = "idle" => writer'[t] = Log!Idle
LEMMA StartedFacts ==
    ASSUME LogIInv, NEW s \in Slots, NEW op \in Log!Ops, NEW read \in [Log!Kinds -> Log!Values], NEW todo \in Todos,
           Log!Started(s, op, read, todo), PriceLogAssumed
    PROVE  LogBegan(s, op, read, todo)
<1> DEFINE r == [op |-> op, read |-> read, todo |-> todo, closed |-> FALSE,
                 alone |-> \A u \in Slots \ {s} : writer[u] = Log!Idle]
           q(t) == [writer[t] EXCEPT !.alone = FALSE]
<1>1. writer[s] = Log!Idle /\ changes' = changes + 1 /\ changes < MaxChanges
  BY DEF Log!Started
<1>2. changes' \in 0..MaxChanges
  BY <1>1 DEF LogIInv, TypeInv, PriceLogAssumed
<1>3. writer \in [Slots -> Record] /\ \A t \in Slots : writer[t].op = "idle" => writer[t] = Log!Idle
  BY DEF LogIInv, TypeInv, WritersOK, RecordOK
<1>4. writer' = [t \in Slots |-> IF t = s THEN r ELSE q(t)]
  BY DEF Log!Started
<1>5. r \in Record /\ r.op = op /\ r.read = read /\ r.todo = todo /\ r.closed = FALSE
      /\ r.alone = (\A t \in Slots \ {s} : writer[t] = Log!Idle)
  BY DEF Record
<1>6. ASSUME NEW t \in Slots
      PROVE  /\ q(t) \in Record /\ q(t).op = writer[t].op /\ q(t).read = writer[t].read
             /\ q(t).todo = writer[t].todo /\ q(t).closed = writer[t].closed /\ ~q(t).alone
             /\ writer[t] = Log!Idle => q(t) = Log!Idle
  <2>1. writer[t] \in Record
    BY <1>3
  <2>2. [Log!Idle EXCEPT !.alone = FALSE] = Log!Idle
    <3>1. \A q1 \in Record : q1.alone = FALSE => [q1 EXCEPT !.alone = FALSE] = q1
      BY DEF Record
    <3> QED
      BY <3>1, IdleFacts
  <2> QED
    BY <2>1, <2>2 DEF Record
<1> HIDE DEF r, q
<1>7. writer' \in [Slots -> Record] /\ writer'[s] = r /\ \A t \in Slots \ {s} : writer'[t] = q(t)
  BY <1>4, <1>5, <1>6
<1> QED
  BY <1>1, <1>2, <1>3, <1>5, <1>6, <1>7 DEF LogBegan

\* What starting a handler must show.
LEMMA LogStartKeeps ==
    ASSUME LogIInv, NEW s \in Slots, NEW op \in Log!Ops, NEW read \in [Log!Kinds -> Log!Values], NEW todo \in Todos,
           Log!Started(s, op, read, todo), PriceLogAssumed, RecordOK(writer'[s]),
           TypeInv', PricesOK', HistoryOK',
           AloneOK(writer'[s], priced', newest', opened', missed', astray')
    PROVE  LogIInv'
<1>1. /\ writer'[s].alone = (\A t \in Slots \ {s} : writer[t] = Log!Idle)
      /\ \A t \in Slots \ {s} :
            /\ writer[t] = Log!Idle => writer'[t] = Log!Idle
            /\ writer'[t].op = writer[t].op /\ writer'[t].read = writer[t].read
            /\ writer'[t].todo = writer[t].todo /\ writer'[t].closed = writer[t].closed
            /\ ~writer'[t].alone
            /\ writer[t].op = "idle" => writer'[t] = Log!Idle
  BY StartedFacts DEF LogBegan
<1>2. ASSUME NEW t \in Slots \ {s}
      PROVE  /\ RecordOK(writer'[t])
             /\ writer'[t].alone => \A u \in Slots \ {t} : writer'[u] = Log!Idle
             /\ AloneOK(writer'[t], priced', newest', opened', missed', astray')
  <2>1. RecordOK(writer[t])
    BY DEF LogIInv, WritersOK
  <2> QED
    BY <1>1, <2>1 DEF RecordOK, AloneOK
<1>3. writer'[s].alone => \A u \in Slots \ {s} : writer'[u] = Log!Idle
  BY <1>1
<1>4. WritersOK'
  BY <1>2, <1>3 DEF WritersOK
<1> QED
  BY <1>4 DEF LogIInv

\* What a later step of a handler must show: of the others, none is alone.
LEMMA LogMoveKeeps ==
    ASSUME LogIInv, NEW s \in Slots, writer[s] # Log!Idle,
           \A t \in Slots \ {s} : writer'[t] = writer[t],
           RecordOK(writer'[s]), writer'[s].alone => writer[s].alone,
           TypeInv', PricesOK', HistoryOK',
           AloneOK(writer'[s], priced', newest', opened', missed', astray')
    PROVE  LogIInv'
<1>3. \A t \in Slots : RecordOK(writer[t]) /\ (writer[t].alone => \A u \in Slots \ {t} : writer[u] = Log!Idle)
  BY DEF LogIInv, WritersOK
<1>4. ASSUME NEW t \in Slots \ {s} PROVE ~writer[t].alone
  BY <1>3
<1>5. WritersOK'
  BY <1>3, <1>4 DEF WritersOK, AloneOK
<1> QED
  BY <1>5 DEF LogIInv

\* A handler that goes on, or is done.
LogWent(s, op, read, todo, closed) ==
    /\ writer' \in [Slots -> Record]
    /\ \A t \in Slots \ {s} : writer'[t] = writer[t]
    /\ todo = Log!NoTodo => writer'[s] = Log!Idle
    /\ todo # Log!NoTodo =>
          /\ writer'[s].op = op /\ writer'[s].read = read /\ writer'[s].todo = todo
          /\ writer'[s].closed = closed /\ writer'[s].alone = writer[s].alone
LEMMA GoOnFacts ==
    ASSUME LogIInv, NEW s \in Slots, NEW op \in Log!Ops, NEW read \in [Log!Kinds -> Log!Values], NEW todo \in Todos,
           NEW closed \in BOOLEAN, Log!GoOn(s, op, read, todo, closed)
    PROVE  LogWent(s, op, read, todo, closed)
<1> DEFINE q == [writer[s] EXCEPT !.op = op, !.read = read, !.todo = todo, !.closed = closed]
<1>1. writer \in [Slots -> Record] /\ writer[s] \in Record
  BY DEF LogIInv, TypeInv
<1>2. q \in Record /\ q.op = op /\ q.read = read /\ q.todo = todo /\ q.closed = closed /\ q.alone = writer[s].alone
  BY <1>1 DEF Record
<1>3. writer' = [writer EXCEPT ![s] = IF todo = Log!NoTodo THEN Log!Idle ELSE q]
  BY DEF Log!GoOn
<1> HIDE DEF q
<1> QED
  BY <1>1, <1>2, <1>3, IdleFacts DEF LogWent

\* The first save of a product: nothing was there, and nobody else is at work.
LEMMA LogCreateKeeps ==
    ASSUME PriceLogAssumed, LogIInv, NEW s \in Slots, NEW new \in Log!Prices, Log!Create(s, new)
    PROVE  LogIInv'
<1> DEFINE todo == Log!ToLog(priced, new)
<1>1. /\ priced = [k \in Log!Kinds |-> 0] /\ \A t \in Slots : writer[t] = Log!Idle
      /\ priced' = new /\ Log!Started(s, "log", new, todo) /\ UNCHANGED <<opened, newest, missed, astray>>
  BY DEF LogIInv, PricesOK, Log!Create, Log!Rows
<1>2. /\ new \in [Log!Kinds -> Log!Values] /\ new["regular"] # 0 /\ new["tier"] = 0
      /\ \A k \in Log!Kinds : new[k] # Log!Gone
  BY DEF Log!Prices, Log!Values, PriceLogAssumed, Log!Gone, Log!Kinds, Log!OfProduct
<1>3. todo \in Todos /\ (\A k : k \in Log!ToSet(todo) <=> k \in Log!OfProduct /\ new[k] # priced[k]) /\ "log" \in Log!Ops
  BY ToLogFacts DEF Log!Ops
<1> HIDE DEF todo
<1>4. /\ changes' \in 0..MaxChanges /\ writer' \in [Slots -> Record]
      /\ writer'[s].op = "log" /\ writer'[s].read = new /\ writer'[s].todo = todo /\ ~writer'[s].closed
      /\ \A t \in Slots \ {s} : writer'[t] = Log!Idle
  <2>1. LogBegan(s, "log", new, todo)
    BY <1>1, <1>2, <1>3, StartedFacts
  <2> QED
    BY <1>1, <2>1 DEF LogBegan
<1>5. TypeInv'
  BY <1>1, <1>2, <1>4 DEF LogIInv, TypeInv
<1>6. \A k : Logs(writer'[s], k) <=> k \in Log!OfProduct /\ new[k] # priced[k]
  BY <1>3, <1>4 DEF Logs
<1>7. todo # Log!NoTodo /\ "regular" \in Log!Kinds /\ "regular" \in Log!OfProduct /\ "tier" \notin Log!OfProduct
  BY <1>1, <1>2, <1>3, TodoFacts DEF Log!Kinds, Log!OfProduct
<1>8. RecordOK(writer'[s])
  BY <1>2, <1>4, <1>7 DEF RecordOK, Log!Kinds
<1>9. ~OfTier(writer'[s])
  BY <1>4, <1>6, <1>7 DEF OfTier
<1>10. \A t \in Slots : ~OfTier(writer'[t])
  BY <1>4, <1>9, IdleFacts
<1>11. opened["tier"] = 0
  BY <1>1 DEF LogIInv, PricesOK, Log!Kinds
<1>12. PricesOK'
  BY <1>1, <1>2, <1>10, <1>11 DEF PricesOK, Log!Kinds
<1>13. \A k \in Log!Kinds \ astray : newest[k] = 0
  <2>1. \A k \in Log!Kinds, t \in Slots : ~Pends(writer[t], k)
    BY <1>1, IdleFacts
  <2> QED
    BY <1>1, <2>1 DEF LogIInv, HistoryOK
<1>14. HistoryOK'
  <2> SUFFICES ASSUME NEW k \in Log!Kinds \ astray
               PROVE  /\ \A t \in Slots : writer'[t].op = "log" /\ Logs(writer'[t], k) => writer'[t].read[k] = new[k]
                      /\ (\A t \in Slots : ~Pends(writer'[t], k)) => newest[k] = new[k]
                      /\ new[k] # Log!Gone
    BY <1>1 DEF HistoryOK
  <2>1. \A t \in Slots : writer'[t].op = "log" => writer'[t].read[k] = new[k]
    BY <1>4, IdleFacts
  <2>2. (\A t \in Slots : ~Pends(writer'[t], k)) => new[k] = 0
    BY <1>1, <1>2, <1>6 DEF Pends, Log!Kinds
  <2> QED
    BY <1>2, <1>13, <2>1, <2>2
<1>15. AloneOK(writer'[s], priced', newest', opened', missed', astray')
  BY <1>1, <1>2, <1>4, <1>9, <1>6 DEF AloneOK
<1> QED
  BY <1>1, <1>2, <1>3, <1>5, <1>8, <1>12, <1>14, <1>15, LogStartKeeps

ReadAll(op, read) ==
    /\ op \in {"update", "toggle", "tier", "bury"} /\ read = priced /\ priced["regular"] # 0
    /\ op \in {"tier", "bury"} => priced["tier"] \in Tags
TodoOf(op) == IF op = "bury" THEN <<"tier">> ELSE Log!NoTodo

\* A handler that reads the prices, to change the product or its tier.
LEMMA LogBeginKeeps ==
    ASSUME PriceLogAssumed, LogIInv, NEW s \in Slots, NEW op \in Log!Ops, NEW read \in [Log!Kinds -> Log!Values],
           NEW todo \in Todos, ReadAll(op, read), todo = TodoOf(op),
           Log!Started(s, op, read, todo), UNCHANGED <<priced, opened, newest, missed, astray>>
    PROVE  LogIInv'
<1>1. UNCHANGED <<priced, opened, newest, missed, astray>> /\ priced \in [Log!Kinds -> Log!Values]
  BY DEF LogIInv, TypeInv
<1>2. /\ writer[s] = Log!Idle /\ changes' \in 0..MaxChanges /\ writer' \in [Slots -> Record]
      /\ writer'[s].op = op /\ writer'[s].read = priced /\ writer'[s].todo = todo /\ ~writer'[s].closed
      /\ \A t \in Slots \ {s} :
            writer'[t].op = writer[t].op /\ writer'[t].read = writer[t].read /\ writer'[t].todo = writer[t].todo
  <2>1. LogBegan(s, op, read, todo)
    BY StartedFacts
  <2>2. read = priced
    BY DEF ReadAll
  <2> QED
    BY <2>1, <2>2 DEF LogBegan
<1>3. TypeInv'
  BY <1>1, <1>2 DEF LogIInv, TypeInv
<1>4. \A k : Logs(writer'[s], k) <=> op = "bury" /\ k = "tier"
  BY <1>2, TodoFacts, TierTodo DEF Logs, TodoOf
<1>5. RecordOK(writer'[s])
  BY <1>2, TierTodo DEF RecordOK, LogIInv, PricesOK, TodoOf, ReadAll, Log!Ops
<1>6. \A t \in Slots \ {s} : /\ OfTier(writer'[t]) = OfTier(writer[t])
                             /\ \A k : Logs(writer'[t], k) = Logs(writer[t], k) /\ Pends(writer'[t], k) = Pends(writer[t], k)
  BY <1>2 DEF OfTier, Logs, Pends
<1>7. OfTier(writer'[s]) => priced["tier"] \in Tags /\ priced["tier"] # 0 /\ priced["tier"] # Log!Gone
  BY <1>2, <1>4 DEF OfTier, PriceLogAssumed, Log!Gone, ReadAll
<1>8. PricesOK'
  BY <1>1, <1>6, <1>7 DEF LogIInv, PricesOK, ReadAll
<1>9. \A k : ~Pends(writer[s], k)
  BY <1>2, IdleFacts
<1>10. HistoryOK'
  <2> SUFFICES ASSUME NEW k \in Log!Kinds \ astray
               PROVE  /\ \A t \in Slots : writer'[t].op = "log" /\ Logs(writer'[t], k) => writer'[t].read[k] = priced[k]
                      /\ (\A t \in Slots : ~Pends(writer'[t], k)) => newest[k] = priced[k]
                      /\ priced[k] = Log!Gone /\ missed[k] = 0 => opened[k] = 0
    BY <1>1 DEF HistoryOK
  <2>1. \A t \in Slots : writer'[t].op = "log" /\ Logs(writer'[t], k) => writer'[t].read[k] = priced[k]
    BY <1>2, <1>6 DEF LogIInv, HistoryOK
  <2>2. (\A t \in Slots : ~Pends(writer'[t], k)) => newest[k] = priced[k]
    BY <1>6, <1>9 DEF LogIInv, HistoryOK
  <2> QED
    BY <2>1, <2>2 DEF LogIInv, HistoryOK
<1>11. AloneOK(writer'[s], priced', newest', opened', missed', astray')
  BY <1>1, <1>2, <1>7 DEF AloneOK, ReadAll
<1> QED
  BY <1>1, <1>2, <1>3, <1>5, <1>8, <1>10, <1>11, LogStartKeeps

\* The product page is saved, with what it will log; a handler that did not run
\* alone leaves the history astray.
LEMMA SaveUpdateKeeps ==
    ASSUME PriceLogAssumed, LogIInv, NEW s \in Slots, NEW new \in Log!Prices, Log!SaveUpdate(s, new)
    PROVE  LogIInv'
<1> DEFINE read == writer[s].read
           todo == Log!ToLog(read, new)
<1>1. /\ writer[s].op = "update" /\ Log!GoOn(s, "log", new, todo, FALSE)
      /\ UNCHANGED <<opened, newest, missed, changes>>
      /\ priced' = [k \in Log!Kinds |-> IF k \in Log!OfProduct THEN new[k] ELSE priced[k]]
      /\ astray' = IF writer[s].alone THEN astray ELSE astray \cup Log!OfProduct
  BY DEF Log!SaveUpdate, Log!Rows, Log!Touched
<1>2. /\ new \in [Log!Kinds -> Log!Values] /\ new["regular"] # 0 /\ \A k \in Log!Kinds : new[k] # Log!Gone
  BY DEF Log!Prices, Log!Values, PriceLogAssumed, Log!Gone, Log!Kinds, Log!OfProduct
<1>3. todo \in Todos /\ (\A k : k \in Log!ToSet(todo) <=> k \in Log!OfProduct /\ new[k] # read[k]) /\ "log" \in Log!Ops
  BY ToLogFacts DEF Log!Ops
<1> HIDE DEF todo
<1>4. LogWent(s, "log", new, todo, FALSE)
  BY <1>1, <1>2, <1>3, GoOnFacts
<1>5. /\ writer' \in [Slots -> Record] /\ \A t \in Slots \ {s} : writer'[t] = writer[t]
      /\ writer'[s].alone => writer[s].alone
      /\ writer'[s].op \in {"idle", "log"} /\ (writer'[s].op = "log" => writer'[s].read = new)
      /\ \A k : Logs(writer'[s], k) <=> k \in Log!OfProduct /\ new[k] # read[k]
  BY <1>3, <1>4, IdleFacts, TodoFacts DEF LogWent, Logs
<1>6. Log!OfProduct \subseteq Log!Kinds /\ "tier" \in Log!Kinds \ Log!OfProduct /\ Log!Kinds = Log!OfProduct \cup {"tier"}
      /\ "regular" \in Log!OfProduct
  BY DEF Log!Kinds, Log!OfProduct
<1>7. TypeInv'
  BY <1>1, <1>2, <1>5, <1>6 DEF LogIInv, TypeInv
<1>8. RecordOK(writer'[s])
  <2>1. \A k \in Log!OfProduct : new[k] # Log!Gone
    BY <1>2, <1>6
  <2>2. "log" \notin {"update", "toggle", "bury", "idle"}
    OBVIOUS
  <2> QED
    BY <1>4, <2>1, <2>2, IdleFacts DEF LogWent, RecordOK
<1>9. writer[s].todo = Log!NoTodo /\ writer[s] # Log!Idle /\ \A k : ~Logs(writer[s], k) /\ ~Pends(writer[s], k)
  <2>1. RecordOK(writer[s]) /\ writer[s].todo \in Todos
    BY DEF LogIInv, WritersOK, TypeInv, Record
  <2>2. writer[s].todo = Log!NoTodo
    BY <1>1, <2>1 DEF RecordOK
  <2>3. \A k : ~Logs(writer[s], k)
    BY <2>1, <2>2, TodoFacts DEF Logs
  <2> QED
    BY <1>1, <2>2, <2>3, IdleFacts DEF Pends
<1>10. \A t \in Slots : OfTier(writer'[t]) = OfTier(writer[t])
  BY <1>1, <1>5, <1>6, <1>9 DEF OfTier
<1>11. priced["regular"] # 0
  BY <1>9 DEF LogIInv, PricesOK
<1>12. PricesOK'
  <2>1. priced'["tier"] = priced["tier"] /\ \A k \in Log!OfProduct : priced'[k] = new[k]
    BY <1>1, <1>6
  <2>2. "tier" \notin astray' => "tier" \notin astray
    BY <1>1
  <2>3. priced'["regular"] # 0 /\ \A k \in Log!OfProduct : priced'[k] # Log!Gone
    BY <1>2, <1>6, <2>1
  <2> QED
    BY <1>1, <1>10, <2>1, <2>2, <2>3 DEF LogIInv, PricesOK
<1>13. writer[s].alone => /\ \A k \in Log!OfProduct : read[k] = priced[k]
                          /\ \A t \in Slots \ {s} : writer[t] = Log!Idle
  BY <1>1 DEF LogIInv, WritersOK, AloneOK
<1>14. ASSUME NEW k \in Log!Kinds \ astray'
       PROVE  /\ \A t \in Slots : writer'[t].op = "log" /\ Logs(writer'[t], k) => writer'[t].read[k] = priced'[k]
              /\ (\A t \in Slots : ~Pends(writer'[t], k)) => newest[k] = priced'[k]
              /\ priced'[k] = Log!Gone /\ missed[k] = 0 => opened[k] = 0
  <2>0. k \notin astray
    BY <1>1
  <2>1. CASE k = "tier"
    <3>1. priced'[k] = priced[k]
      BY <1>1, <2>1, <1>6
    <3>2. \A t \in Slots : Logs(writer'[t], k) => t # s
      BY <1>5, <1>6, <2>1
    <3>3. \A t \in Slots : Pends(writer'[t], k) = Pends(writer[t], k)
      BY <1>5, <1>6, <1>9, <2>1 DEF Pends
    <3> QED
      BY <1>5, <2>0, <3>1, <3>2, <3>3 DEF LogIInv, HistoryOK
  <2>2. CASE k \in Log!OfProduct
    <3>1. writer[s].alone /\ priced'[k] = new[k] /\ read[k] = priced[k]
      BY <1>1, <1>6, <1>13, <2>2
    <3>2. \A t \in Slots \ {s} : writer'[t] = Log!Idle
      BY <1>5, <1>13, <3>1
    <3>3. \A t \in Slots : writer'[t].op = "log" => writer'[t].read[k] = priced'[k]
      BY <1>5, <3>1, <3>2, IdleFacts
    <3>4. \A t \in Slots : ~Pends(writer[t], k)
      BY <1>9, <1>13, <3>1, IdleFacts
    <3>5. newest[k] = priced[k]
      BY <2>0, <3>4 DEF LogIInv, HistoryOK
    <3>6. ~Pends(writer'[s], k) => new[k] = read[k]
      BY <1>5, <2>2 DEF Pends
    <3> QED
      BY <1>2, <1>6, <2>2, <3>1, <3>3, <3>5, <3>6
  <2> QED
    BY <1>6, <2>1, <2>2
<1>15. HistoryOK'
  BY <1>1, <1>14 DEF HistoryOK
<1>16. AloneOK(writer'[s], priced', newest', opened', missed', astray')
  <2>1. ~OfTier(writer'[s])
    BY <1>1, <1>10, <1>9 DEF OfTier
  <2>2. \A k \in Log!Kinds : Logs(writer'[s], k) => new[k] = priced'[k]
    BY <1>1, <1>5, <1>6
  <2> QED
    BY <1>5, <2>1, <2>2 DEF AloneOK
<1> QED
  BY <1>5, <1>7, <1>8, <1>9, <1>12, <1>15, <1>16, LogMoveKeeps

\* The product page is saved as it was read.
LEMMA SaveToggleKeeps ==
    ASSUME PriceLogAssumed, LogIInv, NEW s \in Slots, Log!SaveToggle(s)
    PROVE  LogIInv'
<1> DEFINE read == writer[s].read
<1>1. /\ writer[s].op = "toggle" /\ writer' = [writer EXCEPT ![s] = Log!Idle]
      /\ UNCHANGED <<opened, newest, missed, changes>>
      /\ priced' = [k \in Log!Kinds |-> IF k \in Log!OfProduct THEN read[k] ELSE priced[k]]
      /\ astray' = IF writer[s].alone THEN astray ELSE astray \cup Log!OfProduct
  BY DEF Log!SaveToggle, Log!Rows, Log!Touched
<1>2. writer \in [Slots -> Record] /\ writer[s] \in Record /\ RecordOK(writer[s]) /\ read \in [Log!Kinds -> Log!Values]
      /\ astray \subseteq Log!Kinds /\ priced \in [Log!Kinds -> Log!Values]
  BY DEF LogIInv, TypeInv, Record, WritersOK
<1>3. writer' \in [Slots -> Record] /\ writer'[s] = Log!Idle /\ \A t \in Slots \ {s} : writer'[t] = writer[t]
  BY <1>1, <1>2, IdleFacts
<1>6. Log!OfProduct \subseteq Log!Kinds /\ "tier" \in Log!Kinds \ Log!OfProduct /\ Log!Kinds = Log!OfProduct \cup {"tier"}
      /\ "regular" \in Log!OfProduct
  BY DEF Log!Kinds, Log!OfProduct
<1>7. TypeInv'
  BY <1>1, <1>2, <1>3, <1>6 DEF LogIInv, TypeInv
<1>9. writer[s] # Log!Idle /\ \A k : ~Logs(writer[s], k) /\ ~Pends(writer[s], k)
  <2>2. writer[s].todo = Log!NoTodo /\ writer[s].todo \in Todos
    BY <1>1, <1>2 DEF RecordOK, Record
  <2>3. \A k : ~Logs(writer[s], k)
    BY <2>2, TodoFacts DEF Logs
  <2> QED
    BY <1>1, <2>2, <2>3, IdleFacts DEF Pends
<1>10. \A t \in Slots : OfTier(writer'[t]) = OfTier(writer[t])
  BY <1>1, <1>3, <1>9, IdleFacts DEF OfTier
<1>12. PricesOK'
  <2>1. priced'["tier"] = priced["tier"] /\ \A k \in Log!OfProduct : priced'[k] = read[k]
    BY <1>1, <1>6
  <2>2. "tier" \notin astray' => "tier" \notin astray
    BY <1>1
  <2>3. priced'["regular"] # 0 /\ \A k \in Log!OfProduct : priced'[k] # Log!Gone
    BY <1>1, <1>2, <1>6, <2>1 DEF RecordOK
  <2> QED
    BY <1>1, <1>10, <2>1, <2>2, <2>3 DEF LogIInv, PricesOK
<1>14. ASSUME NEW k \in Log!Kinds \ astray'
       PROVE  k \notin astray /\ priced'[k] = priced[k]
  <2>1. writer[s].alone => \A j \in Log!OfProduct : read[j] = priced[j]
    BY <1>1 DEF LogIInv, WritersOK, AloneOK
  <2> QED
    BY <1>1, <1>6, <2>1
<1>15. HistoryOK'
  <2>1. \A k, t : t \in Slots /\ Logs(writer'[t], k) => writer'[t] = writer[t]
    BY <1>3, IdleFacts
  <2>2. \A k, t : t \in Slots => (Pends(writer'[t], k) <=> Pends(writer[t], k))
    BY <1>3, <1>9, IdleFacts
  <2>3. ASSUME NEW k \in Log!Kinds \ astray'
        PROVE  /\ \A t \in Slots : writer'[t].op = "log" /\ Logs(writer'[t], k) => writer'[t].read[k] = priced'[k]
               /\ (\A t \in Slots : ~Pends(writer'[t], k)) => newest[k] = priced'[k]
               /\ priced'[k] = Log!Gone /\ missed[k] = 0 => opened[k] = 0
    <3>1. k \in Log!Kinds \ astray /\ priced'[k] = priced[k]
      BY <1>14
    <3>2. \A t \in Slots : writer[t].op = "log" /\ Logs(writer[t], k) => writer[t].read[k] = priced[k]
      BY <3>1 DEF LogIInv, HistoryOK
    <3>3. \A t \in Slots : writer'[t].op = "log" /\ Logs(writer'[t], k) => writer'[t].read[k] = priced[k]
      BY <2>1, <3>2
    <3>4. (\A t \in Slots : ~Pends(writer[t], k)) => newest[k] = priced[k]
      BY <3>1 DEF LogIInv, HistoryOK
    <3> QED
      BY <2>2, <3>1, <3>3, <3>4 DEF LogIInv, HistoryOK
  <2> QED
    BY <1>1, <2>3 DEF HistoryOK
<1>16. AloneOK(writer'[s], priced', newest', opened', missed', astray')
  BY <1>3, IdleFacts DEF AloneOK
<1>17. RecordOK(writer'[s]) /\ ~writer'[s].alone
  BY <1>3, IdleFacts
<1> QED
  BY <1>3, <1>7, <1>9, <1>12, <1>15, <1>16, <1>17, LogMoveKeeps

\* A new tier: nothing of the tier was there.
LEMMA CreateTierKeeps ==
    ASSUME PriceLogAssumed, LogIInv, NEW s \in Slots, NEW v \in Tags, Log!CreateTier(s, v)
    PROVE  LogIInv'
<1> DEFINE p == [priced EXCEPT !["tier"] = v]
<1>0. Log!OfProduct \subseteq Log!Kinds /\ "tier" \in Log!Kinds \ Log!OfProduct /\ Log!Kinds = Log!OfProduct \cup {"tier"}
      /\ "regular" \in Log!OfProduct
  BY DEF Log!Kinds, Log!OfProduct
<1>1. /\ priced["regular"] # 0 /\ priced["tier"] = 0 /\ priced' = p
      /\ Log!Started(s, "created", p, Log!NoTodo) /\ UNCHANGED <<opened, newest, missed, astray>>
  BY DEF Log!CreateTier, Log!Rows
<1>2. priced \in [Log!Kinds -> Log!Values] /\ v \in Log!Values /\ v # 0 /\ v # Log!Gone
  BY DEF LogIInv, TypeInv, Log!Values, PriceLogAssumed, Log!Gone
<1>3. p \in [Log!Kinds -> Log!Values] /\ p["tier"] = v /\ \A k \in Log!OfProduct : p[k] = priced[k]
  BY <1>0, <1>2
<1> HIDE DEF p
<1>4. LogBegan(s, "created", p, Log!NoTodo)
  <2>1. "created" \in Log!Ops /\ Log!NoTodo \in Todos
    BY DEF Log!Ops, Todos
  <2> QED
    BY <1>1, <1>3, <2>1, StartedFacts
<1>5. TypeInv'
  BY <1>1, <1>3, <1>4 DEF LogIInv, TypeInv, LogBegan
<1>6. \A k : ~Logs(writer'[s], k)
  BY <1>4, TodoFacts, TierTodo DEF Logs, LogBegan
<1>7. opened["tier"] = 0 /\ (\A t \in Slots : ~OfTier(writer[t])) /\ \A k \in Log!OfProduct : priced[k] # Log!Gone
  BY <1>1 DEF LogIInv, PricesOK
<1>8. RecordOK(writer'[s])
  BY <1>3, <1>4, <1>7 DEF RecordOK, LogBegan
<1>9. \A t \in Slots \ {s} : \A k :
         /\ Logs(writer'[t], k) = Logs(writer[t], k)
         /\ Pends(writer'[t], k) = Pends(writer[t], k)
         /\ writer'[t].op = writer[t].op /\ writer'[t].read = writer[t].read
  BY <1>4 DEF LogBegan, Logs, Pends
<1>10. PricesOK'
  BY <1>0, <1>1, <1>2, <1>3, <1>7 DEF PricesOK
<1>11. \A k : ~Pends(writer[s], k)
  BY <1>4, IdleFacts DEF LogBegan
<1>12. writer'[s].op = "created" /\ Pends(writer'[s], "tier")
  BY <1>4 DEF LogBegan, Pends
<1>13. ASSUME NEW k \in Log!Kinds \ astray'
       PROVE  /\ \A t \in Slots : writer'[t].op = "log" /\ Logs(writer'[t], k) => writer'[t].read[k] = priced'[k]
              /\ (\A t \in Slots : ~Pends(writer'[t], k)) => newest[k] = priced'[k]
              /\ priced'[k] = Log!Gone /\ missed[k] = 0 => opened[k] = 0
  <2>1. CASE k = "tier"
    <3>1. \A t \in Slots : ~Logs(writer'[t], k)
      BY <1>6, <1>7, <1>9, <2>1 DEF OfTier
    <3> QED
      BY <1>1, <1>2, <1>3, <1>12, <2>1, <3>1
  <2>2. CASE k \in Log!OfProduct
    <3>1. priced'[k] = priced[k] /\ k \notin astray
      BY <1>1, <1>3, <2>2
    <3>2. (\A t \in Slots : ~Pends(writer'[t], k)) => (\A t \in Slots : ~Pends(writer[t], k))
      BY <1>9, <1>11
    <3>3. \A t \in Slots : writer'[t].op = "log" /\ Logs(writer'[t], k) => writer'[t].read[k] = priced[k]
      BY <1>6, <1>9, <3>1 DEF LogIInv, HistoryOK
    <3> QED
      BY <3>1, <3>2, <3>3 DEF LogIInv, HistoryOK
  <2> QED
    BY <1>0, <2>1, <2>2
<1>14. HistoryOK'
  BY <1>1, <1>13 DEF HistoryOK
<1>15. AloneOK(writer'[s], priced', newest', opened', missed', astray')
  BY <1>1, <1>2, <1>3, <1>12 DEF AloneOK
<1>16. "created" \in Log!Ops /\ Log!NoTodo \in Todos
  BY DEF Log!Ops, Todos
<1> QED
  BY <1>1, <1>3, <1>5, <1>8, <1>10, <1>14, <1>15, <1>16, LogStartKeeps

\* The tier's row is saved, if it is still there.
LEMMA SaveTierKeeps ==
    ASSUME PriceLogAssumed, LogIInv, NEW s \in Slots, NEW v \in Tags, Log!SaveTier(s, v)
    PROVE  LogIInv'
<1>0. Log!OfProduct \subseteq Log!Kinds /\ "tier" \in Log!Kinds \ Log!OfProduct /\ Log!Kinds = Log!OfProduct \cup {"tier"}
      /\ "regular" \in Log!OfProduct
  BY DEF Log!Kinds, Log!OfProduct
<1>1. /\ writer[s].op = "tier" /\ writer' = [writer EXCEPT ![s].op = "refetch", ![s].read["tier"] = v]
      /\ priced' = [priced EXCEPT !["tier"] = IF @ = Log!Gone THEN Log!Gone ELSE v]
      /\ astray' = (IF writer[s].alone THEN astray ELSE astray \cup {"tier"})
      /\ UNCHANGED <<opened, newest, missed, changes>>
  BY DEF Log!SaveTier, Log!Touched, Log!Rows
<1>2. /\ priced \in [Log!Kinds -> Log!Values] /\ v \in Log!Values /\ v # 0 /\ v # Log!Gone /\ Log!Gone \in Log!Values
      /\ writer \in [Slots -> Record] /\ writer[s] \in Record /\ RecordOK(writer[s]) /\ astray \subseteq Log!Kinds
  BY DEF LogIInv, TypeInv, Log!Values, PriceLogAssumed, Log!Gone, WritersOK
<1>3. /\ priced' \in [Log!Kinds -> Log!Values] /\ priced'["tier"] = (IF priced["tier"] = Log!Gone THEN Log!Gone ELSE v)
      /\ \A k \in Log!OfProduct : priced'[k] = priced[k]
  BY <1>0, <1>1, <1>2
<1>4. /\ writer' \in [Slots -> Record] /\ (\A t \in Slots \ {s} : writer'[t] = writer[t])
      /\ writer'[s].op = "refetch" /\ writer'[s].todo = writer[s].todo /\ writer'[s].closed = writer[s].closed
      /\ writer'[s].alone = writer[s].alone /\ \A k \in Log!OfProduct : writer'[s].read[k] = writer[s].read[k]
  <2> DEFINE f == [writer[s].read EXCEPT !["tier"] = v]
             q == [writer[s] EXCEPT !.op = "refetch", !.read = f]
  <2>1. writer' = [writer EXCEPT ![s] = q]
    BY <1>1, <1>2 DEF Record
  <2>2. f \in [Log!Kinds -> Log!Values] /\ \A k \in Log!OfProduct : f[k] = writer[s].read[k]
    BY <1>0, <1>2 DEF Record
  <2> HIDE DEF f
  <2>3. q \in Record /\ q.op = "refetch" /\ q.todo = writer[s].todo /\ q.closed = writer[s].closed
        /\ q.alone = writer[s].alone /\ q.read = f
    BY <1>2, <2>2 DEF Record, Log!Ops
  <2> HIDE DEF q
  <2> QED
    BY <1>2, <2>1, <2>2, <2>3
<1>5. TypeInv'
  BY <1>0, <1>1, <1>2, <1>3, <1>4 DEF LogIInv, TypeInv
<1>6. RecordOK(writer'[s]) /\ writer[s] # Log!Idle
  BY <1>1, <1>2, <1>4, IdleFacts DEF RecordOK
<1>7. (\A k : Logs(writer'[s], k) <=> Logs(writer[s], k)) /\ OfTier(writer[s])
  BY <1>1, <1>4 DEF Logs, OfTier
<1>8. PricesOK'
  <2>1. priced["regular"] # 0 /\ priced["tier"] # 0
    BY <1>6, <1>7 DEF LogIInv, PricesOK
  <2>2. priced["tier"] = Log!Gone => "tier" \in astray
    BY <1>7 DEF LogIInv, PricesOK
  <2>3. \A k \in Log!OfProduct : priced[k] # Log!Gone
    BY DEF LogIInv, PricesOK
  <2>4. Log!Gone # 0 /\ (astray \subseteq astray')
    BY <1>1 DEF Log!Gone
  <2> QED
    BY <1>0, <1>2, <1>3, <2>1, <2>2, <2>3, <2>4 DEF PricesOK
<1>9. \A k : Pends(writer'[s], k) <=> Logs(writer[s], k) \/ k = "tier"
  BY <1>4, <1>7 DEF Pends
<1>10. \A k : ~Logs(writer[s], k)
  BY <1>1, <1>2, TodoFacts DEF RecordOK, Logs, Record
<1>11. ASSUME NEW k \in Log!Kinds \ astray'
       PROVE  /\ \A t \in Slots : writer'[t].op = "log" /\ Logs(writer'[t], k) => writer'[t].read[k] = priced'[k]
              /\ (\A t \in Slots : ~Pends(writer'[t], k)) => newest[k] = priced'[k]
              /\ priced'[k] = Log!Gone /\ missed[k] = 0 => opened[k] = 0
  <2>0. k \notin astray
    BY <1>1
  <2>1. CASE k = "tier"
    <3>1. writer[s].alone
      BY <1>1, <2>1
    <3>2. \A t \in Slots \ {s} : writer'[t] = Log!Idle
      BY <1>4, <3>1 DEF LogIInv, WritersOK
    <3>3. \A t \in Slots : ~Logs(writer'[t], k)
      BY <1>7, <1>10, <3>2, IdleFacts
    <3>4. Pends(writer'[s], k)
      BY <1>9, <2>1
    <3>5. priced["tier"] # Log!Gone
      BY <1>7, <3>1 DEF LogIInv, WritersOK, AloneOK
    <3> QED
      BY <1>2, <1>3, <2>1, <3>3, <3>4, <3>5
  <2>2. CASE k \in Log!OfProduct
    <3>1. priced'[k] = priced[k]
      BY <1>3, <2>2
    <3>2. \A t \in Slots : Pends(writer'[t], k) <=> Pends(writer[t], k)
      BY <1>0, <1>4, <1>9, <1>7, <2>2 DEF Pends
    <3>3. \A t \in Slots : writer'[t].op = "log" /\ Logs(writer'[t], k) => writer'[t].read[k] = priced[k]
      BY <1>4, <2>0 DEF LogIInv, HistoryOK
    <3> QED
      BY <2>0, <3>1, <3>2, <3>3 DEF LogIInv, HistoryOK
  <2> QED
    BY <1>0, <2>1, <2>2
<1>12. HistoryOK'
  BY <1>1, <1>11 DEF HistoryOK
<1>13. AloneOK(writer'[s], priced', newest', opened', missed', astray')
  <2>1. writer[s].alone => priced["tier"] # Log!Gone
    BY <1>7 DEF LogIInv, WritersOK, AloneOK
  <2> QED
    BY <1>2, <1>3, <1>4, <2>1 DEF AloneOK
<1>14. writer'[s].alone => writer[s].alone
  BY <1>4
<1> QED
  BY <1>4, <1>5, <1>6, <1>8, <1>12, <1>13, <1>14, LogMoveKeeps

\* The tier is read again, to be logged as it is.
LEMMA RefetchTierKeeps ==
    ASSUME PriceLogAssumed, LogIInv, NEW s \in Slots, Log!RefetchTier(s)
    PROVE  LogIInv'
<1> DEFINE read == IF priced["tier"] = Log!Gone THEN writer[s].read ELSE priced
           closed == writer[s].op = "created"
<1>1. /\ writer[s].op \in {"created", "refetch"} /\ Log!GoOn(s, "log", read, <<"tier">>, closed)
      /\ UNCHANGED <<priced, opened, newest, missed, astray, changes>>
  BY DEF Log!RefetchTier, Log!Rows
<1>2. /\ priced \in [Log!Kinds -> Log!Values] /\ writer[s] \in Record /\ RecordOK(writer[s])
      /\ "tier" \in Log!Kinds /\ Log!OfProduct \subseteq Log!Kinds /\ "tier" \notin Log!OfProduct
  BY DEF LogIInv, TypeInv, WritersOK, Log!Kinds, Log!OfProduct
<1>3. read \in [Log!Kinds -> Log!Values] /\ closed \in BOOLEAN /\ "log" \in Log!Ops
  BY <1>2 DEF Record, Log!Ops
<1>4. \A k \in Log!OfProduct : read[k] # Log!Gone
  BY <1>2 DEF RecordOK, LogIInv, PricesOK
<1>5. priced["tier"] # Log!Gone => read = priced
  OBVIOUS
<1> HIDE DEF read, closed
<1>6. LogWent(s, "log", read, <<"tier">>, closed)
  BY <1>1, <1>3, TierTodo, GoOnFacts
<1>7. /\ writer' \in [Slots -> Record] /\ (\A t \in Slots \ {s} : writer'[t] = writer[t])
      /\ writer'[s].op = "log" /\ writer'[s].read = read /\ writer'[s].todo = <<"tier">>
      /\ writer'[s].alone = writer[s].alone
  BY <1>6, TierTodo DEF LogWent
<1>8. TypeInv'
  BY <1>1, <1>7 DEF LogIInv, TypeInv
<1>9. RecordOK(writer'[s]) /\ writer[s] # Log!Idle
  BY <1>1, <1>4, <1>7, TierTodo, IdleFacts DEF RecordOK
<1>10. /\ \A k : Logs(writer'[s], k) <=> k = "tier"
       /\ \A k : Pends(writer'[s], k) <=> k = "tier"
       /\ OfTier(writer[s]) /\ OfTier(writer'[s]) /\ Pends(writer[s], "tier")
  BY <1>1, <1>7, TierTodo DEF Logs, Pends, OfTier
<1>11. \A k : Pends(writer[s], k) <=> k = "tier"
  <2>1. writer[s].todo = Log!NoTodo
    BY <1>1, <1>2 DEF RecordOK
  <2> QED
    BY <1>1, <2>1, TodoFacts, TierTodo DEF Pends, Logs
<1>12. PricesOK'
  BY <1>1, <1>7, <1>9, <1>10 DEF LogIInv, PricesOK
<1>13. "tier" \notin astray => priced["tier"] # Log!Gone
  BY <1>10 DEF LogIInv, PricesOK
<1>14. HistoryOK'
  <2>1. \A k, t : t \in Slots => (Pends(writer'[t], k) <=> Pends(writer[t], k))
    BY <1>7, <1>10, <1>11
  <2>2. \A k \in Log!Kinds \ astray : \A t \in Slots :
           writer'[t].op = "log" /\ Logs(writer'[t], k) => writer'[t].read[k] = priced[k]
    BY <1>5, <1>7, <1>10, <1>13 DEF LogIInv, HistoryOK
  <2> QED
    BY <1>1, <2>1, <2>2 DEF LogIInv, HistoryOK
<1>15. AloneOK(writer'[s], priced', newest', opened', missed', astray')
  <2>1. writer[s].alone => priced["tier"] # Log!Gone
    BY <1>10 DEF LogIInv, WritersOK, AloneOK
  <2> QED
    BY <1>1, <1>5, <1>7, <1>10, <2>1 DEF AloneOK
<1>16. writer'[s].alone => writer[s].alone
  BY <1>7
<1> QED
  BY <1>7, <1>8, <1>9, <1>12, <1>14, <1>15, <1>16, LogMoveKeeps

\* The tier goes, and its history is right if the deletion ran alone.
LEMMA DeleteTierKeeps ==
    ASSUME PriceLogAssumed, LogIInv, NEW s \in Slots, Log!DeleteTier(s)
    PROVE  LogIInv'
<1>0. Log!OfProduct \subseteq Log!Kinds /\ "tier" \in Log!Kinds \ Log!OfProduct /\ Log!Kinds = Log!OfProduct \cup {"tier"}
      /\ "regular" \in Log!OfProduct
  BY DEF Log!Kinds, Log!OfProduct
<1>1. /\ writer[s].op = "delete" /\ writer' = [writer EXCEPT ![s] = Log!Idle]
      /\ priced' = [priced EXCEPT !["tier"] = Log!Gone]
      /\ astray' = (IF writer[s].alone THEN astray ELSE astray \cup {"tier"})
      /\ UNCHANGED <<opened, newest, missed, changes>>
  BY DEF Log!DeleteTier, Log!Touched, Log!Rows
<1>2. /\ priced \in [Log!Kinds -> Log!Values] /\ Log!Gone \in Log!Values /\ Log!Gone # 0 /\ astray \subseteq Log!Kinds
      /\ writer \in [Slots -> Record] /\ writer[s] \in Record /\ RecordOK(writer[s])
  BY DEF LogIInv, TypeInv, Log!Values, Log!Gone, WritersOK
<1>3. /\ priced' \in [Log!Kinds -> Log!Values] /\ priced'["tier"] = Log!Gone
      /\ \A k \in Log!OfProduct : priced'[k] = priced[k]
  BY <1>0, <1>1, <1>2
<1>4. writer' \in [Slots -> Record] /\ writer'[s] = Log!Idle /\ \A t \in Slots \ {s} : writer'[t] = writer[t]
  BY <1>1, <1>2, IdleFacts
<1>5. TypeInv'
  BY <1>0, <1>1, <1>2, <1>3, <1>4 DEF LogIInv, TypeInv
<1>6. OfTier(writer[s]) /\ writer[s] # Log!Idle /\ \A k : ~Logs(writer[s], k)
  <2>1. writer[s].todo = Log!NoTodo /\ writer[s].todo \in Todos
    BY <1>1, <1>2 DEF RecordOK, Record
  <2> QED
    BY <1>1, <2>1, TodoFacts, IdleFacts DEF OfTier, Logs
<1>7. writer[s].alone =>
          /\ \A t \in Slots \ {s} : writer[t] = Log!Idle
          /\ "tier" \notin astray => newest["tier"] = Log!Gone /\ (missed["tier"] = 0 => opened["tier"] = 0)
  BY <1>1 DEF LogIInv, WritersOK, AloneOK
<1>8. PricesOK'
  <2>1. "tier" \notin astray' => \A t \in Slots : ~OfTier(writer'[t])
    BY <1>1, <1>4, <1>7, IdleFacts
  <2>2. priced["regular"] # 0 /\ \A k \in Log!OfProduct : priced[k] # Log!Gone
    BY <1>6 DEF LogIInv, PricesOK
  <2> QED
    BY <1>0, <1>2, <1>3, <2>1, <2>2 DEF PricesOK
<1>9. ASSUME NEW k \in Log!Kinds \ astray'
      PROVE  /\ \A t \in Slots : writer'[t].op = "log" /\ Logs(writer'[t], k) => writer'[t].read[k] = priced'[k]
             /\ (\A t \in Slots : ~Pends(writer'[t], k)) => newest[k] = priced'[k]
             /\ priced'[k] = Log!Gone /\ missed[k] = 0 => opened[k] = 0
  <2>0. k \notin astray
    BY <1>1
  <2>1. CASE k = "tier"
    <3>1. writer[s].alone
      BY <1>1, <2>1
    <3>2. \A t \in Slots : writer'[t] = Log!Idle
      BY <1>4, <1>7, <3>1
    <3> QED
      BY <1>3, <1>7, <2>0, <2>1, <3>1, <3>2, IdleFacts
  <2>2. CASE k \in Log!OfProduct
    <3>1. priced'[k] = priced[k]
      BY <1>3, <2>2
    <3>2. \A t \in Slots : ~Pends(writer'[t], k) => ~Pends(writer[t], k)
      BY <1>0, <1>4, <1>6, <2>2 DEF Pends
    <3>3. \A t \in Slots : writer[t].op = "log" /\ Logs(writer[t], k) => writer[t].read[k] = priced[k]
      BY <2>0 DEF LogIInv, HistoryOK
    <3>4. \A t \in Slots : writer'[t].op = "log" /\ Logs(writer'[t], k) => writer'[t].read[k] = priced[k]
      BY <1>4, <3>3, IdleFacts
    <3>5. (\A t \in Slots : ~Pends(writer[t], k)) => newest[k] = priced[k]
      BY <2>0 DEF LogIInv, HistoryOK
    <3> QED
      BY <2>0, <3>1, <3>2, <3>4, <3>5 DEF LogIInv, HistoryOK
  <2> QED
    BY <1>0, <2>1, <2>2
<1>10. HistoryOK'
  BY <1>1, <1>9 DEF HistoryOK
<1>11. AloneOK(writer'[s], priced', newest', opened', missed', astray')
  BY <1>4, IdleFacts DEF AloneOK
<1>12. RecordOK(writer'[s]) /\ ~writer'[s].alone
  BY <1>4, IdleFacts
<1> QED
  BY <1>4, <1>5, <1>6, <1>8, <1>10, <1>11, <1>12, LogMoveKeeps

\* The open rows are closed, or that fails.
LEMMA ClosingKeeps ==
    ASSUME PriceLogAssumed, LogIInv, NEW s \in Slots, NEW k \in Log!Kinds, Log!CloseActive(s, k) \/ Log!CloseFails(s, k)
    PROVE  LogIInv'
<1>1. /\ Log!Closing(s, k) /\ writer' = [writer EXCEPT ![s].closed = TRUE]
      /\ UNCHANGED <<priced, newest, astray, changes>>
  BY DEF Log!CloseActive, Log!CloseFails
<1>2. /\ priced \in [Log!Kinds -> Log!Values] /\ opened \in [Log!Kinds -> Nat] /\ missed \in [Log!Kinds -> 0..MaxMissed]
      /\ writer \in [Slots -> Record] /\ writer[s] \in Record /\ RecordOK(writer[s])
  BY DEF LogIInv, TypeInv, WritersOK
<1>3. /\ opened' \in [Log!Kinds -> Nat] /\ missed' \in [Log!Kinds -> 0..MaxMissed]
      /\ opened'[k] = 0 \/ missed'[k] # 0
      /\ \A j \in Log!Kinds : /\ opened'[j] = opened[j] \/ opened'[j] = 0
                              /\ missed'[j] = 0 => missed[j] = 0
  <2>1. CASE Log!CloseActive(s, k)
    BY <1>2, <2>1 DEF Log!CloseActive
  <2>2. CASE Log!CloseFails(s, k)
    <3>1. opened' = opened /\ missed[k] < MaxMissed /\ missed' = [missed EXCEPT ![k] = @ + 1]
      BY <2>2 DEF Log!CloseFails
    <3>2. missed[k] + 1 \in 0..MaxMissed /\ missed[k] + 1 # 0
      BY <1>2, <3>1 DEF PriceLogAssumed
    <3> QED
      BY <1>2, <3>1, <3>2
  <2> QED
    BY <2>1, <2>2
<1>4. /\ writer' \in [Slots -> Record] /\ (\A t \in Slots \ {s} : writer'[t] = writer[t])
      /\ writer'[s].op = writer[s].op /\ writer'[s].todo = writer[s].todo /\ writer'[s].read = writer[s].read
      /\ writer'[s].alone = writer[s].alone /\ writer'[s].closed
  BY <1>1, <1>2 DEF Record
<1>5. TypeInv'
  BY <1>1, <1>3, <1>4 DEF LogIInv, TypeInv
<1>6. writer[s].todo # Log!NoTodo /\ k = Head(writer[s].todo) /\ writer[s] # Log!Idle
  BY <1>1 DEF Log!Closing, Log!Idle
<1>7. RecordOK(writer'[s])
  BY <1>2, <1>4, <1>6 DEF RecordOK
<1>8. \A t \in Slots : /\ OfTier(writer'[t]) = OfTier(writer[t])
                       /\ \A j : Logs(writer'[t], j) = Logs(writer[t], j) /\ Pends(writer'[t], j) = Pends(writer[t], j)
                       /\ writer'[t].op = writer[t].op /\ writer'[t].read = writer[t].read
  BY <1>4 DEF OfTier, Logs, Pends
<1>9. PricesOK'
  <2>1. "tier" \in Log!Kinds
    BY DEF Log!Kinds
  <2>2. priced["regular"] # 0
    BY <1>6 DEF LogIInv, PricesOK
  <2>3. priced["tier"] = 0 => opened'["tier"] = 0 /\ \A t \in Slots : ~OfTier(writer'[t])
    BY <1>3, <1>8, <2>1 DEF LogIInv, PricesOK
  <2>4. priced["tier"] = Log!Gone /\ "tier" \notin astray => \A t \in Slots : ~OfTier(writer'[t])
    BY <1>8 DEF LogIInv, PricesOK
  <2> QED
    BY <1>1, <2>2, <2>3, <2>4 DEF LogIInv, PricesOK
<1>10. HistoryOK'
  <2> SUFFICES ASSUME NEW j \in Log!Kinds \ astray
               PROVE  /\ \A t \in Slots : writer'[t].op = "log" /\ Logs(writer'[t], j) => writer'[t].read[j] = priced[j]
                      /\ (\A t \in Slots : ~Pends(writer'[t], j)) => newest[j] = priced[j]
                      /\ priced[j] = Log!Gone /\ missed'[j] = 0 => opened'[j] = 0
    BY <1>1 DEF HistoryOK
  <2>1. \A t \in Slots : writer'[t].op = "log" /\ Logs(writer'[t], j) => writer'[t].read[j] = priced[j]
    BY <1>8 DEF LogIInv, HistoryOK
  <2>2. (\A t \in Slots : ~Pends(writer'[t], j)) => newest[j] = priced[j]
    BY <1>8 DEF LogIInv, HistoryOK
  <2> QED
    BY <1>3, <2>1, <2>2 DEF LogIInv, HistoryOK
<1>11. AloneOK(writer'[s], priced', newest', opened', missed', astray')
  <2>1. writer[s].op # "delete" /\ (writer[s].op = "bury" => k = "tier")
    BY <1>2, <1>6 DEF RecordOK
  <2>2. AloneOK(writer[s], priced, newest, opened, missed, astray)
    BY DEF LogIInv, WritersOK
  <2> QED
    BY <1>1, <1>3, <1>4, <1>8, <2>1, <2>2 DEF AloneOK
<1>12. writer'[s].alone => writer[s].alone
  BY <1>4
<1> QED
  BY <1>4, <1>5, <1>6, <1>7, <1>9, <1>10, <1>11, <1>12, LogMoveKeeps

\* What a handler is once it is through with the first row.
Through(s, k) ==
    /\ writer' \in [Slots -> Record] /\ \A t \in Slots \ {s} : writer'[t] = writer[t]
    /\ Logs(writer[s], k) /\ writer[s].op \in {"log", "bury"} /\ (writer[s].op = "bury" => k = "tier")
    /\ writer[s].closed /\ ~writer'[s].closed /\ Head(writer[s].todo) = k /\ writer[s].todo # Log!NoTodo
    /\ writer'[s].alone => writer[s].alone
    /\ writer'[s].op \in {"idle", "log", "delete"} /\ RecordOK(writer'[s])
    /\ writer'[s].op = "delete" <=> writer[s].op = "bury"
    /\ writer'[s].op = "log" => writer'[s].read = writer[s].read
    /\ \A j : Logs(writer'[s], j) <=> Logs(writer[s], j) /\ j # k
LEMMA LoggedFacts ==
    ASSUME LogIInv, NEW s \in Slots, NEW k \in Log!Kinds, Log!Inserting(s, k), Log!Logged(s)
    PROVE  Through(s, k)
<1>1. writer[s].todo # Log!NoTodo /\ k = Head(writer[s].todo) /\ writer[s].closed
  BY DEF Log!Inserting
<1>2. writer \in [Slots -> Record] /\ writer[s] \in Record /\ RecordOK(writer[s])
      /\ writer[s].todo \in Todos /\ writer[s].read \in [Log!Kinds -> Log!Values]
  BY DEF LogIInv, TypeInv, WritersOK, Record
<1>3. /\ Tail(writer[s].todo) \in Todos /\ Logs(writer[s], k)
      /\ \A j : j \in Log!ToSet(Tail(writer[s].todo)) <=> Logs(writer[s], j) /\ j # k
  BY <1>1, <1>2, TodoFacts DEF Logs
<1>4. writer[s].op \in {"log", "bury"} /\ (writer[s].op = "bury" => k = "tier")
  BY <1>1, <1>2 DEF RecordOK
<1>5. CASE writer[s].op = "bury"
  <2>1. writer' = [writer EXCEPT ![s].op = "delete", ![s].todo = Log!NoTodo, ![s].closed = FALSE]
    BY <1>5 DEF Log!Logged
  <2>2. /\ writer' \in [Slots -> Record] /\ (\A t \in Slots \ {s} : writer'[t] = writer[t])
        /\ writer'[s].op = "delete" /\ writer'[s].todo = Log!NoTodo /\ writer'[s].closed = FALSE
        /\ writer'[s].read = writer[s].read /\ writer'[s].alone = writer[s].alone
    BY <1>2, <2>1, TierTodo DEF Record, Log!Ops
  <2>3. RecordOK(writer'[s])
    BY <1>2, <2>2 DEF RecordOK
  <2>4. \A j : Logs(writer'[s], j) <=> Logs(writer[s], j) /\ j # k
    <3>1. writer[s].todo = <<"tier">>
      BY <1>2, <1>5 DEF RecordOK
    <3> QED
      BY <1>4, <1>5, <2>2, <3>1, TierTodo, TodoFacts DEF Logs
  <2> QED
    BY <1>1, <1>3, <1>4, <1>5, <2>2, <2>3, <2>4 DEF Through
<1>6. CASE writer[s].op = "log"
  <2> DEFINE td == Tail(writer[s].todo)
             rd == writer[s].read
  <2>1. Log!GoOn(s, "log", rd, td, FALSE) /\ td \in Todos /\ rd \in [Log!Kinds -> Log!Values]
    BY <1>2, <1>3, <1>6 DEF Log!Logged
  <2> HIDE DEF td, rd
  <2>2. LogWent(s, "log", rd, td, FALSE)
    <3>1. "log" \in Log!Ops
      BY DEF Log!Ops
    <3> QED
      BY <2>1, <3>1, GoOnFacts
  <2>3. \A j : Logs(writer'[s], j) <=> j \in Log!ToSet(td)
    BY <2>1, <2>2, TodoFacts, IdleFacts DEF LogWent, Logs
  <2>4. RecordOK(writer'[s]) /\ writer'[s].op \in {"idle", "log"} /\ ~writer'[s].closed
    BY <1>2, <2>2, IdleFacts DEF LogWent, RecordOK, rd
  <2>5. writer'[s].op = "log" => writer'[s].read = writer[s].read
    BY <2>2, IdleFacts DEF LogWent, rd
  <2>6. writer'[s].alone => writer[s].alone
    BY <2>2, IdleFacts DEF LogWent
  <2>7. \A j : Logs(writer'[s], j) <=> Logs(writer[s], j) /\ j # k
    BY <1>3, <2>3 DEF td
  <2>8. writer' \in [Slots -> Record] /\ \A t \in Slots \ {s} : writer'[t] = writer[t]
    BY <2>2 DEF LogWent
  <2> QED
    BY <1>1, <1>3, <1>4, <1>6, <2>4, <2>5, <2>6, <2>7, <2>8 DEF Through
<1> QED
  BY <1>4, <1>5, <1>6

\* A row is written, of what the handler has read or of the tier's end.
LEMMA InsertRowKeeps ==
    ASSUME PriceLogAssumed, LogIInv, NEW s \in Slots, NEW k \in Log!Kinds, Log!InsertRow(s, k)
    PROVE  LogIInv'
<1>0. Log!OfProduct \subseteq Log!Kinds /\ "tier" \in Log!Kinds \ Log!OfProduct /\ Log!Kinds = Log!OfProduct \cup {"tier"}
  BY DEF Log!Kinds, Log!OfProduct
<1>1. /\ UNCHANGED <<priced, missed, changes>>
      /\ astray' = (IF writer[s].alone THEN astray \ {k} ELSE astray)
      /\ writer[s].op = "bury" => newest' = [newest EXCEPT ![k] = Log!Gone] /\ opened' = opened
      /\ writer[s].op # "bury" => /\ newest' = [newest EXCEPT ![k] = writer[s].read[k]]
                                  /\ opened' = [opened EXCEPT ![k] = @ + 1]
  BY DEF Log!InsertRow
<1>2. Through(s, k)
  BY LoggedFacts DEF Log!InsertRow
<1>3. /\ newest \in [Log!Kinds -> Log!Values] /\ opened \in [Log!Kinds -> Nat] /\ Log!Gone \in Log!Values /\ astray \subseteq Log!Kinds
      /\ writer[s].read \in [Log!Kinds -> Log!Values] /\ RecordOK(writer[s])
      /\ AloneOK(writer[s], priced, newest, opened, missed, astray)
      /\ writer[s].alone => \A t \in Slots \ {s} : writer[t] = Log!Idle
  BY DEF LogIInv, TypeInv, Log!Values, Record, WritersOK
<1>4. /\ newest' \in [Log!Kinds -> Log!Values] /\ opened' \in [Log!Kinds -> Nat]
      /\ newest'[k] = (IF writer[s].op = "bury" THEN Log!Gone ELSE writer[s].read[k])
      /\ writer[s].op = "bury" => opened' = opened
      /\ \A j \in Log!Kinds \ {k} : newest'[j] = newest[j] /\ opened'[j] = opened[j]
  BY <1>1, <1>3
<1>5. TypeInv'
  BY <1>1, <1>2, <1>3, <1>4 DEF LogIInv, TypeInv, Through
<1>6. \A t \in Slots : OfTier(writer'[t]) => OfTier(writer[t])
  BY <1>2 DEF Through, OfTier
<1>7. k = "tier" => OfTier(writer[s])
  BY <1>2 DEF Through, OfTier
<1>8. k = "tier" => priced["tier"] # 0 /\ ("tier" \notin astray' => priced["tier"] # Log!Gone)
  BY <1>1, <1>3, <1>7 DEF LogIInv, PricesOK, AloneOK
<1>9. PricesOK'
  <2>1. priced["regular"] # 0
    BY <1>2, IdleFacts DEF LogIInv, PricesOK, Through
  <2>2. priced["tier"] = 0 => opened'["tier"] = 0 /\ \A t \in Slots : ~OfTier(writer'[t])
    BY <1>0, <1>4, <1>6, <1>8 DEF LogIInv, PricesOK
  <2>3. priced["tier"] = Log!Gone /\ "tier" \notin astray' => \A t \in Slots : ~OfTier(writer'[t])
    BY <1>1, <1>6, <1>8 DEF LogIInv, PricesOK
  <2> QED
    BY <1>1, <2>1, <2>2, <2>3 DEF LogIInv, PricesOK
<1>10. ASSUME NEW j \in Log!Kinds \ astray'
       PROVE  /\ \A t \in Slots : writer'[t].op = "log" /\ Logs(writer'[t], j) => writer'[t].read[j] = priced[j]
              /\ (\A t \in Slots : ~Pends(writer'[t], j)) => newest'[j] = priced[j]
              /\ priced[j] = Log!Gone /\ missed[j] = 0 => opened'[j] = 0
  <2>1. CASE j # k
    <3>1. j \notin astray /\ newest'[j] = newest[j] /\ opened'[j] = opened[j]
      BY <1>1, <1>4, <2>1
    <3>2. \A t \in Slots : Pends(writer[t], j) => Pends(writer'[t], j)
      BY <1>2, <2>1 DEF Through, Pends
    <3>3. \A t \in Slots : writer[t].op = "log" /\ Logs(writer[t], j) => writer[t].read[j] = priced[j]
      BY <3>1 DEF LogIInv, HistoryOK
    <3>4. writer'[s].op = "log" => writer[s].op = "log"
      BY <1>2 DEF Through
    <3>5. \A t \in Slots : writer'[t].op = "log" /\ Logs(writer'[t], j) => writer'[t].read[j] = priced[j]
      BY <1>2, <3>3, <3>4 DEF Through
    <3>6. (\A t \in Slots : ~Pends(writer[t], j)) => newest[j] = priced[j]
      BY <3>1 DEF LogIInv, HistoryOK
    <3> QED
      BY <3>1, <3>2, <3>5, <3>6 DEF LogIInv, HistoryOK
  <2>2. CASE j = k
    <3>1. k \notin astray \/ writer[s].alone
      BY <1>1, <2>2
    <3>2. ~Logs(writer'[s], k)
      BY <1>2 DEF Through
    <3>3. \A t \in Slots : writer'[t].op = "log" /\ Logs(writer'[t], k) => writer'[t].read[k] = priced[k]
      <4>1. CASE writer[s].alone
        BY <1>2, <1>3, <3>2, <4>1, IdleFacts DEF Through
      <4>2. CASE k \notin astray
        BY <1>2, <3>2, <4>2 DEF LogIInv, HistoryOK, Through
      <4> QED
        BY <3>1, <4>1, <4>2
    <3>4. priced[k] # Log!Gone
      <4>1. k \in Log!OfProduct => priced[k] # Log!Gone
        BY DEF LogIInv, PricesOK
      <4> QED
        BY <1>0, <1>8, <2>2, <4>1
    <3>5. writer[s].op = "bury" => Pends(writer'[s], k)
      BY <1>2 DEF Through, Pends
    <3>6. writer[s].op = "log" => writer[s].read[k] = priced[k]
      <4>1. CASE writer[s].alone
        BY <1>2, <1>3, <4>1 DEF AloneOK, Through
      <4>2. CASE k \notin astray
        BY <1>2, <4>2 DEF LogIInv, HistoryOK, Through
      <4> QED
        BY <3>1, <4>1, <4>2
    <3>7. writer[s].op \in {"log", "bury"}
      BY <1>2 DEF Through
    <3> QED
      BY <1>4, <2>2, <3>3, <3>4, <3>5, <3>6, <3>7
  <2> QED
    BY <2>1, <2>2
<1>11. HistoryOK'
  BY <1>1, <1>10 DEF HistoryOK
<1>12. AloneOK(writer'[s], priced', newest', opened', missed', astray')
  <2> SUFFICES ASSUME writer'[s].alone
               PROVE  /\ writer'[s].op \notin {"update", "toggle", "bury"}
                      /\ OfTier(writer'[s]) => priced["tier"] # Log!Gone
                      /\ writer'[s].op = "log" => \A j \in Log!Kinds : Logs(writer'[s], j) => writer'[s].read[j] = priced[j]
                      /\ writer'[s].op = "delete" => newest'["tier"] = Log!Gone /\ (missed["tier"] = 0 => opened'["tier"] = 0)
    BY <1>1 DEF AloneOK
  <2>1. writer[s].alone
    BY <1>2 DEF Through
  <2>2. writer'[s].op \notin {"update", "toggle", "bury"}
    BY <1>2 DEF Through
  <2>3. OfTier(writer'[s]) => priced["tier"] # Log!Gone
    BY <1>3, <1>6, <2>1 DEF AloneOK
  <2>4. writer'[s].op = "log" => writer[s].op = "log" /\ writer'[s].read = writer[s].read
    BY <1>2 DEF Through
  <2>5. \A j : Logs(writer'[s], j) => Logs(writer[s], j)
    BY <1>2 DEF Through
  <2>6. writer'[s].op = "delete" => writer[s].op = "bury" /\ k = "tier" /\ writer[s].closed
    BY <1>2 DEF Through
  <2>7. writer[s].op = "bury" /\ writer[s].closed => (missed["tier"] = 0 => opened["tier"] = 0)
    BY <1>3, <2>1 DEF AloneOK
  <2>8. writer[s].op = "log" => \A j \in Log!Kinds : Logs(writer[s], j) => writer[s].read[j] = priced[j]
    BY <1>3, <2>1 DEF AloneOK
  <2> QED
    BY <1>4, <2>2, <2>3, <2>4, <2>5, <2>6, <2>7, <2>8
<1>13. writer[s] # Log!Idle /\ RecordOK(writer'[s]) /\ (writer'[s].alone => writer[s].alone)
       /\ \A t \in Slots \ {s} : writer'[t] = writer[t]
  BY <1>2, IdleFacts DEF Through
<1> QED
  BY <1>5, <1>9, <1>11, <1>12, <1>13, LogMoveKeeps

\* The row is lost, and the history is astray.
LEMMA InsertFailsKeeps ==
    ASSUME PriceLogAssumed, LogIInv, NEW s \in Slots, NEW k \in Log!Kinds, Log!InsertFails(s, k)
    PROVE  LogIInv'
<1>1. UNCHANGED <<priced, opened, newest, missed, changes>> /\ astray' = astray \cup {k}
  BY DEF Log!InsertFails, Log!Rows
<1>2. Through(s, k)
  BY LoggedFacts DEF Log!InsertFails
<1>3. AloneOK(writer[s], priced, newest, opened, missed, astray)
  BY DEF LogIInv, WritersOK
<1>5. TypeInv'
  BY <1>1, <1>2 DEF LogIInv, TypeInv, Through
<1>6. \A t \in Slots : OfTier(writer'[t]) => OfTier(writer[t])
  BY <1>2 DEF Through, OfTier
<1>9. PricesOK'
  BY <1>1, <1>2, <1>6, IdleFacts DEF LogIInv, PricesOK, Through
<1>10. ASSUME NEW j \in Log!Kinds \ astray'
       PROVE  /\ \A t \in Slots : writer'[t].op = "log" /\ Logs(writer'[t], j) => writer'[t].read[j] = priced[j]
              /\ (\A t \in Slots : ~Pends(writer'[t], j)) => newest[j] = priced[j]
              /\ priced[j] = Log!Gone /\ missed[j] = 0 => opened[j] = 0
  <2>1. j \notin astray /\ j # k
    BY <1>1
  <2>2. \A t \in Slots : Pends(writer[t], j) => Pends(writer'[t], j)
    BY <1>2, <2>1 DEF Through, Pends
  <2>3. \A t \in Slots : writer[t].op = "log" /\ Logs(writer[t], j) => writer[t].read[j] = priced[j]
    BY <2>1 DEF LogIInv, HistoryOK
  <2>4. writer'[s].op = "log" => writer[s].op = "log"
    BY <1>2 DEF Through
  <2>5. \A t \in Slots : writer'[t].op = "log" /\ Logs(writer'[t], j) => writer'[t].read[j] = priced[j]
    BY <1>2, <2>3, <2>4 DEF Through
  <2>6. (\A t \in Slots : ~Pends(writer[t], j)) => newest[j] = priced[j]
    BY <2>1 DEF LogIInv, HistoryOK
  <2> QED
    BY <2>1, <2>2, <2>5, <2>6 DEF LogIInv, HistoryOK
<1>11. HistoryOK'
  BY <1>1, <1>10 DEF HistoryOK
<1>12. AloneOK(writer'[s], priced', newest', opened', missed', astray')
  <2> SUFFICES ASSUME writer'[s].alone
               PROVE  /\ writer'[s].op \notin {"update", "toggle", "bury"}
                      /\ OfTier(writer'[s]) => priced["tier"] # Log!Gone
                      /\ writer'[s].op = "log" => \A j \in Log!Kinds : Logs(writer'[s], j) => writer'[s].read[j] = priced[j]
                      /\ writer'[s].op = "delete" => "tier" \in astray'
    BY <1>1 DEF AloneOK
  <2>1. writer[s].alone /\ writer'[s].op \notin {"update", "toggle", "bury"}
    BY <1>2 DEF Through
  <2>2. OfTier(writer'[s]) => priced["tier"] # Log!Gone
    BY <1>3, <1>6, <2>1 DEF AloneOK
  <2>3. writer'[s].op = "log" => writer[s].op = "log" /\ writer'[s].read = writer[s].read
    BY <1>2 DEF Through
  <2>4. \A j : Logs(writer'[s], j) => Logs(writer[s], j)
    BY <1>2 DEF Through
  <2>5. writer'[s].op = "delete" => k = "tier"
    BY <1>2 DEF Through
  <2>6. writer[s].op = "log" => \A j \in Log!Kinds : Logs(writer[s], j) => writer[s].read[j] = priced[j]
    BY <1>3, <2>1 DEF AloneOK
  <2> QED
    BY <1>1, <2>1, <2>2, <2>3, <2>4, <2>5, <2>6
<1>13. writer[s] # Log!Idle /\ RecordOK(writer'[s]) /\ (writer'[s].alone => writer[s].alone)
       /\ \A t \in Slots \ {s} : writer'[t] = writer[t]
  BY <1>2, IdleFacts DEF Through
<1> QED
  BY <1>5, <1>9, <1>11, <1>12, <1>13, LogMoveKeeps

\* What a handler had still to log is astray when it stops.
LEMMA AbandonKeeps ==
    ASSUME PriceLogAssumed, LogIInv, NEW s \in Slots, Log!Abandon(s)
    PROVE  LogIInv'
<1>1. /\ writer[s] # Log!Idle /\ writer' = [writer EXCEPT ![s] = Log!Idle]
      /\ astray' = astray \cup (IF writer[s].op \in {"created", "refetch", "delete"} THEN {"tier"}
                                ELSE Log!ToSet(writer[s].todo))
      /\ UNCHANGED <<priced, opened, newest, missed, changes>>
  BY DEF Log!Abandon, Log!Rows
<1>2. writer \in [Slots -> Record] /\ writer[s].todo \in Todos /\ RecordOK(writer[s]) /\ astray \subseteq Log!Kinds
  BY DEF LogIInv, TypeInv, Record, WritersOK
<1>3. Log!ToSet(writer[s].todo) \subseteq Log!Kinds /\ "tier" \in Log!Kinds
  <2>1. \A td \in Todos : td \in Seq(Log!Kinds)
    BY TodoFacts
  <2> QED
    BY <1>2, <2>1 DEF Log!ToSet, Log!Kinds
<1>4. writer' \in [Slots -> Record] /\ writer'[s] = Log!Idle /\ \A t \in Slots \ {s} : writer'[t] = writer[t]
  BY <1>1, <1>2, IdleFacts
<1>5. TypeInv'
  BY <1>1, <1>2, <1>3, <1>4 DEF LogIInv, TypeInv
<1>6. ASSUME NEW j \in Log!Kinds \ astray' PROVE j \notin astray /\ ~Pends(writer[s], j)
  <2>1. writer[s].op \in {"created", "refetch", "delete"} => writer[s].todo = Log!NoTodo
    BY <1>2 DEF RecordOK
  <2>2. ~Logs(writer[s], j)
    BY <1>1, <1>2, <2>1, TodoFacts DEF Logs
  <2> QED
    BY <1>1, <2>2 DEF Pends
<1>7. \A t \in Slots : OfTier(writer'[t]) => OfTier(writer[t])
  BY <1>4, IdleFacts
<1>8. PricesOK'
  <2>1. priced["regular"] # 0
    BY <1>1 DEF LogIInv, PricesOK
  <2> QED
    BY <1>1, <1>7, <2>1 DEF LogIInv, PricesOK
<1>9. ASSUME NEW j \in Log!Kinds \ astray'
      PROVE  /\ \A t \in Slots : writer'[t].op = "log" /\ Logs(writer'[t], j) => writer'[t].read[j] = priced[j]
             /\ (\A t \in Slots : ~Pends(writer'[t], j)) => newest[j] = priced[j]
             /\ priced[j] = Log!Gone /\ missed[j] = 0 => opened[j] = 0
  <2>1. j \notin astray /\ ~Pends(writer[s], j)
    BY <1>6
  <2>2. \A t \in Slots : writer[t].op = "log" /\ Logs(writer[t], j) => writer[t].read[j] = priced[j]
    BY <2>1 DEF LogIInv, HistoryOK
  <2>3. \A t \in Slots : writer'[t].op = "log" /\ Logs(writer'[t], j) => writer'[t].read[j] = priced[j]
    BY <1>4, <2>2, IdleFacts
  <2>4. (\A t \in Slots : ~Pends(writer[t], j)) => newest[j] = priced[j]
    BY <2>1 DEF LogIInv, HistoryOK
  <2>5. (\A t \in Slots : ~Pends(writer'[t], j)) => (\A t \in Slots : ~Pends(writer[t], j))
    BY <1>4, <2>1
  <2> QED
    BY <2>1, <2>3, <2>4, <2>5 DEF LogIInv, HistoryOK
<1>10. HistoryOK'
  BY <1>1, <1>9 DEF HistoryOK
<1>11. AloneOK(writer'[s], priced', newest', opened', missed', astray')
  BY <1>4, IdleFacts DEF AloneOK
<1>12. RecordOK(writer'[s]) /\ ~writer'[s].alone
  BY <1>4, IdleFacts
<1> QED
  BY <1>1, <1>4, <1>5, <1>8, <1>10, <1>11, <1>12, LogMoveKeeps

\* No price, no row and nobody at work at first.
LEMMA LogInitIInv == ASSUME PriceLogAssumed, Log!Init PROVE LogIInv
<1>1. 0 \in Log!Values /\ 0 \in 0..MaxMissed /\ 0 \in 0..MaxChanges /\ 0 # Log!Gone
  BY DEF Log!Values, PriceLogAssumed, Log!Gone
<1>2. TypeInv
  BY <1>1, IdleFacts DEF Log!Init, TypeInv
<1>3. PricesOK
  BY <1>1, IdleFacts DEF Log!Init, PricesOK, Log!Kinds, Log!OfProduct
<1>4. WritersOK
  BY IdleFacts DEF Log!Init, WritersOK, AloneOK
<1>5. HistoryOK
  BY IdleFacts DEF Log!Init, HistoryOK
<1> QED
  BY <1>2, <1>3, <1>4, <1>5 DEF LogIInv

\* The step of every handler keeps the invariant.
LEMMA LogNextIInv == ASSUME PriceLogAssumed, LogIInv, [Log!Next]_(Log!vars) PROVE LogIInv'
<1>1. CASE UNCHANGED Log!vars
  <2>1. UNCHANGED <<priced, opened, newest, missed, writer, astray, changes>>
    BY <1>1 DEF Log!vars
  <2> QED
    BY <2>1 DEF LogIInv, TypeInv, PricesOK, WritersOK, HistoryOK
<1>2. ASSUME NEW s \in Slots, Log!BeginUpdate(s) \/ Log!BeginToggle(s) \/ Log!BeginUpdateTier(s) \/ Log!BeginDeleteTier(s)
      PROVE  LogIInv'
  <2>0. /\ priced \in [Log!Kinds -> Log!Values] /\ TodoOf("update") = Log!NoTodo /\ TodoOf("toggle") = Log!NoTodo
        /\ TodoOf("tier") = Log!NoTodo /\ TodoOf("bury") = <<"tier">> /\ {"update", "toggle", "tier", "bury"} \subseteq Log!Ops
        /\ Log!NoTodo \in Todos /\ <<"tier">> \in Todos
    BY TierTodo DEF LogIInv, TypeInv, TodoOf, Log!Ops
  <2>1. ASSUME priced["tier"] \in Tags PROVE priced["regular"] # 0
    BY <2>1 DEF LogIInv, PricesOK, Log!Kinds, PriceLogAssumed
  <2>2. CASE Log!BeginUpdate(s)
    <3>1. ReadAll("update", priced) /\ Log!Started(s, "update", priced, Log!NoTodo)
          /\ UNCHANGED <<priced, opened, newest, missed, astray>>
      BY <2>2 DEF Log!BeginUpdate, ReadAll, Log!Rows
    <3> QED
      BY <2>0, <3>1, LogBeginKeeps
  <2>3. CASE Log!BeginToggle(s)
    <3>1. ReadAll("toggle", priced) /\ Log!Started(s, "toggle", priced, Log!NoTodo)
          /\ UNCHANGED <<priced, opened, newest, missed, astray>>
      BY <2>3 DEF Log!BeginToggle, ReadAll, Log!Rows
    <3> QED
      BY <2>0, <3>1, LogBeginKeeps
  <2>4. CASE Log!BeginUpdateTier(s)
    <3>1. ReadAll("tier", priced) /\ Log!Started(s, "tier", priced, Log!NoTodo)
          /\ UNCHANGED <<priced, opened, newest, missed, astray>>
      BY <2>1, <2>4 DEF Log!BeginUpdateTier, ReadAll, Log!Rows
    <3> QED
      BY <2>0, <3>1, LogBeginKeeps
  <2>5. CASE Log!BeginDeleteTier(s)
    <3>1. ReadAll("bury", priced) /\ Log!Started(s, "bury", priced, <<"tier">>)
          /\ UNCHANGED <<priced, opened, newest, missed, astray>>
      BY <2>1, <2>5 DEF Log!BeginDeleteTier, ReadAll, Log!Rows
    <3> QED
      BY <2>0, <3>1, LogBeginKeeps
  <2> QED
    BY <1>2, <2>2, <2>3, <2>4, <2>5
<1>3. ASSUME NEW s \in Slots, NEW new \in Log!Prices, Log!Create(s, new) \/ Log!SaveUpdate(s, new)
      PROVE  LogIInv'
  BY <1>3, LogCreateKeeps, SaveUpdateKeeps
<1>4. ASSUME NEW s \in Slots, NEW v \in Tags, Log!CreateTier(s, v) \/ Log!SaveTier(s, v)
      PROVE  LogIInv'
  BY <1>4, CreateTierKeeps, SaveTierKeeps
<1>5. ASSUME NEW s \in Slots, Log!SaveToggle(s) \/ Log!RefetchTier(s) \/ Log!DeleteTier(s) \/ Log!Abandon(s)
      PROVE  LogIInv'
  BY <1>5, SaveToggleKeeps, RefetchTierKeeps, DeleteTierKeeps, AbandonKeeps
<1>6. ASSUME NEW s \in Slots, NEW k \in Log!Kinds,
             Log!CloseActive(s, k) \/ Log!CloseFails(s, k) \/ Log!InsertRow(s, k) \/ Log!InsertFails(s, k)
      PROVE  LogIInv'
  BY <1>6, ClosingKeeps, InsertRowKeeps, InsertFailsKeeps
<1> QED
  BY <1>1, <1>2, <1>3, <1>4, <1>5, <1>6 DEF Log!Next

-----------------------------------------------------------------------------
(* Counting.                                                               *)

\* Handlers between the closing of a kind's rows and the writing of a new one;
\* the one that creates the tier closes none.
InMid(r, k) ==
    \/ r.todo # Log!NoTodo /\ Head(r.todo) = k /\ r.closed
    \/ k = "tier" /\ r.op = "created"
Mid(w, k) == {s \in Slots : InMid(w[s], k)}
LogCountOK(k) == opened[k] + Cardinality(Mid(writer, k)) <= Cardinality(Slots) + missed[k]
CountInv == \A k \in Log!Kinds : LogCountOK(k)

LEMMA MidFinite ==
    ASSUME PriceLogAssumed, NEW w, NEW k
    PROVE  /\ IsFiniteSet(Mid(w, k)) /\ Cardinality(Mid(w, k)) \in Nat /\ Cardinality(Slots) \in Nat
           /\ Cardinality(Mid(w, k)) <= Cardinality(Slots)
<1>1. Mid(w, k) \in SUBSET Slots
  BY DEF Mid
<1> QED
  BY <1>1, FS_Subset, FS_CardinalityType DEF PriceLogAssumed

\* The ways a step may count: rows do not grow and handlers leave; all rows are
\* closed; a closing fails; a handler leaves with a row.
Quiet(k) == /\ opened'[k] <= opened[k] /\ missed'[k] >= missed[k]
            /\ \A t \in Slots : InMid(writer'[t], k) => InMid(writer[t], k)
Fails(s, k) == /\ opened'[k] = opened[k] /\ missed'[k] = missed[k] + 1
               /\ \A t \in Slots \ {s} : InMid(writer'[t], k) => InMid(writer[t], k)
Leaves(s, k) == /\ opened'[k] <= opened[k] + 1 /\ missed'[k] = missed[k]
                /\ InMid(writer[s], k) /\ ~InMid(writer'[s], k)
                /\ \A t \in Slots \ {s} : InMid(writer'[t], k) => InMid(writer[t], k)
LEMMA WaysCount ==
    ASSUME PriceLogAssumed, NEW k \in Log!Kinds, NEW s \in Slots, LogCountOK(k),
           {opened[k], missed[k], opened'[k], missed'[k]} \subseteq Nat,
           Quiet(k) \/ opened'[k] = 0 \/ Fails(s, k) \/ Leaves(s, k)
    PROVE  LogCountOK(k)'
<1> DEFINE a == Cardinality(Mid(writer, k))
           b == Cardinality(Mid(writer', k))
           n == Cardinality(Slots)
<1>1. a \in Nat /\ b \in Nat /\ n \in Nat /\ b <= n /\ IsFiniteSet(Mid(writer, k)) /\ IsFiniteSet(Mid(writer', k))
  BY MidFinite
<1>2. opened[k] + a <= n + missed[k]
  BY DEF LogCountOK
<1>3. CASE Quiet(k)
  <2>1. Mid(writer', k) \in SUBSET Mid(writer, k)
    BY <1>3 DEF Quiet, Mid
  <2>2. b <= a
    BY <1>1, <2>1, FS_Subset
  <2> HIDE DEF a, b, n
  <2>3. opened'[k] + b <= n + missed'[k]
    BY <1>1, <1>2, <1>3, <2>2 DEF Quiet
  <2> QED
    BY <2>3 DEF LogCountOK, b, n
<1>4. CASE opened'[k] = 0
  <2> HIDE DEF a, b, n
  <2>3. opened'[k] + b <= n + missed'[k]
    BY <1>1, <1>4
  <2> QED
    BY <2>3 DEF LogCountOK, b, n
<1>5. CASE Fails(s, k)
  <2>1. Mid(writer', k) \in SUBSET (Mid(writer, k) \cup {s})
    BY <1>5 DEF Fails, Mid
  <2>2. IsFiniteSet(Mid(writer, k) \cup {s}) /\ Cardinality(Mid(writer, k) \cup {s}) \in {a, a + 1}
    BY <1>1, FS_AddElement
  <2>3. b <= Cardinality(Mid(writer, k) \cup {s})
    BY <2>1, <2>2, FS_Subset
  <2> DEFINE c == Cardinality(Mid(writer, k) \cup {s})
  <2>4. c \in {a, a + 1} /\ b <= c
    BY <2>2, <2>3
  <2> HIDE DEF a, b, n, c
  <2>5. opened'[k] + b <= n + missed'[k]
    BY <1>1, <1>2, <1>5, <2>4 DEF Fails
  <2> QED
    BY <2>5 DEF LogCountOK, b, n
<1>6. CASE Leaves(s, k)
  <2>1. Mid(writer', k) \in SUBSET (Mid(writer, k) \ {s}) /\ s \in Mid(writer, k)
    BY <1>6 DEF Leaves, Mid
  <2>2. IsFiniteSet(Mid(writer, k) \ {s}) /\ Cardinality(Mid(writer, k) \ {s}) = a - 1
    BY <1>1, <2>1, FS_RemoveElement
  <2>3. b <= a - 1
    BY <2>1, <2>2, FS_Subset
  <2> HIDE DEF a, b, n
  <2>5. opened'[k] + b <= n + missed'[k]
    BY <1>1, <1>2, <1>6, <2>3 DEF Leaves
  <2> QED
    BY <2>5 DEF LogCountOK, b, n
<1> QED
  BY <1>3, <1>4, <1>5, <1>6

\* No step makes more open rows than handlers and failures account for.
LEMMA NextCount ==
    ASSUME PriceLogAssumed, LogIInv, LogIInv', CountInv, [Log!Next]_(Log!vars)
    PROVE  CountInv'
<1> SUFFICES ASSUME NEW k \in Log!Kinds PROVE LogCountOK(k)'
  BY DEF CountInv
<1>1. LogCountOK(k) /\ {opened[k], missed[k], opened'[k], missed'[k]} \subseteq Nat
  BY DEF CountInv, LogIInv, TypeInv
<1>2. writer \in [Slots -> Record] /\ \A t \in Slots : RecordOK(writer[t])
  BY DEF LogIInv, TypeInv, WritersOK
<1>3. ~InMid(Log!Idle, k)
  BY DEF InMid, Log!Idle
<1>4. CASE UNCHANGED Log!vars
  <2>1. UNCHANGED <<opened, missed, writer>>
    BY <1>4 DEF Log!vars
  <2> QED
    BY <1>1, <2>1 DEF LogCountOK, Mid
<1>5. ASSUME NEW s \in Slots, NEW op \in Log!Ops, NEW read \in [Log!Kinds -> Log!Values], NEW todo \in Todos,
             Log!Started(s, op, read, todo), op # "created", UNCHANGED <<opened, missed>>
      PROVE  LogCountOK(k)'
  <2>1. LogBegan(s, op, read, todo)
    BY <1>5, StartedFacts
  <2>2. ~InMid(writer'[s], k) /\ \A t \in Slots \ {s} : InMid(writer'[t], k) = InMid(writer[t], k)
    BY <1>5, <2>1 DEF LogBegan, InMid
  <2>3. Quiet(k)
    BY <1>1, <1>5, <2>2 DEF Quiet
  <2> QED
    BY <1>1, <2>3, WaysCount
<1>6. ASSUME NEW s \in Slots, writer' = [writer EXCEPT ![s] = Log!Idle], UNCHANGED <<opened, missed>>
      PROVE  LogCountOK(k)'
  <2>1. Quiet(k)
    BY <1>1, <1>2, <1>3, <1>6 DEF Quiet
  <2> QED
    BY <1>1, <1>6, <2>1, WaysCount
<1>7. ASSUME NEW s \in Slots, NEW new \in Log!Prices, Log!Create(s, new)
      PROVE  LogCountOK(k)'
  <2> DEFINE todo == Log!ToLog(priced, new)
  <2>1. Log!Started(s, "log", new, todo) /\ UNCHANGED <<opened, missed>>
    BY <1>7 DEF Log!Create, Log!Rows
  <2>2. todo \in Todos /\ "log" \in Log!Ops /\ new \in [Log!Kinds -> Log!Values]
    BY ToLogFacts DEF Log!Ops, Log!Prices, Log!Values
  <2> HIDE DEF todo
  <2> QED
    BY <1>5, <2>1, <2>2
<1>8. ASSUME NEW s \in Slots, NEW new \in Log!Prices, Log!SaveUpdate(s, new)
      PROVE  LogCountOK(k)'
  <2> DEFINE todo == Log!ToLog(writer[s].read, new)
  <2>1. Log!GoOn(s, "log", new, todo, FALSE) /\ UNCHANGED <<opened, missed>>
    BY <1>8 DEF Log!SaveUpdate, Log!Rows
  <2>2. todo \in Todos /\ "log" \in Log!Ops /\ new \in [Log!Kinds -> Log!Values]
    BY ToLogFacts DEF Log!Ops, Log!Prices, Log!Values
  <2> HIDE DEF todo
  <2>3. LogWent(s, "log", new, todo, FALSE)
    BY <2>1, <2>2, GoOnFacts
  <2>4. Quiet(k)
    BY <1>1, <1>3, <2>1, <2>3 DEF Quiet, LogWent, InMid
  <2> QED
    BY <1>1, <2>4, WaysCount
<1>9. ASSUME NEW s \in Slots, Log!BeginUpdate(s) \/ Log!BeginToggle(s) \/ Log!BeginUpdateTier(s) \/ Log!BeginDeleteTier(s)
      PROVE  LogCountOK(k)'
  <2>0. /\ priced \in [Log!Kinds -> Log!Values] /\ {"update", "toggle", "tier", "bury"} \subseteq Log!Ops
        /\ Log!NoTodo \in Todos /\ <<"tier">> \in Todos
    BY TierTodo DEF LogIInv, TypeInv, Log!Ops
  <2>1. UNCHANGED <<opened, missed>>
    BY <1>9 DEF Log!BeginUpdate, Log!BeginToggle, Log!BeginUpdateTier, Log!BeginDeleteTier, Log!Rows
  <2>2. CASE Log!BeginUpdate(s)
    <3>1. Log!Started(s, "update", priced, Log!NoTodo)
      BY <2>2 DEF Log!BeginUpdate
    <3> QED
      BY <1>5, <2>0, <2>1, <3>1
  <2>3. CASE Log!BeginToggle(s)
    <3>1. Log!Started(s, "toggle", priced, Log!NoTodo)
      BY <2>3 DEF Log!BeginToggle
    <3> QED
      BY <1>5, <2>0, <2>1, <3>1
  <2>4. CASE Log!BeginUpdateTier(s)
    <3>1. Log!Started(s, "tier", priced, Log!NoTodo)
      BY <2>4 DEF Log!BeginUpdateTier
    <3> QED
      BY <1>5, <2>0, <2>1, <3>1
  <2>5. CASE Log!BeginDeleteTier(s)
    <3>1. Log!Started(s, "bury", priced, <<"tier">>)
      BY <2>5 DEF Log!BeginDeleteTier
    <3> QED
      BY <1>5, <2>0, <2>1, <3>1
  <2> QED
    BY <1>9, <2>2, <2>3, <2>4, <2>5
<1>10. ASSUME NEW s \in Slots, Log!SaveToggle(s) \/ Log!DeleteTier(s) \/ Log!Abandon(s)
       PROVE  LogCountOK(k)'
  <2>1. writer' = [writer EXCEPT ![s] = Log!Idle] /\ UNCHANGED <<opened, missed>>
    BY <1>10 DEF Log!SaveToggle, Log!DeleteTier, Log!Abandon, Log!Rows
  <2> QED
    BY <1>6, <2>1
<1>11. ASSUME NEW s \in Slots, NEW v \in Tags, Log!CreateTier(s, v)
       PROVE  LogCountOK(k)'
  <2> DEFINE p == [priced EXCEPT !["tier"] = v]
  <2>1. priced["tier"] = 0 /\ Log!Started(s, "created", p, Log!NoTodo) /\ UNCHANGED <<opened, missed>>
    BY <1>11 DEF Log!CreateTier, Log!Rows
  <2>2. p \in [Log!Kinds -> Log!Values] /\ "created" \in Log!Ops /\ Log!NoTodo \in Todos
    BY DEF LogIInv, TypeInv, Log!Values, Log!Ops, Todos
  <2> HIDE DEF p
  <2>3. LogBegan(s, "created", p, Log!NoTodo)
    BY <2>1, <2>2, StartedFacts
  <2>4. CASE k = "tier"
    <3>1. opened'[k] = 0
      BY <2>1, <2>4 DEF LogIInv, PricesOK
    <3> QED
      BY <1>1, <3>1, WaysCount
  <2>5. CASE k # "tier"
    <3>1. ~InMid(writer'[s], k) /\ \A t \in Slots \ {s} : InMid(writer'[t], k) = InMid(writer[t], k)
      BY <2>3, <2>5 DEF LogBegan, InMid
    <3>2. Quiet(k)
      BY <1>1, <2>1, <3>1 DEF Quiet
    <3> QED
      BY <1>1, <3>2, WaysCount
  <2> QED
    BY <2>4, <2>5
<1>12. ASSUME NEW s \in Slots, NEW v \in Tags, Log!SaveTier(s, v)
       PROVE  LogCountOK(k)'
  <2>1. /\ writer[s].op = "tier" /\ UNCHANGED <<opened, missed>>
        /\ writer' = [writer EXCEPT ![s].op = "refetch", ![s].read["tier"] = v]
    BY <1>12 DEF Log!SaveTier, Log!Rows
  <2>2. writer[s] \in Record /\ writer[s].todo = Log!NoTodo
    BY <1>2, <2>1 DEF RecordOK
  <2>3. /\ \A t \in Slots \ {s} : writer'[t] = writer[t]
        /\ writer'[s].op = "refetch" /\ writer'[s].todo = Log!NoTodo
    BY <1>2, <2>1, <2>2 DEF Record
  <2>5. ~InMid(writer'[s], k) /\ opened' = opened /\ missed' = missed
    BY <2>1, <2>3 DEF InMid
  <2>4. Quiet(k)
    <3> QED
      BY <1>1, <2>3, <2>5 DEF Quiet
  <2> QED
    BY <1>1, <2>4, WaysCount
<1>13. ASSUME NEW s \in Slots, Log!RefetchTier(s)
       PROVE  LogCountOK(k)'
  <2> DEFINE read == IF priced["tier"] = Log!Gone THEN writer[s].read ELSE priced
             closed == writer[s].op = "created"
  <2>1. Log!GoOn(s, "log", read, <<"tier">>, closed) /\ UNCHANGED <<opened, missed>>
    BY <1>13 DEF Log!RefetchTier, Log!Rows
  <2>2. read \in [Log!Kinds -> Log!Values] /\ "log" \in Log!Ops /\ closed \in BOOLEAN
    BY <1>2 DEF LogIInv, TypeInv, Record, Log!Ops
  <2> HIDE DEF read
  <2>3. LogWent(s, "log", read, <<"tier">>, closed)
    <3> HIDE DEF closed
    <3> QED
      BY <2>1, <2>2, TierTodo, GoOnFacts
  <2>4. Head(<<"tier">>) = "tier"
    OBVIOUS
  <2>6. /\ \A t \in Slots \ {s} : writer'[t] = writer[t]
        /\ writer'[s].op = "log" /\ writer'[s].todo = <<"tier">> /\ writer'[s].closed = closed
    BY <2>3, TierTodo DEF LogWent
  <2>7. InMid(writer'[s], k) => InMid(writer[s], k)
    BY <2>4, <2>6 DEF InMid
  <2>5. Quiet(k)
    BY <1>1, <2>1, <2>6, <2>7 DEF Quiet
  <2> QED
    BY <1>1, <2>5, WaysCount
<1>14. ASSUME NEW s \in Slots, NEW j \in Log!Kinds, Log!CloseActive(s, j) \/ Log!CloseFails(s, j)
       PROVE  LogCountOK(k)'
  <2>1. writer' = [writer EXCEPT ![s].closed = TRUE] /\ Log!Closing(s, j)
    BY <1>14 DEF Log!CloseActive, Log!CloseFails
  <2>2. /\ \A t \in Slots \ {s} : writer'[t] = writer[t]
        /\ writer'[s].op = writer[s].op /\ writer'[s].todo = writer[s].todo
    BY <1>2, <2>1 DEF Record
  <2>3. opened \in [Log!Kinds -> Nat] /\ missed \in [Log!Kinds -> 0..MaxMissed]
    BY DEF LogIInv, TypeInv
  <2>4. CASE k = j
    <3>1. CASE Log!CloseActive(s, j)
      <4>1. opened'[k] = 0
        BY <2>3, <2>4, <3>1 DEF Log!CloseActive
      <4> QED
        BY <1>1, <4>1, WaysCount
    <3>2. CASE Log!CloseFails(s, j)
      <4>1. Fails(s, k)
        BY <2>2, <2>3, <2>4, <3>2 DEF Log!CloseFails, Fails
      <4> QED
        BY <1>1, <4>1, WaysCount
    <3> QED
      BY <1>14, <3>1, <3>2
  <2>5. CASE k # j
    <3>1. opened'[k] = opened[k] /\ missed'[k] = missed[k]
      BY <1>14, <2>3, <2>5 DEF Log!CloseActive, Log!CloseFails
    <3>2. InMid(writer'[s], k) => InMid(writer[s], k)
      BY <2>1, <2>2, <2>5 DEF InMid, Log!Closing
    <3>3. Quiet(k)
      BY <1>1, <2>2, <3>1, <3>2 DEF Quiet
    <3> QED
      BY <1>1, <3>3, WaysCount
  <2> QED
    BY <2>4, <2>5
<1>15. ASSUME NEW s \in Slots, NEW j \in Log!Kinds, Log!InsertRow(s, j) \/ Log!InsertFails(s, j)
       PROVE  LogCountOK(k)'
  <2>1. Through(s, j)
    BY <1>15, LoggedFacts DEF Log!InsertRow, Log!InsertFails
  <2>2. ~InMid(writer'[s], k) /\ \A t \in Slots \ {s} : writer'[t] = writer[t]
    BY <2>1 DEF Through, InMid
  <2>3. missed' = missed /\ (opened' = opened \/ opened' = [opened EXCEPT ![j] = @ + 1]) /\ opened \in [Log!Kinds -> Nat]
    BY <1>15 DEF Log!InsertRow, Log!InsertFails, Log!Rows, LogIInv, TypeInv
  <2>4. CASE k = j
    <3>1. InMid(writer[s], k)
      BY <2>1, <2>4 DEF Through, InMid
    <3>2. Leaves(s, k)
      BY <1>1, <2>2, <2>3, <3>1 DEF Leaves
    <3> QED
      BY <1>1, <3>2, WaysCount
  <2>5. CASE k # j
    <3>1. Quiet(k)
      BY <1>1, <2>2, <2>3, <2>5 DEF Quiet
    <3> QED
      BY <1>1, <3>1, WaysCount
  <2> QED
    BY <2>4, <2>5
<1> QED
  BY <1>4, <1>7, <1>8, <1>9, <1>10, <1>11, <1>12, <1>13, <1>14, <1>15 DEF Log!Next

LEMMA InitCount == ASSUME PriceLogAssumed, Log!Init PROVE CountInv
<1> SUFFICES ASSUME NEW k \in Log!Kinds PROVE LogCountOK(k)
  BY DEF CountInv
<1>1. Mid(writer, k) = {}
  BY DEF Log!Init, Mid, InMid, Log!Idle
<1>2. Cardinality(Mid(writer, k)) = 0
  BY <1>1, FS_EmptySet
<1> QED
  BY <1>2, MidFinite DEF LogCountOK, Log!Init

\* What the invariants say of a state.
LEMMA LogSays ==
    ASSUME PriceLogAssumed, LogIInv, CountInv
    PROVE  Log!TypeOK /\ Log!OpenBounded /\ Log!HistoryTells
<1>1. Log!TypeOK
  <2>1. \A r \in Record : r \in [op : Log!Ops, read : [Log!Kinds -> Log!Values], todo : Seq(Log!Kinds),
                                 closed : BOOLEAN, alone : BOOLEAN]
    BY TodoFacts DEF Record
  <2>2. writer \in [Slots -> [op : Log!Ops, read : [Log!Kinds -> Log!Values], todo : Seq(Log!Kinds),
                              closed : BOOLEAN, alone : BOOLEAN]]
    BY <2>1 DEF LogIInv, TypeInv
  <2> QED
    BY <2>2 DEF LogIInv, TypeInv, Log!TypeOK
<1>2. ASSUME NEW k \in Log!Kinds PROVE opened[k] <= Cardinality(Slots) + missed[k]
  <2>1. opened[k] \in Nat /\ missed[k] \in Nat /\ LogCountOK(k)
    BY DEF LogIInv, TypeInv, CountInv
  <2> QED
    BY <2>1, MidFinite DEF LogCountOK
<1>3. Log!HistoryTells
  <2> SUFFICES ASSUME \A s \in Slots : writer[s] = Log!Idle, NEW k \in Log!Kinds \ astray
               PROVE  newest[k] = priced[k] /\ (priced[k] = Log!Gone /\ missed[k] = 0 => opened[k] = 0)
    BY DEF Log!HistoryTells
  <2> QED
    BY IdleFacts DEF LogIInv, HistoryOK
<1> QED
  BY <1>1, <1>2, <1>3, OneCount DEF Log!OpenBounded

-----------------------------------------------------------------------------
(* Messages.                                                               *)

ChatJob == [at : {"idle", "next", "waits", "sent"}, todo : Seq(Phones), until : Nat, wake : Nat]
ToOf(r) == Chat!normalizePhone(Head(r.todo))
Waits(j) == {s \in Slots : j[s].at = "waits"}
WaitsFor(j, c) == \E s \in Slots : j[s].at = "waits" /\ ToOf(j[s]) = c
SentTo(j, c) == \E s \in Slots : j[s].at = "sent" /\ ToOf(j[s]) = c
\* When a call that began now would wake, and whether that is too early.
WakeNow(last, t) == IF last = Chat!Never THEN t ELSE last + Gap
Early(wake, a) == a # Chat!Never /\ wake < a + Gap
CleanIn(j, a) ==
    {c \in Chat!Contacts : WaitsFor(j, c) /\ \A s \in Slots : j[s].at = "waits" /\ ToOf(j[s]) = c => ~Early(j[s].wake, a[c])}
HurtIn(j, a, l, t) ==
    {c \in Chat!Contacts : ~WaitsFor(j, c) /\ ~SentTo(j, c) /\ Early(WakeNow(l[c], t), a[c])}

ChatJobsOK ==
    \A s \in Slots :
        /\ call[s].at = "idle" => call[s] = Chat!Idle
        /\ call[s].at # "idle" => call[s].todo # <<>>
        /\ call[s].at \in {"waits", "sent"} => ToOf(call[s]) \in Chat!Contacts /\ ToOf(call[s]) # Chat!NoContact
        /\ call[s].at = "waits" => call[s].wake <= WakeNow(lastSent[ToOf(call[s])], tick)
TimesOK == \A c \in Chat!Contacts : lastSent[c] <= tick /\ arrived[c] <= tick
ChatCountOK ==
    bursts + Cardinality(Waits(call)) + Cardinality(HurtIn(call, arrived, lastSent, tick))
        <= overlapping + lostAnswers + Cardinality(CleanIn(call, arrived))
ChatIInv == Chat!TypeOK /\ ChatJobsOK /\ TimesOK /\ ChatCountOK

\* Slots that are waiting or have sent.
Busy(r) == r.at \in {"waits", "sent"}

LEMMA ContactOf ==
    ASSUME NEW p \in Phones, Chat!normalizePhone(p) # Chat!NoContact
    PROVE  Chat!normalizePhone(p) \in Chat!Contacts
BY DEF Chat!normalizePhone, Chat!Contacts

LEMMA TailFacts ==
    ASSUME NEW S, NEW q \in Seq(S), q # <<>>
    PROVE  Head(q) \in S /\ Tail(q) \in Seq(S) /\ (Len(q) # 1 => Tail(q) # <<>>)
<1>1. Len(q) \in Nat /\ Len(q) # 0
  OBVIOUS
<1>2. Tail(q) \in Seq(S) /\ Len(Tail(q)) = Len(q) - 1
  BY <1>1
<1>3. Head(q) \in S
  BY <1>1
<1>4. Len(<<>>) = 0
  OBVIOUS
<1> QED
  BY <1>1, <1>2, <1>3, <1>4

LEMMA JobFacts ==
    ASSUME NEW r \in ChatJob, r.todo # <<>>
    PROVE  /\ Head(r.todo) \in Phones /\ Tail(r.todo) \in Seq(Phones)
           /\ Len(r.todo) # 1 => Tail(r.todo) # <<>>
           /\ ToOf(r) # Chat!NoContact => ToOf(r) \in Chat!Contacts
<1>1. r.todo \in Seq(Phones)
  BY DEF ChatJob
<1>2. Head(r.todo) \in Phones /\ Tail(r.todo) \in Seq(Phones) /\ (Len(r.todo) # 1 => Tail(r.todo) # <<>>)
  BY <1>1, TailFacts
<1> QED
  BY <1>2, ContactOf DEF ToOf

LEMMA ChatIdleIsJob == Chat!Idle \in ChatJob /\ Chat!Idle.at = "idle"
BY DEF Chat!Idle, ChatJob

LEMMA AllFinite ==
    ASSUME WhatsAppAssumed, NEW j, NEW a, NEW l, NEW t
    PROVE  /\ IsFiniteSet(Waits(j)) /\ Cardinality(Waits(j)) \in Nat
           /\ IsFiniteSet(CleanIn(j, a)) /\ Cardinality(CleanIn(j, a)) \in Nat
           /\ IsFiniteSet(HurtIn(j, a, l, t)) /\ Cardinality(HurtIn(j, a, l, t)) \in Nat
<1>1. Waits(j) \in SUBSET Slots /\ CleanIn(j, a) \in SUBSET Chat!Contacts /\ HurtIn(j, a, l, t) \in SUBSET Chat!Contacts
  BY DEF Waits, CleanIn, HurtIn
<1>2. IsFiniteSet(Slots) /\ IsFiniteSet(Chat!Contacts)
  BY DEF WhatsAppAssumed
<1>3. IsFiniteSet(Waits(j)) /\ IsFiniteSet(CleanIn(j, a)) /\ IsFiniteSet(HurtIn(j, a, l, t))
  BY <1>1, <1>2, FS_Subset
<1> QED
  BY <1>3, FS_CardinalityType

\* A part of a set, with or without one more element, is no larger but by one.
LEMMA NoLarger ==
    ASSUME NEW S, NEW T, IsFiniteSet(T), S \subseteq T
    PROVE  IsFiniteSet(S) /\ Cardinality(S) \in Nat /\ Cardinality(T) \in Nat /\ Cardinality(S) <= Cardinality(T)
BY FS_Subset, FS_CardinalityType

LEMMA OneLarger ==
    ASSUME NEW S, NEW T, NEW x, IsFiniteSet(T), S \subseteq T \cup {x}
    PROVE  IsFiniteSet(S) /\ Cardinality(S) \in Nat /\ Cardinality(T) \in Nat /\ Cardinality(S) <= Cardinality(T) + 1
<1>0. /\ IsFiniteSet(T \cup {x})
      /\ Cardinality(T \cup {x}) = IF x \in T THEN Cardinality(T) ELSE Cardinality(T) + 1
  BY FS_AddElement
<1>2. Cardinality(T) \in Nat /\ Cardinality(T \cup {x}) \in Nat
  BY <1>0, FS_CardinalityType
<1>1. IsFiniteSet(T \cup {x}) /\ Cardinality(T \cup {x}) <= Cardinality(T) + 1
  BY <1>0, <1>2
<1>3. IsFiniteSet(S) /\ Cardinality(S) \in Nat /\ Cardinality(S) <= Cardinality(T \cup {x})
  BY <1>1, NoLarger
<1> QED
  BY <1>1, <1>2, <1>3

\* With one element removed from the larger.
LEMMA OneLess ==
    ASSUME NEW S, NEW T, NEW x \in T, IsFiniteSet(T), S \subseteq T \ {x}
    PROVE  Cardinality(S) \in Nat /\ Cardinality(T) \in Nat /\ Cardinality(S) + 1 <= Cardinality(T)
<1>1. IsFiniteSet(T \ {x}) /\ Cardinality(T \ {x}) = Cardinality(T) - 1
  BY FS_RemoveElement
<1>2. Cardinality(T) \in Nat
  BY FS_CardinalityType
<1>3. Cardinality(S) \in Nat /\ Cardinality(S) <= Cardinality(T \ {x})
  BY <1>1, NoLarger
<1> QED
  BY <1>1, <1>2, <1>3

AlikeIn(j, k, a, l, t) ==
    /\ Waits(k) = Waits(j)
    /\ CleanIn(k, a) = CleanIn(j, a)
    /\ HurtIn(k, a, l, t) = HurtIn(j, a, l, t)
LEMMA SameSets ==
    ASSUME NEW j, NEW k, NEW a, NEW l, NEW t,
           \A s \in Slots : Busy(j[s]) \/ Busy(k[s]) => k[s] = j[s]
    PROVE  AlikeIn(j, k, a, l, t)
<1>1. \A s \in Slots : /\ k[s].at = "waits" <=> j[s].at = "waits"
                       /\ k[s].at = "sent" <=> j[s].at = "sent"
                       /\ Busy(j[s]) => k[s] = j[s]
  BY DEF Busy
<1>2. \A c : (WaitsFor(k, c) <=> WaitsFor(j, c)) /\ (SentTo(k, c) <=> SentTo(j, c))
  BY <1>1 DEF WaitsFor, SentTo, Busy
<1>3. Waits(k) = Waits(j)
  BY <1>1 DEF Waits
<1>4. CleanIn(k, a) = CleanIn(j, a)
  BY <1>1, <1>2 DEF CleanIn, Busy
<1>5. HurtIn(k, a, l, t) = HurtIn(j, a, l, t)
  BY <1>2 DEF HurtIn
<1> QED
  BY <1>3, <1>4, <1>5 DEF AlikeIn

ChatJobOK(r, last, t) ==
    /\ r.at = "idle" => r = Chat!Idle
    /\ r.at # "idle" => r.todo # <<>>
    /\ r.at \in {"waits", "sent"} => ToOf(r) \in Chat!Contacts /\ ToOf(r) # Chat!NoContact
    /\ r.at = "waits" => r.wake <= WakeNow(last[ToOf(r)], t)

\* The call whose request in slot s becomes r; the others stay.
LEMMA JobStep ==
    ASSUME call \in [Slots -> ChatJob], ChatJobsOK, NEW s \in Slots, NEW r \in ChatJob,
           ChatJobOK(r, lastSent, tick), call' = [call EXCEPT ![s] = r], lastSent' = lastSent, tick' = tick
    PROVE  ChatJobsOK' /\ call' \in [Slots -> ChatJob]
BY DEF ChatJobsOK, ChatJobOK

\* A call that does not wait or send and goes on not to.
LEMMA QuietStep ==
    ASSUME WhatsAppAssumed, ChatIInv, NEW s \in Slots, NEW r \in ChatJob, ~Busy(call[s]), ~Busy(r),
           r.at = "idle" => r = Chat!Idle, r.at # "idle" => r.todo # <<>>,
           call' = [call EXCEPT ![s] = r], UNCHANGED Chat!Still
    PROVE  ChatJobsOK' /\ TimesOK' /\ ChatCountOK' /\ call' \in [Slots -> ChatJob]
<1>1. call \in [Slots -> ChatJob] /\ ChatJobsOK /\ TimesOK /\ ChatCountOK
  BY DEF ChatIInv, Chat!TypeOK, ChatJob
<1>2. ChatJobOK(r, lastSent, tick)
  BY DEF ChatJobOK, Busy, ChatJob
<1>3. ChatJobsOK' /\ call' \in [Slots -> ChatJob]
  BY <1>1, <1>2, JobStep DEF Chat!Still
<1>4. TimesOK'
  BY <1>1 DEF TimesOK, Chat!Still
<1>5. \A t \in Slots : Busy(call[t]) \/ Busy(call'[t]) => call'[t] = call[t]
  BY <1>1
<1>6. AlikeIn(call, call', arrived, lastSent, tick)
  BY <1>5, SameSets
<1>7. ChatCountOK'
  BY <1>1, <1>6 DEF ChatCountOK, Chat!Still, AlikeIn
<1> QED
  BY <1>3, <1>4, <1>7

LEMMA IdleKeeps ==
    ASSUME WhatsAppAssumed, ChatIInv, call' = call, UNCHANGED Chat!Still
    PROVE  ChatJobsOK' /\ TimesOK' /\ ChatCountOK' /\ call' \in [Slots -> ChatJob]
BY DEF ChatIInv, Chat!TypeOK, ChatJobsOK, TimesOK, ChatCountOK, Chat!Still, ChatJob

LEMMA OnwardFacts ==
    ASSUME NEW r \in ChatJob, r.todo # <<>>
    PROVE  /\ Chat!Onward(r) \in ChatJob /\ ~Busy(Chat!Onward(r))
           /\ Chat!Onward(r).at = "idle" => Chat!Onward(r) = Chat!Idle
           /\ Chat!Onward(r).at # "idle" => Chat!Onward(r).todo # <<>>
<1>1. CASE Len(r.todo) = 1
  BY <1>1, ChatIdleIsJob DEF Chat!Onward, Busy
<1>2. CASE Len(r.todo) # 1
  <2>1. Chat!Onward(r) = [r EXCEPT !.at = "next", !.todo = Tail(r.todo)]
    BY <1>2 DEF Chat!Onward
  <2>2. Chat!Onward(r) \in ChatJob /\ Chat!Onward(r).at = "next" /\ Chat!Onward(r).todo = Tail(r.todo)
    BY <2>1, JobFacts DEF ChatJob
  <2> QED
    BY <2>2, <1>2, JobFacts DEF Busy
<1> QED
  BY <1>1, <1>2

LEMMA SlotFacts ==
    ASSUME ChatIInv, NEW s \in Slots
    PROVE  /\ call[s] \in ChatJob /\ ChatJobOK(call[s], lastSent, tick)
           /\ call \in [Slots -> ChatJob] /\ ChatJobsOK /\ TimesOK /\ ChatCountOK /\ Chat!TypeOK
           /\ Chat!To(s) = ToOf(call[s])
           /\ Chat!NextNumber(s) <=> call' = [call EXCEPT ![s] = Chat!Onward(call[s])]
           /\ Chat!Key(Head(call[s].todo)) = ToOf(call[s])
<1>1. call[s] \in ChatJob /\ ChatJobOK(call[s], lastSent, tick) /\ call \in [Slots -> ChatJob]
  BY DEF ChatIInv, Chat!TypeOK, ChatJobsOK, ChatJobOK, ChatJob
<1>2. Chat!To(s) = ToOf(call[s]) /\ Chat!Key(Head(call[s].todo)) = ToOf(call[s])
  BY DEF Chat!To, ToOf, Chat!Key
<1>3. Chat!NextNumber(s) <=> call' = [call EXCEPT ![s] = Chat!Onward(call[s])]
  BY DEF Chat!NextNumber
<1> QED
  BY <1>1, <1>2, <1>3 DEF ChatIInv

ChatBegan(j, k, s, c, w, a, l, t) ==
    /\ Waits(k) = Waits(j) \cup {s} /\ s \notin Waits(j)
    /\ \A d : d # c => (d \in CleanIn(k, a) <=> d \in CleanIn(j, a))
    /\ \A d : d # c => (d \in HurtIn(k, a, l, t) <=> d \in HurtIn(j, a, l, t))
    /\ c \notin HurtIn(k, a, l, t)
    /\ c \in CleanIn(k, a) <=> c \in Chat!Contacts /\ ~Early(w, a[c]) /\ (~WaitsFor(j, c) \/ c \in CleanIn(j, a))

LEMMA BeganSets ==
    ASSUME NEW j \in [Slots -> ChatJob], NEW s \in Slots, ~Busy(j[s]), NEW w \in Nat, NEW k,
           NEW a, NEW l, NEW t, k = [j EXCEPT ![s].at = "waits", ![s].wake = w]
    PROVE  k \in [Slots -> ChatJob] /\ ChatBegan(j, k, s, ToOf(j[s]), w, a, l, t)
<1> DEFINE c == ToOf(j[s])
<1>1. k = [j EXCEPT ![s] = [j[s] EXCEPT !.at = "waits", !.wake = w]]
  OBVIOUS
<1>2. [j[s] EXCEPT !.at = "waits", !.wake = w] \in ChatJob
  BY DEF ChatJob
<1>3. /\ k \in [Slots -> ChatJob] /\ k[s].at = "waits" /\ k[s].wake = w
      /\ k[s].todo = j[s].todo
      /\ \A v \in Slots \ {s} : k[v] = j[v]
  BY <1>1, <1>2 DEF ChatJob
<1>4. ToOf(k[s]) = c /\ j[s].at # "waits" /\ j[s].at # "sent"
  BY <1>3 DEF ToOf, Busy
<1> HIDE DEF c
<1>5. Waits(k) = Waits(j) \cup {s} /\ s \notin Waits(j)
  BY <1>3, <1>4 DEF Waits
<1>6. \A d : d # c => /\ WaitsFor(k, d) <=> WaitsFor(j, d)
                      /\ SentTo(k, d) <=> SentTo(j, d)
  BY <1>3, <1>4 DEF WaitsFor, SentTo
<1>7. WaitsFor(k, c)
  BY <1>3, <1>4 DEF WaitsFor
<1>8. \A d : d # c => (d \in CleanIn(k, a) <=> d \in CleanIn(j, a))
  BY <1>3, <1>4, <1>6 DEF CleanIn
<1>9. \A d : d # c => (d \in HurtIn(k, a, l, t) <=> d \in HurtIn(j, a, l, t))
  BY <1>6 DEF HurtIn
<1>10. c \notin HurtIn(k, a, l, t)
  BY <1>7 DEF HurtIn
<1>11. c \in CleanIn(k, a) <=> c \in Chat!Contacts /\ ~Early(w, a[c]) /\ (~WaitsFor(j, c) \/ c \in CleanIn(j, a))
  BY <1>3, <1>4, <1>7 DEF CleanIn, WaitsFor
<1> QED
  BY <1>3, <1>5, <1>8, <1>9, <1>10, <1>11 DEF ChatBegan, c

LEMMA ReadGapKeeps ==
    ASSUME WhatsAppAssumed, ChatIInv, NEW s \in Slots, Chat!ReadGap(s)
    PROVE  ChatJobsOK' /\ TimesOK' /\ ChatCountOK' /\ call' \in [Slots -> ChatJob] /\ overlapping' \in Nat
<1> DEFINE c == ToOf(call[s])
           w == WakeNow(lastSent[c], tick)
           F == Chat!InFlight(c)
           r == [call[s] EXCEPT !.at = "waits", !.wake = w]
<1>1. /\ call[s] \in ChatJob /\ ChatJobOK(call[s], lastSent, tick) /\ call \in [Slots -> ChatJob] /\ ChatJobsOK /\ TimesOK
      /\ ChatCountOK /\ Chat!TypeOK /\ Chat!To(s) = c /\ Chat!Key(Head(call[s].todo)) = c
  BY SlotFacts
<1>2. /\ call[s].at = "next" /\ c # Chat!NoContact
      /\ call' = [call EXCEPT ![s].at = "waits", ![s].wake = w]
      /\ overlapping' = overlapping + Cardinality(F)
      /\ UNCHANGED <<lastSent, tick, arrived, bursts, lostAnswers>>
  BY <1>1, OneCount DEF Chat!ReadGap, WakeNow
<1>3. c \in Chat!Contacts
  BY <1>1, <1>2, JobFacts DEF ChatJobOK
<1>4. w \in Nat
  BY <1>1, <1>3 DEF WakeNow, Chat!TypeOK, WhatsAppAssumed, Chat!Never
<1>5. r \in ChatJob /\ r.at = "waits" /\ r.wake = w /\ ToOf(r) = c /\ r.todo = call[s].todo
  BY <1>1, <1>4 DEF ChatJob, ToOf
<1>6. call' = [call EXCEPT ![s] = r]
  BY <1>2
<1>7. ~Busy(call[s])
  BY <1>2 DEF Busy
<1>8. ChatBegan(call, call', s, c, w, arrived, lastSent, tick)
  BY <1>1, <1>2, <1>4, <1>7, BeganSets
<1> HIDE DEF w, r, c
<1>9. ChatJobOK(r, lastSent, tick)
  BY <1>1, <1>2, <1>3, <1>4, <1>5 DEF ChatJobOK, w
<1>10. ChatJobsOK' /\ call' \in [Slots -> ChatJob]
  BY <1>1, <1>2, <1>5, <1>6, <1>9, JobStep
<1>11. TimesOK'
  BY <1>1, <1>2 DEF TimesOK
<1>12. F \in SUBSET Slots
  BY DEF Chat!InFlight
<1>13. IsFiniteSet(F) /\ Cardinality(F) \in Nat /\ (F # {} => Cardinality(F) >= 1)
  BY <1>12, FS_Subset, FS_CardinalityType, FS_EmptySet DEF WhatsAppAssumed
<1>14. overlapping \in Nat /\ bursts \in Nat /\ lostAnswers \in Nat
  BY <1>1 DEF Chat!TypeOK, WhatsAppAssumed
<1> DEFINE W == Waits(call)
           H == HurtIn(call, arrived, lastSent, tick)
           C == CleanIn(call, arrived)
           W2 == Waits(call')
           H2 == HurtIn(call', arrived, lastSent, tick)
           C2 == CleanIn(call', arrived)
<1>15. /\ IsFiniteSet(W) /\ IsFiniteSet(H) /\ IsFiniteSet(C) /\ IsFiniteSet(W2) /\ IsFiniteSet(H2) /\ IsFiniteSet(C2)
       /\ Cardinality(W) \in Nat /\ Cardinality(H) \in Nat /\ Cardinality(C) \in Nat
       /\ Cardinality(W2) \in Nat /\ Cardinality(H2) \in Nat /\ Cardinality(C2) \in Nat
  BY AllFinite
<1>16. W2 = W \cup {s} /\ H2 \subseteq H
  BY <1>8 DEF ChatBegan
<1>17. bursts + Cardinality(W) + Cardinality(H) <= overlapping + lostAnswers + Cardinality(C)
  BY <1>1 DEF ChatCountOK
<1>18. SUFFICES bursts + Cardinality(W2) + Cardinality(H2) <= overlapping' + lostAnswers + Cardinality(C2)
  BY <1>2, <1>10, <1>11, <1>13, <1>14 DEF ChatCountOK
<1>19. Cardinality(W2) <= Cardinality(W) + 1 /\ Cardinality(H2) <= Cardinality(H)
  <2>1. Cardinality(W2) <= Cardinality(W) + 1
    BY <1>15, <1>16, OneLarger
  <2>2. Cardinality(H2) <= Cardinality(H)
    BY <1>15, <1>16, NoLarger
  <2> QED
    BY <2>1, <2>2
<1>20. CASE F # {}
  <2>1. c \in C => c \in C2
    <3> SUFFICES ASSUME c \in C PROVE ~Early(w, arrived[c])
      BY <1>3, <1>8 DEF ChatBegan
    <3>1. PICK t \in Slots : call[t].at = "waits" /\ ToOf(call[t]) = c /\ ~Early(call[t].wake, arrived[c])
      BY DEF CleanIn, WaitsFor
    <3>2. call[t].wake <= w /\ call[t].wake \in Nat
      BY <1>1, <3>1 DEF ChatJobsOK, w, ChatJob
    <3>3. arrived[c] \in Chat!Never..LastTick
      BY <1>1, <1>3 DEF Chat!TypeOK
    <3> QED
      BY <1>4, <3>1, <3>2, <3>3 DEF Early, WhatsAppAssumed, Chat!Never
  <2>2. C \subseteq C2
    BY <1>8, <2>1 DEF ChatBegan
  <2>3. Cardinality(C) <= Cardinality(C2)
    BY <1>15, <2>2, NoLarger
  <2> HIDE DEF W, H, C, W2, H2, C2, F
  <2> QED
    BY <1>2, <1>13, <1>14, <1>15, <1>17, <1>19, <1>20, <2>3
<1>21. CASE F = {}
  <2>1. ~WaitsFor(call, c) /\ ~SentTo(call, c)
    <3>1. \A t \in Slots : Chat!To(t) = ToOf(call[t])
      BY SlotFacts
    <3> QED
      BY <1>21, <3>1 DEF Chat!InFlight, WaitsFor, SentTo
  <2>2. c \notin C
    BY <2>1 DEF CleanIn
  <2>3. C \subseteq C2
    BY <1>8, <2>2 DEF ChatBegan
  <2>4. Cardinality(F) = 0
    BY <1>21, FS_EmptySet
  <2>5. CASE Early(w, arrived[c])
    <3>1. c \in H /\ H2 \subseteq H \ {c}
      BY <1>3, <1>8, <2>1, <2>5 DEF HurtIn, ChatBegan, w
    <3>2. Cardinality(H2) + 1 <= Cardinality(H)
      BY <1>15, <3>1, OneLess
    <3>3. Cardinality(C) <= Cardinality(C2)
      BY <1>15, <2>3, NoLarger
    <3> HIDE DEF W, H, C, W2, H2, C2, F
    <3> QED
      BY <1>2, <1>14, <1>15, <1>17, <1>19, <2>4, <3>2, <3>3
  <2>6. CASE ~Early(w, arrived[c])
    <3>1. c \in C2 /\ C \subseteq C2 \ {c}
      BY <1>3, <1>8, <2>1, <2>2, <2>3, <2>6 DEF ChatBegan
    <3>2. Cardinality(C) + 1 <= Cardinality(C2)
      BY <1>15, <3>1, OneLess
    <3> HIDE DEF W, H, C, W2, H2, C2, F
    <3> QED
      BY <1>2, <1>14, <1>15, <1>17, <1>19, <2>4, <3>2
  <2> QED
    BY <2>5, <2>6
<1> QED
  BY <1>20, <1>21

ChatWent(j, k, s, c, a, b, l, t) ==
    /\ Waits(k) = Waits(j) \ {s} /\ s \in Waits(j)
    /\ \A d : d # c => (d \in CleanIn(k, b) <=> d \in CleanIn(j, a))
    /\ \A d : d # c => (d \in HurtIn(k, b, l, t) <=> d \in HurtIn(j, a, l, t))
    /\ k[s].at = "sent" => c \notin HurtIn(k, b, l, t)
    /\ c \in CleanIn(j, a) => ~Early(j[s].wake, a[c])

LEMMA WentSets ==
    ASSUME NEW j \in [Slots -> ChatJob], NEW s \in Slots, j[s].at = "waits", NEW r \in ChatJob, r.at # "waits",
           r.at = "sent" => ToOf(r) = ToOf(j[s]), NEW k, k = [j EXCEPT ![s] = r], ToOf(j[s]) \in Chat!Contacts,
           NEW a, NEW b, \A d \in Chat!Contacts : d # ToOf(j[s]) => b[d] = a[d], NEW l, NEW t
    PROVE  ChatWent(j, k, s, ToOf(j[s]), a, b, l, t)
<1> DEFINE c == ToOf(j[s])
<1>1. k[s] = r /\ \A v \in Slots \ {s} : k[v] = j[v]
  OBVIOUS
<1>2. /\ c = ToOf(j[s]) /\ c \in Chat!Contacts /\ \A d \in Chat!Contacts : d # c => b[d] = a[d]
      /\ r.at = "sent" => ToOf(r) = c
  OBVIOUS
<1> HIDE DEF c
<1>3. Waits(k) = Waits(j) \ {s} /\ s \in Waits(j)
  BY <1>1 DEF Waits
<1>4. \A d : d # c => /\ WaitsFor(k, d) <=> WaitsFor(j, d)
                      /\ SentTo(k, d) <=> SentTo(j, d)
  <2> SUFFICES ASSUME NEW d, d # c
               PROVE  (WaitsFor(k, d) <=> WaitsFor(j, d)) /\ (SentTo(k, d) <=> SentTo(j, d))
    OBVIOUS
  <2>1. WaitsFor(k, d) <=> WaitsFor(j, d)
    BY <1>1, <1>2 DEF WaitsFor
  <2>2. SentTo(k, d) <=> SentTo(j, d)
    BY <1>1, <1>2 DEF SentTo
  <2> QED
    BY <2>1, <2>2
<1>5. \A d : d # c => (d \in CleanIn(k, b) <=> d \in CleanIn(j, a))
  BY <1>1, <1>2, <1>4 DEF CleanIn
<1>6. \A d : d # c => (d \in HurtIn(k, b, l, t) <=> d \in HurtIn(j, a, l, t))
  BY <1>2, <1>4 DEF HurtIn
<1>7. k[s].at = "sent" => c \notin HurtIn(k, b, l, t)
  BY <1>1, <1>2 DEF HurtIn, SentTo
<1>8. c \in CleanIn(j, a) => ~Early(j[s].wake, a[c])
  BY <1>2 DEF CleanIn
<1> QED
  BY <1>3, <1>5, <1>6, <1>7, <1>8 DEF ChatWent, c

ChatOne(b) == IF b THEN 1 ELSE 0

LEMMA LeaveKeeps ==
    ASSUME WhatsAppAssumed, ChatIInv, NEW s \in Slots, call[s].at = "waits", NEW r \in ChatJob, r.at # "waits",
           ChatJobOK(r, lastSent, tick), r.at = "sent" => ToOf(r) = ToOf(call[s]), call' = [call EXCEPT ![s] = r],
           arrived' \in [Chat!Contacts -> Chat!Never..LastTick], arrived'[ToOf(call[s])] <= tick,
           \A d \in Chat!Contacts : d # ToOf(call[s]) => arrived'[d] = arrived[d],
           UNCHANGED <<lastSent, tick, overlapping>>,
           NEW b \in Nat, NEW m \in Nat, bursts' = bursts + b, lostAnswers' = lostAnswers + m,
           b + ChatOne(ToOf(call[s]) \in CleanIn(call, arrived)) + ChatOne(ToOf(call[s]) \in HurtIn(call', arrived', lastSent, tick))
               <= 1 + m
    PROVE  ChatJobsOK' /\ TimesOK' /\ ChatCountOK' /\ call' \in [Slots -> ChatJob]
<1> DEFINE c == ToOf(call[s])
           W == Waits(call)
           H == HurtIn(call, arrived, lastSent, tick)
           C == CleanIn(call, arrived)
           W2 == Waits(call')
           H2 == HurtIn(call', arrived', lastSent, tick)
           C2 == CleanIn(call', arrived')
<1>1. /\ call[s] \in ChatJob /\ ChatJobOK(call[s], lastSent, tick) /\ call \in [Slots -> ChatJob] /\ ChatJobsOK /\ TimesOK
      /\ ChatCountOK /\ Chat!TypeOK
  BY SlotFacts
<1>2. ChatJobsOK' /\ call' \in [Slots -> ChatJob]
  BY <1>1, JobStep
<1>3. TimesOK'
  BY <1>1 DEF TimesOK
<1>4. c \in Chat!Contacts
  BY <1>1 DEF ChatJobOK
<1>5. ChatWent(call, call', s, c, arrived, arrived', lastSent, tick)
  BY <1>1, <1>4, WentSets
<1>6. /\ IsFiniteSet(W) /\ IsFiniteSet(H) /\ IsFiniteSet(C) /\ IsFiniteSet(W2) /\ IsFiniteSet(H2) /\ IsFiniteSet(C2)
      /\ Cardinality(W) \in Nat /\ Cardinality(H) \in Nat /\ Cardinality(C) \in Nat
      /\ Cardinality(W2) \in Nat /\ Cardinality(H2) \in Nat /\ Cardinality(C2) \in Nat
  BY AllFinite
<1>7. bursts + Cardinality(W) + Cardinality(H) <= overlapping + lostAnswers + Cardinality(C)
  BY <1>1 DEF ChatCountOK
<1>8. bursts \in Nat /\ overlapping \in Nat /\ lostAnswers \in Nat
  BY <1>1 DEF Chat!TypeOK, WhatsAppAssumed
<1>9. b + ChatOne(c \in C) + ChatOne(c \in H2) <= 1 + m
  OBVIOUS
<1>10. s \in W /\ W2 \subseteq W \ {s} /\ C \subseteq C2 \cup {c} /\ H2 \subseteq H \cup {c}
       /\ (c \notin C => C \subseteq C2) /\ (c \notin H2 => H2 \subseteq H)
  BY <1>5 DEF ChatWent
<1>11. overlapping' = overlapping /\ bursts' = bursts + b /\ lostAnswers' = lostAnswers + m
       /\ lastSent' = lastSent /\ tick' = tick
  OBVIOUS
<1>12. SUFFICES bursts' + Cardinality(W2) + Cardinality(H2) <= overlapping' + lostAnswers' + Cardinality(C2)
  BY <1>2, <1>3, <1>11 DEF ChatCountOK
<1> HIDE DEF c, W, H, C, W2, H2, C2
<1>13. Cardinality(W2) + 1 <= Cardinality(W)
  BY <1>6, <1>10, OneLess
<1>14. Cardinality(C) <= Cardinality(C2) + ChatOne(c \in C)
  <2>1. CASE c \in C
    BY <1>6, <1>10, <2>1, OneLarger DEF ChatOne
  <2>2. CASE c \notin C
    <3>1. Cardinality(C) <= Cardinality(C2)
      BY <1>6, <1>10, <2>2, NoLarger
    <3> QED
      BY <1>6, <2>2, <3>1 DEF ChatOne
  <2> QED
    BY <2>1, <2>2
<1>15. Cardinality(H2) <= Cardinality(H) + ChatOne(c \in H2)
  <2>1. CASE c \in H2
    BY <1>6, <1>10, <2>1, OneLarger DEF ChatOne
  <2>2. CASE c \notin H2
    <3>1. Cardinality(H2) <= Cardinality(H)
      BY <1>6, <1>10, <2>2, NoLarger
    <3> QED
      BY <1>6, <2>2, <3>1 DEF ChatOne
  <2> QED
    BY <2>1, <2>2
<1>16. ChatOne(c \in C) \in Nat /\ ChatOne(c \in H2) \in Nat
  BY DEF ChatOne
<1> QED
  BY <1>6, <1>7, <1>8, <1>9, <1>11, <1>13, <1>14, <1>15, <1>16

\* The tick at which a message comes, and whether it comes within the gap.
LEMMA ArrivesFacts ==
    ASSUME WhatsAppAssumed, ChatIInv, NEW s \in Slots, call[s].at = "waits", tick >= call[s].wake, Chat!Arrives(s)
    PROVE  LET c == ToOf(call[s]) IN
           /\ arrived' \in [Chat!Contacts -> Chat!Never..LastTick] /\ arrived'[c] = tick
           /\ \A d \in Chat!Contacts : d # c => arrived'[d] = arrived[d]
           /\ \E b \in {0, 1} : bursts' = bursts + b /\ (c \in CleanIn(call, arrived) => b = 0)
<1> DEFINE c == ToOf(call[s])
<1>1. call[s] \in ChatJob /\ ChatJobOK(call[s], lastSent, tick) /\ Chat!TypeOK /\ Chat!To(s) = c
  BY SlotFacts
<1>2. c \in Chat!Contacts /\ call[s].wake \in Nat
  BY <1>1 DEF ChatJobOK, ChatJob
<1>3. arrived' = [arrived EXCEPT ![c] = tick]
      /\ bursts' = IF arrived[c] # Chat!Never /\ tick - arrived[c] < Gap THEN bursts + 1 ELSE bursts
  BY <1>1 DEF Chat!Arrives
<1>4. c \in CleanIn(call, arrived) => ~Early(call[s].wake, arrived[c])
  BY DEF CleanIn
<1> HIDE DEF c
<1>5. arrived \in [Chat!Contacts -> Chat!Never..LastTick] /\ tick \in 0..LastTick /\ bursts \in Nat /\ Gap \in Nat
      /\ LastTick \in Nat /\ arrived[c] \in Chat!Never..LastTick
  BY <1>1, <1>2 DEF Chat!TypeOK, WhatsAppAssumed
<1>6. /\ arrived' \in [Chat!Contacts -> Chat!Never..LastTick] /\ arrived'[c] = tick
      /\ \A d \in Chat!Contacts : d # c => arrived'[d] = arrived[d]
  BY <1>2, <1>3, <1>5 DEF Chat!Never
<1>7. \E b \in {0, 1} : bursts' = bursts + b /\ (c \in CleanIn(call, arrived) => b = 0)
  <2>1. CASE arrived[c] # Chat!Never /\ tick - arrived[c] < Gap
    <3>1. Early(call[s].wake, arrived[c])
      BY <1>2, <1>5, <2>1 DEF Early, Chat!Never
    <3> QED
      BY <1>3, <1>4, <2>1, <3>1
  <2>2. CASE ~(arrived[c] # Chat!Never /\ tick - arrived[c] < Gap)
    BY <1>3, <1>5, <2>2
  <2> QED
    BY <2>1, <2>2
<1> QED
  BY <1>6, <1>7 DEF c

LEMMA PostKeeps ==
    ASSUME WhatsAppAssumed, ChatIInv, NEW s \in Slots, Chat!Post(s)
    PROVE  ChatJobsOK' /\ TimesOK' /\ ChatCountOK' /\ call' \in [Slots -> ChatJob] /\ arrived' \in [Chat!Contacts -> Chat!Never..LastTick]
           /\ bursts' \in Nat
<1> DEFINE c == ToOf(call[s])
           r == [call[s] EXCEPT !.at = "sent"]
<1>1. /\ call[s] \in ChatJob /\ ChatJobOK(call[s], lastSent, tick) /\ call \in [Slots -> ChatJob] /\ Chat!TypeOK /\ TimesOK
  BY SlotFacts
<1>2. /\ call[s].at = "waits" /\ tick >= call[s].wake /\ Chat!Arrives(s) /\ call' = [call EXCEPT ![s].at = "sent"]
      /\ UNCHANGED <<lastSent, tick, overlapping>> /\ lostAnswers' = lostAnswers
  BY DEF Chat!Post
<1>3. /\ arrived' \in [Chat!Contacts -> Chat!Never..LastTick] /\ arrived'[c] = tick
      /\ \A d \in Chat!Contacts : d # c => arrived'[d] = arrived[d]
      /\ \E b \in {0, 1} : bursts' = bursts + b /\ (c \in CleanIn(call, arrived) => b = 0)
  BY <1>2, ArrivesFacts
<1>4. PICK b \in {0, 1} : bursts' = bursts + b /\ (c \in CleanIn(call, arrived) => b = 0)
  BY <1>3
<1>5. r \in ChatJob /\ r.at = "sent" /\ r.todo = call[s].todo /\ ToOf(r) = c
  BY <1>1 DEF ChatJob, ToOf
<1>6. call' = [call EXCEPT ![s] = r]
  BY <1>2
<1>7. ChatJobOK(r, lastSent, tick)
  BY <1>1, <1>2, <1>5 DEF ChatJobOK
<1>8. c \in Chat!Contacts
  BY <1>1, <1>2 DEF ChatJobOK
<1>9. tick \in Nat /\ bursts \in Nat /\ lostAnswers \in Nat
  BY <1>1 DEF Chat!TypeOK, WhatsAppAssumed
<1>10. call'[s].at = "sent" /\ ToOf(call'[s]) = c
  BY <1>1, <1>5, <1>6
<1>11. c \notin HurtIn(call', arrived', lastSent, tick)
  BY <1>10 DEF HurtIn, SentTo
<1>12. b + ChatOne(c \in CleanIn(call, arrived)) + ChatOne(c \in HurtIn(call', arrived', lastSent, tick)) <= 1 + 0
  BY <1>4, <1>11 DEF ChatOne
<1>13. lostAnswers' = lostAnswers + 0 /\ b \in Nat /\ arrived'[c] <= tick
  BY <1>2, <1>3, <1>9
<1>14. bursts' = bursts + b /\ r.at # "waits" /\ (r.at = "sent" => ToOf(r) = c)
  BY <1>4, <1>5
<1> HIDE DEF r, c
<1>15. ChatJobsOK' /\ TimesOK' /\ ChatCountOK' /\ call' \in [Slots -> ChatJob]
  BY <1>2, <1>3, <1>5, <1>6, <1>7, <1>12, <1>13, <1>14, LeaveKeeps DEF c
<1> QED
  BY <1>3, <1>9, <1>13, <1>14, <1>15

LEMMA PostUnansweredKeeps ==
    ASSUME WhatsAppAssumed, ChatIInv, NEW s \in Slots, Chat!PostUnanswered(s)
    PROVE  ChatJobsOK' /\ TimesOK' /\ ChatCountOK' /\ call' \in [Slots -> ChatJob] /\ arrived' \in [Chat!Contacts -> Chat!Never..LastTick]
           /\ bursts' \in Nat
<1> DEFINE c == ToOf(call[s])
           r == Chat!Onward(call[s])
<1>1. /\ call[s] \in ChatJob /\ ChatJobOK(call[s], lastSent, tick) /\ call \in [Slots -> ChatJob] /\ Chat!TypeOK
      /\ Chat!NextNumber(s) <=> call' = [call EXCEPT ![s] = r]
  BY SlotFacts
<1>2. /\ call[s].at = "waits" /\ tick >= call[s].wake /\ Chat!Arrives(s) /\ Chat!NextNumber(s)
      /\ UNCHANGED <<lastSent, tick, overlapping>> /\ lostAnswers' = lostAnswers + 1
  BY DEF Chat!PostUnanswered
<1>3. /\ arrived' \in [Chat!Contacts -> Chat!Never..LastTick] /\ arrived'[c] = tick
      /\ \A d \in Chat!Contacts : d # c => arrived'[d] = arrived[d]
      /\ \E b \in {0, 1} : bursts' = bursts + b /\ (c \in CleanIn(call, arrived) => b = 0)
  BY <1>2, ArrivesFacts
<1>4. PICK b \in {0, 1} : bursts' = bursts + b /\ (c \in CleanIn(call, arrived) => b = 0)
  BY <1>3
<1>5. /\ r \in ChatJob /\ ~Busy(r) /\ (r.at = "idle" => r = Chat!Idle) /\ (r.at # "idle" => r.todo # <<>>)
  BY <1>1, <1>2, OnwardFacts DEF ChatJobOK
<1>6. call' = [call EXCEPT ![s] = r] /\ r.at # "waits" /\ (r.at = "sent" => ToOf(r) = c)
  BY <1>1, <1>2, <1>5 DEF Busy
<1>7. tick \in Nat /\ bursts \in Nat /\ lostAnswers \in Nat
  BY <1>1 DEF Chat!TypeOK, WhatsAppAssumed
<1> HIDE DEF r, c
<1>8. ChatJobOK(r, lastSent, tick)
  BY <1>5 DEF ChatJobOK, Busy
<1>9. b + ChatOne(c \in CleanIn(call, arrived)) + ChatOne(c \in HurtIn(call', arrived', lastSent, tick)) <= 1 + 1
  BY <1>4 DEF ChatOne
<1>10. b \in Nat /\ arrived'[c] <= tick /\ 1 \in Nat
  BY <1>3, <1>7
<1>11. ChatJobsOK' /\ TimesOK' /\ ChatCountOK' /\ call' \in [Slots -> ChatJob]
  BY <1>2, <1>3, <1>4, <1>5, <1>6, <1>8, <1>9, <1>10, LeaveKeeps DEF c
<1> QED
  BY <1>3, <1>4, <1>7, <1>10, <1>11

LEMMA PostFailsKeeps ==
    ASSUME WhatsAppAssumed, ChatIInv, NEW s \in Slots, Chat!PostFails(s)
    PROVE  ChatJobsOK' /\ TimesOK' /\ ChatCountOK' /\ call' \in [Slots -> ChatJob]
<1> DEFINE c == ToOf(call[s])
           r == Chat!Onward(call[s])
           w == WakeNow(lastSent[c], tick)
<1>1. /\ call[s] \in ChatJob /\ ChatJobOK(call[s], lastSent, tick) /\ call \in [Slots -> ChatJob] /\ Chat!TypeOK /\ TimesOK
      /\ Chat!NextNumber(s) <=> call' = [call EXCEPT ![s] = r]
  BY SlotFacts
<1>2. /\ call[s].at = "waits" /\ Chat!NextNumber(s)
      /\ UNCHANGED <<lastSent, tick, arrived, bursts, overlapping, lostAnswers>>
  BY DEF Chat!PostFails, Chat!Still
<1>3. /\ r \in ChatJob /\ ~Busy(r) /\ (r.at = "idle" => r = Chat!Idle) /\ (r.at # "idle" => r.todo # <<>>)
  BY <1>1, <1>2, OnwardFacts DEF ChatJobOK
<1>4. call' = [call EXCEPT ![s] = r] /\ r.at # "waits" /\ (r.at = "sent" => ToOf(r) = c)
  BY <1>1, <1>2, <1>3 DEF Busy
<1>5. c \in Chat!Contacts /\ call[s].wake <= w /\ call[s].wake \in Nat
  BY <1>1, <1>2 DEF ChatJobOK, ChatJob
<1>6. tick \in Nat /\ bursts \in Nat /\ lostAnswers \in Nat /\ Gap \in Nat /\ arrived \in [Chat!Contacts -> Chat!Never..LastTick]
      /\ lastSent[c] \in Chat!Never..LastTick /\ arrived[c] \in Chat!Never..LastTick
  BY <1>1, <1>5 DEF Chat!TypeOK, WhatsAppAssumed
<1>7. w \in Nat
  BY <1>5, <1>6 DEF WakeNow, Chat!Never
<1>8. c \in CleanIn(call, arrived) => c \notin HurtIn(call', arrived, lastSent, tick)
  <2>1. c \in CleanIn(call, arrived) => ~Early(call[s].wake, arrived[c])
    BY <1>2 DEF CleanIn
  <2>2. c \in HurtIn(call', arrived, lastSent, tick) => Early(w, arrived[c])
    BY DEF HurtIn
  <2> HIDE DEF w, c
  <2>3. Early(w, arrived[c]) => Early(call[s].wake, arrived[c])
    BY <1>5, <1>6, <1>7 DEF Early, Chat!Never
  <2> QED
    BY <2>1, <2>2, <2>3
<1>9. 0 + ChatOne(c \in CleanIn(call, arrived)) + ChatOne(c \in HurtIn(call', arrived', lastSent, tick)) <= 1 + 0
  BY <1>2, <1>8 DEF ChatOne
<1> HIDE DEF r, c, w
<1>10. ChatJobOK(r, lastSent, tick)
  BY <1>3 DEF ChatJobOK, Busy
<1>11. bursts' = bursts + 0 /\ lostAnswers' = lostAnswers + 0 /\ arrived' \in [Chat!Contacts -> Chat!Never..LastTick] /\ arrived'[c] <= tick
       /\ \A d \in Chat!Contacts : d # c => arrived'[d] = arrived[d]
  BY <1>1, <1>2, <1>5, <1>6 DEF TimesOK
<1>12. 0 \in Nat
  OBVIOUS
<1> QED
  BY <1>2, <1>3, <1>4, <1>9, <1>10, <1>11, <1>12, LeaveKeeps DEF c

\* A later message, or a later hour, makes no wait too early.
LEMMA LaterHelps ==
    ASSUME WhatsAppAssumed, NEW j \in [Slots -> ChatJob], NEW k \in [Slots -> ChatJob], NEW a, NEW l, NEW m, NEW t, NEW u,
           \A v \in Slots : (j[v].at = "waits" \/ k[v].at = "waits") => k[v] = j[v],
           \A c \in Chat!Contacts : SentTo(j, c) /\ ~SentTo(k, c) => ~Early(WakeNow(m[c], u), a[c]),
           \A c \in Chat!Contacts : Early(WakeNow(m[c], u), a[c]) => Early(WakeNow(l[c], t), a[c])
    PROVE  /\ Waits(k) = Waits(j) /\ CleanIn(k, a) = CleanIn(j, a)
           /\ HurtIn(k, a, m, u) \subseteq HurtIn(j, a, l, t)
<1>1. Waits(k) = Waits(j)
  BY DEF Waits
<1>2. \A c : WaitsFor(k, c) <=> WaitsFor(j, c)
  BY DEF WaitsFor
<1>3. CleanIn(k, a) = CleanIn(j, a)
  BY <1>2 DEF CleanIn
<1>4. HurtIn(k, a, m, u) \subseteq HurtIn(j, a, l, t)
  BY <1>2 DEF HurtIn
<1> QED
  BY <1>1, <1>3, <1>4

LEMMA SmallerCount ==
    ASSUME WhatsAppAssumed, ChatIInv, UNCHANGED <<arrived, bursts, overlapping, lostAnswers>>,
           Waits(call') = Waits(call), CleanIn(call', arrived) = CleanIn(call, arrived),
           HurtIn(call', arrived, lastSent', tick') \subseteq HurtIn(call, arrived, lastSent, tick)
    PROVE  ChatCountOK'
<1> DEFINE H == HurtIn(call, arrived, lastSent, tick)
           H2 == HurtIn(call', arrived, lastSent', tick')
<1>1. ChatCountOK /\ bursts \in Nat /\ overlapping \in Nat /\ lostAnswers \in Nat
  BY DEF ChatIInv, Chat!TypeOK, WhatsAppAssumed
<1>2. IsFiniteSet(H) /\ Cardinality(Waits(call)) \in Nat /\ Cardinality(CleanIn(call, arrived)) \in Nat
  BY AllFinite
<1>3. H2 \subseteq H
  OBVIOUS
<1>4. SUFFICES bursts + Cardinality(Waits(call)) + Cardinality(H2) <= overlapping + lostAnswers + Cardinality(CleanIn(call, arrived))
  BY DEF ChatCountOK
<1>5. bursts + Cardinality(Waits(call)) + Cardinality(H) <= overlapping + lostAnswers + Cardinality(CleanIn(call, arrived))
  BY <1>1 DEF ChatCountOK
<1> HIDE DEF H, H2
<1>6. Cardinality(H2) <= Cardinality(H) /\ Cardinality(H2) \in Nat /\ Cardinality(H) \in Nat
  BY <1>2, <1>3, NoLarger
<1> QED
  BY <1>1, <1>2, <1>5, <1>6

LEMMA RememberKeeps ==
    ASSUME WhatsAppAssumed, ChatIInv, NEW s \in Slots, Chat!Remember(s)
    PROVE  ChatJobsOK' /\ TimesOK' /\ ChatCountOK' /\ call' \in [Slots -> ChatJob]
           /\ lastSent' \in [Chat!Contacts \cup {Chat!NoContact} -> Chat!Never..LastTick]
<1> DEFINE c == ToOf(call[s])
           r == Chat!Onward(call[s])
<1>1. /\ call[s] \in ChatJob /\ ChatJobOK(call[s], lastSent, tick) /\ call \in [Slots -> ChatJob] /\ Chat!TypeOK /\ TimesOK /\ ChatJobsOK
      /\ Chat!NextNumber(s) <=> call' = [call EXCEPT ![s] = r]
      /\ Chat!Key(Head(call[s].todo)) = c
  BY SlotFacts
<1>2. /\ call[s].at = "sent" /\ Chat!NextNumber(s) /\ lastSent' = [lastSent EXCEPT ![c] = tick]
      /\ UNCHANGED <<tick, arrived, bursts, overlapping, lostAnswers>>
  BY <1>1 DEF Chat!Remember
<1>3. /\ r \in ChatJob /\ ~Busy(r) /\ (r.at = "idle" => r = Chat!Idle) /\ (r.at # "idle" => r.todo # <<>>)
  BY <1>1, <1>2, OnwardFacts DEF ChatJobOK
<1>4. call' = [call EXCEPT ![s] = r] /\ call' \in [Slots -> ChatJob] /\ r.at # "waits" /\ r.at # "sent"
  BY <1>1, <1>2, <1>3 DEF Busy
<1>5. c \in Chat!Contacts
  BY <1>1, <1>2 DEF ChatJobOK
<1>6. tick \in 0..LastTick /\ LastTick \in Nat /\ Gap \in Nat /\ arrived \in [Chat!Contacts -> Chat!Never..LastTick]
      /\ lastSent \in [Chat!Contacts \cup {Chat!NoContact} -> Chat!Never..LastTick]
  BY <1>1 DEF Chat!TypeOK, WhatsAppAssumed
<1> HIDE DEF r, c
<1>7. lastSent' \in [Chat!Contacts \cup {Chat!NoContact} -> Chat!Never..LastTick] /\ lastSent'[c] = tick
      /\ \A d \in Chat!Contacts : d # c => lastSent'[d] = lastSent[d]
  BY <1>2, <1>5, <1>6 DEF Chat!Never
<1>8. ~Early(WakeNow(lastSent'[c], tick), arrived[c])
  BY <1>1, <1>5, <1>6, <1>7 DEF Early, WakeNow, Chat!Never, TimesOK
<1>9. \A d \in Chat!Contacts : WakeNow(lastSent[d], tick) <= WakeNow(lastSent'[d], tick)
  BY <1>1, <1>5, <1>6, <1>7 DEF WakeNow, Chat!Never, TimesOK
<1>10. \A d \in Chat!Contacts : Early(WakeNow(lastSent'[d], tick), arrived[d]) => Early(WakeNow(lastSent[d], tick), arrived[d])
  BY <1>5, <1>7, <1>8
<1>11. \A v \in Slots : (call[v].at = "waits" \/ call'[v].at = "waits") => call'[v] = call[v]
  BY <1>1, <1>2, <1>4
<1>12. \A d \in Chat!Contacts : SentTo(call, d) /\ ~SentTo(call', d) => ~Early(WakeNow(lastSent'[d], tick), arrived[d])
  <2> SUFFICES ASSUME NEW d \in Chat!Contacts, SentTo(call, d), ~SentTo(call', d) PROVE d = c
    BY <1>8
  <2>1. PICK t \in Slots : call[t].at = "sent" /\ ToOf(call[t]) = d
    BY DEF SentTo
  <2>2. t = s
    BY <1>1, <1>4, <2>1 DEF SentTo
  <2> QED
    BY <2>1, <2>2 DEF c
<1>13. Waits(call') = Waits(call) /\ CleanIn(call', arrived) = CleanIn(call, arrived)
       /\ HurtIn(call', arrived, lastSent', tick) \subseteq HurtIn(call, arrived, lastSent, tick)
  BY <1>1, <1>4, <1>10, <1>11, <1>12, LaterHelps
<1>14. ChatCountOK'
  BY <1>2, <1>13, SmallerCount
<1>15. TimesOK'
  BY <1>1, <1>2, <1>5, <1>6, <1>7 DEF TimesOK
<1>16. ChatJobsOK'
  <2>1. ChatJobOK(r, lastSent', tick)
    BY <1>3 DEF ChatJobOK, Busy
  <2>2. \A v \in Slots : ChatJobOK(call'[v], lastSent', tick)
    <3> SUFFICES ASSUME NEW v \in Slots, v # s PROVE ChatJobOK(call[v], lastSent', tick)
      BY <1>1, <1>4, <2>1
    <3>1. ChatJobOK(call[v], lastSent, tick) /\ call[v] \in ChatJob
      BY <1>1 DEF ChatJobsOK, ChatJobOK
    <3>2. call[v].at = "waits" => call[v].wake <= WakeNow(lastSent'[ToOf(call[v])], tick)
      <4> SUFFICES ASSUME call[v].at = "waits" PROVE call[v].wake <= WakeNow(lastSent'[ToOf(call[v])], tick)
        OBVIOUS
      <4> DEFINE d == ToOf(call[v])
      <4>1. d \in Chat!Contacts /\ call[v].wake <= WakeNow(lastSent[d], tick) /\ call[v].wake \in Nat
        BY <3>1 DEF ChatJobOK, ChatJob
      <4>2. WakeNow(lastSent[d], tick) <= WakeNow(lastSent'[d], tick)
        BY <1>9, <4>1
      <4> HIDE DEF d
      <4>3. WakeNow(lastSent[d], tick) \in Int /\ WakeNow(lastSent'[d], tick) \in Int
        BY <1>6, <1>7, <4>1 DEF WakeNow, Chat!Never
      <4> QED
        BY <4>1, <4>2, <4>3 DEF d
    <3> QED
      BY <3>1, <3>2 DEF ChatJobOK
  <2> QED
    BY <1>2, <2>2 DEF ChatJobsOK, ChatJobOK
<1> QED
  BY <1>4, <1>7, <1>14, <1>15, <1>16

LEMMA ChatTickKeeps ==
    ASSUME WhatsAppAssumed, ChatIInv, Chat!Tick
    PROVE  ChatJobsOK' /\ TimesOK' /\ ChatCountOK' /\ call' \in [Slots -> ChatJob] /\ tick' \in 0..LastTick
<1>1. /\ call \in [Slots -> ChatJob] /\ ChatJobsOK /\ TimesOK /\ Chat!TypeOK
  BY DEF ChatIInv, Chat!TypeOK, ChatJob
<1>2. tick < LastTick /\ tick' = tick + 1 /\ UNCHANGED <<lastSent, call, arrived, bursts, overlapping, lostAnswers>>
  BY DEF Chat!Tick
<1>3. tick \in 0..LastTick /\ LastTick \in Nat /\ Gap \in Nat /\ arrived \in [Chat!Contacts -> Chat!Never..LastTick]
      /\ lastSent \in [Chat!Contacts \cup {Chat!NoContact} -> Chat!Never..LastTick]
  BY <1>1 DEF Chat!TypeOK, WhatsAppAssumed
<1>4. tick' \in 0..LastTick
  BY <1>2, <1>3
<1>5. TimesOK'
  BY <1>1, <1>2, <1>3 DEF TimesOK, Chat!Never
<1>6. \A d \in Chat!Contacts : /\ WakeNow(lastSent[d], tick) \in Int /\ WakeNow(lastSent[d], tick') \in Int
                               /\ WakeNow(lastSent[d], tick) <= WakeNow(lastSent[d], tick')
  BY <1>2, <1>3 DEF WakeNow, Chat!Never
<1>7. \A d \in Chat!Contacts : Early(WakeNow(lastSent[d], tick'), arrived[d]) => Early(WakeNow(lastSent[d], tick), arrived[d])
  BY <1>3, <1>6 DEF Early, Chat!Never
<1>8. Waits(call) = Waits(call) /\ CleanIn(call, arrived) = CleanIn(call, arrived)
      /\ HurtIn(call, arrived, lastSent, tick') \subseteq HurtIn(call, arrived, lastSent, tick)
  BY <1>1, <1>7, LaterHelps
<1>9. ChatCountOK'
  BY <1>2, <1>8, SmallerCount
<1>10. ChatJobsOK'
  <2> SUFFICES ASSUME NEW v \in Slots, ChatJobOK(call[v], lastSent, tick) PROVE ChatJobOK(call[v], lastSent, tick')
    BY <1>1, <1>2 DEF ChatJobsOK, ChatJobOK
  <2>1. ASSUME call[v].at = "waits" PROVE call[v].wake <= WakeNow(lastSent[ToOf(call[v])], tick')
    <3> DEFINE d == ToOf(call[v])
    <3>1. d \in Chat!Contacts /\ call[v].wake <= WakeNow(lastSent[d], tick) /\ call[v].wake \in Nat
      BY <1>1, <2>1 DEF ChatJobOK, ChatJob
    <3> HIDE DEF d
    <3>2. call[v].wake <= WakeNow(lastSent[d], tick')
      BY <1>6, <3>1
    <3> QED
      BY <3>2 DEF d
  <2> QED
    BY <2>1 DEF ChatJobOK
<1> QED
  BY <1>1, <1>2, <1>4, <1>5, <1>9, <1>10

OrderOK == [st : {"none", "pending", "completed", "cancelled"}, member : Phones \cup {NoPhone}, typed : Phones \cup {NoPhone}]

LEMMA CallKeeps ==
    ASSUME WhatsAppAssumed, ChatIInv, NEW s \in Slots, NEW phones \in Seq(Phones), phones # <<>>, NEW limit \in Nat,
           Chat!Call(s, phones, limit), UNCHANGED Chat!Still, sale' \in [Sales -> OrderOK]
    PROVE  ChatIInv'
<1> DEFINE r == [at |-> "next", todo |-> phones, until |-> tick + limit, wake |-> 0]
<1>1. Chat!TypeOK /\ tick \in Nat /\ call[s] = Chat!Idle /\ calls < MaxCalls /\ calls' = calls + 1
      /\ call' = [call EXCEPT ![s] = r] /\ ~Busy(call[s])
  BY ChatIdleIsJob DEF ChatIInv, Chat!TypeOK, Chat!Call, WhatsAppAssumed, Busy
<1>2. r \in ChatJob /\ ~Busy(r) /\ r.at # "idle" /\ r.todo # <<>>
  BY <1>1 DEF ChatJob, Busy
<1> HIDE DEF r
<1>3. ChatJobsOK' /\ TimesOK' /\ ChatCountOK' /\ call' \in [Slots -> ChatJob]
  BY <1>1, <1>2, QuietStep
<1>4. calls' \in 0..MaxCalls
  BY <1>1 DEF Chat!TypeOK, WhatsAppAssumed
<1>5. Chat!TypeOK'
  BY <1>1, <1>3, <1>4 DEF Chat!TypeOK, Chat!Still, OrderOK, ChatJob
<1> QED
  BY <1>3, <1>5 DEF ChatIInv

LEMMA NotifyKeeps ==
    ASSUME WhatsAppAssumed, ChatIInv, NEW s \in Slots, Chat!Notify(s), UNCHANGED Chat!Still, sale' \in [Sales -> OrderOK]
    PROVE  ChatIInv'
BY CallKeeps DEF Chat!Notify, WhatsAppAssumed

LEMMA OrderKeeps ==
    ASSUME WhatsAppAssumed, ChatIInv, call' = call, calls' = calls, UNCHANGED Chat!Still, sale' \in [Sales -> OrderOK]
    PROVE  ChatIInv'
<1>1. ChatJobsOK' /\ TimesOK' /\ ChatCountOK' /\ call' \in [Slots -> ChatJob]
  BY IdleKeeps
<1>2. Chat!TypeOK'
  BY <1>1 DEF Chat!TypeOK, Chat!Still, OrderOK, ChatJob, ChatIInv
<1> QED
  BY <1>1, <1>2 DEF ChatIInv

LEMMA CallersKeep ==
    ASSUME WhatsAppAssumed, ChatIInv, NEW o \in Sales,
           \/ \E member, typed \in Phones \cup {NoPhone} :
                 \/ Chat!Create(o, member, typed)
                 \/ \E s \in Slots :
                       Chat!CreateLarge(s, o, member, typed) \/ Chat!CreatePending(s, o, member, typed)
           \/ Chat!MarkAsPaid(o) \/ Chat!CancelPending(o)
           \/ \E s \in Slots :
                 Chat!MarkLargeAsPaid(s, o) \/ Chat!ResendReceiptWA(s, o) \/ Chat!ResendPendingInvoiceWA(s, o)
    PROVE  ChatIInv'
<1>1. sale \in [Sales -> OrderOK]
  BY DEF ChatIInv, Chat!TypeOK, OrderOK
<1>2. ASSUME NEW member \in Phones \cup {NoPhone}, NEW typed \in Phones \cup {NoPhone},
             NEW st \in {"completed", "pending"}, Chat!New(o, st, member, typed)
      PROVE  sale' \in [Sales -> OrderOK] /\ UNCHANGED Chat!Still
  <2>1. [st |-> st, member |-> member, typed |-> typed] \in OrderOK
    BY DEF OrderOK
  <2> QED
    BY <1>1, <1>2, <2>1 DEF Chat!New
<1>3. ASSUME NEW st \in {"completed", "cancelled"}, sale' = [sale EXCEPT ![o].st = st]
      PROVE  sale' \in [Sales -> OrderOK]
  <2>1. [sale[o] EXCEPT !.st = st] \in OrderOK
    BY <1>1 DEF OrderOK
  <2> QED
    BY <1>1, <1>3, <2>1
<1>4. ReceiptLimit \in Nat /\ NoPhone \notin Phones
  BY DEF WhatsAppAssumed
<1>5. ASSUME NEW p \in Phones PROVE <<p>> \in Seq(Phones) /\ <<p>> # <<>>
  OBVIOUS
<1>6. ASSUME NEW member \in Phones \cup {NoPhone}, NEW typed \in Phones \cup {NoPhone}, Chat!Create(o, member, typed)
      PROVE  ChatIInv'
  BY <1>2, <1>6, OrderKeeps DEF Chat!Create
<1>7. ASSUME NEW member \in Phones \cup {NoPhone}, NEW typed \in Phones \cup {NoPhone}, NEW s \in Slots,
             Chat!CreateLarge(s, o, member, typed)
      PROVE  ChatIInv'
  BY <1>2, <1>7, NotifyKeeps DEF Chat!CreateLarge
<1>8. ASSUME NEW member \in Phones \cup {NoPhone}, NEW typed \in Phones \cup {NoPhone}, NEW s \in Slots,
             Chat!CreatePending(s, o, member, typed)
      PROVE  ChatIInv'
  <2>1. typed \in Phones /\ <<typed>> \in Seq(Phones) /\ <<typed>> # <<>>
    BY <1>8, <1>5 DEF Chat!CreatePending
  <2>2. sale' \in [Sales -> OrderOK] /\ UNCHANGED Chat!Still /\ Chat!Call(s, <<typed>>, ReceiptLimit)
    BY <1>2, <1>8 DEF Chat!CreatePending
  <2> QED
    BY <1>4, <2>1, <2>2, CallKeeps
<1>9. CASE Chat!MarkAsPaid(o)
  BY <1>3, <1>9, OrderKeeps DEF Chat!MarkAsPaid, Chat!Still
<1>10. CASE Chat!CancelPending(o)
  BY <1>3, <1>10, OrderKeeps DEF Chat!CancelPending, Chat!Still
<1>11. ASSUME NEW s \in Slots, Chat!MarkLargeAsPaid(s, o) PROVE ChatIInv'
  BY <1>3, <1>11, NotifyKeeps DEF Chat!MarkLargeAsPaid
<1>12. ASSUME NEW s \in Slots, Chat!ResendReceiptWA(s, o) PROVE ChatIInv'
  <2>1. Chat!ReceiptPhone(o) \in Phones
    BY <1>1, <1>12 DEF Chat!ResendReceiptWA, Chat!ReceiptPhone, OrderOK
  <2>2. <<Chat!ReceiptPhone(o)>> \in Seq(Phones) /\ <<Chat!ReceiptPhone(o)>> # <<>>
    BY <1>5, <2>1
  <2>3. Chat!Call(s, <<Chat!ReceiptPhone(o)>>, ReceiptLimit) /\ UNCHANGED Chat!Still /\ sale' \in [Sales -> OrderOK]
    BY <1>1, <1>12 DEF Chat!ResendReceiptWA
  <2> QED
    BY <1>4, <2>2, <2>3, CallKeeps
<1>13. ASSUME NEW s \in Slots, Chat!ResendPendingInvoiceWA(s, o) PROVE ChatIInv'
  <2>1. sale[o].typed \in Phones
    BY <1>1, <1>13 DEF Chat!ResendPendingInvoiceWA, OrderOK
  <2>2. <<sale[o].typed>> \in Seq(Phones) /\ <<sale[o].typed>> # <<>>
    BY <1>5, <2>1
  <2>3. Chat!Call(s, <<sale[o].typed>>, ReceiptLimit) /\ UNCHANGED Chat!Still /\ sale' \in [Sales -> OrderOK]
    BY <1>1, <1>13 DEF Chat!ResendPendingInvoiceWA
  <2> QED
    BY <1>4, <2>2, <2>3, CallKeeps
<1> QED
  BY <1>6, <1>7, <1>8, <1>9, <1>10, <1>11, <1>12, <1>13

LEMMA ChatSendKeeps ==
    ASSUME WhatsAppAssumed, ChatIInv, NEW s \in Slots,
           Chat!InvalidPhone(s) \/ Chat!ReadGap(s) \/ Chat!Post(s) \/ Chat!PostUnanswered(s) \/ Chat!PostFails(s) \/ Chat!Remember(s)
    PROVE  ChatIInv'
<1>1. Chat!TypeOK
  BY DEF ChatIInv
<1>2. CASE Chat!InvalidPhone(s)
  <2>1. call[s] \in ChatJob /\ ChatJobOK(call[s], lastSent, tick) /\ (Chat!NextNumber(s) <=> call' = [call EXCEPT ![s] = Chat!Onward(call[s])])
    BY SlotFacts
  <2>2. call[s].at = "next" /\ Chat!NextNumber(s) /\ UNCHANGED Chat!Still /\ UNCHANGED <<sale, calls>>
    BY <1>2 DEF Chat!InvalidPhone
  <2>3. /\ Chat!Onward(call[s]) \in ChatJob /\ ~Busy(Chat!Onward(call[s])) /\ ~Busy(call[s])
        /\ Chat!Onward(call[s]).at = "idle" => Chat!Onward(call[s]) = Chat!Idle
        /\ Chat!Onward(call[s]).at # "idle" => Chat!Onward(call[s]).todo # <<>>
    BY <2>1, <2>2, OnwardFacts DEF ChatJobOK, Busy
  <2>4. ChatJobsOK' /\ TimesOK' /\ ChatCountOK' /\ call' \in [Slots -> ChatJob]
    BY <2>1, <2>2, <2>3, QuietStep
  <2>5. Chat!TypeOK'
    BY <1>1, <2>2, <2>4 DEF Chat!TypeOK, Chat!Still, ChatJob
  <2> QED
    BY <2>4, <2>5 DEF ChatIInv
<1>3. CASE Chat!ReadGap(s)
  <2>1. ChatJobsOK' /\ TimesOK' /\ ChatCountOK' /\ call' \in [Slots -> ChatJob] /\ overlapping' \in Nat
    BY <1>3, ReadGapKeeps
  <2>2. Chat!TypeOK'
    BY <1>1, <1>3, <2>1 DEF Chat!TypeOK, Chat!ReadGap, ChatJob
  <2> QED
    BY <2>1, <2>2 DEF ChatIInv
<1>4. CASE Chat!Post(s)
  <2>1. ChatJobsOK' /\ TimesOK' /\ ChatCountOK' /\ call' \in [Slots -> ChatJob] /\ arrived' \in [Chat!Contacts -> Chat!Never..LastTick]
        /\ bursts' \in Nat
    BY <1>4, PostKeeps
  <2>2. Chat!TypeOK'
    BY <1>1, <1>4, <2>1 DEF Chat!TypeOK, Chat!Post, ChatJob
  <2> QED
    BY <2>1, <2>2 DEF ChatIInv
<1>5. CASE Chat!PostUnanswered(s)
  <2>1. ChatJobsOK' /\ TimesOK' /\ ChatCountOK' /\ call' \in [Slots -> ChatJob] /\ arrived' \in [Chat!Contacts -> Chat!Never..LastTick]
        /\ bursts' \in Nat
    BY <1>5, PostUnansweredKeeps
  <2>2. lostAnswers' \in 0..MaxLostAnswers
    BY <1>1, <1>5 DEF Chat!PostUnanswered, Chat!TypeOK, WhatsAppAssumed
  <2>3. Chat!TypeOK'
    BY <1>1, <1>5, <2>1, <2>2 DEF Chat!TypeOK, Chat!PostUnanswered, ChatJob
  <2> QED
    BY <2>1, <2>3 DEF ChatIInv
<1>6. CASE Chat!PostFails(s)
  <2>1. ChatJobsOK' /\ TimesOK' /\ ChatCountOK' /\ call' \in [Slots -> ChatJob]
    BY <1>6, PostFailsKeeps
  <2>2. Chat!TypeOK'
    BY <1>1, <1>6, <2>1 DEF Chat!TypeOK, Chat!PostFails, Chat!Still, ChatJob
  <2> QED
    BY <2>1, <2>2 DEF ChatIInv
<1>7. CASE Chat!Remember(s)
  <2>1. ChatJobsOK' /\ TimesOK' /\ ChatCountOK' /\ call' \in [Slots -> ChatJob]
        /\ lastSent' \in [Chat!Contacts \cup {Chat!NoContact} -> Chat!Never..LastTick]
    BY <1>7, RememberKeeps
  <2>2. Chat!TypeOK'
    BY <1>1, <1>7, <2>1 DEF Chat!TypeOK, Chat!Remember, ChatJob
  <2> QED
    BY <2>1, <2>2 DEF ChatIInv
<1> QED
  BY <1>2, <1>3, <1>4, <1>5, <1>6, <1>7

LEMMA ChatNextIInv == ASSUME WhatsAppAssumed, ChatIInv, [Chat!Next]_(Chat!vars) PROVE ChatIInv'
<1>1. ASSUME NEW o \in Sales,
             \/ \E member, typed \in Phones \cup {NoPhone} :
                   \/ Chat!Create(o, member, typed)
                   \/ \E s \in Slots :
                         Chat!CreateLarge(s, o, member, typed) \/ Chat!CreatePending(s, o, member, typed)
             \/ Chat!MarkAsPaid(o) \/ Chat!CancelPending(o)
             \/ \E s \in Slots :
                   Chat!MarkLargeAsPaid(s, o) \/ Chat!ResendReceiptWA(s, o) \/ Chat!ResendPendingInvoiceWA(s, o)
      PROVE  ChatIInv'
  BY <1>1, CallersKeep
<1>2. ASSUME NEW s \in Slots,
             Chat!InvalidPhone(s) \/ Chat!ReadGap(s) \/ Chat!Post(s) \/ Chat!PostUnanswered(s) \/ Chat!PostFails(s) \/ Chat!Remember(s)
      PROVE  ChatIInv'
  BY <1>2, ChatSendKeeps
<1>3. CASE Chat!Tick
  <2>1. ChatJobsOK' /\ TimesOK' /\ ChatCountOK' /\ call' \in [Slots -> ChatJob] /\ tick' \in 0..LastTick
    BY <1>3, ChatTickKeeps
  <2>2. Chat!TypeOK'
    BY <1>3, <2>1 DEF Chat!TypeOK, Chat!Tick, ChatJob, ChatIInv
  <2> QED
    BY <2>1, <2>2 DEF ChatIInv
<1>4. CASE UNCHANGED Chat!vars
  <2>1. sale' = sale /\ call' = call /\ calls' = calls /\ UNCHANGED Chat!Still
    BY <1>4 DEF Chat!vars, Chat!Still
  <2>2. sale' \in [Sales -> OrderOK]
    BY <2>1 DEF ChatIInv, Chat!TypeOK, OrderOK
  <2> QED
    BY <2>1, <2>2, OrderKeeps
<1> QED
  BY <1>1, <1>2, <1>3, <1>4 DEF Chat!Next

LEMMA ChatInitIInv == ASSUME WhatsAppAssumed, Chat!Init PROVE ChatIInv
<1>1. /\ sale = [o \in Sales |-> [st |-> "none", member |-> NoPhone, typed |-> NoPhone]]
      /\ lastSent = [c \in Chat!Contacts \cup {Chat!NoContact} |-> Chat!Never]
      /\ arrived = [c \in Chat!Contacts |-> Chat!Never]
      /\ tick = 0 /\ call = [s \in Slots |-> Chat!Idle]
      /\ bursts = 0 /\ overlapping = 0 /\ lostAnswers = 0 /\ calls = 0
  BY DEF Chat!Init
<1>2. LastTick \in Nat /\ MaxLostAnswers \in Nat /\ MaxCalls \in Nat
  BY DEF WhatsAppAssumed
<1>3. call \in [Slots -> ChatJob] /\ \A s \in Slots : call[s] = Chat!Idle /\ call[s].at = "idle"
  BY <1>1, ChatIdleIsJob
<1>4. Chat!TypeOK
  <2>1. Chat!Never \in Chat!Never..LastTick /\ 0 \in 0..LastTick /\ 0 \in 0..MaxLostAnswers /\ 0 \in 0..MaxCalls
    BY <1>2 DEF Chat!Never
  <2>2. sale \in [Sales -> OrderOK]
    BY <1>1 DEF OrderOK
  <2>3. lastSent \in [Chat!Contacts \cup {Chat!NoContact} -> Chat!Never..LastTick] /\ arrived \in [Chat!Contacts -> Chat!Never..LastTick]
    BY <1>1, <2>1
  <2> QED
    BY <1>1, <1>3, <2>1, <2>2, <2>3 DEF Chat!TypeOK, OrderOK, ChatJob
<1>5. ChatJobsOK
  BY <1>3 DEF ChatJobsOK
<1>6. TimesOK
  BY <1>1 DEF TimesOK, Chat!Never
<1>7. Waits(call) = {} /\ HurtIn(call, arrived, lastSent, tick) = {}
  BY <1>1, <1>3 DEF Waits, HurtIn, Early
<1>8. ChatCountOK
  <2>1. Cardinality(CleanIn(call, arrived)) \in Nat
    BY AllFinite
  <2>2. Cardinality({}) = 0
    BY FS_EmptySet
  <2> DEFINE c == Cardinality(CleanIn(call, arrived))
             w == Cardinality(Waits(call))
             h == Cardinality(HurtIn(call, arrived, lastSent, tick))
  <2>3. c \in Nat /\ w = 0 /\ h = 0 /\ bursts = 0 /\ overlapping = 0 /\ lostAnswers = 0
    BY <1>1, <1>7, <2>1, <2>2
  <2>4. bursts + w + h <= overlapping + lostAnswers + c
    <3> HIDE DEF c, w, h
    <3> QED
      BY <2>3
  <2> QED
    BY <2>4 DEF ChatCountOK
<1> QED
  BY <1>4, <1>5, <1>6, <1>8 DEF ChatIInv

LEMMA ChatSays == ASSUME WhatsAppAssumed, ChatIInv PROVE Chat!TypeOK /\ Chat!GapKept
<1> DEFINE W == Waits(call)
           C == CleanIn(call, arrived)
           H == HurtIn(call, arrived, lastSent, tick)
           S == {s \in W : ToOf(call[s]) \in C}
           f == [s \in S |-> ToOf(call[s])]
<1>1. /\ IsFiniteSet(W) /\ Cardinality(W) \in Nat /\ Cardinality(C) \in Nat /\ Cardinality(H) \in Nat
  BY AllFinite
<1>2. S \in SUBSET W
  OBVIOUS
<1>3. IsFiniteSet(S) /\ Cardinality(S) \in Nat /\ Cardinality(S) <= Cardinality(W)
  BY <1>1, <1>2, FS_Subset, FS_CardinalityType
<1>4. \A c \in C : \E s \in S : f[s] = c
  BY DEF CleanIn, WaitsFor, Waits
<1>5. f \in Surjection(S, C)
  BY <1>4 DEF Surjection
<1> HIDE DEF W, C, H, S, f
<1>6. Cardinality(C) <= Cardinality(S)
  BY <1>3, <1>5, FS_Surjection
<1>7. bursts + Cardinality(W) + Cardinality(H) <= overlapping + lostAnswers + Cardinality(C)
  BY DEF ChatIInv, ChatCountOK, W, H, C
<1>8. bursts \in Nat /\ overlapping \in Nat /\ lostAnswers \in Nat
  BY DEF ChatIInv, Chat!TypeOK, WhatsAppAssumed
<1>9. Chat!GapKept
  BY <1>1, <1>3, <1>6, <1>7, <1>8 DEF Chat!GapKept
<1> QED
  BY <1>9 DEF ChatIInv

-----------------------------------------------------------------------------
(* Notices.                                                                *)

Grid == [News!Users -> [Browsers -> Nat]]
Col(r, b) == SumOf([u \in News!Users |-> r[u][b]], News!Users)
All(r) == SumOf([u \in News!Users |-> SumOf(r[u], Browsers)], News!Users)

NewsJob == [op : News!Loops \cup {"idle", "gateway", "handler", "paidMail", "statusMail", "subscribe"},
        from : News!Statuses \cup {""}, to : News!Statuses \cup {""}, u : News!Users, b : Browsers,
        todo : Grid, total : Nat, delivered : Nat, failed : Nat]

InMail(r) == r.op \in {"paidMail", "statusMail"} /\ r.to = "paid"
Mails(j) == {s \in Slots : InMail(j[s])}
InSub(r, b) == r.op = "subscribe" /\ r.b = b
Subs(j, b) == {s \in Slots : InSub(j[s], b)}
NewsOne(b) == IF b THEN 1 ELSE 0
Over(n) == IF n > 1 THEN n - 1 ELSE 0
Excess(r, j, b) == Over(Col(r, b) + Cardinality(Subs(j, b)))
ExcessAll(r, j) == SumOf([b \in Browsers |-> Excess(r, j, b)], Browsers)

NewsJobOK(r, n) ==
    /\ r.op \in {"gateway", "handler"} => r.to \in News!Statuses \ {"pending_payment"}
    /\ r.op = "handler" /\ r.to = "paid" => r.from = "pending_payment"
    /\ r.op \in News!Loops => r.delivered + r.failed + All(r.todo) = r.total /\ r.total <= Cardinality(Browsers) + n
NewsJobsOK == \A s \in Slots : NewsJobOK(notice[s], overlaps)
PaidOK == paidMails + Cardinality(Mails(notice)) <= racedPaid + replayed + NewsOne(ecom # "pending_payment")
NewsRowsOK == ExcessAll(rows, notice) <= overlaps
NewsIInv == News!TypeOK /\ NewsJobsOK /\ PaidOK /\ NewsRowsOK /\ News!BroadcastAddsUp

LEMMA CopiesIs == ASSUME NEW b PROVE News!Copies(b) = Col(rows, b)
<1> DEFINE f == [u \in News!Users |-> rows[u][b]]
           Shows(g) == g = [T \in SUBSET News!Users |->
              IF T = {} THEN 0
              ELSE rows[CHOOSE u \in T : TRUE][b] + g[T \ {CHOOSE u \in T : TRUE}]]
<1>1. News!Copies(b) = (CHOOSE g : Shows(g))[News!Users]
  BY DEF News!Copies, News!MapThenSumSet, News!MapThenFoldSet
<1>2. ASSUME NEW g PROVE Shows(g) <=> SumsOf(f, News!Users, g)
  <2>1. ASSUME NEW T \in SUBSET News!Users, T # {}
        PROVE  rows[CHOOSE u \in T : TRUE][b] = f[CHOOSE u \in T : TRUE]
    <3>1. (CHOOSE u \in T : TRUE) \in T
      BY <2>1
    <3> QED
      BY <3>1
  <2> HIDE DEF f
  <2> QED
    BY <2>1 DEF SumsOf
<1>3. (CHOOSE g : Shows(g)) = (CHOOSE g : SumsOf(f, News!Users, g))
  <2> HIDE DEF Shows, f
  <2> QED
    BY <1>2
<1> QED
  BY <1>1, <1>3 DEF Col, SumOf

LEMMA CountIs == ASSUME NEW list \in Grid PROVE News!Count(list) = All(list)
<1> DEFINE inner(u) == News!MapThenSumSet(LAMBDA b : list[u][b], Browsers)
<1>1. ASSUME NEW u \in News!Users PROVE inner(u) = SumOf(list[u], Browsers)
  <2> DEFINE f == list[u]
             Shows(g) == g = [T \in SUBSET Browsers |->
                IF T = {} THEN 0
                ELSE f[CHOOSE b \in T : TRUE] + g[T \ {CHOOSE b \in T : TRUE}]]
  <2>1. inner(u) = (CHOOSE g : Shows(g))[Browsers]
    BY DEF News!MapThenSumSet, News!MapThenFoldSet
  <2>2. ASSUME NEW g PROVE Shows(g) <=> SumsOf(f, Browsers, g)
    BY DEF SumsOf
  <2>3. (CHOOSE g : Shows(g)) = (CHOOSE g : SumsOf(f, Browsers, g))
    <3> HIDE DEF Shows, f
    <3> QED
      BY <2>2
  <2> QED
    BY <2>1, <2>3 DEF SumOf
<1> DEFINE f == [u \in News!Users |-> SumOf(list[u], Browsers)]
           Shows(g) == g = [T \in SUBSET News!Users |->
              IF T = {} THEN 0
              ELSE inner(CHOOSE u \in T : TRUE) + g[T \ {CHOOSE u \in T : TRUE}]]
<1>2. News!Count(list) = (CHOOSE g : Shows(g))[News!Users]
  BY DEF News!Count, News!MapThenSumSet, News!MapThenFoldSet
<1>3. ASSUME NEW g PROVE Shows(g) <=> SumsOf(f, News!Users, g)
  <2>1. ASSUME NEW T \in SUBSET News!Users, T # {}
        PROVE  inner(CHOOSE u \in T : TRUE) = f[CHOOSE u \in T : TRUE]
    <3>1. (CHOOSE u \in T : TRUE) \in T /\ T \subseteq News!Users
      BY <2>1
    <3> HIDE DEF inner
    <3> QED
      BY <1>1, <3>1
  <2> HIDE DEF f, inner
  <2> QED
    BY <2>1 DEF SumsOf
<1>4. (CHOOSE g : Shows(g)) = (CHOOSE g : SumsOf(f, News!Users, g))
  <2> HIDE DEF Shows, f
  <2> QED
    BY <1>3
<1> QED
  BY <1>2, <1>4 DEF All, SumOf

LEMMA Finite ==
    ASSUME NoticesAssumed
    PROVE  /\ IsFiniteSet(News!Users) /\ IsFiniteSet(Browsers) /\ Cardinality(Browsers) \in Nat
           /\ \A j : IsFiniteSet(Mails(j)) /\ Cardinality(Mails(j)) \in Nat
           /\ \A j, b : IsFiniteSet(Subs(j, b)) /\ Cardinality(Subs(j, b)) \in Nat
<1>1. IsFiniteSet(News!Users)
  BY FS_Union DEF NoticesAssumed, News!Users
<1>2. IsFiniteSet(Browsers) /\ IsFiniteSet(Slots)
  BY DEF NoticesAssumed
<1>3. ASSUME NEW j PROVE IsFiniteSet(Mails(j)) /\ Cardinality(Mails(j)) \in Nat
  <2>1. Mails(j) \in SUBSET Slots
    BY DEF Mails
  <2> QED
    BY <1>2, <2>1, FS_Subset, FS_CardinalityType
<1>4. ASSUME NEW j, NEW b PROVE IsFiniteSet(Subs(j, b)) /\ Cardinality(Subs(j, b)) \in Nat
  <2>1. Subs(j, b) \in SUBSET Slots
    BY DEF Subs
  <2> QED
    BY <1>2, <2>1, FS_Subset, FS_CardinalityType
<1> QED
  BY <1>1, <1>2, <1>3, <1>4, FS_CardinalityType

LEMMA GridFacts ==
    ASSUME NoticesAssumed, NEW r \in Grid
    PROVE  /\ \A b \in Browsers : Col(r, b) \in Nat
           /\ \A u \in News!Users : SumOf(r[u], Browsers) \in Nat
           /\ All(r) \in Nat
           /\ All(r) = SumOf([b \in Browsers |-> Col(r, b)], Browsers)
<1>1. IsFiniteSet(News!Users) /\ IsFiniteSet(Browsers)
  BY Finite
<1>2. \A u \in News!Users, b \in Browsers : r[u][b] \in Nat
  BY DEF Grid
<1>3. ASSUME NEW b \in Browsers PROVE Col(r, b) \in Nat
  <2> DEFINE f == [u \in News!Users |-> r[u][b]]
  <2>1. \A u \in News!Users : f[u] \in Nat
    BY <1>2
  <2> HIDE DEF f
  <2>2. SumOf(f, News!Users) \in Nat
    BY <1>1, <2>1, SumNat
  <2> QED
    BY <2>2 DEF Col, f
<1>4. ASSUME NEW u \in News!Users PROVE SumOf(r[u], Browsers) \in Nat
  <2>1. \A b \in Browsers : r[u][b] \in Nat
    BY <1>2
  <2> QED
    BY <1>1, <2>1, SumNat
<1>5. All(r) \in Nat
  <2> DEFINE f == [u \in News!Users |-> SumOf(r[u], Browsers)]
  <2>1. \A u \in News!Users : f[u] \in Nat
    BY <1>4
  <2> HIDE DEF f
  <2>2. SumOf(f, News!Users) \in Nat
    BY <1>1, <2>1, SumNat
  <2> QED
    BY <2>2 DEF All, f
<1>6. All(r) = SumOf([b \in Browsers |-> Col(r, b)], Browsers)
  BY <1>1, <1>2, SumSwap DEF All, Col
<1> QED
  BY <1>3, <1>4, <1>5, <1>6

\* A smaller list has less in it.
LEMMA SmallerGrid ==
    ASSUME NoticesAssumed, NEW r \in Grid, NEW q \in Grid, \A u \in News!Users, b \in Browsers : q[u][b] <= r[u][b]
    PROVE  All(q) <= All(r) /\ \A b \in Browsers : Col(q, b) <= Col(r, b)
<1>1. IsFiniteSet(News!Users) /\ IsFiniteSet(Browsers)
  BY Finite
<1>2. \A u \in News!Users, b \in Browsers : q[u][b] \in Int /\ r[u][b] \in Int
  BY DEF Grid
<1>3. ASSUME NEW u \in News!Users
      PROVE  SumOf(q[u], Browsers) \in Int /\ SumOf(r[u], Browsers) \in Int
             /\ SumOf(q[u], Browsers) <= SumOf(r[u], Browsers)
  BY <1>1, <1>2, SumLess
<1>4. ASSUME NEW b \in Browsers PROVE Col(q, b) <= Col(r, b)
  <2> DEFINE f == [u \in News!Users |-> q[u][b]]
             h == [u \in News!Users |-> r[u][b]]
  <2>1. \A u \in News!Users : f[u] \in Int /\ h[u] \in Int /\ f[u] <= h[u]
    BY <1>2
  <2> HIDE DEF f, h
  <2>2. SumOf(f, News!Users) <= SumOf(h, News!Users)
    BY <1>1, <2>1, SumLess
  <2> QED
    BY <2>2 DEF Col, f, h
<1>5. All(q) <= All(r)
  <2> DEFINE f == [u \in News!Users |-> SumOf(q[u], Browsers)]
             h == [u \in News!Users |-> SumOf(r[u], Browsers)]
  <2>1. \A u \in News!Users : f[u] \in Int /\ h[u] \in Int /\ f[u] <= h[u]
    BY <1>3
  <2> HIDE DEF f, h
  <2>2. SumOf(f, News!Users) <= SumOf(h, News!Users)
    BY <1>1, <2>1, SumLess
  <2> QED
    BY <2>2 DEF All, f, h
<1> QED
  BY <1>4, <1>5

\* One entry changed.
Entered(q, r, u, b, n) ==
    /\ q \in Grid
    /\ All(q) = All(r) + n - r[u][b]
    /\ Col(q, b) = Col(r, b) + n - r[u][b]
    /\ \A c \in Browsers : c # b => Col(q, c) = Col(r, c)
LEMMA OneEntry ==
    ASSUME NoticesAssumed, NEW r \in Grid, NEW u \in News!Users, NEW b \in Browsers, NEW n \in Nat,
           NEW q, q = [r EXCEPT ![u][b] = n]
    PROVE  Entered(q, r, u, b, n)
<1>1. IsFiniteSet(News!Users) /\ IsFiniteSet(Browsers)
  BY Finite
<1>2. \A v \in News!Users, c \in Browsers : r[v][c] \in Int
  BY DEF Grid
<1>3. q \in Grid /\ q[u][b] = n /\ (\A c \in Browsers : c # b => q[u][c] = r[u][c])
      /\ \A v \in News!Users : v # u => q[v] = r[v]
  BY DEF Grid
<1>4. SumOf(q[u], Browsers) = SumOf(r[u], Browsers) + n - r[u][b] /\ SumOf(r[u], Browsers) \in Int
  <2> DEFINE f == r[u]
             h == q[u]
  <2>1. h[b] = n /\ n \in Int /\ (\A c \in Browsers : f[c] \in Int) /\ \A c \in Browsers : c # b => h[c] = f[c]
    BY <1>2, <1>3
  <2> HIDE DEF f, h
  <2>2. SumOf(h, Browsers) = SumOf(f, Browsers) + h[b] - f[b] /\ SumOf(f, Browsers) \in Int
    BY <1>1, <2>1, SumPoint, SumStep
  <2> QED
    BY <2>1, <2>2 DEF f, h
<1>5. All(q) = All(r) + n - r[u][b]
  <2> DEFINE f == [v \in News!Users |-> SumOf(r[v], Browsers)]
             h == [v \in News!Users |-> SumOf(q[v], Browsers)]
  <2>1. \A v \in News!Users : f[v] \in Int
    BY <1>1, <1>2, SumStep
  <2>2. \A v \in News!Users : v # u => h[v] = f[v]
    BY <1>3
  <2>3. h[u] \in Int /\ f[u] \in Int /\ h[u] = f[u] + n - r[u][b] /\ r[u][b] \in Int
    BY <1>2, <1>4
  <2> HIDE DEF f, h
  <2>4. SumOf(h, News!Users) = SumOf(f, News!Users) + h[u] - f[u] /\ SumOf(f, News!Users) \in Int
    BY <1>1, <2>1, <2>2, <2>3, SumPoint, SumStep
  <2>5. SumOf(h, News!Users) = SumOf(f, News!Users) + n - r[u][b]
    BY <2>3, <2>4
  <2> QED
    BY <2>5 DEF All, f, h
<1>6. Col(q, b) = Col(r, b) + n - r[u][b]
  <2> DEFINE f == [v \in News!Users |-> r[v][b]]
             h == [v \in News!Users |-> q[v][b]]
  <2>1. (\A v \in News!Users : f[v] \in Int) /\ (\A v \in News!Users : v # u => h[v] = f[v]) /\ h[u] = n /\ f[u] = r[u][b]
    BY <1>2, <1>3
  <2> HIDE DEF f, h
  <2>2. h[u] \in Int
    BY <2>1
  <2>3. SumOf(h, News!Users) = SumOf(f, News!Users) + h[u] - f[u]
    BY <1>1, <2>1, <2>2, SumPoint
  <2>4. SumOf(h, News!Users) = SumOf(f, News!Users) + n - r[u][b]
    BY <2>1, <2>3
  <2> QED
    BY <2>4 DEF Col, f, h
<1>7. ASSUME NEW c \in Browsers, c # b PROVE Col(q, c) = Col(r, c)
  <2> DEFINE f == [v \in News!Users |-> r[v][c]]
             h == [v \in News!Users |-> q[v][c]]
  <2>1. \A v \in News!Users : h[v] = f[v]
    BY <1>3, <1>7
  <2> HIDE DEF f, h
  <2>2. SumOf(h, News!Users) = SumOf(f, News!Users)
    BY <2>1, SumSame
  <2> QED
    BY <2>2 DEF Col, f, h
<1> QED
  BY <1>3, <1>5, <1>6, <1>7 DEF Entered

LEMMA OverFacts ==
    ASSUME NEW m \in Nat, NEW n \in Nat
    PROVE  /\ Over(n) \in Nat /\ n <= 1 + Over(n)
           /\ m <= n => Over(m) <= Over(n)
           /\ m <= 1 => Over(m) = 0
BY DEF Over

LEMMA ExcessFacts ==
    ASSUME NoticesAssumed, NEW r \in Grid, NEW j
    PROVE  /\ \A b \in Browsers : Excess(r, j, b) \in Nat
           /\ \A b \in Browsers : Col(r, b) + Cardinality(Subs(j, b)) \in Nat
           /\ \A b \in Browsers : Col(r, b) <= 1 + Excess(r, j, b)
           /\ ExcessAll(r, j) \in Nat
           /\ \A b \in Browsers : Excess(r, j, b) <= ExcessAll(r, j)
           /\ All(r) <= Cardinality(Browsers) + ExcessAll(r, j)
<1>1. IsFiniteSet(Browsers) /\ \A b : Cardinality(Subs(j, b)) \in Nat
  BY Finite
<1>2. \A b \in Browsers : Col(r, b) \in Nat
  BY GridFacts
<1>3. \A b \in Browsers : /\ Col(r, b) + Cardinality(Subs(j, b)) \in Nat
                          /\ Excess(r, j, b) \in Nat
                          /\ Col(r, b) <= 1 + Excess(r, j, b)
  <2> SUFFICES ASSUME NEW b \in Browsers
               PROVE  /\ Col(r, b) + Cardinality(Subs(j, b)) \in Nat
                      /\ Excess(r, j, b) \in Nat
                      /\ Col(r, b) <= 1 + Excess(r, j, b)
    OBVIOUS
  <2> DEFINE n == Col(r, b) + Cardinality(Subs(j, b))
  <2>1. n \in Nat /\ Col(r, b) <= n /\ Col(r, b) \in Nat
    BY <1>1, <1>2
  <2>2. Excess(r, j, b) = Over(n)
    BY DEF Excess
  <2> HIDE DEF n
  <2>3. Over(n) \in Nat /\ n <= 1 + Over(n)
    BY <2>1, OverFacts
  <2>4. Col(r, b) <= 1 + Over(n)
    BY <2>1, <2>3
  <2> QED
    BY <2>1, <2>2, <2>3, <2>4 DEF n
<1> DEFINE e == [b \in Browsers |-> Excess(r, j, b)]
           c == [b \in Browsers |-> Col(r, b)]
           o == [b \in Browsers |-> 1]
           k == [b \in Browsers |-> 1 + Excess(r, j, b)]
<1>4. \A b \in Browsers : /\ e[b] \in Nat /\ e[b] \in Int /\ c[b] \in Int /\ o[b] \in Int /\ o[b] = 1
                          /\ k[b] \in Int /\ k[b] = o[b] + e[b] /\ c[b] <= k[b]
  BY <1>2, <1>3
<1>5. \A b \in Browsers : e[b] = Excess(r, j, b)
  OBVIOUS
<1> HIDE DEF e, c, o, k
<1>6. SumOf(e, Browsers) \in Nat
  BY <1>1, <1>4, SumNat
<1>7. SumOf(c, Browsers) <= SumOf(k, Browsers)
  BY <1>1, <1>4, SumLess
<1>8. SumOf(k, Browsers) = SumOf(o, Browsers) + SumOf(e, Browsers)
  BY <1>1, <1>4, SumPlus
<1>9. SumOf(o, Browsers) = Cardinality(Browsers)
  BY <1>1, <1>4, SumOnes
<1>10. ExcessAll(r, j) = SumOf(e, Browsers)
  BY DEF ExcessAll, e
<1>11. All(r) = SumOf(c, Browsers)
  BY GridFacts DEF c
<1>12. All(r) <= Cardinality(Browsers) + ExcessAll(r, j)
  BY <1>7, <1>8, <1>9, <1>10, <1>11
<1>13. ASSUME NEW b \in Browsers PROVE Excess(r, j, b) <= ExcessAll(r, j)
  <2>1. IsFiniteSet(Browsers \ {b}) /\ \A a \in Browsers \ {b} : e[a] \in Nat
    BY <1>1, <1>4, FS_RemoveElement
  <2>2. SumOf(e, Browsers \ {b}) \in Nat
    BY <2>1, SumNat
  <2>3. SumOf(e, Browsers) = e[b] + SumOf(e, Browsers \ {b})
    BY <1>1, <1>4, SumStep
  <2> QED
    BY <1>4, <1>5, <1>10, <2>2, <2>3
<1> QED
  BY <1>3, <1>6, <1>10, <1>12, <1>13

LEMMA ExcessShrinks ==
    ASSUME NoticesAssumed, NEW r \in Grid, NEW q \in Grid, NEW j, NEW k,
           \A b \in Browsers : Col(q, b) + Cardinality(Subs(k, b)) <= Col(r, b) + Cardinality(Subs(j, b))
    PROVE  ExcessAll(q, k) <= ExcessAll(r, j) /\ ExcessAll(q, k) \in Nat
<1>1. \A b \in Browsers : /\ Col(q, b) + Cardinality(Subs(k, b)) \in Nat /\ Excess(q, k, b) \in Nat
                          /\ Col(r, b) + Cardinality(Subs(j, b)) \in Nat /\ Excess(r, j, b) \in Nat
  BY ExcessFacts
<1>2. \A b \in Browsers : Excess(q, k, b) <= Excess(r, j, b)
  BY <1>1, OverFacts DEF Excess
<1> DEFINE e == [b \in Browsers |-> Excess(r, j, b)]
           f == [b \in Browsers |-> Excess(q, k, b)]
<1>3. \A b \in Browsers : e[b] \in Int /\ f[b] \in Int /\ f[b] <= e[b]
  BY <1>1, <1>2
<1> HIDE DEF e, f
<1>4. IsFiniteSet(Browsers)
  BY Finite
<1>5. SumOf(f, Browsers) <= SumOf(e, Browsers)
  BY <1>3, <1>4, SumLess
<1> QED
  BY <1>5, ExcessFacts DEF e, f, ExcessAll

LEMMA NewsIdleIsJob == ASSUME NoticesAssumed PROVE News!Idle \in NewsJob /\ News!Idle.op = "idle"
<1>1. News!NoRows \in Grid
  BY DEF News!NoRows, Grid
<1> DEFINE first == CHOOSE b \in Browsers : TRUE
<1>2. Owner \in News!Users /\ first \in Browsers
  BY DEF NoticesAssumed, News!Users
<1>3. News!Idle = [op |-> "idle", from |-> "", to |-> "", u |-> Owner, b |-> first,
              todo |-> News!NoRows, total |-> 0, delivered |-> 0, failed |-> 0]
  BY DEF News!Idle
<1> HIDE DEF first
<1>4. News!Idle.op = "idle"
  BY <1>3
<1> QED
  BY <1>1, <1>2, <1>3, <1>4 DEF NewsJob

\* A set that differs by one element at most.
LEMMA OneMember ==
    ASSUME NEW S, IsFiniteSet(S), NEW x, NEW T, \A y : y # x => (y \in T <=> y \in S)
    PROVE  Cardinality(T) = Cardinality(S) + NewsOne(x \in T) - NewsOne(x \in S)
<1>1. Cardinality(S) \in Nat
  BY FS_CardinalityType
<1>2. CASE x \in T
  <2>1. T = S \cup {x}
    BY <1>2
  <2>2. Cardinality(T) = IF x \in S THEN Cardinality(S) ELSE Cardinality(S) + 1
    BY <2>1, FS_AddElement
  <2>3. NewsOne(x \in T) = 1
    BY <1>2 DEF NewsOne
  <2> QED
    BY <1>1, <2>2, <2>3 DEF NewsOne
<1>3. CASE x \notin T
  <2>1. T = S \ {x}
    BY <1>3
  <2>2. Cardinality(T) = IF x \in S THEN Cardinality(S) - 1 ELSE Cardinality(S)
    BY <2>1, FS_RemoveElement
  <2>3. NewsOne(x \in T) = 0
    BY <1>3 DEF NewsOne
  <2> QED
    BY <1>1, <2>2, <2>3 DEF NewsOne
<1> QED
  BY <1>2, <1>3

LEMMA SlotStep ==
    ASSUME NoticesAssumed, NewsIInv, NEW s \in Slots, NEW r \in NewsJob, NewsJobOK(r, overlaps'), notice' = [notice EXCEPT ![s] = r],
           overlaps' \in Nat, overlaps <= overlaps'
    PROVE  /\ notice' \in [Slots -> NewsJob] /\ NewsJobsOK'
           /\ Cardinality(Mails(notice')) = Cardinality(Mails(notice)) + NewsOne(InMail(r)) - NewsOne(InMail(notice[s]))
           /\ \A b : Cardinality(Subs(notice', b))
                         = Cardinality(Subs(notice, b)) + NewsOne(InSub(r, b)) - NewsOne(InSub(notice[s], b))
<1>1. notice \in [Slots -> NewsJob] /\ NewsJobsOK /\ overlaps \in Nat
  BY DEF NewsIInv, News!TypeOK, NewsJob, Grid
<1>2. notice' \in [Slots -> NewsJob] /\ notice'[s] = r /\ \A t \in Slots : t # s => notice'[t] = notice[t]
  BY <1>1
<1>3. NewsJobsOK'
  <2> SUFFICES ASSUME NEW t \in Slots, t # s PROVE NewsJobOK(notice[t], overlaps')
    BY <1>2 DEF NewsJobsOK
  <2>1. NewsJobOK(notice[t], overlaps) /\ notice[t] \in NewsJob
    BY <1>1 DEF NewsJobsOK
  <2>2. Cardinality(Browsers) \in Nat /\ notice[t].total \in Nat
    BY <2>1, Finite DEF NewsJob
  <2> QED
    BY <1>1, <2>1, <2>2 DEF NewsJobOK
<1>4. Cardinality(Mails(notice')) = Cardinality(Mails(notice)) + NewsOne(InMail(r)) - NewsOne(InMail(notice[s]))
  <2>1. IsFiniteSet(Mails(notice))
    BY Finite
  <2>2. \A t : t # s => (t \in Mails(notice') <=> t \in Mails(notice))
    BY <1>2 DEF Mails
  <2>3. (s \in Mails(notice') <=> InMail(r)) /\ (s \in Mails(notice) <=> InMail(notice[s]))
    BY <1>2 DEF Mails
  <2>4. NewsOne(s \in Mails(notice')) = NewsOne(InMail(r)) /\ NewsOne(s \in Mails(notice)) = NewsOne(InMail(notice[s]))
    BY <2>3 DEF NewsOne
  <2>5. Cardinality(Mails(notice')) = Cardinality(Mails(notice)) + NewsOne(s \in Mails(notice')) - NewsOne(s \in Mails(notice))
    BY <2>1, <2>2, OneMember
  <2> QED
    BY <2>4, <2>5
<1>5. ASSUME NEW b
      PROVE  Cardinality(Subs(notice', b)) = Cardinality(Subs(notice, b)) + NewsOne(InSub(r, b)) - NewsOne(InSub(notice[s], b))
  <2>1. IsFiniteSet(Subs(notice, b))
    BY Finite
  <2>2. \A t : t # s => (t \in Subs(notice', b) <=> t \in Subs(notice, b))
    BY <1>2 DEF Subs
  <2>3. (s \in Subs(notice', b) <=> InSub(r, b)) /\ (s \in Subs(notice, b) <=> InSub(notice[s], b))
    BY <1>2 DEF Subs
  <2>4. NewsOne(s \in Subs(notice', b)) = NewsOne(InSub(r, b)) /\ NewsOne(s \in Subs(notice, b)) = NewsOne(InSub(notice[s], b))
    BY <2>3 DEF NewsOne
  <2>5. Cardinality(Subs(notice', b)) = Cardinality(Subs(notice, b)) + NewsOne(s \in Subs(notice', b)) - NewsOne(s \in Subs(notice, b))
    BY <2>1, <2>2, OneMember
  <2> QED
    BY <2>4, <2>5
<1> QED
  BY <1>2, <1>3, <1>4, <1>5

\* A step of slot s that ends no more subscriptions than it makes rows, and
\* mails no more than the order or the counters account for.
LEMMA StepKeeps ==
    ASSUME NoticesAssumed, NewsIInv, NEW s \in Slots, NEW r \in NewsJob, NewsJobOK(r, overlaps), notice' = [notice EXCEPT ![s] = r],
           overlaps' = overlaps, rows' \in Grid,
           \A b \in Browsers : Col(rows', b) + NewsOne(InSub(r, b)) <= Col(rows, b) + NewsOne(InSub(notice[s], b)),
           ecom' \in News!Statuses, paidMails' \in Nat, racedPaid' \in Nat, replayed' \in Nat,
           paidMails' + NewsOne(InMail(r)) + racedPaid + replayed + NewsOne(ecom # "pending_payment")
               <= paidMails + NewsOne(InMail(notice[s])) + racedPaid' + replayed' + NewsOne(ecom' # "pending_payment"),
           gone' \subseteq Browsers, active' \subseteq News!Users, notices' \in 0..MaxNotices,
           history' \in [total : Nat, delivered : Nat, failed : Nat], News!BroadcastAddsUp'
    PROVE  NewsIInv'
<1>1. /\ News!TypeOK /\ PaidOK /\ NewsRowsOK /\ {paidMails, racedPaid, replayed, overlaps} \subseteq Nat /\ rows \in Grid
  BY DEF NewsIInv, News!TypeOK, Grid
<1>2. /\ notice' \in [Slots -> NewsJob] /\ NewsJobsOK'
      /\ Cardinality(Mails(notice')) = Cardinality(Mails(notice)) + NewsOne(InMail(r)) - NewsOne(InMail(notice[s]))
      /\ \A b : Cardinality(Subs(notice', b))
                    = Cardinality(Subs(notice, b)) + NewsOne(InSub(r, b)) - NewsOne(InSub(notice[s], b))
  <2>1. overlaps' \in Nat /\ overlaps <= overlaps'
    BY <1>1
  <2>2. NewsJobOK(r, overlaps')
    BY Zenon
  <2> QED
    BY <2>1, <2>2, SlotStep
<1>3. News!TypeOK'
  BY <1>1, <1>2 DEF News!TypeOK, NewsJob, Grid
<1>4. Cardinality(Mails(notice)) \in Nat /\ Cardinality(Mails(notice')) \in Nat
  BY Finite
<1>5. \A x : NewsOne(x) \in Nat
  BY DEF NewsOne
<1>6. PaidOK'
  <2> DEFINE m == Cardinality(Mails(notice))
             m2 == Cardinality(Mails(notice'))
             i == NewsOne(InMail(r))
             i2 == NewsOne(InMail(notice[s]))
             e == NewsOne(ecom # "pending_payment")
             e2 == NewsOne(ecom' # "pending_payment")
             p2 == paidMails'
             c == racedPaid'
             d == replayed'
  <2>1. m \in Nat /\ m2 \in Nat /\ m2 = m + i - i2 /\ i \in Nat /\ i2 \in Nat /\ e \in Nat /\ e2 \in Nat
    BY <1>2, <1>4, <1>5
  <2>2. paidMails + m <= racedPaid + replayed + e
    BY <1>1 DEF PaidOK
  <2>3. p2 + i + racedPaid + replayed + e <= paidMails + i2 + c + d + e2
    OBVIOUS
  <2>4. paidMails \in Nat /\ racedPaid \in Nat /\ replayed \in Nat /\ p2 \in Nat /\ c \in Nat /\ d \in Nat
    BY <1>1
  <2>5. SUFFICES p2 + m2 <= c + d + e2
    BY DEF PaidOK
  <2> HIDE DEF m, m2, i, i2, e, e2, p2, c, d
  <2> QED
    BY <2>1, <2>2, <2>3, <2>4
<1>7. NewsRowsOK'
  <2>1. ASSUME NEW b \in Browsers
        PROVE  Col(rows', b) + Cardinality(Subs(notice', b)) <= Col(rows, b) + Cardinality(Subs(notice, b))
    <3>1. Col(rows, b) \in Nat /\ Col(rows', b) \in Nat
      BY <1>1, GridFacts
    <3>2. Cardinality(Subs(notice, b)) \in Nat
      BY Finite
    <3>3. NewsOne(InSub(r, b)) \in Nat /\ NewsOne(InSub(notice[s], b)) \in Nat
      BY <1>5
    <3>4. Col(rows', b) + NewsOne(InSub(r, b)) <= Col(rows, b) + NewsOne(InSub(notice[s], b))
      OBVIOUS
    <3>5. Cardinality(Subs(notice', b)) = Cardinality(Subs(notice, b)) + NewsOne(InSub(r, b)) - NewsOne(InSub(notice[s], b))
      BY <1>2
    <3> QED
      BY <3>1, <3>2, <3>3, <3>4, <3>5
  <2>2. ExcessAll(rows', notice') <= ExcessAll(rows, notice) /\ ExcessAll(rows', notice') \in Nat
    BY <1>1, <2>1, ExcessShrinks
  <2>3. ExcessAll(rows, notice) \in Nat
    BY <1>1, ExcessFacts
  <2> QED
    BY <1>1, <2>2, <2>3 DEF NewsRowsOK
<1> QED
  BY <1>2, <1>3, <1>6, <1>7 DEF NewsIInv

LEMMA NewsCurrent ==
    ASSUME NoticesAssumed, NewsIInv, NEW s \in Slots
    PROVE  /\ notice[s] \in NewsJob /\ NewsJobOK(notice[s], overlaps) /\ notice \in [Slots -> NewsJob]
           /\ ecom \in News!Statuses /\ paidMails \in Nat /\ racedPaid \in Nat /\ replayed \in Nat /\ overlaps \in Nat
           /\ rows \in Grid /\ gone \subseteq Browsers /\ active \subseteq News!Users
           /\ history \in [total : Nat, delivered : Nat, failed : Nat] /\ News!BroadcastAddsUp
           /\ notices \in 0..MaxNotices /\ \A b \in Browsers : Col(rows, b) \in Nat
<1>1. News!TypeOK /\ NewsJobsOK /\ News!BroadcastAddsUp
  BY DEF NewsIInv
<1>2. rows \in Grid /\ {paidMails, racedPaid, replayed, overlaps} \subseteq Nat
  BY <1>1 DEF News!TypeOK, Grid
<1>3. notice \in [Slots -> NewsJob]
  BY <1>1 DEF News!TypeOK, NewsJob, Grid
<1>4. NewsJobOK(notice[s], overlaps)
  BY <1>1 DEF NewsJobsOK
<1> QED
  BY <1>1, <1>2, <1>3, <1>4, GridFacts DEF News!TypeOK

\* A step that tells the customer nothing of a payment and begins no subscription.
LEMMA NewsQuietKeeps ==
    ASSUME NoticesAssumed, NewsIInv, NEW s \in Slots, NEW r \in NewsJob, NewsJobOK(r, overlaps), notice' = [notice EXCEPT ![s] = r],
           ~InMail(r), ~InMail(notice[s]), \A b : ~InSub(r, b),
           rows' \in Grid, \A b \in Browsers : Col(rows', b) <= Col(rows, b),
           UNCHANGED <<News!orderVars, gone, active, overlaps>>, notices' \in 0..MaxNotices,
           history' \in [total : Nat, delivered : Nat, failed : Nat], News!BroadcastAddsUp'
    PROVE  NewsIInv'
<1>1. /\ ecom \in News!Statuses /\ paidMails \in Nat /\ racedPaid \in Nat /\ replayed \in Nat
      /\ rows \in Grid /\ gone \subseteq Browsers /\ active \subseteq News!Users
      /\ \A b \in Browsers : Col(rows, b) \in Nat
  BY NewsCurrent
<1>2. /\ ecom' = ecom /\ paidMails' = paidMails /\ racedPaid' = racedPaid /\ replayed' = replayed
      /\ gone' = gone /\ active' = active /\ overlaps' = overlaps
  BY DEF News!orderVars
<1>3. NewsOne(InMail(r)) = 0 /\ NewsOne(InMail(notice[s])) = 0 /\ NewsOne(ecom # "pending_payment") \in Nat
      /\ (\A b : NewsOne(InSub(r, b)) = 0) /\ (\A b : NewsOne(InSub(notice[s], b)) \in Nat)
  BY DEF NewsOne
<1>4. \A b \in Browsers : Col(rows', b) + NewsOne(InSub(r, b)) <= Col(rows, b) + NewsOne(InSub(notice[s], b))
  <2> SUFFICES ASSUME NEW b \in Browsers
               PROVE  Col(rows', b) + NewsOne(InSub(r, b)) <= Col(rows, b) + NewsOne(InSub(notice[s], b))
    OBVIOUS
  <2>1. Col(rows', b) \in Nat /\ Col(rows, b) \in Nat /\ Col(rows', b) <= Col(rows, b)
    BY <1>1, GridFacts
  <2>2. NewsOne(InSub(r, b)) = 0 /\ NewsOne(InSub(notice[s], b)) \in Nat
    BY <1>3
  <2> QED
    BY <2>1, <2>2
<1>5. paidMails' + NewsOne(InMail(r)) + racedPaid + replayed + NewsOne(ecom # "pending_payment")
          <= paidMails + NewsOne(InMail(notice[s])) + racedPaid' + replayed' + NewsOne(ecom' # "pending_payment")
  <2> DEFINE e == NewsOne(ecom # "pending_payment")
  <2>1. NewsOne(ecom' # "pending_payment") = e
    BY <1>2
  <2>2. e \in Nat
    BY <1>3
  <2> HIDE DEF e
  <2>3. paidMails + 0 + racedPaid + replayed + e <= paidMails + 0 + racedPaid + replayed + e
    BY <1>1, <2>2
  <2> QED
    BY <1>2, <1>3, <2>1, <2>3 DEF e
<1>6. ecom' \in News!Statuses /\ paidMails' \in Nat /\ racedPaid' \in Nat /\ replayed' \in Nat
      /\ gone' \subseteq Browsers /\ active' \subseteq News!Users
  BY <1>1, <1>2
<1> QED
  BY <1>2, <1>4, <1>5, <1>6, StepKeeps

LEMMA NewsBeginKeeps ==
    ASSUME NoticesAssumed, NewsIInv, NEW s \in Slots, NEW r \in NewsJob, NewsJobOK(r, overlaps), News!Begin(s, r),
           ~InMail(r), \A b : ~InSub(r, b), UNCHANGED <<News!orderVars, News!pushVars, history>>
    PROVE  NewsIInv'
<1>1. notice[s] = News!Idle /\ notices < MaxNotices /\ notice' = [notice EXCEPT ![s] = r] /\ notices' = notices + 1
  BY DEF News!Begin
<1>2. ~InMail(notice[s])
  BY <1>1, NewsIdleIsJob DEF InMail
<1>3. notices' \in 0..MaxNotices
  BY <1>1, NewsCurrent DEF NoticesAssumed
<1>4. /\ rows \in Grid /\ history \in [total : Nat, delivered : Nat, failed : Nat] /\ News!BroadcastAddsUp
      /\ \A b \in Browsers : Col(rows, b) \in Nat
  BY NewsCurrent
<1>5. rows' = rows /\ history' = history /\ UNCHANGED <<News!orderVars, gone, active, overlaps>>
  BY DEF News!pushVars
<1>6. News!BroadcastAddsUp'
  BY <1>4, <1>5 DEF News!BroadcastAddsUp
<1>7. \A b \in Browsers : Col(rows', b) <= Col(rows, b)
  BY <1>4, <1>5
<1> QED
  BY <1>1, <1>2, <1>3, <1>4, <1>5, <1>6, <1>7, NewsQuietKeeps

LEMMA NewsMoveKeeps ==
    ASSUME NoticesAssumed, NewsIInv, NEW s \in Slots, NEW op, op = "gateway" \/ op = "handler",
           NEW to \in News!Statuses \ {"pending_payment"},
           op = "handler" /\ to = "paid" => ecom = "pending_payment",
           News!BeginMove(s, op, to)
    PROVE  NewsIInv'
<1> DEFINE r == [News!Idle EXCEPT !.op = op, !.from = ecom, !.to = to]
<1>1. News!Idle \in NewsJob /\ ecom \in News!Statuses
  BY NewsIdleIsJob, NewsCurrent
<1>2. r \in NewsJob /\ r.op = op /\ r.from = ecom /\ r.to = to
  BY <1>1 DEF NewsJob
<1>3. News!Begin(s, r) /\ UNCHANGED <<News!orderVars, News!pushVars, history>>
  BY DEF News!BeginMove
<1> HIDE DEF r
<1>4. ~InMail(r) /\ \A b : ~InSub(r, b)
  BY <1>2 DEF InMail, InSub
<1>5. NewsJobOK(r, overlaps)
  BY <1>2 DEF NewsJobOK, News!Loops
<1> QED
  BY <1>2, <1>3, <1>4, <1>5, NewsBeginKeeps

LEMMA HandlersKeep ==
    ASSUME NoticesAssumed, NewsIInv, NEW s \in Slots,
           \/ News!BeginPgNotification(s) \/ News!BeginSetShipping(s) \/ News!BeginConfirmReceived(s)
           \/ \E to \in News!Statuses : News!BeginUpdateStatus(s, to) \/ News!BeginBiteshipWebhook(s, to)
    PROVE  NewsIInv'
<1>1. {"paid", "shipped", "completed", "delivered"} \subseteq News!Statuses \ {"pending_payment"}
  BY DEF News!Statuses, News!Milestones
<1>2. CASE News!BeginPgNotification(s)
  BY <1>1, <1>2, NewsMoveKeeps DEF News!BeginPgNotification
<1>3. CASE News!BeginSetShipping(s)
  BY <1>1, <1>3, NewsMoveKeeps DEF News!BeginSetShipping
<1>4. CASE News!BeginConfirmReceived(s)
  BY <1>1, <1>4, NewsMoveKeeps DEF News!BeginConfirmReceived
<1>5. ASSUME NEW to \in News!Statuses, News!BeginUpdateStatus(s, to) PROVE NewsIInv'
  <2>1. <<ecom, to>> \in News!Moves
    BY <1>5 DEF News!BeginUpdateStatus, News!Allowed
  <2>2. to # "pending_payment" /\ (to = "paid" => ecom = "pending_payment")
    BY <2>1 DEF News!Moves
  <2> QED
    BY <1>5, <2>2, NewsMoveKeeps DEF News!BeginUpdateStatus
<1>6. ASSUME NEW to \in News!Statuses, News!BeginBiteshipWebhook(s, to) PROVE NewsIInv'
  BY <1>1, <1>6, NewsMoveKeeps DEF News!BeginBiteshipWebhook
<1> QED
  BY <1>2, <1>3, <1>4, <1>5, <1>6

\* A list of subscriptions to go through.
LEMMA PushIsJob ==
    ASSUME NoticesAssumed, NewsIInv, NEW op \in News!Loops, NEW list \in Grid,
           \A u \in News!Users, b \in Browsers : list[u][b] <= rows[u][b]
    PROVE  /\ News!Push(op, list) \in NewsJob /\ NewsJobOK(News!Push(op, list), overlaps)
           /\ ~InMail(News!Push(op, list)) /\ \A b : ~InSub(News!Push(op, list), b)
<1> DEFINE r == News!Push(op, list)
<1>1. rows \in Grid /\ overlaps \in Nat /\ ExcessAll(rows, notice) <= overlaps
  BY DEF NewsIInv, News!TypeOK, Grid, NewsRowsOK
<1>2. All(list) <= All(rows)
  BY <1>1, SmallerGrid
<1>3. All(rows) <= Cardinality(Browsers) + ExcessAll(rows, notice) /\ ExcessAll(rows, notice) \in Nat
  BY <1>1, ExcessFacts
<1>4. All(list) \in Nat /\ All(rows) \in Nat /\ Cardinality(Browsers) \in Nat
  BY <1>1, GridFacts, Finite
<1>5. All(list) <= Cardinality(Browsers) + overlaps
  BY <1>1, <1>2, <1>3, <1>4
<1>6. News!Count(list) = All(list)
  BY CountIs
<1>7. News!Idle \in NewsJob /\ News!Idle.delivered = 0 /\ News!Idle.failed = 0
  BY NewsIdleIsJob DEF News!Idle
<1>8. r = [News!Idle EXCEPT !.op = op, !.todo = list, !.total = All(list)]
  BY <1>6 DEF News!Push
<1>9. /\ r \in NewsJob /\ r.op = op /\ r.todo = list /\ r.total = All(list) /\ r.delivered = 0 /\ r.failed = 0
  BY <1>4, <1>7, <1>8 DEF NewsJob
<1> HIDE DEF r
<1>10. r.op \in {"push", "broadcast"}
  BY <1>9 DEF News!Loops
<1>11. ~InMail(r) /\ \A b : ~InSub(r, b)
  BY <1>10 DEF InMail, InSub
<1>12. NewsJobOK(r, overlaps)
  <2>1. r.delivered + r.failed + All(r.todo) = r.total /\ r.total <= Cardinality(Browsers) + overlaps
    BY <1>4, <1>5, <1>9
  <2> QED
    BY <1>10, <2>1 DEF NewsJobOK
<1> QED
  BY <1>9, <1>11, <1>12 DEF r

LEMMA CommitKeeps ==
    ASSUME NoticesAssumed, NewsIInv, NEW s \in Slots, News!Commit(s)
    PROVE  NewsIInv'
<1> DEFINE op == IF notice[s].op = "gateway" THEN "paidMail" ELSE "statusMail"
           r == IF notice[s].to \notin News!Milestones THEN News!Idle ELSE [notice[s] EXCEPT !.op = op]
           e == NewsOne(ecom # "pending_payment")
           old == notice[s]
<1>1. /\ old \in NewsJob /\ NewsJobOK(old, overlaps) /\ ecom \in News!Statuses /\ paidMails \in Nat /\ racedPaid \in Nat
      /\ replayed \in Nat /\ rows \in Grid /\ gone \subseteq Browsers /\ active \subseteq News!Users
      /\ history \in [total : Nat, delivered : Nat, failed : Nat] /\ News!BroadcastAddsUp /\ notices \in 0..MaxNotices
      /\ overlaps \in Nat /\ \A b \in Browsers : Col(rows, b) \in Nat
  BY NewsCurrent
<1>2. /\ old.op = "gateway" \/ old.op = "handler"
      /\ ecom' = old.to /\ paidMails' = paidMails
      /\ racedPaid' = IF old.to = "paid" /\ ecom # old.from THEN racedPaid + 1 ELSE racedPaid
      /\ replayed' = IF old.op = "gateway" /\ old.from # "pending_payment" THEN replayed + 1 ELSE replayed
      /\ notice' = [notice EXCEPT ![s] = r] /\ notices' = notices
      /\ UNCHANGED <<rows, gone, active, overlaps, history>>
  BY DEF News!Commit, News!Becomes, News!pushVars
<1>3. old.to \in News!Statuses /\ old.to # "pending_payment"
      /\ (old.op = "handler" /\ old.to = "paid" => old.from = "pending_payment")
  BY <1>1, <1>2 DEF NewsJobOK
<1>4. [old EXCEPT !.op = op] \in NewsJob /\ [old EXCEPT !.op = op].op = op /\ [old EXCEPT !.op = op].to = old.to
  BY <1>1 DEF NewsJob
<1>5. r \in NewsJob /\ (r = News!Idle \/ r.op = "paidMail" \/ r.op = "statusMail")
      /\ (r.op \in {"paidMail", "statusMail"} => r.to = old.to)
  BY <1>4, NewsIdleIsJob
<1>6. ~InMail(old) /\ (InMail(r) => old.to = "paid") /\ \A b : ~InSub(r, b) /\ ~InSub(old, b)
  BY <1>2, <1>5, NewsIdleIsJob DEF InMail, InSub
<1> HIDE DEF r, op, old
<1>7. NewsJobOK(r, overlaps)
  BY <1>5, NewsIdleIsJob DEF NewsJobOK, News!Loops
<1>8. racedPaid' \in Nat /\ replayed' \in Nat
  BY <1>1, <1>2
<1>9. e \in Nat /\ NewsOne(InMail(old)) = 0 /\ NewsOne(ecom' # "pending_payment") = 1
      /\ (\A b : NewsOne(InSub(r, b)) = 0 /\ NewsOne(InSub(old, b)) = 0)
  BY <1>2, <1>3, <1>6 DEF NewsOne
<1>10. NewsOne(InMail(r)) + racedPaid + replayed + e <= racedPaid' + replayed' + 1
  <2> DEFINE m == NewsOne(InMail(r))
             c == racedPaid'
             d == replayed'
  <2>1. c \in Nat /\ d \in Nat /\ racedPaid <= c /\ replayed <= d /\ m \in Nat /\ m <= 1 /\ e \in Nat /\ e <= 1
    BY <1>1, <1>2, <1>8 DEF NewsOne
  <2>2. m = 0 \/ e = 0 \/ c = racedPaid + 1 \/ d = replayed + 1
    <3>1. CASE ~InMail(r)
      BY <3>1 DEF NewsOne
    <3>2. CASE InMail(r) /\ ecom # old.from
      BY <1>2, <1>6, <3>2
    <3>3. CASE InMail(r) /\ ecom = old.from /\ ecom # "pending_payment"
      BY <1>2, <1>3, <1>6, <3>3
    <3>4. CASE ecom = "pending_payment"
      BY <3>4 DEF NewsOne
    <3> QED
      BY <3>1, <3>2, <3>3, <3>4
  <2> HIDE DEF m, c, d, e
  <2>3. m + racedPaid + replayed + e <= c + d + 1
    BY <1>1, <2>1, <2>2
  <2> QED
    BY <2>3 DEF m, c, d
<1>11. paidMails' + NewsOne(InMail(r)) + racedPaid + replayed + e
          <= paidMails + NewsOne(InMail(old)) + racedPaid' + replayed' + NewsOne(ecom' # "pending_payment")
  <2> DEFINE m == NewsOne(InMail(r))
             c == racedPaid'
             d == replayed'
  <2>1. m \in Nat /\ c \in Nat /\ d \in Nat /\ m + racedPaid + replayed + e <= c + d + 1
    BY <1>8, <1>10 DEF NewsOne
  <2>2. e \in Nat /\ NewsOne(InMail(old)) = 0 /\ NewsOne(ecom' # "pending_payment") = 1 /\ paidMails' = paidMails
    BY <1>2, <1>9
  <2> HIDE DEF e, m, c, d
  <2>3. paidMails + m + racedPaid + replayed + e <= paidMails + 0 + c + d + 1
    BY <1>1, <2>1, <2>2
  <2> QED
    BY <2>2, <2>3 DEF m, c, d
<1>12. \A b \in Browsers : Col(rows', b) + NewsOne(InSub(r, b)) <= Col(rows, b) + NewsOne(InSub(old, b))
  BY <1>1, <1>2, <1>9
<1>13. News!BroadcastAddsUp' /\ rows' \in Grid /\ ecom' \in News!Statuses /\ notices' \in 0..MaxNotices /\ overlaps' = overlaps
       /\ gone' \subseteq Browsers /\ active' \subseteq News!Users
       /\ history' \in [total : Nat, delivered : Nat, failed : Nat] /\ paidMails' \in Nat
  BY <1>1, <1>2, <1>3 DEF News!BroadcastAddsUp
<1> QED
  BY <1>2, <1>5, <1>7, <1>8, <1>11, <1>12, <1>13, StepKeeps DEF old

LEMMA MailKeeps ==
    ASSUME NoticesAssumed, NewsIInv, NEW s \in Slots, NEW ok \in BOOLEAN, NEW r \in NewsJob, NewsJobOK(r, overlaps),
           notice[s].op \in {"paidMail", "statusMail"}, News!Mailed(s, ok), News!Becomes(s, r),
           ~InMail(r), \A b : ~InSub(r, b),
           UNCHANGED <<ecom, racedPaid, replayed, News!pushVars, history>>
    PROVE  NewsIInv'
<1> DEFINE e == NewsOne(ecom # "pending_payment")
           i == NewsOne(InMail(notice[s]))
           p2 == paidMails'
<1>1. /\ notice[s] \in NewsJob /\ ecom \in News!Statuses /\ paidMails \in Nat /\ racedPaid \in Nat
      /\ replayed \in Nat /\ rows \in Grid /\ gone \subseteq Browsers /\ active \subseteq News!Users
      /\ history \in [total : Nat, delivered : Nat, failed : Nat] /\ News!BroadcastAddsUp /\ notices \in 0..MaxNotices
      /\ \A b \in Browsers : Col(rows, b) \in Nat
  BY NewsCurrent
<1>2. /\ notice' = [notice EXCEPT ![s] = r] /\ notices' = notices
      /\ UNCHANGED <<ecom, racedPaid, replayed, rows, gone, active, overlaps, history>>
      /\ p2 = IF ok /\ notice[s].to = "paid" THEN paidMails + 1 ELSE paidMails
  BY DEF News!Becomes, News!Mailed, News!pushVars
<1>3. e \in Nat /\ i \in Nat /\ NewsOne(InMail(r)) = 0 /\ \A b : NewsOne(InSub(r, b)) = 0 /\ NewsOne(InSub(notice[s], b)) \in Nat
  BY DEF NewsOne
<1>4. p2 \in Nat /\ p2 <= paidMails + i
  BY <1>1, <1>2 DEF InMail, NewsOne
<1>5. p2 + NewsOne(InMail(r)) + racedPaid + replayed + e <= paidMails + i + racedPaid' + replayed' + NewsOne(ecom' # "pending_payment")
  <2>1. NewsOne(ecom' # "pending_payment") = e
    BY <1>2
  <2> HIDE DEF e, i, p2
  <2>2. p2 + 0 + racedPaid + replayed + e <= paidMails + i + racedPaid + replayed + e
    BY <1>1, <1>3, <1>4
  <2> QED
    BY <1>2, <1>3, <2>1, <2>2
<1>6. \A b \in Browsers : Col(rows', b) + NewsOne(InSub(r, b)) <= Col(rows, b) + NewsOne(InSub(notice[s], b))
  BY <1>1, <1>2, <1>3
<1>7. News!BroadcastAddsUp' /\ rows' \in Grid /\ ecom' \in News!Statuses /\ notices' \in 0..MaxNotices /\ overlaps' = overlaps
       /\ gone' \subseteq Browsers /\ active' \subseteq News!Users /\ racedPaid' \in Nat /\ replayed' \in Nat
       /\ history' \in [total : Nat, delivered : Nat, failed : Nat]
  BY <1>1, <1>2 DEF News!BroadcastAddsUp
<1> QED
  BY <1>2, <1>4, <1>5, <1>6, <1>7, StepKeeps

LEMMA IdleOK == ASSUME NoticesAssumed PROVE /\ News!Idle \in NewsJob /\ \A n : NewsJobOK(News!Idle, n)
                                            /\ ~InMail(News!Idle) /\ \A b : ~InSub(News!Idle, b)
BY NewsIdleIsJob DEF NewsJobOK, InMail, InSub, News!Loops

LEMMA MailsKeep ==
    ASSUME NoticesAssumed, NewsIInv, NEW s \in Slots, NEW ok \in BOOLEAN,
           News!sendOrderPaidEmail(s, ok) \/ News!SendOrderStatusEmail(s, ok)
    PROVE  NewsIInv'
<1>1. CASE News!sendOrderPaidEmail(s, ok)
  <2>1. notice[s].op \in {"paidMail", "statusMail"} /\ News!Mailed(s, ok) /\ News!Becomes(s, News!Idle)
        /\ UNCHANGED <<ecom, racedPaid, replayed, News!pushVars, history>>
    BY <1>1 DEF News!sendOrderPaidEmail
  <2>2. News!Idle \in NewsJob /\ NewsJobOK(News!Idle, overlaps) /\ ~InMail(News!Idle) /\ \A b : ~InSub(News!Idle, b)
    BY IdleOK
  <2> QED
    BY <2>1, <2>2, MailKeeps
<1>2. CASE News!SendOrderStatusEmail(s, ok)
  <2> DEFINE list == News!FindByUserID(Owner)
             r == News!Push("push", list)
  <2>1. notice[s].op \in {"paidMail", "statusMail"} /\ News!Mailed(s, ok) /\ News!Becomes(s, r)
        /\ UNCHANGED <<ecom, racedPaid, replayed, News!pushVars, history>>
    BY <1>2 DEF News!SendOrderStatusEmail
  <2>2. rows \in Grid /\ Owner \in News!Users /\ "push" \in News!Loops
    BY NewsCurrent DEF NoticesAssumed, News!Users, News!Loops
  <2>3. list \in Grid /\ \A u \in News!Users, b \in Browsers : list[u][b] <= rows[u][b]
    BY <2>2 DEF News!FindByUserID, News!NoRows, Grid
  <2>4. r \in NewsJob /\ NewsJobOK(r, overlaps) /\ ~InMail(r) /\ \A b : ~InSub(r, b)
    BY <2>2, <2>3, PushIsJob
  <2> HIDE DEF r
  <2> QED
    BY <2>1, <2>4, MailKeeps
<1> QED
  BY <1>1, <1>2

LEMMA BroadcastsKeep ==
    ASSUME NoticesAssumed, NewsIInv, NEW s \in Slots, News!SendToEcomCustomers(s) \/ News!checkAndNotify(s)
    PROVE  NewsIInv'
<1>1. rows \in Grid /\ "push" \in News!Loops /\ "broadcast" \in News!Loops
  BY NewsCurrent DEF News!Loops
<1>2. CASE News!SendToEcomCustomers(s)
  <2> DEFINE r == News!Push("broadcast", News!PromoRows)
  <2>1. News!PromoRows \in Grid /\ \A u \in News!Users, b \in Browsers : News!PromoRows[u][b] <= rows[u][b]
    BY <1>1 DEF News!PromoRows, News!NoRows, Grid
  <2>2. r \in NewsJob /\ NewsJobOK(r, overlaps) /\ ~InMail(r) /\ \A b : ~InSub(r, b)
    BY <1>1, <2>1, PushIsJob
  <2>3. News!Begin(s, r) /\ UNCHANGED <<News!orderVars, News!pushVars, history>>
    BY <1>2 DEF News!SendToEcomCustomers
  <2> HIDE DEF r
  <2> QED
    BY <2>2, <2>3, NewsBeginKeeps
<1>3. CASE News!checkAndNotify(s)
  <2> DEFINE r == News!Push("push", rows)
  <2>1. \A u \in News!Users, b \in Browsers : rows[u][b] <= rows[u][b]
    BY <1>1 DEF Grid
  <2>2. r \in NewsJob /\ NewsJobOK(r, overlaps) /\ ~InMail(r) /\ \A b : ~InSub(r, b)
    BY <1>1, <2>1, PushIsJob
  <2>3. News!Begin(s, r) /\ UNCHANGED <<News!orderVars, News!pushVars, history>>
    BY <1>3 DEF News!checkAndNotify
  <2> HIDE DEF r
  <2> QED
    BY <2>2, <2>3, NewsBeginKeeps
<1> QED
  BY <1>2, <1>3

\* A browser's rows go.
LEMMA Deleted ==
    ASSUME NoticesAssumed, rows \in Grid, NEW b \in Browsers
    PROVE  News!DeleteByEndpoint(b) \in Grid /\ \A c \in Browsers : Col(News!DeleteByEndpoint(b), c) <= Col(rows, c)
<1>1. News!DeleteByEndpoint(b) \in Grid
      /\ \A u \in News!Users, c \in Browsers : News!DeleteByEndpoint(b)[u][c] <= rows[u][c]
  BY DEF News!DeleteByEndpoint, Grid
<1> QED
  BY <1>1, SmallerGrid

LEMMA sendPushKeeps ==
    ASSUME NoticesAssumed, NewsIInv, NEW s \in Slots, NEW u \in News!Users, NEW b \in Browsers, NEW ok \in BOOLEAN,
           News!sendPush(s, u, b, ok)
    PROVE  NewsIInv'
<1> DEFINE old == notice[s]
           list == [old.todo EXCEPT ![u][b] = old.todo[u][b] - 1]
           d == IF ok THEN old.delivered + 1 ELSE old.delivered
           f == IF ok THEN old.failed ELSE old.failed + 1
           r == [old EXCEPT !.todo = list, !.delivered = d, !.failed = f]
<1>1. /\ old \in NewsJob /\ NewsJobOK(old, overlaps) /\ rows \in Grid /\ notices \in 0..MaxNotices
      /\ history \in [total : Nat, delivered : Nat, failed : Nat] /\ News!BroadcastAddsUp
      /\ \A c \in Browsers : Col(rows, c) \in Nat
  BY NewsCurrent
<1>2. /\ old.op \in News!Loops /\ old.todo[u][b] > 0 /\ notice' = [notice EXCEPT ![s] = r] /\ notices' = notices
      /\ rows' = IF b \in gone THEN News!DeleteByEndpoint(b) ELSE rows
      /\ UNCHANGED <<News!orderVars, gone, active, overlaps>> /\ history' = history
  BY DEF News!sendPush, News!Becomes, News!Failed
<1>3. /\ old.todo \in Grid /\ old.delivered \in Nat /\ old.failed \in Nat /\ old.total \in Nat
      /\ old.todo[u][b] \in Nat
  BY <1>1 DEF NewsJob, Grid
<1>4. old.todo[u][b] - 1 \in Nat
  BY <1>2, <1>3
<1>5. list \in Grid /\ All(list) = All(old.todo) + (old.todo[u][b] - 1) - old.todo[u][b]
  BY <1>3, <1>4, OneEntry DEF Entered
<1>6. All(old.todo) \in Nat
  BY <1>3, GridFacts
<1>7. d \in Nat /\ f \in Nat /\ d + f = old.delivered + old.failed + 1
  BY <1>3
<1>8. old.delivered + old.failed + All(old.todo) = old.total /\ old.total <= Cardinality(Browsers) + overlaps
  BY <1>1, <1>2 DEF NewsJobOK
<1>9. rows' \in Grid /\ \A c \in Browsers : Col(rows', c) <= Col(rows, c)
  <2>1. CASE b \in gone
    BY <1>1, <1>2, <2>1, Deleted
  <2>2. CASE b \notin gone
    BY <1>1, <1>2, <2>2
  <2> QED
    BY <2>1, <2>2
<1>10. News!BroadcastAddsUp' /\ history' \in [total : Nat, delivered : Nat, failed : Nat] /\ notices' \in 0..MaxNotices
  BY <1>1, <1>2 DEF News!BroadcastAddsUp
<1> HIDE DEF list, d, f
<1>11. r \in NewsJob /\ r.op = old.op /\ r.todo = list /\ r.delivered = d /\ r.failed = f /\ r.total = old.total
  BY <1>1, <1>5, <1>7 DEF NewsJob
<1> HIDE DEF r, old
<1>12. d + f + All(list) = old.total
  BY <1>3, <1>5, <1>6, <1>7, <1>8
<1>13. old.op \in {"push", "broadcast"}
  BY <1>2 DEF News!Loops
<1>14. NewsJobOK(r, overlaps)
  BY <1>8, <1>11, <1>12, <1>13 DEF NewsJobOK
<1>15. ~InMail(r) /\ ~InMail(old) /\ \A c : ~InSub(r, c)
  BY <1>11, <1>13 DEF InMail, InSub
<1> QED
  BY <1>2, <1>9, <1>10, <1>11, <1>14, <1>15, NewsQuietKeeps DEF old

LEMMA EndPushKeeps ==
    ASSUME NoticesAssumed, NewsIInv, NEW s \in Slots, News!EndPush(s)
    PROVE  NewsIInv'
<1> DEFINE old == notice[s]
           new == [total |-> old.total, delivered |-> old.delivered, failed |-> old.failed]
<1>1. /\ old \in NewsJob /\ NewsJobOK(old, overlaps) /\ rows \in Grid /\ notices \in 0..MaxNotices
      /\ history \in [total : Nat, delivered : Nat, failed : Nat] /\ News!BroadcastAddsUp
      /\ \A c \in Browsers : Col(rows, c) \in Nat
  BY NewsCurrent
<1>2. /\ old.op \in News!Loops /\ News!Count(old.todo) = 0 /\ notice' = [notice EXCEPT ![s] = News!Idle] /\ notices' = notices
      /\ history' = IF old.op = "broadcast" THEN new ELSE history
      /\ UNCHANGED <<News!orderVars, gone, active, overlaps>> /\ rows' = rows
  BY DEF News!EndPush, News!Becomes, News!pushVars
<1>3. old.todo \in Grid /\ old.delivered \in Nat /\ old.failed \in Nat /\ old.total \in Nat
  BY <1>1 DEF NewsJob
<1>4. All(old.todo) = 0
  BY <1>2, <1>3, CountIs
<1>5. old.delivered + old.failed + 0 = old.total /\ old.total <= Cardinality(Browsers) + overlaps
  BY <1>1, <1>2, <1>4 DEF NewsJobOK
<1>6. ~InMail(old)
  BY <1>2 DEF InMail, News!Loops
<1> HIDE DEF old
<1>7. /\ new \in [total : Nat, delivered : Nat, failed : Nat]
      /\ new.delivered + new.failed = new.total /\ new.total <= Cardinality(Browsers) + overlaps
  BY <1>3, <1>5
<1> HIDE DEF new
<1>8. News!BroadcastAddsUp' /\ history' \in [total : Nat, delivered : Nat, failed : Nat]
  BY <1>1, <1>2, <1>7, OneCount DEF News!BroadcastAddsUp
<1>9. News!Idle \in NewsJob /\ NewsJobOK(News!Idle, overlaps) /\ ~InMail(News!Idle) /\ \A b : ~InSub(News!Idle, b)
  BY IdleOK
<1>10. \A c \in Browsers : Col(rows', c) <= Col(rows, c)
  BY <1>1, <1>2
<1> QED
  BY <1>1, <1>2, <1>6, <1>8, <1>9, <1>10, NewsQuietKeeps DEF old

\* A subscription begins: what it adds to the rows to come, overlaps counts.
LEMMA BeginSubscribeKeeps ==
    ASSUME NoticesAssumed, NewsIInv, NEW s \in Slots, NEW u \in News!Users, NEW b \in Browsers, News!BeginSubscribe(s, u, b)
    PROVE  NewsIInv'
<1> DEFINE r == [News!Idle EXCEPT !.op = "subscribe", !.u = u, !.b = b]
           more == Cardinality(Subs(notice, b))
           n == overlaps'
<1>1. /\ News!TypeOK /\ PaidOK /\ NewsRowsOK /\ rows \in Grid /\ overlaps \in Nat /\ notices \in 0..MaxNotices
      /\ history \in [total : Nat, delivered : Nat, failed : Nat] /\ News!BroadcastAddsUp
  BY NewsCurrent DEF NewsIInv
<1>2. /\ News!Copies(b) = 0 /\ notice[s] = News!Idle /\ notice' = [notice EXCEPT ![s] = r] /\ notices' = notices + 1 /\ notices < MaxNotices
      /\ UNCHANGED <<News!orderVars, rows, gone, active, history>>
      /\ overlaps' = overlaps + Cardinality({t \in Slots : notice[t].op = "subscribe" /\ notice[t].b = b})
  BY OneCount DEF News!BeginSubscribe, News!Begin
<1>3. more \in Nat /\ n = overlaps + more
  BY <1>2, Finite DEF Subs, InSub
<1>4. n \in Nat /\ overlaps <= n
  BY <1>1, <1>3
<1>5. r \in NewsJob /\ r.op = "subscribe" /\ r.b = b
  BY NewsIdleIsJob DEF NewsJob
<1> HIDE DEF r, more, n
<1>6. ~InMail(r) /\ ~InMail(notice[s]) /\ NewsJobOK(r, n) /\ (\A c : InSub(r, c) <=> c = b) /\ \A c : ~InSub(notice[s], c)
  BY <1>2, <1>5, NewsIdleIsJob DEF InMail, InSub, NewsJobOK, News!Loops
<1>7. NewsJobOK(r, overlaps')
  BY <1>6 DEF n
<1>8. overlaps' \in Nat /\ overlaps <= overlaps'
  BY <1>4 DEF n
<1>9. /\ notice' \in [Slots -> NewsJob] /\ NewsJobsOK'
      /\ Cardinality(Mails(notice')) = Cardinality(Mails(notice)) + NewsOne(InMail(r)) - NewsOne(InMail(notice[s]))
      /\ \A c : Cardinality(Subs(notice', c)) = Cardinality(Subs(notice, c)) + NewsOne(InSub(r, c)) - NewsOne(InSub(notice[s], c))
  BY <1>2, <1>5, <1>7, <1>8, SlotStep
<1>10. /\ Cardinality(Mails(notice)) \in Nat /\ \A c : Cardinality(Subs(notice, c)) \in Nat
  BY Finite
<1>11. /\ NewsOne(InMail(r)) = 0 /\ NewsOne(InMail(notice[s])) = 0
       /\ \A c : NewsOne(InSub(r, c)) = NewsOne(c = b) /\ NewsOne(InSub(notice[s], c)) = 0
  BY <1>6 DEF NewsOne
<1>12. Cardinality(Mails(notice')) = Cardinality(Mails(notice))
  BY <1>9, <1>10, <1>11
<1>13. \A c : c # b => Cardinality(Subs(notice', c)) = Cardinality(Subs(notice, c))
  <2> SUFFICES ASSUME NEW c, c # b PROVE Cardinality(Subs(notice', c)) = Cardinality(Subs(notice, c))
    OBVIOUS
  <2>1. NewsOne(InSub(r, c)) = 0 /\ NewsOne(InSub(notice[s], c)) = 0
    BY <1>11 DEF NewsOne
  <2> QED
    BY <1>9, <1>10, <2>1
<1>14. Cardinality(Subs(notice', b)) = more + 1
  <2>1. NewsOne(InSub(r, b)) = 1 /\ NewsOne(InSub(notice[s], b)) = 0
    BY <1>11 DEF NewsOne
  <2> QED
    BY <1>9, <1>3, <2>1 DEF more
<1>15. Col(rows, b) = 0
  BY <1>2, CopiesIs
<1>16. rows' = rows /\ gone' = gone /\ active' = active /\ history' = history /\ UNCHANGED <<ecom, paidMails, racedPaid, replayed>>
  BY <1>2 DEF News!orderVars
<1>17. Excess(rows, notice', b) <= Excess(rows, notice, b) + more
  <2>1. Excess(rows, notice', b) = Over(more + 1)
    BY <1>3, <1>14, <1>15 DEF Excess
  <2>2. Over(more + 1) = more
    BY <1>3 DEF Over
  <2>3. Excess(rows, notice, b) \in Nat
    BY <1>1, ExcessFacts
  <2> QED
    BY <1>3, <2>1, <2>2, <2>3
<1>18. ExcessAll(rows, notice') <= ExcessAll(rows, notice) + more /\ ExcessAll(rows, notice') \in Nat
  <2> DEFINE f == [c \in Browsers |-> Excess(rows, notice, c)]
             h == [c \in Browsers |-> Excess(rows, notice', c)]
  <2>1. \A c \in Browsers : f[c] \in Nat /\ h[c] \in Nat
    BY <1>1, ExcessFacts
  <2>2. \A c \in Browsers : c # b => h[c] = f[c]
    BY <1>13 DEF Excess
  <2>3. h[b] <= f[b] + more
    BY <1>17
  <2> HIDE DEF f, h
  <2>4. (\A c \in Browsers : f[c] \in Int) /\ h[b] \in Int /\ f[b] \in Int /\ IsFiniteSet(Browsers)
    BY <2>1, Finite
  <2>5. SumOf(h, Browsers) = SumOf(f, Browsers) + h[b] - f[b]
    BY <2>2, <2>4, SumPoint
  <2>6. SumOf(f, Browsers) \in Nat /\ SumOf(h, Browsers) \in Nat
    BY <2>1, <2>4, SumNat
  <2>7. SumOf(h, Browsers) <= SumOf(f, Browsers) + more
    BY <1>3, <2>3, <2>4, <2>5, <2>6
  <2> QED
    BY <2>6, <2>7 DEF f, h, ExcessAll
<1>19. NewsRowsOK'
  <2> DEFINE x == ExcessAll(rows, notice')
             y == ExcessAll(rows, notice)
  <2>1. x \in Nat /\ y \in Nat /\ x <= y + more /\ y <= overlaps
    BY <1>1, <1>18, ExcessFacts DEF NewsRowsOK
  <2>2. SUFFICES x <= n
    BY <1>16 DEF NewsRowsOK, n
  <2> HIDE DEF x, y
  <2> QED
    BY <1>1, <1>3, <2>1
<1>20. PaidOK'
  BY <1>1, <1>12, <1>16 DEF PaidOK
<1>21. News!BroadcastAddsUp'
  <2>1. history.total \in Nat /\ Cardinality(Browsers) \in Nat /\ history.total <= Cardinality(Browsers) + overlaps
    BY <1>1, Finite, OneCount DEF News!BroadcastAddsUp
  <2>2. history.total <= Cardinality(Browsers) + n
    BY <1>1, <1>4, <2>1
  <2> QED
    BY <1>1, <1>16, <2>2, OneCount DEF News!BroadcastAddsUp, n
<1>22. News!TypeOK'
  <2>1. notices' \in 0..MaxNotices
    BY <1>1, <1>2 DEF NoticesAssumed
  <2> QED
    BY <1>1, <1>8, <1>9, <1>16, <2>1 DEF News!TypeOK, NewsJob, Grid
<1> QED
  BY <1>9, <1>19, <1>20, <1>21, <1>22 DEF NewsIInv

LEMMA CommitSubscribeKeeps ==
    ASSUME NoticesAssumed, NewsIInv, NEW s \in Slots, News!CommitSubscribe(s)
    PROVE  NewsIInv'
<1> DEFINE old == notice[s]
           was == rows[old.u][old.b]
           q == rows'
<1>1. /\ old \in NewsJob /\ rows \in Grid /\ notices \in 0..MaxNotices /\ overlaps \in Nat /\ ecom \in News!Statuses
      /\ paidMails \in Nat /\ racedPaid \in Nat /\ replayed \in Nat /\ gone \subseteq Browsers /\ active \subseteq News!Users
      /\ history \in [total : Nat, delivered : Nat, failed : Nat] /\ News!BroadcastAddsUp
      /\ \A c \in Browsers : Col(rows, c) \in Nat
  BY NewsCurrent
<1>2. /\ old.op = "subscribe" /\ q = [rows EXCEPT ![old.u][old.b] = was + 1]
      /\ notice' = [notice EXCEPT ![s] = News!Idle] /\ notices' = notices
      /\ UNCHANGED <<News!orderVars, gone, active, overlaps, history>>
  BY DEF News!CommitSubscribe, News!Becomes
<1>3. old.u \in News!Users /\ old.b \in Browsers /\ was \in Nat
  BY <1>1 DEF NewsJob, Grid
<1>4. was + 1 \in Nat
  BY <1>3
<1> HIDE DEF was, q
<1>5. /\ q \in Grid /\ Col(q, old.b) = Col(rows, old.b) + (was + 1) - rows[old.u][old.b]
      /\ \A c \in Browsers : c # old.b => Col(q, c) = Col(rows, c)
  <2> DEFINE v == old.u
             w == old.b
             k == was + 1
  <2>1. v \in News!Users /\ w \in Browsers /\ k \in Nat /\ rows \in Grid /\ q = [rows EXCEPT ![v][w] = k]
    BY <1>1, <1>2, <1>3, <1>4
  <2> HIDE DEF v, w, k
  <2>2. /\ q \in Grid /\ Col(q, w) = Col(rows, w) + k - rows[v][w]
        /\ \A c \in Browsers : c # w => Col(q, c) = Col(rows, c)
    <3>1. Entered(q, rows, v, w, k)
      BY <2>1, OneEntry
    <3> QED
      BY <3>1 DEF Entered
  <2> QED
    BY <2>2 DEF v, w, k
<1>6. Col(q, old.b) = Col(rows, old.b) + 1
  BY <1>1, <1>3, <1>5 DEF was
<1>7. News!Idle \in NewsJob /\ NewsJobOK(News!Idle, overlaps) /\ ~InMail(News!Idle) /\ \A c : ~InSub(News!Idle, c)
  BY IdleOK
<1>8. ~InMail(old) /\ \A c : InSub(old, c) <=> c = old.b
  BY <1>2 DEF InMail, InSub
<1>9. \A c \in Browsers : Col(q, c) + NewsOne(InSub(News!Idle, c)) <= Col(rows, c) + NewsOne(InSub(old, c))
  <2> SUFFICES ASSUME NEW c \in Browsers
               PROVE  Col(q, c) + NewsOne(InSub(News!Idle, c)) <= Col(rows, c) + NewsOne(InSub(old, c))
    OBVIOUS
  <2>1. NewsOne(InSub(News!Idle, c)) = 0 /\ Col(rows, c) \in Nat
    BY <1>1, <1>7 DEF NewsOne
  <2>2. CASE c = old.b
    <3>1. NewsOne(InSub(old, c)) = 1
      BY <1>8, <2>2 DEF NewsOne
    <3> QED
      BY <1>6, <2>1, <2>2, <3>1
  <2>3. CASE c # old.b
    <3>1. NewsOne(InSub(old, c)) = 0
      BY <1>8, <2>3 DEF NewsOne
    <3>2. Col(q, c) = Col(rows, c)
      BY <1>5, <2>3
    <3> QED
      BY <2>1, <3>1, <3>2
  <2> QED
    BY <2>2, <2>3
<1>10. /\ ecom' = ecom /\ paidMails' = paidMails /\ racedPaid' = racedPaid /\ replayed' = replayed
       /\ gone' = gone /\ active' = active /\ overlaps' = overlaps /\ history' = history
  BY <1>2 DEF News!orderVars
<1>11. paidMails' + NewsOne(InMail(News!Idle)) + racedPaid + replayed + NewsOne(ecom # "pending_payment")
          <= paidMails + NewsOne(InMail(old)) + racedPaid' + replayed' + NewsOne(ecom' # "pending_payment")
  <2> DEFINE e == NewsOne(ecom # "pending_payment")
  <2>1. e \in Nat /\ NewsOne(InMail(News!Idle)) = 0 /\ NewsOne(InMail(old)) = 0 /\ NewsOne(ecom' # "pending_payment") = e
    BY <1>7, <1>8, <1>10 DEF NewsOne
  <2> HIDE DEF e
  <2>2. paidMails + 0 + racedPaid + replayed + e <= paidMails + 0 + racedPaid + replayed + e
    BY <1>1, <2>1
  <2> QED
    BY <1>10, <2>1, <2>2 DEF e
<1>12. /\ News!BroadcastAddsUp' /\ q \in Grid /\ ecom' \in News!Statuses /\ notices' \in 0..MaxNotices
       /\ gone' \subseteq Browsers /\ active' \subseteq News!Users /\ racedPaid' \in Nat /\ replayed' \in Nat
       /\ history' \in [total : Nat, delivered : Nat, failed : Nat] /\ paidMails' \in Nat
  BY <1>1, <1>2, <1>5, <1>10 DEF News!BroadcastAddsUp
<1> QED
  BY <1>2, <1>7, <1>9, <1>10, <1>11, <1>12, StepKeeps DEF old, q

\* Steps that no slot takes.
LEMMA NewsOthersKeep ==
    ASSUME NoticesAssumed, NewsIInv,
           \/ \E b \in Browsers : News!Unsubscribe(b) \/ News!BrowserGone(b)
           \/ \E u \in Accounts : News!SetActive(u)
           \/ News!SyncPaymentStatus \/ UNCHANGED News!vars
    PROVE  NewsIInv'
<1>1. /\ News!TypeOK /\ NewsJobsOK /\ PaidOK /\ NewsRowsOK /\ News!BroadcastAddsUp /\ rows \in Grid /\ overlaps \in Nat
  BY DEF NewsIInv, News!TypeOK, Grid
<1>2. ASSUME NEW b \in Browsers, News!Unsubscribe(b) PROVE NewsIInv'
  <2>1. rows' = News!DeleteByEndpoint(b) /\ UNCHANGED <<News!orderVars, gone, active, overlaps, history, notice, notices>>
    BY <1>2 DEF News!Unsubscribe
  <2>2. rows' \in Grid /\ \A c \in Browsers : Col(rows', c) <= Col(rows, c) /\ Col(rows', c) \in Nat
                                                                          /\ Col(rows, c) \in Nat
    BY <1>1, <2>1, Deleted, GridFacts
  <2>3. \A c \in Browsers : Cardinality(Subs(notice, c)) \in Nat
    BY Finite
  <2>4. \A c \in Browsers : Col(rows', c) + Cardinality(Subs(notice, c)) <= Col(rows, c) + Cardinality(Subs(notice, c))
    BY <2>2, <2>3
  <2>5. ExcessAll(rows', notice) <= ExcessAll(rows, notice) /\ ExcessAll(rows', notice) \in Nat /\ ExcessAll(rows, notice) \in Nat
    BY <1>1, <2>2, <2>4, ExcessShrinks, ExcessFacts
  <2>6. NewsRowsOK'
    BY <1>1, <2>1, <2>5 DEF NewsRowsOK
  <2>7. News!TypeOK'
    BY <1>1, <2>1, <2>2 DEF News!TypeOK, News!orderVars, Grid
  <2>8. NewsJobsOK' /\ PaidOK' /\ News!BroadcastAddsUp'
    BY <1>1, <2>1 DEF NewsJobsOK, PaidOK, News!BroadcastAddsUp, News!orderVars
  <2> QED
    BY <2>6, <2>7, <2>8 DEF NewsIInv
<1>3. ASSUME UNCHANGED <<News!orderVars, rows, overlaps, history, notice, notices>>, gone' \subseteq Browsers, active' \subseteq News!Users
      PROVE  NewsIInv'
  <2>1. News!TypeOK'
    BY <1>1, <1>3 DEF News!TypeOK, News!orderVars
  <2>2. NewsJobsOK' /\ PaidOK' /\ News!BroadcastAddsUp' /\ NewsRowsOK'
    BY <1>1, <1>3 DEF NewsJobsOK, PaidOK, News!BroadcastAddsUp, NewsRowsOK, News!orderVars
  <2> QED
    BY <2>1, <2>2 DEF NewsIInv
<1>4. gone \subseteq Browsers /\ active \subseteq News!Users
  BY <1>1 DEF News!TypeOK
<1>5. ASSUME NEW b \in Browsers, News!BrowserGone(b) PROVE NewsIInv'
  BY <1>3, <1>4, <1>5 DEF News!BrowserGone
<1>6. ASSUME NEW u \in Accounts, News!SetActive(u) PROVE NewsIInv'
  BY <1>3, <1>4, <1>6 DEF News!SetActive, News!Users
<1>7. CASE UNCHANGED News!vars
  BY <1>3, <1>4, <1>7 DEF News!vars, News!pushVars
<1>8. CASE News!SyncPaymentStatus
  <2>1. /\ ecom = "pending_payment" /\ ecom' = "paid"
        /\ UNCHANGED <<paidMails, racedPaid, replayed, rows, gone, active, overlaps, history, notice, notices>>
    BY <1>8 DEF News!SyncPaymentStatus, News!pushVars
  <2>2. News!TypeOK'
    BY <1>1, <2>1 DEF News!TypeOK, News!Statuses, News!Milestones
  <2>3. NewsJobsOK' /\ News!BroadcastAddsUp' /\ NewsRowsOK'
    BY <1>1, <2>1 DEF NewsJobsOK, News!BroadcastAddsUp, NewsRowsOK
  <2>4. PaidOK'
    <3> DEFINE m == Cardinality(Mails(notice))
    <3>1. m \in Nat /\ paidMails \in Nat /\ racedPaid \in Nat /\ replayed \in Nat
      BY <1>1, Finite DEF News!TypeOK
    <3>2. NewsOne(ecom # "pending_payment") = 0 /\ NewsOne(ecom' # "pending_payment") = 1
      BY <2>1 DEF NewsOne
    <3> HIDE DEF m
    <3>3. paidMails + m <= racedPaid + replayed + 0
      BY <1>1, <3>2 DEF PaidOK, m
    <3>4. paidMails + m <= racedPaid + replayed + 1
      BY <3>1, <3>3
    <3> QED
      BY <2>1, <3>2, <3>4 DEF PaidOK, m
  <2> QED
    BY <2>2, <2>3, <2>4 DEF NewsIInv
<1> QED
  BY <1>2, <1>5, <1>6, <1>7, <1>8

LEMMA NewsNextIInv == ASSUME NoticesAssumed, NewsIInv, [News!Next]_(News!vars) PROVE NewsIInv'
<1>1. ASSUME NEW s \in Slots,
             \/ News!BeginPgNotification(s) \/ News!BeginSetShipping(s) \/ News!BeginConfirmReceived(s)
             \/ \E to \in News!Statuses : News!BeginUpdateStatus(s, to) \/ News!BeginBiteshipWebhook(s, to)
      PROVE  NewsIInv'
  BY <1>1, HandlersKeep
<1>2. ASSUME NEW s \in Slots, NEW ok \in BOOLEAN, News!sendOrderPaidEmail(s, ok) \/ News!SendOrderStatusEmail(s, ok)
      PROVE  NewsIInv'
  BY <1>2, MailsKeep
<1>3. ASSUME NEW s \in Slots, NEW ok \in BOOLEAN, NEW u \in News!Users, NEW b \in Browsers, News!sendPush(s, u, b, ok)
      PROVE  NewsIInv'
  BY <1>3, sendPushKeeps
<1>4. ASSUME NEW s \in Slots, NEW u \in News!Users, NEW b \in Browsers, News!BeginSubscribe(s, u, b)
      PROVE  NewsIInv'
  BY <1>4, BeginSubscribeKeeps
<1>5. ASSUME NEW s \in Slots,
             News!Commit(s) \/ News!CommitSubscribe(s) \/ News!SendToEcomCustomers(s) \/ News!checkAndNotify(s) \/ News!EndPush(s)
      PROVE  NewsIInv'
  BY <1>5, CommitKeeps, CommitSubscribeKeeps, BroadcastsKeep, EndPushKeeps
<1>6. ASSUME \/ \E b \in Browsers : News!Unsubscribe(b) \/ News!BrowserGone(b)
             \/ \E u \in Accounts : News!SetActive(u)
             \/ News!SyncPaymentStatus \/ UNCHANGED News!vars
      PROVE  NewsIInv'
  BY <1>6, NewsOthersKeep
<1> QED
  BY <1>1, <1>2, <1>3, <1>4, <1>5, <1>6 DEF News!Next

LEMMA NewsInitIInv == ASSUME NoticesAssumed, News!Init PROVE NewsIInv
<1>1. /\ rows = News!NoRows /\ overlaps = 0 /\ notice = [s \in Slots |-> News!Idle] /\ ecom = "pending_payment"
      /\ paidMails = 0 /\ racedPaid = 0 /\ replayed = 0 /\ history = News!NoHistory /\ notices = 0
      /\ gone = {} /\ active = News!Users
  BY DEF News!Init
<1>2. News!Idle \in NewsJob /\ (\A n : NewsJobOK(News!Idle, n)) /\ ~InMail(News!Idle) /\ \A b : ~InSub(News!Idle, b)
  BY IdleOK
<1>3. News!NoRows \in Grid /\ \A u \in News!Users, b \in Browsers : News!NoRows[u][b] = 0
  BY DEF News!NoRows, Grid
<1>4. Mails(notice) = {} /\ \A b : Subs(notice, b) = {}
  BY <1>1, <1>2 DEF Mails, Subs
<1>5. Cardinality(Mails(notice)) = 0 /\ \A b : Cardinality(Subs(notice, b)) = 0
  BY <1>4, FS_EmptySet
<1>6. \A b \in Browsers : Col(rows, b) = 0
  <2> SUFFICES ASSUME NEW b \in Browsers PROVE Col(rows, b) = 0
    OBVIOUS
  <2> DEFINE f == [u \in News!Users |-> rows[u][b]]
  <2>1. \A u \in News!Users : f[u] = 0
    BY <1>1, <1>3
  <2> HIDE DEF f
  <2>2. SumOf(f, News!Users) = 0
    BY <2>1, Finite, SumZero
  <2> QED
    BY <2>2 DEF Col, f
<1>7. NewsRowsOK
  <2> DEFINE f == [b \in Browsers |-> Excess(rows, notice, b)]
  <2>1. \A b \in Browsers : f[b] = 0
    BY <1>5, <1>6 DEF Excess, Over
  <2> HIDE DEF f
  <2>2. SumOf(f, Browsers) = 0
    BY <2>1, Finite, SumZero
  <2> QED
    BY <1>1, <2>2 DEF NewsRowsOK, ExcessAll, f
<1>8. PaidOK
  BY <1>1, <1>5 DEF PaidOK, NewsOne
<1>9. NewsJobsOK
  BY <1>1, <1>2 DEF NewsJobsOK
<1>10. News!BroadcastAddsUp
  <2>1. Cardinality(Browsers) \in Nat
    BY Finite
  <2> QED
    BY <1>1, <2>1, OneCount DEF News!BroadcastAddsUp, News!NoHistory
<1>11. News!TypeOK
  <2>1. "pending_payment" \in News!Statuses /\ 0 \in 0..MaxNotices
    BY DEF News!Statuses, NoticesAssumed
  <2>2. notice \in [Slots -> NewsJob]
    BY <1>1, <1>2
  <2>3. history \in [total : Nat, delivered : Nat, failed : Nat] /\ rows \in Grid
    BY <1>1, <1>3 DEF News!NoHistory
  <2>4. ecom \in News!Statuses /\ {paidMails, racedPaid, replayed, overlaps} \subseteq Nat
        /\ gone \subseteq Browsers /\ active \subseteq News!Users /\ notices \in 0..MaxNotices
    BY <1>1, <2>1
  <2> QED
    BY <2>2, <2>3, <2>4 DEF News!TypeOK, NewsJob, Grid
<1> QED
  BY <1>7, <1>8, <1>9, <1>10, <1>11 DEF NewsIInv

LEMMA NewsSays == ASSUME NoticesAssumed, NewsIInv PROVE News!TypeOK /\ News!PaidToldBounded /\ News!CopiesBounded /\ News!BroadcastAddsUp
<1>1. News!TypeOK /\ PaidOK /\ NewsRowsOK /\ News!BroadcastAddsUp /\ rows \in Grid /\ overlaps \in Nat
      /\ paidMails \in Nat /\ racedPaid \in Nat /\ replayed \in Nat
  BY DEF NewsIInv, News!TypeOK, Grid
<1>2. News!PaidToldBounded
  <2> DEFINE m == Cardinality(Mails(notice))
             e == NewsOne(ecom # "pending_payment")
  <2>1. m \in Nat /\ e \in Nat /\ e <= 1 /\ paidMails + m <= racedPaid + replayed + e
    BY <1>1, Finite DEF PaidOK, NewsOne
  <2> HIDE DEF m, e
  <2>2. paidMails <= 1 + racedPaid + replayed
    BY <1>1, <2>1
  <2> QED
    BY <2>2 DEF News!PaidToldBounded
<1>3. ASSUME NEW b \in Browsers PROVE News!Copies(b) <= 1 + overlaps
  <2> DEFINE x == Excess(rows, notice, b)
             y == ExcessAll(rows, notice)
             z == Col(rows, b)
  <2>1. z \in Nat /\ x \in Nat /\ y \in Nat /\ z <= 1 + x /\ x <= y
    BY <1>1, ExcessFacts, GridFacts
  <2>2. y <= overlaps
    BY <1>1 DEF NewsRowsOK
  <2>3. News!Copies(b) = z
    BY CopiesIs
  <2> HIDE DEF x, y, z
  <2> QED
    BY <1>1, <2>1, <2>2, <2>3
<1> QED
  BY <1>1, <1>2, <1>3 DEF News!CopiesBounded

-----------------------------------------------------------------------------
(* The reports.                                                            *)

\* A row as some handler leaves it at time t ...
Legal(r, t) ==
    /\ r.st = "none" <=> r.source = ""
    /\ r.source \in Ledger!Shops <=> r.ecom # ""
    /\ r.st # "none" => r.at \in 0..t
    /\ r.paid \in Ledger!Never..t /\ (r.ecom \in Ledger!Active => r.paid # Ledger!Never)
    /\ r.pays = Ledger!NoPays \/ SumOf(r.pays, Methods) >= r.total
\* ... and as long as the counter keeps to its own orders.
Agrees(r) ==
    r.source \in Ledger!Shops =>
        /\ r.st \in {"completed", "pending", "cancelled"}
        /\ r.pays = Ledger!NoPays
LedgerIInv ==
    /\ Ledger!TypeOK
    /\ \A o \in Orders : Legal(order[o], now)
    /\ ~crossed => \A o \in Orders : Agrees(order[o]) /\ (Ledger!Parted(order[o]) => o \in apart)
DatesStay == \A o \in Orders : order[o].st # "none" => order'[o].at = order[o].at

LEMMA NoPaysIs == Ledger!NoPays \in [Methods -> Nat]
BY DEF Ledger!NoPays

LEMMA SumIsSum == ASSUME NEW f PROVE Ledger!Sum(f) = SumOf(f, DOMAIN f)
<1> DEFINE S == DOMAIN f
           Shows(g) == g = [T \in SUBSET S |->
              IF T = {} THEN 0 ELSE f[CHOOSE x \in T : TRUE] + g[T \ {CHOOSE x \in T : TRUE}]]
<1>1. Ledger!Sum(f) = (CHOOSE g : Shows(g))[S]
  BY DEF Ledger!Sum, Ledger!MapThenSumSet, Ledger!MapThenFoldSet
<1>2. ASSUME NEW g PROVE Shows(g) <=> SumsOf(f, S, g)
  BY DEF SumsOf
<1>3. (CHOOSE g : Shows(g)) = (CHOOSE g : SumsOf(f, S, g))
  <2> HIDE DEF Shows, S
  <2> QED
    BY <1>2
<1> QED
  BY <1>1, <1>3 DEF SumOf

LEMMA NoOrderIs == ASSUME BooksAssumed 
    PROVE  /\ Ledger!NoOrder \in Ledger!Row /\ Ledger!NoOrder.st = "none" /\ Agrees(Ledger!NoOrder) /\ ~Ledger!Parted(Ledger!NoOrder)
           /\ \A t \in Nat : Legal(Ledger!NoOrder, t)
<1>1. Ledger!NoOrder \in Ledger!Row
  <2>1. -1 \in Ledger!Never..LastHalf /\ "" \in Ledger!Ecom /\ 0 \in Nat
    BY DEF Ledger!Never, Ledger!Ecom, BooksAssumed
  <2> QED
    BY <2>1, NoPaysIs DEF Ledger!NoOrder, Ledger!Row, Ledger!Never
<1>2. \A t \in Nat : Ledger!Never \in Ledger!Never..t
  BY DEF Ledger!Never
<1>3. /\ Ledger!NoOrder.st = "none" /\ Ledger!NoOrder.source = "" /\ Ledger!NoOrder.ecom = "" /\ Ledger!NoOrder.paid = Ledger!Never
      /\ Ledger!NoOrder.pays = Ledger!NoPays
  BY DEF Ledger!NoOrder
<1>4. Ledger!NoOrder.source \notin Ledger!Shops /\ Ledger!NoOrder.ecom \notin Ledger!Active
  BY <1>3 DEF Ledger!Shops, Ledger!Active
<1> QED
  BY <1>1, <1>2, <1>3, <1>4 DEF Legal, Agrees, Ledger!Parted

LEMMA ExpenseIs == ASSUME BooksAssumed PROVE Ledger!NoExpense \in [st : {"none", "live"}, day : Ledger!Days, cat : Categories]
<1>1. 0 \in Ledger!Days
  BY DEF Ledger!Days, Ledger!DayOf, BooksAssumed
<1>2. (CHOOSE c \in Categories : TRUE) \in Categories
  BY DEF BooksAssumed
<1> QED
  BY <1>1, <1>2 DEF Ledger!NoExpense

\* An earlier order is legal.
LEMMA EarlierIs ==
    ASSUME BooksAssumed, NEW r, Earlier(r)
    PROVE  r \in Ledger!Row /\ Legal(r, FirstHalf) /\ Agrees(r)
<1>1. r \in Ledger!Row /\ r.st \in {"pending", "completed", "cancelled", "refunded"} /\ DOMAIN r.pays = Methods
  BY DEF Earlier, Ledger!Row
<1>2. Ledger!Sum(r.pays) = SumOf(r.pays, Methods)
  BY <1>1, SumIsSum
<1>3. Legal(r, FirstHalf)
  BY <1>1, <1>2 DEF Earlier, Legal, Ledger!Shops
<1>4. Agrees(r)
  BY <1>1 DEF Earlier, Agrees
<1> QED
  BY <1>1, <1>3, <1>4

LEMMA LedgerInitIInv == ASSUME BooksAssumed, Ledger!Init PROVE LedgerIInv
<1>1. \A o \in Orders : /\ order[o] \in Ledger!Row /\ Legal(order[o], FirstHalf) /\ Agrees(order[o])
                        /\ Ledger!Parted(order[o]) => o \in apart
  <2>1. \A o \in DOMAIN Old : Old[o] \in Ledger!Row /\ Legal(Old[o], FirstHalf) /\ Agrees(Old[o])
    BY EarlierIs DEF BooksAssumed
  <2>2. FirstHalf \in Nat
    BY DEF BooksAssumed
  <2> QED
    BY <2>1, <2>2, NoOrderIs DEF Ledger!Init
<1>2. order \in [Orders -> Ledger!Row]
  BY <1>1 DEF Ledger!Init
<1>3. now = FirstHalf /\ now \in FirstHalf..LastHalf /\ crossed = FALSE /\ price \in PurchasePrices
      /\ apart \subseteq Orders /\ expense = [e \in Expenses |-> Ledger!NoExpense]
  BY DEF Ledger!Init, BooksAssumed
<1>4. Ledger!TypeOK
  BY <1>2, <1>3, ExpenseIs DEF Ledger!TypeOK, Ledger!Row
<1> QED
  BY <1>1, <1>3, <1>4 DEF LedgerIInv

\* One row is written.
LEMMA RowStep ==
    ASSUME BooksAssumed, LedgerIInv, NEW o \in Orders, NEW r \in Ledger!Row, Legal(r, now), order' = [order EXCEPT ![o] = r],
           r.at = order[o].at \/ order[o].st = "none",
           crossed' \in BOOLEAN, ~crossed' => ~crossed /\ Agrees(r) /\ (Ledger!Parted(r) => o \in apart'),
           apart' \subseteq Orders, apart \ {o} \subseteq apart', UNCHANGED <<price, expense, now>>
    PROVE  LedgerIInv' /\ DatesStay
<1>1. order \in [Orders -> Ledger!Row] /\ Ledger!TypeOK /\ \A x \in Orders : Legal(order[x], now)
  BY DEF LedgerIInv, Ledger!TypeOK, Ledger!Row
<1>2. order' \in [Orders -> Ledger!Row] /\ order'[o] = r /\ \A x \in Orders : x # o => order'[x] = order[x]
  BY <1>1
<1>3. Ledger!TypeOK'
  BY <1>1, <1>2 DEF Ledger!TypeOK, Ledger!Row
<1>4. now' = now
  OBVIOUS
<1>5. \A x \in Orders : Legal(order'[x], now)
  BY <1>1, <1>2
<1>6. ~crossed' => \A x \in Orders : Agrees(order'[x]) /\ (Ledger!Parted(order'[x]) => x \in apart')
  BY <1>2 DEF LedgerIInv
<1>7. LedgerIInv'
  BY <1>3, <1>4, <1>5, <1>6 DEF LedgerIInv
<1> QED
  BY <1>2, <1>7 DEF DatesStay

LEMMA SplitIs ==
    ASSUME BooksAssumed, NEW t \in Nat, NEW p, p \in Ledger!Splits(t)
    PROVE  p \in [Methods -> Nat] /\ SumOf(p, Methods) >= t
<1>1. p \in [Methods -> 0..t + MaxChange] /\ Ledger!Sum(p) \in t..t + MaxChange
  BY DEF Ledger!Splits
<1>2. Ledger!Sum(p) = SumOf(p, Methods)
  BY <1>1, SumIsSum
<1> QED
  BY <1>1, <1>2 DEF BooksAssumed

LEMMA LedgerCurrent ==
    ASSUME BooksAssumed, LedgerIInv, NEW o \in Orders
    PROVE  order[o] \in Ledger!Row /\ Legal(order[o], now) /\ (~crossed => Agrees(order[o]) /\ (Ledger!Parted(order[o]) => o \in apart)) /\ order \in [Orders -> Ledger!Row]
           /\ apart \subseteq Orders /\ now \in Nat /\ now \in 0..now /\ now <= LastHalf /\ LastHalf \in Nat /\ price \in Nat /\ price \in PurchasePrices /\ crossed \in BOOLEAN
<1>1. order \in [Orders -> Ledger!Row] /\ price \in PurchasePrices /\ now \in FirstHalf..LastHalf /\ crossed \in BOOLEAN /\ apart \subseteq Orders
  BY DEF LedgerIInv, Ledger!TypeOK, Ledger!Row
<1>2. Legal(order[o], now) /\ (~crossed => Agrees(order[o]) /\ (Ledger!Parted(order[o]) => o \in apart))
  BY DEF LedgerIInv
<1>3. price \in Nat /\ now \in Nat /\ now <= LastHalf /\ LastHalf \in Nat
  BY <1>1 DEF BooksAssumed
<1>4. now \in 0..now
  BY <1>3
<1> QED
  BY <1>1, <1>2, <1>3, <1>4

\* New rows.
LEMMA NewRow ==
    ASSUME BooksAssumed, LedgerIInv, NEW source \in Ledger!Shops \cup {"pos"}, NEW st \in {"pending", "completed"}
    PROVE  /\ Ledger!New(source, st) \in Ledger!Row /\ Ledger!New(source, st).source = source /\ Ledger!New(source, st).st = st
           /\ Ledger!New(source, st).at = now /\ Ledger!New(source, st).ecom = "" /\ Ledger!New(source, st).total = Goods
           /\ Ledger!New(source, st).pays = Ledger!NoPays /\ Ledger!New(source, st).paid = Ledger!Never
<1>1. Ledger!TypeOK
  BY DEF LedgerIInv
<1>2. now \in FirstHalf..LastHalf /\ FirstHalf \in Nat /\ LastHalf \in Nat /\ price \in Nat /\ Goods \in Nat
  BY <1>1 DEF Ledger!TypeOK, BooksAssumed
<1>4. now \in Ledger!Never..LastHalf
  BY <1>2 DEF Ledger!Never
<1>3. Ledger!NoOrder \in Ledger!Row /\ Ledger!NoOrder.ecom = "" /\ Ledger!NoOrder.pays = Ledger!NoPays
      /\ Ledger!NoOrder.paid = Ledger!Never
  BY NoOrderIs DEF Ledger!NoOrder
<1> QED
  BY <1>2, <1>3, <1>4 DEF Ledger!New, Ledger!Row

LEMMA SaleCreateKeeps ==
    ASSUME BooksAssumed, LedgerIInv, NEW o \in Orders, NEW p, Ledger!SaleCreate(o, p)
    PROVE  LedgerIInv' /\ DatesStay
<1> DEFINE n == Ledger!New("pos", "completed")
           r == [n EXCEPT !.pays = p]
<1>1. order[o].st = "none" /\ p \in Ledger!Splits(Goods) /\ order' = [order EXCEPT ![o] = r]
      /\ UNCHANGED <<price, expense, now>> /\ crossed' = crossed /\ apart' = apart
  BY DEF Ledger!SaleCreate, Ledger!Rest
<1>2. n \in Ledger!Row /\ n.source = "pos" /\ n.st = "completed" /\ n.at = now /\ n.ecom = "" /\ n.total = Goods
      /\ n.paid = Ledger!Never
  BY NewRow
<1>3. p \in [Methods -> Nat] /\ SumOf(p, Methods) >= Goods
  BY <1>1, SplitIs DEF BooksAssumed
<1> HIDE DEF n
<1>4. /\ r \in Ledger!Row /\ r.source = "pos" /\ r.st = "completed" /\ r.at = now /\ r.ecom = "" /\ r.total = Goods
      /\ r.pays = p /\ r.paid = Ledger!Never
  BY <1>2, <1>3 DEF Ledger!Row
<1> HIDE DEF r
<1>5. now \in Nat /\ now \in 0..now /\ crossed \in BOOLEAN /\ apart \subseteq Orders /\ Ledger!Never \in Ledger!Never..now
  BY LedgerCurrent DEF Ledger!Never
<1>6. Legal(r, now) /\ Agrees(r) /\ ~Ledger!Parted(r)
  <2>1. r.source \notin Ledger!Shops /\ r.ecom \notin Ledger!Active
    BY <1>4 DEF Ledger!Shops, Ledger!Active
  <2>2. r.at \in 0..now
    BY <1>4, <1>5
  <2> QED
    BY <1>3, <1>4, <1>5, <2>1, <2>2 DEF Legal, Agrees, Ledger!Parted
<1> QED
  BY <1>1, <1>4, <1>5, <1>6, RowStep

LEMMA CreatesKeep ==
    ASSUME BooksAssumed, LedgerIInv, NEW o \in Orders,
           \/ Ledger!CreatePending(o)
           \/ \E ship \in Shipping, source \in Ledger!Shops : Ledger!CreateOrder(o, source, ship)
    PROVE  LedgerIInv' /\ DatesStay
<1>1. now \in Nat /\ now \in 0..now /\ crossed \in BOOLEAN /\ apart \subseteq Orders /\ Ledger!Never \in Ledger!Never..now
  BY LedgerCurrent DEF Ledger!Never
<1>2. CASE Ledger!CreatePending(o)
  <2> DEFINE r == Ledger!New("pos", "pending")
  <2>1. order[o].st = "none" /\ order' = [order EXCEPT ![o] = r]
        /\ UNCHANGED <<price, expense, now>> /\ crossed' = crossed /\ apart' = apart
    BY <1>2 DEF Ledger!CreatePending, Ledger!Rest
  <2>2. r \in Ledger!Row /\ r.source = "pos" /\ r.st = "pending" /\ r.at = now /\ r.ecom = "" /\ r.pays = Ledger!NoPays
        /\ r.paid = Ledger!Never
    BY NewRow
  <2> HIDE DEF r
  <2>3. r.source \notin Ledger!Shops /\ r.ecom \notin Ledger!Active
    BY <2>2 DEF Ledger!Shops, Ledger!Active
  <2>5. r.at \in 0..now
    BY <1>1, <2>2
  <2>4. Legal(r, now) /\ Agrees(r) /\ ~Ledger!Parted(r)
    BY <1>1, <2>2, <2>3, <2>5 DEF Legal, Agrees, Ledger!Parted
  <2> QED
    BY <1>1, <2>1, <2>2, <2>4, RowStep
<1>3. ASSUME NEW ship \in Shipping, NEW source \in Ledger!Shops, Ledger!CreateOrder(o, source, ship)
      PROVE  LedgerIInv' /\ DatesStay
  <2> DEFINE n == Ledger!New(source, "pending")
             r == [n EXCEPT !.ecom = "pending_payment", !.ship = ship, !.total = Goods + ship]
  <2>1. order[o].st = "none" /\ order' = [order EXCEPT ![o] = r]
        /\ UNCHANGED <<price, expense, now>> /\ crossed' = crossed /\ apart' = apart
    BY <1>3 DEF Ledger!CreateOrder, Ledger!Rest
  <2>2. n \in Ledger!Row /\ n.source = source /\ n.st = "pending" /\ n.at = now /\ n.pays = Ledger!NoPays
        /\ n.paid = Ledger!Never
    BY NewRow
  <2>3. ship \in Nat /\ Goods + ship \in Nat /\ "pending_payment" \in Ledger!Ecom
    BY DEF BooksAssumed, Ledger!Ecom
  <2> HIDE DEF n
  <2>4. /\ r \in Ledger!Row /\ r.source = source /\ r.st = "pending" /\ r.at = now /\ r.ecom = "pending_payment"
        /\ r.pays = Ledger!NoPays /\ r.paid = Ledger!Never
    BY <2>2, <2>3 DEF Ledger!Row
  <2> HIDE DEF r
  <2>5. r.source \in Ledger!Shops /\ r.source # "" /\ r.ecom \notin Ledger!Active
    BY <2>4 DEF Ledger!Shops, Ledger!Active
  <2>7. r.at \in 0..now
    BY <1>1, <2>4
  <2>6. Legal(r, now) /\ Agrees(r) /\ ~Ledger!Parted(r)
    BY <1>1, <2>4, <2>5, <2>7 DEF Legal, Agrees, Ledger!Parted
  <2> QED
    BY <1>1, <2>1, <2>4, <2>6, RowStep
<1> QED
  BY <1>2, <1>3

LEMMA Within ==
    ASSUME NEW a \in Nat, NEW b \in Nat, a <= b, NEW x \in Ledger!Never..a
    PROVE  x \in Ledger!Never..b
BY DEF Ledger!Never

\* A handler of the storefront leaves both columns in step, or notes that it did not.
LEMMA StorefrontStep ==
    ASSUME BooksAssumed, LedgerIInv, NEW o \in Orders,
           NEW st \in {"none", "pending", "completed", "cancelled", "refunded"}, NEW e \in Ledger!Ecom \ {""}, NEW paid \in Ledger!Never..now,
           order[o].source \in Ledger!Shops, st = order[o].st \/ st \in {"completed", "cancelled"},
           e \in Ledger!Active => paid # Ledger!Never,
           order' = [order EXCEPT ![o] = [order[o] EXCEPT !.st = st, !.ecom = e, !.paid = paid]],
           apart' \subseteq Orders, apart \ {o} \subseteq apart', ~crossed => o \in apart' \/ (st = "completed" <=> e \in Ledger!Active),
           UNCHANGED <<price, expense, now, crossed>>
    PROVE  LedgerIInv' /\ DatesStay
<1> DEFINE old == order[o]
           r == [old EXCEPT !.st = st, !.ecom = e, !.paid = paid]
<1>1. old \in Ledger!Row /\ Legal(old, now) /\ (~crossed => Agrees(old)) /\ order \in [Orders -> Ledger!Row]
      /\ now \in Nat /\ now <= LastHalf /\ LastHalf \in Nat /\ crossed \in BOOLEAN
  BY LedgerCurrent
<1>2. paid \in Ledger!Never..LastHalf /\ old.source # ""
  <2>1. now \in Nat /\ now <= LastHalf /\ LastHalf \in Nat
    BY <1>1
  <2>2. paid \in Ledger!Never..LastHalf
    BY <2>1, Within
  <2>3. old.source # ""
    BY DEF Ledger!Shops
  <2> QED
    BY <2>2, <2>3
<1>3. /\ r \in Ledger!Row /\ r.source = old.source /\ r.st = st /\ r.at = old.at /\ r.ecom = e
      /\ r.paid = paid /\ r.pays = old.pays /\ r.total = old.total
  BY <1>1, <1>2 DEF Ledger!Row
<1>4. order' = [order EXCEPT ![o] = r] /\ old.source \in Ledger!Shops
      /\ (st = old.st \/ st \in {"completed", "cancelled"})
  OBVIOUS
<1> HIDE DEF r, old
<1>5. old.st # "none"
  BY <1>1, <1>2 DEF Legal
<1>6. Legal(r, now)
  BY <1>1, <1>2, <1>3, <1>4, <1>5 DEF Legal
<1>7. ~crossed => Agrees(r)
  BY <1>1, <1>3, <1>4 DEF Agrees
<1>8. ~crossed => (Ledger!Parted(r) => o \in apart')
  BY <1>3 DEF Ledger!Parted
<1> QED
  BY <1>1, <1>3, <1>4, <1>6, <1>7, <1>8, RowStep DEF old

LEMMA StorefrontKeeps ==
    ASSUME BooksAssumed, LedgerIInv, NEW o \in Orders,
           \/ Ledger!ConfirmPaid(o) \/ Ledger!CancelEcom(o) \/ Ledger!ConfirmReceived(o)
           \/ Ledger!NotifyFailed(o) \/ Ledger!SyncBiteshipStatus(o) \/ Ledger!SetShipping(o)
    PROVE  LedgerIInv' /\ DatesStay
<1> DEFINE old == order[o]
<1>1. old \in Ledger!Row /\ Legal(old, now) /\ (~crossed => (Ledger!Parted(old) => o \in apart)) /\ order \in [Orders -> Ledger!Row]
      /\ now \in Nat /\ apart \subseteq Orders
  BY LedgerCurrent
<1>2. old.st \in {"none", "pending", "completed", "cancelled", "refunded"} /\ old.paid \in Ledger!Never..now
  BY <1>1 DEF Ledger!Row, Legal
<1>3. /\ "paid" \in Ledger!Ecom \ {""} /\ "cancelled" \in Ledger!Ecom \ {""} /\ "completed" \in Ledger!Ecom \ {""}
      /\ "shipped" \in Ledger!Ecom \ {""} /\ "cancelled" \notin Ledger!Active /\ "paid" \in Ledger!Active
      /\ "completed" \in Ledger!Active /\ "shipped" \in Ledger!Active
  BY DEF Ledger!Ecom, Ledger!Active
<1>4. old.ecom # "" => old.source \in Ledger!Shops
  BY <1>1 DEF Legal
<1>5. CASE Ledger!ConfirmPaid(o)
  <2>1. old.source \in Ledger!Shops /\ apart' = apart \ {o} /\ UNCHANGED <<price, expense, now, crossed>>
        /\ order' = [order EXCEPT ![o] = [old EXCEPT !.st = "completed", !.ecom = "paid", !.paid = now]]
    BY <1>1, <1>5 DEF Ledger!ConfirmPaid
  <2>2. now \in Ledger!Never..now /\ now # Ledger!Never
    BY <1>1 DEF Ledger!Never
  <2> QED
    BY <1>1, <1>3, <2>1, <2>2, StorefrontStep
<1>6. CASE Ledger!CancelEcom(o)
  <2>1. old.ecom \in Ledger!Active \cup {"pending_payment"} /\ apart' = apart \ {o} /\ UNCHANGED <<price, expense, now, crossed>>
        /\ order' = [order EXCEPT ![o] = [old EXCEPT !.st = "cancelled", !.ecom = "cancelled", !.paid = old.paid]]
    BY <1>1, <1>6 DEF Ledger!CancelEcom, Ledger!BothColumns, Ledger!Row
  <2>2. old.source \in Ledger!Shops
    BY <1>4, <2>1 DEF Ledger!Active
  <2> QED
    BY <1>1, <1>2, <1>3, <2>1, <2>2, StorefrontStep
<1>7. CASE Ledger!ConfirmReceived(o)
  <2>1. old.source \in Ledger!Shops /\ old.paid # Ledger!Never /\ apart' = apart \ {o} /\ UNCHANGED <<price, expense, now, crossed>>
        /\ order' = [order EXCEPT ![o] = [old EXCEPT !.st = "completed", !.ecom = "completed", !.paid = old.paid]]
    BY <1>1, <1>7 DEF Ledger!ConfirmReceived, Ledger!BothColumns, Ledger!Row
  <2> QED
    BY <1>1, <1>2, <1>3, <2>1, StorefrontStep
<1>8. CASE Ledger!NotifyFailed(o) \/ Ledger!SyncBiteshipStatus(o)
  <2>1. (old.source \in Ledger!Shops \/ old.ecom # "") /\ apart' = apart \cup {o} /\ UNCHANGED <<price, expense, now, crossed>>
        /\ order' = [order EXCEPT ![o] = [old EXCEPT !.st = old.st, !.ecom = "cancelled", !.paid = old.paid]]
    BY <1>1, <1>8 DEF Ledger!NotifyFailed, Ledger!SyncBiteshipStatus, Ledger!Row
  <2> QED
    BY <1>1, <1>2, <1>3, <1>4, <2>1, StorefrontStep
<1>9. CASE Ledger!SetShipping(o)
  <2> DEFINE strays == {x \in {o} : order[o].ecom \notin Ledger!Active}
  <2>1. old.source \in Ledger!Shops /\ old.paid # Ledger!Never /\ apart' = apart \cup strays /\ UNCHANGED <<price, expense, now, crossed>>
        /\ order' = [order EXCEPT ![o] = [old EXCEPT !.st = old.st, !.ecom = "shipped", !.paid = old.paid]]
    BY <1>1, <1>9 DEF Ledger!SetShipping, Ledger!Row
  <2>2. apart' \subseteq Orders /\ apart \ {o} \subseteq apart' /\ (old.ecom \notin Ledger!Active => o \in apart')
    BY <1>1, <2>1
  <2>3. ~crossed => o \in apart' \/ old.st = "completed"
    <3>1. o \in apart => o \in apart'
      BY <2>1
    <3> QED
      BY <1>1, <2>1, <2>2, <3>1 DEF Ledger!Parted
  <2> QED
    BY <1>1, <1>2, <1>3, <2>1, <2>2, <2>3, StorefrontStep
<1> QED
  BY <1>5, <1>6, <1>7, <1>8, <1>9

LEMMA AdjustShippingKeeps ==
    ASSUME BooksAssumed, LedgerIInv, NEW o \in Orders, NEW ship \in Shipping, Ledger!AdjustShipping(o, ship)
    PROVE  LedgerIInv' /\ DatesStay
<1> DEFINE old == order[o]
           r == [old EXCEPT !.ship = ship]
<1>1. old \in Ledger!Row /\ Legal(old, now) /\ (~crossed => Agrees(old) /\ (Ledger!Parted(old) => o \in apart))
      /\ order \in [Orders -> Ledger!Row] /\ crossed \in BOOLEAN /\ apart \subseteq Orders
  BY LedgerCurrent
<1>2. order' = [order EXCEPT ![o] = r] /\ UNCHANGED <<price, expense, now, crossed, apart>>
  BY <1>1 DEF Ledger!AdjustShipping, Ledger!Rest
<1>3. ship \in Nat
  BY DEF BooksAssumed
<1>4. /\ r \in Ledger!Row /\ r.source = old.source /\ r.st = old.st /\ r.at = old.at /\ r.ecom = old.ecom
      /\ r.paid = old.paid /\ r.pays = old.pays /\ r.total = old.total
  BY <1>1, <1>3 DEF Ledger!Row
<1> HIDE DEF r, old
<1>5. Legal(r, now)
  BY <1>1, <1>4 DEF Legal
<1>6. ~crossed => Agrees(r) /\ (Ledger!Parted(r) => o \in apart)
  BY <1>1, <1>4 DEF Agrees, Ledger!Parted
<1> QED
  BY <1>1, <1>2, <1>4, <1>5, <1>6, RowStep DEF old

\* A handler of the counter: of its own orders, or crossed is noted.
LEMMA CounterStep ==
    ASSUME BooksAssumed, LedgerIInv, NEW o \in Orders, NEW st \in {"completed", "cancelled", "refunded"}, NEW p \in [Methods -> Nat],
           order[o].st # "none", p = order[o].pays \/ SumOf(p, Methods) >= order[o].total,
           order' = [order EXCEPT ![o] = [order[o] EXCEPT !.st = st, !.pays = p]],
           Ledger!Cross(o)
    PROVE  LedgerIInv' /\ DatesStay
<1> DEFINE old == order[o]
           r == [old EXCEPT !.st = st, !.pays = p]
<1>1. old \in Ledger!Row /\ Legal(old, now) /\ crossed \in BOOLEAN /\ apart \subseteq Orders
  BY LedgerCurrent
<1>2. /\ r \in Ledger!Row /\ r.source = old.source /\ r.st = st /\ r.at = old.at /\ r.ecom = old.ecom
      /\ r.paid = old.paid /\ r.pays = p /\ r.total = old.total
  BY <1>1 DEF Ledger!Row
<1>3. crossed' \in BOOLEAN /\ (~crossed' => ~crossed /\ old.source \notin Ledger!Shops)
  BY <1>1 DEF Ledger!Cross
<1>4. order' = [order EXCEPT ![o] = r] /\ UNCHANGED <<price, expense, now, apart>>
      /\ old.st # "none" /\ (p = old.pays \/ SumOf(p, Methods) >= old.total)
  BY DEF Ledger!Cross
<1> HIDE DEF r, old
<1>5. Legal(r, now)
  BY <1>1, <1>2, <1>4 DEF Legal
<1>6. ~crossed' => ~crossed /\ Agrees(r) /\ ~Ledger!Parted(r)
  BY <1>2, <1>3 DEF Agrees, Ledger!Parted
<1> QED
  BY <1>1, <1>2, <1>3, <1>4, <1>5, <1>6, RowStep DEF old

LEMMA CounterKeeps ==
    ASSUME BooksAssumed, LedgerIInv, NEW o \in Orders,
           \/ \E p : Ledger!MarkAsPaid(o, p)
           \/ \E p \in [Methods -> Nat] : Ledger!EditPayments(o, p)
           \/ Ledger!CancelOrder(o) \/ Ledger!RefundCreate(o)
    PROVE  LedgerIInv' /\ DatesStay
<1> DEFINE old == order[o]
<1>1. old \in Ledger!Row /\ order \in [Orders -> Ledger!Row]
  BY LedgerCurrent
<1>2. old.total \in Nat /\ old.pays \in [Methods -> Nat]
  BY <1>1 DEF Ledger!Row
<1>3. ASSUME NEW p, Ledger!MarkAsPaid(o, p) PROVE LedgerIInv' /\ DatesStay
  <2>1. old.st = "pending" /\ p \in Ledger!Splits(old.total) /\ Ledger!Cross(o)
        /\ order' = [order EXCEPT ![o] = [old EXCEPT !.st = "completed", !.pays = p]]
    BY <1>1, <1>3 DEF Ledger!MarkAsPaid
  <2>2. p \in [Methods -> Nat] /\ SumOf(p, Methods) >= old.total
    BY <1>2, <2>1, SplitIs
  <2> QED
    BY <2>1, <2>2, CounterStep
<1>4. ASSUME NEW p \in [Methods -> Nat], Ledger!EditPayments(o, p) PROVE LedgerIInv' /\ DatesStay
  <2>1. old.st = "completed" /\ Ledger!Sum(p) = old.total /\ Ledger!Cross(o)
        /\ order' = [order EXCEPT ![o] = [old EXCEPT !.st = "completed", !.pays = p]]
    BY <1>1, <1>4 DEF Ledger!EditPayments, Ledger!Row
  <2>2. SumOf(p, Methods) >= old.total
    BY <1>2, <2>1, SumIsSum
  <2> QED
    BY <2>1, <2>2, CounterStep
<1>5. CASE Ledger!CancelOrder(o)
  <2>1. old.st # "none" /\ Ledger!Cross(o)
        /\ order' = [order EXCEPT ![o] = [old EXCEPT !.st = "cancelled", !.pays = old.pays]]
    BY <1>1, <1>5 DEF Ledger!CancelOrder, Ledger!Row
  <2> QED
    BY <1>2, <2>1, CounterStep
<1>6. CASE Ledger!RefundCreate(o)
  <2>1. old.st # "none" /\ Ledger!Cross(o)
        /\ order' = [order EXCEPT ![o] = [old EXCEPT !.st = "refunded", !.pays = old.pays]]
    BY <1>1, <1>6 DEF Ledger!RefundCreate, Ledger!Row
  <2> QED
    BY <1>2, <2>1, CounterStep
<1> QED
  BY <1>3, <1>4, <1>5, <1>6

LEMMA PaymentsAre == ASSUME BooksAssumed, NEW p \in Ledger!Payments PROVE p \in [Methods -> Nat]
<1>1. PICK ship \in Shipping \cup {0} : p \in Ledger!Splits(Goods + ship)
  BY DEF Ledger!Payments
<1>2. Goods + ship \in Nat
  BY DEF BooksAssumed
<1> QED
  BY <1>1, <1>2, SplitIs

LEMMA LedgerOthersKeep ==
    ASSUME BooksAssumed, LedgerIInv,
           \/ \E e \in Expenses :
                 \/ \E cat \in Categories, d \in Ledger!Days : Ledger!CreateExpense(e, cat, d) \/ Ledger!UpdateExpense(e, cat, d)
                 \/ Ledger!DeleteExpense(e)
           \/ \E p \in PurchasePrices : Ledger!UpdatePrice(p)
           \/ Ledger!Tick \/ UNCHANGED Ledger!vars
    PROVE  LedgerIInv' /\ DatesStay
<1>1. Ledger!TypeOK /\ order \in [Orders -> Ledger!Row]
  BY DEF LedgerIInv, Ledger!TypeOK, Ledger!Row
<1>2. ASSUME UNCHANGED <<order, now, crossed, apart>>, Ledger!TypeOK' PROVE LedgerIInv' /\ DatesStay
  BY <1>2 DEF LedgerIInv, DatesStay
<1>3. ASSUME NEW e \in Expenses, NEW cat \in Categories, NEW d \in Ledger!Days,
             Ledger!CreateExpense(e, cat, d) \/ Ledger!UpdateExpense(e, cat, d)
      PROVE  LedgerIInv' /\ DatesStay
  <2>1. UNCHANGED <<order, price, now, crossed, apart>>
        /\ expense' = [expense EXCEPT ![e] = [st |-> "live", day |-> d, cat |-> cat]]
    BY <1>3 DEF Ledger!CreateExpense, Ledger!UpdateExpense
  <2>2. [st |-> "live", day |-> d, cat |-> cat] \in [st : {"none", "live"}, day : Ledger!Days, cat : Categories]
    OBVIOUS
  <2> QED
    BY <1>1, <1>2, <2>1, <2>2 DEF Ledger!TypeOK
<1>4. ASSUME NEW e \in Expenses, Ledger!DeleteExpense(e) PROVE LedgerIInv' /\ DatesStay
  <2>1. UNCHANGED <<order, price, now, crossed, apart>> /\ expense' = [expense EXCEPT ![e] = Ledger!NoExpense]
    BY <1>4 DEF Ledger!DeleteExpense
  <2> QED
    BY <1>1, <1>2, <2>1, ExpenseIs DEF Ledger!TypeOK
<1>5. ASSUME NEW p \in PurchasePrices, Ledger!UpdatePrice(p) PROVE LedgerIInv' /\ DatesStay
  BY <1>1, <1>2, <1>5 DEF Ledger!TypeOK, Ledger!UpdatePrice
<1>6. CASE UNCHANGED Ledger!vars
  BY <1>1, <1>2, <1>6 DEF Ledger!TypeOK, Ledger!vars
<1>7. CASE Ledger!Tick
  <2>1. UNCHANGED <<order, price, expense, crossed, apart>> /\ now < LastHalf /\ now' = now + 1
    BY <1>7 DEF Ledger!Tick
  <2>2. now \in FirstHalf..LastHalf /\ FirstHalf \in Nat /\ LastHalf \in Nat
    BY <1>1 DEF Ledger!TypeOK, BooksAssumed
  <2>3. now' \in FirstHalf..LastHalf
    BY <2>1, <2>2
  <2>4. Ledger!TypeOK'
    BY <1>1, <2>1, <2>3 DEF Ledger!TypeOK
  <2>5. \A x \in Orders : Legal(order[x], now')
    <3> SUFFICES ASSUME NEW x \in Orders PROVE Legal(order[x], now')
      OBVIOUS
    <3>1. Legal(order[x], now)
      BY DEF LedgerIInv
    <3>2. 0..now \subseteq 0..now' /\ Ledger!Never..now \subseteq Ledger!Never..now'
      BY <2>1, <2>2 DEF Ledger!Never
    <3> QED
      BY <3>1, <3>2 DEF Legal
  <2>6. LedgerIInv'
    BY <2>1, <2>4, <2>5 DEF LedgerIInv
  <2> QED
    BY <2>1, <2>6 DEF DatesStay
<1> QED
  BY <1>3, <1>4, <1>5, <1>6, <1>7

LEMMA LedgerNextIInv == ASSUME BooksAssumed, LedgerIInv, [Ledger!Next]_(Ledger!vars) PROVE LedgerIInv' /\ DatesStay
<1>1. ASSUME NEW o \in Orders, NEW p \in Ledger!Payments, Ledger!SaleCreate(o, p) \/ Ledger!MarkAsPaid(o, p) \/ Ledger!EditPayments(o, p)
      PROVE  LedgerIInv' /\ DatesStay
  BY <1>1, PaymentsAre, SaleCreateKeeps, CounterKeeps
<1>2. ASSUME NEW o \in Orders, NEW ship \in Shipping, Ledger!AdjustShipping(o, ship)
      PROVE  LedgerIInv' /\ DatesStay
  BY <1>2, AdjustShippingKeeps
<1>3. ASSUME NEW o \in Orders, NEW ship \in Shipping, NEW source \in Ledger!Shops, Ledger!CreateOrder(o, source, ship)
      PROVE  LedgerIInv' /\ DatesStay
  BY <1>3, CreatesKeep
<1>4. ASSUME NEW o \in Orders,
             \/ Ledger!CreatePending(o) \/ Ledger!ConfirmPaid(o) \/ Ledger!CancelEcom(o) \/ Ledger!ConfirmReceived(o)
             \/ Ledger!NotifyFailed(o) \/ Ledger!SyncBiteshipStatus(o) \/ Ledger!SetShipping(o)
             \/ Ledger!CancelOrder(o) \/ Ledger!RefundCreate(o)
      PROVE  LedgerIInv' /\ DatesStay
  BY <1>4, CreatesKeep, StorefrontKeeps, CounterKeeps
<1>5. ASSUME \/ \E e \in Expenses :
                   \/ \E cat \in Categories, d \in Ledger!Days : Ledger!CreateExpense(e, cat, d) \/ Ledger!UpdateExpense(e, cat, d)
                   \/ Ledger!DeleteExpense(e)
             \/ \E p \in PurchasePrices : Ledger!UpdatePrice(p)
             \/ Ledger!Tick \/ UNCHANGED Ledger!vars
      PROVE  LedgerIInv' /\ DatesStay
  BY <1>5, LedgerOthersKeep
<1> QED
  BY <1>1, <1>2, <1>3, <1>4, <1>5 DEF Ledger!Next

\* What the reports add up.
Money == [o \in Orders |-> order[o].total]
Net == [o \in Orders |-> order[o].total - order[o].ship]
Costs == [o \in Orders |-> order[o].cost]
Paid(m) == [o \in Orders |-> IF order[o].pays # Ledger!NoPays THEN order[o].pays[m]
                             ELSE IF m = Online THEN order[o].total ELSE 0]
LedgerDone(from, to, source) == Ledger!FindCompletedForAggregate(from, to, source)
Last == Ledger!DayOf(LastHalf)
OnDay(S) == [o \in S |-> Ledger!DayOf(order[o].at)]

LEMMA TotalIs == ASSUME NEW os, os \subseteq Orders PROVE Ledger!Total(os) = SumOf(Money, os)
<1> DEFINE Shows(g) == g = [T \in SUBSET os |->
              IF T = {} THEN 0
              ELSE order[(CHOOSE x \in T : TRUE)].total + g[T \ {CHOOSE x \in T : TRUE}]]
<1>1. Ledger!Total(os) = (CHOOSE g : Shows(g))[os]
  BY DEF Ledger!Total, Ledger!MapThenSumSet, Ledger!MapThenFoldSet
<1>2. ASSUME NEW T \in SUBSET os, T # {}
      PROVE  order[(CHOOSE x \in T : TRUE)].total = Money[CHOOSE x \in T : TRUE]
  <2>1. (CHOOSE x \in T : TRUE) \in T /\ (CHOOSE x \in T : TRUE) \in os
    BY <1>2
  <2> QED
    BY <2>1 DEF Money
<1>3. ASSUME NEW g PROVE Shows(g) <=> SumsOf(Money, os, g)
  BY <1>2 DEF SumsOf
<1>4. (CHOOSE g : Shows(g)) = (CHOOSE g : SumsOf(Money, os, g))
  <2> HIDE DEF Shows
  <2> QED
    BY <1>3
<1> QED
  BY <1>1, <1>4 DEF SumOf

LEMMA BreakdownIs == ASSUME NEW os, os \subseteq Orders, NEW m PROVE Ledger!PaymentBreakdown(os, m) = SumOf(Paid(m), os)
<1> DEFINE paid(o) == IF order[o].pays # Ledger!NoPays THEN order[o].pays[m]
                      ELSE IF m = Online THEN order[o].total ELSE 0
<1> DEFINE Shows(g) == g = [T \in SUBSET os |->
              IF T = {} THEN 0
              ELSE paid((CHOOSE x \in T : TRUE)) + g[T \ {CHOOSE x \in T : TRUE}]]
<1>1. Ledger!PaymentBreakdown(os, m) = (CHOOSE g : Shows(g))[os]
  BY DEF Ledger!PaymentBreakdown, Ledger!MapThenSumSet, Ledger!MapThenFoldSet
<1>2. ASSUME NEW T \in SUBSET os, T # {}
      PROVE  paid((CHOOSE x \in T : TRUE)) = Paid(m)[CHOOSE x \in T : TRUE]
  <2>1. (CHOOSE x \in T : TRUE) \in T /\ (CHOOSE x \in T : TRUE) \in os
    BY <1>2
  <2> QED
    BY <2>1 DEF Paid
<1>3. ASSUME NEW g PROVE Shows(g) <=> SumsOf(Paid(m), os, g)
  BY <1>2 DEF SumsOf
<1>4. (CHOOSE g : Shows(g)) = (CHOOSE g : SumsOf(Paid(m), os, g))
  <2> HIDE DEF Shows
  <2> QED
    BY <1>3
<1> QED
  BY <1>1, <1>4 DEF SumOf

LEMMA NetIs ==
    ASSUME NEW os, os \subseteq Orders
    PROVE  Ledger!MapThenSumSet(LAMBDA o : order[o].total - order[o].ship, os) = SumOf(Net, os)
<1> DEFINE net(o) == order[o].total - order[o].ship
<1> DEFINE Shows(g) == g = [T \in SUBSET os |->
              IF T = {} THEN 0
              ELSE net((CHOOSE x \in T : TRUE)) + g[T \ {CHOOSE x \in T : TRUE}]]
<1>1. Ledger!MapThenSumSet(LAMBDA o : order[o].total - order[o].ship, os) = (CHOOSE g : Shows(g))[os]
  BY DEF Ledger!MapThenSumSet, Ledger!MapThenFoldSet
<1>2. ASSUME NEW T \in SUBSET os, T # {}
      PROVE  net((CHOOSE x \in T : TRUE)) = Net[CHOOSE x \in T : TRUE]
  <2>1. (CHOOSE x \in T : TRUE) \in T /\ (CHOOSE x \in T : TRUE) \in os
    BY <1>2
  <2> QED
    BY <2>1 DEF Net
<1>3. ASSUME NEW g PROVE Shows(g) <=> SumsOf(Net, os, g)
  BY <1>2 DEF SumsOf
<1>4. (CHOOSE g : Shows(g)) = (CHOOSE g : SumsOf(Net, os, g))
  <2> HIDE DEF Shows
  <2> QED
    BY <1>3
<1> QED
  BY <1>1, <1>4 DEF SumOf

LEMMA CostsIs == ASSUME NEW os, os \subseteq Orders PROVE Ledger!MapThenSumSet(Ledger!CostOf, os) = SumOf(Costs, os)
<1> DEFINE Shows(g) == g = [T \in SUBSET os |->
              IF T = {} THEN 0
              ELSE order[(CHOOSE x \in T : TRUE)].cost + g[T \ {CHOOSE x \in T : TRUE}]]
<1>1. Ledger!MapThenSumSet(Ledger!CostOf, os) = (CHOOSE g : Shows(g))[os]
  BY DEF Ledger!CostOf, Ledger!MapThenSumSet, Ledger!MapThenFoldSet
<1>2. ASSUME NEW T \in SUBSET os, T # {}
      PROVE  order[(CHOOSE x \in T : TRUE)].cost = Costs[CHOOSE x \in T : TRUE]
  <2>1. (CHOOSE x \in T : TRUE) \in T /\ (CHOOSE x \in T : TRUE) \in os
    BY <1>2
  <2> QED
    BY <2>1 DEF Costs
<1>3. ASSUME NEW g PROVE Shows(g) <=> SumsOf(Costs, os, g)
  BY <1>2 DEF SumsOf
<1>4. (CHOOSE g : Shows(g)) = (CHOOSE g : SumsOf(Costs, os, g))
  <2> HIDE DEF Shows
  <2> QED
    BY <1>3
<1> QED
  BY <1>1, <1>4 DEF SumOf

LEMMA ChannelIs == ASSUME NEW m PROVE Ledger!Channel(m) = SumOf([o \in Orders |-> order[o].pays[m]], Ledger!ChartOrders)
<1> DEFINE f == [o \in Orders |-> order[o].pays[m]]
<1>0. Ledger!ChartOrders \subseteq Orders
  BY DEF Ledger!ChartOrders, Ledger!Storefront
<1> DEFINE Shows(g) == g = [T \in SUBSET Ledger!ChartOrders |->
              IF T = {} THEN 0
              ELSE order[(CHOOSE x \in T : TRUE)].pays[m] + g[T \ {CHOOSE x \in T : TRUE}]]
<1>1. Ledger!Channel(m) = (CHOOSE g : Shows(g))[Ledger!ChartOrders]
  BY DEF Ledger!Channel, Ledger!MapThenSumSet, Ledger!MapThenFoldSet
<1>2. ASSUME NEW T \in SUBSET Ledger!ChartOrders, T # {}
      PROVE  order[(CHOOSE x \in T : TRUE)].pays[m] = f[CHOOSE x \in T : TRUE]
  <2>1. (CHOOSE x \in T : TRUE) \in T /\ (CHOOSE x \in T : TRUE) \in Ledger!ChartOrders
    BY <1>2
  <2> QED
    BY <2>1, <1>0
<1>3. ASSUME NEW g PROVE Shows(g) <=> SumsOf(f, Ledger!ChartOrders, g)
  BY <1>2 DEF SumsOf
<1>4. (CHOOSE g : Shows(g)) = (CHOOSE g : SumsOf(f, Ledger!ChartOrders, g))
  <2> HIDE DEF Shows
  <2> QED
    BY <1>3
<1> QED
  BY <1>1, <1>4 DEF SumOf

LEMMA ProfitIs ==
    ASSUME NEW a, NEW b, NEW s
    PROVE  Ledger!ProfitLoss(a, b, s).net = SumOf(Net, LedgerDone(a, b, s)) - SumOf(Costs, LedgerDone(a, b, s)) - Ledger!SumTotal(a, b)
<1>1. LedgerDone(a, b, s) \subseteq Orders
  BY DEF LedgerDone, Ledger!FindCompletedForAggregate
<1> QED
  BY <1>1, NetIs, CostsIs DEF Ledger!ProfitLoss, LedgerDone

LEMMA RowFacts ==
    ASSUME BooksAssumed, LedgerIInv, NEW o \in Orders
    PROVE  /\ Money[o] \in Nat /\ Net[o] \in Int /\ Costs[o] \in Nat
           /\ \A m \in Methods : Paid(m)[o] \in Nat /\ order[o].pays[m] \in Nat
           /\ order[o].st = "completed" => Ledger!DayOf(order[o].at) \in Ledger!Days /\ order[o].source \in Ledger!Shops \cup {"pos"}
<1>1. order[o] \in Ledger!Row /\ Legal(order[o], now) /\ now \in Nat /\ now <= LastHalf /\ LastHalf \in Nat
  BY LedgerCurrent
<1>2. /\ order[o].total \in Nat /\ order[o].ship \in Nat /\ order[o].cost \in Nat
      /\ order[o].source \in Ledger!Shops \cup {"", "pos"} /\ \A m \in Methods : order[o].pays[m] \in Nat
  BY <1>1 DEF Ledger!Row
<1>3. ASSUME order[o].st = "completed"
      PROVE  Ledger!DayOf(order[o].at) \in Ledger!Days /\ order[o].source \in Ledger!Shops \cup {"pos"}
  <2>1. order[o].at \in 0..now /\ order[o].source # ""
    BY <1>1, <1>3 DEF Legal
  <2> DEFINE t == order[o].at
  <2>5. t \in 0..now
    BY <2>1
  <2> HIDE DEF t
  <2>2. t \in Int /\ 0 <= t /\ t <= LastHalf
    BY <1>1, <2>5
  <2>3. t \div 2 \in 0..(LastHalf \div 2)
    BY <1>1, <2>2
  <2>4. Ledger!DayOf(order[o].at) \in Ledger!Days
    BY <2>3 DEF Ledger!DayOf, Ledger!Days, t
  <2> QED
    BY <1>2, <2>1, <2>4
<1>4. \A m \in Methods : Paid(m)[o] \in Nat
  BY <1>2 DEF Paid
<1>5. Money[o] = order[o].total /\ Net[o] = order[o].total - order[o].ship /\ Costs[o] = order[o].cost
  BY DEF Money, Net, Costs
<1>6. order[o].total - order[o].ship \in Int
  <2> DEFINE x == order[o].total
             y == order[o].ship
  <2>1. x \in Nat /\ y \in Nat
    BY <1>2
  <2> HIDE DEF x, y
  <2>2. x - y \in Int
    BY <2>1
  <2> QED
    BY <2>2 DEF x, y
<1> QED
  BY <1>2, <1>3, <1>4, <1>5, <1>6

LEMMA DaysFinite == ASSUME BooksAssumed PROVE IsFiniteSet(Ledger!Days) /\ Ledger!Days \subseteq Int /\ Ledger!Days = 0..Last /\ Last \in Int
<1>1. LastHalf \div 2 \in Int
  BY DEF BooksAssumed
<1> QED
  BY <1>1, FS_Interval DEF Ledger!Days, Ledger!DayOf, Last

LEMMA DoneFacts ==
    ASSUME BooksAssumed, LedgerIInv
    PROVE  /\ Ledger!Completed \subseteq Orders /\ IsFiniteSet(Ledger!Completed)
           /\ LedgerDone(0, Last, "") = Ledger!Completed
           /\ Ledger!Completed = LedgerDone(0, Last, "store") \cup LedgerDone(0, Last, "home")
           /\ LedgerDone(0, Last, "store") \cap LedgerDone(0, Last, "home") = {}
           /\ \A d \in Ledger!Days : LedgerDone(d, d, "") = {o \in Ledger!Completed : OnDay(Ledger!Completed)[o] = d}
           /\ \A o \in Ledger!Completed : OnDay(Ledger!Completed)[o] \in Ledger!Days
<1>1. Ledger!Completed \subseteq Orders /\ IsFiniteSet(Ledger!Completed)
  BY FS_Subset DEF Ledger!Completed, BooksAssumed
<1>2. \A o \in Ledger!Completed : order[o].st = "completed" /\ Ledger!DayOf(order[o].at) \in Ledger!Days
                          /\ order[o].source \in Ledger!Shops \cup {"pos"}
  BY RowFacts DEF Ledger!Completed
<1>3. Ledger!Days = 0..Last /\ Ledger!Days \subseteq Int
  BY DaysFinite
<1>4. LedgerDone(0, Last, "") = Ledger!Completed
  BY <1>2, <1>3 DEF LedgerDone, Ledger!FindCompletedForAggregate, Ledger!Completed, Ledger!OfSource
<1>5. LedgerDone(0, Last, "store") = {o \in Ledger!Completed : order[o].source \in {"pos", "ecom"}}
  BY <1>2, <1>3 DEF LedgerDone, Ledger!FindCompletedForAggregate, Ledger!Completed, Ledger!OfSource
<1>6. LedgerDone(0, Last, "home") = {o \in Ledger!Completed : order[o].source = "home"}
  BY <1>2, <1>3 DEF LedgerDone, Ledger!FindCompletedForAggregate, Ledger!Completed, Ledger!OfSource
<1>7. ASSUME NEW d \in Ledger!Days PROVE LedgerDone(d, d, "") = {o \in Ledger!Completed : OnDay(Ledger!Completed)[o] = d}
  <2>1. d \in Int /\ \A e \in Ledger!Days : e \in d..d <=> e = d
    BY <1>3
  <2>2. LedgerDone(d, d, "") = {o \in Ledger!Completed : Ledger!DayOf(order[o].at) \in d..d}
    BY DEF LedgerDone, Ledger!FindCompletedForAggregate, Ledger!Completed, Ledger!OfSource
  <2>3. \A o \in Ledger!Completed : OnDay(Ledger!Completed)[o] = Ledger!DayOf(order[o].at)
    BY DEF OnDay
  <2> QED
    BY <1>2, <2>1, <2>2, <2>3
<1>8. Ledger!Completed = LedgerDone(0, Last, "store") \cup LedgerDone(0, Last, "home")
  BY <1>2, <1>5, <1>6 DEF Ledger!Shops
<1>9. LedgerDone(0, Last, "store") \cap LedgerDone(0, Last, "home") = {}
  BY <1>5, <1>6
<1> QED
  BY <1>1, <1>2, <1>4, <1>7, <1>8, <1>9 DEF OnDay

\* The shops, the days, the methods.
LEMMA ShopsAddUp ==
    ASSUME BooksAssumed, LedgerIInv, NEW f, \A o \in Orders : f[o] \in Int
    PROVE  SumOf(f, Ledger!Completed) = SumOf(f, LedgerDone(0, Last, "store")) + SumOf(f, LedgerDone(0, Last, "home"))
<1> DEFINE A == LedgerDone(0, Last, "store")
           B == LedgerDone(0, Last, "home")
<1>1. Ledger!Completed = A \cup B /\ A \cap B = {} /\ IsFiniteSet(Ledger!Completed) /\ Ledger!Completed \subseteq Orders
  BY DoneFacts
<1> HIDE DEF A, B
<1>2. IsFiniteSet(A \cup B) /\ \A x \in A \cup B : f[x] \in Int
  BY <1>1
<1>3. SumOf(f, A \cup B) = SumOf(f, A) + SumOf(f, B)
  BY <1>1, <1>2, SumJoin
<1> QED
  BY <1>1, <1>3 DEF A, B

LEMMA DaysAddUp ==
    ASSUME BooksAssumed, LedgerIInv, NEW f, \A o \in Orders : f[o] \in Int
    PROVE  /\ SumOf(f, Ledger!Completed) = SumOf([d \in Ledger!Days |-> SumOf(f, LedgerDone(d, d, ""))], Ledger!Days)
           /\ \A d \in Ledger!Days : SumOf(f, LedgerDone(d, d, "")) \in Int
<1> DEFINE k == OnDay(Ledger!Completed)
           S == Ledger!Completed
           R == Ledger!Days
           cls == [d \in R |-> SumOf(f, {o \in S : k[o] = d})]
           daily == [d \in R |-> SumOf(f, LedgerDone(d, d, ""))]
<1>1. IsFiniteSet(S) /\ IsFiniteSet(R) /\ (\A o \in S : f[o] \in Int) /\ \A o \in S : k[o] \in R
  BY DoneFacts, DaysFinite
<1>2. \A d \in R : LedgerDone(d, d, "") = {o \in S : k[o] = d}
  BY DoneFacts
<1> HIDE DEF S, R, k
<1>3. SumOf(f, S) = SumOf(cls, R)
  BY <1>1, SumByClass
<1>4. \A d \in R : daily[d] = cls[d]
  BY <1>2
<1>5. SumOf(daily, R) = SumOf(cls, R)
  <2> HIDE DEF daily, cls
  <2> QED
    BY <1>4, SumSame
<1>6. ASSUME NEW d \in R PROVE SumOf(f, LedgerDone(d, d, "")) \in Int
  <2> DEFINE T == {o \in S : k[o] = d}
  <2>1. IsFiniteSet(T) /\ \A o \in T : f[o] \in Int
    BY <1>1, FS_Subset
  <2> HIDE DEF T
  <2>2. SumOf(f, T) \in Int
    BY <2>1, SumStep
  <2> QED
    BY <1>2, <2>2 DEF T
<1> QED
  BY <1>3, <1>5, <1>6 DEF S, R

LEMMA WholeIs ==
    ASSUME BooksAssumed, LedgerIInv
    PROVE  /\ Ledger!Aggregate(0, Last, "").revenue = SumOf(Money, Ledger!Completed)
           /\ Ledger!Aggregate(0, Last, "store").revenue = SumOf(Money, LedgerDone(0, Last, "store"))
           /\ Ledger!Aggregate(0, Last, "home").revenue = SumOf(Money, LedgerDone(0, Last, "home"))
           /\ \A d \in Ledger!Days : Ledger!Aggregate(d, d, "").revenue = SumOf(Money, LedgerDone(d, d, ""))
           /\ Ledger!Aggregate(0, Last, "").orders = Cardinality(Ledger!Completed)
           /\ DOMAIN Ledger!Aggregate(0, Last, "").payments = Methods
           /\ \A m \in Methods :
                 /\ Ledger!Aggregate(0, Last, "").payments[m] = SumOf(Paid(m), Ledger!Completed)
                 /\ Ledger!Aggregate(0, Last, "store").payments[m] = SumOf(Paid(m), LedgerDone(0, Last, "store"))
                 /\ Ledger!Aggregate(0, Last, "home").payments[m] = SumOf(Paid(m), LedgerDone(0, Last, "home"))
<1>1. \A a, b, s : LedgerDone(a, b, s) \subseteq Orders
  BY DEF LedgerDone, Ledger!FindCompletedForAggregate
<1>2. \A a, b, s : Ledger!Aggregate(a, b, s).revenue = SumOf(Money, LedgerDone(a, b, s))
  BY <1>1, TotalIs DEF Ledger!Aggregate, LedgerDone
<1>3. \A a, b, s : Ledger!Aggregate(a, b, s).orders = Cardinality(LedgerDone(a, b, s))
  BY OneCount DEF Ledger!Aggregate, LedgerDone
<1>4. ASSUME NEW a, NEW b, NEW s, NEW m \in Methods
      PROVE  Ledger!Aggregate(a, b, s).payments[m] = SumOf(Paid(m), LedgerDone(a, b, s))
  <2>1. Ledger!Aggregate(a, b, s).payments = [n \in Methods |-> Ledger!PaymentBreakdown(LedgerDone(a, b, s), n)]
    BY DEF Ledger!Aggregate, LedgerDone
  <2>2. Ledger!PaymentBreakdown(LedgerDone(a, b, s), m) = SumOf(Paid(m), LedgerDone(a, b, s))
    BY <1>1, BreakdownIs
  <2> QED
    BY <2>1, <2>2
<1>5. DOMAIN Ledger!Aggregate(0, Last, "").payments = Methods
  BY DEF Ledger!Aggregate
<1>6. LedgerDone(0, Last, "") = Ledger!Completed
  BY DoneFacts
<1>7. \A m \in Methods :
         /\ Ledger!Aggregate(0, Last, "").payments[m] = SumOf(Paid(m), Ledger!Completed)
         /\ Ledger!Aggregate(0, Last, "store").payments[m] = SumOf(Paid(m), LedgerDone(0, Last, "store"))
         /\ Ledger!Aggregate(0, Last, "home").payments[m] = SumOf(Paid(m), LedgerDone(0, Last, "home"))
  BY <1>4, <1>6
<1>8. /\ Ledger!Aggregate(0, Last, "").revenue = SumOf(Money, Ledger!Completed)
      /\ Ledger!Aggregate(0, Last, "store").revenue = SumOf(Money, LedgerDone(0, Last, "store"))
      /\ Ledger!Aggregate(0, Last, "home").revenue = SumOf(Money, LedgerDone(0, Last, "home"))
      /\ \A d \in Ledger!Days : Ledger!Aggregate(d, d, "").revenue = SumOf(Money, LedgerDone(d, d, ""))
  BY <1>2, <1>6
<1>9. Ledger!Aggregate(0, Last, "").orders = Cardinality(Ledger!Completed)
  BY <1>3, <1>6
<1> QED
  BY <1>5, <1>7, <1>8, <1>9

\* What was paid covers the total: split rows are checked against it, an order
\* without them was paid whole.
LEMMA MethodsCover ==
    ASSUME BooksAssumed, LedgerIInv
    PROVE  SumOf([m \in Methods |-> SumOf(Paid(m), Ledger!Completed)], Methods) >= SumOf(Money, Ledger!Completed)
<1> DEFINE S == Ledger!Completed
           p == [o \in S |-> [m \in Methods |-> Paid(m)[o]]]
           row == [o \in S |-> SumOf(p[o], Methods)]
           col == [m \in Methods |-> SumOf([o \in S |-> p[o][m]], S)]
           want == [m \in Methods |-> SumOf(Paid(m), Ledger!Completed)]
<1>1. IsFiniteSet(S) /\ IsFiniteSet(Methods) /\ S \subseteq Orders /\ Online \in Methods
  BY DoneFacts DEF BooksAssumed
<1>2. \A o \in S, m \in Methods : p[o][m] \in Nat /\ p[o][m] \in Int /\ p[o][m] = Paid(m)[o]
  BY <1>1, RowFacts
<1>3. \A o \in S : p[o] = [m \in Methods |-> Paid(m)[o]]
  OBVIOUS
<1> HIDE DEF p
<1>4. SumOf(row, S) = SumOf(col, Methods)
  <2> HIDE DEF S
  <2> QED
    BY <1>1, <1>2, SumSwap
<1>5. ASSUME NEW m \in Methods PROVE col[m] = want[m]
  <2> DEFINE f == [o \in S |-> p[o][m]]
  <2>1. \A o \in S : f[o] = Paid(m)[o]
    BY <1>2
  <2> HIDE DEF f
  <2>2. SumOf(f, S) = SumOf(Paid(m), S)
    BY <2>1, SumSame
  <2> QED
    BY <2>2 DEF f
<1>6. SumOf(col, Methods) = SumOf(want, Methods)
  <2> HIDE DEF col, want
  <2> QED
    BY <1>5, SumSame
<1>7. ASSUME NEW o \in S PROVE row[o] \in Int /\ Money[o] \in Int /\ Money[o] <= row[o]
  <2> DEFINE q == p[o]
  <2>1. o \in Orders /\ Money[o] \in Nat /\ Money[o] = order[o].total /\ Legal(order[o], now)
        /\ order[o].pays \in [Methods -> Nat] /\ order[o].total \in Nat
    BY <1>1, RowFacts, LedgerCurrent DEF Money, Ledger!Row
  <2>2. row[o] = SumOf(q, Methods) /\ \A m \in Methods : q[m] \in Nat
    BY <1>2
  <2>3. SumOf(q, Methods) \in Nat
    BY <1>1, <2>2, SumNat
  <2>4. CASE order[o].pays # Ledger!NoPays
    <3>1. \A m \in Methods : q[m] = order[o].pays[m]
      BY <1>2, <2>1, <2>4 DEF Paid
    <3> HIDE DEF q
    <3>2. SumOf(q, Methods) = SumOf(order[o].pays, Methods)
      BY <3>1, SumSame
    <3>3. SumOf(order[o].pays, Methods) >= order[o].total
      BY <2>1, <2>4 DEF Legal
    <3> QED
      BY <2>1, <2>2, <2>3, <3>2, <3>3
  <2>5. CASE order[o].pays = Ledger!NoPays
    <3> DEFINE z == [m \in Methods |-> 0]
    <3>1. \A m \in Methods : q[m] = IF m = Online THEN order[o].total ELSE 0
      BY <1>2, <2>1, <2>5 DEF Paid
    <3>2. (\A m \in Methods : z[m] = 0 /\ z[m] \in Int) /\ q[Online] = order[o].total /\ q[Online] \in Int
          /\ \A m \in Methods : m # Online => q[m] = z[m]
      BY <1>1, <2>1, <3>1
    <3> HIDE DEF q, z
    <3>3. SumOf(q, Methods) = SumOf(z, Methods) + q[Online] - z[Online]
      BY <1>1, <3>2, SumPoint
    <3>4. SumOf(z, Methods) = 0
      BY <1>1, <3>2, SumZero
    <3>5. SumOf(q, Methods) = q[Online]
      BY <1>1, <3>2, <3>3, <3>4
    <3> QED
      BY <2>1, <2>2, <2>3, <3>2, <3>5
  <2> QED
    BY <2>4, <2>5
<1>8. SumOf(Money, S) <= SumOf(row, S) /\ SumOf(Money, S) \in Int /\ SumOf(row, S) \in Int
  <2> HIDE DEF S, row
  <2> QED
    BY <1>1, <1>7, SumLess
<1> QED
  BY <1>4, <1>6, <1>8

LEMMA RevenueByDay ==
    ASSUME BooksAssumed, LedgerIInv
    PROVE  Ledger!Aggregate(0, Last, "").revenue = Ledger!MapThenSumSet(LAMBDA d : Ledger!Aggregate(d, d, "").revenue, Ledger!Days)
<1> DEFINE f == [d \in Ledger!Days |-> Ledger!Aggregate(d, d, "").revenue]
           h == [d \in Ledger!Days |-> SumOf(Money, LedgerDone(d, d, ""))]
           rev(d) == Ledger!Aggregate(d, d, "").revenue
<1>1. Ledger!MapThenSumSet(LAMBDA d : Ledger!Aggregate(d, d, "").revenue, Ledger!Days) = SumOf(f, Ledger!Days)
  <2> DEFINE Shows(g) == g = [T \in SUBSET Ledger!Days |->
                IF T = {} THEN 0
                ELSE rev((CHOOSE x \in T : TRUE)) + g[T \ {CHOOSE x \in T : TRUE}]]
  <2>1. Ledger!MapThenSumSet(LAMBDA d : Ledger!Aggregate(d, d, "").revenue, Ledger!Days) = (CHOOSE g : Shows(g))[Ledger!Days]
    BY DEF Ledger!MapThenSumSet, Ledger!MapThenFoldSet
  <2>2. ASSUME NEW T \in SUBSET Ledger!Days, T # {}
        PROVE  rev((CHOOSE x \in T : TRUE)) = f[CHOOSE x \in T : TRUE]
    <3>1. (CHOOSE x \in T : TRUE) \in T /\ (CHOOSE x \in T : TRUE) \in Ledger!Days
      BY <2>2
    <3> QED
      BY <3>1
  <2>3. ASSUME NEW g PROVE Shows(g) <=> SumsOf(f, Ledger!Days, g)
    BY <2>2 DEF SumsOf
  <2>4. (CHOOSE g : Shows(g)) = (CHOOSE g : SumsOf(f, Ledger!Days, g))
    <3> HIDE DEF Shows
    <3> QED
      BY <2>3
  <2> QED
    BY <2>1, <2>4 DEF SumOf

<1>2. SumOf(f, Ledger!Days) = SumOf(h, Ledger!Days)
  <2>1. \A d \in Ledger!Days : f[d] = h[d]
    BY WholeIs
  <2> HIDE DEF f, h
  <2> QED
    BY <2>1, SumSame
<1>3. SumOf(Money, Ledger!Completed) = SumOf(h, Ledger!Days)
  <2>1. \A o \in Orders : Money[o] \in Int
    BY RowFacts
  <2> QED
    BY <2>1, DaysAddUp
<1> QED
  BY <1>1, <1>2, <1>3, WholeIs

\* Expenses.
LedgerLive == {e \in Expenses : expense[e].st = "live"}
LEMMA ExpenseFacts ==
    ASSUME BooksAssumed, LedgerIInv
    PROVE  /\ IsFiniteSet(LedgerLive)
           /\ Ledger!SumTotal(0, Last) = Cardinality(LedgerLive)
           /\ Ledger!SumTotal(0, Last) = SumOf([d \in Ledger!Days |-> Ledger!SumTotal(d, d)], Ledger!Days)
           /\ \A d \in Ledger!Days : Ledger!SumTotal(d, d) \in Int
           /\ Ledger!SumTotal(0, Last) = SumOf([c \in Categories |-> Ledger!SumByCategory(0, Last, c)], Categories)
<1> DEFINE S == LedgerLive
           k == [e \in S |-> expense[e].day]
           j == [e \in S |-> expense[e].cat]
           byDay == [d \in Ledger!Days |-> Cardinality({e \in S : k[e] = d})]
           byCat == [c \in Categories |-> Cardinality({e \in S : j[e] = c})]
           f == [d \in Ledger!Days |-> Ledger!SumTotal(d, d)]
           h == [c \in Categories |-> Ledger!SumByCategory(0, Last, c)]
<1>1. IsFiniteSet(S) /\ S \subseteq Expenses
  BY FS_Subset DEF LedgerLive, BooksAssumed
<1>2. expense \in [Expenses -> [st : {"none", "live"}, day : Ledger!Days, cat : Categories]]
  BY DEF LedgerIInv, Ledger!TypeOK
<1>3. \A e \in S : k[e] \in Ledger!Days /\ j[e] \in Categories /\ k[e] = expense[e].day /\ j[e] = expense[e].cat
  BY <1>1, <1>2
<1>4. Ledger!Days = 0..Last /\ Ledger!Days \subseteq Int /\ IsFiniteSet(Ledger!Days) /\ IsFiniteSet(Categories)
  BY DaysFinite DEF BooksAssumed
<1>5. Ledger!SumTotal(0, Last) = Cardinality(S)
  <2>1. {e \in Expenses : expense[e].st = "live" /\ expense[e].day \in 0..Last} = S
    BY <1>2, <1>4 DEF LedgerLive
  <2> QED
    BY <2>1, OneCount DEF Ledger!SumTotal
<1>6. \A d \in Ledger!Days : f[d] = byDay[d]
  <2> SUFFICES ASSUME NEW d \in Ledger!Days PROVE f[d] = byDay[d]
    OBVIOUS
  <2>1. \A e \in Ledger!Days : e \in d..d <=> e = d
    BY <1>4
  <2>2. {e \in Expenses : expense[e].st = "live" /\ expense[e].day \in d..d} = {e \in S : k[e] = d}
    BY <1>2, <1>3, <2>1 DEF LedgerLive
  <2> QED
    BY <2>2, OneCount DEF Ledger!SumTotal
<1>7. \A c \in Categories : h[c] = byCat[c]
  <2> SUFFICES ASSUME NEW c \in Categories PROVE h[c] = byCat[c]
    OBVIOUS
  <2>1. {e \in Expenses : expense[e].st = "live" /\ expense[e].cat = c /\ expense[e].day \in 0..Last}
            = {e \in S : j[e] = c}
    BY <1>2, <1>3, <1>4 DEF LedgerLive
  <2> QED
    BY <2>1, OneCount DEF Ledger!SumByCategory
<1>8. \A d \in Ledger!Days : f[d] = Ledger!SumTotal(d, d) /\ byDay[d] \in Nat
  <2> SUFFICES ASSUME NEW d \in Ledger!Days PROVE byDay[d] \in Nat
    OBVIOUS
  <2>1. IsFiniteSet({e \in S : k[e] = d})
    BY <1>1, FS_Subset
  <2> QED
    BY <2>1, FS_CardinalityType
<1>9. Cardinality(S) = SumOf(byDay, Ledger!Days)
  <2> DEFINE R == Ledger!Days
  <2>1. IsFiniteSet(S) /\ IsFiniteSet(R) /\ \A x \in S : k[x] \in R
    BY <1>1, <1>3, <1>4
  <2> HIDE DEF S, k, R
  <2>2. Cardinality(S) = SumOf([d \in R |-> Cardinality({x \in S : k[x] = d})], R)
    BY <2>1, CountByClass
  <2> QED
    BY <2>2 DEF R
<1>10. Cardinality(S) = SumOf(byCat, Categories)
  <2> DEFINE R == Categories
  <2>1. IsFiniteSet(S) /\ IsFiniteSet(R) /\ \A x \in S : j[x] \in R
    BY <1>1, <1>3, <1>4
  <2> HIDE DEF S, j, R
  <2>2. Cardinality(S) = SumOf([c \in R |-> Cardinality({x \in S : j[x] = c})], R)
    BY <2>1, CountByClass
  <2> QED
    BY <2>2 DEF R
<1>11. SumOf(f, Ledger!Days) = SumOf(byDay, Ledger!Days)
  <2> HIDE DEF f, byDay, S, k
  <2> QED
    BY <1>6, SumSame
<1>12. SumOf(h, Categories) = SumOf(byCat, Categories)
  <2> HIDE DEF h, byCat, S, j
  <2> QED
    BY <1>7, SumSame
<1>13. \A d \in Ledger!Days : Ledger!SumTotal(d, d) \in Int
  <2> HIDE DEF byDay
  <2> QED
    BY <1>6, <1>8
<1>14. Ledger!SumTotal(0, Last) = SumOf(f, Ledger!Days) /\ Ledger!SumTotal(0, Last) = SumOf(h, Categories)
  <2> HIDE DEF f, h, byDay, byCat, S
  <2> QED
    BY <1>5, <1>9, <1>10, <1>11, <1>12
<1> QED
  BY <1>1, <1>5, <1>13, <1>14

LEMMA ProfitByDay ==
    ASSUME BooksAssumed, LedgerIInv
    PROVE  Ledger!ProfitLoss(0, Last, "").net = Ledger!MapThenSumSet(LAMBDA d : Ledger!ProfitLoss(d, d, "").net, Ledger!Days)
<1> DEFINE f == [d \in Ledger!Days |-> Ledger!ProfitLoss(d, d, "").net]
           net(d) == Ledger!ProfitLoss(d, d, "").net
           n == [d \in Ledger!Days |-> SumOf(Net, LedgerDone(d, d, ""))]
           c == [d \in Ledger!Days |-> SumOf(Costs, LedgerDone(d, d, ""))]
           spent == [d \in Ledger!Days |-> Ledger!SumTotal(d, d)]
           y == [d \in Ledger!Days |-> c[d] + spent[d]]
<1>1. Ledger!MapThenSumSet(LAMBDA d : Ledger!ProfitLoss(d, d, "").net, Ledger!Days) = SumOf(f, Ledger!Days)
  <2> DEFINE Shows(g) == g = [T \in SUBSET Ledger!Days |->
                IF T = {} THEN 0
                ELSE net((CHOOSE x \in T : TRUE)) + g[T \ {CHOOSE x \in T : TRUE}]]
  <2>1. Ledger!MapThenSumSet(LAMBDA d : Ledger!ProfitLoss(d, d, "").net, Ledger!Days) = (CHOOSE g : Shows(g))[Ledger!Days]
    BY DEF Ledger!MapThenSumSet, Ledger!MapThenFoldSet
  <2>2. ASSUME NEW T \in SUBSET Ledger!Days, T # {}
        PROVE  net((CHOOSE x \in T : TRUE)) = f[CHOOSE x \in T : TRUE]
    <3>1. (CHOOSE x \in T : TRUE) \in T /\ (CHOOSE x \in T : TRUE) \in Ledger!Days
      BY <2>2
    <3> QED
      BY <3>1
  <2>3. ASSUME NEW g PROVE Shows(g) <=> SumsOf(f, Ledger!Days, g)
    BY <2>2 DEF SumsOf
  <2>4. (CHOOSE g : Shows(g)) = (CHOOSE g : SumsOf(f, Ledger!Days, g))
    <3> HIDE DEF Shows
    <3> QED
      BY <2>3
  <2> QED
    BY <2>1, <2>4 DEF SumOf

<1>2. (\A o \in Orders : Net[o] \in Int) /\ \A o \in Orders : Costs[o] \in Int
  BY RowFacts
<1>3. /\ SumOf(Net, Ledger!Completed) = SumOf(n, Ledger!Days) /\ SumOf(Costs, Ledger!Completed) = SumOf(c, Ledger!Days)
      /\ Ledger!SumTotal(0, Last) = SumOf(spent, Ledger!Days)
      /\ \A d \in Ledger!Days : n[d] \in Int /\ c[d] \in Int /\ spent[d] \in Int
  BY <1>2, DaysAddUp, ExpenseFacts
<1>4. Ledger!ProfitLoss(0, Last, "").net = SumOf(Net, Ledger!Completed) - SumOf(Costs, Ledger!Completed) - Ledger!SumTotal(0, Last)
  BY ProfitIs, DoneFacts
<1>5. \A d \in Ledger!Days : f[d] = n[d] - c[d] - spent[d]
  BY ProfitIs
<1>6. \A d \in Ledger!Days : y[d] = c[d] + spent[d]
  OBVIOUS
<1>7. IsFiniteSet(Ledger!Days)
  BY DaysFinite
<1> HIDE DEF f, n, c, spent, y
<1>8. \A d \in Ledger!Days : f[d] \in Int /\ y[d] \in Int /\ n[d] = f[d] + y[d]
  BY <1>3, <1>5, <1>6
<1>9. SumOf(y, Ledger!Days) = SumOf(c, Ledger!Days) + SumOf(spent, Ledger!Days)
  BY <1>3, <1>6, <1>7, SumPlus
<1>10. SumOf(n, Ledger!Days) = SumOf(f, Ledger!Days) + SumOf(y, Ledger!Days)
  BY <1>7, <1>8, SumPlus
<1>11. SumOf(f, Ledger!Days) \in Int /\ SumOf(c, Ledger!Days) \in Int /\ SumOf(spent, Ledger!Days) \in Int
  BY <1>3, <1>7, <1>8, SumStep
<1>12. SumOf(f, Ledger!Days) = SumOf(n, Ledger!Days) - SumOf(c, Ledger!Days) - SumOf(spent, Ledger!Days)
  BY <1>9, <1>10, <1>11
<1> QED
  BY <1>1, <1>3, <1>4, <1>12

LEMMA CategoriesAddUp ==
    ASSUME BooksAssumed, LedgerIInv
    PROVE  Ledger!SumTotal(0, Last) = Ledger!MapThenSumSet(LAMBDA c : Ledger!SumByCategory(0, Last, c), Categories)
<1> DEFINE f == [c \in Categories |-> Ledger!SumByCategory(0, Last, c)]
           cat(c) == Ledger!SumByCategory(0, Last, c)
<1>1. Ledger!MapThenSumSet(LAMBDA c : Ledger!SumByCategory(0, Last, c), Categories) = SumOf(f, Categories)
  <2> DEFINE Shows(g) == g = [T \in SUBSET Categories |->
                IF T = {} THEN 0
                ELSE cat((CHOOSE x \in T : TRUE)) + g[T \ {CHOOSE x \in T : TRUE}]]
  <2>1. Ledger!MapThenSumSet(LAMBDA c : Ledger!SumByCategory(0, Last, c), Categories) = (CHOOSE g : Shows(g))[Categories]
    BY DEF Ledger!MapThenSumSet, Ledger!MapThenFoldSet
  <2>2. ASSUME NEW T \in SUBSET Categories, T # {}
        PROVE  cat((CHOOSE x \in T : TRUE)) = f[CHOOSE x \in T : TRUE]
    <3>1. (CHOOSE x \in T : TRUE) \in T /\ (CHOOSE x \in T : TRUE) \in Categories
      BY <2>2
    <3> QED
      BY <3>1
  <2>3. ASSUME NEW g PROVE Shows(g) <=> SumsOf(f, Categories, g)
    BY <2>2 DEF SumsOf
  <2>4. (CHOOSE g : Shows(g)) = (CHOOSE g : SumsOf(f, Categories, g))
    <3> HIDE DEF Shows
    <3> QED
      BY <2>3
  <2> QED
    BY <2>1, <2>4 DEF SumOf

<1> QED
  BY <1>1, ExpenseFacts

\* The chart.
LEMMA Halves ==
    ASSUME NEW t \in Int, NEW w \in Nat \ {0}, t % 2 = 1
    PROVE  /\ (t - 2 * (w - 1)) % 2 = 1
           /\ Ledger!DayOf(t - 2 * (w - 1) + 2 * (w - 1)) = Ledger!DayOf(t)
           /\ Ledger!DayOf(t) \in Int /\ Ledger!DayOf(t - 2 * (w - 1)) \in Int
           /\ \A i \in 0..w - 1 : Ledger!DayOf(t - 2 * (w - 1) + 2 * i) \in Ledger!DayOf(t - 2 * (w - 1))..Ledger!DayOf(t)
           /\ \A x \in Int : x >= t - 2 * (w - 1) /\ x <= t =>
                 \E i \in 0..w - 1 : Ledger!DayOf(x) = Ledger!DayOf(t - 2 * (w - 1) + 2 * i)
<1>1. PICK a \in Int : t = 2 * a + 1
  <2>1. t = 2 * (t \div 2) + 1 /\ t \div 2 \in Int
    OBVIOUS
  <2> QED
    BY <2>1
<1> DEFINE b == a - (w - 1)
<1>2. b \in Int /\ t - 2 * (w - 1) = 2 * b + 1
  BY <1>1
<1>3. (2 * b + 1) % 2 = 1
  BY <1>2
<1>4. \A i \in Int : Ledger!DayOf(2 * b + 1 + 2 * i) = b + i
  BY <1>2 DEF Ledger!DayOf
<1>5. ASSUME NEW x \in Int, x >= t - 2 * (w - 1), x <= t
      PROVE  \E i \in 0..w - 1 : Ledger!DayOf(x) = Ledger!DayOf(t - 2 * (w - 1) + 2 * i)
  <2> DEFINE d == x \div 2
             i == d - b
  <2>1. d \in Int /\ (x = 2 * d \/ x = 2 * d + 1)
    OBVIOUS
  <2> HIDE DEF d
  <2>2. b <= d /\ d <= a
    BY <1>1, <1>2, <1>5, <2>1
  <2>3. i \in 0..w - 1
    BY <1>1, <2>1, <2>2
  <2>4. Ledger!DayOf(x) = d /\ b + i = d
    BY <1>2, <2>1 DEF Ledger!DayOf, d
  <2> HIDE DEF i
  <2>5. i \in Int
    BY <2>3
  <2>6. Ledger!DayOf(t - 2 * (w - 1) + 2 * i) = b + i
    BY <1>2, <1>4, <2>5
  <2> QED
    BY <2>3, <2>4, <2>6
<1>6. Ledger!DayOf(t) = a /\ Ledger!DayOf(2 * b + 1) = b /\ a = b + (w - 1)
  BY <1>1, <1>2 DEF Ledger!DayOf
<1>7. ASSUME NEW i \in 0..w - 1
      PROVE  Ledger!DayOf(t - 2 * (w - 1) + 2 * i) \in Ledger!DayOf(t - 2 * (w - 1))..Ledger!DayOf(t)
  <2>1. Ledger!DayOf(t - 2 * (w - 1) + 2 * i) = b + i /\ Ledger!DayOf(t - 2 * (w - 1)) = b
    BY <1>2, <1>4, <1>6
  <2>2. b + i \in b..a
    BY <1>1, <1>2, <1>6
  <2> QED
    BY <1>6, <2>1, <2>2
<1>8. Ledger!DayOf(t - 2 * (w - 1) + 2 * (w - 1)) = Ledger!DayOf(t)
  OBVIOUS
<1>9. (t - 2 * (w - 1)) % 2 = 1 /\ Ledger!DayOf(t) \in Int /\ Ledger!DayOf(t - 2 * (w - 1)) \in Int
  BY <1>1, <1>2, <1>3, <1>6
<1> QED
  BY <1>5, <1>7, <1>8, <1>9

LEMMA ChartAddsUp ==
    ASSUME BooksAssumed, LedgerIInv, now % 2 = 1
    PROVE  Ledger!DayOf(now) \in Ledger!Bars /\ Ledger!Kpi = Ledger!MapThenSumSet(Ledger!Daily, Ledger!Bars)
<1> DEFINE start == now - 2 * (Window - 1)
           n == Window - 1
           S == Ledger!ChartOrders
           k == OnDay(S)
           cls == [d \in Ledger!Bars |-> SumOf(Money, {o \in S : k[o] = d})]
           f == [d \in Ledger!Bars |-> Ledger!Daily(d)]
<1>1. now \in Int /\ now \in FirstHalf..LastHalf /\ Window \in Nat \ {0}
  <2>1. now \in FirstHalf..LastHalf /\ FirstHalf \in Nat /\ LastHalf \in Nat
    BY DEF LedgerIInv, Ledger!TypeOK, BooksAssumed
  <2> QED
    BY <2>1 DEF BooksAssumed
<1>2. /\ start % 2 = 1 /\ Ledger!DayOf(start + 2 * n) = Ledger!DayOf(now)
      /\ Ledger!DayOf(now) \in Int /\ Ledger!DayOf(start) \in Int
      /\ \A i \in 0..n : Ledger!DayOf(start + 2 * i) \in Ledger!DayOf(start)..Ledger!DayOf(now)
      /\ \A x \in Int : x >= start /\ x <= now => \E i \in 0..n : Ledger!DayOf(x) = Ledger!DayOf(start + 2 * i)
  BY <1>1, Halves
<1>3. Ledger!ChartFrom = start /\ n \in 0..n
  BY <1>1, <1>2 DEF Ledger!ChartFrom, Ledger!UtcStart
<1> HIDE DEF start, n
<1>4. Ledger!Bars = {Ledger!DayOf(start + 2 * i) : i \in 0..n}
  BY <1>3 DEF Ledger!Bars, n
<1>5. Ledger!DayOf(now) \in Ledger!Bars
  BY <1>2, <1>3, <1>4
<1>6. IsFiniteSet(Ledger!Bars)
  <2>1. IsFiniteSet(Ledger!DayOf(start)..Ledger!DayOf(now))
    BY <1>2, FS_Interval
  <2>2. Ledger!Bars \in SUBSET (Ledger!DayOf(start)..Ledger!DayOf(now))
    BY <1>2, <1>4
  <2> QED
    BY <2>1, <2>2, FS_Subset
<1>7. IsFiniteSet(S) /\ S \subseteq Orders
  BY FS_Subset DEF Ledger!ChartOrders, Ledger!Storefront, BooksAssumed
<1>8. ASSUME NEW o \in S PROVE k[o] \in Ledger!Bars
  <2>1. o \in Orders /\ order[o].st = "completed" /\ order[o].at >= start
    BY <1>3 DEF Ledger!ChartOrders, Ledger!Storefront
  <2>2. Legal(order[o], now)
    BY <2>1, LedgerCurrent
  <2>3. order[o].at \in 0..now
    BY <2>1, <2>2 DEF Legal
  <2> DEFINE t == order[o].at
  <2>4. t \in 0..now /\ t >= start
    BY <2>1, <2>3
  <2>5. k[o] = Ledger!DayOf(t)
    BY DEF OnDay
  <2> HIDE DEF t, k
  <2>6. t \in Int /\ t <= now
    BY <1>1, <2>4
  <2> QED
    BY <1>2, <1>4, <2>4, <2>5, <2>6
<1>9. \A o \in S : Money[o] \in Int
  BY <1>7, RowFacts
<1>10. Ledger!Kpi = SumOf(Money, S)
  BY <1>7, TotalIs DEF Ledger!Kpi
<1>11. SumOf(Money, S) = SumOf(cls, Ledger!Bars)
  <2> DEFINE R == Ledger!Bars
  <2>1. IsFiniteSet(R) /\ \A o \in S : k[o] \in R
    BY <1>6, <1>8
  <2> HIDE DEF S, k, R
  <2>2. SumOf(Money, S) = SumOf([d \in R |-> SumOf(Money, {o \in S : k[o] = d})], R)
    BY <1>7, <1>9, <2>1, SumByClass
  <2> QED
    BY <2>2 DEF R
<1>12. ASSUME NEW d \in Ledger!Bars PROVE f[d] = cls[d]
  <2> DEFINE T == {o \in S : k[o] = d}
  <2>1. T = {o \in S : Ledger!DayOf(order[o].at) = d} /\ T \subseteq Orders
    BY <1>7 DEF OnDay
  <2>2. Ledger!Daily(d) = Ledger!Total(T)
    BY <2>1 DEF Ledger!Daily
  <2>3. cls[d] = SumOf(Money, T)
    OBVIOUS
  <2> HIDE DEF T
  <2> QED
    BY <2>1, <2>2, <2>3, TotalIs
<1>13. SumOf(f, Ledger!Bars) = SumOf(cls, Ledger!Bars)
  <2> HIDE DEF f, cls
  <2> QED
    BY <1>12, SumSame
<1>14. Ledger!MapThenSumSet(Ledger!Daily, Ledger!Bars) = SumOf(f, Ledger!Bars)
  <2> HIDE DEF start
  <2> DEFINE Shows(g) == g = [T \in SUBSET Ledger!Bars |->
                IF T = {} THEN 0
                ELSE Ledger!Daily((CHOOSE x \in T : TRUE)) + g[T \ {CHOOSE x \in T : TRUE}]]
  <2>1. Ledger!MapThenSumSet(Ledger!Daily, Ledger!Bars) = (CHOOSE g : Shows(g))[Ledger!Bars]
    BY DEF Ledger!MapThenSumSet, Ledger!MapThenFoldSet
  <2>2. ASSUME NEW T \in SUBSET Ledger!Bars, T # {}
        PROVE  Ledger!Daily((CHOOSE x \in T : TRUE)) = f[CHOOSE x \in T : TRUE]
    <3>1. (CHOOSE x \in T : TRUE) \in T /\ (CHOOSE x \in T : TRUE) \in Ledger!Bars
      BY <2>2
    <3> QED
      BY <3>1
  <2>3. ASSUME NEW g PROVE Shows(g) <=> SumsOf(f, Ledger!Bars, g)
    BY <2>2 DEF SumsOf
  <2>4. (CHOOSE g : Shows(g)) = (CHOOSE g : SumsOf(f, Ledger!Bars, g))
    <3> HIDE DEF Shows
    <3> QED
      BY <2>3
  <2> QED
    BY <2>1, <2>4 DEF SumOf

<1> QED
  BY <1>5, <1>10, <1>11, <1>13, <1>14

LEMMA ReportsAgree == ASSUME BooksAssumed, LedgerIInv PROVE Ledger!ReportsAddUp
<1>1. \A o \in Orders : Money[o] \in Int /\ \A m \in Methods : Paid(m)[o] \in Int
  BY RowFacts
<1>2. Ledger!Aggregate(0, Last, "").revenue = Ledger!Aggregate(0, Last, "store").revenue + Ledger!Aggregate(0, Last, "home").revenue
  BY <1>1, ShopsAddUp, WholeIs
<1>3. ASSUME NEW m \in Methods
      PROVE  Ledger!Aggregate(0, Last, "").payments[m]
                 = Ledger!Aggregate(0, Last, "store").payments[m] + Ledger!Aggregate(0, Last, "home").payments[m]
  <2> DEFINE f == Paid(m)
  <2>1. \A o \in Orders : f[o] \in Int
    BY <1>1
  <2> HIDE DEF f
  <2>2. SumOf(f, Ledger!Completed) = SumOf(f, LedgerDone(0, Last, "store")) + SumOf(f, LedgerDone(0, Last, "home"))
    BY <2>1, ShopsAddUp
  <2> QED
    BY <2>2, WholeIs DEF f
<1>4. Ledger!Sum(Ledger!Aggregate(0, Last, "").payments) >= Ledger!Aggregate(0, Last, "").revenue
  <2> DEFINE p == Ledger!Aggregate(0, Last, "").payments
             q == [m \in Methods |-> SumOf(Paid(m), Ledger!Completed)]
  <2>1. DOMAIN p = Methods /\ \A m \in Methods : p[m] = q[m]
    BY WholeIs
  <2> HIDE DEF p, q
  <2>2. Ledger!Sum(p) = SumOf(q, Methods)
    BY <2>1, SumIsSum, SumSame
  <2>3. SumOf(q, Methods) >= SumOf(Money, Ledger!Completed)
    BY MethodsCover DEF q
  <2> QED
    BY <2>2, <2>3, WholeIs DEF p
<1>5. /\ Ledger!Aggregate(0, Last, "").revenue = Ledger!GetRevenueStats.revenue
      /\ Ledger!Aggregate(0, Last, "").orders = Ledger!GetRevenueStats.count
  <2>1. Ledger!Completed \subseteq Orders
    BY DoneFacts
  <2>2. Ledger!GetRevenueStats.revenue = Ledger!Total(Ledger!Completed) /\ Ledger!GetRevenueStats.count = Cardinality(Ledger!Completed)
    BY OneCount DEF Ledger!GetRevenueStats
  <2> QED
    BY <2>1, <2>2, TotalIs, WholeIs
<1>6. now % 2 = 1 => Ledger!DayOf(now) \in Ledger!Bars /\ Ledger!Kpi = Ledger!MapThenSumSet(Ledger!Daily, Ledger!Bars)
  BY ChartAddsUp
<1> QED
  BY <1>2, <1>3, <1>4, <1>5, <1>6, RevenueByDay, ProfitByDay, CategoriesAddUp DEF Ledger!ReportsAddUp, Last

\* The customers.
LEMMA UnionCounts ==
    ASSUME NEW A, NEW B, IsFiniteSet(A), IsFiniteSet(B), A \cap B = {}
    PROVE  Cardinality(A \cup B) = Cardinality(A) + Cardinality(B) /\ IsFiniteSet(A \cup B)
<1>1. Cardinality(A \cup B) = Cardinality(A) + Cardinality(B) - Cardinality(A \cap B) /\ IsFiniteSet(A \cup B)
  BY FS_Union
<1>2. Cardinality(A \cap B) = 0 /\ Cardinality(A) \in Nat /\ Cardinality(B) \in Nat
  BY FS_EmptySet, FS_CardinalityType
<1> QED
  BY <1>1, <1>2

Members(c) == {o \in Ledger!Completed : Buyer[o] = c /\ order[o].source = "pos"}
Bought(c) == {o \in Ledger!Completed : Buyer[o] = c /\ order[o].source \in Ledger!Shops}

\* A nonempty set of natural numbers has a least member.
LEMMA Least ==
    ASSUME NEW T \in SUBSET Nat, T # {}
    PROVE  Ledger!Min(T) \in T /\ \A x \in T : Ledger!Min(T) <= x
<1> DEFINE R == OpToRel(<, Nat)
<1>1. IsWellFoundedOn(R, Nat)
  BY NatLessThanWellFounded
<1>2. \A x, y \in Nat : y < x => <<y, x>> \in R
  BY DEF OpToRel
<1> HIDE DEF R
<1>3. PICK m \in T : \A y \in T : ~(<<y, m>> \in R)
  BY <1>1, WFMin
<1>4. \A x \in T : x \in Nat /\ m \in Nat /\ ~(x < m)
  BY <1>2, <1>3
<1>5. \A x \in T : m <= x
  BY <1>4, SMT
<1> QED
  BY <1>5 DEF Ledger!Min

\* A page that has room for them all shows them all.
LEMMA NewestAre ==
    ASSUME BooksAssumed, NEW os, IsFiniteSet(os), Cardinality(os) <= MemberRows
    PROVE  Ledger!Newest(os) = os
<1> DEFINE n == Cardinality(os)
           T == {MemberRows, n}
           P == Ledger!Pages(os, MemberRows)
<1>1. n \in Nat /\ MemberRows \in Nat /\ n <= MemberRows
  BY FS_CardinalityType DEF BooksAssumed
<1>2. Ledger!Min(T) = n
  <2>1. T \in SUBSET Nat /\ T # {}
    BY <1>1
  <2>2. Ledger!Min(T) \in T /\ Ledger!Min(T) <= n
    BY <2>1, Least
  <2> HIDE DEF n
  <2> QED
    BY <1>1, <2>2
<1>3. ASSUME NEW page \in P PROVE page = os
  <2>1. page \subseteq os /\ Cardinality(page) = n
    BY <1>2, OneCount DEF Ledger!Pages
  <2> QED
    BY <2>1, FS_Subset
<1>4. os \in P
  <2>1. Cardinality(os) = Ledger!Min(T)
    BY <1>2
  <2> QED
    BY <2>1, OneCount DEF Ledger!Pages
<1> HIDE DEF P
<1>5. (CHOOSE page \in P : TRUE) = os
  BY <1>3, <1>4
<1> QED
  BY <1>5 DEF Ledger!Newest, P

LEMMA MembersAddUp ==
    ASSUME BooksAssumed, LedgerIInv, NEW c \in Customers, ~Ledger!Overfull(c)
    PROVE  /\ Ledger!GetStats(c, 0, Last).lifetime = Ledger!MapThenSumSet(LAMBDA d : Ledger!GetStats(c, d, d).spend, Ledger!Days)
           /\ Ledger!GetStats(c, 0, Last).lifetime = SumOf(Money, Members(c))
           /\ Ledger!GetStats(c, 0, Last).spend = Ledger!SpentByMember(c, 0, Last)
<1> DEFINE S == Members(c)
           k == OnDay(S)
           f == [d \in Ledger!Days |-> Ledger!GetStats(c, d, d).spend]
           spend(d) == Ledger!GetStats(c, d, d).spend
           cls == [d \in Ledger!Days |-> SumOf(Money, {o \in S : k[o] = d})]
<1>1. Ledger!Completed \subseteq Orders /\ IsFiniteSet(Ledger!Completed)
  BY DoneFacts
<1>2. S \subseteq Ledger!Completed /\ IsFiniteSet(S) /\ \A o \in S : Money[o] \in Int
  BY <1>1, FS_Subset, RowFacts DEF Members
<1>3. Ledger!Days = 0..Last /\ Ledger!Days \subseteq Int /\ IsFiniteSet(Ledger!Days)
  BY DaysFinite
<1>4. \A o \in Ledger!Completed : Ledger!DayOf(order[o].at) \in Ledger!Days
  BY RowFacts DEF Ledger!Completed
<1>5. \A o \in S : k[o] \in Ledger!Days /\ k[o] = Ledger!DayOf(order[o].at)
  BY <1>2, <1>4 DEF OnDay
<1>13. Ledger!OfMember(c, 0, Last) = S
  BY <1>3, <1>4 DEF Ledger!OfMember, Members
<1>14. Cardinality(S) <= MemberRows
  <2>1. ~(Cardinality(S) > MemberRows)
    BY <1>13, OneCount DEF Ledger!Overfull, Last
  <2>2. Cardinality(S) \in Nat /\ MemberRows \in Nat
    BY <1>2, FS_CardinalityType DEF BooksAssumed
  <2> QED
    BY <2>1, <2>2
<1>6. Ledger!FindByMember(c, 0, Last) = S
  <2> HIDE DEF S
  <2> QED
    BY <1>2, <1>13, <1>14, NewestAre DEF Ledger!FindByMember
<1>7. Ledger!GetStats(c, 0, Last).lifetime = SumOf(Money, S) /\ Ledger!GetStats(c, 0, Last).spend = SumOf(Money, S)
  <2>1. Ledger!GetStats(c, 0, Last).lifetime = Ledger!Total(Ledger!FindByMember(c, 0, Last))
        /\ Ledger!GetStats(c, 0, Last).spend = Ledger!Total(Ledger!FindByMember(c, 0, Last))
    BY DEF Ledger!GetStats, Last
  <2>2. S \subseteq Orders
    BY <1>1, <1>2
  <2>3. Ledger!Total(S) = SumOf(Money, S)
    BY <2>2, TotalIs
  <2> QED
    BY <1>6, <2>1, <2>3
<1>8. Ledger!SpentByMember(c, 0, Last) = SumOf(Money, S)
  <2> DEFINE T == {o \in LedgerDone(0, Last, "") : Buyer[o] = c /\ order[o].source = "pos"}
  <2>1. T = S /\ S \subseteq Orders
    BY <1>1, <1>2, DoneFacts DEF Members
  <2>2. Ledger!SpentByMember(c, 0, Last) = Ledger!Total(T)
    BY DEF Ledger!SpentByMember, LedgerDone
  <2>3. Ledger!Total(S) = SumOf(Money, S)
    BY <2>1, TotalIs
  <2> QED
    BY <2>1, <2>2, <2>3
<1>9. ASSUME NEW d \in Ledger!Days PROVE f[d] = cls[d]
  <2> DEFINE T == {o \in S : k[o] = d}
  <2>1. \A e \in Ledger!Days : e \in d..d <=> e = d
    BY <1>3
  <2>6. Ledger!OfMember(c, d, d) = T
    BY <1>2, <1>4, <1>5, <2>1 DEF Ledger!OfMember, Members
  <2>7. T \subseteq S
    OBVIOUS
  <2>2. Ledger!FindByMember(c, d, d) = T
    <3> HIDE DEF T, S
    <3>1. IsFiniteSet(T) /\ Cardinality(T) <= Cardinality(S) /\ Cardinality(T) \in Nat /\ Cardinality(S) \in Nat
      BY <1>2, <2>7, FS_Subset, FS_CardinalityType
    <3>2. Cardinality(T) <= MemberRows
      BY <1>14, <3>1 DEF BooksAssumed
    <3> QED
      BY <2>6, <3>1, <3>2, NewestAre DEF Ledger!FindByMember
  <2>3. T \subseteq Orders
    BY <1>1, <1>2
  <2>4. Ledger!Total(T) = SumOf(Money, T)
    <3> HIDE DEF T
    <3> QED
      BY <2>3, TotalIs
  <2>5. f[d] = Ledger!Total(Ledger!FindByMember(c, d, d))
    BY DEF Ledger!GetStats
  <2> QED
    BY <2>2, <2>4, <2>5
<1>10. SumOf(f, Ledger!Days) = SumOf(cls, Ledger!Days)
  <2> HIDE DEF f, cls
  <2> QED
    BY <1>9, SumSame
<1>11. SumOf(Money, S) = SumOf(cls, Ledger!Days)
  <2> DEFINE R == Ledger!Days
  <2>1. IsFiniteSet(R) /\ \A o \in S : k[o] \in R
    BY <1>3, <1>5
  <2> HIDE DEF S, k, R
  <2>2. SumOf(Money, S) = SumOf([d \in R |-> SumOf(Money, {o \in S : k[o] = d})], R)
    BY <1>2, <2>1, SumByClass
  <2> QED
    BY <2>2 DEF R
<1>12. Ledger!MapThenSumSet(LAMBDA d : Ledger!GetStats(c, d, d).spend, Ledger!Days) = SumOf(f, Ledger!Days)
  <2> DEFINE Shows(g) == g = [T \in SUBSET Ledger!Days |->
                IF T = {} THEN 0
                ELSE spend((CHOOSE x \in T : TRUE)) + g[T \ {CHOOSE x \in T : TRUE}]]
  <2>1. Ledger!MapThenSumSet(LAMBDA d : Ledger!GetStats(c, d, d).spend, Ledger!Days) = (CHOOSE g : Shows(g))[Ledger!Days]
    BY DEF Ledger!MapThenSumSet, Ledger!MapThenFoldSet
  <2>2. ASSUME NEW T \in SUBSET Ledger!Days, T # {}
        PROVE  spend((CHOOSE x \in T : TRUE)) = f[CHOOSE x \in T : TRUE]
    <3>1. (CHOOSE x \in T : TRUE) \in T /\ (CHOOSE x \in T : TRUE) \in Ledger!Days
      BY <2>2
    <3> QED
      BY <3>1
  <2>3. ASSUME NEW g PROVE Shows(g) <=> SumsOf(f, Ledger!Days, g)
    BY <2>2 DEF SumsOf
  <2>4. (CHOOSE g : Shows(g)) = (CHOOSE g : SumsOf(f, Ledger!Days, g))
    <3> HIDE DEF Shows
    <3> QED
      BY <2>3
  <2> QED
    BY <2>1, <2>4 DEF SumOf

<1> QED
  BY <1>7, <1>8, <1>10, <1>11, <1>12

LEMMA PagesAddUp ==
    ASSUME BooksAssumed, LedgerIInv, NEW c \in Customers
    PROVE  /\ Ledger!CustomerDetail(c).spent = Ledger!CustomerRow(c, "store").spent + Ledger!CustomerRow(c, "home").spent
           /\ Ledger!CustomerDetail(c).spent = SumOf(Money, Bought(c))
           /\ Ledger!CustomerDetail(c).count = Ledger!CustomerRow(c, "").count
           /\ ~crossed => Ledger!CustomerDetail(c).count
                  = Ledger!CustomerDetail(c).completed + Ledger!CustomerDetail(c).pending + Ledger!CustomerDetail(c).cancelled
<1> DEFINE all == Ledger!CustomerOrders(c, "") \cap Ledger!Completed
           A == Ledger!CustomerOrders(c, "store") \cap Ledger!Completed
           B == Ledger!CustomerOrders(c, "home") \cap Ledger!Completed
<1>1. Ledger!Completed \subseteq Orders /\ IsFiniteSet(Ledger!Completed)
  BY DoneFacts
<1>2. /\ Ledger!SumberPesananTempat("store") = {"ecom"} /\ Ledger!SumberPesananTempat("home") = {"home"}
      /\ Ledger!SumberPesananTempat("") = Ledger!Shops
  BY DEF Ledger!SumberPesananTempat
<1>3. all = Bought(c)
  BY <1>1, <1>2 DEF Ledger!CustomerOrders, Bought
<1>4. all = A \cup B /\ A \cap B = {}
  BY <1>2 DEF Ledger!CustomerOrders, Ledger!Shops
<1>5. IsFiniteSet(all) /\ all \subseteq Orders /\ A \subseteq Orders /\ B \subseteq Orders
      /\ \A o \in Orders : Money[o] \in Int
  <2>1. all \in SUBSET Ledger!Completed
    OBVIOUS
  <2> HIDE DEF all
  <2>2. IsFiniteSet(all)
    BY <1>1, <2>1, FS_Subset
  <2>3. \A o \in Orders : Money[o] \in Int
    BY RowFacts
  <2> QED
    BY <1>1, <2>1, <2>2, <2>3
<1>6. /\ Ledger!CustomerDetail(c).spent = Ledger!Total(all) /\ Ledger!CustomerRow(c, "store").spent = Ledger!Total(A)
      /\ Ledger!CustomerRow(c, "home").spent = Ledger!Total(B)
  BY DEF Ledger!CustomerDetail, Ledger!CustomerRow
<1>7. Ledger!CustomerDetail(c).count = Ledger!CustomerRow(c, "").count /\ Ledger!CustomerDetail(c).count = Cardinality(Ledger!CustomerOrders(c, ""))
  BY OneCount DEF Ledger!CustomerDetail, Ledger!CustomerRow
<1>8. Ledger!CustomerDetail(c).spent = Ledger!CustomerRow(c, "store").spent + Ledger!CustomerRow(c, "home").spent
      /\ Ledger!CustomerDetail(c).spent = SumOf(Money, all)
  <2> HIDE DEF all, A, B
  <2>1. Ledger!Total(all) = SumOf(Money, all) /\ Ledger!Total(A) = SumOf(Money, A) /\ Ledger!Total(B) = SumOf(Money, B)
    BY <1>5, TotalIs
  <2>2. SumOf(Money, A \cup B) = SumOf(Money, A) + SumOf(Money, B)
    BY <1>4, <1>5, SumJoin
  <2> QED
    BY <1>4, <1>6, <2>1, <2>2
<1>9. ASSUME ~crossed
      PROVE  Ledger!CustomerDetail(c).count
                 = Ledger!CustomerDetail(c).completed + Ledger!CustomerDetail(c).pending + Ledger!CustomerDetail(c).cancelled
  <2> DEFINE S == Ledger!CustomerOrders(c, "")
             X == {o \in S : order[o].st = "completed"}
             Y == {o \in S : order[o].st = "pending"}
             Z == {o \in S : order[o].st = "cancelled"}
  <2>1. \A o \in S : o \in Orders /\ order[o].source \in Ledger!Shops
    BY <1>2 DEF Ledger!CustomerOrders
  <2>2. \A o \in S : order[o].st \in {"completed", "pending", "cancelled"}
    BY <1>9, <2>1 DEF LedgerIInv, Agrees
  <2>3. IsFiniteSet(S)
    BY <2>1, FS_Subset DEF BooksAssumed
  <2>4. /\ Ledger!CustomerDetail(c).count = Cardinality(S) /\ Ledger!CustomerDetail(c).completed = Cardinality(X)
        /\ Ledger!CustomerDetail(c).pending = Cardinality(Y) /\ Ledger!CustomerDetail(c).cancelled = Cardinality(Z)
    BY OneCount DEF Ledger!CustomerDetail
  <2> HIDE DEF S
  <2>5. S = (X \cup Y) \cup Z /\ X \cap Y = {} /\ (X \cup Y) \cap Z = {}
    BY <2>2
  <2>6. IsFiniteSet(X) /\ IsFiniteSet(Y) /\ IsFiniteSet(Z)
    BY <2>3, FS_Subset
  <2> HIDE DEF X, Y, Z
  <2>7. Cardinality(X \cup Y) = Cardinality(X) + Cardinality(Y) /\ IsFiniteSet(X \cup Y)
    BY <2>5, <2>6, UnionCounts
  <2>8. Cardinality((X \cup Y) \cup Z) = Cardinality(X \cup Y) + Cardinality(Z)
    BY <2>5, <2>6, <2>7, UnionCounts
  <2> QED
    BY <2>4, <2>5, <2>7, <2>8
<1> QED
  BY <1>3, <1>7, <1>8, <1>9

LEMMA CustomersAgree == ASSUME BooksAssumed, LedgerIInv PROVE Ledger!CustomersAddUp
<1> DEFINE S == Ledger!Completed
           k == [o \in S |-> Buyer[o]]
           cls == [c \in Customers |-> SumOf(Money, {o \in S : k[o] = c})]
           sum(c) == Ledger!GetStats(c, 0, Last).lifetime + Ledger!CustomerDetail(c).spent
           f == [c \in Customers |-> Ledger!GetStats(c, 0, Last).lifetime + Ledger!CustomerDetail(c).spent]
<1>1. S \subseteq Orders /\ IsFiniteSet(S) /\ IsFiniteSet(Customers) /\ Buyer \in [Orders -> Customers]
  BY DoneFacts DEF BooksAssumed
<1>2. (\A o \in S : Money[o] \in Int) /\ \A o \in S : order[o].source \in Ledger!Shops \cup {"pos"}
  BY <1>1, RowFacts DEF Ledger!Completed
<1>3. \A o \in S : k[o] \in Customers /\ k[o] = Buyer[o]
  BY <1>1
<1>4. ASSUME \A c \in Customers : ~Ledger!Overfull(c), NEW c \in Customers PROVE f[c] = cls[c]
  <2> DEFINE T == {o \in S : k[o] = c}
  <2>1. T = Members(c) \cup Bought(c) /\ Members(c) \cap Bought(c) = {}
    BY <1>2, <1>3 DEF Members, Bought, Ledger!Shops
  <2>2. IsFiniteSet(T) /\ \A o \in T : Money[o] \in Int
    BY <1>1, <1>2, FS_Subset
  <2>3. f[c] = SumOf(Money, Members(c)) + SumOf(Money, Bought(c))
    BY <1>4, MembersAddUp, PagesAddUp
  <2>4. cls[c] = SumOf(Money, T)
    OBVIOUS
  <2> HIDE DEF T, f, cls
  <2>5. SumOf(Money, T) = SumOf(Money, Members(c)) + SumOf(Money, Bought(c))
    BY <2>1, <2>2, SumJoin
  <2> QED
    BY <2>3, <2>4, <2>5
<1>5. (\A c \in Customers : ~Ledger!Overfull(c)) => SumOf(f, Customers) = SumOf(cls, Customers)
  <2> HIDE DEF f, cls
  <2> QED
    BY <1>4, SumSame
<1>6. SumOf(Money, S) = SumOf(cls, Customers)
  <2> HIDE DEF S, k
  <2> QED
    BY <1>1, <1>2, <1>3, SumByClass
<1>7. Ledger!GetRevenueStats.revenue = SumOf(Money, S)
  <2>1. Ledger!GetRevenueStats.revenue = Ledger!Total(S)
    BY DEF Ledger!GetRevenueStats
  <2> QED
    BY <1>1, <2>1, TotalIs
<1>8. Ledger!MapThenSumSet(LAMBDA c : Ledger!GetStats(c, 0, Last).lifetime + Ledger!CustomerDetail(c).spent, Customers) = SumOf(f, Customers)
  <2> DEFINE Shows(g) == g = [T \in SUBSET Customers |->
                IF T = {} THEN 0
                ELSE sum((CHOOSE x \in T : TRUE)) + g[T \ {CHOOSE x \in T : TRUE}]]
  <2>1. Ledger!MapThenSumSet(LAMBDA c : Ledger!GetStats(c, 0, Last).lifetime + Ledger!CustomerDetail(c).spent, Customers) = (CHOOSE g : Shows(g))[Customers]
    BY DEF Ledger!MapThenSumSet, Ledger!MapThenFoldSet
  <2>2. ASSUME NEW T \in SUBSET Customers, T # {}
        PROVE  sum((CHOOSE x \in T : TRUE)) = f[CHOOSE x \in T : TRUE]
    <3>1. (CHOOSE x \in T : TRUE) \in T /\ (CHOOSE x \in T : TRUE) \in Customers
      BY <2>2
    <3> QED
      BY <3>1
  <2>3. ASSUME NEW g PROVE Shows(g) <=> SumsOf(f, Customers, g)
    BY <2>2 DEF SumsOf
  <2>4. (CHOOSE g : Shows(g)) = (CHOOSE g : SumsOf(f, Customers, g))
    <3> HIDE DEF Shows
    <3> QED
      BY <2>3
  <2> QED
    BY <2>1, <2>4 DEF SumOf

<1> QED
  BY <1>5, <1>6, <1>7, <1>8, MembersAddUp, PagesAddUp DEF Ledger!CustomersAddUp, Last

\* The panels, while the counter keeps to its own orders.
LEMMA PanelsDo == ASSUME BooksAssumed, LedgerIInv PROVE Ledger!PanelsAgree
<1> DEFINE A == {o \in Ledger!Storefront : order[o].ecom \in Ledger!Active}
           C == {o \in Ledger!Storefront : order[o].st = "completed"}
           X == {o \in Ledger!Storefront \cap apart : order[o].st = "completed" /\ order[o].ecom \notin Ledger!Active}
           Y == {o \in Ledger!Storefront \cap apart : order[o].st # "completed" /\ order[o].ecom \in Ledger!Active}
<1> SUFFICES ASSUME ~crossed
             PROVE  /\ Ledger!GetDashboard(0).revenue + Ledger!Total(X) = Ledger!Total(C) + Ledger!Total(Y)
                    /\ \A m \in Methods : Ledger!Channel(m) = 0
  BY DEF Ledger!PanelsAgree
<1>1. \A o \in Ledger!Storefront : o \in Orders /\ order[o].source \in Ledger!Shops /\ Agrees(order[o]) /\ Legal(order[o], now)
                                 /\ (Ledger!Parted(order[o]) => o \in apart)
  BY DEF LedgerIInv, Ledger!Storefront
<1>2. \A o \in Ledger!Storefront : ~(order[o].st = "completed" <=> order[o].ecom \in Ledger!Active) => o \in apart
  BY <1>1 DEF Ledger!Parted
<1>3. \A o \in Ledger!Storefront : order[o].ecom \in Ledger!Active => Ledger!DayOf(order[o].paid) >= 0
  <2> SUFFICES ASSUME NEW o \in Ledger!Storefront, order[o].ecom \in Ledger!Active PROVE Ledger!DayOf(order[o].paid) >= 0
    OBVIOUS
  <2> DEFINE t == order[o].paid
  <2>1. t \in Ledger!Never..now /\ t # Ledger!Never
    BY <1>1 DEF Legal
  <2> HIDE DEF t
  <2>2. t \in Int /\ t >= 0
    BY <1>1, <2>1, LedgerCurrent DEF Ledger!Never
  <2>3. t \div 2 >= 0
    BY <2>2
  <2> QED
    BY <2>3 DEF Ledger!DayOf, t
<1>4. Ledger!GetDashboard(0).revenue = Ledger!Total(A)
  <2>1. {o \in Ledger!Storefront : order[o].ecom \in Ledger!Active /\ Ledger!DayOf(order[o].paid) >= 0} = A
    BY <1>3
  <2> HIDE DEF A
  <2> QED
    BY <2>1 DEF Ledger!GetDashboard
<1>7. A \cup X = C \cup Y /\ A \cap X = {} /\ C \cap Y = {} /\ A \cup X \subseteq Orders
  BY <1>1, <1>2
<1>8. A \subseteq Orders /\ X \subseteq Orders /\ C \subseteq Orders /\ Y \subseteq Orders
  BY <1>1
<1> HIDE DEF A, C, X, Y
<1>9. IsFiniteSet(A \cup X) /\ \A o \in A \cup X : Money[o] \in Int
  BY <1>7, FS_Subset, RowFacts DEF BooksAssumed
<1>10. /\ Ledger!Total(A) = SumOf(Money, A) /\ Ledger!Total(X) = SumOf(Money, X)
       /\ Ledger!Total(C) = SumOf(Money, C) /\ Ledger!Total(Y) = SumOf(Money, Y)
  BY <1>8, TotalIs
<1>11. SumOf(Money, A \cup X) = SumOf(Money, A) + SumOf(Money, X)
  BY <1>7, <1>9, SumJoin
<1>12. SumOf(Money, C \cup Y) = SumOf(Money, C) + SumOf(Money, Y)
  BY <1>7, <1>9, SumJoin
<1>5. Ledger!GetDashboard(0).revenue + Ledger!Total(X) = Ledger!Total(C) + Ledger!Total(Y)
  BY <1>4, <1>7, <1>10, <1>11, <1>12
<1>6. ASSUME NEW m \in Methods PROVE Ledger!Channel(m) = 0
  <2> DEFINE f == [o \in Orders |-> order[o].pays[m]]
  <2>1. IsFiniteSet(Ledger!ChartOrders) /\ Ledger!ChartOrders \subseteq Ledger!Storefront
    BY FS_Subset DEF Ledger!ChartOrders, Ledger!Storefront, BooksAssumed
  <2>2. \A o \in Ledger!ChartOrders : f[o] = 0
    BY <1>1, <2>1 DEF Agrees, Ledger!NoPays
  <2>3. Ledger!Channel(m) = SumOf(f, Ledger!ChartOrders)
    BY ChannelIs
  <2> HIDE DEF f
  <2> QED
    BY <2>1, <2>2, <2>3, SumZero
<1> QED
  BY <1>5, <1>6

\* The list, page by page.
LEMMA ListDoes == ASSUME BooksAssumed, LedgerIInv PROVE Ledger!ListComplete
<1> SUFFICES ASSUME NEW location
             PROVE  /\ \A want \in Ledger!Ecom \ {""} :
                          Ledger!CountsByStatus(want, location) = Cardinality(Ledger!InList(want, location))
                    /\ \A limit \in 1..Cardinality(Ledger!InList("all", location)) :
                          \A page \in Ledger!Pages(Ledger!InList("all", location), limit) :
                             LET cursor == Ledger!NextCursor(page)
                                 rest == Ledger!Before(Ledger!InList("all", location), cursor)
                             IN /\ page \cap rest = {}
                                /\ \A o \in Ledger!InList("all", location) \ (page \cup rest) : order[o].at = cursor
  BY OneCount DEF Ledger!ListComplete
<1>1. ASSUME NEW want \in Ledger!Ecom \ {""}
      PROVE  Ledger!CountsByStatus(want, location) = Cardinality(Ledger!InList(want, location))
  <2>1. want # "all"
    BY DEF Ledger!Ecom
  <2>2. {o \in Ledger!InList("all", location) : order[o].ecom = want} = Ledger!InList(want, location)
    BY <2>1 DEF Ledger!InList
  <2> QED
    BY <2>2, OneCount DEF Ledger!CountsByStatus
<1>2. ASSUME NEW limit \in 1..Cardinality(Ledger!InList("all", location)), NEW page \in Ledger!Pages(Ledger!InList("all", location), limit)
      PROVE  /\ page \cap Ledger!Before(Ledger!InList("all", location), Ledger!NextCursor(page)) = {}
             /\ \A o \in Ledger!InList("all", location) \ (page \cup Ledger!Before(Ledger!InList("all", location), Ledger!NextCursor(page))) :
                   order[o].at = Ledger!NextCursor(page)
  <2> DEFINE os == Ledger!InList("all", location)
             n == Cardinality(os)
             times == {order[o].at : o \in page}
             cursor == Ledger!NextCursor(page)
  <2>1. os \subseteq Orders /\ \A o \in os : order[o].source \in Ledger!Shops
    BY DEF Ledger!InList, Ledger!SumberPesananTempat, Ledger!Shops
  <2>2. IsFiniteSet(os) /\ n \in Nat
    BY <2>1, FS_Subset, FS_CardinalityType DEF BooksAssumed
  <2>3. \A o \in os : order[o].at \in Nat
    <3> SUFFICES ASSUME NEW o \in os PROVE order[o].at \in Nat
      OBVIOUS
    <3>1. Legal(order[o], now) /\ order[o].source # "" /\ now \in Nat
      BY <2>1, LedgerCurrent DEF Ledger!Shops
    <3> DEFINE t == order[o].at
    <3>2. t \in 0..now
      BY <3>1 DEF Legal
    <3> HIDE DEF t
    <3>3. now \in Nat
      BY <3>1
    <3>4. t \in Nat
      BY <3>2, <3>3
    <3> QED
      BY <3>4 DEF t
  <2>4. /\ page \subseteq os /\ Cardinality(page) = Ledger!Min({limit, n})
        /\ \A o \in page, x \in os \ page : order[o].at >= order[x].at
    BY OneCount DEF Ledger!Pages
  <2>5. limit \in 1..n
    OBVIOUS
  <2> HIDE DEF os, n
  <2>6. Cardinality(page) # 0
    <3> DEFINE c == Cardinality(page)
               T == {limit, n}
    <3>1. limit \in Nat /\ limit >= 1 /\ n >= 1
      <4>1. n \in Int /\ limit \in 1..n
        BY <2>2, <2>5
      <4> QED
        BY <4>1, SMT
    <3>2. T \in SUBSET Nat /\ T # {}
      BY <2>2, <3>1
    <3>3. c = Ledger!Min(T)
      BY <2>4
    <3> HIDE DEF c, T
    <3>4. c \in T
      BY <3>2, <3>3, Least
    <3>5. c = limit \/ c = n
      BY <3>4 DEF T
    <3>6. c # 0
      BY <2>2, <3>1, <3>5
    <3> QED
      BY <3>6 DEF c
  <2>7. page # {}
    BY <2>6, FS_EmptySet
  <2>8. times \in SUBSET Nat /\ times # {} /\ cursor = Ledger!Min(times)
    BY <2>3, <2>4, <2>7 DEF Ledger!NextCursor
  <2>9. cursor \in times /\ \A x \in times : cursor <= x
    <3> HIDE DEF times, cursor
    <3> QED
      BY <2>8, Least
  <2>10. PICK first \in page : order[first].at = cursor
    BY <2>9
  <2> HIDE DEF cursor
  <2>11. cursor \in Nat
    BY <2>8, <2>9
  <2>12. page \cap Ledger!Before(os, cursor) = {}
    <3> SUFFICES ASSUME NEW o \in page, o \in Ledger!Before(os, cursor) PROVE FALSE
      OBVIOUS
    <3> DEFINE t == order[o].at
    <3>1. t < cursor /\ cursor <= t /\ t \in Nat
      BY <2>3, <2>4, <2>9 DEF Ledger!Before
    <3> HIDE DEF t
    <3> QED
      BY <2>11, <3>1
  <2>13. \A o \in os \ (page \cup Ledger!Before(os, cursor)) : order[o].at = cursor
    <3> SUFFICES ASSUME NEW o \in os, o \notin page, o \notin Ledger!Before(os, cursor) PROVE order[o].at = cursor
      OBVIOUS
    <3> DEFINE t == order[o].at
    <3>1. t \in Nat /\ ~(t < cursor) /\ cursor >= t
      BY <2>3, <2>4, <2>10 DEF Ledger!Before
    <3> HIDE DEF t
    <3>2. t = cursor
      BY <2>11, <3>1
    <3> QED
      BY <3>2 DEF t
  <2> QED
    BY <2>12, <2>13 DEF os, cursor
<1> QED
  BY <1>1, <1>2

\* What is past stands.
LEMMA MoneyOf ==
    ASSUME NEW q, NEW os, os \subseteq Orders
    PROVE  /\ Ledger!MapThenSumSet(LAMBDA o : q[o].total - q[o].ship, os) = SumOf([o \in Orders |-> q[o].total - q[o].ship], os)
           /\ Ledger!MapThenSumSet(LAMBDA o : q[o].cost, os) = SumOf([o \in Orders |-> q[o].cost], os)
<1>1. Ledger!MapThenSumSet(LAMBDA o : q[o].total - q[o].ship, os) = SumOf([o \in Orders |-> q[o].total - q[o].ship], os)
  <2> DEFINE net(o) == q[o].total - q[o].ship
             f == [o \in Orders |-> q[o].total - q[o].ship]
  <2> DEFINE Shows(g) == g = [T \in SUBSET os |->
                IF T = {} THEN 0
                ELSE net((CHOOSE x \in T : TRUE)) + g[T \ {CHOOSE x \in T : TRUE}]]
  <2>1. Ledger!MapThenSumSet(LAMBDA o : q[o].total - q[o].ship, os) = (CHOOSE g : Shows(g))[os]
    BY DEF Ledger!MapThenSumSet, Ledger!MapThenFoldSet
  <2>2. ASSUME NEW T \in SUBSET os, T # {}
        PROVE  net((CHOOSE x \in T : TRUE)) = f[CHOOSE x \in T : TRUE]
    <3>1. (CHOOSE x \in T : TRUE) \in T /\ (CHOOSE x \in T : TRUE) \in os
      BY <2>2
    <3> QED
      BY <3>1
  <2>3. ASSUME NEW g PROVE Shows(g) <=> SumsOf(f, os, g)
    BY <2>2 DEF SumsOf
  <2>4. (CHOOSE g : Shows(g)) = (CHOOSE g : SumsOf(f, os, g))
    <3> HIDE DEF Shows
    <3> QED
      BY <2>3
  <2> QED
    BY <2>1, <2>4 DEF SumOf

<1>2. Ledger!MapThenSumSet(LAMBDA o : q[o].cost, os) = SumOf([o \in Orders |-> q[o].cost], os)
  <2> DEFINE cost(o) == q[o].cost
             f == [o \in Orders |-> q[o].cost]
  <2> DEFINE Shows(g) == g = [T \in SUBSET os |->
                IF T = {} THEN 0
                ELSE cost((CHOOSE x \in T : TRUE)) + g[T \ {CHOOSE x \in T : TRUE}]]
  <2>1. Ledger!MapThenSumSet(LAMBDA o : q[o].cost, os) = (CHOOSE g : Shows(g))[os]
    BY DEF Ledger!MapThenSumSet, Ledger!MapThenFoldSet
  <2>2. ASSUME NEW T \in SUBSET os, T # {}
        PROVE  cost((CHOOSE x \in T : TRUE)) = f[CHOOSE x \in T : TRUE]
    <3>1. (CHOOSE x \in T : TRUE) \in T /\ (CHOOSE x \in T : TRUE) \in os
      BY <2>2
    <3> QED
      BY <3>1
  <2>3. ASSUME NEW g PROVE Shows(g) <=> SumsOf(f, os, g)
    BY <2>2 DEF SumsOf
  <2>4. (CHOOSE g : Shows(g)) = (CHOOSE g : SumsOf(f, os, g))
    <3> HIDE DEF Shows
    <3> QED
      BY <2>3
  <2> QED
    BY <2>1, <2>4 DEF SumOf

<1> QED
  BY <1>1, <1>2

\* The statement of day d, of the rows q and the expenses x.
Statement(q, x, d) ==
    LET os == {o \in Orders : q[o].st = "completed" /\ Ledger!DayOf(q[o].at) \in d..d}
        revenue == Ledger!MapThenSumSet(LAMBDA o : q[o].total - q[o].ship, os)
        cogs == Ledger!MapThenSumSet(LAMBDA o : q[o].cost, os)
        spent == Cardinality({e \in Expenses : x[e].st = "live" /\ x[e].day \in d..d})
    IN [revenue |-> revenue, cogs |-> cogs, spent |-> spent, net |-> revenue - cogs - spent]

Stated == \A x : Ledger!ProfitLoss(x, x, "") = Statement(order, expense, x)
LEMMA StatementIs == Stated
  BY OneCount DEF Stated, Ledger!ProfitLoss, Statement, Ledger!FindCompletedForAggregate, Ledger!OfSource, Ledger!SumTotal, Ledger!CostOf

\* What an order cost and brought is written when it is made.
FiguresStay == \A o \in Orders : order[o].st # "none" =>
                   order'[o].total = order[o].total /\ order'[o].cost = order[o].cost

LEMMA OneRowStays ==
    ASSUME BooksAssumed, LedgerIInv, NEW o \in Orders, NEW r, order' = [order EXCEPT ![o] = r],
           order[o].st # "none" => r.total = order[o].total /\ r.cost = order[o].cost
    PROVE  FiguresStay
BY LedgerCurrent DEF FiguresStay

LEMMA FiguresAreKept == ASSUME BooksAssumed, LedgerIInv, [Ledger!Next]_(Ledger!vars) PROVE FiguresStay
<1>1. ASSUME NEW o \in Orders, order[o].st = "none", \E r : order' = [order EXCEPT ![o] = r]
      PROVE  FiguresStay
  BY <1>1, OneRowStays
<1>2. ASSUME NEW o \in Orders, NEW p \in Ledger!Payments, Ledger!SaleCreate(o, p)
      PROVE  FiguresStay
  BY <1>1, <1>2 DEF Ledger!SaleCreate
<1>3. ASSUME NEW o \in Orders, NEW ship \in Shipping, NEW source \in Ledger!Shops, Ledger!CreateOrder(o, source, ship)
      PROVE  FiguresStay
  BY <1>1, <1>3 DEF Ledger!CreateOrder
<1>4. ASSUME NEW o \in Orders, Ledger!CreatePending(o)
      PROVE  FiguresStay
  BY <1>1, <1>4 DEF Ledger!CreatePending
<1>5. ASSUME NEW o \in Orders,
             \/ \E p : Ledger!MarkAsPaid(o, p) \/ Ledger!EditPayments(o, p)
             \/ \E ship : Ledger!AdjustShipping(o, ship)
             \/ Ledger!ConfirmPaid(o) \/ Ledger!CancelEcom(o) \/ Ledger!ConfirmReceived(o)
             \/ Ledger!NotifyFailed(o) \/ Ledger!SyncBiteshipStatus(o) \/ Ledger!SetShipping(o)
             \/ Ledger!CancelOrder(o) \/ Ledger!RefundCreate(o)
      PROVE  FiguresStay
  <2>1. order[o] \in Ledger!Row /\ order \in [Orders -> Ledger!Row]
    BY LedgerCurrent
  <2>2. ASSUME NEW st, NEW ship, NEW pays,
                order' = [order EXCEPT ![o] = [order[o] EXCEPT !.st = st, !.ship = ship, !.pays = pays]]
         PROVE  FiguresStay
    <3> DEFINE r == [order[o] EXCEPT !.st = st, !.ship = ship, !.pays = pays]
    <3>1. r.total = order[o].total /\ r.cost = order[o].cost
      BY <2>1 DEF Ledger!Row
    <3> HIDE DEF r
    <3> QED
      BY <2>2, <3>1, OneRowStays DEF r
  <2>3. ASSUME NEW p, Ledger!MarkAsPaid(o, p) PROVE FiguresStay
    <3>1. order' = [order EXCEPT ![o] = [order[o] EXCEPT !.st = "completed", !.ship = order[o].ship, !.pays = p]]
      BY <2>1, <2>3 DEF Ledger!MarkAsPaid, Ledger!Row
    <3> QED
      BY <2>2, <3>1
  <2>4. ASSUME NEW p, Ledger!EditPayments(o, p) PROVE FiguresStay
    <3>1. order' = [order EXCEPT ![o] = [order[o] EXCEPT !.st = order[o].st, !.ship = order[o].ship, !.pays = p]]
      BY <2>1, <2>4 DEF Ledger!EditPayments, Ledger!Row
    <3> QED
      BY <2>2, <3>1
  <2>5. ASSUME NEW ship, Ledger!AdjustShipping(o, ship) PROVE FiguresStay
    <3>1. order' = [order EXCEPT ![o] = [order[o] EXCEPT !.st = order[o].st, !.ship = ship, !.pays = order[o].pays]]
      BY <2>1, <2>5 DEF Ledger!AdjustShipping, Ledger!Row
    <3> QED
      BY <2>2, <3>1
  <2>6. CASE Ledger!ConfirmPaid(o)
    BY <2>1, <2>6 DEF Ledger!ConfirmPaid, Ledger!Row, FiguresStay
  <2>7. CASE Ledger!CancelEcom(o)
    BY <2>1, <2>7 DEF Ledger!CancelEcom, Ledger!BothColumns, Ledger!Row, FiguresStay
  <2>8. CASE Ledger!ConfirmReceived(o)
    BY <2>1, <2>8 DEF Ledger!ConfirmReceived, Ledger!BothColumns, Ledger!Row, FiguresStay
  <2>9. CASE Ledger!NotifyFailed(o)
    BY <2>1, <2>9 DEF Ledger!NotifyFailed, Ledger!Row, FiguresStay
  <2>10. CASE Ledger!SyncBiteshipStatus(o)
    BY <2>1, <2>10 DEF Ledger!SyncBiteshipStatus, Ledger!Row, FiguresStay
  <2>11. CASE Ledger!SetShipping(o)
    BY <2>1, <2>11 DEF Ledger!SetShipping, Ledger!Row, FiguresStay
  <2>12. CASE Ledger!CancelOrder(o)
    BY <2>1, <2>12 DEF Ledger!CancelOrder, Ledger!Row, FiguresStay
  <2>13. CASE Ledger!RefundCreate(o)
    BY <2>1, <2>13 DEF Ledger!RefundCreate, Ledger!Row, FiguresStay
  <2> QED
    BY <1>5, <2>3, <2>4, <2>5, <2>6, <2>7, <2>8, <2>9, <2>10, <2>11,
       <2>12, <2>13
<1>6. ASSUME UNCHANGED order PROVE FiguresStay
  BY <1>6 DEF FiguresStay
<1> QED
  BY <1>2, <1>3, <1>4, <1>5, <1>6 DEF Ledger!Next, Ledger!vars, Ledger!CreateExpense, Ledger!UpdateExpense,
     Ledger!DeleteExpense, Ledger!UpdatePrice, Ledger!Tick

LEMMA DaysDo == ASSUME BooksAssumed, LedgerIInv, LedgerIInv', DatesStay, FiguresStay PROVE Ledger!DayKept
<1> SUFFICES ASSUME NEW d \in Ledger!Days,
                    \A o \in Orders : Ledger!DayOf(order'[o].at) = d =>
                       /\ order[o].st = "completed" <=> order'[o].st = "completed"
                       /\ order[o].st = "completed" => order'[o].ship = order[o].ship,
                    \A e \in Expenses : expense'[e] # expense[e] => d \notin {expense[e].day, expense'[e].day}
             PROVE  Ledger!ProfitLoss(d, d, "")' = Ledger!ProfitLoss(d, d, "")
  BY DEF Ledger!DayKept, Ledger!Reopened, Ledger!Reweighed, Ledger!Completed
<1> DEFINE S == {o \in Orders : order[o].st = "completed" /\ Ledger!DayOf(order[o].at) \in d..d}
           S2 == {o \in Orders : order'[o].st = "completed" /\ Ledger!DayOf(order'[o].at) \in d..d}
           E == {e \in Expenses : expense[e].st = "live" /\ expense[e].day \in d..d}
           E2 == {e \in Expenses : expense'[e].st = "live" /\ expense'[e].day \in d..d}
<1>1. d \in Int /\ \A x : x \in d..d <=> x = d
  BY DaysFinite
<1>2. S2 = S /\ \A o \in S : /\ order'[o].total = order[o].total /\ order'[o].cost = order[o].cost
                             /\ order'[o].ship = order[o].ship
  <2>1. \A o \in Orders : order[o].st = "completed" => order'[o].at = order[o].at
    BY DEF DatesStay
  <2>2. \A o \in Orders : o \in S <=> o \in S2
    BY <1>1, <2>1
  <2>3. \A o \in S : Ledger!DayOf(order'[o].at) = d /\ order[o].st = "completed" /\ o \in Orders
    BY <1>1, <2>1
  <2> QED
    BY <2>2, <2>3 DEF FiguresStay
<1>3. E2 = E
  BY <1>1
<1> DEFINE net == [o \in Orders |-> order[o].total - order[o].ship]
           net2 == [o \in Orders |-> order'[o].total - order'[o].ship]
           cost == [o \in Orders |-> order[o].cost]
           cost2 == [o \in Orders |-> order'[o].cost]
<1>4. S \subseteq Orders /\ (\A o \in S : net2[o] = net[o]) /\ \A o \in S : cost2[o] = cost[o]
  BY <1>2
<1>5. SumOf(net2, S) = SumOf(net, S) /\ SumOf(cost2, S) = SumOf(cost, S)
  <2> HIDE DEF net, net2, cost, cost2, S
  <2> QED
    BY <1>4, SumSame
<1>6. /\ Ledger!MapThenSumSet(LAMBDA o : order[o].total - order[o].ship, S) = SumOf(net, S)
      /\ Ledger!MapThenSumSet(LAMBDA o : order[o].cost, S) = SumOf(cost, S)
  <2> HIDE DEF S
  <2> QED
    BY <1>4, MoneyOf
<1>7. /\ Ledger!MapThenSumSet(LAMBDA o : order'[o].total - order'[o].ship, S) = SumOf(net2, S)
      /\ Ledger!MapThenSumSet(LAMBDA o : order'[o].cost, S) = SumOf(cost2, S)
  <2> HIDE DEF S
  <2> QED
    BY <1>4, MoneyOf
<1> DEFINE Report(r, c, n) == [revenue |-> r, cogs |-> c, spent |-> n, net |-> r - c - n]
<1>8. Ledger!ProfitLoss(d, d, "") = Report(SumOf(net, S), SumOf(cost, S), Cardinality(E))
  <2>1. Ledger!ProfitLoss(d, d, "") = Statement(order, expense, d)
    BY StatementIs DEF Stated
  <2>2. Statement(order, expense, d) = Report(Ledger!MapThenSumSet(LAMBDA o : order[o].total - order[o].ship, S),
                                              Ledger!MapThenSumSet(LAMBDA o : order[o].cost, S), Cardinality(E))
    BY DEF Statement
  <2> QED
    BY <1>6, <2>1, <2>2
<1>9. Ledger!ProfitLoss(d, d, "")' = Report(SumOf(net2, S), SumOf(cost2, S), Cardinality(E))
  <2>1. Ledger!ProfitLoss(d, d, "")' = Statement(order', expense', d)
    <3>1. Stated'
      BY StatementIs, PTL
    <3> QED
      BY <3>1 DEF Stated
  <2>2. Statement(order', expense', d) = Report(Ledger!MapThenSumSet(LAMBDA o : order'[o].total - order'[o].ship, S2),
                                                Ledger!MapThenSumSet(LAMBDA o : order'[o].cost, S2), Cardinality(E2))
    BY DEF Statement
  <2> HIDE DEF S, S2, E, E2, Report
  <2> QED
    BY <1>2, <1>3, <1>7, <2>1, <2>2
<1> QED
  BY <1>5, <1>8, <1>9

-----------------------------------------------------------------------------
(* AfterSale and Courier, in the names of their own proofs.                *)

ClaimsProofs == INSTANCE AfterSale_proofs WITH Total <- Charged, lost <- lostMails, req <- afterReq
ParcelProofs == INSTANCE Courier_proofs WITH
        Orders <- Parcels, NoOrder <- NoParcel, order <- parcel, lost <- lostShipments, req <- courierReq

LEMMA ClaimsRun == Claims!Spec => ClaimsProofs!Spec
<1>1. Claims!Init <=> ClaimsProofs!Init
  BY DEF Claims!order, ClaimsProofs!order, Claims!complaints, ClaimsProofs!complaints,
         Claims!reviews, ClaimsProofs!reviews, Claims!alerts, ClaimsProofs!alerts, Claims!vars,
         ClaimsProofs!vars, Claims!NoReview, ClaimsProofs!NoReview, Claims!Idle, ClaimsProofs!Idle,
         Claims!Init, ClaimsProofs!Init, Claims!Take, ClaimsProofs!Take, Claims!Done,
         ClaimsProofs!Done, Claims!Advance, ClaimsProofs!Advance, Claims!Return,
         ClaimsProofs!Return, Claims!Active, ClaimsProofs!Active, Claims!Closed,
         ClaimsProofs!Closed, Claims!ActiveOnes, ClaimsProofs!ActiveOnes, Claims!MaySubmit,
         ClaimsProofs!MaySubmit, Claims!BeginSubmit, ClaimsProofs!BeginSubmit, Claims!CommitSubmit,
         ClaimsProofs!CommitSubmit, Claims!Reply, ClaimsProofs!Reply, Claims!Refunded,
         ClaimsProofs!Refunded, Claims!Create, ClaimsProofs!Create, Claims!CanReview,
         ClaimsProofs!CanReview, Claims!BeginUpsert, ClaimsProofs!BeginUpsert, Claims!CommitUpsert,
         ClaimsProofs!CommitUpsert, Claims!ToggleHide, ClaimsProofs!ToggleHide,
         Claims!ListForProduct, ClaimsProofs!ListForProduct, Claims!Subscribe,
         ClaimsProofs!Subscribe, Claims!Unsubscribe, ClaimsProofs!Unsubscribe, Claims!Unnotified,
         ClaimsProofs!Unnotified, Claims!TriggerRestockNotif, ClaimsProofs!TriggerRestockNotif,
         Claims!SendAlert, ClaimsProofs!SendAlert, Claims!MarkAlert, ClaimsProofs!MarkAlert,
         Claims!Abandon, ClaimsProofs!Abandon, Claims!Next, ClaimsProofs!Next
<1>2. [Claims!Next]_(Claims!vars) <=> [ClaimsProofs!Next]_(ClaimsProofs!vars)
  BY DEF Claims!order, ClaimsProofs!order, Claims!complaints, ClaimsProofs!complaints,
         Claims!reviews, ClaimsProofs!reviews, Claims!alerts, ClaimsProofs!alerts, Claims!vars,
         ClaimsProofs!vars, Claims!NoReview, ClaimsProofs!NoReview, Claims!Idle, ClaimsProofs!Idle,
         Claims!Init, ClaimsProofs!Init, Claims!Take, ClaimsProofs!Take, Claims!Done,
         ClaimsProofs!Done, Claims!Advance, ClaimsProofs!Advance, Claims!Return,
         ClaimsProofs!Return, Claims!Active, ClaimsProofs!Active, Claims!Closed,
         ClaimsProofs!Closed, Claims!ActiveOnes, ClaimsProofs!ActiveOnes, Claims!MaySubmit,
         ClaimsProofs!MaySubmit, Claims!BeginSubmit, ClaimsProofs!BeginSubmit, Claims!CommitSubmit,
         ClaimsProofs!CommitSubmit, Claims!Reply, ClaimsProofs!Reply, Claims!Refunded,
         ClaimsProofs!Refunded, Claims!Create, ClaimsProofs!Create, Claims!CanReview,
         ClaimsProofs!CanReview, Claims!BeginUpsert, ClaimsProofs!BeginUpsert, Claims!CommitUpsert,
         ClaimsProofs!CommitUpsert, Claims!ToggleHide, ClaimsProofs!ToggleHide,
         Claims!ListForProduct, ClaimsProofs!ListForProduct, Claims!Subscribe,
         ClaimsProofs!Subscribe, Claims!Unsubscribe, ClaimsProofs!Unsubscribe, Claims!Unnotified,
         ClaimsProofs!Unnotified, Claims!TriggerRestockNotif, ClaimsProofs!TriggerRestockNotif,
         Claims!SendAlert, ClaimsProofs!SendAlert, Claims!MarkAlert, ClaimsProofs!MarkAlert,
         Claims!Abandon, ClaimsProofs!Abandon, Claims!Next, ClaimsProofs!Next
<1> QED
  BY <1>1, <1>2, PTL DEF Claims!Spec, ClaimsProofs!Spec

LEMMA ClaimsMean ==
    /\ Claims!TypeOK <=> ClaimsProofs!TypeOK
    /\ Claims!OneActiveBounded <=> ClaimsProofs!OneActiveBounded
    /\ Claims!AlertsBounded <=> ClaimsProofs!AlertsBounded
    /\ Claims!DecisionsHold <=> ClaimsProofs!DecisionsHold
BY DEF Claims!order, ClaimsProofs!order, Claims!complaints, ClaimsProofs!complaints,
       Claims!reviews, ClaimsProofs!reviews, Claims!alerts, ClaimsProofs!alerts, Claims!vars,
       ClaimsProofs!vars, Claims!NoReview, ClaimsProofs!NoReview, Claims!Idle, ClaimsProofs!Idle,
       Claims!Init, ClaimsProofs!Init, Claims!Take, ClaimsProofs!Take, Claims!Done,
       ClaimsProofs!Done, Claims!Advance, ClaimsProofs!Advance, Claims!Return, ClaimsProofs!Return,
       Claims!Active, ClaimsProofs!Active, Claims!Closed, ClaimsProofs!Closed, Claims!ActiveOnes,
       ClaimsProofs!ActiveOnes, Claims!MaySubmit, ClaimsProofs!MaySubmit, Claims!BeginSubmit,
       ClaimsProofs!BeginSubmit, Claims!CommitSubmit, ClaimsProofs!CommitSubmit, Claims!Reply,
       ClaimsProofs!Reply, Claims!Refunded, ClaimsProofs!Refunded, Claims!Create,
       ClaimsProofs!Create, Claims!CanReview, ClaimsProofs!CanReview, Claims!BeginUpsert,
       ClaimsProofs!BeginUpsert, Claims!CommitUpsert, ClaimsProofs!CommitUpsert, Claims!ToggleHide,
       ClaimsProofs!ToggleHide, Claims!ListForProduct, ClaimsProofs!ListForProduct,
       Claims!Subscribe, ClaimsProofs!Subscribe, Claims!Unsubscribe, ClaimsProofs!Unsubscribe,
       Claims!Unnotified, ClaimsProofs!Unnotified, Claims!TriggerRestockNotif,
       ClaimsProofs!TriggerRestockNotif, Claims!SendAlert, ClaimsProofs!SendAlert,
       Claims!MarkAlert, ClaimsProofs!MarkAlert, Claims!Abandon, ClaimsProofs!Abandon, Claims!Next,
       ClaimsProofs!Next, Claims!Spec, ClaimsProofs!Spec, Claims!Reviews, ClaimsProofs!Reviews,
       Claims!TypeOK, ClaimsProofs!TypeOK, Claims!OneActiveBounded, ClaimsProofs!OneActiveBounded,
       Claims!RefundCloses, ClaimsProofs!RefundCloses, Claims!ReviewsCount,
       ClaimsProofs!ReviewsCount, Claims!AlertsBounded, ClaimsProofs!AlertsBounded,
       Claims!DecisionsHold, ClaimsProofs!DecisionsHold, Claims!Cardinality,
       ClaimsProofs!Cardinality

LEMMA ParcelRun == Parcel!Spec => ParcelProofs!Spec
<1>1. Parcel!Init <=> ParcelProofs!Init
  BY DEF Parcel!vars, ParcelProofs!vars, Parcel!rows, ParcelProofs!rows, Parcel!Empty,
         ParcelProofs!Empty, Parcel!Home, ParcelProofs!Home, Parcel!Store, ParcelProofs!Store,
         Parcel!Shops, ParcelProofs!Shops, Parcel!Services, ParcelProofs!Services, Parcel!Instant,
         ParcelProofs!Instant, Parcel!stubRates, ParcelProofs!stubRates, Parcel!Spellings,
         ParcelProofs!Spellings, Parcel!normalizeCourierCompany,
         ParcelProofs!normalizeCourierCompany, Parcel!normalizeCourierService,
         ParcelProofs!normalizeCourierService, Parcel!Normal, ParcelProofs!Normal,
         Parcel!PageGrams, ParcelProofs!PageGrams, Parcel!BookingGrams, ParcelProofs!BookingGrams,
         Parcel!WithOriginOverride, ParcelProofs!WithOriginOverride, Parcel!WithOriginCoords,
         ParcelProofs!WithOriginCoords, Parcel!biteshipWithStoreOrigin,
         ParcelProofs!biteshipWithStoreOrigin, Parcel!IsConfigured, ParcelProofs!IsConfigured,
         Parcel!CanCreateOrder, ParcelProofs!CanCreateOrder, Parcel!SearchAreas,
         ParcelProofs!SearchAreas, Parcel!Pricing, ParcelProofs!Pricing, Parcel!NoQuote,
         ParcelProofs!NoQuote, Parcel!NewOrder, ParcelProofs!NewOrder, Parcel!Idle,
         ParcelProofs!Idle, Parcel!Init, ParcelProofs!Init, Parcel!Edit, ParcelProofs!Edit,
         Parcel!Take, ParcelProofs!Take, Parcel!Done, ParcelProofs!Done, Parcel!UpdatePickup,
         ParcelProofs!UpdatePickup, Parcel!UpdateAddress, ParcelProofs!UpdateAddress,
         Parcel!UpdateWeight, ParcelProofs!UpdateWeight, Parcel!GetRates, ParcelProofs!GetRates,
         Parcel!CreateOrder, ParcelProofs!CreateOrder, Parcel!Pay, ParcelProofs!Pay, Parcel!Cancel,
         ParcelProofs!Cancel, Parcel!Unbooked, ParcelProofs!Unbooked, Parcel!BeginShipment,
         ParcelProofs!BeginShipment, Parcel!AskCourier, ParcelProofs!AskCourier,
         Parcel!SaveShipment, ParcelProofs!SaveShipment, Parcel!Abandon, ParcelProofs!Abandon,
         Parcel!Next, ParcelProofs!Next
<1>2. [Parcel!Next]_(Parcel!vars) <=> [ParcelProofs!Next]_(ParcelProofs!vars)
  BY DEF Parcel!vars, ParcelProofs!vars, Parcel!rows, ParcelProofs!rows, Parcel!Empty,
         ParcelProofs!Empty, Parcel!Home, ParcelProofs!Home, Parcel!Store, ParcelProofs!Store,
         Parcel!Shops, ParcelProofs!Shops, Parcel!Services, ParcelProofs!Services, Parcel!Instant,
         ParcelProofs!Instant, Parcel!stubRates, ParcelProofs!stubRates, Parcel!Spellings,
         ParcelProofs!Spellings, Parcel!normalizeCourierCompany,
         ParcelProofs!normalizeCourierCompany, Parcel!normalizeCourierService,
         ParcelProofs!normalizeCourierService, Parcel!Normal, ParcelProofs!Normal,
         Parcel!PageGrams, ParcelProofs!PageGrams, Parcel!BookingGrams, ParcelProofs!BookingGrams,
         Parcel!WithOriginOverride, ParcelProofs!WithOriginOverride, Parcel!WithOriginCoords,
         ParcelProofs!WithOriginCoords, Parcel!biteshipWithStoreOrigin,
         ParcelProofs!biteshipWithStoreOrigin, Parcel!IsConfigured, ParcelProofs!IsConfigured,
         Parcel!CanCreateOrder, ParcelProofs!CanCreateOrder, Parcel!SearchAreas,
         ParcelProofs!SearchAreas, Parcel!Pricing, ParcelProofs!Pricing, Parcel!NoQuote,
         ParcelProofs!NoQuote, Parcel!NewOrder, ParcelProofs!NewOrder, Parcel!Idle,
         ParcelProofs!Idle, Parcel!Init, ParcelProofs!Init, Parcel!Edit, ParcelProofs!Edit,
         Parcel!Take, ParcelProofs!Take, Parcel!Done, ParcelProofs!Done, Parcel!UpdatePickup,
         ParcelProofs!UpdatePickup, Parcel!UpdateAddress, ParcelProofs!UpdateAddress,
         Parcel!UpdateWeight, ParcelProofs!UpdateWeight, Parcel!GetRates, ParcelProofs!GetRates,
         Parcel!CreateOrder, ParcelProofs!CreateOrder, Parcel!Pay, ParcelProofs!Pay, Parcel!Cancel,
         ParcelProofs!Cancel, Parcel!Unbooked, ParcelProofs!Unbooked, Parcel!BeginShipment,
         ParcelProofs!BeginShipment, Parcel!AskCourier, ParcelProofs!AskCourier,
         Parcel!SaveShipment, ParcelProofs!SaveShipment, Parcel!Abandon, ParcelProofs!Abandon,
         Parcel!Next, ParcelProofs!Next
<1> QED
  BY <1>1, <1>2, PTL DEF Parcel!Spec, ParcelProofs!Spec

LEMMA ParcelMeans ==
    /\ Parcel!TypeOK <=> ParcelProofs!TypeOK
    /\ Parcel!BookedAsQuoted <=> ParcelProofs!BookedAsQuoted
    /\ Parcel!BookedBounded <=> ParcelProofs!BookedBounded
BY DEF Parcel!vars, ParcelProofs!vars, Parcel!rows, ParcelProofs!rows, Parcel!Empty,
       ParcelProofs!Empty, Parcel!Home, ParcelProofs!Home, Parcel!Store, ParcelProofs!Store,
       Parcel!Shops, ParcelProofs!Shops, Parcel!Services, ParcelProofs!Services, Parcel!Instant,
       ParcelProofs!Instant, Parcel!stubRates, ParcelProofs!stubRates, Parcel!Spellings,
       ParcelProofs!Spellings, Parcel!normalizeCourierCompany,
       ParcelProofs!normalizeCourierCompany, Parcel!normalizeCourierService,
       ParcelProofs!normalizeCourierService, Parcel!Normal, ParcelProofs!Normal, Parcel!PageGrams,
       ParcelProofs!PageGrams, Parcel!BookingGrams, ParcelProofs!BookingGrams,
       Parcel!WithOriginOverride, ParcelProofs!WithOriginOverride, Parcel!WithOriginCoords,
       ParcelProofs!WithOriginCoords, Parcel!biteshipWithStoreOrigin,
       ParcelProofs!biteshipWithStoreOrigin, Parcel!IsConfigured, ParcelProofs!IsConfigured,
       Parcel!CanCreateOrder, ParcelProofs!CanCreateOrder, Parcel!SearchAreas,
       ParcelProofs!SearchAreas, Parcel!Pricing, ParcelProofs!Pricing, Parcel!NoQuote,
       ParcelProofs!NoQuote, Parcel!NewOrder, ParcelProofs!NewOrder, Parcel!Idle,
       ParcelProofs!Idle, Parcel!Init, ParcelProofs!Init, Parcel!Edit, ParcelProofs!Edit,
       Parcel!Take, ParcelProofs!Take, Parcel!Done, ParcelProofs!Done, Parcel!UpdatePickup,
       ParcelProofs!UpdatePickup, Parcel!UpdateAddress, ParcelProofs!UpdateAddress,
       Parcel!UpdateWeight, ParcelProofs!UpdateWeight, Parcel!GetRates, ParcelProofs!GetRates,
       Parcel!CreateOrder, ParcelProofs!CreateOrder, Parcel!Pay, ParcelProofs!Pay, Parcel!Cancel,
       ParcelProofs!Cancel, Parcel!Unbooked, ParcelProofs!Unbooked, Parcel!BeginShipment,
       ParcelProofs!BeginShipment, Parcel!AskCourier, ParcelProofs!AskCourier, Parcel!SaveShipment,
       ParcelProofs!SaveShipment, Parcel!Abandon, ParcelProofs!Abandon, Parcel!Next,
       ParcelProofs!Next, Parcel!Spec, ParcelProofs!Spec, Parcel!Options, ParcelProofs!Options,
       Parcel!Quotes, ParcelProofs!Quotes, Parcel!TypeOK, ParcelProofs!TypeOK, Parcel!Shipped,
       ParcelProofs!Shipped, Parcel!BookedAsQuoted, ParcelProofs!BookedAsQuoted,
       Parcel!BookedBounded, ParcelProofs!BookedBounded, Parcel!Cardinality,
       ParcelProofs!Cardinality

LEMMA ClaimsAlways ==
    Claims!Spec => [](Claims!TypeOK /\ Claims!OneActiveBounded /\ Claims!AlertsBounded /\ Claims!DecisionsHold)
<1>1. ClaimsProofs!Names /\ ClaimsProofs!Bounds
  <2>1. AfterSaleAssumed /\ (ClaimsProofs!IsFiniteSet(Slots) <=> IsFiniteSet(Slots))
        /\ (ClaimsProofs!IsFiniteSet(Complaints) <=> IsFiniteSet(Complaints))
    BY BackAssumption DEF IsFiniteSet, ClaimsProofs!IsFiniteSet
  <2> QED
    BY <2>1 DEF AfterSaleAssumed, ClaimsProofs!Names, ClaimsProofs!Bounds
<1>2. ClaimsProofs!Spec => [](ClaimsProofs!TypeOK /\ ClaimsProofs!OneActiveBounded /\ ClaimsProofs!AlertsBounded)
  BY <1>1, ClaimsProofs!DoublesStayBounded
<1>3. ClaimsProofs!Spec => []ClaimsProofs!DecisionsHold
  BY <1>1, ClaimsProofs!DecisionsAlwaysHold
<1> QED
  BY <1>2, <1>3, ClaimsRun, ClaimsMean, PTL

LEMMA ParcelAlways ==
    Parcel!Spec => [](Parcel!TypeOK /\ Parcel!BookedAsQuoted /\ Parcel!BookedBounded)
<1>1. ParcelProofs!Configured /\ IsFiniteSet(Slots)
  <2>1. CourierAssumed
    BY BackAssumption
  <2>2. Parcel!Shops = ParcelProofs!Shops /\ Parcel!Empty = ParcelProofs!Empty
    BY DEF Parcel!Shops, ParcelProofs!Shops, Parcel!Home, ParcelProofs!Home, Parcel!Store, ParcelProofs!Store,
           Parcel!Empty, ParcelProofs!Empty
  <2> QED
    BY <2>1, <2>2 DEF CourierAssumed, ParcelProofs!Configured
<1>2. ParcelProofs!Spec => []ParcelProofs!IInv
  BY <1>1, ParcelProofs!AlwaysIInv
<1>3. ParcelProofs!Spec => []ParcelProofs!BookedAsQuoted
  BY <1>1, ParcelProofs!AlwaysBookedAsQuoted
<1>4. ParcelProofs!Spec => []ParcelProofs!BookedBounded
  BY <1>1, ParcelProofs!ShipmentsBounded DEF ParcelProofs!IsFiniteSet, IsFiniteSet
<1>5. ParcelProofs!IInv => ParcelProofs!TypeOK
  BY DEF ParcelProofs!IInv
<1> QED
  BY <1>2, <1>3, <1>4, <1>5, ParcelRun, ParcelMeans, PTL

-----------------------------------------------------------------------------
(* The parts together.                                                     *)

LEMMA PartsRun ==
    BackSpec => Spec /\ Claims!Spec /\ Parcel!Spec /\ Ledger!Spec /\ News!Spec /\ Chat!Spec /\ Log!Spec
<1>1. BackInit =>
          Init /\ Claims!Init /\ Parcel!Init /\ Ledger!Init /\ News!Init /\ Chat!Init /\ Log!Init
  BY DEF BackInit
<1>2. ASSUME [BackNext]_backVars
      PROVE  /\ [Next]_vars /\ [Claims!Next]_(Claims!vars) /\ [Parcel!Next]_(Parcel!vars)
             /\ [Ledger!Next]_(Ledger!vars) /\ [News!Next]_(News!vars) /\ [Chat!Next]_(Chat!vars)
             /\ [Log!Next]_(Log!vars)
  <2>1. Next \/ UNCHANGED vars
    BY <1>2 DEF BackNext, backVars
  <2>2. Claims!Next \/ UNCHANGED afterVars
    BY <1>2 DEF BackNext, backVars
  <2>3. Parcel!Next \/ UNCHANGED courierVars
    BY <1>2 DEF BackNext, backVars
  <2>4. Ledger!Next \/ UNCHANGED bookVars
    BY <1>2 DEF BackNext, backVars
  <2>5. News!Next \/ UNCHANGED noticeVars
    BY <1>2 DEF BackNext, backVars
  <2>6. Chat!Next \/ UNCHANGED whatsAppVars
    BY <1>2 DEF BackNext, backVars
  <2>7. Log!Next \/ UNCHANGED priceVars
    BY <1>2 DEF BackNext, backVars
  <2>8. UNCHANGED afterVars => UNCHANGED Claims!vars
    BY DEF afterVars, Claims!vars, Claims!order, Claims!complaints, Claims!reviews, Claims!alerts
  <2>9. UNCHANGED courierVars => UNCHANGED Parcel!vars
    BY DEF courierVars, Parcel!vars
  <2>10. UNCHANGED bookVars => UNCHANGED Ledger!vars
    BY DEF bookVars, Ledger!vars
  <2>11. UNCHANGED noticeVars => UNCHANGED News!vars
    BY DEF noticeVars, News!vars, News!orderVars, News!pushVars
  <2>12. UNCHANGED whatsAppVars => UNCHANGED Chat!vars
    BY DEF whatsAppVars, Chat!vars
  <2>13. UNCHANGED priceVars => UNCHANGED Log!vars
    BY DEF priceVars, Log!vars
  <2> QED
    BY <2>1, <2>2, <2>3, <2>4, <2>5, <2>6, <2>7, <2>8, <2>9, <2>10, <2>11, <2>12, <2>13
<1> QED
  BY <1>1, <1>2, PTL DEF BackSpec, Spec, Claims!Spec, Parcel!Spec, Ledger!Spec, News!Spec, Chat!Spec, Log!Spec

\* The invariants of the parts hold wherever the whole goes.
PartsInv == IInv /\ LedgerIInv /\ NewsIInv /\ ChatIInv /\ LogIInv /\ CountInv

LEMMA AlwaysPartsInv == BackSpec => []PartsInv
<1> USE BackAssumption
<1>1. Spec => []IInv
  <2>1. Init => IInv
    BY InitIInv
  <2>2. IInv /\ [Next]_vars => IInv'
    BY NextIInv
  <2> QED
    BY <2>1, <2>2, PTL DEF Spec
<1>2. Ledger!Spec => []LedgerIInv
  <2>1. Ledger!Init => LedgerIInv
    BY LedgerInitIInv
  <2>2. LedgerIInv /\ [Ledger!Next]_(Ledger!vars) => LedgerIInv'
    BY LedgerNextIInv
  <2> QED
    BY <2>1, <2>2, PTL DEF Ledger!Spec
<1>3. News!Spec => []NewsIInv
  <2>1. News!Init => NewsIInv
    BY NewsInitIInv
  <2>2. NewsIInv /\ [News!Next]_(News!vars) => NewsIInv'
    BY NewsNextIInv
  <2> QED
    BY <2>1, <2>2, PTL DEF News!Spec
<1>4. Chat!Spec => []ChatIInv
  <2>1. Chat!Init => ChatIInv
    BY ChatInitIInv
  <2>2. ChatIInv /\ [Chat!Next]_(Chat!vars) => ChatIInv'
    BY ChatNextIInv
  <2> QED
    BY <2>1, <2>2, PTL DEF Chat!Spec
<1>5. Log!Spec => [](LogIInv /\ CountInv)
  <2>1. Log!Init => LogIInv /\ CountInv
    BY LogInitIInv, InitCount
  <2>2. LogIInv /\ CountInv /\ [Log!Next]_(Log!vars) => (LogIInv /\ CountInv)'
    <3>1. LogIInv /\ [Log!Next]_(Log!vars) => LogIInv'
      BY LogNextIInv
    <3>2. LogIInv /\ LogIInv' /\ CountInv /\ [Log!Next]_(Log!vars) => CountInv'
      BY NextCount
    <3> QED
      BY <3>1, <3>2
  <2> QED
    BY <2>1, <2>2, PTL DEF Log!Spec
<1> QED
  BY <1>1, <1>2, <1>3, <1>4, <1>5, PartsRun, PTL DEF PartsInv

\* What the invariants say of a state.
LEMMA PartsSay ==
    ASSUME PartsInv
    PROVE  /\ TypeOK /\ RemindedOnce /\ PaidIsDated
           /\ Ledger!TypeOK /\ Ledger!ReportsAddUp /\ Ledger!CustomersAddUp /\ Ledger!PanelsAgree
           /\ Ledger!ListComplete
           /\ News!TypeOK /\ News!PaidToldBounded /\ News!CopiesBounded /\ News!BroadcastAddsUp
           /\ Chat!TypeOK /\ Chat!GapKept
           /\ Log!TypeOK /\ Log!OpenBounded /\ Log!HistoryTells
<1>1. TypeOK /\ RemindedOnce /\ PaidIsDated
  <2>1. RemindedOnce
    BY DEF PartsInv, IInv, RemindedOnce, DueDayAnnounced, ToldOK, DueOK, Owed, Answered, ToldOf, Behind,
           CronOK, TypeOK, Days
  <2>2. PaidIsDated
    BY DEF PartsInv, IInv, RowsOK, RowOK, PaidIsDated
  <2> QED
    BY <2>1, <2>2 DEF PartsInv, IInv
<1>2. Ledger!TypeOK
  BY DEF PartsInv, LedgerIInv
<1>3. Ledger!ReportsAddUp /\ Ledger!CustomersAddUp /\ Ledger!PanelsAgree /\ Ledger!ListComplete
  BY BackAssumption, ReportsAgree, CustomersAgree, PanelsDo, ListDoes DEF PartsInv
<1>4. News!TypeOK /\ News!PaidToldBounded /\ News!CopiesBounded /\ News!BroadcastAddsUp
  BY BackAssumption, NewsSays DEF PartsInv
<1>5. Chat!TypeOK /\ Chat!GapKept
  BY BackAssumption, ChatSays DEF PartsInv
<1>6. Log!TypeOK /\ Log!OpenBounded /\ Log!HistoryTells
  BY BackAssumption, LogSays DEF PartsInv
<1> QED
  BY <1>1, <1>2, <1>3, <1>4, <1>5, <1>6

-----------------------------------------------------------------------------
(* The theorems.                                                           *)

\* Every part keeps to its types.
THEOREM TypesAreCorrect == BackSpec => []AllTypesOK
<1>1. ASSUME PartsInv, Claims!TypeOK, Parcel!TypeOK PROVE AllTypesOK
  BY <1>1, PartsSay DEF AllTypesOK
<1> QED
  BY <1>1, AlwaysPartsInv, PartsRun, ClaimsAlways, ParcelAlways, PTL

\* However many handlers overlap and however many answers are lost, that is
\* how often something is done twice: complaints, alerts, shipments,
\* notices of payment, subscriptions, messages within the gap, open prices.
THEOREM DoublesStayBounded == BackSpec => []DoublesBounded
<1>1. ASSUME PartsInv, Claims!OneActiveBounded, Claims!AlertsBounded, Parcel!BookedBounded
      PROVE  DoublesBounded
  BY <1>1, PartsSay DEF DoublesBounded
<1> QED
  BY <1>1, AlwaysPartsInv, PartsRun, ClaimsAlways, ParcelAlways, PTL

\* A refund ends the complaint it names and a hidden review is not counted.
THEOREM DecisionsAlwaysHold == BackSpec => []DecisionsHold
<1>1. Claims!DecisionsHold => DecisionsHold
  BY DEF DecisionsHold
<1> QED
  BY <1>1, PartsRun, ClaimsAlways, PTL

\* The courier is asked for what the customer was quoted, unless something was
\* edited in between.
THEOREM AlwaysBookedAsQuoted == BackSpec => []BookedAsQuoted
<1>1. Parcel!BookedAsQuoted => BookedAsQuoted
  BY DEF BookedAsQuoted
<1> QED
  BY <1>1, PartsRun, ParcelAlways, PTL

\* However often the process is restarted, and whatever is edited or paid
\* meanwhile: no invoice is announced twice in a day, and an unpaid one whose
\* due day is over was announced, entered too late, or nobody was there.
THEOREM RemindersPunctual == BackSpec => []RemindedOnce
<1>1. PartsInv => RemindedOnce
  BY PartsSay
<1> QED
  BY <1>1, AlwaysPartsInv, PTL

\* Whatever is sold, paid, cancelled or refunded, by whichever handler: the
\* reports add up over shops, days, methods, categories and customers, the
\* panels agree with them and the list shows every order; paid invoices have
\* their date, a broadcast its count and the price history its last price.
THEOREM ReportsAlwaysAddUp == BackSpec => []ReportsAddUp
<1>1. PartsInv => ReportsAddUp
  BY PartsSay DEF ReportsAddUp
<1> QED
  BY <1>1, AlwaysPartsInv, PTL

\* A day's report and a payment change only by their own.
THEOREM PastAlwaysStands == BackSpec => PastStands
<1>1. ASSUME PartsInv, PartsInv', [BackNext]_backVars
      PROVE  [(part = "books" => Ledger!DayKept) /\ (part = "invoices" => PaymentKept)]_backVars
  <2> SUFFICES ASSUME BackNext
               PROVE  (part = "books" => Ledger!DayKept) /\ (part = "invoices" => PaymentKept)
    BY <1>1
  <2>1. CASE part = "books"
    <3>1. [Ledger!Next]_(Ledger!vars)
      BY <2>1 DEF BackNext
    <3>2. DatesStay /\ FiguresStay
      BY <1>1, <3>1, BackAssumption, LedgerNextIInv, FiguresAreKept DEF PartsInv
    <3> QED
      BY <1>1, <2>1, <3>2, BackAssumption, DaysDo DEF PartsInv
  <2>2. CASE part = "invoices"
    <3>1. Next
      BY <2>2 DEF BackNext
    <3> QED
      BY <1>1, <2>2, <3>1, PaymentStep DEF PartsInv
  <2> QED
    BY <2>1, <2>2
<1> QED
  BY <1>1, AlwaysPartsInv, PTL DEF BackSpec, PastStands
=============================================================================
