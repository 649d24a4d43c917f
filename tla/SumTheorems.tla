---------------------------- MODULE SumTheorems ----------------------------
(***************************************************************************)
(* What the counter proofs need of SumFunctionOnSet, the sum of f[x] over a *)
(* finite set.  The community module defines it by recursion over the set, *)
(* and an induction over data is made here from a smallest counterexample: *)
(* a nonempty set of subsets of a finite set has a minimal member, and a   *)
(* nonempty set of numbers a least one.                                    *)
(***************************************************************************)
EXTENDS Integers, FiniteSets, Functions, FiniteSetTheorems, TLAPS

(* Among subsets of a finite set there is one that contains no other of them. *)
LEMMA MinimalSubset ==
  ASSUME NEW S, IsFiniteSet(S), NEW B \in SUBSET (SUBSET S), B # {}
  PROVE  \E T \in B : \A U \in SUBSET T : U # T => U \notin B
<1>1. IsWellFoundedOn(StrictSubsetOrdering(S), SUBSET S)
  BY FS_StrictSubsetOrderingWellFounded, FS_FiniteSubsetsOfFinite
<1>2. PICK T \in B : \A U \in B : ~(<<U, T>> \in StrictSubsetOrdering(S))
  BY <1>1, WFMin
<1>3. \A U \in SUBSET T : U # T => U \notin B
  BY <1>2 DEF StrictSubsetOrdering
<1>. QED  BY <1>3

(* A nonempty set of numbers has a least one. *)
LEMMA LeastNumber ==
  ASSUME NEW B \in SUBSET Nat, B # {}
  PROVE  \E n \in B : \A m \in B : n <= m
<1>1. PICK n \in B : \A m \in B : ~(<<m, n>> \in OpToRel(<, Nat))
  BY NatLessThanWellFounded, WFMin
<1>2. \A m \in B : m < n => <<m, n>> \in OpToRel(<, Nat)
  BY DEF OpToRel
<1>3. \A m \in B : ~(m < n)
  BY <1>1, <1>2, Zenon
<1>4. \A m \in B : n <= m
  BY <1>3
<1>. QED  BY <1>4

(* One step of the recursion that defines the sum, g giving the sums of the
   smaller sets, and the table of the sums of all subsets of S. *)
SumStep(f, g, s) ==
  IF s = {} THEN 0 ELSE f[CHOOSE x \in s : TRUE] + g[s \ {CHOOSE x \in s : TRUE}]

IsSumOn(f, S, g) == g = [s \in SUBSET S |-> SumStep(f, g, s)]

(* The library defines the sum as an entry of a table that satisfies the
   recursion, if there is one. *)
LEMMA SumIsChoice ==
  ASSUME NEW S, NEW f
  PROVE  SumFunctionOnSet(f, S) = (CHOOSE g : IsSumOn(f, S, g))[S]
BY DEF SumFunctionOnSet, FoldFunctionOnSet, MapThenFoldSet, SumStep, IsSumOn

(* There is one: it is built up for the subsets of at most n elements. *)
LEMMA SumExists ==
  ASSUME NEW S, IsFiniteSet(S), NEW f
  PROVE  \E g : IsSumOn(f, S, g)
<1> DEFINE Small(n) == {s \in SUBSET S : Cardinality(s) <= n}
           On(n, g) == g = [s \in Small(n) |-> SumStep(f, g, s)]
           Bad == {n \in Nat : ~ \E g : On(n, g)}
<1>1. \A s \in SUBSET S : IsFiniteSet(s) /\ Cardinality(s) \in Nat
                          /\ Cardinality(s) <= Cardinality(S)
  BY FS_Subset, FS_CardinalityType
<1>2. \A s \in SUBSET S : s # {} =>
        /\ s \ {CHOOSE x \in s : TRUE} \in SUBSET S
        /\ Cardinality(s \ {CHOOSE x \in s : TRUE}) = Cardinality(s) - 1
  <2> SUFFICES ASSUME NEW s \in SUBSET S, s # {}
               PROVE Cardinality(s \ {CHOOSE x \in s : TRUE}) = Cardinality(s) - 1
    OBVIOUS
  <2>1. (CHOOSE x \in s : TRUE) \in s
    OBVIOUS
  <2>. QED  BY <2>1, <1>1, FS_RemoveElement
<1>3. \E g : On(0, g)
  <2>1. On(0, [s \in Small(0) |-> 0])
    <3>1. \A s \in Small(0) : s = {}
      BY <1>1, FS_EmptySet
    <3>2. \A s \in Small(0) : \A g : SumStep(f, g, s) = 0
      BY <3>1 DEF SumStep
    <3>. QED BY <3>2
  <2>. QED BY <2>1
<1>4. ASSUME NEW n \in Nat, NEW g, On(n, g)
      PROVE  \E h : On(n + 1, h)
  <2> DEFINE h == [s \in Small(n + 1) |-> SumStep(f, g, s)]
  <2>1. \A s \in Small(n) : s \in Small(n + 1) /\ h[s] = g[s]
    BY <1>1, <1>4
  <2>2. ASSUME NEW s \in Small(n + 1) PROVE SumStep(f, h, s) = SumStep(f, g, s)
    <3>1. CASE s = {}
      BY <3>1 DEF SumStep
    <3>2. CASE s # {}
      <4>1. s \ {CHOOSE x \in s : TRUE} \in Small(n)
        BY <3>2, <1>2, <1>1
      <4>2. h[s \ {CHOOSE x \in s : TRUE}] = g[s \ {CHOOSE x \in s : TRUE}]
        BY <4>1, <2>1
      <4> HIDE DEF h
      <4>. QED  BY <4>2 DEF SumStep
    <3>. QED BY <3>1, <3>2
  <2>3. On(n + 1, h)
    BY <2>2
  <2>. QED  BY <2>3
<1>5. Bad = {}
  <2> SUFFICES ASSUME Bad # {} PROVE FALSE
    OBVIOUS
  <2>1. PICK n \in Bad : \A m \in Bad : n <= m
    BY LeastNumber
  <2>2. n # 0
    BY <1>3
  <2>3. n - 1 \in Nat /\ n - 1 \notin Bad
    <3>1. n \in Nat
      OBVIOUS
    <3> HIDE DEF Bad
    <3>. QED  BY <3>1, <2>1, <2>2
  <2>4. \E g : On(n - 1, g)
    BY <2>3
  <2>5. \E g : On((n - 1) + 1, g)
    BY <2>4, <2>3, <1>4
  <2>6. (n - 1) + 1 = n
    BY <2>3
  <2>. QED  BY <2>5, <2>6
<1>6. Small(Cardinality(S)) = SUBSET S /\ Cardinality(S) \in Nat
  BY <1>1
<1>7. PICK g : On(Cardinality(S), g)
  BY <1>5, <1>6
<1>8. IsSumOn(f, S, g)
  BY <1>7, <1>6 DEF IsSumOn
<1>. QED  BY <1>8

(* So the sum is an entry of a table of sums. *)
LEMMA SumTable ==
  ASSUME NEW S, IsFiniteSet(S), NEW f
  PROVE  \E g : IsSumOn(f, S, g) /\ SumFunctionOnSet(f, S) = g[S]
BY SumExists, SumIsChoice

(* A table for S has the sums of the subsets of S. *)
LEMMA TablesAgree ==
  ASSUME NEW S, IsFiniteSet(S), NEW f, NEW g, IsSumOn(f, S, g),
         NEW T \in SUBSET S
  PROVE  SumFunctionOnSet(f, T) = g[T]
<1>1. IsFiniteSet(T)
  BY FS_Subset
<1>2. PICK h : IsSumOn(f, T, h) /\ SumFunctionOnSet(f, T) = h[T]
  BY <1>1, SumTable
<1> DEFINE Bad == {U \in SUBSET T : h[U] # g[U]}
<1>3. SUFFICES ASSUME Bad # {} PROVE FALSE
  BY <1>2
<1>4. PICK U \in Bad : \A V \in SUBSET U : V # U => V \notin Bad
  <2>1. Bad \in SUBSET (SUBSET T)
    OBVIOUS
  <2> HIDE DEF Bad
  <2>. QED  BY <2>1, <1>1, <1>3, MinimalSubset
<1>5. h[U] = SumStep(f, h, U) /\ g[U] = SumStep(f, g, U)
  BY <1>2 DEF IsSumOn
<1>6. U # {}
  BY <1>5 DEF SumStep
<1>7. (CHOOSE x \in U : TRUE) \in U
  BY <1>6
<1>8. U \ {CHOOSE x \in U : TRUE} \notin Bad
  BY <1>4, <1>7
<1>9. h[U \ {CHOOSE x \in U : TRUE}] = g[U \ {CHOOSE x \in U : TRUE}]
  BY <1>8
<1>. QED  BY <1>5, <1>9, <1>6 DEF SumStep

(* The sum over no element is 0. *)
LEMMA SumEmpty == ASSUME NEW f PROVE SumFunctionOnSet(f, {}) = 0
<1>1. PICK g : IsSumOn(f, {}, g) /\ SumFunctionOnSet(f, {}) = g[{}]
  BY SumTable, FS_EmptySet
<1>. QED  BY <1>1 DEF IsSumOn, SumStep

(* A sum is one of its summands and the sum of the others ... *)
LEMMA SumUnfold ==
  ASSUME NEW S, IsFiniteSet(S), S # {}, NEW f
  PROVE  \E x \in S : SumFunctionOnSet(f, S) = f[x] + SumFunctionOnSet(f, S \ {x})
<1> DEFINE x == CHOOSE x \in S : TRUE
<1>1. x \in S
  OBVIOUS
<1>2. PICK g : IsSumOn(f, S, g) /\ SumFunctionOnSet(f, S) = g[S]
  BY SumTable
<1>3. SumFunctionOnSet(f, S \ {x}) = g[S \ {x}]
  BY <1>2, TablesAgree
<1>4. g[S] = f[x] + g[S \ {x}]
  BY <1>2 DEF IsSumOn, SumStep
<1>. QED  BY <1>1, <1>2, <1>3, <1>4

(* ... and as integers can be added in any order, any of its summands. *)
LEMMA SumRemove ==
  ASSUME NEW S, IsFiniteSet(S), NEW f, \A x \in S : f[x] \in Int
  PROVE  /\ SumFunctionOnSet(f, S) \in Int
         /\ \A x \in S : SumFunctionOnSet(f, S) = f[x] + SumFunctionOnSet(f, S \ {x})
<1> DEFINE Sum(T) == SumFunctionOnSet(f, T)
           Bad == {T \in SUBSET S : ~(Sum(T) \in Int /\ \A x \in T : Sum(T) = f[x] + Sum(T \ {x}))}
<1>1. Bad \in SUBSET (SUBSET S)
  OBVIOUS
<1>2. SUFFICES ASSUME Bad # {} PROVE FALSE
  OBVIOUS
<1>3. PICK T \in Bad : \A U \in SUBSET T : U # T => U \notin Bad
  <2> HIDE DEF Bad
  <2>. QED  BY <1>1, <1>2, MinimalSubset
<1>4. IsFiniteSet(T)
  BY FS_Subset
<1>5. T # {}
  <2>1. Sum({}) = 0
    BY SumEmpty
  <2>2. {} \notin Bad
    BY <2>1
  <2> HIDE DEF Bad
  <2>. QED  BY <2>2
<1>6. PICK c \in T : Sum(T) = f[c] + Sum(T \ {c})
  BY <1>4, <1>5, SumUnfold
<1>7. \A x \in T : /\ Sum(T \ {x}) \in Int
                   /\ \A y \in T \ {x} : Sum(T \ {x}) = f[y] + Sum((T \ {x}) \ {y})
                   /\ \A y \in T \ {x} : Sum((T \ {x}) \ {y}) \in Int
  <2> SUFFICES ASSUME NEW x \in T, NEW y \in T
               PROVE  /\ Sum(T \ {x}) \in Int
                      /\ y # x => Sum(T \ {x}) = f[y] + Sum((T \ {x}) \ {y})
                      /\ Sum((T \ {x}) \ {y}) \in Int
    BY Zenon
  <2>1. T \ {x} \notin Bad /\ (T \ {x}) \ {y} \notin Bad
    <3> HIDE DEF Bad
    <3>. QED  BY <1>3
  <2> HIDE DEF Sum
  <2>2. T \ {x} \in SUBSET S /\ (T \ {x}) \ {y} \in SUBSET S
    OBVIOUS
  <2>. QED  BY <2>1, <2>2
<1>8. ASSUME NEW x \in T PROVE Sum(T) = f[x] + Sum(T \ {x})
  <2> HIDE DEF Sum
  <2>1. CASE x = c
    BY <2>1, <1>6
  <2>2. CASE x # c
    <3>1. Sum(T \ {c}) = f[x] + Sum((T \ {c}) \ {x})
      BY <2>2, <1>7
    <3>2. Sum(T \ {x}) = f[c] + Sum((T \ {x}) \ {c})
      BY <2>2, <1>7
    <3>3. (T \ {x}) \ {c} = (T \ {c}) \ {x}
      OBVIOUS
    <3>4. f[x] \in Int /\ f[c] \in Int /\ Sum((T \ {c}) \ {x}) \in Int
      BY <2>2, <1>7
    <3> HIDE DEF Bad
    <3>5. Sum((T \ {x}) \ {c}) = Sum((T \ {c}) \ {x})
      BY <3>3
    <3>. QED  BY <3>1, <3>2, <3>4, <3>5, <1>6
  <2>. QED  BY <2>1, <2>2
<1>9. Sum(T) \in Int
  BY <1>6, <1>7
<1>. QED  BY <1>8, <1>9

(* The sum depends on the values on S only. *)
LEMMA SumAgrees ==
  ASSUME NEW S, IsFiniteSet(S), NEW f, NEW g, \A x \in S : f[x] \in Int /\ f[x] = g[x]
  PROVE  SumFunctionOnSet(f, S) = SumFunctionOnSet(g, S)
<1> DEFINE F(T) == SumFunctionOnSet(f, T)
           G(T) == SumFunctionOnSet(g, T)
           Bad == {T \in SUBSET S : F(T) # G(T)}
<1>1. Bad \in SUBSET (SUBSET S)
  OBVIOUS
<1>2. SUFFICES ASSUME Bad # {} PROVE FALSE
  OBVIOUS
<1>3. PICK T \in Bad : \A U \in SUBSET T : U # T => U \notin Bad
  <2> HIDE DEF Bad
  <2>. QED  BY <1>1, <1>2, MinimalSubset
<1>4. IsFiniteSet(T) /\ T \in SUBSET S
  BY FS_Subset
<1>5. F({}) = G({})
  BY SumEmpty
<1>6. PICK c \in T : F(T) = f[c] + F(T \ {c})
  <2>1. T # {}
    <3> HIDE DEF F, G
    <3>. QED  BY <1>5
  <2>. QED  BY <1>4, <2>1, SumUnfold
<1>7. G(T) = g[c] + G(T \ {c})
  BY <1>4, SumRemove
<1>8. F(T \ {c}) = G(T \ {c})
  <2>1. T \ {c} \notin Bad
    <3> HIDE DEF Bad
    <3>. QED  BY <1>3
  <2> HIDE DEF F, G
  <2>. QED  BY <2>1, <1>4
<1> HIDE DEF F, G
<1>. QED  BY <1>6, <1>7, <1>8, <1>4

(* Changing one value changes the sum by the difference. *)
LEMMA SumUpdate ==
  ASSUME NEW S, IsFiniteSet(S), NEW f, \A x \in S : f[x] \in Int,
         NEW g, NEW c \in S, g[c] \in Int, \A x \in S \ {c} : g[x] = f[x]
  PROVE  SumFunctionOnSet(g, S) = SumFunctionOnSet(f, S) + g[c] - f[c]
<1>1. \A x \in S : g[x] \in Int
  OBVIOUS
<1>2. IsFiniteSet(S \ {c})
  BY FS_Subset
<1>3. SumFunctionOnSet(g, S) = g[c] + SumFunctionOnSet(g, S \ {c})
  BY <1>1, SumRemove
<1>4. SumFunctionOnSet(f, S) = f[c] + SumFunctionOnSet(f, S \ {c})
  BY SumRemove
<1>5. SumFunctionOnSet(f, S \ {c}) = SumFunctionOnSet(g, S \ {c})
  BY <1>2, SumAgrees
<1>6. SumFunctionOnSet(f, S \ {c}) \in Int
  BY <1>2, SumRemove
<1>. QED  BY <1>3, <1>4, <1>5, <1>6

(* A new element adds its value. *)
LEMMA SumAdd ==
  ASSUME NEW S, IsFiniteSet(S), NEW c, c \notin S, NEW f, \A x \in S \cup {c} : f[x] \in Int
  PROVE  SumFunctionOnSet(f, S \cup {c}) = SumFunctionOnSet(f, S) + f[c]
<1>1. IsFiniteSet(S \cup {c})
  BY FS_AddElement
<1>2. SumFunctionOnSet(f, S \cup {c}) = f[c] + SumFunctionOnSet(f, (S \cup {c}) \ {c})
  BY <1>1, SumRemove
<1>3. (S \cup {c}) \ {c} = S
  OBVIOUS
<1>4. SumFunctionOnSet(f, (S \cup {c}) \ {c}) = SumFunctionOnSet(f, S)
  BY <1>3, Zenon
<1>5. SumFunctionOnSet(f, S) \in Int
  BY SumRemove
<1>. QED  BY <1>2, <1>4, <1>5

(* A sum lies between the bounds of its values times their number. *)
LEMMA SumBounds ==
  ASSUME NEW S, IsFiniteSet(S), NEW f, NEW lo \in Int, NEW hi \in Int,
         \A x \in S : f[x] \in Int /\ lo <= f[x] /\ f[x] <= hi
  PROVE  /\ lo * Cardinality(S) <= SumFunctionOnSet(f, S)
         /\ SumFunctionOnSet(f, S) <= hi * Cardinality(S)
<1> DEFINE F(T) == SumFunctionOnSet(f, T)
           Bad == {T \in SUBSET S : ~(lo * Cardinality(T) <= F(T) /\ F(T) <= hi * Cardinality(T))}
<1>1. Bad \in SUBSET (SUBSET S)
  OBVIOUS
<1>2. SUFFICES ASSUME Bad # {} PROVE FALSE
  OBVIOUS
<1>3. PICK T \in Bad : \A U \in SUBSET T : U # T => U \notin Bad
  <2> HIDE DEF Bad
  <2>. QED  BY <1>1, <1>2, MinimalSubset
<1>4. IsFiniteSet(T) /\ T \in SUBSET S
  BY FS_Subset
<1>5. F({}) = 0 /\ Cardinality({}) = 0
  BY SumEmpty, FS_EmptySet
<1>6. PICK c \in T : F(T) = f[c] + F(T \ {c})
  <2>1. T # {}
    <3> HIDE DEF F
    <3>. QED  BY <1>5
  <2>. QED  BY <1>4, <2>1, SumUnfold
<1>7. Cardinality(T \ {c}) = Cardinality(T) - 1 /\ Cardinality(T) \in Nat
  BY <1>4, FS_RemoveElement, FS_CardinalityType
<1>8. F(T \ {c}) \in Int
  BY <1>4, FS_Subset, SumRemove
<1>9. lo * Cardinality(T \ {c}) <= F(T \ {c}) /\ F(T \ {c}) <= hi * Cardinality(T \ {c})
  <2>1. T \ {c} \notin Bad
    <3> HIDE DEF Bad
    <3>. QED  BY <1>3
  <2> HIDE DEF F
  <2>. QED  BY <2>1, <1>4
<1>10. \A n \in Nat, a \in Int : a * (n - 1) = a * n - a
  OBVIOUS
<1>11. f[c] \in Int /\ lo <= f[c] /\ f[c] <= hi
  BY <1>4
<1>12. /\ lo * (Cardinality(T) - 1) = lo * Cardinality(T) - lo
       /\ hi * (Cardinality(T) - 1) = hi * Cardinality(T) - hi
       /\ lo * Cardinality(T) \in Int /\ hi * Cardinality(T) \in Int
  <2> HIDE DEF F, Bad
  <2>. QED  BY <1>7, <1>10
<1>13. lo * Cardinality(T) <= F(T) /\ F(T) <= hi * Cardinality(T)
  <2> HIDE DEF F, Bad
  <2>. QED  BY <1>6, <1>7, <1>8, <1>9, <1>11, <1>12
<1> HIDE DEF F
<1>. QED  BY <1>13

(* A sum of zeros is zero. *)
LEMMA SumZero ==
  ASSUME NEW S, IsFiniteSet(S), NEW f, \A x \in S : f[x] = 0
  PROVE  SumFunctionOnSet(f, S) = 0
<1>1. SumFunctionOnSet(f, S) \in Int
  BY SumRemove
<1>2. /\ 0 * Cardinality(S) <= SumFunctionOnSet(f, S)
      /\ SumFunctionOnSet(f, S) <= 0 * Cardinality(S)
  <2>1. \A x \in S : f[x] \in Int /\ 0 <= f[x] /\ f[x] <= 0
    OBVIOUS
  <2>. QED  BY <2>1, SumBounds
<1>3. Cardinality(S) \in Nat
  BY FS_CardinalityType
<1>. QED  BY <1>1, <1>2, <1>3
=============================================================================
