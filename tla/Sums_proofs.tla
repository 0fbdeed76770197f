---------------------------- MODULE Sums_proofs -----------------------------
(***************************************************************************)
(* Sums over finite sets: what SumFunctionOnSet computes, whatever the     *)
(* order in which it goes through the set.  Induction is by the least      *)
(* counterexample, a set in place of a predicate.                          *)
(***************************************************************************)
EXTENDS Integers, Functions, FiniteSetTheorems, WellFoundedInduction, TLAPS

LEMMA SmallestOf ==
    ASSUME NEW P \in SUBSET Nat, P # {}
    PROVE  \E n \in P : \A m \in P : n <= m
<1>1. PICK n \in P : \A m \in P : <<m, n>> \notin OpToRel(<, Nat)
  BY NatLessThanWellFounded, WFMin
<1>2. ASSUME NEW m \in P PROVE n <= m
  <2>1. n \in Nat /\ m \in Nat /\ <<m, n>> \in Nat \X Nat
    OBVIOUS
  <2>2. m < n => <<m, n>> \in OpToRel(<, Nat)
    BY <2>1 DEF OpToRel
  <2>3. ~ (m < n)
    BY <1>1, <2>2, Zenon
  <2> QED BY <2>1, <2>3
<1> QED BY <1>2

\* A set of numbers with 0 and with every successor has them all.
LEMMA Counting ==
    ASSUME NEW P \in SUBSET Nat, 0 \in P, \A n \in P : n + 1 \in P
    PROVE  P = Nat
<1> SUFFICES ASSUME Nat \ P # {} PROVE FALSE
  OBVIOUS
<1>1. PICK n \in Nat \ P : \A m \in Nat \ P : n <= m
  BY SmallestOf
<1>2. n # 0 /\ n - 1 \in Nat /\ n - 1 \notin Nat \ P
  BY <1>1
<1> QED BY <1>1, <1>2

\* A set of subsets of S has them all, if it has one whenever it has what is left of it
\* without any one of its members.
LEMMA Removing ==
    ASSUME NEW S, IsFiniteSet(S), NEW P \in SUBSET SUBSET S,
           \A T \in SUBSET S : (\A x \in T : T \ {x} \in P) => T \in P
    PROVE  P = SUBSET S
<1> SUFFICES ASSUME NEW T0 \in SUBSET S, T0 \notin P PROVE FALSE
  OBVIOUS
<1> DEFINE Bad == {n \in Nat : \E T \in SUBSET S : T \notin P /\ Cardinality(T) = n}
<1>1. \A T \in SUBSET S : IsFiniteSet(T) /\ Cardinality(T) \in Nat
  BY FS_Subset, FS_CardinalityType
<1>2. Bad # {} /\ Bad \in SUBSET Nat
  BY <1>1
<1>3. PICK n \in Bad : \A m \in Bad : n <= m
  BY <1>2, SmallestOf
<1>4. PICK T \in SUBSET S : T \notin P /\ Cardinality(T) = n
  BY <1>3
<1>5. ASSUME NEW x \in T PROVE T \ {x} \in P
  <2>1. Cardinality(T \ {x}) = n - 1 /\ T \ {x} \in SUBSET S
    BY <1>1, <1>4, FS_RemoveElement
  <2>2. n - 1 \notin Bad /\ n - 1 \in Nat
    BY <1>1, <1>3, <2>1
  <2> QED BY <2>1, <2>2
<1> QED BY <1>4, <1>5

-----------------------------------------------------------------------------
(* The recursive function behind a sum. *)

First(s) == CHOOSE x \in s : TRUE
Sums(w, S, g) ==
    g = [s \in SUBSET S |-> IF s = {} THEN 0 ELSE w[First(s)] + g[s \ {First(s)}]]

LEMMA SumIs ==
    ASSUME NEW w, NEW S
    PROVE  SumFunctionOnSet(w, S) = (CHOOSE g : Sums(w, S, g))[S]
BY DEF SumFunctionOnSet, FoldFunctionOnSet, MapThenFoldSet, Sums, First

LEMMA FirstIn == \A s : s # {} => First(s) \in s
BY DEF First

IntsOn(w, S) == \A x \in S : w[x] \in Int

LEMMA SumsExist ==
    ASSUME NEW S, IsFiniteSet(S), NEW w, IntsOn(w, S)
    PROVE  \E g \in [SUBSET S -> Int] : Sums(w, S, g)
<1> DEFINE Sub(n) == {s \in SUBSET S : Cardinality(s) <= n}
           Rec(g, D) == \A s \in D : g[s] = IF s = {} THEN 0 ELSE w[First(s)] + g[s \ {First(s)}]
           P == {n \in Nat : \E g \in [Sub(n) -> Int] : Rec(g, Sub(n))}
<1>1. \A s \in SUBSET S : IsFiniteSet(s) /\ Cardinality(s) \in Nat
  BY FS_Subset, FS_CardinalityType
<1>2. \A s \in SUBSET S : s # {} =>
          /\ First(s) \in S /\ s \ {First(s)} \in SUBSET S
          /\ Cardinality(s \ {First(s)}) = Cardinality(s) - 1
  BY <1>1, FirstIn, FS_RemoveElement
<1>3. 0 \in P
  <2> DEFINE g == [s \in Sub(0) |-> 0]
  <2>1. \A s \in Sub(0) : s = {}
    BY <1>1, FS_EmptySet
  <2>2. g \in [Sub(0) -> Int] /\ Rec(g, Sub(0))
    BY <2>1
  <2> HIDE DEF g
  <2> QED BY <2>2
<1>4. ASSUME NEW n \in P PROVE n + 1 \in P
  <2>1. PICK g \in [Sub(n) -> Int] : Rec(g, Sub(n))
    OBVIOUS
  <2> DEFINE h == [s \in Sub(n + 1) |-> IF s = {} THEN 0 ELSE w[First(s)] + g[s \ {First(s)}]]
  <2>2. \A s \in Sub(n + 1) : s # {} => s \ {First(s)} \in Sub(n) /\ w[First(s)] \in Int
    BY <1>1, <1>2 DEF IntsOn
  <2>3. h \in [Sub(n + 1) -> Int]
    BY <2>1, <2>2
  <2>4. \A s \in Sub(n) : s \in Sub(n + 1) /\ h[s] = g[s]
    BY <1>1, <2>1
  <2>5. Rec(h, Sub(n + 1))
    BY <2>2, <2>4
  <2> HIDE DEF h, Sub, Rec
  <2> QED BY <2>3, <2>5
<1>5. Cardinality(S) \in P
  <2> HIDE DEF P
  <2>1. P \in SUBSET Nat
    BY DEF P
  <2> QED BY <1>1, <1>3, <1>4, <2>1, Counting
<1>6. Sub(Cardinality(S)) = SUBSET S
  BY <1>1, FS_Subset
<1>7. PICK g \in [SUBSET S -> Int] : Rec(g, SUBSET S)
  BY <1>5, <1>6
<1>8. g = [s \in SUBSET S |-> IF s = {} THEN 0 ELSE w[First(s)] + g[s \ {First(s)}]]
  BY <1>7
<1> QED BY <1>7, <1>8 DEF Sums

\* The sum over a subset is a value of the function that sums S.
LEMMA SumWithin ==
    ASSUME NEW S, IsFiniteSet(S), NEW w, IntsOn(w, S), NEW T \in SUBSET S,
           NEW g, Sums(w, S, g)
    PROVE  SumFunctionOnSet(w, T) = g[T]
<1> DEFINE h == CHOOSE h : Sums(w, T, h)
<1>1. IsFiniteSet(T) /\ IntsOn(w, T)
  BY FS_Subset DEF IntsOn
<1>2. Sums(w, T, h)
  BY <1>1, SumsExist
<1> HIDE DEF h
<1> DEFINE P == {s \in SUBSET T : g[s] = h[s]}
<1>3. ASSUME NEW s \in SUBSET T, \A x \in s : s \ {x} \in P
      PROVE  s \in P
  <2>1. s \in SUBSET S
    OBVIOUS
  <2>2. g[s] = IF s = {} THEN 0 ELSE w[First(s)] + g[s \ {First(s)}]
    BY <2>1 DEF Sums
  <2>3. h[s] = IF s = {} THEN 0 ELSE w[First(s)] + h[s \ {First(s)}]
    BY <1>2 DEF Sums
  <2>4. s # {} => g[s \ {First(s)}] = h[s \ {First(s)}]
    BY <1>3, FirstIn
  <2> QED BY <2>2, <2>3, <2>4
<1>4. P \in SUBSET SUBSET T
  OBVIOUS
<1>5. P = SUBSET T
  <2> HIDE DEF P
  <2> QED BY <1>1, <1>3, <1>4, Removing
<1>6. g[T] = h[T]
  BY <1>5
<1>7. SumFunctionOnSet(w, T) = h[T]
  BY SumIs DEF h
<1> QED BY <1>6, <1>7

\* A sum is a number: nothing over nothing, and the first member with the rest of it.
LEMMA SumStep ==
    ASSUME NEW S, IsFiniteSet(S), NEW w, IntsOn(w, S)
    PROVE  /\ SumFunctionOnSet(w, {}) = 0
           /\ \A T \in SUBSET S :
                  /\ SumFunctionOnSet(w, T) \in Int
                  /\ T # {} => /\ First(T) \in T
                               /\ SumFunctionOnSet(w, T)
                                      = w[First(T)] + SumFunctionOnSet(w, T \ {First(T)})
<1>1. PICK g \in [SUBSET S -> Int] : Sums(w, S, g)
  BY SumsExist
<1>2. \A T \in SUBSET S : SumFunctionOnSet(w, T) = g[T]
  BY <1>1, SumWithin
<1>3. \A T \in SUBSET S : g[T] = IF T = {} THEN 0 ELSE w[First(T)] + g[T \ {First(T)}]
  BY <1>1 DEF Sums
<1>4. \A T \in SUBSET S : T # {} => First(T) \in T /\ T \ {First(T)} \in SUBSET S
  BY FirstIn
<1> QED BY <1>1, <1>2, <1>3, <1>4

\* Any member will do for the first.
LEMMA SumWithout ==
    ASSUME NEW S, IsFiniteSet(S), NEW w, IntsOn(w, S), NEW x \in S
    PROVE  SumFunctionOnSet(w, S) = w[x] + SumFunctionOnSet(w, S \ {x})
<1> DEFINE Sum(T) == SumFunctionOnSet(w, T)
           P == {T \in SUBSET S : \A y \in T : Sum(T) = w[y] + Sum(T \ {y})}
<1> HIDE DEF P
<1>1. \A T \in SUBSET S : Sum(T) \in Int
  BY SumStep
<1>2. \A T \in SUBSET S : T # {} => First(T) \in T /\ Sum(T) = w[First(T)] + Sum(T \ {First(T)})
  <2> SUFFICES ASSUME NEW T \in SUBSET S, T # {}
               PROVE  First(T) \in T /\ Sum(T) = w[First(T)] + Sum(T \ {First(T)})
    OBVIOUS
  <2> QED BY SumStep
<1> HIDE DEF Sum
<1> USE DEF P
<1>3. ASSUME NEW T \in SUBSET S, \A y \in T : T \ {y} \in P
      PROVE  T \in P
  <2> SUFFICES ASSUME NEW y \in T PROVE Sum(T) = w[y] + Sum(T \ {y})
    OBVIOUS
  <2> DEFINE f == First(T)
  <2>1. f \in T /\ Sum(T) = w[f] + Sum(T \ {f})
    BY <1>2
  <2> HIDE DEF f
  <2>2. CASE y # f
    <3> DEFINE rest == (T \ {y}) \ {f}
    <3>1. (T \ {f}) \ {y} = rest /\ rest \in SUBSET S
      OBVIOUS
    <3>2. Sum(T \ {f}) = w[y] + Sum((T \ {f}) \ {y})
      BY <1>3, <2>1, <2>2
    <3>3. Sum(T \ {y}) = w[f] + Sum(rest)
      BY <1>3, <2>1, <2>2
    <3>4. Sum(T \ {f}) = w[y] + Sum(rest)
      BY <3>1, <3>2
    <3>5. w[f] \in Int /\ w[y] \in Int /\ Sum(rest) \in Int
      BY <1>1, <2>1, <3>1 DEF IntsOn
    <3> HIDE DEF rest
    <3> QED BY <2>1, <3>3, <3>4, <3>5
  <2> QED BY <2>1, <2>2
<1>4. P \in SUBSET SUBSET S
  OBVIOUS
<1>5. P = SUBSET S
  <2> HIDE DEF P
  <2> QED BY <1>3, <1>4, Removing
<1>6. S \in P
  BY <1>5
<1> QED BY <1>6 DEF Sum

LEMMA SumWith ==
    ASSUME NEW S, IsFiniteSet(S), NEW w, NEW x, x \notin S, IntsOn(w, S \cup {x})
    PROVE  SumFunctionOnSet(w, S \cup {x}) = w[x] + SumFunctionOnSet(w, S)
<1>1. IsFiniteSet(S \cup {x}) /\ (S \cup {x}) \ {x} = S
  BY FS_AddElement
<1> QED BY <1>1, SumWithout

LEMMA SumIsInt ==
    ASSUME NEW S, IsFiniteSet(S), NEW w, IntsOn(w, S)
    PROVE  SumFunctionOnSet(w, S) \in Int
BY SumStep

\* The greater the terms, the greater the sum.
LEMMA SumAtMost ==
    ASSUME NEW S, IsFiniteSet(S), NEW w, IntsOn(w, S), NEW v, IntsOn(v, S),
           \A x \in S : w[x] <= v[x]
    PROVE  SumFunctionOnSet(w, S) <= SumFunctionOnSet(v, S)
<1> DEFINE W(T) == SumFunctionOnSet(w, T)
           V(T) == SumFunctionOnSet(v, T)
           P == {T \in SUBSET S : W(T) <= V(T)}
<1>1. W({}) = 0 /\ V({}) = 0
  BY SumStep
<1>2. \A T \in SUBSET S : W(T) \in Int /\ V(T) \in Int
  BY SumStep
<1>3. ASSUME NEW T \in SUBSET S, NEW x \in T
      PROVE  W(T) = w[x] + W(T \ {x}) /\ V(T) = v[x] + V(T \ {x})
  <2>1. IsFiniteSet(T) /\ IntsOn(w, T) /\ IntsOn(v, T)
    BY FS_Subset DEF IntsOn
  <2> QED BY <2>1, SumWithout
<1> HIDE DEF W, V
<1>4. ASSUME NEW T \in SUBSET S, \A x \in T : T \ {x} \in P
      PROVE  T \in P
  <2>1. CASE T = {}
    BY <1>1, <2>1
  <2>2. ASSUME NEW x \in T PROVE W(T) <= V(T)
    <3>1. W(T \ {x}) <= V(T \ {x}) /\ W(T \ {x}) \in Int /\ V(T \ {x}) \in Int
      BY <1>2, <1>4, <2>2
    <3>2. w[x] \in Int /\ v[x] \in Int /\ w[x] <= v[x]
      BY DEF IntsOn
    <3> QED BY <1>3, <3>1, <3>2
  <2> QED BY <2>1, <2>2
<1>5. P \in SUBSET SUBSET S
  OBVIOUS
<1>6. P = SUBSET S
  <2> HIDE DEF P
  <2> QED BY <1>4, <1>5, Removing
<1>7. S \in P
  BY <1>6
<1> QED BY <1>7 DEF W, V

LEMMA SumSame ==
    ASSUME NEW S, IsFiniteSet(S), NEW w, IntsOn(w, S), NEW v, \A x \in S : w[x] = v[x]
    PROVE  SumFunctionOnSet(w, S) = SumFunctionOnSet(v, S)
<1>1. IntsOn(v, S)
  BY DEF IntsOn
<1>2. \A x \in S : w[x] <= v[x] /\ v[x] <= w[x]
  BY DEF IntsOn
<1>3. /\ SumFunctionOnSet(w, S) <= SumFunctionOnSet(v, S)
      /\ SumFunctionOnSet(v, S) <= SumFunctionOnSet(w, S)
  BY <1>1, <1>2, SumAtMost
<1>4. SumFunctionOnSet(w, S) \in Int /\ SumFunctionOnSet(v, S) \in Int
  BY <1>1, SumIsInt
<1> QED BY <1>3, <1>4

\* No term below nought, no sum below nought.
LEMMA SumIsNat ==
    ASSUME NEW S, IsFiniteSet(S), NEW w, \A x \in S : w[x] \in Nat
    PROVE  SumFunctionOnSet(w, S) \in Nat
<1> DEFINE P == {T \in SUBSET S : SumFunctionOnSet(w, T) \in Nat}
<1>1. IntsOn(w, S)
  BY DEF IntsOn
<1>2. ASSUME NEW T \in SUBSET S, \A x \in T : T \ {x} \in P
      PROVE  T \in P
  <2>1. CASE T = {}
    <3>1. SumFunctionOnSet(w, {}) = 0
      BY <1>1, SumStep
    <3> QED BY <2>1, <3>1
  <2>2. CASE T # {}
    <3>1. /\ First(T) \in T
          /\ SumFunctionOnSet(w, T) = w[First(T)] + SumFunctionOnSet(w, T \ {First(T)})
      BY <1>1, <2>2, SumStep
    <3>2. SumFunctionOnSet(w, T \ {First(T)}) \in Nat /\ w[First(T)] \in Nat
      BY <1>2, <3>1
    <3> QED BY <3>1, <3>2
  <2> QED BY <2>1, <2>2
<1>3. P \in SUBSET SUBSET S
  OBVIOUS
<1>4. P = SUBSET S
  <2> HIDE DEF P
  <2> QED BY <1>2, <1>3, Removing
<1> QED BY <1>4

\* One term changes, or one is added.
LEMMA SumChanged ==
    ASSUME NEW S, IsFiniteSet(S), NEW w, IntsOn(w, S), NEW v, IntsOn(v, S), NEW x \in S,
           \A y \in S \ {x} : v[y] = w[y]
    PROVE  SumFunctionOnSet(v, S) = SumFunctionOnSet(w, S) - w[x] + v[x]
<1>1. /\ SumFunctionOnSet(w, S) = w[x] + SumFunctionOnSet(w, S \ {x})
      /\ SumFunctionOnSet(v, S) = v[x] + SumFunctionOnSet(v, S \ {x})
  BY SumWithout
<1>2. IsFiniteSet(S \ {x}) /\ IntsOn(w, S \ {x})
  BY FS_Subset DEF IntsOn
<1>3. /\ SumFunctionOnSet(v, S \ {x}) = SumFunctionOnSet(w, S \ {x})
      /\ SumFunctionOnSet(w, S \ {x}) \in Int
  BY <1>2, SumSame, SumIsInt
<1>4. w[x] \in Int /\ v[x] \in Int
  BY DEF IntsOn
<1> QED BY <1>1, <1>3, <1>4

LEMMA SumGrown ==
    ASSUME NEW S, IsFiniteSet(S), NEW w, IntsOn(w, S), NEW x, x \notin S,
           NEW v, v[x] \in Int, \A y \in S : v[y] = w[y]
    PROVE  SumFunctionOnSet(v, S \cup {x}) = SumFunctionOnSet(w, S) + v[x]
<1>1. IntsOn(v, S \cup {x})
  BY DEF IntsOn
<1>2. SumFunctionOnSet(v, S \cup {x}) = v[x] + SumFunctionOnSet(v, S)
  BY <1>1, SumWith
<1>3. SumFunctionOnSet(v, S) = SumFunctionOnSet(w, S) /\ SumFunctionOnSet(w, S) \in Int
  BY SumSame, SumIsInt
<1> QED BY <1>2, <1>3

\* Where no two terms pull apart, the sum goes as far as each of them.
LEMMA SumReaches ==
    ASSUME NEW S, IsFiniteSet(S), NEW w, IntsOn(w, S), NEW x \in S
    PROVE  /\ (\A y \in S : w[y] >= 0) => SumFunctionOnSet(w, S) >= w[x]
           /\ (\A y \in S : w[y] <= 0) => SumFunctionOnSet(w, S) <= w[x]
<1> DEFINE rest == SumFunctionOnSet(w, S \ {x})
           none == [y \in S \ {x} |-> 0]
<1>1. IsFiniteSet(S \ {x}) /\ IntsOn(w, S \ {x}) /\ IntsOn(none, S \ {x})
  BY FS_Subset DEF IntsOn
<1>2. SumFunctionOnSet(none, S \ {x}) = 0
  <2> DEFINE T == S \ {x}
  <2> HIDE DEF T
  <2> SUFFICES SumFunctionOnSet([y \in T |-> 0], T) = 0
    BY DEF T
  <2> DEFINE zero == [y \in T |-> 0]
             P == {U \in SUBSET T : SumFunctionOnSet(zero, U) = 0}
  <2>1. IsFiniteSet(T) /\ IntsOn(zero, T) /\ \A y \in T : zero[y] = 0
    BY <1>1 DEF T, IntsOn
  <2> HIDE DEF zero
  <2>2. ASSUME NEW U \in SUBSET T, \A y \in U : U \ {y} \in P
        PROVE  U \in P
    <3>1. U = {} => SumFunctionOnSet(zero, U) = 0
      BY <2>1, SumStep
    <3>2. U # {} => /\ First(U) \in U
                    /\ SumFunctionOnSet(zero, U)
                           = zero[First(U)] + SumFunctionOnSet(zero, U \ {First(U)})
      BY <2>1, SumStep
    <3> QED BY <2>1, <2>2, <3>1, <3>2
  <2>3. P \in SUBSET SUBSET T
    OBVIOUS
  <2>4. P = SUBSET T
    <3> HIDE DEF P
    <3> QED BY <2>1, <2>2, <2>3, Removing
  <2> QED BY <2>4 DEF zero
<1>3. SumFunctionOnSet(w, S) = w[x] + rest
  BY SumWithout
<1>4. rest \in Int /\ w[x] \in Int
  BY <1>1, SumIsInt DEF IntsOn
<1>5. (\A y \in S : w[y] >= 0) => 0 <= rest
  <2>1. (\A y \in S : w[y] >= 0) => \A y \in S \ {x} : none[y] <= w[y]
    BY DEF IntsOn
  <2> HIDE DEF none
  <2> QED BY <1>1, <1>2, <2>1, SumAtMost
<1>6. (\A y \in S : w[y] <= 0) => rest <= 0
  <2>1. (\A y \in S : w[y] <= 0) => \A y \in S \ {x} : w[y] <= none[y]
    BY DEF IntsOn
  <2> HIDE DEF none
  <2> QED BY <1>1, <1>2, <2>1, SumAtMost
<1> HIDE DEF rest
<1> QED BY <1>3, <1>4, <1>5, <1>6

\* Nothing adds up to nothing.
LEMMA SumIsZero ==
    ASSUME NEW S, IsFiniteSet(S), NEW w, \A x \in S : w[x] = 0
    PROVE  SumFunctionOnSet(w, S) = 0
<1>1. IntsOn(w, S) /\ \A x \in S : w[x] <= 0 /\ w[x] \in Nat
  BY DEF IntsOn
<1>2. SumFunctionOnSet(w, S) \in Nat
  BY <1>1, SumIsNat
<1>3. CASE S = {}
  BY <1>1, <1>3, SumStep
<1>4. ASSUME NEW x \in S PROVE SumFunctionOnSet(w, S) <= w[x]
  BY <1>1, SumReaches
<1> QED BY <1>1, <1>2, <1>3, <1>4
=============================================================================
