----------------------------- MODULE SumTheorems -----------------------------
(***************************************************************************)
(* Facts about sums over finite sets, SumFunctionOnSet of the community    *)
(* module Functions, that the proofs about balances, credits and billing   *)
(* records share: a sum is a number, depends only on the terms summed, and *)
(* changes by the term that is added, removed or replaced.                 *)
(*                                                                         *)
(* A sum is a recursive function on the subsets of its index set.  That it *)
(* is well defined, and what it computes, is proved from the smallest      *)
(* counterexample: every non-empty set of natural numbers has a least      *)
(* element, and every non-empty set of subsets of a finite set a minimal   *)
(* one.                                                                    *)
(***************************************************************************)
EXTENDS Integers, FiniteSets, Functions, FiniteSetTheorems, WellFoundedInduction, TLAPS

\* A non-empty set of natural numbers has a least element.
LEMMA LeastNumber ==
    ASSUME NEW Bad \in SUBSET Nat, Bad # {}
    PROVE  \E n \in Bad : \A m \in Bad : n <= m
  <1>1. PICK n \in Bad : \A m \in Bad : <<m, n>> \notin OpToRel(<, Nat)
    BY NatLessThanWellFounded, WFMin
  <1>2. \A m \in Bad : ~(m < n)
    BY <1>1 DEF OpToRel
  <1> QED
    BY <1>2

\* A non-empty set of subsets of a finite set has a minimal one.
LEMMA MinimalSubset ==
    ASSUME NEW S, IsFiniteSet(S), NEW Bad \in SUBSET (SUBSET S), Bad # {}
    PROVE  \E T \in Bad : \A U \in SUBSET T : U # T => U \notin Bad
  <1>1. IsWellFoundedOn(StrictSubsetOrdering(S), FiniteSubsetsOf(S))
    BY FS_StrictSubsetOrderingWellFounded
  <1>2. Bad \subseteq FiniteSubsetsOf(S)
    BY FS_FiniteSubsetsOfFinite
  <1>3. PICK T \in Bad : \A U \in Bad : <<U, T>> \notin StrictSubsetOrdering(S)
    BY <1>1, <1>2, WFMin
  <1> QED
    BY <1>3 DEF StrictSubsetOrdering

-----------------------------------------------------------------------------
\* The element that a sum takes next, and the equation of the recursive
\* function behind it.
Some(s) == CHOOSE x \in s : TRUE
Unrolled(f, it, s) == IF s = {} THEN 0 ELSE f[Some(s)] + it[s \ {Some(s)}]
IsSum(f, it, S) == it = [s \in SUBSET S |-> Unrolled(f, it, s)]

LEMMA SomeIn == ASSUME NEW s, s # {} PROVE Some(s) \in s
  BY DEF Some

LEMMA SumIsChosen ==
    ASSUME NEW f, NEW S
    PROVE  SumFunctionOnSet(f, S) = (CHOOSE it : IsSum(f, it, S))[S]
  BY DEF SumFunctionOnSet, FoldFunctionOnSet, MapThenFoldSet, IsSum, Unrolled, Some

\* The recursion has a solution: one for the sets of up to n elements, for
\* every n.
LEMMA SumExists ==
    ASSUME NEW f, NEW S, IsFiniteSet(S)
    PROVE  \E it : IsSum(f, it, S)
  <1> DEFINE Level(n) == {s \in SUBSET S : Cardinality(s) <= n}
             Solved(n) == \E g : g = [s \in Level(n) |-> Unrolled(f, g, s)]
             Bad == {n \in Nat : ~Solved(n)}
  <1>1. \A s \in SUBSET S : IsFiniteSet(s) /\ Cardinality(s) \in Nat
    BY FS_Subset, FS_CardinalityType
  <1>2. Cardinality(S) \in Nat /\ Level(Cardinality(S)) = SUBSET S
    BY FS_Subset, FS_CardinalityType
  <1>3. ASSUME NEW s \in SUBSET S, s # {}
        PROVE  s \ {Some(s)} \in SUBSET S
               /\ Cardinality(s \ {Some(s)}) = Cardinality(s) - 1
    BY <1>1, <1>3, SomeIn, FS_RemoveElement
  <1>4. Solved(0)
    <2> DEFINE g == [s \in Level(0) |-> 0]
    <2>1. ASSUME NEW s \in Level(0) PROVE s = {}
      BY <1>1, <2>1, FS_EmptySet
    <2>2. g = [s \in Level(0) |-> Unrolled(f, g, s)]
      BY <2>1 DEF Unrolled
    <2> QED
      BY <2>2
  <1>5. ASSUME NEW n \in Nat, Solved(n) PROVE Solved(n + 1)
    <2>1. PICK g : g = [s \in Level(n) |-> Unrolled(f, g, s)]
      BY <1>5
    <2> DEFINE h == [s \in Level(n + 1) |-> Unrolled(f, g, s)]
    <2>2. ASSUME NEW s \in Level(n + 1) PROVE Unrolled(f, h, s) = Unrolled(f, g, s)
      <3>1. CASE s = {}
        BY <3>1 DEF Unrolled
      <3>2. CASE s # {}
        <4> DEFINE t == s \ {Some(s)}
        <4>1. t \in Level(n) /\ t \in Level(n + 1)
          BY <1>1, <1>3, <2>2, <3>2
        <4>2. h[t] = Unrolled(f, g, t) /\ g[t] = Unrolled(f, g, t)
          BY <2>1, <4>1
        <4> HIDE DEF h
        <4> QED
          BY <3>2, <4>2 DEF Unrolled
      <3> QED
        BY <3>1, <3>2
    <2>3. h = [s \in Level(n + 1) |-> Unrolled(f, h, s)]
      BY <2>2
    <2> QED
      BY <2>3
  <1>6. Bad = {}
    <2> SUFFICES ASSUME Bad # {} PROVE FALSE
      OBVIOUS
    <2>1. PICK n \in Bad : \A m \in Bad : n <= m
      BY LeastNumber
    <2> HIDE DEF Solved
    <2>2. n # 0
      BY <1>4
    <2>3. n - 1 \in Nat /\ n - 1 \notin Bad
      BY <2>1, <2>2
    <2>4. Solved(n - 1 + 1)
      BY <1>5, <2>3
    <2> QED
      BY <2>3, <2>4
  <1>7. Solved(Cardinality(S))
    <2> HIDE DEF Solved
    <2> QED
      BY <1>2, <1>6
  <1> QED
    BY <1>2, <1>7 DEF IsSum

LEMMA SumChosen ==
    ASSUME NEW f, NEW S, IsFiniteSet(S)
    PROVE  \E it : IsSum(f, it, S) /\ SumFunctionOnSet(f, S) = it[S]
  <1>1. IsSum(f, CHOOSE it : IsSum(f, it, S), S)
    BY SumExists
  <1> QED
    BY <1>1, SumIsChosen

\* Two solutions agree where both are defined.
LEMMA SumUnique ==
    ASSUME NEW f, NEW S, IsFiniteSet(S), NEW T \in SUBSET S, NEW g, NEW h,
           IsSum(f, g, S), IsSum(f, h, T)
    PROVE  g[T] = h[T]
  <1> DEFINE Bad == {s \in SUBSET T : g[s] # h[s]}
  <1>1. ASSUME NEW s \in SUBSET T
        PROVE  g[s] = Unrolled(f, g, s) /\ h[s] = Unrolled(f, h, s)
    BY DEF IsSum
  <1>2. IsFiniteSet(T)
    BY FS_Subset
  <1>3. Bad = {}
    <2> SUFFICES ASSUME Bad # {} PROVE FALSE
      OBVIOUS
    <2>0. Bad \in SUBSET (SUBSET T)
      OBVIOUS
    <2>1. PICK s \in Bad : \A u \in SUBSET s : u # s => u \notin Bad
      <3> HIDE DEF Bad
      <3> QED
        BY <1>2, <2>0, MinimalSubset
    <2>2. s # {}
      BY <1>1 DEF Unrolled
    <2>3. g[s \ {Some(s)}] = h[s \ {Some(s)}]
      BY <2>1, <2>2, SomeIn
    <2> QED
      BY <1>1, <2>1, <2>2, <2>3 DEF Unrolled
  <1> QED
    BY <1>3

LEMMA SumEmpty == \A f : SumFunctionOnSet(f, {}) = 0
  <1> SUFFICES ASSUME NEW f PROVE SumFunctionOnSet(f, {}) = 0
    OBVIOUS
  <1>1. PICK it : IsSum(f, it, {}) /\ SumFunctionOnSet(f, {}) = it[{}]
    BY SumChosen, FS_EmptySet
  <1> QED
    BY <1>1 DEF IsSum, Unrolled

LEMMA SumUnrolled ==
    ASSUME NEW f, NEW S, IsFiniteSet(S), S # {}
    PROVE  SumFunctionOnSet(f, S) = f[Some(S)] + SumFunctionOnSet(f, S \ {Some(S)})
  <1> DEFINE T == S \ {Some(S)}
  <1>1. IsFiniteSet(T) /\ T \in SUBSET S
    BY FS_Subset
  <1>2. PICK g : IsSum(f, g, S) /\ SumFunctionOnSet(f, S) = g[S]
    BY SumChosen
  <1>3. PICK h : IsSum(f, h, T) /\ SumFunctionOnSet(f, T) = h[T]
    BY <1>1, SumChosen
  <1>4. g[T] = h[T]
    BY <1>1, <1>2, <1>3, SumUnique
  <1>5. g[S] = Unrolled(f, g, S)
    BY <1>2 DEF IsSum
  <1> QED
    BY <1>2, <1>3, <1>4, <1>5 DEF Unrolled

-----------------------------------------------------------------------------
\* A sum of integers is an integer.
LEMMA SumInt ==
    ASSUME NEW f, NEW S, IsFiniteSet(S), \A x \in S : f[x] \in Int
    PROVE  SumFunctionOnSet(f, S) \in Int
  <1> DEFINE Bad == {s \in SUBSET S : SumFunctionOnSet(f, s) \notin Int}
  <1> SUFFICES ASSUME Bad # {} PROVE FALSE
    OBVIOUS
  <1>0. Bad \in SUBSET (SUBSET S)
    OBVIOUS
  <1>1. PICK s \in Bad : \A u \in SUBSET s : u # s => u \notin Bad
    <2> HIDE DEF Bad
    <2> QED
      BY <1>0, MinimalSubset
  <1>2. s # {} /\ IsFiniteSet(s)
    <2>1. SumFunctionOnSet(f, {}) = 0
      BY SumEmpty
    <2>2. s # {}
      BY <2>1, SumEmpty
    <2> QED
      BY <2>2, FS_Subset
  <1>3. Some(s) \in s
    BY <1>2, SomeIn
  <1>4. SumFunctionOnSet(f, s \ {Some(s)}) \in Int
    BY <1>1, <1>3
  <1> QED
    BY <1>1, <1>2, <1>3, <1>4, SumUnrolled

\* Only the terms matter.
LEMMA SumSame ==
    ASSUME NEW f, NEW g, NEW S, IsFiniteSet(S), \A x \in S : f[x] = g[x]
    PROVE  SumFunctionOnSet(f, S) = SumFunctionOnSet(g, S)
  <1> DEFINE Bad == {s \in SUBSET S : SumFunctionOnSet(f, s) # SumFunctionOnSet(g, s)}
  <1> SUFFICES ASSUME Bad # {} PROVE FALSE
    OBVIOUS
  <1>0. Bad \in SUBSET (SUBSET S)
    OBVIOUS
  <1>1. PICK s \in Bad : \A u \in SUBSET s : u # s => u \notin Bad
    <2> HIDE DEF Bad
    <2> QED
      BY <1>0, MinimalSubset
  <1>2. s # {} /\ IsFiniteSet(s)
    <2>1. SumFunctionOnSet(f, {}) = 0
      BY SumEmpty
    <2>2. s # {}
      BY <2>1, SumEmpty
    <2> QED
      BY <2>2, FS_Subset
  <1>3. Some(s) \in s
    BY <1>2, SomeIn
  <1>4. SumFunctionOnSet(f, s \ {Some(s)}) = SumFunctionOnSet(g, s \ {Some(s)})
    BY <1>1, <1>3
  <1> QED
    BY <1>1, <1>2, <1>3, <1>4, SumUnrolled

\* Any term can be taken out first.
LEMMA SumRemove ==
    ASSUME NEW f, NEW S, IsFiniteSet(S), \A x \in S : f[x] \in Int, NEW x \in S
    PROVE  SumFunctionOnSet(f, S) = f[x] + SumFunctionOnSet(f, S \ {x})
  <1> DEFINE Fits(s, y) == SumFunctionOnSet(f, s) = f[y] + SumFunctionOnSet(f, s \ {y})
             Bad == {s \in SUBSET S : \E y \in s : ~Fits(s, y)}
  <1> SUFFICES ASSUME Bad # {} PROVE FALSE
    OBVIOUS
  <1>0. Bad \in SUBSET (SUBSET S)
    OBVIOUS
  <1>1. PICK s \in Bad : \A u \in SUBSET s : u # s => u \notin Bad
    <2> HIDE DEF Bad
    <2> QED
      BY <1>0, MinimalSubset
  <1>2. PICK y \in s : ~Fits(s, y)
    BY <1>1
  <1>3. s # {} /\ IsFiniteSet(s)
    BY <1>2, FS_Subset
  <1> DEFINE z == Some(s)
  <1>4. z \in s /\ Fits(s, z)
    BY <1>3, SomeIn, SumUnrolled
  <1> HIDE DEF z
  <1>5. y # z
    BY <1>2, <1>4
  <1>6. /\ s \ {z} \notin Bad /\ s \ {z} \in SUBSET S /\ y \in s \ {z}
        /\ s \ {y} \notin Bad /\ s \ {y} \in SUBSET S /\ z \in s \ {y}
    BY <1>1, <1>2, <1>4, <1>5
  <1>7. Fits(s \ {z}, y) /\ Fits(s \ {y}, z)
    BY <1>6
  <1>8. (s \ {z}) \ {y} = (s \ {y}) \ {z}
    OBVIOUS
  <1>9. SumFunctionOnSet(f, (s \ {z}) \ {y}) \in Int
    <2>1. IsFiniteSet((s \ {z}) \ {y})
      BY <1>3, FS_Subset
    <2> QED
      BY <2>1, SumInt
  <1>10. f[y] \in Int /\ f[z] \in Int
    BY <1>2, <1>4
  <1>11. /\ SumFunctionOnSet(f, s) = f[z] + SumFunctionOnSet(f, s \ {z})
         /\ SumFunctionOnSet(f, s) # f[y] + SumFunctionOnSet(f, s \ {y})
         /\ SumFunctionOnSet(f, s \ {z}) = f[y] + SumFunctionOnSet(f, (s \ {z}) \ {y})
         /\ SumFunctionOnSet(f, s \ {y}) = f[z] + SumFunctionOnSet(f, (s \ {z}) \ {y})
    BY <1>2, <1>4, <1>7, <1>8
  <1> QED
    BY <1>9, <1>10, <1>11

\* A term is added.
LEMMA SumAdd ==
    ASSUME NEW f, NEW S, IsFiniteSet(S), NEW x, x \notin S,
           \A y \in S \cup {x} : f[y] \in Int
    PROVE  SumFunctionOnSet(f, S \cup {x}) = SumFunctionOnSet(f, S) + f[x]
  <1>1. IsFiniteSet(S \cup {x}) /\ (S \cup {x}) \ {x} = S
    BY FS_AddElement
  <1>2. SumFunctionOnSet(f, S \cup {x}) = f[x] + SumFunctionOnSet(f, S)
    BY <1>1, SumRemove
  <1>3. SumFunctionOnSet(f, S) \in Int
    BY SumInt
  <1> QED
    BY <1>2, <1>3

\* A term is replaced.
LEMMA SumReplace ==
    ASSUME NEW f, NEW g, NEW S, IsFiniteSet(S), NEW x \in S,
           \A y \in S : f[y] \in Int, g[x] \in Int,
           \A y \in S : y # x => g[y] = f[y]
    PROVE  SumFunctionOnSet(g, S) = SumFunctionOnSet(f, S) + g[x] - f[x]
  <1>1. IsFiniteSet(S \ {x})
    BY FS_Subset
  <1>2. SumFunctionOnSet(f, S \ {x}) = SumFunctionOnSet(g, S \ {x})
    BY <1>1, SumSame
  <1>3. SumFunctionOnSet(f, S) = f[x] + SumFunctionOnSet(f, S \ {x})
    BY SumRemove
  <1>4. SumFunctionOnSet(g, S) = g[x] + SumFunctionOnSet(g, S \ {x})
    BY SumRemove
  <1>5. SumFunctionOnSet(f, S \ {x}) \in Int
    BY <1>1, SumInt
  <1> QED
    BY <1>2, <1>3, <1>4, <1>5

\* A sum of zeros.
LEMMA SumZero ==
    ASSUME NEW f, NEW S, IsFiniteSet(S), \A x \in S : f[x] = 0
    PROVE  SumFunctionOnSet(f, S) = 0
  <1> DEFINE Bad == {s \in SUBSET S : SumFunctionOnSet(f, s) # 0}
  <1> SUFFICES ASSUME Bad # {} PROVE FALSE
    OBVIOUS
  <1>0. Bad \in SUBSET (SUBSET S)
    OBVIOUS
  <1>1. PICK s \in Bad : \A u \in SUBSET s : u # s => u \notin Bad
    <2> HIDE DEF Bad
    <2> QED
      BY <1>0, MinimalSubset
  <1>2. s # {} /\ IsFiniteSet(s)
    <2>1. s # {}
      BY SumEmpty
    <2> QED
      BY <2>1, FS_Subset
  <1>3. Some(s) \in s
    BY <1>2, SomeIn
  <1>4. SumFunctionOnSet(f, s \ {Some(s)}) = 0
    BY <1>1, <1>3
  <1> QED
    BY <1>1, <1>2, <1>3, <1>4, SumUnrolled

\* A sum of natural numbers is one, and no term exceeds it.
LEMMA SumNat ==
    ASSUME NEW f, NEW S, IsFiniteSet(S), \A x \in S : f[x] \in Nat
    PROVE  SumFunctionOnSet(f, S) \in Nat
  <1> DEFINE Bad == {s \in SUBSET S : SumFunctionOnSet(f, s) \notin Nat}
  <1> SUFFICES ASSUME Bad # {} PROVE FALSE
    OBVIOUS
  <1>0. Bad \in SUBSET (SUBSET S)
    OBVIOUS
  <1>1. PICK s \in Bad : \A u \in SUBSET s : u # s => u \notin Bad
    <2> HIDE DEF Bad
    <2> QED
      BY <1>0, MinimalSubset
  <1>2. s # {} /\ IsFiniteSet(s)
    <2>1. s # {}
      BY SumEmpty
    <2> QED
      BY <2>1, FS_Subset
  <1>3. Some(s) \in s
    BY <1>2, SomeIn
  <1>4. SumFunctionOnSet(f, s \ {Some(s)}) \in Nat
    BY <1>1, <1>3
  <1> QED
    BY <1>1, <1>2, <1>3, <1>4, SumUnrolled

LEMMA SumBounds ==
    ASSUME NEW f, NEW S, IsFiniteSet(S), \A x \in S : f[x] \in Nat, NEW x \in S
    PROVE  f[x] <= SumFunctionOnSet(f, S)
  <1>1. IsFiniteSet(S \ {x})
    BY FS_Subset
  <1>2. SumFunctionOnSet(f, S \ {x}) \in Nat
    BY <1>1, SumNat
  <1>3. SumFunctionOnSet(f, S) = f[x] + SumFunctionOnSet(f, S \ {x})
    BY SumRemove
  <1> QED
    BY <1>2, <1>3
=============================================================================
