-------------------------------- MODULE Sums --------------------------------
(***************************************************************************)
(* What MapThenSumSet and SumFunction compute, for the specifications      *)
(* that add things up with them: reserved bytes, stored bytes, strikes.    *)
(* The community modules define them by recursion over the subsets of a    *)
(* set, and give no theorems.                                              *)
(*                                                                         *)
(* The provers cannot instantiate an induction principle, whose predicate  *)
(* is an operator.  Every induction below takes instead a minimal element  *)
(* of the set of counterexamples, which MinimalSubset provides.            *)
(***************************************************************************)
EXTENDS Integers, FiniteSets, FiniteSetsExt, FiniteSetTheorems, WellFoundedInduction, TLAPS

\* The sum of f[x] over S, and the element MapThenSumSet takes out of a set.
SumOver(f, S) == MapThenSumSet(LAMBDA x : f[x], S)
Some(T)       == CHOOSE x \in T : TRUE

\* g is a table of the sums over the subsets of S.
PartialSums(g, f, S) ==
    g = [T \in SUBSET S |-> IF T = {} THEN 0 ELSE f[Some(T)] + g[T \ {Some(T)}]]

\* MapThenSumSet looks its result up in such a table.
LEMMA SumUnfold ==
    ASSUME NEW f, NEW S
    PROVE  SumOver(f, S) = (CHOOSE g : PartialSums(g, f, S))[S]
  BY DEF SumOver, MapThenSumSet, MapThenFoldSet, PartialSums, Some

\* The community module's sums of a function are the same sums.
LEMMA SumOfFunction ==
    ASSUME NEW f, NEW S, DOMAIN f = S
    PROVE  SumFunction(f) = SumOver(f, S)
  BY DEF SumFunction, SumFunctionOnSet, FoldFunctionOnSet, SumOver, MapThenSumSet

-----------------------------------------------------------------------------
(* The table exists and is unique.                                         *)

\* Among subsets of a finite set there is a minimal one.
LEMMA MinimalSubset ==
    ASSUME NEW S, IsFiniteSet(S), NEW B, B \subseteq SUBSET S, B # {}
    PROVE  \E T \in B : \A U \in B : U \subseteq T => U = T
  <1>1. IsWellFoundedOn(StrictSubsetOrdering(S), SUBSET S)
    BY FS_StrictSubsetOrderingWellFounded, FS_FiniteSubsetsOfFinite
  <1>2. PICK T \in B : \A U \in B : ~(<<U, T>> \in StrictSubsetOrdering(S))
    BY <1>1, WFMin
  <1> QED BY <1>2 DEF StrictSubsetOrdering

\* The element taken out of a set is one of its elements.
LEMMA SomeIn == ASSUME NEW T, T # {} PROVE Some(T) \in T
  BY DEF Some

\* A table for S holds a table for each subset of S.
LEMMA PartialSumsSubset ==
    ASSUME NEW f, NEW S, NEW g, PartialSums(g, f, S), NEW T \in SUBSET S
    PROVE  PartialSums([U \in SUBSET T |-> g[U]], f, T)
  <1> DEFINE h == [U \in SUBSET T |-> g[U]]
  <1>1. ASSUME NEW U \in SUBSET T
        PROVE  h[U] = IF U = {} THEN 0 ELSE f[Some(U)] + h[U \ {Some(U)}]
    <2>1. U \in SUBSET S /\ U \ {Some(U)} \in SUBSET T
      OBVIOUS
    <2>2. g[U] = IF U = {} THEN 0 ELSE f[Some(U)] + g[U \ {Some(U)}]
      BY <2>1 DEF PartialSums
    <2> QED BY <2>1, <2>2
  <1> QED BY <1>1 DEF PartialSums

\* Two tables for a finite set agree.
LEMMA PartialSumsUnique ==
    ASSUME NEW f, NEW S, IsFiniteSet(S), NEW g, PartialSums(g, f, S), NEW h, PartialSums(h, f, S)
    PROVE  g = h
  <1> DEFINE B == {T \in SUBSET S : g[T] # h[T]}
  <1>g. /\ g = [T \in SUBSET S |-> g[T]]
        /\ \A T \in SUBSET S : g[T] = IF T = {} THEN 0 ELSE f[Some(T)] + g[T \ {Some(T)}]
    BY DEF PartialSums
  <1>h. /\ h = [T \in SUBSET S |-> h[T]]
        /\ \A T \in SUBSET S : h[T] = IF T = {} THEN 0 ELSE f[Some(T)] + h[T \ {Some(T)}]
    BY DEF PartialSums
  <1>1. B = {}
    <2> SUFFICES ASSUME B # {} PROVE FALSE
      OBVIOUS
    <2>0. B \subseteq SUBSET S
      OBVIOUS
    <2> HIDE DEF B
    <2>1. PICK T \in B : \A U \in B : U \subseteq T => U = T
      BY <2>0, MinimalSubset
    <2> USE DEF B
    <2>2. T # {}
      BY <1>g, <1>h
    <2>3. T \ {Some(T)} \subseteq T /\ T \ {Some(T)} # T
      BY <2>2, SomeIn
    <2>4. T \ {Some(T)} \notin B /\ T \ {Some(T)} \in SUBSET S
      BY <2>1, <2>3
    <2> QED BY <1>g, <1>h, <2>2, <2>4
  <1> QED BY <1>1, <1>g, <1>h

\* Every finite set has a table: take a minimal set without one, and put the
\* tables of its proper subsets together.
LEMMA PartialSumsExist ==
    ASSUME NEW f, NEW S, IsFiniteSet(S)
    PROVE  \E g : PartialSums(g, f, S)
  <1> DEFINE B == {T \in SUBSET S : ~ \E g : PartialSums(g, f, T)}
  <1> SUFFICES ASSUME B # {} PROVE FALSE
    OBVIOUS
  <1>0. B \subseteq SUBSET S
    OBVIOUS
  <1> HIDE DEF B
  <1>1. PICK T \in B : \A U \in B : U \subseteq T => U = T
    BY <1>0, MinimalSubset
  <1> USE DEF B
  <1>2. ASSUME NEW U \in SUBSET T, U # T PROVE \E g : PartialSums(g, f, U)
    BY <1>1, <1>2
  <1> DEFINE tab(U) == CHOOSE g : PartialSums(g, f, U)
             total(U) == tab(U)[U]
             G == [U \in SUBSET T |-> IF U # T THEN total(U)
                                      ELSE IF T = {} THEN 0 ELSE f[Some(T)] + total(T \ {Some(T)})]
  <1>3. ASSUME NEW U \in SUBSET T, U # T PROVE PartialSums(tab(U), f, U)
    BY <1>2, <1>3
  <1> HIDE DEF tab
  <1>4. ASSUME NEW U \in SUBSET T, U # T, U # {}
        PROVE  total(U) = f[Some(U)] + total(U \ {Some(U)})
    <2> DEFINE V == U \ {Some(U)}
    <2>1. Some(U) \in U /\ V \in SUBSET T /\ V # T /\ V \in SUBSET U
      BY <1>4, SomeIn
    <2>2. PartialSums([W \in SUBSET V |-> tab(U)[W]], f, V)
      BY <1>3, <1>4, <2>1, PartialSumsSubset
    <2>3. IsFiniteSet(V)
      BY <1>1, <2>1, FS_Subset
    <2>4. tab(V) = [W \in SUBSET V |-> tab(U)[W]]
      <3>1. PartialSums(tab(V), f, V)
        BY <1>3, <2>1
      <3> HIDE DEF V
      <3> QED BY <2>2, <2>3, <3>1, PartialSumsUnique
    <2>5. total(V) = tab(U)[V]
      BY <2>4
    <2>6. tab(U)[U] = f[Some(U)] + tab(U)[V]
      BY <1>3, <1>4 DEF PartialSums
    <2> QED BY <2>5, <2>6
  <1>5. PartialSums(G, f, T)
    <2>1. ASSUME NEW U \in SUBSET T
          PROVE  G[U] = IF U = {} THEN 0 ELSE f[Some(U)] + G[U \ {Some(U)}]
      <3>1. CASE U = {} /\ U = T
        BY <3>1
      <3>2. CASE U = {} /\ U # T
        <4>1. total(U) = 0
          BY <1>3, <3>2 DEF PartialSums
        <4> QED BY <3>2, <4>1
      <3>3. CASE U # {}
        <4>1. U \ {Some(U)} \in SUBSET T /\ U \ {Some(U)} # T
          BY <3>3, SomeIn
        <4>2. G[U \ {Some(U)}] = total(U \ {Some(U)})
          BY <4>1
        <4>3. U # T => total(U) = f[Some(U)] + total(U \ {Some(U)})
          BY <1>4, <3>3
        <4> HIDE DEF total
        <4> QED BY <3>3, <4>2, <4>3
      <3> QED BY <3>1, <3>2, <3>3
    <2>2. G = [U \in SUBSET T |-> G[U]]
      OBVIOUS
    <2> HIDE DEF G
    <2> QED BY <2>1, <2>2 DEF PartialSums
  <1> QED BY <1>1, <1>5

-----------------------------------------------------------------------------
(* What a sum is.                                                          *)

\* The sum over nothing is 0; otherwise one element is added to the rest.
LEMMA SumStep ==
    ASSUME NEW f, NEW S, IsFiniteSet(S)
    PROVE  SumOver(f, S) = IF S = {} THEN 0 ELSE f[Some(S)] + SumOver(f, S \ {Some(S)})
  <1> DEFINE tab(T) == CHOOSE g : PartialSums(g, f, T)
             V == S \ {Some(S)}
  <1>1. IsFiniteSet(V) /\ V \in SUBSET S
    BY FS_Subset
  <1>2. PartialSums(tab(S), f, S)
    BY PartialSumsExist
  <1>3. PartialSums(tab(V), f, V)
    <2> HIDE DEF V
    <2> QED BY <1>1, PartialSumsExist
  <1>4. SumOver(f, S) = tab(S)[S] /\ SumOver(f, V) = tab(V)[V]
    BY SumUnfold
  <1> HIDE DEF tab
  <1>5. PartialSums([W \in SUBSET V |-> tab(S)[W]], f, V)
    BY <1>1, <1>2, PartialSumsSubset
  <1>6. tab(V) = [W \in SUBSET V |-> tab(S)[W]]
    <2> HIDE DEF V
    <2> QED BY <1>1, <1>3, <1>5, PartialSumsUnique
  <1>7. tab(S)[S] = IF S = {} THEN 0 ELSE f[Some(S)] + tab(S)[V]
    BY <1>2 DEF PartialSums
  <1>8. tab(V)[V] = tab(S)[V]
    BY <1>6
  <1> QED BY <1>4, <1>7, <1>8

\* The sum over nothing.
LEMMA SumEmpty == ASSUME NEW f PROVE SumOver(f, {}) = 0
  BY SumStep, FS_EmptySet

\* A sum of naturals is a natural number.
LEMMA SumNat ==
    ASSUME NEW f, NEW S, IsFiniteSet(S), \A x \in S : f[x] \in Nat
    PROVE  SumOver(f, S) \in Nat
  <1> DEFINE B == {T \in SUBSET S : SumOver(f, T) \notin Nat}
  <1> SUFFICES ASSUME B # {} PROVE FALSE
    OBVIOUS
  <1>0. B \subseteq SUBSET S
    OBVIOUS
  <1> HIDE DEF B
  <1>1. PICK T \in B : \A U \in B : U \subseteq T => U = T
    BY <1>0, MinimalSubset
  <1> USE DEF B
  <1>2. T # {} /\ IsFiniteSet(T)
    <2>1. SumOver(f, {}) = 0 /\ T \in SUBSET S
      BY SumEmpty
    <2>2. IsFiniteSet(T)
      BY <2>1, FS_Subset
    <2> QED BY <2>1, <2>2
  <1>3. Some(T) \in T
    BY <1>2, SomeIn
  <1>4. SumOver(f, T) = f[Some(T)] + SumOver(f, T \ {Some(T)})
    BY <1>2, SumStep
  <1>5. T \ {Some(T)} \notin B /\ T \ {Some(T)} \in SUBSET S
    BY <1>1, <1>3
  <1> QED BY <1>3, <1>4, <1>5

\* It does not matter which element is taken out first.
LEMMA SumRemove ==
    ASSUME NEW f, NEW S, IsFiniteSet(S), \A x \in S : f[x] \in Nat, NEW a \in S
    PROVE  SumOver(f, S) = f[a] + SumOver(f, S \ {a})
  <1> DEFINE B == {T \in SUBSET S : \E x \in T : SumOver(f, T) # f[x] + SumOver(f, T \ {x})}
  <1> SUFFICES ASSUME B # {} PROVE FALSE
    OBVIOUS
  <1>0. B \subseteq SUBSET S
    OBVIOUS
  <1> HIDE DEF B
  <1>1. PICK T \in B : \A U \in B : U \subseteq T => U = T
    BY <1>0, MinimalSubset
  <1> USE DEF B
  <1>2. PICK x \in T : SumOver(f, T) # f[x] + SumOver(f, T \ {x})
    BY <1>1
  <1> DEFINE c == Some(T)
  <1>3. c \in T /\ T \in SUBSET S /\ IsFiniteSet(T)
    BY <1>1, SomeIn, FS_Subset
  <1>4. SumOver(f, T) = f[c] + SumOver(f, T \ {c})
    BY <1>3, SumStep
  <1> HIDE DEF c
  <1>5. c # x
    BY <1>2, <1>4
  <1>6. SumOver(f, T \ {c}) = f[x] + SumOver(f, (T \ {x}) \ {c})
    <2>1. T \ {c} \notin B /\ T \ {c} \in SUBSET S /\ x \in T \ {c}
      BY <1>1, <1>3, <1>5
    <2>2. (T \ {c}) \ {x} = (T \ {x}) \ {c}
      OBVIOUS
    <2> QED BY <2>1, <2>2
  <1>7. SumOver(f, T \ {x}) = f[c] + SumOver(f, (T \ {x}) \ {c})
    <2>1. T \ {x} \notin B /\ T \ {x} \in SUBSET S /\ c \in T \ {x}
      BY <1>1, <1>2, <1>3, <1>5
    <2> QED BY <2>1
  <1>9. SumOver(f, (T \ {x}) \ {c}) \in Nat
    <2>1. IsFiniteSet((T \ {x}) \ {c}) /\ (T \ {x}) \ {c} \subseteq S
      BY <1>3, FS_Subset
    <2> QED BY <2>1, SumNat
  <1>10. f[x] \in Nat /\ f[c] \in Nat
    BY <1>2, <1>3
  <1> DEFINE n == SumOver(f, (T \ {x}) \ {c})
  <1>11. f[c] + (f[x] + n) = f[x] + (f[c] + n)
    <2>1. n \in Nat
      BY <1>9
    <2> HIDE DEF n
    <2> QED BY <2>1, <1>10
  <1> QED BY <1>2, <1>4, <1>6, <1>7, <1>11

\* Functions that agree on a set have the same sum over it.
LEMMA SumSame ==
    ASSUME NEW f, NEW g, NEW S, IsFiniteSet(S), \A x \in S : f[x] = g[x]
    PROVE  SumOver(f, S) = SumOver(g, S)
  <1> DEFINE B == {T \in SUBSET S : SumOver(f, T) # SumOver(g, T)}
  <1> SUFFICES ASSUME B # {} PROVE FALSE
    OBVIOUS
  <1>0. B \subseteq SUBSET S
    OBVIOUS
  <1> HIDE DEF B
  <1>1. PICK T \in B : \A U \in B : U \subseteq T => U = T
    BY <1>0, MinimalSubset
  <1> USE DEF B
  <1>2. T # {} /\ IsFiniteSet(T)
    <2>1. SumOver(f, {}) = 0 /\ T \in SUBSET S
      BY SumEmpty
    <2>2. IsFiniteSet(T)
      BY <2>1, FS_Subset
    <2> QED BY <2>1, <2>2, SumEmpty
  <1>3. Some(T) \in T
    BY <1>2, SomeIn
  <1>4. /\ SumOver(f, T) = f[Some(T)] + SumOver(f, T \ {Some(T)})
        /\ SumOver(g, T) = g[Some(T)] + SumOver(g, T \ {Some(T)})
    BY <1>2, SumStep
  <1>5. T \ {Some(T)} \notin B /\ T \ {Some(T)} \in SUBSET S
    BY <1>1, <1>3
  <1> QED BY <1>3, <1>4, <1>5

\* A sum grows with its terms.
LEMMA SumMonotone ==
    ASSUME NEW f, NEW g, NEW S, IsFiniteSet(S),
           \A x \in S : f[x] \in Nat /\ g[x] \in Nat /\ f[x] <= g[x]
    PROVE  SumOver(f, S) <= SumOver(g, S)
  <1> DEFINE B == {T \in SUBSET S : ~(SumOver(f, T) <= SumOver(g, T))}
  <1> SUFFICES ASSUME B # {} PROVE FALSE
    OBVIOUS
  <1>0. B \subseteq SUBSET S
    OBVIOUS
  <1> HIDE DEF B
  <1>1. PICK T \in B : \A U \in B : U \subseteq T => U = T
    BY <1>0, MinimalSubset
  <1> USE DEF B
  <1>2. T # {} /\ IsFiniteSet(T)
    <2>1. SumOver(f, {}) = 0 /\ T \in SUBSET S
      BY SumEmpty
    <2>2. IsFiniteSet(T)
      BY <2>1, FS_Subset
    <2> QED BY <2>1, <2>2, SumEmpty
  <1>3. Some(T) \in T
    BY <1>2, SomeIn
  <1>4. /\ SumOver(f, T) = f[Some(T)] + SumOver(f, T \ {Some(T)})
        /\ SumOver(g, T) = g[Some(T)] + SumOver(g, T \ {Some(T)})
    BY <1>2, SumStep
  <1>5. T \ {Some(T)} \notin B /\ T \ {Some(T)} \in SUBSET S /\ IsFiniteSet(T \ {Some(T)})
    BY <1>1, <1>3, FS_Subset
  <1>6. SumOver(f, T \ {Some(T)}) \in Nat /\ SumOver(g, T \ {Some(T)}) \in Nat
    BY <1>5, SumNat
  <1> QED BY <1>3, <1>4, <1>5, <1>6

\* Changing one term changes the sum by as much.
LEMMA SumUpdate ==
    ASSUME NEW f, NEW g, NEW S, IsFiniteSet(S), NEW a \in S,
           \A x \in S : f[x] \in Nat /\ g[x] \in Nat,
           \A x \in S \ {a} : f[x] = g[x]
    PROVE  SumOver(g, S) = SumOver(f, S) - f[a] + g[a]
  <1>1. IsFiniteSet(S \ {a})
    BY FS_Subset
  <1>2. SumOver(f, S) = f[a] + SumOver(f, S \ {a}) /\ SumOver(g, S) = g[a] + SumOver(g, S \ {a})
    BY SumRemove
  <1>3. SumOver(f, S \ {a}) = SumOver(g, S \ {a}) /\ SumOver(f, S \ {a}) \in Nat
    BY <1>1, SumSame, SumNat
  <1> QED BY ONLY <1>2, <1>3, f[a] \in Nat, g[a] \in Nat

\* A sum over a part is at most the sum over the whole.
LEMMA SumSubset ==
    ASSUME NEW f, NEW S, IsFiniteSet(S), \A x \in S : f[x] \in Nat, NEW T \in SUBSET S
    PROVE  SumOver(f, T) <= SumOver(f, S)
  <1> DEFINE B == {U \in SUBSET S : T \subseteq U /\ ~(SumOver(f, T) <= SumOver(f, U))}
  <1> SUFFICES ASSUME B # {} PROVE FALSE
    OBVIOUS
  <1>0. B \subseteq SUBSET S
    OBVIOUS
  <1> HIDE DEF B
  <1>1. PICK U \in B : \A V \in B : V \subseteq U => V = U
    BY <1>0, MinimalSubset
  <1> USE DEF B
  <1>2. IsFiniteSet(T) /\ IsFiniteSet(U)
    BY FS_Subset
  <1>3. SumOver(f, T) \in Nat
    BY <1>2, SumNat
  <1>a. U # T
    BY <1>1, <1>3
  <1>4. PICK x \in U : x \notin T
    BY <1>a
  <1>5. SumOver(f, U) = f[x] + SumOver(f, U \ {x})
    BY <1>1, <1>2, SumRemove
  <1>6. U \ {x} \notin B /\ U \ {x} \in SUBSET S /\ T \subseteq U \ {x} /\ IsFiniteSet(U \ {x})
    BY <1>1, <1>4, FS_Subset
  <1>7. SumOver(f, U \ {x}) \in Nat /\ f[x] \in Nat
    BY <1>1, <1>6, SumNat
  <1> QED BY <1>1, <1>3, <1>5, <1>6, <1>7

\* The sum over two disjoint sets.
LEMMA SumDisjoint ==
    ASSUME NEW f, NEW S, IsFiniteSet(S), NEW T, IsFiniteSet(T), S \cap T = {},
           \A x \in S \cup T : f[x] \in Nat
    PROVE  SumOver(f, S \cup T) = SumOver(f, S) + SumOver(f, T)
  <1> DEFINE B == {U \in SUBSET T : SumOver(f, S \cup U) # SumOver(f, S) + SumOver(f, U)}
  <1> SUFFICES ASSUME B # {} PROVE FALSE
    OBVIOUS
  <1>0. B \subseteq SUBSET T
    OBVIOUS
  <1> HIDE DEF B
  <1>1. PICK U \in B : \A V \in B : V \subseteq U => V = U
    BY <1>0, MinimalSubset
  <1> USE DEF B
  <1>2. SumOver(f, S) \in Nat /\ IsFiniteSet(U) /\ IsFiniteSet(S \cup U)
    BY SumNat, FS_Subset, FS_Union
  <1>3. U # {}
    <2> SUFFICES ASSUME U = {} PROVE FALSE
      OBVIOUS
    <2>1. SumOver(f, U) = 0 /\ S \cup U = S
      BY SumEmpty
    <2>2. SumOver(f, S \cup U) = SumOver(f, S) + SumOver(f, U)
      BY <1>2, <2>1
    <2> QED BY <1>1, <2>2
  <1>4. PICK x : x \in U
    BY <1>3
  <1> DEFINE V == U \ {x}
  <1>5. /\ V \notin B /\ V \in SUBSET T /\ IsFiniteSet(V)
        /\ (S \cup U) \ {x} = S \cup V
    BY <1>1, <1>4, FS_Subset
  <1>a. (\A y \in U : f[y] \in Nat) /\ (\A y \in S \cup U : f[y] \in Nat) /\ x \in S \cup U
    BY <1>1, <1>4
  <1>6. SumOver(f, U) = f[x] + SumOver(f, U \ {x})
    BY ONLY <1>a, <1>2, <1>4, SumRemove
  <1>7. SumOver(f, S \cup U) = f[x] + SumOver(f, (S \cup U) \ {x})
    BY ONLY <1>a, <1>2, SumRemove
  <1>8. SumOver(f, V) \in Nat /\ f[x] \in Nat
    BY <1>1, <1>4, <1>5, SumNat
  <1>9. SumOver(f, S \cup V) = SumOver(f, S) + SumOver(f, V)
    BY <1>5
  <1>b. SumOver(f, U) = f[x] + SumOver(f, V) /\ SumOver(f, S \cup U) = f[x] + SumOver(f, S \cup V)
    BY <1>5, <1>6, <1>7
  <1> HIDE DEF V
  <1>10. SumOver(f, S \cup U) = SumOver(f, S) + SumOver(f, U)
    BY ONLY <1>2, <1>b, <1>8, <1>9
  <1> QED BY <1>1, <1>10

\* Terms that are at most c add up to at most c for each of them.
LEMMA SumBound ==
    ASSUME NEW f, NEW S, IsFiniteSet(S), NEW c \in Nat, \A x \in S : f[x] \in Nat /\ f[x] <= c
    PROVE  SumOver(f, S) <= Cardinality(S) * c
  <1> DEFINE B == {U \in SUBSET S : ~(SumOver(f, U) <= Cardinality(U) * c)}
  <1> SUFFICES ASSUME B # {} PROVE FALSE
    OBVIOUS
  <1>0. B \subseteq SUBSET S
    OBVIOUS
  <1> HIDE DEF B
  <1>1. PICK U \in B : \A V \in B : V \subseteq U => V = U
    BY <1>0, MinimalSubset
  <1> USE DEF B
  <1>2. IsFiniteSet(U) /\ Cardinality(U) \in Nat
    BY <1>1, FS_Subset, FS_CardinalityType
  <1>3. U # {}
    <2> SUFFICES ASSUME U = {} PROVE FALSE
      OBVIOUS
    <2>1. SumOver(f, U) = 0 /\ Cardinality(U) = 0
      BY SumEmpty, FS_EmptySet
    <2>2. SumOver(f, U) <= Cardinality(U) * c
      BY <2>1
    <2> QED BY <1>1, <2>2
  <1>4. PICK x : x \in U
    BY <1>3
  <1>5. /\ U \ {x} \notin B /\ U \ {x} \in SUBSET S /\ IsFiniteSet(U \ {x})
        /\ Cardinality(U \ {x}) = Cardinality(U) - 1
    BY <1>1, <1>2, <1>4, FS_RemoveElement
  <1>6. SumOver(f, U) = f[x] + SumOver(f, U \ {x})
    BY <1>1, <1>2, <1>4, SumRemove
  <1>7. SumOver(f, U \ {x}) \in Nat /\ f[x] \in Nat /\ f[x] <= c
    BY <1>1, <1>4, <1>5, SumNat
  <1>8. SumOver(f, U \ {x}) <= (Cardinality(U) - 1) * c
    BY <1>5
  <1>9. (Cardinality(U) - 1) * c = Cardinality(U) * c - c
    BY <1>2
  <1>10. SumOver(f, U) <= Cardinality(U) * c
    BY <1>2, <1>6, <1>7, <1>8, <1>9
  <1> QED BY <1>1, <1>10

\* Terms that are at most the sum of two others.
LEMMA SumSplit ==
    ASSUME NEW f, NEW g, NEW h, NEW S, IsFiniteSet(S),
           \A x \in S : f[x] \in Nat /\ g[x] \in Nat /\ h[x] \in Nat /\ h[x] <= f[x] + g[x]
    PROVE  SumOver(h, S) <= SumOver(f, S) + SumOver(g, S)
  <1> DEFINE B == {T \in SUBSET S : ~(SumOver(h, T) <= SumOver(f, T) + SumOver(g, T))}
  <1> SUFFICES ASSUME B # {} PROVE FALSE
    OBVIOUS
  <1>0. B \subseteq SUBSET S
    OBVIOUS
  <1> HIDE DEF B
  <1>1. PICK T \in B : \A U \in B : U \subseteq T => U = T
    BY <1>0, MinimalSubset
  <1> USE DEF B
  <1>2. T # {} /\ IsFiniteSet(T)
    <2>1. SumOver(f, {}) = 0 /\ SumOver(g, {}) = 0 /\ SumOver(h, {}) = 0 /\ T \in SUBSET S
      BY SumEmpty
    <2>2. IsFiniteSet(T)
      BY <2>1, FS_Subset
    <2> QED BY <2>1, <2>2
  <1>3. PICK c : c = Some(T)
    OBVIOUS
  <1>4. c \in T
    BY <1>2, <1>3, SomeIn
  <1>5. /\ SumOver(f, T) = f[c] + SumOver(f, T \ {c})
        /\ SumOver(g, T) = g[c] + SumOver(g, T \ {c})
        /\ SumOver(h, T) = h[c] + SumOver(h, T \ {c})
    BY <1>2, <1>3, SumStep
  <1>6. T \ {c} \notin B /\ T \ {c} \in SUBSET S /\ IsFiniteSet(T \ {c})
    BY <1>1, <1>4, FS_Subset
  <1>7. SumOver(f, T \ {c}) \in Nat /\ SumOver(g, T \ {c}) \in Nat /\ SumOver(h, T \ {c}) \in Nat
    BY <1>6, SumNat
  <1>8. f[c] \in Nat /\ g[c] \in Nat /\ h[c] \in Nat /\ h[c] <= f[c] + g[c]
    BY <1>4
  <1>9. SumOver(h, T \ {c}) <= SumOver(f, T \ {c}) + SumOver(g, T \ {c})
    BY <1>6
  <1>10. SumOver(h, T) <= SumOver(f, T) + SumOver(g, T)
    BY ONLY <1>5, <1>7, <1>8, <1>9
  <1> QED BY <1>1, <1>10

-----------------------------------------------------------------------------
\* A finite set of naturals that is not empty has a largest element.
LEMMA FiniteMax ==
    ASSUME NEW S, S \subseteq Nat, IsFiniteSet(S), S # {}
    PROVE  Max(S) \in S /\ \A x \in S : x <= Max(S)
  <1> DEFINE B == {T \in SUBSET S : T # {} /\ ~ \E m \in T : \A x \in T : m >= x}
  <1>1. B = {}
    <2> SUFFICES ASSUME B # {} PROVE FALSE
      OBVIOUS
    <2>0. B \subseteq SUBSET S
      OBVIOUS
    <2> HIDE DEF B
    <2>1. PICK T \in B : \A U \in B : U \subseteq T => U = T
      BY ONLY <2>0, IsFiniteSet(S), B # {}, MinimalSubset
    <2> USE DEF B
    <2>2. PICK c : c \in T
      BY <2>1
    <2>3. T \ {c} \notin B /\ T \ {c} \in SUBSET S /\ c \in Nat
      BY <2>1, <2>2
    <2>4. CASE T \ {c} = {}
      BY <2>1, <2>2, <2>3, <2>4
    <2>5. ASSUME NEW m \in T \ {c}, \A x \in T \ {c} : m >= x PROVE FALSE
      <3>1. m \in Nat /\ \A x \in T : x \in Nat
        BY <2>1, <2>5
      <3>2. CASE m >= c
        BY <2>1, <2>5, <3>1, <3>2
      <3>3. CASE c >= m
        BY <2>1, <2>2, <2>3, <2>5, <3>1, <3>3
      <3> QED BY <2>3, <3>1, <3>2, <3>3
    <2> QED BY <2>3, <2>4, <2>5
  <1>2. PICK m \in S : \A x \in S : m >= x
    BY <1>1
  <1>3. Max(S) \in S /\ \A x \in S : Max(S) >= x
    BY <1>2 DEF Max
  <1> QED BY <1>3

\* A finite set has a subset of every smaller size.
LEMMA SubsetOfSize ==
    ASSUME NEW S, IsFiniteSet(S), NEW k \in Nat, k <= Cardinality(S)
    PROVE  \E W \in SUBSET S : IsFiniteSet(W) /\ Cardinality(W) = k
  <1>1. PICK B : B = {T \in SUBSET S : k <= Cardinality(T)}
    OBVIOUS
  <1>2. B \subseteq SUBSET S /\ B # {}
    BY <1>1
  <1>3. PICK W \in B : \A U \in B : U \subseteq W => U = W
    BY <1>2, MinimalSubset
  <1>4. W \in SUBSET S /\ k <= Cardinality(W) /\ IsFiniteSet(W) /\ Cardinality(W) \in Nat
    BY <1>1, <1>3, FS_Subset, FS_CardinalityType
  <1>5. CASE Cardinality(W) # k
    <2>1. W # {}
      BY <1>4, <1>5, FS_EmptySet
    <2>2. PICK a : a \in W
      BY <2>1
    <2>3. Cardinality(W \ {a}) = Cardinality(W) - 1
      BY <1>4, <2>2, FS_RemoveElement
    <2>4. W \ {a} \in B
      BY <1>1, <1>4, <1>5, <2>3
    <2> QED BY <1>3, <2>2, <2>4
  <1> QED BY <1>4, <1>5

\* A sum of zeros and ones is no more than the number of ones.
LEMMA SumOfOnes ==
    ASSUME NEW f, NEW S, IsFiniteSet(S), \A x \in S : f[x] \in Nat /\ f[x] <= 1,
           NEW P \in SUBSET S, \A x \in S \ P : f[x] = 0
    PROVE  SumOver(f, S) <= Cardinality(P)
  <1>1. /\ IsFiniteSet(P) /\ IsFiniteSet(S \ P) /\ P \cap (S \ P) = {} /\ P \cup (S \ P) = S
        /\ Cardinality(P) \in Nat /\ Cardinality(S \ P) \in Nat
    BY FS_Subset, FS_CardinalityType
  <1>2. PICK Q : Q = S \ P
    OBVIOUS
  <1>3. SumOver(f, P \cup Q) = SumOver(f, P) + SumOver(f, Q)
    BY <1>1, <1>2, SumDisjoint
  <1>4. SumOver(f, Q) <= Cardinality(Q) * 0 /\ SumOver(f, Q) \in Nat
    BY <1>1, <1>2, SumBound, SumNat
  <1>5. SumOver(f, P) <= Cardinality(P) * 1 /\ SumOver(f, P) \in Nat
    BY <1>1, SumBound, SumNat
  <1>6. P \cup Q = S
    BY <1>1, <1>2
  <1>7. Cardinality(Q) * 0 = 0 /\ Cardinality(P) * 1 = Cardinality(P)
    BY <1>1, <1>2
  <1>8. SumOver(f, S) = SumOver(f, P) + SumOver(f, Q)
    BY <1>3, <1>6
  <1> QED BY ONLY <1>1, <1>4, <1>5, <1>7, <1>8
=============================================================================
