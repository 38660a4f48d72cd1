----------------------------- MODULE FiniteSums -----------------------------
(***************************************************************************)
(* What the sums of the models obey: SumFunctionOnSet(f, S) adds f[x] for  *)
(* all x of a finite set S.  The community module defines it by recursion  *)
(* over the subsets of S; that the recursion has a solution, and what is   *)
(* true of it, follows from the well-foundedness of the strict subsets of  *)
(* a finite set.                                                           *)
(***************************************************************************)
EXTENDS Integers, Functions, FiniteSetTheorems, TLAPS

\* A non-empty set of subsets of a finite set has a least one.
LEMMA LeastSubset ==
  ASSUME NEW U, IsFiniteSet(U), NEW B \in SUBSET (SUBSET U), B # {}
  PROVE  \E T \in B : \A V \in B : V \subseteq T => V = T
<1>1. B \subseteq FiniteSubsetsOf(U)
  BY FS_Subset DEF FiniteSubsetsOf
<1>2. IsWellFoundedOn(StrictSubsetOrdering(U), FiniteSubsetsOf(U))
  BY FS_StrictSubsetOrderingWellFounded
<1>3. PICK T \in B : \A V \in B : <<V, T>> \notin StrictSubsetOrdering(U)
  BY <1>1, <1>2, WFMin
<1> QED BY <1>1, <1>3 DEF StrictSubsetOrdering

-----------------------------------------------------------------------------
\* The sums of f over all subsets of S, one element taken away after the other.
Least(T) == CHOOSE x \in T : TRUE

IsTable(sums, f, S) ==
  sums = [T \in SUBSET S |-> IF T = {} THEN 0 ELSE f[Least(T)] + sums[T \ {Least(T)}]]

LEMMA SumIsInTable ==
  ASSUME NEW f, NEW S
  PROVE  SumFunctionOnSet(f, S) = (CHOOSE sums : IsTable(sums, f, S))[S]
BY DEF SumFunctionOnSet, FoldFunctionOnSet, MapThenFoldSet, IsTable, Least

\* Two tables say the same of the sets that are in both.
LEMMA TablesAgree ==
  ASSUME NEW f, NEW S, IsFiniteSet(S), NEW V, NEW g, IsTable(g, f, S), NEW h, IsTable(h, f, V),
         NEW T, T \subseteq S, T \subseteq V
  PROVE  g[T] = h[T]
<1> DEFINE B == {W \in SUBSET (S \cap V) : g[W] # h[W]}
<1> SUFFICES ASSUME B # {} PROVE FALSE
  OBVIOUS
<1>1. IsFiniteSet(S \cap V)
  BY FS_Subset
<1>2. PICK W \in B : \A Y \in B : Y \subseteq W => Y = W
  <2> HIDE DEF B
  <2>1. B \in SUBSET (SUBSET (S \cap V))
    BY DEF B
  <2> QED BY <1>1, <2>1, LeastSubset
<1>3. W # {}
  BY DEF IsTable
<1>4. Least(W) \in W
  BY <1>3 DEF Least
<1>5. W \ {Least(W)} \notin B
  BY <1>2, <1>4
<1>6. g[W \ {Least(W)}] = h[W \ {Least(W)}]
  BY <1>5
<1>7. g[W] = f[Least(W)] + g[W \ {Least(W)}]
  BY <1>3 DEF IsTable
<1>8. h[W] = f[Least(W)] + h[W \ {Least(W)}]
  BY <1>3 DEF IsTable
<1> QED BY <1>6, <1>7, <1>8

\* Every finite set has a table: made for it from those of its subsets.
LEMMA TableExists ==
  ASSUME NEW f, NEW S, IsFiniteSet(S)
  PROVE  \E sums : IsTable(sums, f, S)
<1> DEFINE B == {W \in SUBSET S : ~ \E sums : IsTable(sums, f, W)}
           Table(V) == CHOOSE sums : IsTable(sums, f, V)
           Rest(T) == T \ {Least(T)}
<1> SUFFICES ASSUME B # {} PROVE FALSE
  OBVIOUS
<1>1. PICK W \in B : \A V \in B : V \subseteq W => V = W
  <2> HIDE DEF B
  <2>1. B \in SUBSET (SUBSET S)
    BY DEF B
  <2> QED BY <2>1, LeastSubset
<1> DEFINE g == [T \in SUBSET W |-> IF T = {} THEN 0 ELSE f[Least(T)] + Table(Rest(T))[Rest(T)]]
<1>2. ASSUME NEW V \in SUBSET W, V # W PROVE IsTable(Table(V), f, V) /\ IsFiniteSet(V)
  <2>1. V \notin B
    BY <1>1, <1>2
  <2>2. \E sums : IsTable(sums, f, V)
    BY <2>1
  <2> QED BY <2>2, FS_Subset
<1>3. ASSUME NEW T \in SUBSET W, T # {} PROVE g[Rest(T)] = Table(Rest(T))[Rest(T)]
  <2> DEFINE V == Rest(T)
  <2>1. V \in SUBSET W /\ V # W
    BY <1>3 DEF Least
  <2>2. IsTable(Table(V), f, V) /\ IsFiniteSet(V)
    BY <1>2, <2>1
  <2>3. CASE V = {}
    <3>1. g[V] = 0
      BY <2>1, <2>3
    <3>2. Table(V)[V] = 0
      <4> HIDE DEF Table, V
      <4> QED BY <2>2, <2>3 DEF IsTable
    <3> QED BY <3>1, <3>2
  <2>4. CASE V # {}
    <3>1. Rest(V) \in SUBSET V /\ Rest(V) # W /\ Rest(V) \in SUBSET W
      BY <2>1, <2>4 DEF Least
    <3>2. IsTable(Table(Rest(V)), f, Rest(V))
      BY <1>2, <3>1
    <3>3. Table(V)[Rest(V)] = Table(Rest(V))[Rest(V)]
      <4> HIDE DEF Table, V, Rest
      <4> QED BY <2>2, <3>1, <3>2, TablesAgree
    <3>4. Table(V)[V] = f[Least(V)] + Table(V)[Rest(V)]
      <4> HIDE DEF Table, V
      <4> QED BY <2>2, <2>4 DEF IsTable
    <3>5. g[V] = f[Least(V)] + Table(Rest(V))[Rest(V)]
      BY <2>1, <2>4
    <3> QED BY <3>3, <3>4, <3>5
  <2> QED BY <2>3, <2>4
<1>4. IsTable(g, f, W)
  <2>1. g = [T \in SUBSET W |-> IF T = {} THEN 0 ELSE f[Least(T)] + g[T \ {Least(T)}]]
    <3> DEFINE h == [T \in SUBSET W |-> IF T = {} THEN 0 ELSE f[Least(T)] + g[Rest(T)]]
    <3>1. ASSUME NEW T \in SUBSET W PROVE g[T] = h[T]
      <4>1. CASE T = {}
        BY <4>1
      <4>2. CASE T # {}
        <5>1. g[T] = f[Least(T)] + Table(Rest(T))[Rest(T)]
          BY <4>2
        <5>2. g[Rest(T)] = Table(Rest(T))[Rest(T)]
          BY <1>3, <4>2
        <5>3. h[T] = f[Least(T)] + g[Rest(T)]
          <6> HIDE DEF g, Rest
          <6> QED BY <4>2
        <5> QED BY <5>1, <5>2, <5>3
      <4> QED BY <4>1, <4>2
    <3>2. g = [T \in SUBSET W |-> g[T]] /\ h = [T \in SUBSET W |-> h[T]]
      OBVIOUS
    <3>3. g = h
      <4> HIDE DEF g, h
      <4> QED BY <3>1, <3>2
    <3> QED BY <3>3
  <2> HIDE DEF g
  <2> QED BY <2>1 DEF IsTable
<1> QED BY <1>1, <1>4

-----------------------------------------------------------------------------
LEMMA SumOfNone == \A f : SumFunctionOnSet(f, {}) = 0
<1> TAKE f
<1>1. PICK sums : IsTable(sums, f, {})
  BY TableExists, FS_EmptySet
<1>2. IsTable(CHOOSE t : IsTable(t, f, {}), f, {})
  BY <1>1
<1> QED BY <1>2, SumIsInTable DEF IsTable

\* The sum as the recursion makes it.
LEMMA SumUnfold ==
  ASSUME NEW f, NEW S, IsFiniteSet(S), S # {}
  PROVE  SumFunctionOnSet(f, S) = f[Least(S)] + SumFunctionOnSet(f, S \ {Least(S)})
<1> DEFINE Table(V) == CHOOSE sums : IsTable(sums, f, V)
           Rest == S \ {Least(S)}
<1>1. IsFiniteSet(Rest)
  BY FS_Subset
<1>2. IsTable(Table(S), f, S) /\ IsTable(Table(Rest), f, Rest)
  BY <1>1, TableExists
<1>3. Table(S)[Rest] = Table(Rest)[Rest]
  <2> HIDE DEF Table
  <2> QED BY <1>2, TablesAgree
<1>4. Table(S)[S] = f[Least(S)] + Table(S)[Rest]
  <2> HIDE DEF Table
  <2> QED BY <1>2 DEF IsTable
<1> QED BY <1>3, <1>4, SumIsInTable

\* The sum of integers is an integer, the sum of natural numbers one as well.
LEMMA SumIsInt ==
  ASSUME NEW f, NEW S, IsFiniteSet(S), \A x \in S : f[x] \in Int
  PROVE  SumFunctionOnSet(f, S) \in Int
<1> DEFINE B == {T \in SUBSET S : SumFunctionOnSet(f, T) \notin Int}
<1> SUFFICES ASSUME B # {} PROVE FALSE
  OBVIOUS
<1>1. PICK T \in B : \A V \in B : V \subseteq T => V = T
  <2> HIDE DEF B
  <2>1. B \in SUBSET (SUBSET S)
    BY DEF B
  <2> QED BY <2>1, LeastSubset
<1>2. T # {} /\ IsFiniteSet(T)
  <2>1. SumFunctionOnSet(f, {}) \in Int
    BY SumOfNone
  <2> QED BY <2>1, FS_Subset
<1>3. Least(T) \in T
  BY <1>2 DEF Least
<1>4. T \ {Least(T)} \notin B
  BY <1>1, <1>3
<1>5. f[Least(T)] \in Int /\ SumFunctionOnSet(f, T \ {Least(T)}) \in Int
  BY <1>3, <1>4
<1>6. SumFunctionOnSet(f, T) = f[Least(T)] + SumFunctionOnSet(f, T \ {Least(T)})
  BY <1>2, SumUnfold
<1> QED BY <1>5, <1>6

LEMMA SumIsNat ==
  ASSUME NEW f, NEW S, IsFiniteSet(S), \A x \in S : f[x] \in Nat
  PROVE  SumFunctionOnSet(f, S) \in Nat
<1> DEFINE B == {T \in SUBSET S : SumFunctionOnSet(f, T) \notin Nat}
<1> SUFFICES ASSUME B # {} PROVE FALSE
  OBVIOUS
<1>1. PICK T \in B : \A V \in B : V \subseteq T => V = T
  <2> HIDE DEF B
  <2>1. B \in SUBSET (SUBSET S)
    BY DEF B
  <2> QED BY <2>1, LeastSubset
<1>2. T # {} /\ IsFiniteSet(T)
  <2>1. SumFunctionOnSet(f, {}) \in Nat
    BY SumOfNone
  <2> QED BY <2>1, FS_Subset
<1>3. Least(T) \in T
  BY <1>2 DEF Least
<1>4. T \ {Least(T)} \notin B
  BY <1>1, <1>3
<1>5. f[Least(T)] \in Nat /\ SumFunctionOnSet(f, T \ {Least(T)}) \in Nat
  BY <1>3, <1>4
<1>6. SumFunctionOnSet(f, T) = f[Least(T)] + SumFunctionOnSet(f, T \ {Least(T)})
  BY <1>2, SumUnfold
<1> QED BY <1>5, <1>6

\* Whichever element is taken away: the order of the recursion is of no matter.
LEMMA SumRemove ==
  ASSUME NEW f, NEW S, IsFiniteSet(S), \A x \in S : f[x] \in Int, NEW y \in S
  PROVE  SumFunctionOnSet(f, S) = f[y] + SumFunctionOnSet(f, S \ {y})
<1> DEFINE B == {T \in SUBSET S :
                   \E z \in T : SumFunctionOnSet(f, T) # f[z] + SumFunctionOnSet(f, T \ {z})}
<1> SUFFICES ASSUME B # {} PROVE FALSE
  OBVIOUS
<1>1. PICK T \in B : \A V \in B : V \subseteq T => V = T
  <2> HIDE DEF B
  <2>1. B \in SUBSET (SUBSET S)
    BY DEF B
  <2> QED BY <2>1, LeastSubset
<1>2. PICK z \in T : SumFunctionOnSet(f, T) # f[z] + SumFunctionOnSet(f, T \ {z})
  OBVIOUS
<1> DEFINE x == Least(T)
           Both == (T \ {x}) \ {z}
<1>3. T \in SUBSET S /\ IsFiniteSet(T) /\ x \in T
  BY FS_Subset DEF Least
<1>4. SumFunctionOnSet(f, T) = f[x] + SumFunctionOnSet(f, T \ {x})
  BY <1>2, <1>3, SumUnfold
<1>5. x # z
  BY <1>2, <1>4
<1>6. T \ {x} \notin B /\ T \ {z} \notin B
  BY <1>1, <1>3
<1>7. SumFunctionOnSet(f, T \ {x}) = f[z] + SumFunctionOnSet(f, Both)
  BY <1>3, <1>5, <1>6
<1>8. (T \ {z}) \ {x} = Both
  OBVIOUS
<1>9. SumFunctionOnSet(f, T \ {z}) = f[x] + SumFunctionOnSet(f, Both)
  BY <1>3, <1>5, <1>6, <1>8
<1>10. SumFunctionOnSet(f, Both) \in Int /\ f[x] \in Int /\ f[z] \in Int
  <2>1. Both \in SUBSET S
    BY <1>3
  <2> QED BY <1>3, <2>1, SumIsInt, FS_Subset
<1> HIDE DEF x, Both
<1> QED BY <1>2, <1>4, <1>7, <1>9, <1>10

\* Only the values of f in S count.
LEMMA SumSame ==
  ASSUME NEW f, NEW g, NEW S, IsFiniteSet(S), \A x \in S : f[x] = g[x]
  PROVE  SumFunctionOnSet(f, S) = SumFunctionOnSet(g, S)
<1> DEFINE B == {T \in SUBSET S : SumFunctionOnSet(f, T) # SumFunctionOnSet(g, T)}
<1> SUFFICES ASSUME B # {} PROVE FALSE
  OBVIOUS
<1>1. PICK T \in B : \A V \in B : V \subseteq T => V = T
  <2> HIDE DEF B
  <2>1. B \in SUBSET (SUBSET S)
    BY DEF B
  <2> QED BY <2>1, LeastSubset
<1>2. T # {} /\ IsFiniteSet(T)
  BY SumOfNone, FS_Subset
<1>3. Least(T) \in T
  BY <1>2 DEF Least
<1>4. T \ {Least(T)} \notin B
  BY <1>1, <1>3
<1>5. SumFunctionOnSet(f, T) = f[Least(T)] + SumFunctionOnSet(f, T \ {Least(T)})
  BY <1>2, SumUnfold
<1>6. SumFunctionOnSet(g, T) = g[Least(T)] + SumFunctionOnSet(g, T \ {Least(T)})
  BY <1>2, SumUnfold
<1> QED BY <1>3, <1>4, <1>5, <1>6

\* No summand is larger, nor is the sum.
LEMMA SumAtMost ==
  ASSUME NEW f, NEW g, NEW S, IsFiniteSet(S),
         \A x \in S : f[x] \in Int /\ g[x] \in Int /\ f[x] <= g[x]
  PROVE  SumFunctionOnSet(f, S) <= SumFunctionOnSet(g, S)
<1> DEFINE B == {T \in SUBSET S : ~ (SumFunctionOnSet(f, T) <= SumFunctionOnSet(g, T))}
<1> SUFFICES ASSUME B # {} PROVE FALSE
  OBVIOUS
<1>1. PICK T \in B : \A V \in B : V \subseteq T => V = T
  <2> HIDE DEF B
  <2>1. B \in SUBSET (SUBSET S)
    BY DEF B
  <2> QED BY <2>1, LeastSubset
<1>2. T # {} /\ IsFiniteSet(T)
  <2>1. T \in SUBSET S
    OBVIOUS
  <2>2. T # {}
    <3>1. SumFunctionOnSet(f, {}) = 0 /\ SumFunctionOnSet(g, {}) = 0
      BY SumOfNone
    <3>2. ~ (SumFunctionOnSet(f, T) <= SumFunctionOnSet(g, T))
      OBVIOUS
    <3> HIDE DEF B
    <3> QED BY <3>1, <3>2
  <2> QED BY <2>1, <2>2, FS_Subset
<1>3. Least(T) \in T
  BY <1>2 DEF Least
<1>4. T \ {Least(T)} \notin B /\ T \ {Least(T)} \in SUBSET S
  BY <1>1, <1>3
<1>5. SumFunctionOnSet(f, T) = f[Least(T)] + SumFunctionOnSet(f, T \ {Least(T)})
  BY <1>2, SumUnfold
<1>6. SumFunctionOnSet(g, T) = g[Least(T)] + SumFunctionOnSet(g, T \ {Least(T)})
  BY <1>2, SumUnfold
<1>7. SumFunctionOnSet(f, T \ {Least(T)}) \in Int /\ SumFunctionOnSet(g, T \ {Least(T)}) \in Int
  BY <1>4, FS_Subset, SumIsInt
<1>8. SumFunctionOnSet(f, T \ {Least(T)}) <= SumFunctionOnSet(g, T \ {Least(T)})
  BY <1>4
<1>9. f[Least(T)] \in Int /\ g[Least(T)] \in Int /\ f[Least(T)] <= g[Least(T)]
  BY <1>3
<1>10. ~ (SumFunctionOnSet(f, T) <= SumFunctionOnSet(g, T))
  OBVIOUS
<1> HIDE DEF B
<1> QED BY <1>5, <1>6, <1>7, <1>8, <1>9, <1>10

\* One summand changes.
LEMMA SumChange ==
  ASSUME NEW f, NEW g, NEW S, IsFiniteSet(S), NEW y \in S,
         \A x \in S : f[x] \in Int /\ g[x] \in Int,
         \A x \in S \ {y} : f[x] = g[x]
  PROVE  SumFunctionOnSet(g, S) = SumFunctionOnSet(f, S) + g[y] - f[y]
<1>1. SumFunctionOnSet(f, S) = f[y] + SumFunctionOnSet(f, S \ {y})
  BY SumRemove
<1>2. SumFunctionOnSet(g, S) = g[y] + SumFunctionOnSet(g, S \ {y})
  BY SumRemove
<1>3. IsFiniteSet(S \ {y})
  BY FS_Subset
<1>4. SumFunctionOnSet(f, S \ {y}) = SumFunctionOnSet(g, S \ {y})
  BY <1>3, SumSame
<1>5. SumFunctionOnSet(f, S \ {y}) \in Int
  BY <1>3, SumIsInt
<1> QED BY <1>1, <1>2, <1>4, <1>5

\* A set in two parts.
LEMMA SumSplit ==
  ASSUME NEW f, NEW S, IsFiniteSet(S), \A x \in S : f[x] \in Int, NEW T \in SUBSET S
  PROVE  SumFunctionOnSet(f, S) = SumFunctionOnSet(f, T) + SumFunctionOnSet(f, S \ T)
<1> DEFINE B == {V \in SUBSET S :
                   SumFunctionOnSet(f, S) # SumFunctionOnSet(f, V) + SumFunctionOnSet(f, S \ V)}
<1> SUFFICES ASSUME B # {} PROVE FALSE
  OBVIOUS
<1>1. PICK W \in B : \A V \in B : V \subseteq W => V = W
  <2> HIDE DEF B
  <2>1. B \in SUBSET (SUBSET S)
    BY DEF B
  <2> QED BY <2>1, LeastSubset
<1>2. ASSUME NEW V \in SUBSET S PROVE IsFiniteSet(V) /\ SumFunctionOnSet(f, V) \in Int
  BY FS_Subset, SumIsInt
<1>3. W # {}
  <2>1. SumFunctionOnSet(f, S) \in Int
    BY <1>2
  <2>2. SumFunctionOnSet(f, {}) = 0
    BY SumOfNone
  <2>3. ASSUME W = {} PROVE FALSE
    <3>1. S \ W = S
      BY <2>3
    <3>2. SumFunctionOnSet(f, S \ W) = SumFunctionOnSet(f, S)
      BY <3>1
    <3>3. SumFunctionOnSet(f, S) # SumFunctionOnSet(f, W) + SumFunctionOnSet(f, S \ W)
      OBVIOUS
    <3> HIDE DEF B
    <3> QED BY <2>1, <2>2, <2>3, <3>2, <3>3
  <2> QED BY <2>3
<1>4. PICK x \in W : TRUE
  BY <1>3
<1> DEFINE V == W \ {x}
<1>5. V \in SUBSET S /\ V \notin B /\ x \in S
  BY <1>1, <1>4
<1>6. SumFunctionOnSet(f, S) = SumFunctionOnSet(f, V) + SumFunctionOnSet(f, S \ V)
  BY <1>5
<1>7. SumFunctionOnSet(f, W) = f[x] + SumFunctionOnSet(f, V)
  BY <1>2, <1>4, SumRemove
<1>8. (S \ V) \ {x} = S \ W /\ x \in S \ V
  BY <1>4, <1>5
<1>9. SumFunctionOnSet(f, S \ V) = f[x] + SumFunctionOnSet(f, S \ W)
  <2>1. IsFiniteSet(S \ V)
    BY <1>2
  <2> HIDE DEF V
  <2>2. SumFunctionOnSet(f, S \ V) = f[x] + SumFunctionOnSet(f, (S \ V) \ {x})
    BY <1>8, <2>1, SumRemove
  <2> QED BY <1>8, <2>2
<1>10. f[x] \in Int /\ SumFunctionOnSet(f, V) \in Int /\ SumFunctionOnSet(f, S \ W) \in Int
  BY <1>2, <1>5
<1> HIDE DEF V
<1> QED BY <1>6, <1>7, <1>9, <1>10

\* Zeros do not count.
LEMMA SumOfZeros ==
  ASSUME NEW f, NEW S, IsFiniteSet(S), \A x \in S : f[x] = 0
  PROVE  SumFunctionOnSet(f, S) = 0
<1> DEFINE B == {T \in SUBSET S : SumFunctionOnSet(f, T) # 0}
<1> SUFFICES ASSUME B # {} PROVE FALSE
  OBVIOUS
<1>1. PICK T \in B : \A V \in B : V \subseteq T => V = T
  <2> HIDE DEF B
  <2>1. B \in SUBSET (SUBSET S)
    BY DEF B
  <2> QED BY <2>1, LeastSubset
<1>2. T # {} /\ IsFiniteSet(T)
  BY SumOfNone, FS_Subset
<1>3. Least(T) \in T
  BY <1>2 DEF Least
<1>4. T \ {Least(T)} \notin B
  BY <1>1, <1>3
<1>5. SumFunctionOnSet(f, T) = f[Least(T)] + SumFunctionOnSet(f, T \ {Least(T)})
  BY <1>2, SumUnfold
<1> QED BY <1>3, <1>4, <1>5

LEMMA SumOfSupport ==
  ASSUME NEW f, NEW S, IsFiniteSet(S), \A x \in S : f[x] \in Int,
         NEW T \in SUBSET S, \A x \in S \ T : f[x] = 0
  PROVE  SumFunctionOnSet(f, S) = SumFunctionOnSet(f, T)
<1>1. SumFunctionOnSet(f, S \ T) = 0
  BY FS_Subset, SumOfZeros
<1>2. SumFunctionOnSet(f, T) \in Int
  BY FS_Subset, SumIsInt
<1> QED BY <1>1, <1>2, SumSplit

\* Fewer summands, a smaller sum.
LEMMA SumOfSubset ==
  ASSUME NEW f, NEW S, IsFiniteSet(S), \A x \in S : f[x] \in Nat, NEW T \in SUBSET S
  PROVE  SumFunctionOnSet(f, T) <= SumFunctionOnSet(f, S)
<1>1. SumFunctionOnSet(f, T) \in Nat /\ SumFunctionOnSet(f, S \ T) \in Nat
  BY FS_Subset, SumIsNat
<1> QED BY <1>1, SumSplit

\* A sum over the images of different elements.
LEMMA SumReindex ==
  ASSUME NEW f, NEW g, NEW S, IsFiniteSet(S), \A x \in S : f[x] \in Int,
         NEW h, \A x, y \in S : h[x] = h[y] => x = y, \A x \in S : g[h[x]] = f[x]
  PROVE  SumFunctionOnSet(f, S) = SumFunctionOnSet(g, {h[x] : x \in S})
<1> DEFINE Image(V) == {h[x] : x \in V}
           B == {V \in SUBSET S : SumFunctionOnSet(f, V) # SumFunctionOnSet(g, Image(V))}
<1> SUFFICES ASSUME B # {} PROVE FALSE
  OBVIOUS
<1>1. PICK V \in B : \A W \in B : W \subseteq V => W = V
  <2> HIDE DEF B
  <2>1. B \in SUBSET (SUBSET S)
    BY DEF B
  <2> QED BY <2>1, LeastSubset
<1>2. V \in SUBSET S /\ IsFiniteSet(V)
  BY FS_Subset
<1>3. V # {}
  <2>1. ASSUME V = {} PROVE FALSE
    <3>1. Image(V) = {}
      BY <2>1
    <3> QED BY <2>1, <3>1, SumOfNone
  <2> QED BY <2>1
<1>4. PICK y : y = Least(V)
  OBVIOUS
<1>5. y \in V
  BY <1>3, <1>4 DEF Least
<1>6. V \ {y} \notin B
  BY <1>1, <1>5
<1>7. SumFunctionOnSet(f, V \ {y}) = SumFunctionOnSet(g, Image(V \ {y}))
  BY <1>6
<1>8. SumFunctionOnSet(f, V) = f[y] + SumFunctionOnSet(f, V \ {y})
  BY <1>2, <1>3, <1>4, SumUnfold
<1>9. PICK T : T = Image(V)
  OBVIOUS
<1>10. T \ {h[y]} = Image(V \ {y})
  BY <1>2, <1>5, <1>9
<1>11. IsFiniteSet(T)
  <2>1. PICK k : k = [x \in V |-> h[x]]
    OBVIOUS
  <2>2. k \in Surjection(V, T)
    BY <1>9, <2>1 DEF Surjection
  <2> QED BY <1>2, <2>2, FS_Surjection
<1>12. h[y] \in T /\ \A z \in T : g[z] \in Int
  BY <1>2, <1>5, <1>9
<1>13. SumFunctionOnSet(g, T) = g[h[y]] + SumFunctionOnSet(g, T \ {h[y]})
  BY <1>11, <1>12, SumRemove
<1>14. SumFunctionOnSet(f, V) # SumFunctionOnSet(g, T)
  BY <1>9
<1> HIDE DEF Image, B
<1> QED BY <1>2, <1>5, <1>7, <1>8, <1>10, <1>13, <1>14

-----------------------------------------------------------------------------
\* k says of which group of T an element of S is, g what a group comes to.
Grouped(f, S, k, g, T) ==
  /\ \A x \in S : f[x] \in Int /\ k[x] \in T
  /\ \A t \in T : g[t] = SumFunctionOnSet(f, {x \in S : k[x] = t})

\* What is summed group by group is summed over all.
LEMMA SumByGroup ==
  ASSUME NEW f, NEW S, IsFiniteSet(S), NEW T, IsFiniteSet(T), NEW k, NEW g, Grouped(f, S, k, g, T)
  PROVE  SumFunctionOnSet(f, S) = SumFunctionOnSet(g, T)
<1>0. /\ \A x \in S : f[x] \in Int /\ k[x] \in T
      /\ \A t \in T : g[t] = SumFunctionOnSet(f, {x \in S : k[x] = t})
  BY DEF Grouped
<1> DEFINE In(V) == {x \in S : k[x] \in V}
           B == {V \in SUBSET T : SumFunctionOnSet(f, In(V)) # SumFunctionOnSet(g, V)}
<1> SUFFICES ASSUME B # {} PROVE FALSE
  <2>1. In(T) = S
    BY <1>0
  <2>2. T \notin B => SumFunctionOnSet(f, In(T)) = SumFunctionOnSet(g, T)
    OBVIOUS
  <2> HIDE DEF In, B
  <2> QED BY <2>1, <2>2
<1>1. PICK V \in B : \A W \in B : W \subseteq V => W = V
  <2> HIDE DEF B
  <2>1. B \in SUBSET (SUBSET T)
    BY DEF B
  <2> QED BY <2>1, LeastSubset
<1>2. V \in SUBSET T /\ IsFiniteSet(V) /\ SumFunctionOnSet(f, In(V)) # SumFunctionOnSet(g, V)
  BY <1>1, FS_Subset
<1>3. V # {}
  <2>1. ASSUME V = {} PROVE FALSE
    <3>1. In(V) = {}
      BY <2>1
    <3> HIDE DEF In
    <3> QED BY <1>2, <2>1, <3>1, SumOfNone
  <2> QED BY <2>1
<1>4. PICK t : t \in V
  BY <1>3
<1>5. V \ {t} \notin B
  BY <1>1, <1>4
<1>6. SumFunctionOnSet(f, In(V \ {t})) = SumFunctionOnSet(g, V \ {t})
  BY <1>2, <1>5
<1>7. PICK X : X = In(V)
  OBVIOUS
<1>8. PICK Y : Y = {x \in S : k[x] = t}
  OBVIOUS
<1>9. Y \in SUBSET X /\ X \ Y = In(V \ {t}) /\ X \in SUBSET S
  BY <1>4, <1>7, <1>8
<1>10. IsFiniteSet(X) /\ IsFiniteSet(Y) /\ \A x \in X : f[x] \in Int
  BY <1>0, <1>9, FS_Subset
<1>11. SumFunctionOnSet(f, X) = SumFunctionOnSet(f, Y) + SumFunctionOnSet(f, X \ Y)
  BY <1>9, <1>10, SumSplit
<1>12. \A u \in V : g[u] \in Int
  <2> SUFFICES ASSUME NEW u \in V PROVE g[u] \in Int
    OBVIOUS
  <2>1. PICK Z : Z = {x \in S : k[x] = u}
    OBVIOUS
  <2>2. Z \in SUBSET S /\ IsFiniteSet(Z) /\ \A x \in Z : f[x] \in Int
    BY <1>0, <2>1, FS_Subset
  <2>3. g[u] = SumFunctionOnSet(f, Z)
    BY <1>0, <1>2, <2>1
  <2> QED BY <2>2, <2>3, SumIsInt
<1>13. SumFunctionOnSet(g, V) = g[t] + SumFunctionOnSet(g, V \ {t})
  BY <1>2, <1>4, <1>12, SumRemove
<1>14. g[t] = SumFunctionOnSet(f, Y)
  BY <1>0, <1>2, <1>4, <1>8
<1> HIDE DEF In, B
<1> QED BY <1>2, <1>6, <1>7, <1>9, <1>11, <1>13, <1>14

\* A list that has an entry for everything that is not zero.
LEMMA SumOfList ==
  ASSUME NEW f, NEW S, IsFiniteSet(S), \A x \in S : f[x] \in Int,
         NEW P \in SUBSET S, \A x \in S \ P : f[x] = 0,
         NEW h, \A x, y \in P : h[x] = h[y] => x = y,
         NEW L, L = {h[x] : x \in P}, NEW g, \A x \in P : g[h[x]] = f[x]
  PROVE  SumFunctionOnSet(g, L) = SumFunctionOnSet(f, S)
<1>1. SumFunctionOnSet(f, S) = SumFunctionOnSet(f, P)
  BY SumOfSupport
<1>2. IsFiniteSet(P) /\ \A x \in P : f[x] \in Int
  BY FS_Subset
<1>3. SumFunctionOnSet(f, P) = SumFunctionOnSet(g, L)
  BY <1>2, SumReindex
<1> QED BY <1>1, <1>3

\* What is above zero, and what is below.
LEMMA SumOfSigns ==
  ASSUME NEW f, NEW S, IsFiniteSet(S), \A x \in S : f[x] \in Int
  PROVE  SumFunctionOnSet(f, S) = SumFunctionOnSet(f, {x \in S : f[x] > 0})
                                  + SumFunctionOnSet(f, {x \in S : f[x] < 0})
<1>1. PICK P : P = {x \in S : f[x] > 0}
  OBVIOUS
<1>2. PICK N : N = {x \in S : f[x] < 0}
  OBVIOUS
<1>3. P \in SUBSET S /\ S \ P \in SUBSET S /\ IsFiniteSet(S \ P)
  BY <1>1, FS_Subset
<1>4. SumFunctionOnSet(f, S) = SumFunctionOnSet(f, P) + SumFunctionOnSet(f, S \ P)
  BY <1>3, SumSplit
<1>5. N \in SUBSET (S \ P) /\ \A x \in (S \ P) \ N : f[x] = 0
  BY <1>1, <1>2
<1>6. SumFunctionOnSet(f, S \ P) = SumFunctionOnSet(f, N)
  <2>1. \A x \in S \ P : f[x] \in Int
    OBVIOUS
  <2> QED BY <1>3, <1>5, <2>1, SumOfSupport
<1> QED BY <1>1, <1>2, <1>4, <1>6

\* As many ones as there are elements.
LEMMA SumOfOnes ==
  ASSUME NEW f, NEW S, IsFiniteSet(S), \A x \in S : f[x] = 1
  PROVE  SumFunctionOnSet(f, S) = Cardinality(S)
<1> DEFINE B == {T \in SUBSET S : SumFunctionOnSet(f, T) # Cardinality(T)}
<1> SUFFICES ASSUME B # {} PROVE FALSE
  OBVIOUS
<1>1. PICK T \in B : \A V \in B : V \subseteq T => V = T
  <2> HIDE DEF B
  <2>1. B \in SUBSET (SUBSET S)
    BY DEF B
  <2> QED BY <2>1, LeastSubset
<1>2. T \in SUBSET S /\ IsFiniteSet(T) /\ SumFunctionOnSet(f, T) # Cardinality(T)
  BY <1>1, FS_Subset
<1>3. T # {}
  BY <1>2, SumOfNone, FS_EmptySet
<1>4. PICK t : t \in T
  BY <1>3
<1>5. PICK V : V = T \ {t}
  OBVIOUS
<1>6. V \notin B /\ V \in SUBSET S
  BY <1>1, <1>2, <1>4, <1>5
<1>7. SumFunctionOnSet(f, V) = Cardinality(V)
  BY <1>6
<1>8. \A x \in T : f[x] \in Int
  BY <1>2
<1>9. SumFunctionOnSet(f, T) = f[t] + SumFunctionOnSet(f, V)
  BY <1>2, <1>4, <1>5, <1>8, SumRemove
<1>10. Cardinality(V) = Cardinality(T) - 1 /\ Cardinality(T) \in Nat
  BY <1>2, <1>4, <1>5, FS_RemoveElement, FS_CardinalityType
<1>11. f[t] = 1
  BY <1>2, <1>4
<1> HIDE DEF B
<1> QED BY <1>2, <1>7, <1>9, <1>10, <1>11

=============================================================================
