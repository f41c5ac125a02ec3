---------------------------- MODULE SumTheorems ----------------------------
(***************************************************************************)
(* Facts about SumFunctionOnSet(f, S), the sum of f[x] over the elements x *)
(* of a finite set, in which the models keep their books.                  *)
(*                                                                         *)
(* The operator is a fold: the value at S of a table over the subsets of   *)
(* S that is defined by recursion.  That such a table exists, and only one,*)
(* is shown by minimal counterexample in the order of strict inclusion,    *)
(* which is well founded on the subsets of a finite set.                   *)
(***************************************************************************)
EXTENDS Integers, Functions, FiniteSetTheorems, WellFoundedInduction, TLAPS

\* A non-empty set of subsets of a finite set has a minimal element.
LEMMA MinimalSubset ==
  ASSUME NEW S, IsFiniteSet(S), NEW C \in SUBSET (SUBSET S), C # {}
  PROVE  \E T \in C : \A U \in C : U \subseteq T => U = T
  <1>1. IsWellFoundedOn(StrictSubsetOrdering(S), SUBSET S)
    BY FS_StrictSubsetOrderingWellFounded, FS_FiniteSubsetsOfFinite
  <1>2. PICK T \in C : \A U \in C : ~ (<<U, T>> \in StrictSubsetOrdering(S))
    BY <1>1, WFMin
  <1>3. ASSUME NEW U \in C, U \subseteq T PROVE U = T
    <2>1. U \in SUBSET S /\ T \in SUBSET S
      OBVIOUS
    <2>2. <<U, T>> \notin StrictSubsetOrdering(S)
      BY <1>2
    <2> QED
      BY <1>3, <2>1, <2>2 DEF StrictSubsetOrdering
  <1> QED
    BY <1>3

-----------------------------------------------------------------------------
\* The table of the fold

AnyOf(s) == CHOOSE x \in s : TRUE

IsFoldTable(it, S, f) ==
    it = [s \in SUBSET S |-> IF s = {} THEN 0 ELSE f[AnyOf(s)] + it[s \ {AnyOf(s)}]]

LEMMA SumIsInTable ==
  ASSUME NEW S, NEW f
  PROVE  SumFunctionOnSet(f, S) = (CHOOSE it : IsFoldTable(it, S, f))[S]
  BY DEF SumFunctionOnSet, FoldFunctionOnSet, MapThenFoldSet, IsFoldTable, AnyOf

LEMMA TableAt ==
  ASSUME NEW S, NEW f, NEW it, IsFoldTable(it, S, f), NEW s \in SUBSET S
  PROVE  it[s] = IF s = {} THEN 0 ELSE f[AnyOf(s)] + it[s \ {AnyOf(s)}]
  <1>1. it = [t \in SUBSET S |-> IF t = {} THEN 0 ELSE f[AnyOf(t)] + it[t \ {AnyOf(t)}]]
    BY DEF IsFoldTable
  <1> QED
    BY <1>1

\* Two tables agree where both are defined, if their functions do.
LEMMA TablesAgree ==
  ASSUME NEW S, IsFiniteSet(S), NEW T, NEW f, NEW g, NEW a, NEW b,
         IsFoldTable(a, S, f), IsFoldTable(b, T, g), NEW U, U \subseteq S, U \subseteq T,
         \A x \in U : f[x] = g[x]
  PROVE  a[U] = b[U]
  <1> DEFINE C == {s \in SUBSET U : a[s] # b[s]}
  <1>1. SUFFICES ASSUME C # {} PROVE FALSE
    OBVIOUS
  <1>2. IsFiniteSet(U)
    BY FS_Subset
  <1>3. PICK s \in C : \A t \in C : t \subseteq s => t = s
    <2>1. C \in SUBSET (SUBSET U)
      OBVIOUS
    <2> HIDE DEF C
    <2> QED
      BY <1>1, <1>2, <2>1, MinimalSubset
  <1>4. a[s] = IF s = {} THEN 0 ELSE f[AnyOf(s)] + a[s \ {AnyOf(s)}]
    <2>1. s \in SUBSET S
      OBVIOUS
    <2> QED
      BY <2>1, TableAt
  <1>5. b[s] = IF s = {} THEN 0 ELSE g[AnyOf(s)] + b[s \ {AnyOf(s)}]
    <2>1. s \in SUBSET T
      OBVIOUS
    <2> QED
      BY <2>1, TableAt
  <1>6. s # {}
    BY <1>4, <1>5
  <1>7. AnyOf(s) \in s
    BY <1>6 DEF AnyOf
  <1>8. a[s \ {AnyOf(s)}] = b[s \ {AnyOf(s)}]
    BY <1>3, <1>7
  <1>9. f[AnyOf(s)] = g[AnyOf(s)]
    BY <1>7
  <1> QED
    BY <1>4, <1>5, <1>6, <1>8, <1>9

LEMMA TableExists ==
  ASSUME NEW S, IsFiniteSet(S), NEW f
  PROVE  \E it : IsFoldTable(it, S, f)
  <1> DEFINE C == {T \in SUBSET S : ~ \E it : IsFoldTable(it, T, f)}
  <1>1. SUFFICES ASSUME C # {} PROVE FALSE
    OBVIOUS
  <1>2. PICK T \in C : \A U \in C : U \subseteq T => U = T
    <2>1. C \in SUBSET (SUBSET S)
      OBVIOUS
    <2> HIDE DEF C
    <2> QED
      BY <1>1, <2>1, MinimalSubset
  <1> DEFINE Table(U) == CHOOSE it : IsFoldTable(it, U, f)
             new == [s \in SUBSET T |->
                       IF s = {} THEN 0
                       ELSE f[AnyOf(s)] + Table(s \ {AnyOf(s)})[s \ {AnyOf(s)}]]
  <1>3. ASSUME NEW U \in SUBSET T, U # T PROVE IsFoldTable(Table(U), U, f)
    <2>1. \E it : IsFoldTable(it, U, f)
      BY <1>2, <1>3
    <2> QED
      BY <2>1
  <1>4. ASSUME NEW s \in SUBSET T, s # {} PROVE new[s] = f[AnyOf(s)] + new[s \ {AnyOf(s)}]
    <2> DEFINE x == AnyOf(s)
               U == s \ {x}
    <2>1. x \in s
      BY <1>4 DEF AnyOf
    <2>2. U \in SUBSET T /\ U # T
      BY <2>1
    <2>3. IsFoldTable(Table(U), U, f)
      BY <1>3, <2>2
    <2>4. Table(U)[U] = IF U = {} THEN 0 ELSE f[AnyOf(U)] + Table(U)[U \ {AnyOf(U)}]
      <3> HIDE DEF Table, U
      <3> QED
        BY <2>3, TableAt
    <2>5. CASE U = {}
      <3>1. new[U] = 0
        BY <2>2, <2>5
      <3> QED
        BY <2>4, <2>5, <3>1, <1>4
    <2>6. CASE U # {}
      <3> DEFINE y == AnyOf(U)
                 V == U \ {y}
      <3>1. y \in U
        BY <2>6 DEF AnyOf
      <3>2. V \in SUBSET T /\ V # T
        BY <2>2, <3>1
      <3>3. IsFoldTable(Table(V), V, f)
        BY <1>3, <3>2
      <3>4. IsFiniteSet(V)
        BY <3>2, FS_Subset
      <3>5. Table(U)[V] = Table(V)[V]
        <4> HIDE DEF Table, U, V
        <4>1. V \subseteq U
          BY DEF V
        <4>2. IsFiniteSet(U)
          BY <2>2, FS_Subset
        <4> QED
          BY <2>3, <3>3, <4>1, <4>2, TablesAgree
      <3>6. new[U] = f[y] + Table(V)[V]
        BY <2>2, <2>6
      <3>7. new[s] = f[x] + Table(U)[U]
        BY <1>4
      <3> QED
        BY <2>4, <2>6, <3>5, <3>6, <3>7
    <2> QED
      BY <2>5, <2>6
  <1>5. new[{}] = 0
    OBVIOUS
  <1>6. IsFoldTable(new, T, f)
    <2>1. ASSUME NEW s \in SUBSET T
          PROVE  new[s] = IF s = {} THEN 0 ELSE f[AnyOf(s)] + new[s \ {AnyOf(s)}]
      <3> HIDE DEF new
      <3> QED
        BY <1>4, <1>5
    <2>2. new = [s \in SUBSET T |-> new[s]]
      OBVIOUS
    <2> HIDE DEF new
    <2> QED
      BY <2>1, <2>2 DEF IsFoldTable
  <1> QED
    BY <1>2, <1>6

-----------------------------------------------------------------------------
\* Sums

LEMMA SumTable ==
  ASSUME NEW S, IsFiniteSet(S), NEW f, NEW U \in SUBSET S, NEW it, IsFoldTable(it, S, f)
  PROVE  SumFunctionOnSet(f, U) = it[U]
  <1> DEFINE own == CHOOSE t : IsFoldTable(t, U, f)
  <1>1. IsFiniteSet(U)
    BY FS_Subset
  <1>2. IsFoldTable(own, U, f)
    BY <1>1, TableExists
  <1>3. SumFunctionOnSet(f, U) = own[U]
    BY SumIsInTable
  <1> HIDE DEF own
  <1>4. own[U] = it[U]
    BY <1>1, <1>2, TablesAgree
  <1> QED
    BY <1>3, <1>4

\* The defining equations of the fold.
LEMMA SumUnfold ==
  ASSUME NEW S, IsFiniteSet(S), NEW f
  PROVE  SumFunctionOnSet(f, S)
           = IF S = {} THEN 0 ELSE f[AnyOf(S)] + SumFunctionOnSet(f, S \ {AnyOf(S)})
  <1>1. PICK it : IsFoldTable(it, S, f)
    BY TableExists
  <1>2. SumFunctionOnSet(f, S) = it[S]
    BY <1>1, SumTable
  <1>3. SumFunctionOnSet(f, S \ {AnyOf(S)}) = it[S \ {AnyOf(S)}]
    BY <1>1, SumTable
  <1>4. it[S] = IF S = {} THEN 0 ELSE f[AnyOf(S)] + it[S \ {AnyOf(S)}]
    <2>1. S \in SUBSET S
      OBVIOUS
    <2> QED
      BY <1>1, <2>1, TableAt
  <1> QED
    BY <1>2, <1>3, <1>4

\* The sum depends on the values in the set only.
LEMMA SumSame ==
  ASSUME NEW S, IsFiniteSet(S), NEW f, NEW g, \A x \in S : f[x] = g[x]
  PROVE  SumFunctionOnSet(f, S) = SumFunctionOnSet(g, S)
  <1>1. PICK a : IsFoldTable(a, S, f)
    BY TableExists
  <1>2. PICK b : IsFoldTable(b, S, g)
    BY TableExists
  <1>3. a[S] = b[S]
    BY <1>1, <1>2, TablesAgree
  <1>4. S \in SUBSET S
    OBVIOUS
  <1> QED
    BY <1>1, <1>2, <1>3, <1>4, SumTable

LEMMA SumEmpty ==
  ASSUME NEW f PROVE SumFunctionOnSet(f, {}) = 0
  BY SumUnfold, FS_EmptySet

\* A sum of naturals is a natural number, a sum of integers an integer: N is
\* either, a set of numbers closed under addition.
LEMMA SumIn ==
  ASSUME NEW S, IsFiniteSet(S), NEW f, NEW N \in {Nat, Int}, \A x \in S : f[x] \in N
  PROVE  SumFunctionOnSet(f, S) \in N
  <1> DEFINE C == {T \in SUBSET S : SumFunctionOnSet(f, T) \notin N}
  <1>1. SUFFICES ASSUME C # {} PROVE FALSE
    BY <1>1
  <1>2. PICK T \in C : \A U \in C : U \subseteq T => U = T
    <2>1. C \in SUBSET (SUBSET S)
      OBVIOUS
    <2> HIDE DEF C
    <2> QED
      BY <1>1, <2>1, MinimalSubset
  <1>3. IsFiniteSet(T)
    BY FS_Subset
  <1>4. SumFunctionOnSet(f, T)
          = IF T = {} THEN 0 ELSE f[AnyOf(T)] + SumFunctionOnSet(f, T \ {AnyOf(T)})
    BY <1>3, SumUnfold
  <1>5. T # {}
    BY <1>4
  <1>6. AnyOf(T) \in T
    BY <1>5 DEF AnyOf
  <1>7. SumFunctionOnSet(f, T \ {AnyOf(T)}) \in N
    BY <1>2, <1>6
  <1>8. f[AnyOf(T)] \in N
    BY <1>6
  <1>9. \A a, b \in N : a + b \in N
    <2>1. CASE N = Nat
      BY <2>1
    <2>2. CASE N = Int
      BY <2>2
    <2> QED
      BY <2>1, <2>2
  <1> QED
    BY <1>4, <1>5, <1>7, <1>8, <1>9

\* Any element can be taken out first: the order of the fold does not matter.
LEMMA SumRemove ==
  ASSUME NEW S, IsFiniteSet(S), NEW f, \A y \in S : f[y] \in Int, NEW x \in S
  PROVE  SumFunctionOnSet(f, S) = f[x] + SumFunctionOnSet(f, S \ {x})
  <1> DEFINE Splits(T) == \A z \in T : SumFunctionOnSet(f, T)
                                          = f[z] + SumFunctionOnSet(f, T \ {z})
             C == {T \in SUBSET S : ~ Splits(T)}
  <1>1. SUFFICES ASSUME C # {} PROVE FALSE
    BY <1>1
  <1>2. PICK T \in C : \A U \in C : U \subseteq T => U = T
    <2>1. C \in SUBSET (SUBSET S)
      OBVIOUS
    <2> HIDE DEF C
    <2> QED
      BY <1>1, <2>1, MinimalSubset
  <1>3. PICK z \in T : SumFunctionOnSet(f, T) # f[z] + SumFunctionOnSet(f, T \ {z})
    OBVIOUS
  <1> DEFINE p == AnyOf(T)
  <1>4. p \in T
    BY DEF AnyOf
  <1>5. \A U \in SUBSET T : IsFiniteSet(U) /\ SumFunctionOnSet(f, U) \in Int
    <2> TAKE U \in SUBSET T
    <2>1. IsFiniteSet(U)
      BY FS_Subset
    <2> QED
      BY <2>1, SumIn
  <1>6. SumFunctionOnSet(f, T) = f[p] + SumFunctionOnSet(f, T \ {p})
    BY <1>4, <1>5, SumUnfold
  <1> HIDE DEF p
  <1>7. z # p
    BY <1>3, <1>6
  <1>8. SumFunctionOnSet(f, T \ {p}) = f[z] + SumFunctionOnSet(f, (T \ {p}) \ {z})
    <2>1. Splits(T \ {p})
      BY <1>2, <1>4
    <2>2. z \in T \ {p}
      BY <1>7
    <2> QED
      BY <2>1, <2>2
  <1>9. SumFunctionOnSet(f, T \ {z}) = f[p] + SumFunctionOnSet(f, (T \ {z}) \ {p})
    <2>1. Splits(T \ {z})
      BY <1>2
    <2>2. p \in T \ {z}
      BY <1>4, <1>7
    <2> QED
      BY <2>1, <2>2
  <1>10. (T \ {p}) \ {z} = (T \ {z}) \ {p}
    OBVIOUS
  <1>11. f[p] \in Int /\ f[z] \in Int /\ SumFunctionOnSet(f, (T \ {z}) \ {p}) \in Int
    BY <1>4, <1>5
  <1>12. f[p] + (f[z] + SumFunctionOnSet(f, (T \ {z}) \ {p}))
           = f[z] + (f[p] + SumFunctionOnSet(f, (T \ {z}) \ {p}))
    BY ONLY <1>11
  <1> HIDE DEF C
  <1> QED
    BY <1>3, <1>6, <1>8, <1>9, <1>10, <1>12

LEMMA SumAdd ==
  ASSUME NEW S, IsFiniteSet(S), NEW x, x \notin S, NEW f,
         \A y \in S \cup {x} : f[y] \in Int
  PROVE  SumFunctionOnSet(f, S \cup {x}) = SumFunctionOnSet(f, S) + f[x]
  <1>1. IsFiniteSet(S \cup {x})
    BY FS_AddElement
  <1>2. (S \cup {x}) \ {x} = S
    OBVIOUS
  <1>3. SumFunctionOnSet(f, S \cup {x}) = f[x] + SumFunctionOnSet(f, S)
    <2>1. x \in S \cup {x}
      OBVIOUS
    <2> DEFINE T == S \cup {x}
    <2>2. T \ {x} = S
      BY <1>2
    <2>3. SumFunctionOnSet(f, T) = f[x] + SumFunctionOnSet(f, T \ {x})
      <3> HIDE DEF T
      <3> QED
        BY <1>1, <2>1, SumRemove DEF T
    <2> QED
      BY <2>2, <2>3
  <1>4. SumFunctionOnSet(f, S) \in Int /\ f[x] \in Int
    BY SumIn
  <1> QED
    BY <1>3, <1>4

\* Two functions that differ at x only.
LEMMA SumChange ==
  ASSUME NEW S, IsFiniteSet(S), NEW f, NEW g, NEW x \in S,
         \A y \in S : f[y] \in Int /\ g[y] \in Int,
         \A y \in S \ {x} : g[y] = f[y]
  PROVE  SumFunctionOnSet(g, S) = SumFunctionOnSet(f, S) + g[x] - f[x]
  <1>1. IsFiniteSet(S \ {x})
    BY FS_RemoveElement
  <1>2. SumFunctionOnSet(g, S \ {x}) = SumFunctionOnSet(f, S \ {x})
    BY <1>1, SumSame
  <1>3. SumFunctionOnSet(g, S) = g[x] + SumFunctionOnSet(g, S \ {x})
    BY SumRemove
  <1>4. SumFunctionOnSet(f, S) = f[x] + SumFunctionOnSet(f, S \ {x})
    BY SumRemove
  <1>5. SumFunctionOnSet(f, S \ {x}) \in Int
    BY <1>1, SumIn
  <1> QED
    BY <1>2, <1>3, <1>4, <1>5

\* The same, with the condition under a name: the provers find f and g by it.
DifferAt(f, g, S, x) ==
  /\ x \in S
  /\ \A y \in S : f[y] \in Int /\ g[y] \in Int
  /\ \A y \in S \ {x} : g[y] = f[y]

LEMMA SumDiffer ==
  ASSUME NEW S, IsFiniteSet(S), NEW f, NEW g, NEW x, DifferAt(f, g, S, x)
  PROVE  SumFunctionOnSet(g, S) = SumFunctionOnSet(f, S) + g[x] - f[x]
  BY SumChange DEF DifferAt

\* The sum of a pointwise sum.
LEMMA SumPlus ==
  ASSUME NEW S, IsFiniteSet(S), NEW f, NEW g, NEW h,
         \A x \in S : f[x] \in Int /\ g[x] \in Int /\ h[x] = f[x] + g[x]
  PROVE  SumFunctionOnSet(h, S) = SumFunctionOnSet(f, S) + SumFunctionOnSet(g, S)
  <1> DEFINE Good(T) == SumFunctionOnSet(h, T)
                           = SumFunctionOnSet(f, T) + SumFunctionOnSet(g, T)
             C == {T \in SUBSET S : ~ Good(T)}
  <1>1. SUFFICES ASSUME C # {} PROVE FALSE
    BY <1>1
  <1>2. PICK T \in C : \A U \in C : U \subseteq T => U = T
    <2>1. C \in SUBSET (SUBSET S)
      OBVIOUS
    <2> HIDE DEF C
    <2> QED
      BY <1>1, <2>1, MinimalSubset
  <1>3. IsFiniteSet(T)
    BY FS_Subset
  <1>4. T # {}
    <2>1. Good({})
      BY SumEmpty
    <2> HIDE DEF Good
    <2> QED
      BY <2>1
  <1> DEFINE p == AnyOf(T)
  <1>5. p \in T
    BY <1>4 DEF AnyOf
  <1> HIDE DEF p
  <1>6. IsFiniteSet(T \ {p})
    BY <1>3, FS_RemoveElement
  <1>7. Good(T \ {p})
    BY <1>2, <1>5
  <1>8. /\ SumFunctionOnSet(f, T) = f[p] + SumFunctionOnSet(f, T \ {p})
        /\ SumFunctionOnSet(g, T) = g[p] + SumFunctionOnSet(g, T \ {p})
        /\ SumFunctionOnSet(h, T) = h[p] + SumFunctionOnSet(h, T \ {p})
    <2>1. \A y \in T : f[y] \in Int /\ g[y] \in Int /\ h[y] \in Int
      OBVIOUS
    <2> HIDE DEF C
    <2> QED
      BY <1>3, <1>5, <2>1, SumRemove
  <1>9. SumFunctionOnSet(f, T \ {p}) \in Int /\ SumFunctionOnSet(g, T \ {p}) \in Int
    BY <1>6, SumIn
  <1> QED
    BY <1>5, <1>7, <1>8, <1>9

\* What a larger set adds is zero, if its further elements are.
LEMMA SumZeros ==
  ASSUME NEW S, IsFiniteSet(S), NEW T \in SUBSET S, NEW f,
         \A x \in S : f[x] \in Int, \A x \in S \ T : f[x] = 0
  PROVE  SumFunctionOnSet(f, S) = SumFunctionOnSet(f, T)
  <1> DEFINE Good(V) == SumFunctionOnSet(f, V) = SumFunctionOnSet(f, T)
             C == {V \in SUBSET S : T \subseteq V /\ ~ Good(V)}
  <1>1. SUFFICES ASSUME C # {} PROVE FALSE
    BY <1>1
  <1>2. PICK V \in C : \A U \in C : U \subseteq V => U = V
    <2>1. C \in SUBSET (SUBSET S)
      OBVIOUS
    <2> HIDE DEF C
    <2> QED
      BY <1>1, <2>1, MinimalSubset
  <1>3. PICK x \in V : x \notin T
    BY <1>2
  <1>4. Good(V \ {x})
    BY <1>2, <1>3
  <1>5. IsFiniteSet(V) /\ IsFiniteSet(V \ {x})
    BY FS_Subset
  <1>6. SumFunctionOnSet(f, V) = f[x] + SumFunctionOnSet(f, V \ {x})
    BY <1>5, SumRemove
  <1>7. SumFunctionOnSet(f, V \ {x}) \in Int
    BY <1>5, SumIn
  <1> QED
    BY <1>3, <1>4, <1>6, <1>7

\* A function over 1..n extended by one value.
LEMMA SumGrows ==
  ASSUME NEW n \in Nat, NEW f, NEW g, \A i \in 1..(n + 1) : g[i] \in Int,
         \A i \in 1..n : g[i] = f[i]
  PROVE  SumFunctionOnSet(g, 1..(n + 1)) = SumFunctionOnSet(f, 1..n) + g[n + 1]
  <1>1. IsFiniteSet(1..n)
    BY FS_Interval
  <1>2. SumFunctionOnSet(g, 1..n) = SumFunctionOnSet(f, 1..n)
    BY <1>1, SumSame
  <1>3. 1..(n + 1) = 1..n \cup {n + 1} /\ n + 1 \notin 1..n
    OBVIOUS
  <1>4. SumFunctionOnSet(g, 1..n \cup {n + 1}) = SumFunctionOnSet(g, 1..n) + g[n + 1]
    <2>1. \A i \in 1..n \cup {n + 1} : g[i] \in Int
      BY <1>3
    <2> QED
      BY ONLY <1>1, <1>3, <2>1, SumAdd
  <1> QED
    BY <1>2, <1>3, <1>4

\* Over a set on which the function is zero.
LEMMA SumAllZero ==
  ASSUME NEW S, IsFiniteSet(S), NEW f, \A x \in S : f[x] = 0
  PROVE  SumFunctionOnSet(f, S) = 0
  <1>1. SumFunctionOnSet(f, S) = SumFunctionOnSet(f, {})
    <2>1. {} \in SUBSET S /\ (\A x \in S : f[x] \in Int) /\ \A x \in S \ {} : f[x] = 0
      OBVIOUS
    <2> QED
      BY <2>1, SumZeros
  <1> QED
    BY <1>1, SumEmpty

\* Sums compare as their terms do.
LEMMA SumLess ==
  ASSUME NEW S, IsFiniteSet(S), NEW f, NEW g,
         \A x \in S : f[x] \in Int /\ g[x] \in Int /\ f[x] <= g[x]
  PROVE  SumFunctionOnSet(f, S) <= SumFunctionOnSet(g, S)
  <1> DEFINE d == [x \in S |-> g[x] - f[x]]
  <1>1. \A x \in S : d[x] \in Nat /\ d[x] \in Int /\ g[x] = f[x] + d[x]
    OBVIOUS
  <1> HIDE DEF d
  <1>2. SumFunctionOnSet(d, S) \in Nat /\ SumFunctionOnSet(f, S) \in Int
    BY <1>1, SumIn
  <1>3. SumFunctionOnSet(g, S) = SumFunctionOnSet(f, S) + SumFunctionOnSet(d, S)
    BY <1>1, SumPlus
  <1> QED
    BY <1>2, <1>3

\* A non-empty set of naturals has a least element.
LEMMA LeastNat ==
  ASSUME NEW S \in SUBSET Nat, S # {}
  PROVE  \E x \in S : \A y \in S : x <= y
  <1> DEFINE R == OpToRel(<, Nat)
  <1>1. \A x, y \in Nat : y < x => <<y, x>> \in R
    BY DEF OpToRel
  <1>2. IsWellFoundedOn(R, Nat)
    BY NatLessThanWellFounded
  <1> HIDE DEF R
  <1>3. PICK x \in S : \A y \in S : ~ (<<y, x>> \in R)
    BY <1>2, WFMin
  <1>4. ASSUME NEW y \in S PROVE x <= y
    <2>1. x \in Nat /\ y \in Nat
      OBVIOUS
    <2>2. ~ (y < x)
      BY <1>1, <1>3, <2>1
    <2> QED
      BY <2>1, <2>2
  <1> QED
    BY <1>4

\* The sum over a sequence h that is f followed by g.
Follows(h, f, n, g, k) ==
  /\ \A i \in 1..n : f[i] \in Int /\ h[i] = f[i]
  /\ \A j \in 1..k : g[j] \in Int /\ h[n + j] = g[j]

LEMMA SumJoined ==
  ASSUME NEW n \in Nat, NEW k \in Nat, NEW f, NEW g, NEW h, Follows(h, f, n, g, k)
  PROVE  SumFunctionOnSet(h, 1..(n + k))
           = SumFunctionOnSet(f, 1..n) + SumFunctionOnSet(g, 1..k)
  <1> DEFINE Good(j) == SumFunctionOnSet(h, 1..(n + j))
                          = SumFunctionOnSet(f, 1..n) + SumFunctionOnSet(g, 1..j)
             C == {j \in 0..k : ~ Good(j)}
  <1>1. SUFFICES ASSUME C # {} PROVE FALSE
    BY <1>1
  <1>2. PICK j \in C : \A i \in C : j <= i
    <2>1. C \in SUBSET Nat
      OBVIOUS
    <2> HIDE DEF C
    <2> QED
      BY <1>1, <2>1, LeastNat
  <1> USE DEF Follows
  <1>3. IsFiniteSet(1..n) /\ SumFunctionOnSet(f, 1..n) \in Int
    <2>1. IsFiniteSet(1..n)
      BY FS_Interval
    <2> QED
      BY <2>1, SumIn
  <1>4. Good(0)
    <2>1. 1..0 = {} /\ n + 0 = n
      OBVIOUS
    <2>2. SumFunctionOnSet(g, 1..0) = 0
      BY <2>1, SumEmpty
    <2>3. SumFunctionOnSet(h, 1..n) = SumFunctionOnSet(f, 1..n)
      BY <1>3, SumSame
    <2> QED
      BY <1>3, <2>1, <2>2, <2>3
  <1>5. j \in 1..k /\ j - 1 \in 0..k /\ j - 1 \in Nat
    <2>1. j \in 0..k /\ j # 0
      BY <1>4
    <2> QED
      BY <2>1
  <1>6. Good(j - 1)
    <2>1. j - 1 \notin C
      BY <1>2, <1>5
    <2> QED
      BY <1>5, <2>1
  <1>7. \A i \in 1..(n + j) : h[i] \in Int
    <2> SUFFICES ASSUME NEW i \in 1..(n + j) PROVE h[i] \in Int
      OBVIOUS
    <2>1. CASE i \in 1..n
      BY <2>1
    <2>2. CASE i \notin 1..n
      <3>1. i - n \in 1..k /\ n + (i - n) = i
        BY <1>5, <2>2
      <3> QED
        BY <3>1
    <2> QED
      BY <2>1, <2>2
  <1>8. SumFunctionOnSet(h, 1..(n + j)) = SumFunctionOnSet(h, 1..(n + j - 1)) + h[n + j]
    <2> DEFINE q == n + j - 1
    <2>1. q \in Nat /\ q + 1 = n + j
      BY <1>5
    <2>2. \A i \in 1..(q + 1) : h[i] \in Int
      BY <1>7, <2>1
    <2> HIDE DEF q
    <2>3. SumFunctionOnSet(h, 1..(q + 1)) = SumFunctionOnSet(h, 1..q) + h[q + 1]
      BY ONLY <2>1, <2>2, SumGrows
    <2> QED
      BY <2>1, <2>3 DEF q
  <1>9. SumFunctionOnSet(g, 1..j) = SumFunctionOnSet(g, 1..(j - 1)) + g[j]
    <2> DEFINE q == j - 1
    <2>1. q \in Nat /\ q + 1 = j
      BY <1>5
    <2>2. \A i \in 1..(q + 1) : g[i] \in Int
      BY <1>5, <2>1
    <2> HIDE DEF q
    <2>3. SumFunctionOnSet(g, 1..(q + 1)) = SumFunctionOnSet(g, 1..q) + g[q + 1]
      BY ONLY <2>1, <2>2, SumGrows
    <2> QED
      BY <2>1, <2>3 DEF q
  <1>10. SumFunctionOnSet(g, 1..(j - 1)) \in Int
    <2>1. IsFiniteSet(1..(j - 1))
      BY <1>5, FS_Interval
    <2>2. \A i \in 1..(j - 1) : g[i] \in Int
      <3>1. \A i \in 1..(j - 1) : i \in 1..k
        BY <1>5
      <3> QED
        BY <3>1
    <2> QED
      BY <2>1, <2>2, SumIn
  <1>11. g[j] \in Int /\ h[n + j] = g[j] /\ n + (j - 1) = n + j - 1
    BY <1>5
  <1>12. SumFunctionOnSet(h, 1..(n + j - 1))
            = SumFunctionOnSet(f, 1..n) + SumFunctionOnSet(g, 1..(j - 1))
    BY <1>6, <1>11
  <1> QED
    BY <1>2, <1>3, <1>8, <1>9, <1>10, <1>11, <1>12
\* The sum of a multiple.
ScaledBy(f, g, S, k) == \A x \in S : f[x] \in Int /\ g[x] = k * f[x]

LEMMA SumScaled ==
  ASSUME NEW S, IsFiniteSet(S), NEW k \in Int, NEW f, NEW g, ScaledBy(f, g, S, k)
  PROVE  SumFunctionOnSet(g, S) = k * SumFunctionOnSet(f, S)
  <1> DEFINE Good(T) == SumFunctionOnSet(g, T) = k * SumFunctionOnSet(f, T)
             C == {T \in SUBSET S : ~ Good(T)}
  <1>1. SUFFICES ASSUME C # {} PROVE FALSE
    BY <1>1
  <1>2. PICK T \in C : \A U \in C : U \subseteq T => U = T
    <2>1. C \in SUBSET (SUBSET S)
      OBVIOUS
    <2> HIDE DEF C
    <2> QED
      BY <1>1, <2>1, MinimalSubset
  <1>3. T # {}
    <2>1. Good({})
      BY SumEmpty
    <2> QED
      BY <2>1
  <1>4. PICK x \in T : TRUE
    BY <1>3
  <1>5. Good(T \ {x})
    <2>1. T \ {x} \in SUBSET S /\ T \ {x} \subseteq T /\ T \ {x} # T
      BY <1>4
    <2> QED
      BY <1>2, <2>1
  <1>6. IsFiniteSet(T) /\ IsFiniteSet(T \ {x})
    BY FS_Subset
  <1>7. /\ \A y \in T : f[y] \in Int /\ g[y] = k * f[y]
        /\ \A y \in T \ {x} : f[y] \in Int
    BY DEF ScaledBy
  <1>8. \A y \in T : g[y] \in Int
    BY <1>7
  <1> DEFINE F == SumFunctionOnSet(f, T \ {x})
             G == SumFunctionOnSet(g, T \ {x})
  <1>9. SumFunctionOnSet(g, T) = g[x] + G
    BY ONLY <1>4, <1>6, <1>8, SumRemove
  <1>10. SumFunctionOnSet(f, T) = f[x] + F
    BY ONLY <1>4, <1>6, <1>7, SumRemove
  <1>11. F \in Int
    BY ONLY <1>6, <1>7, SumIn
  <1>12. G = k * F
    BY <1>5
  <1> HIDE DEF F, G
  <1>13. g[x] = k * f[x] /\ f[x] \in Int
    BY <1>7
  <1>14. k * (f[x] + F) = k * f[x] + k * F
    BY ONLY <1>11, <1>13, k \in Int
  <1>15. Good(T)
    BY <1>9, <1>10, <1>12, <1>13, <1>14
  <1> QED
    BY <1>15

\* The sum over a set is that over a part of it and over the rest.
LEMMA SumSplit ==
  ASSUME NEW S, IsFiniteSet(S), NEW T \in SUBSET S, NEW f, \A x \in S : f[x] \in Int
  PROVE  SumFunctionOnSet(f, S) = SumFunctionOnSet(f, T) + SumFunctionOnSet(f, S \ T)
  <1> DEFINE R == S \ T
             g == [x \in S |-> IF x \in T THEN f[x] ELSE 0]
             h == [x \in S |-> IF x \in T THEN 0 ELSE f[x]]
  <1>1. \A x \in S : g[x] \in Int /\ h[x] \in Int /\ f[x] = g[x] + h[x]
    OBVIOUS
  <1>2. /\ \A x \in S \ T : g[x] = 0
        /\ \A x \in T : f[x] = g[x]
        /\ \A x \in S \ R : h[x] = 0
        /\ \A x \in R : f[x] = h[x]
    OBVIOUS
  <1>3. R \in SUBSET S /\ IsFiniteSet(R) /\ IsFiniteSet(T)
    BY FS_Subset
  <1>4. (\A x \in S : g[x] \in Int) /\ \A x \in S : h[x] \in Int
    BY <1>1
  <1> HIDE DEF R, g, h
  <1>5. SumFunctionOnSet(f, S) = SumFunctionOnSet(g, S) + SumFunctionOnSet(h, S)
    BY ONLY IsFiniteSet(S), <1>1, SumPlus
  <1>6. SumFunctionOnSet(g, S) = SumFunctionOnSet(g, T)
    BY ONLY IsFiniteSet(S), T \in SUBSET S, <1>2, <1>4, SumZeros
  <1>7. SumFunctionOnSet(h, S) = SumFunctionOnSet(h, R)
    BY ONLY IsFiniteSet(S), <1>2, <1>3, <1>4, SumZeros
  <1>8. SumFunctionOnSet(f, T) = SumFunctionOnSet(g, T)
    BY ONLY <1>2, <1>3, SumSame
  <1>9. SumFunctionOnSet(f, R) = SumFunctionOnSet(h, R)
    BY ONLY <1>2, <1>3, SumSame
  <1> QED
    BY <1>5, <1>6, <1>7, <1>8, <1>9 DEF R

=============================================================================
