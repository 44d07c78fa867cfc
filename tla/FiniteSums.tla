------------------------------ MODULE FiniteSums ------------------------------
(***************************************************************************)
(* Induction over finite sets, and what it shows of sums: facts that the   *)
(* proofs about totals of credits and payments use.                        *)
(*                                                                         *)
(* Induction is stated here for a set P of sets, not for a predicate, and  *)
(* is derived from the well-foundedness of strict inclusion.               *)
(***************************************************************************)
EXTENDS FiniteSetsExt, FiniteSetTheorems, TLAPS

\* What holds of a subset of S whenever it holds of the smaller ones holds of
\* the finite set S.
LEMMA FiniteStrongInduction ==
  ASSUME NEW S, IsFiniteSet(S), NEW P,
         \A T \in SUBSET S : (\A U \in SUBSET T : U # T => U \in P) => T \in P
  PROVE  S \in P
<1> DEFINE Bad == (SUBSET S) \ P
<1> SUFFICES ASSUME Bad # {} PROVE FALSE
  OBVIOUS
<1>1. IsWellFoundedOn(StrictSubsetOrdering(S), SUBSET S)
  <2> HIDE DEF Bad
  <2>1. FiniteSubsetsOf(S) = SUBSET S
    BY FS_FiniteSubsetsOfFinite
  <2>2. IsWellFoundedOn(StrictSubsetOrdering(S), FiniteSubsetsOf(S))
    BY FS_StrictSubsetOrderingWellFounded
  <2> QED
    BY <2>1, <2>2
<1>2. PICK T \in Bad : \A U \in Bad : <<U, T>> \notin StrictSubsetOrdering(S)
  <2> HIDE DEF Bad
  <2>1. Bad \subseteq SUBSET S
    BY DEF Bad
  <2> QED
    BY <1>1, <2>1, WFMin
<1>3. \A U \in SUBSET T : U # T => <<U, T>> \in StrictSubsetOrdering(S)
  BY <1>2 DEF StrictSubsetOrdering
<1>4. ASSUME NEW U \in SUBSET T, U # T PROVE U \in P
  <2>1. U \in SUBSET S /\ U \notin Bad
    BY <1>2, <1>3, <1>4
  <2> QED
    BY <2>1
<1> QED
  BY <1>2, <1>4

\* What holds of the empty set, and of T with one more element of S whenever
\* it holds of T, holds of the finite set S.
LEMMA FiniteInduction ==
  ASSUME NEW S, IsFiniteSet(S), NEW P, {} \in P,
         \A T \in SUBSET S, x \in S : T \in P /\ x \notin T => T \cup {x} \in P
  PROVE  S \in P
<1>1. ASSUME NEW T \in SUBSET S, \A U \in SUBSET T : U # T => U \in P
      PROVE  T \in P
  <2>1. CASE T = {}
    BY <2>1
  <2>2. CASE T # {}
    <3>1. PICK x : x \in T
      BY <2>2
    <3>2. /\ T \ {x} \in P
          /\ (T \ {x}) \cup {x} = T
      BY <1>1, <3>1
    <3> QED
      BY <3>1, <3>2
  <2> QED
    BY <2>1, <2>2
<1> QED
  BY <1>1, FiniteStrongInduction

-----------------------------------------------------------------------------
\* The library defines a sum by taking away one chosen element after another.
Chosen(T) == CHOOSE x \in T : TRUE

IsSumByChoice(f, w, S) ==
  f = [T \in SUBSET S |->
         IF T = {} THEN 0 ELSE w[Chosen(T)] + f[T \ {Chosen(T)}]]

\* A sum that may be taken apart at any element.
IsSumOf(f, w, S) ==
  /\ f \in [SUBSET S -> Int]
  /\ f[{}] = 0
  /\ \A T \in SUBSET S : \A x \in T : f[T] = w[x] + f[T \ {x}]

\* The definition of SumFunctionOnSet in the library.
LEMMA SumUnfolds ==
  ASSUME NEW w, NEW S
  PROVE  SumFunctionOnSet(w, S) = (CHOOSE f : IsSumByChoice(f, w, S))[S]
BY DEF SumFunctionOnSet, FoldFunctionOnSet, MapThenFoldSet, IsSumByChoice,
       Chosen

\* One more element.
LEMMA SumExtends ==
  ASSUME NEW w, NEW T, NEW x, x \notin T, \A y \in T \cup {x} : w[y] \in Int,
         NEW f, IsSumOf(f, w, T)
  PROVE  \E g : IsSumOf(g, w, T \cup {x})
<1> DEFINE X == T \cup {x}
           term(U) == IF x \in U THEN w[x] ELSE 0
           g == [U \in SUBSET X |-> f[U \ {x}] + term(U)]
<1>1. /\ f \in [SUBSET T -> Int]
      /\ f[{}] = 0
      /\ \A U \in SUBSET T : \A y \in U : f[U] = w[y] + f[U \ {y}]
  BY DEF IsSumOf
<1>2. \A U \in SUBSET X : U \ {x} \in SUBSET T
  OBVIOUS
<1>3. \A U \in SUBSET X : f[U \ {x}] \in Int /\ term(U) \in Int
  BY <1>1, <1>2
<1>4. g \in [SUBSET X -> Int]
  BY <1>3
<1>5. g[{}] = 0
  BY <1>1
<1>6. ASSUME NEW U \in SUBSET X, NEW y \in U
      PROVE  g[U] = w[y] + g[U \ {y}]
  <2>1. U \ {y} \in SUBSET X
    OBVIOUS
  <2>2. CASE y = x
    <3>1. (U \ {x}) \ {x} = U \ {x}
      OBVIOUS
    <3>2. g[U] = f[U \ {x}] + w[x] /\ g[U \ {x}] = f[U \ {x}] + 0
      BY <2>1, <2>2, <3>1
    <3> QED
      BY <1>3, <2>2, <3>2
  <2>3. CASE y # x
    <3>1. /\ U \ {x} \in SUBSET T
          /\ y \in U \ {x}
          /\ (U \ {x}) \ {y} = (U \ {y}) \ {x}
      BY <2>3
    <3>2. f[U \ {x}] = w[y] + f[(U \ {y}) \ {x}]
      <4>1. f[U \ {x}] = w[y] + f[(U \ {x}) \ {y}]
        BY <1>1, <3>1
      <4> QED
        BY <3>1, <4>1
    <3>3. term(U) = term(U \ {y})
      BY <2>3
    <3>4. /\ g[U] = f[U \ {x}] + term(U)
          /\ g[U \ {y}] = f[(U \ {y}) \ {x}] + term(U)
      BY <2>1, <3>3
    <3>5. w[y] \in Int
      BY <2>1
    <3> QED
      BY <1>3, <2>1, <3>2, <3>4, <3>5
  <2> QED
    BY <2>2, <2>3
<1>7. IsSumOf(g, w, X)
  <2> HIDE DEF g, X
  <2> QED
    BY <1>4, <1>5, <1>6 DEF IsSumOf
<1> QED
  BY <1>7

\* A finite set of integers has such a sum.
LEMMA SumExists ==
  ASSUME NEW w, NEW S, IsFiniteSet(S), \A x \in S : w[x] \in Int
  PROVE  \E f : IsSumOf(f, w, S)
<1> DEFINE P == {T \in SUBSET S : \E f : IsSumOf(f, w, T)}
<1>1. {} \in P
  <2> DEFINE zero == [T \in SUBSET {} |-> 0]
  <2>1. IsSumOf(zero, w, {})
    BY DEF IsSumOf
  <2> QED
    BY <2>1
<1>2. ASSUME NEW T \in SUBSET S, NEW x \in S, T \in P, x \notin T
      PROVE  T \cup {x} \in P
  BY <1>2, SumExtends
<1>3. S \in P
  <2> HIDE DEF P
  <2> QED
    BY <1>1, <1>2, FiniteInduction
<1> QED
  BY <1>3

\* The sum of the library is this one.
LEMMA SumAgrees ==
  ASSUME NEW w, NEW S, IsFiniteSet(S), NEW f, IsSumOf(f, w, S)
  PROVE  SumFunctionOnSet(w, S) = f[S]
<1> DEFINE h == CHOOSE g : IsSumByChoice(g, w, S)
<1>1. \A T : T # {} => Chosen(T) \in T
  BY DEF Chosen
<1>2. IsSumByChoice(f, w, S)
  <2>1. \A T \in SUBSET S : T # {} => f[T] = w[Chosen(T)] + f[T \ {Chosen(T)}]
    BY <1>1 DEF IsSumOf
  <2> QED
    BY <2>1 DEF IsSumOf, IsSumByChoice
<1>3. IsSumByChoice(h, w, S)
  BY <1>2
<1> HIDE DEF h
<1> DEFINE P == {T \in SUBSET S : h[T] = f[T]}
<1>4. ASSUME NEW T \in SUBSET S, \A U \in SUBSET T : U # T => U \in P
      PROVE  T \in P
  <2>1. CASE T = {}
    BY <1>3, <2>1 DEF IsSumByChoice, IsSumOf
  <2>2. CASE T # {}
    <3> DEFINE U == T \ {Chosen(T)}
    <3>1. h[T] = w[Chosen(T)] + h[U] /\ f[T] = w[Chosen(T)] + f[U]
      BY <1>2, <1>3, <2>2 DEF IsSumByChoice
    <3>2. h[U] = f[U]
      BY <1>1, <1>4, <2>2
    <3> QED
      BY <3>1, <3>2
  <2> QED
    BY <2>1, <2>2
<1>6. S \in P
  <2> HIDE DEF P
  <2> QED
    BY <1>4, FiniteStrongInduction
<1>7. h[S] = f[S]
  BY <1>6
<1> QED
  BY <1>7, SumUnfolds DEF h

-----------------------------------------------------------------------------
\* The sum of no terms.
LEMMA SumEmpty ==
  ASSUME NEW w
  PROVE  SumFunctionOnSet(w, {}) = 0
<1>1. PICK f : IsSumOf(f, w, {})
  BY SumExists, FS_EmptySet
<1> QED
  BY <1>1, SumAgrees, FS_EmptySet DEF IsSumOf

\* A sum may be taken apart at any of its elements.
LEMMA SumMember ==
  ASSUME NEW w, NEW S, IsFiniteSet(S), \A y \in S : w[y] \in Int, NEW x \in S
  PROVE  SumFunctionOnSet(w, S) = w[x] + SumFunctionOnSet(w, S \ {x})
<1> DEFINE R == S \ {x}
<1>1. PICK f : IsSumOf(f, w, S)
  BY SumExists
<1> DEFINE g == [T \in SUBSET R |-> f[T]]
<1>2. IsSumOf(g, w, R)
  <2>1. SUBSET R \subseteq SUBSET S
    OBVIOUS
  <2>2. g \in [SUBSET R -> Int] /\ g[{}] = 0
    BY <1>1, <2>1 DEF IsSumOf
  <2>3. ASSUME NEW T \in SUBSET R, NEW y \in T
        PROVE  g[T] = w[y] + g[T \ {y}]
    <3>1. f[T] = w[y] + f[T \ {y}]
      BY <1>1, <2>1 DEF IsSumOf
    <3>2. T \ {y} \in SUBSET R
      OBVIOUS
    <3> QED
      BY <3>1, <3>2
  <2> QED
    <3> HIDE DEF g, R
    <3> QED
      BY <2>2, <2>3 DEF IsSumOf
<1>3. SumFunctionOnSet(w, R) = f[R]
  <2>1. IsFiniteSet(R)
    BY FS_RemoveElement
  <2>2. g[R] = f[R]
    OBVIOUS
  <2> HIDE DEF g, R
  <2> QED
    BY <1>2, <2>1, <2>2, SumAgrees
<1>4. SumFunctionOnSet(w, S) = f[S]
  BY <1>1, SumAgrees
<1> QED
  BY <1>1, <1>3, <1>4 DEF IsSumOf

\* An element is added.
LEMMA SumAdd ==
  ASSUME NEW w, NEW S, IsFiniteSet(S), NEW x, x \notin S,
         \A y \in S \cup {x} : w[y] \in Int
  PROVE  SumFunctionOnSet(w, S \cup {x}) = w[x] + SumFunctionOnSet(w, S)
<1>1. IsFiniteSet(S \cup {x}) /\ (S \cup {x}) \ {x} = S
  BY FS_AddElement
<1> QED
  BY <1>1, SumMember

\* A sum of integers is one.
LEMMA SumType ==
  ASSUME NEW w, NEW S, IsFiniteSet(S), \A x \in S : w[x] \in Int
  PROVE  SumFunctionOnSet(w, S) \in Int
<1>1. PICK f : IsSumOf(f, w, S)
  BY SumExists
<1>2. f[S] \in Int
  BY <1>1 DEF IsSumOf
<1> QED
  BY <1>1, <1>2, SumAgrees

\* Only what the terms are matters.
LEMMA SumSameTerms ==
  ASSUME NEW w, NEW v, NEW S, IsFiniteSet(S),
         \A x \in S : w[x] \in Int /\ v[x] = w[x]
  PROVE  SumFunctionOnSet(v, S) = SumFunctionOnSet(w, S)
<1>1. PICK f : IsSumOf(f, w, S)
  BY SumExists
<1>2. IsSumOf(f, v, S)
  BY <1>1 DEF IsSumOf
<1> QED
  BY <1>1, <1>2, SumAgrees

\* A sum of zeroes.
LEMMA SumZero ==
  ASSUME NEW w, NEW S, IsFiniteSet(S), \A x \in S : w[x] = 0
  PROVE  SumFunctionOnSet(w, S) = 0
<1> DEFINE f == [T \in SUBSET S |-> 0]
<1>1. IsSumOf(f, w, S)
  BY DEF IsSumOf
<1>2. f[S] = 0
  OBVIOUS
<1> HIDE DEF f
<1> QED
  BY <1>1, <1>2, SumAgrees

\* A sum of terms none of which is negative is not negative.
LEMMA SumNat ==
  ASSUME NEW w, NEW S, IsFiniteSet(S), \A x \in S : w[x] \in Nat
  PROVE  SumFunctionOnSet(w, S) \in Nat
<1> DEFINE P == {T \in SUBSET S : SumFunctionOnSet(w, T) \in Nat}
<1>1. {} \in P
  BY SumEmpty
<1>2. ASSUME NEW T \in SUBSET S, NEW x \in S, T \in P, x \notin T
      PROVE  T \cup {x} \in P
  <2>1. SumFunctionOnSet(w, T \cup {x}) = w[x] + SumFunctionOnSet(w, T)
    BY <1>2, SumAdd, FS_Subset
  <2> QED
    BY <1>2, <2>1
<1> HIDE DEF P
<1>3. S \in P
  BY <1>1, <1>2, FiniteInduction
<1> QED
  BY <1>3 DEF P

\* One term changes: the sum changes as the term does.
LEMMA SumChanges ==
  ASSUME NEW w, NEW v, NEW S, IsFiniteSet(S), NEW x \in S,
         \A y \in S : w[y] \in Int,
         \A y \in S \ {x} : v[y] = w[y],
         v[x] \in Int
  PROVE  SumFunctionOnSet(v, S) = SumFunctionOnSet(w, S) + (v[x] - w[x])
<1> DEFINE R == S \ {x}
<1>1. IsFiniteSet(R)
  BY FS_RemoveElement
<1>2. \A y \in R : w[y] \in Int /\ v[y] = w[y]
  OBVIOUS
<1>3. \A y \in S : v[y] \in Int
  OBVIOUS
<1>4. /\ SumFunctionOnSet(w, S) = w[x] + SumFunctionOnSet(w, R)
      /\ SumFunctionOnSet(v, S) = v[x] + SumFunctionOnSet(v, R)
  BY <1>3, SumMember
<1> HIDE DEF R
<1>5. /\ SumFunctionOnSet(v, R) = SumFunctionOnSet(w, R)
      /\ SumFunctionOnSet(w, R) \in Int
  BY <1>1, <1>2, SumSameTerms, SumType
<1>6. w[x] \in Int
  OBVIOUS
<1> QED
  BY <1>4, <1>5, <1>6

\* A term is added to others that stay.
LEMMA SumGains ==
  ASSUME NEW w, NEW v, NEW S, IsFiniteSet(S), NEW x, x \notin S,
         \A y \in S : w[y] \in Int /\ v[y] = w[y],
         v[x] \in Int
  PROVE  SumFunctionOnSet(v, S \cup {x}) = SumFunctionOnSet(w, S) + v[x]
<1>1. \A y \in S \cup {x} : v[y] \in Int
  OBVIOUS
<1>2. SumFunctionOnSet(v, S \cup {x}) = v[x] + SumFunctionOnSet(v, S)
  BY <1>1, SumAdd
<1>3. /\ SumFunctionOnSet(v, S) = SumFunctionOnSet(w, S)
      /\ SumFunctionOnSet(w, S) \in Int
  BY SumSameTerms, SumType
<1> QED
  BY <1>2, <1>3

\* The sizes of sets that share no element add up to the size of their union.
LEMMA SumOfSizes ==
  ASSUME NEW w, NEW R, NEW S, IsFiniteSet(S),
         \A x \in S : IsFiniteSet(R[x]) /\ w[x] = Cardinality(R[x]),
         \A x, y \in S : x # y => R[x] \cap R[y] = {},
         NEW Whole, \A z : z \in Whole <=> \E x \in S : z \in R[x]
  PROVE  IsFiniteSet(Whole) /\ SumFunctionOnSet(w, S) = Cardinality(Whole)
<1> DEFINE U == [T \in SUBSET S |-> UNION {R[x] : x \in T}]
           P == {T \in SUBSET S : /\ IsFiniteSet(U[T])
                                  /\ SumFunctionOnSet(w, T) = Cardinality(U[T])}
<1>1. {} \in P
  <2>1. U[{}] = {}
    OBVIOUS
  <2> HIDE DEF U
  <2> QED
    BY <2>1, SumEmpty, FS_EmptySet
<1>2. ASSUME NEW T \in SUBSET S, NEW x \in S, T \in P, x \notin T
      PROVE  T \cup {x} \in P
  <2>1. /\ U[T \cup {x}] = U[T] \cup R[x]
        /\ U[T] \cap R[x] = {}
    <3>1. T \cup {x} \in SUBSET S
      OBVIOUS
    <3> QED
      BY <1>2, <3>1
  <2> HIDE DEF U
  <2>2. /\ IsFiniteSet(U[T]) /\ IsFiniteSet(R[x])
        /\ SumFunctionOnSet(w, T) = Cardinality(U[T])
        /\ w[x] = Cardinality(R[x])
    BY <1>2
  <2>3. /\ Cardinality({}) = 0
        /\ Cardinality(U[T]) \in Nat /\ Cardinality(R[x]) \in Nat
    BY <2>2, FS_EmptySet, FS_CardinalityType
  <2>4. /\ IsFiniteSet(U[T] \cup R[x])
        /\ Cardinality(U[T] \cup R[x]) =
             Cardinality(U[T]) + Cardinality(R[x]) - Cardinality(U[T] \cap R[x])
    BY <2>2, FS_Union
  <2>5. SumFunctionOnSet(w, T \cup {x}) = w[x] + SumFunctionOnSet(w, T)
    <3>1. \A y \in T \cup {x} : w[y] \in Int
      BY FS_CardinalityType
    <3> QED
      BY <1>2, <3>1, SumAdd, FS_Subset
  <2>6. SumFunctionOnSet(w, T \cup {x}) = Cardinality(U[T] \cup R[x])
    <3>1. Cardinality(U[T] \cap R[x]) = 0
      BY <2>1, <2>3
    <3>2. Cardinality(U[T] \cup R[x]) = Cardinality(R[x]) + Cardinality(U[T])
      BY <2>3, <2>4, <3>1
    <3> QED
      BY <2>2, <2>5, <3>2
  <2> QED
    BY <2>1, <2>4, <2>6
<1>3. S \in P
  <2> HIDE DEF P
  <2> QED
    BY <1>1, <1>2, FiniteInduction
<1>4. U[S] = Whole
  OBVIOUS
<1> HIDE DEF U
<1> QED
  BY <1>3, <1>4

=============================================================================
