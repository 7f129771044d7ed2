----------------------------- MODULE SumProofs ------------------------------
(* The sum of a function over a finite set, as the community modules       *)
(* define it, does not depend on the order of its terms.  The library has  *)
(* no such fact to cite, so it is derived here from the well-foundedness   *)
(* of the subsets of a finite set.                                         *)
EXTENDS Integers, Functions, FiniteSetTheorems, TLAPS

\* The element that a fold takes first.
First(T) == CHOOSE x \in T : TRUE

\* g is the recursive function in the definition of the sum of f over S.
Sums(g, f, S) ==
  g = [T \in SUBSET S |-> IF T = {} THEN 0 ELSE f[First(T)] + g[T \ {First(T)}]]

\* What holds of a set if it holds of its proper subsets holds of every
\* subset of a finite set.
LEMMA SubsetInduction ==
  ASSUME NEW S, IsFiniteSet(S), NEW G,
         \A T \in SUBSET S : (\A U \in SUBSET T : U # T => U \in G) => T \in G
  PROVE  \A T \in SUBSET S : T \in G
<1> DEFINE B == {T \in SUBSET S : T \notin G}
<1> SUFFICES ASSUME B # {} PROVE FALSE
  OBVIOUS
<1>1. IsWellFoundedOn(StrictSubsetOrdering(S), FiniteSubsetsOf(S)) /\ B \subseteq FiniteSubsetsOf(S)
  BY FS_StrictSubsetOrderingWellFounded, FS_FiniteSubsetsOfFinite
<1>2. PICK T \in B : \A U \in B : ~(<<U, T>> \in StrictSubsetOrdering(S))
  <2> HIDE DEF B
  <2> QED
    BY <1>1, WFMin
<1>3. ASSUME NEW U \in SUBSET T, U # T PROVE U \in G
  <2>1. <<U, T>> \in StrictSubsetOrdering(S)
    BY <1>2, <1>3 DEF StrictSubsetOrdering
  <2> QED
    BY <1>2, <2>1
<1> QED
  BY <1>2, <1>3

\* The first element is one of the elements.
LEMMA FirstIn ==
  ASSUME NEW T, T # {}
  PROVE  First(T) \in T /\ T \ {First(T)} \in SUBSET T /\ T \ {First(T)} # T
BY DEF First

\* The recursive functions of two sets agree on what they have in common.
LEMMA SumsAgree ==
  ASSUME NEW f, NEW S, NEW R, IsFiniteSet(S), NEW g, NEW h, Sums(g, f, S), Sums(h, f, R)
  PROVE  \A T \in SUBSET S : T \in SUBSET R => g[T] = h[T]
<1> DEFINE G == {T \in SUBSET S : T \in SUBSET R => g[T] = h[T]}
<1>1. ASSUME NEW T \in SUBSET S, \A U \in SUBSET T : U # T => U \in G PROVE T \in G
  <2> SUFFICES ASSUME T \in SUBSET R PROVE g[T] = h[T]
    OBVIOUS
  <2>1. CASE T = {}
    BY <2>1 DEF Sums
  <2>2. CASE T # {}
    <3>1. g[T \ {First(T)}] = h[T \ {First(T)}]
      BY <1>1, <2>2, FirstIn
    <3>2. g[T] = f[First(T)] + g[T \ {First(T)}]
      BY <2>2 DEF Sums
    <3>3. h[T] = f[First(T)] + h[T \ {First(T)}]
      BY <2>2 DEF Sums
    <3> QED
      BY <3>1, <3>2, <3>3
  <2> QED
    BY <2>1, <2>2
<1> HIDE DEF G
<1>2. \A T \in SUBSET S : T \in G
  BY <1>1, SubsetInduction
<1> QED
  BY <1>2 DEF G

\* There is such a function for every finite set.
LEMMA SumsExist ==
  ASSUME NEW f, NEW S, IsFiniteSet(S)
  PROVE  \E g : Sums(g, f, S)
<1> DEFINE G == {T \in SUBSET S : \E g : Sums(g, f, T)}
           Of(T) == CHOOSE g : Sums(g, f, T)
<1>1. ASSUME NEW T \in SUBSET S, \A U \in SUBSET T : U # T => U \in G PROVE T \in G
  <2> DEFINE rest == T \ {First(T)}
             g == [U \in SUBSET T |->
                    IF U = {} THEN 0
                    ELSE IF U = T THEN f[First(T)] + Of(rest)[rest] ELSE Of(U)[U]]
  <2>1. ASSUME NEW U \in SUBSET T, U # T PROVE Sums(Of(U), f, U)
    <3>1. \E h : Sums(h, f, U)
      BY <1>1, <2>1
    <3> QED
      BY <3>1
  <2>2. ASSUME NEW U \in SUBSET T, U # T, U # {}
        PROVE  Of(U)[U] = f[First(U)] + Of(U \ {First(U)})[U \ {First(U)}]
    <3> DEFINE V == U \ {First(U)}
    <3>1. V \in SUBSET U /\ V \in SUBSET T /\ V # T
      BY <2>2, FirstIn
    <3>2. Sums(Of(U), f, U) /\ Sums(Of(V), f, V)
      BY <2>1, <2>2, <3>1
    <3>3. IsFiniteSet(V)
      BY <3>1, FS_Subset
    <3> HIDE DEF Of, V
    <3>4. V \in SUBSET V
      OBVIOUS
    <3>5. Of(V)[V] = Of(U)[V]
      BY <3>1, <3>2, <3>3, <3>4, SumsAgree
    <3>6. Of(U)[U] = f[First(U)] + Of(U)[V]
      BY <2>2, <3>2 DEF Sums, V
    <3> QED
      BY <3>5, <3>6 DEF V
  <2>3. ASSUME NEW U \in SUBSET T
        PROVE  g[U] = IF U = {} THEN 0 ELSE f[First(U)] + g[U \ {First(U)}]
    <3> HIDE DEF Of
    <3>1. CASE U = {}
      BY <3>1
    <3>2. CASE U # {}
      <4> DEFINE V == U \ {First(U)}
      <4>1. V \in SUBSET T /\ V # T
        BY <3>2, FirstIn
      <4>2. g[V] = Of(V)[V]
        <5>1. CASE V = {}
          <6>1. Sums(Of(V), f, V)
            BY <2>1, <4>1
          <6> QED
            BY <4>1, <5>1, <6>1 DEF Sums
        <5> QED
          BY <4>1, <5>1
      <4> HIDE DEF V
      <4>3. g[U] = f[First(U)] + Of(V)[V]
        BY <2>2, <3>2 DEF V
      <4> QED
        BY <3>2, <4>2, <4>3 DEF V
    <3> QED
      BY <3>1, <3>2
  <2>4. Sums(g, f, T)
    <3>1. g = [U \in SUBSET T |-> g[U]]
      OBVIOUS
    <3> HIDE DEF g
    <3> QED
      BY <2>3, <3>1 DEF Sums
  <2> QED
    BY <2>4
<1> HIDE DEF G
<1>2. S \in G
  BY <1>1, SubsetInduction
<1> QED
  BY <1>2 DEF G

\* The definition of the community modules.
LEMMA SumIs ==
  ASSUME NEW f, NEW S
  PROVE  SumFunctionOnSet(f, S) = (CHOOSE g : Sums(g, f, S))[S]
BY DEF SumFunctionOnSet, FoldFunctionOnSet, MapThenFoldSet, Sums, First

\* One term at a time, in the order of the fold.
LEMMA SumUnfolds ==
  ASSUME NEW f, NEW S, IsFiniteSet(S)
  PROVE  SumFunctionOnSet(f, S) =
           IF S = {} THEN 0 ELSE f[First(S)] + SumFunctionOnSet(f, S \ {First(S)})
<1> DEFINE Of(T) == CHOOSE g : Sums(g, f, T)
           R == S \ {First(S)}
<1>1. IsFiniteSet(R) /\ R \in SUBSET S
  BY FS_Subset
<1>2. Sums(Of(S), f, S) /\ Sums(Of(R), f, R)
  BY <1>1, SumsExist
<1>3. SumFunctionOnSet(f, S) = Of(S)[S] /\ SumFunctionOnSet(f, R) = Of(R)[R]
  BY SumIs
<1> HIDE DEF Of
<1>4. Of(S)[S] = IF S = {} THEN 0 ELSE f[First(S)] + Of(S)[R]
  BY <1>2 DEF Sums
<1> HIDE DEF R
<1>5. R \in SUBSET R
  OBVIOUS
<1>6. Of(R)[R] = Of(S)[R]
  BY <1>1, <1>2, <1>5, SumsAgree
<1> QED
  BY <1>3, <1>4, <1>6 DEF R

\* A sum of integers is one.
LEMMA SumType ==
  ASSUME NEW f, NEW S, IsFiniteSet(S), \A x \in S : f[x] \in Int
  PROVE  \A T \in SUBSET S : SumFunctionOnSet(f, T) \in Int
<1> DEFINE G == {T \in SUBSET S : SumFunctionOnSet(f, T) \in Int}
<1>1. ASSUME NEW T \in SUBSET S, \A U \in SUBSET T : U # T => U \in G PROVE T \in G
  <2>1. IsFiniteSet(T)
    BY FS_Subset
  <2>2. CASE T = {}
    BY <2>1, <2>2, SumUnfolds
  <2>3. CASE T # {}
    <3>1. f[First(T)] \in Int /\ SumFunctionOnSet(f, T \ {First(T)}) \in Int
      BY <1>1, <2>3, FirstIn
    <3>2. SumFunctionOnSet(f, T) = f[First(T)] + SumFunctionOnSet(f, T \ {First(T)})
      BY <2>1, <2>3, SumUnfolds
    <3> QED
      BY <3>1, <3>2
  <2> QED
    BY <2>2, <2>3
<1> HIDE DEF G
<1>2. \A T \in SUBSET S : T \in G
  BY <1>1, SubsetInduction
<1> QED
  BY <1>2 DEF G

\* The terms may be taken in any order.
LEMMA SumTakesAny ==
  ASSUME NEW f, NEW S, IsFiniteSet(S), \A x \in S : f[x] \in Int
  PROVE  \A T \in SUBSET S : \A x \in T :
           SumFunctionOnSet(f, T) = f[x] + SumFunctionOnSet(f, T \ {x})
<1> DEFINE Sum(T) == SumFunctionOnSet(f, T)
           G == {T \in SUBSET S : \A x \in T : Sum(T) = f[x] + Sum(T \ {x})}
<1>1. \A T \in SUBSET S : Sum(T) \in Int
  BY SumType
<1>2. ASSUME NEW T \in SUBSET S, \A U \in SUBSET T : U # T => U \in G PROVE T \in G
  <2> SUFFICES ASSUME NEW x \in T PROVE Sum(T) = f[x] + Sum(T \ {x})
    OBVIOUS
  <2> DEFINE y == First(T)
  <2>1. y \in T
    BY FirstIn
  <2>2. Sum(T) = f[y] + Sum(T \ {y})
    BY FS_Subset, SumUnfolds
  <2> HIDE DEF Sum, y
  <2>3. CASE x = y
    BY <2>2, <2>3
  <2>4. CASE x # y
    <3>1. Sum(T \ {y}) = f[x] + Sum((T \ {y}) \ {x})
      <4>1. T \ {y} \in G /\ x \in T \ {y}
        BY <1>2, <2>1, <2>4
      <4> QED
        BY <4>1
    <3>2. Sum(T \ {x}) = f[y] + Sum((T \ {x}) \ {y})
      <4>1. T \ {x} \in G /\ y \in T \ {x}
        BY <1>2, <2>1, <2>4
      <4> QED
        BY <4>1
    <3>3. (T \ {y}) \ {x} = (T \ {x}) \ {y}
      OBVIOUS
    <3>4. PICK c \in Int : c = Sum((T \ {x}) \ {y})
      BY <1>1
    <3>5. Sum(T \ {y}) = f[x] + c /\ Sum(T \ {x}) = f[y] + c
      BY <3>1, <3>2, <3>3, <3>4
    <3>6. f[x] \in Int /\ f[y] \in Int
      BY <2>1
    <3> QED
      BY <2>2, <3>5, <3>6
  <2> QED
    BY <2>3, <2>4
<1> HIDE DEF G, Sum
<1>3. \A T \in SUBSET S : T \in G
  BY <1>2, SubsetInduction
<1> QED
  BY <1>3 DEF G, Sum

\* Functions that agree on a set have the same sum over it.
LEMMA SumDepends ==
  ASSUME NEW f, NEW h, NEW S, IsFiniteSet(S), \A x \in S : f[x] = h[x]
  PROVE  SumFunctionOnSet(f, S) = SumFunctionOnSet(h, S)
<1> DEFINE G == {T \in SUBSET S : SumFunctionOnSet(f, T) = SumFunctionOnSet(h, T)}
<1>1. ASSUME NEW T \in SUBSET S, \A U \in SUBSET T : U # T => U \in G PROVE T \in G
  <2>1. IsFiniteSet(T)
    BY FS_Subset
  <2>2. CASE T = {}
    BY <2>1, <2>2, SumUnfolds
  <2>3. CASE T # {}
    <3>1. SumFunctionOnSet(f, T \ {First(T)}) = SumFunctionOnSet(h, T \ {First(T)})
      BY <1>1, <2>3, FirstIn
    <3>2. SumFunctionOnSet(f, T) = f[First(T)] + SumFunctionOnSet(f, T \ {First(T)})
      BY <2>1, <2>3, SumUnfolds
    <3>3. SumFunctionOnSet(h, T) = h[First(T)] + SumFunctionOnSet(h, T \ {First(T)})
      BY <2>1, <2>3, SumUnfolds
    <3>4. f[First(T)] = h[First(T)]
      BY <2>3, FirstIn
    <3> QED
      BY <3>1, <3>2, <3>3, <3>4
  <2> QED
    BY <2>2, <2>3
<1> HIDE DEF G
<1>2. \A T \in SUBSET S : T \in G
  BY <1>1, SubsetInduction
<1> QED
  BY <1>2 DEF G

\* The sum of zeros, such as the one of no terms, is zero.
LEMMA SumOfZeros ==
  ASSUME NEW S, IsFiniteSet(S), NEW f, f = [x \in S |-> 0]
  PROVE  SumFunction(f) = 0
<1> DEFINE G == {T \in SUBSET S : SumFunctionOnSet(f, T) = 0}
<1>1. ASSUME NEW T \in SUBSET S, \A U \in SUBSET T : U # T => U \in G PROVE T \in G
  <2>1. IsFiniteSet(T)
    BY FS_Subset
  <2>2. CASE T = {}
    BY <2>1, <2>2, SumUnfolds
  <2>3. CASE T # {}
    <3>1. SumFunctionOnSet(f, T \ {First(T)}) = 0 /\ f[First(T)] = 0
      BY <1>1, <2>3, FirstIn
    <3>2. SumFunctionOnSet(f, T) = f[First(T)] + SumFunctionOnSet(f, T \ {First(T)})
      BY <2>1, <2>3, SumUnfolds
    <3> QED
      BY <3>1, <3>2
  <2> QED
    BY <2>2, <2>3
<1> HIDE DEF G
<1>2. S \in G
  BY <1>1, SubsetInduction
<1> QED
  BY <1>2 DEF G, SumFunction

\* A sum changes by what one of its terms changes by.
LEMMA SumChanges ==
  ASSUME NEW S, IsFiniteSet(S), NEW f \in [S -> Int], NEW x \in S, NEW v \in Int
  PROVE  /\ SumFunction(f) \in Int
         /\ SumFunction([f EXCEPT ![x] = v]) = SumFunction(f) + v - f[x]
<1> DEFINE h == [f EXCEPT ![x] = v]
           R == S \ {x}
<1>1. /\ h \in [S -> Int] /\ DOMAIN f = S /\ DOMAIN h = S /\ h[x] = v
      /\ \A y \in R : f[y] = h[y]
  OBVIOUS
<1> HIDE DEF h
<1>2. IsFiniteSet(R) /\ S \in SUBSET S /\ R \in SUBSET S
  BY FS_Subset
<1>3. SumFunctionOnSet(f, S) \in Int /\ SumFunctionOnSet(f, R) \in Int
  BY <1>1, <1>2, SumType
<1>4. SumFunctionOnSet(f, S) = f[x] + SumFunctionOnSet(f, R)
  BY <1>1, <1>2, SumTakesAny
<1>5. SumFunctionOnSet(h, S) = h[x] + SumFunctionOnSet(h, R)
  BY <1>1, <1>2, SumTakesAny
<1>6. SumFunctionOnSet(f, R) = SumFunctionOnSet(h, R)
  BY <1>1, <1>2, SumDepends
<1> HIDE DEF R
<1>7. f[x] \in Int
  OBVIOUS
<1> QED
  BY <1>1, <1>3, <1>4, <1>5, <1>6, <1>7 DEF SumFunction, h

\* A sum grows by the term of an element that is added.
LEMMA SumGrows ==
  ASSUME NEW S, IsFiniteSet(S), NEW x, x \notin S, NEW h, h \in [S \cup {x} -> Int],
         NEW f, f = [y \in S |-> h[y]]
  PROVE  SumFunction(f) \in Int /\ SumFunction(h) = SumFunction(f) + h[x]
<1> DEFINE T == S \cup {x}
<1>1. IsFiniteSet(T) /\ T \in SUBSET T /\ S \in SUBSET T /\ T \ {x} = S
  BY FS_AddElement
<1>2. DOMAIN f = S /\ DOMAIN h = T /\ \A y \in T : h[y] \in Int
  OBVIOUS
<1>3. SumFunctionOnSet(h, T) = h[x] + SumFunctionOnSet(h, S)
  BY <1>1, <1>2, SumTakesAny
<1>4. SumFunctionOnSet(h, S) \in Int
  BY <1>1, <1>2, SumType
<1>5. SumFunctionOnSet(f, S) = SumFunctionOnSet(h, S)
  BY SumDepends
<1>6. h[x] \in Int
  OBVIOUS
<1> QED
  BY <1>2, <1>3, <1>4, <1>5, <1>6 DEF SumFunction
=============================================================================
