---------------------------- MODULE SumTheorems ----------------------------
(***************************************************************************)
(* The sum of a function over a finite set, as MapThenSumSet of the        *)
(* community modules computes it, and its laws, for any function and set.  *)
(*                                                                         *)
(* MapThenSumSet recurses over the subsets of the set and takes whichever  *)
(* element CHOOSE names first.  The laws say that the recursion is well    *)
(* defined and that the order does not matter.  They are proved by         *)
(* induction on the subsets of a finite set, which is stated with a set of *)
(* subsets where a predicate might be expected (SubsetInduction): a        *)
(* minimal counterexample exists by WFMin.                                 *)
(***************************************************************************)
EXTENDS Integers, FiniteSets, FiniteSetsExt, FiniteSetTheorems,
        WellFoundedInduction, TLAPS

\* The sum of f[x] over the elements x of S.
SumOver(f, S) == MapThenSumSet(LAMBDA x : f[x], S)

\* The element that the recursion takes first.
Some(s) == CHOOSE x \in s : TRUE

\* The recursive function inside MapThenSumSet.
IsIteration(g, f, S) ==
  g = [s \in SUBSET S |-> IF s = {} THEN 0 ELSE f[Some(s)] + g[s \ {Some(s)}]]

\* The same, as equations between integers.
Folds(g, f, S) ==
  /\ g \in [SUBSET S -> Int]
  /\ g[{}] = 0
  /\ \A s \in SUBSET S : s # {} => g[s] = f[Some(s)] + g[s \ {Some(s)}]

\* S is finite, and f is an integer on it.
Summable(f, S) == IsFiniteSet(S) /\ \A x \in S : f[x] \in Int

-----------------------------------------------------------------------------
(* Induction on the subsets of a finite set.                               *)

LEMMA SubsetInduction ==
  ASSUME NEW D, IsFiniteSet(D), NEW Good \in SUBSET SUBSET D,
         \A s \in SUBSET D : (\A t \in SUBSET s : t # s => t \in Good) => s \in Good
  PROVE  Good = SUBSET D
<1> DEFINE Bad == (SUBSET D) \ Good
<1> SUFFICES ASSUME Bad # {} PROVE FALSE
  OBVIOUS
<1>1. Bad \subseteq FiniteSubsetsOf(D)
  BY FS_Subset DEF FiniteSubsetsOf
<1>2. IsWellFoundedOn(StrictSubsetOrdering(D), FiniteSubsetsOf(D))
  BY FS_StrictSubsetOrderingWellFounded
<1>3. PICK s \in Bad : \A t \in Bad : ~(<<t, s>> \in StrictSubsetOrdering(D))
  <2> HIDE DEF Bad
  <2> QED BY <1>1, <1>2, WFMin
<1>4. \A t \in SUBSET s : t # s => t \in Good
  BY <1>3 DEF StrictSubsetOrdering
<1> QED BY <1>3, <1>4

\* The step from s to s without an element, which is all that the sums need.
LEMMA ElementInduction ==
  ASSUME NEW D, IsFiniteSet(D), NEW Good \in SUBSET SUBSET D,
         {} \in Good,
         \A s \in SUBSET D : s # {} /\ (\A x \in s : s \ {x} \in Good) => s \in Good
  PROVE  Good = SUBSET D
<1>1. ASSUME NEW s \in SUBSET D, \A t \in SUBSET s : t # s => t \in Good
      PROVE  s \in Good
  <2>1. \A x \in s : s \ {x} \in SUBSET s /\ s \ {x} # s
    OBVIOUS
  <2> QED BY <1>1, <2>1
<1> QED BY <1>1, SubsetInduction

LEMMA SomeIsElement == ASSUME NEW s, s # {} PROVE Some(s) \in s
BY DEF Some

-----------------------------------------------------------------------------
(* The recursion is well defined.                                          *)

\* Two such functions agree on the sets on which both are defined.
LEMMA FoldsAgree ==
  ASSUME NEW f, NEW S, NEW T \in SUBSET S, IsFiniteSet(T),
         NEW g, Folds(g, f, S), NEW h, Folds(h, f, T)
  PROVE  \A s \in SUBSET T : g[s] = h[s]
<1> DEFINE Good == {s \in SUBSET T : g[s] = h[s]}
<1>1. {} \in Good
  BY DEF Folds
<1>2. ASSUME NEW s \in SUBSET T, s # {}, \A x \in s : s \ {x} \in Good
      PROVE  s \in Good
  <2>1. Some(s) \in s
    BY <1>2, SomeIsElement
  <2>2. g[s \ {Some(s)}] = h[s \ {Some(s)}]
    BY <1>2, <2>1
  <2>3. s \in SUBSET S /\ s \in SUBSET T
    OBVIOUS
  <2> QED BY <1>2, <2>2, <2>3 DEF Folds
<1>3. Good = SUBSET T
  <2> HIDE DEF Good
  <2>1. Good \in SUBSET SUBSET T
    BY DEF Good
  <2> QED BY <1>1, <1>2, <2>1, ElementInduction
<1> QED BY <1>3

\* The restriction of such a function is one.
LEMMA FoldsRestricted ==
  ASSUME NEW f, NEW S, NEW T \in SUBSET S, NEW g, Folds(g, f, S)
  PROVE  Folds([s \in SUBSET T |-> g[s]], f, T)
<1> DEFINE h == [s \in SUBSET T |-> g[s]]
<1>1. h \in [SUBSET T -> Int] /\ h[{}] = 0
  BY DEF Folds
<1>2. ASSUME NEW s \in SUBSET T, s # {} PROVE h[s] = f[Some(s)] + h[s \ {Some(s)}]
  <2>1. s \in SUBSET S /\ s \ {Some(s)} \in SUBSET T
    OBVIOUS
  <2> QED BY <1>2, <2>1 DEF Folds
<1> QED BY <1>1, <1>2 DEF Folds

LEMMA FoldsExist ==
  ASSUME NEW f, NEW S, Summable(f, S)
  PROVE  \E g : Folds(g, f, S)
<1> DEFINE Good == {s \in SUBSET S : \E g : Folds(g, f, s)}
           G(s) == CHOOSE g : Folds(g, f, s)
<1> HIDE DEF G
<1>1. ASSUME NEW s \in SUBSET S, \A t \in SUBSET s : t # s => t \in Good
      PROVE  s \in Good
  <2> DEFINE y == Some(s)
             h == [t \in SUBSET s |-> IF t # s THEN G(t)[t]
                                      ELSE IF s = {} THEN 0 ELSE f[y] + G(s \ {y})[s \ {y}]]
  <2>1. ASSUME NEW t \in SUBSET s, t # s PROVE Folds(G(t), f, t) /\ G(t)[t] \in Int
    <3>1. \E g : Folds(g, f, t)
      BY <1>1, <2>1
    <3>2. Folds(G(t), f, t)
      BY <3>1 DEF G
    <3> QED BY <3>2 DEF Folds
  <2>2. s # {} => y \in s /\ s \ {y} # s /\ s \ {y} \in SUBSET s /\ f[y] \in Int
    BY SomeIsElement DEF Summable
  <2>3. h \in [SUBSET s -> Int]
    <3>1. ASSUME NEW t \in SUBSET s PROVE h[t] \in Int
      <4>1. CASE t # s
        BY <2>1, <4>1
      <4>2. CASE t = s /\ s = {}
        BY <4>2
      <4>3. CASE t = s /\ s # {}
        <5>1. G(s \ {y})[s \ {y}] \in Int /\ f[y] \in Int
          BY <2>1, <2>2, <4>3
        <5> HIDE DEF y
        <5> QED BY <4>3, <5>1
      <4> QED BY <4>1, <4>2, <4>3
    <3> HIDE DEF y
    <3> QED BY <3>1
  <2>4. h[{}] = 0
    <3>1. CASE s = {}
      BY <3>1
    <3>2. CASE s # {}
      BY <2>1, <3>2 DEF Folds
    <3> QED BY <3>1, <3>2
  <2>5. ASSUME NEW t \in SUBSET s, t # {} PROVE h[t] = f[Some(t)] + h[t \ {Some(t)}]
    <3>1. Some(t) \in t
      BY <2>5, SomeIsElement
    <3>2. t \ {Some(t)} \in SUBSET s /\ t \ {Some(t)} \in SUBSET t /\ t \ {Some(t)} # s
      BY <3>1
    <3>3. h[t \ {Some(t)}] = G(t \ {Some(t)})[t \ {Some(t)}]
      BY <3>2
    <3>4. CASE t = s
      BY <2>5, <3>3, <3>4
    <3>5. CASE t # s
      <4> DEFINE u == t \ {Some(t)}
      <4>1. Folds(G(t), f, t) /\ Folds(G(u), f, u)
        BY <2>1, <3>2, <3>5
      <4>2. IsFiniteSet(u)
        BY FS_Subset DEF Summable
      <4>3. G(t)[u] = G(u)[u]
        <5> HIDE DEF u
        <5>1. u \in SUBSET t
          BY DEF u
        <5> QED BY <4>1, <4>2, <5>1, FoldsAgree
      <4>4. G(t)[t] = f[Some(t)] + G(t)[u]
        BY <2>5, <4>1 DEF Folds
      <4> QED BY <3>3, <3>5, <4>3, <4>4
    <3> QED BY <3>4, <3>5
  <2> HIDE DEF h
  <2>6. Folds(h, f, s)
    BY <2>3, <2>4, <2>5 DEF Folds
  <2> QED BY <2>6
<1>2. Good = SUBSET S
  <2> HIDE DEF Good
  <2>1. Good \in SUBSET SUBSET S
    BY DEF Good
  <2> QED BY <1>1, <2>1, SubsetInduction DEF Summable
<1> QED BY <1>2

\* It is what MapThenSumSet computes.
LEMMA IterationFolds ==
  ASSUME NEW f, NEW S, Summable(f, S), NEW g
  PROVE  Folds(g, f, S) <=> IsIteration(g, f, S)
<1>1. ASSUME Folds(g, f, S) PROVE IsIteration(g, f, S)
  <2> DEFINE h == [s \in SUBSET S |-> IF s = {} THEN 0 ELSE f[Some(s)] + g[s \ {Some(s)}]]
  <2>1. ASSUME NEW s \in SUBSET S PROVE g[s] = h[s]
    BY <1>1 DEF Folds
  <2>2. g = [s \in SUBSET S |-> g[s]]
    BY <1>1 DEF Folds
  <2>3. g = h
    BY <2>1, <2>2
  <2> QED BY <2>3 DEF IsIteration
<1>2. ASSUME IsIteration(g, f, S) PROVE Folds(g, f, S)
  <2>1. \A s \in SUBSET S : g[s] = IF s = {} THEN 0 ELSE f[Some(s)] + g[s \ {Some(s)}]
    BY <1>2 DEF IsIteration
  <2> DEFINE Good == {s \in SUBSET S : g[s] \in Int}
  <2>2. {} \in Good
    <3>1. {} \in SUBSET S
      OBVIOUS
    <3>2. g[{}] = 0
      BY <2>1, <3>1
    <3> QED BY <3>1, <3>2
  <2>3. ASSUME NEW s \in SUBSET S, s # {}, \A x \in s : s \ {x} \in Good
        PROVE  s \in Good
    <3>1. Some(s) \in s
      BY <2>3, SomeIsElement
    <3>2. f[Some(s)] \in Int /\ g[s \ {Some(s)}] \in Int
      BY <2>3, <3>1 DEF Summable
    <3>3. g[s] = f[Some(s)] + g[s \ {Some(s)}]
      BY <2>1, <2>3
    <3> QED BY <3>2, <3>3
  <2>4. Good = SUBSET S
    <3> HIDE DEF Good
    <3>1. Good \in SUBSET SUBSET S
      BY DEF Good
    <3> QED BY <2>2, <2>3, <3>1, ElementInduction DEF Summable
  <2>5. g \in [SUBSET S -> Int]
    <3>1. \A s \in SUBSET S : g[s] \in Int
      BY <2>4
    <3>2. g = [s \in SUBSET S |-> g[s]]
      BY <1>2 DEF IsIteration
    <3> QED BY <3>1, <3>2
  <2> QED BY <2>1, <2>5 DEF Folds
<1> QED BY <1>1, <1>2

LEMMA SumIsFold ==
  ASSUME NEW f, NEW S, Summable(f, S)
  PROVE  \E g : Folds(g, f, S) /\ SumOver(f, S) = g[S]
<1>1. SumOver(f, S) = (CHOOSE g : IsIteration(g, f, S))[S]
  BY DEF SumOver, MapThenSumSet, MapThenFoldSet, IsIteration, Some
<1>2. \E g : IsIteration(g, f, S)
  BY FoldsExist, IterationFolds
<1>3. IsIteration(CHOOSE g : IsIteration(g, f, S), f, S)
  BY <1>2
<1> QED BY <1>1, <1>3, IterationFolds

-----------------------------------------------------------------------------
(* The laws.                                                               *)

\* A sum of integers is an integer.
LEMMA SumType ==
  ASSUME NEW f, NEW S, Summable(f, S)
  PROVE  SumOver(f, S) \in Int
<1>1. PICK g : Folds(g, f, S) /\ SumOver(f, S) = g[S]
  BY SumIsFold
<1> QED BY <1>1 DEF Folds

\* Nothing adds up to zero.
LEMMA SumEmpty ==
  ASSUME NEW f
  PROVE  SumOver(f, {}) = 0
<1>1. Summable(f, {})
  BY FS_EmptySet DEF Summable
<1>2. PICK g : Folds(g, f, {}) /\ SumOver(f, {}) = g[{}]
  BY <1>1, SumIsFold
<1> QED BY <1>2 DEF Folds

\* What can be added up over a set can be over its subsets.
LEMMA SummableSubset ==
  ASSUME NEW f, NEW S, Summable(f, S), NEW T \in SUBSET S
  PROVE  Summable(f, T)
BY FS_Subset DEF Summable

\* The fold over S also tells the sums over the subsets of S.
LEMMA FoldTellsSums ==
  ASSUME NEW f, NEW S, Summable(f, S), NEW g, Folds(g, f, S), NEW T \in SUBSET S
  PROVE  g[T] = SumOver(f, T)
<1>1. Summable(f, T)
  BY SummableSubset
<1>2. PICK h : Folds(h, f, T) /\ SumOver(f, T) = h[T]
  BY <1>1, SumIsFold
<1> QED BY <1>1, <1>2, FoldsAgree DEF Summable

\* The element that the fold takes first.
LEMMA SumTakesSome ==
  ASSUME NEW f, NEW S, Summable(f, S), S # {}
  PROVE  SumOver(f, S) = f[Some(S)] + SumOver(f, S \ {Some(S)})
<1>1. PICK g : Folds(g, f, S) /\ SumOver(f, S) = g[S]
  BY SumIsFold
<1>2. g[S \ {Some(S)}] = SumOver(f, S \ {Some(S)})
  BY <1>1, FoldTellsSums
<1> QED BY <1>1, <1>2 DEF Folds

\* Any element may be taken first.
LEMMA SumRemove ==
  ASSUME NEW f, NEW S, Summable(f, S), NEW x \in S
  PROVE  SumOver(f, S) = f[x] + SumOver(f, S \ {x})
<1> DEFINE Good == {s \in SUBSET S : \A y \in s : SumOver(f, s) = f[y] + SumOver(f, s \ {y})}
<1>1. {} \in Good
  OBVIOUS
<1>2. ASSUME NEW s \in SUBSET S, s # {}, \A y \in s : s \ {y} \in Good
      PROVE  s \in Good
  <2> DEFINE z == Some(s)
  <2>1. z \in s
    BY <1>2, SomeIsElement
  <2>2. Summable(f, s)
    BY SummableSubset
  <2>3. SumOver(f, s) = f[z] + SumOver(f, s \ {z})
    BY <1>2, <2>2, SumTakesSome
  <2> HIDE DEF z
  <2>4. ASSUME NEW y \in s PROVE SumOver(f, s) = f[y] + SumOver(f, s \ {y})
    <3>1. CASE y = z
      BY <2>3, <3>1
    <3>2. CASE y # z
      <4> DEFINE r == (s \ {z}) \ {y}
      <4>1. /\ y \in s \ {z} /\ z \in s \ {y}
            /\ r = (s \ {y}) \ {z}
        BY <2>1, <3>2
      <4>2. SumOver(f, s \ {z}) = f[y] + SumOver(f, r)
        BY <1>2, <2>1, <4>1
      <4>3. SumOver(f, s \ {y}) = f[z] + SumOver(f, r)
        BY <1>2, <4>1
      <4>4. Summable(f, r)
        BY SummableSubset
      <4>5. f[y] \in Int /\ f[z] \in Int /\ SumOver(f, r) \in Int
        BY <2>1, <4>4, SumType DEF Summable
      <4> HIDE DEF r
      <4> QED BY <2>3, <4>2, <4>3, <4>5
    <3> QED BY <3>1, <3>2
  <2> QED BY <2>4
<1>3. Good = SUBSET S
  <2> HIDE DEF Good
  <2>1. Good \in SUBSET SUBSET S
    BY DEF Good
  <2> QED BY <1>1, <1>2, <2>1, ElementInduction DEF Summable
<1>4. S \in Good
  BY <1>3
<1> QED BY <1>4

\* A new element adds its value.
LEMMA SumAdd ==
  ASSUME NEW f, NEW S, Summable(f, S), NEW x, x \notin S, f[x] \in Int
  PROVE  SumOver(f, S \cup {x}) = f[x] + SumOver(f, S)
<1>1. Summable(f, S \cup {x})
  BY FS_AddElement DEF Summable
<1>2. (S \cup {x}) \ {x} = S
  OBVIOUS
<1> QED BY <1>1, <1>2, SumRemove

\* Sums are monotone.
LEMMA SumMonotone ==
  ASSUME NEW f, NEW g, NEW S, Summable(f, S), Summable(g, S),
         \A x \in S : f[x] <= g[x]
  PROVE  SumOver(f, S) <= SumOver(g, S)
<1> DEFINE Good == {s \in SUBSET S : SumOver(f, s) <= SumOver(g, s)}
<1>1. {} \in Good
  BY SumEmpty
<1>2. ASSUME NEW s \in SUBSET S, s # {}, \A x \in s : s \ {x} \in Good
      PROVE  s \in Good
  <2>1. PICK x \in s : TRUE
    BY <1>2
  <2> DEFINE r == s \ {x}
  <2>2. Summable(f, s) /\ Summable(g, s) /\ Summable(f, r) /\ Summable(g, r)
    BY SummableSubset
  <2>3. SumOver(f, s) = f[x] + SumOver(f, r) /\ SumOver(g, s) = g[x] + SumOver(g, r)
    BY <2>2, SumRemove
  <2>4. SumOver(f, r) <= SumOver(g, r) /\ f[x] <= g[x]
    BY <1>2
  <2>5. f[x] \in Int /\ g[x] \in Int /\ SumOver(f, r) \in Int /\ SumOver(g, r) \in Int
    BY <2>2, SumType DEF Summable
  <2> HIDE DEF r
  <2>6. SumOver(f, s) <= SumOver(g, s)
    BY <2>3, <2>4, <2>5
  <2> QED BY <2>6
<1>3. Good = SUBSET S
  <2> HIDE DEF Good
  <2>1. Good \in SUBSET SUBSET S
    BY DEF Good
  <2> QED BY <1>1, <1>2, <2>1, ElementInduction DEF Summable
<1>4. S \in Good
  BY <1>3
<1> QED BY <1>4

\* A sum depends on the values over its set only.
LEMMA SumSame ==
  ASSUME NEW f, NEW g, NEW S, Summable(f, S), \A x \in S : f[x] = g[x]
  PROVE  SumOver(f, S) = SumOver(g, S)
<1>1. Summable(g, S) /\ \A x \in S : f[x] <= g[x] /\ g[x] <= f[x]
  BY DEF Summable
<1>2. SumOver(f, S) <= SumOver(g, S) /\ SumOver(g, S) <= SumOver(f, S)
  BY <1>1, SumMonotone
<1>3. SumOver(f, S) \in Int /\ SumOver(g, S) \in Int
  BY <1>1, SumType
<1> QED BY <1>2, <1>3

\* One summand changes.
LEMMA SumUpdate ==
  ASSUME NEW f, NEW g, NEW S, Summable(f, S), NEW x \in S, g[x] \in Int,
         \A y \in S \ {x} : f[y] = g[y]
  PROVE  SumOver(g, S) = SumOver(f, S) - f[x] + g[x]
<1> DEFINE r == S \ {x}
<1>1. Summable(f, r) /\ Summable(g, S)
  BY SummableSubset DEF Summable
<1>2. SumOver(f, S) = f[x] + SumOver(f, r) /\ SumOver(g, S) = g[x] + SumOver(g, r)
  BY <1>1, SumRemove
<1>3. SumOver(f, r) = SumOver(g, r)
  BY <1>1, SumSame
<1>4. f[x] \in Int /\ g[x] \in Int /\ SumOver(f, r) \in Int
  BY <1>1, SumType DEF Summable
<1> HIDE DEF r
<1> QED BY <1>2, <1>3, <1>4

\* A sum of zeros is zero.
LEMMA SumZero ==
  ASSUME NEW f, NEW S, IsFiniteSet(S), \A x \in S : f[x] = 0
  PROVE  SumOver(f, S) = 0
<1> DEFINE Good == {s \in SUBSET S : SumOver(f, s) = 0}
<1>1. Summable(f, S)
  BY DEF Summable
<1>2. {} \in Good
  BY SumEmpty
<1>3. ASSUME NEW s \in SUBSET S, s # {}, \A x \in s : s \ {x} \in Good
      PROVE  s \in Good
  <2>1. PICK x \in s : TRUE
    BY <1>3
  <2>2. Summable(f, s)
    BY <1>1, SummableSubset
  <2>3. SumOver(f, s) = f[x] + SumOver(f, s \ {x})
    BY <2>2, SumRemove
  <2>4. f[x] = 0 /\ SumOver(f, s \ {x}) = 0
    BY <1>3
  <2> QED BY <2>3, <2>4
<1>4. Good = SUBSET S
  <2> HIDE DEF Good
  <2>1. Good \in SUBSET SUBSET S
    BY DEF Good
  <2> QED BY <1>2, <1>3, <2>1, ElementInduction
<1> QED BY <1>4

\* A sum of natural numbers is natural.
LEMMA SumNat ==
  ASSUME NEW f, NEW S, IsFiniteSet(S), \A x \in S : f[x] \in Nat
  PROVE  SumOver(f, S) \in Nat
<1> DEFINE z == [x \in S |-> 0]
<1>1. Summable(f, S) /\ Summable(z, S) /\ \A x \in S : z[x] <= f[x] /\ z[x] = 0
  BY DEF Summable
<1> HIDE DEF z
<1>2. SumOver(z, S) = 0
  BY <1>1, SumZero
<1>3. SumOver(z, S) <= SumOver(f, S) /\ SumOver(f, S) \in Int
  BY <1>1, SumMonotone, SumType
<1> QED BY <1>2, <1>3

\* Of natural numbers, a larger set has the larger sum.
LEMMA SumSubset ==
  ASSUME NEW f, NEW S, IsFiniteSet(S), \A x \in S : f[x] \in Nat, NEW T \in SUBSET S
  PROVE  SumOver(f, T) <= SumOver(f, S)
<1> DEFINE Good == {s \in SUBSET S : SumOver(f, s \cap T) <= SumOver(f, s)}
<1>1. {} \in Good
  BY SumEmpty
<1>2. ASSUME NEW s \in SUBSET S, s # {}, \A x \in s : s \ {x} \in Good
      PROVE  s \in Good
  <2>1. PICK x \in s : TRUE
    BY <1>2
  <2> DEFINE r == s \ {x}
  <2>2. Summable(f, s) /\ Summable(f, r) /\ Summable(f, s \cap T) /\ Summable(f, r \cap T)
    BY SummableSubset DEF Summable
  <2>3. SumOver(f, s) = f[x] + SumOver(f, r)
    BY <2>2, SumRemove
  <2>4. SumOver(f, r \cap T) <= SumOver(f, r)
    BY <1>2
  <2>5. /\ f[x] \in Nat /\ SumOver(f, r) \in Int /\ SumOver(f, r \cap T) \in Int
        /\ SumOver(f, s \cap T) \in Int
    BY <2>2, SumType
  <2>6. SumOver(f, s \cap T) <= f[x] + SumOver(f, r \cap T)
    <3>1. CASE x \in T
      <4>1. x \in s \cap T /\ (s \cap T) \ {x} = r \cap T
        BY <3>1
      <4>2. SumOver(f, s \cap T) = f[x] + SumOver(f, r \cap T)
        BY <2>2, <4>1, SumRemove
      <4> QED BY <2>5, <4>2
    <3>2. CASE x \notin T
      <4>1. s \cap T = r \cap T
        BY <3>2
      <4> QED BY <2>5, <4>1
    <3> QED BY <3>1, <3>2
  <2> HIDE DEF r
  <2>7. SumOver(f, s \cap T) <= SumOver(f, s)
    BY <2>3, <2>4, <2>5, <2>6
  <2> QED BY <2>7
<1>3. Good = SUBSET S
  <2> HIDE DEF Good
  <2>1. Good \in SUBSET SUBSET S
    BY DEF Good
  <2> QED BY <1>1, <1>2, <2>1, ElementInduction
<1>4. S \in Good /\ S \cap T = T
  BY <1>3
<1> QED BY <1>4

\* What two disjoint sets add up to.
LEMMA SumUnion ==
  ASSUME NEW f, NEW S, NEW T, Summable(f, S \cup T), S \cap T = {}
  PROVE  SumOver(f, S \cup T) = SumOver(f, S) + SumOver(f, T)
<1> DEFINE Good == {t \in SUBSET T : SumOver(f, S \cup t) = SumOver(f, S) + SumOver(f, t)}
<1>1. \A t \in SUBSET T : Summable(f, S \cup t) /\ Summable(f, t)
  <2>1. \A t \in SUBSET T : S \cup t \in SUBSET (S \cup T) /\ t \in SUBSET (S \cup T)
    OBVIOUS
  <2> QED BY <2>1, SummableSubset
<1>2. {} \in Good
  <2>1. Summable(f, S) /\ S \cup {} = S
    BY SummableSubset
  <2> QED BY <2>1, SumType, SumEmpty
<1>3. ASSUME NEW t \in SUBSET T, t # {}, \A x \in t : t \ {x} \in Good
      PROVE  t \in Good
  <2>1. PICK x \in t : TRUE
    BY <1>3
  <2> DEFINE r == t \ {x}
  <2>2. r \in SUBSET T /\ x \in S \cup t /\ (S \cup t) \ {x} = S \cup r
    BY <2>1
  <2>3. SumOver(f, S \cup t) = f[x] + SumOver(f, S \cup r)
    BY <1>1, <2>2, SumRemove
  <2>4. SumOver(f, t) = f[x] + SumOver(f, r)
    <3>1. Summable(f, t)
      BY <1>1
    <3> QED BY <2>1, <3>1, SumRemove
  <2>5. SumOver(f, S \cup r) = SumOver(f, S) + SumOver(f, r)
    BY <1>3
  <2>6. Summable(f, S)
    BY SummableSubset
  <2>7. f[x] \in Int /\ SumOver(f, r) \in Int /\ SumOver(f, S) \in Int
    BY <1>1, <2>2, <2>6, SumType DEF Summable
  <2> HIDE DEF r
  <2> QED BY <2>3, <2>4, <2>5, <2>7
<1>4. Good = SUBSET T
  <2> HIDE DEF Good
  <2>1. Good \in SUBSET SUBSET T
    BY DEF Good
  <2>2. IsFiniteSet(T)
    BY FS_Subset DEF Summable
  <2> QED BY <1>2, <1>3, <2>1, <2>2, ElementInduction
<1> QED BY <1>4

\* Adding up by a key, over the keys of K, adds up what has one of these keys.
LEMMA SumByKey ==
  ASSUME NEW f, NEW D, Summable(f, D), NEW key, NEW K, IsFiniteSet(K)
  PROVE  SumOver([k \in K |-> SumOver(f, {d \in D : key[d] = k})], K)
           = SumOver(f, {d \in D : key[d] \in K})
<1> DEFINE g == [k \in K |-> SumOver(f, {d \in D : key[d] = k})]
           With(s) == {d \in D : key[d] \in s}
           Good == {s \in SUBSET K : SumOver(g, s) = SumOver(f, With(s))}
<1>1. \A s : Summable(f, With(s)) /\ SumOver(f, With(s)) \in Int
  <2>1. \A s : With(s) \in SUBSET D
    OBVIOUS
  <2> HIDE DEF With
  <2> QED BY <2>1, SummableSubset, SumType
<1>2. \A k \in K : g[k] = SumOver(f, With({k}))
  <2> SUFFICES ASSUME NEW k \in K PROVE g[k] = SumOver(f, With({k}))
    OBVIOUS
  <2>1. {d \in D : key[d] = k} = With({k})
    OBVIOUS
  <2> QED BY <2>1
<1>3. \A k \in K : g[k] \in Int
  <2> HIDE DEF With, g
  <2> QED BY <1>1, <1>2
<1>4. \A s \in SUBSET K : Summable(g, s) /\ SumOver(g, s) \in Int
  <2> HIDE DEF g
  <2> QED BY <1>3, FS_Subset, SumType DEF Summable
<1>5. {} \in Good
  <2>1. With({}) = {}
    OBVIOUS
  <2> HIDE DEF With, g
  <2> QED BY <2>1, SumEmpty
<1>6. ASSUME NEW s \in SUBSET K, s # {}, \A x \in s : s \ {x} \in Good
      PROVE  s \in Good
  <2>1. PICK x \in s : TRUE
    BY <1>6
  <2>2. With(s) = With({x}) \cup With(s \ {x}) /\ With({x}) \cap With(s \ {x}) = {}
    OBVIOUS
  <2> HIDE DEF With, g
  <2>3. SumOver(g, s) = g[x] + SumOver(g, s \ {x})
    BY <1>4, SumRemove
  <2>4. SumOver(g, s \ {x}) = SumOver(f, With(s \ {x}))
    BY <1>6
  <2>5. SumOver(f, With(s)) = SumOver(f, With({x})) + SumOver(f, With(s \ {x}))
    <3>1. Summable(f, With({x}) \cup With(s \ {x}))
      BY <1>1, <2>2
    <3> QED BY <2>2, <3>1, SumUnion
  <2> QED BY <1>2, <2>3, <2>4, <2>5
<1>7. Good = SUBSET K
  <2> HIDE DEF Good
  <2>1. Good \in SUBSET SUBSET K
    BY DEF Good
  <2> QED BY <1>5, <1>6, <2>1, ElementInduction
<1>8. K \in Good
  BY <1>7
<1> QED BY <1>8
=============================================================================
