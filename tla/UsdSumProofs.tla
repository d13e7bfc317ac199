---------------------------- MODULE UsdSumProofs ----------------------------
(***************************************************************************)
(* Facts about SumFunctionOnSet, with which UsdStageSharing adds up the    *)
(* memory of stages.                                                       *)
(*                                                                         *)
(* The sum is defined by a function that is recursive over the subsets of  *)
(* its set.  That such a function exists, and what its values are, is      *)
(* proved by well-founded induction: of the subsets for which a claim does *)
(* not hold, a smallest one is looked at (SmallestSet).                    *)
(***************************************************************************)
EXTENDS Integers, FiniteSets, Functions, FiniteSetTheorems, WellFoundedInduction, TLAPS

-----------------------------------------------------------------------------
(* The recursive function *)

\* The element the sum takes first
First(S) == CHOOSE x \in S : TRUE

\* g adds up the weights w over every subset of S
Adds(g, w, S) ==
    g = [T \in SUBSET S |-> IF T = {} THEN 0 ELSE w[First(T)] + g[T \ {First(T)}]]

\* A nonempty set of finite sets has a smallest one
LEMMA SmallestSet ==
    ASSUME NEW S, IsFiniteSet(S), NEW Sets \in SUBSET SUBSET S, Sets # {}
    PROVE  \E T \in Sets : \A U \in Sets : U \subseteq T => U = T
<1> DEFINE R == StrictSubsetOrdering(S)
<1>1. Sets \subseteq FiniteSubsetsOf(S)
  <2> SUFFICES ASSUME NEW T \in Sets PROVE T \in FiniteSubsetsOf(S)
    OBVIOUS
  <2>1. IsFiniteSet(T)
    BY FS_Subset
  <2> QED
    BY <2>1 DEF FiniteSubsetsOf
<1>2. IsWellFoundedOn(R, FiniteSubsetsOf(S))
  BY FS_StrictSubsetOrderingWellFounded
<1> HIDE DEF R
<1>3. PICK T \in Sets : \A U \in Sets : ~ (<<U, T>> \in R)
  BY <1>1, <1>2, WFMin
<1>4. \A U \in Sets : U \subseteq T => U = T
  <2> SUFFICES ASSUME NEW U \in Sets, U \subseteq T, U # T PROVE FALSE
    OBVIOUS
  <2>1. <<U, T>> \in R
    BY DEF R, StrictSubsetOrdering
  <2> QED
    BY <2>1, <1>3
<1> QED
  BY <1>4

\* The first element of a set is one of it
LEMMA FirstIn ==
    ASSUME NEW S, S # {}
    PROVE  First(S) \in S /\ S \ {First(S)} \subseteq S /\ S \ {First(S)} # S
BY DEF First

\* Such functions agree on the sets both add up
LEMMA AddsAgree ==
    ASSUME NEW w, NEW S, NEW T, NEW g, NEW h, Adds(g, w, S), Adds(h, w, T),
           NEW V, IsFiniteSet(V), V \subseteq S, V \subseteq T
    PROVE  g[V] = h[V]
<1> DEFINE Differ == {U \in SUBSET V : g[U] # h[U]}
<1> SUFFICES ASSUME Differ # {} PROVE FALSE
  OBVIOUS
<1>1. Differ \in SUBSET SUBSET V
  OBVIOUS
<1>2. \A U \in Differ : U \subseteq V /\ g[U] # h[U]
  OBVIOUS
<1>3. \A U : U \subseteq V /\ g[U] # h[U] => U \in Differ
  OBVIOUS
<1> HIDE DEF Differ
<1>4. PICK U \in Differ : \A X \in Differ : X \subseteq U => X = U
  BY <1>1, SmallestSet
<1> DEFINE x == First(U)
<1>5. U \subseteq V /\ U \in SUBSET S /\ U \in SUBSET T /\ g[U] # h[U]
  BY <1>2
<1>6. /\ g[U] = IF U = {} THEN 0 ELSE w[x] + g[U \ {x}]
      /\ h[U] = IF U = {} THEN 0 ELSE w[x] + h[U \ {x}]
  BY <1>5 DEF Adds
<1>7. CASE U = {}
  BY <1>5, <1>6, <1>7
<1>8. CASE U # {}
  <2>1. U \ {x} \subseteq U /\ U \ {x} # U
    BY <1>8, FirstIn
  <2>2. g[U \ {x}] = h[U \ {x}]
    BY <2>1, <1>3, <1>4, <1>5
  <2> QED
    BY <2>2, <1>5, <1>6, <1>8
<1> QED
  BY <1>7, <1>8

\* What adds up a set adds up its subsets
LEMMA AddsSubset ==
    ASSUME NEW w, NEW S, NEW g, Adds(g, w, S), NEW T \in SUBSET S
    PROVE  Adds([U \in SUBSET T |-> g[U]], w, T)
<1> DEFINE h == [U \in SUBSET T |-> g[U]]
<1>1. h = [U \in SUBSET T |-> IF U = {} THEN 0 ELSE w[First(U)] + h[U \ {First(U)}]]
  <2> SUFFICES ASSUME NEW U \in SUBSET T
               PROVE  h[U] = IF U = {} THEN 0 ELSE w[First(U)] + h[U \ {First(U)}]
    OBVIOUS
  <2>1. U \in SUBSET S /\ h[U] = g[U]
    OBVIOUS
  <2>2. g[U] = IF U = {} THEN 0 ELSE w[First(U)] + g[U \ {First(U)}]
    BY <2>1 DEF Adds
  <2>3. U \ {First(U)} \in SUBSET T
    OBVIOUS
  <2>4. h[U \ {First(U)}] = g[U \ {First(U)}]
    BY <2>3
  <2> HIDE DEF h
  <2> QED
    BY <2>1, <2>2, <2>4
<1> QED
  BY <1>1 DEF Adds

\* Something adds up every finite set
LEMMA AddsExists ==
    ASSUME NEW w, NEW S, IsFiniteSet(S)
    PROVE  \E g : Adds(g, w, S)
<1> DEFINE Without == {T \in SUBSET S : ~ \E g : Adds(g, w, T)}
<1> SUFFICES ASSUME Without # {} PROVE FALSE
  OBVIOUS
<1>1. Without \in SUBSET SUBSET S
  OBVIOUS
<1>2. \A T \in Without : T \subseteq S /\ ~ \E g : Adds(g, w, T)
  OBVIOUS
<1>3. \A T : T \subseteq S /\ T \notin Without => \E g : Adds(g, w, T)
  OBVIOUS
<1> HIDE DEF Without
<1>4. PICK T \in Without : \A X \in Without : X \subseteq T => X = T
  BY <1>1, SmallestSet
<1> DEFINE add(U) == CHOOSE g : Adds(g, w, U)
           g == [U \in SUBSET T |->
                   IF U = {} THEN 0
                   ELSE w[First(U)] + add(U \ {First(U)})[U \ {First(U)}]]
<1>5. \A U : U \subseteq T /\ U # T => Adds(add(U), w, U)
  BY <1>2, <1>3, <1>4
<1>6. \A U \in SUBSET T : U # T => g[U] = add(U)[U]
  <2> SUFFICES ASSUME NEW U \in SUBSET T, U # T PROVE g[U] = add(U)[U]
    OBVIOUS
  <2> DEFINE x == First(U)
  <2>1. Adds(add(U), w, U)
    BY <1>5
  <2>2. add(U)[U] = IF U = {} THEN 0 ELSE w[x] + add(U)[U \ {x}]
    BY <2>1 DEF Adds
  <2>3. g[U] = IF U = {} THEN 0 ELSE w[x] + add(U \ {x})[U \ {x}]
    OBVIOUS
  <2>4. CASE U = {}
    BY <2>2, <2>3, <2>4
  <2>5. CASE U # {}
    <3>1. U \ {x} \subseteq U /\ U \ {x} \subseteq T /\ U \ {x} # T
      BY <2>5, FirstIn
    <3>2. Adds(add(U \ {x}), w, U \ {x})
      BY <1>5, <3>1
    <3>3. IsFiniteSet(U \ {x})
      BY <1>2, <3>1, FS_Subset
    <3> HIDE DEF add, x, g
    <3>4. add(U)[U \ {x}] = add(U \ {x})[U \ {x}]
      BY <2>1, <3>1, <3>2, <3>3, AddsAgree
    <3> QED
      BY <2>2, <2>3, <2>5, <3>4
  <2> QED
    BY <2>4, <2>5
<1>7. \A U \in SUBSET T : g[U] = IF U = {} THEN 0 ELSE w[First(U)] + g[U \ {First(U)}]
  <2> SUFFICES ASSUME NEW U \in SUBSET T
               PROVE  g[U] = IF U = {} THEN 0 ELSE w[First(U)] + g[U \ {First(U)}]
    BY Zenon
  <2> DEFINE x == First(U)
  <2>1. g[U] = IF U = {} THEN 0 ELSE w[x] + add(U \ {x})[U \ {x}]
    OBVIOUS
  <2>2. CASE U = {}
    BY <2>1, <2>2
  <2>3. CASE U # {}
    <3>1. U \ {x} \in SUBSET T /\ U \ {x} # T
      BY <2>3, FirstIn
    <3> HIDE DEF add, x, g
    <3>2. g[U \ {x}] = add(U \ {x})[U \ {x}]
      BY <1>6, <3>1
    <3>3. g[U] = IF U = {} THEN 0 ELSE w[x] + g[U \ {x}]
      BY <2>1, <2>3, <3>2
    <3> QED
      BY <3>3 DEF x
  <2> QED
    BY <2>2, <2>3
<1>8. g = [U \in SUBSET T |-> g[U]]
  OBVIOUS
<1> HIDE DEF g
<1>9. [U \in SUBSET T |-> g[U]]
        = [U \in SUBSET T |-> IF U = {} THEN 0 ELSE w[First(U)] + g[U \ {First(U)}]]
  BY <1>7
<1>10. Adds(g, w, T)
  BY <1>8, <1>9, Zenon DEF Adds
<1> QED
  BY <1>2, <1>10

-----------------------------------------------------------------------------
(* The sum *)

\* The sum is what such a function gives the whole set
LEMMA SumIs ==
    ASSUME NEW w, NEW S
    PROVE  SumFunctionOnSet(w, S) = (CHOOSE g : Adds(g, w, S))[S]
BY DEF SumFunctionOnSet, FoldFunctionOnSet, MapThenFoldSet, Adds, First

\* The same, of any function that adds up a larger set
LEMMA SumAdds ==
    ASSUME NEW w, NEW S, IsFiniteSet(S), NEW T \in SUBSET S, NEW g, Adds(g, w, S)
    PROVE  SumFunctionOnSet(w, T) = g[T]
<1> DEFINE h == CHOOSE f : Adds(f, w, T)
<1>1. IsFiniteSet(T)
  BY FS_Subset
<1>2. Adds(h, w, T)
  BY <1>1, AddsExists
<1>3. SumFunctionOnSet(w, T) = h[T]
  BY SumIs
<1> HIDE DEF h
<1> QED
  BY <1>1, <1>2, <1>3, AddsAgree

\* Nothing adds up to 0
LEMMA SumEmpty ==
    ASSUME NEW w
    PROVE  SumFunctionOnSet(w, {}) = 0
<1>1. IsFiniteSet({})
  BY FS_EmptySet
<1>2. PICK g : Adds(g, w, {})
  BY <1>1, AddsExists
<1>3. g[{}] = 0
  BY <1>2 DEF Adds
<1> QED
  BY <1>1, <1>2, <1>3, SumAdds

\* The sum over a nonempty set takes its first element, then the others
LEMMA SumFirst ==
    ASSUME NEW w, NEW S, IsFiniteSet(S), S # {}
    PROVE  SumFunctionOnSet(w, S) = w[First(S)] + SumFunctionOnSet(w, S \ {First(S)})
<1> DEFINE x == First(S)
<1>1. PICK g : Adds(g, w, S)
  BY AddsExists
<1>2. g[S] = w[x] + g[S \ {x}]
  BY <1>1 DEF Adds
<1>3. S \in SUBSET S /\ S \ {x} \in SUBSET S
  OBVIOUS
<1> HIDE DEF x
<1>4. SumFunctionOnSet(w, S) = g[S] /\ SumFunctionOnSet(w, S \ {x}) = g[S \ {x}]
  BY <1>1, <1>3, SumAdds
<1> QED
  BY <1>2, <1>4 DEF x

\* The sum of natural numbers is one
LEMMA SumType ==
    ASSUME NEW w, NEW S, IsFiniteSet(S), \A i \in S : w[i] \in Nat
    PROVE  SumFunctionOnSet(w, S) \in Nat
<1> DEFINE Not == {T \in SUBSET S : SumFunctionOnSet(w, T) \notin Nat}
<1> SUFFICES ASSUME Not # {} PROVE FALSE
  OBVIOUS
<1>1. Not \in SUBSET SUBSET S
  OBVIOUS
<1>2. \A T : T \in Not <=> T \subseteq S /\ SumFunctionOnSet(w, T) \notin Nat
  OBVIOUS
<1> HIDE DEF Not
<1>3. PICK T \in Not : \A X \in Not : X \subseteq T => X = T
  BY <1>1, SmallestSet
<1>4. T \in SUBSET S /\ IsFiniteSet(T)
  BY <1>2, FS_Subset
<1>5. T # {}
  <2>1. SumFunctionOnSet(w, {}) \in Nat
    BY SumEmpty
  <2> QED
    BY <2>1, <1>2
<1> DEFINE x == First(T)
<1>6. x \in T /\ T \ {x} \subseteq T /\ T \ {x} # T
  BY <1>5, FirstIn
<1>7. SumFunctionOnSet(w, T) = w[x] + SumFunctionOnSet(w, T \ {x})
  BY <1>4, <1>5, SumFirst
<1> HIDE DEF x
<1>8. w[x] \in Nat /\ SumFunctionOnSet(w, T \ {x}) \in Nat
  BY <1>2, <1>3, <1>4, <1>6
<1> QED
  BY <1>2, <1>7, <1>8

\* Equal weights have equal sums
LEMMA SumSame ==
    ASSUME NEW v, NEW w, NEW S, IsFiniteSet(S), \A i \in S : v[i] = w[i] /\ w[i] \in Nat
    PROVE  SumFunctionOnSet(v, S) = SumFunctionOnSet(w, S)
<1> DEFINE Differ == {T \in SUBSET S : SumFunctionOnSet(v, T) # SumFunctionOnSet(w, T)}
<1> SUFFICES ASSUME Differ # {} PROVE FALSE
  OBVIOUS
<1>1. Differ \in SUBSET SUBSET S
  OBVIOUS
<1>2. \A T : T \in Differ <=>
               T \subseteq S /\ SumFunctionOnSet(v, T) # SumFunctionOnSet(w, T)
  OBVIOUS
<1> HIDE DEF Differ
<1>3. PICK T \in Differ : \A X \in Differ : X \subseteq T => X = T
  BY <1>1, SmallestSet
<1>4. T \in SUBSET S /\ IsFiniteSet(T)
  BY <1>2, FS_Subset
<1>5. T # {}
  BY <1>2, SumEmpty
<1> DEFINE x == First(T)
<1>6. x \in T /\ T \ {x} \subseteq T /\ T \ {x} # T
  BY <1>5, FirstIn
<1>7. /\ SumFunctionOnSet(v, T) = v[x] + SumFunctionOnSet(v, T \ {x})
      /\ SumFunctionOnSet(w, T) = w[x] + SumFunctionOnSet(w, T \ {x})
  BY <1>4, <1>5, SumFirst
<1> HIDE DEF x
<1>8. v[x] = w[x] /\ SumFunctionOnSet(v, T \ {x}) = SumFunctionOnSet(w, T \ {x})
  BY <1>2, <1>3, <1>4, <1>6
<1> QED
  BY <1>2, <1>7, <1>8

\* Any element can be taken first
LEMMA SumRemove ==
    ASSUME NEW w, NEW S, IsFiniteSet(S), \A j \in S : w[j] \in Nat, NEW i \in S
    PROVE  SumFunctionOnSet(w, S) = w[i] + SumFunctionOnSet(w, S \ {i})
<1> DEFINE Sum(T) == SumFunctionOnSet(w, T)
           Bad == {T \in SUBSET S : \E j \in T : Sum(T) # w[j] + Sum(T \ {j})}
<1> SUFFICES ASSUME Bad # {} PROVE FALSE
  OBVIOUS
<1>1. Bad \in SUBSET SUBSET S
  OBVIOUS
<1>2. \A T : T \in Bad <=> T \subseteq S /\ \E j \in T : Sum(T) # w[j] + Sum(T \ {j})
  OBVIOUS
<1> HIDE DEF Bad
<1>3. PICK T \in Bad : \A X \in Bad : X \subseteq T => X = T
  BY <1>1, SmallestSet
<1>4. PICK j \in T : Sum(T) # w[j] + Sum(T \ {j})
  BY <1>2
<1>5. T \in SUBSET S /\ IsFiniteSet(T)
  BY <1>2, FS_Subset
<1> DEFINE x == First(T)
<1>6. x \in T /\ T \ {x} \subseteq T /\ T \ {x} # T
  BY <1>5, FirstIn
<1>7. Sum(T) = w[x] + Sum(T \ {x})
  BY <1>5, SumFirst
<1>8. x # j
  BY <1>4, <1>7
<1> HIDE DEF x
<1> DEFINE R == T \ {x, j}
<1>9. /\ T \ {x} \subseteq S /\ T \ {x} \subseteq T /\ T \ {x} # T /\ j \in T \ {x}
      /\ T \ {j} \subseteq S /\ T \ {j} \subseteq T /\ T \ {j} # T /\ x \in T \ {j}
      /\ (T \ {x}) \ {j} = R /\ (T \ {j}) \ {x} = R
  BY <1>5, <1>6, <1>8
<1> HIDE DEF R
<1>10. /\ Sum(T \ {x}) = w[j] + Sum((T \ {x}) \ {j})
       /\ Sum(T \ {j}) = w[x] + Sum((T \ {j}) \ {x})
  BY <1>2, <1>3, <1>9
<1>11. R \in SUBSET S /\ IsFiniteSet(R)
  BY <1>9, FS_Subset
<1>12. Sum(R) \in Nat /\ w[x] \in Nat /\ w[j] \in Nat
  BY <1>5, <1>6, <1>11, SumType
<1> HIDE DEF Sum
<1> QED
  BY <1>4, <1>7, <1>9, <1>10, <1>12

\* A part adds up to no more than the whole
LEMMA SumSubset ==
    ASSUME NEW w, NEW S, IsFiniteSet(S), \A j \in S : w[j] \in Nat, NEW T \in SUBSET S
    PROVE  SumFunctionOnSet(w, T) <= SumFunctionOnSet(w, S)
<1> DEFINE Sum(U) == SumFunctionOnSet(w, U)
           Above == {U \in SUBSET S : T \subseteq U /\ ~(Sum(T) <= Sum(U))}
<1> SUFFICES ASSUME Above # {} PROVE FALSE
  OBVIOUS
<1>1. Above \in SUBSET SUBSET S
  OBVIOUS
<1>2. \A U : U \in Above <=> U \subseteq S /\ T \subseteq U /\ ~(Sum(T) <= Sum(U))
  OBVIOUS
<1> HIDE DEF Above
<1>3. PICK U \in Above : \A X \in Above : X \subseteq U => X = U
  BY <1>1, SmallestSet
<1>4. U \in SUBSET S /\ IsFiniteSet(U) /\ IsFiniteSet(T) /\ T \subseteq U
  BY <1>2, FS_Subset
<1>5. Sum(T) \in Nat /\ Sum(U) \in Nat
  BY <1>4, SumType
<1>6. PICK i \in U : i \notin T
  <2>1. U # T
    BY <1>2, <1>5
  <2> QED
    BY <2>1, <1>4
<1>7. U \ {i} \in SUBSET S /\ T \subseteq U \ {i} /\ U \ {i} \subseteq U /\ U \ {i} # U
  BY <1>4, <1>6
<1>8. Sum(T) <= Sum(U \ {i})
  BY <1>2, <1>3, <1>7
<1>9. IsFiniteSet(U \ {i})
  BY <1>7, FS_Subset
<1>10. Sum(U \ {i}) \in Nat /\ w[i] \in Nat
  BY <1>4, <1>7, <1>9, SumType
<1>11. Sum(U) = w[i] + Sum(U \ {i})
  BY <1>4, SumRemove
<1> HIDE DEF Sum
<1> QED
  BY <1>2, <1>5, <1>8, <1>10, <1>11
=============================================================================
