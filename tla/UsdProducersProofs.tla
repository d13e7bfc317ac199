------------------------- MODULE UsdProducersProofs -------------------------
(***************************************************************************)
(* What the producers of UsdProducers return does not depend on what they  *)
(* have done before, for any stage, options and prims: a producer in order *)
(* (Sound) stays in order when a prim is added, when its time is set and   *)
(* when it is cleared, and adds the rows that one without a past adds.     *)
(***************************************************************************)
EXTENDS UsdProducers, SequenceTheorems, WellFoundedInduction, FiniteSetTheorems, TLAPS

-----------------------------------------------------------------------------
(* Numbers and sequences: what tlapm does not know of FlattenSeq *)

\* A set of numbers has a smallest one.
LEMMA SmallestNumber ==
    ASSUME NEW N \in SUBSET Nat, N # {}
    PROVE  \E n \in N : \A m \in N : n <= m
<1>1. IsWellFoundedOn(OpToRel(<, Nat), Nat)
  BY NatLessThanWellFounded
<1>2. PICK n \in N : \A m \in N : ~ (<<m, n>> \in OpToRel(<, Nat))
  BY <1>1, WFMin
<1>3. \A m \in N : ~ (m < n)
  BY <1>2 DEF OpToRel
<1> QED BY <1>3

\* A set of numbers that begins with 0 and goes on has all numbers
LEMMA EveryNumber ==
    ASSUME NEW N, 0 \in N, \A n \in Nat : n \in N => n + 1 \in N
    PROVE  Nat \subseteq N
<1> SUFFICES ASSUME Nat \ N # {} PROVE FALSE
  OBVIOUS
<1>1. PICK n \in Nat \ N : \A m \in Nat \ N : n <= m
  BY SmallestNumber
<1>2. n # 0
  OBVIOUS
<1>3. n - 1 \in Nat /\ (n - 1) + 1 = n /\ ~(n <= n - 1)
  BY <1>2
<1>4. n - 1 \in N
  BY <1>1, <1>3
<1> QED BY <1>3, <1>4

\* A set of sequences that begins with the empty one and goes on has all of them
LEMMA EverySequence ==
    ASSUME NEW A, NEW Good, <<>> \in Good,
           \A s \in Seq(A), x \in A : s \in Good => Append(s, x) \in Good
    PROVE  Seq(A) \subseteq Good
<1> DEFINE N == {n \in Nat : \A s \in Seq(A) : Len(s) = n => s \in Good}
<1>1. 0 \in N
  <2>1. \A s \in Seq(A) : Len(s) = 0 => s = <<>>
    BY EmptySeq
  <2> QED BY <2>1
<1>2. ASSUME NEW n \in Nat, n \in N PROVE n + 1 \in N
  <2> SUFFICES ASSUME NEW s \in Seq(A), Len(s) = n + 1 PROVE s \in Good
    OBVIOUS
  <2>1. s # <<>>
    <3>1. n + 1 # 0 /\ Len(<<>>) = 0
      OBVIOUS
    <3> QED BY <3>1
  <2>2. PICK t \in Seq(A), x \in A : s = Append(t, x)
    BY <2>1, SequenceEmptyOrAppend
  <2>3. Len(s) = Len(t) + 1 /\ Len(t) \in Nat
    BY <2>2, AppendProperties, LenProperties
  <2>4. t \in Good
    BY <1>2, <2>3
  <2> QED BY <2>2, <2>4
<1>3. \A s \in Seq(A) : Len(s) \in Nat
  BY LenProperties
<1>4. Nat \subseteq N
  <2> HIDE DEF N
  <2> QED BY <1>1, <1>2, EveryNumber
<1> QED BY <1>3, <1>4

\* g[i] is what FlattenSeq makes of the first i sequences of s
Chain(g, s, n) == g = [i \in 1 .. n |-> IF i = 1 THEN s[i] ELSE g[i - 1] \o s[i]]

\* Every list of sequences has such a chain.
LEMMA ChainExists ==
    ASSUME NEW s, NEW n \in Nat
    PROVE  \E g : Chain(g, s, n)
<1> DEFINE N == {k \in Nat : \E g : Chain(g, s, k)}
<1>1. 0 \in N
  <2> DEFINE g == [i \in 1 .. 0 |-> s[i]]
  <2>1. Chain(g, s, 0)
    BY DEF Chain
  <2> QED BY <2>1
<1>2. ASSUME NEW k \in Nat, k \in N PROVE k + 1 \in N
  <2>1. PICK g : Chain(g, s, k)
    BY <1>2
  <2> DEFINE h == [i \in 1 .. k + 1 |-> IF i = k + 1 THEN IF k = 0 THEN s[i] ELSE g[k] \o s[i]
                                         ELSE g[i]]
  <2>2. \A i \in 1 .. k : h[i] = g[i] /\ (i # 1 => h[i - 1] = g[i - 1] /\ i - 1 \in 1 .. k)
    OBVIOUS
  <2>3. \A i \in 1 .. k : g[i] = IF i = 1 THEN s[i] ELSE g[i - 1] \o s[i]
    BY <2>1 DEF Chain
  <2>4. \A i \in 1 .. k + 1 : h[i] = IF i = 1 THEN s[i] ELSE h[i - 1] \o s[i]
    <3> SUFFICES ASSUME NEW i \in 1 .. k + 1
                 PROVE  h[i] = IF i = 1 THEN s[i] ELSE h[i - 1] \o s[i]
      OBVIOUS
    <3>1. CASE i \in 1 .. k
      BY <2>2, <2>3, <3>1
    <3>2. CASE i = k + 1 /\ k = 0
      BY <3>2
    <3>3. CASE i = k + 1 /\ k # 0
      <4>1. k \in 1 .. k /\ i # 1 /\ i - 1 = k
        BY <3>3
      <4>2. h[k] = g[k] /\ h[i] = g[k] \o s[i]
        BY <2>2, <3>3, <4>1
      <4> QED BY <4>1, <4>2
    <3> QED BY <3>1, <3>2, <3>3
  <2>5. Chain(h, s, k + 1)
    <3> HIDE DEF h
    <3>1. h = [i \in 1 .. k + 1 |-> h[i]]
      BY DEF h
    <3> QED BY <2>4, <3>1 DEF Chain
  <2> QED BY <2>5
<1>3. Nat \subseteq N
  <2> HIDE DEF N
  <2> QED BY <1>1, <1>2, EveryNumber
<1> QED BY <1>3

\* Chains of lists that begin alike begin alike.
LEMMA ChainAgree ==
    ASSUME NEW s, NEW n \in Nat, NEW g, Chain(g, s, n),
           NEW t, NEW m \in Nat, NEW h, Chain(h, t, m),
           NEW k \in Nat, k >= 1, k <= n, k <= m, \A i \in 1 .. k : s[i] = t[i]
    PROVE  g[k] = h[k]
<1> DEFINE N == {i \in Nat : i + 1 <= k => g[i + 1] = h[i + 1]}
<1>1. /\ \A i \in 1 .. n : g[i] = IF i = 1 THEN s[i] ELSE g[i - 1] \o s[i]
      /\ \A i \in 1 .. m : h[i] = IF i = 1 THEN t[i] ELSE h[i - 1] \o t[i]
  BY DEF Chain
<1>2. 0 \in N
  BY <1>1
<1>3. ASSUME NEW i \in Nat, i \in N PROVE i + 1 \in N
  <2> SUFFICES ASSUME (i + 1) + 1 <= k PROVE g[(i + 1) + 1] = h[(i + 1) + 1]
    OBVIOUS
  <2>1. /\ (i + 1) + 1 \in 1 .. n /\ (i + 1) + 1 \in 1 .. m /\ (i + 1) + 1 \in 1 .. k
        /\ (i + 1) + 1 # 1 /\ ((i + 1) + 1) - 1 = i + 1 /\ i + 1 <= k
    OBVIOUS
  <2>2. g[i + 1] = h[i + 1] /\ s[(i + 1) + 1] = t[(i + 1) + 1]
    BY <1>3, <2>1
  <2>3. /\ g[(i + 1) + 1] = g[i + 1] \o s[(i + 1) + 1]
        /\ h[(i + 1) + 1] = h[i + 1] \o t[(i + 1) + 1]
    BY <1>1, <2>1
  <2> QED BY <2>2, <2>3
<1>4. Nat \subseteq N
  <2> HIDE DEF N
  <2> QED BY <1>2, <1>3, EveryNumber
<1>5. k - 1 \in Nat /\ (k - 1) + 1 = k
  OBVIOUS
<1>6. k - 1 \in N
  BY <1>4, <1>5
<1> QED BY <1>5, <1>6

\* The last of a chain is what FlattenSeq makes of the list.
LEMMA FlattenIs ==
    ASSUME NEW s, NEW g, Len(s) \in Nat, Len(s) # 0, Chain(g, s, Len(s))
    PROVE  FlattenSeq(s) = g[Len(s)]
<1> DEFINE h == CHOOSE f : f = [i \in 1 .. Len(s) |-> IF i = 1 THEN s[i] ELSE f[i - 1] \o s[i]]
<1>1. FlattenSeq(s) = h[Len(s)]
  BY DEF FlattenSeq
<1>2. \E f : f = [i \in 1 .. Len(s) |-> IF i = 1 THEN s[i] ELSE f[i - 1] \o s[i]]
  BY DEF Chain
<1>3. h = [i \in 1 .. Len(s) |-> IF i = 1 THEN s[i] ELSE h[i - 1] \o s[i]]
  BY <1>2
<1> HIDE DEF h
<1>4. Chain(h, s, Len(s))
  BY <1>3 DEF Chain
<1>5. h[Len(s)] = g[Len(s)]
  BY <1>4, ChainAgree
<1> QED BY <1>1, <1>5

\* No sequences, no elements.
LEMMA FlattenEmpty == FlattenSeq(<<>>) = <<>>
BY DEF FlattenSeq

\* One sequence more is added at the end.
LEMMA FlattenAppend ==
    ASSUME NEW A, NEW s \in Seq(Seq(A)), NEW x \in Seq(A), FlattenSeq(s) \in Seq(A)
    PROVE  /\ FlattenSeq(Append(s, x)) = FlattenSeq(s) \o x
           /\ FlattenSeq(Append(s, x)) \in Seq(A)
<1> DEFINE t == Append(s, x)
           n == Len(s)
<1>1. /\ n \in Nat /\ Len(t) = n + 1 /\ t[n + 1] = x /\ \A i \in 1 .. n : t[i] = s[i]
  BY AppendProperties, LenProperties
<1> HIDE DEF t, n
<1>2. PICK g : Chain(g, t, n + 1)
  <2>1. n + 1 \in Nat
    BY <1>1
  <2> QED BY <2>1, ChainExists
<1>3. FlattenSeq(t) = g[n + 1]
  BY <1>1, <1>2, FlattenIs
<1>4. n + 1 \in 1 .. n + 1 /\ (n + 1) - 1 = n /\ (n + 1 = 1 <=> n = 0)
  BY <1>1
<1>5. g[n + 1] = IF n = 0 THEN t[n + 1] ELSE g[n] \o t[n + 1]
  BY <1>2, <1>4 DEF Chain
<1>6. CASE n = 0
  <2>1. s = <<>>
    BY <1>6, EmptySeq DEF n
  <2>2. FlattenSeq(s) = <<>> /\ FlattenSeq(t) = x
    BY <1>1, <1>3, <1>5, <1>6, <2>1, FlattenEmpty
  <2> QED BY <2>2, ConcatEmptySeq DEF t
<1>7. CASE n # 0
  <2>1. PICK h : Chain(h, s, n)
    BY <1>1, ChainExists
  <2>2. FlattenSeq(s) = h[n]
    BY <1>1, <1>7, <2>1, FlattenIs DEF n
  <2>3. g[n] = h[n]
    BY <1>1, <1>2, <1>7, <2>1, ChainAgree
  <2>4. FlattenSeq(t) = FlattenSeq(s) \o x
    BY <1>1, <1>3, <1>5, <1>7, <2>2, <2>3
  <2> QED BY <2>4, ConcatProperties DEF t
<1> QED BY <1>6, <1>7

\* The elements are those of the sequences.
LEMMA FlattenType ==
    ASSUME NEW A, NEW s \in Seq(Seq(A))
    PROVE  FlattenSeq(s) \in Seq(A)
<1> DEFINE Good == {t \in Seq(Seq(A)) : FlattenSeq(t) \in Seq(A)}
<1>1. <<>> \in Good
  BY FlattenEmpty, EmptySeq
<1>2. ASSUME NEW t \in Seq(Seq(A)), NEW x \in Seq(A), t \in Good PROVE Append(t, x) \in Good
  BY <1>2, FlattenAppend, AppendProperties
<1>3. Seq(Seq(A)) \subseteq Good
  <2> HIDE DEF Good
  <2> QED BY <1>1, <1>2, EverySequence
<1> QED BY <1>3

\* What is appended last stays last.
LEMMA ConcatAppend ==
    ASSUME NEW A, NEW s \in Seq(A), NEW t \in Seq(A), NEW x \in A
    PROVE  s \o Append(t, x) = Append(s \o t, x)
<1>1. <<x>> \in Seq(A)
  OBVIOUS
<1>2. s \o t \in Seq(A)
  BY ConcatProperties
<1>3. Append(t, x) = t \o <<x>> /\ Append(s \o t, x) = (s \o t) \o <<x>>
  BY <1>2, AppendIsConcat
<1> QED BY <1>1, <1>3, ConcatAssociative

\* Lists of sequences can be flattened one after the other.
LEMMA FlattenConcat ==
    ASSUME NEW A, NEW s \in Seq(Seq(A)), NEW t \in Seq(Seq(A))
    PROVE  FlattenSeq(s \o t) = FlattenSeq(s) \o FlattenSeq(t)
<1> DEFINE Good == {u \in Seq(Seq(A)) : FlattenSeq(s \o u) = FlattenSeq(s) \o FlattenSeq(u)}
<1>0. FlattenSeq(s) \in Seq(A)
  BY FlattenType
<1>1. <<>> \in Good
  <2>1. s \o <<>> = s /\ FlattenSeq(s) \o <<>> = FlattenSeq(s) /\ <<>> \in Seq(Seq(A))
    BY <1>0, ConcatEmptySeq, EmptySeq
  <2> QED BY <2>1, FlattenEmpty
<1>2. ASSUME NEW u \in Seq(Seq(A)), NEW x \in Seq(A), u \in Good PROVE Append(u, x) \in Good
  <2>1. /\ s \o Append(u, x) = Append(s \o u, x) /\ s \o u \in Seq(Seq(A))
        /\ Append(u, x) \in Seq(Seq(A))
    <3>1. s \o Append(u, x) = Append(s \o u, x)
      <4> DEFINE B == Seq(A)
      <4>1. s \in Seq(B) /\ u \in Seq(B) /\ x \in B
        OBVIOUS
      <4> HIDE DEF B
      <4> QED BY <4>1, ConcatAppend
    <3> QED BY <3>1, ConcatProperties, AppendProperties
  <2>2. FlattenSeq(u) \in Seq(A) /\ FlattenSeq(s \o u) \in Seq(A)
    BY <2>1, FlattenType
  <2>3. /\ FlattenSeq(Append(u, x)) = FlattenSeq(u) \o x
        /\ FlattenSeq(Append(s \o u, x)) = FlattenSeq(s \o u) \o x
    BY <2>1, <2>2, FlattenAppend
  <2>4. FlattenSeq(s \o u) = FlattenSeq(s) \o FlattenSeq(u)
    BY <1>2
  <2>5. (FlattenSeq(s) \o FlattenSeq(u)) \o x = FlattenSeq(s) \o (FlattenSeq(u) \o x)
    <3> DEFINE p == FlattenSeq(s)
               q == FlattenSeq(u)
    <3>1. p \in Seq(A) /\ q \in Seq(A)
      BY <1>0, <2>2
    <3> HIDE DEF p, q
    <3>2. (p \o q) \o x = p \o (q \o x)
      BY <3>1, ConcatAssociative
    <3> QED BY <3>2 DEF p, q
  <2> QED BY <2>1, <2>3, <2>4, <2>5
<1>3. Seq(Seq(A)) \subseteq Good
  <2> HIDE DEF Good
  <2> QED BY <1>1, <1>2, EverySequence
<1> QED BY <1>3

\* The elements of both.
LEMMA ConcatElements ==
    ASSUME NEW A, NEW s \in Seq(A), NEW t \in Seq(A)
    PROVE  ToSet(s \o t) = ToSet(s) \cup ToSet(t)
<1>1. /\ Len(s) \in Nat /\ Len(t) \in Nat /\ DOMAIN s = 1 .. Len(s) /\ DOMAIN t = 1 .. Len(t)
      /\ DOMAIN (s \o t) = 1 .. Len(s) + Len(t)
      /\ \A i \in 1 .. Len(s) + Len(t) :
           (s \o t)[i] = IF i <= Len(s) THEN s[i] ELSE t[i - Len(s)]
  BY ConcatProperties, LenProperties
<1>2. ToSet(s \o t) \subseteq ToSet(s) \cup ToSet(t)
  <2> SUFFICES ASSUME NEW i \in 1 .. Len(s) + Len(t)
               PROVE  (s \o t)[i] \in ToSet(s) \cup ToSet(t)
    BY <1>1 DEF ToSet
  <2>1. CASE i <= Len(s)
    BY <1>1, <2>1 DEF ToSet
  <2>2. CASE i > Len(s)
    <3>1. i - Len(s) \in 1 .. Len(t)
      BY <1>1, <2>2
    <3> QED BY <1>1, <2>2, <3>1 DEF ToSet
  <2> QED BY <1>1, <2>1, <2>2
<1>3. ToSet(s) \subseteq ToSet(s \o t)
  <2> SUFFICES ASSUME NEW i \in 1 .. Len(s) PROVE s[i] \in ToSet(s \o t)
    BY <1>1 DEF ToSet
  <2>1. i \in 1 .. Len(s) + Len(t) /\ (s \o t)[i] = s[i]
    BY <1>1
  <2> QED BY <1>1, <2>1 DEF ToSet
<1>4. ToSet(t) \subseteq ToSet(s \o t)
  <2> SUFFICES ASSUME NEW i \in 1 .. Len(t) PROVE t[i] \in ToSet(s \o t)
    BY <1>1 DEF ToSet
  <2>1. /\ Len(s) + i \in 1 .. Len(s) + Len(t) /\ ~(Len(s) + i <= Len(s))
        /\ (Len(s) + i) - Len(s) = i
    BY <1>1
  <2>2. (s \o t)[Len(s) + i] = t[i]
    BY <1>1, <2>1
  <2> QED BY <1>1, <2>1, <2>2 DEF ToSet
<1> QED BY <1>2, <1>3, <1>4

\* One element more.
LEMMA AppendElements ==
    ASSUME NEW A, NEW s \in Seq(A), NEW x \in A
    PROVE  ToSet(Append(s, x)) = ToSet(s) \cup {x}
<1>1. <<x>> \in Seq(A) /\ ToSet(<<x>>) = {x}
  BY DEF ToSet
<1>2. Append(s, x) = s \o <<x>>
  BY AppendIsConcat
<1>3. ToSet(s \o <<x>>) = ToSet(s) \cup ToSet(<<x>>)
  <2> DEFINE one == <<x>>
  <2>1. one \in Seq(A)
    BY <1>1
  <2> HIDE DEF one
  <2>2. ToSet(s \o one) = ToSet(s) \cup ToSet(one)
    BY <2>1, ConcatElements
  <2> QED BY <2>2 DEF one
<1> QED BY <1>1, <1>2, <1>3

\* The elements of all sequences.
LEMMA FlattenElements ==
    ASSUME NEW A, NEW s \in Seq(Seq(A))
    PROVE  \A f : f \in ToSet(FlattenSeq(s)) <=> \E x \in ToSet(s) : f \in ToSet(x)
<1> DEFINE Good == {t \in Seq(Seq(A)) :
                       \A f : f \in ToSet(FlattenSeq(t)) <=> \E x \in ToSet(t) : f \in ToSet(x)}
<1>1. <<>> \in Good
  <2>1. ToSet(<<>>) = {} /\ <<>> \in Seq(Seq(A))
    BY EmptySeq DEF ToSet
  <2> QED BY <2>1, FlattenEmpty
<1>2. ASSUME NEW t \in Seq(Seq(A)), NEW x \in Seq(A), t \in Good PROVE Append(t, x) \in Good
  <2>1. FlattenSeq(t) \in Seq(A)
    BY FlattenType
  <2>2. FlattenSeq(Append(t, x)) = FlattenSeq(t) \o x
    BY <2>1, FlattenAppend
  <2>3. ToSet(FlattenSeq(t) \o x) = ToSet(FlattenSeq(t)) \cup ToSet(x)
    BY <2>1, ConcatElements
  <2>4. ToSet(Append(t, x)) = ToSet(t) \cup {x} /\ Append(t, x) \in Seq(Seq(A))
    BY AppendElements, AppendProperties
  <2>5. \A f : f \in ToSet(FlattenSeq(t)) <=> \E y \in ToSet(t) : f \in ToSet(y)
    BY <1>2
  <2>6. \A f : f \in ToSet(FlattenSeq(Append(t, x)))
                 <=> \E y \in ToSet(Append(t, x)) : f \in ToSet(y)
    BY <2>2, <2>3, <2>4, <2>5
  <2> QED BY <2>4, <2>6
<1>3. Seq(Seq(A)) \subseteq Good
  <2> HIDE DEF Good
  <2> QED BY <1>1, <1>2, EverySequence
<1> QED BY <1>3

-----------------------------------------------------------------------------
(* Among *)

\* x if it is in S, and so for every element of a list
One(x, S) == IF x \in S THEN <<x>> ELSE <<>>
Ones(s, S) == [i \in DOMAIN s |-> One(s[i], S)]

\* A list of one element.
LEMMA OneType ==
    ASSUME NEW A, NEW x \in A, NEW S
    PROVE  /\ One(x, S) \in Seq(A) /\ Among(<<x>>, S) = One(x, S)
           /\ <<x>> \in Seq(A)
<1>1. One(x, S) \in Seq(A) /\ <<x>> \in Seq(A)
  BY DEF One
<1>2. [i \in DOMAIN <<x>> |-> IF <<x>>[i] \in S THEN <<<<x>>[i]>> ELSE <<>>] = Append(<<>>, One(x, S))
  BY DEF One
<1>3. FlattenSeq(Append(<<>>, One(x, S))) = <<>> \o One(x, S)
  <2>1. <<>> \in Seq(Seq(A)) /\ FlattenSeq(<<>>) \in Seq(A)
    BY EmptySeq, FlattenEmpty
  <2> QED BY <1>1, <2>1, FlattenAppend, FlattenEmpty
<1> QED BY <1>1, <1>2, <1>3, ConcatEmptySeq DEF Among

\* Nothing of nothing.
LEMMA AmongEmpty == ASSUME NEW S PROVE Among(<<>>, S) = <<>>
<1>1. [i \in DOMAIN <<>> |-> IF <<>>[i] \in S THEN <<<<>>[i]>> ELSE <<>>] = <<>>
  OBVIOUS
<1> QED BY <1>1, FlattenEmpty DEF Among

\* Among flattens a list of elements and gaps.
LEMMA OnesType ==
    ASSUME NEW A, NEW s \in Seq(A), NEW S
    PROVE  Ones(s, S) \in Seq(Seq(A)) /\ Among(s, S) = FlattenSeq(Ones(s, S))
<1>1. Among(s, S) = FlattenSeq(Ones(s, S))
  BY DEF Among, Ones, One
<1>2. \A i \in DOMAIN s : One(s[i], S) \in Seq(A)
  BY OneType, LenProperties, ElementOfSeq
<1>3. Len(s) \in Nat /\ DOMAIN s = 1 .. Len(s)
  BY LenProperties
<1>4. Ones(s, S) \in [1 .. Len(s) -> Seq(A)]
  BY <1>2, <1>3 DEF Ones
<1> QED BY <1>1, <1>3, <1>4

\* What is left is of the same type.
LEMMA AmongType ==
    ASSUME NEW A, NEW s \in Seq(A), NEW S
    PROVE  Among(s, S) \in Seq(A)
BY OnesType, FlattenType

\* Both parts of a list are selected from separately.
LEMMA AmongConcat ==
    ASSUME NEW A, NEW s \in Seq(A), NEW t \in Seq(A), NEW S
    PROVE  Among(s \o t, S) = Among(s, S) \o Among(t, S)
<1>1. /\ Len(s) \in Nat /\ Len(t) \in Nat /\ s \o t \in Seq(A)
      /\ DOMAIN s = 1 .. Len(s) /\ DOMAIN t = 1 .. Len(t)
      /\ DOMAIN (s \o t) = 1 .. Len(s) + Len(t)
      /\ \A i \in 1 .. Len(s) + Len(t) :
           (s \o t)[i] = IF i <= Len(s) THEN s[i] ELSE t[i - Len(s)]
  BY ConcatProperties, LenProperties
<1>2. /\ Ones(s, S) \in Seq(Seq(A)) /\ Ones(t, S) \in Seq(Seq(A)) /\ Ones(s \o t, S) \in Seq(Seq(A))
  BY <1>1, OnesType
<1>3. /\ Len(Ones(s, S)) = Len(s) /\ Len(Ones(t, S)) = Len(t)
      /\ Len(Ones(s \o t, S)) = Len(s) + Len(t)
  BY <1>1, <1>2, LenProperties DEF Ones
<1>4. Ones(s \o t, S) = Ones(s, S) \o Ones(t, S)
  <2>1. /\ Ones(s, S) \o Ones(t, S) \in Seq(Seq(A))
        /\ Len(Ones(s, S) \o Ones(t, S)) = Len(s) + Len(t)
        /\ \A i \in 1 .. Len(s) + Len(t) : (Ones(s, S) \o Ones(t, S))[i] =
             IF i <= Len(s) THEN Ones(s, S)[i] ELSE Ones(t, S)[i - Len(s)]
    <3>1. \A u, v \in Seq(Seq(A)) :
            /\ u \o v \in Seq(Seq(A)) /\ Len(u \o v) = Len(u) + Len(v)
            /\ \A i \in 1 .. Len(u) + Len(v) :
                 (u \o v)[i] = IF i <= Len(u) THEN u[i] ELSE v[i - Len(u)]
      BY ConcatProperties
    <3> DEFINE u == Ones(s, S)
               v == Ones(t, S)
    <3>2. u \in Seq(Seq(A)) /\ v \in Seq(Seq(A)) /\ Len(u) = Len(s) /\ Len(v) = Len(t)
      BY <1>2, <1>3
    <3> HIDE DEF u, v
    <3>3. /\ u \o v \in Seq(Seq(A)) /\ Len(u \o v) = Len(u) + Len(v)
          /\ \A i \in 1 .. Len(u) + Len(v) :
               (u \o v)[i] = IF i <= Len(u) THEN u[i] ELSE v[i - Len(u)]
      BY <3>1, <3>2
    <3> QED BY <3>2, <3>3 DEF u, v
  <2>2. ASSUME NEW i \in 1 .. Len(s) + Len(t)
        PROVE  Ones(s \o t, S)[i] = (Ones(s, S) \o Ones(t, S))[i]
    <3>1. Ones(s \o t, S)[i] = One((s \o t)[i], S)
      BY <1>1 DEF Ones
    <3>2. CASE i <= Len(s)
      <4>1. i \in DOMAIN s /\ (s \o t)[i] = s[i]
        BY <1>1, <3>2
      <4>2. Ones(s, S)[i] = One(s[i], S)
        BY <4>1 DEF Ones
      <4>3. (Ones(s, S) \o Ones(t, S))[i] = Ones(s, S)[i]
        BY <2>1, <3>2
      <4> QED BY <3>1, <4>1, <4>2, <4>3
    <3>3. CASE i > Len(s)
      <4>1. i - Len(s) \in DOMAIN t /\ ~(i <= Len(s))
        BY <1>1, <3>3
      <4>2. (s \o t)[i] = t[i - Len(s)]
        BY <1>1, <4>1
      <4>3. Ones(t, S)[i - Len(s)] = One(t[i - Len(s)], S)
        BY <4>1 DEF Ones
      <4>4. (Ones(s, S) \o Ones(t, S))[i] = Ones(t, S)[i - Len(s)]
        BY <2>1, <2>2, <4>1
      <4> QED BY <3>1, <4>2, <4>3, <4>4
    <3>4. i <= Len(s) \/ i > Len(s)
      BY <1>1
    <3> QED BY <3>2, <3>3, <3>4
  <2> QED BY <1>2, <1>3, <2>1, <2>2, SeqEqual
<1>5. FlattenSeq(Ones(s, S) \o Ones(t, S)) = FlattenSeq(Ones(s, S)) \o FlattenSeq(Ones(t, S))
  BY <1>2, FlattenConcat
<1>6. /\ Among(s \o t, S) = FlattenSeq(Ones(s \o t, S))
      /\ Among(s, S) = FlattenSeq(Ones(s, S)) /\ Among(t, S) = FlattenSeq(Ones(t, S))
  BY <1>1, OnesType
<1> QED BY <1>4, <1>5, <1>6

\* The element added last is selected or not.
LEMMA AmongAppend ==
    ASSUME NEW A, NEW s \in Seq(A), NEW x \in A, NEW S
    PROVE  Among(Append(s, x), S) = Among(s, S) \o One(x, S)
<1>1. <<x>> \in Seq(A) /\ Append(s, x) = s \o <<x>> /\ Among(<<x>>, S) = One(x, S)
  BY OneType, AppendIsConcat
<1>2. \A u, v \in Seq(A) : Among(u \o v, S) = Among(u, S) \o Among(v, S)
  BY AmongConcat
<1> QED BY <1>1, <1>2

\* Selecting twice is selecting what is in both sets.
LEMMA AmongTwice ==
    ASSUME NEW A, NEW s \in Seq(A), NEW S, NEW T
    PROVE  Among(Among(s, S), T) = Among(s, S \cap T)
<1>0. \A u, v \in Seq(A) : Among(u \o v, T) = Among(u, T) \o Among(v, T)
  BY AmongConcat
<1> DEFINE Good == {t \in Seq(A) : Among(Among(t, S), T) = Among(t, S \cap T)}
<1>1. <<>> \in Good
  BY AmongEmpty, EmptySeq
<1>2. ASSUME NEW t \in Seq(A), NEW x \in A, t \in Good PROVE Append(t, x) \in Good
  <2>1. /\ Among(Append(t, x), S) = Among(t, S) \o One(x, S)
        /\ Among(Append(t, x), S \cap T) = Among(t, S \cap T) \o One(x, S \cap T)
        /\ Append(t, x) \in Seq(A)
    <3>1. Among(Append(t, x), S) = Among(t, S) \o One(x, S)
      BY AmongAppend
    <3>2. Among(Append(t, x), S \cap T) = Among(t, S \cap T) \o One(x, S \cap T)
      BY AmongAppend
    <3> QED BY <3>1, <3>2, AppendProperties
  <2>2. Among(t, S) \in Seq(A) /\ One(x, S) \in Seq(A)
    BY AmongType, OneType
  <2>3. Among(Among(t, S) \o One(x, S), T) = Among(Among(t, S), T) \o Among(One(x, S), T)
    <3> DEFINE u == Among(t, S)
               v == One(x, S)
    <3>2. u \in Seq(A) /\ v \in Seq(A)
      BY <2>2
    <3> HIDE DEF u, v
    <3>3. Among(u \o v, T) = Among(u, T) \o Among(v, T)
      BY <1>0, <3>2
    <3> QED BY <3>3 DEF u, v
  <2>4. Among(One(x, S), T) = One(x, S \cap T)
    BY AmongEmpty, OneType DEF One
  <2>5. Among(Among(t, S), T) = Among(t, S \cap T)
    BY <1>2
  <2> QED BY <2>1, <2>3, <2>4, <2>5
<1>3. Seq(A) \subseteq Good
  <2> HIDE DEF Good
  <2> QED BY <1>1, <1>2, EverySequence
<1> QED BY <1>3

\* What is in S of a list, and nothing else, is left.
LEMMA AmongElements ==
    ASSUME NEW A, NEW s \in Seq(A), NEW S
    PROVE  ToSet(Among(s, S)) = ToSet(s) \cap S
<1> DEFINE Good == {t \in Seq(A) : ToSet(Among(t, S)) = ToSet(t) \cap S}
<1>1. <<>> \in Good
  <2>1. ToSet(<<>>) = {}
    BY DEF ToSet
  <2> QED BY <2>1, AmongEmpty, EmptySeq
<1>2. ASSUME NEW t \in Seq(A), NEW x \in A, t \in Good PROVE Append(t, x) \in Good
  <2>1. Among(Append(t, x), S) = Among(t, S) \o One(x, S)
    BY AmongAppend
  <2>2. ToSet(Among(t, S) \o One(x, S)) = ToSet(Among(t, S)) \cup ToSet(One(x, S))
    <3>1. Among(t, S) \in Seq(A) /\ One(x, S) \in Seq(A)
      BY AmongType, OneType
    <3>2. \A u, v \in Seq(A) : ToSet(u \o v) = ToSet(u) \cup ToSet(v)
      BY ConcatElements
    <3> QED BY <3>1, <3>2
  <2>3. ToSet(One(x, S)) = {x} \cap S
    BY DEF One, ToSet
  <2>4. ToSet(Append(t, x)) = ToSet(t) \cup {x} /\ Append(t, x) \in Seq(A)
    BY AppendElements, AppendProperties
  <2>5. ToSet(Among(t, S)) = ToSet(t) \cap S
    BY <1>2
  <2> QED BY <2>1, <2>2, <2>3, <2>4, <2>5
<1>3. Seq(A) \subseteq Good
  <2> HIDE DEF Good
  <2> QED BY <1>1, <1>2, EverySequence
<1> QED BY <1>3

-----------------------------------------------------------------------------
(* Lists, whatever their elements *)

\* Lists are sequences.
LEMMA ListFacts ==
    ASSUME NEW s, IsList(s)
    PROVE  /\ Len(s) \in Nat /\ DOMAIN s = 1 .. Len(s)
           /\ s = [i \in 1 .. Len(s) |-> s[i]]
           /\ \A i \in 1 .. Len(s) : s[i] \in ToSet(s)
           /\ \A x \in ToSet(s) : \E i \in 1 .. Len(s) : x = s[i]
<1>1. s \in Seq(ToSet(s))
  BY DEF IsList
<1>2. Len(s) \in Nat /\ DOMAIN s = 1 .. Len(s) /\ s \in [1 .. Len(s) -> ToSet(s)]
  BY <1>1, LenProperties
<1> QED BY <1>2 DEF ToSet

\* A function of the numbers up to n is a list.
LEMMA FunctionIsList ==
    ASSUME NEW n \in Nat, NEW s, s = [i \in 1 .. n |-> s[i]]
    PROVE  IsList(s) /\ Len(s) = n /\ DOMAIN s = 1 .. n
<1>1. DOMAIN s = 1 .. n
  OBVIOUS
<1>2. s \in [1 .. n -> ToSet(s)]
  BY <1>1 DEF ToSet
<1> QED BY <1>1, <1>2 DEF IsList

\* A sequence is a list.
LEMMA SequenceIsList ==
    ASSUME NEW A, NEW s \in Seq(A)
    PROVE  IsList(s) /\ ToSet(s) \subseteq A
<1>1. Len(s) \in Nat /\ s \in [1 .. Len(s) -> A]
  BY LenProperties
<1>2. IsList(s)
  BY <1>1, FunctionIsList
<1> QED BY <1>1, <1>2 DEF ToSet

\* A list is a sequence of whatever it is a list of.
LEMMA ListIsSequence ==
    ASSUME NEW A, NEW s, IsList(s), \A i \in 1 .. Len(s) : s[i] \in A
    PROVE  s \in Seq(A)
<1>1. Len(s) \in Nat /\ s \in [1 .. Len(s) -> A]
  BY ListFacts
<1> QED BY <1>1

\* The empty list.
LEMMA EmptyIsList == IsList(<<>>) /\ ToSet(<<>>) = {} /\ Len(<<>>) = 0
BY EmptySeq DEF IsList, ToSet

\* A list of one element.
LEMMA SingleIsList == ASSUME NEW x PROVE IsList(<<x>>) /\ Len(<<x>>) = 1 /\ <<x>>[1] = x
<1>1. <<x>> \in Seq({x})
  OBVIOUS
<1> QED BY <1>1, SequenceIsList

\* Lists may be concatenated.
LEMMA ConcatIsList ==
    ASSUME NEW s, NEW t, IsList(s), IsList(t)
    PROVE  /\ IsList(s \o t) /\ Len(s \o t) = Len(s) + Len(t)
           /\ \A i \in 1 .. Len(s) : i \in 1 .. Len(s \o t) /\ (s \o t)[i] = s[i]
           /\ \A i \in 1 .. Len(t) : Len(s) + i \in 1 .. Len(s \o t) /\ (s \o t)[Len(s) + i] = t[i]
           /\ \A i \in 1 .. Len(s \o t) :
                i \in 1 .. Len(s) \/ (i - Len(s) \in 1 .. Len(t) /\ i = Len(s) + (i - Len(s)))
           /\ <<>> \o s = s /\ s \o <<>> = s
<1> DEFINE A == ToSet(s) \cup ToSet(t)
<1>1. s \in Seq(A) /\ t \in Seq(A) /\ Len(s) \in Nat /\ Len(t) \in Nat
  BY ListFacts, ListIsSequence
<1> HIDE DEF A
<1>2. /\ s \o t \in Seq(A) /\ Len(s \o t) = Len(s) + Len(t)
      /\ \A i \in 1 .. Len(s) + Len(t) : (s \o t)[i] = IF i <= Len(s) THEN s[i] ELSE t[i - Len(s)]
  BY <1>1, ConcatProperties
<1>3. ASSUME NEW i \in 1 .. Len(t)
      PROVE  Len(s) + i \in 1 .. Len(s) + Len(t) /\ (s \o t)[Len(s) + i] = t[i]
  <2>1. Len(s) + i \in 1 .. Len(s) + Len(t) /\ ~(Len(s) + i <= Len(s)) /\ (Len(s) + i) - Len(s) = i
    BY <1>1
  <2> QED BY <1>2, <2>1
<1>4. \A i \in 1 .. Len(s) : i \in 1 .. Len(s) + Len(t) /\ i <= Len(s)
  BY <1>1
<1>5. <<>> \o s = s /\ s \o <<>> = s
  BY <1>1, ConcatEmptySeq
<1>6. \A i \in 1 .. Len(s) + Len(t) :
         i \in 1 .. Len(s) \/ (i - Len(s) \in 1 .. Len(t) /\ i = Len(s) + (i - Len(s)))
  BY <1>1
<1> QED BY <1>2, <1>3, <1>4, <1>5, <1>6, SequenceIsList

\* One element more.
LEMMA AppendIsList ==
    ASSUME NEW s, NEW x, IsList(s)
    PROVE  /\ IsList(Append(s, x)) /\ Len(Append(s, x)) = Len(s) + 1
           /\ Append(s, x)[Len(s) + 1] = x
           /\ \A i \in 1 .. Len(s) : Append(s, x)[i] = s[i]
<1> DEFINE A == ToSet(s) \cup {x}
<1>1. s \in Seq(A) /\ x \in A
  BY ListFacts, ListIsSequence
<1> HIDE DEF A
<1>2. /\ Append(s, x) \in Seq(A) /\ Len(Append(s, x)) = Len(s) + 1
      /\ Append(s, x)[Len(s) + 1] = x
      /\ \A i \in 1 .. Len(s) : Append(s, x)[i] = s[i]
  BY <1>1, AppendProperties
<1>3. IsList(Append(s, x))
  BY <1>2, SequenceIsList
<1> QED BY <1>2, <1>3

\* What is selected of a list is one.
LEMMA AmongIsList ==
    ASSUME NEW s, NEW S, IsList(s)
    PROVE  IsList(Among(s, S)) /\ ToSet(Among(s, S)) = ToSet(s) \cap S
<1>1. s \in Seq(ToSet(s))
  BY DEF IsList
<1> QED BY <1>1, AmongType, AmongElements, SequenceIsList

\* Lists of lists are sequences of sequences, and may be flattened.
LEMMA FlattenIsList ==
    ASSUME NEW s, IsList(s), \A i \in 1 .. Len(s) : IsList(s[i])
    PROVE  IsList(FlattenSeq(s))
<1> DEFINE A == UNION {ToSet(s[i]) : i \in 1 .. Len(s)}
<1>1. \A i \in 1 .. Len(s) : s[i] \in Seq(A)
  <2> SUFFICES ASSUME NEW i \in 1 .. Len(s) PROVE s[i] \in Seq(A)
    OBVIOUS
  <2>1. \A n \in 1 .. Len(s[i]) : s[i][n] \in A
    BY ListFacts
  <2> HIDE DEF A
  <2> QED BY <2>1, ListIsSequence
<1> HIDE DEF A
<1>2. s \in Seq(Seq(A))
  BY <1>1, ListIsSequence
<1>3. FlattenSeq(s) \in Seq(A)
  BY <1>2, FlattenType
<1> QED BY <1>3, SequenceIsList

\* The numbers in a finite set make a list.
LEMMA SortedIsList ==
    ASSUME NEW S, IsFiniteSet(S)
    PROVE  IsList(Sorted(S))
<1>1. Cardinality(S) \in Nat
  BY FS_CardinalityType
<1> DEFINE n == Cardinality(S)
           s == Sorted(S)
<1>2. s = [i \in 1 .. n |-> CHOOSE x \in S : Cardinality({m \in S : m < x}) = i - 1]
  BY DEF Sorted
<1>3. DOMAIN s = 1 .. n
  BY <1>2, Zenon
<1>4. s \in [1 .. n -> ToSet(s)]
  <2>1. s = [i \in 1 .. n |-> s[i]]
    BY <1>2, <1>3, Zenon
  <2>2. \A i \in 1 .. n : s[i] \in ToSet(s)
    BY <1>3, Zenon DEF ToSet
  <2> HIDE DEF s, n
  <2> QED BY <2>1, <2>2
<1>5. s \in Seq(ToSet(s))
  <2> HIDE DEF s
  <2> QED BY <1>1, <1>4
<1> QED BY <1>5 DEF IsList

-----------------------------------------------------------------------------
(* Producers *)

\* The members of a producer
Fields ==
    {"time", "spaces", "bindings", "collections", "prim_arcs", "prototype_arcs", "rows",
     "fetch_values"}

\* A producer of a function is in order: its caches hold what the file says, it
\* has no others, and its rows point to lists it has
Sound(fn, pr, f, o) ==
    /\ pr = [x \in Fields |-> pr[x]]
    /\ IsList(pr.rows) /\ IsList(pr.prim_arcs)
    /\ \A key \in DOMAIN pr.spaces : key[1] = f /\ pr.spaces[key] = At(f, key[2], pr.time)
    /\ \A r \in DOMAIN pr.bindings : pr.bindings[r] = Prim(f, r).bindings
    /\ \A x \in DOMAIN pr.collections :
         x \in DOMAIN Stages[f].collections /\ pr.collections[x] = Stages[f].collections[x]
    /\ \A i \in DOMAIN pr.prototype_arcs : pr.prototype_arcs[i] = ComputeArcs(f, o, i)
    /\ fn \notin {"usd_xforms", "usd_bounds"} => pr.spaces = <<>>
    /\ fn # "usd_material_bindings" => pr.bindings = <<>> /\ pr.collections = <<>>
    /\ fn # "usd_composition_arcs" => pr.prim_arcs = <<>> /\ pr.prototype_arcs = <<>>
    /\ fn = "usd_composition_arcs" =>
         \A n \in DOMAIN pr.rows :
           \/ pr.rows[n].arc[1] = "prim" /\ pr.rows[n].arc[2] \in DOMAIN pr.prim_arcs
           \/ pr.rows[n].arc[1] # "prim" /\ pr.rows[n].arc[2] \in DOMAIN pr.prototype_arcs

\* The list of arcs that a prim inside an instance shares with others
ListOf(f, o, q) == IF "proxy" \in Prim(f, q).flags THEN {IndexPath(f, o, q)} ELSE {}

\* What adding the prim q does to a producer: it stays in order, the rows it had
\* are written as before, and its caches grow by what belongs to the prim
Adds(fn, pr, added, f, q, o) ==
    /\ Sound(fn, added, f, o)
    /\ added.time = pr.time /\ added.fetch_values = pr.fetch_values
    /\ DOMAIN added.bindings \subseteq DOMAIN pr.bindings \cup Prefixes(q)
    /\ DOMAIN added.prototype_arcs \subseteq DOMAIN pr.prototype_arcs \cup ListOf(f, o, q)
    /\ Len(added.prim_arcs) <= Len(pr.prim_arcs) + 1
    /\ \A n \in DOMAIN pr.rows : \A c :
         Write(fn, added, f, pr.rows[n], c, o) = Write(fn, pr, f, pr.rows[n], c, o)

\* Two producers add rows that are written alike, in the columns C
AlikeBy(fn, pr, a, fr, b, f, o, C, new, old) ==
    /\ IsList(new) /\ IsList(old) /\ Len(new) = Len(old)
    /\ a.rows = pr.rows \o new /\ b.rows = fr.rows \o old
    /\ \A n \in 1 .. Len(new) : \A c \in C :
         Write(fn, a, f, new[n], c, o) = Write(fn, b, f, old[n], c, o)
Alike(fn, pr, a, fr, b, f, o, C) == \E new, old : AlikeBy(fn, pr, a, fr, b, f, o, C, new, old)

\* Buffering rows changes nothing else.
LEMMA BufferedFacts ==
    ASSUME NEW pr, pr = [x \in Fields |-> pr[x]], NEW new
    PROVE  /\ Buffered(pr, new) = [x \in Fields |-> Buffered(pr, new)[x]]
           /\ Buffered(pr, new).rows = pr.rows \o new
           /\ \A x \in Fields \ {"rows"} : Buffered(pr, new)[x] = pr[x]
<1>1. "rows" \in Fields /\ DOMAIN pr = Fields
  BY DEF Fields
<1> QED BY <1>1 DEF Buffered

\* Only arcs are written from the lists of the producer.
LEMMA WriteAlike ==
    ASSUME NEW fn \in PrimFunctions, fn # "usd_composition_arcs",
           NEW x, NEW y, NEW f, NEW row, NEW c, NEW o
    PROVE  Write(fn, x, f, row, c, o) = Write(fn, y, f, row, c, o)
BY DEF Write, XformsWrite, LocalMatrix, PrimFunctions

\* A function without caches only buffers rows.
LEMMA PlainAdds ==
    ASSUME NEW fn \in PrimFunctions \ {"usd_xforms", "usd_bounds", "usd_material_bindings",
                                       "usd_composition_arcs"},
           NEW pr, NEW f, NEW q, NEW o, Sound(fn, pr, f, o), NEW new, IsList(new)
    PROVE  Adds(fn, pr, Buffered(pr, new), f, q, o)
<1> DEFINE added == Buffered(pr, new)
<1>1. pr = [x \in Fields |-> pr[x]] /\ IsList(pr.rows) /\ IsList(pr.prim_arcs)
  BY DEF Sound
<1>2. /\ added = [x \in Fields |-> added[x]] /\ added.rows = pr.rows \o new
      /\ \A x \in Fields \ {"rows"} : added[x] = pr[x]
  BY <1>1, BufferedFacts
<1>3. /\ added.time = pr.time /\ added.fetch_values = pr.fetch_values
      /\ added.spaces = pr.spaces /\ added.bindings = pr.bindings
      /\ added.collections = pr.collections /\ added.prim_arcs = pr.prim_arcs
      /\ added.prototype_arcs = pr.prototype_arcs
  BY <1>2 DEF Fields
<1> HIDE DEF added
<1>4. IsList(added.rows)
  <2>1. IsList(pr.rows \o new)
    BY <1>1, ConcatIsList
  <2> QED BY <1>2, <2>1
<1>5. Sound(fn, added, f, o)
  BY <1>1, <1>2, <1>3, <1>4 DEF Sound
<1>6. Len(added.prim_arcs) <= Len(pr.prim_arcs) + 1
  BY <1>1, <1>3, ListFacts
<1>7. \A row, c : Write(fn, added, f, row, c, o) = Write(fn, pr, f, row, c, o)
  BY WriteAlike
<1> QED BY <1>3, <1>5, <1>6, <1>7 DEF Adds, added

\* Rows that are the same are written alike.
LEMMA PlainAlike ==
    ASSUME NEW fn \in PrimFunctions, fn # "usd_composition_arcs",
           NEW pr, NEW a, NEW fr, NEW b, NEW f, NEW o, NEW C, NEW new, IsList(new),
           a.rows = pr.rows \o new, b.rows = fr.rows \o new
    PROVE  Alike(fn, pr, a, fr, b, f, o, C)
<1>1. \A n \in 1 .. Len(new) : \A c \in C :
         Write(fn, a, f, new[n], c, o) = Write(fn, b, f, new[n], c, o)
  BY WriteAlike
<1> QED BY <1>1 DEF Alike, AlikeBy

\* Adding a prim keeps a producer in order, and adds to it the rows that it adds to another
AddOK(fn, pr, fr, f, q, o, C) ==
    /\ Adds(fn, pr, AddPrim(fn, pr, f, q, o), f, q, o)
    /\ Alike(fn, pr, AddPrim(fn, pr, f, q, o), fr, AddPrim(fn, fr, f, q, o), f, o, C)

\* Two producers that can be compared in the columns C
Comparable(fn, pr, fr, f, o, C) ==
    /\ Sound(fn, pr, f, o) /\ Sound(fn, fr, f, o)
    /\ pr.time = fr.time
    /\ pr.fetch_values = fr.fetch_values \/ {"value", "array_length"} \cap C = {}

\* The functions whose producers only buffer rows
PlainFunctions ==
    PrimFunctions \ {"usd_xforms", "usd_bounds", "usd_material_bindings", "usd_composition_arcs"}

\* Producers that buffer the same rows add the same.
LEMMA PlainBoth ==
    ASSUME NEW fn \in PlainFunctions, NEW pr, NEW fr, NEW f, NEW q, NEW o, NEW C,
           Comparable(fn, pr, fr, f, o, C), NEW new, IsList(new),
           AddPrim(fn, pr, f, q, o) = Buffered(pr, new), AddPrim(fn, fr, f, q, o) = Buffered(fr, new)
    PROVE  AddOK(fn, pr, fr, f, q, o, C)
<1>1. fn \in PrimFunctions /\ fn # "usd_composition_arcs"
  BY DEF PlainFunctions
<1>2. Adds(fn, pr, Buffered(pr, new), f, q, o)
  BY PlainAdds DEF PlainFunctions, Comparable
<1>3. pr = [x \in Fields |-> pr[x]] /\ fr = [x \in Fields |-> fr[x]]
  BY DEF Comparable, Sound
<1>4. Buffered(pr, new).rows = pr.rows \o new /\ Buffered(fr, new).rows = fr.rows \o new
  BY <1>3, BufferedFacts
<1>5. Alike(fn, pr, Buffered(pr, new), fr, Buffered(fr, new), f, o, C)
  BY <1>1, <1>4, PlainAlike
<1> QED BY <1>2, <1>5 DEF AddOK

\* What a stage has of a prim are lists.
LEMMA PrimFacts ==
    ASSUME NEW f \in DOMAIN Stages, NEW q \in Paths(f)
    PROVE  /\ IsList(q) /\ IsList(Prim(f, q).arcs) /\ IsList(Prim(f, q).variant_sets)
           /\ IsList(Prim(f, q).properties)
           /\ \A x \in ToSet(Prim(f, q).properties) : IsFiniteSet(x.samples)
           /\ IsList(Prim(f, q).relationships)
           /\ \A r \in ToSet(Prim(f, q).relationships) :
                IsList(r.targets) /\ \A t \in ToSet(r.targets) : IsList(t.forwarded)
BY StagesAssumption

\* A prim is a row (UsdPrimsProducer).
LEMMA PrimsAdd ==
    ASSUME NEW pr, NEW fr, NEW f \in DOMAIN Stages, NEW q \in Paths(f), NEW o, NEW C,
           Comparable("usd_prims", pr, fr, f, o, C)
    PROVE  AddOK("usd_prims", pr, fr, f, q, o, C)
<1> DEFINE fn == "usd_prims"
           new == <<[prim |-> q]>>
<1>1. AddPrim(fn, pr, f, q, o) = Buffered(pr, new) /\ AddPrim(fn, fr, f, q, o) = Buffered(fr, new)
  BY DEF AddPrim, PrimsAddPrim
<1>2. fn \in PlainFunctions
  BY DEF PlainFunctions, PrimFunctions
<1>3. IsList(new)
  BY SingleIsList
<1> HIDE DEF new
<1> QED BY <1>1, <1>2, <1>3, PlainBoth

\* The variants of a prim are rows (UsdVariantsProducer).
LEMMA VariantsAdd ==
    ASSUME NEW pr, NEW fr, NEW f \in DOMAIN Stages, NEW q \in Paths(f), NEW o, NEW C,
           Comparable("usd_variants", pr, fr, f, o, C)
    PROVE  AddOK("usd_variants", pr, fr, f, q, o, C)
<1> DEFINE fn == "usd_variants"
           sets == Prim(f, q).variant_sets
           new == [i \in DOMAIN sets |-> [prim |-> q, variant_set |-> sets[i]]]
<1>1. AddPrim(fn, pr, f, q, o) = Buffered(pr, new) /\ AddPrim(fn, fr, f, q, o) = Buffered(fr, new)
  BY DEF AddPrim, VariantsAddPrim
<1>2. fn \in PlainFunctions
  BY DEF PlainFunctions, PrimFunctions
<1>3. IsList(new)
  <2>1. Len(sets) \in Nat /\ DOMAIN sets = 1 .. Len(sets)
    BY PrimFacts, ListFacts
  <2> HIDE DEF sets
  <2>2. new = [i \in 1 .. Len(sets) |-> new[i]]
    BY <2>1
  <2> HIDE DEF new
  <2> QED BY <2>1, <2>2, FunctionIsList
<1> HIDE DEF new
<1> QED BY <1>1, <1>2, <1>3, PlainBoth

\* The targets of a prim are rows (UsdRelationshipsProducer).
LEMMA RelationshipsAdd ==
    ASSUME NEW pr, NEW fr, NEW f \in DOMAIN Stages, NEW q \in Paths(f), NEW o, NEW C,
           Comparable("usd_relationships", pr, fr, f, o, C)
    PROVE  AddOK("usd_relationships", pr, fr, f, q, o, C)
<1> DEFINE fn == "usd_relationships"
           all == Prim(f, q).relationships
           forwarded(r) == [i \in DOMAIN r.targets |->
                               IF r.targets[i].prim \in Composed(f, o)
                               THEN r.targets[i].forwarded ELSE <<r.targets[i].prim>>]
           targets(r) == IF o.forwarded
                         THEN FlattenSeq(forwarded(r))
                         ELSE [i \in DOMAIN r.targets |-> r.targets[i].prim]
           rows(r) == [i \in DOMAIN targets(r) |->
                         [prim |-> q, relationship_name |-> r.name,
                          target_path |-> targets(r)[i], target_index |-> i - 1]]
           lists == [i \in DOMAIN all |-> rows(all[i])]
           new == FlattenSeq(lists)
<1>1. AddPrim(fn, pr, f, q, o) = Buffered(pr, new) /\ AddPrim(fn, fr, f, q, o) = Buffered(fr, new)
  BY DEF AddPrim, RelationshipsAddPrim
<1>2. fn \in PlainFunctions
  BY DEF PlainFunctions, PrimFunctions
<1>3. /\ IsList(all)
      /\ \A r \in ToSet(all) : IsList(r.targets) /\ \A t \in ToSet(r.targets) : IsList(t.forwarded)
  BY PrimFacts
<1>4. Len(all) \in Nat /\ DOMAIN all = 1 .. Len(all) /\ \A i \in 1 .. Len(all) : all[i] \in ToSet(all)
  BY <1>3, ListFacts
<1> HIDE DEF all
<1>5. ASSUME NEW r \in ToSet(all) PROVE IsList(rows(r))
  <2>1. /\ IsList(r.targets) /\ \A t \in ToSet(r.targets) : IsList(t.forwarded)
    BY <1>3
  <2>2. /\ Len(r.targets) \in Nat /\ DOMAIN r.targets = 1 .. Len(r.targets)
        /\ \A i \in 1 .. Len(r.targets) : r.targets[i] \in ToSet(r.targets)
    BY <2>1, ListFacts
  <2>3. IsList(FlattenSeq(forwarded(r)))
    <3> DEFINE g == forwarded(r)
               n == Len(r.targets)
    <3>1. g = [i \in 1 .. n |-> g[i]] /\ n \in Nat
      BY <2>2
    <3>2. \A i \in 1 .. n : IsList(g[i])
      <4> SUFFICES ASSUME NEW i \in 1 .. n PROVE IsList(g[i])
        OBVIOUS
      <4>1. IsList(r.targets[i].forwarded)
        BY <2>1, <2>2
      <4>2. IsList(<<r.targets[i].prim>>)
        BY SingleIsList
      <4>3. g[i] = r.targets[i].forwarded \/ g[i] = <<r.targets[i].prim>>
        BY <2>2
      <4> HIDE DEF g
      <4> QED BY <4>1, <4>2, <4>3
    <3> HIDE DEF g, n
    <3>3. IsList(g) /\ Len(g) = n
      BY <3>1, FunctionIsList
    <3>4. IsList(FlattenSeq(g))
      BY <3>2, <3>3, FlattenIsList
    <3> QED BY <3>4 DEF g
  <2>4. IsList(targets(r))
    <3> DEFINE g == [i \in DOMAIN r.targets |-> r.targets[i].prim]
               n == Len(r.targets)
    <3>1. g = [i \in 1 .. n |-> g[i]] /\ n \in Nat
      BY <2>2
    <3>2. IsList(g)
      <4> HIDE DEF g, n
      <4> QED BY <3>1, FunctionIsList
    <3> HIDE DEF forwarded
    <3> QED BY <2>3, <3>2
  <2> DEFINE t == targets(r)
             g == rows(r)
             n == Len(t)
  <2> HIDE DEF forwarded
  <2>5. n \in Nat /\ DOMAIN t = 1 .. n
    <3>1. IsList(t)
      BY <2>4
    <3> HIDE DEF t
    <3> QED BY <3>1, ListFacts
  <2>6. g = [i \in DOMAIN t |-> [prim |-> q, relationship_name |-> r.name,
                                 target_path |-> t[i], target_index |-> i - 1]]
    OBVIOUS
  <2> HIDE DEF g, t, targets, rows, n
  <2>7. g = [i \in 1 .. n |-> g[i]]
    BY <2>5, <2>6
  <2>8. IsList(g)
    BY <2>5, <2>7, FunctionIsList
  <2> QED BY <2>8 DEF g
<1> HIDE DEF targets, rows, forwarded
<1>6. lists = [i \in 1 .. Len(all) |-> lists[i]] /\ \A i \in 1 .. Len(all) : IsList(lists[i])
  BY <1>4, <1>5
<1> HIDE DEF lists
<1>7. IsList(lists) /\ Len(lists) = Len(all)
  BY <1>4, <1>6, FunctionIsList
<1>8. IsList(new)
  BY <1>6, <1>7, FlattenIsList
<1> HIDE DEF new
<1> QED BY <1>1, <1>2, <1>8, PlainBoth

\* g of each element of a list, and of each element of each list of a list
Each(g, s) == [n \in DOMAIN s |-> g[s[n]]]
EachOfEach(g, s) == [i \in DOMAIN s |-> Each(g, s[i])]

\* What Each makes of a list.
LEMMA EachFacts ==
    ASSUME NEW g, NEW s, IsList(s)
    PROVE  /\ IsList(Each(g, s)) /\ Len(Each(g, s)) = Len(s)
           /\ \A n \in 1 .. Len(s) : Each(g, s)[n] = g[s[n]]
<1> DEFINE t == Each(g, s)
<1>1. Len(s) \in Nat /\ DOMAIN s = 1 .. Len(s)
  BY ListFacts
<1>2. t = [n \in 1 .. Len(s) |-> t[n]] /\ \A n \in 1 .. Len(s) : t[n] = g[s[n]]
  BY <1>1 DEF Each
<1> HIDE DEF t
<1>3. IsList(t) /\ Len(t) = Len(s)
  BY <1>1, <1>2, FunctionIsList
<1> QED BY <1>2, <1>3 DEF t

\* It has the values of g.
LEMMA EachType ==
    ASSUME NEW A, NEW B, NEW g, \A x \in A : g[x] \in B, NEW s \in Seq(A)
    PROVE  Each(g, s) \in Seq(B)
<1> DEFINE t == Each(g, s)
<1>1. IsList(s) /\ \A n \in 1 .. Len(s) : s[n] \in A
  BY SequenceIsList, ElementOfSeq
<1>2. IsList(t) /\ Len(t) = Len(s) /\ \A n \in 1 .. Len(s) : t[n] = g[s[n]]
  BY <1>1, EachFacts
<1>3. \A n \in 1 .. Len(t) : t[n] \in B
  BY <1>1, <1>2
<1> HIDE DEF t
<1>4. t \in Seq(B)
  BY <1>2, <1>3, ListIsSequence
<1> QED BY <1>4 DEF t

\* Lists that are equal element by element are equal.
LEMMA ListsEqual ==
    ASSUME NEW s, NEW t, IsList(s), IsList(t), Len(s) = Len(t),
           \A i \in 1 .. Len(s) : s[i] = t[i]
    PROVE  s = t
BY ListFacts

\* It makes of two lists joined what it makes of each.
LEMMA EachConcat ==
    ASSUME NEW g, NEW s, NEW t, IsList(s), IsList(t)
    PROVE  Each(g, s \o t) = Each(g, s) \o Each(g, t)
<1> DEFINE a == Each(g, s)
           b == Each(g, t)
           u == s \o t
           c == Each(g, u)
           d == a \o b
<1>1. IsList(u) /\ Len(u) = Len(s) + Len(t) /\ Len(s) \in Nat /\ Len(t) \in Nat
  BY ConcatIsList, ListFacts
<1>2. /\ \A i \in 1 .. Len(s) : u[i] = s[i]
      /\ \A i \in 1 .. Len(t) : u[Len(s) + i] = t[i]
  BY ConcatIsList
<1> HIDE DEF u
<1>3. /\ IsList(a) /\ Len(a) = Len(s) /\ \A n \in 1 .. Len(s) : a[n] = g[s[n]]
      /\ IsList(b) /\ Len(b) = Len(t) /\ \A n \in 1 .. Len(t) : b[n] = g[t[n]]
      /\ IsList(c) /\ Len(c) = Len(u) /\ \A n \in 1 .. Len(u) : c[n] = g[u[n]]
  BY <1>1, EachFacts
<1> HIDE DEF a, b, c
<1>4. IsList(d) /\ Len(d) = Len(s) + Len(t)
  BY <1>3, ConcatIsList
<1>5. /\ \A i \in 1 .. Len(s) : d[i] = a[i]
      /\ \A i \in 1 .. Len(t) : d[Len(s) + i] = b[i]
  BY <1>3, ConcatIsList
<1> HIDE DEF d
<1>6. ASSUME NEW i \in 1 .. Len(u) PROVE c[i] = d[i]
  <2>1. i \in 1 .. Len(s) \/ (i - Len(s) \in 1 .. Len(t) /\ i = Len(s) + (i - Len(s)))
    BY <1>1
  <2>2. CASE i \in 1 .. Len(s)
    BY <1>2, <1>3, <1>5, <2>2
  <2>3. CASE i - Len(s) \in 1 .. Len(t) /\ i = Len(s) + (i - Len(s))
    <3>1. PICK k \in 1 .. Len(t) : i = Len(s) + k
      BY <2>3
    <3> QED BY <1>2, <1>3, <1>5, <3>1
  <2> QED BY <2>1, <2>2, <2>3
<1>7. c = d
  BY <1>1, <1>3, <1>4, <1>6, ListsEqual
<1> QED BY <1>7 DEF a, b, c, d, u

\* It is the same to flatten lists before or after.
LEMMA EachFlattened ==
    ASSUME NEW A, NEW B, NEW g, \A x \in A : g[x] \in B, NEW s \in Seq(Seq(A))
    PROVE  FlattenSeq(EachOfEach(g, s)) = Each(g, FlattenSeq(s))
<1> DEFINE Good == {u \in Seq(Seq(A)) : FlattenSeq(EachOfEach(g, u)) = Each(g, FlattenSeq(u))}
<1>1. <<>> \in Good
  <2>1. EachOfEach(g, <<>>) = <<>> /\ Each(g, <<>>) = <<>>
    BY DEF EachOfEach, Each
  <2> QED BY <2>1, FlattenEmpty, EmptySeq
<1>2. ASSUME NEW u \in Seq(Seq(A)), NEW x \in Seq(A), u \in Good PROVE Append(u, x) \in Good
  <2> DEFINE v == Append(u, x)
             e == EachOfEach(g, u)
             y == Each(g, x)
  <2>1. /\ v \in Seq(Seq(A)) /\ Len(v) = Len(u) + 1 /\ v[Len(u) + 1] = x
        /\ \A i \in 1 .. Len(u) : v[i] = u[i]
    BY AppendProperties
  <2>2. /\ Len(u) \in Nat /\ DOMAIN u = 1 .. Len(u) /\ DOMAIN v = 1 .. Len(v)
        /\ \A i \in 1 .. Len(u) : u[i] \in Seq(A)
    BY <2>1, LenProperties, ElementOfSeq
  <2>3. \A z \in Seq(A) : Each(g, z) \in Seq(B)
    BY EachType
  <2>4. e \in [1 .. Len(u) -> Seq(B)] /\ \A i \in 1 .. Len(u) : e[i] = Each(g, u[i])
    BY <2>2, <2>3 DEF EachOfEach
  <2> HIDE DEF e, v
  <2>5. e \in Seq(Seq(B)) /\ Len(e) = Len(u) /\ y \in Seq(B)
    <3>1. y \in Seq(B)
      BY <2>3
    <3> DEFINE C == Seq(B)
    <3>2. e \in [1 .. Len(u) -> C]
      BY <2>4
    <3> HIDE DEF C
    <3>3. e \in Seq(C) /\ Len(e) = Len(u)
      <4>1. e = [i \in 1 .. Len(u) |-> e[i]] /\ \A i \in 1 .. Len(u) : e[i] \in C
        BY <3>2
      <4>2. IsList(e) /\ Len(e) = Len(u)
        BY <2>2, <4>1, FunctionIsList
      <4> QED BY <4>1, <4>2, ListIsSequence
    <3> QED BY <3>1, <3>3 DEF C
  <2> HIDE DEF y
  <2>6. EachOfEach(g, v) = Append(e, y)
    <3> DEFINE d == EachOfEach(g, v)
               a == Append(e, y)
    <3>1. d = [i \in 1 .. Len(u) + 1 |-> Each(g, v[i])]
      BY <2>1, <2>2 DEF EachOfEach
    <3>2. /\ IsList(a) /\ Len(a) = Len(u) + 1 /\ a[Len(u) + 1] = y
          /\ \A i \in 1 .. Len(u) : a[i] = e[i]
      <4>1. IsList(e) /\ Len(e) = Len(u)
        <5> DEFINE C == Seq(B)
        <5>1. e \in Seq(C)
          BY <2>5
        <5> HIDE DEF C
        <5> QED BY <2>5, <5>1, SequenceIsList
      <4> QED BY <4>1, AppendIsList
    <3>3. a = [i \in 1 .. Len(u) + 1 |-> a[i]]
      <4> HIDE DEF a
      <4> QED BY <3>2, ListFacts
    <3>4. \A i \in 1 .. Len(u) + 1 : a[i] = Each(g, v[i])
      <4>1. \A i \in 1 .. Len(u) + 1 : i \in 1 .. Len(u) \/ i = Len(u) + 1
        BY <2>2
      <4> HIDE DEF a, d
      <4> QED BY <2>1, <2>4, <3>2, <4>1 DEF y
    <3> HIDE DEF a, d
    <3>5. a = d
      BY <3>1, <3>3, <3>4
    <3> QED BY <3>5 DEF a, d
  <2>7. FlattenSeq(e) \in Seq(B) /\ FlattenSeq(u) \in Seq(A)
    BY <2>5, FlattenType
  <2>8. FlattenSeq(Append(e, y)) = FlattenSeq(e) \o y
    BY <2>5, <2>7, FlattenAppend
  <2>9. FlattenSeq(v) = FlattenSeq(u) \o x
    BY <2>7, FlattenAppend DEF v
  <2>10. FlattenSeq(e) = Each(g, FlattenSeq(u))
    BY <1>2 DEF e
  <2>11. Each(g, FlattenSeq(u) \o x) = Each(g, FlattenSeq(u)) \o Each(g, x)
    <3> DEFINE w == FlattenSeq(u)
    <3>1. IsList(w) /\ IsList(x)
      BY <2>7, SequenceIsList
    <3> HIDE DEF w
    <3>2. Each(g, w \o x) = Each(g, w) \o Each(g, x)
      BY <3>1, EachConcat
    <3> QED BY <3>2 DEF w
  <2> QED BY <2>1, <2>6, <2>8, <2>9, <2>10, <2>11 DEF v, y
<1>3. Seq(Seq(A)) \subseteq Good
  <2> HIDE DEF Good
  <2> QED BY <1>1, <1>2, EverySequence
<1> QED BY <1>3

\* Rows of properties are written alike but for their values.
LEMMA ValuesAside ==
    ASSUME NEW fn \in {"usd_properties", "usd_time_samples"}, NEW x, NEW y,
           x.prim = y.prim, x.property_name = y.property_name,
           fn = "usd_time_samples" => x.time = y.time,
           NEW c, c \notin {"value", "array_length"}, NEW a, NEW b, NEW f, NEW o
    PROVE  Write(fn, a, f, x, c, o) = Write(fn, b, f, y, c, o)
BY DEF Write, PropertiesWrite, TimeSamplesWrite

\* So a producer that does not fetch values adds rows like those of one that does.
LEMMA ValueBoth ==
    ASSUME NEW fn \in {"usd_properties", "usd_time_samples"}, NEW pr, NEW fr, NEW f, NEW q, NEW o,
           NEW C, Comparable(fn, pr, fr, f, o, C), NEW new, NEW old, IsList(new), IsList(old),
           AddPrim(fn, pr, f, q, o) = Buffered(pr, new), AddPrim(fn, fr, f, q, o) = Buffered(fr, old),
           pr.fetch_values = fr.fetch_values => new = old,
           Len(new) = Len(old),
           \A n \in 1 .. Len(new) :
             /\ new[n].prim = old[n].prim /\ new[n].property_name = old[n].property_name
             /\ fn = "usd_time_samples" => new[n].time = old[n].time
    PROVE  AddOK(fn, pr, fr, f, q, o, C)
<1>1. fn \in PlainFunctions /\ fn # "usd_composition_arcs"
  BY DEF PlainFunctions, PrimFunctions
<1>2. CASE pr.fetch_values = fr.fetch_values
  BY <1>1, <1>2, PlainBoth
<1>3. CASE {"value", "array_length"} \cap C = {}
  <2> DEFINE a == Buffered(pr, new)
             b == Buffered(fr, old)
  <2>1. Adds(fn, pr, a, f, q, o)
    BY <1>1, PlainAdds DEF PlainFunctions, Comparable
  <2>2. pr = [x \in Fields |-> pr[x]] /\ fr = [x \in Fields |-> fr[x]]
    BY DEF Comparable, Sound
  <2>3. a.rows = pr.rows \o new /\ b.rows = fr.rows \o old
    BY <2>2, BufferedFacts
  <2>4. \A n \in 1 .. Len(new) : \A c \in C :
           Write(fn, a, f, new[n], c, o) = Write(fn, b, f, old[n], c, o)
    <3> SUFFICES ASSUME NEW n \in 1 .. Len(new), NEW c \in C
                 PROVE  Write(fn, a, f, new[n], c, o) = Write(fn, b, f, old[n], c, o)
      OBVIOUS
    <3> DEFINE x == new[n]
               y == old[n]
    <3>1. /\ x.prim = y.prim /\ x.property_name = y.property_name
          /\ fn = "usd_time_samples" => x.time = y.time
      OBVIOUS
    <3>2. c \notin {"value", "array_length"}
      BY <1>3
    <3> HIDE DEF x, y, a, b
    <3>3. Write(fn, a, f, x, c, o) = Write(fn, b, f, y, c, o)
      BY <3>1, <3>2, ValuesAside
    <3> QED BY <3>3 DEF x, y
  <2> HIDE DEF a, b
  <2>5. Alike(fn, pr, a, fr, b, f, o, C)
    <3>1. AlikeBy(fn, pr, a, fr, b, f, o, C, new, old)
      BY <2>3, <2>4 DEF AlikeBy
    <3> QED BY <3>1 DEF Alike
  <2> QED BY <2>1, <2>5 DEF AddOK, a, b
<1> QED BY <1>2, <1>3 DEF Comparable

\* The properties of a prim that were asked for are rows (UsdPropertiesProducer).
LEMMA PropertiesAdd ==
    ASSUME NEW pr, NEW fr, NEW f \in DOMAIN Stages, NEW q \in Paths(f), NEW o, NEW C,
           Comparable("usd_properties", pr, fr, f, o, C)
    PROVE  AddOK("usd_properties", pr, fr, f, q, o, C)
<1> DEFINE fn == "usd_properties"
           all == Selection(f, q)
           read == Among(all, {x \in ToSet(all) : o.authored_only => x.authored})
           value(p, x) == IF ~p.fetch_values THEN Null
                          ELSE AttributeValue(x, IF x.attribute THEN p.time ELSE Null)
           rows(p) == [i \in DOMAIN read |->
                         [prim |-> q, property_name |-> read[i].name, value |-> value(p, read[i])]]
           new == rows(pr)
           old == rows(fr)
<1>1. AddPrim(fn, pr, f, q, o) = Buffered(pr, new) /\ AddPrim(fn, fr, f, q, o) = Buffered(fr, old)
  BY DEF AddPrim, PropertiesAddPrim
<1>2. IsList(read)
  <2>1. IsList(Prim(f, q).properties)
    BY PrimFacts
  <2>2. IsList(all)
    BY <2>1, AmongIsList DEF Selection
  <2> HIDE DEF all
  <2> QED BY <2>2, AmongIsList
<1>3. Len(read) \in Nat /\ DOMAIN read = 1 .. Len(read)
  <2> HIDE DEF read
  <2> QED BY <1>2, ListFacts
<1>4. pr.time = fr.time
  BY DEF Comparable
<1>5. pr.fetch_values = fr.fetch_values => new = old
  <2> HIDE DEF read
  <2> QED BY <1>4
<1> HIDE DEF read, value
<1>6. new = [i \in 1 .. Len(read) |-> new[i]] /\ old = [i \in 1 .. Len(read) |-> old[i]]
  BY <1>3
<1>7. \A n \in 1 .. Len(read) : new[n].prim = old[n].prim /\ new[n].property_name = old[n].property_name
  BY <1>3
<1> HIDE DEF new, old
<1>8. IsList(new) /\ IsList(old) /\ Len(new) = Len(read) /\ Len(old) = Len(read)
  BY <1>3, <1>6, FunctionIsList
<1> QED BY <1>1, <1>5, <1>7, <1>8, ValueBoth

\* The samples of its attributes within the range are rows (UsdTimeSamplesProducer).
LEMMA TimeSamplesAdd ==
    ASSUME NEW pr, NEW fr, NEW f \in DOMAIN Stages, NEW q \in Paths(f), NEW o, NEW C,
           Comparable("usd_time_samples", pr, fr, f, o, C)
    PROVE  AddOK("usd_time_samples", pr, fr, f, q, o, C)
<1> DEFINE fn == "usd_time_samples"
           all == Selection(f, q)
           attributes == Among(all, {x \in ToSet(all) : x.attribute})
           times(x) == Sorted({t \in x.samples : o.start_time <= t /\ t <= o.end_time})
           row(p, x, t) == [prim |-> q, property_name |-> x.name, time |-> t,
                            value |-> IF p.fetch_values THEN AttributeValue(x, t) ELSE Null]
           rows(p, x) == [i \in DOMAIN times(x) |-> row(p, x, times(x)[i])]
           lists(p) == [i \in DOMAIN attributes |-> rows(p, attributes[i])]
           samples(x) == [i \in DOMAIN times(x) |-> <<x, times(x)[i]>>]
           keys == [i \in DOMAIN attributes |-> samples(attributes[i])]
           A == UNION {ToSet(samples(attributes[i])) : i \in DOMAIN attributes}
           g(p) == [k \in A |-> row(p, k[1], k[2])]
           new == FlattenSeq(lists(pr))
           old == FlattenSeq(lists(fr))
<1>1. AddPrim(fn, pr, f, q, o) = Buffered(pr, new) /\ AddPrim(fn, fr, f, q, o) = Buffered(fr, old)
  BY DEF AddPrim, TimeSamplesAddPrim
<1>2. /\ IsList(attributes) /\ Len(attributes) \in Nat /\ DOMAIN attributes = 1 .. Len(attributes)
      /\ \A i \in 1 .. Len(attributes) : IsFiniteSet(attributes[i].samples)
  <2>1. /\ IsList(Prim(f, q).properties)
        /\ \A x \in ToSet(Prim(f, q).properties) : IsFiniteSet(x.samples)
    BY PrimFacts
  <2>2. IsList(all) /\ ToSet(all) \subseteq ToSet(Prim(f, q).properties)
    BY <2>1, AmongIsList DEF Selection
  <2> HIDE DEF all
  <2>3. IsList(attributes) /\ ToSet(attributes) \subseteq ToSet(all)
    BY <2>2, AmongIsList
  <2> HIDE DEF attributes
  <2> QED BY <2>1, <2>2, <2>3, ListFacts
<1> HIDE DEF attributes
<1>3. ASSUME NEW i \in 1 .. Len(attributes)
      PROVE  LET x == attributes[i]
             IN  Len(times(x)) \in Nat /\ DOMAIN times(x) = 1 .. Len(times(x))
  <2> DEFINE S == {t \in attributes[i].samples : o.start_time <= t /\ t <= o.end_time}
  <2>1. IsFiniteSet(S)
    BY <1>2, FS_Subset
  <2>2. times(attributes[i]) = Sorted(S)
    OBVIOUS
  <2> HIDE DEF S, times
  <2>3. IsList(Sorted(S))
    BY <2>1, SortedIsList
  <2> QED BY <2>2, <2>3, ListFacts
<1> HIDE DEF times
<1>4. ASSUME NEW i \in 1 .. Len(attributes) PROVE samples(attributes[i]) \in Seq(A)
  <2> DEFINE x == attributes[i]
             n == Len(times(x))
             s == samples(x)
  <2>1. n \in Nat /\ DOMAIN times(x) = 1 .. n
    BY <1>3
  <2>2. s = [k \in 1 .. n |-> s[k]]
    BY <2>1
  <2>3. ToSet(s) \subseteq A
    BY <1>2
  <2> HIDE DEF s, n, A
  <2>4. IsList(s)
    BY <2>1, <2>2, FunctionIsList
  <2>5. \A k \in 1 .. Len(s) : s[k] \in A
    BY <2>3, <2>4, ListFacts
  <2>6. s \in Seq(A)
    BY <2>4, <2>5, ListIsSequence
  <2> QED BY <2>6 DEF s
<1>5. keys \in Seq(Seq(A)) /\ Len(keys) = Len(attributes) /\ DOMAIN keys = DOMAIN attributes
  <2> DEFINE SA == Seq(A)
  <2>1. keys = [i \in 1 .. Len(attributes) |-> keys[i]]
    BY <1>2
  <2>2. \A i \in 1 .. Len(attributes) : keys[i] \in SA
    BY <1>2, <1>4
  <2>3. DOMAIN keys = DOMAIN attributes
    OBVIOUS
  <2> HIDE DEF keys, SA
  <2>4. IsList(keys) /\ Len(keys) = Len(attributes)
    BY <1>2, <2>1, FunctionIsList
  <2>5. keys \in Seq(SA)
    BY <2>2, <2>4, ListIsSequence
  <2> QED BY <2>3, <2>4, <2>5 DEF SA
<1>6. ASSUME NEW p PROVE lists(p) = EachOfEach(g(p), keys)
  <2>1. ASSUME NEW i \in 1 .. Len(attributes)
        PROVE  rows(p, attributes[i]) = Each(g(p), samples(attributes[i]))
    <3> DEFINE x == attributes[i]
               n == Len(times(x))
    <3>1. n \in Nat /\ DOMAIN times(x) = 1 .. n
      BY <1>3
    <3>2. \A k \in 1 .. n : <<x, times(x)[k]>> \in A
      <4>1. \A k \in 1 .. n : samples(x)[k] \in ToSet(samples(x))
        BY <3>1 DEF ToSet
      <4> QED BY <1>2, <3>1, <4>1
    <3>3. \A k \in 1 .. n : g(p)[<<x, times(x)[k]>>] = row(p, x, times(x)[k])
      <4> HIDE DEF A, row
      <4> QED BY <3>2
    <3> HIDE DEF g, row, A
    <3>4. DOMAIN samples(x) = 1 .. n /\ \A k \in 1 .. n : samples(x)[k] = <<x, times(x)[k]>>
      BY <3>1
    <3>5. rows(p, x) = [k \in 1 .. n |-> row(p, x, times(x)[k])]
      BY <3>1
    <3>6. Each(g(p), samples(x)) = [k \in 1 .. n |-> g(p)[<<x, times(x)[k]>>]]
      BY <3>4 DEF Each
    <3> QED BY <3>3, <3>5, <3>6
  <2> HIDE DEF rows, g, samples
  <2> QED BY <1>2, <2>1 DEF EachOfEach
<1>7. ASSUME NEW p PROVE FlattenSeq(lists(p)) = Each(g(p), FlattenSeq(keys))
  <2> DEFINE B == {row(p, k[1], k[2]) : k \in A}
             h == g(p)
  <2>1. \A k \in A : h[k] \in B
    <3> HIDE DEF row, A
    <3> QED OBVIOUS
  <2> HIDE DEF B, h, keys, A, lists
  <2>2. FlattenSeq(EachOfEach(h, keys)) = Each(h, FlattenSeq(keys))
    BY <1>5, <2>1, EachFlattened
  <2>3. lists(p) = EachOfEach(h, keys)
    BY <1>6 DEF h
  <2> QED BY <2>2, <2>3 DEF h
<1> DEFINE flat == FlattenSeq(keys)
<1> HIDE DEF keys
<1>8. flat \in Seq(A)
  BY <1>5, FlattenType
<1> HIDE DEF flat
<1>9. IsList(flat) /\ \A n \in 1 .. Len(flat) : flat[n] \in A
  BY <1>8, SequenceIsList, ElementOfSeq
<1>10. /\ new = Each(g(pr), flat) /\ old = Each(g(fr), flat)
  BY <1>7 DEF flat
<1>11. /\ IsList(new) /\ Len(new) = Len(flat) /\ \A n \in 1 .. Len(flat) : new[n] = g(pr)[flat[n]]
       /\ IsList(old) /\ Len(old) = Len(flat) /\ \A n \in 1 .. Len(flat) : old[n] = g(fr)[flat[n]]
  <2> HIDE DEF new, old, g
  <2> QED BY <1>9, <1>10, EachFacts
<1>12. /\ \A n \in 1 .. Len(flat) : new[n] = row(pr, flat[n][1], flat[n][2])
       /\ \A n \in 1 .. Len(flat) : old[n] = row(fr, flat[n][1], flat[n][2])
  <2> HIDE DEF new, old, row, A
  <2> QED BY <1>9, <1>11
<1>13. pr.fetch_values = fr.fetch_values => new = old
  <2>1. ASSUME pr.fetch_values = fr.fetch_values PROVE g(pr) = g(fr)
    <3>1. \A k \in A : row(pr, k[1], k[2]) = row(fr, k[1], k[2])
      <4> HIDE DEF A
      <4> QED BY <2>1
    <3> HIDE DEF A, row
    <3> QED BY <3>1
  <2> HIDE DEF new, old, g
  <2> QED BY <1>10, <2>1
<1>14. \A p, x, t : row(p, x, t).prim = q /\ row(p, x, t).property_name = x.name /\ row(p, x, t).time = t
  OBVIOUS
<1> HIDE DEF keys, lists, row, flat, A, new, old, g
<1>15. Len(new) = Len(old) /\ IsList(new) /\ IsList(old) /\ Len(new) = Len(flat)
  BY <1>11
<1>16. \A n \in 1 .. Len(new) :
         /\ new[n].prim = old[n].prim /\ new[n].property_name = old[n].property_name
         /\ new[n].time = old[n].time
  BY <1>12, <1>14, <1>15
<1> QED BY <1>1, <1>13, <1>15, <1>16, ValueBoth

\* A prim without rows changes nothing.
LEMMA NothingBoth ==
    ASSUME NEW fn \in PrimFunctions, NEW pr, NEW fr, NEW f, NEW q, NEW o, NEW C,
           Comparable(fn, pr, fr, f, o, C),
           AddPrim(fn, pr, f, q, o) = pr, AddPrim(fn, fr, f, q, o) = fr
    PROVE  AddOK(fn, pr, fr, f, q, o, C)
<1>1. Sound(fn, pr, f, o) /\ Sound(fn, fr, f, o)
  BY DEF Comparable
<1>2. IsList(pr.rows) /\ IsList(fr.rows) /\ IsList(pr.prim_arcs)
  BY <1>1 DEF Sound
<1>3. pr.rows \o <<>> = pr.rows /\ fr.rows \o <<>> = fr.rows
  BY <1>2, ConcatIsList, EmptyIsList
<1>4. Len(pr.prim_arcs) <= Len(pr.prim_arcs) + 1
  BY <1>2, ListFacts
<1>5. Adds(fn, pr, pr, f, q, o)
  BY <1>1, <1>4 DEF Adds
<1>6. Alike(fn, pr, pr, fr, fr, f, o, C)
  <2>1. IsList(<<>>) /\ \A n : n \notin 1 .. Len(<<>>)
    BY EmptyIsList
  <2> QED BY <1>3, <2>1 DEF Alike, AlikeBy
<1> QED BY <1>5, <1>6 DEF AddOK

\* A cache that is filled up holds the values at the producer's time.
LEMMA CachedFacts ==
    ASSUME NEW fn, NEW pr, NEW f, NEW o, Sound(fn, pr, f, o), NEW S
    PROVE  LET spaces == Cached(pr, f, S)
           IN  /\ \A r \in S : spaces[<<f, r>>] = At(f, r, pr.time)
               /\ \A key \in DOMAIN spaces : key[1] = f /\ spaces[key] = At(f, key[2], pr.time)
<1> DEFINE more == [key \in {<<f, q>> : q \in S} |-> At(f, key[2], pr.time)]
           spaces == Over(pr.spaces, more)
<1>1. spaces = Cached(pr, f, S)
  BY DEF Cached
<1>2. \A key \in DOMAIN more : key[1] = f /\ more[key] = At(f, key[2], pr.time)
  OBVIOUS
<1>3. \A r \in S : <<f, r>> \in DOMAIN more
  OBVIOUS
<1> HIDE DEF more
<1>4. \A key \in DOMAIN pr.spaces : key[1] = f /\ pr.spaces[key] = At(f, key[2], pr.time)
  BY DEF Sound
<1>5. \A key \in DOMAIN spaces : key[1] = f /\ spaces[key] = At(f, key[2], pr.time)
  BY <1>2, <1>4 DEF Over
<1>6. \A r \in S : <<f, r>> \in DOMAIN spaces
  BY <1>3 DEF Over
<1> HIDE DEF spaces
<1>7. \A r \in S : spaces[<<f, r>>] = At(f, r, pr.time)
  BY <1>5, <1>6
<1> QED BY <1>1, <1>5, <1>7

\* Producers that fill up their spaces and add the same rows.
LEMMA SpacesBoth ==
    ASSUME NEW fn \in {"usd_xforms", "usd_bounds"}, NEW pr, NEW fr, NEW f, NEW q, NEW o, NEW C,
           Comparable(fn, pr, fr, f, o, C), NEW S, NEW new, IsList(new),
           AddPrim(fn, pr, f, q, o) = Buffered([pr EXCEPT !.spaces = Cached(pr, f, S)], new),
           AddPrim(fn, fr, f, q, o) = Buffered([fr EXCEPT !.spaces = Cached(fr, f, S)], new)
    PROVE  AddOK(fn, pr, fr, f, q, o, C)
<1>1. fn \in PrimFunctions /\ fn # "usd_composition_arcs" /\ fn # "usd_material_bindings"
  BY DEF PrimFunctions
<1>2. ASSUME NEW p, Sound(fn, p, f, o)
      PROVE  LET a == Buffered([p EXCEPT !.spaces = Cached(p, f, S)], new)
             IN  /\ a = [x \in Fields |-> a[x]] /\ a.rows = p.rows \o new
                 /\ a.time = p.time /\ a.fetch_values = p.fetch_values
                 /\ a.spaces = Cached(p, f, S) /\ a.bindings = p.bindings
                 /\ a.collections = p.collections /\ a.prim_arcs = p.prim_arcs
                 /\ a.prototype_arcs = p.prototype_arcs
  <2> DEFINE cached == [p EXCEPT !.spaces = Cached(p, f, S)]
             a == Buffered(cached, new)
  <2>1. p = [x \in Fields |-> p[x]]
    BY <1>2 DEF Sound
  <2>2. /\ cached = [x \in Fields |-> cached[x]] /\ cached.spaces = Cached(p, f, S)
        /\ \A x \in Fields \ {"spaces"} : cached[x] = p[x]
    BY <2>1 DEF Fields
  <2> HIDE DEF cached
  <2>3. /\ a = [x \in Fields |-> a[x]] /\ a.rows = cached.rows \o new
        /\ \A x \in Fields \ {"rows"} : a[x] = cached[x]
    BY <2>2, BufferedFacts, Zenon
  <2> HIDE DEF a
  <2>4. /\ a.time = p.time /\ a.fetch_values = p.fetch_values
        /\ a.spaces = Cached(p, f, S) /\ a.bindings = p.bindings
        /\ a.collections = p.collections /\ a.prim_arcs = p.prim_arcs
        /\ a.prototype_arcs = p.prototype_arcs /\ cached.rows = p.rows
    <3>1. \A x \in Fields \ {"spaces", "rows"} : a[x] = p[x]
      BY <2>2, <2>3
    <3>2. {"time", "fetch_values", "bindings", "collections", "prim_arcs", "prototype_arcs"}
            \subseteq Fields \ {"spaces", "rows"}
      BY DEF Fields
    <3>3. a.spaces = Cached(p, f, S) /\ cached.rows = p.rows
      BY <2>2, <2>3 DEF Fields
    <3> QED BY <3>1, <3>2, <3>3
  <2> QED BY <2>3, <2>4 DEF a, cached
<1> DEFINE a == Buffered([pr EXCEPT !.spaces = Cached(pr, f, S)], new)
           b == Buffered([fr EXCEPT !.spaces = Cached(fr, f, S)], new)
<1>3. Sound(fn, pr, f, o) /\ Sound(fn, fr, f, o)
  BY DEF Comparable
<1>4. /\ a = [x \in Fields |-> a[x]] /\ a.rows = pr.rows \o new
      /\ a.time = pr.time /\ a.fetch_values = pr.fetch_values
      /\ a.spaces = Cached(pr, f, S) /\ a.bindings = pr.bindings
      /\ a.collections = pr.collections /\ a.prim_arcs = pr.prim_arcs
      /\ a.prototype_arcs = pr.prototype_arcs
  BY <1>2, <1>3
<1>5. b.rows = fr.rows \o new
  BY <1>2, <1>3
<1> HIDE DEF a, b
<1>6. Sound(fn, a, f, o)
  <2>1. IsList(pr.rows) /\ IsList(pr.prim_arcs)
    BY <1>3 DEF Sound
  <2>2. IsList(pr.rows \o new)
    BY <2>1, ConcatIsList
  <2>3. \A key \in DOMAIN a.spaces : key[1] = f /\ a.spaces[key] = At(f, key[2], a.time)
    BY <1>3, <1>4, CachedFacts
  <2>4. IsList(a.rows) /\ IsList(a.prim_arcs)
    BY <1>4, <2>1, <2>2
  <2> QED BY <1>1, <1>3, <1>4, <2>3, <2>4 DEF Sound
<1>7. Adds(fn, pr, a, f, q, o)
  <2>1. Len(a.prim_arcs) <= Len(pr.prim_arcs) + 1
    BY <1>3, <1>4, ListFacts DEF Sound
  <2>2. \A row, c : Write(fn, a, f, row, c, o) = Write(fn, pr, f, row, c, o)
    BY <1>1, WriteAlike
  <2> QED BY <1>4, <1>6, <2>1, <2>2 DEF Adds
<1>8. Alike(fn, pr, a, fr, b, f, o, C)
  BY <1>1, <1>4, <1>5, PlainAlike
<1> QED BY <1>7, <1>8 DEF AddOK, a, b

\* The transform of a prim is made of cached ones, and is the same (UsdXformsProducer).
LEMMA XformsAdd ==
    ASSUME NEW pr, NEW fr, NEW f \in DOMAIN Stages, NEW q \in Paths(f), NEW o, NEW C,
           Comparable("usd_xforms", pr, fr, f, o, C)
    PROVE  AddOK("usd_xforms", pr, fr, f, q, o, C)
<1> DEFINE fn == "usd_xforms"
           above == Prefixes(q) \ {<<>>}
           spaces(p) == {Cached(p, f, above)[<<f, r>>] : r \in above}
           fresh(t) == {At(f, r, t) : r \in above}
           row(p) == [prim |-> q, time |-> p.time,
                      world_matrix |-> spaces(p)]
           new == <<row(pr)>>
<1>1. Sound(fn, pr, f, o) /\ Sound(fn, fr, f, o) /\ pr.time = fr.time
  BY DEF Comparable
<1>2. ASSUME NEW p, Sound(fn, p, f, o)
      PROVE  spaces(p) = fresh(p.time)
  <2>1. \A r \in above : Cached(p, f, above)[<<f, r>>] = At(f, r, p.time)
    <3> HIDE DEF above
    <3> QED BY <1>2, CachedFacts
  <2> HIDE DEF above
  <2> QED BY <2>1
<1>3. row(pr) = row(fr)
  <2>1. spaces(pr) = spaces(fr)
    <3> HIDE DEF spaces, fresh
    <3> QED BY <1>1, <1>2
  <2> HIDE DEF spaces
  <2> QED BY <1>1, <2>1
<1>4. CASE "xformable" \in Prim(f, q).kinds
  <2>1. \A p : AddPrim(fn, p, f, q, o) = Buffered([p EXCEPT !.spaces = Cached(p, f, above)], <<row(p)>>)
    <3>1. \A p : AddPrim(fn, p, f, q, o) = XformsAddPrim(p, f, q, o)
      BY DEF AddPrim
    <3> QED BY <1>4, <3>1 DEF XformsAddPrim
  <2>2. IsList(new)
    BY SingleIsList
  <2> HIDE DEF row, above
  <2>3. /\ AddPrim(fn, pr, f, q, o) = Buffered([pr EXCEPT !.spaces = Cached(pr, f, above)], new)
        /\ AddPrim(fn, fr, f, q, o) = Buffered([fr EXCEPT !.spaces = Cached(fr, f, above)], new)
    BY <1>3, <2>1
  <2> HIDE DEF new
  <2> QED BY <2>2, <2>3, SpacesBoth
<1>5. CASE "xformable" \notin Prim(f, q).kinds
  <2>1. \A p : AddPrim(fn, p, f, q, o) = p
    <3>1. \A p : AddPrim(fn, p, f, q, o) = XformsAddPrim(p, f, q, o)
      BY DEF AddPrim
    <3> QED BY <1>5, <3>1 DEF XformsAddPrim
  <2>2. fn \in PrimFunctions
    BY DEF PrimFunctions
  <2> QED BY <2>1, <2>2, NothingBoth
<1> QED BY <1>4, <1>5

\* The bound of a prim is made of cached ones, and is the same (UsdBoundsProducer).
LEMMA BoundsAdd ==
    ASSUME NEW pr, NEW fr, NEW f \in DOMAIN Stages, NEW q \in Paths(f), NEW o, NEW C,
           Comparable("usd_bounds", pr, fr, f, o, C)
    PROVE  AddOK("usd_bounds", pr, fr, f, q, o, C)
<1> DEFINE fn == "usd_bounds"
           hint(r) == o.use_extents_hint /\ "extents_hint" \in Prim(f, r).kinds
           below == {r \in Composed(f, o) :
                         /\ IsPrefix(q, r)
                         /\ Prim(f, r).purpose \in ToSet(o.purposes)
                         /\ \A s \in Prefixes(r) \ {r} : IsPrefix(q, s) /\ s # <<>> => ~hint(s)}
           needed == below \cup (Prefixes(q) \ {<<>>})
           spaces(p) == {Cached(p, f, needed)[<<f, r>>] : r \in needed}
           fresh(t) == {At(f, r, t) : r \in needed}
           row(p) == [prim |-> q, time |-> p.time,
                      range |-> IF below = {} THEN {} ELSE spaces(p)]
           new == <<row(pr)>>
<1>1. Sound(fn, pr, f, o) /\ Sound(fn, fr, f, o) /\ pr.time = fr.time
  BY DEF Comparable
<1>2. ASSUME NEW p, Sound(fn, p, f, o)
      PROVE  spaces(p) = fresh(p.time)
  <2>1. \A r \in needed : Cached(p, f, needed)[<<f, r>>] = At(f, r, p.time)
    <3> HIDE DEF needed
    <3> QED BY <1>2, CachedFacts
  <2> HIDE DEF needed
  <2> QED BY <2>1
<1>3. row(pr) = row(fr)
  <2>1. spaces(pr) = spaces(fr)
    <3> HIDE DEF spaces, fresh
    <3> QED BY <1>1, <1>2
  <2> HIDE DEF spaces
  <2> QED BY <1>1, <2>1
<1>4. CASE "imageable" \in Prim(f, q).kinds
  <2>1. \A p : AddPrim(fn, p, f, q, o) = Buffered([p EXCEPT !.spaces = Cached(p, f, needed)], <<row(p)>>)
    <3>1. \A p : AddPrim(fn, p, f, q, o) = BoundsAddPrim(p, f, q, o)
      BY DEF AddPrim
    <3> QED BY <1>4, <3>1 DEF BoundsAddPrim
  <2>2. IsList(new)
    BY SingleIsList
  <2> HIDE DEF row, needed, below
  <2>3. /\ AddPrim(fn, pr, f, q, o) = Buffered([pr EXCEPT !.spaces = Cached(pr, f, needed)], new)
        /\ AddPrim(fn, fr, f, q, o) = Buffered([fr EXCEPT !.spaces = Cached(fr, f, needed)], new)
    BY <1>3, <2>1
  <2> HIDE DEF new
  <2> QED BY <2>2, <2>3, SpacesBoth
<1>5. CASE "imageable" \notin Prim(f, q).kinds
  <2>1. \A p : AddPrim(fn, p, f, q, o) = p
    <3>1. \A p : AddPrim(fn, p, f, q, o) = BoundsAddPrim(p, f, q, o)
      BY DEF AddPrim
    <3> QED BY <1>5, <3>1 DEF BoundsAddPrim
  <2>2. fn \in PrimFunctions
    BY DEF PrimFunctions
  <2> QED BY <2>1, <2>2, NothingBoth
<1> QED BY <1>4, <1>5

\* The material bound to a prim depends on what is authored on the prims above it
\* and on the prim, and on the members of collections.
LEMMA BoundMaterialOf ==
    ASSUME NEW q, NEW x, NEW y, \A r \in Prefixes(q) \ {<<>>} : x[r] = y[r], NEW members, NEW purpose
    PROVE  ComputeBoundMaterial(x, members, q, purpose) = ComputeBoundMaterial(y, members, q, purpose)
<1> DEFINE above == Prefixes(q) \ {<<>>}
           applying(b, r, p) ==
             {a \in b[r] : a.purpose = p /\ (a.collection = Null \/ q \in members[a.collection])}
           best(S) == CHOOSE b \in S : b.collection # Null \/ \A c \in S : c.collection = Null
           deciding(b, p) == {[on |-> r, binding |-> best(applying(b, r, p))] :
                                r \in {s \in above : applying(b, s, p) # {}}}
           strong(S) == {d \in S : d.binding.strong}
           winner(S) == IF strong(S) # {}
                        THEN CHOOSE d \in strong(S) : \A e \in strong(S) : Len(d.on) <= Len(e.on)
                        ELSE CHOOSE d \in S : \A e \in S : Len(e.on) <= Len(d.on)
           result(S, T) == IF S # {} THEN <<winner(S)>> ELSE IF T # {} THEN <<winner(T)>> ELSE <<>>
<1>1. \A r \in above : \A p : applying(x, r, p) = applying(y, r, p)
  OBVIOUS
<1>2. \A p : deciding(x, p) = deciding(y, p)
  <2> HIDE DEF applying, above, best
  <2> QED BY <1>1
<1>3. \A b : ComputeBoundMaterial(b, members, q, purpose) = result(deciding(b, purpose), deciding(b, ""))
  BY DEF ComputeBoundMaterial
<1> HIDE DEF result, deciding
<1> QED BY <1>2, <1>3

\* It is one, or none.
LEMMA BoundIsList ==
    ASSUME NEW x, NEW members, NEW q, NEW purpose
    PROVE  IsList(ComputeBoundMaterial(x, members, q, purpose))
<1> DEFINE bound == ComputeBoundMaterial(x, members, q, purpose)
<1>1. bound = <<>> \/ \E d : bound = <<d>>
  BY DEF ComputeBoundMaterial
<1> HIDE DEF bound
<1>2. IsList(bound)
  BY <1>1, EmptyIsList, SingleIsList
<1> QED BY <1>2 DEF bound

\* The materials of a prim are found in caches, and are the same (UsdMaterialBindingsProducer).
LEMMA BindingsAdd ==
    ASSUME NEW pr, NEW fr, NEW f \in DOMAIN Stages, NEW q \in Paths(f), NEW o, NEW C,
           Comparable("usd_material_bindings", pr, fr, f, o, C)
    PROVE  AddOK("usd_material_bindings", pr, fr, f, q, o, C)
<1> DEFINE fn == "usd_material_bindings"
           above == Prefixes(q) \ {<<>>}
           known(p) == [p EXCEPT !.bindings = BindingsOf(p, f, q), !.collections = MembersOf(p, f)]
           row(d) == [prim |-> q, binding |-> d,
                      material_found |-> /\ d.binding.material \in Composed(f, o)
                                         /\ "material" \in Prim(f, d.binding.material).kinds]
           bound(p) == ComputeBoundMaterial(known(p).bindings, known(p).collections, q, o.material_purpose)
           rows(d) == [i \in DOMAIN d |-> row(d[i])]
           new == rows(bound(pr))
<1>1. Sound(fn, pr, f, o) /\ Sound(fn, fr, f, o) /\ fn \in PrimFunctions /\ fn # "usd_composition_arcs"
  BY DEF Comparable, PrimFunctions
<1>2. \A p : AddPrim(fn, p, f, q, o) = BindingsAddPrim(p, f, q, o)
  BY DEF AddPrim
<1>3. CASE "imageable" \notin Prim(f, q).kinds
  <2>1. \A p : AddPrim(fn, p, f, q, o) = p
    BY <1>2, <1>3 DEF BindingsAddPrim
  <2> QED BY <1>1, <2>1, NothingBoth
<1>4. CASE "imageable" \in Prim(f, q).kinds
  <2>1. \A p : AddPrim(fn, p, f, q, o) = Buffered(known(p), rows(bound(p)))
    <3>1. \A p : BindingsAddPrim(p, f, q, o)
                   = With(known(p), LAMBDA found :
                       With(ComputeBoundMaterial(found.bindings, found.collections, q, o.material_purpose),
                            LAMBDA d : Buffered(found, rows(d))))
      BY <1>4 DEF BindingsAddPrim
    <3> HIDE DEF known, rows
    <3>2. \A p : BindingsAddPrim(p, f, q, o) = Buffered(known(p), rows(bound(p)))
      BY <3>1 DEF With
    <3> QED BY <1>2, <3>2
  <2>2. ASSUME NEW p, Sound(fn, p, f, o)
        PROVE  /\ known(p) = [x \in Fields |-> known(p)[x]]
               /\ known(p).bindings = BindingsOf(p, f, q) /\ known(p).collections = MembersOf(p, f)
               /\ \A x \in Fields \ {"bindings", "collections"} : known(p)[x] = p[x]
               /\ DOMAIN BindingsOf(p, f, q) \subseteq DOMAIN p.bindings \cup Prefixes(q)
               /\ \A r \in DOMAIN BindingsOf(p, f, q) : BindingsOf(p, f, q)[r] = Prim(f, r).bindings
               /\ \A r \in above : BindingsOf(p, f, q)[r] = Prim(f, r).bindings
               /\ MembersOf(p, f) = [x \in DOMAIN Stages[f].collections |-> Stages[f].collections[x]]
    <3>1. /\ p = [x \in Fields |-> p[x]]
          /\ \A r \in DOMAIN p.bindings : p.bindings[r] = Prim(f, r).bindings
          /\ \A x \in DOMAIN p.collections :
               x \in DOMAIN Stages[f].collections /\ p.collections[x] = Stages[f].collections[x]
      BY <2>2 DEF Sound
    <3>2. /\ known(p) = [x \in Fields |-> known(p)[x]]
          /\ known(p).bindings = BindingsOf(p, f, q) /\ known(p).collections = MembersOf(p, f)
          /\ \A x \in Fields \ {"bindings", "collections"} : known(p)[x] = p[x]
      BY <3>1 DEF Fields
    <3>3. /\ DOMAIN BindingsOf(p, f, q) \subseteq DOMAIN p.bindings \cup Prefixes(q)
          /\ \A r \in DOMAIN BindingsOf(p, f, q) : BindingsOf(p, f, q)[r] = Prim(f, r).bindings
          /\ above \subseteq DOMAIN BindingsOf(p, f, q)
      BY <3>1 DEF BindingsOf, Over
    <3>4. MembersOf(p, f) = [x \in DOMAIN Stages[f].collections |-> Stages[f].collections[x]]
      BY <3>1 DEF MembersOf, Over
    <3> HIDE DEF known, above
    <3> QED BY <3>2, <3>3, <3>4
  <2>3. bound(pr) = bound(fr)
    <3> DEFINE x == BindingsOf(pr, f, q)
               y == BindingsOf(fr, f, q)
               m == MembersOf(pr, f)
               n == MembersOf(fr, f)
    <3> HIDE DEF known
    <3>1. (\A r \in Prefixes(q) \ {<<>>} : x[r] = y[r]) /\ m = n
      <4>1. /\ \A r \in above : x[r] = Prim(f, r).bindings
            /\ m = [k \in DOMAIN Stages[f].collections |-> Stages[f].collections[k]]
        BY <1>1, <2>2
      <4>2. /\ \A r \in above : y[r] = Prim(f, r).bindings
            /\ n = [k \in DOMAIN Stages[f].collections |-> Stages[f].collections[k]]
        BY <1>1, <2>2
      <4> HIDE DEF x, y, m, n
      <4> QED BY <4>1, <4>2
    <3>2. /\ known(pr).bindings = x /\ known(fr).bindings = y
          /\ known(pr).collections = m /\ known(fr).collections = n
      BY <1>1, <2>2
    <3> HIDE DEF x, y, m, n
    <3> QED BY <3>1, <3>2, BoundMaterialOf
  <2>4. IsList(new)
    <3> DEFINE d == bound(pr)
    <3>1. IsList(d)
      BY BoundIsList
    <3> HIDE DEF d, row
    <3>2. Len(d) \in Nat /\ DOMAIN d = 1 .. Len(d)
      BY <3>1, ListFacts
    <3>3. rows(d) = [i \in 1 .. Len(d) |-> rows(d)[i]]
      BY <3>2
    <3> HIDE DEF rows
    <3>4. IsList(rows(d))
      BY <3>2, <3>3, FunctionIsList
    <3> QED BY <3>4 DEF d
  <2> DEFINE a == Buffered(known(pr), new)
             b == Buffered(known(fr), new)
  <2>5. AddPrim(fn, pr, f, q, o) = a /\ AddPrim(fn, fr, f, q, o) = b
    <3> HIDE DEF known, rows, bound
    <3> QED BY <2>1, <2>3
  <2> HIDE DEF bound, rows, new, above
  <2>6. /\ a = [x \in Fields |-> a[x]] /\ a.rows = pr.rows \o new
        /\ a.time = pr.time /\ a.fetch_values = pr.fetch_values
        /\ a.spaces = pr.spaces /\ a.bindings = BindingsOf(pr, f, q)
        /\ a.collections = MembersOf(pr, f) /\ a.prim_arcs = pr.prim_arcs
        /\ a.prototype_arcs = pr.prototype_arcs
    <3> DEFINE k == known(pr)
    <3>1. /\ k = [x \in Fields |-> k[x]] /\ k.bindings = BindingsOf(pr, f, q)
          /\ k.collections = MembersOf(pr, f)
          /\ \A x \in Fields \ {"bindings", "collections"} : k[x] = pr[x]
      BY <1>1, <2>2
    <3> HIDE DEF k
    <3>2. /\ Buffered(k, new) = [x \in Fields |-> Buffered(k, new)[x]]
          /\ Buffered(k, new).rows = k.rows \o new
          /\ \A x \in Fields \ {"rows"} : Buffered(k, new)[x] = k[x]
      BY <3>1, BufferedFacts
    <3> DEFINE u == Buffered(k, new)
    <3> HIDE DEF u
    <3>3. /\ u = [x \in Fields |-> u[x]] /\ u.rows = pr.rows \o new
          /\ u.time = pr.time /\ u.fetch_values = pr.fetch_values
          /\ u.spaces = pr.spaces /\ u.bindings = BindingsOf(pr, f, q)
          /\ u.collections = MembersOf(pr, f) /\ u.prim_arcs = pr.prim_arcs
          /\ u.prototype_arcs = pr.prototype_arcs
      BY <3>1, <3>2 DEF Fields, u
    <3> QED BY <3>3 DEF u, k
  <2>7. b.rows = fr.rows \o new
    <3> DEFINE k == known(fr)
    <3>1. /\ k = [x \in Fields |-> k[x]]
          /\ \A x \in Fields \ {"bindings", "collections"} : k[x] = fr[x]
      BY <1>1, <2>2
    <3> HIDE DEF k
    <3>2. Buffered(k, new).rows = k.rows \o new
      BY <3>1, BufferedFacts
    <3>3. Buffered(k, new).rows = fr.rows \o new
      BY <3>1, <3>2 DEF Fields
    <3> QED BY <3>3 DEF k
  <2> HIDE DEF a, b, known
  <2>8. /\ \A r \in DOMAIN a.bindings : a.bindings[r] = Prim(f, r).bindings
        /\ \A x \in DOMAIN a.collections :
             x \in DOMAIN Stages[f].collections /\ a.collections[x] = Stages[f].collections[x]
        /\ DOMAIN a.bindings \subseteq DOMAIN pr.bindings \cup Prefixes(q)
    <3> DEFINE x == BindingsOf(pr, f, q)
               m == MembersOf(pr, f)
    <3>1. /\ DOMAIN x \subseteq DOMAIN pr.bindings \cup Prefixes(q)
          /\ \A r \in DOMAIN x : x[r] = Prim(f, r).bindings
          /\ m = [k \in DOMAIN Stages[f].collections |-> Stages[f].collections[k]]
      BY <1>1, <2>2
    <3>2. a.bindings = x /\ a.collections = m
      BY <2>6
    <3> HIDE DEF x, m
    <3> QED BY <3>1, <3>2
  <2>9. Sound(fn, a, f, o)
    <3>1. IsList(pr.rows) /\ IsList(pr.prim_arcs)
      BY <1>1 DEF Sound
    <3>2. IsList(pr.rows \o new)
      BY <2>4, <3>1, ConcatIsList
    <3>3. IsList(a.rows) /\ IsList(a.prim_arcs)
      BY <2>6, <3>1, <3>2
    <3> QED BY <1>1, <2>6, <2>8, <3>3 DEF Sound
  <2>10. Adds(fn, pr, a, f, q, o)
    <3>1. Len(a.prim_arcs) <= Len(pr.prim_arcs) + 1
      BY <1>1, <2>6, ListFacts DEF Sound
    <3>2. \A r, c : Write(fn, a, f, r, c, o) = Write(fn, pr, f, r, c, o)
      BY <1>1, WriteAlike
    <3> QED BY <2>6, <2>8, <2>9, <3>1, <3>2 DEF Adds
  <2>11. Alike(fn, pr, a, fr, b, f, o, C)
    BY <1>1, <2>4, <2>6, <2>7, PlainAlike
  <2> QED BY <2>5, <2>10, <2>11 DEF AddOK
<1> QED BY <1>3, <1>4

\* A prefix has the same elements as far as it goes.
LEMMA PrefixIs ==
    ASSUME NEW s, NEW t, IsList(s), IsList(t)
    PROVE  IsPrefix(s, t) <=> Len(s) <= Len(t) /\ \A i \in 1 .. Len(s) : s[i] = t[i]
<1> DEFINE A == ToSet(s) \cup ToSet(t)
<1>1. s \in Seq(A) /\ t \in Seq(A) /\ Len(s) \in Nat /\ Len(t) \in Nat
  BY ListFacts, ListIsSequence
<1> HIDE DEF A
<1>2. ASSUME Len(s) <= Len(t)
      PROVE  SubSeq(s, 1, Len(s)) = SubSeq(t, 1, Len(s)) <=> \A i \in 1 .. Len(s) : s[i] = t[i]
  <2> DEFINE n == Len(s)
             a == SubSeq(s, 1, n)
             b == SubSeq(t, 1, n)
  <2>1. /\ 1 \in 1 .. Len(s) + 1 /\ n \in (1 - 1) .. Len(s)
        /\ 1 \in 1 .. Len(t) + 1 /\ n \in (1 - 1) .. Len(t)
    BY <1>1, <1>2
  <2>2. /\ a \in Seq(A) /\ Len(a) = IF 1 <= n THEN n - 1 + 1 ELSE 0
        /\ \A i \in 1 .. n - 1 + 1 : a[i] = s[1 + i - 1]
    BY <1>1, <2>1, SubSeqProperties
  <2>3. /\ b \in Seq(A) /\ Len(b) = IF 1 <= n THEN n - 1 + 1 ELSE 0
        /\ \A i \in 1 .. n - 1 + 1 : b[i] = t[1 + i - 1]
    BY <1>1, <2>1, SubSeqProperties
  <2>4. /\ Len(a) = n /\ Len(b) = n /\ n \in Nat
        /\ \A i \in 1 .. n : a[i] = s[i] /\ b[i] = t[i]
    <3> HIDE DEF a, b
    <3>1. n \in Nat
      BY <1>1
    <3> HIDE DEF n
    <3>2. n - 1 + 1 = n /\ \A i \in 1 .. n : 1 + i - 1 = i
      BY <3>1
    <3>3. ~(1 <= n) => n = 0
      BY <3>1
    <3> QED BY <2>2, <2>3, <3>1, <3>2, <3>3
  <2>5. IsList(a) /\ IsList(b)
    BY <2>2, <2>3, SequenceIsList
  <2>6. a = b <=> \A i \in 1 .. n : s[i] = t[i]
    <3> HIDE DEF a, b, n
    <3> QED BY <2>4, <2>5, ListsEqual
  <2> QED BY <2>6
<1> QED BY <1>2 DEF IsPrefix

\* Prefixes of prefixes are prefixes, and one of two prefixes of a list is a prefix
\* of the other.
LEMMA PrefixOrder ==
    ASSUME NEW s, NEW t, NEW u, IsList(s), IsList(t), IsList(u)
    PROVE  /\ IsPrefix(s, t) /\ IsPrefix(t, u) => IsPrefix(s, u)
           /\ IsPrefix(s, u) /\ IsPrefix(t, u) => IsPrefix(s, t) \/ IsPrefix(t, s)
<1>1. Len(s) \in Nat /\ Len(t) \in Nat /\ Len(u) \in Nat
  BY ListFacts
<1>2. /\ IsPrefix(s, t) <=> Len(s) <= Len(t) /\ \A i \in 1 .. Len(s) : s[i] = t[i]
      /\ IsPrefix(t, s) <=> Len(t) <= Len(s) /\ \A i \in 1 .. Len(t) : t[i] = s[i]
      /\ IsPrefix(s, u) <=> Len(s) <= Len(u) /\ \A i \in 1 .. Len(s) : s[i] = u[i]
      /\ IsPrefix(t, u) <=> Len(t) <= Len(u) /\ \A i \in 1 .. Len(t) : t[i] = u[i]
  BY PrefixIs
<1>3. CASE Len(s) <= Len(t)
  <2>1. \A i \in 1 .. Len(s) : i \in 1 .. Len(t)
    BY <1>1, <1>3
  <2> QED BY <1>1, <1>2, <1>3, <2>1
<1>4. CASE Len(t) <= Len(s)
  <2>1. \A i \in 1 .. Len(t) : i \in 1 .. Len(s)
    BY <1>1, <1>4
  <2>2. Len(s) <= Len(t) => Len(s) = Len(t)
    BY <1>1, <1>4
  <2> QED BY <1>1, <1>2, <1>4, <2>1, <2>2
<1> QED BY <1>1, <1>3, <1>4

\* A prim in an instance has the index of the same prim in the source instance.
LEMMA SourceFacts ==
    ASSUME NEW f \in DOMAIN Stages, NEW o, IsList(o.mask_path), NEW q \in Composed(f, o),
           "proxy" \in Prim(f, q).flags
    PROVE  LET i == Prim(f, q).instance
               source == Source(f, o, Prim(f, q).prototype)
               index == IndexPath(f, o, q)
           IN  /\ i \in Paths(f) /\ IsPrefix(i, q) /\ source \in Paths(f)
               /\ index = source \o SubSeq(q, Len(i) + 1, Len(q))
               /\ index \in Paths(f) /\ "proxy" \in Prim(f, index).flags
               /\ Prim(f, index).instance = source
               /\ Prim(f, index).prototype = Prim(f, q).prototype
<1> DEFINE i == Prim(f, q).instance
           prototype == Prim(f, q).prototype
           sources == {r \in Composed(f, o) : /\ Prim(f, r).prototype = prototype
                                              /\ "proxy" \notin Prim(f, r).flags}
           found == Among(Stages[f].order, sources)
           at(r) == r \o SubSeq(q, Len(i) + 1, Len(q))
<1>1. /\ q \in Paths(f)
      /\ IsPrefix(q, o.mask_path) \/ IsPrefix(o.mask_path, q)
      /\ o.load_payloads \/ "payload" \notin Prim(f, q).flags
  BY DEF Composed
<1>2. /\ i \in Paths(f)
      /\ IsPrefix(i, q) /\ Prim(f, i).prototype = prototype
      /\ "proxy" \notin Prim(f, i).flags
      /\ "payload" \in Prim(f, i).flags => "payload" \in Prim(f, q).flags
      /\ \A r \in Paths(f) :
           Prim(f, r).prototype = prototype /\ "proxy" \notin Prim(f, r).flags
             => /\ at(r) \in Paths(f) /\ "proxy" \in Prim(f, at(r)).flags
                /\ Prim(f, at(r)).instance = r /\ Prim(f, at(r)).prototype = Prim(f, r).prototype
  BY <1>1, StagesAssumption
<1>3. IsList(q) /\ IsList(i) /\ IsList(o.mask_path)
  BY <1>1, <1>2, PrimFacts
<1>4. IsPrefix(i, o.mask_path) \/ IsPrefix(o.mask_path, i)
  BY <1>1, <1>2, <1>3, PrefixOrder
<1>5. i \in sources
  BY <1>1, <1>2, <1>4 DEF Composed
<1>6. IsList(Stages[f].order) /\ ToSet(Stages[f].order) = Paths(f)
  BY StagesAssumption
<1>7. \A r \in sources : r \in Paths(f) /\ Prim(f, r).prototype = prototype /\ "proxy" \notin Prim(f, r).flags
  BY DEF Composed
<1> HIDE DEF sources
<1>8. IsList(found) /\ ToSet(found) = Paths(f) \cap sources
  BY <1>6, AmongIsList
<1> HIDE DEF found
<1>9. i \in ToSet(found)
  BY <1>2, <1>5, <1>8
<1>10. Len(found) \in Nat /\ \E k \in 1 .. Len(found) : TRUE
  BY <1>8, <1>9, ListFacts
<1>11. 1 \in 1 .. Len(found) /\ Head(found) = found[1]
  BY <1>10
<1>12. Head(found) \in sources
  BY <1>8, <1>11, ListFacts
<1>13. Source(f, o, prototype) = Head(found)
  BY DEF Source, found, sources
<1>14. IndexPath(f, o, q) = at(Head(found))
  BY <1>13 DEF IndexPath
<1> HIDE DEF at
<1>15. /\ Head(found) \in Paths(f) /\ Prim(f, Head(found)).prototype = prototype
       /\ "proxy" \notin Prim(f, Head(found)).flags
  BY <1>7, <1>12
<1> QED BY <1>2, <1>13, <1>14, <1>15 DEF at

\* The prim whose index a composed prim has is one of the stage.
LEMMA IndexIsPath ==
    ASSUME NEW f \in DOMAIN Stages, NEW o, IsList(o.mask_path), NEW q \in Composed(f, o)
    PROVE  IndexPath(f, o, q) \in Paths(f)
<1>1. CASE "proxy" \notin Prim(f, q).flags
  BY <1>1 DEF IndexPath, Composed
<1>2. CASE "proxy" \in Prim(f, q).flags
  BY <1>2, SourceFacts
<1> QED BY <1>1, <1>2

\* What is shown of the arcs of a prim is a list.
LEMMA ArcsAreList ==
    ASSUME NEW f \in DOMAIN Stages, NEW q \in Paths(f), NEW o
    PROVE  IsList(ComputeArcs(f, o, q))
<1>1. IsList(Prim(f, q).arcs)
  BY PrimFacts
<1>2. IsList(Wanted(o, Prim(f, q).arcs))
  BY <1>1, AmongIsList DEF Wanted
<1> QED BY <1>2, EmptyIsList DEF ComputeArcs

\* Rows of arcs are written alike if the arcs are the same.
LEMMA ArcsWriteAlike ==
    ASSUME NEW x, NEW y, NEW row, NEW other, row.prim = other.prim, row.arc[3] = other.arc[3],
           row.introducing_prim_path = other.introducing_prim_path, ArcOf(x, row) = ArcOf(y, other),
           NEW f, NEW c, NEW o
    PROVE  Write("usd_composition_arcs", x, f, row, c, o) = Write("usd_composition_arcs", y, f, other, c, o)
<1>1. ArcsWrite(x, row, c) = ArcsWrite(y, other, c)
  BY DEF ArcsWrite
<1> QED BY <1>1 DEF Write

\* What the lists keep, the rows show.
LEMMA ArcStays ==
    ASSUME NEW x, NEW y, NEW row,
           \/ /\ row.arc[1] = "prim"
              /\ row.arc[2] \in DOMAIN x.prim_arcs /\ row.arc[2] \in DOMAIN y.prim_arcs
              /\ x.prim_arcs[row.arc[2]] = y.prim_arcs[row.arc[2]]
           \/ /\ row.arc[1] # "prim"
              /\ row.arc[2] \in DOMAIN x.prototype_arcs /\ row.arc[2] \in DOMAIN y.prototype_arcs
              /\ x.prototype_arcs[row.arc[2]] = y.prototype_arcs[row.arc[2]]
    PROVE  ArcOf(x, row) = ArcOf(y, row)
BY DEF ArcOf

\* What is shown of an arc of a list but for the prim that introduces it, and the
\* rows for the arcs
ArcShown(arc) == [arc EXCEPT !.introducing_prim_path = Null]
RowsOfArcs(new, q, list, at, arcs, roots) ==
    /\ IsList(new) /\ Len(new) = Len(arcs)
    /\ \A n \in 1 .. Len(arcs) :
         /\ new[n].prim = q /\ new[n].arc = <<list, at, n>>
         /\ new[n].introducing_prim_path = ReplacePrefix(arcs[n].introducing_prim_path, roots[1], roots[2])

\* ArcRows makes them.
LEMMA ArcRowsFacts ==
    ASSUME NEW arcs, IsList(arcs), NEW q, NEW list, NEW at, NEW roots
    PROVE  RowsOfArcs(ArcRows(q, list, at, arcs, roots), q, list, at, arcs, roots)
<1> DEFINE new == ArcRows(q, list, at, arcs, roots)
<1>1. Len(arcs) \in Nat /\ DOMAIN arcs = 1 .. Len(arcs)
  BY ListFacts
<1>2. new = [n \in 1 .. Len(arcs) |-> new[n]]
  BY <1>1 DEF ArcRows
<1>3. \A n \in 1 .. Len(arcs) :
         /\ new[n].prim = q /\ new[n].arc = <<list, at, n>>
         /\ new[n].introducing_prim_path
              = ReplacePrefix(arcs[n].introducing_prim_path, roots[1], roots[2])
  BY <1>1 DEF ArcRows
<1> HIDE DEF new
<1>4. IsList(new) /\ Len(new) = Len(arcs)
  BY <1>1, <1>2, FunctionIsList
<1>5. RowsOfArcs(new, q, list, at, arcs, roots)
  BY <1>3, <1>4 DEF RowsOfArcs
<1> QED BY <1>5 DEF new

\* The elements of two lists, one after the other.
LEMMA ConcatIs ==
    ASSUME NEW s, NEW t, IsList(s), IsList(t), NEW u, u = s \o t
    PROVE  /\ IsList(u) /\ Len(u) = Len(s) + Len(t) /\ DOMAIN u = 1 .. Len(s) + Len(t)
           /\ \A n \in 1 .. Len(s) : u[n] = s[n]
           /\ \A n \in 1 .. Len(t) : u[Len(s) + n] = t[n]
           /\ \A n \in DOMAIN u : n \in 1 .. Len(s) \/ \E m \in 1 .. Len(t) : n = Len(s) + m
           /\ \A n \in DOMAIN u : n \in 1 .. Len(s) \/ \E m \in 1 .. Len(t) : u[n] = t[m]
<1>1. /\ IsList(u) /\ Len(u) = Len(s) + Len(t)
      /\ \A i \in 1 .. Len(s) : i \in 1 .. Len(u) /\ u[i] = s[i]
      /\ \A i \in 1 .. Len(t) : u[Len(s) + i] = t[i]
      /\ \A i \in 1 .. Len(u) :
           i \in 1 .. Len(s) \/ (i - Len(s) \in 1 .. Len(t) /\ i = Len(s) + (i - Len(s)))
  BY ConcatIsList
<1>2. DOMAIN u = 1 .. Len(s) + Len(t)
  BY <1>1, ListFacts
<1>3. \A n \in DOMAIN u : n \in 1 .. Len(s) \/ \E m \in 1 .. Len(t) : n = Len(s) + m
  BY <1>1, <1>2
<1> QED BY <1>1, <1>2, <1>3

\* A producer of arcs keeps its lists, has another in one of them, and rows more
ArcsGrow(pr, a, f, q, o, list, at, arcs, new) ==
    /\ list \in {"prim", "prototype"}
    /\ IsList(arcs) /\ IsList(new) /\ Len(new) = Len(arcs)
    /\ \A n \in 1 .. Len(arcs) : new[n].arc = <<list, at, n>>
    /\ a = [x \in Fields |-> a[x]] /\ a.rows = pr.rows \o new
    /\ a.time = pr.time /\ a.fetch_values = pr.fetch_values /\ a.spaces = pr.spaces
    /\ a.bindings = pr.bindings /\ a.collections = pr.collections
    /\ IsList(a.prim_arcs) /\ Len(a.prim_arcs) <= Len(pr.prim_arcs) + 1
    /\ \A n \in DOMAIN pr.prim_arcs : n \in DOMAIN a.prim_arcs /\ a.prim_arcs[n] = pr.prim_arcs[n]
    /\ \A i \in DOMAIN pr.prototype_arcs :
         i \in DOMAIN a.prototype_arcs /\ a.prototype_arcs[i] = pr.prototype_arcs[i]
    /\ DOMAIN a.prototype_arcs \subseteq DOMAIN pr.prototype_arcs \cup ListOf(f, o, q)
    /\ \A i \in DOMAIN a.prototype_arcs : a.prototype_arcs[i] = ComputeArcs(f, o, i)
    /\ IF list = "prim" THEN at \in DOMAIN a.prim_arcs /\ a.prim_arcs[at] = arcs
                        ELSE at \in DOMAIN a.prototype_arcs /\ a.prototype_arcs[at] = arcs

\* Then its rows show what they did, and the others the arcs of the list.
LEMMA ArcsKept ==
    ASSUME NEW pr, NEW a, NEW f \in DOMAIN Stages, NEW q, NEW o, NEW list,
           NEW at, NEW arcs, NEW new, Sound("usd_composition_arcs", pr, f, o),
           ArcsGrow(pr, a, f, q, o, list, at, arcs, new)
    PROVE  /\ Adds("usd_composition_arcs", pr, a, f, q, o)
           /\ \A n \in 1 .. Len(arcs) :
                ArcOf(a, new[n]) = ArcShown(arcs[n])
<1> DEFINE fn == "usd_composition_arcs"
<1>1. /\ IsList(pr.rows) /\ IsList(pr.prim_arcs)
      /\ \A key \in DOMAIN pr.spaces : key[1] = f /\ pr.spaces[key] = At(f, key[2], pr.time)
      /\ \A r \in DOMAIN pr.bindings : pr.bindings[r] = Prim(f, r).bindings
      /\ \A x \in DOMAIN pr.collections :
           x \in DOMAIN Stages[f].collections /\ pr.collections[x] = Stages[f].collections[x]
      /\ pr.spaces = <<>> /\ pr.bindings = <<>> /\ pr.collections = <<>>
      /\ \A n \in DOMAIN pr.rows :
           \/ pr.rows[n].arc[1] = "prim" /\ pr.rows[n].arc[2] \in DOMAIN pr.prim_arcs
           \/ pr.rows[n].arc[1] # "prim" /\ pr.rows[n].arc[2] \in DOMAIN pr.prototype_arcs
  BY DEF Sound
<1>2. /\ IsList(arcs) /\ IsList(new) /\ Len(new) = Len(arcs) /\ a.rows = pr.rows \o new
      /\ \A n \in 1 .. Len(arcs) : new[n].arc = <<list, at, n>>
  BY DEF ArcsGrow
<1>3. DOMAIN arcs = 1 .. Len(arcs) /\ DOMAIN pr.rows = 1 .. Len(pr.rows) /\ Len(pr.rows) \in Nat
  BY <1>1, <1>2, ListFacts
<1>4. \A n \in 1 .. Len(arcs) : ArcOf(a, new[n]) = ArcShown(arcs[n])
  <2> SUFFICES ASSUME NEW n \in 1 .. Len(arcs)
               PROVE  ArcOf(a, new[n]) = ArcShown(arcs[n])
    OBVIOUS
  <2>1. new[n].arc = <<list, at, n>> /\ n \in DOMAIN arcs
    BY <1>2, <1>3
  <2>2. new[n].arc[1] = list /\ new[n].arc[2] = at /\ new[n].arc[3] = n
    BY <2>1
  <2>3. CASE list = "prim"
    BY <2>1, <2>2, <2>3 DEF ArcOf, ArcShown, ArcsGrow
  <2>4. CASE list # "prim"
    BY <2>1, <2>2, <2>4 DEF ArcOf, ArcShown, ArcsGrow
  <2> QED BY <2>3, <2>4
<1>5. /\ IsList(a.rows) /\ DOMAIN a.rows = 1 .. Len(pr.rows) + Len(new)
      /\ \A n \in 1 .. Len(pr.rows) : a.rows[n] = pr.rows[n]
      /\ \A n \in DOMAIN a.rows :
           n \in 1 .. Len(pr.rows) \/ \E m \in 1 .. Len(new) : a.rows[n] = new[m]
  <2> DEFINE s == pr.rows
             u == a.rows
  <2>1. IsList(s) /\ IsList(new) /\ u = s \o new
    BY <1>1, <1>2
  <2> HIDE DEF s, u
  <2>2. IsList(u) /\ DOMAIN u = 1 .. Len(s) + Len(new)
    BY <2>1, ConcatIs
  <2>3. \A n \in 1 .. Len(s) : u[n] = s[n]
    BY <2>1, ConcatIs
  <2>4. \A n \in DOMAIN u : n \in 1 .. Len(s) \/ \E m \in 1 .. Len(new) : u[n] = new[m]
    BY <2>1, ConcatIs
  <2> QED BY <2>2, <2>3, <2>4 DEF s, u
<1>6. \A n \in DOMAIN a.rows :
         \/ a.rows[n].arc[1] = "prim" /\ a.rows[n].arc[2] \in DOMAIN a.prim_arcs
         \/ a.rows[n].arc[1] # "prim" /\ a.rows[n].arc[2] \in DOMAIN a.prototype_arcs
  <2> SUFFICES ASSUME NEW n \in DOMAIN a.rows
               PROVE  \/ a.rows[n].arc[1] = "prim" /\ a.rows[n].arc[2] \in DOMAIN a.prim_arcs
                      \/ a.rows[n].arc[1] # "prim" /\ a.rows[n].arc[2] \in DOMAIN a.prototype_arcs
    OBVIOUS
  <2>1. CASE n \in 1 .. Len(pr.rows)
    BY <1>1, <1>3, <1>5, <2>1 DEF ArcsGrow
  <2>2. CASE \E m \in 1 .. Len(new) : a.rows[n] = new[m]
    <3>1. a.rows[n].arc[1] = list /\ a.rows[n].arc[2] = at
      BY <1>2, <2>2
    <3> QED BY <3>1 DEF ArcsGrow
  <2> QED BY <1>5, <2>1, <2>2
<1>7. Sound(fn, a, f, o)
  <2>1. /\ a = [x \in Fields |-> a[x]] /\ IsList(a.prim_arcs)
        /\ a.spaces = pr.spaces /\ a.bindings = pr.bindings /\ a.collections = pr.collections
        /\ \A i \in DOMAIN a.prototype_arcs : a.prototype_arcs[i] = ComputeArcs(f, o, i)
    BY DEF ArcsGrow
  <2>2. /\ a.spaces = <<>> /\ a.bindings = <<>> /\ a.collections = <<>>
        /\ DOMAIN a.spaces = {} /\ DOMAIN a.bindings = {} /\ DOMAIN a.collections = {}
    BY <2>1 DEF Sound
  <2> QED BY <1>5, <1>6, <2>1, <2>2 DEF Sound
<1>8. \A n \in DOMAIN pr.rows : \A c :
         Write(fn, a, f, pr.rows[n], c, o) = Write(fn, pr, f, pr.rows[n], c, o)
  <2> SUFFICES ASSUME NEW n \in DOMAIN pr.rows, NEW c
               PROVE  Write(fn, a, f, pr.rows[n], c, o) = Write(fn, pr, f, pr.rows[n], c, o)
    OBVIOUS
  <2> DEFINE row == pr.rows[n]
  <2>1. \/ row.arc[1] = "prim" /\ row.arc[2] \in DOMAIN pr.prim_arcs
        \/ row.arc[1] # "prim" /\ row.arc[2] \in DOMAIN pr.prototype_arcs
    BY <1>1
  <2> HIDE DEF row
  <2>2. \/ /\ row.arc[1] = "prim"
           /\ row.arc[2] \in DOMAIN a.prim_arcs /\ row.arc[2] \in DOMAIN pr.prim_arcs
           /\ a.prim_arcs[row.arc[2]] = pr.prim_arcs[row.arc[2]]
        \/ /\ row.arc[1] # "prim"
           /\ row.arc[2] \in DOMAIN a.prototype_arcs /\ row.arc[2] \in DOMAIN pr.prototype_arcs
           /\ a.prototype_arcs[row.arc[2]] = pr.prototype_arcs[row.arc[2]]
    BY <2>1 DEF ArcsGrow
  <2>3. ArcOf(a, row) = ArcOf(pr, row)
    BY <2>2, ArcStays
  <2>4. Write(fn, a, f, row, c, o) = Write(fn, pr, f, row, c, o)
    BY <2>3, ArcsWriteAlike
  <2> QED BY <2>4 DEF row
<1>9. Adds(fn, pr, a, f, q, o)
  BY <1>7, <1>8 DEF Adds, ArcsGrow
<1> QED BY <1>4, <1>9

\* Two producers that each have a list of the same arcs add rows that show the same.
LEMMA ArcsBoth ==
    ASSUME NEW pr, NEW a, NEW fr, NEW b, NEW f \in DOMAIN Stages, NEW q, NEW o, NEW C,
           Comparable("usd_composition_arcs", pr, fr, f, o, C),
           NEW list, NEW at, NEW there, NEW arcs, NEW roots,
           NEW new, NEW old, RowsOfArcs(new, q, list, at, arcs, roots),
           RowsOfArcs(old, q, list, there, arcs, roots),
           ArcsGrow(pr, a, f, q, o, list, at, arcs, new),
           ArcsGrow(fr, b, f, q, o, list, there, arcs, old)
    PROVE  /\ Adds("usd_composition_arcs", pr, a, f, q, o)
           /\ Alike("usd_composition_arcs", pr, a, fr, b, f, o, C)
<1> DEFINE fn == "usd_composition_arcs"
<1>1. Sound(fn, pr, f, o) /\ Sound(fn, fr, f, o)
  BY DEF Comparable
<1>2. /\ Adds(fn, pr, a, f, q, o)
      /\ \A n \in 1 .. Len(arcs) : ArcOf(a, new[n]) = ArcShown(arcs[n])
  BY <1>1, ArcsKept
<1>3. \A n \in 1 .. Len(arcs) : ArcOf(b, old[n]) = ArcShown(arcs[n])
  BY <1>1, ArcsKept
<1>4. /\ IsList(new) /\ IsList(old) /\ Len(new) = Len(arcs) /\ Len(old) = Len(arcs)
      /\ \A n \in 1 .. Len(arcs) :
           /\ new[n].prim = old[n].prim /\ new[n].arc[3] = old[n].arc[3]
           /\ new[n].introducing_prim_path = old[n].introducing_prim_path
  BY DEF RowsOfArcs
<1>5. a.rows = pr.rows \o new /\ b.rows = fr.rows \o old
  BY DEF ArcsGrow
<1>6. ASSUME NEW n \in 1 .. Len(new), NEW c \in C
      PROVE  Write(fn, a, f, new[n], c, o) = Write(fn, b, f, old[n], c, o)
  <2> DEFINE row == new[n]
             other == old[n]
  <2>1. /\ row.prim = other.prim /\ row.arc[3] = other.arc[3]
        /\ row.introducing_prim_path = other.introducing_prim_path
        /\ ArcOf(a, row) = ArcOf(b, other)
    BY <1>2, <1>3, <1>4
  <2> HIDE DEF row, other
  <2>2. Write(fn, a, f, row, c, o) = Write(fn, b, f, other, c, o)
    BY <2>1, ArcsWriteAlike
  <2> QED BY <2>2 DEF row, other
<1>7. AlikeBy(fn, pr, a, fr, b, f, o, C, new, old)
  BY <1>4, <1>5, <1>6 DEF AlikeBy
<1>8. Alike(fn, pr, a, fr, b, f, o, C)
  BY <1>7 DEF Alike
<1> QED BY <1>2, <1>8

\* A list of a prim's arcs is added at the end of the lists.
LEMMA PrimArcsGrow ==
    ASSUME NEW pr, NEW f \in DOMAIN Stages, NEW q \in Paths(f), NEW o, NEW roots,
           Sound("usd_composition_arcs", pr, f, o)
    PROVE  LET arcs == ComputeArcs(f, o, q)
               at == Len(pr.prim_arcs) + 1
               new == ArcRows(q, "prim", at, arcs, roots)
           IN  ArcsGrow(pr, Buffered([pr EXCEPT !.prim_arcs = Append(@, arcs)], new),
                        f, q, o, "prim", at, arcs, new)
<1> DEFINE arcs == ComputeArcs(f, o, q)
           lists == pr.prim_arcs
           at == Len(lists) + 1
           new == ArcRows(q, "prim", at, arcs, roots)
           more == Append(lists, arcs)
           known == [pr EXCEPT !.prim_arcs = more]
           a == Buffered(known, new)
<1>1. /\ pr = [x \in Fields |-> pr[x]] /\ IsList(pr.prim_arcs)
      /\ \A i \in DOMAIN pr.prototype_arcs : pr.prototype_arcs[i] = ComputeArcs(f, o, i)
  BY DEF Sound
<1>2. IsList(arcs)
  BY ArcsAreList
<1> HIDE DEF arcs
<1>3. /\ IsList(new) /\ Len(new) = Len(arcs)
      /\ \A n \in 1 .. Len(arcs) : new[n].arc = <<"prim", at, n>>
  <2>1. RowsOfArcs(new, q, "prim", at, arcs, roots)
    BY <1>2, ArcRowsFacts
  <2> HIDE DEF new
  <2> QED BY <2>1 DEF RowsOfArcs
<1> HIDE DEF new
<1>4. /\ IsList(more) /\ DOMAIN more = 1 .. Len(lists) + 1 /\ Len(lists) \in Nat
      /\ Len(more) = Len(lists) + 1 /\ more[at] = arcs
      /\ DOMAIN lists = 1 .. Len(lists) /\ \A n \in 1 .. Len(lists) : more[n] = lists[n]
  <2> HIDE DEF lists
  <2>1. IsList(lists)
    BY <1>1 DEF lists
  <2>2. /\ IsList(more) /\ Len(more) = Len(lists) + 1 /\ more[at] = arcs
        /\ \A n \in 1 .. Len(lists) : more[n] = lists[n]
    BY <2>1, AppendIsList
  <2> HIDE DEF more
  <2> QED BY <2>1, <2>2, ListFacts
<1> HIDE DEF more
<1>5. /\ known = [x \in Fields |-> known[x]] /\ known.prim_arcs = more
      /\ known.time = pr.time /\ known.fetch_values = pr.fetch_values /\ known.spaces = pr.spaces
      /\ known.bindings = pr.bindings /\ known.collections = pr.collections
      /\ known.rows = pr.rows /\ known.prototype_arcs = pr.prototype_arcs
  BY <1>1 DEF Fields
<1> HIDE DEF known
<1>6. /\ a = [x \in Fields |-> a[x]] /\ a.rows = pr.rows \o new
      /\ a.time = pr.time /\ a.fetch_values = pr.fetch_values
      /\ a.spaces = pr.spaces /\ a.bindings = pr.bindings
      /\ a.collections = pr.collections /\ a.prim_arcs = more
      /\ a.prototype_arcs = pr.prototype_arcs
  <2>1. /\ a = [x \in Fields |-> a[x]] /\ a.rows = known.rows \o new
        /\ \A x \in Fields \ {"rows"} : a[x] = known[x]
    BY <1>5, BufferedFacts
  <2> HIDE DEF a
  <2> QED BY <1>5, <2>1 DEF Fields
<1> HIDE DEF a, at
<1>7. at \in 1 .. Len(lists) + 1
  BY <1>4 DEF at
<1>8. ArcsGrow(pr, a, f, q, o, "prim", at, arcs, new)
  <2>1. /\ \A n \in DOMAIN pr.prim_arcs : n \in DOMAIN a.prim_arcs /\ a.prim_arcs[n] = pr.prim_arcs[n]
        /\ at \in DOMAIN a.prim_arcs /\ a.prim_arcs[at] = arcs
        /\ Len(a.prim_arcs) <= Len(pr.prim_arcs) + 1
    BY <1>4, <1>6, <1>7
  <2>2. /\ \A i \in DOMAIN pr.prototype_arcs :
             i \in DOMAIN a.prototype_arcs /\ a.prototype_arcs[i] = pr.prototype_arcs[i]
        /\ DOMAIN a.prototype_arcs \subseteq DOMAIN pr.prototype_arcs \cup ListOf(f, o, q)
        /\ \A i \in DOMAIN a.prototype_arcs : a.prototype_arcs[i] = ComputeArcs(f, o, i)
    BY <1>1, <1>6
  <2> HIDE DEF lists
  <2> QED BY <1>2, <1>3, <1>4, <1>6, <2>1, <2>2 DEF ArcsGrow
<1> QED BY <1>8 DEF a, known, more, new, at, arcs

\* The list of a prototype's prim is the one the producer has, or a new one.
LEMMA PrototypeArcsGrow ==
    ASSUME NEW pr, NEW f \in DOMAIN Stages, NEW o, IsList(o.mask_path), NEW q \in Composed(f, o),
           "proxy" \in Prim(f, q).flags, NEW roots, Sound("usd_composition_arcs", pr, f, o)
    PROVE  LET index == IndexPath(f, o, q)
               arcs == ComputeArcs(f, o, index)
               lists == Over(pr.prototype_arcs, [i \in {index} |-> ComputeArcs(f, o, index)])
               new == ArcRows(q, "prototype", index, arcs, roots)
           IN  /\ lists[index] = arcs
               /\ ArcsGrow(pr, Buffered([pr EXCEPT !.prototype_arcs = lists], new),
                           f, q, o, "prototype", index, arcs, new)
<1> DEFINE index == IndexPath(f, o, q)
           arcs == ComputeArcs(f, o, index)
           lists == Over(pr.prototype_arcs, [i \in {index} |-> ComputeArcs(f, o, index)])
           new == ArcRows(q, "prototype", index, arcs, roots)
           known == [pr EXCEPT !.prototype_arcs = lists]
           a == Buffered(known, new)
<1>1. /\ pr = [x \in Fields |-> pr[x]] /\ IsList(pr.prim_arcs)
      /\ \A i \in DOMAIN pr.prototype_arcs : pr.prototype_arcs[i] = ComputeArcs(f, o, i)
  BY DEF Sound
<1>2. /\ index \in DOMAIN lists /\ DOMAIN lists \subseteq DOMAIN pr.prototype_arcs \cup {index}
      /\ \A i \in DOMAIN lists : lists[i] = ComputeArcs(f, o, i)
      /\ \A i \in DOMAIN pr.prototype_arcs : i \in DOMAIN lists
  <2> HIDE DEF index
  <2> QED BY <1>1 DEF Over
<1>3. IsList(arcs)
  <2>1. index \in Paths(f)
    BY IndexIsPath
  <2> HIDE DEF index
  <2> QED BY <2>1, ArcsAreList
<1>4. ListOf(f, o, q) = {index}
  BY DEF ListOf
<1> HIDE DEF lists, index
<1>5. lists[index] = arcs
  BY <1>2
<1> HIDE DEF arcs
<1>6. /\ IsList(new) /\ Len(new) = Len(arcs)
      /\ \A n \in 1 .. Len(arcs) : new[n].arc = <<"prototype", index, n>>
  <2>1. RowsOfArcs(new, q, "prototype", index, arcs, roots)
    BY <1>3, ArcRowsFacts
  <2> HIDE DEF new
  <2> QED BY <2>1 DEF RowsOfArcs
<1> HIDE DEF new
<1>7. /\ known = [x \in Fields |-> known[x]] /\ known.prim_arcs = pr.prim_arcs
      /\ known.time = pr.time /\ known.fetch_values = pr.fetch_values /\ known.spaces = pr.spaces
      /\ known.bindings = pr.bindings /\ known.collections = pr.collections
      /\ known.rows = pr.rows /\ known.prototype_arcs = lists
  BY <1>1 DEF Fields
<1> HIDE DEF known
<1>8. /\ a = [x \in Fields |-> a[x]] /\ a.rows = pr.rows \o new
      /\ a.time = pr.time /\ a.fetch_values = pr.fetch_values
      /\ a.spaces = pr.spaces /\ a.bindings = pr.bindings
      /\ a.collections = pr.collections /\ a.prim_arcs = pr.prim_arcs
      /\ a.prototype_arcs = lists
  <2>1. /\ a = [x \in Fields |-> a[x]] /\ a.rows = known.rows \o new
        /\ \A x \in Fields \ {"rows"} : a[x] = known[x]
    BY <1>7, BufferedFacts
  <2> HIDE DEF a
  <2> QED BY <1>7, <2>1 DEF Fields
<1> HIDE DEF a
<1>9. ArcsGrow(pr, a, f, q, o, "prototype", index, arcs, new)
  <2>1. /\ \A n \in DOMAIN pr.prim_arcs : n \in DOMAIN a.prim_arcs /\ a.prim_arcs[n] = pr.prim_arcs[n]
        /\ Len(a.prim_arcs) <= Len(pr.prim_arcs) + 1
    <3>1. Len(pr.prim_arcs) \in Nat
      BY <1>1, ListFacts
    <3> QED BY <1>8, <3>1
  <2>2. /\ \A i \in DOMAIN pr.prototype_arcs :
             i \in DOMAIN a.prototype_arcs /\ a.prototype_arcs[i] = pr.prototype_arcs[i]
        /\ DOMAIN a.prototype_arcs \subseteq DOMAIN pr.prototype_arcs \cup ListOf(f, o, q)
        /\ \A i \in DOMAIN a.prototype_arcs : a.prototype_arcs[i] = ComputeArcs(f, o, i)
        /\ index \in DOMAIN a.prototype_arcs /\ a.prototype_arcs[index] = arcs
    BY <1>1, <1>2, <1>4, <1>5, <1>8
  <2> QED BY <1>1, <1>3, <1>6, <1>8, <2>1, <2>2 DEF ArcsGrow
<1> QED BY <1>5, <1>9 DEF a, known, new, arcs, lists, index

\* The arcs of a prim are looked up in lists shared with others, and are the same
\* (UsdCompositionArcsProducer).
LEMMA ArcsAdd ==
    ASSUME NEW pr, NEW fr, NEW f \in DOMAIN Stages, NEW o, IsList(o.mask_path),
           NEW q \in Composed(f, o), NEW C,
           Comparable("usd_composition_arcs", pr, fr, f, o, C)
    PROVE  AddOK("usd_composition_arcs", pr, fr, f, q, o, C)
<1> DEFINE fn == "usd_composition_arcs"
<1>1. \A p : AddPrim(fn, p, f, q, o) = ArcsAddPrim(p, f, q, o)
  BY DEF AddPrim
<1>2. Sound(fn, pr, f, o) /\ Sound(fn, fr, f, o)
  BY DEF Comparable
<1>3. CASE "proxy" \notin Prim(f, q).flags
  <2> DEFINE arcs == ComputeArcs(f, o, q)
             roots == <<q, q>>
             at(p) == Len(p.prim_arcs) + 1
             new(p) == ArcRows(q, "prim", at(p), arcs, roots)
             added(p) == Buffered([p EXCEPT !.prim_arcs = Append(@, arcs)], new(p))
  <2>1. \A p : AddPrim(fn, p, f, q, o) = added(p)
    BY <1>1, <1>3 DEF ArcsAddPrim
  <2>2. q \in Paths(f)
    BY DEF Composed
  <2>3. \A p : Sound(fn, p, f, o) =>
            ArcsGrow(p, added(p), f, q, o, "prim", at(p), arcs, new(p))
    BY <2>2, PrimArcsGrow
  <2>4. IsList(arcs)
    BY <2>2, ArcsAreList
  <2> HIDE DEF roots, arcs, added, at
  <2>5. \A p : RowsOfArcs(new(p), q, "prim", at(p), arcs, roots)
    BY <2>4, ArcRowsFacts
  <2> HIDE DEF new
  <2>6. /\ Adds(fn, pr, added(pr), f, q, o)
        /\ Alike(fn, pr, added(pr), fr, added(fr), f, o, C)
    BY <1>2, <2>3, <2>5, ArcsBoth
  <2> QED BY <2>1, <2>6 DEF AddOK
<1>4. CASE "proxy" \in Prim(f, q).flags
  <2> DEFINE index == IndexPath(f, o, q)
             roots == Roots(index, q)
             arcs == ComputeArcs(f, o, index)
             lists(p) == Over(p.prototype_arcs, [i \in {index} |-> ComputeArcs(f, o, index)])
             new == ArcRows(q, "prototype", index, arcs, roots)
             added(p) == Buffered([p EXCEPT !.prototype_arcs = lists(p)],
                                  ArcRows(q, "prototype", index, lists(p)[index], roots))
             grown(p) == Buffered([p EXCEPT !.prototype_arcs = lists(p)], new)
  <2>1. \A p : AddPrim(fn, p, f, q, o) = added(p)
    <3>1. \A p : ArcsAddPrim(p, f, q, o) = added(p)
      BY <1>4 DEF ArcsAddPrim, With
    <3> HIDE DEF added
    <3> QED BY <1>1, <3>1
  <2>2. \A p : Sound(fn, p, f, o) =>
            /\ lists(p)[index] = arcs
            /\ ArcsGrow(p, grown(p), f, q, o, "prototype", index, arcs, new)
    BY <1>4, PrototypeArcsGrow
  <2>3. \A p : Sound(fn, p, f, o) => added(p) = grown(p)
    <3> HIDE DEF lists, arcs, index, roots
    <3> QED BY <2>2
  <2> HIDE DEF index, roots, arcs, grown, added
  <2>4. /\ AddPrim(fn, pr, f, q, o) = grown(pr) /\ AddPrim(fn, fr, f, q, o) = grown(fr)
        /\ ArcsGrow(pr, grown(pr), f, q, o, "prototype", index, arcs, new)
        /\ ArcsGrow(fr, grown(fr), f, q, o, "prototype", index, arcs, new)
    BY <1>2, <2>1, <2>2, <2>3
  <2>5. IsList(arcs)
    BY <2>4 DEF ArcsGrow
  <2>6. RowsOfArcs(new, q, "prototype", index, arcs, roots)
    BY <2>5, ArcRowsFacts
  <2> HIDE DEF new
  <2>7. /\ Adds(fn, pr, grown(pr), f, q, o)
        /\ Alike(fn, pr, grown(pr), fr, grown(fr), f, o, C)
    BY <2>4, <2>6, ArcsBoth
  <2> QED BY <2>4, <2>7 DEF AddOK
<1> QED BY <1>3, <1>4

\* Whatever the function, and whatever a producer has done before: adding a prim
\* keeps it in order, and adds rows like those of a producer it can be compared with.
LEMMA AddPrimOK ==
    ASSUME NEW fn \in PrimFunctions, NEW pr, NEW fr, NEW f \in DOMAIN Stages, NEW o,
           IsList(o.mask_path), NEW q \in Composed(f, o), NEW C, Comparable(fn, pr, fr, f, o, C)
    PROVE  AddOK(fn, pr, fr, f, q, o, C)
<1>1. q \in Paths(f)
  BY DEF Composed
<1>2. CASE fn = "usd_prims"
  BY <1>1, <1>2, PrimsAdd
<1>3. CASE fn = "usd_properties"
  BY <1>1, <1>3, PropertiesAdd
<1>4. CASE fn = "usd_time_samples"
  BY <1>1, <1>4, TimeSamplesAdd
<1>5. CASE fn = "usd_relationships"
  BY <1>1, <1>5, RelationshipsAdd
<1>6. CASE fn = "usd_variants"
  BY <1>1, <1>6, VariantsAdd
<1>7. CASE fn = "usd_xforms"
  BY <1>1, <1>7, XformsAdd
<1>8. CASE fn = "usd_bounds"
  BY <1>1, <1>8, BoundsAdd
<1>9. CASE fn = "usd_material_bindings"
  BY <1>1, <1>9, BindingsAdd
<1>10. CASE fn = "usd_composition_arcs"
  BY <1>10, ArcsAdd
<1> QED BY <1>2, <1>3, <1>4, <1>5, <1>6, <1>7, <1>8, <1>9, <1>10 DEF PrimFunctions

\* A producer between two morsels has no rows, and only the caches that it may take
\* to the next morsel.
Bare(fn, pr) ==
    /\ pr = [x \in Fields |-> pr[x]]
    /\ pr.rows = <<>> /\ pr.prim_arcs = <<>> /\ pr.bindings = <<>>
    /\ fn \notin {"usd_xforms", "usd_bounds"} => pr.spaces = <<>>
    /\ fn # "usd_material_bindings" => pr.collections = <<>>
    /\ fn # "usd_composition_arcs" => pr.prototype_arcs = <<>>

\* A producer that changes nothing but its rows, times and caches.
SameSetting(a, pr) == a.time = pr.time /\ a.fetch_values = pr.fetch_values

\* So is one that is new.
LEMMA NewIsBare ==
    ASSUME NEW fn, NEW o, NEW C
    PROVE  /\ Bare(fn, NewProducer(o, C)) /\ NewProducer(o, C).time = o.time
           /\ NewProducer(o, C).fetch_values = ({"value", "array_length"} \cap C # {})
<1> DEFINE fetches == {"value", "array_length"} \cap C # {}
<1> HIDE DEF fetches
<1> QED BY DEF Bare, NewProducer, Fields, fetches

\* What a file and the options of a stage function make the rows.
LEMMA StageLists ==
    ASSUME NEW f \in DOMAIN Stages
    PROVE  IsList(LayerRows(f)) /\ IsList(MetadataRows(f)) /\ IsList(ErrorRows(f))
<1>1. IsList(ErrorRows(f))
  BY StagesAssumption DEF ErrorRows
<1>2. IsList(MetadataRows(f))
  BY SingleIsList DEF MetadataRows
<1>3. IsList(LayerRows(f))
  <2> DEFINE others == {l \in Stages[f].layers : l \notin {Stages[f].root_layer, Stages[f].session_layer}}
             first == <<Stages[f].root_layer>>
             rest == Sorted(others)
             layers == first \o rest
             rows == [i \in DOMAIN layers |-> [layer |-> layers[i], is_root |-> i = 1]]
  <2>1. IsFiniteSet(Stages[f].layers) /\ others \subseteq Stages[f].layers
    BY StagesAssumption
  <2>2. IsFiniteSet(others)
    <3> HIDE DEF others
    <3> QED BY <2>1, FS_Subset
  <2>3. IsList(first) /\ IsList(rest)
    <3> HIDE DEF others
    <3> QED BY <2>2, SortedIsList, SingleIsList
  <2>4. LayerRows(f) = rows
    BY DEF LayerRows
  <2> HIDE DEF first, rest, others
  <2>5. IsList(layers)
    BY <2>3, ConcatIsList
  <2> HIDE DEF layers
  <2>6. Len(layers) \in Nat /\ DOMAIN layers = 1 .. Len(layers)
    BY <2>5, ListFacts
  <2>7. rows = [i \in 1 .. Len(layers) |-> rows[i]]
    BY <2>6
  <2> HIDE DEF rows
  <2>8. IsList(rows)
    BY <2>6, <2>7, FunctionIsList
  <2> QED BY <2>4, <2>8
<1> QED BY <1>1, <1>2, <1>3

\* The rows a producer has when a stage begins
Begun(fn, f) ==
    IF fn = "usd_layers" THEN LayerRows(f)
    ELSE IF fn = "usd_stage_metadata" THEN MetadataRows(f)
    ELSE IF fn = "usd_composition_errors" THEN ErrorRows(f) ELSE <<>>

\* A producer in order, with nothing of a prim.
Begins(fn, b, f, o) ==
    /\ Sound(fn, b, f, o)
    /\ b.prim_arcs = <<>> /\ b.bindings = <<>>

\* Dropping what belongs to another stage leaves the rest.
LEMMA DropFacts ==
    ASSUME NEW pr, pr = [x \in Fields |-> pr[x]]
    PROVE  /\ SpacesBeginStage(pr) = [x \in Fields |-> IF x = "spaces" THEN <<>> ELSE pr[x]]
           /\ BindingsBeginStage(pr) = [x \in Fields |-> IF x \in {"bindings", "collections"} THEN <<>> ELSE pr[x]]
           /\ ArcsBeginStage(pr) = [x \in Fields |-> IF x = "prototype_arcs" THEN <<>> ELSE pr[x]]
<1>1. DOMAIN pr = Fields
  OBVIOUS
<1> QED BY <1>1 DEF SpacesBeginStage, BindingsBeginStage, ArcsBeginStage, Fields

\* A producer without rows is in order if its caches belong to the stage.
LEMMA BareSound ==
    ASSUME NEW fn, NEW b, NEW f, NEW o, b = [x \in Fields |-> b[x]],
           b.spaces = <<>>, b.prim_arcs = <<>>, b.bindings = <<>>, b.collections = <<>>,
           b.prototype_arcs = <<>>, IsList(b.rows), fn = "usd_composition_arcs" => b.rows = <<>>
    PROVE  Begins(fn, b, f, o)
<1>1. DOMAIN <<>> = {}
  OBVIOUS
<1>2. IsList(b.prim_arcs)
  BY EmptyIsList
<1>3. \A x : x \notin DOMAIN <<>>
  BY <1>1
<1> QED BY <1>2, <1>3 DEF Begins, Sound

\* A stage begins with the caches of none before.
LEMMA BeginOK ==
    ASSUME NEW fn \in PrimFunctions \cup StageFunctions, NEW pr, Bare(fn, pr),
           NEW f \in DOMAIN Stages, NEW o
    PROVE  /\ Begins(fn, BeginStage(fn, pr, f), f, o) /\ SameSetting(BeginStage(fn, pr, f), pr)
           /\ BeginStage(fn, pr, f).rows = Begun(fn, f)
           /\ BeginStage(fn, pr, f).prototype_arcs = <<>>
<1> DEFINE b == BeginStage(fn, pr, f)
<1>1. /\ pr = [x \in Fields |-> pr[x]]
      /\ pr.rows = <<>> /\ pr.prim_arcs = <<>> /\ pr.bindings = <<>>
      /\ fn \notin {"usd_xforms", "usd_bounds"} => pr.spaces = <<>>
      /\ fn # "usd_material_bindings" => pr.collections = <<>>
      /\ fn # "usd_composition_arcs" => pr.prototype_arcs = <<>>
  BY DEF Bare
<1>2. CASE fn \in PrimFunctions
  <2>1. \/ fn \in {"usd_xforms", "usd_bounds"} /\ b = SpacesBeginStage(pr)
        \/ fn = "usd_material_bindings" /\ b = BindingsBeginStage(pr)
        \/ fn = "usd_composition_arcs" /\ b = ArcsBeginStage(pr)
        \/ fn \in PlainFunctions /\ b = pr
    BY <1>2 DEF BeginStage, PrimFunctions, PlainFunctions
  <2>2. fn \in PlainFunctions => fn \notin {"usd_xforms", "usd_bounds", "usd_material_bindings", "usd_composition_arcs"}
    BY DEF PlainFunctions
  <2> HIDE DEF b
  <2>3. /\ b = [x \in Fields |-> b[x]] /\ b.spaces = <<>> /\ b.prim_arcs = <<>>
        /\ b.bindings = <<>> /\ b.collections = <<>> /\ b.prototype_arcs = <<>>
        /\ b.rows = <<>> /\ b.time = pr.time /\ b.fetch_values = pr.fetch_values
    <3>1. CASE fn \in {"usd_xforms", "usd_bounds"} /\ b = SpacesBeginStage(pr)
      <4>1. b = [x \in Fields |-> IF x = "spaces" THEN <<>> ELSE pr[x]]
        BY <1>1, <3>1, DropFacts
      <4>2. b = [x \in Fields |-> b[x]] /\ \A x \in Fields : b[x] = IF x = "spaces" THEN <<>> ELSE pr[x]
        BY <4>1
      <4> QED BY <1>1, <3>1, <4>2 DEF Fields
    <3>2. CASE fn = "usd_material_bindings" /\ b = BindingsBeginStage(pr)
      <4>1. b = [x \in Fields |-> IF x \in {"bindings", "collections"} THEN <<>> ELSE pr[x]]
        BY <1>1, <3>2, DropFacts
      <4>2. b = [x \in Fields |-> b[x]] /\ \A x \in Fields : b[x] = IF x \in {"bindings", "collections"} THEN <<>> ELSE pr[x]
        BY <4>1
      <4> QED BY <1>1, <3>2, <4>2 DEF Fields
    <3>3. CASE fn = "usd_composition_arcs" /\ b = ArcsBeginStage(pr)
      <4>1. b = [x \in Fields |-> IF x = "prototype_arcs" THEN <<>> ELSE pr[x]]
        BY <1>1, <3>3, DropFacts
      <4>2. b = [x \in Fields |-> b[x]] /\ \A x \in Fields : b[x] = IF x = "prototype_arcs" THEN <<>> ELSE pr[x]
        BY <4>1
      <4> QED BY <1>1, <3>3, <4>2 DEF Fields
    <3>4. CASE fn \in PlainFunctions /\ b = pr
      BY <1>1, <2>2, <3>4
    <3> QED BY <2>1, <3>1, <3>2, <3>3, <3>4
  <2>4. IsList(b.rows)
    BY <2>3, EmptyIsList
  <2>5. Begins(fn, b, f, o)
    BY <2>3, <2>4, BareSound
  <2>6. Begun(fn, f) = <<>>
    BY <1>2 DEF Begun, PrimFunctions
  <2> QED BY <2>3, <2>5, <2>6 DEF SameSetting, b
<1>3. CASE fn \in StageFunctions
  <2> DEFINE rows == Begun(fn, f)
  <2>1. b = Buffered(pr, rows)
    BY <1>3 DEF BeginStage, StageFunctions, Begun
  <2>2. fn \notin {"usd_xforms", "usd_bounds", "usd_material_bindings", "usd_composition_arcs"}
    BY <1>3 DEF StageFunctions
  <2>3. IsList(rows)
    BY <1>3, StageLists DEF Begun, StageFunctions
  <2> HIDE DEF b, rows
  <2>4. <<>> \o rows = rows
    BY <2>3, ConcatIsList, EmptyIsList
  <2>5. /\ b = [x \in Fields |-> b[x]] /\ b.rows = pr.rows \o rows
        /\ \A x \in Fields \ {"rows"} : b[x] = pr[x]
    <3> DEFINE d == Buffered(pr, rows)
    <3>1. /\ d = [x \in Fields |-> d[x]] /\ d.rows = pr.rows \o rows
          /\ \A x \in Fields \ {"rows"} : d[x] = pr[x]
      BY <1>1, BufferedFacts
    <3>2. b = d
      BY <2>1
    <3> HIDE DEF d
    <3> QED BY <3>1, <3>2
  <2>6. b.rows = rows
    <3> DEFINE s == pr.rows
    <3>1. s = <<>> /\ b.rows = s \o rows
      BY <1>1, <2>5
    <3> HIDE DEF s
    <3>2. s \o rows = <<>> \o rows
      BY <3>1
    <3> QED BY <2>4, <3>1, <3>2
  <2>7. /\ b.spaces = <<>> /\ b.prim_arcs = <<>>
        /\ b.bindings = <<>> /\ b.collections = <<>> /\ b.prototype_arcs = <<>>
        /\ b.time = pr.time /\ b.fetch_values = pr.fetch_values
    BY <1>1, <2>2, <2>5 DEF Fields
  <2>8. IsList(b.rows)
    BY <2>3, <2>6
  <2>9. Begins(fn, b, f, o)
    BY <2>2, <2>5, <2>7, <2>8, BareSound
  <2> QED BY <2>6, <2>7, <2>9 DEF SameSetting, b, rows
<1> QED BY <1>2, <1>3

\* What is read of a prim depends on the filters that were pushed down.
LEMMA SelectionFrame ==
    ASSUME UNCHANGED pushdown, NEW f, NEW q
    PROVE  Selection(f, q)' = Selection(f, q)
<1>1. Get(<<f, q>>)' = Get(<<f, q>>)
  BY DEF Get, pushdown
<1> QED BY <1>1 DEF Selection

\* What a prim adds depends on the filters that were pushed down.
LEMMA AddFrame ==
    ASSUME UNCHANGED pushdown, NEW fn, NEW pr, NEW f, NEW q, NEW o
    PROVE  AddPrim(fn, pr, f, q, o)' = AddPrim(fn, pr, f, q, o)
<1>1. Selection(f, q)' = Selection(f, q)
  BY SelectionFrame
<1>2. PropertiesAddPrim(pr, f, q, o)' = PropertiesAddPrim(pr, f, q, o)
  BY <1>1 DEF PropertiesAddPrim
<1>3. TimeSamplesAddPrim(pr, f, q, o)' = TimeSamplesAddPrim(pr, f, q, o)
  BY <1>1 DEF TimeSamplesAddPrim
<1> QED BY <1>2, <1>3 DEF AddPrim

\* Clearing leaves a producer that is in order, and may begin another stage.
LEMMA ClearOK ==
    ASSUME NEW fn, NEW pr, NEW f, NEW o, Sound(fn, pr, f, o)
    PROVE  /\ Begins(fn, Clear(fn, pr), f, o) /\ SameSetting(Clear(fn, pr), pr)
           /\ Clear(fn, pr).rows = <<>>
           /\ Clear(fn, pr).prototype_arcs = pr.prototype_arcs
<1> DEFINE b == Clear(fn, pr)
<1>1. /\ pr = [x \in Fields |-> pr[x]]
      /\ \A key \in DOMAIN pr.spaces : key[1] = f /\ pr.spaces[key] = At(f, key[2], pr.time)
      /\ \A x \in DOMAIN pr.collections :
           x \in DOMAIN Stages[f].collections /\ pr.collections[x] = Stages[f].collections[x]
      /\ \A i \in DOMAIN pr.prototype_arcs : pr.prototype_arcs[i] = ComputeArcs(f, o, i)
      /\ fn \notin {"usd_xforms", "usd_bounds"} => pr.spaces = <<>>
      /\ fn # "usd_material_bindings" => pr.bindings = <<>> /\ pr.collections = <<>>
      /\ fn # "usd_composition_arcs" => pr.prim_arcs = <<>> /\ pr.prototype_arcs = <<>>
  BY DEF Sound
<1> DEFINE drops == {"rows"} \cup (IF fn = "usd_material_bindings" THEN {"bindings"} ELSE {})
                       \cup (IF fn = "usd_composition_arcs" THEN {"prim_arcs"} ELSE {})
<1>2. b = [x \in Fields |-> IF x \in drops THEN <<>> ELSE pr[x]]
  <2>1. DOMAIN pr = Fields
    BY <1>1
  <2>2. CASE fn = "usd_material_bindings"
    BY <1>1, <2>1, <2>2 DEF Clear, BindingsClear, Fields
  <2>3. CASE fn = "usd_composition_arcs"
    BY <1>1, <2>1, <2>3 DEF Clear, ArcsClear, Fields
  <2>4. CASE fn \notin {"usd_material_bindings", "usd_composition_arcs"}
    BY <1>1, <2>1, <2>4 DEF Clear, Fields
  <2> QED BY <2>2, <2>3, <2>4
<1> HIDE DEF b
<1>3. b = [x \in Fields |-> b[x]] /\ \A x \in Fields : b[x] = IF x \in drops THEN <<>> ELSE pr[x]
  BY <1>2
<1>4. /\ b.rows = <<>> /\ b.bindings = <<>> /\ b.prim_arcs = <<>>
      /\ b.spaces = pr.spaces /\ b.collections = pr.collections /\ b.prototype_arcs = pr.prototype_arcs
      /\ b.time = pr.time /\ b.fetch_values = pr.fetch_values
  BY <1>1, <1>3 DEF Fields
<1>5. IsList(b.rows) /\ IsList(b.prim_arcs) /\ \A n : n \notin DOMAIN <<>>
  BY <1>4, EmptyIsList
<1>6. Sound(fn, b, f, o)
  <2> HIDE DEF drops
  <2> QED BY <1>1, <1>3, <1>4, <1>5 DEF Sound
<1> QED BY <1>4, <1>6 DEF Begins, SameSetting, b

\* A producer without rows may begin another stage.
LEMMA BeginsBare ==
    ASSUME NEW fn, NEW b, NEW f, NEW o, Begins(fn, b, f, o), b.rows = <<>>
    PROVE  Bare(fn, b)
BY DEF Begins, Sound, Bare

\* The rows a producer has are written the same at another time.
LEMMA SetTimeOK ==
    ASSUME NEW fn \in PrimFunctions, NEW pr, NEW f, NEW o, Sound(fn, pr, f, o), NEW t
    PROVE  /\ Sound(fn, SetTime(fn, pr, t), f, o) /\ SetTime(fn, pr, t).time = t
           /\ \A x \in Fields \ {"time", "spaces"} : SetTime(fn, pr, t)[x] = pr[x]
           /\ \A row, c : Write(fn, SetTime(fn, pr, t), f, row, c, o) = Write(fn, pr, f, row, c, o)
<1> DEFINE b == SetTime(fn, pr, t)
<1>1. pr = [x \in Fields |-> pr[x]] /\ DOMAIN pr = Fields
  BY DEF Sound
<1>2. CASE t = pr.time
  <2>1. b = pr
    BY <1>2 DEF SetTime, SetCacheTime
  <2> QED BY <1>2, <2>1
<1>3. CASE t # pr.time
  <2>1. b = [x \in Fields |-> IF x = "time" THEN t ELSE IF x = "spaces" THEN <<>> ELSE pr[x]]
    BY <1>1, <1>3 DEF SetTime, SetCacheTime, Fields
  <2> HIDE DEF b
  <2>2. /\ b = [x \in Fields |-> b[x]]
        /\ \A x \in Fields : b[x] = IF x = "time" THEN t ELSE IF x = "spaces" THEN <<>> ELSE pr[x]
    BY <2>1
  <2>3. /\ b.time = t /\ b.spaces = <<>> /\ b.rows = pr.rows /\ b.prim_arcs = pr.prim_arcs
        /\ b.bindings = pr.bindings /\ b.collections = pr.collections
        /\ b.prototype_arcs = pr.prototype_arcs
    BY <2>2 DEF Fields
  <2>4. \A x \in Fields \ {"time", "spaces"} : b[x] = pr[x]
    BY <2>2
  <2>5. Sound(fn, b, f, o)
    <3>1. \A key : key \notin DOMAIN <<>>
      OBVIOUS
    <3> QED BY <2>2, <2>3, <3>1 DEF Sound
  <2>6. \A row, c : Write(fn, b, f, row, c, o) = Write(fn, pr, f, row, c, o)
    <3> SUFFICES ASSUME NEW row, NEW c PROVE Write(fn, b, f, row, c, o) = Write(fn, pr, f, row, c, o)
      OBVIOUS
    <3>1. CASE fn # "usd_composition_arcs"
      BY <3>1, WriteAlike
    <3>2. CASE fn = "usd_composition_arcs"
      <4>1. ArcOf(b, row) = ArcOf(pr, row)
        BY <2>3 DEF ArcOf
      <4> QED BY <3>2, <4>1, ArcsWriteAlike
    <3> QED BY <3>1, <3>2
  <2> QED BY <2>3, <2>4, <2>5, <2>6 DEF b
<1> QED BY <1>2, <1>3

-----------------------------------------------------------------------------
(* The rows of a morsel, one prim after the other and one time after another *)

\* Lists can be joined in any order of the joints.
LEMMA ListsJoin ==
    ASSUME NEW a, NEW b, NEW c, IsList(a), IsList(b), IsList(c)
    PROVE  (a \o b) \o c = a \o (b \o c)
<1> DEFINE A == ToSet(a) \cup ToSet(b) \cup ToSet(c)
<1>1. a \in Seq(A) /\ b \in Seq(A) /\ c \in Seq(A)
  BY ListFacts, ListIsSequence
<1> HIDE DEF A
<1> QED BY <1>1, ConcatAssociative

\* The same, for provers that must not look into it
Cat(a, b) == a \o b

\* Lists joined are a list, whatever the order of the joints.
LEMMA CatFacts ==
    ASSUME NEW a, NEW b, NEW c, IsList(a), IsList(b), IsList(c)
    PROVE  /\ Cat(Cat(a, b), c) = Cat(a, Cat(b, c))
           /\ IsList(Cat(a, b))
<1>1. (a \o b) \o c = a \o (b \o c)
  BY ListsJoin
<1>2. IsList(a \o b)
  BY ConcatIsList
<1> QED BY <1>1, <1>2, Zenon DEF Cat

\* A list of lists.
IsLists(g) == IsList(g) /\ \A i \in 1 .. Len(g) : IsList(g[i])

\* What FlattenSeq makes of the first n of them
Before(g, n) == FlattenSeq([k \in 1 .. n |-> g[k]])

\* It grows from nothing to everything.
LEMMA BeforeFacts ==
    ASSUME NEW g, IsLists(g)
    PROVE  /\ Before(g, 0) = <<>> /\ Before(g, Len(g)) = FlattenSeq(g)
           /\ \A n \in 0 .. Len(g) : IsList(Before(g, n))
           /\ \A n \in 1 .. Len(g) : Before(g, n) = Before(g, n - 1) \o g[n]
           /\ \A n \in 0 .. Len(g) : \E rest : IsList(rest) /\ FlattenSeq(g) = Before(g, n) \o rest
<1> DEFINE A == UNION {ToSet(g[i]) : i \in 1 .. Len(g)}
<1>1. Len(g) \in Nat /\ DOMAIN g = 1 .. Len(g) /\ g = [i \in 1 .. Len(g) |-> g[i]]
  BY ListFacts DEF IsLists
<1>2. \A i \in 1 .. Len(g) : g[i] \in Seq(A)
  <2> SUFFICES ASSUME NEW i \in 1 .. Len(g) PROVE g[i] \in Seq(A)
    OBVIOUS
  <2>1. IsList(g[i])
    BY DEF IsLists
  <2>2. \A n \in 1 .. Len(g[i]) : g[i][n] \in A
    BY <2>1, ListFacts
  <2> HIDE DEF A
  <2> QED BY <2>1, <2>2, ListIsSequence
<1> HIDE DEF A
<1> DEFINE first(n) == [k \in 1 .. n |-> g[k]]
<1>3. \A n \in 0 .. Len(g) : first(n) \in Seq(Seq(A)) /\ Len(first(n)) = n
  <2> SUFFICES ASSUME NEW n \in 0 .. Len(g) PROVE first(n) \in Seq(Seq(A)) /\ Len(first(n)) = n
    OBVIOUS
  <2>1. n \in Nat /\ \A k \in 1 .. n : k \in 1 .. Len(g)
    BY <1>1
  <2>2. first(n) \in [1 .. n -> Seq(A)]
    BY <1>2, <2>1
  <2> QED BY <2>1, <2>2
<1>4. \A n \in 0 .. Len(g) : FlattenSeq(first(n)) \in Seq(A)
  <2> HIDE DEF first
  <2> QED BY <1>3, FlattenType
<1>5. first(0) = <<>> /\ first(Len(g)) = g
  BY <1>1
<1>6. \A n \in 0 .. Len(g) : Before(g, n) = FlattenSeq(first(n))
  BY DEF Before
<1>7. Before(g, 0) = <<>> /\ Before(g, Len(g)) = FlattenSeq(g)
  <2> HIDE DEF first
  <2>1. 0 \in 0 .. Len(g) /\ Len(g) \in 0 .. Len(g)
    BY <1>1
  <2> QED BY <1>5, <1>6, <2>1, FlattenEmpty
<1>8. ASSUME NEW n \in 0 .. Len(g) PROVE IsList(Before(g, n))
  <2> HIDE DEF first
  <2> QED BY <1>4, <1>6, SequenceIsList
<1>9. ASSUME NEW n \in 1 .. Len(g) PROVE Before(g, n) = Before(g, n - 1) \o g[n]
  <2>1. n - 1 \in 0 .. Len(g) /\ n \in 0 .. Len(g) /\ n \in Nat /\ n - 1 \in Nat
    BY <1>1
  <2> DEFINE s == first(n - 1)
             t == first(n)
             x == g[n]
  <2>2. /\ s \in Seq(Seq(A)) /\ Len(s) = n - 1 /\ t \in Seq(Seq(A)) /\ Len(t) = n /\ x \in Seq(A)
        /\ FlattenSeq(s) \in Seq(A)
    <3> HIDE DEF first
    <3> QED BY <1>2, <1>3, <1>4, <2>1
  <2>3. \A i \in 1 .. n - 1 : t[i] = s[i]
    BY <2>1
  <2>4. t[n] = x
    BY <2>1
  <2> HIDE DEF s, t, x, first
  <2>5. IsList(s) /\ IsList(t)
    BY <2>2, SequenceIsList
  <2>6. /\ IsList(Append(s, x)) /\ Len(Append(s, x)) = n /\ Append(s, x)[n] = x
        /\ \A i \in 1 .. n - 1 : Append(s, x)[i] = s[i]
    <3>1. (n - 1) + 1 = n
      BY <2>1
    <3> QED BY <2>2, <2>5, <3>1, AppendIsList
  <2>7. t = Append(s, x)
    <3> DEFINE u == Append(s, x)
    <3>1. IsList(u) /\ Len(u) = n /\ u[n] = x /\ \A i \in 1 .. n - 1 : u[i] = s[i]
      BY <2>6
    <3> HIDE DEF u
    <3>2. \A i \in 1 .. n : i = n \/ i \in 1 .. n - 1
      BY <2>1
    <3>3. \A i \in 1 .. n : t[i] = u[i]
      BY <2>3, <2>4, <3>1, <3>2
    <3>4. t = u
      BY <2>2, <2>5, <3>1, <3>3, ListsEqual
    <3> QED BY <3>4 DEF u
  <2>8. FlattenSeq(Append(s, x)) = FlattenSeq(s) \o x
    BY <2>2, FlattenAppend
  <2>9. Before(g, n) = FlattenSeq(t) /\ Before(g, n - 1) = FlattenSeq(s)
    BY <1>6, <2>1 DEF s, t
  <2> QED BY <2>7, <2>8, <2>9 DEF x
<1>10. ASSUME NEW n \in 0 .. Len(g)
       PROVE  \E rest : IsList(rest) /\ FlattenSeq(g) = Before(g, n) \o rest
  <2> DEFINE s == first(n)
             m == Len(g) - n
             back == [k \in 1 .. m |-> g[n + k]]
             u == s \o back
  <2>1. m \in Nat /\ n \in Nat /\ n + m = Len(g) /\ \A k \in 1 .. m : n + k \in 1 .. Len(g)
    BY <1>1
  <2>2. back \in [1 .. m -> Seq(A)] /\ \A k \in 1 .. m : back[k] = g[n + k]
    <3> HIDE DEF m
    <3> QED BY <1>2, <2>1
  <2>3. s \in Seq(Seq(A)) /\ Len(s) = n /\ \A i \in 1 .. n : s[i] = g[i]
    <3>1. \A i \in 1 .. n : s[i] = g[i]
      OBVIOUS
    <3> HIDE DEF first
    <3> QED BY <1>3, <3>1
  <2> HIDE DEF back, s, m
  <2>4. back \in Seq(Seq(A)) /\ Len(back) = m
    BY <2>1, <2>2
  <2>5. IsList(s) /\ IsList(back) /\ IsList(g)
    BY <2>3, <2>4, SequenceIsList DEF IsLists
  <2>6. /\ IsList(u) /\ Len(u) = n + m
        /\ \A i \in 1 .. n : u[i] = s[i]
        /\ \A i \in 1 .. m : u[n + i] = back[i]
        /\ \A i \in 1 .. Len(u) : i \in 1 .. n \/ (i - n \in 1 .. m /\ i = n + (i - n))
    <3>1. /\ IsList(u) /\ Len(u) = Len(s) + Len(back)
          /\ \A i \in 1 .. Len(s) : u[i] = s[i]
          /\ \A i \in 1 .. Len(back) : u[Len(s) + i] = back[i]
          /\ \A i \in 1 .. Len(u) :
               i \in 1 .. Len(s) \/ (i - Len(s) \in 1 .. Len(back) /\ i = Len(s) + (i - Len(s)))
      BY <2>5, ConcatIsList
    <3> HIDE DEF u
    <3> QED BY <2>3, <2>4, <3>1
  <2> HIDE DEF u
  <2>7. \A i \in 1 .. Len(u) : u[i] = g[i]
    <3> SUFFICES ASSUME NEW i \in 1 .. Len(u) PROVE u[i] = g[i]
      OBVIOUS
    <3>1. CASE i \in 1 .. n
      BY <2>3, <2>6, <3>1
    <3>2. CASE i - n \in 1 .. m /\ i = n + (i - n)
      <4> DEFINE k == i - n
      <4>1. k \in 1 .. m /\ i = n + k
        BY <3>2
      <4> HIDE DEF k
      <4>2. u[n + k] = back[k] /\ back[k] = g[n + k]
        BY <2>2, <2>6, <4>1
      <4> QED BY <4>1, <4>2
    <3> QED BY <2>6, <3>1, <3>2
  <2>8. u = g
    <3>1. Len(u) = Len(g)
      BY <2>1, <2>6
    <3> QED BY <2>5, <2>6, <2>7, <3>1, ListsEqual
  <2>9. FlattenSeq(s \o back) = FlattenSeq(s) \o FlattenSeq(back)
    BY <2>3, <2>4, FlattenConcat
  <2>10. IsList(FlattenSeq(back))
    BY <2>4, FlattenType, SequenceIsList
  <2>11. Before(g, n) = FlattenSeq(s)
    BY <1>6 DEF s
  <2>12. FlattenSeq(g) = Before(g, n) \o FlattenSeq(back)
    BY <2>8, <2>9, <2>11 DEF u
  <2> QED BY <2>10, <2>12
<1> QED BY <1>7, <1>8, <1>9, <1>10

\* Lists of lists, and the lists they make
Nested(runs, blocks) ==
    /\ IsList(runs) /\ IsList(blocks) /\ Len(blocks) = Len(runs)
    /\ \A j \in 1 .. Len(runs) : IsLists(blocks[j]) /\ runs[j] = FlattenSeq(blocks[j])

\* What comes before the i-th part of the j-th run
Position(runs, blocks, j, i) == Before(runs, j - 1) \o Before(blocks[j], i - 1)

\* From the j-th run on, the rest comes.
Reaches(runs, blocks, j) ==
    \A i \in 1 .. Len(blocks[j]) + 1 :
        /\ IsList(Position(runs, blocks, j, i))
        /\ \E rest : IsList(rest) /\ FlattenSeq(runs) = Position(runs, blocks, j, i) \o rest

\* Part by part, and run by run, everything comes.
LEMMA PositionFacts ==
    ASSUME NEW runs, NEW blocks, Nested(runs, blocks), NEW j \in 1 .. Len(runs)
    PROVE  /\ j = 1 => Position(runs, blocks, j, 1) = <<>>
           /\ \A i \in 1 .. Len(blocks[j]) :
                Position(runs, blocks, j, i + 1) = Position(runs, blocks, j, i) \o blocks[j][i]
           /\ j + 1 \in 1 .. Len(runs) =>
                Position(runs, blocks, j, Len(blocks[j]) + 1) = Position(runs, blocks, j + 1, 1)
           /\ Reaches(runs, blocks, j)
<1> DEFINE b == blocks[j]
<1>1. /\ IsList(runs) /\ Len(runs) \in Nat /\ IsLists(b) /\ IsList(b) /\ Len(b) \in Nat
      /\ runs[j] = FlattenSeq(b)
  BY ListFacts DEF Nested, IsLists
<1>2. IsLists(runs)
  <2> SUFFICES ASSUME NEW k \in 1 .. Len(runs) PROVE IsList(runs[k])
    BY <1>1 DEF IsLists
  <2>1. IsLists(blocks[k]) /\ runs[k] = FlattenSeq(blocks[k])
    BY DEF Nested
  <2> QED BY <2>1, FlattenIsList DEF IsLists
<1> HIDE DEF b
<1>3. /\ Before(runs, 0) = <<>>
      /\ \A n \in 0 .. Len(runs) : IsList(Before(runs, n))
      /\ \A n \in 1 .. Len(runs) : Before(runs, n) = Before(runs, n - 1) \o runs[n]
      /\ \A n \in 0 .. Len(runs) : \E rest : IsList(rest) /\ FlattenSeq(runs) = Before(runs, n) \o rest
  BY <1>2, BeforeFacts
<1>4. /\ Before(b, 0) = <<>> /\ Before(b, Len(b)) = FlattenSeq(b)
      /\ \A n \in 0 .. Len(b) : IsList(Before(b, n))
      /\ \A n \in 1 .. Len(b) : Before(b, n) = Before(b, n - 1) \o b[n]
      /\ \A n \in 0 .. Len(b) : \E rest : IsList(rest) /\ FlattenSeq(b) = Before(b, n) \o rest
  BY <1>1, BeforeFacts
<1> DEFINE done == Before(runs, j - 1)
<1>5. IsList(done)
  <2>1. j - 1 \in 0 .. Len(runs)
    BY <1>1
  <2> QED BY <1>3, <2>1
<1>6. j = 1 => done = <<>>
  BY <1>3
<1>7. \A i : Position(runs, blocks, j, i) = done \o Before(b, i - 1)
  BY DEF Position, b
<1>8. Before(runs, j) = done \o FlattenSeq(b)
  BY <1>1, <1>3
<1> HIDE DEF done
<1>9. ASSUME j = 1 PROVE Position(runs, blocks, j, 1) = <<>>
  <2> DEFINE s == Before(b, 1 - 1)
  <2>1. s = <<>>
    BY <1>4
  <2>2. Position(runs, blocks, j, 1) = done \o s
    BY <1>7
  <2> HIDE DEF s
  <2>3. done \o s = <<>> \o <<>>
    BY <1>6, <1>9, <2>1
  <2> QED BY <2>2, <2>3, ConcatIsList, EmptyIsList
<1>10. ASSUME NEW i \in 1 .. Len(b)
       PROVE  Position(runs, blocks, j, i + 1) = Position(runs, blocks, j, i) \o b[i]
  <2> DEFINE s == Before(b, i - 1)
             x == b[i]
             t == Before(b, i)
  <2>1. IsList(s) /\ IsList(x) /\ t = s \o x
    <3>1. i - 1 \in 0 .. Len(b)
      BY <1>1
    <3> QED BY <1>1, <1>4, <3>1 DEF IsLists
  <2>2. (i + 1) - 1 = i
    BY <1>1
  <2>3. Position(runs, blocks, j, i + 1) = done \o t /\ Position(runs, blocks, j, i) = done \o s
    <3>1. Position(runs, blocks, j, i + 1) = done \o Before(b, (i + 1) - 1)
      BY <1>7
    <3>2. Before(b, (i + 1) - 1) = t
      BY <2>2
    <3>3. Position(runs, blocks, j, i) = done \o s
      BY <1>7
    <3> HIDE DEF t, s
    <3> QED BY <3>1, <3>2, <3>3
  <2> HIDE DEF s, x, t
  <2>4. (done \o s) \o x = done \o (s \o x)
    <3>1. Cat(Cat(done, s), x) = Cat(done, Cat(s, x))
      BY <1>5, <2>1, CatFacts
    <3> QED BY <3>1, Zenon DEF Cat
  <2>5. done \o t = (done \o s) \o x
    BY <2>1, <2>4
  <2> QED BY <2>3, <2>5, Zenon DEF x
<1>11. ASSUME j + 1 \in 1 .. Len(runs)
       PROVE  Position(runs, blocks, j, Len(b) + 1) = Position(runs, blocks, j + 1, 1)
  <2>1. (Len(b) + 1) - 1 = Len(b) /\ (j + 1) - 1 = j
    BY <1>1
  <2>2. Position(runs, blocks, j, Len(b) + 1) = done \o FlattenSeq(b)
    <3> DEFINE s == Before(b, (Len(b) + 1) - 1)
    <3>1. s = FlattenSeq(b)
      BY <1>4, <2>1
    <3>2. Position(runs, blocks, j, Len(b) + 1) = done \o s
      BY <1>7
    <3> HIDE DEF s
    <3> QED BY <3>1, <3>2
  <2>3. Position(runs, blocks, j + 1, 1) = Before(runs, j)
    <3> DEFINE s == Before(runs, (j + 1) - 1)
               t == Before(blocks[j + 1], 1 - 1)
    <3>1. s = Before(runs, j)
      BY <2>1
    <3>2. t = <<>>
      <4> DEFINE c == blocks[j + 1]
      <4>1. IsLists(c)
        BY <1>11 DEF Nested
      <4>2. 1 - 1 = 0
        OBVIOUS
      <4> HIDE DEF c
      <4>3. Before(c, 0) = <<>>
        BY <4>1, BeforeFacts
      <4> QED BY <4>2, <4>3 DEF c
    <3>3. Position(runs, blocks, j + 1, 1) = s \o t
      BY DEF Position
    <3>4. IsList(s)
      BY <1>3, <3>1
    <3> HIDE DEF s, t
    <3>5. s \o t = s \o <<>>
      BY <3>2
    <3>6. s \o <<>> = s
      BY <3>4, ConcatIsList, EmptyIsList
    <3> QED BY <3>1, <3>3, <3>5, <3>6
  <2> QED BY <1>8, <2>2, <2>3
<1>12. ASSUME NEW i \in 1 .. Len(b) + 1
       PROVE  /\ IsList(Position(runs, blocks, j, i))
              /\ \E rest : IsList(rest) /\ FlattenSeq(runs) = Position(runs, blocks, j, i) \o rest
  <2> DEFINE s == Before(b, i - 1)
             p == Position(runs, blocks, j, i)
             all == FlattenSeq(runs)
             run == FlattenSeq(b)
             so == Before(runs, j)
  <2>1. i - 1 \in 0 .. Len(b)
    BY <1>1
  <2>2. IsList(s) /\ p = Cat(done, s)
    BY <1>4, <1>7, <2>1 DEF Cat
  <2>3. PICK r1 : IsList(r1) /\ run = Cat(s, r1)
    BY <1>4, <2>1 DEF Cat
  <2>4. j \in 0 .. Len(runs)
    BY <1>1
  <2>5. PICK r2 : IsList(r2) /\ all = Cat(so, r2)
    BY <1>3, <2>4 DEF Cat
  <2>6. so = Cat(done, run)
    BY <1>8 DEF Cat
  <2> HIDE DEF s, p, all, run, so
  <2>7. IsList(p)
    BY <1>5, <2>2, CatFacts
  <2>8. so = Cat(p, r1)
    BY <1>5, <2>2, <2>3, <2>6, CatFacts
  <2>9. all = Cat(p, Cat(r1, r2)) /\ IsList(Cat(r1, r2))
    BY <2>3, <2>5, <2>7, <2>8, CatFacts
  <2> QED BY <2>7, <2>9 DEF p, all, Cat
<1>13. Reaches(runs, blocks, j)
  BY <1>12 DEF Reaches, b
<1> QED BY <1>9, <1>10, <1>11, <1>13 DEF b

-----------------------------------------------------------------------------
(* The arcs of a prim and of its counterpart on the source instance, and what *)
(* is made of either: the rows a prim adds show its own arcs. *)

\* The places of a list whose elements are in S
Places(s, S) == Among([n \in 1 .. Len(s) |-> n], {n \in 1 .. Len(s) : s[n] \in S})

\* Selecting elements is selecting places.
LEMMA AmongPlaces ==
    ASSUME NEW s, IsList(s), NEW S
    PROVE  /\ Places(s, S) \in Seq(1 .. Len(s))
           /\ Among(s, S) = Each(s, Places(s, S))
<1> DEFINE N == Len(s)
           D == 1 .. N
           z == [n \in D |-> n]
           Z == {n \in D : s[n] \in S}
           here == Ones(z, Z)
           there == Ones(s, S)
<1>1. N \in Nat /\ DOMAIN s = D /\ s \in Seq(ToSet(s)) /\ \A n \in D : s[n] \in ToSet(s)
  BY ListFacts DEF IsList
<1>2. z \in [D -> D] /\ z \in Seq(D) /\ DOMAIN z = D
  BY <1>1
<1>3. here \in Seq(Seq(D)) /\ Among(z, Z) = FlattenSeq(here)
  <2> HIDE DEF z, Z
  <2> QED BY <1>2, OnesType
<1>4. Among(s, S) = FlattenSeq(there)
  BY <1>1, OnesType
<1>5. there = EachOfEach(s, here)
  <2>1. DOMAIN here = D /\ \A n \in D : here[n] = One(n, Z)
    BY <1>2 DEF Ones
  <2>2. DOMAIN there = D /\ \A n \in D : there[n] = One(s[n], S)
    BY <1>1 DEF Ones
  <2>3. ASSUME NEW n \in D PROVE One(s[n], S) = Each(s, One(n, Z))
    <3>1. CASE s[n] \in S
      <4>1. One(s[n], S) = <<s[n]>> /\ One(n, Z) = <<n>>
        BY <3>1 DEF One
      <4>2. Each(s, <<n>>) = <<s[n]>>
        BY DEF Each
      <4> QED BY <4>1, <4>2
    <3>2. CASE s[n] \notin S
      <4>1. One(s[n], S) = <<>> /\ One(n, Z) = <<>>
        BY <3>2 DEF One
      <4>2. Each(s, <<>>) = <<>>
        BY DEF Each
      <4> QED BY <4>1, <4>2
    <3> QED BY <3>1, <3>2
  <2>4. there = [n \in D |-> there[n]] /\ EachOfEach(s, here) = [n \in D |-> Each(s, here[n])]
    BY <2>1, <2>2 DEF EachOfEach, Ones
  <2> HIDE DEF here, there, Z
  <2>5. \A n \in D : there[n] = Each(s, here[n])
    BY <2>1, <2>2, <2>3
  <2> QED BY <2>4, <2>5
<1> HIDE DEF z, Z, here, there
<1>6. FlattenSeq(EachOfEach(s, here)) = Each(s, FlattenSeq(here))
  <2>1. \A n \in D : s[n] \in ToSet(s)
    BY <1>1
  <2> HIDE DEF D
  <2> QED BY <1>3, <2>1, EachFlattened, Zenon
<1>7. Places(s, S) = Among(z, Z)
  BY DEF Places, z, Z
<1>8. Among(z, Z) \in Seq(D)
  BY <1>3, FlattenType
<1> QED BY <1>3, <1>4, <1>5, <1>6, <1>7, <1>8

\* What S selects of s is, side by side, what T selects of t
SelectedAlike(s, S, t, T) ==
    /\ IsList(Among(s, S)) /\ IsList(Among(t, T)) /\ Len(Among(s, S)) = Len(Among(t, T))
    /\ \A n \in 1 .. Len(Among(s, S)) :
         \E m \in 1 .. Len(s) : Among(s, S)[n] = s[m] /\ Among(t, T)[n] = t[m]

\* What is selected at the same places of two lists is selected side by side.
LEMMA AmongAlike ==
    ASSUME NEW s, NEW t, IsList(s), IsList(t), Len(s) = Len(t), NEW S, NEW T,
           \A n \in 1 .. Len(s) : s[n] \in S <=> t[n] \in T
    PROVE  SelectedAlike(s, S, t, T)
<1> DEFINE w == Places(s, S)
<1>1. Places(t, T) = w
  <2>1. {n \in 1 .. Len(s) : s[n] \in S} = {n \in 1 .. Len(t) : t[n] \in T}
    OBVIOUS
  <2> QED BY <2>1 DEF Places
<1>2. w \in Seq(1 .. Len(s)) /\ Among(s, S) = Each(s, w) /\ Among(t, T) = Each(t, w)
  BY <1>1, AmongPlaces
<1> HIDE DEF w
<1>3. IsList(w) /\ Len(w) \in Nat
  BY <1>2, SequenceIsList, ListFacts
<1>4. \A n \in 1 .. Len(w) : w[n] \in 1 .. Len(s)
  BY <1>2, <1>3, ElementOfSeq
<1>5. /\ IsList(Each(s, w)) /\ Len(Each(s, w)) = Len(w)
      /\ IsList(Each(t, w)) /\ Len(Each(t, w)) = Len(w)
      /\ \A n \in 1 .. Len(w) : Each(s, w)[n] = s[w[n]] /\ Each(t, w)[n] = t[w[n]]
  BY <1>3, EachFacts
<1> QED BY <1>2, <1>4, <1>5 DEF SelectedAlike

\* What is left of a list without its last k elements, and without its first k
Shorter(s, k) == SubSeq(s, 1, Len(s) - k)
Beyond(s, k) == SubSeq(s, k + 1, Len(s))

\* A list without its last elements.
LEMMA ShorterFacts ==
    ASSUME NEW s, IsList(s), NEW k \in 0 .. Len(s)
    PROVE  /\ IsList(Shorter(s, k)) /\ Len(Shorter(s, k)) = Len(s) - k
           /\ \A n \in 1 .. Len(s) - k : n \in 1 .. Len(s) /\ Shorter(s, k)[n] = s[n]
<1> DEFINE A == ToSet(s)
           m == Len(s) - k
           t == Shorter(s, k)
<1>1. /\ Len(s) \in Nat /\ k \in Nat /\ m \in 0 .. Len(s) /\ m \in Int /\ 1 \in Int
      /\ \A n \in 1 .. m : n \in 1 .. Len(s)
      /\ \A n \in 1 .. Len(s) : s[n] \in A
  BY ListFacts
<1>2. t = SubSeq(s, 1, m)
  BY DEF Shorter
<1> HIDE DEF A, m, t
<1>3. \A n \in 1 .. m : s[n] \in A
  BY <1>1
<1>4. /\ t \in Seq(A) /\ Len(t) = IF 1 <= m THEN m - 1 + 1 ELSE 0
      /\ \A n \in 1 .. m - 1 + 1 : t[n] = s[1 + n - 1]
  BY <1>1, <1>2, <1>3, SubSeqProperties
<1>5. m \in Nat /\ (~ (1 <= m) => m = 0) /\ m - 1 + 1 = m /\ \A n \in 1 .. m : 1 + n - 1 = n
  BY <1>1
<1>6. Len(t) = m /\ IsList(t)
  BY <1>4, <1>5, SequenceIsList
<1>7. \A n \in 1 .. m : t[n] = s[n]
  <2> SUFFICES ASSUME NEW n \in 1 .. m PROVE t[n] = s[n]
    OBVIOUS
  <2>1. n \in 1 .. m - 1 + 1 /\ 1 + n - 1 = n
    BY <1>5
  <2> QED BY <1>4, <2>1
<1> QED BY <1>1, <1>6, <1>7 DEF m, t

\* A list without its first elements.
LEMMA BeyondFacts ==
    ASSUME NEW s, IsList(s), NEW k \in 0 .. Len(s)
    PROVE  /\ IsList(Beyond(s, k)) /\ Len(Beyond(s, k)) = Len(s) - k
           /\ \A n \in 1 .. Len(s) - k : k + n \in 1 .. Len(s) /\ Beyond(s, k)[n] = s[k + n]
<1> DEFINE A == ToSet(s)
           m == Len(s) - k
           a == k + 1
           b == Len(s)
           t == Beyond(s, k)
<1>1. /\ b \in Nat /\ k \in Nat /\ m \in Nat /\ a \in Int /\ b \in Int
      /\ \A n \in a .. b : n \in 1 .. b
      /\ \A n \in 1 .. b : s[n] \in A
      /\ b - a + 1 = m /\ (IF a <= b THEN b - a + 1 ELSE 0) = m
      /\ \A n \in 1 .. m : a + n - 1 = k + n /\ k + n \in 1 .. b
  BY ListFacts
<1>2. t = SubSeq(s, a, b)
  BY DEF Beyond
<1> HIDE DEF A, m, a, b, t
<1>3. \A n \in a .. b : s[n] \in A
  BY <1>1
<1>4. /\ t \in Seq(A) /\ Len(t) = IF a <= b THEN b - a + 1 ELSE 0
      /\ \A n \in 1 .. b - a + 1 : t[n] = s[a + n - 1]
  BY <1>1, <1>2, <1>3, SubSeqProperties
<1>5. Len(t) = m /\ IsList(t)
  BY <1>1, <1>4, SequenceIsList
<1>6. \A n \in 1 .. m : t[n] = s[k + n] /\ k + n \in 1 .. b
  <2> SUFFICES ASSUME NEW n \in 1 .. m PROVE t[n] = s[k + n] /\ k + n \in 1 .. b
    OBVIOUS
  <2>1. n \in 1 .. b - a + 1 /\ a + n - 1 = k + n /\ k + n \in 1 .. b
    BY <1>1
  <2> QED BY <1>4, <2>1
<1> QED BY <1>5, <1>6 DEF m, b, t

\* What a path under S is when it is moved under I
Moved(path, S, want, I) ==
    /\ IsList(want) /\ Len(want) = Len(I) + (Len(path) - Len(S))
    /\ \A n \in 1 .. Len(I) : want[n] = I[n]
    /\ \A n \in 1 .. Len(path) - Len(S) : want[Len(I) + n] = path[Len(S) + n]

\* A path under a prim is mapped to the same path under another.
LEMMA ReplaceMoves ==
    ASSUME NEW path, NEW a, NEW b, IsList(path), IsList(a), IsList(b), IsPrefix(a, path)
    PROVE  Moved(path, a, ReplacePrefix(path, a, b), b)
<1> DEFINE t == Beyond(path, Len(a))
           r == ReplacePrefix(path, a, b)
<1>1. Len(a) \in Nat /\ Len(path) \in Nat /\ Len(b) \in Nat /\ Len(a) <= Len(path)
  BY ListFacts, PrefixIs
<1>2. Len(a) \in 0 .. Len(path)
  BY <1>1
<1>3. /\ IsList(t) /\ Len(t) = Len(path) - Len(a)
      /\ \A n \in 1 .. Len(path) - Len(a) : t[n] = path[Len(a) + n]
  BY <1>2, BeyondFacts
<1>4. r = b \o t
  BY DEF ReplacePrefix, Beyond
<1>5. ASSUME NEW u, IsList(u)
      PROVE  /\ IsList(b \o u) /\ Len(b \o u) = Len(b) + Len(u)
             /\ \A n \in 1 .. Len(b) : (b \o u)[n] = b[n]
             /\ \A n \in 1 .. Len(u) : (b \o u)[Len(b) + n] = u[n]
  BY <1>5, ConcatIsList
<1> HIDE DEF t, r
<1>6. /\ IsList(r) /\ Len(r) = Len(b) + Len(t)
      /\ \A n \in 1 .. Len(b) : r[n] = b[n]
      /\ \A n \in 1 .. Len(t) : r[Len(b) + n] = t[n]
  BY <1>3, <1>4, <1>5, Zenon
<1>7. Moved(path, a, r, b)
  BY <1>3, <1>6 DEF Moved
<1> QED BY <1>7 DEF r

\* Nothing is mapped to itself otherwise.
LEMMA ReplaceSame ==
    ASSUME NEW path, NEW a, IsList(path), IsList(a)
    PROVE  ReplacePrefix(path, a, a) = path
<1>1. CASE ~IsPrefix(a, path)
  BY <1>1 DEF ReplacePrefix
<1>2. CASE IsPrefix(a, path)
  <2> DEFINE r == ReplacePrefix(path, a, a)
  <2>1. /\ IsList(r) /\ Len(r) = Len(a) + (Len(path) - Len(a))
        /\ \A n \in 1 .. Len(a) : r[n] = a[n]
        /\ \A n \in 1 .. Len(path) - Len(a) : r[Len(a) + n] = path[Len(a) + n]
    <3>1. Moved(path, a, r, a)
      BY <1>2, ReplaceMoves
    <3> HIDE DEF r
    <3> QED BY <3>1 DEF Moved
  <2> HIDE DEF r
  <2>2. /\ Len(a) \in Nat /\ Len(path) \in Nat /\ Len(a) <= Len(path)
        /\ \A n \in 1 .. Len(a) : a[n] = path[n]
    BY <1>2, ListFacts, PrefixIs
  <2>3. Len(r) = Len(path)
    BY <2>1, <2>2
  <2>4. ASSUME NEW n \in 1 .. Len(r) PROVE r[n] = path[n]
    <3>1. CASE n \in 1 .. Len(a)
      BY <2>1, <2>2, <3>1
    <3>2. CASE n \notin 1 .. Len(a)
      <4>1. n - Len(a) \in 1 .. Len(path) - Len(a) /\ Len(a) + (n - Len(a)) = n
        BY <2>2, <2>3, <3>2
      <4> QED BY <2>1, <4>1
    <3> QED BY <3>1, <3>2
  <2>5. r = path
    BY <2>1, <2>3, <2>4, ListsEqual
  <2> QED BY <2>5 DEF r
<1> QED BY <1>1, <1>2

\* Roots stops after k names.
Stops(s, p, k) ==
    \/ Shorter(s, k) = Shorter(p, k) \/ Shorter(s, k) = <<>> \/ Shorter(p, k) = <<>>
    \/ Last(Shorter(s, k)) # Last(Shorter(p, k))

\* It stops as soon as it can, and not before both paths differ.
LEMMA RootsFacts ==
    ASSUME NEW s, NEW p, IsList(s), IsList(p)
    PROVE  \E k \in 0 .. Len(s) :
             /\ k <= Len(p) /\ Stops(s, p, k) /\ \A j \in 0 .. k - 1 : ~Stops(s, p, j)
             /\ Roots(s, p) = <<Shorter(s, k), Shorter(p, k)>>
<1> DEFINE N == {k \in 0 .. Len(s) : Stops(s, p, k)}
           first(k) == k \in 0 .. Len(s) /\ Stops(s, p, k) /\ \A j \in 0 .. k - 1 : ~Stops(s, p, j)
<1>1. Len(s) \in Nat /\ Len(p) \in Nat
  BY ListFacts
<1>2. \A t : IsList(t) => Shorter(t, Len(t)) = <<>>
  <2> SUFFICES ASSUME NEW t, IsList(t) PROVE Shorter(t, Len(t)) = <<>>
    OBVIOUS
  <2>1. Len(t) \in Nat /\ Len(t) \in 0 .. Len(t) /\ Len(t) - Len(t) = 0
    BY ListFacts
  <2>2. IsList(Shorter(t, Len(t))) /\ Len(Shorter(t, Len(t))) = 0
    BY <2>1, ShorterFacts
  <2> QED BY <2>2, EmptyIsList, ListsEqual
<1>3. Len(s) \in N
  BY <1>1, <1>2 DEF Stops
<1>4. N \in SUBSET Nat /\ N # {}
  BY <1>1, <1>3
<1>5. PICK k \in N : \A m \in N : k <= m
  BY <1>4, SmallestNumber
<1>6. first(k)
  BY <1>1, <1>5
<1>7. \A m : first(m) => m = k
  <2> SUFFICES ASSUME NEW m, first(m) PROVE m = k
    OBVIOUS
  <2>1. m \in Nat /\ k \in Nat /\ m \in N
    BY <1>1, <1>6
  <2>2. k <= m
    BY <1>5, <2>1
  <2>3. ~(k < m)
    <3> SUFFICES ASSUME k < m PROVE FALSE
      OBVIOUS
    <3>1. k \in 0 .. m - 1
      BY <2>1
    <3> QED BY <1>6, <3>1
  <2> QED BY <2>1, <2>2, <2>3
<1>8. (CHOOSE m \in 0 .. Len(s) : Stops(s, p, m) /\ \A j \in 0 .. m - 1 : ~Stops(s, p, j)) = k
  BY <1>6, <1>7
<1>9. Roots(s, p) = <<Shorter(s, k), Shorter(p, k)>>
  BY <1>8 DEF Roots, Stops, Shorter
<1>10. k <= Len(p)
  <2> SUFFICES ASSUME ~(k <= Len(p)) PROVE FALSE
    OBVIOUS
  <2>1. Len(p) \in 0 .. k - 1
    BY <1>1, <1>6
  <2>2. Stops(s, p, Len(p))
    BY <1>2 DEF Stops
  <2> QED BY <1>6, <2>1, <2>2
<1> QED BY <1>6, <1>9, <1>10

\* Two prims that are the same inside instances: s in the one at S, p in the one at I
Inside(s, S, p, I, x) ==
    /\ IsList(s) /\ IsList(S) /\ IsList(p) /\ IsList(I) /\ IsList(x)
    /\ Len(s) = Len(S) + Len(x) /\ Len(p) = Len(I) + Len(x)
    /\ \A n \in 1 .. Len(S) : s[n] = S[n]
    /\ \A n \in 1 .. Len(I) : p[n] = I[n]
    /\ \A n \in 1 .. Len(x) : s[Len(S) + n] = x[n] /\ p[Len(I) + n] = x[n]

\* Names are dropped while they are the same.
LEMMA SameEnds ==
    ASSUME NEW s, NEW p, IsList(s), IsList(p), NEW k \in 0 .. Len(s), k <= Len(p),
           \A j \in 0 .. k - 1 : ~Stops(s, p, j)
    PROVE  \A j \in 0 .. k - 1 : s[Len(s) - j] = p[Len(p) - j]
<1> SUFFICES ASSUME NEW j \in 0 .. k - 1 PROVE s[Len(s) - j] = p[Len(p) - j]
  OBVIOUS
<1>1. Len(s) \in Nat /\ Len(p) \in Nat
  BY ListFacts
<1>2. /\ j \in 0 .. Len(s) /\ j \in 0 .. Len(p)
      /\ Len(s) - j \in 1 .. Len(s) - j /\ Len(p) - j \in 1 .. Len(p) - j
  BY <1>1
<1>3. /\ Len(Shorter(s, j)) = Len(s) - j /\ Shorter(s, j)[Len(s) - j] = s[Len(s) - j]
      /\ Len(Shorter(p, j)) = Len(p) - j /\ Shorter(p, j)[Len(p) - j] = p[Len(p) - j]
  BY <1>2, ShorterFacts
<1>4. Last(Shorter(s, j)) = Last(Shorter(p, j))
  BY DEF Stops
<1> QED BY <1>3, <1>4 DEF Last

\* What is left of both without what is inside are the instances.
LEMMA InstancesAre ==
    ASSUME NEW s, NEW S, NEW p, NEW I, NEW x, Inside(s, S, p, I, x)
    PROVE  Shorter(s, Len(x)) = S /\ Shorter(p, Len(x)) = I
<1>1. /\ Len(s) \in Nat /\ Len(p) \in Nat /\ Len(S) \in Nat /\ Len(I) \in Nat /\ Len(x) \in Nat
  BY ListFacts DEF Inside
<1>2. Len(x) \in 0 .. Len(s) /\ Len(x) \in 0 .. Len(p)
      /\ Len(s) - Len(x) = Len(S) /\ Len(p) - Len(x) = Len(I)
  BY <1>1 DEF Inside
<1>3. Shorter(s, Len(x)) = S
  <2>1. /\ IsList(Shorter(s, Len(x))) /\ Len(Shorter(s, Len(x))) = Len(S)
        /\ \A n \in 1 .. Len(S) : Shorter(s, Len(x))[n] = s[n]
    BY <1>2, ShorterFacts DEF Inside
  <2> QED BY <2>1, ListsEqual DEF Inside
<1>4. Shorter(p, Len(x)) = I
  <2>1. /\ IsList(Shorter(p, Len(x))) /\ Len(Shorter(p, Len(x))) = Len(I)
        /\ \A n \in 1 .. Len(I) : Shorter(p, Len(x))[n] = p[n]
    BY <1>2, ShorterFacts DEF Inside
  <2> QED BY <2>1, ListsEqual DEF Inside
<1> QED BY <1>3, <1>4

\* If they were all dropped, the last names of the instances would be the same; if
\* some of the prim's inside the instance were not, the instances are the same.
LEMMA StopsInside ==
    ASSUME NEW s, NEW S, NEW p, NEW I, NEW x, Inside(s, S, p, I, x), NEW k \in 0 .. Len(s),
           k <= Len(p), Stops(s, p, k)
    PROVE  /\ Shorter(s, Len(x)) = S /\ Shorter(p, Len(x)) = I
           /\ k < Len(x) => S = I /\ Shorter(s, k) = Shorter(p, k)
<1>1. /\ Len(s) \in Nat /\ Len(p) \in Nat /\ Len(S) \in Nat /\ Len(I) \in Nat /\ Len(x) \in Nat
  BY ListFacts DEF Inside
<1>2. k \in 0 .. Len(p)
  BY <1>1
<1>3. Shorter(s, Len(x)) = S /\ Shorter(p, Len(x)) = I
  BY InstancesAre
<1>5. ASSUME k < Len(x) PROVE S = I /\ Shorter(s, k) = Shorter(p, k)
  <2> DEFINE a == Shorter(s, k)
             b == Shorter(p, k)
             m == Len(x) - k
  <2>1. /\ IsList(a) /\ Len(a) = Len(s) - k /\ \A n \in 1 .. Len(s) - k : a[n] = s[n]
        /\ IsList(b) /\ Len(b) = Len(p) - k /\ \A n \in 1 .. Len(p) - k : b[n] = p[n]
    BY <1>2, ShorterFacts DEF Inside
  <2>2. /\ m \in 1 .. Len(x) /\ Len(s) - k = Len(S) + m /\ Len(p) - k = Len(I) + m
        /\ Len(S) + m \in 1 .. Len(s) - k /\ Len(I) + m \in 1 .. Len(p) - k
    BY <1>1, <1>5 DEF Inside
  <2> HIDE DEF a, b, m
  <2>3. a[Len(a)] = x[m] /\ b[Len(b)] = x[m]
    <3>1. s[Len(S) + m] = x[m] /\ p[Len(I) + m] = x[m]
      BY <2>2 DEF Inside
    <3>2. a[Len(a)] = s[Len(S) + m]
      BY <2>1, <2>2
    <3>3. b[Len(b)] = p[Len(I) + m]
      BY <2>1, <2>2
    <3> QED BY <3>1, <3>2, <3>3
  <2>4. a # <<>> /\ b # <<>>
    BY <1>1, <2>1, <2>2, EmptyIsList
  <2>5. a = b
    BY <2>3, <2>4 DEF Stops, Last, a, b
  <2>6. Len(s) - k = Len(p) - k
    BY <2>1, <2>5
  <2>7. Len(S) = Len(I)
    BY <1>1, <2>6 DEF Inside
  <2>8. \A n \in 1 .. Len(S) : S[n] = I[n]
    <3> SUFFICES ASSUME NEW n \in 1 .. Len(S) PROVE S[n] = I[n]
      OBVIOUS
    <3>1. n \in 1 .. Len(s) - k /\ n \in 1 .. Len(p) - k /\ n \in 1 .. Len(I)
      BY <1>1, <2>2, <2>7
    <3>2. s[n] = p[n]
      BY <2>1, <2>5, <3>1
    <3> QED BY <3>1, <3>2 DEF Inside
  <2>9. S = I
    BY <2>7, <2>8, ListsEqual DEF Inside
  <2> QED BY <2>5, <2>9 DEF a, b
<1> QED BY <1>3, <1>5

\* The paths that Roots leaves map what is on the instance of the one prim to the
\* same on the instance of the other.
LEMMA RootsMove ==
    ASSUME NEW s, NEW S, NEW p, NEW I, NEW x, Inside(s, S, p, I, x),
           NEW k \in 0 .. Len(s), k <= Len(p), Stops(s, p, k), \A j \in 0 .. k - 1 : ~Stops(s, p, j),
           NEW path, IsList(path), IsPrefix(S, path), NEW want, Moved(path, S, want, I),
           Len(x) <= k
    PROVE  ReplacePrefix(path, Shorter(s, k), Shorter(p, k)) = want
<1> DEFINE old == Shorter(s, k)
           new == Shorter(p, k)
           r == ReplacePrefix(path, old, new)
<1>1. /\ Len(s) \in Nat /\ Len(p) \in Nat /\ Len(S) \in Nat /\ Len(I) \in Nat /\ Len(x) \in Nat
      /\ Len(path) \in Nat /\ k \in Nat /\ k \in 0 .. Len(p)
      /\ Len(s) = Len(S) + Len(x) /\ Len(p) = Len(I) + Len(x)
  BY ListFacts DEF Inside
<1>2. /\ IsList(old) /\ Len(old) = Len(s) - k /\ \A n \in 1 .. Len(s) - k : old[n] = s[n]
      /\ IsList(new) /\ Len(new) = Len(p) - k /\ \A n \in 1 .. Len(p) - k : new[n] = p[n]
  BY <1>1, ShorterFacts DEF Inside
<1>3. Len(S) <= Len(path) /\ \A n \in 1 .. Len(S) : S[n] = path[n]
  BY PrefixIs DEF Inside
<1> HIDE DEF old, new
<1>4. \A n \in 1 .. Len(old) : n \in 1 .. Len(S) /\ old[n] = path[n]
  BY <1>1, <1>2, <1>3 DEF Inside
<1>5. IsPrefix(old, path)
  <2>1. Len(old) <= Len(path)
    BY <1>1, <1>2, <1>3
  <2>2. IsList(old) /\ \A n \in 1 .. Len(old) : old[n] = path[n]
    BY <1>2, <1>4
  <2> QED BY <2>1, <2>2, PrefixIs
<1>6. /\ IsList(r) /\ Len(r) = Len(new) + (Len(path) - Len(old))
      /\ \A n \in 1 .. Len(new) : r[n] = new[n]
      /\ \A n \in 1 .. Len(path) - Len(old) : r[Len(new) + n] = path[Len(old) + n]
  <2>1. IsList(old) /\ IsList(new)
    BY <1>2
  <2>2. Moved(path, old, r, new)
    BY <1>5, <2>1, ReplaceMoves
  <2> HIDE DEF r
  <2> QED BY <2>2 DEF Moved
<1> HIDE DEF r
<1>7. /\ IsList(want) /\ Len(want) = Len(I) + (Len(path) - Len(S))
      /\ \A n \in 1 .. Len(I) : want[n] = I[n]
      /\ \A n \in 1 .. Len(path) - Len(S) : want[Len(I) + n] = path[Len(S) + n]
  BY DEF Moved
<1>8. Len(r) = Len(want)
  BY <1>1, <1>2, <1>6, <1>7
<1>9. \A j \in 0 .. k - 1 : s[Len(s) - j] = p[Len(p) - j]
  <2>1. IsList(s) /\ IsList(p)
    BY DEF Inside
  <2> QED BY <2>1, SameEnds
<1>10. ASSUME NEW n \in 1 .. Len(r) PROVE r[n] = want[n]
  <2>1. CASE n \in 1 .. Len(new)
    <3>1. n \in 1 .. Len(I) /\ n \in 1 .. Len(p) - k
      BY <1>1, <1>2, <2>1
    <3> QED BY <1>2, <1>6, <1>7, <2>1, <3>1 DEF Inside
  <2>2. CASE n \notin 1 .. Len(new)
    <3> DEFINE m == n - Len(new)
    <3>1. /\ m \in 1 .. Len(path) - Len(old) /\ Len(new) + m = n
      BY <1>1, <1>2, <1>6, <2>2
    <3>2. r[n] = path[Len(old) + m]
      BY <1>6, <3>1
    <3>3. CASE Len(old) + m <= Len(S)
      <4> DEFINE j == k - m
      <4>1. /\ j \in 0 .. k - 1 /\ Len(s) - j = Len(old) + m /\ Len(p) - j = n
            /\ Len(old) + m \in 1 .. Len(S) /\ n \in 1 .. Len(I)
        BY <1>1, <1>2, <3>1, <3>3
      <4>2. s[Len(old) + m] = p[n]
        BY <1>9, <4>1
      <4>3. /\ s[Len(old) + m] = S[Len(old) + m] /\ p[n] = I[n]
            /\ S[Len(old) + m] = path[Len(old) + m] /\ want[n] = I[n]
        BY <1>3, <1>7, <4>1 DEF Inside
      <4> QED BY <3>2, <4>2, <4>3
    <3>4. CASE ~(Len(old) + m <= Len(S))
      <4> DEFINE i == Len(old) + m - Len(S)
      <4>1. i \in 1 .. Len(path) - Len(S) /\ Len(S) + i = Len(old) + m /\ Len(I) + i = n
        BY <1>1, <1>2, <3>1, <3>4
      <4> QED BY <1>7, <3>2, <4>1
    <3> QED BY <3>3, <3>4
  <2> QED BY <2>1, <2>2
<1>11. r = want
  BY <1>6, <1>7, <1>8, <1>10, ListsEqual
<1> QED BY <1>11 DEF r, old, new

\* Roots maps the paths on the instance of one prim to those on the instance of
\* another, and no other path if the last names of the instances differ.
LEMMA RootsMap ==
    ASSUME NEW s, NEW S, NEW p, NEW I, NEW x, Inside(s, S, p, I, x), NEW path, IsList(path), NEW want,
           IsPrefix(S, path) => Moved(path, S, want, I),
           ~IsPrefix(S, path) => want = path /\ Last(S) # Last(I)
    PROVE  ReplacePrefix(path, Roots(s, p)[1], Roots(s, p)[2]) = want
<1>1. IsList(s) /\ IsList(p) /\ IsList(S) /\ IsList(I)
  BY DEF Inside
<1>2. PICK k \in 0 .. Len(s) :
          /\ k <= Len(p) /\ Stops(s, p, k) /\ \A j \in 0 .. k - 1 : ~Stops(s, p, j)
          /\ Roots(s, p) = <<Shorter(s, k), Shorter(p, k)>>
  BY <1>1, RootsFacts
<1>3. Roots(s, p)[1] = Shorter(s, k) /\ Roots(s, p)[2] = Shorter(p, k)
  BY <1>2
<1>4. /\ Shorter(s, Len(x)) = S /\ Shorter(p, Len(x)) = I
      /\ k < Len(x) => S = I /\ Shorter(s, k) = Shorter(p, k)
  BY <1>2, StopsInside
<1>5. Len(x) \in Nat /\ Len(s) \in Nat /\ Len(p) \in Nat /\ k \in Nat /\ k \in 0 .. Len(p)
      /\ Len(S) \in Nat /\ Len(path) \in Nat
  BY <1>1, <1>2, ListFacts DEF Inside
<1>6. CASE k < Len(x)
  <2>1. IsList(Shorter(s, k)) /\ Shorter(s, k) = Shorter(p, k) /\ S = I
    BY <1>1, <1>4, <1>6, ShorterFacts
  <2>2. ReplacePrefix(path, Shorter(s, k), Shorter(s, k)) = path
    BY <2>1, ReplaceSame
  <2>3. want = path
    <3>1. CASE IsPrefix(S, path)
      <4>1. Len(S) <= Len(path) /\ \A n \in 1 .. Len(S) : S[n] = path[n]
        BY <1>1, <3>1, PrefixIs
      <4>2. /\ IsList(want) /\ Len(want) = Len(S) + (Len(path) - Len(S))
            /\ \A n \in 1 .. Len(S) : want[n] = S[n]
            /\ \A n \in 1 .. Len(path) - Len(S) : want[Len(S) + n] = path[Len(S) + n]
        BY <2>1, <3>1 DEF Moved
      <4>3. Len(want) = Len(path)
        BY <1>5, <4>2
      <4>4. ASSUME NEW n \in 1 .. Len(want) PROVE want[n] = path[n]
        <5>1. CASE n \in 1 .. Len(S)
          BY <4>1, <4>2, <5>1
        <5>2. CASE n \notin 1 .. Len(S)
          <6>1. n - Len(S) \in 1 .. Len(path) - Len(S) /\ Len(S) + (n - Len(S)) = n
            BY <1>5, <4>3, <5>2
          <6> QED BY <4>2, <6>1
        <5> QED BY <5>1, <5>2
      <4> QED BY <4>2, <4>3, <4>4, ListsEqual
    <3>2. CASE ~IsPrefix(S, path)
      BY <3>2
    <3> QED BY <3>1, <3>2
  <2> QED BY <1>3, <2>1, <2>2, <2>3
<1>7. CASE Len(x) <= k /\ IsPrefix(S, path)
  BY <1>2, <1>3, <1>7, RootsMove
<1>8. CASE Len(x) <= k /\ ~IsPrefix(S, path)
  <2>1. want = path /\ Last(S) # Last(I)
    BY <1>8
  <2>2. Stops(s, p, Len(x))
    BY <1>4, <2>1 DEF Stops
  <2>3. k = Len(x)
    <3>1. ~(Len(x) \in 0 .. k - 1)
      BY <1>2, <2>2
    <3> QED BY <1>5, <1>8, <3>1
  <2> QED BY <1>3, <1>4, <1>8, <2>1, <2>3 DEF ReplacePrefix
<1> QED BY <1>5, <1>6, <1>7, <1>8

\* An arc of a prim is one.
LEMMA ArcsAreArcs ==
    ASSUME NEW f \in DOMAIN Stages, NEW q \in Paths(f)
    PROVE  /\ IsList(Prim(f, q).arcs)
           /\ \A a \in ToSet(Prim(f, q).arcs) :
                IsArc(a) /\ (~a.ancestral => a.has_specs \/ a.type \notin {"root", "relocate"})
BY StagesAssumption

\* The query that MayHaveArcs saves would find no arcs to show.
LEMMA ArcsAreWanted ==
    ASSUME NEW f \in DOMAIN Stages, NEW q \in Paths(f), NEW o
    PROVE  ComputeArcs(f, o, q) = Wanted(o, Prim(f, q).arcs)
<1> DEFINE arcs == Prim(f, q).arcs
           S == {a \in ToSet(arcs) : a.type # "root" /\ (o.include_ancestral \/ ~a.ancestral)}
<1>1. CASE MayHaveArcs(o, arcs)
  BY <1>1 DEF ComputeArcs
<1>2. CASE ~MayHaveArcs(o, arcs)
  <2>1. /\ IsList(arcs)
        /\ \A a \in ToSet(arcs) :
             IsArc(a) /\ (~a.ancestral => a.has_specs \/ a.type \notin {"root", "relocate"})
    BY ArcsAreArcs
  <2>2. ASSUME NEW a \in S PROVE FALSE
    <3>1. /\ a \in ToSet(arcs) /\ a.type # "root" /\ ~o.include_ancestral /\ ~a.ancestral /\ ~a.has_specs
          /\ a.type \notin {"reference", "payload", "inherit", "specialize", "variant"}
      BY <1>2, <2>2 DEF MayHaveArcs
    <3> HIDE DEF S
    <3>2. a.type = "relocate" /\ a.type \notin {"root", "relocate"}
      BY <2>1, <3>1 DEF IsArc
    <3> QED BY <3>2
  <2>3. IsList(Among(arcs, S)) /\ ToSet(Among(arcs, S)) = {}
    <3> HIDE DEF S
    <3> QED BY <2>1, <2>2, AmongIsList
  <2>4. Wanted(o, arcs) = Among(arcs, S)
    BY DEF Wanted
  <2> DEFINE found == Among(arcs, S)
  <2> HIDE DEF found
  <2>5. found = <<>>
    <3>1. Len(found) \in Nat /\ \A n \in 1 .. Len(found) : FALSE
      BY <2>3, ListFacts DEF found
    <3>2. Len(found) = 0
      BY <3>1
    <3> QED BY <2>3, <3>2, EmptyIsList, ListsEqual DEF found
  <2> QED BY <1>2, <2>4, <2>5 DEF ComputeArcs, found
<1> QED BY <1>1, <1>2

\* The path of a on the instance at S is that of b on the one at I, and all else is
\* the same
SameArc(a, S, b, I) ==
    /\ IsArc(a) /\ IsArc(b)
    /\ ArcShown(a) = ArcShown(b)
    /\ IF a.in_root_layer /\ IsPrefix(S, a.introducing_prim_path)
       THEN Moved(a.introducing_prim_path, S, b.introducing_prim_path, I)
       ELSE a.introducing_prim_path = b.introducing_prim_path

\* What Beyond leaves is what is moved.
LEMMA BeyondMoves ==
    ASSUME NEW a, NEW S, NEW b, NEW I, IsList(a), IsList(S), IsList(b), IsList(I),
           IsPrefix(S, a), IsPrefix(I, b), Beyond(a, Len(S)) = Beyond(b, Len(I))
    PROVE  Moved(a, S, b, I)
<1>1. /\ Len(S) \in Nat /\ Len(a) \in Nat /\ Len(S) <= Len(a)
      /\ Len(I) \in Nat /\ Len(b) \in Nat /\ Len(I) <= Len(b)
      /\ \A n \in 1 .. Len(I) : I[n] = b[n]
  BY ListFacts, PrefixIs
<1>2. Len(S) \in 0 .. Len(a) /\ Len(I) \in 0 .. Len(b)
  BY <1>1
<1>3. /\ Len(Beyond(a, Len(S))) = Len(a) - Len(S)
      /\ \A n \in 1 .. Len(a) - Len(S) : Beyond(a, Len(S))[n] = a[Len(S) + n]
  BY <1>2, BeyondFacts
<1>4. /\ Len(Beyond(b, Len(I))) = Len(b) - Len(I)
      /\ \A n \in 1 .. Len(b) - Len(I) : Beyond(b, Len(I))[n] = b[Len(I) + n]
  BY <1>2, BeyondFacts
<1>5. Len(b) - Len(I) = Len(a) - Len(S)
  BY <1>3, <1>4
<1>6. Len(b) = Len(I) + (Len(a) - Len(S))
  BY <1>1, <1>5
<1>7. \A n \in 1 .. Len(a) - Len(S) : b[Len(I) + n] = a[Len(S) + n]
  BY <1>3, <1>4, <1>5
<1> QED BY <1>1, <1>6, <1>7 DEF Moved

\* What StagesAssumption says of the arcs a and b of two prims in the instances at S
\* and I, and of the n-th arcs of q and r
AlikeArc(a, S, b, I) ==
    /\ ArcShown(a) = ArcShown(b)
    /\ IF a.in_root_layer /\ IsPrefix(S, a.introducing_prim_path)
       THEN /\ IsPrefix(I, b.introducing_prim_path)
            /\ Beyond(a.introducing_prim_path, Len(S)) = Beyond(b.introducing_prim_path, Len(I))
       ELSE a.introducing_prim_path = b.introducing_prim_path
AlikeInside(f, q, r, n) ==
    AlikeArc(Prim(f, q).arcs[n], Prim(f, q).instance, Prim(f, r).arcs[n], Prim(f, r).instance)

\* Then they are the same.
LEMMA AlikeIsSame ==
    ASSUME NEW a, NEW b, NEW S, NEW I, IsArc(a), IsArc(b), IsList(S), IsList(I), AlikeArc(a, S, b, I)
    PROVE  SameArc(a, S, b, I)
<1> DEFINE x == a.introducing_prim_path
           y == b.introducing_prim_path
<1>1. IsList(x) /\ IsList(y)
  BY DEF IsArc
<1>2. CASE a.in_root_layer /\ IsPrefix(S, x)
  <2>1. IsPrefix(I, y) /\ Beyond(x, Len(S)) = Beyond(y, Len(I))
    BY <1>2 DEF AlikeArc
  <2> HIDE DEF x, y
  <2>2. Moved(x, S, y, I)
    BY <1>1, <1>2, <2>1, BeyondMoves
  <2> QED BY <1>2, <2>2 DEF AlikeArc, SameArc, x, y
<1>3. CASE ~(a.in_root_layer /\ IsPrefix(S, x))
  BY <1>3 DEF AlikeArc, SameArc
<1> QED BY <1>2, <1>3

\* It says it of all their arcs.
LEMMA ArcsInside ==
    ASSUME NEW f \in DOMAIN Stages, NEW q \in Paths(f), NEW r \in Paths(f),
           "proxy" \in Prim(f, q).flags, "proxy" \in Prim(f, r).flags,
           Prim(f, q).prototype = Prim(f, r).prototype,
           Beyond(q, Len(Prim(f, q).instance)) = Beyond(r, Len(Prim(f, r).instance))
    PROVE  /\ Len(Prim(f, q).arcs) = Len(Prim(f, r).arcs)
           /\ \A n \in DOMAIN Prim(f, q).arcs : AlikeInside(f, q, r, n)
<1> DEFINE inside(s) == SubSeq(s, Len(Prim(f, s).instance) + 1, Len(s))
           here(s, path) == IsPrefix(Prim(f, s).instance, path)
           beyond(s, path) == SubSeq(path, Len(Prim(f, s).instance) + 1, Len(path))
           same(a, b) == /\ [a EXCEPT !.introducing_prim_path = Null]
                                = [b EXCEPT !.introducing_prim_path = Null]
                         /\ LET x == a.introducing_prim_path
                                y == b.introducing_prim_path
                            IN  IF a.in_root_layer /\ here(q, x)
                                THEN here(r, y) /\ beyond(q, x) = beyond(r, y)
                                ELSE x = y
<1>1. inside(q) = inside(r)
  BY DEF Beyond
<1>2. /\ "proxy" \in Prim(f, q).flags \cap Prim(f, r).flags
      /\ Prim(f, q).prototype = Prim(f, r).prototype
      /\ inside(q) = inside(r)
      => /\ Len(Prim(f, q).arcs) = Len(Prim(f, r).arcs)
         /\ \A n \in DOMAIN Prim(f, q).arcs : same(Prim(f, q).arcs[n], Prim(f, r).arcs[n])
  <2>1. ShareArcs(f, q, r)
    BY StagesAssumption
  <2> QED BY <2>1 DEF ShareArcs
<1>3. /\ Len(Prim(f, q).arcs) = Len(Prim(f, r).arcs)
      /\ \A n \in DOMAIN Prim(f, q).arcs : same(Prim(f, q).arcs[n], Prim(f, r).arcs[n])
  <2> HIDE DEF inside, same
  <2> QED BY <1>1, <1>2
<1>4. \A n \in DOMAIN Prim(f, q).arcs :
        same(Prim(f, q).arcs[n], Prim(f, r).arcs[n]) => AlikeInside(f, q, r, n)
  BY DEF AlikeInside, AlikeArc, ArcShown, Beyond
<1> HIDE DEF same
<1> QED BY <1>3, <1>4

\* A prim inside an instance and the prim whose index it has are the same inside
\* their instances, and so are their arcs.
LEMMA SourceArcs ==
    ASSUME NEW f \in DOMAIN Stages, NEW o, IsList(o.mask_path), NEW q \in Composed(f, o),
           "proxy" \in Prim(f, q).flags
    PROVE  LET index == IndexPath(f, o, q)
               S == Prim(f, index).instance
               I == Prim(f, q).instance
               arcs == Prim(f, index).arcs
               own == Prim(f, q).arcs
           IN  /\ index \in Paths(f) /\ Inside(index, S, q, I, Beyond(q, Len(I)))
               /\ Len(arcs) = Len(own)
               /\ \A n \in 1 .. Len(arcs) : SameArc(arcs[n], S, own[n], I)
<1> DEFINE index == IndexPath(f, o, q)
           S == Prim(f, index).instance
           I == Prim(f, q).instance
           x == Beyond(q, Len(I))
           arcs == Prim(f, index).arcs
           own == Prim(f, q).arcs
<1>1. /\ I \in Paths(f) /\ IsPrefix(I, q) /\ S \in Paths(f) /\ index = S \o x
      /\ index \in Paths(f) /\ "proxy" \in Prim(f, index).flags
      /\ Prim(f, index).prototype = Prim(f, q).prototype
  BY SourceFacts DEF Beyond
<1>2. q \in Paths(f)
  BY DEF Composed
<1>3. IsList(q) /\ IsList(I) /\ IsList(S) /\ IsList(index)
  BY <1>1, <1>2, PrimFacts
<1>4. /\ Len(I) \in Nat /\ Len(q) \in Nat /\ Len(S) \in Nat /\ Len(I) <= Len(q)
      /\ \A n \in 1 .. Len(I) : I[n] = q[n]
  BY <1>1, <1>3, ListFacts, PrefixIs
<1>5. Len(I) \in 0 .. Len(q)
  BY <1>4
<1>6. /\ IsList(x) /\ Len(x) = Len(q) - Len(I)
      /\ \A n \in 1 .. Len(q) - Len(I) : x[n] = q[Len(I) + n]
  BY <1>3, <1>5, BeyondFacts
<1>7. Inside(index, S, q, I, x)
  <2> HIDE DEF index, S, I, x
  <2>1. IsList(S) /\ IsList(x) /\ index = S \o x
    BY <1>1, <1>3, <1>6
  <2>3. Len(index) = Len(S) + Len(x)
    BY <2>1, ConcatIs
  <2>4. \A n \in 1 .. Len(S) : index[n] = S[n]
    BY <2>1, ConcatIs
  <2>5. \A n \in 1 .. Len(x) : index[Len(S) + n] = x[n]
    BY <2>1, ConcatIs
  <2>2. Len(q) = Len(I) + Len(x)
    BY <1>4, <1>6
  <2> QED BY <1>3, <1>4, <1>6, <2>2, <2>3, <2>4, <2>5 DEF Inside
<1>8. Beyond(index, Len(S)) = x
  <2> HIDE DEF index, S, I, x
  <2>1. Len(S) \in 0 .. Len(index) /\ Len(index) - Len(S) = Len(x) /\ Len(x) \in Nat
    BY <1>4, <1>6, <1>7, ListFacts DEF Inside
  <2>2. /\ IsList(Beyond(index, Len(S))) /\ Len(Beyond(index, Len(S))) = Len(x)
        /\ \A n \in 1 .. Len(x) : Beyond(index, Len(S))[n] = index[Len(S) + n]
    BY <1>3, <2>1, BeyondFacts
  <2>3. \A n \in 1 .. Len(x) : Beyond(index, Len(S))[n] = x[n]
    BY <1>7, <2>2 DEF Inside
  <2> QED BY <1>6, <2>2, <2>3, ListsEqual
<1>9. /\ Len(arcs) = Len(own)
      /\ \A n \in DOMAIN arcs : AlikeInside(f, index, q, n)
  BY <1>1, <1>2, <1>8, ArcsInside
<1>10. /\ IsList(arcs) /\ \A a \in ToSet(arcs) : IsArc(a)
       /\ IsList(own) /\ \A a \in ToSet(own) : IsArc(a)
  BY <1>1, <1>2, ArcsAreArcs
<1>11. ASSUME NEW n \in 1 .. Len(arcs)
       PROVE  SameArc(arcs[n], S, own[n], I)
  <2> DEFINE a == arcs[n]
             b == own[n]
  <2>1. IsArc(a) /\ IsArc(b) /\ AlikeInside(f, index, q, n)
    BY <1>9, <1>10, ListFacts
  <2>2. AlikeArc(a, S, b, I)
    BY <2>1 DEF AlikeInside
  <2> QED BY <1>3, <2>1, <2>2, AlikeIsSame
<1> QED BY <1>1, <1>7, <1>9, <1>11

\* What ArcsAddPrim adds for a prim: the arcs of the prim index it has, with paths
\* mapped from the one prim to the other.
AddsArcs(pr, a, f, q, o, list, at, new) ==
    LET index == IndexPath(f, o, q)
        arcs == Wanted(o, Prim(f, index).arcs)
        roots == IF "proxy" \in Prim(f, q).flags THEN Roots(index, q) ELSE <<q, q>>
    IN  ArcsGrow(pr, a, f, q, o, list, at, arcs, new) /\ RowsOfArcs(new, q, list, at, arcs, roots)

\* It adds that, whichever list it looks the arcs up in.
LEMMA AddedArcs ==
    ASSUME NEW pr, NEW f \in DOMAIN Stages, NEW o, IsList(o.mask_path), NEW q \in Composed(f, o),
           Sound("usd_composition_arcs", pr, f, o)
    PROVE  \E list, at, new :
             AddsArcs(pr, AddPrim("usd_composition_arcs", pr, f, q, o), f, q, o, list, at, new)
<1> DEFINE added == AddPrim("usd_composition_arcs", pr, f, q, o)
           index == IndexPath(f, o, q)
           arcs == ComputeArcs(f, o, index)
           roots == IF "proxy" \in Prim(f, q).flags THEN Roots(index, q) ELSE <<q, q>>
<1>1. added = ArcsAddPrim(pr, f, q, o)
  BY DEF AddPrim
<1>2. index \in Paths(f) /\ q \in Paths(f)
  BY IndexIsPath DEF Composed
<1>3. IsList(arcs) /\ arcs = Wanted(o, Prim(f, index).arcs)
  BY <1>2, ArcsAreList, ArcsAreWanted
<1>4. CASE "proxy" \notin Prim(f, q).flags
  <2> DEFINE at == Len(pr.prim_arcs) + 1
             new == ArcRows(q, "prim", at, arcs, roots)
  <2>1. index = q /\ roots = <<q, q>>
    BY <1>4 DEF IndexPath
  <2>2. added = Buffered([pr EXCEPT !.prim_arcs = Append(@, ComputeArcs(f, o, q))],
                         ArcRows(q, "prim", at, ComputeArcs(f, o, q), <<q, q>>))
    BY <1>1, <1>4 DEF ArcsAddPrim
  <2>3. ArcsGrow(pr, added, f, q, o, "prim", at, arcs, new)
    <3> HIDE DEF added, at
    <3>1. ArcsGrow(pr, Buffered([pr EXCEPT !.prim_arcs = Append(@, ComputeArcs(f, o, q))],
                                ArcRows(q, "prim", at, ComputeArcs(f, o, q), <<q, q>>)),
                   f, q, o, "prim", at, ComputeArcs(f, o, q),
                   ArcRows(q, "prim", at, ComputeArcs(f, o, q), <<q, q>>))
      BY <1>2, PrimArcsGrow DEF at
    <3>2. arcs = ComputeArcs(f, o, q) /\ new = ArcRows(q, "prim", at, ComputeArcs(f, o, q), <<q, q>>)
      BY <2>1
    <3> QED BY <2>2, <3>1, <3>2
  <2> HIDE DEF arcs, roots
  <2>4. RowsOfArcs(new, q, "prim", at, arcs, roots)
    BY <1>3, ArcRowsFacts
  <2> HIDE DEF at, new, added, index
  <2>5. AddsArcs(pr, added, f, q, o, "prim", at, new)
    BY <1>3, <2>3, <2>4 DEF AddsArcs, roots, index
  <2> QED BY <2>5 DEF added
<1>5. CASE "proxy" \in Prim(f, q).flags
  <2> DEFINE lists == Over(pr.prototype_arcs, [i \in {index} |-> ComputeArcs(f, o, index)])
             new == ArcRows(q, "prototype", index, arcs, roots)
             grown == Buffered([pr EXCEPT !.prototype_arcs = lists], new)
  <2>1. roots = Roots(index, q)
    BY <1>5
  <2>2. added = Buffered([pr EXCEPT !.prototype_arcs = lists],
                         ArcRows(q, "prototype", index, lists[index], Roots(index, q)))
    <3>1. ArcsAddPrim(pr, f, q, o)
            = Buffered([pr EXCEPT !.prototype_arcs = lists],
                       ArcRows(q, "prototype", index, lists[index], Roots(index, q)))
      BY <1>5 DEF ArcsAddPrim, With
    <3> HIDE DEF lists, added
    <3> QED BY <1>1, <3>1
  <2>3. lists[index] = arcs /\ ArcsGrow(pr, grown, f, q, o, "prototype", index, arcs, new)
    BY <1>5, PrototypeArcsGrow
  <2> HIDE DEF arcs, roots, index, lists, added
  <2>4. added = grown
    BY <2>1, <2>2, <2>3
  <2>5. RowsOfArcs(new, q, "prototype", index, arcs, roots)
    BY <1>3, ArcRowsFacts
  <2> HIDE DEF new, grown
  <2>6. AddsArcs(pr, added, f, q, o, "prototype", index, new)
    BY <1>3, <2>3, <2>4, <2>5 DEF AddsArcs, roots, index
  <2> QED BY <2>6 DEF added
<1> QED BY <1>4, <1>5

\* The arcs that are shown of a prim are arcs.
LEMMA WantedAreArcs ==
    ASSUME NEW f \in DOMAIN Stages, NEW q \in Paths(f), NEW o
    PROVE  LET wanted == Wanted(o, Prim(f, q).arcs)
           IN  IsList(wanted) /\ \A n \in 1 .. Len(wanted) : IsArc(wanted[n])
<1> DEFINE arcs == Prim(f, q).arcs
           S == {a \in ToSet(arcs) : a.type # "root" /\ (o.include_ancestral \/ ~a.ancestral)}
           wanted == Among(arcs, S)
<1>1. IsList(arcs) /\ \A a \in ToSet(arcs) : IsArc(a)
  BY ArcsAreArcs
<1> HIDE DEF arcs, S
<1>2. IsList(wanted) /\ ToSet(wanted) = ToSet(arcs) \cap S
  BY <1>1, AmongIsList
<1>3. \A n \in 1 .. Len(wanted) : wanted[n] \in ToSet(wanted)
  <2> HIDE DEF wanted
  <2> QED BY <1>2, ListFacts
<1>4. wanted = Wanted(o, Prim(f, q).arcs)
  BY DEF Wanted, arcs, S
<1> HIDE DEF wanted
<1> QED BY <1>1, <1>2, <1>3, <1>4

\* The arcs that are shown of a prim inside an instance are those of the prim whose
\* index it has.
LEMMA WantedAlike ==
    ASSUME NEW f \in DOMAIN Stages, NEW o, IsList(o.mask_path), NEW q \in Composed(f, o),
           "proxy" \in Prim(f, q).flags
    PROVE  LET index == IndexPath(f, o, q)
               arcs == Wanted(o, Prim(f, index).arcs)
               own == Wanted(o, Prim(f, q).arcs)
           IN  /\ Len(arcs) = Len(own)
               /\ \A n \in 1 .. Len(arcs) :
                    SameArc(arcs[n], Prim(f, index).instance, own[n], Prim(f, q).instance)
<1> DEFINE index == IndexPath(f, o, q)
           I == Prim(f, q).instance
           S == Prim(f, index).instance
           s == Prim(f, index).arcs
           t == Prim(f, q).arcs
           shows(list) == {a \in ToSet(list) : a.type # "root" /\ (o.include_ancestral \/ ~a.ancestral)}
           U == shows(s)
           V == shows(t)
<1>1. index \in Paths(f) /\ Len(s) = Len(t) /\ \A n \in 1 .. Len(s) : SameArc(s[n], S, t[n], I)
  BY SourceArcs
<1>2. IsList(s) /\ IsList(t)
  <2>1. q \in Paths(f)
    BY DEF Composed
  <2> QED BY <1>1, <2>1, ArcsAreArcs
<1>3. Wanted(o, s) = Among(s, U) /\ Wanted(o, t) = Among(t, V)
  BY DEF Wanted
<1>4. \A n \in 1 .. Len(s) : s[n].type = t[n].type /\ s[n].ancestral = t[n].ancestral
  BY <1>1 DEF SameArc, ArcShown, IsArc
<1>5. \A n \in 1 .. Len(s) : s[n] \in ToSet(s) /\ t[n] \in ToSet(t)
  BY <1>1, <1>2, ListFacts
<1>6. \A n \in 1 .. Len(s) : s[n] \in U <=> t[n] \in V
  BY <1>4, <1>5
<1> HIDE DEF s, t, U, V, S, I, index
<1>7. /\ Len(Among(s, U)) = Len(Among(t, V))
      /\ \A n \in 1 .. Len(Among(s, U)) :
           \E m \in 1 .. Len(s) : Among(s, U)[n] = s[m] /\ Among(t, V)[n] = t[m]
  <2>1. IsList(s) /\ IsList(t) /\ Len(s) = Len(t)
    BY <1>1, <1>2
  <2>2. SelectedAlike(s, U, t, V)
    BY <1>6, <2>1, AmongAlike
  <2> QED BY <2>2 DEF SelectedAlike
<1>8. /\ Len(Wanted(o, s)) = Len(Wanted(o, t))
      /\ \A n \in 1 .. Len(Wanted(o, s)) : SameArc(Wanted(o, s)[n], S, Wanted(o, t)[n], I)
  BY <1>1, <1>3, <1>7
<1> QED BY <1>8 DEF s, t, S, I, index

\* The path of a row is that of the prim's own arc, if the path of the arc it is
\* mapped from is on the source instance, or is no path that Roots would map.
LEMMA PathsAreOwn ==
    ASSUME NEW f \in DOMAIN Stages, NEW o, IsList(o.mask_path), NEW q \in Composed(f, o),
           "proxy" \in Prim(f, q).flags, NEW arc, NEW own,
           SameArc(arc, Prim(f, IndexPath(f, o, q)).instance, own, Prim(f, q).instance),
           arc.in_root_layer,
           \/ IsPrefix(Prim(f, IndexPath(f, o, q)).instance, arc.introducing_prim_path)
           \/ Last(Prim(f, IndexPath(f, o, q)).instance) # Last(Prim(f, q).instance)
    PROVE  LET roots == Roots(IndexPath(f, o, q), q)
           IN  ReplacePrefix(arc.introducing_prim_path, roots[1], roots[2]) = own.introducing_prim_path
<1> DEFINE index == IndexPath(f, o, q)
           I == Prim(f, q).instance
           S == Prim(f, index).instance
           x == Beyond(q, Len(I))
           path == arc.introducing_prim_path
           want == own.introducing_prim_path
<1>1. Inside(index, S, q, I, x)
  BY SourceArcs
<1>2. IsList(path)
  BY DEF SameArc, IsArc
<1>3. /\ IsPrefix(S, path) => Moved(path, S, want, I)
      /\ ~IsPrefix(S, path) => want = path /\ Last(S) # Last(I)
  BY DEF SameArc
<1> HIDE DEF index, I, S, x, path, want
<1>4. ReplacePrefix(path, Roots(index, q)[1], Roots(index, q)[2]) = want
  BY <1>1, <1>2, <1>3, RootsMap
<1> QED BY <1>4 DEF index, path, want

\* The row x, written by the producer a, shows the arc own of the prim q, the n-th,
\* but perhaps for its path
ShowsArc(a, x, f, q, o, own, n) ==
    /\ Write("usd_composition_arcs", a, f, x, "prim_path", o) = q
    /\ Write("usd_composition_arcs", a, f, x, "arc_index", o) = n - 1
    /\ Write("usd_composition_arcs", a, f, x, "arc", o) = ArcShown(own)

\* The paths that are mapped to those of the prim's own instance: those of the root
\* layer that are on the source instance, and, if the last names of the instances
\* differ, those that are not
Mapped(arc, S, I) ==
    arc.in_root_layer /\ (IsPrefix(S, arc.introducing_prim_path) \/ Last(S) # Last(I))

\* A producer that has no rows makes one of each of the arcs that are shown of a
\* prim, with the arc's path if it is mapped (usd_composition_arcs.cpp:125).
LEMMA OwnArcs ==
    ASSUME NEW pr, NEW f \in DOMAIN Stages, NEW o, IsList(o.mask_path), NEW q \in Composed(f, o),
           Sound("usd_composition_arcs", pr, f, o), pr.rows = <<>>
    PROVE  LET a == AddPrim("usd_composition_arcs", pr, f, q, o)
               index == IndexPath(f, o, q)
               arcs == Wanted(o, Prim(f, index).arcs)
               own == Wanted(o, Prim(f, q).arcs)
           IN  /\ IsList(a.rows) /\ Len(a.rows) = Len(own) /\ Len(own) \in Nat
               /\ \A n \in 1 .. Len(own) :
                    /\ ShowsArc(a, a.rows[n], f, q, o, own[n], n)
                    /\ \/ "proxy" \notin Prim(f, q).flags
                       \/ Mapped(arcs[n], Prim(f, index).instance, Prim(f, q).instance)
                       => Write("usd_composition_arcs", a, f, a.rows[n], "introducing_prim_path", o)
                            = own[n].introducing_prim_path
<1> DEFINE fn == "usd_composition_arcs"
           a == AddPrim(fn, pr, f, q, o)
           index == IndexPath(f, o, q)
           arcs == Wanted(o, Prim(f, index).arcs)
           own == Wanted(o, Prim(f, q).arcs)
           I == Prim(f, q).instance
           S == Prim(f, index).instance
           proxy == "proxy" \in Prim(f, q).flags
           roots == IF proxy THEN Roots(index, q) ELSE <<q, q>>
<1>1. PICK list, at, new : AddsArcs(pr, a, f, q, o, list, at, new)
  BY AddedArcs
<1>2. ArcsGrow(pr, a, f, q, o, list, at, arcs, new) /\ RowsOfArcs(new, q, list, at, arcs, roots)
  BY <1>1 DEF AddsArcs
<1>3. q \in Paths(f) /\ index \in Paths(f) /\ IsList(q)
  <2>1. q \in Paths(f)
    BY DEF Composed
  <2> QED BY <2>1, PrimFacts, IndexIsPath
<1>4. /\ IsList(own) /\ Len(own) \in Nat /\ \A n \in 1 .. Len(own) : IsArc(own[n])
  <2>1. IsList(own) /\ \A n \in 1 .. Len(own) : IsArc(own[n])
    BY <1>3, WantedAreArcs
  <2> HIDE DEF own
  <2> QED BY <2>1, ListFacts
<1>5. ~proxy => index = q /\ arcs = own /\ roots = <<q, q>>
  BY DEF IndexPath
<1>6. proxy => Len(arcs) = Len(own) /\ \A n \in 1 .. Len(arcs) : SameArc(arcs[n], S, own[n], I)
  BY WantedAlike
<1>7. Len(arcs) = Len(own) /\ \A n \in 1 .. Len(own) : ArcShown(arcs[n]) = ArcShown(own[n])
  <2> HIDE DEF arcs, own, proxy, S, I
  <2> QED BY <1>5, <1>6 DEF SameArc
<1>8. a.rows = new /\ IsList(new) /\ Len(new) = Len(own)
  <2> HIDE DEF a, arcs, own, roots
  <2>1. a.rows = pr.rows \o new /\ IsList(new) /\ Len(new) = Len(arcs)
    BY <1>2 DEF ArcsGrow
  <2>2. <<>> \o new = new
    BY <2>1, ConcatIsList
  <2>3. pr.rows \o new = <<>> \o new
    OBVIOUS
  <2> QED BY <1>7, <2>1, <2>2, <2>3
<1>9. \A n \in 1 .. Len(arcs) : ArcOf(a, new[n]) = ArcShown(arcs[n])
  <2> HIDE DEF a, arcs
  <2> QED BY <1>2, ArcsKept
<1>10. \A n \in 1 .. Len(own) :
         /\ new[n].prim = q /\ new[n].arc[3] = n
         /\ new[n].introducing_prim_path = ReplacePrefix(arcs[n].introducing_prim_path, roots[1], roots[2])
  <2> HIDE DEF arcs, own, roots
  <2> QED BY <1>2, <1>7 DEF RowsOfArcs
<1>11. \A x, c : Write(fn, a, f, x, c, o) = ArcsWrite(a, x, c)
  BY DEF Write
<1>12. ASSUME NEW n \in 1 .. Len(own)
       PROVE  /\ ShowsArc(a, a.rows[n], f, q, o, own[n], n)
              /\ ~proxy \/ Mapped(arcs[n], S, I)
                   => Write(fn, a, f, a.rows[n], "introducing_prim_path", o) = own[n].introducing_prim_path
  <2> DEFINE row == new[n]
             path == own[n].introducing_prim_path
  <2>1. a.rows[n] = row /\ row.prim = q /\ row.arc[3] = n
    BY <1>8, <1>10
  <2>2. ArcOf(a, row) = ArcShown(own[n])
    BY <1>7, <1>9
  <2>3. /\ ArcsWrite(a, row, "prim_path") = row.prim
        /\ ArcsWrite(a, row, "arc_index") = row.arc[3] - 1
        /\ ArcsWrite(a, row, "arc") = ArcOf(a, row)
        /\ ArcsWrite(a, row, "introducing_prim_path") = row.introducing_prim_path
    BY DEF ArcsWrite
  <2>4. ShowsArc(a, a.rows[n], f, q, o, own[n], n)
    <3> HIDE DEF a, row, own
    <3> QED BY <1>11, <2>1, <2>2, <2>3 DEF ShowsArc
  <2>5. CASE ~proxy
    <3>1. row.introducing_prim_path = ReplacePrefix(path, q, q)
      BY <1>5, <1>10, <2>5
    <3>2. IsList(path)
      BY <1>4 DEF IsArc
    <3>3. ReplacePrefix(path, q, q) = path
      BY <1>3, <3>2, ReplaceSame
    <3> HIDE DEF a, row, own, path
    <3>4. Write(fn, a, f, a.rows[n], "introducing_prim_path", o) = path
      BY <1>11, <2>1, <2>3, <3>1, <3>3
    <3> QED BY <2>4, <3>4 DEF path
  <2>6. CASE proxy /\ Mapped(arcs[n], S, I)
    <3>1. row.introducing_prim_path = ReplacePrefix(arcs[n].introducing_prim_path, roots[1], roots[2])
      BY <1>10
    <3>2. roots = Roots(index, q)
      BY <2>6
    <3>3. SameArc(arcs[n], S, own[n], I) /\ proxy
      BY <1>6, <1>7, <2>6
    <3> HIDE DEF a, row, own, path, arcs, roots
    <3>4. ReplacePrefix(arcs[n].introducing_prim_path, roots[1], roots[2]) = own[n].introducing_prim_path
      BY <2>6, <3>2, <3>3, PathsAreOwn DEF Mapped
    <3>5. Write(fn, a, f, a.rows[n], "introducing_prim_path", o) = own[n].introducing_prim_path
      BY <1>11, <2>1, <2>3, <3>1, <3>4
    <3> QED BY <2>4, <3>5
  <2> HIDE DEF a, own, arcs, proxy, S, I
  <2> QED BY <2>4, <2>5, <2>6
<1> HIDE DEF a, own, arcs, S, I
<1> QED BY <1>4, <1>8, <1>12 DEF a, own, arcs, S, I

=============================================================================
