---------------------------- MODULE FoldTheorems ----------------------------
(***************************************************************************)
(* What SumFunction of the module Functions computes of a function on a    *)
(* finite set, FlattenSeq of the module SequencesExt of a sequence of      *)
(* sequences, and Sorted of the module Lists of a finite set.              *)
(*                                                                         *)
(* The first two are recursive functions.  That they exist, and what they *)
(* are, is shown by a smallest argument that would be an exception.        *)
(***************************************************************************)
EXTENDS Lists, Functions, FiniteSetTheorems, SequenceTheorems, WellFoundedInduction, TLAPS

\* The element the sum takes first.
One(s) == CHOOSE x \in s : TRUE

\* The sum over s, where g holds those over smaller sets.
Body(fun, g, s) == IF s = {} THEN 0 ELSE fun[One(s)] + g[s \ {One(s)}]

\* The sums of fun over the subsets of D.
AreSums(fun, D, g) == g = [s \in SUBSET D |-> Body(fun, g, s)]

\* Of some subsets of a finite set, one has none of the others in it.
LEMMA SmallestSubset ==
  ASSUME NEW D, IsFiniteSet(D), NEW B \in SUBSET (SUBSET D), B # {}
  PROVE  \E s \in B : \A t \in B : t \subseteq s => t = s
<1>1. IsWellFoundedOn(StrictSubsetOrdering(D), FiniteSubsetsOf(D))
  BY FS_StrictSubsetOrderingWellFounded
<1>2. B \subseteq FiniteSubsetsOf(D)
  BY FS_Subset DEF FiniteSubsetsOf
<1>3. PICK s \in B : \A t \in B : ~(<<t, s>> \in StrictSubsetOrdering(D))
  BY <1>1, <1>2, WFMin
<1>4. \A t \in B : t \subseteq s => t = s
  BY <1>3 DEF StrictSubsetOrdering
<1> QED BY <1>4

\* The element that a sum takes first is one of the set.
LEMMA OneIsIn ==
  ASSUME NEW s, s # {}
  PROVE  One(s) \in s /\ s \ {One(s)} \subseteq s /\ s \ {One(s)} # s
BY DEF One

\* The sums are the same in every set that has the subset.
LEMMA SumsAgree ==
  ASSUME NEW fun, NEW D, NEW E, NEW g, NEW h, IsFiniteSet(D),
         AreSums(fun, D, g), AreSums(fun, E, h), D \subseteq E
  PROVE  \A s \in SUBSET D : g[s] = h[s]
<1> DEFINE B == {s \in SUBSET D : g[s] # h[s]}
<1> SUFFICES ASSUME B # {} PROVE FALSE
  OBVIOUS
<1>1. PICK s \in B : \A t \in B : t \subseteq s => t = s
  <2>1. B \in SUBSET (SUBSET D) /\ B # {}
    OBVIOUS
  <2> HIDE DEF B
  <2> QED BY <2>1, SmallestSubset
<1>2. s \in SUBSET D /\ s \in SUBSET E /\ g[s] # h[s]
  BY <1>1
<1>3. g[s] = Body(fun, g, s) /\ h[s] = Body(fun, h, s)
  BY <1>2 DEF AreSums
<1>4. s # {}
  BY <1>2, <1>3 DEF Body
<1>5. g[s \ {One(s)}] = h[s \ {One(s)}]
  BY <1>1, <1>2, <1>4, OneIsIn
<1> QED BY <1>2, <1>3, <1>5 DEF Body

\* Every function has sums over the subsets of a finite set.
LEMMA SumsExist ==
  ASSUME NEW fun, NEW D, IsFiniteSet(D)
  PROVE  \E g : AreSums(fun, D, g)
<1> DEFINE B == {T \in SUBSET D : ~\E g : AreSums(fun, T, g)}
<1> SUFFICES ASSUME B # {} PROVE FALSE
  OBVIOUS
<1>1. PICK T \in B : \A U \in B : U \subseteq T => U = T
  <2>1. B \in SUBSET (SUBSET D) /\ B # {}
    OBVIOUS
  <2> HIDE DEF B
  <2> QED BY <2>1, SmallestSubset
<1>2. T \in SUBSET D /\ IsFiniteSet(T)
  BY FS_Subset
<1> DEFINE sums(U) == CHOOSE g : AreSums(fun, U, g)
<1>3. \A U \in SUBSET T : U # T => AreSums(fun, U, sums(U))
  BY <1>1, <1>2
<1>4. \A U \in SUBSET T : U # T => sums(U)[U] = Body(fun, sums(U), U)
  <2> SUFFICES ASSUME NEW U \in SUBSET T, U # T PROVE sums(U)[U] = Body(fun, sums(U), U)
    OBVIOUS
  <2>1. AreSums(fun, U, sums(U)) /\ U \in SUBSET U
    BY <1>3
  <2> HIDE DEF sums
  <2> QED BY <2>1 DEF AreSums
<1>5. \A U \in SUBSET T : \A V \in SUBSET U : U # T => sums(U)[V] = sums(V)[V]
  <2> SUFFICES ASSUME NEW U \in SUBSET T, NEW V \in SUBSET U, U # T PROVE sums(U)[V] = sums(V)[V]
    OBVIOUS
  <2>1. V \in SUBSET T /\ V # T /\ V \subseteq U /\ V \in SUBSET V
    OBVIOUS
  <2>2. AreSums(fun, U, sums(U)) /\ AreSums(fun, V, sums(V))
    BY <1>3, <2>1
  <2>3. IsFiniteSet(V)
    BY <1>2, <2>1, FS_Subset
  <2> HIDE DEF sums
  <2> QED BY <2>1, <2>2, <2>3, SumsAgree
<1> HIDE DEF sums
<1> DEFINE total == [s \in SUBSET T |-> IF s = T /\ s # {} THEN fun[One(T)] + sums(T \ {One(T)})[T \ {One(T)}]
                                        ELSE IF s = {} THEN 0 ELSE sums(s)[s]]
<1>6. ASSUME NEW s \in SUBSET T PROVE total[s] = Body(fun, total, s)
  <2>1. CASE s = {}
    BY <2>1 DEF Body
  <2>2. CASE s # {}
    <3> DEFINE r == s \ {One(s)}
    <3>1. r \in SUBSET T /\ r # T /\ r \subseteq s
      BY <2>2, OneIsIn
    <3>2. total[r] = sums(r)[r]
      <4>1. CASE r = {}
        <5>1. sums(r)[r] = 0
          BY <1>4, <3>1, <4>1 DEF Body
        <5> QED BY <3>1, <4>1, <5>1
      <4>2. CASE r # {}
        BY <3>1, <4>2
      <4> QED BY <4>1, <4>2
    <3>3. Body(fun, total, s) = fun[One(s)] + sums(r)[r]
      <4> HIDE DEF total
      <4> QED BY <2>2, <3>2 DEF Body
    <3>4. CASE s = T
      <4>1. total[s] = fun[One(s)] + sums(r)[r]
        BY <2>2, <3>4
      <4> QED BY <3>3, <4>1
    <3>5. CASE s # T
      <4>1. total[s] = sums(s)[s]
        BY <2>2, <3>5
      <4>2. sums(s)[s] = fun[One(s)] + sums(s)[r]
        BY <1>4, <2>2, <3>5 DEF Body
      <4>3. sums(s)[r] = sums(r)[r]
        BY <1>5, <3>1, <3>5
      <4> QED BY <3>3, <4>1, <4>2, <4>3
    <3> QED BY <3>4, <3>5
  <2> QED BY <2>1, <2>2
<1>7. total = [s \in SUBSET T |-> Body(fun, total, s)]
  <2>1. DOMAIN total = SUBSET T /\ total = [s \in SUBSET T |-> total[s]]
    OBVIOUS
  <2> HIDE DEF total
  <2> QED BY <1>6, <2>1
<1>8. AreSums(fun, T, total)
  <2> HIDE DEF total
  <2> QED BY <1>7 DEF AreSums
<1> HIDE DEF total
<1> QED BY <1>1, <1>8

\* SumFunctionOnSet is such a sum.
LEMMA SumOnSetIs ==
  ASSUME NEW fun, NEW S, IsFiniteSet(S)
  PROVE  \E g : AreSums(fun, S, g) /\ SumFunctionOnSet(fun, S) = g[S]
<1> DEFINE sum == CHOOSE iter : iter = [s \in SUBSET S |->
                                          IF s = {} THEN 0 ELSE fun[One(s)] + iter[s \ {One(s)}]]
<1>1. SumFunctionOnSet(fun, S) = sum[S]
  BY Zenon DEF SumFunctionOnSet, FoldFunctionOnSet, MapThenFoldSet, One
<1>2. \E g : g = [s \in SUBSET S |-> IF s = {} THEN 0 ELSE fun[One(s)] + g[s \ {One(s)}]]
  <2>1. PICK g : AreSums(fun, S, g)
    BY SumsExist
  <2>2. g = [s \in SUBSET S |-> IF s = {} THEN 0 ELSE fun[One(s)] + g[s \ {One(s)}]]
    BY <2>1 DEF AreSums, Body
  <2> QED BY <2>2
<1>3. sum = [s \in SUBSET S |-> IF s = {} THEN 0 ELSE fun[One(s)] + sum[s \ {One(s)}]]
  BY <1>2
<1>4. AreSums(fun, S, sum)
  <2> HIDE DEF sum
  <2> QED BY <1>3 DEF AreSums, Body
<1> HIDE DEF sum
<1> QED BY <1>1, <1>4

\* SumFunction is one, over the domain.
LEMMA SumFunctionIs ==
  ASSUME NEW fun, IsFiniteSet(DOMAIN fun)
  PROVE  \E g : AreSums(fun, DOMAIN fun, g) /\ SumFunction(fun) = g[DOMAIN fun]
<1>1. SumFunction(fun) = SumFunctionOnSet(fun, DOMAIN fun)
  BY DEF SumFunction
<1> QED BY <1>1, SumOnSetIs

\* The sum over a set is the sum of the function that is restricted to it.
LEMMA SumOfRestriction ==
  ASSUME NEW fun, NEW S, IsFiniteSet(S)
  PROVE  SumFunctionOnSet(fun, S) = SumFunction([x \in S |-> fun[x]])
<1> DEFINE restricted == [x \in S |-> fun[x]]
<1>1. PICK g : AreSums(fun, S, g) /\ SumFunctionOnSet(fun, S) = g[S]
  BY SumOnSetIs
<1>2. DOMAIN restricted = S /\ \A x \in S : restricted[x] = fun[x]
  OBVIOUS
<1> HIDE DEF restricted
<1>3. PICK h : AreSums(restricted, S, h) /\ SumFunction(restricted) = h[S]
  BY <1>2, SumFunctionIs
<1>4. \A s \in SUBSET S : Body(restricted, g, s) = Body(fun, g, s)
  BY <1>2, OneIsIn DEF Body
<1>5. AreSums(restricted, S, g)
  BY <1>1, <1>4 DEF AreSums
<1>6. h[S] = g[S]
  BY <1>3, <1>5, SumsAgree
<1> QED BY <1>1, <1>3, <1>6 DEF restricted

\* A sum of natural numbers is one.
LEMMA SumType ==
  ASSUME NEW D, IsFiniteSet(D), NEW fun \in [D -> Nat]
  PROVE  SumFunction(fun) \in Nat
<1>1. PICK g : AreSums(fun, D, g) /\ SumFunction(fun) = g[D]
  BY SumFunctionIs
<1> DEFINE B == {s \in SUBSET D : g[s] \notin Nat}
<1> SUFFICES ASSUME B # {} PROVE FALSE
  BY <1>1
<1>2. PICK s \in B : \A t \in B : t \subseteq s => t = s
  <2>1. B \in SUBSET (SUBSET D) /\ B # {}
    OBVIOUS
  <2> HIDE DEF B
  <2> QED BY <2>1, SmallestSubset
<1>3. s \in SUBSET D /\ g[s] \notin Nat /\ g[s] = Body(fun, g, s)
  BY <1>1 DEF AreSums
<1>4. s # {}
  BY <1>3 DEF Body
<1>5. g[s \ {One(s)}] \in Nat /\ fun[One(s)] \in Nat
  BY <1>2, <1>3, <1>4, OneIsIn
<1> QED BY <1>3, <1>4, <1>5 DEF Body

\* The sum of no values.
LEMMA SumOfNone ==
  ASSUME NEW fun, DOMAIN fun = {}
  PROVE  SumFunction(fun) = 0
<1>1. IsFiniteSet(DOMAIN fun)
  BY FS_EmptySet
<1>2. PICK g : AreSums(fun, DOMAIN fun, g) /\ SumFunction(fun) = g[DOMAIN fun]
  BY <1>1, SumFunctionIs
<1>3. g[{}] = Body(fun, g, {})
  BY <1>2 DEF AreSums
<1> QED BY <1>2, <1>3 DEF Body

\* A change of one value changes the sum by as much.
LEMMA SumExcept ==
  ASSUME NEW D, IsFiniteSet(D), NEW fun \in [D -> Nat], NEW c \in D, NEW v \in Nat
  PROVE  SumFunction([fun EXCEPT ![c] = v]) = SumFunction(fun) - fun[c] + v
<1> DEFINE other == [fun EXCEPT ![c] = v]
<1>1. PICK g : AreSums(fun, D, g) /\ SumFunction(fun) = g[D]
  BY SumFunctionIs
<1>2. PICK h : AreSums(other, D, h) /\ SumFunction(other) = h[D]
  BY SumFunctionIs
<1>3. \A x \in D : other[x] = IF x = c THEN v ELSE fun[x]
  OBVIOUS
<1> HIDE DEF other
<1>4. \A s \in SUBSET D : g[s] \in Nat
  <2> DEFINE B == {s \in SUBSET D : g[s] \notin Nat}
  <2> SUFFICES ASSUME B # {} PROVE FALSE
    OBVIOUS
  <2>1. PICK s \in B : \A t \in B : t \subseteq s => t = s
    <3>1. B \in SUBSET (SUBSET D) /\ B # {}
      OBVIOUS
    <3> HIDE DEF B
    <3> QED BY <3>1, SmallestSubset
  <2>2. s \in SUBSET D /\ g[s] \notin Nat /\ g[s] = Body(fun, g, s)
    BY <1>1 DEF AreSums
  <2>3. s # {}
    BY <2>2 DEF Body
  <2>4. g[s \ {One(s)}] \in Nat /\ fun[One(s)] \in Nat
    BY <2>1, <2>2, <2>3, OneIsIn
  <2> QED BY <2>2, <2>3, <2>4 DEF Body
<1> DEFINE B == {s \in SUBSET D : h[s] # IF c \in s THEN g[s] - fun[c] + v ELSE g[s]}
<1>5. ASSUME B # {} PROVE FALSE
  <2>1. PICK s \in B : \A t \in B : t \subseteq s => t = s
    <3>1. B \in SUBSET (SUBSET D) /\ B # {}
      BY <1>5
    <3> HIDE DEF B
    <3> QED BY <3>1, SmallestSubset
  <2>2. /\ s \in SUBSET D /\ h[s] # IF c \in s THEN g[s] - fun[c] + v ELSE g[s]
        /\ g[s] = Body(fun, g, s) /\ h[s] = Body(other, h, s)
    BY <1>1, <1>2, <2>1 DEF AreSums
  <2>3. s # {}
    BY <2>2 DEF Body
  <2> DEFINE x == One(s)
             r == s \ {x}
  <2>4. x \in s /\ x \in D /\ r \in SUBSET D /\ r \subseteq s /\ r # s
    BY <2>2, <2>3, OneIsIn
  <2>5. h[r] = IF c \in r THEN g[r] - fun[c] + v ELSE g[r]
    BY <2>1, <2>4
  <2>6. g[s] = fun[x] + g[r] /\ h[s] = other[x] + h[r]
    BY <2>2, <2>3 DEF Body
  <2>7. c \in r <=> c \in s /\ c # x
    OBVIOUS
  <2>8. fun[x] \in Nat /\ fun[c] \in Nat /\ g[r] \in Nat /\ other[x] = IF x = c THEN v ELSE fun[x]
    BY <1>3, <1>4, <2>4
  <2> HIDE DEF x, r
  <2>9. CASE x = c
    BY <2>2, <2>4, <2>5, <2>6, <2>7, <2>8, <2>9
  <2>10. CASE x # c
    BY <2>2, <2>4, <2>5, <2>6, <2>7, <2>8, <2>10
  <2> QED BY <2>9, <2>10
<1>6. h[D] = g[D] - fun[c] + v
  BY <1>5
<1> QED BY <1>1, <1>2, <1>6 DEF other

\* No term is larger than the sum.
LEMMA SumCovers ==
  ASSUME NEW D, IsFiniteSet(D), NEW fun \in [D -> Nat], NEW c \in D
  PROVE  fun[c] <= SumFunction(fun)
<1> DEFINE other == [fun EXCEPT ![c] = 0]
<1>1. other \in [D -> Nat]
  OBVIOUS
<1>2. 0 \in Nat
  OBVIOUS
<1>3. SumFunction(other) = SumFunction(fun) - fun[c] + 0
  BY <1>2, SumExcept, Zenon
<1>4. SumFunction(other) \in Nat /\ SumFunction(fun) \in Nat /\ fun[c] \in Nat
  BY <1>1, SumType
<1> HIDE DEF other
<1> QED BY <1>3, <1>4

-----------------------------------------------------------------------------
(* Sequences *)

\* A set of numbers that has 0, and with a number the next, has all.
LEMMA Induction ==
  ASSUME NEW P, 0 \in P, \A n \in Nat : n \in P => n + 1 \in P
  PROVE  Nat \subseteq P
<1> DEFINE B == Nat \ P
<1> SUFFICES ASSUME B # {} PROVE FALSE
  OBVIOUS
<1>1. PICK n \in B : \A m \in B : ~(<<m, n>> \in OpToRel(<, Nat))
  BY NatLessThanWellFounded, WFMin
<1>2. n \in Nat /\ n # 0 /\ n - 1 \in Nat /\ n - 1 < n
  OBVIOUS
<1>3. n - 1 \notin B
  BY <1>1, <1>2 DEF OpToRel
<1> QED BY <1>2, <1>3

\* A set of numbers has a least one, and up to n a largest.
LEMMA Extremes ==
  ASSUME NEW n \in Nat, NEW S \in SUBSET 1..n, S # {}
  PROVE  /\ Min(S) \in S /\ \A i \in S : Min(S) <= i
         /\ Max(S) \in S /\ \A i \in S : Max(S) >= i
<1>1. \E i \in S : \A j \in S : i <= j
  <2>1. S \subseteq Nat
    OBVIOUS
  <2>2. PICK i \in S : \A j \in S : ~(<<j, i>> \in OpToRel(<, Nat))
    BY <2>1, NatLessThanWellFounded, WFMin
  <2>3. ASSUME NEW j \in S PROVE i <= j
    <3>1. i \in Nat /\ j \in Nat /\ ~(j < i)
      BY <2>1, <2>2 DEF OpToRel
    <3> QED  BY <3>1
  <2> QED  BY <2>3
<1>2. \E i \in S : \A j \in S : i >= j
  <2> DEFINE B == {n - i : i \in S}
  <2>1. B \subseteq Nat /\ B # {}
    <3>1. \A i \in 1..n : n - i \in Nat
      OBVIOUS
    <3> QED  BY <3>1
  <2> HIDE DEF B
  <2>2. PICK b \in B : \A c \in B : ~(<<c, b>> \in OpToRel(<, Nat))
    BY <2>1, NatLessThanWellFounded, WFMin
  <2>3. PICK i \in S : b = n - i
    BY DEF B
  <2>4. ASSUME NEW j \in S PROVE i >= j
    <3>1. n - j \in B
      BY DEF B
    <3>2. n - j \in Nat /\ b \in Nat /\ ~(n - j < b)
      BY <2>1, <2>2, <3>1 DEF OpToRel
    <3> QED  BY <2>3, <3>2
  <2> QED  BY <2>4
<1> QED  BY <1>1, <1>2 DEF Min, Max

\* The recursive function over the numbers up to n, where F says what one more
\* number makes of the value before it.
IsRecursion(g, D, base, n, F) ==
  g \in [0..n -> D] /\ g = [i \in 0..n |-> IF i = 0 THEN base ELSE F[<<g[i - 1], i>>]]

\* It exists.
LEMMA RecursionExists ==
  ASSUME NEW D, NEW base \in D, NEW n \in Nat, NEW F \in [D \X (1..n) -> D]
  PROVE  \E g : IsRecursion(g, D, base, n, F)
<1> DEFINE N == {m \in Nat : m <= n =>
                   \E g \in [0..m -> D] : /\ g[0] = base
                                          /\ \A i \in 1..m : g[i] = F[<<g[i - 1], i>>]}
<1>1. 0 \in N
  <2> DEFINE g == [i \in 0..0 |-> base]
  <2>1. g \in [0..0 -> D] /\ g[0] = base
    OBVIOUS
  <2> HIDE DEF g
  <2> QED BY <2>1
<1>2. ASSUME NEW m \in Nat, m \in N PROVE m + 1 \in N
  <2> SUFFICES ASSUME m + 1 <= n
               PROVE  \E g \in [0..(m + 1) -> D] : /\ g[0] = base
                                                  /\ \A i \in 1..(m + 1) : g[i] = F[<<g[i - 1], i>>]
    OBVIOUS
  <2>1. PICK g \in [0..m -> D] : g[0] = base /\ \A i \in 1..m : g[i] = F[<<g[i - 1], i>>]
    BY <1>2
  <2> DEFINE v == F[<<g[m], m + 1>>]
             h == [i \in 0..(m + 1) |-> IF i <= m THEN g[i] ELSE v]
  <2>2. v \in D
    <3>1. <<g[m], m + 1>> \in D \X (1..n)
      OBVIOUS
    <3> QED BY <3>1
  <2>3. h \in [0..(m + 1) -> D] /\ h[m + 1] = v /\ \A i \in 0..m : h[i] = g[i]
    BY <2>2
  <2>4. v = F[<<g[m], m + 1>>]
    OBVIOUS
  <2> HIDE DEF h, v
  <2>5. h[0] = base
    BY <2>1, <2>3
  <2>6. ASSUME NEW i \in 1..(m + 1) PROVE h[i] = F[<<h[i - 1], i>>]
    <3>1. i - 1 \in 0..m /\ (i \in 1..m \/ i = m + 1)
      OBVIOUS
    <3>2. h[i - 1] = g[i - 1]
      BY <2>3, <3>1
    <3>3. CASE i \in 1..m
      <4>1. h[i] = g[i] /\ g[i] = F[<<g[i - 1], i>>]
        BY <2>1, <2>3, <3>3
      <4> QED BY <3>2, <4>1
    <3>4. CASE i = m + 1
      <4>1. i - 1 = m
        BY <3>4
      <4> QED BY <2>3, <2>4, <3>2, <3>4, <4>1
    <3> QED BY <3>1, <3>3, <3>4
  <2> QED BY <2>3, <2>5, <2>6
<1>3. Nat \subseteq N
  <2> HIDE DEF N
  <2> QED BY <1>1, <1>2, Induction
<1>4. PICK g \in [0..n -> D] : g[0] = base /\ \A i \in 1..n : g[i] = F[<<g[i - 1], i>>]
  BY <1>3
<1>5. \A i \in 0..n : g[i] = IF i = 0 THEN base ELSE F[<<g[i - 1], i>>]
  BY <1>4
<1>6. g = [i \in 0..n |-> IF i = 0 THEN base ELSE F[<<g[i - 1], i>>]]
  BY <1>5
<1> QED BY <1>6 DEF IsRecursion

\* A set that has the empty sequence, and with a sequence every longer one by
\* a member, has all sequences.
LEMMA SequenceInduction ==
  ASSUME NEW T, NEW P, <<>> \in P,
         \A s \in Seq(T), e \in T : s \in P => Append(s, e) \in P
  PROVE  Seq(T) \subseteq P
<1> DEFINE N == {n \in Nat : \A s \in Seq(T) : Len(s) = n => s \in P}
<1>1. 0 \in N
  OBVIOUS
<1>2. ASSUME NEW n \in Nat, n \in N PROVE n + 1 \in N
  <2> SUFFICES ASSUME NEW s \in Seq(T), Len(s) = n + 1 PROVE s \in P
    OBVIOUS
  <2>1. PICK t \in Seq(T), e \in T : Len(t) = n /\ s = Append(t, e)
    <3>1. n \in Nat /\ s \in Seq(T) /\ Len(s) = n + 1
      OBVIOUS
    <3> HIDE DEF N
    <3>2. s # <<>>
      BY <3>1
    <3>3. \A u \in Seq(T) : u # <<>> => \E t \in Seq(T), e \in T : u = Append(t, e)
      BY SequenceEmptyOrAppend
    <3>4. PICK t \in Seq(T), e \in T : s = Append(t, e)
      BY <3>1, <3>2, <3>3
    <3>5. Len(t) = n
      BY <3>1, <3>4
    <3> QED BY <3>4, <3>5
  <2> QED BY <1>2, <2>1
<1>3. Nat \subseteq N
  <2> HIDE DEF N
  <2> QED BY <1>1, <1>2, Induction
<1> QED BY <1>3

\* The concatenations of the first members of ss.
AreConcats(ss, n, g) ==
  g = [i \in 1..n |-> IF i = 1 THEN ss[i] ELSE g[i - 1] \o ss[i]]

\* They exist, and are sequences of the same set.
LEMMA ConcatsExist ==
  ASSUME NEW T, NEW ss \in Seq(Seq(T))
  PROVE  \A n \in 0..Len(ss) : \E g : AreConcats(ss, n, g) /\ g \in [1..n -> Seq(T)]
<1> DEFINE N == {n \in Nat : n <= Len(ss) =>
                   \E g : AreConcats(ss, n, g) /\ g \in [1..n -> Seq(T)]}
<1>1. 0 \in N
  <2> DEFINE none == [i \in 1..0 |-> <<>>]
  <2>1. AreConcats(ss, 0, none)
    BY DEF AreConcats
  <2>2. none \in [1..0 -> Seq(T)]
    OBVIOUS
  <2> HIDE DEF none
  <2> QED BY <2>1, <2>2
<1>2. ASSUME NEW n \in Nat, n \in N PROVE n + 1 \in N
  <2> SUFFICES ASSUME n + 1 <= Len(ss)
               PROVE  \E g : AreConcats(ss, n + 1, g) /\ g \in [1..(n + 1) -> Seq(T)]
    OBVIOUS
  <2>1. PICK g : AreConcats(ss, n, g) /\ g \in [1..n -> Seq(T)]
    BY <1>2
  <2>2. \A i \in 1..(n + 1) : ss[i] \in Seq(T)
    OBVIOUS
  <2> DEFINE h == [i \in 1..(n + 1) |-> IF i = 1 THEN ss[i]
                                       ELSE IF i <= n THEN g[i] ELSE g[n] \o ss[i]]
  <2>3. h \in [1..(n + 1) -> Seq(T)]
    <3> SUFFICES ASSUME NEW i \in 1..(n + 1) PROVE h[i] \in Seq(T)
      OBVIOUS
    <3>1. CASE i = 1
      BY <2>2, <3>1
    <3>2. CASE i # 1 /\ i <= n
      BY <2>1, <3>2
    <3>3. CASE i # 1 /\ i = n + 1
      <4>1. g[n] \in Seq(T) /\ ss[i] \in Seq(T)
        BY <2>1, <2>2, <3>3
      <4> QED BY <3>3, <4>1
    <3> QED BY <3>1, <3>2, <3>3
  <2>4. \A i \in 1..n : h[i] = g[i]
    <3> SUFFICES ASSUME NEW i \in 1..n PROVE h[i] = g[i]
      OBVIOUS
    <3>1. g[i] = IF i = 1 THEN ss[i] ELSE g[i - 1] \o ss[i]
      BY <2>1 DEF AreConcats
    <3> QED BY <3>1
  <2>5. ASSUME NEW i \in 1..(n + 1)
        PROVE  h[i] = IF i = 1 THEN ss[i] ELSE h[i - 1] \o ss[i]
    <3>1. h[i] = IF i = 1 THEN ss[i] ELSE IF i <= n THEN g[i] ELSE g[n] \o ss[i]
      OBVIOUS
    <3> HIDE DEF h
    <3>2. i = 1 \/ (i # 1 /\ i <= n /\ i \in 1..n /\ i - 1 \in 1..n)
            \/ (i # 1 /\ ~(i <= n) /\ i - 1 = n /\ n \in 1..n)
      OBVIOUS
    <3>3. CASE i # 1 /\ i <= n /\ i \in 1..n /\ i - 1 \in 1..n
      <4>1. g[i] = IF i = 1 THEN ss[i] ELSE g[i - 1] \o ss[i]
        <5>1. g = [k \in 1..n |-> IF k = 1 THEN ss[k] ELSE g[k - 1] \o ss[k]]
          BY <2>1 DEF AreConcats
        <5> QED BY <3>3, <5>1, Zenon
      <4> QED BY <2>4, <3>3, <4>1
    <3>4. CASE i # 1 /\ ~(i <= n) /\ i - 1 = n /\ n \in 1..n
      BY <2>4, <3>1, <3>4
    <3> QED BY <3>1, <3>2, <3>3, <3>4
  <2>6. AreConcats(ss, n + 1, h)
    <3>1. h = [i \in 1..(n + 1) |-> h[i]]
      OBVIOUS
    <3> HIDE DEF h
    <3> QED BY <2>5, <3>1 DEF AreConcats
  <2> HIDE DEF h
  <2> QED BY <2>3, <2>6
<1>3. Nat \subseteq N
  <2> HIDE DEF N
  <2> QED BY <1>1, <1>2, Induction
<1> QED BY <1>3

\* FlattenSeq is the last of them.
LEMMA FlattenIs ==
  ASSUME NEW T, NEW ss \in Seq(Seq(T)), ss # <<>>
  PROVE  \E g : /\ AreConcats(ss, Len(ss), g) /\ g \in [1..Len(ss) -> Seq(T)]
               /\ FlattenSeq(ss) = g[Len(ss)]
<1> DEFINE n == Len(ss)
           flat == CHOOSE g : g = [i \in 1..n |-> IF i = 1 THEN ss[i] ELSE g[i - 1] \o ss[i]]
<1>1. n \in 0..Len(ss) /\ n # 0
  OBVIOUS
<1>2. FlattenSeq(ss) = flat[n]
  BY <1>1 DEF FlattenSeq
<1>3. PICK g : AreConcats(ss, n, g) /\ g \in [1..n -> Seq(T)]
  BY <1>1, ConcatsExist
<1>4. AreConcats(ss, n, flat)
  <2>1. g = [i \in 1..n |-> IF i = 1 THEN ss[i] ELSE g[i - 1] \o ss[i]]
    BY <1>3 DEF AreConcats
  <2>2. flat = [i \in 1..n |-> IF i = 1 THEN ss[i] ELSE flat[i - 1] \o ss[i]]
    BY <2>1
  <2> HIDE DEF flat
  <2> QED BY <2>2 DEF AreConcats
<1> HIDE DEF flat
<1>5. \A i \in Nat : i \in 1..n => flat[i] = g[i]
  <2> DEFINE N == {i \in Nat : i \in 1..n => flat[i] = g[i]}
  <2>1. 0 \in N
    OBVIOUS
  <2>2. ASSUME NEW i \in Nat, i \in N PROVE i + 1 \in N
    <3> SUFFICES ASSUME i + 1 \in 1..n PROVE flat[i + 1] = g[i + 1]
      OBVIOUS
    <3>1. /\ flat[i + 1] = IF i + 1 = 1 THEN ss[i + 1] ELSE flat[(i + 1) - 1] \o ss[i + 1]
          /\ g[i + 1] = IF i + 1 = 1 THEN ss[i + 1] ELSE g[(i + 1) - 1] \o ss[i + 1]
      BY <1>3, <1>4 DEF AreConcats
    <3>2. CASE i = 0
      BY <3>1, <3>2
    <3>3. CASE i # 0
      <4>1. i \in 1..n /\ (i + 1) - 1 = i
        BY <3>3
      <4>2. flat[i] = g[i]
        BY <2>2, <4>1
      <4> QED BY <3>1, <3>3, <4>1, <4>2
    <3> QED BY <3>2, <3>3
  <2>3. Nat \subseteq N
    <3> HIDE DEF N
    <3> QED BY <2>1, <2>2, Induction
  <2> QED BY <2>3
<1>6. flat[n] = g[n]
  BY <1>1, <1>5
<1> QED BY <1>2, <1>3, <1>6

\* One more sequence is put at the end.
LEMMA FlattenAppend ==
  ASSUME NEW T, NEW ss \in Seq(Seq(T)), NEW s \in Seq(T)
  PROVE  FlattenSeq(Append(ss, s)) = FlattenSeq(ss) \o s /\ FlattenSeq(ss) \in Seq(T)
<1> DEFINE n == Len(ss)
           tt == Append(ss, s)
<1>1. /\ tt \in Seq(Seq(T)) /\ tt # <<>> /\ Len(tt) = n + 1 /\ n \in Nat
      /\ tt[n + 1] = s /\ \A i \in 1..n : tt[i] = ss[i]
  BY AppendProperties
<1> HIDE DEF tt
<1>2. PICK h : /\ AreConcats(tt, n + 1, h) /\ h \in [1..(n + 1) -> Seq(T)]
               /\ FlattenSeq(tt) = h[n + 1]
  BY <1>1, FlattenIs
<1>3. h = [i \in 1..(n + 1) |-> IF i = 1 THEN tt[i] ELSE h[i - 1] \o tt[i]]
  BY <1>2 DEF AreConcats
<1>4. h[n + 1] = IF n = 0 THEN s ELSE h[n] \o s
  <2>1. n + 1 \in 1..(n + 1) /\ (n + 1 = 1 <=> n = 0) /\ (n + 1) - 1 = n
    BY <1>1
  <2>2. h[n + 1] = IF n + 1 = 1 THEN tt[n + 1] ELSE h[(n + 1) - 1] \o tt[n + 1]
    BY <1>3, <2>1, Zenon
  <2> QED BY <1>1, <2>1, <2>2
<1>5. CASE n = 0
  <2>1. ss = <<>> /\ FlattenSeq(ss) = ss
    BY <1>5 DEF FlattenSeq
  <2>2. ss \o s = s /\ ss \in Seq(T)
    BY <2>1
  <2> QED BY <1>2, <1>4, <1>5, <2>1, <2>2 DEF tt
<1>6. CASE n # 0
  <2>1. PICK g : AreConcats(ss, n, g) /\ g \in [1..n -> Seq(T)] /\ FlattenSeq(ss) = g[n]
    BY <1>6, FlattenIs
  <2>2. \A i \in 1..n : h[i] = g[i]
    <3> DEFINE N == {i \in Nat : i \in 1..n => h[i] = g[i]}
    <3>1. 0 \in N
      OBVIOUS
    <3>2. ASSUME NEW i \in Nat, i \in N PROVE i + 1 \in N
      <4> SUFFICES ASSUME i + 1 \in 1..n PROVE h[i + 1] = g[i + 1]
        OBVIOUS
      <4>1. i + 1 \in 1..(n + 1) /\ (i + 1) - 1 = i /\ tt[i + 1] = ss[i + 1]
        BY <1>1
      <4>2. h[i + 1] = IF i + 1 = 1 THEN tt[i + 1] ELSE h[(i + 1) - 1] \o tt[i + 1]
        BY <1>3, <4>1, Zenon
      <4>3. g[i + 1] = IF i + 1 = 1 THEN ss[i + 1] ELSE g[(i + 1) - 1] \o ss[i + 1]
        BY <2>1 DEF AreConcats
      <4>4. i + 1 # 1 => h[i] = g[i]
        BY <1>1, <3>2
      <4> QED BY <4>1, <4>2, <4>3, <4>4
    <3>3. Nat \subseteq N
      <4> HIDE DEF N
      <4> QED BY <3>1, <3>2, Induction
    <3> QED BY <1>1, <3>3
  <2>3. h[n] = g[n] /\ g[n] \in Seq(T)
    BY <1>1, <1>6, <2>1, <2>2
  <2> QED BY <1>2, <1>4, <1>6, <2>1, <2>3 DEF tt
<1> QED BY <1>5, <1>6

\* What F makes of each member of s.
Image(F, s) == [i \in DOMAIN s |-> F[s[i]]]

\* One more member has its image at the end.
LEMMA ImageOfAppend ==
  \A T, U : \A F \in [T -> U] : \A s \in Seq(T) : \A e \in T :
    Image(F, s) \in Seq(U) /\ Image(F, Append(s, e)) = Append(Image(F, s), F[e])
<1> SUFFICES ASSUME NEW T, NEW U, NEW F \in [T -> U], NEW s \in Seq(T), NEW e \in T
             PROVE  Image(F, s) \in Seq(U) /\ Image(F, Append(s, e)) = Append(Image(F, s), F[e])
  OBVIOUS
<1>1. DOMAIN s = 1..Len(s) /\ Len(s) \in Nat /\ \A i \in 1..Len(s) : s[i] \in T
  OBVIOUS
<1>2. \A x \in T : F[x] \in U
  OBVIOUS
<1>3. Append(s, e) \in Seq(T) /\ DOMAIN Append(s, e) = 1..(Len(s) + 1)
      /\ Append(s, e)[Len(s) + 1] = e /\ \A i \in 1..Len(s) : Append(s, e)[i] = s[i]
  OBVIOUS
<1>4. Image(F, s) \in Seq(U) /\ Len(Image(F, s)) = Len(s)
  BY <1>1, <1>2, IsASeq DEF Image
<1> DEFINE tt == Append(Image(F, s), F[e])
           uu == Image(F, Append(s, e))
<1>5. tt \in Seq(U) /\ Len(tt) = Len(s) + 1 /\ tt[Len(s) + 1] = F[e]
      /\ \A i \in 1..Len(s) : tt[i] = F[s[i]]
  BY <1>1, <1>2, <1>4 DEF Image
<1>6. uu = [i \in 1..(Len(s) + 1) |-> F[Append(s, e)[i]]]
  BY <1>3 DEF Image
<1>7. uu \in Seq(U) /\ Len(uu) = Len(s) + 1
  <2>1. \A i \in 1..(Len(s) + 1) : Append(s, e)[i] \in T
    BY <1>3
  <2> QED BY <1>1, <1>2, <1>6, <2>1, IsASeq
<1>8. \A i \in 1..(Len(s) + 1) : uu[i] = tt[i]
  BY <1>1, <1>3, <1>5, <1>6
<1> HIDE DEF tt, uu
<1>9. uu = tt
  BY <1>5, <1>7, <1>8, SeqEqual
<1> QED BY <1>4, <1>9 DEF tt, uu

\* Within flattens what this makes of each member.
Pieces(T, S) == [x \in T |-> IF x \in S THEN <<x>> ELSE <<>>]

\* Within is the flat sequence of the pieces.
LEMMA WithinIs ==
  ASSUME NEW T, NEW S, NEW s \in Seq(T)
  PROVE  Pieces(T, S) \in [T -> Seq(T)] /\ Within(s, S) = FlattenSeq(Image(Pieces(T, S), s))
<1>1. Pieces(T, S) \in [T -> Seq(T)]
  BY DEF Pieces
<1>2. \A i \in DOMAIN s : s[i] \in T
  OBVIOUS
<1>3. Image(Pieces(T, S), s) = [i \in DOMAIN s |-> IF s[i] \in S THEN <<s[i]>> ELSE <<>>]
  BY <1>2 DEF Image, Pieces
<1> QED BY <1>1, <1>3 DEF Within

\* One more member is put at the end if it is in S.
LEMMA WithinAppend ==
  ASSUME NEW T, NEW S, NEW s \in Seq(T), NEW e \in T
  PROVE  /\ Within(s, S) \in Seq(T)
         /\ Within(Append(s, e), S) = IF e \in S THEN Append(Within(s, S), e) ELSE Within(s, S)
<1>1. PICK f \in [T -> Seq(T)] : f = Pieces(T, S)
  BY WithinIs
<1>2. Append(s, e) \in Seq(T)
  OBVIOUS
<1>3. /\ Within(s, S) = FlattenSeq(Image(f, s))
      /\ Within(Append(s, e), S) = FlattenSeq(Image(f, Append(s, e)))
  BY <1>1, <1>2, WithinIs
<1>4. Image(f, s) \in Seq(Seq(T)) /\ Image(f, Append(s, e)) = Append(Image(f, s), f[e])
  <2>1. \A F \in [T -> Seq(T)] : \A t \in Seq(T) : \A x \in T :
          Image(F, t) \in Seq(Seq(T)) /\ Image(F, Append(t, x)) = Append(Image(F, t), F[x])
    BY ImageOfAppend, Zenon
  <2> QED BY <2>1, Zenon
<1>5. f[e] \in Seq(T)
  OBVIOUS
<1>6. Within(s, S) \in Seq(T) /\ Within(Append(s, e), S) = Within(s, S) \o f[e]
  BY <1>3, <1>4, <1>5, FlattenAppend
<1>7. Within(s, S) \o <<e>> = Append(Within(s, S), e) /\ Within(s, S) \o <<>> = Within(s, S)
  BY <1>6
<1>8. f[e] = IF e \in S THEN <<e>> ELSE <<>>
  BY <1>1 DEF Pieces
<1> QED BY <1>6, <1>7, <1>8

\* Nothing is within nothing.
LEMMA WithinEmpty ==
  ASSUME NEW S
  PROVE  Within(<<>>, S) = <<>>
<1> DEFINE none == [i \in DOMAIN <<>> |-> IF <<>>[i] \in S THEN <<<<>>[i]>> ELSE <<>>]
<1>1. none = <<>>
  OBVIOUS
<1> HIDE DEF none
<1>2. FlattenSeq(none) = <<>>
  BY <1>1 DEF FlattenSeq
<1> QED BY <1>2 DEF Within, none

\* What an appended sequence has for members.
LEMMA MembersOfAppend ==
  ASSUME NEW T, NEW s \in Seq(T), NEW e \in T
  PROVE  ToSet(Append(s, e)) = ToSet(s) \cup {e}
<1>1. DOMAIN s = 1..Len(s) /\ Len(s) \in Nat /\ DOMAIN Append(s, e) = 1..(Len(s) + 1)
      /\ Append(s, e)[Len(s) + 1] = e /\ \A i \in 1..Len(s) : Append(s, e)[i] = s[i]
  OBVIOUS
<1> QED BY <1>1 DEF ToSet

\* Within keeps the members that are in S, and no others.
LEMMA WithinMembers ==
  ASSUME NEW T, NEW S, NEW s \in Seq(T)
  PROVE  Within(s, S) \in Seq(T) /\ ToSet(Within(s, S)) = ToSet(s) \cap S
<1> DEFINE P == {t \in Seq(T) : Within(t, S) \in Seq(T) /\ ToSet(Within(t, S)) = ToSet(t) \cap S}
<1>1. <<>> \in P
  <2>1. Within(<<>>, S) = <<>>
    BY WithinEmpty
  <2>2. ToSet(<<>>) = {}
    BY DEF ToSet
  <2>3. <<>> \in Seq(T)
    OBVIOUS
  <2> QED BY <2>1, <2>2, <2>3
<1>2. ASSUME NEW t \in Seq(T), NEW e \in T, t \in P PROVE Append(t, e) \in P
  <2>1. Within(t, S) \in Seq(T) /\ ToSet(Within(t, S)) = ToSet(t) \cap S
    BY <1>2
  <2>2. Within(Append(t, e), S) = IF e \in S THEN Append(Within(t, S), e) ELSE Within(t, S)
    BY WithinAppend
  <2>3. ToSet(Append(t, e)) = ToSet(t) \cup {e} /\ Append(t, e) \in Seq(T)
    BY MembersOfAppend
  <2>4. CASE e \in S
    <3>1. ToSet(Append(Within(t, S), e)) = ToSet(Within(t, S)) \cup {e}
      BY <2>1, MembersOfAppend
    <3>2. Append(Within(t, S), e) \in Seq(T)
      BY <2>1
    <3> QED BY <2>1, <2>2, <2>3, <2>4, <3>1, <3>2
  <2>5. CASE e \notin S
    BY <2>1, <2>2, <2>3, <2>5
  <2> QED BY <2>4, <2>5
<1>3. Seq(T) \subseteq P
  <2> HIDE DEF P
  <2> QED BY <1>1, <1>2, SequenceInduction
<1> QED BY <1>3

\* What is kept of what is kept is in both sets.
LEMMA WithinTwice ==
  ASSUME NEW T, NEW A, NEW B, NEW s \in Seq(T)
  PROVE  Within(Within(s, A), B) = Within(s, A \cap B)
<1> DEFINE P == {t \in Seq(T) : Within(Within(t, A), B) = Within(t, A \cap B)}
<1>1. <<>> \in P
  <2>1. <<>> \in Seq(T)
    OBVIOUS
  <2> QED BY <2>1, WithinEmpty
<1>2. ASSUME NEW t \in Seq(T), NEW e \in T, t \in P PROVE Append(t, e) \in P
  <2>1. /\ Within(t, A) \in Seq(T) /\ Append(t, e) \in Seq(T)
        /\ Within(Append(t, e), A) = IF e \in A THEN Append(Within(t, A), e) ELSE Within(t, A)
        /\ Within(Append(t, e), A \cap B)
             = IF e \in A \cap B THEN Append(Within(t, A \cap B), e) ELSE Within(t, A \cap B)
    BY WithinAppend
  <2>2. Within(Append(Within(t, A), e), B)
          = IF e \in B THEN Append(Within(Within(t, A), B), e) ELSE Within(Within(t, A), B)
    BY <2>1, WithinAppend
  <2>3. Within(Within(t, A), B) = Within(t, A \cap B)
    BY <1>2
  <2>4. Within(Within(Append(t, e), A), B) = Within(Append(t, e), A \cap B)
    <3>1. CASE e \in A
      <4>1. Within(Within(Append(t, e), A), B) = Within(Append(Within(t, A), e), B)
        BY <2>1, <3>1
      <4> QED BY <2>1, <2>2, <2>3, <3>1, <4>1
    <3>2. CASE e \notin A
      BY <2>1, <2>3, <3>2
    <3> QED BY <3>1, <3>2
  <2> QED BY <2>1, <2>4
<1>3. Seq(T) \subseteq P
  <2> HIDE DEF P
  <2> QED BY <1>1, <1>2, SequenceInduction
<1> QED BY <1>3

\* at says from which piece each member of flat comes: in order, and from every
\* piece that is not empty.
IsSelection(at, pieces, flat) ==
  /\ at \in [1..Len(flat) -> 1..Len(pieces)]
  /\ \A i, j \in 1..Len(flat) : i < j => at[i] < at[j]
  /\ \A i \in 1..Len(flat) : pieces[at[i]] = <<flat[i]>>
  /\ \A k \in 1..Len(pieces) : pieces[k] # <<>> => \E i \in 1..Len(flat) : at[i] = k

\* Pieces of one member at most are a selection of members.
LEMMA SelectionIs ==
  ASSUME NEW T, NEW pieces \in Seq({<<>>} \cup {<<x>> : x \in T})
  PROVE  FlattenSeq(pieces) \in Seq(T) /\ \E at : IsSelection(at, pieces, FlattenSeq(pieces))
<1> DEFINE U == {<<>>} \cup {<<x>> : x \in T}
           P == {p \in Seq(U) : /\ FlattenSeq(p) \in Seq(T)
                                /\ \E at : IsSelection(at, p, FlattenSeq(p))}
<1>1. U \subseteq Seq(T)
  <2>1. <<>> \in Seq(T) /\ \A x \in T : <<x>> \in Seq(T)
    OBVIOUS
  <2> QED  BY <2>1, Zenon
<1>2. <<>> \in P
  <2>1. FlattenSeq(<<>>) = <<>>
    BY DEF FlattenSeq
  <2>2. Len(<<>>) = 0 /\ 1..0 = {}
    OBVIOUS
  <2>3. \E at : IsSelection(at, <<>>, <<>>)
    <3> DEFINE none == [i \in 1..0 |-> 1]
    <3>1. none \in [1..0 -> 1..0]
      OBVIOUS
    <3> HIDE DEF none
    <3>2. IsSelection(none, <<>>, <<>>)
      BY <2>2, <3>1 DEF IsSelection
    <3> QED  BY <3>2
  <2>4. <<>> \in Seq(U) /\ <<>> \in Seq(T)
    <3> HIDE DEF U
    <3> QED  OBVIOUS
  <2> QED  BY <2>1, <2>3, <2>4, Zenon
<1>3. ASSUME NEW p \in Seq(U), NEW e \in U, p \in P PROVE Append(p, e) \in P
  <2> DEFINE q    == Append(p, e)
             flat == FlattenSeq(p)
             more == FlattenSeq(q)
  <2>1. /\ p \in Seq(Seq(T)) /\ e \in Seq(T)
    BY <1>1
  <2>2. more = flat \o e /\ flat \in Seq(T)
    BY <2>1, FlattenAppend
  <2>3. PICK at : IsSelection(at, p, flat)
    BY <1>3
  <2>4. /\ Len(p) \in Nat /\ Len(q) = Len(p) + 1 /\ q[Len(p) + 1] = e
        /\ \A k \in 1..Len(p) : q[k] = p[k]
        /\ Len(flat) \in Nat /\ q \in Seq(U)
    <3> HIDE DEF flat, U
    <3> QED  BY <2>2
  <2> HIDE DEF q, flat, more
  <2>5. CASE e = <<>>
    <3>1. more = flat
      BY <2>2, <2>5
    <3>2. IsSelection(at, q, more)
      <4>1. \A k \in 1..Len(q) : k \in 1..Len(p) \/ q[k] = <<>>
        BY <2>4, <2>5
      <4>2. \A k \in 1..Len(p) : k \in 1..Len(q)
        BY <2>4
      <4>3. at \in [1..Len(flat) -> 1..Len(p)] /\ \A i \in 1..Len(flat) : at[i] \in 1..Len(p)
        BY <2>3 DEF IsSelection
      <4>4. at \in [1..Len(flat) -> 1..Len(q)]
        BY <4>2, <4>3
      <4>5. \A i \in 1..Len(flat) : q[at[i]] = <<flat[i]>>
        BY <2>3, <2>4, <4>3 DEF IsSelection
      <4>6. \A k \in 1..Len(q) : q[k] # <<>> => \E i \in 1..Len(flat) : at[i] = k
        BY <2>3, <2>4, <4>1 DEF IsSelection
      <4> QED  BY <2>3, <3>1, <4>4, <4>5, <4>6 DEF IsSelection
    <3> QED  BY <2>2, <2>4, <3>1, <3>2 DEF q, more
  <2>6. CASE e # <<>>
    <3>1. PICK x \in T : e = <<x>>
      BY <2>6
    <3>2. /\ more \in Seq(T) /\ Len(more) = Len(flat) + 1 /\ more[Len(flat) + 1] = x
          /\ \A i \in 1..Len(flat) : more[i] = flat[i]
      BY <2>2, <3>1
    <3> DEFINE to == [i \in 1..Len(more) |-> IF i \in 1..Len(flat) THEN at[i] ELSE Len(p) + 1]
    <3>3. \A i \in 1..Len(flat) : to[i] = at[i] /\ at[i] \in 1..Len(p)
      <4>1. \A i \in 1..Len(flat) : i \in 1..Len(more)
        BY <2>4, <3>2
      <4>2. at \in [1..Len(flat) -> 1..Len(p)]
        BY <2>3 DEF IsSelection
      <4> QED  BY <4>1, <4>2
    <3>4. to[Len(more)] = Len(p) + 1 /\ Len(more) \in 1..Len(more)
      BY <2>4, <3>2
    <3>5. \A i \in 1..Len(more) : i \in 1..Len(flat) \/ i = Len(more)
      BY <2>4, <3>2
    <3>51. Len(p) + 1 \in 1..Len(q) /\ \A k \in 1..Len(p) : k \in 1..Len(q)
      BY <2>4
    <3>6. to \in [1..Len(more) -> 1..Len(q)]
      <4>1. \A i \in 1..Len(more) : to[i] \in 1..Len(q)
        BY <3>3, <3>4, <3>5, <3>51
      <4> QED  BY <4>1
    <3> HIDE DEF to
    <3>7. ASSUME NEW i \in 1..Len(more), NEW j \in 1..Len(more), i < j PROVE to[i] < to[j]
      <4>1. i \in 1..Len(flat)
        BY <2>4, <3>2, <3>7
      <4>2. CASE j \in 1..Len(flat)
        BY <2>3, <3>3, <3>7, <4>1, <4>2 DEF IsSelection
      <4>3. CASE j = Len(more)
        BY <2>4, <3>3, <3>4, <4>1, <4>3
      <4> QED  BY <3>5, <4>2, <4>3
    <3>8. \A i \in 1..Len(more) : q[to[i]] = <<more[i]>>
      <4>1. \A i \in 1..Len(flat) : q[to[i]] = <<more[i]>>
        <5> SUFFICES ASSUME NEW i \in 1..Len(flat) PROVE q[to[i]] = <<more[i]>>
          OBVIOUS
        <5>1. p[at[i]] = <<flat[i]>>
          BY <2>3 DEF IsSelection
        <5> QED  BY <2>4, <3>2, <3>3, <5>1
      <4>2. q[to[Len(more)]] = <<more[Len(more)]>>
        BY <2>4, <3>1, <3>2, <3>4
      <4> QED  BY <3>5, <4>1, <4>2
    <3>9. ASSUME NEW k \in 1..Len(q), q[k] # <<>> PROVE \E i \in 1..Len(more) : to[i] = k
      <4>1. CASE k \in 1..Len(p)
        <5>1. PICK i \in 1..Len(flat) : at[i] = k
          BY <2>3, <2>4, <3>9, <4>1 DEF IsSelection
        <5>2. i \in 1..Len(more)
          BY <2>4, <3>2
        <5> QED  BY <3>3, <5>1, <5>2
      <4>2. CASE k = Len(p) + 1
        BY <3>4, <4>2
      <4> QED  BY <2>4, <4>1, <4>2
    <3>10. IsSelection(to, q, more)
      BY <3>6, <3>7, <3>8, <3>9 DEF IsSelection
    <3> QED  BY <2>4, <3>2, <3>10 DEF q, more
  <2> QED  BY <2>5, <2>6
<1>4. Seq(U) \subseteq P
  <2> HIDE DEF P, U
  <2> QED  BY <1>2, <1>3, SequenceInduction
<1> QED  BY <1>4

-----------------------------------------------------------------------------
(* Order *)

\* R[x] are those that are before x: it orders S.
IsOrder(R, S) ==
  /\ \A x \in S : x \notin R[x]
  /\ \A x, y, z \in S : x \in R[y] /\ y \in R[z] => x \in R[z]
  /\ \A x, y \in S : x = y \/ x \in R[y] \/ y \in R[x]

\* How many members of S are before x.
Rankings(R, S, x) == Cardinality({y \in S : y \in R[x]})

\* A member is before another exactly when fewer are before it.
LEMMA RankingsGrow ==
  ASSUME NEW R, NEW S, IsFiniteSet(S), IsOrder(R, S), NEW x \in S, NEW y \in S
  PROVE  /\ Rankings(R, S, x) \in 0..(Cardinality(S) - 1)
         /\ x \in R[y] => Rankings(R, S, x) < Rankings(R, S, y)
<1> DEFINE below(z) == {w \in S : w \in R[z]}
<1>1. \A z \in S : IsFiniteSet(below(z)) /\ Cardinality(below(z)) \in Nat
  BY FS_Subset, FS_CardinalityType
<1>2. Cardinality(below(x)) <= Cardinality(S) /\ Cardinality(below(x)) # Cardinality(S)
  <2>1. below(x) \in SUBSET S /\ x \notin below(x)
    BY DEF IsOrder
  <2> QED  BY <2>1, FS_Subset
<1>3. ASSUME x \in R[y] PROVE Cardinality(below(x)) < Cardinality(below(y))
  <2>1. below(x) \in SUBSET below(y) /\ x \in below(y) /\ x \notin below(x)
    BY <1>3 DEF IsOrder
  <2>2. Cardinality(below(x)) <= Cardinality(below(y)) /\ Cardinality(below(x)) # Cardinality(below(y))
    BY <1>1, <2>1, FS_Subset
  <2> HIDE DEF below
  <2> QED  BY <1>1, <2>2
<1>4. Cardinality(S) \in Nat
  BY FS_CardinalityType
<1> QED  BY <1>1, <1>2, <1>3, <1>4 DEF Rankings

\* Every place in the order is that of one member.
LEMMA EveryPlaceTaken ==
  ASSUME NEW R, NEW S, IsFiniteSet(S), IsOrder(R, S)
  PROVE  \E rank \in [S -> 0..(Cardinality(S) - 1)] :
           /\ \A x \in S : rank[x] = Rankings(R, S, x)
           /\ \A x, y \in S : rank[x] = rank[y] => x = y
           /\ \A k \in 1..Cardinality(S) : \E x \in S : rank[x] = k - 1
<1> DEFINE n     == Cardinality(S)
           ranks == 0..(n - 1)
           rank  == [x \in S |-> Rankings(R, S, x)]
<1>1. n \in Nat
  BY FS_CardinalityType
<1>2. rank \in [S -> ranks]
  BY RankingsGrow
<1>3. \A x, y \in S : rank[x] = rank[y] => x = y
  <2> SUFFICES ASSUME NEW x \in S, NEW y \in S, rank[x] = rank[y], x # y PROVE FALSE
    OBVIOUS
  <2>1. x \in R[y] \/ y \in R[x]
    BY DEF IsOrder
  <2>2. Rankings(R, S, x) \in Int /\ Rankings(R, S, y) \in Int /\ Rankings(R, S, x) = Rankings(R, S, y)
    BY <1>2
  <2>3. Rankings(R, S, x) < Rankings(R, S, y) \/ Rankings(R, S, y) < Rankings(R, S, x)
    BY <2>1, RankingsGrow
  <2> QED  BY <2>2, <2>3
<1>4. rank \in Injection(S, ranks)
  BY <1>2, <1>3 DEF Injection, IsInjective
<1>5. IsFiniteSet(ranks) /\ Cardinality(ranks) = n
  <2> HIDE DEF n
  <2>1. /\ IsFiniteSet(0..(n - 1))
        /\ Cardinality(0..(n - 1)) = IF 0 > n - 1 THEN 0 ELSE n - 1 - 0 + 1
    BY <1>1, FS_Interval
  <2> QED BY <1>1, <2>1
<1>6. rank \in Surjection(S, ranks)
  BY <1>4, <1>5, FS_Injection
<1>7. \A k \in 1..n : k - 1 \in ranks
  BY <1>1
<1>8. \A k \in 1..n : \E x \in S : rank[x] = k - 1
  <2> HIDE DEF n, ranks, rank
  <2> QED  BY <1>6, <1>7 DEF Surjection
<1>9. \A x \in S : rank[x] = Rankings(R, S, x)
  OBVIOUS
<1> HIDE DEF rank
<1> QED  BY <1>2, <1>3, <1>8, <1>9

\* Sorting puts every member of a finite set in its place.
LEMMA SortedIs ==
  ASSUME NEW R, NEW S, IsFiniteSet(S), IsOrder(R, S), NEW q \in [1..Cardinality(S) -> S],
         \A k \in 1..Cardinality(S) : Rankings(R, S, q[k]) = k - 1
  PROVE  /\ q \in Seq(S) /\ Len(q) = Cardinality(S)
         /\ \A i, j \in 1..Len(q) : i < j <=> q[i] \in R[q[j]]
         /\ ToSet(q) = S
<1> DEFINE n == Cardinality(S)
<1>1. n \in Nat
  BY FS_CardinalityType
<1>2. PICK rank \in [S -> 0..(n - 1)] :
        /\ \A x \in S : rank[x] = Rankings(R, S, x)
        /\ \A x, y \in S : rank[x] = rank[y] => x = y
  BY EveryPlaceTaken
<1>3. \A k \in 1..n : q[k] \in S /\ rank[q[k]] = k - 1
  BY <1>2
<1>4. q \in Seq(S) /\ Len(q) = n
  <2> HIDE DEF n
  <2>1. \A m \in Nat : [1..m -> S] \subseteq Seq(S) /\ \A s \in [1..m -> S] : Len(s) = m
    OBVIOUS
  <2> QED  BY <1>1, <2>1 DEF n
<1> HIDE DEF n
<1>5. ASSUME NEW x \in S PROVE \E i \in 1..Len(q) : q[i] = x
  <2>1. rank[x] + 1 \in 1..n /\ rank[x] = (rank[x] + 1) - 1
    BY <1>1, <1>2
  <2>2. q[rank[x] + 1] \in S /\ rank[q[rank[x] + 1]] = (rank[x] + 1) - 1
    BY <1>3, <2>1
  <2>3. q[rank[x] + 1] = x
    BY <1>2, <2>1, <2>2
  <2> QED  BY <1>4, <2>1, <2>3
<1>6. ASSUME NEW i \in 1..Len(q), NEW j \in 1..Len(q) PROVE i < j <=> q[i] \in R[q[j]]
  <2>1. q[i] \in S /\ q[j] \in S /\ rank[q[i]] = i - 1 /\ rank[q[j]] = j - 1
    BY <1>3, <1>4
  <2>2. q[i] \in R[q[j]] => rank[q[i]] < rank[q[j]]
    BY <1>2, <2>1, RankingsGrow
  <2>3. i < j => q[i] # q[j]
    BY <2>1
  <2>4. q[j] \in R[q[i]] => rank[q[j]] < rank[q[i]]
    BY <1>2, <2>1, RankingsGrow
  <2>5. q[i] # q[j] => q[i] \in R[q[j]] \/ q[j] \in R[q[i]]
    BY <2>1 DEF IsOrder
  <2> QED  BY <1>1, <1>4, <2>1, <2>2, <2>3, <2>4, <2>5
<1>7. ToSet(q) = S
  <2>1. \A i \in 1..Len(q) : q[i] \in S
    BY <1>3, <1>4
  <2>2. DOMAIN q = 1..Len(q)
    BY <1>4
  <2> QED  BY <1>5, <2>1, <2>2 DEF ToSet
<1> QED  BY <1>4, <1>6, <1>7 DEF n

=============================================================================
