----------------------- MODULE TimelineAnalysisProofs -----------------------
(***************************************************************************)
(* Theorems about the analysis of whole files, for timelines of any        *)
(* length, in any order and with any repetitions: High is what is          *)
(* elevated at enough timestamps in a row, whatever the file looks like.   *)
(* What evaluateStreak makes of a series is in ChannelAnalysisProofs.      *)
(***************************************************************************)
EXTENDS TimelineAnalysis, ChannelAnalysisProofs, FoldTheorems

-----------------------------------------------------------------------------
(* evaluateStreak *)

\* The loop has the values its turns give it, one after the other.
LEMMA LoopIs ==
  ASSUME NEW s, IsSeries(s), NEW o \in NormalizedOptions, NEW m \in Metric
  PROVE  LoopAfter(s, o, m) =
           [k \in 0..Len(s) |->
              IF k = 0 THEN LoopStart ELSE Iteration(o, m, LoopAfter(s, o, m)[k - 1], s[k])]
<1> DEFINE n == Len(s)
           F == [x \in LoopState \X (1..n) |-> Iteration(o, m, x[1], s[x[2]])]
<1>1. n \in Nat /\ \A k \in 1..n : s[k] \in MetricPoint
  BY DEF IsSeries
<1>2. LoopStart \in LoopState
  BY DEF LoopStart, LoopState, NoStreak, StreakInfo, Saturation
<1>3. F \in [LoopState \X (1..n) -> LoopState]
  <2> SUFFICES ASSUME NEW x \in LoopState \X (1..n)
               PROVE  Iteration(o, m, x[1], s[x[2]]) \in LoopState
    OBVIOUS
  <2>1. x[1] \in LoopState /\ s[x[2]] \in MetricPoint
    BY <1>1
  <2> QED  BY <2>1, IterationTyped
<1>4. PICK g : IsRecursion(g, LoopState, LoopStart, n, F)
  <2> HIDE DEF F, n
  <2> QED  BY <1>1, <1>2, <1>3, RecursionExists
<1>5. \A k \in 0..n : g[k] = IF k = 0 THEN LoopStart ELSE Iteration(o, m, g[k - 1], s[k])
  <2> SUFFICES ASSUME NEW k \in 0..n, k # 0 PROVE g[k] = Iteration(o, m, g[k - 1], s[k])
    BY <1>4 DEF IsRecursion
  <2>1. k - 1 \in 0..n /\ k \in 1..n
    BY <1>1
  <2>2. g[k - 1] \in LoopState
    BY <1>4, <2>1 DEF IsRecursion
  <2>3. g[k] = F[<<g[k - 1], k>>]
    BY <1>4 DEF IsRecursion
  <2>4. <<g[k - 1], k>> \in LoopState \X (1..n)
    BY <2>1, <2>2
  <2> QED  BY <2>3, <2>4
<1>6. g = [k \in 0..n |-> IF k = 0 THEN LoopStart ELSE Iteration(o, m, g[k - 1], s[k])]
  <2>1. g = [k \in 0..n |-> g[k]]
    BY <1>4 DEF IsRecursion
  <2> HIDE DEF F
  <2> QED  BY <1>5, <2>1
<1> DEFINE Is(loopy) == loopy = [k \in 0..n |-> IF k = 0 THEN LoopStart
                                        ELSE Iteration(o, m, loopy[k - 1], s[k])]
<1>7. LoopAfter(s, o, m) = CHOOSE loopy : Is(loopy)
  BY DEF LoopAfter
<1>8. Is(g)
  BY <1>6
<1>9. Is(LoopAfter(s, o, m))
  <2> HIDE DEF Is
  <2> QED  BY <1>7, <1>8
<1> QED  BY <1>9

\* What evaluateStreak returns is the first longest run of the series.
\* (analyzer.go:262-296)
LEMMA StreakIs ==
  ASSUME NEW s, IsSeries(s), NEW o \in NormalizedOptions, NEW m \in Metric
  PROVE  /\ evaluateStreak(s, o, m) \in StreakInfo
         /\ IsLongestRun(s, o, m, Len(s), evaluateStreak(s, o, m))
<1> DEFINE n == Len(s)
           L == LoopAfter(s, o, m)
           N == {k \in Nat : k <= n => L[k] \in LoopState /\ IsLoopAt(s, o, m, k, L[k])}
<1>1. n \in Nat /\ \A k \in 1..n : s[k] \in MetricPoint
  BY DEF IsSeries
<1>2. \A k \in 0..n : L[k] = IF k = 0 THEN LoopStart ELSE Iteration(o, m, L[k - 1], s[k])
  <2>1. L = [k \in 0..n |-> IF k = 0 THEN LoopStart ELSE Iteration(o, m, L[k - 1], s[k])]
    BY LoopIs
  <2> HIDE DEF L
  <2> QED  BY <2>1
<1> HIDE DEF L
<1>3. 0 \in N
  <2>1. L[0] = LoopStart
    BY <1>1, <1>2
  <2>2. LoopStart \in LoopState
    BY DEF LoopStart, LoopState, NoStreak, StreakInfo, Saturation
  <2> QED  BY <2>1, <2>2, LoopStarts
<1>4. ASSUME NEW k \in Nat, k \in N PROVE k + 1 \in N
  <2> SUFFICES ASSUME k + 1 <= n
               PROVE  L[k + 1] \in LoopState /\ IsLoopAt(s, o, m, k + 1, L[k + 1])
    OBVIOUS
  <2>1. k + 1 \in 0..n /\ k + 1 # 0 /\ (k + 1) - 1 = k /\ k + 1 \in 1..n
    BY <1>1
  <2>2. L[k + 1] = Iteration(o, m, L[k], s[k + 1])
    BY <1>2, <2>1
  <2>3. L[k] \in LoopState /\ IsLoopAt(s, o, m, k, L[k])
    BY <1>1, <1>4
  <2>4. L[k + 1] \in LoopState
    BY <1>1, <2>1, <2>2, <2>3, IterationTyped
  <2> QED  BY <1>1, <2>1, <2>2, <2>3, <2>4, IterationKeepsLoop
<1>5. n \in N
  <2> HIDE DEF N, n
  <2> QED  BY <1>1, <1>3, <1>4, Induction
<1>6. L[n] \in LoopState /\ IsLoopAt(s, o, m, n, L[n])
  BY <1>1, <1>5
<1>7. evaluateStreak(s, o, m) = L[n].best
  BY DEF evaluateStreak, L
<1> QED  BY <1>6, <1>7 DEF LoopState, IsLoopAt

-----------------------------------------------------------------------------
(* Sorting and deduplication *)

\* The snapshots that come before the j-th once the file is sorted.
InTime(s) == [j \in DOMAIN s |->
                {i \in DOMAIN s : \/ s[i].Timestamp < s[j].Timestamp
                                  \/ s[i].Timestamp = s[j].Timestamp /\ i < j}]

\* at says where in the file s the k-th of the sorted snapshots q is.
IsInTime(s, at, q) ==
  /\ at \in [1..Len(s) -> 1..Len(s)]
  /\ q = [k \in 1..Len(s) |-> s[at[k]]]
  /\ \A k, l \in 1..Len(s) : k < l <=> at[k] \in InTime(s)[at[l]]
  /\ \A i \in 1..Len(s) : \E k \in 1..Len(s) : at[k] = i

\* The sort puts each snapshot of the file in its place.  (analyzer.go:200-203)
LEMMA SortedByTimeIs ==
  ASSUME NEW s \in Seq(Snapshot)
  PROVE  \E at : IsInTime(s, at, SortedByTime(s))
<1> DEFINE n == Len(s)
           S == DOMAIN s
           R == InTime(s)
           before(i, j) == \/ s[i].Timestamp < s[j].Timestamp
                           \/ s[i].Timestamp = s[j].Timestamp /\ i < j
           place(k) == CHOOSE x \in S : Cardinality({y \in S : before(y, x)}) = k - 1
           at == [k \in 1..Cardinality(S) |-> place(k)]
<1>1. /\ n \in Nat /\ S = 1..n /\ \A i \in S : s[i].Timestamp \in Nat /\ i \in Nat
  <2>1. n \in Nat /\ S = 1..n /\ \A i \in 1..n : s[i] \in Snapshot
    OBVIOUS
  <2>2. \A x \in Snapshot : x.Timestamp \in Nat
    BY DEF Snapshot
  <2>3. \A i \in 1..n : i \in Nat
    BY <2>1
  <2> QED  BY <2>1, <2>2, <2>3
<1>2. IsFiniteSet(S) /\ Cardinality(S) = n
  <2> HIDE DEF n, S
  <2>1. /\ IsFiniteSet(1..n) /\ Cardinality(1..n) = IF 1 > n THEN 0 ELSE n - 1 + 1
    BY <1>1, FS_Interval
  <2> QED  BY <1>1, <2>1
<1>3. \A x, y \in S : x \in R[y] <=> before(x, y)
  <2> HIDE DEF S
  <2> QED  BY DEF InTime, S
<1>4. IsOrder(R, S)
  <2> DEFINE T(i) == s[i].Timestamp
  <2>1. \A x \in S : T(x) \in Nat /\ x \in Nat
    BY <1>1
  <2>2. \A x, y \in S : x \in R[y] <=> T(x) < T(y) \/ (T(x) = T(y) /\ x < y)
    BY <1>3
  <2> HIDE DEF S, R, T
  <2> QED  BY <2>1, <2>2 DEF IsOrder
<1>5. \A x \in S : Cardinality({y \in S : before(y, x)}) = Rankings(R, S, x)
  <2> SUFFICES ASSUME NEW x \in S PROVE {y \in S : before(y, x)} = {y \in S : y \in R[x]}
    BY DEF Rankings
  <2> HIDE DEF S, R, before
  <2> QED  BY <1>3
<1>6. \A k \in 1..n : place(k) \in S /\ Rankings(R, S, place(k)) = k - 1
  <2> SUFFICES ASSUME NEW k \in 1..n PROVE place(k) \in S /\ Rankings(R, S, place(k)) = k - 1
    OBVIOUS
  <2>1. \E x \in S : Rankings(R, S, x) = k - 1
    <3> HIDE DEF S, R, n
    <3> QED  BY <1>2, <1>4, EveryPlaceTaken
  <2>2. \E x \in S : Cardinality({y \in S : before(y, x)}) = k - 1
    <3> HIDE DEF S, R, n, before
    <3> QED  BY <1>5, <2>1
  <2>3. place(k) \in S /\ Cardinality({y \in S : before(y, place(k))}) = k - 1
    <3> HIDE DEF S, R, n, before
    <3> QED  BY <2>2
  <2> HIDE DEF S, R, n, before, place
  <2> QED  BY <1>5, <2>3
<1>7. SortedByTime(s) = [k \in S |-> s[at[k]]]
  BY DEF SortedByTime, Sorted
<1> HIDE DEF place
<1>8. at \in [1..n -> S] /\ \A k \in 1..n : Rankings(R, S, at[k]) = k - 1
  <2> HIDE DEF S, R, n
  <2> QED  BY <1>2, <1>6
<1> HIDE DEF at, R
<1>9. /\ \A k, l \in 1..n : k < l <=> at[k] \in R[at[l]]
      /\ \A x \in S : \E k \in 1..n : at[k] = x
  <2> HIDE DEF S, n
  <2>1. /\ at \in [1..Cardinality(S) -> S]
        /\ \A k \in 1..Cardinality(S) : Rankings(R, S, at[k]) = k - 1
    BY <1>2, <1>8
  <2>2. /\ Len(at) = Cardinality(S)
        /\ \A i, j \in 1..Len(at) : i < j <=> at[i] \in R[at[j]]
        /\ ToSet(at) = S
    BY <1>2, <1>4, <2>1, SortedIs
  <2>3. ToSet(at) = {at[k] : k \in 1..n}
    BY <1>8 DEF ToSet
  <2> QED  BY <1>2, <2>2, <2>3
<1> QED  BY <1>1, <1>7, <1>8, <1>9 DEF IsInTime, R

\* The snapshots that are the first in the file with their timestamp.
Firsts(s) == {i \in DOMAIN s : \A j \in 1..(i - 1) : s[j].Timestamp # s[i].Timestamp}

\* d has the first snapshot of each timestamp, in order of time.
IsDeduped(s, d) ==
  /\ d \in Seq(Snapshot)
  /\ \A k, l \in 1..Len(d) : k < l => d[k].Timestamp < d[l].Timestamp
  /\ \A k \in 1..Len(d) : \E i \in Firsts(s) : d[k] = s[i]
  /\ \A i \in Firsts(s) : \E k \in 1..Len(d) : d[k] = s[i]

\* A sorted snapshot that differs in time from the one before it is the first
\* of its timestamp, and the other way round.
LEMMA FreshIsFirst ==
  ASSUME NEW s \in Seq(Snapshot), NEW at, NEW q, IsInTime(s, at, q), NEW k \in 1..Len(s)
  PROVE  /\ ~(k > 1 /\ q[k].Timestamp = q[k - 1].Timestamp) <=> at[k] \in Firsts(s)
         /\ q[k] = s[at[k]]
<1> DEFINE n == Len(s)
           T(i) == s[i].Timestamp
<1>1. /\ n \in Nat /\ DOMAIN s = 1..n /\ \A i \in 1..n : s[i] \in Snapshot
  OBVIOUS
<1>2. \A i \in 1..n : T(i) \in Nat
  BY <1>1 DEF Snapshot
<1>3. /\ \A i \in 1..n : at[i] \in 1..n /\ q[i] = s[at[i]]
      /\ \A i \in 1..n : \E j \in 1..n : at[j] = i
  BY DEF IsInTime
<1>4. \A i, j \in 1..n : i \in InTime(s)[j] <=> T(i) < T(j) \/ (T(i) = T(j) /\ i < j)
  BY <1>1 DEF InTime
<1>5. \A i, j \in 1..n : i < j <=> T(at[i]) < T(at[j]) \/ (T(at[i]) = T(at[j]) /\ at[i] < at[j])
  BY <1>3, <1>4 DEF IsInTime
<1>6. \A i \in 1..n : i \in Firsts(s) <=> \A j \in 1..(i - 1) : T(j) # T(i)
  BY <1>1 DEF Firsts
<1> HIDE DEF T
<1>7. ASSUME k > 1, T(at[k]) = T(at[k - 1]) PROVE at[k] \notin Firsts(s)
  <2>1. k - 1 \in 1..n /\ k - 1 < k
    BY <1>1, <1>7
  <2>2. at[k - 1] < at[k] /\ at[k] \in 1..n /\ at[k - 1] \in 1..n
    BY <1>2, <1>3, <1>5, <1>7, <2>1
  <2>3. at[k - 1] \in 1..(at[k] - 1)
    BY <1>1, <2>2
  <2> QED  BY <1>6, <1>7, <2>2, <2>3
<1>8. ASSUME at[k] \notin Firsts(s) PROVE k > 1 /\ T(at[k]) = T(at[k - 1])
  <2>1. PICK j \in 1..(at[k] - 1) : T(j) = T(at[k])
    BY <1>3, <1>6, <1>8
  <2>2. j \in 1..n /\ j < at[k] /\ at[k] \in 1..n
    <3>1. at[k] \in 1..n
      BY <1>3
    <3> HIDE DEF T
    <3> QED  BY <1>1, <3>1
  <2>3. PICK l \in 1..n : at[l] = j
    BY <1>3, <2>2
  <2>4. l < k
    BY <1>5, <2>1, <2>2, <2>3
  <2>5. k > 1 /\ k - 1 \in 1..n /\ (l = k - 1 \/ l < k - 1) /\ k - 1 < k
    BY <1>1, <2>4
  <2>6. T(at[l]) <= T(at[k - 1])
    <3>1. T(at[l]) \in Nat /\ T(at[k - 1]) \in Nat
      BY <1>2, <1>3, <2>5
    <3> QED  BY <1>5, <2>5, <3>1
  <2>7. T(at[k - 1]) <= T(at[k])
    <3>1. T(at[k]) \in Nat /\ T(at[k - 1]) \in Nat
      BY <1>2, <1>3, <2>5
    <3> QED  BY <1>5, <2>5, <3>1
  <2>8. T(at[k]) \in Nat /\ T(at[k - 1]) \in Nat /\ T(at[l]) = T(at[k])
    BY <1>2, <1>3, <2>1, <2>3, <2>5
  <2> QED  BY <2>5, <2>6, <2>7, <2>8
<1>9. /\ q[k] = s[at[k]]
      /\ k > 1 => q[k - 1] = s[at[k - 1]]
  BY <1>1, <1>3
<1> QED  BY <1>7, <1>8, <1>9 DEF T

\* The deduplication leaves the first snapshot of each timestamp, whatever the
\* order of the file.  (analyzer.go:200-211)
LEMMA DedupedIs ==
  ASSUME NEW s \in Seq(Snapshot)
  PROVE  IsDeduped(s, Deduped(s))
<1> DEFINE n == Len(s)
           q == SortedByTime(s)
           repeats(k) == k > 1 /\ q[k].Timestamp = q[k - 1].Timestamp
           pieces == [k \in DOMAIN q |-> IF repeats(k) THEN <<>> ELSE <<q[k]>>]
           U == {<<>>} \cup {<<x>> : x \in Snapshot}
           d == FlattenSeq(pieces)
<1>1. PICK at : IsInTime(s, at, q)
  BY SortedByTimeIs
<1>2. Deduped(s) = d
  BY DEF Deduped
<1>3. n \in Nat /\ \A i \in 1..n : s[i] \in Snapshot
  OBVIOUS
<1> HIDE DEF q
<1>4. DOMAIN q = 1..n /\ \A k \in 1..n : q[k] \in Snapshot /\ at[k] \in 1..n
  BY <1>1, <1>3 DEF IsInTime
<1>5. \A k \in 1..n : /\ ~repeats(k) <=> at[k] \in Firsts(s)
                      /\ q[k] = s[at[k]]
  BY <1>1, FreshIsFirst
<1> HIDE DEF repeats
<1>6. pieces \in Seq(U) /\ Len(pieces) = n
  <2>1. pieces = [k \in 1..n |-> IF repeats(k) THEN <<>> ELSE <<q[k]>>]
    BY <1>4
  <2>2. \A k \in 1..n : (IF repeats(k) THEN <<>> ELSE <<q[k]>>) \in U
    BY <1>4
  <2> HIDE DEF U, pieces
  <2> QED  BY <1>3, <2>1, <2>2
<1>7. d \in Seq(Snapshot) /\ \E to : IsSelection(to, pieces, d)
  <2> HIDE DEF pieces
  <2> QED  BY <1>6, SelectionIs
<1>8. PICK to : IsSelection(to, pieces, d)
  BY <1>7
<1>9. \A k \in 1..n : pieces[k] = IF repeats(k) THEN <<>> ELSE <<q[k]>>
  BY <1>4
<1> HIDE DEF d, pieces
<1>10. ASSUME NEW i \in 1..Len(d)
       PROVE  to[i] \in 1..n /\ at[to[i]] \in Firsts(s) /\ d[i] = s[at[to[i]]]
  <2>1. to[i] \in 1..n /\ pieces[to[i]] = <<d[i]>>
    BY <1>6, <1>8 DEF IsSelection
  <2>2. repeats(to[i]) => <<d[i]>> = <<>>
    BY <1>9, <2>1, Zenon
  <2>3. ~repeats(to[i]) => <<d[i]>> = <<q[to[i]]>>
    BY <1>9, <2>1, Zenon
  <2>4. ~repeats(to[i]) /\ q[to[i]] = d[i]
    BY <2>2, <2>3
  <2> QED  BY <1>5, <2>1, <2>4
<1>11. ASSUME NEW i \in Firsts(s) PROVE \E k \in 1..Len(d) : d[k] = s[i]
  <2>1. i \in 1..n
    BY <1>3 DEF Firsts
  <2>2. PICK k \in 1..n : at[k] = i
    BY <1>1, <2>1 DEF IsInTime
  <2>3. pieces[k] = <<q[k]>>
    BY <1>5, <1>9, <2>2
  <2>4. pieces[k] # <<>>
    BY <2>3
  <2>5. PICK j \in 1..Len(d) : to[j] = k
    BY <1>6, <1>8, <2>4 DEF IsSelection
  <2> QED  BY <1>10, <2>2, <2>5
<1>12. ASSUME NEW k \in 1..Len(d), NEW l \in 1..Len(d), k < l
       PROVE  d[k].Timestamp < d[l].Timestamp
  <2> DEFINE i == at[to[k]]
             j == at[to[l]]
  <2>1. to[k] < to[l] /\ to[k] \in 1..n /\ to[l] \in 1..n
    BY <1>8, <1>10, <1>12 DEF IsSelection
  <2>2. i \in InTime(s)[j] /\ i \in 1..n /\ j \in 1..n
    BY <1>1, <1>4, <2>1 DEF IsInTime
  <2> HIDE DEF i, j
  <2>3. s[i].Timestamp < s[j].Timestamp \/ (s[i].Timestamp = s[j].Timestamp /\ i < j)
    BY <1>3, <2>2 DEF InTime
  <2>4. j \in Firsts(s)
    BY <1>10 DEF j
  <2>5. ~(s[i].Timestamp = s[j].Timestamp /\ i < j)
    <3>1. i < j => i \in 1..(j - 1)
      BY <1>3, <2>2
    <3> QED  BY <2>4, <3>1 DEF Firsts
  <2> QED  BY <1>10, <2>3, <2>5 DEF i, j
<1> QED  BY <1>2, <1>7, <1>10, <1>11, <1>12 DEF IsDeduped

\* Each snapshot is later than the one before.
IsIncreasing(d) ==
  /\ d \in Seq(Snapshot)
  /\ \A k, l \in 1..Len(d) : k < l => d[k].Timestamp < d[l].Timestamp

\* Of two lists with the same snapshots in order of time one starts the other.
LEMMA SamePrefix ==
  ASSUME NEW d, NEW e, IsIncreasing(d), IsIncreasing(e), ToSet(d) = ToSet(e)
  PROVE  Len(d) <= Len(e) /\ \A k \in 1..Len(d) : d[k] = e[k]
<1> DEFINE P == {k \in Nat : k <= Len(d) => k <= Len(e) /\ \A j \in 1..k : d[j] = e[j]}
           T(x) == x.Timestamp
<1>1. /\ Len(d) \in Nat /\ Len(e) \in Nat
      /\ \A k \in 1..Len(d) : T(d[k]) \in Nat
      /\ \A k \in 1..Len(e) : T(e[k]) \in Nat
  <2>1. /\ Len(d) \in Nat /\ Len(e) \in Nat
        /\ \A k \in 1..Len(d) : d[k] \in Snapshot
        /\ \A k \in 1..Len(e) : e[k] \in Snapshot
    BY DEF IsIncreasing
  <2>2. \A x \in Snapshot : T(x) \in Nat
    BY DEF Snapshot
  <2> QED  BY <2>1, <2>2
<1>2. /\ \A k \in 1..Len(d) : \E l \in 1..Len(e) : e[l] = d[k]
      /\ \A l \in 1..Len(e) : \E k \in 1..Len(d) : d[k] = e[l]
  <2>1. DOMAIN d = 1..Len(d) /\ DOMAIN e = 1..Len(e)
    BY DEF IsIncreasing
  <2>2. /\ \A k \in 1..Len(d) : d[k] \in ToSet(e)
        /\ \A l \in 1..Len(e) : e[l] \in ToSet(d)
    BY <2>1 DEF ToSet
  <2> QED  BY <2>1, <2>2 DEF ToSet
<1>3. /\ \A k, l \in 1..Len(d) : k < l => T(d[k]) < T(d[l])
      /\ \A k, l \in 1..Len(e) : k < l => T(e[k]) < T(e[l])
  BY DEF IsIncreasing
<1> HIDE DEF T
<1>4. 0 \in P
  BY <1>1
<1>5. ASSUME NEW k \in Nat, k \in P PROVE k + 1 \in P
  <2> SUFFICES ASSUME k + 1 <= Len(d)
               PROVE  k + 1 <= Len(e) /\ \A j \in 1..(k + 1) : d[j] = e[j]
    OBVIOUS
  <2>1. k <= Len(e) /\ \A j \in 1..k : d[j] = e[j]
    BY <1>1, <1>5
  <2>2. k + 1 \in 1..Len(d)
    BY <1>1
  <2>3. PICK l \in 1..Len(e) : e[l] = d[k + 1]
    BY <1>2, <2>2
  <2>4. l > k
    <3> SUFFICES ASSUME l \in 1..k PROVE FALSE
      BY <1>1
    <3>1. d[l] = d[k + 1] /\ l \in 1..Len(d) /\ l < k + 1
      BY <1>1, <2>1, <2>2, <2>3
    <3>2. T(d[l]) < T(d[k + 1]) /\ T(d[l]) \in Nat
      BY <1>1, <1>3, <2>2, <3>1
    <3> QED  BY <3>1, <3>2
  <2>5. k + 1 \in 1..Len(e) /\ (l = k + 1 \/ k + 1 < l)
    BY <1>1, <2>4
  <2>6. PICK m \in 1..Len(d) : d[m] = e[k + 1]
    BY <1>2, <2>5
  <2>7. m > k
    <3> SUFFICES ASSUME m \in 1..k PROVE FALSE
      BY <1>1
    <3>1. e[m] = e[k + 1] /\ m \in 1..Len(e) /\ m < k + 1
      BY <1>1, <2>1, <2>5, <2>6
    <3>2. T(e[m]) < T(e[k + 1]) /\ T(e[m]) \in Nat
      BY <1>1, <1>3, <2>5, <3>1
    <3> QED  BY <3>1, <3>2
  <2>8. m = k + 1
    <3> SUFFICES ASSUME k + 1 < m PROVE FALSE
      BY <1>1, <2>7
    <3>1. T(d[k + 1]) < T(d[m]) /\ T(e[k + 1]) <= T(e[l])
      <4>1. T(d[k + 1]) < T(d[m])
        BY <1>3, <2>2
      <4>2. T(e[k + 1]) \in Nat
        BY <1>1, <2>5
      <4>3. k + 1 < l => T(e[k + 1]) < T(e[l])
        BY <1>3, <2>5
      <4>4. T(e[l]) \in Nat
        BY <1>1
      <4> QED  BY <2>5, <4>1, <4>2, <4>3, <4>4
    <3>2. T(d[k + 1]) \in Nat /\ T(e[k + 1]) \in Nat
      BY <1>1, <2>2, <2>5
    <3> QED  BY <2>3, <2>6, <3>1, <3>2
  <2>9. d[k + 1] = e[k + 1]
    BY <2>6, <2>8
  <2> QED  BY <1>1, <2>1, <2>5, <2>9
<1>6. Len(d) \in P
  <2> HIDE DEF P
  <2> QED  BY <1>1, <1>4, <1>5, Induction
<1> QED  BY <1>1, <1>6

\* Lists with the same snapshots in order of time are the same.
LEMMA IncreasingUnique ==
  ASSUME NEW d, NEW e, IsIncreasing(d), IsIncreasing(e), ToSet(d) = ToSet(e)
  PROVE  d = e
<1>1. d \in Seq(Snapshot) /\ e \in Seq(Snapshot)
  BY DEF IsIncreasing
<1>2. /\ Len(d) <= Len(e) /\ \A k \in 1..Len(d) : d[k] = e[k]
      /\ Len(e) <= Len(d)
  BY SamePrefix
<1>3. Len(d) = Len(e)
  BY <1>1, <1>2
<1> QED  BY <1>1, <1>2, <1>3

\* The first snapshots of the timestamps make the list.
LEMMA SameFirsts ==
  ASSUME NEW s, NEW t, NEW d, NEW e, IsDeduped(s, d), IsDeduped(t, e),
         \A i \in Firsts(s) : \E j \in Firsts(t) : t[j] = s[i],
         \A j \in Firsts(t) : \E i \in Firsts(s) : s[i] = t[j]
  PROVE  d = e
<1>1. IsDeduped(s, d) /\ IsDeduped(t, e)
  OBVIOUS
<1>2. IsIncreasing(d) /\ IsIncreasing(e)
  BY <1>1 DEF IsDeduped, IsIncreasing
<1>3. DOMAIN d = 1..Len(d) /\ DOMAIN e = 1..Len(e)
  BY <1>2 DEF IsIncreasing
<1>4. ASSUME NEW k \in 1..Len(d) PROVE \E l \in 1..Len(e) : e[l] = d[k]
  <2>1. PICK i \in Firsts(s) : d[k] = s[i]
    BY <1>1 DEF IsDeduped
  <2>2. PICK j \in Firsts(t) : t[j] = s[i]
    OBVIOUS
  <2>3. PICK l \in 1..Len(e) : e[l] = t[j]
    BY <1>1 DEF IsDeduped
  <2> QED  BY <2>1, <2>2, <2>3
<1>5. ASSUME NEW l \in 1..Len(e) PROVE \E k \in 1..Len(d) : d[k] = e[l]
  <2>1. PICK j \in Firsts(t) : e[l] = t[j]
    BY <1>1 DEF IsDeduped
  <2>2. PICK i \in Firsts(s) : s[i] = t[j]
    OBVIOUS
  <2>3. PICK k \in 1..Len(d) : d[k] = s[i]
    BY <1>1 DEF IsDeduped
  <2> QED  BY <2>1, <2>2, <2>3
<1>6. ToSet(d) = ToSet(e)
  <2>1. \A x : x \in ToSet(d) <=> \E k \in 1..Len(d) : d[k] = x
    BY <1>3 DEF ToSet
  <2>2. \A x : x \in ToSet(e) <=> \E l \in 1..Len(e) : e[l] = x
    BY <1>3 DEF ToSet
  <2> QED  BY <1>4, <1>5, <2>1, <2>2
<1> QED  BY <1>2, <1>6, IncreasingUnique

\* Files with the same first snapshots of the same timestamps are deduplicated
\* to the same list.
LEMMA SameDeduped ==
  ASSUME NEW s \in Seq(Snapshot), NEW t \in Seq(Snapshot),
         \A i \in Firsts(s) : \E j \in Firsts(t) : t[j] = s[i],
         \A j \in Firsts(t) : \E i \in Firsts(s) : s[i] = t[j]
  PROVE  Deduped(s) = Deduped(t)
BY DedupedIs, SameFirsts

-----------------------------------------------------------------------------
(* Orders of the file *)

\* Where the snapshots i and i + 1 change places.
Swap(n, i) == [j \in 1..n |-> IF j = i THEN i + 1 ELSE IF j = i + 1 THEN i ELSE j]

\* The first of a timestamp is still the first when it has changed places with
\* a neighbour of another time.
LEMMA SwapKeepsFirst ==
  ASSUME NEW s \in Seq(Snapshot), NEW t \in Seq(Snapshot), Len(t) = Len(s),
         NEW i \in 1..(Len(s) - 1), s[i].Timestamp # s[i + 1].Timestamp,
         \A j \in 1..Len(s) : t[j] = s[Swap(Len(s), i)[j]],
         NEW j \in Firsts(s)
  PROVE  \E k \in Firsts(t) : t[k] = s[j]
<1> DEFINE n == Len(s)
           f == Swap(n, i)
           T(k) == s[k].Timestamp
<1>1. /\ n \in Nat /\ DOMAIN s = 1..n /\ DOMAIN t = 1..n
      /\ i \in 1..n /\ i + 1 \in 1..n
  OBVIOUS
<1>2. \A k \in 1..n : f[k] = IF k = i THEN i + 1 ELSE IF k = i + 1 THEN i ELSE k
  BY DEF Swap
<1>3. \A k \in 1..n : t[k] = s[f[k]]
  OBVIOUS
<1> HIDE DEF f
<1>4. \A k \in 1..n : f[k] \in 1..n /\ f[f[k]] = k
  <2> HIDE DEF n
  <2> QED  BY <1>1, <1>2
<1>5. j \in 1..n /\ \A k \in 1..(j - 1) : T(k) # T(j)
  BY <1>1 DEF Firsts
<1>6. T(i) # T(i + 1)
  OBVIOUS
<1> HIDE DEF n
<1>7. t[f[j]] = s[j]
  BY <1>3, <1>4, <1>5
<1>8. ASSUME NEW k \in 1..(f[j] - 1), t[k].Timestamp = T(j) PROVE FALSE
  <2>1. k \in 1..n /\ k < f[j] /\ f[j] \in 1..n
    BY <1>1, <1>4, <1>5
  <2>2. f[k] \in 1..n /\ T(f[k]) = T(j) /\ f[k] # j
    BY <1>3, <1>4, <1>5, <1>8, <2>1
  <2>3. f[k] > j
    <3>1. f[k] \notin 1..(j - 1)
      BY <1>5, <2>2
    <3> QED  BY <1>1, <1>5, <2>2, <3>1
  <2>4. k = i /\ j = i /\ f[k] = i + 1
    BY <1>1, <1>2, <1>5, <2>1, <2>3
  <2> QED  BY <1>6, <2>2, <2>4
<1>9. f[j] \in Firsts(t)
  <2>1. \A k \in 1..(f[j] - 1) : t[k].Timestamp # t[f[j]].Timestamp
    BY <1>7, <1>8
  <2> QED  BY <1>1, <1>4, <1>5, <2>1 DEF Firsts
<1> QED  BY <1>7, <1>9

\* Exchanging neighbours of different times leaves the deduplicated list as it
\* was.  (analyzer.go:200-211)
LEMMA ExchangeKeepsDeduped ==
  ASSUME NEW s \in Seq(Snapshot), NEW i \in 1..(Len(s) - 1),
         s[i].Timestamp # s[i + 1].Timestamp
  PROVE  Deduped([s EXCEPT ![i] = s[i + 1], ![i + 1] = s[i]]) = Deduped(s)
<1> DEFINE n == Len(s)
           t == [s EXCEPT ![i] = s[i + 1], ![i + 1] = s[i]]
           f == Swap(n, i)
<1>1. /\ n \in Nat /\ DOMAIN s = 1..n /\ i \in 1..n /\ i + 1 \in 1..n /\ i # i + 1
      /\ \A k \in 1..n : s[k] \in Snapshot
  OBVIOUS
<1>2. t \in Seq(Snapshot) /\ Len(t) = n
  OBVIOUS
<1>3. \A k \in 1..n : t[k] = IF k = i THEN s[i + 1] ELSE IF k = i + 1 THEN s[i] ELSE s[k]
  BY <1>1
<1>4. \A k \in 1..n : f[k] = IF k = i THEN i + 1 ELSE IF k = i + 1 THEN i ELSE k
  BY DEF Swap
<1> HIDE DEF n, t, f
<1>5. \A k \in 1..n : t[k] = s[f[k]] /\ s[k] = t[f[k]]
  BY <1>1, <1>3, <1>4
<1>6. t[i].Timestamp # t[i + 1].Timestamp
  BY <1>1, <1>3
<1>7. \A j \in Firsts(s) : \E k \in Firsts(t) : t[k] = s[j]
  BY <1>2, <1>5, SwapKeepsFirst DEF n, f
<1>8. \A j \in Firsts(t) : \E k \in Firsts(s) : s[k] = t[j]
  <2>1. n = Len(t) /\ n = Len(s)
    BY <1>2 DEF n
  <2>2. i \in 1..(Len(t) - 1) /\ \A j \in 1..Len(t) : s[j] = t[Swap(Len(t), i)[j]]
    BY <1>5, <2>1 DEF f
  <2> QED  BY <1>2, <1>6, <2>1, <2>2, SwapKeepsFirst
<1> QED  BY <1>2, <1>7, <1>8, SameDeduped DEF t

\* A snapshot of a timestamp the file has changes nothing.
LEMMA RepeatKeepsDeduped ==
  ASSUME NEW s \in Seq(Snapshot), NEW new \in Snapshot,
         NEW i \in 1..Len(s), s[i].Timestamp = new.Timestamp
  PROVE  Deduped(Append(s, new)) = Deduped(s)
<1> DEFINE n == Len(s)
           t == Append(s, new)
<1>1. /\ n \in Nat /\ DOMAIN s = 1..n
      /\ t \in Seq(Snapshot) /\ Len(t) = n + 1 /\ DOMAIN t = 1..(n + 1)
      /\ t[n + 1] = new /\ \A k \in 1..n : t[k] = s[k]
  OBVIOUS
<1> HIDE DEF n, t
<1>2. \A k \in Firsts(s) : k \in Firsts(t) /\ t[k] = s[k]
  <2> SUFFICES ASSUME NEW k \in Firsts(s) PROVE k \in Firsts(t) /\ t[k] = s[k]
    OBVIOUS
  <2>1. k \in 1..n /\ k \in 1..(n + 1) /\ \A j \in 1..(k - 1) : s[j].Timestamp # s[k].Timestamp
    BY <1>1 DEF Firsts
  <2>2. \A j \in 1..(k - 1) : j \in 1..n
    BY <1>1, <2>1
  <2> QED  BY <1>1, <2>1, <2>2 DEF Firsts
<1>3. \A k \in Firsts(t) : k \in Firsts(s) /\ s[k] = t[k]
  <2> SUFFICES ASSUME NEW k \in Firsts(t) PROVE k \in Firsts(s) /\ s[k] = t[k]
    OBVIOUS
  <2>1. k \in 1..(n + 1) /\ \A j \in 1..(k - 1) : t[j].Timestamp # t[k].Timestamp
    BY <1>1 DEF Firsts
  <2>2. k # n + 1
    <3> SUFFICES ASSUME k = n + 1 PROVE FALSE
      OBVIOUS
    <3>1. i \in 1..(k - 1) /\ i \in 1..n
      BY <1>1 DEF n
    <3> QED  BY <1>1, <2>1, <3>1
  <2>3. k \in 1..n /\ \A j \in 1..(k - 1) : j \in 1..n
    BY <1>1, <2>1, <2>2
  <2> QED  BY <1>1, <2>1, <2>3 DEF Firsts
<1> QED  BY <1>1, <1>2, <1>3, SameDeduped DEF t

\* A snapshot later than all others is put at the end.
LEMMA LaterIsAppended ==
  ASSUME NEW s \in Seq(Snapshot), NEW new \in Snapshot,
         \A i \in 1..Len(s) : s[i].Timestamp < new.Timestamp
  PROVE  Deduped(Append(s, new)) = Append(Deduped(s), new)
<1> DEFINE n == Len(s)
           t == Append(s, new)
           d == Deduped(s)
           e == Append(d, new)
<1>1. /\ n \in Nat /\ DOMAIN s = 1..n
      /\ t \in Seq(Snapshot) /\ DOMAIN t = 1..(n + 1)
      /\ t[n + 1] = new /\ \A k \in 1..n : t[k] = s[k]
  OBVIOUS
<1>2. IsDeduped(s, d)
  BY DedupedIs
<1> HIDE DEF d
<1>3. /\ d \in Seq(Snapshot) /\ Len(d) \in Nat
      /\ e \in Seq(Snapshot) /\ Len(e) = Len(d) + 1
      /\ e[Len(d) + 1] = new /\ \A k \in 1..Len(d) : e[k] = d[k]
  BY <1>2 DEF IsDeduped
<1> HIDE DEF n, t, e
<1>4. \A i \in 1..n : s[i].Timestamp < new.Timestamp /\ s[i].Timestamp # new.Timestamp
  <2>1. \A i \in 1..n : s[i].Timestamp < new.Timestamp /\ s[i] \in Snapshot
    BY DEF n
  <2>2. \A x \in Snapshot : x.Timestamp \in Nat
    BY DEF Snapshot
  <2> QED  BY <2>1, <2>2
<1>5. Firsts(t) = Firsts(s) \cup {n + 1}
  <2>1. \A k \in 1..n : k \in Firsts(t) <=> k \in Firsts(s)
    <3> SUFFICES ASSUME NEW k \in 1..n PROVE k \in Firsts(t) <=> k \in Firsts(s)
      OBVIOUS
    <3>1. k \in 1..(n + 1) /\ \A j \in 1..(k - 1) : j \in 1..n
      BY <1>1
    <3> QED  BY <1>1, <3>1 DEF Firsts
  <2>2. n + 1 \in Firsts(t)
    <3>1. n + 1 \in 1..(n + 1) /\ (n + 1) - 1 = n
      BY <1>1
    <3>2. \A j \in 1..n : t[j].Timestamp # t[n + 1].Timestamp
      BY <1>1, <1>4
    <3> QED  BY <1>1, <3>1, <3>2 DEF Firsts
  <2>3. Firsts(s) \subseteq 1..n /\ Firsts(t) \subseteq 1..(n + 1)
    BY <1>1 DEF Firsts
  <2>4. \A k \in 1..(n + 1) : k \in 1..n \/ k = n + 1
    BY <1>1
  <2> QED  BY <2>1, <2>2, <2>3, <2>4
<1>6. Firsts(s) \subseteq 1..n
  BY <1>1 DEF Firsts
<1>7. \A k \in 1..(Len(d) + 1) : k \in 1..Len(d) \/ k = Len(d) + 1
  BY <1>3
<1>8. ASSUME NEW k \in 1..Len(e) PROVE \E i \in Firsts(t) : e[k] = t[i]
  <2>1. CASE k \in 1..Len(d)
    <3>1. PICK i \in Firsts(s) : d[k] = s[i]
      BY <1>2, <2>1 DEF IsDeduped
    <3> QED  BY <1>1, <1>3, <1>5, <1>6, <2>1, <3>1
  <2>2. CASE k = Len(d) + 1
    BY <1>1, <1>3, <1>5, <2>2
  <2> QED  BY <1>3, <1>7, <2>1, <2>2
<1>9. ASSUME NEW i \in Firsts(t) PROVE \E k \in 1..Len(e) : e[k] = t[i]
  <2>1. CASE i \in Firsts(s)
    <3>1. PICK k \in 1..Len(d) : d[k] = s[i]
      BY <1>2, <2>1 DEF IsDeduped
    <3>2. k \in 1..Len(e)
      BY <1>3
    <3> QED  BY <1>1, <1>3, <1>6, <2>1, <3>1, <3>2
  <2>2. CASE i = n + 1
    <3>1. Len(d) + 1 \in 1..Len(e)
      BY <1>3
    <3> QED  BY <1>1, <1>3, <2>2, <3>1
  <2> QED  BY <1>5, <2>1, <2>2
<1>10. ASSUME NEW k \in 1..Len(e), NEW l \in 1..Len(e), k < l
       PROVE  e[k].Timestamp < e[l].Timestamp
  <2>1. k \in 1..Len(d)
    BY <1>3, <1>10
  <2>2. CASE l \in 1..Len(d)
    BY <1>2, <1>3, <1>10, <2>1, <2>2 DEF IsDeduped
  <2>3. CASE l = Len(d) + 1
    <3>1. PICK i \in Firsts(s) : d[k] = s[i]
      BY <1>2, <2>1 DEF IsDeduped
    <3> QED  BY <1>3, <1>4, <1>6, <2>1, <2>3, <3>1
  <2> QED  BY <1>3, <1>7, <2>2, <2>3
<1>11. IsDeduped(t, e)
  BY <1>3, <1>8, <1>9, <1>10 DEF IsDeduped
<1>12. IsDeduped(t, Deduped(t))
  BY <1>1, DedupedIs
<1>13. \A i \in Firsts(t) : \E j \in Firsts(t) : t[j] = t[i]
  OBVIOUS
<1>14. Deduped(t) = e
  BY <1>11, <1>12, <1>13, SameFirsts
<1> QED  BY <1>14 DEF t, e, d

-----------------------------------------------------------------------------
(* The points of a channel *)

\* Rounding down does not change whether a ratio reaches a whole threshold.
LEMMA RatioReaches ==
  ASSUME NEW x \in Int, NEW size \in Nat \ {0}, NEW th \in Nat \ {0}
  PROVE  ((NonNegative(x) * Scale) \div size >= th) <=> (x * Scale >= th * size)
<1> DEFINE a == NonNegative(x) * Scale
           q == a \div size
<1>1. Scale \in Nat \ {0}
  BY ScaleAssumption
<1>2. NonNegative(x) \in Nat /\ (x >= 0 => NonNegative(x) = x) /\ (x < 0 => NonNegative(x) = 0)
  BY DEF NonNegative
<1>3. a \in Nat
  <2> HIDE DEF a
  <2>1. \A u, v \in Nat : u * v \in Nat
    OBVIOUS
  <2> QED  BY <1>1, <1>2, <2>1 DEF a
<1>4. q \in Int /\ q * size <= a /\ a < (q + 1) * size
  <2> HIDE DEF a
  <2> QED  BY <1>3
<1>5. (q >= th) <=> (a >= th * size)
  <2> HIDE DEF a, q
  <2>1. ASSUME q >= th PROVE a >= th * size
    <3>1. q * size >= th * size
      BY <1>4, <2>1
    <3> QED  BY <1>3, <1>4, <3>1
  <2>2. ASSUME q < th PROVE a < th * size
    <3>1. q + 1 <= th
      BY <1>4, <2>2
    <3>2. (q + 1) * size <= th * size
      BY <1>4, <3>1
    <3> QED  BY <1>3, <1>4, <3>2
  <2> QED  BY <1>3, <1>4, <2>1, <2>2
<1>6. (a >= th * size) <=> (x * Scale >= th * size)
  <2>1. CASE x >= 0
    BY <1>2, <2>1
  <2>2. CASE x < 0
    <3>1. a = 0
      BY <1>1, <1>2, <2>2
    <3>2. x * Scale < 0
      BY <1>1, <2>2
    <3>3. th * size > 0
      OBVIOUS
    <3>4. x * Scale \in Int /\ th * size \in Int
      BY <1>1
    <3> HIDE DEF a
    <3> QED  BY <3>1, <3>2, <3>3, <3>4
  <2> QED  BY <2>1, <2>2
<1> QED  BY <1>5, <1>6

\* A point matches exactly when its row is elevated.  (analyzer.go:233-257)
LEMMA PointMatches ==
  ASSUME NEW row \in ChannelSample, NEW o \in NormalizedOptions, NEW m \in Metric, NEW index
  PROVE  Matched(o, m, Point(index, row)) <=> RowElevated(row, o, m)
<1> DEFINE slots == IF row.RemoteMaxHTLCs = 0 THEN 483 ELSE row.RemoteMaxHTLCs
           p     == Point(index, row)
<1>1. /\ row.PendingHTLCCount \in Int /\ row.RemoteMaxHTLCs \in Nat
      /\ row.PendingHTLCValueSat \in Int /\ row.CapacitySat \in Int
  BY DEF ChannelSample
<1>2. /\ o.SlotSaturationThreshold \in Nat \ {0}
      /\ o.LiquiditySaturationThreshold \in Nat \ {0}
  BY ScaleAssumption DEF NormalizedOptions
<1>3. slots \in Nat \ {0}
  BY <1>1
<1>4. /\ p.slotSaturation = (NonNegative(row.PendingHTLCCount) * Scale) \div slots
      /\ p.hasLiquidity <=> row.CapacitySat > 0
      /\ row.CapacitySat > 0 =>
           p.liquiditySaturation
             = (NonNegative(row.PendingHTLCValueSat) * Scale) \div row.CapacitySat
  <2> DEFINE given == IF row.RemoteMaxHTLCs < 1 THEN 483 ELSE row.RemoteMaxHTLCs
  <2>1. given = slots
    BY <1>1
  <2>2. p = [snapshotIndex       |-> index,
             slotSaturation      |-> (NonNegative(row.PendingHTLCCount) * Scale) \div given,
             liquiditySaturation |-> IF row.CapacitySat > 0
                                       THEN (NonNegative(row.PendingHTLCValueSat) * Scale)
                                              \div row.CapacitySat
                                       ELSE 0,
             hasLiquidity        |-> row.CapacitySat > 0]
    BY Zenon DEF Point, defaultRemoteMaxHTLCs
  <2> HIDE DEF p, given, slots
  <2> QED  BY <2>1, <2>2
<1> HIDE DEF p, slots
<1>5. SlotHigh(o, p) <=> row.PendingHTLCCount * Scale >= o.SlotSaturationThreshold * slots
  BY <1>1, <1>2, <1>3, <1>4, RatioReaches DEF SlotHigh
<1>6. LiquidityHigh(o, p) <=>
        /\ row.CapacitySat > 0
        /\ row.PendingHTLCValueSat * Scale >= o.LiquiditySaturationThreshold * row.CapacitySat
  <2>1. CASE row.CapacitySat > 0
    <3>1. row.CapacitySat \in Nat \ {0}
      BY <1>1, <2>1
    <3> QED  BY <1>1, <1>2, <1>4, <2>1, <3>1, RatioReaches DEF LiquidityHigh
  <2>2. CASE ~(row.CapacitySat > 0)
    BY <1>4, <2>2 DEF LiquidityHigh
  <2> QED  BY <2>1, <2>2
<1>7. Matched(o, m, p) <=> /\ m # "liquidity" => SlotHigh(o, p)
                           /\ m # "slot" => LiquidityHigh(o, p)
  BY DEF Matched, Metric
<1>8. RowElevated(row, o, m) <=>
        /\ m # "liquidity" =>
             row.PendingHTLCCount * Scale >= o.SlotSaturationThreshold * slots
        /\ m # "slot" =>
             /\ row.CapacitySat > 0
             /\ row.PendingHTLCValueSat * Scale
                  >= o.LiquiditySaturationThreshold * row.CapacitySat
  BY Zenon DEF RowElevated, slots
<1> QED  BY <1>5, <1>6, <1>7, <1>8 DEF p

\* The point of a row.
LEMMA PointTyped ==
  ASSUME NEW row \in ChannelSample, NEW index \in Nat
  PROVE  Point(index, row) \in MetricPoint /\ Point(index, row).snapshotIndex = index
<1>1. /\ row.PendingHTLCCount \in Int /\ row.RemoteMaxHTLCs \in Nat
      /\ row.PendingHTLCValueSat \in Int /\ row.CapacitySat \in Int
  BY DEF ChannelSample
<1>2. \A x \in Int : NonNegative(x) * Scale \in Nat
  <2>1. \A u, v \in Nat : u * v \in Nat
    OBVIOUS
  <2>2. \A x \in Int : NonNegative(x) \in Nat
    BY DEF NonNegative
  <2> QED  BY <2>1, <2>2, ScaleAssumption
<1>3. \A a \in Nat, b \in Nat \ {0} : a \div b \in Nat
  OBVIOUS
<1> DEFINE slots == IF row.RemoteMaxHTLCs < 1 THEN 483 ELSE row.RemoteMaxHTLCs
           slot  == (NonNegative(row.PendingHTLCCount) * Scale) \div slots
           liquidity == IF row.CapacitySat > 0
                          THEN (NonNegative(row.PendingHTLCValueSat) * Scale) \div row.CapacitySat
                          ELSE 0
<1>4. slots \in Nat \ {0}
  BY <1>1
<1>5. slot \in Nat
  <2> HIDE DEF slots
  <2> QED  BY <1>1, <1>2, <1>3, <1>4
<1>6. liquidity \in Nat
  BY <1>1, <1>2, <1>3
<1>7. Point(index, row) = [snapshotIndex       |-> index,
                           slotSaturation      |-> slot,
                           liquiditySaturation |-> liquidity,
                           hasLiquidity        |-> row.CapacitySat > 0]
  BY DEF Point, defaultRemoteMaxHTLCs
<1> HIDE DEF slot, liquidity
<1>8. (row.CapacitySat > 0) \in BOOLEAN
  BY <1>1
<1> QED  BY <1>5, <1>6, <1>7, <1>8 DEF MetricPoint, Saturation

\* The first row of the channel in the snapshot is elevated.
ElevatedIn(snapshot, c, o, m) ==
  \E i \in DOMAIN snapshot.Channels :
    /\ snapshot.Channels[i].ChanID = c
    /\ \A j \in 1..(i - 1) : snapshot.Channels[j].ChanID # c
    /\ RowElevated(snapshot.Channels[i], o, m)

\* Pieces of a series: nothing, or one point.
PointPieces == {<<>>} \cup {<<x>> : x \in MetricPoint}

\* A snapshot gives a channel no point if it has no row of it, else one that
\* matches exactly when the first row is elevated.  (analyzer.go:213-257)
LEMMA PieceIs ==
  ASSUME NEW snapshot \in Snapshot, NEW c, NEW index \in Nat,
         NEW o \in NormalizedOptions, NEW m \in Metric
  PROVE  /\ PointIn(index, snapshot, c) \in PointPieces
         /\ ElevatedIn(snapshot, c, o, m) => PointIn(index, snapshot, c) # <<>>
         /\ \A x : PointIn(index, snapshot, c) = <<x>> =>
              /\ x.snapshotIndex = index
              /\ Matched(o, m, x) <=> ElevatedIn(snapshot, c, o, m)
<1> DEFINE list == snapshot.Channels
           rows == {i \in DOMAIN list : list[i].ChanID = c}
           first == Min(rows)
           p == Point(index, list[first])
<1>1. list \in Seq(ChannelSample)
  BY DEF Snapshot
<1> HIDE DEF list
<1>2. /\ Len(list) \in Nat /\ DOMAIN list = 1..Len(list)
      /\ \A i \in 1..Len(list) : list[i] \in ChannelSample
  BY <1>1
<1>3. PointIn(index, snapshot, c) = IF rows = {} THEN <<>> ELSE <<p>>
  BY DEF PointIn, Rows, list
<1>4. ElevatedIn(snapshot, c, o, m) <=>
        \E i \in DOMAIN list : /\ list[i].ChanID = c
                               /\ \A j \in 1..(i - 1) : list[j].ChanID # c
                               /\ RowElevated(list[i], o, m)
  BY DEF ElevatedIn, list
<1>5. CASE rows = {}
  BY <1>3, <1>4, <1>5 DEF PointPieces
<1>6. CASE rows # {}
  <2>1. first \in rows /\ \A i \in rows : first <= i
    <3>1. rows \in SUBSET 1..Len(list)
      BY <1>2
    <3> HIDE DEF rows
    <3> QED  BY <1>2, <1>6, <3>1, Extremes
  <2> HIDE DEF first
  <2>2. first \in 1..Len(list) /\ list[first].ChanID = c /\ list[first] \in ChannelSample
    BY <1>2, <2>1
  <2>3. p \in MetricPoint /\ p.snapshotIndex = index
    BY <2>2, PointTyped
  <2>4. Matched(o, m, p) <=> RowElevated(list[first], o, m)
    BY <2>2, PointMatches
  <2>5. \A j \in 1..(first - 1) : list[j].ChanID # c
    <3> SUFFICES ASSUME NEW j \in 1..(first - 1), list[j].ChanID = c PROVE FALSE
      OBVIOUS
    <3>1. j \in DOMAIN list /\ j < first
      BY <1>2, <2>2
    <3>2. j \in rows
      BY <3>1
    <3> QED  BY <1>2, <2>1, <2>2, <3>1, <3>2
  <2>6. ElevatedIn(snapshot, c, o, m) <=> RowElevated(list[first], o, m)
    <3>1. RowElevated(list[first], o, m) => ElevatedIn(snapshot, c, o, m)
      BY <1>2, <1>4, <2>2, <2>5
    <3>2. ASSUME NEW i \in DOMAIN list, list[i].ChanID = c,
                 \A j \in 1..(i - 1) : list[j].ChanID # c
          PROVE  i = first
      <4>1. first <= i /\ i \in 1..Len(list)
        BY <1>2, <2>1, <3>2
      <4>2. first < i => first \in 1..(i - 1)
        BY <1>2, <2>2, <4>1
      <4> QED  BY <1>2, <2>2, <3>2, <4>1, <4>2
    <3> QED  BY <1>4, <3>1, <3>2
  <2> HIDE DEF p, rows
  <2>7. PointIn(index, snapshot, c) = <<p>>
    BY <1>3, <1>6
  <2>8. \A x : <<p>> = <<x>> => p = x
    OBVIOUS
  <2>9. <<p>> \in PointPieces /\ <<p>> # <<>>
    BY <2>3 DEF PointPieces
  <2> QED  BY <2>3, <2>4, <2>6, <2>7, <2>8, <2>9
<1> QED  BY <1>5, <1>6

\* at says from which snapshot of d each point of the series is.
IsPlaced(d, c, o, m, at, series) ==
  /\ at \in [1..Len(series) -> 1..Len(d)]
  /\ \A i, j \in 1..Len(series) : i < j => at[i] < at[j]
  /\ \A i \in 1..Len(series) : series[i].snapshotIndex = at[i] - 1
  /\ \A i \in 1..Len(series) : Matched(o, m, series[i]) <=> ElevatedIn(d[at[i]], c, o, m)
  /\ \A k \in 1..Len(d) :
       ElevatedIn(d[k], c, o, m) => \E i \in 1..Len(series) : at[i] = k

\* The series of a channel has its points in the order of the snapshots, and
\* numbers them by the snapshots.  (analyzer.go:213-260)
LEMMA SeriesIs ==
  ASSUME NEW d \in Seq(Snapshot), NEW c, NEW o \in NormalizedOptions, NEW m \in Metric
  PROVE  IsSeries(Series(d, c)) /\ \E at : IsPlaced(d, c, o, m, at, Series(d, c))
<1> DEFINE n == Len(d)
           pieces == [k \in DOMAIN d |-> PointIn(k - 1, d[k], c)]
           s == FlattenSeq(pieces)
<1>1. n \in Nat /\ DOMAIN d = 1..n /\ \A k \in 1..n : d[k] \in Snapshot /\ k - 1 \in Nat
  OBVIOUS
<1>2. Series(d, c) = s
  BY DEF Series
<1>3. \A k \in 1..n : pieces[k] = PointIn(k - 1, d[k], c) /\ pieces[k] \in PointPieces
  BY <1>1, PieceIs
<1>4. pieces \in Seq(PointPieces) /\ Len(pieces) = n
  <2>1. pieces = [k \in 1..n |-> PointIn(k - 1, d[k], c)]
    BY <1>1
  <2>2. \A k \in 1..n : PointIn(k - 1, d[k], c) \in PointPieces
    BY <1>1, PieceIs
  <2> HIDE DEF pieces
  <2> QED  BY <1>1, <2>1, <2>2
<1> HIDE DEF pieces
<1>5. s \in Seq(MetricPoint) /\ \E at : IsSelection(at, pieces, s)
  BY <1>4, SelectionIs DEF PointPieces
<1>6. PICK at : IsSelection(at, pieces, s)
  BY <1>5
<1> HIDE DEF s
<1>7. /\ at \in [1..Len(s) -> 1..n]
      /\ \A i, j \in 1..Len(s) : i < j => at[i] < at[j]
  BY <1>4, <1>6 DEF IsSelection
<1>8. ASSUME NEW i \in 1..Len(s)
      PROVE  /\ s[i].snapshotIndex = at[i] - 1
             /\ Matched(o, m, s[i]) <=> ElevatedIn(d[at[i]], c, o, m)
  <2>1. at[i] \in 1..n /\ pieces[at[i]] = <<s[i]>>
    BY <1>6, <1>7 DEF IsSelection
  <2>2. PointIn(at[i] - 1, d[at[i]], c) = <<s[i]>>
    BY <1>3, <2>1
  <2>3. d[at[i]] \in Snapshot /\ at[i] - 1 \in Nat
    BY <1>1, <2>1
  <2> QED  BY <2>2, <2>3, PieceIs
<1>9. ASSUME NEW k \in 1..n, ElevatedIn(d[k], c, o, m) PROVE \E i \in 1..Len(s) : at[i] = k
  <2>1. pieces[k] # <<>>
    BY <1>1, <1>3, <1>9, PieceIs
  <2> QED  BY <1>4, <1>6, <2>1 DEF IsSelection
<1>10. \A i, j \in 1..Len(s) : i < j => s[i].snapshotIndex < s[j].snapshotIndex
  <2> SUFFICES ASSUME NEW i \in 1..Len(s), NEW j \in 1..Len(s), i < j
               PROVE  s[i].snapshotIndex < s[j].snapshotIndex
    OBVIOUS
  <2>1. at[i] < at[j] /\ at[i] \in 1..n /\ at[j] \in 1..n
    BY <1>7
  <2>2. s[i].snapshotIndex = at[i] - 1 /\ s[j].snapshotIndex = at[j] - 1
    BY <1>8
  <2> QED  BY <1>1, <2>1, <2>2
<1> QED  BY <1>2, <1>5, <1>7, <1>8, <1>9, <1>10 DEF IsSeries, IsPlaced

\* At n snapshots of d in a row the channel is elevated.
Window(d, c, o, m, n) ==
  \E a, b \in 1..Len(d) : /\ a <= b
                          /\ b - a + 1 >= n
                          /\ \A k \in a..b : ElevatedIn(d[k], c, o, m)

\* A run of a series is from as many snapshots in a row.
LEMMA RunIsWindow ==
  ASSUME NEW d \in Seq(Snapshot), NEW c, NEW o, NEW m, NEW at, NEW s \in Seq(MetricPoint),
         IsPlaced(d, c, o, m, at, s), NEW n, HasWindow(s, o, m, n)
  PROVE  Window(d, c, o, m, n)
<1>1. PICK a \in 1..Len(s), b \in 1..Len(s) : a <= b /\ b - a + 1 >= n /\ IsRun(s, o, m, a, b)
  BY DEF HasWindow
<1>2. /\ Len(s) \in Nat /\ Len(d) \in Nat
      /\ \A i \in 1..Len(s) : at[i] \in 1..Len(d)
  BY DEF IsPlaced
<1>3. /\ \A i \in a..b : Matched(o, m, s[i]) /\ i \in 1..Len(s)
      /\ \A i \in a..b : i > a => s[i].snapshotIndex = s[i - 1].snapshotIndex + 1
  BY <1>1 DEF IsRun
<1>31. /\ \A i \in 1..Len(s) : s[i].snapshotIndex = at[i] - 1
       /\ \A i \in 1..Len(s) : Matched(o, m, s[i]) <=> ElevatedIn(d[at[i]], c, o, m)
  BY DEF IsPlaced
<1> DEFINE P == {k \in Nat : a + k <= b => at[a + k] = at[a] + k}
<1>4. 0 \in P
  BY <1>1, <1>2
<1>5. ASSUME NEW k \in Nat, k \in P PROVE k + 1 \in P
  <2> SUFFICES ASSUME a + (k + 1) <= b PROVE at[a + (k + 1)] = at[a] + (k + 1)
    OBVIOUS
  <2> DEFINE i == a + k
             j == a + (k + 1)
  <2>1. i \in a..b /\ j \in a..b /\ j > a /\ j - 1 = i /\ at[i] = at[a] + k
    BY <1>1, <1>5
  <2> HIDE DEF i, j
  <2>2. i \in 1..Len(s) /\ j \in 1..Len(s)
    BY <1>3, <2>1
  <2>3. s[j].snapshotIndex = s[i].snapshotIndex + 1
    BY <1>3, <2>1
  <2>4. s[j].snapshotIndex = at[j] - 1 /\ s[i].snapshotIndex = at[i] - 1
    BY <1>31, <2>2
  <2>5. at[i] \in Nat /\ at[j] \in Nat /\ at[a] \in Nat
    BY <1>1, <1>2, <2>2
  <2>6. at[j] = at[i] + 1
    <3>1. at[j] - 1 = (at[i] - 1) + 1
      BY <2>3, <2>4, Zenon
    <3> QED  BY <2>5, <3>1
  <2>7. at[j] = at[a] + (k + 1)
    BY <2>1, <2>5, <2>6
  <2> QED  BY <2>7 DEF j
<1>6. ASSUME NEW i \in a..b PROVE at[i] = at[a] + (i - a)
  <2>1. Nat \subseteq P
    <3> HIDE DEF P
    <3> QED  BY <1>4, <1>5, Induction
  <2>2. i - a \in Nat /\ a + (i - a) = i /\ i <= b
    BY <1>1
  <2>3. i - a \in P
    BY <2>1, <2>2
  <2> QED  BY <2>2, <2>3
<1> DEFINE p == at[a]
           q == at[b]
<1>7. p \in 1..Len(d) /\ q \in 1..Len(d) /\ q = p + (b - a)
  BY <1>1, <1>2, <1>6
<1>8. p <= q /\ q - p = b - a
  <2> HIDE DEF p, q
  <2> QED  BY <1>1, <1>7
<1>9. ASSUME NEW k \in p..q PROVE ElevatedIn(d[k], c, o, m)
  <2> DEFINE i == a + (k - p)
  <2>1. i \in a..b /\ k = p + (i - a)
    <3> HIDE DEF p, q
    <3> QED  BY <1>1, <1>7, <1>8
  <2> HIDE DEF i
  <2>2. at[i] = k
    BY <1>6, <2>1
  <2>3. Matched(o, m, s[i]) /\ i \in 1..Len(s)
    BY <1>3, <2>1
  <2> QED  BY <1>31, <2>2, <2>3
<1> HIDE DEF p, q
<1>10. q - p + 1 >= n
  <2>1. q - p + 1 = b - a + 1
    BY <1>8
  <2> QED  BY <1>1, <2>1
<1> QED  BY <1>7, <1>8, <1>9, <1>10 DEF Window

\* Snapshots in a row make a run of the series.
LEMMA WindowIsRun ==
  ASSUME NEW d \in Seq(Snapshot), NEW c, NEW o, NEW m, NEW at, NEW s \in Seq(MetricPoint),
         IsPlaced(d, c, o, m, at, s), NEW n, Window(d, c, o, m, n)
  PROVE  HasWindow(s, o, m, n)
<1>1. PICK p \in 1..Len(d), q \in 1..Len(d) :
        /\ p <= q /\ q - p + 1 >= n
        /\ \A k \in p..q : ElevatedIn(d[k], c, o, m)
  BY DEF Window
<1>2. /\ Len(s) \in Nat /\ Len(d) \in Nat
      /\ \A i \in 1..Len(s) : at[i] \in 1..Len(d)
      /\ \A i, j \in 1..Len(s) : i < j => at[i] < at[j]
  BY DEF IsPlaced
<1>3. ASSUME NEW k \in p..q PROVE \E i \in 1..Len(s) : at[i] = k
  <2>1. k \in 1..Len(d)
    BY <1>1
  <2> QED  BY <1>1, <2>1 DEF IsPlaced
<1>4. PICK a \in 1..Len(s) : at[a] = p
  BY <1>1, <1>3
<1>41. /\ \A i \in 1..Len(s) : s[i].snapshotIndex = at[i] - 1
       /\ \A i \in 1..Len(s) : Matched(o, m, s[i]) <=> ElevatedIn(d[at[i]], c, o, m)
  BY DEF IsPlaced
<1> DEFINE P == {k \in Nat : p + k <= q => a + k \in 1..Len(s) /\ at[a + k] = p + k}
<1>5. 0 \in P
  BY <1>1, <1>2, <1>4
<1>6. ASSUME NEW k \in Nat, k \in P PROVE k + 1 \in P
  <2> SUFFICES ASSUME p + (k + 1) <= q
               PROVE  a + (k + 1) \in 1..Len(s) /\ at[a + (k + 1)] = p + (k + 1)
    OBVIOUS
  <2> DEFINE i == a + k
             next == i + 1
  <2>1. i \in 1..Len(s) /\ at[i] = p + k /\ p + (k + 1) \in p..q
    BY <1>1, <1>6
  <2>2. next = a + (k + 1)
    BY <1>2
  <2>3. PICK j \in 1..Len(s) : at[j] = p + (k + 1)
    BY <1>3, <2>1
  <2> HIDE DEF i
  <2>4. i < j
    <3>1. ~(j < i) /\ j # i
      <4>1. j < i => at[j] < at[i]
        BY <1>2, <2>1
      <4> QED  BY <1>1, <2>1, <2>3, <4>1
    <3> QED  BY <1>2, <2>1, <3>1
  <2>5. next \in 1..Len(s) /\ i < next /\ (next = j \/ next < j)
    BY <1>2, <2>1, <2>4
  <2> HIDE DEF next
  <2>6. at[next] > p + k /\ at[next] \in Nat
    <3>1. at[i] < at[next] /\ at[next] \in 1..Len(d)
      BY <1>2, <2>1, <2>5
    <3> QED  BY <1>1, <2>1, <3>1
  <2>7. next < j => at[next] < p + (k + 1)
    BY <1>2, <2>3, <2>5
  <2>8. next = j
    BY <1>1, <2>5, <2>6, <2>7
  <2> QED  BY <2>2, <2>3, <2>5, <2>8
<1>7. ASSUME NEW k \in p..q PROVE a + (k - p) \in 1..Len(s) /\ at[a + (k - p)] = k
  <2>1. Nat \subseteq P
    <3> HIDE DEF P
    <3> QED  BY <1>5, <1>6, Induction
  <2>2. k - p \in Nat /\ p + (k - p) = k /\ k <= q
    BY <1>1
  <2>3. k - p \in P
    BY <2>1, <2>2
  <2> QED  BY <2>2, <2>3
<1> DEFINE b == a + (q - p)
<1>8. b \in 1..Len(s) /\ a <= b /\ b - a + 1 = q - p + 1
  <2>1. q \in p..q
    BY <1>1
  <2>2. b \in 1..Len(s)
    BY <1>7, <2>1
  <2> QED  BY <1>1, <2>2
<1>9. ASSUME NEW i \in a..b PROVE i \in 1..Len(s) /\ at[i] = p + (i - a) /\ p + (i - a) \in p..q
  <2> DEFINE k == p + (i - a)
  <2>1. k \in p..q /\ a + (k - p) = i
    BY <1>1, <1>8
  <2> HIDE DEF k
  <2>2. i \in 1..Len(s) /\ at[i] = k
    BY <1>7, <2>1
  <2> QED  BY <2>1, <2>2 DEF k
<1> HIDE DEF b
<1>10. ASSUME NEW i \in a..b PROVE Matched(o, m, s[i])
  <2>1. ElevatedIn(d[at[i]], c, o, m) /\ i \in 1..Len(s)
    BY <1>1, <1>9
  <2> QED  BY <1>41, <2>1
<1>11. ASSUME NEW i \in a..b, i > a PROVE s[i].snapshotIndex = s[i - 1].snapshotIndex + 1
  <2>1. i - 1 \in a..b
    BY <1>8, <1>11
  <2>2. at[i] = p + (i - a) /\ at[i - 1] = p + ((i - 1) - a)
    BY <1>9, <2>1
  <2>3. s[i].snapshotIndex = at[i] - 1 /\ s[i - 1].snapshotIndex = at[i - 1] - 1
    <3>1. i \in 1..Len(s) /\ i - 1 \in 1..Len(s)
      BY <1>9, <2>1
    <3> QED  BY <1>41, <3>1
  <2> QED  BY <1>1, <2>1, <2>2, <2>3
<1>12. IsRun(s, o, m, a, b)
  BY <1>10, <1>11 DEF IsRun
<1>13. b - a + 1 >= n
  BY <1>1, <1>8
<1> QED  BY <1>8, <1>12, <1>13 DEF HasWindow

\* The streak of a channel is long enough exactly when the channel is elevated
\* at as many snapshots in a row.
LEMMA StreakIsOfWindow ==
  ASSUME NEW d \in Seq(Snapshot), NEW c, NEW o \in NormalizedOptions, NEW m \in Metric
  PROVE  Sustained(o, evaluateStreak(Series(d, c), o, m))
           <=> Window(d, c, o, m, o.MinSustainedSamples)
<1> DEFINE s == Series(d, c)
           streak == evaluateStreak(s, o, m)
           n == o.MinSustainedSamples
<1>1. IsSeries(s) /\ \E at : IsPlaced(d, c, o, m, at, s)
  BY SeriesIs
<1> HIDE DEF s
<1>2. PICK at : IsPlaced(d, c, o, m, at, s)
  BY <1>1
<1>3. streak \in StreakInfo /\ IsLongestRun(s, o, m, Len(s), streak)
  BY <1>1, StreakIs
<1> HIDE DEF streak
<1>4. n \in Nat \ {0}
  BY DEF NormalizedOptions
<1>5. streak.length >= n <=> HasWindow(s, o, m, n)
  BY <1>1, <1>3, <1>4, StreakIsWindow
<1>6. HasWindow(s, o, m, n) <=> Window(d, c, o, m, n)
  <2>1. s \in Seq(MetricPoint)
    BY <1>1 DEF IsSeries
  <2>2. HasWindow(s, o, m, n) => Window(d, c, o, m, n)
    BY <1>2, <2>1, RunIsWindow
  <2>3. Window(d, c, o, m, n) => HasWindow(s, o, m, n)
    BY <1>2, <2>1, WindowIsRun
  <2> QED  BY <2>2, <2>3
<1> QED  BY <1>5, <1>6 DEF Sustained, streak, s

-----------------------------------------------------------------------------
(* Windows of the file *)

\* Every timestamp of the file has a first snapshot, and only one.
LEMMA FirstOfTime ==
  ASSUME NEW s \in Seq(Snapshot), NEW i \in DOMAIN s
  PROVE  /\ \E j \in Firsts(s) : s[j].Timestamp = s[i].Timestamp
         /\ \A j, k \in Firsts(s) : s[j].Timestamp = s[k].Timestamp => j = k
<1> DEFINE n == Len(s)
           T(k) == s[k].Timestamp
           same == {k \in 1..n : T(k) = T(i)}
           j == Min(same)
<1>1. n \in Nat /\ DOMAIN s = 1..n
  OBVIOUS
<1>2. \A k \in 1..n : k \in Firsts(s) <=> \A l \in 1..(k - 1) : T(l) # T(k)
  BY <1>1 DEF Firsts
<1>3. \A k \in Firsts(s) : k \in 1..n
  BY <1>1 DEF Firsts
<1>4. i \in same /\ same \in SUBSET 1..n
  BY <1>1
<1> HIDE DEF T
<1>5. j \in same /\ \A k \in same : j <= k
  <2> HIDE DEF same, n
  <2> QED  BY <1>1, <1>4, Extremes
<1> HIDE DEF j
<1>6. j \in Firsts(s)
  <2> SUFFICES ASSUME NEW l \in 1..(j - 1), T(l) = T(j) PROVE FALSE
    BY <1>2, <1>5
  <2>1. l \in 1..n /\ l < j
    BY <1>1, <1>5
  <2>2. l \in same
    BY <1>5, <2>1
  <2> QED  BY <1>1, <1>5, <2>1, <2>2
<1>7. ASSUME NEW k \in Firsts(s), NEW l \in Firsts(s), T(k) = T(l) PROVE k = l
  <2>1. k \in 1..n /\ l \in 1..n
    BY <1>3
  <2>2. k \notin 1..(l - 1) /\ l \notin 1..(k - 1)
    BY <1>2, <1>7, <2>1
  <2> QED  BY <1>1, <2>1, <2>2
<1> QED  BY <1>5, <1>6, <1>7 DEF T

\* The times of the file are those of the deduplicated list, and At is its
\* snapshot of that time.
LEMMA AtIs ==
  ASSUME timeline \in Seq(Snapshot), NEW d, IsDeduped(timeline, d)
  PROVE  /\ Times = {d[k].Timestamp : k \in 1..Len(d)}
         /\ \A k \in 1..Len(d) : At(d[k].Timestamp) = d[k]
<1> DEFINE s == timeline
           n == Len(s)
<1>1. n \in Nat /\ DOMAIN s = 1..n
  OBVIOUS
<1>2. \A t : t \in Times <=> \E i \in DOMAIN s : s[i].Timestamp = t
  BY DEF Times, ToSet
<1>3. ASSUME NEW i \in DOMAIN s PROVE \E k \in 1..Len(d) : d[k].Timestamp = s[i].Timestamp
  <2>1. PICK j \in Firsts(s) : s[j].Timestamp = s[i].Timestamp
    BY FirstOfTime
  <2>2. PICK k \in 1..Len(d) : d[k] = s[j]
    BY DEF IsDeduped
  <2> QED  BY <2>1, <2>2
<1>4. ASSUME NEW k \in 1..Len(d) PROVE \E i \in Firsts(s) : d[k] = s[i] /\ i \in DOMAIN s
  BY DEF IsDeduped, Firsts
<1>5. Times = {d[k].Timestamp : k \in 1..Len(d)}
  BY <1>2, <1>3, <1>4
<1>6. ASSUME NEW k \in 1..Len(d) PROVE At(d[k].Timestamp) = d[k]
  <2> DEFINE t == d[k].Timestamp
             is(i) == s[i].Timestamp = t /\ \A j \in 1..(i - 1) : s[j].Timestamp # t
             x == CHOOSE i \in DOMAIN s : is(i)
  <2>1. PICK i \in Firsts(s) : d[k] = s[i] /\ i \in DOMAIN s
    BY <1>4
  <2>2. is(i)
    BY <2>1 DEF Firsts
  <2>3. x \in DOMAIN s /\ is(x)
    <3> HIDE DEF is
    <3> QED  BY <2>1, <2>2
  <2>4. At(t) = s[x]
    BY DEF At
  <2> HIDE DEF x
  <2>5. x \in Firsts(s)
    BY <2>3 DEF Firsts
  <2>6. s[x].Timestamp = s[i].Timestamp
    BY <2>2, <2>3
  <2>7. x = i
    BY <2>1, <2>5, <2>6, FirstOfTime
  <2> QED  BY <2>1, <2>4, <2>7
<1> QED  BY <1>5, <1>6

\* There are as many times between two snapshots as snapshots.
LEMMA WindowSize ==
  ASSUME NEW d, IsIncreasing(d), NEW a \in 1..Len(d), NEW b \in 1..Len(d), a <= b,
         NEW W, W = {d[k].Timestamp : k \in 1..Len(d)} \cap (d[a].Timestamp)..(d[b].Timestamp)
  PROVE  /\ W = {d[k].Timestamp : k \in a..b}
         /\ Cardinality(W) = b - a + 1
<1> DEFINE T(k) == d[k].Timestamp
           n == Len(d)
<1>1. n \in Nat /\ \A k \in 1..n : T(k) \in Nat
  <2>1. n \in Nat /\ \A k \in 1..n : d[k] \in Snapshot
    BY DEF IsIncreasing
  <2>2. \A x \in Snapshot : x.Timestamp \in Nat
    BY DEF Snapshot
  <2> QED  BY <2>1, <2>2
<1>2. \A k, l \in 1..n : k < l => T(k) < T(l)
  BY DEF IsIncreasing
<1>3. W = {T(k) : k \in 1..n} \cap T(a)..T(b)
  OBVIOUS
<1> SUFFICES W = {T(k) : k \in a..b} /\ Cardinality(W) = b - a + 1
  OBVIOUS
<1> HIDE DEF T, n
<1>4. a \in 1..n /\ b \in 1..n
  BY DEF n
<1>5. \A k \in 1..n : (T(k) \in T(a)..T(b)) <=> k \in a..b
  <2> SUFFICES ASSUME NEW k \in 1..n PROVE (T(k) \in T(a)..T(b)) <=> k \in a..b
    OBVIOUS
  <2>1. /\ k < a => T(k) < T(a)
        /\ b < k => T(b) < T(k)
        /\ a < k => T(a) < T(k)
        /\ k < b => T(k) < T(b)
    BY <1>2, <1>4
  <2>2. T(k) \in Nat /\ T(a) \in Nat /\ T(b) \in Nat
    BY <1>1, <1>4
  <2>3. (k = a => T(k) = T(a)) /\ (k = b => T(k) = T(b))
    OBVIOUS
  <2> QED  BY <1>1, <1>4, <2>1, <2>2, <2>3
<1>6. W = {T(k) : k \in a..b}
  <2>1. \A k \in a..b : k \in 1..n
    BY <1>1, <1>4
  <2> QED  BY <1>3, <1>5, <2>1
<1>7. Cardinality(W) = b - a + 1
  <2> DEFINE f == [k \in a..b |-> T(k)]
  <2>1. f \in Surjection(a..b, W)
    BY <1>6 DEF Surjection
  <2>2. \A k, l \in a..b : f[k] = f[l] => k = l
    <3> SUFFICES ASSUME NEW k \in a..b, NEW l \in a..b, T(k) = T(l), k # l PROVE FALSE
      OBVIOUS
    <3>1. k \in 1..n /\ l \in 1..n /\ (k < l \/ l < k)
      BY <1>1, <1>4
    <3>2. T(k) \in Nat /\ T(l) \in Nat
      BY <1>1, <3>1
    <3> QED  BY <1>2, <3>1, <3>2
  <2>3. f \in Injection(a..b, W)
    BY <2>1, <2>2 DEF Surjection, Injection, IsInjective
  <2>4. IsFiniteSet(a..b) /\ Cardinality(a..b) = b - a + 1
    <3>1. a \in Int /\ b \in Int
      BY <1>4
    <3> QED  BY <3>1, FS_Interval
  <2> HIDE DEF f
  <2> QED  BY <2>1, <2>3, <2>4, FS_Surjection
<1> QED  BY <1>6, <1>7

\* The file has a window of elevated timestamps exactly when the deduplicated
\* list has one of snapshots.
LEMMA FileWindow ==
  ASSUME timeline \in Seq(Snapshot), NEW c, NEW o, NEW m, NEW n \in Nat \ {0}
  PROVE  ElevatedWindow(c, o, m, n) <=> Window(Deduped(timeline), c, o, m, n)
<1> DEFINE d == Deduped(timeline)
           T(k) == d[k].Timestamp
           E(k) == ElevatedIn(d[k], c, o, m)
           between(a, b) == Times \cap T(a)..T(b)
<1>1. IsDeduped(timeline, d)
  BY DedupedIs
<1> HIDE DEF d
<1>2. IsIncreasing(d) /\ Len(d) \in Nat
  BY <1>1 DEF IsDeduped, IsIncreasing
<1>3. Times = {T(k) : k \in 1..Len(d)} /\ \A k \in 1..Len(d) : At(T(k)) = d[k]
  BY <1>1, AtIs
<1>4. \A k \in 1..Len(d) : Elevated(T(k), c, o, m) <=> E(k)
  <2> SUFFICES ASSUME NEW k \in 1..Len(d) PROVE Elevated(T(k), c, o, m) <=> E(k)
    OBVIOUS
  <2>1. At(T(k)) = d[k]
    BY <1>3
  <2> HIDE DEF T
  <2> QED  BY <2>1 DEF Elevated, ElevatedIn
<1>5. \A k \in 1..Len(d) : T(k) \in Nat
  <2>1. \A k \in 1..Len(d) : d[k] \in Snapshot
    BY <1>2 DEF IsIncreasing
  <2>2. \A x \in Snapshot : x.Timestamp \in Nat
    BY DEF Snapshot
  <2> QED  BY <2>1, <2>2
<1>6. \A k, l \in 1..Len(d) : k < l => T(k) < T(l)
  BY <1>2 DEF IsIncreasing
<1>7. ASSUME NEW a \in 1..Len(d), NEW b \in 1..Len(d), a <= b
      PROVE  /\ Cardinality(between(a, b)) = b - a + 1
             /\ (\A t \in between(a, b) : Elevated(t, c, o, m)) <=> \A k \in a..b : E(k)
  <2>1. /\ between(a, b) = {T(k) : k \in a..b}
        /\ Cardinality(between(a, b)) = b - a + 1
    <3> DEFINE W == between(a, b)
    <3>1. W = {d[k].Timestamp : k \in 1..Len(d)} \cap (d[a].Timestamp)..(d[b].Timestamp)
      BY <1>3
    <3> HIDE DEF W
    <3>2. W = {d[k].Timestamp : k \in a..b} /\ Cardinality(W) = b - a + 1
      BY <1>2, <1>7, <3>1, WindowSize
    <3> QED  BY <3>2 DEF W
  <2>2. \A k \in a..b : k \in 1..Len(d)
    BY <1>2
  <2> HIDE DEF T, between, E
  <2> QED  BY <1>4, <2>1, <2>2
<1> HIDE DEF T, E
<1>8. ASSUME ElevatedWindow(c, o, m, n) PROVE Window(d, c, o, m, n)
  <2>1. PICK first \in Times, last \in Times :
          /\ Cardinality(Times \cap first..last) >= n
          /\ \A t \in Times \cap first..last : Elevated(t, c, o, m)
    BY <1>8 DEF ElevatedWindow
  <2>2. PICK a \in 1..Len(d), b \in 1..Len(d) : first = T(a) /\ last = T(b)
    BY <1>3
  <2>3. a <= b
    <3> SUFFICES ASSUME b < a PROVE FALSE
      BY <1>2
    <3>1. last < first /\ first \in Nat /\ last \in Nat
      BY <1>5, <1>6, <2>2
    <3>2. Times \cap first..last = {}
      BY <3>1
    <3>3. Cardinality(Times \cap first..last) = 0
      BY <3>2, FS_EmptySet
    <3> QED  BY <2>1, <3>3
  <2>4. b - a + 1 >= n /\ \A k \in a..b : E(k)
    BY <1>7, <2>1, <2>2, <2>3
  <2> QED  BY <2>3, <2>4 DEF Window, E
<1>9. ASSUME Window(d, c, o, m, n) PROVE ElevatedWindow(c, o, m, n)
  <2>1. PICK a \in 1..Len(d), b \in 1..Len(d) : a <= b /\ b - a + 1 >= n /\ \A k \in a..b : E(k)
    BY <1>9 DEF Window, E
  <2>2. /\ Cardinality(between(a, b)) >= n
        /\ \A t \in between(a, b) : Elevated(t, c, o, m)
    BY <1>7, <2>1
  <2>3. T(a) \in Times /\ T(b) \in Times
    BY <1>3
  <2> QED  BY <2>2, <2>3 DEF ElevatedWindow
<1> QED  BY <1>8, <1>9 DEF d

-----------------------------------------------------------------------------
(* The findings *)

\* The findings about one metric of a channel.
LEMMA SingleMetricIs ==
  ASSUME NEW o, NEW m \in Metric, NEW streak
  PROVE  /\ \A f \in ToSet(SingleMetric(o, m, streak)) : f.metric = m /\ f.severity \in Severities
         /\ \A f, g \in ToSet(SingleMetric(o, m, streak)) : f = g
         /\ (\E f \in ToSet(SingleMetric(o, m, streak)) : f.severity = "High")
              <=> Sustained(o, streak)
<1> DEFINE high == FindingFor(o, m, "High", "sustained", streak)
           medium == FindingFor(o, m, "Medium", "observed", streak)
           list == SingleMetric(o, m, streak)
<1>1. /\ high.metric = m /\ high.severity = "High"
      /\ medium.metric = m /\ medium.severity = "Medium"
  BY DEF FindingFor
<1> HIDE DEF high, medium
<1>2. \A x : ToSet(<<x>>) = {x}
  BY DEF ToSet
<1>3. ToSet(<<>>) = {}
  BY DEF ToSet
<1>4. CASE Sustained(o, streak)
  <2>1. list = <<high>>
    BY <1>4 DEF SingleMetric, high
  <2> HIDE DEF list
  <2>2. ToSet(list) = {high}
    BY <1>2, <2>1
  <2> QED  BY <1>1, <1>4, <2>2 DEF Severities, list
<1>5. CASE ~Sustained(o, streak)
  <2>1. list = <<medium>> \/ list = <<>>
    BY <1>5 DEF SingleMetric, medium
  <2> HIDE DEF list
  <2>2. ToSet(list) = {medium} \/ ToSet(list) = {}
    BY <1>2, <1>3, <2>1
  <2> QED  BY <1>1, <1>5, <2>2 DEF Severities, list
<1> QED  BY <1>4, <1>5

\* The findings of a channel: one at most for a metric, and High for those
\* that are sustained unless corroborated pressure replaces them.
\* (analyzer.go:76-181)
LEMMA ChannelFindingsAre ==
  ASSUME NEW o \in NormalizedOptions, NEW s \in [Metric -> StreakInfo],
         NEW F, F = ToSet(ChannelFindings(o, s))
  PROVE  /\ \A f \in F : f.metric \in Metric /\ f.severity \in Severities
         /\ \A f, g \in F : f.metric = g.metric => f = g
         /\ \A m \in Metric :
              (\E f \in F : f.metric = m /\ f.severity = "High") <=>
                IF m = "corroborated" THEN Sustained(o, s["corroborated"])
                ELSE Sustained(o, s[m]) /\ ~Sustained(o, s["corroborated"])
<1> DEFINE both == FindingFor(o, "corroborated", "High", "corroborated", s["corroborated"])
           A == SingleMetric(o, "slot", s["slot"])
           B == SingleMetric(o, "liquidity", s["liquidity"])
<1>1. both.metric = "corroborated" /\ both.severity = "High"
  BY DEF FindingFor
<1>2. Metric = {"slot", "liquidity", "corroborated"} /\ "High" \in Severities
  BY DEF Metric, Severities
<1> HIDE DEF both
<1>3. CASE Sustained(o, s["corroborated"])
  <2>1. F = ToSet(<<both>>)
    BY <1>3 DEF ChannelFindings, both
  <2>2. F = {both}
    BY <2>1 DEF ToSet
  <2> QED  BY <1>1, <1>2, <1>3, <2>2
<1>4. CASE ~Sustained(o, s["corroborated"])
  <2>1. F = ToSet(A \o B)
    BY <1>4 DEF ChannelFindings
  <2>2. A \in Seq(Finding) /\ B \in Seq(Finding)
    <3>1. /\ FindingFor(o, "slot", "High", "sustained", s["slot"]) \in Finding
          /\ FindingFor(o, "slot", "Medium", "observed", s["slot"]) \in Finding
          /\ FindingFor(o, "liquidity", "High", "sustained", s["liquidity"]) \in Finding
          /\ FindingFor(o, "liquidity", "Medium", "observed", s["liquidity"]) \in Finding
      BY <1>2, FindingTyped DEF Severities, Confidences
    <3> QED  BY <3>1 DEF SingleMetric
  <2>3. ToSet(A \o B) = ToSet(A) \cup ToSet(B)
    <3> HIDE DEF A, B
    <3>1. /\ Len(A) \in Nat /\ Len(B) \in Nat /\ DOMAIN A = 1..Len(A) /\ DOMAIN B = 1..Len(B)
          /\ DOMAIN (A \o B) = 1..(Len(A) + Len(B))
          /\ \A i \in 1..Len(A) : (A \o B)[i] = A[i]
          /\ \A i \in 1..Len(B) : (A \o B)[Len(A) + i] = B[i]
      BY <2>2
    <3>2. ASSUME NEW x \in ToSet(A \o B) PROVE x \in ToSet(A) \cup ToSet(B)
      <4>1. PICK i \in 1..(Len(A) + Len(B)) : (A \o B)[i] = x
        BY <3>1 DEF ToSet
      <4>2. CASE i \in 1..Len(A)
        BY <3>1, <4>1, <4>2 DEF ToSet
      <4>3. CASE i \notin 1..Len(A)
        <5>1. i - Len(A) \in 1..Len(B) /\ Len(A) + (i - Len(A)) = i
          BY <3>1, <4>3
        <5> QED  BY <3>1, <4>1, <5>1 DEF ToSet
      <4> QED  BY <4>2, <4>3
    <3>3. ASSUME NEW x \in ToSet(A) PROVE x \in ToSet(A \o B)
      <4>1. PICK i \in 1..Len(A) : A[i] = x
        BY <3>1 DEF ToSet
      <4>2. i \in 1..(Len(A) + Len(B))
        BY <3>1
      <4> QED  BY <3>1, <4>1, <4>2 DEF ToSet
    <3>4. ASSUME NEW x \in ToSet(B) PROVE x \in ToSet(A \o B)
      <4>1. PICK i \in 1..Len(B) : B[i] = x
        BY <3>1 DEF ToSet
      <4>2. Len(A) + i \in 1..(Len(A) + Len(B))
        BY <3>1
      <4> QED  BY <3>1, <4>1, <4>2 DEF ToSet
    <3> QED  BY <3>2, <3>3, <3>4
  <2>4. /\ \A f \in ToSet(A) : f.metric = "slot" /\ f.severity \in Severities
        /\ \A f, g \in ToSet(A) : f = g
        /\ (\E f \in ToSet(A) : f.severity = "High") <=> Sustained(o, s["slot"])
    BY <1>2, SingleMetricIs
  <2>5. /\ \A f \in ToSet(B) : f.metric = "liquidity" /\ f.severity \in Severities
        /\ \A f, g \in ToSet(B) : f = g
        /\ (\E f \in ToSet(B) : f.severity = "High") <=> Sustained(o, s["liquidity"])
    BY <1>2, SingleMetricIs
  <2> HIDE DEF A, B
  <2>6. F = ToSet(A) \cup ToSet(B)
    BY <2>1, <2>3
  <2>7. \A f \in F : f.metric \in Metric /\ f.severity \in Severities
    BY <1>2, <2>4, <2>5, <2>6
  <2>8. \A f, g \in F : f.metric = g.metric => f = g
    BY <2>4, <2>5, <2>6
  <2>9. ASSUME NEW m \in Metric
        PROVE  (\E f \in F : f.metric = m /\ f.severity = "High") <=>
                 IF m = "corroborated" THEN Sustained(o, s["corroborated"])
                 ELSE Sustained(o, s[m]) /\ ~Sustained(o, s["corroborated"])
    <3>1. CASE m = "slot"
      BY <1>4, <2>4, <2>5, <2>6, <3>1
    <3>2. CASE m = "liquidity"
      BY <1>4, <2>4, <2>5, <2>6, <3>2
    <3>3. CASE m = "corroborated"
      BY <1>4, <2>4, <2>5, <2>6, <3>3
    <3> QED  BY <1>2, <3>1, <3>2, <3>3
  <2> QED  BY <2>7, <2>8, <2>9
<1> QED  BY <1>3, <1>4

\* What Analyze finds in deduplicated snapshots, before it is sorted.
FoundIn(d, o) ==
  UNION {{Located(f, c, SampleCount(d)) :
            f \in ToSet(ChannelFindings(o, StreaksOf(Series(d, c), o)))} : c \in ChannelIDs(d)}

\* High is reported about the metric of the channel.
IsHigh(d, c, o, m) ==
  LET sustained(k) == Window(d, c, o, k, o.MinSustainedSamples)
  IN  sustained(m) /\ (m # "corroborated" => ~sustained("corroborated"))

\* The members of a sequence are finitely many, and so are images of them.
LEMMA ImageFinite ==
  ASSUME NEW f, IsFiniteSet(DOMAIN f)
  PROVE  IsFiniteSet({f[x] : x \in DOMAIN f})
<1> DEFINE g == [x \in DOMAIN f |-> f[x]]
           D == DOMAIN f
           T == {f[x] : x \in D}
<1>2. g \in Surjection(D, T)
  BY DEF Surjection
<1> HIDE DEF g, D, T
<1>3. IsFiniteSet(D)
  BY DEF D
<1>4. IsFiniteSet(T)
  BY <1>2, <1>3, FS_Surjection
<1> QED  BY <1>4 DEF T, D

\* The channels of the snapshots are finitely many numbers.
LEMMA ChannelsFinite ==
  ASSUME NEW d \in Seq(Snapshot)
  PROVE  IsFiniteSet(ChannelIDs(d)) /\ ChannelIDs(d) \subseteq Nat
<1> DEFINE ids(s) == {s.Channels[i].ChanID : i \in DOMAIN s.Channels}
           f == [k \in DOMAIN d |-> ids(d[k])]
<1>1. /\ Len(d) \in Nat /\ DOMAIN d = 1..Len(d) /\ \A k \in 1..Len(d) : d[k] \in Snapshot
  OBVIOUS
<1>2. \A s \in Snapshot : IsFiniteSet(ids(s)) /\ ids(s) \subseteq Nat
  <2> SUFFICES ASSUME NEW s \in Snapshot PROVE IsFiniteSet(ids(s)) /\ ids(s) \subseteq Nat
    OBVIOUS
  <2> DEFINE list == s.Channels
             g == [i \in DOMAIN list |-> list[i].ChanID]
  <2>1. list \in Seq(ChannelSample)
    BY DEF Snapshot
  <2> HIDE DEF list
  <2>2. /\ Len(list) \in Nat /\ DOMAIN list = 1..Len(list)
        /\ \A i \in 1..Len(list) : list[i] \in ChannelSample
    BY <2>1
  <2>3. IsFiniteSet(1..Len(list))
    BY <2>2, FS_Interval
  <2>4. IsFiniteSet({g[i] : i \in DOMAIN g})
    BY <2>2, <2>3, ImageFinite
  <2>5. \A i \in 1..Len(list) : list[i].ChanID \in Nat
    BY <2>2 DEF ChannelSample
  <2>6. ids(s) = {g[i] : i \in DOMAIN g}
    BY DEF list
  <2>7. \A i \in DOMAIN g : g[i] \in Nat
    BY <2>2, <2>5
  <2> HIDE DEF g, ids
  <2> QED  BY <2>4, <2>6, <2>7
<1>3. IsFiniteSet(1..Len(d))
  BY <1>1, FS_Interval
<1>4. IsFiniteSet({f[k] : k \in DOMAIN f})
  <2> HIDE DEF ids
  <2> QED  BY <1>1, <1>3, ImageFinite
<1>5. ChannelIDs(d) = UNION {f[k] : k \in DOMAIN f}
  BY DEF ChannelIDs, ToSet
<1>6. \A T \in {f[k] : k \in DOMAIN f} : IsFiniteSet(T) /\ T \subseteq Nat
  <2> HIDE DEF ids
  <2> QED  BY <1>1, <1>2
<1> DEFINE all == {f[k] : k \in DOMAIN f}
<1> HIDE DEF all
<1>7. IsFiniteSet(UNION all) /\ UNION all \subseteq Nat
  <2>1. IsFiniteSet(all) /\ \A T \in all : IsFiniteSet(T) /\ T \subseteq Nat
    BY <1>4, <1>6 DEF all
  <2> QED  BY <2>1, FS_UNION
<1> QED  BY <1>5, <1>7 DEF all

\* A channel with a window is one of the snapshots.
LEMMA WindowHasChannel ==
  ASSUME NEW d \in Seq(Snapshot), NEW c, NEW o, NEW m, NEW n, Window(d, c, o, m, n)
  PROVE  c \in ChannelIDs(d)
<1>1. PICK a \in 1..Len(d), b \in 1..Len(d) : a <= b /\ \A k \in a..b : ElevatedIn(d[k], c, o, m)
  BY DEF Window
<1>2. ElevatedIn(d[a], c, o, m) /\ a \in DOMAIN d
  BY <1>1
<1>3. PICK i \in DOMAIN d[a].Channels : d[a].Channels[i].ChanID = c
  BY <1>2 DEF ElevatedIn
<1>4. d[a] \in ToSet(d)
  BY <1>2 DEF ToSet
<1> QED  BY <1>3, <1>4 DEF ChannelIDs

\* What is found: one finding at most for a channel and metric, and High for
\* the windows.
LEMMA FoundIs ==
  ASSUME NEW d \in Seq(Snapshot), NEW o \in NormalizedOptions, NEW F, F = FoundIn(d, o)
  PROVE  /\ IsFiniteSet(F)
         /\ \A f \in F : f.metric \in Metric /\ f.severity \in Severities /\ f.channel \in Nat
         /\ \A f, g \in F : f.channel = g.channel /\ f.metric = g.metric => f = g
         /\ \A c, m : m \in Metric =>
              ((\E f \in F : f.channel = c /\ f.metric = m /\ f.severity = "High")
                 <=> IsHigh(d, c, o, m))
<1> DEFINE n == SampleCount(d)
           C == ChannelIDs(d)
           L(c) == ToSet(ChannelFindings(o, StreaksOf(Series(d, c), o)))
           S(c) == {Located(f, c, n) : f \in L(c)}
<1>1. F = UNION {S(c) : c \in C}
  BY DEF FoundIn
<1>2. \A c : StreaksOf(Series(d, c), o) \in [Metric -> StreakInfo]
  <2> SUFFICES ASSUME NEW c PROVE StreaksOf(Series(d, c), o) \in [Metric -> StreakInfo]
    OBVIOUS
  <2>1. \A m \in Metric : evaluateStreak(Series(d, c), o, m) \in StreakInfo
    BY SeriesIs, StreakIs
  <2> QED  BY <2>1 DEF StreaksOf
<1>3. \A c : \A m \in Metric : Sustained(o, StreaksOf(Series(d, c), o)[m])
                                 <=> Window(d, c, o, m, o.MinSustainedSamples)
  BY StreakIsOfWindow DEF StreaksOf
<1>4. \A c : /\ \A f \in L(c) : f.metric \in Metric /\ f.severity \in Severities
             /\ \A f, g \in L(c) : f.metric = g.metric => f = g
  BY <1>2, ChannelFindingsAre
<1>5. \A c : \A m \in Metric :
        (\E f \in L(c) : f.metric = m /\ f.severity = "High") <=> IsHigh(d, c, o, m)
  <2> SUFFICES ASSUME NEW c, NEW m \in Metric
               PROVE (\E f \in L(c) : f.metric = m /\ f.severity = "High") <=> IsHigh(d, c, o, m)
    OBVIOUS
  <2> DEFINE s == StreaksOf(Series(d, c), o)
             W(k) == Window(d, c, o, k, o.MinSustainedSamples)
  <2>1. (\E f \in L(c) : f.metric = m /\ f.severity = "High") <=>
                IF m = "corroborated" THEN Sustained(o, s["corroborated"])
                ELSE Sustained(o, s[m]) /\ ~Sustained(o, s["corroborated"])
    BY <1>2, ChannelFindingsAre
  <2>2. /\ Sustained(o, s["corroborated"]) <=> W("corroborated")
        /\ Sustained(o, s[m]) <=> W(m)
    BY <1>3 DEF Metric
  <2>3. IsHigh(d, c, o, m) <=> W(m) /\ (m # "corroborated" => ~W("corroborated"))
    BY DEF IsHigh
  <2> HIDE DEF s, W, L
  <2> QED  BY <2>1, <2>2, <2>3
<1>6. \A c : IsFiniteSet(L(c))
  <2> SUFFICES ASSUME NEW c PROVE IsFiniteSet(L(c))
    OBVIOUS
  <2> DEFINE list == ChannelFindings(o, StreaksOf(Series(d, c), o))
  <2>1. list \in Seq(Finding)
    BY <1>2, FindingsTyped
  <2> HIDE DEF list
  <2>2. Len(list) \in Nat /\ DOMAIN list = 1..Len(list)
    BY <2>1
  <2>3. IsFiniteSet(1..Len(list))
    BY <2>2, FS_Interval
  <2>4. IsFiniteSet({list[i] : i \in DOMAIN list})
    BY <2>2, <2>3, ImageFinite
  <2> QED  BY <2>4 DEF ToSet, list
<1> HIDE DEF L
<1>7. \A c : IsFiniteSet(S(c))
  <2> SUFFICES ASSUME NEW c PROVE IsFiniteSet(S(c))
    OBVIOUS
  <2> DEFINE g == [f \in L(c) |-> Located(f, c, n)]
  <2>1. IsFiniteSet({g[f] : f \in DOMAIN g})
    BY <1>6, ImageFinite
  <2>2. S(c) = {g[f] : f \in DOMAIN g}
    OBVIOUS
  <2> QED  BY <2>1, <2>2
<1>8. IsFiniteSet(F)
  <2> DEFINE h == [c \in C |-> S(c)]
             all == {h[c] : c \in DOMAIN h}
  <2>1. IsFiniteSet(C)
    BY ChannelsFinite
  <2> HIDE DEF S, C
  <2>2. IsFiniteSet(all)
    BY <2>1, ImageFinite
  <2>3. \A T \in all : IsFiniteSet(T)
    BY <1>7
  <2>4. F = UNION all
    BY <1>1
  <2> HIDE DEF all
  <2> QED  BY <2>2, <2>3, <2>4, FS_UNION
<1>9. \A x : x \in F <=> \E c \in C : \E f \in L(c) : x = Located(f, c, n)
  BY <1>1
<1>10. \A f, c : /\ Located(f, c, n).metric = f.metric
                 /\ Located(f, c, n).severity = f.severity
                 /\ Located(f, c, n).channel = c
  BY DEF Located
<1>11. C \subseteq Nat
  BY ChannelsFinite
<1> HIDE DEF C, n
<1>12. \A f \in F : f.metric \in Metric /\ f.severity \in Severities /\ f.channel \in Nat
  BY <1>4, <1>9, <1>10, <1>11
<1>13. ASSUME NEW f \in F, NEW g \in F, f.channel = g.channel, f.metric = g.metric
       PROVE  f = g
  <2>1. PICK c \in C : \E u \in L(c) : f = Located(u, c, n)
    BY <1>9
  <2>11. PICK u \in L(c) : f = Located(u, c, n)
    BY <2>1
  <2>2. PICK e \in C : \E v \in L(e) : g = Located(v, e, n)
    BY <1>9
  <2>21. PICK v \in L(e) : g = Located(v, e, n)
    BY <2>2
  <2>3. c = e /\ u.metric = v.metric
    BY <1>10, <1>13, <2>11, <2>21
  <2>4. u = v
    BY <1>4, <2>3
  <2> QED  BY <2>11, <2>21, <2>3, <2>4
<1>14. ASSUME NEW c, NEW m \in Metric
       PROVE  (\E f \in F : f.channel = c /\ f.metric = m /\ f.severity = "High")
                <=> IsHigh(d, c, o, m)
  <2>1. ASSUME NEW f \in F, f.channel = c, f.metric = m, f.severity = "High"
        PROVE  IsHigh(d, c, o, m)
    <3>1. PICK e \in C : \E u \in L(e) : f = Located(u, e, n)
      BY <1>9
    <3>11. PICK u \in L(e) : f = Located(u, e, n)
      BY <3>1
    <3>2. e = c /\ u \in L(c) /\ u.metric = m /\ u.severity = "High"
      BY <1>10, <2>1, <3>11
    <3> QED  BY <1>5, <3>2
  <2>2. ASSUME IsHigh(d, c, o, m)
        PROVE  \E f \in F : f.channel = c /\ f.metric = m /\ f.severity = "High"
    <3>1. c \in C
      BY <2>2, WindowHasChannel DEF IsHigh, C
    <3>2. PICK u \in L(c) : u.metric = m /\ u.severity = "High"
      BY <1>5, <2>2
    <3>3. Located(u, c, n) \in F
      BY <1>9, <3>1
    <3> QED  BY <1>10, <3>2, <3>3
  <2> QED  BY <2>1, <2>2
<1> QED  BY <1>8, <1>12, <1>13, <1>14

\* Among findings that differ in the channel or the metric, Before is an order.
\* (analyzer.go:183-194)
LEMMA BeforeOrders ==
  ASSUME NEW F,
         \A f \in F : f.metric \in Metric /\ f.severity \in Severities /\ f.channel \in Nat,
         \A f, g \in F : f.channel = g.channel /\ f.metric = g.metric => f = g
  PROVE  IsOrder([g \in F |-> {f \in F : Before(f, g)}], F)
<1> DEFINE R == [g \in F |-> {f \in F : Before(f, g)}]
           rank == [s \in Severities |-> Rank[s]]
           class == [m \in Metric |-> ClassRank[m]]
           V(f) == rank[f.severity]
           M(f) == class[f.metric]
           C(f) == f.channel
           before(f, g) == \/ V(f) > V(g)
                           \/ V(f) = V(g) /\ M(f) < M(g)
                           \/ V(f) = V(g) /\ M(f) = M(g) /\ C(f) < C(g)
<1>1. /\ \A s \in Severities : rank[s] \in Nat
      /\ \A s, t \in Severities : rank[s] = rank[t] <=> s = t
  BY DEF Severities, Rank
<1>2. /\ \A m \in Metric : class[m] \in Nat
      /\ \A m, k \in Metric : class[m] = class[k] <=> m = k
  BY DEF Metric, ClassRank
<1>3. \A f, g \in F : Before(f, g) <=> before(f, g)
  <2> SUFFICES ASSUME NEW f \in F, NEW g \in F PROVE Before(f, g) <=> before(f, g)
    OBVIOUS
  <2>1. V(f) = Rank[f.severity] /\ V(g) = Rank[g.severity]
    OBVIOUS
  <2>2. M(f) = ClassRank[f.metric] /\ M(g) = ClassRank[g.metric]
    OBVIOUS
  <2>3. (V(f) = V(g) <=> f.severity = g.severity) /\ (M(f) = M(g) <=> f.metric = g.metric)
    <3> HIDE DEF rank, class
    <3> QED  BY <1>1, <1>2
  <2> HIDE DEF V, M
  <2> QED  BY <2>1, <2>2, <2>3 DEF Before
<1>4. \A f, g \in F : f \in R[g] <=> before(f, g)
  <2> HIDE DEF before
  <2> QED  BY <1>3
<1>5. \A f \in F : V(f) \in Nat /\ M(f) \in Nat /\ C(f) \in Nat
  <2> HIDE DEF rank, class
  <2> QED  BY <1>1, <1>2
<1>6. \A f, g \in F : M(f) = M(g) /\ C(f) = C(g) => f = g
  <2> HIDE DEF class
  <2> QED  BY <1>2
<1> HIDE DEF V, M, C, R
<1>7. \A f \in F : ~before(f, f)
  BY <1>5
<1>8. \A f, g, h \in F : before(f, g) /\ before(g, h) => before(f, h)
  BY <1>5
<1>9. \A f, g \in F : f = g \/ before(f, g) \/ before(g, f)
  BY <1>5, <1>6
<1> HIDE DEF before
<1>10. IsOrder(R, F)
  BY <1>4, <1>7, <1>8, <1>9 DEF IsOrder
<1> QED  BY <1>10 DEF R

\* Analyze reports what is found, each finding once.  (analyzer.go:25-197)
LEMMA AnalyzeIs ==
  ASSUME NEW s \in Seq(Snapshot), NEW raw \in RawOptions,
         NEW F, F = FoundIn(Deduped(s), normalizeOptions(raw))
  PROVE  Analyze(s, raw) \in Seq(F) /\ ToSet(Analyze(s, raw)) = F
<1> DEFINE R == [g \in F |-> {f \in F : Before(f, g)}]
           n == Cardinality(F)
           place(k) == CHOOSE x \in F : Cardinality({y \in F : Before(y, x)}) = k - 1
           q == [k \in 1..n |-> place(k)]
<1>1. Deduped(s) \in Seq(Snapshot)
  BY DedupedIs DEF IsDeduped
<1>2. normalizeOptions(raw) \in NormalizedOptions
  BY NormalizeTyped
<1>3. IsFiniteSet(F) /\ IsOrder(R, F)
  <2>1. /\ IsFiniteSet(F)
        /\ \A f \in F : f.metric \in Metric /\ f.severity \in Severities /\ f.channel \in Nat
        /\ \A f, g \in F : f.channel = g.channel /\ f.metric = g.metric => f = g
    BY <1>1, <1>2, FoundIs
  <2> QED  BY <2>1, BeforeOrders
<1>4. Analyze(s, raw) = Sorted(F, Before)
  BY DEF Analyze, FoundIn
<1>5. Sorted(F, Before) = q
  BY DEF Sorted
<1>6. \A x \in F : Cardinality({y \in F : Before(y, x)}) = Rankings(R, F, x)
  <2> SUFFICES ASSUME NEW x \in F PROVE {y \in F : Before(y, x)} = {y \in F : y \in R[x]}
    BY DEF Rankings
  <2> QED  OBVIOUS
<1> HIDE DEF R
<1>7. \A k \in 1..n : place(k) \in F /\ Rankings(R, F, place(k)) = k - 1
  <2> SUFFICES ASSUME NEW k \in 1..n PROVE place(k) \in F /\ Rankings(R, F, place(k)) = k - 1
    OBVIOUS
  <2>1. \E x \in F : Rankings(R, F, x) = k - 1
    BY <1>3, EveryPlaceTaken
  <2>2. \E x \in F : Cardinality({y \in F : Before(y, x)}) = k - 1
    BY <1>6, <2>1
  <2>3. place(k) \in F /\ Cardinality({y \in F : Before(y, place(k))}) = k - 1
    BY <2>2
  <2> HIDE DEF place
  <2> QED  BY <1>6, <2>3
<1> HIDE DEF place
<1>8. q \in [1..n -> F] /\ \A k \in 1..n : Rankings(R, F, q[k]) = k - 1
  <2> HIDE DEF n
  <2> QED  BY <1>7
<1> HIDE DEF q
<1>9. q \in Seq(F) /\ ToSet(q) = F
  BY <1>3, <1>8, SortedIs
<1> QED  BY <1>4, <1>5, <1>9

\* High is reported exactly for the windows of the deduplicated snapshots.
LEMMA ReportsIs ==
  ASSUME NEW s \in Seq(Snapshot), NEW raw \in RawOptions, NEW c, NEW m \in Metric
  PROVE  Reports(Analyze(s, raw), c, m, "High")
           <=> IsHigh(Deduped(s), c, normalizeOptions(raw), m)
<1> DEFINE list == Analyze(s, raw)
           F == FoundIn(Deduped(s), normalizeOptions(raw))
<1>1. Deduped(s) \in Seq(Snapshot) /\ normalizeOptions(raw) \in NormalizedOptions
  BY DedupedIs, NormalizeTyped DEF IsDeduped
<1>2. ToSet(list) = F
  BY AnalyzeIs
<1>3. (\E f \in F : f.channel = c /\ f.metric = m /\ f.severity = "High")
        <=> IsHigh(Deduped(s), c, normalizeOptions(raw), m)
  BY <1>1, FoundIs
<1>4. Reports(list, c, m, "High")
        <=> \E f \in ToSet(list) : f.channel = c /\ f.metric = m /\ f.severity = "High"
  BY DEF Reports, ToSet
<1> QED  BY <1>2, <1>3, <1>4

-----------------------------------------------------------------------------
(* The command *)

\* Nothing is found in an empty timeline.
LEMMA AnalyzeOfNothing ==
  ASSUME NEW raw \in RawOptions
  PROVE  Analyze(<<>>, raw) = <<>>
<1> DEFINE d == Deduped(<<>>)
           o == normalizeOptions(raw)
<1>1. <<>> \in Seq(Snapshot)
  OBVIOUS
<1>2. IsDeduped(<<>>, d)
  BY <1>1, DedupedIs
<1> HIDE DEF d
<1>3. Firsts(<<>>) = {}
  BY DEF Firsts
<1>4. d = <<>>
  BY <1>2, <1>3 DEF IsDeduped
<1>5. ChannelIDs(<<>>) = {}
  BY DEF ChannelIDs, ToSet
<1>6. FoundIn(d, o) = {}
  BY <1>4, <1>5 DEF FoundIn
<1>7. Analyze(<<>>, raw) \in Seq({})
  BY <1>1, <1>6, AnalyzeIs DEF d, o
<1> HIDE DEF o
<1> QED  BY <1>7

\* The severity of what is found.
LEMMA ReportTyped ==
  ASSUME NEW s \in Seq(Snapshot), NEW raw \in RawOptions
  PROVE  \E F : /\ Analyze(s, raw) \in Seq(F) /\ ToSet(Analyze(s, raw)) = F
                /\ \A f \in F : f.severity \in Severities
<1> DEFINE d == Deduped(s)
           F == FoundIn(d, normalizeOptions(raw))
<1>1. d \in Seq(Snapshot) /\ normalizeOptions(raw) \in NormalizedOptions
  BY DedupedIs, NormalizeTyped DEF IsDeduped
<1>2. \A f \in F : f.severity \in Severities
  BY <1>1, FoundIs
<1>3. Analyze(s, raw) \in Seq(F) /\ ToSet(Analyze(s, raw)) = F
  BY AnalyzeIs
<1> QED  BY <1>2, <1>3

\* Only findings without points leave the score at 100.  (scanner.go:126-135)
LEMMA FullScore ==
  ASSUME NEW F, \A f \in F : f.severity \in Severity, NEW list \in Seq(F), Score(list) = 100
  PROVE  \A f \in ToSet(list) : f.severity = "Info"
<1> DEFINE D == DOMAIN list
           deduction == [i \in D |-> Points[list[i].severity]]
<1>1. D = 1..Len(list) /\ Len(list) \in Nat /\ \A i \in D : list[i] \in F
  OBVIOUS
<1>2. \A v \in Severity : Points[v] \in Nat /\ (Points[v] = 0 => v = "Info")
  BY DEF Severity, Points
<1>3. deduction \in [D -> Nat]
  BY <1>1, <1>2
<1>4. IsFiniteSet(D)
  BY <1>1, FS_Interval
<1>5. SumFunction(deduction) \in Nat /\ \A i \in D : deduction[i] <= SumFunction(deduction)
  <2> HIDE DEF D, deduction
  <2> QED  BY <1>3, <1>4, SumType, SumCovers
<1>6. SumFunction(deduction) = 0
  <2>1. LET rest == 100 - SumFunction(deduction) IN (IF rest < 0 THEN 0 ELSE rest) = 100
    BY DEF Score
  <2> HIDE DEF deduction
  <2> QED  BY <1>5, <2>1
<1>7. ASSUME NEW i \in D PROVE list[i].severity = "Info"
  <2>1. deduction[i] \in Nat /\ deduction[i] <= 0
    BY <1>3, <1>5, <1>6, <1>7
  <2>2. deduction[i] = Points[list[i].severity]
    BY <1>7
  <2>3. list[i].severity \in Severity
    BY <1>1, <1>7
  <2> HIDE DEF deduction, D
  <2> QED  BY <1>2, <2>1, <2>2, <2>3
<1> QED  BY <1>7 DEF ToSet

\* An empty report has the full score.
LEMMA ScoreOfNothing == Score(<<>>) = 100
<1> DEFINE deduction == [i \in DOMAIN <<>> |-> Points[<<>>[i].severity]]
<1>1. DOMAIN deduction = {}
  OBVIOUS
<1>2. Score(<<>>) = LET rest == 100 - SumFunction(deduction) IN IF rest < 0 THEN 0 ELSE rest
  BY DEF Score
<1> HIDE DEF deduction
<1>3. SumFunction(deduction) = 0
  BY <1>1, SumOfNone
<1> QED  BY <1>2, <1>3

\* The invariant holds before the first run.
LEMMA TimelineBegins == TimelineInit => TimelineInv
<1> SUFFICES ASSUME TimelineInit PROVE TimelineInv
  OBVIOUS
<1>1. /\ timeline = <<>> /\ report = <<>> /\ displayed = <<>> /\ score = 100 /\ exit = 0
      /\ flags \in Flags
  BY TimelineAssumption DEF TimelineInit
<1>2. flags.opts \in RawOptions
  BY <1>1 DEF Flags
<1>3. report = Analyze(timeline, flags.opts)
  BY <1>1, <1>2, AnalyzeOfNothing
<1>4. displayed = AtLeast(report, flags.minSeverity)
  BY <1>1, WithinEmpty DEF AtLeast
<1>5. score = Score(report)
  BY <1>1, ScoreOfNothing
<1>6. ~HasFindingsAtOrAbove(report, flags.failOn)
  BY <1>1 DEF HasFindingsAtOrAbove
<1>7. timeline \in Seq(Snapshot)
  BY <1>1
<1> QED  BY <1>1, <1>3, <1>4, <1>5, <1>6, <1>7 DEF TimelineInv

\* What a step appends is a snapshot.
LEMMA StepAppends ==
  ASSUME TimelineInv, TimelineNext
  PROVE  \E new \in Snapshot : /\ timeline' = Append(timeline, new)
                               /\ runJammingAnalyze(timeline')
                               /\ UNCHANGED flags
<1>1. PICK time \in 1..MaxTime, channels \in ChannelLists : RecordAndAnalyze(time, channels)
  BY DEF TimelineNext
<1> DEFINE new == [Timestamp |-> time, Channels |-> channels]
<1>2. new \in Snapshot
  BY TimelineAssumption DEF Snapshot
<1>3. /\ timeline' = Append(timeline, new) /\ runJammingAnalyze(Append(timeline, new))
      /\ UNCHANGED flags
  BY <1>1 DEF RecordAndAnalyze
<1> QED  BY <1>2, <1>3

\* A run keeps it.
LEMMA TimelineKept == TimelineInv /\ [TimelineNext]_timelineVars => TimelineInv'
<1> SUFFICES ASSUME TimelineInv, [TimelineNext]_timelineVars PROVE TimelineInv'
  OBVIOUS
<1>1. CASE TimelineNext
  <2>1. PICK new \in Snapshot : /\ timeline' = Append(timeline, new)
                                /\ runJammingAnalyze(timeline')
                                /\ UNCHANGED flags
    BY <1>1, StepAppends
  <2>2. timeline' \in Seq(Snapshot)
    BY <2>1 DEF TimelineInv
  <2>3. flags' = flags /\ flags \in Flags
    BY <2>1 DEF TimelineInv
  <2> QED  BY <2>1, <2>2, <2>3 DEF TimelineInv, runJammingAnalyze
<1>2. CASE UNCHANGED timelineVars
  BY <1>2 DEF TimelineInv, timelineVars
<1> QED  BY <1>1, <1>2

-----------------------------------------------------------------------------
(* Theorems *)

\* What the last run printed follows from the file.
THEOREM TimelineInvariance == TimelineSpec => []TimelineInv
BY TimelineBegins, TimelineKept, PTL DEF TimelineSpec

\* High is reported exactly for the windows of the file.  (analyzer.go:25-260)
LEMMA HighsFollow == TimelineInv => HighsAreWindowsOfTheFile
<1> SUFFICES ASSUME TimelineInv, NEW c, NEW m \in Metric
             PROVE  Reports(report, c, m, "High")
                      <=> SustainedOnFile(c, m)
                            /\ (m # "corroborated" => ~SustainedOnFile(c, "corroborated"))
  <2>1. "corroborated" \in Metric /\ {"slot", "liquidity"} \subseteq Metric
    BY DEF Metric
  <2>2. \A m \in {"slot", "liquidity"} : m # "corroborated"
    OBVIOUS
  <2> DEFINE H(x, m) == Reports(report, x, m, "High")
             W(x, m) == SustainedOnFile(x, m)
  <2>3. ASSUME \A x : \A m \in Metric :
                 H(x, m) <=> W(x, m) /\ (m # "corroborated" => ~W(x, "corroborated"))
        PROVE  \A x \in ChannelIDs(timeline) :
                 /\ H(x, "corroborated") <=> W(x, "corroborated")
                 /\ \A m \in {"slot", "liquidity"} : H(x, m) <=> (W(x, m) /\ ~W(x, "corroborated"))
    <3> HIDE DEF H, W
    <3> QED  BY <2>1, <2>2, <2>3
  <2> QED  BY <2>3 DEF HighsAreWindowsOfTheFile
<1> DEFINE o == normalizeOptions(flags.opts)
           d == Deduped(timeline)
           W(k) == Window(d, c, o, k, o.MinSustainedSamples)
<1>1. timeline \in Seq(Snapshot) /\ flags.opts \in RawOptions /\ report = Analyze(timeline, flags.opts)
  BY DEF TimelineInv, Flags
<1>2. Reports(report, c, m, "High") <=> IsHigh(d, c, o, m)
  BY <1>1, ReportsIs
<1>3. o.MinSustainedSamples \in Nat \ {0}
  <2>1. o \in NormalizedOptions
    BY <1>1, NormalizeTyped
  <2> HIDE DEF o
  <2> QED  BY <2>1 DEF NormalizedOptions
<1>4. \A k : SustainedOnFile(c, k) <=> W(k)
  <2> SUFFICES ASSUME NEW k PROVE SustainedOnFile(c, k) <=> W(k)
    OBVIOUS
  <2>1. ElevatedWindow(c, o, k, o.MinSustainedSamples) <=> W(k)
    BY <1>1, <1>3, FileWindow
  <2> QED  BY <2>1 DEF SustainedOnFile
<1>5. IsHigh(d, c, o, m) <=> W(m) /\ (m # "corroborated" => ~W("corroborated"))
  BY DEF IsHigh
<1> HIDE DEF d, o, W
<1> QED  BY <1>2, <1>4, <1>5

\* A channel is reported High exactly if it is elevated at enough timestamps of
\* the file in a row, however the file is ordered.  (analyzer.go:25-260)
THEOREM HighsSound == TimelineSpec => []HighsAreWindowsOfTheFile
BY TimelineInvariance, HighsFollow, PTL

\* The gate and the score follow the report, not its display.
LEMMA GateFollows == TimelineInv => GateIgnoresDisplay
<1> SUFFICES ASSUME TimelineInv PROVE GateIgnoresDisplay
  OBVIOUS
<1>1. /\ timeline \in Seq(Snapshot) /\ flags.opts \in RawOptions
      /\ report = Analyze(timeline, flags.opts)
      /\ displayed = AtLeast(report, flags.minSeverity)
      /\ score = Score(report)
      /\ exit = IF HasFindingsAtOrAbove(report, flags.failOn) THEN 1 ELSE 0
  BY DEF TimelineInv, Flags
<1>2. PICK F : report \in Seq(F) /\ ToSet(report) = F /\ \A f \in F : f.severity \in Severities
  BY <1>1, ReportTyped
<1>3. (exit = 1) <=> \E f \in ToSet(report) : AtOrAbove(f.severity, flags.failOn)
  BY <1>1 DEF HasFindingsAtOrAbove, ToSet
<1>4. score = 100 => \A f \in ToSet(report) : f.severity = "Info"
  <2>1. \A f \in F : f.severity \in Severity
    BY <1>2 DEF Severities, Severity
  <2>2. report \in Seq(F) /\ score = Score(report)
    BY <1>1, <1>2
  <2> SUFFICES ASSUME Score(report) = 100 PROVE \A f \in ToSet(report) : f.severity = "Info"
    BY <2>2
  <2> QED  BY <2>1, <2>2, FullScore
<1>5. \A f \in ToSet(report) : AtOrAbove(f.severity, flags.minSeverity) <=> f \in ToSet(displayed)
  <2>1. ToSet(displayed) = ToSet(report) \cap {f \in ToSet(report) : AtOrAbove(f.severity, flags.minSeverity)}
    BY <1>1, <1>2, WithinMembers DEF AtLeast
  <2> QED  BY <2>1
<1> QED  BY <1>3, <1>4, <1>5 DEF GateIgnoresDisplay

\* The exit code says whether something of the severity asked for is in the
\* whole timeline, and a display filter does not raise the score.
\* (cmd/jamming.go:83-126)
THEOREM GateSound == TimelineSpec => []GateIgnoresDisplay
BY TimelineInvariance, GateFollows, PTL

\* The order of the file does not change the report.
LEMMA OrderFollows == TimelineInv => OrderOfFileIsIrrelevant
<1> SUFFICES ASSUME TimelineInv, NEW i \in 1..(Len(timeline) - 1),
                    timeline[i].Timestamp # timeline[i + 1].Timestamp
             PROVE  Analyze(Exchanged(i), flags.opts) = report
  BY DEF OrderOfFileIsIrrelevant
<1>1. timeline \in Seq(Snapshot) /\ report = Analyze(timeline, flags.opts)
  BY DEF TimelineInv
<1>2. Deduped(Exchanged(i)) = Deduped(timeline)
  BY <1>1, ExchangeKeepsDeduped DEF Exchanged
<1> QED  BY <1>1, <1>2 DEF Analyze

\* The order in which overlapping runs finish does not change what is reported.
\* (analyzer.go:199-260)
THEOREM OrderIrrelevant == TimelineSpec => []OrderOfFileIsIrrelevant
BY TimelineInvariance, OrderFollows, PTL

\* A window stays one when a snapshot is put behind it.
LEMMA WindowLasts ==
  ASSUME NEW d \in Seq(Snapshot), NEW new \in Snapshot, NEW c, NEW o, NEW m, NEW n,
         Window(d, c, o, m, n)
  PROVE  Window(Append(d, new), c, o, m, n)
<1> DEFINE e == Append(d, new)
<1>1. PICK a \in 1..Len(d), b \in 1..Len(d) :
        a <= b /\ b - a + 1 >= n /\ \A k \in a..b : ElevatedIn(d[k], c, o, m)
  BY DEF Window
<1>2. /\ Len(d) \in Nat /\ Len(e) = Len(d) + 1 /\ \A k \in 1..Len(d) : e[k] = d[k]
  OBVIOUS
<1>3. a \in 1..Len(e) /\ b \in 1..Len(e) /\ \A k \in a..b : k \in 1..Len(d)
  BY <1>1, <1>2
<1> HIDE DEF e
<1>4. \A k \in a..b : ElevatedIn(e[k], c, o, m)
  BY <1>1, <1>2, <1>3
<1>5. Window(e, c, o, m, n)
  BY <1>1, <1>3, <1>4 DEF Window
<1> QED  BY <1>5 DEF e

\* So what was High stays High, about this metric or corroborated.
LEMMA HighLasts ==
  ASSUME NEW d \in Seq(Snapshot), NEW new \in Snapshot, NEW c, NEW o, NEW m, IsHigh(d, c, o, m)
  PROVE  LET e == Append(d, new) IN IsHigh(e, c, o, m) \/ IsHigh(e, c, o, "corroborated")
<1> DEFINE e == Append(d, new)
           W(k) == Window(e, c, o, k, o.MinSustainedSamples)
<1>1. W(m)
  BY WindowLasts DEF IsHigh
<1>2. \A k : IsHigh(e, c, o, k) <=> W(k) /\ (k # "corroborated" => ~W("corroborated"))
  BY DEF IsHigh
<1> HIDE DEF W, e
<1>3. IsHigh(e, c, o, m) \/ IsHigh(e, c, o, "corroborated")
  BY <1>1, <1>2
<1> QED  BY <1>3 DEF e

\* A run on a longer file clears nothing.
LEMMA NothingIsCleared ==
  ASSUME TimelineInv, [TimelineNext]_timelineVars
  PROVE  [LET new == Last(timeline') IN
          /\ (\A t \in Times : t < new.Timestamp) =>
               \A c \in ChannelIDs(timeline) :
                 /\ AnyHigh(report, c) => AnyHigh(report', c)
                 /\ Reports(report, c, "corroborated", "High")
                      => Reports(report', c, "corroborated", "High")
          /\ new.Timestamp \in Times => report' = report]_timelineVars
<1> SUFFICES ASSUME TimelineNext
             PROVE  LET new == Last(timeline') IN
                    /\ (\A t \in Times : t < new.Timestamp) =>
                         \A c \in ChannelIDs(timeline) :
                           /\ AnyHigh(report, c) => AnyHigh(report', c)
                           /\ Reports(report, c, "corroborated", "High")
                                => Reports(report', c, "corroborated", "High")
                    /\ new.Timestamp \in Times => report' = report
  OBVIOUS
<1>1. PICK new \in Snapshot : /\ timeline' = Append(timeline, new)
                              /\ runJammingAnalyze(timeline')
                              /\ UNCHANGED flags
  BY StepAppends
<1> DEFINE raw == flags.opts
           o == normalizeOptions(raw)
           d == Deduped(timeline)
           H(x, m) == Reports(report, x, m, "High")
           G(x, m) == Reports(report', x, m, "High")
<1>2. timeline \in Seq(Snapshot) /\ raw \in RawOptions /\ report = Analyze(timeline, raw)
  BY DEF TimelineInv, Flags
<1>3. timeline' \in Seq(Snapshot) /\ report' = Analyze(timeline', raw)
  BY <1>1, <1>2 DEF runJammingAnalyze
<1>4. Last(timeline') = new
  BY <1>1, <1>2 DEF Last
<1>5. Times = {timeline[i].Timestamp : i \in 1..Len(timeline)}
  BY <1>2 DEF Times, ToSet
<1>6. ASSUME new.Timestamp \in Times PROVE report' = report
  <2>1. PICK i \in 1..Len(timeline) : timeline[i].Timestamp = new.Timestamp
    BY <1>5, <1>6
  <2>2. Deduped(timeline') = Deduped(timeline)
    BY <1>1, <1>2, <2>1, RepeatKeepsDeduped
  <2> QED  BY <1>2, <1>3, <2>2 DEF Analyze
<1>7. ASSUME \A t \in Times : t < new.Timestamp, NEW x
      PROVE  /\ AnyHigh(report, x) => AnyHigh(report', x)
             /\ H(x, "corroborated") => G(x, "corroborated")
  <2>1. d \in Seq(Snapshot)
    BY <1>2, DedupedIs DEF IsDeduped
  <2>2. Deduped(timeline') = Append(d, new)
    <3>1. \A i \in 1..Len(timeline) : timeline[i].Timestamp < new.Timestamp
      BY <1>5, <1>7
    <3> QED  BY <1>1, <1>2, <3>1, LaterIsAppended
  <2>3. \A m \in Metric : H(x, m) <=> IsHigh(d, x, o, m)
    BY <1>2, ReportsIs
  <2>4. \A m \in Metric : G(x, m) <=> IsHigh(Append(d, new), x, o, m)
    BY <1>2, <1>3, <2>2, ReportsIs
  <2>5. "corroborated" \in Metric
    BY DEF Metric
  <2> HIDE DEF d, o, H, G
  <2>6. \A m \in Metric : H(x, m) => G(x, m) \/ G(x, "corroborated")
    BY <2>1, <2>3, <2>4, <2>5, HighLasts
  <2>7. /\ AnyHigh(report, x) <=> \E m \in Metric : H(x, m)
        /\ AnyHigh(report', x) <=> \E m \in Metric : G(x, m)
    BY DEF AnyHigh, H, G
  <2> QED  BY <2>5, <2>6, <2>7
<1> QED  BY <1>4, <1>6, <1>7

\* New evidence never clears old.  (analyzer.go:25-260)
THEOREM NothingCleared == TimelineSpec => LaterSnapshotsClearNothing
<1>1. TimelineInv /\ [TimelineNext]_timelineVars
        => [LET new == Last(timeline') IN
            /\ (\A t \in Times : t < new.Timestamp) =>
                 \A c \in ChannelIDs(timeline) :
                   /\ AnyHigh(report, c) => AnyHigh(report', c)
                   /\ Reports(report, c, "corroborated", "High")
                        => Reports(report', c, "corroborated", "High")
            /\ new.Timestamp \in Times => report' = report]_timelineVars
  BY NothingIsCleared
<1> QED  BY <1>1, TimelineInvariance, PTL DEF TimelineSpec, LaterSnapshotsClearNothing
=============================================================================
