----------------------- MODULE ChannelAnalysisProofs -----------------------
(***************************************************************************)
(* evaluateStreak and the classification of a channel are correct for      *)
(* every series of metric points and all options.                          *)
(***************************************************************************)
EXTENDS ChannelAnalysis, TLAPS

-----------------------------------------------------------------------------
(* Types *)

\* normalizeOptions always returns thresholds in (0, 1] and a window of at
\* least two, whatever the caller passes.  (types.go:80-93)
LEMMA NormalizeTyped ==
  ASSUME NEW o \in RawOptions
  PROVE  normalizeOptions(o) \in NormalizedOptions
<1>1. (3 * Scale) \div 5 \in 1..Scale
  BY ScaleAssumption
<1> QED
  BY <1>1 DEF normalizeOptions, DefaultOptions, NormalizedOptions, RawOptions

\* The value of a metric at a point is a saturation.
LEMMA ValueTyped ==
  ASSUME NEW m \in Metric, NEW p \in MetricPoint
  PROVE  Value(m, p) \in Saturation
BY DEF Metric, MetricPoint, Value, Larger, Saturation

\* One iteration of evaluateStreak keeps the types of its local variables.
LEMMA IterationTyped ==
  ASSUME NEW o \in NormalizedOptions, NEW m \in Metric,
         NEW l \in LoopState, NEW p \in MetricPoint
  PROVE  Iteration(o, m, l, p) \in LoopState
<1> DEFINE v == Value(m, p)
<1>1. v \in Nat
  BY ValueTyped DEF Saturation
<1> HIDE DEF v
<1>2. TakePoint(l, p, v) \in LoopState
  BY <1>1 DEF TakePoint, Continues, Larger, LoopState, StreakInfo, MetricPoint, Saturation
<1>3. BreakRun(l) \in LoopState
  BY DEF BreakRun, LoopState, StreakInfo, Saturation
<1> QED
  BY <1>2, <1>3 DEF Iteration, v

\* A finding about a streak is a finding.
LEMMA FindingTyped ==
  ASSUME NEW o \in NormalizedOptions, NEW s \in [Metric -> StreakInfo],
         NEW m \in Metric, NEW sev \in Severities, NEW conf \in Confidences
  PROVE  FindingFor(o, m, sev, conf, s[m]) \in Finding
<1>1. s[m] \in StreakInfo
  OBVIOUS
<1>2. Threshold(o, m) \in Saturation
  BY ScaleAssumption DEF Threshold, Larger, Metric, NormalizedOptions, Saturation
<1> QED
  BY <1>1, <1>2 DEF FindingFor, Finding, Metric, StreakInfo, Ids

\* The findings of a channel are findings.
LEMMA FindingsTyped ==
  ASSUME NEW o \in NormalizedOptions, NEW s \in [Metric -> StreakInfo]
  PROVE  ChannelFindings(o, s) \in Seq(Finding)
<1>1. ASSUME NEW m \in Metric
      PROVE  SingleMetric(o, m, s[m]) \in Seq(Finding)
  BY FindingTyped DEF SingleMetric, Severities, Confidences
<1> QED
  BY <1>1, FindingTyped DEF ChannelFindings, Severities, Confidences, Metric

-----------------------------------------------------------------------------
(* Runs *)

\* A run that ends at point n carries on to n + 1 exactly when that point is
\* elevated too and is that of the very next snapshot.
LEMMA RunExtends ==
  ASSUME NEW s, NEW o, NEW m, NEW n \in Nat, NEW a \in 1..n
  PROVE  IsRun(s, o, m, a, n + 1) <=>
           /\ IsRun(s, o, m, a, n)
           /\ Matched(o, m, s[n + 1])
           /\ s[n + 1].snapshotIndex = s[n].snapshotIndex + 1
<1>1. a..(n + 1) = (a..n) \cup {n + 1}
  OBVIOUS
<1>2. n + 1 > a /\ (n + 1) - 1 = n
  OBVIOUS
<1> QED
  BY <1>1, <1>2 DEF IsRun

\* A single point is a run exactly when it is elevated.
LEMMA RunOfOne ==
  ASSUME NEW s, NEW o, NEW m, NEW k \in Nat
  PROVE  IsRun(s, o, m, k, k) <=> Matched(o, m, s[k])
<1>1. k..k = {k} /\ ~(k > k)
  OBVIOUS
<1> QED
  BY <1>1 DEF IsRun

\* The last point of a run is elevated.
LEMMA RunEndsElevated ==
  ASSUME NEW s, NEW o, NEW m, NEW a \in Nat, NEW b \in Nat, a <= b, IsRun(s, o, m, a, b)
  PROVE  Matched(o, m, s[b])
<1>1. b \in a..b
  OBVIOUS
<1> QED
  BY <1>1 DEF IsRun

\* The peak of a run carried on by one point.
LEMMA PeakExtends ==
  ASSUME NEW s, NEW m \in Metric, NEW n \in Nat, NEW a \in 1..n, NEW top \in Nat,
         \A k \in a..(n + 1) : Value(m, s[k]) \in Nat,
         IsPeak(s, m, a, n, top)
  PROVE  IsPeak(s, m, a, n + 1, Larger(top, Value(m, s[n + 1])))
<1> DEFINE v == Value(m, s[n + 1])
           w == Larger(top, v)
<1>1. a..(n + 1) = (a..n) \cup {n + 1}
  OBVIOUS
<1>2. v \in Nat
  BY <1>1
<1>3. w \in Nat /\ top <= w /\ v <= w /\ (w = top \/ w = v)
  BY <1>2 DEF Larger
<1> HIDE DEF w
<1>4. \A k \in a..n : Value(m, s[k]) <= w
  <2> SUFFICES ASSUME NEW k \in a..n PROVE Value(m, s[k]) <= w
    OBVIOUS
  <2>1. Value(m, s[k]) <= top /\ Value(m, s[k]) \in Nat
    BY <1>1 DEF IsPeak
  <2> HIDE DEF v
  <2> QED
    BY <2>1, <1>3
<1>5. \E k \in a..(n + 1) : Value(m, s[k]) = w
  <2>1. PICK k \in a..n : Value(m, s[k]) = top
    BY DEF IsPeak
  <2> QED
    BY <2>1, <1>1, <1>3
<1>6. \A k \in a..(n + 1) : Value(m, s[k]) <= w
  BY <1>1, <1>3, <1>4
<1> QED
  BY <1>5, <1>6 DEF IsPeak, w

-----------------------------------------------------------------------------
(* evaluateStreak: one iteration *)

\* After a point at or above the thresholds, the loop knows the run that ends
\* there and the longest run so far.
LEMMA TakePointKeepsLoop ==
  ASSUME NEW s, IsSeries(s), NEW o \in NormalizedOptions, NEW m \in Metric,
         NEW n \in 0..(Len(s) - 1), NEW l \in LoopState,
         IsLoopAt(s, o, m, n, l), Matched(o, m, s[n + 1])
  PROVE  IsLoopAt(s, o, m, n + 1, TakePoint(l, s[n + 1], Value(m, s[n + 1])))
<1> DEFINE p == s[n + 1]
           v == Value(m, p)
           length == IF Continues(l, p) THEN l.currentLength + 1 ELSE 1
           top == IF Continues(l, p) THEN Larger(l.currentMax, v) ELSE v
           new == TakePoint(l, p, v)
           start == (n + 1) - length + 1
<1>1. /\ \A k \in 1..Len(s) : s[k] \in MetricPoint /\ Value(m, s[k]) \in Nat
      /\ Len(s) \in Nat /\ n \in Nat /\ n + 1 \in 1..Len(s)
  BY ValueTyped DEF IsSeries, Saturation
<1>2. v \in Nat /\ p \in MetricPoint
  BY <1>1
<1>3. /\ new.best = IF length > l.best.length
                      THEN [length |-> length, maxValue |-> top] ELSE l.best
      /\ new.currentLength = length
      /\ new.currentMax = top
      /\ new.prevIndex = s[n + 1].snapshotIndex
  BY DEF TakePoint
<1>4. /\ l.currentLength \in Nat /\ l.best \in StreakInfo /\ l.best.length \in Nat
      /\ l.currentMax \in Nat
  BY DEF LoopState, StreakInfo, Saturation
<1>5. IsCurrentRun(s, o, m, n, l) /\ IsLongestRun(s, o, m, n, l.best)
  BY DEF IsLoopAt
<1>6. /\ length \in 1..(n + 1) /\ start \in 1..(n + 1)
      /\ IsRun(s, o, m, start, n + 1)
      /\ IsPeak(s, m, start, n + 1, top)
      /\ \A a \in 1..(n + 1) : IsRun(s, o, m, a, n + 1) => (n + 1) - a + 1 <= length
  <2>1. CASE Continues(l, p)
    <3>1. /\ l.currentLength \in 1..n
          /\ length = l.currentLength + 1
          /\ top = Larger(l.currentMax, v)
          /\ start = n - l.currentLength + 1
          /\ p.snapshotIndex = l.prevIndex + 1
      BY <2>1, <1>1, <1>4, <1>5 DEF Continues, IsCurrentRun
    <3>2. /\ IsRun(s, o, m, start, n)
          /\ IsPeak(s, m, start, n, l.currentMax)
          /\ s[n + 1].snapshotIndex = s[n].snapshotIndex + 1
      BY <3>1, <1>5 DEF IsCurrentRun
    <3>3. start \in 1..n /\ length \in Nat /\ 1 <= length
      BY <3>1, <1>1
    <3> HIDE DEF start, length, top
    <3>4. IsRun(s, o, m, start, n + 1)
      BY <3>2, <3>3, <1>1, RunExtends
    <3>5. \A k \in start..(n + 1) : Value(m, s[k]) \in Nat
      BY <3>3, <1>1
    <3>6. IsPeak(s, m, start, n + 1, top)
      BY <3>1, <3>2, <3>3, <3>5, <1>1, <1>4, PeakExtends
    <3>7. ASSUME NEW a \in 1..(n + 1), IsRun(s, o, m, a, n + 1)
          PROVE  (n + 1) - a + 1 <= length
      <4>1. CASE a = n + 1
        <5>1. (n + 1) - a + 1 = 1
          BY <4>1, <1>1
        <5> QED
          BY <5>1, <3>3
      <4>2. CASE a \in 1..n
        <5>1. IsRun(s, o, m, a, n)
          BY <4>2, <3>7, <1>1, RunExtends
        <5>2. n - a + 1 <= l.currentLength
          BY <5>1, <4>2, <1>5 DEF IsCurrentRun
        <5> QED
          BY <5>2, <4>2, <3>1, <1>1
      <4> QED
        BY <4>1, <4>2, <1>1
    <3> QED
      BY <3>1, <3>3, <3>4, <3>6, <3>7, <1>1
  <2>2. CASE ~Continues(l, p)
    <3>1. length = 1 /\ top = v /\ start = n + 1
      BY <2>2, <1>1
    <3>2. IsRun(s, o, m, n + 1, n + 1)
      BY <1>1, RunOfOne
    <3>3. IsPeak(s, m, n + 1, n + 1, v)
      <4>1. (n + 1)..(n + 1) = {n + 1}
        BY <1>1
      <4> QED
        BY <4>1, <1>2 DEF IsPeak
    <3>4. ASSUME NEW a \in 1..(n + 1), IsRun(s, o, m, a, n + 1)
          PROVE  a = n + 1
      <4> SUFFICES ASSUME a \in 1..n PROVE FALSE
        BY <1>1
      <4>1. /\ IsRun(s, o, m, a, n)
            /\ s[n + 1].snapshotIndex = s[n].snapshotIndex + 1
        BY <3>4, <1>1, RunExtends
      <4>2. n - a + 1 <= l.currentLength
        BY <4>1, <1>5 DEF IsCurrentRun
      <4>3. l.currentLength > 0
        BY <4>2, <1>1, <1>4
      <4>4. l.prevIndex = s[n].snapshotIndex
        BY <4>3, <1>5 DEF IsCurrentRun
      <4> QED
        BY <4>1, <4>3, <4>4, <2>2 DEF Continues
    <3> HIDE DEF start, length, top
    <3> QED
      BY <3>1, <3>2, <3>3, <3>4, <1>1
  <2> QED
    BY <2>1, <2>2
<1> HIDE DEF length, top, start, new, v
<1>7. /\ l.best.length <= new.best.length
      /\ length <= new.best.length
      /\ new.best.length \in Nat
  BY <1>3, <1>4, <1>6
<1>8. CoversAllRuns(s, o, m, n + 1, new.best)
  <2> SUFFICES ASSUME NEW a \in 1..(n + 1), NEW b \in 1..(n + 1),
                      a <= b, IsRun(s, o, m, a, b)
               PROVE  b - a + 1 <= new.best.length
    BY DEF CoversAllRuns
  <2>1. CASE b = n + 1
    <3>1. (n + 1) - a + 1 <= length
      BY <2>1, <1>6
    <3> QED
      BY <3>1, <2>1, <1>7, <1>6, <1>1
  <2>2. CASE b \in 1..n
    <3>1. a \in 1..n
      BY <2>2, <1>1
    <3>2. b - a + 1 <= l.best.length
      BY <3>1, <2>2, <1>5 DEF IsLongestRun, CoversAllRuns
    <3> QED
      BY <3>1, <3>2, <2>2, <1>1, <1>4, <1>7
  <2> QED
    BY <2>1, <2>2, <1>1
<1>9. IsLongestRun(s, o, m, n + 1, new.best)
  <2>1. CASE length > l.best.length
    <3>1. new.best.length = length /\ new.best.maxValue = top
      BY <2>1, <1>3
    <3>2. ASSUME NEW c \in 1..(n + 1), NEW d \in 1..(n + 1),
                 c <= d, d < n + 1, IsRun(s, o, m, c, d)
          PROVE  d - c + 1 < length
      <4>1. c \in 1..n /\ d \in 1..n
        BY <3>2, <1>1
      <4>2. d - c + 1 <= l.best.length
        BY <4>1, <3>2, <1>5 DEF IsLongestRun, CoversAllRuns
      <4> QED
        BY <4>1, <4>2, <2>1, <1>1, <1>4, <1>6
    <3>3. start <= n + 1 /\ (n + 1) - start + 1 = length
      BY <1>1, <1>6 DEF start
    <3>4. IsFirstRun(s, o, m, start, n + 1, new.best)
      BY <3>1, <3>2, <3>3, <1>6 DEF IsFirstRun
    <3>5. start \in 1..(n + 1) /\ n + 1 \in 1..(n + 1)
      BY <1>1, <1>6
    <3> QED
      BY <1>8, <3>4, <3>5 DEF IsLongestRun
  <2>2. CASE ~(length > l.best.length)
    <3>1. new.best = l.best
      BY <2>2, <1>3
    <3>2. 1..n \subseteq 1..(n + 1)
      BY <1>1
    <3> QED
      BY <1>8, <3>1, <3>2, <1>5 DEF IsLongestRun
  <2> QED
    BY <2>1, <2>2
<1>10. IsCurrentRun(s, o, m, n + 1, new)
  BY <1>1, <1>3, <1>6, <1>7 DEF IsCurrentRun, start
<1> QED
  BY <1>9, <1>10 DEF IsLoopAt, new, v

\* After a calm point, the loop is in no run and the longest run is the same.
LEMMA BreakRunKeepsLoop ==
  ASSUME NEW s, IsSeries(s), NEW o, NEW m, NEW n \in 0..(Len(s) - 1), NEW l \in LoopState,
         IsLoopAt(s, o, m, n, l), ~Matched(o, m, s[n + 1])
  PROVE  IsLoopAt(s, o, m, n + 1, BreakRun(l))
<1>1. n \in Nat /\ 1..n \subseteq 1..(n + 1)
  BY DEF IsSeries
<1>2. BreakRun(l).best = l.best /\ BreakRun(l).currentLength = 0
  BY DEF BreakRun, LoopState
<1>3. l.best.length \in Nat
  BY DEF LoopState, StreakInfo
<1>4. \A a \in 1..(n + 1) : ~IsRun(s, o, m, a, n + 1)
  BY <1>1, RunEndsElevated
<1>5. IsLongestRun(s, o, m, n, l.best)
  BY DEF IsLoopAt
<1>6. CoversAllRuns(s, o, m, n + 1, l.best)
  <2> SUFFICES ASSUME NEW a \in 1..(n + 1), NEW b \in 1..(n + 1),
                      a <= b, IsRun(s, o, m, a, b)
               PROVE  b - a + 1 <= l.best.length
    BY DEF CoversAllRuns
  <2>1. a \in 1..n /\ b \in 1..n
    BY <1>1, <1>4
  <2> QED
    BY <2>1, <1>5 DEF IsLongestRun, CoversAllRuns
<1>7. IsLongestRun(s, o, m, n + 1, l.best)
  BY <1>1, <1>5, <1>6 DEF IsLongestRun
<1>8. IsCurrentRun(s, o, m, n + 1, BreakRun(l))
  BY <1>1, <1>2, <1>3, <1>4 DEF IsCurrentRun
<1> QED
  BY <1>2, <1>7, <1>8 DEF IsLoopAt

\* One iteration of evaluateStreak, whatever the point.
LEMMA IterationKeepsLoop ==
  ASSUME NEW s, IsSeries(s), NEW o \in NormalizedOptions, NEW m \in Metric,
         NEW n \in 0..(Len(s) - 1), NEW l \in LoopState, IsLoopAt(s, o, m, n, l)
  PROVE  IsLoopAt(s, o, m, n + 1, Iteration(o, m, l, s[n + 1]))
BY TakePointKeepsLoop, BreakRunKeepsLoop DEF Iteration

\* evaluateStreak starts with no run seen and none under way.
LEMMA LoopStarts ==
  ASSUME NEW s, NEW o, NEW m
  PROVE  IsLoopAt(s, o, m, 0, LoopStart) /\ LoopStart \in LoopState
<1>1. 1..0 = {}
  OBVIOUS
<1> QED
  BY <1>1 DEF IsLoopAt, IsLongestRun, CoversAllRuns, IsCurrentRun, LoopStart, NoStreak,
              LoopState, StreakInfo, Saturation

-----------------------------------------------------------------------------
(* The inductive invariant *)

\* Before the first point is looked at, the inductive invariant holds.
LEMMA InitIInv == Init => IInv
<1> SUFFICES ASSUME Init PROVE IInv
  OBVIOUS
<1>1. IsSeries(points)
  BY InputsAssumption DEF Init
<1>2. opts \in NormalizedOptions
  BY InputsAssumption, NormalizeTyped DEF Init
<1>3. loop = LoopStart /\ evaluating = "slot" /\ consumed = 0
  BY DEF Init
<1>4. NoStreak \in StreakInfo
  BY DEF NoStreak, StreakInfo, Saturation
<1>5. TypeOK
  BY <1>1, <1>2, <1>3, <1>4, LoopStarts DEF TypeOK, Init, IsSeries, Stages, Metric
<1>6. IsLoopAt(points, opts, evaluating, consumed, loop)
  BY <1>3, LoopStarts
<1>7. StreaksAreLongestRuns
  BY <1>3 DEF StreaksAreLongestRuns, Evaluated
<1>8. findings = <<>>
  BY DEF Init
<1> QED
  BY <1>3, <1>5, <1>6, <1>7, <1>8 DEF IInv

\* Every iteration, every return of evaluateStreak and the classification keep
\* the inductive invariant.
LEMMA NextIInv == IInv /\ [Next]_vars => IInv'
<1> SUFFICES ASSUME IInv, [Next]_vars PROVE IInv'
  OBVIOUS
<1>0. TypeOK /\ IsSeries(points)
  BY DEF IInv, TypeOK
<1>1. CASE EvaluatePoint
  <2>1. /\ evaluating \in Metric /\ consumed \in 0..(Len(points) - 1)
        /\ loop \in LoopState /\ opts \in NormalizedOptions
    BY <1>0, <1>1 DEF TypeOK, EvaluatePoint, IsSeries
  <2>2. points[consumed + 1] \in MetricPoint
    BY <2>1, <1>0 DEF IsSeries
  <2>3. loop' \in LoopState
    BY <1>1, <2>1, <2>2, IterationTyped DEF EvaluatePoint
  <2>4. TypeOK'
    BY <1>0, <1>1, <2>1, <2>3 DEF TypeOK, EvaluatePoint, IsSeries
  <2>5. IsLoopAt(points, opts, evaluating, consumed + 1, loop')
    BY <1>0, <1>1, <2>1, IterationKeepsLoop DEF IInv, EvaluatePoint
  <2>6. IsLoopAt(points, opts, evaluating, consumed, loop)'
    BY <1>1, <2>5 DEF EvaluatePoint
  <2>7. StreaksAreLongestRuns'
    BY <1>1 DEF IInv, EvaluatePoint, StreaksAreLongestRuns, Evaluated
  <2> QED
    BY <1>1, <2>4, <2>6, <2>7 DEF IInv, EvaluatePoint
<1>2. CASE ReturnStreak
  <2>1. /\ evaluating \in Metric /\ consumed = Len(points)
        /\ loop.best \in StreakInfo
        /\ streaks' = [streaks EXCEPT ![evaluating] = loop.best]
        /\ evaluating' = After[evaluating]
        /\ loop' = LoopStart /\ consumed' = 0
        /\ points' = points /\ opts' = opts /\ findings' = findings
    BY <1>0, <1>2 DEF TypeOK, ReturnStreak, LoopState
  <2>2. evaluating' \in {"liquidity", "corroborated", "classify"} /\ evaluating # "done"
    BY <2>1 DEF After, Metric
  <2>3. TypeOK'
    BY <1>0, <2>1, <2>2, LoopStarts DEF TypeOK, IsSeries, Stages, Metric
  <2>4. IsLoopAt(points, opts, evaluating, consumed, loop)'
    BY <2>1, LoopStarts
  <2>5. StreaksAreLongestRuns'
    <3> SUFFICES ASSUME NEW m \in Metric, Evaluated(m)'
                 PROVE  IsLongestRun(points, opts, m, Len(points), streaks'[m])
      BY <2>1 DEF StreaksAreLongestRuns
    <3>1. CASE m = evaluating
      <4>1. streaks'[m] = loop.best
        BY <2>1, <1>0, <3>1 DEF TypeOK
      <4> QED
        BY <2>1, <3>1, <4>1 DEF IInv, IsLoopAt
    <3>2. CASE m # evaluating
      <4>1. Evaluated(m)
        BY <2>1, <3>2 DEF Evaluated, After, Metric
      <4>2. streaks'[m] = streaks[m]
        BY <2>1, <1>0, <3>2 DEF TypeOK
      <4> QED
        BY <4>1, <4>2 DEF IInv, StreaksAreLongestRuns
    <3> QED
      BY <3>1, <3>2
  <2>6. findings' = <<>> /\ evaluating' # "done"
    BY <2>1, <2>2 DEF IInv
  <2> QED
    BY <2>3, <2>4, <2>5, <2>6 DEF IInv
<1>3. CASE Classify
  <2>1. /\ evaluating = "classify" /\ evaluating' = "done"
        /\ findings' = ChannelFindings(opts, streaks)
        /\ UNCHANGED <<points, opts, consumed, loop, streaks>>
    BY <1>3 DEF Classify
  <2>2. ChannelFindings(opts, streaks) \in Seq(Finding)
    BY <1>0, FindingsTyped DEF TypeOK
  <2>3. TypeOK'
    BY <1>0, <2>1, <2>2 DEF TypeOK, Stages, IsSeries
  <2>4. StreaksAreLongestRuns'
    BY <2>1 DEF IInv, StreaksAreLongestRuns, Evaluated
  <2>5. evaluating' \notin Metric
    BY <2>1 DEF Metric
  <2> QED
    BY <2>1, <2>3, <2>4, <2>5 DEF IInv
<1>4. CASE UNCHANGED vars
  <2>1. /\ points' = points /\ opts' = opts /\ evaluating' = evaluating
        /\ consumed' = consumed /\ loop' = loop /\ streaks' = streaks /\ findings' = findings
    BY <1>4 DEF vars
  <2>2. TypeOK'
    BY <1>0, <2>1 DEF TypeOK, IsSeries
  <2>3. StreaksAreLongestRuns'
    BY <2>1 DEF IInv, StreaksAreLongestRuns, Evaluated
  <2> QED
    BY <2>1, <2>2, <2>3 DEF IInv
<1> QED
  BY <1>1, <1>2, <1>3, <1>4 DEF Next

\* The inductive invariant holds in every reachable state.
THEOREM Invariance == Spec => []IInv
BY InitIInv, NextIInv, PTL DEF Spec

\* The types of the analyzer's variables, for all series and options: the
\* indices of a series increase, the options are in the range normalizeOptions
\* promises, the loop never leaves the series.
THEOREM TypeCorrect == Spec => []TypeOK
<1>1. IInv => TypeOK
  BY DEF IInv
<1> QED
  BY <1>1, Invariance, PTL

\* evaluateStreak is correct: for every series, threshold and metric the streak
\* it returns is the first longest unbroken run of elevated snapshots, with the
\* peak of that run.
THEOREM StreaksCorrect == Spec => []StreaksAreLongestRuns
<1>1. IInv => StreaksAreLongestRuns
  BY DEF IInv
<1> QED
  BY <1>1, Invariance, PTL

-----------------------------------------------------------------------------
(* What the findings say *)

\* A streak is long enough exactly when there is a window that long.
LEMMA StreakIsWindow ==
  ASSUME NEW s, IsSeries(s), NEW o, NEW m, NEW streak \in StreakInfo, NEW n \in Nat \ {0},
         IsLongestRun(s, o, m, Len(s), streak)
  PROVE  streak.length >= n <=> HasWindow(s, o, m, n)
<1>1. Len(s) \in Nat /\ streak.length \in Nat
  BY DEF IsSeries, StreakInfo
<1>2. ASSUME streak.length >= n PROVE HasWindow(s, o, m, n)
  <2>1. streak # NoStreak
    BY <1>1, <1>2 DEF NoStreak
  <2>2. PICK a \in 1..Len(s), b \in 1..Len(s) : IsFirstRun(s, o, m, a, b, streak)
    BY <2>1 DEF IsLongestRun
  <2>3. a <= b /\ b - a + 1 >= n /\ IsRun(s, o, m, a, b)
    BY <2>2, <1>2 DEF IsFirstRun
  <2> QED
    BY <2>3 DEF HasWindow
<1>3. ASSUME HasWindow(s, o, m, n) PROVE streak.length >= n
  <2>1. PICK a \in 1..Len(s), b \in 1..Len(s) :
          a <= b /\ b - a + 1 >= n /\ IsRun(s, o, m, a, b)
    BY <1>3 DEF HasWindow
  <2>2. b - a + 1 <= streak.length
    BY <2>1 DEF IsLongestRun, CoversAllRuns
  <2> QED
    BY <2>1, <2>2, <1>1
<1> QED
  BY <1>2, <1>3

\* A streak is not empty exactly when some point is elevated.
LEMMA StreakIsObserved ==
  ASSUME NEW s, IsSeries(s), NEW o, NEW m, NEW streak \in StreakInfo,
         IsLongestRun(s, o, m, Len(s), streak)
  PROVE  (streak.length > 0) <=> (\E k \in 1..Len(s) : Matched(o, m, s[k]))
<1>1. Len(s) \in Nat /\ streak.length \in Nat
  BY DEF IsSeries, StreakInfo
<1>2. streak.length > 0 <=> HasWindow(s, o, m, 1)
  BY <1>1, StreakIsWindow
<1>3. ASSUME NEW k \in 1..Len(s), Matched(o, m, s[k]) PROVE HasWindow(s, o, m, 1)
  <2>1. IsRun(s, o, m, k, k)
    BY <1>1, <1>3, RunOfOne
  <2>2. k <= k /\ k - k + 1 >= 1
    BY <1>1
  <2> QED
    BY <2>1, <2>2 DEF HasWindow
<1>4. ASSUME HasWindow(s, o, m, 1) PROVE \E k \in 1..Len(s) : Matched(o, m, s[k])
  <2>1. PICK a \in 1..Len(s), b \in 1..Len(s) : a <= b /\ IsRun(s, o, m, a, b)
    BY <1>4 DEF HasWindow
  <2> QED
    BY <2>1, RunEndsElevated
<1> QED
  BY <1>2, <1>3, <1>4

\* The peak of a streak reaches the threshold of its metric.
LEMMA StreakReachesThreshold ==
  ASSUME NEW s, IsSeries(s), NEW o \in NormalizedOptions, NEW m \in Metric,
         NEW streak \in StreakInfo,
         IsLongestRun(s, o, m, Len(s), streak), streak.length > 0
  PROVE  streak.maxValue >= Threshold(o, m)
<1>1. PICK a \in 1..Len(s), b \in 1..Len(s) : IsFirstRun(s, o, m, a, b, streak)
  BY DEF IsLongestRun, NoStreak
<1>2. PICK k \in a..b : Value(m, s[k]) = streak.maxValue
  BY <1>1 DEF IsFirstRun, IsPeak
<1>3. Matched(o, m, s[k]) /\ s[k] \in MetricPoint
  BY <1>1, <1>2 DEF IsFirstRun, IsRun, IsSeries
<1>4. Value(m, s[k]) >= Threshold(o, m)
  <2>1. CASE m = "slot"
    BY <1>3, <2>1, ScaleAssumption
       DEF Matched, SlotHigh, Value, Threshold, MetricPoint, NormalizedOptions, Saturation
  <2>2. CASE m = "liquidity"
    BY <1>3, <2>2, ScaleAssumption
       DEF Matched, LiquidityHigh, Value, Threshold, MetricPoint, NormalizedOptions, Saturation
  <2>3. CASE m = "corroborated"
    BY <1>3, <2>3, ScaleAssumption
       DEF Matched, SlotHigh, LiquidityHigh, Value, Threshold, Larger, MetricPoint,
           NormalizedOptions, Saturation
  <2> QED
    BY <2>1, <2>2, <2>3 DEF Metric
<1> QED
  BY <1>2, <1>4

\* A run in which both metrics are elevated is a run of each of them.
LEMMA CorroboratedRunIsBoth ==
  ASSUME NEW s, NEW o, NEW m \in {"slot", "liquidity"}, NEW n,
         HasWindow(s, o, "corroborated", n)
  PROVE  HasWindow(s, o, m, n)
<1>1. \A p : Matched(o, "corroborated", p) => Matched(o, m, p)
  BY DEF Matched
<1>2. PICK a \in 1..Len(s), b \in 1..Len(s) :
        a <= b /\ b - a + 1 >= n /\ IsRun(s, o, "corroborated", a, b)
  BY DEF HasWindow
<1>3. IsRun(s, o, m, a, b)
  BY <1>1, <1>2 DEF IsRun
<1> QED
  BY <1>2, <1>3 DEF HasWindow

\* Once the three calls have returned, sustained means a window of snapshots.
LEMMA SustainedIsWindow ==
  ASSUME IInv, evaluating \in {"classify", "done"}, NEW m \in Metric
  PROVE  Sustained(opts, streaks[m]) <=> HasWindow(points, opts, m, opts.MinSustainedSamples)
<1>1. /\ IsSeries(points) /\ streaks[m] \in StreakInfo
      /\ opts.MinSustainedSamples \in Nat \ {0}
  BY DEF IInv, TypeOK, NormalizedOptions
<1>2. IsLongestRun(points, opts, m, Len(points), streaks[m])
  BY DEF IInv, StreaksAreLongestRuns, Evaluated
<1> QED
  BY <1>1, <1>2, StreakIsWindow DEF Sustained

\* Corroborated pressure is sustained slot pressure and sustained liquidity
\* pressure, for every series: skipping the single-metric findings drops no
\* metric that was calm.
THEOREM CorroborationSound == Spec => []CorroborationImpliesBoth
<1>1. IInv => CorroborationImpliesBoth
  <2> SUFFICES ASSUME IInv, evaluating \in {"classify", "done"},
                      Sustained(opts, streaks["corroborated"]),
                      NEW m \in {"slot", "liquidity"}
               PROVE  Sustained(opts, streaks[m])
    BY DEF CorroborationImpliesBoth
  <2>1. HasWindow(points, opts, "corroborated", opts.MinSustainedSamples)
    BY SustainedIsWindow DEF Metric
  <2>2. HasWindow(points, opts, m, opts.MinSustainedSamples)
    BY <2>1, CorroboratedRunIsBoth
  <2> QED
    BY <2>2, SustainedIsWindow DEF Metric
<1> QED
  BY <1>1, Invariance, PTL

-----------------------------------------------------------------------------
(* The findings of a channel *)

\* Each finding is about a streak that is not empty.
LEMMA FindingsHaveStreaks ==
  ASSUME NEW o \in NormalizedOptions, NEW s \in [Metric -> StreakInfo],
         NEW i \in DOMAIN ChannelFindings(o, s)
  PROVE  \E m \in Metric, sev \in Severities, conf \in Confidences :
           /\ s[m].length > 0
           /\ ChannelFindings(o, s)[i] = FindingFor(o, m, sev, conf, s[m])
<1> DEFINE Good(f) == \E m \in Metric, sev \in Severities, conf \in Confidences :
                        s[m].length > 0 /\ f = FindingFor(o, m, sev, conf, s[m])
<1>1. \A m \in Metric : Sustained(o, s[m]) => s[m].length > 0
  BY DEF Sustained, NormalizedOptions, StreakInfo
<1>2. ASSUME NEW m \in Metric
      PROVE  /\ SingleMetric(o, m, s[m]) \in Seq(Finding)
             /\ Len(SingleMetric(o, m, s[m])) \in {0, 1}
             /\ Len(SingleMetric(o, m, s[m])) = 1 => Good(SingleMetric(o, m, s[m])[1])
  <2>1. CASE Sustained(o, s[m])
    <3>1. SingleMetric(o, m, s[m]) = <<FindingFor(o, m, "High", "sustained", s[m])>>
      BY <2>1 DEF SingleMetric
    <3>2. Good(FindingFor(o, m, "High", "sustained", s[m]))
      BY <1>1, <2>1 DEF Severities, Confidences
    <3>3. FindingFor(o, m, "High", "sustained", s[m]) \in Finding
      BY FindingTyped DEF Severities, Confidences
    <3> QED
      BY <3>1, <3>2, <3>3
  <2>2. CASE ~Sustained(o, s[m]) /\ s[m].length > 0 /\ o.EmitObserved
    <3>1. SingleMetric(o, m, s[m]) = <<FindingFor(o, m, "Medium", "observed", s[m])>>
      BY <2>2 DEF SingleMetric
    <3>2. Good(FindingFor(o, m, "Medium", "observed", s[m]))
      BY <2>2 DEF Severities, Confidences
    <3>3. FindingFor(o, m, "Medium", "observed", s[m]) \in Finding
      BY FindingTyped DEF Severities, Confidences
    <3> QED
      BY <3>1, <3>2, <3>3
  <2>3. CASE ~Sustained(o, s[m]) /\ ~(s[m].length > 0 /\ o.EmitObserved)
    BY <2>3 DEF SingleMetric
  <2> QED
    BY <2>1, <2>2, <2>3
<1> HIDE DEF Good
<1>3. Good(ChannelFindings(o, s)[i])
  <2>1. CASE Sustained(o, s["corroborated"])
    <3>1. ChannelFindings(o, s)
            = <<FindingFor(o, "corroborated", "High", "corroborated", s["corroborated"])>>
      BY <2>1 DEF ChannelFindings
    <3>2. i = 1
      BY <3>1
    <3>3. s["corroborated"].length > 0
      BY <1>1, <2>1 DEF Metric
    <3> QED
      BY <3>1, <3>2, <3>3 DEF Good, Metric, Severities, Confidences
  <2>2. CASE ~Sustained(o, s["corroborated"])
    <3> DEFINE a == SingleMetric(o, "slot", s["slot"])
               b == SingleMetric(o, "liquidity", s["liquidity"])
    <3>1. ChannelFindings(o, s) = a \o b
      BY <2>2 DEF ChannelFindings
    <3>2. /\ a \in Seq(Finding) /\ Len(a) \in {0, 1} /\ (Len(a) = 1 => Good(a[1]))
          /\ b \in Seq(Finding) /\ Len(b) \in {0, 1} /\ (Len(b) = 1 => Good(b[1]))
      BY <1>2 DEF Metric
    <3> HIDE DEF a, b
    <3>3. i \in 1..(Len(a) + Len(b))
      BY <3>1, <3>2
    <3>4. CASE i <= Len(a)
      <4>1. i = 1 /\ Len(a) = 1 /\ (a \o b)[i] = a[1]
        BY <3>2, <3>3, <3>4
      <4> QED
        BY <4>1, <3>1, <3>2
    <3>5. CASE i > Len(a)
      <4>1. i - Len(a) = 1 /\ Len(b) = 1 /\ (a \o b)[i] = b[1]
        BY <3>2, <3>3, <3>5
      <4> QED
        BY <4>1, <3>1, <3>2
    <3> QED
      BY <3>2, <3>3, <3>4, <3>5
  <2> QED
    BY <2>1, <2>2
<1> QED
  BY <1>3 DEF Good

\* Every finding of every channel measured at least the threshold it quotes.
THEOREM EvidenceSound == Spec => []EvidenceReachesThreshold
<1>1. IInv => EvidenceReachesThreshold
  <2> SUFFICES ASSUME IInv, NEW i \in DOMAIN findings
               PROVE  /\ findings[i].window_samples > 0
                      /\ findings[i].measured_value >= findings[i].threshold
    BY DEF EvidenceReachesThreshold
  <2>1. /\ IsSeries(points) /\ opts \in NormalizedOptions
        /\ streaks \in [Metric -> StreakInfo]
    BY DEF IInv, TypeOK
  <2>2. evaluating = "done" /\ findings = ChannelFindings(opts, streaks)
    BY DEF IInv
  <2>3. PICK m \in Metric, sev \in Severities, conf \in Confidences :
          /\ streaks[m].length > 0
          /\ findings[i] = FindingFor(opts, m, sev, conf, streaks[m])
    BY <2>1, <2>2, FindingsHaveStreaks
  <2>4. IsLongestRun(points, opts, m, Len(points), streaks[m])
    BY <2>2 DEF IInv, StreaksAreLongestRuns, Evaluated
  <2>5. streaks[m].maxValue >= Threshold(opts, m)
    BY <2>1, <2>3, <2>4, StreakReachesThreshold
  <2> QED
    BY <2>3, <2>5 DEF FindingFor
<1> QED
  BY <1>1, Invariance, PTL

-----------------------------------------------------------------------------
(* The verdict *)

Pairs(q) == {<<q[i].metric, q[i].severity>> : i \in DOMAIN q}

\* What is reported about a metric on its own.
SinglePairs(o, m, streak) ==
  IF Sustained(o, streak) THEN {<<m, "High">>}
  ELSE IF streak.length > 0 /\ o.EmitObserved THEN {<<m, "Medium">>}
  ELSE {}

\* A report of one finding is reported as one pair.
LEMMA PairsOfOne ==
  ASSUME NEW f
  PROVE  Pairs(<<f>>) = {<<f.metric, f.severity>>}
<1>1. DOMAIN <<f>> = {1} /\ <<f>>[1] = f
  OBVIOUS
<1> QED
  BY <1>1 DEF Pairs

\* What SingleMetric reports about a metric: High, Medium or nothing.
LEMMA PairsOfSingle ==
  ASSUME NEW o, NEW m, NEW streak
  PROVE  Pairs(SingleMetric(o, m, streak)) = SinglePairs(o, m, streak)
<1> DEFINE high == FindingFor(o, m, "High", "sustained", streak)
           medium == FindingFor(o, m, "Medium", "observed", streak)
<1>1. /\ high.metric = m /\ high.severity = "High"
      /\ medium.metric = m /\ medium.severity = "Medium"
  BY DEF FindingFor
<1>2. SingleMetric(o, m, streak) = IF Sustained(o, streak) THEN <<high>>
                                   ELSE IF streak.length > 0 /\ o.EmitObserved THEN <<medium>>
                                   ELSE <<>>
  BY DEF SingleMetric
<1> HIDE DEF high, medium
<1>3. /\ Pairs(<<high>>) = {<<m, "High">>}
      /\ Pairs(<<medium>>) = {<<m, "Medium">>}
  BY <1>1, PairsOfOne
<1>4. Pairs(<<>>) = {}
  BY DEF Pairs
<1> QED
  BY <1>2, <1>3, <1>4 DEF SinglePairs

\* The pairs of two reports put together are those of either.
LEMMA PairsOfConcat ==
  ASSUME NEW p \in Seq(Finding), NEW q \in Seq(Finding)
  PROVE  Pairs(p \o q) = Pairs(p) \cup Pairs(q)
<1>1. /\ p \o q \in Seq(Finding)
      /\ Len(p \o q) = Len(p) + Len(q) /\ Len(p) \in Nat /\ Len(q) \in Nat
      /\ DOMAIN (p \o q) = 1..(Len(p) + Len(q))
      /\ DOMAIN p = 1..Len(p) /\ DOMAIN q = 1..Len(q)
  OBVIOUS
<1>2. \A i \in 1..Len(p) : (p \o q)[i] = p[i]
  OBVIOUS
<1>3. \A i \in 1..Len(q) : (p \o q)[Len(p) + i] = q[i]
  OBVIOUS
<1>4. ASSUME NEW x \in Pairs(p \o q) PROVE x \in Pairs(p) \cup Pairs(q)
  <2>1. PICK i \in 1..(Len(p) + Len(q)) : x = <<(p \o q)[i].metric, (p \o q)[i].severity>>
    BY <1>1, <1>4 DEF Pairs
  <2>2. CASE i \in 1..Len(p)
    BY <2>1, <2>2, <1>1, <1>2 DEF Pairs
  <2>3. CASE i \notin 1..Len(p)
    <3>1. i - Len(p) \in 1..Len(q) /\ i = Len(p) + (i - Len(p))
      BY <2>3, <1>1
    <3> QED
      BY <2>1, <3>1, <1>1, <1>3 DEF Pairs
  <2> QED
    BY <2>2, <2>3
<1>5. Pairs(p) \subseteq Pairs(p \o q)
  BY <1>1, <1>2 DEF Pairs
<1>6. ASSUME NEW i \in 1..Len(q)
      PROVE  <<q[i].metric, q[i].severity>> \in Pairs(p \o q)
  <2>1. Len(p) + i \in DOMAIN (p \o q)
    BY <1>1
  <2> QED
    BY <2>1, <1>3 DEF Pairs
<1>7. Pairs(q) \subseteq Pairs(p \o q)
  BY <1>1, <1>6 DEF Pairs
<1> QED
  BY <1>4, <1>5, <1>7

\* The operators of the abstract module are those of the detailed one.
LEMMA PromiseMatches ==
  ASSUME NEW o, NEW m, NEW p
  PROVE  Promise!Matched(o, m, p) <=> Matched(o, m, p)
BY DEF Promise!Matched, Matched, Promise!SlotHigh, SlotHigh, Promise!LiquidityHigh, LiquidityHigh

\* So are its windows.
LEMMA PromiseWindows ==
  ASSUME NEW s, NEW o, NEW m, NEW n
  PROVE  Promise!HasWindow(s, o, m, n) <=> HasWindow(s, o, m, n)
<1>1. \A a, b : Promise!IsRun(s, o, m, a, b) <=> IsRun(s, o, m, a, b)
  BY PromiseMatches DEF Promise!IsRun, IsRun
<1> QED
  BY <1>1 DEF Promise!HasWindow, HasWindow

\* And its types.
LEMMA PromiseTypes ==
  /\ Promise!NormalizedOptions = NormalizedOptions
  /\ \A s : Promise!IsSeries(s) <=> IsSeries(s)
BY DEF Promise!NormalizedOptions, NormalizedOptions, Promise!IsSeries, IsSeries,
       Promise!MetricPoint, MetricPoint, Promise!Saturation, Saturation

\* The findings derived from the three streaks are the verdict.
LEMMA FindingsAreVerdict ==
  ASSUME IInv, evaluating \in {"classify", "done"}
  PROVE  Pairs(ChannelFindings(opts, streaks)) = Promise!Verdict(points, opts)
<1>1. /\ IsSeries(points) /\ opts \in NormalizedOptions
      /\ streaks \in [Metric -> StreakInfo]
  BY DEF IInv, TypeOK
<1>2. ASSUME NEW m \in Metric
      PROVE  /\ Sustained(opts, streaks[m]) <=> Promise!IsSustained(points, opts, m)
             /\ (streaks[m].length > 0) <=> (\E k \in 1..Len(points) : Matched(opts, m, points[k]))
  <2>1. Sustained(opts, streaks[m]) <=> Promise!IsSustained(points, opts, m)
    BY SustainedIsWindow, PromiseWindows DEF Promise!IsSustained
  <2>2. IsLongestRun(points, opts, m, Len(points), streaks[m])
    BY DEF IInv, StreaksAreLongestRuns, Evaluated
  <2> QED
    BY <2>1, <2>2, <1>1, StreakIsObserved
<1>3. CASE Sustained(opts, streaks["corroborated"])
  <2> DEFINE f == FindingFor(opts, "corroborated", "High", "corroborated",
                             streaks["corroborated"])
  <2>1. ChannelFindings(opts, streaks) = <<f>>
    BY <1>3 DEF ChannelFindings
  <2>2. f.metric = "corroborated" /\ f.severity = "High"
    BY DEF FindingFor
  <2>3. Promise!IsSustained(points, opts, "corroborated")
    BY <1>2, <1>3 DEF Metric
  <2> HIDE DEF f
  <2> QED
    BY <2>1, <2>2, <2>3, PairsOfOne DEF Promise!Verdict
<1>4. CASE ~Sustained(opts, streaks["corroborated"])
  <2> DEFINE a == SingleMetric(opts, "slot", streaks["slot"])
             b == SingleMetric(opts, "liquidity", streaks["liquidity"])
  <2>1. ChannelFindings(opts, streaks) = a \o b
    BY <1>4 DEF ChannelFindings
  <2>2. a \in Seq(Finding) /\ b \in Seq(Finding)
    BY <1>1, FindingTyped DEF SingleMetric, Severities, Confidences, Metric
  <2>3. /\ Pairs(a) = SinglePairs(opts, "slot", streaks["slot"])
        /\ Pairs(b) = SinglePairs(opts, "liquidity", streaks["liquidity"])
    BY PairsOfSingle
  <2> HIDE DEF a, b
  <2>4. Pairs(ChannelFindings(opts, streaks)) = Pairs(a) \cup Pairs(b)
    BY <2>1, <2>2, PairsOfConcat
  <2>5. ~Promise!IsSustained(points, opts, "corroborated")
    BY <1>2, <1>4 DEF Metric
  <2>6. ASSUME NEW m \in {"slot", "liquidity"}
        PROVE  /\ Sustained(opts, streaks[m]) <=> Promise!IsSustained(points, opts, m)
               /\ (~Sustained(opts, streaks[m]) /\ streaks[m].length > 0 /\ opts.EmitObserved)
                    <=> Promise!IsObserved(points, opts, m)
    <3>1. (\E k \in 1..Len(points) : Matched(opts, m, points[k]))
            <=> (\E k \in 1..Len(points) : Promise!Matched(opts, m, points[k]))
      BY PromiseMatches
    <3>2. m \in Metric
      BY DEF Metric
    <3> QED
      BY <1>2, <3>1, <3>2 DEF Promise!IsObserved
  <2>7. \A m \in {"slot", "liquidity"} :
          SinglePairs(opts, m, streaks[m])
            = {<<x, "High">> : x \in {y \in {m} : Promise!IsSustained(points, opts, y)}}
                \cup {<<x, "Medium">> : x \in {y \in {m} : Promise!IsObserved(points, opts, y)}}
    BY <2>6 DEF SinglePairs
  <2>8. Promise!Verdict(points, opts)
          = {<<m, "High">> : m \in {x \in {"slot", "liquidity"} :
                                      Promise!IsSustained(points, opts, x)}}
              \cup {<<m, "Medium">> : m \in {x \in {"slot", "liquidity"} :
                                               Promise!IsObserved(points, opts, x)}}
    BY <2>5 DEF Promise!Verdict
  <2> QED
    BY <2>3, <2>4, <2>7, <2>8
<1> QED
  BY <1>3, <1>4

\* The safety half of ImplementsVerdict, for every series and options: nothing
\* is reported before the channel is classified, and then exactly the verdict
\* that the windows of elevated snapshots call for.
THEOREM ImplementsVerdictSafely == Spec => Promise!SafeSpec
<1>1. Init => Promise!Init
  <2>1. Init => IsSeries(points) /\ opts \in NormalizedOptions
    BY InitIInv DEF IInv, TypeOK
  <2>2. Init => Reported = Promise!Pending
    BY DEF Init, Reported, Promise!Pending
  <2> QED
    BY <2>1, <2>2, PromiseTypes DEF Promise!Init
<1>2. IInv /\ [Next]_vars => [Promise!Decide]_<<points, opts, Reported>>
  <2> SUFFICES ASSUME IInv, [Next]_vars
               PROVE  Promise!Decide \/ UNCHANGED <<points, opts, Reported>>
    OBVIOUS
  <2>1. CASE EvaluatePoint
    BY <2>1 DEF EvaluatePoint, Reported
  <2>2. CASE ReturnStreak
    <3>1. evaluating # "done" /\ evaluating' # "done"
      BY <2>2 DEF ReturnStreak, After, Metric
    <3> QED
      BY <2>2, <3>1 DEF ReturnStreak, Reported
  <2>3. CASE Classify
    <3>1. /\ evaluating = "classify" /\ evaluating' = "done"
          /\ findings' = ChannelFindings(opts, streaks)
          /\ UNCHANGED <<points, opts>>
      BY <2>3 DEF Classify
    <3>2. Reported = Promise!Pending
      BY <3>1 DEF Reported, Promise!Pending
    <3>3. Reported' = Pairs(ChannelFindings(opts, streaks))
      BY <3>1 DEF Reported, Pairs
    <3>4. Pairs(ChannelFindings(opts, streaks)) = Promise!Verdict(points, opts)
      BY <3>1, FindingsAreVerdict
    <3> QED
      BY <3>1, <3>2, <3>3, <3>4 DEF Promise!Decide
  <2>4. CASE UNCHANGED vars
    BY <2>4 DEF vars, Reported
  <2> QED
    BY <2>1, <2>2, <2>3, <2>4 DEF Next
<1> QED
  BY <1>1, <1>2, Invariance, PTL DEF Spec, Promise!SafeSpec, Promise!vars
=============================================================================
