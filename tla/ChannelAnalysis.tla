-------------------------- MODULE ChannelAnalysis --------------------------
(***************************************************************************)
(* One turn of the per-channel loop of Analyze (pkg/jamming/analyzer.go):  *)
(* evaluateStreak runs over the channel's points once for the slots, once  *)
(* for the liquidity and once for both, one point per step, and the three  *)
(* streaks are then turned into the channel's findings.                    *)
(***************************************************************************)
EXTENDS Runs

CONSTANTS
  SeriesInputs,     \* The series buildSeries may return for a channel.
  OptionInputs      \* The Options a caller may pass.

ASSUME InputsAssumption ==
  /\ \A points \in SeriesInputs : IsSeries(points)
  /\ OptionInputs \subseteq RawOptions

VARIABLES
  points,           \* The channel's metric points.
  opts,             \* normalized: the options in force.
  evaluating,       \* The metric whose streak is being evaluated, or the step after.
  consumed,         \* How many points the running evaluateStreak has looked at.
  loop,             \* The local variables of the running evaluateStreak.
  streaks,          \* slotStreak, liqStreak and corroboratedStreak.
  findings          \* The findings appended for this channel.

vars == <<points, opts, evaluating, consumed, loop, streaks, findings>>

Stages == Metric \cup {"classify", "done"}

\* The order of the three calls, and of what follows them.
After == [slot |-> "liquidity", liquidity |-> "corroborated", corroborated |-> "classify"]

TypeOK ==
  /\ IsSeries(points)
  /\ opts \in NormalizedOptions
  /\ evaluating \in Stages
  /\ consumed \in 0..Len(points)
  /\ loop \in LoopState
  /\ streaks \in [Metric -> StreakInfo]
  /\ findings \in Seq(Finding)

Init ==
  /\ points \in SeriesInputs
  /\ opts \in {normalizeOptions(o) : o \in OptionInputs}
  /\ evaluating = "slot"
  /\ consumed = 0
  /\ loop = LoopStart
  /\ streaks = [m \in Metric |-> NoStreak]
  /\ findings = <<>>

\* One iteration of the range loop of evaluateStreak.
EvaluatePoint ==
  /\ evaluating \in Metric
  /\ consumed < Len(points)
  /\ loop' = Iteration(opts, evaluating, loop, points[consumed + 1])
  /\ consumed' = consumed + 1
  /\ UNCHANGED <<points, opts, evaluating, streaks, findings>>

\* evaluateStreak returns its best run; the next call starts afresh.
ReturnStreak ==
  /\ evaluating \in Metric
  /\ consumed = Len(points)
  /\ streaks' = [streaks EXCEPT ![evaluating] = loop.best]
  /\ evaluating' = After[evaluating]
  /\ loop' = LoopStart
  /\ consumed' = 0
  /\ UNCHANGED <<points, opts, findings>>

Classify ==
  /\ evaluating = "classify"
  /\ findings' = ChannelFindings(opts, streaks)
  /\ evaluating' = "done"
  /\ UNCHANGED <<points, opts, consumed, loop, streaks>>

Next == EvaluatePoint \/ ReturnStreak \/ Classify

\* The loop is straight-line sequential code: it never stops before its end.
Spec == Init /\ [][Next]_vars /\ WF_vars(Next)

-----------------------------------------------------------------------------
(* The promise *)

\* The pairs of metric and severity reported once the channel is done.
Reported ==
  IF evaluating = "done" THEN {<<findings[i].metric, findings[i].severity>> : i \in DOMAIN findings}
                         ELSE {<<"slot", "pending">>}

Promise == INSTANCE ChannelVerdict WITH verdict <- Reported

\* The three passes, their counters and the classification implement the
\* verdict stated over windows of snapshots: High needs MinSustainedSamples
\* consecutive elevated snapshots (a single snapshot never yields High), any
\* such window is reported as High, spikes only with EmitObserved, and the
\* channel is always decided.  (Analyze, analyzer.go:43-181)
ImplementsVerdict == Promise!Spec

-----------------------------------------------------------------------------
(* Safety *)

\* The call of evaluateStreak for the metric has returned.
Evaluated(metric) ==
  \/ evaluating \in {"classify", "done"}
  \/ evaluating = "liquidity" /\ metric = "slot"
  \/ evaluating = "corroborated" /\ metric \in {"slot", "liquidity"}

\* The streak evaluateStreak returns is the first longest unbroken run of
\* elevated snapshots of the channel, with the peak of that same run: a snapshot
\* where the channel is below the threshold, or is missing, ends the run, and no
\* maximum leaks from one run into the next.  (evaluateStreak, analyzer.go:262-296)
StreaksAreLongestRuns ==
  \A m \in Metric : Evaluated(m) => IsLongestRun(points, opts, m, Len(points), streaks[m])

\* Corroboration is never the weaker evidence: a channel reported as
\* corroborated, whose single-metric findings Analyze then skips, has sustained
\* slot pressure and sustained liquidity pressure too, although the three
\* streaks come from three separate passes.  (Analyze, analyzer.go:76-100)
CorroborationImpliesBoth ==
  evaluating \in {"classify", "done"} /\ Sustained(opts, streaks["corroborated"])
    => Sustained(opts, streaks["slot"]) /\ Sustained(opts, streaks["liquidity"])

\* Every finding explains itself: what it measured reaches the threshold it
\* quotes, also for the corroborated finding, whose evidence sets the maximum
\* of two ratios against the maximum of two thresholds.  (analyzer.go:90-97)
EvidenceReachesThreshold ==
  \A i \in DOMAIN findings :
    /\ findings[i].window_samples > 0
    /\ findings[i].measured_value >= findings[i].threshold
-----------------------------------------------------------------------------
(* The inductive invariant *)

\* The run that ends at the n-th point, which evaluateStreak carries in
\* currentLength, currentMax and prevIndex: empty when that point is calm.
IsCurrentRun(series, o, metric, n, l) ==
  /\ l.currentLength <= n
  /\ l.currentLength <= l.best.length
  /\ \A a \in 1..n : IsRun(series, o, metric, a, n) => n - a + 1 <= l.currentLength
  /\ l.currentLength > 0 =>
       /\ IsRun(series, o, metric, n - l.currentLength + 1, n)
       /\ IsPeak(series, metric, n - l.currentLength + 1, n, l.currentMax)
       /\ l.prevIndex = series[n].snapshotIndex

IsLoopAt(series, o, metric, n, l) ==
  /\ IsLongestRun(series, o, metric, n, l.best)
  /\ IsCurrentRun(series, o, metric, n, l)

\* Between two iterations the loop knows the longest run so far and the run it
\* is in; the streaks already returned stay right; the findings are those of
\* the streaks.
IInv ==
  /\ TypeOK
  /\ evaluating \in Metric => IsLoopAt(points, opts, evaluating, consumed, loop)
  /\ StreaksAreLongestRuns
  /\ findings = IF evaluating = "done" THEN ChannelFindings(opts, streaks) ELSE <<>>
=============================================================================
