------------------------------ MODULE Streaks ------------------------------
(***************************************************************************)
(* The pure part of the temporal jamming analyzer, pkg/jamming/analyzer.go *)
(* and pkg/jamming/types.go: the metric points of one channel, the three   *)
(* predicates Analyze hands to evaluateStreak, one iteration of the loop   *)
(* of evaluateStreak, and the findings Analyze derives for a channel.      *)
(*                                                                         *)
(* A saturation ratio is an integer in units of 1/Scale.  The code only    *)
(* ever compares ratios, and every ratio of the models is a multiple of    *)
(* 1/Scale, so the order of the float64 values is kept exactly.            *)
(***************************************************************************)
EXTENDS Integers, Sequences

CONSTANT
  Scale             \* The ratio 1.0: ratios are counted in units of 1/Scale.

\* 3/5 of Scale is a whole number of units: the default threshold is 0.60.
ASSUME ScaleAssumption == Scale \in Nat \ {0} /\ Scale % 5 = 0

-----------------------------------------------------------------------------
(* Types *)

Saturation == Nat

MetricPoint == [snapshotIndex       : Nat,
                slotSaturation      : Saturation,
                liquiditySaturation : Saturation,
                hasLiquidity        : BOOLEAN]

StreakInfo == [length : Nat, maxValue : Saturation]

NoStreak == [length |-> 0, maxValue |-> 0]

\* buildSeries numbers the snapshots in order and adds at most one point per
\* channel and snapshot: the indices of a series strictly increase.
IsSeries(points) ==
  /\ points \in Seq(MetricPoint)
  /\ \A i, j \in 1..Len(points) :
       i < j => points[i].snapshotIndex < points[j].snapshotIndex

\* What a caller may pass: thresholds of any size and sign.
RawOptions == [SlotSaturationThreshold      : Int,
               LiquiditySaturationThreshold : Int,
               MinSustainedSamples          : Int,
               EmitObserved                 : BOOLEAN]

-----------------------------------------------------------------------------
(* Options *)

DefaultOptions == [SlotSaturationThreshold      |-> (3 * Scale) \div 5,
                   LiquiditySaturationThreshold |-> (3 * Scale) \div 5,
                   MinSustainedSamples          |-> 3,
                   EmitObserved                 |-> FALSE]

\* Mutant: a window of a single sample is accepted.
normalizeOptionsAcceptingOne(opts) ==
  [SlotSaturationThreshold      |-> DefaultOptions.SlotSaturationThreshold,
   LiquiditySaturationThreshold |-> DefaultOptions.LiquiditySaturationThreshold,
   MinSustainedSamples          |-> IF opts.MinSustainedSamples >= 1
                                      THEN opts.MinSustainedSamples ELSE 3,
   EmitObserved                 |-> opts.EmitObserved]

normalizeOptions(opts) ==
  LET threshold(given, default) == IF given \in 1..Scale THEN given ELSE default
  IN  [SlotSaturationThreshold |->
         threshold(opts.SlotSaturationThreshold, DefaultOptions.SlotSaturationThreshold),
       LiquiditySaturationThreshold |->
         threshold(opts.LiquiditySaturationThreshold, DefaultOptions.LiquiditySaturationThreshold),
       MinSustainedSamples |->
         IF opts.MinSustainedSamples >= 2 THEN opts.MinSustainedSamples
                                          ELSE DefaultOptions.MinSustainedSamples,
       EmitObserved |-> opts.EmitObserved]

\* What normalizeOptions leaves: thresholds in (0, 1], a window of two or more.
NormalizedOptions == [SlotSaturationThreshold      : 1..Scale,
                      LiquiditySaturationThreshold : 1..Scale,
                      MinSustainedSamples          : Nat \ {0, 1},
                      EmitObserved                 : BOOLEAN]

-----------------------------------------------------------------------------
(* The predicates of the three evaluateStreak calls *)

Metric == {"slot", "liquidity", "corroborated"}

Larger(a, b) == IF a >= b THEN a ELSE b

SlotHigh(opts, point) ==
  point.slotSaturation >= opts.SlotSaturationThreshold

LiquidityHigh(opts, point) ==
  /\ point.hasLiquidity
  /\ point.liquiditySaturation >= opts.LiquiditySaturationThreshold

\* Mutant: either metric corroborates.
MatchedByEither(opts, metric, point) ==
  \/ metric \in {"slot", "corroborated"} /\ SlotHigh(opts, point)
  \/ metric \in {"liquidity", "corroborated"} /\ LiquidityHigh(opts, point)

Matched(opts, metric, point) ==
  /\ metric \in {"slot", "corroborated"} => SlotHigh(opts, point)
  /\ metric \in {"liquidity", "corroborated"} => LiquidityHigh(opts, point)

\* Mutant: corroborated pressure is measured by the slots alone.
ValueOfSlots(metric, point) ==
  IF metric = "liquidity" THEN point.liquiditySaturation ELSE point.slotSaturation

Value(metric, point) ==
  CASE metric = "slot"         -> point.slotSaturation
    [] metric = "liquidity"    -> point.liquiditySaturation
    [] metric = "corroborated" -> Larger(point.slotSaturation, point.liquiditySaturation)

Threshold(opts, metric) ==
  CASE metric = "slot"         -> opts.SlotSaturationThreshold
    [] metric = "liquidity"    -> opts.LiquiditySaturationThreshold
    [] metric = "corroborated" -> Larger(opts.SlotSaturationThreshold,
                                         opts.LiquiditySaturationThreshold)

-----------------------------------------------------------------------------
(* The loop of evaluateStreak: its local variables and one iteration *)

LoopState == [best : StreakInfo, currentLength : Nat,
              currentMax : Saturation, prevIndex : Nat \cup {-1}]

LoopStart == [best |-> NoStreak, currentLength |-> 0, currentMax |-> 0, prevIndex |-> -1]

\* Mutant: a snapshot without the channel does not end the run.
ContinuesOverGaps(loop, point) == loop.currentLength # 0

\* The point carries the current run on: it is that of the very next snapshot.
Continues(loop, point) ==
  /\ loop.currentLength # 0
  /\ point.snapshotIndex = loop.prevIndex + 1

\* Mutant: the count of the run before is kept.
BreakRunKeepingLength(loop) == [loop EXCEPT !.currentMax = 0]

BreakRun(loop) ==
  [loop EXCEPT !.currentLength = 0, !.currentMax = 0, !.prevIndex = -1]

TakePoint(loop, point, value) ==
  LET length == IF Continues(loop, point) THEN loop.currentLength + 1 ELSE 1
      top    == IF Continues(loop, point) THEN Larger(loop.currentMax, value) ELSE value
  IN  [best          |-> IF length > loop.best.length
                           THEN [length |-> length, maxValue |-> top]
                           ELSE loop.best,
       currentLength |-> length,
       currentMax    |-> top,
       prevIndex     |-> point.snapshotIndex]

Iteration(opts, metric, loop, point) ==
  IF Matched(opts, metric, point)
    THEN TakePoint(loop, point, Value(metric, point))
    ELSE BreakRun(loop)

-----------------------------------------------------------------------------
(* Findings of one channel, in the order they are appended *)

Severities == {"Medium", "High"}
Confidences == {"observed", "sustained", "corroborated"}
Ids == {"J-16-1", "J-16-2", "J-16-3"}

Finding == [id : Ids, metric : Metric, severity : Severities, confidence : Confidences,
            measured_value : Saturation, threshold : Saturation, window_samples : Nat]

FindingFor(opts, metric, severity, confidence, streak) ==
  [id             |-> CASE metric = "slot"         -> "J-16-1"
                        [] metric = "liquidity"    -> "J-16-2"
                        [] metric = "corroborated" -> "J-16-3",
   metric         |-> metric,
   severity       |-> severity,
   confidence     |-> confidence,
   measured_value |-> streak.maxValue,
   threshold      |-> Threshold(opts, metric),
   window_samples |-> streak.length]

\* Mutant: off by one.
SustainedAbove(opts, streak) == streak.length > opts.MinSustainedSamples

Sustained(opts, streak) == streak.length >= opts.MinSustainedSamples

\* The findings about one metric on its own: none, an observed spike or
\* sustained pressure.
SingleMetric(opts, metric, streak) ==
  IF Sustained(opts, streak)
    THEN <<FindingFor(opts, metric, "High", "sustained", streak)>>
  ELSE IF streak.length > 0 /\ opts.EmitObserved
    THEN <<FindingFor(opts, metric, "Medium", "observed", streak)>>
  ELSE <<>>

\* Corroborated pressure replaces the findings about the single metrics.
ChannelFindings(opts, streaks) ==
  IF Sustained(opts, streaks["corroborated"])
    THEN <<FindingFor(opts, "corroborated", "High", "corroborated", streaks["corroborated"])>>
    ELSE SingleMetric(opts, "slot", streaks["slot"])
           \o SingleMetric(opts, "liquidity", streaks["liquidity"])
=============================================================================
