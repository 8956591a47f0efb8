------------------------- MODULE MCChannelAnalysis -------------------------
(***************************************************************************)
(* ChannelAnalysis on every history of a channel over a few snapshots.     *)
(***************************************************************************)
EXTENDS ChannelAnalysis, SequencesExt

CONSTANT Snapshots  \* Bound: how many snapshots the timeline holds.

\* Calm, the threshold itself, above it; a channel without a known capacity.
MCShapes ==
  {[slotSaturation |-> 2, liquiditySaturation |-> 2, hasLiquidity |-> TRUE],
   [slotSaturation |-> 3, liquiditySaturation |-> 1, hasLiquidity |-> TRUE],
   [slotSaturation |-> 5, liquiditySaturation |-> 0, hasLiquidity |-> FALSE],
   [slotSaturation |-> 0, liquiditySaturation |-> 4, hasLiquidity |-> TRUE],
   [slotSaturation |-> 3, liquiditySaturation |-> 4, hasLiquidity |-> TRUE]}

\* The series of a channel with the given sample, or none, in each snapshot.
MCSeriesOf(history) ==
  LET present == SetToSortSeq({i \in DOMAIN history : history[i] \in MCShapes}, <)
  IN  [k \in DOMAIN present |-> [snapshotIndex |-> present[k]] @@ history[present[k]]]

MCSeriesInputs ==
  {MCSeriesOf(history) : history \in [0..Snapshots - 1 -> MCShapes \cup {<<>>}]}

\* A window of two with observed spikes, two different thresholds, and values
\* that normalizeOptions replaces by the defaults.
MCOptionInputs ==
  {[SlotSaturationThreshold |-> 3, LiquiditySaturationThreshold |-> 3,
    MinSustainedSamples |-> 2, EmitObserved |-> TRUE],
   [SlotSaturationThreshold |-> 3, LiquiditySaturationThreshold |-> 4,
    MinSustainedSamples |-> 2, EmitObserved |-> FALSE],
   [SlotSaturationThreshold |-> 0, LiquiditySaturationThreshold |-> 6,
    MinSustainedSamples |-> 1, EmitObserved |-> TRUE]}
=============================================================================
