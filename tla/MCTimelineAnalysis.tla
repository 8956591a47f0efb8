------------------------- MODULE MCTimelineAnalysis -------------------------
(***************************************************************************)
(* TimelineAnalysis for two channels and a few channel lists.  Scale is a  *)
(* multiple of the denominators used, 10 and 483, so that no ratio is      *)
(* rounded.                                                                *)
(***************************************************************************)
EXTENDS TimelineAnalysis

\* A channel with 10 slots and a capacity of 10, some of each in use.
Row(c, slots, value) ==
  [ChanID |-> c, PendingHTLCCount |-> slots, RemoteMaxHTLCs |-> 10,
   PendingHTLCValueSat |-> value, CapacitySat |-> 10]

\* No limit known (483 slots are assumed) and no capacity known.
RowWithoutLimits(c, slots, value) ==
  [Row(c, slots, value) EXCEPT !.RemoteMaxHTLCs = 0, !.CapacitySat = 0]

\* Nothing open; calm; slots; liquidity; both, the first of two rows of the
\* channel, with another channel listed first; a negative count and no limits.
MCChannelLists == {
  <<>>,
  <<Row(1, 5, 5)>>,
  <<Row(1, 6, 0)>>,
  <<Row(1, 0, 6)>>,
  <<Row(2, 9, 0), Row(1, 7, 8), Row(1, 0, 0)>>,
  <<RowWithoutLimits(1, 290, 9), Row(2, 6, -4)>>,
  <<RowWithoutLimits(1, 289, 9), Row(2, -6, 6)>>}

MCOptions == [SlotSaturationThreshold |-> 0, LiquiditySaturationThreshold |-> (3 * Scale) \div 5,
              MinSustainedSamples |-> 2, EmitObserved |-> TRUE]

MCFlagInputs == {
  [opts |-> MCOptions, minSeverity |-> "High", failOn |-> "Medium"],
  [opts |-> [MCOptions EXCEPT !.EmitObserved = FALSE], minSeverity |-> "Low", failOn |-> "High"]}
=============================================================================
