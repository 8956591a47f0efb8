-------------------------- MODULE TimelineAnalysis --------------------------
(***************************************************************************)
(* "lnaudit jamming analyze" over a timeline that grows: each run appends  *)
(* the snapshot it took (AppendSnapshot, or an editor that merges files),  *)
(* analyzes the whole timeline (Analyze, pkg/jamming/analyzer.go), and     *)
(* prints, scores and gates what it found (cmd/jamming.go).                *)
(*                                                                         *)
(* A file lists snapshots in any order and may repeat a timestamp; a       *)
(* snapshot lists channels in any order and may repeat one.                *)
(***************************************************************************)
EXTENDS Runs, Scanner

CONSTANTS
  ChannelLists,     \* The channel lists a snapshot may hold.
  MaxTime,          \* Timestamps are 1..MaxTime.
  MaxSnapshots,     \* The most snapshots a timeline holds.
  FlagInputs        \* The flags of the command: opts, minSeverity and failOn.

\* One channel of a snapshot, with the fields Analyze reads.
ChannelSample == [ChanID : Nat, PendingHTLCCount : Int, RemoteMaxHTLCs : Nat,
                  PendingHTLCValueSat : Int, CapacitySat : Int]

Snapshot == [Timestamp : Nat, Channels : Seq(ChannelSample)]

Flags == [opts : RawOptions, minSeverity : Severity, failOn : Severity]

ASSUME TimelineAssumption ==
  /\ \A channels \in ChannelLists : channels \in Seq(ChannelSample)
  /\ MaxTime \in Nat /\ MaxSnapshots \in Nat
  /\ FlagInputs \subseteq Flags

-----------------------------------------------------------------------------
(* buildSeries *)

defaultRemoteMaxHTLCs == 483

\* Mutant: the file is taken to be in order.
AsInFile(snapshots) == snapshots

\* In the order of the timestamps; equal ones stay in the order of the file.
SortedByTime(snapshots) ==
  LET before(i, j) == \/ snapshots[i].Timestamp < snapshots[j].Timestamp
                      \/ snapshots[i].Timestamp = snapshots[j].Timestamp /\ i < j
      position == Sorted(DOMAIN snapshots, before)
  IN  [k \in DOMAIN snapshots |-> snapshots[position[k]]]

\* The first snapshot of each timestamp: a snapshot is left out if the last one
\* that was kept, and so the one before it, has its timestamp.
Deduped(snapshots) ==
  LET sorted == SortedByTime(snapshots)
  IN  FlattenSeq([k \in DOMAIN sorted |->
                    IF k > 1 /\ sorted[k].Timestamp = sorted[k - 1].Timestamp
                      THEN <<>> ELSE <<sorted[k]>>])

NonNegative(n) == IF n < 0 THEN 0 ELSE n

Point(index, channel) ==
  LET slots == IF channel.RemoteMaxHTLCs < 1 THEN defaultRemoteMaxHTLCs
                                             ELSE channel.RemoteMaxHTLCs
  IN  [snapshotIndex       |-> index,
       slotSaturation      |-> (NonNegative(channel.PendingHTLCCount) * Scale) \div slots,
       liquiditySaturation |-> IF channel.CapacitySat > 0
                                 THEN (NonNegative(channel.PendingHTLCValueSat) * Scale)
                                        \div channel.CapacitySat
                                 ELSE 0,
       hasLiquidity        |-> channel.CapacitySat > 0]

\* The rows of a channel in a snapshot; the first one counts.
Rows(snapshot, chanID) == {i \in DOMAIN snapshot.Channels : snapshot.Channels[i].ChanID = chanID}

\* The point of a channel in a snapshot, if it has one.
PointIn(index, snapshot, chanID) ==
  LET rows == Rows(snapshot, chanID)
  IN  IF rows = {} THEN <<>> ELSE <<Point(index, snapshot.Channels[Min(rows)])>>

\* Mutant: snapshots without channels are left out before they are numbered.
SeriesOfNonEmpty(deduped, chanID) ==
  LET kept == SelectSeq(deduped, LAMBDA s : s.Channels # <<>>)
  IN  FlattenSeq([k \in DOMAIN kept |-> PointIn(k - 1, kept[k], chanID)])

\* seriesByChannel[chanID]; snapshots are numbered from 0, also the empty ones.
Series(deduped, chanID) ==
  FlattenSeq([k \in DOMAIN deduped |-> PointIn(k - 1, deduped[k], chanID)])

ChannelIDs(snapshots) ==
  UNION {{s.Channels[i].ChanID : i \in DOMAIN s.Channels} : s \in ToSet(snapshots)}

SampleCount(deduped) == Cardinality({k \in DOMAIN deduped : deduped[k].Channels # <<>>})

-----------------------------------------------------------------------------
(* Analyze *)

\* The local variables of evaluateStreak after k turns of its loop.
LoopAfter(points, opts, metric) ==
  LET loop[k \in 0..Len(points)] ==
        IF k = 0 THEN LoopStart ELSE Iteration(opts, metric, loop[k - 1], points[k])
  IN  loop

\* Mutant: the run at the end is returned, not the best one.
evaluateLastStreak(points, opts, metric) ==
  LET loop == LoopAfter(points, opts, metric)[Len(points)]
  IN  [length |-> loop.currentLength, maxValue |-> loop.currentMax]

evaluateStreak(points, opts, metric) == LoopAfter(points, opts, metric)[Len(points)].best

StreaksOf(points, opts) == [m \in Metric |-> evaluateStreak(points, opts, m)]

\* The order of the class names.
ClassRank == [corroborated |-> 1, liquidity |-> 2, slot |-> 3]

Before(f, g) ==
  \/ Rank[f.severity] > Rank[g.severity]
  \/ f.severity = g.severity /\ ClassRank[f.metric] < ClassRank[g.metric]
  \/ f.severity = g.severity /\ f.metric = g.metric /\ f.channel < g.channel

\* A finding of a channel, with the fields that do not come from its streak.
Located(f, chanID, sampleCount) ==
  [id |-> f.id, metric |-> f.metric, severity |-> f.severity, confidence |-> f.confidence,
   measured_value |-> f.measured_value, threshold |-> f.threshold,
   window_samples |-> f.window_samples, channel |-> chanID, sample_count |-> sampleCount]

Analyze(snapshots, rawOpts) ==
  LET opts    == normalizeOptions(rawOpts)
      deduped == Deduped(snapshots)
      count   == SampleCount(deduped)
      perChannel(c) == ChannelFindings(opts, StreaksOf(Series(deduped, c), opts))
      found   == UNION {{Located(f, c, count) : f \in ToSet(perChannel(c))}
                          : c \in ChannelIDs(deduped)}
  IN  Sorted(found, Before)

-----------------------------------------------------------------------------
(* The command *)

VARIABLES
  timeline,         \* The snapshots, in the order of the file.
  flags,            \* The flags, the same in every run.
  report,           \* What the last run found.
  displayed,        \* What it printed.
  score,            \* The score it printed.
  exit              \* Its exit code.

timelineVars == <<timeline, flags, report, displayed, score, exit>>

TimelineInit ==
  /\ timeline = <<>>
  /\ flags \in FlagInputs
  /\ report = <<>>
  /\ displayed = <<>>
  /\ score = 100
  /\ exit = 0

\* Mutant: the gate looks at what is displayed.
runJammingAnalyzeOfDisplay(snapshots) ==
  LET found == Analyze(snapshots, flags.opts)
      shown == AtLeast(found, flags.minSeverity)
  IN  /\ report' = found
      /\ displayed' = shown
      /\ score' = Score(shown)
      /\ exit' = IF HasFindingsAtOrAbove(shown, flags.failOn) THEN 1 ELSE 0

\* runJammingAnalyze, once the timeline has been resolved.
runJammingAnalyze(snapshots) ==
  LET found == Analyze(snapshots, flags.opts)
  IN  /\ report' = found
      /\ displayed' = AtLeast(found, flags.minSeverity)
      /\ score' = Score(found)
      /\ exit' = IF HasFindingsAtOrAbove(found, flags.failOn) THEN 1 ELSE 0

RecordAndAnalyze(time, channels) ==
  LET snapshots == Append(timeline, [Timestamp |-> time, Channels |-> channels])
  IN  /\ Len(timeline) < MaxSnapshots
      /\ timeline' = snapshots
      /\ runJammingAnalyze(snapshots)
      /\ UNCHANGED flags

TimelineNext == \E time \in 1..MaxTime, channels \in ChannelLists : RecordAndAnalyze(time, channels)

TimelineSpec == TimelineInit /\ [][TimelineNext]_timelineVars

-----------------------------------------------------------------------------
(* The inductive invariant *)

\* What the last run printed follows from the file.
TimelineInv ==
  /\ timeline \in Seq(Snapshot)
  /\ flags \in Flags
  /\ report = Analyze(timeline, flags.opts)
  /\ displayed = AtLeast(report, flags.minSeverity)
  /\ score = Score(report)
  /\ exit = IF HasFindingsAtOrAbove(report, flags.failOn) THEN 1 ELSE 0

-----------------------------------------------------------------------------
(* The verdict, stated on the file itself *)

Times == {s.Timestamp : s \in ToSet(timeline)}

\* The snapshot that stands for a timestamp: the first in the file.
At(time) ==
  timeline[CHOOSE i \in DOMAIN timeline :
             /\ timeline[i].Timestamp = time
             /\ \A j \in 1..(i - 1) : timeline[j].Timestamp # time]

\* The first row of the channel is elevated: occupied slots, or the value in
\* flight, reach the threshold's share of the limit, or of the capacity.
RowElevated(row, opts, metric) ==
  LET slots == IF row.RemoteMaxHTLCs = 0 THEN 483 ELSE row.RemoteMaxHTLCs
      slot  == row.PendingHTLCCount * Scale >= opts.SlotSaturationThreshold * slots
      liquidity == /\ row.CapacitySat > 0
                   /\ row.PendingHTLCValueSat * Scale
                        >= opts.LiquiditySaturationThreshold * row.CapacitySat
  IN  /\ metric # "liquidity" => slot
      /\ metric # "slot" => liquidity

Elevated(time, chanID, opts, metric) ==
  LET channels == At(time).Channels
  IN  \E i \in DOMAIN channels :
        /\ channels[i].ChanID = chanID
        /\ \A j \in 1..(i - 1) : channels[j].ChanID # chanID
        /\ RowElevated(channels[i], opts, metric)

\* There are n timestamps in a row at all of which the channel is elevated.
ElevatedWindow(chanID, opts, metric, n) ==
  \E first, last \in Times :
    LET window == Times \cap first..last
    IN  /\ Cardinality(window) >= n
        /\ \A t \in window : Elevated(t, chanID, opts, metric)

SustainedOnFile(chanID, metric) ==
  LET opts == normalizeOptions(flags.opts)
  IN  ElevatedWindow(chanID, opts, metric, opts.MinSustainedSamples)

\* The list has a finding of that severity about the channel and metric.
Reports(list, chanID, metric, severity) ==
  \E i \in DOMAIN list : /\ list[i].channel = chanID
                         /\ list[i].metric = metric
                         /\ list[i].severity = severity

AnyHigh(list, chanID) == \E m \in Metric : Reports(list, chanID, m, "High")

-----------------------------------------------------------------------------
(* Properties *)

\* However the file orders its snapshots and rows, sorting, deduplication and
\* the streak counters report High exactly for the channels that are elevated
\* at MinSustainedSamples timestamps in a row: corroborated if both metrics are
\* at the same timestamps, else each metric on its own.  Recording a timestamp
\* again, or a snapshot without the channel, never bridges two shorter windows.
\* (Analyze and buildSeries, analyzer.go:25-260)
HighsAreWindowsOfTheFile ==
  \A c \in ChannelIDs(timeline) :
    LET both == SustainedOnFile(c, "corroborated")
    IN  /\ Reports(report, c, "corroborated", "High") <=> both
        /\ \A m \in {"slot", "liquidity"} :
             Reports(report, c, m, "High") <=> (SustainedOnFile(c, m) /\ ~both)

\* The gate follows the whole timeline, not what is shown: the exit code says
\* whether a channel has pressure of the severity asked for, and a display
\* filter neither raises the score nor silences the gate.
\* (cmd/jamming.go:83-126)
GateIgnoresDisplay ==
  /\ (exit = 1) <=> \E f \in ToSet(report) : AtOrAbove(f.severity, flags.failOn)
  /\ score = 100 => \A f \in ToSet(report) : f.severity = "Info"
  /\ \A f \in ToSet(report) : AtOrAbove(f.severity, flags.minSeverity) <=> f \in ToSet(displayed)

\* The file with the i-th and the next snapshot exchanged.
Exchanged(i) == [timeline EXCEPT ![i] = timeline[i + 1], ![i + 1] = timeline[i]]

\* The order in which snapshots of different times reach the file, which is
\* that in which overlapping runs finish, does not change the report.
\* (analyzer.go:199-260; threat model, "Determinism")
OrderOfFileIsIrrelevant ==
  \A i \in 1..(Len(timeline) - 1) :
    timeline[i].Timestamp # timeline[i + 1].Timestamp
      => Analyze(Exchanged(i), flags.opts) = report

\* New evidence never clears old: once a channel has been reported High, a later
\* snapshot leaves it reported High, and a corroborated one corroborated; the
\* second record of a timestamp changes nothing at all.
LaterSnapshotsClearNothing ==
  [][LET new == Last(timeline') IN
     /\ (\A t \in Times : t < new.Timestamp) =>
          \A c \in ChannelIDs(timeline) :
            /\ AnyHigh(report, c) => AnyHigh(report', c)
            /\ Reports(report, c, "corroborated", "High")
                 => Reports(report', c, "corroborated", "High")
     /\ new.Timestamp \in Times => report' = report]_timelineVars
=============================================================================
