--------------------------- MODULE ChannelVerdict ---------------------------
(***************************************************************************)
(* What the jamming analyzer promises about one channel, without loops or  *)
(* counters: the verdict follows from which windows of consecutive         *)
(* snapshots are elevated throughout.  ChannelAnalysis implements it.      *)
(***************************************************************************)
EXTENDS Runs

VARIABLES
  points,           \* The channel's metric points.
  opts,             \* The normalized options.
  verdict           \* Pending, or the pairs of metric and severity reported.

Pending == {<<"slot", "pending">>}

-----------------------------------------------------------------------------
(* The verdict *)

IsSustained(series, o, metric) ==
  HasWindow(series, o, metric, o.MinSustainedSamples)

IsObserved(series, o, metric) ==
  /\ o.EmitObserved
  /\ ~IsSustained(series, o, metric)
  /\ \E k \in 1..Len(series) : Matched(o, metric, series[k])

Verdict(series, o) ==
  IF IsSustained(series, o, "corroborated")
    THEN {<<"corroborated", "High">>}
    ELSE {<<m, "High">> : m \in {n \in {"slot", "liquidity"} : IsSustained(series, o, n)}}
           \cup
         {<<m, "Medium">> : m \in {n \in {"slot", "liquidity"} : IsObserved(series, o, n)}}

-----------------------------------------------------------------------------
(* The specification *)

Init ==
  /\ IsSeries(points)
  /\ opts \in NormalizedOptions
  /\ verdict = Pending

Decide ==
  /\ verdict = Pending
  /\ verdict' = Verdict(points, opts)
  /\ UNCHANGED <<points, opts>>

vars == <<points, opts, verdict>>

\* The verdict, if any is given, is the right one, and it is given once.
SafeSpec == Init /\ [][Decide]_vars

\* It is given.
Spec == SafeSpec /\ WF_vars(Decide)
=============================================================================
