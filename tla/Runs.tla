-------------------------------- MODULE Runs --------------------------------
(***************************************************************************)
(* Runs of elevated snapshots, defined without loops or counters: what the *)
(* threat model (docs/CHANNEL-JAMMING-THREAT-MODEL.md) means by a channel  *)
(* that is saturated over consecutive samples.  The reference definitions  *)
(* for evaluateStreak and for the findings built on it.                    *)
(***************************************************************************)
EXTENDS Streaks

\* series[a..b] is an unbroken run: every point is elevated and each is that
\* of the snapshot right after the one before.
IsRun(series, opts, metric, a, b) ==
  /\ \A k \in a..b : Matched(opts, metric, series[k])
  /\ \A k \in a..b : k > a => series[k].snapshotIndex = series[k - 1].snapshotIndex + 1

\* There is a run of at least n elevated points.
HasWindow(series, opts, metric, n) ==
  \E a, b \in 1..Len(series) :
    /\ a <= b
    /\ b - a + 1 >= n
    /\ IsRun(series, opts, metric, a, b)

\* v is the highest value of the metric over series[a..b].
IsPeak(series, metric, a, b, v) ==
  /\ \A k \in a..b : Value(metric, series[k]) <= v
  /\ \E k \in a..b : Value(metric, series[k]) = v

\* No run within the first n points is longer than the streak says.
CoversAllRuns(series, opts, metric, n, streak) ==
  \A a, b \in 1..n :
    a <= b /\ IsRun(series, opts, metric, a, b) => b - a + 1 <= streak.length

\* The streak is series[a..b], with its peak, and every run before is shorter.
IsFirstRun(series, opts, metric, a, b, streak) ==
  /\ a <= b
  /\ b - a + 1 = streak.length
  /\ IsRun(series, opts, metric, a, b)
  /\ IsPeak(series, metric, a, b, streak.maxValue)
  /\ \A c, d \in 1..b :
       c <= d /\ d < b /\ IsRun(series, opts, metric, c, d) => d - c + 1 < streak.length

\* The streak is the first longest run within the first n points.
IsLongestRun(series, opts, metric, n, streak) ==
  /\ CoversAllRuns(series, opts, metric, n, streak)
  /\ \/ streak = NoStreak
     \/ \E a, b \in 1..n : IsFirstRun(series, opts, metric, a, b, streak)
=============================================================================
