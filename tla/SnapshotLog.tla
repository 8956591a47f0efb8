---------------------------- MODULE SnapshotLog ----------------------------
(***************************************************************************)
(* What a timeline file promises to the runs that record into it: a log    *)
(* to which every run appends one snapshot and from which nothing is ever  *)
(* lost.  TimelineStore implements it as long as runs do not overlap and   *)
(* no write is cut short.                                                  *)
(***************************************************************************)
EXTENDS Sequences, Functions

CONSTANTS
  Recorder,         \* The runs of "jamming analyze --record", one snapshot each.
  Earlier           \* The snapshots recorded before.

VARIABLE log

Init == log \in {<<>>, Earlier}

Record(r) ==
  /\ r \notin Range(log)
  /\ log' = Append(log, r)

Next == \E r \in Recorder : Record(r)

Spec == Init /\ [][Next]_log
=============================================================================
