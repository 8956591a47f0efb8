-------------------------- MODULE MCTimelineStore --------------------------
(***************************************************************************)
(* TimelineStore for a few recorders, with and without an existing file.   *)
(* Recorders are numbered, so that their snapshots differ in size.         *)
(***************************************************************************)
EXTENDS TimelineStore

MCEarlier == <<0>>

\* Snapshots of odd recorders take one byte more than those of even ones: a
\* timeline that has missed a snapshot can be shorter than another by one byte,
\* or by more, or as long.
MCWidth == [r \in Snapshot |-> 2 + (r % 2)]

\* After the first byte of a snapshot, the last one of another decodes, or a
\* newline; no other two parts do.
MCFitting ==
  {<<Part(q, 1), Part(r, Width[r])>> : q, r \in Snapshot} \cup {<<Part(q, 1), NewLine>> : q \in Snapshot}
=============================================================================
