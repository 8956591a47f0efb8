--------------------------- MODULE TimelineStore ---------------------------
(***************************************************************************)
(* The timeline file and the processes that record into it.  Each recorder *)
(* is one run of "lnaudit jamming analyze --connect ... --record <file>",  *)
(* started by cron or a systemd timer (README.md): it takes the time, asks *)
(* the node for its channels, and then AppendSnapshot (pkg/jamming/io.go)  *)
(* stats the file, loads it, appends the snapshot in memory, truncates the *)
(* file and writes it whole; resolveJammingTimeline (cmd/jamming.go) reads *)
(* the file back.  Nothing locks the file.                                 *)
(*                                                                         *)
(* What the channels in a snapshot look like is the business of            *)
(* TimelineAnalysis.                                                       *)
(***************************************************************************)
EXTENDS TimelineFile

CONSTANTS
  Missing,          \* The content of a path without a file.
  Overlapping,      \* Whether a run may start while another one is active.
  Failing           \* Whether runs may be killed and writes be cut short.

ASSUME StoreAssumption ==
  /\ Overlapping \in BOOLEAN /\ Failing \in BOOLEAN
  /\ Missing \notin Seq(Byte) /\ Missing \notin Seq(Snapshot) /\ Missing # Garbage

VARIABLES
  file,             \* The bytes in the file, or Missing.
  pc,               \* Where each recorder is.
  timeline,         \* The timeline each AppendSnapshot holds in memory.
  analyzed,         \* The timeline each recorder hands to Analyze.
  (* Histories, read by the properties only. *)
  written,          \* The recorders in the order in which they were written as a whole.
  cut,              \* The recorders that were written in part.
  behind            \* The snapshots written since each recorder loaded.

vars == <<file, pc, timeline, analyzed, written, cut, behind>>

Stages == {"idle", "fetch", "stat", "load", "truncate", "write", "reload",
           "analyzed", "failed", "killed"}

Ended == {"analyzed", "failed", "killed"}

\* What a run finds at the path.
content == IF file = Missing THEN Missing ELSE Decode(file)

Readable == content \notin {Missing, Garbage}

Active(r) == pc[r] \notin Ended \cup {"idle"}

Init ==
  /\ file \in {Missing, Encode(Earlier)}
  /\ pc = [r \in Recorder |-> "idle"]
  /\ timeline = [r \in Recorder |-> <<>>]
  /\ analyzed = [r \in Recorder |-> <<>>]
  /\ written = <<>>
  /\ cut = {}
  /\ behind = [r \in Recorder |-> {}]

Goto(r, stage) == pc' = [pc EXCEPT ![r] = stage]

-----------------------------------------------------------------------------
(* resolveJammingTimeline *)

\* time.Now() is taken before the channels are asked for.
Start(r) ==
  /\ pc[r] = "idle"
  /\ Overlapping \/ \A q \in Recorder : ~Active(q)
  /\ Goto(r, "fetch")
  /\ UNCHANGED <<file, timeline, analyzed, written, cut, behind>>

\* RecordSnapshot returns, or ListChannels fails or times out.
Fetch(r) ==
  /\ pc[r] = "fetch"
  /\ Goto(r, "stat") \/ Goto(r, "failed")
  /\ UNCHANGED <<file, timeline, analyzed, written, cut, behind>>

-----------------------------------------------------------------------------
(* AppendSnapshot *)

\* Mutant: every file is taken to be missing.
StatMissing(r) ==
  /\ pc[r] = "stat"
  /\ Goto(r, "truncate")
  /\ UNCHANGED <<file, timeline, analyzed, written, cut, behind>>

\* os.Stat: a missing file is a new timeline, any other error ends the run.
Stat(r) ==
  /\ pc[r] = "stat"
  /\ \/ file = Missing /\ Goto(r, "truncate")
     \/ file # Missing /\ Goto(r, "load")
     \/ Failing /\ Goto(r, "failed")
  /\ UNCHANGED <<file, timeline, analyzed, written, cut, behind>>

\* Mutant: a file that does not decode is a new timeline.
LoadOrStartAfresh(r) ==
  /\ pc[r] = "load"
  /\ timeline' = [timeline EXCEPT ![r] = IF Readable THEN content ELSE <<>>]
  /\ Goto(r, "truncate")
  /\ UNCHANGED <<file, analyzed, written, cut, behind>>

\* Mutant: a run waits for a file that does not decode to be repaired.
LoadWhenReadable(r) ==
  /\ pc[r] = "load"
  /\ Readable
  /\ timeline' = [timeline EXCEPT ![r] = content]
  /\ Goto(r, "truncate")
  /\ UNCHANGED <<file, analyzed, written, cut, behind>>

\* LoadTimeline: a file that does not decode, or cannot be read, ends the run.
Load(r) ==
  /\ pc[r] = "load"
  /\ \/ /\ Readable
        /\ timeline' = [timeline EXCEPT ![r] = content]
        /\ Goto(r, "truncate")
     \/ /\ ~Readable \/ Failing
        /\ Goto(r, "failed")
        /\ UNCHANGED timeline
  /\ UNCHANGED <<file, analyzed, written, cut, behind>>

\* os.WriteFile opens with O_TRUNC: the file is empty, or cannot be opened.
Truncate(r) ==
  /\ pc[r] = "truncate"
  /\ \/ /\ file' = <<>>
        /\ Goto(r, "write")
     \/ /\ Failing
        /\ Goto(r, "failed")
        /\ UNCHANGED file
  /\ UNCHANGED <<timeline, analyzed, written, cut, behind>>

\* The first bytes of the list go to the start of the file, whatever others have
\* written there meanwhile; what is longer keeps its tail.  The snapshot is
\* written, and the bracket behind it, if no more than the newline is left out.
Overwrite(r, snapshots, bytes) ==
  /\ file' = SubSeq(Encode(snapshots), 1, bytes) \o SubSeq(file, bytes + 1, Len(file))
  /\ timeline' = [timeline EXCEPT ![r] = snapshots]
  /\ IF bytes + 1 < Size(snapshots)
       THEN /\ cut' = IF bytes = 0 THEN cut ELSE cut \cup {r}
            /\ UNCHANGED <<written, behind>>
       ELSE /\ written' = Append(written, r)
            /\ behind' = [q \in Recorder |-> IF pc[q] \in {"truncate", "write"} /\ q # r
                                               THEN behind[q] \cup {r} ELSE behind[q]]
            /\ UNCHANGED cut
  /\ UNCHANGED analyzed

\* Mutant: the newest snapshot comes first.
WriteNewestFirst(r) ==
  LET new == <<r>> \o timeline[r]
  IN  /\ pc[r] = "write"
      /\ Overwrite(r, new, Size(new))
      /\ Goto(r, "reload")

Write(r) ==
  LET new == Append(timeline[r], r)
  IN  /\ pc[r] = "write"
      /\ Overwrite(r, new, Size(new))
      /\ Goto(r, "reload")

\* The disk is full, or the process killed, after some bytes or none.
WriteShort(r) ==
  LET new == Append(timeline[r], r)
  IN  /\ Failing
      /\ pc[r] = "write"
      /\ \E bytes \in 0..(Size(new) - 1) : Overwrite(r, new, bytes)
      /\ Goto(r, "failed")

-----------------------------------------------------------------------------
(* resolveJammingTimeline, after AppendSnapshot *)

\* Mutant: what cannot be decoded is analyzed nonetheless.
ReloadAnything(r) ==
  /\ pc[r] = "reload"
  /\ analyzed' = [analyzed EXCEPT ![r] = content]
  /\ Goto(r, "analyzed")
  /\ UNCHANGED <<file, timeline, written, cut, behind>>

Reload(r) ==
  /\ pc[r] = "reload"
  /\ \/ /\ Readable
        /\ analyzed' = [analyzed EXCEPT ![r] = content]
        /\ Goto(r, "analyzed")
     \/ /\ ~Readable \/ Failing
        /\ Goto(r, "failed")
        /\ UNCHANGED analyzed
  /\ UNCHANGED <<file, timeline, written, cut, behind>>

\* The process is killed, at any point.
Kill(r) ==
  /\ Failing
  /\ Active(r)
  /\ Goto(r, "killed")
  /\ UNCHANGED <<file, timeline, analyzed, written, cut, behind>>

-----------------------------------------------------------------------------

Step(r) == \/ Fetch(r) \/ Stat(r) \/ Load(r) \/ Truncate(r)
           \/ Write(r) \/ WriteShort(r) \/ Reload(r)

Next == \E r \in Recorder : Start(r) \/ Step(r) \/ Kill(r)

\* A run that has started goes on until it ends: every call it makes returns,
\* the one to the node within rpcTimeout.  Nothing has to be started.
Spec == Init /\ [][Next]_vars /\ \A r \in Recorder : WF_vars(Step(r))
-----------------------------------------------------------------------------
(* Properties *)

TypeOK ==
  /\ file \in Seq(Byte) \cup {Missing}
  /\ pc \in [Recorder -> Stages]
  /\ timeline \in [Recorder -> Seq(Snapshot)]
  /\ analyzed \in [Recorder -> Seq(Snapshot)]
  /\ written \in Seq(Recorder)
  /\ cut \subseteq Recorder
  /\ behind \in [Recorder -> SUBSET Recorder]

\* Some recorder wrote over r's snapshot, whole or in part, from a timeline it
\* had loaded before.
Overrun(r) == \E q \in Range(written) \cup cut : r \in behind[q]

\* A recorded snapshot disappears from a readable file, or from the timeline
\* its own run analyzes, in one way only: another run that had loaded the file
\* before the snapshot was written wrote to the file after it.  No run that
\* fails or is killed elsewhere and no refused file costs a snapshot of a file
\* that still decodes, and no write that is cut short, over a timeline that has
\* the snapshot, does.  (AppendSnapshot, io.go:74-88, against itself)
LostOnlyToOverlap ==
  \A r \in Range(written) :
    /\ Readable /\ r \notin Range(content) => Overrun(r)
    /\ pc[r] = "analyzed" /\ r \notin Range(analyzed[r]) => Overrun(r)

\* What s lists of S, t lists in the same order.
InOrderOf(s, S, t) ==
  \A i, j \in DOMAIN s : i <= j /\ {s[i], s[j]} \subseteq S =>
    \E k, l \in DOMAIN t : t[k] = s[i] /\ t[l] = s[j] /\ (i < j => k < l)

\* A run was overtaken between its load and its write, and its write cut short.
OvertakenAndCut == \E q \in cut : behind[q] # {}

\* A readable file lists what it has not lost in the order it was written.  It
\* lists nothing else, and the last write last, unless a run was overtaken
\* between its load and its write, whose write was then cut short: whole writes
\* of different lengths over each other, and writes cut short that overtook
\* nobody, never decode to something nobody wrote.  (SaveTimeline, io.go:61-71)
ReadableIsWriteOrder ==
  Readable =>
    /\ InOrderOf(written, {r \in Recorder : ~Overrun(r)}, content)
    /\ ~OvertakenAndCut =>
         /\ InOrderOf(content, Range(content), Earlier \o written)
         /\ written # <<>> => content # <<>> /\ content[Len(content)] = written[Len(written)]

\* The file does not decode and no run is about to write to it.
Stuck == content = Garbage /\ \A r \in Recorder : pc[r] \notin {"truncate", "write"}

\* A file that does not decode is never replaced by a fresh timeline, which
\* would hide that its history is lost: only runs that had loaded it while it
\* was good can still write to it, and once they are gone every later run fails
\* and leaves it to the operator.  (io.go:76-81)
CorruptionIsKept == [][Stuck => Stuck']_vars

\* A run that has started ends, whatever the other runs do to the file: nobody
\* waits for a lock or for the file to become readable.
EveryRunEnds == \A r \in Recorder : Active(r) ~> pc[r] \in Ended

-----------------------------------------------------------------------------
(* What holds when runs neither overlap nor fail in the middle *)

\* The log the file stands for, also while it is truncated.
Logged ==
  IF \E r \in Recorder : pc[r] = "write"
    THEN timeline[CHOOSE r \in Recorder : pc[r] = "write"]
  ELSE IF file = Missing THEN <<>>
  ELSE content

Log == INSTANCE SnapshotLog WITH log <- Logged

\* The stat, load, truncate and write of AppendSnapshot add up to appending one
\* snapshot to a log that loses nothing.  (io.go:73 "appends a snapshot to a
\* timeline file, creating the file when missing")
ImplementsLog == Log!Spec

-----------------------------------------------------------------------------
(* What the documentation says of the file, and the code does not do *)

\* README.md:224-232: snapshots are collected "repeatedly (for example from
\* cron/systemd timer)" and "the accumulated timeline" is then analyzed.
EveryRecordingIsKept ==
  written # <<>> /\ (\A r \in Recorder : ~Active(r)) =>
    Readable /\ Range(written) \subseteq Range(content)
=============================================================================
