---------------------------- MODULE TimelineFile ----------------------------
(***************************************************************************)
(* The bytes of a timeline file: what SaveTimeline writes for a list of    *)
(* snapshots, and what LoadTimeline makes of the bytes it finds            *)
(* (pkg/jamming/io.go).  A file that several runs have written to can hold *)
(* the start of one timeline and the end of another.                       *)
(*                                                                         *)
(* A snapshot is named by the recorder that took it, and stands in a file  *)
(* as Width[x] bytes, the separator in front of it among them.  What comes *)
(* before the first snapshot is one byte, and so is the closing bracket    *)
(* and brace: a file cut inside of them decodes no better than one cut in  *)
(* front of them.                                                          *)
(***************************************************************************)
EXTENDS Lists, Functions

CONSTANTS
  Recorder,         \* The runs that record, each at most once.
  Earlier,          \* The snapshots an existing file starts with.
  Spliced,          \* A snapshot nobody took: the start of one, the end of another.
  Garbage,          \* What becomes of bytes that json.Unmarshal rejects.
  Width,            \* The bytes of each snapshot.
  Fitting           \* The bytes that may follow one another although nobody wrote them so.

Snapshot == Recorder \cup Range(Earlier) \cup {Spliced}

Opening == [kind |-> "opening"]
Closing == [kind |-> "closing"]
NewLine == [kind |-> "newline"]

\* The nth byte of the snapshot x.
Part(x, n) == [kind |-> "snapshot", of |-> x, nth |-> n]

\* Bytes that stand inside of a snapshot, behind another one of it.
Inner == UNION {{Part(x, n) : n \in 2..Width[x]} : x \in Snapshot}

Byte == {Opening, Closing, NewLine} \cup [kind : {"snapshot"}, of : Snapshot, nth : Nat \ {0}]

ASSUME FileAssumption ==
  /\ Earlier \in Seq(Range(Earlier)) /\ Earlier # <<>>
  /\ Recorder \cap Range(Earlier) = {} /\ Spliced \notin Recorder \cup Range(Earlier)
  /\ Garbage \notin Seq(Snapshot)
  /\ Width \in [Snapshot -> Nat \ {0}]
  /\ Fitting \subseteq Byte \X (Inner \cup {NewLine})

-----------------------------------------------------------------------------
(* SaveTimeline *)

Parts(x) == [n \in 1..Width[x] |-> Part(x, n)]

\* All of the list but for its end.
Unclosed(snapshots) == <<Opening>> \o FlattenSeq([i \in DOMAIN snapshots |-> Parts(snapshots[i])])

\* The indented JSON, and the newline SaveTimeline appends to it.
Encode(snapshots) == Unclosed(snapshots) \o <<Closing, NewLine>>

Size(snapshots) == Len(Encode(snapshots))

-----------------------------------------------------------------------------
(* LoadTimeline *)

\* Where json.Unmarshal is: in front of the list, between two snapshots of it,
\* inside one, behind the list, or at an error.  It has read some snapshots, and
\* some of a further one, whose bytes are one snapshot's, or are not.
Reader == [at : {"start", "list", "inside", "end", "error"}, read : Seq(Snapshot),
           last : Byte, whole : BOOLEAN]

Begin == [at |-> "start", read |-> <<>>, last |-> Opening, whole |-> TRUE]

\* The byte that comes next in the snapshot that is being read.
Due(reader) == Part(reader.last.of, reader.last.nth + 1)

Follows(reader, byte) == byte = Due(reader) \/ <<reader.last, byte>> \in Fitting

\* A byte of a snapshot is read, the last one of it perhaps.
Takes(reader, byte) ==
  LET whole == byte.nth = 1 \/ (reader.whole /\ byte = Due(reader))
  IN  IF byte.nth < Width[byte.of]
        THEN [reader EXCEPT !.at = "inside", !.last = byte, !.whole = whole]
        ELSE [reader EXCEPT !.at = "list",
                            !.read = Append(@, IF whole THEN byte.of ELSE Spliced)]

\* Newlines are space wherever JSON allows it.  No snapshot starts, and no list
\* ends, inside of a snapshot: its brackets would stay open.
Reads == [reader \in Reader |-> [byte \in Byte |->
  CASE reader.at = "start" /\ byte = Opening -> [reader EXCEPT !.at = "list"]
    [] reader.at = "list" /\ byte = Closing -> [reader EXCEPT !.at = "end"]
    [] reader.at \in {"list", "end"} /\ byte = NewLine -> reader
    [] reader.at = "list" /\ byte.kind = "snapshot" /\ byte.nth = 1 -> Takes(reader, byte)
    [] reader.at = "inside" /\ Follows(reader, byte) ->
         IF byte = NewLine THEN reader ELSE Takes(reader, byte)
    [] OTHER -> [reader EXCEPT !.at = "error"]]]

\* The snapshots in a file.
Decode(bytes) ==
  LET reading[n \in 0..Len(bytes)] == IF n = 0 THEN Begin ELSE Reads[reading[n - 1]][bytes[n]]
      reader == reading[Len(bytes)]
  IN  IF reader.at = "end" THEN reader.read ELSE Garbage
=============================================================================
