------------------------ MODULE TimelineStoreProofs ------------------------
(***************************************************************************)
(* Theorems about TimelineStore, for any number of recording runs, with    *)
(* or without overlap and failures, and for snapshots of any width: what   *)
(* decodes of the bytes that several writes leave in a file, and on it,    *)
(* type correctness, that a recorded snapshot is lost to overlapping       *)
(* writes only and a corrupt file kept, that a file that decodes is in the *)
(* order of the writes, and that runs which neither overlap nor fail       *)
(* implement SnapshotLog.                                                  *)
(***************************************************************************)
EXTENDS TimelineStore, FoldTheorems

-----------------------------------------------------------------------------
(* Reading what was written *)

\* The bytes of a file differ in kind, and snapshots' bytes are bytes.
LEMMA ByteFacts ==
  /\ {Opening, Closing, NewLine} \subseteq Byte
  /\ Opening.kind = "opening" /\ Closing.kind = "closing" /\ NewLine.kind = "newline"
  /\ \A x \in Snapshot, n \in Nat \ {0} :
       /\ Part(x, n) \in Byte /\ Part(x, n).kind = "snapshot"
       /\ Part(x, n).of = x /\ Part(x, n).nth = n
  /\ \A b \in Byte : b.kind = "snapshot" => b.of \in Snapshot /\ b.nth \in Nat \ {0}
  /\ \A b \in Byte : b.kind = "snapshot" \/ b \in {Opening, Closing, NewLine}
<1>1. Opening.kind = "opening" /\ Closing.kind = "closing" /\ NewLine.kind = "newline"
  BY DEF Opening, Closing, NewLine
<1>2. ASSUME NEW x \in Snapshot, NEW n \in Nat \ {0}
      PROVE  /\ Part(x, n) \in Byte /\ Part(x, n).kind = "snapshot"
             /\ Part(x, n).of = x /\ Part(x, n).nth = n
  BY DEF Part, Byte
<1>3. ASSUME NEW b \in Byte, b.kind = "snapshot"
      PROVE  b.of \in Snapshot /\ b.nth \in Nat \ {0}
  BY <1>1, <1>3 DEF Byte
<1>4. {Opening, Closing, NewLine} \subseteq Byte
  BY DEF Byte
<1>5. \A b \in Byte : b.kind = "snapshot" \/ b \in {Opening, Closing, NewLine}
  BY DEF Byte
<1> QED BY <1>1, <1>2, <1>3, <1>4, <1>5

\* What a byte does to where the reader is, and to what it has read.
LEMMA ReadStep ==
  ASSUME NEW reader \in Reader, NEW byte \in Byte
  PROVE  LET after == Reads[reader][byte]
         IN  /\ after \in Reader
             /\ after.read = reader.read \/ \E x \in Snapshot : after.read = Append(reader.read, x)
             /\ after.at = "end" => reader.at = "end" \/ (reader.at = "list" /\ byte = Closing)
             /\ after.at = "end" => after.read = reader.read
             /\ reader.at = "end" => after.at = IF byte = NewLine THEN "end" ELSE "error"
             /\ reader.at = "error" => after.at = "error"
             /\ reader.at \in {"end", "error"} => after.read = reader.read
<1> DEFINE after == Reads[reader][byte]
<1>1. /\ reader.at \in {"start", "list", "inside", "end", "error"} /\ reader.read \in Seq(Snapshot)
      /\ reader.last \in Byte /\ reader.whole \in BOOLEAN
      /\ reader = [at |-> reader.at, read |-> reader.read, last |-> reader.last, whole |-> reader.whole]
  BY DEF Reader
<1>2. /\ Width \in [Snapshot -> Nat \ {0}] /\ Spliced \in Snapshot
  BY FileAssumption DEF Snapshot
<1>3. CASE reader.at = "start" /\ byte = Opening
  <2>1. after = [reader EXCEPT !.at = "list"]
    BY <1>3, ByteFacts DEF Reads
  <2> QED BY <1>1, <1>3, <2>1 DEF Reader
<1>4. CASE reader.at = "list" /\ byte = Closing
  <2>1. after = [reader EXCEPT !.at = "end"]
    BY <1>4, ByteFacts DEF Reads
  <2> QED BY <1>1, <1>4, <2>1 DEF Reader
<1>5. CASE reader.at \in {"list", "end"} /\ byte = NewLine
  <2>1. after = reader
    BY <1>5, ByteFacts DEF Reads
  <2> QED BY <1>1, <1>5, <2>1 DEF Reader
<1>6. ASSUME byte.kind = "snapshot", reader.at \in {"list", "inside"}, after = Takes(reader, byte)
      PROVE  /\ after \in Reader /\ after.at \in {"list", "inside"}
             /\ after.read = reader.read \/ \E x \in Snapshot : after.read = Append(reader.read, x)
  <2>1. byte.of \in Snapshot /\ byte.nth \in Nat
    BY <1>6, ByteFacts
  <2> DEFINE whole == byte.nth = 1 \/ (reader.whole /\ byte = Due(reader))
             x == IF whole THEN byte.of ELSE Spliced
  <2>2. x \in Snapshot /\ whole \in BOOLEAN
    BY <1>2, <2>1
  <2>3. CASE byte.nth < Width[byte.of]
    <3>1. after = [reader EXCEPT !.at = "inside", !.last = byte, !.whole = whole]
      BY <1>6, <2>3 DEF Takes
    <3> HIDE DEF whole, after
    <3> QED BY <1>1, <2>2, <3>1 DEF Reader
  <2>4. CASE ~(byte.nth < Width[byte.of])
    <3>1. after = [reader EXCEPT !.at = "list", !.read = Append(@, x)]
      BY <1>6, <2>4 DEF Takes
    <3> HIDE DEF x, after, whole
    <3>2. Append(reader.read, x) \in Seq(Snapshot)
      BY <1>1, <2>2
    <3> QED BY <1>1, <2>2, <3>1, <3>2 DEF Reader
  <2> QED BY <2>3, <2>4
<1>7. CASE reader.at = "list" /\ byte.kind = "snapshot" /\ byte.nth = 1
  <2>1. after = Takes(reader, byte)
    BY <1>7, ByteFacts DEF Reads
  <2> QED BY <1>6, <1>7, <2>1
<1>8. CASE reader.at = "inside" /\ Follows(reader, byte)
  <2>1. after = IF byte = NewLine THEN reader ELSE Takes(reader, byte)
    BY <1>8, ByteFacts DEF Reads
  <2>2. byte = NewLine \/ byte.kind = "snapshot"
    BY <1>1, <1>8, ByteFacts, FileAssumption DEF Follows, Due, Inner, Part
  <2> QED BY <1>1, <1>6, <1>8, <2>1, <2>2
<1>9. CASE /\ ~(reader.at = "start" /\ byte = Opening) /\ ~(reader.at = "list" /\ byte = Closing)
           /\ ~(reader.at \in {"list", "end"} /\ byte = NewLine)
           /\ ~(reader.at = "list" /\ byte.kind = "snapshot" /\ byte.nth = 1)
           /\ ~(reader.at = "inside" /\ Follows(reader, byte))
  <2>1. after = [reader EXCEPT !.at = "error"]
    BY <1>9 DEF Reads
  <2> QED BY <1>1, <1>9, <2>1 DEF Reader
<1> QED
  <2> HIDE DEF after
  <2> QED BY <1>3, <1>4, <1>5, <1>6, <1>7, <1>8, <1>9 DEF after

\* What the reader is after each byte of a file.
IsReading(g, bytes) ==
  /\ g \in [0..Len(bytes) -> Reader]
  /\ g[0] = Begin
  /\ \A i \in 1..Len(bytes) : g[i] = Reads[g[i - 1]][bytes[i]]

\* Decode gives what it has read at the end.
LEMMA DecodeIs ==
  ASSUME NEW bytes \in Seq(Byte)
  PROVE  \E g : /\ IsReading(g, bytes)
                /\ Decode(bytes) = IF g[Len(bytes)].at = "end" THEN g[Len(bytes)].read ELSE Garbage
<1> DEFINE n == Len(bytes)
           F == [x \in Reader \X (1..n) |-> Reads[x[1]][bytes[x[2]]]]
           reading == CHOOSE state : state = [i \in 0..n |-> IF i = 0 THEN Begin
                                                             ELSE Reads[state[i - 1]][bytes[i]]]
<1>1. Decode(bytes) = IF reading[n].at = "end" THEN reading[n].read ELSE Garbage
  BY DEF Decode
<1>2. n \in Nat /\ Begin \in Reader /\ \A i \in 1..n : bytes[i] \in Byte
  BY ByteFacts DEF Begin, Reader
<1>3. F \in [Reader \X (1..n) -> Reader]
  BY <1>2, ReadStep
<1>4. \A d \in Reader : \A i \in 1..n : F[<<d, i>>] = Reads[d][bytes[i]]
  OBVIOUS
<1> HIDE DEF F, n
<1>5. PICK g : IsRecursion(g, Reader, Begin, n, F)
  BY <1>2, <1>3, RecursionExists
<1>6. g[0] = Begin /\ \A i \in 1..n : g[i] = Reads[g[i - 1]][bytes[i]]
  <2>1. 0 \in 0..n /\ \A i \in 1..n : i \in 0..n /\ i # 0 /\ i - 1 \in 0..n
    BY <1>2
  <2>2. g[0] = Begin /\ \A i \in 1..n : g[i] = F[<<g[i - 1], i>>]
    BY <1>5, <2>1 DEF IsRecursion
  <2> QED BY <1>4, <1>5, <2>1, <2>2 DEF IsRecursion
<1>7. g = [i \in 0..n |-> IF i = 0 THEN Begin ELSE Reads[g[i - 1]][bytes[i]]]
  <2>1. \A i \in 0..n : g[i] = IF i = 0 THEN Begin ELSE Reads[g[i - 1]][bytes[i]]
    BY <1>2, <1>6
  <2> QED BY <1>5, <2>1 DEF IsRecursion
<1>8. reading = [i \in 0..n |-> IF i = 0 THEN Begin ELSE Reads[reading[i - 1]][bytes[i]]]
  BY <1>7
<1> HIDE DEF reading
<1>9. reading[0] = Begin /\ \A i \in 1..n : reading[i] = Reads[reading[i - 1]][bytes[i]]
  BY <1>2, <1>8
<1>10. reading \in [0..n -> Reader]
  <2> DEFINE N == {i \in Nat : i <= n => reading[i] \in Reader}
  <2>1. 0 \in N
    BY <1>2, <1>9
  <2>2. ASSUME NEW i \in Nat, i \in N PROVE i + 1 \in N
    <3> SUFFICES ASSUME i + 1 <= n PROVE reading[i + 1] \in Reader
      OBVIOUS
    <3>1. i + 1 \in 1..n /\ (i + 1) - 1 = i /\ reading[i] \in Reader
      BY <1>2, <2>2
    <3> QED BY <1>2, <1>9, <3>1, ReadStep
  <2>3. Nat \subseteq N
    <3> HIDE DEF N
    <3> QED BY <2>1, <2>2, Induction
  <2> QED BY <1>2, <1>8, <2>3
<1> QED BY <1>1, <1>9, <1>10 DEF IsReading, n

\* Readings of files that start with the same bytes are the same so far.
LEMMA ReadingsAgree ==
  ASSUME NEW a \in Seq(Byte), NEW b \in Seq(Byte), NEW g, NEW h, IsReading(g, a), IsReading(h, b),
         NEW m \in Nat, m <= Len(a), m <= Len(b), \A i \in 1..m : a[i] = b[i]
  PROVE  g[m] = h[m]
<1> DEFINE N == {i \in Nat : i <= m => g[i] = h[i]}
<1>1. 0 \in N
  BY DEF IsReading
<1>2. ASSUME NEW i \in Nat, i \in N PROVE i + 1 \in N
  <2> SUFFICES ASSUME i + 1 <= m PROVE g[i + 1] = h[i + 1]
    OBVIOUS
  <2>1. /\ i + 1 \in 1..m /\ i + 1 \in 1..Len(a) /\ i + 1 \in 1..Len(b)
        /\ (i + 1) - 1 = i /\ g[i] = h[i]
    BY <1>2
  <2> QED BY <2>1 DEF IsReading
<1>3. Nat \subseteq N
  <2> HIDE DEF N
  <2> QED BY <1>1, <1>2, Induction
<1> QED BY <1>3

\* s is the start of t.
Starts(s, t) == Len(s) <= Len(t) /\ \A i \in 1..Len(s) : t[i] = s[i]

\* What has been read stays; who is behind the list stays there, or fails, and
\* reads nothing more.
LEMMA ReadingGrows ==
  ASSUME NEW bytes \in Seq(Byte), NEW g, IsReading(g, bytes),
         NEW m \in 0..Len(bytes), NEW n \in m..Len(bytes)
  PROVE  /\ Starts(g[m].read, g[n].read)
         /\ g[m].at = "error" => g[n].at = "error"
         /\ g[m].at = "end" => g[n].at \in {"end", "error"} /\ g[n].read = g[m].read
         /\ g[m].at = "end" /\ (\A i \in (m + 1)..n : bytes[i] = NewLine) => g[n].at = "end"
<1> DEFINE Grown(k) ==
             /\ Starts(g[m].read, g[k].read)
             /\ g[m].at = "error" => g[k].at = "error"
             /\ g[m].at = "end" => g[k].at \in {"end", "error"} /\ g[k].read = g[m].read
             /\ g[m].at = "end" /\ (\A i \in (m + 1)..k : bytes[i] = NewLine) => g[k].at = "end"
           N == {k \in Nat : m + k <= Len(bytes) => Grown(m + k)}
<1>1. /\ Len(bytes) \in Nat /\ m \in Nat /\ \A i \in 0..Len(bytes) : g[i] \in Reader
      /\ \A i \in 0..Len(bytes) : g[i].read \in Seq(Snapshot)
  <2>1. \A reader \in Reader : reader.read \in Seq(Snapshot)
    BY DEF Reader
  <2> QED BY <2>1 DEF IsReading
<1>2. 0 \in N
  <2>1. Grown(m)
    BY <1>1 DEF Starts
  <2> QED BY <1>1, <2>1
<1>3. ASSUME NEW k \in Nat, k \in N PROVE k + 1 \in N
  <2> SUFFICES ASSUME m + (k + 1) <= Len(bytes) PROVE Grown(m + (k + 1))
    OBVIOUS
  <2> DEFINE p == m + k
             q == p + 1
  <2>1. p \in Nat /\ p \in 0..Len(bytes) /\ q \in 1..Len(bytes) /\ q - 1 = p /\ q = m + (k + 1) /\ Grown(p)
    BY <1>1, <1>3
  <2> HIDE DEF p
  <2>2. g[q] = Reads[g[p]][bytes[q]] /\ bytes[q] \in Byte /\ g[p] \in Reader /\ g[q] \in Reader
    <3>1. g[q] = Reads[g[q - 1]][bytes[q]]
      BY <2>1 DEF IsReading
    <3>2. bytes[q] \in Byte /\ q \in 0..Len(bytes)
      BY <2>1
    <3> QED BY <1>1, <2>1, <3>1, <3>2
  <2>3. g[q].read = g[p].read \/ \E x \in Snapshot : g[q].read = Append(g[p].read, x)
    <3> DEFINE before == g[p]
               byte == bytes[q]
    <3>1. before \in Reader /\ byte \in Byte /\ g[q] = Reads[before][byte]
      BY <2>2
    <3> HIDE DEF before, byte
    <3>2. Reads[before][byte].read = before.read \/ \E x \in Snapshot : Reads[before][byte].read = Append(before.read, x)
      BY <3>1, ReadStep
    <3> QED BY <3>1, <3>2 DEF before
  <2>4. Starts(g[m].read, g[q].read)
    <3>1. Starts(g[m].read, g[p].read) /\ g[m].read \in Seq(Snapshot) /\ g[p].read \in Seq(Snapshot)
      BY <1>1, <2>1
    <3> HIDE DEF q
    <3>2. CASE g[q].read = g[p].read
      BY <3>1, <3>2
    <3>3. ASSUME NEW x \in Snapshot, g[q].read = Append(g[p].read, x) PROVE Starts(g[m].read, g[q].read)
      BY <3>1, <3>3 DEF Starts
    <3> QED BY <2>3, <3>2, <3>3
  <2>5. g[m].at = "error" => g[q].at = "error"
    BY <2>1, <2>2, ReadStep
  <2>6. g[m].at = "end" => g[q].at \in {"end", "error"} /\ g[q].read = g[m].read
    <3>1. g[p].at = "end" => g[q].at \in {"end", "error"} /\ g[q].read = g[p].read
      BY <2>2, ReadStep
    <3>2. g[p].at = "error" => g[q].at = "error" /\ g[q].read = g[p].read
      BY <2>2, ReadStep
    <3> QED BY <2>1, <3>1, <3>2
  <2>7. g[m].at = "end" /\ (\A i \in (m + 1)..q : bytes[i] = NewLine) => g[q].at = "end"
    <3> SUFFICES ASSUME g[m].at = "end", \A i \in (m + 1)..q : bytes[i] = NewLine PROVE g[q].at = "end"
      OBVIOUS
    <3>1. (\A i \in (m + 1)..p : bytes[i] = NewLine) /\ bytes[q] = NewLine
      BY <1>1, <2>1 DEF p
    <3>2. g[p].at = "end"
      BY <2>1, <3>1
    <3> QED BY <2>2, <3>1, <3>2, ReadStep
  <2> QED BY <2>1, <2>4, <2>5, <2>6, <2>7
<1>4. Nat \subseteq N
  <2> HIDE DEF N
  <2> QED BY <1>2, <1>3, Induction
<1>5. n - m \in Nat /\ m + (n - m) = n
  BY <1>1
<1>6. Grown(n)
  <2> HIDE DEF Grown
  <2> QED BY <1>4, <1>5
<1> QED BY <1>6

\* What SaveTimeline writes of a list, and of a list with one more snapshot.
LEMMA UnclosedIs ==
  /\ \A x \in Snapshot : Parts(x) \in Seq(Byte) /\ Len(Parts(x)) = Width[x] /\ Width[x] \in Nat \ {0}
  /\ Unclosed(<<>>) = <<Opening>>
  /\ \A s \in Seq(Snapshot) : Unclosed(s) \in Seq(Byte)
  /\ \A s \in Seq(Snapshot) : \A x \in Snapshot :
       Unclosed(Append(s, x)) = Unclosed(s) \o Parts(x)
<1> DEFINE F == [x \in Snapshot |-> Parts(x)]
<1>1. ASSUME NEW x \in Snapshot
      PROVE  Parts(x) \in Seq(Byte) /\ Len(Parts(x)) = Width[x] /\ Width[x] \in Nat \ {0}
  <2>1. Width[x] \in Nat \ {0}
    BY FileAssumption
  <2>2. \A n \in 1..Width[x] : Part(x, n) \in Byte
    BY <2>1, ByteFacts
  <2> QED BY <2>1, <2>2 DEF Parts
<1>2. F \in [Snapshot -> Seq(Byte)]
  BY <1>1
<1>3. ASSUME NEW s \in Seq(Snapshot)
      PROVE  Unclosed(s) = <<Opening>> \o FlattenSeq(Image(F, s))
  <2>1. \A i \in DOMAIN s : s[i] \in Snapshot
    OBVIOUS
  <2>2. Image(F, s) = [i \in DOMAIN s |-> Parts(s[i])]
    BY <2>1 DEF Image
  <2> QED BY <2>2 DEF Unclosed
<1>4. ASSUME NEW s \in Seq(Snapshot), NEW x \in Snapshot
      PROVE  Unclosed(s) \in Seq(Byte) /\ Unclosed(Append(s, x)) = Unclosed(s) \o Parts(x)
  <2> DEFINE all == FlattenSeq(Image(F, s))
  <2>1. Image(F, s) \in Seq(Seq(Byte)) /\ Image(F, Append(s, x)) = Append(Image(F, s), Parts(x))
    <3>1. F[x] = Parts(x)
      OBVIOUS
    <3> HIDE DEF F
    <3>2. \A U : \A G \in [Snapshot -> U] : \A t \in Seq(Snapshot) : \A y \in Snapshot :
            Image(G, t) \in Seq(U) /\ Image(G, Append(t, y)) = Append(Image(G, t), G[y])
      BY ImageOfAppend, Zenon
    <3>3. \A G \in [Snapshot -> Seq(Byte)] : \A t \in Seq(Snapshot) : \A y \in Snapshot :
            Image(G, t) \in Seq(Seq(Byte)) /\ Image(G, Append(t, y)) = Append(Image(G, t), G[y])
      BY <3>2, Zenon
    <3> QED BY <1>2, <3>1, <3>3, Zenon
  <2>2. FlattenSeq(Append(Image(F, s), Parts(x))) = all \o Parts(x) /\ all \in Seq(Byte)
    BY <1>1, <2>1, FlattenAppend
  <2>3. Append(s, x) \in Seq(Snapshot) /\ <<Opening>> \in Seq(Byte) /\ Parts(x) \in Seq(Byte)
    BY <1>1, ByteFacts
  <2>4. Unclosed(s) = <<Opening>> \o all /\ Unclosed(Append(s, x)) = <<Opening>> \o (all \o Parts(x))
    BY <1>3, <2>1, <2>2, <2>3
  <2> HIDE DEF all
  <2>5. <<Opening>> \o (all \o Parts(x)) = (<<Opening>> \o all) \o Parts(x)
    BY <2>2, <2>3
  <2> QED BY <2>2, <2>3, <2>4, <2>5
<1>5. Unclosed(<<>>) = <<Opening>>
  <2>1. Image(F, <<>>) = <<>>
    BY DEF Image
  <2>2. FlattenSeq(<<>>) = <<>>
    BY DEF FlattenSeq
  <2>3. <<>> \in Seq(Snapshot) /\ <<Opening>> \o <<>> = <<Opening>>
    OBVIOUS
  <2> HIDE DEF F
  <2> QED BY <1>3, <2>1, <2>2, <2>3
<1>6. Spliced \in Snapshot
  BY DEF Snapshot
<1> QED BY <1>1, <1>4, <1>5, <1>6

\* The bytes of a longer list start with those of a shorter one.
LEMMA UnclosedStarts ==
  ASSUME NEW s \in Seq(Snapshot), NEW t \in Seq(Snapshot), Starts(s, t)
  PROVE  Starts(Unclosed(s), Unclosed(t))
<1> DEFINE P == {u \in Seq(Snapshot) : \A v \in Seq(Snapshot) : Starts(v, u) => Starts(Unclosed(v), Unclosed(u))}
<1>1. <<>> \in P
  <2> SUFFICES ASSUME NEW v \in Seq(Snapshot), Starts(v, <<>>) PROVE Starts(Unclosed(v), Unclosed(<<>>))
    OBVIOUS
  <2>1. v = <<>>
    BY DEF Starts
  <2>2. Unclosed(<<>>) = <<Opening>>
    BY UnclosedIs
  <2> QED BY <2>1, <2>2 DEF Starts
<1>2. ASSUME NEW u \in Seq(Snapshot), NEW x \in Snapshot, u \in P
      PROVE  Append(u, x) \in P
  <2> SUFFICES ASSUME NEW v \in Seq(Snapshot), Starts(v, Append(u, x))
               PROVE  Starts(Unclosed(v), Unclosed(Append(u, x)))
    OBVIOUS
  <2>1. /\ Unclosed(u) \in Seq(Byte) /\ Parts(x) \in Seq(Byte)
        /\ Unclosed(Append(u, x)) = Unclosed(u) \o Parts(x) /\ Unclosed(v) \in Seq(Byte)
    BY UnclosedIs
  <2>2. CASE Len(v) <= Len(u)
    <3>1. Starts(v, u)
      BY <2>2 DEF Starts
    <3>2. Starts(Unclosed(v), Unclosed(u))
      BY <1>2, <3>1
    <3> QED BY <2>1, <3>2 DEF Starts
  <2>3. CASE Len(v) = Len(u) + 1
    <3>1. v = Append(u, x)
      <4>1. Append(u, x) \in Seq(Snapshot) /\ Len(Append(u, x)) = Len(u) + 1
        OBVIOUS
      <4>2. \A i \in 1..Len(v) : v[i] = Append(u, x)[i]
        BY DEF Starts
      <4> QED BY <2>3, <4>1, <4>2
    <3>2. Unclosed(v) = Unclosed(Append(u, x))
      BY <3>1
    <3> QED BY <2>1, <3>2 DEF Starts
  <2>4. Len(v) <= Len(u) \/ Len(v) = Len(u) + 1
    BY DEF Starts
  <2> QED BY <2>2, <2>3, <2>4
<1>3. Seq(Snapshot) \subseteq P
  <2> HIDE DEF P
  <2> QED BY <1>1, <1>2, SequenceInduction
<1> QED BY <1>3

\* The reader of a snapshot's bytes is between two snapshots again, and has read
\* this one.
LEMMA ReadingOfParts ==
  ASSUME NEW bytes \in Seq(Byte), NEW g, IsReading(g, bytes), NEW x \in Snapshot,
         NEW m \in Nat, m + Width[x] <= Len(bytes), g[m].at = "list",
         \A n \in 1..Width[x] : bytes[m + n] = Part(x, n)
  PROVE  g[m + Width[x]].at = "list" /\ g[m + Width[x]].read = Append(g[m].read, x)
<1> DEFINE w == Width[x]
           Partly(n) ==
             /\ n # 0 /\ n < w => /\ g[m + n].at = "inside" /\ g[m + n].read = g[m].read
                                  /\ g[m + n].last = Part(x, n) /\ g[m + n].whole = TRUE
             /\ n = w => g[m + n].at = "list" /\ g[m + n].read = Append(g[m].read, x)
           N == {n \in Nat : n <= w => Partly(n)}
<1>1. w \in Nat \ {0} /\ Len(bytes) \in Nat
  BY UnclosedIs
<1>2. 0 \in N
  <2>1. Partly(0)
    BY <1>1
  <2> HIDE DEF Partly
  <2> QED BY <2>1
<1>3. ASSUME NEW n \in Nat, n \in N PROVE n + 1 \in N
  <2> HIDE DEF Partly
  <2> SUFFICES ASSUME n + 1 <= w PROVE Partly(n + 1)
    OBVIOUS
  <2> USE DEF Partly
  <2> DEFINE reader == g[m + n]
             byte == Part(x, n + 1)
             after == Reads[reader][byte]
  <2>1. n < w /\ Partly(n) /\ n + 1 \in Nat \ {0} /\ n + 1 \in 1..w
    BY <1>1, <1>3
  <2>2. g[m + (n + 1)] = after /\ reader \in Reader
    <3>1. m + (n + 1) \in 1..Len(bytes) /\ (m + (n + 1)) - 1 = m + n /\ m + n \in 0..Len(bytes)
      BY <1>1, <2>1
    <3>2. bytes[m + (n + 1)] = byte
      BY <2>1
    <3>3. g[m + (n + 1)] = Reads[g[(m + (n + 1)) - 1]][bytes[m + (n + 1)]]
      BY <3>1 DEF IsReading
    <3> QED BY <3>1, <3>2, <3>3 DEF IsReading
  <2>3. byte \in Byte /\ byte.kind = "snapshot" /\ byte.of = x /\ byte.nth = n + 1
    BY <2>1, ByteFacts
  <2> DEFINE whole == byte.nth = 1 \/ (reader.whole /\ byte = Due(reader))
  <2>4. after = Takes(reader, byte) /\ whole = TRUE /\ reader.read = g[m].read
    <3> HIDE DEF reader, byte
    <3>1. CASE n = 0
      <4>1. reader = g[m] /\ reader.at = "list" /\ byte.nth = 1
        BY <1>1, <2>1, <2>3, <3>1 DEF reader
      <4>2. after = Takes(reader, byte)
        BY <2>2, <2>3, <4>1, ByteFacts DEF Reads
      <4> QED BY <4>1, <4>2
    <3>2. CASE n # 0
      <4>1. /\ reader.at = "inside" /\ reader.read = g[m].read
            /\ reader.last = Part(x, n) /\ reader.whole = TRUE
        BY <2>1, <3>2 DEF reader
      <4>2. byte = Due(reader)
        BY <3>2, <4>1, ByteFacts DEF Due, byte
      <4>3. after = Takes(reader, byte)
        BY <2>2, <2>3, <4>1, <4>2, ByteFacts DEF Reads, Follows
      <4> QED BY <4>1, <4>2, <4>3
    <3> QED BY <3>1, <3>2
  <2>5. /\ DOMAIN reader = {"at", "read", "last", "whole"}
    BY <2>2 DEF Reader
  <2> HIDE DEF reader, byte, after
  <2>6. CASE n + 1 < w
    <3>1. after = [reader EXCEPT !.at = "inside", !.last = byte, !.whole = whole]
      BY <2>3, <2>4, <2>6 DEF Takes
    <3>2. /\ after.at = "inside" /\ after.read = g[m].read /\ after.last = byte /\ after.whole = TRUE
      BY <2>4, <2>5, <3>1
    <3>3. n + 1 # 0
      BY <2>1
    <3> QED BY <2>2, <2>6, <3>2, <3>3 DEF byte
  <2>7. CASE n + 1 = w
    <3>1. after = [reader EXCEPT !.at = "list", !.read = Append(@, IF whole THEN byte.of ELSE Spliced)]
      BY <1>1, <2>3, <2>4, <2>7 DEF Takes
    <3>2. after.at = "list" /\ after.read = Append(g[m].read, x)
      BY <2>3, <2>4, <2>5, <3>1
    <3>3. n + 1 # 0 /\ ~(n + 1 < w)
      BY <1>1, <2>1, <2>7
    <3> QED BY <2>2, <3>2, <3>3
  <2>8. n + 1 < w \/ n + 1 = w
    BY <1>1, <2>1
  <2> HIDE DEF Partly
  <2> QED BY <2>6, <2>7, <2>8
<1>4. Nat \subseteq N
  <2> HIDE DEF N
  <2> QED BY <1>2, <1>3, Induction
<1>5. Partly(w)
  <2> HIDE DEF Partly
  <2> QED BY <1>1, <1>4
<1> QED BY <1>1, <1>5

\* No byte of a list that has not been ended ends it.
LEMMA UnclosedHasNoClosing ==
  ASSUME NEW s \in Seq(Snapshot)
  PROVE  \A i \in 1..Len(Unclosed(s)) : Unclosed(s)[i] # Closing
<1> DEFINE P == {u \in Seq(Snapshot) : \A i \in 1..Len(Unclosed(u)) : Unclosed(u)[i] # Closing}
<1>1. <<>> \in P
  <2>1. Unclosed(<<>>) = <<Opening>> /\ Opening # Closing
    BY UnclosedIs, ByteFacts
  <2> QED BY <2>1
<1>2. ASSUME NEW u \in Seq(Snapshot), NEW x \in Snapshot, u \in P
      PROVE  Append(u, x) \in P
  <2>1. /\ Unclosed(u) \in Seq(Byte) /\ Parts(x) \in Seq(Byte) /\ Append(u, x) \in Seq(Snapshot)
        /\ Unclosed(Append(u, x)) = Unclosed(u) \o Parts(x)
    BY UnclosedIs
  <2>2. \A i \in 1..Len(Parts(x)) : Parts(x)[i] # Closing
    <3> SUFFICES ASSUME NEW i \in 1..Len(Parts(x)) PROVE Parts(x)[i] # Closing
      OBVIOUS
    <3>1. Width[x] \in Nat \ {0} /\ i \in 1..Width[x]
      BY UnclosedIs
    <3>2. Parts(x)[i] = Part(x, i) /\ i \in Nat \ {0}
      BY <3>1 DEF Parts
    <3> QED BY <3>2, ByteFacts
  <2>3. \A i \in 1..Len(Unclosed(u)) : Unclosed(u)[i] # Closing
    BY <1>2
  <2> HIDE DEF P
  <2>4. \A i \in 1..Len(Unclosed(Append(u, x))) : Unclosed(Append(u, x))[i] # Closing
    <3> DEFINE b == Unclosed(u)
               c == Parts(x)
    <3> HIDE DEF b, c
    <3>1. b \in Seq(Byte) /\ c \in Seq(Byte) /\ (\A i \in 1..Len(b) : b[i] # Closing) /\ (\A i \in 1..Len(c) : c[i] # Closing)
      BY <2>1, <2>2, <2>3 DEF b, c
    <3>2. ASSUME NEW i \in 1..Len(b \o c) PROVE (b \o c)[i] # Closing
      <4>1. CASE i <= Len(b)
        BY <3>1, <4>1
      <4>2. CASE i > Len(b)
        <5>1. i - Len(b) \in 1..Len(c) /\ (b \o c)[i] = c[i - Len(b)]
          BY <3>1, <4>2
        <5> QED BY <3>1, <5>1
      <4> QED BY <3>1, <4>1, <4>2
    <3> QED BY <2>1, <3>2 DEF b, c
  <2> QED BY <2>1, <2>4 DEF P
<1>3. Seq(Snapshot) \subseteq P
  <2> HIDE DEF P
  <2> QED BY <1>1, <1>2, SequenceInduction
<1> QED BY <1>3

\* What SaveTimeline writes: the list, its end, a newline.
LEMMA EncodeIs ==
  ASSUME NEW s \in Seq(Snapshot)
  PROVE  /\ Unclosed(s) \in Seq(Byte) /\ Encode(s) \in Seq(Byte)
         /\ Size(s) = Len(Unclosed(s)) + 2 /\ Size(s) = Len(Encode(s)) /\ Size(s) \in Nat
         /\ Starts(Unclosed(s), Encode(s))
         /\ Encode(s)[Size(s) - 1] = Closing /\ Encode(s)[Size(s)] = NewLine
         /\ \A i \in 1..(Size(s) - 2) : Encode(s)[i] # Closing
<1> DEFINE b == Unclosed(s)
           c == <<Closing, NewLine>>
<1>1. b \in Seq(Byte) /\ \A i \in 1..Len(b) : b[i] # Closing
  <2> HIDE DEF b
  <2>1. Unclosed(s) \in Seq(Byte)
    BY UnclosedIs
  <2>2. \A i \in 1..Len(Unclosed(s)) : Unclosed(s)[i] # Closing
    BY UnclosedHasNoClosing
  <2> QED BY <2>1, <2>2 DEF b
<1>2. c \in Seq(Byte) /\ Len(c) = 2 /\ c[1] = Closing /\ c[2] = NewLine
  BY ByteFacts
<1>3. Encode(s) = b \o c /\ Size(s) = Len(Encode(s))
  BY DEF Encode, Size
<1> HIDE DEF b, c
<1>4. /\ b \o c \in Seq(Byte) /\ Len(b \o c) = Len(b) + 2 /\ Len(b) \in Nat
      /\ \A i \in 1..Len(b) : (b \o c)[i] = b[i]
      /\ (b \o c)[Len(b) + 1] = Closing /\ (b \o c)[Len(b) + 2] = NewLine
  <2>1. b \in Seq(Byte) /\ c \in Seq(Byte)
    BY <1>1, <1>2
  <2>2. /\ b \o c \in Seq(Byte) /\ Len(b \o c) = Len(b) + Len(c)
        /\ \A i \in 1..Len(b) + Len(c) :
             (b \o c)[i] = IF i <= Len(b) THEN b[i] ELSE c[i - Len(b)]
    BY <2>1, ConcatProperties
  <2>3. Len(b) \in Nat /\ Len(c) = 2 /\ c[1] = Closing /\ c[2] = NewLine
    BY <1>2, <2>1
  <2>4. /\ \A i \in 1..Len(b) : i \in 1..Len(b) + Len(c) /\ i <= Len(b)
        /\ Len(b) + 1 \in 1..Len(b) + Len(c) /\ ~(Len(b) + 1 <= Len(b)) /\ (Len(b) + 1) - Len(b) = 1
        /\ Len(b) + 2 \in 1..Len(b) + Len(c) /\ ~(Len(b) + 2 <= Len(b)) /\ (Len(b) + 2) - Len(b) = 2
    BY <2>3
  <2> QED BY <2>2, <2>3, <2>4
<1>5. Starts(b, Encode(s))
  BY <1>3, <1>4 DEF Starts
<1>6. /\ Size(s) = Len(b) + 2 /\ Size(s) \in Nat
      /\ Size(s) - 1 = Len(b) + 1 /\ Size(s) - 2 = Len(b)
  BY <1>3, <1>4
<1>7. \A i \in 1..Len(b) : Encode(s)[i] # Closing
  BY <1>1, <1>3, <1>4
<1> QED BY <1>1, <1>3, <1>4, <1>5, <1>6, <1>7 DEF b

\* Who has read a list up to its end has read its snapshots.
LEMMA ReadingOfUnclosed ==
  ASSUME NEW bytes \in Seq(Byte), NEW g, IsReading(g, bytes),
         NEW s \in Seq(Snapshot), Starts(Unclosed(s), bytes)
  PROVE  g[Len(Unclosed(s))].at = "list" /\ g[Len(Unclosed(s))].read = s
<1> DEFINE Done(u) == Starts(Unclosed(u), bytes) =>
                        g[Len(Unclosed(u))].at = "list" /\ g[Len(Unclosed(u))].read = u
           P == {u \in Seq(Snapshot) : Done(u)}
<1>1. <<>> \in P
  <2>1. Unclosed(<<>>) = <<Opening>>
    BY UnclosedIs
  <2> SUFFICES ASSUME Starts(<<Opening>>, bytes) PROVE g[1].at = "list" /\ g[1].read = <<>>
    <3>1. Len(<<Opening>>) = 1 /\ <<>> \in Seq(Snapshot)
      OBVIOUS
    <3>2. Done(<<>>)
      BY <2>1, <3>1
    <3> HIDE DEF Done
    <3> QED BY <3>1, <3>2
  <2>2. 1 \in 1..Len(bytes) /\ bytes[1] = Opening /\ 1 - 1 = 0
    BY DEF Starts
  <2>3. g[1] = Reads[g[1 - 1]][bytes[1]] /\ g[0] = Begin
    BY <2>2 DEF IsReading
  <2>4. g[1] = Reads[Begin][Opening]
    BY <2>2, <2>3
  <2>5. Begin \in Reader /\ Opening \in Byte /\ Begin.at = "start" /\ Begin.read = <<>>
    BY ByteFacts DEF Begin, Reader
  <2>6. Reads[Begin][Opening] = [Begin EXCEPT !.at = "list"]
    BY <2>5, ByteFacts DEF Reads
  <2> QED BY <2>4, <2>6 DEF Begin
<1>2. ASSUME NEW u \in Seq(Snapshot), NEW x \in Snapshot, u \in P
      PROVE  Append(u, x) \in P
  <2> HIDE DEF Done
  <2>1. Append(u, x) \in Seq(Snapshot) /\ Done(u)
    BY <1>2
  <2> SUFFICES ASSUME Starts(Unclosed(Append(u, x)), bytes)
               PROVE  /\ g[Len(Unclosed(Append(u, x)))].at = "list"
                      /\ g[Len(Unclosed(Append(u, x)))].read = Append(u, x)
    BY <2>1 DEF Done
  <2> DEFINE b == Unclosed(u)
             c == Parts(x)
             m == Len(b)
  <2>2. /\ b \in Seq(Byte) /\ c \in Seq(Byte) /\ Len(c) = Width[x] /\ Width[x] \in Nat
        /\ Unclosed(Append(u, x)) = b \o c
    BY UnclosedIs
  <2>3. \A n \in 1..Width[x] : c[n] = Part(x, n)
    BY DEF Parts
  <2> HIDE DEF b, c
  <2>4. Starts(b \o c, bytes) /\ Len(b \o c) = m + Width[x] /\ m \in Nat
    BY <2>2
  <2>5. Starts(b, bytes) /\ m + Width[x] <= Len(bytes)
    BY <2>2, <2>4 DEF Starts
  <2>6. \A n \in 1..Width[x] : bytes[m + n] = Part(x, n)
    <3> SUFFICES ASSUME NEW n \in 1..Width[x] PROVE bytes[m + n] = Part(x, n)
      OBVIOUS
    <3>1. m + n \in 1..Len(b \o c) /\ (b \o c)[m + n] = c[n]
      BY <2>2, <2>4
    <3> QED BY <2>3, <2>4, <3>1 DEF Starts
  <2>7. g[m].at = "list" /\ g[m].read = u
    BY <2>1, <2>5 DEF b, Done
  <2>8. g[m + Width[x]].at = "list" /\ g[m + Width[x]].read = Append(g[m].read, x)
    BY <2>4, <2>5, <2>6, <2>7, ReadingOfParts
  <2> QED BY <2>2, <2>4, <2>7, <2>8
<1>3. Seq(Snapshot) \subseteq P
  <2> HIDE DEF P
  <2> QED BY <1>1, <1>2, SequenceInduction
<1> QED BY <1>3

\* What has no end does not decode.
LEMMA DecodeUnended ==
  ASSUME NEW bytes \in Seq(Byte), \A i \in 1..Len(bytes) : bytes[i] # Closing
  PROVE  Decode(bytes) = Garbage
<1>1. PICK g : /\ IsReading(g, bytes)
               /\ Decode(bytes) = IF g[Len(bytes)].at = "end" THEN g[Len(bytes)].read ELSE Garbage
  BY DecodeIs
<1> DEFINE N == {i \in Nat : i <= Len(bytes) => g[i].at # "end"}
<1>2. 0 \in N
  BY <1>1 DEF IsReading, Begin
<1>3. ASSUME NEW i \in Nat, i \in N PROVE i + 1 \in N
  <2> SUFFICES ASSUME i + 1 <= Len(bytes) PROVE g[i + 1].at # "end"
    OBVIOUS
  <2>1. i + 1 \in 1..Len(bytes) /\ (i + 1) - 1 = i /\ i \in 0..Len(bytes) /\ g[i].at # "end"
    BY <1>3
  <2>2. g[i + 1] = Reads[g[i]][bytes[i + 1]] /\ g[i] \in Reader
    <3>1. g[i + 1] = Reads[g[(i + 1) - 1]][bytes[i + 1]]
      BY <1>1, <2>1 DEF IsReading
    <3> QED BY <1>1, <2>1, <3>1 DEF IsReading
  <2>3. bytes[i + 1] \in Byte /\ bytes[i + 1] # Closing
    BY <2>1
  <2> QED BY <2>1, <2>2, <2>3, ReadStep
<1>4. Nat \subseteq N
  <2> HIDE DEF N
  <2> QED BY <1>2, <1>3, Induction
<1>5. Len(bytes) \in Nat /\ g[Len(bytes)].at # "end"
  BY <1>4
<1> QED BY <1>1, <1>5

\* A file decodes to snapshots, or not.
LEMMA DecodeType ==
  ASSUME NEW bytes \in Seq(Byte)
  PROVE  Decode(bytes) \in Seq(Snapshot) \cup {Garbage}
<1>1. PICK g : /\ IsReading(g, bytes)
               /\ Decode(bytes) = IF g[Len(bytes)].at = "end" THEN g[Len(bytes)].read ELSE Garbage
  BY DecodeIs
<1>2. g[Len(bytes)] \in Reader
  BY <1>1 DEF IsReading
<1>3. \A reader \in Reader : reader.read \in Seq(Snapshot)
  BY DEF Reader
<1> QED BY <1>1, <1>2, <1>3

\* The bytes of both are the same as far as both go.
Agree(s, t) == \A i \in 1..Len(s) : i <= Len(t) => s[i] = t[i]

\* A file that agrees with what SaveTimeline writes of a list decodes to a list
\* that starts with it, if it decodes.
LEMMA DecodeKeepsStart ==
  ASSUME NEW bytes \in Seq(Byte), NEW s \in Seq(Snapshot), Agree(bytes, Unclosed(s)),
         Decode(bytes) # Garbage
  PROVE  Starts(s, Decode(bytes))
<1> DEFINE n == Len(bytes)
           m == Len(Unclosed(s))
<1>1. n \in Nat /\ m \in Nat /\ Unclosed(s) \in Seq(Byte)
  BY UnclosedIs
<1>2. PICK g : IsReading(g, bytes) /\ Decode(bytes) = IF g[n].at = "end" THEN g[n].read ELSE Garbage
  BY DecodeIs
<1>3. g[n].at = "end" /\ Decode(bytes) = g[n].read
  BY <1>2
<1>4. CASE m <= n
  <2>1. Starts(Unclosed(s), bytes)
    BY <1>1, <1>4 DEF Starts, Agree
  <2>2. g[m].read = s
    BY <1>2, <2>1, ReadingOfUnclosed
  <2>3. m \in 0..Len(bytes) /\ n \in m..Len(bytes)
    BY <1>1, <1>4
  <2> HIDE DEF n, m
  <2>4. Starts(g[m].read, g[n].read)
    BY <1>2, <2>3, ReadingGrows
  <2> QED BY <1>3, <2>2, <2>4
<1>5. CASE n < m
  <2>1. PICK h : IsReading(h, Unclosed(s))
    BY <1>1, DecodeIs
  <2>2. Starts(Unclosed(s), Unclosed(s))
    BY <1>1 DEF Starts
  <2>3. h[m].at = "list"
    BY <1>1, <2>1, <2>2, ReadingOfUnclosed
  <2>4. g[n] = h[n]
    <3>1. \A i \in 1..n : bytes[i] = Unclosed(s)[i]
      BY <1>1, <1>5 DEF Agree
    <3>2. n <= Len(bytes) /\ n <= Len(Unclosed(s))
      BY <1>1, <1>5
    <3> HIDE DEF n
    <3> QED BY <1>1, <1>2, <2>1, <3>1, <3>2, ReadingsAgree
  <2>5. n \in 0..Len(Unclosed(s)) /\ m \in n..Len(Unclosed(s))
    BY <1>1, <1>5
  <2> HIDE DEF n, m
  <2>6. h[n].at = "end" => h[m].at \in {"end", "error"}
    BY <1>1, <2>1, <2>5, ReadingGrows
  <2> QED BY <1>3, <2>3, <2>4, <2>6
<1> QED BY <1>1, <1>4, <1>5

\* A file that starts with all SaveTimeline writes of a list, but for the
\* newline, decodes to this list, or not at all.
LEMMA DecodeWhole ==
  ASSUME NEW bytes \in Seq(Byte), NEW s \in Seq(Snapshot), Starts(Unclosed(s), bytes),
         Len(Unclosed(s)) < Len(bytes), bytes[Len(Unclosed(s)) + 1] = Closing
  PROVE  /\ Decode(bytes) \in {s, Garbage}
         /\ (\A i \in (Len(Unclosed(s)) + 2)..Len(bytes) : bytes[i] = NewLine) => Decode(bytes) = s
<1> DEFINE n == Len(bytes)
           m == Len(Unclosed(s))
<1>1. n \in Nat /\ m \in Nat /\ m + 1 \in 1..n /\ m \in 0..n /\ (m + 1) - 1 = m /\ (m + 1) + 1 = m + 2
  BY UnclosedIs
<1>2. PICK g : IsReading(g, bytes) /\ Decode(bytes) = IF g[n].at = "end" THEN g[n].read ELSE Garbage
  BY DecodeIs
<1>3. g[m].at = "list" /\ g[m].read = s
  BY <1>2, ReadingOfUnclosed
<1>4. g[m + 1].at = "end" /\ g[m + 1].read = s
  <2>1. g[m + 1] = Reads[g[m]][Closing] /\ g[m] \in Reader
    <3>1. g[m + 1] = Reads[g[(m + 1) - 1]][bytes[m + 1]]
      BY <1>1, <1>2 DEF IsReading
    <3> QED BY <1>1, <1>2, <3>1 DEF IsReading
  <2> HIDE DEF m
  <2>2. Reads[g[m]][Closing] = [g[m] EXCEPT !.at = "end"]
    BY <1>3, <2>1, ByteFacts DEF Reads
  <2>3. DOMAIN g[m] = {"at", "read", "last", "whole"}
    BY <2>1 DEF Reader
  <2> QED BY <1>3, <2>1, <2>2, <2>3
<1>5. m + 1 \in 0..Len(bytes) /\ n \in (m + 1)..Len(bytes)
  BY <1>1
<1> HIDE DEF n, m
<1>6. /\ g[n].read = g[m + 1].read
      /\ (\A i \in ((m + 1) + 1)..n : bytes[i] = NewLine) => g[n].at = "end"
  BY <1>2, <1>4, <1>5, ReadingGrows
<1> QED BY <1>1, <1>2, <1>4, <1>6 DEF n, m

-----------------------------------------------------------------------------
(* The bytes a write leaves *)

\* No run writes to a file that is not there, and none has.
FileIsThere == file = Missing => written = <<>> /\ \A r \in Recorder : pc[r] # "write"

\* The types, and that a run that writes has a file to write to.
Types == TypeOK /\ FileIsThere

\* The recorders' snapshots, and the one nobody took, are snapshots.
LEMMA SnapshotFacts ==
  /\ Recorder \subseteq Snapshot /\ Spliced \in Snapshot
  /\ Earlier \in Seq(Snapshot) /\ Earlier # <<>>
  /\ Missing \notin Seq(Byte) /\ Missing \notin Seq(Snapshot) /\ Missing # Garbage
  /\ Garbage \notin Seq(Snapshot)
<1>1. Range(Earlier) \subseteq Snapshot
  BY DEF Snapshot
<1>2. Earlier \in Seq(Snapshot)
  BY <1>1, FileAssumption
<1>3. QED
  BY <1>2, FileAssumption, StoreAssumption DEF Snapshot

\* The length of what a write of n bytes leaves, and where its places come from.
LEMMA OverwriteLength ==
  ASSUME NEW n \in Nat, NEW old \in Nat, NEW kept \in Nat, NEW bytes \in Nat,
         kept = IF n < old THEN old - n ELSE 0, bytes = n + kept
  PROVE  /\ bytes = IF n < old THEN old ELSE n
         /\ \A i \in 1..n : i \in 1..n + kept
         /\ \A i \in (n + 1)..bytes :
              i \in 1..n + kept /\ ~(i <= n) /\ i - n \in 1..kept /\ n + (i - n) = i /\ i \in 1..old
<1>1. CASE n < old
  BY <1>1
<1>2. CASE ~(n < old)
  BY <1>2
<1> QED BY <1>1, <1>2

\* What a write of n bytes leaves in a file.
Overwritten(old, new, n) == SubSeq(Encode(new), 1, n) \o SubSeq(old, n + 1, Len(old))

\* Where each byte of it comes from.
LEMMA OverwriteIs ==
  ASSUME NEW old \in Seq(Byte), NEW new \in Seq(Snapshot), NEW n \in 0..Size(new)
  PROVE  LET bytes == Overwritten(old, new, n)
         IN  /\ bytes \in Seq(Byte)
             /\ Len(bytes) = IF n < Len(old) THEN Len(old) ELSE n
             /\ \A i \in 1..n : bytes[i] = Encode(new)[i]
             /\ \A i \in (n + 1)..Len(bytes) : i \in 1..Len(old) /\ bytes[i] = old[i]
<1> DEFINE bytes == Overwritten(old, new, n)
           b == SubSeq(Encode(new), 1, n)
           c == SubSeq(old, n + 1, Len(old))
<1>1. Encode(new) \in Seq(Byte) /\ Size(new) = Len(Encode(new)) /\ Size(new) \in Nat /\ n \in Nat
      /\ Len(old) \in Nat /\ n <= Len(Encode(new))
  BY EncodeIs
<1>2. b \in Seq(Byte) /\ Len(b) = n /\ \A i \in 1..n : b[i] = Encode(new)[i]
  BY <1>1
<1>3. /\ c \in Seq(Byte)
      /\ Len(c) = IF n < Len(old) THEN Len(old) - n ELSE 0
      /\ \A i \in 1..Len(c) : c[i] = old[n + i]
  <2>1. CASE n < Len(old)
    BY <1>1, <2>1
  <2>2. CASE ~(n < Len(old))
    BY <1>1, <2>2
  <2> QED BY <2>1, <2>2
<1> HIDE DEF b, c, bytes
<1>4. /\ b \o c \in Seq(Byte) /\ Len(b \o c) = Len(b) + Len(c)
      /\ \A i \in 1..Len(b) + Len(c) : (b \o c)[i] = IF i <= Len(b) THEN b[i] ELSE c[i - Len(b)]
  BY <1>2, <1>3, ConcatProperties
<1>5. bytes = b \o c /\ Len(b) \in Nat /\ Len(c) \in Nat
  BY <1>2, <1>3 DEF b, c, bytes, Overwritten
<1>6. Len(bytes) = n + Len(c) /\ bytes \in Seq(Byte)
  BY <1>2, <1>4, <1>5
<1> DEFINE l == Len(bytes)
           k == Len(c)
           m == Len(old)
<1>7. l = n + k
  BY <1>6
<1>8. n \in Nat /\ m \in Nat /\ k \in Nat /\ l \in Nat
  <2>1. n \in Nat /\ m \in Nat
    BY <1>1
  <2>2. k \in Nat
    BY <1>5
  <2>3. l \in Nat
    <3> HIDE DEF l, k, m
    <3> QED BY <1>7, <2>1, <2>2
  <2> QED BY <2>1, <2>2, <2>3
<1>9. k = IF n < m THEN m - n ELSE 0
  BY <1>3
<1>10. /\ l = IF n < m THEN m ELSE n
       /\ \A i \in 1..n : i \in 1..n + k
       /\ \A i \in (n + 1)..l :
            i \in 1..n + k /\ ~(i <= n) /\ i - n \in 1..k /\ n + (i - n) = i /\ i \in 1..m
  <2> HIDE DEF l, k, m
  <2> QED BY <1>8, <1>9, <1>7, OverwriteLength
<1>11. /\ Len(bytes) = IF n < Len(old) THEN Len(old) ELSE n
       /\ \A i \in 1..n : i \in 1..n + Len(c)
       /\ \A i \in (n + 1)..Len(bytes) :
            i \in 1..n + Len(c) /\ ~(i <= n) /\ i - n \in 1..Len(c) /\ n + (i - n) = i
            /\ i \in 1..Len(old)
  BY <1>10
<1>12. ASSUME NEW i \in 1..n PROVE bytes[i] = Encode(new)[i]
  <2>1. i <= n
    BY <1>8
  <2> QED BY <1>2, <1>4, <1>5, <1>11, <2>1
<1>13. ASSUME NEW i \in (n + 1)..Len(bytes) PROVE bytes[i] = old[i]
  <2>1. i - n \in 1..Len(c) /\ c[i - n] = old[n + (i - n)] /\ n + (i - n) = i
    BY <1>3, <1>11
  <2>2. bytes[i] = c[i - n]
    BY <1>2, <1>4, <1>5, <1>11
  <2> QED BY <2>1, <2>2
<1> QED BY <1>6, <1>11, <1>12, <1>13 DEF bytes
-----------------------------------------------------------------------------
(* Types *)

\* What is found at the path is a list of snapshots, or none.
LEMMA ContentType == Types => content \in Seq(Snapshot) \cup {Missing, Garbage}
BY DecodeType DEF Types, TypeOK, content

\* The types hold initially.
LEMMA InitTypes == Init => Types
<1>1. Encode(Earlier) \in Seq(Byte)
  BY SnapshotFacts, EncodeIs
<1> QED BY <1>1, SnapshotFacts DEF Init, Types, TypeOK, FileIsThere, Stages

\* A write keeps them, of whatever length it is.
LEMMA OverwriteTypes ==
  ASSUME Types, NEW r \in Recorder, pc[r] = "write", NEW stage \in Stages \ {"write"}, Goto(r, stage),
         NEW n \in 0..Size(Append(timeline[r], r)), Overwrite(r, Append(timeline[r], r), n)
  PROVE  Types'
<1> DEFINE new == Append(timeline[r], r)
<1>1. file \in Seq(Byte) /\ timeline[r] \in Seq(Snapshot) /\ r \in Snapshot
  BY SnapshotFacts DEF Types, TypeOK, FileIsThere
<1>2. new \in Seq(Snapshot)
  BY <1>1
<1> HIDE DEF new
<1>3. file' = Overwritten(file, new, n)
      /\ timeline' = [timeline EXCEPT ![r] = new] /\ analyzed' = analyzed
  BY DEF Overwrite, Overwritten, new
<1>4. file' \in Seq(Byte)
  BY <1>1, <1>2, <1>3, OverwriteIs DEF new
<1>5. timeline' \in [Recorder -> Seq(Snapshot)]
  BY <1>2, <1>3 DEF Types, TypeOK
<1>6. written' \in Seq(Recorder) /\ cut' \subseteq Recorder
  <2>1. Append(written, r) \in Seq(Recorder)
    BY DEF Types, TypeOK
  <2> QED BY <2>1 DEF Overwrite, Types, TypeOK
<1>7. behind' \in [Recorder -> SUBSET Recorder]
  <2>1. \A q \in Recorder : behind[q] \in SUBSET Recorder /\ behind[q] \cup {r} \in SUBSET Recorder
    BY DEF Types, TypeOK
  <2>2. CASE UNCHANGED behind
    BY <2>2 DEF Types, TypeOK
  <2>3. CASE ~UNCHANGED behind
    <3>1. behind' = [q \in Recorder |-> IF pc[q] \in {"truncate", "write"} /\ q # r
                                          THEN behind[q] \cup {r} ELSE behind[q]]
      BY <2>3 DEF Overwrite
    <3> QED BY <2>1, <3>1
  <2> QED BY <2>2, <2>3
<1>8. pc' \in [Recorder -> Stages]
  BY DEF Goto, Types, TypeOK
<1> QED BY <1>3, <1>4, <1>5, <1>6, <1>7, <1>8, SnapshotFacts DEF Types, TypeOK, FileIsThere

\* Every step keeps the types.
LEMMA NextTypes == Types /\ [Next]_vars => Types'
<1> SUFFICES ASSUME Types, [Next]_vars
             PROVE  Types'
  OBVIOUS
<1> USE DEF Types, TypeOK, FileIsThere
<1>1. CASE UNCHANGED vars
  BY <1>1 DEF vars
<1>2. ASSUME NEW r \in Recorder, Start(r)
      PROVE  Types'
  BY <1>2 DEF Start, Goto, Stages
<1>3. ASSUME NEW r \in Recorder, Fetch(r)
      PROVE  Types'
  BY <1>3 DEF Fetch, Goto, Stages
<1>4. ASSUME NEW r \in Recorder, Stat(r)
      PROVE  Types'
  BY <1>4 DEF Stat, Goto, Stages
<1>5. ASSUME NEW r \in Recorder, Load(r)
      PROVE  Types'
  BY <1>5, ContentType DEF Load, Goto, Stages, Readable
<1>6. ASSUME NEW r \in Recorder, Truncate(r)
      PROVE  Types'
  <2>1. CASE UNCHANGED file /\ Goto(r, "failed")
    BY <1>6, <2>1 DEF Truncate, Goto, Stages
  <2>2. CASE file' = <<>>
    <3>1. <<>> \in Seq(Byte)
      OBVIOUS
    <3>2. file' \in Seq(Byte) /\ file' # Missing
      BY <2>2, <3>1, SnapshotFacts
    <3>3. pc' \in [Recorder -> Stages]
      BY <1>6 DEF Truncate, Goto, Stages
    <3>4. UNCHANGED <<timeline, analyzed, written, cut, behind>>
      BY <1>6 DEF Truncate
    <3> QED BY <3>2, <3>3, <3>4
  <2> QED BY <1>6, <2>1, <2>2 DEF Truncate
<1>7. ASSUME NEW r \in Recorder, Write(r) \/ WriteShort(r)
      PROVE  Types'
  <2>1. PICK n \in 0..Size(Append(timeline[r], r)) : Overwrite(r, Append(timeline[r], r), n)
    <3>1. Append(timeline[r], r) \in Seq(Snapshot)
      BY SnapshotFacts
    <3>2. Size(Append(timeline[r], r)) \in Nat
      BY <3>1, EncodeIs
    <3> QED BY <1>7, <3>2 DEF Write, WriteShort
  <2>2. pc[r] = "write" /\ \E stage \in Stages \ {"write"} : Goto(r, stage)
    BY <1>7 DEF Write, WriteShort, Stages
  <2> QED BY <2>1, <2>2, OverwriteTypes
<1>8. ASSUME NEW r \in Recorder, Reload(r)
      PROVE  Types'
  BY <1>8, ContentType DEF Reload, Goto, Stages, Readable
<1>9. ASSUME NEW r \in Recorder, Kill(r)
      PROVE  Types'
  BY <1>9 DEF Kill, Goto, Stages
<1>10. QED
  BY <1>1, <1>2, <1>3, <1>4, <1>5, <1>6, <1>7, <1>8, <1>9 DEF Next, Step

\* The types hold in every run: type correctness of the file and the recorders.
THEOREM TypeCorrect == Spec => []TypeOK
<1>1. Types => TypeOK
  BY DEF Types
<1> QED BY <1>1, InitTypes, NextTypes, PTL DEF Spec

\* A file that does not decode stays as it is once no run is about to write to
\* it: every later run finds it there, fails to load it and leaves it alone.
THEOREM CorruptionKept == Spec => CorruptionIsKept
<1>1. Types /\ [Next]_vars => (Stuck => Stuck')
  <2> SUFFICES ASSUME Types, [Next]_vars, Stuck
               PROVE  Stuck'
    OBVIOUS
  <2>1. pc \in [Recorder -> Stages] /\ file # Missing /\ ~Readable
    BY SnapshotFacts DEF Types, TypeOK, Stuck, Readable, content
  <2>2. CASE UNCHANGED vars
    BY <2>2 DEF Stuck, vars, content
  <2>3. ASSUME NEW r \in Recorder, Start(r) \/ Step(r) \/ Kill(r)
        PROVE  Stuck'
    <3>1. UNCHANGED file
      BY <2>3 DEF Stuck, Start, Step, Kill, Fetch, Stat, Load, Reload,
                  Truncate, Write, WriteShort
    <3>2. \E stage \in Stages \ {"truncate", "write"} : pc' = [pc EXCEPT ![r] = stage]
      BY <2>1, <2>3 DEF Stuck, Start, Step, Kill, Fetch, Stat, Load, Reload,
                        Truncate, Write, WriteShort, Goto, Stages
    <3>3. QED
      BY <2>1, <3>1, <3>2 DEF Stuck, content
  <2>4. QED
    BY <2>2, <2>3 DEF Next
<1>2. Spec => []Types
  BY InitTypes, NextTypes, PTL DEF Spec
<1>3. QED
  BY <1>1, <1>2, PTL DEF Spec, CorruptionIsKept
-----------------------------------------------------------------------------
(* Losses *)

\* Where a run is that has written.
Afterwards == {"reload", "analyzed", "failed", "killed"}

\* What was written and not overrun is in the file, as far as the file goes.
FileKeeps ==
  \A x \in Range(written) :
    ~Overrun(x) => file # Missing /\ Agree(file, Unclosed(timeline[x]))

\* A run that is about to write holds what another one wrote, was overtaken by
\* it, or it is overrun already.
WriterKnows(q, x) == Starts(timeline[x], timeline[q]) \/ x \in behind[q] \/ Overrun(x)

WritersKnow ==
  \A q \in Recorder, x \in Range(written) : pc[q] \in {"truncate", "write"} => WriterKnows(q, x)

\* Who has written still holds what it wrote.
Remembered ==
  \A x \in Range(written) :
    pc[x] \in Afterwards /\ timeline[x] # <<>> /\ timeline[x][Len(timeline[x])] = x

\* Who wrote later wrote more, on top of it.
WrittenInOrder ==
  \A i, j \in DOMAIN written : i < j /\ ~Overrun(written[i]) =>
    /\ Starts(timeline[written[i]], timeline[written[j]])
    /\ Len(timeline[written[i]]) < Len(timeline[written[j]])

AnalyzedKeeps ==
  \A x \in Range(written) : pc[x] = "analyzed" /\ x \notin Range(analyzed[x]) => Overrun(x)

\* The inductive invariant.
LossInv ==
  Types /\ FileKeeps /\ WritersKnow /\ Remembered /\ WrittenInOrder /\ AnalyzedKeeps
\* What Append adds to the members of a sequence.
LEMMA RangeOfAppend ==
  ASSUME NEW S, NEW s \in Seq(S), NEW e
  PROVE  Range(Append(s, e)) = Range(s) \cup {e}
<1>1. DOMAIN Append(s, e) = 1..(Len(s) + 1) /\ DOMAIN s = 1..Len(s) /\ Len(s) \in Nat
  OBVIOUS
<1>2. \A i \in 1..Len(s) : Append(s, e)[i] = s[i]
  OBVIOUS
<1>3. Append(s, e)[Len(s) + 1] = e
  OBVIOUS
<1>4. Range(Append(s, e)) \subseteq Range(s) \cup {e}
  <2>1. SUFFICES ASSUME NEW i \in 1..(Len(s) + 1)
                 PROVE  Append(s, e)[i] \in Range(s) \cup {e}
    BY <1>1 DEF Range
  <2>2. i \in 1..Len(s) \/ i = Len(s) + 1
    BY <1>1
  <2>3. QED
    BY <2>2, <1>1, <1>2, <1>3 DEF Range
<1>5. Range(s) \subseteq Range(Append(s, e))
  <2>1. SUFFICES ASSUME NEW i \in 1..Len(s)
                 PROVE  s[i] \in Range(Append(s, e))
    BY <1>1 DEF Range
  <2>2. i \in 1..(Len(s) + 1) /\ Append(s, e)[i] = s[i]
    BY <1>1, <1>2
  <2>3. QED
    BY <2>2, <1>1 DEF Range
<1>6. e \in Range(Append(s, e))
  BY <1>1, <1>3 DEF Range
<1>7. QED
  BY <1>4, <1>5, <1>6

\* A longer list that goes on from a list that starts with s starts with s.
LEMMA StartsOfAppend ==
  ASSUME NEW S, NEW s \in Seq(S), NEW t \in Seq(S), NEW e \in S, Starts(s, t)
  PROVE  Starts(s, Append(t, e)) /\ Len(s) < Len(Append(t, e))
<1>1. /\ Len(s) \in Nat /\ Len(t) \in Nat /\ Len(Append(t, e)) = Len(t) + 1
      /\ \A i \in 1..Len(t) : Append(t, e)[i] = t[i]
  OBVIOUS
<1>2. Len(s) <= Len(t) /\ \A i \in 1..Len(s) : t[i] = s[i]
  BY DEF Starts
<1>3. Len(s) <= Len(t) + 1 /\ Len(s) < Len(t) + 1 /\ \A i \in 1..Len(s) : i \in 1..Len(t)
  BY <1>1, <1>2
<1> QED BY <1>1, <1>2, <1>3 DEF Starts

\* The last of s is where s ends in every list that starts with s.
LEMMA LastOfStart ==
  ASSUME NEW S, NEW s \in Seq(S), NEW t \in Seq(S), Starts(s, t), s # <<>>
  PROVE  Len(s) \in DOMAIN t /\ t[Len(s)] = s[Len(s)]
<1>1. Len(s) \in Nat \ {0} /\ Len(t) \in Nat /\ DOMAIN t = 1..Len(t)
  OBVIOUS
<1>2. Len(s) \in 1..Len(s) /\ Len(s) <= Len(t)
  BY <1>1 DEF Starts
<1>3. Len(s) \in 1..Len(t)
  BY <1>1, <1>2
<1> QED BY <1>1, <1>2, <1>3 DEF Starts

\* Who was overrun stays overrun: nothing is taken out of the histories.
LEMMA OverrunStays ==
  ASSUME Range(written) \subseteq Range(written'), cut \subseteq cut',
         \A q \in Range(written) \cup cut : behind[q] \subseteq behind'[q],
         NEW r, Overrun(r)
  PROVE  Overrun(r)'
BY DEF Overrun

\* Nothing was written initially, so that nothing can be lost.
LEMMA InitLoss == Init => LossInv
<1>1. Init => Range(written) = {} /\ DOMAIN written = {}
  BY DEF Init, Range
<1>2. QED
  BY <1>1, InitTypes
     DEF LossInv, FileKeeps, WritersKnow, Remembered, WrittenInOrder, AnalyzedKeeps

\* A file that has what x wrote, as far as it goes, lists it if it decodes.
LEMMA ReadableHasIt ==
  ASSUME LossInv, NEW x \in Range(written), ~Overrun(x), Readable
  PROVE  /\ timeline[x] \in Seq(Snapshot) /\ content \in Seq(Snapshot)
         /\ Starts(timeline[x], content)
         /\ Len(timeline[x]) \in DOMAIN content /\ content[Len(timeline[x])] = x
<1>1. /\ file \in Seq(Byte) /\ content = Decode(file) /\ Decode(file) # Garbage
      /\ x \in Recorder /\ timeline[x] \in Seq(Snapshot)
  BY DEF Readable, content, LossInv, Types, TypeOK, Range
<1>2. Agree(file, Unclosed(timeline[x]))
  BY DEF LossInv, FileKeeps
<1>3. Starts(timeline[x], content) /\ content \in Seq(Snapshot)
  BY <1>1, <1>2, DecodeKeepsStart, DecodeType
<1> QED BY <1>1, <1>3, LastOfStart DEF LossInv, Remembered

\* What every step keeps that writes nothing: who comes to the point of writing
\* has loaded the file or found none, who analyzes has loaded it.
LEMMA QuietLoss ==
  ASSUME LossInv, Types', UNCHANGED <<written, cut, behind>>, UNCHANGED file \/ file' = <<>>,
         \A x \in Range(written) : UNCHANGED timeline[x] /\ pc'[x] \in Afterwards,
         \A q \in Recorder : pc'[q] \in {"truncate", "write"} =>
           \/ pc[q] \in {"truncate", "write"} /\ UNCHANGED timeline[q]
           \/ Readable /\ timeline'[q] = content
           \/ file = Missing,
         \A q \in Recorder : pc'[q] = "analyzed" =>
           \/ pc[q] = "analyzed" /\ UNCHANGED analyzed[q]
           \/ Readable /\ analyzed'[q] = content
  PROVE  LossInv'
<1>1. \A x : Overrun(x)' <=> Overrun(x)
  BY DEF Overrun
<1>2. Range(written) \subseteq Recorder /\ (file = Missing => Range(written) = {})
  BY DEF LossInv, Types, TypeOK, FileIsThere, Range
<1>3. FileKeeps'
  <2> SUFFICES ASSUME NEW x \in Range(written), ~Overrun(x)
               PROVE  file' # Missing /\ Agree(file', Unclosed(timeline[x]))
    BY <1>1 DEF FileKeeps
  <2>1. file # Missing /\ Agree(file, Unclosed(timeline[x]))
    BY DEF LossInv, FileKeeps
  <2>2. CASE UNCHANGED file
    BY <2>1, <2>2
  <2>3. CASE file' = <<>>
    <3>1. <<>> \in Seq(Byte)
      OBVIOUS
    <3>2. file' # Missing
      BY <2>3, <3>1, SnapshotFacts
    <3> QED BY <2>3, <3>2 DEF Agree
  <2> QED BY <2>2, <2>3
<1>4. WritersKnow'
  <2> SUFFICES ASSUME NEW q \in Recorder, NEW x \in Range(written),
                      pc'[q] \in {"truncate", "write"}, ~Overrun(x)
               PROVE  Starts(timeline[x], timeline'[q]) \/ x \in behind[q]
    BY <1>1 DEF WritersKnow, WriterKnows
  <2>1. CASE pc[q] \in {"truncate", "write"} /\ UNCHANGED timeline[q]
    BY <2>1 DEF LossInv, WritersKnow, WriterKnows
  <2>2. CASE Readable /\ timeline'[q] = content
    BY <2>2, ReadableHasIt
  <2> QED BY <1>2, <2>1, <2>2
<1>5. Remembered'
  BY DEF LossInv, Remembered
<1>6. WrittenInOrder'
  <2>1. \A i \in DOMAIN written : UNCHANGED timeline[written[i]]
    BY DEF Range
  <2> QED BY <1>1, <2>1 DEF LossInv, WrittenInOrder
<1>7. AnalyzedKeeps'
  <2> SUFFICES ASSUME NEW x \in Range(written), pc'[x] = "analyzed", ~Overrun(x)
               PROVE  x \in Range(analyzed'[x])
    BY <1>1 DEF AnalyzedKeeps
  <2>1. CASE pc[x] = "analyzed" /\ UNCHANGED analyzed[x]
    BY <2>1 DEF LossInv, AnalyzedKeeps
  <2>2. CASE Readable /\ analyzed'[x] = content
    BY <2>2, ReadableHasIt DEF Range
  <2> QED BY <1>2, <2>1, <2>2
<1> QED BY <1>3, <1>4, <1>5, <1>6, <1>7 DEF LossInv

\* A write that leaves bytes of its own leaves those that follow, and those it
\* has in common with a list it starts with.
LEMMA OverwriteAgrees ==
  ASSUME NEW old \in Seq(Byte), NEW new \in Seq(Snapshot), NEW s \in Seq(Snapshot),
         NEW n \in 0..Size(new),
         Starts(s, new) \/ n = 0, Agree(old, Unclosed(s)) \/ n + 1 >= Size(s)
  PROVE  Agree(Overwritten(old, new, n), Unclosed(s))
<1> DEFINE bytes == Overwritten(old, new, n)
<1>1. /\ bytes \in Seq(Byte)
      /\ \A i \in 1..n : bytes[i] = Encode(new)[i]
      /\ \A i \in (n + 1)..Len(bytes) : i \in 1..Len(old) /\ bytes[i] = old[i]
  <2>1. /\ bytes \in Seq(Byte)
        /\ Len(bytes) = IF n < Len(old) THEN Len(old) ELSE n
        /\ \A i \in 1..n : bytes[i] = Encode(new)[i]
        /\ \A i \in (n + 1)..Len(bytes) : i \in 1..Len(old) /\ bytes[i] = old[i]
    BY OverwriteIs
  <2> QED BY <2>1
<1> HIDE DEF bytes
<1>2. /\ Unclosed(s) \in Seq(Byte) /\ Len(Unclosed(s)) \in Nat /\ Size(s) = Len(Unclosed(s)) + 2
      /\ Unclosed(new) \in Seq(Byte) /\ Starts(Unclosed(new), Encode(new))
      /\ Size(new) \in Nat /\ n \in Nat /\ Len(bytes) \in Nat
  <2>1. /\ Unclosed(s) \in Seq(Byte) /\ Size(s) = Len(Unclosed(s)) + 2
        /\ Unclosed(new) \in Seq(Byte) /\ Starts(Unclosed(new), Encode(new))
        /\ Size(new) \in Nat
    BY EncodeIs
  <2>2. n \in Nat
    BY <2>1
  <2>3. Len(bytes) \in Nat
    BY <1>1, LenProperties
  <2>4. Len(Unclosed(s)) \in Nat
    BY <2>1
  <2> QED BY <2>1, <2>2, <2>3, <2>4
<1> SUFFICES ASSUME NEW i \in 1..Len(bytes), i <= Len(Unclosed(s))
             PROVE  bytes[i] = Unclosed(s)[i]
  BY DEF Agree, bytes
<1>3. CASE i \in 1..n
  <2>1. Starts(s, new)
    BY <1>2, <1>3
  <2>2. Starts(Unclosed(s), Unclosed(new))
    BY <2>1, UnclosedStarts
  <2>3. i \in 1..Len(Unclosed(s))
    BY <1>2
  <2>4. Unclosed(new)[i] = Unclosed(s)[i] /\ i \in 1..Len(Unclosed(new))
    BY <1>2, <2>2, <2>3 DEF Starts
  <2> QED BY <1>1, <1>2, <1>3, <2>4 DEF Starts
<1>4. CASE i \in (n + 1)..Len(bytes)
  <2>1. ~(n + 1 >= Size(s))
    BY <1>2, <1>4
  <2>2. i \in 1..Len(old) /\ bytes[i] = old[i]
    BY <1>1, <1>4
  <2> QED BY <2>1, <2>2 DEF Agree
<1>5. i \in 1..n \/ i \in (n + 1)..Len(bytes)
  <2> DEFINE l == Len(bytes)
  <2>1. n \in Nat /\ l \in Nat /\ i \in 1..l
    BY <1>2
  <2> HIDE DEF l
  <2>2. i \in 1..n \/ i \in (n + 1)..l
    BY <2>1
  <2> QED BY <2>2 DEF l
<1> QED BY <1>3, <1>4, <1>5

\* What a write changes of the histories.
LEMMA OverwriteHistories ==
  ASSUME Types, NEW r \in Recorder, pc[r] = "write",
         NEW n \in 0..Size(Append(timeline[r], r)), Overwrite(r, Append(timeline[r], r), n)
  PROVE  /\ Range(written) \subseteq Range(written') /\ cut \subseteq cut'
         /\ \A q \in Recorder : behind[q] \subseteq behind'[q]
         /\ \A x \in Recorder : Overrun(x) => Overrun(x)'
         /\ n # 0 => r \in Range(written') \cup cut'
         /\ n # 0 => \A x \in behind[r] : Overrun(x)'
<1>1. /\ written \in Seq(Recorder) /\ Range(written) \cup cut \subseteq Recorder
      /\ behind \in [Recorder -> SUBSET Recorder]
  BY DEF Types, TypeOK, Range
<1>2. Append(timeline[r], r) \in Seq(Snapshot)
  BY SnapshotFacts DEF Types, TypeOK
<1>3. n + 1 < Size(Append(timeline[r], r)) \/ n # 0
  <2>1. /\ Unclosed(Append(timeline[r], r)) \in Seq(Byte)
        /\ Size(Append(timeline[r], r)) = Len(Unclosed(Append(timeline[r], r))) + 2
    BY <1>2, EncodeIs
  <2>2. Len(Unclosed(Append(timeline[r], r))) \in Nat
    BY <2>1
  <2> QED BY <2>1, <2>2
<1>4. Range(Append(written, r)) = Range(written) \cup {r}
  BY <1>1, RangeOfAppend
<1>5. /\ Range(written) \subseteq Range(written') /\ cut \subseteq cut'
      /\ \A q \in Recorder : behind[q] \subseteq behind'[q]
  BY <1>1, <1>4 DEF Overwrite
<1>6. n # 0 => r \in Range(written') \cup cut'
  BY <1>3, <1>4 DEF Overwrite
<1>7. \A x \in Recorder : Overrun(x) => Overrun(x)'
  BY <1>1, <1>5, OverrunStays
<1>8. n # 0 => \A x \in behind[r] : Overrun(x)'
  BY <1>5, <1>6 DEF Overrun
<1> QED BY <1>5, <1>6, <1>7, <1>8

\* A write, whole or cut short, puts bytes in the file that agree with all that
\* is not overrun by it, and leaves every other writer behind.
LEMMA OverwriteLoss ==
  ASSUME LossInv, Types', NEW r \in Recorder, pc[r] = "write",
         NEW stage \in {"reload", "failed"}, Goto(r, stage),
         NEW n \in 0..Size(Append(timeline[r], r)), Overwrite(r, Append(timeline[r], r), n)
  PROVE  LossInv'
<1> DEFINE new == Append(timeline[r], r)
           whole == n + 1 >= Size(new)
<1>1. /\ file \in Seq(Byte) /\ file # Missing /\ r \in Snapshot /\ r \in Recorder
      /\ timeline \in [Recorder -> Seq(Snapshot)] /\ written \in Seq(Recorder)
      /\ pc \in [Recorder -> Stages] /\ Range(written) \subseteq Recorder
  <2>1. TypeOK /\ FileIsThere
    BY DEF LossInv, Types
  <2>2. file # Missing /\ file \in Seq(Byte) /\ r \in Snapshot
    BY <2>1, SnapshotFacts DEF TypeOK, FileIsThere
  <2>3. /\ timeline \in [Recorder -> Seq(Snapshot)] /\ written \in Seq(Recorder)
        /\ pc \in [Recorder -> Stages]
    BY <2>1 DEF TypeOK
  <2>4. Range(written) \subseteq Recorder
    BY <2>3 DEF Range
  <2> QED BY <2>2, <2>3, <2>4
<1>2. /\ new \in Seq(Snapshot) /\ new # <<>> /\ new[Len(new)] = r
      /\ \A s \in Seq(Snapshot) : Starts(s, timeline[r]) => Starts(s, new) /\ Len(s) < Len(new)
  <2>1. timeline[r] \in Seq(Snapshot)
    BY <1>1
  <2>2. \A s \in Seq(Snapshot) : Starts(s, timeline[r]) => Starts(s, new) /\ Len(s) < Len(new)
    BY <1>1, <2>1, StartsOfAppend
  <2>3. /\ new \in Seq(Snapshot) /\ Len(new) = Len(timeline[r]) + 1 /\ new[Len(timeline[r]) + 1] = r
        /\ Len(timeline[r]) \in Nat
    BY <1>1, <2>1
  <2>4. new # <<>>
    BY <2>3
  <2> QED BY <2>2, <2>3, <2>4
<1>3. /\ file' = Overwritten(file, new, n) /\ timeline' = [timeline EXCEPT ![r] = new]
      /\ pc' = [pc EXCEPT ![r] = stage] /\ analyzed' = analyzed /\ file' # Missing
  <2>1. file' = Overwritten(file, new, n) /\ timeline' = [timeline EXCEPT ![r] = new]
        /\ pc' = [pc EXCEPT ![r] = stage] /\ analyzed' = analyzed
    BY DEF Overwrite, Overwritten, Goto
  <2>2. file' \in Seq(Byte)
    BY <1>1, <1>2, <2>1, OverwriteIs
  <2> QED BY <2>1, <2>2, SnapshotFacts
<1>4. /\ Range(written) \subseteq Range(written')
      /\ \A q \in Recorder : behind[q] \subseteq behind'[q]
      /\ \A x \in Recorder : Overrun(x) => Overrun(x)'
      /\ n # 0 => \A x \in behind[r] : Overrun(x)'
  BY OverwriteHistories DEF LossInv
<1>5. /\ whole => /\ written' = Append(written, r) /\ Range(written') = Range(written) \cup {r}
                  /\ \A q \in Recorder : pc[q] \in {"truncate", "write"} /\ q # r => r \in behind'[q]
      /\ ~whole => written' = written
  <2>1. n \in Nat /\ Size(new) \in Nat
    <3>1. Size(new) \in Nat
      BY <1>2, EncodeIs
    <3> QED BY <3>1
  <2>2. whole <=> ~(n + 1 < Size(new))
    BY <2>1
  <2>3. Range(Append(written, r)) = Range(written) \cup {r}
    BY <1>1, RangeOfAppend
  <2> HIDE DEF whole
  <2> QED BY <2>2, <2>3 DEF Overwrite
<1>6. r \notin Range(written)
  BY DEF LossInv, Remembered, Afterwards
<1>7. \A x \in Range(written) :
        /\ UNCHANGED <<timeline[x], pc[x]>>
        /\ ~Overrun(x)' => /\ ~Overrun(x)
                           /\ Starts(timeline[x], timeline[r]) \/ n = 0
  <2> SUFFICES ASSUME NEW x \in Range(written)
               PROVE  /\ UNCHANGED <<timeline[x], pc[x]>>
                      /\ ~Overrun(x)' => /\ ~Overrun(x)
                                         /\ Starts(timeline[x], timeline[r]) \/ n = 0
    OBVIOUS
  <2>1. x \in Recorder /\ x # r
    BY <1>1, <1>6
  <2>2. WriterKnows(r, x)
    BY DEF LossInv, WritersKnow
  <2> QED BY <1>1, <1>3, <1>4, <2>1, <2>2 DEF WriterKnows
<1>8. n = 0 => ~whole
  <2>1. Unclosed(new) \in Seq(Byte) /\ Size(new) = Len(Unclosed(new)) + 2
    BY <1>2, EncodeIs
  <2>2. Len(Unclosed(new)) \in Nat
    BY <2>1
  <2> QED BY <2>1, <2>2
<1> HIDE DEF new, whole
<1>9. FileKeeps'
  <2> SUFFICES ASSUME NEW x \in Range(written'), ~Overrun(x)'
               PROVE  Agree(file', Unclosed(timeline'[x]))
    BY <1>3 DEF FileKeeps
  <2>1. CASE x \in Range(written)
    <3>1. ~Overrun(x) /\ timeline'[x] = timeline[x] /\ timeline[x] \in Seq(Snapshot)
          /\ (Starts(timeline[x], timeline[r]) \/ n = 0)
      BY <1>1, <1>7, <2>1
    <3>2. Agree(file, Unclosed(timeline[x]))
      BY <2>1, <3>1 DEF LossInv, FileKeeps
    <3>3. Starts(timeline[x], new) \/ n = 0
      BY <1>2, <3>1
    <3> QED BY <1>1, <1>2, <1>3, <3>1, <3>2, <3>3, OverwriteAgrees DEF new
  <2>2. CASE x \notin Range(written)
    <3>1. whole /\ x = r
      BY <1>5, <2>2
    <3>2. timeline'[x] = new /\ Starts(new, new)
      <4>1. Len(new) \in Nat
        BY <1>2
      <4> QED BY <1>1, <1>3, <3>1, <4>1 DEF Starts
    <3> QED BY <1>1, <1>2, <1>3, <3>1, <3>2, OverwriteAgrees DEF new, whole
  <2> QED BY <2>1, <2>2
<1>10. WritersKnow'
  <2> SUFFICES ASSUME NEW q \in Recorder, NEW x \in Range(written'), ~Overrun(x)',
                      pc'[q] \in {"truncate", "write"}
               PROVE  Starts(timeline'[x], timeline'[q]) \/ x \in behind'[q]
    BY DEF WritersKnow, WriterKnows
  <2>1. q # r /\ pc[q] \in {"truncate", "write"} /\ timeline'[q] = timeline[q]
    BY <1>1, <1>3
  <2>2. CASE x \in Range(written)
    <3>1. WriterKnows(q, x) /\ ~Overrun(x) /\ timeline'[x] = timeline[x]
      BY <1>7, <2>1, <2>2 DEF LossInv, WritersKnow
    <3> QED BY <1>4, <2>1, <3>1 DEF WriterKnows
  <2>3. CASE x \notin Range(written)
    BY <1>5, <2>1, <2>3
  <2> QED BY <2>2, <2>3
<1>11. Remembered'
  <2> SUFFICES ASSUME NEW x \in Range(written')
               PROVE  /\ pc'[x] \in Afterwards /\ timeline'[x] # <<>>
                      /\ timeline'[x][Len(timeline'[x])] = x
    BY DEF Remembered
  <2>1. CASE x \in Range(written)
    BY <1>7, <2>1 DEF LossInv, Remembered
  <2>2. CASE x \notin Range(written)
    <3>1. x = r
      BY <1>5, <2>2
    <3> QED BY <1>1, <1>2, <1>3, <3>1 DEF Afterwards
  <2> QED BY <2>1, <2>2
<1>12. WrittenInOrder'
  <2>1. CASE ~whole
    <3>1. written' = written /\ \A i \in DOMAIN written : written[i] \in Range(written)
      BY <1>5, <2>1 DEF Range
    <3> QED BY <1>7, <3>1 DEF LossInv, WrittenInOrder
  <2>2. CASE whole
    <3>1. /\ written' = Append(written, r) /\ DOMAIN written' = 1..(Len(written) + 1)
          /\ DOMAIN written = 1..Len(written) /\ Len(written) \in Nat
          /\ \A i \in 1..Len(written) : written'[i] = written[i] /\ written[i] \in Range(written)
          /\ written'[Len(written) + 1] = r
      BY <1>1, <1>5, <2>2 DEF Range
    <3> SUFFICES ASSUME NEW i \in DOMAIN written', NEW j \in DOMAIN written', i < j,
                        ~Overrun(written[i])'
                 PROVE  /\ Starts(timeline'[written'[i]], timeline'[written'[j]])
                        /\ Len(timeline'[written'[i]]) < Len(timeline'[written'[j]])
      BY DEF WrittenInOrder
    <3>2. i \in 1..Len(written) /\ (j \in 1..Len(written) \/ j = Len(written) + 1)
      BY <3>1
    <3>3. ~Overrun(written[i]) /\ timeline'[written'[i]] = timeline[written[i]]
          /\ (Starts(timeline[written[i]], timeline[r]) \/ n = 0)
      <4>1. \A x : x = written'[i] /\ Overrun(x)' => Overrun(written[i])'
        BY DEF Overrun
      <4> QED BY <1>7, <3>1, <3>2, <4>1
    <3>4. CASE j \in 1..Len(written)
      <4>1. timeline'[written'[j]] = timeline[written[j]]
        BY <1>7, <3>1, <3>4
      <4> QED BY <3>1, <3>2, <3>3, <3>4, <4>1 DEF LossInv, WrittenInOrder
    <3>5. CASE j = Len(written) + 1
      <4>1. timeline'[written'[j]] = new
        BY <1>1, <1>3, <3>1, <3>5
      <4>2. Starts(timeline[written[i]], timeline[r])
        BY <1>8, <2>2, <3>3
      <4>3. timeline[written[i]] \in Seq(Snapshot)
        BY <1>1, <3>1, <3>2
      <4> QED BY <1>2, <3>3, <4>1, <4>2, <4>3
    <3> QED BY <3>2, <3>4, <3>5
  <2> QED BY <2>1, <2>2
<1>13. AnalyzedKeeps'
  <2> SUFFICES ASSUME NEW x \in Range(written'), pc'[x] = "analyzed", ~Overrun(x)'
               PROVE  x \in Range(analyzed'[x])
    BY DEF AnalyzedKeeps
  <2>1. x # r
    BY <1>1, <1>3
  <2>2. x \in Range(written)
    BY <1>5, <2>1
  <2> QED BY <1>3, <1>7, <2>2 DEF LossInv, AnalyzedKeeps
<1> QED BY <1>9, <1>10, <1>11, <1>12, <1>13 DEF LossInv

\* A write is one of some bytes, and all of them if the run goes on.
LEMMA WriteIs ==
  ASSUME Types, NEW r \in Recorder, Write(r) \/ WriteShort(r)
  PROVE  /\ pc[r] = "write"
         /\ \E stage \in {"reload", "failed"} : Goto(r, stage)
         /\ \E n \in 0..Size(Append(timeline[r], r)) : Overwrite(r, Append(timeline[r], r), n)
<1>1. Append(timeline[r], r) \in Seq(Snapshot)
  BY SnapshotFacts DEF Types, TypeOK
<1>2. Size(Append(timeline[r], r)) \in Nat
  BY <1>1, EncodeIs
<1> QED BY <1>2 DEF Write, WriteShort

\* Every step keeps the inductive invariant.
LEMMA NextLoss == LossInv /\ [Next]_vars => LossInv'
<1> SUFFICES ASSUME LossInv, [Next]_vars
             PROVE  LossInv'
  OBVIOUS
<1>1. Types /\ Types'
  BY NextTypes DEF LossInv
<1>2. /\ pc \in [Recorder -> Stages] /\ Range(written) \subseteq Recorder
      /\ timeline \in [Recorder -> Seq(Snapshot)] /\ analyzed \in [Recorder -> Seq(Snapshot)]
  BY <1>1 DEF Types, TypeOK, Range
<1>3. \A x \in Range(written) : pc[x] \in Afterwards
  BY DEF LossInv, Remembered
<1>4. CASE UNCHANGED vars
  BY <1>1, <1>3, <1>4, QuietLoss DEF vars
<1>5. ASSUME NEW r \in Recorder, Start(r) \/ Fetch(r) \/ Stat(r) \/ Kill(r)
      PROVE  LossInv'
  <2>1. /\ UNCHANGED <<file, timeline, analyzed, written, cut, behind>>
        /\ \E stage \in {"fetch", "stat", "failed", "killed", "load", "truncate"} :
             /\ pc' = [pc EXCEPT ![r] = stage]
             /\ stage = "truncate" => file = Missing
             /\ pc[r] \in Afterwards => stage \in Afterwards
    BY <1>5 DEF Start, Fetch, Stat, Kill, Goto, Afterwards
  <2>2. \A x \in Range(written) : pc'[x] \in Afterwards
    BY <1>2, <1>3, <2>1
  <2>3. \A q \in Recorder : /\ pc'[q] \in {"truncate", "write"} =>
                                 pc[q] \in {"truncate", "write"} \/ file = Missing
                            /\ pc'[q] = "analyzed" => pc[q] = "analyzed"
    BY <1>2, <2>1
  <2> QED BY <1>1, <2>1, <2>2, <2>3, QuietLoss
<1>6. ASSUME NEW r \in Recorder, Load(r)
      PROVE  LossInv'
  <2>1. /\ UNCHANGED <<file, analyzed, written, cut, behind>> /\ pc[r] = "load"
        /\ \/ Readable /\ timeline' = [timeline EXCEPT ![r] = content]
              /\ pc' = [pc EXCEPT ![r] = "truncate"]
           \/ UNCHANGED timeline /\ pc' = [pc EXCEPT ![r] = "failed"]
    BY <1>6 DEF Load, Goto
  <2>2. \A x \in Range(written) : x # r /\ UNCHANGED <<pc[x], timeline[x]>>
    BY <1>2, <1>3, <2>1 DEF Afterwards
  <2>3. \A q \in Recorder : /\ pc'[q] \in {"truncate", "write"} =>
                                 \/ pc[q] \in {"truncate", "write"} /\ UNCHANGED timeline[q]
                                 \/ Readable /\ timeline'[q] = content
                            /\ pc'[q] = "analyzed" => pc[q] = "analyzed"
    BY <1>2, <2>1
  <2> QED BY <1>1, <1>3, <2>1, <2>2, <2>3, QuietLoss
<1>7. ASSUME NEW r \in Recorder, Truncate(r)
      PROVE  LossInv'
  <2>1. /\ UNCHANGED file \/ file' = <<>>
        /\ UNCHANGED <<timeline, analyzed, written, cut, behind>> /\ pc[r] = "truncate"
        /\ \E stage \in {"write", "failed"} : pc' = [pc EXCEPT ![r] = stage]
    BY <1>7 DEF Truncate, Goto
  <2>2. \A x \in Range(written) : UNCHANGED pc[x]
    BY <1>2, <1>3, <2>1 DEF Afterwards
  <2>3. \A q \in Recorder : /\ pc'[q] \in {"truncate", "write"} => pc[q] \in {"truncate", "write"}
                            /\ pc'[q] = "analyzed" => pc[q] = "analyzed"
    BY <1>2, <2>1
  <2> QED BY <1>1, <1>3, <2>1, <2>2, <2>3, QuietLoss
<1>8. ASSUME NEW r \in Recorder, Write(r) \/ WriteShort(r)
      PROVE  LossInv'
  BY <1>1, <1>8, WriteIs, OverwriteLoss
<1>9. ASSUME NEW r \in Recorder, Reload(r)
      PROVE  LossInv'
  <2>1. /\ UNCHANGED <<file, timeline, written, cut, behind>>
        /\ \/ Readable /\ analyzed' = [analyzed EXCEPT ![r] = content]
              /\ pc' = [pc EXCEPT ![r] = "analyzed"]
           \/ UNCHANGED analyzed /\ pc' = [pc EXCEPT ![r] = "failed"]
    BY <1>9 DEF Reload, Goto
  <2>2. \A x \in Range(written) : pc'[x] \in Afterwards
    BY <1>2, <1>3, <2>1 DEF Afterwards
  <2>3. \A q \in Recorder : /\ pc'[q] \in {"truncate", "write"} => pc[q] \in {"truncate", "write"}
                            /\ pc'[q] = "analyzed" =>
                                 \/ pc[q] = "analyzed" /\ UNCHANGED analyzed[q]
                                 \/ Readable /\ analyzed'[q] = content
    BY <1>2, <2>1
  <2> QED BY <1>1, <2>1, <2>2, <2>3, QuietLoss
<1>10. QED
  BY <1>4, <1>5, <1>6, <1>7, <1>8, <1>9 DEF Next, Step

\* However runs overlap, fail and are killed, a recorded snapshot is missing from
\* a file that decodes, or from the timeline its own run analyzes, only if a run
\* that had loaded the file before it was written wrote to it after.
THEOREM LossSound == Spec => []LostOnlyToOverlap
<1>1. LossInv => LostOnlyToOverlap
  BY ReadableHasIt DEF LossInv, AnalyzedKeeps, LostOnlyToOverlap, Range
<1>2. QED
  BY <1>1, InitLoss, NextLoss, PTL DEF Spec
-----------------------------------------------------------------------------
(* Whole writes and writes cut short *)

\* What SaveTimeline writes LoadTimeline reads.
LEMMA DecodeEncode ==
  ASSUME NEW s \in Seq(Snapshot)
  PROVE  Encode(s) \in Seq(Byte) /\ Decode(Encode(s)) = s
<1> DEFINE u == Len(Unclosed(s))
           bytes == Encode(s)
<1>1. /\ Unclosed(s) \in Seq(Byte) /\ bytes \in Seq(Byte) /\ Starts(Unclosed(s), bytes)
      /\ Len(bytes) = u + 2 /\ bytes[u + 2 - 1] = Closing /\ bytes[u + 2] = NewLine
  BY EncodeIs
<1>2. u \in Nat
  BY <1>1
<1> HIDE DEF u, bytes
<1>3. u < Len(bytes) /\ bytes[u + 1] = Closing
      /\ \A i \in (u + 2)..Len(bytes) : bytes[i] = NewLine
  <2>1. u + 2 - 1 = u + 1 /\ u < u + 2 /\ \A i \in (u + 2)..(u + 2) : i = u + 2
    BY <1>2
  <2> QED BY <1>1, <2>1
<1>4. Decode(bytes) = s
  BY <1>1, <1>3, DecodeWhole DEF u
<1> QED BY <1>1, <1>4 DEF bytes

\* A write of all but the last byte at most leaves a file that decodes to what
\* was written, or not at all; to a file that was empty, the former.
LEMMA DecodeOverwritten ==
  ASSUME NEW old \in Seq(Byte), NEW new \in Seq(Snapshot), NEW n \in 0..Size(new), n + 1 >= Size(new)
  PROVE  /\ Decode(Overwritten(old, new, n)) \in {new, Garbage}
         /\ old = <<>> => Decode(Overwritten(old, new, n)) = new
<1> DEFINE u == Len(Unclosed(new))
           bytes == Overwritten(old, new, n)
           e == Encode(new)
<1>1. /\ bytes \in Seq(Byte)
      /\ Len(bytes) = IF n < Len(old) THEN Len(old) ELSE n
      /\ \A i \in 1..n : bytes[i] = e[i]
  BY OverwriteIs
<1>2. /\ Unclosed(new) \in Seq(Byte) /\ e \in Seq(Byte) /\ Starts(Unclosed(new), e)
      /\ Size(new) = u + 2 /\ e[u + 2 - 1] = Closing /\ e[u + 2] = NewLine
  BY EncodeIs
<1>3. u \in Nat /\ Len(old) \in Nat /\ n \in {u + 1, u + 2}
  <2>1. u \in Nat /\ Len(old) \in Nat
    BY <1>2
  <2> HIDE DEF u
  <2> QED BY <1>2, <2>1
<1>4. old = <<>> => Len(old) = 0
  OBVIOUS
<1> HIDE DEF bytes, e
<1>5. u < Len(bytes) /\ (old = <<>> => Len(bytes) = n)
  <2> DEFINE l == Len(bytes)
             m == Len(old)
  <2>1. l = (IF n < m THEN m ELSE n) /\ m \in Nat /\ u \in Nat /\ n \in {u + 1, u + 2}
        /\ (old = <<>> => m = 0)
    BY <1>1, <1>3, <1>4
  <2> HIDE DEF l, m, u
  <2>2. u < l /\ (m = 0 => l = n)
    BY <2>1
  <2> QED BY <2>1, <2>2 DEF l
<1> HIDE DEF u
<1>6. bytes[u + 1] = Closing
  <2>1. u + 2 - 1 = u + 1 /\ u + 1 \in 1..n
    BY <1>3
  <2> QED BY <1>1, <1>2, <2>1
<1>7. Starts(Unclosed(new), bytes)
  <2>1. /\ u <= Len(bytes) /\ \A i \in 1..u : i \in 1..n
    <3> DEFINE l == Len(bytes)
    <3>1. l \in Nat
      BY <1>1, LenProperties
    <3>2. u \in Nat /\ u < l /\ n \in {u + 1, u + 2}
      BY <1>3, <1>5
    <3> HIDE DEF l
    <3>3. u <= l /\ \A i \in 1..u : i \in 1..n
      BY <3>1, <3>2
    <3> QED BY <3>3 DEF l
  <2>2. \A i \in 1..u : e[i] = Unclosed(new)[i]
    BY <1>2 DEF Starts, u
  <2>3. \A i \in 1..u : bytes[i] = Unclosed(new)[i]
    BY <1>1, <2>1, <2>2
  <2> QED BY <2>1, <2>3 DEF Starts, u
<1>8. old = <<>> => \A i \in (u + 2)..Len(bytes) : bytes[i] = NewLine
  <2> SUFFICES ASSUME old = <<>>, NEW i \in (u + 2)..n
               PROVE  bytes[i] = NewLine
    BY <1>5
  <2>1. i = u + 2 /\ i \in 1..n
    BY <1>3
  <2> QED BY <1>1, <1>2, <2>1
<1>9. /\ Decode(bytes) \in {new, Garbage}
      /\ (\A i \in (u + 2)..Len(bytes) : bytes[i] = NewLine) => Decode(bytes) = new
  BY <1>1, <1>5, <1>6, <1>7, DecodeWhole DEF u
<1> QED BY <1>8, <1>9 DEF bytes

\* A write of less leaves no end of a list where there was none.
LEMMA UnendedOverwritten ==
  ASSUME NEW old \in Seq(Byte), NEW new \in Seq(Snapshot), NEW n \in 0..Size(new), n + 1 < Size(new),
         \A i \in 1..Len(old) : old[i] # Closing
  PROVE  \A i \in 1..Len(Overwritten(old, new, n)) : Overwritten(old, new, n)[i] # Closing
<1> DEFINE bytes == Overwritten(old, new, n)
           l == Len(bytes)
<1>1. /\ bytes \in Seq(Byte)
      /\ \A i \in 1..n : bytes[i] = Encode(new)[i]
      /\ \A i \in (n + 1)..l : i \in 1..Len(old) /\ bytes[i] = old[i]
  BY OverwriteIs
<1>2. Size(new) \in Nat /\ \A i \in 1..(Size(new) - 2) : Encode(new)[i] # Closing
  BY EncodeIs
<1>3. l \in Nat
  BY <1>1, LenProperties
<1> HIDE DEF bytes, l
<1>4. ASSUME NEW i \in 1..l
      PROVE  bytes[i] # Closing
  <2>1. (i \in 1..n /\ i \in 1..(Size(new) - 2)) \/ i \in (n + 1)..l
    BY <1>2, <1>3
  <2> QED BY <1>1, <1>2, <2>1
<1> QED BY <1>4 DEF bytes, l
-----------------------------------------------------------------------------
(* The order of the snapshots *)

\* What was recorded before, and since, in the order of the writes.
History == Earlier \o written

\* All that s lists, t lists in the same order.
Ordered(s, t) ==
  \A i, j \in DOMAIN s : i <= j =>
    \E k, l \in DOMAIN t : t[k] = s[i] /\ t[l] = s[j] /\ (i < j => k < l)

\* Who truncated the file and was not overtaken since still finds no end of a
\* list in it.
UnendedUntilWritten ==
  \A q \in Recorder : pc[q] = "write" /\ behind[q] = {} =>
    file # Missing /\ \A i \in 1..Len(file) : file[i] # Closing

\* What runs that have not written hold, and what the file holds.
InWriteOrder ==
  /\ \A q \in Recorder : pc[q] \notin Afterwards => Ordered(timeline[q], History)
  /\ Readable => Ordered(content, History)

EndsWithLastWrite ==
  Readable /\ written # <<>> => content # <<>> /\ content[Len(content)] = written[Len(written)]

\* The inductive invariant.  The order has to hold of the timelines in memory
\* as well, for they are what the next write puts into the file.
OrderInv ==
  Types /\ UnendedUntilWritten /\ (~OvertakenAndCut => InWriteOrder /\ EndsWithLastWrite)

\* A list stays in order when the other one grows at its end.
LEMMA OrderLasts ==
  ASSUME NEW S, NEW t \in Seq(S), NEW e, NEW s, Ordered(s, t)
  PROVE  Ordered(s, Append(t, e))
<1>1. DOMAIN t \subseteq DOMAIN Append(t, e) /\ \A k \in DOMAIN t : Append(t, e)[k] = t[k]
  OBVIOUS
<1>2. QED
  BY <1>1 DEF Ordered

\* Two lists in order stay so when both get the same new end.
LEMMA OrderOfAppends ==
  ASSUME NEW S, NEW s \in Seq(S), NEW t \in Seq(S), NEW e, Ordered(s, t)
  PROVE  Ordered(Append(s, e), Append(t, e))
<1> DEFINE u == Append(s, e)
           v == Append(t, e)
<1>1. /\ Len(s) \in Nat /\ Len(t) \in Nat
      /\ DOMAIN s = 1..Len(s) /\ DOMAIN t = 1..Len(t)
      /\ DOMAIN u = 1..(Len(s) + 1) /\ DOMAIN v = 1..(Len(t) + 1)
  OBVIOUS
<1>2. /\ \A i \in 1..Len(s) : u[i] = s[i]
      /\ \A k \in 1..Len(t) : v[k] = t[k]
      /\ u[Len(s) + 1] = e /\ v[Len(t) + 1] = e
  OBVIOUS
<1> HIDE DEF u, v
<1>3. SUFFICES ASSUME NEW i \in DOMAIN u, NEW j \in DOMAIN u, i <= j
               PROVE  \E k, l \in DOMAIN v : v[k] = u[i] /\ v[l] = u[j] /\ (i < j => k < l)
  BY DEF Ordered, u, v
<1>4. CASE j \in 1..Len(s)
  <2>1. i \in DOMAIN s /\ j \in DOMAIN s /\ u[i] = s[i] /\ u[j] = s[j]
    BY <1>1, <1>2, <1>3, <1>4
  <2>2. PICK k \in DOMAIN t, l \in DOMAIN t : t[k] = s[i] /\ t[l] = s[j] /\ (i < j => k < l)
    BY <1>3, <2>1 DEF Ordered
  <2>3. k \in DOMAIN v /\ l \in DOMAIN v /\ v[k] = t[k] /\ v[l] = t[l]
    BY <1>1, <1>2
  <2>4. QED
    BY <2>1, <2>2, <2>3
<1>5. CASE i \in 1..Len(s) /\ j = Len(s) + 1
  <2>1. i \in DOMAIN s /\ u[i] = s[i] /\ u[j] = e
    BY <1>1, <1>2, <1>5
  <2>2. PICK k \in DOMAIN t : t[k] = s[i]
    BY <1>1, <1>3, <2>1 DEF Ordered
  <2>3. /\ k \in DOMAIN v /\ Len(t) + 1 \in DOMAIN v /\ k < Len(t) + 1
        /\ v[k] = t[k] /\ v[Len(t) + 1] = e
    BY <1>1, <1>2
  <2>4. QED
    BY <2>1, <2>2, <2>3
<1>6. CASE i = Len(s) + 1 /\ j = Len(s) + 1
  <2>1. Len(t) + 1 \in DOMAIN v
    BY <1>1
  <2>2. QED
    BY <1>1, <1>2, <1>6, <2>1
<1>7. QED
  BY <1>1, <1>3, <1>4, <1>5, <1>6

\* A file that is there initially is what was recorded before.
LEMMA InitOrder == Init => OrderInv
<1> SUFFICES ASSUME Init
             PROVE  OrderInv
  OBVIOUS
<1>1. Earlier \in Seq(Snapshot) /\ History = Earlier
  BY SnapshotFacts DEF Init, History
<1>2. Ordered(Earlier, Earlier) /\ Ordered(<<>>, Earlier)
  <2>1. Ordered(Earlier, Earlier)
    BY DEF Ordered
  <2>2. Ordered(<<>>, Earlier)
    BY DEF Ordered
  <2>3. QED
    BY <2>1, <2>2
<1>3. Readable => content = Earlier
  BY <1>1, DecodeEncode DEF Init, Readable, content
<1>4. InWriteOrder
  BY <1>1, <1>2, <1>3 DEF Init, InWriteOrder
<1>5. UnendedUntilWritten /\ EndsWithLastWrite
  BY DEF Init, UnendedUntilWritten, EndsWithLastWrite
<1>6. QED
  BY <1>4, <1>5, InitTypes DEF OrderInv

\* What the steps keep that write nothing.
LEMMA QuietOrder ==
  ASSUME OrderInv, Types', UNCHANGED <<written, cut, behind>>, UNCHANGED file \/ file' = <<>>,
         \A q \in Recorder : pc'[q] = "write" => pc[q] = "write" \/ file' = <<>>,
         \A q \in Recorder : pc'[q] \notin Afterwards =>
           \/ pc[q] \notin Afterwards /\ UNCHANGED timeline[q]
           \/ Readable /\ timeline'[q] = content
  PROVE  OrderInv'
<1>1. UNCHANGED <<OvertakenAndCut, History>>
  BY DEF OvertakenAndCut, History
<1>2. <<>> \in Seq(Byte) /\ <<>> # Missing /\ 1..Len(<<>>) = {}
  <2>1. <<>> \in Seq(Byte) /\ 1..Len(<<>>) = {}
    OBVIOUS
  <2> QED BY <2>1, SnapshotFacts
<1>3. UnendedUntilWritten'
  BY <1>2 DEF OrderInv, UnendedUntilWritten
<1>4. Readable' => Readable /\ UNCHANGED content
  <2>1. CASE UNCHANGED file
    BY <2>1 DEF Readable, content
  <2>2. CASE file' = <<>>
    <3>1. Decode(<<>>) = Garbage
      BY <1>2, DecodeUnended
    <3> QED BY <1>2, <2>2, <3>1 DEF Readable, content
  <2> QED BY <2>1, <2>2
<1>5. ASSUME ~OvertakenAndCut
      PROVE  InWriteOrder' /\ EndsWithLastWrite'
  <2>1. InWriteOrder /\ EndsWithLastWrite
    BY <1>5 DEF OrderInv
  <2>2. ASSUME NEW q \in Recorder, pc'[q] \notin Afterwards
        PROVE  Ordered(timeline'[q], History)
    BY <2>1, <2>2 DEF InWriteOrder
  <2>3. InWriteOrder'
    BY <1>1, <1>4, <2>1, <2>2 DEF InWriteOrder
  <2>4. EndsWithLastWrite'
    BY <1>4, <2>1 DEF EndsWithLastWrite
  <2> QED BY <2>3, <2>4
<1> QED BY <1>1, <1>3, <1>5 DEF OrderInv

\* A whole write puts what the run holds in the file, with its own snapshot at
\* the end, and overtakes everyone who is about to write.
LEMMA WholeOrder ==
  ASSUME OrderInv, Types', NEW r \in Recorder, pc[r] = "write",
         NEW stage \in {"reload", "failed"}, Goto(r, stage),
         NEW n \in 0..Size(Append(timeline[r], r)), Overwrite(r, Append(timeline[r], r), n),
         n + 1 >= Size(Append(timeline[r], r))
  PROVE  OrderInv'
<1> DEFINE new == Append(timeline[r], r)
<1>1. TypeOK /\ FileIsThere
  BY DEF OrderInv, Types
<1>2. /\ file \in Seq(Byte) /\ r \in Snapshot /\ timeline \in [Recorder -> Seq(Snapshot)]
      /\ pc \in [Recorder -> Stages] /\ written \in Seq(Recorder) /\ cut \subseteq Recorder
      /\ behind \in [Recorder -> SUBSET Recorder]
  BY <1>1, SnapshotFacts DEF TypeOK, FileIsThere
<1>3. History \in Seq(Snapshot) /\ timeline[r] \in Seq(Snapshot)
  <2>1. written \in Seq(Snapshot)
    BY <1>2, SnapshotFacts
  <2> QED BY <1>2, <2>1, SnapshotFacts DEF History
<1>4. new \in Seq(Snapshot) /\ new # <<>> /\ new[Len(new)] = r
  <2>1. /\ new \in Seq(Snapshot) /\ Len(new) = Len(timeline[r]) + 1 /\ new[Len(timeline[r]) + 1] = r
        /\ Len(timeline[r]) \in Nat
    BY <1>2, <1>3
  <2>2. new # <<>>
    BY <2>1
  <2> QED BY <2>1, <2>2
<1>5. /\ file' = Overwritten(file, new, n) /\ timeline' = [timeline EXCEPT ![r] = new]
      /\ pc' = [pc EXCEPT ![r] = stage] /\ cut' = cut /\ written' = Append(written, r)
      /\ behind' = [q \in Recorder |-> IF pc[q] \in {"truncate", "write"} /\ q # r
                                         THEN behind[q] \cup {r} ELSE behind[q]]
  <2>1. n \in Nat /\ Size(new) \in Nat
    <3>1. Size(new) \in Nat
      BY <1>4, EncodeIs
    <3> QED BY <3>1
  <2>2. ~(n + 1 < Size(new))
    BY <2>1
  <2> QED BY <2>2 DEF Overwrite, Overwritten, Goto
<1>6. History' = Append(History, r)
  <2>1. written \in Seq(Snapshot) /\ Earlier \in Seq(Snapshot)
    BY <1>2, SnapshotFacts
  <2>2. Earlier \o Append(written, r) = Append(Earlier \o written, r)
    BY <1>2, <2>1
  <2> QED BY <1>5, <2>2 DEF History
<1>7. Readable' => content' = new
  BY <1>2, <1>4, <1>5, DecodeOverwritten DEF Readable, content
<1>8. OvertakenAndCut => OvertakenAndCut'
  BY <1>2, <1>5 DEF OvertakenAndCut
<1>9. UnendedUntilWritten'
  <2> SUFFICES ASSUME NEW q \in Recorder, pc'[q] = "write"
               PROVE  behind'[q] # {}
    BY DEF UnendedUntilWritten
  <2>1. q # r /\ pc[q] = "write"
    BY <1>2, <1>5
  <2> QED BY <1>5, <2>1
<1>10. ASSUME ~OvertakenAndCut'
       PROVE  InWriteOrder' /\ EndsWithLastWrite'
  <2>1. InWriteOrder
    BY <1>8, <1>10 DEF OrderInv
  <2>2. Ordered(new, History')
    BY <1>3, <1>6, <2>1, OrderOfAppends DEF InWriteOrder, Afterwards
  <2>3. ASSUME NEW q \in Recorder, pc'[q] \notin Afterwards
        PROVE  Ordered(timeline'[q], History')
    <3>1. q # r /\ pc[q] \notin Afterwards /\ timeline'[q] = timeline[q]
      BY <1>2, <1>5, <2>3 DEF Afterwards
    <3>2. Ordered(timeline[q], History)
      BY <2>1, <3>1 DEF InWriteOrder
    <3> QED BY <1>3, <1>6, <3>1, <3>2, OrderLasts
  <2>4. InWriteOrder'
    BY <1>7, <2>2, <2>3 DEF InWriteOrder
  <2>5. written'[Len(written')] = r
    BY <1>2, <1>5
  <2>6. EndsWithLastWrite'
    BY <1>4, <1>7, <2>5 DEF EndsWithLastWrite
  <2> QED BY <2>4, <2>6
<1> QED BY <1>9, <1>10 DEF OrderInv

\* A write cut short leaves the file as it is, or without an end of the list, or
\* belongs to a run that was overtaken.
LEMMA CutOrder ==
  ASSUME OrderInv, Types', NEW r \in Recorder, pc[r] = "write",
         NEW stage \in {"reload", "failed"}, Goto(r, stage),
         NEW n \in 0..Size(Append(timeline[r], r)), Overwrite(r, Append(timeline[r], r), n),
         n + 1 < Size(Append(timeline[r], r))
  PROVE  OrderInv'
<1> DEFINE new == Append(timeline[r], r)
<1>1. TypeOK /\ FileIsThere
  BY DEF OrderInv, Types
<1>2. /\ file \in Seq(Byte) /\ r \in Snapshot /\ timeline \in [Recorder -> Seq(Snapshot)]
      /\ pc \in [Recorder -> Stages]
  BY <1>1, SnapshotFacts DEF TypeOK, FileIsThere
<1>3. new \in Seq(Snapshot)
  BY <1>2
<1>4. /\ file' = Overwritten(file, new, n) /\ timeline' = [timeline EXCEPT ![r] = new]
      /\ pc' = [pc EXCEPT ![r] = stage] /\ UNCHANGED <<written, behind>>
      /\ cut' = IF n = 0 THEN cut ELSE cut \cup {r}
  BY DEF Overwrite, Overwritten, Goto
<1>5. file' \in Seq(Byte) /\ file' # Missing
  BY <1>2, <1>3, <1>4, OverwriteIs, SnapshotFacts
<1>6. UNCHANGED History /\ (OvertakenAndCut => OvertakenAndCut')
  BY <1>4 DEF History, OvertakenAndCut
<1>7. \A q \in Recorder : /\ pc'[q] = "write" => q # r /\ pc[q] = "write"
                          /\ pc'[q] \notin Afterwards =>
                               pc[q] \notin Afterwards /\ timeline'[q] = timeline[q]
  BY <1>2, <1>4 DEF Afterwards
<1>8. (\A i \in 1..Len(file) : file[i] # Closing) =>
        /\ \A i \in 1..Len(file') : file'[i] # Closing
        /\ ~Readable'
  <2> SUFFICES ASSUME \A i \in 1..Len(file) : file[i] # Closing
               PROVE  (\A i \in 1..Len(file') : file'[i] # Closing) /\ ~Readable'
    OBVIOUS
  <2>1. \A i \in 1..Len(file') : file'[i] # Closing
    BY <1>2, <1>3, <1>4, UnendedOverwritten
  <2>2. Decode(file') = Garbage
    BY <1>5, <2>1, DecodeUnended
  <2> QED BY <2>1, <2>2, <1>5 DEF Readable, content
<1>9. UnendedUntilWritten'
  BY <1>4, <1>5, <1>7, <1>8 DEF OrderInv, UnendedUntilWritten
<1>10. ASSUME ~OvertakenAndCut'
       PROVE  InWriteOrder' /\ EndsWithLastWrite'
  <2>1. InWriteOrder /\ EndsWithLastWrite
    BY <1>6, <1>10 DEF OrderInv
  <2>2. \A q \in Recorder : pc'[q] \notin Afterwards => Ordered(timeline'[q], History)
    BY <1>7, <2>1 DEF InWriteOrder
  <2>3. Readable' => n = 0
    <3> SUFFICES ASSUME n # 0
                 PROVE  ~Readable'
      OBVIOUS
    <3>1. behind[r] = {}
      BY <1>4, <1>10 DEF OvertakenAndCut
    <3> QED BY <1>8, <3>1 DEF OrderInv, UnendedUntilWritten
  <2>4. n = 0 => file' = file
    <3>1. SubSeq(Encode(new), 1, 0) = <<>> /\ SubSeq(file, 0 + 1, Len(file)) = file
          /\ <<>> \o file = file
      BY <1>2
    <3> QED BY <1>4, <3>1 DEF Overwritten
  <2>5. Readable' => Readable /\ UNCHANGED content
    BY <2>3, <2>4 DEF Readable, content
  <2>6. InWriteOrder'
    BY <1>6, <2>1, <2>2, <2>5 DEF InWriteOrder
  <2>7. EndsWithLastWrite'
    BY <1>4, <2>1, <2>5 DEF EndsWithLastWrite
  <2> QED BY <2>6, <2>7
<1> QED BY <1>9, <1>10 DEF OrderInv

\* Every step keeps the invariant.
LEMMA NextOrder == OrderInv /\ [Next]_vars => OrderInv'
<1> SUFFICES ASSUME OrderInv, [Next]_vars
             PROVE  OrderInv'
  OBVIOUS
<1>1. Types /\ Types'
  BY NextTypes DEF OrderInv
<1>2. pc \in [Recorder -> Stages] /\ timeline \in [Recorder -> Seq(Snapshot)]
  BY <1>1 DEF Types, TypeOK
<1>3. CASE UNCHANGED vars
  BY <1>1, <1>3, QuietOrder DEF vars
<1>4. ASSUME NEW r \in Recorder,
             Start(r) \/ Fetch(r) \/ Stat(r) \/ Load(r) \/ Truncate(r) \/ Reload(r) \/ Kill(r)
      PROVE  OrderInv'
  <2>1. /\ UNCHANGED <<written, cut, behind>> /\ (UNCHANGED file \/ file' = <<>>)
        /\ \E stage \in Stages :
             /\ pc' = [pc EXCEPT ![r] = stage]
             /\ stage = "write" => file' = <<>>
             /\ stage \notin Afterwards => pc[r] \notin Afterwards
        /\ \/ UNCHANGED timeline
           \/ Readable /\ timeline' = [timeline EXCEPT ![r] = content]
    BY <1>4 DEF Start, Fetch, Stat, Load, Truncate, Reload, Kill, Goto, Stages, Afterwards
  <2>2. \A q \in Recorder : pc'[q] = "write" => pc[q] = "write" \/ file' = <<>>
    BY <1>2, <2>1
  <2>3. \A q \in Recorder : pc'[q] \notin Afterwards =>
          \/ pc[q] \notin Afterwards /\ UNCHANGED timeline[q]
          \/ Readable /\ timeline'[q] = content
    BY <1>2, <2>1
  <2> QED BY <1>1, <2>1, <2>2, <2>3, QuietOrder
<1>5. ASSUME NEW r \in Recorder, Write(r) \/ WriteShort(r)
      PROVE  OrderInv'
  <2>1. /\ pc[r] = "write"
        /\ \E stage \in {"reload", "failed"} : Goto(r, stage)
    BY <1>1, <1>5, WriteIs
  <2>2. PICK n \in 0..Size(Append(timeline[r], r)) : Overwrite(r, Append(timeline[r], r), n)
    BY <1>1, <1>5, WriteIs
  <2>3. n + 1 >= Size(Append(timeline[r], r)) \/ n + 1 < Size(Append(timeline[r], r))
    <3>1. Append(timeline[r], r) \in Seq(Snapshot)
      BY <1>2, SnapshotFacts
    <3>2. Size(Append(timeline[r], r)) \in Nat
      BY <3>1, EncodeIs
    <3> QED BY <3>2
  <2> QED BY <1>1, <2>1, <2>2, <2>3, WholeOrder, CutOrder
<1>6. QED
  BY <1>3, <1>4, <1>5 DEF Next, Step

\* However runs overlap, fail and are killed, a readable file lists the snapshots
\* it has not lost in the order they were written, and nothing else, the last
\* write last, unless a run that was overtaken had its write cut short.
THEOREM OrderSound == Spec => []ReadableIsWriteOrder
<1>1. LossInv /\ Readable => InOrderOf(written, {r \in Recorder : ~Overrun(r)}, content)
  <2> SUFFICES ASSUME LossInv, Readable, NEW i \in DOMAIN written, NEW j \in DOMAIN written,
                      i <= j, ~Overrun(written[i]), ~Overrun(written[j])
               PROVE  \E k, l \in DOMAIN content :
                        content[k] = written[i] /\ content[l] = written[j] /\ (i < j => k < l)
    BY DEF InOrderOf
  <2>1. written[i] \in Range(written) /\ written[j] \in Range(written)
    BY DEF Range
  <2>2. /\ Len(timeline[written[i]]) \in DOMAIN content
        /\ content[Len(timeline[written[i]])] = written[i]
        /\ Len(timeline[written[j]]) \in DOMAIN content
        /\ content[Len(timeline[written[j]])] = written[j]
    BY <2>1, ReadableHasIt
  <2>3. i < j => Len(timeline[written[i]]) < Len(timeline[written[j]])
    BY DEF LossInv, WrittenInOrder
  <2> QED BY <2>2, <2>3
<1>2. OrderInv /\ Readable /\ ~OvertakenAndCut =>
        /\ InOrderOf(content, Range(content), Earlier \o written)
        /\ written # <<>> => content # <<>> /\ content[Len(content)] = written[Len(written)]
  BY DEF OrderInv, InWriteOrder, EndsWithLastWrite, Ordered, InOrderOf, History
<1>3. LossInv /\ OrderInv => ReadableIsWriteOrder
  BY <1>1, <1>2 DEF ReadableIsWriteOrder
<1>4. QED
  BY <1>3, InitLoss, NextLoss, InitOrder, NextOrder, PTL DEF Spec
-----------------------------------------------------------------------------
(* The log, when runs neither overlap nor fail in the middle *)

\* What a run that loads the file now gets to hold.
Stored == IF file = Missing THEN <<>> ELSE content

\* One run is active at most.
OneRun == \A q, r \in Recorder : Active(q) /\ Active(r) => q = r

\* The run that writes has truncated the file, and it alone has.
TruncatedToWrite ==
  /\ \A r \in Recorder : pc[r] = "write" => file = <<>>
  /\ content = Garbage => \E r \in Recorder : pc[r] = "write"

\* A run holds nothing until it has loaded, and then what the file holds.
HeldIsStored ==
  \A r \in Recorder :
    /\ pc[r] \in {"idle", "fetch", "stat", "load"} => timeline[r] = <<>>
    /\ pc[r] = "truncate" => timeline[r] = Stored

\* Who has not written yet is not in the log.
NotLoggedYet ==
  \A r \in Recorder :
    pc[r] \in {"idle", "fetch", "stat", "load", "truncate", "write"} => r \notin Range(Logged)

\* The inductive invariant.
SerialInv == Types /\ OneRun /\ TruncatedToWrite /\ HeldIsStored /\ NotLoggedYet

\* The log is what the file holds while nobody writes, and what the run that
\* writes holds while it does.
LEMMA LoggedFacts ==
  /\ (\A r \in Recorder : pc[r] # "write") => Logged = Stored
  /\ \A r \in Recorder : pc[r] = "write" /\ OneRun => Logged = timeline[r]
<1>1. (\A r \in Recorder : pc[r] # "write") => Logged = Stored
  BY DEF Logged, Stored
<1>2. ASSUME NEW r \in Recorder, pc[r] = "write", OneRun
      PROVE  Logged = timeline[r]
  <2>1. \A q \in Recorder : pc[q] = "write" => q = r
    BY <1>2 DEF OneRun, Active, Ended
  <2>2. (CHOOSE q \in Recorder : pc[q] = "write") = r
    BY <1>2, <2>1
  <2>3. QED
    BY <1>2, <2>2 DEF Logged
<1>3. QED
  BY <1>1, <1>2

\* No run is in an existing file, and none is in a file that does not exist.
LEMMA InitSerial == Init => SerialInv /\ Log!Init
<1> SUFFICES ASSUME Init
             PROVE  SerialInv /\ Log!Init
  OBVIOUS
<1>1. \A r \in Recorder : pc[r] = "idle" /\ timeline[r] = <<>>
  BY DEF Init
<1>2. Logged = Stored /\ OneRun
  BY <1>1, LoggedFacts DEF OneRun, Active
<1>3. Stored \in {<<>>, Earlier} /\ content # Garbage
  <2>1. Encode(Earlier) \in Seq(Byte) /\ Decode(Encode(Earlier)) = Earlier
    BY SnapshotFacts, DecodeEncode
  <2> QED BY <2>1, SnapshotFacts DEF Init, Stored, content
<1>4. Range(<<>>) = {}
  BY DEF Range
<1>5. NotLoggedYet
  BY <1>2, <1>3, <1>4, FileAssumption DEF NotLoggedYet
<1>6. TruncatedToWrite /\ HeldIsStored
  BY <1>1, <1>3 DEF TruncatedToWrite, HeldIsStored
<1>7. QED
  BY <1>2, <1>3, <1>5, <1>6, InitTypes DEF SerialInv, Log!Init

\* Steps that leave the file alone, of a run that is the only one: the log stays.
LEMMA SerialStep ==
  ASSUME SerialInv, Types', UNCHANGED file, NEW r \in Recorder,
         NEW stage \in Stages \ {"write"}, pc' = [pc EXCEPT ![r] = stage],
         \A q \in Recorder : Active(q) => q = r, pc[r] # "write",
         \A q \in Recorder \ {r} : timeline'[q] = timeline[q],
         stage \in {"idle", "fetch", "stat", "load"} => timeline'[r] = <<>>,
         stage = "truncate" => timeline'[r] = Stored,
         stage \in {"fetch", "stat", "load", "truncate"} =>
           pc[r] \in {"idle", "fetch", "stat", "load"},
         stage # "idle"
  PROVE  SerialInv' /\ UNCHANGED Logged
<1>1. pc \in [Recorder -> Stages]
  BY DEF SerialInv, Types, TypeOK
<1>2. \A q \in Recorder : pc'[q] = IF q = r THEN stage ELSE pc[q]
  BY <1>1
<1>3. \A q \in Recorder : pc[q] # "write" /\ pc'[q] # "write"
  BY <1>2 DEF Active, Ended
<1>4. UNCHANGED Stored /\ Logged = Stored
  BY <1>3, LoggedFacts DEF Stored, content
<1>5. Logged' = Stored'
  BY <1>3 DEF Logged, Stored
<1>6. \A q \in Recorder \ {r} : ~Active(q)'
  BY <1>2 DEF Active
<1>7. OneRun'
  BY <1>6 DEF OneRun
<1>8. TruncatedToWrite'
  BY <1>3 DEF SerialInv, TruncatedToWrite, content
<1>9. HeldIsStored'
  BY <1>2, <1>4 DEF SerialInv, HeldIsStored
<1>10. NotLoggedYet'
  BY <1>2, <1>4, <1>5 DEF SerialInv, NotLoggedYet
<1>11. QED
  BY <1>4, <1>5, <1>7, <1>8, <1>9, <1>10 DEF SerialInv

\* The truncation takes the log from the file into the memory of its run.
LEMMA SerialTruncate ==
  ASSUME SerialInv, Types', ~Failing, NEW r \in Recorder, Truncate(r)
  PROVE  SerialInv' /\ UNCHANGED Logged
<1>1. /\ pc[r] = "truncate" /\ pc' = [pc EXCEPT ![r] = "write"]
      /\ file' = <<>> /\ timeline' = timeline
  BY DEF Truncate, Goto
<1>2. pc \in [Recorder -> Stages]
  BY DEF SerialInv, Types, TypeOK
<1>3. \A q \in Recorder : pc'[q] = IF q = r THEN "write" ELSE pc[q]
  BY <1>1, <1>2
<1>4. \A q \in Recorder \ {r} : ~Active(q) /\ ~Active(q)'
  BY <1>1, <1>3 DEF SerialInv, OneRun, Active, Ended
<1>5. OneRun'
  BY <1>4 DEF OneRun
<1>6. Logged = timeline[r]
  <2>1. \A q \in Recorder : pc[q] # "write"
    BY <1>1, <1>4 DEF Active, Ended
  <2>2. QED
    BY <1>1, <2>1, LoggedFacts DEF SerialInv, HeldIsStored
<1>7. Logged' = timeline'[r]
  <2>1. \A q \in Recorder : pc'[q] = "write" <=> q = r
    BY <1>3, <1>4 DEF Active, Ended
  <2>2. (CHOOSE q \in Recorder : pc'[q] = "write") = r
    BY <2>1
  <2>3. QED
    BY <2>1, <2>2 DEF Logged
<1>8. TruncatedToWrite'
  BY <1>1, <1>3 DEF TruncatedToWrite
<1>9. HeldIsStored'
  BY <1>1, <1>3, <1>4 DEF SerialInv, HeldIsStored, Active, Ended
<1>10. NotLoggedYet'
  BY <1>1, <1>3, <1>6, <1>7 DEF SerialInv, NotLoggedYet
<1>11. QED
  BY <1>1, <1>5, <1>6, <1>7, <1>8, <1>9, <1>10 DEF SerialInv

\* The write to the truncated file records the run's snapshot in the log.
LEMMA SerialWrite ==
  ASSUME SerialInv, Types', NEW r \in Recorder, Write(r)
  PROVE  SerialInv' /\ Log!Record(r)
<1> DEFINE new == Append(timeline[r], r)
<1>1. /\ pc[r] = "write" /\ pc' = [pc EXCEPT ![r] = "reload"]
      /\ timeline' = [timeline EXCEPT ![r] = new]
      /\ file' = Overwritten(file, new, Size(new))
  BY DEF Write, Overwrite, Overwritten, Goto
<1>2. /\ pc \in [Recorder -> Stages] /\ timeline \in [Recorder -> Seq(Snapshot)]
      /\ timeline[r] \in Seq(Snapshot) /\ new \in Seq(Snapshot) /\ Size(new) \in Nat
  <2>1. /\ pc \in [Recorder -> Stages] /\ timeline \in [Recorder -> Seq(Snapshot)]
        /\ r \in Snapshot
    BY SnapshotFacts DEF SerialInv, Types, TypeOK
  <2>2. timeline[r] \in Seq(Snapshot) /\ new \in Seq(Snapshot)
    BY <2>1
  <2>3. Size(new) \in Nat
    BY <2>2, EncodeIs
  <2>4. QED
    BY <2>1, <2>2, <2>3
<1>3. \A q \in Recorder : pc'[q] = IF q = r THEN "reload" ELSE pc[q]
  BY <1>1, <1>2
<1>4. \A q \in Recorder \ {r} : ~Active(q) /\ ~Active(q)'
  BY <1>1, <1>3 DEF SerialInv, OneRun, Active, Ended
<1>5. content' = new
  <2>1. file = <<>> /\ <<>> \in Seq(Byte)
    BY <1>1 DEF SerialInv, TruncatedToWrite
  <2>2. Size(new) \in 0..Size(new) /\ Size(new) + 1 >= Size(new)
    BY <1>2
  <2>3. Decode(file') = new /\ file' \in Seq(Byte)
    BY <1>1, <1>2, <2>1, <2>2, DecodeOverwritten, OverwriteIs
  <2> QED BY <2>3, SnapshotFacts DEF content
<1>6. Logged = timeline[r]
  BY <1>1, LoggedFacts DEF SerialInv
<1>7. \A q \in Recorder : pc'[q] # "write"
  BY <1>3, <1>4 DEF Active, Ended
<1>8. new # Missing /\ new # Garbage
  BY <1>2, SnapshotFacts
<1>9. Logged' = new
  <2>1. file' # Missing
    BY <1>5, <1>8 DEF content
  <2> QED BY <1>5, <1>7, <2>1 DEF Logged
<1>10. r \notin Range(Logged)
  BY <1>1 DEF SerialInv, NotLoggedYet
<1>11. NotLoggedYet'
  <2>1. SUFFICES ASSUME NEW q \in Recorder,
                        pc'[q] \in {"idle", "fetch", "stat", "load", "truncate", "write"}
                 PROVE  q \notin Range(new)
    BY <1>9 DEF NotLoggedYet
  <2>2. q # r /\ q \notin Range(timeline[r])
    BY <1>3, <1>6, <2>1 DEF SerialInv, NotLoggedYet
  <2>3. QED
    BY <1>2, <2>2, RangeOfAppend
<1>12. OneRun'
  BY <1>4 DEF OneRun
<1>13. TruncatedToWrite'
  BY <1>5, <1>7, <1>8 DEF TruncatedToWrite
<1>14. HeldIsStored'
  BY <1>1, <1>2, <1>3, <1>4 DEF SerialInv, HeldIsStored, Active, Ended
<1>15. Log!Record(r)
  BY <1>6, <1>9, <1>10 DEF Log!Record, Range, Log!Range
<1>16. QED
  BY <1>11, <1>12, <1>13, <1>14, <1>15 DEF SerialInv

\* Every step keeps the invariant, and appends to the log or leaves it alone.
LEMMA NextSerial ==
  ASSUME ~Overlapping, ~Failing, SerialInv, [Next]_vars
  PROVE  SerialInv' /\ [Log!Next]_Logged
<1>1. Types'
  BY NextTypes DEF SerialInv
<1>2. /\ pc \in [Recorder -> Stages] /\ timeline \in [Recorder -> Seq(Snapshot)]
  BY DEF SerialInv, Types, TypeOK
<1>3. CASE UNCHANGED vars
  <2>1. UNCHANGED Logged
    BY <1>3 DEF vars, Logged, content
  <2>2. QED
    BY <1>1, <1>3, <2>1 DEF vars, SerialInv, OneRun, TruncatedToWrite, HeldIsStored,
                            NotLoggedYet, Active, Stored, content
<1>4. ASSUME NEW r \in Recorder, Start(r)
      PROVE  SerialInv' /\ UNCHANGED Logged
  <2>1. /\ pc[r] = "idle" /\ \A q \in Recorder : ~Active(q)
        /\ UNCHANGED <<file, timeline>> /\ pc' = [pc EXCEPT ![r] = "fetch"]
    BY <1>4 DEF Start, Goto
  <2>2. timeline[r] = <<>>
    BY <2>1 DEF SerialInv, HeldIsStored
  <2>3. "fetch" \in Stages \ {"write"}
    BY DEF Stages
  <2>4. QED
    BY <1>1, <2>1, <2>2, <2>3, SerialStep
<1>5. ASSUME NEW r \in Recorder, Fetch(r) \/ Stat(r) \/ Load(r) \/ Reload(r)
      PROVE  SerialInv' /\ UNCHANGED Logged
  <2>1. Active(r) /\ pc[r] # "write"
    BY <1>5 DEF Fetch, Stat, Load, Reload, Active, Ended
  <2>2. \A q \in Recorder : Active(q) => q = r
    BY <2>1 DEF SerialInv, OneRun
  <2>3. UNCHANGED file /\ \A q \in Recorder \ {r} : timeline'[q] = timeline[q]
    BY <1>2, <1>5 DEF Fetch, Stat, Load, Reload
  <2>4. PICK stage \in Stages \ {"write"} :
          /\ pc' = [pc EXCEPT ![r] = stage]
          /\ stage # "idle"
          /\ stage \in {"fetch", "stat", "load"} => timeline'[r] = <<>>
          /\ stage = "truncate" => timeline'[r] = Stored
          /\ stage \in {"fetch", "stat", "load", "truncate"} =>
               pc[r] \in {"idle", "fetch", "stat", "load"}
    <3>1. CASE Fetch(r)
      BY <3>1 DEF Fetch, Goto, Stages, SerialInv, HeldIsStored
    <3>2. CASE Stat(r)
      BY <3>2 DEF Stat, Goto, Stages, SerialInv, HeldIsStored, Stored
    <3>3. CASE Load(r)
      BY <1>2, <3>3 DEF Load, Goto, Stages, Stored, Readable, content
    <3>4. CASE Reload(r)
      BY <3>4 DEF Reload, Goto, Stages
    <3>5. QED
      BY <1>5, <3>1, <3>2, <3>3, <3>4
  <2>5. QED
    BY <1>1, <2>1, <2>2, <2>3, <2>4, SerialStep
<1>6. ASSUME NEW r \in Recorder, Start(r) \/ Step(r) \/ Kill(r)
      PROVE  SerialInv' /\ [Log!Next]_Logged
  <2>1. ~WriteShort(r) /\ ~Kill(r)
    BY DEF WriteShort, Kill
  <2>2. CASE Write(r)
    BY <1>1, <2>2, SerialWrite DEF Log!Next
  <2>3. CASE Truncate(r)
    BY <1>1, <2>3, SerialTruncate
  <2>4. QED
    BY <1>4, <1>5, <1>6, <2>1, <2>2, <2>3 DEF Step
<1>7. QED
  BY <1>3, <1>6 DEF Next

\* When no run starts before the last has ended and none fails in the middle,
\* the stat, load, truncate and write of AppendSnapshot are together one append
\* to a log that loses nothing, for any number of runs (io.go:73-88).
THEOREM SerialRunsImplementLog ==
  ASSUME ~Overlapping, ~Failing
  PROVE  Spec => ImplementsLog
<1>1. SerialInv /\ [Next]_vars => SerialInv' /\ [Log!Next]_Logged
  BY NextSerial
<1>2. QED
  BY <1>1, InitSerial, PTL DEF Spec, ImplementsLog, Log!Spec
=============================================================================
